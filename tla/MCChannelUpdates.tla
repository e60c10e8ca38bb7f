--------------------------- MODULE MCChannelUpdates ---------------------------
(* Instances of ChannelUpdates for TLC: the cfg files give the constants.  *)
EXTENDS ChannelUpdates

=============================================================================
