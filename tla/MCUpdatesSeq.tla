----------------------------- MODULE MCUpdatesSeq -----------------------------
(* Instances of UpdatesSeq for TLC: the cfg files give the constants.      *)
EXTENDS UpdatesSeq

=============================================================================
