---- MODULE MCFrameRing ----
(* Instances of FrameRing for TLC: see the MCFrame*.cfg files.  The video  *)
(* has as many frames as may be, and fewer where they may be dropped: that *)
(* has by far the more states.                                             *)
EXTENDS FrameRing

CONSTANT LastDropped \* the last frame of a video whose frames may be dropped

MCInit == Init /\ left = 2 .. (IF wait THEN Last ELSE LastDropped)

MCSpec == MCInit /\ [][Next]_vars
MCFairSpec == MCSpec /\ Fairness
====
