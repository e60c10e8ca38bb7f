------------------------------ MODULE FrameFlow ------------------------------
(***************************************************************************)
(* What the frames of a video track promise to the one who paints them,    *)
(* whatever threads and buffers there are between the decoder and the      *)
(* screen: one frame at a time is offered, each offered frame comes later  *)
(* in the video than everything painted before, and it is the earliest of  *)
(* those that are ready.  Frames are lost only where that was asked for.   *)
(***************************************************************************)
EXTENDS Integers, FiniteSets, FiniteSetsExt

CONSTANTS
  Last,  \* the frames of the video are 1 .. Last, by position
  Ahead  \* how many frames may be ready before they are offered

VARIABLES
  ready,    \* the frames that are decoded and wait
  offered,  \* the frame that is to be displayed, or 0
  painted,  \* the frame on the screen
  lossy     \* whether frames that come too late are dropped

vars == <<ready, offered, painted, lossy>>

Init ==
  /\ ready = {}
  /\ offered = 0
  /\ painted = 1
  /\ lossy \in BOOLEAN

(* A frame becomes ready, perhaps in the place of one that is dropped.     *)
Make(p) ==
  /\ p > painted /\ p > offered /\ p \notin ready
  /\ \/ ready' = ready \cup {p}
     \/ lossy /\ \E q \in ready : ready' = (ready \ {q}) \cup {p}
  /\ Cardinality(ready') <= Ahead
  /\ UNCHANGED <<offered, painted, lossy>>

Drop(p) ==
  /\ lossy
  /\ ready' = ready \ {p}
  /\ UNCHANGED <<offered, painted, lossy>>

Offer ==
  /\ offered = 0 /\ ready # {}
  /\ offered' = Min(ready)
  /\ ready' = ready \ {offered'}
  /\ UNCHANGED <<painted, lossy>>

Show ==
  /\ offered # 0
  /\ painted' = offered
  /\ offered' = 0
  /\ UNCHANGED <<ready, lossy>>

Next ==
  \/ \E p \in 1 .. Last : Make(p)
  \/ \E p \in ready : Drop(p)
  \/ Offer
  \/ Show

Spec == Init /\ [][Next]_vars

==============================================================================
