------------------------------ MODULE UpdateLog ------------------------------
(***************************************************************************)
(* What a box of updates promises the rest of the client, without saying   *)
(* how: the server's updates form a log, and the client knows a prefix of  *)
(* it.  Updates may reach the data early, but the known prefix only grows, *)
(* stays within the log, and holds nothing that did not reach the data.    *)
(* That is what makes it enough to ask the server for the updates after    *)
(* the known pts.                                                          *)
(***************************************************************************)
EXTENDS Integers

VARIABLES
  top,    \* the pts of the latest update of the log
  known,  \* the pts the client reports as its own
  done    \* the pts values whose update reached the data

logVars == <<top, known, done>>

Init ==
  /\ top \in Nat
  /\ known \in 0 .. top
  /\ done = 1 .. known

Produce ==
  /\ top' \in Nat
  /\ top' > top
  /\ UNCHANGED <<known, done>>

CatchUp ==
  /\ done \subseteq done'
  /\ done' \subseteq 1 .. top
  /\ known' \in known .. top
  /\ 1 .. known' \subseteq done'
  /\ UNCHANGED top

Next == Produce \/ CatchUp

Spec == Init /\ [][Next]_logVars

=============================================================================
