------------------------------ MODULE MCSession ------------------------------
(***************************************************************************)
(* Session for TLC: the requests are asked in the order of their ids, and  *)
(* there is less trouble on the way of all of them than of the first.      *)
(***************************************************************************)
EXTENDS Session

CONSTANT MaxTrouble  \* bound: faults and errors together

Asked == {r \in Requests : call[r] # "new"}

Bounded ==
  /\ Asked = {r \in Requests : r <= Cardinality(Asked)}
  /\ faults + errors <= MaxTrouble
  /\ Asked = Requests => faults <= 1 /\ errors = 0

MCNext == Next /\ Bounded'

MCSpec == Init /\ [][MCNext]_vars

MCFairSpec == MCSpec /\ Fairness

==============================================================================
