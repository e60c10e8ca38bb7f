-------------------------------- MODULE Calls --------------------------------
(***************************************************************************)
(* What an MTProto session promises to those who send requests by it,      *)
(* whatever connections break and whatever is sent again: a request is     *)
(* carried out at most once by one server session, unless a server once    *)
(* answered that it has to be repeated, and its callback gets an outcome   *)
(* the server gave, once, and never after it was cancelled.                *)
(***************************************************************************)
EXTENDS Integers

CONSTANT Requests

VARIABLES
  call,  \* how far each request is for the one who sent it
  ran,   \* how often the server session has carried out each request
  owed   \* the outcomes there have been

vars == <<call, ran, owed>>

Outcomes == [request : Requests, ok : BOOLEAN]

Init ==
  /\ call = [r \in Requests |-> "new"]
  /\ ran = [r \in Requests |-> 0]
  /\ owed = {}

Ask(r) ==
  /\ call[r] = "new"
  /\ call' = [call EXCEPT ![r] = "open"]
  /\ UNCHANGED <<ran, owed>>

(* A packet of requests is handled: some are carried out, others have to   *)
(* be repeated.  A request that has to be repeated gets another msg_id     *)
(* while the message it had may still be on its way, and a server that     *)
(* forgot what it answered takes both.                                     *)
Run(outcomes) ==
  /\ outcomes # {}
  /\ \A o \in outcomes :
       /\ call[o.request] # "new"
       /\ ran[o.request] = 0 \/ [request |-> o.request, ok |-> FALSE] \in owed
  /\ \A o, q \in outcomes : o.request = q.request => o = q
  /\ ran' = [r \in Requests |->
               IF [request |-> r, ok |-> TRUE] \in outcomes THEN ran[r] + 1 ELSE ran[r]]
  /\ owed' = owed \cup outcomes
  /\ UNCHANGED call

Answer(r) ==
  /\ call[r] = "open"
  /\ [request |-> r, ok |-> TRUE] \in owed
  /\ call' = [call EXCEPT ![r] = "answered"]
  /\ UNCHANGED <<ran, owed>>

Cancel(r) ==
  /\ call[r] = "open"
  /\ call' = [call EXCEPT ![r] = "cancelled"]
  /\ UNCHANGED <<ran, owed>>

(* Another server session knows nothing of what this one has carried out.  *)
Forget ==
  /\ ran' = [r \in Requests |-> 0]
  /\ UNCHANGED <<call, owed>>

Next ==
  \/ \E r \in Requests : Ask(r) \/ Answer(r) \/ Cancel(r)
  \/ \E outcomes \in SUBSET Outcomes : Run(outcomes)
  \/ Forget

Spec == Init /\ [][Next]_vars

==============================================================================
