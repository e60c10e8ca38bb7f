----------------------------- MODULE MCHistories -----------------------------
(***************************************************************************)
(* Histories for TLC: all there is about one history, and reading others   *)
(* beside it, which have one timer and one call for their entries.         *)
(***************************************************************************)
EXTENDS Histories

CONSTANTS
  Main,       \* the history about which there is anything
  MaxMade,    \* bound: the requests made, and the message the last one reads up to
  SharedTill  \* bound: the largest message id once others are read

Untouched(p) == states[p] = NewState /\ \A S \in SUBSET Peers : p \in S => asked[S] = 0

OnlyReadTo(s, till) ==
  /\ s.made <= s.told /\ \A r \in s.sent : r.kind = "read"
  /\ s.cancelled = {} /\ \A t \in {s.read, s.told, s.willTill, s.sentTill} : t <= till

Bounded ==
  \/ /\ \A p \in Peers \ {Main} : Untouched(p)
     /\ states[Main].made + states[Main].told <= MaxMade
  \/ \A p \in Peers : OnlyReadTo(states[p], SharedTill)

MCNext == Next /\ Bounded'

MCFairSpec == Init /\ [][MCNext]_vars /\ Fairness

==============================================================================
