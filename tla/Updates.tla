------------------------------- MODULE Updates -------------------------------
(***************************************************************************)
(* The common update box of Api::Updates (api/api_updates.cpp): updates    *)
(* come from the server as pushes and inside the results of requests, in   *)
(* any order; pushes can be lost; what was missed is fetched by            *)
(* updates.getDifference, which can come in slices, fail and be repeated.  *)
(*                                                                         *)
(* A container of updates is let in as a whole and fed entry by entry,     *)
(* with nothing in between.  Until an entry asks for a difference, feeding *)
(* them is feeding as many messages of one update; an entry that asks is   *)
(* one step with all the entries after it, which meet a box that asks.     *)
(*                                                                         *)
(* The server is the environment: it hands out consecutive pts values, and *)
(* its answer to a difference request holds every update between the pts   *)
(* of the request and the pts of the answer.                               *)
(***************************************************************************)
EXTENDS PtsWaiter

CONSTANTS
  StartPts,   \* the server's pts when the session starts
  MaxPts,     \* bound: the server stops producing there
  PtsCounts,  \* the pts_count values of the updates it produces
  Ways        \* how they come: a subset of AllWays

\* How an update comes: pushed by the server, as the updates inside a
\* request's result, or as the bare pts of a result (affectedMessages).
AllWays == {"push", "result", "affected"}

ASSUME ConstantsAssumption ==
  /\ StartPts \in Nat \ {0}
  /\ MaxPts \in Nat
  /\ StartPts <= MaxPts
  /\ PtsCounts \subseteq Nat
  /\ Ways \subseteq AllWays

VARIABLES
  box,        \* _ptsWaiter, with _getDifferenceTimeByPts as its timer
  failTimer,  \* _getDifferenceTimeAfterFail # 0
  diff,       \* the GetState or GetDifference request, if one is in flight
  spts,       \* server: the pts of its latest update
  log,        \* server: the updates produced since the session started
  net,        \* the updates on their way to the client
  base,       \* history: the pts of the last init()
  heard,      \* history: the pts values counted since that init()
  applied,    \* history: the pts values whose update reached the data
  again       \* history: those that reached it again outside a difference

client == <<box, failTimer, diff>>
server == <<spts, log>>
history == <<base, heard, applied, again>>
vars == <<client, server, net, history>>

Updates == [pts : Nat, count : Nat, via : AllWays]

Stages == {"idle", "state", "gotState", "asked", "slice", "whole", "error"}

Request == [stage : Stages, from : Nat, upto : Nat]

Boundaries == {StartPts} \cup {u.pts : u \in log}

-----------------------------------------------------------------------------
(* The server and the network.                                             *)

Produce(n, way) ==
  /\ spts + n <= MaxPts
  /\ LET u == [pts |-> spts + n, count |-> n, via |-> way]
     IN  log' = log \cup {u} /\ net' = net \cup {u}
  /\ spts' = spts + n
  /\ UNCHANGED <<client, history>>

Lose(u) ==
  /\ u.via = "push"
  /\ net' = net \ {u}
  /\ UNCHANGED <<client, server, history>>

AnswerState ==
  /\ diff.stage = "state"
  /\ diff' = [diff EXCEPT !.stage = "gotState", !.upto = spts]
  /\ UNCHANGED <<box, failTimer, server, net, history>>

\* differenceEmpty is the whole difference with nothing in it.
AnswerWhole ==
  /\ diff.stage = "asked"
  /\ diff' = [diff EXCEPT !.stage = "whole", !.upto = spts]
  /\ UNCHANGED <<box, failTimer, server, net, history>>

AnswerSlice(upto) ==
  /\ diff.stage = "asked"
  /\ diff.from < upto
  /\ upto < spts
  /\ diff' = [diff EXCEPT !.stage = "slice", !.upto = upto]
  /\ UNCHANGED <<box, failTimer, server, net, history>>

AnswerError ==
  /\ diff.stage = "asked"
  /\ diff' = [diff EXCEPT !.stage = "error"]
  /\ UNCHANGED <<box, failTimer, server, net, history>>

-----------------------------------------------------------------------------
(* The client.                                                             *)

NoRequest == [stage |-> "idle", from |-> 0, upto |-> 0]

\* getDifference(), called with the box b.
GetDifference(b) ==
  IF b.requesting
  THEN /\ box' = [b EXCEPT !.timer = FALSE]
       /\ UNCHANGED <<failTimer, diff>>
  ELSE /\ box' = [SetRequesting(b, TRUE) EXCEPT !.timer = FALSE]
       /\ diff' = [stage |-> "asked", from |-> b.good, upto |-> b.good]
       /\ failTimer' = FALSE

\* The history of a step that hands the updates of out to the data.
Record(u, out) ==
  /\ heard' = IF Counts(box, u) THEN heard \cup Points(u) ELSE heard
  /\ again' = again \cup (applied \cap PointsOf(out))
  /\ UNCHANGED base

\* applyUpdates() and feedUpdate() for one update that takes pts.
Feed(u) ==
  LET done == UpdateAndApply(box, u)
  IN  /\ box' = done.box
      /\ Record(u, done.out)
      /\ applied' = applied \cup PointsOf(done.out)
      /\ UNCHANGED <<failTimer, diff>>

\* mtpUpdateReceived(): pushes are skipped while a difference is requested.
\* This is a short message, or an entry of a container that was let in.
ReceivePush(u) ==
  /\ u.via = "push"
  /\ net' = net \ {u}
  /\ IF box.requesting THEN UNCHANGED <<client, history>> ELSE Feed(u)
  /\ UNCHANGED server

\* The result of a request goes to applyUpdates() whatever is going on.
ReceiveResult(u) ==
  /\ u.via = "result"
  /\ net' = net \ {u}
  /\ Feed(u)
  /\ UNCHANGED server

\* applyAffectedHistory() and applyAffectedMessages(): the caller has made
\* the change itself.
ReceiveAffected(u) ==
  /\ u.via = "affected"
  /\ net' = net \ {u}
  /\ LET done == UpdateAndApplyPts(box, u)
     IN  /\ box' = done.box
         /\ Record(u, done.out)
         /\ applied' = applied \cup PointsOf(done.out) \cup Points(u)
  /\ UNCHANGED <<failTimer, diff, server>>

\* The entries of a container after the one that asked: updated() lets all of
\* them through uncounted, and as nothing is saved they go to the data at once.
FeedUnchecked(rest) ==
  /\ applied' = applied \cup PointsOf(rest)
  /\ again' = again \cup (applied \cap PointsOf(rest))
  /\ UNCHANGED <<base, heard>>

Others(u) == {v \in net \ {u} : v.via = u.via}

\* feedUpdate() of a new message that names users or chats the client has not
\* loaded: it asks, unless the box asks already, and only this entry is left out.
ReceiveEntryNotLoaded(u, rest) ==
  /\ u.via # "affected"
  /\ ~box.requesting
  /\ rest \subseteq Others(u)
  /\ net' = net \ ({u} \cup rest)
  /\ GetDifference(box)
  /\ FeedUnchecked(rest)
  /\ UNCHANGED server

\* An entry about a channel that starts the channel's timer runs
\* getDifferenceByPts(), which asks if the timer of this box is due by then.
ReceiveEntryWhenDue(rest) ==
  /\ box.timer
  /\ ~box.requesting
  /\ rest \subseteq {v \in net : v.via = "push"}
  /\ net' = net \ rest
  /\ GetDifference(box)
  /\ FeedUnchecked(rest)
  /\ UNCHANGED server

\* A short message that names users or chats the client has not loaded.
ReceiveNotLoaded(u) ==
  /\ u.via # "affected"
  /\ u.via = "push" => ~box.requesting
  /\ net' = net \ {u}
  /\ GetDifference(box)
  /\ UNCHANGED <<server, history>>

\* mtpNewSessionCreated(), updatesTooLong and _byMinChannelTimer.
Resync ==
  /\ GetDifference(box)
  /\ UNCHANGED <<server, net, history>>

\* Slip: the timer only forgets its time.
PtsTimerIdle ==
  /\ box.timer
  /\ box' = [box EXCEPT !.timer = FALSE]
  /\ UNCHANGED <<failTimer, diff, server, net, history>>

\* getDifferenceByPts(), run by _byPtsTimer.
PtsTimer ==
  /\ box.timer
  /\ GetDifference(box)
  /\ UNCHANGED <<server, net, history>>

\* setState() with a new pts: the box starts counting again from there.
StartFrom(pts) ==
  /\ base' = pts
  /\ heard' = {}

\* stateDone(): requestDialogs() brings everything up to this pts.
StateDone ==
  /\ diff.stage = "gotState"
  /\ box' = SetRequesting(InitAt(box, diff.upto), FALSE)
  /\ diff' = NoRequest
  /\ StartFrom(diff.upto)
  /\ applied' = applied \cup 1 .. diff.upto
  /\ UNCHANGED <<failTimer, again, server, net>>

\* Slip: the state is taken and its updates are not.
DifferenceDoneUnfed ==
  /\ diff.stage = "whole"
  /\ box' = SetRequesting(InitAt(box, diff.upto), FALSE)
  /\ diff' = NoRequest
  /\ StartFrom(diff.upto)
  /\ UNCHANGED <<failTimer, applied, again, server, net>>

\* differenceDone(): feedDifference(), then setState().
DifferenceDone ==
  /\ diff.stage = "whole"
  /\ box' = SetRequesting(InitAt(box, diff.upto), FALSE)
  /\ diff' = NoRequest
  /\ StartFrom(diff.upto)
  /\ applied' = applied \cup (diff.from + 1) .. diff.upto
  /\ UNCHANGED <<failTimer, again, server, net>>

\* A slice is fed the same way and the next one is asked for at once.
DifferenceSlice ==
  /\ diff.stage = "slice"
  /\ GetDifference(SetRequesting(InitAt(box, diff.upto), FALSE))
  /\ StartFrom(diff.upto)
  /\ applied' = applied \cup (diff.from + 1) .. diff.upto
  /\ UNCHANGED <<again, server, net>>

\* differenceFail(): the box stays requesting until the fail timer.
DifferenceFail ==
  /\ diff.stage = "error"
  /\ failTimer' = TRUE
  /\ diff' = NoRequest
  /\ UNCHANGED <<box, server, net, history>>

\* Slip: the box asks while it still is requesting.
FailTimerStill ==
  /\ failTimer
  /\ GetDifference(box)
  /\ UNCHANGED <<server, net, history>>

\* getDifferenceAfterFail().
FailTimer ==
  /\ failTimer
  /\ GetDifference(SetRequesting(box, FALSE))
  /\ UNCHANGED <<server, net, history>>

-----------------------------------------------------------------------------
Init ==
  /\ box = SetRequesting(EmptyBox, TRUE)
  /\ failTimer = FALSE
  /\ diff = [stage |-> "state", from |-> 0, upto |-> 0]
  /\ spts = StartPts
  /\ log = {}
  /\ net = {}
  /\ base = 0
  /\ heard = {}
  /\ applied = {}
  /\ again = {}

Environment ==
  \/ \E n \in PtsCounts, way \in Ways : Produce(n, way)
  \/ \E u \in net : Lose(u)
  \/ AnswerState
  \/ AnswerWhole
  \/ \E upto \in Boundaries : AnswerSlice(upto)
  \/ AnswerError

Receive(u) ==
  \/ ReceivePush(u)
  \/ ReceiveResult(u)
  \/ ReceiveAffected(u)
  \/ ReceiveNotLoaded(u)
  \/ \E rest \in SUBSET Others(u) : ReceiveEntryNotLoaded(u, rest)

Respond ==
  \/ StateDone
  \/ DifferenceDone
  \/ DifferenceSlice
  \/ DifferenceFail

Client ==
  \/ \E u \in net : Receive(u)
  \/ \E rest \in SUBSET {v \in net : v.via = "push"} : ReceiveEntryWhenDue(rest)
  \/ Resync
  \/ PtsTimer
  \/ Respond
  \/ FailTimer

Next == Environment \/ Client

Spec == Init /\ [][Next]_vars

(***************************************************************************)
(* The event loop runs what is due: timers that are set and responses that *)
(* came.  A server that is asked again and again does not only fail.       *)
(***************************************************************************)
Fairness ==
  /\ WF_vars(PtsTimer)
  /\ WF_vars(FailTimer)
  /\ WF_vars(Respond)
  /\ WF_vars(AnswerState)
  /\ SF_vars(AnswerWhole)

FairSpec == Spec /\ Fairness

-----------------------------------------------------------------------------
TypeOK ==
  /\ box \in Boxes(Updates)
  /\ failTimer \in BOOLEAN
  /\ diff \in Request
  /\ spts \in Nat
  /\ log \subseteq Updates
  /\ net \subseteq log
  /\ base \in Nat
  /\ heard \subseteq Nat
  /\ applied \subseteq Nat
  /\ again \subseteq Nat

(* The pts the client reports as its own never leaves a hole behind it:    *)
(* whatever came late, twice, out of order or not at all, every update at  *)
(* or below _good was applied.  This is what lets getDifference ask from   *)
(* current() only.                                                         *)
NothingSkipped == 1 .. box.good \subseteq applied

RepeatsUnchecked ==
  again' # again =>
     /\ box'.requesting
     /\ box.requesting =>
          again' \subseteq again \cup PointsOf({u \in log : u.via = "result"})

(* Nothing is applied over itself by a box that trusts its pts: an update  *)
(* reaches the data a second time, outside a difference, only past a box   *)
(* that asks for one.  In the step that asks it may be any later entry of  *)
(* the same container (updated() no longer looks at its pts); while the    *)
(* box goes on asking only the results of requests are let in.             *)
NoReplay == [][RepeatsUnchecked]_vars

(* Pushed updates reach the data in pts order as long as the box trusts its*)
(* pts.  What the rest of a container brought ahead of a missing update,   *)
(* past the check, is covered by the difference that was asked for before  *)
(* the box stops asking: it never counts from a pts below it.              *)
InOrder ==
  ~box.requesting =>
     \A u \in log :
       u.via = "push" /\ u.count > 0 /\ Points(u) \subseteq applied
         => u.pts <= box.good

(* A box that knows of a gap has a timer running or asks already; and while*)
(* it asks for a difference nothing is saved for later, so that nothing old*)
(* is left to be applied after it.                                         *)
WaitsOrAsks ==
  /\ box.last # box.count => box.timer \/ box.requesting
  /\ box.requesting => box.queue = {}

(* Every pts the client has heard of is reached in the end.                *)
HeardIsReached ==
  \A p \in 1 .. MaxPts : (box.last >= p) ~> (box.good >= p)

(* Asking for a difference ends, whatever fails on the way.                *)
AskingEnds == box.requesting ~> ~box.requesting

(* What the box promises, whatever the network does: the known pts only    *)
(* grows, never beyond the server's, and only over updates that reached    *)
(* the data.                                                               *)
Log == INSTANCE UpdateLog WITH top <- spts, known <- box.good, done <- applied

ImplementsLog == Log!Spec

-----------------------------------------------------------------------------
(* The inductive invariant behind NothingSkipped and ImplementsLog.        *)

Before(u, v) == u.pts <= v.pts - v.count

(* The server's updates cover disjoint runs of pts after StartPts.         *)
LogIsOrdered ==
  /\ spts >= StartPts
  /\ \A u \in log : StartPts + u.count <= u.pts /\ u.pts <= spts
  /\ \A u, v \in log : u = v \/ Before(u, v) \/ Before(v, u)

(* A pts between updates: no update starts before it and ends after it.    *)
IsBoundary(pts) == \A u \in log : u.pts <= pts \/ pts <= u.pts - u.count

(* _count is the pts of the last init() and one for each pts heard since,  *)
(* and what is on its way was not heard yet.                               *)
CountIsHeard ==
  /\ base <= box.good /\ box.good <= box.last /\ box.last <= spts
  /\ heard \subseteq (base + 1) .. box.last
  /\ box.count = base + Cardinality(heard)
  /\ IsBoundary(base)
  /\ \A u \in net : Points(u) \cap heard = {}

(* What was heard reached the data or is saved, and what is saved waits,   *)
(* until a difference is asked for.                                        *)
HeardIsKept ==
  /\ ~box.requesting => heard \subseteq applied \cup PointsOf(box.queue)
  /\ box.queue # {} => box.waiting
  /\ box.queue \subseteq log

(* The request in flight starts from the known pts and ends between two    *)
(* updates; only a box with a pts is not asking.                           *)
AskedFromGood ==
  /\ ~box.requesting => Inited(box)
  /\ diff.stage # "idle" => box.requesting
  /\ diff.stage \in {"asked", "slice", "whole", "error"} => diff.from = box.good
  /\ diff.stage \in {"gotState", "slice", "whole"} =>
       /\ StartPts <= diff.upto /\ diff.upto <= spts
       /\ box.good <= diff.upto
       /\ IsBoundary(diff.upto)

AppliedIsProduced == applied \subseteq 1 .. spts

IInv ==
  /\ TypeOK
  /\ LogIsOrdered
  /\ CountIsHeard
  /\ HeardIsKept
  /\ AskedFromGood
  /\ AppliedIsProduced
  /\ NothingSkipped

=============================================================================
