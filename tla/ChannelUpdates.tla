---------------------------- MODULE ChannelUpdates ----------------------------
(***************************************************************************)
(* The update box of one channel (ChannelData::_ptsWaiter) and the part of *)
(* Api::Updates that drives it: getChannelDifference on a gap, after a     *)
(* failure and as a short poll of the channels that are open on screen.    *)
(*                                                                         *)
(* The box has no pts until something about the channel tells one.  Bare   *)
(* pts values also come with history pages and dialogs (ptsReceived): they *)
(* take no pts themselves and reveal what was missed.                      *)
(***************************************************************************)
EXTENDS PtsWaiter

CONSTANTS
  StartPts,   \* the channel's pts when the model starts
  FirstPts,   \* the pts the box starts with: 0, or StartPts from a dialog
  MaxPts,     \* bound: the server stops producing there
  PtsCounts,  \* the pts_count values of the updates it produces
  Ways,       \* how updates come: a subset of AllWays
  MayFail     \* whether getChannelDifference requests can fail

AllWays == {"push", "affected", "known"}

ASSUME ConstantsAssumption ==
  /\ StartPts \in Nat \ {0}
  /\ MaxPts \in Nat
  /\ StartPts <= MaxPts
  /\ FirstPts \in {0, StartPts}
  /\ PtsCounts \subseteq Nat
  /\ Ways \subseteq AllWays
  /\ MayFail \in BOOLEAN

VARIABLES
  box,        \* channel->_ptsWaiter; its timer: a place in _whenGetDiffByPts
  failTimer,  \* a place in _whenGetDiffAfterFail
  active,     \* the channel is in _activeChats
  diff,       \* the GetChannelDifference request, if one is in flight
  spts,       \* server: the channel's pts
  log,        \* server: the updates produced
  net,        \* what is on its way to the client
  base,       \* history: the pts of the last init()
  heard,      \* history: the pts values counted since then
  applied     \* history: the pts values whose update reached the data

client == <<box, failTimer, active, diff>>
server == <<spts, log>>
history == <<base, heard, applied>>
vars == <<client, server, net, history>>

\* An update, or a pts that is only made known and takes none.
Messages == [pts : Nat, count : Nat, via : AllWays]

Stages == {"idle", "asked", "part", "last", "error"}

Request == [stage : Stages, from : Nat, upto : Nat]

Boundaries == {StartPts} \cup {u.pts : u \in log}

-----------------------------------------------------------------------------
(* The server and the network.                                             *)

Produce(n, way) ==
  /\ way # "known"
  /\ spts + n <= MaxPts
  /\ LET u == [pts |-> spts + n, count |-> n, via |-> way]
     IN  log' = log \cup {u} /\ net' = net \cup {u}
  /\ spts' = spts + n
  /\ UNCHANGED <<client, history>>

\* A history page, a dialog or a search result with the channel's pts.
TellPts ==
  /\ "known" \in Ways
  /\ net' = net \cup {[pts |-> spts, count |-> 0, via |-> "known"]}
  /\ UNCHANGED <<client, server, history>>

\* Lost by the server, or skipped by mtpUpdateReceived() while the common
\* box asks for its own difference.
Lose(u) ==
  /\ u.via = "push"
  /\ net' = net \ {u}
  /\ UNCHANGED <<client, server, history>>

\* channelDifference, channelDifferenceEmpty and channelDifferenceTooLong
\* differ for the box only in the pts they bring it to and in is_final.
Answer(upto) ==
  /\ diff.stage = "asked"
  /\ diff.from <= upto
  /\ diff' = [diff EXCEPT !.upto = upto,
                          !.stage = IF upto = spts THEN "last" ELSE "part"]
  /\ diff.from < upto \/ upto = spts
  /\ UNCHANGED <<box, failTimer, active, server, net, history>>

AnswerError ==
  /\ MayFail
  /\ diff.stage = "asked"
  /\ diff' = [diff EXCEPT !.stage = "error"]
  /\ UNCHANGED <<box, failTimer, active, server, net, history>>

-----------------------------------------------------------------------------
(* The client.                                                             *)

NoRequest == [stage |-> "idle", from |-> 0, upto |-> 0]

\* getChannelDifference() with the box b and the retry that is left: nothing
\* more happens while the box has no pts or asks already.
GetChannelDifference(b, retry) ==
  IF ~Inited(b) \/ b.requesting
  THEN box' = b /\ failTimer' = retry /\ UNCHANGED diff
  ELSE /\ box' = SetRequesting(b, TRUE)
       /\ diff' = [stage |-> "asked", from |-> b.good, upto |-> b.good]
       /\ failTimer' = FALSE

\* Every cause but a gap or a short poll drops the channel's timer.
Untimed(b) == [b EXCEPT !.timer = FALSE]

\* The first pts the box is told becomes its start: what is before it comes
\* with the history when it is loaded.
Record(u, got) ==
  IF ~box.requesting /\ ~Inited(box)
  THEN base' = u.pts /\ heard' = {} /\ applied' = applied \cup got \cup 1 .. u.pts
  ELSE /\ heard' = IF Counts(box, u) THEN heard \cup Points(u) ELSE heard
       /\ applied' = applied \cup got
       /\ UNCHANGED base

\* feedUpdate(): channel updates are skipped while the box asks.
ReceivePush(u) ==
  /\ u.via = "push"
  /\ net' = net \ {u}
  /\ IF box.requesting THEN UNCHANGED <<box, history>>
     ELSE LET done == UpdateAndApply(box, u)
          IN  box' = done.box /\ Record(u, PointsOf(done.out))
  /\ UNCHANGED <<failTimer, active, diff, server>>

\* ptsUpdateAndApply() with the pts of a result, and ptsReceived().
ReceivePts(u) ==
  /\ u.via \in {"affected", "known"}
  /\ net' = net \ {u}
  /\ LET done == UpdateAndApplyPts(box, u)
     IN  box' = done.box /\ Record(u, PointsOf(done.out) \cup Points(u))
  /\ UNCHANGED <<failTimer, active, diff, server>>

\* Slip: the timer only forgets the channel.
PtsTimerIdle ==
  /\ box.timer
  /\ box' = Untimed(box)
  /\ UNCHANGED <<failTimer, active, diff, server, net, history>>

\* getDifferenceByPts(): the channel leaves _whenGetDiffByPts whatever
\* getChannelDifference() did.
PtsTimer ==
  /\ box.timer
  /\ GetChannelDifference(Untimed(box), failTimer)
  /\ UNCHANGED <<active, server, net, history>>

\* updateChannelTooLong: without a pts it asks always, with one when the known
\* pts is below it.
TooLong ==
  /\ GetChannelDifference(Untimed(box), failTimer)
  /\ UNCHANGED <<active, server, net, history>>

\* Slip: the pts is taken and its updates are not.
InitFromNothing ==
  /\ base' = diff.upto
  /\ heard' = {}
  /\ UNCHANGED applied

\* channelDifferenceDone().
InitFromDifference ==
  /\ base' = diff.upto
  /\ heard' = {}
  /\ applied' = applied \cup (diff.from + 1) .. diff.upto

Reinited == SetRequesting(InitAt(box, diff.upto), FALSE)

\* Slip: the channel asks while it still is requesting.
DifferencePartStill ==
  /\ diff.stage = "part"
  /\ InitFromDifference
  /\ GetChannelDifference(Untimed(InitAt(box, diff.upto)), failTimer)
  /\ UNCHANGED <<active, server, net>>

DifferencePart ==
  /\ diff.stage = "part"
  /\ InitFromDifference
  /\ GetChannelDifference(Untimed(Reinited), failTimer)
  /\ UNCHANGED <<active, server, net>>

DifferenceLast ==
  /\ diff.stage = "last"
  /\ InitFromDifference
  /\ box' = IF active THEN StartPolling(Reinited) ELSE Reinited
  /\ diff' = NoRequest
  /\ UNCHANGED <<failTimer, active, server, net>>

\* channelDifferenceFail(): only the retry is planned.
DifferenceFail ==
  /\ diff.stage = "error"
  /\ failTimer' = TRUE
  /\ diff' = NoRequest
  /\ UNCHANGED <<box, active, server, net, history>>

\* getDifferenceAfterFail(), where the channel leaves _whenGetDiffAfterFail.
FailTimer ==
  /\ failTimer
  /\ GetChannelDifference(Untimed(box), FALSE)
  /\ UNCHANGED <<active, server, net, history>>

\* addActiveChat(): the chat is shown, the chat is closed.
Activate ==
  /\ ~active
  /\ active' = TRUE
  /\ box' = StartPolling(box)
  /\ UNCHANGED <<failTimer, diff, server, net, history>>

Deactivate ==
  /\ active
  /\ active' = FALSE
  /\ UNCHANGED <<box, failTimer, diff, server, net, history>>

\* deleteHistory() of a channel that is left: closeChatFromWindows() closed
\* it first.
Leave ==
  /\ ~active
  /\ box' = StopPolling(box)
  /\ UNCHANGED <<failTimer, active, diff, server, net, history>>

-----------------------------------------------------------------------------
Init ==
  /\ box = InitAt(EmptyBox, FirstPts)
  /\ failTimer = FALSE
  /\ active = FALSE
  /\ diff = NoRequest
  /\ spts = StartPts
  /\ log = {}
  /\ net = {}
  /\ base = FirstPts
  /\ heard = {}
  /\ applied = 1 .. FirstPts

Environment ==
  \/ \E n \in PtsCounts, way \in Ways : Produce(n, way)
  \/ TellPts
  \/ \E u \in net : Lose(u)
  \/ \E upto \in Boundaries : Answer(upto)
  \/ AnswerError

Respond ==
  \/ DifferencePart
  \/ DifferenceLast
  \/ DifferenceFail

Client ==
  \/ \E u \in net : ReceivePush(u) \/ ReceivePts(u)
  \/ PtsTimer
  \/ TooLong
  \/ Respond
  \/ FailTimer
  \/ Activate
  \/ Deactivate
  \/ Leave

Next == Environment \/ Client

Spec == Init /\ [][Next]_vars

(***************************************************************************)
(* The event loop runs the timers that are set and the responses that      *)
(* came; the server answers what it is asked.                              *)
(***************************************************************************)
Fairness ==
  /\ WF_vars(PtsTimer)
  /\ WF_vars(FailTimer)
  /\ WF_vars(Respond)
  /\ SF_vars(\E upto \in Boundaries : Answer(upto))

FairSpec == Spec /\ Fairness

-----------------------------------------------------------------------------
TypeOK ==
  /\ box \in Boxes(Messages)
  /\ failTimer \in BOOLEAN
  /\ active \in BOOLEAN
  /\ diff \in Request
  /\ spts \in Nat
  /\ log \subseteq Messages
  /\ net \subseteq Messages
  /\ base \in Nat
  /\ heard \subseteq Nat
  /\ applied \subseteq Nat

(* data_pts_waiter.h:23, "1s wait for skipped seq or pts in updates": a    *)
(* box that knows of a gap has a timer running or asks already.            *)
GapIsTimed ==
  box.last # box.count => box.timer \/ box.requesting

(* api_updates.cpp:70, a channel that is shown is polled: it has a timer   *)
(* or asks, from the moment it can ask.                                    *)
ActiveIsPolled ==
  active /\ Inited(box) => box.timer \/ box.requesting

(* One timer entry serves both: the end of a gap does not end the polling, *)
(* and a poll does not end the wait for a gap.                             *)
OneTimerServes == GapIsTimed /\ ActiveIsPolled

(* The channel's box keeps the promise of the log, too: everything at or   *)
(* below its pts reached the data, whatever order pushes, results and bare *)
(* pts values came in around the differences.                              *)
Log == INSTANCE UpdateLog WITH top <- spts, known <- box.good, done <- applied

ImplementsLog == Log!Spec

(* Every pts the channel has heard of is reached in the end.               *)
HeardIsReached ==
  \A p \in 1 .. MaxPts : (box.last >= p) ~> (box.good >= p)

(* api_updates.h:186, "growing timeout for getChannelDifference calls, if  *)
(* it fails": asking ends, whatever fails on the way.                      *)
AskingEnds == box.requesting ~> ~box.requesting

-----------------------------------------------------------------------------
(* The inductive invariants behind ImplementsLog and OneTimerServes.       *)

Before(u, v) == u.pts <= v.pts - v.count

(* The server's updates cover disjoint runs of pts after StartPts.         *)
LogIsOrdered ==
  /\ spts >= StartPts
  /\ \A u \in log : StartPts + u.count <= u.pts /\ u.pts <= spts
  /\ \A u, v \in log : u = v \/ Before(u, v) \/ Before(v, u)

(* A pts between updates: no update starts before it and ends after it.    *)
IsBoundary(pts) == \A u \in log : u.pts <= pts \/ pts <= u.pts - u.count

(* What is on its way is an update of the log, or names the pts the        *)
(* channel had when it was sent.                                           *)
NetIsOfLog ==
  \A u \in net :
    \/ u.via # "known" /\ u \in log
    \/ /\ u.via = "known" /\ u.count = 0
       /\ StartPts <= u.pts /\ u.pts <= spts
       /\ IsBoundary(u.pts)

(* _count is the pts of the last init() and one for each pts heard since,  *)
(* and what is on its way was not heard yet.                               *)
CountIsHeard ==
  /\ base <= box.good /\ box.good <= box.last /\ box.last <= spts
  /\ heard \subseteq (base + 1) .. box.last
  /\ box.count = base + Cardinality(heard)
  /\ IsBoundary(base)
  /\ \A u \in net : Points(u) \cap heard = {}

(* What was heard reached the data or is saved, and what is saved waits,   *)
(* until a difference is asked for.                                        *)
HeardIsKept ==
  /\ ~box.requesting => heard \subseteq applied \cup PointsOf(box.queue)
  /\ box.queue # {} => box.waiting
  /\ box.queue \subseteq log

(* A box without a pts has counted nothing and asks for nothing; the       *)
(* request in flight starts from the known pts and ends between updates.   *)
AskedFromGood ==
  /\ ~Inited(box) => ~box.requesting /\ box.last = 0 /\ box.queue = {}
  /\ diff.stage # "idle" => box.requesting /\ diff.from = box.good
  /\ diff.stage \in {"part", "last"} =>
       /\ diff.from <= diff.upto /\ diff.upto <= spts
       /\ IsBoundary(diff.upto)

AppliedIsProduced == applied \subseteq 1 .. spts

NothingSkipped == 1 .. box.good \subseteq applied

IInv ==
  /\ TypeOK
  /\ LogIsOrdered
  /\ NetIsOfLog
  /\ CountIsHeard
  /\ HeardIsKept
  /\ AskedFromGood
  /\ AppliedIsProduced
  /\ NothingSkipped

(* A channel on screen holds on to its short poll; a gap that is not asked *)
(* about is waited for.                                                    *)
TimerIsHeld ==
  /\ Inited(box)
  /\ active => box.polling /\ (box.timer \/ box.requesting)
  /\ box.last # box.count /\ ~box.requesting => box.waiting /\ box.timer
  /\ \A u \in net : u.count # 0

=============================================================================
