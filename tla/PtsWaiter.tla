------------------------------ MODULE PtsWaiter ------------------------------
(***************************************************************************)
(* The gap detector of one update box (data/data_pts_waiter.h, .cpp): the  *)
(* common box of Api::Updates owns one, and every ChannelData owns one.    *)
(*                                                                         *)
(* A box is a record:                                                      *)
(*   good, last, count   _good, _last, _count                              *)
(*   queue               _queue with _updateQueue and _updatesQueue: the   *)
(*                       updates saved to be applied later.  The code      *)
(*                       orders them by pts and applies all of them in one *)
(*                       pass, so the model keeps the set.                 *)
(*   requesting          _requesting: a difference is being requested      *)
(*   waiting, polling    _waitingForSkipped, _waitingForShortPoll          *)
(*   timer               the owner's entry for this box, set through       *)
(*                       ptsWaiterStartTimerFor: _getDifferenceTimeByPts   *)
(*                       or the channel's place in _whenGetDiffByPts       *)
(*                                                                         *)
(* An update is a record with the box's pts after it and the number of     *)
(* pts it takes (pts_count).  It covers the pts values in Points.          *)
(* _applySkippedLevel is nonzero only inside applySkippedUpdates, which is *)
(* one step here.                                                          *)
(***************************************************************************)
EXTENDS Integers, FiniteSets

Points(u) == (u.pts - u.count + 1) .. u.pts

PointsOf(U) == UNION {Points(u) : u \in U}

\* The boxes that save updates of the set U.
Boxes(U) ==
  [good : Nat, last : Nat, count : Nat, queue : SUBSET U, requesting : BOOLEAN,
   waiting : BOOLEAN, polling : BOOLEAN, timer : BOOLEAN]

Larger(a, b) == IF a > b THEN a ELSE b

EmptyBox ==
  [good |-> 0, last |-> 0, count |-> 0, queue |-> {}, requesting |-> FALSE,
   waiting |-> FALSE, polling |-> FALSE, timer |-> FALSE]

Inited(w) == w.good > 0

\* init(): every counter agrees and nothing is saved.
InitAt(w, pts) ==
  [w EXCEPT !.good = pts, !.last = pts, !.count = pts, !.queue = {}]

SetRequesting(w, on) ==
  [w EXCEPT !.requesting = on, !.queue = IF on THEN {} ELSE @]

\* Slip: a box that waits already is taken to have its timer.
StartWaitingOnce(w) ==
  IF w.waiting THEN w ELSE [w EXCEPT !.waiting = TRUE, !.timer = TRUE]

\* setWaitingForSkipped() with a time, and with a negative one: the timer
\* stays when a short poll still waits for it.
StartWaiting(w) == [w EXCEPT !.waiting = TRUE, !.timer = TRUE]

\* Slip: the short poll is forgotten.
StopWaitingForGood(w) == [w EXCEPT !.waiting = FALSE, !.timer = FALSE]

StopWaiting(w) == [w EXCEPT !.waiting = FALSE, !.timer = @ /\ w.polling]

StartPolling(w) == [w EXCEPT !.polling = TRUE, !.timer = TRUE]

StopPolling(w) == [w EXCEPT !.polling = FALSE, !.timer = @ /\ w.waiting]

\* Slip: the largest pts is taken for the known one, whatever was counted.
CheckByPts(w, u) ==
  LET pts == Larger(w.last, u.pts)
  IN  [w EXCEPT !.good = pts, !.last = pts, !.count = @ + u.count]

\* Slip: pts_count is taken off.
CheckByMinus(w, u) ==
  LET counted == [w EXCEPT !.last = Larger(@, u.pts), !.count = @ - u.count]
  IN  IF ~Inited(w) THEN InitAt(w, u.pts) ELSE StartWaiting(counted)

(***************************************************************************)
(* check(): the box knows that nothing is missing when the largest pts it  *)
(* heard of equals the number of pts it counted.  The update itself may go *)
(* through when that is so, when it takes no pts, or when it inits the box.*)
(***************************************************************************)
Check(w, u) ==
  LET counted == [w EXCEPT !.last = Larger(@, u.pts), !.count = @ + u.count]
  IN  IF ~Inited(w) THEN InitAt(w, u.pts)
      ELSE IF counted.last = counted.count
           THEN [counted EXCEPT !.good = counted.last]
           ELSE StartWaiting(counted)

\* Slip: >= for =.
InTurnOrAhead(w, u) == Larger(w.last, u.pts) >= w.count + u.count

InTurn(w, u) ==
  \/ ~Inited(w)
  \/ Larger(w.last, u.pts) = w.count + u.count
  \/ u.count = 0

\* Slip: < for <=.
OutdatedBefore(w, u) == u.pts < w.good /\ u.count > 0

\* updated(): the pts is at or below the known one, so this is old news.
Outdated(w, u) == u.pts <= w.good /\ u.count > 0

\* updated() passes everything through while a difference is requested.
Counts(w, u) == ~w.requesting /\ ~Outdated(w, u)

\* applySkippedUpdates(), and what it hands to the owner.
Flush(w) ==
  IF w.waiting THEN [StopWaiting(w) EXCEPT !.queue = {}] ELSE w

Flushed(w) == IF w.waiting THEN w.queue ELSE {}

Put(w, u) == [w EXCEPT !.queue = @ \cup {u}]

\* The tail of updateAndApply() with a payload: straight to the owner, or
\* through the queue when something is saved there.
Applying(w, u) ==
  IF w.waiting /\ w.queue # {}
  THEN [box |-> Flush(w), out |-> Flushed(Put(w, u))]
  ELSE [box |-> w, out |-> {u}]

\* updateAndApply() with an MTPUpdate or MTPUpdates payload: the box after
\* it and the updates it applied.
UpdateAndApply(w, u) ==
  CASE w.requesting -> Applying(w, u)
    [] Counts(w, u) /\ InTurn(w, u) -> Applying(Check(w, u), u)
    [] Counts(w, u) /\ ~InTurn(w, u) -> [box |-> Put(Check(w, u), u), out |-> {}]
    [] OTHER -> [box |-> w, out |-> {}]

\* updateAndApply() of a request's result, whose effect the caller applies.
UpdateAndApplyPts(w, u) ==
  CASE w.requesting -> [box |-> Flush(w), out |-> Flushed(w)]
    [] Counts(w, u) /\ InTurn(w, u) ->
         [box |-> Flush(Check(w, u)), out |-> Flushed(Check(w, u))]
    [] Counts(w, u) /\ ~InTurn(w, u) -> [box |-> Check(w, u), out |-> {}]
    [] OTHER -> [box |-> w, out |-> {}]

=============================================================================
