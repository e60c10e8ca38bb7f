------------------------------ MODULE Histories ------------------------------
(***************************************************************************)
(* The requests about one history (data/data_histories.h, .cpp): requests  *)
(* for messages wait while a delete is under way, the request for the      *)
(* dialog entry waits while anything that changes it is, and the inbox is  *)
(* read up to a message at once or after a while, with one timer for all   *)
(* histories.                                                              *)
(*                                                                         *)
(* A response handler runs in one step, up to the finish() it ends with.   *)
(* A read request that fails is handled as one that is done.               *)
(***************************************************************************)
EXTENDS Integers, FiniteSets

CONSTANTS
  Peers,        \* the histories
  Kinds,        \* the requests sent: a subset of AllKinds without "read"
  MaxRequests,  \* bound: no request but a read one is made after that many
  MaxTill,      \* bound: the largest message id
  MaxEntries    \* bound: GetPeerDialogs requests in flight for the same histories

\* RequestType, where "destroy" is the delete of a whole channel.
AllKinds == {"history", "read", "delete", "destroy", "send"}

ASSUME ConstantsAssumption ==
  /\ Kinds \subseteq AllKinds \ {"read"}
  /\ MaxRequests \in Nat
  /\ MaxTill \in Nat
  /\ MaxEntries \in Nat \ {0}

VARIABLES
  states,   \* _states, with what else there is for each history
  timer,    \* _readRequestsTimer is active
  called,   \* sendDialogRequests() is postponed to the end of the event
  asked     \* how many GetPeerDialogs requests are in flight for which histories

vars == <<states, timer, called, asked>>

Requests == [n : Nat, kind : AllKinds, till : Nat]

(***************************************************************************)
(* made        the requests made so far                                    *)
(* byRequest   _historyByRequest                                           *)
(* postponed, sent, willTill, sentTill, sentDone, entryPostponed           *)
(*             the fields of State; a request in sent is in flight         *)
(* willWait    willReadWhen # 0                                            *)
(* pending, requested                                                      *)
(*             in _dialogRequestsPending, in _dialogRequests               *)
(* read        the message up to which the inbox is read: History's        *)
(*             _inboxReadBefore - 1, 0 when it is not known                *)
(* told        history: the message the last read request named            *)
(* cancelled   history: the requests cancelled                             *)
(***************************************************************************)
State ==
  [made : Nat, byRequest : SUBSET Nat, postponed : SUBSET Nat,
   sent : SUBSET Requests, willTill : Nat, sentTill : Nat, willWait : BOOLEAN,
   sentDone : BOOLEAN, entryPostponed : BOOLEAN, pending : BOOLEAN,
   requested : BOOLEAN, read : Nat, told : Nat, cancelled : SUBSET Nat]

Larger(a, b) == IF a > b THEN a ELSE b

-----------------------------------------------------------------------------
(* Requests.                                                               *)

\* postponeHistoryRequest()
Blocks(s) == \E r \in s.sent : r.kind \in {"delete", "destroy"}

\* postponeEntryRequest()
BlocksEntry(s) == \E r \in s.sent : r.kind # "history"

HistoryRequest(n) == [n |-> n, kind |-> "history", till |-> 0]

\* Slip: what is sent before the delete stays.
HoldKeeping(s) == s

\* The tail of sendRequest(): the history requests that were sent before a
\* delete are taken back.
Hold(s) ==
  IF Blocks(s)
  THEN [s EXCEPT !.sent = {r \in @ : r.kind # "history"},
                 !.postponed = @ \cup {r.n : r \in {q \in s.sent : q.kind = "history"}}]
  ELSE s

\* sendRequest()
SendRequest(s, kind, till) ==
  LET n == s.made + 1
      made == [s EXCEPT !.made = n, !.byRequest = @ \cup {n}]
      sent == [made EXCEPT !.sent = @ \cup {[n |-> n, kind |-> kind, till |-> till]}]
  IN  IF kind = "history" /\ Blocks(s)
      THEN [made EXCEPT !.postponed = @ \cup {n}]
      ELSE Hold([sent EXCEPT
                   !.entryPostponed = @ \/ (BlocksEntry(sent) /\ s.requested)])

\* What was postponed is sent.
LetGo(s) ==
  [s EXCEPT !.sent = @ \cup {HistoryRequest(n) : n \in s.postponed}, !.postponed = {}]

\* Slip: they are never looked at again.
ReleaseNever(s) == s

\* finishSentRequest(): the history requests it lets go.
Release(s) == IF Blocks(s) THEN s ELSE LetGo(s)

\* Slip: only the end of the very last request asks for the entry again.
ReleaseEntryLate(s) ==
  IF s.entryPostponed /\ s.sent = {} /\ s.postponed = {}
  THEN [s EXCEPT !.pending = TRUE, !.requested = FALSE, !.entryPostponed = FALSE]
  ELSE s

\* finishSentRequest(): the entry it asks for again.
ReleaseEntry(s) ==
  IF s.entryPostponed /\ ~BlocksEntry(s)
  THEN [s EXCEPT !.pending = TRUE, !.requested = FALSE, !.entryPostponed = FALSE]
  ELSE s

\* finishSentRequest()
Finish(s, n) ==
  ReleaseEntry(Release(
    [s EXCEPT !.byRequest = @ \ {n}, !.sent = {r \in @ : r.n # n}]))

-----------------------------------------------------------------------------
(* Dialog entries.                                                         *)

\* requestDialogEntry()
RequestEntry(s) == [s EXCEPT !.pending = @ \/ ~s.requested]

\* Slip: the read request stays the one that is being done.
EntryAppliedUnread(s) ==
  IF s.entryPostponed THEN s
  ELSE [s EXCEPT !.pending = FALSE, !.requested = FALSE]

\* dialogEntryApplied()
EntryApplied(s) ==
  IF s.entryPostponed THEN s
  ELSE [s EXCEPT !.pending = FALSE, !.requested = FALSE,
                 !.sentTill = IF s.sentDone THEN 0 ELSE @,
                 !.read = IF s.sentDone THEN Larger(@, s.sentTill) ELSE @]

\* Slip: one call too few.
PostponeCallNever(new) == UNCHANGED called

\* postponeRequestDialogEntries(), after an entry became pending.
PostponeCall(new) ==
  called' = (called \/ /\ \E p \in Peers : new[p].pending /\ ~states[p].pending
                       /\ Cardinality({p \in Peers : new[p].pending}) <= 1)

-----------------------------------------------------------------------------
(* Reading.                                                                *)

\* sendReadRequest()
SendRead(s) ==
  [SendRequest(s, "read", s.willTill) EXCEPT
     !.sentTill = s.willTill, !.willTill = 0, !.willWait = FALSE,
     !.sentDone = FALSE, !.told = s.willTill]

Willing(new) == {p \in Peers : new[p].willTill # 0}

\* sendReadRequests(): what is sent, with the states before it and the
\* histories that are due by then...
SendDue(new, due) == [p \in Peers |-> IF p \in due THEN SendRead(new[p]) ELSE new[p]]

\* Slip: the timer is stopped for whatever is left.
TimerStopped(new, due) == FALSE

\* ... and whether the timer is set for those that are left.
TimerLeft(new, due) == Willing(new) \ due # {}

SendReads(new, due) ==
  /\ states' = SendDue(new, due)
  /\ timer' = TimerLeft(new, due)

Dues(new) ==
  {due \in SUBSET Willing(new) : \A p \in Willing(new) : new[p].willWait \/ p \in due}

\* The first three conditions of readInboxTill().
Needs(s, till) == s.read < till

\* Slip: only what waits is looked at.
AcceptsAgain(s, till, force) ==
  /\ Needs(s, till) \/ (force /\ s.willTill # 0)
  /\ s.willTill < till

Accepts(s, till, force) ==
  /\ Needs(s, till) \/ (force /\ s.willTill # 0)
  /\ s.sentTill < till
  /\ s.willTill < till

\* Counting the unread ones may show that more is read.
Reads(s, till) == Larger(s.read, till) .. MaxTill

-----------------------------------------------------------------------------
(* The actions.                                                            *)

Only(p, s) == [states EXCEPT ![p] = s]

\* One history changes; the timer does not.
Change(p, s) ==
  /\ states' = Only(p, s)
  /\ PostponeCall(Only(p, s))
  /\ UNCHANGED <<timer, asked>>

Send(p, kind) ==
  /\ states[p].made < MaxRequests
  /\ Change(p, SendRequest(states[p], kind, 0))

\* Slip: what is postponed is not cancelled.
CancelSent(p, n) ==
  /\ n \in states[p].byRequest
  /\ \A r \in states[p].sent : r.n = n => r.kind = "history"
  /\ Change(p, [Finish(states[p], n) EXCEPT !.cancelled = @ \cup {n}])

\* cancelRequest(), called for history requests only.
Cancel(p, n) ==
  /\ n \in states[p].byRequest
  /\ \A r \in states[p].sent : r.n = n => r.kind = "history"
  /\ Change(p, [Finish([states[p] EXCEPT !.postponed = @ \ {n}], n)
                  EXCEPT !.cancelled = @ \cup {n}])

\* A response, up to finish().
Respond(p, r) ==
  /\ r \in states[p].sent
  /\ r.kind \in {"history", "delete", "send"}
  /\ Change(p, Finish(states[p], r.n))

\* The delete of a part: the next part is asked for first.
RespondPart(p, r) ==
  /\ r \in states[p].sent
  /\ r.kind = "delete"
  /\ states[p].made < MaxRequests
  /\ Change(p, Finish(SendRequest(states[p], "delete", 0), r.n))

\* The state with a read request answered, before the ones that wait are
\* sent.  refresh: the unread count has to be asked for.
Answered(s, r, refresh) ==
  CASE s.sentTill # r.till -> s
    [] s.sentTill = r.till /\ refresh -> RequestEntry([s EXCEPT !.sentDone = TRUE])
    [] OTHER -> [s EXCEPT !.sentDone = TRUE, !.sentTill = 0]

\* finished() of sendReadRequest().
RespondRead(p, r, refresh, due) ==
  /\ r \in states[p].sent
  /\ r.kind = "read"
  /\ states[p].read < r.till => refresh
  /\ LET new == Only(p, Answered(states[p], r, refresh))
         sent == SendDue(new, due)
         all == [sent EXCEPT ![p] = Finish(@, r.n)]
     IN  /\ due \in Dues(new)
         /\ states' = all
         /\ timer' = TimerLeft(new, due)
         /\ PostponeCall(all)
  /\ UNCHANGED asked

\* What readInboxTill() is asked for waits to be sent already.
Waits(s, till, force) ==
  /\ Needs(s, till) \/ force
  /\ s.sentTill < till
  /\ s.willTill >= till

\* readInboxTill() that returns early; the last message is read by it.
ReadIgnored(p, till, force) ==
  /\ ~Accepts(states[p], till, force)
  /\ ~(force /\ Waits(states[p], till, force))
  /\ Change(p, [states[p] EXCEPT !.read = Larger(@, till)])

\* readInboxTill() that is to be told now, and sends what waits.
ReadForced(p, till, upTo, due) ==
  /\ Waits(states[p], till, TRUE)
  /\ upTo \in {states[p].read, Larger(states[p].read, till)}
  /\ LET new == Only(p, [states[p] EXCEPT !.willWait = FALSE, !.read = upTo])
     IN  due \in Dues(new) /\ SendReads(new, due)
  /\ UNCHANGED <<called, asked>>

\* The number of unread messages does not change.
ReadSame(p, till) ==
  /\ Accepts(states[p], till, FALSE)
  /\ Change(p, [states[p] EXCEPT !.read = Larger(@, till)])

\* Some are left unread: the request can wait.
ReadLater(p, till, upTo) ==
  /\ Accepts(states[p], till, FALSE)
  /\ upTo \in Reads(states[p], till)
  /\ states' = Only(p, [states[p] EXCEPT !.willTill = till, !.willWait = TRUE,
                                         !.read = upTo])
  /\ timer' = (timer \/ ~states[p].willWait)
  /\ UNCHANGED <<called, asked>>

\* All is read, or nobody knows, or it is a new message on the screen.
ReadNow(p, till, force, upTo, due) ==
  /\ Accepts(states[p], till, force)
  /\ upTo \in {states[p].read} \cup Reads(states[p], till)
  /\ LET new == Only(p, [states[p] EXCEPT !.willTill = till, !.willWait = FALSE,
                                          !.read = upTo])
     IN  due \in Dues(new) /\ SendReads(new, due)
  /\ UNCHANGED <<called, asked>>

\* sendPendingReadInbox()
SendPending(p, due) ==
  /\ states[p].willTill # 0
  /\ states[p].willWait
  /\ LET new == Only(p, [states[p] EXCEPT !.willWait = FALSE])
     IN  due \in Dues(new) /\ SendReads(new, due)
  /\ UNCHANGED <<called, asked>>

\* _readRequestsTimer
ReadTimer(due) ==
  /\ timer
  /\ due \in Dues(states)
  /\ due # {}
  /\ SendReads(states, due)
  /\ UNCHANGED <<called, asked>>

\* applyInboxReadUpdate(): read on another device.
ReadElsewhere(p, upTo, refresh) ==
  /\ Needs(states[p], upTo)
  /\ LET s == [states[p] EXCEPT !.read = upTo]
     IN  Change(p, IF refresh THEN RequestEntry(s) ELSE s)

AskEntry(p) == Change(p, RequestEntry(states[p]))

\* sendDialogRequests(), run as the call that was postponed.
SendDialogRequests ==
  /\ called
  /\ called' = FALSE
  /\ LET now == {p \in Peers : states[p].pending}
         free == {p \in now : ~BlocksEntry(states[p])}
     IN  /\ states' = [p \in Peers |->
                         IF p \notin now THEN states[p]
                         ELSE [states[p] EXCEPT !.pending = FALSE, !.requested = TRUE,
                                                !.entryPostponed = @ \/ p \notin free]]
         /\ asked[free] < MaxEntries
         /\ asked' = IF free = {} THEN asked ELSE [asked EXCEPT ![free] = @ + 1]
  /\ UNCHANGED timer

\* The entries, and finalize(); upTo is what the server says is read.
EntriesDone(S, upTo) ==
  /\ asked[S] > 0
  /\ asked' = [asked EXCEPT ![S] = @ - 1]
  /\ states' = [p \in Peers |->
                  IF p \in S
                  THEN EntryApplied([states[p] EXCEPT !.read = Larger(@, upTo[p])])
                  ELSE states[p]]
  /\ UNCHANGED <<timer, called>>

EntriesFail(S) ==
  /\ asked[S] > 0
  /\ asked' = [asked EXCEPT ![S] = @ - 1]
  /\ states' = [p \in Peers |-> IF p \in S THEN EntryApplied(states[p]) ELSE states[p]]
  /\ UNCHANGED <<timer, called>>

\* The entry comes with something else: a slice of the dialogs.
EntryTold(p, upTo) ==
  Change(p, EntryApplied([states[p] EXCEPT !.read = Larger(@, upTo)]))

-----------------------------------------------------------------------------
NewState ==
  [made |-> 0, byRequest |-> {}, postponed |-> {}, sent |-> {}, willTill |-> 0,
   sentTill |-> 0, willWait |-> FALSE, sentDone |-> FALSE, entryPostponed |-> FALSE,
   pending |-> FALSE, requested |-> FALSE, read |-> 0, told |-> 0, cancelled |-> {}]

Init ==
  /\ states = [p \in Peers |-> NewState]
  /\ timer = FALSE
  /\ called = FALSE
  /\ asked = [S \in SUBSET Peers |-> 0]

Tills == 1 .. MaxTill

User ==
  \/ \E p \in Peers, kind \in Kinds : Send(p, kind)
  \/ \E p \in Peers : \E n \in states[p].byRequest : Cancel(p, n)
  \/ \E p \in Peers, till \in Tills, force \in BOOLEAN : ReadIgnored(p, till, force)
  \/ \E p \in Peers, till \in Tills : ReadSame(p, till)
  \/ \E p \in Peers, till \in Tills, upTo \in Tills : ReadLater(p, till, upTo)
  \/ \E p \in Peers, till \in Tills, force \in BOOLEAN, upTo \in 0 .. MaxTill,
        due \in SUBSET Peers : ReadNow(p, till, force, upTo, due)
  \/ \E p \in Peers, till \in Tills, upTo \in 0 .. MaxTill, due \in SUBSET Peers :
        ReadForced(p, till, upTo, due)
  \/ \E p \in Peers, due \in SUBSET Peers : SendPending(p, due)
  \/ \E p \in Peers : AskEntry(p)

Timer == \E due \in SUBSET Peers : ReadTimer(due)

Answer(p, r) ==
  \/ Respond(p, r)
  \/ RespondPart(p, r)
  \/ \E refresh \in BOOLEAN, due \in SUBSET Peers : RespondRead(p, r, refresh, due)

AnswerEntries(S) ==
  \/ \E upTo \in [S -> 0 .. MaxTill] : EntriesDone(S, upTo)
  \/ EntriesFail(S)

Responses ==
  \/ \E p \in Peers : \E r \in states[p].sent : Answer(p, r)
  \/ \E S \in SUBSET Peers : AnswerEntries(S)

Server ==
  \/ \E p \in Peers, upTo \in Tills, refresh \in BOOLEAN : ReadElsewhere(p, upTo, refresh)
  \/ \E p \in Peers, upTo \in 0 .. MaxTill : EntryTold(p, upTo)

Next == User \/ Timer \/ Responses \/ Server \/ SendDialogRequests

Spec == Init /\ [][Next]_vars

(***************************************************************************)
(* The event loop runs its timer and its postponed calls, and every        *)
(* request is answered.  A read request is made for a message later than   *)
(* the one before, so that their number is bounded too.                    *)
(***************************************************************************)
Fairness ==
  /\ WF_vars(Timer)
  /\ WF_vars(SendDialogRequests)
  /\ \A p \in Peers, n \in 1 .. MaxRequests + MaxTill :
       WF_vars(\E r \in states[p].sent : r.n = n /\ Answer(p, r))
  /\ \A S \in SUBSET Peers : WF_vars(AnswerEntries(S))

FairSpec == Spec /\ Fairness

-----------------------------------------------------------------------------
(* Types; and a request that can be cancelled is postponed or in flight.   *)
TypeOK ==
  /\ states \in [Peers -> State]
  /\ timer \in BOOLEAN
  /\ called \in BOOLEAN
  /\ asked \in [SUBSET Peers -> 0 .. MaxEntries]
  /\ \A p \in Peers :
       states[p].byRequest = states[p].postponed \cup {r.n : r \in states[p].sent}

(* No request for messages is under way beside a delete: its answer could  *)
(* bring back what is being deleted.                                       *)
NoHistoryBesideDelete ==
  \A p \in Peers :
    Blocks(states[p]) => \A r \in states[p].sent : r.kind # "history"

(* data_histories.cpp:1153 and 1157: the entry that is postponed is asked  *)
(* for and not pending; and something is under way that ends the wait.     *)
EntryPostponedIsBlocked ==
  \A p \in Peers :
    states[p].entryPostponed =>
      states[p].requested /\ ~states[p].pending /\ BlocksEntry(states[p])

(* A cancelled request never comes back, whatever was postponed with it.   *)
CancelledIsGone ==
  \A p \in Peers :
    states[p].cancelled \cap (states[p].postponed \cup {r.n : r \in states[p].sent}) = {}

(* The reads that are asked for, waiting, sent and done keep their order:  *)
(*   - data_histories.cpp:596, Expects(): what waits to be told is later   *)
(*     than what the last read request tells;                              *)
(*   - data_histories.cpp:618: when a read request is answered and it is   *)
(*     not the last one, the last one is done with or names a later        *)
(*     message;                                                            *)
(*   - a read request that is done and not settled has an entry to come,   *)
(*     or no message up to it would be read again.                         *)
WillIsLater(s) == s.willTill # 0 => s.willTill > s.sentTill

OlderReadsYield(s) ==
  \A r \in s.sent : r.kind = "read" => s.sentTill = 0 \/ s.sentTill >= r.till

DoneAwaitsEntry(s) == s.sentDone /\ s.sentTill # 0 => s.pending \/ s.requested

ReadsInOrder ==
  \A p \in Peers :
    WillIsLater(states[p]) /\ OlderReadsYield(states[p]) /\ DoneAwaitsEntry(states[p])

(* The messages the read requests name only get later: the server never    *)
(* sees the inbox go back.                                                 *)
ReadsAdvance ==
  [][\A p \in Peers : states'[p].told = states[p].told \/ states'[p].told > states[p].told]_vars

(* The delete of a whole channel never ends: what waits for it is not      *)
(* promised anything.                                                      *)
Destroying(s) == \E r \in s.sent : r.kind = "destroy"

(* What is postponed is sent, or cancelled, in the end, or the whole       *)
(* channel is being deleted (deleteAllMessages() never calls finish()).    *)
PostponedIsSent ==
  \A p \in Peers :
    states[p].postponed # {} ~>
      \/ states[p].postponed = {}
      \/ Destroying(states[p])

(* An entry that was asked for comes in the end, with the same exception.  *)
EntryIsApplied ==
  \A p \in Peers :
    (states[p].pending \/ states[p].requested) ~>
      \/ ~(states[p].pending \/ states[p].requested)
      \/ Destroying(states[p])

(* What is to be told of the inbox is told in the end.                     *)
WillIsSent ==
  \A p \in Peers, till \in Tills :
    states[p].willTill = till ~> states[p].told >= till

-----------------------------------------------------------------------------
(***************************************************************************)
(* IInv: an inductive invariant of the specification.  Each conjunct of    *)
(* Sound is about one history alone.                                       *)
(***************************************************************************)

(* A number names one request, and those that were cancelled are over.     *)
Numbered(s) ==
  /\ \A n \in s.byRequest \cup s.cancelled : n <= s.made
  /\ \A r, q \in s.sent : r.n = q.n => r = q
  /\ \A r \in s.sent : r.n \notin s.postponed
  /\ s.byRequest \cap s.cancelled = {}

(* Nothing is postponed but for a delete that will end the wait.           *)
HistoryYields(s) ==
  /\ Blocks(s) => \A r \in s.sent : r.kind # "history"
  /\ s.postponed # {} => Blocks(s)

EntryWaits(s) ==
  /\ ~(s.pending /\ s.requested)
  /\ s.entryPostponed => s.requested /\ BlocksEntry(s)

(* The message the last read request named is being read, or is read; what *)
(* waits to be told is later, and what the others named is not.            *)
ToldInOrder(s) ==
  /\ s.told = s.sentTill \/ (s.sentTill = 0 /\ s.told <= s.read)
  /\ s.willTill # 0 => s.willTill > s.told
  /\ s.willWait => s.willTill # 0
  /\ \A r \in s.sent : r.till <= s.told

Sound(s) ==
  Numbered(s) /\ HistoryYields(s) /\ EntryWaits(s) /\ ToldInOrder(s) /\ DoneAwaitsEntry(s)

(* Entries that are pending have a call to send them, with one call for    *)
(* all.                                                                    *)
PendingIsCalled == (\E p \in Peers : states[p].pending) => called

(* Every history that has something to tell the server has the timer,      *)
(* though each history starts and stops it.                                *)
WillingIsTimed == Willing(states) # {} => timer

IInv ==
  /\ TypeOK
  /\ \A p \in Peers : Sound(states[p])
  /\ PendingIsCalled
  /\ WillingIsTimed

=============================================================================
