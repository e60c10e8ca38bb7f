# TLA+ for the desktop client

This directory holds TLA+ modules translated from the client's source
(`src/Telegram/SourceFiles`), the TLC configurations that model-check them and
TLAPS proofs about them. All paths below are relative to
`src/Telegram/SourceFiles` unless they name a module.

The core of a Telegram client is that its copy of the user's messages agrees
with the server's. The server numbers its updates; the client gets them in
pushes that can be lost or reordered and in the results of its own requests,
finds the gaps, waits a little for what is late, and asks for a difference when
it does not come. That is the part modelled first. Next to it stands the order
of the client's own requests about one history: what may run beside what, and
how far the inbox is read. Below both is the MTProto session, which keeps each
request until it is answered over connections that break. Apart from them is
the video track, where two threads share frames without a lock.

## The parts of the system

| Part | State | Operations | Talks to | What is hard |
| --- | --- | --- | --- | --- |
| `PtsWaiter` (data/data_pts_waiter) | `_good`, `_last`, `_count`, the queue of saved updates, `_requesting`, `_waitingForSkipped`, `_waitingForShortPoll` | `init`, `updated`, `updateAndApply`, `check`, `applySkippedUpdates`, `setRequesting`, two `setWaitingFor...` | its owner `Api::Updates`: applying updates and starting timers | lost, late, repeated, reordered updates; one timer for two purposes |
| `Api::Updates`, common box (api/api_updates) | one `PtsWaiter`, `_getDifferenceTimeByPts`, `_getDifferenceTimeAfterFail`, the request in flight | `mtpUpdateReceived`, `applyUpdates`, `feedUpdate`, `getDifference`, `differenceDone`, `differenceFail`, two timers | the server through MTProto; `ApiWrap` hands it the results of requests; `Data::Session` gets the updates | differences in slices, failures and retries, updates that pass while one is asked for |
| `Api::Updates`, seq | `_updatesSeq`, `_bySeqUpdates`, `_bySeqTimer` | `applyUpdates`, `setState`, `mtpNewSessionCreated` | the common box (one difference serves both) | containers out of order, new sessions |
| `Api::Updates` with `ChannelData` | a `PtsWaiter` for each channel, `_whenGetDiffByPts`, `_whenGetDiffAfterFail`, `_activeChats` | `getChannelDifference`, `channelDifferenceDone`, `channelDifferenceFail`, `addActiveChat`, `ptsReceived` | history pages and dialogs tell it pts values; windows show and close chats | a pts that is not known yet, short polls and gaps on one timer, failures |
| `Data::Histories` (data/data_histories) | for each history: sent and postponed requests, the read-till ids wanted and sent, whether its dialog entry is pending or requested; one timer | `sendRequest`, `cancelRequest`, `finishSentRequest`, `readInboxTill`, `sendReadRequests`, `requestDialogEntry`, `sendDialogRequests`, `dialogEntryApplied` | `ApiWrap` and `History` send requests through it; `applyInboxReadUpdate` tells it of other devices | order of requests, read requests that overtake each other, entries that are asked for while they change, one timer and one call for all histories |
| `MTP::details::SessionPrivate` with `Session` (mtproto/session_private, session) | to-send and have-sent maps shared with the main thread, `_resendingIds`, `_ackedIds`, `_sentContainers`, `_receivedMessageIds`, timers | `sendPrepared`, `cancel`, `tryToSend`, `handleOneReceived`, `requestsAcked`, `resend`, `resendAll`, `checkSentRequests`, `clearOldContainers`, `resetSession` | the connections; `MTP::Instance` | loss, duplication, reconnection, a server that forgets, two threads and four locks |
| `MTP::Instance` (mtproto/mtp_instance) | requests by id and datacenter, callbacks, delayed and dependent requests, key creation | `sendRequest`, `cancel`, `processCallback`, `checkDelayedRequests`, migration | sessions, `Main::Account` | cancels and repeats beside answers; migration during requests |
| `VideoTrack::Shared` with `VideoTrackObject` and `Player` (media/streaming) | a ring of four frames and one atomic counter; the queue's packets, timer and mailbox; the player's `_nextFrameTime` and timer | `prepareState`, `presentFrame`, `markFrameDisplayed`, `markFrameShown`, `addTimelineDelay`, `frameForPaint`; `readFrames`; `checkVideoStep` | FFmpeg, the file's packets; the view that paints | two threads without locks, wakeups, stale frames, failures half way |
| `Streaming::Reader` | slices of a file | `fill`, `processLoadedParts` | streaming thread, main thread, cache | two threads, unloading |
| `Storage` transfers | queues of parts, sessions with their load | download and upload managers | MTProto sessions | parts out of order, sessions killed and added |
| Storage of settings and cache, calls, notifications, domain and accounts, the data model, the user interface, export | see `PROJECT.json` | | | mostly I/O, libraries outside the tree, or layout |

What makes each part correct, as properties:

* `PtsWaiter` and the boxes: the pts the client reports as its own leaves no
  hole behind; a box that trusts its pts applies pushes in order and once, and
  what an asking box let through is covered before it trusts its pts again; a
  known gap is always being waited for or asked about, and is closed in the
  end; asking ends.
* Seq: no container is skipped, none is fed twice, what waits is timed and is
  reached in the end.
* Channels: the same, and a channel on screen is polled.
* `Data::Histories`: no request runs beside the delete it has to wait for;
  nothing is postponed forever; the read-till id the server gets only grows.
* MTProto session: a request is carried out at most once by a server session,
  unless a server once answered that it has to be repeated: it then gets
  another `msg_id` while the message it had may still be on its way, and a
  server that forgets its session before that message comes takes both. Its
  callback gets an outcome the server gave, once; it is never lost on the way,
  is sent in one place only, and is answered in the end.
* Frame ring: no frame is touched by both threads; the assertions hold; frames
  are shown in order and dropped only where that is asked for; a frame that was
  given is shown, and the video comes to its end.

## Modules

| Module | Models | Kind |
| --- | --- | --- |
| `PtsWaiter` | the box of one `PtsWaiter` as a record, each method as an operator on it | operators |
| `Updates` | the common box, its server and its network | state machine |
| `ChannelUpdates` | one channel's box, its server and its network | state machine |
| `UpdatesSeq` | the seq containers | state machine |
| `Histories` | the requests about each history, its reads and its entry | state machine |
| `Session` | one session in its two threads, the connection and the server | state machine |
| `FrameRing` | the ring of frames, the queue that fills it, the player that empties it | state machine |
| `UpdateLog` | what a box promises: a growing known prefix of a log | abstract specification |
| `Calls` | what a session promises to those who send requests by it | abstract specification |
| `FrameFlow` | what a track promises to those who paint its frames | abstract specification |
| `MCUpdates`, `MCChannelUpdates`, `MCUpdatesSeq`, `MCHistories`, `MCSession`, `MCFrameRing` | instances for TLC | model checking |
| `PtsWaiterProofs` | facts about the operators | lemmas |
| `UpdatesProofs` | theorems about `Updates` | proofs |
| `ChannelUpdatesProofs` | theorems about `ChannelUpdates` | proofs |
| `UpdatesSeqProofs` | theorems about `UpdatesSeq` | proofs |
| `HistoriesProofs` | theorems about `Histories` | proofs |
| `FrameRingProofs` | theorems about `FrameRing` and its two threads | proofs |
| `FrameFlowProofs` | `FrameRing` implements `FrameFlow` | proofs |
| `SessionProofs` | `Session` implements `Calls`; a request is in one place, and not in none | proofs |

`PtsWaiter` is used by `Updates` and `ChannelUpdates`; both implement
`UpdateLog` with `known` the box's `_good`, `top` the server's pts and `done`
the pts values whose update reached the data. `Session` implements `Calls` with
`ran` how often the present server session carried out each request and `owed`
all the outcomes there ever were; `FrameRing` implements `FrameFlow` with
`ready` the two frames the queue has prepared, `offered` the one the main thread
was given and `painted` the one on the screen. Definitions named in a comment as
a *slip* are mutations of the code's definition that follows them: they are used
by no specification and exist to show that a property can fail.

### How state and actions correspond to the code

*A box* (`PtsWaiter`). `good`, `last`, `count`, `requesting`, `waiting` and
`polling` are the fields of the same names. `queue` is `_queue` with the two
maps of payloads: the code orders it by pts and applies all of it in one pass,
so the model keeps the set. `timer` is the owner's entry for the box, set and
cleared through `ptsWaiterStartTimerFor` (`_getDifferenceTimeByPts`, or the
channel's place in `_whenGetDiffByPts`). Times are left out: a timer that is
set may fire at any later moment, which covers every delay, the growing
timeouts of failures, and the order of timers.

*An update* is its pts and its pts_count; it covers the pts values
`Points(u)`. What an update does to the data is abstracted to the set
`applied` of pts values whose update reached the data.

*`Updates`*. Pushes go through `mtpUpdateReceived` and are dropped while a
difference is asked for; updates in results of requests are fed always; the
`affected...` results of requests are a bare pts and pts_count whose change the
caller has made itself. A short message that names somebody unknown asks for a
difference instead (`ReceiveNotLoaded`).

A container is let in as a whole and `feedUpdateVector` feeds its entries one
after the other, with nothing in between. As long as no entry asks for a
difference this is the same as so many messages of one update, and that is how
the model takes them: `Feed`, once for each, in every order. An entry that asks
changes what the rest of the container meets: `updated` returns true at its
first line, so that later entries are handed to the data at once, uncounted,
whatever their pts. The entry that asks and everything after it is therefore one
step: `ReceiveEntryNotLoaded(u, rest)` where the entry is a message not loaded
(only that entry is left out), and `ReceiveEntryWhenDue(rest)` where an entry
about a channel starts that channel's timer and `getDifferenceByPts`, which this
runs, finds the timer of the common box due. `rest` is any set of what is on its
way: new updates, and ones a difference has covered long ago. `FeedUnchecked` is
what becomes of it. A message not loaded that is met by a box that asks already
is fed like any other, in `rest` or by `ReceiveResult`.

`diff` is the request in flight with its answer: a state, a
whole difference (an empty one is a whole one with nothing in it), a slice, or
an error. `StateDone`, `DifferenceDone` and `DifferenceSlice` are the handlers
with everything they call, the next request of a slice included.

*`ChannelUpdates`*. The box may start without a pts (`FirstPts = 0`); the first
pts it is told, from an update or a history page (`ptsReceived`), becomes its
start. `PtsTimer` drops the timer whatever `getChannelDifference` did, as the
code does. `Leave` is `deleteHistory` of a channel being left, which happens
after its chat is closed in all windows. The update of a channel may be lost
because the common box was asking (`mtpUpdateReceived`): that is part of
`Lose`.

*`UpdatesSeq`*. A container covers the seq values `start .. seq`. `FeedAll` is
`applyUpdates` with the chain of `setState` and `applyUpdates` calls that
drains the buffer; `FeedAndAsk` is the same chain when an update in the middle
asks for a difference, which clears the buffer and the timer. `Connected` are
the containers that chain feeds: of those after the seq, the largest set in
which each one follows the seq or another one.

*`Histories`*. `states[p]` is the `State` of a history with what else there is
for it: whether it is in `_dialogRequestsPending` or `_dialogRequests`, how far
the inbox is read (`_inboxReadBefore`, less one), and its part of
`_historyByRequest`. A state that `checkEmptyState` erases is one with nothing
in it. A request is its number and kind; the two kinds of delete differ in that
the one of a whole channel ("destroy") never calls `finish()`. A handler of a
response runs to its `finish()` in one step, as it does on the main thread:
`RespondRead` settles the read, sends the ones that are due, and then finishes.
`called` is the call that `postponeRequestDialogEntries` leaves for the end of
the event; `asked` counts the `GetPeerDialogs` requests in flight by the
histories they are for, so that an entry asked for again meets the answer to
the first request. `told` and `cancelled` are history variables.
Of `readInboxTill` each way out is an action: nothing to do (`ReadIgnored`),
what waits is sent now (`ReadForced`), the count does not change (`ReadSame`),
the read waits (`ReadLater`) or is sent with everything that is due
(`ReadNow`). Which reads are due is a choice (`Dues`), since times are left
out; what does not wait is always due. How many messages are unread decides
between the ways and is a choice too.

*`Session`*. The two threads are the main one (`SendRequest`, `Cancel`,
`TryToReceive`, `CheckDelayed`) and the session's (all else but the server). An
event of the session's thread is one step, except where it lets go of a lock
with a request in its hands: `TakeAlone` and `SendAlone` are the two halves of
`tryToSend` for a lone request, `Resend` and `ResendMoved` those of `resend`,
and `Connected` and `ResendMoved` those of `resendAll`; the main thread may run
in between. `todo` is what is left of a loop of `resend` calls. A msg_id is the
position of the request in `owner`, the sequence of all ids given out: ids grow
with time, which is all the code asks of them, and `GiveIds` is `replaceMsgId`
with its search through the maps. A container is the set of ids in it. Requests
that wait for their callback are not acknowledged (`HasCallback`), as in
`requestsAcked`. `checkSentRequests` asks the server for the state of some
messages and `handleMsgsStates` resends those that did not come: the answer is
taken to come in the same step, with the state of the server then. `wake` is
that somebody asked for `tryToSend`, by any of `sendAnything`,
`needToResumeAndSend` and their timers. The server carries a message out the
first time it comes and remembers its answer, which may come back any number of
times and in any order; it may refuse a packet, lose it, or forget its session.

*`FrameRing`*. The queue's `qpc` and the main thread's `mpc` say where each is
between a load of the counter and what it does with it. `prepareState` is `Load`
and `Prepare`, `presentFrame` is `Check` with the four steps after it, the four
functions of the main thread are a load (`Looks`) in the step that calls them
and a step that uses it. Times are left out: whether a frame is stale or due is
a choice. `Player`'s `_nextFrameTime` has three values that matter: unknown, a
time, or done (displayed and to be marked by the view, with
`waitForMarkAsShown`). A frame's `image` says that `original` holds a picture,
of whatever frame; `displayed` and `position` are the fields. Frames are
numbered by position, and the decoder may give one of them one place late.
`inbox` are the events of the track on their way to the main thread, `mailbox`
the messages to the queue, in the order in which they were posted.

The server is the environment. It hands out consecutive pts and seq values, and
a difference holds every update between the pts it was asked from and the pts
of the answer. Anything on its way may come in any order and pushes may be
lost.

## Runs

| Run | What it shows | Bounds |
| --- | --- | --- |
| `updates` | type, `NothingSkipped`, `NoReplay`, `InOrder`, `WaitsOrAsks`, that `Updates` implements `UpdateLog`, and `HeardIsReached` and `AskingEnds` under fairness | pts 1 to 5, updates of 1 and 2 pts, all ways |
| `channel_updates` | that `ChannelUpdates` implements `UpdateLog` (so that nothing at or below its pts is skipped), with failures, bare pts values and a box that starts with no pts | pts 1 to 4 |
| `channel_polled` | `OneTimerServes` (`GapIsTimed` and `ActiveIsPolled` together), and `HeardIsReached`, `AskingEnds` under fairness, where requests do not fail, the pts is known from the start and no bare pts comes | pts 1 to 5 |
| `updates_seq` | `NoContainerSkipped`, `NoContainerTwice`, `NothingDropped`, and `BufferedIsReached` under fairness | seq up to 5, containers of 1 and 2 |
| `histories` | `NoHistoryBesideDelete`, `EntryPostponedIsBlocked`, `CancelledIsGone` for requests; `ReadsInOrder`, `ReadsAdvance` for reads; `PostponedIsSent`, `EntryIsApplied`, `WillIsSent` under fairness | all kinds of request about one history, 3 of them, 2 messages; a second history that is read beside it |
| `frame_ring` | `Handover`, `NoSharedFrame`, `NeverUnexpected`, `PaintedHasFormat`, `NothingLeftBehind`, that `FrameRing` implements `FrameFlow`, and `GivenIsShown`, `PlaybackEnds` under fairness | 6 frames, 4 where frames may be dropped, one pause, conversions that fail |
| `session` | `NothingLost`, `SentOnce`, that `Session` implements `Calls`, and `AnsweredInTheEnd` under fairness | 2 requests, one of them with up to 3 faults and errors together, both with one fault |
| `frame_format`, `session_trimmed` | each violated: see the findings | 6 frames; 2 requests |
| `channel_known`, `channel_fail`, `channel_unknown` | each violated: see the findings | pts 1 to 3 |

Why the bounds are enough: a gap needs one update missing, one waiting behind
it and one more to flush the queue, so three updates give every shape of a
queue with a hole; a fourth gives a gap after a difference that was computed
before it. Updates of 2 pts are there because `_count` sums them: an error of
counting needs two sizes. For seq, five values allow a combined container, a
waiting chain of two and another gap behind it. For histories, a delete, a
request it makes wait and one that is in between are three; two messages let a
read request be in flight with another that waits; two histories share the
timer and the call. The counter of the ring goes round after four frames, so six
reach every place again with the frames of the first round in it. For the
session a request is affected by others only through the container it is in and
through the windows of ids; the window of the server's messages has one place,
so that every late answer is on its edge; three faults are a loss, a break of
the connection while what was lost is sent again, and a server that forgets in
between. No run needs more than two minutes.

All cfgs say `CHECK_DEADLOCK FALSE`: the server stops at the bound and the
client then rests with nothing to do.

### Fairness

Only what the event loop gives: a timer that is set fires, a response that came
is handled. Of the server, in `Updates`: that it answers `getState`, and that
asked again and again it does not fail, or send slices, forever (strong
fairness on the whole answer). In `ChannelUpdates`: that it answers. In
`Histories`: that it answers each request, with success or failure, since the
MTProto layer repeats a request until it has one of them.
In `Session`: a connection that is down comes up, packets that are not lost are
handled, and, strongly fair because the connection may break at any moment, the
session's thread gets to send, to receive and to ask for the state of what it
sent. `AnsweredInTheEnd` adds two assumptions in its antecedent: that the timer
of `checkSentRequests` runs again and again while something is sent, which the
code does not see to for a request sent alone (session_private.cpp:971), and
that no answer stays below the window of received ids for good. In `FrameRing`:
both threads end what they began, and an event loop that is never idle, because
of repaints or packets, still gets to each thing that is queued for it (strong
fairness on the events of a thread together); a view that was asked to mark the
frame it painted does so.
No push is assumed to come and nobody is assumed to open or close a chat.

## Proofs

`PtsWaiterProofs` and `UpdatesProofs` prove, for every value of the constants
that satisfies `ConstantsAssumption` (the server starts at a positive pts):

* `Invariance`: `Spec => []IInv`
* `TypeCorrect`: `Spec => []TypeOK`
* `NeverSkips`: `Spec => []NothingSkipped`
* `Implementation`: `Spec => ImplementsLog`

and, where no update has a pts_count of 0 (`GapsTakePts`; the first
disagreement below says what happens otherwise):

* `GapIsWaitedFor`: `Spec => []WaitsOrAsks`
* `NeverReplays`: `Spec => NoReplay`, an action property
* `AppliesInOrder`: `Spec => []InOrder`

and, of what is needed for a difference to come in the end, whatever the
pts_count of updates,

* `AskingGoesOn`: `Spec => []OneDifference`

`NothingSkipped` is not inductive. The box never looks at which pts values it
has seen: it compares their number, `_count`, with the largest pts, `_last`.
The strengthening says why that is enough:

* `LogIsOrdered`: the server's updates cover disjoint runs of pts.
* `CountIsHeard`: `_count` is the pts of the last `init()` plus the number of
  distinct pts values counted since (`heard`), all of which lie between that
  pts and `_last`; nothing on its way was counted before.
* `HeardIsKept`: what was counted reached the data or is in the queue, as long
  as no difference is asked for; a queue that is not empty is waited for.
* `AskedFromGood`: the difference in flight was asked from `_good` and its
  answer ends between two updates; a box without a pts is asking.

When `_count = _last`, `heard` is a set of `_last - base` numbers between
`base + 1` and `_last`, hence all of them (lemma `Counting` of
`PtsWaiterProofs`, which both kinds of box use), and so the
pts the box takes as known leaves no hole. The steps are proved one action at a
time; the refinement then needs only that the known pts never goes down, which
`AskedFromGood` gives for the answers of differences.

The last three add two parts to the invariant. `WaitIsHeld`: a gap that is not
asked about is waited for with a timer set, and nothing is saved while a
difference is asked for; an update that takes pts and finds a gap goes into the
queue, which is what keeps `check()` and the flush after it apart. `Fresh`: the
known pts lies between two updates, what is saved comes after it and is not on
its way any more, and whatever reached the data beyond `Reach` came in the
result of a request. `Reach` is the known pts of a box that does not ask; of one
that asks it is the pts of the answer that will end the asking, once the server
has given it, and until then anything the server has. An entry behind one that
asked may be ahead of the known pts, but the server had it before it was asked,
and while the box asks no more pushes are let in: so the answer reaches at least
as far. This is why `InOrder` speaks of boxes that do not ask and why it holds
for the entries that skipped the check too. `NoReplay` is about steps: by
`Fresh`, an update that a box that does not ask hands out lies beyond everything
in the data, its queue included, so only a step that asks, or one of a box that
asks, can repeat anything.

`OneDifference` says that the box asks just as long as a difference is in flight
or planned for later (`_getDifferenceTimeAfterFail`), and never both. All the
places that ask go through `getDifference`, which does nothing while one is
asked for, and each way out of an answer either stops asking, asks again or
plans to.

`ChannelUpdatesProofs` proves, whether the pts is known at the start or not,
for every way pts values come in, and whatever fails:

* `Invariance`: `Spec => []IInv`
* `TypeCorrect`: `Spec => []TypeOK`
* `Implementation`: `Spec => ImplementsLog`

and, where the pts is known from the start, no bare pts comes and no update has
a pts_count of 0:

* `TimerServesBoth`: `Spec => []OneTimerServes`

and, where requests do not fail,

* `AskingGoesOn`: `Spec => []OneDifference`

The argument is that of the common box with three additions. A bare pts from a
history page is counted without taking any, so the proof needs that it lies
between two updates (`NetIsOfLog`); then the counting lemma still applies. The
first pts a box is told becomes its start, between two updates again. A box
without a pts has saved nothing and asks for nothing (`AskedFromGood`).
`TimerIsHeld` is the strengthening for `TimerServesBoth`: a shown channel polls
and has its timer or asks, and a gap that is not asked about has its wait and
the same timer. The run `channel_polled` leaves failures out for the sake of
liveness; the theorem has them. A box of a channel has no timer to ask again, so
its `OneDifference` has the difference in flight only, and failures refute it:
the run `channel_fail` shows a box that asks for ever.

`UpdatesSeqProofs` proves, for any number of containers of any lengths:

* `TypeCorrect`: `Spec => []TypeOK`
* `NeverSkips`: `Spec => []NoContainerSkipped`
* `NeverTwice`: `Spec => []NoContainerTwice`
* `NeverDrops`: `Spec => NothingDropped`
* `WaitsSafely`: `Spec => []WaitsForTimer`
* `AskingGoesOn`: `Spec => []OneDifference`

Two parts of the invariant are the reason. Containers do not overlap, and none
of them goes on over a seq the client may take as its own, the seq of an answer
on its way included (`EndsAt`): so a container that starts after `updatesSeq`
is whole, and one that does not is over (lemma `InTurn`). And while no
difference is asked for, what was fed is just `1 .. updatesSeq` (`Counted`);
while one is asked for, its answer ends after all that was fed
(`AnswerCovers`), since it is made by a server that numbered all of it. So
`mtpNewSessionCreated`, which sets `_updatesSeq` back to zero, feeds nothing
again: it asks, and everything that comes is dropped until the answer is there.
That is also why `NothingDropped` has to leave out the time of asking: a
container the server made after its answer, and that comes before it, is gone,
and only the next one or a pts shows it. The lemmas about the model's operators
say what the chain of `setState` calls feeds: every seq value from the first
container to the last it reaches, and no other (`ConnectedBetween`,
`ConnectedCovers`), and that everything it passes was fed (`NoneLeftOut`).
`WaitsForTimer` is the part with which a container waits only where a timer is
active and the one before it is missing.

`HistoriesProofs` proves, for every set of histories, of kinds of request and of
messages, and with any bound on requests or none:

* `Invariance`: `Spec => []IInv`
* `TypeCorrect`: `Spec => []TypeOK`
* `HistoryNeverBesideDelete`: `Spec => []NoHistoryBesideDelete`
* `EntryAssertionsHold`: `Spec => []EntryPostponedIsBlocked`
* `CancelledStaysGone`: `Spec => []CancelledIsGone`
* `ReadsStayInOrder`: `Spec => []ReadsInOrder`
* `ReadsOnlyAdvance`: `Spec => ReadsAdvance`
* `NothingIsForgotten`: `Spec => []NothingForgotten`

The strengthening has a part for each concern. `Numbered`: a number names one
request, so that an answer ends the request it is for and no other.
`HistoryYields`: besides `NoHistoryBesideDelete`, nothing is postponed unless a
delete is in flight, which makes the moment when `finishSentRequest` lets all of
it go the right one. `EntryWaits`: a postponed entry counts as requested.
`ToldInOrder` carries the order of reads: the last message the server was told
of is the one in flight (`sentTill`), or is one up to which the inbox is read
already; each way out of `readInboxTill` and `sendReadRequests` keeps that, and
every new read is for a message later than both. The lemmas say what each
operator does to the state of one history; the actions on all of them follow,
as each changes one history or sends what is due of each.

`NothingForgotten` is what the liveness of this component needs: a pending entry
has the call that is postponed, a read that waits has the timer, an entry that
is requested is postponed or has a `GetPeerDialogs` request in flight that it is
part of, a postponed entry has a request in flight that blocks it, and so does
a postponed request for messages. Most of it is in `IInv`. The part about
requested entries is proved on top of it, as the entry of a history may be
applied by another request, or by a slice of the dialogs, before its own is
answered: no operator but `SendDialogRequests` makes an entry requested
(`EntryKept`), and an answer leaves no entry requested that is not postponed.

`FrameRingProofs` proves, for a video of any length, for packets of any size and
for every format:

* `TypeCorrect`: `Spec => []TypeOK`
* `HandoverHolds`: `Spec => []Handover`
* `FramesAreApart`: `Spec => []NoSharedFrame`
* `AssertionsHold`: `Spec => []NeverUnexpected`
* `FormatsAreKnown`: `Spec => []PaintedHasFormat`, where `"transfer"` is not
  among the failures
* `QueueNeverSleepsOver`: `Spec => []NoWakeupLost`
* `GivenIsNeverForgotten`: `Spec => []GivenGoesOn`

`NoSharedFrame` is not inductive: that two threads are not at the same frame now
says nothing of what they saw of the counter before. `Handover` does. The
queue's view of the counter is right, or the counter has moved on by the one
move the main thread may make (`QueueKnows`), and the other way round
(`MainKnows`); a frame that is given can be timed, and whoever displayed it goes
on to mark it shown (`GivenIsReady`); the frame on the screen was displayed
(`PaintedWasShown`). The lemma `Apart` is the arithmetic: with a counter and
with the one after it, the frames the two threads work on differ.

The last two are about wakeups. The queue may fall asleep because it saw the
main thread hold a frame, at a moment when that is no longer so.
`NoWakeupLost` says that it then still has a message in its mailbox or the main
thread is about to post one; otherwise it sleeps with a timer, without packets,
paused, or while the main thread does hold its frame. The invariant
`QueueIsWoken` has what the queue saw (`ShownIsPosted`), what `_queued` says of
the mailbox (`QueuedIsPosted`), and that each pause in it has a resume after it
if the player is not paused (`ResumeIsPosted`). `GivenGoesOn` is the same of the
main thread: a frame it was given is being looked at, has its timer or is being
rendered, waits for the view, is being marked as shown, or a message about it
is in the inbox. It does not say that the message is handled or the timer
fires: that is fairness.

`FrameFlowProofs` proves, for a video of any length and with every failure:

* `OrderHolds`: `Spec => []FramesInOrder`
* `Implementation`: `Spec => ImplementsFlow`
* `EndsWithNothingLeft`: `Spec => []NothingLeftBehind`

With `Handover` the main thread and the queue do not disturb each other, so
what is left to show is that the queue keeps frames in order. `OneIsLate` is the
part that is not obvious: the decoder may give a frame one place early, but then
the frame it skipped is the next it gives, is before all else it has, and no
other frame in the ring is later than it. Since a frame is given only when both
places are filled and sorted (`FilledInTurn`), or the end was read, the frame
given is before everything left (`FirstIsNext`) and everything left is after
what was shown (`LaterThanShown`). The end is read only when nothing else is
left (`ReadOnce`) and sorted behind it, so a track that completes has nothing
more (`DoneIsLast`).

`SessionProofs` proves, for any set of requests, any bounds on faults, errors
and packets, and any sizes of the windows of ids:

* `TypeCorrect`: `Spec => []TypeOK`
* `OneIdHolds`: `Spec => []SentByOneId`
* `Implementation`: `Spec => ImplementsCalls`

That a request is carried out once does not follow from where it is sent: the
same message may be on its way several times. It follows from its id, as a
server session takes a message once. `OneId` says so: whatever is on its way or
has come to the present server session, of a request that nobody said has to be
repeated, was sent by the `msg_id` the request has now. It holds because a new
id is given only to a request without one, or to all at the start of a session,
and nothing is on its way then (`OneId` has `started` for that). A request
without an id is one that was never sent (`WithoutId`): what `resend()` puts
back keeps its id and is forced into a container, and what is delayed was
answered to be repeated (`DelayedIsRepeated`). A request that `tryToSend()` took
alone always gets an id, so nobody may put it back in between
(`AloneIsFirst`). `NewIsNowhere` and `ReceivedWereGiven` are the two ends: a
request that was not asked is nowhere, and the main thread has only what the
server said. The lemmas `Ranks` and `IdsAreGiven` show that a batch gets as many
ids as it has messages, in their order. `Connected`, the answers and the
acknowledgements leave all of it alone (`QuietStep`); so do losses
(`LosingStep`); what is left is the two ways to send (`GivingStep`) and the
server (`Served`, `ServeRuns`). With an answer that asks to repeat the theorem
fails if a server forgets what it answered while the older message is on its
way: `Calls` has that exception, and without it the run `session` refutes
`ImplementsCalls`.

The same module proves where a request can be:

* `KeptSomewhere`: `Spec /\ []Remembered => []NothingLost`
* `KeptWhileFew`: `Spec /\ [](Len(owner) <= AckedSize) => []NothingLost`
* `NeverSentTwice`: `Spec => []SentOnce`

`NothingLost` has a hypothesis because the code has a limit. `requestsAcked`
takes an answered message out of the maps and adds it to `_ackedIds`, of which
the 400 latest are kept (`kIdsBufferSize`, here `AckedSize`); only then does
`wasSent` look for it. `Remembered` says that fewer than `AckedSize` messages
after each one that is sent, or to be sent again, were answered, so that its own
answer will be kept. The run `session_trimmed` shows what happens without that;
in the run `session` it holds in every state, and it follows where the session
gives out no more ids than it remembers (lemma `FewAreRemembered`), which is the
second theorem. The invariant, `AllPlaced`, is `NothingLost` with places for
numbers of sendings. `RenamedKeep` follows a request through `replaceMsgId`: the
place it has under its old id it has under the new one. `AnswerComes` is the
step in which it could be lost: what leaves the maps reaches the main thread.

`SentOnce` is the other way round, and the harder one: each step that puts a
request into some place has to know that it is in no other. `InOnePlace` has for
each place what it excludes: a sent message is the one its request has the id of
(`SentByMsgId`), a queued request that has an id is to be resent by it
(`QueuedIsResending`), a request that was answered to be repeated is nowhere
until it is repeated (`FailedIsNowhere`), and what may still be answered so is
the message that the request was last sent as, and is not refused already
(`OneFailure`). `MayFail` is what makes that inductive: the answers the session
may still take, and the messages that may yet be answered. It only loses members
when an answer is taken, as an answer is not taken twice: lemma `OneLeaves`
shows that what falls out of the window of received ids is older than all that
stays, and `HeardOnce` that it is then below the window, where the code does not
look. With a server that forgets a message it answered and answers it once more,
both times to be repeated, the request is queued beside its own second sending;
`SentOnce` leaves that out (`RepeatedOnce`), and a comment in the code says that
it cannot be asserted (session_private.cpp, "#TODO rewrite so that it will
always hold"). Four parts hold without the exception: all answers are good where
there were no errors (`NoneFailed`), a server session answers a message once
(`AnsweredOnce`), the maps and the hands of `resendAll` are apart
(`HandsApart`), and what is to be resent is forced into a container
(`ResendingIsForced`).

What is model-checked only is liveness, which is out of the prover's reach under
fairness: `HeardIsReached` and `AskingEnds` of both kinds of box,
`BufferedIsReached`, `PostponedIsSent`, `EntryIsApplied`, `WillIsSent`,
`GivenIsShown`, `PlaybackEnds` and `AnsweredInTheEnd`. For most of them the
safety half is a theorem, that in every state something is there that can make
progress: `AskingGoesOn`, `WaitsSafely`, `NothingIsForgotten`,
`QueueNeverSleepsOver`, `GivenIsNeverForgotten`, and `KeptSomewhere` of a
session. What they leave to the runs is that it does make progress, and does not
go round in circles. Every invariant, action property and refinement of a
passing run is a theorem, some of them with hypotheses: where updates take pts,
where pixels can be had, as long as enough is remembered. Gaps of updates with a
pts_count of 0 are in no run that passes, but `Invariance`, `NeverSkips` and
`Implementation` hold with them.

## Where code and comments disagree

1. `channel_known`: data/data_pts_waiter.h:23 promises a 1s wait for a skipped
   pts. A gap found by a bare pts (`ptsReceived`, from a history page) starts
   that wait in `check()` and ends it in the same call: `check()` returns
   `!count`, and `updateAndApply()` then flushes and stops waiting
   (data/data_pts_waiter.cpp:165, 186). The channel stays behind until
   something else happens to it. An update with a pts_count of 0 takes the same
   path: with 0 among `PtsCounts`, `HeardIsReached` fails for the common box
   too, so the run `updates` leaves 0 out; `Invariance` of `Updates` has it.
2. `channel_fail`: api/api_updates.h:186 keeps a growing timeout for repeating
   a failed `getChannelDifference`. The retry finds the box still requesting
   and returns (api/api_updates.cpp:656, 704): nothing resets it, as
   `getDifferenceAfterFail` does for the common box (line 644). The channel
   never asks again and skips its pushes.
3. `channel_unknown`: api/api_updates.cpp:70 says that a shown channel is asked
   for its difference after 1s. If its pts is not known when the timer fires,
   `getChannelDifference` returns and the entry is erased (lines 628, 704), and
   nothing sets the timer again when the pts becomes known.

4. `frame_format`: media/streaming/media_streaming_video_track.cpp:1053 asserts
   that a frame that is painted has a format. `rasterizeFrame` resets the format
   first and returns where the pixels cannot be had (lines 450 and 466), with
   the picture an earlier frame left in that place of the ring; `presentFrame`
   asks `IsRasterized` (line 889), which looks at that picture, and releases the
   frame. The error is posted to the main thread, but a repaint that is handled
   before it displays, shows and paints the frame.
5. `session_trimmed`: mtproto/session_private.cpp:1863 saves each `rpc_result`
   for the main thread. `requestsAcked` comes first: it takes the message from
   the sent ones, adds it to the answered ones, and drops the smallest ids of
   those above 400 (line 2176), which may be the one it just added, if 400 later
   messages were answered before. `wasSent` then knows nothing of it, the
   answer is dropped and the callback is never called. The cfg has a limit of 1.

The passing runs of `FrameRing` leave out failures to transfer, and the run
`session` never reaches the limit. The passing runs of `ChannelUpdates` that
state the same properties leave exactly these causes out, by constants, and the
bounds above say so.

## Not modelled

* `_updatesDate` and qts: passed through to the server.
* Updates that come without pts (typing, statuses, and so on): they change data
  only.
* `updates.differenceTooLong`, which the code logs and does not support.
* The loop of `applySkippedUpdates`, which is one step: what an update does to
  the data while the queue is walked calls nothing that changes the box.
* Pushes that force a logout, which `mtpUpdateReceived` lets in while a
  difference is asked for: the session ends with them.
* `channelRangeDifference...`: validating the loaded part of a history after
  `channelDifferenceTooLong`.
* A server that repeats an update it already sent: `_count` then grows beyond
  `_last`, the case of api/data `setWaitingForSkipped(channel, 1)`.
* Of `Data::Histories`: messages that wait for their topic to be created,
  entries of folders, fake chat list requests and group requests; the callbacks
  an entry can be asked for with.
* Of the session: requests that need no acknowledgement; `invokeAfter`
  (`request->after`); wrapping with the layer and `initConnection`; pings,
  `http_wait`, `msg_detailed_info` and `msg_resend_req`; state requests as
  messages that may be lost themselves; fatal codes of `bad_msg_notification`;
  the time between a connection and the first salt; keys and their binding.
  Requests so large that `kCutContainerOnSize` leaves one of several for a
  sending of its own: `TakeAlone` takes a request that is all there is to send,
  and `SendContainer` any part of what there is.
* Of `MTP::Instance`: dependent requests, migration, guests, 401 errors.
* Of the video track: a file or decoder error while frames are read, after which
  `readFrames` presents nothing and the track reports the error; looped playback,
  `setSpeed`, a change of `waitForMarkAsShown` while playing, the first frame, and
  the requests of several views for pictures of different sizes.
* The other parts in the table above: `PROJECT.json` has the reason for each.

## Plan

In this order:

1. The range difference of channels; messages that wait for a topic.
2. The rest of `MTP::Instance`: dependent requests and migration; the transfer
   managers; `Streaming::Reader`.
