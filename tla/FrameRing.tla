------------------------------ MODULE FrameRing ------------------------------
(***************************************************************************)
(* VideoTrack::Shared (media/streaming/media_streaming_video_track): a     *)
(* ring of four frames between the queue that decodes a video and the main *)
(* thread that paints it.  No lock guards the frames: the parity and the   *)
(* value of one atomic counter say which thread may touch which of them.   *)
(* The module has the loop of VideoTrackObject that fills the ring, with   *)
(* the messages and the timer that wake it, and the part of Player that    *)
(* empties it.                                                             *)
(*                                                                         *)
(* Each load and each store of the counter is a step of its own, so what a *)
(* thread does with a frame comes after what it saw of the counter.  Times *)
(* are left out: whether a frame is stale, or due, is a choice.            *)
(***************************************************************************)
EXTENDS Integers, Sequences, FiniteSets

CONSTANTS
  Last,       \* the frames of a video are some 1 .. n, by position, n <= Last
  Batches,    \* how many packets of frames may come at a time
  MaxPauses,  \* bound: how many times the main thread pauses
  Formats,    \* the formats of pictures the decoder gives
  Failures    \* how making a picture of a frame may fail

ASSUME RingAssumption ==
  /\ Last \in Nat \ {0}
  /\ Batches \subseteq Nat \ {0}
  /\ MaxPauses \in Nat
  /\ Formats \subseteq {"ARGB32", "YUV"} /\ Formats # {}
  /\ Failures \subseteq {"convert", "transfer"}

VARIABLES
  counter,  \* Shared::_counter
  frames,   \* Shared::_frames
  wait,     \* PlaybackOptions::waitForMarkAsShown
  \* The queue of the track.
  qpc,      \* what it is doing
  qc,       \* the counter it loaded
  qat,      \* the frame it reads into
  queued,   \* _queued
  qtimer,   \* _readFramesTimer is active
  playing,  \* _resumedTime is known and _pausedTime is not
  packets,  \* packets in _stream.queue, a frame each
  left,     \* the frames the decoder has not given yet
  mailbox,  \* what was posted to the queue
  \* The main thread.
  mpc,      \* what it is doing
  mc,       \* the counter it loaded
  next,     \* Player::_nextFrameTime
  rtimer,   \* _renderFrameTimer is active
  finished, \* _videoFinished
  inbox,    \* events of the track posted to the main thread
  paused,   \* Player::_paused
  pauses

queueVars == <<qpc, qc, qat, queued, qtimer, playing, packets, left>>
mainVars == <<mpc, mc, next, rtimer, finished, paused, pauses>>
vars == <<counter, frames, wait, queueVars, mailbox, mainVars, inbox>>

kFramesCount == 4
Indices == 0 .. kFramesCount - 1
Counters == 0 .. 2 * kFramesCount - 1

(* kTimeUnknown and kFinishedPosition, around the positions of frames.     *)
Unknown == 0
Finished == Last + 1

(* displayed: the time of display is known or skipped; image: there is an  *)
(* original, perhaps of an earlier frame.  YUV stands for both its kinds.  *)
Frame == [position : Unknown .. Finished, displayed : BOOLEAN,
          image : BOOLEAN, format : {"None", "ARGB32", "YUV"}]

Odd(c) == c % 2 = 1
After(i) == (i + 1) % kFramesCount

(* Slip: the frame given to the main thread is not left out.               *)
WorkingNext(c) == ((c \div 2) + 1) % kFramesCount

(* The counter after it is moved by the main thread; the frame the queue   *)
(* works on with a counter, the one the main thread is given, and the one  *)
(* that is painted.                                                        *)
AfterShown(c) == (c + 1) % (2 * kFramesCount)
Working(c) == ((c \div 2) + 1 + (c % 2)) % kFramesCount
Given(c) == AfterShown(c) \div 2
Painted(c) == c \div 2

IsDecoded(f) == f.position # Unknown /\ ~f.displayed
IsRasterized(f) == IsDecoded(f) /\ (f.image \/ f.format = "YUV")

Swap(fs, i, j) == [fs EXCEPT ![i] = fs[j], ![j] = fs[i]]

(* Slip: the decoder is trusted to give the frames in order.               *)
Unsorted(fs, i, j) == fs

Sorted(fs, i, j) == IF fs[j].position < fs[i].position THEN Swap(fs, i, j) ELSE fs

(* Shared::init(): the first frame is in place before the others know.     *)
Init ==
  /\ counter = 0
  /\ frames = [i \in Indices |->
       IF i = 0
       THEN [position |-> 1, displayed |-> TRUE, image |-> TRUE, format |-> "ARGB32"]
       ELSE [position |-> Unknown, displayed |-> FALSE, image |-> FALSE, format |-> "None"]]
  /\ wait \in BOOLEAN
  /\ qpc = "idle" /\ qc = 0 /\ qat = 0
  /\ queued = TRUE /\ qtimer = FALSE /\ playing = FALSE
  /\ packets = 0 /\ left \in {2 .. n : n \in 1 .. Last}
  /\ mailbox = <<"read", "resume">>
  /\ mpc = "idle" /\ mc = 0 /\ next = "unknown" /\ rtimer = FALSE
  /\ finished = FALSE /\ inbox = <<>>
  /\ paused = FALSE /\ pauses = 0

-----------------------------------------------------------------------------
(* The queue.                                                              *)

(* What it does next, with the counter it saw and the frame it reads into; *)
(* both are forgotten when it is done.                                     *)
Goes(pc, c, i) == qpc' = pc /\ qc' = c /\ qat' = i
GoesIdle == Goes("idle", 0, 0)
ReadInto(i) == Goes("read", qc, i)

(* queueReadFrames() without a delay, when the rest of the mailbox is m.   *)
QueueReadFrames(m) ==
  /\ queued' = TRUE
  /\ mailbox' = IF queued THEN m ELSE Append(m, "read")

Receive(message) ==
  /\ qpc = "idle"
  /\ mailbox # <<>> /\ Head(mailbox) = message

(* readFrames() begins.                                                    *)
ReceiveRead ==
  /\ Receive("read")
  /\ queued' = FALSE
  /\ mailbox' = Tail(mailbox)
  /\ Goes("load", 0, 0)
  /\ UNCHANGED <<counter, frames, wait, qtimer, playing, packets, left, mainVars, inbox>>

(* frameShown() and resume() make it read; a pause does not stop reading.  *)
ReceiveOther ==
  /\ \/ /\ Receive("shown")
        /\ QueueReadFrames(Tail(mailbox))
        /\ UNCHANGED playing
     \/ /\ Receive("resume")
        /\ playing' = TRUE
        /\ QueueReadFrames(Tail(mailbox))
     \/ /\ Receive("pause")
        /\ playing' = FALSE
        /\ mailbox' = Tail(mailbox)
        /\ UNCHANGED queued
  /\ UNCHANGED <<counter, frames, wait, qpc, qc, qat, qtimer, packets, left, mainVars, inbox>>

ReadTimer ==
  /\ qpc = "idle" /\ qtimer
  /\ qtimer' = FALSE
  /\ Goes("load", 0, 0)
  /\ UNCHANGED <<counter, frames, wait, queued, playing, packets, left, mailbox, mainVars, inbox>>

(* process(): packets of some more frames came, or the end, by itself.     *)
Process ==
  LET missing == Cardinality(left) - packets IN
  /\ qpc = "idle"
  /\ \/ missing > 0 /\ \E n \in Batches : packets' = packets + (IF n < missing THEN n ELSE missing)
     \/ missing = 0 /\ packets' = packets + 1
  /\ QueueReadFrames(mailbox)
  /\ UNCHANGED <<counter, frames, wait, qpc, qc, qat, qtimer, playing, left, mainVars, inbox>>

(* Shared::prepareState() loads the counter.                               *)
Load ==
  /\ qpc = "load"
  /\ Goes("prepare", counter, 0)
  /\ UNCHANGED <<counter, frames, wait, queued, qtimer, playing, packets, left, mailbox,
                 mainVars, inbox>>

(* prepareNext() and finishPrepare(), which ignores that a frame is stale. *)
Prepare ==
  LET i == Working(qc)
      j == After(i)
      both == IsDecoded(frames[i]) /\ IsDecoded(frames[j])
      sorted == Sorted(frames, i, j)
      settled == sorted[j].position = Finished \/ wait \/ ~Odd(qc)
  IN
  /\ qpc = "prepare"
  /\ \/ ~IsDecoded(frames[i]) /\ ReadInto(i) /\ UNCHANGED <<frames, qtimer>>
     \/ IsDecoded(frames[i]) /\ ~both /\ ReadInto(j) /\ UNCHANGED <<frames, qtimer>>
     \/ /\ both /\ settled
        /\ frames' = sorted
        /\ IF Odd(qc) THEN GoesIdle ELSE Goes("check", 0, 0)
        /\ UNCHANGED qtimer
     \/ \* The frame is stale: the next one takes its place.
        /\ both /\ ~settled
        /\ frames' = [Swap(sorted, i, j) EXCEPT ![j].displayed = TRUE]
        /\ ReadInto(j)
        /\ UNCHANGED qtimer
     \/ \* It is not: to be checked when it may be.
        /\ both /\ ~settled
        /\ frames' = sorted
        /\ qtimer' = TRUE
        /\ GoesIdle
  /\ UNCHANGED <<counter, wait, queued, playing, packets, left, mailbox, mainVars, inbox>>

(* The decoder gives frames by position, but one of them may come one      *)
(* place late.                                                             *)
Decodes(p) ==
  LET earlier == {x \in left : x < p} IN
  /\ p \in left
  /\ earlier # {} =>
       /\ Cardinality(earlier) = 1
       /\ \A x \in 2 .. Last : x \notin left => \A y \in earlier : x < y

(* readFrame(), and again for a frame that is stale at once.               *)
ReadFrame ==
  /\ qpc = "read" /\ packets > 0
  /\ \E p \in left :
       /\ Decodes(p)
       /\ frames' = [frames EXCEPT ![qat].position = p, ![qat].displayed = FALSE]
       /\ left' = left \ {p}
  /\ packets' = packets - 1
  /\ \/ Goes("load", 0, 0)
     \/ ~wait /\ UNCHANGED <<qpc, qc, qat>>
  /\ UNCHANGED <<counter, wait, queued, qtimer, playing, mailbox, mainVars, inbox>>

(* readFrame() has to wait for packets: process() will go on.              *)
ReadWaits ==
  /\ qpc = "read" /\ packets = 0
  /\ GoesIdle
  /\ UNCHANGED <<counter, frames, wait, queued, qtimer, playing, packets, left, mailbox,
                 mainVars, inbox>>

ReadFinished ==
  /\ qpc = "read" /\ packets = 1 /\ left = {}
  /\ frames' = [frames EXCEPT ![qat].position = Finished, ![qat].displayed = FALSE]
  /\ Goes("check", 0, 0)
  /\ UNCHANGED <<counter, wait, queued, qtimer, playing, packets, left, mailbox, mainVars, inbox>>

(* presentFrameIfNeeded(), and presentFrame() loads the counter.           *)
Check ==
  /\ qpc = "check"
  /\ IF playing THEN Goes("present", counter, 0) ELSE GoesIdle
  /\ UNCHANGED <<counter, frames, wait, queued, qtimer, playing, packets, left, mailbox,
                 mainVars, inbox>>

(* interrupt(): the ring is not the queue's any more, and no message or    *)
(* timer does anything.                                                    *)
Interrupt(events) ==
  /\ Goes("interrupted", 0, 0)
  /\ inbox' = inbox \o events
  /\ UNCHANGED <<queued, qtimer, mailbox>>

(* present(): the frame goes to the main thread, which is told so.         *)
Present ==
  LET i == Working(qc) IN
  /\ qpc = "present" /\ ~Odd(qc)
  /\ frames[i].position # Finished
  /\ \E format \in Formats :
       frames' = [frames EXCEPT ![i].format = format, ![i].image = (format = "ARGB32")]
  /\ counter' = qc + 1
  /\ GoesIdle
  /\ inbox' = Append(inbox, "check")
  /\ QueueReadFrames(mailbox)
  /\ UNCHANGED <<wait, qtimer, playing, packets, left, mainVars>>

(* Slip: the end of the video is seen one frame early.                     *)
PresentFinishedEarly ==
  /\ qpc = "present" /\ frames[After(Working(qc))].position = Finished
  /\ Interrupt(<<"done">>)
  /\ UNCHANGED <<counter, frames, wait, playing, packets, left, mainVars>>

PresentFinished ==
  /\ qpc = "present" /\ frames[Working(qc)].position = Finished
  /\ Interrupt(<<"done">>)
  /\ UNCHANGED <<counter, frames, wait, playing, packets, left, mainVars>>

(* Slip: the frame is presented though there is no picture.                *)
PresentFailsOn(why) ==
  /\ qpc = "present" /\ ~Odd(qc)
  /\ frames[Working(qc)].position # Finished
  /\ frames' = [frames EXCEPT ![Working(qc)].format = "None", ![Working(qc)].image = FALSE]
  /\ counter' = qc + 1 /\ Interrupt(<<"error", "check">>)
  /\ UNCHANGED <<wait, playing, packets, left, mainVars>>

(* rasterizeFrame() fails, and interrupts the track.  Where the pixels can *)
(* not be converted there is no image; where they can not be had an image  *)
(* of an earlier frame stays, and the frame passes for a rasterized one.   *)
PresentFails(why) ==
  LET i == Working(qc)
      failed == [frames EXCEPT ![i].format = "None", ![i].image = @ /\ why = "transfer"]
  IN
  /\ qpc = "present" /\ ~Odd(qc)
  /\ frames[i].position # Finished
  /\ frames' = failed
  /\ IF IsRasterized(failed[i])
     THEN counter' = qc + 1 /\ Interrupt(<<"error", "check">>)
     ELSE UNCHANGED counter /\ Interrupt(<<"error">>)
  /\ UNCHANGED <<wait, playing, packets, left, mainVars>>

(* nextCheckDelay(): the main thread has its frame already.                *)
PresentLater ==
  LET i == Working(qc)
      decoded == IsDecoded(frames[i]) /\ IsDecoded(frames[After(i)])
  IN
  /\ qpc = "present" /\ Odd(qc)
  /\ frames[i].position # Finished
  /\ GoesIdle
  /\ IF decoded
     THEN /\ qtimer' \in IF wait \/ frames[After(i)].position = Finished
                         THEN {qtimer} ELSE {qtimer, TRUE}
          /\ UNCHANGED <<queued, mailbox>>
     ELSE QueueReadFrames(mailbox) /\ UNCHANGED qtimer
  /\ UNCHANGED <<counter, frames, wait, playing, packets, left, mainVars, inbox>>

Queue ==
  \/ ReceiveRead \/ ReceiveOther \/ ReadTimer
  \/ Load \/ Prepare \/ ReadFrame \/ ReadWaits \/ ReadFinished
  \/ Check \/ Present \/ PresentFinished \/ PresentLater
  \/ \E why \in Failures : PresentFails(why)

-----------------------------------------------------------------------------
(* The main thread.                                                        *)

(* What it does next, with the counter it sees for that.                   *)
Looks(pc) == mpc' = pc /\ mc' = counter
Rests(pc) == mpc' = pc /\ mc' = 0

(* Slip: the timer is left for the next request to repaint.                *)
RenderOrForget ==
  \/ Looks("mark") /\ rtimer' = FALSE
  \/ Rests("idle") /\ UNCHANGED rtimer

(* checkNextFrameRender(): it is time to render, or it will be.            *)
RenderOrWait ==
  \/ Looks("mark") /\ rtimer' = FALSE
  \/ Rests("idle") /\ rtimer' = TRUE

(* checkVideoStep()                                                        *)
CheckVideoStep ==
  \/ next = "done" /\ UNCHANGED <<mpc, mc, rtimer>>
  \/ next = "timed" /\ RenderOrWait
  \/ next = "unknown" /\ Looks("available") /\ UNCHANGED rtimer

CheckNextFrame ==
  /\ mpc = "idle" /\ inbox # <<>> /\ Head(inbox) = "check"
  /\ inbox' = Tail(inbox)
  /\ CheckVideoStep
  /\ UNCHANGED <<counter, frames, wait, queueVars, mailbox, next, finished, paused, pauses>>

(* Something is to be repainted.                                           *)
UpdateRequest ==
  /\ mpc = "idle" /\ ~finished
  /\ CheckVideoStep
  /\ UNCHANGED <<counter, frames, wait, queueVars, mailbox, next, finished, paused, pauses, inbox>>

(* checkNextFrameAvailability() with nextFrameDisplayTime()                *)
Availability ==
  /\ mpc = "available"
  /\ IF Odd(mc)
     THEN next' = "timed" /\ RenderOrWait
     ELSE Rests("idle") /\ UNCHANGED <<next, rtimer>>
  /\ UNCHANGED <<counter, frames, wait, queueVars, mailbox, finished, paused, pauses, inbox>>

RenderTimer ==
  /\ mpc = "idle" /\ rtimer
  /\ rtimer' = FALSE
  /\ Looks("mark")
  /\ UNCHANGED <<counter, frames, wait, queueVars, mailbox, next, finished, paused, pauses, inbox>>

(* renderFrame() with markFrameDisplayed()                                 *)
MarkDisplayed ==
  /\ mpc = "mark"
  /\ frames' = [frames EXCEPT ![Given(mc)].displayed = TRUE]
  /\ IF wait
     THEN next' = "done" /\ Rests("idle")
     ELSE next' = "unknown" /\ Looks("show")
  /\ UNCHANGED <<counter, wait, queueVars, mailbox, rtimer, finished, paused, pauses, inbox>>

(* Slip: that the frame was displayed is remembered.                       *)
MarkShownAgain ==
  /\ mpc = "idle"
  /\ Looks(IF next = "done" THEN "delay" ELSE "show")
  /\ UNCHANGED <<counter, frames, wait, queueVars, mailbox, next, rtimer, finished, paused, pauses, inbox>>

(* Player::markFrameShown(): what was displayed has been painted.  The     *)
(* time it took is added to the delay, which has the counter checked too.  *)
MarkShown ==
  /\ mpc = "idle"
  /\ IF next = "done"
     THEN next' = "unknown" /\ Looks("delay")
     ELSE Looks("show") /\ UNCHANGED next
  /\ UNCHANGED <<counter, frames, wait, queueVars, mailbox, rtimer, finished, paused, pauses, inbox>>

AddTimelineDelay ==
  /\ mpc = "delay"
  /\ Looks("show")
  /\ UNCHANGED <<counter, frames, wait, queueVars, mailbox, next, rtimer, finished, paused, pauses,
                 inbox>>

(* Slip: the counter does not come round.                                  *)
ShowOn ==
  /\ mpc = "show" /\ Odd(mc) /\ frames[Given(mc)].displayed
  /\ counter' = mc + 1 /\ Rests("post")
  /\ UNCHANGED <<frames, wait, queueVars, mailbox, next, rtimer, finished, paused, pauses, inbox>>

(* Shared::markFrameShown(), and the queue is told if it moved.            *)
Show ==
  /\ mpc = "show"
  /\ IF Odd(mc) /\ frames[Given(mc)].displayed
     THEN counter' = AfterShown(mc) /\ Rests("post")
     ELSE Rests("idle") /\ UNCHANGED counter
  /\ UNCHANGED <<frames, wait, queueVars, mailbox, next, rtimer, finished, paused, pauses, inbox>>

(* Slip: the queue is not told.                                            *)
PostShownNot ==
  /\ mpc = "post"
  /\ Rests("idle")
  /\ UNCHANGED <<counter, frames, wait, queueVars, mailbox, next, rtimer, finished, paused, pauses, inbox>>

PostShown ==
  /\ mpc = "post"
  /\ mailbox' = Append(mailbox, "shown")
  /\ Rests("idle")
  /\ UNCHANGED <<counter, frames, wait, queueVars, next, rtimer, finished, paused, pauses, inbox>>

(* frameForPaint()                                                         *)
Paint ==
  /\ mpc = "idle"
  /\ Looks("paint")
  /\ UNCHANGED <<counter, frames, wait, queueVars, mailbox, next, rtimer, finished, paused, pauses,
                 inbox>>

(* frameImage(): an original is made where there is only YUV.              *)
PaintEnds ==
  /\ mpc = "paint"
  /\ frames' = [frames EXCEPT ![Painted(mc)].image = TRUE]
  /\ Rests("idle")
  /\ UNCHANGED <<counter, wait, queueVars, mailbox, next, rtimer, finished, paused, pauses, inbox>>

(* The track completes, or fails and the player stops.                     *)
VideoFinished ==
  /\ mpc = "idle" /\ inbox # <<>> /\ Head(inbox) = "done"
  /\ inbox' = Tail(inbox)
  /\ finished' = TRUE
  /\ UNCHANGED <<counter, frames, wait, queueVars, mailbox, mpc, mc, next, rtimer, paused, pauses>>

StreamFailed ==
  /\ mpc = "idle" /\ inbox # <<>> /\ Head(inbox) = "error"
  /\ inbox' = <<>>
  /\ Rests("stopped") /\ next' = "unknown" /\ rtimer' = FALSE
  /\ UNCHANGED <<counter, frames, wait, queueVars, mailbox, finished, paused, pauses>>

(* updatePausedState()                                                     *)
Pause ==
  /\ mpc = "idle" /\ ~paused /\ pauses < MaxPauses
  /\ paused' = TRUE /\ pauses' = pauses + 1
  /\ mailbox' = Append(mailbox, "pause")
  /\ UNCHANGED <<counter, frames, wait, queueVars, mpc, mc, next, rtimer, finished, inbox>>

Resume ==
  /\ mpc = "idle" /\ paused
  /\ paused' = FALSE
  /\ mailbox' = Append(mailbox, "resume")
  /\ UNCHANGED <<counter, frames, wait, queueVars, mpc, mc, next, rtimer, finished, pauses, inbox>>

MainSteps ==
  \/ CheckNextFrame \/ Availability \/ RenderTimer \/ MarkDisplayed \/ AddTimelineDelay
  \/ Show \/ PostShown \/ PaintEnds \/ VideoFinished \/ StreamFailed

Outside == Process \/ UpdateRequest \/ MarkShown \/ Paint \/ Pause \/ Resume

Next == Queue \/ MainSteps \/ Outside

Spec == Init /\ [][Next]_vars

(***************************************************************************)
(* Both threads end what they began and, whatever else they do, run what   *)
(* is queued for them; the packets of the file come, and a view that waits *)
(* marks the frame it painted.                                             *)
(***************************************************************************)
QueueEvents == ReceiveRead \/ ReceiveOther \/ Process

MainEvents ==
  \/ CheckNextFrame \/ VideoFinished \/ StreamFailed \/ RenderTimer
  \/ MarkShown /\ next = "done"

Fairness ==
  /\ WF_vars(Queue) /\ SF_vars(QueueEvents)
  /\ WF_vars(MainSteps) /\ SF_vars(MainEvents)

FairSpec == Spec /\ Fairness

-----------------------------------------------------------------------------
TypeOK ==
  /\ counter \in Counters
  /\ frames \in [Indices -> Frame]
  /\ wait \in BOOLEAN
  /\ qpc \in {"idle", "load", "prepare", "read", "check", "present", "interrupted"}
  /\ qc \in Counters /\ qat \in Indices
  /\ queued \in BOOLEAN /\ qtimer \in BOOLEAN /\ playing \in BOOLEAN
  /\ packets \in Nat /\ left \subseteq 2 .. Last
  /\ mailbox \in Seq({"read", "shown", "pause", "resume"})
  /\ mpc \in {"idle", "available", "mark", "delay", "show", "post", "paint", "stopped"}
  /\ mc \in Counters
  /\ next \in {"unknown", "timed", "done"}
  /\ rtimer \in BOOLEAN /\ finished \in BOOLEAN /\ paused \in BOOLEAN
  /\ inbox \in Seq({"check", "done", "error"})
  /\ pauses \in 0 .. MaxPauses

(* The frames a thread may be reading or writing at what it does now.      *)
QueueTouches ==
  IF qpc = "prepare" \/ (qpc = "present" /\ Odd(qc)) THEN {Working(qc), After(Working(qc))}
  ELSE IF qpc = "present" THEN {Working(qc)}
  ELSE IF qpc = "read" THEN {qat}
  ELSE {}

MainTouches ==
  IF mpc = "paint" THEN {Painted(mc)}
  ELSE IF mpc = "mark" \/ (mpc \in {"available", "show"} /\ Odd(mc)) THEN {Given(mc)}
  ELSE {}

(* media_streaming_video_track.h:152: the delay is the main thread's while *)
(* the counter is odd, and is taken by the queue while it is even.         *)
QueueTakesDelay == qpc = "present" /\ ~Odd(qc)
MainAddsDelay == mpc = "delay"

(* No frame, and not the delay, is used by both threads at a time.         *)
NoSharedFrame ==
  /\ QueueTouches \cap MainTouches = {}
  /\ ~(QueueTakesDelay /\ MainAddsDelay)

(* The assertions of Shared and of Player hold: what is presented is       *)
(* decoded; a frame is marked, and time added, only while it is given;     *)
(* what is to be timed is rasterized and not displayed yet; what is        *)
(* painted was displayed; the timer runs for a frame whose time is known.  *)
NeverUnexpected ==
  /\ qpc = "present" /\ ~Odd(qc) => IsDecoded(frames[Working(qc)])
  /\ mpc = "available" /\ Odd(mc) => IsRasterized(frames[Given(mc)])
  /\ mpc \in {"mark", "delay"} => Odd(mc)
  /\ mpc = "paint" => frames[Painted(mc)].displayed /\ frames[Painted(mc)].position # Unknown
  /\ rtimer => next = "timed"

(* frameForPaint() asserts that the frame has a format, so that a frame    *)
(* which could not be rasterized is never painted.                         *)
PaintedHasFormat == mpc = "paint" => frames[Painted(mc)].format # "None"

-----------------------------------------------------------------------------
(***************************************************************************)
(* Why no lock is needed: what a thread saw of the counter stays true, but *)
(* for the one move the other may make, and that one changes nothing about *)
(* the frames the thread works on.                                         *)
(***************************************************************************)
QueueKnows ==
  /\ qpc \in {"prepare", "read", "present"} =>
       qc = counter \/ (Odd(qc) /\ counter = AfterShown(qc))
  /\ qpc = "read" =>
       \/ qat = Working(qc)
       \/ qat = After(Working(qc)) /\ IsDecoded(frames[Working(qc)])
  /\ qpc = "check" => IsDecoded(frames[Working(counter)])
  /\ qpc = "present" => IsDecoded(frames[Working(qc)])

MainKnows ==
  /\ mpc \in {"available", "mark", "delay", "show", "paint"} =>
       mc = counter \/ (~Odd(mc) /\ counter = mc + 1)
  /\ mpc \in {"mark", "delay"} => Odd(mc)
  /\ mpc = "mark" => next = "timed" /\ ~rtimer
  /\ mpc = "available" => next = "unknown"
  /\ mpc \in {"show", "delay"} => next # "done"
  /\ next # "unknown" => Odd(counter)
  /\ rtimer => next = "timed"

(* A given frame can be timed and painted, and who displayed it goes on to *)
(* mark it shown, or waits for the view to do so.                          *)
GivenIsReady ==
  Odd(counter) =>
    LET f == frames[Given(counter)] IN
    /\ f.position # Unknown /\ (f.image \/ f.format = "YUV")
    /\ next = "timed" => ~f.displayed
    /\ f.displayed =>
         \/ next = "done" \/ mpc = "stopped"
         \/ mpc \in {"show", "delay"} /\ Odd(mc)

PaintedWasShown ==
  frames[Painted(counter)].displayed /\ frames[Painted(counter)].position # Unknown

(* If only conversions fail, what fails is not presented.                  *)
FormatIsKnown ==
  "transfer" \notin Failures =>
    /\ frames[Painted(counter)].format # "None"
    /\ Odd(counter) => frames[Given(counter)].format # "None"

Handover == QueueKnows /\ MainKnows /\ GivenIsReady /\ PaintedWasShown /\ FormatIsKnown

(* The frames the queue holds ready: the two it works on.                  *)
Position(i) == frames[i].position
Ready ==
  {Position(i) : i \in {k \in {Working(counter), After(Working(counter))} :
                          IsDecoded(frames[k]) /\ Position(k) # Finished}}

(* The frame the main thread was given, and the one on the screen.         *)
Offered == IF Odd(counter) THEN Position(Given(counter)) ELSE 0
Shown == Position(Painted(counter))

(* When the track completes every frame went to the main thread, or was    *)
(* dropped: none is left in the ring or in the decoder.                    *)
NothingLeftBehind ==
  (finished \/ \E k \in DOMAIN inbox : inbox[k] = "done") => left = {} /\ Ready = {}

(* The ring is a way to keep what FrameFlow promises.                      *)
Flow == INSTANCE FrameFlow WITH
  Ahead <- 2,
  ready <- Ready,
  offered <- Offered,
  painted <- Shown,
  lossy <- ~wait

ImplementsFlow == Flow!Spec

-----------------------------------------------------------------------------
(***************************************************************************)
(* Why frames are shown in order: the two frames the queue holds are       *)
(* sorted before the first is given, and the decoder is at most one frame  *)
(* late, so that what it still has to give comes after it.                 *)
(***************************************************************************)
First == Working(counter)
Second == After(First)

(* What is still to be given comes after what is painted and what is given.*)
LaterThanShown ==
  \A p \in left \cup Ready : p > Shown /\ p > Offered

(* No frame is read twice, and after the last one there is none.           *)
ReadOnce ==
  /\ Ready \cap left = {}
  /\ Ready \subseteq 2 .. Last
  /\ \A k \in {First, Second} :
       IsDecoded(frames[k]) /\ Position(k) = Finished => left = {}
  /\ IsDecoded(frames[First]) /\ IsDecoded(frames[Second]) =>
       Position(First) # Position(Second) \/ Position(First) = Finished

(* A frame that was read before an earlier one: there is one such frame,   *)
(* and it waits for one that is left.                                      *)
OneIsLate ==
  \A p \in Ready, x \in left :
    x < p => /\ \A y \in left : y # x => p < y
             /\ \A q \in Ready : q # p => q < x

(* The second place is filled after the first, the one after them is free, *)
(* and only a track that may drop frames reads over one.                   *)
FilledInTurn ==
  /\ IsDecoded(frames[Second]) => IsDecoded(frames[First])
  /\ ~Odd(counter) => ~IsDecoded(frames[After(Second)])
  /\ qpc = "read" /\ qat = First => ~IsDecoded(frames[Second])
  /\ qpc = "read" /\ IsDecoded(frames[qat]) => ~wait

(* What is about to be given is the next frame of the video.               *)
FirstIsNext ==
  qpc \in {"check", "present"} =>
    /\ \A x \in left : Position(First) < x
    /\ IsDecoded(frames[Second]) => Position(First) <= Position(Second)

(* Once it is said that the track is done, nothing is read any more.       *)
DoneIsLast ==
  (finished \/ \E k \in DOMAIN inbox : inbox[k] = "done") =>
    qpc = "interrupted" /\ left = {} /\ Ready = {}

FramesInOrder == LaterThanShown /\ ReadOnce /\ OneIsLate /\ FilledInTurn /\ FirstIsNext

-----------------------------------------------------------------------------
(* A frame given to the main thread is shown in the end, or the player     *)
(* stops: neither a pause nor the end of the track keeps it back.          *)
GivenIsShown == Odd(counter) ~> (~Odd(counter) \/ mpc = "stopped")

(* A video that is not paused for good comes to its end: no wakeup of the  *)
(* queue is lost between the two threads.                                  *)
PlaybackEnds == <>[]~paused => <>(qpc = "interrupted")

==============================================================================
