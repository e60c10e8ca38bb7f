--------------------------- MODULE FrameRingProofs ---------------------------
(***************************************************************************)
(* Handover is an inductive invariant of FrameRing, for every Last,        *)
(* Batches, MaxPauses, Formats and Failures; so the two threads never use  *)
(* the same frame, none of the assertions about what they find fails, and  *)
(* a frame that is painted has a format unless pixels can not be had; and  *)
(* no wakeup between the two threads is lost.                              *)
(***************************************************************************)
EXTENDS FrameRing, FiniteSetTheorems, SequenceTheorems, TLAPS

(* The ring's arithmetic, which is the whole of the protocol: at every     *)
(* counter the frames of the two threads are apart, and a move of the      *)
(* counter hands over one frame and leaves the others where they were.     *)
LEMMA Apart ==
  ASSUME NEW c \in Counters
  PROVE  /\ Working(c) \in Indices /\ After(Working(c)) \in Indices
         /\ Painted(c) \in Indices /\ Given(c) \in Indices
         /\ Working(c) # After(Working(c))
         /\ Painted(c) # Working(c) /\ Painted(c) # After(Working(c))
         /\ Odd(c) => Given(c) # Working(c) /\ Given(c) # After(Working(c))
<1>1. c \in Nat /\ c <= 7  BY DEF Counters, kFramesCount
<1>2. \/ c = 0 \/ c = 1 \/ c = 2 \/ c = 3 \/ c = 4 \/ c = 5 \/ c = 6 \/ c = 7
  BY <1>1
<1>. QED
  BY <1>2 DEF Working, After, Painted, Given, AfterShown, Odd, Indices, kFramesCount

LEMMA Handed ==
  ASSUME NEW c \in Counters
  PROVE  /\ Odd(c) => /\ AfterShown(c) \in Counters /\ ~Odd(AfterShown(c))
                      /\ Working(AfterShown(c)) = Working(c)
                      /\ Painted(AfterShown(c)) = Given(c)
         /\ ~Odd(c) => /\ c + 1 \in Counters /\ Odd(c + 1)
                       /\ Given(c + 1) = Working(c)
                       /\ Painted(c + 1) = Painted(c)
<1>1. c \in Nat /\ c <= 7  BY DEF Counters, kFramesCount
<1>2. \/ c = 0 \/ c = 1 \/ c = 2 \/ c = 3 \/ c = 4 \/ c = 5 \/ c = 6 \/ c = 7
  BY <1>1
<1>. QED
  BY <1>2 DEF Working, Painted, Given, AfterShown, Odd, Counters, kFramesCount

-----------------------------------------------------------------------------
(* What is written to the frames.                                          *)

Frames == [Indices -> Frame]

LEMMA ReadIn ==
  ASSUME NEW fs \in Frames, NEW i \in Indices, NEW p \in Unknown .. Finished
  PROVE  LET g == [fs EXCEPT ![i].position = p, ![i].displayed = FALSE] IN
         /\ g \in Frames /\ g[i].position = p /\ ~g[i].displayed
         /\ \A k \in Indices \ {i} : g[k] = fs[k]
  BY DEF Frames, Frame

LEMMA Rasterized ==
  ASSUME NEW fs \in Frames, NEW i \in Indices, NEW b \in BOOLEAN,
         NEW format \in {"None", "ARGB32", "YUV"}
  PROVE  LET g == [fs EXCEPT ![i].format = format, ![i].image = b] IN
         /\ g \in Frames /\ g[i].format = format /\ g[i].image = b
         /\ g[i].position = fs[i].position /\ g[i].displayed = fs[i].displayed
         /\ \A k \in Indices \ {i} : g[k] = fs[k]
  BY DEF Frames, Frame

LEMMA Displayed ==
  ASSUME NEW fs \in Frames, NEW i \in Indices
  PROVE  LET g == [fs EXCEPT ![i].displayed = TRUE] IN
         /\ g \in Frames /\ g[i] = [fs[i] EXCEPT !.displayed = TRUE]
         /\ g[i].displayed /\ g[i].position = fs[i].position
         /\ g[i].image = fs[i].image /\ g[i].format = fs[i].format
         /\ \A k \in Indices \ {i} : g[k] = fs[k]
  BY DEF Frames, Frame

LEMMA Imaged ==
  ASSUME NEW fs \in Frames, NEW i \in Indices
  PROVE  LET g == [fs EXCEPT ![i].image = TRUE] IN
         /\ g \in Frames /\ g[i].image
         /\ g[i].position = fs[i].position /\ g[i].displayed = fs[i].displayed
         /\ g[i].format = fs[i].format
         /\ \A k \in Indices \ {i} : g[k] = fs[k]
  BY DEF Frames, Frame

LEMMA SortedFrames ==
  ASSUME NEW fs \in Frames, NEW i \in Indices, NEW j \in Indices, i # j,
         IsDecoded(fs[i]), IsDecoded(fs[j])
  PROVE  LET g == Sorted(fs, i, j) IN
         /\ g \in Frames /\ IsDecoded(g[i]) /\ IsDecoded(g[j])
         /\ \A k \in Indices \ {i, j} : g[k] = fs[k]
  BY DEF Frames, Sorted, Swap

LEMMA SwappedFrames ==
  ASSUME NEW fs \in Frames, NEW i \in Indices, NEW j \in Indices, i # j
  PROVE  LET g == Swap(fs, i, j) IN
         /\ g \in Frames /\ g[i] = fs[j] /\ g[j] = fs[i]
         /\ \A k \in Indices \ {i, j} : g[k] = fs[k]
  BY DEF Frames, Swap

-----------------------------------------------------------------------------
(* Types.                                                                  *)

Messages == {"read", "shown", "pause", "resume"}
Events == {"check", "done", "error"}

LEMMA SeqKept ==
  ASSUME NEW S, NEW s \in Seq(S)
  PROVE  /\ \A x \in S : Append(s, x) \in Seq(S)
         /\ s # <<>> => Tail(s) \in Seq(S)
         /\ \A x \in S, y \in S : s \o <<x>> \in Seq(S) /\ s \o <<x, y>> \in Seq(S)
  BY ConcatProperties, AppendProperties, HeadTailProperties

LEMMA QueuedIsMessage ==
  ASSUME TypeOK, NEW m \in Seq(Messages), QueueReadFrames(m)
  PROVE  queued' \in BOOLEAN /\ mailbox' \in Seq(Messages)
  BY SeqKept DEF TypeOK, QueueReadFrames, Messages

LEMMA LeftIsFinite ==
  ASSUME TypeOK
  PROVE  Cardinality(left) \in Nat
<1>1. Last \in Nat  BY RingAssumption
<1>2. IsFiniteSet(2 .. Last)  BY <1>1, FS_Interval
<1>3. IsFiniteSet(left)  BY <1>2, FS_Subset DEF TypeOK
<1>. QED  BY <1>3, FS_CardinalityType

LEMMA TypeInit == Init => TypeOK
<1>. SUFFICES ASSUME Init PROVE TypeOK
  OBVIOUS
<1>1. Last \in Nat \ {0} /\ MaxPauses \in Nat  BY RingAssumption
<1>2. counter \in Counters /\ qc \in Counters /\ mc \in Counters /\ qat \in Indices
  BY DEF Init, Counters, Indices, kFramesCount
<1>3. frames \in [Indices -> Frame]
  BY <1>1 DEF Init, Frame, Unknown, Finished, Indices, kFramesCount
<1>4. left \subseteq 2 .. Last
  <2>1. PICK n \in 1 .. Last : left = 2 .. n  BY DEF Init
  <2>. QED  BY <2>1, <1>1
<1>5. mailbox \in Seq(Messages) /\ inbox \in Seq(Events)
  BY DEF Init, Messages
<1>6. /\ wait \in BOOLEAN /\ qpc = "idle" /\ queued \in BOOLEAN /\ qtimer \in BOOLEAN
      /\ playing \in BOOLEAN /\ packets = 0 /\ mpc = "idle" /\ next = "unknown"
      /\ rtimer \in BOOLEAN /\ finished \in BOOLEAN /\ paused \in BOOLEAN /\ pauses = 0
  BY DEF Init
<1>. QED
  BY <1>1, <1>2, <1>3, <1>4, <1>5, <1>6 DEF TypeOK, Messages, Events

LEMMA TypeQueue ==
  ASSUME TypeOK, Queue
  PROVE  TypeOK'
<1>1. /\ Working(qc) \in Indices /\ After(Working(qc)) \in Indices
      /\ Working(qc) # After(Working(qc)) /\ qat \in Indices /\ 0 \in Indices
      /\ 0 \in Counters
      /\ ~Odd(qc) => qc + 1 \in Counters
  BY Apart, Handed DEF TypeOK, Counters, Indices, kFramesCount
<1>2. /\ frames \in Frames /\ mailbox \in Seq(Messages) /\ inbox \in Seq(Events)
  BY DEF TypeOK, Frames, Messages, Events
<1>3. mailbox # <<>> => Tail(mailbox) \in Seq(Messages)
  BY <1>2, SeqKept
<1>4. ASSUME NEW events, Interrupt(events), events \in {<<"done">>, <<"error">>, <<"error", "check">>}
      PROVE  /\ qpc' = "interrupted" /\ qc' = 0 /\ qat' = 0 /\ UNCHANGED <<queued, qtimer, mailbox>>
             /\ inbox' \in Seq(Events)
  BY <1>2, <1>4, SeqKept DEF Interrupt, Goes, Events
<1>. USE DEF Goes, GoesIdle, ReadInto
<1>5. CASE ReceiveRead
  BY <1>5, <1>1, <1>3 DEF ReceiveRead, Receive, TypeOK, mainVars, Messages
<1>6. CASE ReceiveOther
  <2>1. Tail(mailbox) \in Seq(Messages)
    BY <1>6, <1>3 DEF ReceiveOther, Receive
  <2>2. queued' \in BOOLEAN /\ mailbox' \in Seq(Messages) /\ playing' \in BOOLEAN
    BY <1>6, <2>1, QueuedIsMessage DEF ReceiveOther, TypeOK
  <2>. QED  BY <1>6, <2>2 DEF ReceiveOther, TypeOK, mainVars, Messages
<1>7. CASE ReadTimer
  BY <1>7, <1>1 DEF ReadTimer, TypeOK, mainVars
<1>8. CASE Load
  BY <1>8, <1>1 DEF Load, TypeOK, mainVars
<1>9. CASE Prepare
  <2>1. frames' \in Frames
    <3>. DEFINE i == Working(qc)
                j == After(Working(qc))
    <3>1. IsDecoded(frames[i]) /\ IsDecoded(frames[j]) => Sorted(frames, i, j) \in Frames
      BY <1>1, <1>2, SortedFrames
    <3>2. ASSUME Sorted(frames, i, j) \in Frames
          PROVE  [Swap(Sorted(frames, i, j), i, j) EXCEPT ![j].displayed = TRUE] \in Frames
      BY <1>1, <3>2, SwappedFrames, Displayed
    <3>. QED  BY <1>2, <1>9, <3>1, <3>2 DEF Prepare
  <2>2. /\ qpc' \in {"idle", "read", "check"} /\ qc' \in Counters /\ qat' \in Indices
        /\ qtimer' \in BOOLEAN
    <3>1. \/ ReadInto(Working(qc)) /\ UNCHANGED qtimer
          \/ ReadInto(After(Working(qc))) /\ UNCHANGED qtimer
          \/ GoesIdle /\ UNCHANGED qtimer
          \/ Goes("check", 0, 0) /\ UNCHANGED qtimer
          \/ GoesIdle /\ qtimer' = TRUE
      BY <1>9 DEF Prepare
    <3>. QED  BY <1>1, <3>1 DEF TypeOK
  <2>3. UNCHANGED <<counter, wait, queued, playing, packets, left, mailbox, mainVars, inbox>>
    BY <1>9 DEF Prepare
  <2>. QED  BY <2>1, <2>2, <2>3 DEF TypeOK, mainVars, Frames
<1>10. CASE ReadFrame
  <2>1. PICK p \in left : frames' = [frames EXCEPT ![qat].position = p, ![qat].displayed = FALSE]
                           /\ left' = left \ {p}
    BY <1>10 DEF ReadFrame
  <2>2. p \in Unknown .. Finished
    BY RingAssumption DEF TypeOK, Unknown, Finished
  <2>3. frames' \in Frames
    BY <1>1, <1>2, <2>1, <2>2, ReadIn
  <2>4. packets' \in Nat
    BY <1>10 DEF ReadFrame, TypeOK
  <2>5. /\ UNCHANGED <<counter, wait, queued, qtimer, playing, mailbox, mainVars, inbox>>
        /\ Goes("load", 0, 0) \/ UNCHANGED <<qpc, qc, qat>>
    BY <1>10 DEF ReadFrame
  <2>6. left' \subseteq 2 .. Last
    BY <2>1 DEF TypeOK
  <2>. QED  BY <1>1, <2>3, <2>4, <2>5, <2>6 DEF TypeOK, mainVars, Frames
<1>11. CASE ReadWaits
  BY <1>11, <1>1 DEF ReadWaits, TypeOK, mainVars
<1>12. CASE ReadFinished
  <2>1. Finished \in Unknown .. Finished
    BY RingAssumption DEF Unknown, Finished
  <2>2. frames' \in Frames
    BY <1>1, <1>2, <1>12, <2>1, ReadIn DEF ReadFinished
  <2>3. /\ UNCHANGED <<counter, wait, queued, qtimer, playing, packets, left, mailbox, mainVars, inbox>>
        /\ Goes("check", 0, 0)
    BY <1>12 DEF ReadFinished
  <2>. QED  BY <1>1, <2>2, <2>3 DEF TypeOK, mainVars, Frames
<1>13. CASE Check
  BY <1>13, <1>1 DEF Check, TypeOK, mainVars
<1>14. CASE Present
  <2>1. PICK format \in Formats :
          frames' = [frames EXCEPT ![Working(qc)].format = format,
                                   ![Working(qc)].image = (format = "ARGB32")]
    BY <1>14 DEF Present
  <2>2. format \in {"None", "ARGB32", "YUV"}  BY RingAssumption
  <2>3. frames' \in Frames
    BY <1>1, <1>2, <2>1, <2>2, Rasterized
  <2>4. queued' \in BOOLEAN /\ mailbox' \in Seq(Messages)
    BY <1>14, <1>2, QueuedIsMessage DEF Present
  <2>5. inbox' \in Seq(Events)
    BY <1>14, <1>2, SeqKept DEF Present, Events
  <2>6. /\ counter' = qc + 1 /\ ~Odd(qc) /\ GoesIdle
        /\ UNCHANGED <<wait, qtimer, playing, packets, left, mainVars>>
    BY <1>14 DEF Present
  <2>. QED
    BY <1>1, <2>3, <2>4, <2>5, <2>6 DEF TypeOK, mainVars, Frames, Messages, Events
<1>15. CASE PresentFinished
  <2>1. /\ Interrupt(<<"done">>)
        /\ UNCHANGED <<counter, frames, wait, playing, packets, left, mainVars>>
    BY <1>15 DEF PresentFinished
  <2>2. /\ qpc' = "interrupted" /\ qc' = 0 /\ qat' = 0 /\ UNCHANGED <<queued, qtimer, mailbox>>
        /\ inbox' \in Seq(Events)
    BY <1>4, <2>1
  <2>. QED  BY <1>1, <2>1, <2>2 DEF TypeOK, mainVars, Events
<1>16. CASE PresentLater
  <2>1. queued' \in BOOLEAN /\ mailbox' \in Seq(Messages) /\ qtimer' \in BOOLEAN
    BY <1>16, <1>2, QueuedIsMessage DEF PresentLater, TypeOK
  <2>2. /\ UNCHANGED <<counter, frames, wait, playing, packets, left, mainVars, inbox>>
        /\ GoesIdle
    BY <1>16 DEF PresentLater
  <2>. QED  BY <1>1, <2>1, <2>2 DEF TypeOK, mainVars, Messages
<1>17. ASSUME NEW why \in Failures, PresentFails(why)
       PROVE  TypeOK'
  <2>1. frames' \in Frames
    <3>1. (frames[Working(qc)].image /\ why = "transfer") \in BOOLEAN
      OBVIOUS
    <3>2. frames' = [frames EXCEPT ![Working(qc)].format = "None",
                       ![Working(qc)].image = frames[Working(qc)].image /\ why = "transfer"]
      BY <1>1, <1>2, <1>17 DEF PresentFails, Frames, Frame
    <3>. QED  BY <1>1, <1>2, <3>1, <3>2, Rasterized
  <2>2. /\ ~Odd(qc) /\ UNCHANGED <<wait, playing, packets, left, mainVars>>
        /\ counter' \in {counter, qc + 1}
        /\ Interrupt(<<"error">>) \/ Interrupt(<<"error", "check">>)
    BY <1>17 DEF PresentFails
  <2>3. /\ qpc' = "interrupted" /\ qc' = 0 /\ qat' = 0 /\ UNCHANGED <<queued, qtimer, mailbox>>
        /\ inbox' \in Seq(Events)
    BY <1>4, <2>2
  <2>4. counter' \in Counters
    BY <1>1, <2>2 DEF TypeOK
  <2>. QED  BY <1>1, <2>1, <2>2, <2>3, <2>4 DEF TypeOK, mainVars, Frames, Events
<1>. QED
  BY <1>5, <1>6, <1>7, <1>8, <1>9, <1>10, <1>11, <1>12, <1>13, <1>14, <1>15, <1>16, <1>17
     DEF Queue

LEMMA TypeMain ==
  ASSUME TypeOK, MainSteps \/ Outside
  PROVE  TypeOK'
<1>1. /\ 0 \in Counters /\ Given(mc) \in Indices /\ Painted(mc) \in Indices
      /\ Odd(mc) => AfterShown(mc) \in Counters
  BY Apart, Handed DEF TypeOK, Counters, kFramesCount
<1>2. frames \in Frames /\ mailbox \in Seq(Messages) /\ inbox \in Seq(Events)
  BY DEF TypeOK, Frames, Messages, Events
<1>3. /\ inbox # <<>> => Tail(inbox) \in Seq(Events)
      /\ \A x \in Messages : Append(mailbox, x) \in Seq(Messages)
  BY <1>2, SeqKept
<1>4. ASSUME CheckVideoStep
      PROVE  /\ mpc' \in {mpc, "mark", "idle", "available"} /\ mc' \in {mc, counter, 0}
             /\ rtimer' \in BOOLEAN
  BY <1>4 DEF CheckVideoStep, RenderOrWait, Looks, Rests, TypeOK
<1>. USE DEF Looks, Rests, queueVars
<1>5. CASE CheckNextFrame
  BY <1>1, <1>3, <1>4, <1>5 DEF CheckNextFrame, TypeOK, Events
<1>6. CASE UpdateRequest
  BY <1>1, <1>4, <1>6 DEF UpdateRequest, TypeOK
<1>7. CASE Availability
  BY <1>1, <1>7 DEF Availability, RenderOrWait, TypeOK
<1>8. CASE RenderTimer
  BY <1>8 DEF RenderTimer, TypeOK
<1>9. CASE MarkDisplayed
  <2>1. frames' \in Frames
    BY <1>1, <1>2, <1>9, Displayed DEF MarkDisplayed
  <2>. QED  BY <1>1, <1>9, <2>1 DEF MarkDisplayed, TypeOK, Frames
<1>10. CASE MarkShown
  BY <1>10 DEF MarkShown, TypeOK
<1>11. CASE AddTimelineDelay
  BY <1>11 DEF AddTimelineDelay, TypeOK
<1>12. CASE Show
  BY <1>1, <1>12 DEF Show, TypeOK
<1>13. CASE PostShown
  BY <1>1, <1>3, <1>13 DEF PostShown, TypeOK, Messages
<1>14. CASE Paint
  BY <1>14 DEF Paint, TypeOK
<1>15. CASE PaintEnds
  <2>1. frames' \in Frames
    BY <1>1, <1>2, <1>15, Imaged DEF PaintEnds
  <2>. QED  BY <1>1, <1>15, <2>1 DEF PaintEnds, TypeOK, Frames
<1>16. CASE VideoFinished
  BY <1>3, <1>16 DEF VideoFinished, TypeOK, Events
<1>17. CASE StreamFailed
  <2>1. inbox' \in Seq(Events)
    BY <1>17 DEF StreamFailed
  <2>. QED  BY <1>1, <1>17, <2>1 DEF StreamFailed, TypeOK, Events
<1>18. CASE Pause
  <2>1. pauses' \in 0 .. MaxPauses
    BY <1>18, RingAssumption DEF Pause, TypeOK
  <2>. QED  BY <1>3, <1>18, <2>1 DEF Pause, TypeOK, Messages
<1>19. CASE Resume
  BY <1>3, <1>19 DEF Resume, TypeOK, Messages
<1>20. CASE Process
  <2>1. packets' \in Nat
    BY <1>20, LeftIsFinite, RingAssumption DEF Process, TypeOK
  <2>2. queued' \in BOOLEAN /\ mailbox' \in Seq(Messages)
    BY <1>20, <1>2, QueuedIsMessage DEF Process
  <2>. QED  BY <1>20, <2>1, <2>2 DEF Process, TypeOK, mainVars, Messages
<1>. QED
  BY <1>5, <1>6, <1>7, <1>8, <1>9, <1>10, <1>11, <1>12, <1>13, <1>14, <1>15, <1>16, <1>17,
     <1>18, <1>19, <1>20
     DEF MainSteps, Outside

LEMMA TypeStutter ==
  ASSUME TypeOK, UNCHANGED vars
  PROVE  TypeOK'
  BY DEF TypeOK, vars, queueVars, mainVars

-----------------------------------------------------------------------------
(* What a step of one thread leaves to the other.                          *)

MainSide == MainKnows /\ GivenIsReady /\ PaintedWasShown /\ FormatIsKnown

(* The queue works on the frames its counter names, though it may be one   *)
(* move of the main thread old.                                            *)
LEMMA QueueWorksOn ==
  ASSUME TypeOK, QueueKnows, qpc \in {"prepare", "read", "present"}
  PROVE  /\ Working(qc) = Working(counter)
         /\ ~Odd(qc) => qc = counter
  BY Handed DEF TypeOK, QueueKnows

LEMMA QueueKept ==
  ASSUME TypeOK, QueueKnows, UNCHANGED <<qpc, qc, qat>>,
         counter' = counter \/ (Odd(counter) /\ counter' = AfterShown(counter)),
         \A k \in {Working(counter), After(Working(counter))} : frames'[k] = frames[k]
  PROVE  QueueKnows'
<1>1. counter \in Counters /\ Working(counter') = Working(counter)
  BY Handed DEF TypeOK
<1>2. qpc \in {"prepare", "read", "present"} =>
        /\ qc = counter \/ (Odd(qc) /\ counter = AfterShown(qc))
        /\ Working(qc) = Working(counter)
  BY QueueWorksOn DEF QueueKnows
<1>3. qpc \in {"prepare", "read", "present"} =>
        qc = counter' \/ (Odd(qc) /\ counter' = AfterShown(qc))
  BY <1>2, Handed DEF TypeOK
<1>. QED  BY <1>1, <1>2, <1>3 DEF QueueKnows, IsDecoded

LEMMA MainKept ==
  ASSUME TypeOK, MainSide, UNCHANGED mainVars, counter' = counter,
         \A k \in Indices \ {Working(counter), After(Working(counter))} : frames'[k] = frames[k]
  PROVE  MainSide'
<1>1. /\ frames'[Painted(counter)] = frames[Painted(counter)]
      /\ Odd(counter) => frames'[Given(counter)] = frames[Given(counter)]
  BY Apart DEF TypeOK
<1>2. UNCHANGED <<mpc, mc, next, rtimer>>  BY DEF mainVars
<1>3. MainKnows'  BY <1>2 DEF MainSide, MainKnows
<1>4. GivenIsReady'  BY <1>1, <1>2 DEF MainSide, GivenIsReady
<1>5. PaintedWasShown' /\ FormatIsKnown'
  BY <1>1 DEF MainSide, PaintedWasShown, FormatIsKnown
<1>. QED  BY <1>3, <1>4, <1>5 DEF MainSide

(* A frame is handed to the main thread, which knows of none: whatever it  *)
(* saw of the counter is what it was before.                               *)
LEMMA MainGiven ==
  ASSUME TypeOK, MainSide, UNCHANGED mainVars, ~Odd(counter), counter' = counter + 1,
         \A k \in Indices \ {Working(counter)} : frames'[k] = frames[k],
         LET f == frames'[Working(counter)] IN
           /\ f.position # Unknown /\ ~f.displayed
           /\ f.image \/ f.format = "YUV"
           /\ "transfer" \notin Failures => f.format # "None"
  PROVE  MainSide'
<1>1. /\ Odd(counter') /\ Given(counter') = Working(counter)
      /\ Painted(counter') = Painted(counter)
      /\ frames'[Painted(counter)] = frames[Painted(counter)]
  BY Apart, Handed DEF TypeOK
<1>2. UNCHANGED <<mpc, mc, next, rtimer>>  BY DEF mainVars
<1>3. next = "unknown"  BY DEF MainSide, MainKnows
<1>4. mpc \in {"available", "mark", "delay", "show", "paint"} => mc = counter
  BY Handed DEF MainSide, MainKnows, TypeOK
<1>5. MainKnows'  BY <1>2, <1>3, <1>4, <1>1 DEF MainSide, MainKnows
<1>6. GivenIsReady'  BY <1>1, <1>2, <1>3 DEF GivenIsReady
<1>7. PaintedWasShown' /\ FormatIsKnown'
  BY <1>1 DEF MainSide, PaintedWasShown, FormatIsKnown
<1>. QED  BY <1>5, <1>6, <1>7 DEF MainSide

LEMMA HandoverQueue ==
  ASSUME TypeOK, Handover, Queue
  PROVE  Handover'
<1>. DEFINE i == Working(counter)
            j == After(Working(counter))
<1>1. /\ i \in Indices /\ j \in Indices /\ i # j /\ frames \in Frames
      /\ QueueKnows /\ MainSide
  BY Apart DEF TypeOK, Frames, Handover, MainSide
<1>2. qpc \in {"prepare", "read", "present"} =>
        Working(qc) = i /\ (~Odd(qc) => qc = counter)
  BY <1>1, QueueWorksOn
<1>3. ASSUME UNCHANGED <<counter, mainVars>>, QueueKnows',
             \A k \in Indices \ {i, j} : frames'[k] = frames[k]
      PROVE  Handover'
  BY <1>1, <1>3, MainKept DEF MainSide, Handover
<1>4. ASSUME qpc' \in {"idle", "load", "interrupted"}
      PROVE  QueueKnows'
  BY <1>4 DEF QueueKnows
<1>. HIDE DEF i, j
<1>5. CASE ReceiveRead
  BY <1>3, <1>4, <1>5 DEF ReceiveRead, Goes
<1>6. CASE ReceiveOther
  <2>1. UNCHANGED <<counter, frames, qpc, qc, qat, mainVars>> /\ qpc = "idle"
    BY <1>6 DEF ReceiveOther, Receive
  <2>. QED  BY <1>3, <1>4, <2>1
<1>7. CASE ReadTimer
  BY <1>3, <1>4, <1>7 DEF ReadTimer, Goes
<1>8. CASE Load
  <2>1. QueueKnows'  BY <1>8 DEF Load, Goes, QueueKnows
  <2>. QED  BY <1>3, <1>8, <2>1 DEF Load
<1>9. CASE Prepare
  <2>1. /\ UNCHANGED <<counter, mainVars>> /\ qpc = "prepare"
        /\ Working(qc) = i /\ After(Working(qc)) = j
        /\ qc = counter \/ (Odd(qc) /\ counter = AfterShown(qc))
    BY <1>1, <1>2, <1>9 DEF Prepare, QueueKnows, i, j
  <2>. DEFINE sorted == Sorted(frames, i, j)
              both == IsDecoded(frames[i]) /\ IsDecoded(frames[j])
  <2>2. \/ ReadInto(i) /\ UNCHANGED frames
        \/ IsDecoded(frames[i]) /\ ReadInto(j) /\ UNCHANGED frames
        \/ both /\ frames' = sorted /\ Odd(qc) /\ GoesIdle
        \/ both /\ frames' = sorted /\ ~Odd(qc) /\ Goes("check", 0, 0)
        \/ both /\ frames' = [Swap(sorted, i, j) EXCEPT ![j].displayed = TRUE] /\ ReadInto(j)
        \/ both /\ frames' = sorted /\ GoesIdle
    BY <1>9, <2>1 DEF Prepare
  <2>3. both => /\ sorted \in Frames /\ IsDecoded(sorted[i]) /\ IsDecoded(sorted[j])
                /\ \A k \in Indices \ {i, j} : sorted[k] = frames[k]
    BY <1>1, SortedFrames
  <2>. HIDE DEF sorted, both
  <2>4. ASSUME both, NEW g, g = [Swap(sorted, i, j) EXCEPT ![j].displayed = TRUE]
        PROVE  IsDecoded(g[i]) /\ \A k \in Indices \ {i, j} : g[k] = frames[k]
    <3>1. /\ Swap(sorted, i, j) \in Frames /\ Swap(sorted, i, j)[i] = sorted[j]
          /\ \A k \in Indices \ {i, j} : Swap(sorted, i, j)[k] = sorted[k]
      BY <1>1, <2>3, <2>4, SwappedFrames
    <3>2. \A k \in Indices \ {j} : g[k] = Swap(sorted, i, j)[k]
      BY <1>1, <2>4, <3>1, Displayed
    <3>. QED  BY <1>1, <2>3, <2>4, <3>1, <3>2
  <2>5. \A k \in Indices \ {i, j} : frames'[k] = frames[k]
    BY <2>2, <2>3, <2>4
  <2>6. QueueKnows'
    <3>1. CASE ReadInto(i)
      BY <2>1, <3>1 DEF ReadInto, Goes, QueueKnows
    <3>2. CASE ReadInto(j) /\ IsDecoded(frames'[i])
      BY <2>1, <3>2 DEF ReadInto, Goes, QueueKnows
    <3>3. CASE GoesIdle
      BY <3>3, <1>4 DEF GoesIdle, Goes
    <3>4. CASE Goes("check", 0, 0) /\ IsDecoded(frames'[i])
      BY <2>1, <3>4 DEF Goes, QueueKnows, i
    <3>. QED  BY <2>2, <2>3, <2>4, <3>1, <3>2, <3>3, <3>4
  <2>. QED  BY <1>3, <2>1, <2>5, <2>6
<1>10. ASSUME NEW p \in Unknown .. Finished, qpc = "read", p # Unknown,
              frames' = [frames EXCEPT ![qat].position = p, ![qat].displayed = FALSE],
              UNCHANGED <<counter, mainVars>>,
              \/ qpc' \in {"load"} \/ UNCHANGED <<qpc, qc, qat>>
              \/ Goes("check", 0, 0)
       PROVE  Handover'
  <2>1. /\ Working(qc) = i /\ After(Working(qc)) = j
        /\ qat = i \/ (qat = j /\ IsDecoded(frames[i]))
        /\ qc = counter \/ (Odd(qc) /\ counter = AfterShown(qc))
    BY <1>1, <1>2, <1>10 DEF QueueKnows, i, j
  <2>2. /\ frames' \in Frames /\ frames'[qat].position = p /\ ~frames'[qat].displayed
        /\ \A k \in Indices \ {qat} : frames'[k] = frames[k]
    BY <1>1, <1>10, <2>1 DEF Frames, Frame
  <2>3. IsDecoded(frames'[i])
    BY <1>1, <1>10, <2>1, <2>2 DEF IsDecoded
  <2>4. QueueKnows'
    <3>1. CASE qpc' = "load"  BY <1>4, <3>1
    <3>2. CASE UNCHANGED <<qpc, qc, qat>>
      BY <1>10, <2>1, <2>3, <3>2 DEF QueueKnows
    <3>3. CASE Goes("check", 0, 0)
      BY <1>10, <2>3, <3>3 DEF QueueKnows, Goes, i
    <3>. QED  BY <1>10, <3>1, <3>2, <3>3
  <2>. QED  BY <1>3, <1>10, <2>1, <2>2, <2>4
<1>11. CASE ReadFrame
  <2>1. PICK p \in left : frames' = [frames EXCEPT ![qat].position = p, ![qat].displayed = FALSE]
    BY <1>11 DEF ReadFrame
  <2>2. p \in Unknown .. Finished /\ p # Unknown
    BY RingAssumption DEF TypeOK, Unknown, Finished
  <2>3. /\ qpc = "read" /\ UNCHANGED <<counter, mainVars>>
        /\ qpc' \in {"load"} \/ UNCHANGED <<qpc, qc, qat>>
    BY <1>11 DEF ReadFrame, Goes
  <2>. QED  BY <1>10, <2>1, <2>2, <2>3
<1>12. CASE ReadWaits
  BY <1>3, <1>4, <1>12 DEF ReadWaits, GoesIdle, Goes
<1>13. CASE ReadFinished
  <2>1. Finished \in Unknown .. Finished /\ Finished # Unknown
    BY RingAssumption DEF Unknown, Finished
  <2>. QED  BY <1>10, <1>13, <2>1 DEF ReadFinished
<1>14. CASE Check
  <2>1. QueueKnows'
    BY <1>1, <1>14 DEF Check, GoesIdle, Goes, QueueKnows
  <2>. QED  BY <1>3, <1>14, <2>1 DEF Check
<1>15. CASE Present
  <2>1. PICK format \in Formats :
          frames' = [frames EXCEPT ![Working(qc)].format = format,
                                   ![Working(qc)].image = (format = "ARGB32")]
    BY <1>15 DEF Present
  <2>2. /\ format \in {"None", "ARGB32", "YUV"} /\ format # "None"
        /\ format = "ARGB32" \/ format = "YUV"
    BY RingAssumption
  <2>3. /\ qpc = "present" /\ ~Odd(qc) /\ qc = counter /\ Working(qc) = i
        /\ counter' = counter + 1 /\ qpc' = "idle" /\ UNCHANGED mainVars
    BY <1>2, <1>15 DEF Present, GoesIdle, Goes
  <2>. DEFINE image == (format = "ARGB32")
  <2>7. image \in BOOLEAN /\ frames' = [frames EXCEPT ![i].format = format, ![i].image = image]
    BY <2>1, <2>3
  <2>. HIDE DEF image
  <2>4. /\ frames'[i].format = format /\ frames'[i].image = image
        /\ frames'[i].position = frames[i].position
        /\ frames'[i].displayed = frames[i].displayed
        /\ \A k \in Indices \ {i} : frames'[k] = frames[k]
    BY <1>1, <2>2, <2>7 DEF Frames, Frame
  <2>5. frames[i].position # Unknown /\ ~frames[i].displayed
    BY <1>1, <2>3 DEF QueueKnows, IsDecoded
  <2>6. MainSide'
    BY <1>1, <2>2, <2>3, <2>4, <2>5, MainGiven DEF i, image
  <2>. QED  BY <1>4, <2>3, <2>6 DEF MainSide, Handover
<1>16. CASE PresentFinished
  BY <1>3, <1>4, <1>16 DEF PresentFinished, Interrupt, Goes
<1>17. CASE PresentLater
  BY <1>3, <1>4, <1>17 DEF PresentLater, GoesIdle, Goes
<1>18. ASSUME NEW why \in Failures, PresentFails(why)
       PROVE  Handover'
  <2>. DEFINE kept == frames[i].image /\ why = "transfer"
  <2>1. /\ qpc = "present" /\ ~Odd(qc) /\ qc = counter /\ Working(qc) = i
        /\ UNCHANGED mainVars /\ kept \in BOOLEAN
    BY <1>2, <1>18 DEF PresentFails
  <2>2. frames' = [frames EXCEPT ![i].format = "None", ![i].image = kept]
    BY <1>1, <1>18, <2>1 DEF PresentFails, Frames, Frame
  <2>. HIDE DEF kept
  <2>3. /\ frames'[i].format = "None" /\ frames'[i].image = kept
        /\ frames'[i].position = frames[i].position
        /\ frames'[i].displayed = frames[i].displayed
        /\ \A k \in Indices \ {i} : frames'[k] = frames[k]
    BY <1>1, <2>1, <2>2 DEF Frames, Frame
  <2>. USE DEF kept
  <2>4. /\ qpc' = "interrupted"
        /\ \/ counter' = counter
           \/ counter' = counter + 1 /\ IsRasterized(frames'[i])
    BY <1>18, <2>1 DEF PresentFails, Interrupt, Goes
  <2>5. CASE counter' = counter
    BY <1>3, <1>4, <2>1, <2>3, <2>4, <2>5
  <2>6. CASE counter' = counter + 1 /\ IsRasterized(frames'[i])
    <3>1. /\ frames'[i].position # Unknown /\ ~frames'[i].displayed
          /\ frames'[i].image \/ frames'[i].format = "YUV"
      BY <2>6 DEF IsRasterized, IsDecoded
    <3>2. why = "transfer"  BY <2>3, <3>1
    <3>3. MainSide'
      BY <1>1, <2>1, <2>3, <2>6, <3>1, <3>2, MainGiven DEF i
    <3>. QED  BY <1>4, <2>4, <3>3 DEF MainSide, Handover
  <2>. QED  BY <2>4, <2>5, <2>6
<1>. QED
  BY <1>5, <1>6, <1>7, <1>8, <1>9, <1>11, <1>12, <1>13, <1>14, <1>15, <1>16, <1>17, <1>18
     DEF Queue

LEMMA HandoverInit == Init => Handover
<1>. SUFFICES ASSUME Init PROVE Handover
  OBVIOUS
<1>1. /\ counter = 0 /\ qpc = "idle" /\ mpc = "idle" /\ next = "unknown" /\ ~rtimer
      /\ frames[0] = [position |-> 1, displayed |-> TRUE, image |-> TRUE, format |-> "ARGB32"]
  BY DEF Init, Indices, kFramesCount
<1>2. Painted(0) = 0 /\ ~Odd(0)  BY DEF Painted, Odd
<1>. QED
  BY <1>1, <1>2 DEF Handover, QueueKnows, MainKnows, GivenIsReady, PaintedWasShown,
     FormatIsKnown, Unknown

(* Most steps of the main thread leave the frames and the counter alone.   *)
LEMMA MainLooks ==
  ASSUME TypeOK, Handover, UNCHANGED <<counter, frames, qpc, qc, qat>>,
         MainKnows', GivenIsReady'
  PROVE  Handover'
<1>1. QueueKnows'  BY QueueKept DEF Handover
<1>2. PaintedWasShown' /\ FormatIsKnown'
  BY DEF Handover, PaintedWasShown, FormatIsKnown
<1>. QED  BY <1>1, <1>2 DEF Handover

LEMMA HandoverMain ==
  ASSUME TypeOK, Handover, MainSteps \/ Outside
  PROVE  Handover'
<1>. USE DEF Looks, Rests
<1>1. QueueKnows /\ MainKnows /\ GivenIsReady /\ PaintedWasShown /\ FormatIsKnown
  BY DEF Handover
<1>2. counter \in Counters /\ (Odd(counter) \/ ~Odd(counter))
  BY DEF TypeOK
(* It is said to render what has been timed, or a frame is to be asked for.*)
<1>3. ASSUME CheckVideoStep, mpc = "idle", UNCHANGED <<counter, frames, next, qpc, qc, qat>>
      PROVE  Handover'
  <2>1. \/ next = "done" /\ UNCHANGED <<mpc, mc, rtimer>>
        \/ next = "timed" /\ mpc' = "mark" /\ mc' = counter /\ rtimer' = FALSE
        \/ next = "timed" /\ mpc' = "idle" /\ mc' = 0 /\ rtimer' = TRUE
        \/ next = "unknown" /\ mpc' = "available" /\ mc' = counter /\ UNCHANGED rtimer
    BY <1>3 DEF CheckVideoStep, RenderOrWait
  <2>2. MainKnows'  BY <1>1, <1>3, <2>1 DEF MainKnows
  <2>3. GivenIsReady'  BY <1>1, <1>3, <2>1 DEF GivenIsReady
  <2>. QED  BY <1>3, <2>2, <2>3, MainLooks
(* Another step at which nothing is known of a frame.                      *)
<1>4. ASSUME mpc = "idle", UNCHANGED <<counter, frames, qpc, qc, qat, next>>,
             mpc' \in {"idle", "paint", "stopped"} /\ UNCHANGED rtimer,
             mpc' # "idle" => mc' = counter
      PROVE  Handover'
  <2>1. MainKnows'  BY <1>1, <1>4 DEF MainKnows
  <2>2. GivenIsReady'  BY <1>1, <1>4 DEF GivenIsReady
  <2>. QED  BY <1>4, <2>1, <2>2, MainLooks
<1>5. CASE CheckNextFrame
  BY <1>3, <1>5 DEF CheckNextFrame, queueVars
<1>6. CASE UpdateRequest
  BY <1>3, <1>6 DEF UpdateRequest, queueVars
<1>7. CASE Availability
  <2>1. /\ mpc = "available" /\ UNCHANGED <<counter, frames, qpc, qc, qat>>
        /\ \/ Odd(mc) /\ next' = "timed" /\ mpc' = "mark" /\ mc' = counter /\ rtimer' = FALSE
           \/ Odd(mc) /\ next' = "timed" /\ mpc' = "idle" /\ mc' = 0 /\ rtimer' = TRUE
           \/ ~Odd(mc) /\ mpc' = "idle" /\ mc' = 0 /\ UNCHANGED <<next, rtimer>>
    BY <1>7 DEF Availability, RenderOrWait, queueVars
  <2>2. Odd(mc) => mc = counter  BY <1>1, <2>1 DEF MainKnows
  <2>3. next = "unknown" /\ ~rtimer  BY <1>1, <2>1 DEF MainKnows
  <2>4. MainKnows'  BY <2>1, <2>2, <2>3 DEF MainKnows
  <2>5. GivenIsReady'  BY <1>1, <2>1, <2>2, <2>3 DEF GivenIsReady
  <2>. QED  BY <2>1, <2>4, <2>5, MainLooks
<1>8. CASE RenderTimer
  <2>1. /\ mpc = "idle" /\ rtimer /\ UNCHANGED <<counter, frames, qpc, qc, qat, next>>
        /\ rtimer' = FALSE /\ mpc' = "mark" /\ mc' = counter
    BY <1>8 DEF RenderTimer, queueVars
  <2>2. MainKnows'  BY <1>1, <2>1 DEF MainKnows
  <2>3. GivenIsReady'  BY <1>1, <2>1 DEF GivenIsReady
  <2>. QED  BY <2>1, <2>2, <2>3, MainLooks
<1>9. CASE MarkDisplayed
  <2>1. /\ mpc = "mark" /\ UNCHANGED <<counter, qpc, qc, qat, rtimer>>
        /\ \/ next' = "done" /\ mpc' = "idle" /\ mc' = 0
           \/ next' = "unknown" /\ mpc' = "show" /\ mc' = counter
    BY <1>9 DEF MarkDisplayed, queueVars
  <2>2. mc = counter /\ Odd(counter) /\ ~rtimer
    BY <1>1, <2>1 DEF MainKnows
  <2>. DEFINE i == Given(counter)
  <2>3. /\ i \in Indices /\ i # Working(counter) /\ i # After(Working(counter))
        /\ Working(counter) \in Indices /\ After(Working(counter)) \in Indices
        /\ Painted(counter) \in Indices /\ frames \in Frames
    BY <1>2, <2>2, Apart DEF TypeOK, Frames
  <2>. HIDE DEF i
  <2>4. frames' = [frames EXCEPT ![i].displayed = TRUE]
    BY <1>9, <2>2 DEF MarkDisplayed, i
  <2>5. /\ frames'[i].displayed /\ frames'[i].position = frames[i].position
        /\ frames'[i].image = frames[i].image /\ frames'[i].format = frames[i].format
        /\ \A k \in Indices \ {i} : frames'[k] = frames[k]
    BY <2>3, <2>4 DEF Frames, Frame
  <2>6. QueueKnows'
    BY <1>1, <2>1, <2>3, <2>5, QueueKept
  <2>7. MainKnows'
    BY <2>1, <2>2 DEF MainKnows
  <2>8. GivenIsReady'
    BY <1>1, <2>1, <2>2, <2>5 DEF GivenIsReady, i
  <2>9. PaintedWasShown'
    BY <1>1, <2>1, <2>3, <2>5 DEF PaintedWasShown
  <2>10. FormatIsKnown'
    BY <1>1, <2>1, <2>3, <2>5 DEF FormatIsKnown, i
  <2>. QED  BY <2>6, <2>7, <2>8, <2>9, <2>10 DEF Handover
<1>10. CASE MarkShown
  <2>1. /\ mpc = "idle" /\ UNCHANGED <<counter, frames, qpc, qc, qat, rtimer>> /\ mc' = counter
        /\ \/ next = "done" /\ next' = "unknown" /\ mpc' = "delay"
           \/ next # "done" /\ next' = next /\ mpc' = "show"
    BY <1>10 DEF MarkShown, queueVars
  <2>2. MainKnows'  BY <1>1, <2>1 DEF MainKnows
  <2>3. GivenIsReady'  BY <1>1, <2>1 DEF GivenIsReady, MainKnows
  <2>. QED  BY <2>1, <2>2, <2>3, MainLooks
<1>11. CASE AddTimelineDelay
  <2>1. /\ mpc = "delay" /\ UNCHANGED <<counter, frames, qpc, qc, qat, next, rtimer>>
        /\ mpc' = "show" /\ mc' = counter
    BY <1>11 DEF AddTimelineDelay, queueVars
  <2>2. mc = counter  BY <1>1, <2>1 DEF MainKnows
  <2>3. MainKnows'  BY <1>1, <2>1, <2>2 DEF MainKnows
  <2>4. GivenIsReady'  BY <1>1, <2>1, <2>2 DEF GivenIsReady
  <2>. QED  BY <2>1, <2>3, <2>4, MainLooks
<1>12. CASE Show
  <2>1. /\ mpc = "show" /\ UNCHANGED <<frames, qpc, qc, qat, next, rtimer>>
        /\ \/ /\ Odd(mc) /\ frames[Given(mc)].displayed
              /\ counter' = AfterShown(mc) /\ mpc' = "post" /\ mc' = 0
           \/ /\ ~(Odd(mc) /\ frames[Given(mc)].displayed)
              /\ counter' = counter /\ mpc' = "idle" /\ mc' = 0
    BY <1>12 DEF Show, queueVars
  <2>2. Odd(mc) => mc = counter  BY <1>1, <2>1 DEF MainKnows
  <2>3. CASE Odd(mc) /\ frames[Given(mc)].displayed
    <3>1. /\ Odd(counter) /\ frames[Given(counter)].displayed
          /\ counter' = AfterShown(counter) /\ mpc' = "post"
      BY <2>1, <2>2, <2>3
    <3>2. ~Odd(counter') /\ Painted(counter') = Given(counter)
      BY <1>2, <3>1, Handed
    <3>3. next = "unknown" /\ ~rtimer
      BY <1>1, <2>1, <3>1 DEF GivenIsReady, MainKnows, TypeOK
    <3>4. QueueKnows'  BY <1>1, <2>1, <3>1, QueueKept
    <3>5. MainKnows'  BY <2>1, <3>1, <3>3 DEF MainKnows
    <3>6. GivenIsReady'  BY <3>2 DEF GivenIsReady
    <3>7. PaintedWasShown' /\ FormatIsKnown'
      BY <1>1, <2>1, <3>1, <3>2 DEF PaintedWasShown, FormatIsKnown, GivenIsReady
    <3>. QED  BY <3>4, <3>5, <3>6, <3>7 DEF Handover
  <2>4. CASE ~(Odd(mc) /\ frames[Given(mc)].displayed)
    <3>1. counter' = counter /\ mpc' = "idle"
      BY <2>1, <2>4
    <3>2. MainKnows'  BY <1>1, <2>1, <3>1 DEF MainKnows
    <3>3. GivenIsReady'  BY <1>1, <2>1, <2>2, <2>4, <3>1 DEF GivenIsReady
    <3>. QED  BY <2>1, <3>1, <3>2, <3>3, MainLooks
  <2>. QED  BY <2>3, <2>4
<1>13. CASE PostShown
  <2>1. /\ mpc = "post" /\ mpc' = "idle" /\ UNCHANGED <<counter, frames, qpc, qc, qat, next, rtimer>>
    BY <1>13 DEF PostShown, queueVars
  <2>2. MainKnows'  BY <1>1, <2>1 DEF MainKnows
  <2>3. GivenIsReady'  BY <1>1, <2>1 DEF GivenIsReady
  <2>. QED  BY <2>1, <2>2, <2>3, MainLooks
<1>14. CASE Paint
  BY <1>4, <1>14 DEF Paint, queueVars
<1>15. CASE PaintEnds
  <2>1. /\ mpc = "paint" /\ mpc' = "idle" /\ UNCHANGED <<counter, qpc, qc, qat, next, rtimer>>
    BY <1>15 DEF PaintEnds, queueVars
  <2>. DEFINE i == Painted(counter)
  <2>2. Painted(mc) = i
    BY <1>1, <1>2, <2>1, Handed DEF MainKnows, TypeOK
  <2>3. /\ i \in Indices /\ i # Working(counter) /\ i # After(Working(counter))
        /\ Working(counter) \in Indices /\ After(Working(counter)) \in Indices
        /\ Given(counter) \in Indices /\ frames \in Frames
    BY <1>2, Apart DEF TypeOK, Frames
  <2>. HIDE DEF i
  <2>4. frames' = [frames EXCEPT ![i].image = TRUE]
    BY <1>15, <2>2 DEF PaintEnds
  <2>5. /\ frames'[i].image /\ frames'[i].position = frames[i].position
        /\ frames'[i].displayed = frames[i].displayed /\ frames'[i].format = frames[i].format
        /\ \A k \in Indices \ {i} : frames'[k] = frames[k]
    BY <2>3, <2>4 DEF Frames, Frame
  <2>6. QueueKnows'
    BY <1>1, <2>1, <2>3, <2>5, QueueKept
  <2>7. MainKnows'
    BY <1>1, <2>1 DEF MainKnows
  <2>8. /\ frames'[Given(counter)].position = frames[Given(counter)].position
        /\ frames'[Given(counter)].displayed = frames[Given(counter)].displayed
        /\ frames'[Given(counter)].format = frames[Given(counter)].format
        /\ frames[Given(counter)].image => frames'[Given(counter)].image
    BY <2>3, <2>5
  <2>9. GivenIsReady'
    BY <1>1, <2>1, <2>8 DEF GivenIsReady
  <2>10. PaintedWasShown' /\ FormatIsKnown'
    BY <1>1, <2>1, <2>5, <2>8 DEF PaintedWasShown, FormatIsKnown, i
  <2>. QED  BY <2>6, <2>7, <2>9, <2>10 DEF Handover
<1>16. CASE VideoFinished
  BY <1>4, <1>16 DEF VideoFinished, queueVars
<1>17. CASE StreamFailed
  <2>1. /\ mpc = "idle" /\ UNCHANGED <<counter, frames, qpc, qc, qat>>
        /\ mpc' = "stopped" /\ next' = "unknown" /\ rtimer' = FALSE
    BY <1>17 DEF StreamFailed, queueVars
  <2>2. MainKnows'  BY <2>1 DEF MainKnows
  <2>3. GivenIsReady'  BY <1>1, <2>1 DEF GivenIsReady
  <2>. QED  BY <2>1, <2>2, <2>3, MainLooks
<1>18. CASE Pause
  BY <1>4, <1>18 DEF Pause, queueVars
<1>19. CASE Resume
  BY <1>4, <1>19 DEF Resume, queueVars
<1>20. CASE Process
  <2>1. UNCHANGED <<counter, frames, qpc, qc, qat, mpc, mc, next, rtimer>>
    BY <1>20 DEF Process, mainVars
  <2>2. MainKnows'  BY <1>1, <2>1 DEF MainKnows
  <2>3. GivenIsReady'  BY <1>1, <2>1 DEF GivenIsReady
  <2>. QED  BY <2>1, <2>2, <2>3, MainLooks
<1>. QED
  BY <1>5, <1>6, <1>7, <1>8, <1>9, <1>10, <1>11, <1>12, <1>13, <1>14, <1>15, <1>16, <1>17,
     <1>18, <1>19, <1>20
     DEF MainSteps, Outside

LEMMA HandoverStutter ==
  ASSUME Handover, UNCHANGED vars
  PROVE  Handover'
  BY DEF Handover, QueueKnows, MainKnows, GivenIsReady, PaintedWasShown, FormatIsKnown,
     vars, queueVars, mainVars, IsDecoded

-----------------------------------------------------------------------------
(* The types of FrameRing: whatever the two threads do, the counter stays  *)
(* in its cycle and each frame in the ring.                                *)
THEOREM TypeCorrect == Spec => []TypeOK
<1>1. TypeOK /\ [Next]_vars => TypeOK'
  BY TypeQueue, TypeMain, TypeStutter DEF Next
<1>. QED  BY <1>1, TypeInit, PTL DEF Spec

(* What each thread saw of the counter stays true of the frames it uses.   *)
THEOREM HandoverHolds == Spec => []Handover
<1>1. TypeOK /\ Handover /\ [Next]_vars => Handover'
  BY HandoverQueue, HandoverMain, HandoverStutter DEF Next
<1>. QED  BY <1>1, HandoverInit, TypeCorrect, PTL DEF Spec

LEMMA MainWorksOn ==
  ASSUME TypeOK, MainKnows, mpc \in {"available", "mark", "delay", "show", "paint"}
  PROVE  /\ Painted(mc) = Painted(counter)
         /\ Odd(mc) => mc = counter
  BY Handed DEF TypeOK, MainKnows

LEMMA HandoverKeepsApart == TypeOK /\ Handover => NoSharedFrame
<1>. SUFFICES ASSUME TypeOK, Handover PROVE NoSharedFrame
  OBVIOUS
<1>1. QueueTouches \subseteq {Working(counter), After(Working(counter))}
  BY QueueWorksOn DEF Handover, QueueKnows, QueueTouches
<1>2. \/ MainTouches \subseteq {Painted(counter)}
      \/ Odd(counter) /\ MainTouches \subseteq {Given(counter)}
  BY MainWorksOn DEF Handover, MainKnows, MainTouches
<1>3. QueueTouches \cap MainTouches = {}
  BY <1>1, <1>2, Apart DEF TypeOK
<1>4. ~(QueueTakesDelay /\ MainAddsDelay)
  BY QueueWorksOn, MainWorksOn DEF Handover, MainKnows, QueueTakesDelay, MainAddsDelay
<1>. QED  BY <1>3, <1>4 DEF NoSharedFrame

(* The two threads never use the same frame, and never both the delay,     *)
(* though nothing but the counter guards them.                             *)
THEOREM FramesAreApart == Spec => []NoSharedFrame
  BY TypeCorrect, HandoverHolds, HandoverKeepsApart, PTL

LEMMA HandoverExpects == TypeOK /\ Handover => NeverUnexpected
<1>. SUFFICES ASSUME TypeOK, Handover PROVE NeverUnexpected
  OBVIOUS
<1>1. qpc = "present" => IsDecoded(frames[Working(qc)])
  BY DEF Handover, QueueKnows
<1>2. mpc = "available" /\ Odd(mc) => IsRasterized(frames[Given(mc)])
  BY MainWorksOn DEF Handover, MainKnows, GivenIsReady, IsRasterized, IsDecoded
<1>3. mpc = "paint" => frames[Painted(mc)].displayed /\ frames[Painted(mc)].position # Unknown
  BY MainWorksOn DEF Handover, PaintedWasShown
<1>. QED  BY <1>1, <1>2, <1>3 DEF NeverUnexpected, Handover, MainKnows

(* No assertion of Shared or Player about the frame it finds fails.        *)
THEOREM AssertionsHold == Spec => []NeverUnexpected
  BY TypeCorrect, HandoverHolds, HandoverExpects, PTL

LEMMA HandoverHasFormat ==
  "transfer" \notin Failures /\ TypeOK /\ Handover => PaintedHasFormat
  BY MainWorksOn DEF Handover, FormatIsKnown, PaintedHasFormat

(* While the pixels of every frame can be had, what is painted has a       *)
(* format: the one failure left, that of a conversion, is caught.          *)
THEOREM FormatsAreKnown == "transfer" \notin Failures => (Spec => []PaintedHasFormat)
<1>. SUFFICES ASSUME "transfer" \notin Failures PROVE Spec => []PaintedHasFormat
  OBVIOUS
<1>1. TypeOK /\ Handover => PaintedHasFormat
  BY HandoverHasFormat
<1>. QED  BY <1>1, TypeCorrect, HandoverHolds, PTL

-----------------------------------------------------------------------------
(* No wakeup is lost: the queue.                                           *)

Has(s, m) == \E k \in DOMAIN s : s[k] = m

(* Every pause in the mailbox has a resume after it.                       *)
Resumed(s) ==
  \A k \in DOMAIN s : s[k] = "pause" => \E j \in DOMAIN s : j > k /\ s[j] = "resume"

(* What _queued says of the mailbox.                                       *)
QueuedIsPosted == queued => Has(mailbox, "read")

(* If the main thread moved the counter behind the queue's back it tells.  *)
ShownIsPosted ==
  qpc \in {"prepare", "read", "present"} /\ Odd(qc) /\ counter # qc =>
    mpc = "post" \/ Has(mailbox, "shown")

(* A player that is not paused has a queue that plays, or will.            *)
ResumeIsPosted ==
  ~paused => Resumed(mailbox) /\ (playing \/ Has(mailbox, "resume"))

(* An idle queue has nothing to do yet, or something will make it look.    *)
IdleIsWoken ==
  qpc = "idle" =>
    \/ Odd(counter) \/ mpc = "post"
    \/ Has(mailbox, "read") \/ Has(mailbox, "shown")
    \/ qtimer \/ packets = 0 \/ ~playing

QueueIsWoken == QueuedIsPosted /\ ShownIsPosted /\ ResumeIsPosted /\ IdleIsWoken

(* A queue with nothing in its mailbox and no timer waits for the frame it *)
(* gave to be shown, for the main thread to say so, for packets, or for    *)
(* the player to go on.                                                    *)
NoWakeupLost ==
  qpc = "idle" /\ mailbox = <<>> /\ ~qtimer =>
    Odd(counter) \/ mpc = "post" \/ packets = 0 \/ paused

LEMMA HasAppended ==
  ASSUME NEW S, NEW s \in Seq(S), NEW x \in S
  PROVE  /\ Has(Append(s, x), x)
         /\ \A m : Has(s, m) => Has(Append(s, x), m)
         /\ x # "pause" /\ Resumed(s) => Resumed(Append(s, x))
         /\ x = "resume" => Resumed(Append(s, x))
<1>. DEFINE t == Append(s, x)
<1>1. /\ Len(s) \in Nat /\ DOMAIN s = 1 .. Len(s) /\ DOMAIN t = 1 .. Len(s) + 1
      /\ t[Len(s) + 1] = x /\ \A k \in 1 .. Len(s) : t[k] = s[k]
  BY AppendProperties
<1>. HIDE DEF t
<1>2. Len(s) + 1 \in DOMAIN t /\ \A k \in DOMAIN s : k \in DOMAIN t /\ t[k] = s[k]
  BY <1>1
<1>3. \A k \in DOMAIN t : k \in DOMAIN s \/ k = Len(s) + 1
  BY <1>1
<1>4. Has(t, x) /\ \A m : Has(s, m) => Has(t, m)
  BY <1>1, <1>2 DEF Has
<1>5. ASSUME x # "pause", Resumed(s)  PROVE Resumed(t)
  BY <1>1, <1>2, <1>3, <1>5 DEF Resumed
<1>6. ASSUME x = "resume"  PROVE Resumed(t)
  <2>1. \A k \in DOMAIN s : Len(s) + 1 > k
    BY <1>1
  <2>2. t[Len(s) + 1] # "pause"
    BY <1>1, <1>6
  <2>. QED  BY <1>1, <1>2, <1>3, <1>6, <2>1, <2>2 DEF Resumed
<1>. QED  BY <1>4, <1>5, <1>6 DEF t

LEMMA HasConcatenated ==
  ASSUME NEW S, NEW s \in Seq(S), NEW t \in Seq(S)
  PROVE  \A m : Has(s, m) \/ Has(t, m) => Has(s \o t, m)
<1>1. /\ Len(s) \in Nat /\ Len(t) \in Nat
      /\ DOMAIN s = 1 .. Len(s) /\ DOMAIN t = 1 .. Len(t)
      /\ Len(s \o t) = Len(s) + Len(t) /\ DOMAIN (s \o t) = 1 .. Len(s) + Len(t)
      /\ \A k \in 1 .. Len(s) + Len(t) :
           (s \o t)[k] = IF k <= Len(s) THEN s[k] ELSE t[k - Len(s)]
  BY ConcatProperties
<1>2. \A k \in DOMAIN s : k \in DOMAIN (s \o t) /\ (s \o t)[k] = s[k]
  BY <1>1
<1>3. ASSUME NEW k \in DOMAIN t
      PROVE  k + Len(s) \in DOMAIN (s \o t) /\ (s \o t)[k + Len(s)] = t[k]
  <2>1. k \in Nat /\ k >= 1 /\ k + Len(s) - Len(s) = k
    BY <1>1, <1>3
  <2>2. k + Len(s) \in 1 .. Len(s) + Len(t) /\ ~(k + Len(s) <= Len(s))
    BY <1>1, <1>3, <2>1
  <2>. QED  BY <1>1, <2>1, <2>2
<1>. QED  BY <1>2, <1>3 DEF Has

LEMMA HasInTail ==
  ASSUME NEW S, NEW s \in Seq(S), s # <<>>
  PROVE  /\ \A m : Has(s, m) /\ m # Head(s) => Has(Tail(s), m)
         /\ Resumed(s) => Resumed(Tail(s))
         /\ Resumed(s) /\ Head(s) = "pause" => Has(Tail(s), "resume")
<1>. DEFINE t == Tail(s)
<1>1. /\ Len(s) \in Nat /\ Len(s) > 0 /\ DOMAIN s = 1 .. Len(s)
      /\ DOMAIN t = 1 .. Len(s) - 1 /\ Head(s) = s[1]
      /\ \A k \in 1 .. Len(s) - 1 : t[k] = s[k + 1]
  BY HeadTailProperties, EmptySeq, LenProperties
<1>. HIDE DEF t
<1>2. \A k \in DOMAIN s : k # 1 => k - 1 \in DOMAIN t /\ t[k - 1] = s[k]
  BY <1>1
<1>3. \A k \in DOMAIN t : k + 1 \in DOMAIN s /\ t[k] = s[k + 1]
  BY <1>1
<1>4. \A m : Has(s, m) /\ m # Head(s) => Has(t, m)
  BY <1>1, <1>2 DEF Has
<1>5. ASSUME Resumed(s), NEW k \in DOMAIN t, t[k] = "pause"
      PROVE  \E j \in DOMAIN t : j > k /\ t[j] = "resume"
  <2>1. PICK j \in DOMAIN s : j > k + 1 /\ s[j] = "resume"
    BY <1>3, <1>5 DEF Resumed
  <2>2. j # 1 /\ j - 1 > k
    BY <1>1, <2>1
  <2>. QED  BY <1>2, <2>1, <2>2
<1>6. ASSUME Resumed(s), Head(s) = "pause"  PROVE Has(t, "resume")
  <2>1. 1 \in DOMAIN s /\ s[1] = "pause"
    BY <1>1, <1>6
  <2>2. PICK j \in DOMAIN s : j > 1 /\ s[j] = "resume"
    BY <1>6, <2>1 DEF Resumed
  <2>. QED  BY <1>2, <2>2 DEF Has
<1>7. Resumed(s) => Resumed(t)
  BY <1>5 DEF Resumed
<1>. QED  BY <1>4, <1>6, <1>7 DEF t

(* readFrames() is in the mailbox once it is asked for.                    *)
LEMMA ReadIsPosted ==
  ASSUME NEW m \in Seq(Messages), QueueReadFrames(m), queued => Has(m, "read")
  PROVE  /\ Has(mailbox', "read")
         /\ \A x : Has(m, x) => Has(mailbox', x)
         /\ Resumed(m) => Resumed(mailbox')
<1>1. "read" \in Messages
  BY DEF Messages
<1>2. CASE queued
  BY <1>2 DEF QueueReadFrames
<1>3. CASE ~queued
  BY <1>1, <1>3, HasAppended DEF QueueReadFrames
<1>. QED  BY <1>2, <1>3

LEMMA QueueWoken ==
  ASSUME TypeOK, Handover, QueueIsWoken, Queue
  PROVE  QueueIsWoken'
<1>1. /\ mailbox \in Seq(Messages)
      /\ QueuedIsPosted /\ ShownIsPosted /\ ResumeIsPosted /\ IdleIsWoken
  BY DEF TypeOK, Messages, QueueIsWoken
<1>2. UNCHANGED <<mpc, paused>>
  BY DEF Queue, ReceiveRead, ReceiveOther, ReadTimer, Load, Prepare, ReadFrame, ReadWaits,
         ReadFinished, Check, Present, PresentFinished, PresentLater, PresentFails, mainVars
(* Steps that leave the mailbox alone.                                     *)
<1>3. ASSUME UNCHANGED <<mailbox, queued, playing>>
      PROVE  QueuedIsPosted' /\ ResumeIsPosted'
  BY <1>1, <1>2, <1>3 DEF QueuedIsPosted, ResumeIsPosted
(* Steps that have the frames read, and nothing else changed in it.        *)
<1>4. ASSUME QueueReadFrames(mailbox), UNCHANGED playing
      PROVE  /\ QueuedIsPosted' /\ ResumeIsPosted' /\ IdleIsWoken'
             /\ Has(mailbox, "shown") => Has(mailbox', "shown")
  <2>1. /\ Has(mailbox', "read") /\ \A x : Has(mailbox, x) => Has(mailbox', x)
        /\ Resumed(mailbox) => Resumed(mailbox')
    BY <1>1, <1>4, ReadIsPosted DEF QueuedIsPosted
  <2>. QED  BY <1>1, <1>2, <1>4, <2>1 DEF QueuedIsPosted, ResumeIsPosted, IdleIsWoken
<1>5. ASSUME qpc' \notin {"prepare", "read", "present"}  PROVE ShownIsPosted'
  BY <1>5 DEF ShownIsPosted
<1>6. ASSUME qpc' # "idle"  PROVE IdleIsWoken'
  BY <1>6 DEF IdleIsWoken
(* A queue that saw the main thread hold a frame is told when that goes.   *)
<1>7. ASSUME qpc \in {"prepare", "read", "present"}, UNCHANGED <<counter, mailbox>>, Odd(qc)
      PROVE  IdleIsWoken'
  BY <1>1, <1>2, <1>7 DEF ShownIsPosted, IdleIsWoken
<1>8. ASSUME qpc \in {"prepare", "read", "present"}, UNCHANGED <<counter, mailbox, qc>>
      PROVE  ShownIsPosted'
  BY <1>1, <1>2, <1>8 DEF ShownIsPosted
<1>9. CASE ReceiveRead
  <2>1. /\ mailbox # <<>> /\ Head(mailbox) = "read" /\ mailbox' = Tail(mailbox)
        /\ queued' = FALSE /\ qpc' = "load" /\ playing' = playing
    BY <1>9 DEF ReceiveRead, Receive, Goes
  <2>2. /\ \A m : Has(mailbox, m) /\ m # "read" => Has(mailbox', m)
        /\ Resumed(mailbox) => Resumed(mailbox')
    BY <1>1, <2>1, HasInTail
  <2>3. QueuedIsPosted' /\ ResumeIsPosted'
    BY <1>1, <1>2, <2>1, <2>2 DEF QueuedIsPosted, ResumeIsPosted
  <2>. QED  BY <1>5, <1>6, <2>1, <2>3 DEF QueueIsWoken
<1>10. CASE ReceiveOther
  <2>. DEFINE m == Tail(mailbox)
  <2>1. /\ mailbox # <<>> /\ qpc = "idle" /\ qpc' = "idle"
        /\ UNCHANGED <<counter, qtimer, packets>>
        /\ \/ Head(mailbox) = "shown" /\ QueueReadFrames(m) /\ UNCHANGED playing
           \/ Head(mailbox) = "resume" /\ QueueReadFrames(m) /\ playing' = TRUE
           \/ /\ Head(mailbox) = "pause" /\ playing' = FALSE
              /\ mailbox' = m /\ UNCHANGED queued
    BY <1>10 DEF ReceiveOther, Receive
  <2>2. /\ m \in Seq(Messages)
        /\ \A x : Has(mailbox, x) /\ x # Head(mailbox) => Has(m, x)
        /\ Resumed(mailbox) => Resumed(m)
        /\ Resumed(mailbox) /\ Head(mailbox) = "pause" => Has(m, "resume")
    BY <1>1, <2>1, HasInTail, SeqKept
  <2>3. queued => Has(m, "read")
    BY <1>1, <2>1, <2>2 DEF QueuedIsPosted
  <2>. HIDE DEF m
  <2>4. CASE QueueReadFrames(m) /\ (playing' = TRUE \/ (playing' = playing /\ Head(mailbox) = "shown"))
    <3>1. /\ Has(mailbox', "read") /\ \A x : Has(m, x) => Has(mailbox', x)
          /\ Resumed(m) => Resumed(mailbox')
      BY <2>2, <2>3, <2>4, ReadIsPosted
    <3>2. QueuedIsPosted' /\ IdleIsWoken'
      BY <3>1 DEF QueuedIsPosted, IdleIsWoken
    <3>3. ResumeIsPosted'
      BY <1>1, <1>2, <2>2, <2>4, <3>1 DEF ResumeIsPosted
    <3>. QED  BY <1>5, <2>1, <3>2, <3>3 DEF QueueIsWoken
  <2>5. CASE Head(mailbox) = "pause" /\ playing' = FALSE /\ mailbox' = m /\ UNCHANGED queued
    <3>1. QueuedIsPosted' /\ IdleIsWoken'
      BY <2>3, <2>5 DEF QueuedIsPosted, IdleIsWoken
    <3>2. ResumeIsPosted'
      BY <1>1, <1>2, <2>2, <2>5 DEF ResumeIsPosted
    <3>. QED  BY <1>5, <2>1, <3>1, <3>2 DEF QueueIsWoken
  <2>. QED  BY <2>1, <2>4, <2>5
<1>11. CASE ReadTimer
  <2>1. qpc' = "load" /\ UNCHANGED <<mailbox, queued, playing>>
    BY <1>11 DEF ReadTimer, Goes
  <2>. QED  BY <1>3, <1>5, <1>6, <2>1 DEF QueueIsWoken
<1>12. CASE Load
  <2>1. qpc' = "prepare" /\ qc' = counter /\ UNCHANGED <<counter, mailbox, queued, playing>>
    BY <1>12 DEF Load, Goes
  <2>2. ShownIsPosted'
    BY <2>1 DEF ShownIsPosted
  <2>. QED  BY <1>3, <1>6, <2>1, <2>2 DEF QueueIsWoken
<1>13. CASE Prepare
  <2>1. qpc = "prepare" /\ UNCHANGED <<counter, mailbox, queued, playing>>
    BY <1>13 DEF Prepare
  <2>2. \/ qpc' = "read" /\ qc' = qc
        \/ qpc' = "idle" /\ (Odd(qc) \/ qtimer' = TRUE)
        \/ qpc' = "check"
    <3>1. \/ ReadInto(Working(qc)) \/ ReadInto(After(Working(qc)))
          \/ IF Odd(qc) THEN GoesIdle ELSE Goes("check", 0, 0)
          \/ qtimer' = TRUE /\ GoesIdle
      BY <1>13 DEF Prepare
    <3>. QED  BY <3>1 DEF ReadInto, GoesIdle, Goes
  <2>3. ShownIsPosted'
    BY <1>5, <1>8, <2>1, <2>2
  <2>4. IdleIsWoken'
    <3>1. CASE Odd(qc)
      BY <1>7, <2>1, <3>1
    <3>2. CASE qtimer' = TRUE
      BY <3>2 DEF IdleIsWoken
    <3>3. CASE qpc' # "idle"
      BY <1>6, <3>3
    <3>. QED  BY <2>2, <3>1, <3>2, <3>3
  <2>. QED  BY <1>3, <2>1, <2>3, <2>4 DEF QueueIsWoken
<1>14. CASE ReadFrame
  <2>1. /\ qpc = "read" /\ UNCHANGED <<counter, mailbox, queued, playing>>
        /\ qpc' = "load" \/ (qpc' = "read" /\ qc' = qc)
    BY <1>14 DEF ReadFrame, Goes
  <2>2. ShownIsPosted'
    BY <1>5, <1>8, <2>1
  <2>. QED  BY <1>3, <1>6, <2>1, <2>2 DEF QueueIsWoken
<1>15. CASE ReadWaits
  <2>1. qpc' = "idle" /\ packets' = 0 /\ UNCHANGED <<mailbox, queued, playing>>
    BY <1>15 DEF ReadWaits, GoesIdle, Goes
  <2>2. IdleIsWoken'
    BY <2>1 DEF IdleIsWoken
  <2>. QED  BY <1>3, <1>5, <2>1, <2>2 DEF QueueIsWoken
<1>16. CASE ReadFinished
  <2>1. qpc' = "check" /\ UNCHANGED <<mailbox, queued, playing>>
    BY <1>16 DEF ReadFinished, Goes
  <2>. QED  BY <1>3, <1>5, <1>6, <2>1 DEF QueueIsWoken
<1>17. CASE Check
  <2>1. /\ UNCHANGED <<counter, mailbox, queued, playing>>
        /\ \/ qpc' = "present" /\ qc' = counter
           \/ qpc' = "idle" /\ ~playing
    BY <1>17 DEF Check, GoesIdle, Goes
  <2>2. ShownIsPosted' /\ IdleIsWoken'
    BY <2>1 DEF ShownIsPosted, IdleIsWoken
  <2>. QED  BY <1>3, <2>1, <2>2 DEF QueueIsWoken
<1>18. CASE Present
  <2>1. qpc' = "idle" /\ QueueReadFrames(mailbox) /\ UNCHANGED playing
    BY <1>18 DEF Present, GoesIdle, Goes
  <2>. QED  BY <1>4, <1>5, <2>1 DEF QueueIsWoken
<1>19. CASE PresentFinished \/ \E why \in Failures : PresentFails(why)
  <2>1. qpc' = "interrupted" /\ UNCHANGED <<mailbox, queued, playing>>
    BY <1>19 DEF PresentFinished, PresentFails, Interrupt, Goes
  <2>. QED  BY <1>3, <1>5, <1>6, <2>1 DEF QueueIsWoken
<1>20. CASE PresentLater
  <2>1. /\ qpc = "present" /\ Odd(qc) /\ qpc' = "idle" /\ UNCHANGED <<counter, playing>>
        /\ UNCHANGED <<queued, mailbox>> \/ QueueReadFrames(mailbox)
    BY <1>20 DEF PresentLater, GoesIdle, Goes
  <2>2. CASE UNCHANGED <<queued, mailbox>>
    BY <1>3, <1>5, <1>7, <2>1, <2>2 DEF QueueIsWoken
  <2>3. CASE QueueReadFrames(mailbox)
    BY <1>4, <1>5, <2>1, <2>3 DEF QueueIsWoken
  <2>. QED  BY <2>1, <2>2, <2>3
<1>. QED
  BY <1>9, <1>10, <1>11, <1>12, <1>13, <1>14, <1>15, <1>16, <1>17, <1>18, <1>19, <1>20
  DEF Queue

LEMMA OthersWake ==
  ASSUME TypeOK, Handover, QueueIsWoken, MainSteps \/ Outside
  PROVE  QueueIsWoken'
<1>1. /\ mailbox \in Seq(Messages)
      /\ "shown" \in Messages /\ "pause" \in Messages /\ "resume" \in Messages
      /\ QueuedIsPosted /\ ShownIsPosted /\ ResumeIsPosted /\ IdleIsWoken
  BY DEF TypeOK, Messages, QueueIsWoken
(* Most steps neither move the counter nor tell the queue anything.        *)
<1>2. ASSUME UNCHANGED <<counter, queueVars, mailbox, paused>>, mpc # "post"
      PROVE  QueueIsWoken'
  BY <1>1, <1>2
  DEF queueVars, QueueIsWoken, QueuedIsPosted, ShownIsPosted, ResumeIsPosted, IdleIsWoken
<1>3. CASE CheckNextFrame \/ UpdateRequest \/ Availability \/ RenderTimer \/ MarkDisplayed
  BY <1>2, <1>3
  DEF CheckNextFrame, UpdateRequest, Availability, RenderTimer, MarkDisplayed
<1>4. CASE MarkShown \/ AddTimelineDelay \/ Paint \/ PaintEnds \/ VideoFinished \/ StreamFailed
  BY <1>2, <1>4 DEF MarkShown, AddTimelineDelay, Paint, PaintEnds, VideoFinished, StreamFailed
<1>5. CASE Show
  <2>1. /\ mpc = "show" /\ UNCHANGED <<queueVars, mailbox, paused>>
        /\ mpc' = "post" \/ UNCHANGED counter
    BY <1>5 DEF Show, Looks, Rests
  <2>2. CASE mpc' = "post"
    BY <1>1, <2>1, <2>2
    DEF queueVars, QueueIsWoken, QueuedIsPosted, ShownIsPosted, ResumeIsPosted, IdleIsWoken
  <2>. QED  BY <1>2, <2>1, <2>2
<1>6. CASE PostShown
  <2>1. /\ UNCHANGED <<counter, queueVars, paused>> /\ mailbox' = Append(mailbox, "shown")
    BY <1>6 DEF PostShown
  <2>2. /\ Has(mailbox', "shown") /\ \A m : Has(mailbox, m) => Has(mailbox', m)
        /\ Resumed(mailbox) => Resumed(mailbox')
    BY <1>1, <2>1, HasAppended
  <2>. QED
    BY <1>1, <2>1, <2>2
    DEF queueVars, QueueIsWoken, QueuedIsPosted, ShownIsPosted, ResumeIsPosted, IdleIsWoken
<1>7. CASE Pause
  <2>1. /\ UNCHANGED <<counter, queueVars, mpc>> /\ paused' = TRUE
        /\ mailbox' = Append(mailbox, "pause")
    BY <1>7 DEF Pause
  <2>2. \A m : Has(mailbox, m) => Has(mailbox', m)
    BY <1>1, <2>1, HasAppended
  <2>. QED
    BY <1>1, <2>1, <2>2
    DEF queueVars, QueueIsWoken, QueuedIsPosted, ShownIsPosted, ResumeIsPosted, IdleIsWoken
<1>8. CASE Resume
  <2>1. UNCHANGED <<counter, queueVars, mpc>> /\ mailbox' = Append(mailbox, "resume")
    BY <1>8 DEF Resume
  <2>2. /\ Has(mailbox', "resume") /\ \A m : Has(mailbox, m) => Has(mailbox', m)
        /\ Resumed(mailbox')
    BY <1>1, <2>1, HasAppended
  <2>. QED
    BY <1>1, <2>1, <2>2
    DEF queueVars, QueueIsWoken, QueuedIsPosted, ShownIsPosted, ResumeIsPosted, IdleIsWoken
<1>9. CASE Process
  <2>1. /\ qpc = "idle" /\ QueueReadFrames(mailbox)
        /\ UNCHANGED <<qpc, playing, paused>>
    BY <1>9 DEF Process, mainVars
  <2>2. /\ Has(mailbox', "read") /\ \A x : Has(mailbox, x) => Has(mailbox', x)
        /\ Resumed(mailbox) => Resumed(mailbox')
    BY <1>1, <2>1, ReadIsPosted DEF QueuedIsPosted
  <2>. QED
    BY <1>1, <2>1, <2>2
    DEF QueueIsWoken, QueuedIsPosted, ShownIsPosted, ResumeIsPosted, IdleIsWoken
<1>. QED
  BY <1>3, <1>4, <1>5, <1>6, <1>7, <1>8, <1>9 DEF MainSteps, Outside

(* Between the packets, the frame the main thread holds and a pause, the   *)
(* queue always has a message or a timer that makes it go on, though the   *)
(* two threads look at the counter and tell each other in separate steps.  *)
THEOREM QueueNeverSleepsOver == Spec => []NoWakeupLost
<1>1. Init => QueueIsWoken
  <2>. SUFFICES ASSUME Init PROVE QueueIsWoken
    OBVIOUS
  <2>1. /\ queued = TRUE /\ mailbox = <<"read", "resume">> /\ qpc = "idle"
        /\ packets = 0 /\ playing = FALSE
    BY DEF Init
  <2>2. Has(mailbox, "read") /\ Has(mailbox, "resume") /\ Resumed(mailbox)
    <3>1. DOMAIN mailbox = {1, 2} /\ mailbox[1] = "read" /\ mailbox[2] = "resume"
      BY <2>1
    <3>. QED  BY <3>1 DEF Has, Resumed
  <2>. QED
    BY <2>1, <2>2
    DEF QueueIsWoken, QueuedIsPosted, ShownIsPosted, ResumeIsPosted, IdleIsWoken
<1>2. TypeOK /\ Handover /\ QueueIsWoken /\ [Next]_vars => QueueIsWoken'
  <2>1. ASSUME QueueIsWoken, UNCHANGED vars  PROVE QueueIsWoken'
    BY <2>1
    DEF vars, queueVars, mainVars, QueueIsWoken, QueuedIsPosted, ShownIsPosted,
        ResumeIsPosted, IdleIsWoken
  <2>. QED  BY <2>1, QueueWoken, OthersWake DEF Next
<1>3. QueueIsWoken => NoWakeupLost
  <2>1. \A m : ~Has(<<>>, m)
    BY DEF Has
  <2>. QED  BY <2>1 DEF QueueIsWoken, ResumeIsPosted, IdleIsWoken, NoWakeupLost
<1>. QED  BY <1>1, <1>2, <1>3, TypeCorrect, HandoverHolds, PTL DEF Spec

-----------------------------------------------------------------------------
(* No wakeup is lost: the main thread.                                     *)

TimedIsRendered == next = "timed" => rtimer \/ mpc = "mark"

DoneIsDisplayed == next = "done" => frames[Given(counter)].displayed

NewIsTold ==
  Odd(counter) /\ next = "unknown" /\ ~frames[Given(counter)].displayed /\ mpc # "stopped" =>
    (mpc = "available" /\ Odd(mc)) \/ Has(inbox, "check")

MainIsWoken == TimedIsRendered /\ DoneIsDisplayed /\ NewIsTold

(* A frame the main thread holds is being looked at, is to be rendered,    *)
(* waits for the view to say it was painted, is being marked as shown, or  *)
(* is about to be told of.                                                 *)
GivenGoesOn ==
  Odd(counter) /\ mpc # "stopped" =>
    \/ next = "timed" /\ (rtimer \/ mpc = "mark")
    \/ next = "done"
    \/ mpc \in {"show", "delay"} /\ Odd(mc) /\ frames[Given(counter)].displayed
    \/ mpc = "available" /\ Odd(mc)
    \/ Has(inbox, "check")

(* What the queue leaves alone, and what it tells.                         *)
LEMMA QueueLeaves ==
  ASSUME TypeOK, Handover, Queue
  PROVE  /\ UNCHANGED mainVars
         /\ \A k \in Indices \ {Working(counter), After(Working(counter))} :
              frames'[k] = frames[k]
         /\ Has(inbox, "check") => Has(inbox', "check")
         /\ \/ counter' = counter
            \/ ~Odd(counter) /\ counter' = counter + 1 /\ Has(inbox', "check")
<1>. DEFINE i == Working(counter)
            j == After(Working(counter))
<1>1. /\ i \in Indices /\ j \in Indices /\ i # j /\ frames \in Frames
      /\ QueueKnows /\ inbox \in Seq(Events)
      /\ "check" \in Events /\ "done" \in Events /\ "error" \in Events
  BY Apart DEF TypeOK, Frames, Handover, Events
<1>2. qpc \in {"prepare", "read", "present"} =>
        Working(qc) = i /\ After(Working(qc)) = j /\ (~Odd(qc) => qc = counter)
  BY <1>1, QueueWorksOn
<1>. HIDE DEF i, j
<1>. DEFINE Goal == /\ UNCHANGED mainVars
                    /\ \A k \in Indices \ {i, j} : frames'[k] = frames[k]
                    /\ Has(inbox, "check") => Has(inbox', "check")
                    /\ \/ counter' = counter
                       \/ ~Odd(counter) /\ counter' = counter + 1 /\ Has(inbox', "check")
<1>. SUFFICES Goal
  BY DEF i, j
<1>3. ASSUME NEW events \in Seq(Events), Interrupt(events)
      PROVE  Has(inbox, "check") \/ Has(events, "check") => Has(inbox', "check")
  BY <1>1, <1>3, HasConcatenated DEF Interrupt
<1>4. /\ <<"done">> \in Seq(Events) /\ <<"error">> \in Seq(Events)
      /\ <<"error", "check">> \in Seq(Events)
  BY <1>1
<1>5. CASE ReceiveRead \/ ReceiveOther \/ ReadTimer \/ Load \/ ReadWaits \/ Check \/ PresentLater
  BY <1>5 DEF ReceiveRead, ReceiveOther, ReadTimer, Load, ReadWaits, Check, PresentLater
<1>6. CASE Prepare
  <2>1. /\ UNCHANGED <<counter, mainVars, inbox>> /\ qpc = "prepare"
        /\ Working(qc) = i /\ After(Working(qc)) = j
    BY <1>2, <1>6 DEF Prepare
  <2>. DEFINE sorted == Sorted(frames, i, j)
              both == IsDecoded(frames[i]) /\ IsDecoded(frames[j])
  <2>2. \/ frames' = frames
        \/ both /\ frames' = sorted
        \/ both /\ frames' = [Swap(sorted, i, j) EXCEPT ![j].displayed = TRUE]
    BY <1>6, <2>1 DEF Prepare
  <2>3. both => /\ sorted \in Frames
                /\ \A k \in Indices \ {i, j} : sorted[k] = frames[k]
    BY <1>1, SortedFrames
  <2>. HIDE DEF sorted, both
  <2>4. ASSUME both, NEW g, g = [Swap(sorted, i, j) EXCEPT ![j].displayed = TRUE]
        PROVE  \A k \in Indices \ {i, j} : g[k] = frames[k]
    <3>1. /\ Swap(sorted, i, j) \in Frames
          /\ \A k \in Indices \ {i, j} : Swap(sorted, i, j)[k] = sorted[k]
      BY <1>1, <2>3, <2>4, SwappedFrames
    <3>2. \A k \in Indices \ {j} : g[k] = Swap(sorted, i, j)[k]
      BY <1>1, <2>4, <3>1, Displayed
    <3>. QED  BY <2>3, <2>4, <3>1, <3>2
  <2>5. \A k \in Indices \ {i, j} : frames'[k] = frames[k]
    BY <2>2, <2>3, <2>4
  <2>. QED  BY <2>1, <2>5
<1>7. CASE ReadFrame \/ ReadFinished
  <2>1. /\ qpc = "read" /\ UNCHANGED <<counter, mainVars, inbox>>
        /\ \E p : frames' = [frames EXCEPT ![qat].position = p, ![qat].displayed = FALSE]
    BY <1>7 DEF ReadFrame, ReadFinished
  <2>2. qat = i \/ qat = j
    BY <1>1, <1>2, <2>1 DEF QueueKnows
  <2>3. \A k \in Indices \ {i, j} : frames'[k] = frames[k]
    BY <1>1, <2>1, <2>2 DEF Frames
  <2>. QED  BY <2>1, <2>3
<1>8. CASE Present
  <2>1. /\ qpc = "present" /\ ~Odd(qc) /\ counter' = qc + 1 /\ inbox' = Append(inbox, "check")
        /\ UNCHANGED mainVars
        /\ \E f, g : frames' = [frames EXCEPT ![Working(qc)].format = f, ![Working(qc)].image = g]
    BY <1>8 DEF Present
  <2>2. \A k \in Indices \ {i, j} : frames'[k] = frames[k]
    BY <1>1, <1>2, <2>1 DEF Frames
  <2>3. Has(inbox', "check")
    BY <1>1, <2>1, HasAppended
  <2>. QED  BY <1>2, <2>1, <2>2, <2>3
<1>9. CASE PresentFinished
  <2>1. UNCHANGED <<counter, frames, mainVars>> /\ Interrupt(<<"done">>)
    BY <1>9 DEF PresentFinished
  <2>. QED  BY <1>3, <1>4, <2>1
<1>10. ASSUME NEW why \in Failures, PresentFails(why)
       PROVE  Goal
  <2>. DEFINE kept == frames[Working(qc)].image /\ why = "transfer"
              failed == [frames EXCEPT ![Working(qc)].format = "None",
                                       ![Working(qc)].image = @ /\ why = "transfer"]
  <2>1. /\ qpc = "present" /\ ~Odd(qc) /\ UNCHANGED mainVars
        /\ frames' = failed
        /\ \/ counter' = qc + 1 /\ Interrupt(<<"error", "check">>)
           \/ counter' = counter /\ Interrupt(<<"error">>)
    BY <1>10 DEF PresentFails
  <2>2. \A k \in Indices \ {i, j} : frames'[k] = frames[k]
    BY <1>1, <1>2, <2>1 DEF Frames
  <2>3. Has(<<"error", "check">>, "check")
    <3>1. 2 \in DOMAIN <<"error", "check">> /\ <<"error", "check">>[2] = "check"
      OBVIOUS
    <3>. QED  BY <3>1 DEF Has
  <2>. QED  BY <1>2, <1>3, <1>4, <2>1, <2>2, <2>3
<1>. HIDE DEF Goal
<1>. QED  BY <1>5, <1>6, <1>7, <1>8, <1>9, <1>10 DEF Queue

LEMMA QueueTells ==
  ASSUME TypeOK, Handover, MainIsWoken, Queue
  PROVE  MainIsWoken'
<1>1. UNCHANGED <<mpc, mc, next, rtimer>>
  BY QueueLeaves DEF mainVars
<1>2. CASE counter' = counter
  <2>1. Odd(counter) => frames'[Given(counter)] = frames[Given(counter)]
    BY QueueLeaves, Apart DEF TypeOK
  <2>2. next # "unknown" => Odd(counter)
    BY DEF Handover, MainKnows
  <2>. QED
    BY <1>1, <1>2, <2>1, <2>2, QueueLeaves
    DEF MainIsWoken, TimedIsRendered, DoneIsDisplayed, NewIsTold
<1>3. CASE ~Odd(counter) /\ Has(inbox', "check")
  <2>1. next = "unknown"
    BY <1>3 DEF Handover, MainKnows
  <2>. QED
    BY <1>1, <1>3, <2>1 DEF MainIsWoken, TimedIsRendered, DoneIsDisplayed, NewIsTold
<1>. QED  BY <1>2, <1>3, QueueLeaves

LEMMA OthersTell ==
  ASSUME TypeOK, Handover, MainIsWoken, MainSteps \/ Outside
  PROVE  MainIsWoken'
<1>1. /\ inbox \in Seq(Events) /\ counter \in Counters
      /\ MainKnows /\ GivenIsReady
      /\ TimedIsRendered /\ DoneIsDisplayed /\ NewIsTold
  BY DEF TypeOK, Events, Handover, MainIsWoken
<1>2. \A m : inbox # <<>> /\ Has(inbox, m) /\ m # Head(inbox) => Has(Tail(inbox), m)
  BY <1>1, HasInTail
<1>. USE DEF Looks, Rests
(* What checkVideoStep() leaves is looked at, timed or not new.            *)
<1>3. ASSUME CheckVideoStep, mpc = "idle", UNCHANGED <<counter, frames, next>>,
             Has(inbox, "check") => Has(inbox', "check") \/ mpc' = "available" \/ next # "unknown"
      PROVE  MainIsWoken'
  <2>1. \/ next = "done"
        \/ next = "timed" /\ (mpc' = "mark" \/ rtimer' = TRUE)
        \/ next = "unknown" /\ mpc' = "available" /\ mc' = counter
    BY <1>3 DEF CheckVideoStep, RenderOrWait
  <2>. QED
    BY <1>1, <1>3, <2>1 DEF MainIsWoken, TimedIsRendered, DoneIsDisplayed, NewIsTold
<1>4. CASE CheckNextFrame
  BY <1>3, <1>4 DEF CheckNextFrame, CheckVideoStep
<1>5. CASE UpdateRequest
  BY <1>3, <1>5 DEF UpdateRequest
<1>6. CASE Availability
  <2>1. /\ mpc = "available" /\ UNCHANGED <<counter, frames, inbox>> /\ next = "unknown"
        /\ \/ Odd(mc) /\ next' = "timed" /\ (mpc' = "mark" \/ rtimer' = TRUE)
           \/ ~Odd(mc) /\ mpc' = "idle" /\ UNCHANGED next
    BY <1>1, <1>6 DEF Availability, RenderOrWait, MainKnows
  <2>. QED
    BY <1>1, <2>1 DEF MainIsWoken, TimedIsRendered, DoneIsDisplayed, NewIsTold
<1>7. CASE RenderTimer
  <2>1. /\ rtimer /\ mpc' = "mark" /\ UNCHANGED <<counter, frames, next, inbox>>
    BY <1>7 DEF RenderTimer
  <2>. QED
    BY <1>1, <2>1 DEF MainIsWoken, MainKnows, TimedIsRendered, DoneIsDisplayed, NewIsTold
<1>8. CASE MarkDisplayed
  <2>1. /\ mpc = "mark" /\ Odd(mc) /\ mc = counter /\ UNCHANGED <<counter, inbox>>
        /\ frames' = [frames EXCEPT ![Given(mc)].displayed = TRUE]
        /\ next' \in {"done", "unknown"}
    BY <1>1, <1>8 DEF MarkDisplayed, MainKnows
  <2>2. Given(counter) \in Indices /\ frames \in Frames
    BY <1>1, Apart DEF TypeOK, Frames
  <2>3. frames'[Given(counter)].displayed
    BY <2>1, <2>2 DEF Frames, Frame
  <2>. QED
    BY <2>1, <2>3 DEF MainIsWoken, TimedIsRendered, DoneIsDisplayed, NewIsTold
<1>9. CASE MarkShown
  <2>1. /\ mpc = "idle" /\ UNCHANGED <<counter, frames, inbox, rtimer>>
        /\ next' = IF next = "done" THEN "unknown" ELSE next
    BY <1>9 DEF MarkShown
  <2>. QED
    BY <1>1, <2>1 DEF MainIsWoken, TimedIsRendered, DoneIsDisplayed, NewIsTold
<1>10. CASE AddTimelineDelay \/ Paint \/ PaintEnds
  <2>1. /\ mpc \in {"delay", "idle", "paint"} /\ UNCHANGED <<counter, inbox, rtimer, next>>
        /\ mpc' # "stopped"
    BY <1>10 DEF AddTimelineDelay, Paint, PaintEnds
  <2>2. Odd(counter) => frames'[Given(counter)].displayed = frames[Given(counter)].displayed
    <3>1. CASE PaintEnds
      <4>1. /\ frames' = [frames EXCEPT ![Painted(mc)].image = TRUE]
            /\ frames \in [Indices -> Frame]
        BY <3>1 DEF PaintEnds, TypeOK
      <4>. QED  BY <4>1 DEF Frame
    <3>2. CASE AddTimelineDelay \/ Paint
      BY <3>2 DEF AddTimelineDelay, Paint
    <3>. QED  BY <1>10, <3>1, <3>2
  <2>. QED
    BY <1>1, <2>1, <2>2
    DEF MainIsWoken, MainKnows, TimedIsRendered, DoneIsDisplayed, NewIsTold
<1>11. CASE Show
  <2>1. mpc = "show" /\ UNCHANGED <<frames, inbox, rtimer, next>>
    BY <1>11 DEF Show
  <2>2. CASE counter' = counter
    BY <1>1, <2>1, <2>2 DEF MainIsWoken, TimedIsRendered, DoneIsDisplayed, NewIsTold
  <2>3. CASE counter' = AfterShown(mc) /\ Odd(mc) /\ frames[Given(mc)].displayed
    <3>1. mc = counter /\ ~Odd(counter')
      BY <1>1, <2>1, <2>3, Handed DEF MainKnows, TypeOK
    <3>2. next = "unknown"
      BY <1>1, <2>1, <2>3, <3>1 DEF MainKnows, GivenIsReady, TypeOK
    <3>. QED
      BY <2>1, <3>1, <3>2 DEF MainIsWoken, TimedIsRendered, DoneIsDisplayed, NewIsTold
  <2>. QED  BY <1>11, <2>2, <2>3 DEF Show
<1>12. CASE PostShown \/ Pause \/ Resume
  <2>1. /\ mpc \in {"post", "idle"} /\ UNCHANGED <<counter, frames, inbox, rtimer, next>>
    BY <1>12 DEF PostShown, Pause, Resume
  <2>. QED
    BY <1>1, <2>1 DEF MainIsWoken, TimedIsRendered, DoneIsDisplayed, NewIsTold
<1>13. CASE VideoFinished
  <2>1. /\ mpc = "idle" /\ inbox # <<>> /\ Head(inbox) = "done" /\ inbox' = Tail(inbox)
        /\ UNCHANGED <<counter, frames, rtimer, next, mpc, mc>>
    BY <1>13 DEF VideoFinished
  <2>. QED
    BY <1>1, <1>2, <2>1 DEF MainIsWoken, TimedIsRendered, DoneIsDisplayed, NewIsTold
<1>14. CASE StreamFailed
  <2>1. mpc' = "stopped" /\ next' = "unknown"
    BY <1>14 DEF StreamFailed
  <2>. QED
    BY <2>1 DEF MainIsWoken, TimedIsRendered, DoneIsDisplayed, NewIsTold
<1>15. CASE Process
  <2>1. UNCHANGED <<counter, frames, inbox, rtimer, next, mpc, mc>>
    BY <1>15 DEF Process, mainVars
  <2>. QED
    BY <1>1, <2>1 DEF MainIsWoken, TimedIsRendered, DoneIsDisplayed, NewIsTold
<1>. QED
  BY <1>4, <1>5, <1>6, <1>7, <1>8, <1>9, <1>10, <1>11, <1>12, <1>13, <1>14, <1>15
  DEF MainSteps, Outside

(* The main thread never forgets a frame it was given: while it has one,   *)
(* something makes it go on with it, or the player has stopped.            *)
THEOREM GivenIsNeverForgotten == Spec => []GivenGoesOn
<1>1. Init => MainIsWoken
  BY DEF Init, Odd, MainIsWoken, TimedIsRendered, DoneIsDisplayed, NewIsTold
<1>2. TypeOK /\ Handover /\ MainIsWoken /\ [Next]_vars => MainIsWoken'
  <2>1. ASSUME MainIsWoken, UNCHANGED vars  PROVE MainIsWoken'
    BY <2>1
    DEF vars, mainVars, MainIsWoken, TimedIsRendered, DoneIsDisplayed, NewIsTold
  <2>. QED  BY <2>1, QueueTells, OthersTell DEF Next
<1>3. TypeOK /\ Handover /\ MainIsWoken => GivenGoesOn
  <2>. SUFFICES ASSUME TypeOK, GivenIsReady, TimedIsRendered, NewIsTold,
                       Odd(counter), mpc # "stopped", next = "unknown"
       PROVE  \/ mpc \in {"show", "delay"} /\ Odd(mc) /\ frames[Given(counter)].displayed
              \/ mpc = "available" /\ Odd(mc)
              \/ Has(inbox, "check")
    BY DEF TypeOK, Handover, MainIsWoken, TimedIsRendered, GivenGoesOn
  <2>. QED  BY DEF GivenIsReady, NewIsTold
<1>. QED  BY <1>1, <1>2, <1>3, TypeCorrect, HandoverHolds, PTL DEF Spec

==============================================================================
