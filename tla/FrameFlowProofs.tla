--------------------------- MODULE FrameFlowProofs ---------------------------
(***************************************************************************)
(* FrameRing implements FrameFlow: frames are offered in their order, each *)
(* the earliest of those that are ready, and dropped only where that was   *)
(* asked for; and when the track completes nothing is left behind.         *)
(***************************************************************************)
EXTENDS FrameRingProofs

LEMMA Places ==
  ASSUME NEW c \in Counters
  PROVE  /\ After(After(Working(c))) \in Indices
         /\ After(After(Working(c))) \notin {Working(c), After(Working(c))}
         /\ Odd(c) => /\ After(After(Working(c))) = Painted(c)
                      /\ Working(AfterShown(c)) = Working(c)
         /\ ~Odd(c) => Working(c + 1) = After(Working(c))
<1>1. c \in Nat /\ c <= 7  BY DEF Counters, kFramesCount
<1>2. \/ c = 0 \/ c = 1 \/ c = 2 \/ c = 3 \/ c = 4 \/ c = 5 \/ c = 6 \/ c = 7
  BY <1>1
<1>. QED
  BY <1>2 DEF Working, After, Painted, AfterShown, Odd, Indices, kFramesCount

LEMMA Around ==
  ASSUME TypeOK
  PROVE  /\ First \in Indices /\ Second \in Indices /\ After(Second) \in Indices
         /\ Painted(counter) \in Indices /\ Given(counter) \in Indices
         /\ First # Second /\ After(Second) \notin {First, Second}
         /\ Painted(counter) \notin {First, Second}
         /\ Odd(counter) => Given(counter) \notin {First, Second}
         /\ Odd(counter) => After(Second) = Painted(counter)
         /\ frames \in Frames
         /\ \A k \in Indices : Position(k) \in Unknown .. Finished
         /\ Unknown .. Finished \subseteq Nat
<1>1. Unknown .. Finished \subseteq Nat
  BY RingAssumption DEF Unknown, Finished
<1>. QED
  BY <1>1, Apart, Places DEF TypeOK, First, Second, Frames, Frame, Position

LEMMA InReady ==
  /\ \A p : p \in Ready <=>
       \E k \in {First, Second} :
         IsDecoded(frames[k]) /\ Position(k) # Finished /\ p = Position(k)
  /\ \A p : p \in Ready' <=>
       \E k \in {First', Second'} :
         IsDecoded(frames'[k]) /\ frames'[k].position # Finished /\ p = frames'[k].position
  BY DEF Ready, First, Second, Position

LEMMA SameCardinality == \A S : Flow!Cardinality(S) = Cardinality(S)
  BY DEF Flow!Cardinality, Cardinality

LEMMA AtMostTwo ==
  ASSUME NEW a, NEW b, NEW S, S \subseteq {a, b}
  PROVE  Flow!Cardinality(S) <= 2
<1>1. IsFiniteSet({a, b}) /\ Cardinality({a, b}) <= 2
  <2>1. IsFiniteSet({a}) /\ Cardinality({a}) = 1  BY FS_Singleton
  <2>2. {a, b} = {a} \cup {b}  OBVIOUS
  <2>. QED  BY <2>1, <2>2, FS_AddElement
<1>. QED  BY <1>1, FS_Subset, FS_CardinalityType, SameCardinality

-----------------------------------------------------------------------------
(* A step that leaves the places of the frames as they are.                *)
LEMMA Steady ==
  ASSUME TypeOK, Handover, FramesInOrder, UNCHANGED <<counter, left, wait>>,
         \A k \in Indices : frames'[k].position = frames[k].position,
         \A k \in {First, Second} : IsDecoded(frames'[k]) <=> IsDecoded(frames[k]),
         IsDecoded(frames'[After(Second)]) => IsDecoded(frames[After(Second)]),
         qpc' = "read" => qpc = "read" /\ qat' = qat,
         qpc' \in {"check", "present"} => qpc \in {"check", "present"}
  PROVE  FramesInOrder' /\ UNCHANGED Flow!vars /\ Ready' = Ready
<1>1. First' = First /\ Second' = Second
  BY DEF First, Second
<1>2. /\ First \in Indices /\ Second \in Indices
      /\ Painted(counter) \in Indices /\ Given(counter) \in Indices
  BY Around
<1>3. Ready' = Ready
  BY <1>1, <1>2, InReady DEF Position
<1>4. Shown' = Shown /\ Offered' = Offered
  BY <1>2 DEF Shown, Offered, Position
<1>5. LaterThanShown' /\ OneIsLate'
  BY <1>3, <1>4 DEF FramesInOrder, LaterThanShown, OneIsLate
<1>6. ReadOnce'
  BY <1>1, <1>2, <1>3 DEF FramesInOrder, ReadOnce, Position
<1>7. FilledInTurn'
  <2>1. qpc = "read" => qat \in {First, Second}
    BY QueueWorksOn DEF Handover, QueueKnows, First, Second
  <2>. QED  BY <1>1, <2>1 DEF FramesInOrder, FilledInTurn
<1>8. FirstIsNext'
  BY <1>1, <1>2 DEF FramesInOrder, FirstIsNext, Position
<1>. QED  BY <1>3, <1>4, <1>5, <1>6, <1>7, <1>8 DEF FramesInOrder, Flow!vars

-----------------------------------------------------------------------------
(* The queue reads a frame: the next of the video, or one too early.       *)
LEMMA Reads ==
  ASSUME TypeOK, Handover, FramesInOrder, ReadFrame
  PROVE  FramesInOrder' /\ Flow!Next
<1>1. PICK p \in left :
        /\ Decodes(p)
        /\ frames' = [frames EXCEPT ![qat].position = p, ![qat].displayed = FALSE]
        /\ left' = left \ {p}
  BY DEF ReadFrame
<1>2. /\ qpc = "read" /\ UNCHANGED <<counter, wait>>
      /\ \/ qpc' = "load"
         \/ ~wait /\ UNCHANGED <<qpc, qat>>
  BY DEF ReadFrame, Goes
<1>3. /\ First' = First /\ Second' = Second
      /\ qat = First \/ (qat = Second /\ IsDecoded(frames[First]))
  BY <1>2, QueueWorksOn DEF Handover, QueueKnows, First, Second
<1>4. /\ p \in 2 .. Last /\ p \in Unknown .. Finished /\ p # Unknown /\ p # Finished
      /\ left \subseteq 2 .. Last /\ Last \in Nat
  BY RingAssumption DEF TypeOK, Unknown, Finished
<1>5. /\ frames'[qat].position = p /\ IsDecoded(frames'[qat])
      /\ \A k \in Indices \ {qat} : frames'[k] = frames[k]
  <2>1. qat \in Indices /\ frames \in Frames  BY <1>3, Around
  <2>. QED  BY <1>1, <1>4, <2>1 DEF Frames, Frame, IsDecoded
<1>. DEFINE o == IF qat = First THEN Second ELSE First
<1>6. /\ {First, Second} = {qat, o} /\ qat # o /\ qat \in Indices /\ o \in Indices
      /\ frames'[o] = frames[o]
      /\ qat = First => ~IsDecoded(frames[Second])
  BY <1>2, <1>3, <1>5, Around DEF FramesInOrder, FilledInTurn
<1>. HIDE DEF o
<1>7. /\ Ready \cap left = {} /\ Ready \subseteq 2 .. Last
      /\ \A k \in {qat, o} : IsDecoded(frames[k]) => Position(k) # Finished
      /\ IsDecoded(frames[qat]) /\ IsDecoded(frames[o]) => Position(qat) # Position(o)
  BY <1>1, <1>6 DEF FramesInOrder, ReadOnce
<1>8. /\ \A r : r \in Ready <=>
           \E k \in {qat, o} : IsDecoded(frames[k]) /\ r = Position(k)
      /\ \A r : r \in Ready' <=> r = p \/ (IsDecoded(frames[o]) /\ r = Position(o))
  BY <1>3, <1>4, <1>5, <1>6, <1>7, InReady DEF Position
<1>9. /\ \A r \in Ready' : r = p \/ r \in Ready
      /\ p \in Ready' /\ p \notin Ready /\ p \notin left'
      /\ left' \subseteq left
  BY <1>1, <1>7, <1>8
<1>10. Shown' = Shown /\ Offered' = Offered
  BY <1>2, <1>5, <1>6, Around DEF Shown, Offered, Position
<1>11. LaterThanShown'
  BY <1>1, <1>9, <1>10 DEF FramesInOrder, LaterThanShown
<1>12. ReadOnce'
  <2>1. Ready' \cap left' = {} /\ Ready' \subseteq 2 .. Last
    BY <1>4, <1>7, <1>9
  <2>2. \A k \in {First', Second'} : IsDecoded(frames'[k]) => frames'[k].position # Finished
    BY <1>3, <1>4, <1>5, <1>6, <1>7 DEF Position
  <2>3. IsDecoded(frames'[o]) => frames'[o].position # p
    BY <1>1, <1>6, <1>7, <1>8 DEF Position
  <2>4. IsDecoded(frames'[First]) /\ IsDecoded(frames'[Second]) =>
          frames'[First].position # frames'[Second].position
    BY <1>5, <1>6, <2>3
  <2>. QED  BY <1>3, <2>1, <2>2, <2>4 DEF ReadOnce, Position
<1>. DEFINE earlier == {x \in left : x < p}
<1>13. \A x \in earlier : /\ earlier = {x}
                          /\ \A r \in 2 .. Last : r \notin left => r < x
  <2>1. IsFiniteSet(earlier)
    <3>1. IsFiniteSet(2 .. Last)  BY <1>4, FS_Interval
    <3>. QED  BY <1>4, <3>1, FS_Subset
  <2>2. earlier # {} => /\ Cardinality(earlier) = 1
                        /\ \A x \in 2 .. Last : x \notin left => \A y \in earlier : x < y
    BY <1>1 DEF Decodes
  <2>3. Cardinality(earlier) = 1 => \E x : earlier = {x}
    BY <2>1, FS_Singleton
  <2>. QED  BY <2>2, <2>3
<1>14. OneIsLate'
  <2>. SUFFICES ASSUME NEW q \in Ready', NEW x \in left', x < q
                PROVE  /\ \A y \in left' : y # x => q < y
                       /\ \A r \in Ready' : r # q => r < x
    BY DEF OneIsLate
  <2>0. x \in left /\ x # p /\ x \in 2 .. Last /\ Ready' \subseteq 2 .. Last
    BY <1>1, <1>4, <1>7, <1>9
  <2>1. CASE q = p
    <3>1. earlier = {x} /\ \A r \in 2 .. Last : r \notin left => r < x
      BY <1>13, <2>0, <2>1
    <3>2. \A y \in left' : y # x => p < y
      BY <1>1, <1>4, <3>1
    <3>3. \A r \in Ready' : r # p => r < x
      BY <1>7, <1>9, <3>1
    <3>. QED  BY <2>1, <3>2, <3>3
  <2>2. CASE q # p
    <3>1. q \in Ready /\ q \notin left /\ q \in 2 .. Last
      BY <1>7, <1>9, <2>2
    <3>2. q < p
      BY <2>0, <3>1 DEF FramesInOrder, OneIsLate
    <3>3. x \in earlier
      BY <2>0, <3>1, <3>2, <1>4
    <3>4. q < x
      BY <1>13, <3>1, <3>3
    <3>. QED  BY <2>0, <3>1, <3>4
  <2>. QED  BY <2>1, <2>2
<1>15. FilledInTurn'
  <2>1. frames'[After(Second)] = frames[After(Second)] /\ Second' = Second
    BY <1>3, <1>5, <1>6, Around
  <2>2. IsDecoded(frames'[Second]) => IsDecoded(frames'[First])
    BY <1>3, <1>5, <1>6, Around
  <2>3. qat = First => ~IsDecoded(frames'[Second])
    BY <1>5, <1>6, Around
  <2>. QED  BY <1>2, <1>3, <2>1, <2>2, <2>3 DEF FramesInOrder, FilledInTurn
<1>16. FirstIsNext'
  BY <1>2 DEF FirstIsNext
<1>17. Flow!Make(p)
  <2>1. p > Shown /\ p > Offered
    BY DEF FramesInOrder, LaterThanShown
  <2>4. Flow!Cardinality(Ready') <= 2
    <3>1. Ready' \subseteq {p, Position(o)}  BY <1>8
    <3>. QED  BY <3>1, AtMostTwo
  <2>5. UNCHANGED <<Offered, Shown, ~wait>>
    BY <1>2, <1>10
  <2>2. CASE IsDecoded(frames[qat])
    <3>1. ~wait
      BY <1>2, <2>2 DEF FramesInOrder, FilledInTurn
    <3>2. Position(qat) \in Ready /\ Ready' = (Ready \ {Position(qat)}) \cup {p}
      BY <1>7, <1>8, <2>2
    <3>. QED  BY <1>9, <2>1, <2>4, <2>5, <3>1, <3>2 DEF Flow!Make
  <2>3. CASE ~IsDecoded(frames[qat])
    <3>1. Ready' = Ready \cup {p}
      BY <1>8, <2>3
    <3>. QED  BY <1>9, <2>1, <2>4, <2>5, <3>1 DEF Flow!Make
  <2>. QED  BY <2>2, <2>3
<1>18. Flow!Next
  BY <1>4, <1>17 DEF Flow!Next
<1>. QED
  BY <1>11, <1>12, <1>14, <1>15, <1>16, <1>18 DEF FramesInOrder

(* The end of the video is read, perhaps over a frame that is stale.       *)
LEMMA ReadsEnd ==
  ASSUME TypeOK, Handover, FramesInOrder, ReadFinished
  PROVE  FramesInOrder' /\ [Flow!Next]_Flow!vars
<1>1. /\ frames' = [frames EXCEPT ![qat].position = Finished, ![qat].displayed = FALSE]
      /\ left = {} /\ qpc = "read" /\ qpc' = "check"
      /\ UNCHANGED <<counter, wait, left>>
  BY DEF ReadFinished, Goes
<1>2. /\ First' = First /\ Second' = Second
      /\ qat = First \/ (qat = Second /\ IsDecoded(frames[First]))
  BY <1>1, QueueWorksOn DEF Handover, QueueKnows, First, Second
<1>3. Finished \in Unknown .. Finished /\ Finished # Unknown /\ Last \in Nat
  BY RingAssumption DEF Unknown, Finished
<1>4. /\ frames'[qat].position = Finished /\ IsDecoded(frames'[qat])
      /\ \A k \in Indices \ {qat} : frames'[k] = frames[k]
  <2>1. qat \in Indices /\ frames \in Frames  BY <1>2, Around
  <2>. QED  BY <1>1, <1>3, <2>1 DEF Frames, Frame, IsDecoded
<1>. DEFINE o == IF qat = First THEN Second ELSE First
<1>5. /\ {First, Second} = {qat, o} /\ qat # o /\ qat \in Indices /\ o \in Indices
      /\ frames'[o] = frames[o]
      /\ qat = First => o = Second /\ ~IsDecoded(frames[Second])
      /\ qat = Second => o = First
  BY <1>1, <1>2, <1>4, Around DEF FramesInOrder, FilledInTurn
<1>. HIDE DEF o
<1>6. /\ \A r : r \in Ready <=>
           \E k \in {qat, o} : IsDecoded(frames[k]) /\ Position(k) # Finished /\ r = Position(k)
      /\ \A r : r \in Ready' <=>
           IsDecoded(frames[o]) /\ Position(o) # Finished /\ r = Position(o)
  BY <1>2, <1>4, <1>5, InReady DEF Position
<1>7. Ready' \subseteq Ready
  BY <1>6
<1>8. Shown' = Shown /\ Offered' = Offered
  <2>1. qat # Painted(counter) /\ (Odd(counter) => qat # Given(counter))
    BY <1>2, Around
  <2>2. /\ frames'[Painted(counter)] = frames[Painted(counter)]
        /\ Odd(counter) => frames'[Given(counter)] = frames[Given(counter)]
    BY <1>4, <2>1, Around
  <2>3. counter' = counter  BY <1>1
  <2>. QED  BY <2>2, <2>3 DEF Shown, Offered, Position
<1>9. LaterThanShown' /\ OneIsLate'
  BY <1>1, <1>7, <1>8 DEF FramesInOrder, LaterThanShown, OneIsLate
<1>10. ReadOnce'
  <2>1. Ready' \subseteq 2 .. Last
    BY <1>7 DEF FramesInOrder, ReadOnce
  <2>2. frames'[First].position = Finished \/ frames'[Second].position = Finished
    BY <1>4, <1>5
  <2>. QED  BY <1>1, <1>2, <2>1, <2>2 DEF ReadOnce, Position
<1>11. FilledInTurn'
  <2>1. frames'[After(Second)] = frames[After(Second)]
    BY <1>4, <1>5, Around
  <2>2. IsDecoded(frames'[First])
    BY <1>2, <1>4, <1>5
  <2>. QED  BY <1>1, <1>2, <2>1, <2>2 DEF FramesInOrder, FilledInTurn
<1>12. FirstIsNext'
  <2>1. IsDecoded(frames'[Second]) => frames'[First].position <= frames'[Second].position
    <3>1. CASE qat = First
      BY <1>5, <3>1
    <3>2. CASE qat = Second
      <4>1. frames'[First].position \in Unknown .. Finished
        BY <1>5, <3>2, Around DEF Position
      <4>. QED  BY <1>3, <1>4, <3>2, <4>1 DEF Unknown, Finished
    <3>. QED  BY <1>2, <3>1, <3>2
  <2>. QED  BY <1>1, <1>2, <2>1 DEF FirstIsNext, Position
<1>13. [Flow!Next]_Flow!vars
  <2>1. CASE IsDecoded(frames[qat]) /\ Position(qat) # Finished
    <3>1. ~wait
      BY <1>1, <2>1 DEF FramesInOrder, FilledInTurn
    <3>2. Position(qat) # Position(o) \/ ~IsDecoded(frames[o])
      BY <1>5, <2>1 DEF FramesInOrder, ReadOnce
    <3>3. Position(qat) \in Ready /\ Ready' = Ready \ {Position(qat)}
      BY <1>6, <2>1, <3>2
    <3>4. Flow!Drop(Position(qat))
      BY <1>1, <1>8, <3>1, <3>3 DEF Flow!Drop
    <3>. QED  BY <3>3, <3>4 DEF Flow!Next
  <2>2. CASE ~(IsDecoded(frames[qat]) /\ Position(qat) # Finished)
    <3>1. Ready' = Ready
      BY <1>6, <2>2
    <3>. QED  BY <1>1, <1>8, <3>1 DEF Flow!vars
  <2>. QED  BY <2>1, <2>2
<1>. QED  BY <1>9, <1>10, <1>11, <1>12, <1>13 DEF FramesInOrder

(* What prepareState() finds is sorted; a stale frame is dropped.          *)
LEMMA SortedPositions ==
  ASSUME NEW fs \in Frames, NEW i \in Indices, NEW j \in Indices, i # j,
         IsDecoded(fs[i]), IsDecoded(fs[j])
  PROVE  LET g == Sorted(fs, i, j) IN
         /\ g \in Frames /\ IsDecoded(g[i]) /\ IsDecoded(g[j])
         /\ g[i].position <= g[j].position
         /\ \/ g[i].position = fs[i].position /\ g[j].position = fs[j].position
            \/ g[i].position = fs[j].position /\ g[j].position = fs[i].position
         /\ \A k \in Indices \ {i, j} : g[k] = fs[k]
<1>1. \A k \in Indices : fs[k].position \in Unknown .. Finished
  BY DEF Frames, Frame
<1>2. Unknown .. Finished \subseteq Nat
  BY RingAssumption DEF Unknown, Finished
<1>3. CASE fs[j].position < fs[i].position
  <2>1. Sorted(fs, i, j) = Swap(fs, i, j)  BY <1>3 DEF Sorted
  <2>. DEFINE g == Swap(fs, i, j)
  <2>2. /\ g \in Frames /\ g[i] = fs[j] /\ g[j] = fs[i]
        /\ \A k \in Indices \ {i, j} : g[k] = fs[k]
    BY SwappedFrames
  <2>3. g[i].position <= g[j].position
    BY <1>1, <1>2, <1>3, <2>2
  <2>. HIDE DEF g
  <2>4. Sorted(fs, i, j) = g
    BY <2>1 DEF g
  <2>. QED  BY <2>2, <2>3, <2>4
<1>4. CASE ~(fs[j].position < fs[i].position)
  <2>1. Sorted(fs, i, j) = fs  BY <1>4 DEF Sorted
  <2>. QED  BY <1>1, <1>2, <1>4, <2>1
<1>. QED  BY <1>3, <1>4

LEMMA Prepares ==
  ASSUME TypeOK, Handover, FramesInOrder, Prepare
  PROVE  FramesInOrder' /\ [Flow!Next]_Flow!vars
<1>. DEFINE sorted == Sorted(frames, First, Second)
            both == IsDecoded(frames[First]) /\ IsDecoded(frames[Second])
            stale == [Swap(sorted, First, Second) EXCEPT ![Second].displayed = TRUE]
<1>1. /\ qpc = "prepare" /\ UNCHANGED <<counter, wait, left>>
      /\ Working(qc) = First /\ After(Working(qc)) = Second
      /\ First' = First /\ Second' = Second
  <2>1. qpc = "prepare" /\ UNCHANGED <<counter, wait, left>>  BY DEF Prepare
  <2>. QED  BY <2>1, QueueWorksOn DEF Handover, First, Second
<1>2. \/ ~IsDecoded(frames[First]) /\ ReadInto(First) /\ UNCHANGED frames
      \/ IsDecoded(frames[First]) /\ ~both /\ ReadInto(Second) /\ UNCHANGED frames
      \/ both /\ frames' = sorted /\ (GoesIdle \/ Goes("check", 0, 0))
      \/ /\ both /\ sorted[Second].position # Finished /\ ~wait
         /\ frames' = stale /\ ReadInto(Second)
  BY <1>1 DEF Prepare
<1>3. First \in Indices /\ Second \in Indices /\ First # Second /\ frames \in Frames
  BY Around
<1>4. CASE UNCHANGED frames /\ qpc' = "read" /\ ~IsDecoded(frames[qat'])
           /\ (qat' = First => ~IsDecoded(frames[Second]))
  <2>1. Ready' = Ready /\ Shown' = Shown /\ Offered' = Offered
    BY <1>1, <1>4, InReady DEF Shown, Offered, Position
  <2>2. LaterThanShown' /\ OneIsLate' /\ ReadOnce'
    BY <1>1, <1>4, <2>1 DEF FramesInOrder, LaterThanShown, OneIsLate, ReadOnce, Position
  <2>3. FilledInTurn' /\ FirstIsNext'
    BY <1>1, <1>4 DEF FramesInOrder, FilledInTurn, FirstIsNext
  <2>. QED  BY <1>1, <2>1, <2>2, <2>3 DEF FramesInOrder, Flow!vars
<1>5. both => /\ sorted \in Frames /\ IsDecoded(sorted[First]) /\ IsDecoded(sorted[Second])
              /\ sorted[First].position <= sorted[Second].position
              /\ \/ /\ sorted[First].position = Position(First)
                    /\ sorted[Second].position = Position(Second)
                 \/ /\ sorted[First].position = Position(Second)
                    /\ sorted[Second].position = Position(First)
              /\ \A k \in Indices \ {First, Second} : sorted[k] = frames[k]
  BY <1>3, SortedPositions DEF Position
<1>. HIDE DEF sorted
(* The first after sorting is before all that are left.                    *)
<1>6. ASSUME both, NEW x \in left
      PROVE  sorted[First].position < x
  <2>1. /\ Position(First) \in Ready /\ Position(Second) \in Ready
        /\ Position(First) # Position(Second)
    BY <1>6, InReady DEF FramesInOrder, ReadOnce
  <2>2. /\ Ready \subseteq 2 .. Last /\ Ready \cap left = {} /\ left \subseteq 2 .. Last
        /\ Last \in Nat
    BY RingAssumption DEF FramesInOrder, ReadOnce, TypeOK
  <2>3. \A p \in Ready, q \in Ready : x < p /\ q # p => q < x
    BY DEF FramesInOrder, OneIsLate
  <2>. DEFINE a == Position(First)
              b == Position(Second)
  <2>4. a \in Nat /\ b \in Nat /\ x \in Nat /\ a # b /\ a # x /\ b # x
    <3>1. a \in 2 .. Last /\ b \in 2 .. Last /\ a \notin left /\ b \notin left
      BY <2>1, <2>2
    <3>2. x \in 2 .. Last /\ a # b
      BY <2>1, <2>2
    <3>. HIDE DEF a, b
    <3>. QED  BY <1>6, <2>2, <3>1, <3>2
  <2>6. (x < a => b < x) /\ (x < b => a < x)
    BY <2>1, <2>3
  <2>5. /\ sorted[First].position <= sorted[Second].position
        /\ \/ sorted[First].position = a /\ sorted[Second].position = b
           \/ sorted[First].position = b /\ sorted[Second].position = a
    BY <1>5, <1>6
  <2>. HIDE DEF a, b
  <2>. QED  BY <2>4, <2>5, <2>6
<1>7. ASSUME both, NEW g \in Frames, \A k \in Indices \ {First, Second} : g[k] = frames[k]
      PROVE  /\ g[Painted(counter)] = frames[Painted(counter)]
             /\ Odd(counter) => g[Given(counter)] = frames[Given(counter)]
             /\ g[After(Second)] = frames[After(Second)]
  BY <1>7, Around
<1>8. CASE both /\ frames' = sorted /\ qpc' \in {"idle", "check"}
  <2>1. Shown' = Shown /\ Offered' = Offered /\ frames'[After(Second)] = frames[After(Second)]
    BY <1>1, <1>5, <1>7, <1>8 DEF Shown, Offered, Position
  <2>2. /\ IsDecoded(frames'[First]) /\ IsDecoded(frames'[Second])
        /\ \/ /\ frames'[First].position = Position(First)
              /\ frames'[Second].position = Position(Second)
           \/ /\ frames'[First].position = Position(Second)
              /\ frames'[Second].position = Position(First)
        /\ frames'[First].position <= frames'[Second].position
    BY <1>5, <1>8
  <2>3. Ready' = Ready
    BY <1>1, <1>8, <2>2, InReady
  <2>4. LaterThanShown' /\ OneIsLate'
    BY <1>1, <2>1, <2>3 DEF FramesInOrder, LaterThanShown, OneIsLate
  <2>5. ReadOnce'
    <3>1. \A k \in {First, Second} : Position(k) = Finished => left = {}
      BY <1>8 DEF FramesInOrder, ReadOnce
    <3>2. Position(First) # Position(Second) \/ Position(First) = Finished
      BY <1>8 DEF FramesInOrder, ReadOnce
    <3>3. Ready' \cap left' = {} /\ Ready' \subseteq 2 .. Last
      BY <1>1, <2>3 DEF FramesInOrder, ReadOnce
    <3>. QED  BY <1>1, <2>2, <3>1, <3>2, <3>3 DEF ReadOnce, Position
  <2>6. FilledInTurn'
    BY <1>1, <1>8, <2>1, <2>2 DEF FramesInOrder, FilledInTurn
  <2>7. FirstIsNext'
    BY <1>1, <1>6, <1>8, <2>2 DEF FirstIsNext, Position
  <2>. QED  BY <1>1, <2>1, <2>3, <2>4, <2>5, <2>6, <2>7 DEF FramesInOrder, Flow!vars
<1>9. CASE /\ both /\ sorted[Second].position # Finished /\ ~wait
           /\ frames' = stale /\ ReadInto(Second)
  <2>. DEFINE g == Swap(sorted, First, Second)
  <2>1. /\ g \in Frames /\ g[First] = sorted[Second] /\ g[Second] = sorted[First]
        /\ \A k \in Indices \ {First, Second} : g[k] = sorted[k]
    BY <1>3, <1>5, <1>9, SwappedFrames
  <2>2. /\ stale \in Frames /\ stale[First] = sorted[Second] /\ stale[Second].displayed
        /\ \A k \in Indices \ {First, Second} : stale[k] = frames[k]
    <3>2. stale = [g EXCEPT ![Second].displayed = TRUE]
      OBVIOUS
    <3>. HIDE DEF g, stale
    <3>1. /\ stale \in Frames /\ stale[Second].displayed
          /\ \A k \in Indices \ {Second} : stale[k] = g[k]
      BY <1>3, <2>1, <3>2 DEF Frames, Frame
    <3>. QED  BY <1>3, <1>5, <1>9, <2>1, <3>1
  <2>. HIDE DEF stale
  <2>3. /\ IsDecoded(frames'[First]) /\ ~IsDecoded(frames'[Second])
        /\ frames'[First].position = sorted[Second].position
        /\ qpc' = "read" /\ qat' = Second
    BY <1>5, <1>9, <2>2 DEF ReadInto, Goes, IsDecoded
  <2>4. Shown' = Shown /\ Offered' = Offered /\ frames'[After(Second)] = frames[After(Second)]
    BY <1>1, <1>7, <1>9, <2>2 DEF Shown, Offered, Position
  <2>. DEFINE a == sorted[First].position
              b == sorted[Second].position
  <2>5. /\ a # Finished /\ b # Finished /\ a # b
    <3>1. a \in Unknown .. Finished /\ b \in Unknown .. Finished /\ a <= b
      BY <1>3, <1>5, <1>9 DEF Frames, Frame
    <3>2. a # Finished
      BY <1>9, <3>1, RingAssumption DEF Unknown, Finished
    <3>3. Position(First) # Finished /\ Position(Second) # Finished
      BY <1>5, <1>9, <3>2
    <3>4. Position(First) # Position(Second)
      BY <1>9, <3>3 DEF FramesInOrder, ReadOnce
    <3>. QED  BY <1>5, <1>9, <3>2, <3>4
  <2>6. /\ \A r : r \in Ready <=> r = a \/ r = b
        /\ \A r : r \in Ready' <=> r = b
    <3>1. \A r : r \in Ready <=> r = a \/ r = b
      BY <1>5, <1>9, <2>5, InReady
    <3>2. \A r : r \in Ready' <=> r = b
      BY <1>1, <1>9, <2>3, <2>5, InReady
    <3>. QED  BY <3>1, <3>2
  <2>. HIDE DEF a, b
  <2>7. LaterThanShown' /\ OneIsLate'
    BY <1>1, <2>4, <2>6 DEF FramesInOrder, LaterThanShown, OneIsLate
  <2>8. ReadOnce'
    BY <1>1, <1>9, <2>3, <2>6 DEF FramesInOrder, ReadOnce, Position
  <2>9. FilledInTurn' /\ FirstIsNext'
    BY <1>1, <1>3, <2>3, <2>4 DEF FramesInOrder, FilledInTurn, FirstIsNext
  <2>10. Flow!Drop(a) /\ a \in Ready
    <3>1. Ready' = Ready \ {a}
      BY <2>5, <2>6
    <3>. QED  BY <1>1, <1>9, <2>4, <2>6, <3>1 DEF Flow!Drop
  <2>. QED  BY <2>7, <2>8, <2>9, <2>10 DEF FramesInOrder, Flow!Next
<1>10. CASE ~IsDecoded(frames[First]) /\ ReadInto(First) /\ UNCHANGED frames
  <2>1. ~IsDecoded(frames[Second])
    BY <1>10 DEF FramesInOrder, FilledInTurn
  <2>. QED  BY <1>4, <1>10, <2>1 DEF ReadInto, Goes
<1>11. CASE IsDecoded(frames[First]) /\ ~both /\ ReadInto(Second) /\ UNCHANGED frames
  BY <1>3, <1>4, <1>11 DEF ReadInto, Goes
<1>12. CASE both /\ frames' = sorted /\ (GoesIdle \/ Goes("check", 0, 0))
  BY <1>8, <1>12 DEF GoesIdle, Goes
<1>. QED  BY <1>2, <1>9, <1>10, <1>11, <1>12

(* A frame is given to the main thread: the earliest of what is ready.     *)
LEMMA Gives ==
  ASSUME TypeOK, Handover, FramesInOrder,
         qpc = "present", qc = counter, ~Odd(counter), Position(First) # Finished,
         \A k \in Indices : /\ frames'[k].position = frames[k].position
                            /\ frames'[k].displayed = frames[k].displayed,
         counter' = counter + 1, UNCHANGED <<left, wait>>, qpc' \in {"idle", "interrupted"}
  PROVE  FramesInOrder' /\ Flow!Next
<1>. DEFINE third == After(Second)
<1>1. /\ Odd(counter') /\ Given(counter') = First /\ Painted(counter') = Painted(counter)
      /\ First' = Second /\ Second' = third
  BY Handed, Places DEF TypeOK, First, Second
<1>2. /\ First \in Indices /\ Second \in Indices /\ third \in Indices
      /\ Painted(counter) \in Indices /\ First # Second
  BY Around
<1>3. \A k \in Indices : /\ frames'[k].position = Position(k)
                         /\ IsDecoded(frames'[k]) <=> IsDecoded(frames[k])
  BY DEF IsDecoded, Position
<1>4. IsDecoded(frames[First]) /\ ~IsDecoded(frames[third])
  BY DEF Handover, QueueKnows, First, FramesInOrder, FilledInTurn
<1>5. /\ \A x \in left : Position(First) < x
      /\ IsDecoded(frames[Second]) => Position(First) <= Position(Second)
  BY DEF FramesInOrder, FirstIsNext
<1>6. IsDecoded(frames[Second]) => Position(First) # Position(Second)
  BY <1>4 DEF FramesInOrder, ReadOnce
<1>. DEFINE a == Position(First)
            b == Position(Second)
<1>7. /\ \A r : r \in Ready <=>
           r = a \/ (IsDecoded(frames[Second]) /\ b # Finished /\ r = b)
      /\ \A r : r \in Ready' <=> IsDecoded(frames[Second]) /\ b # Finished /\ r = b
  <2>1. \A r : r \in Ready <=>
           r = a \/ (IsDecoded(frames[Second]) /\ b # Finished /\ r = b)
    BY <1>4, InReady
  <2>2. \A r : r \in Ready' <=> IsDecoded(frames[Second]) /\ b # Finished /\ r = b
    BY <1>1, <1>2, <1>3, <1>4, InReady
  <2>. QED  BY <2>1, <2>2
<1>8. Shown' = Shown /\ Offered' = a /\ Offered = 0
  BY <1>1, <1>2, <1>3 DEF Shown, Offered, Position
<1>. DEFINE held == IsDecoded(frames[Second]) /\ b # Finished
<1>9. /\ a \in Nat /\ b \in Nat /\ a \in Ready
      /\ Ready' = Ready \ {a}
      /\ \A r \in Ready' : r = b /\ a < r
  <2>1. a \in Nat /\ b \in Nat /\ a \in Ready
    BY <1>2, <1>7, Around
  <2>2. a # b \/ ~held  BY <1>6
  <2>3. Ready' = Ready \ {a}  BY <1>7, <2>2
  <2>4. \A r \in Ready' : r = b /\ a < r  BY <1>5, <1>6, <1>7, <2>1
  <2>. QED  BY <2>1, <2>3, <2>4
<1>10. LaterThanShown'
  <2>1. \A r \in left \cup Ready' : r > Shown /\ r > a
    BY <1>5, <1>9, RingAssumption DEF FramesInOrder, LaterThanShown, TypeOK
  <2>. QED  BY <1>8, <2>1 DEF LaterThanShown
<1>11. OneIsLate'
  BY <1>9 DEF FramesInOrder, OneIsLate
<1>12. ReadOnce'
  <2>1. Ready' \cap left' = {} /\ Ready' \subseteq 2 .. Last
    BY <1>9 DEF FramesInOrder, ReadOnce
  <2>2. ~IsDecoded(frames'[third])
    BY <1>2, <1>3, <1>4
  <2>3. IsDecoded(frames'[Second]) /\ frames'[Second].position = Finished => left = {}
    BY <1>2, <1>3 DEF FramesInOrder, ReadOnce
  <2>. QED  BY <1>1, <2>1, <2>2, <2>3 DEF ReadOnce, Position
<1>13. FilledInTurn' /\ FirstIsNext'
  BY <1>1, <1>2, <1>3, <1>4 DEF FilledInTurn, FirstIsNext
<1>14. Flow!Offer
  <2>1. \A r \in Ready : a <= r
    BY <1>9
  <2>2. Flow!Min(Ready) = a
    <3>1. \A x \in Ready : (\A y \in Ready : x =< y) => x = a
      <4>1. Ready \subseteq Nat
        BY DEF FramesInOrder, ReadOnce
      <4>. QED  BY <1>9, <2>1, <4>1
    <3>. HIDE DEF a
    <3>. QED  BY <1>9, <2>1, <3>1 DEF Flow!Min
  <2>. HIDE DEF a
  <2>. QED  BY <1>8, <1>9, <2>2 DEF Flow!Offer
<1>. QED  BY <1>10, <1>11, <1>12, <1>13, <1>14 DEF FramesInOrder, Flow!Next

(* The frame that was given is on the screen.                              *)
LEMMA Shows ==
  ASSUME TypeOK, Handover, FramesInOrder, Show
  PROVE  FramesInOrder' /\ Ready' = Ready /\ [Flow!Next]_Flow!vars
<1>1. /\ mpc = "show" /\ UNCHANGED <<frames, qpc, qc, qat, left, wait>>
      /\ \/ /\ Odd(mc) /\ counter' = AfterShown(mc)
         \/ counter' = counter
  BY DEF Show, queueVars
<1>2. CASE counter' = counter
  BY <1>1, <1>2, Steady
<1>3. CASE Odd(mc) /\ counter' = AfterShown(mc)
  <2>1. mc = counter /\ Odd(counter)
    BY <1>1, <1>3 DEF Handover, MainKnows
  <2>2. /\ ~Odd(counter') /\ First' = First /\ Second' = Second
        /\ Painted(counter') = Given(counter)
    BY <1>3, <2>1, Handed DEF TypeOK, First, Second
  <2>3. Ready' = Ready
    BY <1>1, <2>2, InReady DEF Position
  <2>4. Shown' = Offered /\ Offered' = 0 /\ Offered # 0
    BY <1>1, <2>1, <2>2 DEF Shown, Offered, Position, Handover, GivenIsReady, Unknown
  <2>5. LaterThanShown'
    <3>1. Ready \subseteq 2 .. Last /\ left \subseteq 2 .. Last
      BY DEF FramesInOrder, ReadOnce, TypeOK
    <3>2. \A r \in left \cup Ready : r > Offered /\ r > 0
      BY <3>1, RingAssumption DEF FramesInOrder, LaterThanShown
    <3>. QED  BY <1>1, <2>3, <2>4, <3>2 DEF LaterThanShown
  <2>6. OneIsLate' /\ ReadOnce' /\ FirstIsNext'
    BY <1>1, <2>2, <2>3 DEF FramesInOrder, OneIsLate, ReadOnce, FirstIsNext, Position
  <2>7. FilledInTurn'
    <3>1. ~IsDecoded(frames[After(Second)])
      BY <2>1, Around DEF Handover, PaintedWasShown, IsDecoded
    <3>. QED  BY <1>1, <2>2, <3>1 DEF FramesInOrder, FilledInTurn
  <2>8. Flow!Show
    BY <1>1, <2>3, <2>4 DEF Flow!Show
  <2>. QED  BY <2>3, <2>5, <2>6, <2>7, <2>8 DEF FramesInOrder, Flow!Next
<1>. QED  BY <1>1, <1>2, <1>3

-----------------------------------------------------------------------------
LEMMA QueueInOrder ==
  ASSUME TypeOK, Handover, FramesInOrder, Queue
  PROVE  FramesInOrder' /\ [Flow!Next]_Flow!vars
<1>1. /\ First = Working(counter) /\ First \in Indices /\ Second \in Indices
      /\ After(Second) \in Indices /\ frames \in Frames
  BY Around DEF First
<1>2. ASSUME UNCHANGED <<counter, left, wait, frames>>,
             qpc' = "read" => qpc = "read" /\ qat' = qat,
             qpc' \in {"check", "present"} => qpc \in {"check", "present"}
      PROVE  FramesInOrder' /\ [Flow!Next]_Flow!vars
  BY <1>2, Steady
<1>3. ASSUME qpc = "present", ~Odd(qc), UNCHANGED <<left, wait>>,
             qpc' \in {"idle", "interrupted"},
             frames[Working(qc)].position # Finished,
             NEW format \in {"None", "ARGB32", "YUV"}, NEW image \in BOOLEAN,
             frames' = [frames EXCEPT ![Working(qc)].format = format,
                                      ![Working(qc)].image = image],
             counter' \in {counter, qc + 1}
      PROVE  FramesInOrder' /\ [Flow!Next]_Flow!vars
  <2>1. qc = counter /\ Working(qc) = First
    BY <1>1, <1>3, QueueWorksOn DEF Handover
  <2>2. \A k \in Indices : /\ frames'[k].position = frames[k].position
                           /\ frames'[k].displayed = frames[k].displayed
    BY <1>1, <1>3, <2>1 DEF Frames, Frame
  <2>3. CASE counter' = qc + 1
    BY <1>3, <2>1, <2>2, <2>3, Gives DEF Position
  <2>4. CASE counter' = counter
    <3>1. \A k \in Indices : IsDecoded(frames'[k]) <=> IsDecoded(frames[k])
      BY <2>2 DEF IsDecoded
    <3>. QED  BY <1>1, <1>3, <2>2, <2>4, <3>1, Steady
  <2>. QED  BY <1>3, <2>3, <2>4
<1>4. CASE ReceiveRead
  BY <1>2, <1>4 DEF ReceiveRead, Goes
<1>5. CASE ReceiveOther
  BY <1>2, <1>5 DEF ReceiveOther
<1>6. CASE ReadTimer
  BY <1>2, <1>6 DEF ReadTimer, Goes
<1>7. CASE Load
  BY <1>2, <1>7 DEF Load, Goes
<1>8. CASE Prepare
  BY <1>8, Prepares
<1>9. CASE ReadFrame
  BY <1>9, Reads
<1>10. CASE ReadWaits
  BY <1>2, <1>10 DEF ReadWaits, GoesIdle, Goes
<1>11. CASE ReadFinished
  BY <1>11, ReadsEnd
<1>12. CASE Check
  BY <1>2, <1>12 DEF Check, GoesIdle, Goes
<1>13. CASE Present
  <2>1. PICK format \in Formats :
          frames' = [frames EXCEPT ![Working(qc)].format = format,
                                   ![Working(qc)].image = (format = "ARGB32")]
    BY <1>13 DEF Present
  <2>2. format \in {"None", "ARGB32", "YUV"} /\ (format = "ARGB32") \in BOOLEAN
    BY RingAssumption
  <2>3. /\ qpc = "present" /\ ~Odd(qc) /\ UNCHANGED <<left, wait>> /\ qpc' = "idle"
        /\ frames[Working(qc)].position # Finished /\ counter' = qc + 1
    BY <1>13 DEF Present, GoesIdle, Goes
  <2>. QED  BY <1>3, <2>1, <2>2, <2>3
<1>14. CASE PresentFinished
  BY <1>2, <1>14 DEF PresentFinished, Interrupt, Goes
<1>15. CASE PresentLater
  BY <1>2, <1>15 DEF PresentLater, GoesIdle, Goes
<1>16. ASSUME NEW why \in Failures, PresentFails(why)
       PROVE  FramesInOrder' /\ [Flow!Next]_Flow!vars
  <2>. DEFINE kept == frames[Working(qc)].image /\ why = "transfer"
  <2>1. /\ qpc = "present" /\ ~Odd(qc) /\ UNCHANGED <<left, wait>>
        /\ frames[Working(qc)].position # Finished
        /\ qpc' = "interrupted" /\ counter' \in {counter, qc + 1}
    BY <1>16 DEF PresentFails, Interrupt, Goes
  <2>2. Working(qc) \in Indices
    BY <1>1, <2>1, QueueWorksOn DEF Handover
  <2>3. frames' = [frames EXCEPT ![Working(qc)].format = "None", ![Working(qc)].image = kept]
    BY <1>1, <1>16, <2>2 DEF PresentFails, Frames, Frame
  <2>4. kept \in BOOLEAN  OBVIOUS
  <2>. HIDE DEF kept
  <2>. QED  BY <1>3, <2>1, <2>3, <2>4
<1>. QED
  BY <1>4, <1>5, <1>6, <1>7, <1>8, <1>9, <1>10, <1>11, <1>12, <1>13, <1>14, <1>15, <1>16
     DEF Queue

LEMMA MainInOrder ==
  ASSUME TypeOK, Handover, FramesInOrder, MainSteps \/ Outside
  PROVE  FramesInOrder' /\ Ready' = Ready /\ [Flow!Next]_Flow!vars
<1>1. /\ First \in Indices /\ Second \in Indices /\ After(Second) \in Indices
      /\ frames \in Frames /\ After(Second) \notin {First, Second}
      /\ Painted(counter) \in Indices /\ Painted(counter) \notin {First, Second}
      /\ Odd(counter) => Given(counter) \notin {First, Second}
      /\ Given(counter) \in Indices
  BY Around
<1>2. CASE UNCHANGED <<counter, frames, wait, left, qpc, qat>>
  BY <1>2, Steady
<1>3. CASE MarkDisplayed
  <2>1. /\ UNCHANGED <<counter, wait, left, qpc, qat>> /\ Odd(mc) /\ mc = counter
    BY <1>3 DEF MarkDisplayed, queueVars, Handover, MainKnows
  <2>2. /\ \A k \in Indices \ {Given(counter)} : frames'[k] = frames[k]
        /\ frames'[Given(counter)].position = frames[Given(counter)].position
        /\ frames'[Given(counter)].displayed
    BY <1>1, <1>3, <2>1 DEF MarkDisplayed, Frames, Frame
  <2>3. \A k \in Indices : frames'[k].position = frames[k].position
    BY <2>2
  <2>4. /\ \A k \in {First, Second} : IsDecoded(frames'[k]) <=> IsDecoded(frames[k])
        /\ IsDecoded(frames'[After(Second)]) => IsDecoded(frames[After(Second)])
    BY <1>1, <2>1, <2>2 DEF IsDecoded
  <2>. QED  BY <2>1, <2>3, <2>4, Steady
<1>4. CASE PaintEnds
  <2>1. /\ UNCHANGED <<counter, wait, left, qpc, qat>> /\ Painted(mc) = Painted(counter)
    BY <1>4, MainWorksOn DEF PaintEnds, queueVars, Handover
  <2>2. \A k \in Indices : /\ frames'[k].position = frames[k].position
                           /\ frames'[k].displayed = frames[k].displayed
    BY <1>1, <1>4, <2>1 DEF PaintEnds, Frames, Frame
  <2>3. \A k \in Indices : IsDecoded(frames'[k]) <=> IsDecoded(frames[k])
    BY <2>2 DEF IsDecoded
  <2>. QED  BY <1>1, <2>1, <2>2, <2>3, Steady
<1>5. CASE Show
  BY <1>5, Shows
<1>6. CASE \/ CheckNextFrame \/ Availability \/ RenderTimer \/ AddTimelineDelay
           \/ PostShown \/ VideoFinished \/ StreamFailed
  BY <1>2, <1>6
     DEF CheckNextFrame, Availability, RenderTimer, AddTimelineDelay, PostShown,
         VideoFinished, StreamFailed, queueVars
<1>7. CASE Outside
  BY <1>2, <1>7 DEF Outside, Process, UpdateRequest, MarkShown, Paint, Pause, Resume, queueVars
<1>. QED  BY <1>3, <1>4, <1>5, <1>6, <1>7 DEF MainSteps

LEMMA InitInOrder == Init => FramesInOrder /\ Flow!Init
<1>. SUFFICES ASSUME Init PROVE FramesInOrder /\ Flow!Init
  OBVIOUS
<1>1. TypeOK  BY TypeInit
<1>2. /\ counter = 0 /\ qpc = "idle" /\ wait \in BOOLEAN
      /\ frames[0].position = 1
      /\ \A k \in Indices \ {0} : ~IsDecoded(frames[k])
  BY DEF Init, Indices, kFramesCount, IsDecoded
<1>3. Painted(0) = 0 /\ ~Odd(0)  BY DEF Painted, Odd
<1>4. /\ ~IsDecoded(frames[First]) /\ ~IsDecoded(frames[Second])
      /\ ~IsDecoded(frames[After(Second)])
  BY <1>2 DEF First, Second, Working, After, Indices, kFramesCount
<1>5. Ready = {}
  BY <1>4, InReady
<1>6. Shown = 1 /\ Offered = 0
  BY <1>2, <1>3 DEF Shown, Offered, Position
<1>7. left \subseteq 2 .. Last /\ Last \in Nat
  BY <1>1, RingAssumption DEF TypeOK
<1>8. LaterThanShown
  BY <1>5, <1>6, <1>7 DEF LaterThanShown
<1>9. ReadOnce /\ OneIsLate /\ FilledInTurn /\ FirstIsNext
  BY <1>2, <1>4, <1>5 DEF ReadOnce, OneIsLate, FilledInTurn, FirstIsNext
<1>10. Flow!Init
  BY <1>2, <1>5, <1>6 DEF Flow!Init
<1>. QED  BY <1>8, <1>9, <1>10 DEF FramesInOrder

LEMMA StutterInOrder ==
  ASSUME TypeOK, Handover, FramesInOrder, UNCHANGED vars
  PROVE  FramesInOrder' /\ [Flow!Next]_Flow!vars
<1>1. UNCHANGED <<counter, frames, wait, left, qpc, qat>>
  BY DEF vars, queueVars
<1>. QED  BY <1>1, Steady

(* The frames the queue holds and what the decoder still has are in order. *)
THEOREM OrderHolds == Spec => []FramesInOrder
<1>1. TypeOK /\ Handover /\ FramesInOrder /\ [Next]_vars => FramesInOrder'
  BY QueueInOrder, MainInOrder, StutterInOrder DEF Next
<1>2. Init => FramesInOrder
  BY InitInOrder
<1>. QED  BY <1>1, <1>2, TypeCorrect, HandoverHolds, PTL DEF Spec

(* The ring implements FrameFlow: whoever paints gets frames one at a time *)
(* in their order, each the earliest that is ready, and none is dropped    *)
(* where that was not asked for.                                           *)
THEOREM Implementation == Spec => ImplementsFlow
<1>1. Init => Flow!Init
  BY InitInOrder
<1>2. TypeOK /\ Handover /\ FramesInOrder /\ [Next]_vars => [Flow!Next]_Flow!vars
  BY QueueInOrder, MainInOrder, StutterInOrder DEF Next
<1>. QED
  BY <1>1, <1>2, TypeCorrect, HandoverHolds, OrderHolds, PTL
  DEF Spec, ImplementsFlow, Flow!Spec

-----------------------------------------------------------------------------
(* The end of the track.                                                   *)
LEMMA EndsQueue ==
  ASSUME TypeOK, Handover, FramesInOrder, DoneIsLast, Queue
  PROVE  DoneIsLast'
<1>. DEFINE done == \E k \in DOMAIN inbox : inbox[k] = "done"
<1>1. qpc # "interrupted" /\ UNCHANGED finished
  BY DEF Queue, ReceiveRead, ReceiveOther, Receive, ReadTimer, Load, Prepare, ReadFrame,
     ReadWaits, ReadFinished, Check, Present, PresentFinished, PresentLater, PresentFails, mainVars
<1>2. ~finished /\ ~done
  BY <1>1 DEF DoneIsLast
<1>3. inbox \in Seq(Events)
  BY DEF TypeOK, Events
<1>4. \A e \in {"check", "error"} :
        ~\E k \in DOMAIN Append(inbox, e) : Append(inbox, e)[k] = "done"
  BY <1>2, <1>3
<1>5. CASE inbox' \in {inbox, Append(inbox, "check"), inbox \o <<"error">>,
                       inbox \o <<"error", "check">>}
  <2>1. inbox \o <<"error">> = Append(inbox, "error")
    BY <1>3
  <2>2. inbox \o <<"error", "check">> = Append(Append(inbox, "error"), "check")
    BY <1>3
  <2>3. ~\E k \in DOMAIN Append(Append(inbox, "error"), "check") :
           Append(Append(inbox, "error"), "check")[k] = "done"
    BY <1>2, <1>3
  <2>4. ~\E k \in DOMAIN inbox' : inbox'[k] = "done"
    BY <1>2, <1>4, <1>5, <2>1, <2>2, <2>3
  <2>. QED  BY <1>1, <1>2, <2>4 DEF DoneIsLast
<1>6. CASE PresentFinished
  <2>1. /\ qpc = "present" /\ Position(Working(qc)) = Finished
        /\ UNCHANGED <<counter, frames, left>> /\ qpc' = "interrupted"
    BY <1>6 DEF PresentFinished, Interrupt, Goes, Position
  <2>2. Position(First) = Finished /\ IsDecoded(frames[First])
    BY <2>1, QueueWorksOn DEF Handover, QueueKnows, First
  <2>3. left = {}
    BY <2>2 DEF FramesInOrder, ReadOnce
  <2>4. IsDecoded(frames[Second]) => Position(Second) = Finished
    <3>1. IsDecoded(frames[Second]) => Finished <= Position(Second)
      BY <2>1, <2>2 DEF FramesInOrder, FirstIsNext
    <3>2. Position(Second) \in Unknown .. Finished
      BY Around
    <3>. QED  BY <3>1, <3>2, RingAssumption DEF Unknown, Finished
  <2>5. Ready' = {}
    <3>1. First' = First /\ Second' = Second
      BY <2>1 DEF First, Second
    <3>. QED  BY <2>1, <2>2, <2>4, <3>1, InReady DEF Position
  <2>. QED  BY <2>1, <2>3, <2>5 DEF DoneIsLast
<1>7. CASE UNCHANGED inbox
  BY <1>5, <1>7
<1>8. CASE \/ ReceiveRead \/ ReceiveOther \/ ReadTimer \/ Load \/ Prepare \/ ReadFrame
           \/ ReadWaits \/ ReadFinished \/ Check \/ PresentLater
  BY <1>7, <1>8
     DEF ReceiveRead, ReceiveOther, ReadTimer, Load, Prepare, ReadFrame, ReadWaits,
         ReadFinished, Check, PresentLater
<1>9. CASE Present
  BY <1>5, <1>9 DEF Present
<1>10. ASSUME NEW why \in Failures, PresentFails(why)
       PROVE  DoneIsLast'
  BY <1>5, <1>10 DEF PresentFails, Interrupt
<1>. QED  BY <1>6, <1>8, <1>9, <1>10 DEF Queue

LEMMA EndsMain ==
  ASSUME TypeOK, Handover, FramesInOrder, DoneIsLast, MainSteps \/ Outside
  PROVE  DoneIsLast'
<1>1. Ready' = Ready
  BY MainInOrder
<1>2. inbox \in Seq(Events)
  BY DEF TypeOK, Events
<1>3. /\ left' = left
      /\ qpc = "interrupted" => qpc' = "interrupted"
      /\ inbox' \in {inbox, <<>>} \/ (inbox # <<>> /\ inbox' = Tail(inbox))
      /\ finished' = finished \/ (inbox # <<>> /\ Head(inbox) = "done")
  <2>1. CASE MainSteps
    BY <2>1 DEF MainSteps, CheckNextFrame, Availability, RenderTimer, MarkDisplayed,
       AddTimelineDelay, Show, PostShown, PaintEnds, VideoFinished, StreamFailed, queueVars
  <2>2. CASE Outside
    BY <2>2 DEF Outside, Process, UpdateRequest, MarkShown, Paint, Pause, Resume, queueVars,
       mainVars
  <2>. QED  BY <2>1, <2>2
<1>4. (\E k \in DOMAIN inbox' : inbox'[k] = "done") => \E k \in DOMAIN inbox : inbox[k] = "done"
  <2>1. CASE inbox # <<>> /\ inbox' = Tail(inbox)
    BY <1>2, <2>1
  <2>2. CASE inbox' \in {inbox, <<>>}
    BY <2>2
  <2>. QED  BY <1>3, <2>1, <2>2
<1>5. inbox # <<>> /\ Head(inbox) = "done" => \E k \in DOMAIN inbox : inbox[k] = "done"
  BY <1>2
<1>. QED  BY <1>1, <1>3, <1>4, <1>5 DEF DoneIsLast

(* When the track completes, each frame was given or was dropped as stale. *)
THEOREM EndsWithNothingLeft == Spec => []NothingLeftBehind
<1>1. Init => DoneIsLast
  BY DEF Init, DoneIsLast
<1>2. TypeOK /\ Handover /\ FramesInOrder /\ DoneIsLast /\ [Next]_vars => DoneIsLast'
  <2>. SUFFICES ASSUME TypeOK, Handover, FramesInOrder, DoneIsLast, [Next]_vars
                PROVE  DoneIsLast'
    OBVIOUS
  <2>1. CASE UNCHANGED vars
    <3>1. UNCHANGED <<counter, frames, left, qpc, inbox, finished>>
      BY <2>1 DEF vars, queueVars, mainVars
    <3>. QED  BY <3>1 DEF DoneIsLast, Ready, Position
  <2>. QED  BY <2>1, EndsQueue, EndsMain DEF Next
<1>3. DoneIsLast => NothingLeftBehind
  BY DEF DoneIsLast, NothingLeftBehind
<1>. QED  BY <1>1, <1>2, <1>3, TypeCorrect, HandoverHolds, OrderHolds, PTL DEF Spec

==============================================================================
