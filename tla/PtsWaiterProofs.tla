--------------------------- MODULE PtsWaiterProofs ---------------------------
(***************************************************************************)
(* What the operators of PtsWaiter do to any box and any update: the facts *)
(* the proofs about the boxes' owners rest on.                             *)
(***************************************************************************)
EXTENDS PtsWaiter, FiniteSetTheorems, TLAPS

(* The pts values an update covers are count many, and at most its pts.    *)
LEMMA PointsAreCount ==
  ASSUME NEW u, u.pts \in Nat, u.count \in Nat, u.count <= u.pts
  PROVE  /\ Points(u) \subseteq 1 .. u.pts
         /\ IsFiniteSet(Points(u))
         /\ Cardinality(Points(u)) = u.count
<1>. DEFINE a == u.pts - u.count + 1
<1>1. a \in Int /\ u.pts \in Int /\ Points(u) = a .. u.pts
  BY DEF Points
<1>2. /\ IsFiniteSet(a .. u.pts)
      /\ Cardinality(a .. u.pts) = IF a > u.pts THEN 0 ELSE u.pts - a + 1
  BY <1>1, FS_Interval
<1>3. (IF a > u.pts THEN 0 ELSE u.pts - a + 1) = u.count
  OBVIOUS
<1>4. a .. u.pts \subseteq 1 .. u.pts
  OBVIOUS
<1>. QED  BY <1>1, <1>2, <1>3, <1>4

(* The pts values covered by a union of updates.                           *)
LEMMA PointsOfUnion ==
  ASSUME NEW A, NEW B
  PROVE  PointsOf(A \cup B) = PointsOf(A) \cup PointsOf(B)
BY DEF PointsOf

LEMMA PointsOfSubset ==
  ASSUME NEW A, NEW B, A \subseteq B
  PROVE  PointsOf(A) \subseteq PointsOf(B)
BY DEF PointsOf

LEMMA PointsOfElement ==
  ASSUME NEW A, NEW u \in A
  PROVE  Points(u) \subseteq PointsOf(A)
BY DEF PointsOf

(* The largest pts a box heard of after it counted an update.              *)
LEMMA LargerFacts ==
  ASSUME NEW a \in Nat, NEW b \in Nat
  PROVE  /\ Larger(a, b) \in Nat
         /\ a <= Larger(a, b) /\ b <= Larger(a, b)
         /\ Larger(a, b) \in {a, b}
BY DEF Larger

(* check() of a box with a pts: what is counted, when the known pts moves  *)
(* and when the box starts to wait.                                        *)
LEMMA CheckFacts ==
  ASSUME NEW U, NEW w \in Boxes(U), NEW u, u.pts \in Nat, u.count \in Nat,
         Inited(w)
  PROVE  LET c == Check(w, u) IN
         /\ c \in Boxes(U)
         /\ c.queue = w.queue
         /\ c.requesting = w.requesting
         /\ c.last = Larger(w.last, u.pts)
         /\ c.count = w.count + u.count
         /\ c.last = c.count => c.good = c.last /\ c.waiting = w.waiting
         /\ c.last # c.count => c.good = w.good /\ c.waiting
         /\ InTurn(w, u) <=> c.last = c.count \/ u.count = 0
<1>. DEFINE last == Larger(w.last, u.pts)
<1>1. last \in Nat /\ w.count + u.count \in Nat
  <2>1. w.last \in Nat /\ w.count \in Nat
    BY DEF Boxes
  <2>2. w.count + u.count \in Nat
    BY <2>1
  <2>3. last \in Nat
    BY <2>1, LargerFacts
  <2>. QED  BY <2>2, <2>3
<1>. DEFINE counted == [w EXCEPT !.last = last, !.count = @ + u.count]
<1>2. /\ counted \in Boxes(U)
      /\ counted.last = last /\ counted.count = w.count + u.count
      /\ counted.queue = w.queue /\ counted.requesting = w.requesting
      /\ counted.good = w.good /\ counted.waiting = w.waiting
  BY <1>1 DEF Boxes
<1>3. InTurn(w, u) <=> last = w.count + u.count \/ u.count = 0
  BY DEF InTurn
<1>4. CASE last = w.count + u.count
  <2>1. Check(w, u) = [counted EXCEPT !.good = counted.last]
    BY <1>2, <1>4 DEF Check
  <2>. QED  BY <1>1, <1>2, <1>3, <1>4, <2>1 DEF Boxes
<1>5. CASE last # w.count + u.count
  <2>1. Check(w, u) = [counted EXCEPT !.waiting = TRUE, !.timer = TRUE]
    BY <1>2, <1>5 DEF Check, StartWaiting
  <2>. QED  BY <1>1, <1>2, <1>3, <1>5, <2>1 DEF Boxes
<1>. QED  BY <1>4, <1>5

(* applySkippedUpdates() empties the queue of a box that waits and leaves  *)
(* the counters alone.                                                     *)
LEMMA FlushFacts ==
  ASSUME NEW U, NEW w \in Boxes(U)
  PROVE  LET f == Flush(w) IN
         /\ f \in Boxes(U)
         /\ f.good = w.good /\ f.last = w.last /\ f.count = w.count
         /\ f.requesting = w.requesting
         /\ w.waiting => f.queue = {} /\ Flushed(w) = w.queue
         /\ ~w.waiting => f = w /\ Flushed(w) = {}
<1>1. CASE w.waiting
  <2>1. Flush(w) = [w EXCEPT !.waiting = FALSE, !.timer = @ /\ w.polling, !.queue = {}]
    BY <1>1 DEF Flush, StopWaiting
  <2>. QED  BY <1>1, <2>1 DEF Flushed, Boxes
<1>2. CASE ~w.waiting
  BY <1>2 DEF Flush, Flushed
<1>. QED  BY <1>1, <1>2

LEMMA PutFacts ==
  ASSUME NEW U, NEW w \in Boxes(U), NEW u \in U
  PROVE  LET p == Put(w, u) IN
         /\ p \in Boxes(U)
         /\ p.queue = w.queue \cup {u}
         /\ p.good = w.good /\ p.last = w.last /\ p.count = w.count
         /\ p.requesting = w.requesting /\ p.waiting = w.waiting
BY DEF Put, Boxes

(* An update that is let through is applied, together with everything that *)
(* was saved: nothing stays in the queue.                                  *)
LEMMA ApplyingFacts ==
  ASSUME NEW U, NEW w \in Boxes(U), NEW u \in U,
         w.queue # {} => w.waiting
  PROVE  LET d == Applying(w, u) IN
         /\ d.box \in Boxes(U)
         /\ d.box.good = w.good /\ d.box.last = w.last
         /\ d.box.count = w.count /\ d.box.requesting = w.requesting
         /\ d.box.queue = {}
         /\ d.out = w.queue \cup {u}
<1>1. CASE w.queue # {}
  <2>1. Applying(w, u) = [box |-> Flush(w), out |-> Flushed(Put(w, u))]
    BY <1>1 DEF Applying
  <2>2. Flushed(Put(w, u)) = w.queue \cup {u}
    BY <1>1, PutFacts DEF Flushed
  <2>. QED  BY <1>1, <2>1, <2>2, FlushFacts
<1>2. CASE w.queue = {}
  <2>1. Applying(w, u) = [box |-> w, out |-> {u}]
    BY <1>2 DEF Applying
  <2>. QED  BY <1>2, <2>1
<1>. QED  BY <1>1, <1>2

(* updateAndApply() with a payload: an update that counts is counted and   *)
(* either saved or applied with everything saved before it; the known pts  *)
(* moves only when nothing is saved any more.                              *)
LEMMA UpdateAndApplyFacts ==
  ASSUME NEW U, NEW w \in Boxes(U), NEW u \in U,
         u.pts \in Nat, u.count \in Nat,
         w.queue # {} => w.waiting,
         w.requesting \/ Inited(w)
  PROVE  LET d == UpdateAndApply(w, u) IN
         /\ d.box \in Boxes(U)
         /\ d.box.requesting = w.requesting
         /\ d.out \subseteq w.queue \cup {u}
         /\ d.box.queue \subseteq w.queue \cup {u}
         /\ d.box.queue # {} => d.box.waiting
         /\ w.queue \subseteq d.box.queue \cup d.out
         /\ ~Counts(w, u) => /\ d.box.good = w.good
                             /\ d.box.last = w.last
                             /\ d.box.count = w.count
         /\ Counts(w, u) => /\ d.box.last = Larger(w.last, u.pts)
                            /\ d.box.count = w.count + u.count
                            /\ u \in d.box.queue \cup d.out
                            /\ d.box.last = d.box.count =>
                                 d.box.good = d.box.last /\ d.box.queue = {}
                            /\ d.box.last # d.box.count => d.box.good = w.good
<1>1. CASE w.requesting
  <2>1. ~Counts(w, u)
    BY <1>1 DEF Counts
  <2>2. UpdateAndApply(w, u) = Applying(w, u)
    BY <1>1, <2>1 DEF UpdateAndApply
  <2>. DEFINE d == Applying(w, u)
  <2>3. /\ d.box \in Boxes(U)
        /\ d.box.good = w.good /\ d.box.last = w.last
        /\ d.box.count = w.count /\ d.box.requesting = w.requesting
        /\ d.box.queue = {}
        /\ d.out = w.queue \cup {u}
    BY ApplyingFacts
  <2>. HIDE DEF d
  <2>4. UpdateAndApply(w, u) = d
    BY <2>2 DEF d
  <2>. QED  BY <2>1, <2>3, <2>4
<1>2. CASE Counts(w, u) /\ InTurn(w, u)
  <2>1. ~w.requesting
    BY <1>2 DEF Counts
  <2>2. UpdateAndApply(w, u) = Applying(Check(w, u), u)
    BY <1>2, <2>1 DEF UpdateAndApply
  <2>3. /\ Check(w, u) \in Boxes(U)
        /\ Check(w, u).queue = w.queue
        /\ Check(w, u).requesting = w.requesting
        /\ Check(w, u).last = Larger(w.last, u.pts)
        /\ Check(w, u).count = w.count + u.count
        /\ Check(w, u).last = Check(w, u).count =>
             Check(w, u).good = Check(w, u).last /\ Check(w, u).waiting = w.waiting
        /\ Check(w, u).last # Check(w, u).count =>
             Check(w, u).good = w.good /\ Check(w, u).waiting
    BY <2>1, CheckFacts
  <2>4. Check(w, u).queue # {} => Check(w, u).waiting
    BY <2>3
  <2>. DEFINE c == Check(w, u)
              d == Applying(c, u)
  <2>. HIDE DEF c
  <2>5. /\ d.box \in Boxes(U)
        /\ d.box.good = c.good /\ d.box.last = c.last
        /\ d.box.count = c.count /\ d.box.requesting = c.requesting
        /\ d.box.queue = {}
        /\ d.out = c.queue \cup {u}
    BY <2>3, <2>4, ApplyingFacts DEF c
  <2>. HIDE DEF d
  <2>6. UpdateAndApply(w, u) = d
    BY <2>2 DEF d, c
  <2>. QED  BY <1>2, <2>3, <2>5, <2>6 DEF c
<1>3. CASE Counts(w, u) /\ ~InTurn(w, u)
  <2>1. ~w.requesting
    BY <1>3 DEF Counts
  <2>. DEFINE c == Check(w, u)
              p == Put(c, u)
  <2>2. UpdateAndApply(w, u) = [box |-> p, out |-> {}]
    BY <1>3, <2>1 DEF UpdateAndApply
  <2>3. /\ c \in Boxes(U)
        /\ c.queue = w.queue
        /\ c.requesting = w.requesting
        /\ c.last = Larger(w.last, u.pts)
        /\ c.count = w.count + u.count
        /\ c.last # c.count
        /\ c.good = w.good /\ c.waiting
    BY <1>3, <2>1, CheckFacts
  <2>. HIDE DEF c
  <2>4. /\ p \in Boxes(U)
        /\ p.queue = c.queue \cup {u}
        /\ p.good = c.good /\ p.last = c.last /\ p.count = c.count
        /\ p.requesting = c.requesting /\ p.waiting = c.waiting
    BY <2>3, PutFacts
  <2>. HIDE DEF p
  <2>5. /\ UpdateAndApply(w, u).box = p
        /\ UpdateAndApply(w, u).out = {}
    BY <2>2
  <2>. QED  BY <1>3, <2>3, <2>4, <2>5
<1>4. CASE ~w.requesting /\ ~Counts(w, u)
  <2>1. UpdateAndApply(w, u) = [box |-> w, out |-> {}]
    BY <1>4 DEF UpdateAndApply
  <2>2. UpdateAndApply(w, u).box = w /\ UpdateAndApply(w, u).out = {}
    BY <2>1
  <2>. QED  BY <1>4, <2>2
<1>. QED  BY <1>1, <1>2, <1>3, <1>4

(* updateAndApply() of a bare pts counts the same way; it saves nothing and *)
(* applies what was saved when it is let through.                          *)
LEMMA UpdateAndApplyPtsFacts ==
  ASSUME NEW U, NEW w \in Boxes(U), NEW u,
         u.pts \in Nat, u.count \in Nat,
         w.queue # {} => w.waiting,
         w.requesting \/ Inited(w)
  PROVE  LET d == UpdateAndApplyPts(w, u) IN
         /\ d.box \in Boxes(U)
         /\ d.box.requesting = w.requesting
         /\ d.out \subseteq w.queue
         /\ d.box.queue \subseteq w.queue
         /\ d.box.queue # {} => d.box.waiting
         /\ w.queue \subseteq d.box.queue \cup d.out
         /\ ~Counts(w, u) => /\ d.box.good = w.good
                             /\ d.box.last = w.last
                             /\ d.box.count = w.count
         /\ Counts(w, u) => /\ d.box.last = Larger(w.last, u.pts)
                            /\ d.box.count = w.count + u.count
                            /\ d.box.last = d.box.count =>
                                 d.box.good = d.box.last /\ d.box.queue = {}
                            /\ d.box.last # d.box.count => d.box.good = w.good
<1>1. CASE w.requesting
  <2>1. ~Counts(w, u)
    BY <1>1 DEF Counts
  <2>2. UpdateAndApplyPts(w, u) = [box |-> Flush(w), out |-> Flushed(w)]
    BY <1>1, <2>1 DEF UpdateAndApplyPts
  <2>3. /\ UpdateAndApplyPts(w, u).box = Flush(w)
        /\ UpdateAndApplyPts(w, u).out = Flushed(w)
    BY <2>2
  <2>. QED  BY <2>1, <2>3, FlushFacts
<1>2. CASE Counts(w, u)
  <2>. DEFINE c == Check(w, u)
              f == Flush(c)
              out == Flushed(c)
  <2>1. ~w.requesting
    BY <1>2 DEF Counts
  <2>2. /\ c \in Boxes(U)
        /\ c.queue = w.queue
        /\ c.requesting = w.requesting
        /\ c.last = Larger(w.last, u.pts)
        /\ c.count = w.count + u.count
        /\ c.last = c.count => c.good = c.last /\ c.waiting = w.waiting
        /\ c.last # c.count => c.good = w.good /\ c.waiting
        /\ InTurn(w, u) <=> c.last = c.count \/ u.count = 0
    BY <2>1, CheckFacts
  <2>3. CASE InTurn(w, u)
    <3>1. UpdateAndApplyPts(w, u) = [box |-> f, out |-> out]
      BY <1>2, <2>1, <2>3 DEF UpdateAndApplyPts
    <3>2. /\ UpdateAndApplyPts(w, u).box = f
          /\ UpdateAndApplyPts(w, u).out = out
      BY <3>1
    <3>. HIDE DEF c
    <3>3. /\ f \in Boxes(U)
          /\ f.good = c.good /\ f.last = c.last /\ f.count = c.count
          /\ f.requesting = c.requesting
          /\ c.waiting => f.queue = {} /\ out = c.queue
          /\ ~c.waiting => f = c /\ out = {}
      BY <2>2, FlushFacts
    <3>4. ~c.waiting => c.queue = {}
      BY <2>2
    <3>. HIDE DEF f, out
    <3>. QED  BY <1>2, <2>2, <3>2, <3>3, <3>4
  <2>4. CASE ~InTurn(w, u)
    <3>1. UpdateAndApplyPts(w, u) = [box |-> c, out |-> {}]
      BY <1>2, <2>1, <2>4 DEF UpdateAndApplyPts
    <3>2. /\ UpdateAndApplyPts(w, u).box = c
          /\ UpdateAndApplyPts(w, u).out = {}
      BY <3>1
    <3>. HIDE DEF c
    <3>. QED  BY <1>2, <2>2, <2>4, <3>2
  <2>. QED  BY <2>3, <2>4
<1>3. CASE ~w.requesting /\ ~Counts(w, u)
  <2>1. UpdateAndApplyPts(w, u) = [box |-> w, out |-> {}]
    BY <1>3 DEF UpdateAndApplyPts
  <2>2. UpdateAndApplyPts(w, u).box = w /\ UpdateAndApplyPts(w, u).out = {}
    BY <2>1
  <2>. QED  BY <1>3, <2>2
<1>. QED  BY <1>1, <1>2, <1>3

-----------------------------------------------------------------------------
(* The heart of the arguments about the boxes.  The box counts pts values  *)
(* above b, those in H so far, each once.  It counts an update whose pts   *)
(* values are not in H: the counter still is b and their number, and when  *)
(* it equals the largest of them there is no hole.                         *)
LEMMA Counting ==
  ASSUME NEW U, NEW w \in Boxes(U), NEW b \in Nat, NEW top \in Nat, NEW H, NEW u,
         u.pts \in Nat, u.count \in Nat, u.count <= u.pts, u.pts <= top,
         b <= w.good, w.good <= w.last, w.last <= top,
         H \subseteq (b + 1) .. w.last,
         w.count = b + Cardinality(H),
         u.pts <= b \/ b <= u.pts - u.count,
         Points(u) \cap H = {},
         Counts(w, u)
  PROVE  LET h == H \cup Points(u)
             last == Larger(w.last, u.pts)
             count == w.count + u.count
         IN  /\ last \in Nat /\ w.last <= last /\ last <= top
             /\ h \subseteq (b + 1) .. last
             /\ count = b + Cardinality(h)
             /\ last = count => h = (b + 1) .. last
<1>. DEFINE h == H \cup Points(u)
            last == Larger(w.last, u.pts)
<1>1. w.last \in Nat /\ w.good \in Nat /\ w.count \in Nat
  BY DEF Boxes
<1>2. IsFiniteSet(Points(u)) /\ Cardinality(Points(u)) = u.count
  BY PointsAreCount
<1>3. /\ last \in Nat /\ w.last <= last /\ u.pts <= last
      /\ last \in {w.last, u.pts}
  BY <1>1, LargerFacts
<1>4. last <= top
  BY <1>3
<1>5. Points(u) \subseteq (b + 1) .. last
  <2>1. CASE u.count = 0
    BY <2>1 DEF Points
  <2>2. CASE u.count # 0
    <3>1. u.pts > w.good
      BY <1>1, <2>2 DEF Counts, Outdated
    <3>2. b <= u.pts - u.count
      BY <1>1, <3>1
    <3>. QED  BY <1>1, <1>3, <3>2 DEF Points
  <2>. QED  BY <2>1, <2>2
<1>6. h \subseteq (b + 1) .. last
  <2>1. (b + 1) .. w.last \subseteq (b + 1) .. last
    BY <1>1, <1>3
  <2>. QED  BY <1>5, <2>1
<1>7. IsFiniteSet(H) /\ Cardinality(H) \in Nat
  <2>1. b + 1 \in Int /\ w.last \in Int
    BY <1>1
  <2>2. IsFiniteSet((b + 1) .. w.last)
    BY <2>1, FS_Interval
  <2>. QED  BY <2>2, FS_Subset, FS_CardinalityType
<1>8. IsFiniteSet(h) /\ Cardinality(h) = Cardinality(H) + u.count
  <2>1. Cardinality(H \cap Points(u)) = 0
    BY FS_EmptySet
  <2>2. /\ IsFiniteSet(h)
        /\ Cardinality(h) = Cardinality(H) + Cardinality(Points(u))
                            - Cardinality(H \cap Points(u))
    BY <1>2, <1>7, FS_Union
  <2>. QED  BY <1>2, <1>7, <2>1, <2>2
<1>9. w.count + u.count = b + Cardinality(h)
  BY <1>7, <1>8
<1>10. ASSUME last = w.count + u.count
       PROVE  h = (b + 1) .. last
  <2>1. b + 1 \in Int /\ last \in Int
    BY <1>3
  <2>2. /\ IsFiniteSet((b + 1) .. last)
        /\ Cardinality((b + 1) .. last) =
             IF b + 1 > last THEN 0 ELSE last - (b + 1) + 1
    BY <2>1, FS_Interval
  <2>3. Cardinality(h) = last - b /\ Cardinality(h) \in Nat
    BY <1>3, <1>7, <1>8, <1>9, <1>10
  <2>4. Cardinality((b + 1) .. last) = Cardinality(h)
    BY <1>3, <2>2, <2>3
  <2>. QED  BY <1>6, <2>2, <2>4, FS_Subset
<1>. QED  BY <1>3, <1>4, <1>6, <1>9, <1>10

-----------------------------------------------------------------------------
(* The timer of a box.                                                     *)

\* A box that does not ask waits for the gap it knows of.
GapWaits(w) == w.last # w.count /\ ~w.requesting => w.waiting /\ w.timer

\* The short poll has its timer as before.
PollStays(w, v) == v.polling = w.polling /\ (w.polling /\ w.timer => v.timer)

LEMMA FlushTimes ==
  ASSUME NEW U, NEW w \in Boxes(U)
  PROVE  PollStays(w, Flush(w))
BY DEF PollStays, Flush, StopWaiting, Boxes

LEMMA ApplyingTimes ==
  ASSUME NEW U, NEW w \in Boxes(U), NEW u
  PROVE  LET d == Applying(w, u) IN
         /\ PollStays(w, d.box)
         /\ d.box.last = w.last /\ d.box.count = w.count
         /\ d.box.requesting = w.requesting
<1>1. PollStays(w, Flush(w)) /\ PollStays(w, w)
  BY FlushTimes DEF PollStays
<1>2. /\ Flush(w).last = w.last /\ Flush(w).count = w.count
      /\ Flush(w).requesting = w.requesting
  BY FlushFacts
<1>3. Applying(w, u).box \in {w, Flush(w)}
  BY DEF Applying
<1>. QED  BY <1>1, <1>2, <1>3

LEMMA CheckTimes ==
  ASSUME NEW U, NEW w \in Boxes(U), NEW u, u.pts \in Nat, u.count \in Nat,
         Inited(w)
  PROVE  LET c == Check(w, u) IN
         PollStays(w, c) /\ (c.last # c.count => c.waiting /\ c.timer)
<1>. DEFINE last == Larger(w.last, u.pts)
            counted == [w EXCEPT !.last = last, !.count = @ + u.count]
<1>1. last \in Nat /\ w.count + u.count \in Nat
  <2>1. w.last \in Nat /\ w.count \in Nat
    BY DEF Boxes
  <2>2. last \in Nat
    BY <2>1, LargerFacts
  <2>. QED  BY <2>1, <2>2
<1>2. /\ counted \in Boxes(U)
      /\ counted.last = last /\ counted.count = w.count + u.count
      /\ counted.polling = w.polling /\ counted.timer = w.timer
  BY <1>1 DEF Boxes
<1>3. CASE last = w.count + u.count
  <2>1. Check(w, u) = [counted EXCEPT !.good = counted.last]
    BY <1>2, <1>3 DEF Check
  <2>. HIDE DEF counted
  <2>. QED  BY <1>2, <1>3, <2>1 DEF Boxes, PollStays
<1>4. CASE last # w.count + u.count
  <2>1. Check(w, u) = [counted EXCEPT !.waiting = TRUE, !.timer = TRUE]
    BY <1>2, <1>4 DEF Check, StartWaiting
  <2>. HIDE DEF counted
  <2>. QED  BY <1>2, <2>1 DEF Boxes, PollStays
<1>. QED  BY <1>3, <1>4

(* An update that takes pts ends the wait for a gap only with the gap, and *)
(* never the short poll.                                                   *)
LEMMA UpdateAndApplyTimes ==
  ASSUME NEW U, NEW w \in Boxes(U), NEW u \in U,
         u.pts \in Nat, u.count \in Nat, u.count # 0,
         w.requesting \/ Inited(w), GapWaits(w)
  PROVE  LET d == UpdateAndApply(w, u) IN
         PollStays(w, d.box) /\ GapWaits(d.box)
<1>. DEFINE c == Check(w, u)
<1>1. ~w.requesting => /\ c \in Boxes(U)
                       /\ PollStays(w, c)
                       /\ c.last # c.count => c.waiting /\ c.timer
                       /\ InTurn(w, u) <=> c.last = c.count
  BY CheckFacts, CheckTimes
<1>2. CASE w.requesting
  <2>1. UpdateAndApply(w, u) = Applying(w, u)
    BY <1>2 DEF UpdateAndApply, Counts
  <2>. DEFINE d == Applying(w, u)
  <2>2. PollStays(w, d.box) /\ d.box.requesting
    BY <1>2, ApplyingTimes
  <2>. HIDE DEF d
  <2>3. UpdateAndApply(w, u) = d
    BY <2>1 DEF d
  <2>. QED  BY <2>2, <2>3 DEF GapWaits
<1>3. CASE Counts(w, u) /\ InTurn(w, u)
  <2>1. ~w.requesting
    BY <1>3 DEF Counts
  <2>2. UpdateAndApply(w, u) = Applying(c, u)
    BY <1>3, <2>1 DEF UpdateAndApply
  <2>. DEFINE d == Applying(c, u)
  <2>. HIDE DEF c
  <2>3. /\ PollStays(c, d.box)
        /\ d.box.last = c.last /\ d.box.count = c.count
    BY <1>1, <2>1, ApplyingTimes
  <2>. HIDE DEF d
  <2>4. UpdateAndApply(w, u) = d
    BY <2>2 DEF d
  <2>. QED  BY <1>1, <1>3, <2>1, <2>3, <2>4 DEF GapWaits, PollStays
<1>4. CASE Counts(w, u) /\ ~InTurn(w, u)
  <2>1. ~w.requesting
    BY <1>4 DEF Counts
  <2>. DEFINE p == Put(c, u)
  <2>2. UpdateAndApply(w, u) = [box |-> p, out |-> {}]
    BY <1>4, <2>1 DEF UpdateAndApply
  <2>. HIDE DEF c
  <2>3. /\ p.polling = c.polling /\ p.timer = c.timer /\ p.waiting = c.waiting
        /\ p.last = c.last /\ p.count = c.count
    BY <1>1, <2>1 DEF Put, Boxes
  <2>. HIDE DEF p
  <2>4. UpdateAndApply(w, u).box = p
    BY <2>2
  <2>. QED  BY <1>1, <2>1, <2>3, <2>4 DEF GapWaits, PollStays
<1>5. CASE ~w.requesting /\ ~Counts(w, u)
  <2>1. UpdateAndApply(w, u) = [box |-> w, out |-> {}]
    BY <1>5 DEF UpdateAndApply
  <2>2. UpdateAndApply(w, u).box = w
    BY <2>1
  <2>. QED  BY <2>2 DEF PollStays
<1>. QED  BY <1>2, <1>3, <1>4, <1>5

LEMMA UpdateAndApplyPtsTimes ==
  ASSUME NEW U, NEW w \in Boxes(U), NEW u,
         u.pts \in Nat, u.count \in Nat, u.count # 0,
         w.requesting \/ Inited(w), GapWaits(w)
  PROVE  LET d == UpdateAndApplyPts(w, u) IN
         PollStays(w, d.box) /\ GapWaits(d.box)
<1>. DEFINE c == Check(w, u)
<1>1. ~w.requesting => /\ c \in Boxes(U)
                       /\ PollStays(w, c)
                       /\ c.last # c.count => c.waiting /\ c.timer
                       /\ InTurn(w, u) <=> c.last = c.count
  BY CheckFacts, CheckTimes
<1>2. CASE w.requesting
  <2>1. UpdateAndApplyPts(w, u) = [box |-> Flush(w), out |-> Flushed(w)]
    BY <1>2 DEF UpdateAndApplyPts, Counts
  <2>2. UpdateAndApplyPts(w, u).box = Flush(w)
    BY <2>1
  <2>3. PollStays(w, Flush(w)) /\ Flush(w).requesting
    BY <1>2, FlushTimes, FlushFacts
  <2>. QED  BY <2>2, <2>3 DEF GapWaits
<1>3. CASE Counts(w, u) /\ InTurn(w, u)
  <2>1. ~w.requesting
    BY <1>3 DEF Counts
  <2>. DEFINE f == Flush(c)
  <2>2. UpdateAndApplyPts(w, u) = [box |-> f, out |-> Flushed(c)]
    BY <1>3, <2>1 DEF UpdateAndApplyPts
  <2>3. UpdateAndApplyPts(w, u).box = f
    BY <2>2
  <2>. HIDE DEF c
  <2>4. PollStays(c, f) /\ f.last = c.last /\ f.count = c.count
    BY <1>1, <2>1, FlushTimes, FlushFacts
  <2>. HIDE DEF f
  <2>. QED  BY <1>1, <1>3, <2>1, <2>3, <2>4 DEF GapWaits, PollStays
<1>4. CASE Counts(w, u) /\ ~InTurn(w, u)
  <2>1. ~w.requesting
    BY <1>4 DEF Counts
  <2>2. UpdateAndApplyPts(w, u) = [box |-> c, out |-> {}]
    BY <1>4, <2>1 DEF UpdateAndApplyPts
  <2>3. UpdateAndApplyPts(w, u).box = c
    BY <2>2
  <2>. HIDE DEF c
  <2>. QED  BY <1>1, <2>1, <2>3 DEF GapWaits
<1>5. CASE ~w.requesting /\ ~Counts(w, u)
  <2>1. UpdateAndApplyPts(w, u) = [box |-> w, out |-> {}]
    BY <1>5 DEF UpdateAndApplyPts
  <2>2. UpdateAndApplyPts(w, u).box = w
    BY <2>1
  <2>. QED  BY <2>2 DEF PollStays
<1>. QED  BY <1>2, <1>3, <1>4, <1>5

(* A box that does not ask applies something only with an update that      *)
(* counts and closes the gap.                                              *)
LEMMA AppliesInTurn ==
  ASSUME NEW U, NEW w \in Boxes(U), NEW u, u.pts \in Nat, u.count \in Nat,
         u.count # 0, Inited(w), ~w.requesting
  PROVE  /\ UpdateAndApply(w, u).out # {} =>
              Counts(w, u) /\ Check(w, u).last = Check(w, u).count
         /\ UpdateAndApplyPts(w, u).out # {} =>
              Counts(w, u) /\ Check(w, u).last = Check(w, u).count
<1>1. InTurn(w, u) <=> Check(w, u).last = Check(w, u).count
  BY CheckFacts
<1>2. ASSUME ~(Counts(w, u) /\ InTurn(w, u))
      PROVE  UpdateAndApply(w, u).out = {} /\ UpdateAndApplyPts(w, u).out = {}
  BY <1>2 DEF UpdateAndApply, UpdateAndApplyPts
<1>. QED  BY <1>1, <1>2

=============================================================================
