---------------------------- MODULE UpdatesProofs ----------------------------
(***************************************************************************)
(* IInv is an inductive invariant of Updates for every StartPts, MaxPts    *)
(* and PtsCounts, zero pts_counts included; so nothing below the known pts *)
(* is ever skipped and the box implements UpdateLog.                       *)
(*                                                                         *)
(* The heart of the argument is the lemma Counting, used in CountingStep:  *)
(* the updates of the log cover disjoint runs of pts, so _count tells how  *)
(* many pts above base were heard, and _count = _last can only be when all *)
(* of them were.                                                           *)
(***************************************************************************)
EXTENDS Updates, PtsWaiterProofs

LEMMA LogUpdate ==
  ASSUME TypeOK, LogIsOrdered, NEW u \in log
  PROVE  /\ u \in Updates
         /\ u.pts \in Nat /\ u.count \in Nat
         /\ u.count <= u.pts /\ u.pts <= spts
         /\ Points(u) \subseteq 1 .. spts
         /\ IsFiniteSet(Points(u)) /\ Cardinality(Points(u)) = u.count
<1>1. u \in Updates /\ u.pts \in Nat /\ u.count \in Nat /\ spts \in Nat
  BY DEF TypeOK, Updates
<1>2. u.count <= u.pts /\ u.pts <= spts
  BY <1>1, ConstantsAssumption DEF LogIsOrdered
<1>3. /\ Points(u) \subseteq 1 .. u.pts
      /\ IsFiniteSet(Points(u)) /\ Cardinality(Points(u)) = u.count
  BY <1>1, <1>2, PointsAreCount
<1>4. 1 .. u.pts \subseteq 1 .. spts
  BY <1>1, <1>2
<1>. QED  BY <1>1, <1>2, <1>3, <1>4

(* What UpdateLog asks of every step: the known pts and what reached the   *)
(* data only grow.                                                         *)
Grows ==
  /\ box.good <= box'.good
  /\ applied \subseteq applied'

LEMMA PointsOfLog ==
  ASSUME TypeOK, LogIsOrdered, NEW U, U \subseteq log
  PROVE  PointsOf(U) \subseteq 1 .. spts
<1>1. \A u \in U : Points(u) \subseteq 1 .. spts
  BY LogUpdate
<1>. QED  BY <1>1 DEF PointsOf

(* Different updates of the log cover different pts.                       *)
LEMMA LogIsDisjoint ==
  ASSUME TypeOK, LogIsOrdered, NEW u \in log, NEW v \in log, u # v
  PROVE  Points(u) \cap Points(v) = {}
<1>1. u.pts \in Nat /\ u.count \in Nat /\ v.pts \in Nat /\ v.count \in Nat
  BY LogUpdate
<1>2. Before(u, v) \/ Before(v, u)
  BY DEF LogIsOrdered
<1>. QED  BY <1>1, <1>2 DEF Before, Points

(* Counting an update that is on its way: the counter still tells how many *)
(* pts above base were heard, and when it equals the largest of them there *)
(* is no hole.                                                             *)
LEMMA CountingStep ==
  ASSUME TypeOK, LogIsOrdered, CountIsHeard,
         NEW u \in net, Counts(box, u)
  PROVE  LET h == heard \cup Points(u)
             last == Larger(box.last, u.pts)
             count == box.count + u.count
         IN  /\ last \in Nat /\ box.last <= last /\ last <= spts
             /\ h \subseteq (base + 1) .. last
             /\ count = base + Cardinality(h)
             /\ last = count => h = (base + 1) .. last
<1>1. box \in Boxes(Updates) /\ base \in Nat /\ spts \in Nat /\ u \in log
  BY DEF TypeOK
<1>2. u.pts \in Nat /\ u.count \in Nat /\ u.count <= u.pts /\ u.pts <= spts
  BY <1>1, LogUpdate
<1>3. /\ base <= box.good /\ box.good <= box.last /\ box.last <= spts
      /\ heard \subseteq (base + 1) .. box.last
      /\ box.count = base + Cardinality(heard)
      /\ u.pts <= base \/ base <= u.pts - u.count
      /\ Points(u) \cap heard = {}
  BY <1>1 DEF CountIsHeard, IsBoundary
<1>. QED  BY <1>1, <1>2, <1>3, Counting

-----------------------------------------------------------------------------
(* One update of net handed to the box, with or without a payload: out is  *)
(* what the box applied and own what the caller applied itself.            *)
LEMMA FeedStep ==
  ASSUME IInv,
         NEW u \in net, NEW out, NEW own,
         own \in {{}, Points(u)},
         net' = net \ {u},
         box' \in Boxes(Updates),
         box'.requesting = box.requesting,
         out \subseteq box.queue \cup {u},
         box'.queue \subseteq box.queue \cup {u},
         box'.queue # {} => box'.waiting,
         box.queue \subseteq box'.queue \cup out,
         ~Counts(box, u) => /\ box'.good = box.good
                            /\ box'.last = box.last
                            /\ box'.count = box.count,
         Counts(box, u) => /\ box'.last = Larger(box.last, u.pts)
                           /\ box'.count = box.count + u.count
                           /\ u \in box'.queue \cup out \/ own = Points(u)
                           /\ box'.last = box'.count =>
                                box'.good = box'.last /\ box'.queue = {}
                           /\ box'.last # box'.count => box'.good = box.good,
         heard' = IF Counts(box, u) THEN heard \cup Points(u) ELSE heard,
         applied' = applied \cup PointsOf(out) \cup own,
         again' = again \cup (applied \cap PointsOf(out)),
         UNCHANGED <<base, failTimer, diff, server>>
  PROVE  IInv' /\ Grows
<1>. USE DEF server
<1>1. TypeOK /\ LogIsOrdered /\ CountIsHeard /\ HeardIsKept /\ AskedFromGood
      /\ AppliedIsProduced /\ NothingSkipped
  BY DEF IInv
<1>2. /\ u \in log /\ out \subseteq log /\ box'.queue \subseteq log
  BY <1>1 DEF TypeOK, HeardIsKept
<1>3. /\ box.good \in Nat /\ box.last \in Nat /\ box.count \in Nat
      /\ base \in Nat /\ spts \in Nat
      /\ box'.good \in Nat /\ box'.last \in Nat /\ box'.count \in Nat
  BY <1>1 DEF TypeOK, Boxes
<1>4. Points(u) \subseteq 1 .. spts /\ PointsOf(out) \subseteq 1 .. spts
  BY <1>1, <1>2, LogUpdate, PointsOfLog
<1>5. /\ box.last <= box'.last /\ box'.last <= spts
      /\ heard' \subseteq (base + 1) .. box'.last
      /\ box'.count = base + Cardinality(heard')
      /\ Counts(box, u) /\ box'.last = box'.count => heard' = (base + 1) .. box'.last
  <2>1. CASE Counts(box, u)
    BY <1>1, <2>1, CountingStep
  <2>2. CASE ~Counts(box, u)
    BY <1>1, <1>3, <2>2 DEF CountIsHeard
  <2>. QED  BY <2>1, <2>2
<1>6. heard' \subseteq heard \cup Points(u)
  OBVIOUS
<1>7. applied' \subseteq 1 .. spts
  BY <1>1, <1>4 DEF AppliedIsProduced
<1>8. TypeOK'
  <2>1. 1 .. spts \subseteq Nat
    BY <1>3
  <2>2. heard \subseteq Nat /\ applied \subseteq Nat /\ again \subseteq Nat
    BY <1>1 DEF TypeOK
  <2>3. heard' \subseteq Nat /\ applied' \subseteq Nat /\ again' \subseteq Nat
    BY <1>4, <1>6, <1>7, <2>1, <2>2
  <2>. QED  BY <1>1, <2>3 DEF TypeOK
<1>9. LogIsOrdered'
  BY <1>1 DEF LogIsOrdered, Before
<1>10. box.good <= box'.good /\ box'.good <= box'.last
  BY <1>1, <1>3, <1>5 DEF CountIsHeard
<1>11. CountIsHeard'
  <2>1. \A v \in net' : Points(v) \cap heard' = {}
    <3>. SUFFICES ASSUME NEW v \in net'
                  PROVE  Points(v) \cap heard' = {}
      OBVIOUS
    <3>1. v \in net /\ v \in log /\ v # u
      BY <1>1 DEF TypeOK
    <3>2. Points(v) \cap Points(u) = {}
      BY <1>1, <1>2, <3>1, LogIsDisjoint
    <3>3. Points(v) \cap heard = {}
      BY <1>1, <3>1 DEF CountIsHeard
    <3>. QED  BY <1>6, <3>2, <3>3
  <2>2. base' <= box'.good
    BY <1>1, <1>3, <1>10 DEF CountIsHeard
  <2>3. IsBoundary(base)'
    BY <1>1 DEF CountIsHeard, IsBoundary
  <2>. QED  BY <1>5, <1>10, <2>1, <2>2, <2>3 DEF CountIsHeard
<1>12. HeardIsKept'
  <2>1. ASSUME ~box.requesting
        PROVE  heard' \subseteq applied' \cup PointsOf(box'.queue)
    <3>1. PointsOf(box.queue) \subseteq PointsOf(box'.queue) \cup PointsOf(out)
      <4>1. PointsOf(box.queue) \subseteq PointsOf(box'.queue \cup out)
        BY PointsOfSubset
      <4>. QED  BY <4>1, PointsOfUnion
    <3>2. heard \subseteq applied' \cup PointsOf(box'.queue)
      BY <1>1, <2>1, <3>1 DEF HeardIsKept
    <3>3. Counts(box, u) => Points(u) \subseteq applied' \cup PointsOf(box'.queue)
      BY PointsOfElement
    <3>. QED  BY <3>2, <3>3
  <2>. QED  BY <1>2, <2>1 DEF HeardIsKept
<1>13. AskedFromGood'
  <2>1. box.requesting => box'.good = box.good
    BY DEF Counts
  <2>2. ~box.requesting => diff.stage = "idle" /\ Inited(box)'
    BY <1>1, <1>3, <1>10 DEF AskedFromGood, Inited
  <2>. QED  BY <1>1, <2>1, <2>2 DEF AskedFromGood, IsBoundary, Inited
<1>14. AppliedIsProduced'
  BY <1>7 DEF AppliedIsProduced
<1>15. NothingSkipped'
  <2>1. CASE box'.good = box.good
    BY <1>1, <2>1 DEF NothingSkipped
  <2>2. CASE box'.good # box.good
    <3>1. /\ Counts(box, u) /\ box'.last = box'.count
          /\ box'.good = box'.last /\ box'.queue = {}
      BY <2>2
    <3>2. PointsOf(box'.queue) = {}
      BY <3>1 DEF PointsOf
    <3>3. (base + 1) .. box'.good \subseteq applied'
      BY <1>5, <1>12, <3>1, <3>2 DEF HeardIsKept, Counts
    <3>4. 1 .. base \subseteq applied'
      BY <1>1, <1>3 DEF NothingSkipped, CountIsHeard
    <3>5. 1 .. box'.good \subseteq (1 .. base) \cup ((base + 1) .. box'.good)
      BY <1>3
    <3>. QED  BY <3>3, <3>4, <3>5 DEF NothingSkipped
  <2>. QED  BY <2>1, <2>2
<1>. QED
  BY <1>8, <1>9, <1>10, <1>11, <1>12, <1>13, <1>14, <1>15 DEF IInv, Grows

-----------------------------------------------------------------------------
(* The steps of the server and the network.                                *)

LEMMA ProduceStep ==
  ASSUME IInv, NEW n \in PtsCounts, NEW way \in Ways, Produce(n, way)
  PROVE  IInv'
<1>. DEFINE u == [pts |-> spts + n, count |-> n, via |-> way]
<1>. USE DEF client, history
<1>1. TypeOK /\ LogIsOrdered /\ CountIsHeard /\ HeardIsKept /\ AskedFromGood
      /\ AppliedIsProduced /\ NothingSkipped
  BY DEF IInv
<1>2. /\ n \in Nat /\ way \in AllWays /\ spts \in Nat /\ spts + n \in Nat
      /\ StartPts \in Nat /\ base \in Nat /\ box.last \in Nat
  BY <1>1, ConstantsAssumption DEF TypeOK, Boxes
<1>3. /\ log' = log \cup {u} /\ net' = net \cup {u} /\ spts' = spts + n
      /\ u \in Updates /\ u.pts = spts + n /\ u.count = n
  BY <1>2 DEF Produce, Updates
<1>. HIDE DEF u
<1>4. UNCHANGED <<box, failTimer, diff, base, heard, applied, again>>
  BY DEF Produce
<1>5. \A v \in log : v.pts \in Nat /\ v.count \in Nat /\ v.pts <= spts
  BY <1>1, LogUpdate
<1>6. TypeOK'
  BY <1>1, <1>2, <1>3, <1>4 DEF TypeOK
<1>7. LogIsOrdered'
  <2>1. spts' >= StartPts
    BY <1>1, <1>2, <1>3 DEF LogIsOrdered
  <2>2. \A v \in log' : StartPts + v.count <= v.pts /\ v.pts <= spts'
    BY <1>1, <1>2, <1>3, <1>5 DEF LogIsOrdered
  <2>3. \A v \in log : Before(v, u)
    BY <1>2, <1>3, <1>5 DEF Before
  <2>4. \A v, w \in log' : v = w \/ Before(v, w) \/ Before(w, v)
    BY <1>1, <1>3, <2>3 DEF LogIsOrdered
  <2>. QED  BY <2>1, <2>2, <2>4 DEF LogIsOrdered, Before
<1>8. \A p \in Nat : p <= spts /\ IsBoundary(p) => IsBoundary(p)'
  BY <1>2, <1>3, <1>5 DEF IsBoundary
<1>9. CountIsHeard'
  <2>1. Points(u) \cap heard = {}
    BY <1>1, <1>2, <1>3 DEF CountIsHeard, Points
  <2>2. \A v \in net' : Points(v) \cap heard' = {}
    BY <1>1, <1>3, <1>4, <2>1 DEF CountIsHeard
  <2>3. base <= spts /\ box.last <= spts'
    <3>1. box.good \in Nat
      BY <1>1 DEF TypeOK, Boxes
    <3>. QED  BY <1>1, <1>2, <1>3, <3>1 DEF CountIsHeard
  <2>4. IsBoundary(base)'
    BY <1>1, <1>2, <1>4, <1>8, <2>3 DEF CountIsHeard, IsBoundary
  <2>. QED  BY <1>1, <1>4, <2>2, <2>3, <2>4 DEF CountIsHeard
<1>10. HeardIsKept'
  BY <1>1, <1>3, <1>4 DEF HeardIsKept
<1>11. AskedFromGood'
  <2>1. diff.upto \in Nat
    BY <1>1 DEF TypeOK, Request
  <2>2. ASSUME diff.stage \in {"gotState", "slice", "whole"}
        PROVE  /\ StartPts <= diff.upto /\ diff.upto <= spts'
               /\ box.good <= diff.upto
               /\ IsBoundary(diff.upto)'
    <3>1. /\ StartPts <= diff.upto /\ diff.upto <= spts
          /\ box.good <= diff.upto /\ IsBoundary(diff.upto)
      BY <1>1, <2>2 DEF AskedFromGood
    <3>2. \A v \in log' : v.pts <= diff.upto \/ diff.upto <= v.pts - v.count
      BY <1>2, <1>3, <1>5, <2>1, <3>1 DEF IsBoundary
    <3>. QED  BY <1>2, <1>3, <1>4, <2>1, <3>1, <3>2 DEF IsBoundary
  <2>. QED  BY <1>1, <1>4, <2>2 DEF AskedFromGood, IsBoundary, Inited
<1>12. AppliedIsProduced'
  BY <1>1, <1>2, <1>3, <1>4 DEF AppliedIsProduced
<1>13. NothingSkipped'
  BY <1>1, <1>4 DEF NothingSkipped
<1>. QED
  BY <1>6, <1>7, <1>9, <1>10, <1>11, <1>12, <1>13 DEF IInv

(* Whatever leaves net and changes nothing else.                           *)
LEMMA DropStep ==
  ASSUME IInv, net' \subseteq net, UNCHANGED <<client, server, history>>
  PROVE  IInv'
<1>. USE DEF client, server, history
<1>1. TypeOK' /\ LogIsOrdered'
  BY DEF IInv, TypeOK, LogIsOrdered, Before
<1>2. CountIsHeard' /\ HeardIsKept'
  BY DEF IInv, CountIsHeard, HeardIsKept, IsBoundary
<1>3. AskedFromGood' /\ AppliedIsProduced' /\ NothingSkipped'
  BY DEF IInv, AskedFromGood, AppliedIsProduced, NothingSkipped, IsBoundary, Inited
<1>. QED  BY <1>1, <1>2, <1>3 DEF IInv

(* Every end of an answer is a boundary of the log.                        *)
LEMMA BoundaryFacts ==
  ASSUME TypeOK, LogIsOrdered
  PROVE  /\ IsBoundary(spts)
         /\ \A p \in Boundaries : p \in Nat /\ StartPts <= p /\ IsBoundary(p)
<1>1. \A u \in log : u.pts \in Nat /\ u.count \in Nat /\ u.pts <= spts
  BY LogUpdate
<1>2. IsBoundary(spts)
  BY <1>1 DEF IsBoundary
<1>3. IsBoundary(StartPts) /\ StartPts \in Nat
  BY <1>1, ConstantsAssumption DEF IsBoundary, LogIsOrdered
<1>4. ASSUME NEW v \in log
      PROVE  v.pts \in Nat /\ StartPts <= v.pts /\ IsBoundary(v.pts)
  <2>1. StartPts <= v.pts
    BY <1>1, <1>3 DEF LogIsOrdered
  <2>2. \A u \in log : u.pts <= v.pts \/ v.pts <= u.pts - u.count
    BY <1>1 DEF LogIsOrdered, Before
  <2>. QED  BY <1>1, <2>1, <2>2 DEF IsBoundary
<1>. QED  BY <1>2, <1>3, <1>4 DEF Boundaries

(* An answer changes the request only.                                     *)
LEMMA AnswerStep ==
  ASSUME IInv, diff' \in Request, AskedFromGood',
         UNCHANGED <<box, failTimer, server, net, history>>
  PROVE  IInv'
<1>. USE DEF server, history
<1>1. TypeOK' /\ LogIsOrdered'
  BY DEF IInv, TypeOK, LogIsOrdered, Before
<1>2. CountIsHeard' /\ HeardIsKept'
  BY DEF IInv, CountIsHeard, HeardIsKept, IsBoundary
<1>3. AppliedIsProduced' /\ NothingSkipped'
  BY DEF IInv, AppliedIsProduced, NothingSkipped
<1>. QED  BY <1>1, <1>2, <1>3 DEF IInv

(* Every answer of the server.                                             *)
LEMMA ServerStep ==
  ASSUME IInv,
         \/ AnswerState
         \/ AnswerWhole
         \/ \E upto \in Boundaries : AnswerSlice(upto)
         \/ AnswerError
  PROVE  IInv'
<1>. USE DEF server, history
<1>1. TypeOK /\ LogIsOrdered /\ CountIsHeard /\ AskedFromGood
  BY DEF IInv
<1>2. /\ diff \in Request /\ spts \in Nat /\ StartPts <= spts
      /\ box.good \in Nat /\ box.last \in Nat
  BY <1>1 DEF TypeOK, Boxes, LogIsOrdered
<1>3. box.good <= spts /\ IsBoundary(spts)
  BY <1>1, <1>2, BoundaryFacts DEF CountIsHeard
<1>4. CASE AnswerState
  <2>1. diff' = [diff EXCEPT !.stage = "gotState", !.upto = spts]
    BY <1>4 DEF AnswerState
  <2>2. /\ diff' \in Request /\ diff'.stage = "gotState"
        /\ diff'.upto = spts /\ diff'.from = diff.from
    BY <1>2, <2>1 DEF Request, Stages
  <2>3. /\ diff.stage = "state"
        /\ UNCHANGED <<box, failTimer, server, net, history>>
    BY <1>4 DEF AnswerState
  <2>4. AskedFromGood'
    BY <1>1, <1>2, <1>3, <2>2, <2>3 DEF AskedFromGood, IsBoundary, Inited
  <2>. QED  BY <2>2, <2>3, <2>4, AnswerStep
<1>5. CASE AnswerWhole
  <2>1. diff' = [diff EXCEPT !.stage = "whole", !.upto = spts]
    BY <1>5 DEF AnswerWhole
  <2>2. /\ diff' \in Request /\ diff'.stage = "whole"
        /\ diff'.upto = spts /\ diff'.from = diff.from
    BY <1>2, <2>1 DEF Request, Stages
  <2>3. /\ diff.stage = "asked"
        /\ UNCHANGED <<box, failTimer, server, net, history>>
    BY <1>5 DEF AnswerWhole
  <2>4. AskedFromGood'
    BY <1>1, <1>2, <1>3, <2>2, <2>3 DEF AskedFromGood, IsBoundary, Inited
  <2>. QED  BY <2>2, <2>3, <2>4, AnswerStep
<1>6. ASSUME NEW upto \in Boundaries, AnswerSlice(upto)
      PROVE  IInv'
  <2>1. /\ diff' = [diff EXCEPT !.stage = "slice", !.upto = upto]
        /\ diff.stage = "asked" /\ diff.from < upto /\ upto < spts
        /\ UNCHANGED <<box, failTimer, server, net, history>>
    BY <1>6 DEF AnswerSlice
  <2>2. upto \in Nat /\ StartPts <= upto /\ IsBoundary(upto)
    BY <1>1, <1>6, BoundaryFacts
  <2>3. /\ diff' \in Request /\ diff'.stage = "slice"
        /\ diff'.upto = upto /\ diff'.from = diff.from
    BY <1>2, <2>1, <2>2 DEF Request, Stages
  <2>4. diff.from = box.good
    BY <1>1, <2>1 DEF AskedFromGood
  <2>5. AskedFromGood'
    BY <1>1, <1>2, <2>1, <2>2, <2>3, <2>4 DEF AskedFromGood, IsBoundary, Inited
  <2>. QED  BY <2>1, <2>3, <2>5, AnswerStep
<1>7. CASE AnswerError
  <2>1. /\ diff' = [diff EXCEPT !.stage = "error"]
        /\ diff.stage = "asked"
        /\ UNCHANGED <<box, failTimer, server, net, history>>
    BY <1>7 DEF AnswerError
  <2>2. /\ diff' \in Request /\ diff'.stage = "error" /\ diff'.from = diff.from
    BY <1>2, <2>1 DEF Request, Stages
  <2>3. AskedFromGood'
    BY <1>1, <2>1, <2>2 DEF AskedFromGood, Inited
  <2>. QED  BY <2>1, <2>2, <2>3, AnswerStep
<1>. QED  BY <1>4, <1>5, <1>6, <1>7

-----------------------------------------------------------------------------
(* The steps of the client.                                                *)

LEMMA ReceiveStep ==
  ASSUME IInv, NEW u \in net,
         \/ ReceivePush(u) /\ ~box.requesting
         \/ ReceiveResult(u)
         \/ ReceiveAffected(u)
  PROVE  IInv' /\ Grows
<1>1. TypeOK /\ LogIsOrdered /\ HeardIsKept /\ AskedFromGood
  BY DEF IInv
<1>2. u \in log /\ u \in Updates /\ u.pts \in Nat /\ u.count \in Nat
  BY <1>1, LogUpdate DEF TypeOK
<1>3. /\ box \in Boxes(Updates)
      /\ box.queue # {} => box.waiting
      /\ box.requesting \/ Inited(box)
  BY <1>1 DEF TypeOK, HeardIsKept, AskedFromGood
<1>4. ASSUME net' = net \ {u}, Feed(u), UNCHANGED server
      PROVE  IInv' /\ Grows
  <2>. DEFINE d == UpdateAndApply(box, u)
  <2>1. /\ d.box \in Boxes(Updates)
        /\ d.box.requesting = box.requesting
        /\ d.out \subseteq box.queue \cup {u}
        /\ d.box.queue \subseteq box.queue \cup {u}
        /\ d.box.queue # {} => d.box.waiting
        /\ box.queue \subseteq d.box.queue \cup d.out
        /\ ~Counts(box, u) => /\ d.box.good = box.good
                              /\ d.box.last = box.last
                              /\ d.box.count = box.count
        /\ Counts(box, u) => /\ d.box.last = Larger(box.last, u.pts)
                             /\ d.box.count = box.count + u.count
                             /\ u \in d.box.queue \cup d.out
                             /\ d.box.last = d.box.count =>
                                  d.box.good = d.box.last /\ d.box.queue = {}
                             /\ d.box.last # d.box.count => d.box.good = box.good
    BY <1>2, <1>3, UpdateAndApplyFacts
  <2>2. /\ box' = d.box
        /\ heard' = IF Counts(box, u) THEN heard \cup Points(u) ELSE heard
        /\ applied' = applied \cup PointsOf(d.out) \cup {}
        /\ again' = again \cup (applied \cap PointsOf(d.out))
        /\ UNCHANGED <<base, failTimer, diff>>
    BY <1>4 DEF Feed, Record
  <2>. HIDE DEF d
  <2>3. UNCHANGED <<base, failTimer, diff, server>>
    BY <1>4, <2>2
  <2>. QED  BY <1>4, <2>1, <2>2, <2>3, FeedStep
<1>5. CASE ReceiveAffected(u)
  <2>. DEFINE d == UpdateAndApplyPts(box, u)
  <2>1. /\ d.box \in Boxes(Updates)
        /\ d.box.requesting = box.requesting
        /\ d.out \subseteq box.queue
        /\ d.box.queue \subseteq box.queue
        /\ d.box.queue # {} => d.box.waiting
        /\ box.queue \subseteq d.box.queue \cup d.out
        /\ ~Counts(box, u) => /\ d.box.good = box.good
                              /\ d.box.last = box.last
                              /\ d.box.count = box.count
        /\ Counts(box, u) => /\ d.box.last = Larger(box.last, u.pts)
                             /\ d.box.count = box.count + u.count
                             /\ d.box.last = d.box.count =>
                                  d.box.good = d.box.last /\ d.box.queue = {}
                             /\ d.box.last # d.box.count => d.box.good = box.good
    BY <1>2, <1>3, UpdateAndApplyPtsFacts
  <2>2. /\ net' = net \ {u}
        /\ box' = d.box
        /\ heard' = IF Counts(box, u) THEN heard \cup Points(u) ELSE heard
        /\ applied' = applied \cup PointsOf(d.out) \cup Points(u)
        /\ again' = again \cup (applied \cap PointsOf(d.out))
        /\ UNCHANGED <<base, failTimer, diff, server>>
    BY <1>5 DEF ReceiveAffected, Record
  <2>. HIDE DEF d
  <2>3. d.out \subseteq box.queue \cup {u} /\ d.box.queue \subseteq box.queue \cup {u}
    BY <2>1
  <2>. QED  BY <2>1, <2>2, <2>3, FeedStep
<1>. QED  BY <1>4, <1>5 DEF ReceivePush, ReceiveResult

LEMMA SetRequestingFacts ==
  ASSUME NEW w \in Boxes(Updates), NEW on \in BOOLEAN
  PROVE  LET r == SetRequesting(w, on) IN
         /\ r \in Boxes(Updates)
         /\ r.good = w.good /\ r.last = w.last /\ r.count = w.count
         /\ r.waiting = w.waiting
         /\ r.requesting = on
         /\ r.queue \subseteq w.queue
         /\ on => r.queue = {}
<1>1. CASE on
  BY <1>1 DEF SetRequesting, Boxes
<1>2. CASE ~on
  BY <1>2 DEF SetRequesting, Boxes
<1>. QED  BY <1>1, <1>2

(* getDifference() leaves the counters alone; the box asks afterwards, and  *)
(* asks from its known pts.                                                *)
LEMMA GetDifferenceFacts ==
  ASSUME NEW b \in Boxes(Updates), GetDifference(b)
  PROVE  /\ box' \in Boxes(Updates)
         /\ box'.good = b.good /\ box'.last = b.last /\ box'.count = b.count
         /\ box'.waiting = b.waiting
         /\ box'.requesting
         /\ box'.queue \subseteq b.queue
         /\ b.requesting => diff' = diff /\ failTimer' = failTimer
         /\ ~b.requesting =>
              /\ diff' = [stage |-> "asked", from |-> b.good, upto |-> b.good]
              /\ failTimer' = FALSE
              /\ box'.queue = {}
<1>1. CASE b.requesting
  <2>1. box' = [b EXCEPT !.timer = FALSE] /\ UNCHANGED <<failTimer, diff>>
    BY <1>1 DEF GetDifference
  <2>. QED  BY <1>1, <2>1 DEF Boxes
<1>2. CASE ~b.requesting
  <2>. DEFINE r == SetRequesting(b, TRUE)
  <2>1. /\ box' = [r EXCEPT !.timer = FALSE]
        /\ diff' = [stage |-> "asked", from |-> b.good, upto |-> b.good]
        /\ failTimer' = FALSE
    BY <1>2 DEF GetDifference
  <2>2. /\ r \in Boxes(Updates)
        /\ r.good = b.good /\ r.last = b.last /\ r.count = b.count
        /\ r.waiting = b.waiting /\ r.requesting = TRUE /\ r.queue = {}
    BY SetRequestingFacts
  <2>. HIDE DEF r
  <2>3. /\ box' \in Boxes(Updates)
        /\ box'.good = r.good /\ box'.last = r.last /\ box'.count = r.count
        /\ box'.waiting = r.waiting /\ box'.requesting = r.requesting
        /\ box'.queue = r.queue
    BY <2>1, <2>2 DEF Boxes
  <2>. QED  BY <1>2, <2>1, <2>2, <2>3
<1>. QED  BY <1>1, <1>2

(* What asks for a difference, with what is fed after it in the same       *)
(* container; and what does not ask.                                       *)
Asking ==
  \/ \E u \in net : ReceiveNotLoaded(u)
  \/ \E u \in net : \E rest \in SUBSET Others(u) : ReceiveEntryNotLoaded(u, rest)
  \/ \E rest \in SUBSET {v \in net : v.via = "push"} : ReceiveEntryWhenDue(rest)
  \/ Resync
  \/ PtsTimer

Feeding(u) == ReceivePush(u) \/ ReceiveResult(u) \/ ReceiveAffected(u)

LEMMA ClientSplit ==
  ASSUME Client
  PROVE  Asking \/ (\E u \in net : Feeding(u)) \/ FailTimer \/ Respond
BY DEF Client, Asking, Feeding, Receive

LEMMA FeedNothing ==
  ASSUME UNCHANGED history
  PROVE  FeedUnchecked({})
BY DEF FeedUnchecked, PointsOf, history

LEMMA AskingFacts ==
  ASSUME Asking
  PROVE  /\ GetDifference(box) /\ net' \subseteq net /\ UNCHANGED server
         /\ \E rest \in SUBSET net :
              FeedUnchecked(rest) /\ (rest # {} => ~box.requesting)
<1>1. CASE \/ \E u \in net : ReceiveNotLoaded(u)
           \/ Resync
           \/ PtsTimer
  <2>1. /\ GetDifference(box) /\ net' \subseteq net
        /\ UNCHANGED <<server, history>>
    BY <1>1 DEF ReceiveNotLoaded, Resync, PtsTimer
  <2>2. FeedUnchecked({}) /\ {} \in SUBSET net
    BY <2>1, FeedNothing
  <2>. QED  BY <2>1, <2>2
<1>2. ASSUME NEW u \in net, NEW rest \in SUBSET Others(u),
             ReceiveEntryNotLoaded(u, rest)
      PROVE  /\ GetDifference(box) /\ net' \subseteq net /\ UNCHANGED server
             /\ rest \in SUBSET net /\ FeedUnchecked(rest) /\ ~box.requesting
  BY <1>2 DEF ReceiveEntryNotLoaded, Others
<1>3. ASSUME NEW rest \in SUBSET {v \in net : v.via = "push"},
             ReceiveEntryWhenDue(rest)
      PROVE  /\ GetDifference(box) /\ net' \subseteq net /\ UNCHANGED server
             /\ rest \in SUBSET net /\ FeedUnchecked(rest) /\ ~box.requesting
  BY <1>3 DEF ReceiveEntryWhenDue
<1>. QED  BY <1>1, <1>2, <1>3 DEF Asking

(* A box with the same counters asks for a difference, and the rest of a   *)
(* container is fed to it.                                                 *)
LEMMA AskStep ==
  ASSUME IInv, NEW b \in Boxes(Updates),
         b.good = box.good, b.last = box.last, b.count = box.count,
         b.waiting = box.waiting, b.queue \subseteq box.queue,
         b.requesting => box.requesting,
         GetDifference(b),
         net' \subseteq net,
         NEW rest \in SUBSET net, FeedUnchecked(rest),
         UNCHANGED server
  PROVE  IInv' /\ Grows
<1>. USE DEF server
<1>1. TypeOK /\ LogIsOrdered /\ CountIsHeard /\ HeardIsKept /\ AskedFromGood
      /\ AppliedIsProduced /\ NothingSkipped
  BY DEF IInv
<1>2. /\ box' \in Boxes(Updates)
      /\ box'.good = box.good /\ box'.last = box.last /\ box'.count = box.count
      /\ box'.waiting = box.waiting
      /\ box'.requesting
      /\ box'.queue \subseteq box.queue
      /\ b.requesting => diff' = diff /\ failTimer' = failTimer
      /\ ~b.requesting =>
           /\ diff' = [stage |-> "asked", from |-> b.good, upto |-> b.good]
           /\ failTimer' = FALSE
  BY GetDifferenceFacts
<1>3. /\ applied \subseteq applied' /\ applied' \subseteq 1 .. spts
      /\ applied' \subseteq Nat /\ again' \subseteq Nat
      /\ UNCHANGED <<base, heard>>
  <2>1. rest \subseteq log
    BY <1>1 DEF TypeOK
  <2>2. PointsOf(rest) \subseteq 1 .. spts
    BY <1>1, <2>1, PointsOfLog
  <2>3. /\ applied' = applied \cup PointsOf(rest)
        /\ again' = again \cup (applied \cap PointsOf(rest))
        /\ UNCHANGED <<base, heard>>
    BY DEF FeedUnchecked
  <2>4. 1 .. spts \subseteq Nat
    BY <1>1 DEF TypeOK
  <2>. QED  BY <1>1, <2>2, <2>3, <2>4 DEF TypeOK, AppliedIsProduced
<1>4. TypeOK'
  <2>1. b.good \in Nat
    BY DEF Boxes
  <2>2. failTimer' \in BOOLEAN /\ diff' \in Request
    <3>1. CASE b.requesting
      BY <1>1, <1>2, <3>1 DEF TypeOK
    <3>2. CASE ~b.requesting
      <4>1. [stage |-> "asked", from |-> b.good, upto |-> b.good] \in Request
        BY <2>1 DEF Request, Stages
      <4>. QED  BY <1>2, <3>2, <4>1
    <3>. QED  BY <3>1, <3>2
  <2>. QED  BY <1>1, <1>2, <1>3, <2>2 DEF TypeOK
<1>5. LogIsOrdered' /\ AppliedIsProduced' /\ NothingSkipped'
  BY <1>1, <1>2, <1>3 DEF LogIsOrdered, Before, AppliedIsProduced, NothingSkipped
<1>6. CountIsHeard'
  BY <1>1, <1>2, <1>3 DEF CountIsHeard, IsBoundary
<1>7. HeardIsKept'
  BY <1>1, <1>2 DEF HeardIsKept
<1>8. AskedFromGood'
  <2>1. CASE b.requesting
    BY <1>1, <1>2, <2>1 DEF AskedFromGood, IsBoundary
  <2>2. CASE ~b.requesting
    BY <1>2, <2>2 DEF AskedFromGood
  <2>. QED  BY <2>1, <2>2
<1>9. Grows
  <2>1. box.good \in Nat
    BY <1>1 DEF TypeOK, Boxes
  <2>. QED  BY <1>2, <1>3, <2>1 DEF Grows
<1>. QED  BY <1>4, <1>5, <1>6, <1>7, <1>8, <1>9 DEF IInv

(* The pts of an answer becomes the known one: the box starts counting     *)
(* from there.                                                             *)
LEMMA RestartStep ==
  ASSUME IInv, diff.stage \in {"gotState", "slice", "whole"},
         box' \in Boxes(Updates),
         box'.good = diff.upto, box'.last = diff.upto, box'.count = diff.upto,
         box'.queue = {},
         StartFrom(diff.upto),
         applied' = applied \cup (IF diff.stage = "gotState" THEN 1 .. diff.upto
                                  ELSE (diff.from + 1) .. diff.upto),
         diff' \in Request, failTimer' \in BOOLEAN,
         diff'.stage # "idle" => /\ box'.requesting
                                 /\ diff'.stage = "asked"
                                 /\ diff'.from = diff.upto,
         UNCHANGED <<again, server, net>>
  PROVE  IInv' /\ Grows
<1>. USE DEF server
<1>1. TypeOK /\ LogIsOrdered /\ CountIsHeard /\ HeardIsKept /\ AskedFromGood
      /\ AppliedIsProduced /\ NothingSkipped
  BY DEF IInv
<1>2. /\ diff.upto \in Nat /\ diff.from \in Nat /\ box.good \in Nat
      /\ spts \in Nat /\ StartPts \in Nat \ {0}
  BY <1>1, ConstantsAssumption DEF TypeOK, Request, Boxes
<1>3. /\ StartPts <= diff.upto /\ diff.upto <= spts
      /\ box.good <= diff.upto /\ IsBoundary(diff.upto)
      /\ diff.stage # "gotState" => diff.from = box.good
  BY <1>1 DEF AskedFromGood
<1>4. base' = diff.upto /\ heard' = {}
  BY DEF StartFrom
<1>5. /\ 1 .. diff.upto \subseteq applied'
      /\ applied' \subseteq 1 .. spts
  <2>. /\ 1 .. diff.upto \subseteq 1 .. spts
       /\ (box.good + 1) .. diff.upto \subseteq 1 .. spts
       /\ 1 .. diff.upto \subseteq (1 .. box.good) \cup ((box.good + 1) .. diff.upto)
    BY <1>2, <1>3
  <2>1. CASE diff.stage = "gotState"
    <3>1. applied' = applied \cup 1 .. diff.upto
      BY <2>1
    <3>. QED  BY <1>1, <3>1 DEF AppliedIsProduced
  <2>2. CASE diff.stage # "gotState"
    <3>1. applied' = applied \cup (box.good + 1) .. diff.upto
      BY <1>3, <2>2
    <3>2. 1 .. box.good \subseteq applied
      BY <1>1 DEF NothingSkipped
    <3>. QED  BY <1>1, <3>1, <3>2 DEF AppliedIsProduced
  <2>. QED  BY <2>1, <2>2
<1>6. TypeOK'
  <2>1. applied' \subseteq Nat
    BY <1>2, <1>5
  <2>. QED  BY <1>1, <1>2, <1>4, <2>1 DEF TypeOK
<1>7. LogIsOrdered'
  BY <1>1 DEF LogIsOrdered, Before
<1>8. CountIsHeard'
  <2>1. Cardinality({}) = 0
    BY FS_EmptySet
  <2>2. box'.count = base' + Cardinality(heard')
    BY <1>2, <1>4, <2>1
  <2>. QED  BY <1>2, <1>3, <1>4, <2>2 DEF CountIsHeard, IsBoundary
<1>9. HeardIsKept'
  BY <1>4 DEF HeardIsKept
<1>10. AskedFromGood'
  BY <1>2, <1>3 DEF AskedFromGood, Inited
<1>11. AppliedIsProduced' /\ NothingSkipped'
  BY <1>5 DEF AppliedIsProduced, NothingSkipped
<1>12. Grows
  BY <1>3 DEF Grows
<1>. QED  BY <1>6, <1>7, <1>8, <1>9, <1>10, <1>11, <1>12 DEF IInv

(* The box asks for a difference: on a message it cannot place, to be in   *)
(* step again, because of a gap and after a failure.                       *)
LEMMA AskingStep ==
  ASSUME IInv, Asking \/ FailTimer
  PROVE  IInv' /\ Grows
<1>1. box \in Boxes(Updates)
  BY DEF IInv, TypeOK
<1>2. CASE Asking
  <2>1. PICK rest \in SUBSET net : FeedUnchecked(rest)
    BY <1>2, AskingFacts
  <2>2. GetDifference(box) /\ net' \subseteq net /\ UNCHANGED server
    BY <1>2, AskingFacts
  <2>. QED  BY <1>1, <2>1, <2>2, AskStep
<1>3. CASE FailTimer
  <2>. DEFINE b == SetRequesting(box, FALSE)
  <2>1. /\ b \in Boxes(Updates)
        /\ b.good = box.good /\ b.last = box.last /\ b.count = box.count
        /\ b.waiting = box.waiting /\ b.requesting = FALSE
        /\ b.queue \subseteq box.queue
    BY <1>1, SetRequestingFacts
  <2>2. GetDifference(b) /\ net' \subseteq net /\ UNCHANGED server
    BY <1>3 DEF FailTimer
  <2>3. FeedUnchecked({}) /\ {} \in SUBSET net
    BY <1>3, FeedNothing DEF FailTimer
  <2>. HIDE DEF b
  <2>. QED  BY <2>1, <2>2, <2>3, AskStep
<1>. QED  BY <1>2, <1>3

(* The box as setState() and setRequesting(false) leave it.                *)
LEMMA ReinitedFacts ==
  ASSUME NEW w \in Boxes(Updates), NEW pts \in Nat
  PROVE  LET r == SetRequesting(InitAt(w, pts), FALSE) IN
         /\ r \in Boxes(Updates)
         /\ r.good = pts /\ r.last = pts /\ r.count = pts
         /\ r.queue = {} /\ ~r.requesting
<1>1. InitAt(w, pts) = [w EXCEPT !.good = pts, !.last = pts, !.count = pts, !.queue = {}]
  BY DEF InitAt
<1>2. /\ InitAt(w, pts) \in Boxes(Updates)
      /\ InitAt(w, pts).good = pts /\ InitAt(w, pts).last = pts
      /\ InitAt(w, pts).count = pts /\ InitAt(w, pts).queue = {}
  BY <1>1 DEF Boxes
<1>. QED  BY <1>2, SetRequestingFacts

(* The responses of the requests.                                          *)
LEMMA RespondStep ==
  ASSUME IInv, Respond
  PROVE  IInv' /\ Grows
<1>. DEFINE r == SetRequesting(InitAt(box, diff.upto), FALSE)
<1>1. /\ box \in Boxes(Updates) /\ diff \in Request
      /\ diff.upto \in Nat /\ diff.from \in Nat
      /\ failTimer \in BOOLEAN
  BY DEF IInv, TypeOK, Request
<1>2. /\ r \in Boxes(Updates)
      /\ r.good = diff.upto /\ r.last = diff.upto /\ r.count = diff.upto
      /\ r.queue = {} /\ ~r.requesting
  BY <1>1, ReinitedFacts
<1>3. NoRequest \in Request /\ NoRequest.stage = "idle"
  BY DEF NoRequest, Request, Stages
<1>4. CASE StateDone
  <2>1. /\ diff.stage = "gotState" /\ box' = r /\ diff' = NoRequest
        /\ StartFrom(diff.upto)
        /\ applied' = applied \cup 1 .. diff.upto
        /\ UNCHANGED <<failTimer, again, server, net>>
    BY <1>4 DEF StateDone
  <2>. HIDE DEF r
  <2>. QED  BY <1>1, <1>2, <1>3, <2>1, RestartStep
<1>5. CASE DifferenceDone
  <2>1. /\ diff.stage = "whole" /\ box' = r /\ diff' = NoRequest
        /\ StartFrom(diff.upto)
        /\ applied' = applied \cup (diff.from + 1) .. diff.upto
        /\ UNCHANGED <<failTimer, again, server, net>>
    BY <1>5 DEF DifferenceDone
  <2>. HIDE DEF r
  <2>. QED  BY <1>1, <1>2, <1>3, <2>1, RestartStep
<1>6. CASE DifferenceSlice
  <2>1. /\ diff.stage = "slice" /\ GetDifference(r)
        /\ StartFrom(diff.upto)
        /\ applied' = applied \cup (diff.from + 1) .. diff.upto
        /\ UNCHANGED <<again, server, net>>
    BY <1>6 DEF DifferenceSlice
  <2>. HIDE DEF r
  <2>2. /\ box' \in Boxes(Updates)
        /\ box'.good = r.good /\ box'.last = r.last /\ box'.count = r.count
        /\ box'.requesting
        /\ box'.queue \subseteq r.queue
        /\ diff' = [stage |-> "asked", from |-> r.good, upto |-> r.good]
        /\ failTimer' = FALSE
    BY <1>2, <2>1, GetDifferenceFacts
  <2>3. /\ diff' \in Request /\ diff'.stage = "asked" /\ diff'.from = diff.upto
    BY <1>1, <1>2, <2>2 DEF Request, Stages
  <2>4. box'.queue = {} /\ failTimer' \in BOOLEAN
    BY <1>2, <2>2
  <2>. QED  BY <1>2, <2>1, <2>2, <2>3, <2>4, RestartStep
<1>7. CASE DifferenceFail
  <2>1. /\ failTimer' = TRUE /\ diff' = NoRequest
        /\ UNCHANGED <<box, server, net, history>>
    BY <1>7 DEF DifferenceFail
  <2>. USE DEF server, history
  <2>2. TypeOK' /\ LogIsOrdered'
    BY <1>3, <2>1 DEF IInv, TypeOK, LogIsOrdered, Before
  <2>3. CountIsHeard' /\ HeardIsKept'
    BY <2>1 DEF IInv, CountIsHeard, HeardIsKept, IsBoundary
  <2>4. AskedFromGood' /\ AppliedIsProduced' /\ NothingSkipped'
    BY <1>3, <2>1 DEF IInv, AskedFromGood, AppliedIsProduced, NothingSkipped, Inited
  <2>5. Grows
    BY <1>1, <2>1 DEF Grows, Boxes
  <2>. QED  BY <2>2, <2>3, <2>4, <2>5 DEF IInv
<1>. QED  BY <1>4, <1>5, <1>6, <1>7 DEF Respond

LEMMA ClientKeepsServer == Client => UNCHANGED server
<1>. SUFFICES ASSUME Client PROVE UNCHANGED server
  OBVIOUS
<1>1. CASE \E u \in net : Feeding(u)
  BY <1>1 DEF Feeding, ReceivePush, ReceiveResult, ReceiveAffected
<1>2. CASE FailTimer \/ Respond
  BY <1>2 DEF FailTimer, Respond, StateDone, DifferenceDone, DifferenceSlice,
         DifferenceFail
<1>. QED  BY <1>1, <1>2, ClientSplit, AskingFacts

LEMMA ClientStep ==
  ASSUME IInv, Client
  PROVE  IInv' /\ Grows
<1>1. ASSUME NEW u \in net, ReceivePush(u), box.requesting
      PROVE  IInv' /\ Grows
  <2>1. net' \subseteq net /\ UNCHANGED <<client, server, history>>
    BY <1>1 DEF ReceivePush
  <2>2. IInv'
    BY <2>1, DropStep
  <2>3. box.good \in Nat /\ UNCHANGED <<box, applied>>
    BY <2>1 DEF IInv, TypeOK, Boxes, client, history
  <2>. QED  BY <2>2, <2>3 DEF Grows
<1>. QED
  BY <1>1, ClientSplit, ReceiveStep, AskingStep, RespondStep DEF Feeding

-----------------------------------------------------------------------------
LEMMA InitIsInductive == Init => IInv
<1>. SUFFICES ASSUME Init PROVE IInv
  OBVIOUS
<1>1. /\ box = SetRequesting(EmptyBox, TRUE)
      /\ diff = [stage |-> "state", from |-> 0, upto |-> 0]
      /\ failTimer = FALSE /\ spts = StartPts
      /\ log = {} /\ net = {} /\ base = 0
      /\ heard = {} /\ applied = {} /\ again = {}
  BY DEF Init
<1>2. EmptyBox \in Boxes(Updates)
  BY DEF EmptyBox, Boxes
<1>3. /\ box \in Boxes(Updates)
      /\ box.good = 0 /\ box.last = 0 /\ box.count = 0
      /\ box.requesting /\ box.queue = {}
  BY <1>1, <1>2, SetRequestingFacts DEF EmptyBox
<1>4. /\ diff \in Request /\ diff.stage = "state" /\ StartPts \in Nat
  BY <1>1, ConstantsAssumption DEF Request, Stages
<1>5. TypeOK
  BY <1>1, <1>3, <1>4 DEF TypeOK
<1>6. LogIsOrdered
  BY <1>1, <1>4 DEF LogIsOrdered
<1>7. CountIsHeard
  <2>1. Cardinality(heard) = 0
    BY <1>1, FS_EmptySet
  <2>2. base = 0 /\ spts \in Nat /\ heard = {} /\ log = {} /\ net = {}
    BY <1>1, <1>4
  <2>3. base <= box.good /\ box.good <= box.last /\ box.last <= spts
    BY <1>3, <2>2
  <2>4. box.count = base + Cardinality(heard)
    BY <1>3, <2>1, <2>2
  <2>. QED  BY <2>2, <2>3, <2>4 DEF CountIsHeard, IsBoundary
<1>8. HeardIsKept /\ AskedFromGood
  BY <1>1, <1>3, <1>4 DEF HeardIsKept, AskedFromGood
<1>9. AppliedIsProduced /\ NothingSkipped
  <2>1. 1 .. box.good = {}
    BY <1>3
  <2>. QED  BY <1>1, <2>1 DEF AppliedIsProduced, NothingSkipped
<1>. QED  BY <1>5, <1>6, <1>7, <1>8, <1>9 DEF IInv

LEMMA NextIsInductive == IInv /\ [Next]_vars => IInv'
<1>. SUFFICES ASSUME IInv, [Next]_vars PROVE IInv'
  OBVIOUS
<1>1. CASE Environment
  <2>1. ASSUME NEW u \in net, Lose(u)
        PROVE  IInv'
    <3>1. net' \subseteq net /\ UNCHANGED <<client, server, history>>
      BY <2>1 DEF Lose
    <3>. QED  BY <3>1, DropStep
  <2>. QED  BY <1>1, <2>1, ProduceStep, ServerStep DEF Environment
<1>2. CASE Client
  BY <1>2, ClientStep
<1>3. CASE UNCHANGED vars
  BY <1>3, DropStep DEF vars
<1>. QED  BY <1>1, <1>2, <1>3 DEF Next

(* IInv holds in every reachable state.                                    *)
THEOREM Invariance == Spec => []IInv
<1>. QED  BY InitIsInductive, NextIsInductive, PTL DEF Spec

(* Type correctness.                                                       *)
THEOREM TypeCorrect == Spec => []TypeOK
<1>1. IInv => TypeOK
  BY DEF IInv
<1>. QED  BY <1>1, Invariance, PTL

(* No update at or below the known pts is ever missing from the data.      *)
THEOREM NeverSkips == Spec => []NothingSkipped
<1>1. IInv => NothingSkipped
  BY DEF IInv
<1>. QED  BY <1>1, Invariance, PTL

-----------------------------------------------------------------------------
(* The box implements UpdateLog: every step of the server extends the log  *)
(* or leaves it, and every step of the client catches up with it.          *)
LEMMA InitImplements == Init => Log!Init
<1>. SUFFICES ASSUME Init PROVE Log!Init
  OBVIOUS
<1>1. spts = StartPts /\ applied = {} /\ box = SetRequesting(EmptyBox, TRUE)
  BY DEF Init
<1>2. EmptyBox \in Boxes(Updates) /\ EmptyBox.good = 0
  BY DEF EmptyBox, Boxes
<1>3. box.good = 0
  BY <1>1, <1>2, SetRequestingFacts
<1>4. StartPts \in Nat
  BY ConstantsAssumption
<1>5. 1 .. 0 = {} /\ 0 \in 0 .. StartPts
  BY <1>4
<1>6. spts \in Nat /\ box.good \in 0 .. spts /\ applied = 1 .. box.good
  BY <1>1, <1>3, <1>4, <1>5
<1>. QED  BY <1>6 DEF Log!Init

LEMMA StepImplements == IInv /\ IInv' /\ [Next]_vars => [Log!Next]_(Log!logVars)
<1>. SUFFICES ASSUME IInv, IInv', [Next]_vars
              PROVE  Log!Next \/ UNCHANGED Log!logVars
  OBVIOUS
<1>. USE DEF Log!logVars
<1>1. CASE Client
  <2>1. UNCHANGED spts
    BY <1>1, ClientKeepsServer DEF server
  <2>2. Grows
    BY <1>1, ClientStep
  <2>3. /\ box.good \in Nat /\ box'.good \in Nat /\ box'.last \in Nat
        /\ spts \in Nat
    BY DEF IInv, TypeOK, Boxes
  <2>4. box'.good <= spts
    BY <2>1, <2>3 DEF IInv, CountIsHeard
  <2>5. applied' \subseteq 1 .. spts /\ 1 .. box'.good \subseteq applied'
    BY <2>1 DEF IInv, AppliedIsProduced, NothingSkipped
  <2>6. box'.good \in box.good .. spts
    BY <2>2, <2>3, <2>4 DEF Grows
  <2>. QED  BY <2>1, <2>2, <2>5, <2>6 DEF Grows, Log!Next, Log!CatchUp
<1>2. ASSUME NEW n \in PtsCounts, NEW way \in Ways, Produce(n, way)
      PROVE  Log!Next \/ UNCHANGED Log!logVars
  <2>1. n \in Nat /\ spts \in Nat
    BY ConstantsAssumption DEF IInv, TypeOK
  <2>2. spts' = spts + n /\ UNCHANGED <<box, applied>>
    BY <1>2 DEF Produce, client, history
  <2>. QED  BY <2>1, <2>2 DEF Log!Next, Log!Produce
<1>3. CASE Environment
  <2>1. ASSUME \/ \E u \in net : Lose(u)
               \/ AnswerState
               \/ AnswerWhole
               \/ \E upto \in Boundaries : AnswerSlice(upto)
               \/ AnswerError
        PROVE  UNCHANGED Log!logVars
    BY <2>1 DEF Lose, AnswerState, AnswerWhole, AnswerSlice, AnswerError,
         client, server, history
  <2>. QED  BY <1>2, <1>3, <2>1 DEF Environment
<1>4. CASE UNCHANGED vars
  BY <1>4 DEF vars, client, server, history
<1>. QED  BY <1>1, <1>3, <1>4 DEF Next

THEOREM Implementation == Spec => ImplementsLog
<1>. QED
  BY InitImplements, StepImplements, Invariance, PTL
  DEF Spec, ImplementsLog, Log!Spec

-----------------------------------------------------------------------------
(* The timer, where every gap is found by an update that takes pts.        *)
GapsTakePts == 0 \notin PtsCounts

WaitIsHeld ==
  /\ GapWaits(box)
  /\ box.requesting => box.queue = {}
  /\ \A u \in log : u.count # 0

LEMMA WaitFeed ==
  ASSUME IInv, WaitIsHeld, NEW u \in net, Feeding(u)
  PROVE  GapWaits(box') /\ (box'.requesting => box'.queue = {})
<1>1. /\ box \in Boxes(Updates) /\ u \in Updates
      /\ u.pts \in Nat /\ u.count \in Nat /\ u.count # 0
  BY LogUpdate DEF IInv, TypeOK, WaitIsHeld
<1>2. /\ box.requesting \/ Inited(box)
      /\ box.queue # {} => box.waiting
      /\ GapWaits(box) /\ (box.requesting => box.queue = {})
  BY DEF IInv, AskedFromGood, HeardIsKept, WaitIsHeld
<1>3. CASE box' = UpdateAndApply(box, u).box
  <2>. DEFINE d == UpdateAndApply(box, u)
  <2>1. GapWaits(d.box) /\ d.box.requesting = box.requesting
    BY <1>1, <1>2, UpdateAndApplyTimes, UpdateAndApplyFacts
  <2>2. ASSUME box.requesting PROVE d.box.queue = {}
    <3>1. d = Applying(box, u)
      BY <2>2 DEF UpdateAndApply, Counts
    <3>2. Applying(box, u).box.queue = {}
      BY <1>1, <1>2, ApplyingFacts
    <3>. QED  BY <3>1, <3>2
  <2>. HIDE DEF d
  <2>3. box' = d.box
    BY <1>3 DEF d
  <2>. QED  BY <2>1, <2>2, <2>3
<1>4. CASE box' = UpdateAndApplyPts(box, u).box
  <2>. DEFINE d == UpdateAndApplyPts(box, u)
  <2>1. GapWaits(d.box)
    BY <1>1, <1>2, UpdateAndApplyPtsTimes
  <2>2. d.box.requesting = box.requesting /\ d.box.queue \subseteq box.queue
    BY <1>1, <1>2, UpdateAndApplyPtsFacts
  <2>. HIDE DEF d
  <2>3. box' = d.box
    BY <1>4 DEF d
  <2>. QED  BY <1>2, <2>1, <2>2, <2>3
<1>5. CASE box' = box
  BY <1>2, <1>5
<1>6. \/ box' = box
      \/ box' = UpdateAndApply(box, u).box
      \/ box' = UpdateAndApplyPts(box, u).box
  BY DEF Feeding, ReceivePush, ReceiveResult, ReceiveAffected, Feed, client
<1>. QED  BY <1>3, <1>4, <1>5, <1>6

LEMMA WaitClient ==
  ASSUME IInv, WaitIsHeld, Client
  PROVE  GapWaits(box') /\ (box'.requesting => box'.queue = {})
<1>1. /\ box \in Boxes(Updates) /\ diff.upto \in Nat
      /\ GapWaits(box) /\ (box.requesting => box.queue = {})
  BY DEF IInv, TypeOK, Request, WaitIsHeld
<1>2. CASE \E u \in net : Feeding(u)
  BY <1>2, WaitFeed
<1>3. ASSUME NEW b \in Boxes(Updates), GetDifference(b), b.requesting => b.queue = {}
      PROVE  GapWaits(box') /\ (box'.requesting => box'.queue = {})
  <2>1. /\ box'.requesting /\ box'.queue \subseteq b.queue
        /\ ~b.requesting => box'.queue = {}
    BY <1>3, GetDifferenceFacts
  <2>. QED  BY <1>3, <2>1 DEF GapWaits
<1>4. CASE Asking
  BY <1>1, <1>3, <1>4, AskingFacts
<1>5. CASE FailTimer
  <2>1. /\ SetRequesting(box, FALSE) \in Boxes(Updates)
        /\ SetRequesting(box, FALSE).requesting = FALSE
    BY <1>1, SetRequestingFacts
  <2>. QED  BY <1>3, <1>5, <2>1 DEF FailTimer
<1>. DEFINE r == SetRequesting(InitAt(box, diff.upto), FALSE)
<1>6. /\ r \in Boxes(Updates) /\ ~r.requesting
      /\ r.last = diff.upto /\ r.count = diff.upto
  BY <1>1, ReinitedFacts
<1>7. CASE StateDone \/ DifferenceDone
  <2>1. box' = r
    BY <1>7 DEF StateDone, DifferenceDone
  <2>. HIDE DEF r
  <2>. QED  BY <1>6, <2>1 DEF GapWaits
<1>8. CASE DifferenceSlice
  <2>1. GetDifference(r)
    BY <1>8 DEF DifferenceSlice
  <2>. HIDE DEF r
  <2>. QED  BY <1>3, <1>6, <2>1
<1>9. CASE DifferenceFail
  BY <1>1, <1>9 DEF DifferenceFail
<1>. QED  BY <1>2, <1>4, <1>5, <1>7, <1>8, <1>9, ClientSplit DEF Respond

LEMMA WaitStep ==
  GapsTakePts /\ IInv /\ WaitIsHeld /\ [Next]_vars => WaitIsHeld'
<1>. SUFFICES ASSUME GapsTakePts, IInv, WaitIsHeld, [Next]_vars
              PROVE  WaitIsHeld'
  OBVIOUS
<1>1. CASE Client
  <2>1. GapWaits(box') /\ (box'.requesting => box'.queue = {})
    BY <1>1, WaitClient
  <2>2. UNCHANGED log
    BY <1>1, ClientKeepsServer DEF server
  <2>. QED  BY <2>1, <2>2 DEF WaitIsHeld, GapWaits
<1>2. ASSUME NEW n \in PtsCounts, NEW way \in Ways, Produce(n, way)
      PROVE  WaitIsHeld'
  <2>1. /\ log' = log \cup {[pts |-> spts + n, count |-> n, via |-> way]}
        /\ UNCHANGED box /\ n # 0
    BY <1>2 DEF Produce, client, GapsTakePts
  <2>. QED  BY <2>1 DEF WaitIsHeld, GapWaits
<1>3. ASSUME UNCHANGED <<box, log>>
      PROVE  WaitIsHeld'
  BY <1>3 DEF WaitIsHeld, GapWaits
<1>4. CASE Environment
  <2>1. ASSUME \/ \E u \in net : Lose(u)
               \/ AnswerState
               \/ AnswerWhole
               \/ \E upto \in Boundaries : AnswerSlice(upto)
               \/ AnswerError
        PROVE  UNCHANGED <<box, log>>
    BY <2>1 DEF Lose, AnswerState, AnswerWhole, AnswerSlice, AnswerError,
         client, server
  <2>. QED  BY <1>2, <1>3, <1>4, <2>1 DEF Environment
<1>5. CASE UNCHANGED vars
  BY <1>3, <1>5 DEF vars, client, server
<1>. QED  BY <1>1, <1>4, <1>5 DEF Next

LEMMA WaitInit == Init => WaitIsHeld
<1>. SUFFICES ASSUME Init PROVE WaitIsHeld
  OBVIOUS
<1>1. EmptyBox \in Boxes(Updates) /\ EmptyBox.queue = {}
  BY DEF EmptyBox, Boxes
<1>2. box.requesting /\ box.queue = {}
  BY <1>1, SetRequestingFacts DEF Init
<1>. QED  BY <1>2 DEF Init, WaitIsHeld, GapWaits

(* A box that knows of a gap has its timer or asks, and nothing is saved   *)
(* while it asks.                                                          *)
THEOREM GapIsWaitedFor == GapsTakePts => (Spec => []WaitsOrAsks)
<1>. SUFFICES ASSUME GapsTakePts PROVE Spec => []WaitsOrAsks
  OBVIOUS
<1>1. Init => WaitIsHeld
  BY WaitInit
<1>2. IInv /\ WaitIsHeld /\ [Next]_vars => WaitIsHeld'
  BY WaitStep
<1>3. WaitIsHeld => WaitsOrAsks
  BY DEF WaitIsHeld, WaitsOrAsks, GapWaits
<1>. QED  BY <1>1, <1>2, <1>3, Invariance, PTL DEF Spec

-----------------------------------------------------------------------------
(* What reaches the data and when, under the same assumption.              *)

(* Updates beyond Reach that were pushed did not reach the data: a box that*)
(* trusts its pts has none beyond it, and a box that asks none beyond the  *)
(* answer that lets it stop asking.                                        *)
Reach ==
  IF ~box.requesting THEN box.good
  ELSE IF diff.stage \in {"gotState", "whole"} THEN diff.upto
  ELSE spts

\* What still is to come, or to be applied once the gap is closed.
Awaited == net \cup box.queue

Fetched == {u \in log \ Awaited : u.via # "push"}

(* The known pts is between two updates, what is saved comes after it and  *)
(* is not on its way any more, and what reached the data beyond Reach came *)
(* in the results of requests.                                             *)
Fresh ==
  /\ IsBoundary(box.good) /\ IsBoundary(box.last)
  /\ \A u \in box.queue :
       u.via # "affected" /\ box.good < u.pts /\ u.pts <= box.last
  /\ net \cap box.queue = {}
  /\ applied \subseteq 1 .. Reach \cup PointsOf(Fetched)

\* An update after the known pts that is awaited or was pushed is not in the
\* data, when the box does not ask.
LEMMA AwaitedIsFresh ==
  ASSUME IInv, Fresh, ~box.requesting,
         NEW u \in log, u \in Awaited \/ u.via = "push", box.good < u.pts
  PROVE  Points(u) \cap applied = {}
<1>1. TypeOK /\ LogIsOrdered
  BY DEF IInv
<1>2. u.pts \in Nat /\ u.count \in Nat /\ box.good \in Nat
  BY <1>1, LogUpdate DEF TypeOK, Boxes
<1>3. Points(u) \cap (1 .. box.good) = {}
  BY <1>2 DEF Fresh, IsBoundary, Points
<1>4. \A v \in Fetched : Points(u) \cap Points(v) = {}
  BY <1>1, LogIsDisjoint DEF Fetched
<1>5. Points(u) \cap PointsOf(Fetched) = {}
  BY <1>4 DEF PointsOf
<1>6. applied \subseteq 1 .. box.good \cup PointsOf(Fetched)
  BY DEF Fresh, Reach
<1>. QED  BY <1>3, <1>5, <1>6

LEMMA FreshFeed ==
  ASSUME IInv, Fresh, IInv',
         NEW u \in net, NEW out, NEW own,
         u.count # 0,
         own = {} \/ (u.via = "affected" /\ own = Points(u)),
         u.via = "push" => ~box.requesting,
         net' = net \ {u},
         box'.requesting = box.requesting,
         out \subseteq box.queue \cup {u},
         box'.queue \subseteq box.queue \cup {u},
         u \in out => u.via # "affected",
         u \in box'.queue => u \in box.queue \/ (Counts(box, u) /\ u.via # "affected"),
         box.requesting => box.queue = {},
         out # {} /\ ~box.requesting => Counts(box, u) /\ box'.last = box'.count,
         ~Counts(box, u) => box'.good = box.good /\ box'.last = box.last,
         Counts(box, u) => /\ box'.last = Larger(box.last, u.pts)
                           /\ box'.last = box'.count =>
                                box'.good = box'.last /\ box'.queue = {}
                           /\ box'.last # box'.count => box'.good = box.good,
         applied' = applied \cup PointsOf(out) \cup own,
         again' = again \cup (applied \cap PointsOf(out)),
         UNCHANGED <<server, diff>>
  PROVE  Fresh' /\ RepeatsUnchecked
<1>. USE DEF server
<1>1. /\ TypeOK /\ LogIsOrdered /\ HeardIsKept
      /\ box.good \in Nat /\ box.last \in Nat
      /\ box'.good \in Nat /\ box'.last \in Nat
      /\ box.queue \subseteq log /\ u \in log
  BY DEF IInv, TypeOK, Boxes, HeardIsKept
<1>2. u.pts \in Nat /\ u.count \in Nat /\ out \subseteq log
  BY <1>1, LogUpdate
<1>3. IsBoundary(u.pts)
  BY <1>1, BoundaryFacts DEF Boundaries
<1>4. Counts(box, u) => box.good < u.pts /\ ~box.requesting
  BY <1>1, <1>2 DEF Counts, Outdated
<1>5. IsBoundary(box'.last) /\ IsBoundary(box'.good)
  BY <1>3 DEF Fresh, Larger
<1>6. box.last <= box'.last /\ (Counts(box, u) => u.pts <= box'.last)
  <2>1. /\ box.last <= Larger(box.last, u.pts)
        /\ u.pts <= Larger(box.last, u.pts)
    BY <1>1, <1>2, LargerFacts
  <2>2. CASE Counts(box, u)
    BY <2>1, <2>2
  <2>3. CASE ~Counts(box, u)
    BY <1>1, <2>3
  <2>. QED  BY <2>2, <2>3
<1>7. box.good <= box'.good
  BY <1>1, <1>6 DEF IInv, CountIsHeard
<1>8. \A v \in box'.queue : v.via # "affected" /\ box'.good < v.pts /\ v.pts <= box'.last
  <2>. SUFFICES ASSUME NEW v \in box'.queue
                PROVE  v.via # "affected" /\ box'.good < v.pts /\ v.pts <= box'.last
    OBVIOUS
  <2>1. box'.good = box.good /\ v.pts \in Nat
    BY <1>1, <1>2, LogUpdate
  <2>2. CASE v \in box.queue
    BY <1>1, <1>6, <2>1, <2>2 DEF Fresh
  <2>3. CASE v \notin box.queue
    BY <1>4, <1>6, <2>1, <2>3
  <2>. QED  BY <2>2, <2>3
<1>9. net' \cap box'.queue = {}
  BY DEF Fresh
<1>10. Fetched \subseteq Fetched'
  BY DEF Fetched, Awaited
<1>11. u.via # "push" /\ u \notin box'.queue => Points(u) \subseteq PointsOf(Fetched')
  <2>1. u.via # "push" /\ u \notin box'.queue => u \in Fetched'
    BY <1>1 DEF Fetched, Awaited
  <2>. QED  BY <2>1, PointsOfElement
<1>12. own \subseteq PointsOf(Fetched')
  <2>1. CASE own = {}
    BY <2>1
  <2>2. CASE u.via = "affected" /\ own = Points(u)
    <3>1. u \notin box'.queue
      BY <2>2 DEF Fresh
    <3>. QED  BY <1>11, <2>2, <3>1
  <2>. QED  BY <2>1, <2>2
<1>13. PointsOf(Fetched) \subseteq PointsOf(Fetched')
  BY <1>10, PointsOfSubset
<1>14. CASE ~box.requesting
  <2>1. ASSUME NEW v \in out
        PROVE  /\ Points(v) \cap applied = {}
               /\ Points(v) \subseteq 1 .. box'.good
    <3>1. Counts(box, u) /\ box'.good = box'.last
      BY <1>14
    <3>2. /\ v \in log /\ v \in Awaited
          /\ v.pts \in Nat /\ Points(v) \subseteq 1 .. v.pts
      BY <1>1, <1>2, LogUpdate, PointsAreCount DEF Awaited
    <3>3. box.good < v.pts /\ v.pts <= box'.good
      BY <1>1, <1>4, <1>6, <3>1, <3>2 DEF Fresh
    <3>4. Points(v) \cap applied = {}
      BY <1>14, <3>2, <3>3, AwaitedIsFresh
    <3>5. 1 .. v.pts \subseteq 1 .. box'.good
      BY <1>1, <3>2, <3>3
    <3>. QED  BY <3>2, <3>4, <3>5
  <2>2. applied \cap PointsOf(out) = {} /\ PointsOf(out) \subseteq 1 .. box'.good
    BY <2>1 DEF PointsOf
  <2>3. Reach = box.good /\ Reach' = box'.good
    BY <1>14 DEF Reach
  <2>4. 1 .. box.good \subseteq 1 .. box'.good
    BY <1>1, <1>7
  <2>5. applied' \subseteq 1 .. Reach' \cup PointsOf(Fetched')
    BY <1>12, <1>13, <2>2, <2>3, <2>4 DEF Fresh
  <2>6. again' = again
    BY <2>2
  <2>. QED  BY <1>5, <1>8, <1>9, <2>5, <2>6 DEF Fresh, IsBoundary, RepeatsUnchecked
<1>15. CASE box.requesting
  <2>1. out \subseteq {u} /\ u.via # "push" /\ box'.queue = {}
    BY <1>4, <1>15
  <2>2. PointsOf(out) \subseteq Points(u)
    BY <2>1 DEF PointsOf
  <2>3. Reach' = Reach
    BY <1>4, <1>15 DEF Reach
  <2>4. applied' \subseteq 1 .. Reach' \cup PointsOf(Fetched')
    BY <1>11, <1>12, <1>13, <2>1, <2>2, <2>3 DEF Fresh
  <2>5. RepeatsUnchecked
    <3>. DEFINE results == {v \in log : v.via = "result"}
    <3>1. u.via \in {"push", "result", "affected"}
      BY <1>1, LogUpdate DEF Updates, AllWays
    <3>2. PointsOf(out) \subseteq PointsOf(results)
      <4>1. CASE out = {}
        BY <4>1 DEF PointsOf
      <4>2. CASE u \in out
        <5>1. u \in results
          BY <1>1, <2>1, <3>1, <4>2
        <5>. QED  BY <2>2, <5>1, PointsOfElement
      <4>. QED  BY <2>1, <4>1, <4>2
    <3>3. again' \subseteq again \cup PointsOf(results)
      BY <3>2
    <3>. QED  BY <1>15, <3>3 DEF RepeatsUnchecked
  <2>. QED  BY <1>5, <1>8, <1>9, <2>4, <2>5 DEF Fresh, IsBoundary
<1>. QED  BY <1>14, <1>15

(* The box keeps its pts: nothing reaches the data, or it asks for what    *)
(* may be anything the server has.                                         *)
LEMMA FreshKept ==
  ASSUME IInv, IInv', Fresh,
         box'.good = box.good, box'.last = box.last,
         box'.queue \subseteq box.queue, net' \subseteq net,
         UNCHANGED server,
         (applied' = applied /\ Reach' = Reach) \/ Reach' = spts
  PROVE  Fresh'
<1>. USE DEF server
<1>1. Fetched \subseteq Fetched'
  BY DEF Fetched, Awaited
<1>2. PointsOf(Fetched) \subseteq PointsOf(Fetched')
  BY <1>1, PointsOfSubset
<1>3. applied' \subseteq 1 .. spts
  BY DEF IInv, AppliedIsProduced
<1>4. applied' \subseteq 1 .. Reach' \cup PointsOf(Fetched')
  BY <1>2, <1>3 DEF Fresh
<1>. QED  BY <1>4 DEF Fresh, IsBoundary

(* The box starts over from a pts of the server's.                         *)
LEMMA FreshStart ==
  ASSUME IInv, IInv', Fresh, NEW p \in Nat, IsBoundary(p), box.good <= p,
         box'.good = p, box'.last = p, box'.queue = {}, net' = net,
         NEW more, more \subseteq 1 .. p, applied' = applied \cup more,
         UNCHANGED server,
         Reach' = spts \/ (Reach = p /\ Reach' = p)
  PROVE  Fresh'
<1>. USE DEF server
<1>1. Fetched \subseteq Fetched'
  BY DEF Fetched, Awaited
<1>2. PointsOf(Fetched) \subseteq PointsOf(Fetched')
  BY <1>1, PointsOfSubset
<1>3. applied' \subseteq 1 .. spts
  BY DEF IInv, AppliedIsProduced
<1>4. applied' \subseteq 1 .. Reach' \cup PointsOf(Fetched')
  BY <1>2, <1>3 DEF Fresh
<1>. QED  BY <1>4 DEF Fresh, IsBoundary

(* Asking.                                                                 *)
LEMMA FreshAsking ==
  ASSUME IInv, IInv', Fresh, NEW b \in Boxes(Updates), GetDifference(b),
         b.good = box.good, b.last = box.last, b.queue \subseteq box.queue,
         b.requesting => box.requesting /\ applied' = applied,
         net' \subseteq net, UNCHANGED server
  PROVE  Fresh' /\ box'.requesting
<1>1. /\ box'.good = b.good /\ box'.last = b.last /\ box'.queue \subseteq b.queue
      /\ box'.requesting
      /\ b.requesting => diff' = diff
      /\ ~b.requesting => diff' = [stage |-> "asked", from |-> b.good, upto |-> b.good]
  BY GetDifferenceFacts
<1>2. CASE b.requesting
  <2>1. Reach' = Reach
    BY <1>1, <1>2 DEF Reach, server
  <2>. QED  BY <1>1, <1>2, <2>1, FreshKept
<1>3. CASE ~b.requesting
  <2>1. diff'.stage = "asked"
    BY <1>1, <1>3
  <2>2. Reach' = spts
    BY <1>1, <2>1 DEF Reach, server
  <2>. QED  BY <1>1, <2>2, FreshKept
<1>. QED  BY <1>2, <1>3

LEMMA FreshReceive ==
  ASSUME IInv, IInv', WaitIsHeld, Fresh, NEW u \in net, Feeding(u)
  PROVE  Fresh' /\ RepeatsUnchecked
<1>1. /\ box \in Boxes(Updates) /\ u \in Updates /\ u \in log
      /\ u.pts \in Nat /\ u.count \in Nat /\ u.count # 0
  BY LogUpdate DEF IInv, TypeOK, WaitIsHeld
<1>2. /\ box.requesting \/ Inited(box)
      /\ box.queue # {} => box.waiting
      /\ box.requesting => box.queue = {}
  BY DEF IInv, AskedFromGood, HeardIsKept, WaitIsHeld
<1>. DEFINE c == Check(box, u)
<1>3. ~box.requesting => /\ c.last = Larger(box.last, u.pts)
                         /\ c.count = box.count + u.count
  BY <1>1, <1>2, CheckFacts
<1>. HIDE DEF c
<1>4. CASE Feed(u) /\ net' = net \ {u} /\ UNCHANGED server /\ u.via # "affected"
           /\ (u.via = "push" => ~box.requesting)
  <2>. DEFINE d == UpdateAndApply(box, u)
  <2>1. /\ d.out \subseteq box.queue \cup {u}
        /\ d.box.queue \subseteq box.queue \cup {u}
        /\ d.box.requesting = box.requesting
        /\ ~Counts(box, u) => d.box.good = box.good /\ d.box.last = box.last
        /\ Counts(box, u) => /\ d.box.last = Larger(box.last, u.pts)
                             /\ d.box.count = box.count + u.count
                             /\ d.box.last = d.box.count =>
                                  d.box.good = d.box.last /\ d.box.queue = {}
                             /\ d.box.last # d.box.count => d.box.good = box.good
    BY <1>1, <1>2, UpdateAndApplyFacts
  <2>2. d.out # {} /\ ~box.requesting => Counts(box, u) /\ d.box.last = d.box.count
    <3>1. d.out # {} /\ ~box.requesting => Counts(box, u) /\ c.last = c.count
      BY <1>1, <1>2, AppliesInTurn DEF c
    <3>. HIDE DEF d
    <3>. QED  BY <1>3, <2>1, <3>1
  <2>3. u \in d.box.queue => u \in box.queue \/ Counts(box, u)
    <3>1. CASE box.requesting
      <4>1. d = Applying(box, u)
        BY <3>1 DEF UpdateAndApply, Counts
      <4>2. Applying(box, u).box.queue = {}
        BY <1>1, <1>2, ApplyingFacts
      <4>. QED  BY <4>1, <4>2
    <3>2. CASE ~box.requesting /\ ~Counts(box, u)
      <4>1. d = [box |-> box, out |-> {}]
        BY <3>2 DEF UpdateAndApply
      <4>2. d.box = box
        BY <4>1
      <4>. QED  BY <4>2
    <3>. QED  BY <3>1, <3>2
  <2>4. /\ box' = d.box
        /\ applied' = applied \cup PointsOf(d.out) \cup {}
        /\ again' = again \cup (applied \cap PointsOf(d.out))
        /\ UNCHANGED diff
    BY <1>4 DEF Feed, Record
  <2>. HIDE DEF d
  <2>. QED  BY <1>1, <1>2, <1>4, <2>1, <2>2, <2>3, <2>4, FreshFeed
<1>5. CASE ReceiveAffected(u)
  <2>. DEFINE d == UpdateAndApplyPts(box, u)
  <2>1. /\ d.out \subseteq box.queue
        /\ d.box.queue \subseteq box.queue
        /\ d.box.requesting = box.requesting
        /\ ~Counts(box, u) => d.box.good = box.good /\ d.box.last = box.last
        /\ Counts(box, u) => /\ d.box.last = Larger(box.last, u.pts)
                             /\ d.box.count = box.count + u.count
                             /\ d.box.last = d.box.count =>
                                  d.box.good = d.box.last /\ d.box.queue = {}
                             /\ d.box.last # d.box.count => d.box.good = box.good
    BY <1>1, <1>2, UpdateAndApplyPtsFacts
  <2>2. d.out # {} /\ ~box.requesting => Counts(box, u) /\ d.box.last = d.box.count
    <3>1. d.out # {} /\ ~box.requesting => Counts(box, u) /\ c.last = c.count
      BY <1>1, <1>2, AppliesInTurn DEF c
    <3>. HIDE DEF d
    <3>. QED  BY <1>3, <2>1, <3>1
  <2>3. /\ box' = d.box
        /\ applied' = applied \cup PointsOf(d.out) \cup Points(u)
        /\ again' = again \cup (applied \cap PointsOf(d.out))
        /\ u.via = "affected" /\ UNCHANGED <<server, diff>>
        /\ net' = net \ {u}
    BY <1>5 DEF ReceiveAffected, Record
  <2>. HIDE DEF d
  <2>4. u \in d.out => u.via # "affected"
    BY <2>1 DEF Fresh
  <2>5. /\ d.out \subseteq box.queue \cup {u}
        /\ d.box.queue \subseteq box.queue \cup {u}
        /\ u \in d.box.queue => u \in box.queue
    BY <2>1
  <2>. QED  BY <1>1, <1>2, <2>1, <2>2, <2>3, <2>4, <2>5, FreshFeed
<1>6. CASE ReceivePush(u) /\ box.requesting
  <2>1. UNCHANGED <<client, server, history>> /\ net' \subseteq net
    BY <1>6 DEF ReceivePush
  <2>2. Reach' = Reach
    BY <2>1 DEF Reach, client, server
  <2>3. Fresh'
    BY <2>1, <2>2, FreshKept DEF client, history
  <2>. QED  BY <2>1, <2>3 DEF RepeatsUnchecked, history
<1>. QED
  BY <1>4, <1>5, <1>6 DEF Feeding, ReceivePush, ReceiveResult

LEMMA FreshAsk ==
  ASSUME IInv, IInv', Fresh, Asking
  PROVE  Fresh' /\ RepeatsUnchecked
<1>1. box \in Boxes(Updates)
  BY DEF IInv, TypeOK
<1>2. PICK rest \in SUBSET net :
        FeedUnchecked(rest) /\ (rest # {} => ~box.requesting)
  BY AskingFacts
<1>3. GetDifference(box) /\ net' \subseteq net /\ UNCHANGED server
  BY AskingFacts
<1>4. box.requesting => applied' = applied /\ again' = again
  BY <1>2 DEF FeedUnchecked, PointsOf
<1>5. Fresh' /\ box'.requesting
  BY <1>1, <1>3, <1>4, FreshAsking
<1>. QED  BY <1>4, <1>5 DEF RepeatsUnchecked

(* The answers: a whole one ends the asking at its pts, below which lies   *)
(* all that was pushed before it.                                          *)
LEMMA FreshRespond ==
  ASSUME IInv, IInv', Fresh, Respond
  PROVE  Fresh' /\ again' = again
<1>1. /\ box \in Boxes(Updates) /\ box.good \in Nat
      /\ diff.upto \in Nat /\ diff.from \in Nat
      /\ AskedFromGood
  BY DEF IInv, TypeOK, Boxes, Request
<1>. DEFINE r == SetRequesting(InitAt(box, diff.upto), FALSE)
<1>2. /\ r \in Boxes(Updates) /\ r.queue = {} /\ ~r.requesting
      /\ r.good = diff.upto /\ r.last = diff.upto
  BY <1>1, ReinitedFacts
<1>3. ASSUME diff.stage \in {"gotState", "slice", "whole"}
      PROVE  /\ box.good <= diff.upto /\ IsBoundary(diff.upto) /\ box.requesting
             /\ (diff.from + 1) .. diff.upto \subseteq 1 .. diff.upto
  BY <1>1, <1>3 DEF AskedFromGood
<1>4. CASE StateDone
  <2>1. /\ diff.stage = "gotState" /\ box' = r
        /\ applied' = applied \cup 1 .. diff.upto
        /\ UNCHANGED <<again, server, net>>
    BY <1>4 DEF StateDone
  <2>. HIDE DEF r
  <2>2. Reach = diff.upto /\ Reach' = diff.upto
    BY <1>2, <1>3, <2>1 DEF Reach
  <2>. QED  BY <1>1, <1>2, <1>3, <2>1, <2>2, FreshStart
<1>5. CASE DifferenceDone
  <2>1. /\ diff.stage = "whole" /\ box' = r
        /\ applied' = applied \cup (diff.from + 1) .. diff.upto
        /\ UNCHANGED <<again, server, net>>
    BY <1>5 DEF DifferenceDone
  <2>. HIDE DEF r
  <2>2. Reach = diff.upto /\ Reach' = diff.upto
    BY <1>2, <1>3, <2>1 DEF Reach
  <2>. QED  BY <1>1, <1>2, <1>3, <2>1, <2>2, FreshStart
<1>6. CASE DifferenceSlice
  <2>1. /\ diff.stage = "slice" /\ GetDifference(r)
        /\ applied' = applied \cup (diff.from + 1) .. diff.upto
        /\ UNCHANGED <<again, server, net>>
    BY <1>6 DEF DifferenceSlice
  <2>. HIDE DEF r
  <2>2. /\ box'.good = r.good /\ box'.last = r.last /\ box'.queue \subseteq r.queue
        /\ box'.requesting
        /\ diff' = [stage |-> "asked", from |-> r.good, upto |-> r.good]
    BY <1>2, <2>1, GetDifferenceFacts
  <2>3. /\ box'.good = diff.upto /\ box'.last = diff.upto /\ box'.queue = {}
        /\ diff'.stage = "asked"
    BY <1>2, <2>2
  <2>4. Reach' = spts
    BY <2>1, <2>2, <2>3 DEF Reach, server
  <2>. QED  BY <1>1, <1>3, <2>1, <2>3, <2>4, FreshStart
<1>7. CASE DifferenceFail
  <2>1. /\ diff.stage = "error" /\ diff' = NoRequest
        /\ UNCHANGED <<box, server, net, history>>
    BY <1>7 DEF DifferenceFail
  <2>2. box.requesting /\ diff'.stage = "idle"
    BY <1>1, <2>1 DEF AskedFromGood, NoRequest
  <2>3. Reach' = spts
    BY <2>1, <2>2 DEF Reach, server
  <2>. QED  BY <2>1, <2>3, FreshKept DEF history
<1>. QED  BY <1>4, <1>5, <1>6, <1>7 DEF Respond

LEMMA FreshClient ==
  ASSUME IInv, IInv', WaitIsHeld, Fresh, Client
  PROVE  Fresh' /\ RepeatsUnchecked
<1>1. CASE FailTimer
  <2>. DEFINE b == SetRequesting(box, FALSE)
  <2>1. box \in Boxes(Updates)
    BY DEF IInv, TypeOK
  <2>2. /\ b \in Boxes(Updates) /\ b.good = box.good /\ b.last = box.last
        /\ b.queue \subseteq box.queue /\ b.requesting = FALSE
    BY <2>1, SetRequestingFacts
  <2>3. GetDifference(b) /\ UNCHANGED <<server, net, history>>
    BY <1>1 DEF FailTimer
  <2>. HIDE DEF b
  <2>4. Fresh'
    BY <2>2, <2>3, FreshAsking
  <2>. QED  BY <2>3, <2>4 DEF RepeatsUnchecked, history
<1>2. CASE Respond
  BY <1>2, FreshRespond DEF RepeatsUnchecked
<1>. QED  BY <1>1, <1>2, ClientSplit, FreshAsk, FreshReceive

(* The server and the network.                                             *)
LEMMA FreshAnswer ==
  ASSUME IInv, IInv', Fresh,
         \/ AnswerState
         \/ AnswerWhole
         \/ \E upto \in Boundaries : AnswerSlice(upto)
         \/ AnswerError
  PROVE  Fresh'
<1>1. /\ diff \in Request /\ AskedFromGood
      /\ UNCHANGED <<box, server, net, applied>>
  BY DEF IInv, TypeOK, AnswerState, AnswerWhole, AnswerSlice, AnswerError, history
<1>2. diff.stage \in {"state", "asked"} /\ box.requesting
  BY <1>1 DEF AnswerState, AnswerWhole, AnswerSlice, AnswerError, AskedFromGood
<1>3. \/ diff'.stage \in {"gotState", "whole"} /\ diff'.upto = spts
      \/ diff'.stage \in {"slice", "error"}
  BY <1>1 DEF AnswerState, AnswerWhole, AnswerSlice, AnswerError, Request
<1>4. Reach' = spts
  BY <1>1, <1>2, <1>3 DEF Reach, server
<1>. QED  BY <1>1, <1>4, FreshKept

LEMMA FreshProduce ==
  ASSUME IInv, IInv', WaitIsHeld', Fresh,
         NEW n \in PtsCounts, NEW way \in Ways, Produce(n, way)
  PROVE  Fresh'
<1>. DEFINE u == [pts |-> spts + n, count |-> n, via |-> way]
<1>1. /\ log' = log \cup {u} /\ net' = net \cup {u} /\ spts' = spts + n
      /\ u.pts = spts + n /\ u.count = n
      /\ UNCHANGED <<box, diff, applied>>
  BY DEF Produce, client, history
<1>. HIDE DEF u
<1>2. /\ box.good \in Nat /\ box.last \in Nat /\ spts \in Nat /\ n \in Nat /\ n # 0
      /\ box.good <= spts /\ box.last <= spts /\ box.queue \subseteq log
      /\ diff \in Request /\ diff.upto \in Nat
      /\ TypeOK /\ LogIsOrdered
  BY <1>1, ConstantsAssumption
  DEF IInv, TypeOK, Boxes, CountIsHeard, HeardIsKept, WaitIsHeld, Request
<1>3. IsBoundary(box.good)' /\ IsBoundary(box.last)'
  BY <1>1, <1>2 DEF Fresh, IsBoundary
<1>4. u \notin log
  BY <1>1, <1>2, LogUpdate
<1>5. Fetched \subseteq Fetched' /\ (net \cap box.queue = {} => net' \cap box'.queue = {})
  BY <1>1, <1>2, <1>4 DEF Fetched, Awaited
<1>6. PointsOf(Fetched) \subseteq PointsOf(Fetched')
  BY <1>5, PointsOfSubset
<1>7. 1 .. Reach \subseteq 1 .. Reach'
  <2>1. Reach' = Reach \/ (Reach = spts /\ Reach' = spts + n)
    BY <1>1 DEF Reach
  <2>2. 1 .. spts \subseteq 1 .. (spts + n)
    BY <1>2
  <2>. QED  BY <2>1, <2>2
<1>. QED  BY <1>1, <1>3, <1>5, <1>6, <1>7 DEF Fresh

LEMMA FreshStep ==
  IInv /\ IInv' /\ WaitIsHeld /\ WaitIsHeld' /\ Fresh /\ [Next]_vars
    => Fresh' /\ [RepeatsUnchecked]_vars
<1>. SUFFICES ASSUME IInv, IInv', WaitIsHeld, WaitIsHeld', Fresh, [Next]_vars
              PROVE  Fresh' /\ (RepeatsUnchecked \/ UNCHANGED vars)
  OBVIOUS
<1>1. CASE Client
  BY <1>1, FreshClient
<1>2. CASE Environment
  <2>1. UNCHANGED again
    BY <1>2 DEF Environment, Produce, Lose, AnswerState, AnswerWhole, AnswerSlice,
         AnswerError, history
  <2>2. ASSUME NEW u \in net, Lose(u)
        PROVE  Fresh'
    <3>1. UNCHANGED <<client, server, history>> /\ net' \subseteq net
      BY <2>2 DEF Lose
    <3>2. Reach' = Reach
      BY <3>1 DEF Reach, client, server
    <3>. QED  BY <3>1, <3>2, FreshKept DEF client, history
  <2>3. Fresh'
    BY <1>2, <2>2, FreshProduce, FreshAnswer DEF Environment
  <2>. QED  BY <2>1, <2>3 DEF RepeatsUnchecked
<1>3. CASE UNCHANGED vars
  <2>1. UNCHANGED <<client, server, net, history>>
    BY <1>3 DEF vars
  <2>2. Reach' = Reach
    BY <2>1 DEF Reach, client, server
  <2>. QED  BY <1>3, <2>1, <2>2, FreshKept DEF client, history
<1>. QED  BY <1>1, <1>2, <1>3 DEF Next

LEMMA FreshInit == Init => Fresh
<1>. SUFFICES ASSUME Init PROVE Fresh
  OBVIOUS
<1>1. EmptyBox \in Boxes(Updates) /\ EmptyBox.queue = {}
  BY DEF EmptyBox, Boxes
<1>2. box.queue = {}
  BY <1>1, SetRequestingFacts DEF Init
<1>3. log = {} /\ applied = {} /\ net = {}
  BY DEF Init
<1>. QED  BY <1>2, <1>3 DEF Fresh, IsBoundary

LEMMA Freshness == GapsTakePts => (Spec => [](WaitIsHeld /\ Fresh))
<1>. SUFFICES ASSUME GapsTakePts PROVE Spec => [](WaitIsHeld /\ Fresh)
  OBVIOUS
<1>1. Init => WaitIsHeld /\ Fresh
  BY WaitInit, FreshInit
<1>2. IInv /\ IInv' /\ WaitIsHeld /\ Fresh /\ [Next]_vars => WaitIsHeld' /\ Fresh'
  BY WaitStep, FreshStep
<1>. QED  BY <1>1, <1>2, Invariance, PTL DEF Spec

(* A box that trusts its pts applies nothing over itself, and one that asks*)
(* only what it lets through unchecked.                                    *)
THEOREM NeverReplays == GapsTakePts => (Spec => NoReplay)
<1>. SUFFICES ASSUME GapsTakePts PROVE Spec => NoReplay
  OBVIOUS
<1>1. /\ IInv /\ IInv' /\ WaitIsHeld /\ WaitIsHeld' /\ Fresh /\ [Next]_vars
      => [RepeatsUnchecked]_vars
  BY FreshStep
<1>. QED  BY <1>1, Invariance, Freshness, PTL DEF Spec, NoReplay

(* When the box does not ask, no pushed update is in the data ahead of its *)
(* pts, those that were fed behind an entry that asked included.           *)
THEOREM AppliesInOrder == GapsTakePts => (Spec => []InOrder)
<1>. SUFFICES ASSUME GapsTakePts PROVE Spec => []InOrder
  OBVIOUS
<1>1. IInv /\ Fresh => InOrder
  <2>. SUFFICES ASSUME IInv, Fresh, ~box.requesting, NEW u \in log,
                       u.via = "push", u.count > 0, Points(u) \subseteq applied
                PROVE  u.pts <= box.good
    BY DEF InOrder
  <2>1. u.pts \in Nat /\ u.count \in Nat /\ box.good \in Nat
    BY LogUpdate DEF IInv, TypeOK, Boxes
  <2>2. u.pts \in Points(u)
    BY <2>1 DEF Points
  <2>3. ~(box.good < u.pts)
    BY <2>2, AwaitedIsFresh
  <2>. QED  BY <2>1, <2>3
<1>. QED  BY <1>1, Invariance, Freshness, PTL

-----------------------------------------------------------------------------
(* Asking goes on.                                                         *)

(* A box that asks has one difference to come, or the time to ask again:   *)
(* getDifference() never leaves it with none, and never asks for a second  *)
(* one, so that diff needs to hold one request only.                       *)
OneDifference ==
  /\ box.requesting <=> (diff.stage # "idle" \/ failTimer)
  /\ ~(diff.stage # "idle" /\ failTimer)

(* Getting an update that is not a reason to ask leaves the asking alone.  *)
LEMMA ReceivedAsBefore ==
  ASSUME IInv, NEW u \in net, Feeding(u)
  PROVE  box'.requesting = box.requesting /\ UNCHANGED <<diff, failTimer>>
<1>1. /\ box \in Boxes(Updates) /\ u \in Updates /\ u.pts \in Nat /\ u.count \in Nat
      /\ box.requesting \/ Inited(box)
      /\ box.queue # {} => box.waiting
  BY LogUpdate DEF IInv, TypeOK, AskedFromGood, HeardIsKept
<1>2. UpdateAndApply(box, u).box.requesting = box.requesting
  BY <1>1, UpdateAndApplyFacts
<1>3. UpdateAndApplyPts(box, u).box.requesting = box.requesting
  BY <1>1, UpdateAndApplyPtsFacts
<1>4. /\ UNCHANGED <<diff, failTimer>>
      /\ \/ box' = box
         \/ box' = UpdateAndApply(box, u).box
         \/ box' = UpdateAndApplyPts(box, u).box
  BY DEF Feeding, ReceivePush, ReceiveResult, ReceiveAffected, Feed, client
<1>. QED  BY <1>2, <1>3, <1>4

(* No step leaves the box asking for nothing, or for two.                  *)
LEMMA OneDifferenceNext ==
  ASSUME IInv, OneDifference, [Next]_vars
  PROVE  OneDifference'
<1>1. /\ box \in Boxes(Updates) /\ diff \in Request /\ diff.upto \in Nat
      /\ failTimer \in BOOLEAN /\ box.requesting \in BOOLEAN
  BY DEF IInv, TypeOK, Request, Boxes
<1>2. ASSUME box'.requesting = box.requesting, UNCHANGED failTimer,
             diff'.stage = "idle" <=> diff.stage = "idle"
      PROVE  OneDifference'
  BY <1>2 DEF OneDifference
<1>3. ASSUME NEW b \in Boxes(Updates), GetDifference(b), b.requesting => box.requesting
      PROVE  OneDifference'
  <2>1. CASE b.requesting
    <3>1. box'.requesting = TRUE /\ diff' = diff /\ failTimer' = failTimer
      BY <1>3, <2>1, GetDifferenceFacts
    <3>. QED  BY <1>1, <1>3, <2>1, <3>1 DEF OneDifference
  <2>2. CASE ~b.requesting
    <3>1. /\ box'.requesting /\ failTimer' = FALSE
          /\ diff' = [stage |-> "asked", from |-> b.good, upto |-> b.good]
      BY <1>3, <2>2, GetDifferenceFacts
    <3>2. diff'.stage = "asked"
      BY <3>1
    <3>. QED  BY <3>1, <3>2 DEF OneDifference
  <2>. QED  BY <2>1, <2>2
<1>4. CASE \E u \in net : Feeding(u)
  BY <1>2, <1>4, ReceivedAsBefore
<1>5. CASE Asking
  BY <1>1, <1>3, <1>5, AskingFacts
<1>6. CASE FailTimer
  <2>1. SetRequesting(box, FALSE) \in Boxes(Updates) /\ ~SetRequesting(box, FALSE).requesting
    BY <1>1, SetRequestingFacts
  <2>. QED  BY <1>3, <1>6, <2>1 DEF FailTimer
<1>. DEFINE r == SetRequesting(InitAt(box, diff.upto), FALSE)
<1>7. r \in Boxes(Updates) /\ ~r.requesting
  BY <1>1, ReinitedFacts
<1>8. CASE StateDone \/ DifferenceDone
  <2>1. /\ diff.stage # "idle" /\ box' = r /\ diff' = NoRequest /\ failTimer' = failTimer
    BY <1>8 DEF StateDone, DifferenceDone
  <2>. HIDE DEF r
  <2>. QED  BY <1>7, <2>1 DEF OneDifference, NoRequest
<1>9. CASE DifferenceSlice
  <2>1. GetDifference(r)
    BY <1>9 DEF DifferenceSlice
  <2>. HIDE DEF r
  <2>. QED  BY <1>3, <1>7, <2>1
<1>10. CASE DifferenceFail
  <2>1. diff.stage = "error" /\ failTimer' = TRUE /\ diff' = NoRequest /\ box' = box
    BY <1>10 DEF DifferenceFail
  <2>. QED  BY <2>1 DEF OneDifference, NoRequest
<1>11. CASE Environment
  <2>1. ASSUME \/ \E n \in PtsCounts, way \in Ways : Produce(n, way)
               \/ \E u \in net : Lose(u)
        PROVE  UNCHANGED client
    BY <2>1 DEF Produce, Lose
  <2>2. ASSUME AnswerState \/ AnswerWhole \/ (\E upto \in Boundaries : AnswerSlice(upto))
                 \/ AnswerError
        PROVE  /\ UNCHANGED <<box, failTimer>> /\ diff.stage # "idle"
               /\ diff'.stage # "idle"
    BY <1>1, <2>2 DEF AnswerState, AnswerWhole, AnswerSlice, AnswerError, Request
  <2>. QED  BY <1>2, <1>11, <2>1, <2>2 DEF Environment, client
<1>12. CASE UNCHANGED vars
  BY <1>2, <1>12 DEF vars, client
<1>. QED
  BY <1>4, <1>5, <1>6, <1>8, <1>9, <1>10, <1>11, <1>12, ClientSplit DEF Next, Respond

(* A box that asks is answered or asks again: whatever the server fails to *)
(* do and whatever else gives it a reason to ask, just one difference is   *)
(* in flight or planned.                                                   *)
THEOREM AskingGoesOn == Spec => []OneDifference
<1>1. Init => OneDifference
  <2>1. EmptyBox \in Boxes(Updates)
    BY DEF EmptyBox, Boxes
  <2>2. SetRequesting(EmptyBox, TRUE).requesting = TRUE
    BY <2>1, SetRequestingFacts
  <2>. SUFFICES ASSUME Init PROVE OneDifference
    OBVIOUS
  <2>3. box.requesting = TRUE /\ diff.stage = "state" /\ failTimer = FALSE
    BY <2>2 DEF Init
  <2>. QED  BY <2>3 DEF OneDifference
<1>2. IInv /\ OneDifference /\ [Next]_vars => OneDifference'
  BY OneDifferenceNext
<1>. QED  BY <1>1, <1>2, Invariance, PTL DEF Spec

=============================================================================
