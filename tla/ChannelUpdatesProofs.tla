------------------------ MODULE ChannelUpdatesProofs -------------------------
(***************************************************************************)
(* IInv is an inductive invariant of ChannelUpdates for every way updates  *)
(* come in, with failures and with a box that starts without a pts; so the *)
(* channel's box implements UpdateLog.  Where gaps are found by updates    *)
(* that take pts and the pts is known from the start, the timer serves the *)
(* gaps and the short polls together.                                      *)
(*                                                                         *)
(* Against module UpdatesProofs two things are new: a pts that is made     *)
(* known is counted without taking any, and the first pts a box is told    *)
(* becomes its start.                                                      *)
(***************************************************************************)
EXTENDS ChannelUpdates, PtsWaiterProofs

\* What UpdateLog asks of every step of the client.
Grows ==
  /\ box.good <= box'.good
  /\ applied \subseteq applied'

-----------------------------------------------------------------------------
(* The log and what is on its way.                                         *)

LEMMA LogUpdate ==
  ASSUME TypeOK, LogIsOrdered, NEW u \in log
  PROVE  /\ u \in Messages
         /\ u.pts \in Nat /\ u.count \in Nat
         /\ StartPts <= u.pts /\ u.pts <= spts /\ u.count <= u.pts
         /\ Points(u) \subseteq 1 .. spts
         /\ IsBoundary(u.pts)
<1>1. /\ u \in Messages /\ spts \in Nat /\ StartPts \in Nat
      /\ \A v \in log : v.pts \in Nat /\ v.count \in Nat
  BY ConstantsAssumption DEF TypeOK, Messages
<1>2. u.pts \in Nat /\ u.count \in Nat /\ StartPts + u.count <= u.pts /\ u.pts <= spts
  BY <1>1 DEF LogIsOrdered
<1>3. StartPts <= u.pts /\ u.count <= u.pts
  BY <1>1, <1>2
<1>4. Points(u) \subseteq 1 .. u.pts
  BY <1>2, <1>3, PointsAreCount
<1>5. 1 .. u.pts \subseteq 1 .. spts
  BY <1>1, <1>2
<1>6. \A v \in log : v.pts <= u.pts \/ u.pts <= v.pts - v.count
  BY <1>1, <1>2 DEF LogIsOrdered, Before
<1>. QED  BY <1>1, <1>2, <1>3, <1>4, <1>5, <1>6 DEF IsBoundary

LEMMA PointsOfLog ==
  ASSUME TypeOK, LogIsOrdered, NEW U, U \subseteq log
  PROVE  PointsOf(U) \subseteq 1 .. spts
<1>1. \A u \in U : Points(u) \subseteq 1 .. spts
  BY LogUpdate
<1>. QED  BY <1>1 DEF PointsOf

LEMMA ServerPtsIsBoundary ==
  ASSUME TypeOK, LogIsOrdered
  PROVE  IsBoundary(spts)
<1>1. \A u \in log : u.pts <= spts
  BY LogUpdate
<1>. QED  BY <1>1 DEF IsBoundary

(* A message on its way, update or bare pts.                               *)
LEMMA NetMessage ==
  ASSUME TypeOK, LogIsOrdered, NetIsOfLog, NEW u \in net
  PROVE  /\ u \in Messages
         /\ u.pts \in Nat /\ u.count \in Nat
         /\ StartPts <= u.pts /\ u.pts <= spts /\ u.count <= u.pts
         /\ Points(u) \subseteq 1 .. spts
         /\ IsBoundary(u.pts)
         /\ u.via # "known" => u \in log
         /\ u.via = "known" => u.count = 0
<1>1. u \in Messages /\ u.pts \in Nat /\ u.count \in Nat /\ spts \in Nat
  BY DEF TypeOK, Messages
<1>2. CASE u.via # "known" /\ u \in log
  BY <1>1, <1>2, LogUpdate
<1>3. CASE u.via = "known"
  <2>1. /\ u.count = 0 /\ StartPts <= u.pts /\ u.pts <= spts
        /\ IsBoundary(u.pts)
    BY <1>3 DEF NetIsOfLog
  <2>2. Points(u) = {}
    BY <1>1, <2>1 DEF Points
  <2>. QED  BY <1>1, <1>3, <2>1, <2>2
<1>. QED  BY <1>2, <1>3 DEF NetIsOfLog

(* Two messages on their way cover different pts.                          *)
LEMMA NetIsDisjoint ==
  ASSUME TypeOK, LogIsOrdered, NetIsOfLog, NEW u \in net, NEW v \in net, u # v
  PROVE  Points(u) \cap Points(v) = {}
<1>1. u.pts \in Nat /\ u.count \in Nat /\ v.pts \in Nat /\ v.count \in Nat
  BY NetMessage
<1>2. CASE u.count = 0 \/ v.count = 0
  BY <1>1, <1>2 DEF Points
<1>3. CASE u.count # 0 /\ v.count # 0
  <2>1. u \in log /\ v \in log
    BY <1>3, NetMessage
  <2>2. Before(u, v) \/ Before(v, u)
    BY <2>1 DEF LogIsOrdered
  <2>. QED  BY <1>1, <2>2 DEF Before, Points
<1>. QED  BY <1>2, <1>3

(* Counting a message that is on its way.                                  *)
LEMMA CountingStep ==
  ASSUME TypeOK, LogIsOrdered, NetIsOfLog, CountIsHeard,
         NEW u \in net, Counts(box, u)
  PROVE  LET h == heard \cup Points(u)
             last == Larger(box.last, u.pts)
             count == box.count + u.count
         IN  /\ last \in Nat /\ box.last <= last /\ last <= spts
             /\ h \subseteq (base + 1) .. last
             /\ count = base + Cardinality(h)
             /\ last = count => h = (base + 1) .. last
<1>1. box \in Boxes(Messages) /\ base \in Nat /\ spts \in Nat
  BY DEF TypeOK
<1>2. u.pts \in Nat /\ u.count \in Nat /\ u.count <= u.pts /\ u.pts <= spts
  BY NetMessage
<1>3. /\ base <= box.good /\ box.good <= box.last /\ box.last <= spts
      /\ heard \subseteq (base + 1) .. box.last
      /\ box.count = base + Cardinality(heard)
      /\ Points(u) \cap heard = {}
  BY DEF CountIsHeard
<1>4. u.pts <= base \/ base <= u.pts - u.count
  <2>1. CASE u.via # "known"
    BY <2>1, NetMessage DEF CountIsHeard, IsBoundary
  <2>2. CASE u.via = "known"
    <3>1. u.count = 0
      BY <2>2, NetMessage
    <3>. QED  BY <1>1, <1>2, <3>1
  <2>. QED  BY <2>1, <2>2
<1>. QED  BY <1>1, <1>2, <1>3, <1>4, Counting

-----------------------------------------------------------------------------
(* A message handed to a box that has a pts: out is what the box applied   *)
(* and own what the caller applied itself.                                 *)
LEMMA FeedStep ==
  ASSUME IInv, Inited(box),
         NEW u \in net, NEW out, NEW own,
         own \in {{}, Points(u)},
         net' = net \ {u},
         box' \in Boxes(Messages),
         box'.requesting = box.requesting,
         out \subseteq log,
         box'.queue \subseteq log,
         box'.queue # {} => box'.waiting,
         box.queue \subseteq box'.queue \cup out,
         ~Counts(box, u) => /\ box'.good = box.good
                            /\ box'.last = box.last
                            /\ box'.count = box.count,
         Counts(box, u) => /\ box'.last = Larger(box.last, u.pts)
                           /\ box'.count = box.count + u.count
                           /\ u \in box'.queue \cup out \/ own = Points(u)
                           /\ box'.last = box'.count =>
                                box'.good = box'.last /\ box'.queue = {}
                           /\ box'.last # box'.count => box'.good = box.good,
         heard' = IF Counts(box, u) THEN heard \cup Points(u) ELSE heard,
         applied' = applied \cup PointsOf(out) \cup own,
         UNCHANGED <<base, failTimer, active, diff, server>>
  PROVE  IInv' /\ Grows
<1>. USE DEF server
<1>1. TypeOK /\ LogIsOrdered /\ NetIsOfLog /\ CountIsHeard /\ HeardIsKept
      /\ AskedFromGood /\ AppliedIsProduced /\ NothingSkipped
  BY DEF IInv
<1>2. /\ box \in Boxes(Messages) /\ box.good \in Nat /\ box.last \in Nat
      /\ box.count \in Nat /\ base \in Nat /\ spts \in Nat
      /\ box'.good \in Nat /\ box'.last \in Nat /\ box'.count \in Nat
  BY <1>1 DEF TypeOK, Boxes
<1>3. /\ u.pts \in Nat /\ u.count \in Nat /\ u.count <= u.pts /\ u.pts <= spts
      /\ Points(u) \subseteq 1 .. spts
      /\ u.via # "known" => u \in log
      /\ u.via = "known" => u.count = 0
  BY <1>1, NetMessage
<1>4. PointsOf(out) \subseteq 1 .. spts
  BY <1>1, PointsOfLog
<1>5. /\ box.last <= box'.last /\ box'.last <= spts
      /\ heard' \subseteq (base + 1) .. box'.last
      /\ box'.count = base + Cardinality(heard')
      /\ Counts(box, u) /\ box'.last = box'.count => heard' = (base + 1) .. box'.last
  <2>1. CASE Counts(box, u)
    <3>. DEFINE h == heard \cup Points(u)
                last == Larger(box.last, u.pts)
    <3>1. /\ box.last <= last /\ last <= spts
          /\ h \subseteq (base + 1) .. last
          /\ box.count + u.count = base + Cardinality(h)
          /\ last = box.count + u.count => h = (base + 1) .. last
      BY <1>1, <2>1, CountingStep
    <3>2. heard' = h /\ box'.last = last /\ box'.count = box.count + u.count
      BY <2>1
    <3>. QED  BY <3>1, <3>2
  <2>2. CASE ~Counts(box, u)
    BY <1>1, <1>2, <2>2 DEF CountIsHeard
  <2>. QED  BY <2>1, <2>2
<1>6. heard' \subseteq heard \cup Points(u)
  OBVIOUS
<1>7. applied' \subseteq 1 .. spts
  BY <1>1, <1>3, <1>4 DEF AppliedIsProduced
<1>8. TypeOK'
  <2>1. 1 .. spts \subseteq Nat
    BY <1>2
  <2>2. heard' \subseteq Nat /\ applied' \subseteq Nat
    BY <1>1, <1>3, <1>6, <1>7, <2>1 DEF TypeOK
  <2>. QED  BY <1>1, <2>2 DEF TypeOK
<1>9. LogIsOrdered' /\ NetIsOfLog'
  BY <1>1 DEF LogIsOrdered, Before, NetIsOfLog, IsBoundary
<1>10. box.good <= box'.good /\ box'.good <= box'.last
  BY <1>1, <1>2, <1>5 DEF CountIsHeard
<1>11. CountIsHeard'
  <2>1. \A v \in net' : Points(v) \cap heard' = {}
    <3>. SUFFICES ASSUME NEW v \in net'
                  PROVE  Points(v) \cap heard' = {}
      OBVIOUS
    <3>1. v \in net /\ v # u
      OBVIOUS
    <3>2. Points(v) \cap Points(u) = {}
      BY <1>1, <3>1, NetIsDisjoint
    <3>3. Points(v) \cap heard = {}
      BY <1>1, <3>1 DEF CountIsHeard
    <3>. QED  BY <1>6, <3>2, <3>3
  <2>2. base' <= box'.good
    BY <1>1, <1>2, <1>10 DEF CountIsHeard
  <2>3. IsBoundary(base)'
    BY <1>1 DEF CountIsHeard, IsBoundary
  <2>. QED  BY <1>5, <1>10, <2>1, <2>2, <2>3 DEF CountIsHeard
<1>12. HeardIsKept'
  <2>1. ASSUME ~box.requesting
        PROVE  heard' \subseteq applied' \cup PointsOf(box'.queue)
    <3>1. PointsOf(box.queue) \subseteq PointsOf(box'.queue) \cup PointsOf(out)
      <4>1. PointsOf(box.queue) \subseteq PointsOf(box'.queue \cup out)
        BY PointsOfSubset
      <4>. QED  BY <4>1, PointsOfUnion
    <3>2. heard \subseteq applied' \cup PointsOf(box'.queue)
      BY <1>1, <2>1, <3>1 DEF HeardIsKept
    <3>3. Counts(box, u) => Points(u) \subseteq applied' \cup PointsOf(box'.queue)
      BY PointsOfElement
    <3>. QED  BY <3>2, <3>3
  <2>. QED  BY <2>1 DEF HeardIsKept
<1>13. AskedFromGood'
  <2>1. box.requesting => box'.good = box.good
    BY DEF Counts
  <2>2. Inited(box)'
    BY <1>2, <1>10 DEF Inited
  <2>. QED  BY <1>1, <2>1, <2>2 DEF AskedFromGood, IsBoundary, Inited
<1>14. AppliedIsProduced'
  BY <1>7 DEF AppliedIsProduced
<1>15. NothingSkipped'
  <2>1. CASE box'.good = box.good
    BY <1>1, <2>1 DEF NothingSkipped
  <2>2. CASE box'.good # box.good
    <3>1. /\ Counts(box, u) /\ box'.last = box'.count
          /\ box'.good = box'.last /\ box'.queue = {}
      BY <2>2
    <3>2. PointsOf(box'.queue) = {}
      BY <3>1 DEF PointsOf
    <3>3. (base + 1) .. box'.good \subseteq applied'
      BY <1>5, <1>12, <3>1, <3>2 DEF HeardIsKept, Counts
    <3>4. 1 .. base \subseteq applied'
      BY <1>1, <1>2 DEF NothingSkipped, CountIsHeard
    <3>5. 1 .. box'.good \subseteq (1 .. base) \cup ((base + 1) .. box'.good)
      BY <1>2
    <3>. QED  BY <3>3, <3>4, <3>5 DEF NothingSkipped
  <2>. QED  BY <2>1, <2>2
<1>. QED
  BY <1>8, <1>9, <1>10, <1>11, <1>12, <1>13, <1>14, <1>15 DEF IInv, Grows

(* The box starts from p with nothing counted: with the first pts it is    *)
(* told, and with the pts of a difference.                                 *)
LEMMA RestartStep ==
  ASSUME IInv, NEW p \in Nat, NEW more,
         p # 0, box.good <= p, p <= spts, IsBoundary(p),
         box' \in Boxes(Messages),
         box'.good = p, box'.last = p, box'.count = p, box'.queue = {},
         base' = p, heard' = {},
         applied' = applied \cup more,
         more \subseteq 1 .. spts,
         (box.good + 1) .. p \subseteq more,
         diff' \in Request, failTimer' \in BOOLEAN,
         diff'.stage # "idle" => /\ box'.requesting
                                 /\ diff'.stage = "asked"
                                 /\ diff'.from = p,
         net' \subseteq net,
         UNCHANGED <<active, server>>
  PROVE  IInv' /\ Grows
<1>. USE DEF server
<1>1. TypeOK /\ LogIsOrdered /\ NetIsOfLog /\ AppliedIsProduced /\ NothingSkipped
  BY DEF IInv
<1>2. spts \in Nat /\ box.good \in Nat
  BY <1>1 DEF TypeOK, Boxes
<1>3. applied' \subseteq 1 .. spts /\ 1 .. p \subseteq applied'
  <2>1. 1 .. p \subseteq (1 .. box.good) \cup ((box.good + 1) .. p)
    BY <1>2
  <2>. QED  BY <1>1, <2>1 DEF AppliedIsProduced, NothingSkipped
<1>4. TypeOK'
  <2>1. applied' \subseteq Nat /\ heard' \subseteq Nat
    BY <1>2, <1>3
  <2>. QED  BY <1>1, <2>1 DEF TypeOK
<1>5. LogIsOrdered' /\ NetIsOfLog'
  BY <1>1 DEF LogIsOrdered, Before, NetIsOfLog, IsBoundary
<1>6. CountIsHeard'
  <2>1. Cardinality({}) = 0
    BY FS_EmptySet
  <2>2. box'.count = base' + Cardinality(heard')
    BY <2>1
  <2>. QED  BY <1>2, <2>2 DEF CountIsHeard, IsBoundary
<1>7. HeardIsKept'
  BY DEF HeardIsKept
<1>8. AskedFromGood'
  BY DEF AskedFromGood, Inited
<1>9. AppliedIsProduced' /\ NothingSkipped' /\ Grows
  BY <1>3 DEF AppliedIsProduced, NothingSkipped, Grows
<1>. QED  BY <1>4, <1>5, <1>6, <1>7, <1>8, <1>9 DEF IInv

(* The counters and the queue stay.                                        *)
LEMMA QuietStep ==
  ASSUME IInv,
         box' \in Boxes(Messages),
         box'.good = box.good, box'.last = box.last, box'.count = box.count,
         box'.waiting = box.waiting, box'.queue \subseteq box.queue,
         box.requesting => box'.requesting,
         box'.requesting => Inited(box),
         ~box'.requesting => box'.queue = box.queue,
         failTimer' \in BOOLEAN, active' \in BOOLEAN, diff' \in Request,
         \/ diff' = diff
         \/ diff'.stage = "idle"
         \/ box'.requesting /\ diff'.stage = "asked" /\ diff'.from = box.good,
         net' \subseteq net,
         UNCHANGED <<server, history>>
  PROVE  IInv' /\ Grows
<1>. USE DEF server, history
<1>1. TypeOK /\ LogIsOrdered /\ NetIsOfLog /\ CountIsHeard /\ HeardIsKept
      /\ AskedFromGood /\ AppliedIsProduced /\ NothingSkipped
  BY DEF IInv
<1>2. TypeOK'
  BY <1>1 DEF TypeOK
<1>3. LogIsOrdered' /\ NetIsOfLog'
  BY <1>1 DEF LogIsOrdered, Before, NetIsOfLog, IsBoundary
<1>4. CountIsHeard'
  BY <1>1 DEF CountIsHeard, IsBoundary
<1>5. HeardIsKept'
  BY <1>1 DEF HeardIsKept
<1>6. AskedFromGood'
  <2>1. Inited(box)' <=> Inited(box)
    BY DEF Inited
  <2>. QED  BY <1>1, <2>1 DEF AskedFromGood, IsBoundary
<1>7. AppliedIsProduced' /\ NothingSkipped'
  BY <1>1 DEF AppliedIsProduced, NothingSkipped
<1>8. Grows
  BY <1>1 DEF Grows, TypeOK, Boxes
<1>. QED  BY <1>2, <1>3, <1>4, <1>5, <1>6, <1>7, <1>8 DEF IInv

-----------------------------------------------------------------------------
(* The steps of the server and the network.                                *)

LEMMA ProduceStep ==
  ASSUME IInv, NEW n \in PtsCounts, NEW way \in Ways, Produce(n, way)
  PROVE  IInv'
<1>. DEFINE u == [pts |-> spts + n, count |-> n, via |-> way]
<1>. USE DEF client, history
<1>1. TypeOK /\ LogIsOrdered /\ NetIsOfLog /\ CountIsHeard /\ HeardIsKept
      /\ AskedFromGood /\ AppliedIsProduced /\ NothingSkipped
  BY DEF IInv
<1>2. /\ n \in Nat /\ way \in AllWays /\ way # "known"
      /\ spts \in Nat /\ spts + n \in Nat
      /\ StartPts \in Nat /\ base \in Nat /\ box.last \in Nat /\ box.good \in Nat
  BY <1>1, ConstantsAssumption DEF TypeOK, Boxes, Produce
<1>3. /\ log' = log \cup {u} /\ net' = net \cup {u} /\ spts' = spts + n
      /\ u \in Messages /\ u.pts = spts + n /\ u.count = n /\ u.via # "known"
  BY <1>2 DEF Produce, Messages
<1>. HIDE DEF u
<1>4. UNCHANGED <<box, failTimer, active, diff, base, heard, applied>>
  BY DEF Produce
<1>5. \A v \in log : v.pts \in Nat /\ v.count \in Nat /\ v.pts <= spts
  BY <1>1, LogUpdate
<1>6. TypeOK'
  BY <1>1, <1>2, <1>3, <1>4 DEF TypeOK
<1>7. LogIsOrdered'
  <2>1. spts' >= StartPts
    BY <1>1, <1>2, <1>3 DEF LogIsOrdered
  <2>2. \A v \in log' : StartPts + v.count <= v.pts /\ v.pts <= spts'
    BY <1>1, <1>2, <1>3, <1>5 DEF LogIsOrdered
  <2>3. \A v \in log : Before(v, u)
    BY <1>2, <1>3, <1>5 DEF Before
  <2>4. \A v, w \in log' : v = w \/ Before(v, w) \/ Before(w, v)
    BY <1>1, <1>3, <2>3 DEF LogIsOrdered
  <2>. QED  BY <2>1, <2>2, <2>4 DEF LogIsOrdered, Before
<1>8. \A p \in Nat : p <= spts /\ IsBoundary(p) =>
        \A v \in log' : v.pts <= p \/ p <= v.pts - v.count
  BY <1>2, <1>3, <1>5 DEF IsBoundary
<1>9. NetIsOfLog'
  <2>1. ASSUME NEW v \in net
        PROVE  \/ v.via # "known" /\ v \in log'
               \/ /\ v.via = "known" /\ v.count = 0
                  /\ StartPts <= v.pts /\ v.pts <= spts'
                  /\ \A w \in log' : w.pts <= v.pts \/ v.pts <= w.pts - w.count
    <3>1. /\ v.pts \in Nat /\ StartPts <= v.pts /\ v.pts <= spts /\ IsBoundary(v.pts)
          /\ v.via # "known" => v \in log
          /\ v.via = "known" => v.count = 0
      BY <1>1, NetMessage
    <3>. QED  BY <1>2, <1>3, <1>8, <3>1
  <2>. QED  BY <1>3, <2>1 DEF NetIsOfLog, IsBoundary
<1>10. CountIsHeard'
  <2>1. Points(u) \cap heard = {}
    BY <1>1, <1>2, <1>3 DEF CountIsHeard, Points
  <2>2. \A v \in net' : Points(v) \cap heard' = {}
    BY <1>1, <1>3, <1>4, <2>1 DEF CountIsHeard
  <2>3. base <= spts /\ box.last <= spts'
    BY <1>1, <1>2, <1>3 DEF CountIsHeard
  <2>4. IsBoundary(base)'
    BY <1>1, <1>2, <1>4, <1>8, <2>3 DEF CountIsHeard, IsBoundary
  <2>. QED  BY <1>1, <1>4, <2>2, <2>3, <2>4 DEF CountIsHeard
<1>11. HeardIsKept'
  BY <1>1, <1>3, <1>4 DEF HeardIsKept
<1>12. AskedFromGood'
  <2>1. diff.upto \in Nat
    BY <1>1 DEF TypeOK, Request
  <2>2. ASSUME diff.stage \in {"part", "last"}
        PROVE  /\ diff.from <= diff.upto /\ diff.upto <= spts'
               /\ \A v \in log' : v.pts <= diff.upto \/ diff.upto <= v.pts - v.count
    <3>1. /\ diff.from <= diff.upto /\ diff.upto <= spts
          /\ IsBoundary(diff.upto)
      BY <1>1, <2>2 DEF AskedFromGood
    <3>. QED  BY <1>2, <1>3, <1>8, <2>1, <3>1
  <2>. QED  BY <1>1, <1>4, <2>2 DEF AskedFromGood, IsBoundary, Inited
<1>13. AppliedIsProduced'
  BY <1>1, <1>2, <1>3, <1>4 DEF AppliedIsProduced
<1>14. NothingSkipped'
  BY <1>1, <1>4 DEF NothingSkipped
<1>. QED
  BY <1>6, <1>7, <1>9, <1>10, <1>11, <1>12, <1>13, <1>14 DEF IInv

LEMMA TellPtsStep ==
  ASSUME IInv, TellPts
  PROVE  IInv'
<1>. DEFINE u == [pts |-> spts, count |-> 0, via |-> "known"]
<1>. USE DEF client, server, history
<1>1. TypeOK /\ LogIsOrdered /\ NetIsOfLog /\ CountIsHeard /\ HeardIsKept
      /\ AskedFromGood /\ AppliedIsProduced /\ NothingSkipped
  BY DEF IInv
<1>2. spts \in Nat /\ StartPts <= spts /\ IsBoundary(spts)
  BY <1>1, ConstantsAssumption, ServerPtsIsBoundary DEF TypeOK, LogIsOrdered
<1>3. /\ net' = net \cup {u} /\ u \in Messages
      /\ u.via = "known" /\ u.count = 0 /\ u.pts = spts
  BY <1>2 DEF TellPts, Messages, AllWays
<1>. HIDE DEF u
<1>4. UNCHANGED <<client, server, history>>
  BY DEF TellPts
<1>5. TypeOK' /\ LogIsOrdered'
  BY <1>1, <1>3, <1>4 DEF TypeOK, LogIsOrdered, Before
<1>6. NetIsOfLog'
  BY <1>1, <1>2, <1>3, <1>4 DEF NetIsOfLog, IsBoundary
<1>7. CountIsHeard'
  <2>1. Points(u) = {}
    BY <1>2, <1>3 DEF Points
  <2>2. \A v \in net' : Points(v) \cap heard = {}
    BY <1>1, <1>3, <2>1 DEF CountIsHeard
  <2>. QED  BY <1>1, <1>4, <2>2 DEF CountIsHeard, IsBoundary
<1>8. HeardIsKept' /\ AskedFromGood'
  BY <1>1, <1>4 DEF HeardIsKept, AskedFromGood, IsBoundary, Inited
<1>9. AppliedIsProduced' /\ NothingSkipped'
  BY <1>1, <1>4 DEF AppliedIsProduced, NothingSkipped
<1>. QED  BY <1>5, <1>6, <1>7, <1>8, <1>9 DEF IInv

(* Every answer of the server.                                             *)
LEMMA AnswerStep ==
  ASSUME IInv,
         (\E upto \in Boundaries : Answer(upto)) \/ AnswerError
  PROVE  IInv'
<1>. USE DEF server, history
<1>1. TypeOK /\ LogIsOrdered /\ AskedFromGood
  BY DEF IInv
<1>2. /\ diff \in Request /\ spts \in Nat /\ StartPts \in Nat /\ StartPts <= spts
  BY <1>1, ConstantsAssumption DEF TypeOK, LogIsOrdered
<1>3. /\ diff.stage = "asked" /\ diff' \in Request /\ diff'.from = diff.from
      /\ diff'.stage \in {"part", "last"} =>
           /\ diff.from <= diff'.upto /\ diff'.upto <= spts
           /\ IsBoundary(diff'.upto)
      /\ UNCHANGED <<box, failTimer, active, server, net, history>>
  <2>1. ASSUME NEW upto \in Boundaries, Answer(upto)
        PROVE  <1>3!:
    <3>1. upto \in Nat /\ upto <= spts /\ IsBoundary(upto)
      <4>1. CASE upto = StartPts
        <5>1. \A v \in log : v.pts \in Nat /\ v.count \in Nat /\ StartPts <= v.pts - v.count
          BY <1>1, <1>2, LogUpdate DEF LogIsOrdered
        <5>. QED  BY <1>2, <4>1, <5>1 DEF IsBoundary
      <4>2. CASE \E v \in log : upto = v.pts
        BY <1>1, <4>2, LogUpdate
      <4>. QED  BY <4>1, <4>2 DEF Boundaries
    <3>2. PICK stage \in {"part", "last"} :
            diff' = [diff EXCEPT !.upto = upto, !.stage = stage]
      BY <2>1 DEF Answer
    <3>3. /\ diff' \in Request /\ diff'.from = diff.from /\ diff'.upto = upto
      BY <1>2, <3>1, <3>2 DEF Request, Stages
    <3>4. /\ diff.stage = "asked" /\ diff.from <= upto
          /\ UNCHANGED <<box, failTimer, active, server, net, history>>
      BY <2>1 DEF Answer
    <3>. QED  BY <3>1, <3>3, <3>4
  <2>2. ASSUME AnswerError
        PROVE  <1>3!:
    <3>1. /\ diff' = [diff EXCEPT !.stage = "error"]
          /\ diff.stage = "asked"
          /\ UNCHANGED <<box, failTimer, active, server, net, history>>
      BY <2>2 DEF AnswerError
    <3>2. diff' \in Request /\ diff'.from = diff.from /\ diff'.stage = "error"
      BY <1>2, <3>1 DEF Request, Stages
    <3>. QED  BY <3>1, <3>2
  <2>. QED  BY <2>1, <2>2
<1>4. TypeOK' /\ LogIsOrdered'
  BY <1>3 DEF IInv, TypeOK, LogIsOrdered, Before
<1>5. NetIsOfLog' /\ CountIsHeard' /\ HeardIsKept'
  BY <1>3 DEF IInv, NetIsOfLog, CountIsHeard, HeardIsKept, IsBoundary
<1>6. AskedFromGood'
  BY <1>1, <1>3 DEF AskedFromGood, IsBoundary, Inited
<1>7. AppliedIsProduced' /\ NothingSkipped'
  BY <1>3 DEF IInv, AppliedIsProduced, NothingSkipped
<1>. QED  BY <1>4, <1>5, <1>6, <1>7 DEF IInv

-----------------------------------------------------------------------------
(* The updates the client gets.                                            *)

LEMMA InitAtFacts ==
  ASSUME NEW w \in Boxes(Messages), NEW pts \in Nat
  PROVE  LET r == InitAt(w, pts) IN
         /\ r \in Boxes(Messages)
         /\ r.good = pts /\ r.last = pts /\ r.count = pts /\ r.queue = {}
         /\ r.requesting = w.requesting
         /\ r.polling = w.polling /\ r.timer = w.timer
BY DEF InitAt, Boxes

(* The first pts a box is told.                                            *)
LEMMA FirstFacts ==
  ASSUME NEW w \in Boxes(Messages), ~Inited(w), ~w.requesting, w.queue = {},
         NEW u \in Messages, u.pts \in Nat, u.pts # 0
  PROVE  /\ \A d \in {UpdateAndApply(w, u), UpdateAndApplyPts(w, u)} :
              /\ d.box \in Boxes(Messages)
              /\ d.box.good = u.pts /\ d.box.last = u.pts
              /\ d.box.count = u.pts /\ d.box.queue = {}
              /\ d.box.requesting = FALSE
         /\ UpdateAndApply(w, u).out = {u}
         /\ UpdateAndApplyPts(w, u).out = {}
<1>. DEFINE c == InitAt(w, u.pts)
<1>1. w.good \in Nat /\ w.good = 0 /\ w.requesting \in BOOLEAN
  BY DEF Boxes, Inited
<1>2. Counts(w, u) /\ InTurn(w, u) /\ Check(w, u) = c
  BY <1>1 DEF Counts, Outdated, InTurn, Check
<1>3. /\ c \in Boxes(Messages)
      /\ c.good = u.pts /\ c.last = u.pts /\ c.count = u.pts /\ c.queue = {}
      /\ c.requesting = FALSE
  BY <1>1, InitAtFacts
<1>. HIDE DEF c
<1>4. UpdateAndApply(w, u) = [box |-> c, out |-> {u}]
  BY <1>2, <1>3 DEF UpdateAndApply, Applying
<1>5. UpdateAndApplyPts(w, u) = [box |-> Flush(c), out |-> Flushed(c)]
  BY <1>2 DEF UpdateAndApplyPts
<1>6. /\ Flush(c) \in Boxes(Messages)
      /\ Flush(c).good = c.good /\ Flush(c).last = c.last
      /\ Flush(c).count = c.count /\ Flush(c).requesting = c.requesting
      /\ Flush(c).queue = {} /\ Flushed(c) = {}
  BY <1>3, FlushFacts
<1>7. /\ UpdateAndApply(w, u).box = c /\ UpdateAndApply(w, u).out = {u}
      /\ UpdateAndApplyPts(w, u).box = Flush(c)
      /\ UpdateAndApplyPts(w, u).out = {}
  BY <1>4, <1>5, <1>6
<1>. QED  BY <1>3, <1>6, <1>7

LEMMA ReceiveStep ==
  ASSUME IInv, NEW u \in net, ReceivePush(u) \/ ReceivePts(u)
  PROVE  IInv' /\ Grows
<1>1. TypeOK /\ LogIsOrdered /\ NetIsOfLog /\ HeardIsKept /\ AskedFromGood
  BY DEF IInv
<1>2. /\ box \in Boxes(Messages) /\ diff \in Request /\ spts \in Nat
      /\ box.good \in Nat
      /\ failTimer \in BOOLEAN /\ active \in BOOLEAN
  BY <1>1 DEF TypeOK, Boxes
<1>3. /\ u \in Messages /\ u.pts \in Nat /\ u.count \in Nat /\ u.pts # 0
      /\ u.pts <= spts /\ IsBoundary(u.pts) /\ Points(u) \subseteq 1 .. spts
      /\ u.via # "known" => u \in log
  BY <1>1, NetMessage, ConstantsAssumption
<1>4. CASE ReceivePush(u) /\ box.requesting
  <2>1. /\ net' \subseteq net
        /\ UNCHANGED <<box, failTimer, active, diff, server, history>>
    BY <1>4 DEF ReceivePush
  <2>2. Inited(box)
    BY <1>1, <1>4 DEF AskedFromGood
  <2>. QED  BY <1>2, <2>1, <2>2, QuietStep
<1>5. CASE /\ (ReceivePush(u) /\ ~box.requesting) \/ ReceivePts(u)
           /\ ~Inited(box)
  <2>1. box.good = 0 /\ ~box.requesting /\ box.queue = {} /\ diff.stage = "idle"
    BY <1>1, <1>2, <1>5 DEF AskedFromGood, Inited
  <2>2. PICK d \in {UpdateAndApply(box, u), UpdateAndApplyPts(box, u)},
             got \in SUBSET (1 .. spts) :
          /\ net' = net \ {u} /\ box' = d.box /\ Record(u, got)
          /\ UNCHANGED <<failTimer, active, diff, server>>
    <3>1. CASE ReceivePush(u) /\ ~box.requesting
      <4>1. /\ net' = net \ {u} /\ box' = UpdateAndApply(box, u).box
            /\ Record(u, PointsOf(UpdateAndApply(box, u).out))
            /\ UNCHANGED <<failTimer, active, diff, server>>
        BY <3>1 DEF ReceivePush
      <4>2. UpdateAndApply(box, u).out = {u}
        BY <1>2, <1>3, <1>5, <2>1, FirstFacts
      <4>3. PointsOf({u}) = Points(u)
        BY DEF PointsOf
      <4>. QED  BY <1>3, <4>1, <4>2, <4>3
    <3>2. CASE ReceivePts(u)
      <4>1. /\ net' = net \ {u} /\ box' = UpdateAndApplyPts(box, u).box
            /\ Record(u, PointsOf(UpdateAndApplyPts(box, u).out) \cup Points(u))
            /\ UNCHANGED <<failTimer, active, diff, server>>
        BY <3>2 DEF ReceivePts
      <4>2. UpdateAndApplyPts(box, u).out = {} /\ PointsOf({}) = {}
        BY <1>2, <1>3, <1>5, <2>1, FirstFacts DEF PointsOf
      <4>3. PointsOf(UpdateAndApplyPts(box, u).out) \cup Points(u) = Points(u)
        BY <4>2
      <4>. QED  BY <1>3, <4>1, <4>3
    <3>. QED  BY <1>5, <3>1, <3>2
  <2>3. /\ box' \in Boxes(Messages)
        /\ box'.good = u.pts /\ box'.last = u.pts /\ box'.count = u.pts
        /\ box'.queue = {}
    BY <1>2, <1>3, <1>5, <2>1, <2>2, FirstFacts
  <2>. DEFINE more == got \cup 1 .. u.pts
  <2>4. base' = u.pts /\ heard' = {} /\ applied' = applied \cup more
    BY <1>5, <2>1, <2>2 DEF Record
  <2>5. more \subseteq 1 .. spts /\ (box.good + 1) .. u.pts \subseteq more
    <3>1. 1 .. u.pts \subseteq 1 .. spts /\ (box.good + 1) .. u.pts = 1 .. u.pts
      BY <1>2, <1>3, <2>1
    <3>. QED  BY <2>2, <3>1
  <2>. HIDE DEF more
  <2>6. /\ net' \subseteq net /\ diff' = diff /\ failTimer' = failTimer
        /\ UNCHANGED <<active, server>> /\ box.good <= u.pts
    BY <1>3, <2>1, <2>2
  <2>. QED  BY <1>2, <1>3, <2>1, <2>3, <2>4, <2>5, <2>6, RestartStep
<1>6. CASE ReceivePush(u) /\ ~box.requesting /\ Inited(box)
  <2>. DEFINE d == UpdateAndApply(box, u)
  <2>1. u \in log
    BY <1>3, <1>6 DEF ReceivePush
  <2>2. /\ d.box \in Boxes(Messages)
        /\ d.box.requesting = box.requesting
        /\ d.out \subseteq box.queue \cup {u}
        /\ d.box.queue \subseteq box.queue \cup {u}
        /\ d.box.queue # {} => d.box.waiting
        /\ box.queue \subseteq d.box.queue \cup d.out
        /\ ~Counts(box, u) => /\ d.box.good = box.good
                              /\ d.box.last = box.last
                              /\ d.box.count = box.count
        /\ Counts(box, u) => /\ d.box.last = Larger(box.last, u.pts)
                             /\ d.box.count = box.count + u.count
                             /\ u \in d.box.queue \cup d.out
                             /\ d.box.last = d.box.count =>
                                  d.box.good = d.box.last /\ d.box.queue = {}
                             /\ d.box.last # d.box.count => d.box.good = box.good
    BY <1>1, <1>2, <1>3, <1>6, UpdateAndApplyFacts DEF HeardIsKept
  <2>3. /\ net' = net \ {u} /\ box' = d.box
        /\ Record(u, PointsOf(d.out))
        /\ UNCHANGED <<failTimer, active, diff, server>>
    BY <1>6 DEF ReceivePush
  <2>. HIDE DEF d
  <2>4. /\ heard' = IF Counts(box, u) THEN heard \cup Points(u) ELSE heard
        /\ applied' = applied \cup PointsOf(d.out) \cup {}
        /\ base' = base
    BY <1>6, <2>3 DEF Record
  <2>5. d.out \subseteq log /\ d.box.queue \subseteq log
    BY <1>1, <2>1, <2>2 DEF HeardIsKept
  <2>. QED  BY <1>6, <2>2, <2>3, <2>4, <2>5, FeedStep
<1>7. CASE ReceivePts(u) /\ Inited(box)
  <2>. DEFINE d == UpdateAndApplyPts(box, u)
  <2>1. /\ d.box \in Boxes(Messages)
        /\ d.box.requesting = box.requesting
        /\ d.out \subseteq box.queue
        /\ d.box.queue \subseteq box.queue
        /\ d.box.queue # {} => d.box.waiting
        /\ box.queue \subseteq d.box.queue \cup d.out
        /\ ~Counts(box, u) => /\ d.box.good = box.good
                              /\ d.box.last = box.last
                              /\ d.box.count = box.count
        /\ Counts(box, u) => /\ d.box.last = Larger(box.last, u.pts)
                             /\ d.box.count = box.count + u.count
                             /\ d.box.last = d.box.count =>
                                  d.box.good = d.box.last /\ d.box.queue = {}
                             /\ d.box.last # d.box.count => d.box.good = box.good
    BY <1>1, <1>2, <1>3, <1>7, UpdateAndApplyPtsFacts DEF HeardIsKept
  <2>2. /\ net' = net \ {u} /\ box' = d.box
        /\ Record(u, PointsOf(d.out) \cup Points(u))
        /\ UNCHANGED <<failTimer, active, diff, server>>
    BY <1>7 DEF ReceivePts
  <2>. HIDE DEF d
  <2>3. /\ heard' = IF Counts(box, u) THEN heard \cup Points(u) ELSE heard
        /\ applied' = applied \cup PointsOf(d.out) \cup Points(u)
        /\ base' = base
    BY <1>7, <2>2 DEF Record
  <2>4. d.out \subseteq log /\ d.box.queue \subseteq log
    BY <1>1, <2>1 DEF HeardIsKept
  <2>. QED  BY <1>7, <2>1, <2>2, <2>3, <2>4, FeedStep
<1>. QED  BY <1>4, <1>5, <1>6, <1>7

-----------------------------------------------------------------------------
(* The timers, the responses and the windows.                              *)

LEMMA SetRequestingFacts ==
  ASSUME NEW w \in Boxes(Messages), NEW on \in BOOLEAN
  PROVE  LET r == SetRequesting(w, on) IN
         /\ r \in Boxes(Messages)
         /\ r.good = w.good /\ r.last = w.last /\ r.count = w.count
         /\ r.waiting = w.waiting /\ r.polling = w.polling /\ r.timer = w.timer
         /\ r.requesting = on
         /\ r.queue \subseteq w.queue
<1>1. CASE on
  BY <1>1 DEF SetRequesting, Boxes
<1>2. CASE ~on
  BY <1>2 DEF SetRequesting, Boxes
<1>. QED  BY <1>1, <1>2

(* getChannelDifference() leaves the counters alone and asks from the      *)
(* known pts; or it does nothing.                                          *)
LEMMA GetChannelDifferenceFacts ==
  ASSUME NEW b \in Boxes(Messages), NEW retry \in BOOLEAN,
         GetChannelDifference(b, retry)
  PROVE  /\ box' \in Boxes(Messages) /\ failTimer' \in BOOLEAN
         /\ box'.good = b.good /\ box'.last = b.last /\ box'.count = b.count
         /\ box'.waiting = b.waiting /\ box'.polling = b.polling
         /\ box'.queue \subseteq b.queue
         /\ ~box'.requesting => box'.queue = b.queue
         /\ ~Inited(b) \/ b.requesting => box' = b /\ diff' = diff
         /\ Inited(b) /\ ~b.requesting =>
              box'.requesting /\ diff' = [stage |-> "asked", from |-> b.good, upto |-> b.good]
<1>1. CASE ~Inited(b) \/ b.requesting
  BY <1>1 DEF GetChannelDifference
<1>2. CASE Inited(b) /\ ~b.requesting
  <2>1. /\ box' = SetRequesting(b, TRUE) /\ failTimer' = FALSE
        /\ diff' = [stage |-> "asked", from |-> b.good, upto |-> b.good]
    BY <1>2 DEF GetChannelDifference
  <2>. QED  BY <1>2, <2>1, SetRequestingFacts
<1>. QED  BY <1>1, <1>2

LEMMA UntimedFacts ==
  ASSUME NEW w \in Boxes(Messages)
  PROVE  LET b == Untimed(w) IN
         /\ b \in Boxes(Messages)
         /\ b.good = w.good /\ b.last = w.last /\ b.count = w.count
         /\ b.queue = w.queue /\ b.requesting = w.requesting
         /\ b.waiting = w.waiting /\ b.polling = w.polling
         /\ b.timer = FALSE
BY DEF Untimed, Boxes

LEMMA AskingStep ==
  ASSUME IInv, PtsTimer \/ TooLong \/ FailTimer
  PROVE  IInv' /\ Grows
<1>. DEFINE b == Untimed(box)
<1>1. /\ box \in Boxes(Messages) /\ diff \in Request /\ failTimer \in BOOLEAN
      /\ active \in BOOLEAN /\ box.good \in Nat
      /\ AskedFromGood
  BY DEF IInv, TypeOK, Boxes
<1>2. PICK retry \in BOOLEAN :
        /\ GetChannelDifference(b, retry)
        /\ UNCHANGED <<active, server, net, history>>
  BY <1>1 DEF PtsTimer, TooLong, FailTimer
<1>3. /\ b \in Boxes(Messages)
      /\ b.good = box.good /\ b.last = box.last /\ b.count = box.count
      /\ b.queue = box.queue /\ b.requesting = box.requesting
      /\ b.waiting = box.waiting
  BY <1>1, UntimedFacts
<1>. HIDE DEF b
<1>4. /\ box' \in Boxes(Messages) /\ failTimer' \in BOOLEAN
      /\ box'.good = b.good /\ box'.last = b.last /\ box'.count = b.count
      /\ box'.waiting = b.waiting
      /\ box'.queue \subseteq b.queue
      /\ ~box'.requesting => box'.queue = b.queue
      /\ ~Inited(b) \/ b.requesting => box' = b /\ diff' = diff
      /\ Inited(b) /\ ~b.requesting =>
           box'.requesting /\ diff' = [stage |-> "asked", from |-> b.good, upto |-> b.good]
  BY <1>2, <1>3, GetChannelDifferenceFacts
<1>5. Inited(b) <=> Inited(box)
  BY <1>3 DEF Inited
<1>6. box'.requesting => Inited(box)
  BY <1>1, <1>3, <1>4, <1>5 DEF AskedFromGood
<1>7. /\ diff' \in Request
      /\ \/ diff' = diff
         \/ box'.requesting /\ diff'.stage = "asked" /\ diff'.from = box.good
  <2>1. [stage |-> "asked", from |-> b.good, upto |-> b.good] \in Request
    BY <1>1, <1>3 DEF Request, Stages
  <2>. QED  BY <1>1, <1>3, <1>4, <2>1
<1>8. box.requesting => box'.requesting
  BY <1>3, <1>4
<1>. QED  BY <1>1, <1>2, <1>3, <1>4, <1>6, <1>7, <1>8, QuietStep

LEMMA RespondStep ==
  ASSUME IInv, Respond
  PROVE  IInv' /\ Grows
<1>. DEFINE r == SetRequesting(InitAt(box, diff.upto), FALSE)
            more == (diff.from + 1) .. diff.upto
<1>1. /\ box \in Boxes(Messages) /\ diff \in Request /\ failTimer \in BOOLEAN
      /\ active \in BOOLEAN /\ box.good \in Nat /\ spts \in Nat
      /\ diff.upto \in Nat /\ diff.from \in Nat
      /\ AskedFromGood
  BY DEF IInv, TypeOK, Boxes, Request
<1>2. /\ r \in Boxes(Messages)
      /\ r.good = diff.upto /\ r.last = diff.upto /\ r.count = diff.upto
      /\ r.queue = {} /\ r.requesting = FALSE
  <2>1. /\ InitAt(box, diff.upto) \in Boxes(Messages)
        /\ InitAt(box, diff.upto).good = diff.upto
        /\ InitAt(box, diff.upto).last = diff.upto
        /\ InitAt(box, diff.upto).count = diff.upto
        /\ InitAt(box, diff.upto).queue = {}
    BY <1>1, InitAtFacts
  <2>. QED  BY <2>1, SetRequestingFacts
<1>3. Reinited = r
  BY DEF Reinited
<1>4. NoRequest \in Request /\ NoRequest.stage = "idle"
  BY DEF NoRequest, Request, Stages
<1>5. diff.stage # "idle" => Inited(box) /\ box.good # 0 /\ diff.from = box.good
  BY <1>1 DEF AskedFromGood, Inited
<1>6. diff.stage \in {"part", "last"} =>
        /\ diff.upto # 0 /\ box.good <= diff.upto /\ diff.upto <= spts
        /\ IsBoundary(diff.upto)
        /\ more \subseteq 1 .. spts /\ (box.good + 1) .. diff.upto \subseteq more
  BY <1>1, <1>5 DEF AskedFromGood
<1>. HIDE DEF r, more
<1>7. CASE DifferencePart
  <2>1. /\ diff.stage = "part" /\ GetChannelDifference(Untimed(r), failTimer)
        /\ base' = diff.upto /\ heard' = {} /\ applied' = applied \cup more
        /\ UNCHANGED <<active, server, net>>
    BY <1>3, <1>7 DEF DifferencePart, InitFromDifference, more
  <2>. DEFINE b == Untimed(r)
  <2>2. /\ b \in Boxes(Messages)
        /\ b.good = diff.upto /\ b.last = diff.upto /\ b.count = diff.upto
        /\ b.queue = {} /\ ~b.requesting
    BY <1>2, UntimedFacts
  <2>. HIDE DEF b
  <2>3. Inited(b)
    BY <1>1, <1>6, <2>1, <2>2 DEF Inited
  <2>4. /\ box' \in Boxes(Messages) /\ failTimer' \in BOOLEAN
        /\ box'.good = b.good /\ box'.last = b.last /\ box'.count = b.count
        /\ box'.queue \subseteq b.queue /\ box'.requesting
        /\ diff' = [stage |-> "asked", from |-> b.good, upto |-> b.good]
    BY <1>1, <2>1, <2>2, <2>3, GetChannelDifferenceFacts DEF b
  <2>5. diff' \in Request /\ diff'.stage = "asked" /\ diff'.from = diff.upto
    BY <1>1, <2>2, <2>4 DEF Request, Stages
  <2>6. box'.queue = {}
    BY <2>2, <2>4
  <2>. QED  BY <1>1, <1>6, <2>1, <2>2, <2>4, <2>5, <2>6, RestartStep
<1>8. CASE DifferenceLast
  <2>1. /\ diff.stage = "last" /\ box' = IF active THEN StartPolling(r) ELSE r
        /\ base' = diff.upto /\ heard' = {} /\ applied' = applied \cup more
        /\ diff' = NoRequest
        /\ UNCHANGED <<failTimer, active, server, net>>
    BY <1>3, <1>8 DEF DifferenceLast, InitFromDifference, more
  <2>2. /\ StartPolling(r) \in Boxes(Messages)
        /\ StartPolling(r).good = diff.upto /\ StartPolling(r).last = diff.upto
        /\ StartPolling(r).count = diff.upto /\ StartPolling(r).queue = {}
    BY <1>2 DEF StartPolling, Boxes
  <2>3. /\ box' \in Boxes(Messages)
        /\ box'.good = diff.upto /\ box'.last = diff.upto /\ box'.count = diff.upto
        /\ box'.queue = {}
    BY <1>2, <2>1, <2>2
  <2>. QED  BY <1>1, <1>4, <1>6, <2>1, <2>3, RestartStep
<1>9. CASE DifferenceFail
  <2>1. /\ diff.stage = "error" /\ failTimer' = TRUE /\ diff' = NoRequest
        /\ UNCHANGED <<box, active, server, net, history>>
    BY <1>9 DEF DifferenceFail
  <2>2. Inited(box)
    BY <1>5, <2>1
  <2>. QED  BY <1>1, <1>4, <2>1, <2>2, QuietStep
<1>. QED  BY <1>7, <1>8, <1>9 DEF Respond

(* Opening and closing a chat change the timer only.                       *)
LEMMA WindowStep ==
  ASSUME IInv, Activate \/ Deactivate \/ Leave
  PROVE  IInv' /\ Grows
<1>1. /\ box \in Boxes(Messages) /\ diff \in Request /\ failTimer \in BOOLEAN
      /\ AskedFromGood /\ active \in BOOLEAN
  BY DEF IInv, TypeOK
<1>2. /\ box' \in {box, StartPolling(box), StopPolling(box)}
      /\ active' \in BOOLEAN
      /\ UNCHANGED <<failTimer, diff, server, net, history>>
  BY <1>1 DEF Activate, Deactivate, Leave
<1>3. ASSUME NEW w \in {box, StartPolling(box), StopPolling(box)}
      PROVE  /\ w \in Boxes(Messages)
             /\ w.good = box.good /\ w.last = box.last /\ w.count = box.count
             /\ w.waiting = box.waiting /\ w.queue = box.queue
             /\ w.requesting = box.requesting
  BY <1>1 DEF StartPolling, StopPolling, Boxes
<1>4. /\ box' \in Boxes(Messages)
      /\ box'.good = box.good /\ box'.last = box.last /\ box'.count = box.count
      /\ box'.waiting = box.waiting /\ box'.queue = box.queue
      /\ box'.requesting = box.requesting
  BY <1>2, <1>3
<1>5. box'.requesting => Inited(box)
  BY <1>1, <1>4 DEF AskedFromGood
<1>. QED  BY <1>1, <1>2, <1>4, <1>5, QuietStep

LEMMA ClientStep ==
  ASSUME IInv, Client
  PROVE  IInv' /\ Grows
BY ReceiveStep, AskingStep, RespondStep, WindowStep DEF Client

-----------------------------------------------------------------------------
LEMMA InitIsInductive == Init => IInv
<1>. SUFFICES ASSUME Init PROVE IInv
  OBVIOUS
<1>1. /\ box = InitAt(EmptyBox, FirstPts)
      /\ diff = NoRequest /\ diff.stage = "idle"
      /\ failTimer = FALSE /\ active = FALSE /\ spts = StartPts
      /\ log = {} /\ net = {} /\ base = FirstPts
      /\ heard = {} /\ applied = 1 .. FirstPts
  BY DEF Init, NoRequest
<1>2. FirstPts \in Nat /\ StartPts \in Nat /\ FirstPts <= StartPts
  BY ConstantsAssumption
<1>3. EmptyBox \in Boxes(Messages) /\ EmptyBox.requesting = FALSE
  BY DEF EmptyBox, Boxes
<1>4. /\ box \in Boxes(Messages)
      /\ box.good = FirstPts /\ box.last = FirstPts /\ box.count = FirstPts
      /\ box.requesting = FALSE /\ box.queue = {}
  BY <1>1, <1>2, <1>3, InitAtFacts
<1>5. TypeOK
  <2>1. diff \in Request /\ 1 .. FirstPts \subseteq Nat
    BY <1>1, <1>2 DEF NoRequest, Request, Stages
  <2>. QED  BY <1>1, <1>2, <1>4, <2>1 DEF TypeOK
<1>6. LogIsOrdered /\ NetIsOfLog
  BY <1>1, <1>2 DEF LogIsOrdered, NetIsOfLog
<1>7. CountIsHeard
  <2>1. Cardinality(heard) = 0
    BY <1>1, FS_EmptySet
  <2>2. box.count = base + Cardinality(heard)
    BY <1>1, <1>2, <1>4, <2>1
  <2>3. base <= box.good /\ box.good <= box.last /\ box.last <= spts
    BY <1>1, <1>2, <1>4
  <2>4. heard = {} /\ log = {} /\ net = {}
    BY <1>1
  <2>. QED  BY <2>2, <2>3, <2>4 DEF CountIsHeard, IsBoundary
<1>8. HeardIsKept
  BY <1>1, <1>4 DEF HeardIsKept
<1>9. AskedFromGood
  BY <1>1, <1>2, <1>4 DEF AskedFromGood, Inited
<1>10. AppliedIsProduced /\ NothingSkipped
  BY <1>1, <1>2, <1>4 DEF AppliedIsProduced, NothingSkipped
<1>. QED  BY <1>5, <1>6, <1>7, <1>8, <1>9, <1>10 DEF IInv

LEMMA EnvironmentStep ==
  ASSUME IInv, Environment
  PROVE  IInv'
<1>1. ASSUME NEW u \in net, Lose(u)
      PROVE  IInv'
  <2>1. net' \subseteq net /\ UNCHANGED <<box, failTimer, active, diff, server, history>>
    BY <1>1 DEF Lose, client
  <2>2. /\ box \in Boxes(Messages) /\ diff \in Request
        /\ failTimer \in BOOLEAN /\ active \in BOOLEAN
        /\ box.requesting => Inited(box)
    BY DEF IInv, TypeOK, AskedFromGood
  <2>. QED  BY <2>1, <2>2, QuietStep
<1>. QED  BY <1>1, ProduceStep, TellPtsStep, AnswerStep DEF Environment

LEMMA StutteringStep ==
  ASSUME IInv, UNCHANGED vars
  PROVE  IInv'
<1>. USE DEF vars, client, server, history
<1>1. /\ box \in Boxes(Messages) /\ diff \in Request
      /\ failTimer \in BOOLEAN /\ active \in BOOLEAN
      /\ box.requesting => Inited(box)
  BY DEF IInv, TypeOK, AskedFromGood
<1>. QED  BY <1>1, QuietStep

LEMMA NextIsInductive == IInv /\ [Next]_vars => IInv'
BY EnvironmentStep, ClientStep, StutteringStep DEF Next

(* IInv holds in every reachable state.                                    *)
THEOREM Invariance == Spec => []IInv
<1>. QED  BY InitIsInductive, NextIsInductive, PTL DEF Spec

(* Type correctness.                                                       *)
THEOREM TypeCorrect == Spec => []TypeOK
<1>1. IInv => TypeOK
  BY DEF IInv
<1>. QED  BY <1>1, Invariance, PTL

-----------------------------------------------------------------------------
LEMMA InitImplements == Init => Log!Init
<1>. SUFFICES ASSUME Init PROVE Log!Init
  OBVIOUS
<1>1. FirstPts \in Nat /\ StartPts \in Nat /\ FirstPts <= StartPts
  BY ConstantsAssumption
<1>2. EmptyBox \in Boxes(Messages)
  BY DEF EmptyBox, Boxes
<1>3. spts = StartPts /\ applied = 1 .. FirstPts /\ box = InitAt(EmptyBox, FirstPts)
  BY DEF Init
<1>4. box.good = FirstPts
  BY <1>1, <1>2, <1>3, InitAtFacts
<1>. QED  BY <1>1, <1>3, <1>4 DEF Log!Init

LEMMA StepImplements == IInv /\ IInv' /\ [Next]_vars => [Log!Next]_(Log!logVars)
<1>. SUFFICES ASSUME IInv, IInv', [Next]_vars
              PROVE  Log!Next \/ UNCHANGED Log!logVars
  OBVIOUS
<1>. USE DEF Log!logVars
<1>1. CASE Client
  <2>1. UNCHANGED spts
    BY <1>1 DEF Client, ReceivePush, ReceivePts, PtsTimer, TooLong, FailTimer,
         Respond, DifferencePart, DifferenceLast, DifferenceFail,
         Activate, Deactivate, Leave, server
  <2>2. Grows
    BY <1>1, ClientStep
  <2>3. /\ box.good \in Nat /\ box'.good \in Nat /\ box'.last \in Nat
        /\ spts \in Nat
    BY DEF IInv, TypeOK, Boxes
  <2>4. box'.good <= spts
    BY <2>1, <2>3 DEF IInv, CountIsHeard
  <2>5. applied' \subseteq 1 .. spts /\ 1 .. box'.good \subseteq applied'
    BY <2>1 DEF IInv, AppliedIsProduced, NothingSkipped
  <2>6. box'.good \in box.good .. spts
    BY <2>2, <2>3, <2>4 DEF Grows
  <2>. QED  BY <2>1, <2>2, <2>5, <2>6 DEF Grows, Log!Next, Log!CatchUp
<1>2. ASSUME NEW n \in PtsCounts, NEW way \in Ways, Produce(n, way)
      PROVE  Log!Next \/ UNCHANGED Log!logVars
  <2>1. n \in Nat /\ spts \in Nat
    BY ConstantsAssumption DEF IInv, TypeOK
  <2>2. spts' = spts + n /\ UNCHANGED <<box, applied>>
    BY <1>2 DEF Produce, client, history
  <2>. QED  BY <2>1, <2>2 DEF Log!Next, Log!Produce
<1>3. CASE Environment
  <2>1. ASSUME \/ TellPts
               \/ \E u \in net : Lose(u)
               \/ \E upto \in Boundaries : Answer(upto)
               \/ AnswerError
        PROVE  UNCHANGED Log!logVars
    BY <2>1 DEF TellPts, Lose, Answer, AnswerError, client, server, history
  <2>. QED  BY <1>2, <1>3, <2>1 DEF Environment
<1>4. CASE UNCHANGED vars
  BY <1>4 DEF vars, client, server, history
<1>. QED  BY <1>1, <1>3, <1>4 DEF Next

(* The channel's box implements UpdateLog: its known pts only grows, over  *)
(* updates that reached the data, whatever first pts it is told and        *)
(* whatever bare pts values come in between.                               *)
THEOREM Implementation == Spec => ImplementsLog
<1>. QED
  BY InitImplements, StepImplements, Invariance, PTL
  DEF Spec, ImplementsLog, Log!Spec

-----------------------------------------------------------------------------
(* The timer, where the pts is known from the start and every gap is found *)
(* by an update that takes pts.                                            *)
GapsTakePts == FirstPts = StartPts /\ "known" \notin Ways /\ 0 \notin PtsCounts

\* What TimerIsHeld says of the box b of a channel that is shown or not.
Held(b, shown) ==
  /\ shown => b.polling /\ (b.timer \/ b.requesting)
  /\ GapWaits(b)

LEMMA HeldIsTimer ==
  TimerIsHeld <=> Inited(box) /\ Held(box, active) /\ \A u \in net : u.count # 0
BY DEF TimerIsHeld, Held, GapWaits

LEMMA HeldReceive ==
  ASSUME IInv, TimerIsHeld, NEW u \in net, ReceivePush(u) \/ ReceivePts(u)
  PROVE  Held(box', active)
<1>1. /\ box \in Boxes(Messages) /\ u \in Messages
      /\ u.pts \in Nat /\ u.count \in Nat /\ u.count # 0
  BY NetMessage DEF IInv, TypeOK, TimerIsHeld
<1>2. Inited(box) /\ Held(box, active) /\ GapWaits(box)
  BY HeldIsTimer DEF Held
<1>3. CASE box' = box
  BY <1>2, <1>3
<1>4. ASSUME NEW d \in {UpdateAndApply(box, u), UpdateAndApplyPts(box, u)},
             box' = d.box
      PROVE  Held(box', active)
  <2>1. PollStays(box, d.box) /\ GapWaits(d.box)
    BY <1>1, <1>2, UpdateAndApplyTimes, UpdateAndApplyPtsTimes
  <2>2. box.requesting => d.box.requesting
    <3>1. box.queue # {} => box.waiting
      BY DEF IInv, HeardIsKept
    <3>2. UpdateAndApply(box, u).box.requesting = box.requesting
      BY <1>1, <1>2, <3>1, UpdateAndApplyFacts
    <3>3. UpdateAndApplyPts(box, u).box.requesting = box.requesting
      BY <1>1, <1>2, <3>1, UpdateAndApplyPtsFacts
    <3>. QED  BY <3>2, <3>3
  <2>. QED  BY <1>2, <1>4, <2>1, <2>2 DEF Held, PollStays
<1>5. \/ box' = box
      \/ box' = UpdateAndApply(box, u).box
      \/ box' = UpdateAndApplyPts(box, u).box
  BY DEF ReceivePush, ReceivePts
<1>. QED  BY <1>3, <1>4, <1>5

LEMMA HeldAsking ==
  ASSUME NEW b \in Boxes(Messages), NEW retry \in BOOLEAN,
         Inited(b), active => b.polling,
         GetChannelDifference(b, retry)
  PROVE  Held(box', active)
<1>1. box'.requesting /\ box'.polling = b.polling
  BY GetChannelDifferenceFacts
<1>. QED  BY <1>1 DEF Held, GapWaits

LEMMA HeldClient ==
  ASSUME IInv, TimerIsHeld, Client
  PROVE  Held(box', active')
<1>1. /\ box \in Boxes(Messages) /\ failTimer \in BOOLEAN /\ diff \in Request
      /\ diff.upto \in Nat
  BY DEF IInv, TypeOK, Request
<1>2. Inited(box) /\ Held(box, active) /\ (active => box.polling)
  BY HeldIsTimer DEF Held
<1>3. CASE \E u \in net : ReceivePush(u) \/ ReceivePts(u)
  BY <1>3, HeldReceive DEF ReceivePush, ReceivePts
<1>4. CASE PtsTimer \/ TooLong \/ FailTimer
  <2>. DEFINE b == Untimed(box)
  <2>1. b \in Boxes(Messages) /\ b.good = box.good /\ b.polling = box.polling
    BY <1>1, UntimedFacts
  <2>2. PICK retry \in BOOLEAN : GetChannelDifference(b, retry) /\ UNCHANGED active
    BY <1>1, <1>4 DEF PtsTimer, TooLong, FailTimer
  <2>. HIDE DEF b
  <2>3. Inited(b)
    BY <1>2, <2>1 DEF Inited
  <2>. QED  BY <1>2, <2>1, <2>2, <2>3, HeldAsking
<1>. DEFINE i == InitAt(box, diff.upto)
            r == SetRequesting(i, FALSE)
<1>5. /\ r \in Boxes(Messages) /\ r.polling = box.polling
      /\ r.good = diff.upto /\ r.last = diff.upto /\ r.count = diff.upto
  <2>1. /\ i \in Boxes(Messages) /\ i.polling = box.polling
        /\ i.good = diff.upto /\ i.last = diff.upto /\ i.count = diff.upto
    BY <1>1, InitAtFacts
  <2>. QED  BY <2>1, SetRequestingFacts
<1>6. CASE DifferencePart
  <2>. DEFINE b == Untimed(r)
  <2>1. /\ diff.stage = "part" /\ GetChannelDifference(b, failTimer)
        /\ UNCHANGED active
    BY <1>6 DEF DifferencePart, Reinited
  <2>. HIDE DEF r
  <2>2. b \in Boxes(Messages) /\ b.good = diff.upto /\ b.polling = box.polling
    BY <1>5, UntimedFacts
  <2>. HIDE DEF b
  <2>3. Inited(b)
    <3>1. /\ diff.from = box.good /\ diff.from <= diff.upto
          /\ box.good \in Nat
      BY <1>1, <2>1 DEF IInv, AskedFromGood, Boxes
    <3>. QED  BY <1>1, <1>2, <2>2, <3>1 DEF Inited
  <2>. QED  BY <1>1, <1>2, <2>1, <2>2, <2>3, HeldAsking
<1>7. CASE DifferenceLast
  <2>1. box' = (IF active THEN StartPolling(r) ELSE r) /\ UNCHANGED active
    BY <1>7 DEF DifferenceLast, Reinited
  <2>. HIDE DEF r
  <2>2. /\ StartPolling(r).polling = TRUE /\ StartPolling(r).timer = TRUE
        /\ StartPolling(r).last = diff.upto /\ StartPolling(r).count = diff.upto
    BY <1>5 DEF StartPolling, Boxes
  <2>. QED  BY <1>5, <2>1, <2>2 DEF Held, GapWaits
<1>8. CASE DifferenceFail
  BY <1>2, <1>8 DEF DifferenceFail
<1>9. CASE Activate
  <2>1. box' = StartPolling(box) /\ active' = TRUE
    BY <1>9 DEF Activate
  <2>2. /\ box'.polling = TRUE /\ box'.timer = TRUE /\ box'.waiting = box.waiting
        /\ box'.last = box.last /\ box'.count = box.count
        /\ box'.requesting = box.requesting
    BY <1>1, <2>1 DEF StartPolling, Boxes
  <2>. QED  BY <1>2, <2>2 DEF Held, GapWaits
<1>10. CASE Deactivate
  BY <1>2, <1>10 DEF Deactivate, Held
<1>11. CASE Leave
  <2>1. box' = StopPolling(box) /\ ~active /\ UNCHANGED active
    BY <1>11 DEF Leave
  <2>2. /\ box'.waiting = box.waiting /\ box'.timer = (box.timer /\ box.waiting)
        /\ box'.last = box.last /\ box'.count = box.count
        /\ box'.requesting = box.requesting
    BY <1>1, <2>1 DEF StopPolling, Boxes
  <2>. QED  BY <1>2, <2>1, <2>2 DEF Held, GapWaits
<1>. QED
  BY <1>3, <1>4, <1>6, <1>7, <1>8, <1>9, <1>10, <1>11 DEF Client, Respond

LEMMA TimerStep ==
  GapsTakePts /\ IInv /\ IInv' /\ TimerIsHeld /\ [Next]_vars => TimerIsHeld'
<1>. SUFFICES ASSUME GapsTakePts, IInv, IInv', TimerIsHeld, [Next]_vars
              PROVE  TimerIsHeld'
  OBVIOUS
<1>1. ASSUME Held(box', active'), box.good <= box'.good,
             \A u \in net' : u.count # 0
      PROVE  TimerIsHeld'
  <2>1. box.good \in Nat /\ box'.good \in Nat
    BY DEF IInv, TypeOK, Boxes
  <2>2. box'.good > 0
    BY <1>1, <2>1 DEF TimerIsHeld, Inited
  <2>. QED  BY <1>1, <2>2 DEF TimerIsHeld, Held, GapWaits, Inited
<1>2. CASE Client
  <2>1. net' \subseteq net
    BY <1>2 DEF Client, ReceivePush, ReceivePts, PtsTimer, TooLong, FailTimer,
         Respond, DifferencePart, DifferenceLast, DifferenceFail,
         Activate, Deactivate, Leave
  <2>2. Grows
    BY <1>2, ClientStep
  <2>3. Held(box', active')
    BY <1>2, HeldClient
  <2>. QED  BY <1>1, <2>1, <2>2, <2>3 DEF Grows, TimerIsHeld
<1>3. ASSUME UNCHANGED <<box, active>>, \A u \in net' : u.count # 0
      PROVE  TimerIsHeld'
  BY <1>3 DEF TimerIsHeld, Inited
<1>4. CASE Environment
  <2>. USE DEF client
  <2>1. ASSUME NEW n \in PtsCounts, NEW way \in Ways, Produce(n, way)
        PROVE  TimerIsHeld'
    <3>1. /\ net' = net \cup {[pts |-> spts + n, count |-> n, via |-> way]}
          /\ UNCHANGED <<box, active>> /\ n # 0
      BY <2>1 DEF Produce, GapsTakePts
    <3>. QED  BY <1>3, <3>1 DEF TimerIsHeld
  <2>2. ~TellPts
    BY DEF TellPts, GapsTakePts
  <2>3. ASSUME \/ \E u \in net : Lose(u)
               \/ \E upto \in Boundaries : Answer(upto)
               \/ AnswerError
        PROVE  TimerIsHeld'
    <3>1. net' \subseteq net /\ UNCHANGED <<box, active>>
      BY <2>3 DEF Lose, Answer, AnswerError
    <3>. QED  BY <1>3, <3>1 DEF TimerIsHeld
  <2>. QED  BY <1>4, <2>1, <2>2, <2>3 DEF Environment
<1>5. CASE UNCHANGED vars
  <2>1. UNCHANGED <<box, active, net>>
    BY <1>5 DEF vars, client
  <2>. QED  BY <1>3, <2>1 DEF TimerIsHeld
<1>. QED  BY <1>2, <1>4, <1>5 DEF Next

LEMMA TimerInit == GapsTakePts /\ Init => TimerIsHeld
<1>. SUFFICES ASSUME GapsTakePts, Init PROVE TimerIsHeld
  OBVIOUS
<1>1. FirstPts \in Nat /\ FirstPts # 0
  BY ConstantsAssumption DEF GapsTakePts
<1>2. EmptyBox \in Boxes(Messages)
  BY DEF EmptyBox, Boxes
<1>3. box.good = FirstPts /\ box.last = FirstPts /\ box.count = FirstPts
  BY <1>1, <1>2, InitAtFacts DEF Init
<1>4. active = FALSE /\ net = {}
  BY DEF Init
<1>. QED  BY <1>1, <1>3, <1>4 DEF TimerIsHeld, Inited

(* The end of a gap does not end the polling of a channel on screen, and a *)
(* poll does not end the wait for a gap, whatever fails and however the    *)
(* channel is opened, closed and left.                                     *)
THEOREM TimerServesBoth == GapsTakePts => (Spec => []OneTimerServes)
<1>. SUFFICES ASSUME GapsTakePts PROVE Spec => []OneTimerServes
  OBVIOUS
<1>1. Init => TimerIsHeld
  BY TimerInit
<1>2. IInv /\ IInv' /\ TimerIsHeld /\ [Next]_vars => TimerIsHeld'
  BY TimerStep
<1>3. TimerIsHeld => OneTimerServes
  BY DEF TimerIsHeld, OneTimerServes, GapIsTimed, ActiveIsPolled
<1>. QED  BY <1>1, <1>2, <1>3, Invariance, PTL DEF Spec

-----------------------------------------------------------------------------
(* Asking goes on, where requests do not fail.                             *)

(* A box that asks has a difference to come, and one that does not has     *)
(* none: getChannelDifference() sees to it that there is one at a time.    *)
OneDifference == box.requesting <=> diff.stage # "idle"

(* ... and never fails.                                                    *)
OneIsAnswered == OneDifference /\ ~failTimer /\ diff.stage # "error"

(* No step leaves the box asking for nothing, or for two.                  *)
LEMMA OneDifferenceNext ==
  ASSUME ~MayFail, IInv, OneIsAnswered, [Next]_vars
  PROVE  OneIsAnswered'
<1>1. /\ box \in Boxes(Messages) /\ diff \in Request /\ diff.upto \in Nat
      /\ failTimer = FALSE /\ box.requesting \in BOOLEAN
      /\ diff.stage # "error" /\ (box.requesting <=> diff.stage # "idle")
  BY DEF IInv, TypeOK, Request, Boxes, OneIsAnswered, OneDifference
<1>2. ASSUME box'.requesting = box.requesting, UNCHANGED <<failTimer, diff>>
      PROVE  OneIsAnswered'
  BY <1>2 DEF OneIsAnswered, OneDifference
<1>3. ASSUME NEW b \in Boxes(Messages), GetChannelDifference(b, FALSE),
             b.requesting => box.requesting, ~b.requesting => Inited(b) \/ ~box.requesting
      PROVE  OneIsAnswered'
  <2>1. CASE b.requesting
    <3>1. box' = b /\ diff' = diff /\ failTimer' = FALSE
      BY <2>1, <1>3 DEF GetChannelDifference
    <3>. QED  BY <1>1, <1>3, <2>1, <3>1 DEF OneIsAnswered, OneDifference, Boxes
  <2>2. CASE ~b.requesting /\ Inited(b)
    <3>1. /\ box' = SetRequesting(b, TRUE) /\ failTimer' = FALSE
          /\ diff' = [stage |-> "asked", from |-> b.good, upto |-> b.good]
      BY <2>2, <1>3 DEF GetChannelDifference
    <3>2. box'.requesting = TRUE /\ diff'.stage = "asked"
      BY <3>1, SetRequestingFacts
    <3>. QED  BY <3>1, <3>2 DEF OneIsAnswered, OneDifference
  <2>3. CASE ~b.requesting /\ ~Inited(b)
    <3>1. box' = b /\ diff' = diff /\ failTimer' = FALSE
      BY <2>3, <1>3 DEF GetChannelDifference
    <3>. QED  BY <1>1, <1>3, <2>3, <3>1 DEF OneIsAnswered, OneDifference, Boxes
  <2>. QED  BY <2>1, <2>2, <2>3
<1>4. ASSUME NEW u \in net, ReceivePush(u) \/ ReceivePts(u)
      PROVE  OneIsAnswered'
  <2>1. /\ u \in Messages /\ u.pts \in Nat /\ u.count \in Nat /\ u.pts # 0
        /\ box.queue # {} => box.waiting
        /\ ~Inited(box) => ~box.requesting /\ box.queue = {}
    BY NetMessage, ConstantsAssumption DEF IInv, AskedFromGood, HeardIsKept
  <2>2. CASE box' = box
    BY <1>2, <1>4, <2>2 DEF ReceivePush, ReceivePts
  <2>3. CASE box' = UpdateAndApply(box, u).box \/ box' = UpdateAndApplyPts(box, u).box
    <3>1. CASE Inited(box)
      <4>1. /\ UpdateAndApply(box, u).box.requesting = box.requesting
            /\ UpdateAndApplyPts(box, u).box.requesting = box.requesting
        BY <1>1, <2>1, <3>1, UpdateAndApplyFacts, UpdateAndApplyPtsFacts
      <4>. QED  BY <1>2, <1>4, <2>3, <4>1 DEF ReceivePush, ReceivePts
    <3>2. CASE ~Inited(box)
      <4>1. /\ UpdateAndApply(box, u).box.requesting = FALSE
            /\ UpdateAndApplyPts(box, u).box.requesting = FALSE
        BY <1>1, <2>1, <3>2, FirstFacts
      <4>. QED  BY <1>1, <1>2, <1>4, <2>1, <2>3, <3>2, <4>1 DEF ReceivePush, ReceivePts
    <3>. QED  BY <3>1, <3>2
  <2>. QED  BY <1>4, <2>2, <2>3 DEF ReceivePush, ReceivePts
<1>5. CASE PtsTimer \/ TooLong \/ FailTimer
  <2>1. /\ Untimed(box) \in Boxes(Messages) /\ Untimed(box).good = box.good
        /\ Untimed(box).requesting = box.requesting
    BY <1>1 DEF Untimed, Boxes
  <2>2. GetChannelDifference(Untimed(box), FALSE)
    BY <1>1, <1>5 DEF PtsTimer, TooLong, FailTimer
  <2>. QED  BY <1>3, <2>1, <2>2
<1>. DEFINE r == SetRequesting(InitAt(box, diff.upto), FALSE)
<1>6. r \in Boxes(Messages) /\ r.good = diff.upto /\ r.requesting = FALSE
  <2>1. InitAt(box, diff.upto) \in Boxes(Messages) /\ InitAt(box, diff.upto).good = diff.upto
    BY <1>1, InitAtFacts
  <2>. QED  BY <2>1, SetRequestingFacts
<1>7. CASE DifferencePart
  <2>1. diff.stage = "part" /\ GetChannelDifference(Untimed(r), FALSE)
    BY <1>1, <1>7 DEF DifferencePart, Reinited
  <2>2. Inited(box) /\ diff.from = box.good /\ diff.from <= diff.upto
    BY <2>1 DEF IInv, AskedFromGood
  <2>. HIDE DEF r
  <2>3. /\ Untimed(r) \in Boxes(Messages) /\ Untimed(r).good = diff.upto
        /\ Untimed(r).requesting = FALSE
    BY <1>6 DEF Untimed, Boxes
  <2>4. Inited(Untimed(r))
    <3>1. box.good \in Nat /\ diff.upto \in Nat
      BY <1>1 DEF Boxes
    <3>. QED  BY <2>2, <2>3, <3>1 DEF Inited
  <2>. QED  BY <1>3, <2>1, <2>3, <2>4
<1>8. CASE DifferenceLast
  <2>1. /\ box' = (IF active THEN StartPolling(r) ELSE r) /\ diff' = NoRequest
        /\ UNCHANGED failTimer
    BY <1>8 DEF DifferenceLast, Reinited
  <2>. HIDE DEF r
  <2>2. StartPolling(r).requesting = FALSE
    BY <1>6 DEF StartPolling, Boxes
  <2>. QED  BY <1>6, <2>1, <2>2 DEF OneIsAnswered, OneDifference, NoRequest
<1>9. ~DifferenceFail
  BY <1>1 DEF DifferenceFail
<1>10. CASE Activate \/ Leave
  <2>1. StartPolling(box).requesting = box.requesting
          /\ StopPolling(box).requesting = box.requesting
    BY <1>1 DEF StartPolling, StopPolling, Boxes
  <2>. QED  BY <1>2, <1>10, <2>1 DEF Activate, Leave
<1>11. CASE Environment
  <2>1. ASSUME \/ \E n \in PtsCounts, way \in Ways : Produce(n, way)
               \/ TellPts
               \/ \E u \in net : Lose(u)
        PROVE  UNCHANGED client
    BY <2>1 DEF Produce, TellPts, Lose
  <2>2. ~AnswerError
    BY DEF AnswerError
  <2>3. ASSUME NEW upto \in Boundaries, Answer(upto)
        PROVE  OneIsAnswered'
    <3>1. /\ UNCHANGED <<box, failTimer>> /\ diff.stage = "asked"
          /\ diff'.stage \in {"part", "last"}
      BY <1>1, <2>3 DEF Answer, Request
    <3>. QED  BY <1>1, <3>1 DEF OneIsAnswered, OneDifference
  <2>. QED  BY <1>2, <1>11, <2>1, <2>2, <2>3 DEF Environment, client
<1>12. CASE Deactivate \/ UNCHANGED vars
  BY <1>2, <1>12 DEF Deactivate, vars, client
<1>. QED
  BY <1>4, <1>5, <1>7, <1>8, <1>9, <1>10, <1>11, <1>12 DEF Next, Client, Respond

(* Where requests do not fail, a channel that asks has a difference to     *)
(* come, whatever else gives it a reason to ask.  Where they may, a box    *)
(* stays asking for nothing: that is what a run shows.                     *)
THEOREM AskingGoesOn == ~MayFail => (Spec => []OneDifference)
<1>. SUFFICES ASSUME ~MayFail PROVE Spec => []OneDifference
  OBVIOUS
<1>1. Init => OneIsAnswered
  <2>. SUFFICES ASSUME Init PROVE OneIsAnswered
    OBVIOUS
  <2>1. EmptyBox \in Boxes(Messages) /\ EmptyBox.requesting = FALSE
    BY DEF EmptyBox, Boxes
  <2>2. box.requesting = FALSE
    <3>1. FirstPts \in Nat
      BY ConstantsAssumption
    <3>. QED  BY <2>1, <3>1, InitAtFacts DEF Init
  <2>. QED  BY <2>2 DEF Init, OneIsAnswered, OneDifference, NoRequest
<1>2. IInv /\ OneIsAnswered /\ [Next]_vars => OneIsAnswered'
  BY OneDifferenceNext
<1>3. OneIsAnswered => OneDifference
  BY DEF OneIsAnswered
<1>. QED  BY <1>1, <1>2, <1>3, Invariance, PTL DEF Spec

=============================================================================
