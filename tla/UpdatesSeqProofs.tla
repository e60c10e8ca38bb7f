--------------------------- MODULE UpdatesSeqProofs ---------------------------
(***************************************************************************)
(* Proofs about UpdatesSeq for every bound and every length of containers: *)
(* no container is skipped, none is fed twice, and none is thrown away     *)
(* unless it was fed or a difference is being asked.                       *)
(***************************************************************************)
EXTENDS UpdatesSeq, FiniteSetTheorems, TLAPS

(* A finite set of numbers has a greatest one.                             *)
LEMMA Greatest ==
  ASSUME NEW S, S \subseteq Int, IsFiniteSet(S), S # {}
  PROVE  \E x \in S : \A y \in S : y <= x
<1> DEFINE Above == [x \in S |-> {y \in S : y > x}]
           T == {Above[x] : x \in S}
<1>0. \A x \in S : x \in Int
  OBVIOUS
<1>1. IsWellFoundedOn(StrictSubsetOrdering(S), FiniteSubsetsOf(S))
  BY FS_StrictSubsetOrderingWellFounded
<1>2. FiniteSubsetsOf(S) = SUBSET S
  BY FS_FiniteSubsetsOfFinite
<1>3. T \subseteq FiniteSubsetsOf(S) /\ T # {}
  BY <1>2
<1>4. PICK t \in T : \A u \in T : <<u, t>> \notin StrictSubsetOrdering(S)
  <2> HIDE DEF T
  <2> QED BY <1>1, <1>3, WFMin
<1>5. PICK x \in S : t = Above[x]
  OBVIOUS
<1>6. ASSUME NEW y \in S
      PROVE  y <= x
  <2>1. SUFFICES ASSUME y > x
                 PROVE  FALSE
    BY <1>0
  <2>2. Above[y] \subseteq Above[x] /\ y \in Above[x] /\ y \notin Above[y]
    <3>1. \A z \in Int : z > y => z > x
      BY <1>0, <2>1
    <3>2. Above[x] = {z \in S : z > x} /\ Above[y] = {z \in S : z > y}
      OBVIOUS
    <3>3. ~(y > y)
      BY <1>0
    <3> QED BY <1>0, <2>1, <3>1, <3>2, <3>3
  <2>3. <<Above[y], Above[x]>> \in StrictSubsetOrdering(S)
    BY <2>2 DEF StrictSubsetOrdering
  <2> QED BY <1>4, <1>5, <2>3
<1> QED BY <1>6

-----------------------------------------------------------------------------
(* The containers setState() feeds from its buffer.                        *)

\* Each container of C follows seq or another of C.
Linked(seq, C) ==
  \A c \in C : /\ c.start > seq
              /\ c.start <= c.seq
              /\ \/ c.start = seq + 1
                 \/ \E e \in C : c.start = e.seq + 1

UpTo(C, s) == {c \in C : c.seq <= s}

(* Where each container of a set follows seq or another one of the set,    *)
(* nothing is left out before the end of any of them.                      *)
LEMMA NoneBetween ==
  ASSUME NEW seq \in Nat, NEW C, C \subseteq Containers, Linked(seq, C), NEW d \in C
  PROVE  seq + 1 .. d.seq \subseteq UNION {Covers(c) : c \in UpTo(C, d.seq)}
<1> DEFINE D == UNION {Covers(c) : c \in UpTo(C, d.seq)}
           S == {t \in seq + 1 .. d.seq : t \notin D}
<1>0. \A c \in C : c.start \in Nat /\ c.seq \in Nat
  BY DEF Containers
<1>1. \A c \in C, t \in Int : c.seq <= d.seq /\ c.start <= t /\ t <= c.seq => t \in D
  BY <1>0 DEF Covers, UpTo
<1>2. \A t \in D : \E c \in C : c.seq <= d.seq /\ c.start <= t /\ t <= c.seq
  BY <1>0 DEF Covers, UpTo
<1>3. \A c \in C : /\ c.start <= c.seq
                   /\ \/ c.start = seq + 1
                      \/ \E e \in C : c.start = e.seq + 1
  BY Zenon DEF Linked
<1>4. SUFFICES ASSUME S # {}
               PROVE  FALSE
  OBVIOUS
<1> HIDE DEF D
<1>5. IsFiniteSet(S) /\ S \subseteq Int
  <2>1. IsFiniteSet(seq + 1 .. d.seq)
    BY <1>0, FS_Interval
  <2>2. S \in SUBSET (seq + 1 .. d.seq)
    OBVIOUS
  <2>3. seq + 1 .. d.seq \subseteq Int
    BY <1>0
  <2> HIDE DEF S
  <2> QED BY <2>1, <2>2, <2>3, FS_Subset
<1>6. PICK x \in S : \A y \in S : y <= x
  <2> HIDE DEF S
  <2> QED BY <1>4, <1>5, Greatest
<1>7. x \in Int /\ x >= seq + 1 /\ x <= d.seq /\ x \notin D
  BY <1>0
<1>8. x # d.seq
  BY <1>0, <1>1, <1>3, <1>7
<1>9. x + 1 \in D
  BY <1>0, <1>6, <1>7, <1>8
<1>10. PICK c \in C : c.seq <= d.seq /\ c.start <= x + 1 /\ x + 1 <= c.seq
  BY <1>2, <1>9
<1>11. c.start = x + 1
  <2>1. ~(c.start <= x /\ x <= c.seq)
    BY <1>1, <1>7, <1>10
  <2> QED BY <1>0, <1>7, <1>10, <2>1
<1>12. PICK e \in C : c.start = e.seq + 1
  <2>1. c.start # seq + 1
    BY <1>7, <1>11
  <2> QED BY <1>3, <2>1
<1>13. e.seq = x /\ e.start <= x /\ e.seq <= d.seq
  BY <1>0, <1>3, <1>7, <1>11, <1>12
<1> QED BY <1>1, <1>7, <1>13

(* Each connected container follows seq or another connected one, and all  *)
(* that do are connected.                                                  *)
LEMMA ConnectedIs ==
  ASSUME NEW seq \in Nat, NEW B
  PROVE  /\ Connected(seq, B) \subseteq B
         /\ \A c \in Connected(seq, B) :
              /\ c.start > seq
              /\ c.start = seq + 1 \/ \E e \in Connected(seq, B) : c.start = e.seq + 1
         /\ \A c \in B :
              c.start > seq /\ (c.start = seq + 1
                                \/ \E e \in Connected(seq, B) : c.start = e.seq + 1)
              => c \in Connected(seq, B)
<1> DEFINE A == {c \in B : c.start > seq}
           Runs == {C \in SUBSET A :
                      \A c \in C : c.start = seq + 1 \/ \E d \in C : c.start = d.seq + 1}
<1>1. Connected(seq, B) = UNION Runs
  BY DEF Connected
<1>2. UNION Runs \in Runs
  OBVIOUS
<1>3. ASSUME NEW c \in A,
             c.start = seq + 1 \/ \E e \in UNION Runs : c.start = e.seq + 1
      PROVE  c \in UNION Runs
  <2>1. (UNION Runs) \cup {c} \in Runs
    BY <1>2, <1>3
  <2> QED BY <2>1
<1> QED BY <1>1, <1>2, <1>3

(* So nothing is left out before the end of a connected container.         *)
LEMMA ConnectedBetween ==
  ASSUME NEW seq \in Nat, NEW B, B \subseteq Containers, \A c \in B : c.start <= c.seq,
         NEW d \in Connected(seq, B)
  PROVE  seq + 1 .. d.seq
           \subseteq UNION {Covers(c) : c \in UpTo(Connected(seq, B), d.seq)}
<1>1. Connected(seq, B) \subseteq Containers /\ Linked(seq, Connected(seq, B))
  BY ConnectedIs DEF Linked
<1> QED BY <1>1, NoneBetween

(* The seq setState() reaches is the end of what it feeds.                 *)
LEMMA ReachedIs ==
  ASSUME NEW seq \in Nat, NEW n \in Nat, NEW B, B \subseteq Containers,
         \A c \in B : c.seq <= n
  PROVE  /\ Reached(seq, B) \in Nat
         /\ Reached(seq, B) >= seq
         /\ \A c \in Connected(seq, B) : c.seq <= Reached(seq, B)
         /\ \/ Reached(seq, B) = seq
            \/ \E c \in Connected(seq, B) : Reached(seq, B) = c.seq
<1> DEFINE ends == {seq} \cup {c.seq : c \in Connected(seq, B)}
<1>0. \A c \in Connected(seq, B) : c.seq \in Nat /\ c.seq <= n
  BY ConnectedIs DEF Containers
<1>1. ends \subseteq Nat /\ ends # {} /\ ends \subseteq Int
  BY <1>0
<1>2. PICK m \in Nat : \A s \in ends : s <= m
  <2>1. seq <= n + seq /\ \A s \in Nat : s <= n => s <= n + seq
    OBVIOUS
  <2>2. \A s \in ends : s <= n + seq
    BY <1>0, <2>1
  <2>3. n + seq \in Nat
    OBVIOUS
  <2> HIDE DEF ends
  <2> QED BY <2>2, <2>3
<1>3. IsFiniteSet(ends)
  <2> HIDE DEF ends
  <2> QED BY <1>1, <1>2, FS_BoundedSetOfNaturals
<1>4. \E s \in ends : \A e \in ends : e <= s
  <2> HIDE DEF ends
  <2> QED BY <1>1, <1>3, Greatest
<1>5. Reached(seq, B) \in ends /\ \A e \in ends : e <= Reached(seq, B)
  <2>1. Reached(seq, B) = CHOOSE s \in ends : \A e \in ends : e <= s
    BY DEF Reached
  <2> HIDE DEF ends
  <2> QED BY <1>4, <2>1
<1> QED BY <1>1, <1>5

(* It feeds each seq up to there, and no other.                            *)
LEMMA ConnectedCovers ==
  ASSUME NEW seq \in Nat, NEW n \in Nat, NEW B, B \subseteq Containers,
         \A c \in B : c.start <= c.seq /\ c.seq <= n
  PROVE  UNION {Covers(c) : c \in Connected(seq, B)} = seq + 1 .. Reached(seq, B)
<1> DEFINE C == Connected(seq, B)
           last == Reached(seq, B)
<1>1. /\ C \subseteq B
      /\ \A c \in C : c.start > seq /\ (c.start = seq + 1 \/ \E e \in C : c.start = e.seq + 1)
  BY ConnectedIs
<1>2. /\ last \in Nat /\ last >= seq
      /\ \A c \in C : c.seq <= last
      /\ last = seq \/ \E c \in C : last = c.seq
  BY ReachedIs
<1> HIDE DEF C, last
<1>3. \A c \in C : c.start \in Nat /\ c.seq \in Nat
  BY <1>1 DEF Containers
<1>4. UNION {Covers(c) : c \in C} \subseteq seq + 1 .. last
  BY <1>1, <1>2, <1>3 DEF Covers
<1>5. ASSUME NEW d \in C, last = d.seq
      PROVE  seq + 1 .. last \subseteq UNION {Covers(c) : c \in C}
  <2>1. seq + 1 .. d.seq \subseteq UNION {Covers(c) : c \in UpTo(C, d.seq)}
    BY ConnectedBetween DEF C
  <2> QED BY <1>5, <2>1 DEF UpTo
<1>6. last = seq => seq + 1 .. last = {}
  BY <1>2
<1>7. UNION {Covers(c) : c \in C} = seq + 1 .. last
  BY <1>2, <1>4, <1>5, <1>6
<1> QED BY <1>7 DEF C, last

(* Where no two containers overlap, what it drops it has fed.              *)
LEMMA NoneLeftOut ==
  ASSUME NEW seq \in Nat, NEW n \in Nat, NEW B, B \subseteq Containers,
         \A c \in B : c.start <= c.seq /\ c.seq <= n,
         \A c, d \in B : c = d \/ c.seq < d.start \/ d.seq < c.start,
         NEW c \in B, c.start > seq, c.start <= Reached(seq, B) + 1
  PROVE  c \in Connected(seq, B)
<1>0. c.start \in Nat /\ c.seq \in Nat
  BY DEF Containers
<1>1. /\ Reached(seq, B) \in Nat
      /\ \/ Reached(seq, B) = seq
         \/ \E e \in Connected(seq, B) : Reached(seq, B) = e.seq
  BY ReachedIs
<1>2. CASE c.start = Reached(seq, B) + 1
  BY <1>0, <1>1, <1>2, ConnectedIs
<1>3. CASE c.start <= Reached(seq, B)
  <2>1. c.start \in UNION {Covers(e) : e \in Connected(seq, B)}
    BY <1>0, <1>1, <1>3, ConnectedCovers
  <2>2. PICK e \in Connected(seq, B) : c.start \in Covers(e)
    BY <2>1
  <2>3. e \in B /\ e.start \in Nat /\ e.seq \in Nat
    BY ConnectedIs DEF Containers
  <2>4. e.start <= c.start /\ c.start <= e.seq
    BY <2>2, <2>3 DEF Covers
  <2>5. e = c
    BY <1>0, <2>3, <2>4
  <2> QED BY <2>5
<1> QED BY <1>0, <1>1, <1>2, <1>3

-----------------------------------------------------------------------------
(* The inductive invariant.                                                *)

OnTheWay == net \cup buffer

\* The containers the server made, none of which overlap.
Sent ==
  /\ \A c \in OnTheWay : 1 <= c.start /\ c.start <= c.seq /\ c.seq <= sseq
  /\ \A c, d \in OnTheWay : c = d \/ c.seq < d.start \/ d.seq < c.start

\* No container goes on past s.
EndsAt(s) == \A c \in OnTheWay : c.seq <= s \/ c.start > s

Counted ==
  /\ fed \subseteq 1 .. sseq
  /\ ~requesting => fed \subseteq 1 .. updatesSeq
  /\ EndsAt(updatesSeq)

Asked ==
  /\ requesting => buffer = {} /\ ~seqTimer
  /\ diff.stage # "idle" => requesting

AnswerCovers ==
  diff.stage \in {"slice", "whole"} =>
    /\ diff.seq <= sseq
    /\ fed \subseteq 1 .. diff.seq
    /\ EndsAt(diff.seq)

\* What waits is not next, and waits for the timer.
Waits ==
  /\ buffer # {} => seqTimer
  /\ \A c \in buffer : c.start > updatesSeq + 1

IInv ==
  /\ TypeOK
  /\ Sent
  /\ Counted
  /\ Asked
  /\ AnswerCovers
  /\ Waits
  /\ NoContainerSkipped
  /\ NoContainerTwice

(* Nothing is on its way at first.                                         *)
LEMMA InvInit == Init => IInv
<1> SUFFICES ASSUME Init
             PROVE  IInv
  OBVIOUS
<1>1. TypeOK
  BY DEF Init, TypeOK, Containers, Stages
<1>2. OnTheWay = {} /\ fed = {} /\ 1 .. updatesSeq = {}
  BY DEF Init, OnTheWay
<1> QED BY <1>1, <1>2 DEF Init, IInv, Sent, Counted, Asked, AnswerCovers, Waits, EndsAt,
           NoContainerSkipped, NoContainerTwice

(* The types of what a container holds.                                    *)
LEMMA OnTheWayTypes ==
  ASSUME TypeOK
  PROVE  \A c \in OnTheWay : c \in Containers /\ c.start \in Nat /\ c.seq \in Nat
BY DEF TypeOK, OnTheWay, Containers

(* Where no container comes, no seq is fed and the client still counts to  *)
(* where it did, asking for a difference keeps the invariant.              *)
LEMMA AskKeeps ==
  ASSUME IInv, Ask, net' \subseteq net, UNCHANGED <<sseq, again>>,
         updatesSeq' \in Nat, fed' \subseteq 1 .. sseq, EndsAt(updatesSeq'),
         1 .. updatesSeq' \subseteq fed'
  PROVE  IInv'
<1>1. /\ buffer' = {} /\ seqTimer' = FALSE /\ requesting' = TRUE /\ failTimer' = FALSE
      /\ diff' = [stage |-> "asked", seq |-> 0]
  BY DEF Ask
<1>2. TypeOK'
  <2>1. TypeOK
    BY DEF IInv
  <2>2. fed' \subseteq Nat
    BY <2>1 DEF TypeOK
  <2> QED BY <1>1, <2>1, <2>2 DEF TypeOK, Stages
<1>3. OnTheWay' \subseteq OnTheWay
  BY <1>1 DEF OnTheWay
<1>4. Sent'
  BY <1>3 DEF IInv, Sent
<1>5. Counted'
  BY <1>1, <1>3 DEF Counted, EndsAt
<1> QED BY <1>1, <1>2, <1>4, <1>5 DEF IInv, Asked, AnswerCovers, Waits,
           NoContainerSkipped, NoContainerTwice

(* The same where the step may also find a difference already asked for.   *)
LEMMA GetDifferenceKeeps ==
  ASSUME IInv, GetDifference, UNCHANGED <<sseq, net, fed, again>>,
         updatesSeq' \in {0, updatesSeq}
  PROVE  IInv'
<1>0. updatesSeq \in Nat /\ updatesSeq' \in Nat /\ 1 .. updatesSeq' \subseteq 1 .. updatesSeq
  BY DEF IInv, TypeOK
<1>1. \A c \in OnTheWay : c.start >= 1 /\ c.start \in Nat /\ c.seq \in Nat
  BY OnTheWayTypes DEF IInv, Sent
<1>2. EndsAt(updatesSeq')
  BY <1>0, <1>1 DEF IInv, Counted, EndsAt
<1>3. 1 .. updatesSeq' \subseteq fed' /\ fed' \subseteq 1 .. sseq
  BY <1>0 DEF IInv, NoContainerSkipped, Counted
<1>4. CASE ~requesting
  <2>1. Ask
    BY <1>4 DEF GetDifference
  <2> QED BY <1>0, <1>2, <1>3, <2>1, AskKeeps
<1>5. CASE requesting
  <2>1. UNCHANGED <<buffer, seqTimer, requesting, diff, failTimer>>
    BY <1>5 DEF GetDifference
  <2>2. TypeOK'
    BY <1>0, <2>1 DEF IInv, TypeOK
  <2>3. OnTheWay' = OnTheWay
    BY <2>1 DEF OnTheWay
  <2>4. Sent' /\ Counted'
    BY <1>2, <1>5, <2>1, <2>3 DEF IInv, Sent, Counted, EndsAt
  <2>5. Asked' /\ AnswerCovers' /\ NoContainerTwice'
    BY <2>1, <2>3 DEF IInv, Asked, AnswerCovers, EndsAt, NoContainerTwice
  <2>6. Waits'
    BY <1>5, <2>1 DEF IInv, Asked, Waits
  <2> QED BY <1>3, <2>2, <2>4, <2>5, <2>6 DEF IInv, NoContainerSkipped
<1> QED BY <1>4, <1>5

-----------------------------------------------------------------------------
(* What the client does with a container.                                  *)

(* Any container on its way ends where another may start.                  *)
LEMMA EndsApart ==
  ASSUME TypeOK, Sent, NEW d \in OnTheWay
  PROVE  EndsAt(d.seq)
<1>1. \A c \in OnTheWay : c.start \in Nat /\ c.seq \in Nat
  BY OnTheWayTypes
<1>2. \A c \in OnTheWay : c = d \/ c.seq < d.start \/ d.seq < c.start
  BY DEF Sent
<1>3. d.start <= d.seq
  BY DEF Sent
<1> QED BY <1>1, <1>2, <1>3 DEF EndsAt

(* A container that comes in turn, with those that connect to it: they     *)
(* take the seq values after updatesSeq, none of them fed, leave none out  *)
(* before the end of any of them, and what does not connect is later.      *)
LEMMA InTurn ==
  ASSUME IInv, NEW c \in net, ~requesting, ~Stale(c), ~Early(c),
         NEW C, C = Connected(c.seq, buffer), NEW last, last = Reached(c.seq, buffer)
  PROVE  /\ last \in Nat /\ last > updatesSeq /\ last <= sseq
         /\ C \subseteq buffer
         /\ UNION {Covers(e) : e \in {c} \cup C} = updatesSeq + 1 .. last
         /\ EndsAt(last)
         /\ \A d \in {c} \cup C :
              updatesSeq + 1 .. d.seq
                \subseteq UNION {Covers(e) : e \in {c} \cup UpTo(C, d.seq)}
         /\ \A e \in buffer : e \in C \/ e.start > last + 1
<1>0. /\ c \in OnTheWay /\ buffer \subseteq OnTheWay /\ buffer \subseteq Containers
      /\ updatesSeq \in Nat /\ sseq \in Nat
      /\ \A e \in OnTheWay : e.start \in Nat /\ e.seq \in Nat
  BY OnTheWayTypes DEF IInv, TypeOK, OnTheWay
<1>1. /\ \A e \in OnTheWay : 1 <= e.start /\ e.start <= e.seq /\ e.seq <= sseq
      /\ \A d, e \in OnTheWay : d = e \/ d.seq < e.start \/ e.seq < d.start
      /\ \A e \in buffer : e.start > updatesSeq + 1
  BY DEF IInv, Sent, Waits
<1>2. c.start = updatesSeq + 1 /\ c.seq \in Nat /\ c.seq > updatesSeq /\ c.seq <= sseq
  BY <1>0, <1>1 DEF Stale, Early
<1>3. \A e \in buffer : e.start > c.seq
  <2> SUFFICES ASSUME NEW e \in buffer
               PROVE  e.start > c.seq
    OBVIOUS
  <2>1. e \in OnTheWay /\ e.start \in Nat /\ e.seq \in Nat /\ e.start > c.start /\ e.start <= e.seq
    BY <1>0, <1>1, <1>2
  <2>2. e # c
    BY <1>0, <2>1
  <2> QED BY <1>0, <1>1, <2>1, <2>2
<1>4. /\ last \in Nat /\ last >= c.seq
      /\ \A e \in C : e.seq <= last
      /\ last = c.seq \/ \E e \in C : last = e.seq
  BY <1>0, <1>1, <1>2, ReachedIs
<1>5. /\ C \subseteq buffer
      /\ \A e \in C : /\ e.start > c.seq
                      /\ e.start = c.seq + 1 \/ \E d \in C : e.start = d.seq + 1
  BY <1>2, ConnectedIs
<1>6. last <= sseq
  BY <1>0, <1>1, <1>2, <1>4, <1>5
<1>7. Covers(c) = updatesSeq + 1 .. c.seq
  BY <1>2 DEF Covers
<1>8. UNION {Covers(e) : e \in C} = c.seq + 1 .. last
  BY <1>0, <1>1, <1>2, ConnectedCovers
<1>9. UNION {Covers(e) : e \in {c} \cup C} = updatesSeq + 1 .. last
  <2>1. UNION {Covers(e) : e \in {c} \cup C} = Covers(c) \cup UNION {Covers(e) : e \in C}
    OBVIOUS
  <2>2. updatesSeq + 1 .. last = (updatesSeq + 1 .. c.seq) \cup (c.seq + 1 .. last)
    BY <1>0, <1>2, <1>4
  <2> QED BY <1>7, <1>8, <2>1, <2>2
<1>10. EndsAt(last)
  BY <1>0, <1>4, <1>5, EndsApart DEF IInv
<1>11. ASSUME NEW d \in {c} \cup C
       PROVE  updatesSeq + 1 .. d.seq
                \subseteq UNION {Covers(e) : e \in {c} \cup UpTo(C, d.seq)}
  <2>1. CASE d = c
    BY <1>7, <2>1
  <2>2. CASE d \in C
    <3>1. d \in Connected(c.seq, buffer)
      BY <2>2
    <3>2. c.seq + 1 .. d.seq \subseteq UNION {Covers(b) : b \in UpTo(C, d.seq)}
      BY <1>0, <1>1, <1>2, <3>1, ConnectedBetween
    <3>3. d.seq \in Nat
      BY <1>0, <1>5, <2>2
    <3>4. updatesSeq + 1 .. d.seq \subseteq (updatesSeq + 1 .. c.seq) \cup (c.seq + 1 .. d.seq)
      BY <1>0, <1>2, <3>3
    <3> QED BY <1>7, <3>2, <3>4
  <2> QED BY <2>1, <2>2
<1>12. ASSUME NEW e \in buffer, e.start <= last + 1
       PROVE  e \in C
  <2>1. \A b \in buffer : b.start <= b.seq /\ b.seq <= sseq
    BY <1>0, <1>1
  <2>2. \A b, d \in buffer : b = d \/ b.seq < d.start \/ d.seq < b.start
    BY <1>0, <1>1
  <2> QED BY <1>0, <1>2, <1>3, <1>12, <2>1, <2>2, NoneLeftOut
<1>13. \A e \in buffer : e \in C \/ e.start > last + 1
  BY <1>0, <1>4, <1>12
<1> QED BY <1>0, <1>2, <1>4, <1>5, <1>6, <1>9, <1>10, <1>11, <1>13

(* A container that is fed, with those that connect to it, and what is     *)
(* left, keep the invariant.                                               *)
LEMMA FeedAllKeeps ==
  ASSUME IInv, NEW c \in net, ~requesting, ~Stale(c), ~Early(c), FeedAll(c),
         net' = net \ {c}, UNCHANGED sseq
  PROVE  IInv'
<1> DEFINE C == Connected(c.seq, buffer)
           last == Reached(c.seq, buffer)
<1>1. /\ updatesSeq' = last
      /\ buffer' = Later(last, buffer)
      /\ seqTimer' = (buffer' # {})
      /\ fed' = fed \cup UNION {Covers(e) : e \in {c} \cup C}
      /\ again' = again \cup (fed \cap UNION {Covers(e) : e \in {c} \cup C})
      /\ UNCHANGED <<requesting, diff, failTimer>>
  BY DEF FeedAll, Record
<1>2. /\ last \in Nat /\ last > updatesSeq /\ last <= sseq
      /\ UNION {Covers(e) : e \in {c} \cup C} = updatesSeq + 1 .. last
      /\ EndsAt(last)
  BY InTurn
<1> HIDE DEF C, last
<1>3. updatesSeq \in Nat /\ sseq \in Nat
  BY DEF IInv, TypeOK
<1>4. fed = 1 .. updatesSeq
  BY DEF IInv, Counted, NoContainerSkipped
<1>5. fed' = 1 .. last /\ again' = {}
  <2>1. (1 .. updatesSeq) \cup (updatesSeq + 1 .. last) = 1 .. last
        /\ (1 .. updatesSeq) \cap (updatesSeq + 1 .. last) = {}
    BY <1>2, <1>3
  <2> QED BY <1>1, <1>2, <1>4, <2>1 DEF IInv, NoContainerTwice
<1>6. buffer' \subseteq buffer /\ \A e \in buffer' : e.start > last + 1
  BY <1>1 DEF Later
<1>7. OnTheWay' \subseteq OnTheWay
  BY <1>6 DEF OnTheWay
<1>8. TypeOK'
  <2>1. fed' \subseteq Nat
    BY <1>2, <1>5
  <2> QED BY <1>1, <1>2, <1>5, <1>6, <2>1 DEF IInv, TypeOK
<1>9. Sent'
  BY <1>7 DEF IInv, Sent
<1>10. Counted'
  <2>1. 1 .. last \subseteq 1 .. sseq
    BY <1>2, <1>3
  <2> QED BY <1>1, <1>2, <1>5, <1>7, <2>1 DEF Counted, EndsAt
<1>11. Asked' /\ AnswerCovers' /\ Waits'
  <2>1. diff.stage = "idle"
    BY DEF IInv, Asked
  <2> QED BY <1>1, <1>6, <2>1 DEF Asked, AnswerCovers, Waits
<1> QED BY <1>1, <1>5, <1>8, <1>9, <1>10, <1>11 DEF IInv, NoContainerSkipped, NoContainerTwice

(* So does one that stops at an update that cannot be placed.              *)
LEMMA FeedAndAskKeeps ==
  ASSUME IInv, NEW c \in net, ~requesting, ~Stale(c), ~Early(c),
         NEW d \in {c} \cup Connected(c.seq, buffer), FeedAndAsk(c, d),
         net' = net \ {c}, UNCHANGED sseq
  PROVE  IInv'
<1> DEFINE C == Connected(c.seq, buffer)
           F == UNION {Covers(e) : e \in {c} \cup UpTo(C, d.seq)}
           last == Reached(c.seq, buffer)
<1>1. Ask /\ updatesSeq' = d.seq /\ fed' = fed \cup F /\ again' = again \cup (fed \cap F)
  BY DEF FeedAndAsk, Record, UpTo
<1>2. /\ last \in Nat /\ last > updatesSeq /\ last <= sseq
      /\ C \subseteq buffer
      /\ UNION {Covers(e) : e \in {c} \cup C} = updatesSeq + 1 .. last
      /\ updatesSeq + 1 .. d.seq \subseteq F
  BY InTurn
<1>3. F \subseteq updatesSeq + 1 .. last
  BY <1>2 DEF UpTo
<1>4. d \in OnTheWay
  BY <1>2 DEF OnTheWay
<1> HIDE DEF C, F, last
<1>5. d.seq \in Nat /\ updatesSeq \in Nat /\ sseq \in Nat
  BY <1>4, OnTheWayTypes DEF IInv, TypeOK
<1>6. EndsAt(updatesSeq')
  BY <1>1, <1>4, EndsApart DEF IInv
<1>7. fed = 1 .. updatesSeq
  BY DEF IInv, Counted, NoContainerSkipped
<1>8. again' = again
  <2>1. (1 .. updatesSeq) \cap (updatesSeq + 1 .. last) = {}
    BY <1>2, <1>5
  <2> QED BY <1>1, <1>3, <1>7, <2>1
<1>9. fed' \subseteq 1 .. sseq
  <2>1. (1 .. updatesSeq) \cup (updatesSeq + 1 .. last) \subseteq 1 .. sseq
    BY <1>2, <1>5
  <2> QED BY <1>1, <1>3, <1>7, <2>1
<1>10. 1 .. updatesSeq' \subseteq fed'
  <2>1. 1 .. d.seq \subseteq (1 .. updatesSeq) \cup (updatesSeq + 1 .. d.seq)
    BY <1>5
  <2> QED BY <1>1, <1>2, <1>7, <2>1
<1> QED BY <1>1, <1>5, <1>6, <1>8, <1>9, <1>10, AskKeeps

(* A container that comes early waits.                                     *)
LEMMA BufferKeeps ==
  ASSUME IInv, NEW c \in net, ~requesting, Early(c), Buffer(c),
         net' = net \ {c}, UNCHANGED sseq
  PROVE  IInv'
<1>1. /\ buffer' = buffer \cup {c} /\ seqTimer' = TRUE
      /\ UNCHANGED <<updatesSeq, requesting, diff, failTimer, fed, again>>
  BY DEF Buffer
<1>2. OnTheWay' = OnTheWay
  BY <1>1 DEF OnTheWay
<1>3. TypeOK'
  BY <1>1 DEF IInv, TypeOK
<1>4. Sent' /\ Counted' /\ AnswerCovers'
  BY <1>1, <1>2 DEF IInv, Sent, Counted, AnswerCovers, EndsAt
<1>5. Asked' /\ Waits'
  BY <1>1 DEF IInv, Asked, Waits, Early
<1> QED BY <1>1, <1>3, <1>4, <1>5 DEF IInv, NoContainerSkipped, NoContainerTwice

(* Whatever the client does with a container that comes.                   *)
LEMMA ReceiveKeeps ==
  ASSUME IInv, NEW c \in net, Receive(c)
  PROVE  IInv'
<1>1. net' = net \ {c} /\ UNCHANGED sseq
  BY DEF Receive
<1>2. CASE Skip
  <2>1. OnTheWay' \subseteq OnTheWay
    BY <1>1, <1>2 DEF Skip, OnTheWay
  <2>2. TypeOK'
    BY <1>1, <1>2 DEF Skip, IInv, TypeOK
  <2>3. Sent' /\ Counted' /\ AnswerCovers'
    BY <1>1, <1>2, <2>1 DEF Skip, IInv, Sent, Counted, AnswerCovers, EndsAt
  <2>4. Asked' /\ Waits'
    BY <1>2 DEF Skip, IInv, Asked, Waits
  <2> QED BY <1>2, <2>2, <2>3, <2>4 DEF Skip, IInv, NoContainerSkipped, NoContainerTwice
<1>3. CASE ~requesting /\ Early(c) /\ Buffer(c)
  BY <1>1, <1>3, BufferKeeps
<1>4. CASE ~requesting /\ ~Stale(c) /\ ~Early(c) /\ FeedAll(c)
  BY <1>1, <1>4, FeedAllKeeps
<1>5. ASSUME ~requesting /\ ~Stale(c) /\ ~Early(c),
             NEW d \in {c} \cup Connected(c.seq, buffer), FeedAndAsk(c, d)
      PROVE  IInv'
  BY <1>1, <1>5, FeedAndAskKeeps
<1> QED BY <1>2, <1>3, <1>4, <1>5 DEF Receive

-----------------------------------------------------------------------------
(* The server, the network, the timers and the answers.                    *)

(* A new container starts after all that were made.                        *)
LEMMA ProduceKeeps ==
  ASSUME IInv, NEW n \in Lengths, Produce(n)
  PROVE  IInv'
<1> DEFINE c == [start |-> sseq + 1, seq |-> sseq + n]
<1>0. n \in Nat /\ n # 0 /\ sseq \in Nat /\ sseq + n \in Nat /\ updatesSeq \in Nat
  BY ConstantsAssumption DEF IInv, TypeOK
<1>1. /\ sseq' = sseq + n /\ net' = net \cup {c}
      /\ UNCHANGED <<updatesSeq, buffer, seqTimer, requesting, diff, failTimer, fed, again>>
  BY DEF Produce
<1>2. c.start = sseq + 1 /\ c.seq = sseq + n /\ c \in Containers
  BY <1>0 DEF Containers
<1> HIDE DEF c
<1>3. OnTheWay' = OnTheWay \cup {c}
  BY <1>1 DEF OnTheWay
<1>4. TypeOK'
  <2>1. TypeOK
    BY DEF IInv
  <2> QED BY <1>0, <1>1, <1>2, <2>1 DEF TypeOK
<1>5. \A e \in OnTheWay : /\ e.start \in Nat /\ e.seq \in Nat
                          /\ 1 <= e.start /\ e.start <= e.seq /\ e.seq <= sseq
  BY OnTheWayTypes DEF IInv, Sent
<1>6. Sent'
  <2>1. \A e \in OnTheWay' : 1 <= e.start /\ e.start <= e.seq /\ e.seq <= sseq'
    BY <1>0, <1>1, <1>2, <1>3, <1>5
  <2>2. \A e \in OnTheWay : e.seq < c.start
    BY <1>0, <1>2, <1>5
  <2>3. \A d, e \in OnTheWay' : d = e \/ d.seq < e.start \/ e.seq < d.start
    BY <1>3, <2>2 DEF IInv, Sent
  <2> QED BY <2>1, <2>3 DEF Sent
<1>7. 1 .. sseq \subseteq 1 .. sseq'
  BY <1>0, <1>1
<1>8. updatesSeq <= sseq
  <2>1. 1 .. updatesSeq \subseteq 1 .. sseq
    BY DEF IInv, NoContainerSkipped, Counted
  <2> QED BY <1>0, <2>1
<1>9. Counted'
  <2>1. c.start > updatesSeq
    BY <1>0, <1>2, <1>8
  <2> QED BY <1>1, <1>3, <1>7, <2>1 DEF IInv, Counted, EndsAt
<1>10. AnswerCovers'
  <2> SUFFICES ASSUME diff.stage \in {"slice", "whole"}
               PROVE  diff.seq <= sseq' /\ fed \subseteq 1 .. diff.seq /\ EndsAt(diff.seq)'
    BY <1>1 DEF AnswerCovers
  <2>1. diff.seq <= sseq /\ fed \subseteq 1 .. diff.seq /\ EndsAt(diff.seq) /\ diff.seq \in Nat
    BY DEF IInv, TypeOK, AnswerCovers
  <2>2. diff.seq <= sseq' /\ c.start > diff.seq
    BY <1>0, <1>1, <1>2, <2>1
  <2> QED BY <1>1, <1>3, <2>1, <2>2 DEF EndsAt
<1>11. Asked' /\ Waits'
  BY <1>1 DEF IInv, Asked, Waits
<1> QED BY <1>1, <1>4, <1>6, <1>9, <1>10, <1>11 DEF IInv, NoContainerSkipped, NoContainerTwice

(* The network loses a container.                                          *)
LEMMA LoseKeeps ==
  ASSUME IInv, NEW c \in net, Lose(c)
  PROVE  IInv'
<1>1. /\ net' \subseteq net
      /\ UNCHANGED <<updatesSeq, buffer, seqTimer, requesting, diff, failTimer, sseq, fed, again>>
  BY DEF Lose
<1>2. OnTheWay' \subseteq OnTheWay
  BY <1>1 DEF OnTheWay
<1>3. TypeOK'
  BY <1>1 DEF IInv, TypeOK
<1>4. Sent' /\ Counted' /\ AnswerCovers'
  BY <1>1, <1>2 DEF IInv, Sent, Counted, AnswerCovers, EndsAt
<1> QED BY <1>1, <1>3, <1>4 DEF IInv, Asked, Waits, NoContainerSkipped, NoContainerTwice

(* The server answers with all it has made.                                *)
LEMMA AnswerKeeps ==
  ASSUME IInv, NEW stage \in {"slice", "whole", "error"}, Answer(stage)
  PROVE  IInv'
<1>1. /\ diff.stage # "idle" /\ diff' = [stage |-> stage, seq |-> sseq]
      /\ UNCHANGED <<updatesSeq, buffer, seqTimer, requesting, failTimer, sseq, net, fed, again>>
  BY DEF Answer
<1>2. OnTheWay' = OnTheWay /\ sseq \in Nat
  BY <1>1 DEF OnTheWay, IInv, TypeOK
<1>3. TypeOK'
  BY <1>1 DEF IInv, TypeOK, Stages
<1>4. Sent' /\ Counted'
  BY <1>1, <1>2 DEF IInv, Sent, Counted, EndsAt
<1>5. AnswerCovers'
  BY <1>1, <1>2 DEF IInv, Sent, Counted, AnswerCovers, EndsAt
<1> QED BY <1>1, <1>3, <1>4, <1>5 DEF IInv, Asked, Waits, NoContainerSkipped, NoContainerTwice

(* A difference, whole or a slice, covers all that was fed.                *)
LEMMA DifferenceCovers ==
  ASSUME IInv, diff.stage \in {"slice", "whole"}, updatesSeq' = StateSeq,
         fed' = fed \cup 1 .. diff.seq
  PROVE  /\ updatesSeq' \in Nat /\ fed' = 1 .. updatesSeq'
         /\ fed' \subseteq 1 .. sseq /\ EndsAt(updatesSeq')
<1>1. /\ diff.seq \in Nat /\ updatesSeq \in Nat /\ sseq \in Nat /\ diff.seq <= sseq
      /\ fed \subseteq 1 .. diff.seq /\ EndsAt(diff.seq)
      /\ 1 .. updatesSeq \subseteq fed /\ EndsAt(updatesSeq)
  BY DEF IInv, TypeOK, AnswerCovers, NoContainerSkipped, Counted
<1>2. fed' = 1 .. diff.seq
  <2>1. fed' = fed \cup (1 .. diff.seq)
    OBVIOUS
  <2> QED BY <1>1, <2>1
<1>2a. 1 .. diff.seq \subseteq 1 .. sseq
  BY <1>1
<1>3. updatesSeq' = diff.seq
  <2>1. CASE diff.seq = 0
    <3>1. 1 .. updatesSeq \subseteq {}
      BY <1>1, <2>1
    <3>2. updatesSeq = 0
      BY <1>1, <3>1
    <3> QED BY <2>1, <3>2 DEF StateSeq
  <2>2. CASE diff.seq # 0
    BY <2>2 DEF StateSeq
  <2> QED BY <2>1, <2>2
<1> QED BY <1>1, <1>2, <1>2a, <1>3

(* What the answers do.                                                    *)
LEMMA RespondKeeps ==
  ASSUME IInv, Respond
  PROVE  IInv'
<1>1. CASE DifferenceDone
  <2>1. /\ diff.stage = "whole" /\ updatesSeq' = StateSeq /\ fed' = fed \cup 1 .. diff.seq
        /\ requesting' = FALSE /\ diff' = [stage |-> "idle", seq |-> 0]
        /\ UNCHANGED <<buffer, seqTimer, failTimer, sseq, net, again>>
    BY <1>1 DEF DifferenceDone
  <2>2. /\ updatesSeq' \in Nat /\ fed' = 1 .. updatesSeq'
        /\ fed' \subseteq 1 .. sseq /\ EndsAt(updatesSeq')
    BY <2>1, DifferenceCovers
  <2>3. buffer = {} /\ ~seqTimer
    BY <2>1 DEF IInv, Asked
  <2>4. OnTheWay' = OnTheWay
    BY <2>1 DEF OnTheWay
  <2>5. TypeOK'
    <3>1. fed' \subseteq Nat
      BY <2>2
    <3> QED BY <2>1, <2>2, <3>1 DEF IInv, TypeOK, Stages
  <2>6. Sent' /\ Counted'
    BY <2>1, <2>2, <2>4 DEF IInv, Sent, Counted, EndsAt
  <2>7. Asked' /\ AnswerCovers' /\ Waits'
    BY <2>1, <2>3 DEF Asked, AnswerCovers, Waits
  <2> QED BY <2>1, <2>2, <2>5, <2>6, <2>7 DEF IInv, NoContainerSkipped, NoContainerTwice
<1>2. CASE DifferenceSlice
  <2>1. /\ diff.stage = "slice" /\ updatesSeq' = StateSeq /\ fed' = fed \cup 1 .. diff.seq
        /\ Ask /\ UNCHANGED <<sseq, net, again>>
    BY <1>2 DEF DifferenceSlice
  <2>2. /\ updatesSeq' \in Nat /\ fed' = 1 .. updatesSeq'
        /\ fed' \subseteq 1 .. sseq /\ EndsAt(updatesSeq')
    BY <2>1, DifferenceCovers
  <2> QED BY <2>1, <2>2, AskKeeps
<1>3. CASE DifferenceFail
  <2>1. /\ failTimer' = TRUE /\ diff' = [stage |-> "idle", seq |-> 0]
        /\ UNCHANGED <<updatesSeq, buffer, seqTimer, requesting, sseq, net, fed, again>>
    BY <1>3 DEF DifferenceFail
  <2>2. OnTheWay' = OnTheWay
    BY <2>1 DEF OnTheWay
  <2>3. TypeOK'
    BY <2>1 DEF IInv, TypeOK, Stages
  <2>4. Sent' /\ Counted'
    BY <2>1, <2>2 DEF IInv, Sent, Counted, EndsAt
  <2>5. Asked' /\ AnswerCovers' /\ Waits'
    BY <2>1 DEF IInv, Asked, AnswerCovers, Waits
  <2> QED BY <2>1, <2>3, <2>4, <2>5 DEF IInv, NoContainerSkipped, NoContainerTwice
<1> QED BY <1>1, <1>2, <1>3 DEF Respond

(* The timers.                                                             *)
LEMMA TimersKeep ==
  ASSUME IInv, SeqTimer \/ FailTimer
  PROVE  IInv'
<1>1. UNCHANGED <<updatesSeq, sseq, net, fed, again>>
  BY DEF SeqTimer, FailTimer
<1>2. Ask
  BY DEF SeqTimer, FailTimer, IInv, Asked
<1>3. /\ updatesSeq' \in Nat /\ fed' \subseteq 1 .. sseq
      /\ EndsAt(updatesSeq') /\ 1 .. updatesSeq' \subseteq fed'
  BY <1>1 DEF IInv, TypeOK, Counted, NoContainerSkipped
<1> QED BY <1>1, <1>2, <1>3, AskKeeps

(* Every step keeps the invariant.                                         *)
LEMMA InvNext == IInv /\ [Next]_vars => IInv'
<1> SUFFICES ASSUME IInv, [Next]_vars
             PROVE  IInv'
  OBVIOUS
<1>1. ASSUME NEW n \in Lengths, Produce(n)
      PROVE  IInv'
  BY <1>1, ProduceKeeps
<1>2. ASSUME NEW c \in net, Lose(c)
      PROVE  IInv'
  BY <1>2, LoseKeeps
<1>3. ASSUME NEW stage \in {"slice", "whole", "error"}, Answer(stage)
      PROVE  IInv'
  BY <1>3, AnswerKeeps
<1>4. ASSUME NEW c \in net, Receive(c)
      PROVE  IInv'
  BY <1>4, ReceiveKeeps
<1>5. CASE SeqTimer \/ FailTimer
  BY <1>5, TimersKeep
<1>6. CASE Resync
  BY <1>6, GetDifferenceKeeps DEF Resync
<1>7. CASE NewSession
  BY <1>7, GetDifferenceKeeps DEF NewSession
<1>8. CASE Respond
  BY <1>8, RespondKeeps
<1>9. CASE UNCHANGED vars
  BY <1>9 DEF vars, IInv, TypeOK, Sent, Counted, Asked, AnswerCovers, Waits, EndsAt, OnTheWay,
         NoContainerSkipped, NoContainerTwice
<1> QED BY <1>1, <1>2, <1>3, <1>4, <1>5, <1>6, <1>7, <1>8, <1>9 DEF Next

-----------------------------------------------------------------------------
(* The theorems.                                                           *)

(* The inductive invariant holds.                                          *)
LEMMA Invariance == Spec => []IInv
<1>1. Init => IInv
  BY InvInit
<1>2. IInv /\ [Next]_vars => IInv'
  BY InvNext
<1> QED BY <1>1, <1>2, PTL DEF Spec

(* The variables keep their types.                                         *)
THEOREM TypeCorrect == Spec => []TypeOK
<1>1. IInv => TypeOK
  BY DEF IInv
<1> QED BY <1>1, Invariance, PTL

(* Each container up to _updatesSeq was fed, or a difference covers it.    *)
THEOREM NeverSkips == Spec => []NoContainerSkipped
<1>1. IInv => NoContainerSkipped
  BY DEF IInv
<1> QED BY <1>1, Invariance, PTL

(* No container is fed twice, or after a difference that covers it.        *)
THEOREM NeverTwice == Spec => []NoContainerTwice
<1>1. IInv => NoContainerTwice
  BY DEF IInv
<1> QED BY <1>1, Invariance, PTL

(* Why and how long a container waits in _bySeqUpdates.                    *)
WaitsForTimer ==
  /\ buffer # {} => seqTimer /\ ~requesting
  /\ \A c \in buffer : c.start > updatesSeq + 1

(* A container is in _bySeqUpdates only while _bySeqTimer is active, no    *)
(* difference is asked for, and containers before it are missing.          *)
THEOREM WaitsSafely == Spec => []WaitsForTimer
<1>1. IInv => WaitsForTimer
  BY DEF IInv, Waits, Asked, WaitsForTimer
<1> QED BY <1>1, Invariance, PTL

(* One step drops no container unfed while no difference is asked for.     *)
LEMMA DroppedNext ==
  ASSUME IInv, Next, NEW c \in net \cup buffer
  PROVE  c \in (net \cup buffer)' \/ Lose(c) \/ requesting' \/ Covers(c) \subseteq fed'
<1>0. c \in OnTheWay /\ c.start \in Nat /\ c.seq \in Nat /\ 1 <= c.start
  BY OnTheWayTypes DEF OnTheWay, IInv, Sent
<1>1. CASE \E n \in Lengths : Produce(n)
  BY <1>1 DEF Produce
<1>2. CASE \E d \in net : Lose(d)
  BY <1>2 DEF Lose
<1>3. CASE \E stage \in {"slice", "whole", "error"} : Answer(stage)
  BY <1>3 DEF Answer
<1>4. ASSUME NEW d \in net, Receive(d)
      PROVE  c \in (net \cup buffer)' \/ requesting' \/ Covers(c) \subseteq fed'
  <2>1. net' = net \ {d}
    BY <1>4 DEF Receive
  <2>2. CASE (requesting \/ Stale(d)) /\ Skip
    <3>1. requesting' = requesting /\ fed' = fed /\ buffer' = buffer
      BY <2>2 DEF Skip
    <3>2. CASE c = d /\ ~requesting
      <4>1. c.start <= updatesSeq
        BY <2>2, <3>2 DEF Stale
      <4>2. updatesSeq \in Nat /\ c.seq <= updatesSeq
        BY <1>0, <4>1 DEF IInv, TypeOK, Counted, EndsAt
      <4>3. Covers(c) \subseteq 1 .. updatesSeq
        BY <1>0, <4>2 DEF Covers
      <4> QED BY <3>1, <4>3 DEF IInv, NoContainerSkipped
    <3>3. CASE c # d \/ requesting
      BY <2>1, <2>2, <3>1, <3>3 DEF IInv, Asked
    <3> QED BY <3>2, <3>3
  <2>3. CASE ~requesting /\ Early(d) /\ Buffer(d)
    BY <2>1, <2>3 DEF Buffer
  <2>4. CASE ~requesting /\ ~Stale(d) /\ ~Early(d) /\ FeedAll(d)
    <3> DEFINE C == Connected(d.seq, buffer)
               last == Reached(d.seq, buffer)
    <3>1. \A e \in buffer : e \in C \/ e.start > last + 1
      BY <2>4, InTurn
    <3>2. /\ buffer' = Later(last, buffer)
          /\ fed' = fed \cup UNION {Covers(e) : e \in {d} \cup C}
      BY <2>4 DEF FeedAll, Record
    <3> HIDE DEF C, last
    <3>3. c \in {d} \cup C => Covers(c) \subseteq fed'
      BY <3>2
    <3>4. c \in buffer /\ c \notin C => c \in buffer'
      BY <3>1, <3>2 DEF Later
    <3> QED BY <2>1, <3>3, <3>4
  <2>5. CASE \E e \in {d} \cup Connected(d.seq, buffer) : FeedAndAsk(d, e)
    BY <2>5 DEF FeedAndAsk, Ask
  <2> QED BY <1>4, <2>2, <2>3, <2>4, <2>5 DEF Receive
<1>5. CASE SeqTimer \/ FailTimer
  BY <1>5 DEF SeqTimer, FailTimer, Ask
<1>6. CASE Resync \/ NewSession
  BY <1>6 DEF Resync, NewSession, GetDifference, Ask
<1>7. CASE Respond
  BY <1>7 DEF Respond, DifferenceDone, DifferenceSlice, DifferenceFail, Ask
<1> QED BY <1>1, <1>2, <1>3, <1>4, <1>5, <1>6, <1>7 DEF Next

(* A container goes from the buffer, or as stale, only if all of it was    *)
(* fed, or while a difference is being asked for.                          *)
THEOREM NeverDrops == Spec => NothingDropped
<1> DEFINE Kept == \A c \in net \cup buffer :
              c \in (net \cup buffer)' \/ Lose(c) \/ requesting' \/ Covers(c) \subseteq fed'
<1>1. IInv /\ [Next]_vars => [Kept]_vars
  BY DroppedNext
<1>2. NothingDropped <=> [][Kept]_vars
  BY DEF NothingDropped
<1> HIDE DEF Kept
<1> QED BY <1>1, <1>2, Invariance, PTL DEF Spec

-----------------------------------------------------------------------------
(* A client that asks for a difference has one to come, or the time to ask *)
(* again, and never two, with containers and new sessions in between.      *)
OneDifference ==
  /\ requesting <=> (diff.stage # "idle" \/ failTimer)
  /\ ~(diff.stage # "idle" /\ failTimer)

(* No step leaves it asking for nothing, or for two.                       *)
LEMMA OneDifferenceNext ==
  ASSUME TypeOK, OneDifference, [Next]_vars
  PROVE  OneDifference'
<1>1. ASSUME UNCHANGED <<requesting, failTimer>>, diff'.stage = "idle" <=> diff.stage = "idle"
      PROVE  OneDifference'
  BY <1>1 DEF OneDifference
<1>2. CASE Ask
  <2>1. requesting' = TRUE /\ failTimer' = FALSE /\ diff'.stage = "asked"
    BY <1>2 DEF Ask
  <2> QED BY <2>1 DEF OneDifference
<1>3. CASE GetDifference
  BY <1>1, <1>2, <1>3 DEF GetDifference
<1>4. CASE (\E n \in Lengths : Produce(n)) \/ \E c \in net : Lose(c)
  BY <1>1, <1>4 DEF Produce, Lose
<1>5. ASSUME NEW stage \in {"slice", "whole", "error"}, Answer(stage)
      PROVE  OneDifference'
  <2>1. /\ diff.stage # "idle" /\ diff'.stage # "idle"
        /\ UNCHANGED <<requesting, failTimer>>
    BY <1>5 DEF Answer
  <2> QED BY <1>1, <2>1
<1>6. ASSUME NEW c \in net, Receive(c)
      PROVE  OneDifference'
  <2>1. Ask \/ UNCHANGED <<requesting, failTimer, diff>>
    BY <1>6 DEF Receive, Skip, Buffer, FeedAll, FeedAndAsk
  <2> QED BY <1>1, <1>2, <2>1
<1>7. CASE SeqTimer
  BY <1>1, <1>2, <1>7 DEF SeqTimer
<1>8. CASE Resync \/ NewSession
  BY <1>3, <1>8 DEF Resync, NewSession
<1>9. CASE DifferenceSlice \/ FailTimer
  BY <1>2, <1>9 DEF DifferenceSlice, FailTimer
<1>10. CASE DifferenceDone
  <2>1. /\ diff.stage # "idle" /\ requesting' = FALSE /\ diff'.stage = "idle"
        /\ UNCHANGED failTimer
    BY <1>10 DEF DifferenceDone
  <2> QED BY <2>1 DEF OneDifference
<1>11. CASE DifferenceFail
  <2>1. /\ diff.stage # "idle" /\ failTimer' = TRUE /\ diff'.stage = "idle"
        /\ UNCHANGED requesting
    BY <1>11 DEF DifferenceFail
  <2> QED BY <2>1 DEF OneDifference
<1>12. CASE UNCHANGED vars
  BY <1>1, <1>12 DEF vars
<1> QED BY <1>4, <1>5, <1>6, <1>7, <1>8, <1>9, <1>10, <1>11, <1>12 DEF Next, Respond

(* The client asks as long as just one difference is in flight or planned, *)
(* whatever containers, sessions and failures come in between.             *)
THEOREM AskingGoesOn == Spec => []OneDifference
<1>1. Init => OneDifference
  BY DEF Init, OneDifference
<1>2. TypeOK /\ OneDifference /\ [Next]_vars => OneDifference'
  BY OneDifferenceNext
<1> QED BY <1>1, <1>2, TypeCorrect, PTL DEF Spec

=============================================================================
