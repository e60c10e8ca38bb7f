---------------------------- MODULE SessionProofs ----------------------------
(***************************************************************************)
(* Theorems about Session: its types, that it implements Calls, that no    *)
(* request is lost, and that none is sent while it is sent.                *)
(***************************************************************************)
EXTENDS Session, FiniteSetTheorems, TLAPS

-----------------------------------------------------------------------------
(* Ranks.                                                                  *)

(* The ranks of the members of a finite set of numbers, by which GiveIds() *)
(* numbers new messages and a server orders its answers, are the numbers   *)
(* from 1 to its size, each of one member.                                 *)
LEMMA Ranks ==
  ASSUME NEW S, S \subseteq Int, IsFiniteSet(S)
  PROVE  /\ Cardinality(S) \in Nat
         /\ \A x \in S : Cardinality({y \in S : y <= x}) \in 1 .. Cardinality(S)
         /\ \A x, y \in S :
              x < y => Cardinality({z \in S : z <= x}) < Cardinality({z \in S : z <= y})
         /\ \A k \in 1 .. Cardinality(S) :
              \E x \in S : Cardinality({y \in S : y <= x}) = k
<1> DEFINE Below(x) == {y \in S : y <= x}
           rank == [x \in S |-> Cardinality(Below(x))]
           n == Cardinality(S)
<1>1. n \in Nat
  BY FS_CardinalityType
<1>2. \A x \in S : IsFiniteSet(Below(x)) /\ Cardinality(Below(x)) \in 1 .. n
  <2> TAKE x \in S
  <2>1. IsFiniteSet(Below(x)) /\ Cardinality(Below(x)) <= n
    BY FS_Subset
  <2>2. x \in Below(x)
    OBVIOUS
  <2>3. Cardinality(Below(x)) \in Nat /\ Cardinality(Below(x)) # 0
    BY <2>1, <2>2, FS_CardinalityType, FS_EmptySet
  <2> QED BY <2>1, <2>3, <1>1
<1>3. ASSUME NEW x \in S, NEW y \in S, x < y
      PROVE  Cardinality(Below(x)) < Cardinality(Below(y))
  <2>0. x \in Int /\ y \in Int /\ x <= y /\ y <= y /\ ~(y <= x)
    BY <1>3
  <2>1. Below(x) \subseteq Below(y) /\ y \in Below(y) /\ y \notin Below(x)
    <3>1. \A z \in S : z \in Int
      OBVIOUS
    <3>2. \A z \in Int : z <= x => z <= y
      BY <2>0
    <3> QED BY <2>0, <3>1, <3>2
  <2>2. Cardinality(Below(x)) <= Cardinality(Below(y))
        /\ (Cardinality(Below(y)) = Cardinality(Below(x)) => Below(y) = Below(x))
    BY <2>1, <1>2, FS_Subset
  <2> QED BY <2>1, <2>2, <1>2
<1>4. ASSUME NEW k \in 1 .. n
      PROVE  \E x \in S : Cardinality(Below(x)) = k
  <2>1. rank \in [S -> 1 .. n]
    BY <1>2
  <2>2. ASSUME NEW x \in S, NEW y \in S, rank[x] = rank[y]
        PROVE  x = y
    <3>1. x \in Int /\ y \in Int
      OBVIOUS
    <3>2. ~(x < y) /\ ~(y < x)
      BY <1>2, <1>3, <2>2
    <3> QED BY <3>1, <3>2
  <2>3. rank \in Injection(S, 1 .. n)
    BY <2>1, <2>2 DEF Injection, IsInjective
  <2>4. IsFiniteSet(1 .. n) /\ Cardinality(1 .. n) = n
    BY <1>1, FS_Interval
  <2>5. rank \in Surjection(S, 1 .. n)
    BY <2>3, <2>4, FS_Injection
  <2>6. PICK x \in S : rank[x] = k
    BY <2>5 DEF Surjection
  <2> QED BY <2>6
<1> QED BY <1>1, <1>2, <1>3, <1>4

(* Trim() and Shrink() keep no more than fit.                              *)
LEMMA LatestFits ==
  ASSUME NEW S, S \subseteq Int, IsFiniteSet(S), NEW size \in Nat
  PROVE  /\ Latest(S, size) \subseteq S
         /\ IsFiniteSet(Latest(S, size))
         /\ Cardinality(Latest(S, size)) <= size
<1> DEFINE L == Latest(S, size)
           Above(x) == {y \in S : y > x}
           rank == [x \in L |-> Cardinality(Above(x)) + 1]
<1>1. L \subseteq S /\ \A x \in L : Cardinality(Above(x)) < size
  BY DEF Latest
<1>2. \A x \in S : IsFiniteSet(Above(x)) /\ Cardinality(Above(x)) \in Nat
  BY FS_Subset, FS_CardinalityType
<1>3. ASSUME NEW x \in S, NEW y \in S, x < y
      PROVE  Cardinality(Above(y)) < Cardinality(Above(x))
  <2>0. x \in Int /\ y \in Int /\ x < y /\ ~(y > y)
    BY <1>3
  <2>1. Above(y) \subseteq Above(x) /\ y \in Above(x) /\ y \notin Above(y)
    <3>1. \A z \in S : z \in Int
      OBVIOUS
    <3>2. \A z \in Int : z > y => z > x
      BY <2>0
    <3> QED BY <2>0, <3>1, <3>2
  <2>2. Cardinality(Above(y)) <= Cardinality(Above(x))
        /\ (Cardinality(Above(x)) = Cardinality(Above(y)) => Above(x) = Above(y))
    BY <2>1, <1>2, FS_Subset
  <2> QED BY <2>1, <2>2, <1>2
<1>4. rank \in [L -> 1 .. size]
  <2>1. \A x \in L : Cardinality(Above(x)) \in Nat /\ Cardinality(Above(x)) < size
    BY <1>1, <1>2
  <2>2. \A n \in Nat : n < size => n + 1 \in 1 .. size
    OBVIOUS
  <2> HIDE DEF Above, L
  <2> QED BY <2>1, <2>2
<1>5. ASSUME NEW x \in L, NEW y \in L, rank[x] = rank[y]
      PROVE  x = y
  <2>1. x \in S /\ y \in S /\ x \in Int /\ y \in Int
    BY <1>1
  <2>2. Cardinality(Above(x)) = Cardinality(Above(y))
    BY <1>5, <1>2, <2>1
  <2>3. ~(x < y) /\ ~(y < x)
    BY <1>2, <1>3, <2>1, <2>2
  <2> QED BY <2>1, <2>3
<1>6. rank \in Injection(L, 1 .. size)
  BY <1>4, <1>5 DEF Injection, IsInjective
<1>7. IsFiniteSet(1 .. size) /\ Cardinality(1 .. size) = size
  BY FS_Interval
<1> QED BY <1>1, <1>6, <1>7, FS_Injection

(* The first of some messages is one of them, and before the others.       *)
LEMMA MinIsOne ==
  ASSUME NEW S, S \subseteq Int, IsFiniteSet(S), S # {}
  PROVE  Min(S) \in S /\ \A y \in S : Min(S) <= y
<1>1. Cardinality(S) \in Nat /\ Cardinality(S) # 0
  BY FS_CardinalityType, FS_EmptySet
<1>r. /\ \A x \in S : Cardinality({y \in S : y <= x}) \in 1 .. Cardinality(S)
      /\ \A x, y \in S :
           x < y => Cardinality({z \in S : z <= x}) < Cardinality({z \in S : z <= y})
      /\ \A k \in 1 .. Cardinality(S) :
           \E x \in S : Cardinality({y \in S : y <= x}) = k
  BY Ranks
<1>2. PICK x \in S : Cardinality({y \in S : y <= x}) = 1
  <2>1. 1 \in 1 .. Cardinality(S)
    BY <1>1
  <2> QED BY <2>1, <1>r
<1>3. ASSUME NEW y \in S
      PROVE  x <= y
  <2>1. x \in Int /\ y \in Int
    OBVIOUS
  <2>2. Cardinality({z \in S : z <= y}) \in 1 .. Cardinality(S)
    BY <1>r
  <2>3. y < x => Cardinality({z \in S : z <= y}) < Cardinality({z \in S : z <= x})
    BY <1>r
  <2>4. ~(y < x)
    BY <1>1, <1>2, <2>2, <2>3
  <2> QED BY <2>1, <2>4
<1> QED BY <1>3 DEF Min

-----------------------------------------------------------------------------
(* requestPrepare(): new ids.                                              *)

(* The messages get the next ids, each its own; what was sent keeps its    *)
(* request, and replaceMsgId() leads from an id to an id.                  *)
LEMMA IdsAreGiven ==
  ASSUME TypeOK, NEW new \in SUBSET Requests
  PROVE  LET given == GiveIds(new)
             n == Len(owner)
             top == Len(owner) + Cardinality(new)
         IN /\ n \in Nat /\ top \in Nat /\ n <= top
            /\ given.owner \in [1 .. top -> Requests]
            /\ \A m \in 1 .. n : given.owner[m] = owner[m]
            /\ \A m \in n + 1 .. top : given.owner[m] \in new
            /\ given.ids \in [Requests -> 0 .. top]
            /\ \A r \in Requests \ new : given.ids[r] = msgId[r]
            /\ \A r \in new : given.ids[r] \in n + 1 .. top
                              /\ given.owner[given.ids[r]] = r
            /\ given.Renamed \in [1 .. n -> 1 .. top]
<1> DEFINE n == Len(owner)
           c == Cardinality(new)
           top == n + c
           NewId(r) == n + Cardinality({x \in new : x <= r})
           given == GiveIds(new)
<1>1. /\ owner \in Seq(Requests) /\ n \in Nat /\ owner \in [1 .. n -> Requests]
      /\ msgId \in [Requests -> 0 .. n] /\ Ids = 1 .. n
  <2>1. owner \in Seq(Requests) /\ n \in Nat /\ owner \in [1 .. n -> Requests] /\ Ids = 1 .. n
    BY DEF TypeOK, Ids
  <2>2. \A k \in Nat : (1 .. k) \cup {0} = 0 .. k
    OBVIOUS
  <2>3. msgId \in [Requests -> Ids \cup {0}]
    BY DEF TypeOK
  <2> QED BY <2>1, <2>2, <2>3
<1>2. new \subseteq Int /\ IsFiniteSet(new)
  <2>1. Requests \subseteq Int /\ IsFiniteSet(Requests)
    BY SessionAssumption
  <2> QED BY <2>1, FS_Subset
<1>3. /\ c \in Nat
      /\ \A x \in new : Cardinality({y \in new : y <= x}) \in 1 .. c
      /\ \A x, y \in new :
           x < y => Cardinality({z \in new : z <= x}) < Cardinality({z \in new : z <= y})
      /\ \A k \in 1 .. c :
           \E x \in new : Cardinality({y \in new : y <= x}) = k
  BY <1>2, Ranks
<1>4. \A r \in new : NewId(r) \in n + 1 .. top
  BY <1>1, <1>3
<1>5. ASSUME NEW x \in new, NEW y \in new, NewId(x) = NewId(y)
      PROVE  x = y
  <2>1. x \in Int /\ y \in Int
    BY <1>2
  <2>2. /\ Cardinality({z \in new : z <= x}) \in 1 .. c
        /\ Cardinality({z \in new : z <= y}) \in 1 .. c
    BY <1>3
  <2>3. Cardinality({z \in new : z <= x}) = Cardinality({z \in new : z <= y})
    BY <1>1, <1>3, <1>5, <2>2
  <2>4. ~(x < y) /\ ~(y < x)
    BY <1>3, <2>2, <2>3
  <2> QED BY <2>1, <2>4
<1>6. ASSUME NEW m \in n + 1 .. top
      PROVE  \E r \in new : NewId(r) = m
  <2>1. m - n \in 1 .. c
    BY <1>1, <1>3
  <2>2. PICK r \in new : Cardinality({y \in new : y <= r}) = m - n
    BY <1>3, <2>1
  <2>3. n + (m - n) = m
    BY <1>1, <1>3
  <2> HIDE DEF n
  <2> QED BY <2>2, <2>3
<1> DEFINE Owner(m) == IF m \in Ids THEN owner[m] ELSE CHOOSE r \in new : NewId(r) = m
           NewOf(m) == IF \E r \in new : msgId[r] = m
                       THEN NewId(CHOOSE r \in new : msgId[r] = m)
                       ELSE m
<1>7. /\ given.owner = [m \in 1 .. top |-> Owner(m)]
      /\ given.ids = [r \in Requests |-> IF r \in new THEN NewId(r) ELSE msgId[r]]
      /\ given.Renamed = [m \in Ids |-> NewOf(m)]
  BY DEF GiveIds
<1> HIDE DEF given, NewId
<1>8. \A m \in 1 .. n : m \in 1 .. top
  BY <1>1, <1>3
<1>9. \A m \in n + 1 .. top : m \in 1 .. top /\ m \notin 1 .. n
  BY <1>1, <1>3
<1>10. \A m \in 1 .. top : m \in 1 .. n \/ m \in n + 1 .. top
  BY <1>1, <1>3
<1>11. \A m \in 0 .. n : m \in 0 .. top
  BY <1>1, <1>3
<1>12. \A m \in n + 1 .. top : m \in 0 .. top
  BY <1>1, <1>3
<1>13. n \in Nat /\ top \in Nat /\ n <= top
  BY <1>1, <1>3
<1> HIDE DEF top, n
<1>14. \A m \in n + 1 .. top : Owner(m) \in new /\ NewId(Owner(m)) = m
  BY <1>1, <1>6, <1>9
<1>15. \A m \in 1 .. n : Owner(m) = owner[m]
  BY <1>1
<1>16. \A m \in 1 .. top : Owner(m) \in Requests
  BY <1>1, <1>10, <1>14, <1>15
<1>17. \A r \in new : Owner(NewId(r)) = r
  BY <1>4, <1>5, <1>14
<1>18. \A m \in 1 .. n : NewOf(m) \in 1 .. top
  BY <1>4, <1>8, <1>9
<1> HIDE DEF Owner, NewOf
<1>19. given.owner \in [1 .. top -> Requests]
  BY <1>7, <1>16
<1>20. \A m \in 1 .. n : given.owner[m] = owner[m]
  BY <1>7, <1>8, <1>15
<1>21. \A m \in n + 1 .. top : given.owner[m] \in new
  BY <1>7, <1>9, <1>14
<1>22. given.ids \in [Requests -> 0 .. top]
  BY <1>1, <1>4, <1>7, <1>11, <1>12
<1>23. \A r \in Requests \ new : given.ids[r] = msgId[r]
  BY <1>7
<1>24. \A r \in new : given.ids[r] \in n + 1 .. top /\ given.owner[given.ids[r]] = r
  BY <1>4, <1>7, <1>9, <1>17
<1>25. given.Renamed \in [1 .. n -> 1 .. top]
  BY <1>1, <1>7, <1>18
<1> QED BY <1>13, <1>19, <1>20, <1>21, <1>22, <1>23, <1>24, <1>25 DEF given, top, n

(* What SMT needs to be told of sequences.                                 *)
LEMMA SequenceIsFunction ==
  ASSUME NEW S, NEW n \in Nat, NEW f \in [1 .. n -> S]
  PROVE  f \in Seq(S) /\ Len(f) = n
<1>1. f \in Seq(S)
  OBVIOUS
<1>2. DOMAIN f = 1 .. Len(f) /\ Len(f) \in Nat /\ DOMAIN f = 1 .. n
  BY <1>1
<1> QED BY <1>1, <1>2

LEMMA AppendedSequence ==
  ASSUME NEW S, NEW s \in Seq(S), NEW e \in S
  PROVE  Append(s, e) \in Seq(S)
OBVIOUS

LEMMA HeadAndTail ==
  ASSUME NEW S, NEW s \in Seq(S), s # <<>>
  PROVE  /\ Head(s) \in S /\ Tail(s) \in Seq(S)
         /\ 1 \in DOMAIN s /\ Head(s) = s[1]
         /\ \A k \in DOMAIN Tail(s) : k + 1 \in DOMAIN s /\ Tail(s)[k] = s[k + 1]
<1>1. Len(s) \in Nat /\ Len(s) # 0 /\ DOMAIN s = 1 .. Len(s)
  OBVIOUS
<1>2. 1 \in DOMAIN s /\ Head(s) = s[1] /\ s[1] \in S
  BY <1>1
<1>3. Tail(s) \in Seq(S) /\ DOMAIN Tail(s) = 1 .. Len(s) - 1
  BY <1>1
<1>4. \A k \in 1 .. Len(s) - 1 : k + 1 \in 1 .. Len(s) /\ Tail(s)[k] = s[k + 1]
  BY <1>1
<1> QED BY <1>1, <1>2, <1>3, <1>4

LEMMA JoinedSequence ==
  ASSUME NEW S, NEW s \in Seq(S), NEW t \in Seq(S)
  PROVE  /\ s \o t \in Seq(S) /\ Len(s \o t) = Len(s) + Len(t)
         /\ \A k \in 1 .. Len(s) : (s \o t)[k] = s[k]
         /\ \A k \in 1 .. Len(t) : (s \o t)[Len(s) + k] = t[k]
<1>1. Len(s) \in Nat /\ Len(t) \in Nat
  OBVIOUS
<1>2. s \o t \in Seq(S) /\ Len(s \o t) = Len(s) + Len(t)
  OBVIOUS
<1>3. \A k \in 1 .. Len(s) : (s \o t)[k] = s[k]
  BY <1>1
<1>4. \A k \in 1 .. Len(t) : (s \o t)[Len(s) + k] = t[k]
  BY <1>1
<1> QED BY <1>2, <1>3, <1>4

LEMMA LongerSequence ==
  ASSUME NEW S, NEW T, S \subseteq T, NEW s \in Seq(S)
  PROVE  s \in Seq(T)
OBVIOUS

(* Of finite sets there are no more images than members.                   *)
LEMMA ImageFits ==
  ASSUME NEW S, IsFiniteSet(S), NEW D, NEW R, NEW f \in [D -> R], S \subseteq D
  PROVE  /\ {f[x] : x \in S} \subseteq R
         /\ IsFiniteSet({f[x] : x \in S})
         /\ Cardinality({f[x] : x \in S}) <= Cardinality(S)
<1> DEFINE T == {f[x] : x \in S}
           g == [x \in S |-> f[x]]
<1>1. g \in [S -> T]
  OBVIOUS
<1>2. \A y \in T : \E x \in S : g[x] = y
  OBVIOUS
<1>3. g \in Surjection(S, T)
  BY <1>1, <1>2 DEF Surjection
<1>4. T \subseteq R
  OBVIOUS
<1> QED BY <1>3, <1>4, FS_Surjection

(* There are no more ids than were given.                                  *)
LEMMA IdsAreFinite ==
  ASSUME TypeOK, NEW S \in SUBSET Ids
  PROVE  IsFiniteSet(S) /\ S \subseteq Int
<1>1. Len(owner) \in Nat
  BY DEF TypeOK
<1>2. IsFiniteSet(Ids) /\ Ids \subseteq Int
  BY <1>1, FS_Interval DEF Ids
<1> QED BY <1>2, FS_Subset

(* When ids were given, whatever spoke of ids still does.                  *)
LEMMA IdsGrow ==
  ASSUME TypeOK, NEW new \in SUBSET Requests,
         owner' = GiveIds(new).owner, msgId' = GiveIds(new).ids
  PROVE  /\ Ids \subseteq Ids'
         /\ owner' \in Seq(Requests)
         /\ msgId' \in [Requests -> Ids' \cup {0}]
         /\ \A r \in new : msgId'[r] \in Ids'
         /\ \A S \in SUBSET Ids :
              /\ RenamedIn(GiveIds(new), S) \subseteq Ids'
              /\ IsFiniteSet(RenamedIn(GiveIds(new), S))
              /\ Cardinality(RenamedIn(GiveIds(new), S)) <= Cardinality(S)
         /\ up \in Seq([msgs : SUBSET Ids', single : BOOLEAN])
         /\ down \subseteq [kind : {"bad", "new"}, ids : SUBSET Ids', first : Nat,
                            single : BOOLEAN]
         /\ answers \in Seq([id : Ids', ok : BOOLEAN])
<1> DEFINE n == Len(owner)
           top == Len(owner) + Cardinality(new)
           given == GiveIds(new)
<1>1. /\ n \in Nat /\ top \in Nat /\ n <= top
      /\ given.owner \in [1 .. top -> Requests]
      /\ given.ids \in [Requests -> 0 .. top]
      /\ \A r \in new : given.ids[r] \in n + 1 .. top
      /\ given.Renamed \in [1 .. n -> 1 .. top]
  BY IdsAreGiven
<1> HIDE DEF given
<1>2. owner' \in Seq(Requests) /\ Len(owner') = top
  <2>1. owner' \in [1 .. top -> Requests]
    BY <1>1 DEF given
  <2> QED BY <2>1, <1>1, SequenceIsFunction
<1>3. Ids = 1 .. n /\ Ids' = 1 .. top
  BY <1>2 DEF Ids
<1>4. Ids \subseteq Ids' /\ 0 .. top = Ids' \cup {0}
  BY <1>1, <1>3
<1>5. \A r \in new : given.ids[r] \in Ids'
  BY <1>1, <1>3
<1> HIDE DEF n, top
<1>6. ASSUME NEW S \in SUBSET Ids
      PROVE  /\ RenamedIn(given, S) \subseteq Ids'
             /\ IsFiniteSet(RenamedIn(given, S))
             /\ Cardinality(RenamedIn(given, S)) <= Cardinality(S)
  <2>1. IsFiniteSet(S)
    BY IdsAreFinite
  <2>2. given.Renamed \in [Ids -> Ids'] /\ S \subseteq Ids
    BY <1>1, <1>3
  <2> QED BY <2>1, <2>2, ImageFits DEF RenamedIn
<1>7. up \in Seq([msgs : SUBSET Ids', single : BOOLEAN])
  <2>1. up \in Seq([msgs : SUBSET Ids, single : BOOLEAN])
    BY DEF TypeOK
  <2>2. [msgs : SUBSET Ids, single : BOOLEAN] \subseteq [msgs : SUBSET Ids', single : BOOLEAN]
    BY <1>4
  <2> QED BY <2>1, <2>2, LongerSequence
<1>8. down \subseteq [kind : {"bad", "new"}, ids : SUBSET Ids', first : Nat, single : BOOLEAN]
  <2>1. down \subseteq [kind : {"bad", "new"}, ids : SUBSET Ids, first : Nat, single : BOOLEAN]
    BY DEF TypeOK
  <2> QED BY <2>1, <1>4
<1>9. answers \in Seq([id : Ids', ok : BOOLEAN])
  <2>1. answers \in Seq([id : Ids, ok : BOOLEAN])
    BY DEF TypeOK
  <2>2. [id : Ids, ok : BOOLEAN] \subseteq [id : Ids', ok : BOOLEAN]
    BY <1>4
  <2> QED BY <2>1, <2>2, LongerSequence
<1>10. msgId' \in [Requests -> Ids' \cup {0}] /\ \A r \in new : msgId'[r] \in Ids'
  BY <1>1, <1>4, <1>5 DEF given
<1> QED BY <1>2, <1>4, <1>6, <1>7, <1>8, <1>9, <1>10 DEF given

-----------------------------------------------------------------------------
(* Types.                                                                  *)

(* requestsAcked() only takes from the maps, and adds to the answered ones *)
(* as many as fit.                                                         *)
LEMMA AckedTypes ==
  ASSUME TypeOK, NEW ids
  PROVE  /\ Acked(ids).haveSent \subseteq haveSent
         /\ Acked(ids).resending \subseteq resending
         /\ Acked(ids).toSend \subseteq toSend
         /\ Trim(Acked(ids).acked) \subseteq Ids
         /\ Cardinality(Trim(Acked(ids).acked)) <= AckedSize
<1>1. /\ Acked(ids).haveSent \subseteq haveSent
      /\ Acked(ids).resending \subseteq resending
      /\ Acked(ids).toSend \subseteq toSend
      /\ Acked(ids).acked \subseteq acked \cup haveSent \cup resending
  BY DEF Acked
<1>2. acked \subseteq Ids /\ haveSent \subseteq Ids /\ resending \subseteq Ids
  BY DEF TypeOK
<1>3. Acked(ids).acked \in SUBSET Ids
  BY <1>1, <1>2
<1>4. IsFiniteSet(Acked(ids).acked) /\ Acked(ids).acked \subseteq Int
  BY <1>3, IdsAreFinite
<1>5. AckedSize \in Nat
  BY SessionAssumption
<1>6. /\ Latest(Acked(ids).acked, AckedSize) \subseteq Acked(ids).acked
      /\ Cardinality(Latest(Acked(ids).acked, AckedSize)) <= AckedSize
  BY <1>4, <1>5, LatestFits
<1> QED BY <1>1, <1>3, <1>6 DEF Trim

(* Each answer is to a message, and a message is of a request.             *)
LEMMA AnswersAreTyped ==
  ASSUME TypeOK
  PROVE  /\ DOMAIN answers = 1 .. Len(answers) /\ Len(answers) \in Nat
         /\ \A k \in 1 .. Len(answers) :
              /\ answers[k] \in [id : Ids, ok : BOOLEAN]
              /\ answers[k].id \in Ids /\ answers[k].ok \in BOOLEAN
              /\ owner[answers[k].id] \in Requests
         /\ \A k \in Live : k \in 1 .. Len(answers)
<1> DEFINE A == [id : Ids, ok : BOOLEAN]
<1>1. answers \in Seq(A) /\ past \in 0 .. Len(answers)
  BY DEF TypeOK
<1>2. \A a \in A : a.id \in Ids /\ a.ok \in BOOLEAN
  OBVIOUS
<1>3. \A m \in Ids : owner[m] \in Requests
  BY DEF TypeOK, Ids
<1> HIDE DEF A
<1>4. /\ DOMAIN answers = 1 .. Len(answers) /\ Len(answers) \in Nat
      /\ \A k \in 1 .. Len(answers) : answers[k] \in A
  BY <1>1
<1>5. \A k \in Live : k \in 1 .. Len(answers)
  BY <1>1, <1>4 DEF Live
<1>6. \A k \in 1 .. Len(answers) : answers[k] \in [id : Ids, ok : BOOLEAN]
  BY <1>4 DEF A
<1> QED BY <1>2, <1>3, <1>4, <1>5, <1>6

(* The window of received ids is never larger than it may be.              *)
LEMMA SeenFits ==
  ASSUME TypeOK, NEW k \in Live
  PROVE  /\ Shrink(seen \cup {k}) \subseteq 1 .. Len(answers)
         /\ Cardinality(Shrink(seen \cup {k})) <= SeenSize
<1>1. /\ Len(answers) \in Nat /\ past \in 0 .. Len(answers)
      /\ seen \subseteq 1 .. Len(answers)
  BY DEF TypeOK
<1>2. k \in 1 .. Len(answers)
  BY <1>1 DEF Live
<1> DEFINE n == Len(answers)
           S == seen \cup {k}
<1>3. IsFiniteSet(1 .. n) /\ 1 .. n \subseteq Int
  BY <1>1, FS_Interval
<1>4. S \subseteq 1 .. n
  BY <1>1, <1>2
<1>5. IsFiniteSet(S) /\ S \subseteq Int
  BY <1>3, <1>4, FS_Subset
<1>6. SeenSize \in Nat
  BY SessionAssumption
<1> HIDE DEF S
<1>7. Latest(S, SeenSize) \subseteq S /\ Cardinality(Latest(S, SeenSize)) <= SeenSize
  BY <1>5, <1>6, LatestFits
<1> QED BY <1>4, <1>7 DEF Shrink, S

(* The messages of a packet that are new to the server are answered each   *)
(* once.                                                                   *)
InTurn(new, k) == CHOOSE m \in new : Cardinality({x \in new : x <= m}) = k

LEMMA EachInTurn ==
  ASSUME TypeOK, NEW new \in SUBSET Ids
  PROVE  /\ Cardinality(new) \in Nat
         /\ \A k \in 1 .. Cardinality(new) : InTurn(new, k) \in new
         /\ \A m \in new : \E k \in 1 .. Cardinality(new) : InTurn(new, k) = m
         /\ \A j, k \in 1 .. Cardinality(new) : InTurn(new, j) = InTurn(new, k) => j = k
<1> DEFINE c == Cardinality(new)
           Rank(m) == Cardinality({x \in new : x <= m})
<1>1. IsFiniteSet(new) /\ new \subseteq Int
  BY IdsAreFinite
<1>2. /\ c \in Nat
      /\ \A x \in new : Rank(x) \in 1 .. c
      /\ \A x, y \in new : x < y => Rank(x) < Rank(y)
      /\ \A k \in 1 .. c : \E x \in new : Rank(x) = k
  BY <1>1, Ranks
<1>3. \A x, y \in new : Rank(x) = Rank(y) => x = y
  <2> TAKE x, y \in new
  <2> HAVE Rank(x) = Rank(y)
  <2>1. x \in Int /\ y \in Int
    BY <1>1
  <2>2. Rank(x) \in 1 .. c /\ Rank(y) \in 1 .. c
    BY <1>2
  <2>3. ~(Rank(x) < Rank(y)) /\ ~(Rank(y) < Rank(x))
    <3> HIDE DEF Rank, c
    <3> QED BY <1>2, <2>2
  <2>4. ~(x < y) /\ ~(y < x)
    BY <1>2, <2>3
  <2> QED BY <2>1, <2>4
<1>4. \A k : InTurn(new, k) = CHOOSE m \in new : Rank(m) = k
  BY DEF InTurn
<1> HIDE DEF c, Rank
<1>5. \A k \in 1 .. c : InTurn(new, k) \in new /\ Rank(InTurn(new, k)) = k
  BY <1>2, <1>4
<1>6. \A m \in new : InTurn(new, Rank(m)) = m
  BY <1>2, <1>3, <1>5
<1> QED BY <1>2, <1>5, <1>6 DEF c

(* What Serve adds to the answers.                                         *)
LEMMA Answered ==
  ASSUME TypeOK, Serve
  PROVE  \E failing \in SUBSET (Head(up).msgs \ Arrived) :
           LET new == Head(up).msgs \ Arrived
               n == Len(answers)
               c == Cardinality(new)
           IN /\ new \in SUBSET Ids /\ n \in Nat /\ c \in Nat
              /\ errors' = errors + Cardinality(failing)
              /\ Len(answers') = n + c
              /\ answers' \in Seq([id : Ids, ok : BOOLEAN])
              /\ \A k \in 1 .. n : answers'[k] = answers[k]
              /\ \A k \in 1 .. c :
                   answers'[n + k] = [id |-> InTurn(new, k), ok |-> InTurn(new, k) \notin failing]
<1> DEFINE new == Head(up).msgs \ Arrived
           n == Len(answers)
           c == Cardinality(new)
           b(failing) == [k \in 1 .. c |-> [id |-> InTurn(new, k),
                                            ok |-> InTurn(new, k) \notin failing]]
<1>1. /\ up # <<>>
      /\ \E failing \in SUBSET new :
           errors' = errors + Cardinality(failing) /\ answers' = answers \o b(failing)
  BY DEF Serve, InTurn
<1>2. new \in SUBSET Ids
  <2>1. up \in Seq([msgs : SUBSET Ids, single : BOOLEAN])
    BY DEF TypeOK
  <2>2. Head(up) \in [msgs : SUBSET Ids, single : BOOLEAN]
    BY <1>1, <2>1, HeadAndTail
  <2> QED BY <2>2
<1>3. PICK failing \in SUBSET new :
        errors' = errors + Cardinality(failing) /\ answers' = answers \o b(failing)
  BY <1>1
<1>4. c \in Nat /\ \A k \in 1 .. c : InTurn(new, k) \in Ids
  BY <1>2, EachInTurn
<1>5. answers \in Seq([id : Ids, ok : BOOLEAN]) /\ n \in Nat
  BY DEF TypeOK
<1> HIDE DEF new, c
<1>6. b(failing) \in [1 .. c -> [id : Ids, ok : BOOLEAN]]
  BY <1>4
<1>7. b(failing) \in Seq([id : Ids, ok : BOOLEAN]) /\ Len(b(failing)) = c
  BY <1>4, <1>6, SequenceIsFunction
<1>8. \A k \in 1 .. c : b(failing)[k] = [id |-> InTurn(new, k),
                                          ok |-> InTurn(new, k) \notin failing]
  OBVIOUS
<1> DEFINE s == b(failing)
<1> HIDE DEF b, s
<1>9. answers' = answers \o s /\ s \in Seq([id : Ids, ok : BOOLEAN]) /\ Len(s) = c
  BY <1>3, <1>7 DEF s
<1>10. /\ answers' \in Seq([id : Ids, ok : BOOLEAN])
       /\ Len(answers') = n + c
       /\ \A k \in 1 .. n : answers'[k] = answers[k]
       /\ \A k \in 1 .. c : answers'[n + k] = s[k]
  <2> DEFINE A == [id : Ids, ok : BOOLEAN]
  <2>0. answers \in Seq(A) /\ s \in Seq(A)
    BY <1>5, <1>9
  <2> HIDE DEF A
  <2>1. /\ answers \o s \in Seq(A)
        /\ Len(answers \o s) = Len(answers) + Len(s)
        /\ \A k \in 1 .. Len(answers) : (answers \o s)[k] = answers[k]
        /\ \A k \in 1 .. Len(s) : (answers \o s)[Len(answers) + k] = s[k]
    BY <2>0, JoinedSequence
  <2> QED BY <1>9, <2>1 DEF A
<1> QED BY <1>2, <1>3, <1>4, <1>5, <1>8, <1>10 DEF new, c, s

(* At the start nothing was ever sent.                                     *)
LEMMA TypeInit == Init => TypeOK
<1> SUFFICES ASSUME Init PROVE TypeOK
  OBVIOUS
<1>1. Ids = {} /\ Len(answers) = 0
  BY DEF Init, Ids
<1>2. Cardinality({}) = 0
  BY FS_EmptySet
<1>3. SeenSize \in Nat /\ AckedSize \in Nat /\ MaxFaults \in Nat /\ MaxErrors \in Nat
  BY SessionAssumption
<1>4. /\ owner \in Seq(Requests) /\ up \in Seq([msgs : SUBSET Ids, single : BOOLEAN])
      /\ answers \in Seq([id : Ids, ok : BOOLEAN])
  BY DEF Init
<1>5. msgId \in [Requests -> Ids \cup {0}]
        /\ call \in [Requests -> {"new", "open", "answered", "cancelled"}]
  BY DEF Init
<1>6. Cardinality(seen) <= SeenSize /\ Cardinality(acked) <= AckedSize
  <2>1. seen = {} /\ acked = {}
    BY DEF Init
  <2> QED BY <1>2, <1>3, <2>1
<1>7. past \in 0 .. Len(answers) /\ faults \in 0 .. MaxFaults /\ errors \in 0 .. MaxErrors
  BY <1>1, <1>3 DEF Init
<1>8. /\ delayed = {} /\ toSend = {} /\ haveSent = {} /\ received = {} /\ forced = {}
      /\ resending = {} /\ acked = {} /\ containers = {} /\ seen = {} /\ todo = {}
      /\ moving = {} /\ alone = 0 /\ down = {}
      /\ timer \in BOOLEAN /\ wake \in BOOLEAN /\ started \in BOOLEAN
      /\ connected \in BOOLEAN /\ fresh \in BOOLEAN
  BY DEF Init
<1> QED BY <1>4, <1>5, <1>6, <1>7, <1>8 DEF TypeOK

(* The types after ids were given to what was sent.                        *)
LEMMA GrownTypes ==
  ASSUME TypeOK, NEW given, NEW ids,
         /\ Ids \subseteq Ids'
         /\ owner' \in Seq(Requests)
         /\ msgId' \in [Requests -> Ids' \cup {0}]
         /\ \A S \in SUBSET Ids :
              /\ RenamedIn(given, S) \subseteq Ids'
              /\ IsFiniteSet(RenamedIn(given, S))
              /\ Cardinality(RenamedIn(given, S)) <= Cardinality(S)
         /\ down \subseteq [kind : {"bad", "new"}, ids : SUBSET Ids', first : Nat,
                            single : BOOLEAN]
         /\ answers \in Seq([id : Ids', ok : BOOLEAN]),
         /\ ids \subseteq Ids'
         /\ resending' \subseteq resending
         /\ haveSent' = RenamedIn(given, haveSent) \cup ids
         /\ acked' = RenamedIn(given, acked)
         /\ containers' \subseteq {RenamedIn(given, c) : c \in containers} \cup {ids}
         /\ toSend' \subseteq toSend
         /\ wake' \in BOOLEAN /\ timer' \in BOOLEAN /\ started' \in BOOLEAN
         /\ alone' \in Requests \cup {0}
         /\ up' \in Seq([msgs : SUBSET Ids', single : BOOLEAN])
         /\ UNCHANGED <<mainVars, received, forced, todo, moving, connected, seen,
                        down, answers, past, fresh, faults, errors>>
  PROVE  TypeOK'
<1> USE DEF mainVars
<1>1. haveSent' \subseteq Ids' /\ acked' \subseteq Ids'
  <2>1. haveSent \in SUBSET Ids /\ acked \in SUBSET Ids
    BY DEF TypeOK
  <2> QED BY <2>1
<1>2. Cardinality(acked') <= AckedSize
  <2>1. acked \in SUBSET Ids /\ Cardinality(acked) <= AckedSize
    BY DEF TypeOK
  <2>2. IsFiniteSet(acked) /\ IsFiniteSet(acked')
    BY <2>1, IdsAreFinite
  <2>3. /\ Cardinality(acked') <= Cardinality(acked)
        /\ Cardinality(acked) \in Nat /\ Cardinality(acked') \in Nat
    BY <2>1, <2>2, FS_CardinalityType
  <2>4. AckedSize \in Nat
    BY SessionAssumption
  <2> QED BY <2>1, <2>3, <2>4
<1>3. containers' \subseteq SUBSET Ids'
  <2>1. \A c \in containers : c \in SUBSET Ids
    BY DEF TypeOK
  <2>2. \A c \in containers : RenamedIn(given, c) \subseteq Ids'
    BY <2>1
  <2> QED BY <2>2
<1>4. resending' \subseteq Ids' /\ todo' \subseteq Ids' /\ moving' \subseteq Ids'
  BY DEF TypeOK
<1>5. /\ call' \in [Requests -> {"new", "open", "answered", "cancelled"}]
      /\ delayed' \subseteq Requests
      /\ toSend' \subseteq Requests
      /\ received' \subseteq [request : Requests, ok : BOOLEAN]
      /\ forced' \subseteq Requests
      /\ connected' \in BOOLEAN
      /\ past' \in 0 .. Len(answers') /\ seen' \subseteq 1 .. Len(answers')
      /\ Cardinality(seen') <= SeenSize
      /\ fresh' \in BOOLEAN /\ faults' \in 0 .. MaxFaults /\ errors' \in 0 .. MaxErrors
  BY DEF TypeOK
<1>6. /\ down' \subseteq [kind : {"bad", "new"}, ids : SUBSET Ids', first : Nat,
                          single : BOOLEAN]
      /\ answers' \in Seq([id : Ids', ok : BOOLEAN])
  BY Zenon
<1> QED BY <1>1, <1>2, <1>3, <1>4, <1>5, <1>6 DEF TypeOK

(* Each step keeps the types.                                              *)
LEMMA TypeNext == TypeOK /\ [Next]_vars => TypeOK'
<1> SUFFICES ASSUME TypeOK, [Next]_vars PROVE TypeOK'
  OBVIOUS
<1> USE DEF mainVars, sharedVars, idVars, sentVars, handVars, linkVars, serverVars
<1>1. ASSUME NEW r \in Requests, SendRequest(r) PROVE TypeOK'
  BY <1>1 DEF TypeOK, SendRequest, SendPrepared, Ids
<1>2. ASSUME NEW r \in Requests, Cancel(r) PROVE TypeOK'
  BY <1>2 DEF TypeOK, Cancel, Ids
<1>3. CASE TryToReceive
  <2>1. PICK m \in received :
          /\ received' = received \ {m}
          /\ IF call[m.request] # "open"
             THEN UNCHANGED <<call, delayed>>
             ELSE IF m.ok
             THEN call' = [call EXCEPT ![m.request] = "answered"] /\ UNCHANGED delayed
             ELSE delayed' = delayed \cup {m.request} /\ UNCHANGED call
    BY <1>3 DEF TryToReceive
  <2>2. UNCHANGED <<toSend, haveSent, idVars, sentVars, wake, handVars, linkVars, serverVars>>
    BY <1>3 DEF TryToReceive
  <2>3. m.request \in Requests
    BY DEF TypeOK
  <2>4. /\ call' \in [Requests -> {"new", "open", "answered", "cancelled"}]
        /\ delayed' \subseteq Requests /\ received' \subseteq received
    BY <2>1, <2>3 DEF TypeOK
  <2> QED BY <2>2, <2>4 DEF TypeOK, Ids
<1>4. CASE CheckDelayed
  BY <1>4 DEF TypeOK, CheckDelayed, SendPrepared, Ids
<1>5. CASE SendNothing
  BY <1>5 DEF TypeOK, SendNothing, Ids
<1>6. CASE TakeAlone
  <2>1. toSend # {}
    BY <1>6, FS_EmptySet DEF TakeAlone
  <2>2. alone' \in toSend
    BY <1>6, <2>1 DEF TakeAlone
  <2> QED BY <1>6, <2>2 DEF TypeOK, TakeAlone, Ids
<1>7. CASE SendAlone
  <2> DEFINE given == GiveIds({alone})
  <2>1. alone \in Requests
    BY <1>7 DEF SendAlone, TypeOK
  <2>2. owner' = given.owner /\ msgId' = given.ids
    BY <1>7 DEF SendAlone
  <2>3. /\ Ids \subseteq Ids'
        /\ owner' \in Seq(Requests)
        /\ msgId' \in [Requests -> Ids' \cup {0}]
        /\ msgId'[alone] \in Ids'
        /\ \A S \in SUBSET Ids :
             /\ RenamedIn(given, S) \subseteq Ids'
             /\ Cardinality(RenamedIn(given, S)) <= Cardinality(S)
             /\ IsFiniteSet(RenamedIn(given, S))
        /\ up \in Seq([msgs : SUBSET Ids', single : BOOLEAN])
        /\ down \subseteq [kind : {"bad", "new"}, ids : SUBSET Ids', first : Nat,
                           single : BOOLEAN]
        /\ answers \in Seq([id : Ids', ok : BOOLEAN])
    BY <2>1, <2>2, IdsGrow
  <2> HIDE DEF given
  <2>4. /\ resending' \subseteq resending
        /\ haveSent' = RenamedIn(given, haveSent) \cup {msgId'[alone]}
        /\ acked' = RenamedIn(given, acked)
        /\ containers' = {RenamedIn(given, c) : c \in containers}
        /\ up' = Append(up, Packet({msgId'[alone]}, TRUE))
        /\ alone' = 0
        /\ UNCHANGED <<mainVars, toSend, received, forced, timer, wake, todo, moving, linkVars,
                       down, answers, past, fresh, faults, errors>>
    BY <1>7, <2>2 DEF SendAlone, given
  <2>5. up' \in Seq([msgs : SUBSET Ids', single : BOOLEAN])
    <3>1. Packet({msgId'[alone]}, TRUE) \in [msgs : SUBSET Ids', single : BOOLEAN]
      BY <2>3 DEF Packet
    <3> QED BY <2>3, <2>4, <3>1, AppendedSequence
  <2> DEFINE ids == {msgId'[alone]}
  <2>6. /\ ids \subseteq Ids'
        /\ resending' \subseteq resending
        /\ haveSent' = RenamedIn(given, haveSent) \cup ids
        /\ acked' = RenamedIn(given, acked)
        /\ containers' \subseteq {RenamedIn(given, c) : c \in containers} \cup {ids}
        /\ toSend' \subseteq toSend
        /\ wake' \in BOOLEAN /\ timer' \in BOOLEAN /\ started' \in BOOLEAN
        /\ alone' \in Requests \cup {0}
    <3>1. wake \in BOOLEAN /\ timer \in BOOLEAN /\ started \in BOOLEAN
      BY DEF TypeOK
    <3> QED BY <2>3, <2>4, <3>1
  <2>7. UNCHANGED <<mainVars, received, forced, todo, moving, connected, seen,
                    down, answers, past, fresh, faults, errors>>
    BY <2>4
  <2> HIDE DEF ids
  <2> QED BY <2>3, <2>5, <2>6, <2>7, GrownTypes
<1>8. CASE SendContainer
  <2>1. PICK batch \in Batches :
          LET new == Renewed(batch, ~started)
              given == GiveIds(new)
              ids == {given.ids[r] : r \in batch}
          IN
          /\ owner' = given.owner /\ msgId' = given.ids
          /\ resending' = resending \ {msgId[r] : r \in batch}
          /\ haveSent' = RenamedIn(given, haveSent) \cup ids
          /\ acked' = RenamedIn(given, acked)
          /\ containers' = {RenamedIn(given, c) : c \in containers} \cup {ids}
          /\ toSend' = toSend \ batch
          /\ wake' = (batch # toSend)
          /\ up' = Append(up, Packet(ids, FALSE))
    BY <1>8 DEF SendContainer
  <2> DEFINE new == Renewed(batch, ~started)
             given == GiveIds(new)
             ids == {msgId'[r] : r \in batch}
  <2>2. batch \subseteq Requests /\ new \in SUBSET Requests
    BY DEF Batches, Renewed, TypeOK
  <2>3. owner' = given.owner /\ msgId' = given.ids
    BY <2>1
  <2>4. /\ Ids \subseteq Ids'
        /\ owner' \in Seq(Requests)
        /\ msgId' \in [Requests -> Ids' \cup {0}]
        /\ \A r \in new : msgId'[r] \in Ids'
        /\ \A S \in SUBSET Ids :
             /\ RenamedIn(given, S) \subseteq Ids'
             /\ Cardinality(RenamedIn(given, S)) <= Cardinality(S)
             /\ IsFiniteSet(RenamedIn(given, S))
        /\ up \in Seq([msgs : SUBSET Ids', single : BOOLEAN])
        /\ down \subseteq [kind : {"bad", "new"}, ids : SUBSET Ids', first : Nat,
                           single : BOOLEAN]
        /\ answers \in Seq([id : Ids', ok : BOOLEAN])
    <3> HIDE DEF new
    <3> QED BY <2>2, <2>3, IdsGrow
  <2>5. \A r \in batch \ new : msgId'[r] = msgId[r]
    BY <2>2, <2>3, IdsAreGiven
  <2>6. ids \subseteq Ids'
    <3>1. ASSUME NEW r \in batch PROVE msgId'[r] \in Ids'
      <4>1. CASE r \in new
        BY <4>1, <2>4
      <4>2. CASE r \notin new
        <5>1. msgId[r] # 0 /\ msgId[r] \in Ids \cup {0}
          BY <4>2, <2>2 DEF Renewed, TypeOK
        <5> QED BY <5>1, <4>2, <2>4, <2>5
      <4> QED BY <4>1, <4>2
    <3> QED BY <3>1
  <2>7. /\ resending' \subseteq resending
        /\ haveSent' = RenamedIn(given, haveSent) \cup ids
        /\ acked' = RenamedIn(given, acked)
        /\ containers' = {RenamedIn(given, c) : c \in containers} \cup {ids}
        /\ toSend' \subseteq toSend
        /\ wake' \in BOOLEAN
        /\ up' = Append(up, Packet(ids, FALSE))
    BY <2>1
  <2>8. /\ timer' = TRUE /\ started' = TRUE
        /\ UNCHANGED <<mainVars, received, forced, handVars, connected, seen,
                       down, answers, past, fresh, faults, errors>>
    BY <1>8 DEF SendContainer
  <2> HIDE DEF new, given, ids
  <2>9. up' \in Seq([msgs : SUBSET Ids', single : BOOLEAN])
    <3>1. Packet(ids, FALSE) \in [msgs : SUBSET Ids', single : BOOLEAN]
      BY <2>6 DEF Packet
    <3> QED BY <2>4, <2>7, <3>1, AppendedSequence
  <2>10. /\ containers' \subseteq {RenamedIn(given, c) : c \in containers} \cup {ids}
         /\ timer' \in BOOLEAN /\ started' \in BOOLEAN
         /\ alone' \in Requests \cup {0}
    <3>1. alone \in Requests \cup {0}
      BY DEF TypeOK
    <3> QED BY <2>7, <2>8, <3>1
  <2>11. UNCHANGED <<mainVars, received, forced, todo, moving, connected, seen,
                     down, answers, past, fresh, faults, errors>>
    BY <2>8
  <2> QED BY <2>4, <2>6, <2>7, <2>9, <2>10, <2>11, GrownTypes
<1>9. CASE Resend
  BY <1>9 DEF TypeOK, Resend, Ids
<1>10. CASE ResendMoved
  BY <1>10 DEF TypeOK, ResendMoved, Ids
<1>11. ASSUME NEW due \in SUBSET haveSent, CheckSentRequests(due) PROVE TypeOK'
  BY <1>11 DEF TypeOK, CheckSentRequests, Ids
<1>12. CASE ClearOldContainer
  BY <1>12 DEF TypeOK, ClearOldContainer, Ids
<1>13. CASE ReceiveAnswer
  <2>1. PICK k \in Live \ seen :
          LET m == answers[k].id
              result == Acked({m})
          IN
          /\ seen' = Shrink(seen \cup {k})
          /\ haveSent' = result.haveSent /\ resending' = result.resending
          /\ toSend' = result.toSend /\ acked' = Trim(result.acked)
          /\ received' \in {received,
                            received \cup {[request |-> owner[m], ok |-> answers[k].ok]}}
    BY <1>13 DEF ReceiveAnswer
  <2>2. UNCHANGED <<mainVars, idVars, containers, timer, wake, handVars, connected, started,
                    serverVars>>
    BY <1>13 DEF ReceiveAnswer
  <2> DEFINE m == answers[k].id
  <2>3. k \in 1 .. Len(answers) /\ answers[k] \in [id : Ids, ok : BOOLEAN]
    BY AnswersAreTyped
  <2>4. owner[m] \in Requests
    BY <2>3 DEF TypeOK, Ids
  <2>5. received' \subseteq [request : Requests, ok : BOOLEAN]
    <3>1. [request |-> owner[m], ok |-> answers[k].ok] \in [request : Requests, ok : BOOLEAN]
      BY <2>3, <2>4
    <3>2. received \subseteq [request : Requests, ok : BOOLEAN]
      BY DEF TypeOK
    <3> QED BY <2>1, <3>1, <3>2
  <2>6. /\ haveSent' \subseteq haveSent /\ resending' \subseteq resending
        /\ toSend' \subseteq toSend
        /\ acked' \subseteq Ids /\ Cardinality(acked') <= AckedSize
    BY <2>1, AckedTypes
  <2>7. seen' \subseteq 1 .. Len(answers) /\ Cardinality(seen') <= SeenSize
    BY <2>1, SeenFits
  <2> QED BY <2>2, <2>5, <2>6, <2>7 DEF TypeOK, Ids
<1>14. CASE ReceiveBad
  <2>1. PICK message \in down :
          /\ down' = down \ {message}
          /\ todo' \in {message.ids, {}}
          /\ containers' \in {containers, containers \ {message.ids}}
    BY <1>14 DEF ReceiveBad, Takes
  <2>2. /\ wake' = TRUE
        /\ UNCHANGED <<mainVars, sharedVars, idVars, resending, acked, timer, moving, alone,
                       linkVars, up, answers, past, fresh, faults, errors>>
    BY <1>14 DEF ReceiveBad
  <2>3. message.ids \subseteq Ids
    BY DEF TypeOK
  <2>4. todo' \subseteq Ids /\ containers' \subseteq containers /\ down' \subseteq down
    BY <2>1, <2>3
  <2> QED BY <2>2, <2>4 DEF TypeOK, Ids
<1>15. CASE ReceiveNewSession
  BY <1>15 DEF TypeOK, ReceiveNewSession, Takes, Ids
<1>16. CASE ReceiveAck
  BY <1>16, AckedTypes DEF TypeOK, ReceiveAck, RequestsAcked, Ids
<1>17. CASE ReceiveTooOld
  <2>1. /\ connected' = FALSE /\ up' = <<>> /\ down' = {} /\ started' = FALSE /\ seen' = {}
        /\ past' = Len(answers) /\ fresh' = TRUE
        /\ faults' = faults + 1 /\ faults < MaxFaults
        /\ UNCHANGED <<mainVars, sharedVars, idVars, sentVars, wake, handVars, answers, errors>>
    BY <1>17 DEF ReceiveTooOld, Disconnect
  <2>2. up' \in Seq([msgs : SUBSET Ids', single : BOOLEAN])
    BY <2>1
  <2>3. past' \in 0 .. Len(answers') /\ faults' \in 0 .. MaxFaults
    BY <2>1, SessionAssumption DEF TypeOK
  <2>4. Cardinality(seen') <= SeenSize
    BY <2>1, FS_EmptySet, SessionAssumption
  <2> QED BY <2>1, <2>2, <2>3, <2>4 DEF TypeOK, Ids
<1>18. CASE Connected
  BY <1>18 DEF TypeOK, Connected, Ids
<1>19. CASE Disconnected
  <2>1. /\ connected' = FALSE /\ up' = <<>> /\ down' = {}
        /\ faults' = faults + 1 /\ faults < MaxFaults
        /\ UNCHANGED <<mainVars, sharedVars, idVars, sentVars, wake, handVars, started, seen,
                       answers, past, fresh, errors>>
    BY <1>19 DEF Disconnected, Disconnect
  <2>2. up' \in Seq([msgs : SUBSET Ids', single : BOOLEAN])
    BY <2>1
  <2>3. faults' \in 0 .. MaxFaults
    BY <2>1, SessionAssumption DEF TypeOK
  <2> QED BY <2>1, <2>2, <2>3 DEF TypeOK, Ids
<1>20. CASE Serve
  <2> DEFINE p == Head(up)
             new == p.msgs \ Arrived
  <2>1. /\ up # <<>> /\ up' = Tail(up) /\ fresh' = FALSE
        /\ UNCHANGED <<mainVars, sharedVars, idVars, sentVars, wake, handVars, linkVars,
                       past, faults>>
    BY <1>20 DEF Serve
  <2>2. up' \in Seq([msgs : SUBSET Ids, single : BOOLEAN]) /\ p.msgs \subseteq Ids
    <3>1. up \in Seq([msgs : SUBSET Ids, single : BOOLEAN])
      BY DEF TypeOK
    <3>2. p \in [msgs : SUBSET Ids, single : BOOLEAN]
          /\ Tail(up) \in Seq([msgs : SUBSET Ids, single : BOOLEAN])
      BY <2>1, <3>1, HeadAndTail
    <3> QED BY <2>1, <3>2
  <2>3. /\ answers' \in Seq([id : Ids, ok : BOOLEAN])
        /\ Len(answers') \in Nat /\ Len(answers) \in Nat /\ Len(answers) <= Len(answers')
    <3>1. /\ answers' \in Seq([id : Ids, ok : BOOLEAN])
          /\ Len(answers) \in Nat /\ Cardinality(new) \in Nat
          /\ Len(answers') = Len(answers) + Cardinality(new)
      BY <1>20, Answered
    <3> QED BY <3>1
  <2>4. past' \in 0 .. Len(answers') /\ seen' \subseteq 1 .. Len(answers')
    BY <2>1, <2>3 DEF TypeOK
  <2>5. errors' \in 0 .. MaxErrors
    <3>1. PICK failing \in SUBSET new :
            errors' = errors + Cardinality(failing) /\ errors' <= MaxErrors
      BY <1>20 DEF Serve
    <3>2. failing \in SUBSET Ids
      BY <2>2
    <3>3. Cardinality(failing) \in Nat
      BY <3>2, IdsAreFinite, FS_CardinalityType
    <3> QED BY <3>1, <3>3, SessionAssumption DEF TypeOK
  <2>6. down' \subseteq [kind : {"bad", "new"}, ids : SUBSET Ids, first : Nat, single : BOOLEAN]
    <3> DEFINE first == Min(p.msgs \cup {Len(owner) + 1})
    <3>1. down' \subseteq down \cup
                          {[kind |-> "new", ids |-> {}, first |-> first, single |-> FALSE]}
      BY <1>20 DEF Serve
    <3>2. first \in Nat
      <4>1. Len(owner) \in Nat
        BY DEF TypeOK
      <4>2. p.msgs \cup {Len(owner) + 1} \in SUBSET Nat
        BY <2>2, <4>1 DEF Ids
      <4>3. IsFiniteSet(p.msgs)
        BY <2>2, IdsAreFinite
      <4>4. IsFiniteSet(p.msgs \cup {Len(owner) + 1})
        BY <4>3, FS_AddElement
      <4>5. p.msgs \cup {Len(owner) + 1} \subseteq Int /\ p.msgs \cup {Len(owner) + 1} # {}
        BY <4>2
      <4>6. first \in p.msgs \cup {Len(owner) + 1}
        BY <4>4, <4>5, MinIsOne
      <4> QED BY <4>2, <4>6
    <3> HIDE DEF first
    <3>3. down \subseteq [kind : {"bad", "new"}, ids : SUBSET Ids, first : Nat, single : BOOLEAN]
      BY DEF TypeOK
    <3>4. [kind |-> "new", ids |-> {}, first |-> first, single |-> FALSE]
            \in [kind : {"bad", "new"}, ids : SUBSET Ids, first : Nat, single : BOOLEAN]
      BY <3>2
    <3> QED BY <3>1, <3>3, <3>4
  <2> QED BY <2>1, <2>2, <2>3, <2>4, <2>5, <2>6 DEF TypeOK, Ids
<1>21. CASE Refuse
  <2> DEFINE p == Head(up)
             bad == [kind |-> "bad", ids |-> p.msgs, first |-> 0, single |-> p.single]
  <2>1. /\ up # <<>> /\ up' = Tail(up) /\ faults' = faults + 1 /\ faults < MaxFaults
        /\ down' \subseteq down \cup {bad}
        /\ UNCHANGED <<mainVars, sharedVars, idVars, sentVars, wake, handVars, linkVars,
                       answers, past, fresh, errors>>
    BY <1>21 DEF Refuse
  <2>2. /\ up' \in Seq([msgs : SUBSET Ids, single : BOOLEAN])
        /\ p \in [msgs : SUBSET Ids, single : BOOLEAN]
    <3>1. up \in Seq([msgs : SUBSET Ids, single : BOOLEAN])
      BY DEF TypeOK
    <3>2. /\ Tail(up) \in Seq([msgs : SUBSET Ids, single : BOOLEAN])
          /\ Head(up) \in [msgs : SUBSET Ids, single : BOOLEAN]
      BY <2>1, <3>1, HeadAndTail
    <3> QED BY <2>1, <3>2
  <2>3. faults' \in 0 .. MaxFaults
    BY <2>1, SessionAssumption DEF TypeOK
  <2>4. down' \subseteq [kind : {"bad", "new"}, ids : SUBSET Ids, first : Nat, single : BOOLEAN]
    <3>1. bad \in [kind : {"bad", "new"}, ids : SUBSET Ids, first : Nat, single : BOOLEAN]
      BY <2>2
    <3>2. down \subseteq [kind : {"bad", "new"}, ids : SUBSET Ids, first : Nat, single : BOOLEAN]
      BY DEF TypeOK
    <3> QED BY <2>1, <3>1, <3>2
  <2> QED BY <2>1, <2>2, <2>3, <2>4 DEF TypeOK, Ids
<1>22. CASE Forget
  <2>1. /\ past' = Len(answers) /\ fresh' = TRUE /\ down' = {}
        /\ faults' = faults + 1 /\ faults < MaxFaults
        /\ UNCHANGED <<mainVars, sharedVars, idVars, sentVars, wake, handVars, linkVars,
                       up, answers, errors>>
    BY <1>22 DEF Forget
  <2>2. past' \in 0 .. Len(answers') /\ faults' \in 0 .. MaxFaults
    BY <2>1, SessionAssumption DEF TypeOK
  <2> QED BY <2>1, <2>2 DEF TypeOK, Ids
<1>23. CASE UNCHANGED vars
  BY <1>23 DEF TypeOK, vars, Ids
<1> QED BY <1>1, <1>2, <1>3, <1>4, <1>5, <1>6, <1>7, <1>8, <1>9, <1>10, <1>11, <1>12,
           <1>13, <1>14, <1>15, <1>16, <1>17, <1>18, <1>19, <1>20, <1>21, <1>22, <1>23
        DEF Next, MainSteps, HandSteps, TryToSend, Receive

(* The types of all variables are those of TypeOK.                         *)
THEOREM TypeCorrect == Spec => []TypeOK
BY TypeInit, TypeNext, PTL DEF Spec

-----------------------------------------------------------------------------
(* One id for all that is sent of a request.                               *)

(* What has been told by the answers stays as it is while they do.         *)
LEMMA OutcomesStay ==
  ASSUME UNCHANGED <<owner, answers>>
  PROVE  Outcomes' = Outcomes /\ Repeated' = Repeated /\ Ids' = Ids
<1>1. Outcomes' = Outcomes
  BY DEF Outcomes
<1> QED BY <1>1 DEF Repeated, Ids

(* Nor does what has come to the server.                                   *)
LEMMA ArrivedStay ==
  ASSUME UNCHANGED <<answers, past>>
  PROVE  Arrived' = Arrived /\ Live' = Live
BY DEF Arrived, Live

(* What is on its way are messages.                                        *)
LEMMA PacketsAreTyped ==
  ASSUME TypeOK
  PROVE  /\ DOMAIN up = 1 .. Len(up) /\ Len(up) \in Nat
         /\ \A k \in DOMAIN up : up[k].msgs \subseteq Ids
<1> DEFINE A == [msgs : SUBSET Ids, single : BOOLEAN]
<1>1. up \in Seq(A)
  BY DEF TypeOK
<1>2. \A a \in A : a.msgs \subseteq Ids
  OBVIOUS
<1> HIDE DEF A
<1> QED BY <1>1, <1>2

(* What has come are messages.                                             *)
LEMMA ArrivedAreIds ==
  ASSUME TypeOK
  PROVE  Arrived \subseteq Ids
BY AnswersAreTyped DEF Arrived

(* Whose answers are to be repeated, in the terms of each.                 *)
LEMMA RepeatedIs ==
  ASSUME TypeOK
  PROVE  /\ Outcomes \subseteq [request : Requests, ok : BOOLEAN]
         /\ \A r : r \in Repeated <=> [request |-> r, ok |-> FALSE] \in Outcomes
<1>1. Outcomes \subseteq [request : Requests, ok : BOOLEAN]
  BY AnswersAreTyped DEF Outcomes
<1>2. ASSUME NEW r
      PROVE  r \in Repeated <=> [request |-> r, ok |-> FALSE] \in Outcomes
  <2>1. ASSUME r \in Repeated
        PROVE  [request |-> r, ok |-> FALSE] \in Outcomes
    <3>1. PICK o \in Outcomes : ~o.ok /\ o.request = r
      BY <2>1 DEF Repeated
    <3>2. o.ok \in BOOLEAN /\ o = [request |-> o.request, ok |-> o.ok]
      BY <1>1
    <3>3. o.ok = FALSE
      BY <3>1, <3>2
    <3>4. o = [request |-> r, ok |-> FALSE]
      BY <3>1, <3>2, <3>3
    <3> QED BY <3>4
  <2>2. ASSUME [request |-> r, ok |-> FALSE] \in Outcomes
        PROVE  r \in Repeated
    <3>1. [request |-> r, ok |-> FALSE] \in {o \in Outcomes : ~o.ok}
      BY <2>2
    <3> QED BY <3>1 DEF Repeated
  <2> QED BY <2>1, <2>2
<1> QED BY <1>1, <1>2

(* At the start nothing has an id.                                         *)
LEMMA OneIdInit == Init => SentByOneId
<1> SUFFICES ASSUME Init PROVE SentByOneId
  OBVIOUS
<1>1. Ids = {} /\ Live = {}
  BY DEF Init, Ids, Live
<1>2. Arrived = {} /\ DOMAIN up = {}
  BY <1>1 DEF Init, Arrived
<1>3. \A r \in Requests : r # 0
  BY SessionAssumption
<1>4. OneOfEach /\ OneId
  BY <1>2 DEF OneOfEach, OneId
<1>5. MsgIdIsOurs /\ NewIsNowhere /\ ReceivedWereGiven /\ DelayedIsRepeated
  BY <1>1, <1>3 DEF Init, MsgIdIsOurs, NewIsNowhere, ReceivedWereGiven, DelayedIsRepeated
<1>6. WithoutId /\ AloneIsFirst
  BY DEF Init, WithoutId, AloneIsFirst
<1> QED BY <1>4, <1>5, <1>6 DEF SentByOneId

(* Who has to be repeated was sent.                                        *)
LEMMA RepeatedWasSent ==
  ASSUME TypeOK, NEW r \in Repeated
  PROVE  \E m \in Ids : owner[m] = r
<1>1. PICK o \in Outcomes : o.request = r
  BY DEF Repeated
<1>2. PICK k \in DOMAIN answers : o.request = owner[answers[k].id]
  BY DEF Outcomes
<1> QED BY <1>1, <1>2, AnswersAreTyped

(* Steps that give no ids and leave the packets and the answers alone.     *)
LEMMA QuietStep ==
  ASSUME TypeOK, SentByOneId,
         UNCHANGED <<owner, answers, past, msgId, up, forced, alone>>,
         started => started',
         toSend' \subseteq toSend, delayed' \subseteq Repeated, received' \subseteq Outcomes,
         \A r \in Requests : call'[r] = "new" => call[r] = "new",
         alone # 0 => todo' = {} /\ moving' = {}
  PROVE  SentByOneId'
<1>1. /\ Outcomes' = Outcomes /\ Repeated' = Repeated /\ Ids' = Ids /\ Arrived' = Arrived
  BY OutcomesStay, ArrivedStay
<1>2. MsgIdIsOurs' /\ ReceivedWereGiven' /\ DelayedIsRepeated'
  BY <1>1 DEF SentByOneId, MsgIdIsOurs, ReceivedWereGiven, DelayedIsRepeated
<1>3. NewIsNowhere'
  <2> SUFFICES ASSUME NEW r \in Requests, call'[r] = "new"
               PROVE  /\ r \notin toSend' /\ r \notin delayed' /\ r # alone'
                      /\ \A m \in Ids' : owner'[m] # r
    BY DEF NewIsNowhere
  <2>1. /\ r \notin toSend /\ r # alone /\ \A m \in Ids : owner[m] # r
    BY DEF SentByOneId, NewIsNowhere
  <2> QED BY <2>1, <1>1, RepeatedWasSent
<1>4. OneOfEach'
  BY <1>1 DEF SentByOneId, OneOfEach
<1>5. OneId'
  BY <1>1 DEF SentByOneId, OneId
<1>6. WithoutId' /\ AloneIsFirst'
  BY <1>1 DEF SentByOneId, WithoutId, AloneIsFirst
<1> QED BY <1>2, <1>3, <1>4, <1>5, <1>6 DEF SentByOneId

(* A request without an id has nothing on its way, and neither has any     *)
(* before a session starts.                                                *)
LEMMA NothingIsSent ==
  ASSUME OneId, TypeOK, NEW r
  PROVE  ~started \/ msgId[r] = 0 =>
           r \in Repeated
             \/ \A m \in (UNION {up[k].msgs : k \in DOMAIN up}) \cup Arrived : owner[m] # r
<1> SUFFICES ASSUME ~started \/ msgId[r] = 0,
                    NEW m \in (UNION {up[k].msgs : k \in DOMAIN up}) \cup Arrived, owner[m] = r
             PROVE  r \in Repeated
  OBVIOUS
<1>1. m \in Ids
  BY PacketsAreTyped, ArrivedAreIds
<1>2. m # 0
  <2>1. Len(owner) \in Nat
    BY DEF TypeOK
  <2> QED BY <1>1, <2>1 DEF Ids
<1>3. started /\ (r \in Repeated \/ msgId[r] = m)
  BY DEF OneId
<1> QED BY <1>2, <1>3

(* What a forgetful server has of its answers.                             *)
LEMMA NoneLive ==
  ASSUME TypeOK, past' = Len(answers), answers' = answers
  PROVE  Live' = {} /\ Arrived' = {}
<1>1. Len(answers) \in Nat
  BY DEF TypeOK
<1>2. Live' = {}
  BY <1>1 DEF Live
<1> QED BY <1>2 DEF Arrived

(* What is left on its way was on its way.                                 *)
LEMMA RestOfPackets ==
  ASSUME TypeOK, up # <<>>, up' = Tail(up)
  PROVE  /\ \A k \in DOMAIN up' : \E j \in DOMAIN up : up'[k] = up[j]
         /\ \E j \in DOMAIN up : Head(up) = up[j]
<1> DEFINE A == [msgs : SUBSET Ids, single : BOOLEAN]
<1>1. up \in Seq(A)
  BY DEF TypeOK
<1> HIDE DEF A
<1>2. /\ 1 \in DOMAIN up /\ Head(up) = up[1]
      /\ \A k \in DOMAIN Tail(up) : k + 1 \in DOMAIN up /\ Tail(up)[k] = up[k + 1]
  BY <1>1, HeadAndTail
<1> QED BY <1>2

(* What a packet adds: the outcome of each message that is new to the      *)
(* server.                                                                 *)
OutcomeOf(m, failing) == [request |-> owner[m], ok |-> m \notin failing]

LEMMA Served ==
  ASSUME TypeOK, Serve
  PROVE  \E failing \in SUBSET (Head(up).msgs \ Arrived) :
           LET new == Head(up).msgs \ Arrived
               n == Len(answers)
               c == Cardinality(new)
           IN /\ new \in SUBSET Ids /\ n \in Nat /\ c \in Nat
              /\ errors' = errors + Cardinality(failing)
              /\ Len(answers') = n + c
              /\ \A k \in 1 .. n : answers'[k] = answers[k]
              /\ Live' = Live \cup (n + 1 .. n + c) /\ Live \cap (n + 1 .. n + c) = {}
              /\ \A k \in Live : answers'[k] = answers[k]
              /\ \A k \in 1 .. c :
                   answers'[n + k] = [id |-> InTurn(new, k), ok |-> InTurn(new, k) \notin failing]
              /\ Arrived' = Arrived \cup new
              /\ Outcomes' = Outcomes \cup {OutcomeOf(m, failing) : m \in new}
<1> DEFINE new == Head(up).msgs \ Arrived
           n == Len(answers)
           c == Cardinality(new)
<1>1. PICK failing \in SUBSET new :
        /\ new \in SUBSET Ids /\ n \in Nat /\ c \in Nat
        /\ errors' = errors + Cardinality(failing)
        /\ Len(answers') = n + c
        /\ answers' \in Seq([id : Ids, ok : BOOLEAN])
        /\ \A k \in 1 .. n : answers'[k] = answers[k]
        /\ \A k \in 1 .. c :
             answers'[n + k] = [id |-> InTurn(new, k), ok |-> InTurn(new, k) \notin failing]
  BY Answered
<1>2. /\ \A k \in 1 .. c : InTurn(new, k) \in new
      /\ \A m \in new : \E k \in 1 .. c : InTurn(new, k) = m
  BY <1>1, EachInTurn
<1>3. UNCHANGED <<owner, past>> /\ past \in 0 .. n /\ DOMAIN answers = 1 .. n
  BY AnswersAreTyped DEF Serve, idVars, TypeOK
<1> HIDE DEF new, c, n
<1>4. DOMAIN answers' = 1 .. n + c
  BY <1>1
<1>5. Live = past + 1 .. n /\ Live' = past + 1 .. n + c
  BY <1>1, <1>3 DEF Live, n
<1>6. /\ Live' = Live \cup (n + 1 .. n + c) /\ Live \cap (n + 1 .. n + c) = {}
      /\ Live \subseteq 1 .. n
      /\ 1 .. n + c = (1 .. n) \cup (n + 1 .. n + c)
      /\ \A k \in n + 1 .. n + c : k - n \in 1 .. c /\ k = n + (k - n)
      /\ \A k \in 1 .. c : n + k \in n + 1 .. n + c
  BY <1>1, <1>3, <1>5
<1>7. \A k \in n + 1 .. n + c :
        \E m \in new : answers'[k] = [id |-> m, ok |-> m \notin failing]
  <2> TAKE k \in n + 1 .. n + c
  <2>1. k - n \in 1 .. c /\ k = n + (k - n)
    BY <1>6
  <2>2. answers'[n + (k - n)] = [id |-> InTurn(new, k - n),
                                 ok |-> InTurn(new, k - n) \notin failing]
    BY <1>1, <2>1
  <2>3. InTurn(new, k - n) \in new
    BY <1>2, <2>1
  <2>4. answers'[k] = [id |-> InTurn(new, k - n), ok |-> InTurn(new, k - n) \notin failing]
    BY <2>1, <2>2
  <2> QED BY <2>3, <2>4
<1>8. \A m \in new : \E k \in n + 1 .. n + c :
        answers'[k] = [id |-> m, ok |-> m \notin failing]
  <2> TAKE m \in new
  <2>1. PICK k \in 1 .. c : InTurn(new, k) = m
    BY <1>2
  <2>2. n + k \in n + 1 .. n + c
    BY <1>6
  <2>3. answers'[n + k] = [id |-> InTurn(new, k), ok |-> InTurn(new, k) \notin failing]
    BY <1>1
  <2>4. answers'[n + k] = [id |-> m, ok |-> m \notin failing]
    BY <2>1, <2>3
  <2> QED BY <2>2, <2>4
<1> DEFINE ours(k) == [request |-> owner[answers[k].id], ok |-> answers[k].ok]
           next(k) == [request |-> owner[answers'[k].id], ok |-> answers'[k].ok]
<1>9. /\ Outcomes = {ours(k) : k \in 1 .. n}
      /\ Outcomes' = {next(k) : k \in 1 .. n + c}
      /\ Arrived = {answers[k].id : k \in Live}
      /\ Arrived' = {answers'[k].id : k \in Live'}
  BY <1>3, <1>4 DEF Outcomes, Arrived
<1>10. \A k \in 1 .. n : next(k) = ours(k) /\ answers'[k].id = answers[k].id
  BY <1>1
<1>11. /\ \A k \in n + 1 .. n + c : \E m \in new :
            next(k) = OutcomeOf(m, failing) /\ answers'[k].id = m
       /\ \A m \in new : \E k \in n + 1 .. n + c :
            next(k) = OutcomeOf(m, failing) /\ answers'[k].id = m
  <2>1. ASSUME NEW k, NEW m, answers'[k] = [id |-> m, ok |-> m \notin failing]
        PROVE  next(k) = OutcomeOf(m, failing) /\ answers'[k].id = m
    <3>1. answers'[k].id = m /\ answers'[k].ok = (m \notin failing)
      BY <2>1
    <3> QED BY <3>1 DEF OutcomeOf
  <2> HIDE DEF next
  <2> QED BY <1>7, <1>8, <2>1
<1> HIDE DEF ours, next
<1>12. Outcomes' = Outcomes \cup {OutcomeOf(m, failing) : m \in new}
  BY <1>6, <1>9, <1>10, <1>11
<1>13. Arrived' = Arrived \cup new
  <2>1. Arrived' = {answers'[k].id : k \in Live} \cup {answers'[k].id : k \in n + 1 .. n + c}
    BY <1>6, <1>9
  <2>2. {answers'[k].id : k \in Live} = Arrived
    BY <1>6, <1>9, <1>10
  <2>3. {answers'[k].id : k \in n + 1 .. n + c} = new
    BY <1>11
  <2> QED BY <2>1, <2>2, <2>3
<1>14. \A k \in Live : answers'[k] = answers[k]
  BY <1>1, <1>6
<1> QED BY <1>1, <1>6, <1>12, <1>13, <1>14 DEF new, c, n

(* Steps that only lose what is on its way or was answered.                *)
LEMMA LosingStep ==
  ASSUME TypeOK, SentByOneId,
         UNCHANGED <<owner, answers, msgId, forced, alone, toSend, delayed, received, call,
                     todo, moving>>,
         \A k \in DOMAIN up' : \E j \in DOMAIN up : up'[k] = up[j],
         Arrived' \subseteq Arrived,
         started' = started \/ (alone = 0 /\ DOMAIN up' = {} /\ Arrived' = {})
  PROVE  SentByOneId'
<1>1. Outcomes' = Outcomes /\ Repeated' = Repeated /\ Ids' = Ids
  BY OutcomesStay
<1>2. MsgIdIsOurs' /\ NewIsNowhere' /\ ReceivedWereGiven' /\ DelayedIsRepeated'
  BY <1>1 DEF SentByOneId, MsgIdIsOurs, NewIsNowhere, ReceivedWereGiven, DelayedIsRepeated
<1>3. OneOfEach'
  BY DEF SentByOneId, OneOfEach
<1>4. OneId'
  BY <1>1 DEF SentByOneId, OneId
<1>5. WithoutId' /\ AloneIsFirst'
  BY <1>1 DEF SentByOneId, WithoutId, AloneIsFirst
<1> QED BY <1>2, <1>3, <1>4, <1>5 DEF SentByOneId

(* Steps that give ids and send.                                           *)
LEMMA GivingStep ==
  ASSUME TypeOK, SentByOneId, NEW new \in SUBSET Requests, NEW ids, NEW single,
         owner' = GiveIds(new).owner, msgId' = GiveIds(new).ids,
         UNCHANGED <<call, delayed, received, answers, past, forced>>,
         started', alone' = 0,
         ids \subseteq Ids', \A m \in ids : msgId'[owner'[m]] = m,
         up' = Append(up, Packet(ids, single)),
         toSend' \subseteq toSend, \A r \in new \cap toSend' : r \in Repeated,
         \A r \in new : /\ call[r] # "new"
                        /\ \/ r \in Repeated
                           \/ \A m \in (UNION {up[k].msgs : k \in DOMAIN up}) \cup Arrived :
                                owner[m] # r
  PROVE  SentByOneId'
<1> DEFINE top == Len(owner) + Cardinality(new)
           Sent == (UNION {up[k].msgs : k \in DOMAIN up}) \cup Arrived
<1>1. /\ Ids \subseteq Ids'
      /\ \A m \in Ids : owner'[m] = owner[m]
      /\ \A m \in Ids' : m \in Ids \/ owner'[m] \in new
      /\ \A r \in Requests \ new : msgId'[r] = msgId[r]
      /\ \A r \in new : owner'[msgId'[r]] = r
  <2>1. /\ Len(owner) \in Nat /\ top \in Nat /\ Len(owner) <= top
        /\ owner' \in [1 .. top -> Requests]
        /\ \A m \in 1 .. Len(owner) : owner'[m] = owner[m]
        /\ \A m \in Len(owner) + 1 .. top : owner'[m] \in new
        /\ \A r \in Requests \ new : msgId'[r] = msgId[r]
        /\ \A r \in new : owner'[msgId'[r]] = r
    BY IdsAreGiven
  <2>2. Len(owner') = top
    BY <2>1, SequenceIsFunction
  <2>3. Ids = 1 .. Len(owner) /\ Ids' = 1 .. top
    BY <2>2 DEF Ids
  <2>4. \A m \in 1 .. top : m \in 1 .. Len(owner) \/ m \in Len(owner) + 1 .. top
    BY <2>1
  <2> QED BY <2>1, <2>3, <2>4, IdsGrow
<1>2. Outcomes' = Outcomes /\ Repeated' = Repeated /\ Arrived' = Arrived
  <2>1. \A k \in DOMAIN answers : owner'[answers[k].id] = owner[answers[k].id]
    BY <1>1, AnswersAreTyped
  <2>2. Outcomes' = Outcomes
    BY <2>1 DEF Outcomes
  <2> QED BY <2>2, ArrivedStay DEF Repeated
<1>3. /\ DOMAIN up = 1 .. Len(up) /\ Len(up) \in Nat
      /\ \A k \in DOMAIN up : up[k].msgs \subseteq Ids
  BY PacketsAreTyped
<1>4. \A k \in DOMAIN up' : (k \in DOMAIN up /\ up'[k].msgs = up[k].msgs) \/ up'[k].msgs = ids
  <2>1. /\ up \in Seq([msgs : SUBSET Ids, single : BOOLEAN])
    BY DEF TypeOK
  <2>2. /\ DOMAIN up' = 1 .. Len(up) + 1
        /\ \A k \in 1 .. Len(up) : up'[k] = up[k]
        /\ up'[Len(up) + 1] = Packet(ids, single)
    BY <2>1
  <2>3. \A k \in 1 .. Len(up) + 1 : k \in 1 .. Len(up) \/ k = Len(up) + 1
    BY <1>3
  <2>4. Packet(ids, single).msgs = ids
    BY DEF Packet
  <2> QED BY <1>3, <2>2, <2>3, <2>4
<1>5. /\ Sent \subseteq Ids
      /\ (UNION {up'[k].msgs : k \in DOMAIN up'}) \cup Arrived' \subseteq Sent \cup ids
  <2>1. Sent \subseteq Ids
    BY <1>3, ArrivedAreIds
  <2> QED BY <2>1, <1>2, <1>4
<1>6. msgId \in [Requests -> Ids \cup {0}] /\ 0 \notin Requests /\ toSend \subseteq Requests
      /\ \A m \in Ids : owner[m] \in Requests
  BY SessionAssumption DEF TypeOK, Ids
<1>7. MsgIdIsOurs'
  <2> SUFFICES ASSUME NEW r \in Requests, msgId'[r] # 0
               PROVE  owner'[msgId'[r]] = r
    BY DEF MsgIdIsOurs
  <2>1. CASE r \in new
    BY <2>1, <1>1
  <2>2. CASE r \notin new
    <3>1. msgId'[r] = msgId[r] /\ msgId[r] \in Ids
      BY <2>2, <1>1, <1>6
    <3> QED BY <3>1, <1>1 DEF SentByOneId, MsgIdIsOurs
  <2> QED BY <2>1, <2>2
<1>8. NewIsNowhere'
  <2> SUFFICES ASSUME NEW r \in Requests, call[r] = "new"
               PROVE  /\ r \notin toSend' /\ r \notin delayed' /\ r # alone'
                      /\ \A m \in Ids' : owner'[m] # r
    BY DEF NewIsNowhere
  <2>1. /\ r \notin toSend /\ r \notin delayed /\ \A m \in Ids : owner[m] # r
    BY DEF SentByOneId, NewIsNowhere
  <2>2. r \notin new
    OBVIOUS
  <2> QED BY <2>1, <2>2, <1>1, <1>6
<1>9. ReceivedWereGiven' /\ DelayedIsRepeated'
  BY <1>2 DEF SentByOneId, ReceivedWereGiven, DelayedIsRepeated
<1>10. OneOfEach'
  <2> SUFFICES ASSUME NEW k \in DOMAIN up', NEW m \in up'[k].msgs, NEW n \in up'[k].msgs,
                      owner'[m] = owner'[n]
               PROVE  m = n
    BY DEF OneOfEach
  <2>1. CASE k \in DOMAIN up /\ up'[k].msgs = up[k].msgs
    BY <2>1, <1>1, <1>3 DEF SentByOneId, OneOfEach
  <2>2. CASE up'[k].msgs = ids
    BY <2>2
  <2> QED BY <2>1, <2>2, <1>4
<1>11. OneId'
  <2> SUFFICES ASSUME NEW m \in Sent \cup ids
               PROVE  owner'[m] \in Repeated \/ msgId'[owner'[m]] = m
    BY <1>2, <1>5 DEF OneId
  <2>1. CASE m \in ids
    BY <2>1
  <2>2. CASE m \in Sent
    <3>1. m \in Ids /\ owner'[m] = owner[m] /\ owner[m] \in Requests
      BY <2>2, <1>1, <1>5, <1>6
    <3>2. owner[m] \in Repeated \/ msgId[owner[m]] = m
      BY <2>2 DEF SentByOneId, OneId
    <3>3. owner[m] \in new => owner[m] \in Repeated
      BY <2>2
    <3> QED BY <3>1, <3>2, <3>3, <1>1
  <2> QED BY <2>1, <2>2
<1>12. WithoutId'
  <2> SUFFICES ASSUME NEW r \in toSend' \ forced
               PROVE  r \in Repeated \/ msgId'[r] = 0
    BY <1>2 DEF WithoutId
  <2>1. r \in Requests /\ (r \in Repeated \/ msgId[r] = 0)
    BY <1>6 DEF SentByOneId, WithoutId
  <2> QED BY <2>1, <1>1
<1>13. AloneIsFirst'
  BY DEF AloneIsFirst
<1> QED BY <1>7, <1>8, <1>9, <1>10, <1>11, <1>12, <1>13 DEF SentByOneId

(* Each step keeps it so: ids are given only to what has nothing on its    *)
(* way, and all that is sent of a request is sent by the id it has.        *)
LEMMA OneIdNext ==
  ASSUME TypeOK, TypeOK', SentByOneId, [Next]_vars
  PROVE  SentByOneId'
<1> USE DEF mainVars, sharedVars, idVars, sentVars, handVars, linkVars, serverVars
<1>s. UNCHANGED <<owner, answers, past>> =>
        /\ Outcomes' = Outcomes /\ Repeated' = Repeated /\ Ids' = Ids
        /\ Arrived' = Arrived
  BY OutcomesStay, ArrivedStay
<1>i. /\ MsgIdIsOurs /\ NewIsNowhere /\ ReceivedWereGiven /\ DelayedIsRepeated
      /\ OneOfEach /\ OneId /\ WithoutId /\ AloneIsFirst
  BY DEF SentByOneId
<1>q. /\ delayed \subseteq Repeated /\ received \subseteq Outcomes
      /\ alone # 0 => todo = {} /\ moving = {}
  BY <1>i DEF ReceivedWereGiven, DelayedIsRepeated, AloneIsFirst
<1> USE DEF SentByOneId, MsgIdIsOurs, NewIsNowhere, ReceivedWereGiven, DelayedIsRepeated,
            OneOfEach, OneId, WithoutId, AloneIsFirst
<1>1. ASSUME NEW r \in Requests, SendRequest(r) PROVE SentByOneId'
  BY <1>1, <1>s, <1>i DEF TypeOK, SendRequest, SendPrepared
<1> HIDE DEF SentByOneId, MsgIdIsOurs, NewIsNowhere, ReceivedWereGiven, DelayedIsRepeated,
             OneOfEach, OneId, WithoutId, AloneIsFirst
<1>2. ASSUME NEW r \in Requests, Cancel(r) PROVE SentByOneId'
  BY <1>2, <1>q, QuietStep DEF TypeOK, Cancel
<1>3. CASE TryToReceive
  <2>1. PICK m \in received :
          /\ received' = received \ {m}
          /\ IF call[m.request] # "open"
             THEN UNCHANGED <<call, delayed>>
             ELSE IF m.ok
             THEN call' = [call EXCEPT ![m.request] = "answered"] /\ UNCHANGED delayed
             ELSE delayed' = delayed \cup {m.request} /\ UNCHANGED call
    BY <1>3 DEF TryToReceive
  <2>2. ~m.ok => m.request \in Repeated
    BY <1>q DEF Repeated
  <2>3. /\ delayed' \subseteq Repeated
        /\ \A r \in Requests : call'[r] = "new" => call[r] = "new"
    BY <2>1, <2>2, <1>q DEF TypeOK
  <2>4. UNCHANGED <<toSend, haveSent, idVars, sentVars, wake, handVars, linkVars, serverVars>>
    BY <1>3 DEF TryToReceive
  <2>5. received' \subseteq Outcomes
    BY <2>1, <1>q
  <2> QED BY <2>3, <2>4, <2>5, <1>q, QuietStep
<1>4. CASE CheckDelayed
  <2>1. PICK r \in delayed :
          /\ delayed' = delayed \ {r}
          /\ IF call[r] = "open"
             THEN SendPrepared(r)
             ELSE UNCHANGED <<toSend, msgId, wake>>
    BY <1>4 DEF CheckDelayed
  <2>2. UNCHANGED <<call, haveSent, received, owner, forced, sentVars, handVars, linkVars,
                    serverVars>>
    BY <1>4 DEF CheckDelayed
  <2>3. CASE call[r] # "open"
    BY <2>1, <2>2, <2>3, <1>q, QuietStep
  <2>4. CASE call[r] = "open"
    <3>1. /\ toSend' = toSend \cup {r} /\ delayed' = delayed \ {r}
          /\ msgId' = [msgId EXCEPT ![r] = 0]
      BY <2>1, <2>4 DEF SendPrepared
    <3>2. r \in Requests /\ r \in Repeated /\ msgId \in [Requests -> Ids \cup {0}]
      BY <1>q DEF TypeOK
    <3>3. \A x \in Requests : msgId'[x] = IF x = r THEN 0 ELSE msgId[x]
      BY <3>1, <3>2
    <3>4. Outcomes' = Outcomes /\ Repeated' = Repeated /\ Ids' = Ids /\ Arrived' = Arrived
      BY <2>2, <1>s
    <3>5. \A m \in (UNION {up[k].msgs : k \in DOMAIN up}) \cup Arrived :
            m \in Ids /\ owner[m] \in Requests
      <4>1. \A m \in Ids : owner[m] \in Requests
        BY DEF TypeOK, Ids
      <4> QED BY <4>1, PacketsAreTyped, ArrivedAreIds
    <3>6. MsgIdIsOurs' /\ ReceivedWereGiven' /\ DelayedIsRepeated'
      BY <1>i, <2>2, <3>1, <3>3, <3>4
         DEF MsgIdIsOurs, ReceivedWereGiven, DelayedIsRepeated
    <3>7. NewIsNowhere'
      BY <1>i, <2>2, <2>4, <3>1, <3>4 DEF NewIsNowhere
    <3>8. OneOfEach'
      BY <1>i, <2>2 DEF OneOfEach
    <3>9. OneId'
      BY <1>i, <2>2, <3>2, <3>3, <3>4, <3>5 DEF OneId
    <3>10. WithoutId'
      <4>1. toSend \subseteq Requests
        BY DEF TypeOK
      <4> QED BY <1>i, <2>2, <3>1, <3>2, <3>3, <3>4, <4>1 DEF WithoutId
    <3>11. AloneIsFirst'
      <4>1. alone \in Requests \cup {0}
        BY DEF TypeOK
      <4> QED BY <1>i, <2>2, <3>1, <3>2, <3>3, <3>4, <4>1 DEF AloneIsFirst
    <3> QED BY <3>6, <3>7, <3>8, <3>9, <3>10, <3>11 DEF SentByOneId
  <2> QED BY <2>3, <2>4
<1>5. CASE SendNothing
  BY <1>5, <1>q, QuietStep DEF TypeOK, SendNothing
<1>6. CASE TakeAlone
  <2>1. /\ todo = {} /\ moving = {} /\ alone' = CHOOSE r \in toSend : TRUE
        /\ Cardinality(toSend) = 1 /\ toSend \cap forced = {}
        /\ toSend' = {} /\ started' = TRUE
        /\ UNCHANGED <<mainVars, haveSent, received, idVars, sentVars, todo, moving,
                       connected, seen, serverVars>>
    BY <1>6 DEF TakeAlone, Idle
  <2>2. alone' \in toSend
    <3>1. toSend # {}
      BY <2>1, FS_EmptySet
    <3> QED BY <2>1, <3>1
  <2>3. Outcomes' = Outcomes /\ Repeated' = Repeated /\ Ids' = Ids /\ Arrived' = Arrived
    BY <2>1, <1>s
  <2>4. MsgIdIsOurs' /\ ReceivedWereGiven' /\ DelayedIsRepeated' /\ OneOfEach'
    BY <1>i, <2>1, <2>3 DEF MsgIdIsOurs, ReceivedWereGiven, DelayedIsRepeated, OneOfEach
  <2>5. NewIsNowhere'
    BY <1>i, <2>1, <2>2, <2>3 DEF NewIsNowhere
  <2>6. OneId'
    BY <1>i, <2>1, <2>3 DEF OneId
  <2>7. WithoutId'
    BY <2>1 DEF WithoutId
  <2>8. AloneIsFirst'
    BY <1>i, <2>1, <2>2, <2>3 DEF AloneIsFirst, WithoutId
  <2> QED BY <2>4, <2>5, <2>6, <2>7, <2>8 DEF SentByOneId
<1>7. CASE SendAlone
  <2> DEFINE ids == {msgId'[alone]}
  <2>1. /\ alone # 0 /\ alone' = 0
        /\ owner' = GiveIds({alone}).owner /\ msgId' = GiveIds({alone}).ids
        /\ up' = Append(up, Packet(ids, TRUE))
        /\ UNCHANGED <<mainVars, toSend, received, forced, linkVars, answers, past>>
    BY <1>7 DEF SendAlone
  <2>2. {alone} \in SUBSET Requests
    BY <2>1 DEF TypeOK
  <2>3. started /\ (alone \in Repeated \/ (msgId[alone] = 0 /\ alone \notin toSend))
    BY <2>1, <1>i DEF AloneIsFirst
  <2>4. msgId'[alone] \in Ids'
    BY <2>1, <2>2, IdsGrow
  <2>5. owner'[msgId'[alone]] = alone
    BY <2>1, <2>2, IdsAreGiven
  <2>6. call[alone] # "new"
    BY <2>1, <2>2, <1>i DEF NewIsNowhere
  <2>7. msgId[alone] = 0 =>
          alone \in Repeated
            \/ \A m \in (UNION {up[k].msgs : k \in DOMAIN up}) \cup Arrived : owner[m] # alone
    BY <1>i, NothingIsSent
  <2>8. ids \subseteq Ids' /\ \A m \in ids : msgId'[owner'[m]] = m
    BY <2>4, <2>5
  <2>9. \A r \in {alone} : /\ call[r] # "new"
                           /\ \/ r \in Repeated
                              \/ \A m \in (UNION {up[k].msgs : k \in DOMAIN up}) \cup Arrived :
                                   owner[m] # r
    BY <2>3, <2>6, <2>7
  <2>10. \A r \in {alone} \cap toSend' : r \in Repeated
    BY <2>1, <2>3
  <2>11. started' /\ toSend' \subseteq toSend
    BY <2>1, <2>3
  <2> HIDE DEF ids
  <2> QED BY <2>1, <2>2, <2>8, <2>9, <2>10, <2>11, GivingStep
<1>8. CASE SendContainer
  <2>1. PICK batch \in Batches :
          LET new == Renewed(batch, ~started)
              given == GiveIds(new)
              ids == {given.ids[r] : r \in batch}
          IN
          /\ owner' = given.owner /\ msgId' = given.ids
          /\ toSend' = toSend \ batch
          /\ up' = Append(up, Packet(ids, FALSE))
    BY <1>8 DEF SendContainer
  <2> DEFINE new == Renewed(batch, ~started)
             ids == {msgId'[r] : r \in batch}
  <2>2. /\ owner' = GiveIds(new).owner /\ msgId' = GiveIds(new).ids
        /\ toSend' = toSend \ batch
        /\ up' = Append(up, Packet(ids, FALSE))
    BY <2>1
  <2>3. /\ alone = 0 /\ started' = TRUE
        /\ UNCHANGED <<mainVars, received, forced, handVars, answers, past>>
    BY <1>8 DEF SendContainer, Idle
  <2>4. /\ batch \subseteq toSend /\ batch \subseteq Requests /\ new \in SUBSET Requests
        /\ new \subseteq batch
        /\ \A r \in batch \ new : started /\ msgId[r] # 0
        /\ \A r \in new : ~started \/ msgId[r] = 0
    BY DEF Batches, Renewed, TypeOK
  <2> HIDE DEF new
  <2>5. /\ Ids \subseteq Ids'
        /\ \A r \in new : msgId'[r] \in Ids' /\ owner'[msgId'[r]] = r
        /\ \A r \in Requests \ new : msgId'[r] = msgId[r]
        /\ \A m \in Ids : owner'[m] = owner[m]
    <3>1. Ids \subseteq Ids' /\ \A r \in new : msgId'[r] \in Ids'
      BY <2>2, <2>4, IdsGrow
    <3>2. /\ \A r \in new : owner'[msgId'[r]] = r
          /\ \A r \in Requests \ new : msgId'[r] = msgId[r]
          /\ \A m \in 1 .. Len(owner) : owner'[m] = owner[m]
      BY <2>2, <2>4, IdsAreGiven
    <3> QED BY <3>1, <3>2 DEF Ids
  <2>6. ASSUME NEW r \in batch
        PROVE  msgId'[r] \in Ids' /\ owner'[msgId'[r]] = r
    <3>1. CASE r \in new
      BY <3>1, <2>5
    <3>2. CASE r \notin new
      <4>1. msgId'[r] = msgId[r] /\ msgId[r] # 0
        BY <3>2, <2>4, <2>5
      <4>2. msgId[r] \in Ids \cup {0} /\ owner[msgId[r]] = r
        BY <2>4, <4>1, <1>i DEF TypeOK, MsgIdIsOurs
      <4> QED BY <4>1, <4>2, <2>5
    <3> QED BY <3>1, <3>2
  <2>7. ids \subseteq Ids' /\ \A m \in ids : msgId'[owner'[m]] = m
    BY <2>6
  <2>8. ASSUME NEW r \in new
        PROVE  /\ call[r] # "new"
               /\ \/ r \in Repeated
                  \/ \A m \in (UNION {up[k].msgs : k \in DOMAIN up}) \cup Arrived : owner[m] # r
    <3>1. call[r] # "new"
      BY <2>4, <1>i DEF NewIsNowhere
    <3> QED BY <3>1, <2>4, <1>i, NothingIsSent
  <2>9. \A r \in new \cap toSend' : r \in Repeated
    BY <2>2, <2>4
  <2>10. started' /\ alone' = 0 /\ toSend' \subseteq toSend
    BY <2>2, <2>3
  <2> HIDE DEF ids
  <2> QED BY <2>2, <2>3, <2>4, <2>7, <2>8, <2>9, <2>10, GivingStep
<1>9. CASE Resend
  <2>1. todo # {}
    BY <1>9 DEF Resend
  <2> QED BY <1>9, <2>1, <1>q, QuietStep DEF Resend
<1>10. CASE ResendMoved
  <2>1. /\ moving # {} /\ moving' = {}
        /\ forced' = forced \cup {owner[m] : m \in moving}
        /\ toSend' = toSend \cup {owner[m] : m \in moving}
        /\ UNCHANGED <<mainVars, haveSent, received, owner, msgId, containers, todo,
                       alone, linkVars, serverVars>>
    BY <1>10 DEF ResendMoved
  <2>2. alone = 0 /\ moving \subseteq Ids /\ 0 \notin Requests
    BY <2>1, <1>q, SessionAssumption DEF TypeOK
  <2>3. Outcomes' = Outcomes /\ Repeated' = Repeated /\ Ids' = Ids /\ Arrived' = Arrived
    BY <2>1, <1>s
  <2>4. /\ MsgIdIsOurs' /\ ReceivedWereGiven' /\ DelayedIsRepeated' /\ OneOfEach'
        /\ AloneIsFirst'
    BY <1>i, <2>1, <2>2, <2>3
       DEF MsgIdIsOurs, ReceivedWereGiven, DelayedIsRepeated, OneOfEach, AloneIsFirst
  <2>5. NewIsNowhere'
    BY <1>i, <2>1, <2>2, <2>3 DEF NewIsNowhere
  <2>6. OneId'
    BY <1>i, <2>1, <2>3 DEF OneId
  <2>7. WithoutId'
    BY <1>i, <2>1, <2>3 DEF WithoutId
  <2> QED BY <2>4, <2>5, <2>6, <2>7 DEF SentByOneId
<1>11. ASSUME NEW due \in SUBSET haveSent, CheckSentRequests(due) PROVE SentByOneId'
  BY <1>11, <1>q, QuietStep DEF CheckSentRequests, Idle
<1>12. CASE ClearOldContainer
  BY <1>12, <1>q, QuietStep DEF ClearOldContainer, Idle
<1>13. CASE ReceiveAnswer
  <2>1. PICK k \in Live \ seen :
          LET m == answers[k].id IN
          /\ toSend' = Acked({m}).toSend
          /\ received' \in {received,
                            received \cup {[request |-> owner[m], ok |-> answers[k].ok]}}
    BY <1>13 DEF ReceiveAnswer
  <2>2. UNCHANGED <<mainVars, idVars, containers, timer, wake, handVars, connected, started,
                    serverVars>>
    BY <1>13 DEF ReceiveAnswer
  <2>3. [request |-> owner[answers[k].id], ok |-> answers[k].ok] \in Outcomes
    BY AnswersAreTyped DEF Outcomes
  <2>4. received' \subseteq Outcomes /\ toSend' \subseteq toSend
    BY <2>1, <2>3, <1>q, AckedTypes
  <2> QED BY <2>2, <2>4, <1>q, QuietStep
<1>14. CASE ReceiveBad
  BY <1>14, <1>q, QuietStep DEF ReceiveBad, Idle
<1>15. CASE ReceiveNewSession
  BY <1>15, <1>q, QuietStep DEF ReceiveNewSession, Idle
<1>16. CASE ReceiveAck
  <2>1. toSend' \subseteq toSend
    BY <1>16, AckedTypes DEF ReceiveAck, RequestsAcked
  <2>2. UNCHANGED <<mainVars, received, idVars, timer, wake, handVars, linkVars, serverVars>>
    BY <1>16 DEF ReceiveAck
  <2> QED BY <2>1, <2>2, <1>q, QuietStep
<1>17. CASE ReceiveTooOld
  <2>1. /\ alone = 0 /\ up' = <<>> /\ started' = FALSE /\ past' = Len(answers)
        /\ UNCHANGED <<mainVars, sharedVars, idVars, sentVars, wake, handVars, answers, errors>>
    BY <1>17 DEF ReceiveTooOld, Disconnect, Idle
  <2>2. Arrived' = {} /\ DOMAIN up' = {}
    BY <2>1, NoneLive
  <2> QED BY <2>1, <2>2, LosingStep
<1>18. CASE Connected
  BY <1>18, <1>q, QuietStep DEF Connected, Idle
<1>19. CASE Disconnected
  <2>1. /\ up' = <<>>
        /\ UNCHANGED <<mainVars, sharedVars, idVars, sentVars, wake, handVars, started, seen,
                       answers, past, fresh, errors>>
    BY <1>19 DEF Disconnected, Disconnect
  <2>2. DOMAIN up' = {} /\ Arrived' = Arrived
    BY <2>1, ArrivedStay
  <2> QED BY <2>1, <2>2, LosingStep
<1>20. CASE Serve
  <2>1. /\ up # <<>> /\ up' = Tail(up)
        /\ UNCHANGED <<mainVars, sharedVars, idVars, sentVars, wake, handVars, linkVars,
                       past, faults>>
    BY <1>20 DEF Serve
  <2>2. Outcomes \subseteq Outcomes' /\ Arrived' \subseteq Arrived \cup Head(up).msgs
    BY <1>20, Served
  <2>3. Repeated \subseteq Repeated'
    BY <2>2 DEF Repeated
  <2>4. /\ \A k \in DOMAIN up' : \E j \in DOMAIN up : up'[k] = up[j]
        /\ \E j \in DOMAIN up : Head(up) = up[j]
    BY <2>1, RestOfPackets
  <2>5. MsgIdIsOurs' /\ ReceivedWereGiven' /\ DelayedIsRepeated'
    BY <1>i, <2>1, <2>2, <2>3 DEF MsgIdIsOurs, ReceivedWereGiven, DelayedIsRepeated
  <2>6. NewIsNowhere'
    BY <1>i, <2>1 DEF NewIsNowhere, Ids
  <2>7. OneOfEach'
    BY <1>i, <2>1, <2>4 DEF OneOfEach
  <2>8. OneId'
    <3>1. (UNION {up'[k].msgs : k \in DOMAIN up'}) \cup Arrived'
            \subseteq (UNION {up[k].msgs : k \in DOMAIN up}) \cup Arrived
      BY <2>2, <2>4
    <3> QED BY <1>i, <2>1, <2>3, <3>1 DEF OneId
  <2>9. WithoutId' /\ AloneIsFirst'
    BY <1>i, <2>1, <2>3 DEF WithoutId, AloneIsFirst
  <2> QED BY <2>5, <2>6, <2>7, <2>8, <2>9 DEF SentByOneId
<1>21. CASE Refuse
  <2>1. /\ up # <<>> /\ up' = Tail(up)
        /\ UNCHANGED <<mainVars, sharedVars, idVars, sentVars, wake, handVars, linkVars,
                       answers, past, fresh, errors>>
    BY <1>21 DEF Refuse
  <2>2. \A k \in DOMAIN up' : \E j \in DOMAIN up : up'[k] = up[j]
    BY <2>1, RestOfPackets
  <2>3. Arrived' = Arrived
    BY <2>1, ArrivedStay
  <2> QED BY <2>1, <2>2, <2>3, LosingStep
<1>22. CASE Forget
  <2>1. /\ past' = Len(answers)
        /\ UNCHANGED <<mainVars, sharedVars, idVars, sentVars, wake, handVars, linkVars,
                       up, answers, errors>>
    BY <1>22 DEF Forget
  <2>2. Arrived' = {}
    BY <2>1, NoneLive
  <2> QED BY <2>1, <2>2, LosingStep
<1>23. CASE UNCHANGED vars
  BY <1>23, <1>q, QuietStep DEF vars
<1> QED BY <1>1, <1>2, <1>3, <1>4, <1>5, <1>6, <1>7, <1>8, <1>9, <1>10, <1>11, <1>12,
           <1>13, <1>14, <1>15, <1>16, <1>17, <1>18, <1>19, <1>20, <1>21, <1>22, <1>23
        DEF Next, MainSteps, HandSteps, TryToSend, Receive

(* All that is sent of a request has one id, unless it has to be repeated. *)
THEOREM OneIdHolds == Spec => []SentByOneId
<1>1. Init => TypeOK /\ SentByOneId
  BY TypeInit, OneIdInit
<1>2. (TypeOK /\ SentByOneId) /\ [Next]_vars => (TypeOK /\ SentByOneId)'
  BY TypeNext, OneIdNext
<1> QED BY <1>1, <1>2, PTL DEF Spec

-----------------------------------------------------------------------------
(* Session implements Calls.                                               *)

(* The times the server session has carried out a request.                 *)
Runs(r) == {k \in Live : answers[k].ok /\ owner[answers[k].id] = r}
ran == [r \in Requests |-> Cardinality(Runs(r))]

(* It can be counted.                                                      *)
LEMMA RunsAreFinite ==
  ASSUME TypeOK
  PROVE  /\ IsFiniteSet(Live) /\ Live \subseteq Int
         /\ \A r : IsFiniteSet(Runs(r)) /\ Cardinality(Runs(r)) \in Nat
<1>1. past \in Int /\ Len(answers) \in Int
  BY DEF TypeOK
<1>2. IsFiniteSet(Live) /\ Live \subseteq Int
  BY <1>1, FS_Interval DEF Live
<1>3. \A r : Runs(r) \subseteq Live
  BY DEF Runs
<1> QED BY <1>2, <1>3, FS_Subset, FS_CardinalityType

(* It is the same as long as the answers are, and what was sent.           *)
LEMMA CallsStay ==
  ASSUME TypeOK, UNCHANGED <<answers, past>>, \A m \in Ids : owner'[m] = owner[m]
  PROVE  ran' = ran /\ Outcomes' = Outcomes
<1>1. \A k \in DOMAIN answers : owner'[answers[k].id] = owner[answers[k].id]
  BY AnswersAreTyped
<1>2. \A k \in Live : k \in DOMAIN answers
  BY AnswersAreTyped
<1>3. Live' = Live
  BY ArrivedStay
<1>4. \A r : Runs(r)' = Runs(r)
  BY <1>1, <1>2, <1>3 DEF Runs
<1>5. ran' = ran
  BY <1>4 DEF ran
<1>6. Outcomes' = Outcomes
  BY <1>1 DEF Outcomes
<1> QED BY <1>5, <1>6

(* What was sent keeps its request.                                        *)
LEMMA GivenStay ==
  ASSUME TypeOK, NEW new \in SUBSET Requests, owner' = GiveIds(new).owner
  PROVE  \A m \in Ids : owner'[m] = owner[m]
BY IdsAreGiven DEF Ids

(* A server session that starts has carried out nothing.                   *)
LEMMA NothingRan ==
  ASSUME TypeOK, past' = Len(answers), UNCHANGED <<owner, answers>>
  PROVE  ran' = [r \in Requests |-> 0] /\ Outcomes' = Outcomes
<1>1. Live' = {}
  BY NoneLive
<1>2. \A r : Runs(r)' = {}
  BY <1>1 DEF Runs
<1>3. ran' = [r \in Requests |-> Cardinality(Runs(r)')]
  BY DEF ran
<1> QED BY <1>2, <1>3, FS_EmptySet, OutcomesStay

(* A packet is carried out as Calls has it.                                *)
LEMMA ServeRuns ==
  ASSUME TypeOK, SentByOneId, Serve
  PROVE  \/ ran' = ran /\ Outcomes' = Outcomes
         \/ \E outcomes \in SUBSET [request : Requests, ok : BOOLEAN] :
              /\ outcomes # {}
              /\ \A o \in outcomes :
                   /\ call[o.request] # "new"
                   /\ ran[o.request] = 0 \/ [request |-> o.request, ok |-> FALSE] \in Outcomes
              /\ \A o, q \in outcomes : o.request = q.request => o = q
              /\ ran' = [r \in Requests |->
                           IF [request |-> r, ok |-> TRUE] \in outcomes
                           THEN ran[r] + 1 ELSE ran[r]]
              /\ Outcomes' = Outcomes \cup outcomes
<1> DEFINE new == Head(up).msgs \ Arrived
           n == Len(answers)
           c == Cardinality(new)
<1>1. PICK failing \in SUBSET new :
        /\ new \in SUBSET Ids /\ n \in Nat /\ c \in Nat
        /\ Live' = Live \cup (n + 1 .. n + c) /\ Live \cap (n + 1 .. n + c) = {}
        /\ \A k \in Live : answers'[k] = answers[k]
        /\ \A k \in 1 .. c :
             answers'[n + k] = [id |-> InTurn(new, k), ok |-> InTurn(new, k) \notin failing]
        /\ Outcomes' = Outcomes \cup {OutcomeOf(m, failing) : m \in new}
  BY Served
<1> DEFINE outcomes == {OutcomeOf(m, failing) : m \in new}
<1>2. /\ \A k \in 1 .. c : InTurn(new, k) \in new
      /\ \A m \in new : \E k \in 1 .. c : InTurn(new, k) = m
      /\ \A j, k \in 1 .. c : InTurn(new, j) = InTurn(new, k) => j = k
  BY <1>1, EachInTurn
<1>3. /\ UNCHANGED <<owner, past, msgId, call>> /\ up # <<>> /\ up' = Tail(up)
  BY DEF Serve, idVars, mainVars
<1>4. PICK first \in DOMAIN up : Head(up) = up[first]
  BY <1>3, RestOfPackets
<1>5. /\ \A m \in new : m \in up[first].msgs /\ m \in Ids /\ m \notin Arrived
      /\ \A m \in new : owner[m] \in Requests
  <2>1. \A m \in Ids : owner[m] \in Requests
    BY DEF TypeOK, Ids
  <2> QED BY <1>1, <1>4, <2>1
<1> HIDE DEF new, n, c
<1>6. ASSUME NEW l \in new, NEW m \in new, owner[l] = owner[m]
      PROVE  l = m
  BY <1>5, <1>6 DEF SentByOneId, OneOfEach
<1>7. \A m \in new : call[owner[m]] # "new"
  BY <1>5 DEF SentByOneId, NewIsNowhere
<1>8. ASSUME NEW m \in new, owner[m] \notin Repeated
      PROVE  ran[owner[m]] = 0
  <2>1. msgId[owner[m]] = m
    BY <1>5, <1>8 DEF SentByOneId, OneId
  <2>2. ASSUME NEW k \in Runs(owner[m])
        PROVE  FALSE
    <3>1. answers[k].id \in Arrived /\ owner[answers[k].id] = owner[m]
      BY DEF Runs, Arrived
    <3>2. msgId[owner[m]] = answers[k].id
      BY <1>8, <3>1 DEF SentByOneId, OneId
    <3> QED BY <1>5, <2>1, <3>1, <3>2
  <2>3. Cardinality(Runs(owner[m])) = 0
    BY <2>2, FS_EmptySet
  <2> QED BY <1>5, <2>3 DEF ran
<1>9. \A m \in new : ran[owner[m]] = 0 \/ [request |-> owner[m], ok |-> FALSE] \in Outcomes
  BY <1>8, RepeatedIs
<1>10. ASSUME NEW k \in 1 .. c
       PROVE  /\ n + k \in n + 1 .. n + c /\ answers'[n + k].id = InTurn(new, k)
              /\ answers'[n + k].ok = (InTurn(new, k) \notin failing)
  <2>1. n + k \in n + 1 .. n + c
    BY <1>1
  <2>2. answers'[n + k] = [id |-> InTurn(new, k), ok |-> InTurn(new, k) \notin failing]
    BY <1>1
  <2> QED BY <2>1, <2>2
<1>11. \A j \in n + 1 .. n + c : \E k \in 1 .. c : j = n + k
  <2> TAKE j \in n + 1 .. n + c
  <2>1. j - n \in 1 .. c /\ j = n + (j - n)
    BY <1>1
  <2> QED BY <2>1
<1>12. ASSUME NEW r
       PROVE  Runs(r)' = Runs(r) \cup {n + k : k \in {j \in 1 .. c :
                             InTurn(new, j) \notin failing /\ owner[InTurn(new, j)] = r}}
  <2> DEFINE good(k) == answers'[k].ok /\ owner[answers'[k].id] = r
  <2>1. Runs(r)' = {k \in Live' : good(k)}
    BY <1>3 DEF Runs
  <2>2. {k \in Live' : good(k)} = {k \in Live : good(k)} \cup {k \in n + 1 .. n + c : good(k)}
    BY <1>1
  <2>3. {k \in Live : good(k)} = Runs(r)
    BY <1>1 DEF Runs
  <2>4. \A k \in 1 .. c :
          good(n + k) <=> InTurn(new, k) \notin failing /\ owner[InTurn(new, k)] = r
    BY <1>10
  <2> HIDE DEF good
  <2>5. {k \in n + 1 .. n + c : good(k)} =
          {n + k : k \in {j \in 1 .. c :
                     InTurn(new, j) \notin failing /\ owner[InTurn(new, j)] = r}}
    BY <1>10, <1>11, <2>4
  <2> QED BY <2>1, <2>2, <2>3, <2>5
<1>13. ASSUME NEW r \in Requests, [request |-> r, ok |-> TRUE] \in outcomes
       PROVE  Cardinality(Runs(r)') = Cardinality(Runs(r)) + 1
  <2>1. PICK m \in new : owner[m] = r /\ m \notin failing
    <3>1. PICK m \in new : OutcomeOf(m, failing) = [request |-> r, ok |-> TRUE]
      BY <1>13
    <3>2. owner[m] = r /\ (m \notin failing) = TRUE
      BY <3>1 DEF OutcomeOf
    <3> QED BY <3>2
  <2>2. PICK k \in 1 .. c : InTurn(new, k) = m
    BY <1>2
  <2>3. {j \in 1 .. c : InTurn(new, j) \notin failing /\ owner[InTurn(new, j)] = r} = {k}
    BY <1>2, <1>6, <2>1, <2>2
  <2>4. Runs(r)' = Runs(r) \cup {n + k}
    BY <1>12, <2>3
  <2>5. n + k \notin Runs(r)
    BY <1>1, <1>10 DEF Runs
  <2> QED BY <2>4, <2>5, RunsAreFinite, FS_AddElement
<1>14. ASSUME NEW r \in Requests, [request |-> r, ok |-> TRUE] \notin outcomes
       PROVE  Runs(r)' = Runs(r)
  <2>1. ASSUME NEW k \in 1 .. c, InTurn(new, k) \notin failing, owner[InTurn(new, k)] = r
        PROVE  FALSE
    <3>1. OutcomeOf(InTurn(new, k), failing) = [request |-> r, ok |-> TRUE]
      BY <2>1 DEF OutcomeOf
    <3> QED BY <1>2, <1>14, <3>1
  <2> QED BY <1>12, <2>1
<1>15. ran' = [r \in Requests |-> IF [request |-> r, ok |-> TRUE] \in outcomes
                                  THEN ran[r] + 1 ELSE ran[r]]
  <2>1. ran' = [r \in Requests |-> Cardinality(Runs(r)')]
    BY DEF ran
  <2>2. \A r \in Requests : ran[r] = Cardinality(Runs(r))
    BY DEF ran
  <2> HIDE DEF outcomes
  <2>3. ASSUME NEW r \in Requests
        PROVE  Cardinality(Runs(r)') =
                 IF [request |-> r, ok |-> TRUE] \in outcomes THEN ran[r] + 1 ELSE ran[r]
    <3>1. CASE [request |-> r, ok |-> TRUE] \in outcomes
      BY <1>13, <2>2, <3>1
    <3>2. CASE [request |-> r, ok |-> TRUE] \notin outcomes
      <4>1. Runs(r)' = Runs(r)
        BY <1>14, <3>2
      <4> QED BY <2>2, <3>2, <4>1
    <3> QED BY <3>1, <3>2
  <2> QED BY <2>1, <2>3
<1>16. \A m \in new : /\ OutcomeOf(m, failing).request = owner[m]
                      /\ OutcomeOf(m, failing) \in [request : Requests, ok : BOOLEAN]
  BY <1>5 DEF OutcomeOf
<1>17. CASE new = {}
  <2>1. outcomes = {}
    BY <1>17
  <2>2. ran' = [r \in Requests |-> ran[r]]
    BY <1>15, <2>1
  <2>3. ran = [r \in Requests |-> ran[r]]
    BY DEF ran
  <2> QED BY <1>1, <2>1, <2>2, <2>3 DEF new
<1>18. CASE new # {}
  <2>1. outcomes \in SUBSET [request : Requests, ok : BOOLEAN] /\ outcomes # {}
    BY <1>16, <1>18
  <2>2. \A o \in outcomes :
          /\ call[o.request] # "new"
          /\ ran[o.request] = 0 \/ [request |-> o.request, ok |-> FALSE] \in Outcomes
    BY <1>7, <1>9, <1>16
  <2>3. \A o, q \in outcomes : o.request = q.request => o = q
    BY <1>6, <1>16
  <2>4. Outcomes' = Outcomes \cup outcomes
    BY <1>1 DEF new
  <2> QED BY <1>15, <2>1, <2>2, <2>3, <2>4
<1> QED BY <1>17, <1>18

(* The mapped state at the start.                                          *)
LEMMA CallsInit == Init => Calls_!Init
<1> SUFFICES ASSUME Init PROVE Calls_!Init
  OBVIOUS
<1>1. Live = {} /\ DOMAIN answers = {}
  BY DEF Init, Live
<1>2. \A r \in Requests :
        Cardinality({k \in Live : answers[k].ok /\ owner[answers[k].id] = r}) = 0
  BY <1>1, FS_EmptySet
<1>3. Outcomes = {}
  BY <1>1 DEF Outcomes
<1> QED BY <1>2, <1>3 DEF Init, Calls_!Init

(* Each step is one of Calls, or none of those who send requests sees it.  *)
LEMMA CallsNext ==
  ASSUME TypeOK, SentByOneId, [Next]_vars
  PROVE  [Calls_!Next]_(Calls_!vars)
<1> USE DEF mainVars, sharedVars, idVars, sentVars, handVars, linkVars, serverVars
<1>v. UNCHANGED Calls_!vars <=> UNCHANGED <<call, ran, Outcomes>>
  BY DEF Calls_!vars, ran, Runs
<1>s. ASSUME UNCHANGED <<call, owner, answers, past>>
      PROVE  UNCHANGED Calls_!vars
  BY <1>s, <1>v, CallsStay
<1>m. UNCHANGED <<owner, answers, past>> => UNCHANGED <<ran, Outcomes>>
  BY CallsStay
<1>a. \A r \in Requests :
        /\ Calls_!Ask(r) <=> /\ call[r] = "new"
                             /\ call' = [call EXCEPT ![r] = "open"]
                             /\ UNCHANGED <<ran, Outcomes>>
        /\ Calls_!Answer(r) <=> /\ call[r] = "open"
                                /\ [request |-> r, ok |-> TRUE] \in Outcomes
                                /\ call' = [call EXCEPT ![r] = "answered"]
                                /\ UNCHANGED <<ran, Outcomes>>
        /\ Calls_!Cancel(r) <=> /\ call[r] = "open"
                                /\ call' = [call EXCEPT ![r] = "cancelled"]
                                /\ UNCHANGED <<ran, Outcomes>>
  BY DEF Calls_!Ask, Calls_!Answer, Calls_!Cancel, ran, Runs
<1>f. Calls_!Forget <=> ran' = [r \in Requests |-> 0] /\ UNCHANGED <<call, Outcomes>>
  BY DEF Calls_!Forget, ran, Runs
<1>r. \A outcomes : Calls_!Run(outcomes) <=>
        /\ outcomes # {}
        /\ \A o \in outcomes :
             /\ call[o.request] # "new"
             /\ ran[o.request] = 0 \/ [request |-> o.request, ok |-> FALSE] \in Outcomes
        /\ \A o, q \in outcomes : o.request = q.request => o = q
        /\ ran' = [r \in Requests |->
                     IF [request |-> r, ok |-> TRUE] \in outcomes THEN ran[r] + 1 ELSE ran[r]]
        /\ Outcomes' = Outcomes \cup outcomes
        /\ UNCHANGED call
  BY DEF Calls_!Run, ran, Runs
<1>n. Calls_!Next <=>
        \/ \E r \in Requests : Calls_!Ask(r) \/ Calls_!Answer(r) \/ Calls_!Cancel(r)
        \/ \E outcomes \in SUBSET [request : Requests, ok : BOOLEAN] : Calls_!Run(outcomes)
        \/ Calls_!Forget
  BY DEF Calls_!Next, Calls_!Outcomes
<1>1. ASSUME NEW r \in Requests, SendRequest(r) PROVE Calls_!Next
  BY <1>1, <1>m, <1>a, <1>n DEF SendRequest
<1>2. ASSUME NEW r \in Requests, Cancel(r) PROVE Calls_!Next
  BY <1>2, <1>m, <1>a, <1>n DEF Cancel
<1>3. CASE TryToReceive
  <2>1. PICK m \in received :
          IF call[m.request] # "open"
          THEN UNCHANGED <<call, delayed>>
          ELSE IF m.ok
          THEN call' = [call EXCEPT ![m.request] = "answered"] /\ UNCHANGED delayed
          ELSE delayed' = delayed \cup {m.request} /\ UNCHANGED call
    BY <1>3 DEF TryToReceive
  <2>2. UNCHANGED <<owner, answers, past>>
    BY <1>3 DEF TryToReceive
  <2>3. CASE UNCHANGED call
    BY <2>2, <2>3, <1>s
  <2>4. CASE call[m.request] = "open" /\ m.ok
             /\ call' = [call EXCEPT ![m.request] = "answered"]
    <3>1. m \in Outcomes /\ m \in [request : Requests, ok : BOOLEAN]
      BY DEF SentByOneId, ReceivedWereGiven, TypeOK
    <3>2. m = [request |-> m.request, ok |-> m.ok] /\ m.ok = TRUE
      BY <2>4, <3>1
    <3>3. [request |-> m.request, ok |-> TRUE] \in Outcomes /\ m.request \in Requests
      BY <3>1, <3>2
    <3> QED BY <2>2, <2>4, <3>3, <1>m, <1>a, <1>n
  <2> QED BY <2>1, <2>3, <2>4
<1>4. CASE CheckDelayed
  BY <1>4, <1>s DEF CheckDelayed
<1>5. CASE SendNothing
  BY <1>5, <1>s DEF SendNothing
<1>6. CASE TakeAlone
  BY <1>6, <1>s DEF TakeAlone
<1>7. CASE SendAlone
  <2>1. owner' = GiveIds({alone}).owner /\ alone # 0 /\ UNCHANGED <<call, answers, past>>
    BY <1>7 DEF SendAlone
  <2>2. {alone} \in SUBSET Requests
    BY <2>1 DEF TypeOK
  <2> QED BY <2>1, <2>2, <1>v, GivenStay, CallsStay
<1>8. CASE SendContainer
  <2>1. PICK batch \in Batches : owner' = GiveIds(Renewed(batch, ~started)).owner
    BY <1>8 DEF SendContainer
  <2>2. Renewed(batch, ~started) \in SUBSET Requests
    BY DEF Batches, Renewed, TypeOK
  <2>3. UNCHANGED <<call, answers, past>>
    BY <1>8 DEF SendContainer
  <2> QED BY <2>1, <2>2, <2>3, <1>v, GivenStay, CallsStay
<1>9. CASE Resend
  BY <1>9, <1>s DEF Resend
<1>10. CASE ResendMoved
  BY <1>10, <1>s DEF ResendMoved
<1>11. ASSUME NEW due \in SUBSET haveSent, CheckSentRequests(due) PROVE UNCHANGED Calls_!vars
  BY <1>11, <1>s DEF CheckSentRequests
<1>12. CASE ClearOldContainer
  BY <1>12, <1>s DEF ClearOldContainer
<1>13. CASE ReceiveAnswer
  BY <1>13, <1>s DEF ReceiveAnswer
<1>14. CASE ReceiveBad
  BY <1>14, <1>s DEF ReceiveBad
<1>15. CASE ReceiveNewSession
  BY <1>15, <1>s DEF ReceiveNewSession
<1>16. CASE ReceiveAck
  BY <1>16, <1>s DEF ReceiveAck
<1>17. CASE ReceiveTooOld
  <2>1. past' = Len(answers) /\ UNCHANGED <<call, owner, answers>>
    BY <1>17 DEF ReceiveTooOld
  <2> QED BY <2>1, NothingRan, <1>f, <1>n
<1>18. CASE Connected
  BY <1>18, <1>s DEF Connected
<1>19. CASE Disconnected
  BY <1>19, <1>s DEF Disconnected
<1>20. CASE Serve
  <2>1. UNCHANGED call
    BY <1>20 DEF Serve
  <2>2. CASE ran' = ran /\ Outcomes' = Outcomes
    BY <2>1, <2>2, <1>v
  <2>3. CASE ~(ran' = ran /\ Outcomes' = Outcomes)
    BY <1>20, <2>1, <2>3, <1>r, <1>n, ServeRuns
  <2> QED BY <2>2, <2>3
<1>21. CASE Refuse
  BY <1>21, <1>s DEF Refuse
<1>22. CASE Forget
  <2>1. past' = Len(answers) /\ UNCHANGED <<call, owner, answers>>
    BY <1>22 DEF Forget
  <2> QED BY <2>1, NothingRan, <1>f, <1>n
<1>23. CASE UNCHANGED vars
  BY <1>23, <1>s DEF vars
<1> QED BY <1>1, <1>2, <1>3, <1>4, <1>5, <1>6, <1>7, <1>8, <1>9, <1>10, <1>11, <1>12,
           <1>13, <1>14, <1>15, <1>16, <1>17, <1>18, <1>19, <1>20, <1>21, <1>22, <1>23
        DEF Next, MainSteps, HandSteps, TryToSend, Receive

(* Whatever connections break and whatever is sent again, a session keeps  *)
(* what Calls promises to those who send requests by it.                   *)
THEOREM Implementation == Spec => ImplementsCalls
<1>1. TypeOK /\ SentByOneId /\ [Next]_vars => [Calls_!Next]_(Calls_!vars)
  BY CallsNext
<1> QED BY <1>1, CallsInit, TypeCorrect, OneIdHolds, PTL
        DEF Spec, ImplementsCalls, Calls_!Spec

-----------------------------------------------------------------------------
(* Nothing is lost.                                                        *)

(* Where a request that waits for its callback may be.                     *)
Held(r) == r \in toSend \/ r = alone \/ \E m \in haveSent \cup moving : owner[m] = r
Placed(r) == Held(r) \/ r \in delayed \/ \E m \in received : m.request = r

AllPlaced == \A r \in Requests : call[r] = "open" => Placed(r)

(* To be sent is to be somewhere.                                          *)
LEMMA HeldIsSent ==
  ASSUME TypeOK, NEW r
  PROVE  Sendings(r) > 0 <=> Held(r)
<1> DEFINE S == {m \in haveSent \cup moving : owner[m] = r}
           a == IF r \in toSend THEN 1 ELSE 0
           b == IF r = alone THEN 1 ELSE 0
<1>1. S \in SUBSET Ids
  BY DEF TypeOK
<1>2. IsFiniteSet(S)
  BY <1>1, IdsAreFinite
<1>3. Cardinality(S) \in Nat /\ (Cardinality(S) = 0 <=> S = {})
  BY <1>2, FS_CardinalityType, FS_EmptySet
<1>4. S # {} <=> \E m \in haveSent \cup moving : owner[m] = r
  OBVIOUS
<1>5. Sendings(r) = a + b + Cardinality(S)
  BY DEF Sendings
<1> HIDE DEF S
<1> QED BY <1>3, <1>4, <1>5 DEF Held

(* A new id is of the same request.                                        *)
LEMMA RenamedKeep ==
  ASSUME TypeOK, MsgIdIsOurs, NEW new \in SUBSET Requests
  PROVE  \A m \in Ids : GiveIds(new).owner[GiveIds(new).Renamed[m]] = owner[m]
<1> SUFFICES ASSUME NEW m \in Ids
             PROVE  GiveIds(new).owner[GiveIds(new).Renamed[m]] = owner[m]
  OBVIOUS
<1>1. /\ \A k \in Ids : GiveIds(new).owner[k] = owner[k]
      /\ \A r \in new : GiveIds(new).owner[GiveIds(new).ids[r]] = r
  BY IdsAreGiven DEF Ids
<1>2. m # 0
  <2>1. Len(owner) \in Nat
    BY DEF TypeOK
  <2> QED BY <2>1 DEF Ids
<1>3. CASE \E r \in new : msgId[r] = m
  <2> DEFINE r == CHOOSE r \in new : msgId[r] = m
  <2>1. r \in new /\ msgId[r] = m
    BY <1>3
  <2>2. owner[m] = r
    BY <1>2, <2>1 DEF MsgIdIsOurs
  <2>3. GiveIds(new).Renamed[m] = GiveIds(new).ids[r]
    BY <1>3, <2>1 DEF GiveIds
  <2> HIDE DEF r
  <2> QED BY <1>1, <2>1, <2>2, <2>3
<1>4. CASE ~\E r \in new : msgId[r] = m
  <2>1. GiveIds(new).Renamed[m] = m
    BY <1>4 DEF GiveIds
  <2> QED BY <1>1, <2>1
<1> QED BY <1>3, <1>4

(* What SendContainer sends, by the ids it is sent by.                     *)
LEMMA Contained ==
  ASSUME TypeOK, SentByOneId, SendContainer
  PROVE  \E batch \in Batches :
           LET new == Renewed(batch, ~started)
               ids == {msgId'[r] : r \in batch}
           IN /\ batch \subseteq toSend /\ batch \subseteq Requests
              /\ new \in SUBSET Requests /\ new \subseteq batch
              /\ owner' = GiveIds(new).owner /\ msgId' = GiveIds(new).ids
              /\ toSend' = toSend \ batch
              /\ haveSent' = RenamedIn(GiveIds(new), haveSent) \cup ids
              /\ resending' = resending \ {msgId[r] : r \in batch}
              /\ up' = Append(up, Packet(ids, FALSE))
              /\ \A r \in batch : msgId'[r] \in Ids' /\ owner'[msgId'[r]] = r
<1>1. PICK batch \in Batches :
        LET new == Renewed(batch, ~started)
            given == GiveIds(new)
            ids == {given.ids[r] : r \in batch}
        IN
        /\ owner' = given.owner /\ msgId' = given.ids
        /\ resending' = resending \ {msgId[r] : r \in batch}
        /\ haveSent' = RenamedIn(given, haveSent) \cup ids
        /\ toSend' = toSend \ batch
        /\ up' = Append(up, Packet(ids, FALSE))
  BY DEF SendContainer
<1> DEFINE new == Renewed(batch, ~started)
           ids == {msgId'[r] : r \in batch}
<1>2. /\ owner' = GiveIds(new).owner /\ msgId' = GiveIds(new).ids
      /\ resending' = resending \ {msgId[r] : r \in batch}
      /\ haveSent' = RenamedIn(GiveIds(new), haveSent) \cup ids
      /\ toSend' = toSend \ batch
      /\ up' = Append(up, Packet(ids, FALSE))
  BY <1>1
<1>3. /\ batch \subseteq toSend /\ batch \subseteq Requests /\ new \in SUBSET Requests
      /\ new \subseteq batch
      /\ \A r \in batch \ new : msgId[r] # 0
  BY DEF Batches, Renewed, TypeOK
<1> HIDE DEF new
<1>4. /\ Ids \subseteq Ids'
      /\ \A r \in new : msgId'[r] \in Ids' /\ owner'[msgId'[r]] = r
      /\ \A r \in Requests \ new : msgId'[r] = msgId[r]
      /\ \A m \in Ids : owner'[m] = owner[m]
  <2>1. Ids \subseteq Ids' /\ \A r \in new : msgId'[r] \in Ids'
    BY <1>2, <1>3, IdsGrow
  <2>2. /\ \A r \in new : owner'[msgId'[r]] = r
        /\ \A r \in Requests \ new : msgId'[r] = msgId[r]
        /\ \A m \in 1 .. Len(owner) : owner'[m] = owner[m]
    BY <1>2, <1>3, IdsAreGiven
  <2> QED BY <2>1, <2>2 DEF Ids
<1>5. ASSUME NEW r \in batch
      PROVE  msgId'[r] \in Ids' /\ owner'[msgId'[r]] = r
  <2>1. CASE r \in new
    BY <2>1, <1>4
  <2>2. CASE r \notin new
    <3>1. msgId'[r] = msgId[r] /\ msgId[r] # 0
      BY <2>2, <1>3, <1>4
    <3>2. msgId[r] \in Ids \cup {0} /\ owner[msgId[r]] = r
      BY <1>3, <3>1 DEF TypeOK, SentByOneId, MsgIdIsOurs
    <3> QED BY <3>1, <3>2, <1>4
  <2> QED BY <2>1, <2>2
<1> QED BY <1>2, <1>3, <1>5 DEF new

(* What waits for its callback stays somewhere when ids are given and some *)
(* of it is sent.                                                          *)
LEMMA SentArePlaced ==
  ASSUME TypeOK, MsgIdIsOurs, NEW new \in SUBSET Requests, NEW ids, NEW r, Placed(r),
         owner' = GiveIds(new).owner, moving = {},
         haveSent' = RenamedIn(GiveIds(new), haveSent) \cup ids,
         UNCHANGED <<delayed, received>>,
         r \in toSend \/ r = alone => r \in toSend' \/ \E m \in ids : owner'[m] = r
  PROVE  Placed(r)'
<1>1. CASE \E m \in haveSent : owner[m] = r
  <2>1. PICK m \in haveSent : owner[m] = r
    BY <1>1
  <2>2. m \in Ids
    BY DEF TypeOK
  <2>3. owner'[GiveIds(new).Renamed[m]] = r
    BY <2>1, <2>2, RenamedKeep
  <2>4. GiveIds(new).Renamed[m] \in haveSent'
    BY DEF RenamedIn
  <2> QED BY <2>3, <2>4 DEF Placed, Held
<1>2. CASE r \in toSend \/ r = alone
  BY <1>2 DEF Placed, Held
<1>3. CASE r \in delayed \/ \E m \in received : m.request = r
  BY <1>3 DEF Placed
<1> QED BY <1>1, <1>2, <1>3 DEF Placed, Held

(* requestsAcked() lets go of what was answered or cancelled only.         *)
LEMMA AckedKeeps ==
  ASSUME TypeOK, NEW ids, NEW r, Placed(r),
         \A m \in ids : owner[m] = r => m \notin haveSent \cup resending,
         UNCHANGED <<owner, moving, alone, delayed>>, received \subseteq received',
         haveSent' = Acked(ids).haveSent, toSend' = Acked(ids).toSend
  PROVE  Placed(r)'
<1>1. /\ haveSent' = haveSent \ (ids \cap haveSent)
      /\ toSend' = toSend \ {owner[m] : m \in (ids \ haveSent) \cap resending}
  BY DEF Acked
<1>2. CASE \E m \in haveSent \cup moving : owner[m] = r
  BY <1>1, <1>2 DEF Placed, Held
<1>3. CASE r \in toSend
  BY <1>1, <1>3 DEF Placed, Held
<1>4. CASE r = alone \/ r \in delayed \/ \E m \in received : m.request = r
  BY <1>4 DEF Placed, Held
<1> QED BY <1>2, <1>3, <1>4 DEF Placed, Held

(* As many of the answered messages are kept as wasSent() needs: of those  *)
(* that may still be answered, none has so many answered after it that it  *)
(* would not be kept.                                                      *)
Remembered == \A m \in haveSent \cup resending : Cardinality({x \in acked : x > m}) < AckedSize

(* An answer that finds its request among what is sent, or is to be sent,  *)
(* reaches the main thread.                                                *)
LEMMA AnswerComes ==
  ASSUME TypeOK, Remembered, NEW m \in haveSent \cup resending
  PROVE  m \in Trim(Acked({m}).acked) \cup Acked({m}).resending \cup Acked({m}).haveSent
           \/ (m \notin haveSent /\ owner[m] \notin toSend)
<1> SUFFICES ASSUME m \in haveSent \/ owner[m] \in toSend
             PROVE  m \in Trim(Acked({m}).acked)
  OBVIOUS
<1>1. Acked({m}).acked = acked \cup {m}
  BY DEF Acked
<1>2. m \in Int
  BY IdsAreFinite DEF TypeOK
<1>3. {x \in acked \cup {m} : x > m} = {x \in acked : x > m}
  BY <1>2
<1>4. Cardinality({x \in acked \cup {m} : x > m}) < AckedSize
  BY <1>3 DEF Remembered
<1> QED BY <1>1, <1>4 DEF Trim, Latest

(* No step loses a request that waits for its callback.                    *)
LEMMA PlacedNext ==
  ASSUME TypeOK, SentByOneId, Remembered, AllPlaced, [Next]_vars
  PROVE  AllPlaced'
<1> SUFFICES ASSUME NEW r \in Requests, call'[r] = "open"
             PROVE  Placed(r)'
  BY DEF AllPlaced
<1> USE DEF mainVars, sharedVars, idVars, sentVars, handVars, linkVars, serverVars
<1>o. call[r] = "open" => Placed(r)
  BY DEF AllPlaced
<1>k. UNCHANGED <<call, delayed, toSend, haveSent, received, owner, moving, alone>> => Placed(r)'
  BY <1>o DEF Placed, Held
<1>m. MsgIdIsOurs /\ AloneIsFirst
  BY DEF SentByOneId
<1>1. ASSUME NEW x \in Requests, SendRequest(x) PROVE Placed(r)'
  <2>1. CASE x = r
    BY <1>1, <2>1 DEF SendRequest, SendPrepared, Placed, Held
  <2>2. CASE x # r
    <3>1. call[r] = "open"
      BY <1>1, <2>2 DEF SendRequest, TypeOK
    <3> QED BY <1>1, <1>o, <3>1 DEF SendRequest, SendPrepared, Placed, Held
  <2> QED BY <2>1, <2>2
<1>2. ASSUME NEW x \in Requests, Cancel(x) PROVE Placed(r)'
  <2>1. /\ toSend' = toSend \ {x} /\ haveSent' = haveSent \ {msgId[x]}
        /\ UNCHANGED <<delayed, received, owner, moving, alone>>
        /\ x # r /\ call[r] = "open"
    BY <1>2 DEF Cancel, TypeOK
  <2>2. msgId[x] \in haveSent => owner[msgId[x]] = x
    <3>1. 0 \notin haveSent
      BY DEF TypeOK, Ids
    <3> QED BY <3>1, <1>m DEF MsgIdIsOurs
  <2> QED BY <2>1, <2>2, <1>o DEF Placed, Held
<1>3. CASE TryToReceive
  <2>1. PICK m \in received :
          /\ received' = received \ {m}
          /\ IF call[m.request] # "open"
             THEN UNCHANGED <<call, delayed>>
             ELSE IF m.ok
             THEN call' = [call EXCEPT ![m.request] = "answered"] /\ UNCHANGED delayed
             ELSE delayed' = delayed \cup {m.request} /\ UNCHANGED call
    BY <1>3 DEF TryToReceive
  <2>2. UNCHANGED <<toSend, haveSent, owner, moving, alone>>
    BY <1>3 DEF TryToReceive
  <2>3. m.request \in Requests /\ delayed \subseteq delayed' /\ call[r] = "open"
    BY <2>1 DEF TypeOK
  <2>4. CASE m.request = r
    <3>1. r \in delayed'
      BY <2>1, <2>3, <2>4 DEF TypeOK
    <3> QED BY <3>1 DEF Placed
  <2>5. CASE m.request # r
    BY <2>1, <2>2, <2>3, <2>5, <1>o DEF Placed, Held
  <2> QED BY <2>4, <2>5
<1>4. CASE CheckDelayed
  <2>1. PICK x \in delayed :
          /\ delayed' = delayed \ {x}
          /\ IF call[x] = "open" THEN SendPrepared(x) ELSE UNCHANGED <<toSend, msgId, wake>>
    BY <1>4 DEF CheckDelayed
  <2>2. UNCHANGED <<call, haveSent, received, owner, moving, alone>>
    BY <1>4 DEF CheckDelayed
  <2>3. CASE x = r
    BY <2>1, <2>2, <2>3 DEF SendPrepared, Placed, Held
  <2>4. CASE x # r
    BY <2>1, <2>2, <2>4, <1>o DEF SendPrepared, Placed, Held
  <2> QED BY <2>3, <2>4
<1>5. CASE SendNothing
  BY <1>5, <1>k DEF SendNothing
<1>6. CASE TakeAlone
  <2>1. /\ alone = 0 /\ Cardinality(toSend) = 1
        /\ alone' = CHOOSE x \in toSend : TRUE
        /\ UNCHANGED <<call, delayed, haveSent, received, owner, moving>>
    BY <1>6 DEF TakeAlone, Idle
  <2>2. r # 0
    BY SessionAssumption
  <2>3. PICK x : toSend = {x}
    <3>1. IsFiniteSet(toSend)
      BY SessionAssumption, FS_Subset DEF TypeOK
    <3> QED BY <2>1, <3>1, FS_Singleton
  <2>4. r \in toSend => r = alone'
    BY <2>1, <2>3
  <2> QED BY <2>1, <2>2, <2>4, <1>o DEF Placed, Held
<1>7. CASE SendAlone
  <2> DEFINE ids == {msgId'[alone]}
  <2>1. /\ alone # 0 /\ toSend' = toSend
        /\ owner' = GiveIds({alone}).owner /\ msgId' = GiveIds({alone}).ids
        /\ haveSent' = RenamedIn(GiveIds({alone}), haveSent) \cup ids
        /\ UNCHANGED <<call, delayed, received>>
    BY <1>7 DEF SendAlone
  <2>2. {alone} \in SUBSET Requests /\ moving = {}
    BY <2>1, <1>m DEF TypeOK, AloneIsFirst
  <2>3. owner'[msgId'[alone]] = alone
    BY <2>1, <2>2, IdsAreGiven
  <2>4. r \in toSend \/ r = alone => r \in toSend' \/ \E m \in ids : owner'[m] = r
    BY <2>1, <2>3
  <2>5. Placed(r)
    BY <2>1, <1>o
  <2> HIDE DEF ids
  <2> QED BY <2>1, <2>2, <2>4, <2>5, <1>m, SentArePlaced
<1>8. CASE SendContainer
  <2>1. PICK batch \in Batches :
          LET new == Renewed(batch, ~started)
              ids == {msgId'[x] : x \in batch}
          IN /\ new \in SUBSET Requests
             /\ owner' = GiveIds(new).owner
             /\ toSend' = toSend \ batch
             /\ haveSent' = RenamedIn(GiveIds(new), haveSent) \cup ids
             /\ \A x \in batch : owner'[msgId'[x]] = x
    BY <1>8, Contained
  <2> DEFINE new == Renewed(batch, ~started)
             ids == {msgId'[x] : x \in batch}
  <2>2. alone = 0 /\ moving = {} /\ UNCHANGED <<call, delayed, received>>
    BY <1>8 DEF SendContainer, Idle
  <2>3. r # 0
    BY SessionAssumption
  <2>4. r \in toSend \/ r = alone => r \in toSend' \/ \E m \in ids : owner'[m] = r
    BY <2>1, <2>2, <2>3
  <2>5. Placed(r)
    BY <2>2, <1>o
  <2>6. /\ new \in SUBSET Requests /\ owner' = GiveIds(new).owner
        /\ haveSent' = RenamedIn(GiveIds(new), haveSent) \cup ids
    BY <2>1
  <2> HIDE DEF ids, new
  <2> QED BY <2>2, <2>4, <2>5, <2>6, <1>m, SentArePlaced
<1>9. CASE Resend
  <2>1. /\ moving = {} /\ moving' \subseteq haveSent /\ haveSent' = haveSent \ moving'
        /\ UNCHANGED <<call, delayed, toSend, received, owner, alone>>
    BY <1>9 DEF Resend
  <2> QED BY <2>1, <1>o DEF Placed, Held
<1>10. CASE ResendMoved
  BY <1>10, <1>o DEF ResendMoved, Placed, Held
<1>11. ASSUME NEW due \in SUBSET haveSent, CheckSentRequests(due) PROVE Placed(r)'
  BY <1>11, <1>k DEF CheckSentRequests
<1>12. CASE ClearOldContainer
  BY <1>12, <1>k DEF ClearOldContainer
<1>13. CASE ReceiveAnswer
  <2>1. PICK k \in Live \ seen :
          LET m == answers[k].id
              result == Acked({m})
          IN
          /\ haveSent' = result.haveSent /\ resending' = result.resending
          /\ toSend' = result.toSend
          /\ received' = IF m \in Trim(result.acked) \cup result.resending \cup result.haveSent
                         THEN received \cup {[request |-> owner[m], ok |-> answers[k].ok]}
                         ELSE received
    BY <1>13 DEF ReceiveAnswer
  <2> DEFINE m == answers[k].id
             answer == [request |-> owner[m], ok |-> answers[k].ok]
  <2>2. UNCHANGED <<call, delayed, owner, moving, alone>>
    BY <1>13 DEF ReceiveAnswer
  <2>3. /\ haveSent' = Acked({m}).haveSent /\ toSend' = Acked({m}).toSend
        /\ received \subseteq received'
        /\ m \in Trim(Acked({m}).acked) \cup Acked({m}).resending \cup Acked({m}).haveSent
             => answer \in received'
    BY <2>1
  <2>4. answer.request = owner[m]
    OBVIOUS
  <2> HIDE DEF m, answer
  <2>5. CASE \A n \in {m} : owner[n] = r => n \notin haveSent \cup resending
    <3>1. Placed(r)
      BY <2>2, <1>o
    <3> QED BY <2>2, <2>3, <2>5, <3>1, AckedKeeps
  <2>6. CASE answer \in received' /\ owner[m] = r
    BY <2>4, <2>6 DEF Placed
  <2>7. CASE m \in resending /\ m \notin haveSent /\ owner[m] \notin toSend /\ owner[m] = r
    <3>1. haveSent' = haveSent /\ toSend' = toSend
      BY <2>3, <2>7 DEF Acked
    <3> QED BY <2>2, <2>3, <3>1, <1>o DEF Placed, Held
  <2> QED BY <2>3, <2>5, <2>6, <2>7, AnswerComes
<1>14. CASE ReceiveBad
  BY <1>14, <1>k DEF ReceiveBad
<1>15. CASE ReceiveNewSession
  BY <1>15, <1>k DEF ReceiveNewSession
<1>16. CASE ReceiveAck
  <2>1. PICK ids : RequestsAcked(ids)
    BY <1>16 DEF ReceiveAck
  <2> DEFINE closed == {m \in ids : ~HasCallback(m)}
  <2>2. haveSent' = Acked(closed).haveSent /\ toSend' = Acked(closed).toSend
    BY <2>1 DEF RequestsAcked
  <2>3. UNCHANGED <<call, delayed, received, owner, moving, alone>>
    BY <1>16 DEF ReceiveAck
  <2>4. \A m \in closed : owner[m] # r
    BY <2>3 DEF HasCallback
  <2>5. Placed(r)
    BY <2>3, <1>o
  <2> HIDE DEF closed
  <2> QED BY <2>2, <2>3, <2>4, <2>5, AckedKeeps
<1>17. CASE ReceiveTooOld
  BY <1>17, <1>k DEF ReceiveTooOld
<1>18. CASE Connected
  <2>1. /\ moving = {} /\ moving' = haveSent /\ haveSent' = {}
        /\ UNCHANGED <<call, delayed, toSend, received, owner, alone>>
    BY <1>18 DEF Connected, Idle
  <2> QED BY <2>1, <1>o DEF Placed, Held
<1>19. CASE Disconnected
  BY <1>19, <1>k DEF Disconnected
<1>20. CASE Serve
  BY <1>20, <1>k DEF Serve
<1>21. CASE Refuse
  BY <1>21, <1>k DEF Refuse
<1>22. CASE Forget
  BY <1>22, <1>k DEF Forget
<1>23. CASE UNCHANGED vars
  BY <1>23, <1>k DEF vars
<1> QED BY <1>1, <1>2, <1>3, <1>4, <1>5, <1>6, <1>7, <1>8, <1>9, <1>10, <1>11, <1>12,
           <1>13, <1>14, <1>15, <1>16, <1>17, <1>18, <1>19, <1>20, <1>21, <1>22, <1>23
        DEF Next, MainSteps, HandSteps, TryToSend, Receive

(* As long as enough of the answered messages are remembered, a request    *)
(* that waits for its callback is always somewhere, whatever is lost,      *)
(* refused, forgotten or sent again.  That the session may answer more     *)
(* than it remembers while one is sent is what a run shows.                *)
THEOREM KeptSomewhere == Spec /\ []Remembered => []NothingLost
<1>1. Init => AllPlaced
  BY DEF Init, AllPlaced
<1>2. TypeOK /\ SentByOneId /\ Remembered /\ AllPlaced /\ [Next]_vars => AllPlaced'
  BY PlacedNext
<1>3. TypeOK /\ AllPlaced => NothingLost
  BY HeldIsSent DEF AllPlaced, Placed, NothingLost
<1> QED BY <1>1, <1>2, <1>3, TypeCorrect, OneIdHolds, PTL DEF Spec

(* That is so of a session that gave out no more ids than it remembers     *)
(* answered ones.                                                          *)
LEMMA FewAreRemembered ==
  ASSUME TypeOK, Len(owner) <= AckedSize
  PROVE  Remembered
<1> DEFINE n == Len(owner)
<1>1. SUFFICES ASSUME NEW m \in haveSent \cup resending
               PROVE  Cardinality({x \in acked : x > m}) < AckedSize
  BY DEF Remembered
<1>2. n \in Nat /\ acked \subseteq 1 .. n /\ m \in 1 .. n /\ AckedSize \in Nat
  BY SessionAssumption DEF TypeOK, Ids
<1>3. {x \in acked : x > m} \subseteq (m + 1) .. n
  <2> HIDE DEF n
  <2>1. \A x \in 1 .. n : x > m => x \in (m + 1) .. n
    BY <1>2
  <2> QED BY <1>2, <2>1
<1>4. IsFiniteSet((m + 1) .. n) /\ Cardinality((m + 1) .. n) <= n - m
  <2> HIDE DEF n
  <2>1. m + 1 \in Int /\ n \in Int
    BY <1>2
  <2>2. IsFiniteSet((m + 1) .. n)
          /\ Cardinality((m + 1) .. n) = (IF m + 1 > n THEN 0 ELSE n - (m + 1) + 1)
    BY <2>1, FS_Interval
  <2> QED BY <1>2, <2>2
<1>5. /\ Cardinality({x \in acked : x > m}) <= Cardinality((m + 1) .. n)
      /\ Cardinality({x \in acked : x > m}) \in Nat /\ Cardinality((m + 1) .. n) \in Nat
  BY <1>3, <1>4, FS_Subset, FS_CardinalityType
<1>6. n <= AckedSize
  OBVIOUS
<1> HIDE DEF n
<1> QED BY <1>2, <1>4, <1>5, <1>6

(* A session that gives out no more ids than it remembers answered ones    *)
(* loses no request.                                                       *)
THEOREM KeptWhileFew == Spec /\ [](Len(owner) <= AckedSize) => []NothingLost
<1>1. TypeOK /\ Len(owner) <= AckedSize => Remembered
  BY FewAreRemembered
<1> QED BY <1>1, TypeCorrect, KeptSomewhere, PTL

-----------------------------------------------------------------------------
(* A request is sent once.                                                 *)

Open(r) == call[r] = "open"

(* The answers the session may still take, and the messages that may yet   *)
(* be answered in this server session.                                     *)
Unheard == {k \in Live \ seen : ~TooOld(k)}
Coming == (UNION {up[k].msgs : k \in DOMAIN up}) \ Arrived

(* The messages the session may yet be told to send again.                 *)
MayFail ==
  {answers[k].id : k \in {j \in Unheard : ~answers[j].ok}}
    \cup (IF past = 0 THEN Coming ELSE {})

(* The session was told to send a request again, and has not yet done it.  *)
Refused(r) == [request |-> r, ok |-> FALSE]
Failing(r) == r \in delayed \/ Refused(r) \in received

(* Whatever there was to be repeated.                                      *)
NoneFailed == errors = 0 => \A k \in DOMAIN answers : answers[k].ok
AnsweredOnce == \A k, l \in Live : answers[k].id = answers[l].id => k = l
HandsApart == haveSent \cap moving = {}
ResendingIsForced == \A m \in resending : owner[m] \in forced

(* But for a server that forgets: a request is in one place, by the msg_id *)
(* it has, and what may still fail is what it was last sent as.            *)
AtMostOnce ==
  /\ \A m, n \in haveSent \cup moving : owner[m] = owner[n] => m = n
  /\ alone \notin toSend
  /\ \A m \in haveSent \cup moving : owner[m] \notin toSend /\ owner[m] # alone
SentByMsgId == \A m \in haveSent \cup moving : msgId[owner[m]] = m
ResentByMsgId ==
  \A m \in resending : Open(owner[m]) => owner[m] \in toSend /\ msgId[owner[m]] = m
QueuedIsResending == \A r \in toSend : Open(r) => msgId[r] = 0 \/ msgId[r] \in resending
AloneIsNew == alone # 0 /\ Open(alone) => msgId[alone] = 0
FailedIsNowhere ==
  \A r \in Requests :
    Open(r) /\ Failing(r) => ~Held(r) /\ ~(r \in delayed /\ Refused(r) \in received)
OneFailure ==
  \A m \in MayFail : Open(owner[m]) => msgId[owner[m]] = m /\ ~Failing(owner[m])

InOnePlace ==
  /\ AtMostOnce /\ SentByMsgId /\ ResentByMsgId /\ QueuedIsResending
  /\ AloneIsNew /\ FailedIsNowhere /\ OneFailure

(* What leaves the window when one comes is before all that stays.         *)
LEMMA OneLeaves ==
  ASSUME NEW S, S \subseteq Int, IsFiniteSet(S), NEW size \in Nat, Cardinality(S) <= size + 1,
         NEW x \in S, x \notin Latest(S, size)
  PROVE  /\ Latest(S, size) = S \ {x} /\ Cardinality(Latest(S, size)) = size
         /\ \A y \in S \ {x} : x < y
<1> DEFINE Above(y) == {z \in S : z > y}
           T == S \ {x}
<1>0. x \in Int /\ \A y \in S : y \in Int
  OBVIOUS
<1>1. \A y \in S : IsFiniteSet(Above(y)) /\ Cardinality(Above(y)) \in Nat
  BY FS_Subset, FS_CardinalityType
<1>2. \A y : y \in Latest(S, size) <=> y \in S /\ Cardinality(Above(y)) < size
  BY DEF Latest
<1>3. Cardinality(Above(x)) >= size
  BY <1>1, <1>2
<1>4. IsFiniteSet(T) /\ Cardinality(T) = Cardinality(S) - 1 /\ Cardinality(S) \in Nat
  BY FS_RemoveElement, FS_CardinalityType
<1>5. Above(x) \subseteq T
  BY <1>0
<1>6. Cardinality(Above(x)) <= Cardinality(T)
        /\ (Cardinality(T) = Cardinality(Above(x)) => Above(x) = T)
  BY <1>4, <1>5, FS_Subset
<1>7. Above(x) = T /\ Cardinality(T) = size
  <2>1. Cardinality(Above(x)) \in Nat
    BY <1>1
  <2> HIDE DEF Above, T
  <2> QED BY <1>3, <1>4, <1>6, <2>1
<1>8. \A y \in T : x < y
  BY <1>0, <1>7
<1>9. ASSUME NEW y \in T
      PROVE  y \in Latest(S, size)
  <2>1. Above(y) \subseteq T
    <3>1. x \in Int /\ y \in Int /\ x < y
      BY <1>0, <1>8
    <3>2. ~(x > y)
      BY <3>1
    <3> QED BY <3>2
  <2>2. y \notin Above(y)
    BY <1>0
  <2>3. Cardinality(Above(y)) <= Cardinality(T)
          /\ (Cardinality(T) = Cardinality(Above(y)) => Above(y) = T)
    BY <2>1, <1>4, FS_Subset
  <2>4. Cardinality(Above(y)) # Cardinality(T)
    BY <2>2, <2>3
  <2>5. Cardinality(Above(y)) \in Nat
    BY <1>1
  <2>6. Cardinality(Above(y)) < size
    <3> HIDE DEF Above, T
    <3> QED BY <1>7, <2>3, <2>4, <2>5
  <2> QED BY <1>2, <2>6
<1>10. Latest(S, size) = T
  BY <1>2, <1>9
<1> QED BY <1>7, <1>8, <1>10

(* What was received is not received again: it is among what the window    *)
(* keeps, or older than it.                                                *)
LEMMA HeardOnce ==
  ASSUME TypeOK, NEW k \in Unheard, seen' = Shrink(seen \cup {k}), UNCHANGED <<answers, past>>
  PROVE  Unheard' \subseteq Unheard \ {k}
<1> DEFINE S == seen \cup {k}
           size == SeenSize
<1>1. /\ k \in Live /\ k \notin seen /\ ~TooOld(k)
      /\ Live' = Live
  BY ArrivedStay DEF Unheard
<1>2. /\ Len(answers) \in Nat /\ seen \subseteq 1 .. Len(answers) /\ Cardinality(seen) <= size
      /\ Live \subseteq Int /\ k \in Int
  <2>1. Len(answers) \in Nat /\ past \in Nat /\ seen \subseteq 1 .. Len(answers)
        /\ Cardinality(seen) <= size
    BY DEF TypeOK
  <2>2. Live \subseteq Int
    BY <2>1 DEF Live
  <2> QED BY <1>1, <2>1, <2>2
<1>3. IsFiniteSet(seen) /\ seen \subseteq Int /\ Cardinality(seen) \in Nat
  <2>1. IsFiniteSet(1 .. Len(answers)) /\ 1 .. Len(answers) \subseteq Int
    BY <1>2, FS_Interval
  <2> QED BY <1>2, <2>1, FS_Subset, FS_CardinalityType
<1>4. IsFiniteSet(S) /\ S \subseteq Int /\ Cardinality(S) = Cardinality(seen) + 1
  BY <1>1, <1>2, <1>3, FS_AddElement
<1>5. size \in Nat /\ size # 0
  BY SessionAssumption
<1>6. seen' = Latest(S, size)
  BY DEF Shrink
<1>7. \A j : TooOld(j) <=> j \notin seen /\ Cardinality(seen) >= size /\ j < Min(seen)
  BY DEF TooOld
<1>8. \A j : TooOld(j)' <=> j \notin seen' /\ Cardinality(seen') >= size /\ j < Min(seen')
  BY DEF TooOld
<1>9. ASSUME NEW j \in Live, j \notin seen', ~(TooOld(j)')
      PROVE  j \notin S /\ ~TooOld(j)
  <2>0. j \in Int
    BY <1>2
  <2> HIDE DEF S
  <2>1. CASE \E x \in S : x \notin seen'
    <3>1. PICK x \in S : x \notin seen'
      BY <2>1
    <3>2. Cardinality(S) <= size + 1
      BY <1>2, <1>3, <1>4, <1>5
    <3>3. seen' = S \ {x} /\ Cardinality(seen') = size /\ \A y \in S \ {x} : x < y
      <4>1. x \in S /\ x \notin Latest(S, size)
        BY <1>6, <3>1
      <4> HIDE DEF size
      <4>2. /\ Latest(S, size) = S \ {x} /\ Cardinality(Latest(S, size)) = size
            /\ \A y \in S \ {x} : x < y
        BY <1>4, <1>5, <3>2, <4>1, OneLeaves
      <4> QED BY <1>6, <4>2
    <3>4. seen' # {}
      BY <3>3, <1>5, FS_EmptySet
    <3>5. IsFiniteSet(seen') /\ seen' \subseteq Int
      BY <3>3, <1>4, FS_Subset
    <3>6. Min(seen') \in seen'
      BY <3>4, <3>5, MinIsOne
    <3>7. Cardinality(seen') >= size
      BY <3>3, <1>5
    <3>8. ~(j < Min(seen'))
      BY <1>8, <1>9, <3>7
    <3>9. x < Min(seen') /\ Min(seen') \in Int /\ x \in Int
      BY <3>3, <3>5, <3>6, <3>1, <1>4
    <3>10. j # x
      BY <3>8, <3>9
    <3>11. j \notin S
      BY <1>9, <3>3, <3>10
    <3>12. ASSUME TooOld(j) PROVE FALSE
      <4>1. Cardinality(seen) >= size /\ j < Min(seen)
        BY <1>7, <3>12
      <4>2. seen # {}
        BY <4>1, <1>5, FS_EmptySet
      <4>3. Min(seen) \in seen /\ \A y \in seen : Min(seen) <= y
        BY <1>3, <4>2, MinIsOne
      <4>4. ~(k < Min(seen))
        BY <1>1, <1>7, <4>1
      <4>5. \A y \in seen : j < y
        <5>1. Min(seen) \in Int /\ \A y \in seen : y \in Int
          BY <1>3, <4>3
        <5>2. \A y \in Int : Min(seen) <= y => j < y
          BY <2>0, <4>1, <5>1
        <5> QED BY <4>3, <5>1, <5>2
      <4>6. j < k
        <5>1. Min(seen) \in Int
          BY <1>3, <4>3
        <5> QED BY <2>0, <1>2, <4>1, <4>4, <5>1
      <4>7. \A y \in S : j < y
        BY <4>5, <4>6 DEF S
      <4> QED BY <3>3, <3>6, <3>8, <4>7
    <3> QED BY <3>11, <3>12
  <2>2. CASE \A x \in S : x \in seen'
    <3>1. Latest(S, size) \subseteq S /\ Cardinality(Latest(S, size)) <= size
      BY <1>4, <1>5, LatestFits
    <3>2. seen' = S
      BY <2>2, <3>1, <1>6
    <3>3. ~(Cardinality(seen) >= size)
      <4>1. Cardinality(S) <= size
        BY <3>1, <3>2, <1>6
      <4> HIDE DEF size
      <4> QED BY <4>1, <1>3, <1>4, <1>5
    <3> QED BY <1>7, <1>9, <3>2, <3>3
  <2> QED BY <2>1, <2>2
<1>10. ASSUME NEW j \in Unheard'
       PROVE  j \in Unheard \ {k}
  <2>1. j \in Live /\ j \notin seen' /\ ~(TooOld(j)')
    BY <1>1 DEF Unheard
  <2>2. j \notin S /\ ~TooOld(j)
    BY <1>9, <2>1
  <2> QED BY <2>1, <2>2 DEF Unheard
<1> QED BY <1>10

(* Only a packet that comes adds answers, and only a server that forgets   *)
(* lets go of them.                                                        *)
LEMMA ServerSteps ==
  ASSUME TypeOK, [Next]_vars
  PROVE  \/ Serve
         \/ UNCHANGED <<answers, errors>> /\ (past' = past \/ past' = Len(answers))
<1> USE DEF mainVars, sharedVars, idVars, sentVars, handVars, linkVars, serverVars
<1> DEFINE Quiet == UNCHANGED <<answers, errors>> /\ (past' = past \/ past' = Len(answers))
<1>1. ASSUME NEW r \in Requests, SendRequest(r) \/ Cancel(r) PROVE Quiet
  BY <1>1 DEF SendRequest, Cancel
<1>2. CASE MainSteps
  BY <1>2 DEF MainSteps, TryToReceive, CheckDelayed
<1>3. CASE TryToSend \/ HandSteps
  BY <1>3 DEF TryToSend, SendNothing, TakeAlone, SendContainer, HandSteps, SendAlone, Resend,
              ResendMoved
<1>4. ASSUME NEW due \in SUBSET haveSent, CheckSentRequests(due) PROVE Quiet
  BY <1>4 DEF CheckSentRequests
<1>5. CASE ClearOldContainer \/ Receive \/ ReceiveAck
  BY <1>5 DEF ClearOldContainer, Receive, ReceiveAnswer, ReceiveBad, ReceiveNewSession, ReceiveAck
<1>6. CASE ReceiveTooOld \/ Connected \/ Disconnected
  BY <1>6 DEF ReceiveTooOld, Connected, Disconnected
<1>7. CASE Refuse \/ Forget
  BY <1>7 DEF Refuse, Forget
<1>8. CASE UNCHANGED vars
  BY <1>8 DEF vars
<1> QED BY <1>1, <1>2, <1>3, <1>4, <1>5, <1>6, <1>7, <1>8 DEF Next

(* Once a server has forgotten something and there were more errors, that  *)
(* stays so.                                                               *)
LEMMA RepeatedBefore ==
  ASSUME TypeOK, [Next]_vars, RepeatedOnce'
  PROVE  RepeatedOnce
<1>1. past \in 0 .. Len(answers) /\ Len(answers) \in Nat /\ errors \in Nat
  BY DEF TypeOK
<1>2. CASE Serve
  <2>1. \E failing \in SUBSET (Head(up).msgs \ Arrived) :
          Head(up).msgs \ Arrived \in SUBSET Ids /\ errors' = errors + Cardinality(failing)
    BY <1>2, Served
  <2>2. PICK failing \in SUBSET Ids : errors' = errors + Cardinality(failing)
    BY <2>1
  <2>3. Cardinality(failing) \in Nat
    BY IdsAreFinite, FS_CardinalityType
  <2>4. past' = past
    BY <1>2 DEF Serve
  <2> QED BY <1>1, <2>2, <2>3, <2>4 DEF RepeatedOnce
<1>3. CASE UNCHANGED <<answers, errors>> /\ (past' = past \/ past' = Len(answers))
  BY <1>1, <1>3 DEF RepeatedOnce
<1> QED BY <1>2, <1>3, ServerSteps

(* As long as there were no errors, no answer was one; and no message is   *)
(* answered twice by one server session.                                   *)
LEMMA AnswersNext ==
  ASSUME TypeOK, NoneFailed, AnsweredOnce, [Next]_vars
  PROVE  NoneFailed' /\ AnsweredOnce'
<1>1. CASE Serve
  <2> DEFINE new == Head(up).msgs \ Arrived
             n == Len(answers)
             c == Cardinality(new)
  <2>1. PICK failing \in SUBSET new :
          /\ new \in SUBSET Ids /\ n \in Nat /\ c \in Nat
          /\ errors' = errors + Cardinality(failing)
          /\ Len(answers') = n + c
          /\ \A k \in 1 .. n : answers'[k] = answers[k]
          /\ Live' = Live \cup (n + 1 .. n + c) /\ Live \cap (n + 1 .. n + c) = {}
          /\ \A k \in Live : answers'[k] = answers[k]
          /\ \A k \in 1 .. c :
               answers'[n + k] = [id |-> InTurn(new, k), ok |-> InTurn(new, k) \notin failing]
    BY <1>1, Served
  <2>2. /\ \A k \in 1 .. c : InTurn(new, k) \in new
        /\ \A j, k \in 1 .. c : InTurn(new, j) = InTurn(new, k) => j = k
    BY <2>1, EachInTurn
  <2>3. \A m \in new : m \notin Arrived
    OBVIOUS
  <2>4. DOMAIN answers = 1 .. n
    BY AnswersAreTyped
  <2>5. failing \in SUBSET Ids /\ errors \in Nat
    BY <2>1 DEF TypeOK
  <2>6. DOMAIN answers' = 1 .. n + c
    <3>1. answers' \in Seq([id : Ids, ok : BOOLEAN])
      BY <1>1, Answered
    <3> QED BY <2>1, <3>1
  <2> HIDE DEF new, n, c
  <2>7. ASSUME NEW k \in n + 1 .. n + c
        PROVE  /\ k - n \in 1 .. c /\ answers'[k].id = InTurn(new, k - n)
               /\ answers'[k].ok = (InTurn(new, k - n) \notin failing)
    <3>1. k - n \in 1 .. c /\ k = n + (k - n)
      BY <2>1
    <3>2. answers'[n + (k - n)] = [id |-> InTurn(new, k - n),
                                   ok |-> InTurn(new, k - n) \notin failing]
      BY <2>1, <3>1
    <3> QED BY <3>1, <3>2
  <2>8. NoneFailed'
    <3> SUFFICES ASSUME errors' = 0, NEW k \in 1 .. n + c
                 PROVE  answers'[k].ok
      BY <2>6 DEF NoneFailed
    <3>1. IsFiniteSet(failing) /\ Cardinality(failing) \in Nat
      BY <2>5, IdsAreFinite, FS_CardinalityType
    <3>2. errors = 0 /\ failing = {}
      BY <2>1, <2>5, <3>1, FS_EmptySet
    <3>3. CASE k \in 1 .. n
      BY <2>1, <2>4, <3>2, <3>3 DEF NoneFailed
    <3>4. CASE k \in n + 1 .. n + c
      BY <2>7, <3>2, <3>4
    <3>5. k \in 1 .. n \/ k \in n + 1 .. n + c
      BY <2>1
    <3> QED BY <3>3, <3>4, <3>5
  <2>9. AnsweredOnce'
    <3> SUFFICES ASSUME NEW j \in Live', NEW k \in Live', answers'[j].id = answers'[k].id
                 PROVE  j = k
      BY DEF AnsweredOnce
    <3>1. CASE j \in Live /\ k \in Live
      BY <2>1, <3>1 DEF AnsweredOnce
    <3>2. \A i \in Live : answers'[i].id \in Arrived
      BY <2>1 DEF Arrived
    <3>3. \A i \in n + 1 .. n + c : answers'[i].id \notin Arrived
      BY <2>2, <2>3, <2>7
    <3>4. CASE j \in n + 1 .. n + c /\ k \in n + 1 .. n + c
      <4>1. j - n = k - n
        BY <2>2, <2>7, <3>4
      <4> QED BY <2>1, <3>4, <4>1
    <3> QED BY <2>1, <3>1, <3>2, <3>3, <3>4
  <2> QED BY <2>8, <2>9
<1>2. CASE UNCHANGED <<answers, errors>> /\ past' = past
  BY <1>2, ArrivedStay DEF NoneFailed, AnsweredOnce
<1>3. CASE UNCHANGED <<answers, errors>> /\ past' = Len(answers)
  BY <1>3, NoneLive DEF NoneFailed, AnsweredOnce
<1> QED BY <1>1, <1>2, <1>3, ServerSteps

(* What was sent is of the same request in every step.                     *)
LEMMA OwnersStay ==
  ASSUME TypeOK, [Next]_vars
  PROVE  \A m \in Ids : owner'[m] = owner[m]
<1> USE DEF mainVars, sharedVars, idVars, sentVars, handVars, linkVars, serverVars
<1>1. ASSUME NEW r \in Requests, SendRequest(r) \/ Cancel(r) PROVE owner' = owner
  BY <1>1 DEF SendRequest, Cancel
<1>2. CASE MainSteps
  BY <1>2 DEF MainSteps, TryToReceive, CheckDelayed
<1>3. CASE SendContainer
  <2>1. PICK batch \in Batches : owner' = GiveIds(Renewed(batch, ~started)).owner
    BY <1>3 DEF SendContainer
  <2>2. Renewed(batch, ~started) \in SUBSET Requests
    BY DEF Batches, Renewed, TypeOK
  <2> QED BY <2>1, <2>2, GivenStay
<1>4. CASE SendAlone
  <2>1. owner' = GiveIds({alone}).owner /\ alone # 0
    BY <1>4 DEF SendAlone
  <2>2. {alone} \in SUBSET Requests
    BY <2>1 DEF TypeOK
  <2> QED BY <2>1, <2>2, GivenStay
<1>5. CASE SendNothing \/ TakeAlone \/ Resend \/ ResendMoved
  BY <1>5 DEF SendNothing, TakeAlone, Resend, ResendMoved
<1>6. ASSUME NEW due \in SUBSET haveSent, CheckSentRequests(due) PROVE owner' = owner
  BY <1>6 DEF CheckSentRequests
<1>7. CASE ClearOldContainer \/ Receive \/ ReceiveAck
  BY <1>7 DEF ClearOldContainer, Receive, ReceiveAnswer, ReceiveBad, ReceiveNewSession, ReceiveAck
<1>8. CASE ReceiveTooOld \/ Connected \/ Disconnected
  BY <1>8 DEF ReceiveTooOld, Connected, Disconnected
<1>9. CASE Serve \/ Refuse \/ Forget
  BY <1>9 DEF Serve, Refuse, Forget
<1>10. CASE UNCHANGED vars
  BY <1>10 DEF vars
<1> QED BY <1>1, <1>2, <1>3, <1>4, <1>5, <1>6, <1>7, <1>8, <1>9, <1>10
        DEF Next, TryToSend, HandSteps

(* A message to be sent again is only sent in a container.                 *)
LEMMA ForcedNext ==
  ASSUME TypeOK, ResendingIsForced, [Next]_vars
  PROVE  ResendingIsForced'
<1> USE DEF mainVars, sharedVars, idVars, sentVars, handVars, linkVars, serverVars
<1>o. /\ \A m \in Ids : owner'[m] = owner[m]
      /\ resending \subseteq Ids /\ moving \subseteq Ids
  BY OwnersStay DEF TypeOK
<1>s. ASSUME resending' \subseteq resending, forced' = forced PROVE ResendingIsForced'
  BY <1>o, <1>s DEF ResendingIsForced
<1>1. ASSUME NEW r \in Requests, SendRequest(r) \/ Cancel(r) PROVE ResendingIsForced'
  BY <1>1, <1>s DEF SendRequest, Cancel
<1>2. CASE MainSteps
  BY <1>2, <1>s DEF MainSteps, TryToReceive, CheckDelayed
<1>3. CASE SendContainer
  BY <1>3, <1>s DEF SendContainer
<1>4. CASE SendNothing \/ TakeAlone \/ SendAlone \/ Resend
  BY <1>4, <1>s DEF SendNothing, TakeAlone, SendAlone, Resend
<1>5. CASE ResendMoved
  BY <1>5, <1>o DEF ResendMoved, ResendingIsForced
<1>6. ASSUME NEW due \in SUBSET haveSent, CheckSentRequests(due) PROVE ResendingIsForced'
  BY <1>6, <1>s DEF CheckSentRequests
<1>7. CASE ClearOldContainer \/ ReceiveBad \/ ReceiveNewSession
  BY <1>7, <1>s DEF ClearOldContainer, ReceiveBad, ReceiveNewSession
<1>8. CASE ReceiveAnswer
  <2>1. PICK m : resending' = Acked({m}).resending
    BY <1>8 DEF ReceiveAnswer
  <2> QED BY <1>8, <2>1, <1>s, AckedTypes DEF ReceiveAnswer
<1>9. CASE ReceiveAck
  <2>1. PICK ids : resending' = Acked(ids).resending
    BY <1>9 DEF ReceiveAck, RequestsAcked
  <2> QED BY <1>9, <2>1, <1>s, AckedTypes DEF ReceiveAck
<1>10. CASE ReceiveTooOld \/ Connected \/ Disconnected
  BY <1>10, <1>s DEF ReceiveTooOld, Connected, Disconnected
<1>11. CASE Serve \/ Refuse \/ Forget
  BY <1>11, <1>s DEF Serve, Refuse, Forget
<1>12. CASE UNCHANGED vars
  BY <1>12, <1>s DEF vars
<1> QED BY <1>1, <1>2, <1>3, <1>4, <1>5, <1>6, <1>7, <1>8, <1>9, <1>10, <1>11, <1>12
        DEF Next, TryToSend, HandSteps, Receive


(* What resend() has in its hands is not in haveSent any more.             *)
LEMMA HandsApartNext ==
  ASSUME TypeOK, SentByOneId, HandsApart, [Next]_vars
  PROVE  HandsApart'
<1> USE DEF mainVars, sharedVars, idVars, sentVars, handVars, linkVars, serverVars
<1>s. ASSUME haveSent' \subseteq haveSent, moving' = moving PROVE HandsApart'
  BY <1>s DEF HandsApart
<1>1. ASSUME NEW r \in Requests, SendRequest(r) \/ Cancel(r) PROVE HandsApart'
  BY <1>1, <1>s DEF SendRequest, Cancel
<1>2. CASE MainSteps
  BY <1>2, <1>s DEF MainSteps, TryToReceive, CheckDelayed
<1>3. CASE SendContainer
  BY <1>3 DEF SendContainer, Idle, HandsApart
<1>4. CASE SendAlone
  BY <1>4 DEF SendAlone, SentByOneId, AloneIsFirst, HandsApart
<1>5. CASE SendNothing \/ TakeAlone
  BY <1>5, <1>s DEF SendNothing, TakeAlone
<1>6. CASE Resend \/ ResendMoved
  BY <1>6 DEF Resend, ResendMoved, HandsApart
<1>7. ASSUME NEW due \in SUBSET haveSent, CheckSentRequests(due) PROVE HandsApart'
  BY <1>7, <1>s DEF CheckSentRequests
<1>8. CASE ClearOldContainer \/ ReceiveBad \/ ReceiveNewSession
  BY <1>8, <1>s DEF ClearOldContainer, ReceiveBad, ReceiveNewSession
<1>9. CASE ReceiveAnswer
  <2>1. PICK m : haveSent' = Acked({m}).haveSent
    BY <1>9 DEF ReceiveAnswer
  <2> QED BY <1>9, <2>1, <1>s, AckedTypes DEF ReceiveAnswer
<1>10. CASE ReceiveAck
  <2>1. PICK ids : haveSent' = Acked(ids).haveSent
    BY <1>10 DEF ReceiveAck, RequestsAcked
  <2> QED BY <1>10, <2>1, <1>s, AckedTypes DEF ReceiveAck
<1>11. CASE Connected
  BY <1>11 DEF Connected, HandsApart
<1>12. CASE ReceiveTooOld \/ Disconnected
  BY <1>12, <1>s DEF ReceiveTooOld, Disconnected
<1>13. CASE Serve \/ Refuse \/ Forget
  BY <1>13, <1>s DEF Serve, Refuse, Forget
<1>14. CASE UNCHANGED vars
  BY <1>14, <1>s DEF vars
<1> QED BY <1>1, <1>2, <1>3, <1>4, <1>5, <1>6, <1>7, <1>8, <1>9, <1>10, <1>11, <1>12, <1>13,
           <1>14
        DEF Next, TryToSend, HandSteps, Receive

(* What may still fail was sent, in a session that started.                *)
LEMMA MayFailIsSent ==
  ASSUME TypeOK, OneId, NEW m \in MayFail
  PROVE  /\ m \in Ids /\ m # 0 /\ owner[m] \in Requests /\ started
         /\ owner[m] \in Repeated \/ msgId[owner[m]] = m
<1>1. m \in Coming \/ m \in Arrived
  <2>1. CASE m \in {answers[k].id : k \in {j \in Unheard : ~answers[j].ok}}
    BY <2>1 DEF Unheard, Arrived
  <2>2. CASE m \notin {answers[k].id : k \in {j \in Unheard : ~answers[j].ok}}
    BY <2>2 DEF MayFail
  <2> QED BY <2>1, <2>2
<1>2. m \in (UNION {up[k].msgs : k \in DOMAIN up}) \cup Arrived
  BY <1>1 DEF Coming
<1>3. m \in Ids
  BY <1>2, PacketsAreTyped, ArrivedAreIds
<1>4. m # 0 /\ owner[m] \in Requests
  BY <1>3 DEF TypeOK, Ids
<1> QED BY <1>2, <1>3, <1>4 DEF OneId

(* The msg_id of a request is of no other.                                 *)
LEMMA MsgIdOfOne ==
  ASSUME TypeOK, MsgIdIsOurs, NEW r \in Requests, msgId[r] \in resending \cup haveSent
  PROVE  owner[msgId[r]] = r /\ msgId[r] \in Ids /\ msgId[r] # 0
<1>1. msgId[r] \in Ids /\ msgId[r] # 0
  BY DEF TypeOK, Ids
<1> QED BY <1>1 DEF MsgIdIsOurs

(* Steps that give no ids, and only take things away from their places.    *)
LEMMA TakingStep ==
  ASSUME TypeOK, SentByOneId, InOnePlace,
         UNCHANGED <<owner, msgId, alone>>,
         \A r \in Requests : Open(r)' => Open(r),
         (haveSent' \cup moving') \subseteq (haveSent \cup moving),
         toSend' \subseteq toSend, resending' \subseteq resending,
         \A r \in toSend \ toSend' : ~(Open(r)') \/ \A m \in resending' : owner[m] # r,
         \A m \in resending \ resending' : ~(Open(owner[m])') \/ owner[m] \notin toSend'
  PROVE  /\ AtMostOnce' /\ SentByMsgId' /\ ResentByMsgId' /\ QueuedIsResending' /\ AloneIsNew'
         /\ \A r \in Requests : Held(r)' => Held(r)
<1>i. /\ AtMostOnce /\ SentByMsgId /\ ResentByMsgId /\ QueuedIsResending /\ AloneIsNew
      /\ MsgIdIsOurs
  BY DEF InOnePlace, SentByOneId
<1>t. /\ toSend \subseteq Requests /\ alone \in Requests \cup {0}
      /\ \A m \in resending : owner[m] \in Requests
  <2>1. resending \subseteq Ids /\ \A m \in Ids : owner[m] \in Requests
    BY DEF TypeOK, Ids
  <2> QED BY <2>1 DEF TypeOK
<1>1. AtMostOnce'
  BY <1>i DEF AtMostOnce
<1>2. SentByMsgId'
  BY <1>i DEF SentByMsgId
<1>3. ResentByMsgId'
  <2> SUFFICES ASSUME NEW m \in resending', Open(owner[m])'
               PROVE  owner[m] \in toSend' /\ msgId[owner[m]] = m
    BY DEF ResentByMsgId, Open
  <2>1. m \in resending /\ Open(owner[m])
    BY <1>t
  <2>2. owner[m] \in toSend /\ msgId[owner[m]] = m
    BY <2>1, <1>i DEF ResentByMsgId
  <2> QED BY <2>2
<1>4. QueuedIsResending'
  <2> SUFFICES ASSUME NEW r \in toSend', Open(r)', msgId[r] # 0
               PROVE  msgId[r] \in resending'
    BY DEF QueuedIsResending, Open
  <2>1. r \in toSend /\ r \in Requests /\ Open(r)
    BY <1>t
  <2>2. msgId[r] \in resending
    BY <2>1, <1>i DEF QueuedIsResending
  <2>3. owner[msgId[r]] = r
    BY <2>1, <2>2, <1>i, MsgIdOfOne
  <2> QED BY <2>2, <2>3
<1>5. AloneIsNew'
  BY <1>i, <1>t DEF AloneIsNew, Open
<1>6. \A r \in Requests : Held(r)' => Held(r)
  BY DEF Held
<1> QED BY <1>1, <1>2, <1>3, <1>4, <1>5, <1>6

(* If nothing more is to be repeated, either, what is stays nowhere, and   *)
(* may not fail once more.                                                 *)
LEMMA QuietFailures ==
  ASSUME TypeOK, OneId, InOnePlace, MayFail' \subseteq MayFail,
         UNCHANGED <<owner, msgId>>,
         \A r \in Requests : Open(r)' => Open(r),
         \A r \in Requests : Held(r)' => Held(r),
         delayed' \subseteq delayed, received' \subseteq received
  PROVE  FailedIsNowhere' /\ OneFailure'
<1>1. \A r : Failing(r)' => Failing(r)
  BY DEF Failing, Refused
<1>2. FailedIsNowhere'
  <2> SUFFICES ASSUME NEW r \in Requests, Open(r)', Failing(r)'
               PROVE  ~(Held(r)') /\ ~(r \in delayed' /\ Refused(r) \in received')
    BY DEF FailedIsNowhere, Refused
  <2>1. ~Held(r) /\ ~(r \in delayed /\ Refused(r) \in received)
    BY <1>1 DEF InOnePlace, FailedIsNowhere
  <2> QED BY <2>1
<1>3. OneFailure'
  <2> SUFFICES ASSUME NEW m \in MayFail', Open(owner[m])'
               PROVE  msgId[owner[m]] = m /\ ~(Failing(owner[m])')
    BY DEF OneFailure, Open, Failing, Refused
  <2>1. m \in MayFail /\ owner[m] \in Requests
    BY MayFailIsSent
  <2>2. msgId[owner[m]] = m /\ ~Failing(owner[m])
    BY <2>1 DEF InOnePlace, OneFailure
  <2> QED BY <1>1, <2>2
<1> QED BY <1>2, <1>3

(* Nothing may fail that could not, as long as nothing else is sent or     *)
(* answered.                                                               *)
LEMMA MayFailStays ==
  ASSUME UNCHANGED <<answers, past, seen, up>>
  PROVE  MayFail' = MayFail
<1>1. Live' = Live /\ Arrived' = Arrived
  BY ArrivedStay
<1>2. Unheard' = Unheard
  BY <1>1 DEF Unheard, TooOld
<1>3. Coming' = Coming
  BY <1>1 DEF Coming
<1> QED BY <1>2, <1>3 DEF MayFail

(* Nor when a server forgets, or loses what was on its way.                *)
LEMMA MayFailLess ==
  ASSUME TypeOK,
         answers' = answers,
         \A k \in DOMAIN up' : \E j \in DOMAIN up : up'[k] = up[j],
         (past' = past /\ seen' = seen) \/ past' = Len(answers)
  PROVE  MayFail' \subseteq MayFail
<1>c. UNION {up'[k].msgs : k \in DOMAIN up'} \subseteq UNION {up[k].msgs : k \in DOMAIN up}
  OBVIOUS
<1>1. CASE past' = past /\ seen' = seen
  <2>1. Live' = Live /\ Arrived' = Arrived
    BY <1>1, ArrivedStay
  <2>2. Unheard' = Unheard
    BY <1>1, <2>1 DEF Unheard, TooOld
  <2>3. Coming' \subseteq Coming
    BY <1>c, <2>1 DEF Coming
  <2> QED BY <1>1, <2>2, <2>3 DEF MayFail
<1>2. CASE past' = Len(answers)
  <2>1. Live' = {} /\ Arrived' = {}
    BY <1>2, NoneLive
  <2>2. Unheard' = {}
    BY <2>1 DEF Unheard
  <2>3. past' = 0 => past = 0 /\ Arrived = {}
    <3>1. past \in 0 .. Len(answers) /\ Len(answers) \in Nat
      BY DEF TypeOK
    <3>2. past' = 0 => past = 0 /\ Live = {}
      BY <1>2, <3>1 DEF Live
    <3> QED BY <3>2 DEF Arrived
  <2>4. past' = 0 => Coming' \subseteq Coming
    BY <1>c, <2>3 DEF Coming
  <2> QED BY <2>2, <2>3, <2>4 DEF MayFail
<1> QED BY <1>1, <1>2


(* A packet that is sent comes after all that is on its way.               *)
LEMMA AppendedLast ==
  ASSUME NEW S, NEW s \in Seq(S), NEW e
  PROVE  /\ DOMAIN Append(s, e) = 1 .. Len(s) + 1 /\ DOMAIN s = 1 .. Len(s) /\ Len(s) \in Nat
         /\ \A k \in 1 .. Len(s) : Append(s, e)[k] = s[k]
         /\ Append(s, e)[Len(s) + 1] = e
OBVIOUS

(* Steps that give ids and send: each request that is taken is sent by the *)
(* id it has from then on.                                                 *)
LEMMA TakenAreSent ==
  ASSUME TypeOK, SentByOneId, InOnePlace,
         NEW taken \in SUBSET Requests, NEW new \in SUBSET taken, NEW ids, NEW single,
         ids = {msgId'[r] : r \in taken},
         owner' = GiveIds(new).owner, msgId' = GiveIds(new).ids,
         \A r \in taken : r \in toSend \/ r = alone,
         \A r \in taken : msgId'[r] \in Ids' /\ owner'[msgId'[r]] = r,
         \A r \in new : msgId[r] = 0 \/ ~started \/ ~Open(r),
         moving = {}, moving' = {}, alone' = 0, toSend' = toSend \ taken,
         haveSent' = RenamedIn(GiveIds(new), haveSent) \cup ids,
         resending' = resending \ {msgId[r] : r \in taken},
         up' = Append(up, Packet(ids, single)),
         UNCHANGED <<call, delayed, received, answers, past, seen>>
  PROVE  InOnePlace'
<1>i. /\ AtMostOnce /\ SentByMsgId /\ ResentByMsgId /\ QueuedIsResending /\ FailedIsNowhere
      /\ OneFailure /\ MsgIdIsOurs /\ OneId
  BY DEF InOnePlace, SentByOneId
<1>t. /\ toSend \subseteq Requests /\ 0 \notin Requests /\ haveSent \subseteq Ids
      /\ resending \subseteq Ids /\ 0 \notin Ids
      /\ \A m \in Ids : owner[m] \in Requests
      /\ new \subseteq Requests
  <2>1. 0 \notin Requests
    BY SessionAssumption
  <2>2. 0 \notin Ids /\ \A m \in Ids : owner[m] \in Requests
    BY DEF TypeOK, Ids
  <2>3. toSend \subseteq Requests /\ haveSent \subseteq Ids /\ resending \subseteq Ids
    BY DEF TypeOK
  <2> QED BY <2>1, <2>2, <2>3
<1>o. \A m \in Ids : owner'[m] = owner[m]
  BY <1>t, GivenStay
<1>n. \A r \in Requests \ new : msgId'[r] = msgId[r]
  BY <1>t, IdsAreGiven
<1>1. \A m \in haveSent : owner[m] \notin taken
  BY <1>i DEF AtMostOnce
<1>2. haveSent' = haveSent \cup ids
  <2>1. ASSUME NEW m \in haveSent
        PROVE  GiveIds(new).Renamed[m] = m
    <3>1. m \in Ids /\ m # 0
      BY <1>t
    <3>2. ~\E r \in new : msgId[r] = m
      BY <1>1, <1>i, <1>t, <3>1 DEF MsgIdIsOurs
    <3> QED BY <3>1, <3>2 DEF GiveIds
  <2>2. RenamedIn(GiveIds(new), haveSent) = haveSent
    BY <2>1 DEF RenamedIn
  <2> QED BY <2>2
<1>3. \A m \in ids : owner'[m] \in taken /\ msgId'[owner'[m]] = m
  OBVIOUS
<1>4. \A m \in haveSent : owner'[m] = owner[m] /\ owner'[m] \notin taken
                          /\ msgId'[owner'[m]] = m
  <2> SUFFICES ASSUME NEW m \in haveSent
               PROVE  owner'[m] = owner[m] /\ owner[m] \notin taken /\ msgId'[owner[m]] = m
    OBVIOUS
  <2>1. owner'[m] = owner[m] /\ owner[m] \notin taken /\ owner[m] \in Requests
    BY <1>1, <1>o, <1>t
  <2>2. msgId[owner[m]] = m
    BY <1>i DEF SentByMsgId
  <2> QED BY <2>1, <2>2, <1>n
<1>5. SentByMsgId'
  BY <1>2, <1>3, <1>4 DEF SentByMsgId
<1>6. AtMostOnce'
  <2>1. \A m, n \in haveSent' : owner'[m] = owner'[n] => m = n
    BY <1>2, <1>3, <1>4
  <2>2. \A m \in haveSent' : owner'[m] \notin toSend' /\ owner'[m] # 0
    BY <1>2, <1>3, <1>4, <1>i, <1>t DEF AtMostOnce
  <2> QED BY <2>1, <2>2, <1>t DEF AtMostOnce
<1>7. ResentByMsgId'
  <2> SUFFICES ASSUME NEW m \in resending', Open(owner'[m])
               PROVE  owner'[m] \in toSend' /\ msgId'[owner'[m]] = m
    BY DEF ResentByMsgId, Open
  <2>1. m \in resending /\ m \in Ids /\ owner'[m] = owner[m] /\ owner[m] \in Requests
    BY <1>o, <1>t
  <2>2. owner[m] \in toSend /\ msgId[owner[m]] = m
    BY <2>1, <1>i DEF ResentByMsgId
  <2>3. owner[m] \notin taken
    BY <2>2
  <2> QED BY <2>1, <2>2, <2>3, <1>n
<1>8. QueuedIsResending'
  <2> SUFFICES ASSUME NEW r \in toSend', Open(r), msgId'[r] # 0
               PROVE  msgId'[r] \in resending'
    BY DEF QueuedIsResending, Open
  <2>1. r \in toSend /\ r \in Requests /\ r \notin taken /\ msgId'[r] = msgId[r]
    BY <1>t, <1>n
  <2>2. msgId[r] \in resending
    BY <2>1, <1>i DEF QueuedIsResending
  <2>3. owner[msgId[r]] = r /\ msgId[r] # 0
    BY <2>1, <2>2, <1>i, MsgIdOfOne
  <2>4. \A x \in taken : msgId[x] # msgId[r]
    BY <2>1, <2>3, <1>i DEF MsgIdIsOurs
  <2> QED BY <2>1, <2>2, <2>4
<1>9. AloneIsNew'
  BY DEF AloneIsNew
<1>10. \A r \in taken : Held(r)
  BY DEF Held
<1>11. FailedIsNowhere'
  <2> SUFFICES ASSUME NEW r \in Requests, Open(r), Failing(r)
               PROVE  ~(Held(r)') /\ ~(r \in delayed /\ Refused(r) \in received)
    BY DEF FailedIsNowhere, Failing, Refused, Open
  <2>1. ~Held(r) /\ ~(r \in delayed /\ Refused(r) \in received)
    BY <1>i DEF FailedIsNowhere
  <2>2. r \notin taken /\ r \notin toSend /\ \A m \in haveSent : owner[m] # r
    BY <2>1, <1>10 DEF Held
  <2>3. \A m \in haveSent' : owner'[m] # r
    BY <2>2, <1>2, <1>3, <1>4
  <2> QED BY <2>1, <2>2, <2>3, <1>t DEF Held
<1>12. MayFail' \subseteq MayFail \cup ids
  <2>1. Live' = Live /\ Arrived' = Arrived
    BY ArrivedStay
  <2>2. Unheard' = Unheard
    BY <2>1 DEF Unheard, TooOld
  <2>3. UNION {up'[k].msgs : k \in DOMAIN up'}
          \subseteq (UNION {up[k].msgs : k \in DOMAIN up}) \cup ids
    <3> DEFINE A == [msgs : SUBSET Ids, single : BOOLEAN]
    <3>1. up \in Seq(A)
      BY DEF TypeOK
    <3> HIDE DEF A
    <3>2. /\ DOMAIN up' = 1 .. Len(up) + 1 /\ DOMAIN up = 1 .. Len(up) /\ Len(up) \in Nat
          /\ \A k \in 1 .. Len(up) : up'[k] = up[k]
          /\ up'[Len(up) + 1] = Packet(ids, single)
      <4> DEFINE e == Packet(ids, single)
      <4>1. up' = Append(up, e)
        OBVIOUS
      <4> HIDE DEF e
      <4>2. /\ DOMAIN Append(up, e) = 1 .. Len(up) + 1
            /\ DOMAIN up = 1 .. Len(up) /\ Len(up) \in Nat
            /\ \A k \in 1 .. Len(up) : Append(up, e)[k] = up[k]
            /\ Append(up, e)[Len(up) + 1] = e
        BY <3>1, AppendedLast
      <4> QED BY <4>1, <4>2 DEF e
    <3>3. \A k \in 1 .. Len(up) + 1 : k \in 1 .. Len(up) \/ k = Len(up) + 1
      BY <3>2
    <3>4. Packet(ids, single).msgs = ids
      BY DEF Packet
    <3>5. \A k \in DOMAIN up' : (k \in DOMAIN up /\ up'[k].msgs = up[k].msgs) \/ up'[k].msgs = ids
      BY <3>2, <3>3, <3>4
    <3> QED BY <3>5
  <2>4. Coming' \subseteq Coming \cup ids
    BY <2>1, <2>3 DEF Coming
  <2> QED BY <2>2, <2>4 DEF MayFail
<1>13. OneFailure'
  <2> SUFFICES ASSUME NEW m \in MayFail', Open(owner'[m])
               PROVE  msgId'[owner'[m]] = m /\ ~Failing(owner'[m])
    BY DEF OneFailure, Open, Failing, Refused
  <2>1. CASE m \in ids
    <3>1. owner'[m] \in taken /\ msgId'[owner'[m]] = m
      BY <2>1, <1>3
    <3>2. ~Failing(owner'[m])
      BY <3>1, <1>10, <1>i DEF FailedIsNowhere
    <3> QED BY <3>1, <3>2
  <2>2. CASE m \notin ids
    <3>1. m \in MayFail
      BY <2>2, <1>12
    <3>2. m \in Ids /\ m # 0 /\ owner[m] \in Requests /\ started
      BY <3>1, <1>i, MayFailIsSent
    <3>3. owner'[m] = owner[m]
      BY <3>2, <1>o
    <3>4. msgId[owner[m]] = m /\ ~Failing(owner[m])
      BY <2>2, <3>1, <3>3, <1>i DEF OneFailure
    <3>5. owner[m] \notin new
      BY <2>2, <3>2, <3>3, <3>4
    <3> QED BY <3>2, <3>3, <3>4, <3>5, <1>n
  <2> QED BY <2>1, <2>2
<1> QED BY <1>5, <1>6, <1>7, <1>8, <1>9, <1>11, <1>13 DEF InOnePlace

(* An answer that says that a request has to be repeated finds it sent, or *)
(* to be sent again, as what it answers, and calls that off.               *)
LEMMA AnswerCallsOff ==
  ASSUME TypeOK, SentByOneId, InOnePlace, AnsweredOnce, ReceiveAnswer
  PROVE  InOnePlace'
<1> USE DEF mainVars, sharedVars, idVars, sentVars, handVars, linkVars, serverVars
<1>1. PICK k \in Live \ seen :
        LET m == answers[k].id
            result == Acked({m})
        IN
        /\ ~TooOld(k)
        /\ seen' = Shrink(seen \cup {k})
        /\ haveSent' = result.haveSent /\ resending' = result.resending
        /\ toSend' = result.toSend
        /\ received' \in {received,
                          received \cup {[request |-> owner[m], ok |-> answers[k].ok]}}
  BY DEF ReceiveAnswer
<1>m. PICK m : m = answers[k].id
  OBVIOUS
<1>s. PICK s : s = owner[m]
  OBVIOUS
<1>2. /\ UNCHANGED <<call, delayed, owner, msgId, moving, alone, answers, past, up>>
      /\ moving = {} /\ alone = 0
  BY DEF ReceiveAnswer, Idle
<1>3. /\ haveSent' = haveSent \ {m}
      /\ resending' = IF m \in haveSent THEN resending ELSE resending \ {m}
      /\ toSend' = IF m \in resending /\ m \notin haveSent THEN toSend \ {s} ELSE toSend
  <2>1. /\ haveSent' = haveSent \ ({m} \cap haveSent)
        /\ resending' = resending \ (({m} \ haveSent) \cap resending)
        /\ toSend' = toSend \ {owner[n] : n \in ({m} \ haveSent) \cap resending}
    BY <1>1, <1>m DEF Acked
  <2> QED BY <2>1, <1>s
<1>4. k \in Unheard /\ k \in 1 .. Len(answers) /\ m \in Ids /\ s \in Requests
      /\ answers[k].ok \in BOOLEAN /\ k \in Live
  BY <1>1, <1>m, <1>s, AnswersAreTyped DEF Unheard
<1>5. received' \subseteq received \cup {[request |-> s, ok |-> answers[k].ok]}
  BY <1>1, <1>m, <1>s
<1>6. seen' = Shrink(seen \cup {k})
  BY <1>1
<1>7. Unheard' \subseteq Unheard \ {k}
  BY <1>2, <1>4, <1>6, HeardOnce
<1>i. /\ AtMostOnce /\ SentByMsgId /\ ResentByMsgId /\ QueuedIsResending /\ FailedIsNowhere
      /\ OneFailure /\ MsgIdIsOurs /\ OneId
  BY DEF InOnePlace, SentByOneId
<1>t. /\ toSend \subseteq Requests /\ 0 \notin Requests
      /\ resending \subseteq Ids /\ \A n \in Ids : owner[n] \in Requests
  BY SessionAssumption DEF TypeOK, Ids
<1>8. MayFail' \subseteq MayFail
  <2>1. Arrived' = Arrived
    BY <1>2, ArrivedStay
  <2>2. Coming' = Coming
    BY <1>2, <2>1 DEF Coming
  <2> QED BY <1>2, <1>7, <2>2 DEF MayFail
<1>9. /\ m \in Arrived /\ (~answers[k].ok => m \in MayFail)
      /\ m \notin Coming /\ (~answers[k].ok => m \notin MayFail')
  <2>1. m \in Arrived
    BY <1>4, <1>m DEF Arrived
  <2>2. m \notin Coming /\ Arrived' = Arrived /\ Coming' = Coming
    <3>1. Arrived' = Arrived
      BY <1>2, ArrivedStay
    <3> QED BY <1>2, <2>1, <3>1 DEF Coming
  <2>3. ~answers[k].ok => m \in MayFail
    BY <1>4, <1>m DEF MayFail
  <2>4. \A j \in Unheard' : answers'[j].id # m
    BY <1>2, <1>4, <1>7, <1>m DEF AnsweredOnce, Unheard
  <2> QED BY <1>2, <2>1, <2>2, <2>3, <2>4 DEF MayFail
<1>10. m \in resending /\ m \notin haveSent =>
         \A n \in resending' : Open(owner[n]) => owner[n] # s
  <2> SUFFICES ASSUME m \in resending, m \notin haveSent, NEW n \in resending', Open(owner[n]),
                      owner[n] = s
               PROVE  FALSE
    OBVIOUS
  <2>1. msgId[s] = m /\ msgId[s] = n
    BY <1>3, <1>i, <1>s DEF ResentByMsgId
  <2> QED BY <1>3, <2>1
<1>11. \A r \in Requests : Open(r)' => Open(r)
  BY <1>2 DEF Open
<1>12. /\ (haveSent' \cup moving') \subseteq (haveSent \cup moving)
       /\ toSend' \subseteq toSend /\ resending' \subseteq resending
  BY <1>2, <1>3
<1>13. \A r \in toSend \ toSend' : ~(Open(r)') \/ \A n \in resending' : owner[n] # r
  BY <1>3, <1>10, <1>2 DEF Open
<1>14. \A n \in resending \ resending' : ~(Open(owner[n])') \/ owner[n] \notin toSend'
  BY <1>3, <1>s
<1>15. /\ AtMostOnce' /\ SentByMsgId' /\ ResentByMsgId' /\ QueuedIsResending' /\ AloneIsNew'
       /\ \A r \in Requests : Held(r)' => Held(r)
  BY <1>2, <1>11, <1>12, <1>13, <1>14, TakingStep
<1>16. CASE received' \subseteq received \/ answers[k].ok \/ ~Open(s)
  <2>1. \A r \in Requests : Open(r) /\ Failing(r)' => Failing(r)
                              /\ (Refused(r) \in received' => Refused(r) \in received)
    <3> SUFFICES ASSUME NEW r \in Requests, Open(r), Refused(r) \in received'
                 PROVE  Refused(r) \in received
      BY <1>2 DEF Failing, Refused
    <3>1. Refused(r) \in received \/ Refused(r) = [request |-> s, ok |-> answers[k].ok]
      BY <1>5
    <3>2. Refused(r) = [request |-> s, ok |-> answers[k].ok] => r = s /\ ~answers[k].ok
      BY DEF Refused
    <3> QED BY <1>16, <3>1, <3>2
  <2>2. FailedIsNowhere'
    <3> SUFFICES ASSUME NEW r \in Requests, Open(r), Failing(r)'
                 PROVE  ~(Held(r)') /\ ~(r \in delayed /\ Refused(r) \in received')
      BY <1>2 DEF FailedIsNowhere, Refused, Open
    <3> QED BY <2>1, <1>15, <1>i DEF FailedIsNowhere
  <2>3. OneFailure'
    <3> SUFFICES ASSUME NEW n \in MayFail', Open(owner[n])
                 PROVE  msgId[owner[n]] = n /\ ~(Failing(owner[n])')
      BY <1>2 DEF OneFailure, Open, Failing, Refused
    <3>1. n \in MayFail /\ owner[n] \in Requests
      BY <1>8, <1>i, MayFailIsSent
    <3> QED BY <3>1, <2>1, <1>i, <1>2 DEF OneFailure, Failing, Refused
  <2> QED BY <1>15, <2>2, <2>3 DEF InOnePlace
<1>17. CASE ~answers[k].ok /\ Open(s)
  <2>1. msgId[s] = m /\ ~Failing(s)
    BY <1>9, <1>17, <1>i, <1>s DEF OneFailure
  <2>2. \A r \in Requests : r # s /\ Failing(r)' => Failing(r)
                              /\ (Refused(r) \in received' => Refused(r) \in received)
    <3> SUFFICES ASSUME NEW r \in Requests, r # s, Refused(r) \in received'
                 PROVE  Refused(r) \in received
      BY <1>2 DEF Failing, Refused
    <3>1. Refused(r) \in received \/ Refused(r) = [request |-> s, ok |-> answers[k].ok]
      BY <1>5
    <3>2. Refused(r) = [request |-> s, ok |-> answers[k].ok] => r = s
      BY DEF Refused
    <3> QED BY <3>1, <3>2
  <2>3. ~(Held(s)')
    <3>1. \A n \in haveSent' : owner[n] # s
      BY <2>1, <1>3, <1>i DEF SentByMsgId
    <3>2. s \notin toSend'
      <4> SUFFICES ASSUME s \in toSend PROVE m \in resending /\ m \notin haveSent
        BY <1>3
      <4>1. m \notin haveSent
        BY <1>i, <1>s DEF AtMostOnce
      <4>2. m # 0
        BY <1>4 DEF TypeOK, Ids
      <4>3. m \in resending
        BY <2>1, <4>2, <1>17, <1>i DEF QueuedIsResending
      <4> QED BY <4>1, <4>3
    <3>3. s # 0
      BY <1>4, <1>t
    <3> QED BY <3>1, <3>2, <3>3, <1>2 DEF Held
  <2>4. FailedIsNowhere'
    <3> SUFFICES ASSUME NEW r \in Requests, Open(r), Failing(r)'
                 PROVE  ~(Held(r)') /\ ~(r \in delayed /\ Refused(r) \in received')
      BY <1>2 DEF FailedIsNowhere, Refused, Open
    <3>1. CASE r = s
      BY <3>1, <2>1, <2>3 DEF Failing
    <3>2. CASE r # s
      BY <3>2, <2>2, <1>15, <1>i DEF FailedIsNowhere
    <3> QED BY <3>1, <3>2
  <2>5. OneFailure'
    <3> SUFFICES ASSUME NEW n \in MayFail', Open(owner[n])
                 PROVE  msgId[owner[n]] = n /\ ~(Failing(owner[n])')
      BY <1>2 DEF OneFailure, Open, Failing, Refused
    <3>1. n \in MayFail /\ owner[n] \in Requests /\ n # m
      BY <1>8, <1>9, <1>17, <1>i, MayFailIsSent
    <3>2. msgId[owner[n]] = n /\ ~Failing(owner[n])
      BY <3>1, <1>i DEF OneFailure
    <3>3. owner[n] # s
      BY <2>1, <3>1, <3>2
    <3> QED BY <3>1, <3>2, <3>3, <2>2, <1>2 DEF Failing, Refused
  <2> QED BY <1>15, <2>4, <2>5 DEF InOnePlace
<1> QED BY <1>16, <1>17


(* What a packet makes fail may fail, or was never sent before.            *)
LEMMA ServedMayFail ==
  ASSUME TypeOK, SentByOneId, InOnePlace, NoneFailed, RepeatedOnce', Serve
  PROVE  \A m \in MayFail' :
           Open(owner[m]) => msgId[owner[m]] = m /\ ~Failing(owner[m])
<1> DEFINE new == Head(up).msgs \ Arrived
           n == Len(answers)
           c == Cardinality(new)
<1>1. PICK failing \in SUBSET new :
        /\ new \in SUBSET Ids /\ n \in Nat /\ c \in Nat
        /\ errors' = errors + Cardinality(failing)
        /\ Live' = Live \cup (n + 1 .. n + c)
        /\ \A k \in Live : answers'[k] = answers[k]
        /\ \A k \in 1 .. c :
             answers'[n + k] = [id |-> InTurn(new, k), ok |-> InTurn(new, k) \notin failing]
        /\ Arrived' = Arrived \cup new
  BY Served
<1>2. \A k \in 1 .. c : InTurn(new, k) \in new
  BY <1>1, EachInTurn
<1>3. /\ up # <<>> /\ up' = Tail(up)
      /\ UNCHANGED <<owner, msgId, call, delayed, received, seen, past>>
  BY DEF Serve, idVars, mainVars, sharedVars, linkVars
<1>4. PICK first \in DOMAIN up : Head(up) = up[first]
  BY <1>3, RestOfPackets
<1>5. /\ new \subseteq Coming /\ Coming' \subseteq Coming
  <2>1. \A k \in DOMAIN up' : \E j \in DOMAIN up : up'[k] = up[j]
    BY <1>3, RestOfPackets
  <2>2. new \subseteq UNION {up[k].msgs : k \in DOMAIN up}
    BY <1>4
  <2>3. UNION {up'[k].msgs : k \in DOMAIN up'} \subseteq UNION {up[k].msgs : k \in DOMAIN up}
    BY <2>1
  <2>4. Coming' \subseteq Coming
    BY <1>1, <2>3 DEF Coming
  <2> QED BY <2>2, <2>4 DEF Coming
<1>6. failing \in SUBSET Ids /\ IsFiniteSet(failing) /\ Cardinality(failing) \in Nat
  BY <1>1, IdsAreFinite, FS_CardinalityType
<1> HIDE DEF new, n, c
<1>7. ASSUME NEW k \in Unheard', ~answers'[k].ok
      PROVE  answers'[k].id \in failing
             \/ answers'[k].id \in {answers[j].id : j \in {i \in Unheard : ~answers[i].ok}}
  <2>1. k \in Live' /\ k \notin seen /\ ~TooOld(k)
    BY <1>3 DEF Unheard, TooOld
  <2>2. CASE k \in Live
    <3>1. k \in Unheard /\ answers'[k] = answers[k]
      BY <1>1, <2>1, <2>2 DEF Unheard
    <3> QED BY <1>7, <3>1
  <2>3. CASE k \in n + 1 .. n + c
    <3>1. k - n \in 1 .. c /\ k = n + (k - n)
      BY <1>1, <2>3
    <3>2. answers'[n + (k - n)] = [id |-> InTurn(new, k - n),
                                   ok |-> InTurn(new, k - n) \notin failing]
      BY <1>1, <3>1
    <3>3. answers'[k].id = InTurn(new, k - n)
          /\ answers'[k].ok = (InTurn(new, k - n) \notin failing)
      BY <3>1, <3>2
    <3> QED BY <1>7, <3>3
  <2> QED BY <1>1, <2>1, <2>2, <2>3
<1>8. \A m \in MayFail' : m \in MayFail \/ m \in failing
  BY <1>3, <1>5, <1>7 DEF MayFail
<1>9. \A m \in MayFail : Open(owner[m]) => msgId[owner[m]] = m /\ ~Failing(owner[m])
  BY DEF InOnePlace, OneFailure
<1>10. CASE past = 0
  <2>1. failing \subseteq MayFail
    BY <1>1, <1>5, <1>10 DEF MayFail
  <2> QED BY <1>8, <1>9, <2>1
<1>11. CASE past # 0
  <2>1. errors' <= 1 /\ errors \in Nat
    BY <1>3, <1>11 DEF RepeatedOnce, TypeOK
  <2>2. CASE failing = {}
    BY <1>8, <1>9, <2>2
  <2>3. CASE failing # {}
    <3>1. Cardinality(failing) # 0
      BY <2>3, <1>6, FS_EmptySet
    <3>2. errors = 0
      BY <1>1, <1>6, <2>1, <3>1
    <3>3. \A k \in DOMAIN answers : answers[k].ok
      BY <3>2 DEF NoneFailed
    <3>4. \A o \in Outcomes : o.ok
      BY <3>3 DEF Outcomes
    <3>5. Repeated = {}
      BY <3>4 DEF Repeated
    <3>6. \A r : ~Failing(r)
      <4>1. \A r : Refused(r) \notin Outcomes
        BY <3>5, RepeatedIs DEF Refused
      <4> QED BY <3>5, <4>1 DEF Failing, SentByOneId, ReceivedWereGiven, DelayedIsRepeated
    <3>7. \A m \in failing : msgId[owner[m]] = m
      <4>1. \A m \in failing : m \in UNION {up[k].msgs : k \in DOMAIN up}
        BY <1>1, <1>5 DEF Coming
      <4> QED BY <3>5, <4>1 DEF SentByOneId, OneId
    <3> QED BY <1>8, <1>9, <3>6, <3>7
  <2> QED BY <2>2, <2>3
<1> QED BY <1>10, <1>11

(* Each step keeps a request in one place.                                 *)
LEMMA InOnePlaceNext ==
  ASSUME TypeOK, SentByOneId, HandsApart, NoneFailed, AnsweredOnce, ResendingIsForced,
         InOnePlace, RepeatedOnce', [Next]_vars
  PROVE  InOnePlace'
<1> USE DEF mainVars, sharedVars, idVars, sentVars, handVars, linkVars, serverVars
<1>i. /\ AtMostOnce /\ SentByMsgId /\ ResentByMsgId /\ QueuedIsResending /\ AloneIsNew
      /\ FailedIsNowhere /\ OneFailure
      /\ MsgIdIsOurs /\ NewIsNowhere /\ AloneIsFirst /\ OneId /\ ReceivedWereGiven
  BY DEF InOnePlace, SentByOneId
<1>t. /\ toSend \subseteq Requests /\ 0 \notin Requests /\ haveSent \subseteq Ids
      /\ moving \subseteq Ids /\ resending \subseteq Ids /\ delayed \subseteq Requests
      /\ \A m \in Ids : owner[m] \in Requests /\ m # 0
      /\ alone \in Requests \cup {0} /\ msgId \in [Requests -> Ids \cup {0}]
  <2>1. 0 \notin Requests
    BY SessionAssumption
  <2>2. \A m \in Ids : owner[m] \in Requests /\ m # 0
    BY DEF TypeOK, Ids
  <2> QED BY <2>1, <2>2 DEF TypeOK
(* Steps that leave the places alone.                                      *)
<1>q. ASSUME UNCHANGED <<call, delayed, toSend, haveSent, received, owner, msgId, resending,
                         moving, alone>>,
             MayFail' \subseteq MayFail
      PROVE  InOnePlace'
  <2>1. /\ AtMostOnce' /\ SentByMsgId' /\ ResentByMsgId' /\ QueuedIsResending' /\ AloneIsNew'
        /\ \A r \in Requests : Held(r)' => Held(r)
    BY <1>q, TakingStep DEF Open
  <2>2. FailedIsNowhere' /\ OneFailure'
    BY <1>q, <1>i, <2>1, QuietFailures DEF Open
  <2> QED BY <2>1, <2>2 DEF InOnePlace
<1>f. UNCHANGED <<answers, past, seen, up>> => MayFail' \subseteq MayFail
  BY MayFailStays
<1>1. ASSUME NEW r \in Requests, SendRequest(r) PROVE InOnePlace'
  <2>1. /\ call[r] = "new" /\ call' = [call EXCEPT ![r] = "open"]
        /\ toSend' = toSend \cup {r} /\ msgId' = [msgId EXCEPT ![r] = 0]
        /\ UNCHANGED <<delayed, haveSent, received, owner, resending, moving, alone,
                       answers, past, seen, up>>
    BY <1>1 DEF SendRequest, SendPrepared
  <2>2. /\ r \notin toSend /\ r \notin delayed /\ r # alone /\ \A m \in Ids : owner[m] # r
    BY <2>1, <1>i DEF NewIsNowhere
  <2>3. \A x \in Requests : x # r => (Open(x)' <=> Open(x)) /\ msgId'[x] = msgId[x]
    BY <2>1 DEF Open, TypeOK
  <2>4. msgId'[r] = 0
    BY <2>1, <1>t
  <2>5. AtMostOnce' /\ SentByMsgId'
    BY <2>1, <2>2, <2>3, <1>i, <1>t DEF AtMostOnce, SentByMsgId
  <2>6. ResentByMsgId'
    <3>1. \A m \in resending : owner[m] # r /\ owner[m] \in Requests
      BY <2>2, <1>t
    <3> QED BY <2>1, <2>3, <3>1, <1>i DEF ResentByMsgId, Open
  <2>7. QueuedIsResending' /\ AloneIsNew'
    BY <2>1, <2>2, <2>3, <2>4, <1>i, <1>t DEF QueuedIsResending, AloneIsNew, Open
  <2>8. ~(Failing(r)')
    <3>1. Refused(r) \notin received
      <4> SUFFICES ASSUME Refused(r) \in Outcomes PROVE FALSE
        BY <1>i DEF ReceivedWereGiven
      <4>1. r \in Repeated
        BY RepeatedIs DEF Refused
      <4> QED BY <4>1, <2>2, RepeatedWasSent
    <3> QED BY <3>1, <2>1, <2>2 DEF Failing, Refused
  <2>9. FailedIsNowhere'
    <3> SUFFICES ASSUME NEW x \in Requests, Open(x)', Failing(x)'
                 PROVE  ~(Held(x)') /\ ~(x \in delayed' /\ Refused(x) \in received')
      BY DEF FailedIsNowhere, Refused
    <3>1. x # r /\ Failing(x) /\ Open(x)
      BY <2>1, <2>3, <2>8 DEF Failing, Refused
    <3>2. ~Held(x) /\ ~(x \in delayed /\ Refused(x) \in received)
      BY <3>1, <1>i DEF FailedIsNowhere
    <3> QED BY <2>1, <3>1, <3>2 DEF Held
  <2>10. OneFailure'
    <3> SUFFICES ASSUME NEW m \in MayFail', Open(owner[m])'
                 PROVE  msgId'[owner[m]] = m /\ ~(Failing(owner[m])')
      BY <2>1 DEF OneFailure, Open, Failing, Refused
    <3>1. m \in MayFail
      BY <2>1, <1>f
    <3>2. m \in Ids /\ owner[m] \in Requests /\ owner[m] # r
      BY <3>1, <1>i, <2>2, MayFailIsSent
    <3>3. Open(owner[m])
      BY <2>1, <2>3, <3>2 DEF Open
    <3>4. msgId[owner[m]] = m /\ ~Failing(owner[m])
      BY <3>1, <3>3, <1>i DEF OneFailure
    <3> QED BY <2>1, <2>3, <3>2, <3>4 DEF Failing, Refused
  <2> QED BY <2>5, <2>6, <2>7, <2>9, <2>10 DEF InOnePlace
<1>2. ASSUME NEW r \in Requests, Cancel(r) PROVE InOnePlace'
  <2>1. /\ call' = [call EXCEPT ![r] = "cancelled"]
        /\ toSend' = toSend \ {r} /\ haveSent' = haveSent \ {msgId[r]}
        /\ UNCHANGED <<delayed, received, owner, msgId, resending, moving, alone,
                       answers, past, seen, up>>
    BY <1>2 DEF Cancel
  <2>2. /\ \A x \in Requests : Open(x)' => Open(x) /\ x # r
        /\ \A x \in toSend \ toSend' : ~(Open(x)')
    BY <2>1 DEF Open, TypeOK
  <2>3. /\ AtMostOnce' /\ SentByMsgId' /\ ResentByMsgId' /\ QueuedIsResending' /\ AloneIsNew'
        /\ \A x \in Requests : Held(x)' => Held(x)
    BY <2>1, <2>2, TakingStep
  <2>4. FailedIsNowhere' /\ OneFailure'
    BY <2>1, <2>2, <2>3, <1>i, <1>f, QuietFailures
  <2> QED BY <2>3, <2>4 DEF InOnePlace
<1>3. CASE TryToReceive
  <2>1. PICK m \in received :
          /\ received' = received \ {m}
          /\ IF call[m.request] # "open"
             THEN UNCHANGED <<call, delayed>>
             ELSE IF m.ok
             THEN call' = [call EXCEPT ![m.request] = "answered"] /\ UNCHANGED delayed
             ELSE delayed' = delayed \cup {m.request} /\ UNCHANGED call
    BY <1>3 DEF TryToReceive
  <2>2. UNCHANGED <<toSend, haveSent, owner, msgId, resending, moving, alone,
                    answers, past, seen, up>>
    BY <1>3 DEF TryToReceive
  <2>3. m.request \in Requests /\ m \in [request : Requests, ok : BOOLEAN]
    BY DEF TypeOK
  <2>4. \A x \in Requests : Open(x)' => Open(x)
    BY <2>1, <2>3 DEF Open, TypeOK
  <2>5. /\ AtMostOnce' /\ SentByMsgId' /\ ResentByMsgId' /\ QueuedIsResending' /\ AloneIsNew'
        /\ \A x \in Requests : Held(x)' => Held(x)
    BY <2>2, <2>4, TakingStep
  <2>6. CASE delayed' = delayed
    <3>1. FailedIsNowhere' /\ OneFailure'
      BY <2>1, <2>2, <2>4, <2>5, <2>6, <1>i, <1>f, QuietFailures
    <3> QED BY <2>5, <3>1 DEF InOnePlace
  <2>7. CASE delayed' # delayed
    <3>1. /\ Open(m.request) /\ ~m.ok /\ delayed' = delayed \cup {m.request} /\ call' = call
      BY <2>1, <2>7 DEF Open
    <3>2. m = Refused(m.request)
      BY <2>3, <3>1 DEF Refused
    <3>3. /\ \A x \in Requests : Failing(x)' => Failing(x)
          /\ Refused(m.request) \notin received'
          /\ \A x \in Requests : x \in delayed' /\ Refused(x) \in received'
                                   => x \in delayed /\ Refused(x) \in received
      BY <2>1, <2>3, <3>1, <3>2 DEF Failing, Refused
    <3>4. FailedIsNowhere'
      <4> SUFFICES ASSUME NEW x \in Requests, Open(x)', Failing(x)'
                   PROVE  ~(Held(x)') /\ ~(x \in delayed' /\ Refused(x) \in received')
        BY DEF FailedIsNowhere, Refused
      <4>1. ~Held(x) /\ ~(x \in delayed /\ Refused(x) \in received)
        BY <2>4, <3>3, <1>i DEF FailedIsNowhere
      <4> QED BY <4>1, <2>5, <3>3
    <3>5. OneFailure'
      <4> SUFFICES ASSUME NEW n \in MayFail', Open(owner[n])
                   PROVE  msgId[owner[n]] = n /\ ~(Failing(owner[n])')
        BY <2>2, <3>1 DEF OneFailure, Open, Failing, Refused
      <4>1. n \in MayFail /\ owner[n] \in Requests
        BY <2>2, <1>f, <1>i, MayFailIsSent
      <4>2. msgId[owner[n]] = n /\ ~Failing(owner[n])
        BY <4>1, <1>i DEF OneFailure
      <4> QED BY <4>1, <4>2, <3>3, <2>2 DEF Failing, Refused
    <3> QED BY <2>5, <3>4, <3>5 DEF InOnePlace
  <2> QED BY <2>6, <2>7
<1>4. CASE CheckDelayed
  <2>1. PICK r \in delayed :
          /\ delayed' = delayed \ {r}
          /\ IF call[r] = "open"
             THEN SendPrepared(r)
             ELSE UNCHANGED <<toSend, msgId, wake>>
    BY <1>4 DEF CheckDelayed
  <2>2. UNCHANGED <<call, haveSent, received, owner, resending, moving, alone,
                    answers, past, seen, up>>
    BY <1>4 DEF CheckDelayed
  <2>3. CASE call[r] # "open"
    <3>1. UNCHANGED <<toSend, msgId>> /\ delayed' \subseteq delayed
      BY <2>1, <2>3
    <3>2. /\ AtMostOnce' /\ SentByMsgId' /\ ResentByMsgId' /\ QueuedIsResending' /\ AloneIsNew'
          /\ \A x \in Requests : Held(x)' => Held(x)
      BY <2>2, <3>1, TakingStep DEF Open
    <3>3. FailedIsNowhere' /\ OneFailure'
      BY <2>2, <3>1, <3>2, <1>i, <1>f, QuietFailures DEF Open
    <3> QED BY <3>2, <3>3 DEF InOnePlace
  <2>4. CASE call[r] = "open"
    <3>1. /\ toSend' = toSend \cup {r} /\ delayed' = delayed \ {r}
          /\ msgId' = [msgId EXCEPT ![r] = 0] /\ r \in Requests
      BY <2>1, <2>4, <1>t DEF SendPrepared
    <3>2. Failing(r) /\ ~Held(r) /\ Refused(r) \notin received
      BY <2>4, <3>1, <1>i DEF FailedIsNowhere, Failing, Open
    <3>3. /\ r \notin toSend /\ r # alone /\ \A m \in haveSent \cup moving : owner[m] # r
          /\ \A m \in resending : owner[m] # r
      BY <2>4, <3>2, <1>i DEF Held, ResentByMsgId, Open
    <3>4. /\ \A x \in Requests : x # r => msgId'[x] = msgId[x]
          /\ msgId'[r] = 0
      BY <3>1, <1>t
    <3>5. AtMostOnce' /\ SentByMsgId'
      BY <2>2, <3>1, <3>3, <3>4, <1>i, <1>t DEF AtMostOnce, SentByMsgId
    <3>6. ResentByMsgId'
      BY <2>2, <3>1, <3>3, <3>4, <1>i, <1>t DEF ResentByMsgId, Open
    <3>7. QueuedIsResending' /\ AloneIsNew'
      BY <2>2, <3>1, <3>3, <3>4, <1>i, <1>t DEF QueuedIsResending, AloneIsNew, Open
    <3>8. ~(Failing(r)') /\ \A x : Failing(x)' => Failing(x)
      BY <2>2, <3>1, <3>2 DEF Failing, Refused
    <3>9. FailedIsNowhere'
      <4> SUFFICES ASSUME NEW x \in Requests, Open(x)', Failing(x)'
                   PROVE  ~(Held(x)') /\ ~(x \in delayed' /\ Refused(x) \in received')
        BY DEF FailedIsNowhere, Refused
      <4>1. x # r /\ Failing(x) /\ Open(x)
        BY <2>2, <3>8 DEF Open
      <4>2. ~Held(x) /\ ~(x \in delayed /\ Refused(x) \in received)
        BY <4>1, <1>i DEF FailedIsNowhere
      <4> QED BY <2>2, <3>1, <4>1, <4>2 DEF Held
    <3>10. OneFailure'
      <4> SUFFICES ASSUME NEW m \in MayFail', Open(owner[m])
                   PROVE  msgId'[owner[m]] = m /\ ~(Failing(owner[m])')
        BY <2>2 DEF OneFailure, Open, Failing, Refused
      <4>1. m \in MayFail /\ owner[m] \in Requests
        BY <2>2, <1>f, <1>i, MayFailIsSent
      <4>2. msgId[owner[m]] = m /\ ~Failing(owner[m])
        BY <4>1, <1>i DEF OneFailure
      <4>3. owner[m] # r
        BY <4>2, <3>2
      <4> QED BY <4>1, <4>2, <4>3, <3>1, <3>4, <2>2 DEF Failing, Refused
    <3> QED BY <3>5, <3>6, <3>7, <3>9, <3>10 DEF InOnePlace
  <2> QED BY <2>3, <2>4


<1>5. CASE SendNothing
  BY <1>5, <1>q, <1>f DEF SendNothing
<1>6. CASE TakeAlone
  <2>1. /\ alone = 0 /\ moving = {} /\ alone' = CHOOSE r \in toSend : TRUE
        /\ Cardinality(toSend) = 1 /\ toSend \cap forced = {} /\ toSend' = {}
        /\ UNCHANGED <<call, delayed, haveSent, received, owner, msgId, resending, moving,
                       answers, past, seen, up>>
    BY <1>6 DEF TakeAlone, Idle
  <2>2. PICK r : toSend = {r}
    <3>1. IsFiniteSet(toSend)
      BY SessionAssumption, FS_Subset DEF TypeOK
    <3> QED BY <2>1, <3>1, FS_Singleton
  <2>3. alone' = r /\ r \in Requests
    BY <2>1, <2>2, <1>t
  <2>4. \A m \in resending : owner[m] # r
    BY <2>1, <2>2 DEF ResendingIsForced
  <2>5. AtMostOnce' /\ SentByMsgId'
    BY <2>1, <2>2, <2>3, <1>i DEF AtMostOnce, SentByMsgId
  <2>6. ResentByMsgId' /\ QueuedIsResending'
    <3>1. \A m \in resending : ~Open(owner[m])
      BY <2>2, <2>4, <1>i DEF ResentByMsgId
    <3> QED BY <2>1, <3>1 DEF ResentByMsgId, QueuedIsResending, Open
  <2>7. AloneIsNew'
    <3> SUFFICES ASSUME Open(r), msgId[r] # 0 PROVE FALSE
      BY <2>1, <2>3 DEF AloneIsNew, Open
    <3>1. msgId[r] \in resending
      BY <2>2, <1>i DEF QueuedIsResending
    <3>2. owner[msgId[r]] = r
      BY <2>3, <3>1, <1>i, MsgIdOfOne
    <3> QED BY <2>4, <3>1, <3>2
  <2>8. \A x \in Requests : Held(x)' => Held(x)
    BY <2>1, <2>2, <2>3 DEF Held
  <2>9. FailedIsNowhere' /\ OneFailure'
    BY <2>1, <2>8, <1>i, <1>f, QuietFailures DEF Open
  <2> QED BY <2>5, <2>6, <2>7, <2>9 DEF InOnePlace
<1>7. CASE SendAlone
  <2> DEFINE taken == {alone}
             ids == {msgId'[r] : r \in taken}
  <2>1. /\ alone # 0 /\ alone' = 0 /\ toSend' = toSend
        /\ owner' = GiveIds(taken).owner /\ msgId' = GiveIds(taken).ids
        /\ haveSent' = RenamedIn(GiveIds(taken), haveSent) \cup {msgId'[alone]}
        /\ resending' = resending \ {msgId[alone]}
        /\ up' = Append(up, Packet({msgId'[alone]}, TRUE))
        /\ UNCHANGED <<call, delayed, received, answers, past, seen, moving>>
    BY <1>7 DEF SendAlone
  <2>2. /\ taken \in SUBSET Requests /\ taken \in SUBSET taken /\ moving = {} /\ moving' = {}
        /\ toSend' = toSend \ taken
    BY <2>1, <1>i, <1>t DEF AloneIsFirst, AtMostOnce
  <2>3. /\ ids = {msgId'[r] : r \in taken} /\ ids = {msgId'[alone]}
        /\ {msgId[r] : r \in taken} = {msgId[alone]}
    OBVIOUS
  <2>4. \A r \in taken : msgId'[r] \in Ids' /\ owner'[msgId'[r]] = r
    <3>1. \A r \in taken : msgId'[r] \in Ids'
      BY <2>1, <2>2, IdsGrow
    <3>2. \A r \in taken : owner'[msgId'[r]] = r
      BY <2>1, <2>2, IdsAreGiven
    <3> QED BY <3>1, <3>2
  <2>5. /\ \A r \in taken : r \in toSend \/ r = alone
        /\ \A r \in taken : msgId[r] = 0 \/ ~started \/ ~Open(r)
    BY <2>1, <1>i DEF AloneIsNew
  <2>6. /\ haveSent' = RenamedIn(GiveIds(taken), haveSent) \cup ids
        /\ resending' = resending \ {msgId[r] : r \in taken}
        /\ up' = Append(up, Packet(ids, TRUE))
    BY <2>1, <2>3
  <2>7. /\ owner' = GiveIds(taken).owner /\ msgId' = GiveIds(taken).ids /\ alone' = 0
        /\ UNCHANGED <<call, delayed, received, answers, past, seen>>
    BY <2>1
  <2> HIDE DEF taken, ids
  <2> QED BY <2>2, <2>3, <2>4, <2>5, <2>6, <2>7, TakenAreSent
<1>8. CASE SendContainer
  <2>1. PICK batch \in Batches :
          LET new == Renewed(batch, ~started)
              ids == {msgId'[r] : r \in batch}
          IN /\ batch \subseteq toSend /\ batch \subseteq Requests
             /\ new \in SUBSET Requests /\ new \subseteq batch
             /\ owner' = GiveIds(new).owner /\ msgId' = GiveIds(new).ids
             /\ toSend' = toSend \ batch
             /\ haveSent' = RenamedIn(GiveIds(new), haveSent) \cup ids
             /\ resending' = resending \ {msgId[r] : r \in batch}
             /\ up' = Append(up, Packet(ids, FALSE))
             /\ \A r \in batch : msgId'[r] \in Ids' /\ owner'[msgId'[r]] = r
    BY <1>8, Contained
  <2> DEFINE new == Renewed(batch, ~started)
             ids == {msgId'[r] : r \in batch}
  <2>2. /\ alone = 0 /\ alone' = 0 /\ moving = {} /\ moving' = {}
        /\ UNCHANGED <<call, delayed, received, answers, past, seen>>
    BY <1>8 DEF SendContainer, Idle
  <2>3. \A r \in new : msgId[r] = 0 \/ ~started \/ ~Open(r)
    BY DEF Renewed
  <2>4. /\ batch \in SUBSET Requests /\ new \in SUBSET batch
        /\ ids = {msgId'[r] : r \in batch}
        /\ owner' = GiveIds(new).owner /\ msgId' = GiveIds(new).ids
        /\ toSend' = toSend \ batch
        /\ haveSent' = RenamedIn(GiveIds(new), haveSent) \cup ids
        /\ resending' = resending \ {msgId[r] : r \in batch}
        /\ up' = Append(up, Packet(ids, FALSE))
        /\ \A r \in batch : msgId'[r] \in Ids' /\ owner'[msgId'[r]] = r
        /\ \A r \in batch : r \in toSend \/ r = alone
    BY <2>1
  <2> HIDE DEF new, ids
  <2> QED BY <2>2, <2>3, <2>4, TakenAreSent
<1>9. CASE Resend
  <2>1. /\ moving = {} /\ moving' \subseteq haveSent /\ haveSent' = haveSent \ moving'
        /\ UNCHANGED <<call, delayed, toSend, received, owner, msgId, resending, alone,
                       answers, past, seen, up>>
    BY <1>9 DEF Resend
  <2>2. /\ AtMostOnce' /\ SentByMsgId' /\ ResentByMsgId' /\ QueuedIsResending' /\ AloneIsNew'
        /\ \A x \in Requests : Held(x)' => Held(x)
    BY <2>1, TakingStep DEF Open
  <2>3. FailedIsNowhere' /\ OneFailure'
    BY <2>1, <2>2, <1>i, <1>f, QuietFailures DEF Open
  <2> QED BY <2>2, <2>3 DEF InOnePlace
<1>10. CASE ResendMoved
  <2>1. /\ moving # {} /\ moving' = {}
        /\ resending' = resending \cup moving
        /\ toSend' = toSend \cup {owner[m] : m \in moving}
        /\ UNCHANGED <<call, delayed, haveSent, received, owner, msgId, alone,
                       answers, past, seen, up>>
    BY <1>10 DEF ResendMoved
  <2>2. AtMostOnce'
    <3>1. \A m, n \in haveSent' \cup moving' : owner[m] = owner[n] => m = n
      BY <2>1, <1>i DEF AtMostOnce
    <3>2. alone \notin toSend'
      BY <2>1, <1>i DEF AtMostOnce
    <3>3. \A m \in haveSent : owner[m] \notin toSend' /\ owner[m] # alone
      <4> SUFFICES ASSUME NEW m \in haveSent, NEW n \in moving, owner[m] = owner[n]
                   PROVE  FALSE
        BY <2>1, <1>i DEF AtMostOnce
      <4>1. m \in moving
        BY <1>i DEF AtMostOnce
      <4>2. haveSent \cap moving = {}
        BY DEF HandsApart
      <4> QED BY <4>1, <4>2
    <3> QED BY <2>1, <3>1, <3>2, <3>3 DEF AtMostOnce
  <2>3. SentByMsgId'
    BY <2>1, <1>i DEF SentByMsgId
  <2>4. ResentByMsgId'
    BY <2>1, <1>i DEF ResentByMsgId, SentByMsgId, Open
  <2>5. QueuedIsResending'
    BY <2>1, <1>i DEF QueuedIsResending, SentByMsgId, Open
  <2>6. AloneIsNew'
    BY <2>1, <1>i DEF AloneIsNew, Open
  <2>7. \A x \in Requests : Held(x)' => Held(x)
    BY <2>1 DEF Held
  <2>8. FailedIsNowhere' /\ OneFailure'
    BY <2>1, <2>7, <1>i, <1>f, QuietFailures DEF Open
  <2> QED BY <2>2, <2>3, <2>4, <2>5, <2>6, <2>8 DEF InOnePlace
<1>11. ASSUME NEW due \in SUBSET haveSent, CheckSentRequests(due) PROVE InOnePlace'
  BY <1>11, <1>q, <1>f DEF CheckSentRequests
<1>12. CASE ClearOldContainer
  BY <1>12, <1>q, <1>f DEF ClearOldContainer
<1>13. CASE ReceiveAnswer
  BY <1>13, AnswerCallsOff
<1>14. CASE ReceiveBad
  BY <1>14, <1>q, <1>f DEF ReceiveBad
<1>15. CASE ReceiveNewSession
  BY <1>15, <1>q, <1>f DEF ReceiveNewSession
<1>16. CASE ReceiveAck
  <2>1. PICK ids : RequestsAcked(ids)
    BY <1>16 DEF ReceiveAck
  <2>2. UNCHANGED <<call, delayed, received, owner, msgId, moving, alone,
                    answers, past, seen, up>>
    BY <1>16 DEF ReceiveAck
  <2> DEFINE closed == {m \in ids : ~HasCallback(m)}
  <2>3. /\ haveSent' = Acked(closed).haveSent /\ toSend' = Acked(closed).toSend
        /\ resending' = Acked(closed).resending
    BY <2>1 DEF RequestsAcked
  <2>4. \A m \in closed : ~Open(owner[m])
    BY DEF HasCallback, Open
  <2> HIDE DEF closed
  <2>5. /\ haveSent' \subseteq haveSent /\ toSend' \subseteq toSend
        /\ resending' \subseteq resending
        /\ \A r \in toSend \ toSend' : ~(Open(r)')
        /\ \A m \in resending \ resending' : ~(Open(owner[m])')
    BY <2>2, <2>3, <2>4 DEF Acked, Open
  <2>6. /\ AtMostOnce' /\ SentByMsgId' /\ ResentByMsgId' /\ QueuedIsResending' /\ AloneIsNew'
        /\ \A x \in Requests : Held(x)' => Held(x)
    BY <2>2, <2>5, TakingStep DEF Open
  <2>7. FailedIsNowhere' /\ OneFailure'
    BY <2>2, <2>6, <1>i, <1>f, QuietFailures DEF Open
  <2> QED BY <2>6, <2>7 DEF InOnePlace
<1>17. CASE ReceiveTooOld
  <2>1. /\ up' = <<>> /\ past' = Len(answers)
        /\ UNCHANGED <<mainVars, sharedVars, idVars, sentVars, handVars, answers>>
    BY <1>17 DEF ReceiveTooOld, Disconnect
  <2>2. DOMAIN up' = {}
    BY <2>1
  <2> QED BY <2>1, <2>2, <1>q, MayFailLess
<1>18. CASE Connected
  <2>1. /\ moving = {} /\ moving' = haveSent /\ haveSent' = {}
        /\ UNCHANGED <<call, delayed, toSend, received, owner, msgId, resending, alone,
                       answers, past, seen, up>>
    BY <1>18 DEF Connected, Idle
  <2>2. /\ AtMostOnce' /\ SentByMsgId' /\ ResentByMsgId' /\ QueuedIsResending' /\ AloneIsNew'
        /\ \A x \in Requests : Held(x)' => Held(x)
    BY <2>1, TakingStep DEF Open
  <2>3. FailedIsNowhere' /\ OneFailure'
    BY <2>1, <2>2, <1>i, <1>f, QuietFailures DEF Open
  <2> QED BY <2>2, <2>3 DEF InOnePlace
<1>19. CASE Disconnected
  <2>1. /\ up' = <<>>
        /\ UNCHANGED <<mainVars, sharedVars, idVars, sentVars, handVars, seen, answers, past>>
    BY <1>19 DEF Disconnected, Disconnect
  <2>2. DOMAIN up' = {}
    BY <2>1
  <2> QED BY <2>1, <2>2, <1>q, MayFailLess
<1>20. CASE Serve
  <2>1. UNCHANGED <<call, delayed, toSend, haveSent, received, owner, msgId, resending, moving,
                    alone>>
    BY <1>20 DEF Serve
  <2>2. /\ AtMostOnce' /\ SentByMsgId' /\ ResentByMsgId' /\ QueuedIsResending' /\ AloneIsNew'
    BY <2>1, TakingStep DEF Open
  <2>3. FailedIsNowhere'
    BY <2>1, <1>i DEF FailedIsNowhere, Failing, Refused, Held, Open
  <2>4. OneFailure'
    <3>1. \A m \in MayFail' : Open(owner[m]) => msgId[owner[m]] = m /\ ~Failing(owner[m])
      BY <1>20, ServedMayFail
    <3> QED BY <2>1, <3>1 DEF OneFailure, Failing, Refused, Open
  <2> QED BY <2>2, <2>3, <2>4 DEF InOnePlace
<1>21. CASE Refuse
  <2>1. /\ up # <<>> /\ up' = Tail(up)
        /\ UNCHANGED <<mainVars, sharedVars, idVars, sentVars, handVars, linkVars, answers, past>>
    BY <1>21 DEF Refuse
  <2>2. \A k \in DOMAIN up' : \E j \in DOMAIN up : up'[k] = up[j]
    BY <2>1, RestOfPackets
  <2> QED BY <2>1, <2>2, <1>q, MayFailLess
<1>22. CASE Forget
  <2>1. /\ past' = Len(answers)
        /\ UNCHANGED <<mainVars, sharedVars, idVars, sentVars, handVars, up, answers>>
    BY <1>22 DEF Forget
  <2> QED BY <2>1, <1>q, MayFailLess
<1>23. CASE UNCHANGED vars
  BY <1>23, <1>q, <1>f DEF vars
<1> QED BY <1>1, <1>2, <1>3, <1>4, <1>5, <1>6, <1>7, <1>8, <1>9, <1>10, <1>11, <1>12,
           <1>13, <1>14, <1>15, <1>16, <1>17, <1>18, <1>19, <1>20, <1>21, <1>22, <1>23
        DEF Next, MainSteps, HandSteps, TryToSend, Receive

(* What holds at the start.                                                *)
LEMMA InOnePlaceInit ==
  Init => HandsApart /\ NoneFailed /\ AnsweredOnce /\ ResendingIsForced /\ InOnePlace
<1> SUFFICES ASSUME Init
             PROVE  HandsApart /\ NoneFailed /\ AnsweredOnce /\ ResendingIsForced /\ InOnePlace
  OBVIOUS
<1>1. Live = {} /\ DOMAIN answers = {} /\ DOMAIN up = {}
  BY DEF Init, Live
<1>2. MayFail = {}
  BY <1>1 DEF MayFail, Unheard, Coming
<1>3. HandsApart /\ NoneFailed /\ AnsweredOnce /\ ResendingIsForced
  BY <1>1 DEF Init, HandsApart, NoneFailed, AnsweredOnce, ResendingIsForced
<1>4. AtMostOnce /\ SentByMsgId /\ ResentByMsgId /\ QueuedIsResending /\ AloneIsNew
  BY DEF Init, AtMostOnce, SentByMsgId, ResentByMsgId, QueuedIsResending, AloneIsNew
<1>5. FailedIsNowhere /\ OneFailure
  BY <1>2 DEF Init, FailedIsNowhere, OneFailure, Failing
<1> QED BY <1>3, <1>4, <1>5 DEF InOnePlace

(* One place is one sending.                                               *)
LEMMA SentAtMostOnce ==
  ASSUME TypeOK, AtMostOnce, NEW r \in Requests
  PROVE  Sendings(r) <= 1
<1> DEFINE S == {m \in haveSent \cup moving : owner[m] = r}
           a == IF r \in toSend THEN 1 ELSE 0
           b == IF r = alone THEN 1 ELSE 0
<1>1. Sendings(r) = a + b + Cardinality(S)
  BY DEF Sendings
<1>2. CASE S = {}
  <2>1. Cardinality(S) = 0
    BY <1>2, FS_EmptySet
  <2>2. a = 0 \/ b = 0
    BY DEF AtMostOnce
  <2> HIDE DEF S
  <2> QED BY <1>1, <2>1, <2>2
<1>3. CASE S # {}
  <2>1. PICK m \in S : TRUE
    BY <1>3
  <2>2. S = {m}
    BY <2>1 DEF AtMostOnce
  <2>3. Cardinality(S) = 1
    BY <2>2, FS_Singleton
  <2>4. a = 0 /\ b = 0
    BY <2>1 DEF AtMostOnce
  <2> HIDE DEF S
  <2> QED BY <1>1, <2>3, <2>4
<1> QED BY <1>2, <1>3

(* But for a server that forgets and has errors once more, a request is    *)
(* not sent again while it is sent, and what is to be sent again is what   *)
(* its request is to be sent as.                                           *)
THEOREM NeverSentTwice == Spec => []SentOnce
<1> DEFINE Basics == HandsApart /\ NoneFailed /\ AnsweredOnce /\ ResendingIsForced
<1>1. Init => Basics /\ (RepeatedOnce => InOnePlace)
  BY InOnePlaceInit
<1>2. TypeOK /\ SentByOneId /\ Basics /\ (RepeatedOnce => InOnePlace) /\ [Next]_vars
        => Basics' /\ (RepeatedOnce => InOnePlace)'
  <2> SUFFICES ASSUME TypeOK, SentByOneId, Basics, RepeatedOnce => InOnePlace, [Next]_vars
               PROVE  Basics' /\ (RepeatedOnce' => InOnePlace')
    OBVIOUS
  <2>1. Basics'
    BY HandsApartNext, AnswersNext, ForcedNext
  <2>2. RepeatedOnce' => InOnePlace'
    BY RepeatedBefore, InOnePlaceNext
  <2> QED BY <2>1, <2>2
<1>3. TypeOK /\ (RepeatedOnce => InOnePlace) => SentOnce
  <2>1. AtMostOnce /\ TypeOK => \A r \in Requests : Sendings(r) <= 1
    BY SentAtMostOnce
  <2> QED BY <2>1 DEF SentOnce, InOnePlace, ResentByMsgId, Open
<1> HIDE DEF Basics
<1> QED BY <1>1, <1>2, <1>3, TypeCorrect, OneIdHolds, PTL DEF Spec

==============================================================================
