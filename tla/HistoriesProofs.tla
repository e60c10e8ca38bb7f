--------------------------- MODULE HistoriesProofs ---------------------------
(***************************************************************************)
(* IInv is an inductive invariant of Histories, for every set of histories *)
(* and of kinds of request, and the bounds whatever they are.  The         *)
(* operators on the state of one history come first, then the actions.     *)
(***************************************************************************)
EXTENDS Histories, FiniteSetTheorems, TLAPS

\* The numbers of requests.
Numbers(S) == {r.n : r \in S}

\* What Sound says of the requests and the entry, with the types.
Requesting(s) ==
  /\ s \in State
  /\ s.byRequest = s.postponed \cup Numbers(s.sent)
  /\ Numbered(s) /\ HistoryYields(s) /\ EntryWaits(s)

\* What Sound says of the reads.
Reading(s) == ToldInOrder(s) /\ DoneAwaitsEntry(s)

Whole(s) == Requesting(s) /\ Reading(s)

SameReads(s, t) ==
  /\ t.willTill = s.willTill /\ t.sentTill = s.sentTill
  /\ t.willWait = s.willWait /\ t.sentDone = s.sentDone
  /\ t.read = s.read /\ t.told = s.told

-----------------------------------------------------------------------------
(* sendRequest().                                                          *)

LEMMA Sends ==
  ASSUME NEW s, Requesting(s), NEW kind \in AllKinds, NEW till \in Nat
  PROVE  LET t == SendRequest(s, kind, till) IN
         /\ Requesting(t) /\ SameReads(s, t)
         /\ t.pending = s.pending /\ t.requested = s.requested
         /\ \A r \in t.sent : r \in s.sent \/ r.till = till
<1>. DEFINE n == s.made + 1
            r0 == [n |-> n, kind |-> kind, till |-> till]
            t == SendRequest(s, kind, till)
<1>1. /\ s \in State /\ s.made \in Nat /\ s.byRequest \subseteq Nat
      /\ s.postponed \subseteq Nat /\ s.sent \subseteq Requests
      /\ s.cancelled \subseteq Nat
      /\ s.entryPostponed \in BOOLEAN /\ s.pending \in BOOLEAN /\ s.requested \in BOOLEAN
  BY DEF Requesting, State
<1>2. n \in Nat /\ r0 \in Requests /\ r0.n = n /\ r0.kind = kind /\ r0.till = till
  BY <1>1 DEF Requests
<1>3. /\ \A m \in s.byRequest \cup s.cancelled : m <= s.made
      /\ \A r, q \in s.sent : r.n = q.n => r = q
      /\ \A r \in s.sent : r.n \notin s.postponed
      /\ s.byRequest \cap s.cancelled = {}
      /\ s.byRequest = s.postponed \cup Numbers(s.sent)
  BY DEF Requesting, Numbered
<1>4. /\ n \notin s.byRequest /\ n \notin s.cancelled /\ n \notin s.postponed
      /\ \A r \in s.sent : r.n # n
  BY <1>1, <1>2, <1>3 DEF Numbers
<1>5. CASE kind = "history" /\ Blocks(s)
  <2>1. t = [s EXCEPT !.made = n, !.byRequest = @ \cup {n}, !.postponed = @ \cup {n}]
    BY <1>5 DEF SendRequest
  <2>. HIDE DEF n, r0, t
  <2>2. /\ t \in State /\ t.made = n /\ t.byRequest = s.byRequest \cup {n}
        /\ t.postponed = s.postponed \cup {n} /\ t.sent = s.sent
        /\ t.cancelled = s.cancelled /\ t.entryPostponed = s.entryPostponed
        /\ t.pending = s.pending /\ t.requested = s.requested /\ SameReads(s, t)
    BY <1>1, <1>2, <2>1 DEF State, SameReads
  <2>3. t.byRequest = t.postponed \cup Numbers(t.sent)
    BY <1>3, <2>2
  <2>4. Numbered(t)
    <3>1. \A m \in t.byRequest \cup t.cancelled : m <= t.made
      BY <1>1, <1>2, <1>3, <2>2 DEF n
    <3>. QED  BY <1>3, <1>4, <2>2, <3>1 DEF Numbered
  <2>5. HistoryYields(t) /\ EntryWaits(t)
    BY <1>5, <2>2 DEF Requesting, HistoryYields, EntryWaits, Blocks, BlocksEntry
  <2>. QED  BY <2>2, <2>3, <2>4, <2>5 DEF Requesting, t
<1>6. CASE ~(kind = "history" /\ Blocks(s))
  <2>. DEFINE u == [s EXCEPT !.made = n, !.byRequest = @ \cup {n}, !.sent = @ \cup {r0}]
              v == [u EXCEPT !.entryPostponed = @ \/ (BlocksEntry(u) /\ s.requested)]
  <2>1. t = Hold(v)
    BY <1>6 DEF SendRequest
  <2>. HIDE DEF n, r0, t
  <2>2. /\ u \in State /\ u.made = n /\ u.byRequest = s.byRequest \cup {n}
        /\ u.postponed = s.postponed /\ u.sent = s.sent \cup {r0}
        /\ u.cancelled = s.cancelled /\ u.entryPostponed = s.entryPostponed
        /\ u.pending = s.pending /\ u.requested = s.requested /\ SameReads(s, u)
    BY <1>1, <1>2 DEF State, SameReads
  <2>. HIDE DEF u
  <2>3. BlocksEntry(u) \in BOOLEAN
    BY DEF BlocksEntry
  <2>4. /\ v \in State /\ v.made = n /\ v.byRequest = s.byRequest \cup {n}
        /\ v.postponed = s.postponed /\ v.sent = s.sent \cup {r0}
        /\ v.cancelled = s.cancelled
        /\ v.entryPostponed = (s.entryPostponed \/ (BlocksEntry(u) /\ s.requested))
        /\ v.pending = s.pending /\ v.requested = s.requested /\ SameReads(s, v)
    BY <1>1, <2>2, <2>3 DEF State, SameReads
  <2>. HIDE DEF v
  <2>5. EntryWaits(v)
    BY <2>2, <2>4 DEF Requesting, EntryWaits, BlocksEntry
  <2>6. /\ \A r, q \in v.sent : r.n = q.n => r = q
        /\ \A r \in v.sent : r.n \notin v.postponed
        /\ \A m \in v.byRequest \cup v.cancelled : m <= v.made
        /\ v.byRequest \cap v.cancelled = {}
    <3>1. \A m \in v.byRequest \cup v.cancelled : m <= v.made
      BY <1>1, <1>2, <1>3, <2>4 DEF n
    <3>. QED  BY <1>2, <1>3, <1>4, <2>4, <3>1
  <2>7. v.byRequest = v.postponed \cup Numbers(v.sent)
    BY <1>2, <1>3, <2>4 DEF Numbers
  <2>8. \A r \in v.sent : r \in s.sent \/ r.till = till
    BY <1>2, <2>4
  <2>9. CASE ~Blocks(v)
    <3>1. t = v
      BY <2>1, <2>9 DEF Hold
    <3>2. HistoryYields(v)
      BY <2>4, <2>9 DEF Requesting, HistoryYields, Blocks
    <3>. QED
      BY <2>4, <2>5, <2>6, <2>7, <2>8, <3>1, <3>2 DEF Requesting, Numbered, t
  <2>10. CASE Blocks(v)
    <3>. DEFINE H == {q \in v.sent : q.kind = "history"}
    <3>1. t = [v EXCEPT !.sent = {r \in @ : r.kind # "history"},
                        !.postponed = @ \cup Numbers(H)]
      BY <2>1, <2>10 DEF Hold, Numbers
    <3>2. H \subseteq v.sent /\ v.sent \subseteq Requests /\ Numbers(H) \subseteq Nat
      BY <2>4 DEF State, Numbers, Requests
    <3>3. \A m : m \in Numbers(H) <=> \E q \in v.sent : q.kind = "history" /\ q.n = m
      BY DEF Numbers
    <3>. HIDE DEF H
    <3>4. /\ t \in State /\ t.made = v.made /\ t.byRequest = v.byRequest
          /\ t.postponed = v.postponed \cup Numbers(H)
          /\ t.sent = {r \in v.sent : r.kind # "history"}
          /\ t.cancelled = v.cancelled /\ t.entryPostponed = v.entryPostponed
          /\ t.pending = v.pending /\ t.requested = v.requested /\ SameReads(v, t)
      BY <2>4, <3>1, <3>2 DEF State, SameReads
    <3>5. t.byRequest = t.postponed \cup Numbers(t.sent)
      BY <2>7, <3>3, <3>4 DEF Numbers
    <3>6. \A r \in t.sent : r.n \notin t.postponed
      BY <2>6, <3>3, <3>4
    <3>7. Numbered(t)
      BY <2>6, <3>4, <3>6 DEF Numbered
    <3>8. HistoryYields(t)
      BY <2>10, <3>4 DEF HistoryYields, Blocks
    <3>9. EntryWaits(t)
      BY <2>5, <3>4 DEF EntryWaits, BlocksEntry
    <3>10. SameReads(s, t)
      BY <2>4, <3>4 DEF SameReads
    <3>. QED
      BY <2>4, <2>8, <3>4, <3>5, <3>7, <3>8, <3>9, <3>10 DEF Requesting, t
  <2>. QED  BY <2>9, <2>10
<1>. QED  BY <1>5, <1>6

-----------------------------------------------------------------------------
(* finishSentRequest().                                                    *)

\* A request that is over, but for its number; it is not postponed.
Finishing(s, n) ==
  /\ s \in State
  /\ n \notin s.postponed
  /\ s.byRequest \ {n} = s.postponed \cup (Numbers(s.sent) \ {n})
  /\ Numbered(s) /\ HistoryYields(s) /\ EntryWaits(s)

LEMMA Finishes ==
  ASSUME NEW s, NEW n \in Nat, Finishing(s, n)
  PROVE  LET t == Finish(s, n) IN
         /\ Requesting(t) /\ SameReads(s, t)
         /\ n \notin t.byRequest /\ t.cancelled = s.cancelled /\ t.made = s.made
         /\ s.pending \/ s.requested => t.pending \/ t.requested
         /\ \A r \in t.sent : r \in s.sent \/ r.till = 0
<1>. DEFINE a == [s EXCEPT !.byRequest = @ \ {n}, !.sent = {r \in @ : r.n # n}]
            b == Release(a)
            t == Finish(s, n)
<1>1. /\ s \in State /\ s.made \in Nat /\ s.byRequest \subseteq Nat
      /\ s.postponed \subseteq Nat /\ s.sent \subseteq Requests
      /\ s.cancelled \subseteq Nat
      /\ s.entryPostponed \in BOOLEAN /\ s.pending \in BOOLEAN /\ s.requested \in BOOLEAN
  BY DEF Finishing, State
<1>2. /\ \A m \in s.byRequest \cup s.cancelled : m <= s.made
      /\ \A r, q \in s.sent : r.n = q.n => r = q
      /\ \A r \in s.sent : r.n \notin s.postponed
      /\ s.byRequest \cap s.cancelled = {}
      /\ s.byRequest \ {n} = s.postponed \cup (Numbers(s.sent) \ {n})
      /\ n \notin s.postponed
  BY DEF Finishing, Numbered
<1>3. t = ReleaseEntry(b)
  BY DEF Finish
<1>. HIDE DEF t, b
<1>4. /\ a \in State /\ a.made = s.made /\ a.byRequest = s.byRequest \ {n}
      /\ a.postponed = s.postponed /\ a.sent = {r \in s.sent : r.n # n}
      /\ a.cancelled = s.cancelled /\ a.entryPostponed = s.entryPostponed
      /\ a.pending = s.pending /\ a.requested = s.requested /\ SameReads(s, a)
  BY <1>1 DEF State, SameReads
<1>. HIDE DEF a
<1>5. a.byRequest = a.postponed \cup Numbers(a.sent)
  BY <1>2, <1>4 DEF Numbers
<1>6. Numbered(a)
  BY <1>2, <1>4 DEF Numbered
<1>7. Blocks(a) => Blocks(s) /\ \A r \in a.sent : r.kind # "history"
  BY <1>4 DEF Finishing, HistoryYields, Blocks
(* What the requests that are let go change.                               *)
<1>8. /\ b \in State /\ b.made = a.made /\ b.byRequest = a.byRequest
      /\ b.cancelled = a.cancelled /\ b.entryPostponed = a.entryPostponed
      /\ b.pending = a.pending /\ b.requested = a.requested /\ SameReads(a, b)
      /\ b.byRequest = b.postponed \cup Numbers(b.sent)
      /\ Numbered(b) /\ HistoryYields(b)
      /\ BlocksEntry(b) <=> BlocksEntry(a)
      /\ \A r \in b.sent : r \in a.sent \/ r.till = 0
  <2>1. CASE Blocks(a)
    <3>1. b = a
      BY <2>1 DEF b, Release
    <3>. QED  BY <1>4, <1>5, <1>6, <1>7, <2>1, <3>1 DEF HistoryYields, SameReads
  <2>2. CASE ~Blocks(a)
    <3>. DEFINE G == {HistoryRequest(m) : m \in a.postponed}
    <3>1. b = [a EXCEPT !.sent = @ \cup G, !.postponed = {}]
      BY <2>2 DEF b, Release, LetGo
    <3>2. G \subseteq Requests
      BY <1>1, <1>4 DEF Requests, HistoryRequest, AllKinds
    <3>3. \A r \in G : r.n \in a.postponed /\ r.kind = "history" /\ r.till = 0 /\ r = HistoryRequest(r.n)
      BY DEF HistoryRequest
    <3>4. Numbers(G) = a.postponed
      <4>1. \A m \in a.postponed : HistoryRequest(m) \in G /\ HistoryRequest(m).n = m
        BY DEF HistoryRequest
      <4>. HIDE DEF G
      <4>2. \A m \in a.postponed : m \in Numbers(G)
        BY <4>1 DEF Numbers
      <4>. QED  BY <3>3, <4>2 DEF Numbers
    <3>. HIDE DEF G
    <3>5. /\ b \in State /\ b.made = a.made /\ b.byRequest = a.byRequest
          /\ b.postponed = {} /\ b.sent = a.sent \cup G
          /\ b.cancelled = a.cancelled /\ b.entryPostponed = a.entryPostponed
          /\ b.pending = a.pending /\ b.requested = a.requested /\ SameReads(a, b)
      BY <1>4, <3>1, <3>2 DEF State, SameReads
    <3>6. Numbers(b.sent) = Numbers(a.sent) \cup a.postponed
      BY <3>4, <3>5 DEF Numbers
    <3>7. \A r, q \in b.sent : r.n = q.n => r = q
      BY <1>6, <3>3, <3>5 DEF Numbered
    <3>8. Numbered(b)
      BY <1>6, <3>5, <3>7 DEF Numbered
    <3>9. ~Blocks(b) /\ (BlocksEntry(b) <=> BlocksEntry(a))
      BY <2>2, <3>3, <3>5 DEF Blocks, BlocksEntry
    <3>. QED
      BY <1>5, <3>3, <3>5, <3>6, <3>8, <3>9 DEF HistoryYields
  <2>. QED  BY <2>1, <2>2
(* What asking for the entry again changes.                                *)
<1>9. /\ t \in State /\ t.made = b.made /\ t.byRequest = b.byRequest
      /\ t.postponed = b.postponed /\ t.sent = b.sent
      /\ t.cancelled = b.cancelled /\ SameReads(b, t)
      /\ EntryWaits(t)
      /\ b.pending \/ b.requested => t.pending \/ t.requested
  <2>1. CASE b.entryPostponed /\ ~BlocksEntry(b)
    <3>1. t = [b EXCEPT !.pending = TRUE, !.requested = FALSE, !.entryPostponed = FALSE]
      BY <1>3, <2>1 DEF ReleaseEntry
    <3>. QED  BY <1>8, <3>1 DEF State, SameReads, EntryWaits
  <2>2. CASE ~(b.entryPostponed /\ ~BlocksEntry(b))
    <3>1. t = b
      BY <1>3, <2>2 DEF ReleaseEntry
    <3>. QED
      BY <1>4, <1>8, <2>2, <3>1 DEF Finishing, SameReads, EntryWaits
  <2>. QED  BY <2>1, <2>2
<1>10. Numbered(t) /\ HistoryYields(t)
  BY <1>8, <1>9 DEF Numbered, HistoryYields, Blocks
<1>11. Requesting(t)
  BY <1>8, <1>9, <1>10 DEF Requesting
<1>12. SameReads(s, t)
  BY <1>4, <1>8, <1>9 DEF SameReads
<1>. QED
  BY <1>4, <1>8, <1>9, <1>11, <1>12 DEF t

\* A request in flight ends.
LEMMA FinishesSent ==
  ASSUME NEW s, Requesting(s), NEW r \in s.sent
  PROVE  Finishing(s, r.n) /\ r.n \in Nat
  BY DEF Requesting, Finishing, Numbered, Numbers, State, Requests

-----------------------------------------------------------------------------
(* Reading and entries.                                                    *)

LEMMA AsksEntry ==
  ASSUME NEW s, Requesting(s)
  PROVE  LET t == RequestEntry(s) IN
         /\ Requesting(t) /\ SameReads(s, t) /\ t.sent = s.sent
         /\ t.pending \/ t.requested
<1>. DEFINE t == RequestEntry(s)
<1>1. s \in State /\ s.pending \in BOOLEAN /\ s.requested \in BOOLEAN
  BY DEF Requesting, State
<1>2. /\ t \in State /\ t.made = s.made /\ t.byRequest = s.byRequest
      /\ t.postponed = s.postponed /\ t.sent = s.sent
      /\ t.cancelled = s.cancelled /\ t.entryPostponed = s.entryPostponed
      /\ t.pending = (s.pending \/ ~s.requested) /\ t.requested = s.requested
      /\ SameReads(s, t)
  BY <1>1 DEF State, SameReads, RequestEntry
<1>. HIDE DEF t
<1>3. Numbered(t) /\ HistoryYields(t) /\ EntryWaits(t)
  BY <1>1, <1>2 DEF Requesting, Numbered, HistoryYields, EntryWaits, Blocks, BlocksEntry
<1>. QED  BY <1>1, <1>2, <1>3 DEF Requesting, t

\* The inbox may be read further at any time.
LEMMA ReadsFurther ==
  ASSUME NEW s, Whole(s), NEW upTo \in Nat, s.read <= upTo
  PROVE  LET t == [s EXCEPT !.read = upTo] IN
         /\ Whole(t)
         /\ t.told = s.told /\ t.willTill = s.willTill /\ t.willWait = s.willWait
         /\ t.pending = s.pending /\ t.requested = s.requested
<1>. DEFINE t == [s EXCEPT !.read = upTo]
<1>1. s \in State /\ s.read \in Nat /\ s.told \in Nat
  BY DEF Whole, Requesting, State
<1>2. /\ t \in State /\ t.made = s.made /\ t.byRequest = s.byRequest
      /\ t.postponed = s.postponed /\ t.sent = s.sent
      /\ t.cancelled = s.cancelled /\ t.entryPostponed = s.entryPostponed
      /\ t.pending = s.pending /\ t.requested = s.requested
      /\ t.willTill = s.willTill /\ t.sentTill = s.sentTill /\ t.willWait = s.willWait
      /\ t.sentDone = s.sentDone /\ t.told = s.told /\ t.read = upTo
  BY <1>1 DEF State
<1>. HIDE DEF t
<1>3. Requesting(t)
  BY <1>2 DEF Whole, Requesting, Numbered, HistoryYields, EntryWaits, Blocks, BlocksEntry
<1>4. t.told = t.sentTill \/ (t.sentTill = 0 /\ t.told <= t.read)
  BY <1>1, <1>2 DEF Whole, Reading, ToldInOrder
<1>5. Reading(t)
  BY <1>2, <1>4 DEF Whole, Reading, ToldInOrder, DoneAwaitsEntry
<1>. QED  BY <1>2, <1>3, <1>5 DEF Whole, t

LEMMA AppliesEntry ==
  ASSUME NEW s, Whole(s)
  PROVE  LET t == EntryApplied(s) IN
         /\ Whole(t)
         /\ t.told = s.told /\ t.willTill = s.willTill
         /\ t.pending => s.pending
<1>. DEFINE t == EntryApplied(s)
<1>1. /\ s \in State /\ s.read \in Nat /\ s.told \in Nat /\ s.sentTill \in Nat
      /\ s.sentDone \in BOOLEAN
  BY DEF Whole, Requesting, State
<1>2. CASE s.entryPostponed
  BY <1>2 DEF EntryApplied
<1>3. CASE ~s.entryPostponed
  <2>. DEFINE sentTill == IF s.sentDone THEN 0 ELSE s.sentTill
              read == IF s.sentDone THEN Larger(s.read, s.sentTill) ELSE s.read
  <2>1. sentTill \in Nat /\ read \in Nat /\ s.read <= read
    BY <1>1 DEF Larger
  <2>2. s.sentDone => sentTill = 0 /\ s.sentTill <= read
    BY <1>1 DEF Larger
  <2>3. ~s.sentDone => sentTill = s.sentTill
    OBVIOUS
  <2>4. t = [s EXCEPT !.pending = FALSE, !.requested = FALSE, !.sentTill = sentTill, !.read = read]
    BY <1>3 DEF EntryApplied
  <2>. HIDE DEF t, sentTill, read
  <2>5. /\ t \in State /\ t.made = s.made /\ t.byRequest = s.byRequest
        /\ t.postponed = s.postponed /\ t.sent = s.sent
        /\ t.cancelled = s.cancelled /\ t.entryPostponed = s.entryPostponed
        /\ ~t.pending /\ ~t.requested
        /\ t.willTill = s.willTill /\ t.sentTill = sentTill /\ t.willWait = s.willWait
        /\ t.sentDone = s.sentDone /\ t.told = s.told /\ t.read = read
    BY <1>1, <2>1, <2>4 DEF State
  <2>6. Requesting(t)
    BY <1>3, <2>5
    DEF Whole, Requesting, Numbered, HistoryYields, EntryWaits, Blocks, BlocksEntry
  <2>7. t.told = t.sentTill \/ (t.sentTill = 0 /\ t.told <= t.read)
    BY <1>1, <2>1, <2>2, <2>3, <2>5 DEF Whole, Reading, ToldInOrder
  <2>8. Reading(t)
    BY <2>2, <2>5, <2>7 DEF Whole, Reading, ToldInOrder, DoneAwaitsEntry
  <2>. QED  BY <2>5, <2>6, <2>8 DEF Whole, t
<1>. QED  BY <1>2, <1>3

LEMMA SendsRead ==
  ASSUME NEW s, Whole(s), s.willTill # 0
  PROVE  LET t == SendRead(s) IN
         /\ Whole(t)
         /\ t.told > s.told /\ t.willTill = 0
         /\ t.pending = s.pending
<1>. DEFINE u == SendRequest(s, "read", s.willTill)
            t == SendRead(s)
<1>1. s \in State /\ s.told \in Nat /\ s.willTill \in Nat /\ s.willTill > s.told
  BY DEF Whole, Requesting, State, Reading, ToldInOrder
<1>2. /\ Requesting(u) /\ SameReads(s, u)
      /\ u.pending = s.pending /\ u.requested = s.requested
      /\ \A r \in u.sent : r \in s.sent \/ r.till = s.willTill
  BY <1>1, Sends DEF Whole, AllKinds
<1>3. t = [u EXCEPT !.sentTill = s.willTill, !.willTill = 0, !.willWait = FALSE,
                    !.sentDone = FALSE, !.told = s.willTill]
  BY DEF SendRead
<1>. HIDE DEF u, t
<1>4. /\ t \in State /\ t.made = u.made /\ t.byRequest = u.byRequest
      /\ t.postponed = u.postponed /\ t.sent = u.sent
      /\ t.cancelled = u.cancelled /\ t.entryPostponed = u.entryPostponed
      /\ t.pending = u.pending /\ t.requested = u.requested
      /\ t.willTill = 0 /\ t.sentTill = s.willTill /\ ~t.willWait
      /\ ~t.sentDone /\ t.told = s.willTill
  BY <1>1, <1>2, <1>3 DEF Requesting, State
<1>5. Requesting(t)
  BY <1>2, <1>4 DEF Requesting, Numbered, HistoryYields, EntryWaits, Blocks, BlocksEntry
<1>6. \A r \in t.sent : r.till <= t.told
  <2>1. \A r \in s.sent : r.till \in Nat /\ r.till <= s.told
    BY <1>1 DEF State, Requests, Whole, Reading, ToldInOrder
  <2>. QED  BY <1>1, <1>2, <1>4, <2>1
<1>7. Reading(t)
  BY <1>4, <1>6 DEF Reading, ToldInOrder, DoneAwaitsEntry
<1>. QED  BY <1>1, <1>2, <1>4, <1>5, <1>7 DEF Whole, t

LEMMA Answers ==
  ASSUME NEW s, Whole(s), NEW r \in s.sent, NEW refresh \in BOOLEAN,
         s.read < r.till => refresh
  PROVE  LET t == Answered(s, r, refresh) IN
         /\ Whole(t)
         /\ t.told = s.told /\ t.willTill = s.willTill /\ t.willWait = s.willWait
         /\ t.sent = s.sent
<1>1. /\ s \in State /\ s.read \in Nat /\ s.told \in Nat /\ s.sentTill \in Nat
      /\ r \in Requests /\ r.till \in Nat
      /\ s.told = s.sentTill \/ (s.sentTill = 0 /\ s.told <= s.read)
  BY DEF Whole, Requesting, State, Requests, Reading, ToldInOrder
<1>. DEFINE t == Answered(s, r, refresh)
<1>2. CASE s.sentTill # r.till
  BY <1>2 DEF Answered
<1>3. CASE s.sentTill = r.till /\ refresh
  <2>. DEFINE u == [s EXCEPT !.sentDone = TRUE]
  <2>1. t = RequestEntry(u)
    BY <1>3 DEF Answered
  <2>. HIDE DEF t
  <2>2. /\ u \in State /\ u.made = s.made /\ u.byRequest = s.byRequest
        /\ u.postponed = s.postponed /\ u.sent = s.sent
        /\ u.cancelled = s.cancelled /\ u.entryPostponed = s.entryPostponed
        /\ u.pending = s.pending /\ u.requested = s.requested
        /\ u.willTill = s.willTill /\ u.sentTill = s.sentTill /\ u.willWait = s.willWait
        /\ u.read = s.read /\ u.told = s.told
    BY <1>1 DEF State
  <2>. HIDE DEF u
  <2>3. Requesting(u)
    BY <2>2 DEF Whole, Requesting, Numbered, HistoryYields, EntryWaits, Blocks, BlocksEntry
  <2>4. Requesting(t) /\ SameReads(u, t) /\ t.sent = u.sent /\ (t.pending \/ t.requested)
    BY <2>1, <2>3, AsksEntry
  <2>5. Reading(t)
    BY <2>2, <2>4 DEF SameReads, Whole, Reading, ToldInOrder, DoneAwaitsEntry
  <2>. QED  BY <2>2, <2>4, <2>5 DEF Whole, SameReads, t
<1>4. CASE s.sentTill = r.till /\ ~refresh
  <2>1. t = [s EXCEPT !.sentDone = TRUE, !.sentTill = 0]
    BY <1>4 DEF Answered
  <2>. HIDE DEF t
  <2>2. /\ t \in State /\ t.made = s.made /\ t.byRequest = s.byRequest
        /\ t.postponed = s.postponed /\ t.sent = s.sent
        /\ t.cancelled = s.cancelled /\ t.entryPostponed = s.entryPostponed
        /\ t.pending = s.pending /\ t.requested = s.requested
        /\ t.willTill = s.willTill /\ t.sentTill = 0 /\ t.willWait = s.willWait
        /\ t.read = s.read /\ t.told = s.told
    BY <1>1, <2>1 DEF State
  <2>3. Requesting(t)
    BY <2>2 DEF Whole, Requesting, Numbered, HistoryYields, EntryWaits, Blocks, BlocksEntry
  <2>4. t.told <= t.read
    BY <1>1, <1>4, <2>2
  <2>5. Reading(t)
    BY <2>2, <2>4 DEF Whole, Reading, ToldInOrder, DoneAwaitsEntry
  <2>. QED  BY <2>2, <2>3, <2>5 DEF Whole, t
<1>. QED  BY <1>2, <1>3, <1>4

\* What a request does to the rest leaves the reads whole.
LEMMA StaysWhole ==
  ASSUME NEW s, Whole(s), NEW t, Requesting(t), SameReads(s, t),
         s.pending \/ s.requested => t.pending \/ t.requested,
         \A r \in t.sent : r \in s.sent \/ r.till = 0
  PROVE  Whole(t)
<1>1. s.told \in Nat /\ \A r \in s.sent : r.till \in Nat
  BY DEF Whole, Requesting, State, Requests
<1>2. \A r \in t.sent : r.till <= t.told
  BY <1>1 DEF Whole, Reading, ToldInOrder, SameReads
<1>3. Reading(t)
  BY <1>2 DEF Whole, Reading, ToldInOrder, DoneAwaitsEntry, SameReads
<1>. QED  BY <1>3 DEF Whole

LEMMA SendsWhole ==
  ASSUME NEW s, Whole(s), NEW kind \in AllKinds
  PROVE  LET t == SendRequest(s, kind, 0) IN
         /\ Whole(t) /\ SameReads(s, t)
<1>. DEFINE t == SendRequest(s, kind, 0)
<1>1. /\ Requesting(t) /\ SameReads(s, t)
      /\ t.pending = s.pending /\ t.requested = s.requested
      /\ \A r \in t.sent : r \in s.sent \/ r.till = 0
  BY Sends DEF Whole
<1>. HIDE DEF t
<1>2. Whole(t)
  BY <1>1, StaysWhole
<1>. QED  BY <1>1, <1>2 DEF t

LEMMA FinishesWhole ==
  ASSUME NEW s, Whole(s), NEW n, n \in Numbers(s.sent)
  PROVE  LET t == Finish(s, n) IN
         /\ Whole(t) /\ SameReads(s, t)
<1>. DEFINE t == Finish(s, n)
<1>1. n \in Nat /\ Finishing(s, n)
  BY FinishesSent DEF Whole, Numbers
<1>2. /\ Requesting(t) /\ SameReads(s, t)
      /\ s.pending \/ s.requested => t.pending \/ t.requested
      /\ \A r \in t.sent : r \in s.sent \/ r.till = 0
  BY <1>1, Finishes
<1>. HIDE DEF t
<1>3. Whole(t)
  BY <1>2, StaysWhole
<1>. QED  BY <1>2, <1>3 DEF t

\* cancelRequest(): a request that waits is forgotten first.
LEMMA CancelsWhole ==
  ASSUME NEW s, Whole(s), NEW n \in s.byRequest
  PROVE  LET t == [Finish([s EXCEPT !.postponed = @ \ {n}], n)
                     EXCEPT !.cancelled = @ \cup {n}] IN
         /\ Whole(t) /\ SameReads(s, t)
<1>. DEFINE a == [s EXCEPT !.postponed = @ \ {n}]
            b == Finish(a, n)
            t == [b EXCEPT !.cancelled = @ \cup {n}]
<1>1. s \in State /\ n \in Nat /\ Numbered(s) /\ HistoryYields(s) /\ EntryWaits(s)
  BY DEF Whole, Requesting, State
<1>2. /\ a \in State /\ a.made = s.made /\ a.byRequest = s.byRequest
      /\ a.postponed = s.postponed \ {n} /\ a.sent = s.sent
      /\ a.cancelled = s.cancelled /\ a.entryPostponed = s.entryPostponed
      /\ a.pending = s.pending /\ a.requested = s.requested /\ SameReads(s, a)
  BY <1>1 DEF State, SameReads
<1>. HIDE DEF a
<1>3. a.byRequest \ {n} = a.postponed \cup (Numbers(a.sent) \ {n})
  BY <1>2 DEF Whole, Requesting
<1>4. Finishing(a, n)
  BY <1>1, <1>2, <1>3
  DEF Finishing, Numbered, HistoryYields, EntryWaits, Blocks, BlocksEntry
<1>5. /\ Requesting(b) /\ SameReads(a, b)
      /\ n \notin b.byRequest /\ b.cancelled = a.cancelled /\ b.made = a.made
      /\ a.pending \/ a.requested => b.pending \/ b.requested
      /\ \A r \in b.sent : r \in a.sent \/ r.till = 0
  BY <1>1, <1>4, Finishes
<1>. HIDE DEF b
<1>6. /\ t \in State /\ t.made = b.made /\ t.byRequest = b.byRequest
      /\ t.postponed = b.postponed /\ t.sent = b.sent
      /\ t.cancelled = b.cancelled \cup {n} /\ t.entryPostponed = b.entryPostponed
      /\ t.pending = b.pending /\ t.requested = b.requested /\ SameReads(b, t)
  BY <1>1, <1>5 DEF Requesting, State, SameReads
<1>. HIDE DEF t
<1>7. Numbered(t)
  <2>1. n <= s.made /\ \A m \in b.byRequest \cup b.cancelled : m <= b.made
    BY <1>1, <1>5 DEF Requesting, Numbered
  <2>. QED  BY <1>2, <1>5, <1>6, <2>1 DEF Requesting, Numbered
<1>8. Requesting(t)
  BY <1>5, <1>6, <1>7 DEF Requesting, HistoryYields, EntryWaits, Blocks, BlocksEntry
<1>9. SameReads(s, t)
  BY <1>2, <1>5, <1>6 DEF SameReads
<1>10. Whole(t)
  BY <1>2, <1>5, <1>6, <1>8, <1>9, StaysWhole
<1>. QED  BY <1>9, <1>10 DEF t, b, a

-----------------------------------------------------------------------------
(* The invariant, and steps that are about one history.                    *)

\* The messages the server is told of only get later.
ToldAdvances ==
  \A p \in Peers : states'[p].told = states[p].told \/ states'[p].told > states[p].told

LEMMA IsWhole ==
  ASSUME IInv
  PROVE  /\ states \in [Peers -> State] /\ called \in BOOLEAN /\ timer \in BOOLEAN
         /\ \A p \in Peers : Whole(states[p]) /\ states[p].told \in Nat
  BY DEF IInv, TypeOK, Sound, Whole, Requesting, Reading, Numbers, State

LEMMA WholeIs ==
  ASSUME states' \in [Peers -> State], \A p \in Peers : Whole(states'[p]),
         called' \in BOOLEAN, timer' \in BOOLEAN,
         asked' \in [SUBSET Peers -> 0 .. MaxEntries],
         PendingIsCalled', WillingIsTimed'
  PROVE  IInv'
  BY DEF IInv, TypeOK, Sound, Whole, Requesting, Reading, Numbers

\* The first entry that becomes pending postpones a call.
LEMMA CallsOnce ==
  ASSUME IInv, NEW new \in [Peers -> State], NEW p \in Peers,
         \A q \in Peers \ {p} : new[q].pending = states[q].pending,
         states' = new, PostponeCall(new)
  PROVE  PendingIsCalled' /\ called' \in BOOLEAN
<1>. DEFINE first == /\ \E q \in Peers : new[q].pending /\ ~states[q].pending
                     /\ Cardinality({q \in Peers : new[q].pending}) <= 1
<1>1. called' = (called \/ first)
  BY DEF PostponeCall
<1>2. called' \in BOOLEAN
  BY <1>1
<1>3. ASSUME NEW q \in Peers, new[q].pending  PROVE called'
  <2>1. CASE called
    BY <1>1, <2>1
  <2>2. CASE ~called
    <3>1. \A o \in Peers : ~states[o].pending
      BY <2>2 DEF IInv, PendingIsCalled
    <3>2. q = p /\ {o \in Peers : new[o].pending} = {p}
      BY <1>3, <3>1
    <3>3. Cardinality({o \in Peers : new[o].pending}) = 1
      BY <3>2, FS_Singleton
    <3>4. first
      BY <1>3, <3>1, <3>3
    <3>. QED  BY <1>1, <3>4
  <2>. QED  BY <2>1, <2>2
<1>. QED  BY <1>2, <1>3 DEF PendingIsCalled

LEMMA Changes ==
  ASSUME IInv, NEW p \in Peers, NEW t, Change(p, t), Whole(t),
         t.willTill = states[p].willTill, t.told = states[p].told
  PROVE  IInv' /\ ToldAdvances
<1>1. /\ states \in [Peers -> State] /\ timer \in BOOLEAN
      /\ \A q \in Peers : Whole(states[q])
  BY IsWhole
<1>2. /\ states' = [states EXCEPT ![p] = t] /\ PostponeCall(states')
      /\ timer' = timer /\ asked' = asked
  BY DEF Change, Only
<1>3. t \in State
  BY DEF Whole, Requesting
<1>4. /\ states' \in [Peers -> State] /\ states'[p] = t
      /\ \A q \in Peers \ {p} : states'[q] = states[q]
  BY <1>1, <1>2, <1>3
<1>5. PendingIsCalled' /\ called' \in BOOLEAN
  BY <1>2, <1>4, CallsOnce
<1>6. WillingIsTimed'
  BY <1>2, <1>4 DEF IInv, WillingIsTimed, Willing
<1>7. asked' \in [SUBSET Peers -> 0 .. MaxEntries]
  BY <1>2 DEF IInv, TypeOK
<1>8. IInv'
  BY <1>1, <1>2, <1>4, <1>5, <1>6, <1>7, WholeIs
<1>. QED  BY <1>4, <1>8 DEF ToldAdvances

-----------------------------------------------------------------------------
(* Steps that send reads.                                                  *)

LEMMA SendsDue ==
  ASSUME NEW new \in [Peers -> State], \A q \in Peers : Whole(new[q]),
         NEW due, due \subseteq Willing(new)
  PROVE  LET t == SendDue(new, due) IN
         /\ t \in [Peers -> State]
         /\ \A q \in Peers : /\ Whole(t[q])
                             /\ t[q].told = new[q].told \/ t[q].told > new[q].told
                             /\ t[q].pending = new[q].pending
                             /\ q \notin due => t[q] = new[q]
         /\ Willing(t) = Willing(new) \ due
<1>. DEFINE t == SendDue(new, due)
<1>1. ASSUME NEW q \in Peers
      PROVE  /\ Whole(t[q])
             /\ t[q].told = new[q].told \/ t[q].told > new[q].told
             /\ t[q].pending = new[q].pending
             /\ q \notin due => t[q] = new[q]
             /\ q \in due => t[q].willTill = 0
  <2>1. CASE q \in due
    <3>1. new[q].willTill # 0
      BY <2>1 DEF Willing
    <3>2. t[q] = SendRead(new[q])
      BY <2>1 DEF SendDue
    <3>. QED  BY <2>1, <3>1, <3>2, SendsRead
  <2>2. CASE q \notin due
    BY <2>2 DEF SendDue
  <2>. QED  BY <2>1, <2>2
<1>2. t = [q \in Peers |-> t[q]] /\ \A q \in Peers : t[q] \in State
  BY <1>1 DEF SendDue, Whole, Requesting
<1>. HIDE DEF t
<1>3. Willing(t) = Willing(new) \ due
  BY <1>1 DEF Willing
<1>. QED  BY <1>1, <1>2, <1>3 DEF t

LEMMA SendsReads ==
  ASSUME IInv, NEW new \in [Peers -> State],
         \A q \in Peers : /\ Whole(new[q]) /\ new[q].told = states[q].told
                          /\ new[q].pending = states[q].pending,
         NEW due, due \in Dues(new), SendReads(new, due),
         UNCHANGED <<called, asked>>
  PROVE  IInv' /\ ToldAdvances
<1>1. due \subseteq Willing(new)
  BY DEF Dues
<1>2. states' = SendDue(new, due) /\ timer' = TimerLeft(new, due)
  BY DEF SendReads
<1>3. /\ states' \in [Peers -> State]
      /\ \A q \in Peers : /\ Whole(states'[q])
                          /\ states'[q].told = new[q].told \/ states'[q].told > new[q].told
                          /\ states'[q].pending = new[q].pending
      /\ Willing(states') = Willing(new) \ due
  BY <1>1, <1>2, SendsDue
<1>4. WillingIsTimed' /\ timer' \in BOOLEAN
  BY <1>2, <1>3 DEF WillingIsTimed, TimerLeft
<1>5. PendingIsCalled' /\ called' \in BOOLEAN
  BY <1>3 DEF IInv, TypeOK, PendingIsCalled
<1>6. asked' \in [SUBSET Peers -> 0 .. MaxEntries]
  BY DEF IInv, TypeOK
<1>7. IInv'
  BY <1>3, <1>4, <1>5, <1>6, WholeIs
<1>8. ToldAdvances
  BY <1>3 DEF ToldAdvances
<1>. QED  BY <1>7, <1>8

\* One history changes first.
LEMMA ChangesAndSends ==
  ASSUME IInv, NEW p \in Peers, NEW s, Whole(s), s.told = states[p].told,
         s.pending = states[p].pending,
         NEW due, due \in Dues(Only(p, s)), SendReads(Only(p, s), due),
         UNCHANGED <<called, asked>>
  PROVE  IInv' /\ ToldAdvances
<1>. DEFINE new == Only(p, s)
<1>1. states \in [Peers -> State] /\ s \in State /\ \A q \in Peers : Whole(states[q])
  BY IsWhole DEF Whole, Requesting
<1>2. /\ new \in [Peers -> State]
      /\ \A q \in Peers : new[q] = IF q = p THEN s ELSE states[q]
  BY <1>1 DEF Only
<1>. HIDE DEF new
<1>3. \A q \in Peers : /\ Whole(new[q]) /\ new[q].told = states[q].told
                      /\ new[q].pending = states[q].pending
  BY <1>1, <1>2
<1>4. due \in Dues(new) /\ SendReads(new, due)
  BY DEF new
<1>. QED  BY <1>2, <1>3, <1>4, SendsReads

\* A history that wants a message told.
LEMMA Wants ==
  ASSUME NEW s, Whole(s), NEW till \in Nat, s.told < till, NEW wait \in BOOLEAN,
         NEW upTo \in Nat, s.read <= upTo
  PROVE  LET t == [s EXCEPT !.willTill = till, !.willWait = wait, !.read = upTo] IN
         Whole(t)
<1>. DEFINE t == [s EXCEPT !.willTill = till, !.willWait = wait, !.read = upTo]
<1>1. /\ s \in State /\ s.read \in Nat /\ s.told \in Nat /\ s.sentTill \in Nat
      /\ s.told = s.sentTill \/ (s.sentTill = 0 /\ s.told <= s.read)
  BY DEF Whole, Requesting, State, Reading, ToldInOrder
<1>2. /\ t \in State /\ t.made = s.made /\ t.byRequest = s.byRequest
      /\ t.postponed = s.postponed /\ t.sent = s.sent
      /\ t.cancelled = s.cancelled /\ t.entryPostponed = s.entryPostponed
      /\ t.pending = s.pending /\ t.requested = s.requested
      /\ t.willTill = till /\ t.sentTill = s.sentTill /\ t.willWait = wait
      /\ t.sentDone = s.sentDone /\ t.told = s.told /\ t.read = upTo
  BY <1>1 DEF State
<1>. HIDE DEF t
<1>3. Requesting(t)
  BY <1>2 DEF Whole, Requesting, Numbered, HistoryYields, EntryWaits, Blocks, BlocksEntry
<1>4. t.told = t.sentTill \/ (t.sentTill = 0 /\ t.told <= t.read)
  BY <1>1, <1>2
<1>5. Reading(t)
  BY <1>1, <1>2, <1>4 DEF Whole, Reading, ToldInOrder, DoneAwaitsEntry
<1>. QED  BY <1>2, <1>3, <1>5 DEF Whole, t

LEMMA NoLongerWaits ==
  ASSUME NEW s, Whole(s), NEW upTo \in Nat, s.read <= upTo
  PROVE  LET t == [s EXCEPT !.willWait = FALSE, !.read = upTo] IN
         /\ Whole(t) /\ t.told = s.told /\ t.pending = s.pending
<1>. DEFINE t == [s EXCEPT !.willWait = FALSE, !.read = upTo]
<1>1. s \in State /\ s.read \in Nat /\ s.told \in Nat
  BY DEF Whole, Requesting, State
<1>2. /\ t \in State /\ t.made = s.made /\ t.byRequest = s.byRequest
      /\ t.postponed = s.postponed /\ t.sent = s.sent
      /\ t.cancelled = s.cancelled /\ t.entryPostponed = s.entryPostponed
      /\ t.pending = s.pending /\ t.requested = s.requested
      /\ t.willTill = s.willTill /\ t.sentTill = s.sentTill /\ t.willWait = FALSE
      /\ t.sentDone = s.sentDone /\ t.told = s.told /\ t.read = upTo
  BY <1>1 DEF State
<1>. HIDE DEF t
<1>3. Requesting(t)
  BY <1>2 DEF Whole, Requesting, Numbered, HistoryYields, EntryWaits, Blocks, BlocksEntry
<1>4. t.told = t.sentTill \/ (t.sentTill = 0 /\ t.told <= t.read)
  BY <1>1, <1>2 DEF Whole, Reading, ToldInOrder
<1>5. Reading(t)
  BY <1>2, <1>4 DEF Whole, Reading, ToldInOrder, DoneAwaitsEntry
<1>. QED  BY <1>2, <1>3, <1>5 DEF Whole, t

-----------------------------------------------------------------------------
(* The actions.                                                            *)

LEMMA UserSteps ==
  ASSUME IInv, User  PROVE IInv' /\ ToldAdvances
<1>1. \A p \in Peers : /\ Whole(states[p]) /\ states[p] \in State
                      /\ states[p].read \in Nat
  BY IsWhole DEF Whole, Requesting, State
<1>2. Tills \subseteq Nat \ {0} /\ 0 .. MaxTill \subseteq Nat
  BY ConstantsAssumption DEF Tills
<1>3. ASSUME NEW p \in Peers, NEW kind \in Kinds, Send(p, kind)
      PROVE  IInv' /\ ToldAdvances
  <2>. DEFINE t == SendRequest(states[p], kind, 0)
  <2>1. Change(p, t)
    BY <1>3 DEF Send
  <2>2. Whole(t) /\ SameReads(states[p], t)
    BY <1>1, ConstantsAssumption, SendsWhole
  <2>. HIDE DEF t
  <2>. QED  BY <2>1, <2>2, Changes DEF SameReads
<1>4. ASSUME NEW p \in Peers, NEW n \in states[p].byRequest, Cancel(p, n)
      PROVE  IInv' /\ ToldAdvances
  <2>. DEFINE t == [Finish([states[p] EXCEPT !.postponed = @ \ {n}], n)
                      EXCEPT !.cancelled = @ \cup {n}]
  <2>1. Change(p, t)
    BY <1>4 DEF Cancel
  <2>2. Whole(t) /\ SameReads(states[p], t)
    BY <1>1, CancelsWhole
  <2>. HIDE DEF t
  <2>. QED  BY <2>1, <2>2, Changes DEF SameReads
<1>5. ASSUME NEW p \in Peers, NEW till \in Tills, NEW t,
             t = [states[p] EXCEPT !.read = Larger(@, till)], Change(p, t)
      PROVE  IInv' /\ ToldAdvances
  <2>1. /\ Larger(states[p].read, till) \in Nat
        /\ states[p].read <= Larger(states[p].read, till)
    BY <1>1, <1>2 DEF Larger
  <2>2. Whole(t) /\ t.told = states[p].told /\ t.willTill = states[p].willTill
    BY <1>1, <1>5, <2>1, ReadsFurther
  <2>. QED  BY <1>5, <2>2, Changes
<1>6. ASSUME NEW p \in Peers, NEW till \in Tills, NEW upTo \in Tills,
             ReadLater(p, till, upTo)
      PROVE  IInv' /\ ToldAdvances
  <2>. DEFINE t == [states[p] EXCEPT !.willTill = till, !.willWait = TRUE, !.read = upTo]
  <2>1. /\ Accepts(states[p], till, FALSE) /\ states' = [states EXCEPT ![p] = t]
        /\ timer' = (timer \/ ~states[p].willWait)
        /\ called' = called /\ asked' = asked
    BY <1>6 DEF ReadLater, Only
  <2>2. upTo \in Nat /\ states[p].read <= upTo
    BY <1>1, <1>2, <1>6, ConstantsAssumption DEF ReadLater, Reads, Larger
  <2>3. till \in Nat /\ Whole(states[p]) /\ states[p].told < till
    BY <1>1, <1>2, <2>1
    DEF Accepts, Needs, Whole, Requesting, State, Reading, ToldInOrder
  <2>4. Whole(t) /\ t.told = states[p].told /\ t.pending = states[p].pending
    <3>. DEFINE u(w) == [states[p] EXCEPT !.willTill = till, !.willWait = w, !.read = upTo]
    <3>1. \A w \in BOOLEAN : Whole(u(w))
      BY <2>2, <2>3, Wants
    <3>2. Whole(t)
      BY <3>1, Zenon
    <3>. QED  BY <1>1, <3>2 DEF State
  <2>. HIDE DEF t
  <2>5. /\ states' \in [Peers -> State] /\ states'[p] = t
        /\ \A q \in Peers \ {p} : states'[q] = states[q]
    BY <2>1, <2>4, IsWhole DEF Whole, Requesting
  <2>6. states[p].willWait => timer
    BY <1>1 DEF IInv, WillingIsTimed, Willing, Whole, Reading, ToldInOrder
  <2>7. timer' /\ timer' \in BOOLEAN
    BY <2>1, <2>6
  <2>8. PendingIsCalled'
    BY <2>1, <2>4, <2>5 DEF IInv, PendingIsCalled
  <2>9. IInv'
    BY <1>1, <2>1, <2>4, <2>5, <2>7, <2>8, WholeIs DEF IInv, TypeOK, WillingIsTimed
  <2>. QED  BY <2>4, <2>5, <2>9 DEF ToldAdvances
<1>7. ASSUME NEW p \in Peers, NEW till \in Tills, NEW force \in BOOLEAN,
             NEW upTo \in 0 .. MaxTill, NEW due, ReadNow(p, till, force, upTo, due)
      PROVE  IInv' /\ ToldAdvances
  <2>. DEFINE t == [states[p] EXCEPT !.willTill = till, !.willWait = FALSE, !.read = upTo]
  <2>1. /\ Accepts(states[p], till, force) /\ due \in Dues(Only(p, t))
        /\ SendReads(Only(p, t), due) /\ UNCHANGED <<called, asked>>
    BY <1>7 DEF ReadNow
  <2>2. upTo \in Nat /\ states[p].read <= upTo
    BY <1>1, <1>2, <1>7, ConstantsAssumption DEF ReadNow, Reads, Larger
  <2>3. till \in Nat /\ Whole(states[p]) /\ states[p].told < till
    BY <1>1, <1>2, <2>1
    DEF Accepts, Needs, Whole, Requesting, State, Reading, ToldInOrder
  <2>4. Whole(t) /\ t.told = states[p].told /\ t.pending = states[p].pending
    <3>. DEFINE u(w) == [states[p] EXCEPT !.willTill = till, !.willWait = w, !.read = upTo]
    <3>1. \A w \in BOOLEAN : Whole(u(w))
      BY <2>2, <2>3, Wants
    <3>2. Whole(t)
      BY <3>1, Zenon
    <3>. QED  BY <1>1, <3>2 DEF State
  <2>. HIDE DEF t
  <2>. QED  BY <2>1, <2>4, ChangesAndSends
<1>8. ASSUME NEW p \in Peers, NEW till \in Tills,
             NEW upTo \in 0 .. MaxTill, NEW due, ReadForced(p, till, upTo, due)
      PROVE  IInv' /\ ToldAdvances
  <2>. DEFINE t == [states[p] EXCEPT !.willWait = FALSE, !.read = upTo]
  <2>1. /\ due \in Dues(Only(p, t))
        /\ SendReads(Only(p, t), due) /\ UNCHANGED <<called, asked>>
    BY <1>8 DEF ReadForced
  <2>2. upTo \in Nat /\ states[p].read <= upTo
    BY <1>1, <1>2, <1>8 DEF ReadForced, Larger
  <2>3. Whole(t) /\ t.told = states[p].told /\ t.pending = states[p].pending
    BY <1>1, <2>2, NoLongerWaits
  <2>. HIDE DEF t
  <2>. QED  BY <2>1, <2>3, ChangesAndSends
<1>9. ASSUME NEW p \in Peers, NEW due, SendPending(p, due)
      PROVE  IInv' /\ ToldAdvances
  <2>. DEFINE t == [states[p] EXCEPT !.willWait = FALSE]
  <2>1. /\ due \in Dues(Only(p, t))
        /\ SendReads(Only(p, t), due) /\ UNCHANGED <<called, asked>>
    BY <1>9 DEF SendPending
  <2>2. t = [states[p] EXCEPT !.willWait = FALSE, !.read = states[p].read]
    BY <1>1 DEF State
  <2>3. states[p].read <= states[p].read
    BY <1>1
  <2>. HIDE DEF t
  <2>4. Whole(t) /\ t.told = states[p].told /\ t.pending = states[p].pending
    BY <1>1, <2>2, <2>3, NoLongerWaits
  <2>. QED  BY <2>1, <2>4, ChangesAndSends
<1>10. ASSUME NEW p \in Peers, AskEntry(p)
       PROVE  IInv' /\ ToldAdvances
  <2>. DEFINE t == RequestEntry(states[p])
  <2>1. Change(p, t)
    BY <1>10 DEF AskEntry
  <2>2. /\ Requesting(t) /\ SameReads(states[p], t) /\ t.sent = states[p].sent
        /\ t.pending \/ t.requested
    BY <1>1, AsksEntry DEF Whole
  <2>. HIDE DEF t
  <2>3. Whole(t)
    BY <1>1, <2>2, StaysWhole
  <2>. QED  BY <2>1, <2>2, <2>3, Changes DEF SameReads
<1>. QED
  BY <1>3, <1>4, <1>5, <1>6, <1>7, <1>8, <1>9, <1>10 DEF User, ReadIgnored, ReadSame

LEMMA TimerSteps ==
  ASSUME IInv, Timer  PROVE IInv' /\ ToldAdvances
  BY IsWhole, SendsReads DEF Timer, ReadTimer

LEMMA AnswerSteps ==
  ASSUME IInv, NEW p \in Peers, NEW r \in states[p].sent, Answer(p, r)
  PROVE  IInv' /\ ToldAdvances
<1>1. Whole(states[p]) /\ states[p] \in State /\ r.n \in Numbers(states[p].sent)
  BY IsWhole DEF Whole, Requesting, Numbers
<1>2. CASE Respond(p, r)
  <2>. DEFINE t == Finish(states[p], r.n)
  <2>1. Change(p, t)
    BY <1>2 DEF Respond
  <2>2. Whole(t) /\ SameReads(states[p], t)
    BY <1>1, FinishesWhole
  <2>. HIDE DEF t
  <2>. QED  BY <2>1, <2>2, Changes DEF SameReads
<1>3. CASE RespondPart(p, r)
  <2>. DEFINE u == SendRequest(states[p], "delete", 0)
              t == Finish(u, r.n)
  <2>1. Change(p, t) /\ r.kind = "delete"
    BY <1>3 DEF RespondPart
  <2>2. Whole(u) /\ SameReads(states[p], u)
    BY <1>1, SendsWhole DEF AllKinds
  <2>3. r \in u.sent
    BY <1>1, <2>1 DEF SendRequest, Hold, State
  <2>4. r.n \in Numbers(u.sent)
    BY <2>3 DEF Numbers
  <2>. HIDE DEF u
  <2>5. Whole(t) /\ SameReads(u, t)
    BY <2>2, <2>4, FinishesWhole
  <2>. HIDE DEF t
  <2>. QED  BY <2>1, <2>2, <2>5, Changes DEF SameReads
<1>4. ASSUME NEW refresh \in BOOLEAN, NEW due, RespondRead(p, r, refresh, due)
      PROVE  IInv' /\ ToldAdvances
  <2>. DEFINE s == Answered(states[p], r, refresh)
              new == Only(p, s)
              sent == SendDue(new, due)
              all == [sent EXCEPT ![p] = Finish(@, r.n)]
  <2>1. /\ states[p].read < r.till => refresh
        /\ due \in Dues(new) /\ states' = all /\ timer' = TimerLeft(new, due)
        /\ PostponeCall(all) /\ asked' = asked /\ r.kind = "read"
    BY <1>4 DEF RespondRead
  <2>2. Whole(s) /\ s.told = states[p].told /\ s.sent = states[p].sent
    BY <1>1, <2>1, Answers
  <2>. HIDE DEF s
  <2>3. /\ new \in [Peers -> State]
        /\ \A q \in Peers : new[q] = IF q = p THEN s ELSE states[q]
    BY <2>2, IsWhole DEF Only, Whole, Requesting
  <2>. HIDE DEF new
  <2>4. due \subseteq Willing(new) /\ \A q \in Peers : Whole(new[q])
    BY <2>1, <2>2, <2>3, IsWhole DEF Dues
  <2>5. /\ sent \in [Peers -> State]
        /\ \A q \in Peers : /\ Whole(sent[q])
                            /\ sent[q].told = new[q].told \/ sent[q].told > new[q].told
                            /\ sent[q].pending = new[q].pending
                            /\ q \notin due => sent[q] = new[q]
        /\ Willing(sent) = Willing(new) \ due
    BY <2>3, <2>4, SendsDue
  <2>6. r.n \in Numbers(sent[p].sent)
    <3>1. r \in new[p].sent
      BY <2>2, <2>3
    <3>2. CASE p \notin due
      BY <2>5, <3>1, <3>2 DEF Numbers
    <3>3. CASE p \in due
      <4>1. sent[p] = SendRead(new[p])
        BY <3>3 DEF SendDue
      <4>2. r \in SendRead(new[p]).sent
        BY <2>1, <2>3, <3>1 DEF SendRead, SendRequest, Hold, State
      <4>. QED  BY <4>1, <4>2 DEF Numbers
    <3>. QED  BY <3>2, <3>3
  <2>. HIDE DEF sent
  <2>7. Whole(all[p]) /\ SameReads(sent[p], all[p])
    BY <2>5, <2>6, FinishesWhole
  <2>8. /\ all \in [Peers -> State]
        /\ \A q \in Peers \ {p} : all[q] = sent[q]
    BY <2>5, <2>7 DEF Whole, Requesting
  <2>. HIDE DEF all
  <2>9. PendingIsCalled' /\ called' \in BOOLEAN
    <3>1. \A q \in Peers \ {p} : all[q].pending = states[q].pending
      BY <2>3, <2>5, <2>8
    <3>. QED  BY <2>1, <2>8, <3>1, CallsOnce
  <2>10. WillingIsTimed' /\ timer' \in BOOLEAN
    <3>1. Willing(all) = Willing(new) \ due
      BY <2>5, <2>7, <2>8 DEF Willing, SameReads
    <3>. QED  BY <2>1, <3>1 DEF WillingIsTimed, TimerLeft
  <2>11. asked' \in [SUBSET Peers -> 0 .. MaxEntries]
    BY <2>1 DEF IInv, TypeOK
  <2>12. IInv'
    BY <2>1, <2>5, <2>7, <2>8, <2>9, <2>10, <2>11, WholeIs
  <2>. QED
    BY <2>1, <2>2, <2>3, <2>5, <2>7, <2>8, <2>12 DEF ToldAdvances, SameReads
<1>. QED  BY <1>2, <1>3, <1>4 DEF Answer

\* The entries of several histories are applied.
LEMMA EntrySteps ==
  ASSUME IInv, NEW S \in SUBSET Peers, AnswerEntries(S)
  PROVE  IInv' /\ ToldAdvances
<1>1. /\ states \in [Peers -> State] /\ called \in BOOLEAN /\ timer \in BOOLEAN
      /\ \A p \in Peers : Whole(states[p]) /\ states[p].read \in Nat
  BY IsWhole DEF Whole, Requesting, State
<1>2. /\ asked[S] > 0 /\ asked' = [asked EXCEPT ![S] = @ - 1]
      /\ timer' = timer /\ called' = called
  BY DEF AnswerEntries, EntriesDone, EntriesFail
<1>3. ASSUME NEW upTo \in [S -> 0 .. MaxTill],
             NEW p \in S
      PROVE  LET t == EntryApplied([states[p] EXCEPT !.read = Larger(@, upTo[p])]) IN
             /\ Whole(t) /\ t.told = states[p].told
             /\ t.willTill = states[p].willTill /\ (t.pending => states[p].pending)
  <2>. DEFINE u == [states[p] EXCEPT !.read = Larger(@, upTo[p])]
  <2>1. /\ Larger(states[p].read, upTo[p]) \in Nat
        /\ states[p].read <= Larger(states[p].read, upTo[p])
    BY <1>1, ConstantsAssumption DEF Larger
  <2>2. /\ Whole(u) /\ u.told = states[p].told /\ u.willTill = states[p].willTill
        /\ u.pending = states[p].pending
    BY <1>1, <2>1, ReadsFurther
  <2>. HIDE DEF u
  <2>3. LET t == EntryApplied(u) IN
        /\ Whole(t) /\ t.told = u.told /\ t.willTill = u.willTill
        /\ t.pending => u.pending
    BY <2>2, AppliesEntry
  <2>. QED  BY <2>2, <2>3 DEF u
<1>. DEFINE Same(p) == /\ Whole(states'[p]) /\ states'[p].told = states[p].told
                       /\ states'[p].willTill = states[p].willTill
                       /\ states'[p].pending => states[p].pending
<1>4. states' = [p \in Peers |-> states'[p]] /\ \A p \in Peers : Same(p)
  <2>1. CASE EntriesFail(S)
    BY <1>1, <2>1, AppliesEntry DEF EntriesFail
  <2>2. ASSUME NEW upTo \in [S -> 0 .. MaxTill], EntriesDone(S, upTo)
        PROVE  states' = [p \in Peers |-> states'[p]] /\ \A p \in Peers : Same(p)
    BY <1>1, <1>3, <2>2 DEF EntriesDone
  <2>. QED  BY <2>1, <2>2 DEF AnswerEntries
<1>5. states' \in [Peers -> State]
  BY <1>4 DEF Whole, Requesting
<1>6. PendingIsCalled' /\ WillingIsTimed'
  BY <1>2, <1>4 DEF IInv, PendingIsCalled, WillingIsTimed, Willing
<1>7. asked' \in [SUBSET Peers -> 0 .. MaxEntries]
  BY <1>2, ConstantsAssumption DEF IInv, TypeOK
<1>8. IInv'
  BY <1>1, <1>2, <1>4, <1>5, <1>6, <1>7, WholeIs
<1>. QED  BY <1>4, <1>8 DEF ToldAdvances

LEMMA ServerSteps ==
  ASSUME IInv, Server  PROVE IInv' /\ ToldAdvances
<1>1. \A p \in Peers : Whole(states[p]) /\ states[p].read \in Nat
  BY IsWhole DEF Whole, Requesting, State
<1>2. Tills \subseteq Nat /\ 0 .. MaxTill \subseteq Nat
  BY ConstantsAssumption DEF Tills
<1>3. ASSUME NEW p \in Peers, NEW upTo \in Tills, NEW refresh \in BOOLEAN,
             ReadElsewhere(p, upTo, refresh)
      PROVE  IInv' /\ ToldAdvances
  <2>. DEFINE s == [states[p] EXCEPT !.read = upTo]
              t == IF refresh THEN RequestEntry(s) ELSE s
  <2>1. states[p].read <= upTo /\ Change(p, t)
    BY <1>1, <1>2, <1>3 DEF ReadElsewhere, Needs
  <2>2. Whole(s) /\ s.told = states[p].told /\ s.willTill = states[p].willTill
    BY <1>1, <1>2, <2>1, ReadsFurther
  <2>. HIDE DEF s
  <2>3. Whole(t) /\ SameReads(s, t)
    <3>1. CASE refresh
      <4>1. Requesting(t) /\ SameReads(s, t) /\ t.sent = s.sent /\ (t.pending \/ t.requested)
        BY <2>2, <3>1, AsksEntry DEF Whole
      <4>. HIDE DEF t
      <4>. QED  BY <2>2, <4>1, StaysWhole
    <3>2. CASE ~refresh
      BY <2>2, <3>2 DEF SameReads
    <3>. QED  BY <3>1, <3>2
  <2>. HIDE DEF t
  <2>. QED  BY <2>1, <2>2, <2>3, Changes DEF SameReads
<1>4. ASSUME NEW p \in Peers, NEW upTo \in 0 .. MaxTill, EntryTold(p, upTo)
      PROVE  IInv' /\ ToldAdvances
  <2>. DEFINE s == [states[p] EXCEPT !.read = Larger(@, upTo)]
              t == EntryApplied(s)
  <2>1. Change(p, t)
    BY <1>4 DEF EntryTold
  <2>2. /\ Larger(states[p].read, upTo) \in Nat
        /\ states[p].read <= Larger(states[p].read, upTo)
    BY <1>1, <1>2 DEF Larger
  <2>3. Whole(s) /\ s.told = states[p].told /\ s.willTill = states[p].willTill
    BY <1>1, <2>2, ReadsFurther
  <2>. HIDE DEF s
  <2>4. Whole(t) /\ t.told = s.told /\ t.willTill = s.willTill
    BY <2>3, AppliesEntry
  <2>. HIDE DEF t
  <2>. QED  BY <2>1, <2>3, <2>4, Changes
<1>. QED  BY <1>3, <1>4 DEF Server

LEMMA CallSteps ==
  ASSUME IInv, SendDialogRequests  PROVE IInv' /\ ToldAdvances
<1>. DEFINE now == {p \in Peers : states[p].pending}
            free == {p \in now : ~BlocksEntry(states[p])}
<1>1. /\ states \in [Peers -> State] /\ timer \in BOOLEAN
      /\ \A p \in Peers : Whole(states[p]) /\ states[p] \in State
  BY IsWhole DEF Whole, Requesting
<1>2. /\ states' = [p \in Peers |->
             IF p \notin now THEN states[p]
             ELSE [states[p] EXCEPT !.pending = FALSE, !.requested = TRUE,
                                    !.entryPostponed = @ \/ p \notin free]]
      /\ called' = FALSE /\ timer' = timer
      /\ asked[free] < MaxEntries
      /\ asked' = IF free = {} THEN asked ELSE [asked EXCEPT ![free] = @ + 1]
  BY DEF SendDialogRequests
<1>3. ASSUME NEW p \in Peers
      PROVE  /\ Whole(states'[p]) /\ states'[p].told = states[p].told
             /\ states'[p].willTill = states[p].willTill /\ ~states'[p].pending
  <2>1. CASE p \notin now
    BY <1>1, <1>2, <2>1
  <2>2. CASE p \in now
    <3>. DEFINE s == states[p]
                t == states'[p]
    <3>1. t = [s EXCEPT !.pending = FALSE, !.requested = TRUE,
                        !.entryPostponed = @ \/ BlocksEntry(s)]
      BY <1>2, <2>2
    <3>2. s \in State /\ Whole(s) /\ BlocksEntry(s) \in BOOLEAN
      BY <1>1 DEF BlocksEntry
    <3>3. s.entryPostponed \in BOOLEAN
      BY <3>2 DEF State
    <3>. HIDE DEF s, t
    <3>4. /\ t \in State /\ t.made = s.made /\ t.byRequest = s.byRequest
          /\ t.postponed = s.postponed /\ t.sent = s.sent
          /\ t.cancelled = s.cancelled
          /\ t.entryPostponed = (s.entryPostponed \/ BlocksEntry(s))
          /\ t.pending = FALSE /\ t.requested = TRUE /\ SameReads(s, t)
      BY <3>1, <3>2, <3>3 DEF State, SameReads
    <3>5. Requesting(t)
      BY <3>2, <3>4
      DEF Whole, Requesting, Numbered, HistoryYields, EntryWaits, Blocks, BlocksEntry
    <3>6. Whole(t)
      BY <3>2, <3>4, <3>5, StaysWhole
    <3>. QED  BY <3>4, <3>6 DEF SameReads, s, t
  <2>. QED  BY <2>1, <2>2
<1>4. states' \in [Peers -> State]
  BY <1>2, <1>3 DEF Whole, Requesting
<1>5. PendingIsCalled'
  BY <1>3 DEF PendingIsCalled
<1>6. Willing(states') = Willing(states)
  BY <1>3 DEF Willing
<1>7. free \in SUBSET Peers
  OBVIOUS
<1>. HIDE DEF now, free
<1>8. asked' \in [SUBSET Peers -> 0 .. MaxEntries]
  <2>1. asked \in [SUBSET Peers -> 0 .. MaxEntries]
    BY DEF IInv, TypeOK
  <2>2. asked[free] \in 0 .. MaxEntries
    BY <1>7, <2>1
  <2>3. asked[free] < MaxEntries /\ MaxEntries \in Nat
    BY <1>2, ConstantsAssumption
  <2>4. asked[free] + 1 \in 0 .. MaxEntries
    BY <2>2, <2>3
  <2>. QED  BY <1>2, <1>7, <2>1, <2>4
<1>9. WillingIsTimed'
  BY <1>2, <1>6 DEF IInv, WillingIsTimed
<1>10. called' \in BOOLEAN /\ timer' \in BOOLEAN
  BY <1>1, <1>2
<1>11. IInv'
  BY <1>3, <1>4, <1>5, <1>8, <1>9, <1>10, WholeIs
<1>. QED  BY <1>3, <1>11 DEF ToldAdvances

-----------------------------------------------------------------------------
(* The theorems.                                                           *)

LEMMA InitHolds ==
  ASSUME Init  PROVE IInv
<1>1. NewState \in State
  BY DEF NewState, State
<1>2. /\ Numbered(NewState) /\ HistoryYields(NewState) /\ EntryWaits(NewState)
      /\ ToldInOrder(NewState) /\ DoneAwaitsEntry(NewState)
      /\ NewState.byRequest = NewState.postponed \cup {r.n : r \in NewState.sent}
      /\ ~NewState.pending /\ NewState.willTill = 0
  BY DEF NewState, Numbered, HistoryYields, EntryWaits, ToldInOrder, DoneAwaitsEntry,
         Blocks, BlocksEntry
<1>3. states = [p \in Peers |-> NewState] /\ ~timer /\ ~called
  BY DEF Init
<1>4. asked \in [SUBSET Peers -> 0 .. MaxEntries]
  <2>1. 0 \in 0 .. MaxEntries
    BY ConstantsAssumption
  <2>. QED  BY <2>1 DEF Init
<1>5. timer \in BOOLEAN /\ called \in BOOLEAN
  BY DEF Init
<1>. QED
  BY <1>1, <1>2, <1>3, <1>4, <1>5
  DEF IInv, TypeOK, Sound, PendingIsCalled, WillingIsTimed, Willing

LEMMA Steps ==
  ASSUME IInv, [Next]_vars  PROVE IInv' /\ ToldAdvances
<1>1. CASE Next
  BY <1>1, UserSteps, TimerSteps, AnswerSteps, EntrySteps, ServerSteps, CallSteps
  DEF Next, Responses
<1>2. CASE UNCHANGED vars
  BY <1>2
  DEF vars, IInv, TypeOK, PendingIsCalled, WillingIsTimed, Willing, ToldAdvances
<1>. QED  BY <1>1, <1>2

(* The inductive invariant holds in every state.                           *)
THEOREM Invariance == Spec => []IInv
<1>1. Init => IInv
  BY InitHolds
<1>2. IInv /\ [Next]_vars => IInv'
  BY Steps
<1>. QED  BY <1>1, <1>2, PTL DEF Spec

(* Every state of every history is of its type, and a request that can be  *)
(* cancelled is postponed or in flight.                                    *)
THEOREM TypeCorrect == Spec => []TypeOK
<1>1. IInv => TypeOK
  BY DEF IInv
<1>. QED  BY <1>1, Invariance, PTL

(* No request for messages is in flight beside a delete.                   *)
THEOREM HistoryNeverBesideDelete == Spec => []NoHistoryBesideDelete
<1>1. IInv => NoHistoryBesideDelete
  BY DEF IInv, Sound, HistoryYields, NoHistoryBesideDelete
<1>. QED  BY <1>1, Invariance, PTL

(* What finishSentRequest() asserts of an entry it asks for again.         *)
THEOREM EntryAssertionsHold == Spec => []EntryPostponedIsBlocked
<1>1. IInv => EntryPostponedIsBlocked
  BY DEF IInv, Sound, EntryWaits, EntryPostponedIsBlocked
<1>. QED  BY <1>1, Invariance, PTL

(* A cancelled request is never sent again.                                *)
THEOREM CancelledStaysGone == Spec => []CancelledIsGone
<1>1. IInv => CancelledIsGone
  BY DEF IInv, TypeOK, Sound, Numbered, CancelledIsGone
<1>. QED  BY <1>1, Invariance, PTL

(* What is asserted of the reads that wait and that are answered.          *)
THEOREM ReadsStayInOrder == Spec => []ReadsInOrder
<1>1. IInv => ReadsInOrder
  <2>. SUFFICES ASSUME IInv, NEW p \in Peers
       PROVE  /\ WillIsLater(states[p]) /\ OlderReadsYield(states[p])
              /\ DoneAwaitsEntry(states[p])
    BY DEF ReadsInOrder
  <2>1. /\ states[p] \in State /\ ToldInOrder(states[p]) /\ DoneAwaitsEntry(states[p])
    BY DEF IInv, TypeOK, Sound
  <2>2. WillIsLater(states[p])
    BY <2>1 DEF WillIsLater, ToldInOrder, State
  <2>3. OlderReadsYield(states[p])
    BY <2>1 DEF OlderReadsYield, ToldInOrder, State, Requests
  <2>. QED  BY <2>1, <2>2, <2>3
<1>. QED  BY <1>1, Invariance, PTL

(* The server is never told of an earlier message than before.             *)
THEOREM ReadsOnlyAdvance == Spec => ReadsAdvance
<1>1. IInv /\ [Next]_vars => [ToldAdvances]_vars
  BY Steps
<1>. QED  BY <1>1, Invariance, PTL DEF Spec, ReadsAdvance, ToldAdvances

-----------------------------------------------------------------------------
(* Nothing is forgotten.                                                   *)

(* A GetPeerDialogs request for the entry is in flight.                    *)
InFlight(p) == \E S \in SUBSET Peers : p \in S /\ asked[S] > 0

(* Whatever there is to do for a history, something is to come that does   *)
(* it: the call that is postponed for a pending entry, the timer for a     *)
(* read that waits, a response for an entry that is asked for, and the end *)
(* of a request in flight for what is postponed.                           *)
NothingForgotten ==
  \A p \in Peers :
    /\ states[p].pending => called
    /\ states[p].willTill # 0 => timer
    /\ states[p].requested => states[p].entryPostponed \/ InFlight(p)
    /\ states[p].entryPostponed => BlocksEntry(states[p])
    /\ states[p].postponed # {} => Blocks(states[p])

\* The part of it that IInv does not hold.
EntryIsComing ==
  \A p \in Peers : states[p].requested => states[p].entryPostponed \/ InFlight(p)

\* No entry is newly asked for, and one that is postponed stays postponed
\* until it is no longer asked for.
EntryKept(s, t) ==
  t.requested => s.requested /\ (s.entryPostponed => t.entryPostponed)

LEMMA SendKeepsEntry ==
  ASSUME NEW s \in State, NEW kind, NEW till
  PROVE  EntryKept(s, SendRequest(s, kind, till))
<1>1. s.entryPostponed \in BOOLEAN /\ s.requested \in BOOLEAN
  BY DEF State
<1>. DEFINE n == s.made + 1
            a == [s EXCEPT !.made = n, !.byRequest = @ \cup {n}]
            u == [a EXCEPT !.sent = @ \cup {[n |-> n, kind |-> kind, till |-> till]}]
            B == BlocksEntry(u)
            v == [u EXCEPT !.entryPostponed = @ \/ (B /\ s.requested)]
<1>2. CASE kind = "history" /\ Blocks(s)
  <2>1. SendRequest(s, kind, till) = [a EXCEPT !.postponed = @ \cup {n}]
    BY <1>2 DEF SendRequest
  <2>. QED  BY <2>1 DEF EntryKept, State
<1>3. CASE ~(kind = "history" /\ Blocks(s))
  <2>1. SendRequest(s, kind, till) = Hold(v)
    BY <1>3 DEF SendRequest
  <2>2. /\ u.entryPostponed = s.entryPostponed /\ u.requested = s.requested
        /\ v.entryPostponed = (u.entryPostponed \/ (B /\ s.requested))
        /\ v.requested = u.requested
    <3>1. /\ u.entryPostponed = s.entryPostponed /\ u.requested = s.requested
          /\ v = [u EXCEPT !.entryPostponed = @ \/ (B /\ s.requested)]
      BY DEF State
    <3>2. "entryPostponed" \in DOMAIN u /\ "requested" \in DOMAIN u
      BY DEF State
    <3>. HIDE DEF B, u
    <3>. QED  BY <3>1, <3>2
  <2>3. EntryKept(s, v)
    <3>. HIDE DEF v, B, u
    <3>. QED  BY <2>2, <1>1 DEF EntryKept
  <2>4. Hold(v).entryPostponed = v.entryPostponed /\ Hold(v).requested = v.requested
    <3>. HIDE DEF v
    <3>. QED  BY DEF Hold
  <2>. QED  BY <2>1, <2>3, <2>4 DEF EntryKept
<1>. QED  BY <1>2, <1>3

LEMMA FinishKeepsEntry ==
  ASSUME NEW s \in State, NEW n
  PROVE  EntryKept(s, Finish(s, n))
<1>. DEFINE a == [s EXCEPT !.byRequest = @ \ {n}, !.sent = {r \in @ : r.n # n}]
            b == Release(a)
<1>1. /\ DOMAIN a = DOMAIN s
      /\ a.entryPostponed = s.entryPostponed /\ a.requested = s.requested
  BY DEF State
<1>2. Finish(s, n) = ReleaseEntry(b)
  BY DEF Finish
<1>. HIDE DEF a
<1>3. /\ DOMAIN b = DOMAIN a
      /\ b.entryPostponed = a.entryPostponed /\ b.requested = a.requested
  BY DEF Release, LetGo
<1>. HIDE DEF b
<1>4. "requested" \in DOMAIN b /\ "entryPostponed" \in DOMAIN b
  BY <1>1, <1>3 DEF State
<1>5. EntryKept(b, ReleaseEntry(b))
  BY <1>4 DEF ReleaseEntry, EntryKept
<1>. QED  BY <1>1, <1>2, <1>3, <1>5 DEF EntryKept

LEMMA ReadKeepsEntry ==
  ASSUME NEW s \in State
  PROVE  /\ EntryKept(s, RequestEntry(s))
         /\ EntryKept(s, EntryApplied(s))
         /\ EntryKept(s, SendRead(s))
<1>1. EntryKept(s, RequestEntry(s))
  BY DEF RequestEntry, EntryKept, State
<1>2. EntryKept(s, EntryApplied(s))
  <2>1. CASE s.entryPostponed
    BY <2>1 DEF EntryApplied, EntryKept
  <2>2. CASE ~s.entryPostponed
    <3>1. EntryApplied(s).requested = FALSE
      BY <2>2 DEF EntryApplied, State
    <3>. QED  BY <3>1 DEF EntryKept
  <2>. QED  BY <2>1, <2>2
<1>3. EntryKept(s, SendRead(s))
  <2>. DEFINE t == SendRequest(s, "read", s.willTill)
  <2>1. EntryKept(s, t)
    BY SendKeepsEntry
  <2>. HIDE DEF t
  <2>2. SendRead(s).requested = t.requested /\ SendRead(s).entryPostponed = t.entryPostponed
    BY DEF SendRead, t
  <2>. QED  BY <2>1, <2>2 DEF EntryKept
<1>. QED  BY <1>1, <1>2, <1>3

\* A step that leaves the entries and what is asked for alone.
LEMMA KeptIsComing ==
  ASSUME EntryIsComing, asked' = asked,
         \A p \in Peers : EntryKept(states[p], states'[p])
  PROVE  EntryIsComing'
  BY DEF EntryIsComing, InFlight, EntryKept

LEMMA ChangeKeeps ==
  ASSUME IInv, EntryIsComing, NEW p \in Peers, NEW t, EntryKept(states[p], t), Change(p, t)
  PROVE  EntryIsComing'
<1>1. states \in [Peers -> State]
  BY DEF IInv, TypeOK
<1>2. \A q \in Peers : EntryKept(states[q], states'[q])
  BY <1>1 DEF Change, Only, EntryKept
<1>3. asked' = asked
  BY DEF Change
<1>. QED  BY <1>2, <1>3, KeptIsComing

\* The states with a change to one history, and the reads that are due.
LEMMA ReadsKeep ==
  ASSUME IInv, NEW p \in Peers, NEW s \in State, EntryKept(states[p], s),
         NEW due
  PROVE  /\ SendDue(Only(p, s), due) \in [Peers -> {SendDue(Only(p, s), due)[q] : q \in Peers}]
         /\ \A q \in Peers : EntryKept(states[q], SendDue(Only(p, s), due)[q])
<1>1. states \in [Peers -> State]
  BY DEF IInv, TypeOK
<1>2. ASSUME NEW q \in Peers
      PROVE  EntryKept(states[q], SendDue(Only(p, s), due)[q])
  <2>. DEFINE new == Only(p, s)
  <2>1. new[q] \in State /\ EntryKept(states[q], new[q])
    BY <1>1 DEF Only, EntryKept
  <2>. HIDE DEF new
  <2>2. EntryKept(new[q], SendRead(new[q]))
    BY <2>1, ReadKeepsEntry
  <2>3. SendDue(new, due)[q] = IF q \in due THEN SendRead(new[q]) ELSE new[q]
    BY DEF SendDue
  <2>4. EntryKept(states[q], SendDue(new, due)[q])
    BY <2>1, <2>2, <2>3 DEF EntryKept
  <2>. QED  BY <2>4 DEF new
<1>3. SendDue(Only(p, s), due) \in [Peers -> {SendDue(Only(p, s), due)[q] : q \in Peers}]
  BY DEF SendDue
<1>. QED  BY <1>2, <1>3

LEMMA SendKeeps ==
  ASSUME IInv, EntryIsComing, NEW p \in Peers, NEW s \in State,
         EntryKept(states[p], s), NEW due, SendReads(Only(p, s), due), asked' = asked
  PROVE  EntryIsComing'
<1>1. states' = SendDue(Only(p, s), due)
  BY DEF SendReads
<1>. QED  BY <1>1, ReadsKeep, KeptIsComing

LEMMA UserKeeps ==
  ASSUME IInv, EntryIsComing, User  PROVE EntryIsComing'
<1>1. \A p \in Peers : states[p] \in State /\ states[p].read \in Nat
  BY IsWhole DEF Whole, Requesting, State
<1>2. Tills \subseteq Nat /\ 0 .. MaxTill \subseteq Nat
  BY ConstantsAssumption DEF Tills
\* A read that is wanted, or no longer waits: the entry is not looked at.
<1>3. ASSUME NEW p \in Peers, NEW till \in Nat, NEW wait \in BOOLEAN, NEW upTo \in Nat
      PROVE  LET s == [states[p] EXCEPT !.willTill = till, !.willWait = wait, !.read = upTo]
             IN  s \in State /\ EntryKept(states[p], s)
  BY <1>1 DEF State, EntryKept
<1>4. ASSUME NEW p \in Peers, NEW upTo \in Nat
      PROVE  LET s == [states[p] EXCEPT !.willWait = FALSE, !.read = upTo]
             IN  s \in State /\ EntryKept(states[p], s)
  BY <1>1 DEF State, EntryKept
<1>5. ASSUME NEW p \in Peers, NEW till \in Tills
      PROVE  EntryKept(states[p], [states[p] EXCEPT !.read = Larger(@, till)])
  BY <1>1 DEF State, EntryKept
<1>6. ASSUME NEW p \in Peers, NEW kind \in Kinds, Send(p, kind)
      PROVE  EntryIsComing'
  BY <1>1, <1>6, SendKeepsEntry, ChangeKeeps DEF Send
<1>7. ASSUME NEW p \in Peers, NEW n \in states[p].byRequest, Cancel(p, n)
      PROVE  EntryIsComing'
  <2>. DEFINE a == [states[p] EXCEPT !.postponed = @ \ {n}]
              b == Finish(a, n)
              t == [b EXCEPT !.cancelled = @ \cup {n}]
  <2>1. a \in State /\ EntryKept(states[p], a)
    BY <1>1 DEF State, EntryKept
  <2>. HIDE DEF a
  <2>2. EntryKept(a, b)
    BY <2>1, FinishKeepsEntry
  <2>. HIDE DEF b
  <2>3. t.requested = b.requested /\ t.entryPostponed = b.entryPostponed
    OBVIOUS
  <2>. HIDE DEF t
  <2>4. EntryKept(states[p], t)
    BY <2>1, <2>2, <2>3 DEF EntryKept
  <2>5. Change(p, t)
    BY <1>7 DEF Cancel, t, b, a
  <2>. QED  BY <2>4, <2>5, ChangeKeeps
<1>8. ASSUME NEW p \in Peers, NEW till \in Tills, NEW force \in BOOLEAN,
             ReadIgnored(p, till, force) \/ ReadSame(p, till)
      PROVE  EntryIsComing'
  BY <1>5, <1>8, ChangeKeeps DEF ReadIgnored, ReadSame
<1>9. ASSUME NEW p \in Peers, NEW till \in Tills, NEW upTo \in Tills,
             ReadLater(p, till, upTo)
      PROVE  EntryIsComing'
  <2>. DEFINE u(w) == [states[p] EXCEPT !.willTill = till, !.willWait = w, !.read = upTo]
  <2>1. states \in [Peers -> State]
    BY DEF IInv, TypeOK
  <2>2. till \in Nat /\ upTo \in Nat
    BY <1>2
  <2>3. \A w \in BOOLEAN : EntryKept(states[p], u(w))
    BY <1>3, <2>2
  <2>4. states' = Only(p, u(TRUE)) /\ asked' = asked
    BY <1>9 DEF ReadLater
  <2>. HIDE DEF u
  <2>5. \A q \in Peers : EntryKept(states[q], states'[q])
    BY <2>1, <2>3, <2>4 DEF Only, EntryKept
  <2>. QED  BY <2>4, <2>5, KeptIsComing
<1>10. ASSUME NEW p \in Peers, NEW till \in Tills, NEW force \in BOOLEAN,
              NEW upTo \in 0 .. MaxTill, NEW due, ReadNow(p, till, force, upTo, due)
       PROVE  EntryIsComing'
  <2>. DEFINE u(w) == [states[p] EXCEPT !.willTill = till, !.willWait = w, !.read = upTo]
  <2>1. till \in Nat /\ upTo \in Nat
    BY <1>2
  <2>2. \A w \in BOOLEAN : u(w) \in State /\ EntryKept(states[p], u(w))
    BY <1>3, <2>1
  <2>3. SendReads(Only(p, u(FALSE)), due) /\ asked' = asked
    BY <1>10 DEF ReadNow
  <2>. HIDE DEF u
  <2>. QED  BY <2>2, <2>3, SendKeeps
<1>11. ASSUME NEW p \in Peers, NEW till \in Tills, NEW upTo \in 0 .. MaxTill, NEW due,
              ReadForced(p, till, upTo, due)
       PROVE  EntryIsComing'
  <2>. DEFINE s == [states[p] EXCEPT !.willWait = FALSE, !.read = upTo]
  <2>1. s \in State /\ EntryKept(states[p], s)
    BY <1>2, <1>4
  <2>2. SendReads(Only(p, s), due) /\ asked' = asked
    BY <1>11 DEF ReadForced
  <2>. HIDE DEF s
  <2>. QED  BY <2>1, <2>2, SendKeeps
<1>12. ASSUME NEW p \in Peers, NEW due, SendPending(p, due)
       PROVE  EntryIsComing'
  <2>. DEFINE s == [states[p] EXCEPT !.willWait = FALSE]
  <2>1. s \in State /\ EntryKept(states[p], s)
    BY <1>1 DEF State, EntryKept
  <2>2. SendReads(Only(p, s), due) /\ asked' = asked
    BY <1>12 DEF SendPending
  <2>. HIDE DEF s
  <2>. QED  BY <2>1, <2>2, SendKeeps
<1>13. ASSUME NEW p \in Peers, AskEntry(p)
       PROVE  EntryIsComing'
  BY <1>1, <1>13, ReadKeepsEntry, ChangeKeeps DEF AskEntry
<1>. QED
  BY <1>6, <1>7, <1>8, <1>9, <1>10, <1>11, <1>12, <1>13 DEF User

LEMMA TimerKeeps ==
  ASSUME IInv, EntryIsComing, Timer  PROVE EntryIsComing'
<1>1. PICK due \in SUBSET Peers : states' = SendDue(states, due) /\ asked' = asked
  BY DEF Timer, ReadTimer, SendReads
<1>2. \A q \in Peers : EntryKept(states[q], states'[q])
  <2>1. \A q \in Peers : EntryKept(states[q], SendRead(states[q]))
    BY ReadKeepsEntry DEF IInv, TypeOK
  <2>. QED  BY <1>1, <2>1 DEF SendDue, EntryKept
<1>. QED  BY <1>1, <1>2, KeptIsComing

LEMMA AnswerKeeps ==
  ASSUME IInv, EntryIsComing, NEW p \in Peers, NEW r \in states[p].sent, Answer(p, r)
  PROVE  EntryIsComing'
<1>1. /\ states \in [Peers -> State]
      /\ Whole(states[p]) /\ states[p] \in State
  BY IsWhole DEF Whole, Requesting
<1>2. CASE Respond(p, r)
  BY <1>1, <1>2, FinishKeepsEntry, ChangeKeeps DEF Respond
<1>3. CASE RespondPart(p, r)
  <2>. DEFINE u == SendRequest(states[p], "delete", 0)
              t == Finish(u, r.n)
  <2>1. u \in State
    BY <1>1, SendsWhole DEF AllKinds, Whole, Requesting
  <2>2. EntryKept(states[p], u)
    BY <1>1, SendKeepsEntry
  <2>3. Change(p, t)
    BY <1>3 DEF RespondPart
  <2>. HIDE DEF u
  <2>4. EntryKept(u, t)
    BY <2>1, FinishKeepsEntry
  <2>. HIDE DEF t
  <2>5. EntryKept(states[p], t)
    BY <2>2, <2>4 DEF EntryKept
  <2>. QED  BY <2>3, <2>5, ChangeKeeps
<1>4. ASSUME NEW refresh \in BOOLEAN, NEW due, RespondRead(p, r, refresh, due)
      PROVE  EntryIsComing'
  <2>. DEFINE s == Answered(states[p], r, refresh)
              new == Only(p, s)
              sent == SendDue(new, due)
  <2>1. /\ states[p].read < r.till => refresh
        /\ due \in Dues(new) /\ states' = [sent EXCEPT ![p] = Finish(@, r.n)]
        /\ asked' = asked /\ r.kind = "read"
    BY <1>4 DEF RespondRead
  <2>2. Whole(s) /\ s \in State
    BY <1>1, <2>1, Answers DEF Whole, Requesting
  <2>3. EntryKept(states[p], s)
    <3>. DEFINE a == [states[p] EXCEPT !.sentDone = TRUE]
                b == [states[p] EXCEPT !.sentDone = TRUE, !.sentTill = 0]
    <3>1. a \in State /\ EntryKept(states[p], a) /\ EntryKept(states[p], b)
      BY <1>1 DEF State, EntryKept
    <3>2. s = states[p] \/ s = RequestEntry(a) \/ s = b
      BY DEF Answered
    <3>. HIDE DEF a, b, s
    <3>3. EntryKept(a, RequestEntry(a))
      BY <3>1, ReadKeepsEntry
    <3>. QED  BY <3>1, <3>2, <3>3 DEF EntryKept
  <2>. HIDE DEF s
  <2>4. /\ new \in [Peers -> State]
        /\ \A q \in Peers : new[q] = IF q = p THEN s ELSE states[q]
    BY <1>1, <2>2 DEF Only
  <2>5. \A q \in Peers : EntryKept(states[q], sent[q])
    BY <2>2, <2>3, ReadsKeep
  <2>6. sent[p] \in State
    <3>. HIDE DEF new
    <3>1. due \subseteq Willing(new) /\ \A q \in Peers : Whole(new[q])
      BY <2>1, <2>2, <2>4, IsWhole DEF Dues
    <3>. QED  BY <2>4, <3>1, SendsDue
  <2>7. DOMAIN sent = Peers
    BY DEF SendDue
  <2>. HIDE DEF new, sent
  <2>8. EntryKept(sent[p], Finish(sent[p], r.n))
    BY <2>6, FinishKeepsEntry
  <2>9. \A q \in Peers : EntryKept(states[q], states'[q])
    <3>1. \A q \in Peers : states'[q] = IF q = p THEN Finish(sent[p], r.n) ELSE sent[q]
      BY <2>1, <2>7
    <3>. QED  BY <2>5, <2>8, <3>1 DEF EntryKept
  <2>. QED  BY <2>1, <2>9, KeptIsComing
<1>. QED  BY <1>2, <1>3, <1>4 DEF Answer

LEMMA ServerKeeps ==
  ASSUME IInv, EntryIsComing, Server  PROVE EntryIsComing'
<1>1. \A p \in Peers : states[p] \in State /\ states[p].read \in Nat
  BY IsWhole DEF Whole, Requesting, State
<1>2. Tills \subseteq Nat /\ 0 .. MaxTill \subseteq Nat
  BY ConstantsAssumption DEF Tills
<1>3. ASSUME NEW p \in Peers, NEW upTo \in Nat
      PROVE  LET s == [states[p] EXCEPT !.read = upTo] IN
             /\ s \in State /\ EntryKept(states[p], s)
             /\ EntryKept(states[p], RequestEntry(s)) /\ EntryKept(states[p], EntryApplied(s))
  <2>. DEFINE s == [states[p] EXCEPT !.read = upTo]
  <2>1. s \in State /\ EntryKept(states[p], s)
    BY <1>1 DEF State, EntryKept
  <2>. HIDE DEF s
  <2>2. EntryKept(s, RequestEntry(s)) /\ EntryKept(s, EntryApplied(s))
    BY <2>1, ReadKeepsEntry
  <2>3. EntryKept(states[p], RequestEntry(s)) /\ EntryKept(states[p], EntryApplied(s))
    BY <2>1, <2>2 DEF EntryKept
  <2>. QED  BY <2>1, <2>3 DEF s
<1>4. ASSUME NEW p \in Peers, NEW upTo \in Tills, NEW refresh \in BOOLEAN,
             ReadElsewhere(p, upTo, refresh)
      PROVE  EntryIsComing'
  <2>. DEFINE s == [states[p] EXCEPT !.read = upTo]
              t == IF refresh THEN RequestEntry(s) ELSE s
  <2>1. EntryKept(states[p], s) /\ EntryKept(states[p], RequestEntry(s))
    BY <1>2, <1>3
  <2>2. Change(p, t)
    BY <1>4 DEF ReadElsewhere
  <2>. HIDE DEF s
  <2>3. EntryKept(states[p], t)
    BY <2>1
  <2>. HIDE DEF t
  <2>. QED  BY <2>2, <2>3, ChangeKeeps
<1>5. ASSUME NEW p \in Peers, NEW upTo \in 0 .. MaxTill, EntryTold(p, upTo)
      PROVE  EntryIsComing'
  <2>. DEFINE up == Larger(states[p].read, upTo)
              t == EntryApplied([states[p] EXCEPT !.read = up])
  <2>1. up \in Nat
    BY <1>1, <1>2 DEF Larger
  <2>2. Change(p, t)
    BY <1>5 DEF EntryTold
  <2>. HIDE DEF up
  <2>3. EntryKept(states[p], t)
    BY <1>3, <2>1
  <2>. HIDE DEF t
  <2>. QED  BY <2>2, <2>3, ChangeKeeps
<1>. QED  BY <1>4, <1>5 DEF Server

\* The entries come, or do not: nothing of those histories is asked for,
\* unless it is postponed; other requests stay in flight.
LEMMA EntriesKeep ==
  ASSUME IInv, EntryIsComing, NEW S \in SUBSET Peers, AnswerEntries(S)
  PROVE  EntryIsComing'
<1>1. /\ states \in [Peers -> State] /\ asked \in [SUBSET Peers -> 0 .. MaxEntries]
  BY DEF IInv, TypeOK
<1>2. asked' = [asked EXCEPT ![S] = @ - 1]
  BY DEF AnswerEntries, EntriesDone, EntriesFail
<1>3. ASSUME NEW s \in State  PROVE EntryApplied(s).requested => EntryApplied(s).entryPostponed
  <2>1. CASE s.entryPostponed
    BY <2>1 DEF EntryApplied
  <2>2. CASE ~s.entryPostponed
    BY <2>2 DEF EntryApplied, State
  <2>. QED  BY <2>1, <2>2
<1>4. \A q \in Peers : /\ q \in S => (states'[q].requested => states'[q].entryPostponed)
                       /\ q \notin S => states'[q] = states[q]
  <2>1. CASE EntriesFail(S)
    BY <1>1, <1>3, <2>1 DEF EntriesFail
  <2>2. ASSUME NEW upTo \in [S -> 0 .. MaxTill], EntriesDone(S, upTo)
        PROVE  \A q \in Peers :
                 /\ q \in S => (states'[q].requested => states'[q].entryPostponed)
                 /\ q \notin S => states'[q] = states[q]
    <3>1. ASSUME NEW q \in S
          PROVE  [states[q] EXCEPT !.read = Larger(@, upTo[q])] \in State
      <4>1. states[q] \in State /\ states[q].read \in Nat /\ upTo[q] \in Nat
        BY <1>1, ConstantsAssumption DEF State
      <4>2. Larger(states[q].read, upTo[q]) \in Nat
        BY <4>1 DEF Larger
      <4>. QED  BY <4>1, <4>2 DEF State
    <3>2. states' = [q \in Peers |->
                       IF q \in S
                       THEN EntryApplied([states[q] EXCEPT !.read = Larger(@, upTo[q])])
                       ELSE states[q]]
      BY <2>2 DEF EntriesDone
    <3>. QED  BY <1>3, <3>1, <3>2
  <2>. QED  BY <2>1, <2>2 DEF AnswerEntries
<1>5. ASSUME NEW q \in Peers, q \notin S, InFlight(q)  PROVE InFlight(q)'
  <2>1. PICK T \in SUBSET Peers : q \in T /\ asked[T] > 0
    BY <1>5 DEF InFlight
  <2>2. T # S /\ asked'[T] = asked[T]
    BY <1>1, <1>2, <1>5, <2>1
  <2>. QED  BY <2>1, <2>2 DEF InFlight
<1>6. ASSUME NEW q \in Peers, states'[q].requested
      PROVE  states'[q].entryPostponed \/ InFlight(q)'
  <2>1. CASE q \in S
    BY <1>4, <1>6, <2>1, Zenon
  <2>2. CASE q \notin S
    <3>1. states'[q] = states[q]
      BY <1>4, <2>2
    <3>2. CASE states[q].entryPostponed
      BY <3>1, <3>2
    <3>3. CASE ~states[q].entryPostponed
      <4>1. InFlight(q)
        BY <1>6, <3>1, <3>3, Zenon DEF EntryIsComing
      <4>. QED  BY <1>5, <2>2, <4>1
    <3>. QED  BY <3>2, <3>3
  <2>. QED  BY <2>1, <2>2
<1>. QED  BY <1>6 DEF EntryIsComing

\* What is pending is asked for, or postponed.
LEMMA CallKeeps ==
  ASSUME IInv, EntryIsComing, SendDialogRequests  PROVE EntryIsComing'
<1>. DEFINE now == {p \in Peers : states[p].pending}
            free == {p \in now : ~BlocksEntry(states[p])}
<1>1. /\ states \in [Peers -> State] /\ asked \in [SUBSET Peers -> 0 .. MaxEntries]
      /\ free \in SUBSET Peers
  BY DEF IInv, TypeOK
<1>2. /\ states' = [p \in Peers |->
             IF p \notin now THEN states[p]
             ELSE [states[p] EXCEPT !.pending = FALSE, !.requested = TRUE,
                                    !.entryPostponed = @ \/ p \notin free]]
      /\ asked' = IF free = {} THEN asked ELSE [asked EXCEPT ![free] = @ + 1]
  BY DEF SendDialogRequests
<1>3. \A p \in Peers : /\ p \notin now => states'[p] = states[p]
                       /\ p \in now /\ p \notin free => states'[p].entryPostponed
  BY <1>1, <1>2 DEF State
<1>. HIDE DEF now, free
<1>4. ASSUME NEW T \in SUBSET Peers
      PROVE  /\ asked[T] \in Nat
             /\ asked'[T] = IF T = free /\ free # {} THEN asked[T] + 1 ELSE asked[T]
  <2>1. asked[T] \in 0 .. MaxEntries /\ DOMAIN asked = SUBSET Peers
    BY <1>1
  <2>2. asked'[T] = IF T = free /\ free # {} THEN asked[T] + 1 ELSE asked[T]
    BY <1>2, <2>1
  <2>. QED  BY <2>1, <2>2
<1>5. ASSUME NEW p \in free  PROVE InFlight(p)'
  <2>1. asked'[free] = asked[free] + 1 /\ asked[free] \in Nat
    BY <1>1, <1>4, <1>5
  <2>2. asked'[free] > 0
    BY <2>1
  <2>. QED  BY <1>1, <2>2 DEF InFlight
<1>6. ASSUME NEW p \in Peers, InFlight(p)  PROVE InFlight(p)'
  <2>1. PICK T \in SUBSET Peers : p \in T /\ asked[T] > 0
    BY <1>6 DEF InFlight
  <2>2. asked'[T] > 0
    <3>1. asked[T] \in Nat /\ (asked'[T] = asked[T] + 1 \/ asked'[T] = asked[T])
      BY <1>4
    <3>. QED  BY <2>1, <3>1
  <2>. QED  BY <2>1, <2>2 DEF InFlight
<1>7. ASSUME NEW p \in Peers, states'[p].requested
      PROVE  states'[p].entryPostponed \/ InFlight(p)'
  <2>1. CASE p \in free
    BY <1>5, <2>1
  <2>2. CASE p \in now /\ p \notin free
    BY <1>3, <2>2
  <2>3. CASE p \notin now
    <3>1. states'[p] = states[p]
      BY <1>3, <2>3, Zenon
    <3>2. CASE states[p].entryPostponed
      BY <3>1, <3>2
    <3>3. CASE ~states[p].entryPostponed
      <4>1. InFlight(p)
        BY <1>7, <3>1, <3>3, Zenon DEF EntryIsComing
      <4>. QED  BY <1>6, <4>1
    <3>. QED  BY <3>2, <3>3
  <2>. QED  BY <2>1, <2>2, <2>3
<1>. QED  BY <1>7 DEF EntryIsComing

(* For whatever waits in a history something is to come that goes on with  *)
(* it: no call is missing, no timer is stopped, no response is left out.   *)
THEOREM NothingIsForgotten == Spec => []NothingForgotten
<1>1. Init => EntryIsComing
  BY DEF Init, NewState, EntryIsComing
<1>2. IInv /\ EntryIsComing /\ [Next]_vars => EntryIsComing'
  <2>1. ASSUME IInv, EntryIsComing, Next  PROVE EntryIsComing'
    BY <2>1, UserKeeps, TimerKeeps, AnswerKeeps, EntriesKeep, ServerKeeps, CallKeeps
    DEF Next, Responses
  <2>2. ASSUME EntryIsComing, UNCHANGED vars  PROVE EntryIsComing'
    BY <2>2 DEF vars, EntryIsComing, InFlight
  <2>. QED  BY <2>1, <2>2
<1>3. IInv /\ EntryIsComing => NothingForgotten
  BY DEF NothingForgotten, EntryIsComing, IInv, PendingIsCalled, WillingIsTimed, Willing,
         Sound, EntryWaits, HistoryYields
<1>. QED  BY <1>1, <1>2, <1>3, Invariance, PTL DEF Spec

==============================================================================
