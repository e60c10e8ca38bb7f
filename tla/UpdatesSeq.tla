----------------------------- MODULE UpdatesSeq ------------------------------
(***************************************************************************)
(* The seq containers of Api::Updates (api/api_updates.cpp): the server    *)
(* numbers the updates and updatesCombined containers it pushes; one that  *)
(* comes early waits in _bySeqUpdates, at most until _bySeqTimer asks for  *)
(* a difference.                                                           *)
(*                                                                         *)
(* A container covers the seq values from start to seq.  What is inside it *)
(* is the matter of module Updates, but for one thing: an update that      *)
(* cannot be placed makes feedUpdate() ask for a difference in the middle. *)
(* Containers come as pushes: the results of requests carry no seq.        *)
(***************************************************************************)
EXTENDS Integers, FiniteSets

CONSTANTS
  MaxSeq,   \* bound: the server stops producing there
  Lengths   \* how many seq values a container takes

ASSUME ConstantsAssumption ==
  /\ MaxSeq \in Nat
  /\ Lengths \subseteq Nat \ {0}

VARIABLES
  updatesSeq,  \* _updatesSeq
  buffer,      \* _bySeqUpdates
  seqTimer,    \* _bySeqTimer is active
  requesting,  \* _ptsWaiter.requesting()
  diff,        \* the GetState or GetDifference request, if one is in flight
  failTimer,   \* _getDifferenceTimeAfterFail # 0
  sseq,        \* server: the seq of its latest container
  net,         \* the containers on their way
  fed,         \* history: the seq values fed or covered by a difference
  again        \* history: those fed after that

vars == <<updatesSeq, buffer, seqTimer, requesting, diff, failTimer, sseq, net, fed, again>>

Containers == [start : Nat, seq : Nat]

Stages == {"idle", "state", "asked", "slice", "whole", "error"}

Covers(c) == c.start .. c.seq

-----------------------------------------------------------------------------
(* The server and the network.                                             *)

Produce(n) ==
  /\ sseq + n <= MaxSeq
  /\ sseq' = sseq + n
  /\ net' = net \cup {[start |-> sseq + 1, seq |-> sseq + n]}
  /\ UNCHANGED <<updatesSeq, buffer, seqTimer, requesting, diff, failTimer, fed, again>>

Lose(c) ==
  /\ net' = net \ {c}
  /\ UNCHANGED <<updatesSeq, buffer, seqTimer, requesting, diff, failTimer, sseq, fed, again>>

\* A state is whole; a difference can also be a slice, or fail.
Answer(stage) ==
  /\ \/ diff.stage = "asked"
     \/ diff.stage = "state" /\ stage = "whole"
  /\ diff' = [stage |-> stage, seq |-> sseq]
  /\ UNCHANGED <<updatesSeq, buffer, seqTimer, requesting, failTimer, sseq, net, fed, again>>

-----------------------------------------------------------------------------
(* The client.                                                             *)

\* getDifference(): what was buffered comes with the difference.
Ask ==
  /\ buffer' = {}
  /\ seqTimer' = FALSE
  /\ requesting' = TRUE
  /\ diff' = [stage |-> "asked", seq |-> 0]
  /\ failTimer' = FALSE

GetDifference ==
  IF requesting
  THEN UNCHANGED <<buffer, seqTimer, requesting, diff, failTimer>>
  ELSE Ask

\* setState() called for a container that ends at seq: it goes on with the
\* buffered ones that connect, each to seq or to another of them.
Connected(seq, B) ==
  UNION {C \in SUBSET {c \in B : c.start > seq} :
           \A c \in C : c.start = seq + 1 \/ \E d \in C : c.start = d.seq + 1}

Reached(seq, B) ==
  LET ends == {seq} \cup {c.seq : c \in Connected(seq, B)}
  IN  CHOOSE s \in ends : \A e \in ends : e <= s

\* Slip: one more than the next.
LaterByTwo(seq, B) == {c \in B : c.start > seq + 2}

Later(seq, B) == {c \in B : c.start > seq + 1}

Record(C) ==
  /\ fed' = fed \cup UNION {Covers(c) : c \in C}
  /\ again' = again \cup (fed \cap UNION {Covers(c) : c \in C})

\* Slip: the timer is stopped for good.
FeedAllUntimed(c) ==
  LET last == Reached(c.seq, buffer)
  IN  /\ updatesSeq' = last
      /\ buffer' = Later(last, buffer)
      /\ seqTimer' = FALSE
      /\ Record({c} \cup Connected(c.seq, buffer))
      /\ UNCHANGED <<requesting, diff, failTimer>>

\* applyUpdates() of a container that comes in turn, and of what was waiting
\* for it.
FeedAll(c) ==
  LET last == Reached(c.seq, buffer)
      rest == Later(last, buffer)
  IN  /\ updatesSeq' = last
      /\ buffer' = rest
      /\ seqTimer' = (rest # {})
      /\ Record({c} \cup Connected(c.seq, buffer))
      /\ UNCHANGED <<requesting, diff, failTimer>>

\* The same, up to a container d with an update that cannot be placed.
FeedAndAsk(c, d) ==
  /\ Ask
  /\ updatesSeq' = d.seq
  /\ Record({c} \cup {e \in Connected(c.seq, buffer) : e.seq <= d.seq})

Buffer(c) ==
  /\ buffer' = buffer \cup {c}
  /\ seqTimer' = TRUE
  /\ UNCHANGED <<updatesSeq, requesting, diff, failTimer, fed, again>>

Skip ==
  UNCHANGED <<updatesSeq, buffer, seqTimer, requesting, diff, failTimer, fed, again>>

\* Slip: < for <=.
StaleBefore(c) == c.start < updatesSeq

Stale(c) == c.start <= updatesSeq

\* Slip: one more than the next.
EarlyByTwo(c) == c.start > updatesSeq + 2

Early(c) == c.start > updatesSeq + 1

Receive(c) ==
  /\ net' = net \ {c}
  /\ UNCHANGED sseq
  /\ \/ (requesting \/ Stale(c)) /\ Skip
     \/ ~requesting /\ Early(c) /\ Buffer(c)
     \/ /\ ~requesting /\ ~Stale(c) /\ ~Early(c)
        /\ \/ FeedAll(c)
           \/ \E d \in {c} \cup Connected(c.seq, buffer) : FeedAndAsk(c, d)

\* _bySeqTimer.
SeqTimer ==
  /\ seqTimer
  /\ IF requesting
     THEN seqTimer' = FALSE /\ UNCHANGED <<buffer, requesting, diff, failTimer>>
     ELSE Ask
  /\ UNCHANGED <<updatesSeq, sseq, net, fed, again>>

\* A gap in the pts, updatesTooLong and the like.
Resync ==
  /\ GetDifference
  /\ UNCHANGED <<updatesSeq, sseq, net, fed, again>>

\* mtpNewSessionCreated().
NewSession ==
  /\ updatesSeq' = 0
  /\ GetDifference
  /\ UNCHANGED <<sseq, net, fed, again>>

\* setState() with the seq of a state: zero tells nothing.
StateSeq == IF diff.seq = 0 THEN updatesSeq ELSE diff.seq

\* stateDone() and the whole difference.  Nothing is buffered while asking.
DifferenceDone ==
  /\ diff.stage = "whole"
  /\ updatesSeq' = StateSeq
  /\ fed' = fed \cup 1 .. diff.seq
  /\ requesting' = FALSE
  /\ diff' = [stage |-> "idle", seq |-> 0]
  /\ UNCHANGED <<buffer, seqTimer, failTimer, sseq, net, again>>

DifferenceSlice ==
  /\ diff.stage = "slice"
  /\ updatesSeq' = StateSeq
  /\ fed' = fed \cup 1 .. diff.seq
  /\ Ask
  /\ UNCHANGED <<sseq, net, again>>

DifferenceFail ==
  /\ diff.stage = "error"
  /\ failTimer' = TRUE
  /\ diff' = [stage |-> "idle", seq |-> 0]
  /\ UNCHANGED <<updatesSeq, buffer, seqTimer, requesting, sseq, net, fed, again>>

FailTimer ==
  /\ failTimer
  /\ Ask
  /\ UNCHANGED <<updatesSeq, sseq, net, fed, again>>

-----------------------------------------------------------------------------
Init ==
  /\ updatesSeq = 0
  /\ buffer = {}
  /\ seqTimer = FALSE
  /\ requesting = TRUE
  /\ diff = [stage |-> "state", seq |-> 0]
  /\ failTimer = FALSE
  /\ sseq = 0
  /\ net = {}
  /\ fed = {}
  /\ again = {}

Respond ==
  \/ DifferenceDone
  \/ DifferenceSlice
  \/ DifferenceFail

Next ==
  \/ \E n \in Lengths : Produce(n)
  \/ \E c \in net : Lose(c)
  \/ \E stage \in {"slice", "whole", "error"} : Answer(stage)
  \/ \E c \in net : Receive(c)
  \/ SeqTimer
  \/ Resync
  \/ NewSession
  \/ Respond
  \/ FailTimer

Spec == Init /\ [][Next]_vars

\* The event loop runs the timers that are set and the responses that came;
\* a server that is asked again and again ends with a whole answer.
Fairness ==
  /\ WF_vars(SeqTimer)
  /\ WF_vars(FailTimer)
  /\ WF_vars(Respond)
  /\ SF_vars(Answer("whole"))

FairSpec == Spec /\ Fairness

-----------------------------------------------------------------------------
TypeOK ==
  /\ updatesSeq \in Nat
  /\ buffer \subseteq Containers
  /\ seqTimer \in BOOLEAN
  /\ requesting \in BOOLEAN
  /\ diff \in [stage : Stages, seq : Nat]
  /\ failTimer \in BOOLEAN
  /\ sseq \in Nat
  /\ net \subseteq Containers
  /\ fed \subseteq Nat
  /\ again \subseteq Nat

(* The seq the client counts to leaves no container behind: each was fed   *)
(* or a difference covers it.                                              *)
NoContainerSkipped == 1 .. updatesSeq \subseteq fed

(* No container is fed after a difference that covers it, or twice, late   *)
(* and reordered pushes and new sessions included.                         *)
NoContainerTwice == again = {}

(* The client lets go of a container, buffered or stale, only if all of it *)
(* was fed or covered, or while a difference is being asked for.           *)
NothingDropped ==
  [][\A c \in net \cup buffer :
       c \in (net \cup buffer)' \/ Lose(c) \/ requesting' \/ Covers(c) \subseteq fed']_vars

(* Whatever waits is reached in the end.                                   *)
BufferedIsReached ==
  \A s \in 1 .. MaxSeq :
    (\E c \in buffer : c.seq = s) ~> (buffer = {} /\ updatesSeq >= s)

=============================================================================
