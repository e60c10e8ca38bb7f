------------------------------- MODULE Session -------------------------------
(***************************************************************************)
(* One MTProto session: the requests of Instance and Session in the main   *)
(* thread, and SessionPrivate in a thread of its own, which sends them by  *)
(* a connection that breaks, resends them, and hears of them from a server *)
(* that may lose, refuse or forget what it was sent.                       *)
(*                                                                         *)
(* A msg_id is the number of the request it was given to among all that    *)
(* were given one; containers are the ids in them, state requests the ids  *)
(* they ask about.  Of the times only their order is left: whether a       *)
(* timer is active, and not when.  The maps are guarded by locks, and a    *)
(* request that was taken from one and is not in the other yet is in the   *)
(* hands of the session's thread.                                          *)
(***************************************************************************)
EXTENDS Integers, Sequences, FiniteSets, FiniteSetsExt

CONSTANTS
  Requests,   \* the requests, by their ids
  AckedSize,  \* kIdsBufferSize, for the answered messages
  SeenSize,   \* kIdsBufferSize, for the messages of the server
  MaxFaults,  \* bound: what goes wrong on the way or in the server
  MaxUp,      \* bound: packets on their way to the server
  MaxErrors   \* bound: answers after which a request is to be repeated

ASSUME SessionAssumption ==
  /\ Requests \subseteq Nat \ {0} /\ IsFiniteSet(Requests)
  /\ AckedSize \in Nat \ {0} /\ SeenSize \in Nat \ {0}
  /\ MaxUp \in Nat \ {0} /\ MaxFaults \in Nat /\ MaxErrors \in Nat

VARIABLES
  \* Instance::Private and Session, in the main thread.
  call,        \* "open" while the request has its callback and its entry
  delayed,     \* _delayedRequests
  \* SessionData, shared.
  toSend,      \* toSendMap()
  haveSent,    \* haveSentMap()
  received,    \* haveReceivedMessages()
  \* SessionPrivate, in its own thread.
  owner,       \* the request each msg_id was given to
  msgId,       \* the msg_id a request has, or 0
  forced,      \* forceSendInContainer
  resending,   \* _resendingIds
  acked,       \* _ackedIds
  containers,  \* _sentContainers
  timer,       \* _checkSentRequestsTimer is active
  wake,        \* tryToSend() is to be called
  started,     \* _sessionMarkedAsStarted
  seen,        \* _receivedMessageIds
  connected,   \* _state is ConnectedState
  todo,        \* what a handler still has to resend()
  moving,      \* what resend() took from haveSent
  alone,       \* the request tryToSend() took from toSend, or 0
  \* The connection and the server.
  up,          \* what is on its way to the server
  down,        \* what is on its way back, but for the answers
  answers,     \* the answers of the server, in order
  past,        \* how many of them are of an earlier server session
  fresh,       \* the server has no session yet
  faults, errors

mainVars == <<call, delayed>>
sharedVars == <<toSend, haveSent, received>>
idVars == <<owner, msgId, forced>>
sentVars == <<resending, acked, containers, timer>>
handVars == <<todo, moving, alone>>
linkVars == <<connected, started, seen>>
serverVars == <<up, down, answers, past, fresh, faults, errors>>
vars == <<mainVars, sharedVars, idVars, sentVars, wake, handVars, linkVars, serverVars>>

Ids == 1 .. Len(owner)

(* The answers the server may still give, or give again.                   *)
Live == past + 1 .. Len(answers)
Arrived == {answers[k].id : k \in Live}

Init ==
  /\ call = [r \in Requests |-> "new"] /\ delayed = {}
  /\ toSend = {} /\ haveSent = {} /\ received = {}
  /\ owner = <<>> /\ msgId = [r \in Requests |-> 0] /\ forced = {}
  /\ resending = {} /\ acked = {} /\ containers = {}
  /\ timer = FALSE /\ wake = FALSE /\ started = FALSE /\ seen = {} /\ connected = FALSE
  /\ todo = {} /\ moving = {} /\ alone = 0
  /\ up = <<>> /\ down = {} /\ answers = <<>> /\ past = 0 /\ fresh = TRUE
  /\ faults = 0 /\ errors = 0

-----------------------------------------------------------------------------
(* The main thread.                                                        *)

(* Session::sendPrepared()                                                 *)
SendPrepared(r) ==
  /\ toSend' = toSend \cup {r}
  /\ msgId' = [msgId EXCEPT ![r] = 0]
  /\ wake' = TRUE

SendRequest(r) ==
  /\ call[r] = "new"
  /\ call' = [call EXCEPT ![r] = "open"]
  /\ SendPrepared(r)
  /\ UNCHANGED <<delayed, haveSent, received, owner, forced, sentVars,
                 handVars, linkVars, serverVars>>

(* cancel() forgets the request and removes it from both maps.  It misses  *)
(* one that is in the hands of the session's thread.                       *)
Cancel(r) ==
  /\ call[r] = "open"
  /\ call' = [call EXCEPT ![r] = "cancelled"]
  /\ toSend' = toSend \ {r}
  /\ haveSent' = haveSent \ {msgId[r]}
  /\ UNCHANGED <<delayed, received, idVars, sentVars, wake, handVars, linkVars,
                 serverVars>>

(* tryToReceive() with processCallback(): the callback is called, or the   *)
(* request is to be repeated later.                                        *)
TryToReceive ==
  /\ \E m \in received :
       /\ received' = received \ {m}
       /\ IF call[m.request] # "open"
          THEN UNCHANGED <<call, delayed>>
          ELSE IF m.ok
          THEN call' = [call EXCEPT ![m.request] = "answered"] /\ UNCHANGED delayed
          ELSE delayed' = delayed \cup {m.request} /\ UNCHANGED call
  /\ UNCHANGED <<toSend, haveSent, idVars, sentVars, wake, handVars,
                 linkVars, serverVars>>

(* checkDelayedRequests(), when the time of one has come.                  *)
CheckDelayed ==
  /\ \E r \in delayed :
       /\ delayed' = delayed \ {r}
       /\ IF call[r] = "open"
          THEN SendPrepared(r)
          ELSE UNCHANGED <<toSend, msgId, wake>>
  /\ UNCHANGED <<call, haveSent, received, owner, forced, sentVars,
                 handVars, linkVars, serverVars>>

-----------------------------------------------------------------------------
(* The session's thread: sending.                                          *)

Idle == todo = {} /\ moving = {} /\ alone = 0

(* Slip: whoever sends again asks for a new id.                            *)
RenewedAlways(batch, force) == batch

(* The requests that get a new msg_id, in their order: all that have none, *)
(* and all of them when a session starts.                                  *)
Renewed(batch, force) == {r \in batch : force \/ msgId[r] = 0}

GiveIds(new) ==
  LET NewId(r) == Len(owner) + Cardinality({x \in new : x <= r})
      NewOf(m) == IF \E r \in new : msgId[r] = m
                  THEN NewId(CHOOSE r \in new : msgId[r] = m)
                  ELSE m
  IN [ids   |-> [r \in Requests |-> IF r \in new THEN NewId(r) ELSE msgId[r]],
      owner |-> [m \in 1 .. Len(owner) + Cardinality(new) |->
                   IF m \in Ids THEN owner[m] ELSE CHOOSE r \in new : NewId(r) = m],
      \* replaceMsgId()
      Renamed |-> [m \in Ids |-> NewOf(m)]]

RenamedIn(given, ids) == {given.Renamed[m] : m \in ids}

Packet(msgs, single) == [msgs |-> msgs, single |-> single]

(* How much of toSend goes in one packet: a prefix of it.                  *)
Batches == {b \in SUBSET toSend : b # {} /\ \A r \in b : \A x \in toSend \ b : r < x}

(* tryToSend() while there is no connection, or nothing to be sent.        *)
SendNothing ==
  /\ Idle /\ wake
  /\ ~connected \/ toSend = {}
  /\ wake' = FALSE
  /\ started' = (started \/ connected)
  /\ UNCHANGED <<mainVars, sharedVars, idVars, sentVars, handVars, connected, seen,
                 serverVars>>

(* A request that is all there is to send is sent as it is.  It is taken   *)
(* out of one map, and only then put into the other.                       *)
TakeAlone ==
  /\ Idle /\ wake /\ connected /\ Len(up) < MaxUp
  /\ Cardinality(toSend) = 1 /\ toSend \cap forced = {}
  /\ alone' = CHOOSE r \in toSend : TRUE
  /\ toSend' = {}
  /\ wake' = FALSE /\ started' = TRUE
  /\ UNCHANGED <<mainVars, haveSent, received, idVars, sentVars, todo, moving,
                 connected, seen, serverVars>>

SendAlone ==
  LET given == GiveIds({alone}) IN
  /\ alone # 0
  /\ owner' = given.owner /\ msgId' = given.ids
  /\ resending' = resending \ {msgId[alone]}
  /\ haveSent' = RenamedIn(given, haveSent) \cup {given.ids[alone]}
  /\ acked' = RenamedIn(given, acked)
  /\ containers' = {RenamedIn(given, c) : c \in containers}
  /\ up' = Append(up, Packet({given.ids[alone]}, TRUE))
  /\ alone' = 0
  /\ UNCHANGED <<mainVars, toSend, received, forced, timer, wake, todo, moving, linkVars,
                 down, answers, past, fresh, faults, errors>>

(* Everything else goes in a container, state requests and the like too;   *)
(* a request may find an acknowledgement there to go with.                 *)
SendContainer ==
  /\ Idle /\ wake /\ connected /\ Len(up) < MaxUp
  /\ \E batch \in Batches :
       LET new == Renewed(batch, ~started)
           given == GiveIds(new)
           ids == {given.ids[r] : r \in batch}
       IN
       /\ owner' = given.owner /\ msgId' = given.ids
       /\ resending' = resending \ {msgId[r] : r \in batch}
       /\ haveSent' = RenamedIn(given, haveSent) \cup ids
       /\ acked' = RenamedIn(given, acked)
       /\ containers' = {RenamedIn(given, c) : c \in containers} \cup {ids}
       /\ toSend' = toSend \ batch
       /\ wake' = (batch # toSend)
       /\ up' = Append(up, Packet(ids, FALSE))
  /\ timer' = TRUE /\ started' = TRUE
  /\ UNCHANGED <<mainVars, received, forced, handVars, connected, seen,
                 down, answers, past, fresh, faults, errors>>

TryToSend == SendNothing \/ TakeAlone \/ SendContainer

(* Slip: what is sent again stays among what was sent.                     *)
ResendBoth ==
  /\ todo # {} /\ moving = {}
  /\ todo' = todo \ {Min(todo)}
  /\ moving' = {Min(todo)} \cap haveSent
  /\ UNCHANGED <<mainVars, toSend, haveSent, received, idVars, sentVars, wake, alone, linkVars,
                 serverVars>>

(* resend() of one message after the other.                                *)
Resend ==
  /\ todo # {} /\ moving = {}
  /\ todo' = todo \ {Min(todo)}
  /\ moving' = {Min(todo)} \cap haveSent
  /\ haveSent' = haveSent \ moving'
  /\ UNCHANGED <<mainVars, toSend, received, idVars, sentVars, wake, alone, linkVars,
                 serverVars>>

(* Slip: nobody is told that there is something to send again.             *)
ResendMovedQuietly ==
  /\ moving # {}
  /\ forced' = forced \cup {owner[m] : m \in moving}
  /\ resending' = resending \cup moving
  /\ toSend' = toSend \cup {owner[m] : m \in moving}
  /\ moving' = {}
  /\ UNCHANGED <<mainVars, haveSent, received, owner, msgId, acked, containers, timer, wake,
                 todo, alone, linkVars, serverVars>>

ResendMoved ==
  /\ moving # {}
  /\ forced' = forced \cup {owner[m] : m \in moving}
  /\ resending' = resending \cup moving
  /\ toSend' = toSend \cup {owner[m] : m \in moving}
  /\ moving' = {} /\ wake' = TRUE
  /\ UNCHANGED <<mainVars, haveSent, received, owner, msgId, acked, containers, timer, todo,
                 alone, linkVars, serverVars>>

(* checkSentRequests(), and the answer to what it asks: of the messages    *)
(* that are due, those that did not come are resent.  The state of one is  *)
(* told after all that was sent before it came.                            *)
Lost == {m \in haveSent \ Arrived : \A k \in DOMAIN up : m \notin up[k].msgs}

CheckSentRequests(due) ==
  /\ Idle /\ timer
  /\ due \subseteq haveSent /\ (due = {} => haveSent = {})
  /\ timer' = (due # haveSent)
  /\ todo' = IF connected THEN due \cap Lost ELSE {}
  /\ UNCHANGED <<mainVars, sharedVars, idVars, resending, acked, containers, wake, moving, alone,
                 linkVars, serverVars>>

(* clearOldContainers(), when ten minutes have passed: whatever was on its *)
(* way has come.                                                           *)
ClearOldContainer ==
  /\ Idle /\ up = <<>> /\ down = {}
  /\ \E c \in containers : containers' = containers \ {c} /\ todo' = c
  /\ wake' = TRUE
  /\ UNCHANGED <<mainVars, sharedVars, idVars, resending, acked, timer, moving, alone,
                 linkVars, serverVars>>

-----------------------------------------------------------------------------
(* The session's thread: receiving.                                        *)

HasCallback(m) == call[owner[m]] = "open"

Latest(ids, size) == {m \in ids : Cardinality({x \in ids : x > m}) < size}

Trim(ids) == Latest(ids, AckedSize)

(* requestsAcked(), for messages that are to leave the maps.  One that is  *)
(* to be sent again is not: it is taken from toSend.                       *)
Acked(ids) ==
  LET sent == ids \cap haveSent
      again == (ids \ haveSent) \cap resending
      queued == {m \in again : owner[m] \in toSend}
  IN [haveSent  |-> haveSent \ sent,
      resending |-> resending \ again,
      toSend    |-> toSend \ {owner[m] : m \in again},
      acked     |-> acked \cup sent \cup queued]

(* Slip: an acknowledgement is taken for an answer.                        *)
RequestsAckedAll(ids) ==
  LET result == Acked(ids) IN
  /\ haveSent' = result.haveSent /\ resending' = result.resending
  /\ toSend' = result.toSend /\ acked' = Trim(result.acked)

RequestsAcked(ids) ==
  LET result == Acked({m \in ids : ~HasCallback(m)}) IN
  /\ haveSent' = result.haveSent /\ resending' = result.resending
  /\ toSend' = result.toSend /\ acked' = Trim(result.acked)

(* An acknowledgement by the server, of messages or of a container.        *)
ReceiveAck ==
  /\ Idle /\ connected
  /\ \E ids \in containers \cup {{m} : m \in Arrived} :
       /\ ids \subseteq Arrived
       /\ RequestsAcked(ids)
       /\ containers' \in {containers, containers \ {ids}}
  /\ UNCHANGED <<mainVars, received, idVars, timer, wake, handVars, linkVars, serverVars>>

(* ReceivedIdsManager: registerMsgId() and shrink().                       *)
TooOld(k) == k \notin seen /\ Cardinality(seen) >= SeenSize /\ k < Min(seen)
(* Slip: the window is one too large.                                      *)
ShrinkLate(ks) == Latest(ks, SeenSize + 1)

Shrink(ks) == Latest(ks, SeenSize)

(* rpc_result: what was asked leaves the maps, and the answer goes to the  *)
(* main thread if wasSent() knows what it answers.                         *)
ReceiveAnswer ==
  /\ Idle /\ connected
  /\ \E k \in Live \ seen :
       LET m == answers[k].id
           result == Acked({m})
           trimmed == Trim(result.acked)
       IN
       /\ ~TooOld(k)
       /\ seen' = Shrink(seen \cup {k})
       /\ haveSent' = result.haveSent /\ resending' = result.resending
       /\ toSend' = result.toSend /\ acked' = trimmed
       /\ received' = IF m \in trimmed \cup result.resending \cup result.haveSent
                      THEN received \cup {[request |-> owner[m], ok |-> answers[k].ok]}
                      ELSE received
  /\ UNCHANGED <<mainVars, idVars, containers, timer, wake, handVars, connected, started,
                 serverVars>>

(* The connection breaks, with all that is on its way.                     *)
Disconnect ==
  /\ connected' = FALSE
  /\ up' = <<>> /\ down' = {}

(* A message older than the window cannot be told from one handled before: *)
(* resetSession(), and a session the server knows nothing of.              *)
ReceiveTooOld ==
  /\ Idle /\ connected /\ faults < MaxFaults
  /\ \E k \in Live : TooOld(k)
  /\ Disconnect
  /\ started' = FALSE /\ seen' = {}
  /\ past' = Len(answers) /\ fresh' = TRUE
  /\ faults' = faults + 1
  /\ UNCHANGED <<mainVars, sharedVars, idVars, sentVars, wake, handVars,
                 answers, errors>>

Takes(message) == message \in down /\ down' = down \ {message}

(* bad_msg_notification or bad_server_salt, for a message or a container.  *)
ReceiveBad ==
  /\ Idle /\ connected
  /\ \E message \in down :
       /\ message.kind = "bad" /\ Takes(message)
       /\ IF message.single
          THEN todo' = message.ids /\ UNCHANGED containers
          ELSE /\ containers' = containers \ {message.ids}
               /\ todo' = IF message.ids \in containers THEN message.ids ELSE {}
  /\ wake' = TRUE
  /\ UNCHANGED <<mainVars, sharedVars, idVars, resending, acked, timer, moving, alone,
                 linkVars, up, answers, past, fresh, faults, errors>>

(* new_session_created: what was sent to an earlier one is resent.         *)
ReceiveNewSession ==
  /\ Idle /\ connected
  /\ \E message \in down :
       /\ message.kind = "new" /\ Takes(message)
       /\ todo' = {m \in haveSent : m < message.first}
  /\ UNCHANGED <<mainVars, sharedVars, idVars, sentVars, wake, moving, alone,
                 linkVars, up, answers, past, fresh, faults, errors>>

(* authKeyChecked() and resendAll(): all that was sent is to be sent again.*)
Connected ==
  /\ Idle /\ ~connected
  /\ connected' = TRUE
  /\ moving' = haveSent /\ haveSent' = {}
  /\ wake' = TRUE
  /\ UNCHANGED <<mainVars, toSend, received, idVars, sentVars, todo, alone, started,
                 seen, serverVars>>

Disconnected ==
  /\ Idle /\ connected /\ faults < MaxFaults
  /\ Disconnect
  /\ faults' = faults + 1
  /\ UNCHANGED <<mainVars, sharedVars, idVars, sentVars, wake, handVars, started, seen,
                 answers, past, fresh, errors>>

-----------------------------------------------------------------------------
(* The server.                                                             *)

(* A packet comes.  Each message is carried out, the first time it comes.  *)
Serve ==
  /\ up # <<>>
  /\ LET p == Head(up)
         new == p.msgs \ Arrived
     IN \E failing \in SUBSET new :
       /\ errors' = errors + Cardinality(failing) /\ errors' <= MaxErrors
       /\ answers' = answers \o
            [k \in 1 .. Cardinality(new) |->
               LET m == CHOOSE m \in new : Cardinality({x \in new : x <= m}) = k
               IN [id |-> m, ok |-> m \notin failing]]
       /\ down' = down
            \cup {[kind |-> "new", ids |-> {}, first |-> f, single |-> FALSE] :
                    f \in IF fresh THEN {Min(p.msgs \cup {Len(owner) + 1})} ELSE {}}
  /\ up' = Tail(up) /\ fresh' = FALSE
  /\ UNCHANGED <<mainVars, sharedVars, idVars, sentVars, wake, handVars, linkVars,
                 past, faults>>

(* Or it is refused, or lost; or the server loses its session.             *)
Refuse ==
  /\ up # <<>> /\ faults < MaxFaults
  /\ down' \in {down, down \cup {[kind |-> "bad", ids |-> Head(up).msgs, first |-> 0,
                                  single |-> Head(up).single]}}
  /\ up' = Tail(up)
  /\ faults' = faults + 1
  /\ UNCHANGED <<mainVars, sharedVars, idVars, sentVars, wake, handVars, linkVars,
                 answers, past, fresh, errors>>

Forget ==
  /\ ~fresh /\ faults < MaxFaults
  /\ past' = Len(answers) /\ fresh' = TRUE /\ down' = {}
  /\ faults' = faults + 1
  /\ UNCHANGED <<mainVars, sharedVars, idVars, sentVars, wake, handVars, linkVars,
                 up, answers, errors>>

-----------------------------------------------------------------------------
MainSteps == TryToReceive \/ CheckDelayed

HandSteps == SendAlone \/ Resend \/ ResendMoved

Receive ==
  ReceiveAnswer \/ ReceiveBad \/ ReceiveNewSession

Next ==
  \/ \E r \in Requests : SendRequest(r) \/ Cancel(r)
  \/ MainSteps
  \/ TryToSend \/ HandSteps
  \/ \E due \in SUBSET haveSent : CheckSentRequests(due)
  \/ ClearOldContainer
  \/ Receive \/ ReceiveAck \/ ReceiveTooOld
  \/ Connected \/ Disconnected
  \/ Serve \/ Refuse \/ Forget

Spec == Init /\ [][Next]_vars

Fairness ==
  /\ WF_vars(MainSteps)
  /\ WF_vars(HandSteps)
  /\ WF_vars(Connected)
  /\ WF_vars(Serve)
  /\ SF_vars(TryToSend)
  /\ SF_vars(Receive)
  /\ SF_vars(CheckSentRequests(haveSent))

FairSpec == Spec /\ Fairness

-----------------------------------------------------------------------------
TypeOK ==
  /\ call \in [Requests -> {"new", "open", "answered", "cancelled"}]
  /\ delayed \subseteq Requests
  /\ toSend \subseteq Requests
  /\ received \subseteq [request : Requests, ok : BOOLEAN]
  /\ owner \in Seq(Requests) /\ msgId \in [Requests -> Ids \cup {0}] /\ forced \subseteq Requests
  /\ haveSent \subseteq Ids /\ resending \subseteq Ids /\ acked \subseteq Ids
  /\ containers \subseteq SUBSET Ids
  /\ timer \in BOOLEAN /\ wake \in BOOLEAN /\ started \in BOOLEAN /\ connected \in BOOLEAN
  /\ todo \subseteq Ids /\ moving \subseteq Ids /\ alone \in Requests \cup {0}
  /\ up \in Seq([msgs : SUBSET Ids, single : BOOLEAN])
  /\ down \subseteq [kind : {"bad", "new"}, ids : SUBSET Ids, first : Nat,
                     single : BOOLEAN]
  /\ answers \in Seq([id : Ids, ok : BOOLEAN])
  /\ past \in 0 .. Len(answers) /\ seen \subseteq 1 .. Len(answers)
  /\ Cardinality(seen) <= SeenSize /\ Cardinality(acked) <= AckedSize
  /\ fresh \in BOOLEAN /\ faults \in 0 .. MaxFaults /\ errors \in 0 .. MaxErrors

(* How many times a request is sent, or to be sent.                        *)
Sendings(r) ==
  (IF r \in toSend THEN 1 ELSE 0) + (IF r = alone THEN 1 ELSE 0)
    + Cardinality({m \in haveSent \cup moving : owner[m] = r})

(* A request that waits for its callback is always somewhere: it is sent,  *)
(* or its answer is on the way to the main thread, or it is to be repeated.*)
NothingLost ==
  \A r \in Requests :
    call[r] = "open" =>
      Sendings(r) > 0 \/ r \in delayed \/ \E m \in received : m.request = r

(* One message may be answered twice, each time to be repeated, only if    *)
(* the server forgets in between that it has answered it.                  *)
RepeatedOnce == past = 0 \/ errors <= 1

(* But for that, a request is not sent again while it is sent: what the    *)
(* code would like to assert of haveSent, and "#TODO rewrite so that it    *)
(* will always hold" says that it cannot.  And a message that is to be     *)
(* sent again is the one its request is to be sent as, which               *)
(* requestsAcked() relies on to call the second sending off.               *)
SentOnce ==
  RepeatedOnce =>
    /\ \A r \in Requests : Sendings(r) <= 1
    /\ \A m \in resending :
         call[owner[m]] = "open" => owner[m] \in toSend /\ msgId[owner[m]] = m

(* The outcomes there have been, and the requests that one of them says    *)
(* have to be repeated.                                                    *)
Outcomes == {[request |-> owner[answers[k].id], ok |-> answers[k].ok] : k \in DOMAIN answers}
Repeated == {m.request : m \in {o \in Outcomes : ~o.ok}}

(* What haveSent, the ids already received and the msg_id a message keeps  *)
(* when it is sent again come to for those who send requests: Calls.  The  *)
(* requests carried out are those with an answer of the present server     *)
(* session, each as often as it has such answers.                          *)
Calls_ == INSTANCE Calls WITH
  ran <- [r \in Requests |->
            Cardinality({k \in Live : answers[k].ok /\ owner[answers[k].id] = r})],
  owed <- Outcomes

ImplementsCalls == Calls_!Spec

(* As long as the timer keeps running while something is sent, and nothing *)
(* the server says again is older than the window, each request is         *)
(* answered in the end, or cancelled.                                      *)
AnsweredInTheEnd ==
  []<>(timer \/ haveSent = {}) /\ <>[](\A k \in Live : ~TooOld(k))
    => \A r \in Requests : call[r] = "open" ~> call[r] # "open"

-----------------------------------------------------------------------------
(* Why a request is carried out once.  It has one msg_id in all that the   *)
(* server session has or will have of it, unless it has to be repeated: an *)
(* id is given only to a request that has none or when a session starts,   *)
(* and then there is nothing on its way.                                   *)
MsgIdIsOurs == \A r \in Requests : msgId[r] # 0 => owner[msgId[r]] = r

NewIsNowhere ==
  \A r \in Requests :
    call[r] = "new" =>
      /\ r \notin toSend /\ r \notin delayed /\ r # alone
      /\ \A m \in Ids : owner[m] # r

ReceivedWereGiven == received \subseteq Outcomes
DelayedIsRepeated == delayed \subseteq Repeated

OneOfEach ==
  \A k \in DOMAIN up : \A m, n \in up[k].msgs : owner[m] = owner[n] => m = n

OneId ==
  \A m \in (UNION {up[k].msgs : k \in DOMAIN up}) \cup Arrived :
    started /\ (owner[m] \in Repeated \/ msgId[owner[m]] = m)

WithoutId ==
  \A r \in toSend \ forced : r \in Repeated \/ msgId[r] = 0

AloneIsFirst ==
  alone # 0 =>
    /\ todo = {} /\ moving = {} /\ started
    /\ alone \in Repeated \/ (msgId[alone] = 0 /\ alone \notin toSend)

SentByOneId ==
  /\ MsgIdIsOurs /\ NewIsNowhere /\ ReceivedWereGiven /\ DelayedIsRepeated
  /\ OneOfEach /\ OneId /\ WithoutId /\ AloneIsFirst

==============================================================================
