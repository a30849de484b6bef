---------------------------- MODULE NativeClient ----------------------------
(***************************************************************************)
(* packages/native NativeClient: one connection to one automation host.    *)
(* Requests are written as frames, answered in any order, and each has a   *)
(* deadline; the connection may break, the host may misbehave and the      *)
(* caller may close at any moment.  The transport is what ProcessWriter    *)
(* and NodeChildProcessTransport do to a frame, the host an environment    *)
(* that says truthfully what it executed.                                  *)
(*                                                                         *)
(* connectionEpoch is left out: state never returns to "connecting", so    *)
(* the epoch test of connect adds nothing to its test of the state.        *)
(***************************************************************************)
EXTENDS Integers, FiniteSets

CONSTANTS Handshake,  \* the request id of the handshake
          CallIds,    \* the request ids of the calls
          SessionIds, \* what the host may name a session
          HandleIds,  \* what the host may name a handle
          MaxNoise,   \* frames of the host beyond its answers
          None        \* the root of a session that is not tracked

Requests == {Handshake} \cup CallIds

ASSUME CallsAssumption ==
  /\ Handshake \notin CallIds
  /\ None \notin HandleIds \cup Requests
  /\ MaxNoise \in Nat

VARIABLES
  state,     \* #state
  host,      \* #host is known
  opening,   \* #opening is an attempt
  connect,   \* where the call of connect is
  closing,   \* #transportClose is begun
  pending,   \* #pending
  call,      \* what each request asks for, once dispatched
  phase,     \* the write phase of each request
  awaiting,  \* #awaitingLateResponseIds
  answer,    \* how each request was settled, and the outcome it was told
  late,      \* calls of onLateResponse
  sessions,  \* #sessions: the root handle of each
  seen,      \* #seenSessionIds
  handles,   \* #handles
  link,      \* the transport's connection
  frame,     \* whether the stream took the request frame, once dispatched
  done,      \* what the host did about a request
  replied,   \* requests the host has answered
  wire,      \* frames of the host on their way
  noise      \* frames of the host beyond its answers, so far

connection == <<state, host, opening, connect, closing>>
requests == <<pending, call, phase, awaiting, answer, late>>
tracking == <<sessions, seen, handles>>
transport == <<link, frame>>
world == <<done, replied, wire, noise>>
vars == <<connection, requests, tracking, transport, world>>

(* host.handshake; session.launch; a side effect on a handle of a session; *)
(* an observation that returns a handle of one.                            *)
Calls == {"handshake", "launch", "act", "find"}
How == {"none", "value", "undecoded", "remote", "lost", "violation"}
Receipt == {"none", "executed", "notExecuted", "unknown"}
Answers == [how : How, outcome : Receipt]
Unanswered == [how |-> "none", outcome |-> "none"]
Frames == [id : Requests \cup {None}, kind : {"ok", "error", "mismatch", "garbage"},
           outcome : Receipt]
Garbage == [id |-> None, kind |-> "garbage", outcome |-> "none"]

TypeOK ==
  /\ state \in {"idle", "connecting", "ready", "disconnected", "closed"}
  /\ host \in BOOLEAN
  /\ opening \in BOOLEAN
  /\ connect \in {"none", "opening", "opened", "handshake", "answered", "failed",
                  "returned", "threw"}
  /\ closing \in BOOLEAN
  /\ pending \subseteq Requests
  /\ call \in [Requests -> Calls \cup {"none"}]
  /\ phase \in [Requests -> {"beforeWrite", "writing", "written"}]
  /\ awaiting \subseteq Requests
  /\ answer \in [Requests -> Answers]
  /\ late \in [Requests -> Nat]
  /\ sessions \in [SessionIds -> HandleIds \cup {None}]
  /\ seen \subseteq SessionIds
  /\ handles \subseteq SessionIds \X HandleIds
  /\ link \in {"idle", "opening", "open", "closing", "aborted", "closed"}
  /\ frame \in [Requests -> {"none", "admitted", "refused"}]
  /\ done \in [Requests -> {"nothing", "executed", "refused"}]
  /\ replied \subseteq Requests
  /\ wire \subseteq Frames
  /\ noise \in 0..MaxNoise

Init ==
  /\ state = "idle"
  /\ host = FALSE
  /\ opening = FALSE
  /\ connect = "none"
  /\ closing = FALSE
  /\ pending = {}
  /\ call = [r \in Requests |-> IF r = Handshake THEN "handshake" ELSE "none"]
  /\ phase = [r \in Requests |-> "beforeWrite"]
  /\ awaiting = {}
  /\ answer = [r \in Requests |-> Unanswered]
  /\ late = [r \in Requests |-> 0]
  /\ sessions = [s \in SessionIds |-> None]
  /\ seen = {}
  /\ handles = {}
  /\ link = "idle"
  /\ frame = [r \in Requests |-> "none"]
  /\ done = [r \in Requests |-> "nothing"]
  /\ replied = {}
  /\ wire = {}
  /\ noise = 0

----------------------------------------------------------------------------
(* Settling requests                                                       *)
----------------------------------------------------------------------------

SideEffect(c) == c \in {"launch", "act"}

(* A frame that was not wholly written is taken for one never sent.        *)
OutcomeWithout_Hopeful(c, p) ==
  IF ~SideEffect(c) THEN "none" ELSE IF p # "written" THEN "notExecuted" ELSE "unknown"

(* What the client can say of a call c whose response it does not have.    *)
OutcomeWithout(c, p) ==
  IF ~SideEffect(c) THEN "none" ELSE IF p = "beforeWrite" THEN "notExecuted" ELSE "unknown"

(* The answers once the requests in S are rejected for reason how.         *)
Rejected(S, how) ==
  [r \in Requests |-> IF r \in S THEN [how |-> how, outcome |-> OutcomeWithout(call[r], phase[r])]
                                 ELSE answer[r]]

(* The requests in S whose response the client will still recognise.       *)
MayStillCome(S) == {r \in S : phase[r] # "beforeWrite"}

(* The opening attempt is dropped without rejecting it.                    *)
ConnectAfter_Silent(S) == IF Handshake \in S THEN "failed" ELSE connect

(* The await of connect that a rejection of S, or of the opening, ends.    *)
ConnectAfter(S) == IF opening \/ Handshake \in S THEN "failed" ELSE connect

ForgetAll ==
  /\ sessions' = [s \in SessionIds |-> None]
  /\ handles' = {}
  /\ UNCHANGED seen

(* cancelPending, for the deadline or the caller's signal.  The cancel     *)
(* frame is best effort, changes nothing here and proves nothing.          *)
CancelPending(r) ==
  /\ r \in pending
  /\ answer' = Rejected({r}, "lost")
  /\ awaiting' = awaiting \cup MayStillCome({r})
  /\ pending' = pending \ {r}
  /\ connect' = IF r = Handshake THEN "failed" ELSE connect
  /\ UNCHANGED <<state, host, opening, closing, call, phase, late, tracking, transport, world>>

(* writeFailed: the phase is the transport's word.                         *)
WriteFailed(r, p) ==
  /\ r \in pending
  /\ phase' = [phase EXCEPT ![r] = p]
  /\ answer' = [answer EXCEPT ![r] = [how |-> "lost", outcome |-> OutcomeWithout(call[r], p)]]
  /\ awaiting' = awaiting \cup (IF p # "beforeWrite" THEN {r} ELSE {})
  /\ pending' = pending \ {r}
  /\ connect' = IF r = Handshake THEN "failed" ELSE connect
  /\ UNCHANGED <<state, host, opening, closing, call, late, tracking>>

(* disconnect, the transport's notice that the connection is lost.         *)
Disconnect ==
  IF state \in {"closed", "disconnected"} THEN UNCHANGED <<connection, requests, tracking>>
  ELSE /\ state' = "disconnected"
       /\ host' = FALSE
       /\ opening' = FALSE
       /\ connect' = ConnectAfter(pending)
       /\ answer' = Rejected(pending, "lost")
       /\ awaiting' = awaiting \cup MayStillCome(pending)
       /\ pending' = {}
       /\ ForgetAll
       /\ UNCHANGED <<closing, call, phase, late>>

(* protocolFailure: what the host sent cannot be trusted any more, so no   *)
(* late response of these requests is recognised.                          *)
ProtocolFailure ==
  /\ state' = "disconnected"
  /\ host' = FALSE
  /\ opening' = FALSE
  /\ connect' = ConnectAfter(pending)
  /\ closing' = TRUE
  /\ answer' = Rejected(pending, "violation")
  /\ pending' = {}
  /\ ForgetAll
  /\ UNCHANGED <<call, phase, late>>

----------------------------------------------------------------------------
(* Connecting and closing                                                  *)
----------------------------------------------------------------------------

Connect ==
  /\ state = "idle"
  /\ state' = "connecting"
  /\ opening' = TRUE
  /\ connect' = "opening"
  /\ link' = "opening"
  /\ UNCHANGED <<host, closing, requests, tracking, frame, world>>

TransportOpens ==
  /\ link = "opening"
  /\ link' = "open"
  /\ opening' = FALSE
  /\ connect' = IF opening THEN "opened" ELSE connect
  /\ UNCHANGED <<state, host, closing, requests, tracking, frame, world>>

(* The spawn fails or its deadline passes: open rejects, and the transport *)
(* closes itself without a disconnect notice.                              *)
TransportFailsToOpen ==
  /\ link = "opening"
  /\ link' = "closed"
  /\ opening' = FALSE
  /\ connect' = IF opening THEN "failed" ELSE connect
  /\ UNCHANGED <<state, host, closing, requests, tracking, frame, world>>

OpeningExpires ==
  /\ opening
  /\ state' = "disconnected"
  /\ opening' = FALSE
  /\ connect' = "failed"
  /\ closing' = TRUE
  /\ UNCHANGED <<host, requests, tracking, transport, world>>

ConnectReturns ==
  /\ connect = "answered"
  /\ IF state = "connecting"
     THEN host' = TRUE /\ state' = "ready" /\ connect' = "returned"
     ELSE connect' = "failed" /\ UNCHANGED <<host, state>>
  /\ UNCHANGED <<opening, closing, requests, tracking, transport, world>>

ConnectThrows ==
  /\ connect = "failed"
  /\ connect' = "threw"
  /\ state' = IF state \in {"disconnected", "closed"} THEN state ELSE "disconnected"
  /\ closing' = TRUE
  /\ UNCHANGED <<host, opening, requests, tracking, transport, world>>

Close ==
  /\ state # "closed"
  /\ state' = "closed"
  /\ host' = FALSE
  /\ opening' = FALSE
  /\ connect' = ConnectAfter(pending)
  /\ closing' = TRUE
  /\ answer' = Rejected(pending, "lost")
  /\ awaiting' = awaiting \cup MayStillCome(pending)
  /\ pending' = {}
  /\ ForgetAll
  /\ UNCHANGED <<call, phase, late, transport, world>>

----------------------------------------------------------------------------
(* Dispatching                                                             *)
----------------------------------------------------------------------------

(* Cancelled before the write, or no budget is left for it.                *)
Expired(r, c) ==
  /\ answer' = [answer EXCEPT ![r] =
                  [how |-> "lost", outcome |-> OutcomeWithout(c, "beforeWrite")]]
  /\ UNCHANGED <<pending, phase, awaiting, late, transport>>

(* The frame is handed to the transport, which admits it to the stream or  *)
(* refuses it at once; its write promise settles later.                    *)
Written(r) ==
  /\ pending' = pending \cup {r}
  /\ phase' = [phase EXCEPT ![r] = "writing"]
  /\ \/ link = "open" /\ frame' = [frame EXCEPT ![r] = "admitted"]
     \/ frame' = [frame EXCEPT ![r] = "refused"]
  /\ UNCHANGED <<awaiting, answer, late, link>>

(* connect goes on after the opening.                                      *)
ShakeHands ==
  /\ connect = "opened"
  /\ \/ /\ state = "connecting"
        /\ Written(Handshake) /\ UNCHANGED call
        /\ connect' = "handshake"
     \/ /\ state = "connecting"
        /\ Expired(Handshake, "handshake") /\ UNCHANGED call
        /\ connect' = "failed"
     \/ /\ state # "connecting"
        /\ connect' = "failed"
        /\ UNCHANGED <<requests, transport>>
  /\ UNCHANGED <<state, host, opening, closing, tracking, world>>

(* validateScope: the session, and the handle, are tracked.                *)
InScope(c, s, h) ==
  \/ c = "launch"
  \/ c = "find" /\ sessions[s] # None
  \/ c = "act" /\ sessions[s] # None /\ <<s, h>> \in handles

Invoke(r, c, s, h) ==
  /\ state = "ready"
  /\ call[r] = "none"
  /\ InScope(c, s, h)
  /\ call' = [call EXCEPT ![r] = c]
  /\ Written(r) \/ Expired(r, c)
  /\ UNCHANGED <<connection, tracking, world>>

Forget(s) ==
  /\ sessions[s] # None
  /\ sessions' = [sessions EXCEPT ![s] = None]
  /\ handles' = {k \in handles : k[1] # s}
  /\ UNCHANGED <<seen, connection, requests, transport, world>>

----------------------------------------------------------------------------
(* Receiving                                                               *)
----------------------------------------------------------------------------

(* The names of released sessions are not remembered.                      *)
TrackSession_Forgetful(s, h) ==
  /\ host
  /\ sessions[s] \in {h, None}
  /\ sessions' = [sessions EXCEPT ![s] = h]
  /\ seen' = seen \cup {s}
  /\ handles' = handles \cup {<<s, h>>}

(* stageSession and commitTracking: a tracked session keeps its root, and  *)
(* a name that was released is never taken again.                          *)
TrackSession(s, h) ==
  /\ host
  /\ sessions[s] = h \/ (sessions[s] = None /\ s \notin seen)
  /\ sessions' = [sessions EXCEPT ![s] = h]
  /\ seen' = seen \cup {s}
  /\ handles' = handles \cup {<<s, h>>}

TrackHandle(s, h) ==
  /\ sessions[s] # None
  /\ handles' = handles \cup {<<s, h>>}
  /\ UNCHANGED <<sessions, seen>>

(* The codec tracks what the result names; or it rejects the result, and   *)
(* then nothing of it is tracked.                                          *)
Decoded(r, s, h) ==
  \/ call[r] = "launch" /\ TrackSession(s, h)
  \/ call[r] = "find" /\ TrackHandle(s, h)
  \/ call[r] \in {"act", "handshake"} /\ UNCHANGED tracking

Answered(m) ==
  /\ pending' = pending \ {m.id}
  /\ \/ /\ m.kind = "error"
        /\ answer' = [answer EXCEPT ![m.id] = [how |-> "remote", outcome |-> m.outcome]]
        /\ connect' = IF m.id = Handshake THEN "failed" ELSE connect
        /\ UNCHANGED tracking
     \/ /\ m.kind = "ok"
        /\ \E s \in SessionIds, h \in HandleIds : Decoded(m.id, s, h)
        /\ answer' = [answer EXCEPT ![m.id] = [how |-> "value", outcome |-> m.outcome]]
        /\ connect' = IF m.id = Handshake THEN "answered" ELSE connect
     \/ /\ m.kind = "ok"
        /\ answer' = [answer EXCEPT ![m.id] = [how |-> "undecoded", outcome |-> m.outcome]]
        /\ connect' = IF m.id = Handshake THEN "failed" ELSE connect
        /\ UNCHANGED tracking
  /\ UNCHANGED <<state, host, opening, closing, call, phase, awaiting, late>>

(* The response of a request whose caller has gone: it is told once, and   *)
(* a second one of the same request is dropped.                            *)
CameLate(m) ==
  /\ awaiting' = awaiting \ {m.id}
  /\ IF m.id \notin awaiting THEN UNCHANGED <<connection, pending, call, phase, answer, late, tracking>>
     ELSE IF m.kind = "mismatch" THEN ProtocolFailure
     ELSE /\ late' = [late EXCEPT ![m.id] = @ + 1]
          /\ UNCHANGED <<connection, pending, call, phase, answer, tracking>>

Handled(m) ==
  IF state = "closed" THEN UNCHANGED <<connection, requests, tracking>>
  ELSE IF m = Garbage \/ (m.id \in pending /\ m.kind = "mismatch")
       THEN ProtocolFailure /\ UNCHANGED awaiting
  ELSE IF m.id \in pending THEN Answered(m)
  ELSE CameLate(m)

Receive(m) ==
  /\ m \in wire
  /\ link \in {"open", "closing"}
  /\ Handled(m)
  /\ wire' = wire \ {m}
  /\ UNCHANGED <<transport, done, replied, noise>>

----------------------------------------------------------------------------
(* The transport                                                           *)
----------------------------------------------------------------------------

(* The stream took the whole frame.  Once a request is settled its write   *)
(* promise changes nothing: its phase is not read again.                   *)
WriteCompletes(r) ==
  /\ r \in pending /\ phase[r] = "writing" /\ frame[r] = "admitted"
  /\ phase' = [phase EXCEPT ![r] = "written"]
  /\ UNCHANGED <<connection, pending, call, awaiting, answer, late, tracking, link, frame, world>>

(* A refused frame fails as "beforeWrite", an admitted one as "writing":   *)
(* its bytes may have gone through whatever the failure is.                *)
WriteFails(r) ==
  /\ phase[r] = "writing"
  /\ WriteFailed(r, IF frame[r] = "refused" THEN "beforeWrite" ELSE "writing")
  /\ UNCHANGED <<link, frame, world>>

(* The process, a stream or the framer fails: the disconnect notice comes  *)
(* first, then the transport closes itself.                                *)
TransportFails ==
  /\ link \in {"opening", "open"}
  /\ link' = "aborted"
  /\ wire' = {}
  /\ Disconnect
  /\ UNCHANGED <<frame, done, replied, noise>>

TransportCloses ==
  /\ closing /\ link \in {"idle", "opening", "open"}
  /\ link' = IF link = "idle" THEN "closed" ELSE "closing"
  /\ UNCHANGED <<connection, requests, tracking, frame, world>>

TransportClosed ==
  /\ link = "closing"
  /\ link' = "closed"
  /\ wire' = {}
  /\ UNCHANGED <<connection, requests, tracking, frame, done, replied, noise>>

----------------------------------------------------------------------------
(* The host                                                                *)
----------------------------------------------------------------------------

(* It acts on what reached it even after the connection is gone.           *)
HostTakes(r, deed) ==
  /\ frame[r] = "admitted" /\ done[r] = "nothing"
  /\ done' = [done EXCEPT ![r] = deed]
  /\ UNCHANGED <<connection, requests, tracking, transport, replied, wire, noise>>

(* The receipts a truthful host may give for what it did.                  *)
Truthful(r) ==
  IF ~SideEffect(call[r]) THEN {"none"}
  ELSE {"unknown", IF done[r] = "executed" THEN "executed" ELSE "notExecuted"}

HostReplies(r) ==
  /\ link \in {"open", "closing"}
  /\ done[r] # "nothing" /\ r \notin replied
  /\ replied' = replied \cup {r}
  /\ \/ /\ done[r] = "executed"
        /\ wire' = wire \cup {[id |-> r, kind |-> "ok",
                                outcome |-> IF SideEffect(call[r]) THEN "executed" ELSE "none"]}
     \/ \E o \in Truthful(r) : wire' = wire \cup {[id |-> r, kind |-> "error", outcome |-> o]}
  /\ UNCHANGED <<connection, requests, tracking, transport, done, noise>>

(* A frame that is no response to anything it was asked, a response that   *)
(* contradicts its request, or a response sent again.                      *)
HostMisbehaves ==
  /\ noise < MaxNoise /\ link \in {"open", "closing"}
  /\ noise' = noise + 1
  /\ \/ wire' = wire \cup {Garbage}
     \/ \E r \in Requests :
          /\ frame[r] = "admitted"
          /\ wire' = wire \cup {[id |-> r, kind |-> "mismatch", outcome |-> "none"]}
     \/ \E r \in replied : \E o \in Truthful(r) :
          wire' = wire \cup {[id |-> r, kind |-> "error", outcome |-> o]}
  /\ UNCHANGED <<connection, requests, tracking, transport, done, replied>>

----------------------------------------------------------------------------

Next ==
  \/ Connect \/ TransportOpens \/ TransportFailsToOpen \/ OpeningExpires
  \/ ShakeHands \/ ConnectReturns \/ ConnectThrows \/ Close
  \/ \E r \in CallIds, c \in {"launch", "act", "find"}, s \in SessionIds, h \in HandleIds :
       Invoke(r, c, s, h)
  \/ \E r \in Requests : CancelPending(r)
  \/ \E s \in SessionIds : Forget(s)
  \/ \E m \in wire : Receive(m)
  \/ \E r \in Requests : WriteCompletes(r) \/ WriteFails(r)
  \/ TransportFails \/ TransportCloses \/ TransportClosed
  \/ \E r \in Requests, deed \in {"executed", "refused"} : HostTakes(r, deed)
  \/ \E r \in Requests : HostReplies(r)
  \/ HostMisbehaves

Spec == Init /\ [][Next]_vars

(* Timers fire, promise continuations run, and the transport's close ends  *)
(* after its grace and force deadlines.  Nothing is assumed of the host,   *)
(* the pipe or the caller.                                                 *)
Fairness ==
  /\ WF_vars(OpeningExpires)
  /\ \A r \in Requests : WF_vars(CancelPending(r))
  /\ WF_vars(ShakeHands) /\ WF_vars(ConnectReturns) /\ WF_vars(ConnectThrows)
  /\ WF_vars(TransportCloses) /\ WF_vars(TransportClosed)

FairSpec == Spec /\ Fairness

----------------------------------------------------------------------------
(* Properties                                                              *)
----------------------------------------------------------------------------

(* A request the caller was told "notExecuted" was not executed and never  *)
(* will be: its frame can no longer reach the host, or the host refused    *)
(* it.  (cancelPending, writeFailed, disconnect, protocolFailure, receive) *)
NotExecutedIsFinal ==
  \A r \in Requests : answer[r].outcome = "notExecuted" =>
    /\ done[r] # "executed"
    /\ frame[r] = "admitted" => done[r] = "refused"

(* What the caller was told was executed was executed; a call that gave a  *)
(* value of a side effect is one of those.                                 *)
ExecutedIsTrue ==
  \A r \in Requests : SideEffect(call[r]) =>
    /\ answer[r].outcome = "executed" => done[r] = "executed"
    /\ answer[r].how \in {"value", "undecoded"} => answer[r].outcome = "executed"

(* A late response is told at most once, only for a request that was given *)
(* up without knowing its outcome, and never for one that is still waited  *)
(* for.  (onLateResponse, #awaitingLateResponseIds)                        *)
LateIsForTheLost ==
  \A r \in Requests :
    /\ late[r] + (IF r \in awaiting THEN 1 ELSE 0) <= 1
    /\ late[r] = 1 \/ r \in awaiting =>
         /\ r \notin pending
         /\ answer[r] = [how |-> "lost", outcome |-> OutcomeWithout(call[r], "written")]

(* What a caller is told of a request agrees with what the host did and    *)
(* with what it may be told later.                                         *)
AnswersAreTrue == NotExecutedIsFinal /\ ExecutedIsTrue /\ LateIsForTheLost

(* When the connection is over nothing is left waiting on it and nothing   *)
(* of it can be addressed; while it is ready it is not being closed by the *)
(* client.  (disconnect, protocolFailure, close, connect's catch)          *)
NothingOutlivesConnection ==
  /\ state \in {"disconnected", "closed"} =>
       pending = {} /\ ~host /\ handles = {} /\ \A s \in SessionIds : sessions[s] = None
  /\ state = "ready" => host /\ ~closing /\ link = "open"
  /\ \A k \in handles : sessions[k[1]] # None

(* The name of a session never comes to mean another one: its root does    *)
(* not change while it is tracked, and once released it stays released,    *)
(* whatever the host answers and in whatever order.  (stageSession)        *)
NamesNeverRebind ==
  [][\A s \in seen : sessions'[s] \in {sessions[s], None}]_vars

\* No caller is misled: what it is told of a request is true, and a name of a session never
\* comes to mean another one.
CallersAreNotMisled == []AnswersAreTrue /\ NamesNeverRebind

(* Every request a caller waits for is settled, connect returns or throws, *)
(* and a connection the client gave up is closed, whatever the host, the   *)
(* pipe and the caller do.                                                 *)
EveryCallSettles ==
  /\ \A r \in Requests : r \in pending ~> r \notin pending
  /\ connect = "opening" ~> connect \in {"returned", "threw"}
  /\ closing ~> link \in {"aborted", "closed"}

=============================================================================
