------------------------- MODULE NativeClientProofs -------------------------
(***************************************************************************)
(* Safety of one native connection for any number of calls, sessions,      *)
(* handles and frames a misbehaving host sends.                            *)
(***************************************************************************)
EXTENDS NativeClient, TLAPS

\* Where connect and the transport are when the client is in its state.
Lifecycle ==
  /\ state = "idle" => connect = "none" /\ link = "idle"
  /\ opening <=> connect = "opening"
  /\ opening => state = "connecting"
  /\ link = "opening" /\ ~opening => state \in {"disconnected", "closed"}
  /\ host <=> state = "ready"
  /\ state = "ready" => connect = "returned" /\ link = "open"
  /\ closing => state \in {"disconnected", "closed"}
  /\ state = "connecting" => connect \in {"opening", "opened", "handshake", "answered", "failed"}
  /\ state = "connecting" /\ connect \in {"opened", "handshake", "answered"} => link = "open"

\* Only a live connection has requests waiting, the handshake alone at first.
Waiting ==
  /\ pending # {} => state \in {"connecting", "ready"}
  /\ Handshake \in pending => connect = "handshake"
  /\ state = "connecting" => pending \subseteq {Handshake}

\* Sessions are tracked on a ready connection, and their names are remembered.
Tracked ==
  /\ state # "ready" => handles = {} /\ \A s \in SessionIds : sessions[s] = None
  /\ \A k \in handles : sessions[k[1]] # None
  /\ \A s \in SessionIds : sessions[s] # None => s \in seen

\* A request that nothing was done about yet.
Untouched(r) ==
  /\ r \notin pending /\ r \notin awaiting
  /\ frame[r] = "none" /\ answer[r] = Unanswered /\ late[r] = 0

\* The life of a request: untouched, waiting on a dispatched frame, settled.
Requested ==
  /\ call[Handshake] = "handshake"
  /\ \A r \in CallIds : call[r] # "handshake"
  /\ connect \in {"none", "opening", "opened"} => Untouched(Handshake)
  /\ \A r \in Requests :
       /\ call[r] = "none" => Untouched(r)
       /\ r \in pending => /\ answer[r] = Unanswered /\ phase[r] \in {"writing", "written"}
                           /\ frame[r] # "none"
       /\ done[r] # "nothing" => frame[r] = "admitted"
       /\ r \in replied => done[r] # "nothing"

\* The responses on their way tell what the host did.
Answering ==
  \A m \in wire : m # Garbage =>
    /\ m.id \in Requests
    /\ frame[m.id] = "admitted"
    /\ \/ m.kind = "mismatch"
       \/ /\ m.kind = "ok" /\ done[m.id] = "executed"
          /\ m.outcome = IF SideEffect(call[m.id]) THEN "executed" ELSE "none"
       \/ m.kind = "error" /\ done[m.id] # "nothing" /\ m.outcome \in Truthful(m.id)

IInv == TypeOK /\ Lifecycle /\ Waiting /\ Tracked /\ Requested /\ Answering /\ AnswersAreTrue

LEMMA ConnectKeeps ==
  ASSUME IInv, Connect
  PROVE  IInv'
<1>1. TypeOK'
  BY CallsAssumption DEF IInv, Connect, vars, connection, requests, tracking, transport, world,
     AnswersAreTrue, Requests, TypeOK, How, Receipt, Answers, Frames, Garbage, Calls, Lifecycle,
     Waiting, Requested, Untouched
<1>2. Lifecycle'
  BY CallsAssumption DEF IInv, Connect, vars, connection, requests, tracking, transport, world,
     AnswersAreTrue, Requests, Lifecycle, TypeOK, Waiting, Requested, Untouched
<1>3. Waiting'
  BY CallsAssumption DEF IInv, Connect, vars, connection, requests, tracking, transport, world,
     AnswersAreTrue, Requests, Waiting, TypeOK, Lifecycle, Requested, Untouched
<1>4. Tracked'
  BY CallsAssumption DEF IInv, Connect, vars, connection, requests, tracking, transport, world,
     AnswersAreTrue, Requests, Tracked, TypeOK, Lifecycle, Waiting, Requested, Untouched
<1>5. Requested'
  BY CallsAssumption DEF IInv, Connect, vars, connection, requests, tracking, transport, world,
     AnswersAreTrue, Requests, Requested, Untouched, TypeOK, Lifecycle, Waiting
<1>6. Answering'
  BY CallsAssumption DEF IInv, Connect, vars, connection, requests, tracking, transport, world,
     AnswersAreTrue, Requests, Answering, Truthful, TypeOK, Lifecycle, Waiting, Requested,
     Untouched
<1>7. NotExecutedIsFinal'
  BY CallsAssumption DEF IInv, Connect, vars, connection, requests, tracking, transport, world,
     AnswersAreTrue, Requests, NotExecutedIsFinal, TypeOK, Lifecycle, Waiting, Requested,
     Untouched
<1>8. ExecutedIsTrue'
  BY CallsAssumption DEF IInv, Connect, vars, connection, requests, tracking, transport, world,
     AnswersAreTrue, Requests, ExecutedIsTrue, TypeOK, Lifecycle, Waiting, Requested, Untouched
<1>9. LateIsForTheLost'
  BY CallsAssumption DEF IInv, Connect, vars, connection, requests, tracking, transport, world,
     AnswersAreTrue, Requests, LateIsForTheLost, TypeOK, Lifecycle, Waiting, Requested, Untouched
<1> QED BY <1>1, <1>2, <1>3, <1>4, <1>5, <1>6, <1>7, <1>8, <1>9 DEF IInv, AnswersAreTrue

LEMMA TransportOpensKeeps ==
  ASSUME IInv, TransportOpens
  PROVE  IInv'
<1>1. TypeOK'
  BY CallsAssumption DEF IInv, TransportOpens, vars, connection, requests, tracking, transport,
     world, AnswersAreTrue, Requests, TypeOK, How, Receipt, Answers, Frames, Garbage, Calls,
     Lifecycle, Waiting, Requested, Untouched
<1>2. Lifecycle'
  BY CallsAssumption DEF IInv, TransportOpens, vars, connection, requests, tracking, transport,
     world, AnswersAreTrue, Requests, Lifecycle, TypeOK, Waiting, Requested, Untouched
<1>3. Waiting'
  BY CallsAssumption DEF IInv, TransportOpens, vars, connection, requests, tracking, transport,
     world, AnswersAreTrue, Requests, Waiting, TypeOK, Lifecycle, Requested, Untouched
<1>4. Tracked'
  BY CallsAssumption DEF IInv, TransportOpens, vars, connection, requests, tracking, transport,
     world, AnswersAreTrue, Requests, Tracked, TypeOK, Lifecycle, Waiting, Requested, Untouched
<1>5. Requested'
  BY CallsAssumption DEF IInv, TransportOpens, vars, connection, requests, tracking, transport,
     world, AnswersAreTrue, Requests, Requested, Untouched, TypeOK, Lifecycle, Waiting
<1>6. Answering'
  BY CallsAssumption DEF IInv, TransportOpens, vars, connection, requests, tracking, transport,
     world, AnswersAreTrue, Requests, Answering, Truthful, TypeOK, Lifecycle, Waiting, Requested,
     Untouched
<1>7. NotExecutedIsFinal'
  BY CallsAssumption DEF IInv, TransportOpens, vars, connection, requests, tracking, transport,
     world, AnswersAreTrue, Requests, NotExecutedIsFinal, TypeOK, Lifecycle, Waiting, Requested,
     Untouched
<1>8. ExecutedIsTrue'
  BY CallsAssumption DEF IInv, TransportOpens, vars, connection, requests, tracking, transport,
     world, AnswersAreTrue, Requests, ExecutedIsTrue, TypeOK, Lifecycle, Waiting, Requested,
     Untouched
<1>9. LateIsForTheLost'
  BY CallsAssumption DEF IInv, TransportOpens, vars, connection, requests, tracking, transport,
     world, AnswersAreTrue, Requests, LateIsForTheLost, TypeOK, Lifecycle, Waiting, Requested,
     Untouched
<1> QED BY <1>1, <1>2, <1>3, <1>4, <1>5, <1>6, <1>7, <1>8, <1>9 DEF IInv, AnswersAreTrue

LEMMA TransportFailsToOpenKeeps ==
  ASSUME IInv, TransportFailsToOpen
  PROVE  IInv'
<1>1. TypeOK'
  BY CallsAssumption DEF IInv, TransportFailsToOpen, vars, connection, requests, tracking,
     transport, world, AnswersAreTrue, Requests, TypeOK, How, Receipt, Answers, Frames, Garbage,
     Calls, Lifecycle, Waiting, Requested, Untouched
<1>2. Lifecycle'
  BY CallsAssumption DEF IInv, TransportFailsToOpen, vars, connection, requests, tracking,
     transport, world, AnswersAreTrue, Requests, Lifecycle, TypeOK, Waiting, Requested, Untouched
<1>3. Waiting'
  BY CallsAssumption DEF IInv, TransportFailsToOpen, vars, connection, requests, tracking,
     transport, world, AnswersAreTrue, Requests, Waiting, TypeOK, Lifecycle, Requested, Untouched
<1>4. Tracked'
  BY CallsAssumption DEF IInv, TransportFailsToOpen, vars, connection, requests, tracking,
     transport, world, AnswersAreTrue, Requests, Tracked, TypeOK, Lifecycle, Waiting, Requested,
     Untouched
<1>5. Requested'
  BY CallsAssumption DEF IInv, TransportFailsToOpen, vars, connection, requests, tracking,
     transport, world, AnswersAreTrue, Requests, Requested, Untouched, TypeOK, Lifecycle, Waiting
<1>6. Answering'
  BY CallsAssumption DEF IInv, TransportFailsToOpen, vars, connection, requests, tracking,
     transport, world, AnswersAreTrue, Requests, Answering, Truthful, TypeOK, Lifecycle, Waiting,
     Requested, Untouched
<1>7. NotExecutedIsFinal'
  BY CallsAssumption DEF IInv, TransportFailsToOpen, vars, connection, requests, tracking,
     transport, world, AnswersAreTrue, Requests, NotExecutedIsFinal, TypeOK, Lifecycle, Waiting,
     Requested, Untouched
<1>8. ExecutedIsTrue'
  BY CallsAssumption DEF IInv, TransportFailsToOpen, vars, connection, requests, tracking,
     transport, world, AnswersAreTrue, Requests, ExecutedIsTrue, TypeOK, Lifecycle, Waiting,
     Requested, Untouched
<1>9. LateIsForTheLost'
  BY CallsAssumption DEF IInv, TransportFailsToOpen, vars, connection, requests, tracking,
     transport, world, AnswersAreTrue, Requests, LateIsForTheLost, TypeOK, Lifecycle, Waiting,
     Requested, Untouched
<1> QED BY <1>1, <1>2, <1>3, <1>4, <1>5, <1>6, <1>7, <1>8, <1>9 DEF IInv, AnswersAreTrue

LEMMA OpeningExpiresKeeps ==
  ASSUME IInv, OpeningExpires
  PROVE  IInv'
<1>1. TypeOK'
  BY CallsAssumption DEF IInv, OpeningExpires, vars, connection, requests, tracking, transport,
     world, AnswersAreTrue, Requests, TypeOK, How, Receipt, Answers, Frames, Garbage, Calls,
     Lifecycle, Waiting, Requested, Untouched
<1>2. Lifecycle'
  BY CallsAssumption DEF IInv, OpeningExpires, vars, connection, requests, tracking, transport,
     world, AnswersAreTrue, Requests, Lifecycle, TypeOK, Waiting, Requested, Untouched
<1>3. Waiting'
  BY CallsAssumption DEF IInv, OpeningExpires, vars, connection, requests, tracking, transport,
     world, AnswersAreTrue, Requests, Waiting, TypeOK, Lifecycle, Requested, Untouched
<1>4. Tracked'
  BY CallsAssumption DEF IInv, OpeningExpires, vars, connection, requests, tracking, transport,
     world, AnswersAreTrue, Requests, Tracked, TypeOK, Lifecycle, Waiting, Requested, Untouched
<1>5. Requested'
  BY CallsAssumption DEF IInv, OpeningExpires, vars, connection, requests, tracking, transport,
     world, AnswersAreTrue, Requests, Requested, Untouched, TypeOK, Lifecycle, Waiting
<1>6. Answering'
  BY CallsAssumption DEF IInv, OpeningExpires, vars, connection, requests, tracking, transport,
     world, AnswersAreTrue, Requests, Answering, Truthful, TypeOK, Lifecycle, Waiting, Requested,
     Untouched
<1>7. NotExecutedIsFinal'
  BY CallsAssumption DEF IInv, OpeningExpires, vars, connection, requests, tracking, transport,
     world, AnswersAreTrue, Requests, NotExecutedIsFinal, TypeOK, Lifecycle, Waiting, Requested,
     Untouched
<1>8. ExecutedIsTrue'
  BY CallsAssumption DEF IInv, OpeningExpires, vars, connection, requests, tracking, transport,
     world, AnswersAreTrue, Requests, ExecutedIsTrue, TypeOK, Lifecycle, Waiting, Requested,
     Untouched
<1>9. LateIsForTheLost'
  BY CallsAssumption DEF IInv, OpeningExpires, vars, connection, requests, tracking, transport,
     world, AnswersAreTrue, Requests, LateIsForTheLost, TypeOK, Lifecycle, Waiting, Requested,
     Untouched
<1> QED BY <1>1, <1>2, <1>3, <1>4, <1>5, <1>6, <1>7, <1>8, <1>9 DEF IInv, AnswersAreTrue

LEMMA ShakeHandsKeeps ==
  ASSUME IInv, ShakeHands
  PROVE  IInv'
<1>1. TypeOK'
  BY CallsAssumption DEF IInv, ShakeHands, vars, connection, requests, tracking, transport,
     world, AnswersAreTrue, Requests, TypeOK, How, Receipt, Answers, Frames, Garbage, Calls,
     Written, Expired, OutcomeWithout, SideEffect, Unanswered, Lifecycle, Waiting, Requested,
     Untouched
<1>2. Lifecycle'
  BY CallsAssumption DEF IInv, ShakeHands, vars, connection, requests, tracking, transport,
     world, AnswersAreTrue, Requests, Lifecycle, Written, Expired, OutcomeWithout, SideEffect,
     Unanswered, TypeOK, Waiting, Requested, Untouched
<1>3. Waiting'
  BY CallsAssumption DEF IInv, ShakeHands, vars, connection, requests, tracking, transport,
     world, AnswersAreTrue, Requests, Waiting, Written, Expired, OutcomeWithout, SideEffect,
     Unanswered, TypeOK, Lifecycle, Requested, Untouched
<1>4. Tracked'
  BY CallsAssumption DEF IInv, ShakeHands, vars, connection, requests, tracking, transport,
     world, AnswersAreTrue, Requests, Tracked, Written, Expired, OutcomeWithout, SideEffect,
     Unanswered, TypeOK, Lifecycle, Waiting, Requested, Untouched
<1>5. Requested'
  BY CallsAssumption DEF IInv, ShakeHands, vars, connection, requests, tracking, transport,
     world, AnswersAreTrue, Requests, Requested, Untouched, Written, Expired, OutcomeWithout,
     SideEffect, Unanswered, TypeOK, Lifecycle, Waiting
<1>6. Answering'
  <2> SUFFICES ASSUME NEW m \in wire, m # Garbage
               PROVE  (/\ m.id \in Requests
                       /\ frame'[m.id] = "admitted"
                       /\ \/ m.kind = "mismatch"
                          \/ /\ m.kind = "ok" /\ done[m.id] = "executed"
                             /\ m.outcome = IF SideEffect(call[m.id]) THEN "executed" ELSE "none"
                          \/ m.kind = "error" /\ done[m.id] # "nothing" /\ m.outcome \in Truthful(m.id))
    BY DEF ShakeHands, Answering, Truthful, world, requests
  <2>1. m.id \in Requests /\ frame[m.id] = "admitted" /\ m.id # Handshake
    BY DEF IInv, Answering, Requested, Untouched, ShakeHands
  <2>2. frame'[m.id] = frame[m.id]
    BY <2>1 DEF IInv, TypeOK, ShakeHands, Written, Expired, transport
  <2> QED BY <2>1, <2>2 DEF IInv, Answering
<1>7. NotExecutedIsFinal'
  BY CallsAssumption DEF IInv, ShakeHands, vars, connection, requests, tracking, transport,
     world, AnswersAreTrue, Requests, NotExecutedIsFinal, Written, Expired, OutcomeWithout,
     SideEffect, Unanswered, TypeOK, Lifecycle, Waiting, Requested, Untouched
<1>8. ExecutedIsTrue'
  BY CallsAssumption DEF IInv, ShakeHands, vars, connection, requests, tracking, transport,
     world, AnswersAreTrue, Requests, ExecutedIsTrue, Written, Expired, OutcomeWithout,
     SideEffect, Unanswered, TypeOK, Lifecycle, Waiting, Requested, Untouched
<1>9. LateIsForTheLost'
  BY CallsAssumption DEF IInv, ShakeHands, vars, connection, requests, tracking, transport,
     world, AnswersAreTrue, Requests, LateIsForTheLost, Written, Expired, OutcomeWithout,
     SideEffect, Unanswered, TypeOK, Lifecycle, Waiting, Requested, Untouched
<1> QED BY <1>1, <1>2, <1>3, <1>4, <1>5, <1>6, <1>7, <1>8, <1>9 DEF IInv, AnswersAreTrue

LEMMA ConnectReturnsKeeps ==
  ASSUME IInv, ConnectReturns
  PROVE  IInv'
<1>1. TypeOK'
  BY CallsAssumption DEF IInv, ConnectReturns, vars, connection, requests, tracking, transport,
     world, AnswersAreTrue, Requests, TypeOK, How, Receipt, Answers, Frames, Garbage, Calls,
     Lifecycle, Waiting, Requested, Untouched
<1>2. Lifecycle'
  BY CallsAssumption DEF IInv, ConnectReturns, vars, connection, requests, tracking, transport,
     world, AnswersAreTrue, Requests, Lifecycle, TypeOK, Waiting, Requested, Untouched
<1>3. Waiting'
  BY CallsAssumption DEF IInv, ConnectReturns, vars, connection, requests, tracking, transport,
     world, AnswersAreTrue, Requests, Waiting, TypeOK, Lifecycle, Requested, Untouched
<1>4. Tracked'
  BY CallsAssumption DEF IInv, ConnectReturns, vars, connection, requests, tracking, transport,
     world, AnswersAreTrue, Requests, Tracked, TypeOK, Lifecycle, Waiting, Requested, Untouched
<1>5. Requested'
  BY CallsAssumption DEF IInv, ConnectReturns, vars, connection, requests, tracking, transport,
     world, AnswersAreTrue, Requests, Requested, Untouched, TypeOK, Lifecycle, Waiting
<1>6. Answering'
  BY CallsAssumption DEF IInv, ConnectReturns, vars, connection, requests, tracking, transport,
     world, AnswersAreTrue, Requests, Answering, Truthful, TypeOK, Lifecycle, Waiting, Requested,
     Untouched
<1>7. NotExecutedIsFinal'
  BY CallsAssumption DEF IInv, ConnectReturns, vars, connection, requests, tracking, transport,
     world, AnswersAreTrue, Requests, NotExecutedIsFinal, TypeOK, Lifecycle, Waiting, Requested,
     Untouched
<1>8. ExecutedIsTrue'
  BY CallsAssumption DEF IInv, ConnectReturns, vars, connection, requests, tracking, transport,
     world, AnswersAreTrue, Requests, ExecutedIsTrue, TypeOK, Lifecycle, Waiting, Requested,
     Untouched
<1>9. LateIsForTheLost'
  BY CallsAssumption DEF IInv, ConnectReturns, vars, connection, requests, tracking, transport,
     world, AnswersAreTrue, Requests, LateIsForTheLost, TypeOK, Lifecycle, Waiting, Requested,
     Untouched
<1> QED BY <1>1, <1>2, <1>3, <1>4, <1>5, <1>6, <1>7, <1>8, <1>9 DEF IInv, AnswersAreTrue

LEMMA ConnectThrowsKeeps ==
  ASSUME IInv, ConnectThrows
  PROVE  IInv'
<1>1. TypeOK'
  BY CallsAssumption DEF IInv, ConnectThrows, vars, connection, requests, tracking, transport,
     world, AnswersAreTrue, Requests, TypeOK, How, Receipt, Answers, Frames, Garbage, Calls,
     Lifecycle, Waiting, Requested, Untouched
<1>2. Lifecycle'
  BY CallsAssumption DEF IInv, ConnectThrows, vars, connection, requests, tracking, transport,
     world, AnswersAreTrue, Requests, Lifecycle, TypeOK, Waiting, Requested, Untouched
<1>3. Waiting'
  BY CallsAssumption DEF IInv, ConnectThrows, vars, connection, requests, tracking, transport,
     world, AnswersAreTrue, Requests, Waiting, TypeOK, Lifecycle, Requested, Untouched
<1>4. Tracked'
  BY CallsAssumption DEF IInv, ConnectThrows, vars, connection, requests, tracking, transport,
     world, AnswersAreTrue, Requests, Tracked, TypeOK, Lifecycle, Waiting, Requested, Untouched
<1>5. Requested'
  BY CallsAssumption DEF IInv, ConnectThrows, vars, connection, requests, tracking, transport,
     world, AnswersAreTrue, Requests, Requested, Untouched, TypeOK, Lifecycle, Waiting
<1>6. Answering'
  BY CallsAssumption DEF IInv, ConnectThrows, vars, connection, requests, tracking, transport,
     world, AnswersAreTrue, Requests, Answering, Truthful, TypeOK, Lifecycle, Waiting, Requested,
     Untouched
<1>7. NotExecutedIsFinal'
  BY CallsAssumption DEF IInv, ConnectThrows, vars, connection, requests, tracking, transport,
     world, AnswersAreTrue, Requests, NotExecutedIsFinal, TypeOK, Lifecycle, Waiting, Requested,
     Untouched
<1>8. ExecutedIsTrue'
  BY CallsAssumption DEF IInv, ConnectThrows, vars, connection, requests, tracking, transport,
     world, AnswersAreTrue, Requests, ExecutedIsTrue, TypeOK, Lifecycle, Waiting, Requested,
     Untouched
<1>9. LateIsForTheLost'
  BY CallsAssumption DEF IInv, ConnectThrows, vars, connection, requests, tracking, transport,
     world, AnswersAreTrue, Requests, LateIsForTheLost, TypeOK, Lifecycle, Waiting, Requested,
     Untouched
<1> QED BY <1>1, <1>2, <1>3, <1>4, <1>5, <1>6, <1>7, <1>8, <1>9 DEF IInv, AnswersAreTrue

LEMMA CloseKeeps ==
  ASSUME IInv, Close
  PROVE  IInv'
<1>1. TypeOK'
  BY CallsAssumption DEF IInv, Close, vars, connection, requests, tracking, transport, world,
     AnswersAreTrue, Requests, TypeOK, How, Receipt, Answers, Frames, Garbage, Calls, Rejected,
     MayStillCome, ConnectAfter, ForgetAll, OutcomeWithout, SideEffect, Lifecycle, Waiting,
     Requested, Untouched
<1>2. Lifecycle'
  BY CallsAssumption DEF IInv, Close, vars, connection, requests, tracking, transport, world,
     AnswersAreTrue, Requests, Lifecycle, Rejected, MayStillCome, ConnectAfter, ForgetAll,
     OutcomeWithout, SideEffect, TypeOK, Waiting, Requested, Untouched
<1>3. Waiting'
  BY CallsAssumption DEF IInv, Close, vars, connection, requests, tracking, transport, world,
     AnswersAreTrue, Requests, Waiting, Rejected, MayStillCome, ConnectAfter, ForgetAll,
     OutcomeWithout, SideEffect, TypeOK, Lifecycle, Requested, Untouched
<1>4. Tracked'
  BY CallsAssumption DEF IInv, Close, vars, connection, requests, tracking, transport, world,
     AnswersAreTrue, Requests, Tracked, Rejected, MayStillCome, ConnectAfter, ForgetAll,
     OutcomeWithout, SideEffect, TypeOK, Lifecycle, Waiting, Requested, Untouched
<1>5. Requested'
  BY CallsAssumption DEF IInv, Close, vars, connection, requests, tracking, transport, world,
     AnswersAreTrue, Requests, Requested, Untouched, Rejected, MayStillCome, ConnectAfter,
     ForgetAll, OutcomeWithout, SideEffect, TypeOK, Lifecycle, Waiting
<1>6. Answering'
  BY CallsAssumption DEF IInv, Close, vars, connection, requests, tracking, transport, world,
     AnswersAreTrue, Requests, Answering, Truthful, Rejected, MayStillCome, ConnectAfter,
     ForgetAll, OutcomeWithout, SideEffect, TypeOK, Lifecycle, Waiting, Requested, Untouched
<1>7. NotExecutedIsFinal'
  BY CallsAssumption DEF IInv, Close, vars, connection, requests, tracking, transport, world,
     AnswersAreTrue, Requests, NotExecutedIsFinal, Rejected, MayStillCome, ConnectAfter,
     ForgetAll, OutcomeWithout, SideEffect, TypeOK, Lifecycle, Waiting, Requested, Untouched
<1>8. ExecutedIsTrue'
  BY CallsAssumption DEF IInv, Close, vars, connection, requests, tracking, transport, world,
     AnswersAreTrue, Requests, ExecutedIsTrue, Rejected, MayStillCome, ConnectAfter, ForgetAll,
     OutcomeWithout, SideEffect, TypeOK, Lifecycle, Waiting, Requested, Untouched
<1>9. LateIsForTheLost'
  BY CallsAssumption DEF IInv, Close, vars, connection, requests, tracking, transport, world,
     AnswersAreTrue, Requests, LateIsForTheLost, Rejected, MayStillCome, ConnectAfter, ForgetAll,
     OutcomeWithout, SideEffect, TypeOK, Lifecycle, Waiting, Requested, Untouched
<1> QED BY <1>1, <1>2, <1>3, <1>4, <1>5, <1>6, <1>7, <1>8, <1>9 DEF IInv, AnswersAreTrue

LEMMA InvokeKeeps ==
  ASSUME IInv, NEW r \in CallIds, NEW c \in {"launch", "act", "find"}, NEW s \in SessionIds, NEW h \in HandleIds, Invoke(r, c, s, h)
  PROVE  IInv'
<1>1. TypeOK'
  BY CallsAssumption DEF IInv, Invoke, vars, connection, requests, tracking, transport, world,
     AnswersAreTrue, Requests, TypeOK, How, Receipt, Answers, Frames, Garbage, Calls, Written,
     Expired, OutcomeWithout, SideEffect, Unanswered, Lifecycle, Waiting, Requested, Untouched
<1>2. Lifecycle'
  BY CallsAssumption DEF IInv, Invoke, vars, connection, requests, tracking, transport, world,
     AnswersAreTrue, Requests, Lifecycle, Written, Expired, OutcomeWithout, SideEffect,
     Unanswered, TypeOK, Waiting, Requested, Untouched
<1>3. Waiting'
  BY CallsAssumption DEF IInv, Invoke, vars, connection, requests, tracking, transport, world,
     AnswersAreTrue, Requests, Waiting, Written, Expired, OutcomeWithout, SideEffect, Unanswered,
     TypeOK, Lifecycle, Requested, Untouched
<1>4. Tracked'
  BY CallsAssumption DEF IInv, Invoke, vars, connection, requests, tracking, transport, world,
     AnswersAreTrue, Requests, Tracked, Written, Expired, OutcomeWithout, SideEffect, Unanswered,
     TypeOK, Lifecycle, Waiting, Requested, Untouched
<1>5. Requested'
  BY CallsAssumption DEF IInv, Invoke, vars, connection, requests, tracking, transport, world,
     AnswersAreTrue, Requests, Requested, Untouched, Written, Expired, OutcomeWithout,
     SideEffect, Unanswered, TypeOK, Lifecycle, Waiting
<1>6. Answering'
  <2> SUFFICES ASSUME NEW m \in wire, m # Garbage
               PROVE  (/\ m.id \in Requests
                       /\ frame'[m.id] = "admitted"
                       /\ \/ m.kind = "mismatch"
                          \/ /\ m.kind = "ok" /\ done[m.id] = "executed"
                             /\ m.outcome = IF SideEffect(call'[m.id]) THEN "executed" ELSE "none"
                          \/ m.kind = "error" /\ done[m.id] # "nothing" /\ m.outcome \in Truthful(m.id)')
    BY DEF Invoke, Answering, world
  <2>1. m.id \in Requests /\ frame[m.id] = "admitted"
    BY DEF IInv, Answering
  <2>2. frame[r] = "none"
    BY DEF IInv, Requested, Untouched, Invoke, Requests
  <2>3. m.id # r
    BY <2>1, <2>2
  <2>4. call'[m.id] = call[m.id] /\ frame'[m.id] = frame[m.id] /\ done' = done
    BY <2>1, <2>3 DEF IInv, TypeOK, Invoke, Written, Expired, world, transport
  <2>5. Truthful(m.id)' = Truthful(m.id)
    BY <2>4 DEF Truthful
  <2> QED BY <2>1, <2>4, <2>5 DEF IInv, Answering
<1>7. NotExecutedIsFinal'
  BY CallsAssumption DEF IInv, Invoke, vars, connection, requests, tracking, transport, world,
     AnswersAreTrue, Requests, NotExecutedIsFinal, Written, Expired, OutcomeWithout, SideEffect,
     Unanswered, TypeOK, Lifecycle, Waiting, Requested, Untouched
<1>8. ExecutedIsTrue'
  BY CallsAssumption DEF IInv, Invoke, vars, connection, requests, tracking, transport, world,
     AnswersAreTrue, Requests, ExecutedIsTrue, Written, Expired, OutcomeWithout, SideEffect,
     Unanswered, TypeOK, Lifecycle, Waiting, Requested, Untouched
<1>9. LateIsForTheLost'
  BY CallsAssumption DEF IInv, Invoke, vars, connection, requests, tracking, transport, world,
     AnswersAreTrue, Requests, LateIsForTheLost, Written, Expired, OutcomeWithout, SideEffect,
     Unanswered, TypeOK, Lifecycle, Waiting, Requested, Untouched
<1> QED BY <1>1, <1>2, <1>3, <1>4, <1>5, <1>6, <1>7, <1>8, <1>9 DEF IInv, AnswersAreTrue

LEMMA CancelPendingKeeps ==
  ASSUME IInv, NEW r \in Requests, CancelPending(r)
  PROVE  IInv'
<1>1. TypeOK'
  BY CallsAssumption DEF IInv, CancelPending, vars, connection, requests, tracking, transport,
     world, AnswersAreTrue, Requests, TypeOK, How, Receipt, Answers, Frames, Garbage, Calls,
     Rejected, MayStillCome, OutcomeWithout, SideEffect, Unanswered, Lifecycle, Waiting,
     Requested, Untouched
<1>2. Lifecycle'
  BY CallsAssumption DEF IInv, CancelPending, vars, connection, requests, tracking, transport,
     world, AnswersAreTrue, Requests, Lifecycle, Rejected, MayStillCome, OutcomeWithout,
     SideEffect, Unanswered, TypeOK, Waiting, Requested, Untouched
<1>3. Waiting'
  BY CallsAssumption DEF IInv, CancelPending, vars, connection, requests, tracking, transport,
     world, AnswersAreTrue, Requests, Waiting, Rejected, MayStillCome, OutcomeWithout,
     SideEffect, Unanswered, TypeOK, Lifecycle, Requested, Untouched
<1>4. Tracked'
  BY CallsAssumption DEF IInv, CancelPending, vars, connection, requests, tracking, transport,
     world, AnswersAreTrue, Requests, Tracked, Rejected, MayStillCome, OutcomeWithout,
     SideEffect, Unanswered, TypeOK, Lifecycle, Waiting, Requested, Untouched
<1>5. Requested'
  BY CallsAssumption DEF IInv, CancelPending, vars, connection, requests, tracking, transport,
     world, AnswersAreTrue, Requests, Requested, Untouched, Rejected, MayStillCome,
     OutcomeWithout, SideEffect, Unanswered, TypeOK, Lifecycle, Waiting
<1>6. Answering'
  BY CallsAssumption DEF IInv, CancelPending, vars, connection, requests, tracking, transport,
     world, AnswersAreTrue, Requests, Answering, Truthful, Rejected, MayStillCome,
     OutcomeWithout, SideEffect, Unanswered, TypeOK, Lifecycle, Waiting, Requested, Untouched
<1>7. NotExecutedIsFinal'
  BY CallsAssumption DEF IInv, CancelPending, vars, connection, requests, tracking, transport,
     world, AnswersAreTrue, Requests, NotExecutedIsFinal, Rejected, MayStillCome, OutcomeWithout,
     SideEffect, Unanswered, TypeOK, Lifecycle, Waiting, Requested, Untouched
<1>8. ExecutedIsTrue'
  BY CallsAssumption DEF IInv, CancelPending, vars, connection, requests, tracking, transport,
     world, AnswersAreTrue, Requests, ExecutedIsTrue, Rejected, MayStillCome, OutcomeWithout,
     SideEffect, Unanswered, TypeOK, Lifecycle, Waiting, Requested, Untouched
<1>9. LateIsForTheLost'
  BY CallsAssumption DEF IInv, CancelPending, vars, connection, requests, tracking, transport,
     world, AnswersAreTrue, Requests, LateIsForTheLost, Rejected, MayStillCome, OutcomeWithout,
     SideEffect, Unanswered, TypeOK, Lifecycle, Waiting, Requested, Untouched
<1> QED BY <1>1, <1>2, <1>3, <1>4, <1>5, <1>6, <1>7, <1>8, <1>9 DEF IInv, AnswersAreTrue

LEMMA ForgetKeeps ==
  ASSUME IInv, NEW s \in SessionIds, Forget(s)
  PROVE  IInv'
<1>1. TypeOK'
  BY CallsAssumption DEF IInv, Forget, vars, connection, requests, tracking, transport, world,
     AnswersAreTrue, Requests, TypeOK, How, Receipt, Answers, Frames, Garbage, Calls, Lifecycle,
     Waiting, Requested, Untouched
<1>2. Lifecycle'
  BY CallsAssumption DEF IInv, Forget, vars, connection, requests, tracking, transport, world,
     AnswersAreTrue, Requests, Lifecycle, TypeOK, Waiting, Requested, Untouched
<1>3. Waiting'
  BY CallsAssumption DEF IInv, Forget, vars, connection, requests, tracking, transport, world,
     AnswersAreTrue, Requests, Waiting, TypeOK, Lifecycle, Requested, Untouched
<1>4. Tracked'
  BY CallsAssumption DEF IInv, Forget, vars, connection, requests, tracking, transport, world,
     AnswersAreTrue, Requests, Tracked, TypeOK, Lifecycle, Waiting, Requested, Untouched
<1>5. Requested'
  BY CallsAssumption DEF IInv, Forget, vars, connection, requests, tracking, transport, world,
     AnswersAreTrue, Requests, Requested, Untouched, TypeOK, Lifecycle, Waiting
<1>6. Answering'
  BY CallsAssumption DEF IInv, Forget, vars, connection, requests, tracking, transport, world,
     AnswersAreTrue, Requests, Answering, Truthful, TypeOK, Lifecycle, Waiting, Requested,
     Untouched
<1>7. NotExecutedIsFinal'
  BY CallsAssumption DEF IInv, Forget, vars, connection, requests, tracking, transport, world,
     AnswersAreTrue, Requests, NotExecutedIsFinal, TypeOK, Lifecycle, Waiting, Requested,
     Untouched
<1>8. ExecutedIsTrue'
  BY CallsAssumption DEF IInv, Forget, vars, connection, requests, tracking, transport, world,
     AnswersAreTrue, Requests, ExecutedIsTrue, TypeOK, Lifecycle, Waiting, Requested, Untouched
<1>9. LateIsForTheLost'
  BY CallsAssumption DEF IInv, Forget, vars, connection, requests, tracking, transport, world,
     AnswersAreTrue, Requests, LateIsForTheLost, TypeOK, Lifecycle, Waiting, Requested, Untouched
<1> QED BY <1>1, <1>2, <1>3, <1>4, <1>5, <1>6, <1>7, <1>8, <1>9 DEF IInv, AnswersAreTrue

LEMMA WriteCompletesKeeps ==
  ASSUME IInv, NEW r \in Requests, WriteCompletes(r)
  PROVE  IInv'
<1>1. TypeOK'
  BY CallsAssumption DEF IInv, WriteCompletes, vars, connection, requests, tracking, transport,
     world, AnswersAreTrue, Requests, TypeOK, How, Receipt, Answers, Frames, Garbage, Calls,
     Lifecycle, Waiting, Requested, Untouched
<1>2. Lifecycle'
  BY CallsAssumption DEF IInv, WriteCompletes, vars, connection, requests, tracking, transport,
     world, AnswersAreTrue, Requests, Lifecycle, TypeOK, Waiting, Requested, Untouched
<1>3. Waiting'
  BY CallsAssumption DEF IInv, WriteCompletes, vars, connection, requests, tracking, transport,
     world, AnswersAreTrue, Requests, Waiting, TypeOK, Lifecycle, Requested, Untouched
<1>4. Tracked'
  BY CallsAssumption DEF IInv, WriteCompletes, vars, connection, requests, tracking, transport,
     world, AnswersAreTrue, Requests, Tracked, TypeOK, Lifecycle, Waiting, Requested, Untouched
<1>5. Requested'
  BY CallsAssumption DEF IInv, WriteCompletes, vars, connection, requests, tracking, transport,
     world, AnswersAreTrue, Requests, Requested, Untouched, TypeOK, Lifecycle, Waiting
<1>6. Answering'
  BY CallsAssumption DEF IInv, WriteCompletes, vars, connection, requests, tracking, transport,
     world, AnswersAreTrue, Requests, Answering, Truthful, TypeOK, Lifecycle, Waiting, Requested,
     Untouched
<1>7. NotExecutedIsFinal'
  BY CallsAssumption DEF IInv, WriteCompletes, vars, connection, requests, tracking, transport,
     world, AnswersAreTrue, Requests, NotExecutedIsFinal, TypeOK, Lifecycle, Waiting, Requested,
     Untouched
<1>8. ExecutedIsTrue'
  BY CallsAssumption DEF IInv, WriteCompletes, vars, connection, requests, tracking, transport,
     world, AnswersAreTrue, Requests, ExecutedIsTrue, TypeOK, Lifecycle, Waiting, Requested,
     Untouched
<1>9. LateIsForTheLost'
  BY CallsAssumption DEF IInv, WriteCompletes, vars, connection, requests, tracking, transport,
     world, AnswersAreTrue, Requests, LateIsForTheLost, TypeOK, Lifecycle, Waiting, Requested,
     Untouched
<1> QED BY <1>1, <1>2, <1>3, <1>4, <1>5, <1>6, <1>7, <1>8, <1>9 DEF IInv, AnswersAreTrue

LEMMA WriteFailsKeeps ==
  ASSUME IInv, NEW r \in Requests, WriteFails(r)
  PROVE  IInv'
<1>1. TypeOK'
  BY CallsAssumption DEF IInv, WriteFails, vars, connection, requests, tracking, transport,
     world, AnswersAreTrue, Requests, TypeOK, How, Receipt, Answers, Frames, Garbage, Calls,
     WriteFailed, OutcomeWithout, SideEffect, Unanswered, Lifecycle, Waiting, Requested, Untouched
<1>2. Lifecycle'
  BY CallsAssumption DEF IInv, WriteFails, vars, connection, requests, tracking, transport,
     world, AnswersAreTrue, Requests, Lifecycle, WriteFailed, OutcomeWithout, SideEffect,
     Unanswered, TypeOK, Waiting, Requested, Untouched
<1>3. Waiting'
  BY CallsAssumption DEF IInv, WriteFails, vars, connection, requests, tracking, transport,
     world, AnswersAreTrue, Requests, Waiting, WriteFailed, OutcomeWithout, SideEffect,
     Unanswered, TypeOK, Lifecycle, Requested, Untouched
<1>4. Tracked'
  BY CallsAssumption DEF IInv, WriteFails, vars, connection, requests, tracking, transport,
     world, AnswersAreTrue, Requests, Tracked, WriteFailed, OutcomeWithout, SideEffect,
     Unanswered, TypeOK, Lifecycle, Waiting, Requested, Untouched
<1>5. Requested'
  BY CallsAssumption DEF IInv, WriteFails, vars, connection, requests, tracking, transport,
     world, AnswersAreTrue, Requests, Requested, Untouched, WriteFailed, OutcomeWithout,
     SideEffect, Unanswered, TypeOK, Lifecycle, Waiting
<1>6. Answering'
  BY CallsAssumption DEF IInv, WriteFails, vars, connection, requests, tracking, transport,
     world, AnswersAreTrue, Requests, Answering, Truthful, WriteFailed, OutcomeWithout,
     SideEffect, Unanswered, TypeOK, Lifecycle, Waiting, Requested, Untouched
<1>7. NotExecutedIsFinal'
  BY CallsAssumption DEF IInv, WriteFails, vars, connection, requests, tracking, transport,
     world, AnswersAreTrue, Requests, NotExecutedIsFinal, WriteFailed, OutcomeWithout,
     SideEffect, Unanswered, TypeOK, Lifecycle, Waiting, Requested, Untouched
<1>8. ExecutedIsTrue'
  BY CallsAssumption DEF IInv, WriteFails, vars, connection, requests, tracking, transport,
     world, AnswersAreTrue, Requests, ExecutedIsTrue, WriteFailed, OutcomeWithout, SideEffect,
     Unanswered, TypeOK, Lifecycle, Waiting, Requested, Untouched
<1>9. LateIsForTheLost'
  BY CallsAssumption DEF IInv, WriteFails, vars, connection, requests, tracking, transport,
     world, AnswersAreTrue, Requests, LateIsForTheLost, WriteFailed, OutcomeWithout, SideEffect,
     Unanswered, TypeOK, Lifecycle, Waiting, Requested, Untouched
<1> QED BY <1>1, <1>2, <1>3, <1>4, <1>5, <1>6, <1>7, <1>8, <1>9 DEF IInv, AnswersAreTrue

LEMMA TransportFailsKeeps ==
  ASSUME IInv, TransportFails
  PROVE  IInv'
<1>1. TypeOK'
  <2>1. CASE state \in {"closed", "disconnected"}
    BY <2>1 DEF IInv, TypeOK, TransportFails, Disconnect, connection, requests, tracking, world
  <2>2. CASE state \notin {"closed", "disconnected"}
    <3>1. Rejected(pending, "lost") \in [Requests -> Answers]
      BY DEF IInv, TypeOK, Rejected, OutcomeWithout, Answers, How, Receipt
    <3>2. MayStillCome(pending) \subseteq Requests /\ ConnectAfter(pending) \in {"failed", connect}
      BY DEF IInv, TypeOK, MayStillCome, ConnectAfter
    <3> QED BY <2>2, <3>1, <3>2 DEF IInv, TypeOK, TransportFails, Disconnect, ForgetAll
  <2> QED BY <2>1, <2>2
<1>2. Lifecycle'
  BY CallsAssumption DEF IInv, TransportFails, vars, connection, requests, tracking, transport,
     world, AnswersAreTrue, Requests, Lifecycle, Disconnect, Rejected, MayStillCome,
     ConnectAfter, ForgetAll, OutcomeWithout, SideEffect, Unanswered, TypeOK, Waiting, Requested,
     Untouched
<1>3. Waiting'
  BY CallsAssumption DEF IInv, TransportFails, vars, connection, requests, tracking, transport,
     world, AnswersAreTrue, Requests, Waiting, Disconnect, Rejected, MayStillCome, ConnectAfter,
     ForgetAll, OutcomeWithout, SideEffect, Unanswered, TypeOK, Lifecycle, Requested, Untouched
<1>4. Tracked'
  BY CallsAssumption DEF IInv, TransportFails, vars, connection, requests, tracking, transport,
     world, AnswersAreTrue, Requests, Tracked, Disconnect, Rejected, MayStillCome, ConnectAfter,
     ForgetAll, OutcomeWithout, SideEffect, Unanswered, TypeOK, Lifecycle, Waiting, Requested,
     Untouched
<1>5. Requested'
  BY CallsAssumption DEF IInv, TransportFails, vars, connection, requests, tracking, transport,
     world, AnswersAreTrue, Requests, Requested, Untouched, Disconnect, Rejected, MayStillCome,
     ConnectAfter, ForgetAll, OutcomeWithout, SideEffect, Unanswered, TypeOK, Lifecycle, Waiting
<1>6. Answering'
  BY CallsAssumption DEF IInv, TransportFails, vars, connection, requests, tracking, transport,
     world, AnswersAreTrue, Requests, Answering, Truthful, Disconnect, Rejected, MayStillCome,
     ConnectAfter, ForgetAll, OutcomeWithout, SideEffect, Unanswered, TypeOK, Lifecycle, Waiting,
     Requested, Untouched
<1>7. NotExecutedIsFinal'
  BY CallsAssumption DEF IInv, TransportFails, vars, connection, requests, tracking, transport,
     world, AnswersAreTrue, Requests, NotExecutedIsFinal, Disconnect, Rejected, MayStillCome,
     ConnectAfter, ForgetAll, OutcomeWithout, SideEffect, Unanswered, TypeOK, Lifecycle, Waiting,
     Requested, Untouched
<1>8. ExecutedIsTrue'
  BY CallsAssumption DEF IInv, TransportFails, vars, connection, requests, tracking, transport,
     world, AnswersAreTrue, Requests, ExecutedIsTrue, Disconnect, Rejected, MayStillCome,
     ConnectAfter, ForgetAll, OutcomeWithout, SideEffect, Unanswered, TypeOK, Lifecycle, Waiting,
     Requested, Untouched
<1>9. LateIsForTheLost'
  BY CallsAssumption DEF IInv, TransportFails, vars, connection, requests, tracking, transport,
     world, AnswersAreTrue, Requests, LateIsForTheLost, Disconnect, Rejected, MayStillCome,
     ConnectAfter, ForgetAll, OutcomeWithout, SideEffect, Unanswered, TypeOK, Lifecycle, Waiting,
     Requested, Untouched
<1> QED BY <1>1, <1>2, <1>3, <1>4, <1>5, <1>6, <1>7, <1>8, <1>9 DEF IInv, AnswersAreTrue

LEMMA TransportClosesKeeps ==
  ASSUME IInv, TransportCloses
  PROVE  IInv'
<1>1. TypeOK'
  BY CallsAssumption DEF IInv, TransportCloses, vars, connection, requests, tracking, transport,
     world, AnswersAreTrue, Requests, TypeOK, How, Receipt, Answers, Frames, Garbage, Calls,
     Lifecycle, Waiting, Requested, Untouched
<1>2. Lifecycle'
  BY CallsAssumption DEF IInv, TransportCloses, vars, connection, requests, tracking, transport,
     world, AnswersAreTrue, Requests, Lifecycle, TypeOK, Waiting, Requested, Untouched
<1>3. Waiting'
  BY CallsAssumption DEF IInv, TransportCloses, vars, connection, requests, tracking, transport,
     world, AnswersAreTrue, Requests, Waiting, TypeOK, Lifecycle, Requested, Untouched
<1>4. Tracked'
  BY CallsAssumption DEF IInv, TransportCloses, vars, connection, requests, tracking, transport,
     world, AnswersAreTrue, Requests, Tracked, TypeOK, Lifecycle, Waiting, Requested, Untouched
<1>5. Requested'
  BY CallsAssumption DEF IInv, TransportCloses, vars, connection, requests, tracking, transport,
     world, AnswersAreTrue, Requests, Requested, Untouched, TypeOK, Lifecycle, Waiting
<1>6. Answering'
  BY CallsAssumption DEF IInv, TransportCloses, vars, connection, requests, tracking, transport,
     world, AnswersAreTrue, Requests, Answering, Truthful, TypeOK, Lifecycle, Waiting, Requested,
     Untouched
<1>7. NotExecutedIsFinal'
  BY CallsAssumption DEF IInv, TransportCloses, vars, connection, requests, tracking, transport,
     world, AnswersAreTrue, Requests, NotExecutedIsFinal, TypeOK, Lifecycle, Waiting, Requested,
     Untouched
<1>8. ExecutedIsTrue'
  BY CallsAssumption DEF IInv, TransportCloses, vars, connection, requests, tracking, transport,
     world, AnswersAreTrue, Requests, ExecutedIsTrue, TypeOK, Lifecycle, Waiting, Requested,
     Untouched
<1>9. LateIsForTheLost'
  BY CallsAssumption DEF IInv, TransportCloses, vars, connection, requests, tracking, transport,
     world, AnswersAreTrue, Requests, LateIsForTheLost, TypeOK, Lifecycle, Waiting, Requested,
     Untouched
<1> QED BY <1>1, <1>2, <1>3, <1>4, <1>5, <1>6, <1>7, <1>8, <1>9 DEF IInv, AnswersAreTrue

LEMMA TransportClosedKeeps ==
  ASSUME IInv, TransportClosed
  PROVE  IInv'
<1>1. TypeOK'
  BY CallsAssumption DEF IInv, TransportClosed, vars, connection, requests, tracking, transport,
     world, AnswersAreTrue, Requests, TypeOK, How, Receipt, Answers, Frames, Garbage, Calls,
     Lifecycle, Waiting, Requested, Untouched
<1>2. Lifecycle'
  BY CallsAssumption DEF IInv, TransportClosed, vars, connection, requests, tracking, transport,
     world, AnswersAreTrue, Requests, Lifecycle, TypeOK, Waiting, Requested, Untouched
<1>3. Waiting'
  BY CallsAssumption DEF IInv, TransportClosed, vars, connection, requests, tracking, transport,
     world, AnswersAreTrue, Requests, Waiting, TypeOK, Lifecycle, Requested, Untouched
<1>4. Tracked'
  BY CallsAssumption DEF IInv, TransportClosed, vars, connection, requests, tracking, transport,
     world, AnswersAreTrue, Requests, Tracked, TypeOK, Lifecycle, Waiting, Requested, Untouched
<1>5. Requested'
  BY CallsAssumption DEF IInv, TransportClosed, vars, connection, requests, tracking, transport,
     world, AnswersAreTrue, Requests, Requested, Untouched, TypeOK, Lifecycle, Waiting
<1>6. Answering'
  BY CallsAssumption DEF IInv, TransportClosed, vars, connection, requests, tracking, transport,
     world, AnswersAreTrue, Requests, Answering, Truthful, TypeOK, Lifecycle, Waiting, Requested,
     Untouched
<1>7. NotExecutedIsFinal'
  BY CallsAssumption DEF IInv, TransportClosed, vars, connection, requests, tracking, transport,
     world, AnswersAreTrue, Requests, NotExecutedIsFinal, TypeOK, Lifecycle, Waiting, Requested,
     Untouched
<1>8. ExecutedIsTrue'
  BY CallsAssumption DEF IInv, TransportClosed, vars, connection, requests, tracking, transport,
     world, AnswersAreTrue, Requests, ExecutedIsTrue, TypeOK, Lifecycle, Waiting, Requested,
     Untouched
<1>9. LateIsForTheLost'
  BY CallsAssumption DEF IInv, TransportClosed, vars, connection, requests, tracking, transport,
     world, AnswersAreTrue, Requests, LateIsForTheLost, TypeOK, Lifecycle, Waiting, Requested,
     Untouched
<1> QED BY <1>1, <1>2, <1>3, <1>4, <1>5, <1>6, <1>7, <1>8, <1>9 DEF IInv, AnswersAreTrue

LEMMA HostTakesKeeps ==
  ASSUME IInv, NEW r \in Requests, NEW deed \in {"executed", "refused"}, HostTakes(r, deed)
  PROVE  IInv'
<1>1. TypeOK'
  BY CallsAssumption DEF IInv, HostTakes, vars, connection, requests, tracking, transport, world,
     AnswersAreTrue, Requests, TypeOK, How, Receipt, Answers, Frames, Garbage, Calls, Lifecycle,
     Waiting, Requested, Untouched
<1>2. Lifecycle'
  BY CallsAssumption DEF IInv, HostTakes, vars, connection, requests, tracking, transport, world,
     AnswersAreTrue, Requests, Lifecycle, TypeOK, Waiting, Requested, Untouched
<1>3. Waiting'
  BY CallsAssumption DEF IInv, HostTakes, vars, connection, requests, tracking, transport, world,
     AnswersAreTrue, Requests, Waiting, TypeOK, Lifecycle, Requested, Untouched
<1>4. Tracked'
  BY CallsAssumption DEF IInv, HostTakes, vars, connection, requests, tracking, transport, world,
     AnswersAreTrue, Requests, Tracked, TypeOK, Lifecycle, Waiting, Requested, Untouched
<1>5. Requested'
  BY CallsAssumption DEF IInv, HostTakes, vars, connection, requests, tracking, transport, world,
     AnswersAreTrue, Requests, Requested, Untouched, TypeOK, Lifecycle, Waiting
<1>6. Answering'
  <2> SUFFICES ASSUME NEW m \in wire, m # Garbage
               PROVE  (/\ m.id \in Requests
                       /\ frame[m.id] = "admitted"
                       /\ \/ m.kind = "mismatch"
                          \/ /\ m.kind = "ok" /\ done'[m.id] = "executed"
                             /\ m.outcome = IF SideEffect(call[m.id]) THEN "executed" ELSE "none"
                          \/ m.kind = "error" /\ done'[m.id] # "nothing" /\ m.outcome \in Truthful(m.id)')
    BY DEF HostTakes, Answering, requests, transport
  <2>1. /\ m.id \in Requests /\ frame[m.id] = "admitted"
        /\ m.kind # "mismatch" => done[m.id] # "nothing"
    BY DEF IInv, Answering
  <2>2. m.kind # "mismatch" => done'[m.id] = done[m.id]
    BY <2>1 DEF IInv, TypeOK, HostTakes
  <2>3. m.kind # "mismatch" => Truthful(m.id)' = Truthful(m.id)
    BY <2>2 DEF Truthful, HostTakes, requests
  <2> QED BY <2>1, <2>2, <2>3 DEF IInv, Answering
<1>7. NotExecutedIsFinal'
  BY CallsAssumption DEF IInv, HostTakes, vars, connection, requests, tracking, transport, world,
     AnswersAreTrue, Requests, NotExecutedIsFinal, TypeOK, Lifecycle, Waiting, Requested,
     Untouched
<1>8. ExecutedIsTrue'
  BY CallsAssumption DEF IInv, HostTakes, vars, connection, requests, tracking, transport, world,
     AnswersAreTrue, Requests, ExecutedIsTrue, TypeOK, Lifecycle, Waiting, Requested, Untouched
<1>9. LateIsForTheLost'
  BY CallsAssumption DEF IInv, HostTakes, vars, connection, requests, tracking, transport, world,
     AnswersAreTrue, Requests, LateIsForTheLost, TypeOK, Lifecycle, Waiting, Requested, Untouched
<1> QED BY <1>1, <1>2, <1>3, <1>4, <1>5, <1>6, <1>7, <1>8, <1>9 DEF IInv, AnswersAreTrue

LEMMA HostRepliesKeeps ==
  ASSUME IInv, NEW r \in Requests, HostReplies(r)
  PROVE  IInv'
<1>1. TypeOK'
  <2>1. Truthful(r) \subseteq Receipt
    BY DEF Truthful, Receipt
  <2>2. wire' \subseteq Frames
    BY <2>1 DEF IInv, TypeOK, HostReplies, Frames, Receipt
  <2> QED BY <2>2 DEF IInv, TypeOK, HostReplies, connection, requests, tracking, transport
<1>2. Lifecycle'
  BY CallsAssumption DEF IInv, HostReplies, vars, connection, requests, tracking, transport,
     world, AnswersAreTrue, Requests, Lifecycle, TypeOK, Waiting, Requested, Untouched
<1>3. Waiting'
  BY CallsAssumption DEF IInv, HostReplies, vars, connection, requests, tracking, transport,
     world, AnswersAreTrue, Requests, Waiting, TypeOK, Lifecycle, Requested, Untouched
<1>4. Tracked'
  BY CallsAssumption DEF IInv, HostReplies, vars, connection, requests, tracking, transport,
     world, AnswersAreTrue, Requests, Tracked, TypeOK, Lifecycle, Waiting, Requested, Untouched
<1>5. Requested'
  BY CallsAssumption DEF IInv, HostReplies, vars, connection, requests, tracking, transport,
     world, AnswersAreTrue, Requests, Requested, Untouched, TypeOK, Lifecycle, Waiting
<1>6. Answering'
  <2> SUFFICES ASSUME NEW m \in wire', m # Garbage
               PROVE  (/\ m.id \in Requests
                       /\ frame[m.id] = "admitted"
                       /\ \/ m.kind = "mismatch"
                          \/ /\ m.kind = "ok" /\ done[m.id] = "executed"
                             /\ m.outcome = IF SideEffect(call[m.id]) THEN "executed" ELSE "none"
                          \/ m.kind = "error" /\ done[m.id] # "nothing" /\ m.outcome \in Truthful(m.id))
    BY DEF HostReplies, Answering, Truthful, requests, transport
  <2>1. CASE m \in wire
    BY <2>1 DEF IInv, Answering
  <2>2. CASE m \notin wire
    BY <2>2 DEF IInv, Requested, HostReplies
  <2> QED BY <2>1, <2>2
<1>7. NotExecutedIsFinal'
  BY CallsAssumption DEF IInv, HostReplies, vars, connection, requests, tracking, transport,
     world, AnswersAreTrue, Requests, NotExecutedIsFinal, TypeOK, Lifecycle, Waiting, Requested,
     Untouched
<1>8. ExecutedIsTrue'
  BY CallsAssumption DEF IInv, HostReplies, vars, connection, requests, tracking, transport,
     world, AnswersAreTrue, Requests, ExecutedIsTrue, TypeOK, Lifecycle, Waiting, Requested,
     Untouched
<1>9. LateIsForTheLost'
  BY CallsAssumption DEF IInv, HostReplies, vars, connection, requests, tracking, transport,
     world, AnswersAreTrue, Requests, LateIsForTheLost, TypeOK, Lifecycle, Waiting, Requested,
     Untouched
<1> QED BY <1>1, <1>2, <1>3, <1>4, <1>5, <1>6, <1>7, <1>8, <1>9 DEF IInv, AnswersAreTrue

LEMMA HostMisbehavesKeeps ==
  ASSUME IInv, HostMisbehaves
  PROVE  IInv'
<1>1. TypeOK'
  <2>1. \A r \in replied : Truthful(r) \subseteq Receipt
    BY DEF Truthful, Receipt
  <2>2. wire' \subseteq Frames
    BY <2>1 DEF IInv, TypeOK, HostMisbehaves, Frames, Garbage, Receipt
  <2>3. noise' \in 0..MaxNoise
    BY CallsAssumption DEF IInv, TypeOK, HostMisbehaves
  <2> QED BY <2>2, <2>3 DEF IInv, TypeOK, HostMisbehaves, connection, requests, tracking, transport
<1>2. Lifecycle'
  BY CallsAssumption DEF IInv, HostMisbehaves, vars, connection, requests, tracking, transport,
     world, AnswersAreTrue, Requests, Lifecycle, TypeOK, Waiting, Requested, Untouched
<1>3. Waiting'
  BY CallsAssumption DEF IInv, HostMisbehaves, vars, connection, requests, tracking, transport,
     world, AnswersAreTrue, Requests, Waiting, TypeOK, Lifecycle, Requested, Untouched
<1>4. Tracked'
  BY CallsAssumption DEF IInv, HostMisbehaves, vars, connection, requests, tracking, transport,
     world, AnswersAreTrue, Requests, Tracked, TypeOK, Lifecycle, Waiting, Requested, Untouched
<1>5. Requested'
  BY CallsAssumption DEF IInv, HostMisbehaves, vars, connection, requests, tracking, transport,
     world, AnswersAreTrue, Requests, Requested, Untouched, TypeOK, Lifecycle, Waiting
<1>6. Answering'
  <2> SUFFICES ASSUME NEW m \in wire', m # Garbage
               PROVE  (/\ m.id \in Requests
                       /\ frame[m.id] = "admitted"
                       /\ \/ m.kind = "mismatch"
                          \/ /\ m.kind = "ok" /\ done[m.id] = "executed"
                             /\ m.outcome = IF SideEffect(call[m.id]) THEN "executed" ELSE "none"
                          \/ m.kind = "error" /\ done[m.id] # "nothing" /\ m.outcome \in Truthful(m.id))
    BY DEF HostMisbehaves, Answering, Truthful, requests, transport
  <2>1. CASE m \in wire
    BY <2>1 DEF IInv, Answering
  <2>2. CASE m \notin wire
    BY <2>2 DEF IInv, TypeOK, Requested, HostMisbehaves
  <2> QED BY <2>1, <2>2
<1>7. NotExecutedIsFinal'
  BY CallsAssumption DEF IInv, HostMisbehaves, vars, connection, requests, tracking, transport,
     world, AnswersAreTrue, Requests, NotExecutedIsFinal, TypeOK, Lifecycle, Waiting, Requested,
     Untouched
<1>8. ExecutedIsTrue'
  BY CallsAssumption DEF IInv, HostMisbehaves, vars, connection, requests, tracking, transport,
     world, AnswersAreTrue, Requests, ExecutedIsTrue, TypeOK, Lifecycle, Waiting, Requested,
     Untouched
<1>9. LateIsForTheLost'
  BY CallsAssumption DEF IInv, HostMisbehaves, vars, connection, requests, tracking, transport,
     world, AnswersAreTrue, Requests, LateIsForTheLost, TypeOK, Lifecycle, Waiting, Requested,
     Untouched
<1> QED BY <1>1, <1>2, <1>3, <1>4, <1>5, <1>6, <1>7, <1>8, <1>9 DEF IInv, AnswersAreTrue


LEMMA ViolationKeeps ==
  ASSUME IInv, ProtocolFailure, awaiting' \in SUBSET awaiting, wire' \in SUBSET wire,
         UNCHANGED <<transport, done, replied, noise>>
  PROVE  IInv'
<1>1. /\ Rejected(pending, "violation") \in [Requests -> Answers]
      /\ ConnectAfter(pending) \in {"failed", connect}
  BY DEF IInv, TypeOK, Rejected, OutcomeWithout, Answers, How, Receipt, ConnectAfter
<1>2. TypeOK'
  BY <1>1 DEF IInv, TypeOK, ProtocolFailure, ForgetAll, transport
<1>3. Lifecycle'
  BY DEF IInv, TypeOK, Lifecycle, Waiting, ProtocolFailure, ConnectAfter, transport
<1>4. Waiting' /\ Tracked'
  BY DEF Waiting, Tracked, ProtocolFailure, ForgetAll
<1>5. Requested'
  BY CallsAssumption DEF IInv, TypeOK, Lifecycle, Waiting, Requested, Untouched, ProtocolFailure,
     ConnectAfter, Rejected, Requests, transport
<1>6. Answering'
  BY DEF IInv, Answering, Truthful, ProtocolFailure, transport
<1>7. NotExecutedIsFinal'
  BY DEF IInv, AnswersAreTrue, NotExecutedIsFinal, Requested, ProtocolFailure, Rejected,
     OutcomeWithout, transport
<1>8. ExecutedIsTrue'
  BY DEF IInv, AnswersAreTrue, ExecutedIsTrue, ProtocolFailure, Rejected, OutcomeWithout, transport
<1>9. LateIsForTheLost'
  BY DEF IInv, TypeOK, AnswersAreTrue, LateIsForTheLost, ProtocolFailure, Rejected, OutcomeWithout
<1> QED BY <1>2, <1>3, <1>4, <1>5, <1>6, <1>7, <1>8, <1>9 DEF IInv, AnswersAreTrue

\* What the client tracks after it decoded a result.
LEMMA DecodedKeeps ==
  ASSUME IInv, NEW r \in pending, NEW s \in SessionIds, NEW h \in HandleIds, Decoded(r, s, h),
         UNCHANGED state
  PROVE  /\ Tracked'
         /\ sessions' \in [SessionIds -> HandleIds \cup {None}]
         /\ seen' \subseteq SessionIds /\ handles' \subseteq SessionIds \X HandleIds
         /\ \A x \in seen : sessions'[x] = sessions[x]
<1>1. CASE call[r] = "launch" /\ TrackSession(s, h)
  <2>1. state = "ready"
    BY <1>1 DEF TrackSession, IInv, Lifecycle
  <2> QED BY <1>1, <2>1, CallsAssumption DEF IInv, TypeOK, Tracked, TrackSession
<1>2. CASE call[r] = "find" /\ TrackHandle(s, h)
  <2>1. state = "ready"
    BY <1>2 DEF TrackHandle, IInv, Tracked
  <2> QED BY <1>2, <2>1 DEF IInv, TypeOK, Tracked, TrackHandle
<1>3. CASE UNCHANGED tracking
  BY <1>3 DEF IInv, TypeOK, Tracked, tracking
<1> QED BY <1>1, <1>2, <1>3 DEF Decoded

LEMMA AnsweredKeeps ==
  ASSUME IInv, NEW m \in wire, m # Garbage, m.id \in pending, Answered(m),
         wire' = wire \ {m}, UNCHANGED <<transport, done, replied, noise>>
  PROVE  IInv'
<1> DEFINE r == m.id
<1>1. /\ r \in Requests /\ m.outcome \in Receipt
      /\ m.kind = "ok" => /\ done[r] = "executed"
                          /\ m.outcome = IF SideEffect(call[r]) THEN "executed" ELSE "none"
      /\ m.kind = "error" => done[r] # "nothing" /\ m.outcome \in Truthful(r)
  BY DEF IInv, TypeOK, Answering, Frames
<1>2. PICK how \in {"remote", "value", "undecoded"} :
        /\ answer' = [answer EXCEPT ![r] = [how |-> how, outcome |-> m.outcome]]
        /\ how = "remote" => m.kind = "error"
        /\ how # "remote" => m.kind = "ok"
  BY DEF Answered
<1>3. /\ Tracked'
      /\ sessions' \in [SessionIds -> HandleIds \cup {None}]
      /\ seen' \subseteq SessionIds /\ handles' \subseteq SessionIds \X HandleIds
  <2>1. CASE UNCHANGED tracking
    BY <2>1 DEF IInv, TypeOK, Tracked, tracking, Answered
  <2>2. CASE \E s \in SessionIds, h \in HandleIds : Decoded(r, s, h)
    BY <2>2, DecodedKeeps DEF Answered
  <2> QED BY <2>1, <2>2 DEF Answered
<1>4. connect' \in IF r = Handshake THEN {"failed", "answered"} ELSE {connect}
  BY DEF Answered
<1>5. /\ pending' = pending \ {r} /\ r \in pending
      /\ UNCHANGED <<state, host, opening, closing, call, phase, awaiting, late, link, frame, done,
                     replied, noise>>
  BY DEF Answered, transport
<1>6. r \notin awaiting /\ late[r] = 0 /\ frame[r] # "none" /\ call[r] # "none"
  BY <1>1, <1>5 DEF IInv, TypeOK, AnswersAreTrue, LateIsForTheLost, Requested, Untouched
<1> HIDE DEF r
<1>7. TypeOK'
  BY <1>1, <1>2, <1>3, <1>4, <1>5 DEF IInv, TypeOK, Answers, How, Receipt
<1>8. Lifecycle' /\ Waiting'
  BY <1>4, <1>5 DEF IInv, TypeOK, Lifecycle, Waiting
<1>9. Requested'
  BY <1>1, <1>2, <1>4, <1>5, <1>6, CallsAssumption
     DEF IInv, TypeOK, Requested, Untouched, Waiting, Requests
<1>10. Answering'
  BY <1>5 DEF IInv, Answering, Truthful
<1>11. NotExecutedIsFinal'
  BY <1>1, <1>2, <1>5 DEF IInv, TypeOK, AnswersAreTrue, NotExecutedIsFinal, Truthful, Requested
<1>12. ExecutedIsTrue'
  BY <1>1, <1>2, <1>5 DEF IInv, TypeOK, AnswersAreTrue, ExecutedIsTrue, Truthful
<1>13. LateIsForTheLost'
  BY <1>1, <1>2, <1>5, <1>6 DEF IInv, TypeOK, AnswersAreTrue, LateIsForTheLost
<1> QED BY <1>3, <1>7, <1>8, <1>9, <1>10, <1>11, <1>12, <1>13 DEF IInv, AnswersAreTrue

LEMMA CameLateKeeps ==
  ASSUME IInv, NEW m \in wire, m # Garbage, m.id \notin pending, CameLate(m),
         wire' = wire \ {m}, UNCHANGED <<transport, done, replied, noise>>
  PROVE  IInv'
<1>1. CASE m.id \notin awaiting
  <2>1. awaiting' = awaiting /\ UNCHANGED <<connection, pending, call, phase, answer, late, tracking>>
    BY <1>1 DEF CameLate
  <2>2. TypeOK' /\ Lifecycle' /\ Waiting' /\ Tracked' /\ Requested' /\ Answering'
    BY <2>1 DEF IInv, TypeOK, Lifecycle, Waiting, Tracked, Requested, Untouched, Answering, Truthful,
       connection, tracking, transport
  <2>3. AnswersAreTrue'
    BY <2>1 DEF IInv, AnswersAreTrue, NotExecutedIsFinal, ExecutedIsTrue, LateIsForTheLost, transport
  <2> QED BY <2>2, <2>3 DEF IInv
<1>2. CASE m.id \in awaiting /\ m.kind = "mismatch"
  BY <1>2, ViolationKeeps DEF CameLate
<1>3. CASE m.id \in awaiting /\ m.kind # "mismatch"
  <2>1. /\ awaiting' = awaiting \ {m.id} /\ late' = [late EXCEPT ![m.id] = @ + 1]
        /\ UNCHANGED <<connection, pending, call, phase, answer, tracking>>
    BY <1>3 DEF CameLate
  <2>2. m.id \in Requests /\ ~Untouched(m.id)
    BY <1>3 DEF IInv, TypeOK, Untouched
  <2>3. TypeOK' /\ Lifecycle' /\ Waiting' /\ Tracked' /\ Answering'
    BY <2>1, <2>2 DEF IInv, TypeOK, Lifecycle, Waiting, Tracked, Answering, Truthful, connection,
       tracking, transport
  <2>4. Requested'
    BY <2>1, <2>2 DEF IInv, TypeOK, Requested, Untouched, connection, transport, Requests
  <2>5. NotExecutedIsFinal' /\ ExecutedIsTrue'
    BY <2>1 DEF IInv, AnswersAreTrue, NotExecutedIsFinal, ExecutedIsTrue, transport
  <2>6. LateIsForTheLost'
    BY <1>3, <2>1, <2>2 DEF IInv, TypeOK, AnswersAreTrue, LateIsForTheLost
  <2> QED BY <2>3, <2>4, <2>5, <2>6 DEF IInv, AnswersAreTrue
<1> QED BY <1>1, <1>2, <1>3

LEMMA ReceiveKeeps ==
  ASSUME IInv, NEW m \in wire, Receive(m)
  PROVE  IInv'
<1>1. wire' = wire \ {m} /\ UNCHANGED <<transport, done, replied, noise>> /\ Handled(m)
  BY DEF Receive
<1>2. CASE state = "closed"
  <2>1. UNCHANGED <<connection, requests, tracking>>
    BY <1>1, <1>2 DEF Handled
  <2>2. TypeOK' /\ Lifecycle' /\ Waiting' /\ Tracked' /\ Requested' /\ Answering'
    BY <1>1, <2>1 DEF IInv, TypeOK, Lifecycle, Waiting, Tracked, Requested, Untouched, Answering,
       Truthful, connection, requests, tracking, transport
  <2>3. AnswersAreTrue'
    BY <1>1, <2>1 DEF IInv, AnswersAreTrue, NotExecutedIsFinal, ExecutedIsTrue, LateIsForTheLost,
       requests, transport
  <2> QED BY <2>2, <2>3 DEF IInv
<1>3. CASE state # "closed" /\ (m = Garbage \/ (m.id \in pending /\ m.kind = "mismatch"))
  BY <1>1, <1>3, ViolationKeeps DEF Handled
<1>4. CASE state # "closed" /\ m # Garbage /\ m.id \in pending /\ m.kind # "mismatch"
  BY <1>1, <1>4, AnsweredKeeps DEF Handled
<1>5. CASE state # "closed" /\ m # Garbage /\ m.id \notin pending
  BY <1>1, <1>5, CameLateKeeps DEF Handled
<1> QED BY <1>2, <1>3, <1>4, <1>5

LEMMA InitHolds == Init => IInv
<1> SUFFICES ASSUME Init PROVE IInv
  OBVIOUS
<1>1. TypeOK
  <2>1. call \in [Requests -> Calls \cup {"none"}]
    BY DEF Init, Calls
  <2>2. answer \in [Requests -> Answers] /\ late \in [Requests -> Nat]
    BY DEF Init, Answers, How, Receipt, Unanswered
  <2>3. noise \in 0..MaxNoise
    BY CallsAssumption DEF Init
  <2> QED BY <2>1, <2>2, <2>3 DEF Init, TypeOK
<1>2. Lifecycle /\ Waiting /\ Tracked /\ Answering
  BY DEF Init, Lifecycle, Waiting, Tracked, Answering
<1>3. Requested
  BY CallsAssumption DEF Init, Requested, Untouched, Requests
<1>4. AnswersAreTrue
  BY DEF Init, AnswersAreTrue, NotExecutedIsFinal, ExecutedIsTrue, LateIsForTheLost, Unanswered
<1> QED BY <1>1, <1>2, <1>3, <1>4 DEF IInv

LEMMA NextKeeps == IInv /\ [Next]_vars => IInv'
<1> SUFFICES ASSUME IInv, [Next]_vars PROVE IInv'
  OBVIOUS
<1>1. CASE Next
  BY <1>1, ConnectKeeps, TransportOpensKeeps, TransportFailsToOpenKeeps, OpeningExpiresKeeps,
     ShakeHandsKeeps, ConnectReturnsKeeps, ConnectThrowsKeeps, CloseKeeps, InvokeKeeps,
     CancelPendingKeeps, ForgetKeeps, ReceiveKeeps, WriteCompletesKeeps, WriteFailsKeeps,
     TransportFailsKeeps, TransportClosesKeeps, TransportClosedKeeps, HostTakesKeeps,
     HostRepliesKeeps, HostMisbehavesKeeps DEF Next
<1>2. CASE UNCHANGED vars
  <2>1. TypeOK' /\ Lifecycle' /\ Waiting' /\ Tracked' /\ Requested' /\ Answering'
    BY <1>2 DEF IInv, TypeOK, Lifecycle, Waiting, Tracked, Requested, Untouched, Answering, Truthful,
       vars, connection, requests, tracking, transport, world
  <2>2. AnswersAreTrue'
    BY <1>2 DEF IInv, AnswersAreTrue, NotExecutedIsFinal, ExecutedIsTrue, LateIsForTheLost,
       vars, requests, transport, world
  <2> QED BY <2>1, <2>2 DEF IInv
<1> QED BY <1>1, <1>2

\* A step never makes the name of a session mean another one.
LEMMA NextKeepsNames ==
  ASSUME IInv, [Next]_vars
  PROVE  \A s \in seen : sessions'[s] \in {sessions[s], None}
<1> SUFFICES ASSUME NEW s \in seen PROVE sessions'[s] \in {sessions[s], None}
  OBVIOUS
<1>1. s \in SessionIds
  BY DEF IInv, TypeOK
<1>2. CASE UNCHANGED sessions
  BY <1>2
<1>3. CASE ForgetAll
  BY <1>1, <1>3 DEF ForgetAll
<1>4. ASSUME NEW x \in SessionIds, Forget(x) PROVE sessions'[s] \in {sessions[s], None}
  BY <1>1, <1>4 DEF Forget, IInv, TypeOK
<1>5. ASSUME NEW m \in wire, Receive(m) PROVE sessions'[s] \in {sessions[s], None}
  <2>1. CASE m.id \in pending /\ Answered(m)
    <3>1. UNCHANGED state
      BY <2>1 DEF Answered
    <3>2. ASSUME NEW x \in SessionIds, NEW h \in HandleIds, Decoded(m.id, x, h)
          PROVE  sessions'[s] = sessions[s]
      BY <2>1, <3>1, <3>2, DecodedKeeps
    <3> QED BY <1>2, <2>1, <3>2 DEF Answered, tracking
  <2>2. CASE ProtocolFailure
    BY <1>3, <2>2 DEF ProtocolFailure
  <2>3. CASE UNCHANGED tracking
    BY <1>2, <2>3 DEF tracking
  <2> QED BY <1>5, <2>1, <2>2, <2>3 DEF Receive, Handled, CameLate
<1>6. CASE Close \/ TransportFails
  BY <1>2, <1>3, <1>6 DEF Close, TransportFails, Disconnect, tracking
<1> QED BY <1>2, <1>4, <1>5, <1>6
  DEF Next, vars, tracking, Connect, TransportOpens, TransportFailsToOpen, OpeningExpires, ShakeHands,
      ConnectReturns, ConnectThrows, Invoke, CancelPending, WriteCompletes, WriteFails, WriteFailed,
      TransportCloses, TransportClosed, HostTakes, HostReplies, HostMisbehaves

LEMMA Invariance == Spec => []IInv
<1> QED BY InitHolds, NextKeeps, PTL DEF Spec

\* Every variable of the client, the transport and the host stays in its
\* type.  (the fields of NativeClient)
THEOREM TypeCorrect == Spec => []TypeOK
<1>1. IInv => TypeOK
  BY DEF IInv
<1> QED BY <1>1, Invariance, PTL

\* What a caller is told of a request is true of the host, for good, and a
\* late response is told once, to a caller that did not know.  (receive,
\* cancelPending, writeFailed, disconnect, protocolFailure, close)
THEOREM CallersAreToldTheTruth == Spec => []AnswersAreTrue
<1>1. IInv => AnswersAreTrue
  BY DEF IInv
<1> QED BY <1>1, Invariance, PTL

\* A connection that is over has nothing waiting on it and nothing that can
\* be addressed.  (disconnect, protocolFailure, close, connect's catch)
THEOREM ConnectionLeavesNothing == Spec => []NothingOutlivesConnection
<1>1. IInv => NothingOutlivesConnection
  BY DEF IInv, Lifecycle, Waiting, Tracked, NothingOutlivesConnection
<1> QED BY <1>1, Invariance, PTL

\* The name of a session keeps its root while it is tracked and is never
\* taken again once it is released.  (stageSession, commitTracking)
THEOREM SessionNamesAreStable == Spec => NamesNeverRebind
<1>1. IInv /\ [Next]_vars => [\A s \in seen : sessions'[s] \in {sessions[s], None}]_vars
  BY NextKeepsNames
<1> QED BY <1>1, Invariance, PTL DEF Spec, NamesNeverRebind

\* No caller is misled about a request or about a session.
THEOREM NobodyIsMisled == Spec => CallersAreNotMisled
<1>1. QED BY CallersAreToldTheTruth, SessionNamesAreStable, PTL DEF CallersAreNotMisled
=============================================================================
