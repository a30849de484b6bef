---------------------------- MODULE FileRunStore ----------------------------
(***************************************************************************)
(* packages/service/src/stores/file-run-store.ts: runs.json, its in-memory *)
(* maps, and the promise chain (#tail) that serialises mutations and holds *)
(* back reads.  A mutation changes the maps first, then replaces the file  *)
(* (temporary file and rename); when that fails it restores the maps.      *)
(*                                                                         *)
(* The file is the ledger of RunLedger: a client is told only what a crash *)
(* cannot take back.                                                       *)
(***************************************************************************)
EXTENDS Integers, Sequences

CONSTANTS Run, Request, Intent, Artifact, None,
          Client,    \* concurrent callers of the store
          Recovery   \* the caller of recoverInterrupted (PersistentRunService.create)

VARIABLES
  file,    \* file[r]: the record of r in runs.json
  byRun,   \* #byRun
  byReq,   \* #byRequest
  backup,  \* previousByRun and previousByRequest of the mutation at work
  phase,   \* down, idle, writing (maps changed), written (file replaced)
  tail,    \* the callers on the promise chain, the next one first
  call,    \* call[c]: the operation c waits for, None between calls
  ready,   \* create has returned: clients may call
  told     \* told[r]: the last record of r a caller was given (history)

vars == <<file, byRun, byReq, backup, phase, tail, call, ready, told>>
maps == <<byRun, byReq>>

Ledger == INSTANCE RunLedger WITH ledger <- file
Record == Ledger!Record
Terminal == Ledger!Terminal
Open == Ledger!Open

ASSUME NoneAssumption == None \notin Run /\ None \notin Record
ASSUME RecoveryAssumption == Recovery \notin Client

Outcome == {[status |-> "completed", tainted |-> FALSE],
            [status |-> "failed", tainted |-> TRUE]}

Operation ==
  [kind : {"reserve"}, run : Run, request : Request, intent : Intent]
    \cup [kind : {"get", "running", "cancelling", "interrupt"}, run : Run]
    \cup [kind : {"getByRequest"}, request : Request]
    \cup [kind : {"finish"}, run : Run, outcome : Outcome]
    \cup [kind : {"attach"}, run : Run, artifact : Artifact]
    \cup [kind : {"recover"}]

TypeOK == /\ file \in [Run -> Record \cup {None}]
          /\ byRun \in [Run -> Record \cup {None}]
          /\ byReq \in [Request -> Run \cup {None}]
          /\ backup \in [run : [Run -> Record \cup {None}],
                         request : [Request -> Run \cup {None}]]
          /\ phase \in {"down", "idle", "writing", "written"}
          /\ tail \in Seq(Client \cup {Recovery})
          /\ call \in [Client \cup {Recovery} -> Operation \cup {None}]
          /\ ready \in BOOLEAN
          /\ told \in [Run -> Record \cup {None}]

NoRuns == [r \in Run |-> None]
NoRequests == [q \in Request |-> None]
NoBackup == [run |-> NoRuns, request |-> NoRequests]

Init == /\ file = NoRuns
        /\ byRun = NoRuns /\ byReq = NoRequests /\ backup = NoBackup
        /\ phase = "down"
        /\ tail = <<>>
        /\ call = [c \in Client \cup {Recovery} |-> None]
        /\ ready = FALSE
        /\ told = NoRuns
-----------------------------------------------------------------------------
(* What one operation does to the maps                                     *)

\* Mutant: finish and attach accept a terminal run.
Rejected_NeverTerminal(op) ==
  \/ /\ op.kind = "reserve"
     /\ IF byReq[op.request] # None
          THEN byRun[byReq[op.request]].intent # op.intent
          ELSE byRun[op.run] # None
  \/ /\ op.kind \in {"running", "cancelling", "interrupt", "finish", "attach"}
     /\ IF byRun[op.run] = None THEN TRUE
        ELSE op.kind = "running" /\ byRun[op.run].status # "queued"

\* The operation throws before it changes anything.
Rejected(op) ==
  \/ /\ op.kind = "reserve"
     /\ IF byReq[op.request] # None
          THEN byRun[byReq[op.request]].intent # op.intent
          ELSE byRun[op.run] # None
  \/ /\ op.kind \in {"running", "cancelling", "interrupt", "finish", "attach"}
     /\ IF byRun[op.run] = None THEN TRUE
        ELSE \/ op.kind = "running" /\ byRun[op.run].status # "queued"
             \/ op.kind \in {"finish", "attach"} /\ byRun[op.run].status \in Terminal

\* The record a change of one run leaves, given the record it finds.
Changed(op, rec) ==
  CASE op.kind = "running" -> [rec EXCEPT !.status = "running"]
    [] op.kind = "cancelling" /\ rec.status \in Open -> [rec EXCEPT !.status = "cancelling"]
    [] op.kind = "finish" -> [rec EXCEPT !.status = op.outcome.status,
                                         !.tainted = op.outcome.tainted]
    [] op.kind = "interrupt" /\ rec.status \in Open -> Ledger!Interrupted(rec)
    [] op.kind = "attach" -> [rec EXCEPT !.artifacts = @ \cup {op.artifact}]
    [] OTHER -> rec

IsNew(op) == op.kind = "reserve" /\ byReq[op.request] = None

RunsAfter(op) ==
  CASE op.kind = "recover" ->
         [r \in Run |-> IF byRun[r] # None /\ byRun[r].status \in Open
                          THEN Ledger!Interrupted(byRun[r]) ELSE byRun[r]]
    [] IsNew(op) -> [byRun EXCEPT ![op.run] = Ledger!Queued(op.request, op.intent)]
    [] op.kind = "reserve" /\ ~IsNew(op) -> byRun
    [] OTHER -> [byRun EXCEPT ![op.run] = Changed(op, @)]

RequestsAfter(op) == IF IsNew(op) THEN [byReq EXCEPT ![op.request] = op.run] ELSE byReq

\* The run whose record a finished operation returns.
Subject(op) == IF op.kind \in {"reserve", "getByRequest"} THEN byReq[op.request] ELSE op.run
Tell(op) == told' = IF op.kind = "recover" THEN told
                    ELSE IF Subject(op) = None THEN told
                    ELSE [told EXCEPT ![Subject(op)] = byRun[Subject(op)]]
-----------------------------------------------------------------------------
(* Calls                                                                   *)

Ask(c, op) == call' = [call EXCEPT ![c] = op]

\* A caller's operation joins the chain.
Call(c, op) == /\ ready
               /\ call[c] = None
               /\ op.kind # "recover"
               /\ Ask(c, op)
               /\ tail' = Append(tail, c)
               /\ UNCHANGED <<file, maps, backup, phase, ready, told>>

Turn(c) == phase = "idle" /\ tail # <<>> /\ Head(tail) = c /\ call[c] # None
Reads == {"get", "getByRequest"}

\* The caller's promise settles and the chain goes on.
Settle(c) == Ask(c, None) /\ tail' = Tail(tail)

\* Mutant: a read does not wait for the chain.
Read_Dirty(c) == /\ phase # "down"
                 /\ call[c] # None
                 /\ call[c].kind \in Reads
                 /\ Tell(call[c])
                 /\ Ask(c, None)
                 /\ tail' = SelectSeq(tail, LAMBDA d : d # c)
                 /\ UNCHANGED <<file, maps, backup, phase, ready>>

\* get and getByRequest look at the maps when everything called before is over.
Read(c) == /\ Turn(c)
           /\ call[c].kind \in Reads
           /\ Tell(call[c])
           /\ Settle(c)
           /\ UNCHANGED <<file, maps, backup, phase, ready>>

Reject(c) == /\ Turn(c)
             /\ call[c].kind \notin Reads
             /\ Rejected(call[c])
             /\ Settle(c)
             /\ UNCHANGED <<file, maps, backup, phase, ready, told>>

\* The operation changes the maps; only a recovery of nothing skips the file.
Mutate(c) ==
  /\ Turn(c)
  /\ call[c].kind \notin Reads
  /\ ~Rejected(call[c])
  /\ backup' = [run |-> byRun, request |-> byReq]
  /\ byRun' = RunsAfter(call[c])
  /\ byReq' = RequestsAfter(call[c])
  /\ phase' = IF call[c].kind = "recover" /\ byRun' = byRun THEN "written" ELSE "writing"
  /\ UNCHANGED <<file, tail, call, ready, told>>

\* The rename: the new file is there, whole.
Write == /\ phase = "writing"
         /\ file' = byRun
         /\ phase' = "written"
         /\ UNCHANGED <<maps, backup, tail, call, ready, told>>

\* Mutant: only the runs are restored.
Fail_KeepsIndex(c) == /\ phase = "writing"
                      /\ c = Head(tail)
                      /\ byRun' = backup.run
                      /\ backup' = NoBackup
                      /\ phase' = IF c = Recovery THEN "down" ELSE "idle"
                      /\ Settle(c)
                      /\ UNCHANGED <<file, byReq, ready, told>>

\* Mutant: the chain ends with the first rejected link.
Fail_BreaksChain(c) == /\ phase = "writing"
                       /\ c = Head(tail)
                       /\ byRun' = backup.run
                       /\ byReq' = backup.request
                       /\ backup' = NoBackup
                       /\ phase' = IF c = Recovery THEN "down" ELSE "idle"
                       /\ Ask(c, None)
                       /\ tail' = <<>>
                       /\ UNCHANGED <<file, ready, told>>

\* The temporary file cannot be written or renamed (or is over its budget).
Fail(c) == /\ phase = "writing"
           /\ c = Head(tail)
           /\ byRun' = backup.run
           /\ byReq' = backup.request
           /\ backup' = NoBackup
           /\ phase' = IF c = Recovery THEN "down" ELSE "idle"
           /\ Settle(c)
           /\ UNCHANGED <<file, ready, told>>

Return(c) == /\ phase = "written"
             /\ c = Head(tail)
             /\ Tell(call[c])
             /\ ready' = (ready \/ c = Recovery)
             /\ backup' = NoBackup
             /\ phase' = "idle"
             /\ Settle(c)
             /\ UNCHANGED <<file, maps>>

\* open loads the file; create recovers what the last process left open.
Boot == /\ phase = "down"
        /\ byRun' = file
        /\ byReq' = [q \in Request |->
                       IF \E r \in Run : file[r] # None /\ file[r].request = q
                         THEN CHOOSE r \in Run : file[r] # None /\ file[r].request = q
                         ELSE None]
        /\ phase' = "idle"
        /\ tail' = <<Recovery>>
        /\ Ask(Recovery, [kind |-> "recover"])
        /\ UNCHANGED <<file, backup, ready, told>>

Crash == /\ phase # "down"
         /\ byRun' = NoRuns /\ byReq' = NoRequests /\ backup' = NoBackup
         /\ phase' = "down"
         /\ tail' = <<>>
         /\ call' = [c \in Client \cup {Recovery} |-> None]
         /\ ready' = FALSE
         /\ UNCHANGED <<file, told>>

Caller == Client \cup {Recovery}
Work == \/ Write
        \/ \E c \in Caller : Read(c) \/ Reject(c) \/ Mutate(c) \/ Return(c)

Next == \/ Work
        \/ \E c \in Client, op \in Operation : Call(c, op)
        \/ \E c \in Caller : Fail(c)
        \/ Boot \/ Crash

Spec == Init /\ [][Next]_vars

\* The chain moves on; a file operation ends one way or the other.
FairSpec == Spec /\ WF_vars(Work \/ \E c \in Caller : Fail(c))
-----------------------------------------------------------------------------
(* Properties                                                              *)

\* A record a caller was given is still there after any crash, and later
\* records of that run only continue it.
Continues(old, new) ==
  /\ new # None
  /\ new.request = old.request /\ new.intent = old.intent
  /\ old.artifacts \subseteq new.artifacts
  /\ old.status \in Terminal => new = old
  /\ new.status = "queued" => old.status = "queued"
  /\ old.status = "cancelling" => new.status # "running"
ToldIsDurable == \A r \in Run : told[r] # None => Continues(told[r], file[r])

\* Between two mutations, whatever failed before, the maps are the file.
MapsMatchFile ==
  phase = "idle" =>
    /\ byRun = file
    /\ \A q \in Request, r \in Run :
         byReq[q] = r <=> file[r] # None /\ file[r].request = q

\* What a caller was told is in the file or is continued by it, and between two mutations
\* the maps, from which the reads answer, are the file (FileRunStore #mutate).
AnswersHold == ToldIsDurable /\ MapsMatchFile

\* A request id names one run for ever: a retry never starts a second one.
OneRunPerRequest ==
  \A r, s \in Run : file[r] # None /\ file[s] # None /\ file[r].request = file[s].request
                      => r = s

\* The file implements the ledger.
ImplementsRunLedger == Ledger!Spec

\* A failed or rejected operation does not hold up the calls behind it.
CallsReturn == \A c \in Client : call[c] # None ~> call[c] = None
=============================================================================
