------------------------- MODULE FileRunStoreProofs -------------------------
(***************************************************************************)
(* The run store, for any number of callers, runs and requests: its maps   *)
(* are its file, nothing a caller was told can be lost, and the file       *)
(* implements the ledger.                                                  *)
(***************************************************************************)
EXTENDS FileRunStore, TLAPS

\* reqs is the index of runs by request.
Index(runs, reqs) ==
  \A q \in Request, r \in Run :
    reqs[q] = r <=> runs[r] # None /\ runs[r].request = q

Is(runs, r, statuses) == runs[r] # None /\ runs[r].status \in statuses

\* One step of the ledger, from one table of runs to another.
Moves(old, new) ==
  \/ new = old
  \/ \E r \in Run, q \in Request, i \in Intent :
       /\ old[r] = None
       /\ \A s \in Run : old[s] # None => old[s].request # q
       /\ new = [old EXCEPT ![r] = Ledger!Queued(q, i)]
  \/ \E r \in Run : \/ /\ Is(old, r, {"queued"})
                       /\ new = [old EXCEPT ![r].status = "running"]
                    \/ /\ Is(old, r, Open)
                       /\ new = [old EXCEPT ![r].status = "cancelling"]
                    \/ /\ Is(old, r, Open)
                       /\ new = [old EXCEPT ![r] = Ledger!Interrupted(@)]
  \/ \E r \in Run, s \in Terminal, t \in BOOLEAN :
       /\ Is(old, r, Open)
       /\ new = [old EXCEPT ![r].status = s, ![r].tainted = t]
  \/ \E r \in Run, x \in Artifact :
       /\ Is(old, r, Open)
       /\ new = [old EXCEPT ![r].artifacts = @ \cup {x}]
  \/ new = [r \in Run |-> IF Is(old, r, Open) THEN Ledger!Interrupted(old[r]) ELSE old[r]]

\* Between mutations the maps are the file.
Settled == phase \in {"idle", "written"} => byRun = file /\ Index(file, byReq)

\* While a mutation is at work the maps are one ledger step ahead of the file,
\* and the backup is the file.
Pending == phase = "writing" => /\ backup.run = file
                                /\ Index(file, backup.request)
                                /\ Index(byRun, byReq)
                                /\ Moves(file, byRun)

\* The mutation at work is the head of the chain.
Working == phase \in {"writing", "written"} => tail # <<>>

IInv == /\ TypeOK
        /\ Working
        /\ Settled
        /\ Pending
        /\ OneRunPerRequest
        /\ ToldIsDurable
-----------------------------------------------------------------------------
USE NoneAssumption, RecoveryAssumption

\* A table of runs.
Table == [Run -> Record \cup {None}]

\* A new run is reserved under a request nobody has used.
LEMMA ReserveMoves ==
  ASSUME byRun \in Table, Index(byRun, byReq),
         byReq \in [Request -> Run \cup {None}],
         NEW r \in Run, NEW q \in Request, NEW i \in Intent,
         byReq[q] = None, byRun[r] = None,
         NEW runs, runs = [byRun EXCEPT ![r] = Ledger!Queued(q, i)],
         NEW reqs, reqs = [byReq EXCEPT ![q] = r]
  PROVE  runs \in Table /\ Moves(byRun, runs) /\ Index(runs, reqs)
<1>1. Ledger!Queued(q, i) \in Record /\ Ledger!Queued(q, i).request = q
  BY DEF Record, Ledger!Record, Ledger!Queued, Ledger!Open, Ledger!Terminal
<1>2. runs \in Table
  BY <1>1 DEF Table
<1>3. \A s \in Run : byRun[s] # None => byRun[s].request # q
  BY DEF Index
<1>4. Moves(byRun, runs)
  BY <1>3 DEF Moves
<1>5. Index(runs, reqs)
  BY <1>1, <1>3 DEF Index, Table
<1>6. QED
  BY <1>2, <1>4, <1>5

LEMMA OutcomeIsTerminal ==
  \A o \in Outcome : o.status \in Terminal /\ o.tainted \in BOOLEAN
<1> SUFFICES ASSUME NEW o \in Outcome
             PROVE  o.status \in Terminal /\ o.tainted \in BOOLEAN
  OBVIOUS
<1>1. CASE o = [status |-> "completed", tainted |-> FALSE]
  <2>1. o.status = "completed" /\ o.tainted = FALSE
    BY <1>1
  <2>2. QED
    BY <2>1 DEF Terminal, Ledger!Terminal
<1>2. CASE o = [status |-> "failed", tainted |-> TRUE]
  <2>1. o.status = "failed" /\ o.tainted = TRUE
    BY <1>2
  <2>2. QED
    BY <2>1 DEF Terminal, Ledger!Terminal
<1>3. QED
  BY <1>1, <1>2 DEF Outcome

\* A table with the same keys has the same index.
LEMMA SameKeys ==
  ASSUME NEW old, NEW new, NEW reqs, Index(old, reqs),
         \A r \in Run : new[r] # None <=> old[r] # None,
         \A r \in Run : new[r] # None => new[r].request = old[r].request
  PROVE  Index(new, reqs)
<1> SUFFICES ASSUME NEW q \in Request, NEW r \in Run
             PROVE  reqs[q] = r <=> new[r] # None /\ new[r].request = q
  BY DEF Index
<1>1. reqs[q] = r <=> old[r] # None /\ old[r].request = q
  BY DEF Index
<1>2. CASE new[r] = None
  <2>1. old[r] = None
    BY <1>2
  <2>2. QED
    BY <1>1, <1>2, <2>1
<1>3. CASE new[r] # None
  <2>1. old[r] # None /\ new[r].request = old[r].request
    BY <1>3
  <2>2. QED
    BY <1>1, <1>3, <2>1
<1>4. QED
  BY <1>2, <1>3

\* A change of one run keeps the table, its keys and its ledger rules.
LEMMA ChangeMoves ==
  ASSUME byRun \in Table, Index(byRun, byReq),
         NEW op \in Operation,
         op.kind \in {"running", "cancelling", "interrupt", "finish", "attach"},
         ~Rejected(op),
         NEW runs, runs = [byRun EXCEPT ![op.run] = Changed(op, @)]
  PROVE  runs \in Table /\ Moves(byRun, runs) /\ Index(runs, byReq)
<1> DEFINE rec == byRun[op.run]
           new == Changed(op, rec)
<1>1. op.run \in Run /\ rec # None /\ rec \in Record
  BY DEF Operation, Rejected, Table
<1>2. new \in Record /\ new.request = rec.request
  <2> USE <1>1 DEF Record, Ledger!Record, Open, Terminal, Ledger!Open, Ledger!Terminal
  <2>1. CASE op.kind = "running"
    BY <2>1 DEF Changed
  <2>2. CASE op.kind = "cancelling"
    BY <2>2 DEF Changed
  <2>3. CASE op.kind = "interrupt"
    BY <2>3 DEF Changed, Ledger!Interrupted
  <2>4. CASE op.kind = "finish"
    <3>1. op.outcome.status \in Terminal /\ op.outcome.tainted \in BOOLEAN
      BY <2>4, OutcomeIsTerminal DEF Operation
    <3>2. QED
      BY <2>4, <3>1 DEF Changed
  <2>5. CASE op.kind = "attach"
    BY <2>5 DEF Changed, Operation
  <2>6. QED
    BY <2>1, <2>2, <2>3, <2>4, <2>5
<1>3. runs \in Table
  BY <1>1, <1>2 DEF Table
<1>4. Index(runs, byReq)
  BY <1>1, <1>2 DEF Index, Table
<1>5. Moves(byRun, runs)
  <2> USE <1>1 DEF Is, Open, Terminal, Ledger!Open, Ledger!Terminal, Record, Ledger!Record
  <2>1. CASE op.kind = "running"
    BY <2>1 DEF Moves, Changed, Rejected
  <2>2. CASE op.kind = "cancelling"
    <3>1. CASE rec.status \in Open
      BY <2>2, <3>1 DEF Moves, Changed
    <3>2. CASE rec.status \notin Open
      BY <2>2, <3>2 DEF Moves, Changed, Table
    <3>3. QED
      BY <3>1, <3>2
  <2>3. CASE op.kind = "interrupt"
    <3>1. CASE rec.status \in Open
      BY <2>3, <3>1 DEF Moves, Changed
    <3>2. CASE rec.status \notin Open
      BY <2>3, <3>2 DEF Moves, Changed, Table
    <3>3. QED
      BY <3>1, <3>2
  <2>4. CASE op.kind = "finish"
    <3>1. rec.status \in Open /\ op.outcome.status \in Terminal /\ op.outcome.tainted \in BOOLEAN
      BY <2>4, OutcomeIsTerminal DEF Rejected, Operation
    <3>2. runs = [byRun EXCEPT ![op.run].status = op.outcome.status,
                               ![op.run].tainted = op.outcome.tainted]
      BY <2>4 DEF Changed, Table
    <3>3. QED
      BY <3>1, <3>2 DEF Moves
  <2>5. CASE op.kind = "attach"
    <3>1. rec.status \in Open /\ op.artifact \in Artifact
      BY <2>5 DEF Rejected, Operation
    <3>2. runs = [byRun EXCEPT ![op.run].artifacts = @ \cup {op.artifact}]
      BY <2>5 DEF Changed, Table
    <3>3. QED
      BY <3>1, <3>2 DEF Moves
  <2>6. QED
    BY <2>1, <2>2, <2>3, <2>4, <2>5
<1>6. QED
  BY <1>3, <1>4, <1>5

\* The recovery of a restart interrupts what is open and changes no key.
LEMMA RecoveryMoves ==
  ASSUME byRun \in Table, Index(byRun, byReq),
         NEW runs,
         runs = [r \in Run |-> IF byRun[r] # None /\ byRun[r].status \in Open
                                 THEN Ledger!Interrupted(byRun[r]) ELSE byRun[r]]
  PROVE  runs \in Table /\ Moves(byRun, runs) /\ Index(runs, byReq)
<1>1. \A r \in Run : byRun[r] # None =>
        /\ Ledger!Interrupted(byRun[r]) \in Record
        /\ Ledger!Interrupted(byRun[r]).request = byRun[r].request
  BY DEF Table, Record, Ledger!Record, Ledger!Interrupted, Ledger!Terminal
<1>2. runs \in Table
  BY <1>1 DEF Table
<1>3. Index(runs, byReq)
  <2>1. \A r \in Run : runs[r] # None <=> byRun[r] # None
    BY <1>1
  <2>2. \A r \in Run : runs[r] # None => runs[r].request = byRun[r].request
    BY <1>1
  <2>3. QED
    BY <2>1, <2>2, SameKeys
<1>4. Moves(byRun, runs)
  BY DEF Moves, Is
<1>5. QED
  BY <1>2, <1>3, <1>4

\* Whatever operation is let through moves the maps like the ledger.
LEMMA OperationMoves ==
  ASSUME byRun \in Table, Index(byRun, byReq),
         byReq \in [Request -> Run \cup {None}],
         NEW op \in Operation, op.kind \notin Reads, ~Rejected(op)
  PROVE  /\ RunsAfter(op) \in Table
         /\ RequestsAfter(op) \in [Request -> Run \cup {None}]
         /\ Moves(byRun, RunsAfter(op))
         /\ Index(RunsAfter(op), RequestsAfter(op))
<1>1. CASE IsNew(op)
  <2>1. op.run \in Run /\ op.request \in Request /\ op.intent \in Intent
        /\ byReq[op.request] = None /\ byRun[op.run] = None
    BY <1>1 DEF IsNew, Operation, Rejected
  <2>2. RunsAfter(op) = [byRun EXCEPT ![op.run] = Ledger!Queued(op.request, op.intent)]
    BY <1>1 DEF RunsAfter, IsNew
  <2>3. RequestsAfter(op) = [byReq EXCEPT ![op.request] = op.run]
    BY <1>1 DEF RequestsAfter
  <2>4. RequestsAfter(op) \in [Request -> Run \cup {None}]
    BY <2>1, <2>3
  <2>5. QED
    BY <2>1, <2>2, <2>3, <2>4, ReserveMoves
<1>2. CASE ~IsNew(op)
  <2>1. RequestsAfter(op) = byReq
    BY <1>2 DEF RequestsAfter
  <2>2. CASE op.kind = "reserve"
    <3>1. RunsAfter(op) = byRun
      BY <1>2, <2>2 DEF RunsAfter
    <3>2. QED
      BY <2>1, <3>1 DEF Moves
  <2>3. CASE op.kind = "recover"
    <3>1. RunsAfter(op) = [r \in Run |-> IF byRun[r] # None /\ byRun[r].status \in Open
                             THEN Ledger!Interrupted(byRun[r]) ELSE byRun[r]]
      BY <1>2, <2>3 DEF RunsAfter, IsNew
    <3>2. QED
      BY <2>1, <3>1, RecoveryMoves
  <2>4. CASE op.kind \in {"running", "cancelling", "interrupt", "finish", "attach"}
    <3>1. RunsAfter(op) = [byRun EXCEPT ![op.run] = Changed(op, @)]
      BY <1>2, <2>4 DEF RunsAfter
    <3>2. QED
      BY <2>1, <2>4, <3>1, ChangeMoves
  <2>5. QED
    BY <2>2, <2>3, <2>4 DEF Operation, Reads
<1>3. QED
  BY <1>1, <1>2

LEMMA InitEstablishes == Init => IInv
<1> SUFFICES ASSUME Init PROVE IInv
  OBVIOUS
<1> USE DEF Init, NoRuns, NoRequests, NoBackup
<1>1. TypeOK
  <2>1. file \in [Run -> Record \cup {None}] /\ told \in [Run -> Record \cup {None}]
    BY DEF TypeOK
  <2>2. byRun \in [Run -> Record \cup {None}] /\ byReq \in [Request -> Run \cup {None}]
    OBVIOUS
  <2>3. backup \in [run : [Run -> Record \cup {None}], request : [Request -> Run \cup {None}]]
    OBVIOUS
  <2>4. tail \in Seq(Client \cup {Recovery})
    OBVIOUS
  <2>5. call \in [Client \cup {Recovery} -> Operation \cup {None}]
    OBVIOUS
  <2>6. QED
    BY <2>1, <2>2, <2>3, <2>4, <2>5 DEF TypeOK
<1>2. Working /\ Settled /\ Pending
  BY DEF Working, Settled, Pending
<1>3. OneRunPerRequest /\ ToldIsDurable
  BY DEF OneRunPerRequest, ToldIsDurable
<1>4. QED
  BY <1>1, <1>2, <1>3 DEF IInv

LEMMA CallPreserves ==
  ASSUME NEW c \in Client, NEW op \in Operation, IInv, Call(c, op)
  PROVE  IInv'
<1> USE DEF IInv, Call, Ask, maps
<1>1. TypeOK' /\ Working'
  BY DEF TypeOK, Working
<1>2. Settled' /\ Pending' /\ OneRunPerRequest' /\ ToldIsDurable'
  BY DEF Settled, Pending, OneRunPerRequest, ToldIsDurable, Index
<1>3. QED
  BY <1>1, <1>2

LEMMA SettleTypes ==
  ASSUME TypeOK, NEW c \in Caller, tail # <<>>, Settle(c)
  PROVE  /\ tail' \in Seq(Client \cup {Recovery})
         /\ call' \in [Client \cup {Recovery} -> Operation \cup {None}]
BY DEF TypeOK, Settle, Ask, Caller

\* A caller is told records that are in the file.
LEMMA TellIsDurable ==
  ASSUME TypeOK, ToldIsDurable, byRun = file, NEW op, Tell(op)
  PROVE  /\ told' \in [Run -> Record \cup {None}]
         /\ \A r \in Run : told'[r] # None => Continues(told'[r], file[r])
<1>1. \A r \in Run : told'[r] \in {told[r], file[r]}
  BY DEF Tell, TypeOK
<1>2. \A r \in Run : file[r] # None => Continues(file[r], file[r])
  BY DEF Continues
<1>3. told' \in [Run -> Record \cup {None}]
  BY DEF Tell, TypeOK
<1>4. QED
  BY <1>1, <1>2, <1>3 DEF ToldIsDurable

LEMMA ReadPreserves ==
  ASSUME NEW c \in Caller, IInv, Read(c)
  PROVE  IInv'
<1> USE DEF IInv, Read, Turn, maps
<1>1. byRun = file
  BY DEF Settled
<1>2. told' \in [Run -> Record \cup {None}] /\ ToldIsDurable'
  BY <1>1, TellIsDurable DEF ToldIsDurable
<1>3. TypeOK'
  BY <1>2, SettleTypes DEF TypeOK
<1>4. Working' /\ Settled' /\ Pending' /\ OneRunPerRequest'
  BY DEF Working, Settled, Pending, OneRunPerRequest, Index
<1>5. QED
  BY <1>2, <1>3, <1>4

LEMMA RejectPreserves ==
  ASSUME NEW c \in Caller, IInv, Reject(c)
  PROVE  IInv'
<1> USE DEF IInv, Reject, Turn, maps
<1>1. TypeOK'
  BY SettleTypes DEF TypeOK
<1>2. Working' /\ Settled' /\ Pending' /\ OneRunPerRequest' /\ ToldIsDurable'
  BY DEF Working, Settled, Pending, OneRunPerRequest, ToldIsDurable, Index
<1>3. QED
  BY <1>1, <1>2

LEMMA MutatePreserves ==
  ASSUME NEW c \in Caller, IInv, Mutate(c)
  PROVE  IInv'
<1> DEFINE op == call[c]
<1>1. op \in Operation /\ op.kind \notin Reads /\ ~Rejected(op)
  BY DEF Mutate, Turn, IInv, TypeOK, Caller
<1>2. /\ byRun = file /\ Index(file, byReq)
      /\ byRun \in Table /\ byReq \in [Request -> Run \cup {None}]
  BY DEF IInv, TypeOK, Settled, Mutate, Turn, Table
<1>3. /\ byRun' \in Table /\ byReq' \in [Request -> Run \cup {None}]
      /\ Moves(byRun, byRun') /\ Index(byRun', byReq')
  BY <1>1, <1>2, OperationMoves DEF Mutate
<1>4. TypeOK'
  BY <1>2, <1>3 DEF IInv, TypeOK, Mutate, Table
<1>5. Settled'
  <2>1. CASE phase' = "written"
    <3>1. byRun' = byRun /\ op.kind = "recover"
      BY <2>1 DEF Mutate
    <3>2. byRun' = file'
      BY <1>2, <3>1 DEF Mutate
    <3>3. QED
      BY <1>3, <3>2 DEF Settled
  <2>2. CASE phase' # "written"
    BY <2>2 DEF Settled, Mutate
  <2>3. QED
    BY <2>1, <2>2
<1>6. Pending'
  BY <1>2, <1>3 DEF Pending, Mutate
<1>7. Working' /\ OneRunPerRequest' /\ ToldIsDurable'
  BY DEF IInv, Working, OneRunPerRequest, ToldIsDurable, Mutate, Turn
<1>8. QED
  BY <1>4, <1>5, <1>6, <1>7 DEF IInv

\* A move of the ledger only continues the records it finds.
LEMMA MovesContinue ==
  ASSUME NEW old \in Table, NEW new \in Table, Moves(old, new),
         NEW r \in Run, old[r] # None, NEW rec, Continues(rec, old[r]), rec \in Record
  PROVE  Continues(rec, new[r])
<1> USE DEF Table, Continues, Is, Record, Ledger!Record, Open, Terminal, Ledger!Open,
            Ledger!Terminal
<1>1. CASE new = old
  BY <1>1
<1>2. CASE \E s \in Run, q \in Request, i \in Intent :
             old[s] = None /\ new = [old EXCEPT ![s] = Ledger!Queued(q, i)]
  BY <1>2
<1>3. CASE \E s \in Run : /\ Is(old, s, {"queued"})
                          /\ new = [old EXCEPT ![s].status = "running"]
  BY <1>3
<1>4. CASE \E s \in Run : /\ Is(old, s, Open)
                          /\ new = [old EXCEPT ![s].status = "cancelling"]
  BY <1>4
<1>5. CASE \E s \in Run : /\ Is(old, s, Open)
                          /\ new = [old EXCEPT ![s] = Ledger!Interrupted(@)]
  <2>1. PICK s \in Run : /\ Is(old, s, Open)
                         /\ new = [old EXCEPT ![s] = Ledger!Interrupted(@)]
    BY <1>5
  <2>2. CASE s = r
    <3>1. new[r] = Ledger!Interrupted(old[r]) /\ old[r] \in Record
      BY <2>1, <2>2
    <3>2. new[r] # None /\ new[r] = [old[r] EXCEPT !.status = "interrupted", !.tainted = TRUE]
      BY <2>1, <3>1 DEF Ledger!Interrupted
    <3>3. old[r].status \in Open
      BY <2>1, <2>2
    <3>4. QED
      BY <3>1, <3>2, <3>3
  <2>3. CASE s # r
    BY <2>1, <2>3
  <2>4. QED
    BY <2>2, <2>3
<1>6. CASE \E s \in Run, t \in Terminal, b \in BOOLEAN :
             /\ Is(old, s, Open)
             /\ new = [old EXCEPT ![s].status = t, ![s].tainted = b]
  BY <1>6
<1>7. CASE \E s \in Run, x \in Artifact :
             /\ Is(old, s, Open)
             /\ new = [old EXCEPT ![s].artifacts = @ \cup {x}]
  BY <1>7
<1>8. CASE new = [s \in Run |-> IF Is(old, s, Open) THEN Ledger!Interrupted(old[s])
                                                    ELSE old[s]]
  BY <1>8 DEF Ledger!Interrupted
<1>9. QED
  BY <1>1, <1>2, <1>3, <1>4, <1>5, <1>6, <1>7, <1>8 DEF Moves

LEMMA WritePreserves == IInv /\ Write => IInv'
<1> SUFFICES ASSUME IInv, Write PROVE IInv'
  OBVIOUS
<1>1. /\ Moves(file, byRun) /\ Index(byRun, byReq)
      /\ file \in Table /\ byRun \in Table
  BY DEF IInv, Write, Pending, TypeOK, Table
<1>2. TypeOK' /\ Working' /\ Settled' /\ Pending'
  BY <1>1 DEF IInv, Write, TypeOK, Working, Settled, Pending, maps, Index
<1>3. OneRunPerRequest'
  <2>1. \A r \in Run : byRun[r] # None => byReq[byRun[r].request] = r
    BY <1>1 DEF Index, Table, Record, Ledger!Record
  <2>2. QED
    BY <2>1 DEF Write, OneRunPerRequest
<1>4. ToldIsDurable'
  <2> SUFFICES ASSUME NEW r \in Run, told[r] # None PROVE Continues(told[r], byRun[r])
    BY DEF Write, ToldIsDurable
  <2>1. Continues(told[r], file[r]) /\ file[r] # None /\ told[r] \in Record
    BY DEF IInv, ToldIsDurable, Continues, TypeOK
  <2>2. QED
    BY <1>1, <2>1, MovesContinue
<1>5. QED
  BY <1>2, <1>3, <1>4 DEF IInv

LEMMA FailPreserves ==
  ASSUME NEW c \in Caller, IInv, Fail(c)
  PROVE  IInv'
<1> USE DEF IInv, Fail
<1>1. TypeOK'
  BY SettleTypes DEF TypeOK, Working, NoBackup, NoRuns, NoRequests
<1>2. Working' /\ Settled' /\ Pending' /\ OneRunPerRequest' /\ ToldIsDurable'
  BY DEF Working, Settled, Pending, OneRunPerRequest, ToldIsDurable
<1>3. QED
  BY <1>1, <1>2

LEMMA ReturnPreserves ==
  ASSUME NEW c \in Caller, IInv, Return(c)
  PROVE  IInv'
<1> USE DEF IInv, Return, maps
<1>1. byRun = file
  BY DEF Settled
<1>2. told' \in [Run -> Record \cup {None}] /\ ToldIsDurable'
  BY <1>1, TellIsDurable DEF ToldIsDurable
<1>3. TypeOK'
  BY <1>2, SettleTypes DEF TypeOK, Working, NoBackup, NoRuns, NoRequests
<1>4. Working' /\ Settled' /\ Pending' /\ OneRunPerRequest'
  BY DEF Working, Settled, Pending, OneRunPerRequest, Index
<1>5. QED
  BY <1>2, <1>3, <1>4

LEMMA BootPreserves == IInv /\ Boot => IInv'
<1> SUFFICES ASSUME IInv, Boot PROVE IInv'
  OBVIOUS
<1> USE DEF IInv, Boot
<1>1. byReq' \in [Request -> Run \cup {None}]
  OBVIOUS
<1>2. Index(file, byReq')
  <2> SUFFICES ASSUME NEW q \in Request, NEW r \in Run
               PROVE  byReq'[q] = r <=> file[r] # None /\ file[r].request = q
    BY DEF Index
  <2> DEFINE Has(s) == file[s] # None /\ file[s].request = q
  <2>1. byReq'[q] = IF \E s \in Run : Has(s) THEN CHOOSE s \in Run : Has(s) ELSE None
    OBVIOUS
  <2>2. \A s, t \in Run : Has(s) /\ Has(t) => s = t
    BY DEF OneRunPerRequest
  <2> HIDE DEF Has
  <2>3. byReq'[q] = r <=> Has(r)
    BY <2>1, <2>2
  <2>4. QED
    BY <2>3 DEF Has
<1>3. TypeOK'
  BY <1>1 DEF TypeOK, Ask, Operation
<1>4. Settled' /\ Working' /\ Pending' /\ OneRunPerRequest' /\ ToldIsDurable'
  BY <1>2 DEF Settled, Working, Pending, OneRunPerRequest, ToldIsDurable, Index
<1>5. QED
  BY <1>3, <1>4

LEMMA CrashPreserves == IInv /\ Crash => IInv'
<1> SUFFICES ASSUME IInv, Crash PROVE IInv'
  OBVIOUS
<1> USE DEF IInv, Crash, NoRuns, NoRequests, NoBackup
<1>1. TypeOK'
  <2>1. file' \in [Run -> Record \cup {None}] /\ told' \in [Run -> Record \cup {None}]
    BY DEF TypeOK
  <2>2. byRun' \in [Run -> Record \cup {None}] /\ byReq' \in [Request -> Run \cup {None}]
    OBVIOUS
  <2>3. backup' \in [run : [Run -> Record \cup {None}], request : [Request -> Run \cup {None}]]
    OBVIOUS
  <2>4. tail' \in Seq(Client \cup {Recovery})
    OBVIOUS
  <2>5. call' \in [Client \cup {Recovery} -> Operation \cup {None}]
    OBVIOUS
  <2>6. QED
    BY <2>1, <2>2, <2>3, <2>4, <2>5 DEF TypeOK
<1>2. Working' /\ Settled' /\ Pending'
  BY DEF Working, Settled, Pending
<1>3. OneRunPerRequest' /\ ToldIsDurable'
  BY DEF OneRunPerRequest, ToldIsDurable
<1>4. QED
  BY <1>1, <1>2, <1>3

LEMMA StutterPreserves == IInv /\ UNCHANGED vars => IInv'
BY DEF IInv, vars, TypeOK, Working, Settled, Pending, OneRunPerRequest, ToldIsDurable,
       Index

LEMMA NextPreserves == IInv /\ [Next]_vars => IInv'
<1> SUFFICES ASSUME IInv, [Next]_vars PROVE IInv'
  OBVIOUS
<1>1. ASSUME NEW c \in Caller, Read(c) \/ Reject(c) \/ Mutate(c) \/ Return(c) \/ Fail(c)
      PROVE  IInv'
  BY <1>1, ReadPreserves, RejectPreserves, MutatePreserves, ReturnPreserves, FailPreserves
<1>2. ASSUME NEW c \in Client, NEW op \in Operation, Call(c, op) PROVE IInv'
  BY <1>2, CallPreserves
<1>3. CASE Write \/ Boot \/ Crash
  BY <1>3, WritePreserves, BootPreserves, CrashPreserves
<1>4. QED
  BY <1>1, <1>2, <1>3, StutterPreserves DEF Next, Work

\* The strengthened invariant holds in every reachable state.
THEOREM Invariance == Spec => []IInv
<1>1. Init => IInv
  BY InitEstablishes
<1>2. IInv /\ [Next]_vars => IInv'
  BY NextPreserves
<1>3. QED
  BY <1>1, <1>2, PTL DEF Spec

\* Every variable of the store keeps its type.
THEOREM TypeCorrect == Spec => []TypeOK
<1>1. IInv => TypeOK
  BY DEF IInv
<1>2. QED
  BY <1>1, Invariance, PTL

\* A restored or written map is the file: no operation sees a half-done one.
THEOREM MapsAreTheFile == Spec => []MapsMatchFile
<1>1. IInv => MapsMatchFile
  BY DEF IInv, Settled, Index, MapsMatchFile
<1>2. QED
  BY <1>1, Invariance, PTL

\* A retry of a request id finds the run of the first call, across crashes.
THEOREM RequestsAreUnique == Spec => []OneRunPerRequest
<1>1. IInv => OneRunPerRequest
  BY DEF IInv
<1>2. QED
  BY <1>1, Invariance, PTL

\* Whatever a caller was told is still true after any crash or failed write.
THEOREM AnswersAreDurable == Spec => []ToldIsDurable
<1>1. IInv => ToldIsDurable
  BY DEF IInv
<1>2. QED
  BY <1>1, Invariance, PTL

\* Only the rename changes the file, and it is a step of the ledger.
LEMMA StepImplements ==
  ASSUME IInv, [Next]_vars
  PROVE  [Ledger!Next]_file
<1>1. CASE Write
  <2>1. Moves(file, file')
    BY <1>1 DEF IInv, Pending, Write
  <2>2. QED
    <3> USE DEF Is, Open, Terminal, Ledger!Known, Ledger!OpenRuns, Ledger!Next
    <3>1. CASE file' = file
      BY <3>1
    <3>2. CASE \E r \in Run, q \in Request, i \in Intent :
                 /\ file[r] = None
                 /\ \A s \in Run : file[s] # None => file[s].request # q
                 /\ file' = [file EXCEPT ![r] = Ledger!Queued(q, i)]
      <4>1. PICK r \in Run, q \in Request, i \in Intent :
                 /\ file[r] = None
                 /\ \A s \in Run : file[s] # None => file[s].request # q
                 /\ file' = [file EXCEPT ![r] = Ledger!Queued(q, i)]
        BY <3>2
      <4>2. Ledger!Reserve(r, q, i)
        BY <4>1 DEF Ledger!Reserve
      <4>3. QED
        BY <4>2
    <3>3. CASE \E r \in Run : \/ /\ Is(file, r, {"queued"})
                                /\ file' = [file EXCEPT ![r].status = "running"]
                             \/ /\ Is(file, r, Open)
                                /\ file' = [file EXCEPT ![r].status = "cancelling"]
                             \/ /\ Is(file, r, Open)
                                /\ file' = [file EXCEPT ![r] = Ledger!Interrupted(@)]
      BY <3>3 DEF Ledger!MarkRunning, Ledger!MarkCancelling, Ledger!Interrupt
    <3>4. CASE \E r \in Run, s \in Terminal, t \in BOOLEAN :
                 /\ Is(file, r, Open)
                 /\ file' = [file EXCEPT ![r].status = s, ![r].tainted = t]
      BY <3>4 DEF Ledger!Finish
    <3>5. CASE \E r \in Run, x \in Artifact :
                 /\ Is(file, r, Open)
                 /\ file' = [file EXCEPT ![r].artifacts = @ \cup {x}]
      BY <3>5 DEF Ledger!Attach
    <3>6. CASE file' = [r \in Run |-> IF Is(file, r, Open)
                                        THEN Ledger!Interrupted(file[r]) ELSE file[r]]
      BY <3>6 DEF Ledger!RecoverInterrupted
    <3>7. QED
      BY <2>1, <3>1, <3>2, <3>3, <3>4, <3>5, <3>6 DEF Moves
<1>2. CASE ~Write
  <2>1. UNCHANGED file
    BY <1>2 DEF Next, Work, vars, Read, Reject, Mutate, Return, Fail, Call, Boot, Crash
  <2>2. QED
    BY <2>1
<1>3. QED
  BY <1>1, <1>2

\* The store implements the ledger that the run service is built on.
THEOREM Refinement == Spec => ImplementsRunLedger
<1>1. Init => Ledger!Init
  BY DEF Init, Ledger!Init, NoRuns
<1>2. IInv /\ [Next]_vars => [Ledger!Next]_file
  BY StepImplements
<1>3. QED
  BY <1>1, <1>2, Invariance, PTL DEF Spec, ImplementsRunLedger, Ledger!Spec

\* Answers are in the file, and the maps they are given from are the file.
THEOREM AnswersStand == Spec => []AnswersHold
<1>1. ToldIsDurable /\ MapsMatchFile => AnswersHold
  BY DEF AnswersHold
<1>2. QED
  BY <1>1, AnswersAreDurable, MapsAreTheFile, PTL
=============================================================================
