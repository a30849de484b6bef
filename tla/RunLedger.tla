------------------------------ MODULE RunLedger ------------------------------
(***************************************************************************)
(* What a RunStore promises packages/service: a ledger of runs that        *)
(* survives crashes, in which a request names at most one run for ever and *)
(* a terminal record never changes again.                                  *)
(***************************************************************************)
CONSTANTS Run,       \* run ids
          Request,   \* caller-chosen request ids
          Intent,    \* what a request asks for (the fingerprint of the rest)
          Artifact,  \* artifacts of runs
          None

VARIABLE ledger      \* ledger[r]: the durable record of run r, None before

\* A failed run stands for a cancelled one too; a queued one for one that prepares.
Terminal == {"completed", "failed", "interrupted"}
Open == {"queued", "running", "cancelling"}

Record == [request : Request, intent : Intent, status : Open \cup Terminal,
           tainted : BOOLEAN, artifacts : SUBSET Artifact]

Known == {r \in Run : ledger[r] # None}
OpenRuns == {r \in Known : ledger[r].status \in Open}

Init == ledger = [r \in Run |-> None]

\* The record a new run starts with.
Queued(q, i) == [request |-> q, intent |-> i, status |-> "queued",
                 tainted |-> FALSE, artifacts |-> {}]

Interrupted(rec) == [rec EXCEPT !.status = "interrupted", !.tainted = TRUE]

Reserve(r, q, i) == /\ r \notin Known
                    /\ \A s \in Known : ledger[s].request # q
                    /\ ledger' = [ledger EXCEPT ![r] = Queued(q, i)]

MarkRunning(r) == /\ r \in Known
                  /\ ledger[r].status = "queued"
                  /\ ledger' = [ledger EXCEPT ![r].status = "running"]

MarkCancelling(r) == /\ r \in OpenRuns
                     /\ ledger' = [ledger EXCEPT ![r].status = "cancelling"]

Finish(r, status, tainted) ==
  /\ r \in OpenRuns
  /\ ledger' = [ledger EXCEPT ![r].status = status, ![r].tainted = tainted]

Interrupt(r) == /\ r \in OpenRuns
                /\ ledger' = [ledger EXCEPT ![r] = Interrupted(@)]

Attach(r, x) == /\ r \in OpenRuns
                /\ ledger' = [ledger EXCEPT ![r].artifacts = @ \cup {x}]

\* A restart closes every run that was open.
RecoverInterrupted ==
  ledger' = [r \in Run |-> IF r \in OpenRuns THEN Interrupted(ledger[r]) ELSE ledger[r]]

Next == \/ \E r \in Run :
             \/ \E q \in Request, i \in Intent : Reserve(r, q, i)
             \/ MarkRunning(r) \/ MarkCancelling(r) \/ Interrupt(r)
             \/ \E s \in Terminal, t \in BOOLEAN : Finish(r, s, t)
             \/ \E x \in Artifact : Attach(r, x)
        \/ RecoverInterrupted

Spec == Init /\ [][Next]_ledger
=============================================================================
