--------------------- MODULE PersistentRunServiceProofs ---------------------
(***************************************************************************)
(* The run service, for any number of callers, requests, runs and          *)
(* workspaces: a workspace is worked in once, a request is executed once,  *)
(* nothing is removed under a process, and an untainted record means that  *)
(* nothing is left.                                                        *)
(***************************************************************************)
EXTENDS PersistentRunService, TLAPS

\* Nobody can lease s any more.
Spent(s) == \/ s \notin known
            \/ s \in quarantined \cup removing
            \/ tree[s] = "removed"

\* A dispatch works for a known run.
Working == \A r \in Run : Active(r) => r \in Ledger!Known

\* The lease of a workspace belongs to a run of that workspace that has not
\* been examined, and shows that the workspace is not spent.
Leases ==
  /\ \A r \in Run : dispatch[r] \in {"mark", "execute", "examine"} => lease[SnapshotOf(r)] = r
  /\ \A s \in Snapshot : lease[s] # None =>
       /\ lease[s] \in Ledger!Known
       /\ SnapshotOf(lease[s]) = s
       /\ dispatch[lease[s]] \notin {"release", "finish"}
       /\ ~Spent(s)
       /\ tree[s] = "present"

\* A workspace somebody has worked in is leased by him still, or spent.
Launches ==
  \A r \in launched : /\ r \in Ledger!Known
                      /\ tree[SnapshotOf(r)] # "unprepared"
                      /\ lease[SnapshotOf(r)] = r \/ Spent(SnapshotOf(r))

\* A run is closed under its dispatch only with taint.
ClosedTainted == \A r \in Run : Active(r) /\ ~IsOpen(r) => ledger[r].tainted

\* What a dispatch is about to report is so.
Evidence ==
  \A r \in Run :
    /\ dispatch[r] \in {"examine", "release", "finish"} => result[r] \in Result
    /\ dispatch[r] \in {"examine", "release", "finish"} /\ result[r].safe => r \notin live
    /\ dispatch[r] = "finish" /\ result[r].safe => tree[SnapshotOf(r)] = "removed"

\* A request has one run.
OneRunPerRequest ==
  \A r, t \in Ledger!Known : ledger[r].request = ledger[t].request => r = t

IInv == /\ TypeOK
        /\ Working
        /\ Leases
        /\ Launches
        /\ live \subseteq launched
        /\ ClosedTainted
        /\ Evidence
        /\ OneRunPerRequest
        /\ FreshWorkspace
        /\ NoRemovalUnderProcess
        /\ UntaintedIsClean
-----------------------------------------------------------------------------
(* What the operations of the ledger do to the service's runs.             *)

USE NoneAssumption

\* The runs of R are closed, with or without taint; nothing else is opened,
\* closed or renamed.
Closes(R, taint) ==
  /\ ledger' \in [Run -> Ledger!Record \cup {None}]
  /\ Ledger!Known' = Ledger!Known
  /\ Ledger!OpenRuns' = Ledger!OpenRuns \ R
  /\ \A r \in Ledger!Known : /\ ledger'[r].request = ledger[r].request
                             /\ ledger'[r].intent = ledger[r].intent
                             /\ r \notin Ledger!OpenRuns => ledger'[r].tainted = ledger[r].tainted
                             /\ r \in Ledger!OpenRuns /\ r \in R => ledger'[r].tainted = taint

LEMMA KeepsCloses == ASSUME TypeOK, ledger' = ledger PROVE Closes({}, TRUE)
BY DEF TypeOK, Closes, Ledger!Known, Ledger!OpenRuns

LEMMA MarkRunningCloses ==
  ASSUME TypeOK, NEW r \in Run, Ledger!MarkRunning(r) PROVE Closes({}, TRUE)
BY DEF TypeOK, Closes, Ledger!MarkRunning, Ledger!Known, Ledger!OpenRuns, Ledger!Record, Ledger!Open, Ledger!Terminal

LEMMA MarkCancellingCloses ==
  ASSUME TypeOK, NEW r \in Run, Ledger!MarkCancelling(r) PROVE Closes({}, TRUE)
BY DEF TypeOK, Closes, Ledger!MarkCancelling, Ledger!Known, Ledger!OpenRuns, Ledger!Record, Ledger!Open, Ledger!Terminal

LEMMA FinishCloses ==
  ASSUME TypeOK, NEW r \in Run, NEW status \in Ledger!Terminal, NEW taint \in BOOLEAN,
         Ledger!Finish(r, status, taint)
  PROVE  Closes({r}, taint)
<1> USE DEF Ledger!Finish, Ledger!Known, Ledger!OpenRuns
<1>1. ledger[r] \in Ledger!Record
  BY DEF TypeOK
<1> DEFINE rec == [ledger[r] EXCEPT !.status = status, !.tainted = taint]
<1>2. /\ rec \in Ledger!Record
      /\ rec.request = ledger[r].request /\ rec.intent = ledger[r].intent
      /\ rec.status \notin Ledger!Open
      /\ rec.tainted = taint
  BY <1>1 DEF Ledger!Record, Ledger!Open, Ledger!Terminal
<1>3. ledger' = [ledger EXCEPT ![r] = rec]
  BY DEF TypeOK
<1> HIDE DEF rec
<1>5. ledger' \in [Run -> Ledger!Record \cup {None}]
  BY <1>1, <1>2, <1>3 DEF TypeOK
<1>6. Ledger!Known' = Ledger!Known
  BY <1>1, <1>2, <1>3 DEF TypeOK
<1>7. Ledger!OpenRuns' = Ledger!OpenRuns \ {r}
  BY <1>1, <1>2, <1>3 DEF TypeOK
<1>8. \A t \in Ledger!Known : /\ ledger'[t].request = ledger[t].request
                                /\ ledger'[t].intent = ledger[t].intent
  BY <1>1, <1>2, <1>3 DEF TypeOK
<1>9. \A t \in Ledger!Known : t \notin Ledger!OpenRuns => ledger'[t].tainted = ledger[t].tainted
  BY <1>1, <1>2, <1>3 DEF TypeOK
<1>10. \A t \in Ledger!Known : t \in Ledger!OpenRuns /\ t \in {r} => ledger'[t].tainted = taint
  BY <1>1, <1>2, <1>3 DEF TypeOK
<1> QED
  BY <1>5, <1>6, <1>7, <1>8, <1>9, <1>10 DEF Closes

LEMMA InterruptedRecord ==
  ASSUME NEW rec \in Ledger!Record
  PROVE  /\ Ledger!Interrupted(rec) \in Ledger!Record
         /\ Ledger!Interrupted(rec).request = rec.request
         /\ Ledger!Interrupted(rec).intent = rec.intent
         /\ Ledger!Interrupted(rec).status \notin Ledger!Open
         /\ Ledger!Interrupted(rec).tainted = TRUE
BY DEF Ledger!Interrupted, Ledger!Record, Ledger!Open, Ledger!Terminal

LEMMA InterruptCloses ==
  ASSUME TypeOK, NEW r \in Run, Ledger!Interrupt(r) PROVE Closes({r}, TRUE)
<1>1. ledger[r] \in Ledger!Record
  BY DEF TypeOK, Ledger!Interrupt, Ledger!Known, Ledger!OpenRuns
<1>5. ledger' \in [Run -> Ledger!Record \cup {None}]
  BY <1>1, InterruptedRecord DEF TypeOK, Ledger!Interrupt, Ledger!Known, Ledger!OpenRuns
<1>6. Ledger!Known' = Ledger!Known
  BY <1>1, InterruptedRecord DEF TypeOK, Ledger!Interrupt, Ledger!Known, Ledger!OpenRuns
<1>7. Ledger!OpenRuns' = Ledger!OpenRuns \ {r}
  BY <1>1, InterruptedRecord DEF TypeOK, Ledger!Interrupt, Ledger!Known, Ledger!OpenRuns
<1>8. \A t \in Ledger!Known : /\ ledger'[t].request = ledger[t].request
                                /\ ledger'[t].intent = ledger[t].intent
  BY <1>1, InterruptedRecord DEF TypeOK, Ledger!Interrupt, Ledger!Known, Ledger!OpenRuns
<1>9. \A t \in Ledger!Known : t \notin Ledger!OpenRuns => ledger'[t].tainted = ledger[t].tainted
  BY <1>1, InterruptedRecord DEF TypeOK, Ledger!Interrupt, Ledger!Known, Ledger!OpenRuns
<1>2. Ledger!Interrupted(ledger[r]).tainted = TRUE
  BY <1>1, InterruptedRecord, Zenon
<1>3. ledger'[r] = Ledger!Interrupted(ledger[r])
  BY DEF TypeOK, Ledger!Interrupt
<1>10. \A t \in Ledger!Known : t \in Ledger!OpenRuns /\ t \in {r} => ledger'[t].tainted = TRUE
  BY <1>2, <1>3, Zenon
<1> QED
  BY <1>5, <1>6, <1>7, <1>8, <1>9, <1>10 DEF Closes

LEMMA RecoverCloses ==
  ASSUME TypeOK, Ledger!RecoverInterrupted PROVE Closes(Run, TRUE)
<1>1. \A r \in Ledger!Known : ledger[r] \in Ledger!Record
  BY DEF TypeOK, Ledger!Known
<1>5. ledger' \in [Run -> Ledger!Record \cup {None}]
  BY <1>1, InterruptedRecord DEF TypeOK, Ledger!RecoverInterrupted, Ledger!Known, Ledger!OpenRuns
<1>11. ASSUME NEW t \in Run PROVE t \in Ledger!Known' <=> t \in Ledger!Known
  <2>1. CASE t \in Ledger!OpenRuns
    <3>1. ledger'[t] \in Ledger!Record
      BY <1>1, <2>1, InterruptedRecord
      DEF TypeOK, Ledger!RecoverInterrupted, Ledger!Known, Ledger!OpenRuns
    <3> QED
      BY <2>1, <3>1 DEF Ledger!Known, Ledger!OpenRuns
  <2>2. CASE t \notin Ledger!OpenRuns
    BY <2>2 DEF TypeOK, Ledger!RecoverInterrupted, Ledger!Known
  <2> QED
    BY <2>1, <2>2
<1>6. Ledger!Known' = Ledger!Known
  BY <1>11 DEF Ledger!Known
<1>4. ASSUME NEW t \in Run PROVE t \notin Ledger!OpenRuns'
  <2>1. CASE t \in Ledger!OpenRuns
    BY <1>1, <2>1, InterruptedRecord
    DEF TypeOK, Ledger!RecoverInterrupted, Ledger!Known, Ledger!OpenRuns
  <2>2. CASE t \notin Ledger!OpenRuns
    BY <2>2 DEF TypeOK, Ledger!RecoverInterrupted, Ledger!Known, Ledger!OpenRuns
  <2> QED
    BY <2>1, <2>2
<1>7. Ledger!OpenRuns' = Ledger!OpenRuns \ Run
  BY <1>4 DEF Ledger!OpenRuns, Ledger!Known
<1>8. \A t \in Ledger!Known : /\ ledger'[t].request = ledger[t].request
                                /\ ledger'[t].intent = ledger[t].intent
  BY <1>1, InterruptedRecord DEF TypeOK, Ledger!RecoverInterrupted, Ledger!Known, Ledger!OpenRuns
<1>9. \A t \in Ledger!Known : t \notin Ledger!OpenRuns => ledger'[t].tainted = ledger[t].tainted
  BY <1>1, InterruptedRecord DEF TypeOK, Ledger!RecoverInterrupted, Ledger!Known, Ledger!OpenRuns
<1>2. \A t \in Ledger!OpenRuns : Ledger!Interrupted(ledger[t]).tainted = TRUE
  BY <1>1, InterruptedRecord, Zenon DEF Ledger!OpenRuns
<1>3. \A t \in Ledger!OpenRuns : ledger'[t] = Ledger!Interrupted(ledger[t])
  BY DEF TypeOK, Ledger!RecoverInterrupted, Ledger!OpenRuns, Ledger!Known
<1>10. \A t \in Ledger!Known : t \in Ledger!OpenRuns /\ t \in Run => ledger'[t].tainted = TRUE
  BY <1>2, <1>3, Zenon
<1> QED
  BY <1>5, <1>6, <1>7, <1>8, <1>9, <1>10 DEF Closes

LEMMA ReserveKeeps ==
  ASSUME TypeOK, NEW r \in Run, NEW q \in Request, NEW s \in Snapshot, Ledger!Reserve(r, q, s)
  PROVE  /\ ledger' \in [Run -> Ledger!Record \cup {None}]
         /\ Ledger!Known' = Ledger!Known \cup {r}
         /\ Ledger!OpenRuns' = Ledger!OpenRuns \cup {r}
         /\ r \notin Ledger!Known
         /\ \A t \in Ledger!Known : ledger'[t] = ledger[t] /\ ledger[t].request # q
         /\ ledger'[r].request = q /\ ledger'[r].intent = s
<1>1. /\ Ledger!Queued(q, s) \in Ledger!Record
      /\ Ledger!Queued(q, s).request = q /\ Ledger!Queued(q, s).intent = s
      /\ Ledger!Queued(q, s).status \in Ledger!Open
  BY DEF Ledger!Queued, Ledger!Record, Ledger!Open, Ledger!Terminal
<1> QED
  BY <1>1 DEF TypeOK, Ledger!Reserve, Ledger!Known, Ledger!OpenRuns

\* The intent of a known run is a snapshot.
LEMMA SnapshotType == ASSUME TypeOK, NEW r \in Ledger!Known PROVE SnapshotOf(r) \in Snapshot
BY DEF TypeOK, SnapshotOf, Ledger!Known, Ledger!Record
-----------------------------------------------------------------------------
(* The invariant is preserved by every action.                            *)

LEMMA PrepareStep == ASSUME IInv, NEW s \in Snapshot, Prepare(s) PROVE IInv'
<1> USE DEF IInv, Prepare, SnapshotOf, IsOpen, Active, Spent, registry, admission, work, world, Closes
<1>1. Closes({}, TRUE)
  BY KeepsCloses
<1>2. TypeOK'
  BY <1>1 DEF TypeOK, Place
<1> QED
  BY <1>1, <1>2 DEF TypeOK, Working, Leases, Launches, ClosedTainted, Evidence, OneRunPerRequest, FreshWorkspace, NoRemovalUnderProcess, UntaintedIsClean

LEMMA SubmitStep == ASSUME IInv, NEW c \in Caller, NEW q \in Request, NEW s \in Snapshot, Submit(c, q, s) PROVE IInv'
<1> USE DEF IInv, Submit, SnapshotOf, IsOpen, Active, Spent, registry, admission, work, world, Closes
<1>1. Closes({}, TRUE)
  BY KeepsCloses
<1>2. TypeOK'
  BY <1>1 DEF TypeOK, Place
<1> QED
  BY <1>1, <1>2 DEF TypeOK, Working, Leases, Launches, ClosedTainted, Evidence, OneRunPerRequest, FreshWorkspace, NoRemovalUnderProcess, UntaintedIsClean

LEMMA ReserveStep == ASSUME IInv, NEW c \in Caller, NEW r \in Run, Reserve(c, r) PROVE IInv'
<1> USE DEF IInv, Reserve, Leasable, GoTo, SnapshotOf, IsOpen, Active, Spent, registry, admission, work, world, Closes
<1> DEFINE s == start[c].snapshot
<1>a. s \in Snapshot /\ start[c].request \in Request
  BY DEF TypeOK
<1>1. /\ ledger' \in [Run -> Ledger!Record \cup {None}]
      /\ Ledger!Known' = Ledger!Known \cup {r}
      /\ Ledger!OpenRuns' = Ledger!OpenRuns \cup {r}
      /\ r \notin Ledger!Known
      /\ \A t \in Ledger!Known : ledger'[t] = ledger[t] /\ ledger[t].request # start[c].request
      /\ ledger'[r].request = start[c].request /\ ledger'[r].intent = s
  BY <1>a, ReserveKeeps
<1>b. dispatch[r] = "idle" /\ r \notin launched
  BY <1>1 DEF Working, Launches, TypeOK
<1>2. TypeOK'
  BY <1>1, <1>a, <1>b DEF TypeOK, Place
<1>3. Working'
  BY <1>1, <1>a, <1>b DEF TypeOK, Working, Leases, Launches, ClosedTainted, Evidence, OneRunPerRequest, FreshWorkspace, NoRemovalUnderProcess, UntaintedIsClean
<1>4. Leases'
  <2>1. CASE Leasable(s)
    BY <2>1, <1>1, <1>a, <1>b, SnapshotType DEF TypeOK, Leases, Working
  <2>2. CASE ~Leasable(s)
    BY <2>2, <1>1, <1>a, <1>b, SnapshotType DEF TypeOK, Leases, Working
  <2> QED
    BY <2>1, <2>2
<1>5. Launches'
  BY <1>1, <1>a, <1>b DEF TypeOK, Working, Leases, Launches, ClosedTainted, Evidence, OneRunPerRequest, FreshWorkspace, NoRemovalUnderProcess, UntaintedIsClean
<1>6. (live \subseteq launched)'
  BY <1>1, <1>a, <1>b DEF TypeOK, Working, Leases, Launches, ClosedTainted, Evidence, OneRunPerRequest, FreshWorkspace, NoRemovalUnderProcess, UntaintedIsClean
<1>7. ClosedTainted'
  BY <1>1, <1>a, <1>b DEF TypeOK, Working, Leases, Launches, ClosedTainted, Evidence, OneRunPerRequest, FreshWorkspace, NoRemovalUnderProcess, UntaintedIsClean
<1>8. Evidence'
  BY <1>1, <1>a, <1>b DEF TypeOK, Working, Leases, Launches, ClosedTainted, Evidence, OneRunPerRequest, FreshWorkspace, NoRemovalUnderProcess, UntaintedIsClean
<1>9. OneRunPerRequest'
  BY <1>1, <1>a, <1>b DEF TypeOK, Working, Leases, Launches, ClosedTainted, Evidence, OneRunPerRequest, FreshWorkspace, NoRemovalUnderProcess, UntaintedIsClean
<1>10. FreshWorkspace'
  BY <1>1, <1>a, <1>b DEF TypeOK, Working, Leases, Launches, ClosedTainted, Evidence, OneRunPerRequest, FreshWorkspace, NoRemovalUnderProcess, UntaintedIsClean
<1>11. NoRemovalUnderProcess'
  BY <1>1, <1>a, <1>b DEF TypeOK, Working, Leases, Launches, ClosedTainted, Evidence, OneRunPerRequest, FreshWorkspace, NoRemovalUnderProcess, UntaintedIsClean
<1>12. UntaintedIsClean'
  BY <1>1, <1>a, <1>b DEF TypeOK, Working, Leases, Launches, ClosedTainted, Evidence, OneRunPerRequest, FreshWorkspace, NoRemovalUnderProcess, UntaintedIsClean
<1> QED
  BY <1>2, <1>3, <1>4, <1>5, <1>6, <1>7, <1>8, <1>9, <1>10, <1>11, <1>12

LEMMA ReuseStep == ASSUME IInv, NEW c \in Caller, NEW r \in Run, Reuse(c, r) PROVE IInv'
<1> USE DEF IInv, Reuse, SnapshotOf, IsOpen, Active, Spent, registry, admission, work, world, Closes
<1>1. Closes({}, TRUE)
  BY KeepsCloses
<1>2. TypeOK'
  BY <1>1 DEF TypeOK, Place
<1> QED
  BY <1>1, <1>2 DEF TypeOK, Working, Leases, Launches, ClosedTainted, Evidence, OneRunPerRequest, FreshWorkspace, NoRemovalUnderProcess, UntaintedIsClean

LEMMA ReserveFailsStep == ASSUME IInv, NEW c \in Caller, ReserveFails(c) PROVE IInv'
<1> USE DEF IInv, ReserveFails, SnapshotOf, IsOpen, Active, Spent, registry, admission, work, world, Closes
<1>1. Closes({}, TRUE)
  BY KeepsCloses
<1>2. TypeOK'
  BY <1>1 DEF TypeOK, Place
<1> QED
  BY <1>1, <1>2 DEF TypeOK, Working, Leases, Launches, ClosedTainted, Evidence, OneRunPerRequest, FreshWorkspace, NoRemovalUnderProcess, UntaintedIsClean

LEMMA MarkRunningStep == ASSUME IInv, NEW r \in Run, MarkRunning(r) PROVE IInv'
<1> USE DEF IInv, MarkRunning, GoTo, SnapshotOf, IsOpen, Active, Spent, registry, admission, work, world, Closes
<1>1. Closes({}, TRUE)
  BY MarkRunningCloses
<1>a. /\ r \in Ledger!Known /\ SnapshotOf(r) \in Snapshot
      /\ lease[SnapshotOf(r)] = r
      /\ ~Spent(SnapshotOf(r)) /\ tree[SnapshotOf(r)] = "present"
  BY SnapshotType DEF Working, Leases
<1>b. \A t \in launched : SnapshotOf(t) = SnapshotOf(r) => t = r
  BY <1>a DEF Launches
<1>2. TypeOK'
  BY <1>1, <1>a, <1>b DEF TypeOK, Place
<1>3. Working'
  BY <1>1, <1>a, <1>b DEF TypeOK, Working, Leases, Launches, ClosedTainted, Evidence, OneRunPerRequest, FreshWorkspace, NoRemovalUnderProcess, UntaintedIsClean
<1>4. Leases'
  BY <1>1, <1>a, <1>b DEF TypeOK, Working, Leases, Launches, ClosedTainted, Evidence, OneRunPerRequest, FreshWorkspace, NoRemovalUnderProcess, UntaintedIsClean
<1>5. Launches'
  BY <1>1, <1>a, <1>b DEF TypeOK, Working, Leases, Launches, ClosedTainted, Evidence, OneRunPerRequest, FreshWorkspace, NoRemovalUnderProcess, UntaintedIsClean
<1>6. (live \subseteq launched)'
  BY <1>1, <1>a, <1>b DEF TypeOK, Working, Leases, Launches, ClosedTainted, Evidence, OneRunPerRequest, FreshWorkspace, NoRemovalUnderProcess, UntaintedIsClean
<1>7. ClosedTainted'
  BY <1>1, <1>a, <1>b DEF TypeOK, Working, Leases, Launches, ClosedTainted, Evidence, OneRunPerRequest, FreshWorkspace, NoRemovalUnderProcess, UntaintedIsClean
<1>8. Evidence'
  BY <1>1, <1>a, <1>b DEF TypeOK, Working, Leases, Launches, ClosedTainted, Evidence, OneRunPerRequest, FreshWorkspace, NoRemovalUnderProcess, UntaintedIsClean
<1>9. OneRunPerRequest'
  BY <1>1, <1>a, <1>b DEF TypeOK, Working, Leases, Launches, ClosedTainted, Evidence, OneRunPerRequest, FreshWorkspace, NoRemovalUnderProcess, UntaintedIsClean
<1>10. FreshWorkspace'
  BY <1>1, <1>a, <1>b DEF TypeOK, Working, Leases, Launches, ClosedTainted, Evidence, OneRunPerRequest, FreshWorkspace, NoRemovalUnderProcess, UntaintedIsClean
<1>11. NoRemovalUnderProcess'
  BY <1>1, <1>a, <1>b DEF TypeOK, Working, Leases, Launches, ClosedTainted, Evidence, OneRunPerRequest, FreshWorkspace, NoRemovalUnderProcess, UntaintedIsClean
<1>12. UntaintedIsClean'
  BY <1>1, <1>a, <1>b DEF TypeOK, Working, Leases, Launches, ClosedTainted, Evidence, OneRunPerRequest, FreshWorkspace, NoRemovalUnderProcess, UntaintedIsClean
<1> QED
  BY <1>2, <1>3, <1>4, <1>5, <1>6, <1>7, <1>8, <1>9, <1>10, <1>11, <1>12

LEMMA MarkFailsStep == ASSUME IInv, NEW r \in Run, MarkFails(r) PROVE IInv'
<1> USE DEF IInv, MarkFails, GoTo, SnapshotOf, IsOpen, Active, Spent, registry, admission, work, world, Closes
<1>1. Closes({}, TRUE)
  BY KeepsCloses
<1>2. TypeOK'
  BY <1>1 DEF TypeOK, Place
<1> QED
  BY <1>1, <1>2 DEF TypeOK, Working, Leases, Launches, ClosedTainted, Evidence, OneRunPerRequest, FreshWorkspace, NoRemovalUnderProcess, UntaintedIsClean

LEMMA ExecutorReturnsStep == ASSUME IInv, NEW r \in Run, NEW res \in Result, ExecutorReturns(r, res) PROVE IInv'
<1> USE DEF IInv, ExecutorReturns, GoTo, SnapshotOf, IsOpen, Active, Spent, registry, admission, work, world, Closes
<1>1. Closes({}, TRUE)
  BY KeepsCloses
<1>2. TypeOK'
  BY <1>1 DEF TypeOK, Place
<1> QED
  BY <1>1, <1>2 DEF TypeOK, Working, Leases, Launches, ClosedTainted, Evidence, OneRunPerRequest, FreshWorkspace, NoRemovalUnderProcess, UntaintedIsClean

LEMMA ExecutorThrowsStep == ASSUME IInv, NEW r \in Run, ExecutorThrows(r) PROVE IInv'
<1> USE DEF IInv, ExecutorThrows, GoTo, SnapshotOf, IsOpen, Active, Spent, registry, admission, work, world, Closes
<1>1. Closes({}, TRUE)
  BY KeepsCloses
<1>2. TypeOK'
  BY <1>1 DEF TypeOK, Place
<1> QED
  BY <1>1, <1>2 DEF TypeOK, Working, Leases, Launches, ClosedTainted, Evidence, OneRunPerRequest, FreshWorkspace, NoRemovalUnderProcess, UntaintedIsClean

LEMMA ExamineTerminalStep == ASSUME IInv, NEW r \in Run, ExamineTerminal(r) PROVE IInv'
<1> USE DEF IInv, ExamineTerminal, GoTo, Complete, Over, SnapshotOf, IsOpen, Active, Spent, registry, admission, work, world, Closes
<1>1. Closes({}, TRUE)
  BY KeepsCloses
<1>a. /\ r \in Ledger!Known /\ SnapshotOf(r) \in Snapshot
      /\ lease[SnapshotOf(r)] = r
      /\ ~Spent(SnapshotOf(r)) /\ tree[SnapshotOf(r)] = "present"
  BY SnapshotType DEF Working, Leases
<1>2. TypeOK'
  BY <1>1, <1>a DEF TypeOK, Place
<1>3. Working'
  BY <1>1, <1>a DEF TypeOK, Working, Leases, Launches, ClosedTainted, Evidence, OneRunPerRequest, FreshWorkspace, NoRemovalUnderProcess, UntaintedIsClean
<1>4. Leases'
  BY <1>1, <1>a DEF TypeOK, Working, Leases, Launches, ClosedTainted, Evidence, OneRunPerRequest, FreshWorkspace, NoRemovalUnderProcess, UntaintedIsClean
<1>5. Launches'
  BY <1>1, <1>a DEF TypeOK, Working, Leases, Launches, ClosedTainted, Evidence, OneRunPerRequest, FreshWorkspace, NoRemovalUnderProcess, UntaintedIsClean
<1>6. (live \subseteq launched)'
  BY <1>1, <1>a DEF TypeOK, Working, Leases, Launches, ClosedTainted, Evidence, OneRunPerRequest, FreshWorkspace, NoRemovalUnderProcess, UntaintedIsClean
<1>7. ClosedTainted'
  BY <1>1, <1>a DEF TypeOK, Working, Leases, Launches, ClosedTainted, Evidence, OneRunPerRequest, FreshWorkspace, NoRemovalUnderProcess, UntaintedIsClean
<1>8. Evidence'
  BY <1>1, <1>a DEF TypeOK, Working, Leases, Launches, ClosedTainted, Evidence, OneRunPerRequest, FreshWorkspace, NoRemovalUnderProcess, UntaintedIsClean
<1>9. OneRunPerRequest'
  BY <1>1, <1>a DEF TypeOK, Working, Leases, Launches, ClosedTainted, Evidence, OneRunPerRequest, FreshWorkspace, NoRemovalUnderProcess, UntaintedIsClean
<1>10. FreshWorkspace'
  BY <1>1, <1>a DEF TypeOK, Working, Leases, Launches, ClosedTainted, Evidence, OneRunPerRequest, FreshWorkspace, NoRemovalUnderProcess, UntaintedIsClean
<1>11. NoRemovalUnderProcess'
  BY <1>1, <1>a DEF TypeOK, Working, Leases, Launches, ClosedTainted, Evidence, OneRunPerRequest, FreshWorkspace, NoRemovalUnderProcess, UntaintedIsClean
<1>12. UntaintedIsClean'
  BY <1>1, <1>a DEF TypeOK, Working, Leases, Launches, ClosedTainted, Evidence, OneRunPerRequest, FreshWorkspace, NoRemovalUnderProcess, UntaintedIsClean
<1> QED
  BY <1>2, <1>3, <1>4, <1>5, <1>6, <1>7, <1>8, <1>9, <1>10, <1>11, <1>12

LEMMA ExamineOpenStep == ASSUME IInv, NEW r \in Run, ExamineOpen(r) PROVE IInv'
<1> USE DEF IInv, ExamineOpen, GoTo, Complete, SnapshotOf, IsOpen, Active, Spent, registry, admission, work, world, Closes
<1>1. Closes({}, TRUE)
  BY KeepsCloses
<1>a. /\ r \in Ledger!Known /\ SnapshotOf(r) \in Snapshot
      /\ lease[SnapshotOf(r)] = r
      /\ ~Spent(SnapshotOf(r)) /\ tree[SnapshotOf(r)] = "present"
  BY SnapshotType DEF Working, Leases
<1>b. /\ result[r] \in Result /\ (result[r].safe => r \notin live)
      /\ \A t \in launched : SnapshotOf(t) = SnapshotOf(r) => t = r
  BY <1>a DEF TypeOK, Evidence, Launches
<1>c. [result[r] EXCEPT !.status = "failed"] \in Result
      /\ [result[r] EXCEPT !.status = "failed"].safe = result[r].safe
  BY <1>b DEF Result
<1>2. TypeOK'
  BY <1>1, <1>a, <1>b, <1>c DEF TypeOK, Place
<1>3. Working'
  BY <1>1, <1>a, <1>b, <1>c DEF TypeOK, Working, Leases, Launches, ClosedTainted, Evidence, OneRunPerRequest, FreshWorkspace, NoRemovalUnderProcess, UntaintedIsClean
<1>4. Leases'
  BY <1>1, <1>a, <1>b, <1>c DEF TypeOK, Working, Leases, Launches, ClosedTainted, Evidence, OneRunPerRequest, FreshWorkspace, NoRemovalUnderProcess, UntaintedIsClean
<1>5. Launches'
  BY <1>1, <1>a, <1>b, <1>c DEF TypeOK, Working, Leases, Launches, ClosedTainted, Evidence, OneRunPerRequest, FreshWorkspace, NoRemovalUnderProcess, UntaintedIsClean
<1>6. (live \subseteq launched)'
  BY <1>1, <1>a, <1>b, <1>c DEF TypeOK, Working, Leases, Launches, ClosedTainted, Evidence, OneRunPerRequest, FreshWorkspace, NoRemovalUnderProcess, UntaintedIsClean
<1>7. ClosedTainted'
  BY <1>1, <1>a, <1>b, <1>c DEF TypeOK, Working, Leases, Launches, ClosedTainted, Evidence, OneRunPerRequest, FreshWorkspace, NoRemovalUnderProcess, UntaintedIsClean
<1>8. Evidence'
  BY <1>1, <1>a, <1>b, <1>c DEF TypeOK, Working, Leases, Launches, ClosedTainted, Evidence, OneRunPerRequest, FreshWorkspace, NoRemovalUnderProcess, UntaintedIsClean
<1>9. OneRunPerRequest'
  BY <1>1, <1>a, <1>b, <1>c DEF TypeOK, Working, Leases, Launches, ClosedTainted, Evidence, OneRunPerRequest, FreshWorkspace, NoRemovalUnderProcess, UntaintedIsClean
<1>10. FreshWorkspace'
  BY <1>1, <1>a, <1>b, <1>c DEF TypeOK, Working, Leases, Launches, ClosedTainted, Evidence, OneRunPerRequest, FreshWorkspace, NoRemovalUnderProcess, UntaintedIsClean
<1>11. NoRemovalUnderProcess'
  BY <1>1, <1>a, <1>b, <1>c DEF TypeOK, Working, Leases, Launches, ClosedTainted, Evidence, OneRunPerRequest, FreshWorkspace, NoRemovalUnderProcess, UntaintedIsClean
<1>12. UntaintedIsClean'
  BY <1>1, <1>a, <1>b, <1>c DEF TypeOK, Working, Leases, Launches, ClosedTainted, Evidence, OneRunPerRequest, FreshWorkspace, NoRemovalUnderProcess, UntaintedIsClean
<1> QED
  BY <1>2, <1>3, <1>4, <1>5, <1>6, <1>7, <1>8, <1>9, <1>10, <1>11, <1>12

LEMMA RemovedStep == ASSUME IInv, NEW s \in Snapshot, Removed(s) PROVE IInv'
<1> USE DEF IInv, Removed, SnapshotOf, IsOpen, Active, Spent, registry, admission, work, world, Closes
<1>1. Closes({}, TRUE)
  BY KeepsCloses
<1>2. TypeOK'
  BY <1>1 DEF TypeOK, Place
<1> QED
  BY <1>1, <1>2 DEF TypeOK, Working, Leases, Launches, ClosedTainted, Evidence, OneRunPerRequest, FreshWorkspace, NoRemovalUnderProcess, UntaintedIsClean

LEMMA RemovalFailsStep == ASSUME IInv, NEW s \in Snapshot, RemovalFails(s) PROVE IInv'
<1> USE DEF IInv, RemovalFails, SnapshotOf, IsOpen, Active, Spent, registry, admission, work, world, Closes
<1>1. Closes({}, TRUE)
  BY KeepsCloses
<1>2. TypeOK'
  BY <1>1 DEF TypeOK, Place
<1> QED
  BY <1>1, <1>2 DEF TypeOK, Working, Leases, Launches, ClosedTainted, Evidence, OneRunPerRequest, FreshWorkspace, NoRemovalUnderProcess, UntaintedIsClean

LEMMA ReleaseSettlesStep == ASSUME IInv, NEW r \in Run, ReleaseSettles(r) PROVE IInv'
<1> USE DEF IInv, ReleaseSettles, GoTo, SnapshotOf, IsOpen, Active, Spent, registry, admission, work, world, Closes
<1>1. Closes({}, TRUE)
  BY KeepsCloses
<1>a. /\ r \in Ledger!Known /\ SnapshotOf(r) \in Snapshot
      /\ result[r] \in Result /\ (result[r].safe => r \notin live)
  BY SnapshotType DEF Working, TypeOK, Evidence
<1>b. Unreleased \in Result /\ Unreleased.safe = FALSE
  BY DEF Unreleased, Result
<1>2. TypeOK'
  BY <1>1, <1>a, <1>b DEF TypeOK, Place
<1>3. Working'
  BY <1>1, <1>a, <1>b DEF TypeOK, Working, Leases, Launches, ClosedTainted, Evidence, OneRunPerRequest, FreshWorkspace, NoRemovalUnderProcess, UntaintedIsClean
<1>4. Leases'
  BY <1>1, <1>a, <1>b DEF TypeOK, Working, Leases, Launches, ClosedTainted, Evidence, OneRunPerRequest, FreshWorkspace, NoRemovalUnderProcess, UntaintedIsClean
<1>5. Launches'
  BY <1>1, <1>a, <1>b DEF TypeOK, Working, Leases, Launches, ClosedTainted, Evidence, OneRunPerRequest, FreshWorkspace, NoRemovalUnderProcess, UntaintedIsClean
<1>6. (live \subseteq launched)'
  BY <1>1, <1>a, <1>b DEF TypeOK, Working, Leases, Launches, ClosedTainted, Evidence, OneRunPerRequest, FreshWorkspace, NoRemovalUnderProcess, UntaintedIsClean
<1>7. ClosedTainted'
  BY <1>1, <1>a, <1>b DEF TypeOK, Working, Leases, Launches, ClosedTainted, Evidence, OneRunPerRequest, FreshWorkspace, NoRemovalUnderProcess, UntaintedIsClean
<1>8. Evidence'
  BY <1>1, <1>a, <1>b DEF TypeOK, Working, Leases, Launches, ClosedTainted, Evidence, OneRunPerRequest, FreshWorkspace, NoRemovalUnderProcess, UntaintedIsClean
<1>9. OneRunPerRequest'
  BY <1>1, <1>a, <1>b DEF TypeOK, Working, Leases, Launches, ClosedTainted, Evidence, OneRunPerRequest, FreshWorkspace, NoRemovalUnderProcess, UntaintedIsClean
<1>10. FreshWorkspace'
  BY <1>1, <1>a, <1>b DEF TypeOK, Working, Leases, Launches, ClosedTainted, Evidence, OneRunPerRequest, FreshWorkspace, NoRemovalUnderProcess, UntaintedIsClean
<1>11. NoRemovalUnderProcess'
  BY <1>1, <1>a, <1>b DEF TypeOK, Working, Leases, Launches, ClosedTainted, Evidence, OneRunPerRequest, FreshWorkspace, NoRemovalUnderProcess, UntaintedIsClean
<1>12. UntaintedIsClean'
  BY <1>1, <1>a, <1>b DEF TypeOK, Working, Leases, Launches, ClosedTainted, Evidence, OneRunPerRequest, FreshWorkspace, NoRemovalUnderProcess, UntaintedIsClean
<1> QED
  BY <1>2, <1>3, <1>4, <1>5, <1>6, <1>7, <1>8, <1>9, <1>10, <1>11, <1>12

LEMMA ReleaseTimesOutStep == ASSUME IInv, NEW r \in Run, ReleaseTimesOut(r) PROVE IInv'
<1> USE DEF IInv, ReleaseTimesOut, GoTo, SnapshotOf, IsOpen, Active, Spent, registry, admission, work, world, Closes
<1>1. Closes({}, TRUE)
  BY KeepsCloses
<1>a. /\ r \in Ledger!Known /\ SnapshotOf(r) \in Snapshot
      /\ result[r] \in Result /\ (result[r].safe => r \notin live)
  BY SnapshotType DEF Working, TypeOK, Evidence
<1>b. Unreleased \in Result /\ Unreleased.safe = FALSE
  BY DEF Unreleased, Result
<1>2. TypeOK'
  BY <1>1, <1>a, <1>b DEF TypeOK, Place
<1>3. Working'
  BY <1>1, <1>a, <1>b DEF TypeOK, Working, Leases, Launches, ClosedTainted, Evidence, OneRunPerRequest, FreshWorkspace, NoRemovalUnderProcess, UntaintedIsClean
<1>4. Leases'
  BY <1>1, <1>a, <1>b DEF TypeOK, Working, Leases, Launches, ClosedTainted, Evidence, OneRunPerRequest, FreshWorkspace, NoRemovalUnderProcess, UntaintedIsClean
<1>5. Launches'
  BY <1>1, <1>a, <1>b DEF TypeOK, Working, Leases, Launches, ClosedTainted, Evidence, OneRunPerRequest, FreshWorkspace, NoRemovalUnderProcess, UntaintedIsClean
<1>6. (live \subseteq launched)'
  BY <1>1, <1>a, <1>b DEF TypeOK, Working, Leases, Launches, ClosedTainted, Evidence, OneRunPerRequest, FreshWorkspace, NoRemovalUnderProcess, UntaintedIsClean
<1>7. ClosedTainted'
  BY <1>1, <1>a, <1>b DEF TypeOK, Working, Leases, Launches, ClosedTainted, Evidence, OneRunPerRequest, FreshWorkspace, NoRemovalUnderProcess, UntaintedIsClean
<1>8. Evidence'
  BY <1>1, <1>a, <1>b DEF TypeOK, Working, Leases, Launches, ClosedTainted, Evidence, OneRunPerRequest, FreshWorkspace, NoRemovalUnderProcess, UntaintedIsClean
<1>9. OneRunPerRequest'
  BY <1>1, <1>a, <1>b DEF TypeOK, Working, Leases, Launches, ClosedTainted, Evidence, OneRunPerRequest, FreshWorkspace, NoRemovalUnderProcess, UntaintedIsClean
<1>10. FreshWorkspace'
  BY <1>1, <1>a, <1>b DEF TypeOK, Working, Leases, Launches, ClosedTainted, Evidence, OneRunPerRequest, FreshWorkspace, NoRemovalUnderProcess, UntaintedIsClean
<1>11. NoRemovalUnderProcess'
  BY <1>1, <1>a, <1>b DEF TypeOK, Working, Leases, Launches, ClosedTainted, Evidence, OneRunPerRequest, FreshWorkspace, NoRemovalUnderProcess, UntaintedIsClean
<1>12. UntaintedIsClean'
  BY <1>1, <1>a, <1>b DEF TypeOK, Working, Leases, Launches, ClosedTainted, Evidence, OneRunPerRequest, FreshWorkspace, NoRemovalUnderProcess, UntaintedIsClean
<1> QED
  BY <1>2, <1>3, <1>4, <1>5, <1>6, <1>7, <1>8, <1>9, <1>10, <1>11, <1>12

LEMMA FinishStep == ASSUME IInv, NEW r \in Run, Finish(r) PROVE IInv'
<1> USE DEF IInv, Finish, GoTo, Over, SnapshotOf, IsOpen, Active, Spent, registry, admission, work, world, Closes
<1>a. result[r] \in Result
  BY DEF TypeOK, Evidence
<1>b. result[r].status \in Ledger!Terminal /\ (~result[r].safe) \in BOOLEAN
  BY <1>a DEF Result, Ledger!Terminal
<1>1. Closes({r}, ~result[r].safe)
  <2> HIDE DEF Closes
  <2> QED
    BY <1>b, FinishCloses
<1>2. TypeOK'
  BY <1>1, <1>a, <1>b DEF TypeOK, Place
<1>3. Working'
  BY <1>1, <1>a, <1>b DEF TypeOK, Working, Leases, Launches, ClosedTainted, Evidence, OneRunPerRequest, FreshWorkspace, NoRemovalUnderProcess, UntaintedIsClean
<1>4. Leases'
  BY <1>1, <1>a, <1>b DEF TypeOK, Working, Leases, Launches, ClosedTainted, Evidence, OneRunPerRequest, FreshWorkspace, NoRemovalUnderProcess, UntaintedIsClean
<1>5. Launches'
  BY <1>1, <1>a, <1>b DEF TypeOK, Working, Leases, Launches, ClosedTainted, Evidence, OneRunPerRequest, FreshWorkspace, NoRemovalUnderProcess, UntaintedIsClean
<1>6. (live \subseteq launched)'
  BY <1>1, <1>a, <1>b DEF TypeOK, Working, Leases, Launches, ClosedTainted, Evidence, OneRunPerRequest, FreshWorkspace, NoRemovalUnderProcess, UntaintedIsClean
<1>7. ClosedTainted'
  BY <1>1, <1>a, <1>b DEF TypeOK, Working, Leases, Launches, ClosedTainted, Evidence, OneRunPerRequest, FreshWorkspace, NoRemovalUnderProcess, UntaintedIsClean
<1>8. Evidence'
  BY <1>1, <1>a, <1>b DEF TypeOK, Working, Leases, Launches, ClosedTainted, Evidence, OneRunPerRequest, FreshWorkspace, NoRemovalUnderProcess, UntaintedIsClean
<1>9. OneRunPerRequest'
  BY <1>1, <1>a, <1>b DEF TypeOK, Working, Leases, Launches, ClosedTainted, Evidence, OneRunPerRequest, FreshWorkspace, NoRemovalUnderProcess, UntaintedIsClean
<1>10. FreshWorkspace'
  BY <1>1, <1>a, <1>b DEF TypeOK, Working, Leases, Launches, ClosedTainted, Evidence, OneRunPerRequest, FreshWorkspace, NoRemovalUnderProcess, UntaintedIsClean
<1>11. NoRemovalUnderProcess'
  BY <1>1, <1>a, <1>b DEF TypeOK, Working, Leases, Launches, ClosedTainted, Evidence, OneRunPerRequest, FreshWorkspace, NoRemovalUnderProcess, UntaintedIsClean
<1>12. UntaintedIsClean'
  <2>1. CASE result[r].safe
    BY <2>1, <1>1, <1>a DEF UntaintedIsClean, Evidence, Working
  <2>2. CASE ~result[r].safe
    BY <2>2, <1>1, <1>a DEF UntaintedIsClean, Evidence, Working
  <2> QED
    BY <2>1, <2>2
<1> QED
  BY <1>2, <1>3, <1>4, <1>5, <1>6, <1>7, <1>8, <1>9, <1>10, <1>11, <1>12

LEMMA FinishFailsStep == ASSUME IInv, NEW r \in Run, FinishFails(r) PROVE IInv'
<1> USE DEF IInv, FinishFails, GoTo, SnapshotOf, IsOpen, Active, Spent, registry, admission, work, world, Closes
<1>1. Closes({}, TRUE)
  BY KeepsCloses
<1>2. TypeOK'
  BY <1>1 DEF TypeOK, Place
<1> QED
  BY <1>1, <1>2 DEF TypeOK, Working, Leases, Launches, ClosedTainted, Evidence, OneRunPerRequest, FreshWorkspace, NoRemovalUnderProcess, UntaintedIsClean

LEMMA AbandonStep == ASSUME IInv, NEW r \in Run, Abandon(r) PROVE IInv'
<1> USE DEF IInv, Abandon, GoTo, GiveUpLease, Complete, Over, SnapshotOf, IsOpen, Active, Spent, registry, admission, work, world, Closes
<1>1. Closes({r}, TRUE) \/ Closes({}, TRUE)
  BY InterruptCloses, KeepsCloses DEF InterruptUnlessTerminal
<1>2. TypeOK'
  <2>1. CASE lease[SnapshotOf(r)] = r
    <3>1. SnapshotOf(r) \in Snapshot
      BY SnapshotType DEF Working
    <3> QED
      BY <3>1, <2>1, <1>1 DEF TypeOK, Place
  <2>2. CASE lease[SnapshotOf(r)] # r
    BY <2>2, <1>1 DEF TypeOK, Place
  <2> QED
    BY <2>1, <2>2
<1>3. Working'
  BY <1>1 DEF TypeOK, Working, Leases, Launches, ClosedTainted, Evidence, OneRunPerRequest, FreshWorkspace, NoRemovalUnderProcess, UntaintedIsClean
<1>4. Leases'
  <2>1. CASE lease[SnapshotOf(r)] = r
    BY <2>1, <1>1, SnapshotType DEF TypeOK, Leases, Working
  <2>2. CASE lease[SnapshotOf(r)] # r
    BY <2>2, <1>1, SnapshotType DEF TypeOK, Leases, Working
  <2> QED
    BY <2>1, <2>2
<1>5. Launches'
  BY <1>1 DEF TypeOK, Working, Leases, Launches, ClosedTainted, Evidence, OneRunPerRequest, FreshWorkspace, NoRemovalUnderProcess, UntaintedIsClean
<1>6. (live \subseteq launched)'
  BY <1>1 DEF TypeOK, Working, Leases, Launches, ClosedTainted, Evidence, OneRunPerRequest, FreshWorkspace, NoRemovalUnderProcess, UntaintedIsClean
<1>7. ClosedTainted'
  BY <1>1 DEF TypeOK, Working, Leases, Launches, ClosedTainted, Evidence, OneRunPerRequest, FreshWorkspace, NoRemovalUnderProcess, UntaintedIsClean
<1>8. Evidence'
  BY <1>1 DEF TypeOK, Working, Leases, Launches, ClosedTainted, Evidence, OneRunPerRequest, FreshWorkspace, NoRemovalUnderProcess, UntaintedIsClean
<1>9. OneRunPerRequest'
  BY <1>1 DEF TypeOK, Working, Leases, Launches, ClosedTainted, Evidence, OneRunPerRequest, FreshWorkspace, NoRemovalUnderProcess, UntaintedIsClean
<1>10. FreshWorkspace'
  BY <1>1 DEF TypeOK, Working, Leases, Launches, ClosedTainted, Evidence, OneRunPerRequest, FreshWorkspace, NoRemovalUnderProcess, UntaintedIsClean
<1>11. NoRemovalUnderProcess'
  BY <1>1 DEF TypeOK, Working, Leases, Launches, ClosedTainted, Evidence, OneRunPerRequest, FreshWorkspace, NoRemovalUnderProcess, UntaintedIsClean
<1>12. UntaintedIsClean'
  BY <1>1 DEF TypeOK, Working, Leases, Launches, ClosedTainted, Evidence, OneRunPerRequest, FreshWorkspace, NoRemovalUnderProcess, UntaintedIsClean
<1> QED
  BY <1>2, <1>3, <1>4, <1>5, <1>6, <1>7, <1>8, <1>9, <1>10, <1>11, <1>12

LEMMA CancelStep == ASSUME IInv, NEW r \in Run, Cancel(r) PROVE IInv'
<1> USE DEF IInv, Cancel, SnapshotOf, IsOpen, Active, Spent, registry, admission, work, world, Closes
<1>1. Closes({}, TRUE)
  BY KeepsCloses
<1>2. TypeOK'
  BY <1>1 DEF TypeOK, Place
<1> QED
  BY <1>1, <1>2 DEF TypeOK, Working, Leases, Launches, ClosedTainted, Evidence, OneRunPerRequest, FreshWorkspace, NoRemovalUnderProcess, UntaintedIsClean

LEMMA CancelLostStep == ASSUME IInv, NEW r \in Run, CancelLost(r) PROVE IInv'
<1> USE DEF IInv, CancelLost, SnapshotOf, IsOpen, Active, Spent, registry, admission, work, world, Closes
<1>1. Closes({r}, TRUE)
  BY InterruptCloses
<1>2. TypeOK'
  BY <1>1 DEF TypeOK, Place
<1>3. Working'
  BY <1>1 DEF TypeOK, Working, Leases, Launches, ClosedTainted, Evidence, OneRunPerRequest, FreshWorkspace, NoRemovalUnderProcess, UntaintedIsClean
<1>4. Leases'
  BY <1>1 DEF TypeOK, Working, Leases, Launches, ClosedTainted, Evidence, OneRunPerRequest, FreshWorkspace, NoRemovalUnderProcess, UntaintedIsClean
<1>5. Launches'
  BY <1>1 DEF TypeOK, Working, Leases, Launches, ClosedTainted, Evidence, OneRunPerRequest, FreshWorkspace, NoRemovalUnderProcess, UntaintedIsClean
<1>6. (live \subseteq launched)'
  BY <1>1 DEF TypeOK, Working, Leases, Launches, ClosedTainted, Evidence, OneRunPerRequest, FreshWorkspace, NoRemovalUnderProcess, UntaintedIsClean
<1>7. ClosedTainted'
  BY <1>1 DEF TypeOK, Working, Leases, Launches, ClosedTainted, Evidence, OneRunPerRequest, FreshWorkspace, NoRemovalUnderProcess, UntaintedIsClean
<1>8. Evidence'
  BY <1>1 DEF TypeOK, Working, Leases, Launches, ClosedTainted, Evidence, OneRunPerRequest, FreshWorkspace, NoRemovalUnderProcess, UntaintedIsClean
<1>9. OneRunPerRequest'
  BY <1>1 DEF TypeOK, Working, Leases, Launches, ClosedTainted, Evidence, OneRunPerRequest, FreshWorkspace, NoRemovalUnderProcess, UntaintedIsClean
<1>10. FreshWorkspace'
  BY <1>1 DEF TypeOK, Working, Leases, Launches, ClosedTainted, Evidence, OneRunPerRequest, FreshWorkspace, NoRemovalUnderProcess, UntaintedIsClean
<1>11. NoRemovalUnderProcess'
  BY <1>1 DEF TypeOK, Working, Leases, Launches, ClosedTainted, Evidence, OneRunPerRequest, FreshWorkspace, NoRemovalUnderProcess, UntaintedIsClean
<1>12. UntaintedIsClean'
  BY <1>1 DEF TypeOK, Working, Leases, Launches, ClosedTainted, Evidence, OneRunPerRequest, FreshWorkspace, NoRemovalUnderProcess, UntaintedIsClean
<1> QED
  BY <1>2, <1>3, <1>4, <1>5, <1>6, <1>7, <1>8, <1>9, <1>10, <1>11, <1>12

LEMMA CancelMarksStep == ASSUME IInv, NEW r \in Run, CancelMarks(r) PROVE IInv'
<1> USE DEF IInv, CancelMarks, SnapshotOf, IsOpen, Active, Spent, registry, admission, work, world, Closes
<1>1. Closes({}, TRUE)
  BY MarkCancellingCloses, KeepsCloses
<1>2. TypeOK'
  BY <1>1 DEF TypeOK, Place
<1>3. Working'
  BY <1>1 DEF TypeOK, Working, Leases, Launches, ClosedTainted, Evidence, OneRunPerRequest, FreshWorkspace, NoRemovalUnderProcess, UntaintedIsClean
<1>4. Leases'
  BY <1>1 DEF TypeOK, Working, Leases, Launches, ClosedTainted, Evidence, OneRunPerRequest, FreshWorkspace, NoRemovalUnderProcess, UntaintedIsClean
<1>5. Launches'
  BY <1>1 DEF TypeOK, Working, Leases, Launches, ClosedTainted, Evidence, OneRunPerRequest, FreshWorkspace, NoRemovalUnderProcess, UntaintedIsClean
<1>6. (live \subseteq launched)'
  BY <1>1 DEF TypeOK, Working, Leases, Launches, ClosedTainted, Evidence, OneRunPerRequest, FreshWorkspace, NoRemovalUnderProcess, UntaintedIsClean
<1>7. ClosedTainted'
  BY <1>1 DEF TypeOK, Working, Leases, Launches, ClosedTainted, Evidence, OneRunPerRequest, FreshWorkspace, NoRemovalUnderProcess, UntaintedIsClean
<1>8. Evidence'
  BY <1>1 DEF TypeOK, Working, Leases, Launches, ClosedTainted, Evidence, OneRunPerRequest, FreshWorkspace, NoRemovalUnderProcess, UntaintedIsClean
<1>9. OneRunPerRequest'
  BY <1>1 DEF TypeOK, Working, Leases, Launches, ClosedTainted, Evidence, OneRunPerRequest, FreshWorkspace, NoRemovalUnderProcess, UntaintedIsClean
<1>10. FreshWorkspace'
  BY <1>1 DEF TypeOK, Working, Leases, Launches, ClosedTainted, Evidence, OneRunPerRequest, FreshWorkspace, NoRemovalUnderProcess, UntaintedIsClean
<1>11. NoRemovalUnderProcess'
  BY <1>1 DEF TypeOK, Working, Leases, Launches, ClosedTainted, Evidence, OneRunPerRequest, FreshWorkspace, NoRemovalUnderProcess, UntaintedIsClean
<1>12. UntaintedIsClean'
  BY <1>1 DEF TypeOK, Working, Leases, Launches, ClosedTainted, Evidence, OneRunPerRequest, FreshWorkspace, NoRemovalUnderProcess, UntaintedIsClean
<1> QED
  BY <1>2, <1>3, <1>4, <1>5, <1>6, <1>7, <1>8, <1>9, <1>10, <1>11, <1>12

LEMMA CancelFailsStep == ASSUME IInv, NEW r \in Run, CancelFails(r) PROVE IInv'
<1> USE DEF IInv, CancelFails, SnapshotOf, IsOpen, Active, Spent, registry, admission, work, world, Closes
<1>1. Closes({}, TRUE)
  BY KeepsCloses
<1>2. TypeOK'
  BY <1>1 DEF TypeOK, Place
<1> QED
  BY <1>1, <1>2 DEF TypeOK, Working, Leases, Launches, ClosedTainted, Evidence, OneRunPerRequest, FreshWorkspace, NoRemovalUnderProcess, UntaintedIsClean

LEMMA CancelSettlesStep == ASSUME IInv, NEW r \in Run, CancelSettles(r) PROVE IInv'
<1> USE DEF IInv, CancelSettles, SnapshotOf, IsOpen, Active, Spent, registry, admission, work, world, Closes
<1>1. Closes({}, TRUE)
  BY KeepsCloses
<1>2. TypeOK'
  BY <1>1 DEF TypeOK, Place
<1> QED
  BY <1>1, <1>2 DEF TypeOK, Working, Leases, Launches, ClosedTainted, Evidence, OneRunPerRequest, FreshWorkspace, NoRemovalUnderProcess, UntaintedIsClean

LEMMA CancelTimesOutStep == ASSUME IInv, NEW r \in Run, CancelTimesOut(r) PROVE IInv'
<1> USE DEF IInv, CancelTimesOut, SnapshotOf, IsOpen, Active, Spent, registry, admission, work, world, Closes
<1>1. Closes({r}, TRUE) \/ Closes({}, TRUE)
  BY InterruptCloses, KeepsCloses DEF InterruptUnlessTerminal
<1>2. TypeOK'
  BY <1>1 DEF TypeOK, Place
<1>3. Working'
  BY <1>1 DEF TypeOK, Working, Leases, Launches, ClosedTainted, Evidence, OneRunPerRequest, FreshWorkspace, NoRemovalUnderProcess, UntaintedIsClean
<1>4. Leases'
  BY <1>1 DEF TypeOK, Working, Leases, Launches, ClosedTainted, Evidence, OneRunPerRequest, FreshWorkspace, NoRemovalUnderProcess, UntaintedIsClean
<1>5. Launches'
  BY <1>1 DEF TypeOK, Working, Leases, Launches, ClosedTainted, Evidence, OneRunPerRequest, FreshWorkspace, NoRemovalUnderProcess, UntaintedIsClean
<1>6. (live \subseteq launched)'
  BY <1>1 DEF TypeOK, Working, Leases, Launches, ClosedTainted, Evidence, OneRunPerRequest, FreshWorkspace, NoRemovalUnderProcess, UntaintedIsClean
<1>7. ClosedTainted'
  BY <1>1 DEF TypeOK, Working, Leases, Launches, ClosedTainted, Evidence, OneRunPerRequest, FreshWorkspace, NoRemovalUnderProcess, UntaintedIsClean
<1>8. Evidence'
  BY <1>1 DEF TypeOK, Working, Leases, Launches, ClosedTainted, Evidence, OneRunPerRequest, FreshWorkspace, NoRemovalUnderProcess, UntaintedIsClean
<1>9. OneRunPerRequest'
  BY <1>1 DEF TypeOK, Working, Leases, Launches, ClosedTainted, Evidence, OneRunPerRequest, FreshWorkspace, NoRemovalUnderProcess, UntaintedIsClean
<1>10. FreshWorkspace'
  BY <1>1 DEF TypeOK, Working, Leases, Launches, ClosedTainted, Evidence, OneRunPerRequest, FreshWorkspace, NoRemovalUnderProcess, UntaintedIsClean
<1>11. NoRemovalUnderProcess'
  BY <1>1 DEF TypeOK, Working, Leases, Launches, ClosedTainted, Evidence, OneRunPerRequest, FreshWorkspace, NoRemovalUnderProcess, UntaintedIsClean
<1>12. UntaintedIsClean'
  BY <1>1 DEF TypeOK, Working, Leases, Launches, ClosedTainted, Evidence, OneRunPerRequest, FreshWorkspace, NoRemovalUnderProcess, UntaintedIsClean
<1> QED
  BY <1>2, <1>3, <1>4, <1>5, <1>6, <1>7, <1>8, <1>9, <1>10, <1>11, <1>12

LEMMA ProcessesEndStep == ASSUME IInv, NEW r \in Run, ProcessesEnd(r) PROVE IInv'
<1> USE DEF IInv, ProcessesEnd, SnapshotOf, IsOpen, Active, Spent, registry, admission, work, world, Closes
<1>1. Closes({}, TRUE)
  BY KeepsCloses
<1>2. TypeOK'
  BY <1>1 DEF TypeOK, Place
<1> QED
  BY <1>1, <1>2 DEF TypeOK, Working, Leases, Launches, ClosedTainted, Evidence, OneRunPerRequest, FreshWorkspace, NoRemovalUnderProcess, UntaintedIsClean

LEMMA CrashStep == ASSUME IInv, Crash PROVE IInv'
<1> USE DEF IInv, Crash, SnapshotOf, IsOpen, Active, Spent, registry, admission, work, world, Closes
<1>1. Closes({}, TRUE)
  BY KeepsCloses
<1>2. TypeOK'
  BY <1>1 DEF TypeOK, Place
<1> QED
  BY <1>1, <1>2 DEF TypeOK, Working, Leases, Launches, ClosedTainted, Evidence, OneRunPerRequest, FreshWorkspace, NoRemovalUnderProcess, UntaintedIsClean

LEMMA BootStep == ASSUME IInv, Boot PROVE IInv'
<1> USE DEF IInv, Boot, SnapshotOf, IsOpen, Active, Spent, registry, admission, work, world, Closes
<1>1. Closes(Run, TRUE)
  BY RecoverCloses
<1>2. TypeOK'
  BY <1>1 DEF TypeOK, Place
<1>3. Working'
  BY <1>1 DEF TypeOK, Working, Leases, Launches, ClosedTainted, Evidence, OneRunPerRequest, FreshWorkspace, NoRemovalUnderProcess, UntaintedIsClean
<1>4. Leases'
  BY <1>1 DEF TypeOK, Working, Leases, Launches, ClosedTainted, Evidence, OneRunPerRequest, FreshWorkspace, NoRemovalUnderProcess, UntaintedIsClean
<1>5. Launches'
  BY <1>1 DEF TypeOK, Working, Leases, Launches, ClosedTainted, Evidence, OneRunPerRequest, FreshWorkspace, NoRemovalUnderProcess, UntaintedIsClean
<1>6. (live \subseteq launched)'
  BY <1>1 DEF TypeOK, Working, Leases, Launches, ClosedTainted, Evidence, OneRunPerRequest, FreshWorkspace, NoRemovalUnderProcess, UntaintedIsClean
<1>7. ClosedTainted'
  BY <1>1 DEF TypeOK, Working, Leases, Launches, ClosedTainted, Evidence, OneRunPerRequest, FreshWorkspace, NoRemovalUnderProcess, UntaintedIsClean
<1>8. Evidence'
  BY <1>1 DEF TypeOK, Working, Leases, Launches, ClosedTainted, Evidence, OneRunPerRequest, FreshWorkspace, NoRemovalUnderProcess, UntaintedIsClean
<1>9. OneRunPerRequest'
  BY <1>1 DEF TypeOK, Working, Leases, Launches, ClosedTainted, Evidence, OneRunPerRequest, FreshWorkspace, NoRemovalUnderProcess, UntaintedIsClean
<1>10. FreshWorkspace'
  BY <1>1 DEF TypeOK, Working, Leases, Launches, ClosedTainted, Evidence, OneRunPerRequest, FreshWorkspace, NoRemovalUnderProcess, UntaintedIsClean
<1>11. NoRemovalUnderProcess'
  BY <1>1 DEF TypeOK, Working, Leases, Launches, ClosedTainted, Evidence, OneRunPerRequest, FreshWorkspace, NoRemovalUnderProcess, UntaintedIsClean
<1>12. UntaintedIsClean'
  BY <1>1 DEF TypeOK, Working, Leases, Launches, ClosedTainted, Evidence, OneRunPerRequest, FreshWorkspace, NoRemovalUnderProcess, UntaintedIsClean
<1> QED
  BY <1>2, <1>3, <1>4, <1>5, <1>6, <1>7, <1>8, <1>9, <1>10, <1>11, <1>12
-----------------------------------------------------------------------------
\* The invariant is inductive.
LEMMA Initially == Init => IInv
BY DEF Init, IInv, Ledger!Init, Ledger!Known, Ledger!OpenRuns, TypeOK, Place, Working, Leases, Launches,
       ClosedTainted, Evidence, OneRunPerRequest, FreshWorkspace, NoRemovalUnderProcess,
       UntaintedIsClean, Active, IsOpen, SnapshotOf

LEMMA Inductive == IInv /\ [Next]_vars => IInv'
<1> SUFFICES ASSUME IInv, [Next]_vars PROVE IInv'
  OBVIOUS
<1>1. CASE \E s \in Snapshot : Prepare(s) \/ Removed(s) \/ RemovalFails(s)
  BY <1>1, PrepareStep, RemovedStep, RemovalFailsStep
<1>2. CASE \E c \in Caller, q \in Request, s \in Snapshot : Submit(c, q, s)
  BY <1>2, SubmitStep
<1>3. CASE \E c \in Caller, r \in Run : Reserve(c, r) \/ Reuse(c, r)
  BY <1>3, ReserveStep, ReuseStep
<1>4. CASE \E c \in Caller : ReserveFails(c)
  BY <1>4, ReserveFailsStep
<1>5. CASE \E r \in Run : Dispatch(r)
  BY <1>5, MarkRunningStep, ExamineTerminalStep, ExamineOpenStep, ReleaseSettlesStep, ReleaseTimesOutStep, FinishStep, AbandonStep DEF Dispatch
<1>6. CASE \E r \in Run : MarkFails(r) \/ FinishFails(r) \/ ExecutorThrows(r)
  BY <1>6, MarkFailsStep, FinishFailsStep, ExecutorThrowsStep
<1>7. CASE \E r \in Run, res \in Result : ExecutorReturns(r, res)
  BY <1>7, ExecutorReturnsStep
<1>8. CASE \E r \in Run : Cancel(r) \/ CancelLost(r) \/ CancelMarks(r)
  BY <1>8, CancelStep, CancelLostStep, CancelMarksStep
<1>9. CASE \E r \in Run : CancelFails(r) \/ CancelSettles(r) \/ CancelTimesOut(r) \/ ProcessesEnd(r)
  BY <1>9, CancelFailsStep, CancelSettlesStep, CancelTimesOutStep, ProcessesEndStep
<1>10. CASE Crash \/ Boot
  BY <1>10, CrashStep, BootStep
<1>11. CASE UNCHANGED vars
  BY <1>11 DEF vars, registry, admission, work, world, IInv, TypeOK, Working, Leases, Launches,
    ClosedTainted, Evidence, OneRunPerRequest, FreshWorkspace, NoRemovalUnderProcess,
    UntaintedIsClean, Active, IsOpen, SnapshotOf, Spent, Ledger!Known, Ledger!OpenRuns
<1> QED
  BY <1>1, <1>2, <1>3, <1>4, <1>5, <1>6, <1>7, <1>8, <1>9, <1>10, <1>11 DEF Next

\* The inductive invariant holds in every state of the service.
THEOREM Invariance == Spec => []IInv
<1> QED
  BY Initially, Inductive, PTL DEF Spec

\* Every variable of the service keeps its type.
THEOREM TypeCorrect == Spec => []TypeOK
<1>1. IInv => TypeOK
  BY DEF IInv
<1> QED
  BY <1>1, Invariance, PTL

\* A workspace is never worked in by a second run, whatever callers retry,
\* cancel or wait for: the lease, the quarantine and the removal of
\* SnapshotLifecycleRegistry leave no gap.
THEOREM WorkspaceIsUsedOnce == Spec => []FreshWorkspace
<1>1. IInv => FreshWorkspace
  BY DEF IInv
<1> QED
  BY <1>1, Invariance, PTL

\* Processes of two runs never share a workspace, also when the service died
\* and left some behind.
THEOREM WorkspaceIsExclusive == Spec => []ExclusiveWorkspace
<1>1. IInv => ExclusiveWorkspace
  BY DEF IInv, FreshWorkspace, ExclusiveWorkspace
<1> QED
  BY <1>1, Invariance, PTL

\* A request is executed at most once across retries, crashes and restarts.
THEOREM RequestIsExecutedOnce == Spec => []ExecutedOnce
<1>1. IInv => ExecutedOnce
  BY DEF IInv, Launches, OneRunPerRequest, ExecutedOnce
<1> QED
  BY <1>1, Invariance, PTL

\* A workspace is not removed, nor being removed, under a living process.
THEOREM RemovalIsSafe == Spec => []NoRemovalUnderProcess
<1>1. IInv => NoRemovalUnderProcess
  BY DEF IInv
<1> QED
  BY <1>1, Invariance, PTL

\* A run recorded without taint left neither process nor workspace.
THEOREM UntaintedMeansClean == Spec => []UntaintedIsClean
<1>1. IInv => UntaintedIsClean
  BY DEF IInv
<1> QED
  BY <1>1, Invariance, PTL

\* A workspace serves one run, outlives its processes, and is gone with an untainted one.
THEOREM WorkspaceStaysSafe == Spec => []WorkspaceIsSafe
<1>1. FreshWorkspace /\ NoRemovalUnderProcess /\ UntaintedIsClean => WorkspaceIsSafe
  BY DEF WorkspaceIsSafe
<1> QED
  BY <1>1, WorkspaceIsUsedOnce, RemovalIsSafe, UntaintedMeansClean, PTL
=============================================================================
