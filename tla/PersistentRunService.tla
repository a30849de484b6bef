------------------------ MODULE PersistentRunService ------------------------
(***************************************************************************)
(* packages/service: AgentTestService.start, PersistentRunService and the  *)
(* SnapshotLifecycleRegistry it leases workspaces from.  A request becomes *)
(* a durable run, the run leases a snapshot, an executor works in it, and  *)
(* its cleanup evidence decides whether the workspace is removed or        *)
(* quarantined.  Callers retry and cancel, the store fails, the service    *)
(* crashes and restarts.                                                   *)
(*                                                                         *)
(* The run store is used through the promise of RunLedger alone: each of   *)
(* its operations happens at once or fails without a trace.                *)
(***************************************************************************)
EXTENDS Integers

CONSTANTS Run, Request, Snapshot, None,
          Caller     \* concurrent callers of AgentTestService.start

VARIABLES
  ledger,      \* the run store (RunLedger)
  tree,        \* tree[s]: the snapshot's directory: unprepared, present, removed
  up,          \* the service process serves calls
  known,       \* snapshots this process has prepared (#snapshots)
  owner,       \* owner[s]: the request s was submitted for (#snapshotOwners)
  lease,       \* lease[s]: the run of the activeLease
  quarantined, \* snapshots the registry has quarantined
  removing,    \* snapshots whose removal is at work (releaseToken)
  start,       \* start[c]: the reservation c waits for
  dispatch,    \* dispatch[r]: where #dispatch of r is; idle: r is not #active
  result,      \* result[r]: what the executor of r returned, while needed
  cancel,      \* cancel[r]: where the cancelPromise of r is
  live,        \* runs whose processes may be alive (outlives the service)
  launched     \* runs whose executor was ever started (history)

registry == <<lease, quarantined, removing>>
admission == <<known, owner, start>>
work == <<dispatch, result, cancel>>
world == <<tree, live, launched>>
vars == <<ledger, up, admission, registry, work, world>>

Ledger == INSTANCE RunLedger WITH Intent <- Snapshot, Artifact <- {}

ASSUME NoneAssumption ==
  None \notin Run /\ None \notin Request /\ None \notin Snapshot /\ None \notin Ledger!Record

Place == {"idle", "mark", "execute", "examine", "release", "finish", "abandon"}
Result == [status : {"completed", "failed"}, safe : BOOLEAN]

TypeOK == /\ ledger \in [Run -> Ledger!Record \cup {None}]
          /\ tree \in [Snapshot -> {"unprepared", "present", "removed"}]
          /\ up \in BOOLEAN
          /\ known \subseteq Snapshot
          /\ owner \in [Snapshot -> Request \cup {None}]
          /\ lease \in [Snapshot -> Run \cup {None}]
          /\ quarantined \subseteq Snapshot
          /\ removing \subseteq Snapshot
          /\ start \in [Caller -> [request : Request, snapshot : Snapshot, first : BOOLEAN]
                                    \cup {None}]
          /\ dispatch \in [Run -> Place]
          /\ result \in [Run -> Result \cup {None}]
          /\ cancel \in [Run -> {"none", "mark", "wait", "spent"}]
          /\ live \subseteq Run
          /\ launched \subseteq Run

Init == /\ Ledger!Init
        /\ tree = [s \in Snapshot |-> "unprepared"]
        /\ up = TRUE
        /\ known = {}
        /\ owner = [s \in Snapshot |-> None]
        /\ lease = [s \in Snapshot |-> None]
        /\ quarantined = {}
        /\ removing = {}
        /\ start = [c \in Caller |-> None]
        /\ dispatch = [r \in Run |-> "idle"]
        /\ result = [r \in Run |-> None]
        /\ cancel = [r \in Run |-> "none"]
        /\ live = {}
        /\ launched = {}
-----------------------------------------------------------------------------
SnapshotOf(r) == ledger[r].intent
IsOpen(r) == r \in Ledger!OpenRuns
Active(r) == dispatch[r] # "idle"
GoTo(r, place) == dispatch' = [dispatch EXCEPT ![r] = place]

\* The dispatch of r is over: the run leaves #active with its cancelPromise.
Over(r) == /\ GoTo(r, "idle")
           /\ cancel' = [cancel EXCEPT ![r] = IF @ = "wait" THEN "wait" ELSE "none"]
           /\ result' = [result EXCEPT ![r] = None]

\* acquire accepts a snapshot that is neither active, releasing nor quarantined.
Leasable(s) == /\ s \in known
               /\ tree[s] = "present"
               /\ lease[s] = None
               /\ s \notin quarantined \cup removing
-----------------------------------------------------------------------------
(* Prepare and start                                                       *)

\* AgentTestService.prepare: the provider's snapshot is ready.
Prepare(s) == /\ up
              /\ tree[s] = "unprepared"
              /\ tree' = [tree EXCEPT ![s] = "present"]
              /\ known' = known \cup {s}
              /\ UNCHANGED <<ledger, up, owner, start, registry, work, live, launched>>

\* AgentTestService.start up to its call of reserve.  A request with a run, an
\* unknown snapshot and a snapshot submitted by another request end at once.
Submit(c, q, s) ==
  /\ up
  /\ start[c] = None
  /\ \A r \in Ledger!Known : ledger[r].request # q
  /\ s \in known
  /\ owner[s] \in {None, q}
  /\ owner' = [owner EXCEPT ![s] = q]
  /\ start' = [start EXCEPT ![c] = [request |-> q, snapshot |-> s, first |-> owner[s] = None]]
  /\ UNCHANGED <<ledger, up, known, registry, work, world>>

\* Mutant: a request that has a run gets another one.
Reserve_Again(c, r) ==
  /\ start[c] # None
  /\ r \notin Ledger!Known
  /\ LET s == start[c].snapshot IN
       /\ ledger' = [ledger EXCEPT ![r] = Ledger!Queued(start[c].request, s)]
       /\ IF Leasable(s) THEN lease' = [lease EXCEPT ![s] = r] /\ GoTo(r, "mark")
                         ELSE lease' = lease /\ GoTo(r, "abandon")
  /\ start' = [start EXCEPT ![c] = None]
  /\ UNCHANGED <<up, known, owner, quarantined, removing, result, cancel, world>>

\* reserve creates the run; in the same turn #dispatch begins and leases.
Reserve(c, r) ==
  /\ start[c] # None
  /\ LET s == start[c].snapshot IN
       /\ Ledger!Reserve(r, start[c].request, s)
       /\ IF Leasable(s) THEN lease' = [lease EXCEPT ![s] = r] /\ GoTo(r, "mark")
                         ELSE lease' = lease /\ GoTo(r, "abandon")
  /\ start' = [start EXCEPT ![c] = None]
  /\ UNCHANGED <<up, known, owner, quarantined, removing, result, cancel, world>>

\* reserve finds the run of a concurrent call: the same intent is answered with
\* it, another intent is a conflict.
Reuse(c, r) ==
  /\ start[c] # None
  /\ r \in Ledger!Known
  /\ ledger[r].request = start[c].request
  /\ LET s == start[c].snapshot IN
       owner' = IF SnapshotOf(r) # s /\ start[c].first THEN [owner EXCEPT ![s] = None] ELSE owner
  /\ start' = [start EXCEPT ![c] = None]
  /\ UNCHANGED <<ledger, up, known, registry, work, world>>

\* reserve fails: the first submission takes its ownership back.
ReserveFails(c) ==
  /\ start[c] # None
  /\ owner' = IF start[c].first THEN [owner EXCEPT ![start[c].snapshot] = None] ELSE owner
  /\ start' = [start EXCEPT ![c] = None]
  /\ UNCHANGED <<ledger, up, known, registry, work, world>>
-----------------------------------------------------------------------------
(* #dispatch                                                               *)

\* markRunning, and execute in the same turn.
MarkRunning(r) == /\ dispatch[r] = "mark"
                  /\ Ledger!MarkRunning(r)
                  /\ GoTo(r, "execute")
                  /\ live' = live \cup {r}
                  /\ launched' = launched \cup {r}
                  /\ UNCHANGED <<up, admission, registry, result, cancel, tree>>

\* The run was cancelled while queued, or the store fails.
MarkFails(r) == /\ dispatch[r] = "mark"
                /\ GoTo(r, "abandon")
                /\ UNCHANGED <<ledger, up, admission, registry, result, cancel, world>>

\* execute returns.  Confirmed cleanup means that nothing of the run is left.
ExecutorReturns(r, res) ==
  /\ dispatch[r] = "execute"
  /\ result' = [result EXCEPT ![r] = res]
  /\ live' = IF res.safe THEN live \ {r} ELSE live
  /\ GoTo(r, "examine")
  /\ UNCHANGED <<ledger, up, admission, registry, cancel, tree, launched>>

ExecutorThrows(r) == /\ dispatch[r] = "execute"
                     /\ GoTo(r, "abandon")
                     /\ UNCHANGED <<ledger, up, admission, registry, result, cancel, world>>

\* Mutant: completeLease forgets the quarantine.
Complete_Forgets(s, safe) == /\ lease' = [lease EXCEPT ![s] = None]
                             /\ quarantined' = quarantined \ {s}

\* completeLease: unsafe evidence quarantines the snapshot.
Complete(s, safe) ==
  /\ lease' = [lease EXCEPT ![s] = None]
  /\ quarantined' = IF safe THEN quarantined \ {s} ELSE quarantined \cup {s}

\* The run was closed by somebody else while its executor worked: the recorded
\* cleanup, not the executor's, goes with the lease.
ExamineTerminal(r) == /\ dispatch[r] = "examine"
                      /\ ~IsOpen(r)
                      /\ Complete(SnapshotOf(r), ~ledger[r].tainted)
                      /\ Over(r)
                      /\ UNCHANGED <<ledger, up, admission, removing, world>>

\* Mutant: the workspace is removed whatever the evidence says.
ExamineOpen_AlwaysReleases(r) ==
  /\ dispatch[r] = "examine"
  /\ IsOpen(r)
  /\ Complete(SnapshotOf(r), TRUE)
  /\ GoTo(r, "release")
  /\ removing' = removing \cup {SnapshotOf(r)}
  /\ UNCHANGED <<ledger, up, admission, result, cancel, world>>

\* The executor's evidence goes with the lease; safe evidence starts the removal
\* of the workspace, unsafe evidence fails a completed run.
ExamineOpen(r) ==
  /\ dispatch[r] = "examine"
  /\ IsOpen(r)
  /\ LET s == SnapshotOf(r)
         safe == result[r].safe
     IN /\ Complete(s, safe)
        /\ IF safe THEN GoTo(r, "release") /\ removing' = removing \cup {s}
                   ELSE GoTo(r, "finish") /\ removing' = removing
        /\ result' = IF safe THEN result ELSE [result EXCEPT ![r].status = "failed"]
  /\ UNCHANGED <<ledger, up, admission, cancel, world>>

\* removeSnapshotTree ends, also after the run has stopped waiting for it.
Removed(s) == /\ s \in removing
              /\ removing' = removing \ {s}
              /\ tree' = [tree EXCEPT ![s] = "removed"]
              /\ UNCHANGED <<ledger, up, admission, lease, quarantined, work, live, launched>>

RemovalFails(s) == /\ s \in removing
                   /\ removing' = removing \ {s}
                   /\ quarantined' = quarantined \cup {s}
                   /\ UNCHANGED <<ledger, up, admission, lease, work, world>>

Unreleased == [status |-> "failed", safe |-> FALSE]

ReleaseSettles(r) ==
  /\ dispatch[r] = "release"
  /\ SnapshotOf(r) \notin removing
  /\ GoTo(r, "finish")
  /\ result' = IF tree[SnapshotOf(r)] = "removed" THEN result
               ELSE [result EXCEPT ![r] = Unreleased]
  /\ UNCHANGED <<ledger, up, admission, registry, cancel, world>>

\* Mutant: a removal that does not end in time does not taint the run.
ReleaseTimesOut_Ignored(r) ==
  /\ dispatch[r] = "release"
  /\ SnapshotOf(r) \in removing
  /\ GoTo(r, "finish")
  /\ UNCHANGED <<ledger, up, admission, registry, result, cancel, world>>

ReleaseTimesOut(r) ==
  /\ dispatch[r] = "release"
  /\ SnapshotOf(r) \in removing
  /\ GoTo(r, "finish")
  /\ result' = [result EXCEPT ![r] = Unreleased]
  /\ UNCHANGED <<ledger, up, admission, registry, cancel, world>>

Finish(r) == /\ dispatch[r] = "finish"
             /\ Ledger!Finish(r, result[r].status, ~result[r].safe)
             /\ Over(r)
             /\ UNCHANGED <<up, admission, registry, world>>

\* The run is terminal already, or the store fails.
FinishFails(r) == /\ dispatch[r] = "finish"
                  /\ GoTo(r, "abandon")
                  /\ UNCHANGED <<ledger, up, admission, registry, result, cancel, world>>

InterruptUnlessTerminal(r) == IF IsOpen(r) THEN Ledger!Interrupt(r) ELSE ledger' = ledger

\* A lease nobody has completed is completed without evidence.
GiveUpLease(r) ==
  LET s == SnapshotOf(r) IN
  IF lease[s] = r THEN Complete(s, FALSE) ELSE UNCHANGED <<lease, quarantined>>

\* The catch of #dispatch; its own interrupt may fail too.
Abandon(r) == /\ dispatch[r] = "abandon"
              /\ InterruptUnlessTerminal(r) \/ ledger' = ledger
              /\ GiveUpLease(r)
              /\ Over(r)
              /\ UNCHANGED <<up, admission, removing, world>>
-----------------------------------------------------------------------------
(* cancel                                                                  *)

\* An active run gets one cancelPromise.
Cancel(r) == /\ up
             /\ IsOpen(r) /\ Active(r)
             /\ cancel[r] = "none"
             /\ cancel' = [cancel EXCEPT ![r] = "mark"]
             /\ UNCHANGED <<ledger, up, admission, registry, dispatch, result, world>>

\* A run that no dispatch owns is interrupted.
CancelLost(r) == /\ up
                 /\ IsOpen(r) /\ ~Active(r)
                 /\ Ledger!Interrupt(r)
                 /\ UNCHANGED <<up, admission, registry, work, world>>

CancelMarks(r) == /\ cancel[r] = "mark"
                  /\ IF IsOpen(r) THEN Ledger!MarkCancelling(r) ELSE ledger' = ledger
                  /\ cancel' = [cancel EXCEPT ![r] = "wait"]
                  /\ UNCHANGED <<up, admission, registry, dispatch, result, world>>

\* The store fails: the promise is forgotten and the caller may try again.
CancelFails(r) == /\ cancel[r] = "mark"
                  /\ cancel' = [cancel EXCEPT ![r] = "none"]
                  /\ UNCHANGED <<ledger, up, admission, registry, dispatch, result, world>>

CancelSettles(r) == /\ cancel[r] = "wait"
                    /\ ~Active(r)
                    /\ cancel' = [cancel EXCEPT ![r] = "none"]
                    /\ UNCHANGED <<ledger, up, admission, registry, dispatch, result, world>>

\* Mutant: the deadline answers the caller and leaves the run as it is.
CancelTimesOut_OnlyAnswers(r) ==
  /\ cancel[r] = "wait"
  /\ Active(r)
  /\ cancel' = [cancel EXCEPT ![r] = "spent"]
  /\ UNCHANGED <<ledger, up, admission, registry, dispatch, result, world>>

\* The deadline passes with the executor or the dispatch still at work.
CancelTimesOut(r) == /\ cancel[r] = "wait"
                     /\ Active(r)
                     /\ \/ /\ InterruptUnlessTerminal(r)
                           /\ cancel' = [cancel EXCEPT ![r] = "spent"]
                        \/ /\ ledger' = ledger
                           /\ cancel' = [cancel EXCEPT ![r] = "none"]
                     /\ UNCHANGED <<up, admission, registry, dispatch, result, world>>
-----------------------------------------------------------------------------
(* The world                                                               *)

\* Processes that nobody controls any more exit.
ProcessesEnd(r) == /\ r \in live
                   /\ dispatch[r] # "execute"
                   /\ live' = live \ {r}
                   /\ UNCHANGED <<ledger, up, admission, registry, work, tree, launched>>

\* The service process dies: files and the processes of its runs remain.
Crash == /\ up
         /\ up' = FALSE
         /\ known' = {}
         /\ owner' = [s \in Snapshot |-> None]
         /\ lease' = [s \in Snapshot |-> None]
         /\ quarantined' = {} /\ removing' = {}
         /\ start' = [c \in Caller |-> None]
         /\ dispatch' = [r \in Run |-> "idle"]
         /\ result' = [r \in Run |-> None]
         /\ cancel' = [r \in Run |-> "none"]
         /\ UNCHANGED <<ledger, world>>

\* PersistentRunService.create recovers the ledger before it serves.
Boot == /\ ~up
        /\ up' = TRUE
        /\ Ledger!RecoverInterrupted
        /\ UNCHANGED <<admission, registry, work, world>>

Dispatch(r) == \/ MarkRunning(r) \/ ExamineTerminal(r) \/ ExamineOpen(r)
               \/ ReleaseSettles(r) \/ ReleaseTimesOut(r) \/ Finish(r) \/ Abandon(r)

Next ==
  \/ \E s \in Snapshot : Prepare(s) \/ Removed(s) \/ RemovalFails(s)
  \/ \E c \in Caller :
       \/ \E q \in Request, s \in Snapshot : Submit(c, q, s)
       \/ \E r \in Run : Reserve(c, r) \/ Reuse(c, r)
       \/ ReserveFails(c)
  \/ \E r \in Run :
       \/ Dispatch(r) \/ MarkFails(r) \/ FinishFails(r)
       \/ \E res \in Result : ExecutorReturns(r, res)
       \/ ExecutorThrows(r)
       \/ Cancel(r) \/ CancelLost(r) \/ CancelMarks(r) \/ CancelFails(r)
       \/ CancelSettles(r) \/ CancelTimesOut(r)
       \/ ProcessesEnd(r)
  \/ Crash \/ Boot

Spec == Init /\ [][Next]_vars

\* A mutation of the store that its caller needed, and that failed.
StoreFault(r) == \/ CancelFails(r)
                 \/ IsOpen(r) /\ ledger' = ledger /\ (Abandon(r) \/ CancelTimesOut(r))
                 \/ IsOpen(r) /\ FinishFails(r)

\* The event loop runs what is ready and its timers; the host restarts the
\* service; a caller who finds a cancelled run open cancels it again; the store
\* fails finitely often.  Nothing makes an executor return or a removal end.
FairSpec == /\ Spec
            /\ WF_vars(Boot)
            /\ \A r \in Run :
                 /\ WF_vars(Dispatch(r))
                 /\ WF_vars(CancelMarks(r))
                 /\ WF_vars(CancelSettles(r))
                 /\ WF_vars(CancelTimesOut(r))
                 /\ WF_vars(Cancel(r))
                 /\ WF_vars(CancelLost(r))
            /\ <>[][~\E r \in Run : StoreFault(r)]_vars
-----------------------------------------------------------------------------
(* Properties                                                              *)

\* Two runs never have processes in one workspace, also after a crash.
ExclusiveWorkspace ==
  \A r, t \in live : SnapshotOf(r) = SnapshotOf(t) => r = t

\* No workspace is leased to a second executor once one has worked in it.
FreshWorkspace ==
  \A r, t \in launched : SnapshotOf(r) = SnapshotOf(t) => r = t

\* A request is executed at most once, whatever is retried, lost or restarted.
ExecutedOnce ==
  \A r, t \in launched : ledger[r].request = ledger[t].request => r = t

\* A workspace is never removed under a process.
NoRemovalUnderProcess ==
  \A r \in live : /\ tree[SnapshotOf(r)] = "present"
                  /\ SnapshotOf(r) \notin removing

\* A run recorded without taint has left nothing: no process, no workspace.
UntaintedIsClean ==
  \A r \in Ledger!Known :
    ~IsOpen(r) /\ ~ledger[r].tainted => r \notin live /\ tree[SnapshotOf(r)] = "removed"

\* A workspace serves one run, is not removed under a process of it, and a run recorded
\* without taint has left neither the one nor the other.
WorkspaceIsSafe == FreshWorkspace /\ NoRemovalUnderProcess /\ UntaintedIsClean

\* The receipt of an interrupted run says that its workspace must remain
\* quarantined: from then on nobody removes it.
InterruptedKeepsWorkspace ==
  [][\A r \in Ledger!Known :
       ledger[r].status = "interrupted" /\ tree[SnapshotOf(r)] = "present"
         => tree'[SnapshotOf(r)] = "present"]_vars

\* A cancelled run is over in the end, also when its executor never returns, the
\* store failed in between or the service crashed.
CancelEnds ==
  \A r \in Run : (r \in Ledger!Known /\ ledger[r].status = "cancelling") ~> ~IsOpen(r)
=============================================================================
