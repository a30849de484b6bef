----------------------- MODULE SurfaceLoomV3Executor -----------------------
(***************************************************************************)
(* packages/service SurfaceLoomV3Executor: one run of a registered v3 case *)
(* as the service executes it.  The case kernel works in a directory of    *)
(* the run and leaves a report bundle in it (ReportBundle); the bundle's   *)
(* files are put into the artifact store (FileArtifactStore), which a      *)
(* client uses at the same time; the run's record is closed with the       *)
(* result.                                                                 *)
(***************************************************************************)
EXTENDS Naturals, Sequences

CONSTANTS Evidence, Required,    \* of the report bundle
          Extra,                 \* artifacts a client puts under the same run
          Digest, DigestOf, None

VARIABLES source, kept, phase, next, entry, flight, file, partial, dir, told,  \* ReportBundle
          manifest, blob, tail, step, known, spoilt, get, put, acked, harmed,          \* FileArtifactStore
          place,    \* where #run is
          root,     \* the directory of the run: none, ours, foreign, removed
          started,  \* kernelStarted
          aborted,  \* the signal of the run
          alive,    \* something the case started works in that directory
          cleanup,  \* what the kernel says of its cleanup
          todo,     \* the files still to be put
          mine,     \* those that were
          result,   \* what execute returns
          record,   \* the run's record
          client    \* the artifact putArtifact is called with

bundleVars == <<source, kept, phase, next, entry, flight, file, partial, dir, told>>
storeVars == <<manifest, blob, tail, step, known, spoilt, get, put, acked, harmed>>
runVars == <<place, root, started, aborted, alive, cleanup, todo, mine, result>>
vars == <<bundleVars, storeVars, runVars, record, client>>

Bundle == INSTANCE ReportBundle
Caller == {"executor", "client"}
BundleFile == Bundle!Item \cup Bundle!View \cup {Bundle!Marker}
Artifact == BundleFile \cup Extra
Store == INSTANCE FileArtifactStore

Verdict == [status : {"passed", "failed", "timedOut", "skipped"},
            origin : {"business", "insufficient", "infrastructure", None}]
Closed == {"completed", "failed", "interrupted"}
Answers == [status : {"completed", "failed", "cancelled"}, passed : BOOLEAN]

ASSUME DataAssumption ==
  /\ Bundle!EvidenceAssumption /\ Store!DigestAssumption /\ Store!ReadingAssumption
  /\ None \notin Extra /\ None \notin Answers

RunTypeOK ==
  /\ place \in {"new", "root", "resolve", "kernel", "report", "collect", "put", "putting",
                "list", "finally", "returned", "gone"}
  /\ root \in {"none", "ours", "foreign", "removed"}
  /\ started \in BOOLEAN /\ aborted \in BOOLEAN /\ alive \in BOOLEAN
  /\ cleanup \in {"unknown", "confirmed", "unconfirmed", "notRequired"}
  /\ todo \subseteq BundleFile /\ mine \subseteq Artifact
  /\ result \in Answers \cup {None}
  /\ record \in [status : {"running"} \cup Closed, passed : BOOLEAN, tainted : BOOLEAN,
                 artifacts : SUBSET Artifact]
  /\ client \in Extra \cup {None}

TypeOK == Bundle!TypeOK /\ Store!TypeOK /\ RunTypeOK

Init == /\ Bundle!Init /\ Store!Init
        /\ place = "new" /\ root \in {"none", "foreign"} /\ started = FALSE
        /\ aborted = FALSE /\ alive = FALSE
        /\ cleanup = "unknown" /\ todo = {} /\ mine = {} /\ result = None
        /\ record = [status |-> "running", passed |-> FALSE, tainted |-> FALSE, artifacts |-> {}]
        /\ client = None

Beside(changed) == UNCHANGED <<bundleVars, record, client>> /\ changed
Only(changed) == Beside(changed) /\ UNCHANGED storeVars
-----------------------------------------------------------------------------
(* #run up to the kernel                                                   *)

Answer(status, passed) == result' = [status |-> status, passed |-> passed]

\* No registration matches, or the work root overlaps the workspace.
NotStarted == /\ place = "new"
              /\ place' = "returned" /\ cleanup' = "notRequired" /\ Answer("failed", FALSE)
              /\ Only(UNCHANGED <<root, started, aborted, alive, todo, mine>>)

\* The catch block: whatever the store lists is the run's.
Catch == place' = "list"

MakeRoot == /\ place = "new"
            /\ \/ root = "none" /\ root' = "ours" /\ place' = "resolve"
               \/ root' = root /\ Catch
            /\ Only(UNCHANGED <<started, aborted, alive, cleanup, todo, mine, result>>)

\* A run aborted by now does not start; resolve may throw, or answer another case.
Resolve == /\ place = "resolve"
           /\ \/ ~aborted /\ place' = "kernel" /\ started' = TRUE /\ alive' = TRUE
              \/ Catch /\ UNCHANGED <<started, alive>>
           /\ Only(UNCHANGED <<root, aborted, cleanup, todo, mine, result>>)

\* runCaseV3 closes the case: a confirmed cleanup leaves nothing alive.
KernelCloses(confirmed) ==
  /\ place = "kernel" /\ place' = "report"
  /\ cleanup' = IF confirmed THEN "confirmed" ELSE "unconfirmed"
  /\ alive' \in IF confirmed THEN {FALSE} ELSE BOOLEAN
  /\ Only(UNCHANGED <<root, started, aborted, todo, mine, result>>)

\* It throws before there is a cleanup to tell of.
KernelThrows == /\ place = "kernel" /\ alive' \in BOOLEAN
                /\ Catch
                /\ Only(UNCHANGED <<root, started, aborted, cleanup, todo, mine, result>>)

Report == /\ place = "report" /\ told = None /\ Bundle!Step
          /\ UNCHANGED <<storeVars, runVars, record, client>>

KernelReturns == /\ place = "report" /\ told # None
                 /\ place' = IF told = "published" THEN "collect" ELSE "list"
                 /\ Only(UNCHANGED <<root, started, aborted, alive, cleanup, todo, mine, result>>)
-----------------------------------------------------------------------------
(* Publication                                                             *)

\* discover: the bundle as it lies in the directory; it may exceed a limit.
Collect == /\ place = "collect"
           /\ \/ /\ todo' = {f \in BundleFile : file[f] # None}
                 /\ place' = IF Bundle!View \cup {Bundle!Marker} \subseteq todo' THEN "put" ELSE "list"
              \/ todo' = todo /\ Catch
           /\ Only(UNCHANGED <<root, started, aborted, alive, cleanup, mine, result>>)

\* One file after the other, in the order of their names.
Following == CHOOSE f \in todo : TRUE

PutNext == /\ place = "put" /\ todo # {}
           /\ Store!Put("executor", Following)
           /\ place' = "putting"
           /\ Beside(UNCHANGED <<root, started, aborted, alive, cleanup, todo, mine, result>>)

\* Mutant: a file that cannot be stored is passed over.
PutSettles_Lenient ==
  /\ place = "putting" /\ todo' = todo \ {Following}
  /\ \/ Store!Told("executor", "stored") /\ place' = "put" /\ mine' = mine \cup {Following}
     \/ Store!Told("executor", "failed") /\ place' = "put" /\ mine' = mine
  /\ Beside(UNCHANGED <<root, started, aborted, alive, cleanup, result>>)

PutSettles == /\ place = "putting" /\ todo' = todo \ {Following}
              /\ \/ Store!Told("executor", "stored") /\ place' = "put" /\ mine' = mine \cup {Following}
                 \/ Store!Told("executor", "failed") /\ Catch /\ mine' = mine
              /\ Beside(UNCHANGED <<root, started, aborted, alive, cleanup, result>>)

\* completedV3Result: the signal is read last.
ResultOf(v) ==
  LET as(status, passed) == [status |-> status, passed |-> passed]
  IN IF aborted THEN as("cancelled", FALSE)
     ELSE CASE v.status = "passed" -> IF v.origin = None THEN as("completed", TRUE) ELSE as("failed", FALSE)
            [] v.status = "failed" -> IF v.origin \in {"business", "insufficient"}
                                        THEN as("completed", FALSE) ELSE as("failed", FALSE)
            [] v.status = "timedOut" -> as("failed", FALSE)
            [] OTHER -> as("completed", FALSE)

\* The verdict the report carries; a case passes only with a confirmed cleanup
\* (CaseExecution).  An artifact the test declares as required may be missing.
Published == /\ place = "put" /\ todo = {}
             /\ \/ /\ place' = "finally"
                   /\ \E v \in Verdict : /\ v.status = "passed" => cleanup = "confirmed"
                                        /\ result' = ResultOf(v)
                \/ Catch /\ result' = result
             /\ Only(UNCHANGED <<root, started, aborted, alive, cleanup, todo, mine>>)

\* The catch block lists what the run has in the store, or nothing if that fails.
List == /\ place = "list"
        /\ mine' \in {{}, IF Store!Listed = None THEN {} ELSE Store!Listed}
        /\ Answer(IF aborted THEN "cancelled" ELSE "failed", FALSE)
        /\ place' = "finally"
        /\ Only(UNCHANGED <<root, started, aborted, alive, cleanup, todo>>)

\* Mutant: no word of a cleanup is taken for a clean one.
MayRemove_Unknown == root = "ours" /\ cleanup # "unconfirmed"

\* removeWork: nothing ran, or the cleanup of what ran is confirmed.
MayRemove == root = "ours" /\ (cleanup = "confirmed" \/ ~started)

\* finally: removing the directory may fail, and then it stays.
Finally == /\ place = "finally"
           /\ place' = "returned"
           /\ root' \in IF MayRemove THEN {"removed", "ours"} ELSE {root}
           /\ Only(UNCHANGED <<started, aborted, alive, cleanup, todo, mine, result>>)
-----------------------------------------------------------------------------
(* The service around it                                                   *)

Close(status, passed, tainted, more) ==
  record' = [status |-> status, passed |-> passed, tainted |-> tainted,
             artifacts |-> record.artifacts \cup more]

\* #dispatch: the result closes a record that is still open; its artifacts are
\* merged with those attached meanwhile.
Finish == /\ place = "returned"
          /\ place' = "gone"
          /\ IF record.status = "running"
               THEN Close(IF result.status = "cancelled" THEN "failed" ELSE result.status, result.passed,
                          cleanup \notin {"confirmed", "notRequired"}, mine)
               ELSE record' = record
          /\ UNCHANGED <<bundleVars, storeVars, client, root, started, aborted, alive, cleanup, todo, mine, result>>

\* cancel, or cleanup of the run, or the service's own deadline.
Abort == /\ place \notin {"returned", "gone"} /\ ~aborted
         /\ aborted' = TRUE
         /\ Only(UNCHANGED <<place, root, started, alive, cleanup, todo, mine, result>>)

\* The deadline of a cancellation closes the record under the executor.
Interrupt == /\ aborted /\ record.status = "running"
             /\ Close("interrupted", FALSE, TRUE, {})
             /\ UNCHANGED <<bundleVars, storeVars, runVars, client>>

\* What the case left behind ends.
Ends == /\ alive /\ place # "kernel" /\ alive' = FALSE
        /\ Only(UNCHANGED <<place, root, started, aborted, cleanup, todo, mine, result>>)

\* PersistentRunService.putArtifact: the store first, then the record.
PutArtifact(a) == /\ client = None
                  /\ Store!Put("client", a)
                  /\ client' = a
                  /\ UNCHANGED <<bundleVars, runVars, record>>

\* Mutant: the record is written however the put ended.
AttachArtifact_Anyway ==
  /\ client # None
  /\ client' = None
  /\ \E how \in {"stored", "failed"} : Store!Told("client", how)
  /\ record' = IF record.status = "running" THEN [record EXCEPT !.artifacts = @ \cup {client}]
                                           ELSE record
  /\ UNCHANGED <<bundleVars, runVars>>

\* attachArtifact: a closed record takes none, and a write of it may fail; the
\* artifact stays in the store.
AttachArtifact == /\ client # None /\ client' = None
                  /\ \/ /\ Store!Told("client", "stored") /\ record.status = "running"
                        /\ record' = [record EXCEPT !.artifacts = @ \cup {client}]
                     \/ Store!Told("client", "stored") /\ record' = record
                     \/ Store!Told("client", "failed") /\ record' = record
                  /\ UNCHANGED <<bundleVars, runVars>>

StoreWorks == /\ Store!Work \/ Store!Damage \/ \E a \in Artifact : Store!Get("client", a)
              /\ UNCHANGED <<bundleVars, runVars, record, client>>

\* A restart reads the files, finds nothing running and interrupts an open record.
Crash == /\ place # "gone" \/ client # None \/ tail # <<>>
         /\ place' = "gone" /\ client' = None
         /\ IF Bundle!Publishing THEN Bundle!Crash ELSE UNCHANGED bundleVars
         /\ Store!Crash
         /\ IF record.status = "running" THEN Close("interrupted", FALSE, TRUE, {}) ELSE record' = record
         /\ UNCHANGED <<root, started, aborted, alive, cleanup, todo, mine, result>>

Next == \/ NotStarted \/ MakeRoot \/ Resolve
        \/ \E c \in BOOLEAN : KernelCloses(c)
        \/ KernelThrows \/ Report \/ KernelReturns
        \/ Collect \/ PutNext \/ PutSettles \/ Published \/ List \/ Finally
        \/ Finish \/ Abort \/ Interrupt \/ Ends
        \/ \E a \in Extra : PutArtifact(a)
        \/ AttachArtifact \/ StoreWorks \/ Crash

Spec == Init /\ [][Next]_vars
-----------------------------------------------------------------------------
(* Properties                                                              *)

\* A directory is whole once it is marked (ReportBundle).
CompleteIsWhole == Bundle!CompleteIsWhole

\* A get answers with what was stored (FileArtifactStore).
StoredIsRead == Store!StoredIsRead

\* What can be seen is whole: a report that is marked, and an artifact that is read.
FilesAreWhole == CompleteIsWhole /\ StoredIsRead

\* A run recorded as completed has its whole bundle on record: the views, the
\* marker and every evidence the report calls captured.
CompletedHasBundle ==
  record.status = "completed" =>
    /\ Bundle!View \cup {Bundle!Marker} \subseteq record.artifacts
    /\ {e \in Bundle!Item : entry[e] = "captured"} \subseteq record.artifacts

\* What a record lists was stored, and is there until somebody damages it: nothing
\* of a put that failed, was not over or was lost in a crash.
RecordedIsStored == record.artifacts \subseteq acked \cup harmed

\* The record of a run is true: completed with its whole bundle, and nothing listed that was
\* not stored (executor.ts, bundle-artifacts.ts, putArtifact).
RecordIsTrue == CompletedHasBundle /\ RecordedIsStored

\* The directory of a run is not removed while something of its case may work in
\* it, and a directory that was there before is nobody's to remove.
WorkIsKept == root = "removed" => ~alive
ForeignStays == /\ dir = "foreign" => dir' = "foreign"
                /\ root = "foreign" => root' = "foreign"
OthersKeepTheirs == [][ForeignStays]_vars

\* Nobody loses a directory: neither the work of a run nor who was there before it.
DirectoriesAreKept == []WorkIsKept /\ OthersKeepTheirs
=============================================================================
