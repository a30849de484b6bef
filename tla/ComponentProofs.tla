-------------------------- MODULE ComponentProofs --------------------------
(***************************************************************************)
(* What is proved of the components that runs child_processes and           *)
(* components check, for every value of their constants.  A section is      *)
(* about one of them and calls the variables by the names they have there;  *)
(* it ends with what holds of every behaviour that picks that component.    *)
(***************************************************************************)
EXTENDS Components, FiniteSetTheorems, FunctionTheorems, SequenceTheorems, TLAPS

-----------------------------------------------------------------------------
(* A behaviour is of one component                                         *)

LEMMA OneIsPicked ==
  ASSUME [Next]_allVars
  PROVE  /\ picked' = picked
         /\ picked = "command" => [Command!Next]_(Command!vars)
         /\ picked = "transport" => [Transport!Next]_(Transport!vars)
         /\ picked = "fixtures" => [Fixtures!Next]_(Fixtures!fixtureVars)
         /\ picked = "guarded" => [Guarded!Next]_(Guarded!guardVars)
         /\ picked = "evidence" => [Graph!Next]_(Graph!evidenceVars)
         /\ picked = "browser" => [Browser!Next]_(Browser!browserVars)
         /\ picked = "artifacts" => [Artifacts!Next]_(Artifacts!artifactVars)
         /\ picked = "workspace" => [Workspace!Next]_(Workspace!workspaceVars)
         /\ picked = "facade" => [Facade!Next]_(Facade!serviceVars)
         /\ picked = "surface" => [Surface!Next]_(Surface!surfaceVars)
         /\ picked = "binding" => [Binding!Next]_(Binding!bindingVars)
         /\ picked = "judge" => [Router!Next]_(Router!vars)
         /\ picked = "live" => [Live!Next]_(Live!runVars)
         /\ picked = "runner" => [Runner!Next]_(Runner!vars)
         /\ picked = "observations" => [Observations!Next]_(Observations!observationVars)
  <1>1. picked' = picked
    BY DEF Next, allVars
  <1>2. picked = "command" => [Command!Next]_(Command!vars)
    BY DEF Next, Step, allVars, Command!vars, Command!world, Command!observer, Command!run
  <1>3. picked = "transport" => [Transport!Next]_(Transport!vars)
    BY DEF Next, Step, allVars, Transport!vars, Transport!connection, Transport!receipts, Transport!writer, Transport!reader, Transport!host
  <1>4. picked = "fixtures" => [Fixtures!Next]_(Fixtures!fixtureVars)
    BY DEF Next, Step, allVars, Fixtures!fixtureVars
  <1>5. picked = "guarded" => [Guarded!Next]_(Guarded!guardVars)
    BY DEF Next, Step, allVars, Guarded!guardVars
  <1>6. picked = "evidence" => [Graph!Next]_(Graph!evidenceVars)
    BY DEF Next, Step, allVars, Graph!evidenceVars
  <1>7. picked = "browser" => [Browser!Next]_(Browser!browserVars)
    BY DEF Next, Step, allVars, Browser!browserVars
  <1>8. picked = "artifacts" => [Artifacts!Next]_(Artifacts!artifactVars)
    BY DEF Next, Step, allVars, Artifacts!artifactVars
  <1>9. picked = "workspace" => [Workspace!Next]_(Workspace!workspaceVars)
    BY DEF Next, Step, allVars, Workspace!workspaceVars
  <1>10. picked = "facade" => [Facade!Next]_(Facade!serviceVars)
    BY DEF Next, Step, allVars, Facade!serviceVars
  <1>11. picked = "surface" => [Surface!Next]_(Surface!surfaceVars)
    BY DEF Next, Step, allVars, Surface!surfaceVars
  <1>12. picked = "binding" => [Binding!Next]_(Binding!bindingVars)
    BY DEF Next, Step, allVars, Binding!bindingVars
  <1>13. picked = "judge" => [Router!Next]_(Router!vars)
    BY DEF Next, Step, allVars, Router!vars
  <1>14. picked = "live" => [Live!Next]_(Live!runVars)
    BY DEF Next, Step, allVars, Live!runVars, Live!child, Live!ledger
  <1>15. picked = "runner" => [Runner!Next]_(Runner!vars)
    BY DEF Next, Step, allVars, Runner!vars, Runner!kernel
  <1>16. picked = "observations" => [Observations!Next]_(Observations!observationVars)
    BY DEF Next, Step, allVars, Observations!observationVars, Observations!identities
  <1>17. QED
    BY <1>1, <1>2, <1>3, <1>4, <1>5, <1>6, <1>7, <1>8, <1>9, <1>10, <1>11, <1>12, <1>13, <1>14, <1>15, <1>16
-----------------------------------------------------------------------------
(* CommandExecutor                                                         *)

pc == v3
signal == v1
late == v2
proc == v6
exit == v4
spawned == v5
trigger == v7
code == v8
kin == v9
written == v10
failure == v11
out == v12
contained == v13
tree == v14
result == v15

USE DEF pc, signal, late, proc, exit, spawned, trigger, code, kin, written, failure,
        out, contained, tree, result

Before == {"idle", "resolving"}

\* Nothing is known of a process before it is launched, and #run goes on with one.
NothingYet == /\ pc \in Before => /\ proc = "none" /\ exit = None /\ tree = None
                                  /\ trigger = None /\ result = None
              /\ pc \notin Before \cup {"done"} => proc # "none"

\* A process that never ran left nothing behind, and none is handled unlaunched.
KinHasParent == proc \in {"none", "unstarted"} => ~kin

\* The observer's exit receipt is true, and is there before the tree is cleaned.
ExitIsSeen == /\ exit = "exited" => proc = "dead"
              /\ exit # None => proc # "none"
              /\ pc \in {"tree", "drain"} => exit # None

\* A tree confirmed after the exit was seen has no member left.
TreeIsGone == /\ tree # None => pc \in {"drain", "done"} /\ exit # None
              /\ tree = "confirmed" /\ exit = "exited" => ~kin

\* A pipe that ended without a failure was read to its end, and nobody holds it.
EndIsWhole == \A s \in Command!Stream : out[s].over =>
  failure \/ (proc \notin {"none", "alive"} /\ ~kin /\ out[s].seen = written[s])

\* What the result was made of still stands.
ResultStands ==
  /\ result # None => pc = "done"
  /\ result # None /\ result.cleanup = "confirmed" =>
       exit = "exited" /\ tree = "confirmed" /\ Command!StdioTerminal
  /\ result # None /\ result.class \in {"passed", "business_failed"} =>
       /\ result.cleanup = "confirmed"
       /\ \A s \in Command!Stream : out[s].seen = written[s]

\* A contained process is ended by an event that was seen.
IsDecided == contained /\ pc \in {"term", "grace", "kill", "force", "tree", "drain"} => trigger # None

CommandInv == /\ Command!TypeOK /\ NothingYet /\ IsDecided /\ KinHasParent /\ ExitIsSeen
              /\ TreeIsGone /\ EndIsWhole /\ ResultStands
-----------------------------------------------------------------------------
LEMMA CommandInit == Command!Init => CommandInv
  <1> SUFFICES ASSUME Command!Init PROVE CommandInv
    OBVIOUS
  <1>1. 0 \in 0 .. MaxBytes
    BY BytesAssumption
  <1>2. written \in [Command!Stream -> 0 .. MaxBytes] /\ out \in [Command!Stream -> [seen : 0 .. MaxBytes, over : BOOLEAN]]
    BY <1>1 DEF Command!Init
  <1>3. Command!TypeOK
    BY <1>2 DEF Command!Init, Command!TypeOK
  <1>4. \A s \in Command!Stream : ~out[s].over
    BY DEF Command!Init
  <1>5. QED
    BY <1>3, <1>4, CommandNoneAssumption DEF Command!Init, CommandInv, NothingYet, Before, IsDecided, KinHasParent,
      ExitIsSeen, TreeIsGone, EndIsWhole, ResultStands, Command!Exit, Command!Cleanup, Command!Trigger

\* A finished command claims no more than the exit, the tree and the streams show.
LEMMA FinishedIsSound ==
  ASSUME CommandInv, exit # None, contained => trigger # None
  PROVE /\ Command!Finished \in Command!Result
        /\ Command!Finished.cleanup = "confirmed" => exit = "exited" /\ tree = "confirmed" /\ Command!StdioTerminal
        /\ Command!Finished.class \in {"passed", "business_failed"} =>
             /\ Command!Finished.cleanup = "confirmed"
             /\ \A s \in Command!Stream : out[s].seen = written[s]
  <1> USE DEF CommandInv
  <1>1. /\ Command!ProcessCleanup \in Command!Cleanup
        /\ Command!ProcessCleanup = "confirmed" => exit = "exited" /\ tree = "confirmed" /\ Command!StdioTerminal
        /\ exit = "exited" => Command!ProcessCleanup \in {"confirmed", "unconfirmed"}
    BY DEF Command!ProcessCleanup, Command!Cleanup
  <1>2. /\ Command!Classified \in Command!Classification
        /\ Command!Classified \in {"passed", "business_failed"} => ~failure /\ exit = "exited"
    <2>1. CASE ~contained
      BY <2>1 DEF Command!Classified, Command!Classification
    <2>2. CASE contained /\ trigger # "natural"
      BY <2>2 DEF Command!Classified, Command!Classification, Command!TypeOK, Command!Trigger
    <2>3. CASE contained /\ trigger = "natural" /\ failure
      BY <2>3 DEF Command!Classified, Command!Classification
    <2>4. CASE contained /\ trigger = "natural" /\ ~failure
      BY <2>4 DEF Command!Classified, Command!Classification, Command!TypeOK
    <2>5. QED
      BY <2>1, <2>2, <2>3, <2>4 DEF Command!TypeOK
  <1>3. Command!Finished \in Command!Result
    BY <1>1, <1>2 DEF Command!Finished, Command!Result, Command!Classification
  <1>4. /\ Command!Finished.cleanup = Command!ProcessCleanup
        /\ Command!Finished.class \in {"passed", "business_failed"} =>
             Command!Classified \in {"passed", "business_failed"} /\ Command!ProcessCleanup # "unconfirmed"
    BY DEF Command!Finished
  <1>5. Command!ProcessCleanup = "confirmed" /\ ~failure => \A s \in Command!Stream : out[s].seen = written[s]
    BY <1>1 DEF Command!StdioTerminal, EndIsWhole
  <1>6. QED
    BY <1>1, <1>2, <1>3, <1>4, <1>5

\* The steps of #run.
LEMMA RunKeepsIt == ASSUME CommandInv, Command!Run PROVE CommandInv'
  <1> USE CommandNoneAssumption DEF CommandInv, Before, Command!world, Command!observer, Command!run, Command!Exit, Command!Cleanup, Command!Trigger
  <1>1. ASSUME NEW r \in BOOLEAN, Command!Execute(r) PROVE CommandInv'
    <2>1. result' \in Command!Result \cup {None} /\ pc' \in {"done", "resolving"}
      BY <1>1 DEF Command!Execute, Command!Unspawned, Command!Settle, Command!Result, Command!Classification, Command!TypeOK
    <2>2. result' # None => pc' = "done" /\ result'.cleanup = "not-required"
                            /\ result'.class \notin {"passed", "business_failed"}
      BY <1>1 DEF Command!Execute, Command!Unspawned, Command!Settle, NothingYet
    <2>3. QED
      BY <1>1, <2>1, <2>2 DEF Command!Execute, Command!TypeOK, NothingYet, IsDecided, KinHasParent, ExitIsSeen,
        TreeIsGone, EndIsWhole, ResultStands
  <1>2. ASSUME NEW a \in BOOLEAN, Command!NotLaunched(a) PROVE CommandInv'
    <2>1. /\ result' \in Command!Result /\ pc' = "done" /\ result'.cleanup = "not-required"
          /\ result'.class \notin {"passed", "business_failed"}
      BY <1>2 DEF Command!NotLaunched, Command!Unspawned, Command!Settle, Command!Result, Command!Classification, Command!TypeOK
    <2>2. QED
      BY <1>2, <2>1 DEF Command!NotLaunched, Command!TypeOK, NothingYet, IsDecided, KinHasParent, ExitIsSeen,
        TreeIsGone, EndIsWhole, ResultStands
  <1>3. ASSUME NEW started \in BOOLEAN, NEW h \in BOOLEAN, Command!Launch(started, h)
        PROVE CommandInv'
    <2>1. \A s \in Command!Stream : out[s].over => failure \/ proc # "none"
      BY DEF EndIsWhole
    <2>2. QED
      BY <1>3, <2>1 DEF Command!Launch, Command!TypeOK, NothingYet, IsDecided, KinHasParent, ExitIsSeen,
        TreeIsGone, EndIsWhole, ResultStands
  <1>4. ASSUME NEW t \in Command!Trigger, Command!Decide(t) PROVE CommandInv'
    <2>1. Command!TypeOK'
      BY <1>4 DEF Command!Decide, Command!FirstEvent, Command!TypeOK
    <2>2. NothingYet' /\ IsDecided' /\ KinHasParent' /\ ExitIsSeen' /\ TreeIsGone'
      BY <1>4 DEF Command!Decide, Command!FirstEvent, Command!TypeOK, NothingYet, IsDecided, KinHasParent, ExitIsSeen,
        TreeIsGone
    <2>3. EndIsWhole'
      BY <1>4 DEF Command!Decide, Command!FirstEvent, Command!TypeOK, KinHasParent, EndIsWhole
    <2>4. ResultStands'
      BY <1>4 DEF Command!Decide, Command!FirstEvent, Command!TypeOK, ResultStands, Command!StdioTerminal
    <2>5. QED
      BY <2>1, <2>2, <2>3, <2>4
  <1>5. ASSUME NEW outcome \in {"accepted", "refused", "error"}, Command!Signalled(outcome) PROVE CommandInv'
    <2>1. Command!TypeOK'
      BY <1>5 DEF Command!Signalled, Command!TypeOK
    <2>2. NothingYet' /\ IsDecided' /\ KinHasParent' /\ ExitIsSeen' /\ TreeIsGone'
      BY <1>5 DEF Command!Signalled, Command!TypeOK, NothingYet, IsDecided, KinHasParent, ExitIsSeen, TreeIsGone
    <2>3. EndIsWhole'
      BY <1>5 DEF Command!Signalled, Command!TypeOK, KinHasParent, EndIsWhole
    <2>4. ResultStands'
      BY <1>5 DEF Command!Signalled, Command!TypeOK, ResultStands, Command!StdioTerminal
    <2>5. QED
      BY <2>1, <2>2, <2>3, <2>4
  <1>6. ASSUME Command!GraceOver PROVE CommandInv'
    <2>1. Command!TypeOK'
      BY <1>6 DEF Command!GraceOver, Command!AfterTermination, Command!TypeOK
    <2>2. NothingYet' /\ IsDecided' /\ KinHasParent' /\ ExitIsSeen' /\ TreeIsGone'
      BY <1>6 DEF Command!GraceOver, Command!AfterTermination, Command!TypeOK, NothingYet, IsDecided, KinHasParent,
        ExitIsSeen, TreeIsGone
    <2>3. EndIsWhole'
      BY <1>6 DEF Command!GraceOver, Command!AfterTermination, Command!TypeOK, KinHasParent, EndIsWhole
    <2>4. ResultStands'
      BY <1>6 DEF Command!GraceOver, Command!AfterTermination, Command!TypeOK, ResultStands, Command!StdioTerminal
    <2>5. QED
      BY <2>1, <2>2, <2>3, <2>4
  <1>7. ASSUME Command!ForceOver PROVE CommandInv'
    <2>1. Command!TypeOK'
      BY <1>7 DEF Command!ForceOver, Command!AfterTermination, Command!TypeOK
    <2>2. NothingYet' /\ IsDecided' /\ KinHasParent'
      BY <1>7 DEF Command!ForceOver, Command!AfterTermination, NothingYet, IsDecided, KinHasParent
    <2>3. ExitIsSeen' /\ TreeIsGone'
      <3>1. proc # "none" /\ exit' # None /\ (exit' = "exited" => exit = "exited")
        BY <1>7 DEF Command!ForceOver, NothingYet, ExitIsSeen, Command!TypeOK
      <3>2. QED
        BY <1>7, <3>1 DEF Command!ForceOver, Command!AfterTermination, ExitIsSeen, TreeIsGone
    <2>4. EndIsWhole'
      BY <1>7 DEF Command!ForceOver, Command!AfterTermination, Command!TypeOK, KinHasParent, EndIsWhole
    <2>5. ResultStands'
      BY <1>7 DEF Command!ForceOver, Command!AfterTermination, Command!TypeOK, ResultStands, Command!StdioTerminal
    <2>6. QED
      BY <2>1, <2>2, <2>3, <2>4, <2>5
  <1>8. ASSUME NEW outcome \in Command!Cleanup, Command!CleanTree(outcome) PROVE CommandInv'
    <2>1. Command!TypeOK'
      BY <1>8 DEF Command!CleanTree, Command!TypeOK
    <2>2. NothingYet' /\ IsDecided' /\ KinHasParent' /\ ExitIsSeen' /\ TreeIsGone'
      BY <1>8 DEF Command!CleanTree, Command!TypeOK, NothingYet, IsDecided, KinHasParent, ExitIsSeen, TreeIsGone
    <2>3. EndIsWhole'
      BY <1>8 DEF Command!CleanTree, Command!TypeOK, KinHasParent, EndIsWhole
    <2>4. ResultStands'
      BY <1>8 DEF Command!CleanTree, Command!TypeOK, ResultStands, Command!StdioTerminal
    <2>5. QED
      BY <2>1, <2>2, <2>3, <2>4
  <1>9. ASSUME Command!Finish PROVE CommandInv'
    <2>1. exit # None /\ (contained => trigger # None) /\ result' = Command!Finished /\ pc' = "done"
      BY <1>9 DEF Command!Finish, Command!Settle, ExitIsSeen, IsDecided
    <2>2. Command!TypeOK'
      BY <1>9, <2>1, FinishedIsSound DEF Command!Finish, Command!TypeOK
    <2>3. NothingYet' /\ IsDecided' /\ KinHasParent' /\ ExitIsSeen' /\ TreeIsGone' /\ EndIsWhole'
      BY <1>9, <2>1 DEF Command!Finish, NothingYet, IsDecided, KinHasParent, ExitIsSeen, TreeIsGone, EndIsWhole
    <2>4. ResultStands'
      BY <1>9, <2>1, FinishedIsSound DEF Command!Finish, ResultStands, Command!StdioTerminal
    <2>5. QED
      BY <2>2, <2>3, <2>4
  <1>10. QED
    BY <1>1, <1>2, <1>3, <1>4, <1>5, <1>6, <1>7, <1>8, <1>9 DEF Command!Run

\* The steps of the process, of what the observer hears of it, of the caller and the clock.
LEMMA WorldKeepsIt == ASSUME CommandInv, Command!World \/ Command!Abort \/ Command!Expire PROVE CommandInv'
  <1> USE CommandNoneAssumption DEF CommandInv, Before, Command!world, Command!observer, Command!run, Command!Exit, Command!Cleanup, Command!Trigger
  <1>1. ASSUME Command!Fork PROVE CommandInv'
    <2>1. Command!TypeOK'
      BY <1>1 DEF Command!Fork, Command!TypeOK
    <2>2. NothingYet' /\ IsDecided' /\ KinHasParent' /\ ExitIsSeen' /\ TreeIsGone'
      BY <1>1 DEF Command!Fork, Command!TypeOK, NothingYet, IsDecided, KinHasParent, ExitIsSeen, TreeIsGone
    <2>3. EndIsWhole'
      BY <1>1 DEF Command!Fork, Command!TypeOK, KinHasParent, EndIsWhole
    <2>4. ResultStands'
      BY <1>1 DEF Command!Fork, Command!TypeOK, ResultStands, Command!StdioTerminal
    <2>5. QED
      BY <2>1, <2>2, <2>3, <2>4
  <1>2. ASSUME Command!OrphansDie PROVE CommandInv'
    <2>1. Command!TypeOK'
      <3>1. kin' \in BOOLEAN /\ UNCHANGED <<pc, signal, late, proc, code, written, Command!observer, Command!run, result>>
        BY <1>2 DEF Command!OrphansDie
      <3>2. QED
        BY <3>1 DEF Command!TypeOK
    <2>2. NothingYet' /\ IsDecided' /\ KinHasParent' /\ ExitIsSeen' /\ TreeIsGone'
      BY <1>2 DEF Command!OrphansDie, Command!TypeOK, NothingYet, IsDecided, KinHasParent, ExitIsSeen, TreeIsGone
    <2>3. EndIsWhole'
      BY <1>2 DEF Command!OrphansDie, Command!TypeOK, KinHasParent, EndIsWhole
    <2>4. ResultStands'
      BY <1>2 DEF Command!OrphansDie, Command!TypeOK, ResultStands, Command!StdioTerminal
    <2>5. QED
      BY <2>1, <2>2, <2>3, <2>4
  <1>3. ASSUME Command!SpawnObserved PROVE CommandInv'
    <2>1. Command!TypeOK'
      BY <1>3 DEF Command!SpawnObserved, Command!TypeOK
    <2>2. NothingYet' /\ IsDecided' /\ KinHasParent' /\ ExitIsSeen' /\ TreeIsGone'
      BY <1>3 DEF Command!SpawnObserved, Command!TypeOK, NothingYet, IsDecided, KinHasParent, ExitIsSeen,
        TreeIsGone
    <2>3. EndIsWhole'
      BY <1>3 DEF Command!SpawnObserved, Command!TypeOK, KinHasParent, EndIsWhole
    <2>4. ResultStands'
      BY <1>3 DEF Command!SpawnObserved, Command!TypeOK, ResultStands, Command!StdioTerminal
    <2>5. QED
      BY <2>1, <2>2, <2>3, <2>4
  <1>4. ASSUME Command!SpawnError PROVE CommandInv'
    <2>1. Command!TypeOK'
      BY <1>4 DEF Command!SpawnError, Command!TypeOK
    <2>2. NothingYet' /\ IsDecided' /\ KinHasParent' /\ ExitIsSeen' /\ TreeIsGone'
      BY <1>4 DEF Command!SpawnError, Command!TypeOK, NothingYet, IsDecided, KinHasParent, ExitIsSeen, TreeIsGone
    <2>3. EndIsWhole'
      BY <1>4 DEF Command!SpawnError, Command!TypeOK, KinHasParent, EndIsWhole
    <2>4. ResultStands'
      BY <1>4 DEF Command!SpawnError, Command!TypeOK, ResultStands, Command!StdioTerminal
    <2>5. QED
      BY <2>1, <2>2, <2>3, <2>4
  <1>5. ASSUME Command!ExitObserved PROVE CommandInv'
    <2>1. Command!TypeOK'
      BY <1>5 DEF Command!ExitObserved, Command!TypeOK
    <2>2. NothingYet' /\ IsDecided' /\ KinHasParent' /\ ExitIsSeen' /\ TreeIsGone'
      BY <1>5 DEF Command!ExitObserved, Command!TypeOK, NothingYet, IsDecided, KinHasParent, ExitIsSeen,
        TreeIsGone
    <2>3. EndIsWhole'
      BY <1>5 DEF Command!ExitObserved, Command!TypeOK, KinHasParent, EndIsWhole
    <2>4. ResultStands'
      BY <1>5 DEF Command!ExitObserved, Command!TypeOK, ResultStands, Command!StdioTerminal
    <2>5. QED
      BY <2>1, <2>2, <2>3, <2>4
  <1>6. ASSUME NEW c \in Code \cup {None}, Command!Die(c) PROVE CommandInv'
    <2>1. Command!TypeOK'
      BY <1>6 DEF Command!Die, Command!TypeOK
    <2>2. NothingYet' /\ IsDecided' /\ KinHasParent' /\ ExitIsSeen' /\ TreeIsGone'
      BY <1>6 DEF Command!Die, Command!TypeOK, NothingYet, IsDecided, KinHasParent, ExitIsSeen, TreeIsGone
    <2>3. EndIsWhole'
      BY <1>6 DEF Command!Die, Command!TypeOK, KinHasParent, EndIsWhole
    <2>4. ResultStands'
      BY <1>6 DEF Command!Die, Command!TypeOK, ResultStands, Command!StdioTerminal
    <2>5. QED
      BY <2>1, <2>2, <2>3, <2>4
  <1>7. ASSUME NEW s \in Command!Stream, Command!WriteOut(s) PROVE CommandInv'
    <2>1. Command!TypeOK'
      <3>1. written[s] + 1 \in 0 .. MaxBytes
        BY <1>7, BytesAssumption DEF Command!WriteOut, Command!TypeOK
      <3>2. written' \in [Command!Stream -> 0 .. MaxBytes]
        BY <1>7, <3>1 DEF Command!WriteOut, Command!TypeOK
      <3>3. QED
        BY <1>7, <3>2 DEF Command!WriteOut, Command!TypeOK
    <2>2. NothingYet' /\ IsDecided' /\ KinHasParent' /\ ExitIsSeen' /\ TreeIsGone'
      BY <1>7 DEF Command!WriteOut, Command!TypeOK, NothingYet, IsDecided, KinHasParent, ExitIsSeen, TreeIsGone
    <2>3. EndIsWhole'
      BY <1>7 DEF Command!WriteOut, Command!TypeOK, KinHasParent, EndIsWhole
    <2>4. ResultStands'  \* a confirmed end leaves nobody who writes
      BY <1>7 DEF Command!WriteOut, Command!TypeOK, ResultStands, Command!StdioTerminal, ExitIsSeen, TreeIsGone
    <2>5. QED
      BY <2>1, <2>2, <2>3, <2>4
  <1>8. ASSUME NEW s \in Command!Stream, Command!Data(s) PROVE CommandInv'
    <2>1. Command!TypeOK'
      <3>1. out[s].seen + 1 \in 0 .. MaxBytes
        BY <1>8, BytesAssumption DEF Command!Data, Command!TypeOK
      <3>2. out' \in [Command!Stream -> [seen : 0 .. MaxBytes, over : BOOLEAN]]
        BY <1>8, <3>1 DEF Command!Data, Command!TypeOK
      <3>3. QED
        BY <1>8, <3>2 DEF Command!Data, Command!TypeOK
    <2>2. NothingYet' /\ IsDecided' /\ KinHasParent' /\ ExitIsSeen' /\ TreeIsGone'
      BY <1>8 DEF Command!Data, Command!TypeOK, NothingYet, IsDecided, KinHasParent, ExitIsSeen, TreeIsGone
    <2>3. EndIsWhole'
      BY <1>8 DEF Command!Data, Command!TypeOK, KinHasParent, EndIsWhole
    <2>4. ResultStands'
      BY <1>8 DEF Command!Data, Command!TypeOK, ResultStands, Command!StdioTerminal
    <2>5. QED
      BY <2>1, <2>2, <2>3, <2>4
  <1>9. ASSUME NEW s \in Command!Stream, Command!StreamEnds(s) PROVE CommandInv'
    <2>1. Command!TypeOK'
      <3>1. out' \in [Command!Stream -> [seen : 0 .. MaxBytes, over : BOOLEAN]]
        BY <1>9 DEF Command!StreamEnds, Command!TypeOK
      <3>2. QED
        BY <1>9, <3>1 DEF Command!StreamEnds, Command!TypeOK
    <2>2. NothingYet' /\ IsDecided' /\ KinHasParent' /\ ExitIsSeen' /\ TreeIsGone'
      BY <1>9 DEF Command!StreamEnds, Command!Launched, Command!TypeOK, NothingYet, IsDecided, KinHasParent, ExitIsSeen,
        TreeIsGone
    <2>3. EndIsWhole'
      BY <1>9 DEF Command!StreamEnds, Command!Launched, Command!TypeOK, KinHasParent, EndIsWhole
    <2>4. ResultStands'
      BY <1>9 DEF Command!StreamEnds, Command!Launched, Command!TypeOK, ResultStands, Command!StdioTerminal
    <2>5. QED
      BY <2>1, <2>2, <2>3, <2>4
  <1>10. ASSUME NEW s \in Command!Stream, Command!StreamFails(s) PROVE CommandInv'
    <2>1. Command!TypeOK'
      <3>1. out' \in [Command!Stream -> [seen : 0 .. MaxBytes, over : BOOLEAN]]
        BY <1>10 DEF Command!StreamFails, Command!TypeOK
      <3>2. QED
        BY <1>10, <3>1 DEF Command!StreamFails, Command!TypeOK
    <2>2. NothingYet' /\ IsDecided' /\ KinHasParent' /\ ExitIsSeen' /\ TreeIsGone'
      BY <1>10 DEF Command!StreamFails, Command!Launched, Command!TypeOK, NothingYet, IsDecided, KinHasParent, ExitIsSeen,
        TreeIsGone
    <2>3. EndIsWhole'
      BY <1>10 DEF Command!StreamFails, Command!Launched, Command!TypeOK, KinHasParent, EndIsWhole
    <2>4. ResultStands'
      BY <1>10 DEF Command!StreamFails, Command!Launched, Command!TypeOK, ResultStands, Command!StdioTerminal
    <2>5. QED
      BY <2>1, <2>2, <2>3, <2>4
  <1>11. ASSUME Command!Abort PROVE CommandInv'
    <2>1. Command!TypeOK'
      BY <1>11 DEF Command!Abort, Command!TypeOK
    <2>2. NothingYet' /\ IsDecided' /\ KinHasParent' /\ ExitIsSeen' /\ TreeIsGone'
      BY <1>11 DEF Command!Abort, Command!TypeOK, NothingYet, IsDecided, KinHasParent, ExitIsSeen, TreeIsGone
    <2>3. EndIsWhole'
      BY <1>11 DEF Command!Abort, Command!TypeOK, KinHasParent, EndIsWhole
    <2>4. ResultStands'
      BY <1>11 DEF Command!Abort, Command!TypeOK, ResultStands, Command!StdioTerminal
    <2>5. QED
      BY <2>1, <2>2, <2>3, <2>4
  <1>12. ASSUME Command!Expire PROVE CommandInv'
    <2>1. Command!TypeOK'
      BY <1>12 DEF Command!Expire, Command!TypeOK
    <2>2. NothingYet' /\ IsDecided' /\ KinHasParent' /\ ExitIsSeen' /\ TreeIsGone'
      BY <1>12 DEF Command!Expire, Command!TypeOK, NothingYet, IsDecided, KinHasParent, ExitIsSeen, TreeIsGone
    <2>3. EndIsWhole'
      BY <1>12 DEF Command!Expire, Command!TypeOK, KinHasParent, EndIsWhole
    <2>4. ResultStands'
      BY <1>12 DEF Command!Expire, Command!TypeOK, ResultStands, Command!StdioTerminal
    <2>5. QED
      BY <2>1, <2>2, <2>3, <2>4
  <1>13. QED
    BY <1>1, <1>2, <1>3, <1>4, <1>5, <1>6, <1>7, <1>8, <1>9, <1>10, <1>11, <1>12 DEF Command!World

LEMMA CommandStep == ASSUME CommandInv, [Command!Next]_(Command!vars) PROVE CommandInv'
  <1>1. CASE UNCHANGED Command!vars
    BY <1>1 DEF Command!vars, Command!world, Command!observer, Command!run, CommandInv, Command!TypeOK,
      NothingYet, IsDecided, KinHasParent, ExitIsSeen, TreeIsGone, EndIsWhole, ResultStands, Command!StdioTerminal
  <1>2. QED
    BY <1>1, RunKeepsIt, WorldKeepsIt DEF Command!Next

\* The inductive invariant, for every command and every behaviour of its process.
THEOREM CommandIsSound == Spec => [](picked = "command" => CommandInv)
  <1> DEFINE Inv == picked = "command" => CommandInv
  <1>1. Init => Inv
    BY CommandInit DEF Init
  <1>2. Inv /\ [Next]_allVars => Inv'
    BY OneIsPicked, CommandStep
  <1> HIDE DEF Inv
  <1>3. Inv => (picked = "command" => CommandInv)
    BY DEF Inv
  <1>4. QED
    BY <1>1, <1>2, <1>3, PTL DEF Spec

\* The type invariant.
THEOREM CommandIsTyped == Spec => [](picked = "command" => Command!TypeOK)
  <1>1. (picked = "command" => CommandInv) => (picked = "command" => Command!TypeOK)
    BY DEF CommandInv
  <1>2. QED
    BY <1>1, CommandIsSound, PTL

\* A command's result says no more than what is known of its process: a confirmed cleanup
\* means the process and its descendants are gone and its pipes are read, a passed or failed
\* command has said everything it wrote (results.ts).
THEOREM ResultStaysTrue == Spec => []ResultIsTrue
  <1>1. (picked = "command" => CommandInv) => ResultIsTrue
    BY DEF CommandInv, ResultIsTrue, Command!ResultIsTrue, Command!ConfirmedIsGone, Command!VerdictIsWhole,
      ResultStands, ExitIsSeen, TreeIsGone
  <1>2. QED
    BY <1>1, CommandIsSound, PTL

HIDE DEF pc, signal, late, proc, exit, spawned, trigger, code, kin, written, failure,
         out, contained, tree, result

-----------------------------------------------------------------------------
(* NodeTransport                                                           *)

state == v3
closing == v7
opened == v2
notified == v1
closed == v8
exited == v9
ended == v10
accepting == v11
outstanding == v12
write == v13
framing == v14
delivered == v15
sent == v16
silent == v17

USE DEF state, closing, exit, spawned, proc, opened, notified, closed, exited, ended,
        accepting, outstanding, write, framing, delivered, sent, silent

\* The account is of a finite set of bytes, those of the writes without a callback yet.
AccountInv == /\ write \in [HostFrame -> {"new", "refused", "admitted", "timedOut", "settled"}]
              /\ IsFiniteSet(Transport!InStream)
              /\ outstanding = Cardinality(Transport!InStream)
              /\ outstanding <= Maximum

\* A process is there once the transport was opened, and what was seen of it is so.
ReceiptInv ==
  /\ proc \in {"none", "unstarted", "alive", "dead"}
  /\ state = "idle" => proc = "none" /\ exit = None /\ ~notified /\ ~ended /\ closing = "none"
  /\ spawned => proc \in {"alive", "dead"}
  /\ ended => proc # "alive"
  /\ exit = "exited" => proc = "dead"
  /\ exit = "notSpawned" => proc \in {"none", "unstarted"}
  /\ state = "closed" /\ closing = "none" => proc = "none"
  /\ proc = "none" => state \in {"idle", "closed"}
  /\ closed = "confirmed" => proc # "alive" /\ state = "closed"

\* An open connection is not closing, and one whose loss was told delivers no more.
NoticeInv == /\ state \in {"opening", "open"} => closing = "none"
             /\ notified => ~framing

\* The module counts as this one does.
LEMMA SameCount == ASSUME NEW S PROVE Transport!Cardinality(S) = Cardinality(S)
  BY DEF Cardinality, Transport!Cardinality

\* The bytes of one frame are as many as its size.
LEMMA BytesOfFrame ==
  ASSUME NEW f \in HostFrame
  PROVE  /\ IsFiniteSet(Transport!BytesOf(f))
         /\ Cardinality(Transport!BytesOf(f)) = Size[f]
  <1> DEFINE B == Transport!BytesOf(f)
             F == [i \in 1 .. Size[f] |-> <<f, i>>]
  <1>1. Size[f] \in Nat
    BY TransportAssumption
  <1>2. IsFiniteSet(1 .. Size[f]) /\ Cardinality(1 .. Size[f]) = Size[f]
    BY <1>1, FS_Interval
  <1>3. F \in Bijection(1 .. Size[f], B)
    <2>1. F \in [1 .. Size[f] -> B]
      BY DEF Transport!BytesOf
    <2>2. \A i, j \in 1 .. Size[f] : F[i] = F[j] => i = j
      OBVIOUS
    <2>3. \A b \in B : \E i \in 1 .. Size[f] : F[i] = b
      BY DEF Transport!BytesOf
    <2>4. QED
      BY <2>1, <2>2, <2>3, Fun_IsBij
  <1>4. ExistsBijection(1 .. Size[f], B)
    BY <1>3 DEF ExistsBijection
  <1>5. QED
    BY <1>2, <1>4, FS_Bijection

\* A write that is handed over brings its bytes, and its callback takes them back.
LEMMA AccountMoves ==
  ASSUME NEW f \in HostFrame, NEW S \in SUBSET HostFrame, f \notin S,
         NEW B, NEW With, B = UNION {Transport!BytesOf(g) : g \in S},
         With = UNION {Transport!BytesOf(g) : g \in S \cup {f}},
         IsFiniteSet(B) \/ IsFiniteSet(With)
  PROVE  /\ IsFiniteSet(B) /\ IsFiniteSet(With)
         /\ Cardinality(B) \in Nat
         /\ Cardinality(With) = Cardinality(B) + Size[f]
  <1>1. With = B \cup Transport!BytesOf(f)
    OBVIOUS
  <1>2. B \cap Transport!BytesOf(f) = {}
    BY DEF Transport!BytesOf
  <1>3. IsFiniteSet(B)
    <2>1. B \in SUBSET With
      BY <1>1
    <2>2. QED
      BY <2>1, FS_Subset
  <1>4. Cardinality(B \cap Transport!BytesOf(f)) = 0
    BY <1>2, FS_EmptySet
  <1>5. IsFiniteSet(Transport!BytesOf(f)) /\ Cardinality(Transport!BytesOf(f)) = Size[f]
    BY BytesOfFrame
  <1>6. /\ IsFiniteSet(With)
        /\ Cardinality(With) = Cardinality(B) + Size[f] - 0
    BY <1>1, <1>3, <1>4, <1>5, FS_Union
  <1>7. Cardinality(B) \in Nat /\ Size[f] \in Nat
    BY <1>3, FS_CardinalityType, TransportAssumption
  <1>8. QED
    BY <1>3, <1>6, <1>7

LEMMA TransportInit == ASSUME Transport!Init PROVE AccountInv /\ ReceiptInv /\ NoticeInv
  <1>1. Transport!InStream = {}
    BY DEF Transport!Init, Transport!InStream, Transport!InWriter
  <1>2. AccountInv
    BY <1>1, FS_EmptySet, TransportAssumption DEF AccountInv, Transport!Init
  <1>3. QED
    BY <1>2, TransportAssumption DEF Transport!Init, ReceiptInv, NoticeInv

\* What a failure does to the connection.
LEMMA FailDoes ==
  ASSUME Transport!Fail
  PROVE  /\ ~framing'
         /\ \/ /\ state \in {"opening", "open"} /\ notified'
               /\ state' = "closing" /\ closing' = "grace" /\ closed' = closed
            \/ /\ state \notin {"opening", "open"}
               /\ UNCHANGED <<state, closing, closed, notified>>
  <1>1. CASE state \in {"opening", "open"}
    BY <1>1 DEF Transport!Fail, Transport!Shut
  <1>2. CASE state \notin {"opening", "open"}
    BY <1>2 DEF Transport!Fail, Transport!Unshut
  <1>3. QED
    BY <1>1, <1>2

LEMMA AccountStep ==
  ASSUME AccountInv, [Transport!Next]_(Transport!vars)
  PROVE  AccountInv'
  <1>1. ASSUME UNCHANGED <<write, outstanding>> PROVE AccountInv'
    BY <1>1 DEF AccountInv, Transport!InStream, Transport!InWriter
  <1>2. ASSUME NEW f \in HostFrame, NEW drained \in BOOLEAN, Transport!Write(f, drained) PROVE AccountInv'
    <2>1. CASE Transport!Admits(f) /\ drained
      <3>1. /\ write' = [write EXCEPT ![f] = "admitted"] /\ outstanding' = outstanding + Size[f]
            /\ f \notin Transport!InWriter /\ Size[f] <= Maximum - outstanding
        BY <1>2, <2>1 DEF Transport!Write, Transport!Admits, Transport!InWriter
      <3>2. Transport!InWriter' = Transport!InWriter \cup {f}
        BY <3>1 DEF AccountInv, Transport!InWriter
      <3>3. /\ IsFiniteSet(Transport!InStream') /\ Cardinality(Transport!InStream) \in Nat
            /\ Cardinality(Transport!InStream') = Cardinality(Transport!InStream) + Size[f]
        <4>1. Transport!InWriter \in SUBSET HostFrame
          BY DEF Transport!InWriter
        <4>2. QED
          BY <3>1, <3>2, <4>1, AccountMoves DEF AccountInv, Transport!InStream, Transport!BytesOf
      <3>4. write' \in [HostFrame -> {"new", "refused", "admitted", "timedOut", "settled"}]
        BY <3>1 DEF AccountInv
      <3>5. QED
        BY <3>1, <3>3, <3>4, TransportAssumption DEF AccountInv
    <2>2. CASE ~(Transport!Admits(f) /\ drained)
      <3>1. write' = [write EXCEPT ![f] = "refused"] /\ UNCHANGED outstanding /\ write[f] = "new"
        BY <1>2, <2>2 DEF Transport!Write
      <3>2. Transport!InWriter' = Transport!InWriter
        BY <3>1 DEF AccountInv, Transport!InWriter
      <3>3. QED
        BY <3>1, <3>2 DEF AccountInv, Transport!InStream, Transport!BytesOf
    <2>3. QED
      BY <2>1, <2>2
  <1>3. ASSUME NEW f \in HostFrame, Transport!WriteTimesOut(f) PROVE AccountInv'
    <2>1. write' = [write EXCEPT ![f] = "timedOut"] /\ outstanding' = outstanding /\ write[f] = "admitted"
      BY <1>3 DEF Transport!WriteTimesOut
    <2>2. Transport!InWriter' = Transport!InWriter
      BY <2>1 DEF AccountInv, Transport!InWriter
    <2>3. QED
      BY <2>1, <2>2 DEF AccountInv, Transport!InStream, Transport!BytesOf
  <1>4. ASSUME NEW f \in HostFrame, Transport!Written(f) PROVE AccountInv'
    <2>1. write' = [write EXCEPT ![f] = "settled"] /\ outstanding' = outstanding - Size[f] /\ f \in Transport!InWriter
      BY <1>4 DEF Transport!Written, Transport!InWriter
    <2>2. /\ f \notin Transport!InWriter' /\ Transport!InWriter' \in SUBSET HostFrame
          /\ Transport!InWriter = Transport!InWriter' \cup {f}
      BY <2>1 DEF AccountInv, Transport!InWriter
    <2>3. /\ IsFiniteSet(Transport!InStream') /\ Cardinality(Transport!InStream') \in Nat
          /\ Cardinality(Transport!InStream) = Cardinality(Transport!InStream') + Size[f]
      BY <2>2, AccountMoves DEF AccountInv, Transport!InStream, Transport!BytesOf
    <2>4. write' \in [HostFrame -> {"new", "refused", "admitted", "timedOut", "settled"}]
      BY <2>1 DEF AccountInv
    <2>5. Size[f] \in Nat
      BY TransportAssumption
    <2>6. QED
      BY <2>1, <2>3, <2>4, <2>5, TransportAssumption DEF AccountInv
  <1>5. QED
    <2>1. CASE UNCHANGED Transport!vars
      BY <1>1, <2>1 DEF Transport!vars, Transport!writer
    <2>2. CASE Transport!Next
      BY <1>1, <1>2, <1>3, <1>4, <2>2 DEF Transport!Next, Transport!Timers, Transport!Events, Transport!Open,
        Transport!Close, Transport!StartupExpires, Transport!GraceEnds, Transport!ForceEnds, Transport!SpawnObserved,
        Transport!SpawnFails, Transport!ExitObserved, Transport!FrameArrives, Transport!StdoutEnds,
        Transport!StreamFails, Transport!ChildCloses, Transport!HostSends, Transport!HostDies,
        Transport!writer, Transport!reader, Transport!connection
    <2>3. QED
      BY <2>1, <2>2

LEMMA NoticeStep ==
  ASSUME ReceiptInv, NoticeInv, [Transport!Next]_(Transport!vars)
  PROVE  ReceiptInv' /\ NoticeInv' /\ Transport!Told
  <1> USE TransportAssumption DEF ReceiptInv, NoticeInv, Transport!Told, Transport!connection, Transport!receipts, Transport!writer, Transport!reader, Transport!host
  <1>1. CASE UNCHANGED Transport!vars
    BY <1>1 DEF Transport!vars
  <1>2. ASSUME NEW how \in {"throws", "unstarted", "alive"}, Transport!Open(how) PROVE ReceiptInv' /\ NoticeInv' /\ Transport!Told
    <2>1. CASE how = "throws"
      BY <1>2, <2>1 DEF Transport!Open
    <2>2. CASE how # "throws"
      BY <1>2, <2>2 DEF Transport!Open
    <2>3. QED
      BY <2>1, <2>2
  <1>3. ASSUME NEW f \in HostFrame, NEW drained \in BOOLEAN, Transport!Write(f, drained) PROVE ReceiptInv' /\ NoticeInv' /\ Transport!Told
    BY <1>3 DEF Transport!Write
  <1>4. CASE Transport!Close
    BY <1>4 DEF Transport!Close, Transport!Shut
  <1>5. ASSUME NEW f \in HostFrame, Transport!WriteTimesOut(f) PROVE ReceiptInv' /\ NoticeInv' /\ Transport!Told
    BY <1>5, FailDoes DEF Transport!WriteTimesOut
  <1>6. ASSUME NEW f \in HostFrame, Transport!Written(f) PROVE ReceiptInv' /\ NoticeInv' /\ Transport!Told
    BY <1>6 DEF Transport!Written
  <1>7. CASE Transport!GraceEnds
    BY <1>7 DEF Transport!GraceEnds
  <1>8. CASE Transport!ForceEnds
    BY <1>8 DEF Transport!ForceEnds, Transport!Receipt
  <1>9. CASE Transport!StartupExpires
    BY <1>9 DEF Transport!StartupExpires, Transport!Shut
  <1>10. CASE Transport!SpawnObserved
    BY <1>10 DEF Transport!SpawnObserved
  <1>11. CASE Transport!SpawnFails
    BY <1>11 DEF Transport!SpawnFails, Transport!Shut, Transport!Unshut
  <1>12. CASE Transport!ExitObserved
    BY <1>12 DEF Transport!ExitObserved, Transport!Receipt
  <1>13. CASE Transport!StdoutEnds
    BY <1>13, FailDoes DEF Transport!StdoutEnds
  <1>14. CASE Transport!ChildCloses
    BY <1>14, FailDoes DEF Transport!ChildCloses, Transport!Receipt, Transport!Unshut
  <1>15. CASE Transport!FrameArrives
    BY <1>15 DEF Transport!FrameArrives
  <1>16. CASE Transport!StreamFails
    BY <1>16, FailDoes DEF Transport!StreamFails
  <1>17. CASE Transport!HostSends
    BY <1>17 DEF Transport!HostSends
  <1>18. CASE Transport!HostDies
    BY <1>18 DEF Transport!HostDies
  <1>19. QED
    BY <1>1, <1>2, <1>3, <1>4, <1>5, <1>6, <1>7, <1>8, <1>9, <1>10, <1>11, <1>12, <1>13, <1>14, <1>15, <1>16, <1>17, <1>18 DEF Transport!Next, Transport!Timers, Transport!Events

\* For all frames, sizes and limits, the writer's account is the bytes the stream still
\* holds, a receipt is true of the process, and the client is told of a loss once
\* (write-admission.ts, node-child-process-transport.ts, #fail and #shutdown).
THEOREM ConnectionStaysTrue == Spec => ConnectionIsTrue
  <1> DEFINE Inv == picked = "transport" => AccountInv /\ ReceiptInv /\ NoticeInv
  <1>1. Init => Inv
    BY TransportInit DEF Init
  <1>2. Inv /\ [Next]_allVars => Inv' /\ [picked = "transport" => Transport!Told]_allVars
    BY OneIsPicked, AccountStep, NoticeStep DEF allVars, Transport!vars, Transport!connection, Transport!receipts,
      Transport!writer, Transport!reader, Transport!host
  <1>3. Inv => AccountsAreTrue
    <2>1. AccountInv => Transport!AccountIsExact
      BY SameCount DEF AccountInv, Transport!AccountIsExact
    <2>2. ReceiptInv => Transport!ReceiptIsTrue
      BY DEF ReceiptInv, Transport!ReceiptIsTrue
    <2>3. QED
      BY <2>1, <2>2 DEF AccountsAreTrue
  <1> HIDE DEF Inv
  <1>4. QED
    BY <1>1, <1>2, <1>3, PTL DEF Spec, ConnectionIsTrue, LossIsToldOnce

HIDE DEF state, closing, exit, spawned, proc, opened, notified, closed, exited, ended,
         accepting, outstanding, write, framing, delivered, sent, silent

-----------------------------------------------------------------------------
(* FixtureRuntime                                                          *)

order == v1
mode == v2
queue == v3
doing == v4
stack == v5
mark == v6

USE DEF order, mode, queue, doing, stack, mark

Runtimes == TestScope \cup {Worker}
Waiting == [at : Runtimes, uses : Fixture \cup {Fixtures!Nobody}]

\* A call is of a runtime that is not closed, none follows its close, and the worker
\* closes after its test scopes.
QueueInv ==
  /\ mode \in [Runtimes -> {"unborn", "open", "closing", "closed"}]
  /\ queue \in Seq(Waiting)
  /\ \A k \in DOMAIN queue : mode[queue[k].at] \in {"open", "closing"}
  /\ \A k \in DOMAIN queue : queue[k].uses = Fixtures!Nobody =>
       /\ mode[queue[k].at] = "closing"
       /\ \A l \in DOMAIN queue : l > k => queue[l].at # queue[k].at
  /\ mode[Worker] # "unborn"
  /\ mode[Worker] # "open" => \A t \in TestScope : mode[t] \in {"unborn", "closed"}

\* What is resolved is resolved in the runtime of the call or in the worker's.
ResolveInv ==
  /\ doing \in {"nothing", "resolving", "undoing"} /\ mark \in Nat
  /\ stack \in Seq([at : Runtimes \cup {Fixtures!Nobody}, fixture : Fixture])
  /\ doing # "nothing" => queue # <<>> /\ Fixtures!Target # Fixtures!Nobody
  /\ doing = "resolving" => /\ queue[1].uses # Fixtures!Nobody /\ stack # <<>>
                            /\ \A k \in DOMAIN stack : stack[k].at \in {Fixtures!Target, Worker, Fixtures!Nobody}
  /\ doing = "undoing" /\ queue[1].uses = Fixtures!Nobody => mark = 0

\* The worker holds d among its first n fixtures; what t holds of it is among them.
WorkerHas(n, d) == \E j \in 1 .. n : j <= Len(order[Worker]) /\ order[Worker][j] = d
RestsOn(t, n) == \A i \in DOMAIN order[t] : \A k \in DOMAIN DependsOn[order[t][i]] :
  DependsOn[order[t][i]][k] \in WorkerFixture => WorkerHas(n, DependsOn[order[t][i]][k])

\* What r holds stands on what r holds before it and on what the worker holds.
Founded(r) == \A i \in DOMAIN order[r] : \A k \in DOMAIN DependsOn[order[r][i]] :
  LET d == DependsOn[order[r][i]][k] IN
  ~(d \in WorkerFixture /\ r # Worker) => \E j \in 1 .. i - 1 : order[r][j] = d

\* What a rollback in the worker leaves is what the test scopes stand on.
HoldInv ==
  /\ order \in [Runtimes -> Seq(Fixture)]
  /\ \A r \in Runtimes : mode[r] \in {"unborn", "closed"} => order[r] = <<>>
  /\ \A r \in Runtimes : Founded(r)
  /\ \A t \in TestScope : RestsOn(t, Len(order[Worker]))
  /\ doing # "nothing" /\ Fixtures!Target = Worker => \A t \in TestScope : RestsOn(t, mark)

FixtureInv == QueueInv /\ ResolveInv /\ HoldInv

LEMMA FixtureInit == ASSUME Fixtures!Init PROVE FixtureInv
  <1> USE FixtureAssumption DEF Fixtures!Init, Fixtures!Runtime, Runtimes
  <1>1. QueueInv
    BY DEF QueueInv
  <1>2. ResolveInv
    BY DEF ResolveInv
  <1>3. HoldInv
    BY DEF HoldInv, Founded, RestsOn
  <1>4. QED
    BY <1>1, <1>2, <1>3 DEF FixtureInv

LEMMA QueueHolds ==
  ASSUME FixtureInv
  PROVE  \A k \in DOMAIN queue : queue[k] \in Waiting /\ queue[k].at \in Runtimes
                                /\ mode[queue[k].at] \in {"open", "closing"}
  <1>1. queue \in Seq(Waiting) /\ \A k \in DOMAIN queue : mode[queue[k].at] \in {"open", "closing"}
    BY DEF FixtureInv, QueueInv
  <1>2. \A k \in DOMAIN queue : queue[k] \in Waiting
    BY <1>1
  <1>3. QED
    BY <1>1, <1>2 DEF Waiting

\* Nothing changes in what is held while nothing is set up or torn down.
LEMMA HoldStays ==
  ASSUME HoldInv, UNCHANGED order,
         \A q \in Runtimes : mode'[q] \in {"unborn", "closed"} => order[q] = <<>>,
         doing' # "nothing" /\ Fixtures!Target' = Worker => \A t \in TestScope : RestsOn(t, mark')
  PROVE  HoldInv'
  <1>1. \A r \in Runtimes : Founded(r)'
    BY DEF HoldInv, Founded
  <1>2. \A t \in TestScope : RestsOn(t, Len(order[Worker]))'
    <2> SUFFICES ASSUME NEW t \in TestScope PROVE RestsOn(t, Len(order[Worker]))'
      OBVIOUS
    <2>1. RestsOn(t, Len(order[Worker])) /\ order' = order
      BY DEF HoldInv
    <2>2. QED
      BY <2>1 DEF RestsOn, WorkerHas
  <1>3. \A t \in TestScope : RestsOn(t, mark') => RestsOn(t, mark)'
    BY DEF RestsOn, WorkerHas
  <1>4. QED
    BY <1>1, <1>2, <1>3 DEF HoldInv

\* A call that is accepted waits behind the others.
LEMMA Accepted ==
  ASSUME FixtureInv, NEW r \in Runtimes, NEW f \in Fixture \cup {Fixtures!Nobody},
         Fixtures!Enqueue(r, f),
         \/ f # Fixtures!Nobody /\ mode' = mode
         \/ /\ f = Fixtures!Nobody /\ mode' = [mode EXCEPT ![r] = "closing"]
            /\ r = Worker => Fixtures!Children = {}
  PROVE  FixtureInv'
  <1>1. /\ mode[r] = "open" /\ queue' = Append(queue, [at |-> r, uses |-> f])
        /\ UNCHANGED <<order, doing, stack, mark>>
    BY DEF Fixtures!Enqueue
  <1>2. queue \in Seq(Waiting) /\ [at |-> r, uses |-> f] \in Waiting
    BY DEF FixtureInv, QueueInv, Waiting
  <1>3. /\ queue' \in Seq(Waiting) /\ Len(queue') = Len(queue) + 1
        /\ \A k \in DOMAIN queue' : \/ k \in DOMAIN queue /\ queue'[k] = queue[k]
                                    \/ k = Len(queue) + 1 /\ queue'[k] = [at |-> r, uses |-> f]
        /\ \A k \in DOMAIN queue : k \in DOMAIN queue' /\ k # Len(queue) + 1
    BY <1>1, <1>2
  <1>4. mode' \in [Runtimes -> {"unborn", "open", "closing", "closed"}]
    BY DEF FixtureInv, QueueInv
  <1>5. \A q \in Runtimes : \/ mode'[q] = mode[q]
                            \/ q = r /\ mode'[q] = "closing" /\ f = Fixtures!Nobody
    BY DEF FixtureInv, QueueInv
  <1>6. QueueInv'
    <2>1. \A k \in DOMAIN queue' : mode'[queue'[k].at] \in {"open", "closing"}
      <3>1. \A k \in DOMAIN queue : queue[k].at \in Runtimes /\ mode[queue[k].at] \in {"open", "closing"}
        BY QueueHolds
      <3>2. mode'[r] \in {"open", "closing"}
        BY <1>1, <1>5
      <3>3. QED
        BY <1>3, <1>5, <3>1, <3>2
    <2>2. \A k \in DOMAIN queue' : queue'[k].uses = Fixtures!Nobody =>
            /\ mode'[queue'[k].at] = "closing"
            /\ \A l \in DOMAIN queue' : l > k => queue'[l].at # queue'[k].at
      <3> SUFFICES ASSUME NEW k \in DOMAIN queue', queue'[k].uses = Fixtures!Nobody
                   PROVE  /\ mode'[queue'[k].at] = "closing"
                          /\ \A l \in DOMAIN queue' : l > k => queue'[l].at # queue'[k].at
        OBVIOUS
      <3>1. CASE k \in DOMAIN queue /\ queue'[k] = queue[k]
        <4>1. queue[k] \in Waiting
          BY <1>2, <3>1
        <4>2. mode[queue[k].at] = "closing" /\ queue[k].at # r
          BY <1>1, <3>1 DEF FixtureInv, QueueInv
        <4>3. mode'[queue'[k].at] = "closing"
          BY <1>5, <3>1, <4>1, <4>2 DEF Waiting
        <4>4. ASSUME NEW l \in DOMAIN queue', l > k PROVE queue'[l].at # queue'[k].at
          BY <1>3, <3>1, <4>2, <4>4 DEF FixtureInv, QueueInv
        <4>5. QED
          BY <4>3, <4>4
      <3>2. CASE k = Len(queue) + 1 /\ queue'[k] = [at |-> r, uses |-> f]
        <4>1. f = Fixtures!Nobody /\ queue'[k].at = r
          BY <3>2
        <4>2. mode'[r] = "closing"
          BY <4>1 DEF FixtureInv, QueueInv
        <4>3. \A l \in DOMAIN queue' : ~(l > k)
          BY <1>2, <1>3, <3>2
        <4>4. QED
          BY <4>1, <4>2, <4>3
      <3>3. QED
        BY <1>3, <3>1, <3>2
    <2>3. mode'[Worker] # "unborn" /\ (mode'[Worker] # "open" => \A t \in TestScope : mode'[t] \in {"unborn", "closed"})
      <3>1. CASE r = Worker /\ f = Fixtures!Nobody
        <4>1. \A t \in TestScope : mode[t] \notin {"open", "closing"} /\ mode'[t] = mode[t]
          BY <1>5, <3>1, FixtureAssumption DEF Fixtures!Children, Runtimes
        <4>2. \A t \in TestScope : mode[t] \in {"unborn", "open", "closing", "closed"}
          BY DEF FixtureInv, QueueInv, Runtimes
        <4>3. QED
          BY <1>5, <4>1, <4>2 DEF FixtureInv, QueueInv, Runtimes
      <3>2. CASE ~(r = Worker /\ f = Fixtures!Nobody)
        BY <1>1, <1>5, <3>2 DEF FixtureInv, QueueInv, Runtimes
      <3>3. QED
        BY <3>1, <3>2
    <2>4. QED
      BY <1>3, <1>4, <2>1, <2>2, <2>3 DEF QueueInv
  <1>7. doing # "nothing" => queue'[1] = queue[1] /\ queue' # <<>>
    BY <1>1, <1>2 DEF FixtureInv, ResolveInv
  <1>8. doing # "nothing" => Fixtures!Target' = Fixtures!Target
    BY <1>1, <1>2, <1>7 DEF Fixtures!Target, Fixtures!Job, FixtureInv, ResolveInv, Fixtures!RuntimeFor
  <1>9. ResolveInv'
    BY <1>1, <1>7, <1>8 DEF FixtureInv, ResolveInv
  <1>10. HoldInv'
    <2>1. \A q \in Runtimes : mode'[q] \in {"unborn", "closed"} => mode[q] \in {"unborn", "closed"}
      BY <1>5
    <2>2. QED
      BY <1>1, <1>8, <2>1, HoldStays DEF FixtureInv, HoldInv
  <1>11. QED
    BY <1>6, <1>9, <1>10 DEF FixtureInv

LEMMA CallStep ==
  ASSUME FixtureInv
  PROVE  /\ \A t \in TestScope : Fixtures!CreateTestScope(t) => FixtureInv'
         /\ \A r \in Runtimes : Fixtures!Close(r) => FixtureInv'
         /\ \A r \in Runtimes, f \in Fixture : Fixtures!Use(r, f) => FixtureInv'
  <1>1. ASSUME NEW t \in TestScope, Fixtures!CreateTestScope(t) PROVE FixtureInv'
    <2>1. /\ mode[Worker] = "open" /\ mode[t] = "unborn" /\ mode' = [mode EXCEPT ![t] = "open"]
          /\ UNCHANGED <<order, queue, doing, stack, mark>>
      BY <1>1 DEF Fixtures!CreateTestScope
    <2>2. /\ mode' \in [Runtimes -> {"unborn", "open", "closing", "closed"}] /\ mode'[Worker] = "open"
          /\ \A q \in Runtimes : mode'[q] = mode[q] \/ (q = t /\ mode'[q] = "open")
      <3>1. mode \in [Runtimes -> {"unborn", "open", "closing", "closed"}] /\ t \in Runtimes /\ Worker \in Runtimes /\ Worker # t
        BY <1>1, FixtureAssumption DEF FixtureInv, QueueInv, Runtimes
      <3>2. mode' \in [Runtimes -> {"unborn", "open", "closing", "closed"}]
        BY <2>1, <3>1
      <3>3. \A q \in Runtimes : mode'[q] = IF q = t THEN "open" ELSE mode[q]
        BY <2>1, <3>1
      <3>4. mode'[Worker] = "open"
        BY <2>1, <3>1, <3>3
      <3>5. \A q \in Runtimes : mode'[q] = mode[q] \/ (q = t /\ mode'[q] = "open")
        BY <3>3
      <3>6. QED
        BY <3>2, <3>4, <3>5
    <2>3. \A k \in DOMAIN queue : queue[k].at \in Runtimes /\ queue[k].at # t /\ mode'[queue[k].at] = mode[queue[k].at]
      BY <2>1, <2>2, QueueHolds
    <2>4. QueueInv'
      BY <2>1, <2>2, <2>3 DEF FixtureInv, QueueInv
    <2>5. ResolveInv'
      BY <2>1 DEF FixtureInv, ResolveInv, Fixtures!Target, Fixtures!Job, Fixtures!RuntimeFor
    <2>6. Fixtures!Target' = Fixtures!Target
      BY <2>1 DEF Fixtures!Target, Fixtures!Job, Fixtures!RuntimeFor
    <2>7. HoldInv'
      <3>1. \A q \in Runtimes : mode'[q] \in {"unborn", "closed"} => mode[q] \in {"unborn", "closed"}
        BY <2>2
      <3>2. QED
        BY <2>1, <2>6, <3>1, HoldStays DEF FixtureInv, HoldInv
    <2>8. QED
      BY <2>4, <2>5, <2>7 DEF FixtureInv
  <1>2. ASSUME NEW r \in Runtimes, Fixtures!Close(r) PROVE FixtureInv'
    BY <1>2, Accepted DEF Fixtures!Close
  <1>3. ASSUME NEW r \in Runtimes, NEW f \in Fixture, Fixtures!Use(r, f) PROVE FixtureInv'
    <2>1. f # Fixtures!Nobody
      BY FixtureAssumption
    <2>2. QED
      BY <1>3, <2>1, Accepted DEF Fixtures!Use
  <1>4. QED
    BY <1>1, <1>2, <1>3

\* When the first call is over the next one is as it was.
LEMMA CallEnds ==
  ASSUME FixtureInv, queue # <<>>, queue' = Tail(queue),
         \/ mode' = mode
         \/ queue[1].uses = Fixtures!Nobody /\ mode' = [mode EXCEPT ![queue[1].at] = "closed"]
  PROVE  QueueInv'
  <1>1. queue \in Seq(Waiting)
    BY DEF FixtureInv, QueueInv
  <1>2. /\ queue' \in Seq(Waiting) /\ Len(queue') = Len(queue) - 1 /\ Len(queue) \in Nat /\ Len(queue) > 0
        /\ \A k \in DOMAIN queue' : k + 1 \in DOMAIN queue /\ queue'[k] = queue[k + 1] /\ k + 1 > 1
        /\ 1 \in DOMAIN queue
    BY <1>1
  <1>3. mode \in [Runtimes -> {"unborn", "open", "closing", "closed"}] /\ queue[1].at \in Runtimes
    BY <1>2, QueueHolds DEF FixtureInv, QueueInv
  <1>4. /\ mode' \in [Runtimes -> {"unborn", "open", "closing", "closed"}]
        /\ \A q \in Runtimes : \/ mode'[q] = mode[q]
                               \/ q = queue[1].at /\ mode'[q] = "closed" /\ queue[1].uses = Fixtures!Nobody
    BY <1>3
  <1>5. \A k \in DOMAIN queue' : mode'[queue'[k].at] = mode[queue'[k].at]
    <2> SUFFICES ASSUME NEW k \in DOMAIN queue' PROVE mode'[queue'[k].at] = mode[queue'[k].at]
      OBVIOUS
    <2>1. queue[1].uses = Fixtures!Nobody => queue[k + 1].at # queue[1].at
      BY <1>2 DEF FixtureInv, QueueInv
    <2>2. queue'[k] = queue[k + 1] /\ queue[k + 1].at \in Runtimes
      BY <1>2, QueueHolds
    <2>3. QED
      BY <1>4, <2>1, <2>2
  <1>6. \A k \in DOMAIN queue' : mode'[queue'[k].at] \in {"open", "closing"}
    BY <1>2, <1>5, QueueHolds
  <1>7. \A k \in DOMAIN queue' : queue'[k].uses = Fixtures!Nobody =>
          /\ mode'[queue'[k].at] = "closing"
          /\ \A l \in DOMAIN queue' : l > k => queue'[l].at # queue'[k].at
    <2> SUFFICES ASSUME NEW k \in DOMAIN queue', queue'[k].uses = Fixtures!Nobody
                 PROVE  /\ mode'[queue'[k].at] = "closing"
                        /\ \A l \in DOMAIN queue' : l > k => queue'[l].at # queue'[k].at
      OBVIOUS
    <2>1. k + 1 \in DOMAIN queue /\ queue[k + 1].uses = Fixtures!Nobody
      BY <1>2
    <2>2. /\ mode[queue[k + 1].at] = "closing"
          /\ \A l \in DOMAIN queue : l > k + 1 => queue[l].at # queue[k + 1].at
      BY <2>1 DEF FixtureInv, QueueInv
    <2>3. ASSUME NEW l \in DOMAIN queue', l > k PROVE queue'[l].at # queue'[k].at
      <3>1. l + 1 \in DOMAIN queue /\ l + 1 > k + 1
        BY <1>2, <2>3
      <3>2. QED
        BY <1>2, <2>2, <3>1
    <2>4. QED
      BY <1>2, <1>5, <2>2, <2>3
  <1>8. mode[Worker] # "unborn" /\ (mode[Worker] # "open" => \A t \in TestScope : mode[t] \in {"unborn", "closed"})
    BY DEF FixtureInv, QueueInv
  <1>9. mode'[Worker] # "open" => \A t \in TestScope : mode'[t] \in {"unborn", "closed"}
    <2>1. CASE mode'[Worker] = mode[Worker]
      <3>1. \A t \in TestScope : t \in Runtimes
        BY DEF Runtimes
      <3>2. QED
        BY <1>4, <1>8, <2>1, <3>1
    <2>2. CASE queue[1].at = Worker /\ queue[1].uses = Fixtures!Nobody
      <3>1. mode[Worker] = "closing"
        BY <1>2, <2>2 DEF FixtureInv, QueueInv
      <3>2. \A t \in TestScope : t \in Runtimes /\ t # Worker
        BY FixtureAssumption DEF Runtimes
      <3>3. QED
        BY <1>4, <1>8, <2>2, <3>1, <3>2
    <2>3. QED
      BY <1>4, <2>1, <2>2 DEF Runtimes
  <1>10. mode'[Worker] # "unborn"
    BY <1>4, <1>8 DEF Runtimes
  <1>11. QED
    BY <1>2, <1>4, <1>6, <1>7, <1>9, <1>10 DEF QueueInv

\* A fixture that is set up stands on what is there.
LEMMA PushKeeps ==
  ASSUME HoldInv, NEW r \in Runtimes, NEW f \in Fixture,
         order' = [order EXCEPT ![r] = Append(@, f)], mode' = mode, mode[r] \in {"open", "closing"},
         \A k \in DOMAIN DependsOn[f] :
           \/ /\ DependsOn[f][k] \in WorkerFixture
              /\ \E j \in 1 .. Len(order[Worker]) : order[Worker][j] = DependsOn[f][k]
           \/ /\ DependsOn[f][k] \notin WorkerFixture /\ r # Worker
              /\ \E j \in 1 .. Len(order[r]) : order[r][j] = DependsOn[f][k],
         doing' # "nothing" /\ Fixtures!Target' = Worker =>
           r = Worker /\ mark' = mark /\ doing # "nothing" /\ Fixtures!Target = Worker
  PROVE  HoldInv'
  <1>1. /\ order \in [Runtimes -> Seq(Fixture)] /\ Worker \in Runtimes /\ \A t \in TestScope : t \in Runtimes /\ t # Worker
        /\ order[r] \in Seq(Fixture)
    BY FixtureAssumption DEF HoldInv, Runtimes
  <1>2. /\ Append(order[r], f) \in Seq(Fixture) /\ Len(Append(order[r], f)) = Len(order[r]) + 1
        /\ \A i \in 1 .. Len(order[r]) : Append(order[r], f)[i] = order[r][i]
        /\ Append(order[r], f)[Len(order[r]) + 1] = f /\ Len(order[r]) \in Nat
        /\ DOMAIN Append(order[r], f) = 1 .. Len(order[r]) + 1 /\ DOMAIN order[r] = 1 .. Len(order[r])
    BY <1>1
  <1>3. /\ order' \in [Runtimes -> Seq(Fixture)] /\ order'[r] = Append(order[r], f)
        /\ \A q \in Runtimes : q # r => order'[q] = order[q]
    BY <1>1, <1>2
  <1>4. \A q \in Runtimes : Len(order[q]) \in Nat /\ DOMAIN order[q] = 1 .. Len(order[q])
                            /\ Len(order'[q]) \in Nat /\ DOMAIN order'[q] = 1 .. Len(order'[q])
    <2>1. \A q \in Runtimes : order[q] \in Seq(Fixture) /\ order'[q] \in Seq(Fixture)
      BY <1>1, <1>3
    <2>2. QED
      BY <2>1
  <1>5. \A q \in Runtimes : Len(order'[q]) >= Len(order[q])
                            /\ \A i \in 1 .. Len(order[q]) : order'[q][i] = order[q][i]
    BY <1>2, <1>3, <1>4
  <1>6. \A n \in Nat, d \in Fixture : WorkerHas(n, d) => (\E j \in 1 .. n : j <= Len(order'[Worker]) /\ order'[Worker][j] = d)
    BY <1>1, <1>4, <1>5 DEF WorkerHas
  <1>7. \A q \in Runtimes : Founded(q)'
    <2> SUFFICES ASSUME NEW q \in Runtimes, NEW i \in DOMAIN order'[q], NEW k \in DOMAIN DependsOn[order'[q][i]],
                        ~(DependsOn[order'[q][i]][k] \in WorkerFixture /\ q # Worker)
                 PROVE  \E j \in 1 .. i - 1 : order'[q][j] = DependsOn[order'[q][i]][k]
      BY DEF Founded
    <2>1. CASE i \in DOMAIN order[q]
      <3>1. order'[q][i] = order[q][i] /\ i \in 1 .. Len(order[q])
        BY <1>4, <1>5, <2>1
      <3>2. \E j \in 1 .. i - 1 : order[q][j] = DependsOn[order[q][i]][k]
        BY <2>1, <3>1 DEF HoldInv, Founded
      <3>3. QED
        BY <1>4, <1>5, <3>1, <3>2
    <2>2. CASE i \notin DOMAIN order[q]
      <3>1. q = r /\ i = Len(order[r]) + 1 /\ order'[q][i] = f
        BY <1>2, <1>3, <1>4, <2>2
      <3>2. \E j \in 1 .. Len(order[r]) : order[r][j] = DependsOn[f][k]
        BY <3>1
      <3>3. QED
        BY <1>2, <1>3, <3>1, <3>2
    <2>3. QED
      BY <2>1, <2>2
  <1>8. \A t \in TestScope : RestsOn(t, Len(order[Worker]))'
    <2> SUFFICES ASSUME NEW t \in TestScope, NEW i \in DOMAIN order'[t], NEW k \in DOMAIN DependsOn[order'[t][i]],
                        DependsOn[order'[t][i]][k] \in WorkerFixture
                 PROVE  \E j \in 1 .. Len(order'[Worker]) : j <= Len(order'[Worker]) /\ order'[Worker][j] = DependsOn[order'[t][i]][k]
      BY DEF RestsOn, WorkerHas
    <2>1. \E j \in 1 .. Len(order[Worker]) : order[Worker][j] = DependsOn[order'[t][i]][k]
      <3>1. CASE i \in DOMAIN order[t]
        <4>1. order'[t][i] = order[t][i]
          BY <1>1, <1>4, <1>5, <3>1
        <4>2. RestsOn(t, Len(order[Worker])) /\ k \in DOMAIN DependsOn[order[t][i]]
          BY <4>1 DEF HoldInv
        <4>3. WorkerHas(Len(order[Worker]), DependsOn[order[t][i]][k])
          BY <3>1, <4>1, <4>2 DEF RestsOn
        <4>4. QED
          BY <4>1, <4>3 DEF WorkerHas
      <3>2. CASE i \notin DOMAIN order[t]
        <4>1. t = r /\ order'[t][i] = f
          BY <1>1, <1>2, <1>3, <1>4, <3>2
        <4>2. QED
          BY <4>1
      <3>3. QED
        BY <3>1, <3>2
    <2>2. QED
      BY <1>1, <1>4, <1>5, <2>1
  <1>9. ASSUME doing' # "nothing", Fixtures!Target' = Worker, NEW t \in TestScope PROVE RestsOn(t, mark)'
    <2>1. order'[t] = order[t] /\ r = Worker /\ mark' = mark /\ RestsOn(t, mark)
      BY <1>1, <1>3, <1>9 DEF HoldInv
    <2>2. ASSUME NEW d, WorkerHas(mark, d) PROVE \E j \in 1 .. mark' : j <= Len(order'[Worker]) /\ order'[Worker][j] = d
      <3>1. PICK j \in 1 .. mark : j <= Len(order[Worker]) /\ order[Worker][j] = d
        BY <2>2 DEF WorkerHas
      <3>2. j \in 1 .. Len(order[Worker])
        BY <1>1, <1>4, <3>1
      <3>3. QED
        BY <1>1, <1>4, <1>5, <2>1, <3>1, <3>2
    <2>3. SUFFICES ASSUME NEW i \in DOMAIN order'[t], NEW k \in DOMAIN DependsOn[order'[t][i]],
                          DependsOn[order'[t][i]][k] \in WorkerFixture
                   PROVE  \E j \in 1 .. mark' : j <= Len(order'[Worker]) /\ order'[Worker][j] = DependsOn[order'[t][i]][k]
      BY DEF RestsOn, WorkerHas
    <2>4. WorkerHas(mark, DependsOn[order'[t][i]][k])
      BY <2>1, <2>3 DEF RestsOn
    <2>5. QED
      BY <2>2, <2>4
  <1>10. \A q \in Runtimes : mode'[q] \in {"unborn", "closed"} => order'[q] = <<>>
    BY <1>3 DEF HoldInv
  <1>11. QED
    BY <1>3, <1>7, <1>8, <1>9, <1>10 DEF HoldInv

LEMMA PopIs ==
  ASSUME NEW S, NEW s \in Seq(S), s # <<>>
  PROVE  /\ Fixtures!Pop(s) \in Seq(S) /\ Len(Fixtures!Pop(s)) = Len(s) - 1
         /\ \A i \in 1 .. Len(s) - 1 : Fixtures!Pop(s)[i] = s[i]
         /\ Len(s) \in Nat /\ Len(s) > 0
  <1>1. Len(s) \in Nat /\ Len(s) > 0 /\ \A i \in 1 .. Len(s) - 1 : s[i] \in S
    OBVIOUS
  <1>2. /\ SubSeq(s, 1, Len(s) - 1) \in Seq(S) /\ Len(SubSeq(s, 1, Len(s) - 1)) = Len(s) - 1
        /\ \A i \in 1 .. Len(s) - 1 : SubSeq(s, 1, Len(s) - 1)[i] = s[i]
    <2> DEFINE n == Len(s) - 1
    <2>1. n \in Int /\ 1 <= n + 1 /\ (\A i \in 1 .. n : s[i] \in S) /\ n - 1 + 1 = n
      BY <1>1
    <2> HIDE DEF n
    <2>2. /\ SubSeq(s, 1, n) \in Seq(S) /\ Len(SubSeq(s, 1, n)) = IF 1 <= n THEN n - 1 + 1 ELSE 0
          /\ \A i \in 1 .. n - 1 + 1 : SubSeq(s, 1, n)[i] = s[1 + i - 1]
      BY <2>1, SubSeqProperties
    <2>3. (\A i \in 1 .. n : SubSeq(s, 1, n)[i] = s[i]) /\ Len(SubSeq(s, 1, n)) = n
      BY <2>1, <2>2
    <2>4. QED
      BY <2>2, <2>3 DEF n
  <1>3. QED
    BY <1>1, <1>2 DEF Fixtures!Pop

\* What a rollback takes away nothing stands on.
LEMMA PopKeeps ==
  ASSUME HoldInv, NEW r \in Runtimes, mark \in Nat, Len(order[r]) > mark,
         doing # "nothing", Fixtures!Target = r, Fixtures!Target' = r,
         order' = [order EXCEPT ![r] = Fixtures!Pop(@)], mode' = mode, mark' = mark
  PROVE  HoldInv'
  <1>1. /\ order \in [Runtimes -> Seq(Fixture)] /\ Worker \in Runtimes /\ \A t \in TestScope : t \in Runtimes /\ t # Worker
        /\ order[r] \in Seq(Fixture)
    BY FixtureAssumption DEF HoldInv, Runtimes
  <1>2. /\ Fixtures!Pop(order[r]) \in Seq(Fixture) /\ Len(Fixtures!Pop(order[r])) = Len(order[r]) - 1
        /\ \A i \in 1 .. Len(order[r]) - 1 : Fixtures!Pop(order[r])[i] = order[r][i]
        /\ Len(order[r]) \in Nat /\ Len(order[r]) > 0
    <2>1. order[r] # <<>>
      BY <1>1
    <2>2. QED
      BY <1>1, <2>1, PopIs
  <1>3. /\ order' \in [Runtimes -> Seq(Fixture)] /\ order'[r] = Fixtures!Pop(order[r])
        /\ \A q \in Runtimes : q # r => order'[q] = order[q]
    BY <1>1, <1>2
  <1>4. \A q \in Runtimes : Len(order[q]) \in Nat /\ DOMAIN order[q] = 1 .. Len(order[q])
                            /\ Len(order'[q]) \in Nat /\ DOMAIN order'[q] = 1 .. Len(order'[q])
    <2>1. \A q \in Runtimes : order[q] \in Seq(Fixture) /\ order'[q] \in Seq(Fixture)
      BY <1>1, <1>3
    <2>2. QED
      BY <2>1
  <1>5. \A q \in Runtimes : Len(order'[q]) <= Len(order[q])
                            /\ \A i \in 1 .. Len(order'[q]) : order'[q][i] = order[q][i]
    BY <1>2, <1>3, <1>4
  <1>6. mark <= Len(order'[r])
    BY <1>2, <1>3
  <1>7. \A q \in Runtimes : Founded(q)'
    <2> SUFFICES ASSUME NEW q \in Runtimes, NEW i \in DOMAIN order'[q], NEW k \in DOMAIN DependsOn[order'[q][i]],
                        ~(DependsOn[order'[q][i]][k] \in WorkerFixture /\ q # Worker)
                 PROVE  \E j \in 1 .. i - 1 : order'[q][j] = DependsOn[order'[q][i]][k]
      BY DEF Founded
    <2>1. order'[q][i] = order[q][i] /\ i \in 1 .. Len(order[q]) /\ i \in 1 .. Len(order'[q]) /\ i \in DOMAIN order[q]
      BY <1>4, <1>5
    <2>2. PICK j \in 1 .. i - 1 : order[q][j] = DependsOn[order[q][i]][k]
      <3>1. Founded(q) /\ k \in DOMAIN DependsOn[order[q][i]]
        BY <2>1 DEF HoldInv
      <3>2. QED
        BY <2>1, <3>1 DEF Founded
    <2>3. QED
      BY <1>4, <1>5, <2>1, <2>2
  <1>8. \A t \in TestScope : \A i \in DOMAIN order'[t] : i \in DOMAIN order[t] /\ order'[t][i] = order[t][i]
    BY <1>1, <1>4, <1>5
  <1>9. ASSUME r = Worker, NEW t \in TestScope, NEW n \in Nat, n >= mark
        PROVE  \A i \in DOMAIN order'[t] : \A k \in DOMAIN DependsOn[order'[t][i]] :
                 DependsOn[order'[t][i]][k] \in WorkerFixture =>
                   \E j \in 1 .. n : j <= Len(order'[Worker]) /\ order'[Worker][j] = DependsOn[order'[t][i]][k]
    <2> SUFFICES ASSUME NEW i \in DOMAIN order'[t], NEW k \in DOMAIN DependsOn[order'[t][i]],
                        DependsOn[order'[t][i]][k] \in WorkerFixture
                 PROVE  \E j \in 1 .. n : j <= Len(order'[Worker]) /\ order'[Worker][j] = DependsOn[order'[t][i]][k]
      OBVIOUS
    <2>1. order'[t][i] = order[t][i] /\ i \in DOMAIN order[t] /\ RestsOn(t, mark)
      BY <1>8, <1>9 DEF HoldInv
    <2>2. WorkerHas(mark, DependsOn[order[t][i]][k])
      BY <2>1 DEF RestsOn
    <2>3. PICK j \in 1 .. mark : j <= Len(order[Worker]) /\ order[Worker][j] = DependsOn[order[t][i]][k]
      BY <2>2 DEF WorkerHas
    <2>4. j \in 1 .. Len(order'[Worker]) /\ j \in 1 .. n
      BY <1>4, <1>6, <1>9, <2>3
    <2>5. order'[Worker][j] = order[Worker][j]
      BY <1>1, <1>5, <2>4
    <2>6. QED
      BY <2>1, <2>3, <2>4, <2>5
  <1>10. ASSUME NEW t \in TestScope PROVE RestsOn(t, Len(order[Worker]))'
    <2>1. CASE r = Worker
      <3>1. Len(order'[Worker]) \in Nat /\ Len(order'[Worker]) >= mark
        BY <1>1, <1>4, <1>6, <2>1
      <3> DEFINE n == Len(order'[Worker])
      <3>2. \A i \in DOMAIN order'[t] : \A k \in DOMAIN DependsOn[order'[t][i]] :
              DependsOn[order'[t][i]][k] \in WorkerFixture =>
                \E j \in 1 .. n : j <= Len(order'[Worker]) /\ order'[Worker][j] = DependsOn[order'[t][i]][k]
        <4> HIDE DEF n
        <4>1. n \in Nat /\ n >= mark
          BY <3>1 DEF n
        <4>2. QED
          BY <1>9, <2>1, <4>1
      <3>3. QED
        BY <3>2 DEF RestsOn, WorkerHas
    <2>2. CASE r # Worker
      <3>1. order'[Worker] = order[Worker] /\ RestsOn(t, Len(order[Worker]))
        BY <1>1, <1>3, <2>2 DEF HoldInv
      <3>2. QED
        BY <1>8, <3>1 DEF RestsOn, WorkerHas
    <2>3. QED
      BY <2>1, <2>2
  <1>11. ASSUME Fixtures!Target' = Worker, NEW t \in TestScope PROVE RestsOn(t, mark)'
    <2>1. \A i \in DOMAIN order'[t] : \A k \in DOMAIN DependsOn[order'[t][i]] :
            DependsOn[order'[t][i]][k] \in WorkerFixture =>
              \E j \in 1 .. mark : j <= Len(order'[Worker]) /\ order'[Worker][j] = DependsOn[order'[t][i]][k]
      BY <1>9, <1>11
    <2>2. QED
      BY <2>1 DEF RestsOn, WorkerHas
  <1>12. \A q \in Runtimes : mode'[q] \in {"unborn", "closed"} => order'[q] = <<>>
    <2>1. order[r] # <<>>
      BY <1>2
    <2>2. QED
      BY <1>3, <2>1 DEF HoldInv
  <1>13. QED
    BY <1>3, <1>7, <1>10, <1>11, <1>12 DEF HoldInv

\* The call that is done is one of a runtime that still accepts what it does.
LEMMA TargetAccepts ==
  ASSUME FixtureInv, queue # <<>>
  PROVE  /\ 1 \in DOMAIN queue /\ Fixtures!Job = queue[1] /\ queue[1] \in Waiting
         /\ Fixtures!Target \in Runtimes \cup {Fixtures!Nobody}
         /\ Fixtures!Target # Fixtures!Nobody => mode[Fixtures!Target] \in {"open", "closing"}
         /\ mode[Worker] \in {"open", "closing"}
         /\ queue[1].uses = Fixtures!Nobody => Fixtures!Target = queue[1].at
  <1>1. queue \in Seq(Waiting)
    BY DEF FixtureInv, QueueInv
  <1>2. 1 \in DOMAIN queue /\ Fixtures!Job = queue[1]
    BY <1>1 DEF Fixtures!Job
  <1>3. queue[1] \in Waiting /\ queue[1].at \in Runtimes /\ mode[queue[1].at] \in {"open", "closing"}
    BY <1>2, QueueHolds
  <1>4. mode[Worker] \in {"open", "closing"}
    BY <1>3 DEF FixtureInv, QueueInv, Runtimes
  <1>5. Fixtures!Target \in {queue[1].at, Worker, Fixtures!Nobody}
    BY <1>2 DEF Fixtures!Target, Fixtures!RuntimeFor
  <1>6. queue[1].uses = Fixtures!Nobody => Fixtures!Target = queue[1].at
    BY <1>2 DEF Fixtures!Target
  <1>7. QED
    BY <1>2, <1>3, <1>4, <1>5, <1>6 DEF Runtimes

\* The innermost fixture is resolved in the runtime of the call or in the worker's.
LEMMA InnermostIs ==
  ASSUME FixtureInv, doing = "resolving", stack # <<>>
  PROVE  /\ Fixtures!Innermost = stack[Len(stack)] /\ Len(stack) \in Nat \ {0}
         /\ Fixtures!Innermost.fixture \in Fixture
         /\ Fixtures!Innermost.at \in {Fixtures!Target, Worker, Fixtures!Nobody}
         /\ DependsOn[Fixtures!Innermost.fixture] \in Seq(Fixture)
  <1>1. /\ stack \in Seq([at : Runtimes \cup {Fixtures!Nobody}, fixture : Fixture])
        /\ \A k \in DOMAIN stack : stack[k].at \in {Fixtures!Target, Worker, Fixtures!Nobody}
    BY DEF FixtureInv, ResolveInv
  <1>2. Len(stack) \in Nat \ {0} /\ Len(stack) \in DOMAIN stack
    BY <1>1
  <1>3. stack[Len(stack)] \in [at : Runtimes \cup {Fixtures!Nobody}, fixture : Fixture]
    <2> DEFINE S == [at : Runtimes \cup {Fixtures!Nobody}, fixture : Fixture]
    <2>1. stack \in Seq(S) /\ Len(stack) \in DOMAIN stack
      BY <1>1, <1>2
    <2> HIDE DEF S
    <2>2. stack[Len(stack)] \in S
      BY <2>1
    <2>3. QED
      BY <2>2 DEF S
  <1>4. Fixtures!Innermost = stack[Len(stack)]
    BY DEF Fixtures!Innermost
  <1>5. stack[Len(stack)].fixture \in Fixture
    BY <1>3
  <1>6. QED
    BY <1>1, <1>2, <1>4, <1>5, FixtureAssumption

LEMMA BeginKeeps == ASSUME FixtureInv, Fixtures!Begin PROVE FixtureInv'
  <1>1. queue # <<>> /\ doing = "nothing" /\ UNCHANGED <<order, mode>>
    BY DEF Fixtures!Begin
  <1>2. CASE Fixtures!Target = Fixtures!Nobody
    <2>1. queue' = Tail(queue) /\ UNCHANGED <<doing, stack, mark>>
      BY <1>2 DEF Fixtures!Begin
    <2>2. QueueInv'
      BY <1>1, <2>1, CallEnds
    <2>3. ResolveInv'
      BY <1>1, <2>1 DEF FixtureInv, ResolveInv
    <2>4. HoldInv'
      BY <1>1, <2>1, HoldStays DEF FixtureInv, HoldInv
    <2>5. QED
      BY <2>2, <2>3, <2>4 DEF FixtureInv
  <1>3. CASE Fixtures!Target # Fixtures!Nobody
    <2>1. queue' = queue
      BY <1>3 DEF Fixtures!Begin
    <2>2. QueueInv' /\ Fixtures!Target' = Fixtures!Target
      BY <1>1, <2>1 DEF FixtureInv, QueueInv, Fixtures!Target, Fixtures!Job, Fixtures!RuntimeFor
    <2>3. \/ queue[1].uses = Fixtures!Nobody /\ doing' = "undoing" /\ mark' = 0 /\ stack' = stack
          \/ /\ queue[1].uses # Fixtures!Nobody /\ doing' = "resolving" /\ mark' = Len(order[Fixtures!Target])
             /\ stack' = <<[at |-> Fixtures!Target, fixture |-> queue[1].uses]>>
      BY <1>1, <1>3, TargetAccepts DEF Fixtures!Begin
    <2>4. Fixtures!Target \in Runtimes /\ queue[1] \in Waiting /\ Len(order[Fixtures!Target]) \in Nat
      BY <1>1, <1>3, TargetAccepts DEF FixtureInv, HoldInv
    <2>5. ResolveInv'
      <3>1. CASE queue[1].uses = Fixtures!Nobody
        BY <1>1, <1>3, <2>1, <2>2, <2>3, <3>1 DEF FixtureInv, ResolveInv
      <3>2. CASE queue[1].uses # Fixtures!Nobody
        <4>1. queue[1].uses \in Fixture
          BY <2>4, <3>2 DEF Waiting
        <4>2. /\ stack' \in Seq([at : Runtimes \cup {Fixtures!Nobody}, fixture : Fixture]) /\ stack' # <<>>
              /\ \A k \in DOMAIN stack' : stack'[k].at = Fixtures!Target
          <5> DEFINE S == [at : Runtimes \cup {Fixtures!Nobody}, fixture : Fixture]
                     e == [at |-> Fixtures!Target, fixture |-> queue[1].uses]
          <5>1. stack' = <<e>> /\ e \in S /\ e.at = Fixtures!Target
            BY <2>3, <2>4, <3>2, <4>1
          <5> HIDE DEF e, S
          <5>2. stack' \in Seq(S) /\ stack' # <<>> /\ \A k \in DOMAIN stack' : stack'[k] = e
            BY <5>1
          <5>3. QED
            BY <5>1, <5>2 DEF S
        <4>3. QED
          BY <1>1, <1>3, <2>1, <2>2, <2>3, <2>4, <3>2, <4>2 DEF FixtureInv, ResolveInv
      <3>3. QED
        BY <3>1, <3>2
    <2>6. ASSUME Fixtures!Target = Worker, NEW t \in TestScope PROVE RestsOn(t, mark')
      <3>1. CASE queue[1].uses = Fixtures!Nobody
        <4>1. mode[Worker] = "closing"
          BY <1>1, <2>6, <3>1, TargetAccepts DEF FixtureInv, QueueInv
        <4>2. order[t] = <<>>
          BY <4>1 DEF FixtureInv, QueueInv, HoldInv, Runtimes
        <4>3. QED
          BY <4>2 DEF RestsOn
      <3>2. CASE queue[1].uses # Fixtures!Nobody
        BY <2>3, <2>6, <3>2 DEF FixtureInv, HoldInv
      <3>3. QED
        BY <3>1, <3>2
    <2>7. HoldInv'
      BY <1>1, <2>2, <2>6, HoldStays DEF FixtureInv, HoldInv
    <2>8. QED
      BY <2>2, <2>5, <2>7 DEF FixtureInv
  <1>4. QED
    BY <1>2, <1>3

LEMMA DescendKeeps == ASSUME FixtureInv, Fixtures!Descend PROVE FixtureInv'
  <1>1. /\ doing = "resolving" /\ stack # <<>> /\ Fixtures!Innermost.at # Fixtures!Nobody
        /\ UNCHANGED <<order, mode, queue, doing, mark>>
    BY DEF Fixtures!Descend, Fixtures!Unresolved
  <1>2. PICK i \in DOMAIN DependsOn[Fixtures!Innermost.fixture] :
          stack' = Append(stack, [at |-> Fixtures!RuntimeFor(Fixtures!Innermost.at, DependsOn[Fixtures!Innermost.fixture][i]),
                                  fixture |-> DependsOn[Fixtures!Innermost.fixture][i]])
    BY DEF Fixtures!Descend, Fixtures!Missing, Fixtures!Dependencies
  <1> DEFINE d == DependsOn[Fixtures!Innermost.fixture][i]
             a == Fixtures!RuntimeFor(Fixtures!Innermost.at, d)
  <1>3. d \in Fixture /\ a \in {Fixtures!Target, Worker, Fixtures!Nobody}
    BY <1>1, <1>2, InnermostIs DEF Fixtures!RuntimeFor
  <1>4. Fixtures!Target' = Fixtures!Target /\ Fixtures!Target \in Runtimes /\ queue # <<>>
    BY <1>1, TargetAccepts DEF FixtureInv, ResolveInv, Fixtures!Target, Fixtures!Job, Fixtures!RuntimeFor
  <1>5. stack \in Seq([at : Runtimes \cup {Fixtures!Nobody}, fixture : Fixture]) /\ stack' = Append(stack, [at |-> a, fixture |-> d])
    BY <1>2 DEF FixtureInv, ResolveInv
  <1>6. [at |-> a, fixture |-> d] \in [at : Runtimes \cup {Fixtures!Nobody}, fixture : Fixture]
    BY <1>3, <1>4 DEF Runtimes
  <1>7. \A k \in DOMAIN stack : stack[k].at \in {Fixtures!Target, Worker, Fixtures!Nobody}
    BY <1>1 DEF FixtureInv, ResolveInv
  <1> HIDE DEF d, a
  <1>8. /\ stack' \in Seq([at : Runtimes \cup {Fixtures!Nobody}, fixture : Fixture]) /\ stack' # <<>>
        /\ \A k \in DOMAIN stack' : stack'[k].at \in {Fixtures!Target, Worker, Fixtures!Nobody}
    BY <1>3, <1>5, <1>6, <1>7
  <1>9. ResolveInv'
    BY <1>1, <1>4, <1>8 DEF FixtureInv, ResolveInv
  <1>10. QueueInv'
    BY <1>1 DEF FixtureInv, QueueInv
  <1>11. HoldInv'
    BY <1>1, <1>4, HoldStays DEF FixtureInv, HoldInv
  <1>12. QED
    BY <1>9, <1>10, <1>11 DEF FixtureInv

LEMMA SetUpKeeps == ASSUME FixtureInv, Fixtures!SetUp PROVE FixtureInv'
  <1> DEFINE f == Fixtures!Innermost.fixture
             a == Fixtures!Innermost.at
  <1>1. /\ doing = "resolving" /\ stack # <<>> /\ a # Fixtures!Nobody /\ mode' = mode /\ mark' = mark
        /\ stack' = Fixtures!Pop(stack)
        /\ \/ Len(stack) = 1 /\ doing' = "nothing" /\ queue' = Tail(queue)
           \/ Len(stack) # 1 /\ doing' = doing /\ queue' = queue
    BY DEF Fixtures!SetUp, Fixtures!Unresolved
  <1>2. /\ f \in Fixture /\ a \in {Fixtures!Target, Worker} /\ Len(stack) \in Nat \ {0}
        /\ DependsOn[f] \in Seq(Fixture)
    BY <1>1, InnermostIs
  <1>3. queue # <<>> /\ Fixtures!Target # Fixtures!Nobody
    BY <1>1 DEF FixtureInv, ResolveInv
  <1>4. a \in Runtimes /\ mode[a] \in {"open", "closing"}
    BY <1>2, <1>3, TargetAccepts DEF Runtimes
  <1>5. queue' = queue => Fixtures!Target' = Fixtures!Target
    BY DEF Fixtures!Target, Fixtures!Job, Fixtures!RuntimeFor
  <1>6. QueueInv'
    <2>1. CASE queue' = Tail(queue)
      BY <1>1, <1>3, <2>1, CallEnds
    <2>2. CASE queue' = queue
      BY <1>1, <2>2 DEF FixtureInv, QueueInv
    <2>3. QED
      BY <1>1, <2>1, <2>2
  <1>7. ResolveInv'
    <2>1. stack \in Seq([at : Runtimes \cup {Fixtures!Nobody}, fixture : Fixture])
      BY DEF FixtureInv, ResolveInv
    <2> DEFINE S == [at : Runtimes \cup {Fixtures!Nobody}, fixture : Fixture]
    <2>2. /\ Fixtures!Pop(stack) \in Seq([at : Runtimes \cup {Fixtures!Nobody}, fixture : Fixture])
          /\ Len(Fixtures!Pop(stack)) = Len(stack) - 1
          /\ \A k \in DOMAIN Fixtures!Pop(stack) : k \in DOMAIN stack /\ Fixtures!Pop(stack)[k] = stack[k]
      <3>1. stack \in Seq(S) /\ stack # <<>>
        BY <1>1, <2>1
      <3> HIDE DEF S
      <3>2. /\ Fixtures!Pop(stack) \in Seq(S) /\ Len(Fixtures!Pop(stack)) = Len(stack) - 1
            /\ \A k \in 1 .. Len(stack) - 1 : Fixtures!Pop(stack)[k] = stack[k]
        BY <3>1, PopIs
      <3>3. \A k \in DOMAIN Fixtures!Pop(stack) : k \in DOMAIN stack /\ Fixtures!Pop(stack)[k] = stack[k]
        BY <1>2, <3>1, <3>2
      <3>4. QED
        BY <3>2, <3>3 DEF S
    <2>3. Len(stack) # 1 => Fixtures!Pop(stack) # <<>>
      BY <1>2, <2>2
    <2>4. QED
      BY <1>1, <1>5, <2>2, <2>3 DEF FixtureInv, ResolveInv
  <1>8. HoldInv'
    <2>1. CASE Fixtures!Holds(a, f)
      <3>1. order' = order
        BY <2>1 DEF Fixtures!SetUp
      <3>2. QED
        BY <1>1, <1>5, <3>1, HoldStays DEF FixtureInv, HoldInv
    <2>2. CASE ~Fixtures!Holds(a, f)
      <3>1. order' = [order EXCEPT ![a] = Append(@, f)] /\ Fixtures!Missing = {}
        BY <2>2 DEF Fixtures!SetUp
      <3>2. \A k \in DOMAIN DependsOn[f] : Fixtures!IsThere(DependsOn[f][k])
        BY <3>1 DEF Fixtures!Missing, Fixtures!Dependencies
      <3>3. ASSUME NEW k \in DOMAIN DependsOn[f]
            PROVE  \/ /\ DependsOn[f][k] \in WorkerFixture
                      /\ \E j \in 1 .. Len(order[Worker]) : order[Worker][j] = DependsOn[f][k]
                   \/ /\ DependsOn[f][k] \notin WorkerFixture /\ a # Worker
                      /\ \E j \in 1 .. Len(order[a]) : order[a][j] = DependsOn[f][k]
        <4>1. /\ Fixtures!RuntimeFor(a, DependsOn[f][k]) # Fixtures!Nobody
              /\ Fixtures!Holds(Fixtures!RuntimeFor(a, DependsOn[f][k]), DependsOn[f][k])
          BY <3>2 DEF Fixtures!IsThere
        <4>2. CASE DependsOn[f][k] \in WorkerFixture
          BY <4>1, <4>2 DEF Fixtures!RuntimeFor, Fixtures!Holds
        <4>3. CASE DependsOn[f][k] \notin WorkerFixture
          <5>1. a # Worker /\ Fixtures!RuntimeFor(a, DependsOn[f][k]) = a
            BY <4>1, <4>3 DEF Fixtures!RuntimeFor
          <5>2. \E j \in DOMAIN order[a] : order[a][j] = DependsOn[f][k]
            BY <4>1, <5>1 DEF Fixtures!Holds
          <5>3. DOMAIN order[a] = 1 .. Len(order[a])
            BY DEF FixtureInv, HoldInv
          <5>4. QED
            BY <4>3, <5>1, <5>2, <5>3
        <4>4. QED
          BY <4>2, <4>3
      <3>4. doing' # "nothing" /\ Fixtures!Target' = Worker =>
              a = Worker /\ mark' = mark /\ doing # "nothing" /\ Fixtures!Target = Worker
        BY <1>1, <1>2, <1>5
      <3>5. HoldInv
        BY DEF FixtureInv
      <3> HIDE DEF a, f
      <3>6. QED
        BY <1>1, <1>2, <1>4, <3>1, <3>3, <3>4, <3>5, PushKeeps
    <2>3. QED
      BY <2>1, <2>2
  <1>9. QED
    BY <1>6, <1>7, <1>8 DEF FixtureInv

LEMMA RollbackKeeps ==
  ASSUME FixtureInv, Fixtures!SetUpFails \/ Fixtures!TearDown \/ Fixtures!Undone
  PROVE  FixtureInv'
  <1>1. ASSUME Fixtures!SetUpFails PROVE FixtureInv'
    <2>1. doing = "resolving" /\ doing' = "undoing" /\ stack' = <<>> /\ UNCHANGED <<order, mode, queue, mark>>
      BY <1>1 DEF Fixtures!SetUpFails, Fixtures!Unresolved
    <2>2. Fixtures!Target' = Fixtures!Target
      BY <2>1 DEF Fixtures!Target, Fixtures!Job, Fixtures!RuntimeFor
    <2>3. QueueInv'
      BY <2>1 DEF FixtureInv, QueueInv
    <2>4. ResolveInv'
      BY <2>1, <2>2 DEF FixtureInv, ResolveInv
    <2>5. HoldInv'
      BY <2>1, <2>2, HoldStays DEF FixtureInv, HoldInv
    <2>6. QED
      BY <2>3, <2>4, <2>5 DEF FixtureInv
  <1>2. ASSUME Fixtures!TearDown PROVE FixtureInv'
    <2>1. /\ doing = "undoing" /\ Len(order[Fixtures!Target]) > mark
          /\ order' = [order EXCEPT ![Fixtures!Target] = Fixtures!Pop(@)]
          /\ UNCHANGED <<mode, queue, doing, stack, mark>>
      BY <1>2 DEF Fixtures!TearDown
    <2>2. Fixtures!Target' = Fixtures!Target
      BY <2>1 DEF Fixtures!Target, Fixtures!Job, Fixtures!RuntimeFor
    <2>3. Fixtures!Target \in Runtimes /\ mark \in Nat
      BY <2>1, TargetAccepts DEF FixtureInv, ResolveInv
    <2>4. QueueInv'
      BY <2>1 DEF FixtureInv, QueueInv
    <2>5. ResolveInv'
      BY <2>1, <2>2 DEF FixtureInv, ResolveInv
    <2>6. HoldInv'
      BY <2>1, <2>2, <2>3, PopKeeps DEF FixtureInv
    <2>7. QED
      BY <2>4, <2>5, <2>6 DEF FixtureInv
  <1>3. ASSUME Fixtures!Undone PROVE FixtureInv'
    <2>1. queue # <<>> /\ doing = "undoing"
      BY <1>3 DEF Fixtures!Undone, FixtureInv, ResolveInv
    <2>2. /\ Len(order[Fixtures!Target]) <= mark /\ doing' = "nothing" /\ queue' = Tail(queue)
          /\ UNCHANGED <<order, stack, mark>>
          /\ \/ queue[1].uses # Fixtures!Nobody /\ mode' = mode
             \/ queue[1].uses = Fixtures!Nobody /\ mode' = [mode EXCEPT ![queue[1].at] = "closed"]
      <3>1. Fixtures!Job = queue[1]
        BY <2>1, TargetAccepts
      <3>2. /\ Len(order[Fixtures!Target]) <= mark /\ doing' = "nothing" /\ queue' = Tail(queue)
            /\ UNCHANGED <<order, stack, mark>>
            /\ mode' = IF Fixtures!Job.uses = Fixtures!Nobody THEN [mode EXCEPT ![Fixtures!Job.at] = "closed"] ELSE mode
        BY <1>3 DEF Fixtures!Undone
      <3>3. QED
        BY <3>1, <3>2
    <2>3. QueueInv'
      BY <2>1, <2>2, CallEnds
    <2>4. ResolveInv'
      BY <2>2 DEF FixtureInv, ResolveInv
    <2>5. \A q \in Runtimes : mode'[q] \in {"unborn", "closed"} => order[q] = <<>>
      <3>1. \A q \in Runtimes : mode[q] \in {"unborn", "closed"} => order[q] = <<>>
        <4>1. HoldInv
          BY DEF FixtureInv
        <4>2. QED
          BY <4>1, Zenon DEF HoldInv
      <3>2. CASE mode' = mode
        BY <3>1, <3>2
      <3>3. CASE queue[1].uses = Fixtures!Nobody /\ mode' = [mode EXCEPT ![queue[1].at] = "closed"]
        <4>1. Fixtures!Target = queue[1].at /\ queue[1].at \in Runtimes
          <5>1. Fixtures!Target = queue[1].at /\ queue[1] \in Waiting
            BY <2>1, <3>3, TargetAccepts
          <5>2. QED
            BY <5>1 DEF Waiting
        <4>2. order[queue[1].at] \in Seq(Fixture) /\ Len(order[queue[1].at]) <= 0
          BY <2>1, <2>2, <3>3, <4>1 DEF FixtureInv, ResolveInv, HoldInv
        <4>3. order[queue[1].at] = <<>>
          BY <4>2
        <4>4. mode \in [Runtimes -> {"unborn", "open", "closing", "closed"}]
          BY DEF FixtureInv, QueueInv
        <4>5. QED
          BY <3>1, <3>3, <4>1, <4>3, <4>4
      <3>4. QED
        BY <2>2, <3>2, <3>3
    <2>6. HoldInv'
      BY <2>2, <2>5, HoldStays DEF FixtureInv
    <2>7. QED
      BY <2>3, <2>4, <2>6 DEF FixtureInv
  <1>4. QED
    BY <1>1, <1>2, <1>3

LEMMA FixtureStep == ASSUME FixtureInv, [Fixtures!Next]_(Fixtures!fixtureVars) PROVE FixtureInv'
  <1>1. CASE UNCHANGED Fixtures!fixtureVars
    <2>1. UNCHANGED <<order, mode, queue, doing, stack, mark>>
      BY <1>1 DEF Fixtures!fixtureVars
    <2>2. Fixtures!Target' = Fixtures!Target
      BY <2>1 DEF Fixtures!Target, Fixtures!Job, Fixtures!RuntimeFor
    <2>3. QueueInv' /\ ResolveInv'
      BY <2>1, <2>2 DEF FixtureInv, QueueInv, ResolveInv
    <2>4. HoldInv'
      BY <2>1, <2>2, HoldStays DEF FixtureInv, HoldInv
    <2>5. QED
      BY <2>3, <2>4 DEF FixtureInv
  <1>2. CASE Fixtures!Next
    <2>1. Fixtures!Runtime = Runtimes
      BY DEF Fixtures!Runtime, Runtimes
    <2>2. QED
      BY <1>2, <2>1, CallStep, BeginKeeps, DescendKeeps, SetUpKeeps, RollbackKeeps DEF Fixtures!Next
  <1>3. QED
    BY <1>1, <1>2

LEMMA FoundedIsEnough == ASSUME FixtureInv PROVE Fixtures!DependentsFirst
  <1> SUFFICES ASSUME NEW r \in Runtimes
               PROVE  /\ mode[r] = "closed" => order[r] = <<>>
                      /\ \A i \in DOMAIN order[r] : \A k \in DOMAIN DependsOn[order[r][i]] :
                           IF DependsOn[order[r][i]][k] \in WorkerFixture /\ r # Worker
                             THEN Fixtures!Holds(Worker, DependsOn[order[r][i]][k])
                             ELSE \E j \in 1 .. i - 1 : order[r][j] = DependsOn[order[r][i]][k]
    BY DEF Fixtures!DependentsFirst, Fixtures!Runtime, Runtimes
  <1>1. mode[r] = "closed" => order[r] = <<>>
    BY DEF FixtureInv, HoldInv
  <1>2. ASSUME NEW i \in DOMAIN order[r], NEW k \in DOMAIN DependsOn[order[r][i]], NEW d, d = DependsOn[order[r][i]][k]
        PROVE  IF d \in WorkerFixture /\ r # Worker THEN Fixtures!Holds(Worker, d)
                                                    ELSE \E j \in 1 .. i - 1 : order[r][j] = d
    <2>1. DependsOn[order[r][i]][k] = d
      BY <1>2
    <2>2. CASE d \in WorkerFixture /\ r # Worker
      <3>1. r \in TestScope /\ RestsOn(r, Len(order[Worker]))
        BY <2>2 DEF FixtureInv, HoldInv, Runtimes
      <3>2. WorkerHas(Len(order[Worker]), d)
        BY <2>1, <2>2, <3>1 DEF RestsOn
      <3>3. QED
        BY <2>2, <3>2 DEF WorkerHas, Fixtures!Holds
    <2>3. CASE ~(d \in WorkerFixture /\ r # Worker)
      <3>1. Founded(r)
        BY DEF FixtureInv, HoldInv
      <3>2. \E j \in 1 .. i - 1 : order[r][j] = d
        BY <2>1, <2>3, <3>1 DEF Founded
      <3>3. QED
        BY <2>3, <3>2
    <2>4. QED
      BY <2>2, <2>3
  <1>3. QED
    BY <1>1, <1>2

\* Whatever is used, fails or is closed, by any number of test scopes at once, a fixture
\* is set up before and torn down after what depends on it.
THEOREM DependentsStopFirst == Spec => []DependentsFirst
  <1> DEFINE Inv == picked = "fixtures" => FixtureInv
  <1>1. Init => Inv
    BY FixtureInit DEF Init
  <1>2. Inv /\ [Next]_allVars => Inv'
    BY OneIsPicked, FixtureStep
  <1>3. Inv => DependentsFirst
    BY FoundedIsEnough DEF DependentsFirst
  <1> HIDE DEF Inv
  <1>4. QED
    BY <1>1, <1>2, <1>3, PTL DEF Spec

HIDE DEF order, mode, queue, doing, stack, mark

-----------------------------------------------------------------------------
(* GuardedActions                                                          *)

at == v1
aborted == v3
verified == v4
passes == v5
submits == v6
answer == v7

USE DEF at, late, aborted, verified, passes, submits, answer

GuardedInv ==
  /\ Guarded!TypeOK
  /\ \A a \in Action :
       /\ answer[a] # "none" <=> at[a] = "over"
       /\ at[a] \in {"new", "resolving", "resolved"} => submits[a] = 0
       /\ answer[a] = "refused" => submits[a] = 0
       /\ at[a] = "resolved" => Guarded!Essential \subseteq verified[a]

LEMMA GuardedInit == Guarded!Init => GuardedInv
  BY DEF Guarded!Init, GuardedInv, Guarded!TypeOK

LEMMA GuardedStep ==
  ASSUME GuardedInv, [Guarded!Next]_(Guarded!guardVars)
  PROVE  GuardedInv' /\ Guarded!Untouched
  <1> USE DEF Guarded!guardVars, GuardedInv, Guarded!TypeOK, Guarded!Untouched, Guarded!Ends, Guarded!Goes
  <1>1. CASE UNCHANGED Guarded!guardVars
    BY <1>1
  <1>2. ASSUME NEW a \in Action, Guarded!Invoke(a) PROVE GuardedInv' /\ Guarded!Untouched
    BY <1>2 DEF Guarded!Invoke
  <1>3. ASSUME NEW a \in Action, Guarded!Resolves(a) PROVE GuardedInv' /\ Guarded!Untouched
    BY <1>3, GuardedAssumption DEF Guarded!Resolves, Guarded!Late, Guarded!Essential, Guarded!Requested, Guarded!Default
  <1>4. ASSUME NEW a \in Action, Guarded!ResolutionFails(a) PROVE GuardedInv' /\ Guarded!Untouched
    BY <1>4 DEF Guarded!ResolutionFails
  <1>5. ASSUME NEW a \in Action, Guarded!Submit(a) PROVE GuardedInv' /\ Guarded!Untouched
    BY <1>5 DEF Guarded!Submit, Guarded!Late, Guarded!Essential
  <1>6. ASSUME NEW a \in Action, Guarded!Performed(a) PROVE GuardedInv' /\ Guarded!Untouched
    BY <1>6 DEF Guarded!Performed
  <1>7. ASSUME NEW a \in Action, Guarded!Abort(a) PROVE GuardedInv' /\ Guarded!Untouched
    BY <1>7 DEF Guarded!Abort
  <1>8. ASSUME NEW a \in Action, Guarded!DeadlinePasses(a) PROVE GuardedInv' /\ Guarded!Untouched
    BY <1>8 DEF Guarded!DeadlinePasses
  <1>9. ASSUME NEW a \in Action, Guarded!Changes(a) PROVE GuardedInv' /\ Guarded!Untouched
    BY <1>9 DEF Guarded!Changes
  <1>10. QED
    BY <1>1, <1>2, <1>3, <1>4, <1>5, <1>6, <1>7, <1>8, <1>9 DEF Guarded!Next

\* A refused action has touched nothing, and one that is performed was submitted once with
\* every check it asked for verified, for any set of further checks (guarded-actions.ts,
\* execute).
THEOREM RefusalIsFinal == Spec => RefusedIsUntouched
  <1> DEFINE Inv == picked = "guarded" => GuardedInv
  <1>1. Init => Inv
    BY GuardedInit DEF Init
  <1>2. Inv /\ [Next]_allVars => Inv' /\ [picked = "guarded" => Guarded!Untouched]_allVars
    BY OneIsPicked, GuardedStep DEF allVars, Guarded!guardVars
  <1> HIDE DEF Inv
  <1>3. QED
    BY <1>1, <1>2, PTL DEF Spec, RefusedIsUntouched

HIDE DEF at, late, aborted, verified, passes, submits, answer

-----------------------------------------------------------------------------
(* EvidenceContext                                                         *)

graph == v1
indegree == v2
ready == v3
visited == v4
verdict == v5

USE DEF graph, indegree, ready, visited, verdict

Joined == UNION {Graph!Ends(e) : e \in graph.relations}
Awaited(x, V) == {e \in graph.relations : e.to = x /\ e.from \notin V}

\* The checks before the count have been passed.
Sound == /\ graph.value = "sound" /\ Graph!NodesAreDistinct /\ Graph!HasParents /\ Graph!RelationsAreValid
         /\ IsFiniteSet(graph.relations)

\* What is counted are the relations from nodes that are not visited; a visited node has
\* none of them, and every set of visited nodes has one to which none of the set leads.
CountInv ==
  /\ Sound /\ visited \subseteq Joined /\ DOMAIN indegree = Joined
  /\ \A x \in Joined : indegree[x] = Cardinality(Awaited(x, visited))
  /\ ready = {x \in Joined \ visited : indegree[x] = 0}
  /\ \A x \in visited : Awaited(x, visited) = {}
  /\ \A S \in SUBSET visited : S # {} => \E r \in S : \A e \in graph.relations : e.to = r => e.from \notin S

GraphInv ==
  /\ verdict \in {"none", "declared", "counting", "accepted", "rejected"}
  /\ verdict = "declared" => IsFiniteSet(graph.relations) /\ graph.value \in Graph!Value
  /\ verdict \in {"none", "declared"} => visited = {} /\ indegree = <<>>
  /\ verdict = "counting" => CountInv
  /\ verdict # "counting" => ready = {}
  /\ Graph!AcceptedIsFounded

LEMMA GraphCount == ASSUME NEW S PROVE Graph!Cardinality(S) = Cardinality(S)
  BY DEF Graph!Cardinality, Cardinality, Graph!IsFiniteSet, IsFiniteSet

LEMMA AwaitedIs ==
  ASSUME IsFiniteSet(graph.relations), NEW x, NEW V
  PROVE  /\ IsFiniteSet(Awaited(x, V)) /\ Cardinality(Awaited(x, V)) \in Nat
         /\ Cardinality(Awaited(x, V)) = 0 <=> Awaited(x, V) = {}
  <1>1. Awaited(x, V) \subseteq graph.relations
    BY DEF Awaited
  <1>2. IsFiniteSet(Awaited(x, V))
    BY <1>1, FS_Subset
  <1>3. QED
    BY <1>2, FS_EmptySet, FS_CardinalityType

\* The relations from r are counted no more once r is visited.
LEMMA AwaitedMoves ==
  ASSUME IsFiniteSet(graph.relations), NEW x, NEW V, NEW r, r \notin V
  PROVE  Cardinality(Awaited(x, V \cup {r})) =
           Cardinality(Awaited(x, V)) - Cardinality({e \in graph.relations : e.from = r /\ e.to = x})
  <1> DEFINE F == {e \in graph.relations : e.from = r /\ e.to = x}
  <1>1. Awaited(x, V \cup {r}) = Awaited(x, V) \ F /\ Awaited(x, V) \cap F = F
    BY DEF Awaited
  <1>2. IsFiniteSet(Awaited(x, V))
    BY AwaitedIs
  <1> HIDE DEF F
  <1>3. Cardinality(Awaited(x, V) \ F) = Cardinality(Awaited(x, V)) - Cardinality(Awaited(x, V) \cap F)
    BY <1>2, FS_Difference
  <1>4. QED
    BY <1>1, <1>3 DEF F

LEMMA VisitKeeps == ASSUME CountInv, NEW r \in ready, Graph!Visit(r), verdict = "counting" PROVE GraphInv'
  <1>1. /\ graph' = graph /\ verdict' = "counting" /\ visited' = visited \cup {r}
        /\ indegree' = [x \in DOMAIN indegree |->
             indegree[x] - Cardinality({e \in graph.relations : e.from = r /\ e.to = x})]
        /\ ready' = (ready \ {r}) \cup {x \in DOMAIN indegree : indegree'[x] = 0 /\ indegree[x] > 0}
    BY GraphCount DEF Graph!Visit
  <1>2. /\ Sound /\ IsFiniteSet(graph.relations) /\ DOMAIN indegree = Joined
        /\ \A x \in Joined : indegree[x] = Cardinality(Awaited(x, visited))
        /\ ready = {x \in Joined \ visited : indegree[x] = 0}
        /\ \A x \in visited : Awaited(x, visited) = {}
    BY DEF CountInv, Sound
  <1>3. r \in Joined /\ r \notin visited /\ indegree[r] = 0
    BY <1>2
  <1>4. Awaited(r, visited) = {}
    BY <1>2, <1>3, AwaitedIs
  <1>5. Joined' = Joined /\ Sound' /\ \A x, V : Awaited(x, V)' = Awaited(x, V)
    BY <1>1, <1>2 DEF Joined, Graph!Ends, Sound, Awaited, Graph!NodesAreDistinct, Graph!HasParents,
                      Graph!Parent, Graph!Declared, Graph!RelationsAreValid, Graph!CompatibleAttempt,
                      Graph!ValidRelationEndpoints, Graph!Working
  <1>6. \A x \in Joined : indegree'[x] = Cardinality(Awaited(x, visited \cup {r}))
    BY <1>1, <1>2, <1>3, AwaitedMoves
  <1>7. \A x : Awaited(x, visited \cup {r}) \subseteq Awaited(x, visited)
    BY DEF Awaited
  <1>8. \A x \in Joined : (indegree[x] = 0 <=> Awaited(x, visited) = {}) /\ indegree[x] \in Nat
    BY <1>2, AwaitedIs
  <1>9. \A x \in Joined : indegree'[x] = 0 <=> Awaited(x, visited \cup {r}) = {}
    <2>1. \A x : Cardinality(Awaited(x, visited \cup {r})) = 0 <=> Awaited(x, visited \cup {r}) = {}
      BY <1>2, AwaitedIs
    <2>2. QED
      BY <1>6, <2>1
  <1>10. ready' = {x \in Joined \ visited' : indegree'[x] = 0}
    <2>1. \A x \in ready' : x \in Joined \ visited' /\ indegree'[x] = 0
      <3> SUFFICES ASSUME NEW x \in ready' PROVE x \in Joined \ visited' /\ indegree'[x] = 0
        OBVIOUS
      <3>1. CASE x \in ready \ {r}
        <4>1. x \in Joined /\ x \notin visited' /\ Awaited(x, visited) = {}
          BY <1>1, <1>2, <1>8, <3>1
        <4>2. QED
          BY <1>7, <1>9, <4>1
      <3>2. CASE x \notin ready \ {r}
        <4>1. x \in Joined /\ indegree'[x] = 0 /\ indegree[x] # 0
          BY <1>1, <1>2, <1>8, <3>2
        <4>2. x \notin visited /\ x # r
          BY <1>2, <1>3, <1>8, <4>1
        <4>3. QED
          BY <1>1, <4>1, <4>2
      <3>3. QED
        BY <3>1, <3>2
    <2>2. \A x \in Joined \ visited' : indegree'[x] = 0 => x \in ready'
      <3> SUFFICES ASSUME NEW x \in Joined, x \notin visited', indegree'[x] = 0 PROVE x \in ready'
        OBVIOUS
      <3>1. CASE indegree[x] = 0
        BY <1>1, <1>2, <3>1
      <3>2. CASE indegree[x] # 0
        <4>1. indegree[x] > 0
          BY <1>8, <3>2
        <4>2. QED
          BY <1>1, <1>2, <4>1
      <3>3. QED
        BY <3>1, <3>2
    <2>3. QED
      BY <2>1, <2>2
  <1>11. \A x \in visited' : Awaited(x, visited') = {}
    BY <1>1, <1>2, <1>4, <1>7
  <1>12. ASSUME NEW S \in SUBSET visited', S # {}
         PROVE  \E q \in S : \A e \in graph.relations : e.to = q => e.from \notin S
    <2>1. CASE S \subseteq {r}
      <3>1. \A e \in graph.relations : e.to = r => e.from \in visited
        BY <1>4 DEF Awaited
      <3>2. r \in S /\ S \cap visited = {}
        BY <1>3, <1>12, <2>1
      <3>3. QED
        BY <3>1, <3>2
    <2>2. CASE ~(S \subseteq {r})
      <3>1. S \ {r} \in SUBSET visited /\ S \ {r} # {}
        BY <1>1, <2>2
      <3>2. PICK q \in S \ {r} : \A e \in graph.relations : e.to = q => e.from \notin S \ {r}
        BY <3>1 DEF CountInv
      <3>3. \A e \in graph.relations : e.to = q => e.from \in visited
        BY <1>2, <3>1, <3>2 DEF Awaited
      <3>4. QED
        BY <1>3, <3>2, <3>3
    <2>3. QED
      BY <2>1, <2>2
  <1>13. CountInv'
    <2>1. \A x \in Joined' : indegree'[x] = Cardinality(Awaited(x, visited)')
      BY <1>1, <1>5, <1>6 DEF Awaited
    <2>2. \A x \in visited' : Awaited(x, visited)' = {}
      BY <1>1, <1>11 DEF Awaited
    <2>3. visited' \subseteq Joined' /\ DOMAIN indegree' = Joined'
      BY <1>1, <1>2, <1>3, <1>5 DEF CountInv
    <2>4. QED
      BY <1>1, <1>5, <1>10, <1>12, <2>1, <2>2, <2>3 DEF CountInv
  <1>14. QED
    BY <1>1, <1>13 DEF GraphInv, Graph!AcceptedIsFounded

\* Nothing that is visited is on a cycle, and what could never be visited is.
LEMMA DecideKeeps == ASSUME CountInv, Graph!Decide PROVE GraphInv'
  <1>1. /\ verdict = "counting" /\ ready = {} /\ UNCHANGED <<graph, indegree, ready, visited>>
        /\ \/ verdict' = "accepted" /\ visited = Joined
           \/ verdict' = "rejected" /\ visited # Joined
    BY DEF Graph!Decide, CountInv
  <1>2. \A e \in graph.relations : e.to \in Joined /\ e.from \in Joined /\ e.to \in Graph!Declared /\ e.from \in Graph!Declared
    BY DEF CountInv, Sound, Graph!RelationsAreValid, Joined, Graph!Ends
  <1>3. Joined \subseteq Graph!Declared
    BY DEF CountInv, Sound, Graph!RelationsAreValid, Joined, Graph!Ends
  <1>4. visited = Joined => ~Graph!Unfounded
    <2> SUFFICES ASSUME visited = Joined, NEW S \in SUBSET Graph!Declared, S # {},
                        \A r \in S : \E e \in graph.relations : e.to = r /\ e.from \in S
                 PROVE  FALSE
      BY DEF Graph!Unfounded
    <2>1. S \in SUBSET visited
      BY <1>2
    <2>2. PICK r \in S : \A e \in graph.relations : e.to = r => e.from \notin S
      BY <2>1 DEF CountInv
    <2>3. QED
      BY <2>2
  <1>5. visited # Joined => Graph!Unfounded
    <2> SUFFICES ASSUME visited # Joined PROVE Graph!Unfounded
      OBVIOUS
    <2> DEFINE S == Joined \ visited
    <2>1. S \in SUBSET Graph!Declared /\ S # {}
      BY <1>3 DEF CountInv
    <2>2. ASSUME NEW r \in S PROVE \E e \in graph.relations : e.to = r /\ e.from \in S
      <3>1. Awaited(r, visited) # {}
        BY <1>1, AwaitedIs DEF CountInv, Sound
      <3>2. QED
        BY <1>2, <3>1 DEF Awaited
    <2> HIDE DEF S
    <2>3. QED
      BY <2>1, <2>2 DEF Graph!Unfounded
  <1>6. /\ Graph!Unfounded => Graph!Unfounded'
        /\ ~Graph!Unfounded => ~Graph!Unfounded'
        /\ Sound => Sound'
    BY <1>1 DEF Graph!Unfounded, Graph!NodesAreDistinct, Graph!HasParents,
                Graph!Parent, Graph!Declared, Graph!RelationsAreValid, Graph!CompatibleAttempt,
                Graph!ValidRelationEndpoints, Graph!Working, Graph!Ends, Sound
  <1>7. Sound'
    BY <1>6 DEF CountInv
  <1>8. Graph!AcceptedIsFounded'
    BY <1>1, <1>4, <1>5, <1>6, <1>7 DEF Sound, Graph!AcceptedIsFounded
  <1>9. QED
    BY <1>1, <1>8 DEF GraphInv

LEMMA GraphStep == ASSUME GraphInv, [Graph!Next]_(Graph!evidenceVars) PROVE GraphInv'
  <1>1. ASSUME Graph!Declare PROVE GraphInv'
    <2>1. /\ verdict = "none" /\ verdict' = "declared" /\ UNCHANGED <<indegree, ready, visited>>
          /\ graph' \in [case : {"c1"}, value : Graph!Value, nodes : Nodes, relations : Relations]
      BY <1>1 DEF Graph!Declare
    <2>2. IsFiniteSet(graph'.relations) /\ graph'.value \in Graph!Value
      BY <2>1, GraphAssumption
    <2>3. QED
      BY <2>1, <2>2 DEF GraphInv, Graph!AcceptedIsFounded
  <1>2. ASSUME Graph!Define PROVE GraphInv'
    <2>1. /\ verdict = "declared" /\ visited = {} /\ indegree = <<>> /\ ready = {} /\ UNCHANGED <<graph, visited>>
          /\ IsFiniteSet(graph.relations) /\ graph.value \in Graph!Value
      BY <1>2 DEF Graph!Define, GraphInv
    <2>2. CASE ~(Graph!SnapshotData /\ Graph!WellFormed /\ Graph!NodesAreDistinct /\ Graph!HasParents /\ Graph!RelationsAreValid)
      <3>1. verdict' = "rejected" /\ UNCHANGED <<indegree, ready>>
        BY <1>2, <2>2 DEF Graph!Define
      <3>2. QED
        BY <2>1, <3>1 DEF GraphInv, Graph!AcceptedIsFounded
    <2>3. CASE Graph!SnapshotData /\ Graph!WellFormed /\ Graph!NodesAreDistinct /\ Graph!HasParents /\ Graph!RelationsAreValid
      <3>1. /\ verdict' = "counting" /\ indegree' = [x \in Joined |-> Cardinality({e \in graph.relations : e.to = x})]
            /\ ready' = {x \in Joined : indegree'[x] = 0}
        BY <1>2, <2>3, GraphCount DEF Graph!Define, Joined
      <3>2. Sound
        BY <2>1, <2>3 DEF Sound, Graph!SnapshotData, Graph!WellFormed, Graph!Value
      <3>3. Sound' /\ Joined' = Joined
        BY <2>1, <3>2 DEF Sound, Joined, Graph!NodesAreDistinct, Graph!HasParents, Graph!Parent, Graph!Declared,
             Graph!RelationsAreValid, Graph!CompatibleAttempt, Graph!ValidRelationEndpoints, Graph!Working, Graph!Ends
      <3>4. \A x : Awaited(x, visited)' = {e \in graph.relations : e.to = x}
        BY <2>1 DEF Awaited
      <3>5. \A x \in Joined' : indegree'[x] = Cardinality(Awaited(x, visited)')
        BY <3>1, <3>3, <3>4
      <3>6. DOMAIN indegree' = Joined' /\ ready' = {x \in Joined' \ visited' : indegree'[x] = 0}
        BY <2>1, <3>1, <3>3
      <3>7. CountInv'
        BY <2>1, <3>3, <3>5, <3>6 DEF CountInv
      <3>8. QED
        BY <3>1, <3>7 DEF GraphInv, Graph!AcceptedIsFounded
    <2>4. QED
      BY <2>2, <2>3
  <1>3. ASSUME Graph!Decide PROVE GraphInv'
    BY <1>3, DecideKeeps DEF Graph!Decide, GraphInv
  <1>4. ASSUME NEW r \in ready, Graph!Visit(r) PROVE GraphInv'
    BY <1>4, VisitKeeps DEF GraphInv
  <1>5. CASE UNCHANGED Graph!evidenceVars
    <2>1. UNCHANGED <<graph, indegree, ready, visited, verdict>>
      BY <1>5 DEF Graph!evidenceVars
    <2>2. /\ Graph!NodesAreDistinct => Graph!NodesAreDistinct'
          /\ Graph!HasParents => Graph!HasParents'
          /\ Graph!RelationsAreValid => Graph!RelationsAreValid'
      BY <2>1 DEF Graph!NodesAreDistinct, Graph!HasParents, Graph!Parent, Graph!Declared, Graph!RelationsAreValid,
                    Graph!CompatibleAttempt, Graph!ValidRelationEndpoints, Graph!Working, Graph!Ends
    <2>3. (Graph!Unfounded => Graph!Unfounded') /\ (~Graph!Unfounded => ~Graph!Unfounded')
      BY <2>1 DEF Graph!Unfounded, Graph!Declared
    <2>4. Graph!AcceptedIsFounded => Graph!AcceptedIsFounded'
      BY <2>1, <2>2, <2>3 DEF Graph!AcceptedIsFounded
    <2>5. Sound => Sound'
      BY <2>1, <2>2 DEF Sound
    <2>6. Joined' = Joined
      BY <2>1 DEF Joined, Graph!Ends
    <2>7. \A x : Awaited(x, visited)' = Awaited(x, visited)
      BY <2>1 DEF Awaited
    <2>8. CountInv => CountInv'
      BY <2>1, <2>5, <2>6, <2>7 DEF CountInv
    <2>9. QED
      BY <2>1, <2>4, <2>8 DEF GraphInv
  <1>6. QED
    BY <1>1, <1>2, <1>3, <1>4, <1>5 DEF Graph!Next

\* An evidence graph is accepted exactly if nothing in it is wrong and no relation leads
\* back to where it came from, in whatever order its nodes are visited: counting the
\* relations finds every cycle.
THEOREM CountingFindsCycles == Spec => []AcceptedIsFounded
  <1> DEFINE Inv == picked = "evidence" => GraphInv
  <1>1. Init => Inv
    BY DEF Init, Graph!Init, GraphInv, Graph!AcceptedIsFounded
  <1>2. Inv /\ [Next]_allVars => Inv'
    BY OneIsPicked, GraphStep
  <1>3. Inv => AcceptedIsFounded
    BY DEF AcceptedIsFounded, GraphInv
  <1> HIDE DEF Inv
  <1>4. QED
    BY <1>1, <1>2, <1>3, PTL DEF Spec

HIDE DEF graph, indegree, ready, visited, verdict

-----------------------------------------------------------------------------
(* OwnedBrowser                                                            *)

launch == v3
listening == v2
stopped == v4
handle == v5
session == v6
act == v7
matches == v8
submitted == v9

USE DEF signal, launch, listening, stopped, handle, session, act, matches, submitted

\* While a launch is under way only an abort stops it, what arrives after that is
\* closed, and what arrived before is alive; a session begins unstopped, on all of it.
LaunchInv ==
  /\ Browser!TypeOK
  /\ launch = "done" <=> session # "none"
  /\ session # "none" => ~stopped /\ ~listening
  /\ launch \in {"new", "loading"} => ~listening /\ ~stopped
  /\ launch \in {"submitting", "browser", "context", "page"} => (stopped => signal)
  /\ launch \in {"new", "loading", "submitting", "browser", "refused"} =>
       \A h \in Browser!Handle : handle[h] = "none"
  /\ launch \in {"context", "page"} /\ ~stopped => handle["browser"] = "alive"
  /\ launch = "page" /\ ~stopped => handle["context"] = "alive"
  /\ session = "open" => \A h \in Browser!Handle : handle[h] = "alive"
  /\ stopped => \A h \in Browser!Closable : handle[h] # "alive"
  /\ launch = "failed" => stopped

\* An action that is about to be submitted has one element and was not submitted before.
ActionInv == \A a \in Action : /\ act[a] = "counted" => matches[a] = 1
                               /\ act[a] \in {"new", "counting", "counted"} => submitted[a] = 0

BrowserInv == LaunchInv /\ ActionInv

LEMMA BrowserInit == Browser!Init => BrowserInv
  <1> SUFFICES ASSUME Browser!Init PROVE BrowserInv
    OBVIOUS
  <1>0. /\ handle \in [Browser!Handle -> {"none", "alive", "closing", "closed"}]
        /\ act \in [Action -> {"new", "counting", "counted", "submitted", "over"}]
    BY DEF Browser!Init
  <1>1. Browser!TypeOK
    <2>1. matches \in [Action -> 0 .. 2] /\ submitted \in [Action -> Nat]
      BY DEF Browser!Init
    <2>2. QED
      BY <1>0, <2>1 DEF Browser!Init, Browser!TypeOK
  <1>2. QED
    BY <1>1 DEF Browser!Init, BrowserInv, LaunchInv, ActionInv, Browser!Closable

LEMMA BrowserStep ==
  ASSUME BrowserInv, [Browser!Next]_(Browser!browserVars)
  PROVE  BrowserInv' /\ Browser!OnOpen
  <1>0. \A a \in Action : act[a] = "counted" => submitted[a] = 0 /\ matches[a] = 1
    BY DEF BrowserInv, ActionInv
  <1> USE DEF Browser!browserVars, Browser!acquisition, Browser!actions, BrowserInv, LaunchInv, ActionInv,
        Browser!TypeOK, Browser!OnOpen, Browser!Handle, Browser!Closable
  <1>1. CASE UNCHANGED Browser!browserVars
    BY <1>1
  <1>2. CASE Browser!Abort
    <2>1. Browser!TypeOK'
      <3>1. handle' \in [Browser!Handle -> {"none", "alive", "closing", "closed"}]
        BY <1>2 DEF Browser!Abort, Browser!Closing
      <3>2. signal' \in BOOLEAN /\ stopped' \in BOOLEAN
        BY <1>2 DEF Browser!Abort
      <3>3. QED
        BY <1>2, <3>1, <3>2 DEF Browser!Abort
    <2>2. \A h \in Browser!Handle : /\ handle[h] = "none" => handle'[h] = "none"
                                    /\ ~listening => handle'[h] = handle[h]
                                    /\ handle'[h] = "alive" => handle[h] = "alive"
                                    /\ listening /\ h \in Browser!Closable => handle'[h] # "alive"
      BY <1>2 DEF Browser!Abort, Browser!Closing
    <2>3. CASE listening
      BY <1>2, <2>1, <2>2, <2>3 DEF Browser!Abort
    <2>4. CASE ~listening
      BY <1>2, <2>1, <2>2, <2>4 DEF Browser!Abort
    <2>5. QED
      BY <2>3, <2>4
  <1>3. CASE Browser!LoadPlaywright
    <2>1. Browser!TypeOK'
      BY <1>3 DEF Browser!LoadPlaywright
    <2>2. QED
      BY <1>3, <2>1 DEF Browser!LoadPlaywright
  <1>4. CASE Browser!SubmitLaunch
    BY <1>4 DEF Browser!SubmitLaunch
  <1>5. CASE Browser!Settle
    BY <1>5 DEF Browser!Settle, Browser!Closing
  <1>6. CASE Browser!Settled
    BY <1>6 DEF Browser!Settled
  <1>7. ASSUME NEW options \in Browser!Option, Browser!ValidateOptions(options) PROVE BrowserInv' /\ Browser!OnOpen
    BY <1>7 DEF Browser!ValidateOptions
  <1>8. ASSUME NEW h \in Browser!Handle, Browser!CloseEnds(h) PROVE BrowserInv' /\ Browser!OnOpen
    BY <1>8 DEF Browser!CloseEnds
  <1>9. ASSUME NEW h \in Browser!Handle, Browser!Acquired(h) PROVE BrowserInv' /\ Browser!OnOpen
    BY <1>9 DEF Browser!Acquired, Browser!Arrives, Browser!Closing, Browser!Following
  <1>10. ASSUME NEW h \in Browser!Handle, Browser!AcquisitionFails(h) PROVE BrowserInv' /\ Browser!OnOpen
    BY <1>10 DEF Browser!AcquisitionFails
  <1>11. ASSUME NEW a \in Action, Browser!Invoke(a) PROVE BrowserInv' /\ Browser!OnOpen
    BY <1>11 DEF Browser!Invoke
  <1>12. ASSUME NEW a \in Action, Browser!InvokeClosed(a) PROVE BrowserInv' /\ Browser!OnOpen
    BY <1>12 DEF Browser!InvokeClosed
  <1>13. ASSUME NEW a \in Action, Browser!Counted(a) PROVE BrowserInv' /\ Browser!OnOpen
    BY <1>13 DEF Browser!Counted
  <1>14. ASSUME NEW a \in Action, Browser!Submit(a) PROVE BrowserInv' /\ Browser!OnOpen
    <2>1. CASE session = "open" /\ act' = [act EXCEPT ![a] = "submitted"] /\ submitted' = [submitted EXCEPT ![a] = @ + 1]
      <3>1. submitted' \in [Action -> Nat]
        BY <2>1
      <3>2. act' \in [Action -> {"new", "counting", "counted", "submitted", "over"}]
        BY <2>1
      <3>0. act[a] = "counted"
        BY <1>14 DEF Browser!Submit
      <3>3. submitted[a] = 0 /\ matches[a] = 1
        BY <1>0, <3>0
      <3>4. \A b \in Action : IF b = a THEN submitted'[b] = 1 /\ act'[b] = "submitted"
                                      ELSE submitted'[b] = submitted[b] /\ act'[b] = act[b]
        BY <2>1, <3>3
      <3>5. UNCHANGED <<launch, signal, listening, stopped, handle, session, matches>>
        BY <1>14 DEF Browser!Submit
      <3>6. LaunchInv'
        BY <3>1, <3>2, <3>5
      <3>7. QED
        BY <2>1, <3>3, <3>4, <3>5, <3>6
    <2>2. CASE act' = [act EXCEPT ![a] = "over"] /\ UNCHANGED submitted
      BY <1>14, <2>2 DEF Browser!Submit
    <2>3. QED
      BY <1>14, <2>1, <2>2 DEF Browser!Submit
  <1>15. ASSUME NEW a \in Action, Browser!ActionEnds(a) PROVE BrowserInv' /\ Browser!OnOpen
    BY <1>15 DEF Browser!ActionEnds
  <1>16. CASE Browser!Close
    BY <1>16 DEF Browser!Close
  <1>17. CASE Browser!ContextCloses
    BY <1>17 DEF Browser!ContextCloses
  <1>18. CASE Browser!BrowserCloses
    BY <1>18 DEF Browser!BrowserCloses
  <1>19. QED
    BY <1>1, <1>2, <1>3, <1>4, <1>5, <1>6, <1>7, <1>8, <1>9, <1>10, <1>11, <1>12, <1>13, <1>14, <1>15, <1>16, <1>17, <1>18 DEF Browser!Next

\* A browser is handed over alive or is being closed, wherever the abort comes
\* (owned-browser.ts, launchOwnedBrowser).
LEMMA BrowserHasOneOwner == ASSUME BrowserInv PROVE Browser!HandedOverOrClosed
  BY DEF BrowserInv, LaunchInv, Browser!HandedOverOrClosed, Browser!Handle, Browser!Closable, Browser!TypeOK

\* An action that was inspected while its session was open is not submitted once it
\* closes, nor twice (v3-session-operations.ts, invokeSurfaceAction).
THEOREM ActionsMeetOpenSessions == Spec => SubmittedOnOpen
  <1> DEFINE Inv == picked = "browser" => BrowserInv
  <1>1. Init => Inv
    BY BrowserInit DEF Init
  <1>2. Inv /\ [Next]_allVars => Inv' /\ [picked = "browser" => Browser!OnOpen]_allVars
    BY OneIsPicked, BrowserStep DEF allVars, Browser!browserVars
  <1> HIDE DEF Inv
  <1>3. QED
    BY <1>1, <1>2, PTL DEF Spec, SubmittedOnOpen

HIDE DEF signal, launch, listening, stopped, handle, session, act, matches, submitted

-----------------------------------------------------------------------------
(* BrowserArtifacts                                                        *)

phase == v1
partial == v2
target == v3
whole == v4

USE DEF phase, partial, target, whole

\* An export that has no descriptor left can remove what another is writing, and is erased
\* from then on.  Before that, whoever writes, or clears what it wrote, holds the name, so
\* that two never do.
ArtifactInv ==
  /\ Artifacts!TypeOK
  /\ Artifacts!NoneIsErased =>
       /\ \A x \in Export : /\ phase[x] \in {"opened", "written", "clearing"} => partial = x
                            /\ phase[x] = "written" => x \in whole
       /\ target # None => target \in whole

LEMMA ArtifactInit == ASSUME Artifacts!Init PROVE ArtifactInv
  BY DEF Artifacts!Init, ArtifactInv, Artifacts!TypeOK, Artifacts!NoneIsErased

LEMMA ArtifactStep ==
  ASSUME ArtifactInv, [Artifacts!Next]_(Artifacts!artifactVars)
  PROVE  ArtifactInv'
  <1> USE ArtifactAssumption DEF Artifacts!artifactVars, ArtifactInv, Artifacts!TypeOK, Artifacts!Goes, Artifacts!NoneIsErased
  <1>1. CASE UNCHANGED Artifacts!artifactVars
    BY <1>1
  <1>2. ASSUME NEW x \in Export, Artifacts!Prepare(x) PROVE ArtifactInv'
    BY <1>2 DEF Artifacts!Prepare
  <1>3. ASSUME NEW x \in Export, Artifacts!Create(x) PROVE ArtifactInv'
    BY <1>3 DEF Artifacts!Create
  <1>4. ASSUME NEW x \in Export, Artifacts!CreateFails(x) PROVE ArtifactInv'
    BY <1>4 DEF Artifacts!CreateFails
  <1>5. ASSUME NEW x \in Export, Artifacts!Write(x) PROVE ArtifactInv'
    BY <1>5 DEF Artifacts!Write
  <1>6. ASSUME NEW x \in Export, Artifacts!Rename(x) PROVE ArtifactInv'
    BY <1>6 DEF Artifacts!Rename
  <1>7. ASSUME NEW x \in Export, Artifacts!Clear(x) PROVE ArtifactInv'
    BY <1>7 DEF Artifacts!Clear
  <1>8. ASSUME NEW x \in Export, Artifacts!Dies(x) PROVE ArtifactInv'
    BY <1>8 DEF Artifacts!Dies
  <1>9. ASSUME NEW x \in Export, Artifacts!Erase(x) PROVE ArtifactInv'
    BY <1>9 DEF Artifacts!Erase
  <1>10. QED
    BY <1>1, <1>2, <1>3, <1>4, <1>5, <1>6, <1>7, <1>8, <1>9 DEF Artifacts!Next

\* Whatever keeps an exclusive create from making the file: a reader of an export's path
\* finds the previous file or a complete one, however the exports overlap, fail and die, and
\* an export keeps its name while it writes, as long as no export that failed to create its
\* own file has removed another's.  (writeSensitiveArtifactFile)
THEOREM ReaderFindsWhole == Spec => []PreviousOrNew
  <1> DEFINE Inv == picked = "artifacts" => ArtifactInv
  <1>1. Init => Inv
    BY ArtifactInit DEF Init
  <1>2. Inv /\ [Next]_allVars => Inv'
    BY OneIsPicked, ArtifactStep
  <1>3. Inv => PreviousOrNew
    BY DEF PreviousOrNew, ArtifactInv, Artifacts!PreviousOrNew
  <1> HIDE DEF Inv
  <1>4. QED
    BY <1>1, <1>2, <1>3, PTL DEF Spec

HIDE DEF phase, partial, target, whole

-----------------------------------------------------------------------------
(* LocalGitWorkspace                                                       *)

asked == v2
record == v3
reserved == v4
resolved == v5
directory == v6
source == v7

USE DEF at, asked, record, reserved, resolved, directory, source

\* The steps before the directory is made, after the checkout and after the links.
Unmade == {"new", "paths", "clean", "resolve", "mkdir"}
CheckedOut == {"head", "tidy", "unmoved", "links", "readonly", "still"}

\* A directory is made once by a call, at its place, and is from step to step what the
\* steps before have made of it as long as it is the call's.
DirectoryInv ==
  /\ \A c \in GitCall : at[c] \in Unmade => \A u \in Uuid : directory[u].by # c
  /\ \A c \in GitCall : at[c] \in Workspace!StepNames \cup {"discard"} => asked[c] \in GitProvider \X OpId \X Uuid
  /\ \A c \in GitCall : at[c] \in Workspace!StepNames /\ directory[Workspace!Place(c)].by = c =>
       /\ at[c] \in CheckedOut => directory[Workspace!Place(c)].content = resolved[c]
       /\ at[c] \in {"readonly", "still"} => ~directory[Workspace!Place(c)].links
       /\ at[c] = "still" => directory[Workspace!Place(c)].readonly

LEMMA FollowingIs ==
  /\ Workspace!StepNames = {"paths", "clean", "resolve", "mkdir", "clone", "checkout", "head", "tidy",
                            "unmoved", "links", "readonly", "still"}
  /\ Workspace!Following("paths") = "clean" /\ Workspace!Following("clean") = "resolve"
  /\ Workspace!Following("resolve") = "mkdir" /\ Workspace!Following("mkdir") = "clone"
  /\ Workspace!Following("clone") = "checkout" /\ Workspace!Following("checkout") = "head"
  /\ Workspace!Following("head") = "tidy" /\ Workspace!Following("tidy") = "unmoved"
  /\ Workspace!Following("unmoved") = "links" /\ Workspace!Following("links") = "readonly"
  /\ Workspace!Following("readonly") = "still" /\ Workspace!Following("still") = "ready"
  <1> DEFINE Steps == Workspace!Steps
  <1>1. /\ Len(Steps) = 12 /\ Steps[1] = "paths" /\ Steps[2] = "clean" /\ Steps[3] = "resolve" /\ Steps[4] = "mkdir"
        /\ Steps[5] = "clone" /\ Steps[6] = "checkout" /\ Steps[7] = "head" /\ Steps[8] = "tidy"
        /\ Steps[9] = "unmoved" /\ Steps[10] = "links" /\ Steps[11] = "readonly" /\ Steps[12] = "still"
    BY DEF Workspace!Steps
  <1>2. Workspace!StepNames = {Steps[i] : i \in 1 .. 12}
    BY <1>1 DEF Workspace!StepNames
  <1>3. \A i \in 1 .. 12 : \A j \in 1 .. 12 : Steps[i] = Steps[j] => i = j
    BY <1>1
  <1>4. \A i \in 1 .. 12 : Workspace!Following(Steps[i]) = IF i = 12 THEN "ready" ELSE Steps[i + 1]
    <2> SUFFICES ASSUME NEW i \in 1 .. 12
                 PROVE  Workspace!Following(Steps[i]) = IF i = 12 THEN "ready" ELSE Steps[i + 1]
      OBVIOUS
    <2> DEFINE n == CHOOSE j \in 1 .. Len(Steps) : Steps[j] = Steps[i]
    <2>1. n \in 1 .. 12 /\ Steps[n] = Steps[i]
      BY <1>1
    <2>2. n = i
      BY <1>3, <2>1
    <2>3. Workspace!Following(Steps[i]) = IF n = Len(Steps) THEN "ready" ELSE Steps[n + 1]
      BY DEF Workspace!Following
    <2> HIDE DEF n, Steps
    <2>4. QED
      BY <1>1, <2>2, <2>3
  <1> HIDE DEF Steps
  <1>5. Workspace!StepNames = {"paths", "clean", "resolve", "mkdir", "clone", "checkout", "head", "tidy",
                               "unmoved", "links", "readonly", "still"}
    <2>1. \A i \in 1 .. 12 : i \in {1, 2, 3, 4, 5, 6, 7, 8, 9, 10, 11, 12}
      OBVIOUS
    <2>2. QED
      BY <1>1, <1>2, <2>1
  <1>6. QED
    BY <1>1, <1>4, <1>5

LEMMA WorkspaceInit == ASSUME Workspace!Init PROVE Workspace!TypeOK /\ DirectoryInv
  <1> USE WorkspaceAssumption
  <1>1. (CHOOSE k \in GitCommit : TRUE) \in GitCommit
    OBVIOUS
  <1>2. Workspace!TypeOK
    BY <1>1 DEF Workspace!Init, Workspace!TypeOK, Workspace!Absent, Workspace!Contents
  <1>3. \A c \in GitCall : at[c] = "new" /\ \A u \in Uuid : directory[u].by # c
    BY DEF Workspace!Init, Workspace!Absent
  <1>4. QED
    BY <1>2, <1>3, FollowingIs DEF DirectoryInv

\* A step of a call changes its own directory, and no other call's.
LEMMA ProceedKeeps ==
  ASSUME Workspace!TypeOK, DirectoryInv, NEW c \in GitCall, NEW dirty \in BOOLEAN, NEW links \in BOOLEAN,
         Workspace!Proceed(c, dirty, links)
  PROVE  Workspace!TypeOK' /\ DirectoryInv' /\ Workspace!StandAlone
  <1> DEFINE P == Workspace!Place(c)
             s == at[c]
             Next1 == CASE s = "mkdir"    -> [Workspace!Absent EXCEPT !.by = c, !.content = "empty"]
                        [] s = "clone"    -> [directory[P] EXCEPT !.content = "repository"]
                        [] s = "checkout" -> [directory[P] EXCEPT !.content = resolved[c], !.dirty = dirty, !.links = links]
                        [] s = "readonly" -> [directory[P] EXCEPT !.readonly = TRUE]
                        [] OTHER          -> directory[P]
             Dir == [by : GitCall \cup {"nobody", "another"}, content : Workspace!Contents,
                     dirty : BOOLEAN, links : BOOLEAN, readonly : BOOLEAN]
  <1>1. /\ s \in Workspace!StepNames /\ Workspace!Passes(c, s)
        /\ directory' = [directory EXCEPT ![P] = Next1]
        /\ resolved' = IF s = "resolve" THEN [resolved EXCEPT ![c] = source.head] ELSE resolved
        /\ at' = [at EXCEPT ![c] = Workspace!Following(s)]
        /\ record' = IF Workspace!Following(s) = "ready" THEN [record EXCEPT ![Workspace!Key(c)] = "ready"] ELSE record
        /\ UNCHANGED <<asked, reserved, source>>
    BY DEF Workspace!Proceed, Workspace!Done
  <1>2. /\ P \in Uuid /\ Workspace!Key(c) \in GitProvider \X OpId
        /\ directory[P] \in Dir /\ directory \in [Uuid -> Dir] /\ resolved[c] \in Workspace!Contents
    BY <1>1 DEF DirectoryInv, Workspace!TypeOK, Workspace!Place, Workspace!Key, Workspace!Contents
  <1>3. s \in {"clone", "checkout", "head", "tidy", "unmoved", "links", "readonly", "still"} => directory[P].by = c
    BY <1>1 DEF Workspace!Passes, Workspace!VerifySnapshotDirectoryIdentity
  <1>4. s = "mkdir" => directory[P] = Workspace!Absent
    BY <1>1 DEF Workspace!Passes, Workspace!Mkdir
  <1>5. Next1 \in Dir
    <2>1. CASE s = "mkdir"
      BY <2>1 DEF Workspace!Absent, Workspace!Contents
    <2>2. CASE s = "clone"
      BY <1>2, <2>2 DEF Workspace!Contents
    <2>3. CASE s = "checkout"
      BY <1>2, <2>3
    <2>4. CASE s = "readonly"
      BY <1>2, <2>4
    <2>5. CASE s \notin {"mkdir", "clone", "checkout", "readonly"}
      BY <1>2, <2>5
    <2>6. QED
      BY <2>1, <2>2, <2>3, <2>4, <2>5
  <1>6. /\ s \notin {"mkdir", "clone", "checkout", "readonly"} => Next1 = directory[P]
        /\ s = "mkdir" => Next1.by = c
        /\ s = "clone" => Next1.by = directory[P].by
        /\ s = "checkout" => Next1.by = directory[P].by /\ Next1.content = resolved[c]
        /\ s = "readonly" => /\ Next1.readonly /\ Next1.by = directory[P].by
                             /\ Next1.content = directory[P].content /\ Next1.links = directory[P].links
    BY <1>2 DEF Workspace!Absent
  <1>7. Next1 = directory[P] \/ Next1.by = c
    BY <1>1, <1>3, <1>6, FollowingIs
  <1>8. s \notin Unmade => directory[P].by = c
    BY <1>1, <1>3, FollowingIs DEF Unmade
  <1> HIDE DEF Next1
  <1>9. directory' \in [Uuid -> Dir] /\ directory'[P] = Next1 /\ \A u \in Uuid : u # P => directory'[u] = directory[u]
    BY <1>1, <1>2, <1>5
  <1>10. /\ at'[c] = Workspace!Following(s) /\ at'[c] # at[c] /\ \A q \in GitCall : q # c => at'[q] = at[q]
         /\ at' \in [GitCall -> Workspace!StepNames \cup {"new", "refused", "discard", "failed", "ready"}]
    <2>1. at \in [GitCall -> Workspace!StepNames \cup {"new", "refused", "discard", "failed", "ready"}]
      BY DEF Workspace!TypeOK
    <2>2. Workspace!Following(s) \in Workspace!StepNames \cup {"ready"} /\ Workspace!Following(s) # s
      BY <1>1, FollowingIs
    <2>3. QED
      BY <1>1, <2>1, <2>2
  <1>11. /\ resolved' \in [GitCall -> GitCommit \cup {"none"}]
         /\ \A q \in GitCall : q # c => resolved'[q] = resolved[q]
         /\ s # "resolve" => resolved'[c] = resolved[c]
    BY <1>1 DEF Workspace!TypeOK
  <1>12. Workspace!TypeOK'
    BY <1>1, <1>2, <1>9, <1>10, <1>11 DEF Workspace!TypeOK, Workspace!Contents
  <1>13. \A q \in GitCall : Workspace!Place(q)' = Workspace!Place(q)
    BY <1>1 DEF Workspace!Place
  <1>14. ASSUME NEW q \in GitCall, at'[q] \in Unmade, NEW u \in Uuid PROVE directory'[u].by # q
    <2>1. CASE q = c
      <3>1. s \in {"paths", "clean", "resolve"}
        BY <1>1, <1>10, <1>14, <2>1, FollowingIs DEF Unmade
      <3>2. directory'[u] = directory[u] /\ s \in Unmade
        BY <1>6, <1>9, <3>1 DEF Unmade
      <3>3. QED
        BY <2>1, <3>2 DEF DirectoryInv
    <2>2. CASE q # c
      <3>1. directory[u].by # q
        BY <1>10, <1>14, <2>2 DEF DirectoryInv
      <3>2. QED
        BY <1>7, <1>9, <2>2, <3>1
    <2>3. QED
      BY <2>1, <2>2
  <1>15. \A q \in GitCall : at'[q] \in Workspace!StepNames \cup {"discard"} => asked'[q] \in GitProvider \X OpId \X Uuid
    BY <1>1, <1>10 DEF DirectoryInv
  <1>16. ASSUME NEW q \in GitCall, at'[q] \in Workspace!StepNames, directory'[Workspace!Place(q)].by = q
         PROVE  /\ at'[q] \in CheckedOut => directory'[Workspace!Place(q)].content = resolved'[q]
                /\ at'[q] \in {"readonly", "still"} => ~directory'[Workspace!Place(q)].links
                /\ at'[q] = "still" => directory'[Workspace!Place(q)].readonly
    <2>1. CASE q # c
      <3>1. at[q] = at'[q] /\ resolved'[q] = resolved[q] /\ Workspace!Place(q) \in Uuid
        BY <1>10, <1>11, <1>16, <2>1 DEF DirectoryInv, Workspace!Place
      <3>2. directory'[Workspace!Place(q)] = directory[Workspace!Place(q)]
        BY <1>7, <1>9, <1>16, <2>1, <3>1
      <3>3. QED
        BY <1>16, <3>1, <3>2 DEF DirectoryInv
    <2>2. CASE q = c
      <3>1. s \notin Unmade => /\ s \in CheckedOut => directory[P].content = resolved[c]
                               /\ s \in {"readonly", "still"} => ~directory[P].links
                               /\ s = "still" => directory[P].readonly
        BY <1>1, <1>8 DEF DirectoryInv
      <3>2. s = "links" => ~directory[P].links
        BY <1>1 DEF Workspace!Passes, Workspace!RejectTreeSymlinks
      <3>3. at'[c] \in CheckedOut => s \in {"checkout", "head", "tidy", "unmoved", "links", "readonly"}
        BY <1>1, <1>10, FollowingIs DEF CheckedOut
      <3>4. at'[c] \in {"readonly", "still"} => s \in {"links", "readonly"}
        BY <1>1, <1>10, FollowingIs
      <3>5. at'[c] = "still" => s = "readonly"
        BY <1>1, <1>10, FollowingIs
      <3>6. directory'[P] = Next1 /\ (s # "resolve" => resolved'[c] = resolved[c])
        BY <1>9, <1>11
      <3>7. at'[c] \in CheckedOut => Next1.content = resolved[c] /\ s # "resolve"
        BY <1>6, <3>1, <3>3 DEF Unmade, CheckedOut
      <3>8. at'[c] \in {"readonly", "still"} => ~Next1.links
        BY <1>6, <3>1, <3>2, <3>4 DEF Unmade
      <3>9. at'[c] = "still" => Next1.readonly
        BY <1>6, <3>5
      <3>10. QED
        BY <2>2, <3>6, <3>7, <3>8, <3>9
    <2>3. QED
      BY <2>1, <2>2
  <1>17. DirectoryInv'
    BY <1>13, <1>14, <1>15, <1>16 DEF DirectoryInv
  <1>18. ASSUME NEW q \in GitCall, Workspace!HandedOut(q) PROVE Workspace!Whole(q)' /\ Workspace!Whole(q)
    <2>1. q = c /\ s = "still"
      BY <1>1, <1>10, <1>18, FollowingIs DEF Workspace!HandedOut
    <2>2. directory[P].by = c /\ ~directory[P].dirty
      BY <1>1, <1>3, <2>1 DEF Workspace!Passes, Workspace!RequireCleanSnapshot
    <2>3. directory[P].content = resolved[c] /\ ~directory[P].links /\ directory[P].readonly
      BY <1>1, <2>1, <2>2 DEF DirectoryInv, CheckedOut
    <2>4. directory[P] = [by |-> c, content |-> resolved[c], dirty |-> FALSE, links |-> FALSE, readonly |-> TRUE]
      BY <1>2, <2>2, <2>3
    <2>5. directory'[P] = directory[P] /\ resolved'[c] = resolved[c]
      BY <1>6, <1>9, <1>11, <2>1
    <2>6. QED
      BY <1>13, <2>1, <2>4, <2>5 DEF Workspace!Whole
  <1>19. ASSUME NEW u \in Uuid, Workspace!Touched(u)
         PROVE  directory[u].by = "nobody" \/ \E q \in GitCall : directory[u].by = q /\ at'[q] # at[q]
    <2>1. u = P /\ Next1 # directory[P]
      BY <1>9, <1>19 DEF Workspace!Touched
    <2>2. s \in {"mkdir", "clone", "checkout", "readonly"}
      BY <1>6, <2>1
    <2>3. QED
      BY <1>3, <1>4, <1>10, <2>1, <2>2 DEF Workspace!Absent
  <1>20. QED
    BY <1>12, <1>17, <1>18, <1>19 DEF Workspace!StandAlone

\* What removes or replaces a directory leaves the call no claim to it.
LEMMA DirectoriesGo ==
  ASSUME Workspace!TypeOK, DirectoryInv, UNCHANGED <<asked, reserved, resolved>>,
         directory' \in [Uuid -> [by : GitCall \cup {"nobody", "another"}, content : Workspace!Contents,
                                  dirty : BOOLEAN, links : BOOLEAN, readonly : BOOLEAN]],
         \A u \in Uuid : directory'[u] = directory[u] \/ directory'[u].by \in {"nobody", "another"},
         at' \in [GitCall -> Workspace!StepNames \cup {"new", "refused", "discard", "failed", "ready"}],
         \A c \in GitCall : at'[c] = at[c] \/ (at'[c] \in {"discard", "failed"} /\ at[c] \in Workspace!StepNames \cup {"discard"})
  PROVE  DirectoryInv'
  <1>1. \A c \in GitCall : Workspace!Place(c)' = Workspace!Place(c)
    BY DEF Workspace!Place
  <1>2. \A c \in GitCall : at'[c] \in Workspace!StepNames => at'[c] = at[c]
    BY FollowingIs
  <1>3. ASSUME NEW c \in GitCall, at'[c] \in Unmade, NEW u \in Uuid PROVE directory'[u].by # c
    <2>1. at[c] = at'[c]
      BY <1>3 DEF Unmade
    <2>2. QED
      BY <1>3, <2>1, WorkspaceAssumption DEF DirectoryInv
  <1>4. \A c \in GitCall : at'[c] \in Workspace!StepNames \cup {"discard"} => asked'[c] \in GitProvider \X OpId \X Uuid
    BY <1>2 DEF DirectoryInv
  <1>5. ASSUME NEW c \in GitCall, at'[c] \in Workspace!StepNames, directory'[Workspace!Place(c)].by = c
        PROVE  at[c] = at'[c] /\ directory'[Workspace!Place(c)] = directory[Workspace!Place(c)]
    <2>1. at[c] = at'[c] /\ Workspace!Place(c) \in Uuid
      BY <1>2, <1>5 DEF DirectoryInv, Workspace!Place
    <2>2. QED
      BY <1>5, <2>1, WorkspaceAssumption
  <1>6. QED
    BY <1>1, <1>3, <1>4, <1>5 DEF DirectoryInv

LEMMA PrepareKeeps ==
  ASSUME Workspace!TypeOK, DirectoryInv, NEW c \in GitCall, NEW p \in GitProvider, NEW o \in OpId,
         NEW u \in Uuid, NEW d, Workspace!Prepare(c, p, o, u, d)
  PROVE  Workspace!TypeOK' /\ DirectoryInv' /\ Workspace!StandAlone
  <1>1. /\ at[c] = "new" /\ UNCHANGED <<resolved, directory, source>>
        /\ \/ at' = [at EXCEPT ![c] = "refused"] /\ UNCHANGED <<asked, record, reserved>>
           \/ /\ asked' = [asked EXCEPT ![c] = <<p, o, u>>]
              /\ at' = [at EXCEPT ![c] = "paths"] \/ at' = [at EXCEPT ![c] = "failed"]
              /\ \/ record' = [record EXCEPT ![<<p, o>>] = "preparing"]
                 \/ record' = [record EXCEPT ![<<p, o>>] = "failed"]
              /\ reserved' = reserved \/ reserved' = [reserved EXCEPT ![p] = @ \cup {u}]
    BY DEF Workspace!Prepare
  <1>2. /\ at \in [GitCall -> Workspace!StepNames \cup {"new", "refused", "discard", "failed", "ready"}]
        /\ asked \in [GitCall -> (GitProvider \X OpId \X Uuid) \cup {<<>>}]
    BY DEF Workspace!TypeOK
  <1>3. /\ at' \in [GitCall -> Workspace!StepNames \cup {"new", "refused", "discard", "failed", "ready"}]
        /\ at'[c] \in {"paths", "failed", "refused"} /\ \A q \in GitCall : q # c => at'[q] = at[q]
    BY <1>1, <1>2, FollowingIs
  <1>4. /\ asked' \in [GitCall -> (GitProvider \X OpId \X Uuid) \cup {<<>>}]
        /\ \A q \in GitCall : q # c => asked'[q] = asked[q]
        /\ at'[c] = "paths" => asked'[c] \in GitProvider \X OpId \X Uuid
    BY <1>1, <1>2
  <1>5. record' \in [GitProvider \X OpId -> {"none", "preparing", "ready", "failed"}]
    BY <1>1 DEF Workspace!TypeOK
  <1>6. reserved' \in [GitProvider -> SUBSET Uuid]
    BY <1>1 DEF Workspace!TypeOK
  <1>7. Workspace!TypeOK'
    BY <1>1, <1>3, <1>4, <1>5, <1>6 DEF Workspace!TypeOK
  <1>8. \A q \in GitCall : q # c => Workspace!Place(q)' = Workspace!Place(q)
    BY <1>4 DEF Workspace!Place
  <1>9. \A v \in Uuid : directory[v].by # c
    BY <1>1 DEF DirectoryInv, Unmade
  <1>10. \A q \in GitCall : at'[q] \in Unmade => \A v \in Uuid : directory'[v].by # q
    BY <1>1, <1>3, <1>9 DEF DirectoryInv
  <1>11. \A q \in GitCall : at'[q] \in Workspace!StepNames \cup {"discard"} => asked'[q] \in GitProvider \X OpId \X Uuid
    BY <1>1, <1>3, <1>4, FollowingIs DEF DirectoryInv
  <1>12. ASSUME NEW q \in GitCall, at'[q] \in Workspace!StepNames, directory'[Workspace!Place(q)'].by = q PROVE q # c
    <2>1. Workspace!Place(q)' \in Uuid
      BY <1>11, <1>12 DEF Workspace!Place
    <2>2. QED
      BY <1>1, <1>9, <1>12, <2>1
  <1>13. DirectoryInv'
    BY <1>1, <1>3, <1>8, <1>10, <1>11, <1>12 DEF DirectoryInv
  <1>14. Workspace!StandAlone
    BY <1>1, <1>3 DEF Workspace!StandAlone, Workspace!HandedOut, Workspace!Touched
  <1>15. QED
    BY <1>7, <1>13, <1>14

LEMMA WorkspaceStep ==
  ASSUME Workspace!TypeOK, DirectoryInv, [Workspace!Next]_(Workspace!workspaceVars)
  PROVE  Workspace!TypeOK' /\ DirectoryInv' /\ [Workspace!StandAlone]_(Workspace!workspaceVars)
  <1> DEFINE Dir == [by : GitCall \cup {"nobody", "another"}, content : Workspace!Contents,
                     dirty : BOOLEAN, links : BOOLEAN, readonly : BOOLEAN]
             Places == Workspace!StepNames \cup {"new", "refused", "discard", "failed", "ready"}
  <1>1. /\ directory \in [Uuid -> Dir] /\ at \in [GitCall -> Places] /\ Workspace!Absent \in Dir
        /\ record \in [GitProvider \X OpId -> {"none", "preparing", "ready", "failed"}]
    BY DEF Workspace!TypeOK, Workspace!Absent, Workspace!Contents
  <1>2. ASSUME NEW c \in GitCall, Workspace!Fails(c) PROVE Workspace!TypeOK' /\ DirectoryInv' /\ Workspace!StandAlone
    <2>1. /\ at[c] \in Workspace!StepNames /\ at' = [at EXCEPT ![c] = "discard"]
          /\ UNCHANGED <<asked, record, reserved, resolved, directory, source>>
      BY <1>2 DEF Workspace!Fails
    <2>2. at' \in [GitCall -> Places] /\ at'[c] = "discard" /\ \A q \in GitCall : q # c => at'[q] = at[q]
      BY <1>1, <2>1
    <2>3. Workspace!TypeOK'
      BY <2>1, <2>2 DEF Workspace!TypeOK
    <2>4. DirectoryInv'
      BY <1>1, <2>1, <2>2, DirectoriesGo
    <2>5. QED
      BY <2>1, <2>2, <2>3, <2>4 DEF Workspace!StandAlone, Workspace!HandedOut, Workspace!Touched
  <1>3. ASSUME NEW c \in GitCall, Workspace!Discard(c) PROVE Workspace!TypeOK' /\ DirectoryInv' /\ Workspace!StandAlone
    <2>1. /\ at[c] = "discard" /\ at' = [at EXCEPT ![c] = "failed"] /\ record' = [record EXCEPT ![Workspace!Key(c)] = "failed"]
          /\ UNCHANGED <<asked, reserved, resolved, source>>
          /\ \/ directory' = directory
             \/ /\ directory[Workspace!Place(c)].by = c
                /\ directory' = [directory EXCEPT ![Workspace!Place(c)] = Workspace!Absent]
      BY <1>3 DEF Workspace!Discard, Workspace!DiscardPreparationTree, Workspace!Made
    <2>2. Workspace!Place(c) \in Uuid /\ Workspace!Key(c) \in GitProvider \X OpId
      BY <2>1 DEF DirectoryInv, Workspace!Place, Workspace!Key
    <2>3. at' \in [GitCall -> Places] /\ at'[c] = "failed" /\ \A q \in GitCall : q # c => at'[q] = at[q]
      BY <1>1, <2>1
    <2>4. /\ directory' \in [Uuid -> Dir]
          /\ \A u \in Uuid : \/ directory'[u] = directory[u]
                             \/ u = Workspace!Place(c) /\ directory[u].by = c /\ directory'[u].by = "nobody"
      <3>1. CASE directory' = directory
        BY <1>1, <3>1
      <3>2. CASE directory[Workspace!Place(c)].by = c /\ directory' = [directory EXCEPT ![Workspace!Place(c)] = Workspace!Absent]
        <4>1. Workspace!Absent.by = "nobody"
          BY DEF Workspace!Absent
        <4> HIDE DEF Dir
        <4>2. QED
          BY <1>1, <2>2, <3>2, <4>1
      <3>3. QED
        BY <2>1, <3>1, <3>2
    <2>5. record' \in [GitProvider \X OpId -> {"none", "preparing", "ready", "failed"}]
      BY <1>1, <2>1, <2>2
    <2>6. Workspace!TypeOK'
      BY <2>1, <2>3, <2>4, <2>5 DEF Workspace!TypeOK
    <2>7. DirectoryInv'
      BY <2>1, <2>3, <2>4, DirectoriesGo
    <2>8. QED
      BY <2>1, <2>3, <2>4, <2>6, <2>7 DEF Workspace!StandAlone, Workspace!HandedOut, Workspace!Touched
  <1>4. ASSUME Workspace!Edit \/ \E k \in GitCommit : Workspace!Commits(k)
        PROVE  Workspace!TypeOK' /\ DirectoryInv' /\ Workspace!StandAlone
    <2>1. UNCHANGED <<at, asked, record, reserved, resolved, directory>>
      BY <1>4 DEF Workspace!Edit, Workspace!Commits
    <2>2. source' \in [head : GitCommit, dirty : BOOLEAN]
      <3>1. source \in [head : GitCommit, dirty : BOOLEAN]
        BY DEF Workspace!TypeOK
      <3>2. CASE \E k \in GitCommit : Workspace!Commits(k)
        BY <3>2 DEF Workspace!Commits
      <3>3. CASE Workspace!Edit
        <4> DEFINE b == ~source.dirty
        <4>1. b \in BOOLEAN /\ source' = [source EXCEPT !.dirty = b]
          BY <3>3 DEF Workspace!Edit
        <4> HIDE DEF b
        <4>2. QED
          BY <3>1, <4>1
      <3>4. QED
        BY <1>4, <3>2, <3>3
    <2>3. Workspace!TypeOK'
      BY <2>1, <2>2 DEF Workspace!TypeOK
    <2>4. DirectoryInv'
      BY <1>1, <2>1, DirectoriesGo
    <2>5. QED
      BY <2>1, <2>3, <2>4 DEF Workspace!StandAlone, Workspace!HandedOut, Workspace!Touched
  <1>5. ASSUME NEW u \in Uuid, Workspace!Replace(u) PROVE Workspace!TypeOK' /\ DirectoryInv' /\ Workspace!StandAlone
    <2>1. /\ directory' = [directory EXCEPT ![u] = [Workspace!Absent EXCEPT !.by = "another"]]
          /\ UNCHANGED <<at, asked, record, reserved, resolved, source>>
      BY <1>5 DEF Workspace!Replace
    <2>2. [Workspace!Absent EXCEPT !.by = "another"] \in Dir /\ [Workspace!Absent EXCEPT !.by = "another"].by = "another"
      BY DEF Workspace!Absent, Workspace!Contents
    <2>3. directory' \in [Uuid -> Dir] /\ \A v \in Uuid : directory'[v] = directory[v] \/ directory'[v].by = "another"
      <3> HIDE DEF Dir
      <3>1. QED
        BY <1>1, <2>1, <2>2
    <2>4. Workspace!TypeOK'
      BY <2>1, <2>3 DEF Workspace!TypeOK
    <2>5. DirectoryInv'
      BY <1>1, <2>1, <2>3, DirectoriesGo
    <2>6. QED
      BY <2>1, <2>3, <2>4, <2>5 DEF Workspace!StandAlone, Workspace!HandedOut, Workspace!Touched
  <1>6. CASE UNCHANGED Workspace!workspaceVars
    <2>1. UNCHANGED <<at, asked, record, reserved, resolved, directory, source>>
      BY <1>6 DEF Workspace!workspaceVars
    <2>2. Workspace!TypeOK'
      BY <2>1 DEF Workspace!TypeOK
    <2>3. DirectoryInv'
      BY <1>1, <2>1, DirectoriesGo
    <2>4. QED
      BY <1>6, <2>2, <2>3
  <1>7. CASE Workspace!Next
    <2>1. \A c \in GitCall, p \in GitProvider, o \in OpId, u \in Uuid, d \in {"nothing", "request", "provider", "locator"} :
            Workspace!Prepare(c, p, o, u, d) => Workspace!TypeOK' /\ DirectoryInv' /\ Workspace!StandAlone
      BY PrepareKeeps
    <2>2. \A c \in GitCall, dirty, links \in BOOLEAN :
            Workspace!Proceed(c, dirty, links) => Workspace!TypeOK' /\ DirectoryInv' /\ Workspace!StandAlone
      BY ProceedKeeps
    <2>3. Workspace!TypeOK' /\ DirectoryInv' /\ Workspace!StandAlone
      BY <1>2, <1>3, <1>4, <1>5, <1>7, <2>1, <2>2 DEF Workspace!Next
    <2>4. QED
      BY <2>3
  <1>8. QED
    BY <1>6, <1>7

\* A snapshot that is handed out is the commit it was resolved to, clean, without links
\* and read-only, in a directory its own call made; and nobody else's directory is
\* touched by any call, also when two providers were given the same name for it.
THEOREM HandedOutStandsAlone == Spec => SnapshotsStandAlone
  <1> DEFINE Inv == picked = "workspace" => (Workspace!TypeOK /\ DirectoryInv)
  <1>1. Init => Inv
    BY WorkspaceInit DEF Init
  <1>2. Inv /\ [Next]_allVars => Inv' /\ [picked = "workspace" => Workspace!StandAlone]_allVars
    <2> SUFFICES ASSUME Inv, [Next]_allVars
                 PROVE  Inv' /\ [picked = "workspace" => Workspace!StandAlone]_allVars
      OBVIOUS
    <2>1. picked' = picked /\ (picked = "workspace" => [Workspace!Next]_(Workspace!workspaceVars))
      BY OneIsPicked
    <2>2. CASE picked = "workspace"
      <3>1. Workspace!TypeOK' /\ DirectoryInv' /\ [Workspace!StandAlone]_(Workspace!workspaceVars)
        BY <2>1, <2>2, WorkspaceStep
      <3>2. UNCHANGED Workspace!workspaceVars => Workspace!StandAlone
        BY DEF Workspace!workspaceVars, Workspace!StandAlone, Workspace!HandedOut, Workspace!Touched
      <3>3. Workspace!StandAlone
        BY <3>1, <3>2
      <3>4. QED
        BY <3>1, <3>3
    <2>3. QED
      BY <2>1, <2>2
  <1> HIDE DEF Inv
  <1>3. QED
    BY <1>1, <1>2, PTL DEF Spec, SnapshotsStandAlone

HIDE DEF at, asked, record, reserved, resolved, directory, source

-----------------------------------------------------------------------------
(* AgentService                                                            *)

catalog == v1
snapshots == v2
owners == v3
runs == v4
call == v5
told == v6
failed == v7
restarts == v8

USE DEF catalog, snapshots, owners, runs, call, told, failed, restarts

CallType == [at : {"new", "looking", "reserving", "over"}, asked : StartRequested \cup {None}, owned : BOOLEAN]
States == {"none", "preparing", "ready", "failed", "lost"}

CallInv ==
  /\ call \in [Client -> CallType] /\ told \in [Client -> {"nothing", "run", "refused"}]
  /\ owners \in [Snapshot -> RequestId \cup {None}] /\ snapshots \in [Snapshot -> States]
  /\ runs \in [RequestId -> {Facade!Intent(q) : q \in StartRequested} \cup {None}]
  /\ \A c \in Client : call[c].at = "new" <=> call[c].asked = None
  /\ \A c \in Client : told[c] = "run" => call[c].at = "over" /\ call[c].asked # None

\* What is reserved is acknowledged, and its snapshot is there.
ReserveInv == \A c \in Client : call[c].at = "reserving" =>
  Facade!Acknowledged(call[c].asked) /\ snapshots[call[c].asked.snapshot] = "ready"

\* A snapshot no submission failed for is owned by whoever has or reserves a run on it,
\* unless the process that knew it is gone.
OwnerInv ==
  /\ \A c \in Client : call[c].at = "reserving" /\ call[c].asked.snapshot \notin failed =>
       owners[call[c].asked.snapshot] = call[c].asked.id
  /\ \A r \in RequestId : runs[r] # None => snapshots[runs[r].snapshot] \in {"ready", "lost"}
  /\ \A r \in RequestId : runs[r] # None /\ runs[r].snapshot \notin failed =>
       owners[runs[r].snapshot] = r \/ snapshots[runs[r].snapshot] = "lost"

ServiceInv == CallInv /\ ReserveInv /\ OwnerInv /\ Facade!AnswersMatch /\ Facade!EffectsAcknowledged
              /\ Facade!OneRequestPerSnapshot

LEMMA ServiceInit == ASSUME Facade!Init PROVE ServiceInv
  <1> USE RequestAssumption DEF Facade!Init
  <1>1. CallInv
    BY DEF CallInv, CallType, States
  <1>2. ReserveInv /\ OwnerInv /\ Facade!AnswersMatch /\ Facade!EffectsAcknowledged /\ Facade!OneRequestPerSnapshot
    BY DEF ReserveInv, OwnerInv, Facade!AnswersMatch, Facade!EffectsAcknowledged, Facade!OneRequestPerSnapshot
  <1>3. QED
    BY <1>1, <1>2 DEF ServiceInv

\* A call that asked something keeps what it asked, and what it was told stays true.
LEMMA AskedStays ==
  ASSUME ServiceInv, CallInv',
         \A c \in Client : call[c].asked # None => call'[c].asked = call[c].asked,
         \A r \in RequestId : runs[r] # None => runs'[r] = runs[r],
         \A r \in RequestId : runs'[r] # runs[r] => \E c \in Client :
           call'[c].asked \in StartRequested /\ call'[c].asked.id = r /\ Facade!Acknowledged(call'[c].asked)
           /\ runs'[r] = Facade!Intent(call'[c].asked),
         \A c \in Client : told'[c] = "run" => \/ told[c] = "run"
                                             \/ runs'[call'[c].asked.id] = Facade!Intent(call'[c].asked)
  PROVE  Facade!AnswersMatch' /\ Facade!EffectsAcknowledged'
  <1>1. Facade!AnswersMatch'
    <2> SUFFICES ASSUME NEW c \in Client, told'[c] = "run"
                 PROVE  runs'[call'[c].asked.id] = Facade!Intent(call'[c].asked)
      BY DEF Facade!AnswersMatch, Facade!Intent, Facade!Normalized
    <2>1. CASE told[c] = "run"
      <3>1. call[c].asked \in StartRequested /\ runs[call[c].asked.id] = Facade!Intent(call[c].asked)
        BY <2>1 DEF ServiceInv, CallInv, CallType, Facade!AnswersMatch
      <3>2. call[c].asked # None /\ runs[call[c].asked.id] # None /\ call[c].asked.id \in RequestId
        BY <3>1, RequestAssumption
      <3>3. QED
        BY <3>1, <3>2
    <2>2. CASE told[c] # "run"
      BY <2>2
    <2>3. QED
      BY <2>1, <2>2
  <1>2. Facade!EffectsAcknowledged'
    <2> SUFFICES ASSUME NEW r \in RequestId, runs'[r] # None, runs'[r].test \in Sensitive
                 PROVE  \E c \in Client : call'[c].asked # None /\ call'[c].asked.id = r /\ call'[c].asked.acknowledged
      BY DEF Facade!EffectsAcknowledged
    <2>1. CASE runs'[r] = runs[r]
      <3>1. PICK c \in Client : call[c].asked # None /\ call[c].asked.id = r /\ call[c].asked.acknowledged
        BY <2>1 DEF ServiceInv, Facade!EffectsAcknowledged
      <3>2. QED
        BY <3>1
    <2>2. CASE runs'[r] # runs[r]
      <3>1. PICK c \in Client : /\ call'[c].asked \in StartRequested /\ call'[c].asked.id = r /\ Facade!Acknowledged(call'[c].asked)
                              /\ runs'[r] = Facade!Intent(call'[c].asked)
        BY <2>2
      <3>2. call'[c].asked.test \in Sensitive /\ call'[c].asked # None
        BY <3>1, RequestAssumption DEF Facade!Intent
      <3>3. QED
        BY <3>1, <3>2 DEF Facade!Acknowledged
    <2>3. QED
      BY <2>1, <2>2
  <1>3. QED
    BY <1>1, <1>2

\* What changes neither the runs nor an owner nor a snapshot that is ready or lost.
LEMMA OwnersStay ==
  ASSUME ServiceInv, runs' = runs, failed \subseteq failed',
         \A s \in Snapshot : s \notin failed' => owners'[s] = owners[s],
         \A s \in Snapshot : snapshots[s] \in {"ready", "lost"} => snapshots'[s] = snapshots[s],
         \A c \in Client : call'[c].at = "reserving" => call'[c].asked = call[c].asked /\ call[c].at = "reserving"
  PROVE  OwnerInv' /\ ReserveInv' /\ Facade!OneRequestPerSnapshot'
  <1>1. \A c \in Client : call[c].at = "reserving" => call[c].asked.snapshot \in Snapshot
    BY RequestAssumption DEF ServiceInv, CallInv, CallType
  <1>2. \A r \in RequestId : runs[r] # None => runs[r].snapshot \in Snapshot
    BY RequestAssumption DEF ServiceInv, CallInv, Facade!Intent
  <1>3. ReserveInv'
    BY <1>1 DEF ServiceInv, ReserveInv, Facade!Acknowledged
  <1>4. OwnerInv'
    BY <1>1, <1>2 DEF ServiceInv, OwnerInv
  <1>5. Facade!OneRequestPerSnapshot'
    BY DEF ServiceInv, Facade!OneRequestPerSnapshot
  <1>6. QED
    BY <1>3, <1>4, <1>5

LEMMA MemoryKeeps ==
  ASSUME ServiceInv,
         UNCHANGED <<owners, runs, call, told, failed>>, snapshots' \in [Snapshot -> States],
         \A s \in Snapshot : snapshots[s] \in {"ready", "lost"} => snapshots'[s] = snapshots[s]
  PROVE  ServiceInv'
  <1>1. CallInv'
    BY DEF ServiceInv, CallInv, Facade!Intent, Facade!Normalized
  <1>2. Facade!AnswersMatch' /\ Facade!EffectsAcknowledged'
    BY DEF ServiceInv, Facade!AnswersMatch, Facade!EffectsAcknowledged, Facade!Intent, Facade!Normalized
  <1>3. OwnerInv' /\ ReserveInv' /\ Facade!OneRequestPerSnapshot'
    BY OwnersStay
  <1>4. QED
    BY <1>1, <1>2, <1>3 DEF ServiceInv

\* An answer without a run that is new to the store.
LEMMA AnswerKeeps ==
  ASSUME ServiceInv, NEW c \in Client, call[c].at \in {"looking", "reserving"}, NEW a \in {"run", "refused"},
         Facade!Answer(c, a), UNCHANGED <<runs, snapshots>>,
         a = "run" => runs[call[c].asked.id] = Facade!Intent(call[c].asked),
         failed \subseteq failed', owners' \in [Snapshot -> RequestId \cup {None}],
         \A s \in Snapshot : s \notin failed' => owners'[s] = owners[s]
  PROVE  ServiceInv'
  <1>1. call' = [call EXCEPT ![c].at = "over"] /\ told' = [told EXCEPT ![c] = a]
    BY DEF Facade!Answer, Facade!Goes
  <1>2. call \in [Client -> CallType] /\ told \in [Client -> {"nothing", "run", "refused"}] /\ call[c].asked # None
    BY DEF ServiceInv, CallInv
  <1>3. /\ call' \in [Client -> CallType] /\ call'[c].at = "over" /\ call'[c].asked = call[c].asked
        /\ \A d \in Client : d # c => call'[d] = call[d]
    BY <1>1, <1>2 DEF CallType
  <1>4. /\ told' \in [Client -> {"nothing", "run", "refused"}] /\ told'[c] = a
        /\ \A d \in Client : d # c => told'[d] = told[d]
    BY <1>1, <1>2
  <1>5. CallInv'
    <2>1. \A d \in Client : call'[d].at = "new" <=> call'[d].asked = None
      BY <1>2, <1>3 DEF ServiceInv, CallInv
    <2>2. \A d \in Client : told'[d] = "run" => call'[d].at = "over" /\ call'[d].asked # None
      BY <1>2, <1>3, <1>4 DEF ServiceInv, CallInv
    <2>3. runs' \in [RequestId -> {Facade!Intent(q) : q \in StartRequested} \cup {None}] /\ snapshots' \in [Snapshot -> States]
      BY DEF ServiceInv, CallInv
    <2>4. QED
      BY <1>3, <1>4, <2>1, <2>2, <2>3 DEF CallInv, Facade!Intent, Facade!Normalized
  <1>6. Facade!AnswersMatch' /\ Facade!EffectsAcknowledged'
    <2>1. \A d \in Client : call[d].asked # None => call'[d].asked = call[d].asked
      BY <1>3
    <2>2. \A d \in Client : told'[d] = "run" => told[d] = "run" \/ runs'[call'[d].asked.id] = Facade!Intent(call'[d].asked)
      BY <1>3, <1>4
    <2>3. QED
      BY <1>5, <2>1, <2>2, AskedStays
  <1>7. OwnerInv' /\ ReserveInv' /\ Facade!OneRequestPerSnapshot'
    <2>1. \A d \in Client : call'[d].at = "reserving" => call'[d].asked = call[d].asked /\ call[d].at = "reserving"
      BY <1>3
    <2>2. QED
      BY <2>1, OwnersStay
  <1>8. QED
    BY <1>5, <1>6, <1>7 DEF ServiceInv

LEMMA RejectedKeeps ==
  ASSUME ServiceInv, NEW c \in Client, call[c].at = "reserving", Facade!Rejected(c), UNCHANGED <<runs, snapshots>>
  PROVE  ServiceInv'
  <1>1. call[c].asked.snapshot \in Snapshot /\ owners \in [Snapshot -> RequestId \cup {None}]
    BY RequestAssumption DEF ServiceInv, CallInv, CallType
  <1>2. /\ Facade!Answer(c, "refused") /\ failed' = failed \cup {call[c].asked.snapshot}
        /\ owners' = owners \/ owners' = [owners EXCEPT ![call[c].asked.snapshot] = None]
    BY DEF Facade!Rejected
  <1>3. owners' \in [Snapshot -> RequestId \cup {None}] /\ \A s \in Snapshot : s \notin failed' => owners'[s] = owners[s]
    BY <1>1, <1>2
  <1>4. QED
    BY <1>2, <1>3, AnswerKeeps

LEMMA StartKeeps == ASSUME ServiceInv, NEW c \in Client, NEW q \in StartRequested, Facade!Start(c, q) PROVE ServiceInv'
  <1>1. PICK a \in {"looking", "over"}, n \in {"nothing", "refused"} :
          /\ call' = [call EXCEPT ![c] = [at |-> a, asked |-> q, owned |-> FALSE]] /\ told' = [told EXCEPT ![c] = n]
    BY DEF Facade!Start
  <1>2. call[c].at = "new" /\ call[c].asked = None /\ UNCHANGED <<snapshots, owners, runs, failed>> /\ told[c] # "run"
    BY DEF Facade!Start, ServiceInv, CallInv
  <1>3. call \in [Client -> CallType] /\ told \in [Client -> {"nothing", "run", "refused"}]
    BY DEF ServiceInv, CallInv
  <1>4. /\ call' \in [Client -> CallType] /\ call'[c].at = a /\ call'[c].asked = q
        /\ \A d \in Client : d # c => call'[d] = call[d]
    BY <1>1, <1>3 DEF CallType
  <1>5. /\ told' \in [Client -> {"nothing", "run", "refused"}] /\ told'[c] = n
        /\ \A d \in Client : d # c => told'[d] = told[d]
    BY <1>1, <1>3
  <1>6. CallInv'
    <2>1. \A d \in Client : call'[d].at = "new" <=> call'[d].asked = None
      BY <1>4, RequestAssumption DEF ServiceInv, CallInv
    <2>2. \A d \in Client : told'[d] = "run" => call'[d].at = "over" /\ call'[d].asked # None
      BY <1>4, <1>5 DEF ServiceInv, CallInv
    <2>3. runs' \in [RequestId -> {Facade!Intent(r) : r \in StartRequested} \cup {None}]
      BY <1>2 DEF ServiceInv, CallInv
    <2>4. QED
      BY <1>2, <1>4, <1>5, <2>1, <2>2, <2>3 DEF ServiceInv, CallInv, Facade!Intent, Facade!Normalized
  <1>7. Facade!AnswersMatch' /\ Facade!EffectsAcknowledged'
    <2>1. \A d \in Client : call[d].asked # None => call'[d].asked = call[d].asked
      BY <1>2, <1>4
    <2>2. \A d \in Client : told'[d] = "run" => told[d] = "run"
      BY <1>5
    <2>3. QED
      BY <1>2, <1>6, <2>1, <2>2, AskedStays
  <1>8. OwnerInv' /\ ReserveInv' /\ Facade!OneRequestPerSnapshot'
    <2>1. \A d \in Client : call'[d].at = "reserving" => call'[d].asked = call[d].asked /\ call[d].at = "reserving"
      BY <1>4
    <2>2. QED
      BY <1>2, <2>1, OwnersStay
  <1>9. QED
    BY <1>6, <1>7, <1>8 DEF ServiceInv

\* The snapshot is the request's from here on.
LEMMA SubmitKeeps == ASSUME ServiceInv, NEW c \in Client, Facade!Submit(c) PROVE ServiceInv'
  <1> DEFINE q == call[c].asked
  <1>1. call[c].at = "looking" /\ q # None /\ q \in StartRequested /\ UNCHANGED <<snapshots, runs, failed>>
    BY DEF Facade!Submit, ServiceInv, CallInv, CallType
  <1>2. CASE ~(Facade!Submittable(q) /\ Facade!Mine(c))
    <2>1. Facade!Answer(c, "refused") /\ owners' = owners
      BY <1>2 DEF Facade!Submit
    <2>2. owners' \in [Snapshot -> RequestId \cup {None}]
      BY <2>1 DEF ServiceInv, CallInv
    <2>3. QED
      BY <1>1, <2>1, <2>2, AnswerKeeps
  <1>3. CASE Facade!Submittable(q) /\ Facade!Mine(c)
    <2>1. PICK o \in BOOLEAN : call' = [call EXCEPT ![c].at = "reserving", ![c].owned = o]
      BY <1>3 DEF Facade!Submit
    <2>2. told' = told /\ owners' = [owners EXCEPT ![q.snapshot] = q.id]
      BY <1>3 DEF Facade!Submit
    <2>3. q.id \in RequestId /\ q.snapshot \in Snapshot
      BY <1>1, RequestAssumption
    <2>4. call \in [Client -> CallType] /\ owners \in [Snapshot -> RequestId \cup {None}]
      BY DEF ServiceInv, CallInv
    <2>5. /\ call' \in [Client -> CallType] /\ call'[c].at = "reserving" /\ call'[c].asked = q
          /\ \A d \in Client : d # c => call'[d] = call[d]
      BY <2>1, <2>4 DEF CallType
    <2>6. /\ owners' \in [Snapshot -> RequestId \cup {None}] /\ owners'[q.snapshot] = q.id
          /\ \A s \in Snapshot : s # q.snapshot => owners'[s] = owners[s]
      BY <2>2, <2>3, <2>4
    <2>7. /\ snapshots[q.snapshot] = "ready" /\ Facade!Acknowledged(q) /\ owners[q.snapshot] \in {None, q.id}
      BY <1>3 DEF Facade!Submittable, Facade!Mine
    <2>8. CallInv'
      <3>1. \A d \in Client : call'[d].at = "new" <=> call'[d].asked = None
        BY <1>1, <2>5 DEF ServiceInv, CallInv
      <3>2. \A d \in Client : told'[d] = "run" => call'[d].at = "over" /\ call'[d].asked # None
        BY <1>1, <2>2, <2>5 DEF ServiceInv, CallInv
      <3>3. QED
        BY <1>1, <2>2, <2>5, <2>6, <3>1, <3>2 DEF ServiceInv, CallInv, Facade!Intent, Facade!Normalized
    <2>9. Facade!AnswersMatch' /\ Facade!EffectsAcknowledged'
      <3>1. \A d \in Client : call[d].asked # None => call'[d].asked = call[d].asked
        BY <2>5
      <3>2. QED
        BY <1>1, <2>2, <2>8, <3>1, AskedStays
    <2>10. ReserveInv'
      BY <1>1, <2>5, <2>7 DEF ServiceInv, ReserveInv, Facade!Acknowledged
    <2>11. OwnerInv'
      <3>1. \A d \in Client : call[d].at = "reserving" => call[d].asked \in StartRequested /\ call[d].asked.snapshot \in Snapshot
        BY RequestAssumption DEF ServiceInv, CallInv, CallType
      <3>2. ASSUME NEW d \in Client, call'[d].at = "reserving", call'[d].asked.snapshot \notin failed'
            PROVE  owners'[call'[d].asked.snapshot] = call'[d].asked.id
        <4>1. CASE d = c
          BY <2>5, <2>6, <4>1
        <4>2. CASE d # c
          <5>1. call'[d] = call[d] /\ owners[call[d].asked.snapshot] = call[d].asked.id /\ call[d].asked \in StartRequested
            BY <1>1, <2>5, <3>1, <3>2, <4>2 DEF ServiceInv, OwnerInv
          <5>2. call[d].asked.snapshot = q.snapshot => call[d].asked.id = q.id
            BY <2>7, <5>1, RequestAssumption
          <5>3. QED
            BY <2>6, <3>1, <3>2, <5>1, <5>2
        <4>3. QED
          BY <4>1, <4>2
      <3>3. ASSUME NEW r \in RequestId, runs'[r] # None, runs'[r].snapshot \notin failed'
            PROVE  owners'[runs'[r].snapshot] = r \/ snapshots'[runs'[r].snapshot] = "lost"
        <4>1. owners[runs[r].snapshot] = r \/ snapshots[runs[r].snapshot] = "lost"
          BY <1>1, <3>3 DEF ServiceInv, OwnerInv
        <4>2. runs[r].snapshot \in Snapshot
          BY <1>1, <3>3, RequestAssumption DEF ServiceInv, CallInv, Facade!Intent
        <4>3. CASE runs[r].snapshot = q.snapshot
          BY <1>1, <2>6, <2>7, <4>1, <4>3, RequestAssumption
        <4>4. CASE runs[r].snapshot # q.snapshot
          BY <1>1, <2>6, <4>1, <4>2, <4>4
        <4>5. QED
          BY <4>3, <4>4
      <3>4. QED
        BY <1>1, <3>2, <3>3 DEF ServiceInv, OwnerInv
    <2>12. Facade!OneRequestPerSnapshot'
      BY <1>1 DEF ServiceInv, Facade!OneRequestPerSnapshot
    <2>13. QED
      BY <2>8, <2>9, <2>10, <2>11, <2>12 DEF ServiceInv
  <1>4. QED
    BY <1>2, <1>3

\* The store has one run of a request, and nobody else's is on its snapshot.
LEMMA ReserveKeeps == ASSUME ServiceInv, NEW c \in Client, Facade!Reserve(c) PROVE ServiceInv'
  <1> DEFINE q == call[c].asked
  <1>1. call[c].at = "reserving" /\ q # None /\ q \in StartRequested /\ snapshots' = snapshots
    BY DEF Facade!Reserve, ServiceInv, CallInv, CallType
  <1>2. CASE runs[q.id] \notin {None, Facade!Fingerprint(q)}
    BY <1>1, <1>2, RejectedKeeps DEF Facade!Reserve
  <1>3. CASE runs[q.id] \in {None, Facade!Fingerprint(q)}
    <2>1. runs' = [runs EXCEPT ![q.id] = Facade!Intent(q)] /\ Facade!Answer(c, "run") /\ UNCHANGED <<owners, failed>>
      BY <1>3 DEF Facade!Reserve
    <2>2. /\ q.id \in RequestId /\ q.snapshot \in Snapshot /\ Facade!Intent(q) # None
          /\ Facade!Intent(q).snapshot = q.snapshot
      BY <1>1, RequestAssumption DEF Facade!Intent
    <2>3. /\ runs \in [RequestId -> {Facade!Intent(p) : p \in StartRequested} \cup {None}] /\ call \in [Client -> CallType]
          /\ told \in [Client -> {"nothing", "run", "refused"}]
      BY DEF ServiceInv, CallInv
    <2>4. /\ runs' \in [RequestId -> {Facade!Intent(p) : p \in StartRequested} \cup {None}] /\ runs'[q.id] = Facade!Intent(q)
          /\ \A r \in RequestId : r # q.id => runs'[r] = runs[r]
      BY <1>1, <2>1, <2>2, <2>3
    <2>5. call' = [call EXCEPT ![c].at = "over"] /\ told' = [told EXCEPT ![c] = "run"]
      BY <2>1 DEF Facade!Answer, Facade!Goes
    <2>6. /\ call' \in [Client -> CallType] /\ call'[c].at = "over" /\ call'[c].asked = q
          /\ \A d \in Client : d # c => call'[d] = call[d]
      BY <2>3, <2>5 DEF CallType
    <2>7. /\ told' \in [Client -> {"nothing", "run", "refused"}] /\ \A d \in Client : d # c => told'[d] = told[d]
      BY <2>3, <2>5
    <2>8. CallInv'
      <3>1. \A d \in Client : call'[d].at = "new" <=> call'[d].asked = None
        BY <1>1, <2>6 DEF ServiceInv, CallInv
      <3>2. \A d \in Client : told'[d] = "run" => call'[d].at = "over" /\ call'[d].asked # None
        BY <1>1, <2>6, <2>7 DEF ServiceInv, CallInv
      <3>3. QED
        BY <1>1, <2>1, <2>4, <2>6, <2>7, <3>1, <3>2 DEF ServiceInv, CallInv, Facade!Intent, Facade!Normalized
    <2>9. Facade!AnswersMatch' /\ Facade!EffectsAcknowledged'
      <3>1. \A d \in Client : call[d].asked # None => call'[d].asked = call[d].asked
        BY <2>6
      <3>2. \A r \in RequestId : runs[r] # None => runs'[r] = runs[r]
        BY <1>3, <2>4 DEF Facade!Fingerprint
      <3>3. \A r \in RequestId : runs'[r] # runs[r] => \E d \in Client :
              call'[d].asked \in StartRequested /\ call'[d].asked.id = r /\ Facade!Acknowledged(call'[d].asked)
              /\ runs'[r] = Facade!Intent(call'[d].asked)
        BY <1>1, <2>4, <2>6 DEF ServiceInv, ReserveInv
      <3>4. \A d \in Client : told'[d] = "run" => told[d] = "run" \/ runs'[call'[d].asked.id] = Facade!Intent(call'[d].asked)
        BY <2>4, <2>6, <2>7
      <3>5. QED
        BY <2>8, <3>1, <3>2, <3>3, <3>4, AskedStays
    <2>10. ReserveInv'
      BY <1>1, <2>6 DEF ServiceInv, ReserveInv, Facade!Acknowledged
    <2>11. q.snapshot \notin failed => owners[q.snapshot] = q.id
      BY <1>1 DEF ServiceInv, OwnerInv
    <2>12. snapshots[q.snapshot] = "ready"
      BY <1>1 DEF ServiceInv, ReserveInv
    <2>13. OwnerInv'
      <3>1. ASSUME NEW d \in Client, call'[d].at = "reserving", call'[d].asked.snapshot \notin failed'
            PROVE  owners'[call'[d].asked.snapshot] = call'[d].asked.id
        BY <2>1, <2>6, <3>1 DEF ServiceInv, OwnerInv
      <3>2. ASSUME NEW r \in RequestId, runs'[r] # None
            PROVE  /\ snapshots'[runs'[r].snapshot] \in {"ready", "lost"}
                   /\ runs'[r].snapshot \notin failed' =>
                        owners'[runs'[r].snapshot] = r \/ snapshots'[runs'[r].snapshot] = "lost"
        <4>1. CASE r = q.id
          BY <1>1, <2>1, <2>2, <2>4, <2>11, <2>12, <4>1
        <4>2. CASE r # q.id
          <5>1. runs'[r] = runs[r]
            BY <2>4, <4>2
          <5>2. QED
            BY <1>1, <2>1, <3>2, <5>1 DEF ServiceInv, OwnerInv
        <4>3. QED
          BY <4>1, <4>2
      <3>3. QED
        BY <3>1, <3>2 DEF OwnerInv
    <2>14. Facade!OneRequestPerSnapshot'
      <3>1. ASSUME NEW r \in RequestId, r # q.id, runs[r] # None, runs[r].snapshot = q.snapshot PROVE q.snapshot \in failed
        <4>1. q.snapshot \notin failed => owners[q.snapshot] = r
          BY <2>12, <3>1 DEF ServiceInv, OwnerInv
        <4>2. QED
          BY <2>11, <3>1, <4>1
      <3>2. SUFFICES ASSUME NEW r \in RequestId, NEW s \in RequestId, r # s, runs'[r] # None, runs'[s] # None,
                            runs'[r].snapshot = runs'[s].snapshot
                     PROVE  runs'[r].snapshot \in failed
        BY <2>1 DEF Facade!OneRequestPerSnapshot
      <3>3. CASE r = q.id
        BY <2>2, <2>4, <3>1, <3>2, <3>3
      <3>4. CASE s = q.id
        BY <2>2, <2>4, <3>1, <3>2, <3>4
      <3>5. CASE r # q.id /\ s # q.id
        BY <2>4, <3>2, <3>5 DEF ServiceInv, Facade!OneRequestPerSnapshot
      <3>6. QED
        BY <3>3, <3>4, <3>5
    <2>15. QED
      BY <2>8, <2>9, <2>10, <2>13, <2>14 DEF ServiceInv
  <1>4. QED
    BY <1>2, <1>3

LEMMA FoundKeeps ==
  ASSUME ServiceInv, NEW c \in Client, Facade!Found(c) \/ Facade!StoreFails(c) PROVE ServiceInv'
  <1>1. owners \in [Snapshot -> RequestId \cup {None}]
    BY DEF ServiceInv, CallInv
  <1>2. CASE Facade!Found(c)
    <2>1. call[c].at = "looking" /\ UNCHANGED <<snapshots, owners, runs, failed>>
      BY <1>2 DEF Facade!Found
    <2>2. PICK a \in {"run", "refused"} : /\ Facade!Answer(c, a)
                                          /\ a = "run" => runs[call[c].asked.id] = Facade!Intent(call[c].asked)
      BY <1>2 DEF Facade!Found
    <2>3. QED
      BY <1>1, <2>1, <2>2, AnswerKeeps
  <1>3. CASE Facade!StoreFails(c)
    <2>1. /\ UNCHANGED <<snapshots, runs>>
          /\ \/ call[c].at = "reserving" /\ Facade!Rejected(c)
             \/ call[c].at = "looking" /\ Facade!Answer(c, "refused") /\ UNCHANGED <<owners, failed>>
      BY <1>3 DEF Facade!StoreFails
    <2>2. QED
      BY <1>1, <2>1, RejectedKeeps, AnswerKeeps
  <1>4. QED
    BY <1>2, <1>3

LEMMA RestartKeeps == ASSUME ServiceInv, Facade!Restart PROVE ServiceInv'
  <1>1. /\ snapshots' = [s \in Snapshot |-> IF snapshots[s] = "none" THEN "none" ELSE "lost"]
        /\ owners' = [s \in Snapshot |-> None] /\ UNCHANGED <<runs, told, failed>>
        /\ call' = [c \in Client |-> IF call[c].at = "new" THEN call[c] ELSE [call[c] EXCEPT !.at = "over"]]
    BY DEF Facade!Restart
  <1>2. call \in [Client -> CallType]
    BY DEF ServiceInv, CallInv
  <1>3. /\ call' \in [Client -> CallType]
        /\ \A c \in Client : call'[c].at \in {"new", "over"} /\ call'[c].asked = call[c].asked
                           /\ (call'[c].at = "new" <=> call[c].at = "new")
    BY <1>1, <1>2 DEF CallType
  <1>4. CallInv'
    <2>1. \A c \in Client : told'[c] = "run" => call'[c].at = "over" /\ call'[c].asked # None
      BY <1>1, <1>3 DEF ServiceInv, CallInv
    <2>2. runs' \in [RequestId -> {Facade!Intent(q) : q \in StartRequested} \cup {None}]
      BY <1>1 DEF ServiceInv, CallInv
    <2>3. snapshots' \in [Snapshot -> States] /\ owners' \in [Snapshot -> RequestId \cup {None}]
      BY <1>1 DEF States
    <2>4. told' \in [Client -> {"nothing", "run", "refused"}] /\ \A c \in Client : call'[c].at = "new" <=> call'[c].asked = None
      BY <1>1, <1>3 DEF ServiceInv, CallInv
    <2>5. QED
      BY <1>3, <2>1, <2>2, <2>3, <2>4 DEF CallInv, Facade!Intent, Facade!Normalized
  <1>5. Facade!AnswersMatch' /\ Facade!EffectsAcknowledged'
    BY <1>1, <1>3, <1>4, AskedStays
  <1>6. ReserveInv'
    BY <1>3 DEF ReserveInv
  <1>7. OwnerInv'
    <2>1. ASSUME NEW r \in RequestId, runs'[r] # None PROVE snapshots'[runs'[r].snapshot] = "lost"
      <3>1. runs[r].snapshot \in Snapshot /\ snapshots[runs[r].snapshot] # "none"
        BY <1>1, <2>1, RequestAssumption DEF ServiceInv, OwnerInv, CallInv, Facade!Intent
      <3>2. QED
        BY <1>1, <3>1
    <2>2. QED
      BY <1>3, <2>1 DEF OwnerInv
  <1>8. Facade!OneRequestPerSnapshot'
    BY <1>1 DEF ServiceInv, Facade!OneRequestPerSnapshot
  <1>9. QED
    BY <1>4, <1>5, <1>6, <1>7, <1>8 DEF ServiceInv

LEMMA ServiceStep == ASSUME ServiceInv, [Facade!Next]_(Facade!serviceVars) PROVE ServiceInv'
  <1>1. snapshots \in [Snapshot -> States]
    BY DEF ServiceInv, CallInv
  <1>2. ASSUME NEW t, NEW wrong, Facade!Register(t, wrong) PROVE ServiceInv'
    BY <1>1, <1>2, MemoryKeeps DEF Facade!Register
  <1>3. ASSUME NEW s \in Snapshot, NEW known, Facade!Prepare(s, known) PROVE ServiceInv'
    <2>1. snapshots[s] = "none" /\ snapshots' = [snapshots EXCEPT ![s] = "preparing"] /\ UNCHANGED <<owners, runs, call, told, failed>>
      BY <1>3 DEF Facade!Prepare
    <2>2. /\ snapshots' \in [Snapshot -> States]
          /\ \A v \in Snapshot : snapshots[v] \in {"ready", "lost"} => snapshots'[v] = snapshots[v]
      BY <1>1, <2>1 DEF States
    <2>3. QED
      BY <2>1, <2>2, MemoryKeeps
  <1>4. ASSUME NEW s \in Snapshot, NEW how \in {"ready", "failed"}, Facade!Prepared(s, how) PROVE ServiceInv'
    <2>1. snapshots[s] = "preparing" /\ snapshots' = [snapshots EXCEPT ![s] = how] /\ UNCHANGED <<owners, runs, call, told, failed>>
      BY <1>4 DEF Facade!Prepared
    <2>2. /\ snapshots' \in [Snapshot -> States]
          /\ \A v \in Snapshot : snapshots[v] \in {"ready", "lost"} => snapshots'[v] = snapshots[v]
      BY <1>1, <2>1 DEF States
    <2>3. QED
      BY <2>1, <2>2, MemoryKeeps
  <1>5. CASE UNCHANGED Facade!serviceVars
    BY <1>1, <1>5, MemoryKeeps DEF Facade!serviceVars
  <1>6. QED
    BY <1>2, <1>3, <1>4, <1>5, StartKeeps, FoundKeeps, SubmitKeeps, ReserveKeeps, RestartKeeps DEF Facade!Next

\* Whoever was told of a run was told of the one run of its request, for what it asked;
\* no sensitive test has a run that nobody acknowledged; and a snapshot has runs of two
\* requests only after a submission of it was rejected: for any number of calls, in any
\* order, over restarts of the service.
THEOREM RequestsAreKept == Spec => []RequestIsKept
  <1> DEFINE Inv == picked = "facade" => ServiceInv
  <1>1. Init => Inv
    BY ServiceInit DEF Init
  <1>2. Inv /\ [Next]_allVars => Inv'
    BY OneIsPicked, ServiceStep
  <1>3. Inv => RequestIsKept
    BY DEF RequestIsKept, ServiceInv, Facade!RequestIsKept
  <1> HIDE DEF Inv
  <1>4. QED
    BY <1>1, <1>2, <1>3, PTL DEF Spec

HIDE DEF catalog, snapshots, owners, runs, call, told, failed, restarts

-----------------------------------------------------------------------------
(* BrowserSurface                                                          *)

backend == v6
lease == v7
browser == v8
cleaning == v10
close == v11
scope == v12

USE DEF signal, late, aborted, stopped, call, backend, lease, browser, submitted, cleaning, close, scope

\* Nothing crosses the boundary without a promise, or after its caller was told that the
\* call was stopped before it.
OpInv ==
  \A c \in Surface!Call :
    /\ backend[c] = "none" => c \notin submitted
    /\ backend[c] = "resolved" => c \in submitted
    /\ call[c] = "new" => backend[c] = "none"
    /\ call[c] = "waiting" => backend[c] # "none"
    /\ call[c] \in {"aborted", "deadline"} =>
         c \notin submitted /\ (backend[c] = "none" \/ c \in aborted \/ c \in late)

\* A browser comes of a launch that submitted, and is closed once that resolved.
LaunchedInv ==
  /\ browser # "none" => Surface!Launch \in submitted
  /\ backend[Surface!Launch] = "resolved" => browser # "none"
  /\ close # "none" => backend[Surface!Launch] = "resolved"
  /\ close = "proved" => browser = "gone"

\* The cleanup begins after the launch has, and settles when there is nothing to come.
CleaningInv ==
  /\ scope.turn \in {"none", "open"} <=> cleaning = "no"
  /\ cleaning = "closing" => close # "none"
  /\ cleaning = "released" => browser # "alive" /\ backend[Surface!Launch] # "running"
  /\ cleaning = "unconfirmed" /\ backend[Surface!Launch] = "resolved" => close # "none"
  /\ lease \in {"releasing", "released"} => cleaning = "released"

SurfaceInv == Surface!TypeOK /\ OpInv /\ LaunchedInv /\ CleaningInv

LEMMA SurfaceInit == ASSUME Surface!Init PROVE SurfaceInv
  BY DEF Surface!Init, SurfaceInv, Surface!TypeOK, OpInv, LaunchedInv, CleaningInv, Surface!Call, Surface!Launch

\* What is known of one call's begin.
LEMMA BeginIs ==
  ASSUME SurfaceInv, NEW c \in Surface!Call, Surface!Begin(c)
  PROVE  /\ call[c] = "new" /\ (c = Surface!Launch => scope.turn = "none")
         /\ \A d \in Surface!Call \ {c} : call'[d] = call[d] /\ backend'[d] = backend[d]
         /\ \/ call'[c] \in {"aborted", "deadline", "failed"} /\ backend'[c] = "none"
            \/ call'[c] = "waiting" /\ backend'[c] = "running"
         /\ scope' = scope \/ (c = Surface!Launch /\ scope' = [scope EXCEPT !.turn = "open"])
         /\ backend'[c] # "none" /\ c = Surface!Launch => scope'.turn = "open"
         /\ UNCHANGED <<signal, submitted, aborted, late, browser, cleaning, close, stopped, lease>>
  <1>1. UNCHANGED <<signal, submitted, aborted, late, browser, cleaning, close, stopped, lease>>
    BY DEF Surface!Begin, Surface!closing
  <1>2. /\ call[c] = "new" /\ (c = Surface!Launch => scope.turn = "none")
        /\ backend[c] = "none" /\ backend \in [Surface!Call -> {"none", "running", "resolved", "rejected"}]
        /\ call \in [Surface!Call -> {"new", "waiting"} \cup Surface!Told]
        /\ scope \in [turn : {"none", "open", "session", "lease", "over"}, calling : BOOLEAN]
    BY DEF Surface!Begin, SurfaceInv, OpInv, Surface!TypeOK
  <1>3. CASE signal \/ c \in late
    <2>1. /\ call' = [call EXCEPT ![c] = IF signal THEN "aborted" ELSE "deadline"]
          /\ UNCHANGED <<backend, scope>>
      BY <1>3 DEF Surface!Begin
    <2>2. QED
      BY <1>1, <1>2, <2>1
  <1>4. CASE ~(signal \/ c \in late)
    <2>1. PICK dispatched \in BOOLEAN :
               /\ call' = [call EXCEPT ![c] = IF dispatched THEN "waiting" ELSE "failed"]
               /\ backend' = [backend EXCEPT ![c] = IF dispatched THEN "running" ELSE "none"]
      BY <1>4 DEF Surface!Begin
    <2>2. scope' = IF c = Surface!Launch THEN [scope EXCEPT !.turn = "open"] ELSE scope
      BY <1>4 DEF Surface!Begin
    <2>3. QED
      BY <1>1, <1>2, <2>1, <2>2
  <1>5. QED
    BY <1>3, <1>4

LEMMA SurfaceStep == ASSUME SurfaceInv, [Surface!Next]_(Surface!surfaceVars) PROVE SurfaceInv'
  <1> USE DEF SurfaceInv, Surface!calls, Surface!closing
  <1>a. Surface!Launch \in Surface!Call
    BY DEF Surface!Call
  <1>1. CASE UNCHANGED Surface!surfaceVars
    BY <1>1 DEF Surface!surfaceVars, Surface!TypeOK, OpInv, LaunchedInv, CleaningInv
  <1>2. ASSUME NEW c \in Surface!Call, Surface!Begin(c) PROVE SurfaceInv'
    <2>1. /\ call[c] = "new" /\ (c = Surface!Launch => scope.turn = "none")
          /\ \A d \in Surface!Call \ {c} : call'[d] = call[d] /\ backend'[d] = backend[d]
          /\ \/ call'[c] \in {"aborted", "deadline", "failed"} /\ backend'[c] = "none"
             \/ call'[c] = "waiting" /\ backend'[c] = "running"
          /\ scope' = scope \/ (c = Surface!Launch /\ scope' = [scope EXCEPT !.turn = "open"])
          /\ UNCHANGED <<signal, submitted, aborted, late, browser, cleaning, close, stopped, lease>>
      BY <1>2, BeginIs
    <2>2. backend[c] = "none" /\ c \notin submitted
      BY <2>1 DEF OpInv
    <2>3. /\ call' \in [Surface!Call -> {"new", "waiting"} \cup Surface!Told]
          /\ backend' \in [Surface!Call -> {"none", "running", "resolved", "rejected"}]
      <3>1. /\ \E x : call' = [call EXCEPT ![c] = x]
            /\ backend' = backend \/ \E x : backend' = [backend EXCEPT ![c] = x]
        BY <1>2 DEF Surface!Begin
      <3>2. QED
        BY <2>1, <3>1 DEF Surface!TypeOK, Surface!Told
    <2>4. Surface!TypeOK'
      BY <2>1, <2>3 DEF Surface!TypeOK
    <2>5. OpInv'
      BY <2>1, <2>2 DEF OpInv
    <2>6. LaunchedInv' /\ CleaningInv'
      <3>1. CASE c = Surface!Launch
        BY <2>1, <2>2, <3>1 DEF LaunchedInv, CleaningInv, Surface!TypeOK
      <3>2. CASE c # Surface!Launch
        BY <1>a, <2>1, <3>2 DEF LaunchedInv, CleaningInv
      <3>3. QED
        BY <3>1, <3>2
    <2>7. QED
      BY <2>4, <2>5, <2>6
  <1>3. ASSUME NEW c \in Surface!Call, Surface!BeforeSubmit(c) PROVE SurfaceInv'
    BY <1>3 DEF Surface!BeforeSubmit, Surface!MaySubmit, Surface!TypeOK, OpInv, LaunchedInv, CleaningInv
  <1>4. ASSUME NEW c \in Surface!Call, Surface!Late(c) PROVE SurfaceInv'
    BY <1>4 DEF Surface!Late, Surface!TypeOK, OpInv, LaunchedInv, CleaningInv
  <1>5. ASSUME NEW c \in Surface!Call, Surface!Stop(c) PROVE SurfaceInv'
    <2>1. /\ call[c] = "waiting" /\ UNCHANGED <<signal, submitted, late, backend, browser, cleaning, close, stopped, scope, lease>>
          /\ \/ c \in aborted /\ aborted' = aborted /\ call' = [call EXCEPT ![c] = Surface!Stopped(c, "aborted")]
             \/ c \in late /\ aborted' = aborted \cup {c} /\ call' = [call EXCEPT ![c] = Surface!Stopped(c, "deadline")]
      BY <1>5 DEF Surface!Stop
    <2>2. /\ call' \in [Surface!Call -> {"new", "waiting"} \cup Surface!Told]
          /\ \A d \in Surface!Call \ {c} : call'[d] = call[d]
          /\ call'[c] \in {"aborted", "deadline", "unknownOutcome"}
          /\ call'[c] # "unknownOutcome" => c \notin submitted
      BY <2>1 DEF Surface!TypeOK, Surface!Told, Surface!Stopped
    <2>3. Surface!TypeOK'
      BY <2>1, <2>2 DEF Surface!TypeOK
    <2>4. OpInv'
      BY <2>1, <2>2 DEF OpInv
    <2>5. LaunchedInv' /\ CleaningInv'
      BY <2>1 DEF LaunchedInv, CleaningInv
    <2>6. QED
      BY <2>3, <2>4, <2>5
  <1>6. ASSUME NEW c \in Surface!Call, Surface!Answer(c) \/ Surface!Misfits(c) PROVE SurfaceInv'
    <2>1. /\ call[c] = "waiting" /\ UNCHANGED <<signal, submitted, aborted, late, backend, browser, cleaning, close, stopped, scope, lease>>
          /\ \/ call' = [call EXCEPT ![c] = "failed"]
             \/ call' = [call EXCEPT ![c] = "done"]
             \/ c \in aborted /\ call' = [call EXCEPT ![c] = Surface!Stopped(c, "aborted")]
             \/ c \in late /\ call' = [call EXCEPT ![c] = Surface!Stopped(c, "deadline")]
      BY <1>6 DEF Surface!Answer, Surface!Misfits
    <2>2. /\ call' \in [Surface!Call -> {"new", "waiting"} \cup Surface!Told]
          /\ \A d \in Surface!Call \ {c} : call'[d] = call[d]
          /\ call'[c] \in {"failed", "done", "aborted", "deadline", "unknownOutcome"}
          /\ call'[c] \in {"aborted", "deadline"} => c \notin submitted /\ (c \in aborted \/ c \in late)
      BY <2>1 DEF Surface!TypeOK, Surface!Told, Surface!Stopped
    <2>3. Surface!TypeOK'
      BY <2>1, <2>2 DEF Surface!TypeOK
    <2>4. OpInv'
      BY <2>1, <2>2 DEF OpInv
    <2>5. LaunchedInv' /\ CleaningInv'
      BY <2>1 DEF LaunchedInv, CleaningInv
    <2>6. QED
      BY <2>3, <2>4, <2>5
  <1>7. ASSUME NEW c \in Surface!Call, Surface!Resolves(c) PROVE SurfaceInv'
    <2>1. /\ backend[c] = "running" /\ c \in submitted /\ (c = Surface!Launch => browser = "alive")
          /\ backend' = [backend EXCEPT ![c] = "resolved"]
          /\ UNCHANGED <<signal, call, submitted, aborted, late, browser, cleaning, stopped, scope, lease>>
          /\ c # Surface!Launch => close' = close
          /\ c = Surface!Launch => close' \in {close, "running"} /\ (cleaning # "no" => close' # "none")
      BY <1>7 DEF Surface!Resolves, Surface!Observed
    <2>2. /\ backend' \in [Surface!Call -> {"none", "running", "resolved", "rejected"}]
          /\ \A d \in Surface!Call \ {c} : backend'[d] = backend[d]
          /\ backend'[c] = "resolved"
      BY <2>1 DEF Surface!TypeOK
    <2>3. Surface!TypeOK' /\ OpInv'
      BY <2>1, <2>2 DEF Surface!TypeOK, OpInv
    <2>4. LaunchedInv' /\ CleaningInv'
      BY <1>a, <2>1, <2>2 DEF LaunchedInv, CleaningInv
    <2>5. QED
      BY <2>3, <2>4
  <1>8. ASSUME NEW c \in Surface!Call, Surface!Rejects(c) PROVE SurfaceInv'
    <2>1. /\ backend[c] = "running" /\ backend' = [backend EXCEPT ![c] = "rejected"]
          /\ UNCHANGED <<signal, call, submitted, aborted, late, browser, cleaning, close, stopped, scope, lease>>
      BY <1>8 DEF Surface!Rejects
    <2>2. /\ backend' \in [Surface!Call -> {"none", "running", "resolved", "rejected"}]
          /\ \A d \in Surface!Call \ {c} : backend'[d] = backend[d]
          /\ backend'[c] = "rejected"
      BY <2>1 DEF Surface!TypeOK
    <2>3. Surface!TypeOK' /\ OpInv'
      BY <2>1, <2>2 DEF Surface!TypeOK, OpInv
    <2>4. LaunchedInv' /\ CleaningInv'
      BY <1>a, <2>1, <2>2 DEF LaunchedInv, CleaningInv
    <2>5. QED
      BY <2>3, <2>4
  <1>9. CASE Surface!Abort
    BY <1>9 DEF Surface!Abort, Surface!TypeOK, OpInv, LaunchedInv, CleaningInv
  <1>10. CASE Surface!Opens
    BY <1>10 DEF Surface!Opens, Surface!TypeOK, OpInv, LaunchedInv, CleaningInv
  <1>11. ASSUME NEW outcome \in {"proved", "mismatched", "failed"}, Surface!CloseEnds(outcome) PROVE SurfaceInv'
    BY <1>11 DEF Surface!CloseEnds, Surface!TypeOK, OpInv, LaunchedInv, CleaningInv
  <1>12. CASE Surface!Expire
    BY <1>12 DEF Surface!Expire, Surface!TypeOK, OpInv, LaunchedInv, CleaningInv
  <1>13. CASE Surface!CleanupSettles
    <2>1. /\ UNCHANGED <<signal, call, submitted, aborted, late, backend, browser, stopped, scope, lease>>
          /\ cleaning = "settling"
          /\ \/ cleaning' = "unconfirmed" /\ close' = IF close = "none" /\ backend[Surface!Launch] = "resolved" THEN "running" ELSE close
             \/ cleaning' = "closing" /\ backend[Surface!Launch] = "resolved" /\ close' = IF close = "none" THEN "running" ELSE close
             \/ /\ close' = close /\ backend[Surface!Launch] \notin {"running", "resolved"}
                /\ cleaning' = "unconfirmed" \/ (cleaning' = "released" /\ Surface!Launch \notin submitted)
      BY <1>13 DEF Surface!CleanupSettles, Surface!Settled, Surface!StartClose, Surface!NothingStarted
    <2>2. Surface!TypeOK' /\ OpInv'
      BY <2>1 DEF Surface!TypeOK, OpInv
    <2>3. LaunchedInv'
      BY <2>1 DEF LaunchedInv
    <2>4. CleaningInv'
      BY <2>1 DEF CleaningInv, LaunchedInv
    <2>5. QED
      BY <2>2, <2>3, <2>4
  <1>14. CASE Surface!CleanupEnds
    BY <1>14 DEF Surface!CleanupEnds, Surface!TypeOK, OpInv, LaunchedInv, CleaningInv
  <1>15. CASE Surface!SessionCleanup
    BY <1>15 DEF Surface!SessionCleanup, Surface!TypeOK, OpInv, LaunchedInv, CleaningInv
  <1>16. CASE Surface!SessionReceipt
    <2>1. /\ UNCHANGED <<signal, call, submitted, aborted, late, backend, browser, cleaning, close>>
          /\ scope.turn = "session"
          /\ lease' \in {lease, "asked"} /\ stopped' \in BOOLEAN
          /\ scope' = [turn |-> "over", calling |-> FALSE] \/ scope' = [turn |-> "lease", calling |-> TRUE]
      BY <1>16 DEF Surface!SessionReceipt, Surface!Over, Surface!TypeOK
    <2>2. Surface!TypeOK'
      <3>1. scope' \in [turn : {"none", "open", "session", "lease", "over"}, calling : BOOLEAN]
        <4>1. CASE scope' = [turn |-> "over", calling |-> FALSE]
          BY <4>1
        <4>2. CASE scope' = [turn |-> "lease", calling |-> TRUE]
          BY <4>2
        <4>3. QED
          BY <2>1, <4>1, <4>2
      <3>2. lease' \in {"none", "held", "asked", "releasing", "released", "kept"}
        BY <2>1 DEF Surface!TypeOK
      <3>3. QED
        BY <2>1, <3>1, <3>2 DEF Surface!TypeOK
    <2>3. OpInv' /\ LaunchedInv'
      BY <2>1 DEF OpInv, LaunchedInv
    <2>4. CleaningInv'
      BY <2>1 DEF CleaningInv
    <2>5. QED
      BY <2>2, <2>3, <2>4
  <1>17. CASE Surface!LeaseDecided
    BY <1>17 DEF Surface!LeaseDecided, Surface!LeaseReleaseAllowed, Surface!TypeOK, OpInv, LaunchedInv, CleaningInv
  <1>18. CASE Surface!LeaseReleased
    BY <1>18 DEF Surface!LeaseReleased, Surface!TypeOK, OpInv, LaunchedInv, CleaningInv
  <1>19. CASE Surface!LeaseReceipt
    <2>1. /\ UNCHANGED <<signal, call, submitted, aborted, late, backend, browser, cleaning, close, lease>>
          /\ scope.turn = "lease" /\ stopped' \in BOOLEAN /\ scope' = [turn |-> "over", calling |-> FALSE]
      BY <1>19 DEF Surface!LeaseReceipt, Surface!Over, Surface!TypeOK
    <2>2. QED
      BY <2>1 DEF Surface!TypeOK, OpInv, LaunchedInv, CleaningInv
  <1>20. QED
    BY <1>1, <1>2, <1>3, <1>4, <1>5, <1>6, <1>7, <1>8, <1>9, <1>10, <1>11, <1>12, <1>13, <1>14, <1>15, <1>16, <1>17, <1>18, <1>19 DEF Surface!Next

LEMMA SurfaceHolds == ASSUME SurfaceInv PROVE Surface!SurfaceIsGivenBack
  BY DEF SurfaceInv, OpInv, CleaningInv, Surface!SurfaceIsGivenBack, Surface!NoneToCome

HIDE DEF signal, late, aborted, stopped, call, backend, lease, browser, submitted, cleaning, close, scope

-----------------------------------------------------------------------------
(* NativeBinding                                                           *)

host == v1
options == v2
acquire == v4
acquisition == v5
coming == v8
layer == v9
reason == v10
turn == v11
begun == v12
barrier == v13

USE DEF host, options, target, acquire, acquisition, session, lease, coming, layer, reason, turn, begun, barrier

Value(l) == layer[l].value
Task(l) == layer[l].task

\* An application or its session comes while it is being acquired or is unaccounted for; a
\* known one is the last that the launch or the attach brings.
AcquiredInv ==
  /\ coming => acquisition # "acquired"
  /\ acquire = "new" => ~coming /\ acquisition = "open"
  /\ acquisition = "open" <=> acquire \in {"new", "running"}
  /\ acquire = "bound" => acquisition = "acquired"
  /\ ~options.owned => target = "alive"

\* A layer that does not apply is passed over; one that was released was proved so, of a
\* known acquisition, and after the layer before it.
LayerInv ==
  /\ options.owned => Value("target") # "notApplicable"
  /\ options.protocol => Value("protocol") # "notApplicable"
  /\ options.host => Value("host") # "notApplicable"
  /\ ~options.owned => Task("target") = "new" /\ Value("target") = "notApplicable"
  /\ \A l \in {"target", "protocol"} : Task(l) = "proving" \/ Value(l) = "released" => acquisition = "acquired"
  /\ Task("protocol") = "proving" => Value("target") # None
  /\ Task("host") = "proving" => Value("target") # None \/ options.protocol
  /\ Task("host") = "proving" => Value("protocol") # None \/ ~options.protocol
  /\ Value("target") = "released" => target # "alive"
  /\ Value("protocol") = "released" => session # "open" /\ Value("target") \in {"released", "notApplicable"}
  /\ Value("host") = "released" =>
       /\ host = "gone"
       /\ IF options.protocol THEN Value("protocol") \in {"released", "notApplicable"}
                              ELSE Value("target") \in {"released", "notApplicable"}

\* What the barrier and the lease found confirmed stays so.
ConfirmedInv ==
  barrier = "released" \/ lease \in {"releasing", "released"} =>
    Value(Binding!LastLayer) \in {"released", "notApplicable"}

BindingInv == Binding!TypeOK /\ AcquiredInv /\ LayerInv /\ ConfirmedInv

LEMMA BindingInit == ASSUME Binding!Init PROVE BindingInv
  <1> USE DEF Binding!Init, Binding!Layer, Binding!Applies
  <1>1. layer \in [Binding!Layer -> [task : {"new", "waiting", "proving", "over"},
                                    value : {None, "released", "unconfirmed", "notApplicable"}]]
    OBVIOUS
  <1>2. Binding!TypeOK
    <2>1. options \in [owned : BOOLEAN, protocol : BOOLEAN, host : BOOLEAN, leased : BOOLEAN]
      OBVIOUS
    <2>2. /\ acquire \in {"new", "running", "bound", "failed"}
          /\ acquisition \in {"open", "reconciling", "acquired", "unknown"}
      OBVIOUS
    <2>3. target \in {"none", "alive", "gone"} /\ session \in {"none", "open", "released"} /\ host \in {"alive", "gone"}
      OBVIOUS
    <2>4. coming \in BOOLEAN /\ reason \in BOOLEAN /\ begun \in BOOLEAN
      OBVIOUS
    <2>5. turn \in 0 .. 6 /\ barrier \in {None, "released", "unconfirmed"}
      OBVIOUS
    <2>6. lease \in {"none", "held", "releasing", "released", "kept"}
      OBVIOUS
    <2>7. QED
      BY <1>1, <2>1, <2>2, <2>3, <2>4, <2>5, <2>6 DEF Binding!TypeOK
  <1>3. AcquiredInv
    BY DEF AcquiredInv
  <1>4. LayerInv
    BY BindingAssumption DEF LayerInv, Value, Task
  <1>5. ConfirmedInv
    BY BindingAssumption DEF ConfirmedInv
  <1>6. QED
    BY <1>2, <1>3, <1>4, <1>5 DEF BindingInv

USE DEF Binding!Layer, Value, Task

\* A value stays once a layer has it.
LEMMA FinishedIs ==
  ASSUME Binding!TypeOK, NEW l \in Binding!Layer, NEW task \in {"new", "waiting", "proving", "over"},
         NEW value \in {"released", "unconfirmed"}, Binding!Finished(l, task, value)
  PROVE  /\ layer' \in [Binding!Layer -> [task : {"new", "waiting", "proving", "over"},
                                          value : {None, "released", "unconfirmed", "notApplicable"}]]
         /\ \A k \in Binding!Layer \ {l} : layer'[k] = layer[k]
         /\ Task(l)' = task
         /\ Value(l)' = IF Value(l) = None THEN value ELSE Value(l)
         /\ reason' \in BOOLEAN
  <1>1. layer' = [layer EXCEPT ![l] = [task |-> task, value |-> IF Value(l) = None THEN value ELSE Value(l)]]
    BY DEF Binding!Finished, Binding!TypeOK
  <1>2. reason' \in BOOLEAN
    BY DEF Binding!Finished, Binding!TypeOK
  <1>3. QED
    BY <1>1, <1>2 DEF Binding!TypeOK

\* A step that leaves the layers, the barrier and what they proved alone.
LEMMA LayersStay ==
  ASSUME BindingInv, options' = options, layer' = layer, host' = host, barrier' = barrier, lease' = lease,
         acquisition = "acquired" => /\ acquisition' = "acquired" /\ session' = session
                                     /\ target' = "alive" => target = "alive"
  PROVE  LayerInv' /\ ConfirmedInv'
  <1>1. LayerInv'
    BY DEF BindingInv, LayerInv
  <1>2. Binding!LastLayer' = Binding!LastLayer
    BY DEF Binding!LastLayer
  <1>3. ConfirmedInv'
    BY <1>2 DEF BindingInv, ConfirmedInv
  <1>4. QED
    BY <1>1, <1>3

\* A step of a layer that keeps the values there are.
LEMMA ValuesStay ==
  ASSUME BindingInv, UNCHANGED <<options, barrier, lease>>,
         \A l \in Binding!Layer : Value(l) # None => Value(l)' = Value(l)
  PROVE  ConfirmedInv'
  <1>1. Binding!LastLayer' = Binding!LastLayer /\ Binding!LastLayer \in Binding!Layer
    BY DEF Binding!LastLayer
  <1>2. QED
    BY <1>1, BindingAssumption DEF BindingInv, ConfirmedInv

\* The acquisition: it ends once, and brings nothing afterwards.
LEMMA AcquisitionKeepsIt ==
  ASSUME BindingInv
  PROVE  /\ Binding!Acquire \/ Binding!LateStart \/ Binding!Reconciled \/ Binding!Quit => BindingInv'
         /\ \A executed \in BOOLEAN : Binding!AcquireEnds(executed) => BindingInv'
         /\ \A outcome \in {"notExecuted", "unknown", "misfit"} : Binding!AcquireFails(outcome) => BindingInv'
  <1> USE DEF BindingInv, Binding!world, Binding!cleanup, Binding!Started
  <1>1. ASSUME Binding!Acquire PROVE BindingInv'
    <2>1. /\ acquire = "new" /\ turn' = 1
          /\ UNCHANGED <<options, target, session, host, layer, reason, begun, barrier, lease>>
          /\ \/ acquire' = "running" /\ acquisition' = acquisition
             \/ acquire' = "failed" /\ acquisition' = "unknown"
          /\ coming' \in BOOLEAN /\ (coming' => acquire' = "running")
      <3>1. PICK starts \in BOOLEAN : /\ acquire' = IF starts THEN "running" ELSE "failed"
                                      /\ acquisition' = IF starts THEN acquisition ELSE "unknown"
                                      /\ coming' = starts
        BY <1>1 DEF Binding!Acquire
      <3>2. UNCHANGED <<options, target, session, host, layer, reason, begun, barrier, lease>>
        BY <1>1 DEF Binding!Acquire
      <3>3. acquire = "new" /\ turn' = 1
        BY <1>1 DEF Binding!Acquire
      <3>4. coming' \in BOOLEAN /\ (coming' => starts)
        BY <3>1
      <3>5. QED
        BY <3>1, <3>2, <3>3, <3>4
    <2>3. Binding!TypeOK'
      BY <2>1 DEF Binding!TypeOK
    <2>4. AcquiredInv'
      BY <2>1 DEF AcquiredInv
    <2>5. acquisition # "acquired"
      BY <2>1 DEF AcquiredInv
    <2>6. LayerInv' /\ ConfirmedInv'
      BY <2>1, <2>5, LayersStay
    <2>7. QED
      BY <2>3, <2>4, <2>6
  <1>2. ASSUME Binding!LateStart PROVE BindingInv'
    <2>1. /\ coming /\ target' = "alive" /\ session' = "open" /\ coming' = FALSE
          /\ UNCHANGED <<options, acquire, acquisition, host, layer, reason, turn, begun, barrier, lease>>
      BY <1>2 DEF Binding!LateStart
    <2>a. coming' \in BOOLEAN /\ ~coming'
      BY <2>1
    <2>2. Binding!TypeOK' /\ AcquiredInv'
      BY <2>1, <2>a DEF Binding!TypeOK, AcquiredInv
    <2>3. acquisition # "acquired"
      BY <2>1 DEF AcquiredInv
    <2>4. LayerInv' /\ ConfirmedInv'
      BY <2>1, <2>3, LayersStay
    <2>5. QED
      BY <2>2, <2>4
  <1>3. ASSUME Binding!Reconciled PROVE BindingInv'
    <2>1. /\ acquisition = "reconciling" /\ acquisition' \in {"acquired", "unknown"}
          /\ UNCHANGED <<options, acquire, host, layer, reason, turn, begun, barrier, lease>>
          /\ \/ target' = "alive" /\ session' = "open" /\ coming' = FALSE
             \/ acquisition' = "unknown" /\ UNCHANGED <<coming, target, session>>
             \/ ~coming /\ UNCHANGED <<coming, target, session>>
      BY <1>3 DEF Binding!Reconciled
    <2>a. coming' \in BOOLEAN /\ (coming' => coming /\ acquisition' # "acquired")
      <3>1. coming \in BOOLEAN
        BY DEF Binding!TypeOK
      <3>2. CASE coming' = FALSE
        BY <3>2
      <3>3. CASE coming' = coming
        BY <2>1, <3>1, <3>3
      <3>4. QED
        BY <2>1, <3>2, <3>3
    <2>2. Binding!TypeOK'
      BY <2>1, <2>a DEF Binding!TypeOK
    <2>3. AcquiredInv'
      BY <2>1, <2>a DEF AcquiredInv
    <2>4. LayerInv' /\ ConfirmedInv'
      BY <2>1, LayersStay
    <2>5. QED
      BY <2>2, <2>3, <2>4
  <1>4. ASSUME Binding!Quit PROVE BindingInv'
    <2>1. /\ acquire = "bound" /\ options.owned /\ target' = "gone"
          /\ UNCHANGED <<options, acquire, acquisition, coming, session, host, layer, reason, turn, begun, barrier, lease>>
      BY <1>4 DEF Binding!Quit, Binding!MayQuit
    <2>2. Binding!TypeOK' /\ AcquiredInv'
      BY <2>1 DEF Binding!TypeOK, AcquiredInv
    <2>3. LayerInv' /\ ConfirmedInv'
      BY <2>1, LayersStay
    <2>4. QED
      BY <2>2, <2>3
  <1>5. ASSUME NEW executed \in BOOLEAN, Binding!AcquireEnds(executed) PROVE BindingInv'
    <2>1. /\ acquire = "running" /\ acquire' \in {"bound", "failed"} /\ acquisition' = "acquired"
          /\ target' = "alive" /\ session' = "open" /\ coming' = FALSE
          /\ UNCHANGED <<options, host, layer, reason, turn, begun, barrier, lease>>
      BY <1>5 DEF Binding!AcquireEnds
    <2>a. coming' \in BOOLEAN /\ ~coming'
      BY <2>1
    <2>2. Binding!TypeOK' /\ AcquiredInv'
      BY <2>1, <2>a DEF Binding!TypeOK, AcquiredInv
    <2>3. acquisition # "acquired"
      BY <2>1 DEF AcquiredInv
    <2>4. LayerInv' /\ ConfirmedInv'
      BY <2>1, <2>3, LayersStay
    <2>5. QED
      BY <2>2, <2>4
  <1>6. ASSUME NEW outcome \in {"notExecuted", "unknown", "misfit"}, Binding!AcquireFails(outcome) PROVE BindingInv'
    <2>1. /\ acquire = "running" /\ acquire' = "failed" /\ acquisition' \in {"reconciling", "unknown"}
          /\ coming' = (coming /\ outcome # "notExecuted")
          /\ UNCHANGED <<options, target, session, host, layer, reason, turn, begun, barrier, lease>>
      BY <1>6 DEF Binding!AcquireFails
    <2>2. coming' \in BOOLEAN /\ (coming' => coming)
      BY <2>1
    <2>3. Binding!TypeOK' /\ AcquiredInv'
      BY <2>1, <2>2 DEF Binding!TypeOK, AcquiredInv
    <2>4. acquisition # "acquired"
      BY <2>1 DEF AcquiredInv
    <2>5. LayerInv' /\ ConfirmedInv'
      BY <2>1, <2>4, LayersStay
    <2>6. QED
      BY <2>3, <2>5
  <1>7. QED
    BY <1>1, <1>2, <1>3, <1>4, <1>5, <1>6

\* The layers, one after the other, and what is asked of them in the end.
LEMMA CleanupKeepsIt ==
  ASSUME BindingInv
  PROVE  /\ \A l \in Binding!Layer : Binding!TimeOut(l) \/ Binding!Proceed(l) => BindingInv'
         /\ \A l \in Binding!Layer, proved \in BOOLEAN : Binding!Prove(l, proved) => BindingInv'
         /\ \A l \in Binding!Layer : Binding!LayerBegins(l) \/ Binding!LayerEnds(l) => BindingInv'
         /\ Binding!Barrier \/ Binding!LeaseDecided \/ Binding!LeaseReleased => BindingInv'
  <1> USE BindingAssumption DEF BindingInv, Binding!world, Binding!cleanup
  <1>1. ASSUME NEW l \in Binding!Layer, Binding!TimeOut(l) PROVE BindingInv'
    <2>1. /\ Task(l) \in {"waiting", "proving"} /\ Value(l) = None
          /\ Binding!Finished(l, Task(l), "unconfirmed")
          /\ UNCHANGED <<options, acquire, acquisition, coming, target, session, host, turn, begun, barrier, lease>>
      BY <1>1 DEF Binding!TimeOut
    <2>2. /\ layer' \in [Binding!Layer -> [task : {"new", "waiting", "proving", "over"},
                                           value : {None, "released", "unconfirmed", "notApplicable"}]]
          /\ \A k \in Binding!Layer \ {l} : layer'[k] = layer[k]
          /\ Task(l)' = Task(l) /\ Value(l)' = "unconfirmed" /\ reason' \in BOOLEAN
      BY <2>1, FinishedIs
    <2>3. Binding!TypeOK' /\ AcquiredInv'
      BY <2>1, <2>2 DEF Binding!TypeOK, AcquiredInv
    <2>4. LayerInv'
      BY <2>1, <2>2 DEF LayerInv
    <2>5. ConfirmedInv'
      BY <2>1, <2>2, ValuesStay
    <2>6. QED
      BY <2>3, <2>4, <2>5
  <1>2. ASSUME NEW l \in Binding!Layer, Binding!Proceed(l) PROVE BindingInv'
    <2>1. /\ Task(l) = "waiting" /\ Binding!Ready(l)
          /\ UNCHANGED <<options, acquire, acquisition, coming, target, session, host, turn, begun, barrier, lease>>
          /\ \/ /\ l = "host" \/ acquisition = "acquired"
                /\ layer' = [layer EXCEPT ![l].task = "proving"] /\ UNCHANGED reason
             \/ Binding!Finished(l, "over", "unconfirmed")
      BY <1>2 DEF Binding!Proceed
    <2>2. CASE Binding!Finished(l, "over", "unconfirmed")
      <3>1. /\ layer' \in [Binding!Layer -> [task : {"new", "waiting", "proving", "over"},
                                             value : {None, "released", "unconfirmed", "notApplicable"}]]
            /\ \A k \in Binding!Layer \ {l} : layer'[k] = layer[k]
            /\ Task(l)' = "over" /\ Value(l)' = IF Value(l) = None THEN "unconfirmed" ELSE Value(l)
            /\ reason' \in BOOLEAN
        BY <2>2, FinishedIs
      <3>2. Binding!TypeOK' /\ AcquiredInv'
        BY <2>1, <3>1 DEF Binding!TypeOK, AcquiredInv
      <3>3. LayerInv'
        BY <2>1, <3>1 DEF LayerInv
      <3>4. ConfirmedInv'
        BY <2>1, <3>1, ValuesStay
      <3>5. QED
        BY <3>2, <3>3, <3>4
    <2>3. CASE /\ l = "host" \/ acquisition = "acquired"
               /\ layer' = [layer EXCEPT ![l].task = "proving"] /\ UNCHANGED reason
      <3>1. /\ layer' \in [Binding!Layer -> [task : {"new", "waiting", "proving", "over"},
                                             value : {None, "released", "unconfirmed", "notApplicable"}]]
            /\ \A k \in Binding!Layer \ {l} : layer'[k] = layer[k]
            /\ Task(l)' = "proving" /\ Value(l)' = Value(l) /\ reason' = reason
        BY <2>3 DEF Binding!TypeOK
      <3>2. Binding!TypeOK' /\ AcquiredInv'
        BY <2>1, <3>1 DEF Binding!TypeOK, AcquiredInv
      <3>3. /\ l = "protocol" => Value("target") # None
            /\ l = "host" => IF options.protocol THEN Value("protocol") # None ELSE Value("target") # None
            /\ l # "host" => acquisition = "acquired"
        BY <2>1, <2>3 DEF Binding!Ready, Binding!Prior
      <3>4. LayerInv'
        BY <2>1, <3>1, <3>3 DEF LayerInv
      <3>5. ConfirmedInv'
        BY <2>1, <3>1, ValuesStay
      <3>6. QED
        BY <3>2, <3>4, <3>5
    <2>4. QED
      BY <2>1, <2>2, <2>3
  <1>3. ASSUME NEW l \in Binding!Layer, NEW proved \in BOOLEAN, Binding!Prove(l, proved) PROVE BindingInv'
    <2>1. PICK value \in {"released", "unconfirmed"} :
            /\ Binding!Finished(l, "over", value)
            /\ value = "released" => proved /\ (l # "target" => Value(Binding!Prior[l]) # "unconfirmed")
      <3>1. PICK value \in {Binding!Combined(l, IF proved THEN "released" ELSE "unconfirmed"), "unconfirmed"} :
              Binding!Finished(l, "over", value)
        BY <1>3 DEF Binding!Prove
      <3>2. /\ value \in {"released", "unconfirmed"}
            /\ value = "released" => proved /\ (l # "target" => Value(Binding!Prior[l]) # "unconfirmed")
        BY <3>1 DEF Binding!Combined
      <3>3. QED
        BY <3>1, <3>2
    <2>2. /\ Task(l) = "proving"
          /\ target' = IF l = "target" /\ proved THEN "gone" ELSE target
          /\ session' = IF l = "protocol" /\ proved THEN "released" ELSE session
          /\ host' = IF l = "host" /\ proved THEN "gone" ELSE host
          /\ UNCHANGED <<options, acquire, acquisition, coming, turn, begun, barrier, lease>>
      BY <1>3 DEF Binding!Prove
    <2>3. /\ layer' \in [Binding!Layer -> [task : {"new", "waiting", "proving", "over"},
                                           value : {None, "released", "unconfirmed", "notApplicable"}]]
          /\ \A k \in Binding!Layer \ {l} : layer'[k] = layer[k]
          /\ Task(l)' = "over" /\ Value(l)' = IF Value(l) = None THEN value ELSE Value(l)
          /\ reason' \in BOOLEAN
      BY <2>1, FinishedIs
    <2>4. /\ l = "protocol" /\ value = "released" => Value("target") \in {"released", "notApplicable"}
          /\ l = "host" /\ value = "released" =>
               IF options.protocol THEN Value("protocol") \in {"released", "notApplicable"}
                                   ELSE Value("target") \in {"released", "notApplicable"}
      BY <2>1, <2>2 DEF LayerInv, Binding!Prior, Binding!TypeOK
    <2>5. target' \in {"none", "alive", "gone"} /\ session' \in {"none", "open", "released"} /\ host' \in {"alive", "gone"}
      BY <2>2 DEF Binding!TypeOK
    <2>6. Binding!TypeOK'
      BY <2>2, <2>3, <2>5 DEF Binding!TypeOK
    <2>7. AcquiredInv'
      BY <2>2 DEF AcquiredInv, LayerInv
    <2>8. LayerInv'
      <3>1. CASE l = "target"
        BY <2>1, <2>2, <2>3, <3>1 DEF LayerInv
      <3>2. CASE l = "protocol"
        BY <2>1, <2>2, <2>3, <2>4, <3>2 DEF LayerInv
      <3>3. CASE l = "host"
        BY <2>1, <2>2, <2>3, <2>4, <3>3 DEF LayerInv
      <3>4. QED
        BY <3>1, <3>2, <3>3
    <2>9. ConfirmedInv'
      BY <2>2, <2>3, ValuesStay
    <2>10. QED
      BY <2>6, <2>7, <2>8, <2>9
  <1>4. ASSUME NEW l \in Binding!Layer, Binding!LayerBegins(l) PROVE BindingInv'
    <2>1. /\ begun' = TRUE
          /\ UNCHANGED <<options, acquire, acquisition, coming, target, session, host, turn, barrier, lease>>
          /\ \/ Binding!Applies(l) /\ layer' = [layer EXCEPT ![l].task = "waiting"] /\ UNCHANGED reason
             \/ Binding!Applies(l) /\ Binding!Finished(l, "waiting", "unconfirmed")
             \/ UNCHANGED <<layer, reason>>
      BY <1>4 DEF Binding!LayerBegins
    <2>2. /\ layer' \in [Binding!Layer -> [task : {"new", "waiting", "proving", "over"},
                                           value : {None, "released", "unconfirmed", "notApplicable"}]]
          /\ \A k \in Binding!Layer \ {l} : layer'[k] = layer[k]
          /\ Value(l) # None => Value(l)' = Value(l)
          /\ Value(l)' = Value(l) \/ Value(l)' = "unconfirmed"
          /\ Task(l)' = Task(l) \/ (Task(l)' = "waiting" /\ Binding!Applies(l))
          /\ reason' \in BOOLEAN
      <3>1. CASE Binding!Applies(l) /\ layer' = [layer EXCEPT ![l].task = "waiting"] /\ UNCHANGED reason
        BY <3>1 DEF Binding!TypeOK
      <3>2. CASE Binding!Applies(l) /\ Binding!Finished(l, "waiting", "unconfirmed")
        BY <3>2, FinishedIs
      <3>3. CASE UNCHANGED <<layer, reason>>
        BY <3>3 DEF Binding!TypeOK
      <3>4. QED
        BY <2>1, <3>1, <3>2, <3>3
    <2>3. Binding!TypeOK' /\ AcquiredInv'
      BY <2>1, <2>2 DEF Binding!TypeOK, AcquiredInv
    <2>4. l = "target" => options.owned \/ (Task(l)' = Task(l) /\ Value(l)' = Value(l))
      BY <1>4, <2>2 DEF Binding!Applies, Binding!LayerBegins, LayerInv
    <2>5. LayerInv'
      BY <2>1, <2>2, <2>4 DEF LayerInv
    <2>6. ConfirmedInv'
      BY <2>1, <2>2, ValuesStay
    <2>7. QED
      BY <2>3, <2>5, <2>6
  <1>5. ASSUME NEW l \in Binding!Layer, Binding!LayerEnds(l) PROVE BindingInv'
    <2>1. /\ turn \in {1, 2, 3, 4, 5} /\ turn' = turn + 1 /\ begun' = FALSE
          /\ UNCHANGED <<options, acquire, acquisition, coming, target, session, host, layer, reason, barrier, lease>>
      BY <1>5 DEF Binding!LayerEnds, Binding!Of, Binding!Resources
    <2>a. begun' \in BOOLEAN
      BY <2>1
    <2>b. turn' \in 0 .. 6
      BY <2>1
    <2>2. Binding!TypeOK' /\ AcquiredInv'
      BY <2>1, <2>a, <2>b DEF Binding!TypeOK, AcquiredInv
    <2>3. LayerInv' /\ ConfirmedInv'
      BY <2>1, LayersStay
    <2>4. QED
      BY <2>2, <2>3
  <1>6. ASSUME Binding!Barrier PROVE BindingInv'
    <2>1. /\ barrier' = IF Binding!Confirmed THEN "released" ELSE "unconfirmed"
          /\ UNCHANGED <<options, acquire, acquisition, coming, target, session, host, layer, begun, lease>>
      BY <1>6 DEF Binding!Barrier
    <2>2. reason' \in BOOLEAN
      BY <1>6 DEF Binding!Barrier
    <2>3. turn' \in 0 .. 6
      BY <1>6 DEF Binding!Barrier, Binding!Of, Binding!Resources
    <2>4. Binding!TypeOK' /\ AcquiredInv'
      BY <2>1, <2>2, <2>3 DEF Binding!TypeOK, AcquiredInv
    <2>5. LayerInv'
      BY <2>1 DEF LayerInv
    <2>6. ConfirmedInv'
      <3>1. Value(Binding!LastLayer)' = Value(Binding!LastLayer)
        BY <2>1 DEF Binding!LastLayer
      <3>2. QED
        BY <2>1, <3>1 DEF ConfirmedInv, Binding!Confirmed
    <2>7. QED
      BY <2>4, <2>5, <2>6
  <1>7. ASSUME Binding!LeaseDecided PROVE BindingInv'
    <2>1. /\ lease' = IF Binding!Confirmed THEN "releasing" ELSE "kept"
          /\ UNCHANGED <<options, acquire, acquisition, coming, target, session, host, layer, begun, barrier>>
      BY <1>7 DEF Binding!LeaseDecided
    <2>2. reason' \in BOOLEAN
      BY <1>7 DEF Binding!LeaseDecided
    <2>3. turn' \in 0 .. 6
      BY <1>7 DEF Binding!LeaseDecided
    <2>4. Binding!TypeOK' /\ AcquiredInv'
      BY <2>1, <2>2, <2>3 DEF Binding!TypeOK, AcquiredInv
    <2>5. LayerInv'
      BY <2>1 DEF LayerInv
    <2>6. ConfirmedInv'
      <3>1. Value(Binding!LastLayer)' = Value(Binding!LastLayer)
        BY <2>1 DEF Binding!LastLayer
      <3>2. QED
        BY <2>1, <3>1 DEF ConfirmedInv, Binding!Confirmed
    <2>7. QED
      BY <2>4, <2>5, <2>6
  <1>8. ASSUME Binding!LeaseReleased PROVE BindingInv'
    <2>1. /\ lease = "releasing" /\ lease' = "released"
          /\ UNCHANGED <<options, acquire, acquisition, coming, target, session, host, layer, reason, turn, begun, barrier>>
      BY <1>8 DEF Binding!LeaseReleased
    <2>2. Binding!TypeOK' /\ AcquiredInv'
      BY <2>1 DEF Binding!TypeOK, AcquiredInv
    <2>3. LayerInv'
      BY <2>1 DEF LayerInv
    <2>4. ConfirmedInv'
      BY <2>1 DEF ConfirmedInv, Binding!LastLayer
    <2>5. QED
      BY <2>2, <2>3, <2>4
  <1>9. QED
    BY <1>1, <1>2, <1>3, <1>4, <1>5, <1>6, <1>7, <1>8

LEMMA BindingStep == ASSUME BindingInv, [Binding!Next]_(Binding!bindingVars) PROVE BindingInv'
  <1>1. CASE UNCHANGED Binding!bindingVars
    <2>1. Binding!TypeOK' /\ AcquiredInv'
      BY <1>1 DEF BindingInv, Binding!bindingVars, Binding!TypeOK, AcquiredInv
    <2>2. LayerInv' /\ ConfirmedInv'
      BY <1>1, LayersStay DEF Binding!bindingVars
    <2>3. QED
      BY <2>1, <2>2 DEF BindingInv
  <1>2. CASE Binding!Next
    BY <1>2, AcquisitionKeepsIt, CleanupKeepsIt DEF Binding!Next
  <1>3. QED
    BY <1>1, <1>2

LEMMA BindingHolds == ASSUME BindingInv PROVE Binding!ApplicationIsGivenBack
  <1>1. ASSUME Value(Binding!LastLayer) \in {"released", "notApplicable"} PROVE Binding!NothingLeft
    <2>1. options.owned => Value("target") = "released"
      BY <1>1 DEF BindingInv, LayerInv, Binding!LastLayer
    <2>2. options.protocol => Value("protocol") = "released"
      BY <1>1 DEF BindingInv, LayerInv, Binding!LastLayer
    <2>3. options.host => Value("host") = "released"
      BY <1>1 DEF BindingInv, LayerInv, Binding!LastLayer
    <2>4. options.owned \/ options.protocol => ~coming
      BY <2>1, <2>2 DEF BindingInv, LayerInv, AcquiredInv
    <2>5. QED
      BY <2>1, <2>2, <2>3, <2>4 DEF BindingInv, LayerInv, Binding!NothingLeft
  <1>2. QED
    BY <1>1 DEF BindingInv, AcquiredInv, ConfirmedInv, Binding!ApplicationIsGivenBack

HIDE DEF host, options, target, acquire, acquisition, session, lease, coming, layer, reason, turn, begun, barrier
HIDE DEF Binding!Layer, Value, Task

-----------------------------------------------------------------------------
(* What a Case was given, given back                                       *)

\* A browser that a launch acquired is handed over alive or is being closed, wherever the
\* abort comes; a Case's browser and its application are given back only when nothing is
\* left of them and none can still come, an acquired browser is being closed, a call told
\* to be stopped was not submitted, and a borrowed application is not ended (owned-browser.ts,
\* surfaces/browser-controller.ts, native-binding/resources.ts).
THEOREM SurfacesStayGivenBack == Spec => []SurfacesAreGivenBack
  <1> DEFINE Inv == /\ picked = "browser" => BrowserInv
                    /\ picked = "surface" => SurfaceInv
                    /\ picked = "binding" => BindingInv
  <1>1. Init => Inv
    BY BrowserInit, SurfaceInit, BindingInit DEF Init
  <1>2. Inv /\ [Next]_allVars => Inv'
    BY OneIsPicked, BrowserStep, SurfaceStep, BindingStep
  <1>3. Inv => SurfacesAreGivenBack
    BY BrowserHasOneOwner, SurfaceHolds, BindingHolds DEF SurfacesAreGivenBack
  <1> HIDE DEF Inv
  <1>4. QED
    BY <1>1, <1>2, <1>3, PTL DEF Spec

-----------------------------------------------------------------------------
(* JudgeRouter                                                             *)

route == v4
index == v6
signalled == v7
said == v8
race == v9
outcome == v10
request == v11
attempts == v12
cursor == v13
child == v14
sentLate == v15

USE DEF at, late, aborted, call, request, route, index, signalled, said, race, outcome,
         attempts, cursor, child, sentLate

Places == {"new", "ready", "refused", "judging", "racing", "judged", "done"}
CallPlaces == {"none", "due", "called", "importing", "sent", "waiting", "process", "settled"}

RouterType ==
  /\ late \in BOOLEAN /\ aborted \in BOOLEAN /\ sentLate \in BOOLEAN /\ at \in Places
  /\ \E S : route \in Seq(S)
  /\ \E S : attempts \in Seq(S)
  /\ call \in [Router!Candidates -> CallPlaces]
  /\ signalled \in [Router!Candidates -> BOOLEAN]
  /\ child \in [Router!Candidates -> {"none", "running", "stopping", "closed"}]
  /\ DOMAIN said = Router!Candidates
  /\ index \in 0 .. Len(route)
  /\ at \in {"new", "ready", "refused"} <=> index = 0
  /\ at = "ready" => Len(route) > 0

\* The candidates are asked one after the other; the next one only after the last
\* one's call is over.
AskedInv ==
  /\ \A i \in Router!Candidates : i > index => call[i] = "none"
  /\ at = "judging" => call[index] = "none"
  /\ at = "racing" => call[index] # "none"
  /\ \A i \in Router!Candidates : call[i] \notin {"none", "settled"} => i = index
  /\ at = "racing" /\ race # None /\ race.kind # "stop" => call[index] = "settled"
  /\ at = "judged" /\ Router!ShouldFallback(outcome) => call[index] = "settled"

\* The record of the attempts.
AttemptsInv ==
  /\ index = 0 => Len(attempts) = 0
  /\ at \in {"judging", "racing", "judged"} => Len(attempts) = index - 1
  /\ at = "done" => Len(attempts) = index
  /\ \A i \in 1 .. Len(attempts) : i < index =>
       attempts[i].disposition = "fallback" /\ attempts[i].failure \in {"rateLimited", "server"}
  /\ at = "done" => (attempts[index].disposition = "selected") = (outcome.status # "providerFailure")

\* A call that its judge has left was told to stop, and why.
SignalInv ==
  /\ \A i \in Router!Candidates : signalled[i] => (aborted \/ late) /\ child[i] # "running"
  /\ \A i \in Router!Candidates : call[i] \notin {"none", "settled"} =>
       /\ at \in {"racing", "judged", "done"}
       /\ at # "racing" => signalled[i]
  /\ at = "racing" /\ race # None /\ call[index] # "settled" => signalled[index]
  /\ \A i \in Router!Candidates : aborted /\ Router!Working(i) => signalled[i]
  /\ ~sentLate

\* A classification is the model's own, and its support was looked at.
FoundedInv ==
  /\ at = "racing" /\ race # None /\ race.kind = "value" /\ race.value.status = "classified" =>
       race.value = said[index]
  /\ at \in {"judged", "done"} /\ outcome.status = "classified" => call[index] = "settled"
  /\ at \in {"new", "ready", "refused"} => outcome = None
  /\ at \in {"judging", "racing"} => outcome = None \/ outcome.status = "providerFailure"
  /\ Router!Founded

RouterInv == RouterType /\ AskedInv /\ AttemptsInv /\ SignalInv /\ FoundedInv

LEMMA RouterInit == ASSUME Router!Init PROVE RouterInv
  <1> USE DEF Router!Init, Router!Candidates
  <1>1. route \in Seq({}) /\ attempts \in Seq({})
    OBVIOUS
  <1>2. Len(route) = 0 /\ Len(attempts) = 0 /\ Router!Candidates = {}
    OBVIOUS
  <1>3. call \in [{} -> CallPlaces] /\ signalled \in [{} -> BOOLEAN]
    OBVIOUS
  <1>4. child \in [{} -> {"none", "running", "stopping", "closed"}] /\ DOMAIN said = {}
    OBVIOUS
  <1>5. late \in BOOLEAN /\ aborted \in BOOLEAN /\ sentLate \in BOOLEAN
    OBVIOUS
  <1>6. index = 0 /\ at = "new"
    OBVIOUS
  <1>7. RouterType
    <2>1. \E S : route \in Seq(S)
      BY <1>1
    <2>2. \E S : attempts \in Seq(S)
      BY <1>1
    <2>3. QED
      BY <1>2, <1>3, <1>4, <1>5, <1>6, <2>1, <2>2 DEF RouterType, Places
  <1>8. AskedInv /\ AttemptsInv
    BY <1>2 DEF AskedInv, AttemptsInv
  <1>9. SignalInv
    BY <1>2 DEF SignalInv
  <1>10. FoundedInv
    BY DEF FoundedInv, Router!Founded
  <1>11. QED
    BY <1>7, <1>8, <1>9, <1>10 DEF RouterInv

\* A call that is under way goes on.
LEMMA CallGoesOn ==
  ASSUME RouterInv, NEW i \in Router!Candidates, call[i] \notin {"none", "settled"},
         NEW place \in CallPlaces \ {"none", "settled"}, call' = [call EXCEPT ![i] = place],
         aborted /\ place # "due" => signalled[i],
         child' \in [Router!Candidates -> {"none", "running", "stopping", "closed"}],
         \A j \in Router!Candidates : signalled[j] => child'[j] # "running",
         route' = route, request' = request, late' = late, aborted' = aborted, at' = at, index' = index,
         signalled' = signalled, DOMAIN said' = DOMAIN said, said'[i] = said[i], race' = race, outcome' = outcome, attempts' = attempts,
         sentLate' = FALSE
  PROVE  RouterInv'
  <1> USE DEF RouterInv
  <1>1. Router!Candidates' = Router!Candidates /\ i = index
    BY DEF AskedInv, Router!Candidates
  <1>2. /\ call' \in [Router!Candidates -> CallPlaces]
        /\ call'[i] = place /\ \A j \in Router!Candidates \ {i} : call'[j] = call[j]
    BY DEF RouterType
  <1>3. RouterType'
    BY <1>1, <1>2 DEF RouterType
  <1>4. AskedInv'
    BY <1>1, <1>2 DEF AskedInv, SignalInv, Router!ShouldFallback
  <1>5. AttemptsInv'
    BY DEF AttemptsInv
  <1>6. SignalInv'
    BY <1>1, <1>2 DEF SignalInv, Router!Working
  <1>7. FoundedInv'
    <2>1. Router!Founded'
      BY <1>1 DEF FoundedInv, Router!Founded
    <2>2. QED
      BY <1>1, <1>2, <2>1 DEF FoundedInv
  <1>8. QED
    BY <1>3, <1>4, <1>5, <1>6, <1>7

\* A call that is under way settles, and the race with it unless it is over.
LEMMA CallSettles ==
  ASSUME RouterInv, NEW i \in Router!Candidates, call[i] \notin {"none", "settled"},
         NEW got, Router!SettledWith(i, got),
         got.kind = "value" /\ got.value.status = "classified" => got.value = said'[i],
         child' \in [Router!Candidates -> {"none", "running", "stopping", "closed"}],
         \A j \in Router!Candidates : signalled[j] => child'[j] # "running",
         route' = route, request' = request, late' = late, aborted' = aborted, at' = at, index' = index,
         signalled' = signalled, DOMAIN said' = DOMAIN said, outcome' = outcome, attempts' = attempts,
         sentLate' = sentLate
  PROVE  RouterInv'
  <1> USE DEF RouterInv
  <1>1. Router!Candidates' = Router!Candidates /\ i = index
    BY DEF AskedInv, Router!Candidates
  <1>2. /\ call' \in [Router!Candidates -> CallPlaces]
        /\ call'[i] = "settled" /\ \A j \in Router!Candidates \ {i} : call'[j] = call[j]
    BY DEF RouterType, Router!SettledWith, CallPlaces
  <1>3. \/ race' = race
        \/ at = "racing" /\ race = None /\ race'.kind = "stop"
        \/ at = "racing" /\ race = None /\ race' = got
    BY DEF Router!SettledWith, Router!Settle
  <1>4. RouterType'
    BY <1>1, <1>2 DEF RouterType
  <1>5. AskedInv'
    BY <1>1, <1>2 DEF AskedInv
  <1>6. AttemptsInv'
    BY DEF AttemptsInv
  <1>7. SignalInv'
    BY <1>1, <1>2 DEF SignalInv, Router!Working
  <1>8. FoundedInv'
    <2>1. at = "racing" /\ race # None => race.kind = "stop"
      BY <1>1 DEF AskedInv
    <2>2. at' = "racing" /\ race' # None /\ race'.kind = "value" /\ race'.value.status = "classified" => race'.value = said'[index]
      BY <1>1, <1>3, <2>1
    <2>3. Router!Founded'
      <3>1. outcome = None \/ outcome.status # "classified"
        BY <1>1 DEF FoundedInv, SignalInv
      <3>2. QED
        BY <3>1 DEF Router!Founded
    <2>4. QED
      BY <1>1, <1>2, <2>2, <2>3 DEF FoundedInv
  <1>9. QED
    BY <1>4, <1>5, <1>6, <1>7, <1>8

\* Nothing is under way that the caller's abort or the deadline has not stopped.
LEMMA ProviderKeepsIt ==
  ASSUME RouterInv, NEW i \in Router!Candidates
  PROVE  /\ Router!Dispatch(i) \/ Router!ApiKey(i) \/ Router!Create(i) \/ Router!Respond(i) => RouterInv'
         /\ Router!Fake(i) \/ Router!FakeRejects(i) => RouterInv'
         /\ Router!Spawn(i) \/ Router!DeadlineTimer(i) \/ Router!Closed(i) => RouterInv'
  <1> USE DEF Router!Thrown, Router!Value, Router!Failure
  <1>1. /\ sentLate = FALSE /\ child \in [Router!Candidates -> {"none", "running", "stopping", "closed"}]
        /\ \A j \in Router!Candidates : signalled[j] => child[j] # "running"
        /\ DOMAIN said = Router!Candidates
    BY DEF RouterInv, RouterType, SignalInv
  <1>2. call[i] \in CallPlaces /\ {"called", "importing", "sent", "waiting", "process"} \subseteq CallPlaces \ {"none", "settled"}
    BY DEF RouterInv, RouterType, CallPlaces
  <1>3. ASSUME Router!Dispatch(i) PROVE RouterInv'
    <2>1. CASE Router!CurrentStop # None
      <3>1. Router!SettledWith(i, None)
        BY <1>3, <2>1 DEF Router!Dispatch
      <3>2. Router!SettledWith(i, [kind |-> "stop"])
        BY <2>1, <3>1 DEF Router!SettledWith
      <3>3. QED
        BY <1>1, <1>3, <3>2, CallSettles DEF Router!Dispatch
    <2>2. CASE Router!CurrentStop = None
      BY <1>1, <1>2, <1>3, <2>2, CallGoesOn, RouterAssumption DEF Router!Dispatch, Router!CurrentStop
    <2>3. QED
      BY <2>1, <2>2
  <1>4. ASSUME Router!ApiKey(i) PROVE RouterInv'
    <2>1. CASE call' = [call EXCEPT ![i] = "importing"] /\ UNCHANGED race
      BY <1>1, <1>2, <1>4, <2>1, CallGoesOn DEF Router!ApiKey, RouterInv, SignalInv, Router!Working
    <2>2. CASE Router!SettledWith(i, Router!Thrown(Router!Failure("authentication", FALSE)))
      BY <1>1, <1>4, <2>2, CallSettles DEF Router!ApiKey
    <2>3. QED
      BY <1>4, <2>1, <2>2 DEF Router!ApiKey
  <1>5. ASSUME Router!Create(i) PROVE RouterInv'
    <2>1. CASE Router!CanDispatch(i)
      <3>1. ~aborted /\ ~late
        BY <1>5, <2>1 DEF Router!Create, Router!CanDispatch, RouterInv, SignalInv, Router!Working
      <3>2. sentLate' = FALSE
        BY <1>1, <1>5, <2>1, <3>1 DEF Router!Create
      <3>3. QED
        BY <1>1, <1>2, <1>5, <2>1, <3>1, <3>2, CallGoesOn DEF Router!Create
    <2>2. CASE ~Router!CanDispatch(i)
      BY <1>1, <1>5, <2>2, CallSettles DEF Router!Create
    <2>3. QED
      BY <2>1, <2>2
  <1>6. ASSUME NEW error, Router!Fails(i, error), call[i] \notin {"none", "settled"},
               child' \in [Router!Candidates -> {"none", "running", "stopping", "closed"}],
               \A j \in Router!Candidates : signalled[j] => child'[j] # "running",
               route' = route, request' = request, late' = late, aborted' = aborted, at' = at, index' = index,
               signalled' = signalled, outcome' = outcome, attempts' = attempts, sentLate' = sentLate
        PROVE  RouterInv'
    BY <1>6, CallSettles DEF Router!Fails
  <1>7. ASSUME NEW value, NEW d, Router!SettledWith(i, Router!Value(value)), said' = [said EXCEPT ![i] = d],
               value.status = "classified" => value = d, call[i] \notin {"none", "settled"},
               child' \in [Router!Candidates -> {"none", "running", "stopping", "closed"}],
               \A j \in Router!Candidates : signalled[j] => child'[j] # "running",
               route' = route, request' = request, late' = late, aborted' = aborted, at' = at, index' = index,
               signalled' = signalled, outcome' = outcome, attempts' = attempts, sentLate' = sentLate
        PROVE  RouterInv'
    <2>1. DOMAIN said' = DOMAIN said /\ said'[i] = d
      BY <1>1, <1>7
    <2>2. QED
      BY <1>7, <2>1, CallSettles
  <1>8. ASSUME NEW d, Router!Says(i, d), call[i] \notin {"none", "settled"},
               child' \in [Router!Candidates -> {"none", "running", "stopping", "closed"}],
               \A j \in Router!Candidates : signalled[j] => child'[j] # "running",
               route' = route, request' = request, late' = late, aborted' = aborted, at' = at, index' = index,
               signalled' = signalled, outcome' = outcome, attempts' = attempts, sentLate' = sentLate
        PROVE  RouterInv'
    <2>1. Router!BindStructuredDecision(d).status = "classified" => Router!BindStructuredDecision(d) = d
      BY DEF Router!BindStructuredDecision
    <2>2. QED
      BY <1>7, <1>8, <2>1 DEF Router!Says
  <1>9. ASSUME Router!Respond(i) PROVE RouterInv'
    <2>1. CASE \E d \in ModelDecision : Router!Says(i, d)
      BY <1>1, <1>8, <1>9, <2>1 DEF Router!Respond
    <2>2. CASE Router!SettledWith(i, Router!Value(Router!Failure("invalidResponse", FALSE))) /\ UNCHANGED said
      BY <1>1, <1>9, <2>2, CallSettles DEF Router!Respond
    <2>3. CASE \E status \in {401, 429, 500, 400, None} : Router!Fails(i, Router!ThrowMappedProviderError(status))
      BY <1>1, <1>6, <1>9, <2>3 DEF Router!Respond
    <2>4. QED
      BY <1>9, <2>1, <2>2, <2>3 DEF Router!Respond
  <1>10. ASSUME Router!Fake(i) PROVE RouterInv'
    <2> DEFINE step == IF cursor < Len(FakeScript) THEN FakeScript[cursor + 1] ELSE [kind |-> "exhausted"]
    <2>1. CASE said' = [said EXCEPT ![i] = step.output] /\ Router!SettledWith(i, Router!Value(step.output))
      BY <1>1, <1>7, <1>10, <2>1 DEF Router!Fake
    <2>2. CASE Router!Fails(i, step.failure)
      BY <1>1, <1>6, <1>10, <2>2 DEF Router!Fake
    <2>3. CASE Router!Fails(i, Router!Failure("provider", FALSE))
      BY <1>1, <1>6, <1>10, <2>3 DEF Router!Fake
    <2>4. CASE call' = [call EXCEPT ![i] = "waiting"] /\ UNCHANGED <<race, said>>
      BY <1>1, <1>2, <1>10, <2>4, CallGoesOn DEF Router!Fake, RouterInv, SignalInv, Router!Working
    <2>5. QED
      BY <1>10, <2>1, <2>2, <2>3, <2>4 DEF Router!Fake
  <1>11. ASSUME Router!FakeRejects(i) PROVE RouterInv'
    BY <1>1, <1>6, <1>11 DEF Router!FakeRejects
  <1>12. ASSUME Router!Spawn(i) PROVE RouterInv'
    <2>1. /\ child' \in [Router!Candidates -> {"none", "running", "stopping", "closed"}]
          /\ \A j \in Router!Candidates : signalled[j] => child'[j] # "running"
      BY <1>1, <1>12 DEF Router!Spawn
    <2>2. QED
      BY <1>1, <1>2, <1>12, <2>1, CallGoesOn DEF Router!Spawn, RouterInv, SignalInv, Router!Working
  <1>13. ASSUME Router!DeadlineTimer(i) PROVE RouterInv'
    <2>1. /\ child' \in [Router!Candidates -> {"none", "running", "stopping", "closed"}]
          /\ \A j \in Router!Candidates : signalled[j] => child'[j] # "running"
      BY <1>1, <1>13 DEF Router!DeadlineTimer, Router!StopChild
    <2>2. RouterType' /\ AskedInv' /\ AttemptsInv'
      BY <1>13, <2>1 DEF Router!DeadlineTimer, RouterInv, RouterType, AskedInv, AttemptsInv, Router!Candidates, Router!ShouldFallback
    <2>3. SignalInv' /\ FoundedInv'
      BY <1>13, <2>1 DEF Router!DeadlineTimer, RouterInv, SignalInv, FoundedInv, Router!Candidates, Router!Founded, Router!Working
    <2>4. QED
      BY <2>2, <2>3 DEF RouterInv
  <1>14. ASSUME Router!Closed(i) PROVE RouterInv'
    <2>1. /\ child' \in [Router!Candidates -> {"none", "running", "stopping", "closed"}]
          /\ \A j \in Router!Candidates : signalled[j] => child'[j] # "running"
      BY <1>1, <1>14 DEF Router!Closed
    <2>2. CASE \E d \in ModelDecision : Router!Says(i, d)
      BY <1>8, <1>14, <2>1, <2>2 DEF Router!Closed
    <2>3. CASE Router!Fails(i, Router!Failure("provider", FALSE))
      BY <1>6, <1>14, <2>1, <2>3 DEF Router!Closed
    <2>4. QED
      BY <1>14, <2>2, <2>3 DEF Router!Closed
  <1>15. QED
    BY <1>3, <1>4, <1>5, <1>9, <1>10, <1>11, <1>12, <1>13, <1>14

\* The router is made with the candidates of its configuration.
LEMMA CreationKeepsIt == ASSUME RouterInv, Router!CreateJudgeRouter PROVE RouterInv'
  <1> USE DEF RouterInv
  <1>1. PICK config \in RouterConfig :
          IF Router!NormalizeRouter(config)
          THEN /\ at' = "ready"
               /\ route' = [i \in DOMAIN config.route |-> config.profiles[config.route[i].profile].provider]
               /\ call' = [i \in DOMAIN config.route |-> "none"] /\ signalled' = [i \in DOMAIN config.route |-> FALSE]
               /\ said' = [i \in DOMAIN config.route |-> None] /\ child' = [i \in DOMAIN config.route |-> "none"]
          ELSE at' = "refused" /\ UNCHANGED <<route, call, signalled, said, child, cursor>>
    BY DEF Router!CreateJudgeRouter
  <1>2. UNCHANGED <<request, late, aborted, index, race, outcome, attempts, sentLate>> /\ at = "new" /\ index = 0
    BY DEF Router!CreateJudgeRouter, RouterType
  <1>3. CASE ~Router!NormalizeRouter(config)
    <2>1. UNCHANGED <<route, call, signalled, said, child>> /\ at' = "refused"
      BY <1>1, <1>3
    <2>2. RouterType' /\ AskedInv' /\ AttemptsInv'
      BY <1>2, <2>1 DEF RouterType, AskedInv, AttemptsInv, Router!Candidates, Places
    <2>3. SignalInv' /\ FoundedInv'
      BY <1>2, <2>1 DEF SignalInv, FoundedInv, Router!Candidates, Router!Founded, Router!Working
    <2>4. QED
      BY <2>2, <2>3
  <1>4. CASE Router!NormalizeRouter(config)
    <2>1. config.route \in Seq({config.route[i] : i \in DOMAIN config.route})
      BY RouterAssumption
    <2> DEFINE n == Len(config.route)
    <2>2. n \in Nat /\ DOMAIN config.route = 1 .. n
      BY <2>1
    <2> DEFINE T == {config.profiles[config.route[i].profile].provider : i \in DOMAIN config.route}
    <2>3a. n > 0
      BY <1>4, <2>1, <2>2 DEF Router!NormalizeRouter
    <2>3. route' \in [1 .. n -> T]
      BY <1>1, <1>4, <2>2
    <2>4. route' \in Seq(T) /\ Len(route') = n
      BY <2>2, <2>3
    <2>5. Router!Candidates' = DOMAIN config.route
      BY <2>2, <2>4 DEF Router!Candidates
    <2>6. /\ call' \in [Router!Candidates' -> CallPlaces] /\ \A i \in Router!Candidates' : call'[i] = "none"
          /\ signalled' \in [Router!Candidates' -> BOOLEAN] /\ \A i \in Router!Candidates' : signalled'[i] = FALSE
          /\ child' \in [Router!Candidates' -> {"none", "running", "stopping", "closed"}]
          /\ DOMAIN said' = Router!Candidates' /\ at' = "ready"
      BY <1>1, <1>4, <2>5 DEF CallPlaces
    <2> HIDE DEF n, T
    <2>7. RouterType'
      <3>1. \E S : route' \in Seq(S)
        BY <2>4
      <3>2. index' \in 0 .. Len(route')
        BY <1>2, <2>2, <2>4
      <3>3. QED
        BY <1>2, <2>3a, <2>4, <2>6, <3>1, <3>2 DEF RouterType, Places
    <2>8. AskedInv' /\ AttemptsInv'
      BY <1>2, <2>6 DEF AskedInv, AttemptsInv
    <2>9. SignalInv'
      BY <1>2, <2>6 DEF SignalInv, Router!Working
    <2>10. FoundedInv'
      BY <1>2, <2>6 DEF FoundedInv, Router!Founded
    <2>11. QED
      BY <2>7, <2>8, <2>9, <2>10
  <1>5. QED
    BY <1>3, <1>4

\* The caller's abort and the deadline reach the candidate that is asked.
LEMMA StopKeepsIt ==
  ASSUME RouterInv, Router!OnAbort \/ Router!Clock \/ Router!ReachDeadline
  PROVE  RouterInv'
  <1> USE DEF RouterInv
  <1>1. ASSUME at = "racing", NEW why, Router!Signal(why), aborted' \/ late', late => late', aborted => aborted',
               aborted' \in BOOLEAN, late' \in BOOLEAN,
               UNCHANGED <<route, request, at, index, call, said, outcome, attempts, cursor, sentLate>>
        PROVE  RouterInv'
    <2>1. Router!Candidates' = Router!Candidates /\ index \in Router!Candidates
      BY <1>1 DEF RouterType, Router!Candidates
    <2>2. /\ signalled' \in [Router!Candidates -> BOOLEAN] /\ signalled'[index] = TRUE
          /\ \A i \in Router!Candidates \ {index} : signalled'[i] = signalled[i]
      BY <1>1, <2>1 DEF Router!Signal, RouterType
    <2>3. /\ child' \in [Router!Candidates -> {"none", "running", "stopping", "closed"}] /\ child'[index] # "running"
          /\ \A i \in Router!Candidates \ {index} : child'[i] = child[i]
      BY <1>1, <2>1 DEF Router!Signal, Router!StopChild, RouterType
    <2>4. race' = race \/ (race = None /\ race'.kind = "stop")
      BY <1>1 DEF Router!Signal, Router!Settle
    <2>5. RouterType'
      BY <1>1, <2>1, <2>2, <2>3 DEF RouterType
    <2>6. AskedInv'
      BY <1>1, <2>1, <2>4 DEF AskedInv
    <2>7. AttemptsInv'
      BY <1>1 DEF AttemptsInv
    <2>8. SignalInv'
      BY <1>1, <2>1, <2>2, <2>3 DEF SignalInv, AskedInv, Router!Working
    <2>9. FoundedInv'
      <3>1. Router!Founded'
        BY <1>1 DEF FoundedInv, Router!Founded
      <3>2. QED
        BY <1>1, <2>4, <3>1 DEF FoundedInv
    <2>10. QED
      BY <2>5, <2>6, <2>7, <2>8, <2>9
  <1>2. ASSUME aborted' \in BOOLEAN, late' \in BOOLEAN, late => late', aborted => aborted',
               aborted' = aborted \/ at # "racing",
               UNCHANGED <<route, request, at, index, call, said, outcome, attempts, sentLate, signalled, race, child>>
        PROVE  RouterInv'
    <2>1. Router!Candidates' = Router!Candidates
      BY <1>2 DEF Router!Candidates
    <2>2. RouterType' /\ AttemptsInv'
      BY <1>2, <2>1 DEF RouterType, AttemptsInv
    <2>3. AskedInv'
      BY <1>2, <2>1 DEF AskedInv, Router!ShouldFallback
    <2>4. SignalInv'
      BY <1>2, <2>1 DEF SignalInv, Router!Working
    <2>5. FoundedInv'
      BY <1>2, <2>1 DEF FoundedInv, Router!Founded
    <2>6. QED
      BY <2>2, <2>3, <2>4, <2>5
  <1>3. CASE Router!OnAbort
    <2>1. CASE at = "racing"
      BY <1>1, <1>3, <2>1 DEF Router!OnAbort, RouterType
    <2>2. CASE at # "racing"
      BY <1>2, <1>3, <2>2 DEF Router!OnAbort, RouterType
    <2>3. QED
      BY <2>1, <2>2
  <1>4. CASE Router!Clock
    BY <1>2, <1>4 DEF Router!Clock, RouterType
  <1>5. CASE Router!ReachDeadline
    BY <1>1, <1>5 DEF Router!ReachDeadline, RouterType
  <1>6. QED
    BY <1>3, <1>4, <1>5

\* A turn of the route: a candidate is judged, and the next is asked or none.
LEMMA TurnKeepsIt ==
  ASSUME RouterInv, Router!Classify \/ Router!Judge \/ Router!Settled \/ Router!Turn
  PROVE  RouterInv'
  <1> USE DEF RouterInv
  <1>1. ASSUME Router!Classify PROVE RouterInv'
    <2>1. UNCHANGED <<route, late, aborted, call, signalled, said, race, outcome, attempts, child, sentLate>> /\ at = "ready"
      BY <1>1 DEF Router!Classify
    <2>2. (at' = "judging" /\ index' = 1) \/ (at' = "refused" /\ index' = index)
      <3>1. PICK q \in JudgeRequest :
              IF q.wrong # "route" /\ Router!NormalizeJudgeRequest(q) /\ Router!SnapshotInvocation(q)
              THEN at' = "judging" /\ request' = q /\ index' = 1
              ELSE at' = "refused" /\ UNCHANGED <<request, index>>
        BY <1>1 DEF Router!Classify
      <3>2. CASE q.wrong # "route" /\ Router!NormalizeJudgeRequest(q) /\ Router!SnapshotInvocation(q)
        BY <3>1, <3>2
      <3>3. CASE ~(q.wrong # "route" /\ Router!NormalizeJudgeRequest(q) /\ Router!SnapshotInvocation(q))
        BY <3>1, <3>3
      <3>4. QED
        BY <3>2, <3>3
    <2>3. index = 0 /\ Router!Candidates' = Router!Candidates
      BY <2>1 DEF RouterType, Router!Candidates
    <2>4. RouterType'
      BY <2>1, <2>2, <2>3 DEF RouterType, Places
    <2>5. AskedInv' /\ AttemptsInv'
      BY <2>1, <2>2, <2>3 DEF AskedInv, AttemptsInv, RouterType, Router!Candidates
    <2>6. SignalInv' /\ FoundedInv'
      BY <2>1, <2>2, <2>3 DEF SignalInv, FoundedInv, Router!Working, Router!Founded
    <2>7. QED
      BY <2>4, <2>5, <2>6
  <1>2. ASSUME Router!Judge PROVE RouterInv'
    <2>1. /\ UNCHANGED <<route, request, late, aborted, index, signalled, said, attempts, child, sentLate>>
          /\ at = "judging"
      BY <1>2 DEF Router!Judge
    <2>2. index \in Router!Candidates /\ Router!Candidates' = Router!Candidates
      BY <2>1 DEF RouterType, Router!Candidates
    <2>3. CASE Router!CurrentStop # None
      <3>1. at' = "judged" /\ outcome' = Router!Stopped(Router!CurrentStop) /\ UNCHANGED <<call, race>>
        BY <1>2, <2>3 DEF Router!Judge
      <3>2. RouterType' /\ AttemptsInv'
        BY <2>1, <2>2, <3>1 DEF RouterType, AttemptsInv, Places
      <3>3. AskedInv'
        BY <2>1, <2>2, <3>1 DEF AskedInv, Router!Stopped, Router!Failure, Router!ShouldFallback
      <3>4. SignalInv' /\ FoundedInv'
        BY <2>1, <2>2, <3>1 DEF SignalInv, FoundedInv, Router!Working, Router!Founded, Router!Stopped, Router!Failure
      <3>5. QED
        BY <3>2, <3>3, <3>4
    <2>4. CASE Router!CurrentStop = None
      <3>1. at' = "racing" /\ call' = [call EXCEPT ![index] = "due"] /\ race' = None /\ UNCHANGED outcome
        BY <1>2, <2>4 DEF Router!Judge
      <3>2. /\ call' \in [Router!Candidates -> CallPlaces] /\ call'[index] = "due"
            /\ \A i \in Router!Candidates \ {index} : call'[i] = call[i]
        BY <2>2, <3>1 DEF RouterType, CallPlaces
      <3>3. RouterType' /\ AttemptsInv'
        BY <2>1, <2>2, <3>1, <3>2 DEF RouterType, AttemptsInv, Places
      <3>4. AskedInv'
        <4>1. \A i \in Router!Candidates : i > index => call'[i] = "none"
          BY <2>2, <3>2 DEF AskedInv, Router!Candidates
        <4>2. \A i \in Router!Candidates : call'[i] \notin {"none", "settled"} => i = index
          BY <2>2, <3>2 DEF AskedInv
        <4>3. QED
          BY <2>1, <2>2, <3>1, <3>2, <4>1, <4>2 DEF AskedInv
      <3>5. SignalInv' /\ FoundedInv'
        BY <2>1, <2>2, <3>1, <3>2 DEF SignalInv, FoundedInv, Router!Working, Router!Founded
      <3>6. QED
        BY <3>3, <3>4, <3>5
    <2>5. QED
      BY <2>3, <2>4
  <1>3. ASSUME Router!Settled PROVE RouterInv'
    <2>1. /\ UNCHANGED <<route, request, late, aborted, index, call, signalled, said, race, attempts, child, sentLate>>
          /\ at = "racing" /\ race # None /\ at' = "judged"
      BY <1>3 DEF Router!Settled
    <2>2. index \in Router!Candidates /\ Router!Candidates' = Router!Candidates
      BY <2>1 DEF RouterType, Router!Candidates
    <2>3. /\ outcome'.status = "classified" =>
                /\ race.kind = "value" /\ outcome' = race.value /\ Router!NormalizeProviderOutcome(race.value)
          /\ Router!ShouldFallback(outcome') => race.kind # "stop"
      BY <1>3 DEF Router!Settled, Router!Stopped, Router!Failure, Router!ProviderErrorData, Router!ShouldFallback
    <2>4. RouterType' /\ AttemptsInv'
      BY <2>1, <2>2 DEF RouterType, AttemptsInv, Places
    <2>5. AskedInv'
      BY <2>1, <2>2, <2>3 DEF AskedInv
    <2>6. SignalInv'
      BY <2>1, <2>2 DEF SignalInv, Router!Working, AskedInv
    <2>7. FoundedInv'
      <3>1. Router!Founded'
        BY <2>1, <2>2, <2>3 DEF FoundedInv, Router!Founded, Router!NormalizeProviderOutcome, Router!Support, Router!Refs
      <3>2. QED
        BY <2>1, <2>3, <3>1 DEF FoundedInv, AskedInv
    <2>8. QED
      BY <2>4, <2>5, <2>6, <2>7
  <1>4. ASSUME Router!Turn PROVE RouterInv'
    <2> DEFINE failing == outcome.status = "providerFailure"
               fallback == index < Len(route) /\ Router!ShouldFallback(outcome)
               attempt == [disposition |-> IF fallback THEN "fallback" ELSE IF failing THEN "failed" ELSE "selected",
                           failure |-> IF failing THEN outcome.kind ELSE None]
    <2>1. /\ UNCHANGED <<route, request, late, aborted, call, signalled, said, race, outcome, child, sentLate>>
          /\ at = "judged" /\ attempts' = Append(attempts, attempt)
      BY <1>4 DEF Router!Turn
    <2>2. index \in Router!Candidates /\ Router!Candidates' = Router!Candidates /\ index \in 1 .. Len(route)
      BY <2>1 DEF RouterType, Router!Candidates
    <2>3. attempt.disposition = IF fallback THEN "fallback" ELSE IF failing THEN "failed" ELSE "selected"
      OBVIOUS
    <2>4. fallback => failing /\ attempt.failure \in {"rateLimited", "server"}
      BY DEF Router!ShouldFallback
    <2> HIDE DEF attempt
    <2>5. /\ \E S : attempts' \in Seq(S)
          /\ Len(attempts') = Len(attempts) + 1 /\ attempts'[Len(attempts) + 1] = attempt
          /\ \A i \in 1 .. Len(attempts) : attempts'[i] = attempts[i]
          /\ Len(attempts) = index - 1
      <3>1. PICK S : attempts \in Seq(S)
        BY DEF RouterType
      <3>2. attempts \in Seq(S \cup {attempt}) /\ Len(attempts) = index - 1
        BY <2>1, <3>1 DEF AttemptsInv
      <3>3. QED
        BY <2>1, <3>2
    <2>6. CASE fallback
      <3>1. index' = index + 1 /\ at' = "judging" /\ Router!ShouldFallback(outcome)
        BY <1>4, <2>6 DEF Router!Turn
      <3>2. RouterType'
        BY <2>1, <2>2, <2>5, <2>6, <3>1 DEF RouterType, Places
      <3>3. AskedInv'
        BY <2>1, <2>2, <2>6, <3>1 DEF AskedInv, Router!Candidates
      <3>4. AttemptsInv'
        BY <2>1, <2>2, <2>3, <2>4, <2>5, <2>6, <3>1 DEF AttemptsInv
      <3>5. call[index] = "settled"
        BY <2>1, <3>1 DEF AskedInv
      <3>6. SignalInv'
        BY <2>1, <2>2, <3>1, <3>5 DEF SignalInv, AskedInv, Router!Working
      <3>7. FoundedInv'
        BY <2>1, <2>4, <2>6, <3>1 DEF FoundedInv, Router!Founded
      <3>8. QED
        BY <3>2, <3>3, <3>4, <3>6, <3>7
    <2>7. CASE ~fallback
      <3>1. index' = index /\ at' = "done"
        BY <1>4, <2>7 DEF Router!Turn
      <3>2. RouterType'
        BY <2>1, <2>2, <2>5, <3>1 DEF RouterType, Places
      <3>3. AskedInv'
        BY <2>1, <2>2, <3>1 DEF AskedInv
      <3>4. AttemptsInv'
        BY <2>1, <2>2, <2>3, <2>5, <2>7, <3>1 DEF AttemptsInv
      <3>5. SignalInv'
        BY <2>1, <2>2, <3>1 DEF SignalInv, Router!Working
      <3>6. FoundedInv'
        BY <2>1, <2>2, <3>1 DEF FoundedInv, Router!Founded
      <3>7. QED
        BY <3>2, <3>3, <3>4, <3>5, <3>6
    <2>8. QED
      BY <2>6, <2>7
  <1>5. QED
    BY <1>1, <1>2, <1>3, <1>4

LEMMA RouterStep == ASSUME RouterInv, [Router!Next]_(Router!vars) PROVE RouterInv'
  <1>1. CASE UNCHANGED Router!vars
    <2>1. RouterType' /\ AskedInv' /\ AttemptsInv'
      BY <1>1 DEF Router!vars, RouterInv, RouterType, AskedInv, AttemptsInv, Router!Candidates, Router!ShouldFallback
    <2>2. SignalInv' /\ FoundedInv'
      BY <1>1 DEF Router!vars, RouterInv, SignalInv, FoundedInv, Router!Candidates, Router!Founded, Router!Working
    <2>3. QED
      BY <2>1, <2>2 DEF RouterInv
  <1>2. CASE \E i \in Router!Candidates :
               \/ Router!Dispatch(i) \/ Router!ApiKey(i) \/ Router!Create(i) \/ Router!Respond(i) \/ Router!Fake(i)
               \/ Router!FakeRejects(i) \/ Router!Spawn(i) \/ Router!DeadlineTimer(i) \/ Router!Closed(i)
    BY <1>2, ProviderKeepsIt
  <1>3. QED
    BY <1>1, <1>2, CreationKeepsIt, StopKeepsIt, TurnKeepsIt DEF Router!Next

LEMMA RouterHolds == ASSUME RouterInv PROVE Router!RouteIsAnswered
  <1>1. Router!InTurn
    <2>1. \A i \in DOMAIN attempts : i < index =>
            attempts[i].disposition = "fallback" /\ attempts[i].failure \in {"rateLimited", "server"}
      BY DEF RouterInv, RouterType, AttemptsInv
    <2>2. \A i \in Router!Candidates : Router!Working(i) => i = index
      BY DEF RouterInv, AskedInv, Router!Working
    <2>3. at = "done" => /\ Len(attempts) = index
                         /\ (attempts[index].disposition = "selected") = (outcome.status # "providerFailure")
      BY DEF RouterInv, AttemptsInv
    <2>4. QED
      BY <2>1, <2>2, <2>3 DEF Router!InTurn
  <1>2. Router!StopsReach
    BY DEF RouterInv, SignalInv, Router!StopsReach, Router!Working
  <1>3. QED
    BY <1>1, <1>2 DEF RouterInv, FoundedInv, Router!RouteIsAnswered

\* The answer of a route is that of the last candidate asked, earlier ones were busy, no
\* call goes on that was not told to stop, and a classification is grounded (router.ts, judge.ts).
THEOREM RouteStaysAnswered == Spec => []RouteIsAnswered
  <1> DEFINE Inv == picked = "judge" => RouterInv
  <1>1. Init => Inv
    BY RouterInit DEF Init
  <1>2. Inv /\ [Next]_allVars => Inv'
    BY OneIsPicked, RouterStep
  <1>3. Inv => RouteIsAnswered
    BY RouterHolds DEF RouteIsAnswered
  <1> HIDE DEF Inv
  <1>4. QED
    BY <1>1, <1>2, <1>3, PTL DEF Spec

HIDE DEF at, late, aborted, call, request, route, index, signalled, said, race, outcome,
         attempts, cursor, child, sentLate
-----------------------------------------------------------------------------
(* LiveGateRun                                                             *)

leaky == v2
gate == v3
job == v4
contender == v5
pipe == v6
lines == v7
seen == v8
waiter == v9
got == v10
lost == v11
observed == v12
started == v13
events == v14
evidence == v15
USE DEF at, leaky, gate, job, contender, pipe, lines, waiter, got, lost, seen, observed, started, events, evidence

\* The run's awaits, in the order in which a run that succeeds comes to them.
Early == {"contracts", "acquiring"}
Holding == {"waiting", "still", "live", "report"}
Leaving == {"successor", "goodbye", "ending", "done"}
Stops == {"catch", "leaving", "failed"}

\* What the ledger records, and how a process exits.
Types == {"ownerAcquired", "contenderWaiting", "successorAcquired", "cleanupConfirmed", "ownerReleased",
          "successorReleased"}
Exits == {None, 0, 1}
LiveType ==
  /\ at \in Early \cup Holding \cup {"releasing"} \cup Leaving \cup Stops
  /\ gate \subseteq {"owner", "contender", "nobody"}
  /\ job \in [part : {"contracts", "live"}, code : Exits, held : BOOLEAN]
  /\ contender \in [at : {"none", "spawned", "asking", "holding", "gone"}, code : Exits,
                    sent : {None, "release", "quarantine"}]
  /\ events \in Seq(Types)

\* What the awaits say of the child: the live tests have wholly ended before their report is read.
JobInv ==
  /\ job.part = "live" \/ at \in Early \cup {"waiting", "still"} \cup Stops
  /\ at \in Early \cup {"waiting", "still"} => job.part = "contracts"
  /\ at \in {"report", "releasing"} \cup Leaving => job.code = 0 /\ job.held = FALSE
  /\ job.code = None => job.held = TRUE

\* Until the release is under way the gate is the owner's; after its receipt it is not.
GateInv ==
  /\ at \in Holding => "owner" \in gate /\ Live!Recorded("ownerAcquired")
  /\ at \in Leaving => "owner" \notin gate
  /\ at \in Stops /\ job.part = "live" /\ job.held => gate \cap {"owner", "nobody"} # {}
  /\ Live!Recorded("ownerReleased") => job.part = "live" /\ job.held = FALSE /\ job.code # None
  /\ job.part = "live" => Live!Recorded("ownerAcquired")

\* Nobody puts the gate under quarantine before the run has failed.
ShutInv == at \notin Stops => "nobody" \notin gate /\ contender.sent # "quarantine"

\* A contender is started by a run that has the gate, and one that exited with 0 has left it.
LeftInv == /\ at \in Early => contender.at = "none"
           /\ contender.code = 0 => contender.at = "gone" /\ "contender" \notin gate

EarnedInv ==
  /\ at \in {"ending", "done"} => Live!Recorded("successorReleased")
  /\ evidence => at = "done" /\ Live!EvidenceIsEarned

LiveInv == LiveType /\ JobInv /\ GateInv /\ ShutInv /\ LeftInv /\ EarnedInv
LEMMA LedgerGrows ==
  ASSUME NEW e \in Types, events \in Seq(Types), events' = Append(events, e)
  PROVE  events' \in Seq(Types) /\ \A t : Live!Recorded(t)' <=> Live!Recorded(t) \/ t = e
  <1>1. /\ events' \in Seq(Types) /\ Len(events') = Len(events) + 1 /\ events'[Len(events) + 1] = e
        /\ \A i \in 1 .. Len(events) : events'[i] = events[i]
    OBVIOUS
  <1>2. DOMAIN events = 1 .. Len(events) /\ DOMAIN events' = 1 .. (Len(events) + 1) /\ Len(events) \in Nat
    BY <1>1
  <1>3. \A t : Live!Recorded(t)' <=> \E i \in DOMAIN events' : events'[i] = t
    BY DEF Live!Recorded
  <1>4. \A t : Live!Recorded(t) <=> \E i \in DOMAIN events : events[i] = t
    BY DEF Live!Recorded
  <1>5. QED
    BY <1>1, <1>2, <1>3, <1>4

\* What the ledger says does not change with anything else.
LEMMA LedgerStays ==
  ASSUME events' = events
  PROVE  /\ \A t : Live!Recorded(t)' <=> Live!Recorded(t)
         /\ Live!Place("successorAcquired")' = Live!Place("successorAcquired")
         /\ Live!Place("ownerReleased")' = Live!Place("ownerReleased")
  <1>1. \A t : Live!Recorded(t)' <=> Live!Recorded(t)
    BY DEF Live!Recorded
  <1>2. Live!Place("successorAcquired")' = Live!Place("successorAcquired")
    BY DEF Live!Place, Live!Recorded
  <1>3. Live!Place("ownerReleased")' = Live!Place("ownerReleased")
    BY DEF Live!Place, Live!Recorded
  <1>4. QED
    BY <1>1, <1>2, <1>3

LEMMA LiveInit == Live!Init => LiveInv
  <1> SUFFICES ASSUME Live!Init PROVE LiveInv
    OBVIOUS
  <1>1. \A t : ~Live!Recorded(t)
    BY DEF Live!Init, Live!Recorded
  <1>2. LiveType
    BY DEF Live!Init, LiveType, Early, Exits
  <1>3. JobInv /\ ShutInv
    BY LiveAssumption DEF Live!Init, JobInv, ShutInv, Early, Leaving
  <1>4. GateInv
    BY <1>1 DEF Live!Init, GateInv, Holding, Leaving, Stops
  <1>5. LeftInv /\ EarnedInv
    BY LiveAssumption DEF Live!Init, LeftInv, EarnedInv
  <1>6. QED
    BY <1>2, <1>3, <1>4, <1>5 DEF LiveInv

\* Nothing here is about the pipe and what was read from it.
LEMMA PipeKeepsIt ==
  ASSUME LiveInv, UNCHANGED <<gate, at, job, contender, events, evidence>>
  PROVE  LiveInv'
  <1>1. LiveType' /\ JobInv' /\ ShutInv' /\ LeftInv'
    BY DEF LiveInv, LiveType, JobInv, ShutInv, LeftInv
  <1>2. GateInv'
    BY LedgerStays DEF LiveInv, GateInv
  <1>3. EarnedInv'
    BY LedgerStays DEF LiveInv, EarnedInv, Live!EvidenceIsEarned
  <1>4. QED
    BY <1>1, <1>2, <1>3 DEF LiveInv

LEMMA JobKeepsIt ==
  ASSUME LiveInv
  PROVE  /\ \A c \in {0, 1}, kept \in BOOLEAN : Live!JobExits(c, kept) => LiveInv'
         /\ Live!OutputEnds => LiveInv'
         /\ \A complete \in BOOLEAN : Live!JobReturns(complete) => LiveInv'
  <1> USE LiveAssumption
  <1>1. ASSUME NEW c \in {0, 1}, NEW kept \in BOOLEAN, Live!JobExits(c, kept) PROVE LiveInv'
    <2>1. /\ UNCHANGED <<gate, at, contender, events, evidence>> /\ job.code = None /\ at \notin {"done", "failed"}
          /\ job' = [job EXCEPT !.code = c, !.held = kept]
      BY <1>1 DEF Live!JobExits, Live!Event, Live!ledger
    <2>2. LiveType' /\ ShutInv' /\ LeftInv'
      BY <2>1 DEF LiveInv, LiveType, ShutInv, LeftInv, Exits
    <2>3. job'.part = job.part /\ job'.code = c /\ job'.held = kept /\ at \notin {"report", "releasing"} \cup Leaving
      BY <2>1 DEF LiveInv, LiveType, JobInv
    <2>4. JobInv'
      BY <2>1, <2>3 DEF LiveInv, JobInv
    <2>5. GateInv'
      <3>1. ~Live!Recorded("ownerReleased")
        BY <2>1 DEF LiveInv, GateInv
      <3>2. (at \in Stops /\ job.part = "live" /\ job'.held) => gate \cap {"owner", "nobody"} # {}
        BY <2>1, <2>3 DEF LiveInv, JobInv, GateInv
      <3>3. QED
        BY <2>1, <2>3, <3>1, <3>2, LedgerStays DEF LiveInv, GateInv
    <2>6. EarnedInv'
      BY <2>1, LedgerStays DEF LiveInv, EarnedInv, Live!EvidenceIsEarned
    <2>7. QED
      BY <2>2, <2>4, <2>5, <2>6 DEF LiveInv
  <1>2. ASSUME Live!OutputEnds PROVE LiveInv'
    <2>1. /\ UNCHANGED <<gate, at, contender, events, evidence>> /\ job.code # None
          /\ job' = [job EXCEPT !.held = FALSE]
      BY <1>2 DEF Live!OutputEnds, Live!ledger
    <2>2. LiveType' /\ ShutInv' /\ LeftInv'
      BY <2>1 DEF LiveInv, LiveType, ShutInv, LeftInv
    <2>3. job'.part = job.part /\ job'.code = job.code /\ job'.held = FALSE
      BY <2>1 DEF LiveInv, LiveType
    <2>4. JobInv' /\ GateInv'
      BY <2>1, <2>3, LedgerStays DEF LiveInv, JobInv, GateInv
    <2>5. EarnedInv'
      BY <2>1, LedgerStays DEF LiveInv, EarnedInv, Live!EvidenceIsEarned
    <2>6. QED
      BY <2>2, <2>4, <2>5 DEF LiveInv
  <1>3. ASSUME NEW complete \in BOOLEAN, Live!JobReturns(complete) PROVE LiveInv'
    <2>1. UNCHANGED <<gate, job, contender, events, evidence>> /\ at \in {"contracts", "live"}
      BY <1>3 DEF Live!JobReturns, Live!ledger
    <2>2. \/ at = "live" /\ at' = "report" /\ job.code = 0 /\ job.held = FALSE
          \/ at = "contracts" /\ at' = "acquiring"
          \/ at = "live" /\ at' = "catch"
          \/ at = "contracts" /\ at' = "failed"
      <3>1. job.held \in BOOLEAN
        BY DEF LiveInv, LiveType
      <3>2. QED
        BY <1>3, <2>1, <3>1 DEF Live!JobReturns, Live!Succeeded
    <2>3. LiveType'
      BY <2>1, <2>2 DEF LiveInv, LiveType, Early, Holding, Stops
    <2>4. JobInv'
      BY <2>1, <2>2 DEF LiveInv, JobInv, Early, Leaving, Stops
    <2>5. GateInv'
      BY <2>1, <2>2, LedgerStays DEF LiveInv, JobInv, GateInv, Early, Holding, Leaving, Stops
    <2>6. ShutInv' /\ LeftInv'
      BY <2>1, <2>2 DEF LiveInv, ShutInv, LeftInv, Early, Stops
    <2>7. EarnedInv'
      BY <2>1, <2>2 DEF LiveInv, EarnedInv
    <2>8. QED
      BY <2>3, <2>4, <2>5, <2>6, <2>7 DEF LiveInv
  <1>4. QED
    BY <1>1, <1>2, <1>3

\* A step of the contender alone: it neither takes the owner's part nor shuts the gate of a run that goes on.
LEMMA ContenderMoves ==
  ASSUME LiveInv, UNCHANGED <<at, job, events, evidence>>,
         contender.at \in {"spawned", "asking", "holding"},
         contender' \in [at : {"none", "spawned", "asking", "holding", "gone"}, code : Exits,
                         sent : {None, "release", "quarantine"}],
         contender'.sent = contender.sent,
         gate' \subseteq {"owner", "contender", "nobody"},
         "owner" \in gate <=> "owner" \in gate',
         "nobody" \in gate => "nobody" \in gate',
         "nobody" \in gate' => "nobody" \in gate \/ at \in Stops,
         contender'.code = 0 => contender'.at = "gone" /\ "contender" \notin gate'
  PROVE  LiveInv'
  <1>1. LiveType' /\ JobInv' /\ ShutInv' /\ LeftInv'
    BY DEF LiveInv, LiveType, JobInv, ShutInv, LeftInv
  <1>2. GateInv'
    <2>1. gate \cap {"owner", "nobody"} # {} => gate' \cap {"owner", "nobody"} # {}
      OBVIOUS
    <2>2. QED
      BY <2>1, LedgerStays DEF LiveInv, GateInv
  <1>3. ~evidence
    BY LiveAssumption DEF LiveInv, EarnedInv, LeftInv, Live!EvidenceIsEarned
  <1>4. EarnedInv'
    BY <1>3, LedgerStays DEF LiveInv, EarnedInv
  <1>5. QED
    BY <1>1, <1>2, <1>4 DEF LiveInv

LEMMA ContenderKeepsIt ==
  ASSUME LiveInv
  PROVE  /\ Live!ContenderAsks \/ Live!ContenderEnters \/ Live!ContenderRefused \/ Live!ContenderQuarantines => LiveInv'
         /\ \A confirmed \in BOOLEAN : Live!ContenderReleases(confirmed) => LiveInv'
  <1>1. /\ contender \in [at : {"none", "spawned", "asking", "holding", "gone"}, code : Exits,
                          sent : {None, "release", "quarantine"}]
        /\ gate \subseteq {"owner", "contender", "nobody"}
        /\ contender.code = 0 => contender.at = "gone"
        /\ contender.sent = "quarantine" => at \in Stops
    BY DEF LiveInv, LiveType, LeftInv, ShutInv
  <1> USE LiveAssumption DEF Live!ledger, Live!child, Exits
  <1>2. Live!ContenderAsks => LiveInv'
    BY <1>1, ContenderMoves DEF Live!ContenderAsks
  <1>3. Live!ContenderEnters => LiveInv'
    BY <1>1, ContenderMoves DEF Live!ContenderEnters
  <1>4. ASSUME Live!ContenderRefused PROVE LiveInv'
    <2>1. /\ contender' = [contender EXCEPT !.at = "gone", !.code = 1] /\ contender.at = "asking"
          /\ UNCHANGED <<gate, at, job, events, evidence>>
      BY <1>4 DEF Live!ContenderRefused, Live!Gone
    <2>2. /\ contender'.sent = contender.sent /\ contender'.code = 1 /\ contender'.code # 0
          /\ contender' \in [at : {"none", "spawned", "asking", "holding", "gone"}, code : Exits,
                               sent : {None, "release", "quarantine"}]
      <3>1. contender' = [at |-> "gone", code |-> 1, sent |-> contender.sent]
        BY <1>1, <2>1
      <3>2. contender.sent \in {None, "release", "quarantine"}
        BY <1>1
      <3>3. QED
        BY <3>1, <3>2
    <2>3. QED
      BY <1>1, <2>1, <2>2, ContenderMoves
  <1>5. Live!ContenderQuarantines => LiveInv'
    BY <1>1, ContenderMoves DEF Live!ContenderQuarantines, Live!Gone, Stops
  <1>6. ASSUME NEW confirmed \in BOOLEAN, Live!ContenderReleases(confirmed) PROVE LiveInv'
    <2>1. UNCHANGED <<at, job, events, evidence>> /\ contender.at = "holding"
      BY <1>6 DEF Live!ContenderReleases
    <2>2. CASE confirmed
      BY <1>1, <1>6, <2>1, <2>2, ContenderMoves DEF Live!ContenderReleases, Live!Gone
    <2>3. CASE ~confirmed
      <3>1. contender' = [contender EXCEPT !.at = "gone", !.code = 1] /\ gate' = gate
        BY <1>6, <2>3 DEF Live!ContenderReleases, Live!Gone
      <3>2. /\ contender'.sent = contender.sent /\ contender'.code = 1 /\ contender'.code # 0
            /\ contender' \in [at : {"none", "spawned", "asking", "holding", "gone"}, code : Exits,
                                 sent : {None, "release", "quarantine"}]
        <4>1. contender' = [at |-> "gone", code |-> 1, sent |-> contender.sent]
          BY <1>1, <3>1
        <4>2. contender.sent \in {None, "release", "quarantine"}
          BY <1>1
        <4>3. QED
          BY <4>1, <4>2
      <3>3. QED
        BY <1>1, <2>1, <3>1, <3>2, ContenderMoves
    <2>4. QED
      BY <2>2, <2>3
  <1>7. QED
    BY <1>2, <1>3, <1>4, <1>5, <1>6

\* The run gives up: it may have what it took, and nothing else has changed.
LEMMA RunGivesUp ==
  ASSUME LiveInv, at \notin {"done", "failed"}, at' = "catch", UNCHANGED <<gate, job, contender, events, evidence>>
  PROVE  LiveInv'
  <1>1. LiveType'
    BY DEF LiveInv, LiveType, Stops
  <1>2. JobInv' /\ ShutInv' /\ LeftInv'
    BY DEF LiveInv, JobInv, ShutInv, LeftInv, Early, Leaving, Stops
  <1>3. GateInv'
    <2>1. job.part = "live" /\ job.held => gate \cap {"owner", "nobody"} # {}
      BY DEF LiveInv, LiveType, JobInv, GateInv, Early, Holding, Leaving, Stops
    <2>2. QED
      BY <2>1, LedgerStays DEF LiveInv, GateInv, Holding, Leaving
  <1>4. EarnedInv'
    BY DEF LiveInv, EarnedInv
  <1>5. QED
    BY <1>1, <1>2, <1>3, <1>4 DEF LiveInv

LEMMA EntranceKeepsIt ==
  ASSUME LiveInv
  PROVE  /\ \A granted \in BOOLEAN : Live!Acquire(granted) => LiveInv'
         /\ Live!Waiting => LiveInv'
         /\ Live!Still => LiveInv'
  <1> USE LiveAssumption DEF Live!ledger, Live!child, Live!Moves, Live!Event
  <1>1. ASSUME NEW granted \in BOOLEAN, Live!Acquire(granted) PROVE LiveInv'
    <2>1. at = "acquiring" /\ UNCHANGED <<job, evidence>> /\ ~evidence
      BY <1>1 DEF Live!Acquire, LiveInv, EarnedInv
    <2>2. CASE granted
      <3>1. /\ gate' = {"owner"} /\ events' = <<"ownerAcquired">> /\ at' = "waiting"
            /\ contender' = [contender EXCEPT !.at = "spawned"]
        BY <1>1, <2>2 DEF Live!Acquire
      <3>2. \A t : Live!Recorded(t)' <=> t = "ownerAcquired"
        BY <3>1 DEF Live!Recorded
      <3>3. job.part = "contracts"
        BY <2>1 DEF LiveInv, JobInv, Early
      <3>4. LiveType'
        BY <2>1, <3>1 DEF LiveInv, LiveType, Holding, Types
      <3>5. JobInv'
        BY <2>1, <3>1 DEF LiveInv, JobInv, Early, Leaving, Stops
      <3>6. GateInv'
        BY <2>1, <3>1, <3>2, <3>3 DEF GateInv, Holding, Leaving, Stops
      <3>7. contender'.code = contender.code /\ contender'.sent = contender.sent
        BY <3>1 DEF LiveInv, LiveType
      <3>8. contender.code # 0
        BY <2>1 DEF LiveInv, LeftInv, Early
      <3>9. ShutInv' /\ LeftInv' /\ EarnedInv'
        BY <2>1, <3>1, <3>7, <3>8 DEF LiveInv, ShutInv, LeftInv, EarnedInv, Stops, Early
      <3>10. QED
        BY <3>4, <3>5, <3>6, <3>9 DEF LiveInv
    <2>3. CASE ~granted
      BY <1>1, <2>1, <2>3, RunGivesUp DEF Live!Acquire
    <2>4. QED
      BY <2>2, <2>3
  <1>2. ASSUME Live!Waiting PROVE LiveInv'
    <2>1. CASE got = "waiting"
      <3>1. /\ at = "waiting" /\ at' = "still" /\ events' = Append(events, "contenderWaiting")
            /\ UNCHANGED <<gate, job, contender, evidence>>
        BY <1>2, <2>1 DEF Live!Waiting
      <3>2. events' \in Seq(Types) /\ \A t : Live!Recorded(t)' <=> Live!Recorded(t) \/ t = "contenderWaiting"
        BY <3>1, LedgerGrows DEF LiveInv, LiveType, Types
      <3>3. LiveType' /\ JobInv'
        BY <3>1, <3>2 DEF LiveInv, LiveType, JobInv, Early, Holding, Leaving, Stops
      <3>4. GateInv'
        BY <3>1, <3>2 DEF LiveInv, GateInv, Holding, Leaving, Stops
      <3>5. ShutInv' /\ LeftInv' /\ EarnedInv'
        BY <3>1 DEF LiveInv, ShutInv, LeftInv, EarnedInv, Early, Stops
      <3>6. QED
        BY <3>3, <3>4, <3>5 DEF LiveInv
    <2>2. CASE got # "waiting"
      BY <1>2, <2>2, RunGivesUp DEF Live!Waiting
    <2>3. QED
      BY <2>1, <2>2
  <1>3. ASSUME Live!Still PROVE LiveInv'
    <2>1. CASE got = "timeout"
      <3>1. /\ at = "still" /\ at' = "live" /\ job' = [part |-> "live", code |-> None, held |-> TRUE]
            /\ UNCHANGED <<gate, contender, events, evidence>>
        BY <1>3, <2>1 DEF Live!Still
      <3>2. job.part = "contracts"
        BY <3>1 DEF LiveInv, JobInv
      <3>3. LiveType' /\ JobInv'
        BY <3>1 DEF LiveInv, LiveType, JobInv, Early, Holding, Leaving, Stops, Exits
      <3>4. GateInv'
        BY <3>1, <3>2, LedgerStays DEF LiveInv, GateInv, Holding, Leaving, Stops
      <3>5. ShutInv' /\ LeftInv' /\ EarnedInv'
        BY <3>1 DEF LiveInv, ShutInv, LeftInv, EarnedInv, Early, Stops
      <3>6. QED
        BY <3>3, <3>4, <3>5 DEF LiveInv
    <2>2. CASE got # "timeout"
      BY <1>3, <2>2, RunGivesUp DEF Live!Still
    <2>3. QED
      BY <2>1, <2>2
  <1>4. QED
    BY <1>1, <1>2, <1>3

LEMMA ObserveKeepsIt == ASSUME LiveInv, Live!Observe PROVE LiveInv'
  <1>1. /\ at \in {"live", "report", "releasing", "successor", "catch", "leaving"} /\ at' \in {at, "catch"}
        /\ at' = at \/ at \in {"live", "report"}
        /\ UNCHANGED <<gate, job, contender, evidence>>
        /\ events' = Append(events, "successorAcquired") \/ events' = events
    BY DEF Live!Observe
  <1>2. events' \in Seq(Types) /\ \A t : t # "successorAcquired" => (Live!Recorded(t)' <=> Live!Recorded(t))
    BY <1>1, LedgerGrows, LedgerStays DEF LiveInv, LiveType, Types
  <1>3. LiveType' /\ ShutInv' /\ LeftInv'
    BY <1>1, <1>2 DEF LiveInv, LiveType, ShutInv, LeftInv, Early, Stops
  <1>4. JobInv'
    BY <1>1 DEF LiveInv, JobInv, Early, Leaving, Stops
  <1>5. GateInv'
    BY <1>1, <1>2 DEF LiveInv, GateInv, Holding, Leaving, Stops
  <1>6. EarnedInv'
    BY <1>1 DEF LiveInv, EarnedInv
  <1>7. QED
    BY <1>3, <1>4, <1>5, <1>6 DEF LiveInv

LEMMA ReleaseKeepsIt ==
  ASSUME LiveInv
  PROVE  /\ \A valid \in BOOLEAN : Live!Report(valid) => LiveInv'
         /\ Live!LetGo => LiveInv'
         /\ \A status \in {"released", "unconfirmed"} : Live!Released(status) => LiveInv'
  <1> USE DEF Live!ledger, Live!child, Live!Moves, Live!Event
  <1>1. ASSUME NEW valid \in BOOLEAN, Live!Report(valid) PROVE LiveInv'
    <2>1. CASE valid
      <3>1. /\ at = "report" /\ at' = "releasing" /\ events' = Append(events, "cleanupConfirmed")
            /\ UNCHANGED <<gate, job, contender, evidence>>
        BY <1>1, <2>1 DEF Live!Report
      <3>2. events' \in Seq(Types) /\ \A t : Live!Recorded(t)' <=> Live!Recorded(t) \/ t = "cleanupConfirmed"
        BY <3>1, LedgerGrows DEF LiveInv, LiveType, Types
      <3>3. LiveType' /\ JobInv'
        BY <3>1, <3>2 DEF LiveInv, LiveType, JobInv, Early, Leaving, Stops
      <3>4. GateInv'
        BY <3>1, <3>2 DEF LiveInv, GateInv, Holding, Leaving, Stops
      <3>5. ShutInv' /\ LeftInv' /\ EarnedInv'
        BY <3>1 DEF LiveInv, ShutInv, LeftInv, EarnedInv, Early, Stops
      <3>6. QED
        BY <3>3, <3>4, <3>5 DEF LiveInv
    <2>2. CASE ~valid
      BY <1>1, <2>2, RunGivesUp DEF Live!Report
    <2>3. QED
      BY <2>1, <2>2
  <1>2. ASSUME Live!LetGo PROVE LiveInv'
    <2>1. at = "releasing" /\ gate' = gate \ {"owner"} /\ UNCHANGED <<at, job, contender, events, evidence>>
      BY <1>2 DEF Live!LetGo
    <2>2. LiveType' /\ JobInv' /\ ShutInv' /\ LeftInv'
      BY <2>1 DEF LiveInv, LiveType, JobInv, ShutInv, LeftInv
    <2>3. GateInv'
      BY <2>1, LedgerStays DEF LiveInv, GateInv, Holding, Leaving, Stops
    <2>4. EarnedInv'
      BY <2>1 DEF LiveInv, EarnedInv
    <2>5. QED
      BY <2>2, <2>3, <2>4 DEF LiveInv
  <1>3. ASSUME NEW status \in {"released", "unconfirmed"}, Live!Released(status) PROVE LiveInv'
    <2>1. CASE status = "released"
      <3>1. /\ at = "releasing" /\ at' = "successor" /\ events' = Append(events, "ownerReleased") /\ "owner" \notin gate
            /\ UNCHANGED <<gate, job, contender, evidence>>
        BY <1>3, <2>1 DEF Live!Released
      <3>2. events' \in Seq(Types) /\ \A t : Live!Recorded(t)' <=> Live!Recorded(t) \/ t = "ownerReleased"
        BY <3>1, LedgerGrows DEF LiveInv, LiveType, Types
      <3>3. job.part = "live" /\ job.held = FALSE /\ job.code = 0
        BY <3>1 DEF LiveInv, JobInv, Early, Stops
      <3>4. LiveType' /\ JobInv'
        BY <3>1, <3>2 DEF LiveInv, LiveType, JobInv, Early, Leaving, Stops
      <3>5. GateInv'
        BY LiveAssumption, <3>1, <3>2, <3>3 DEF LiveInv, GateInv, Holding, Leaving, Stops
      <3>6. ShutInv' /\ LeftInv' /\ EarnedInv'
        BY <3>1 DEF LiveInv, ShutInv, LeftInv, EarnedInv, Early, Stops
      <3>7. QED
        BY <3>4, <3>5, <3>6 DEF LiveInv
    <2>2. CASE status # "released"
      BY <1>3, <2>2, RunGivesUp DEF Live!Released
    <2>3. QED
      BY <2>1, <2>2
  <1>4. QED
    BY <1>1, <1>2, <1>3

LEMMA SuccessorKeepsIt ==
  ASSUME LiveInv
  PROVE  /\ Live!Successor => LiveInv'
         /\ Live!Goodbye => LiveInv'
         /\ \A fresh \in BOOLEAN : Live!Ending(fresh) => LiveInv'
  <1> USE DEF Live!ledger, Live!child, Live!Moves, Live!Event
  <1>1. ASSUME Live!Successor PROVE LiveInv'
    <2>1. CASE observed = "fair"
      <3>1. /\ at = "successor" /\ at' = "goodbye" /\ contender' = [contender EXCEPT !.sent = "release"]
            /\ UNCHANGED <<gate, job, events, evidence>>
        BY <1>1, <2>1 DEF Live!Successor
      <3>2. contender'.at = contender.at /\ contender'.code = contender.code /\ contender'.sent = "release"
        BY <3>1 DEF LiveInv, LiveType
      <3>3. LiveType' /\ JobInv'
        BY <3>1 DEF LiveInv, LiveType, JobInv, Early, Leaving, Stops
      <3>4. GateInv'
        BY <3>1, LedgerStays DEF LiveInv, GateInv, Holding, Leaving, Stops
      <3>5. ShutInv' /\ LeftInv' /\ EarnedInv'
        BY <3>1, <3>2 DEF LiveInv, ShutInv, LeftInv, EarnedInv, Early, Stops
      <3>6. QED
        BY <3>3, <3>4, <3>5 DEF LiveInv
    <2>2. CASE observed # "fair"
      BY <1>1, <2>2, RunGivesUp DEF Live!Successor
    <2>3. QED
      BY <2>1, <2>2
  <1>2. ASSUME Live!Goodbye PROVE LiveInv'
    <2>1. CASE got = "released"
      <3>1. /\ at = "goodbye" /\ at' = "ending" /\ events' = Append(events, "successorReleased")
            /\ UNCHANGED <<gate, job, contender, evidence>>
        BY <1>2, <2>1 DEF Live!Goodbye
      <3>2. events' \in Seq(Types) /\ \A t : Live!Recorded(t)' <=> Live!Recorded(t) \/ t = "successorReleased"
        BY <3>1, LedgerGrows DEF LiveInv, LiveType, Types
      <3>3. LiveType' /\ JobInv'
        BY <3>1, <3>2 DEF LiveInv, LiveType, JobInv, Early, Leaving, Stops
      <3>4. GateInv'
        BY <3>1, <3>2 DEF LiveInv, GateInv, Holding, Leaving, Stops
      <3>5. ShutInv' /\ LeftInv' /\ EarnedInv'
        BY <3>1, <3>2 DEF LiveInv, ShutInv, LeftInv, EarnedInv, Early, Stops
      <3>6. QED
        BY <3>3, <3>4, <3>5 DEF LiveInv
    <2>2. CASE got # "released"
      BY <1>2, <2>2, RunGivesUp DEF Live!Goodbye
    <2>3. QED
      BY <2>1, <2>2
  <1>3. ASSUME NEW fresh \in BOOLEAN, Live!Ending(fresh) PROVE LiveInv'
    <2>1. at = "ending" /\ UNCHANGED <<gate, job, contender, events>> /\ ~evidence
      BY <1>3 DEF Live!Ending, LiveInv, EarnedInv
    <2>2. CASE evidence'
      <3>1. at' = "done" /\ contender.code = 0 /\ Live!Serialised
        BY <1>3, <2>2 DEF Live!Ending
      <3>2. LiveType' /\ JobInv'
        BY <2>1, <3>1 DEF LiveInv, LiveType, JobInv, Early, Leaving, Stops
      <3>3. GateInv'
        BY <2>1, <3>1, LedgerStays DEF LiveInv, GateInv, Holding, Leaving, Stops
      <3>4. ShutInv' /\ LeftInv'
        BY <2>1, <3>1 DEF LiveInv, ShutInv, LeftInv, Early, Stops
      <3>5. gate = {}
        BY <2>1, <3>1 DEF LiveInv, LiveType, GateInv, ShutInv, LeftInv, Leaving, Stops
      <3>6. Live!Place("successorAcquired") > Live!Place("ownerReleased")
        BY <3>1 DEF Live!Serialised
      <3>7. Live!EvidenceIsEarned'
        BY <2>1, <3>1, <3>5, <3>6, LedgerStays DEF LiveInv, EarnedInv, Live!EvidenceIsEarned
      <3>8. EarnedInv'
        BY <2>1, <3>1, <3>7, LedgerStays DEF LiveInv, EarnedInv
      <3>9. QED
        BY <3>2, <3>3, <3>4, <3>8 DEF LiveInv
    <2>3. CASE ~evidence'
      <3>1. at' = "catch" /\ evidence' = FALSE
        BY <1>3, <2>3 DEF Live!Ending
      <3>2. LiveType' /\ JobInv' /\ ShutInv' /\ LeftInv'
        BY <2>1, <3>1 DEF LiveInv, LiveType, JobInv, ShutInv, LeftInv, Early, Leaving, Stops
      <3>3. GateInv' /\ EarnedInv'
        BY <2>1, <3>1, LedgerStays DEF LiveInv, JobInv, GateInv, EarnedInv, Holding, Leaving, Stops
      <3>4. QED
        BY <3>2, <3>3 DEF LiveInv
    <2>4. QED
      BY <2>2, <2>3
  <1>4. QED
    BY <1>1, <1>2, <1>3

LEMMA FailureKeepsIt ==
  ASSUME LiveInv
  PROVE  /\ \A done \in BOOLEAN : Live!Catch(done) => LiveInv'
         /\ Live!Leave => LiveInv'
  <1> USE LiveAssumption DEF Live!ledger, Live!child, Live!Moves, Live!Event
  <1>1. ASSUME NEW done \in BOOLEAN, Live!Catch(done) PROVE LiveInv'
    <2>1. /\ at = "catch" /\ at' = "leaving" /\ UNCHANGED <<job, events, evidence>>
          /\ gate' = gate \/ (gate' = (gate \ {"owner"}) \cup {"nobody"})
          /\ contender' = [contender EXCEPT !.sent = "quarantine"] \/ contender' = contender
      BY <1>1 DEF Live!Catch
    <2>2. contender'.at = contender.at /\ contender'.code = contender.code
      BY <2>1 DEF LiveInv, LiveType
    <2>3. gate' \subseteq {"owner", "contender", "nobody"} /\ ("contender" \in gate' <=> "contender" \in gate)
          /\ (gate \cap {"owner", "nobody"} # {} => gate' \cap {"owner", "nobody"} # {})
      BY <2>1 DEF LiveInv, LiveType
    <2>4. LiveType'
      BY <2>1, <2>3 DEF LiveInv, LiveType, Stops
    <2>5. JobInv' /\ ShutInv' /\ LeftInv'
      BY <2>1, <2>2, <2>3 DEF LiveInv, JobInv, ShutInv, LeftInv, Early, Leaving, Stops
    <2>6. GateInv'
      BY <2>1, <2>3, LedgerStays DEF LiveInv, GateInv, Holding, Leaving, Stops
    <2>7. EarnedInv'
      BY <2>1 DEF LiveInv, EarnedInv
    <2>8. QED
      BY <2>4, <2>5, <2>6, <2>7 DEF LiveInv
  <1>2. ASSUME Live!Leave PROVE LiveInv'
    <2>1. /\ at = "leaving" /\ at' = "failed" /\ UNCHANGED <<gate, job, events, evidence>>
          /\ contender' = contender \/ contender' = [contender EXCEPT !.at = "gone", !.code = None]
      BY <1>2 DEF Live!Leave, Live!Gone
    <2>2. contender' = contender \/ contender' = [at |-> "gone", code |-> None, sent |-> contender.sent]
      BY <2>1 DEF LiveInv, LiveType
    <2>3. LiveType'
      BY <2>1, <2>2 DEF LiveInv, LiveType, Stops, Exits
    <2>4. JobInv' /\ ShutInv' /\ LeftInv'
      BY <2>1, <2>2 DEF LiveInv, JobInv, ShutInv, LeftInv, Early, Leaving, Stops
    <2>5. GateInv'
      BY <2>1, LedgerStays DEF LiveInv, GateInv, Holding, Leaving, Stops
    <2>6. EarnedInv'
      BY <2>1 DEF LiveInv, EarnedInv
    <2>7. QED
      BY <2>3, <2>4, <2>5, <2>6 DEF LiveInv
  <1>3. QED
    BY <1>1, <1>2

LEMMA LiveStep == ASSUME LiveInv, [Live!Next]_(Live!runVars) PROVE LiveInv'
  <1>1. CASE UNCHANGED Live!runVars
    BY <1>1, PipeKeepsIt DEF Live!runVars, Live!ledger
  <1>2. CASE Live!Consume \/ Live!Told \/ Live!NextExpires
    BY <1>2, PipeKeepsIt DEF Live!Consume, Live!Told, Live!NextExpires, Live!ledger
  <1>3. QED
    BY <1>1, <1>2, JobKeepsIt, ContenderKeepsIt, EntranceKeepsIt, ObserveKeepsIt, ReleaseKeepsIt, SuccessorKeepsIt,
       FailureKeepsIt DEF Live!Next

LEMMA LiveHolds == ASSUME LiveInv PROVE Live!LiveRunIsProven
  <1>1. job.part = "live" /\ job.held => gate \cap {"owner", "nobody"} # {}
    BY DEF LiveInv, LiveType, JobInv, GateInv, Early, Holding, Leaving, Stops
  <1>2. Live!EvidenceIsEarned
    BY DEF LiveInv, EarnedInv, Live!EvidenceIsEarned
  <1>3. QED
    BY <1>1, <1>2 DEF Live!LiveRunIsProven, Live!DesktopIsHeld

\* The gate is not given up while the live tests hold their output, and the evidence says that
\* owners were serialised only of a successor that entered after the release and left again.
THEOREM LiveRunStaysProven == Spec => []LiveRunIsProven
  <1> DEFINE Inv == picked = "live" => LiveInv
  <1>1. Init => Inv
    BY LiveInit DEF Init
  <1>2. Inv /\ [Next]_allVars => Inv'
    BY OneIsPicked, LiveStep
  <1>3. Inv => LiveRunIsProven
    BY LiveHolds DEF LiveRunIsProven
  <1> HIDE DEF Inv
  <1>4. QED
    BY <1>1, <1>2, <1>3, PTL DEF Spec

HIDE DEF at, leaky, gate, job, contender, pipe, lines, waiter, got, lost, seen, observed, started, events, evidence
-----------------------------------------------------------------------------
(* CaseRunner                                                              *)

claims == v4
disk == v5
alive == v7
worker == v8
acquired == v10
execution == v11
staged == v12
judged == v14
required == v15
bundle == v16

USE DEF at, options, gate, told, submitted, barrier, claims, disk, alive, worker, acquired, execution, staged, judged,
        required, bundle

\* Where a run has its claim, where the kernel has returned, and how it may have ended.
Claimed == {"preflight", "fixtures", "setup", "acquiring", "body", "ended", "materialize", "judge", "asked", "prepared"}
Publishing == {"materialize", "judge", "asked", "prepared"}
Over == {"finalize", "over"}
Exited(r) == told[r] \in {"exit0", "exit1"}
Rejected(r) == at[r] \in {"new", "preflight"} \/ told[r] = "rejected"
Ran(r) == at[r] \in {"ended"} \cup Publishing \/ (at[r] \in Over /\ told[r] # "rejected")

\* Every run has its place in every table.
RunnerType ==
  /\ options \in RunCalls
  /\ at \in [Runner!Run -> Runner!Phase] /\ told \in [Runner!Run -> Runner!ToldOf]
  /\ gate \in [Runner!Run -> {"held", "released", "stuck", "quarantined"}]
  /\ barrier \in [Runner!Run -> [started : BOOLEAN, unknown : BOOLEAN, confirmed : BOOLEAN]]
  /\ worker \in [Runner!Run -> {"notStarted", "running", "ended"}]
  /\ acquired \in [Runner!Run -> Nat]
  /\ \A f \in {alive, execution, submitted, staged, judged, required, bundle} : DOMAIN f = Runner!Run
  /\ claims \subseteq Runner!Run

\* Claims are on directories that do not meet.
ApartInv == \A r, q \in claims : r # q => ~Runner!Meet(r, q)

\* A run has its claim as long as its directories are used, or code of its Case goes on.
ClaimInv(r) == at[r] \in Claimed \/ worker[r] = "running" => r \in claims

\* A call that is refused has touched nothing.
PlaceInv(r) ==
  /\ at[r] \notin Over => told[r] = None /\ gate[r] = "held"
  /\ Exited(r) => at[r] \in Over
  /\ Rejected(r) => /\ barrier[r] = [started |-> FALSE, unknown |-> FALSE, confirmed |-> FALSE]
                    /\ worker[r] = "notStarted"

\* What may be alive: what was acquired, and what an acquisition nobody knows of may bring.
AliveInv(r) ==
  /\ at[r] \in {"fixtures", "setup", "body"} => barrier[r].unknown = FALSE
  /\ at[r] = "acquiring" => barrier[r].started = TRUE
  /\ barrier[r].started = FALSE => acquired[r] = 0 /\ barrier[r].unknown = FALSE
  /\ alive[r] \subseteq 1 .. (acquired[r] + 1)
  /\ barrier[r].unknown = FALSE => alive[r] \subseteq 1 .. acquired[r]

\* What the kernel's result says of the worker and the surfaces is so.
KernelInv(r) == Ran(r) =>
  /\ execution[r].clean = "passed" /\ barrier[r].unknown = FALSE => alive[r] = {}
  /\ execution[r].status = "passed" =>
        execution[r].clean = "passed" /\ Runner!Settled(execution[r]) /\ barrier[r].unknown = FALSE
  /\ at[r] \in Publishing => Runner!Settled(execution[r])
  /\ Runner!Settled(execution[r]) => worker[r] = "ended"
  /\ execution[r].worker = "notStarted" => worker[r] = "notStarted"

\* The gate is free for a run that began no acquisition or whose cleanup is known.
FreeInv(r) ==
  /\ barrier[r].confirmed => /\ Ran(r) /\ at[r] # "ended" /\ barrier[r].unknown = FALSE
                             /\ execution[r].clean = "passed"
  /\ (at[r] \in Publishing \/ Exited(r)) /\ execution[r].status = "passed" => barrier[r].confirmed
  /\ gate[r] = "released" => at[r] = "over" /\ (barrier[r].confirmed \/ ~barrier[r].started)
  /\ at[r] = "over" /\ told[r] = "exit0" => gate[r] = "released"

\* Each criterion's evidence is demanded of the bundle when it is asked about, and a pass is
\* given on complete evidence alone.
JudgeInv(r) ==
  LET n == Len(judged[r]) IN
  /\ judged[r] \in Seq(Runner!Outcome) /\ n <= Len(options[r].criteria)
  /\ at[r] \in {"new"} \cup (Claimed \ {"judge", "asked", "prepared"}) => n = 0
  /\ \A i \in 1 .. n : options[r].criteria[i] \subseteq required[r]
  /\ \A i \in 1 .. n : judged[r][i] = "pass" => Runner!Whole(r, i)
  /\ at[r] = "asked" => n < Len(options[r].criteria) /\ options[r].criteria[n + 1] \subseteq required[r]

\* What a caller is told of a run that published: the bundle has what was demanded.
BundleInv(r) ==
  /\ at[r] = "prepared" \/ Exited(r) =>
       /\ Len(judged[r]) = Len(options[r].criteria)
       /\ \A q \in options[r].policy : q.artifact \in required[r]
  /\ Exited(r) => Ran(r) /\ \A a \in required[r] : bundle[r][a] = "written"
  /\ told[r] = "exit0" => /\ execution[r].status = "passed"
                          /\ \A i \in DOMAIN judged[r] : judged[r][i] = "pass"

RowInv(r) == /\ ClaimInv(r) /\ PlaceInv(r) /\ AliveInv(r) /\ KernelInv(r) /\ FreeInv(r)
             /\ JudgeInv(r) /\ BundleInv(r)
RunnerInv == RunnerType /\ ApartInv /\ \A r \in Runner!Run : RowInv(r)
\* Another run's row of the tables stays as it is.
Stays(r) ==
  /\ at'[r] = at[r] /\ told'[r] = told[r] /\ gate'[r] = gate[r] /\ barrier'[r] = barrier[r] /\ worker'[r] = worker[r]
  /\ acquired'[r] = acquired[r] /\ alive'[r] = alive[r] /\ execution'[r] = execution[r] /\ submitted'[r] = submitted[r]
  /\ judged'[r] = judged[r] /\ required'[r] = required[r] /\ bundle'[r] = bundle[r]
  /\ r \in claims' <=> r \in claims
\* A step of r writes in its own row.
Touches(r) == options' = options /\ RunnerType' /\ \A q \in Runner!Run \ {r} : Stays(q)

LEMMA WholeStays ==
  ASSUME NEW r, options' = options, submitted'[r] = submitted[r]
  PROVE  \A i : Runner!Whole(r, i)' <=> Runner!Whole(r, i)
  BY DEF Runner!Whole, Runner!Complete, Runner!Graph

LEMMA RowStays == ASSUME NEW r, options' = options, Stays(r), RowInv(r) PROVE RowInv(r)'
  <1>1. ClaimInv(r)' /\ PlaceInv(r)'
    BY DEF Stays, RowInv, ClaimInv, PlaceInv, Exited, Rejected
  <1>2. AliveInv(r)' /\ KernelInv(r)'
    BY DEF Stays, RowInv, AliveInv, KernelInv, Ran, Runner!Settled
  <1>3. FreeInv(r)'
    BY DEF Stays, RowInv, FreeInv, Ran, Exited
  <1>4. JudgeInv(r)'
    BY WholeStays DEF Stays, RowInv, JudgeInv
  <1>5. BundleInv(r)'
    BY DEF Stays, RowInv, BundleInv, Ran, Exited
  <1>6. QED
    BY <1>1, <1>2, <1>3, <1>4, <1>5 DEF RowInv

LEMMA RowStep ==
  ASSUME RunnerInv, NEW r \in Runner!Run, Touches(r), RowInv(r)', claims' \subseteq claims
  PROVE  RunnerInv'
  <1>1. Runner!Run' = Runner!Run
    BY DEF Touches, Runner!Run
  <1>2. \A q \in Runner!Run : RowInv(q)'
    <2>1. TAKE q \in Runner!Run
    <2>2. CASE q = r
      BY <2>2
    <2>3. CASE q # r
      BY <2>3, RowStays DEF Touches, RunnerInv
    <2>4. QED
      BY <2>2, <2>3
  <1>3. ApartInv'
    BY DEF RunnerInv, ApartInv, Touches, Runner!Meet, Runner!PlacesOf
  <1>4. QED
    BY <1>1, <1>2, <1>3 DEF RunnerInv, Touches

LEMMA RunnerInit == Runner!Init => RunnerInv
  <1> SUFFICES ASSUME Runner!Init PROVE RunnerInv
    OBVIOUS
  <1>1. RunnerType
    BY DEF Runner!Init, RunnerType, Runner!Phase, Runner!ToldOf
  <1>2. ApartInv
    BY DEF Runner!Init, ApartInv
  <1>3. ASSUME NEW r \in Runner!Run PROVE RowInv(r)
    <2>1. /\ at[r] = "new" /\ told[r] = None /\ gate[r] = "held" /\ worker[r] = "notStarted" /\ acquired[r] = 0
          /\ barrier[r] = [started |-> FALSE, unknown |-> FALSE, confirmed |-> FALSE] /\ alive[r] = {} /\ judged[r] = <<>>
      BY <1>3 DEF Runner!Init
    <2>2. ClaimInv(r) /\ PlaceInv(r)
      BY <2>1, RunnerAssumption DEF ClaimInv, PlaceInv, Claimed, Over, Exited
    <2>3. AliveInv(r) /\ KernelInv(r) /\ FreeInv(r)
      BY <2>1, RunnerAssumption DEF AliveInv, KernelInv, FreeInv, Ran, Over, Publishing, Exited
    <2>4. JudgeInv(r) /\ BundleInv(r)
      <3>1. Len(options[r].criteria) \in Nat
        BY RunnerAssumption, <1>3 DEF Runner!Init, Runner!Run
      <3>2. judged[r] \in Seq(Runner!Outcome) /\ Len(judged[r]) = 0
        BY <2>1
      <3>3. QED
        BY <2>1, <3>1, <3>2, RunnerAssumption DEF JudgeInv, BundleInv, Exited
    <2>5. QED
      BY <2>2, <2>3, <2>4 DEF RowInv
  <1>4. QED
    BY <1>1, <1>2, <1>3 DEF RunnerInv

-----------------------------------------------------------------------------
LEMMA ClaimKeepsIt ==
  ASSUME RunnerInv, NEW r \in Runner!Run
  PROVE  /\ Runner!Claim(r) => RunnerInv'
         /\ Runner!Preflight(r) => RunnerInv'
  <1> USE RunnerAssumption DEF Runner!Goes, Runner!Throws, Runner!Ends, Runner!desktop, Runner!kernel, Runner!files,
          Runner!paths
  <1>1. RunnerType /\ RowInv(r)
    BY DEF RunnerInv
  <1>2. ASSUME at[r] \in {"new", "preflight"}, at' = [at EXCEPT ![r] = "finalize"], told' = [told EXCEPT ![r] = "rejected"],
               claims' \in {claims, claims \ {r}},
               UNCHANGED <<disk, barrier, gate, alive, options, worker, acquired, execution, submitted, staged, judged,
                           required, bundle>>
        PROVE  RunnerInv'
    <2>1. Touches(r)
      BY <1>1, <1>2 DEF Touches, Stays, RunnerType, Runner!Run, Runner!Phase, Runner!ToldOf
    <2>2. at'[r] = "finalize" /\ told'[r] = "rejected" /\ worker[r] = "notStarted"
      BY <1>1, <1>2 DEF RunnerType, RowInv, PlaceInv, Rejected
    <2>3. ClaimInv(r)' /\ PlaceInv(r)'
      BY <1>1, <1>2, <2>2 DEF RowInv, ClaimInv, PlaceInv, Claimed, Over, Exited, Rejected
    <2>4. AliveInv(r)' /\ KernelInv(r)' /\ FreeInv(r)'
      BY <1>1, <1>2, <2>2 DEF RowInv, PlaceInv, AliveInv, KernelInv, FreeInv, Ran, Over, Publishing, Exited, Rejected
    <2>5. JudgeInv(r)'
      BY <1>1, <1>2, <2>2, WholeStays DEF RowInv, JudgeInv, Claimed
    <2>6. BundleInv(r)'
      BY <1>2, <2>2 DEF BundleInv, Exited
    <2>7. QED
      BY <1>2, <2>1, <2>3, <2>4, <2>5, <2>6, RowStep DEF RowInv
  <1>3. ASSUME Runner!Claim(r) PROVE RunnerInv'
    <2>1. CASE /\ \A q \in claims : ~Runner!Meet(r, q)
               /\ claims' = claims \cup {r} /\ at' = [at EXCEPT ![r] = "preflight"] /\ UNCHANGED told
      <3>1. UNCHANGED <<disk, barrier, gate, alive, options, worker, acquired, execution, submitted, staged, judged,
                        required, bundle>> /\ at[r] = "new"
        BY <1>3 DEF Runner!Claim
      <3>2. Touches(r)
        BY <1>1, <2>1, <3>1 DEF Touches, Stays, RunnerType, Runner!Run, Runner!Phase
      <3>3. at'[r] = "preflight"
        BY <1>1, <2>1 DEF RunnerType
      <3>4. ClaimInv(r)' /\ PlaceInv(r)'
        BY <1>1, <2>1, <3>1, <3>3 DEF RowInv, ClaimInv, PlaceInv, Claimed, Over, Exited, Rejected
      <3>5. AliveInv(r)' /\ KernelInv(r)' /\ FreeInv(r)'
        BY <1>1, <2>1, <3>1, <3>3 DEF RowInv, PlaceInv, AliveInv, KernelInv, FreeInv, Ran, Over, Publishing, Exited, Rejected
      <3>6. JudgeInv(r)'
        BY <1>1, <2>1, <3>1, <3>3, WholeStays DEF RowInv, JudgeInv, Claimed
      <3>7. BundleInv(r)'
        BY <1>1, <2>1, <3>1, <3>3 DEF RowInv, PlaceInv, BundleInv, Exited, Over
      <3>8. ApartInv'
        <4>1. \A q \in claims : ~Runner!Meet(q, r)
          BY <2>1 DEF Runner!Meet, Runner!Overlap
        <4>2. \A p, q : Runner!Meet(p, q)' <=> Runner!Meet(p, q)
          BY <3>1 DEF Runner!Meet, Runner!PlacesOf
        <4>3. QED
          BY <2>1, <4>1, <4>2 DEF RunnerInv, ApartInv
      <3>9. \A q \in Runner!Run : RowInv(q)'
        <4>1. TAKE q \in Runner!Run
        <4>2. CASE q = r
          BY <3>4, <3>5, <3>6, <3>7, <4>2 DEF RowInv
        <4>3. CASE q # r
          BY <3>2, <4>3, RowStays DEF Touches, RunnerInv
        <4>4. QED
          BY <4>2, <4>3
      <3>10. QED
        BY <3>2, <3>8, <3>9 DEF RunnerInv, Touches, Runner!Run
    <2>2. CASE at' = [at EXCEPT ![r] = "finalize"] /\ told' = [told EXCEPT ![r] = "rejected"] /\ UNCHANGED claims
      BY <1>2, <1>3, <2>2 DEF Runner!Claim
    <2>3. QED
      BY <1>3, <2>1, <2>2 DEF Runner!Claim
  <1>4. ASSUME Runner!Preflight(r) PROVE RunnerInv'
    <2>1. CASE at' = [at EXCEPT ![r] = "fixtures"] /\ UNCHANGED <<claims, disk, told>>
      <3>1. UNCHANGED <<barrier, gate, alive, options, worker, acquired, execution, submitted, staged, judged,
                        required, bundle>> /\ at[r] = "preflight"
        BY <1>4 DEF Runner!Preflight
      <3>2. Touches(r)
        BY <1>1, <2>1, <3>1 DEF Touches, Stays, RunnerType, Runner!Run, Runner!Phase
      <3>3. at'[r] = "fixtures"
        BY <1>1, <2>1 DEF RunnerType
      <3>4. ClaimInv(r)' /\ PlaceInv(r)'
        BY <1>1, <2>1, <3>1, <3>3 DEF RowInv, ClaimInv, PlaceInv, Claimed, Over, Exited, Rejected
      <3>5. AliveInv(r)' /\ KernelInv(r)' /\ FreeInv(r)'
        BY <1>1, <2>1, <3>1, <3>3 DEF RowInv, PlaceInv, AliveInv, KernelInv, FreeInv, Ran, Over, Publishing, Exited, Rejected
      <3>6. JudgeInv(r)'
        BY <1>1, <2>1, <3>1, <3>3, WholeStays DEF RowInv, JudgeInv, Claimed
      <3>7. BundleInv(r)'
        BY <1>1, <2>1, <3>1, <3>3 DEF RowInv, PlaceInv, BundleInv, Exited, Over
      <3>8. QED
        BY <2>1, <3>2, <3>4, <3>5, <3>6, <3>7, RowStep DEF RowInv
    <2>2. CASE at' = [at EXCEPT ![r] = "finalize"] /\ told' = [told EXCEPT ![r] = "rejected"] /\ claims' = claims \ {r}
               /\ UNCHANGED disk
      BY <1>2, <1>4, <2>2 DEF Runner!Preflight
    <2>3. QED
      BY <1>4, <2>1, <2>2 DEF Runner!Preflight
  <1>5. QED
    BY <1>3, <1>4

LEMMA SetupKeepsIt ==
  ASSUME RunnerInv, NEW r \in Runner!Run
  PROVE  /\ Runner!Fixtures(r) => RunnerInv'
         /\ Runner!Acquire(r) => RunnerInv'
         /\ Runner!Acquired(r) => RunnerInv'
         /\ Runner!Comes(r) => RunnerInv'
         /\ Runner!Body(r) => RunnerInv'
  <1> USE RunnerAssumption DEF Runner!Goes, Runner!desktop, Runner!kernel, Runner!files, Runner!paths
  <1>1. RunnerType /\ RowInv(r)
    BY DEF RunnerInv
  \* What goes on while the kernel runs is not about files.
  <1>2. ASSUME Touches(r), at[r] \in Claimed \/ at'[r] = at[r], at'[r] \in {at[r], "setup", "acquiring", "body", "ended"},
               at[r] \notin {"judge", "asked", "prepared"} \/ at'[r] = at[r],
               UNCHANGED <<told, execution, submitted, staged, judged, required, bundle>>
        PROVE  JudgeInv(r)' /\ BundleInv(r)'
    <2>1. JudgeInv(r)'
      BY <1>1, <1>2, WholeStays DEF RowInv, JudgeInv, Claimed, Touches
    <2>2. BundleInv(r)'
      BY <1>1, <1>2 DEF RowInv, PlaceInv, BundleInv, Exited, Over, Ran, Touches, Claimed
    <2>3. QED
      BY <2>1, <2>2
  <1>3. ASSUME Runner!Fixtures(r) PROVE RunnerInv'
    <2>1. /\ at[r] = "fixtures" /\ worker' = [worker EXCEPT ![r] = "running"]
          /\ at' = at \/ at' = [at EXCEPT ![r] = "setup"]
          /\ UNCHANGED <<options, told, gate, barrier, claims, disk, alive, acquired, execution, submitted, staged, judged,
                         required, bundle>>
      BY <1>3 DEF Runner!Fixtures
    <2>2. Touches(r)
      BY <1>1, <2>1 DEF Touches, Stays, RunnerType, Runner!Run, Runner!Phase
    <2>3. at'[r] \in {"fixtures", "setup"} /\ worker'[r] = "running"
      BY <1>1, <2>1 DEF RunnerType
    <2>4. ClaimInv(r)' /\ PlaceInv(r)'
      BY <1>1, <2>1, <2>3 DEF RowInv, ClaimInv, PlaceInv, Claimed, Over, Exited, Rejected
    <2>5. AliveInv(r)' /\ KernelInv(r)' /\ FreeInv(r)'
      BY <1>1, <2>1, <2>3 DEF RowInv, PlaceInv, AliveInv, KernelInv, FreeInv, Ran, Over, Publishing, Exited
    <2>6. JudgeInv(r)' /\ BundleInv(r)'
      BY <1>2, <2>1, <2>2, <2>3 DEF Claimed
    <2>7. QED
      BY <2>1, <2>2, <2>4, <2>5, <2>6, RowStep DEF RowInv
  <1>4. ASSUME Runner!Acquire(r) PROVE RunnerInv'
    <2>1. /\ at[r] = "setup" /\ at' = [at EXCEPT ![r] = "acquiring"]
          /\ barrier' = [barrier EXCEPT ![r].started = TRUE, ![r].unknown = TRUE]
          /\ UNCHANGED <<options, told, gate, claims, disk, alive, worker, acquired, execution, submitted, staged, judged,
                         required, bundle>>
      BY <1>4 DEF Runner!Acquire
    <2>2. barrier'[r] = [started |-> TRUE, unknown |-> TRUE, confirmed |-> barrier[r].confirmed] /\ at'[r] = "acquiring"
      BY <1>1, <2>1 DEF RunnerType
    <2>3. Touches(r)
      <3>1. /\ barrier' = [q \in Runner!Run |-> barrier'[q]]
            /\ \A q \in Runner!Run \ {r} : barrier'[q] = barrier[q]
        BY <1>1, <2>1 DEF RunnerType
      <3>2. barrier'[r] \in [started : BOOLEAN, unknown : BOOLEAN, confirmed : BOOLEAN]
        BY <1>1, <2>2 DEF RunnerType
      <3>3. barrier' \in [Runner!Run -> [started : BOOLEAN, unknown : BOOLEAN, confirmed : BOOLEAN]]
        BY <1>1, <3>1, <3>2 DEF RunnerType
      <3>4. QED
        BY <1>1, <2>1, <3>1, <3>3 DEF Touches, Stays, RunnerType, Runner!Run, Runner!Phase
    <2>4. ClaimInv(r)' /\ PlaceInv(r)'
      BY <1>1, <2>1, <2>2 DEF RowInv, ClaimInv, PlaceInv, Claimed, Over, Exited, Rejected
    <2>5. AliveInv(r)' /\ KernelInv(r)' /\ FreeInv(r)'
      BY <1>1, <2>1, <2>2 DEF RowInv, PlaceInv, AliveInv, KernelInv, FreeInv, Ran, Over, Publishing, Exited
    <2>6. JudgeInv(r)' /\ BundleInv(r)'
      BY <1>2, <2>1, <2>2, <2>3 DEF Claimed
    <2>7. QED
      BY <2>1, <2>3, <2>4, <2>5, <2>6, RowStep DEF RowInv
  <1>5. ASSUME Runner!Acquired(r) PROVE RunnerInv'
    <2>1. /\ at[r] = "acquiring" /\ at' = [at EXCEPT ![r] = "setup"]
          /\ alive' = [alive EXCEPT ![r] = @ \cup {acquired[r] + 1}] /\ acquired' = [acquired EXCEPT ![r] = @ + 1]
          /\ barrier' = [barrier EXCEPT ![r].unknown = FALSE]
          /\ UNCHANGED <<options, told, gate, claims, disk, worker, execution, submitted, staged, judged, required, bundle>>
      BY <1>5 DEF Runner!Acquired
    <2>2. /\ barrier'[r] = [started |-> barrier[r].started, unknown |-> FALSE, confirmed |-> barrier[r].confirmed]
          /\ at'[r] = "setup" /\ alive'[r] = alive[r] \cup {acquired[r] + 1} /\ acquired'[r] = acquired[r] + 1
          /\ acquired[r] \in Nat /\ barrier[r] \in [started : BOOLEAN, unknown : BOOLEAN, confirmed : BOOLEAN]
      BY <1>1, <2>1 DEF RunnerType
    <2>3. Touches(r)
      <3>1. /\ barrier' = [q \in Runner!Run |-> barrier'[q]]
            /\ \A q \in Runner!Run \ {r} : barrier'[q] = barrier[q]
        BY <1>1, <2>1 DEF RunnerType
      <3>2. barrier'[r] \in [started : BOOLEAN, unknown : BOOLEAN, confirmed : BOOLEAN]
        BY <2>2
      <3>3. barrier' \in [Runner!Run -> [started : BOOLEAN, unknown : BOOLEAN, confirmed : BOOLEAN]]
        BY <1>1, <3>1, <3>2 DEF RunnerType
      <3>4. QED
        BY <1>1, <2>1, <2>2, <3>1, <3>3 DEF Touches, Stays, RunnerType, Runner!Run, Runner!Phase
    <2>4. ClaimInv(r)' /\ PlaceInv(r)'
      BY <1>1, <2>1, <2>2 DEF RowInv, ClaimInv, PlaceInv, Claimed, Over, Exited, Rejected
    <2>5. AliveInv(r)'
      <3>1. alive'[r] \subseteq 1 .. acquired'[r] /\ alive'[r] \subseteq 1 .. (acquired'[r] + 1)
        BY <1>1, <2>2 DEF RowInv, AliveInv
      <3>2. barrier[r].started = TRUE
        BY <1>1, <2>1 DEF RowInv, AliveInv
      <3>3. barrier'[r].started = barrier[r].started /\ barrier'[r].unknown = FALSE
        BY <2>2
      <3>4. QED
        BY <2>2, <3>1, <3>2, <3>3 DEF AliveInv
    <2>6. KernelInv(r)' /\ FreeInv(r)'
      BY <1>1, <2>1, <2>2 DEF RowInv, PlaceInv, KernelInv, FreeInv, Ran, Over, Publishing, Exited
    <2>7. JudgeInv(r)' /\ BundleInv(r)'
      BY <1>2, <2>1, <2>2, <2>3 DEF Claimed
    <2>8. QED
      BY <2>1, <2>3, <2>4, <2>5, <2>6, <2>7, RowStep DEF RowInv
  <1>6. ASSUME Runner!Comes(r) PROVE RunnerInv'
    <2>1. /\ barrier[r].unknown /\ alive' = [alive EXCEPT ![r] = @ \cup {acquired[r] + 1}]
          /\ UNCHANGED <<at, options, told, gate, barrier, claims, disk, worker, acquired, execution, submitted, staged,
                         judged, required, bundle>>
      BY <1>6 DEF Runner!Comes
    <2>2. /\ alive'[r] = alive[r] \cup {acquired[r] + 1} /\ acquired[r] \in Nat
      BY <1>1, <2>1 DEF RunnerType
    <2>3. Touches(r)
      BY <1>1, <2>1 DEF Touches, Stays, RunnerType, Runner!Run
    <2>4. ClaimInv(r)' /\ PlaceInv(r)'
      BY <1>1, <2>1 DEF RowInv, ClaimInv, PlaceInv, Exited, Rejected
    <2>5. AliveInv(r)'
      <3>1. alive'[r] \subseteq 1 .. (acquired[r] + 1)
        BY <1>1, <2>2 DEF RowInv, AliveInv
      <3>2. QED
        BY <1>1, <2>1, <3>1 DEF RowInv, AliveInv
    <2>6. KernelInv(r)' /\ FreeInv(r)'
      BY <1>1, <2>1 DEF RowInv, KernelInv, FreeInv, Ran, Exited, Runner!Settled
    <2>7. JudgeInv(r)' /\ BundleInv(r)'
      BY <1>2, <2>1, <2>3
    <2>8. QED
      BY <2>1, <2>3, <2>4, <2>5, <2>6, <2>7, RowStep DEF RowInv
  <1>7. ASSUME Runner!Body(r) PROVE RunnerInv'
    <2>1. /\ at[r] = "setup" /\ at' = [at EXCEPT ![r] = "body"]
          /\ UNCHANGED <<options, told, gate, barrier, claims, disk, alive, worker, acquired, execution, submitted, staged,
                         judged, required, bundle>>
      BY <1>7 DEF Runner!Body
    <2>2. at'[r] = "body"
      BY <1>1, <2>1 DEF RunnerType
    <2>3. Touches(r)
      BY <1>1, <2>1 DEF Touches, Stays, RunnerType, Runner!Run, Runner!Phase
    <2>4. ClaimInv(r)' /\ PlaceInv(r)'
      BY <1>1, <2>1, <2>2 DEF RowInv, ClaimInv, PlaceInv, Claimed, Over, Exited, Rejected
    <2>5. AliveInv(r)' /\ KernelInv(r)' /\ FreeInv(r)'
      BY <1>1, <2>1, <2>2 DEF RowInv, PlaceInv, AliveInv, KernelInv, FreeInv, Ran, Over, Publishing, Exited
    <2>6. JudgeInv(r)' /\ BundleInv(r)'
      BY <1>2, <2>1, <2>2, <2>3 DEF Claimed
    <2>7. QED
      BY <2>1, <2>3, <2>4, <2>5, <2>6, RowStep DEF RowInv
  <1>8. QED
    BY <1>3, <1>4, <1>5, <1>6, <1>7

LEMMA SubmitKeepsIt ==
  ASSUME RunnerInv, NEW r \in Runner!Run, NEW a, NEW complete, Runner!Submit(r, a, complete)
  PROVE  RunnerInv'
  <1> USE DEF Runner!desktop, Runner!kernel, Runner!paths
  <1>1. RunnerType /\ RowInv(r)
    BY DEF RunnerInv
  <1>2. /\ at[r] \in {"body", "ended"}
        /\ UNCHANGED <<at, options, told, gate, barrier, claims, disk, alive, worker, acquired, execution, staged, judged,
                       required, bundle>>
        /\ DOMAIN submitted' = DOMAIN submitted /\ \A q \in DOMAIN submitted \ {r} : submitted'[q] = submitted[q]
    BY DEF Runner!Submit
  <1>3. Touches(r)
    BY <1>1, <1>2 DEF Touches, Stays, RunnerType, Runner!Run
  <1>4. ClaimInv(r)' /\ PlaceInv(r)' /\ AliveInv(r)'
    BY <1>1, <1>2 DEF RowInv, ClaimInv, PlaceInv, AliveInv, Exited, Rejected
  <1>5. KernelInv(r)' /\ FreeInv(r)' /\ BundleInv(r)'
    BY <1>1, <1>2 DEF RowInv, KernelInv, FreeInv, BundleInv, Ran, Exited, Runner!Settled
  <1>6. JudgeInv(r)'
    <2>1. Len(judged[r]) = 0 /\ judged[r] \in Seq(Runner!Outcome)
      BY <1>1, <1>2 DEF RowInv, JudgeInv, Claimed
    <2>2. QED
      BY <1>1, <1>2, <2>1 DEF RowInv, JudgeInv
  <1>7. QED
    BY <1>2, <1>3, <1>4, <1>5, <1>6, RowStep DEF RowInv

LEMMA ExecutedKeepsIt == ASSUME RunnerInv, NEW r \in Runner!Run, Runner!Executed(r) PROVE RunnerInv'
  <1> USE RunnerAssumption DEF Runner!files, Runner!paths, Runner!Goes
  <1>1. RunnerType /\ RowInv(r)
    BY DEF RunnerInv
  <1>2. PICK e \in Runner!Stops : \E origin \in Runner!OriginOf(e.status) :
          /\ at[r] \in {"fixtures", "setup", "acquiring", "body"}
          /\ e.status = "passed" => at[r] = "body"
          /\ e.worker = "notStarted" <=> worker[r] = "notStarted"
          /\ execution' = [execution EXCEPT ![r] = [worker |-> e.worker, clean |-> e.clean,
                                                    status |-> e.status, origin |-> origin]]
          /\ worker' = [worker EXCEPT ![r] = CASE e.worker = "notStarted" -> @
                                               [] e.worker = "unconfirmed" -> "running"
                                               [] OTHER -> "ended"]
          /\ alive' = [alive EXCEPT ![r] = IF e.clean = "passed" THEN @ \ (1..acquired[r]) ELSE @]
          /\ at' = [at EXCEPT ![r] = "ended"]
          /\ UNCHANGED <<options, claims, disk, barrier, gate, acquired, submitted, staged, judged, required, bundle, told>>
    BY DEF Runner!Executed
  <1>3. PICK origin : execution' = [execution EXCEPT ![r] = [worker |-> e.worker, clean |-> e.clean,
                                                             status |-> e.status, origin |-> origin]]
    BY <1>2
  <1>4. /\ execution'[r].worker = e.worker /\ execution'[r].clean = e.clean /\ execution'[r].status = e.status
        /\ at'[r] = "ended" /\ worker'[r] \in {"notStarted", "running", "ended"}
        /\ e.worker = "notStarted" => worker'[r] = worker[r]
        /\ e.worker \in {"settled", "cooperativeStopped"} => worker'[r] = "ended"
        /\ alive'[r] \subseteq alive[r] /\ (e.clean = "passed" => alive'[r] = alive[r] \ (1 .. acquired[r]))
    BY <1>1, <1>2, <1>3 DEF RunnerType
  <1>5. e.status = "passed" => e.worker = "settled" /\ e.clean = "passed"
    BY DEF Runner!Stops
  <1>6. Touches(r)
    BY <1>1, <1>2, <1>3, <1>4 DEF Touches, Stays, RunnerType, Runner!Run, Runner!Phase
  <1>7. ClaimInv(r)' /\ PlaceInv(r)' /\ AliveInv(r)'
    BY <1>1, <1>2, <1>4 DEF RowInv, ClaimInv, PlaceInv, AliveInv, Exited, Rejected, Claimed, Over
  <1>8. KernelInv(r)'
    <2>1. barrier[r].unknown = FALSE => alive[r] \ (1 .. acquired[r]) = {}
      BY <1>1 DEF RowInv, AliveInv
    <2>2. e.status = "passed" => barrier[r].unknown = FALSE
      BY <1>1, <1>2 DEF RowInv, AliveInv
    <2>3. QED
      BY <1>2, <1>4, <1>5, <2>1, <2>2 DEF KernelInv, Runner!Settled, Publishing
  <1>9. FreeInv(r)'
    BY <1>1, <1>2, <1>4 DEF RowInv, PlaceInv, FreeInv, Ran, Over, Publishing, Exited
  <1>10. JudgeInv(r)' /\ BundleInv(r)'
    BY <1>1, <1>2, <1>4, WholeStays DEF RowInv, PlaceInv, JudgeInv, BundleInv, Exited, Over, Claimed
  <1>11. QED
    BY <1>2, <1>6, <1>7, <1>8, <1>9, <1>10, RowStep DEF RowInv

\* A run that gives up after the kernel returned: nothing was published.
LEMMA RunEnds ==
  ASSUME RunnerInv, NEW r \in Runner!Run, Touches(r), at[r] \in {"ended"} \cup Publishing, at'[r] = "finalize",
         told'[r] \notin {"rejected", "exit0", "exit1"}, worker[r] = "running" => r \in claims', claims' \subseteq claims,
         UNCHANGED <<gate, alive, worker, acquired, execution, submitted, judged, required>>,
         barrier'[r].started = barrier[r].started, barrier'[r].unknown = barrier[r].unknown,
         barrier'[r].confirmed => barrier[r].unknown = FALSE /\ execution[r].clean = "passed"
  PROVE  RunnerInv'
  <1> USE DEF Touches
  <1>1. RunnerType /\ RowInv(r)
    BY DEF RunnerInv
  <1>2. ClaimInv(r)' /\ PlaceInv(r)'
    BY <1>1 DEF ClaimInv, PlaceInv, Exited, Rejected, Claimed, Over
  <1>3. AliveInv(r)' /\ KernelInv(r)'
    BY <1>1 DEF RowInv, AliveInv, KernelInv, Ran, Over, Publishing, Runner!Settled
  <1>4. FreeInv(r)'
    BY <1>1 DEF RowInv, PlaceInv, FreeInv, Ran, Over, Publishing, Exited
  <1>5. JudgeInv(r)' /\ BundleInv(r)'
    BY <1>1, WholeStays DEF RowInv, JudgeInv, BundleInv, Exited, Claimed
  <1>6. QED
    BY <1>2, <1>3, <1>4, <1>5, RowStep DEF RowInv

LEMMA ObservedKeepsIt == ASSUME RunnerInv, NEW r \in Runner!Run, Runner!Observed(r) PROVE RunnerInv'
  <1> USE DEF Runner!Goes, Runner!Throws, Runner!Ends, Runner!kernel, Runner!files, Runner!paths
  <1> DEFINE e == execution[r]
  <1>1. RunnerType /\ RowInv(r)
    BY DEF RunnerInv
  <1>2. /\ at[r] = "ended" /\ barrier' = [barrier EXCEPT ![r].confirmed = Runner!Confirmed(r, e)]
        /\ UNCHANGED <<options, gate, alive, worker, acquired, execution, submitted, staged, judged, required, bundle>>
        /\ \/ ~Runner!PublicationReady(e) /\ told' = [told EXCEPT ![r] = "kernelStop"] /\ at' = [at EXCEPT ![r] = "finalize"]
              /\ claims' = IF Runner!Sticks(e) THEN claims ELSE claims \ {r}
           \/ Runner!PublicationReady(e) /\ told' = [told EXCEPT ![r] = "surfaceAcquisition"]
              /\ at' = [at EXCEPT ![r] = "finalize"] /\ claims' = claims \ {r}
           \/ Runner!PublicationReady(e) /\ told' = [told EXCEPT ![r] = "evidence"] /\ at' = [at EXCEPT ![r] = "finalize"]
              /\ claims' = claims \ {r}
           \/ Runner!PublicationReady(e) /\ at' = [at EXCEPT ![r] = "materialize"] /\ UNCHANGED <<told, claims>>
    <2>1. at[r] = "ended" /\ barrier' = [barrier EXCEPT ![r].confirmed = Runner!Confirmed(r, e)]
          /\ UNCHANGED <<options, gate, alive, worker, acquired, execution, submitted, staged, judged, required, bundle>>
      BY DEF Runner!Observed
    <2>2. CASE ~Runner!PublicationReady(e)
      BY <2>1, <2>2 DEF Runner!Observed
    <2>3. CASE Runner!PublicationReady(e) /\ acquired[r] = 0
      BY <2>1, <2>3 DEF Runner!Observed
    <2>4. CASE Runner!PublicationReady(e) /\ acquired[r] # 0
      BY <2>1, <2>4 DEF Runner!Observed
    <2>5. QED
      BY <2>2, <2>3, <2>4
  <1>3. /\ Runner!Confirmed(r, e) \in BOOLEAN
        /\ Runner!Confirmed(r, e) <=> barrier[r].unknown = FALSE /\ Runner!PublicationReady(e) /\ e.clean = "passed"
        /\ Runner!PublicationReady(e) <=> Runner!Settled(e) /\ e.clean \in {"passed", "failed"}
    BY <1>1 DEF Runner!Confirmed, Runner!PublicationReady, Runner!Settled, RunnerType
  <1>4. /\ barrier'[r].started = barrier[r].started /\ barrier'[r].unknown = barrier[r].unknown
        /\ barrier'[r].confirmed = Runner!Confirmed(r, e)
        /\ barrier'[r] \in [started : BOOLEAN, unknown : BOOLEAN, confirmed : BOOLEAN]
    BY <1>1, <1>2, <1>3 DEF RunnerType
  <1>5. /\ barrier' \in [Runner!Run -> [started : BOOLEAN, unknown : BOOLEAN, confirmed : BOOLEAN]]
        /\ \A q \in Runner!Run \ {r} : barrier'[q] = barrier[q]
    <2>1. /\ barrier' = [q \in Runner!Run |-> barrier'[q]]
          /\ \A q \in Runner!Run \ {r} : barrier'[q] = barrier[q]
      BY <1>1, <1>2 DEF RunnerType
    <2>2. QED
      BY <1>1, <1>4, <2>1 DEF RunnerType
  <1>6. claims' \subseteq claims /\ \A q \in Runner!Run \ {r} : q \in claims' <=> q \in claims
    BY <1>2
  <1>7. Touches(r)
    BY <1>1, <1>2, <1>5, <1>6 DEF Touches, Stays, RunnerType, Runner!Run, Runner!Phase, Runner!ToldOf
  <1>8. worker[r] = "running" => e.worker # "notStarted" /\ ~Runner!Settled(e)
    BY <1>1, <1>2 DEF RowInv, KernelInv, Ran
  <1>9. CASE at'[r] = "finalize"
    <2>1. told'[r] \notin {"rejected", "exit0", "exit1"}
      BY <1>1, <1>2, <1>9 DEF RunnerType
    <2>2. worker[r] = "running" => r \in claims'
      BY <1>1, <1>2, <1>3, <1>8 DEF RowInv, ClaimInv, Claimed, Runner!Sticks
    <2>3. QED
      BY <1>2, <1>3, <1>4, <1>6, <1>7, <1>9, <2>1, <2>2, RunEnds
  <1>10. CASE at'[r] # "finalize"
    <2>1. at'[r] = "materialize" /\ UNCHANGED <<told, claims>> /\ Runner!PublicationReady(e)
      BY <1>1, <1>2, <1>10 DEF RunnerType
    <2>2. ClaimInv(r)' /\ PlaceInv(r)' /\ AliveInv(r)'
      BY <1>1, <1>2, <1>4, <2>1, RunnerAssumption DEF RowInv, ClaimInv, PlaceInv, AliveInv, Claimed, Over, Exited, Rejected
    <2>3. KernelInv(r)'
      BY <1>1, <1>2, <1>3, <1>4, <2>1 DEF RowInv, KernelInv, Ran, Publishing, Runner!Settled
    <2>4. FreeInv(r)'
      <3>1. e.status = "passed" => Runner!Confirmed(r, e)
        BY <1>1, <1>2, <1>3, <2>1 DEF RowInv, KernelInv, Ran
      <3>2. barrier'[r].confirmed => barrier[r].unknown = FALSE /\ e.clean = "passed"
        BY <1>3, <1>4
      <3>3. e.status = "passed" => barrier'[r].confirmed
        BY <1>4, <3>1
      <3>4. gate[r] = "held" /\ told[r] = None
        BY <1>1, <1>2 DEF RowInv, PlaceInv, Over
      <3>5. QED
        BY RunnerAssumption, <1>2, <1>4, <2>1, <3>2, <3>3, <3>4 DEF FreeInv, Ran, Publishing, Exited
    <2>5. JudgeInv(r)' /\ BundleInv(r)'
      BY <1>1, <1>2, <2>1, WholeStays DEF RowInv, PlaceInv, JudgeInv, BundleInv, Exited, Over, Claimed
    <2>6. QED
      BY <1>6, <1>7, <2>2, <2>3, <2>4, <2>5, RowStep DEF RowInv
  <1>11. QED
    BY <1>9, <1>10

\* A run that goes on after the seal: the desktop and what the kernel said are as they were.
LEMMA RunGoesOn ==
  ASSUME RunnerInv, NEW r \in Runner!Run, Touches(r), at[r] \in Publishing, at'[r] \in Publishing,
         UNCHANGED <<told, claims, gate, barrier, alive, worker, acquired, execution, bundle>>,
         JudgeInv(r)', at'[r] = "prepared" => BundleInv(r)'
  PROVE  RunnerInv'
  <1> USE DEF Touches
  <1>1. RunnerType /\ RowInv(r)
    BY DEF RunnerInv
  <1>2. ClaimInv(r)' /\ PlaceInv(r)'
    BY <1>1, RunnerAssumption DEF RowInv, ClaimInv, PlaceInv, Exited, Rejected, Claimed, Publishing, Over
  <1>3. AliveInv(r)' /\ KernelInv(r)'
    BY <1>1 DEF RowInv, AliveInv, KernelInv, Ran, Over, Publishing, Runner!Settled
  <1>4. FreeInv(r)'
    BY <1>1 DEF RowInv, PlaceInv, FreeInv, Ran, Over, Publishing, Exited
  <1>5. BundleInv(r)'
    BY <1>1 DEF RowInv, PlaceInv, BundleInv, Exited, Publishing, Over
  <1>6. QED
    BY <1>2, <1>3, <1>4, <1>5, RowStep DEF RowInv

\* After the seal no worker runs, so the claim may go with an error.
LEMMA ErrorKeepsIt ==
  ASSUME RunnerInv, NEW r \in Runner!Run, at[r] \in Publishing, NEW word \in {"evidence", "materialization", "adaptation"},
         at' = [at EXCEPT ![r] = "finalize"], told' = [told EXCEPT ![r] = word], claims' = claims \ {r},
         UNCHANGED <<options, gate, barrier, alive, worker, acquired, execution, submitted, judged, required, bundle>>,
         DOMAIN staged' = DOMAIN staged
  PROVE  RunnerInv'
  <1>1. RunnerType /\ RowInv(r)
    BY DEF RunnerInv
  <1>2. Touches(r)
    BY <1>1 DEF Touches, Stays, RunnerType, Runner!Run, Runner!Phase, Runner!ToldOf
  <1>3. at'[r] = "finalize" /\ told'[r] = word
    BY <1>1 DEF RunnerType
  <1>4. worker[r] # "running"
    BY <1>1 DEF RowInv, KernelInv, Ran
  <1>5. barrier[r].confirmed => barrier[r].unknown = FALSE /\ execution[r].clean = "passed"
    BY <1>1 DEF RowInv, FreeInv
  <1>6. QED
    BY <1>2, <1>3, <1>4, <1>5, RunEnds

LEMMA JudgingKeepsIt ==
  ASSUME RunnerInv, NEW r \in Runner!Run
  PROVE  /\ Runner!Materialize(r) => RunnerInv'
         /\ \A a : Runner!Changes(r, a) => RunnerInv'
         /\ Runner!Ask(r) => RunnerInv'
         /\ \A o \in Runner!Outcome : Runner!Answers(r, o) => RunnerInv'
         /\ Runner!Adapt(r) => RunnerInv'
  <1> USE DEF Runner!Goes, Runner!Throws, Runner!Ends, Runner!desktop, Runner!kernel, Runner!paths
  <1>1. RunnerType /\ RowInv(r) /\ Len(options[r].criteria) \in Nat /\ judged[r] \in Seq(Runner!Outcome)
    BY RunnerAssumption DEF RunnerInv, RunnerType, Runner!Run, RowInv, JudgeInv
  <1>2. ASSUME Runner!Materialize(r) PROVE RunnerInv'
    <2>1. /\ at[r] = "materialize" /\ DOMAIN staged' = DOMAIN staged
          /\ \A q \in Runner!Run \ {r} : staged'[q] = staged[q]
          /\ UNCHANGED <<options, gate, barrier, alive, worker, acquired, execution, submitted, judged, required, bundle>>
      BY <1>1, <1>2 DEF Runner!Materialize, RunnerType
    <2>2. CASE at' = [at EXCEPT ![r] = "judge"] /\ UNCHANGED <<claims, told>>
      <3>1. at'[r] = "judge"
        BY <1>1, <2>2 DEF RunnerType
      <3>2. Touches(r)
        BY <1>1, <2>1, <2>2 DEF Touches, Stays, RunnerType, Runner!Run, Runner!Phase
      <3>3. JudgeInv(r)'
        BY <1>1, <2>1, <3>1, WholeStays DEF RowInv, JudgeInv, Claimed
      <3>4. QED
        BY <2>1, <2>2, <3>1, <3>2, <3>3, RunGoesOn DEF Publishing
    <2>3. CASE /\ at' = [at EXCEPT ![r] = "finalize"] /\ told' = [told EXCEPT ![r] = "materialization"]
               /\ claims' = claims \ {r}
      BY <2>1, <2>3, ErrorKeepsIt DEF Publishing
    <2>4. QED
      BY <1>2, <2>2, <2>3 DEF Runner!Materialize
  <1>3. ASSUME NEW a, Runner!Changes(r, a) PROVE RunnerInv'
    <2>1. /\ at[r] \in {"judge", "asked", "prepared"} /\ DOMAIN staged' = DOMAIN staged
          /\ UNCHANGED <<at, told, claims, options, gate, barrier, alive, worker, acquired, execution, submitted, judged,
                         required, bundle>>
      BY <1>1, <1>3 DEF Runner!Changes
    <2>2. Touches(r)
      BY <1>1, <2>1 DEF Touches, Stays, RunnerType, Runner!Run
    <2>3. JudgeInv(r)' /\ BundleInv(r)'
      BY <1>1, <2>1, WholeStays DEF RowInv, JudgeInv, BundleInv, Ran, Exited
    <2>4. QED
      BY <2>1, <2>2, <2>3, RunGoesOn DEF Publishing
  <1>4. ASSUME Runner!Ask(r) PROVE RunnerInv'
    <2> DEFINE k == Len(judged[r]) + 1
    <2>1. /\ at[r] = "judge" /\ k <= Len(options[r].criteria)
          /\ UNCHANGED <<options, gate, barrier, alive, worker, acquired, execution, submitted, staged, judged, bundle>>
          /\ \/ /\ required' = [required EXCEPT ![r] = @ \cup options[r].criteria[k]]
                /\ at' = [at EXCEPT ![r] = "asked"] /\ UNCHANGED <<claims, told>>
             \/ /\ at' = [at EXCEPT ![r] = "finalize"] /\ told' = [told EXCEPT ![r] = "evidence"]
                /\ claims' = claims \ {r} /\ UNCHANGED required
      BY <1>4 DEF Runner!Ask, Runner!Turn
    <2>2. CASE /\ required' = [required EXCEPT ![r] = @ \cup options[r].criteria[k]]
               /\ at' = [at EXCEPT ![r] = "asked"] /\ UNCHANGED <<claims, told>>
      <3>1. at'[r] = "asked" /\ required'[r] = required[r] \cup options[r].criteria[k]
        BY <1>1, <2>2 DEF RunnerType
      <3>2. Touches(r)
        BY <1>1, <2>1, <2>2 DEF Touches, Stays, RunnerType, Runner!Run, Runner!Phase
      <3>3. JudgeInv(r)'
        BY <1>1, <2>1, <3>1, WholeStays DEF RowInv, JudgeInv, Claimed
      <3>4. QED
        BY <2>1, <2>2, <3>1, <3>2, <3>3, RunGoesOn DEF Publishing
    <2>3. CASE /\ at' = [at EXCEPT ![r] = "finalize"] /\ told' = [told EXCEPT ![r] = "evidence"]
               /\ claims' = claims \ {r} /\ UNCHANGED required
      BY <2>1, <2>3, ErrorKeepsIt DEF Publishing
    <2>4. QED
      BY <2>1, <2>2, <2>3
  <1>5. ASSUME NEW o \in Runner!Outcome, Runner!Answers(r, o) PROVE RunnerInv'
    <2> DEFINE k == Len(judged[r]) + 1
    <2>1. /\ at[r] = "asked" /\ (~Runner!Whole(r, k) => o = "insufficient")
          /\ UNCHANGED <<options, gate, barrier, alive, worker, acquired, execution, submitted, bundle>>
      BY <1>5 DEF Runner!Answers, Runner!Turn, Runner!Insufficient
    <2>2. CASE /\ judged' = [judged EXCEPT ![r] = Append(@, o)] /\ DOMAIN staged' = DOMAIN staged
               /\ required' = [required EXCEPT ![r] = @ \cup {Runner!ResultFile(k)}]
               /\ at' = [at EXCEPT ![r] = "judge"] /\ UNCHANGED <<claims, told>>
      <3>1. at'[r] = "judge" /\ required[r] \subseteq required'[r] /\ judged'[r] = Append(judged[r], o)
        BY <1>1, <2>2 DEF RunnerType
      <3>2. Touches(r)
        BY <1>1, <2>1, <2>2 DEF Touches, Stays, RunnerType, Runner!Run, Runner!Phase
      <3>3. /\ judged'[r] \in Seq(Runner!Outcome) /\ Len(judged'[r]) = k /\ judged'[r][k] = o
            /\ \A i \in 1 .. Len(judged[r]) : judged'[r][i] = judged[r][i]
        BY <1>1, <3>1
      <3>4. o = "pass" => Runner!Whole(r, k)
        BY <2>1
      <3>5. k <= Len(options[r].criteria) /\ options[r].criteria[k] \subseteq required'[r]
        BY <1>1, <2>1, <3>1 DEF RowInv, JudgeInv
      <3>6. \A i \in 1 .. Len(judged'[r]) : options[r].criteria[i] \subseteq required'[r]
        BY <1>1, <3>1, <3>3, <3>5 DEF RowInv, JudgeInv
      <3>7. \A i \in 1 .. Len(judged'[r]) : judged'[r][i] = "pass" => Runner!Whole(r, i)
        BY <1>1, <3>3, <3>4 DEF RowInv, JudgeInv
      <3>8. JudgeInv(r)'
        BY <1>1, <2>1, <3>1, <3>3, <3>5, <3>6, <3>7, WholeStays DEF JudgeInv
      <3>9. QED
        BY <2>1, <2>2, <3>1, <3>2, <3>8, RunGoesOn DEF Publishing
    <2>3. CASE /\ at' = [at EXCEPT ![r] = "finalize"] /\ told' = [told EXCEPT ![r] = "evidence"]
               /\ claims' = claims \ {r} /\ UNCHANGED <<staged, judged, required>>
      BY <2>1, <2>3, ErrorKeepsIt DEF Publishing
    <2>4. QED
      BY <1>1, <1>5, <2>2, <2>3 DEF Runner!Answers, Runner!Turn
  <1>6. ASSUME Runner!Adapt(r) PROVE RunnerInv'
    <2>1. /\ at[r] = "judge" /\ Len(judged[r]) = Len(options[r].criteria)
          /\ UNCHANGED <<options, gate, barrier, alive, worker, acquired, execution, submitted, staged, judged, bundle>>
          /\ \/ /\ required' = [required EXCEPT ![r] = @ \cup {q.artifact : q \in options[r].policy}]
                /\ at' = [at EXCEPT ![r] = "prepared"] /\ UNCHANGED <<claims, told>>
             \/ /\ at' = [at EXCEPT ![r] = "finalize"] /\ told' = [told EXCEPT ![r] = "adaptation"]
                /\ claims' = claims \ {r} /\ UNCHANGED required
      BY <1>6 DEF Runner!Adapt
    <2>2. CASE /\ required' = [required EXCEPT ![r] = @ \cup {q.artifact : q \in options[r].policy}]
               /\ at' = [at EXCEPT ![r] = "prepared"] /\ UNCHANGED <<claims, told>>
      <3>1. at'[r] = "prepared" /\ required'[r] = required[r] \cup {q.artifact : q \in options[r].policy}
        BY <1>1, <2>2 DEF RunnerType
      <3>2. Touches(r)
        BY <1>1, <2>1, <2>2 DEF Touches, Stays, RunnerType, Runner!Run, Runner!Phase
      <3>3. JudgeInv(r)'
        BY <1>1, <2>1, <3>1, WholeStays DEF RowInv, JudgeInv, Claimed
      <3>4. told[r] = None
        BY <1>1, <2>1 DEF RowInv, PlaceInv, Over
      <3>5. BundleInv(r)'
        BY <2>1, <2>2, <3>1, <3>4, RunnerAssumption DEF BundleInv, Exited
      <3>6. QED
        BY <2>1, <2>2, <3>1, <3>2, <3>3, <3>5, RunGoesOn DEF Publishing
    <2>3. CASE /\ at' = [at EXCEPT ![r] = "finalize"] /\ told' = [told EXCEPT ![r] = "adaptation"]
               /\ claims' = claims \ {r} /\ UNCHANGED required
      BY <2>1, <2>3, ErrorKeepsIt DEF Publishing
    <2>4. QED
      BY <2>1, <2>2, <2>3
  <1>7. QED
    BY <1>2, <1>3, <1>4, <1>5, <1>6

LEMMA PublicationKeepsIt ==
  ASSUME RunnerInv, NEW r \in Runner!Run
  PROVE  /\ Runner!Publish(r) => RunnerInv'
         /\ Runner!Finalize(r) => RunnerInv'
         /\ Runner!FinalizeFails(r) => RunnerInv'
         /\ Runner!WorkerEnds(r) => RunnerInv'
  <1> USE DEF Runner!Goes, Runner!desktop, Runner!kernel, Runner!paths, Runner!files
  <1>1. RunnerType /\ RowInv(r)
    BY DEF RunnerInv
  <1>2. ASSUME Runner!Publish(r) PROVE RunnerInv'
    <2>1. /\ at[r] = "prepared" /\ claims' = claims \ {r} /\ at' = [at EXCEPT ![r] = "finalize"]
          /\ UNCHANGED <<options, gate, barrier, alive, worker, acquired, execution, submitted, staged, judged, required>>
          /\ \/ /\ \A a \in required[r] : staged[r][a] = "written"
                /\ bundle' = [bundle EXCEPT ![r] = staged[r]]
                /\ told' = [told EXCEPT ![r] = IF Runner!Status(r) = "passed" THEN "exit0" ELSE "exit1"]
             \/ told' = [told EXCEPT ![r] = "publication"] /\ UNCHANGED bundle
      BY <1>2 DEF Runner!Publish, Runner!Demanded
    <2>2. at'[r] = "finalize" /\ told'[r] \in {"exit0", "exit1", "publication"} /\ worker[r] = "ended"
      BY <1>1, <2>1 DEF RunnerType, RowInv, KernelInv, Ran, Publishing
    <2>3. Touches(r)
      BY <1>1, <2>1 DEF Touches, Stays, RunnerType, Runner!Run, Runner!Phase, Runner!ToldOf
    <2>4. CASE told'[r] = "publication"
      <3>1. barrier[r].confirmed => barrier[r].unknown = FALSE /\ execution[r].clean = "passed"
        BY <1>1 DEF RowInv, FreeInv
      <3>2. QED
        BY <2>1, <2>2, <2>3, <2>4, <3>1, RunEnds DEF Publishing
    <2>5. CASE told'[r] \in {"exit0", "exit1"}
      <3>1. /\ \A a \in required[r] : bundle'[r][a] = "written"
            /\ told'[r] = IF Runner!Status(r) = "passed" THEN "exit0" ELSE "exit1"
        BY <1>1, <2>1, <2>5 DEF RunnerType
      <3>2. told'[r] = "exit0" => execution[r].status = "passed" /\ \A i \in DOMAIN judged[r] : judged[r][i] = "pass"
        BY <3>1 DEF Runner!Status
      <3>3. ClaimInv(r)' /\ PlaceInv(r)' /\ AliveInv(r)'
        BY <1>1, <2>1, <2>2, <2>5 DEF RowInv, ClaimInv, PlaceInv, AliveInv, Claimed, Over, Exited, Rejected
      <3>4. KernelInv(r)' /\ FreeInv(r)'
        BY <1>1, <2>1, <2>2, <2>5 DEF RowInv, PlaceInv, KernelInv, FreeInv, Ran, Over, Publishing, Exited, Runner!Settled
      <3>5. JudgeInv(r)'
        BY <1>1, <2>1, <2>2, WholeStays DEF RowInv, JudgeInv, Claimed
      <3>6. BundleInv(r)'
        BY <1>1, <2>1, <2>2, <2>5, <3>1, <3>2 DEF RowInv, BundleInv, Exited, Ran, Over
      <3>7. QED
        BY <2>1, <2>3, <3>3, <3>4, <3>5, <3>6, RowStep DEF RowInv
    <2>6. QED
      BY <2>2, <2>4, <2>5
  <1>3. ASSUME Runner!Finalize(r) \/ Runner!FinalizeFails(r) PROVE RunnerInv'
    <2>1. /\ at[r] = "finalize" /\ at' = [at EXCEPT ![r] = "over"]
          /\ UNCHANGED <<options, claims, barrier, alive, worker, acquired, execution, submitted, staged, judged, required,
                         bundle>>
          /\ \/ /\ gate' = [gate EXCEPT ![r] = IF ~barrier[r].started \/ barrier[r].confirmed THEN "released" ELSE "quarantined"]
                /\ UNCHANGED told
             \/ /\ gate' = [gate EXCEPT ![r] = "stuck"]
                /\ told' = [told EXCEPT ![r] = IF @ \in {"exit0", "exit1"} THEN "publication" ELSE @]
      BY <1>3 DEF Runner!Finalize, Runner!FinalizeFails
    <2>2. /\ at'[r] = "over"
          /\ \/ /\ gate'[r] = "released" <=> ~barrier[r].started \/ barrier[r].confirmed
                /\ told'[r] = told[r]
             \/ /\ gate'[r] = "stuck" /\ told'[r] \notin {"exit0", "exit1"}
                /\ told'[r] = told[r] \/ (told[r] \in {"exit0", "exit1"} /\ told'[r] = "publication")
      BY <1>1, <2>1 DEF RunnerType
    <2>3. Touches(r)
      <3>1. gate' \in [Runner!Run -> {"held", "released", "stuck", "quarantined"}] /\ told' \in [Runner!Run -> Runner!ToldOf]
        BY <1>1, <2>1 DEF RunnerType, Runner!ToldOf
      <3>2. \A q \in Runner!Run \ {r} : gate'[q] = gate[q] /\ told'[q] = told[q]
        BY <1>1, <2>1 DEF RunnerType
      <3>3. QED
        BY <1>1, <2>1, <3>1, <3>2 DEF Touches, Stays, RunnerType, Runner!Run, Runner!Phase
    <2>4. ClaimInv(r)' /\ PlaceInv(r)' /\ AliveInv(r)'
      BY <1>1, <2>1, <2>2 DEF RowInv, ClaimInv, PlaceInv, AliveInv, Claimed, Over, Exited, Rejected
    <2>5. KernelInv(r)'
      BY <1>1, <2>1, <2>2 DEF RowInv, KernelInv, Ran, Over, Publishing, Runner!Settled
    <2>6. FreeInv(r)'
      <3>1. told[r] = "exit0" => barrier[r].confirmed
        BY <1>1 DEF RowInv, FreeInv, BundleInv, Exited
      <3>2. QED
        BY <1>1, <2>1, <2>2, <3>1 DEF RowInv, FreeInv, Ran, Over, Publishing, Exited
    <2>7. JudgeInv(r)'
      BY <1>1, <2>1, <2>2, WholeStays DEF RowInv, JudgeInv, Claimed
    <2>8. BundleInv(r)'
      BY <1>1, <2>1, <2>2 DEF RowInv, BundleInv, Exited, Ran, Over
    <2>9. QED
      BY <2>1, <2>3, <2>4, <2>5, <2>6, <2>7, <2>8, RowStep DEF RowInv
  <1>4. ASSUME Runner!WorkerEnds(r) PROVE RunnerInv'
    <2>1. /\ at[r] = "over" /\ worker[r] = "running" /\ worker' = [worker EXCEPT ![r] = "ended"]
          /\ UNCHANGED <<at, options, told, gate, claims, barrier, alive, acquired, execution, submitted, staged, judged,
                         required, bundle>>
      BY <1>4 DEF Runner!WorkerEnds
    <2>2. worker'[r] = "ended"
      BY <1>1, <2>1 DEF RunnerType
    <2>3. Touches(r)
      BY <1>1, <2>1 DEF Touches, Stays, RunnerType, Runner!Run
    <2>4. ClaimInv(r)' /\ PlaceInv(r)' /\ AliveInv(r)'
      BY <1>1, <2>1, <2>2 DEF RowInv, ClaimInv, PlaceInv, AliveInv, Claimed, Exited, Rejected
    <2>5. KernelInv(r)' /\ FreeInv(r)'
      BY <1>1, <2>1, <2>2 DEF RowInv, KernelInv, FreeInv, Ran, Over, Exited, Runner!Settled
    <2>6. JudgeInv(r)' /\ BundleInv(r)'
      BY <1>1, <2>1, WholeStays DEF RowInv, JudgeInv, BundleInv, Ran, Exited
    <2>7. QED
      BY <2>1, <2>3, <2>4, <2>5, <2>6, RowStep DEF RowInv
  <1>5. QED
    BY <1>2, <1>3, <1>4

LEMMA RunnerStep == ASSUME RunnerInv, [Runner!Next]_(Runner!vars) PROVE RunnerInv'
  <1>1. CASE UNCHANGED Runner!vars
    <2>1. RunnerType' /\ ApartInv' /\ Runner!Run' = Runner!Run
      BY <1>1 DEF Runner!vars, RunnerInv, RunnerType, ApartInv, Runner!Run, Runner!Meet, Runner!PlacesOf
    <2>2. \A r \in Runner!Run : RowInv(r)'
      BY <1>1, RowStays DEF Runner!vars, RunnerInv, Stays
    <2>3. QED
      BY <2>1, <2>2 DEF RunnerInv
  <1>2. CASE Runner!Next
    BY <1>2, ClaimKeepsIt, SetupKeepsIt, SubmitKeepsIt, ExecutedKeepsIt, ObservedKeepsIt, JudgingKeepsIt,
       PublicationKeepsIt DEF Runner!Next
  <1>3. QED
    BY <1>1, <1>2

LEMMA RunnerHolds == ASSUME RunnerInv PROVE Runner!RunIsEarned
  <1>1. Runner!ExitIsEarned
    <2>1. SUFFICES ASSUME NEW r \in Runner!Run, told[r] = "exit0", at[r] = "over"
                   PROVE  /\ execution[r].status = "passed" /\ worker[r] = "ended" /\ alive[r] = {} /\ gate[r] = "released"
                          /\ Len(judged[r]) = Len(options[r].criteria)
                          /\ \A i \in DOMAIN judged[r] : judged[r][i] = "pass"
                          /\ \A i \in DOMAIN options[r].criteria : \A a \in options[r].criteria[i] :
                               Runner!Complete(r, a) /\ bundle[r][a] = "written"
                          /\ \A q \in options[r].policy : bundle[r][q.artifact] = "written"
      BY DEF Runner!ExitIsEarned
    <2>2. RowInv(r) /\ DOMAIN options[r].criteria = 1 .. Len(options[r].criteria)
      BY RunnerAssumption DEF RunnerInv, RunnerType, Runner!Run
    <2>3. execution[r].status = "passed" /\ gate[r] = "released" /\ Len(judged[r]) = Len(options[r].criteria)
          /\ \A i \in DOMAIN judged[r] : judged[r][i] = "pass"
      BY <2>1, <2>2 DEF RowInv, FreeInv, BundleInv, Exited
    <2>4. worker[r] = "ended" /\ alive[r] = {}
      BY <2>1, <2>2, <2>3 DEF RowInv, KernelInv, Ran, Over
    <2>5. \A a \in required[r] : bundle[r][a] = "written"
      BY <2>1, <2>2 DEF RowInv, BundleInv, Exited
    <2>6. DOMAIN judged[r] = DOMAIN options[r].criteria
      BY <2>2, <2>3 DEF RowInv, JudgeInv
    <2>7. ASSUME NEW i \in DOMAIN options[r].criteria, NEW a \in options[r].criteria[i]
          PROVE  Runner!Complete(r, a) /\ bundle[r][a] = "written"
      <3>1. Runner!Whole(r, i) /\ a \in required[r]
        BY <2>2, <2>3, <2>6, <2>7 DEF RowInv, JudgeInv
      <3>2. QED
        BY <2>5, <2>7, <3>1 DEF Runner!Whole
    <2>8. \A q \in options[r].policy : bundle[r][q.artifact] = "written"
      BY <2>1, <2>2, <2>5 DEF RowInv, BundleInv, Exited
    <2>9. QED
      BY <2>3, <2>4, <2>7, <2>8
  <1>2. Runner!GateIsEarned
    <2>1. SUFFICES ASSUME NEW r \in Runner!Run, gate[r] = "released" PROVE alive[r] = {}
      BY DEF Runner!GateIsEarned
    <2>2. RowInv(r)
      BY DEF RunnerInv
    <2>3. CASE barrier[r].confirmed
      BY <2>2, <2>3 DEF RowInv, FreeInv, KernelInv
    <2>4. CASE ~barrier[r].confirmed
      <3>1. barrier[r].started = FALSE
        BY <2>1, <2>2, <2>4 DEF RowInv, FreeInv, RunnerInv, RunnerType
      <3>2. alive[r] \subseteq 1 .. 0
        BY <2>2, <3>1 DEF RowInv, AliveInv
      <3>3. QED
        BY <3>2
    <2>5. QED
      BY <2>3, <2>4
  <1>3. Runner!PathsAreOwn
    <2>1. \A r \in Runner!Run : Runner!Working(r) => r \in claims
      BY DEF RunnerInv, RowInv, ClaimInv, Claimed, Runner!Working
    <2>2. QED
      BY <2>1 DEF RunnerInv, ApartInv, Runner!PathsAreOwn, Runner!Meet, Runner!Overlap
  <1>4. Runner!BlameIsFair
    <2>1. SUFFICES ASSUME NEW r \in Runner!Run, Runner!Origin(r) \in {"business", "insufficient"}
                   PROVE  execution[r].origin # "infrastructure" /\ \A i \in DOMAIN judged[r] : judged[r][i] # "providerFailure"
      BY DEF Runner!BlameIsFair
    <2> DEFINE all == {execution[r].origin} \cup {Runner!JudgeOrigin(judged[r][i]) : i \in DOMAIN judged[r]}
    <2>2. Runner!Merged(all) \in {"business", "insufficient"}
      BY <2>1 DEF Runner!Origin
    <2>3. "infrastructure" \notin all
      <3>1. \A S : "infrastructure" \in S => Runner!Merged(S) = "infrastructure"
        BY DEF Runner!Merged
      <3>2. QED
        BY <2>2, <3>1
    <2>4. Runner!JudgeOrigin("providerFailure") = "infrastructure"
      BY DEF Runner!JudgeOrigin
    <2>5. QED
      BY <2>3, <2>4
  <1>5. QED
    BY <1>1, <1>2, <1>3, <1>4 DEF Runner!RunIsEarned

\* A run reports the success its verification, evidence and cleanup earned, leaves nothing alive
\* in a session it gives free, and works in no directory of another run.
THEOREM RunStaysEarned == Spec => []RunIsEarned
  <1> DEFINE Inv == picked = "runner" => RunnerInv
  <1>1. Init => Inv
    BY RunnerInit DEF Init
  <1>2. Inv /\ [Next]_allVars => Inv'
    BY OneIsPicked, RunnerStep
  <1>3. Inv => RunIsEarned
    BY RunnerHolds DEF RunIsEarned
  <1> HIDE DEF Inv
  <1>4. QED
    BY <1>1, <1>2, <1>3, PTL DEF Spec

HIDE DEF at, options, gate, told, submitted, barrier, claims, disk, alive, worker, acquired, execution, staged, judged,
        required, bundle
-----------------------------------------------------------------------------
(* BrowserObservations                                                     *)

observing == v1
bindings == v2
listeners == v3
requestIds == v4
nextRequestId == v5
ring == v6
batch == v7
shut == v9

USE DEF observing, bindings, listeners, requestIds, nextRequestId, ring, batch, seen, shut

BufferType == [entries : Seq(Observations!Observation), oldest : 0 .. BufferLimit - 1, dropped : Nat]
PageType ==
  /\ observing \subseteq Subscriber /\ bindings \in BOOLEAN
  /\ requestIds \in [PageRequest -> Nat] /\ nextRequestId \in Nat \ {0}
  /\ listeners \in [Observations!Event -> Nat]
  /\ ring \in [Subscriber -> BufferType]
  /\ batch = [s \in Subscriber |-> batch[s]]
  /\ seen \in [Subscriber -> Seq(Observations!Payload)]

\* Every event has the one listener while somebody observes, and none otherwise.
ListenersInv == \/ bindings = TRUE /\ \A e \in Observations!Event : listeners[e] = 1
                \/ bindings = FALSE /\ observing = {} /\ \A e \in Observations!Event : listeners[e] = 0

\* Identities are given once, and whatever was recorded with one has it.
Identified(p) == p.readable /\ p.request # Observations!NoRequest => requestIds[p.request] > 0
IdentityInv ==
  /\ \A q \in PageRequest : requestIds[q] < nextRequestId
  /\ \A q, r \in PageRequest : requestIds[q] > 0 /\ requestIds[q] = requestIds[r] => q = r
  /\ \A s \in Subscriber : \A i \in DOMAIN seen[s] : Identified(seen[s][i])

\* Where the i-th of the entries is, from the oldest on.
Turned(oldest, size, i) == IF oldest + i <= size THEN oldest + i ELSE oldest + i - size

\* A buffer holds the end of what was pushed, in the order that it will be drained in.
Keeps(b, pushed, ids) ==
  /\ Len(b.entries) = IF Len(pushed) < BufferLimit THEN Len(pushed) ELSE BufferLimit
  /\ b.dropped = Len(pushed) - Len(b.entries)
  /\ Len(b.entries) < BufferLimit => b.oldest = 0
  /\ \A i \in 1 .. Len(b.entries) :
       b.entries[Turned(b.oldest, Len(b.entries), i)] = Observations!Normalized(pushed[b.dropped + i], ids)
RingInv == \A s \in Subscriber : Keeps(ring[s], seen[s], requestIds)

\* A batch is what the buffer had when its subscriber stopped.
BatchInv == \A s \in Subscriber : batch[s] # <<>> => s \notin observing /\ batch[s] = Observations!Sealed(s)

ObservationInv == PageType /\ ListenersInv /\ IdentityInv /\ RingInv /\ BatchInv

LEMMA ObservationInit == Observations!Init => ObservationInv
  <1> SUFFICES ASSUME Observations!Init PROVE ObservationInv
    OBVIOUS
  <1>1. Observations!Empty \in BufferType
    BY ObservationAssumption DEF Observations!Empty, BufferType
  <1>2. PageType
    <2>1. ring \in [Subscriber -> BufferType] /\ seen \in [Subscriber -> Seq(Observations!Payload)]
      BY <1>1 DEF Observations!Init
    <2>2. listeners \in [Observations!Event -> Nat] /\ requestIds \in [PageRequest -> Nat]
      BY DEF Observations!Init
    <2>3. batch = [s \in Subscriber |-> batch[s]]
      BY DEF Observations!Init
    <2>4. nextRequestId \in Nat \ {0} /\ observing \subseteq Subscriber
      BY DEF Observations!Init
    <2>5. bindings \in BOOLEAN
      BY Zenon DEF Observations!Init
    <2>6. QED
      BY <2>1, <2>2, <2>3, <2>4, <2>5 DEF PageType
  <1>3. ListenersInv /\ IdentityInv /\ BatchInv
    BY DEF Observations!Init, ListenersInv, IdentityInv, BatchInv
  <1>4. RingInv
    BY ObservationAssumption DEF Observations!Init, RingInv, Keeps, Observations!Empty
  <1>5. QED
    BY <1>2, <1>3, <1>4 DEF ObservationInv

\* The one listener of an event pushes its observation once.
LEMMA PushedOnce == ASSUME NEW b, NEW o PROVE Observations!Pushed(b, o, 1) = Observations!Push(b, o)
  <1> DEFINE F(h) == h = [k \in 0 .. 1 |-> IF k = 0 THEN b ELSE Observations!Push(h[k - 1], o)]
             g == [k \in 0 .. 1 |-> IF k = 0 THEN b ELSE Observations!Push(b, o)]
             h == CHOOSE h : F(h)
  <1>1. F(g)
    <2>1. \A k \in 0 .. 1 : k = 0 \/ (k = 1 /\ g[k - 1] = b)
      OBVIOUS
    <2>2. QED
      BY <2>1
  <1>2. F(h)
    BY <1>1
  <1> HIDE DEF h
  <1>3. h[1] = Observations!Push(h[0], o) /\ h[0] = b
    BY <1>2
  <1>4. Observations!Pushed(b, o, 1) = h[1]
    BY DEF Observations!Pushed, h
  <1>5. QED
    BY <1>3, <1>4

\* What Push makes of a buffer that keeps what was pushed.
LEMMA RecordKeeps ==
  ASSUME NEW ids, NEW b \in BufferType, NEW pushed \in Seq(Observations!Payload), Keeps(b, pushed, ids), NEW p \in Observations!Payload,
         NEW o \in Observations!Observation, o = Observations!Normalized(p, ids)
  PROVE  Observations!Push(b, o) \in BufferType /\ Keeps(Observations!Push(b, o), Append(pushed, p), ids)
  <1> DEFINE c == Observations!Push(b, o)
             more == Append(pushed, p)
             e == b.entries
             k == b.oldest
             d == b.dropped
             n == Len(b.entries)
             m == Len(pushed)
             Told(i) == Observations!Normalized(more[i], ids)
  <1>1. /\ BufferLimit \in Nat /\ BufferLimit > 0 /\ e \in Seq(Observations!Observation) /\ k \in 0 .. BufferLimit - 1
        /\ d \in Nat /\ n \in Nat /\ n = Len(e) /\ m \in Nat /\ b = [entries |-> e, oldest |-> k, dropped |-> d]
    BY ObservationAssumption DEF BufferType
  <1>2. /\ n = IF m < BufferLimit THEN m ELSE BufferLimit
        /\ d = m - n /\ (n < BufferLimit => k = 0)
    BY DEF Keeps
  <1>3. Len(more) = m + 1 /\ more[m + 1] = p /\ \A i \in 1 .. m : more[i] = pushed[i]
    OBVIOUS
  <1>4. o \in Observations!Observation /\ o = Told(m + 1)
    BY <1>3
  <1>5. ASSUME NEW i \in 1 .. n PROVE e[Turned(k, n, i)] = Told(d + i)
    <2>1. e[Turned(k, n, i)] = Observations!Normalized(pushed[d + i], ids)
      BY DEF Keeps
    <2>2. d + i \in 1 .. m
      BY <1>1, <1>2
    <2>3. QED
      BY <1>3, <2>1, <2>2
  <1>6. ASSUME NEW f \in Seq(Observations!Observation), NEW j \in 0 .. BufferLimit - 1, NEW l \in Nat,
               c = [entries |-> f, oldest |-> j, dropped |-> l]
        PROVE  c \in BufferType
    BY <1>6 DEF BufferType
  <1>7. /\ n < BufferLimit => c = [entries |-> Append(e, o), oldest |-> k, dropped |-> d]
        /\ ~(n < BufferLimit) => c = [entries |-> [e EXCEPT ![k + 1] = o], oldest |-> (k + 1) % BufferLimit, dropped |-> d + 1]
    BY <1>1 DEF Observations!Push
  <1> SUFFICES c \in BufferType /\ Keeps(c, more, ids)
    OBVIOUS
  <1> HIDE DEF c, more, e, k, d, n, m, Told
  <1>8. ASSUME NEW f, NEW j, NEW l, c = [entries |-> f, oldest |-> j, dropped |-> l],
               Len(f) = IF m + 1 < BufferLimit THEN m + 1 ELSE BufferLimit,
               l = m + 1 - Len(f), Len(f) < BufferLimit => j = 0,
               \A i \in 1 .. Len(f) : f[Turned(j, Len(f), i)] = Told(l + i)
        PROVE  Keeps(c, more, ids)
    <2>1. c.entries = f /\ c.oldest = j /\ c.dropped = l
      BY <1>8
    <2>2. \A i \in 1 .. Len(f) : f[Turned(j, Len(f), i)] = Observations!Normalized(more[l + i], ids)
      BY <1>8 DEF Told
    <2>3. Len(f) = (IF Len(more) < BufferLimit THEN Len(more) ELSE BufferLimit) /\ l = Len(more) - Len(f)
      BY <1>1, <1>3, <1>8
    <2>4. QED
      BY <1>8, <2>1, <2>2, <2>3 DEF Keeps
  <1>9. CASE n < BufferLimit
    <2> DEFINE f == Append(e, o)
    <2>1. c = [entries |-> f, oldest |-> k, dropped |-> d] /\ k = 0 /\ d = 0 /\ m = n
      BY <1>1, <1>2, <1>7, <1>9
    <2>2. /\ f \in Seq(Observations!Observation) /\ Len(f) = n + 1
          /\ f[n + 1] = o /\ \A i \in 1 .. n : f[i] = e[i]
      BY <1>1, <1>4
    <2> HIDE DEF f
    <2>3. ASSUME NEW i \in 1 .. n + 1 PROVE f[Turned(k, n + 1, i)] = Told(d + i)
      <3>1. Turned(k, n + 1, i) = i /\ d + i = i
        BY <1>1, <2>1 DEF Turned
      <3>2. CASE i = n + 1
        BY <1>4, <2>1, <2>2, <3>1, <3>2
      <3>3. CASE i \in 1 .. n
        <4>1. e[Turned(k, n, i)] = Told(d + i) /\ Turned(k, n, i) = i
          BY <1>1, <1>5, <2>1, <3>3 DEF Turned
        <4>2. QED
          BY <2>2, <3>1, <3>3, <4>1
      <3>4. i = n + 1 \/ i \in 1 .. n
        BY <1>1
      <3>5. QED
        BY <3>2, <3>3, <3>4, Zenon
    <2>4. Keeps(c, more, ids)
      <3>1. /\ Len(f) = IF m + 1 < BufferLimit THEN m + 1 ELSE BufferLimit
            /\ d = m + 1 - Len(f)
        BY <1>1, <1>9, <2>1, <2>2
      <3>2. QED
        BY <1>8, <2>1, <2>2, <2>3, <3>1
    <2>5. QED
      BY <1>1, <1>6, <2>1, <2>2, <2>4
  <1>10. CASE ~(n < BufferLimit)
    <2> DEFINE f == [e EXCEPT ![k + 1] = o]
               j == (k + 1) % BufferLimit
    <2>1. n = BufferLimit /\ d = m - n /\ m >= n
      BY <1>1, <1>2, <1>10
    <2>2. j = IF k + 1 = BufferLimit THEN 0 ELSE k + 1
      BY <1>1
    <2>3. /\ f \in Seq(Observations!Observation) /\ Len(f) = n /\ f[k + 1] = o
          /\ \A i \in 1 .. n : i # k + 1 => f[i] = e[i]
      <3>1. k + 1 \in 1 .. n /\ n \in Nat /\ n = Len(e) /\ e \in Seq(Observations!Observation)
        BY <1>1, <2>1
      <3>2. QED
        BY <1>4, <3>1
    <2>4. c = [entries |-> f, oldest |-> j, dropped |-> d + 1]
      BY <1>7, <1>10
    <2> HIDE DEF f, j
    <2>5. ASSUME NEW i \in 1 .. n PROVE f[Turned(j, n, i)] = Told(d + 1 + i)
      <3>1. CASE i = n
        <4>1. Turned(j, n, i) = k + 1 /\ d + 1 + i = m + 1
          BY <1>1, <2>1, <2>2, <3>1 DEF Turned
        <4>2. QED
          BY <1>4, <2>3, <4>1
      <3>2. CASE i # n
        <4>1. /\ i + 1 \in 1 .. n /\ Turned(j, n, i) = Turned(k, n, i + 1)
              /\ Turned(k, n, i + 1) \in 1 .. n /\ Turned(k, n, i + 1) # k + 1
              /\ d + 1 + i = d + (i + 1)
          BY <1>1, <2>1, <2>2, <3>2 DEF Turned
        <4>2. e[Turned(k, n, i + 1)] = Told(d + (i + 1))
          BY <1>5, <4>1
        <4>3. QED
          BY <2>3, <4>1, <4>2
      <3>3. QED
        BY <3>1, <3>2
    <2>6. Keeps(c, more, ids)
      <3>1. Len(f) = IF m + 1 < BufferLimit THEN m + 1 ELSE BufferLimit
        BY <1>1, <2>1, <2>3
      <3>2. d + 1 = m + 1 - Len(f) /\ ~(Len(f) < BufferLimit)
        BY <1>1, <2>1, <2>3
      <3>3. QED
        BY <1>8, <2>3, <2>4, <2>5, <3>1, <3>2
    <2>7. QED
      <3>1. j \in 0 .. BufferLimit - 1 /\ d + 1 \in Nat
        BY <1>1, <2>2
      <3>2. QED
        BY <1>6, <2>3, <2>4, <2>6, <3>1
  <1>11. QED
    BY <1>9, <1>10

\* What the events and the requests are is all that the rest needs to know of them.
LEMMA BindingsAreEvents ==
  /\ Len(Observations!Bindings) = 6
  /\ \A e \in Observations!Event : \E i \in 1 .. 6 : Observations!Bindings[i] = e
  BY DEF Observations!Event, Observations!Bindings

\* A subscription that comes or goes leaves every event its listeners.
LEMMA ListenersKeep ==
  ASSUME PageType, ListenersInv,
         \/ \E n \in 0 .. Len(Observations!Bindings) :
              /\ Observations!AttachObservers(n)
              /\ \E s \in Subscriber : observing' = IF bindings' THEN observing \cup {s} ELSE observing
         \/ observing' \subseteq observing /\ Observations!DetachWhenUnobserved
  PROVE  ListenersInv' /\ bindings' \in BOOLEAN /\ listeners' \in [Observations!Event -> Nat]
  <1> DEFINE E == Observations!Event
  <1>1. listeners \in [E -> Nat] /\ bindings \in BOOLEAN
    BY DEF PageType
  <1>2. CASE observing' \subseteq observing /\ Observations!DetachWhenUnobserved
    <2>1. CASE bindings /\ observing' = {}
      <3>1. bindings = TRUE /\ \A e \in E : listeners[e] = 1
        BY <1>1, <2>1 DEF ListenersInv
      <3>2. bindings' = FALSE /\ listeners' = Observations!TakenOff(listeners, 6)
        BY <1>2, <2>1, BindingsAreEvents DEF Observations!DetachWhenUnobserved
      <3>3. listeners' = [e \in E |-> 0]
        BY <3>1, <3>2, BindingsAreEvents DEF Observations!TakenOff
      <3>4. ListenersInv'
        <4>1. observing' = {} /\ \A e \in E : listeners'[e] = 0
          BY <2>1, <3>3
        <4>2. QED
          BY <3>2, <4>1, Zenon DEF ListenersInv
      <3>5. bindings' \in BOOLEAN
        BY <3>2, Zenon
      <3>6. listeners' \in [Observations!Event -> Nat]
        BY <3>3
      <3>7. QED
        BY <3>4, <3>5, <3>6
    <2>2. CASE ~(bindings /\ observing' = {})
      <3>1. bindings' = bindings /\ listeners' = listeners
        BY <1>2, <2>2 DEF Observations!DetachWhenUnobserved
      <3>2. bindings = FALSE => observing' = {}
        BY <1>2 DEF ListenersInv
      <3>3. QED
        BY <1>1, <3>1, <3>2 DEF ListenersInv
    <2>3. QED
      BY <2>1, <2>2
  <1>3. ASSUME NEW n \in 0 .. Len(Observations!Bindings), Observations!AttachObservers(n), NEW s \in Subscriber,
               observing' = IF bindings' THEN observing \cup {s} ELSE observing
        PROVE  ListenersInv' /\ bindings' \in BOOLEAN /\ listeners' \in [E -> Nat]
    <2>1. CASE bindings
      <3>1. bindings' = bindings /\ listeners' = listeners /\ bindings = TRUE /\ \A e \in E : listeners[e] = 1
        BY <1>1, <1>3, <2>1 DEF Observations!AttachObservers, ListenersInv
      <3>2. QED
        BY <1>1, <3>1 DEF ListenersInv
    <2>2. CASE ~bindings
      <3>1. bindings = FALSE /\ observing = {} /\ \A e \in E : listeners[e] = 0
        BY <1>1, <2>2 DEF ListenersInv
      <3>2. CASE n = 6
        <4>1. bindings' = TRUE /\ listeners' = Observations!Registered(6)
          BY <1>3, <2>2, <3>2, BindingsAreEvents DEF Observations!AttachObservers
        <4>2. listeners' = [e \in E |-> 1]
          BY <3>1, <4>1, BindingsAreEvents DEF Observations!Registered
        <4>3. QED
          BY <4>1, <4>2 DEF ListenersInv
      <3>3. CASE n # 6
        <4>1. bindings' = FALSE /\ listeners' = Observations!TakenOff(Observations!Registered(n), n)
          BY <1>3, <2>2, <3>3, BindingsAreEvents DEF Observations!AttachObservers
        <4>2. Observations!Registered(n) = [e \in E |-> IF \E i \in 1 .. n : Observations!Bindings[i] = e THEN 1 ELSE 0]
          BY <3>1 DEF Observations!Registered
        <4>3. listeners' = [e \in E |-> 0]
          BY <4>1, <4>2 DEF Observations!TakenOff
        <4>4. observing' = {} /\ \A e \in E : listeners'[e] = 0
          BY <1>3, <3>1, <4>1, <4>3
        <4>5. ListenersInv'
          BY <4>1, <4>4, Zenon DEF ListenersInv
        <4>6. bindings' \in BOOLEAN
          BY <4>1, Zenon
        <4>7. listeners' \in [Observations!Event -> Nat]
          BY <4>3
        <4>8. QED
          BY <4>5, <4>6, <4>7
      <3>4. QED
        BY <3>2, <3>3
    <2>3. QED
      BY <2>1, <2>2
  <1>4. QED
    BY <1>2, <1>3

\* What is of the buffers stays as it is while nothing is emitted.
LEMMA BuffersKeep ==
  ASSUME ObservationInv, UNCHANGED <<requestIds, nextRequestId, ring, seen>>
  PROVE  IdentityInv' /\ RingInv' /\ \A s \in Subscriber : Observations!Sealed(s)' = Observations!Sealed(s)
  <1>1. IdentityInv'
    BY DEF ObservationInv, IdentityInv, Identified
  <1>2. RingInv'
    BY DEF ObservationInv, RingInv
  <1>3. QED
    BY <1>1, <1>2 DEF Observations!Sealed

LEMMA SubscribeKeepsIt == ASSUME ObservationInv, NEW s \in Subscriber, Observations!Observe(s) PROVE ObservationInv'
  <1>1. PICK n \in 0 .. Len(Observations!Bindings) : /\ Observations!AttachObservers(n)
                                                     /\ observing' = IF bindings' THEN observing \cup {s} ELSE observing
    BY DEF Observations!Observe
  <1>2. batch[s] = <<>> /\ UNCHANGED <<requestIds, nextRequestId, ring, batch, seen>>
    BY DEF Observations!Observe, Observations!identities
  <1>3. ListenersInv' /\ bindings' \in BOOLEAN /\ listeners' \in [Observations!Event -> Nat]
    BY <1>1, ListenersKeep DEF ObservationInv
  <1>4. IdentityInv' /\ RingInv' /\ \A t \in Subscriber : Observations!Sealed(t)' = Observations!Sealed(t)
    BY <1>2, BuffersKeep
  <1>5. BatchInv'
    BY <1>1, <1>2, <1>4 DEF ObservationInv, BatchInv
  <1>6. PageType'
    BY <1>1, <1>2, <1>3 DEF ObservationInv, PageType
  <1>7. QED
    BY <1>3, <1>4, <1>5, <1>6 DEF ObservationInv

\* Those who stop are told what their buffers hold.
LEMMA StoppingKeeps ==
  ASSUME ObservationInv, observing' \subseteq observing, Observations!DetachWhenUnobserved,
         UNCHANGED <<requestIds, nextRequestId, ring, seen>>,
         batch' = [t \in Subscriber |-> IF t \in observing \ observing' THEN Observations!Sealed(t) ELSE batch[t]]
  PROVE  ObservationInv'
  <1>1. ListenersInv' /\ bindings' \in BOOLEAN /\ listeners' \in [Observations!Event -> Nat]
    BY ListenersKeep DEF ObservationInv
  <1>2. IdentityInv' /\ RingInv' /\ \A t \in Subscriber : Observations!Sealed(t)' = Observations!Sealed(t)
    BY BuffersKeep
  <1>3. BatchInv'
    BY <1>2 DEF ObservationInv, BatchInv
  <1>4. PageType'
    BY <1>1 DEF ObservationInv, PageType
  <1>5. QED
    BY <1>1, <1>2, <1>3, <1>4 DEF ObservationInv

LEMMA StopOneKeepsIt == ASSUME ObservationInv, NEW s \in Subscriber, Observations!Stop(s) PROVE ObservationInv'
  <1>1. /\ s \in observing /\ observing' = observing \ {s} /\ UNCHANGED <<requestIds, nextRequestId, ring, seen>>
        /\ Observations!DetachWhenUnobserved /\ batch' = [batch EXCEPT ![s] = Observations!Sealed(s)]
    BY DEF Observations!Stop, Observations!identities
  <1>2. batch' = [t \in Subscriber |-> IF t \in observing \ observing' THEN Observations!Sealed(t) ELSE batch[t]]
    BY <1>1 DEF ObservationInv, PageType
  <1>3. QED
    BY <1>1, <1>2, StoppingKeeps

LEMMA StopAllKeepsIt == ASSUME ObservationInv, Observations!StopAll PROVE ObservationInv'
  <1>1. /\ observing' = {} /\ UNCHANGED <<requestIds, nextRequestId, ring, seen>> /\ Observations!DetachWhenUnobserved
        /\ batch' = [t \in Subscriber |-> IF t \in observing THEN Observations!Sealed(t) ELSE batch[t]]
    BY DEF Observations!StopAll, Observations!identities
  <1>2. QED
    BY <1>1, StoppingKeeps

\* What is recorded of an event is an observation.
LEMMA NormalizedIsOne ==
  ASSUME NEW p \in Observations!Payload, NEW ids \in [PageRequest -> Nat]
  PROVE  Observations!Normalized(p, ids) \in Observations!Observation /\ p.event \in Observations!Event
  <1>1. p.event \in Observations!Event
    BY DEF Observations!Payload, Observations!OfRequest, Observations!Event, Observations!Bindings
  <1>2. p.request = Observations!NoRequest \/ p.request \in PageRequest
    BY DEF Observations!Payload
  <1>3. (IF p.readable /\ p.request # Observations!NoRequest THEN ids[p.request] ELSE 0) \in Nat
    BY <1>2
  <1>4. (IF p.readable THEN p.event ELSE "failure") \in Observations!Event \cup {"failure"}
    BY <1>1
  <1>5. QED
    BY <1>1, <1>3, <1>4 DEF Observations!Normalized, Observations!Observation

\* What an emitted event makes of the identities.
LEMMA IdentitiesKeep ==
  ASSUME ObservationInv, NEW p \in Observations!Payload, Observations!Binding(p)
  PROVE  /\ requestIds' \in [PageRequest -> Nat] /\ nextRequestId' \in Nat \ {0}
         /\ \A q \in PageRequest : requestIds[q] > 0 => requestIds'[q] = requestIds[q]
         /\ \A q \in PageRequest : requestIds'[q] < nextRequestId'
         /\ \A q, r \in PageRequest : requestIds'[q] > 0 /\ requestIds'[q] = requestIds'[r] => q = r
         /\ p.readable /\ p.request # Observations!NoRequest => requestIds'[p.request] > 0
         /\ Observations!Normalized(p, requestIds') \in Observations!Observation
  <1>1. /\ requestIds \in [PageRequest -> Nat] /\ nextRequestId \in Nat \ {0}
        /\ \A q \in PageRequest : requestIds[q] < nextRequestId
        /\ \A q, r \in PageRequest : requestIds[q] > 0 /\ requestIds[q] = requestIds[r] => q = r
    BY DEF ObservationInv, PageType, IdentityInv
  <1>2. p.request = Observations!NoRequest \/ p.request \in PageRequest
    BY DEF Observations!Payload
  <1>3. ASSUME NEW q \in PageRequest, Observations!IdentifyRequest(q)
        PROVE  /\ requestIds' \in [PageRequest -> Nat] /\ nextRequestId' \in Nat \ {0} /\ requestIds'[q] > 0
               /\ \A r \in PageRequest : requestIds[r] > 0 => requestIds'[r] = requestIds[r]
               /\ \A r \in PageRequest : requestIds'[r] < nextRequestId'
               /\ \A r, t \in PageRequest : requestIds'[r] > 0 /\ requestIds'[r] = requestIds'[t] => r = t
    <2>1. CASE requestIds[q] > 0
      <3>1. requestIds' = requestIds /\ nextRequestId' = nextRequestId
        BY <1>3, <2>1 DEF Observations!IdentifyRequest, Observations!Known, Observations!identities
      <3>2. QED
        BY <1>1, <2>1, <3>1
    <2>2. CASE ~(requestIds[q] > 0)
      <3>1. requestIds' = [requestIds EXCEPT ![q] = nextRequestId] /\ nextRequestId' = nextRequestId + 1
        BY <1>3, <2>2 DEF Observations!IdentifyRequest, Observations!Known, Observations!identities
      <3>2. requestIds' \in [PageRequest -> Nat] /\ nextRequestId' \in Nat \ {0}
        BY <1>1, <3>1
      <3>3. requestIds'[q] = nextRequestId /\ \A r \in PageRequest : r # q => requestIds'[r] = requestIds[r]
        BY <1>1, <3>1
      <3>4. QED
        BY <1>1, <2>2, <3>1, <3>2, <3>3
    <2>3. QED
      BY <2>1, <2>2
  <1>4. CASE p.request \in PageRequest /\ Observations!IdentifyRequest(p.request)
    <2>1. Observations!Normalized(p, requestIds') \in Observations!Observation
      BY <1>3, <1>4, NormalizedIsOne
    <2>2. QED
      BY <1>3, <1>4, <2>1
  <1>5. CASE (p.request = Observations!NoRequest \/ ~p.readable) /\ UNCHANGED Observations!identities
    <2>1. requestIds' = requestIds /\ nextRequestId' = nextRequestId
      BY <1>5 DEF Observations!identities
    <2>2. Observations!Normalized(p, requestIds') \in Observations!Observation
      BY <1>1, <2>1, NormalizedIsOne
    <2>3. QED
      BY <1>1, <1>5, <2>1, <2>2
  <1>6. QED
    BY <1>2, <1>4, <1>5 DEF Observations!Binding

LEMMA EmitKeepsIt == ASSUME ObservationInv, NEW p \in Observations!Payload, Observations!Emit(p) PROVE ObservationInv'
  <1> DEFINE o == Observations!Normalized(p, requestIds')
  <1>1. /\ observing # {} /\ Observations!Binding(p) /\ UNCHANGED <<observing, bindings, listeners, batch>>
        /\ ring' = [s \in Subscriber |->
                      IF s \in observing THEN Observations!Pushed(ring[s], o, listeners[p.event]) ELSE ring[s]]
        /\ seen' = [s \in Subscriber |-> IF s \in observing THEN Append(seen[s], p) ELSE seen[s]]
    BY DEF Observations!Emit
  <1>2. PageType /\ ListenersInv /\ IdentityInv /\ RingInv /\ BatchInv
    BY DEF ObservationInv
  <1>3. /\ requestIds' \in [PageRequest -> Nat] /\ nextRequestId' \in Nat \ {0}
        /\ \A q \in PageRequest : requestIds[q] > 0 => requestIds'[q] = requestIds[q]
        /\ \A q \in PageRequest : requestIds'[q] < nextRequestId'
        /\ \A q, r \in PageRequest : requestIds'[q] > 0 /\ requestIds'[q] = requestIds'[r] => q = r
        /\ p.readable /\ p.request # Observations!NoRequest => requestIds'[p.request] > 0
        /\ o \in Observations!Observation
    BY <1>1, IdentitiesKeep
  <1>4. listeners[p.event] = 1
    <2>1. p.event \in Observations!Event
      BY <1>3, NormalizedIsOne
    <2>2. QED
      BY <1>1, <1>2, <2>1 DEF ListenersInv
  <1>5. \A s \in Subscriber : s \in observing => ring'[s] = Observations!Push(ring[s], o) /\ seen'[s] = Append(seen[s], p)
    BY <1>1, <1>4, PushedOnce
  <1>6. \A s \in Subscriber : s \notin observing => ring'[s] = ring[s] /\ seen'[s] = seen[s]
    BY <1>1
  <1> HIDE DEF o
  <1>7. ASSUME NEW s \in Subscriber
        PROVE  /\ Keeps(ring[s], seen[s], requestIds') /\ ring[s] \in BufferType /\ seen[s] \in Seq(Observations!Payload)
               /\ \A i \in DOMAIN seen[s] : Identified(seen[s][i])
    <2>1. /\ Keeps(ring[s], seen[s], requestIds) /\ ring[s] \in BufferType /\ seen[s] \in Seq(Observations!Payload)
          /\ \A i \in DOMAIN seen[s] : Identified(seen[s][i])
      BY <1>2 DEF PageType, RingInv, IdentityInv
    <2>2. \A i \in DOMAIN seen[s] :
            Observations!Normalized(seen[s][i], requestIds') = Observations!Normalized(seen[s][i], requestIds)
      <3> SUFFICES ASSUME NEW i \in DOMAIN seen[s]
                   PROVE  Observations!Normalized(seen[s][i], requestIds') = Observations!Normalized(seen[s][i], requestIds)
        OBVIOUS
      <3> DEFINE q == seen[s][i]
      <3>1. q \in Observations!Payload /\ Identified(q)
        BY <2>1
      <3> HIDE DEF q
      <3>2. q.request = Observations!NoRequest \/ q.request \in PageRequest
        BY <3>1 DEF Observations!Payload
      <3>3. q.readable /\ q.request # Observations!NoRequest => requestIds'[q.request] = requestIds[q.request]
        BY <1>3, <3>1, <3>2 DEF Identified
      <3>4. Observations!Normalized(q, requestIds') = Observations!Normalized(q, requestIds)
        BY <3>3 DEF Observations!Normalized
      <3>5. QED
        BY <3>4 DEF q
    <2>3. \A i \in 1 .. Len(ring[s].entries) : ring[s].dropped + i \in DOMAIN seen[s]
      BY <2>1 DEF Keeps, BufferType
    <2>4. Keeps(ring[s], seen[s], requestIds')
      BY <2>1, <2>2, <2>3 DEF Keeps
    <2>5. QED
      BY <2>1, <2>4
  <1>8. ASSUME NEW s \in Subscriber
        PROVE  /\ ring'[s] \in BufferType /\ seen'[s] \in Seq(Observations!Payload)
               /\ Keeps(ring'[s], seen'[s], requestIds')
    <2>1. CASE s \in observing
      <3> DEFINE ids == requestIds'
      <3>1. ring'[s] = Observations!Push(ring[s], o) /\ seen'[s] = Append(seen[s], p) /\ o = Observations!Normalized(p, ids)
        BY <1>5, <2>1 DEF o
      <3>2. Keeps(ring[s], seen[s], ids) /\ ring[s] \in BufferType /\ seen[s] \in Seq(Observations!Payload)
        BY <1>7
      <3> HIDE DEF ids
      <3>3. Observations!Push(ring[s], o) \in BufferType /\ Keeps(Observations!Push(ring[s], o), Append(seen[s], p), ids)
        BY <1>3, <3>1, <3>2, RecordKeeps
      <3>4. QED
        BY <3>1, <3>2, <3>3 DEF ids
    <2>2. CASE s \notin observing
      BY <1>6, <1>7, <2>2
    <2>3. QED
      BY <2>1, <2>2
  <1>9. \A s \in Subscriber : \A i \in DOMAIN seen'[s] :
          seen'[s][i].readable /\ seen'[s][i].request # Observations!NoRequest => requestIds'[seen'[s][i].request] > 0
    <2> SUFFICES ASSUME NEW s \in Subscriber, NEW i \in DOMAIN seen'[s],
                        seen'[s][i].readable, seen'[s][i].request # Observations!NoRequest
                 PROVE  requestIds'[seen'[s][i].request] > 0
      OBVIOUS
    <2>1. (i \in DOMAIN seen[s] /\ seen'[s][i] = seen[s][i]) \/ seen'[s][i] = p
      BY <1>5, <1>6, <1>7
    <2>2. CASE i \in DOMAIN seen[s] /\ seen'[s][i] = seen[s][i]
      <3>1. seen[s][i] \in Observations!Payload /\ Identified(seen[s][i])
        BY <1>7, <2>2
      <3>2. seen[s][i].request \in PageRequest
        BY <2>2, <3>1 DEF Observations!Payload
      <3>3. QED
        BY <1>2, <1>3, <2>2, <3>1, <3>2 DEF Identified, PageType
    <2>3. QED
      BY <1>3, <2>1, <2>2
  <1>10. IdentityInv'
    BY <1>3, <1>9 DEF IdentityInv, Identified
  <1>11. RingInv'
    BY <1>8 DEF RingInv
  <1>12. ListenersInv'
    BY <1>1, <1>2 DEF ListenersInv
  <1>13. BatchInv'
    BY <1>1, <1>2, <1>6 DEF BatchInv, Observations!Sealed
  <1>14. PageType'
    <2>1. ring' \in [Subscriber -> BufferType] /\ seen' \in [Subscriber -> Seq(Observations!Payload)]
      BY <1>1, <1>8
    <2>2. QED
      BY <1>1, <1>2, <1>3, <2>1 DEF PageType
  <1>15. QED
    BY <1>10, <1>11, <1>12, <1>13, <1>14 DEF ObservationInv

LEMMA ObservationStep ==
  ASSUME ObservationInv, [Observations!Next]_(Observations!observationVars) PROVE ObservationInv'
  <1>1. ASSUME UNCHANGED Observations!observationVars PROVE ObservationInv'
    <2>1. UNCHANGED <<observing, bindings, listeners, requestIds, nextRequestId, ring, batch, seen>>
      BY <1>1 DEF Observations!observationVars, Observations!identities
    <2>2. IdentityInv' /\ RingInv' /\ \A s \in Subscriber : Observations!Sealed(s)' = Observations!Sealed(s)
      BY <2>1, BuffersKeep
    <2>3. ListenersInv' /\ BatchInv'
      BY <2>1, <2>2 DEF ObservationInv, ListenersInv, BatchInv
    <2>4. PageType'
      BY <2>1 DEF ObservationInv, PageType
    <2>5. QED
      BY <2>2, <2>3, <2>4 DEF ObservationInv
  <1>2. CASE Observations!Next
    BY <1>2, SubscribeKeepsIt, StopOneKeepsIt, StopAllKeepsIt, EmitKeepsIt DEF Observations!Next
  <1>3. QED
    BY <1>1, <1>2

\* A drained buffer is its entries from the oldest on.
LEMMA DrainTurns ==
  ASSUME NEW b \in BufferType, Len(b.entries) < BufferLimit => b.oldest = 0, Len(b.entries) <= BufferLimit
  PROVE  /\ Len(Observations!Drain(b)) = Len(b.entries)
         /\ \A i \in 1 .. Len(b.entries) :
              Observations!Drain(b)[i] = b.entries[Turned(b.oldest, Len(b.entries), i)]
  <1> DEFINE e == b.entries
             k == b.oldest
             n == Len(b.entries)
             x == SubSeq(e, k + 1, n)
             y == SubSeq(e, 1, k)
  <1>1. BufferLimit \in Nat \ {0} /\ e \in Seq(Observations!Observation) /\ k \in 0 .. BufferLimit - 1
        /\ n \in Nat /\ n = Len(e) /\ (n < BufferLimit => k = 0) /\ n <= BufferLimit
    BY ObservationAssumption DEF BufferType
  <1>2. Observations!Drain(b) = x \o y
    BY DEF Observations!Drain
  <1> SUFFICES Len(x \o y) = n /\ \A i \in 1 .. n : (x \o y)[i] = e[Turned(k, n, i)]
    BY <1>2
  <1> HIDE DEF e, k, n
  <1>3. k <= n
    BY <1>1
  <1>4. /\ x \in Seq(Observations!Observation) /\ Len(x) = n - k
        /\ \A i \in 1 .. n - k : x[i] = e[k + i]
    BY <1>1, <1>3
  <1>5. y \in Seq(Observations!Observation) /\ Len(y) = k /\ \A i \in 1 .. k : y[i] = e[i]
    BY <1>1, <1>3
  <1> HIDE DEF x, y
  <1>6. Len(x \o y) = n
    <2>1. Len(x \o y) = Len(x) + Len(y)
      BY <1>4, <1>5
    <2>2. QED
      BY <1>1, <1>4, <1>5, <2>1
  <1>7. ASSUME NEW i \in 1 .. n PROVE (x \o y)[i] = e[Turned(k, n, i)]
    <2>1. CASE i <= n - k
      <3>1. (x \o y)[i] = x[i] /\ i \in 1 .. n - k
        BY <1>1, <1>3, <1>4, <1>5, <2>1
      <3>2. Turned(k, n, i) = k + i
        BY <1>1, <1>3, <2>1 DEF Turned
      <3>3. QED
        BY <1>4, <3>1, <3>2
    <2>2. CASE ~(i <= n - k)
      <3>1. (x \o y)[i] = y[i - (n - k)] /\ i - (n - k) \in 1 .. k
        BY <1>1, <1>3, <1>4, <1>5, <2>2
      <3>2. Turned(k, n, i) = i - (n - k)
        BY <1>1, <1>3, <2>2 DEF Turned
      <3>3. QED
        BY <1>5, <3>1, <3>2
    <2>3. QED
      BY <2>1, <2>2
  <1>8. QED
    BY <1>6, <1>7

LEMMA ObservationHolds == ObservationInv => Observations!BatchIsWhole
  <1> SUFFICES ASSUME ObservationInv PROVE Observations!BatchIsWhole
    OBVIOUS
  <1>1. \A q, r \in Observations!Known : requestIds[q] = requestIds[r] => q = r
    BY DEF ObservationInv, IdentityInv, Observations!Known
  <1>2. ASSUME NEW s \in Subscriber, batch[s] # <<>>
        PROVE  LET drained == batch[s].observations
                   before == Len(seen[s]) - Len(drained)
               IN /\ Len(drained) = IF Len(seen[s]) < BufferLimit THEN Len(seen[s]) ELSE BufferLimit
                  /\ batch[s].dropped = before
                  /\ \A i \in DOMAIN drained : drained[i] = Observations!Normalized(seen[s][before + i], requestIds)
    <2> DEFINE b == ring[s]
               drained == Observations!Drain(b)
    <2>1. b \in BufferType /\ Keeps(b, seen[s], requestIds) /\ seen[s] \in Seq(Observations!Payload)
      BY DEF ObservationInv, PageType, RingInv
    <2>2. batch[s].observations = drained /\ batch[s].dropped = b.dropped
      <3>1. batch[s] = Observations!Sealed(s)
        BY <1>2 DEF ObservationInv, BatchInv
      <3>2. QED
        BY <3>1 DEF Observations!Sealed
    <2> HIDE DEF b
    <2>3. Len(b.entries) \in Nat /\ b.dropped \in Nat /\ Len(seen[s]) \in Nat /\ BufferLimit \in Nat
      BY <2>1, ObservationAssumption DEF BufferType
    <2>4. /\ Len(drained) = Len(b.entries)
          /\ \A i \in 1 .. Len(b.entries) : drained[i] = b.entries[Turned(b.oldest, Len(b.entries), i)]
      <3>1. (Len(b.entries) < BufferLimit => b.oldest = 0) /\ Len(b.entries) <= BufferLimit
        BY <2>1, <2>3 DEF Keeps
      <3>2. QED
        BY <2>1, <3>1, DrainTurns
    <2>5. DOMAIN drained = 1 .. Len(b.entries)
      BY <2>1, <2>4 DEF Observations!Drain, BufferType
    <2>6. \A i \in 1 .. Len(b.entries) : drained[i] = Observations!Normalized(seen[s][b.dropped + i], requestIds)
      BY <2>1, <2>4 DEF Keeps
    <2>7. Len(drained) = (IF Len(seen[s]) < BufferLimit THEN Len(seen[s]) ELSE BufferLimit)
          /\ b.dropped = Len(seen[s]) - Len(drained)
      BY <2>1, <2>4 DEF Keeps
    <2> HIDE DEF drained
    <2>8. QED
      BY <2>2, <2>5, <2>6, <2>7
  <1>3. QED
    BY <1>1, <1>2 DEF Observations!BatchIsWhole

\* A stopped subscription has the end of what was emitted while it observed, each event
\* once, in order and under the id of its request, and the rest counted as dropped.
THEOREM BatchStaysWhole == Spec => []BatchIsWhole
  <1> DEFINE Inv == picked = "observations" => ObservationInv
  <1>1. Init => Inv
    BY ObservationInit DEF Init
  <1>2. Inv /\ [Next]_allVars => Inv'
    BY OneIsPicked, ObservationStep
  <1>3. Inv => BatchIsWhole
    BY ObservationHolds DEF BatchIsWhole
  <1> HIDE DEF Inv
  <1>4. QED
    BY <1>1, <1>2, <1>3, PTL DEF Spec

HIDE DEF observing, bindings, listeners, requestIds, nextRequestId, ring, batch, seen, shut
=============================================================================
