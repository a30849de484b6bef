-------------------------- MODULE CommandExecutor --------------------------
(***************************************************************************)
(* packages/service CommandExecutor: the life of one registered command,   *)
(* from execute to the receipt the run service decides about a workspace   *)
(* with.  One run id; a retry of execute shares the promise.  The process, *)
(* its descendants and its pipes are the world: the code sees them through *)
(* events that come late, in any order, or never.                          *)
(***************************************************************************)
EXTENDS Naturals

CONSTANTS Passed, Failed,  \* a command's exit code allowlists
          Code,            \* exit codes; a signalled process has none of them
          MaxBytes,        \* what a process writes to a pipe, at most
          None

Exit == {"exited", "not-spawned", "unconfirmed"}
Classification == {"passed", "business_failed", "command_cancelled", "deadline_exceeded",
  "command_stream_failed", "spawn_failed", "command_signalled", "command_exit_unclassified",
  "process_exit_unconfirmed", "cleanup_unconfirmed", "command_not_registered", "command_policy_rejected"}
Cleanup == {"confirmed", "unconfirmed", "not-required"}
Trigger == {"natural", "abort", "deadline", "infrastructure"}
Result == [class : Classification, cleanup : Cleanup]

VARIABLES pc,        \* where #run is
          signal,    \* the combined abort signal
          late,      \* the absolute deadline has passed
          proc,      \* the direct child: none, unstarted, alive, dead
          code,      \* how it ended
          kin,       \* a descendant is alive, and holds the pipes
          written,   \* bytes in each pipe so far
          exit,      \* the observer's write-once exit receipt
          spawned,   \* the spawn event was observed
          failure,   \* the observer's failure
          out,       \* the two BoundedOutputs
          trigger,   \* the first event
          contained, \* the tree controller returned a valid handle
          tree,      \* the process-tree receipt
          result

Stream == {"stdout", "stderr"}
world == <<proc, code, kin, written>>
observer == <<exit, spawned, failure, out>>
run == <<trigger, contained, tree>>
vars == <<pc, signal, late, world, observer, run, result>>

TypeOK ==
  /\ pc \in {"idle", "resolving", "running", "term", "grace", "kill", "force", "tree", "drain", "done"}
  /\ signal \in BOOLEAN /\ late \in BOOLEAN /\ kin \in BOOLEAN
  /\ spawned \in BOOLEAN /\ failure \in BOOLEAN /\ contained \in BOOLEAN
  /\ proc \in {"none", "unstarted", "alive", "dead"} /\ code \in Code \cup {None}
  /\ written \in [Stream -> 0 .. MaxBytes]
  /\ exit \in Exit \cup {None}
  /\ out \in [Stream -> [seen : 0 .. MaxBytes, over : BOOLEAN]]
  /\ trigger \in Trigger \cup {None}
  /\ tree \in Cleanup \cup {None}
  /\ result \in Result \cup {None}

Init == /\ pc = "idle" /\ signal \in BOOLEAN /\ late = FALSE
        /\ proc = "none" /\ code = None /\ kin = FALSE /\ written = [s \in Stream |-> 0]
        /\ exit = None /\ spawned = FALSE /\ failure = FALSE
        /\ out = [s \in Stream |-> [seen |-> 0, over |-> FALSE]]
        /\ trigger = None /\ contained = FALSE /\ tree = None /\ result = None
-----------------------------------------------------------------------------
(* The result                                                              *)

StdioTerminal == \A s \in Stream : out[s].over

\* Mutant: a stream that is still open does not matter.
ProcessCleanup_NoStreams ==
  CASE exit = "not-spawned" -> "not-required"
    [] exit = "exited" /\ tree = "confirmed" -> "confirmed"
    [] OTHER -> "unconfirmed"

ProcessCleanup ==
  CASE exit = "not-spawned" -> "not-required"
    [] exit = "exited" /\ StdioTerminal /\ tree = "confirmed" -> "confirmed"
    [] OTHER -> "unconfirmed"

\* finishForEvent and finishLaunchFailure.
Classified ==
  CASE ~contained -> "spawn_failed"
    [] contained /\ trigger = "natural" /\ failure -> "command_stream_failed"
    [] contained /\ trigger = "abort" -> "command_cancelled"
    [] contained /\ trigger = "deadline" -> "deadline_exceeded"
    [] contained /\ trigger = "infrastructure" ->
         IF exit = "not-spawned" THEN "spawn_failed" ELSE "command_stream_failed"
    [] contained /\ trigger = "natural" /\ ~failure ->
         CASE exit # "exited" -> "process_exit_unconfirmed"
           [] exit = "exited" /\ code = None -> "command_signalled"
           [] exit = "exited" /\ code \in Passed -> "passed"
           [] exit = "exited" /\ code \in Failed -> "business_failed"
           [] exit = "exited" /\ code \in Code \ (Passed \cup Failed) -> "command_exit_unclassified"

\* finish: a verdict of the command needs a confirmed cleanup.
Finished == [class |-> IF ProcessCleanup = "unconfirmed" /\ Classified \in {"passed", "business_failed"}
                       THEN "cleanup_unconfirmed" ELSE Classified,
             cleanup |-> ProcessCleanup]

Settle(r) == /\ pc' = "done"
             /\ result' = r

Unspawned(class) == Settle([class |-> class, cleanup |-> "not-required"])
-----------------------------------------------------------------------------
(* execute and #run, from await to await                                   *)

Execute(registered) ==
  /\ pc = "idle"
  /\ \/ ~registered /\ Unspawned("command_not_registered")
     \/ registered /\ signal /\ Unspawned("command_cancelled")
     \/ registered /\ ~signal /\ pc' = "resolving" /\ result' = result
  /\ UNCHANGED <<signal, late, world, observer, run>>

\* The cwd or the environment is rejected, or it is too late to spawn.
NotLaunched(allowed) ==
  /\ pc = "resolving"
  /\ \/ ~allowed /\ Unspawned("command_policy_rejected")
     \/ allowed /\ signal /\ Unspawned("command_cancelled")
     \/ allowed /\ ~signal /\ late /\ Unspawned("deadline_exceeded")
     \/ allowed /\ ~signal /\ ~late /\ Unspawned("spawn_failed")  \* spawn throws
  /\ UNCHANGED <<signal, late, world, observer, run>>

\* launchOwnedProcess: spawn was called; the controller may throw after it, or
\* return something else than a handle and the child it was given.
Launch(started, handle) ==
  /\ pc = "resolving" /\ ~signal /\ ~late
  /\ proc' = IF started THEN "alive" ELSE "unstarted"
  /\ contained' = handle
  /\ pc' = IF handle THEN "running" ELSE "term"
  /\ UNCHANGED <<signal, late, code, kin, written, observer, trigger, tree, result>>

\* waitForFirstEvent: which event the race may have been decided by.
FirstEvent(t) ==
  \/ t = "natural" /\ exit # None /\ ~signal /\ ~late
  \/ t = "infrastructure" /\ failure
  \/ t = "abort" /\ signal
  \/ t = "deadline" /\ late

Decide(t) == /\ pc = "running"
             /\ FirstEvent(t)
             /\ trigger' = t
             /\ pc' = IF t = "natural" THEN "tree" ELSE "term"
             /\ UNCHANGED <<signal, late, world, observer, contained, tree, result>>

\* attemptSignal, twice; a kill that fails emits the error event, which before
\* the spawn event is read as a process that was not spawned.
Signalled(outcome) ==
  /\ pc \in {"term", "kill"}
  /\ outcome \in {"accepted", "error"} => exit = None /\ proc = "alive"
  /\ failure' = (failure \/ outcome = "error")
  /\ exit' = IF outcome = "error" /\ ~spawned THEN "not-spawned" ELSE exit
  /\ pc' = IF pc = "term" THEN "grace" ELSE "force"
  /\ UNCHANGED <<signal, late, world, spawned, out, run, result>>

\* A failed launch has no handle to clean up with.
AfterTermination == IF contained THEN "tree" ELSE "drain"

\* waitBounded on the exit promise: the exit, or the end of the grace.
GraceOver == /\ pc = "grace"
             /\ pc' = IF exit = None THEN "kill" ELSE AfterTermination
             /\ UNCHANGED <<signal, late, world, observer, run, result>>

ForceOver == /\ pc = "force"
             /\ exit' = IF exit = None THEN "unconfirmed" ELSE exit
             /\ pc' = AfterTermination
             /\ UNCHANGED <<signal, late, world, spawned, failure, out, run, result>>

\* cleanupProcessTree, within its deadline.  A controller confirms only what it
\* knows: no owned descendant remains.
CleanTree(outcome) ==
  /\ pc = "tree"
  /\ tree' = outcome
  /\ kin' = (kin /\ outcome # "confirmed")
  /\ pc' = "drain"
  /\ UNCHANGED <<signal, late, proc, code, written, observer, trigger, contained, result>>

\* Mutant: without a time limit on the streams.
Finish_Unbounded == /\ pc = "drain"
                    /\ StdioTerminal
                    /\ Settle(Finished)
                    /\ UNCHANGED <<signal, late, world, observer, run>>

\* The streams have ended or their wait is over.
Finish == /\ pc = "drain"
          /\ Settle(Finished)
          /\ UNCHANGED <<signal, late, world, observer, run>>
-----------------------------------------------------------------------------
(* The caller and the clock                                                *)

\* The caller's signal, cancel, or cleanup of a known run.
Abort == /\ ~signal
         /\ signal' = TRUE
         /\ UNCHANGED <<pc, late, world, observer, run, result>>

Expire == /\ ~late
          /\ pc \notin {"idle", "done"}
          /\ late' = TRUE
          /\ UNCHANGED <<pc, signal, world, observer, run, result>>
-----------------------------------------------------------------------------
(* The process and what the observer hears of it                           *)

Launched == proc # "none"

Fork == /\ proc = "alive" /\ ~kin
        /\ kin' = TRUE
        /\ UNCHANGED <<pc, signal, late, proc, code, written, observer, run, result>>

Die(c) == /\ proc = "alive"
          /\ proc' = "dead"
          /\ code' = c
          /\ UNCHANGED <<pc, signal, late, kin, written, observer, run, result>>

OrphansDie == /\ kin
              /\ kin' = FALSE
              /\ UNCHANGED <<pc, signal, late, proc, code, written, observer, run, result>>

WriteOut(s) == /\ proc = "alive" \/ kin
               /\ written[s] < MaxBytes
               /\ written' = [written EXCEPT ![s] = @ + 1]
               /\ UNCHANGED <<pc, signal, late, proc, code, kin, observer, run, result>>

SpawnObserved == /\ proc \in {"alive", "dead"} /\ ~spawned
                 /\ spawned' = TRUE
                 /\ UNCHANGED <<pc, signal, late, world, exit, failure, out, run, result>>

\* The error event of a child that could not be started.
SpawnError == /\ proc = "unstarted" /\ ~failure
              /\ failure' = TRUE
              /\ exit' = IF exit = None THEN "not-spawned" ELSE exit
              /\ UNCHANGED <<pc, signal, late, world, spawned, out, run, result>>

ExitObserved == /\ proc = "dead" /\ exit = None
                /\ exit' = "exited"
                /\ UNCHANGED <<pc, signal, late, world, spawned, failure, out, run, result>>

\* BoundedOutput.push; what it does not retain it still counts.
Data(s) ==
  /\ ~out[s].over /\ out[s].seen < written[s]
  /\ out' = [out EXCEPT ![s].seen = @ + 1]
  /\ UNCHANGED <<pc, signal, late, world, exit, spawned, failure, run, result>>

\* A pipe ends when nobody holds it and everything was read.
StreamEnds(s) == /\ Launched
                 /\ ~out[s].over
                 /\ proc # "alive" /\ ~kin /\ out[s].seen = written[s]
                 /\ out' = [out EXCEPT ![s].over = TRUE]
                 /\ UNCHANGED <<pc, signal, late, world, exit, spawned, failure, run, result>>

\* Mutant: a stream's error is not a failure of the run.
StreamFails_Quietly(s) ==
  /\ Launched
  /\ ~out[s].over
  /\ out' = [out EXCEPT ![s].over = TRUE]
  /\ UNCHANGED <<pc, signal, late, world, exit, spawned, failure, run, result>>

StreamFails(s) == /\ Launched
                  /\ ~out[s].over
                  /\ out' = [out EXCEPT ![s].over = TRUE]
                  /\ failure' = TRUE
                  /\ UNCHANGED <<pc, signal, late, world, exit, spawned, run, result>>
-----------------------------------------------------------------------------
Run == \/ \E registered \in BOOLEAN : Execute(registered)
       \/ \E allowed \in BOOLEAN : NotLaunched(allowed)
       \/ \E started, handle \in BOOLEAN : Launch(started, handle)
       \/ \E t \in Trigger : Decide(t)
       \/ \E outcome \in {"accepted", "refused", "error"} : Signalled(outcome)
       \/ GraceOver \/ ForceOver
       \/ \E outcome \in Cleanup : CleanTree(outcome)
       \/ Finish

World == \/ Fork \/ OrphansDie \/ SpawnObserved \/ SpawnError \/ ExitObserved
         \/ \E c \in Code \cup {None} : Die(c)
         \/ \E s \in Stream : WriteOut(s) \/ Data(s) \/ StreamEnds(s) \/ StreamFails(s)

Next == Run \/ World \/ Abort \/ Expire

Spec == Init /\ [][Next]_vars

\* Every wait of #run has a timer, but for the first, which has the deadline.
FairSpec == Spec /\ WF_vars(Run) /\ WF_vars(Expire)
-----------------------------------------------------------------------------
(* Properties                                                              *)

\* A receipt that confirms lets the service remove the workspace: by then the
\* process is dead, it left no descendant, and nothing more comes through a pipe.
ConfirmedIsGone ==
  result # None /\ result.cleanup = "confirmed" =>
    proc = "dead" /\ ~kin /\ StdioTerminal

\* A verdict of the command rests on a confirmed end and on everything it said.
VerdictIsWhole ==
  result # None /\ result.class \in {"passed", "business_failed"} =>
    /\ result.cleanup = "confirmed"
    /\ \A s \in Stream : out[s].seen = written[s]

\* A result says no more than what is known of the process: confirmed only when it and its
\* descendants are gone, passed or failed only over everything that was written (results.ts).
ResultIsTrue == ConfirmedIsGone /\ VerdictIsWhole

\* execute returns, whatever the process, its descendants and the controller do.
ExecuteReturns == (pc # "idle") ~> (result # None)
=============================================================================
