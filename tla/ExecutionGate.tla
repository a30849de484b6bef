--------------------------- MODULE ExecutionGate ---------------------------
(***************************************************************************)
(* The Windows GUI execution gate of packages/test: a v3 run takes the     *)
(* interactive-session lease, publishes active-<leaseToken>.json, and may  *)
(* touch the desktop only then.  The file is retired when the run's owned  *)
(* resources are confirmed clean; otherwise it stays as a quarantine that  *)
(* only an operator's cleanup proof for that very generation can lift.     *)
(*                                                                         *)
(* The lease is used through the promise of ExclusiveLease alone.          *)
(***************************************************************************)
EXTENDS Integers, FiniteSets

CONSTANTS Actor,   \* runner processes and operators
          Token,   \* lease tokens; a gate generation is named by its token
          NoToken

ASSUME NoTokenAssumption == NoToken \notin Token

VARIABLES
  current, spent, asked, orphaned,  \* the lease (ExclusiveLease)
  active,     \* generations with an active-<token>.json file
  pc,         \* pc[a]: where actor a is
  own,        \* own[a]: the token of the lease a holds or last held
  doc,        \* doc[a]: the generation whose state file a publishes or retires
  want,       \* want[a]: the generation named by the proof a recovers with
  gui,        \* gui[a]: RunnerV3GateBarrier's view of a's GUI acquisition
  confirmed,  \* confirmed[a]: #cleanupConfirmed of a's barrier
  dirty,      \* generations whose GUI resources may still be alive
  proofs      \* generations an operator holds a cleanup proof for

leaseVars == <<current, spent, asked, orphaned>>
barrier == <<gui, confirmed>>
world == <<dirty, proofs>>
gateVars == <<leaseVars, active, pc, own, doc, want, barrier, world>>

Lease == INSTANCE ExclusiveLease WITH None <- NoToken

PC == {"idle", "read", "recheck", "publish", "running", "finalize", "release",
       "quarantine", "refuse", "retireCheck", "retire",
       "over", "stuck", "dead"}

GateTypeOK ==
  /\ current \in Token \cup {NoToken}
  /\ spent \subseteq Token /\ asked \subseteq Token /\ orphaned \subseteq Token
  /\ active \subseteq Token
  /\ pc \in [Actor -> PC]
  /\ own \in [Actor -> Token \cup {NoToken}]
  /\ doc \in [Actor -> Token \cup {NoToken}]
  /\ want \in [Actor -> Token \cup {NoToken}]
  /\ gui \in [Actor -> {"none", "unknown", "acquired"}]
  /\ confirmed \in [Actor -> BOOLEAN]
  /\ dirty \subseteq Token
  /\ proofs \subseteq Token

GateInit ==
  /\ Lease!Init
  /\ active = {}
  /\ pc = [a \in Actor |-> "idle"]
  /\ own = [a \in Actor |-> NoToken]
  /\ doc = [a \in Actor |-> NoToken]
  /\ want = [a \in Actor |-> NoToken]
  /\ gui = [a \in Actor |-> "none"]
  /\ confirmed = [a \in Actor |-> FALSE]
  /\ dirty = {}
  /\ proofs = {}
-----------------------------------------------------------------------------
GoTo(a, place) == pc' = [pc EXCEPT ![a] = place]

\* The actor asks for its lease back: release() has been called.
AskBack(a) == asked' = asked \cup {own[a]} /\ UNCHANGED <<current, spent, orphaned>>

\* The lease of actor a is confirmed released.
LeaseReleased(a) == /\ current = own[a]
                    /\ asked' = asked
                    /\ Lease!Expire

\* Places at which the execution behind a generation is still at work.
Busy == {"publish", "running", "finalize", "release", "quarantine"}
Abandoned(g) == \A a \in Actor : doc[a] = g => pc[a] \notin Busy
-----------------------------------------------------------------------------
(* acquire and recover: both start with the lease                          *)

\* A run (g = NoToken) or a recovery with the proof for g gets the lease.
AcquireLease(a, t, g) ==
  /\ pc[a] = "idle"
  /\ g = NoToken \/ g \in proofs
  /\ asked' = asked
  /\ Lease!Grant(t)
  /\ own' = [own EXCEPT ![a] = t]
  /\ doc' = [doc EXCEPT ![a] = IF g = NoToken THEN t ELSE g]
  /\ want' = [want EXCEPT ![a] = g]
  /\ GoTo(a, "read")
  /\ UNCHANGED <<active, barrier, world>>

\* Mutant: a recovery, like a run, insists on an empty scope.
MayProceed_EmptyOnly(a) == active = {}

\* A run refuses to start on a quarantined scope; a recovery needs exactly the
\* generation its proof names to be the active one.
MayProceed(a) == active = (IF want[a] = NoToken THEN {} ELSE {want[a]})

\* readGateState under the lease.
ReadState(a) ==
  /\ pc[a] = "read"
  /\ \/ MayProceed(a) /\ want[a] = NoToken /\ GoTo(a, "recheck") /\ UNCHANGED leaseVars
     \/ MayProceed(a) /\ want[a] # NoToken /\ GoTo(a, "release") /\ AskBack(a)
     \/ ~MayProceed(a) /\ GoTo(a, "refuse") /\ AskBack(a)
  /\ UNCHANGED <<active, own, doc, want, barrier, world>>

\* publishGateState reads the state once more before it writes.
Recheck(a) == /\ pc[a] = "recheck"
              /\ IF active = {}
                   THEN GoTo(a, "publish") /\ UNCHANGED leaseVars
                   ELSE GoTo(a, "refuse") /\ AskBack(a)
              /\ UNCHANGED <<active, own, doc, want, barrier, world>>

\* The pending file is renamed to active-<leaseToken>.json.
Publish(a) == /\ pc[a] = "publish"
              /\ active' = active \cup {doc[a]}
              /\ GoTo(a, "running")
              /\ gui' = [gui EXCEPT ![a] = "none"]
              /\ confirmed' = [confirmed EXCEPT ![a] = FALSE]
              /\ UNCHANGED <<leaseVars, own, doc, want, world>>

\* The failed call gives the lease back and throws.
Refused(a) == /\ pc[a] = "refuse"
              /\ LeaseReleased(a)
              /\ GoTo(a, "over")
              /\ UNCHANGED <<active, own, doc, want, barrier, world>>
-----------------------------------------------------------------------------
(* The run under the gate, as RunnerV3GateBarrier sees it                   *)

StartGui(a) == /\ pc[a] = "running"
               /\ gui[a] # "unknown"
               /\ gui' = [gui EXCEPT ![a] = "unknown"]
               /\ dirty' = dirty \cup {doc[a]}
               /\ UNCHANGED <<leaseVars, active, pc, own, doc, want, confirmed, proofs>>

CompleteGui(a) == /\ pc[a] = "running"
                  /\ gui[a] = "unknown"
                  /\ gui' = [gui EXCEPT ![a] = "acquired"]
                  /\ UNCHANGED <<leaseVars, active, pc, own, doc, want, confirmed, world>>

\* observeExecution: passed says the kernel settled with a closed, passed and
\* untainted cleanup.  The kernel cannot speak for an acquisition in flight.
CleanupConfirmed(a, passed) == passed /\ gui[a] # "unknown"

ObserveExecution(a, passed) ==
  /\ pc[a] = "running"
  /\ confirmed' = [confirmed EXCEPT ![a] = CleanupConfirmed(a, passed)]
  /\ dirty' = IF passed /\ gui[a] # "unknown" THEN dirty \ {doc[a]} ELSE dirty
  /\ GoTo(a, "finalize")
  /\ UNCHANGED <<leaseVars, active, own, doc, want, gui, proofs>>

\* An error before observeExecution also ends in finalize.
Throw(a) == /\ pc[a] = "running"
            /\ GoTo(a, "finalize")
            /\ UNCHANGED <<leaseVars, active, own, doc, want, barrier, world>>

\* Mutant: the gate is released whatever the cleanup said.
MayRelease_Always(a) == TRUE

\* finalize runs once: it releases an untouched or clean desktop, else quarantines.
MayRelease(a) == gui[a] = "none" \/ confirmed[a]

Finalize(a) ==
  /\ pc[a] = "finalize"
  /\ GoTo(a, IF MayRelease(a) THEN "release" ELSE "quarantine")
  /\ AskBack(a)
  /\ gui' = [gui EXCEPT ![a] = "none"]
  /\ confirmed' = [confirmed EXCEPT ![a] = FALSE]
  /\ UNCHANGED <<active, own, doc, want, world>>

\* lease.release rejects when the process identity cannot be observed; finalize
\* has already spent its one attempt, so the lease stays with the process.
ReleaseFails(a) == /\ pc[a] \in {"release", "quarantine", "refuse"}
                   /\ current = own[a]
                   /\ GoTo(a, "stuck")
                   /\ asked' = asked \ {own[a]}
                   /\ UNCHANGED <<current, spent, orphaned, active, own, doc, want, barrier, world>>

\* release (and a matching recovery): first the lease, then the state file.
Released(a) == /\ pc[a] = "release"
               /\ LeaseReleased(a)
               /\ GoTo(a, "retireCheck")
               /\ UNCHANGED <<active, own, doc, want, barrier, world>>

Quarantined(a) == /\ pc[a] = "quarantine"
                  /\ LeaseReleased(a)
                  /\ GoTo(a, "over")
                  /\ UNCHANGED <<active, own, doc, want, barrier, world>>

\* retireGateState reads the generation's file, then renames that file; when it
\* is gone by then the call throws, with the same effect on the scope: none.
RetireCheck(a) == /\ pc[a] = "retireCheck"
                  /\ GoTo(a, IF doc[a] \in active THEN "retire" ELSE "over")
                  /\ UNCHANGED <<leaseVars, active, own, doc, want, barrier, world>>

\* Mutant: one state file name for every generation.
Retire_AnyGeneration(a) == /\ pc[a] = "retire"
                           /\ active' = {}
                           /\ GoTo(a, "over")
                           /\ UNCHANGED <<leaseVars, own, doc, want, barrier, world>>

Retire(a) == /\ pc[a] = "retire"
             /\ active' = active \ {doc[a]}
             /\ GoTo(a, "over")
             /\ UNCHANGED <<leaseVars, own, doc, want, barrier, world>>
-----------------------------------------------------------------------------
(* The world: processes die and restart, leftovers get cleaned, operators   *)
(* prove it.                                                                *)

Die(a) == /\ pc[a] # "dead"
          /\ GoTo(a, "dead")
          /\ asked' = asked
          /\ orphaned' = orphaned \cup ({own[a]} \cap {current} \cap Token)
          /\ own' = [own EXCEPT ![a] = NoToken]
          /\ doc' = [doc EXCEPT ![a] = NoToken]
          /\ want' = [want EXCEPT ![a] = NoToken]
          /\ gui' = [gui EXCEPT ![a] = "none"]
          /\ confirmed' = [confirmed EXCEPT ![a] = FALSE]
          /\ UNCHANGED <<current, spent, active, world>>

\* A new process (or the next call of one that has finished).
Restart(a) == /\ pc[a] \in {"dead", "over"}
              /\ GoTo(a, "idle")
              /\ own' = [own EXCEPT ![a] = NoToken]
              /\ doc' = [doc EXCEPT ![a] = NoToken]
              /\ want' = [want EXCEPT ![a] = NoToken]
              /\ UNCHANGED <<leaseVars, active, barrier, world>>

\* Another acquisition reclaims the lease of a dead process.
Reclaim == /\ current \in orphaned
           /\ asked' = asked
           /\ Lease!Expire
           /\ UNCHANGED <<active, pc, own, doc, want, barrier, world>>

\* What an abandoned execution left on the desktop goes away.
LeftoversEnd(g) == /\ g \in dirty
                   /\ Abandoned(g)
                   /\ dirty' = dirty \ {g}
                   /\ UNCHANGED <<leaseVars, active, pc, own, doc, want, barrier, proofs>>

\* observe + the operator's own evidence that nothing of g is left.
IssueProof(g) == /\ g \in active
                 /\ g \notin dirty
                 /\ Abandoned(g)
                 /\ proofs' = proofs \cup {g}
                 /\ UNCHANGED <<leaseVars, active, pc, own, doc, want, barrier, dirty>>

Proceed(a) == \/ ReadState(a) \/ Recheck(a) \/ Publish(a) \/ Refused(a)
              \/ Finalize(a) \/ Released(a) \/ Quarantined(a)
              \/ RetireCheck(a) \/ Retire(a)

GateNext ==
  \/ \E a \in Actor :
       \/ Proceed(a)
       \/ \E t \in Token, g \in Token \cup {NoToken} : AcquireLease(a, t, g)
       \/ StartGui(a) \/ CompleteGui(a) \/ Throw(a)
       \/ \E passed \in BOOLEAN : ObserveExecution(a, passed)
       \/ ReleaseFails(a) \/ Die(a) \/ Restart(a)
  \/ Reclaim
  \/ \E g \in Token : LeftoversEnd(g) \/ IssueProof(g)

GateSpec == GateInit /\ [][GateNext]_gateVars

\* A token nobody remembers is as good as a fresh one: this keeps the supply of
\* lease tokens from running out in a finite model.
Recycle(t) ==
  /\ t \in spent \ (active \cup dirty)
  /\ \A a \in Actor : t \notin {own[a], doc[a], want[a]}
  /\ spent' = spent \ {t}
  /\ asked' = asked \ {t}
  /\ orphaned' = orphaned \ {t}
  /\ proofs' = proofs \ {t}
  /\ UNCHANGED <<current, active, pc, own, doc, want, barrier, dirty>>

\* A started call runs on, a run ends by its deadline, a process whose release
\* failed exits in the end, and an operator keeps trying to recover a scope.
\* Crashes and failed releases may happen at any point, but not for ever.
Fairness ==
  /\ \A a \in Actor : /\ WF_gateVars(Proceed(a))
                      /\ WF_gateVars(Throw(a))
                      /\ WF_gateVars(Restart(a))
                      /\ WF_gateVars(pc[a] = "stuck" /\ Die(a))
  /\ WF_gateVars(Reclaim)
  /\ \A g \in Token : /\ WF_gateVars(LeftoversEnd(g))
                      /\ WF_gateVars(IssueProof(g))
                      /\ WF_gateVars(Recycle(g))
                      /\ SF_gateVars(\E a \in Actor, t \in Token : AcquireLease(a, t, g))
  /\ <>[][\A a \in Actor : ~ReleaseFails(a) /\ (Die(a) => pc[a] = "stuck")]_gateVars

FairSpec == GateInit /\ [][GateNext \/ \E t \in Token : Recycle(t)]_gateVars /\ Fairness
-----------------------------------------------------------------------------
(* Properties                                                              *)

\* Never two executions with possibly live GUI resources, across crashes,
\* failed cleanups, quarantine and recovery.
OneDirtyDesktop == Cardinality(dirty) <= 1

\* A desktop that may be dirty is always marked on disk, so no crash point
\* lets a later run start on top of it.
DirtyIsMarked == dirty \subseteq active

\* readGateState's "multiple active quarantine generations" cannot happen.
OneActiveGeneration == Cardinality(active) <= 1

\* A state file is retired only when its own generation is clean: a recovery
\* with an old proof, or a late release, never lifts a newer quarantine.
LiftedOnlyClean == [][\A g \in active \ active' : g \notin dirty]_gateVars

\* One run at a time may have dirtied the desktop, and its quarantine is lifted over a clean
\* desktop only (acquireExecutionGate, recoverExecutionGate).
DesktopIsSafe == []OneDirtyDesktop /\ LiftedOnlyClean

\* A persistent operator lifts every quarantine: neither a crash at any point
\* of release or recovery nor a failed lease release wedges the scope.
QuarantineLifted ==
  \A g \in Token : (g \in active /\ Abandoned(g)) ~> (g \notin active)

\* A run that uses the desktop is the one the lease and the state file name.
RunHoldsGate ==
  \A a \in Actor : pc[a] = "running" => current = own[a] /\ active = {own[a]}
=============================================================================
