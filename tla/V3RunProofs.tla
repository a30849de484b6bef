---------------------------- MODULE V3RunProofs ----------------------------
(***************************************************************************)
(* The two ends of a v3 run: the gate it passes before it may touch the    *)
(* desktop, and the run the executor publishes when it is over.            *)
(*                                                                         *)
(* The gate is safe for any number of processes, operators and lease       *)
(* generations, on top of the abstract lease alone.  A published run is    *)
(* whole for any evidence, any client artifacts and any digests, whatever  *)
(* fails, is damaged or stops: the invariants of the report bundle and of  *)
(* the artifact store are proved for their own steps and then carried by   *)
(* the executor's.                                                         *)
(***************************************************************************)
EXTENDS ExecutionGate, SurfaceLoomV3Executor, FiniteSetTheorems, SequenceTheorems, TLAPS
-----------------------------------------------------------------------------
(* The execution gate                                                      *)

\* The actor has the lease, or the right to it, in its hands.
HoldsLease(a) == pc[a] \in {"read", "recheck", "publish", "running", "finalize",
                            "release", "quarantine", "refuse", "stuck"}

\* An actor that is an execution (not a recovery) and has named its generation.
RunOf(a, g) == want[a] = NoToken /\ doc[a] = g

\* The lease names exactly one actor, which is alive.
LeaseOwner ==
  /\ \A a \in Actor : HoldsLease(a) => /\ own[a] \in Token
                                       /\ current = own[a]
                                       /\ own[a] \notin orphaned
  /\ \A a, b \in Actor : HoldsLease(a) /\ HoldsLease(b) => a = b

\* Every token in use has been granted.
Granted ==
  /\ orphaned \cup active \cup proofs \cup dirty \subseteq spent \cup {current}
  /\ \A a \in Actor : doc[a] \in spent \cup {current, NoToken}

\* Which generation an actor is about, and that no two runs share one.
Documents ==
  \A a \in Actor :
    /\ want[a] # NoToken => doc[a] = want[a] /\ want[a] \in proofs
    /\ want[a] = NoToken /\ HoldsLease(a) => doc[a] = own[a]
    /\ pc[a] \in {"recheck", "publish", "running", "finalize", "quarantine"} => want[a] = NoToken
    /\ pc[a] \in {"idle", "dead"} => want[a] = NoToken /\ doc[a] = NoToken
    /\ pc[a] \in {"retireCheck", "retire", "release"} => doc[a] \in Token
    /\ \A b \in Actor, g \in Token : RunOf(a, g) /\ RunOf(b, g) => a = b

\* A generation with a cleanup proof is clean and no run is busy with it.
Proofs ==
  \A g \in proofs : /\ g \notin dirty
                    /\ \A a \in Actor :
                         RunOf(a, g) => pc[a] \notin Busy \cup {"read", "recheck"}

\* What the state files say while a run is between publishing and finalizing.
Marked ==
  /\ \A g, h \in active : g = h
  /\ \A a \in Actor : pc[a] = "publish" => active = {}
  /\ \A a \in Actor : pc[a] \in {"read", "recheck"} /\ want[a] = NoToken => doc[a] \notin active
  /\ \A a \in Actor : pc[a] \in {"running", "finalize"} => active = {own[a]}

\* Who may retire a state file has a clean generation.
Clean ==
  \A a \in Actor :
    /\ pc[a] \in {"release", "retireCheck", "retire"} => doc[a] \notin dirty
    /\ pc[a] \in {"publish", "recheck", "read"} /\ want[a] = NoToken => doc[a] \notin dirty
    /\ pc[a] \in {"running", "finalize"} /\ MayRelease(a) =>
         doc[a] \notin dirty \/ (pc[a] = "running" /\ gui[a] # "none")
    /\ pc[a] = "running" => ~confirmed[a]

IInv == /\ GateTypeOK
        /\ LeaseOwner
        /\ Granted
        /\ Documents
        /\ Proofs
        /\ Marked
        /\ Clean
        /\ DirtyIsMarked
-----------------------------------------------------------------------------
USE NoTokenAssumption

LEMMA InitEstablishes == GateInit => IInv
BY DEF GateInit, IInv, GateTypeOK, LeaseOwner, Granted, Documents, Proofs, Marked, Clean,
       DirtyIsMarked, PC, HoldsLease, RunOf, Lease!Init

LEMMA AcquireLeasePreserves ==
  ASSUME NEW a \in Actor, NEW t \in Token, NEW g \in Token \cup {NoToken}, IInv, AcquireLease(a, t, g)
  PROVE  IInv'
<1> USE DEF IInv, AcquireLease, GoTo, leaseVars, barrier, world, Lease!Grant
<1>1. GateTypeOK'
  BY DEF GateTypeOK, PC
<1>2. LeaseOwner'
  BY DEF LeaseOwner, GateTypeOK, HoldsLease, Granted
<1>3. Granted'
  BY DEF Granted, GateTypeOK
<1>4. Documents'
  BY DEF Documents, GateTypeOK, Granted, LeaseOwner, HoldsLease, RunOf
<1>5. Proofs'
  BY DEF Proofs, GateTypeOK, Granted, Documents, LeaseOwner, HoldsLease, RunOf, Busy
<1>6. Marked'
  BY DEF Marked, GateTypeOK, LeaseOwner, Documents, HoldsLease, Granted
<1>7. Clean'
  BY DEF Clean, GateTypeOK, LeaseOwner, Documents, Granted, HoldsLease, RunOf, MayRelease
<1>8. DirtyIsMarked'
  BY DEF DirtyIsMarked, GateTypeOK, Marked, Documents, LeaseOwner, HoldsLease, Clean
<1>9. QED
  BY <1>1, <1>2, <1>3, <1>4, <1>5, <1>6, <1>7, <1>8

LEMMA ReadStatePreserves ==
  ASSUME NEW a \in Actor, IInv, ReadState(a)
  PROVE  IInv'
<1> USE DEF IInv, ReadState, GoTo, leaseVars, barrier, world, AskBack, MayProceed
<1>1. GateTypeOK'
  BY DEF GateTypeOK, PC, LeaseOwner, Documents, HoldsLease
<1>2. LeaseOwner'
  BY DEF LeaseOwner, GateTypeOK, HoldsLease
<1>3. Granted'
  BY DEF Granted, GateTypeOK
<1>4. Documents'
  BY DEF Documents, GateTypeOK, Granted, LeaseOwner, HoldsLease, RunOf
<1>5. Proofs'
  BY DEF Proofs, GateTypeOK, Granted, Documents, LeaseOwner, HoldsLease, RunOf, Busy
<1>6. Marked'
  BY DEF Marked, GateTypeOK, LeaseOwner, Documents, HoldsLease
<1>7. Clean'
  BY DEF Clean, GateTypeOK, LeaseOwner, Documents, Granted, HoldsLease, RunOf, MayRelease, Proofs, Busy
<1>8. DirtyIsMarked'
  BY DEF DirtyIsMarked, GateTypeOK, Marked, Documents, LeaseOwner, HoldsLease, Clean
<1>9. QED
  BY <1>1, <1>2, <1>3, <1>4, <1>5, <1>6, <1>7, <1>8

LEMMA RecheckPreserves ==
  ASSUME NEW a \in Actor, IInv, Recheck(a)
  PROVE  IInv'
<1> USE DEF IInv, Recheck, GoTo, leaseVars, barrier, world, AskBack
<1>1. GateTypeOK'
  BY DEF GateTypeOK, PC, LeaseOwner, Documents, HoldsLease
<1>2. LeaseOwner'
  BY DEF LeaseOwner, GateTypeOK, HoldsLease
<1>3. Granted'
  BY DEF Granted, GateTypeOK
<1>4. Documents'
  BY DEF Documents, GateTypeOK, Granted, LeaseOwner, HoldsLease, RunOf
<1>5. Proofs'
  BY DEF Proofs, GateTypeOK, Granted, Documents, LeaseOwner, HoldsLease, RunOf, Busy
<1>6. Marked'
  BY DEF Marked, GateTypeOK, LeaseOwner, Documents, HoldsLease
<1>7. Clean'
  BY DEF Clean, GateTypeOK, LeaseOwner, Documents, Granted, HoldsLease, RunOf, MayRelease
<1>8. DirtyIsMarked'
  BY DEF DirtyIsMarked, GateTypeOK, Marked, Documents, LeaseOwner, HoldsLease, Clean
<1>9. QED
  BY <1>1, <1>2, <1>3, <1>4, <1>5, <1>6, <1>7, <1>8

LEMMA PublishPreserves ==
  ASSUME NEW a \in Actor, IInv, Publish(a)
  PROVE  IInv'
<1> USE DEF IInv, Publish, GoTo, leaseVars, barrier, world
<1>1. GateTypeOK'
  BY DEF GateTypeOK, PC, LeaseOwner, Documents, HoldsLease
<1>2. LeaseOwner'
  BY DEF LeaseOwner, GateTypeOK, HoldsLease
<1>3. Granted'
  BY DEF Granted, GateTypeOK, LeaseOwner, Documents, HoldsLease, RunOf
<1>4. Documents'
  BY DEF Documents, GateTypeOK, Granted, LeaseOwner, HoldsLease, RunOf
<1>5. Proofs'
  BY DEF Proofs, GateTypeOK, Granted, Documents, LeaseOwner, HoldsLease, RunOf, Busy
<1>6. Marked'
  BY DEF Marked, GateTypeOK, LeaseOwner, Documents, HoldsLease
<1>7. Clean'
  BY DEF Clean, GateTypeOK, LeaseOwner, Documents, Granted, HoldsLease, RunOf, MayRelease
<1>8. DirtyIsMarked'
  BY DEF DirtyIsMarked, GateTypeOK, Marked, Documents, LeaseOwner, HoldsLease, Clean
<1>9. QED
  BY <1>1, <1>2, <1>3, <1>4, <1>5, <1>6, <1>7, <1>8

LEMMA RefusedPreserves ==
  ASSUME NEW a \in Actor, IInv, Refused(a)
  PROVE  IInv'
<1> USE DEF IInv, Refused, GoTo, leaseVars, barrier, world, LeaseReleased, Lease!Expire
<1>1. GateTypeOK'
  BY DEF GateTypeOK, PC
<1>2. LeaseOwner'
  BY DEF LeaseOwner, GateTypeOK, HoldsLease
<1>3. Granted'
  BY DEF Granted, GateTypeOK
<1>4. Documents'
  BY DEF Documents, GateTypeOK, Granted, LeaseOwner, HoldsLease, RunOf
<1>5. Proofs'
  BY DEF Proofs, GateTypeOK, Granted, Documents, LeaseOwner, HoldsLease, RunOf, Busy
<1>6. Marked'
  BY DEF Marked, GateTypeOK, LeaseOwner, Documents, HoldsLease
<1>7. Clean'
  BY DEF Clean, GateTypeOK, LeaseOwner, Documents, Granted, HoldsLease, RunOf, MayRelease
<1>8. DirtyIsMarked'
  BY DEF DirtyIsMarked, GateTypeOK, Marked, Documents, LeaseOwner, HoldsLease, Clean
<1>9. QED
  BY <1>1, <1>2, <1>3, <1>4, <1>5, <1>6, <1>7, <1>8

LEMMA StartGuiPreserves ==
  ASSUME NEW a \in Actor, IInv, StartGui(a)
  PROVE  IInv'
<1> USE DEF IInv, StartGui, GoTo, leaseVars, barrier, world
<1>1. GateTypeOK'
  BY DEF GateTypeOK, PC, LeaseOwner, Documents, HoldsLease
<1>2. LeaseOwner'
  BY DEF LeaseOwner, GateTypeOK, HoldsLease
<1>3. Granted'
  BY DEF Granted, GateTypeOK, LeaseOwner, Documents, HoldsLease, RunOf
<1>4. Documents'
  BY DEF Documents, GateTypeOK, Granted, LeaseOwner, HoldsLease, RunOf
<1>5. Proofs'
  BY DEF Proofs, GateTypeOK, Granted, Documents, LeaseOwner, HoldsLease, RunOf, Busy
<1>6. Marked'
  BY DEF Marked, GateTypeOK, LeaseOwner, Documents, HoldsLease
<1>7. Clean'
  BY DEF Clean, GateTypeOK, LeaseOwner, Documents, Granted, HoldsLease, RunOf, MayRelease, Proofs, Busy
<1>8. DirtyIsMarked'
  BY DEF DirtyIsMarked, GateTypeOK, Marked, Documents, LeaseOwner, HoldsLease, Clean
<1>9. QED
  BY <1>1, <1>2, <1>3, <1>4, <1>5, <1>6, <1>7, <1>8

LEMMA CompleteGuiPreserves ==
  ASSUME NEW a \in Actor, IInv, CompleteGui(a)
  PROVE  IInv'
<1> USE DEF IInv, CompleteGui, GoTo, leaseVars, barrier, world
<1>1. GateTypeOK'
  BY DEF GateTypeOK, PC
<1>2. LeaseOwner'
  BY DEF LeaseOwner, GateTypeOK, HoldsLease
<1>3. Granted'
  BY DEF Granted, GateTypeOK
<1>4. Documents'
  BY DEF Documents, GateTypeOK, Granted, LeaseOwner, HoldsLease, RunOf
<1>5. Proofs'
  BY DEF Proofs, GateTypeOK, Granted, Documents, LeaseOwner, HoldsLease, RunOf, Busy
<1>6. Marked'
  BY DEF Marked, GateTypeOK, LeaseOwner, Documents, HoldsLease
<1>7. Clean'
  BY DEF Clean, GateTypeOK, LeaseOwner, Documents, Granted, HoldsLease, RunOf, MayRelease
<1>8. DirtyIsMarked'
  BY DEF DirtyIsMarked, GateTypeOK, Marked, Documents, LeaseOwner, HoldsLease, Clean
<1>9. QED
  BY <1>1, <1>2, <1>3, <1>4, <1>5, <1>6, <1>7, <1>8

LEMMA ObserveExecutionPreserves ==
  ASSUME NEW a \in Actor, NEW passed \in BOOLEAN, IInv, ObserveExecution(a, passed)
  PROVE  IInv'
<1> USE DEF IInv, ObserveExecution, GoTo, leaseVars, barrier, world, CleanupConfirmed
<1>1. GateTypeOK'
  BY DEF GateTypeOK, PC
<1>2. LeaseOwner'
  BY DEF LeaseOwner, GateTypeOK, HoldsLease
<1>3. Granted'
  BY DEF Granted, GateTypeOK
<1>4. Documents'
  BY DEF Documents, GateTypeOK, Granted, LeaseOwner, HoldsLease, RunOf
<1>5. Proofs'
  BY DEF Proofs, GateTypeOK, Granted, Documents, LeaseOwner, HoldsLease, RunOf, Busy
<1>6. Marked'
  BY DEF Marked, GateTypeOK, LeaseOwner, Documents, HoldsLease
<1>7. Clean'
  BY DEF Clean, GateTypeOK, LeaseOwner, Documents, Granted, HoldsLease, RunOf, MayRelease
<1>8. DirtyIsMarked'
  BY DEF DirtyIsMarked, GateTypeOK, Marked, Documents, LeaseOwner, HoldsLease, Clean
<1>9. QED
  BY <1>1, <1>2, <1>3, <1>4, <1>5, <1>6, <1>7, <1>8

LEMMA ThrowPreserves ==
  ASSUME NEW a \in Actor, IInv, Throw(a)
  PROVE  IInv'
<1> USE DEF IInv, Throw, GoTo, leaseVars, barrier, world
<1>1. GateTypeOK'
  BY DEF GateTypeOK, PC
<1>2. LeaseOwner'
  BY DEF LeaseOwner, GateTypeOK, HoldsLease
<1>3. Granted'
  BY DEF Granted, GateTypeOK
<1>4. Documents'
  BY DEF Documents, GateTypeOK, Granted, LeaseOwner, HoldsLease, RunOf
<1>5. Proofs'
  BY DEF Proofs, GateTypeOK, Granted, Documents, LeaseOwner, HoldsLease, RunOf, Busy
<1>6. Marked'
  BY DEF Marked, GateTypeOK, LeaseOwner, Documents, HoldsLease
<1>7. Clean'
  BY DEF Clean, GateTypeOK, LeaseOwner, Documents, Granted, HoldsLease, RunOf, MayRelease
<1>8. DirtyIsMarked'
  BY DEF DirtyIsMarked, GateTypeOK, Marked, Documents, LeaseOwner, HoldsLease, Clean
<1>9. QED
  BY <1>1, <1>2, <1>3, <1>4, <1>5, <1>6, <1>7, <1>8

LEMMA FinalizePreserves ==
  ASSUME NEW a \in Actor, IInv, Finalize(a)
  PROVE  IInv'
<1> USE DEF IInv, Finalize, GoTo, leaseVars, barrier, world, AskBack, MayRelease
<1>1. GateTypeOK'
  BY DEF GateTypeOK, PC, LeaseOwner, Documents, HoldsLease
<1>2. LeaseOwner'
  BY DEF LeaseOwner, GateTypeOK, HoldsLease
<1>3. Granted'
  BY DEF Granted, GateTypeOK
<1>4. Documents'
  BY DEF Documents, GateTypeOK, Granted, LeaseOwner, HoldsLease, RunOf
<1>5. Proofs'
  BY DEF Proofs, GateTypeOK, Granted, Documents, LeaseOwner, HoldsLease, RunOf, Busy
<1>6. Marked'
  BY DEF Marked, GateTypeOK, LeaseOwner, Documents, HoldsLease
<1>7. Clean'
  BY DEF Clean, GateTypeOK, LeaseOwner, Documents, Granted, HoldsLease, RunOf, MayRelease
<1>8. DirtyIsMarked'
  BY DEF DirtyIsMarked, GateTypeOK, Marked, Documents, LeaseOwner, HoldsLease, Clean
<1>9. QED
  BY <1>1, <1>2, <1>3, <1>4, <1>5, <1>6, <1>7, <1>8

LEMMA ReleaseFailsPreserves ==
  ASSUME NEW a \in Actor, IInv, ReleaseFails(a)
  PROVE  IInv'
<1> USE DEF IInv, ReleaseFails, GoTo, leaseVars, barrier, world
<1>1. GateTypeOK'
  BY DEF GateTypeOK, PC
<1>2. LeaseOwner'
  BY DEF LeaseOwner, GateTypeOK, HoldsLease
<1>3. Granted'
  BY DEF Granted, GateTypeOK
<1>4. Documents'
  BY DEF Documents, GateTypeOK, Granted, LeaseOwner, HoldsLease, RunOf
<1>5. Proofs'
  BY DEF Proofs, GateTypeOK, Granted, Documents, LeaseOwner, HoldsLease, RunOf, Busy
<1>6. Marked'
  BY DEF Marked, GateTypeOK, LeaseOwner, Documents, HoldsLease
<1>7. Clean'
  BY DEF Clean, GateTypeOK, LeaseOwner, Documents, Granted, HoldsLease, RunOf, MayRelease
<1>8. DirtyIsMarked'
  BY DEF DirtyIsMarked, GateTypeOK, Marked, Documents, LeaseOwner, HoldsLease, Clean
<1>9. QED
  BY <1>1, <1>2, <1>3, <1>4, <1>5, <1>6, <1>7, <1>8

LEMMA ReleasedPreserves ==
  ASSUME NEW a \in Actor, IInv, Released(a)
  PROVE  IInv'
<1> USE DEF IInv, Released, GoTo, leaseVars, barrier, world, LeaseReleased, Lease!Expire
<1>1. GateTypeOK'
  BY DEF GateTypeOK, PC
<1>2. LeaseOwner'
  BY DEF LeaseOwner, GateTypeOK, HoldsLease
<1>3. Granted'
  BY DEF Granted, GateTypeOK
<1>4. Documents'
  BY DEF Documents, GateTypeOK, Granted, LeaseOwner, HoldsLease, RunOf
<1>5. Proofs'
  BY DEF Proofs, GateTypeOK, Granted, Documents, LeaseOwner, HoldsLease, RunOf, Busy
<1>6. Marked'
  BY DEF Marked, GateTypeOK, LeaseOwner, Documents, HoldsLease
<1>7. Clean'
  BY DEF Clean, GateTypeOK, LeaseOwner, Documents, Granted, HoldsLease, RunOf, MayRelease
<1>8. DirtyIsMarked'
  BY DEF DirtyIsMarked, GateTypeOK, Marked, Documents, LeaseOwner, HoldsLease, Clean
<1>9. QED
  BY <1>1, <1>2, <1>3, <1>4, <1>5, <1>6, <1>7, <1>8

LEMMA QuarantinedPreserves ==
  ASSUME NEW a \in Actor, IInv, Quarantined(a)
  PROVE  IInv'
<1> USE DEF IInv, Quarantined, GoTo, leaseVars, barrier, world, LeaseReleased, Lease!Expire
<1>1. GateTypeOK'
  BY DEF GateTypeOK, PC
<1>2. LeaseOwner'
  BY DEF LeaseOwner, GateTypeOK, HoldsLease
<1>3. Granted'
  BY DEF Granted, GateTypeOK
<1>4. Documents'
  BY DEF Documents, GateTypeOK, Granted, LeaseOwner, HoldsLease, RunOf
<1>5. Proofs'
  BY DEF Proofs, GateTypeOK, Granted, Documents, LeaseOwner, HoldsLease, RunOf, Busy
<1>6. Marked'
  BY DEF Marked, GateTypeOK, LeaseOwner, Documents, HoldsLease
<1>7. Clean'
  BY DEF Clean, GateTypeOK, LeaseOwner, Documents, Granted, HoldsLease, RunOf, MayRelease
<1>8. DirtyIsMarked'
  BY DEF DirtyIsMarked, GateTypeOK, Marked, Documents, LeaseOwner, HoldsLease, Clean
<1>9. QED
  BY <1>1, <1>2, <1>3, <1>4, <1>5, <1>6, <1>7, <1>8

LEMMA RetireCheckPreserves ==
  ASSUME NEW a \in Actor, IInv, RetireCheck(a)
  PROVE  IInv'
<1> USE DEF IInv, RetireCheck, GoTo, leaseVars, barrier, world
<1>1. GateTypeOK'
  BY DEF GateTypeOK, PC
<1>2. LeaseOwner'
  BY DEF LeaseOwner, GateTypeOK, HoldsLease
<1>3. Granted'
  BY DEF Granted, GateTypeOK
<1>4. Documents'
  BY DEF Documents, GateTypeOK, Granted, LeaseOwner, HoldsLease, RunOf
<1>5. Proofs'
  BY DEF Proofs, GateTypeOK, Granted, Documents, LeaseOwner, HoldsLease, RunOf, Busy
<1>6. Marked'
  BY DEF Marked, GateTypeOK, LeaseOwner, Documents, HoldsLease
<1>7. Clean'
  BY DEF Clean, GateTypeOK, LeaseOwner, Documents, Granted, HoldsLease, RunOf, MayRelease
<1>8. DirtyIsMarked'
  BY DEF DirtyIsMarked, GateTypeOK, Marked, Documents, LeaseOwner, HoldsLease, Clean
<1>9. QED
  BY <1>1, <1>2, <1>3, <1>4, <1>5, <1>6, <1>7, <1>8

LEMMA RetirePreserves ==
  ASSUME NEW a \in Actor, IInv, Retire(a)
  PROVE  IInv'
<1> USE DEF IInv, Retire, GoTo, leaseVars, barrier, world
<1>1. GateTypeOK'
  BY DEF GateTypeOK, PC
<1>2. LeaseOwner'
  BY DEF LeaseOwner, GateTypeOK, HoldsLease
<1>3. Granted'
  BY DEF Granted, GateTypeOK
<1>4. Documents'
  BY DEF Documents, GateTypeOK, Granted, LeaseOwner, HoldsLease, RunOf
<1>5. Proofs'
  BY DEF Proofs, GateTypeOK, Granted, Documents, LeaseOwner, HoldsLease, RunOf, Busy
<1>6. Marked'
  BY DEF Marked, GateTypeOK, LeaseOwner, Documents, HoldsLease, Proofs, Busy, RunOf
<1>7. Clean'
  BY DEF Clean, GateTypeOK, LeaseOwner, Documents, Granted, HoldsLease, RunOf, MayRelease
<1>8. DirtyIsMarked'
  BY DEF DirtyIsMarked, GateTypeOK, Marked, Documents, LeaseOwner, HoldsLease, Clean
<1>9. QED
  BY <1>1, <1>2, <1>3, <1>4, <1>5, <1>6, <1>7, <1>8

LEMMA DiePreserves ==
  ASSUME NEW a \in Actor, IInv, Die(a)
  PROVE  IInv'
<1> USE DEF IInv, Die, GoTo, leaseVars, barrier, world
<1>1. GateTypeOK'
  BY DEF GateTypeOK, PC
<1>2. LeaseOwner'
  BY DEF LeaseOwner, GateTypeOK, HoldsLease
<1>3. Granted'
  BY DEF Granted, GateTypeOK
<1>4. Documents'
  BY DEF Documents, GateTypeOK, Granted, LeaseOwner, HoldsLease, RunOf
<1>5. Proofs'
  BY DEF Proofs, GateTypeOK, Granted, Documents, LeaseOwner, HoldsLease, RunOf, Busy
<1>6. Marked'
  BY DEF Marked, GateTypeOK, LeaseOwner, Documents, HoldsLease
<1>7. Clean'
  BY DEF Clean, GateTypeOK, LeaseOwner, Documents, Granted, HoldsLease, RunOf, MayRelease
<1>8. DirtyIsMarked'
  BY DEF DirtyIsMarked, GateTypeOK, Marked, Documents, LeaseOwner, HoldsLease, Clean
<1>9. QED
  BY <1>1, <1>2, <1>3, <1>4, <1>5, <1>6, <1>7, <1>8

LEMMA RestartPreserves ==
  ASSUME NEW a \in Actor, IInv, Restart(a)
  PROVE  IInv'
<1> USE DEF IInv, Restart, GoTo, leaseVars, barrier, world
<1>1. GateTypeOK'
  BY DEF GateTypeOK, PC
<1>2. LeaseOwner'
  BY DEF LeaseOwner, GateTypeOK, HoldsLease
<1>3. Granted'
  BY DEF Granted, GateTypeOK
<1>4. Documents'
  BY DEF Documents, GateTypeOK, Granted, LeaseOwner, HoldsLease, RunOf
<1>5. Proofs'
  BY DEF Proofs, GateTypeOK, Granted, Documents, LeaseOwner, HoldsLease, RunOf, Busy
<1>6. Marked'
  BY DEF Marked, GateTypeOK, LeaseOwner, Documents, HoldsLease
<1>7. Clean'
  BY DEF Clean, GateTypeOK, LeaseOwner, Documents, Granted, HoldsLease, RunOf, MayRelease
<1>8. DirtyIsMarked'
  BY DEF DirtyIsMarked, GateTypeOK, Marked, Documents, LeaseOwner, HoldsLease, Clean
<1>9. QED
  BY <1>1, <1>2, <1>3, <1>4, <1>5, <1>6, <1>7, <1>8

LEMMA ReclaimPreserves ==
  ASSUME IInv, Reclaim
  PROVE  IInv'
<1> USE DEF IInv, Reclaim, GoTo, leaseVars, barrier, world, Lease!Expire
<1>1. GateTypeOK'
  BY DEF GateTypeOK, PC
<1>2. LeaseOwner'
  BY DEF LeaseOwner, GateTypeOK, HoldsLease
<1>3. Granted'
  BY DEF Granted, GateTypeOK
<1>4. Documents'
  BY DEF Documents, GateTypeOK, Granted, LeaseOwner, HoldsLease, RunOf
<1>5. Proofs'
  BY DEF Proofs, GateTypeOK, Granted, Documents, LeaseOwner, HoldsLease, RunOf, Busy
<1>6. Marked'
  BY DEF Marked, GateTypeOK, LeaseOwner, Documents, HoldsLease
<1>7. Clean'
  BY DEF Clean, GateTypeOK, LeaseOwner, Documents, Granted, HoldsLease, RunOf, MayRelease
<1>8. DirtyIsMarked'
  BY DEF DirtyIsMarked, GateTypeOK, Marked, Documents, LeaseOwner, HoldsLease, Clean
<1>9. QED
  BY <1>1, <1>2, <1>3, <1>4, <1>5, <1>6, <1>7, <1>8

LEMMA LeftoversEndPreserves ==
  ASSUME NEW g \in Token, IInv, LeftoversEnd(g)
  PROVE  IInv'
<1> USE DEF IInv, LeftoversEnd, GoTo, leaseVars, barrier, world, Abandoned
<1>1. GateTypeOK'
  BY DEF GateTypeOK, PC
<1>2. LeaseOwner'
  BY DEF LeaseOwner, GateTypeOK, HoldsLease
<1>3. Granted'
  BY DEF Granted, GateTypeOK
<1>4. Documents'
  BY DEF Documents, GateTypeOK, Granted, LeaseOwner, HoldsLease, RunOf
<1>5. Proofs'
  BY DEF Proofs, GateTypeOK, Granted, Documents, LeaseOwner, HoldsLease, RunOf, Busy
<1>6. Marked'
  BY DEF Marked, GateTypeOK, LeaseOwner, Documents, HoldsLease
<1>7. Clean'
  BY DEF Clean, GateTypeOK, LeaseOwner, Documents, Granted, HoldsLease, RunOf, MayRelease
<1>8. DirtyIsMarked'
  BY DEF DirtyIsMarked, GateTypeOK, Marked, Documents, LeaseOwner, HoldsLease, Clean
<1>9. QED
  BY <1>1, <1>2, <1>3, <1>4, <1>5, <1>6, <1>7, <1>8

LEMMA IssueProofPreserves ==
  ASSUME NEW g \in Token, IInv, IssueProof(g)
  PROVE  IInv'
<1> USE DEF IInv, IssueProof, GoTo, leaseVars, barrier, world, Abandoned
<1>1. GateTypeOK'
  BY DEF GateTypeOK, PC
<1>2. LeaseOwner'
  BY DEF LeaseOwner, GateTypeOK, HoldsLease
<1>3. Granted'
  BY DEF Granted, GateTypeOK
<1>4. Documents'
  BY DEF Documents, GateTypeOK, Granted, LeaseOwner, HoldsLease, RunOf
<1>5. Proofs'
  BY DEF Proofs, GateTypeOK, Granted, Documents, LeaseOwner, HoldsLease, RunOf, Busy, Marked
<1>6. Marked'
  BY DEF Marked, GateTypeOK, LeaseOwner, Documents, HoldsLease
<1>7. Clean'
  BY DEF Clean, GateTypeOK, LeaseOwner, Documents, Granted, HoldsLease, RunOf, MayRelease
<1>8. DirtyIsMarked'
  BY DEF DirtyIsMarked, GateTypeOK, Marked, Documents, LeaseOwner, HoldsLease, Clean
<1>9. QED
  BY <1>1, <1>2, <1>3, <1>4, <1>5, <1>6, <1>7, <1>8

LEMMA StutterPreserves == IInv /\ UNCHANGED gateVars => IInv'
BY DEF IInv, gateVars, leaseVars, barrier, world, GateTypeOK, LeaseOwner, Granted, Documents,
       Proofs, Marked, Clean, DirtyIsMarked, HoldsLease, RunOf, Busy, MayRelease

LEMMA NextPreserves == IInv /\ [GateNext]_gateVars => IInv'
<1> SUFFICES ASSUME IInv, [GateNext]_gateVars PROVE IInv'
  OBVIOUS
<1>1. ASSUME NEW a \in Actor, Proceed(a) PROVE IInv'
  BY <1>1, ReadStatePreserves, RecheckPreserves, PublishPreserves, RefusedPreserves,
     FinalizePreserves, ReleasedPreserves, QuarantinedPreserves,
     RetireCheckPreserves, RetirePreserves DEF Proceed
<1>2. ASSUME NEW a \in Actor, NEW t \in Token, NEW g \in Token \cup {NoToken},
             AcquireLease(a, t, g)
      PROVE  IInv'
  BY <1>2, AcquireLeasePreserves
<1>3. ASSUME NEW a \in Actor,
             \/ StartGui(a) \/ CompleteGui(a) \/ Throw(a)
             \/ \E passed \in BOOLEAN : ObserveExecution(a, passed)
      PROVE  IInv'
  BY <1>3, StartGuiPreserves, CompleteGuiPreserves, ThrowPreserves,
     ObserveExecutionPreserves
<1>4. ASSUME NEW a \in Actor, ReleaseFails(a) \/ Die(a) \/ Restart(a)
      PROVE  IInv'
  BY <1>4, ReleaseFailsPreserves, DiePreserves, RestartPreserves
<1>5. ASSUME NEW g \in Token, LeftoversEnd(g) \/ IssueProof(g)
      PROVE  IInv'
  BY <1>5, LeftoversEndPreserves, IssueProofPreserves
<1>6. QED
  BY <1>1, <1>2, <1>3, <1>4, <1>5, ReclaimPreserves, StutterPreserves DEF GateNext

\* The strengthened invariant holds in every reachable state.
THEOREM Invariance == GateSpec => []IInv
<1>1. GateInit => IInv
  BY InitEstablishes
<1>2. IInv /\ [GateNext]_gateVars => IInv'
  BY NextPreserves
<1>3. QED
  BY <1>1, <1>2, PTL DEF GateSpec

\* Every variable keeps its type, for any set of actors and tokens.
THEOREM TypeCorrect == GateSpec => []GateTypeOK
<1>1. IInv => GateTypeOK
  BY DEF IInv
<1>2. QED
  BY <1>1, Invariance, PTL

\* A desktop that may be dirty has its state file, at every crash point.
THEOREM QuarantineIsDurable == GateSpec => []DirtyIsMarked
<1>1. IInv => DirtyIsMarked
  BY DEF IInv
<1>2. QED
  BY <1>1, Invariance, PTL

\* A set whose elements are all equal is finite and has at most one element.
LEMMA AtMostOne ==
  ASSUME NEW S, \A x, y \in S : x = y
  PROVE  IsFiniteSet(S) /\ Cardinality(S) <= 1
<1>1. CASE S = {}
  BY <1>1, FS_EmptySet
<1>2. CASE S # {}
  <2>1. PICK x \in S : TRUE
    BY <1>2
  <2>2. S = {x}
    BY <2>1
  <2>3. IsFiniteSet(S) /\ Cardinality(S) = 1
    BY <2>2, FS_Singleton
  <2>4. QED
    BY <2>3
<1>3. QED
  BY <1>1, <1>2

\* readGateState never meets two active generations.
THEOREM GenerationIsUnique == GateSpec => []OneActiveGeneration
<1>1. IInv => OneActiveGeneration
  BY AtMostOne DEF IInv, Marked, OneActiveGeneration
<1>2. QED
  BY <1>1, Invariance, PTL

\* Two executions never have live GUI resources at the same time.
THEOREM DesktopIsExclusive == GateSpec => []OneDirtyDesktop
<1>1. IInv => OneDirtyDesktop
  BY AtMostOne DEF IInv, Marked, DirtyIsMarked, OneDirtyDesktop
<1>2. QED
  BY <1>1, Invariance, PTL

\* The run that uses the desktop is the one named by lease and state file.
THEOREM RunIsNamed == GateSpec => []RunHoldsGate
<1>1. IInv => RunHoldsGate
  BY DEF IInv, Marked, LeaseOwner, HoldsLease, RunHoldsGate
<1>2. QED
  BY <1>1, Invariance, PTL

\* No step removes the state file of a generation that may still be dirty.
LEMMA StepLiftsOnlyClean ==
  ASSUME IInv, [GateNext]_gateVars
  PROVE  \A g \in active \ active' : g \notin dirty
<1>1. CASE \E a \in Actor : Retire(a)
  BY <1>1 DEF IInv, Clean, Retire
<1>2. CASE ~\E a \in Actor : Retire(a)
  <2>1. active \subseteq active'
    BY <1>2 DEF GateNext, Proceed, gateVars, leaseVars, barrier, world, AcquireLease, ReadState,
       Recheck, Publish, Refused, StartGui, CompleteGui, ObserveExecution, Throw,
       Finalize, ReleaseFails, Released, Quarantined, RetireCheck, Die, Restart,
       Reclaim, LeftoversEnd, IssueProof
  <2>2. QED
    BY <2>1
<1>3. QED
  BY <1>1, <1>2

\* A recovery with an old proof, or a late release, lifts no newer quarantine.
THEOREM OnlyCleanIsLifted == GateSpec => LiftedOnlyClean
<1>1. IInv /\ [GateNext]_gateVars => [\A g \in active \ active' : g \notin dirty]_gateVars
  BY StepLiftsOnlyClean
<1>2. QED
  BY <1>1, Invariance, PTL DEF GateSpec, LiftedOnlyClean

\* One run at a time may dirty the desktop, and only a clean one is given on.
THEOREM DesktopStaysSafe == GateSpec => DesktopIsSafe
<1>1. QED
  BY DesktopIsExclusive, OnlyCleanIsLifted, PTL DEF DesktopIsSafe
-----------------------------------------------------------------------------
(* The report bundle                                                       *)

\* What the report calls captured is in the directory as the source holds it.
CapturedIsThere == \A e \in Bundle!Item : entry[e] = "captured" => file[e] = source[e]

\* What is checked before the views are written still holds when the marker is.
Gated == \A e \in Required : Bundle!Published(e)

BundleInv ==
  /\ Bundle!TypeOK
  /\ phase = "naming" => next \in DOMAIN Evidence /\ source[Evidence[next]] \in {"intact", "changed"}
  /\ \A e \in Bundle!Item : entry[e] = "captured" => source[e] \in {"intact", "changed"}
  /\ phase \notin {"removing", "over"} => CapturedIsThere
  /\ phase \in {"views", "marker", "complete"} => Gated
  /\ phase \in {"marker", "complete"} => \A v \in Bundle!View : file[v] = "written"
  /\ file[Bundle!Marker] # None => phase = "complete"
  /\ told = "published" => phase = "complete" /\ file[Bundle!Marker] # None
  /\ phase \notin {"start", "over"} => dir = "ours"
-----------------------------------------------------------------------------
(* The artifact store                                                      *)

Ever == acked \cup harmed

\* What was stored and not damaged has both of its files.
Backed == \A a \in acked : manifest[a] = "good" /\ blob[DigestOf[a]] = "good"

\* Only a put that was done leaves a good manifest.
Vouched == \A a \in Artifact : manifest[a] = "good" => a \in Ever

\* What the writer found out still holds, unless a file was damaged since.
Remembered ==
  /\ spoilt => Store!Wanted \in harmed
  /\ known /\ ~spoilt => manifest[Store!Wanted] = "good"
  /\ step = "discard" => ~known /\ manifest[Store!Wanted] # "good"
  /\ step = "replace" => blob[Store!Bytes] # "good"
  /\ step = "describe" /\ ~spoilt => blob[Store!Bytes] = "good"

WriterFits == /\ tail = <<>> => step = "manifest" /\ ~spoilt
              /\ step = "manifest" => ~known
              /\ tail # <<>> => Remembered

\* A get of a stored artifact has found nothing missing so far.
GetsFit == \A c \in Caller : get[c] # None /\ get[c].due =>
             get[c].artifact \in acked /\ get[c].at \notin {"absent", "corrupt"}

StoreInv == Store!TypeOK /\ Backed /\ Vouched /\ WriterFits /\ GetsFit
-----------------------------------------------------------------------------
(* The run                                                                 *)

\* What a caller is putting.
Wish(c) == IF c = "executor" THEN Following ELSE client

\* Every caller has one put at most, of what it wants stored, and is told the truth.
PutsFit ==
  /\ \A i \in 1 .. Len(tail) : put[tail[i].by] = "waiting" /\ tail[i].artifact = Wish(tail[i].by)
  /\ \A i, j \in 1 .. Len(tail) : tail[i].by = tail[j].by => i = j
  /\ \A c \in Caller : put[c] = "stored" => Wish(c) \in Ever
  /\ put["executor"] # "none" => place = "putting"
  /\ put["client"] # "none" => client # None

\* The files of a whole report.
Whole == Bundle!View \cup {Bundle!Marker} \cup {e \in Bundle!Item : entry[e] = "captured"}

RunFits ==
  /\ place \in {"collect", "put", "putting"} => told = "published"
  /\ place \in {"put", "putting"} => Whole \subseteq todo \cup mine
  /\ place = "putting" => todo # {}
  /\ result # None => place \in {"finally", "returned", "gone"}
  /\ place \in {"finally", "returned"} => result # None
  /\ result # None /\ result.status = "completed" => Whole \subseteq mine
  /\ mine \subseteq Ever /\ record.artifacts \subseteq Ever
  /\ record.status = "completed" => place = "gone" /\ Whole \subseteq record.artifacts

\* Who may still work in the run's directory.
WorkFits ==
  /\ place \in {"new", "resolve", "kernel"} => cleanup = "unknown"
  /\ place = "kernel" => started
  /\ ~started => ~alive
  /\ cleanup = "confirmed" => ~alive
  /\ root = "removed" => place \in {"returned", "gone"} /\ ~alive

ExecutorInv == RunTypeOK /\ BundleInv /\ StoreInv /\ PutsFit /\ RunFits /\ WorkFits
-----------------------------------------------------------------------------
(* The bundle's steps                                                      *)

Names == Bundle!Item \cup Bundle!View \cup {Bundle!Marker}
Fresh == None \notin {"intact", "changed", "written", "captured", "captureFailed", "notCaptured",
                     "published", "failed"}

LEMMA BundleBegins == Bundle!Init => BundleInv
  <1> SUFFICES ASSUME Bundle!Init PROVE BundleInv
    OBVIOUS
  <1>1. Fresh /\ Evidence \in Seq(Bundle!Item)
    BY DataAssumption DEF Bundle!EvidenceAssumption, Fresh
  <1>2. 1 \in 1 .. Len(Evidence) + 1
    BY <1>1
  <1>3. Bundle!TypeOK
    BY <1>1, <1>2 DEF Bundle!Init, Bundle!TypeOK
  <1>4. Bundle!Marker \in Names /\ \A f \in Names : file[f] = None
    BY DEF Bundle!Init, Names
  <1>5. QED
    BY <1>1, <1>3, <1>4 DEF Bundle!Init, BundleInv, CapturedIsThere, Fresh, Names

\* The steps that change no file of the directory and nothing the report says.
LEMMA BundleQuiet ==
  ASSUME BundleInv,
         UNCHANGED <<source, kept, entry, file>>, Bundle!TypeOK',
         phase' = "naming" => next' \in DOMAIN Evidence /\ source[Evidence[next']] \in {"intact", "changed"},
         phase' \notin {"removing", "over"} => CapturedIsThere,
         phase' \in {"views", "marker", "complete"} => Gated,
         phase' \in {"marker", "complete"} => \A v \in Bundle!View : file[v] = "written",
         phase = "complete" => phase' = "complete",
         told' = "published" => told = "published",
         phase' \notin {"start", "over"} => dir' = "ours"
  PROVE BundleInv'
  BY DEF BundleInv, CapturedIsThere, Gated, Bundle!Published

\* A step of the publication, or its end with the process.
LEMMA BundleKeepsIt == ASSUME BundleInv, Bundle!Next PROVE BundleInv'
  <1> USE DEF Bundle!inputs
  <1>0. Fresh /\ Evidence \in Seq(Bundle!Item) /\ Bundle!TypeOK
        /\ \A e \in Bundle!Item : e \notin Bundle!View /\ e # Bundle!Marker
    BY DataAssumption DEF Bundle!EvidenceAssumption, Fresh, BundleInv
  <1>1. ASSUME Bundle!MakeDirectory PROVE BundleInv'
    <2>1. Bundle!TypeOK'
      BY <1>0, <1>1 DEF Bundle!MakeDirectory, Bundle!TypeOK
    <2>2. QED
      BY <1>0, <1>1, <2>1, BundleQuiet DEF Bundle!MakeDirectory, BundleInv, Gated
  <1>2. ASSUME Bundle!OtherPublishes PROVE BundleInv'
    <2>1. Bundle!TypeOK'
      BY <1>0, <1>2 DEF Bundle!OtherPublishes, Bundle!TypeOK
    <2>2. QED
      BY <1>0, <1>2, <2>1, BundleQuiet DEF Bundle!OtherPublishes, BundleInv, Gated
  <1>3. ASSUME Bundle!Copy PROVE BundleInv'
    <2>1. Bundle!TypeOK'
      BY <1>0, <1>3 DEF Bundle!Copy, Bundle!Retained, Bundle!Current, Bundle!TypeOK
    <2>2. QED
      BY <1>0, <1>3, <2>1, BundleQuiet DEF Bundle!Copy, Bundle!Retained, Bundle!Current, BundleInv, Gated
  <1>4. ASSUME Bundle!AssertRequired PROVE BundleInv'
    <2>1. Bundle!TypeOK'
      BY <1>0, <1>4 DEF Bundle!AssertRequired, Bundle!Fails, Bundle!TypeOK
    <2>2. QED
      BY <1>0, <1>4, <2>1, BundleQuiet DEF Bundle!AssertRequired, Bundle!Fails, BundleInv, Gated
  <1>5. ASSUME Bundle!WriteMarker PROVE BundleInv'
    <2>1. Bundle!TypeOK'
      BY <1>0, <1>5 DEF Bundle!WriteMarker, Bundle!Viewed, Bundle!TypeOK
    <2>2. QED
      BY <1>0, <1>5, <2>1, BundleQuiet DEF Bundle!WriteMarker, Bundle!Viewed, BundleInv, Gated
  <1>6. ASSUME Bundle!StepFails PROVE BundleInv'
    <2>1. Bundle!TypeOK'
      BY <1>0, <1>6 DEF Bundle!StepFails, Bundle!Fails, Bundle!TypeOK
    <2>2. QED
      BY <1>0, <1>6, <2>1, BundleQuiet DEF Bundle!StepFails, Bundle!Fails, BundleInv, Gated
  <1>7. ASSUME NEW v \in Bundle!View, Bundle!ViewWritten(v) PROVE BundleInv'
    <2>1. Bundle!TypeOK'
      BY <1>0, <1>7 DEF Bundle!ViewWritten, Bundle!TypeOK
    <2>2. QED
      BY <1>0, <1>7, <2>1, BundleQuiet DEF Bundle!ViewWritten, BundleInv, Gated
  <1>8. ASSUME NEW v \in Bundle!View, Bundle!ViewFails(v) PROVE BundleInv'
    <2>1. Bundle!TypeOK'
      BY <1>0, <1>8 DEF Bundle!ViewFails, Bundle!Fails, Bundle!TypeOK
    <2>2. QED
      BY <1>0, <1>8, <2>1, BundleQuiet DEF Bundle!ViewFails, Bundle!Fails, BundleInv, Gated
  <1>9. ASSUME Bundle!Remove PROVE BundleInv'
    <2>1. Bundle!TypeOK'
      BY <1>0, <1>9 DEF Bundle!Remove, Bundle!TypeOK
    <2>2. QED
      BY <1>0, <1>9, <2>1, BundleQuiet DEF Bundle!Remove, BundleInv, Gated
  <1>10. ASSUME Bundle!UndoFails PROVE BundleInv'
    <2>1. Bundle!TypeOK'
      BY <1>0, <1>10 DEF Bundle!UndoFails, Bundle!TypeOK
    <2>2. QED
      BY <1>0, <1>10, <2>1, BundleQuiet DEF Bundle!UndoFails, BundleInv, Gated
  <1>11. ASSUME Bundle!Crash PROVE BundleInv'
    <2>1. Bundle!TypeOK'
      BY <1>0, <1>11 DEF Bundle!Crash, Bundle!Publishing, Bundle!TypeOK
    <2>2. QED
      BY <1>0, <1>11, <2>1, BundleQuiet DEF Bundle!Crash, Bundle!Publishing, BundleInv, Gated
  <1>12. ASSUME Bundle!Skip PROVE BundleInv'
    <2>1. Bundle!TypeOK'
      BY <1>0, <1>12 DEF Bundle!Skip, Bundle!Current, Bundle!TypeOK, Fresh
    <2>2. QED
      BY <1>0, <1>12, <2>1 DEF Bundle!Skip, Bundle!Current, BundleInv, CapturedIsThere, Gated, Bundle!Published, Bundle!TypeOK, Fresh
  <1>13. ASSUME Bundle!Name PROVE BundleInv'
    <2>1. Bundle!TypeOK'
      <3>1. /\ next \in 1 .. Len(Evidence) /\ Evidence[next] \in Bundle!Item
            /\ source[Evidence[next]] \in {"intact", "changed"}
        BY <1>0, <1>13 DEF Bundle!Name, BundleInv, Bundle!Item
      <3>2. QED
        BY <1>0, <1>13, <3>1 DEF Bundle!Name, Bundle!Current, Bundle!TypeOK
    <2>2. QED
      BY <1>0, <1>13, <2>1 DEF Bundle!Name, Bundle!Current, BundleInv, CapturedIsThere, Gated, Bundle!Published, Bundle!TypeOK, Fresh
  <1>14. ASSUME Bundle!CopyFails PROVE BundleInv'
    <2>1. Bundle!TypeOK'
      <3>1. next \in 1 .. Len(Evidence) /\ Evidence[next] \in Bundle!Item
        BY <1>0, <1>14 DEF Bundle!CopyFails, BundleInv, Bundle!Item
      <3>2. QED
        BY <1>0, <1>14, <3>1 DEF Bundle!CopyFails, Bundle!Fails, Bundle!Current, Bundle!TypeOK
    <2>2. QED
      BY <1>0, <1>14, <2>1 DEF Bundle!CopyFails, Bundle!Fails, Bundle!Current, BundleInv, CapturedIsThere, Gated, Bundle!Published, Bundle!TypeOK, Fresh
  <1>15. ASSUME NEW v \in Bundle!View, Bundle!Rename(v) PROVE BundleInv'
    <2>1. Bundle!TypeOK'
      BY <1>0, <1>15 DEF Bundle!Rename, Bundle!TypeOK, Fresh
    <2>2. QED
      <3>1. /\ phase = "views" /\ \A e \in Bundle!Item : file'[e] = file[e]
            /\ file'[Bundle!Marker] = file[Bundle!Marker]
            /\ UNCHANGED <<source, kept, phase, next, entry, told, dir>>
        BY <1>0, <1>15 DEF Bundle!Rename, Bundle!TypeOK, Bundle!View, Bundle!Marker
      <3>2. CapturedIsThere' /\ Gated'
        BY <3>1 DEF BundleInv, CapturedIsThere, Gated, Bundle!Published
      <3>3. QED
        BY <2>1, <3>1, <3>2 DEF BundleInv
  <1>16. ASSUME Bundle!Complete PROVE BundleInv'
    <2>1. Bundle!TypeOK'
      BY <1>0, <1>16 DEF Bundle!Complete, Bundle!TypeOK, Fresh
    <2>2. QED
      BY <1>0, <1>16, <2>1 DEF Bundle!Complete, BundleInv, CapturedIsThere, Gated, Bundle!Published, Bundle!TypeOK, Fresh
  <1>17. ASSUME Bundle!Undo PROVE BundleInv'
    <2>1. Bundle!TypeOK'
      BY <1>0, <1>17 DEF Bundle!Undo, Bundle!Empty, Bundle!TypeOK, Fresh
    <2>2. QED
      BY <1>0, <1>17, <2>1 DEF Bundle!Undo, Bundle!Empty, BundleInv, CapturedIsThere, Gated, Bundle!Published, Bundle!TypeOK, Fresh
  <1>18. QED
    BY <1>1, <1>2, <1>3, <1>4, <1>5, <1>6, <1>7, <1>8, <1>9, <1>10, <1>11, <1>12, <1>13, <1>14, <1>15, <1>16, <1>17 DEF Bundle!Next, Bundle!Step
-----------------------------------------------------------------------------
(* The store's steps                                                       *)

Waiting == [by : Caller, artifact : Artifact]

LEMMA StoreBegins == Store!Init => StoreInv
  <1> SUFFICES ASSUME Store!Init PROVE StoreInv
    OBVIOUS
  <1>1. <<>> \in Seq(Waiting)
    BY EmptySeq
  <1>2. Store!TypeOK
    BY <1>1 DEF Store!Init, Store!TypeOK, Store!File, Waiting
  <1>3. QED
    BY <1>2 DEF Store!Init, StoreInv, Backed, Vouched, WriterFits, GetsFit

LEMMA HeadIsPut ==
  ASSUME StoreInv, tail # <<>>
  PROVE /\ Head(tail).by \in Caller /\ Head(tail).artifact \in Artifact
        /\ Store!Wanted \in Artifact /\ Store!Bytes \in Digest
        /\ Tail(tail) \in Seq(Waiting)
  <1>1. tail \in Seq(Waiting)
    BY DEF StoreInv, Store!TypeOK, Waiting
  <1>2. Head(tail) \in Waiting /\ Tail(tail) \in Seq(Waiting)
    BY <1>1, HeadTailProperties
  <1>3. QED
    BY <1>2, DataAssumption DEF Waiting, Store!Wanted, Store!Bytes, Store!DigestAssumption

\* A put that ends leaves the writer with nothing to remember.
LEMMA WriterForgets ==
  ASSUME step' = "manifest", known' = FALSE, spoilt' = FALSE
  PROVE WriterFits'
  BY DEF WriterFits, Remembered

\* A put that ends well has both of its files, or one was damaged.
LEMMA StoredIsBacked ==
  ASSUME StoreInv, tail # <<>>, Store!Stored,
         manifest' \in [Artifact -> Store!File], blob' \in [Digest -> Store!File],
         \A a \in Artifact \ {Store!Wanted} : manifest'[a] = manifest[a],
         \A d \in Digest : blob[d] = "good" => blob'[d] = "good",
         manifest[Store!Wanted] = "good" => manifest'[Store!Wanted] = "good",
         ~spoilt => manifest'[Store!Wanted] = "good" /\ blob'[Store!Bytes] = "good"
  PROVE StoreInv'
  <1> USE DataAssumption, HeadIsPut DEF Store!Stored, Store!Settle, Store!DigestAssumption
  <1>1. Store!TypeOK'
    <2>1. tail' \in Seq(Waiting)
      OBVIOUS
    <2>2. put' \in [Caller -> {"none", "waiting", "stored", "failed"}] /\ get' = get
      BY DEF StoreInv, Store!TypeOK
    <2>3. acked' \subseteq Artifact /\ harmed' \subseteq Artifact
      BY DEF StoreInv, Store!TypeOK
    <2>4. QED
      BY <2>1, <2>2, <2>3 DEF StoreInv, Store!TypeOK, Waiting
  <1>2. Backed'
    BY DEF StoreInv, Store!TypeOK, Backed, Store!Bytes
  <1>3. Vouched'
    BY DEF StoreInv, Store!TypeOK, Vouched, Ever, WriterFits, Remembered
  <1>4. WriterFits'
    BY WriterForgets
  <1>5. GetsFit'
    BY DEF StoreInv, GetsFit
  <1>6. QED
    BY <1>1, <1>2, <1>3, <1>4, <1>5 DEF StoreInv

\* A step of the writer that goes on with the same put.
LEMMA WriterGoesOn ==
  ASSUME StoreInv, tail # <<>>, NEW s \in {"manifest", "discard", "blob", "replace", "write", "describe"},
         Store!Goes(s),
         manifest' \in [Artifact -> Store!File], blob' \in [Digest -> Store!File], known' \in BOOLEAN,
         \A a \in Artifact : manifest[a] = "good" <=> manifest'[a] = "good",
         \A d \in Digest : blob[d] = "good" => blob'[d] = "good",
         s = "manifest" => ~known',
         Remembered'
  PROVE StoreInv'
  <1> USE DataAssumption DEF Store!Goes, Store!calls, Store!DigestAssumption
  <1>1. Store!TypeOK'
    BY DEF StoreInv, Store!TypeOK
  <1>2. Backed' /\ Vouched'
    BY DEF StoreInv, Store!TypeOK, Backed, Vouched, Ever
  <1>3. WriterFits' /\ GetsFit'
    BY DEF StoreInv, WriterFits, GetsFit
  <1>4. QED
    BY <1>1, <1>2, <1>3 DEF StoreInv

\* A step of the writer.
LEMMA WriterKeepsIt ==
  ASSUME StoreInv, tail # <<>>,
         \/ Store!FindManifest \/ Store!Discard \/ Store!FindBlob \/ Store!Replace
         \/ Store!WriteBlob \/ Store!Describe \/ Store!PutFails
  PROVE StoreInv'
  <1>0. /\ Store!Wanted \in Artifact /\ Store!Bytes \in Digest /\ Store!TypeOK
        /\ WriterFits /\ Remembered
        /\ tail' = tail => Store!Wanted' = Store!Wanted /\ Store!Bytes' = Store!Bytes
    BY HeadIsPut DEF StoreInv, WriterFits, Store!Wanted, Store!Bytes
  <1> USE DEF Store!Writing, Store!files
  <1>1. CASE Store!FindManifest
    <2>1. Remembered'
      BY <1>0, <1>1 DEF Store!FindManifest, Store!Goes, Remembered, Store!TypeOK
    <2>2. QED
      BY <1>0, <1>1, <2>1, WriterGoesOn DEF Store!FindManifest, Store!TypeOK, Store!File, Remembered
  <1>2. CASE Store!Discard
    <2>1. Remembered'
      BY <1>0, <1>2 DEF Store!Discard, Store!Goes, Remembered, Store!TypeOK
    <2>2. QED
      BY <1>0, <1>2, <2>1, WriterGoesOn DEF Store!Discard, Store!TypeOK, Store!File, Remembered
  <1>3. CASE Store!FindBlob
    <2>1. CASE Store!Stored
      BY <1>0, <1>3, <2>1, StoredIsBacked DEF Store!FindBlob, Store!TypeOK, Remembered, Store!Stored, Store!Settle, Store!Goes
    <2>2. CASE ~Store!Stored
      <3>1. UNCHANGED <<manifest, blob, known>> /\ step = "blob" /\ ~(blob[Store!Bytes] = "good" /\ known)
        BY <1>3, <2>2 DEF Store!FindBlob
      <3>2. PICK s \in {"describe", "replace", "write"} :
              /\ Store!Goes(s)
              /\ s = "describe" => blob[Store!Bytes] = "good"
              /\ s = "replace" => blob[Store!Bytes] # "good"
        BY <1>3, <2>2 DEF Store!FindBlob
      <3>3. Remembered'
        BY <1>0, <3>1, <3>2 DEF Store!Goes, Remembered
      <3>4. QED
        BY <1>0, <3>1, <3>2, <3>3, WriterGoesOn DEF Store!TypeOK
    <2>3. QED
      BY <2>1, <2>2
  <1>4. CASE Store!Replace
    <2>1. Remembered'
      BY <1>0, <1>4 DEF Store!Replace, Store!Goes, Remembered, Store!TypeOK
    <2>2. QED
      BY <1>0, <1>4, <2>1, WriterGoesOn DEF Store!Replace, Store!TypeOK, Store!File, Remembered
  <1>5. CASE Store!WriteBlob
    <2>1. CASE known
      BY <1>0, <1>5, <2>1, StoredIsBacked DEF Store!WriteBlob, Store!TypeOK, Store!File, Remembered
    <2>2. CASE ~known
      BY <1>0, <1>5, <2>2, WriterGoesOn DEF Store!WriteBlob, Store!TypeOK, Store!File, Remembered, Store!Goes
    <2>3. QED
      BY <2>1, <2>2
  <1>6. CASE Store!Describe
    BY <1>0, <1>6, StoredIsBacked DEF Store!Describe, Store!TypeOK, Store!File, Remembered
  <1>7. CASE Store!PutFails
    <2>1. Store!TypeOK'
      BY <1>0, <1>7, HeadIsPut DEF Store!PutFails, Store!Settle, Store!TypeOK, Waiting
    <2>2. WriterFits'
      BY <1>7, WriterForgets DEF Store!PutFails, Store!Settle
    <2>3. Backed' /\ Vouched' /\ GetsFit'
      BY <1>7 DEF StoreInv, Store!PutFails, Store!Settle, Backed, Vouched, Ever, GetsFit
    <2>4. QED
      BY <2>1, <2>2, <2>3 DEF StoreInv
  <1>8. QED
    BY <1>1, <1>2, <1>3, <1>4, <1>5, <1>6, <1>7

\* What callers do, and what is read for them.
LEMMA CallsKeepIt ==
  ASSUME StoreInv, NEW c \in Caller, NEW a \in Artifact,
         \/ Store!Put(c, a) \/ Store!Get(c, a) \/ \E how \in {"stored", "failed"} : Store!Told(c, how)
         \/ Store!ReadManifest(c) \/ Store!ReadBlob(c) \/ Store!GetReturns(c)
  PROVE StoreInv'
  <1> USE DEF Store!files, Store!writer
  <1>0. Store!TypeOK /\ tail \in Seq(Waiting) /\ None \notin Store!Reading
        /\ Backed /\ Vouched /\ WriterFits /\ GetsFit
    BY DataAssumption DEF StoreInv, Store!TypeOK, Waiting, Store!ReadingAssumption
  <1>1. CASE Store!Put(c, a)
    <2>1. /\ tail' \in Seq(Waiting) /\ tail' # <<>>
          /\ tail # <<>> => Head(tail') = Head(tail)
      <3>1. [by |-> c, artifact |-> a] \in Waiting
        BY DEF Waiting
      <3>2. QED
        BY <1>0, <1>1, <3>1, AppendProperties DEF Store!Put
    <2>2. Store!TypeOK'
      BY <1>0, <1>1, <2>1 DEF Store!Put, Store!TypeOK, Waiting
    <2>3. WriterFits'
      BY <1>0, <1>1, <2>1 DEF Store!Put, WriterFits, Remembered, Store!Wanted, Store!Bytes
    <2>4. Backed' /\ Vouched' /\ GetsFit'
      BY <1>0, <1>1 DEF Store!Put, Backed, Vouched, Ever, GetsFit
    <2>5. QED
      BY <2>2, <2>3, <2>4 DEF StoreInv
  <1>2. ASSUME UNCHANGED <<manifest, blob, tail, step, known, spoilt, acked, harmed>>,
               get' \in [Caller -> Store!Reading \cup {None}],
               put' \in [Caller -> {"none", "waiting", "stored", "failed"}], GetsFit'
        PROVE StoreInv'
    BY <1>0, <1>2 DEF StoreInv, Store!TypeOK, Backed, Vouched, Ever, WriterFits, Remembered,
      Store!Wanted, Store!Bytes
  <1>3. CASE \E how \in {"stored", "failed"} : Store!Told(c, how)
    BY <1>0, <1>2, <1>3 DEF Store!Told, Store!TypeOK, GetsFit
  <1>4. CASE Store!Get(c, a)
    <2>1. [artifact |-> a, at |-> "manifest", due |-> a \in acked] \in Store!Reading
      BY DEF Store!Reading
    <2>2. get' \in [Caller -> Store!Reading \cup {None}]
      BY <1>0, <1>4, <2>1 DEF Store!Get, Store!TypeOK
    <2>3. GetsFit'
      BY <1>0, <1>4, <2>1 DEF Store!Get, Store!TypeOK, GetsFit
    <2>4. QED
      BY <1>0, <1>2, <1>4, <2>2, <2>3 DEF Store!Get, Store!TypeOK
  <1>5. CASE Store!ReadManifest(c)
    <2>1. get' \in [Caller -> Store!Reading \cup {None}]
      BY <1>0, <1>5 DEF Store!ReadManifest, Store!TypeOK, Store!Reading
    <2>2. GetsFit'
      BY <1>0, <1>5 DEF Store!ReadManifest, Store!TypeOK, Store!Reading, GetsFit, Backed
    <2>3. QED
      BY <1>0, <1>2, <1>5, <2>1, <2>2 DEF Store!ReadManifest, Store!TypeOK
  <1>6. CASE Store!ReadBlob(c)
    <2>1. get' \in [Caller -> Store!Reading \cup {None}]
      BY <1>0, <1>6 DEF Store!ReadBlob, Store!TypeOK, Store!Reading
    <2>2. GetsFit'
      BY <1>0, <1>6 DEF Store!ReadBlob, Store!TypeOK, Store!Reading, GetsFit, Backed
    <2>3. QED
      BY <1>0, <1>2, <1>6, <2>1, <2>2 DEF Store!ReadBlob, Store!TypeOK
  <1>7. CASE Store!GetReturns(c)
    BY <1>0, <1>2, <1>7 DEF Store!GetReturns, Store!TypeOK, GetsFit
  <1>8. QED
    BY <1>1, <1>3, <1>4, <1>5, <1>6, <1>7

\* A damaged file spoils what rests on it, and nothing else.
LEMMA DamageKeepsIt == ASSUME StoreInv, Store!Damage PROVE StoreInv'
  <1>0. /\ Store!TypeOK /\ Backed /\ Vouched /\ WriterFits /\ GetsFit
        /\ None \notin Store!Reading /\ DigestOf \in [Artifact -> Digest]
    BY DataAssumption DEF StoreInv, Store!ReadingAssumption, Store!DigestAssumption
  <1>1. ASSUME NEW broken \in SUBSET Artifact, Store!Harms(broken),
               manifest' \in [Artifact -> Store!File], blob' \in [Digest -> Store!File],
               \A a \in Artifact : manifest'[a] = "good" => manifest[a] = "good",
               \A d \in Digest : blob'[d] = "good" => blob[d] = "good",
               \A a \in Artifact \ broken : manifest'[a] = manifest[a] /\ blob'[DigestOf[a]] = blob[DigestOf[a]]
        PROVE StoreInv'
    <2>1. get' \in [Caller -> Store!Reading \cup {None}]
      <3>1. ASSUME NEW c \in Caller, get[c] # None PROVE [get[c] EXCEPT !.due = FALSE] \in Store!Reading
        BY <1>0, <3>1 DEF Store!TypeOK, Store!Reading
      <3>2. QED
        BY <1>0, <1>1, <3>1 DEF Store!Harms, Store!TypeOK
    <2>2. spoilt' \in BOOLEAN
      BY <1>0, <1>1 DEF Store!Harms, Store!TypeOK
    <2>3. Store!TypeOK'
      BY <1>0, <1>1, <2>1, <2>2 DEF Store!Harms, Store!TypeOK
    <2>4. Backed' /\ Vouched'
      BY <1>0, <1>1 DEF Store!Harms, Store!TypeOK, Backed, Vouched, Ever
    <2>5. WriterFits'
      <3>1. CASE tail = <<>>
        BY <1>0, <1>1, <3>1 DEF Store!Harms, WriterFits
      <3>2. CASE tail # <<>>
        BY <1>0, <1>1, <3>2, HeadIsPut DEF Store!Harms, WriterFits, Remembered, Store!Wanted, Store!Bytes
      <3>3. QED
        BY <3>1, <3>2
    <2>6. GetsFit'
      BY <1>0, <1>1 DEF Store!Harms, GetsFit, Store!TypeOK, Store!Reading
    <2>7. QED
      BY <2>3, <2>4, <2>5, <2>6 DEF StoreInv
  <1>2. ASSUME NEW a \in Artifact, NEW f \in Store!File, Store!DamageManifest(a, f) PROVE StoreInv'
    BY <1>0, <1>1, <1>2 DEF Store!DamageManifest, Store!TypeOK, Store!File
  <1>3. ASSUME NEW d \in Digest, NEW f \in Store!File, Store!DamageBlob(d, f) PROVE StoreInv'
    BY <1>0, <1>1, <1>3 DEF Store!DamageBlob, Store!TypeOK, Store!File
  <1>4. QED
    BY <1>2, <1>3 DEF Store!Damage

\* The files are what a restart finds.
LEMMA RestartKeepsIt == ASSUME StoreInv, Store!Crash PROVE StoreInv'
  <1>1. Store!TypeOK' /\ tail' = <<>>
    BY EmptySeq DEF StoreInv, Store!TypeOK, Store!Crash, Store!files
  <1>2. WriterFits'
    BY <1>1 DEF Store!Crash, WriterFits
  <1>3. Backed' /\ Vouched' /\ GetsFit'
    BY DEF StoreInv, Store!Crash, Store!files, Backed, Vouched, Ever, GetsFit
  <1>4. QED
    BY <1>1, <1>2, <1>3 DEF StoreInv

WriterStep == \/ Store!FindManifest \/ Store!Discard \/ Store!FindBlob \/ Store!Replace
              \/ Store!WriteBlob \/ Store!Describe \/ Store!PutFails

\* How a step of the writer moves the queue, and what it makes true of the put that ends.
LEMMA WriterMoves ==
  ASSUME StoreInv, WriterStep
  PROVE /\ tail # <<>> /\ Ever \subseteq Ever'
        /\ \/ UNCHANGED <<put, tail>>
           \/ \E how \in {"stored", "failed"} :
                /\ tail' = Tail(tail) /\ put' = [put EXCEPT ![Head(tail).by] = how]
                /\ how = "stored" => Head(tail).artifact \in Ever'
  <1>1. tail # <<>>
    BY DEF WriterStep, Store!FindManifest, Store!Discard, Store!FindBlob, Store!Replace,
      Store!WriteBlob, Store!Describe, Store!PutFails, Store!Writing
  <1>2. \/ Store!Stored
        \/ Store!PutFails
        \/ UNCHANGED <<put, tail, acked, harmed>>
    BY DEF WriterStep, Store!FindManifest, Store!Discard, Store!FindBlob, Store!Replace,
      Store!WriteBlob, Store!Describe, Store!Goes, Store!calls
  <1>3. CASE Store!Stored
    BY <1>1, <1>3 DEF Store!Stored, Store!Settle, Store!Wanted, Ever, StoreInv, WriterFits, Remembered
  <1>4. CASE Store!PutFails
    BY <1>1, <1>4 DEF Store!PutFails, Store!Settle, Ever
  <1>5. QED
    BY <1>1, <1>2, <1>3, <1>4 DEF Ever

LEMMA DamageMoves == ASSUME Store!Damage PROVE Ever \subseteq Ever' /\ UNCHANGED <<put, tail>>
  BY DEF Store!Damage, Store!DamageManifest, Store!DamageBlob, Store!Harms, Ever
-----------------------------------------------------------------------------
(* The executor's steps                                                    *)

LEMMA ExecutorBegins == Init => ExecutorInv
  <1> SUFFICES ASSUME Init PROVE ExecutorInv
    OBVIOUS
  <1>1. BundleInv /\ StoreInv
    BY BundleBegins, StoreBegins DEF Init
  <1>2. PutsFit
    BY DEF Init, Store!Init, PutsFit, Caller
  <1>3. QED
    BY <1>1, <1>2 DEF Init, ExecutorInv, RunTypeOK, RunFits, WorkFits, Closed

\* What neither the bundle nor the store takes part in.
LEMMA RunAlone ==
  ASSUME ExecutorInv, UNCHANGED <<bundleVars, storeVars, client>>,
         place # "putting" \/ UNCHANGED <<place, todo>>,
         RunTypeOK', RunFits', WorkFits'
  PROVE ExecutorInv'
  <1> USE DEF bundleVars, storeVars
  <1>1. BundleInv'
    BY DEF ExecutorInv, BundleInv, Bundle!TypeOK, CapturedIsThere, Gated, Bundle!Published
  <1>2. StoreInv'
    BY DEF ExecutorInv, StoreInv, Store!TypeOK, Backed, Vouched, Ever, WriterFits, Remembered,
      Store!Wanted, Store!Bytes, GetsFit
  <1>3. PutsFit'
    <2>1. CASE UNCHANGED <<place, todo>>
      BY <2>1 DEF ExecutorInv, PutsFit, Wish, Following, Ever
    <2>2. CASE place # "putting"
      <3>1. put["executor"] = "none"
        BY <2>2 DEF ExecutorInv, PutsFit
      <3>2. \A i \in 1 .. Len(tail) : tail[i].by # "executor"
        BY <3>1 DEF ExecutorInv, PutsFit
      <3>3. \A c \in Caller : c # "executor" => Wish(c)' = Wish(c)
        BY DEF Wish
      <3>4. QED
        BY <3>1, <3>2, <3>3 DEF ExecutorInv, PutsFit, Ever, Caller, Wish
    <2>3. QED
      BY <2>1, <2>2
  <1>4. QED
    BY <1>1, <1>2, <1>3 DEF ExecutorInv

LEMMA AnswersAreTyped == \A v \in Verdict : ResultOf(v) \in Answers
  BY DEF ResultOf, Answers, Verdict

\* The steps of #run that leave the bundle and the store alone.
LEMMA RunKeepsIt ==
  ASSUME ExecutorInv,
         \/ NotStarted \/ MakeRoot \/ Resolve \/ (\E c \in BOOLEAN : KernelCloses(c)) \/ KernelThrows
         \/ KernelReturns \/ Collect \/ Published \/ List \/ Finally \/ Abort \/ Ends
  PROVE ExecutorInv'
  <1> USE DEF Only, Beside
  <1>0. RunTypeOK /\ RunFits /\ WorkFits /\ None \notin Answers
    BY DataAssumption DEF ExecutorInv
  <1>1. ASSUME NotStarted PROVE ExecutorInv'
    <2>1. RunTypeOK'
      BY <1>0, <1>1 DEF NotStarted, Answer, Answers, RunTypeOK
    <2>2. RunFits'
      <3>1. result' \in Answers /\ result'.status = "failed"
        BY <1>1 DEF NotStarted, Answer, Answers
      <3>2. QED
        BY <1>0, <1>1, <3>1 DEF NotStarted, RunFits, Whole, Ever, bundleVars, storeVars
    <2>3. WorkFits'
      BY <1>0, <1>1 DEF NotStarted, Answer, Answers, WorkFits
    <2>4. QED
      BY <1>1, <2>1, <2>2, <2>3, RunAlone DEF NotStarted, Answer, Answers
  <1>2. ASSUME MakeRoot PROVE ExecutorInv'
    <2>1. RunTypeOK'
      BY <1>0, <1>2 DEF MakeRoot, Catch, RunTypeOK
    <2>2. RunFits'
      BY <1>0, <1>2 DEF MakeRoot, Catch, RunFits, Whole, Ever, bundleVars, storeVars
    <2>3. WorkFits'
      BY <1>0, <1>2 DEF MakeRoot, Catch, WorkFits
    <2>4. QED
      BY <1>2, <2>1, <2>2, <2>3, RunAlone DEF MakeRoot, Catch
  <1>3. ASSUME Resolve PROVE ExecutorInv'
    <2>1. RunTypeOK'
      <3>1. started' \in BOOLEAN /\ alive' \in BOOLEAN
        BY <1>0, <1>3 DEF Resolve, Catch, RunTypeOK
      <3>2. QED
        BY <1>0, <1>3, <3>1 DEF Resolve, Catch, RunTypeOK
    <2>2. RunFits'
      BY <1>0, <1>3 DEF Resolve, Catch, RunFits, Whole, Ever, bundleVars, storeVars
    <2>3. WorkFits'
      BY <1>0, <1>3 DEF Resolve, Catch, WorkFits
    <2>4. QED
      BY <1>3, <2>1, <2>2, <2>3, RunAlone DEF Resolve, Catch
  <1>4. ASSUME NEW c \in BOOLEAN, KernelCloses(c) PROVE ExecutorInv'
    <2>1. RunTypeOK'
      BY <1>0, <1>4 DEF KernelCloses, RunTypeOK
    <2>2. RunFits'
      BY <1>0, <1>4 DEF KernelCloses, RunFits, Whole, Ever, bundleVars, storeVars
    <2>3. WorkFits'
      BY <1>0, <1>4 DEF KernelCloses, WorkFits, RunTypeOK
    <2>4. QED
      BY <1>4, <2>1, <2>2, <2>3, RunAlone DEF KernelCloses
  <1>5. ASSUME KernelThrows PROVE ExecutorInv'
    <2>1. RunTypeOK'
      BY <1>0, <1>5 DEF KernelThrows, Catch, RunTypeOK
    <2>2. RunFits'
      BY <1>0, <1>5 DEF KernelThrows, Catch, RunFits, Whole, Ever, bundleVars, storeVars
    <2>3. WorkFits'
      BY <1>0, <1>5 DEF KernelThrows, Catch, WorkFits
    <2>4. QED
      BY <1>5, <2>1, <2>2, <2>3, RunAlone DEF KernelThrows, Catch
  <1>6. ASSUME KernelReturns PROVE ExecutorInv'
    <2>1. RunTypeOK'
      BY <1>0, <1>6 DEF KernelReturns, RunTypeOK
    <2>2. RunFits'
      BY <1>0, <1>6 DEF KernelReturns, RunFits, Whole, Ever, bundleVars, storeVars
    <2>3. WorkFits'
      BY <1>0, <1>6 DEF KernelReturns, WorkFits
    <2>4. QED
      BY <1>6, <2>1, <2>2, <2>3, RunAlone DEF KernelReturns
  <1>7. ASSUME Collect PROVE ExecutorInv'
    <2>1. RunTypeOK'
      BY <1>0, <1>7 DEF Collect, Catch, RunTypeOK
    <2>2. RunFits'
      <3>1. \A e \in Bundle!Item : entry[e] = "captured" => file[e] # None /\ e \in BundleFile
        <4>1. CapturedIsThere /\ Fresh /\ \A e \in Bundle!Item :
                entry[e] = "captured" => source[e] \in {"intact", "changed"}
          BY <1>0, <1>7, DataAssumption
          DEF Collect, RunFits, ExecutorInv, BundleInv, Bundle!EvidenceAssumption, Fresh
        <4>2. QED
          BY <4>1 DEF CapturedIsThere, Fresh, BundleFile
      <3>2. place' = "put" => Whole \subseteq todo'
        BY <1>7, <3>1 DEF Collect, Catch, Whole
      <3>3. QED
        BY <1>0, <1>7, <3>2 DEF Collect, Catch, RunFits, Whole, Ever, bundleVars, storeVars
    <2>3. WorkFits'
      BY <1>0, <1>7 DEF Collect, Catch, WorkFits
    <2>4. QED
      BY <1>7, <2>1, <2>2, <2>3, RunAlone DEF Collect, Catch
  <1>8. ASSUME Published PROVE ExecutorInv'
    <2>1. RunTypeOK'
      BY <1>0, <1>8, AnswersAreTyped DEF Published, Catch, RunTypeOK
    <2>2. RunFits'
      <3>1. place' = "finally" => result' # None
        BY <1>0, <1>8, AnswersAreTyped DEF Published, Catch
      <3>2. Whole' = Whole /\ Whole \subseteq mine
        BY <1>0, <1>8 DEF Published, RunFits, Whole, bundleVars
      <3>3. QED
        BY <1>0, <1>8, <3>1, <3>2 DEF Published, Catch, RunFits, Ever, bundleVars, storeVars
    <2>3. WorkFits'
      BY <1>0, <1>8 DEF Published, Catch, WorkFits
    <2>4. QED
      BY <1>8, <2>1, <2>2, <2>3, RunAlone DEF Published, Catch
  <1>9. ASSUME List PROVE ExecutorInv'
    <2>0. /\ mine' \subseteq Artifact /\ mine' \subseteq Ever
          /\ result' \in Answers /\ result'.status # "completed"
      <3>1. mine' \subseteq {a \in Artifact : manifest[a] = "good"}
        BY <1>9 DEF List, Store!Listed
      <3>2. QED
        BY <1>9, <3>1 DEF List, Answer, Answers, ExecutorInv, StoreInv, Vouched
    <2>1. RunTypeOK'
      BY <1>0, <1>9, <2>0 DEF List, RunTypeOK
    <2>2. RunFits'
      BY <1>0, <1>9, <2>0 DEF List, RunFits, Whole, Ever, bundleVars, storeVars
    <2>3. WorkFits'
      BY <1>0, <1>9 DEF List, Answer, Answers, WorkFits
    <2>4. QED
      BY <1>9, <2>1, <2>2, <2>3, RunAlone DEF List, Answer, Answers
  <1>10. ASSUME Finally PROVE ExecutorInv'
    <2>1. RunTypeOK'
      BY <1>0, <1>10 DEF Finally, MayRemove, RunTypeOK
    <2>2. RunFits'
      BY <1>0, <1>10 DEF Finally, MayRemove, RunFits, Whole, Ever, bundleVars, storeVars
    <2>3. WorkFits'
      BY <1>0, <1>10 DEF Finally, MayRemove, WorkFits
    <2>4. QED
      BY <1>10, <2>1, <2>2, <2>3, RunAlone DEF Finally, MayRemove
  <1>11. ASSUME Abort PROVE ExecutorInv'
    <2>1. RunTypeOK'
      BY <1>0, <1>11 DEF Abort, RunTypeOK
    <2>2. RunFits'
      BY <1>0, <1>11 DEF Abort, RunFits, Whole, Ever, bundleVars, storeVars
    <2>3. WorkFits'
      BY <1>0, <1>11 DEF Abort, WorkFits
    <2>4. QED
      BY <1>11, <2>1, <2>2, <2>3, RunAlone DEF Abort
  <1>12. ASSUME Ends PROVE ExecutorInv'
    <2>1. RunTypeOK'
      <3>1. alive' \in BOOLEAN
        BY <1>12 DEF Ends
      <3>2. QED
        BY <1>0, <1>12, <3>1 DEF Ends, RunTypeOK
    <2>2. RunFits'
      BY <1>0, <1>12 DEF Ends, RunFits, Whole, Ever, bundleVars, storeVars
    <2>3. WorkFits'
      BY <1>0, <1>12 DEF Ends, WorkFits
    <2>4. QED
      BY <1>12, <2>1, <2>2, <2>3, RunAlone DEF Ends
  <1>13. QED
    BY <1>1, <1>2, <1>3, <1>4, <1>5, <1>6, <1>7, <1>8, <1>9, <1>10, <1>11, <1>12

\* The kernel writes the report.
LEMMA ReportKeepsIt == ASSUME ExecutorInv, Report PROVE ExecutorInv'
  <1> USE DEF Report, storeVars, runVars
  <1>1. BundleInv'
    BY BundleKeepsIt DEF ExecutorInv, Bundle!Next
  <1>2. StoreInv'
    BY DEF ExecutorInv, StoreInv, Store!TypeOK, Backed, Vouched, Ever, WriterFits, Remembered,
      Store!Wanted, Store!Bytes, GetsFit
  <1>3. PutsFit'
    BY DEF ExecutorInv, PutsFit, Wish, Following, Ever
  <1>4. RunTypeOK' /\ WorkFits'
    BY DEF ExecutorInv, RunTypeOK, WorkFits
  <1>5. RunFits'
    BY DEF ExecutorInv, RunFits, Ever
  <1>6. QED
    BY <1>1, <1>2, <1>3, <1>4, <1>5 DEF ExecutorInv

\* The record is closed.
LEMMA CloseKeepsIt == ASSUME ExecutorInv, Finish \/ Interrupt PROVE ExecutorInv'
  <1>0. RunTypeOK /\ RunFits /\ WorkFits /\ None \notin Answers
    BY DataAssumption DEF ExecutorInv
  <1>1. CASE Finish
    <2>1. result \in Answers
      BY <1>0, <1>1 DEF Finish, RunFits, RunTypeOK
    <2>2. RunTypeOK'
      <3>1. record' \in [status : {"running"} \cup Closed, passed : BOOLEAN, tainted : BOOLEAN,
                          artifacts : SUBSET Artifact]
        <4>1. /\ (cleanup \notin {"confirmed", "notRequired"}) \in BOOLEAN
              /\ record.artifacts \cup mine \in SUBSET Artifact
              /\ result.passed \in BOOLEAN /\ result.status \in {"completed", "failed", "cancelled"}
          BY <1>0, <2>1 DEF RunTypeOK, Answers
        <4>2. QED
          <5>1. CASE record.status = "running"
            <6>1. PICK status \in {"completed", "failed"}, tainted \in BOOLEAN :
                    record' = [status |-> status, passed |-> result.passed, tainted |-> tainted,
                               artifacts |-> record.artifacts \cup mine]
              BY <1>1, <4>1, <5>1 DEF Finish, Close
            <6>2. QED
              BY <4>1, <6>1 DEF Closed
          <5>2. CASE record.status # "running"
            BY <1>0, <1>1, <5>2 DEF Finish, RunTypeOK
          <5>3. QED
            BY <5>1, <5>2
      <3>2. QED
        BY <1>0, <1>1, <3>1 DEF Finish, RunTypeOK
    <2>3. RunFits' /\ WorkFits'
      BY <1>0, <1>1, <2>1 DEF Finish, Close, RunTypeOK, RunFits, WorkFits, Whole, Ever, bundleVars, storeVars, Answers
    <2>4. QED
      BY <1>0, <1>1, <2>2, <2>3, RunAlone DEF Finish, RunFits
  <1>2. CASE Interrupt
    <2>1. RunTypeOK'
      BY <1>0, <1>2 DEF Interrupt, Close, RunTypeOK, Closed, runVars
    <2>2. RunFits' /\ WorkFits'
      BY <1>0, <1>2 DEF Interrupt, Close, RunTypeOK, RunFits, WorkFits, Whole, Ever, bundleVars, storeVars, runVars
    <2>3. QED
      BY <1>0, <1>2, <2>1, <2>2, RunAlone DEF Interrupt, runVars
  <1>3. QED
    BY <1>1, <1>2

\* A put that begins.
LEMMA PutBegins ==
  ASSUME ExecutorInv, NEW c \in Caller, NEW a \in Artifact, Store!Put(c, a),
         a = Wish(c)', c = "executor" => place' = "putting", c = "client" => client' # None,
         c # "executor" => UNCHANGED <<place, todo>>, c # "client" => client' = client
  PROVE StoreInv' /\ PutsFit' /\ Ever' = Ever
  <1>1. StoreInv' /\ Ever' = Ever
    BY CallsKeepIt DEF ExecutorInv, Store!Put, Ever
  <1>2. /\ tail \in Seq(Waiting) /\ [by |-> c, artifact |-> a] \in Waiting
        /\ put \in [Caller -> {"none", "waiting", "stored", "failed"}] /\ PutsFit
    BY DEF ExecutorInv, StoreInv, Store!TypeOK, Waiting
  <1>3. /\ Len(tail') = Len(tail) + 1 /\ tail'[Len(tail) + 1] = [by |-> c, artifact |-> a]
        /\ \A i \in 1 .. Len(tail) : tail'[i] = tail[i]
    BY <1>2, AppendProperties DEF Store!Put
  <1>4. \A i \in 1 .. Len(tail) : tail[i] \in Waiting /\ tail[i].by \in Caller /\ tail[i].by # c
    <2>1. \A i \in 1 .. Len(tail) : tail[i] \in Waiting
      BY <1>2
    <2>2. put[c] = "none"
      BY DEF Store!Put
    <2>3. QED
      BY <1>2, <2>1, <2>2 DEF PutsFit, Waiting
  <1>5. \A d \in Caller \ {c} : put'[d] = put[d] /\ Wish(d)' = Wish(d)
    <2>1. \A d \in Caller \ {c} : put'[d] = put[d]
      BY <1>2 DEF Store!Put
    <2>2. CASE c = "executor"
      BY <2>1, <2>2 DEF Wish, Caller
    <2>3. CASE c = "client"
      BY <2>1, <2>3 DEF Wish, Caller, Following
    <2>4. QED
      BY <2>2, <2>3 DEF Caller
  <1>6. put'[c] = "waiting"
    BY <1>2 DEF Store!Put
  <1>7. \A i \in 1 .. Len(tail') : i \in 1 .. Len(tail) \/ i = Len(tail) + 1
    BY <1>2, <1>3
  <1>8. PutsFit'
    <2>1. ASSUME NEW i \in 1 .. Len(tail')
          PROVE  put'[tail'[i].by] = "waiting" /\ (tail[i].artifact = Wish(tail[i].by))'
      <3>1. CASE i \in 1 .. Len(tail)
        <4>1. tail'[i] = tail[i] /\ tail[i].by \in Caller \ {c}
          BY <1>3, <1>4, <3>1
        <4>2. put'[tail[i].by] = put[tail[i].by] /\ put[tail[i].by] = "waiting"
              /\ tail[i].artifact = Wish(tail[i].by)
          BY <1>2, <1>5, <3>1, <4>1 DEF PutsFit
        <4>3. CASE tail[i].by = "executor"
          BY <1>5, <4>1, <4>2, <4>3 DEF Wish
        <4>4. CASE tail[i].by = "client"
          BY <1>5, <4>1, <4>2, <4>4 DEF Wish
        <4>5. QED
          BY <4>1, <4>3, <4>4 DEF Caller
      <3>2. CASE i = Len(tail) + 1
        BY <1>3, <1>6, <3>2 DEF Wish
      <3>3. QED
        BY <1>7, <3>1, <3>2
    <2>2. \A i, j \in 1 .. Len(tail') : tail'[i].by = tail'[j].by => i = j
      BY <1>2, <1>3, <1>4, <1>7 DEF PutsFit
    <2>3. \A d \in Caller : put'[d] = "stored" => Wish(d)' \in Ever'
      BY <1>1, <1>2, <1>5, <1>6 DEF PutsFit
    <2>4. /\ put'["executor"] # "none" => place' = "putting"
          /\ put'["client"] # "none" => client' # None
      BY <1>2, <1>5, <1>6 DEF PutsFit, Caller
    <2>5. QED
      BY <2>1, <2>2, <2>3, <2>4 DEF PutsFit
  <1>9. QED
    BY <1>1, <1>8

\* A caller learns how its put ended.
LEMMA PutIsTold ==
  ASSUME ExecutorInv, NEW c \in Caller, NEW how \in {"stored", "failed"}, Store!Told(c, how),
         c # "executor" => UNCHANGED <<place, todo>>, c # "client" => client' = client
  PROVE StoreInv' /\ PutsFit' /\ Ever' = Ever /\ (how = "stored" => Wish(c) \in Ever)
  <1>1. StoreInv' /\ Ever' = Ever
    <2>1. PICK a \in Artifact : TRUE
      BY DEF Artifact, BundleFile
    <2>2. QED
      BY <2>1, CallsKeepIt DEF ExecutorInv, Store!Told, Ever
  <1>2. put \in [Caller -> {"none", "waiting", "stored", "failed"}] /\ PutsFit
    BY DEF ExecutorInv, StoreInv, Store!TypeOK
  <1>3. tail' = tail /\ put[c] = how /\ put'[c] = "none" /\ \A d \in Caller \ {c} : put'[d] = put[d]
    BY <1>2 DEF Store!Told, Store!writer
  <1>4. \A i \in 1 .. Len(tail) : tail[i].by # c
    BY <1>2, <1>3 DEF PutsFit
  <1>5. \A d \in Caller \ {c} : Wish(d)' = Wish(d)
    <2>1. CASE c = "executor"
      BY <2>1 DEF Wish, Caller
    <2>2. CASE c = "client"
      BY <2>2 DEF Wish, Caller, Following
    <2>3. QED
      BY <2>1, <2>2 DEF Caller
  <1>6. \A i \in 1 .. Len(tail) : tail[i].by \in Caller
    <2>1. tail \in Seq(Waiting)
      BY DEF ExecutorInv, StoreInv, Store!TypeOK, Waiting
    <2>2. QED
      <3>1. \A i \in 1 .. Len(tail) : tail[i] \in Waiting
        BY <2>1
      <3>2. QED
        BY <3>1 DEF Waiting
  <1>7. PutsFit'
    <2>1. ASSUME NEW i \in 1 .. Len(tail)
          PROVE  put'[tail[i].by] = "waiting" /\ (tail[i].artifact = Wish(tail[i].by))'
      BY <1>2, <1>3, <1>4, <1>5, <1>6 DEF PutsFit, Wish, Caller
    <2>2. \A d \in Caller : put'[d] = "stored" => Wish(d)' \in Ever'
      BY <1>1, <1>2, <1>3, <1>5 DEF PutsFit
    <2>3. QED
      BY <1>2, <1>3, <2>1, <2>2 DEF PutsFit, Caller
  <1>8. QED
    BY <1>1, <1>2, <1>3, <1>7 DEF PutsFit

\* What leaves the bundle alone leaves it sound.
LEMMA BundleStays == ASSUME ExecutorInv, UNCHANGED bundleVars PROVE BundleInv' /\ Whole' = Whole
  BY DEF bundleVars, ExecutorInv, BundleInv, Bundle!TypeOK, CapturedIsThere, Gated, Bundle!Published, Whole

\* The executor's own puts, and the client's.
LEMMA PuttingKeepsIt ==
  ASSUME ExecutorInv,
         PutNext \/ PutSettles \/ (\E a \in Extra : PutArtifact(a)) \/ AttachArtifact
  PROVE ExecutorInv'
  <1> USE DEF Beside
  <1>0. RunTypeOK /\ RunFits /\ WorkFits /\ None \notin Extra
        /\ (todo # {} => Following \in todo)
    BY DataAssumption DEF ExecutorInv, Following
  <1>1. CASE PutNext
    <2>1. Following \in Artifact /\ "executor" \in Caller /\ UNCHANGED bundleVars
      BY <1>0, <1>1 DEF PutNext, RunTypeOK, Artifact, Caller
    <2>2. StoreInv' /\ PutsFit' /\ Ever' = Ever
      BY <1>1, <2>1, PutBegins DEF PutNext, Wish, Following
    <2>3. BundleInv' /\ Whole' = Whole
      BY <2>1, BundleStays
    <2>4. RunTypeOK' /\ RunFits' /\ WorkFits'
      BY <1>0, <1>1, <2>2, <2>3 DEF PutNext, RunTypeOK, RunFits, WorkFits, bundleVars
    <2>5. QED
      BY <2>2, <2>3, <2>4 DEF ExecutorInv
  <1>2. CASE PutSettles
    <2>1. PICK how \in {"stored", "failed"} :
            /\ Store!Told("executor", how)
            /\ how = "stored" => place' = "put" /\ mine' = mine \cup {Following}
            /\ how = "failed" => place' = "list" /\ mine' = mine
      BY <1>2 DEF PutSettles, Catch
    <2>2. StoreInv' /\ PutsFit' /\ Ever' = Ever /\ (how = "stored" => Following \in Ever)
      BY <1>2, <2>1, PutIsTold DEF PutSettles, Wish, Caller
    <2>3. BundleInv' /\ Whole' = Whole
      BY <1>2, BundleStays DEF PutSettles
    <2>4. RunTypeOK'
      BY <1>0, <1>2, <2>1 DEF PutSettles, RunTypeOK, RunFits, Artifact
    <2>5. RunFits' /\ WorkFits'
      BY <1>0, <1>2, <2>1, <2>2, <2>3 DEF PutSettles, RunFits, WorkFits, bundleVars
    <2>6. QED
      BY <2>2, <2>3, <2>4, <2>5 DEF ExecutorInv
  <1>3. ASSUME NEW a \in Extra, PutArtifact(a) PROVE ExecutorInv'
    <2>1. /\ a \in Artifact /\ "client" \in Caller /\ UNCHANGED <<bundleVars, place, todo>>
          /\ client' = a /\ a # None
      BY <1>0, <1>3 DEF PutArtifact, Artifact, Caller, runVars
    <2>2. StoreInv' /\ PutsFit' /\ Ever' = Ever
      BY <1>3, <2>1, PutBegins DEF PutArtifact, Wish
    <2>3. BundleInv' /\ Whole' = Whole
      BY <2>1, BundleStays
    <2>4. RunTypeOK' /\ RunFits' /\ WorkFits'
      BY <1>0, <1>3, <2>1, <2>2, <2>3 DEF PutArtifact, RunTypeOK, RunFits, WorkFits, bundleVars, runVars
    <2>5. QED
      BY <2>2, <2>3, <2>4 DEF ExecutorInv
  <1>4. CASE AttachArtifact
    <2>1. PICK how \in {"stored", "failed"} :
            /\ Store!Told("client", how)
            /\ \/ record' = record
               \/ /\ how = "stored" /\ record.status = "running"
                  /\ record' = [record EXCEPT !.artifacts = @ \cup {client}]
      BY <1>4 DEF AttachArtifact
    <2>2. /\ StoreInv' /\ PutsFit' /\ Ever' = Ever /\ (how = "stored" => client \in Ever)
          /\ client \in Extra
      BY <1>0, <1>4, <2>1, PutIsTold DEF AttachArtifact, Wish, Caller, runVars, RunTypeOK
    <2>3. BundleInv' /\ Whole' = Whole
      BY <1>4, BundleStays DEF AttachArtifact
    <2>4. /\ record' \in [status : {"running"} \cup Closed, passed : BOOLEAN, tainted : BOOLEAN,
                          artifacts : SUBSET Artifact]
          /\ record'.status = record.status /\ record.artifacts \subseteq record'.artifacts
          /\ record'.artifacts \subseteq Ever
      <3>1. CASE record' = record
        BY <1>0, <3>1 DEF RunTypeOK, RunFits
      <3>2. CASE record' # record
        <4>1. /\ record' = [record EXCEPT !.artifacts = @ \cup {client}]
              /\ client \in Artifact /\ client \in Ever
          BY <2>1, <2>2, <3>2 DEF Artifact
        <4>2. QED
          BY <1>0, <4>1 DEF RunTypeOK, RunFits
      <3>3. QED
        BY <3>1, <3>2
    <2>5. RunTypeOK' /\ WorkFits'
      BY <1>0, <1>4, <2>4 DEF AttachArtifact, RunTypeOK, WorkFits, runVars
    <2>6. RunFits'
      BY <1>0, <1>4, <2>2, <2>3, <2>4 DEF AttachArtifact, RunFits, runVars, bundleVars
    <2>7. QED
      BY <2>2, <2>3, <2>5, <2>6 DEF ExecutorInv
  <1>5. QED
    BY <1>1, <1>2, <1>3, <1>4

\* What a step of the store leaves of the run, whatever becomes of the queue.
LEMMA AroundTheStore ==
  ASSUME ExecutorInv, UNCHANGED <<bundleVars, runVars, record, client>>,
         StoreInv', PutsFit', Ever \subseteq Ever'
  PROVE ExecutorInv'
  <1>1. BundleInv' /\ Whole' = Whole
    BY BundleStays
  <1>2. RunTypeOK' /\ WorkFits'
    BY DEF ExecutorInv, RunTypeOK, WorkFits, runVars
  <1>3. RunFits'
    BY <1>1 DEF ExecutorInv, RunFits, runVars, bundleVars
  <1>4. QED
    BY <1>1, <1>2, <1>3 DEF ExecutorInv

\* The store works, is read and is damaged.
LEMMA StoreWorksKeepsIt == ASSUME ExecutorInv, StoreWorks PROVE ExecutorInv'
  <1>0. /\ UNCHANGED <<bundleVars, runVars, record, client>> /\ UNCHANGED <<place, todo, client>>
        /\ PutsFit /\ StoreInv
    BY DEF StoreWorks, runVars, ExecutorInv
  <1>1. \A c \in Caller : Wish(c)' = Wish(c)
    BY <1>0 DEF Wish, Following
  <1>2. ASSUME Ever \subseteq Ever', UNCHANGED <<put, tail>> PROVE PutsFit'
    <2>1. \A i \in 1 .. Len(tail) : tail[i].by \in Caller
      <3>1. tail \in Seq(Waiting)
        BY <1>0 DEF StoreInv, Store!TypeOK, Waiting
      <3>2. \A i \in 1 .. Len(tail) : tail[i] \in Waiting
        BY <3>1
      <3>3. QED
        BY <3>2 DEF Waiting
    <2>2. QED
      BY <1>0, <1>1, <1>2, <2>1 DEF PutsFit, Wish, Following
  <1>3. CASE WriterStep
    <2>1. StoreInv' /\ Ever \subseteq Ever' /\ tail # <<>>
      BY <1>0, <1>3, WriterMoves, WriterKeepsIt DEF WriterStep
    <2>2. CASE UNCHANGED <<put, tail>>
      BY <1>0, <1>2, <2>1, <2>2, AroundTheStore
    <2>3. CASE ~UNCHANGED <<put, tail>>
      <3>1. PICK how \in {"stored", "failed"} :
              /\ tail' = Tail(tail) /\ put' = [put EXCEPT ![Head(tail).by] = how]
              /\ how = "stored" => Head(tail).artifact \in Ever'
        BY <1>0, <1>3, <2>3, WriterMoves
      <3>2. /\ tail \in Seq(Waiting) /\ Head(tail) = tail[1] /\ Head(tail).by \in Caller
            /\ put \in [Caller -> {"none", "waiting", "stored", "failed"}]
            /\ Len(tail') = Len(tail) - 1 /\ Len(tail) \in Nat /\ 1 \in 1 .. Len(tail)
            /\ \A i \in 1 .. Len(tail') : tail'[i] = tail[i + 1] /\ i + 1 \in 1 .. Len(tail)
        BY <1>0, <2>1, <3>1, HeadTailProperties, HeadIsPut DEF StoreInv, Store!TypeOK, Waiting
      <3>3. \A i \in 1 .. Len(tail) : tail[i].by \in Caller
        <4>1. \A i \in 1 .. Len(tail) : tail[i] \in Waiting
          BY <3>2
        <4>2. QED
          BY <4>1 DEF Waiting
      <3>4. put[Head(tail).by] = "waiting" /\ Head(tail).artifact = Wish(Head(tail).by)
        BY <1>0, <3>2 DEF PutsFit
      <3>5. ASSUME NEW i \in 1 .. Len(tail')
            PROVE  put'[tail'[i].by] = "waiting" /\ (tail[i].artifact = Wish(tail[i].by))'
        <4>1. /\ tail'[i] = tail[i + 1] /\ tail[i + 1].by # Head(tail).by /\ i + 1 \in 1 .. Len(tail)
              /\ put[tail[i + 1].by] = "waiting" /\ tail[i + 1].artifact = Wish(tail[i + 1].by)
          <5>1. i + 1 \in 1 .. Len(tail) /\ i + 1 # 1
            BY <3>2
          <5>2. QED
            BY <1>0, <3>2, <5>1 DEF PutsFit
        <4>2. put'[tail'[i].by] = "waiting"
          BY <3>1, <3>2, <3>3, <4>1
        <4>3. (tail[i].artifact = Wish(tail[i].by))'
          BY <1>0, <4>1 DEF Wish, Following
        <4>4. QED
          BY <4>2, <4>3
      <3>6. \A i, j \in 1 .. Len(tail') : tail'[i].by = tail'[j].by => i = j
        <4>1. ASSUME NEW i \in 1 .. Len(tail'), NEW j \in 1 .. Len(tail'), tail'[i].by = tail'[j].by
              PROVE  i = j
          <5>1. /\ i + 1 \in 1 .. Len(tail) /\ j + 1 \in 1 .. Len(tail)
                /\ tail[i + 1].by = tail[j + 1].by
            BY <3>2, <4>1
          <5>2. i + 1 = j + 1
            BY <1>0, <5>1 DEF PutsFit
          <5>3. QED
            BY <3>2, <5>2
        <4>2. QED
          BY <4>1
      <3>7. \A c \in Caller : put'[c] = "stored" => Wish(c)' \in Ever'
        BY <1>0, <1>1, <2>1, <3>1, <3>2, <3>4 DEF PutsFit
      <3>8. /\ put'["executor"] # "none" => place' = "putting"
            /\ put'["client"] # "none" => client' # None
        BY <1>0, <3>1, <3>2, <3>4 DEF PutsFit, Caller
      <3>9. PutsFit'
        BY <3>5, <3>6, <3>7, <3>8 DEF PutsFit
      <3>10. QED
        BY <1>0, <2>1, <3>9, AroundTheStore
    <2>4. QED
      BY <2>2, <2>3
  <1>4. CASE Store!Damage
    BY <1>0, <1>2, <1>4, DamageMoves, DamageKeepsIt, AroundTheStore
  <1>5. ASSUME NEW c \in Caller, NEW a \in Artifact,
               Store!ReadManifest(c) \/ Store!ReadBlob(c) \/ Store!GetReturns(c) \/ Store!Get(c, a)
        PROVE ExecutorInv'
    <2>1. UNCHANGED <<put, tail, acked, harmed>>
      BY <1>5 DEF Store!ReadManifest, Store!ReadBlob, Store!GetReturns, Store!Get, Store!writer
    <2>2. StoreInv'
      BY <1>0, <1>5, CallsKeepIt
    <2>3. QED
      BY <1>0, <1>2, <2>1, <2>2, AroundTheStore DEF Ever
  <1>6. PICK a \in Artifact : TRUE
    BY DEF Artifact, BundleFile
  <1>7. QED
    BY <1>3, <1>4, <1>5, <1>6 DEF StoreWorks, Store!Work, WriterStep, Caller

\* A restart finds the files and closes the record.
LEMMA CrashKeepsIt == ASSUME ExecutorInv, Crash PROVE ExecutorInv'
  <1>0. /\ RunTypeOK /\ RunFits /\ WorkFits /\ place' = "gone" /\ client' = None
        /\ UNCHANGED <<root, started, aborted, alive, cleanup, todo, mine, result>>
    BY DEF Crash, ExecutorInv
  <1>1. BundleInv' /\ entry' = entry
    <2>1. CASE Bundle!Publishing
      BY <2>1, BundleKeepsIt DEF Crash, ExecutorInv, Bundle!Next, Bundle!Crash
    <2>2. CASE ~Bundle!Publishing
      BY <2>2, BundleStays DEF Crash, bundleVars
    <2>3. QED
      BY <2>1, <2>2
  <1>2. StoreInv' /\ Ever' = Ever /\ tail' = <<>> /\ \A c \in Caller : put'[c] = "none"
    BY RestartKeepsIt DEF Crash, ExecutorInv, Store!Crash, Ever
  <1>3. PutsFit'
    BY <1>2 DEF PutsFit, Caller
  <1>4. /\ record' \in [status : {"running"} \cup Closed, passed : BOOLEAN, tainted : BOOLEAN,
                        artifacts : SUBSET Artifact]
        /\ record'.artifacts = record.artifacts
        /\ record'.status = "completed" => record.status = "completed"
    <2>1. CASE record.status = "running"
      <3>1. record' = [status |-> "interrupted", passed |-> FALSE, tainted |-> TRUE,
                       artifacts |-> record.artifacts \cup {}]
        BY <2>1 DEF Crash, Close
      <3>2. record.artifacts \in SUBSET Artifact
        BY <1>0 DEF RunTypeOK
      <3>3. QED
        BY <3>1, <3>2 DEF Closed
    <2>2. CASE record.status # "running"
      BY <1>0, <2>2 DEF Crash, RunTypeOK
    <2>3. QED
      BY <2>1, <2>2
  <1>5. RunTypeOK' /\ WorkFits'
    BY <1>0, <1>4 DEF RunTypeOK, WorkFits
  <1>6. RunFits'
    BY <1>0, <1>1, <1>2, <1>4 DEF RunFits, Whole
  <1>7. QED
    BY <1>1, <1>2, <1>3, <1>5, <1>6 DEF ExecutorInv
-----------------------------------------------------------------------------
(* What holds of every run                                                 *)

\* The inductive invariant of the executor with its bundle and its store.
THEOREM ExecutorIsSound == Spec => []ExecutorInv
  <1>1. Init => ExecutorInv
    BY ExecutorBegins
  <1>2. ExecutorInv /\ [Next]_vars => ExecutorInv'
    <2> SUFFICES ASSUME ExecutorInv, [Next]_vars PROVE ExecutorInv'
      OBVIOUS
    <2>1. CASE UNCHANGED vars
      <3>1. RunTypeOK' /\ RunFits' /\ WorkFits'
        BY <2>1 DEF vars, bundleVars, storeVars, runVars, ExecutorInv, RunTypeOK, RunFits, WorkFits, Whole, Ever
      <3>2. QED
        BY <2>1, <3>1, RunAlone DEF vars, runVars
    <2>2. QED
      BY <2>1, RunKeepsIt, ReportKeepsIt, CloseKeepsIt, PuttingKeepsIt, StoreWorksKeepsIt, CrashKeepsIt DEF Next
  <1>3. QED
    BY <1>1, <1>2, PTL DEF Spec

\* The type invariant.
THEOREM ExecutorIsTyped == Spec => []TypeOK
  <1>1. ExecutorInv => TypeOK
    BY DEF ExecutorInv, BundleInv, StoreInv, TypeOK
  <1>2. QED
    BY <1>1, ExecutorIsSound, PTL

\* Whoever sees a completion marker sees a whole report, and whoever reads a stored
\* artifact that nobody damaged gets its bytes (write-report.ts, file-artifact-store.ts).
THEOREM FilesStayWhole == Spec => []FilesAreWhole
  <1>1. ExecutorInv => FilesAreWhole
    <2> SUFFICES ASSUME ExecutorInv PROVE FilesAreWhole
      OBVIOUS
    <2>1. Bundle!CompleteIsWhole
      <3>1. Fresh
        BY DataAssumption DEF Bundle!EvidenceAssumption, Fresh
      <3>2. QED
        BY <3>1 DEF ExecutorInv, BundleInv, Bundle!CompleteIsWhole, CapturedIsThere, Gated, Bundle!Published, Fresh
    <2>2. Store!StoredIsRead
      BY DEF ExecutorInv, StoreInv, GetsFit, Store!StoredIsRead
    <2>3. QED
      BY <2>1, <2>2 DEF FilesAreWhole, CompleteIsWhole, StoredIsRead
  <1>2. QED
    BY <1>1, ExecutorIsSound, PTL

\* A run recorded as completed has its whole bundle on record, and no record lists what
\* was not stored (executor.ts, bundle-artifacts.ts, putArtifact).
THEOREM RecordStaysTrue == Spec => []RecordIsTrue
  <1>1. ExecutorInv => RecordIsTrue
    BY DEF ExecutorInv, RunFits, Whole, Ever, RecordIsTrue, CompletedHasBundle, RecordedIsStored
  <1>2. QED
    BY <1>1, ExecutorIsSound, PTL

\* No directory is lost: neither the work of a run while something of it may be alive, nor
\* a directory that was there before (removeWork, writeReportV3Bundle).
THEOREM DirectoriesStay == Spec => DirectoriesAreKept
  <1>1. ExecutorInv => WorkIsKept
    BY DEF ExecutorInv, WorkFits, WorkIsKept
  <1>2. ExecutorInv /\ [Next]_vars => [ForeignStays]_vars
    <2> SUFFICES ASSUME ExecutorInv, [Next]_vars
                 PROVE ForeignStays
      OBVIOUS
    <2>1. ASSUME Bundle!Next, dir = "foreign" PROVE dir' = "foreign"
      <3>1. phase \in {"start", "over"}
        BY <2>1 DEF ExecutorInv, BundleInv
      <3>2. QED
        BY <2>1, <3>1 DEF Bundle!Next, Bundle!Step, Bundle!MakeDirectory, Bundle!OtherPublishes, Bundle!Skip,
          Bundle!Copy, Bundle!Name, Bundle!CopyFails, Bundle!AssertRequired, Bundle!WriteMarker,
          Bundle!Complete, Bundle!StepFails, Bundle!ViewWritten, Bundle!ViewFails, Bundle!Rename,
          Bundle!Undo, Bundle!Remove, Bundle!UndoFails, Bundle!Crash, Bundle!Fails
    <2>2. Bundle!Next \/ UNCHANGED dir
      BY DEF Next, vars, bundleVars, runVars, Only, Beside, Bundle!Next, NotStarted, MakeRoot, Resolve, KernelCloses,
        KernelThrows, Report, KernelReturns, Collect, PutNext, PutSettles, Published, List, Finally, Finish,
        Abort, Interrupt, Ends, PutArtifact, AttachArtifact, StoreWorks, Crash
    <2>3. root = "foreign" => root' = "foreign"
      BY DEF Next, vars, bundleVars, runVars, Only, Beside, NotStarted, MakeRoot, Resolve, KernelCloses,
        KernelThrows, Report, KernelReturns, Collect, PutNext, PutSettles, Published, List, Finally, Finish,
        Abort, Interrupt, Ends, PutArtifact, AttachArtifact, StoreWorks, Crash, MayRemove
    <2>4. QED
      BY <2>1, <2>2, <2>3 DEF ForeignStays
  <1>3. Spec => []WorkIsKept
    BY <1>1, ExecutorIsSound, PTL
  <1>4. Spec => OthersKeepTheirs
    BY <1>2, ExecutorIsSound, PTL DEF Spec, OthersKeepTheirs
  <1>5. QED
    BY <1>3, <1>4 DEF DirectoriesAreKept
=============================================================================
