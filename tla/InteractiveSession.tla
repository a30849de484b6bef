------------------------- MODULE InteractiveSession -------------------------
(***************************************************************************)
(* The interactive-session lease of packages/test: processes of one        *)
(* machine compete for the desktop through one directory,                  *)
(* <name>.lease, holding owner.json.  A lease is published by renaming a   *)
(* private pending directory onto that path and ends by renaming the path  *)
(* to <name>.lease.retired-<token>, which is never removed.                *)
(*                                                                         *)
(* A directory is identified with the lease token in its owner.json.       *)
(* Callers are the acquire calls; several may share a process (a host).    *)
(* Every await of the source is a separate step here.                      *)
(***************************************************************************)
CONSTANTS
  Caller,    \* concurrent users of acquireInteractiveSessionLease
  Host,      \* operating-system processes
  HostOf,    \* the process each caller runs in
  Pid,       \* process ids, reused by the operating system
  Mark,      \* process creation markers
  Token,     \* lease tokens (random UUIDs)
  None

Identity == Pid \X Mark

ASSUME HostOfAssumption == HostOf \in [Caller -> Host]
ASSUME NoneAssumption == None \notin Token /\ None \notin Identity

VARIABLES
  lock,      \* the token in <name>.lease, or None when the path is absent
  retired,   \* retired[t]: the token inside <name>.lease.retired-t, or None
  owner,     \* owner[t]: the process identity owner.json names, or None if unissued
  id,        \* id[h]: the identity process h runs under, or None when it is not running
  born,      \* identities the operating system has handed out
  pc,        \* pc[c]: where caller c is
  use,       \* use[c]: which call of readLease or moveLeaseToProof c is inside
  target,    \* target[c]: the lease c examines, moves or holds
  dir,       \* dir[c]: directory generation readLease saw first
  meta,      \* meta[c]: what readLease got from owner.json
  signal     \* signal[c]: the caller's AbortSignal is aborted

local == <<pc, use, target, dir, meta>>
vars == <<lock, retired, owner, id, born, local, signal>>

Resting == {"idle", "released"}   \* an acquisition without a lease ends in "idle"
Failed  == {"notOwner", "corrupt"}
PC == Resting \cup Failed \cup
      {"dead", "enter", "look", "stat", "meta", "check", "observe",
       "prove", "rename", "verify", "publish", "held"}
Use == {"acquire", "claim", "stale", "cancel", "release"}

Live == {id[h] : h \in {g \in Host : id[g] # None}}
Issued == {t \in Token : owner[t] # None}

\* A caller that still has to give its lease back.
Holding(c) == \/ pc[c] = "held"
              \/ use[c] \in {"claim", "cancel", "release"}
                 /\ pc[c] \in {"stat", "meta", "check", "prove", "rename"}

\* A caller whose acquisition is in flight.
Waiting(c) == /\ use[c] \in {"acquire", "stale"}
              /\ pc[c] \notin Resting \cup Failed \cup {"dead", "held"}

TypeOK == /\ lock \in Token \cup {None}
          /\ retired \in [Token -> Token \cup {None}]
          /\ owner \in [Token -> Identity \cup {None}]
          /\ id \in [Host -> Identity \cup {None}]
          /\ born \subseteq Identity
          /\ pc \in [Caller -> PC]
          /\ use \in [Caller -> Use]
          /\ target \in [Caller -> Token \cup {None}]
          /\ dir \in [Caller -> Token \cup {None}]
          /\ meta \in [Caller -> Token \cup {None}]
          /\ signal \in [Caller -> BOOLEAN]

\* Every process starts down; the first Boot gives it an identity.
Init == /\ lock = None
        /\ retired = [t \in Token |-> None]
        /\ owner = [t \in Token |-> None]
        /\ id = [h \in Host |-> None]
        /\ born = {}
        /\ pc = [c \in Caller |-> "dead"]
        /\ use = [c \in Caller |-> "acquire"]
        /\ target = [c \in Caller |-> None]
        /\ dir = [c \in Caller |-> None]
        /\ meta = [c \in Caller |-> None]
        /\ signal = [c \in Caller |-> FALSE]
-----------------------------------------------------------------------------
(* Helpers: control transfer of one caller, leaving the others alone.      *)

GoTo(c, place) == pc' = [pc EXCEPT ![c] = place]
Call(c, u) == use' = [use EXCEPT ![c] = u]

Files == <<lock, retired, owner>>
Processes == <<id, born>>

\* Mutant: a confirmed release reports its outcome the wrong way round.
MoveDone_Inverted(c, ok) ==
  /\ GoTo(c, CASE use[c] = "stale"   -> "look"
               [] use[c] = "cancel"  -> IF ok THEN "idle" ELSE "notOwner"
               [] use[c] = "release" -> IF ok THEN "notOwner" ELSE "released")
  /\ Call(c, "acquire")

\* moveLeaseToProof returns ok to the call that use[c] names.
MoveDone(c, ok) ==
  /\ GoTo(c, CASE use[c] = "stale"   -> "look"
               [] use[c] = "cancel"  -> IF ok THEN "idle" ELSE "notOwner"
               [] use[c] = "release" -> IF ok THEN "released" ELSE "notOwner")
  /\ Call(c, "acquire")

\* readLease returns r to the call that use[c] names.
ReadDone(c, r) ==
  \/ /\ use[c] = "acquire"
     /\ GoTo(c, IF r = None THEN "publish" ELSE "observe")
     /\ target' = [target EXCEPT ![c] = r]
     /\ UNCHANGED use
  \/ /\ use[c] = "claim"
     /\ GoTo(c, IF r = target[c] THEN "stat" ELSE "notOwner")
     /\ Call(c, IF r = target[c] THEN "release" ELSE "acquire")
     /\ UNCHANGED target
  \/ /\ use[c] \in {"stale", "cancel", "release"}
     /\ IF r = target[c]
          THEN GoTo(c, "prove") /\ UNCHANGED use
          ELSE MoveDone(c, FALSE)
     /\ UNCHANGED target
-----------------------------------------------------------------------------
(* acquireInteractiveSessionLease                                          *)

\* The call starts with a signal that is not aborted and learns its own marker.
Begin(c) == /\ pc[c] \in Resting
            /\ GoTo(c, "enter")
            /\ target' = [target EXCEPT ![c] = None]
            /\ UNCHANGED <<Files, Processes, use, dir, meta, signal>>

\* The caller aborts while its acquisition is in flight.
Abort(c) == /\ Waiting(c)
            /\ signal' = [signal EXCEPT ![c] = TRUE]
            /\ UNCHANGED <<Files, Processes, local>>

\* Head of the loop: abort wins, the deadline counts after the first cycle.
Look(c) == /\ pc[c] \in {"enter", "look"}
           /\ GoTo(c, IF signal[c] THEN "idle" ELSE "stat")
           /\ signal' = [signal EXCEPT ![c] = FALSE]
           /\ UNCHANGED <<Files, Processes, use, target, dir, meta>>

TimeOut(c) == /\ pc[c] = "look"
              /\ ~signal[c]
              /\ GoTo(c, "idle")
              /\ UNCHANGED <<Files, Processes, use, target, dir, meta, signal>>

\* Mutant: an observation that is not a proof of death counts as one.
Stale_AnyObservation(t) == owner[t] # None

\* Mutant: the creation marker is not compared, only the pid.
Stale_PidOnly(t) == \A j \in Live : j[1] # owner[t][1]

\* isDefinitelyStale: the pid is absent or carries another creation marker;
\* an observation may always come back "unknown", which is never stale.
Stale(t) == owner[t] \notin Live

Observe(c, known) ==
  /\ pc[c] = "observe"
  /\ IF known /\ Stale(target[c])
       THEN GoTo(c, "stat") /\ Call(c, "stale")
       ELSE GoTo(c, "look") /\ UNCHANGED use
  /\ UNCHANGED <<Files, Processes, target, dir, meta, signal>>

\* publishLease: the pending directory is renamed onto the lease path, which
\* fails when the path is occupied.  A lease won after an abort is given back.
Publish(c, t) ==
  /\ pc[c] = "publish"
  /\ IF lock = None
       THEN /\ t \notin Issued
            /\ lock' = t
            /\ owner' = [owner EXCEPT ![t] = id[HostOf[c]]]
            /\ target' = [target EXCEPT ![c] = t]
            /\ GoTo(c, IF signal[c] THEN "stat" ELSE "held")
            /\ Call(c, IF signal[c] THEN "cancel" ELSE "acquire")
            /\ signal' = [signal EXCEPT ![c] = FALSE]
       ELSE /\ GoTo(c, "look")
            /\ UNCHANGED <<lock, owner, target, use, signal>>
  /\ UNCHANGED <<retired, Processes, dir, meta>>
-----------------------------------------------------------------------------
(* releaseInteractiveSessionLease, from the process that acquired.         *)

Release(c) == /\ pc[c] = "held"
              /\ GoTo(c, "stat")
              /\ Call(c, "claim")
              /\ UNCHANGED <<Files, Processes, target, dir, meta, signal>>
-----------------------------------------------------------------------------
(* readLease on the lease path: directory, owner.json, directory again.    *)

ReadDirectory(c) ==
  /\ pc[c] = "stat"
  /\ IF lock = None
       THEN ReadDone(c, None) /\ UNCHANGED dir
       ELSE /\ dir' = [dir EXCEPT ![c] = lock]
            /\ GoTo(c, "meta")
            /\ UNCHANGED <<use, target>>
  /\ UNCHANGED <<Files, Processes, meta, signal>>

\* owner.json is opened through the path: it may belong to a later directory,
\* or be gone (None).
ReadMetadata(c) == /\ pc[c] = "meta"
                   /\ meta' = [meta EXCEPT ![c] = lock]
                   /\ GoTo(c, "check")
                   /\ UNCHANGED <<Files, Processes, use, target, dir, signal>>

\* Mutant: the directory is not inspected again after owner.json was read.
CheckGeneration_Skipped(c) ==
  /\ pc[c] = "check"
  /\ \/ meta[c] # None /\ ReadDone(c, meta[c])
     \/ meta[c] = None /\ GoTo(c, "corrupt") /\ UNCHANGED <<use, target>>
  /\ dir' = [dir EXCEPT ![c] = None]
  /\ meta' = [meta EXCEPT ![c] = None]
  /\ UNCHANGED <<Files, Processes, signal>>

CheckGeneration(c) ==
  /\ pc[c] = "check"
  /\ \/ lock # dir[c] /\ ReadDone(c, None)
     \/ lock = dir[c] /\ meta[c] # None /\ ReadDone(c, meta[c])
     \/ lock = dir[c] /\ meta[c] = None /\ GoTo(c, "corrupt") /\ UNCHANGED <<use, target>>
  /\ dir' = [dir EXCEPT ![c] = None]
  /\ meta' = [meta EXCEPT ![c] = None]
  /\ UNCHANGED <<Files, Processes, signal>>
-----------------------------------------------------------------------------
(* moveLeaseToProof, after its own readLease found the expected owner.     *)

\* pathExists(retired): someone else already ended this generation.
CheckProof(c) == /\ pc[c] = "prove"
                 /\ IF retired[target[c]] # None
                      THEN MoveDone(c, FALSE)
                      ELSE GoTo(c, "rename") /\ UNCHANGED use
                 /\ UNCHANGED <<Files, Processes, target, dir, meta, signal>>

\* Mutant: the retirement proof is a transient name that may be overwritten.
ProofFree_Transient(t) == TRUE

\* A directory is never renamed over an existing proof directory.
ProofFree(t) == retired[t] = None

\* rename(lockPath, retired): moves whatever the path holds by now.
RenameToProof(c) ==
  /\ pc[c] = "rename"
  /\ IF lock # None /\ ProofFree(target[c])
       THEN /\ retired' = [retired EXCEPT ![target[c]] = lock]
            /\ lock' = None
            /\ GoTo(c, "verify")
            /\ UNCHANGED use
       ELSE /\ MoveDone(c, FALSE)
            /\ UNCHANGED <<lock, retired>>
  /\ UNCHANGED <<owner, Processes, target, dir, meta, signal>>

VerifyProof(c) == /\ pc[c] = "verify"
                  /\ IF retired[target[c]] = target[c]
                       THEN MoveDone(c, TRUE)
                       ELSE GoTo(c, "corrupt") /\ UNCHANGED use
                  /\ UNCHANGED <<Files, Processes, target, dir, meta, signal>>
-----------------------------------------------------------------------------
(* Processes come and go; a crash removes nothing from the file system.    *)

Crash(h) == /\ id[h] # None
            /\ id' = [id EXCEPT ![h] = None]
            /\ pc' = [c \in Caller |-> IF HostOf[c] = h THEN "dead" ELSE pc[c]]
            /\ use' = [c \in Caller |-> IF HostOf[c] = h THEN "acquire" ELSE use[c]]
            /\ target' = [c \in Caller |-> IF HostOf[c] = h THEN None ELSE target[c]]
            /\ dir' = [c \in Caller |-> IF HostOf[c] = h THEN None ELSE dir[c]]
            /\ meta' = [c \in Caller |-> IF HostOf[c] = h THEN None ELSE meta[c]]
            /\ signal' = [c \in Caller |-> IF HostOf[c] = h THEN FALSE ELSE signal[c]]
            /\ UNCHANGED <<Files, born>>

\* A new process may reuse a pid, never with the same creation marker.
Boot(h, i) == /\ id[h] = None
              /\ i \notin born
              /\ \A j \in Live : j[1] # i[1]
              /\ id' = [id EXCEPT ![h] = i]
              /\ born' = born \cup {i}
              /\ pc' = [c \in Caller |-> IF HostOf[c] = h THEN "idle" ELSE pc[c]]
              /\ UNCHANGED <<Files, use, target, dir, meta, signal>>

Step(c) == \/ Look(c)
           \/ ReadDirectory(c)
           \/ ReadMetadata(c)
           \/ CheckGeneration(c)
           \/ CheckProof(c)
           \/ RenameToProof(c)
           \/ VerifyProof(c)
           \/ \E t \in Token : Publish(c, t)
           \/ \E known \in BOOLEAN : Observe(c, known)

Next == \/ \E c \in Caller : Step(c) \/ Begin(c) \/ Abort(c) \/ TimeOut(c) \/ Release(c)
        \/ \E h \in Host : Crash(h) \/ \E i \in Identity : Boot(h, i)

Spec == Init /\ [][Next]_vars

\* Node runs every started call on, and an observation of a process is not
\* "unknown" for ever.  Nothing makes a caller begin, abort, release or crash.
Fairness == \A c \in Caller : WF_vars(Step(c)) /\ SF_vars(Observe(c, TRUE))

FairSpec == Spec /\ Fairness
-----------------------------------------------------------------------------
(* Properties                                                              *)

\* At most one running caller holds the desktop (acquireInteractiveSessionLease
\* is documented as process-wide GUI/input exclusivity).
MutualExclusion ==
  \A c, d \in Caller : pc[c] = "held" /\ pc[d] = "held" => c = d

\* A caller that has not finished giving its lease back still finds it at the
\* lease path: no contender ever retires the lease of a running owner.
HolderKeepsLease == \A c \in Caller : Holding(c) => lock = target[c]

\* Every retirement proof contains the generation it is named after: the check
\* and the rename of moveLeaseToProof never straddle a change of generation.
ProofsMatch == \A t \in Token : retired[t] \in {None, t}

\* No interleaving makes a healthy caller see corruptLease or notOwner.
NoFalseFailure == \A c \in Caller : pc[c] \notin Failed

\* The lease is true to its holder and to its healthy callers: whoever holds it has the
\* path, and nobody is told corruptLease or notOwner of files that are in order.
LeaseIsTrue == HolderKeepsLease /\ NoFalseFailure

\* The lease of a dead process is retired once somebody waits for the desktop,
\* unless that caller gives up or dies first; pid reuse does not prevent it.
Orphaned(t) == lock = t /\ Stale(t)
OrphanReclaimed ==
  \A t \in Token, c \in Caller :
    (Orphaned(t) /\ Waiting(c)) ~> (lock # t \/ ~Waiting(c))

\* A release that has begun is confirmed unless its process dies.
ReleaseConfirmed ==
  \A c \in Caller : (use[c] = "release" /\ pc[c] = "stat") ~> pc[c] \in {"released", "dead"}

\* Neither a dead owner nor a release keeps the desktop for ever (acquire's loop, release).
LeaseMovesOn == OrphanReclaimed /\ ReleaseConfirmed

\* The files implement the promise of ExclusiveLease.
Abstract == INSTANCE ExclusiveLease WITH
  current  <- lock,
  spent    <- {t \in Token : retired[t] # None},
  asked    <- {target[c] : c \in {d \in Caller : Holding(d) /\ pc[d] # "held"}},
  orphaned <- {t \in Issued : owner[t] \notin Live}
ImplementsExclusiveLease == Abstract!Spec
=============================================================================
