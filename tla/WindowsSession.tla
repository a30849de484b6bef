--------------------------- MODULE WindowsSession ---------------------------
(***************************************************************************)
(* packages/native/src/windows: one WindowsNativeController, the session it *)
(* launches or attaches to, and the proofs its cleanup gives.  The native   *)
(* client under it is reduced to what it tells of a request: one that is    *)
(* given up before it was written was not executed, one given up later may  *)
(* yet be, and its answer then comes late.  The host says truthfully what   *)
(* it executed, in results that may be malformed or about something else.   *)
(***************************************************************************)
EXTENDS Naturals

Operation == {"acquire", "root", "find", "action", "end", "release"}
SideEffect == {"acquire", "action", "end", "release"}
Outcome == {"executed", "notExecuted", "unknown"}
Defect == {"nothing", "handshake", "capabilities", "child", "options", "locator",
           "capability", "target", "deadline"}

VARIABLES
  host,        \* #connected and the client under it
  ownership,   \* of the session that is acquired: owned by a launch, borrowed by an attach
  acquiring,   \* where the call of acquire is, and the outcome it was told
  recoverable, \* #recoverable: the session whose root could not be observed
  mail,        \* WindowsLateAcquisitionMailbox: the session of a late answer
  held,        \* a caller has the session
  removed,     \* WindowsDesktopSessionState #removed
  memo,        \* #end
  request,     \* request[o]: where the request of the operation is
  result,      \* result[o]: what the host did about it, and how it words that
  late,        \* side effects given up after they were written, not answered yet
  target,      \* the process
  released,    \* the host has let the session go
  ends,        \* ends the host executed
  proofs       \* the proofs that were given

windowsVars == <<host, ownership, acquiring, recoverable, mail, held, removed, memo,
                 request, result, late, target, released, ends, proofs>>
controller == <<host, ownership, acquiring, recoverable, mail, held>>
state == <<removed, memo>>
world == <<target, released, ends>>

Nothing == [outcome |-> "none", form |-> "none"]
Results == [outcome : Outcome, form : {"plain", "malformed", "foreign", "error"}]

TypeOK ==
  /\ host \in {"new", "connected", "refused", "closing", "exited", "unconfirmed"}
  /\ ownership \in {"none", "owned", "borrowed"}
  /\ acquiring \in {"new", "requested", "observing", "returned"} \cup Outcome \cup {"untold"}
  /\ recoverable \in BOOLEAN /\ mail \in BOOLEAN /\ held \in BOOLEAN
  /\ removed \in BOOLEAN /\ memo \in {"none", "pending", "executed", "kept"}
  /\ request \in [Operation -> {"none", "queued", "written", "over"}]
  /\ result \in [Operation -> Results \cup {Nothing}]
  /\ late \subseteq Operation
  /\ target \in {"none", "running", "exited"} /\ released \in BOOLEAN /\ ends \in Nat
  /\ proofs \subseteq {"targetExit", "sessionRelease", "hostChildExit"}

Init == /\ host = "new" /\ ownership = "none" /\ acquiring = "new" /\ recoverable = FALSE
        /\ mail = FALSE /\ held = FALSE /\ removed = FALSE /\ memo = "none"
        /\ request = [o \in Operation |-> "none"] /\ result = [o \in Operation |-> Nothing]
        /\ late = {} /\ target = "none" /\ released = FALSE /\ ends = 0 /\ proofs = {}
-----------------------------------------------------------------------------
(* The client and the host                                                 *)

Submit(o) == /\ request' = [request EXCEPT ![o] = "queued"]
             /\ result' = [result EXCEPT ![o] = Nothing]

WriteFrame(o) == /\ request[o] = "queued" /\ host = "connected"
                 /\ request' = [request EXCEPT ![o] = "written"]
                 /\ UNCHANGED <<controller, state, result, late, world, proofs>>

\* What executing an operation does to the process and to the host's session.
Executed(o) ==
  CASE o = "acquire" -> target' = "running" /\ UNCHANGED <<released, ends>>
    [] o = "end"     -> target' = "exited" /\ ends' = ends + 1 /\ UNCHANGED released
    [] o = "release" -> released' = TRUE /\ UNCHANGED <<target, ends>>
    [] OTHER         -> UNCHANGED world

\* An ok result proves executed; the error of a side effect may say anything true.
HostActs(o, r) ==
  /\ request[o] = "written" \/ o \in late
  /\ result[o] = Nothing /\ result' = [result EXCEPT ![o] = r]
  /\ r.outcome = "executed" \/ (o \in SideEffect /\ r.form = "error")
  /\ CASE r.outcome = "executed"    -> Executed(o)
       [] r.outcome = "notExecuted" -> UNCHANGED world
       [] r.outcome = "unknown"     -> Executed(o) \/ UNCHANGED world
  /\ UNCHANGED <<controller, state, request, late, proofs>>

\* The target may end by itself.
TargetExits == /\ target = "running" /\ target' = "exited"
               /\ UNCHANGED <<controller, state, request, result, late, released, ends, proofs>>

\* exactRecord and the values in it; then the identities the operation expects.
Plain(r) == r.form # "malformed"
SessionCodec(r) == Plain(r)
ElementCodec(r) == Plain(r) /\ r.form # "foreign"
EndCodec(r) == Plain(r) /\ r.form # "foreign"
ReleaseCodec(r) == Plain(r) /\ r.form # "foreign"
Accepts(o, r) == CASE o = "acquire" -> SessionCodec(r)
                   [] o = "end"     -> EndCodec(r)
                   [] o = "release" -> ReleaseCodec(r)
                   [] OTHER         -> ElementCodec(r)

\* What the caller of a request learns: its value, or an error with this outcome.
Value(o) == /\ request[o] = "written" /\ result[o] # Nothing
            /\ result[o].form # "error" /\ Accepts(o, result[o])
Settled(o) == /\ request' = [request EXCEPT ![o] = "over"]
              /\ result' = [result EXCEPT ![o] = Nothing]
Fails(o, outcome) ==
  \/ /\ request[o] = "written" /\ result[o] # Nothing /\ ~Value(o)
     /\ outcome = result[o].outcome /\ Settled(o) /\ UNCHANGED late
  \/ request[o] = "queued" /\ outcome = "notExecuted" /\ Settled(o) /\ UNCHANGED late
  \/ /\ request[o] = "written" /\ outcome = "unknown"
     /\ IF o \in SideEffect
          THEN /\ request' = [request EXCEPT ![o] = "over"]
               /\ late' = late \cup {o} /\ UNCHANGED result
          ELSE Settled(o) /\ UNCHANGED late
-----------------------------------------------------------------------------
(* WindowsNativeController                                                 *)

(* What is wrong with a host, or with a call and its options, if anything.  *)
HostCapabilities(d) == d # "capabilities"
EffectiveCapabilities(d) == d # "capability"
SnapshotOptions(d) == d # "options"
StrictLocator(d) == d # "locator"
BindingTarget(d) == d # "target"
Remaining(d) == d # "deadline"
Prepared(d) == BindingTarget(d) /\ SnapshotOptions(d)
Dispatched(d) == EffectiveCapabilities(d) /\ StrictLocator(d) /\ Remaining(d)

\* The handshake and capabilities.get agree, and the child has an identity.
Connect(d) ==
  /\ host = "new"
  /\ host' = IF d \notin {"handshake", "child"} /\ HostCapabilities(d) /\ SnapshotOptions(d) /\ Remaining(d)
               THEN "connected" ELSE "refused"
  /\ UNCHANGED <<ownership, acquiring, recoverable, mail, held, state, request, result, late, world, proofs>>

\* The options, the capabilities, the deadline and the signal are asked before anything is sent.
Acquire(kind, d) ==
  /\ host = "connected" /\ acquiring = "new"
  /\ ownership' = IF kind = "launch" THEN "owned" ELSE "borrowed"
  /\ IF Prepared(d) /\ Dispatched(d)
       THEN acquiring' = "requested" /\ Submit("acquire")
       ELSE acquiring' = "untold" /\ UNCHANGED <<request, result>>
  /\ UNCHANGED <<host, recoverable, mail, held, state, late, world, proofs>>

\* The ownership is checked, the session remembered and its root observed.
Acquired(d) ==
  /\ acquiring = "requested" /\ Value("acquire")
  /\ IF result["acquire"].form = "foreign"
       THEN acquiring' = "unknown" /\ Settled("acquire") /\ UNCHANGED recoverable
       ELSE /\ recoverable' = TRUE
            /\ acquiring' = IF Remaining(d) THEN "observing" ELSE "unknown"
            /\ request' = [request EXCEPT !["acquire"] = "over", !["root"] = IF Remaining(d) THEN "queued" ELSE @]
            /\ result' = [result EXCEPT !["acquire"] = Nothing]
  /\ UNCHANGED <<host, ownership, mail, held, state, late, world, proofs>>

AcquireFails(outcome) ==
  /\ acquiring = "requested" /\ Fails("acquire", outcome)
  /\ acquiring' = outcome
  /\ UNCHANGED <<host, ownership, recoverable, mail, held, state, world, proofs>>

\* An attached root must belong to the process that was asked for.
RootObserved(matches) ==
  /\ acquiring = "observing" /\ Value("root") /\ Settled("root")
  /\ IF matches THEN acquiring' = "returned" /\ recoverable' = FALSE /\ held' = TRUE
                ELSE acquiring' = "unknown" /\ UNCHANGED <<recoverable, held>>
  /\ UNCHANGED <<host, ownership, mail, state, late, world, proofs>>

\* Mutant: a root that could not be observed speaks for the acquisition.
RootFails_Its(outcome) ==
  /\ acquiring = "observing" /\ Fails("root", outcome)
  /\ acquiring' = outcome
  /\ UNCHANGED <<host, ownership, recoverable, mail, held, state, world, proofs>>

RootFails(outcome) ==
  /\ acquiring = "observing" /\ Fails("root", outcome)
  /\ acquiring' = "unknown"
  /\ UNCHANGED <<host, ownership, recoverable, mail, held, state, world, proofs>>

\* accept: only an executed answer with a well-formed session is kept.
LateAnswer(o) ==
  /\ o \in late /\ result[o] # Nothing /\ late' = late \ {o}
  /\ result' = [result EXCEPT ![o] = Nothing]
  /\ mail' = (mail \/ (o = "acquire" /\ result[o].form \notin {"error", "malformed"}))
  /\ UNCHANGED <<host, ownership, acquiring, recoverable, held, state, request, world, proofs>>

\* The binding asks for it when it was told unknown.
ReconcileLate ==
  /\ acquiring = "unknown" /\ host = "connected" /\ (recoverable \/ mail) /\ ~held
  /\ held' = TRUE
  /\ UNCHANGED <<host, ownership, acquiring, recoverable, mail, state, request, result, late, world, proofs>>
-----------------------------------------------------------------------------
(* WindowsDesktopSessionState                                              *)

\* find and get; an action finds its element, then asks its caller once more.
Idle(o) == request[o] \in {"none", "over"} /\ o \notin late
Find(d) == /\ held /\ ~removed /\ host = "connected" /\ Idle("find")
           /\ Dispatched(d) /\ Submit("find")
           /\ UNCHANGED <<controller, state, late, world, proofs>>
ActionSubmitted(d) ==
  /\ Value("find") /\ Idle("action")
  /\ IF Remaining(d)
       THEN /\ request' = [request EXCEPT !["find"] = "over", !["action"] = "queued"]
            /\ result' = [result EXCEPT !["find"] = Nothing]
       ELSE Settled("find")
  /\ UNCHANGED <<controller, state, late, world, proofs>>
ElementAnswered(o) ==
  /\ o \in {"find", "action"}
  /\ \/ Value(o) /\ Settled(o) /\ UNCHANGED late
     \/ \E outcome \in Outcome : Fails(o, outcome)
  /\ UNCHANGED <<controller, state, world, proofs>>

\* close and terminate share one promise.
End == /\ held /\ ownership = "owned" /\ memo = "none" /\ host = "connected" /\ Idle("end")
       /\ memo' = "pending" /\ Submit("end")
       /\ UNCHANGED <<controller, removed, late, world, proofs>>
Ended == /\ memo = "pending" /\ Value("end") /\ Settled("end")
         /\ memo' = "executed" /\ removed' = TRUE
         /\ UNCHANGED <<controller, late, world, proofs>>

\* Mutant: an end that failed may be asked for again.
EndFails_Retries(outcome) ==
  /\ memo = "pending" /\ Fails("end", outcome)
  /\ memo' = "none"
  /\ UNCHANGED <<controller, removed, world, proofs>>

\* What was executed, or may have been, is never sent again.
EndFails(outcome) ==
  /\ memo = "pending" /\ Fails("end", outcome)
  /\ memo' = IF outcome \in {"unknown", "executed"} THEN "kept" ELSE "none"
  /\ UNCHANGED <<controller, removed, world, proofs>>

\* cleanupTarget
TargetExit == /\ held /\ ownership = "owned" /\ removed
              /\ proofs' = proofs \cup {"targetExit"}
              /\ UNCHANGED <<controller, state, request, result, late, world>>

\* release: at once when the session is removed, else by the host for a borrowed one.
Release == /\ held /\ host = "connected" /\ Idle("release")
           /\ IF removed THEN proofs' = proofs \cup {"sessionRelease"} /\ UNCHANGED <<request, result>>
                         ELSE ownership = "borrowed" /\ Submit("release") /\ UNCHANGED proofs
           /\ UNCHANGED <<controller, state, late, world>>
Released == /\ Value("release") /\ Settled("release")
            /\ removed' = TRUE /\ proofs' = proofs \cup {"sessionRelease"}
            /\ UNCHANGED <<controller, memo, late, world>>
ReleaseFails == /\ \E outcome \in Outcome : Fails("release", outcome)
                /\ UNCHANGED <<controller, state, world, proofs>>

\* closeHostProof: the client is closed, then the child's exit awaited.
CloseHost == /\ host \in {"connected", "refused"} /\ host' = "closing"
             /\ UNCHANGED <<ownership, acquiring, recoverable, mail, held, state, request, result, late, world, proofs>>
HostExit(exited) ==
  /\ host = "closing" /\ host' = IF exited THEN "exited" ELSE "unconfirmed"
  /\ proofs' = IF exited THEN proofs \cup {"hostChildExit"} ELSE proofs
  /\ UNCHANGED <<ownership, acquiring, recoverable, mail, held, state, request, result, late, world>>

Next == \/ ReconcileLate \/ End \/ Ended \/ TargetExit \/ TargetExits
        \/ Release \/ Released \/ ReleaseFails \/ CloseHost
        \/ \E d \in Defect : \/ Connect(d) \/ Acquired(d) \/ Find(d) \/ ActionSubmitted(d)
                           \/ \E kind \in {"launch", "attach"} : Acquire(kind, d)
        \/ \E b \in BOOLEAN : RootObserved(b) \/ HostExit(b)
        \/ \E o \in Operation, r \in Results : HostActs(o, r)
        \/ \E o \in Operation : WriteFrame(o) \/ LateAnswer(o) \/ ElementAnswered(o)
        \/ \E x \in Outcome : AcquireFails(x) \/ RootFails(x) \/ EndFails(x)
-----------------------------------------------------------------------------
(* CleanupIsTrue                                                           *)
(* What the cleanup of a Windows session may rest on: an acquisition that   *)
(* was told not executed has left no process behind; the host executes one  *)
(* end at the most, whichever of close, terminate and cleanup asked and     *)
(* whatever was lost on the way; and a proof of exit or of release is given *)
(* only when the host did that.                                            *)
NothingLeftBehind == acquiring \in {"notExecuted", "untold"} => target = "none"
EndedOnce == ends <= 1
ProofsHold == /\ "targetExit" \in proofs => ends = 1 /\ target = "exited"
              /\ "sessionRelease" \in proofs => released \/ ends = 1
CleanupIsTrue == NothingLeftBehind /\ EndedOnce /\ ProofsHold
=============================================================================
