---------------------------- MODULE NativeBinding ----------------------------
(***************************************************************************)
(* packages/test native-binding: an application launched or attached to     *)
(* through a native host for one Case.  Its resources are registered before *)
(* it is acquired, so that a launch of unknown outcome has a cleanup too:   *)
(* the target, the protocol session and the host in layers, each with a     *)
(* budget and a clock that may fail when it is read, then a barrier, then    *)
(* the lease of the desktop.                                                *)
(*                                                                          *)
(* The host is truthful: its identities, proofs and outcomes are so.        *)
(***************************************************************************)
EXTENDS Naturals, Sequences

CONSTANTS None

Layer == {"target", "protocol", "host"}

VARIABLES
  options,     \* what the Case owns, and whether it has a lease
  acquire,     \* acquireNativeApplication
  acquisition, \* the DeferredNativeAcquisition
  coming,      \* the host may still bring a target, or its session
  target,      \* the application in the world
  session,     \* the protocol session in the host
  host,        \* the host's process
  layer,       \* layer[l]: its task, and its value once it is finished
  reason,      \* state.reason: something was unconfirmed
  turn,        \* the resource the scope cleans up: an index of Resources
  begun,       \* its callback has been called
  barrier,     \* the receipt of the barrier
  lease        \* the desktop's lease

bindingVars == <<options, acquire, acquisition, coming, target, session, host, layer,
                 reason, turn, begun, barrier, lease>>
world == <<coming, target, session, host>>
cleanup == <<layer, reason, turn, begun, barrier, lease>>

TypeOK ==
  /\ options \in [owned : BOOLEAN, protocol : BOOLEAN, host : BOOLEAN, leased : BOOLEAN]
  /\ acquire \in {"new", "running", "bound", "failed"}
  /\ acquisition \in {"open", "reconciling", "acquired", "unknown"}
  /\ coming \in BOOLEAN /\ reason \in BOOLEAN /\ begun \in BOOLEAN
  /\ target \in {"none", "alive", "gone"}
  /\ session \in {"none", "open", "released"}
  /\ host \in {"alive", "gone"}
  /\ layer \in [Layer -> [task : {"new", "waiting", "proving", "over"},
                         value : {None, "released", "unconfirmed", "notApplicable"}]]
  /\ turn \in 0 .. 6
  /\ barrier \in {None, "released", "unconfirmed"}
  /\ lease \in {"none", "held", "releasing", "released", "kept"}

\* The layers that apply, of which the others are finished from the start.
Applies(l) == CASE l = "target" -> options.owned
                [] l = "protocol" -> options.protocol
                [] l = "host" -> options.host

Init == /\ options \in [owned : BOOLEAN, protocol : BOOLEAN, host : BOOLEAN, leased : BOOLEAN]
        /\ acquire = "new" /\ acquisition = "open"
        /\ coming = FALSE
        /\ target = IF options.owned THEN "none" ELSE "alive"
        /\ session = "none" /\ host = "alive"
        /\ layer = [l \in Layer |-> [task |-> "new", value |-> IF Applies(l) THEN None ELSE "notApplicable"]]
        /\ reason = FALSE /\ turn = 0 /\ begun = FALSE /\ barrier = None
        /\ lease = IF options.leased THEN "held" ELSE "none"
-----------------------------------------------------------------------------
(* acquireNativeApplication                                                *)

\* The resources are registered; the dispatch is denied, a precheck fails, or the
\* host is asked.
Acquire == /\ acquire = "new"
           /\ turn' = 1
           /\ \E asked \in BOOLEAN :
                /\ acquire' = IF asked THEN "running" ELSE "failed"
                /\ acquisition' = IF asked THEN acquisition ELSE "unknown"
                /\ coming' = asked
           /\ UNCHANGED <<options, target, session, host, layer, reason, begun, barrier, lease>>

\* The host starts the target, or gives the one that runs a session.
Started == target' = "alive" /\ session' = "open" /\ coming' = FALSE

\* It does so on time, or after it was given up.
LateStart == /\ coming /\ host = "alive"
             /\ Started
             /\ UNCHANGED <<options, acquire, acquisition, host, cleanup>>

\* Mutant: a launch that failed for whatever reason has brought nothing.
AcquireFails_Plain(outcome) ==
  /\ acquire = "running"
  /\ acquire' = "failed"
  /\ outcome = "notExecuted" => coming
  /\ coming' = (coming /\ outcome # "notExecuted")
  /\ acquisition' = "acquired"
  /\ UNCHANGED <<options, target, session, host, cleanup>>

\* acquire resolves with an identity that fits; without an executed receipt its
\* caller gets an error, but the identity is kept for the cleanup.
AcquireEnds(executed) ==
  /\ acquire = "running"
  /\ acquire' = IF executed THEN "bound" ELSE "failed"
  /\ acquisition' = "acquired"
  /\ Started
  /\ UNCHANGED <<options, host, cleanup>>

\* An error: unknown to the host, and then it is asked once more, or otherwise.
AcquireFails(outcome) ==
  /\ acquire = "running"
  /\ acquire' = "failed"
  /\ outcome = "notExecuted" => coming
  /\ coming' = (coming /\ outcome # "notExecuted")
  /\ acquisition' = IF outcome = "unknown" THEN "reconciling" ELSE "unknown"
  /\ UNCHANGED <<options, target, session, host, cleanup>>

\* reconcile: the late identity, or none, a misfit, an error or no answer in time.
Reconciled == /\ acquisition = "reconciling"
              /\ \/ /\ acquisition' = "acquired"
                    /\ IF coming THEN Started ELSE session = "open" /\ UNCHANGED <<coming, target, session>>
                 \/ /\ acquisition' = "unknown"
                    /\ UNCHANGED <<coming, target, session>>
              /\ UNCHANGED <<options, acquire, host, cleanup>>

\* Mutant: the ownership an operation requires is not compared.
MayQuit_Any == TRUE

\* precheck: quitting and terminating require an owned session.
MayQuit == options.owned

\* invoke of quit or terminate, on a binding the author holds.
Quit == /\ acquire = "bound" /\ target = "alive"
        /\ MayQuit
        /\ target' = "gone"
        /\ UNCHANGED <<options, acquire, acquisition, coming, session, host, cleanup>>
-----------------------------------------------------------------------------
(* CleanupLayer                                                            *)

Prior == [target |-> None, protocol |-> "target", host |-> IF options.protocol THEN "protocol" ELSE "target"]
LastLayer == IF options.host THEN "host" ELSE IF options.protocol THEN "protocol" ELSE "target"

\* finish: the first value stays, and one that is unconfirmed is remembered.
Finished(l, task, value) ==
  /\ layer' = [layer EXCEPT ![l] = [task |-> task, value |-> IF @.value = None THEN value ELSE @.value]]
  /\ reason' = (reason \/ value = "unconfirmed")

TimeOut(l) == /\ layer[l].task \in {"waiting", "proving"} /\ layer[l].value = None
              /\ Finished(l, layer[l].task, "unconfirmed")
              /\ UNCHANGED <<options, acquire, acquisition, world, turn, begun, barrier, lease>>

\* The task has waited for the layer before it and for the acquisition.
Ready(l) == /\ l # "target" => layer[Prior[l]].value # None
            /\ l # "host" => acquisition \in {"acquired", "unknown"}

Proceed(l) == /\ layer[l].task = "waiting" /\ Ready(l)
              /\ IF l = "host" \/ acquisition = "acquired"
                 THEN layer' = [layer EXCEPT ![l].task = "proving"] /\ UNCHANGED reason
                 ELSE Finished(l, "over", "unconfirmed")
              /\ UNCHANGED <<options, acquire, acquisition, world, turn, begun, barrier, lease>>

\* combine: the layer before outweighs.
Combined(l, own) == IF l # "target" /\ layer[Prior[l]].value = "unconfirmed" THEN "unconfirmed" ELSE own

\* The port answers: with a matching proof, and then it is so, or without; the
\* clock cannot be read, or says that the answer is too late.
Prove(l, proved) ==
  /\ layer[l].task = "proving"
  /\ target' = IF l = "target" /\ proved THEN "gone" ELSE target
  /\ session' = IF l = "protocol" /\ proved THEN "released" ELSE session
  /\ host' = IF l = "host" /\ proved THEN "gone" ELSE host
  /\ LET own == IF proved THEN "released" ELSE "unconfirmed"
     IN \E value \in {Combined(l, own), "unconfirmed"} : Finished(l, "over", value)
  /\ UNCHANGED <<options, acquire, acquisition, coming, turn, begun, barrier, lease>>
-----------------------------------------------------------------------------
(* registerNativeResources, and the scope that cleans up in reverse order  *)

Resources == <<"target", "protocol", "host", "barrier", "lease">>
Of(r) == turn \in DOMAIN Resources /\ Resources[turn] = r

\* A layer's resource: a borrowed one is passed over, an owned one is started once,
\* and when the clock cannot be read it is started for nothing.
LayerBegins(l) == /\ Of(l) /\ ~begun
                  /\ begun' = TRUE
                  /\ IF Applies(l)
                     THEN \/ layer' = [layer EXCEPT ![l].task = "waiting"] /\ UNCHANGED reason
                          \/ Finished(l, "waiting", "unconfirmed")
                     ELSE UNCHANGED <<layer, reason>>
                  /\ UNCHANGED <<options, acquire, acquisition, world, turn, barrier, lease>>

\* Its receipt comes, or the scope waits no longer: the next resource has its turn.
LayerEnds(l) == /\ Of(l) /\ begun
                /\ turn' = turn + 1 /\ begun' = FALSE
                /\ UNCHANGED <<options, acquire, acquisition, world, layer, reason, barrier, lease>>

\* Mutant: what has not settled is not held against it.
Confirmed_SoFar == layer[LastLayer].value # "unconfirmed" /\ ~reason

\* What the barrier and the lease ask: the last layer has settled, and nothing
\* was ever unconfirmed.
Confirmed == layer[LastLayer].value \in {"released", "notApplicable"} /\ ~reason

\* The barrier remembers what it found pending.
Barrier == /\ Of("barrier")
           /\ barrier' = IF Confirmed THEN "released" ELSE "unconfirmed"
           /\ reason' = ~Confirmed
           /\ turn' = IF options.leased THEN turn + 1 ELSE 6
           /\ UNCHANGED <<options, acquire, acquisition, world, layer, begun, lease>>

LeaseDecided == /\ Of("lease")
                /\ lease' = IF Confirmed THEN "releasing" ELSE "kept"
                /\ reason' = ~Confirmed
                /\ turn' = 6
                /\ UNCHANGED <<options, acquire, acquisition, world, layer, begun, barrier>>

LeaseReleased == /\ lease = "releasing"
                 /\ lease' = "released"
                 /\ UNCHANGED <<options, acquire, acquisition, world, layer, reason, turn, begun, barrier>>

Next == \/ Acquire \/ LateStart \/ \E executed \in BOOLEAN : AcquireEnds(executed)
        \/ \E outcome \in {"notExecuted", "unknown", "misfit"} : AcquireFails(outcome)
        \/ Reconciled \/ Quit
        \/ \E l \in Layer : \/ TimeOut(l) \/ Proceed(l) \/ \E proved \in BOOLEAN : Prove(l, proved)
                            \/ LayerBegins(l) \/ LayerEnds(l)
        \/ Barrier \/ LeaseDecided \/ LeaseReleased

Spec == Init /\ [][Next]_bindingVars
-----------------------------------------------------------------------------
(* Properties                                                              *)

\* Nothing that the Case owns is left, and no launch of its can still bring any.
NothingLeft == /\ options.owned => target # "alive" /\ ~coming
               /\ options.protocol => session # "open" /\ ~coming
               /\ options.host => host = "gone"

\* The barrier says released, and the desktop is given back, only when nothing is
\* left, also of a launch or attach whose outcome nobody knew; and an application the Case
\* only attached to is not ended by it (native-binding/resources.ts, binding.ts).
ApplicationIsGivenBack ==
  /\ barrier = "released" \/ lease \in {"releasing", "released"} => NothingLeft
  /\ ~options.owned => target = "alive"
=============================================================================
