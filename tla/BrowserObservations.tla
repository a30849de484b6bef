------------------------- MODULE BrowserObservations -------------------------
(***************************************************************************)
(* packages/browser-playwright SessionObservations: the page's events are   *)
(* listened to once while somebody observes and handed to every subscriber, *)
(* each with a ring buffer of its own.  Registering the listeners may fail  *)
(* halfway; a page takes a listener off without fail.                       *)
(***************************************************************************)
EXTENDS Naturals, Sequences

CONSTANTS Subscriber, Request,
          Limit,      \* what a subscriber's buffer holds
          Emitted,    \* the events the page emits
          MaxEvents   \* bound: events while somebody observes

\* observationBindings, in the order they are registered.
Bindings == <<"console", "pageerror", "request", "requestfinished", "requestfailed", "response">>
Event == {Bindings[i] : i \in DOMAIN Bindings}
OfRequest == {"request", "requestfinished", "requestfailed", "response"}

VARIABLES
  observing,  \* the subscriptions
  bindings,   \* this.bindings is set
  listeners,  \* listeners[e]: the handlers registered for e
  requestIds, \* requestIds[q], 0 while q is unknown
  nextRequestId,
  ring,       \* ring[s]: the entries, the oldest of them, what was dropped
  batch,      \* batch[s]: what s was given when it stopped
  seen,       \* seen[s]: what the page emitted while s observed
  shut        \* the session is closed

identities == <<requestIds, nextRequestId>>
observationVars == <<observing, bindings, listeners, identities, ring, batch, seen, shut>>

NoRequest == "none"
Payload == [event : Event \ OfRequest, request : {NoRequest}, readable : BOOLEAN]
           \cup [event : OfRequest, request : Request, readable : BOOLEAN]
Observation == [event : Event \cup {"failure"}, id : Nat]
Empty == [entries |-> <<>>, oldest |-> 0, dropped |-> 0]

TypeOK == /\ observing \subseteq Subscriber /\ bindings \in BOOLEAN /\ shut \in BOOLEAN
          /\ listeners \in [Event -> Nat] /\ requestIds \in [Request -> Nat]
          /\ nextRequestId \in Nat \ {0}
          /\ ring \in [Subscriber -> [entries : Seq(Observation), oldest : Nat, dropped : Nat]]
          /\ batch \in [Subscriber -> {<<>>} \cup [observations : Seq(Observation), dropped : Nat]]
          /\ seen \in [Subscriber -> Seq(Payload)]

Init == /\ observing = {} /\ bindings = FALSE /\ listeners = [e \in Event |-> 0]
        /\ requestIds = [q \in Request |-> 0] /\ nextRequestId = 1
        /\ ring = [s \in Subscriber |-> Empty]
        /\ batch = [s \in Subscriber |-> <<>>] /\ seen = [s \in Subscriber |-> <<>>] /\ shut = FALSE
-----------------------------------------------------------------------------
(* ObservationBuffer                                                       *)

\* Mutant: the oldest entry is overwritten and where the ring begins is kept.
Push_Fixed(b, o) ==
  IF Len(b.entries) < Limit THEN [b EXCEPT !.entries = Append(@, o)]
  ELSE [b EXCEPT !.entries[b.oldest + 1] = o, !.dropped = @ + 1]

Push(b, o) ==
  IF Len(b.entries) < Limit THEN [b EXCEPT !.entries = Append(@, o)]
  ELSE [entries |-> [b.entries EXCEPT ![b.oldest + 1] = o],
        oldest |-> (b.oldest + 1) % Limit, dropped |-> b.dropped + 1]

Drain(b) == SubSeq(b.entries, b.oldest + 1, Len(b.entries)) \o SubSeq(b.entries, 1, b.oldest)
-----------------------------------------------------------------------------
(* Listeners                                                               *)

Registered(n) == [e \in Event |-> IF \E i \in 1 .. n : Bindings[i] = e THEN listeners[e] + 1 ELSE listeners[e]]
TakenOff(on, n) == [e \in Event |-> IF \E i \in 1 .. n : Bindings[i] = e /\ on[e] > 0 THEN on[e] - 1 ELSE on[e]]

\* The first n are registered and the next one fails, or all of them are.
AttachObservers(n) ==
  IF bindings THEN UNCHANGED <<bindings, listeners>>
  ELSE /\ bindings' = (n = Len(Bindings))
       /\ listeners' = IF n = Len(Bindings) THEN Registered(n) ELSE TakenOff(Registered(n), n)

DetachWhenUnobserved ==
  IF bindings /\ observing' = {}
    THEN bindings' = FALSE /\ listeners' = TakenOff(listeners, Len(Bindings))
    ELSE UNCHANGED <<bindings, listeners>>

\* A subscription whose listeners cannot be registered is withdrawn again.
Observe(s) == /\ ~shut /\ s \notin observing /\ batch[s] = <<>>
              /\ \E n \in 0 .. Len(Bindings) :
                   /\ AttachObservers(n)
                   /\ observing' = IF bindings' THEN observing \cup {s} ELSE observing
              /\ UNCHANGED <<identities, ring, batch, seen, shut>>

Sealed(s) == [observations |-> Drain(ring[s]), dropped |-> ring[s].dropped]

\* stop: the first call seals the batch, the later ones return it.
Stop(s) == /\ s \in observing /\ observing' = observing \ {s}
           /\ DetachWhenUnobserved
           /\ batch' = [batch EXCEPT ![s] = Sealed(s)]
           /\ UNCHANGED <<identities, ring, seen, shut>>

\* The session's close stops them all.
StopAll == /\ ~shut /\ shut' = TRUE /\ observing' = {}
           /\ DetachWhenUnobserved
           /\ batch' = [s \in Subscriber |-> IF s \in observing THEN Sealed(s) ELSE batch[s]]
           /\ UNCHANGED <<identities, ring, seen>>
-----------------------------------------------------------------------------
(* Events                                                                  *)

Known == {q \in Request : requestIds[q] > 0}
IdentifyRequest(q) ==
  IF q \in Known THEN UNCHANGED identities
  ELSE requestIds' = [requestIds EXCEPT ![q] = nextRequestId] /\ nextRequestId' = nextRequestId + 1

\* What cannot be read is recorded as such: the request may have been identified by then.
Binding(p) == \/ p.request # NoRequest /\ IdentifyRequest(p.request)
              \/ (p.request = NoRequest \/ ~p.readable) /\ UNCHANGED identities

Normalized(p, ids) == [event |-> IF p.readable THEN p.event ELSE "failure",
                       id |-> IF p.readable /\ p.request # NoRequest THEN ids[p.request] ELSE 0]

\* A buffer that n handlers push the same observation to.
Pushed(b, o, n) == LET after[k \in 0 .. n] == IF k = 0 THEN b ELSE Push(after[k - 1], o) IN after[n]

\* Every handler registered for the event hands it to every subscriber.
Emit(p) == /\ observing # {} /\ \A s \in Subscriber : Len(seen[s]) < MaxEvents
           /\ Binding(p)
           /\ ring' = [s \in Subscriber |->
                         IF s \in observing THEN Pushed(ring[s], Normalized(p, requestIds'), listeners[p.event])
                                            ELSE ring[s]]
           /\ seen' = [s \in Subscriber |-> IF s \in observing THEN Append(seen[s], p) ELSE seen[s]]
           /\ UNCHANGED <<observing, bindings, listeners, batch, shut>>

Next == \/ \E s \in Subscriber : Observe(s) \/ Stop(s)
        \/ StopAll \/ \E p \in {x \in Payload : x.event \in Emitted} : Emit(p)
-----------------------------------------------------------------------------
(* Properties                                                              *)

\* A batch is the end of what the page emitted while its subscriber observed, in that
\* order, each event once and the rest counted as dropped, whoever else came and went
\* and however a registration failed; and two events are of one request exactly if
\* they carry one id.
BatchIsWhole ==
  /\ \A q, r \in Known : requestIds[q] = requestIds[r] => q = r
  /\ \A s \in Subscriber : batch[s] # <<>> =>
       LET told == batch[s].observations
           lost == Len(seen[s]) - Len(told)
       IN /\ Len(told) = IF Len(seen[s]) < Limit THEN Len(seen[s]) ELSE Limit
          /\ batch[s].dropped = lost
          /\ \A i \in DOMAIN told : told[i] = Normalized(seen[s][lost + i], requestIds)
=============================================================================
