--------------------------- MODULE WindowsProofs ---------------------------
(***************************************************************************)
(* The two sides of a Windows run, proved for every value of the constants *)
(* of Components: a session never claims more than its host did, and the   *)
(* host never says more than it did.  As in ComponentProofs, a section     *)
(* calls the variables by the names they have in its component.            *)
(***************************************************************************)
EXTENDS Components, FiniteSetTheorems, FunctionTheorems, SequenceTheorems, TLAPS

LEMMA OneIsPicked ==
  ASSUME [Next]_allVars
  PROVE  /\ picked' = picked
         /\ picked = "windows" => [Windows!Next]_(Windows!windowsVars)
         /\ picked = "host" => [WinHost!Next]_(WinHost!hostVars)
  <1>1. picked' = picked
    BY DEF Next, allVars
  <1>2. picked = "windows" => [Windows!Next]_(Windows!windowsVars)
    BY DEF Next, Step, allVars, Windows!windowsVars
  <1>3. picked = "host" => [WinHost!Next]_(WinHost!hostVars)
    BY DEF Next, Step, allVars, WinHost!hostVars, WinHost!world
  <1>4. QED
    BY <1>1, <1>2, <1>3

-----------------------------------------------------------------------------
(* WindowsSession                                                          *)

host == v1
late == v2
target == v3
ownership == v4
acquiring == v5
recoverable == v6
mail == v7
held == v8
removed == v9
memo == v10
request == v11
released == v12
ends == v13
proofs == v14
result == v15

USE DEF host, late, target, ownership, acquiring, recoverable, mail, held, removed, memo,
        request, released, ends, proofs, result

\* A request the host may act on, or has acted on without its caller's having heard.
Underway(o) == request[o] = "written" \/ o \in late

\* What the host did not do, as far as it has said.
Undone(o) == result[o] = Windows!Nothing \/ result[o].outcome = "notExecuted"

\* What was given up is not asked for again; the host answers what is under way, and an ok
\* is an execution.
RequestInv ==
  \A o \in Windows!Operation :
    /\ o \in late => request[o] = "over" /\ o \in Windows!SideEffect
    /\ result[o] # Windows!Nothing =>
         /\ Underway(o)
         /\ result[o].outcome = "executed" \/ result[o].form = "error"

\* Nothing is left of an acquisition that the host was not asked for or has not executed,
\* and a session is held only after the answer to its acquisition.
AcquireInv ==
  /\ acquiring \in {"new", "notExecuted", "untold"} => target = "none"
  /\ acquiring = "requested" => request["acquire"] \in {"queued", "written"}
  /\ acquiring = "requested" /\ Undone("acquire") => target = "none"
  /\ acquiring # "requested" => request["acquire"] \in {"none", "over"}
  /\ acquiring \in {"new", "requested"} => request["root"] = "none"
  /\ "acquire" \in late => acquiring = "unknown"
  /\ recoverable => acquiring \in {"observing", "unknown"}
  /\ mail => acquiring = "unknown"
  /\ held => acquiring \in {"returned", "unknown"}
  /\ mail \/ recoverable \/ held => "acquire" \notin late

\* The host is asked for an end by the owner of a session, and again only when it is known
\* to have done nothing.
EndInv ==
  /\ request["end"] # "none" => held /\ ownership = "owned"
  /\ memo = "none" => ends = 0 /\ request["end"] \in {"none", "over"} /\ "end" \notin late
  /\ memo = "pending" => request["end"] \in {"queued", "written"}
  /\ memo \in {"executed", "kept"} => request["end"] = "over"
  /\ memo = "pending" \/ "end" \in late => IF Undone("end") THEN ends = 0
                                           ELSE result["end"].outcome = "executed" => ends = 1
  /\ ends \in {0, 1}
  /\ ends = 1 => held /\ target = "exited"
  /\ memo = "executed" => ends = 1

\* A session is removed when it was ended or let go, and a launched one only when ended.
RemovedInv ==
  /\ request["release"] # "none" => held /\ ownership = "borrowed"
  /\ Underway("release") /\ result["release"].outcome = "executed" => released
  /\ removed => held
  /\ removed => IF ownership = "owned" THEN ends = 1 ELSE ends = 1 \/ released
  /\ "targetExit" \in proofs => ends = 1
  /\ "sessionRelease" \in proofs => released \/ ends = 1

WindowsInv == Windows!TypeOK /\ RequestInv /\ AcquireInv /\ EndInv /\ RemovedInv

LEMMA WindowsInit == ASSUME Windows!Init PROVE WindowsInv
  <1>1. Windows!TypeOK
    BY DEF Windows!Init, Windows!TypeOK
  <1>2. RequestInv
    BY DEF Windows!Init, RequestInv
  <1>3. QED
    BY <1>1, <1>2 DEF Windows!Init, WindowsInv, AcquireInv, EndInv, RemovedInv, Underway, Windows!Operation

\* What is asked for, and what is answered, changes for one operation.
LEMMA RequestMoves ==
  ASSUME Windows!TypeOK, NEW o \in Windows!Operation
  PROVE  /\ Windows!Submit(o) =>
              /\ \A p \in Windows!Operation \ {o} : request'[p] = request[p] /\ result'[p] = result[p]
              /\ request'[o] = "queued" /\ result'[o] = Windows!Nothing
              /\ request' \in [Windows!Operation -> {"none", "queued", "written", "over"}]
              /\ result' \in [Windows!Operation -> Windows!Results \cup {Windows!Nothing}]
         /\ Windows!Settled(o) =>
              /\ \A p \in Windows!Operation \ {o} : request'[p] = request[p] /\ result'[p] = result[p]
              /\ request'[o] = "over" /\ result'[o] = Windows!Nothing
              /\ request' \in [Windows!Operation -> {"none", "queued", "written", "over"}]
              /\ result' \in [Windows!Operation -> Windows!Results \cup {Windows!Nothing}]
  <1>1. ASSUME Windows!Submit(o) PROVE request' = [request EXCEPT ![o] = "queued"] /\ result' = [result EXCEPT ![o] = Windows!Nothing]
    BY <1>1 DEF Windows!Submit
  <1>2. ASSUME Windows!Settled(o) PROVE request' = [request EXCEPT ![o] = "over"] /\ result' = [result EXCEPT ![o] = Windows!Nothing]
    BY <1>2 DEF Windows!Settled
  <1>3. QED
    BY <1>1, <1>2 DEF Windows!TypeOK

\* A failure ends the request: what the caller is told is what the host did, or nothing was
\* asked of the host, or it was given up and may be late.
LEMMA RequestFails ==
  ASSUME Windows!TypeOK, RequestInv, NEW o \in Windows!Operation, NEW outcome \in Windows!Outcome,
         Windows!Fails(o, outcome)
  PROVE  /\ \A p \in Windows!Operation \ {o} : request'[p] = request[p] /\ result'[p] = result[p]
         /\ request'[o] = "over" /\ o \notin late /\ request[o] \in {"queued", "written"}
         /\ request' \in [Windows!Operation -> {"none", "queued", "written", "over"}]
         /\ result' \in [Windows!Operation -> Windows!Results \cup {Windows!Nothing}]
         /\ late' \subseteq Windows!Operation
         /\ \/ /\ late' = late /\ result'[o] = Windows!Nothing
               /\ \/ result[o] # Windows!Nothing /\ outcome = result[o].outcome
                  \/ outcome = "notExecuted" /\ result[o] = Windows!Nothing
                  \/ outcome = "unknown"
            \/ late' = late \cup {o} /\ outcome = "unknown" /\ result' = result
  <1>1. o \notin late /\ request[o] \in {"queued", "written"}
    BY DEF Windows!Fails, RequestInv
  <1>2. CASE Windows!Settled(o) /\ UNCHANGED late
    <2>1. \/ result[o] # Windows!Nothing /\ outcome = result[o].outcome
          \/ outcome = "notExecuted" /\ request[o] = "queued"
          \/ outcome = "unknown"
      BY DEF Windows!Fails
    <2>2. request[o] = "queued" => result[o] = Windows!Nothing
      BY <1>1 DEF RequestInv, Underway
    <2>3. QED
      BY <1>1, <1>2, <2>1, <2>2, RequestMoves DEF Windows!TypeOK
  <1>3. CASE /\ outcome = "unknown" /\ request' = [request EXCEPT ![o] = "over"]
             /\ late' = late \cup {o} /\ UNCHANGED result
    BY <1>1, <1>3 DEF Windows!TypeOK
  <1>4. QED
    BY <1>2, <1>3 DEF Windows!Fails

USE DEF Windows!Operation, Windows!controller, Windows!state, Windows!world, Underway, Undone

LEMMA HostActsKeepsIt ==
  ASSUME WindowsInv, NEW o \in Windows!Operation, NEW r \in Windows!Results, Windows!HostActs(o, r)
  PROVE  WindowsInv'
  <1> USE DEF WindowsInv
  <1>1. /\ UNCHANGED <<host, ownership, acquiring, recoverable, mail, held, removed, memo, request, late, proofs>>
        /\ Underway(o) /\ result[o] = Windows!Nothing /\ result' = [result EXCEPT ![o] = r]
        /\ r.outcome = "executed" \/ r.form = "error"
    BY DEF Windows!HostActs
  <1>2. /\ result' \in [Windows!Operation -> Windows!Results \cup {Windows!Nothing}]
        /\ result'[o] = r /\ \A p \in Windows!Operation \ {o} : result'[p] = result[p]
    BY <1>1 DEF Windows!TypeOK
  <1>3. r # Windows!Nothing /\ r.outcome \in Windows!Outcome
    BY DEF Windows!Results, Windows!Nothing, Windows!Outcome
  <1>4. /\ \/ UNCHANGED <<target, released, ends>>
           \/ o = "acquire" /\ target' = "running" /\ UNCHANGED <<released, ends>>
           \/ o = "end" /\ target' = "exited" /\ ends' = ends + 1 /\ UNCHANGED released
           \/ o = "release" /\ released' = TRUE /\ UNCHANGED <<target, ends>>
        /\ r.outcome = "notExecuted" => UNCHANGED <<target, released, ends>>
        /\ r.outcome = "executed" /\ o = "end" => target' = "exited" /\ ends' = ends + 1
        /\ r.outcome = "executed" /\ o = "release" => released' = TRUE
    <2>1. \/ Windows!Executed(o)
          \/ r.outcome # "executed" /\ UNCHANGED <<target, released, ends>>
      BY <1>3 DEF Windows!HostActs, Windows!Outcome
    <2>2. r.outcome = "notExecuted" => UNCHANGED <<target, released, ends>>
      BY DEF Windows!HostActs
    <2>3. Windows!Executed(o) =>
            \/ UNCHANGED <<target, released, ends>> /\ o \notin {"acquire", "end", "release"}
            \/ o = "acquire" /\ target' = "running" /\ UNCHANGED <<released, ends>>
            \/ o = "end" /\ target' = "exited" /\ ends' = ends + 1 /\ UNCHANGED released
            \/ o = "release" /\ released' = TRUE /\ UNCHANGED <<target, ends>>
      <3>1. CASE o = "acquire"
        BY <3>1 DEF Windows!Executed
      <3>2. CASE o = "end"
        BY <3>2 DEF Windows!Executed
      <3>3. CASE o = "release"
        BY <3>3 DEF Windows!Executed
      <3>4. CASE o \notin {"acquire", "end", "release"}
        BY <3>4 DEF Windows!Executed
      <3>5. QED
        BY <3>1, <3>2, <3>3, <3>4
    <2>4. QED
      BY <2>1, <2>2, <2>3
  <1>5. request[o] \in {"written", "over"}
    BY <1>1 DEF RequestInv
  <1>6. o = "end" => held /\ ends = 0 /\ acquiring \in {"returned", "unknown"}
    <2>1. ASSUME o = "end" PROVE memo = "pending" \/ "end" \in late
      BY <1>1, <2>1 DEF EndInv, Windows!TypeOK
    <2>2. ASSUME o = "end" PROVE held /\ ends = 0
      BY <1>1, <1>5, <2>1, <2>2 DEF EndInv
    <2>3. QED
      BY <2>2 DEF AcquireInv
  <1>7. o = "acquire" => ~held /\ ends = 0 /\ acquiring \in {"requested", "unknown"}
    BY <1>1 DEF AcquireInv, EndInv
  <1>8. /\ released' \in BOOLEAN /\ target' \in {"none", "running", "exited"}
        /\ o = "end" => ends' \in {0, 1}
        /\ o # "end" => ends' = ends
    <2>1. released' = released \/ released' = TRUE
      BY <1>4
    <2>2. released' \in BOOLEAN
      BY <2>1 DEF Windows!TypeOK
    <2>3. target' \in {"none", "running", "exited"}
      BY <1>4 DEF Windows!TypeOK
    <2>4. QED
      BY <1>4, <1>6, <2>2, <2>3
  <1>9. Windows!TypeOK'
    BY <1>1, <1>2, <1>6, <1>8 DEF Windows!TypeOK
  <1>10. RequestInv'
    BY <1>1, <1>2, <1>3 DEF RequestInv
  <1>11. o # "acquire" /\ o # "end" => target' = target
    BY <1>4
  <1>12. Undone("acquire")' => Undone("acquire") /\ (o = "acquire" => target' = target)
    BY <1>1, <1>2, <1>3, <1>4
  <1>13. AcquireInv'
    BY <1>1, <1>6, <1>7, <1>11, <1>12 DEF AcquireInv
  <1>14. /\ o = "end" => IF Undone("end")' THEN ends' = 0 ELSE result'["end"].outcome = "executed" => ends' = 1
         /\ o # "end" => (Undone("end")' <=> Undone("end")) /\ result'["end"] = result["end"]
    BY <1>1, <1>2, <1>3, <1>4, <1>6
  <1>15. o = "end" => target' = "exited" \/ (ends' = 0 /\ target' = target)
    BY <1>4, <1>6
  <1>16. EndInv'
    <2>1. CASE o = "end"
      BY <1>1, <1>6, <1>8, <1>14, <1>15, <2>1 DEF EndInv
    <2>2. CASE o # "end"
      BY <1>1, <1>7, <1>8, <1>11, <1>14, <2>2 DEF EndInv
    <2>3. QED
      BY <2>1, <2>2
  <1>17. released => released'
    BY <1>4
  <1>18. Underway("release") /\ result'["release"].outcome = "executed" => released'
    BY <1>1, <1>2, <1>4, <1>17 DEF RemovedInv
  <1>19. RemovedInv'
    BY <1>1, <1>6, <1>8, <1>17, <1>18 DEF RemovedInv
  <1>20. QED
    BY <1>9, <1>10, <1>13, <1>16, <1>19

\* The controller: what is asked for and answered on the way to a session.
LEMMA ControllerKeepsIt ==
  ASSUME WindowsInv
  PROVE  /\ \A d \in Windows!Defect : Windows!Connect(d) \/ Windows!Acquired(d) => WindowsInv'
         /\ \A d \in Windows!Defect, kind \in {"launch", "attach"} : Windows!Acquire(kind, d) => WindowsInv'
         /\ \A outcome \in Windows!Outcome : Windows!AcquireFails(outcome) \/ Windows!RootFails(outcome) => WindowsInv'
         /\ \A fits \in BOOLEAN : Windows!RootObserved(fits) => WindowsInv'
         /\ \A o \in Windows!Operation : Windows!LateAnswer(o) => WindowsInv'
         /\ Windows!ReconcileLate => WindowsInv'
  <1> USE DEF WindowsInv
  <1>1. ASSUME NEW d \in Windows!Defect, Windows!Connect(d) PROVE WindowsInv'
    <2>1. host' \in {"connected", "refused"}
      BY <1>1 DEF Windows!Connect
    <2>2. QED
      BY <1>1, <2>1 DEF Windows!Connect, Windows!TypeOK, RequestInv, AcquireInv, EndInv, RemovedInv
  <1>2. ASSUME NEW d \in Windows!Defect, NEW kind \in {"launch", "attach"}, Windows!Acquire(kind, d) PROVE WindowsInv'
    <2>1. /\ acquiring = "new" /\ ownership' \in {"owned", "borrowed"}
          /\ UNCHANGED <<host, recoverable, mail, held, removed, memo, late, target, released, ends, proofs>>
          /\ \/ acquiring' = "requested" /\ Windows!Submit("acquire")
             \/ acquiring' = "untold" /\ UNCHANGED <<request, result>>
      BY <1>2 DEF Windows!Acquire
    <2>2. /\ request' \in [Windows!Operation -> {"none", "queued", "written", "over"}]
          /\ result' \in [Windows!Operation -> Windows!Results \cup {Windows!Nothing}]
          /\ \A p \in Windows!Operation \ {"acquire"} : request'[p] = request[p] /\ result'[p] = result[p]
          /\ \/ acquiring' = "requested" /\ request'["acquire"] = "queued" /\ result'["acquire"] = Windows!Nothing
             \/ acquiring' = "untold" /\ UNCHANGED <<request, result>>
      BY <2>1, RequestMoves DEF Windows!TypeOK
    <2>3. Windows!TypeOK'
      BY <2>1, <2>2 DEF Windows!TypeOK
    <2>4. ~held /\ "acquire" \notin late /\ target = "none" /\ ~recoverable /\ ~mail
      BY <2>1 DEF AcquireInv
    <2>5. request["end"] = "none" /\ request["release"] = "none" /\ ~removed
      BY <2>4 DEF EndInv, RemovedInv
    <2>6. RequestInv'
      BY <2>1, <2>2, <2>4 DEF RequestInv
    <2>7. AcquireInv'
      BY <2>1, <2>2, <2>4 DEF AcquireInv
    <2>8. EndInv' /\ RemovedInv'
      BY <2>1, <2>2, <2>4, <2>5 DEF EndInv, RemovedInv
    <2>9. QED
      BY <2>3, <2>6, <2>7, <2>8
  <1>3. ASSUME NEW d \in Windows!Defect, Windows!Acquired(d) PROVE WindowsInv'
    <2>1. /\ acquiring = "requested" /\ request["acquire"] = "written"
          /\ UNCHANGED <<host, ownership, mail, held, removed, memo, late, target, released, ends, proofs>>
      BY <1>3 DEF Windows!Acquired, Windows!Value
    <2>2. /\ request'["acquire"] = "over" /\ result'["acquire"] = Windows!Nothing
          /\ \A p \in Windows!Operation \ {"acquire", "root"} : request'[p] = request[p] /\ result'[p] = result[p]
          /\ request' \in [Windows!Operation -> {"none", "queued", "written", "over"}]
          /\ result' \in [Windows!Operation -> Windows!Results \cup {Windows!Nothing}]
          /\ result'["root"] = result["root"]
          /\ request'["root"] = request["root"] \/ (request'["root"] = "queued" /\ acquiring' = "observing")
          /\ acquiring' \in {"observing", "unknown"}
          /\ recoverable' = recoverable \/ recoverable' = TRUE
      <3>1. CASE acquiring' = "unknown" /\ Windows!Settled("acquire") /\ UNCHANGED recoverable
        BY <3>1, RequestMoves
      <3>2. CASE /\ recoverable' = TRUE /\ acquiring' \in {"observing", "unknown"}
                 /\ request' = [request EXCEPT !["acquire"] = "over", !["root"] = IF acquiring' = "observing" THEN "queued" ELSE @]
                 /\ result' = [result EXCEPT !["acquire"] = Windows!Nothing]
        BY <3>2 DEF Windows!TypeOK
      <3>3. QED
        BY <1>3, <3>1, <3>2 DEF Windows!Acquired
    <2>3. "root" \notin late /\ "acquire" \notin late /\ result["root"] = Windows!Nothing
      BY <2>1 DEF RequestInv, AcquireInv, Windows!SideEffect
    <2>4. recoverable' \in BOOLEAN /\ (recoverable' => acquiring' \in {"observing", "unknown"})
      BY <2>1, <2>2 DEF Windows!TypeOK
    <2>5. Windows!TypeOK'
      BY <2>1, <2>2, <2>4 DEF Windows!TypeOK, Windows!Outcome
    <2>6. RequestInv'
      BY <2>1, <2>2, <2>3 DEF RequestInv
    <2>7. AcquireInv'
      BY <2>1, <2>2, <2>3, <2>4 DEF AcquireInv
    <2>8. EndInv' /\ RemovedInv'
      BY <2>1, <2>2 DEF EndInv, RemovedInv
    <2>9. QED
      BY <2>5, <2>6, <2>7, <2>8
  <1>4. ASSUME NEW outcome \in Windows!Outcome, Windows!AcquireFails(outcome) PROVE WindowsInv'
    <2>1. /\ acquiring = "requested" /\ acquiring' = outcome /\ Windows!Fails("acquire", outcome)
          /\ UNCHANGED <<host, ownership, recoverable, mail, held, removed, memo, target, released, ends, proofs>>
      BY <1>4 DEF Windows!AcquireFails
    <2>2. /\ \A p \in Windows!Operation \ {"acquire"} : request'[p] = request[p] /\ result'[p] = result[p]
          /\ request'["acquire"] = "over" /\ "acquire" \notin late
          /\ request' \in [Windows!Operation -> {"none", "queued", "written", "over"}]
          /\ result' \in [Windows!Operation -> Windows!Results \cup {Windows!Nothing}]
          /\ late' \subseteq Windows!Operation
          /\ \/ /\ late' = late /\ result'["acquire"] = Windows!Nothing
                /\ outcome = "notExecuted" => Undone("acquire")
             \/ late' = late \cup {"acquire"} /\ outcome = "unknown" /\ result' = result
      BY <2>1, RequestFails
    <2>3. ~held /\ ~recoverable /\ ~mail
      BY <2>1 DEF AcquireInv
    <2>4. Windows!TypeOK'
      BY <2>1, <2>2 DEF Windows!TypeOK
    <2>5. RequestInv'
      BY <2>1, <2>2 DEF RequestInv, Windows!SideEffect
    <2>6. AcquireInv'
      BY <2>1, <2>2, <2>3 DEF AcquireInv, Windows!Outcome
    <2>7. EndInv' /\ RemovedInv'
      BY <2>1, <2>2, <2>3 DEF EndInv, RemovedInv
    <2>8. QED
      BY <2>4, <2>5, <2>6, <2>7
  <1>5. ASSUME NEW outcome \in Windows!Outcome, Windows!RootFails(outcome) PROVE WindowsInv'
    <2>1. /\ acquiring = "observing" /\ acquiring' = "unknown" /\ Windows!Fails("root", outcome)
          /\ UNCHANGED <<host, ownership, recoverable, mail, held, removed, memo, late, target, released, ends, proofs>>
      BY <1>5 DEF Windows!RootFails, Windows!Fails, Windows!SideEffect
    <2>2. /\ \A p \in Windows!Operation \ {"root"} : request'[p] = request[p] /\ result'[p] = result[p]
          /\ request'["root"] = "over"
          /\ request' \in [Windows!Operation -> {"none", "queued", "written", "over"}]
          /\ result' \in [Windows!Operation -> Windows!Results \cup {Windows!Nothing}]
          /\ result'["root"] = Windows!Nothing
      BY <2>1, RequestFails DEF RequestInv, Windows!SideEffect
    <2>3. Windows!TypeOK'
      BY <2>1, <2>2 DEF Windows!TypeOK, Windows!Outcome
    <2>4. RequestInv'
      BY <2>1, <2>2 DEF RequestInv
    <2>5. AcquireInv' /\ EndInv' /\ RemovedInv'
      BY <2>1, <2>2 DEF AcquireInv, EndInv, RemovedInv
    <2>6. QED
      BY <2>3, <2>4, <2>5
  <1>6. ASSUME NEW fits \in BOOLEAN, Windows!RootObserved(fits) PROVE WindowsInv'
    <2>1. /\ acquiring = "observing" /\ Windows!Settled("root")
          /\ UNCHANGED <<host, ownership, mail, removed, memo, late, target, released, ends, proofs>>
          /\ \/ acquiring' = "returned" /\ recoverable' = FALSE /\ held' = TRUE
             \/ acquiring' = "unknown" /\ UNCHANGED <<recoverable, held>>
      BY <1>6 DEF Windows!RootObserved
    <2>2. /\ \A p \in Windows!Operation \ {"root"} : request'[p] = request[p] /\ result'[p] = result[p]
          /\ request'["root"] = "over" /\ result'["root"] = Windows!Nothing
          /\ request' \in [Windows!Operation -> {"none", "queued", "written", "over"}]
          /\ result' \in [Windows!Operation -> Windows!Results \cup {Windows!Nothing}]
      BY <2>1, RequestMoves
    <2>3. recoverable' \in BOOLEAN /\ held' \in BOOLEAN
      BY <2>1 DEF Windows!TypeOK
    <2>4. ~held /\ ~mail /\ "acquire" \notin late
      BY <2>1 DEF AcquireInv
    <2>5. Windows!TypeOK'
      BY <2>1, <2>2, <2>3 DEF Windows!TypeOK, Windows!Outcome
    <2>6. RequestInv'
      BY <2>1, <2>2 DEF RequestInv, Windows!SideEffect
    <2>7. AcquireInv'
      BY <2>1, <2>2, <2>4 DEF AcquireInv
    <2>8. EndInv'
      BY <2>1, <2>2, <2>4 DEF EndInv
    <2>9. RemovedInv'
      BY <2>1, <2>2, <2>4 DEF RemovedInv
    <2>10. QED
      BY <2>5, <2>6, <2>7, <2>8, <2>9
  <1>7. ASSUME NEW o \in Windows!Operation, Windows!LateAnswer(o) PROVE WindowsInv'
    <2>1. /\ o \in late /\ late' = late \ {o} /\ result' = [result EXCEPT ![o] = Windows!Nothing]
          /\ UNCHANGED <<host, ownership, acquiring, recoverable, held, removed, memo, request, target, released, ends, proofs>>
          /\ mail' => mail \/ o = "acquire"
      BY <1>7 DEF Windows!LateAnswer
    <2>2. mail' \in BOOLEAN
      BY <1>7 DEF Windows!LateAnswer
    <2>3. /\ result' \in [Windows!Operation -> Windows!Results \cup {Windows!Nothing}]
          /\ result'[o] = Windows!Nothing /\ \A p \in Windows!Operation \ {o} : result'[p] = result[p]
      BY <2>1 DEF Windows!TypeOK
    <2>4. Windows!TypeOK'
      BY <2>1, <2>2, <2>3 DEF Windows!TypeOK
    <2>5. RequestInv'
      BY <2>1, <2>3 DEF RequestInv
    <2>6. request[o] = "over"
      BY <2>1 DEF RequestInv
    <2>7. AcquireInv'
      BY <2>1, <2>3, <2>6 DEF AcquireInv
    <2>8. EndInv'
      BY <2>1, <2>3, <2>6 DEF EndInv
    <2>9. RemovedInv'
      BY <2>1, <2>3, <2>6 DEF RemovedInv
    <2>10. QED
      BY <2>4, <2>5, <2>7, <2>8, <2>9
  <1>8. ASSUME Windows!ReconcileLate PROVE WindowsInv'
    <2>1. /\ acquiring = "unknown" /\ (recoverable \/ mail) /\ held' = TRUE /\ ~held
          /\ UNCHANGED <<host, ownership, acquiring, recoverable, mail, removed, memo, request, result, late, target, released, ends, proofs>>
      BY <1>8 DEF Windows!ReconcileLate
    <2>2. Windows!TypeOK' /\ RequestInv'
      BY <2>1 DEF Windows!TypeOK, RequestInv
    <2>3. AcquireInv' /\ EndInv' /\ RemovedInv'
      BY <2>1 DEF AcquireInv, EndInv, RemovedInv
    <2>4. QED
      BY <2>2, <2>3
  <1>9. QED
    BY <1>1, <1>2, <1>3, <1>4, <1>5, <1>6, <1>7, <1>8

\* The session: its elements, its one end and its release.
LEMMA SessionKeepsIt ==
  ASSUME WindowsInv
  PROVE  /\ \A o \in Windows!Operation : Windows!WriteFrame(o) \/ Windows!ElementAnswered(o) => WindowsInv'
         /\ \A d \in Windows!Defect : Windows!Find(d) \/ Windows!ActionSubmitted(d) => WindowsInv'
         /\ Windows!End \/ Windows!Ended \/ Windows!TargetExit \/ Windows!TargetExits => WindowsInv'
         /\ \A outcome \in Windows!Outcome : Windows!EndFails(outcome) => WindowsInv'
         /\ Windows!Release \/ Windows!Released \/ Windows!ReleaseFails \/ Windows!CloseHost => WindowsInv'
         /\ \A seen \in BOOLEAN : Windows!HostExit(seen) => WindowsInv'
  <1> USE DEF WindowsInv
  <1>1. ASSUME NEW o \in Windows!Operation, Windows!WriteFrame(o) PROVE WindowsInv'
    <2>1. /\ request[o] = "queued" /\ request' = [request EXCEPT ![o] = "written"]
          /\ UNCHANGED <<host, ownership, acquiring, recoverable, mail, held, removed, memo, result, late, target, released, ends, proofs>>
      BY <1>1 DEF Windows!WriteFrame
    <2>2. /\ request' \in [Windows!Operation -> {"none", "queued", "written", "over"}]
          /\ request'[o] = "written" /\ \A p \in Windows!Operation \ {o} : request'[p] = request[p]
      BY <2>1 DEF Windows!TypeOK
    <2>3. o \notin late /\ result[o] = Windows!Nothing
      BY <2>1 DEF RequestInv
    <2>4. Windows!TypeOK' /\ RequestInv'
      BY <2>1, <2>2, <2>3 DEF Windows!TypeOK, RequestInv
    <2>5. AcquireInv'
      BY <2>1, <2>2, <2>3 DEF AcquireInv
    <2>6. EndInv'
      BY <2>1, <2>2, <2>3 DEF EndInv
    <2>7. RemovedInv'
      BY <2>1, <2>2, <2>3 DEF RemovedInv, Windows!Nothing
    <2>8. QED
      BY <2>4, <2>5, <2>6, <2>7
  \* what concerns elements only
  <1>2. ASSUME UNCHANGED <<host, ownership, acquiring, recoverable, mail, held, removed, memo, target, released, ends, proofs>>,
               \A p \in {"acquire", "root", "end", "release"} : request'[p] = request[p] /\ result'[p] = result[p] /\ (p \in late' <=> p \in late),
               request' \in [Windows!Operation -> {"none", "queued", "written", "over"}],
               result' \in [Windows!Operation -> Windows!Results \cup {Windows!Nothing}],
               late' \subseteq Windows!Operation,
               \A p \in {"find", "action"} :
                 /\ p \in late' => request'[p] = "over" /\ p = "action"
                 /\ result'[p] = Windows!Nothing \/ (result'[p] = result[p] /\ (Underway(p) => request'[p] = "written" \/ p \in late'))
        PROVE  WindowsInv'
    <2>1. Windows!TypeOK'
      BY <1>2 DEF Windows!TypeOK
    <2>2. RequestInv'
      BY <1>2 DEF RequestInv, Windows!SideEffect
    <2>3. AcquireInv'
      BY <1>2 DEF AcquireInv
    <2>4. EndInv'
      BY <1>2 DEF EndInv
    <2>5. RemovedInv'
      BY <1>2 DEF RemovedInv
    <2>6. QED
      BY <2>1, <2>2, <2>3, <2>4, <2>5
  <1>3. ASSUME NEW o \in Windows!Operation, Windows!ElementAnswered(o) PROVE WindowsInv'
    <2>1. /\ o \in {"find", "action"}
          /\ UNCHANGED <<host, ownership, acquiring, recoverable, mail, held, removed, memo, target, released, ends, proofs>>
      BY <1>3 DEF Windows!ElementAnswered
    <2>2. CASE Windows!Value(o) /\ Windows!Settled(o) /\ UNCHANGED late
      <3>1. o \notin late
        BY <2>2 DEF Windows!Value, RequestInv
      <3>2. /\ \A p \in Windows!Operation \ {o} : request'[p] = request[p] /\ result'[p] = result[p]
            /\ request'[o] = "over" /\ result'[o] = Windows!Nothing /\ late' = late
            /\ request' \in [Windows!Operation -> {"none", "queued", "written", "over"}]
            /\ result' \in [Windows!Operation -> Windows!Results \cup {Windows!Nothing}]
        BY <2>2, RequestMoves
      <3>3. late \subseteq Windows!Operation /\ \A p \in {"find", "action"} : p \in late => request[p] = "over" /\ p = "action"
        BY DEF RequestInv, Windows!SideEffect, Windows!TypeOK
      <3>4. QED
        BY <1>2, <2>1, <3>1, <3>2, <3>3
    <2>3. ASSUME NEW outcome \in Windows!Outcome, Windows!Fails(o, outcome) PROVE WindowsInv'
      <3>1. late' = late \/ (o = "action" /\ late' = late \cup {o})
        BY <2>1, <2>3 DEF Windows!Fails, Windows!SideEffect
      <3>2. /\ \A p \in Windows!Operation \ {o} : request'[p] = request[p] /\ result'[p] = result[p]
            /\ request'[o] = "over" /\ o \notin late
            /\ request' \in [Windows!Operation -> {"none", "queued", "written", "over"}]
            /\ result' \in [Windows!Operation -> Windows!Results \cup {Windows!Nothing}]
            /\ late' \subseteq Windows!Operation
            /\ \/ late' = late /\ result'[o] = Windows!Nothing
               \/ late' = late \cup {o} /\ result' = result
        BY <2>3, RequestFails
      <3>3. \A p \in {"find", "action"} : p \in late => request[p] = "over" /\ p = "action"
        BY DEF RequestInv, Windows!SideEffect
      <3>4. QED
        BY <1>2, <2>1, <3>1, <3>2, <3>3
    <2>4. QED
      BY <1>3, <2>2, <2>3 DEF Windows!ElementAnswered
  <1>4. ASSUME NEW d \in Windows!Defect, Windows!Find(d) PROVE WindowsInv'
    <2>1. /\ "find" \notin late /\ Windows!Submit("find") /\ late' = late
          /\ UNCHANGED <<host, ownership, acquiring, recoverable, mail, held, removed, memo, target, released, ends, proofs>>
      BY <1>4 DEF Windows!Find, Windows!Idle
    <2>2. /\ \A p \in Windows!Operation \ {"find"} : request'[p] = request[p] /\ result'[p] = result[p]
          /\ request'["find"] = "queued" /\ result'["find"] = Windows!Nothing
          /\ request' \in [Windows!Operation -> {"none", "queued", "written", "over"}]
          /\ result' \in [Windows!Operation -> Windows!Results \cup {Windows!Nothing}]
      BY <2>1, RequestMoves
    <2>3. late \subseteq Windows!Operation /\ \A p \in {"find", "action"} : p \in late => request[p] = "over" /\ p = "action"
      BY DEF RequestInv, Windows!SideEffect, Windows!TypeOK
    <2>4. QED
      BY <1>2, <2>1, <2>2, <2>3
  <1>5. ASSUME NEW d \in Windows!Defect, Windows!ActionSubmitted(d) PROVE WindowsInv'
    <2>1. /\ "action" \notin late /\ request["action"] \in {"none", "over"} /\ late' = late
          /\ UNCHANGED <<host, ownership, acquiring, recoverable, mail, held, removed, memo, target, released, ends, proofs>>
          /\ \/ /\ request' = [request EXCEPT !["find"] = "over", !["action"] = "queued"]
                /\ result' = [result EXCEPT !["find"] = Windows!Nothing]
             \/ Windows!Settled("find")
      BY <1>5 DEF Windows!ActionSubmitted, Windows!Idle
    <2>2. /\ \A p \in Windows!Operation \ {"find", "action"} : request'[p] = request[p] /\ result'[p] = result[p]
          /\ request'["find"] = "over" /\ result'["find"] = Windows!Nothing
          /\ request' \in [Windows!Operation -> {"none", "queued", "written", "over"}]
          /\ result' \in [Windows!Operation -> Windows!Results \cup {Windows!Nothing}]
          /\ result'["action"] = result["action"]
      BY <2>1, RequestMoves DEF Windows!TypeOK
    <2>3. /\ late \subseteq Windows!Operation /\ "find" \notin late
          /\ result["action"] = Windows!Nothing
      BY <2>1 DEF RequestInv, Windows!SideEffect, Windows!TypeOK
    <2>4. QED
      BY <1>2, <2>1, <2>2, <2>3
  <1>6. ASSUME Windows!End PROVE WindowsInv'
    <2>1. /\ held /\ ownership = "owned" /\ memo = "none" /\ memo' = "pending" /\ "end" \notin late
          /\ Windows!Submit("end")
          /\ UNCHANGED <<host, ownership, acquiring, recoverable, mail, held, removed, late, target, released, ends, proofs>>
      BY <1>6 DEF Windows!End, Windows!Idle
    <2>2. /\ \A p \in Windows!Operation \ {"end"} : request'[p] = request[p] /\ result'[p] = result[p]
          /\ request'["end"] = "queued" /\ result'["end"] = Windows!Nothing
          /\ request' \in [Windows!Operation -> {"none", "queued", "written", "over"}]
          /\ result' \in [Windows!Operation -> Windows!Results \cup {Windows!Nothing}]
      BY <2>1, RequestMoves
    <2>3. Windows!TypeOK' /\ RequestInv'
      BY <2>1, <2>2 DEF Windows!TypeOK, RequestInv
    <2>4. AcquireInv'
      BY <2>1, <2>2 DEF AcquireInv
    <2>5. EndInv'
      BY <2>1, <2>2 DEF EndInv
    <2>6. RemovedInv'
      BY <2>1, <2>2 DEF RemovedInv
    <2>7. QED
      BY <2>3, <2>4, <2>5, <2>6
  <1>7. ASSUME Windows!Ended PROVE WindowsInv'
    <2>1. /\ memo = "pending" /\ memo' = "executed" /\ removed' = TRUE /\ Windows!Settled("end")
          /\ request["end"] = "written" /\ result["end"] # Windows!Nothing /\ result["end"].form # "error"
          /\ UNCHANGED <<host, ownership, acquiring, recoverable, mail, held, late, target, released, ends, proofs>>
      BY <1>7 DEF Windows!Ended, Windows!Value
    <2>2. /\ \A p \in Windows!Operation \ {"end"} : request'[p] = request[p] /\ result'[p] = result[p]
          /\ request'["end"] = "over" /\ result'["end"] = Windows!Nothing
          /\ request' \in [Windows!Operation -> {"none", "queued", "written", "over"}]
          /\ result' \in [Windows!Operation -> Windows!Results \cup {Windows!Nothing}]
      BY <2>1, RequestMoves
    <2>3. result["end"].outcome = "executed" /\ "end" \notin late
      BY <2>1 DEF RequestInv
    <2>4. ends = 1 /\ held /\ ownership = "owned"
      BY <2>1, <2>3 DEF EndInv
    <2>5. Windows!TypeOK' /\ RequestInv'
      BY <2>1, <2>2, <2>3 DEF Windows!TypeOK, RequestInv
    <2>6. AcquireInv'
      BY <2>1, <2>2 DEF AcquireInv
    <2>7. EndInv'
      BY <2>1, <2>2, <2>3, <2>4 DEF EndInv
    <2>8. RemovedInv'
      BY <2>1, <2>2, <2>4 DEF RemovedInv
    <2>9. QED
      BY <2>5, <2>6, <2>7, <2>8
  <1>8. ASSUME NEW outcome \in Windows!Outcome, Windows!EndFails(outcome) PROVE WindowsInv'
    <2>1. /\ memo = "pending" /\ Windows!Fails("end", outcome)
          /\ UNCHANGED <<host, ownership, acquiring, recoverable, mail, held, removed, target, released, ends, proofs>>
          /\ \/ outcome \in {"unknown", "executed"} /\ memo' = "kept"
             \/ outcome = "notExecuted" /\ memo' = "none"
      BY <1>8 DEF Windows!EndFails, Windows!Outcome
    <2>2. /\ \A p \in Windows!Operation \ {"end"} : request'[p] = request[p] /\ result'[p] = result[p]
          /\ request'["end"] = "over" /\ "end" \notin late /\ request["end"] \in {"queued", "written"}
          /\ request' \in [Windows!Operation -> {"none", "queued", "written", "over"}]
          /\ result' \in [Windows!Operation -> Windows!Results \cup {Windows!Nothing}]
          /\ late' \subseteq Windows!Operation
          /\ \/ /\ late' = late /\ result'["end"] = Windows!Nothing
                /\ outcome = "notExecuted" => Undone("end")
             \/ late' = late \cup {"end"} /\ outcome = "unknown" /\ result' = result
      BY <2>1, RequestFails
    <2>3. Windows!TypeOK'
      BY <2>1, <2>2 DEF Windows!TypeOK
    <2>4. RequestInv'
      BY <2>1, <2>2 DEF RequestInv, Windows!SideEffect
    <2>5. AcquireInv'
      BY <2>1, <2>2 DEF AcquireInv
    <2>6. EndInv'
      BY <2>1, <2>2 DEF EndInv
    <2>7. RemovedInv'
      BY <2>1, <2>2 DEF RemovedInv
    <2>8. QED
      BY <2>3, <2>4, <2>5, <2>6, <2>7
  <1>9. ASSUME Windows!TargetExit PROVE WindowsInv'
    <2>1. Windows!TypeOK'
      BY <1>9 DEF Windows!TargetExit, Windows!TypeOK
    <2>2. RequestInv' /\ AcquireInv' /\ EndInv'
      BY <1>9 DEF Windows!TargetExit, RequestInv, AcquireInv, EndInv
    <2>3. RemovedInv'
      BY <1>9 DEF Windows!TargetExit, RemovedInv
    <2>4. QED
      BY <2>1, <2>2, <2>3
  <1>10. ASSUME Windows!TargetExits PROVE WindowsInv'
    <2>1. Windows!TypeOK'
      BY <1>10 DEF Windows!TargetExits, Windows!TypeOK
    <2>2. RequestInv' /\ AcquireInv' /\ EndInv'
      BY <1>10 DEF Windows!TargetExits, RequestInv, AcquireInv, EndInv
    <2>3. RemovedInv'
      BY <1>10 DEF Windows!TargetExits, RemovedInv
    <2>4. QED
      BY <2>1, <2>2, <2>3
  <1>11. ASSUME Windows!Release PROVE WindowsInv'
    <2>1. CASE removed
      <3>1. /\ proofs' = proofs \cup {"sessionRelease"}
            /\ UNCHANGED <<host, ownership, acquiring, recoverable, mail, held, removed, memo, request, result, late, target, released, ends>>
        BY <1>11, <2>1 DEF Windows!Release
      <3>2. Windows!TypeOK'
        BY <3>1 DEF Windows!TypeOK
      <3>3. RequestInv' /\ AcquireInv' /\ EndInv'
        BY <3>1 DEF RequestInv, AcquireInv, EndInv
      <3>4. RemovedInv'
        BY <2>1, <3>1 DEF RemovedInv
      <3>5. QED
        BY <3>2, <3>3, <3>4
    <2>2. CASE ~removed
      <3>1. /\ held /\ ownership = "borrowed" /\ "release" \notin late /\ Windows!Submit("release")
            /\ UNCHANGED <<host, ownership, acquiring, recoverable, mail, held, removed, memo, late, target, released, ends, proofs>>
        BY <1>11, <2>2 DEF Windows!Release, Windows!Idle
      <3>2. /\ \A p \in Windows!Operation \ {"release"} : request'[p] = request[p] /\ result'[p] = result[p]
            /\ request'["release"] = "queued" /\ result'["release"] = Windows!Nothing
            /\ request' \in [Windows!Operation -> {"none", "queued", "written", "over"}]
            /\ result' \in [Windows!Operation -> Windows!Results \cup {Windows!Nothing}]
        BY <3>1, RequestMoves
      <3>3. Windows!TypeOK' /\ RequestInv'
        BY <3>1, <3>2 DEF Windows!TypeOK, RequestInv
      <3>4. AcquireInv' /\ EndInv'
        BY <3>1, <3>2 DEF AcquireInv, EndInv
      <3>5. RemovedInv'
        BY <3>1, <3>2 DEF RemovedInv
      <3>6. QED
        BY <3>3, <3>4, <3>5
    <2>3. QED
      BY <2>1, <2>2
  <1>12. ASSUME Windows!Released PROVE WindowsInv'
    <2>1. /\ removed' = TRUE /\ proofs' = proofs \cup {"sessionRelease"} /\ Windows!Settled("release")
          /\ request["release"] = "written" /\ result["release"] # Windows!Nothing /\ result["release"].form # "error"
          /\ UNCHANGED <<host, ownership, acquiring, recoverable, mail, held, memo, late, target, released, ends>>
      BY <1>12 DEF Windows!Released, Windows!Value
    <2>2. /\ \A p \in Windows!Operation \ {"release"} : request'[p] = request[p] /\ result'[p] = result[p]
          /\ request'["release"] = "over" /\ result'["release"] = Windows!Nothing
          /\ request' \in [Windows!Operation -> {"none", "queued", "written", "over"}]
          /\ result' \in [Windows!Operation -> Windows!Results \cup {Windows!Nothing}]
      BY <2>1, RequestMoves
    <2>3. result["release"].outcome = "executed" /\ "release" \notin late
      BY <2>1 DEF RequestInv
    <2>4. released /\ held /\ ownership = "borrowed"
      BY <2>1, <2>3 DEF RemovedInv
    <2>5. Windows!TypeOK' /\ RequestInv'
      BY <2>1, <2>2, <2>3 DEF Windows!TypeOK, RequestInv
    <2>6. AcquireInv' /\ EndInv'
      BY <2>1, <2>2 DEF AcquireInv, EndInv
    <2>7. RemovedInv'
      BY <2>1, <2>2, <2>3, <2>4 DEF RemovedInv
    <2>8. QED
      BY <2>5, <2>6, <2>7
  <1>13. ASSUME Windows!ReleaseFails PROVE WindowsInv'
    <2>1. PICK outcome \in Windows!Outcome : Windows!Fails("release", outcome)
      BY <1>13 DEF Windows!ReleaseFails
    <2>2. UNCHANGED <<host, ownership, acquiring, recoverable, mail, held, removed, memo, target, released, ends, proofs>>
      BY <1>13 DEF Windows!ReleaseFails
    <2>3. /\ \A p \in Windows!Operation \ {"release"} : request'[p] = request[p] /\ result'[p] = result[p]
          /\ request'["release"] = "over" /\ "release" \notin late /\ request["release"] \in {"queued", "written"}
          /\ request' \in [Windows!Operation -> {"none", "queued", "written", "over"}]
          /\ result' \in [Windows!Operation -> Windows!Results \cup {Windows!Nothing}]
          /\ late' \subseteq Windows!Operation
          /\ \/ late' = late /\ result'["release"] = Windows!Nothing
             \/ late' = late \cup {"release"} /\ result' = result
      BY <2>1, RequestFails
    <2>4. result["release"] # Windows!Nothing => request["release"] = "written"
      BY <2>3 DEF RequestInv
    <2>5. Windows!TypeOK'
      BY <2>2, <2>3 DEF Windows!TypeOK
    <2>6. RequestInv'
      BY <2>2, <2>3 DEF RequestInv, Windows!SideEffect
    <2>7. AcquireInv' /\ EndInv'
      BY <2>2, <2>3 DEF AcquireInv, EndInv
    <2>8. RemovedInv'
      BY <2>2, <2>3, <2>4 DEF RemovedInv, Windows!Nothing
    <2>9. QED
      BY <2>5, <2>6, <2>7, <2>8
  <1>14. ASSUME Windows!CloseHost PROVE WindowsInv'
    BY <1>14 DEF Windows!CloseHost, Windows!TypeOK, RequestInv, AcquireInv, EndInv, RemovedInv
  <1>15. ASSUME NEW seen \in BOOLEAN, Windows!HostExit(seen) PROVE WindowsInv'
    <2>1. /\ host' \in {"exited", "unconfirmed"}
          /\ proofs' = proofs \/ proofs' = proofs \cup {"hostChildExit"}
          /\ UNCHANGED <<ownership, acquiring, recoverable, mail, held, removed, memo, request, result, late, target, released, ends>>
      BY <1>15 DEF Windows!HostExit
    <2>2. Windows!TypeOK'
      <3>1. proofs' \subseteq {"targetExit", "sessionRelease", "hostChildExit"}
        BY <2>1 DEF Windows!TypeOK
      <3>2. QED
        BY <2>1, <3>1 DEF Windows!TypeOK
    <2>3. RequestInv' /\ AcquireInv' /\ EndInv' /\ RemovedInv'
      BY <2>1 DEF RequestInv, AcquireInv, EndInv, RemovedInv
    <2>4. QED
      BY <2>2, <2>3
  <1>16. QED
    BY <1>1, <1>3, <1>4, <1>5, <1>6, <1>7, <1>8, <1>9, <1>10, <1>11, <1>12, <1>13, <1>14, <1>15

LEMMA WindowsStep == ASSUME WindowsInv, [Windows!Next]_(Windows!windowsVars) PROVE WindowsInv'
  <1>1. CASE UNCHANGED Windows!windowsVars
    <2>1. Windows!TypeOK' /\ RequestInv'
      BY <1>1 DEF WindowsInv, Windows!windowsVars, Windows!TypeOK, RequestInv
    <2>2. AcquireInv' /\ EndInv' /\ RemovedInv'
      BY <1>1 DEF WindowsInv, Windows!windowsVars, AcquireInv, EndInv, RemovedInv
    <2>3. QED
      BY <2>1, <2>2 DEF WindowsInv
  <1>2. CASE Windows!ReconcileLate \/ Windows!End \/ Windows!Ended \/ Windows!TargetExit \/ Windows!TargetExits
    BY <1>2, ControllerKeepsIt, SessionKeepsIt
  <1>3. CASE Windows!Release \/ Windows!Released \/ Windows!ReleaseFails \/ Windows!CloseHost
    BY <1>3, SessionKeepsIt
  <1>4. ASSUME NEW d \in Windows!Defect,
               \/ Windows!Connect(d) \/ Windows!Acquired(d) \/ Windows!Find(d) \/ Windows!ActionSubmitted(d)
               \/ \E kind \in {"launch", "attach"} : Windows!Acquire(kind, d)
        PROVE WindowsInv'
    BY <1>4, ControllerKeepsIt, SessionKeepsIt
  <1>5. ASSUME NEW b \in BOOLEAN, Windows!RootObserved(b) \/ Windows!HostExit(b) PROVE WindowsInv'
    BY <1>5, ControllerKeepsIt, SessionKeepsIt
  <1>6. ASSUME NEW o \in Windows!Operation, NEW r \in Windows!Results, Windows!HostActs(o, r) PROVE WindowsInv'
    BY <1>6, HostActsKeepsIt
  <1>7. ASSUME NEW o \in Windows!Operation,
               Windows!WriteFrame(o) \/ Windows!LateAnswer(o) \/ Windows!ElementAnswered(o)
        PROVE WindowsInv'
    BY <1>7, ControllerKeepsIt, SessionKeepsIt
  <1>8. ASSUME NEW x \in Windows!Outcome,
               Windows!AcquireFails(x) \/ Windows!RootFails(x) \/ Windows!EndFails(x)
        PROVE WindowsInv'
    BY <1>8, ControllerKeepsIt, SessionKeepsIt
  <1>9. QED
    BY <1>1, <1>2, <1>3, <1>4, <1>5, <1>6, <1>7, <1>8 DEF Windows!Next

LEMMA CleanupHolds == ASSUME WindowsInv PROVE Windows!CleanupIsTrue
  <1>1. Windows!NothingLeftBehind
    BY DEF WindowsInv, AcquireInv, Windows!NothingLeftBehind
  <1>2. Windows!EndedOnce
    BY DEF WindowsInv, EndInv, Windows!EndedOnce
  <1>3. Windows!ProofsHold
    BY DEF WindowsInv, EndInv, RemovedInv, Windows!ProofsHold
  <1>4. QED
    BY <1>1, <1>2, <1>3 DEF Windows!CleanupIsTrue

\* What a cleanup says of a Windows application, its session and its host was proved: nothing
\* is left of a launch that is told not to have been executed, the host executes one end at
\* the most, and a proof of exit or of release is of what the host did, whatever answers were
\* malformed, about another session, or late (windows-session.ts, windows-controller.ts).
THEOREM CleanupStaysTrue == Spec => []CleanupIsTrue
  <1> DEFINE Inv == picked = "windows" => WindowsInv
  <1>1. Init => Inv
    BY WindowsInit DEF Init
  <1>2. Inv /\ [Next]_allVars => Inv'
    BY OneIsPicked, WindowsStep
  <1>3. Inv => CleanupIsTrue
    BY CleanupHolds DEF CleanupIsTrue
  <1> HIDE DEF Inv
  <1>4. QED
    BY <1>1, <1>2, <1>3, PTL DEF Spec

HIDE DEF host, late, target, ownership, acquiring, recoverable, mail, held, removed, memo,
         request, released, ends, proofs, result
HIDE DEF Windows!Operation, Windows!controller, Windows!state, Windows!world, Underway, Undone

-----------------------------------------------------------------------------
(* WindowsHost                                                             *)

script == v2
next == v3
reader == v4
inbound == v5
cancelled == v6
consumer == v7
used == v8
sessions == v9
process == v10
identity == v11
outstanding == v12
answers == v13
effect == v14

USE DEF host, outstanding, script, next, reader, inbound, cancelled, consumer, used, sessions, process, identity,
        answers, effect

HostEntry == [place : HostElement, id : Nat]
HostSession == [owner : {"owned", "borrowed"}, registry : Seq(HostEntry)]
HostReply == [ok : BOOLEAN, outcome : {"none", "executed", "notExecuted", "unknown"}, retry : {"safe", "never"}]

\* Where the consumer is: a request is taken, dispatched, under way and answered.
Dispatched == {"launch", "attach", "end", "releaseSession", "find", "act"}
UnderWay == {"admitted", "window", "ending", "commit", "perform", "observe"} \cup Dispatched
NoEffectYet == {"taken", "admitted", "commit", "perform"} \cup Dispatched
Unanswered == {"taken", "built", "write"} \cup UnderWay
AtWork == Unanswered \cup {"release"}

HostConsumer == [at : AtWork \cup {"idle", "disposing", "ended", "failed"}, frame : WinHost!Frame \cup {0},
                 reply : HostReply \cup {None}, seen : Seq(HostEntry)]

HostType ==
  /\ script \in HostScripts
  /\ next \in 1 .. Len(script) + 1
  /\ reader \in {"reading", "adding", "ended"}
  /\ host \in {"running", "interrupted", "stopped"}
  /\ inbound \in Seq(WinHost!Frame) /\ outstanding \subseteq WinHost!Frame
  /\ consumer \in HostConsumer
  /\ process \in [WinHost!Frame -> {"none", "running", "gone", "left"}]
  /\ identity \in [HostElement -> Nat]
  /\ effect \in [WinHost!Frame -> {"nothing", "begun", "done", "astray"}]
  /\ sessions \in [WinHost!Frame -> HostSession \cup {None}]
  /\ answers \in [WinHost!Frame -> HostReply \cup {None}]

\* A frame that comes before all that is queued or still to be queued.
IsPast(f) == /\ f < next /\ (reader = "adding" => f < next - 1)
             /\ \A i \in DOMAIN inbound : f < inbound[i]
LeftTraces(f) == answers[f] # None \/ effect[f] # "nothing" \/ sessions[f] # None \/ process[f] # "none"

\* Frames are taken in their order, and only what was taken has left traces.
QueueInv ==
  /\ \A i \in DOMAIN inbound : inbound[i] < next /\ (reader = "adding" => inbound[i] < next - 1)
  /\ \A i, j \in DOMAIN inbound : i < j => inbound[i] < inbound[j]
  /\ reader = "adding" => next > 1
  /\ consumer.at \in AtWork => consumer.frame \in WinHost!Frame /\ IsPast(consumer.frame)
  /\ consumer.at \notin AtWork => consumer.frame = 0
  /\ host = "stopped" <=> consumer.at \in {"disposing", "ended", "failed"}
  /\ host = "stopped" => inbound = <<>>
  /\ consumer.at = "ended" => \A s \in WinHost!Frame : sessions[s] = None
TraceInv == \A f \in WinHost!Frame : LeftTraces(f) => IsPast(f) /\ (consumer.at \in AtWork => f <= consumer.frame)

\* What is accepted and not answered yet is outstanding, or was the last frame that was read.
Registered(f) == \/ script[f].type = "request" /\ f \in outstanding
                 \/ script[f].type = "malformed" /\ reader = "ended" /\ f = next - 1
IntakeInv ==
  /\ \A f \in outstanding : script[f].type = "request" /\ f < next
  /\ \A i \in DOMAIN inbound : Registered(inbound[i])
  /\ consumer.at \in Unanswered => Registered(consumer.frame)
  /\ consumer.at \in Unanswered \ {"write"} => script[consumer.frame].type = "request"
  /\ consumer.at = "release" => answers[consumer.frame] # None
  /\ reader = "adding" => script[next - 1].type = "request" /\ (host = "running" => next - 1 \in outstanding)
  /\ \A f \in WinHost!Frame : answers[f] # None => script[f].type \in {"request", "malformed"}
  /\ WinHost!IdHasOneAnswer

SameOperation(g, f) == g < f /\ script[g].operation # None /\ script[f].operation = script[g].operation
\* The contract of a request that is not the one at work.
Fits(f) == script[f].call \notin {"launch", "attach"} =>
  /\ script[f].on \in WinHost!Frame /\ sessions[script[f].on] # None
  /\ script[f].call \in {"find", "act"} => script[f].handle \in DOMAIN sessions[script[f].on].registry
  /\ script[f].call = "end" => sessions[script[f].on].owner = "owned"
\* A request that was begun had its session, and has it or no request will.
Began(f) == script[f].call \notin {"launch", "attach"} =>
  script[f].on \in WinHost!Frame /\ script[f].on < f /\ (sessions[script[f].on] = None \/ Fits(f))
EffectInv == \A g \in WinHost!Frame : effect[g] # "nothing" =>
  /\ script[g].type = "request" /\ script[g].call # "find"
  /\ host # "stopped" => script[g].operation \in used
  /\ Began(g)
  /\ \A f \in WinHost!Requests : SameOperation(g, f) => effect[f] = "nothing"

\* What an answer says of its request.
Sound(f, r) ==
  /\ r.outcome = "notExecuted" => effect[f] = "nothing"
  /\ r.outcome = "executed" => effect[f] = "done"
  /\ r.ok = TRUE /\ script[f].call # "find" => r.outcome = "executed"
  /\ r.ok = TRUE /\ script[f].call = "end" =>
       script[f].on \in WinHost!Frame /\ script[f].on < f /\ process[script[f].on] # "running"
  /\ \A g \in WinHost!Requests :
       SameOperation(g, f) /\ effect[g] # "nothing" /\ WinHost!Repeats(f, g) /\ r.retry = "safe" => WinHost!Hopeless(f)
AnswerInv == \A f \in WinHost!Requests : answers[f] # None => Sound(f, answers[f])
ReplyInv ==
  /\ consumer.at \in {"built", "write"} => consumer.reply \in HostReply
  /\ consumer.at \in {"built", "write"} /\ script[consumer.frame].type = "request" => Sound(consumer.frame, consumer.reply)

\* What is known at each place of the consumer.
WorkInv ==
  LET f == consumer.frame IN
  /\ consumer.at \in Unanswered => answers[f] = None
  /\ consumer.at \in NoEffectYet => effect[f] = "nothing" /\ sessions[f] = None /\ process[f] = "none"
  /\ consumer.at \in UnderWay =>
       /\ Fits(f) /\ Began(f)
       /\ script[f].call # "find" => /\ script[f].operation \in used
                                     /\ \A g \in WinHost!Requests : SameOperation(g, f) => effect[g] = "nothing"
  /\ consumer.at \in Dispatched => script[f].call = consumer.at
  /\ consumer.at = "window" => script[f].call = "launch" /\ effect[f] = "begun" /\ sessions[f] = None
  /\ consumer.at = "ending" => script[f].call = "end" /\ effect[f] = "begun"
  /\ consumer.at = "commit" => script[f].call = "find"
  /\ consumer.at \in {"perform", "observe"} => script[f].call = "act"
  /\ consumer.at = "observe" =>
       effect[f] = "done" \/ ~WinHost!Current(sessions[script[f].on].registry[script[f].handle])

TargetInv ==
  /\ \A s \in WinHost!Frame : process[s] = "running" => sessions[s] # None \/ (consumer.at = "window" /\ consumer.frame = s)
  /\ \A s, t \in WinHost!Running : script[s].name = script[t].name => s = t
  /\ \A s \in WinHost!Frame : sessions[s] # None /\ sessions[s].owner = "borrowed" => process[s] = "none"

\* What was captured is not newer than what is there.
HandleInv ==
  /\ \A s \in WinHost!Frame : sessions[s] # None =>
       /\ WinHost!IsInjective(sessions[s].registry) /\ Len(sessions[s].registry) <= HandleLimit
       /\ \A k \in DOMAIN sessions[s].registry :
            sessions[s].registry[k].id <= identity[sessions[s].registry[k].place]
  /\ \A k \in DOMAIN consumer.seen : consumer.seen[k].id <= identity[consumer.seen[k].place]

HostInv == /\ HostType /\ QueueInv /\ TraceInv /\ IntakeInv /\ EffectInv /\ AnswerInv /\ ReplyInv
           /\ WorkInv /\ TargetInv /\ HandleInv

\* A turn of the consumer: what it may do to its own frame and to what others left.
Turn ==
  LET f == consumer.frame IN
  /\ UNCHANGED <<script, next, reader, inbound, outstanding, host, identity>>
  /\ consumer.at \in Unanswered /\ consumer'.at \in AtWork /\ consumer'.frame = f
  /\ consumer'.at = "release" <=> consumer.at = "write"
  /\ \A g \in WinHost!Frame \ {f} : effect'[g] = effect[g] /\ answers'[g] = answers[g] /\ process'[g] = process[g]
  /\ IF consumer.at = "write" THEN answers'[f] = consumer.reply ELSE answers'[f] = answers[f]
  /\ effect'[f] # effect[f] => consumer.at \in UnderWay /\ script[f].call # "find"
  /\ \A s \in WinHost!Frame \ {f} : sessions'[s] # sessions[s] =>
       /\ sessions[s] # None
       /\ sessions'[s] # None => /\ sessions'[s].owner = sessions[s].owner
                                 /\ DOMAIN sessions[s].registry \subseteq DOMAIN sessions'[s].registry
  /\ used \subseteq used' /\ (WinHost!Full => used' = used)
-----------------------------------------------------------------------------
\* What the proofs take of the assumption.
LEMMA HostConstants ==
  RootElement \in HostElement /\ HandleLimit \in Nat /\ 1 <= HandleLimit /\ None \notin HostSession /\ None \notin HostReply
  <1>1. RootElement \in HostElement /\ HandleLimit \in Nat \ {0}
    BY Zenon, HostAssumption
  <1>2. None \notin HostSession
    BY Zenon, HostAssumption DEF HostSession, HostEntry
  <1>3. None \notin HostReply
    BY Zenon, HostAssumption DEF HostReply
  <1>4. QED
    BY <1>1, <1>2, <1>3

LEMMA HostScript ==
  ASSUME script \in HostScripts
  PROVE  /\ \E S : script \in Seq(S)
         /\ \A i \in DOMAIN script : script[i].type = "request" => script[i].call \in Dispatched
  <1>1. script \in Seq({script[i] : i \in DOMAIN script})
    BY Zenon, HostAssumption
  <1>2. \A i \in DOMAIN script : script[i].type = "request" => script[i].call \in Dispatched
    BY Zenon, HostAssumption DEF Dispatched
  <1>3. QED
    BY Zenon, <1>1, <1>2

\* Frames are numbered in their order.
LEMMA HostFrames ==
  ASSUME HostType
  PROVE  /\ Len(script) \in Nat /\ WinHost!Frame = 1 .. Len(script) /\ next \in Nat
         /\ \A f \in WinHost!Frame : script[f].type = "request" => script[f].call \in Dispatched
  <1>1. script \in HostScripts /\ next \in 1 .. Len(script) + 1
    BY DEF HostType
  <1>2. Len(script) \in Nat /\ DOMAIN script = 1 .. Len(script)
    BY <1>1, HostScript
  <1>3. QED
    BY <1>1, <1>2, HostScript DEF WinHost!Frame

LEMMA HostStarts == WinHost!Init => HostInv
  <1> SUFFICES ASSUME WinHost!Init PROVE HostInv
    OBVIOUS
  <1>1. HostType
    <2>1. \E S : script \in Seq(S)
      BY HostScript DEF WinHost!Init
    <2>2. next \in 1 .. Len(script) + 1
      BY <2>1 DEF WinHost!Init
    <2>3. consumer \in HostConsumer
      BY DEF WinHost!Init, WinHost!Idle, HostConsumer
    <2>4. QED
      BY <2>2, <2>3 DEF WinHost!Init, HostType
  <1>2. consumer.at = "idle" /\ consumer.frame = 0 /\ consumer.seen = <<>> /\ inbound = <<>> /\ next = 1 /\ reader = "reading" /\ host = "running"
    BY DEF WinHost!Init, WinHost!Idle
  <1>3. \A f \in WinHost!Frame : answers[f] = None /\ effect[f] = "nothing" /\ sessions[f] = None /\ process[f] = "none"
    BY DEF WinHost!Init
  <1>4. QueueInv
    BY <1>2 DEF QueueInv, AtWork, Unanswered, UnderWay, Dispatched
  <1>5. IntakeInv
    <2>1. outstanding = {}
      BY DEF WinHost!Init
    <2>2. WinHost!Accepted = {0}
      BY <1>2, <1>3, <2>1 DEF WinHost!Accepted, WinHost!Answered, WinHost!Range
    <2>3. QED
      BY <1>2, <1>3, <2>1, <2>2 DEF IntakeInv, WinHost!IdHasOneAnswer, Unanswered, UnderWay, Dispatched
  <1>6. TraceInv /\ EffectInv /\ AnswerInv
    BY <1>3 DEF TraceInv, LeftTraces, EffectInv, AnswerInv, WinHost!Requests
  <1>7. ReplyInv /\ WorkInv
    BY <1>2 DEF ReplyInv, WorkInv, Unanswered, UnderWay, Dispatched, NoEffectYet
  <1>8. TargetInv
    BY <1>2, <1>3 DEF TargetInv, WinHost!Running
  <1>9. HandleInv
    BY <1>2, <1>3 DEF HandleInv
  <1>10. QED
    BY <1>1, <1>4, <1>5, <1>6, <1>7, <1>8, <1>9 DEF HostInv

\* A turn leaves the truth of what was said of this request and of earlier ones.
LEMMA SoundStays ==
  ASSUME HostInv, Turn, NEW f \in WinHost!Requests, f <= consumer.frame, effect'[f] = effect[f],
         NEW r, Sound(f, r)
  PROVE  Sound(f, r)'
  <1>1. /\ Len(script) \in Nat /\ WinHost!Frame = 1 .. Len(script) /\ consumer.frame \in WinHost!Frame
        /\ script' = script /\ f \in WinHost!Frame /\ WinHost!Frame' = WinHost!Frame /\ WinHost!Requests' = WinHost!Requests
    BY HostFrames DEF HostInv, QueueInv, Turn, WinHost!Requests, AtWork, WinHost!Frame
  <1>2. \A g \in WinHost!Frame : g < f => g # consumer.frame
    BY <1>1
  <1>3. \A g \in WinHost!Frame : g < f => effect'[g] = effect[g] /\ process'[g] = process[g]
    BY <1>1, <1>2 DEF Turn
  <1>4. ASSUME NEW g \in WinHost!Requests', SameOperation(g, f)', effect'[g] # "nothing", WinHost!Repeats(f, g)', r.retry = "safe"
        PROVE  WinHost!Hopeless(f)'
    <2>1. g \in WinHost!Frame /\ g < f /\ SameOperation(g, f) /\ effect[g] # "nothing" /\ WinHost!Repeats(f, g)
      BY <1>1, <1>3, <1>4 DEF SameOperation, WinHost!Requests, WinHost!Repeats
    <2>2. WinHost!Hopeless(f)
      BY <1>1, <1>4, <2>1 DEF Sound
    <2>3. CASE script[f].call \notin {"launch", "attach"} /\ sessions[script[f].on] = None
      <3>1. script[f].call = script[g].call /\ script[f].on = script[g].on
        BY <2>1 DEF WinHost!Repeats
      <3>2. script[g].on \in WinHost!Frame /\ script[g].on < g
        BY <2>1, <2>3, <3>1 DEF HostInv, EffectInv, Began
      <3>3. script[g].on \in WinHost!Frame \ {consumer.frame}
        BY <1>1, <2>1, <3>2
      <3>4. sessions'[script[g].on] = None
        BY <2>3, <3>1, <3>3 DEF Turn
      <3>5. QED
        BY <1>1, <2>3, <3>1, <3>4 DEF WinHost!Hopeless
    <2>4. CASE WinHost!Full
      BY <2>4 DEF Turn, WinHost!Hopeless, WinHost!Full
    <2>5. CASE host = "stopped"
      BY <2>5 DEF Turn, WinHost!Hopeless
    <2>6. QED
      BY <2>2, <2>3, <2>4, <2>5 DEF WinHost!Hopeless
  <1>5. QED
    BY <1>1, <1>3, <1>4 DEF Sound

\* What was begun stays so in a turn of a later request.
LEMMA BeganStays ==
  ASSUME HostInv, Turn, NEW g \in WinHost!Frame, g <= consumer.frame, Began(g)
  PROVE  Began(g)'
  <1>1. /\ Len(script) \in Nat /\ WinHost!Frame = 1 .. Len(script) /\ consumer.frame \in WinHost!Frame
        /\ script' = script /\ WinHost!Frame' = WinHost!Frame
    BY HostFrames DEF HostInv, QueueInv, Turn, AtWork, WinHost!Frame
  <1>2. SUFFICES ASSUME script[g].call \notin {"launch", "attach"}
                 PROVE  /\ script[g].on \in WinHost!Frame /\ script[g].on < g
                        /\ sessions'[script[g].on] = None \/ Fits(g)'
    BY <1>1 DEF Began
  <1>3. script[g].on \in WinHost!Frame \ {consumer.frame} /\ script[g].on < g
    BY <1>1, <1>2 DEF Began
  <1>4. CASE sessions'[script[g].on] = sessions[script[g].on]
    BY <1>1, <1>2, <1>3, <1>4 DEF Began, Fits
  <1>5. CASE sessions'[script[g].on] # sessions[script[g].on]
    BY <1>1, <1>2, <1>3, <1>5 DEF Began, Fits, Turn
  <1>6. QED
    BY <1>3, <1>4, <1>5

LEMMA SoundOfTheAnswer ==
  ASSUME NEW g, NEW r, Sound(g, r)', answers'[g] = r
  PROVE  Sound(g, answers[g])'
  BY DEF Sound

\* What a turn leaves as it was.
LEMMA TurnKeeps ==
  ASSUME HostInv, Turn, HostType'
  PROVE  QueueInv' /\ TraceInv' /\ IntakeInv' /\ EffectInv' /\ AnswerInv'
  <1>1. /\ Len(script) \in Nat /\ WinHost!Frame = 1 .. Len(script) /\ consumer.frame \in WinHost!Frame
        /\ script' = script /\ WinHost!Frame' = WinHost!Frame /\ WinHost!Requests' = WinHost!Requests
    BY HostFrames DEF HostInv, QueueInv, Turn, WinHost!Requests, AtWork, WinHost!Frame
  <1>2. /\ UNCHANGED <<next, reader, inbound, outstanding, host>>
        /\ consumer.at \in Unanswered /\ consumer'.at \in AtWork /\ consumer'.frame = consumer.frame
        /\ consumer'.at = "release" <=> consumer.at = "write"
    BY DEF Turn
  <1>3. \A g \in WinHost!Frame : IsPast(g)' = IsPast(g)
    BY <1>2 DEF IsPast
  <1>4. QueueInv'
    BY <1>1, <1>2, <1>3 DEF HostInv, QueueInv, IsPast, AtWork, Unanswered, UnderWay, Dispatched
  <1>5. TraceInv'
    <2>1. ASSUME NEW g \in WinHost!Frame, LeftTraces(g)' PROVE IsPast(g) /\ g <= consumer.frame
      <3>1. CASE g = consumer.frame
        BY <1>1, <1>2, <3>1 DEF HostInv, QueueInv, AtWork
      <3>2. CASE g # consumer.frame
        <4>1. LeftTraces(g)
          BY <2>1, <3>2 DEF Turn, LeftTraces
        <4>2. QED
          BY <1>2, <4>1 DEF HostInv, TraceInv, AtWork
      <3>3. QED
        BY <3>1, <3>2
    <2>2. QED
      BY <1>1, <1>2, <1>3, <2>1 DEF TraceInv
  <1>6. consumer.at = "write" => answers'[consumer.frame] # None
    BY HostConstants DEF Turn, HostInv, ReplyInv
  <1>7. IntakeInv'
    <2>1. /\ (\A g \in outstanding : script[g].type = "request" /\ g < next)'
          /\ (\A i \in DOMAIN inbound : Registered(inbound[i]))'
      BY <1>1, <1>2 DEF HostInv, IntakeInv, Registered
    <2>2. (consumer.at \in Unanswered => Registered(consumer.frame))'
      BY <1>1, <1>2 DEF HostInv, IntakeInv, Registered
    <2>3. consumer'.at \in Unanswered \ {"write"} => script'[consumer'.frame].type = "request"
      BY <1>1, <1>2 DEF HostInv, IntakeInv, Unanswered, UnderWay, Dispatched
    <2>4. consumer'.at = "release" => answers'[consumer'.frame] # None
      BY <1>2, <1>6
    <2>5. reader' = "adding" => script'[next' - 1].type = "request" /\ (host' = "running" => next' - 1 \in outstanding')
      BY <1>1, <1>2 DEF HostInv, IntakeInv
    <2>6. \A g \in WinHost!Frame : answers'[g] # None => script'[g].type \in {"request", "malformed"}
      <3>1. script[consumer.frame].type \in {"request", "malformed"}
        BY <1>2 DEF HostInv, IntakeInv, Registered
      <3>2. \A g \in WinHost!Frame \ {consumer.frame} : answers'[g] # None => answers[g] # None
        BY DEF Turn
      <3>3. QED
        BY <1>1, <3>1, <3>2 DEF HostInv, IntakeInv
    <2>7. WinHost!IdHasOneAnswer'
      <3>1. WinHost!Answered \subseteq WinHost!Answered' /\ WinHost!Answered' \subseteq WinHost!Answered \cup {consumer.frame}
        BY <1>1, <1>6 DEF Turn, WinHost!Answered
      <3>2. WinHost!Accepted' \subseteq WinHost!Accepted
        BY <1>2, <3>1 DEF WinHost!Accepted
      <3>3. QED
        BY <1>1, <3>1, <3>2 DEF HostInv, IntakeInv, WinHost!IdHasOneAnswer
    <2>8. QED
      BY <1>1, <2>1, <2>2, <2>3, <2>4, <2>5, <2>6, <2>7 DEF IntakeInv
  <1>8. EffectInv'
    <2>1. \A g \in WinHost!Frame : effect[g] # "nothing" => g <= consumer.frame
      BY <1>2 DEF HostInv, TraceInv, LeftTraces, AtWork
    <2>2. ASSUME NEW g \in WinHost!Frame, effect'[g] # "nothing", effect'[g] = effect[g]
          PROVE  /\ script[g].type = "request" /\ script[g].call # "find"
                 /\ host # "stopped" => script[g].operation \in used'
                 /\ Began(g)'
                 /\ \A h \in WinHost!Requests : SameOperation(g, h) => effect'[h] = "nothing"
      <3>1. g <= consumer.frame /\ effect[g] # "nothing"
        BY <2>1, <2>2
      <3>2. script[g].type = "request" /\ script[g].call # "find" /\ (host # "stopped" => script[g].operation \in used')
        BY <3>1 DEF HostInv, EffectInv, Turn
      <3>3. Began(g)'
        BY <3>1, BeganStays DEF HostInv, EffectInv
      <3>4. ASSUME NEW h \in WinHost!Requests, SameOperation(g, h) PROVE effect'[h] = "nothing"
        <4>1. effect[h] = "nothing" /\ h \in WinHost!Frame /\ g \in WinHost!Requests
          BY <3>1, <3>2, <3>4 DEF HostInv, EffectInv, WinHost!Requests
        <4>2. CASE effect'[h] = effect[h]
          BY <4>1, <4>2
        <4>3. CASE effect'[h] # effect[h]
          <5>1. h = consumer.frame /\ consumer.at \in UnderWay /\ script[h].call # "find"
            BY <4>1, <4>3 DEF Turn
          <5>2. QED
            BY <3>1, <3>4, <4>1, <5>1 DEF HostInv, WorkInv
        <4>4. QED
          BY <4>2, <4>3
      <3>5. QED
        BY <3>2, <3>3, <3>4
    <2>3. ASSUME NEW g \in WinHost!Frame, effect'[g] # effect[g]
          PROVE  /\ script[g].type = "request" /\ script[g].call # "find"
                 /\ host # "stopped" => script[g].operation \in used'
                 /\ Began(g)'
                 /\ \A h \in WinHost!Requests : SameOperation(g, h) => effect'[h] = "nothing"
      <3>1. g = consumer.frame /\ consumer.at \in UnderWay /\ script[g].call # "find"
        BY <2>3 DEF Turn
      <3>2. script[g].type = "request"
        BY <3>1 DEF HostInv, IntakeInv, Unanswered, UnderWay, Dispatched
      <3>3. script[g].operation \in used' /\ Began(g)
        BY <3>1 DEF HostInv, WorkInv, Turn
      <3>4. Began(g)'
        BY <1>1, <3>1, <3>3, BeganStays
      <3>5. ASSUME NEW h \in WinHost!Requests, SameOperation(g, h) PROVE effect'[h] = "nothing"
        <4>1. h \in WinHost!Frame \ {consumer.frame} /\ ~(h <= consumer.frame)
          BY <1>1, <3>1, <3>5 DEF WinHost!Requests, SameOperation
        <4>2. QED
          BY <2>1, <4>1 DEF Turn
      <3>6. QED
        BY <3>1, <3>2, <3>3, <3>4, <3>5
    <2>4. QED
      BY <1>1, <1>2, <2>2, <2>3 DEF EffectInv, SameOperation
  <1>9. AnswerInv'
    <2>1. ASSUME NEW g \in WinHost!Requests, answers'[g] # None PROVE Sound(g, answers[g])'
      <3>1. CASE g # consumer.frame
        <4>1. g \in WinHost!Frame \ {consumer.frame} /\ answers'[g] = answers[g] /\ effect'[g] = effect[g]
          BY <3>1 DEF Turn, WinHost!Requests
        <4>2. g <= consumer.frame
          BY <1>2, <2>1, <4>1 DEF HostInv, TraceInv, LeftTraces, AtWork
        <4>3. Sound(g, answers[g])
          BY <2>1, <4>1 DEF HostInv, AnswerInv
        <4>4. \A r : Sound(g, r) => Sound(g, r)'
          BY <4>1, <4>2, SoundStays
        <4>5. QED
          BY <4>1, <4>3, <4>4, SoundOfTheAnswer
      <3>2. CASE g = consumer.frame
        <4>1. consumer.at = "write" /\ answers'[g] = consumer.reply
          BY <1>2, <2>1, <3>2 DEF Turn, HostInv, WorkInv
        <4>2. effect'[g] = effect[g] /\ g \in WinHost!Frame /\ g <= consumer.frame
          BY <1>1, <3>2, <4>1 DEF Turn, UnderWay, Dispatched
        <4>3. Sound(g, consumer.reply)
          BY <3>2, <4>1 DEF HostInv, ReplyInv, WinHost!Requests
        <4>4. \A r : Sound(g, r) => Sound(g, r)'
          BY <4>2, SoundStays
        <4>5. QED
          BY <4>1, <4>3, <4>4, SoundOfTheAnswer
      <3>3. QED
        BY <3>1, <3>2
    <2>2. QED
      BY <1>1, <2>1 DEF AnswerInv
  <1>10. QED
    BY <1>4, <1>5, <1>7, <1>8, <1>9
-----------------------------------------------------------------------------
\* What an answer is, and what a step of the consumer makes of its record.
LEMMA RepliesAreTyped ==
  ASSUME NEW f
  PROVE  /\ WinHost!Failure(f, TRUE, FALSE) \in HostReply
         /\ WinHost!Failure(f, TRUE, FALSE).retry = "never" /\ WinHost!Failure(f, TRUE, FALSE).ok = FALSE
         /\ WinHost!Failure(f, TRUE, FALSE).outcome \in {"none", "unknown"}
         /\ WinHost!Failure(f, FALSE, TRUE) \in HostReply
         /\ WinHost!Failure(f, FALSE, TRUE).retry = "never" /\ WinHost!Failure(f, FALSE, TRUE).ok = FALSE
         /\ WinHost!Failure(f, FALSE, TRUE).outcome \in {"none", "notExecuted"}
         /\ WinHost!Failure(f, FALSE, FALSE) \in HostReply
         /\ WinHost!Failure(f, FALSE, FALSE).ok = FALSE
         /\ WinHost!Failure(f, FALSE, FALSE).outcome \in {"none", "notExecuted"}
         /\ script[f].call = "find" => WinHost!Failure(f, FALSE, FALSE).retry = "never"
         /\ WinHost!Success(f) \in HostReply
         /\ WinHost!Success(f).retry = "never" /\ WinHost!Success(f).ok = TRUE
         /\ script[f].call = "find" => WinHost!Success(f).outcome = "none"
         /\ script[f].call # "find" => WinHost!Success(f).outcome = "executed"
  <1>1. CASE script[f].call = "find"
    BY <1>1 DEF WinHost!Failure, WinHost!Success, WinHost!Observes, WinHost!Reply, HostReply
  <1>2. CASE script[f].call # "find"
    BY <1>2 DEF WinHost!Failure, WinHost!Success, WinHost!Observes, WinHost!Reply, HostReply
  <1>3. QED
    BY <1>1, <1>2

LEMMA BuiltMakes ==
  ASSUME HostType, NEW r \in HostReply, WinHost!Built(r)
  PROVE  /\ consumer' \in HostConsumer /\ consumer'.at = "built" /\ consumer'.frame = consumer.frame
         /\ consumer'.reply = r /\ consumer'.seen = <<>>
  <1>1. /\ consumer' = [consumer EXCEPT !.at = "built", !.reply = r, !.seen = <<>>] /\ consumer \in HostConsumer
        /\ "built" \in AtWork \cup {"idle", "disposing", "ended", "failed"} /\ r \in HostReply \cup {None} /\ <<>> \in Seq(HostEntry)
    BY DEF HostType, WinHost!Built, AtWork, Unanswered
  <1>2. QED
    BY <1>1 DEF HostConsumer

LEMMA GoesMakes ==
  ASSUME HostType, NEW place \in AtWork, WinHost!Goes(place)
  PROVE  /\ consumer' \in HostConsumer /\ consumer'.at = place /\ consumer'.frame = consumer.frame
         /\ consumer'.reply = consumer.reply /\ consumer'.seen = consumer.seen
  BY DEF HostType, HostConsumer, WinHost!Goes

\* What remains to be shown of a turn.
LEMMA TurnEnds ==
  ASSUME HostInv, Turn, HostType', ReplyInv', WorkInv', TargetInv', HandleInv'
  PROVE  HostInv'
  BY TurnKeeps DEF HostInv

\* A turn that leaves sessions and targets alone.
LEMMA QuietTurn ==
  ASSUME HostInv, WinHost!Keeps, UNCHANGED <<sessions, process, identity>>,
         consumer.at \in Unanswered \ {"write", "window"}, consumer' \in HostConsumer, consumer'.at \in Unanswered,
         consumer'.frame = consumer.frame, consumer'.seen \in {<<>>, consumer.seen},
         \/ effect' = effect
         \/ /\ consumer.at \in UnderWay /\ script[consumer.frame].call # "find"
            /\ \E degree \in {"begun", "done", "astray"} : effect' = [effect EXCEPT ![consumer.frame] = degree]
  PROVE  Turn /\ HostType' /\ TargetInv' /\ HandleInv'
  <1>1. effect' \in [WinHost!Frame -> {"nothing", "begun", "done", "astray"}]
        /\ \A g \in WinHost!Frame \ {consumer.frame} : effect'[g] = effect[g]
    BY DEF HostInv, HostType
  <1>2. Turn
    BY <1>1 DEF Turn, WinHost!Keeps, AtWork, Unanswered, UnderWay, Dispatched
  <1>3. HostType'
    BY <1>1 DEF HostInv, HostType, WinHost!Keeps, WinHost!Frame, HostConsumer
  <1>4. TargetInv'
    BY DEF HostInv, TargetInv, WinHost!Keeps, WinHost!Frame, WinHost!Running
  <1>5. HandleInv'
    BY DEF HostInv, HandleInv, WinHost!Keeps, WinHost!Frame, WinHost!IsInjective
  <1>6. QED
    BY <1>2, <1>3, <1>4, <1>5

\* A place of the consumer under way keeps what was found out on admission.
LEMMA WorkGoesOn ==
  ASSUME HostInv, Turn, HostType', consumer.at \in UnderWay, consumer'.at \in UnderWay, sessions' = sessions
  PROVE  /\ answers'[consumer.frame] = None /\ Fits(consumer.frame)' /\ Began(consumer.frame)'
         /\ script[consumer.frame].call # "find" =>
              /\ script[consumer.frame].operation \in used'
              /\ \A g \in WinHost!Requests : SameOperation(g, consumer.frame) => effect'[g] = "nothing"
  <1>1. /\ Len(script) \in Nat /\ WinHost!Frame = 1 .. Len(script) /\ consumer.frame \in WinHost!Frame
        /\ UNCHANGED <<script, sessions>> /\ consumer'.frame = consumer.frame /\ consumer.at # "write"
    BY HostFrames DEF HostInv, QueueInv, Turn, AtWork, Unanswered, UnderWay, Dispatched
  <1>2. answers'[consumer.frame] = None /\ Fits(consumer.frame)' /\ Began(consumer.frame)'
    BY <1>1 DEF HostInv, WorkInv, Turn, Unanswered, Fits, Began, WinHost!Frame
  <1>3. ASSUME script[consumer.frame].call # "find"
        PROVE  /\ script[consumer.frame].operation \in used'
               /\ \A g \in WinHost!Requests : SameOperation(g, consumer.frame) => effect'[g] = "nothing"
    <2>1. script[consumer.frame].operation \in used'
      BY <1>3 DEF HostInv, WorkInv, Turn
    <2>2. ASSUME NEW g \in WinHost!Requests, SameOperation(g, consumer.frame) PROVE effect'[g] = "nothing"
      <3>1. g \in WinHost!Frame \ {consumer.frame} /\ effect[g] = "nothing"
        BY <1>1, <1>3, <2>2 DEF HostInv, WorkInv, WinHost!Requests, SameOperation
      <3>2. QED
        BY <3>1 DEF Turn
    <2>3. QED
      BY <2>1, <2>2
  <1>4. QED
    BY <1>2, <1>3

\* From one place under way to the next, with what is known there.
LEMMA GoesOnWork ==
  ASSUME HostInv, Turn, HostType', consumer.at \in UnderWay, consumer'.at \in UnderWay, sessions' = sessions,
         consumer'.at \in NoEffectYet =>
           effect'[consumer.frame] = "nothing" /\ sessions[consumer.frame] = None /\ process'[consumer.frame] = "none",
         consumer'.at \in Dispatched => script[consumer.frame].call = consumer'.at,
         consumer'.at = "window" =>
           script[consumer.frame].call = "launch" /\ effect'[consumer.frame] = "begun" /\ sessions[consumer.frame] = None,
         consumer'.at = "ending" => script[consumer.frame].call = "end" /\ effect'[consumer.frame] = "begun",
         consumer'.at = "commit" => script[consumer.frame].call = "find",
         consumer'.at \in {"perform", "observe"} => script[consumer.frame].call = "act",
         consumer'.at = "observe" =>
           \/ effect'[consumer.frame] = "done"
           \/ ~WinHost!Current(sessions[script[consumer.frame].on].registry[script[consumer.frame].handle])
  PROVE  WorkInv' /\ ReplyInv'
  <1>1. UNCHANGED <<script, sessions, identity>> /\ consumer'.frame = consumer.frame /\ WinHost!Requests' = WinHost!Requests
    BY DEF Turn, WinHost!Requests, WinHost!Frame
  <1>2. (consumer.at \in UnderWay =>
           /\ Fits(consumer.frame) /\ Began(consumer.frame)
           /\ script[consumer.frame].call # "find" =>
                /\ script[consumer.frame].operation \in used
                /\ \A g \in WinHost!Requests : SameOperation(g, consumer.frame) => effect[g] = "nothing")'
    BY <1>1, WorkGoesOn DEF SameOperation
  <1>3. (consumer.at = "observe" =>
           \/ effect[consumer.frame] = "done"
           \/ ~WinHost!Current(sessions[script[consumer.frame].on].registry[script[consumer.frame].handle]))'
    BY <1>1 DEF WinHost!Current
  <1>4. answers'[consumer'.frame] = None
    BY <1>1, WorkGoesOn
  <1>5. WorkInv'
    BY <1>1, <1>2, <1>3, <1>4 DEF WorkInv
  <1>6. ReplyInv'
    BY DEF ReplyInv, UnderWay, Dispatched
  <1>7. QED
    BY <1>5, <1>6

\* An answer is ready: what is known of the work is that it is not written.
LEMMA BuiltWork ==
  ASSUME HostInv, Turn, HostType', consumer'.at \in {"built", "write"}
  PROVE  WorkInv'
  BY DEF HostInv, WorkInv, Turn, AtWork, Unanswered, UnderWay, Dispatched, NoEffectYet

LEMMA ThrowsKeeps ==
  ASSUME HostInv, Turn, HostType', WinHost!Throws, TargetInv', HandleInv'
  PROVE  HostInv'
  <1>1. consumer'.at = "built" /\ consumer'.frame = consumer.frame
        /\ consumer'.reply = WinHost!Failure(consumer.frame, TRUE, FALSE)
    BY RepliesAreTyped, BuiltMakes DEF HostInv, WinHost!Throws, WinHost!Now
  <1>2. /\ consumer'.reply \in HostReply /\ consumer'.reply.retry = "never" /\ consumer'.reply.ok = FALSE
        /\ consumer'.reply.outcome \in {"none", "unknown"}
    BY <1>1, RepliesAreTyped, Zenon
  <1>3. Sound(consumer.frame, consumer.reply)'
    BY <1>2 DEF Sound
  <1>4. ReplyInv'
    BY <1>2, <1>3 DEF ReplyInv
  <1>5. QED
    BY <1>1, <1>4, TurnEnds, BuiltWork

LEMMA ReturnsKeeps ==
  ASSUME HostInv, Turn, HostType', WinHost!Returns, TargetInv', HandleInv',
         script[consumer.frame].call # "find" => effect'[consumer.frame] = "done",
         script[consumer.frame].call = "end" =>
           /\ script[consumer.frame].on \in WinHost!Frame /\ script[consumer.frame].on < consumer.frame
           /\ process'[script[consumer.frame].on] # "running"
  PROVE  HostInv'
  <1>1. consumer'.at = "built" /\ consumer'.frame = consumer.frame
        /\ consumer'.reply = WinHost!Success(consumer.frame) /\ script' = script
    BY RepliesAreTyped, BuiltMakes DEF HostInv, WinHost!Returns, WinHost!Now, Turn
  <1>2. ReplyInv'
    <2> DEFINE r == WinHost!Success(consumer.frame)
    <2>1. /\ r \in HostReply /\ r.retry = "never" /\ r.outcome # "notExecuted"
          /\ script[consumer.frame].call # "find" => r.outcome = "executed"
          /\ r.outcome = "executed" => script[consumer.frame].call # "find"
      BY RepliesAreTyped
    <2> HIDE DEF r
    <2>2. consumer'.reply = r
      BY <1>1 DEF r
    <2>3. /\ r.outcome = "notExecuted" => effect'[consumer.frame] = "nothing"
          /\ r.outcome = "executed" => effect'[consumer.frame] = "done"
          /\ r.ok = TRUE /\ script'[consumer.frame].call # "find" => r.outcome = "executed"
      BY <1>1, <2>1
    <2>4. r.ok = TRUE /\ script'[consumer.frame].call = "end" =>
            /\ script'[consumer.frame].on \in WinHost!Frame' /\ script'[consumer.frame].on < consumer.frame
            /\ process'[script'[consumer.frame].on] # "running"
      BY <1>1 DEF WinHost!Frame
    <2>5. Sound(consumer.frame, consumer.reply)'
      BY <1>1, <2>1, <2>2, <2>3, <2>4 DEF Sound
    <2>6. QED
      BY <1>1, <2>1, <2>2, <2>5 DEF ReplyInv
  <1>3. QED
    BY <1>1, <1>2, TurnEnds, BuiltWork

LEMMA QuietThrows ==
  ASSUME HostInv, WinHost!Keeps, UNCHANGED <<sessions, process, identity>>, WinHost!Throws,
         consumer.at \in Unanswered \ {"write", "window"},
         \/ effect' = effect
         \/ /\ consumer.at \in UnderWay /\ script[consumer.frame].call # "find"
            /\ \E degree \in {"begun", "done", "astray"} : effect' = [effect EXCEPT ![consumer.frame] = degree]
  PROVE  HostInv'
  <1>1. consumer' \in HostConsumer /\ consumer'.at = "built" /\ consumer'.frame = consumer.frame /\ consumer'.seen = <<>>
    BY RepliesAreTyped, BuiltMakes DEF HostInv, WinHost!Throws, WinHost!Now
  <1>2. Turn /\ HostType' /\ TargetInv' /\ HandleInv'
    BY <1>1, QuietTurn DEF Unanswered
  <1>3. QED
    BY <1>2, ThrowsKeeps
-----------------------------------------------------------------------------
\* What holds wherever a request is at work.
LEMMA AtRequest ==
  ASSUME HostInv, consumer.at \in Unanswered \ {"write", "built"}
  PROVE  /\ Len(script) \in Nat /\ WinHost!Frame = 1 .. Len(script) /\ consumer.frame \in WinHost!Frame
         /\ script[consumer.frame].type = "request" /\ script[consumer.frame].call \in Dispatched
         /\ consumer.frame \in WinHost!Requests /\ host # "stopped" /\ answers[consumer.frame] = None
  <1>1. Len(script) \in Nat /\ WinHost!Frame = 1 .. Len(script) /\ consumer.frame \in WinHost!Frame
    BY HostFrames DEF HostInv, QueueInv, AtWork
  <1>2. script[consumer.frame].type = "request"
    BY DEF HostInv, IntakeInv
  <1>3. host # "stopped"
    BY DEF HostInv, QueueInv, AtWork, Unanswered, UnderWay, Dispatched
  <1>4. QED
    BY <1>1, <1>2, <1>3, HostFrames DEF HostInv, WorkInv, WinHost!Requests

\* A request that is rejected was neither begun before nor told to come again in vain.
LEMMA RejectKeeps ==
  ASSUME HostInv, Turn, HostType', TargetInv', HandleInv', NEW r, WinHost!Built(r),
         effect'[consumer.frame] = "nothing",
         r = WinHost!Failure(consumer.frame, FALSE, FALSE) \/ r = WinHost!Failure(consumer.frame, FALSE, TRUE),
         r.retry = "safe" => \A g \in WinHost!Requests :
           SameOperation(g, consumer.frame) /\ effect'[g] # "nothing" /\ WinHost!Repeats(consumer.frame, g)
             => WinHost!Hopeless(consumer.frame)'
  PROVE  HostInv'
  <1>1. r \in HostReply /\ r.ok = FALSE /\ r.outcome \in {"none", "notExecuted"}
    <2>1. CASE r = WinHost!Failure(consumer.frame, FALSE, FALSE)
      BY <2>1, RepliesAreTyped, Zenon
    <2>2. CASE r = WinHost!Failure(consumer.frame, FALSE, TRUE)
      BY <2>2, RepliesAreTyped, Zenon
    <2>3. QED
      BY <2>1, <2>2
  <1>2. consumer'.at = "built" /\ consumer'.frame = consumer.frame /\ consumer'.reply = r /\ script' = script
        /\ WinHost!Requests' = WinHost!Requests
    BY <1>1, BuiltMakes DEF HostInv, Turn, WinHost!Requests, WinHost!Frame
  <1>3. Sound(consumer.frame, consumer.reply)'
    <2>1. ASSUME NEW g \in WinHost!Requests', SameOperation(g, consumer.frame)', effect'[g] # "nothing",
                 WinHost!Repeats(consumer.frame, g)', r.retry = "safe"
          PROVE  WinHost!Hopeless(consumer.frame)'
      BY <1>2, <2>1 DEF SameOperation, WinHost!Repeats
    <2>2. QED
      BY <1>1, <1>2, <2>1 DEF Sound
  <1>4. ReplyInv'
    BY <1>1, <1>2, <1>3 DEF ReplyInv
  <1>5. QED
    BY <1>2, <1>4, TurnEnds, BuiltWork

\* A request that nothing forbids is admitted.
LEMMA AdmittedKeeps ==
  ASSUME HostInv, Turn, HostType', TargetInv', HandleInv', consumer.at = "taken", WinHost!Goes("admitted"),
         WinHost!Contract, UNCHANGED <<sessions, effect, answers, process>>,
         script[consumer.frame].call # "find" =>
           script[consumer.frame].operation \notin used /\ script[consumer.frame].operation \in used'
  PROVE  HostInv'
  <1>1. consumer'.at = "admitted" /\ consumer'.frame = consumer.frame /\ script' = script
        /\ WinHost!Frame' = WinHost!Frame /\ WinHost!Requests' = WinHost!Requests
    BY GoesMakes DEF HostInv, Turn, AtWork, Unanswered, UnderWay, WinHost!Frame, WinHost!Requests
  <1>2. /\ Len(script) \in Nat /\ WinHost!Frame = 1 .. Len(script) /\ consumer.frame \in WinHost!Frame
        /\ host # "stopped" /\ answers[consumer.frame] = None
        /\ effect[consumer.frame] = "nothing" /\ sessions[consumer.frame] = None /\ process[consumer.frame] = "none"
    BY AtRequest DEF HostInv, WorkInv, Unanswered, NoEffectYet
  <1>3. Fits(consumer.frame)
    BY DEF WinHost!Contract, Fits, WinHost!Call, WinHost!Now, WinHost!On
  <1>4. Began(consumer.frame)
    <2>1. SUFFICES ASSUME script[consumer.frame].call \notin {"launch", "attach"}
                   PROVE  script[consumer.frame].on \in WinHost!Frame /\ script[consumer.frame].on < consumer.frame
      BY <1>3 DEF Began
    <2>2. script[consumer.frame].on \in WinHost!Frame /\ sessions[script[consumer.frame].on] # None
      BY <1>3, <2>1 DEF Fits
    <2>3. script[consumer.frame].on <= consumer.frame /\ script[consumer.frame].on # consumer.frame
      BY <1>2, <2>2 DEF HostInv, TraceInv, LeftTraces, AtWork, Unanswered
    <2>4. QED
      BY <1>2, <2>2, <2>3
  <1>5. ASSUME script[consumer.frame].call # "find", NEW g \in WinHost!Requests, SameOperation(g, consumer.frame)
        PROVE  effect[g] = "nothing"
    BY <1>2, <1>5 DEF HostInv, EffectInv, SameOperation, WinHost!Requests
  <1>6. WorkInv'
    <2>1. Fits(consumer.frame)' /\ Began(consumer.frame)'
      BY <1>1, <1>3, <1>4 DEF Fits, Began
    <2>2. (consumer.at \in UnderWay =>
             /\ Fits(consumer.frame) /\ Began(consumer.frame)
             /\ script[consumer.frame].call # "find" =>
                  /\ script[consumer.frame].operation \in used
                  /\ \A g \in WinHost!Requests : SameOperation(g, consumer.frame) => effect[g] = "nothing")'
      BY <1>1, <1>5, <2>1 DEF SameOperation
    <2>3. QED
      BY <1>1, <1>2, <2>2 DEF WorkInv, Dispatched
  <1>7. ReplyInv'
    BY <1>1 DEF ReplyInv
  <1>8. QED
    BY <1>6, <1>7, TurnEnds

LEMMA AdmitKeepsIt == ASSUME HostInv, WinHost!Admit PROVE HostInv'
  <1>1. /\ UNCHANGED <<script, next, reader, inbound, outstanding, cancelled, sessions, process, identity, effect, answers, host>>
        /\ consumer.at = "taken" /\ WinHost!Now = consumer.frame /\ WinHost!Call = script[consumer.frame]
        /\ WinHost!Frame' = WinHost!Frame
    BY DEF WinHost!Admit, WinHost!world, WinHost!Now, WinHost!Call, WinHost!Frame
  <1>2. /\ consumer' \in HostConsumer /\ consumer'.at \in {"built", "admitted"} /\ consumer'.frame = consumer.frame
        /\ consumer'.seen \in {<<>>, consumer.seen}
    BY <1>1, RepliesAreTyped, BuiltMakes, GoesMakes DEF HostInv, WinHost!Admit, AtWork, Unanswered, UnderWay
  <1>3. used \subseteq used' /\ (WinHost!Full => used' = used)
    <2>1. CASE used' = used
      BY <2>1
    <2>2. CASE used' # used
      <3>1. ~WinHost!Full /\ used' = used \cup {WinHost!Call.operation}
        BY <2>2 DEF WinHost!Admit
      <3>2. QED
        BY <3>1
    <2>3. QED
      BY <2>1, <2>2
  <1>4. Turn
    BY <1>1, <1>2, <1>3 DEF Turn, AtWork, Unanswered, UnderWay
  <1>5. HostType'
    BY <1>1, <1>2 DEF HostInv, HostType, HostConsumer
  <1>6. TargetInv'
    BY <1>1, <1>2 DEF HostInv, TargetInv, WinHost!Running
  <1>7. HandleInv'
    BY <1>1, <1>2 DEF HostInv, HandleInv, WinHost!IsInjective
  <1>8. effect[consumer.frame] = "nothing"
    BY <1>1 DEF HostInv, WorkInv, NoEffectYet
  <1>9. CASE WinHost!Built(WinHost!Failure(consumer.frame, FALSE, TRUE))
    BY <1>4, <1>5, <1>6, <1>7, <1>8, <1>1, <1>9, RejectKeeps, RepliesAreTyped
  <1>10. CASE /\ ~WinHost!Contract \/ (~WinHost!Observes(consumer.frame) /\ WinHost!Full)
              /\ WinHost!Built(WinHost!Failure(consumer.frame, FALSE, FALSE)) /\ used' = used
    <2>1. ASSUME WinHost!Failure(consumer.frame, FALSE, FALSE).retry = "safe", NEW g \in WinHost!Requests,
                 SameOperation(g, consumer.frame), effect[g] # "nothing", WinHost!Repeats(consumer.frame, g)
          PROVE  WinHost!Hopeless(consumer.frame)'
      <3>1. CASE WinHost!Full
        BY <1>10, <3>1 DEF WinHost!Hopeless, WinHost!Full
      <3>2. CASE ~WinHost!Contract
        <4>1. /\ script[g].call = script[consumer.frame].call /\ script[g].on = script[consumer.frame].on
              /\ script[g].handle = script[consumer.frame].handle /\ g \in WinHost!Frame
          BY <2>1 DEF WinHost!Repeats, WinHost!Requests
        <4>2. Began(g)
          BY <2>1, <4>1 DEF HostInv, EffectInv
        <4>3. script[consumer.frame].call \notin {"launch", "attach"} /\ ~Fits(g)
          BY <1>1, <3>2, <4>1 DEF WinHost!Contract, Fits, WinHost!On
        <4>4. sessions[script[consumer.frame].on] = None
          BY <4>1, <4>2, <4>3 DEF Began
        <4>5. QED
          BY <1>1, <1>2, <4>3, <4>4 DEF WinHost!Hopeless
      <3>3. CASE WinHost!Observes(consumer.frame)
        BY <2>1, <3>3, RepliesAreTyped DEF WinHost!Observes
      <3>4. QED
        BY <1>10, <3>1, <3>2, <3>3
    <2>2. QED
      BY <1>1, <1>4, <1>5, <1>6, <1>7, <1>8, <1>10, <2>1, RejectKeeps
  <1>11. CASE /\ WinHost!Contract /\ WinHost!Goes("admitted")
              /\ ~WinHost!Observes(consumer.frame) =>
                   script[consumer.frame].operation \notin used /\ script[consumer.frame].operation \in used'
    BY <1>1, <1>4, <1>5, <1>6, <1>7, <1>11, AdmittedKeeps DEF WinHost!Observes
  <1>12. QED
    BY <1>1, <1>9, <1>10, <1>11 DEF WinHost!Admit

LEMMA SubmitKeepsIt == ASSUME HostInv, WinHost!Submit PROVE HostInv'
  <1>1. /\ consumer.at = "admitted" /\ WinHost!Keeps /\ UNCHANGED <<sessions, process, identity, effect>>
        /\ WinHost!Now = consumer.frame /\ WinHost!Call = script[consumer.frame]
        /\ \/ WinHost!Built(WinHost!Failure(consumer.frame, FALSE, FALSE))
           \/ WinHost!Goes(script[consumer.frame].call)
    BY DEF WinHost!Submit, WinHost!world, WinHost!Now, WinHost!Call
  <1>2. /\ consumer.frame \in WinHost!Frame /\ consumer.frame \in WinHost!Requests
        /\ script[consumer.frame].type = "request" /\ script[consumer.frame].call \in Dispatched
        /\ consumer.at \in UnderWay
    BY <1>1, AtRequest DEF Unanswered, UnderWay
  <1>3. /\ effect[consumer.frame] = "nothing" /\ sessions[consumer.frame] = None /\ process[consumer.frame] = "none"
        /\ script[consumer.frame].call # "find" => \A g \in WinHost!Requests : SameOperation(g, consumer.frame) => effect[g] = "nothing"
    BY <1>1, <1>2 DEF HostInv, WorkInv, NoEffectYet
  <1>4. CASE WinHost!Built(WinHost!Failure(consumer.frame, FALSE, FALSE))
    <2>1. consumer' \in HostConsumer /\ consumer'.at = "built" /\ consumer'.frame = consumer.frame /\ consumer'.seen = <<>>
      BY <1>4, RepliesAreTyped, BuiltMakes DEF HostInv
    <2>2. Turn /\ HostType' /\ TargetInv' /\ HandleInv'
      BY <1>1, <2>1, QuietTurn DEF Unanswered, UnderWay
    <2>3. ASSUME WinHost!Failure(consumer.frame, FALSE, FALSE).retry = "safe", NEW g \in WinHost!Requests,
                 SameOperation(g, consumer.frame), effect[g] # "nothing", WinHost!Repeats(consumer.frame, g)
          PROVE  FALSE
      BY <1>3, <2>3, RepliesAreTyped
    <2>4. QED
      BY <1>1, <1>3, <1>4, <2>2, <2>3, RejectKeeps
  <1>5. CASE WinHost!Goes(script[consumer.frame].call)
    <2>1. /\ consumer' \in HostConsumer /\ consumer'.at = script[consumer.frame].call
          /\ consumer'.frame = consumer.frame /\ consumer'.seen = consumer.seen
      BY <1>2, <1>5, GoesMakes DEF HostInv, AtWork, Unanswered, UnderWay
    <2>2. consumer'.at \in Dispatched /\ consumer'.at \in UnderWay
      BY <1>2, <2>1 DEF UnderWay
    <2>3. Turn /\ HostType' /\ TargetInv' /\ HandleInv'
      BY <1>1, <2>1, <2>2, QuietTurn DEF Unanswered, UnderWay
    <2>4. WorkInv' /\ ReplyInv'
      BY <1>1, <1>2, <1>3, <2>1, <2>2, <2>3, GoesOnWork DEF Dispatched
    <2>5. QED
      BY <2>3, <2>4, TurnEnds
  <1>6. QED
    BY <1>1, <1>4, <1>5

-----------------------------------------------------------------------------
LEMMA ConstructKeepsIt == ASSUME HostInv, WinHost!Construct PROVE HostInv'
  <1>1. PICK sent \in {consumer.reply, WinHost!OutboundFailure(consumer.reply)} :
          consumer' = [consumer EXCEPT !.at = "write", !.reply = sent]
    BY DEF WinHost!Construct
  <1>2. consumer.at = "built" /\ WinHost!Keeps /\ UNCHANGED <<sessions, process, identity, effect>>
    BY DEF WinHost!Construct, WinHost!world
  <1>3. /\ consumer.reply \in HostReply /\ sent \in HostReply
        /\ sent.outcome = consumer.reply.outcome /\ sent.retry = consumer.reply.retry
        /\ sent.ok = TRUE => consumer.reply.ok = TRUE
    <2>1. consumer.reply \in HostReply
      BY <1>2 DEF HostInv, ReplyInv
    <2>2. CASE sent = consumer.reply
      BY <2>1, <2>2
    <2>3. CASE sent = [consumer.reply EXCEPT !.ok = FALSE]
      BY <2>1, <2>3 DEF HostReply
    <2>4. QED
      BY <1>1, <2>1, <2>2, <2>3 DEF WinHost!OutboundFailure
  <1>4. /\ consumer' \in HostConsumer /\ consumer'.at = "write" /\ consumer'.frame = consumer.frame
        /\ consumer'.reply = sent /\ consumer'.seen = consumer.seen
    <2>1. consumer \in HostConsumer /\ "write" \in AtWork \cup {"idle", "ended"} /\ sent \in HostReply \cup {None}
      BY <1>3 DEF HostInv, HostType, AtWork, Unanswered
    <2>2. QED
      BY <1>1, <2>1 DEF HostConsumer
  <1>5. Turn /\ HostType' /\ TargetInv' /\ HandleInv'
    BY <1>2, <1>4, QuietTurn DEF Unanswered
  <1>6. ReplyInv'
    <2>1. SUFFICES ASSUME script[consumer.frame].type = "request" PROVE Sound(consumer.frame, consumer.reply)'
      BY <1>3, <1>4, <1>5 DEF ReplyInv, Turn
    <2>2. consumer.frame \in WinHost!Requests /\ consumer.frame \in WinHost!Frame /\ consumer.frame <= consumer.frame
      BY <1>2, <2>1, HostFrames DEF HostInv, QueueInv, AtWork, Unanswered, WinHost!Requests
    <2>3. Sound(consumer.frame, consumer.reply)
      BY <1>2, <2>1 DEF HostInv, ReplyInv
    <2>4. Sound(consumer.frame, sent)
      BY <1>3, <2>3 DEF Sound
    <2>5. ASSUME NEW f, f = consumer.frame PROVE Sound(f, sent)'
      BY <1>2, <1>5, <2>2, <2>4, <2>5, SoundStays
    <2>6. QED
      BY <1>4, <2>5 DEF Sound
  <1>7. QED
    BY <1>4, <1>5, <1>6, BuiltWork, TurnEnds

LEMMA WriteKeepsIt == ASSUME HostInv, WinHost!Write PROVE HostInv'
  <1>1. /\ consumer.at = "write" /\ answers' = [answers EXCEPT ![consumer.frame] = consumer.reply] /\ WinHost!Goes("release")
        /\ UNCHANGED <<script, next, reader, inbound, outstanding, cancelled, used, sessions, process, identity, effect, host>>
    BY DEF WinHost!Write, WinHost!world, WinHost!Now
  <1>2. consumer.reply \in HostReply /\ consumer.frame \in WinHost!Frame /\ WinHost!Frame' = WinHost!Frame
    BY <1>1 DEF HostInv, ReplyInv, QueueInv, AtWork, Unanswered, WinHost!Frame
  <1>3. /\ consumer' \in HostConsumer /\ consumer'.at = "release" /\ consumer'.frame = consumer.frame
        /\ consumer'.seen = consumer.seen
    BY <1>1, GoesMakes DEF HostInv, AtWork
  <1>4. answers' \in [WinHost!Frame -> HostReply \cup {None}] /\ answers'[consumer.frame] = consumer.reply
        /\ \A g \in WinHost!Frame \ {consumer.frame} : answers'[g] = answers[g]
    BY <1>1, <1>2 DEF HostInv, HostType
  <1>5. Turn
    BY <1>1, <1>3, <1>4 DEF Turn, AtWork, Unanswered
  <1>6. HostType'
    BY <1>1, <1>2, <1>3, <1>4 DEF HostInv, HostType, HostConsumer
  <1>7. TargetInv' /\ HandleInv'
    BY <1>1, <1>2, <1>3 DEF HostInv, TargetInv, HandleInv, WinHost!Running, WinHost!IsInjective
  <1>8. ReplyInv' /\ WorkInv'
    BY <1>3 DEF ReplyInv, WorkInv, Unanswered, UnderWay, Dispatched, NoEffectYet
  <1>9. QED
    BY <1>5, <1>6, <1>7, <1>8, TurnEnds
-----------------------------------------------------------------------------
\* What a dispatched request that needs a session finds.
LEMMA OnIsThere ==
  ASSUME HostInv, consumer.at \in UnderWay, script[consumer.frame].call \notin {"launch", "attach"}
  PROVE  /\ WinHost!Now = consumer.frame /\ WinHost!Call = script[consumer.frame]
         /\ script[consumer.frame].on \in WinHost!Frame /\ script[consumer.frame].on < consumer.frame
         /\ script[consumer.frame].on \in WinHost!Frame \ {consumer.frame}
         /\ WinHost!On = sessions[script[consumer.frame].on] /\ sessions[script[consumer.frame].on] # None
         /\ sessions[script[consumer.frame].on] \in HostSession
         /\ script[consumer.frame].call \in {"find", "act"} =>
              script[consumer.frame].handle \in DOMAIN sessions[script[consumer.frame].on].registry
         /\ script[consumer.frame].call = "end" => sessions[script[consumer.frame].on].owner = "owned"
  <1>1. Fits(consumer.frame) /\ Began(consumer.frame)
    BY DEF HostInv, WorkInv
  <1>2. consumer.frame \in WinHost!Frame /\ WinHost!Frame = 1 .. Len(script) /\ Len(script) \in Nat
    BY HostFrames DEF HostInv, QueueInv, AtWork, Unanswered
  <1>3. /\ script[consumer.frame].on \in WinHost!Frame /\ script[consumer.frame].on < consumer.frame
        /\ sessions[script[consumer.frame].on] # None
    BY <1>1 DEF Fits, Began
  <1>4. script[consumer.frame].on \in WinHost!Frame \ {consumer.frame}
    BY <1>2, <1>3
  <1>5. QED
    BY <1>1, <1>3, <1>4 DEF Fits, WinHost!Now, WinHost!Call, WinHost!On, HostInv, HostType

\* A session that is new has room for its window.
LEMMA SessionIsSound ==
  ASSUME HostType, NEW owner \in {"owned", "borrowed"}
  PROVE  LET session == WinHost!Session(owner) IN
         /\ session \in HostSession /\ session # None /\ session.owner = owner
         /\ WinHost!IsInjective(session.registry) /\ Len(session.registry) <= HandleLimit
         /\ \A k \in DOMAIN session.registry : session.registry[k].id <= identity[session.registry[k].place]
  <1> DEFINE entry == [place |-> RootElement, id |-> identity[RootElement]]
  <1>1. entry \in HostEntry /\ identity[RootElement] \in Nat
    BY HostConstants DEF HostType, HostEntry
  <1>2. entry.place = RootElement /\ entry.id = identity[RootElement]
    OBVIOUS
  <1>3. WinHost!Session(owner) = [owner |-> owner, registry |-> <<entry>>]
    BY DEF WinHost!Session
  <1> HIDE DEF entry
  <1>4. <<entry>> \in Seq(HostEntry) /\ Len(<<entry>>) = 1 /\ DOMAIN <<entry>> = {1} /\ <<entry>>[1] = entry
    BY <1>1
  <1>5. WinHost!Session(owner) \in HostSession
    BY <1>3, <1>4 DEF HostSession
  <1>6. WinHost!IsInjective(<<entry>>)
    BY <1>4 DEF WinHost!IsInjective
  <1>7. WinHost!Session(owner) # None
    BY <1>5, HostConstants
  <1>8. Len(<<entry>>) <= HandleLimit
    BY <1>4, HostConstants
  <1>9. WinHost!Session(owner).owner = owner /\ WinHost!Session(owner).registry = <<entry>>
    BY <1>3
  <1>10. \A k \in DOMAIN <<entry>> : <<entry>>[k].id <= identity[<<entry>>[k].place]
    BY <1>1, <1>2, <1>4
  <1>11. QED
    BY <1>5, <1>6, <1>7, <1>8, <1>9, <1>10

LEMMA LaunchKeepsIt == ASSUME HostInv, WinHost!Launch PROVE HostInv'
  <1>1. /\ consumer.at = "launch" /\ WinHost!Keeps /\ UNCHANGED <<sessions, identity>> /\ consumer.at \in UnderWay
    BY DEF WinHost!Launch, UnderWay, Dispatched
  <1>2. CASE WinHost!Throws /\ UNCHANGED <<process, effect>>
    BY <1>1, <1>2, QuietThrows DEF Unanswered, UnderWay, Dispatched
  <1>3. CASE /\ WinHost!NameIsFree(script[consumer.frame].name) /\ process' = [process EXCEPT ![consumer.frame] = "running"]
             /\ effect' = [effect EXCEPT ![consumer.frame] = "begun"] /\ WinHost!Goes("window")
    <2>1. /\ consumer.frame \in WinHost!Frame /\ host # "stopped" /\ script[consumer.frame].call = "launch"
          /\ sessions[consumer.frame] = None
      BY <1>1, AtRequest DEF HostInv, WorkInv, NoEffectYet, Unanswered, UnderWay, Dispatched
    <2>2. /\ consumer' \in HostConsumer /\ consumer'.at = "window" /\ consumer'.frame = consumer.frame
          /\ consumer'.seen = consumer.seen
      BY <1>3, GoesMakes DEF HostInv, AtWork, Unanswered, UnderWay
    <2>3. /\ process' \in [WinHost!Frame -> {"none", "running", "gone", "left"}]
          /\ effect' \in [WinHost!Frame -> {"nothing", "begun", "done", "astray"}]
          /\ process'[consumer.frame] = "running" /\ effect'[consumer.frame] = "begun"
          /\ \A g \in WinHost!Frame \ {consumer.frame} : process'[g] = process[g] /\ effect'[g] = effect[g]
      BY <1>3, <2>1 DEF HostInv, HostType
    <2>4. UNCHANGED <<script, next, reader, inbound, outstanding, used, answers, host>> /\ WinHost!Frame' = WinHost!Frame
      BY <1>1 DEF WinHost!Keeps, WinHost!Frame
    <2>5. Turn
      BY <1>1, <2>1, <2>2, <2>3, <2>4 DEF Turn, AtWork, Unanswered, UnderWay, Dispatched
    <2>6. HostType'
      BY <1>1, <2>2, <2>3, <2>4 DEF HostInv, HostType, HostConsumer
    <2>7. TargetInv'
      <3>1. \A s \in WinHost!Running : script[s].name # script[consumer.frame].name
        BY <1>3 DEF WinHost!NameIsFree
      <3>2. \A s \in WinHost!Running' : s = consumer.frame \/ s \in WinHost!Running
        BY <2>3, <2>4 DEF WinHost!Running
      <3>3. \A s, t \in WinHost!Running' : script'[s].name = script'[t].name => s = t
        BY <2>4, <3>1, <3>2 DEF HostInv, TargetInv
      <3>4. \A s \in WinHost!Frame : sessions[s] # None /\ sessions[s].owner = "borrowed" => process'[s] = "none"
        BY <2>1, <2>3 DEF HostInv, TargetInv
      <3>5. \A s \in WinHost!Frame : process'[s] = "running" => sessions[s] # None \/ s = consumer.frame
        BY <1>1, <2>3 DEF HostInv, TargetInv
      <3>6. QED
        BY <1>1, <2>2, <2>4, <3>3, <3>4, <3>5 DEF TargetInv
    <2>8. HandleInv'
      BY <1>1, <2>2, <2>4 DEF HostInv, HandleInv, WinHost!IsInjective
    <2>9. WorkInv' /\ ReplyInv'
      BY <1>1, <2>1, <2>2, <2>3, <2>5, <2>6, GoesOnWork DEF NoEffectYet, UnderWay, Dispatched
    <2>10. QED
      BY <2>5, <2>6, <2>7, <2>8, <2>9, TurnEnds
  <1>4. QED
    BY <1>2, <1>3 DEF WinHost!Launch, WinHost!Now, WinHost!Call

\* A session is made for the target that was launched or found.
LEMMA MadeKeeps ==
  ASSUME HostInv, WinHost!Keeps, consumer.at \in {"window", "attach"},
         NEW owner \in {"owned", "borrowed"}, consumer.at = "attach" \/ owner = "owned",
         sessions' = [sessions EXCEPT ![consumer.frame] = WinHost!Session(owner)],
         effect' = [effect EXCEPT ![consumer.frame] = "done"], WinHost!Returns, UNCHANGED <<process, identity>>
  PROVE  HostInv'
  <1>1. /\ consumer.frame \in WinHost!Frame /\ host # "stopped" /\ script[consumer.frame].call \in {"launch", "attach"}
        /\ sessions[consumer.frame] = None /\ consumer.at \in UnderWay
        /\ consumer.at = "attach" => process[consumer.frame] = "none"
    BY AtRequest DEF HostInv, WorkInv, NoEffectYet, Unanswered, UnderWay, Dispatched
  <1>2. /\ consumer' \in HostConsumer /\ consumer'.at = "built" /\ consumer'.frame = consumer.frame /\ consumer'.seen = <<>>
    BY RepliesAreTyped, BuiltMakes DEF HostInv, WinHost!Returns, WinHost!Now
  <1> DEFINE session == WinHost!Session(owner)
  <1>3. /\ session \in HostSession /\ session # None /\ session.owner = owner
        /\ WinHost!IsInjective(session.registry) /\ Len(session.registry) <= HandleLimit
        /\ \A k \in DOMAIN session.registry : session.registry[k].id <= identity[session.registry[k].place]
    BY SessionIsSound DEF HostInv
  <1> HIDE DEF session
  <1>4. /\ sessions' \in [WinHost!Frame -> HostSession \cup {None}] /\ sessions'[consumer.frame] = session
        /\ effect' \in [WinHost!Frame -> {"nothing", "begun", "done", "astray"}] /\ effect'[consumer.frame] = "done"
        /\ \A g \in WinHost!Frame \ {consumer.frame} : sessions'[g] = sessions[g] /\ effect'[g] = effect[g]
    BY <1>1, <1>3 DEF HostInv, HostType, session
  <1>5. /\ UNCHANGED <<script, next, reader, inbound, outstanding, used, answers, host>>
        /\ WinHost!Frame' = WinHost!Frame /\ WinHost!Running' = WinHost!Running
    BY DEF WinHost!Keeps, WinHost!Frame, WinHost!Running
  <1>6. Turn
    BY <1>1, <1>2, <1>4, <1>5 DEF Turn, AtWork, Unanswered, UnderWay, Dispatched
  <1>7. HostType'
    BY <1>2, <1>4, <1>5 DEF HostInv, HostType, HostConsumer
  <1>8. TargetInv'
    <2>1. \A s \in WinHost!Frame : process[s] = "running" => sessions'[s] # None
      BY <1>3, <1>4 DEF HostInv, TargetInv
    <2>2. \A s \in WinHost!Frame : sessions'[s] # None /\ sessions'[s].owner = "borrowed" => process[s] = "none"
      BY <1>1, <1>3, <1>4 DEF HostInv, TargetInv
    <2>3. QED
      BY <1>1, <1>5, <2>1, <2>2 DEF HostInv, TargetInv
  <1>9. HandleInv'
    <2>1. ASSUME NEW s \in WinHost!Frame, sessions'[s] # None
          PROVE  /\ WinHost!IsInjective(sessions'[s].registry) /\ Len(sessions'[s].registry) <= HandleLimit
                 /\ \A k \in DOMAIN sessions'[s].registry :
                      sessions'[s].registry[k].id <= identity[sessions'[s].registry[k].place]
      <3>1. CASE s = consumer.frame
        BY <1>3, <1>4, <3>1
      <3>2. CASE s # consumer.frame
        BY <1>4, <2>1, <3>2 DEF HostInv, HandleInv
      <3>3. QED
        BY <3>1, <3>2
    <2>2. QED
      BY <1>2, <1>5, <2>1 DEF HandleInv, WinHost!IsInjective
  <1>10. QED
    BY <1>1, <1>4, <1>6, <1>7, <1>8, <1>9, ReturnsKeeps

LEMMA WindowKeepsIt == ASSUME HostInv, WinHost!Window PROVE HostInv'
  <1>1. consumer.at = "window" /\ WinHost!Keeps /\ identity' = identity /\ WinHost!Now = consumer.frame /\ consumer.at \in UnderWay
    BY DEF WinHost!Window, WinHost!Now, UnderWay
  <1>2. CASE WinHost!Throws /\ WinHost!Abandoned(consumer.frame) /\ UNCHANGED <<sessions, effect>>
    <2>1. consumer.frame \in WinHost!Frame /\ host # "stopped" /\ sessions[consumer.frame] = None
      BY <1>1, AtRequest DEF HostInv, WorkInv, Unanswered, UnderWay
    <2>2. /\ process' \in [WinHost!Frame -> {"none", "running", "gone", "left"}] /\ process'[consumer.frame] # "running"
          /\ \A s \in WinHost!Frame \ {consumer.frame} : process'[s] = process[s]
          /\ \A s \in WinHost!Frame : process'[s] \in {"running", "left"} => process[s] \in {"running", "left"}
      BY <1>2, <2>1 DEF WinHost!Abandoned, WinHost!Disposed, WinHost!Killed, HostInv, HostType
    <2>3. /\ consumer' \in HostConsumer /\ consumer'.at = "built" /\ consumer'.frame = consumer.frame /\ consumer'.seen = <<>>
      BY <1>2, RepliesAreTyped, BuiltMakes DEF HostInv, WinHost!Throws, WinHost!Now
    <2>4. UNCHANGED <<script, next, reader, inbound, outstanding, used, answers, host>> /\ WinHost!Frame' = WinHost!Frame
      BY <1>1 DEF WinHost!Keeps, WinHost!Frame
    <2>5. Turn
      BY <1>1, <1>2, <2>2, <2>3, <2>4 DEF Turn, AtWork, Unanswered
    <2>6. HostType'
      BY <1>1, <1>2, <2>2, <2>3, <2>4 DEF HostInv, HostType, HostConsumer
    <2>7. TargetInv'
      <3>1. \A s \in WinHost!Frame : process'[s] = "running" => sessions[s] # None
        BY <2>2 DEF HostInv, TargetInv
      <3>2. \A s, t \in WinHost!Running' : script'[s].name = script'[t].name => s = t
        BY <2>2, <2>4 DEF HostInv, TargetInv, WinHost!Running
      <3>3. \A s \in WinHost!Frame : sessions[s] # None /\ sessions[s].owner = "borrowed" => process'[s] = "none"
        BY <2>1, <2>2 DEF HostInv, TargetInv
      <3>4. QED
        BY <1>2, <2>1, <2>4, <3>1, <3>2, <3>3 DEF TargetInv
    <2>8. HandleInv'
      BY <1>1, <1>2, <2>3, <2>4 DEF HostInv, HandleInv, WinHost!IsInjective
    <2>9. QED
      BY <1>2, <2>5, <2>6, <2>7, <2>8, ThrowsKeeps
  <1>3. CASE /\ sessions' = [sessions EXCEPT ![consumer.frame] = WinHost!Session("owned")]
             /\ effect' = [effect EXCEPT ![consumer.frame] = "done"] /\ WinHost!Returns /\ UNCHANGED process
    BY <1>1, <1>3, MadeKeeps
  <1>4. QED
    BY <1>1, <1>2, <1>3 DEF WinHost!Window

LEMMA AttachKeepsIt == ASSUME HostInv, WinHost!Attach PROVE HostInv'
  <1>1. /\ consumer.at = "attach" /\ WinHost!Keeps /\ UNCHANGED <<process, identity>> /\ WinHost!Now = consumer.frame
    BY DEF WinHost!Attach, WinHost!Now
  <1>2. CASE WinHost!Throws /\ UNCHANGED <<sessions, effect>>
    BY <1>1, <1>2, QuietThrows DEF Unanswered, UnderWay, Dispatched
  <1>3. CASE /\ sessions' = [sessions EXCEPT ![consumer.frame] = WinHost!Session("borrowed")]
             /\ effect' = [effect EXCEPT ![consumer.frame] = "done"] /\ WinHost!Returns
    BY <1>1, <1>3, MadeKeeps
  <1>4. QED
    BY <1>1, <1>2, <1>3 DEF WinHost!Attach

\* The session is over: nothing runs in it any more.
LEMMA OverKeeps ==
  ASSUME HostInv, WinHost!Keeps, WinHost!Over, consumer.at \in {"end", "ending", "releaseSession"},
         process[script[consumer.frame].on] # "running", UNCHANGED <<process, identity>>
  PROVE  HostInv'
  <1> DEFINE theirs == script[consumer.frame].on
  <1>1. /\ consumer.frame \in WinHost!Frame /\ host # "stopped" /\ consumer.at \in UnderWay
        /\ script[consumer.frame].call \in {"end", "releaseSession"}
    BY AtRequest DEF HostInv, WorkInv, Unanswered, UnderWay, Dispatched
  <1>2. WinHost!Call = script[consumer.frame] /\ WinHost!Now = consumer.frame /\ theirs \in WinHost!Frame /\ theirs < consumer.frame
        /\ theirs \in WinHost!Frame \ {consumer.frame} /\ sessions[theirs] # None
    BY <1>1, OnIsThere
  <1>3. /\ sessions' = [sessions EXCEPT ![theirs] = None] /\ effect' = [effect EXCEPT ![consumer.frame] = "done"]
        /\ WinHost!Returns
    BY <1>2 DEF WinHost!Over
  <1>4. process[theirs] # "running"
    OBVIOUS
  <1> HIDE DEF theirs
  <1>5. /\ consumer' \in HostConsumer /\ consumer'.at = "built" /\ consumer'.frame = consumer.frame /\ consumer'.seen = <<>>
    BY <1>3, RepliesAreTyped, BuiltMakes DEF HostInv, WinHost!Returns, WinHost!Now
  <1>6. /\ sessions' \in [WinHost!Frame -> HostSession \cup {None}] /\ sessions'[theirs] = None
        /\ effect' \in [WinHost!Frame -> {"nothing", "begun", "done", "astray"}] /\ effect'[consumer.frame] = "done"
        /\ \A g \in WinHost!Frame \ {theirs} : sessions'[g] = sessions[g]
        /\ \A g \in WinHost!Frame \ {consumer.frame} : effect'[g] = effect[g]
    BY <1>1, <1>2, <1>3 DEF HostInv, HostType
  <1>7. /\ UNCHANGED <<script, next, reader, inbound, outstanding, used, answers, host>>
        /\ WinHost!Frame' = WinHost!Frame /\ WinHost!Running' = WinHost!Running
    BY DEF WinHost!Keeps, WinHost!Frame, WinHost!Running
  <1>8. Turn
    <2>1. \A g \in WinHost!Frame : sessions'[g] # sessions[g] => sessions[g] # None /\ sessions'[g] = None
      BY <1>2, <1>6
    <2>2. QED
      BY <1>1, <1>5, <1>6, <1>7, <2>1 DEF Turn, AtWork, Unanswered, UnderWay, Dispatched
  <1>9. HostType'
    BY <1>5, <1>6, <1>7 DEF HostInv, HostType, HostConsumer
  <1>10. TargetInv'
    <2>1. \A g \in WinHost!Frame : process[g] = "running" => sessions'[g] # None
      <3>1. \A g \in WinHost!Frame : process[g] = "running" => sessions[g] # None /\ g # theirs
        BY <1>4 DEF HostInv, TargetInv
      <3>2. QED
        BY <1>6, <3>1
    <2>2. \A g \in WinHost!Frame : sessions'[g] # None /\ sessions'[g].owner = "borrowed" => process[g] = "none"
      BY <1>6 DEF HostInv, TargetInv
    <2>3. QED
      BY <1>1, <1>7, <2>1, <2>2 DEF HostInv, TargetInv
  <1>11. HandleInv'
    <2>1. ASSUME NEW g \in WinHost!Frame, sessions'[g] # None
          PROVE  /\ WinHost!IsInjective(sessions'[g].registry) /\ Len(sessions'[g].registry) <= HandleLimit
                 /\ \A k \in DOMAIN sessions'[g].registry :
                      sessions'[g].registry[k].id <= identity[sessions'[g].registry[k].place]
      <3>1. sessions'[g] = sessions[g]
        BY <1>6, <2>1
      <3>2. QED
        BY <2>1, <3>1 DEF HostInv, HandleInv
    <2>2. identity' = identity
      OBVIOUS
    <2>3. QED
      BY <1>5, <1>7, <2>1, <2>2 DEF HandleInv, WinHost!IsInjective
  <1>12. QED
    BY <1>2, <1>3, <1>4, <1>6, <1>8, <1>9, <1>10, <1>11, ReturnsKeeps DEF theirs

LEMMA EndKeepsIt == ASSUME HostInv, WinHost!End PROVE HostInv'
  <1>1. /\ consumer.at = "end" /\ WinHost!Keeps /\ UNCHANGED <<process, identity>> /\ consumer.at \in UnderWay
        /\ WinHost!Now = consumer.frame /\ WinHost!Call = script[consumer.frame]
    BY DEF WinHost!End, WinHost!Now, WinHost!Call, UnderWay, Dispatched
  <1>2. CASE process[script[consumer.frame].on] # "running" /\ WinHost!Over
    BY <1>1, <1>2, OverKeeps
  <1>3. CASE WinHost!Throws /\ UNCHANGED <<sessions, effect>>
    BY <1>1, <1>3, QuietThrows DEF Unanswered, UnderWay, Dispatched
  <1>4. CASE effect' = [effect EXCEPT ![consumer.frame] = "begun"] /\ WinHost!Goes("ending") /\ UNCHANGED sessions
    <2>1. consumer.frame \in WinHost!Frame /\ script[consumer.frame].call = "end"
      BY <1>1, AtRequest DEF HostInv, WorkInv, Unanswered, UnderWay, Dispatched
    <2>2. /\ consumer' \in HostConsumer /\ consumer'.at = "ending" /\ consumer'.frame = consumer.frame
          /\ consumer'.seen = consumer.seen
      BY <1>4, GoesMakes DEF HostInv, AtWork, Unanswered, UnderWay
    <2>3. effect'[consumer.frame] = "begun"
      BY <1>4, <2>1 DEF HostInv, HostType
    <2>4. Turn /\ HostType' /\ TargetInv' /\ HandleInv'
      BY <1>1, <1>4, <2>1, <2>2, QuietTurn DEF Unanswered, UnderWay, Dispatched
    <2>5. WorkInv' /\ ReplyInv'
      BY <1>1, <1>4, <2>1, <2>2, <2>3, <2>4, GoesOnWork DEF NoEffectYet, UnderWay, Dispatched
    <2>6. QED
      BY <2>4, <2>5, TurnEnds
  <1>5. QED
    BY <1>1, <1>2, <1>3, <1>4 DEF WinHost!End

LEMMA EndingKeepsIt == ASSUME HostInv, WinHost!Ending PROVE HostInv'
  <1>1. /\ consumer.at = "ending" /\ WinHost!Keeps /\ UNCHANGED <<process, identity>>
        /\ WinHost!Now = consumer.frame /\ WinHost!Call = script[consumer.frame]
    BY DEF WinHost!Ending, WinHost!Now, WinHost!Call
  <1>2. CASE WinHost!Ended(script[consumer.frame].on) /\ WinHost!Over
    BY <1>1, <1>2, OverKeeps DEF WinHost!Ended
  <1>3. CASE WinHost!Throws /\ UNCHANGED <<sessions, effect>>
    BY <1>1, <1>3, QuietThrows DEF Unanswered, UnderWay
  <1>4. QED
    BY <1>1, <1>2, <1>3 DEF WinHost!Ending

LEMMA ReleaseKeepsIt == ASSUME HostInv, WinHost!Release PROVE HostInv'
  <1>1. /\ consumer.at = "releaseSession" /\ WinHost!Keeps /\ UNCHANGED <<process, identity>> /\ consumer.at \in UnderWay
    BY DEF WinHost!Release, UnderWay, Dispatched
  <1>2. script[consumer.frame].call = "releaseSession"
    BY <1>1 DEF HostInv, WorkInv, Dispatched
  <1>3. /\ WinHost!Call = script[consumer.frame] /\ script[consumer.frame].on \in WinHost!Frame
        /\ WinHost!On = sessions[script[consumer.frame].on] /\ sessions[script[consumer.frame].on] # None
        /\ sessions[script[consumer.frame].on] \in HostSession
    BY <1>1, <1>2, OnIsThere
  <1>4. CASE WinHost!On.owner = "owned" /\ process[WinHost!Call.on] = "running"
    BY <1>1, <1>4, QuietThrows DEF WinHost!Release, Unanswered
  <1>5. CASE ~(WinHost!On.owner = "owned" /\ process[WinHost!Call.on] = "running")
    <2>1. process[script[consumer.frame].on] # "running"
      <3>1. CASE WinHost!On.owner = "owned"
        BY <1>3, <1>5, <3>1
      <3>2. CASE WinHost!On.owner = "borrowed"
        BY <1>3, <3>2 DEF HostInv, TargetInv
      <3>3. QED
        BY <1>3, <3>1, <3>2 DEF HostSession
    <2>2. WinHost!Over
      BY <1>5 DEF WinHost!Release
    <2>3. QED
      BY <1>1, <2>1, <2>2, OverKeeps
  <1>6. QED
    BY <1>4, <1>5
-----------------------------------------------------------------------------
LEMMA CheckKeepsIt == ASSUME HostInv, WinHost!Check PROVE HostInv'
  <1>1. /\ consumer.at = "act" /\ WinHost!Keeps /\ UNCHANGED <<sessions, process, identity, effect>> /\ consumer.at \in UnderWay
    BY DEF WinHost!Check, WinHost!world, UnderWay, Dispatched
  <1>2. CASE WinHost!Throws
    BY <1>1, <1>2, QuietThrows DEF Unanswered
  <1>3. CASE WinHost!Goes("perform")
    <2>1. /\ consumer.frame \in WinHost!Frame /\ script[consumer.frame].call = "act" /\ effect[consumer.frame] = "nothing"
          /\ sessions[consumer.frame] = None /\ process[consumer.frame] = "none"
      BY <1>1, AtRequest DEF HostInv, WorkInv, NoEffectYet, Unanswered, UnderWay, Dispatched
    <2>2. /\ consumer' \in HostConsumer /\ consumer'.at = "perform" /\ consumer'.frame = consumer.frame
          /\ consumer'.seen = consumer.seen
      BY <1>3, GoesMakes DEF HostInv, AtWork, Unanswered, UnderWay
    <2>3. Turn /\ HostType' /\ TargetInv' /\ HandleInv'
      BY <1>1, <2>2, QuietTurn DEF Unanswered, UnderWay, Dispatched
    <2>4. WorkInv' /\ ReplyInv'
      BY <1>1, <2>1, <2>2, <2>3, GoesOnWork DEF UnderWay, Dispatched
    <2>5. QED
      BY <2>3, <2>4, TurnEnds
  <1>4. QED
    BY <1>2, <1>3 DEF WinHost!Check

LEMMA PerformKeepsIt == ASSUME HostInv, WinHost!Perform PROVE HostInv'
  <1>1. /\ consumer.at = "perform" /\ WinHost!Keeps /\ UNCHANGED <<sessions, process, identity>> /\ consumer.at \in UnderWay
    BY DEF WinHost!Perform, UnderWay
  <1>2. /\ consumer.frame \in WinHost!Frame /\ script[consumer.frame].call = "act"
        /\ WinHost!Now = consumer.frame /\ WinHost!Call = script[consumer.frame]
        /\ WinHost!On = sessions[script[consumer.frame].on]
    BY <1>1, AtRequest DEF HostInv, WorkInv, Unanswered, UnderWay, WinHost!Now, WinHost!Call, WinHost!On
  <1>3. CASE WinHost!Throws /\ UNCHANGED effect
    BY <1>1, <1>3, QuietThrows DEF Unanswered
  <1> DEFINE meant == WinHost!Current(WinHost!On.registry[WinHost!Call.handle])
  <1>4. CASE effect' = [effect EXCEPT ![WinHost!Now] = IF meant THEN "done" ELSE "astray"]
             /\ (WinHost!Throws \/ WinHost!Goes("observe"))
    <2>1. PICK degree \in {"done", "astray"} : /\ effect' = [effect EXCEPT ![consumer.frame] = degree]
                                               /\ degree = "done" \/ ~meant
      BY <1>2, <1>4
    <2>2. CASE WinHost!Throws
      BY <1>1, <1>2, <2>1, <2>2, QuietThrows DEF Unanswered
    <2>3. CASE WinHost!Goes("observe")
      <3>1. /\ consumer' \in HostConsumer /\ consumer'.at = "observe" /\ consumer'.frame = consumer.frame
            /\ consumer'.seen = consumer.seen
        BY <2>3, GoesMakes DEF HostInv, AtWork, Unanswered, UnderWay
      <3>2. effect'[consumer.frame] = degree
        BY <1>2, <2>1 DEF HostInv, HostType
      <3>3. Turn /\ HostType' /\ TargetInv' /\ HandleInv'
        BY <1>1, <1>2, <2>1, <3>1, QuietTurn DEF Unanswered, UnderWay, Dispatched
      <3>4. WorkInv' /\ ReplyInv'
        BY <1>1, <1>2, <2>1, <3>1, <3>2, <3>3, GoesOnWork DEF NoEffectYet, UnderWay, Dispatched
      <3>5. QED
        BY <3>3, <3>4, TurnEnds
    <2>4. QED
      BY <1>4, <2>2, <2>3
  <1>5. QED
    BY <1>3, <1>4 DEF WinHost!Perform

LEMMA ObserveAfterKeepsIt == ASSUME HostInv, WinHost!ObserveAfter PROVE HostInv'
  <1>1. /\ consumer.at = "observe" /\ WinHost!Keeps /\ UNCHANGED <<sessions, process, identity, effect>> /\ consumer.at \in UnderWay
    BY DEF WinHost!ObserveAfter, WinHost!world, UnderWay
  <1>2. CASE WinHost!Throws
    BY <1>1, <1>2, QuietThrows DEF Unanswered
  <1>3. CASE WinHost!Stable(WinHost!On.registry[WinHost!Call.handle]) /\ WinHost!Returns
    <2>1. script[consumer.frame].call = "act" /\ effect[consumer.frame] = "done"
      BY <1>1, <1>3 DEF HostInv, WorkInv, WinHost!Stable, WinHost!On, WinHost!Call, WinHost!Now
    <2>2. /\ consumer' \in HostConsumer /\ consumer'.at = "built" /\ consumer'.frame = consumer.frame /\ consumer'.seen = <<>>
      BY <1>3, RepliesAreTyped, BuiltMakes DEF HostInv, WinHost!Returns, WinHost!Now
    <2>3. Turn /\ HostType' /\ TargetInv' /\ HandleInv'
      BY <1>1, <2>2, QuietTurn DEF Unanswered
    <2>4. QED
      BY <1>1, <1>3, <2>1, <2>3, ReturnsKeeps
  <1>4. QED
    BY <1>2, <1>3 DEF WinHost!ObserveAfter

LEMMA FindKeepsIt == ASSUME HostInv, WinHost!Find PROVE HostInv'
  <1>1. /\ consumer.at = "find" /\ WinHost!Keeps /\ UNCHANGED <<sessions, process, identity, effect>> /\ consumer.at \in UnderWay
    BY DEF WinHost!Find, WinHost!world, UnderWay, Dispatched
  <1>2. CASE WinHost!Throws
    BY <1>1, <1>2, QuietThrows DEF Unanswered
  <1>3. CASE \E found \in WinHost!Matches :
               consumer' = [consumer EXCEPT !.at = "commit", !.seen = [i \in DOMAIN found |-> WinHost!Entry(found[i])]]
    <2>1. PICK found \in WinHost!Matches :
            consumer' = [consumer EXCEPT !.at = "commit", !.seen = [i \in DOMAIN found |-> WinHost!Entry(found[i])]]
      BY <1>3
    <2>2. PICK n \in 0 .. 2 : found \in [1 .. n -> HostElement]
      BY DEF WinHost!Matches
    <2> DEFINE entries == [i \in 1 .. n |-> WinHost!Entry(found[i])]
    <2>3. \A i \in 1 .. n : WinHost!Entry(found[i]) \in HostEntry
                            /\ WinHost!Entry(found[i]).id = identity[WinHost!Entry(found[i]).place]
      BY <2>2 DEF WinHost!Entry, HostEntry, HostInv, HostType
    <2>4. entries \in Seq(HostEntry) /\ \A i \in DOMAIN entries : entries[i].id = identity[entries[i].place] /\ entries[i].id \in Nat
      BY <2>2, <2>3 DEF HostEntry
    <2>5. consumer' = [consumer EXCEPT !.at = "commit", !.seen = entries]
      BY <2>1, <2>2
    <2> HIDE DEF entries
    <2>6. /\ consumer' \in HostConsumer /\ consumer'.at = "commit" /\ consumer'.frame = consumer.frame
          /\ consumer'.seen = entries
      <3>1. consumer \in HostConsumer /\ "commit" \in AtWork
        BY DEF HostInv, HostType, AtWork, Unanswered, UnderWay
      <3>2. QED
        BY <2>4, <2>5, <3>1 DEF HostConsumer
    <2>7. UNCHANGED <<script, next, reader, inbound, outstanding, used, answers, host>> /\ WinHost!Frame' = WinHost!Frame
      BY <1>1 DEF WinHost!Keeps, WinHost!Frame
    <2>8. Turn
      BY <1>1, <2>6, <2>7 DEF Turn, AtWork, Unanswered, UnderWay
    <2>9. HostType'
      BY <1>1, <2>6, <2>7 DEF HostInv, HostType, HostConsumer
    <2>10. TargetInv'
      BY <1>1, <2>6, <2>7 DEF HostInv, TargetInv, WinHost!Running
    <2>11. HandleInv'
      <3>1. \A k \in DOMAIN consumer'.seen : consumer'.seen[k].id <= identity[consumer'.seen[k].place]
        BY <2>4, <2>6
      <3>2. QED
        BY <1>1, <2>7, <3>1 DEF HostInv, HandleInv, WinHost!IsInjective
    <2>12. /\ effect[consumer.frame] = "nothing" /\ sessions[consumer.frame] = None /\ process[consumer.frame] = "none"
           /\ script[consumer.frame].call = "find"
      BY <1>1 DEF HostInv, WorkInv, NoEffectYet, Dispatched
    <2>13. WorkInv' /\ ReplyInv'
      BY <1>1, <2>6, <2>8, <2>9, <2>12, GoesOnWork DEF UnderWay, Dispatched
    <2>14. QED
      BY <2>8, <2>9, <2>10, <2>11, <2>13, TurnEnds
  <1>4. QED
    BY <1>2, <1>3 DEF WinHost!Find

LEMMA SetIsEnumerated ==
  ASSUME NEW S, IsFiniteSet(S)
  PROVE  WinHost!InSomeOrder(S) \in Seq(S) /\ WinHost!IsInjective(WinHost!InSomeOrder(S))
  <1> DEFINE n == Cardinality(S)
  <1>1. n \in Nat /\ \E f \in [1 .. n -> S] : WinHost!IsInjective(f)
    BY FS_CardinalityType DEF ExistsBijection, Bijection, Injection, IsInjective, WinHost!IsInjective
  <1>2. WinHost!Cardinality(S) = n
    BY DEF WinHost!Cardinality, Cardinality, WinHost!IsFiniteSet, IsFiniteSet
  <1> HIDE DEF n
  <1>3. WinHost!InSomeOrder(S) = CHOOSE f \in [1 .. n -> S] : WinHost!IsInjective(f)
    BY <1>2 DEF WinHost!InSomeOrder
  <1>4. WinHost!InSomeOrder(S) \in [1 .. n -> S] /\ WinHost!IsInjective(WinHost!InSomeOrder(S))
    BY <1>1, <1>3
  <1>5. QED
    BY <1>1, <1>4

\* What is remembered stays where it was, and once.
LEMMA RememberedIs ==
  ASSUME NEW registry \in Seq(HostEntry), NEW seen \in Seq(HostEntry), WinHost!IsInjective(registry)
  PROVE  LET longer == WinHost!Remembered(registry, seen) IN
         /\ longer \in Seq(HostEntry) /\ WinHost!IsInjective(longer) /\ DOMAIN registry \subseteq DOMAIN longer
         /\ \A k \in DOMAIN longer : \/ \E i \in DOMAIN registry : longer[k] = registry[i]
                                     \/ \E i \in DOMAIN seen : longer[k] = seen[i]
  <1> DEFINE new == WinHost!Range(seen) \ WinHost!Range(registry)
             more == WinHost!InSomeOrder(new)
  <1>1. WinHost!Range(seen) = {seen[i] : i \in 1 .. Len(seen)} /\ WinHost!Range(registry) = {registry[i] : i \in 1 .. Len(registry)}
    BY DEF WinHost!Range
  <1>2. IsFiniteSet(WinHost!Range(seen))
    <2>1. seen \in Surjection(1 .. Len(seen), WinHost!Range(seen))
      BY <1>1 DEF Surjection
    <2>2. IsFiniteSet(1 .. Len(seen))
      BY FS_Interval
    <2>3. QED
      BY <2>1, <2>2, FS_Surjection
  <1>3. IsFiniteSet(new)
    BY <1>2, FS_Difference
  <1>4. more \in Seq(new) /\ WinHost!IsInjective(more)
    BY <1>3, SetIsEnumerated
  <1>5. \A x \in new : (\E i \in 1 .. Len(seen) : x = seen[i]) /\ \A i \in 1 .. Len(registry) : x # registry[i]
    BY <1>1
  <1>6. new \subseteq HostEntry
    BY <1>5
  <1> HIDE DEF new, more
  <1>7. WinHost!Remembered(registry, seen) = registry \o more
    BY DEF WinHost!Remembered, new, more
  <1>8. more \in Seq(HostEntry) /\ \A i \in 1 .. Len(more) : more[i] \in new
    BY <1>4, <1>6
  <1> DEFINE longer == registry \o more
  <1>9. /\ longer \in Seq(HostEntry) /\ DOMAIN longer = 1 .. Len(registry) + Len(more)
        /\ Len(registry) \in Nat /\ Len(more) \in Nat
        /\ \A k \in 1 .. Len(registry) : longer[k] = registry[k]
        /\ \A k \in Len(registry) + 1 .. Len(registry) + Len(more) : longer[k] = more[k - Len(registry)]
    BY <1>8
  <1> HIDE DEF longer
  <1>10. ASSUME NEW k \in DOMAIN longer
         PROVE  \/ k \in 1 .. Len(registry) /\ longer[k] = registry[k]
                \/ k - Len(registry) \in 1 .. Len(more) /\ longer[k] = more[k - Len(registry)]
    BY <1>9
  <1>11. WinHost!IsInjective(longer)
    <2>1. ASSUME NEW k \in DOMAIN longer, NEW l \in DOMAIN longer, longer[k] = longer[l] PROVE k = l
      <3>1. CASE k \in 1 .. Len(registry) /\ l \in 1 .. Len(registry)
        BY <1>9, <2>1, <3>1 DEF WinHost!IsInjective
      <3>2. CASE k \in 1 .. Len(registry) /\ l \notin 1 .. Len(registry)
        <4>1. longer[l] \in new
          BY <1>8, <1>10, <3>2
        <4>2. QED
          BY <1>5, <1>9, <2>1, <3>2, <4>1
      <3>3. CASE k \notin 1 .. Len(registry) /\ l \in 1 .. Len(registry)
        <4>1. longer[k] \in new
          BY <1>8, <1>10, <3>3
        <4>2. QED
          BY <1>5, <1>9, <2>1, <3>3, <4>1
      <3>4. CASE k \notin 1 .. Len(registry) /\ l \notin 1 .. Len(registry)
        <4>1. /\ k - Len(registry) \in DOMAIN more /\ l - Len(registry) \in DOMAIN more
              /\ more[k - Len(registry)] = more[l - Len(registry)]
          BY <1>8, <1>10, <2>1, <3>4
        <4>2. k - Len(registry) = l - Len(registry)
          BY <1>4, <4>1 DEF WinHost!IsInjective
        <4>3. QED
          BY <1>9, <4>2
      <3>5. QED
        BY <3>1, <3>2, <3>3, <3>4
    <2>2. QED
      BY <2>1 DEF WinHost!IsInjective
  <1>12. \A k \in DOMAIN longer : \/ \E i \in DOMAIN registry : longer[k] = registry[i]
                                  \/ \E i \in DOMAIN seen : longer[k] = seen[i]
    BY <1>5, <1>8, <1>10
  <1>13. DOMAIN registry \subseteq DOMAIN longer
    BY <1>9
  <1>14. QED
    BY <1>7, <1>9, <1>11, <1>12, <1>13 DEF longer

LEMMA CommitKeepsIt == ASSUME HostInv, WinHost!Commit PROVE HostInv'
  <1>1. /\ consumer.at = "commit" /\ WinHost!Keeps /\ UNCHANGED <<process, identity, effect>> /\ consumer.at \in UnderWay
    BY DEF WinHost!Commit, WinHost!world, UnderWay
  <1>2. script[consumer.frame].call = "find"
    BY <1>1 DEF HostInv, WorkInv
  <1> DEFINE theirs == script[consumer.frame].on
             registry == sessions[theirs].registry
             longer == WinHost!Remembered(registry, consumer.seen)
  <1>3. /\ WinHost!Call = script[consumer.frame] /\ theirs \in WinHost!Frame \ {consumer.frame}
        /\ WinHost!On = sessions[theirs] /\ sessions[theirs] # None /\ sessions[theirs] \in HostSession
    BY <1>1, <1>2, OnIsThere
  <1>4. CASE WinHost!Throws /\ UNCHANGED sessions
    BY <1>1, <1>4, QuietThrows DEF Unanswered
  <1>5. CASE /\ Len(longer) <= HandleLimit
             /\ sessions' = [sessions EXCEPT ![theirs].registry = longer] /\ WinHost!Returns
    <2>1. registry \in Seq(HostEntry) /\ WinHost!IsInjective(registry) /\ consumer.seen \in Seq(HostEntry)
      BY <1>3 DEF HostSession, HostInv, HandleInv, HostType, HostConsumer
    <2>2. /\ longer \in Seq(HostEntry) /\ WinHost!IsInjective(longer) /\ DOMAIN registry \subseteq DOMAIN longer
          /\ \A k \in DOMAIN longer : \/ \E i \in DOMAIN registry : longer[k] = registry[i]
                                      \/ \E i \in DOMAIN consumer.seen : longer[k] = consumer.seen[i]
      BY <2>1, RememberedIs
    <2>3. \A k \in DOMAIN longer : longer[k].id <= identity[longer[k].place]
      BY <1>3, <2>2 DEF HostInv, HandleInv
    <2> HIDE DEF longer
    <2>4. /\ consumer' \in HostConsumer /\ consumer'.at = "built" /\ consumer'.frame = consumer.frame /\ consumer'.seen = <<>>
      BY <1>5, RepliesAreTyped, BuiltMakes DEF HostInv, WinHost!Returns, WinHost!Now
    <2> DEFINE session == [sessions[theirs] EXCEPT !.registry = longer]
    <2>5. session \in HostSession /\ session.owner = sessions[theirs].owner /\ session.registry = longer
      BY <1>3, <2>2 DEF HostSession
    <2>6. session # None
      BY <2>5, HostConstants
    <2>7. sessions' = [sessions EXCEPT ![theirs] = session]
      BY <1>5
    <2> HIDE DEF theirs, registry, session
    <2>8. /\ sessions' \in [WinHost!Frame -> HostSession \cup {None}] /\ sessions'[theirs] = session
          /\ \A g \in WinHost!Frame \ {theirs} : sessions'[g] = sessions[g]
      BY <1>3, <2>5, <2>7 DEF HostInv, HostType
    <2>9. UNCHANGED <<script, next, reader, inbound, outstanding, used, answers, host>> /\ WinHost!Frame' = WinHost!Frame
      BY <1>1 DEF WinHost!Keeps, WinHost!Frame
    <2>10. Turn
      <3>1. \A g \in WinHost!Frame : sessions'[g] # sessions[g] =>
              /\ sessions[g] # None
              /\ sessions'[g].owner = sessions[g].owner /\ DOMAIN sessions[g].registry \subseteq DOMAIN sessions'[g].registry
        BY <1>3, <2>2, <2>5, <2>8 DEF registry
      <3>2. QED
        BY <1>1, <2>4, <2>9, <3>1 DEF Turn, AtWork, Unanswered, UnderWay
    <2>11. HostType'
      BY <1>1, <2>4, <2>8, <2>9 DEF HostInv, HostType, HostConsumer
    <2>12. TargetInv'
      <3>1. \A g \in WinHost!Frame : sessions[g] # None => sessions'[g] # None /\ sessions'[g].owner = sessions[g].owner
        BY <2>5, <2>6, <2>8
      <3>2. \A g \in WinHost!Frame : sessions'[g] # None => sessions[g] # None
        BY <1>3, <2>8
      <3>3. \A g \in WinHost!Frame : process[g] = "running" => sessions'[g] # None
        BY <1>1, <3>1 DEF HostInv, TargetInv
      <3>4. \A g \in WinHost!Frame : sessions'[g] # None /\ sessions'[g].owner = "borrowed" => process[g] = "none"
        BY <3>1, <3>2 DEF HostInv, TargetInv
      <3>5. host # "stopped"
        BY <1>1 DEF HostInv, QueueInv
      <3>6. QED
        BY <1>1, <2>9, <3>3, <3>4, <3>5 DEF HostInv, TargetInv, WinHost!Running
    <2>13. HandleInv'
      <3>1. ASSUME NEW g \in WinHost!Frame, sessions'[g] # None
            PROVE  /\ WinHost!IsInjective(sessions'[g].registry) /\ Len(sessions'[g].registry) <= HandleLimit
                   /\ \A k \in DOMAIN sessions'[g].registry :
                        sessions'[g].registry[k].id <= identity[sessions'[g].registry[k].place]
        <4>1. CASE g = theirs
          BY <1>5, <2>2, <2>3, <2>5, <2>8, <4>1
        <4>2. CASE g # theirs
          BY <2>8, <3>1, <4>2 DEF HostInv, HandleInv
        <4>3. QED
          BY <4>1, <4>2
      <3>2. QED
        BY <1>1, <2>4, <2>9, <3>1 DEF HandleInv, WinHost!IsInjective
    <2>14. QED
      BY <1>2, <1>5, <2>10, <2>11, <2>12, <2>13, ReturnsKeeps
  <1>6. QED
    BY <1>3, <1>4, <1>5 DEF WinHost!Commit

-----------------------------------------------------------------------------
\* The reader does not touch what the consumer knows.
LEMMA ReaderKeeps ==
  ASSUME HostInv, UNCHANGED <<script, consumer, used, sessions, process, identity, effect, answers, host>>
  PROVE  EffectInv' /\ AnswerInv' /\ ReplyInv' /\ WorkInv' /\ TargetInv' /\ HandleInv'
  <1>1. WinHost!Frame' = WinHost!Frame /\ WinHost!Requests' = WinHost!Requests /\ WinHost!Running' = WinHost!Running
    BY DEF WinHost!Frame, WinHost!Requests, WinHost!Running
  <1>2. \A f : /\ Fits(f)' = Fits(f) /\ Began(f)' = Began(f) /\ WinHost!Hopeless(f)' = WinHost!Hopeless(f)
    BY <1>1 DEF Fits, Began, WinHost!Hopeless, WinHost!Full
  <1>3. EffectInv'
    BY <1>1 DEF HostInv, EffectInv, SameOperation, Began, Fits
  <1>4. \A f, r : Sound(f, r) => Sound(f, r)'
    BY <1>1, <1>2 DEF Sound, SameOperation, WinHost!Repeats
  <1>5. AnswerInv'
    BY <1>1, <1>4 DEF HostInv, AnswerInv, Sound, SameOperation, WinHost!Repeats, WinHost!Hopeless, WinHost!Full
  <1>6. ReplyInv'
    BY <1>1, <1>4 DEF HostInv, ReplyInv, Sound, SameOperation, WinHost!Repeats, WinHost!Hopeless, WinHost!Full
  <1>7. WorkInv'
    BY <1>1 DEF HostInv, WorkInv, Fits, Began, SameOperation, WinHost!Current
  <1>8. TargetInv' /\ HandleInv'
    BY <1>1 DEF HostInv, TargetInv, HandleInv, WinHost!IsInjective
  <1>9. QED
    BY <1>3, <1>5, <1>6, <1>7, <1>8

\* What is accepted came before the frame that is read next.
LEMMA AcceptedIsPast ==
  ASSUME HostInv, NEW g \in WinHost!Accepted \ {0}
  PROVE  /\ g \in WinHost!Frame /\ g < next
         /\ g \in WinHost!Answered \/ Registered(g)
  <1>1. CASE g \in outstanding
    BY <1>1 DEF HostInv, HostType, IntakeInv, Registered
  <1>2. CASE g \in WinHost!Range(inbound)
    <2>1. PICK i \in DOMAIN inbound : g = inbound[i]
      BY <1>2 DEF WinHost!Range
    <2>2. g \in WinHost!Frame
      BY <2>1 DEF HostInv, HostType
    <2>3. QED
      BY <2>1, <2>2 DEF HostInv, QueueInv, IntakeInv
  <1>3. CASE g = consumer.frame
    <2>1. consumer.at \in AtWork
      BY <1>3 DEF HostInv, QueueInv
    <2>2. g \in WinHost!Frame /\ g < next
      BY <1>3, <2>1 DEF HostInv, QueueInv, IsPast
    <2>3. CASE consumer.at \in Unanswered
      BY <1>3, <2>2, <2>3 DEF HostInv, IntakeInv
    <2>4. CASE consumer.at = "release"
      BY <1>3, <2>2, <2>4 DEF HostInv, IntakeInv, WinHost!Answered
    <2>5. QED
      BY <2>1, <2>3, <2>4, <2>2 DEF AtWork
  <1>4. CASE g \in WinHost!Answered
    BY <1>4 DEF WinHost!Answered, HostInv, TraceInv, LeftTraces, IsPast
  <1>5. QED
    BY <1>1, <1>2, <1>3, <1>4 DEF WinHost!Accepted

LEMMA ReadKeepsIt == ASSUME HostInv, WinHost!ReadFrame PROVE HostInv'
  <1>1. /\ reader = "reading" /\ next <= Len(script) /\ next' = next + 1
        /\ UNCHANGED <<script, consumer, used, sessions, process, identity, effect, answers, host>>
    BY DEF WinHost!ReadFrame, WinHost!world
  <1>2. /\ Len(script) \in Nat /\ WinHost!Frame = 1 .. Len(script) /\ next \in WinHost!Frame /\ WinHost!Frame' = WinHost!Frame
        /\ next' \in 1 .. Len(script) + 1 /\ next' - 1 = next
    <2>1. next \in 1 .. Len(script) + 1
      BY DEF HostInv, HostType
    <2>2. QED
      BY <1>1, <2>1, HostFrames DEF HostInv, WinHost!Frame
  <1>3. \/ reader' = "ended" /\ UNCHANGED <<inbound, outstanding>>
        \/ /\ host = "running" /\ ~WinHost!Unanswerable(next)
           /\ \/ /\ script[next].type = "malformed" /\ inbound' = Append(inbound, next) /\ reader' = "ended" /\ outstanding' = outstanding
              \/ UNCHANGED <<reader, inbound, outstanding>>
              \/ /\ script[next].type = "request" /\ outstanding' = outstanding \cup {next} /\ reader' = "adding" /\ inbound' = inbound
    BY DEF WinHost!ReadFrame
  <1>4. inbound \in Seq(WinHost!Frame) /\ DOMAIN inbound = 1 .. Len(inbound) /\ Len(inbound) \in Nat
        /\ outstanding \subseteq WinHost!Frame
    BY DEF HostInv, HostType
  <1>5. /\ inbound' \in Seq(WinHost!Frame) /\ outstanding' \subseteq WinHost!Frame
        /\ reader' \in {"reading", "adding", "ended"}
    <2>1. inbound' = inbound \/ inbound' = Append(inbound, next)
      BY <1>3
    <2>2. outstanding' = outstanding \/ outstanding' = outstanding \cup {next}
      BY <1>3
    <2>3. reader' \in {"reading", "adding", "ended"}
      BY <1>1, <1>3
    <2>4. Append(inbound, next) \in Seq(WinHost!Frame)
      BY <1>2, <1>4, AppendProperties
    <2>5. inbound' \in Seq(WinHost!Frame)
      BY <1>4, <2>1, <2>4
    <2>6. outstanding' \subseteq WinHost!Frame
      BY <1>2, <1>4, <2>2
    <2>7. QED
      BY <2>3, <2>5, <2>6
  <1>6. HostType'
    BY <1>1, <1>2, <1>5 DEF HostInv, HostType, HostConsumer
  <1>7. /\ DOMAIN inbound' = 1 .. Len(inbound')
        /\ \A i \in DOMAIN inbound' : \/ i \in DOMAIN inbound /\ inbound'[i] = inbound[i]
                                      \/ /\ inbound'[i] = next /\ i = Len(inbound) + 1
                                         /\ script[next].type = "malformed" /\ reader' = "ended"
    <2>1. CASE inbound' = inbound
      BY <1>4, <2>1
    <2>2. CASE inbound' = Append(inbound, next) /\ script[next].type = "malformed" /\ reader' = "ended"
      BY <1>2, <1>4, <2>2
    <2>3. QED
      BY <1>3, <2>1, <2>2
  <1>8. \A i \in DOMAIN inbound : inbound[i] < next /\ inbound[i] \in WinHost!Frame
    BY <1>4 DEF HostInv, QueueInv
  <1>9. \A f \in WinHost!Frame : IsPast(f) => IsPast(f)'
    BY <1>1, <1>2, <1>7 DEF IsPast
  <1>10. QueueInv'
    <2>1. /\ \A i \in DOMAIN inbound' : inbound'[i] < next' /\ (reader' = "adding" => inbound'[i] < next' - 1)
          /\ \A i, k \in DOMAIN inbound' : i < k => inbound'[i] < inbound'[k]
      <3>1. \A i \in DOMAIN inbound' : inbound'[i] < next' /\ (reader' = "adding" => inbound'[i] < next' - 1)
        BY <1>1, <1>2, <1>4, <1>7, <1>8, SMTT(30)
      <3>2. \A i, k \in DOMAIN inbound : i < k => inbound[i] < inbound[k]
        BY DEF HostInv, QueueInv
      <3>3. \A i, k \in DOMAIN inbound' : i < k => inbound'[i] < inbound'[k]
        BY <1>2, <1>4, <1>7, <1>8, <3>2
      <3>4. QED
        BY <3>1, <3>3
    <2>2. reader' = "adding" => next' > 1
      BY <1>1, <1>2
    <2>3. consumer.at \in AtWork => consumer.frame \in WinHost!Frame /\ IsPast(consumer.frame)
      BY DEF HostInv, QueueInv
    <2>4. (consumer.at \in AtWork => consumer.frame \in WinHost!Frame /\ IsPast(consumer.frame))'
      BY <1>1, <1>2, <1>7, <2>3 DEF IsPast
    <2>5. host' = "stopped" => inbound' = <<>>
      BY <1>1, <1>3 DEF HostInv, QueueInv
    <2>6. (/\ consumer.at \notin AtWork => consumer.frame = 0
           /\ host = "stopped" <=> consumer.at \in {"disposing", "ended", "failed"}
           /\ consumer.at = "ended" => \A s \in WinHost!Frame : sessions[s] = None)'
      BY <1>1 DEF HostInv, QueueInv, WinHost!Frame
    <2>7. QED
      BY <2>1, <2>2, <2>4, <2>5, <2>6, Zenon DEF QueueInv
  <1>11. TraceInv'
    BY <1>1, <1>2, <1>9 DEF HostInv, TraceInv, LeftTraces
  <1>12. \A f : Registered(f) => Registered(f)'
    BY <1>1, <1>3 DEF Registered
  <1>13. IntakeInv'
    <2>1. \A f \in outstanding' : script[f].type = "request" /\ f < next'
      <3>1. \A f \in outstanding : script[f].type = "request" /\ f < next
        BY DEF HostInv, IntakeInv
      <3>2. outstanding' = outstanding \/ (outstanding' = outstanding \cup {next} /\ script[next].type = "request")
        BY <1>3
      <3>3. \A f \in outstanding' : script[f].type = "request" /\ (f < next \/ f = next)
        BY <3>1, <3>2
      <3>4. \A f \in WinHost!Frame : f < next \/ f = next => f < next'
        BY <1>1, <1>2
      <3>5. QED
        BY <1>5, <3>3, <3>4
    <2>2. (\A i \in DOMAIN inbound : Registered(inbound[i]))'
      <3>1. ASSUME NEW i \in DOMAIN inbound' PROVE Registered(inbound[i])'
        <4>1. CASE i \in DOMAIN inbound /\ inbound'[i] = inbound[i]
          BY <1>1, <1>3, <4>1 DEF HostInv, IntakeInv, Registered
        <4>2. CASE inbound'[i] = next /\ script[next].type = "malformed" /\ reader' = "ended"
          BY <1>1, <1>2, <4>2 DEF Registered
        <4>3. QED
          BY <1>7, <4>1, <4>2
      <3>2. QED
        BY <3>1
    <2>3. (consumer.at \in Unanswered => Registered(consumer.frame))'
      BY <1>1, <1>3 DEF HostInv, IntakeInv, Registered
    <2>4. reader' = "adding" => script[next' - 1].type = "request" /\ (host' = "running" => next' - 1 \in outstanding')
      BY <1>1, <1>2, <1>3
    <2>5. WinHost!IdHasOneAnswer'
      <3>1. WinHost!Answered' = WinHost!Answered
        BY <1>1 DEF WinHost!Answered, WinHost!Frame
      <3>2. WinHost!Accepted' \subseteq WinHost!Accepted \cup {next}
            /\ (WinHost!Unanswerable(next) => WinHost!Accepted' \subseteq WinHost!Accepted)
        <4>1. outstanding' \subseteq outstanding \cup {next} /\ (WinHost!Unanswerable(next) => outstanding' = outstanding)
          BY <1>3
        <4>2. WinHost!Range(inbound') \subseteq WinHost!Range(inbound) \cup {next}
          BY <1>7 DEF WinHost!Range
        <4>3. WinHost!Unanswerable(next) => inbound' = inbound
          BY <1>3
        <4>4. WinHost!Range(inbound)' = WinHost!Range(inbound')
          BY DEF WinHost!Range
        <4>5. QED
          BY <1>1, <3>1, <4>1, <4>2, <4>3, <4>4 DEF WinHost!Accepted
      <3>3. ASSUME NEW g \in WinHost!Accepted' \ {0}, NEW f \in WinHost!Accepted' \ {0}, g < f, script[g].id = script[f].id
            PROVE  g \in WinHost!Answered
        <4>1. CASE g \in WinHost!Accepted /\ f \in WinHost!Accepted
          BY <3>3, <4>1 DEF HostInv, IntakeInv, WinHost!IdHasOneAnswer
        <4>2. CASE g \in WinHost!Accepted /\ f = next /\ ~WinHost!Unanswerable(next)
          <5>1. g \in WinHost!Answered \/ Registered(g)
            BY <3>3, <4>2, AcceptedIsPast
          <5>2. ~Registered(g)
            BY <1>1, <3>3, <4>2 DEF Registered, WinHost!Unanswerable, WinHost!IsOutstanding
          <5>3. QED
            BY <5>1, <5>2
        <4>3. CASE g = next /\ f \in WinHost!Accepted
          <5>1. f < next /\ f \in WinHost!Frame
            BY <3>3, <4>3, AcceptedIsPast
          <5>2. QED
            BY <1>2, <3>3, <4>3, <5>1
        <4>4. CASE g = next /\ f = next
          BY <1>2, <3>3, <4>4
        <4>5. QED
          BY <3>2, <3>3, <4>1, <4>2, <4>3, <4>4
      <3>4. QED
        BY <1>1, <3>1, <3>3 DEF WinHost!IdHasOneAnswer
    <2>6. QED
      BY <1>1, <1>2, <2>1, <2>2, <2>3, <2>4, <2>5 DEF HostInv, IntakeInv
  <1>14. QED
    BY <1>1, <1>6, <1>10, <1>11, <1>13, ReaderKeeps DEF HostInv

-----------------------------------------------------------------------------

\* Between two requests nothing that was done or said is touched.
LEMMA TakenKeeps ==
  ASSUME HostInv, UNCHANGED <<script, used, sessions, process, identity, effect, answers, host>>,
         consumer.at # "window", consumer'.at # "window", consumer'.seen = <<>>
  PROVE  EffectInv' /\ AnswerInv' /\ TargetInv' /\ HandleInv'
  <1>1. WinHost!Frame' = WinHost!Frame /\ WinHost!Requests' = WinHost!Requests /\ WinHost!Running' = WinHost!Running
    BY DEF WinHost!Frame, WinHost!Requests, WinHost!Running
  <1>2. EffectInv'
    BY <1>1 DEF HostInv, EffectInv, SameOperation, Began, Fits
  <1>3. AnswerInv'
    BY <1>1 DEF HostInv, AnswerInv, Sound, SameOperation, WinHost!Repeats, WinHost!Hopeless, WinHost!Full
  <1>4. TargetInv'
    BY <1>1 DEF HostInv, TargetInv
  <1>5. HandleInv'
    BY <1>1 DEF HostInv, HandleInv, WinHost!IsInjective
  <1>6. QED
    BY <1>2, <1>3, <1>4, <1>5

LEMMA EnqueueKeepsIt == ASSUME HostInv, WinHost!Enqueue PROVE HostInv'
  <1>1. /\ reader = "adding" /\ next' = next
        /\ UNCHANGED <<script, consumer, used, sessions, process, identity, effect, answers, host>>
    BY DEF WinHost!Enqueue, WinHost!world
  <1>2. /\ Len(script) \in Nat /\ WinHost!Frame = 1 .. Len(script) /\ WinHost!Frame' = WinHost!Frame
        /\ next \in 1 .. Len(script) + 1 /\ next - 1 \in WinHost!Frame
    BY <1>1, HostFrames DEF HostInv, HostType, QueueInv, WinHost!Frame
  <1>3. \/ host = "running" /\ inbound' = Append(inbound, next - 1) /\ reader' = "reading" /\ outstanding' = outstanding
        \/ host # "running" /\ outstanding' = outstanding \ {next - 1} /\ reader' = "ended" /\ inbound' = inbound
    BY DEF WinHost!Enqueue
  <1>4. inbound \in Seq(WinHost!Frame) /\ DOMAIN inbound = 1 .. Len(inbound) /\ Len(inbound) \in Nat
        /\ outstanding \subseteq WinHost!Frame
    BY DEF HostInv, HostType
  <1>5. /\ inbound' \in Seq(WinHost!Frame) /\ outstanding' \subseteq outstanding /\ outstanding \subseteq outstanding' \cup {next - 1}
        /\ reader' \in {"reading", "ended"}
    <2>1. inbound' = inbound \/ inbound' = Append(inbound, next - 1)
      BY <1>3
    <2>2. /\ outstanding' \subseteq outstanding /\ outstanding \subseteq outstanding' \cup {next - 1}
          /\ reader' \in {"reading", "ended"}
      BY <1>3
    <2>3. inbound' \in Seq(WinHost!Frame)
      BY <1>2, <1>4, <2>1
    <2>4. QED
      BY <2>2, <2>3
  <1>6. HostType'
    BY <1>1, <1>2, <1>4, <1>5 DEF HostInv, HostType, HostConsumer
  <1>7. /\ DOMAIN inbound' = 1 .. Len(inbound')
        /\ \A i \in DOMAIN inbound' : \/ i \in DOMAIN inbound /\ inbound'[i] = inbound[i]
                                      \/ /\ inbound'[i] = next - 1 /\ i = Len(inbound) + 1
                                         /\ host = "running" /\ outstanding' = outstanding
    <2>1. CASE inbound' = inbound
      BY <1>4, <2>1
    <2>2. CASE inbound' = Append(inbound, next - 1) /\ host = "running" /\ outstanding' = outstanding
      BY <1>2, <1>4, <2>2
    <2>3. QED
      BY <1>3, <2>1, <2>2
  <1>8. \A i \in DOMAIN inbound : inbound[i] < next - 1 /\ inbound[i] \in WinHost!Frame
    BY <1>1, <1>4 DEF HostInv, QueueInv
  <1>9. \A f \in WinHost!Frame : IsPast(f) => IsPast(f)' /\ f < next - 1
    BY <1>1, <1>2, <1>5, <1>7 DEF IsPast
  <1>10. consumer.at \in AtWork => consumer.frame \in WinHost!Frame /\ IsPast(consumer.frame) /\ consumer.frame < next - 1
    BY <1>9 DEF HostInv, QueueInv
  <1>11. QueueInv'
    <2>1. /\ \A i \in DOMAIN inbound' : inbound'[i] < next'
          /\ \A i, k \in DOMAIN inbound' : i < k => inbound'[i] < inbound'[k]
      <3>1. \A i \in DOMAIN inbound' : inbound'[i] < next
        BY <1>2, <1>7, <1>8
      <3>2. ASSUME NEW i \in DOMAIN inbound', NEW k \in DOMAIN inbound', i < k PROVE inbound'[i] < inbound'[k]
        <4>1. CASE k \in DOMAIN inbound /\ inbound'[k] = inbound[k]
          <5>1. i \in DOMAIN inbound /\ inbound'[i] = inbound[i]
            BY <1>4, <1>7, <3>2, <4>1
          <5>2. QED
            BY <3>2, <4>1, <5>1 DEF HostInv, QueueInv
        <4>2. CASE inbound'[k] = next - 1 /\ k = Len(inbound) + 1
          <5>1. i \in DOMAIN inbound /\ inbound'[i] = inbound[i]
            BY <1>4, <1>7, <3>2, <4>2
          <5>2. QED
            BY <1>8, <4>2, <5>1
        <4>3. QED
          BY <1>7, <4>1, <4>2
      <3>3. QED
        BY <1>1, <3>1, <3>2
    <2>2. (consumer.at \in AtWork => consumer.frame \in WinHost!Frame /\ IsPast(consumer.frame))'
      BY <1>1, <1>2, <1>5, <1>7, <1>10 DEF IsPast
    <2>3. host' = "stopped" => inbound' = <<>>
      BY <1>1, <1>3 DEF HostInv, QueueInv
    <2>4. (/\ consumer.at \notin AtWork => consumer.frame = 0
           /\ host = "stopped" <=> consumer.at \in {"disposing", "ended", "failed"}
           /\ consumer.at = "ended" => \A s \in WinHost!Frame : sessions[s] = None)'
      BY <1>1 DEF HostInv, QueueInv, WinHost!Frame
    <2>5. reader' # "adding"
      BY <1>3, <1>5
    <2>6. QED
      BY <2>1, <2>2, <2>3, <2>4, <2>5, Zenon DEF QueueInv
  <1>12. TraceInv'
    BY <1>1, <1>2, <1>9 DEF HostInv, TraceInv, LeftTraces
  <1>13. script[next - 1].type = "request" /\ (host = "running" => next - 1 \in outstanding)
    BY <1>1 DEF HostInv, IntakeInv
  <1>14. IntakeInv'
    <2>1. \A f \in outstanding' : script[f].type = "request" /\ f < next'
      BY <1>1, <1>5 DEF HostInv, IntakeInv
    <2>2. (\A i \in DOMAIN inbound : Registered(inbound[i]))'
      <3>1. ASSUME NEW i \in DOMAIN inbound' PROVE Registered(inbound[i])'
        <4>1. CASE i \in DOMAIN inbound /\ inbound'[i] = inbound[i]
          <5>1. Registered(inbound[i]) /\ inbound[i] < next - 1 /\ inbound[i] # next - 1
            BY <1>2, <1>8, <4>1 DEF HostInv, IntakeInv
          <5>2. QED
            BY <1>1, <1>5, <4>1, <5>1 DEF Registered
        <4>2. CASE inbound'[i] = next - 1 /\ host = "running" /\ outstanding' = outstanding
          BY <1>1, <1>13, <4>2 DEF Registered
        <4>3. QED
          BY <1>7, <4>1, <4>2
      <3>2. QED
        BY <3>1
    <2>3. (consumer.at \in Unanswered => Registered(consumer.frame))'
      <3>1. SUFFICES ASSUME consumer.at \in Unanswered PROVE Registered(consumer.frame)'
        BY <1>1
      <3>2. Registered(consumer.frame) /\ consumer.frame # next - 1
        BY <1>2, <1>10, <3>1 DEF HostInv, IntakeInv, AtWork
      <3>3. QED
        BY <1>1, <1>5, <3>2 DEF Registered
    <2>4. WinHost!IdHasOneAnswer'
      <3>1. WinHost!Answered' = WinHost!Answered
        BY <1>1 DEF WinHost!Answered, WinHost!Frame
      <3>2. WinHost!Range(inbound') \subseteq WinHost!Range(inbound) \cup outstanding
        BY <1>7, <1>13 DEF WinHost!Range
      <3>3. WinHost!Range(inbound)' = WinHost!Range(inbound')
        BY DEF WinHost!Range
      <3>4. WinHost!Accepted' \subseteq WinHost!Accepted
        BY <1>1, <1>5, <3>1, <3>2, <3>3 DEF WinHost!Accepted
      <3>5. QED
        BY <1>1, <3>1, <3>4 DEF HostInv, IntakeInv, WinHost!IdHasOneAnswer
    <2>5. QED
      BY <1>1, <1>2, <1>5, <2>1, <2>2, <2>3, <2>4 DEF HostInv, IntakeInv
  <1>15. QED
    BY <1>1, <1>6, <1>11, <1>12, <1>14, ReaderKeeps DEF HostInv

LEMMA EndOfInputKeepsIt == ASSUME HostInv, WinHost!EndOfInput PROVE HostInv'
  <1>1. /\ reader = "reading" /\ reader' = "ended"
        /\ UNCHANGED <<script, next, inbound, outstanding, consumer, used, sessions, process, identity, effect, answers, host>>
    BY DEF WinHost!EndOfInput, WinHost!world
  <1>2. HostType'
    BY <1>1 DEF HostInv, HostType, WinHost!Frame, HostConsumer
  <1>3. QueueInv' /\ TraceInv'
    BY <1>1 DEF HostInv, QueueInv, TraceInv, IsPast, LeftTraces, WinHost!Frame
  <1>4. WinHost!IdHasOneAnswer'
    BY <1>1 DEF HostInv, IntakeInv, WinHost!IdHasOneAnswer, WinHost!Accepted, WinHost!Answered, WinHost!Range, WinHost!Frame
  <1>5. IntakeInv'
    BY <1>1, <1>4 DEF HostInv, IntakeInv, Registered, WinHost!Frame
  <1>6. QED
    BY <1>1, <1>2, <1>3, <1>5, ReaderKeeps DEF HostInv

LEMMA TakeKeepsIt == ASSUME HostInv, WinHost!Take PROVE HostInv'
  <1> DEFINE f == Head(inbound)
  <1>1. /\ consumer.at = "idle" /\ inbound # <<>> /\ host = "running" /\ inbound' = Tail(inbound)
        /\ UNCHANGED <<script, next, reader, outstanding, used, sessions, process, identity, effect, answers, host>>
    BY DEF WinHost!Take, WinHost!world
  <1>2. /\ Len(script) \in Nat /\ WinHost!Frame = 1 .. Len(script) /\ WinHost!Frame' = WinHost!Frame
        /\ WinHost!Requests' = WinHost!Requests
    BY <1>1, HostFrames DEF HostInv, WinHost!Frame, WinHost!Requests
  <1>3. /\ inbound \in Seq(WinHost!Frame) /\ Len(inbound) \in Nat /\ 1 \in DOMAIN inbound /\ f = inbound[1] /\ f \in WinHost!Frame
        /\ inbound' \in Seq(WinHost!Frame) /\ DOMAIN inbound' = 1 .. Len(inbound) - 1
        /\ \A i \in DOMAIN inbound' : i + 1 \in DOMAIN inbound /\ inbound'[i] = inbound[i + 1]
    BY <1>1 DEF HostInv, HostType
  <1>4. Registered(f) /\ f < next /\ (reader = "adding" => f < next - 1) /\ \A i \in DOMAIN inbound' : f < inbound'[i]
    BY <1>3 DEF HostInv, IntakeInv, QueueInv
  <1>5. consumer.frame = 0 /\ consumer.seen \in Seq(HostEntry)
    BY <1>1 DEF HostInv, QueueInv, HostType, HostConsumer, AtWork, Unanswered, UnderWay, Dispatched
  <1>6. \/ /\ script[f].type = "malformed"
           /\ consumer' = [WinHost!Idle EXCEPT !.at = "write", !.frame = f, !.reply = WinHost!Reply(FALSE, "none", "never")]
        \/ script[f].type # "malformed" /\ consumer' = [WinHost!Idle EXCEPT !.at = "taken", !.frame = f]
    BY DEF WinHost!Take
  <1> HIDE DEF f
  <1>7. /\ consumer' \in HostConsumer /\ consumer'.at \in {"write", "taken"} /\ consumer'.frame = f /\ consumer'.seen = <<>>
        /\ consumer'.at = "write" => script[f].type = "malformed" /\ consumer'.reply \in HostReply
        /\ consumer'.at = "taken" => script[f].type # "malformed"
    <2>1. WinHost!Reply(FALSE, "none", "never") \in HostReply
      BY DEF WinHost!Reply, HostReply
    <2>2. "write" \in AtWork /\ "taken" \in AtWork
      BY DEF AtWork, Unanswered
    <2>3. CASE consumer' = [WinHost!Idle EXCEPT !.at = "write", !.frame = f, !.reply = WinHost!Reply(FALSE, "none", "never")]
      <3>1. consumer' = [at |-> "write", frame |-> f, reply |-> WinHost!Reply(FALSE, "none", "never"), seen |-> <<>>]
        BY <2>3 DEF WinHost!Idle
      <3>2. script[f].type = "malformed"
        BY <1>6, <3>1 DEF WinHost!Idle
      <3>3. /\ "write" \in AtWork \cup {"idle", "ended"} /\ f \in WinHost!Frame \cup {0}
            /\ WinHost!Reply(FALSE, "none", "never") \in HostReply \cup {None}
        BY <1>3, <2>1, <2>2
      <3>4. <<>> \in Seq(HostEntry)
        OBVIOUS
      <3>5. consumer' \in HostConsumer
        BY <3>1, <3>3, <3>4 DEF HostConsumer
      <3>6. QED
        BY <2>1, <3>1, <3>2, <3>5
    <2>4. CASE consumer' = [WinHost!Idle EXCEPT !.at = "taken", !.frame = f]
      <3>1. consumer' = [at |-> "taken", frame |-> f, reply |-> None, seen |-> <<>>]
        BY <2>4 DEF WinHost!Idle
      <3>2. script[f].type # "malformed"
        BY <1>6, <3>1 DEF WinHost!Idle
      <3>3. "taken" \in AtWork \cup {"idle", "ended"} /\ f \in WinHost!Frame \cup {0} /\ None \in HostReply \cup {None}
        BY <1>3, <2>2
      <3>4. <<>> \in Seq(HostEntry)
        OBVIOUS
      <3>5. consumer' \in HostConsumer
        BY <3>1, <3>3, <3>4 DEF HostConsumer
      <3>6. QED
        BY <3>1, <3>2, <3>5
    <2>5. QED
      BY <1>6, <2>3, <2>4
  <1>8. HostType'
    BY <1>1, <1>2, <1>3, <1>7 DEF HostInv, HostType, HostConsumer
  <1>9. consumer'.at \in AtWork /\ consumer'.at \in Unanswered
    BY <1>7 DEF AtWork, Unanswered
  <1>10. ASSUME NEW g \in WinHost!Frame, IsPast(g) PROVE IsPast(g)' /\ g < f
    BY <1>1, <1>3, <1>10 DEF IsPast
  <1>11. QueueInv'
    <2>1. (consumer.frame \in WinHost!Frame /\ IsPast(consumer.frame))'
      BY <1>1, <1>2, <1>3, <1>4, <1>7 DEF IsPast
    <2>2. /\ \A i \in DOMAIN inbound' : inbound'[i] < next' /\ (reader' = "adding" => inbound'[i] < next' - 1)
          /\ \A i, j \in DOMAIN inbound' : i < j => inbound'[i] < inbound'[j]
      BY <1>1, <1>3 DEF HostInv, QueueInv
    <2>3. QED
      BY <1>1, <1>7, <1>9, <2>1, <2>2 DEF HostInv, QueueInv
  <1>12. TraceInv'
    <2>1. ASSUME NEW g \in WinHost!Frame, LeftTraces(g)' PROVE IsPast(g)' /\ g <= f
      <3>1. IsPast(g)
        BY <1>1, <2>1 DEF HostInv, TraceInv, LeftTraces
      <3>2. QED
        BY <1>2, <1>3, <1>10, <3>1
    <2>2. QED
      BY <1>2, <1>7, <2>1 DEF TraceInv
  <1>13. answers[f] = None /\ effect[f] = "nothing" /\ sessions[f] = None /\ process[f] = "none"
    <2>1. ~IsPast(f)
      BY <1>2, <1>3, <1>10
    <2>2. QED
      BY <1>3, <2>1 DEF HostInv, TraceInv, LeftTraces
  <1>14. IntakeInv'
    <2>1. (\A i \in DOMAIN inbound : Registered(inbound[i]))'
      BY <1>1, <1>3 DEF HostInv, IntakeInv, Registered
    <2>2. Registered(consumer.frame)'
      BY <1>1, <1>4, <1>7 DEF Registered
    <2>3. consumer'.at \in Unanswered \ {"write"} => script[f].type = "request"
      BY <1>4, <1>7 DEF Registered
    <2>4. WinHost!IdHasOneAnswer'
      <3>1. WinHost!Answered' = WinHost!Answered
        BY <1>1 DEF WinHost!Answered, WinHost!Frame
      <3>2. WinHost!Range(inbound)' \subseteq WinHost!Range(inbound) /\ f \in WinHost!Range(inbound)
        BY <1>3 DEF WinHost!Range
      <3>3. WinHost!Accepted' \subseteq WinHost!Accepted
        BY <1>1, <1>7, <3>1, <3>2 DEF WinHost!Accepted
      <3>4. QED
        BY <1>1, <3>1, <3>3 DEF HostInv, IntakeInv, WinHost!IdHasOneAnswer
    <2>5. QED
      BY <1>1, <1>2, <1>7, <2>1, <2>2, <2>3, <2>4 DEF HostInv, IntakeInv
  <1>15. EffectInv' /\ AnswerInv' /\ TargetInv' /\ HandleInv'
    BY <1>1, <1>7, TakenKeeps
  <1>16. ReplyInv'
    BY <1>1, <1>7 DEF ReplyInv
  <1>17. WorkInv'
    BY <1>1, <1>7, <1>9, <1>13 DEF WorkInv, UnderWay, Dispatched
  <1>18. QED
    BY <1>8, <1>11, <1>12, <1>14, <1>15, <1>16, <1>17 DEF HostInv

LEMMA ReleaseOutstandingKeepsIt == ASSUME HostInv, WinHost!ReleaseOutstanding PROVE HostInv'
  <1>1. /\ consumer.at = "release" /\ outstanding' = outstanding \ {consumer.frame} /\ consumer' = WinHost!Idle
        /\ UNCHANGED <<script, next, reader, inbound, used, sessions, process, identity, effect, answers, host>>
    BY DEF WinHost!ReleaseOutstanding, WinHost!world, WinHost!Now
  <1>2. /\ Len(script) \in Nat /\ WinHost!Frame = 1 .. Len(script) /\ WinHost!Frame' = WinHost!Frame
    BY <1>1, HostFrames DEF HostInv, WinHost!Frame
  <1>3. /\ consumer' \in HostConsumer /\ consumer'.at = "idle" /\ consumer'.frame = 0 /\ consumer'.seen = <<>>
        /\ consumer'.at \notin AtWork /\ consumer'.at \notin Unanswered
    BY <1>1 DEF WinHost!Idle, HostConsumer, AtWork, Unanswered, UnderWay, Dispatched
  <1>4. consumer.frame \in WinHost!Frame /\ IsPast(consumer.frame) /\ consumer.frame \in WinHost!Answered
    BY <1>1 DEF HostInv, QueueInv, IntakeInv, AtWork, WinHost!Answered
  <1>5. HostType'
    BY <1>1, <1>2, <1>3 DEF HostInv, HostType, HostConsumer
  <1>6. QueueInv'
    BY <1>1, <1>2, <1>3 DEF HostInv, QueueInv
  <1>7. TraceInv'
    BY <1>1, <1>2, <1>3 DEF HostInv, TraceInv, LeftTraces, IsPast
  <1>8. IntakeInv'
    <2>1. (\A i \in DOMAIN inbound : Registered(inbound[i]))'
      <3>1. ASSUME NEW i \in DOMAIN inbound PROVE inbound[i] # consumer.frame /\ Registered(inbound[i])
        <4>1. inbound[i] \in WinHost!Frame /\ consumer.frame < inbound[i] /\ Registered(inbound[i])
          BY <1>4 DEF HostInv, HostType, IntakeInv, IsPast
        <4>2. QED
          BY <1>2, <1>4, <4>1
      <3>2. QED
        BY <1>1, <3>1 DEF Registered
    <2>2. reader = "adding" => consumer.frame # next - 1
      BY <1>2, <1>4 DEF IsPast
    <2>3. WinHost!IdHasOneAnswer'
      <3>1. WinHost!Answered' = WinHost!Answered /\ WinHost!Range(inbound)' = WinHost!Range(inbound)
        BY <1>1 DEF WinHost!Answered, WinHost!Frame, WinHost!Range
      <3>2. WinHost!Accepted' \ {0} \subseteq WinHost!Accepted
        BY <1>1, <1>3, <3>1 DEF WinHost!Accepted
      <3>3. QED
        BY <1>1, <3>1, <3>2 DEF HostInv, IntakeInv, WinHost!IdHasOneAnswer
    <2>4. QED
      BY <1>1, <1>2, <1>3, <2>1, <2>2, <2>3 DEF HostInv, IntakeInv
  <1>9. EffectInv' /\ AnswerInv' /\ TargetInv' /\ HandleInv'
    BY <1>1, <1>3, TakenKeeps
  <1>10. ReplyInv' /\ WorkInv'
    BY <1>3 DEF ReplyInv, WorkInv, Unanswered, UnderWay, Dispatched, NoEffectYet
  <1>11. QED
    BY <1>5, <1>6, <1>7, <1>8, <1>9, <1>10 DEF HostInv

LEMMA InterruptKeepsIt == ASSUME HostInv, WinHost!Interrupt PROVE HostInv'
  <1>1. /\ host = "running" /\ host' = "interrupted"
        /\ UNCHANGED <<script, next, reader, inbound, outstanding, consumer, used, sessions, process, identity, effect, answers>>
    BY DEF WinHost!Interrupt, WinHost!world
  <1>2. WinHost!Frame' = WinHost!Frame /\ WinHost!Requests' = WinHost!Requests /\ WinHost!Running' = WinHost!Running
    BY <1>1 DEF WinHost!Frame, WinHost!Requests, WinHost!Running
  <1>3. HostType' /\ QueueInv' /\ TraceInv'
    BY <1>1, <1>2 DEF HostInv, HostType, HostConsumer, QueueInv, TraceInv, IsPast, LeftTraces
  <1>4. WinHost!IdHasOneAnswer'
    BY <1>1 DEF HostInv, IntakeInv, WinHost!IdHasOneAnswer, WinHost!Accepted, WinHost!Answered, WinHost!Range, WinHost!Frame
  <1>5. IntakeInv'
    BY <1>1, <1>2, <1>4 DEF HostInv, IntakeInv, Registered
  <1>6. EffectInv'
    BY <1>1, <1>2 DEF HostInv, EffectInv, SameOperation, Began, Fits
  <1>7. AnswerInv'
    BY <1>1, <1>2 DEF HostInv, AnswerInv, Sound, SameOperation, WinHost!Repeats, WinHost!Hopeless, WinHost!Full
  <1>8. ReplyInv'
    BY <1>1, <1>2 DEF HostInv, ReplyInv, Sound, SameOperation, WinHost!Repeats, WinHost!Hopeless, WinHost!Full
  <1>9. WorkInv'
    BY <1>1, <1>2 DEF HostInv, WorkInv, Fits, Began, SameOperation, WinHost!Current
  <1>10. TargetInv' /\ HandleInv'
    BY <1>1, <1>2 DEF HostInv, TargetInv, HandleInv, WinHost!IsInjective
  <1>11. QED
    BY <1>3, <1>5, <1>6, <1>7, <1>8, <1>9, <1>10 DEF HostInv

\* The world changes: a target exits, or something else comes to a place.
LEMMA WorldKeeps ==
  ASSUME HostInv, WinHost!Keeps, UNCHANGED <<consumer, sessions, effect>>, HostType',
         \A s \in WinHost!Frame : process'[s] = process[s] \/ (process[s] \in {"running", "left"} /\ process'[s] = "gone"),
         \A e \in HostElement : identity[e] <= identity'[e]
  PROVE  HostInv'
  <1>1. UNCHANGED <<script, next, reader, inbound, outstanding, used, answers, host>>
    BY DEF WinHost!Keeps
  <1>2. WinHost!Frame' = WinHost!Frame /\ WinHost!Requests' = WinHost!Requests /\ WinHost!Requests \subseteq WinHost!Frame
    BY <1>1 DEF WinHost!Frame, WinHost!Requests
  <1>3. QueueInv'
    BY <1>1, <1>2 DEF HostInv, QueueInv, IsPast
  <1>4. TraceInv'
    BY <1>1, <1>2 DEF HostInv, TraceInv, IsPast, LeftTraces
  <1>5. WinHost!IdHasOneAnswer'
    BY <1>1 DEF HostInv, IntakeInv, WinHost!IdHasOneAnswer, WinHost!Accepted, WinHost!Answered, WinHost!Range, WinHost!Frame
  <1>6. IntakeInv'
    BY <1>1, <1>2, <1>5 DEF HostInv, IntakeInv, Registered
  <1>7. EffectInv'
    BY <1>1, <1>2 DEF HostInv, EffectInv, SameOperation, Began, Fits
  <1>8. \A s \in WinHost!Frame : process[s] # "running" => process'[s] # "running"
    OBVIOUS
  <1>9. AnswerInv'
    BY <1>1, <1>2, <1>8 DEF HostInv, AnswerInv, Sound, SameOperation, WinHost!Repeats, WinHost!Hopeless, WinHost!Full
  <1>10. ReplyInv'
    BY <1>1, <1>2, <1>8 DEF HostInv, ReplyInv, Sound, SameOperation, WinHost!Repeats, WinHost!Hopeless, WinHost!Full
  <1>11. WorkInv'
    <2>1. consumer.at \in NoEffectYet => process'[consumer.frame] = "none"
      <3>1. SUFFICES ASSUME consumer.at \in NoEffectYet PROVE process'[consumer.frame] = "none"
        OBVIOUS
      <3>2. consumer.frame \in WinHost!Frame /\ process[consumer.frame] = "none"
        BY <3>1 DEF HostInv, QueueInv, WorkInv, AtWork, Unanswered, UnderWay, NoEffectYet
      <3>3. QED
        BY <3>2
    <2>2. consumer.at = "observe" =>
            \/ effect[consumer.frame] = "done"
            \/ ~WinHost!Current(sessions[script[consumer.frame].on].registry[script[consumer.frame].handle])'
      <3>1. SUFFICES ASSUME consumer.at = "observe", effect[consumer.frame] # "done"
                     PROVE  ~WinHost!Current(sessions[script[consumer.frame].on].registry[script[consumer.frame].handle])'
        OBVIOUS
      <3> DEFINE theirs == script[consumer.frame].on
                 entry == sessions[theirs].registry[script[consumer.frame].handle]
      <3>2. /\ theirs \in WinHost!Frame /\ sessions[theirs] # None /\ sessions[theirs] \in HostSession
            /\ script[consumer.frame].handle \in DOMAIN sessions[theirs].registry
        BY <3>1, OnIsThere DEF HostInv, WorkInv, UnderWay
      <3>3. entry \in HostEntry /\ entry.id <= identity[entry.place]
        <4>1. sessions[theirs].registry \in Seq(HostEntry)
          BY <3>2 DEF HostSession
        <4>2. entry \in HostEntry
          BY <3>2, <4>1
        <4>3. QED
          BY <3>2, <4>2 DEF HostInv, HandleInv
      <3>4. ~WinHost!Current(entry)
        BY <3>1 DEF HostInv, WorkInv
      <3> HIDE DEF entry
      <3>5. entry.id \in Nat /\ entry.place \in HostElement /\ identity[entry.place] \in Nat /\ identity'[entry.place] \in Nat
        BY <3>3 DEF HostEntry, HostInv, HostType
      <3>6. identity'[entry.place] # entry.id
        BY <3>3, <3>4, <3>5 DEF WinHost!Current
      <3>7. QED
        BY <1>1, <3>6 DEF WinHost!Current, entry
    <2>3. QED
      BY <1>1, <1>2, <2>1, <2>2 DEF HostInv, WorkInv, Fits, Began, SameOperation
  <1>12. TargetInv'
    <2>1. \A s \in WinHost!Running' : s \in WinHost!Running
      BY <1>2 DEF WinHost!Running
    <2>2. \A s \in WinHost!Frame : process[s] = "none" => process'[s] = "none"
      OBVIOUS
    <2>3. QED
      BY <1>1, <1>2, <1>8, <2>1, <2>2 DEF HostInv, TargetInv
  <1>13. HandleInv'
    <2>1. ASSUME NEW S \in Seq(HostEntry), NEW k \in DOMAIN S, S[k].id <= identity[S[k].place]
          PROVE  S[k].id <= identity'[S[k].place]
      <3>1. S[k].id \in Nat /\ S[k].place \in HostElement
        <4>1. S[k] \in HostEntry
          BY <2>1
        <4>2. QED
          BY <4>1 DEF HostEntry
      <3>2. identity[S[k].place] \in Nat /\ identity'[S[k].place] \in Nat
        BY <3>1 DEF HostInv, HostType
      <3>3. QED
        BY <2>1, <3>1, <3>2
    <2>2. \A k \in DOMAIN consumer.seen : consumer.seen[k].id <= identity'[consumer.seen[k].place]
      BY <2>1 DEF HostInv, HostType, HostConsumer, HandleInv
    <2>3. ASSUME NEW s \in WinHost!Frame, sessions[s] # None, NEW k \in DOMAIN sessions[s].registry
          PROVE  sessions[s].registry[k].id <= identity'[sessions[s].registry[k].place]
      <3>1. sessions[s].registry \in Seq(HostEntry)
        BY <2>3 DEF HostInv, HostType, HostSession
      <3>2. sessions[s].registry[k].id <= identity[sessions[s].registry[k].place]
        BY <2>3 DEF HostInv, HandleInv
      <3>3. QED
        BY <2>1, <2>3, <3>1, <3>2
    <2>4. \A s \in WinHost!Frame : sessions[s] # None =>
            WinHost!IsInjective(sessions[s].registry) /\ Len(sessions[s].registry) <= HandleLimit
      BY DEF HostInv, HandleInv
    <2>5. QED
      BY <1>2, <2>2, <2>3, <2>4 DEF HandleInv, WinHost!IsInjective
  <1>14. QED
    BY <1>3, <1>4, <1>6, <1>7, <1>9, <1>10, <1>11, <1>12, <1>13 DEF HostInv

LEMMA ExitsKeepsIt == ASSUME HostInv, NEW s \in WinHost!Frame, WinHost!Exits(s) PROVE HostInv'
  <1>1. /\ process[s] \in {"running", "left"} /\ process' = [process EXCEPT ![s] = "gone"]
        /\ WinHost!Keeps /\ UNCHANGED <<consumer, sessions, identity, effect>>
    BY DEF WinHost!Exits
  <1>2. /\ process' \in [WinHost!Frame -> {"none", "running", "gone", "left"}] /\ process'[s] = "gone"
        /\ \A g \in WinHost!Frame \ {s} : process'[g] = process[g]
    BY <1>1 DEF HostInv, HostType
  <1>3. HostType'
    BY <1>1, <1>2 DEF HostInv, HostType, HostConsumer, WinHost!Keeps, WinHost!Frame
  <1>4. \A e \in HostElement : identity[e] <= identity'[e]
    BY <1>1 DEF HostInv, HostType
  <1>5. QED
    BY <1>1, <1>2, <1>3, <1>4, WorldKeeps

LEMMA ChangesKeepsIt == ASSUME HostInv, NEW e \in HostElement, WinHost!Changes(e) PROVE HostInv'
  <1>1. /\ identity' = [identity EXCEPT ![e] = @ + 1]
        /\ WinHost!Keeps /\ UNCHANGED <<consumer, sessions, process, effect>>
    BY DEF WinHost!Changes
  <1>2. identity' \in [HostElement -> Nat] /\ \A x \in HostElement : identity[x] <= identity'[x]
    BY <1>1 DEF HostInv, HostType
  <1>3. HostType'
    BY <1>1, <1>2 DEF HostInv, HostType, HostConsumer, WinHost!Keeps, WinHost!Frame
  <1>4. QED
    BY <1>1, <1>2, <1>3, WorldKeeps

\* Run is out of its loop, or goes on disposing: sessions and targets only go.
LEMMA EndingKeeps ==
  ASSUME HostInv, HostType', host' = "stopped", UNCHANGED <<script, next, reader, answers, effect>>,
         inbound' = <<>>, outstanding' \subseteq outstanding, consumer'.at \in {"disposing", "ended", "failed"},
         consumer'.frame = 0, consumer'.seen \in {<<>>, consumer.seen},
         \A s \in WinHost!Frame : sessions'[s] = None \/ sessions'[s] = sessions[s],
         \A s \in WinHost!Frame : \/ process'[s] = process[s]
                                  \/ process[s] = "running" /\ process'[s] \in {"gone", "left"},
         \A s \in WinHost!Frame : process'[s] = "running" => sessions'[s] # None,
         consumer'.at = "ended" => \A s \in WinHost!Frame : sessions'[s] = None,
         identity' = identity
  PROVE  HostInv'
  <1>1. /\ WinHost!Frame' = WinHost!Frame /\ WinHost!Requests' = WinHost!Requests /\ WinHost!Requests \subseteq WinHost!Frame
        /\ consumer'.at \notin AtWork /\ consumer'.at \notin Unanswered
    BY DEF WinHost!Frame, WinHost!Requests, AtWork, Unanswered, UnderWay, Dispatched
  <1>2. QueueInv'
    BY <1>1 DEF HostInv, QueueInv
  <1>3. TraceInv'
    <2>1. ASSUME NEW g \in WinHost!Frame, LeftTraces(g)' PROVE IsPast(g)'
      <3>1. LeftTraces(g)
        BY <2>1 DEF LeftTraces
      <3>2. IsPast(g)
        BY <3>1 DEF HostInv, TraceInv
      <3>3. QED
        BY <3>2 DEF IsPast
    <2>2. QED
      BY <1>1, <2>1 DEF TraceInv
  <1>4. WinHost!IdHasOneAnswer'
    <2>1. WinHost!Accepted' \ {0} \subseteq WinHost!Accepted
      BY <1>1 DEF WinHost!Accepted, WinHost!Range, WinHost!Answered
    <2>2. QED
      BY <1>1, <2>1 DEF HostInv, IntakeInv, WinHost!IdHasOneAnswer, WinHost!Answered
  <1>5. IntakeInv'
    BY <1>1, <1>4 DEF HostInv, IntakeInv
  <1>6. EffectInv'
    <2>1. ASSUME NEW g \in WinHost!Frame, Began(g) PROVE Began(g)'
      BY <1>1, <2>1 DEF Began, Fits
    <2>2. QED
      BY <1>1, <2>1 DEF HostInv, EffectInv, SameOperation
  <1>7. AnswerInv'
    <2>1. ASSUME NEW g \in WinHost!Requests, answers[g] # None PROVE Sound(g, answers[g])'
      <3>1. Sound(g, answers[g])
        BY <2>1 DEF HostInv, AnswerInv
      <3>2. \A r : WinHost!Hopeless(r)'
        BY DEF WinHost!Hopeless
      <3>3. \A r \in WinHost!Frame : process[r] # "running" => process'[r] # "running"
        OBVIOUS
      <3>4. QED
        BY <1>1, <3>1, <3>2, <3>3 DEF Sound
    <2>2. QED
      BY <1>1, <2>1 DEF AnswerInv
  <1>8. ReplyInv' /\ WorkInv'
    BY <1>1 DEF ReplyInv, WorkInv, Unanswered, UnderWay, Dispatched, NoEffectYet
  <1>9. TargetInv'
    <2>1. \A s \in WinHost!Running' : s \in WinHost!Running
      BY <1>1 DEF WinHost!Running
    <2>2. \A s \in WinHost!Frame : sessions'[s] # None => sessions'[s] = sessions[s]
      OBVIOUS
    <2>3. \A s \in WinHost!Frame : process[s] = "none" => process'[s] = "none"
      OBVIOUS
    <2>4. QED
      BY <1>1, <2>1, <2>2, <2>3 DEF HostInv, TargetInv
  <1>10. HandleInv'
    BY <1>1 DEF HostInv, HandleInv, WinHost!IsInjective
  <1>11. QED
    BY <1>2, <1>3, <1>5, <1>6, <1>7, <1>8, <1>9, <1>10 DEF HostInv

LEMMA StopKeepsIt == ASSUME HostInv, WinHost!Stop PROVE HostInv'
  <1>1. /\ consumer.at \in {"idle", "write"} /\ host' = "stopped" /\ consumer' = [WinHost!Idle EXCEPT !.at = "disposing"]
        /\ inbound' = <<>> /\ outstanding' = {}
        /\ UNCHANGED <<script, next, reader, used, sessions, process, identity, effect, answers>>
    BY DEF WinHost!Stop, WinHost!world
  <1>2. consumer' = [at |-> "disposing", frame |-> 0, reply |-> None, seen |-> <<>>]
    BY <1>1 DEF WinHost!Idle
  <1>3. consumer' \in HostConsumer' /\ consumer'.at = "disposing" /\ consumer'.frame = 0 /\ consumer'.seen = <<>>
    BY <1>2 DEF HostConsumer
  <1>4. inbound' \in Seq(WinHost!Frame)' /\ outstanding' \subseteq WinHost!Frame'
    BY <1>1
  <1>5. HostType'
    BY <1>1, <1>3, <1>4 DEF HostInv, HostType, WinHost!Frame
  <1>6. \A s \in WinHost!Frame : process'[s] = "running" => sessions'[s] # None
    BY <1>1 DEF HostInv, TargetInv
  <1>7. QED
    BY <1>1, <1>3, <1>5, <1>6, EndingKeeps

LEMMA DisposeSessionKeepsIt == ASSUME HostInv, NEW s \in WinHost!Frame, WinHost!DisposeSession(s) PROVE HostInv'
  <1>1. /\ consumer.at = "disposing" /\ sessions' = [sessions EXCEPT ![s] = None]
        /\ UNCHANGED <<script, next, reader, inbound, outstanding, used, answers, host, identity, effect>>
    BY DEF WinHost!DisposeSession, WinHost!Keeps
  <1>2. host = "stopped" /\ inbound = <<>> /\ consumer.frame = 0
    BY <1>1 DEF HostInv, QueueInv, AtWork, Unanswered, UnderWay, Dispatched
  <1>3. /\ process' \in [WinHost!Frame -> {"none", "running", "gone", "left"}] /\ process'[s] # "running"
        /\ process'[s] = process[s] \/ (process[s] = "running" /\ process'[s] \in {"gone", "left"})
        /\ \A r \in WinHost!Frame \ {s} : process'[r] = process[r]
    BY DEF WinHost!DisposeSession, WinHost!Disposed, WinHost!Killed, HostInv, HostType
  <1>4. consumer' = consumer \/ consumer' = [consumer EXCEPT !.at = "failed"]
    BY DEF WinHost!DisposeSession, WinHost!Goes
  <1>5. /\ consumer' \in HostConsumer /\ consumer'.at \in {"disposing", "failed"}
        /\ consumer'.frame = 0 /\ consumer'.seen = consumer.seen
    BY <1>1, <1>2, <1>4 DEF HostInv, HostType, HostConsumer
  <1>6. sessions' \in [WinHost!Frame -> HostSession \cup {None}] /\ \A r \in WinHost!Frame : sessions'[r] = IF r = s THEN None ELSE sessions[r]
    BY <1>1 DEF HostInv, HostType
  <1>7. HostType'
    BY <1>1, <1>3, <1>5, <1>6, Zenon DEF HostInv, HostType, WinHost!Frame, HostConsumer, HostSession, HostEntry
  <1>8. \A r \in WinHost!Frame : process'[r] = "running" => sessions'[r] # None
    BY <1>1, <1>3, <1>6 DEF HostInv, TargetInv
  <1>9. QED
    BY <1>1, <1>2, <1>3, <1>5, <1>6, <1>7, <1>8, EndingKeeps

LEMMA DisposeEndsKeepsIt == ASSUME HostInv, WinHost!DisposeEnds PROVE HostInv'
  <1>1. /\ consumer.at = "disposing" /\ consumer' = [consumer EXCEPT !.at = "ended"] /\ used' = {}
        /\ \A s \in WinHost!Frame : sessions[s] = None
        /\ UNCHANGED <<script, next, reader, inbound, outstanding, sessions, process, identity, effect, answers, host>>
    BY DEF WinHost!DisposeEnds, WinHost!Goes, WinHost!world
  <1>2. host = "stopped" /\ inbound = <<>> /\ consumer.frame = 0
    BY <1>1 DEF HostInv, QueueInv, AtWork, Unanswered, UnderWay, Dispatched
  <1>3. /\ consumer' \in HostConsumer' /\ consumer'.at = "ended" /\ consumer'.frame = 0
        /\ consumer'.seen = consumer.seen
    BY <1>1, <1>2 DEF HostInv, HostType, HostConsumer
  <1>4. HostType'
    BY <1>1, <1>3 DEF HostInv, HostType, WinHost!Frame
  <1>5. \A s \in WinHost!Frame : process'[s] = "running" => sessions'[s] # None
    BY <1>1, <1>2, HostFrames DEF HostInv, TargetInv
  <1>6. QED
    BY <1>1, <1>2, <1>3, <1>4, <1>5, EndingKeeps

LEMMA HostStep == ASSUME HostInv, [WinHost!Next]_(WinHost!hostVars) PROVE HostInv'
  <1>1. CASE UNCHANGED WinHost!hostVars
    <2>1. UNCHANGED <<script, next, reader, inbound, outstanding, consumer, used, sessions, process, identity, effect, answers, host>>
      BY <1>1 DEF WinHost!hostVars, WinHost!world
    <2>2. HostType' /\ QueueInv' /\ TraceInv'
      BY <2>1 DEF HostInv, HostType, HostConsumer, QueueInv, TraceInv, IsPast, LeftTraces, WinHost!Frame
    <2>3. WinHost!IdHasOneAnswer'
      BY <2>1 DEF HostInv, IntakeInv, WinHost!IdHasOneAnswer, WinHost!Accepted, WinHost!Answered, WinHost!Range, WinHost!Frame
    <2>4. IntakeInv'
      BY <2>1, <2>3 DEF HostInv, IntakeInv, Registered, WinHost!Frame
    <2>5. QED
      BY <2>1, <2>2, <2>4, ReaderKeeps DEF HostInv
  <1>2. CASE WinHost!Next
    <2>1. CASE WinHost!ReadFrame \/ WinHost!Enqueue \/ WinHost!EndOfInput
      BY <2>1, ReadKeepsIt, EnqueueKeepsIt, EndOfInputKeepsIt
    <2>2. CASE \/ WinHost!Take \/ WinHost!Admit \/ WinHost!Submit \/ WinHost!Construct \/ WinHost!Write
               \/ WinHost!ReleaseOutstanding
      BY <2>2, TakeKeepsIt, AdmitKeepsIt, SubmitKeepsIt, ConstructKeepsIt, WriteKeepsIt, ReleaseOutstandingKeepsIt
    <2>3. CASE WinHost!Launch \/ WinHost!Window \/ WinHost!Attach \/ WinHost!End \/ WinHost!Ending \/ WinHost!Release
      BY <2>3, LaunchKeepsIt, WindowKeepsIt, AttachKeepsIt, EndKeepsIt, EndingKeepsIt, ReleaseKeepsIt
    <2>4. CASE WinHost!Find \/ WinHost!Commit \/ WinHost!Check \/ WinHost!Perform \/ WinHost!ObserveAfter
      BY <2>4, FindKeepsIt, CommitKeepsIt, CheckKeepsIt, PerformKeepsIt, ObserveAfterKeepsIt
    <2>5. CASE \/ WinHost!Interrupt \/ WinHost!Stop \/ WinHost!DisposeEnds
               \/ \E f \in WinHost!Frame : WinHost!DisposeSession(f) \/ WinHost!Exits(f)
               \/ \E e \in HostElement : WinHost!Changes(e)
      BY <2>5, InterruptKeepsIt, StopKeepsIt, DisposeEndsKeepsIt, DisposeSessionKeepsIt, ExitsKeepsIt, ChangesKeepsIt
    <2>6. QED
      BY <1>2, <2>1, <2>2, <2>3, <2>4, <2>5 DEF WinHost!Next
  <1>3. QED
    BY <1>1, <1>2

LEMMA HostHolds == ASSUME HostInv PROVE WinHost!HostIsTrue
  <1>1. /\ Len(script) \in Nat /\ WinHost!Frame = 1 .. Len(script) /\ WinHost!Requests \subseteq WinHost!Frame
        /\ \A f \in WinHost!Answered \cap WinHost!Requests :
             /\ f \in WinHost!Frame /\ answers[f] \in HostReply
             /\ Sound(f, answers[f])
    <2>1. \A f \in WinHost!Answered \cap WinHost!Requests : f \in WinHost!Frame /\ answers[f] # None
      BY DEF WinHost!Answered, WinHost!Requests
    <2>2. \A f \in WinHost!Frame : answers[f] # None => answers[f] \in HostReply
      BY DEF HostInv, HostType
    <2>3. QED
      BY <2>1, <2>2, HostFrames DEF HostInv, AnswerInv, WinHost!Requests
  <1>2. WinHost!OutcomeIsTrue
    BY <1>1 DEF WinHost!OutcomeIsTrue, Sound, WinHost!Observes
  <1>3. WinHost!OperationIsDoneOnce
    <2>1. SUFFICES ASSUME NEW g \in WinHost!Requests, NEW f \in WinHost!Requests, SameOperation(g, f), effect[g] # "nothing"
                   PROVE  /\ effect[f] = "nothing"
                          /\ f \in WinHost!Answered /\ WinHost!Repeats(f, g) /\ answers[f].retry = "safe" => WinHost!Hopeless(f)
      BY DEF WinHost!OperationIsDoneOnce, SameOperation
    <2>2. effect[f] = "nothing"
      BY <1>1, <2>1 DEF HostInv, EffectInv
    <2>3. f \in WinHost!Answered /\ WinHost!Repeats(f, g) /\ answers[f].retry = "safe" => WinHost!Hopeless(f)
      BY <1>1, <2>1 DEF Sound
    <2>4. QED
      BY <2>2, <2>3
  <1>4. WinHost!IdHasOneAnswer
    BY DEF HostInv, IntakeInv
  <1>5. WinHost!TargetsAreKept
    <2>1. \A s \in WinHost!Frame : process[s] = "running" => sessions[s] # None \/ consumer.frame = s
      BY DEF HostInv, TargetInv
    <2>2. \A s, t \in WinHost!Running : script[s].name = script[t].name => s = t
      BY DEF HostInv, TargetInv
    <2>3. \A f \in WinHost!Answered \cap WinHost!Requests : answers[f].ok /\ script[f].call = "end" => process[script[f].on] # "running"
      <3>1. ASSUME NEW f \in WinHost!Answered \cap WinHost!Requests, answers[f].ok, script[f].call = "end"
            PROVE  process[script[f].on] # "running"
        <4>1. answers[f].ok = TRUE
          BY <1>1, <3>1 DEF HostReply
        <4>2. QED
          BY <1>1, <3>1, <4>1 DEF Sound
      <3>2. QED
        BY <3>1
    <2>4. consumer.at = "ended" => \A s \in WinHost!Frame : process[s] # "running"
      <3>1. ASSUME consumer.at = "ended", NEW s \in WinHost!Frame PROVE process[s] # "running"
        <4>1. sessions[s] = None /\ consumer.at # "window"
          BY <3>1 DEF HostInv, QueueInv
        <4>2. QED
          BY <4>1 DEF HostInv, TargetInv
      <3>2. QED
        BY <3>1
    <2>5. QED
      BY <2>1, <2>2, <2>3, <2>4 DEF WinHost!TargetsAreKept
  <1>6. WinHost!HandlesAreOne
    BY DEF HostInv, HandleInv, WinHost!HandlesAreOne
  <1>7. QED
    BY <1>2, <1>3, <1>4, <1>5, <1>6 DEF WinHost!HostIsTrue

\* What the host answers is true of what was done: a request it calls not executed has left no
\* effect, one it calls executed is done, an operation is done once however often it is asked
\* for, and a RuntimeId has one handle.  A target that runs is of a session or a launch at work,
\* two that run have two names, and a disposal that no kill has cut short leaves none running
\* but those whose kill failed.  (NativeV1Dispatcher, OwnedProcessController, RequestDispatcher)
THEOREM HostStaysTrue == Spec => []HostIsTrue
  <1> DEFINE Inv == picked = "host" => HostInv
  <1>1. Init => Inv
    BY HostStarts DEF Init
  <1>2. Inv /\ [Next]_allVars => Inv'
    BY OneIsPicked, HostStep
  <1>3. Inv => HostIsTrue
    BY HostHolds DEF HostIsTrue
  <1> HIDE DEF Inv
  <1>4. QED
    BY <1>1, <1>2, <1>3, PTL DEF Spec
=============================================================================
