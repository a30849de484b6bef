--------------------------- MODULE FixtureRuntime ---------------------------
(***************************************************************************)
(* packages/core FixtureRuntime: a worker runtime and its test scopes share *)
(* one coordinator, which does one use or close after the other.  A use     *)
(* sets up what its fixture depends on first and undoes what it did when a  *)
(* setup fails; a close tears down in the reverse order.                    *)
(***************************************************************************)
EXTENDS Naturals, Sequences

CONSTANTS Fixture,
          WorkerFixture,  \* those with worker scope, the others have test scope
          DependsOn,      \* DependsOn[f]: the declared dependencies, in order
          Test, Worker,   \* the test scopes and the worker runtime
          MaxQueue        \* bound: calls that wait

\* WorkerFixture is a subset of Fixture, DependsOn[f] a sequence of fixtures.

Runtime == Test \cup {Worker}

VARIABLES
  order,  \* order[r]: the fixtures r holds, as they were set up
  mode,   \* mode[r]: whether r accepts work
  queue,  \* the calls the coordinator has accepted, the first one being done
  doing,  \* what it does for that one
  stack,  \* the fixtures being resolved for it, the innermost last
  mark    \* how many fixtures a rollback leaves its target

fixtureVars == <<order, mode, queue, doing, stack, mark>>
Nobody == "nobody"   \* used by a close; the runtime of what no runtime can hold

TypeOK == /\ order \in [Runtime -> Seq(Fixture)]
          /\ mode \in [Runtime -> {"unborn", "open", "closing", "closed"}]
          /\ queue \in Seq([at : Runtime, uses : Fixture \cup {Nobody}])
          /\ doing \in {"nothing", "resolving", "undoing"}
          /\ stack \in Seq([at : Runtime \cup {Nobody}, fixture : Fixture])
          /\ mark \in Nat

Init == /\ order = [r \in Runtime |-> <<>>]
        /\ mode = [r \in Runtime |-> IF r = Worker THEN "open" ELSE "unborn"]
        /\ queue = <<>> /\ doing = "nothing" /\ stack = <<>> /\ mark = 0

Holds(r, f) == \E i \in DOMAIN order[r] : order[r][i] = f
Children == {t \in Test : mode[t] \in {"open", "closing"}}

RuntimeFor(r, f) == IF f \in WorkerFixture THEN Worker ELSE IF r = Worker THEN Nobody ELSE r
-----------------------------------------------------------------------------
(* Calls: a runtime that closes accepts none                               *)

Enqueue(r, f) == /\ mode[r] = "open" /\ Len(queue) < MaxQueue
                 /\ queue' = Append(queue, [at |-> r, uses |-> f])
                 /\ UNCHANGED <<order, doing, stack, mark>>

CreateTestScope(t) == /\ mode[Worker] = "open" /\ mode[t] = "unborn"
                      /\ mode' = [mode EXCEPT ![t] = "open"]
                      /\ UNCHANGED <<order, queue, doing, stack, mark>>

Use(r, f) == Enqueue(r, f) /\ UNCHANGED mode

\* Mutant: the worker does not wait for its test scopes.
Close_Early(r) == Enqueue(r, Nobody) /\ mode' = [mode EXCEPT ![r] = "closing"]

Close(r) == /\ Enqueue(r, Nobody)
            /\ r = Worker => Children = {}
            /\ mode' = [mode EXCEPT ![r] = "closing"]
-----------------------------------------------------------------------------
(* The coordinator                                                         *)

Job == Head(queue)
Target == IF Job.uses = Nobody THEN Job.at ELSE RuntimeFor(Job.at, Job.uses)
Innermost == stack[Len(stack)]
Pop(s) == SubSeq(s, 1, Len(s) - 1)

\* A use that no runtime can serve is rejected before there is anything to undo.
Begin == /\ queue # <<>> /\ doing = "nothing"
         /\ IF Target = Nobody
              THEN queue' = Tail(queue) /\ UNCHANGED <<doing, stack, mark>>
              ELSE /\ IF Job.uses = Nobody
                        THEN doing' = "undoing" /\ mark' = 0 /\ UNCHANGED stack
                        ELSE /\ doing' = "resolving" /\ mark' = Len(order[Target])
                             /\ stack' = <<[at |-> Target, fixture |-> Job.uses]>>
                   /\ UNCHANGED queue
         /\ UNCHANGED <<order, mode>>

\* resolve: a dependency that is not there yet comes before its dependent; one that
\* is being resolved already, or that its runtime cannot hold, fails the use.
Dependencies == DependsOn[Innermost.fixture]
IsThere(d) == RuntimeFor(Innermost.at, d) # Nobody /\ Holds(RuntimeFor(Innermost.at, d), d)
Missing == {i \in DOMAIN Dependencies : ~IsThere(Dependencies[i])}
Cyclic == \E i \in 1 .. Len(stack) - 1 : stack[i].fixture = Innermost.fixture
Unresolved == doing = "resolving" /\ stack # <<>>

Descend == /\ Unresolved /\ Innermost.at # Nobody /\ ~Cyclic
           /\ ~Holds(Innermost.at, Innermost.fixture)
           /\ \E i \in Missing :
                /\ \A j \in Missing : i <= j
                /\ stack' = Append(stack, [at |-> RuntimeFor(Innermost.at, Dependencies[i]),
                                           fixture |-> Dependencies[i]])
           /\ UNCHANGED <<order, mode, queue, doing, mark>>

SetUp == /\ Unresolved /\ Innermost.at # Nobody /\ ~Cyclic
         /\ Missing = {} \/ Holds(Innermost.at, Innermost.fixture)
         /\ order' = IF Holds(Innermost.at, Innermost.fixture) THEN order
                     ELSE [order EXCEPT ![Innermost.at] = Append(@, Innermost.fixture)]
         /\ stack' = Pop(stack)
         /\ IF Len(stack) = 1 THEN doing' = "nothing" /\ queue' = Tail(queue)
                              ELSE UNCHANGED <<doing, queue>>
         /\ UNCHANGED <<mode, mark>>

SetUpFails == /\ Unresolved
              /\ ~(Innermost.at # Nobody /\ Holds(Innermost.at, Innermost.fixture))
              /\ Innermost.at = Nobody \/ Cyclic \/ Missing = {}
              /\ doing' = "undoing" /\ stack' = <<>>
              /\ UNCHANGED <<order, mode, queue, mark>>

\* rollback: the last one first; a teardown that fails does not stop it.
TearDown == /\ doing = "undoing" /\ Len(order[Target]) > mark
            /\ order' = [order EXCEPT ![Target] = Pop(@)]
            /\ UNCHANGED <<mode, queue, doing, stack, mark>>

Undone == /\ doing = "undoing" /\ Len(order[Target]) <= mark
          /\ doing' = "nothing" /\ queue' = Tail(queue)
          /\ mode' = IF Job.uses = Nobody THEN [mode EXCEPT ![Job.at] = "closed"] ELSE mode
          /\ UNCHANGED <<order, stack, mark>>

Next == \/ \E t \in Test : CreateTestScope(t)
        \/ \E r \in Runtime : Close(r) \/ \E f \in Fixture : Use(r, f)
        \/ Begin \/ Descend \/ SetUp \/ SetUpFails \/ TearDown \/ Undone
-----------------------------------------------------------------------------
(* Properties                                                              *)

\* A fixture is there while one that depends on it is, in its own runtime or in the
\* worker's: it was set up before and is torn down after, whatever fails or closes
\* in between; and a closed runtime holds none.
DependentsFirst ==
  \A r \in Runtime :
    /\ mode[r] = "closed" => order[r] = <<>>
    /\ \A i \in DOMAIN order[r] : \A k \in DOMAIN DependsOn[order[r][i]] :
         LET d == DependsOn[order[r][i]][k]
         IN  IF d \in WorkerFixture /\ r # Worker THEN Holds(Worker, d)
                                                  ELSE \E j \in 1 .. i - 1 : order[r][j] = d
=============================================================================
