-------------------------- MODULE EvidenceContext --------------------------
(***************************************************************************)
(* packages/core defineEvidenceContext: a declared graph of evidence is     *)
(* accepted when its nodes have their parents, its relations join nodes     *)
(* that may be joined and no relation leads back to where it came from.     *)
(* The last is found by counting, one node after the other.                 *)
(***************************************************************************)
EXTENDS Integers, FiniteSets

CONSTANTS Nodes,     \* the sets of declared nodes: a reference with its source; a reference
                     \* has a kind, a case and, as its kind has them, an attempt, a run and its own id
          Relations  \* the sets of declared relations: an id, the relation, from and to

VARIABLES graph,     \* what is declared: its case, nodes and relations, and what its value is like
          indegree,  \* the relations into a node that are still counted
          ready,     \* the nodes none leads to
          visited,
          verdict

evidenceVars == <<graph, indegree, ready, visited, verdict>>

\* A value may run code when it is read, contain itself or be too large; a field may
\* be missing, unknown or not an identifier.
Value == {"sound", "notData", "malformed"}

Init == /\ graph = <<>>
        /\ indegree = <<>> /\ ready = {} /\ visited = {} /\ verdict = "none"
-----------------------------------------------------------------------------
(* The checks that come before                                             *)

Declared == {n.ref : n \in graph.nodes}
Ends(e) == {e.from, e.to}

SnapshotData == graph.value # "notData"
WellFormed == graph.value # "malformed"

\* Identities: one node for a reference, all of the context's case, the case among them.
NodesAreDistinct ==
  /\ \A m, n \in graph.nodes : m.ref = n.ref => m = n
  /\ \A r \in Declared : r.case = graph.case
  /\ \E r \in Declared : r.kind = "caseExecution"

\* validateParents
Parent(r, kind) == \E p \in Declared : /\ p.kind = kind /\ p.attempt = r.attempt
                                     /\ kind = "agentRun" => p.run = r.run
HasParents == \A r \in Declared :
  /\ r.kind # "caseExecution" => Parent(r, "attempt")
  /\ r.kind = "toolCall" => Parent(r, "agentRun")

CompatibleAttempt(e) == \/ "caseExecution" \in {r.kind : r \in Ends(e)}
                        \/ e.from.attempt = e.to.attempt

Working == {"step", "agentRun", "toolCall"}
ValidRelationEndpoints(e) ==
  LET from == e.from.kind  to == e.to.kind
  IN CASE e.relation = "contains" -> \/ from = "caseExecution" /\ to = "attempt"
                                     \/ from = "attempt" /\ to \in {"step", "agentRun", "artifact"}
                                     \/ from = "agentRun" /\ to = "toolCall"
       [] e.relation \in {"produced", "observedBy"} -> from \in Working /\ to = "artifact"
       [] e.relation = "attachedTo" -> from = "artifact" /\ to \in Working \cup {"attempt"}
       [] OTHER -> from \in Working \cup {"artifact"} /\ to \in Working \cup {"artifact"}

RelationsAreValid ==
  /\ \A e \in graph.relations : /\ Ends(e) \subseteq Declared /\ CompatibleAttempt(e)
                               /\ ValidRelationEndpoints(e)
  /\ \A e, f \in graph.relations :
       e.id = f.id \/ <<e.relation, e.from, e.to>> = <<f.relation, f.from, f.to>> => e = f

\* A context is declared, with whatever is in it.
Declare == /\ verdict = "none" /\ verdict' = "declared"
           /\ graph' \in [case : {"c1"}, value : Value, nodes : Nodes, relations : Relations]
           /\ UNCHANGED <<indegree, ready, visited>>

\* What passes every check is counted.
Define == /\ verdict = "declared"
          /\ IF SnapshotData /\ WellFormed /\ NodesAreDistinct /\ HasParents /\ RelationsAreValid
               THEN LET joined == UNION {Ends(e) : e \in graph.relations} IN
                      /\ indegree' = [r \in joined |-> Cardinality({e \in graph.relations : e.to = r})]
                      /\ ready' = {r \in joined : indegree'[r] = 0}
                      /\ verdict' = "counting"
               ELSE verdict' = "rejected" /\ UNCHANGED <<indegree, ready>>
          /\ UNCHANGED <<graph, visited>>
-----------------------------------------------------------------------------
(* rejectCycles                                                            *)

\* Mutant: a node is ready as soon as one relation into it is gone.
Visit_Eager(r) ==
  /\ r \in ready
  /\ indegree' = [x \in DOMAIN indegree |->
                    indegree[x] - Cardinality({e \in graph.relations : e.from = r /\ e.to = x})]
  /\ ready' = (ready \ {r}) \cup {x \in DOMAIN indegree : indegree'[x] < indegree[x] /\ x \notin visited}
  /\ visited' = visited \cup {r}
  /\ UNCHANGED <<graph, verdict>>

Visit(r) ==
  /\ r \in ready
  /\ indegree' = [x \in DOMAIN indegree |->
                    indegree[x] - Cardinality({e \in graph.relations : e.from = r /\ e.to = x})]
  /\ ready' = (ready \ {r}) \cup {x \in DOMAIN indegree : indegree'[x] = 0 /\ indegree[x] > 0}
  /\ visited' = visited \cup {r}
  /\ UNCHANGED <<graph, verdict>>

Decide == /\ verdict = "counting" /\ ready = {}
          /\ verdict' = IF visited = DOMAIN indegree THEN "accepted" ELSE "rejected"
          /\ UNCHANGED <<graph, indegree, ready, visited>>

Next == Declare \/ Define \/ Decide \/ \E r \in ready : Visit(r)
-----------------------------------------------------------------------------
(* Properties                                                              *)

\* A set of nodes each of which has a relation from one of them: a cycle, or what
\* hangs from one.
Unfounded == \E S \in SUBSET Declared : /\ S # {}
                                       /\ \A r \in S : \E e \in graph.relations : e.to = r /\ e.from \in S

\* The count is right: a graph is rejected as cyclic exactly if it has a cycle, in
\* whatever order the nodes are visited; and nothing else that is wrong is accepted.
AcceptedIsFounded ==
  /\ verdict = "accepted" => /\ graph.value = "sound" /\ NodesAreDistinct /\ HasParents /\ RelationsAreValid
                             /\ ~Unfounded
  /\ verdict = "rejected" /\ indegree # <<>> => Unfounded
=============================================================================
