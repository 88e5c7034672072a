--------------------------- MODULE DependencyGraph ---------------------------
(***************************************************************************)
(* The dependency graphs of work plans and of change sets: the checks a    *)
(* graph passes before anything is stored about it, and the layers it is   *)
(* carried out in.  A graph is a function from its nodes to the nodes each *)
(* depends on, so that identities and edges are unique by construction;    *)
(* a dependency may still name a node that is not there.                   *)
(***************************************************************************)
EXTENDS FiniteSets, Sequences

TargetsExist(deps) == \A n \in DOMAIN deps : deps[n] \subseteq DOMAIN deps

NoSelfEdge(deps) == \A n \in DOMAIN deps : n \notin deps[n]

\* The depth-first visit, from the nodes that are off its path: the nodes it
\* accepts are those it does not meet again below themselves.
Visit(deps) ==
  LET visit[off \in SUBSET DOMAIN deps] == {n \in off : deps[n] \subseteq visit[off \ {n}]}
  IN  visit

IsAcyclic(deps) == Visit(deps)[DOMAIN deps] = DOMAIN deps

IsDependencyGraph(deps) == TargetsExist(deps) /\ NoSelfEdge(deps) /\ IsAcyclic(deps)

\* What no remaining node holds back.
Ready(deps, left) == {n \in left : deps[n] \cap left = {}}

\* Layer after layer; a cycle leaves no layer at all.
LayersOf(deps) ==
  LET from[left \in SUBSET DOMAIN deps] ==
        IF Ready(deps, left) = {} THEN <<>>
        ELSE <<Ready(deps, left)>> \o from[left \ Ready(deps, left)]
  IN  from

Layers(deps) ==
  LET all == LayersOf(deps)[DOMAIN deps]
  IN  IF UNION {all[i] : i \in DOMAIN all} = DOMAIN deps THEN all ELSE <<>>

\* What a node waits for, directly or through others: the least set that holds its
\* dependencies and theirs.
Closed(deps, S) == \A n \in S : deps[n] \subseteq S

Ancestors(deps) ==
  [n \in DOMAIN deps |->
     {a \in DOMAIN deps : \A S \in SUBSET DOMAIN deps : deps[n] \subseteq S /\ Closed(deps, S) => a \in S}]
=============================================================================
