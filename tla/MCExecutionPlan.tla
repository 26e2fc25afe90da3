-------------------------- MODULE MCExecutionPlan --------------------------
(***************************************************************************)
(* Every dependency graph over three tasks, each edge absent, optional or  *)
(* required, with up to one excluded task of each kind; and bug candidates *)
(* for ExecutionPlan's definitions.                                        *)
(***************************************************************************)
EXTENDS ExecutionPlan

CONSTANTS a, b, c, unknown

MCTask == {a, b, c}
MCName == MCTask \cup {unknown}

\* Dependencies in registration order: the order in which they are declared
\* is a permutation that requests and graphs already range over.
InOrder(t, edges) ==
  LET names == SelectSeq(<<a, b, c>>, LAMBDA u : edges[u] # "none")
  IN  [i \in DOMAIN names |-> [name |-> names[i], optional |-> edges[names[i]] = "optional"]]

Edges == [MCTask -> {"none", "optional", "required"}]

\* No self dependency except one on c: enough to meet a trivial cycle.
Graphs ==
  {[t \in MCTask |-> InOrder(t, g[t])] :
     g \in {h \in [MCTask -> Edges] : h[a][a] = "none" /\ h[b][b] = "none"}}

Requests == {<<a>>, <<c, a, c>>, <<b, unknown>>}

MCProjects ==
  [ deps : Graphs, excludeOptional : {{}, {b}}, exclude : {{}, {c}},
    excludeAllOptional : {FALSE}, requested : Requests ]
  \cup
  [ deps : Graphs, excludeOptional : {{}}, exclude : {{b}},
    excludeAllOptional : BOOLEAN, requested : {<<a>>} ]

=============
