--------------------------- MODULE MCTaskRegistry ---------------------------
(***************************************************************************)
(* Builds of two modules, a plugin and build.py, over two tasks and a name *)
(* that no module registers. A module declares at most two edges, in the   *)
(* one way or the other; all builds of such modules are checked.           *)
(***************************************************************************)
EXTENDS TaskRegistry

CONSTANTS compile, package, ghost, setUp, tearDown

MCName == {compile, package, ghost}
MCLabel == {setUp, tearDown}

Deps(n) == {<<[name |-> n, optional |-> o]>> : o \in BOOLEAN}

Declarations(n, lists) == {[name |-> n, deps |-> l] : l \in lists}

\* The tasks of a module: none, one of the two, or one name twice.
TaskLists ==
  {<<>>}
  \cup {<<d>> : d \in Declarations(compile, {<<>>} \cup Deps(package))}
  \cup {<<d>> : d \in Declarations(package, {<<>>} \cup Deps(compile) \cup Deps(ghost))}
  \cup {<<d, e>> : d, e \in Declarations(compile, Deps(package))}

Injections(l) ==
  {<<>>} \cup
  {<<[task |-> t, on |-> l[i].name, optional |-> o]>> :
     t \in MCName, i \in DOMAIN l, o \in BOOLEAN}

GraphModules ==
  UNION {{[dependents |-> d, tasks |-> l, actions |-> <<>>] : d \in Injections(l)} : l \in TaskLists}

Labelled(n, bs, as) == [name |-> n, before |-> bs, after |-> as]

ActionLists ==
  { <<>>,
    <<Labelled(setUp, <<compile>>, <<package, compile>>)>>,
    <<Labelled(setUp, <<package, compile, compile>>, <<>>)>>,
    <<Labelled(setUp, <<ghost>>, <<>>)>>,
    <<Labelled(tearDown, <<>>, <<compile, ghost>>)>>,
    <<Labelled(setUp, <<compile>>, <<>>), Labelled(tearDown, <<>>, <<compile, package>>)>> }

BothTasks == <<[name |-> compile, deps |-> <<>>], [name |-> package, deps |-> <<>>]>>

ActionModules ==
  {[dependents |-> <<>>, tasks |-> l, actions |-> x] : l \in {BothTasks, <<>>}, x \in ActionLists}

Pairs(M) == {<<m1, m2>> : m1, m2 \in M}

MCBuilds == Pairs(GraphModules) \cup Pairs(ActionModules)

=============================================================================
