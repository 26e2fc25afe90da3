-------------------------- MODULE MCBuildLifecycle --------------------------
(***************************************************************************)
(* Two calls of main in one process, with plugins and a build.py that come *)
(* with up to two initializers and two finalizers each, two tasks, one     *)
(* environment, and command lines of up to three tasks.                    *)
(***************************************************************************)
EXTENDS BuildLifecycle

CONSTANTS a, b, env

MCTask == {a, b}
MCEnvironment == {env}
MCDefaults == {<<>>, <<a>>, <<a, b, a>>}

I(e, s) == [environments |-> e, sets |-> s]
F(e) == [environments |-> e]
MCContributions ==
  {[initializers |-> <<>>, finalizers |-> <<>>],
   [initializers |-> <<I({}, "if_unset"), I({env}, "always")>>, finalizers |-> <<F({})>>],
   [initializers |-> <<I({env}, "nothing")>>, finalizers |-> <<F({}), F({env})>>]}

Plain(t) == [op |-> "plain", name |-> t]
Plus(t) == [op |-> "append", name |-> t]
Minus(t) == [op |-> "remove", name |-> t]
MCRequests ==
  {<<>>, <<Plain(a)>>, <<Minus(a)>>, <<Plus(b), Minus(a)>>, <<Minus(b), Plus(b)>>,
   <<Plain(b), Minus(a)>>, <<Plain(a), Plain(a), Minus(a)>>, <<Plain(b), Plus(a), Plus(b)>>,
   <<Minus(a), Minus(a), Minus(a)>>}

=============================================================================
