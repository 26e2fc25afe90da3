------------------------- MODULE MCDeferredPlugins -------------------------
(***************************************************************************)
(* build.py and three plugins: core, which is built in, remote, which has  *)
(* to be downloaded and brings a package with it, and odd, of any kind. A  *)
(* module has up to three statements.                                      *)
(***************************************************************************)
EXTENDS DeferredPlugins

CONSTANTS core, remote, odd, lib, build

MCPlugin == {core, remote, odd}
MCPackage == {lib}
MCProvides == [p \in MCPlugin |-> IF p = remote THEN {lib} ELSE {}]

Use(p) == [op |-> "use", name |-> p, guard |-> "none"]
Import(g) == [op |-> "import", name |-> lib, guard |-> g]

Kinds ==
  {[p \in MCPlugin |-> IF p = core THEN "builtin" ELSE IF p = remote THEN "download" ELSE k] :
     k \in {"builtin", "outdated", "absent", "unsupported"}}

Descriptors ==
  {<<Use(core)>>, <<Use(core), Use(odd)>>, <<Use(odd), Use(core), Use(remote)>>}
  \cup {<<Use(remote), Import(g), Use(core)>> : g \in Guard}
  \cup {<<Use(odd), Import(g), Use(remote)>> : g \in {"ImportError", "Exception"}}
  \cup {<<Use(remote), Import("ImportError"), Import("none")>>}

CoreScripts ==
  {<<>>, <<Use(remote)>>, <<Use(odd), Import("none")>>, <<Import("ImportError"), Use(remote)>>}

RemoteScripts == {<<>>, <<Use(odd)>>, <<Use(core), Import("none")>>}

OddScripts == {<<>>, <<Use(core), Use(remote)>>, <<Use(remote), Import("none")>>, <<Use(odd)>>}

Scripts ==
  {[x \in MCPlugin \cup {build} |->
      CASE x = build -> d [] x = core -> c [] x = remote -> r [] x = odd -> o] :
     d \in Descriptors, c \in CoreScripts, r \in RemoteScripts, o \in OddScripts}

MCWorlds == {[kind |-> k, script |-> s] : k \in Kinds, s \in Scripts}

=============================================================================
