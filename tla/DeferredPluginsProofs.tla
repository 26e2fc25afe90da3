----------------------- MODULE DeferredPluginsProofs -----------------------
(***************************************************************************)
(* For any number of plugins, any tree of them and any failures: loading   *)
(* imports every plugin before an import is tried again, and the plugins   *)
(* collected in the end are those build.py leads to, once each.            *)
(*                                                                         *)
(* The strengthening says how far a pass has come. The entries it has gone *)
(* past lie in a set of imported plugins that is closed under the entries  *)
(* below (Done). If the tree has not changed when the pass ends, this set  *)
(* has all entries of the root and so, the tree having no part that hangs  *)
(* in the air (Rooted), all plugins.                                       *)
(***************************************************************************)
EXTENDS DeferredPlugins, SequenceTheorems, TLAPS

Loading == phase \in {"visit", "install", "script"}

\* The entry a generator is at.
At(k) == walk[k].items[walk[k].at]

Shape ==
  /\ walk = <<>> <=> phase \in {"descriptor", "retry", "collected", "failed"}
  /\ \A k \in DOMAIN walk : k < Len(walk) => walk[k].below
  /\ \A k \in DOMAIN walk : walk[k].below => walk[k].at <= Len(walk[k].items)
  /\ phase \in {"install", "script"} => Innermost.at <= Len(Innermost.items) /\ stack = <<Entry>>
  /\ phase \notin {"install", "script"} => stack = <<>>

Known ==
  /\ Elements(pending) \subseteq Elements(plugins)
  /\ imported \subseteq Elements(plugins)
  /\ \A k \in DOMAIN walk : Elements(walk[k].items) \subseteq Elements(plugins)

UsedBefore(x, i) ==
  \A j \in DOMAIN world.script[x] :
    j < i /\ world.script[x][j].op = "use" => world.script[x][j].name \in Elements(plugins)

Progress ==
  /\ UsedBefore(Root, line)
  /\ phase = "script" => UsedBefore(Entry, step)
  /\ \A p \in imported : Uses(p) \subseteq Elements(plugins) /\ modules[p] = p
  /\ phase = "retry" \/ (Loading /\ by = "import") =>
       line <= Len(world.script[Root]) /\ Line.op = "import"
  /\ phase \in {"collect", "collected"} \/ (Loading /\ by = "prepare") =>
       line > Len(world.script[Root])

\* No part of the tree hangs in the air.
Rooted ==
  \A S \in SUBSET Plugin :
    Elements(children[Root]) \subseteq S /\ (\A p \in S : Elements(children[p]) \subseteq S)
      => Elements(plugins) \subseteq S

\* The order in which plugins were required.
Before(p, q) == \E i, j \in DOMAIN plugins : i < j /\ p = plugins[i] /\ q = plugins[j]

Order ==
  /\ \A i, j \in DOMAIN plugins : plugins[i] = plugins[j] => i = j
  /\ \A p \in Plugin : \A q \in Elements(children[p]) : Before(p, q)

\* The generators are those of the entries as they are now.
Nested ==
  /\ walk[1].items = children[Root]
  /\ \A k \in DOMAIN walk : k > 1 => walk[k].items = children[At(k - 1)]

\* D has the entries gone past and those below.
Done(D) ==
  /\ \A p \in D : Elements(children[p]) \subseteq D
  /\ \A k \in DOMAIN walk : \A i \in DOMAIN walk[k].items :
       i < walk[k].at => walk[k].items[i] \in D
  /\ Innermost.below \/ phase \in {"install", "script"} => Elements(children[Entry]) \subseteq D

Pass ==
  /\ seen <= mods
  /\ Loading /\ seen = mods => Nested /\ \E D \in SUBSET imported : Done(D)
  /\ phase \in {"retry", "collect", "collected"} => Elements(plugins) \subseteq imported

\* What has been collected was gone past.
Placed(p) ==
  \/ \E k \in DOMAIN walk : \E i \in DOMAIN walk[k].items :
       i < walk[k].at /\ walk[k].items[i] = p
  \/ \E q \in Elements(collected) : p \in Elements(children[q])
  \/ Innermost.below /\ p \in Elements(children[Entry])

\* An entry was required before those below it.
Path ==
  \A j, k \in DOMAIN walk : j < k => \A q \in Elements(walk[k].items) : Before(At(j), q)

\* What is ahead has not been collected.
Fresh ==
  \A k \in DOMAIN walk : \A i \in DOMAIN walk[k].items :
    i >= walk[k].at => walk[k].items[i] \notin Elements(collected)

CollectState ==
  /\ Nested
  /\ Path
  /\ Fresh
  /\ Done(Elements(collected))
  /\ \A p \in Elements(collected) : Placed(p)

Collection ==
  /\ phase \notin {"collect", "collected"} => collected = <<>>
  /\ Elements(collected) \subseteq Elements(plugins)
  /\ \A i, j \in DOMAIN collected : collected[i] = collected[j] => i = j
  /\ phase = "collect" => CollectState
  /\ phase = "collected" => Elements(plugins) \subseteq Elements(collected)

IInv ==
  /\ TypeOK
  /\ Shape
  /\ Known
  /\ OnePlaceEach
  /\ InstalledBefore
  /\ Progress
  /\ Rooted
  /\ Order
  /\ Pass
  /\ Collection
  /\ UsedFirst
  /\ FailureIsJustified

----------------------------------------------------------------------------
(* Lemmas about sequences *)

LEMMA ElementsAppend ==
  ASSUME NEW S, NEW s \in Seq(S), NEW e \in S
  PROVE  /\ Append(s, e) \in Seq(S)
         /\ Elements(Append(s, e)) = Elements(s) \cup {e}
<1>1. /\ Append(s, e) \in Seq(S) /\ Len(Append(s, e)) = Len(s) + 1
      /\ \A i \in 1..Len(s) : Append(s, e)[i] = s[i]
      /\ Append(s, e)[Len(s) + 1] = e
  OBVIOUS
<1>2. DOMAIN s = 1..Len(s) /\ DOMAIN Append(s, e) = 1..(Len(s) + 1) /\ Len(s) \in Nat
  BY <1>1
<1> QED
  BY <1>1, <1>2 DEF Elements

LEMMA ElementsOf ==
  ASSUME NEW S, NEW s \in Seq(S)
  PROVE  /\ Elements(s) \subseteq S
         /\ Elements(s) = {} <=> s = <<>>
<1>1. Elements(s) \subseteq S
  BY DEF Elements
<1>2. s # <<>> => s[1] \in Elements(s)
  BY EmptySeq DEF Elements
<1>3. Elements(<<>>) = {}
  BY DEF Elements
<1> QED
  BY <1>1, <1>2, <1>3

LEMMA Cut ==
  ASSUME NEW S, NEW s \in Seq(S), Len(s) > 1
  PROVE  LET t == SubSeq(s, 1, Len(s) - 1)
         IN  /\ t \in Seq(S)
             /\ Len(t) = Len(s) - 1
             /\ DOMAIN t = 1..(Len(s) - 1)
             /\ \A k \in DOMAIN t : t[k] = s[k]
OBVIOUS

----------------------------------------------------------------------------
(* Lemmas about the generators *)

LEMMA Typed ==
  ASSUME TypeOK
  PROVE  /\ walk \in Seq(Generator) /\ Len(walk) \in Nat /\ DOMAIN walk = 1..Len(walk)
         /\ \A k \in DOMAIN walk :
              /\ walk[k] \in Generator
              /\ walk[k].items \in Seq(Plugin)
              /\ Len(walk[k].items) \in Nat
              /\ DOMAIN walk[k].items = 1..Len(walk[k].items)
              /\ walk[k].at \in Nat \ {0}
              /\ walk[k].below \in BOOLEAN
         /\ walk # <<>> => Len(walk) \in DOMAIN walk
<1>1. walk \in Seq(Generator)
  BY DEF TypeOK
<1>2. \A k \in DOMAIN walk : walk[k] \in Generator
  BY <1>1
<1> QED
  BY <1>1, <1>2 DEF Generator

LEMMA TypedEntry ==
  ASSUME TypeOK, walk # <<>>, Innermost.at <= Len(Innermost.items)
  PROVE  /\ Entry \in Plugin
         /\ Entry \in Elements(Innermost.items)
         /\ Innermost.at \in DOMAIN Innermost.items
BY Typed DEF Innermost, Entry, Elements

LEMMA Going ==
  ASSUME TypeOK, walk # <<>>, GoOn
  PROVE  /\ walk' \in Seq(Generator)
         /\ walk' # <<>>
         /\ Len(walk') = Len(walk)
         /\ DOMAIN walk' = DOMAIN walk
         /\ \A k \in DOMAIN walk : k < Len(walk) => walk'[k] = walk[k]
         /\ walk'[Len(walk)] =
              [items |-> Innermost.items, at |-> Innermost.at + 1, below |-> FALSE]
<1> DEFINE g == [items |-> Innermost.items, at |-> Innermost.at + 1, below |-> FALSE]
<1>1. walk \in Seq(Generator) /\ Len(walk) \in DOMAIN walk /\ Innermost \in Generator
  BY Typed DEF Innermost
<1>2. g \in Generator
  BY <1>1 DEF Generator
<1>3. walk' = [walk EXCEPT ![Len(walk)] = g]
  BY DEF GoOn
<1> HIDE DEF g
<1>4. /\ walk' \in Seq(Generator) /\ Len(walk') = Len(walk) /\ walk'[Len(walk)] = g
      /\ \A k \in DOMAIN walk : k < Len(walk) => walk'[k] = walk[k]
  BY <1>1, <1>2, <1>3, ExceptSeq
<1>5. DOMAIN walk' = DOMAIN walk /\ walk' # <<>>
  BY <1>1, <1>4, LenProperties
<1> QED
  BY <1>4, <1>5 DEF g

LEMMA Descending ==
  ASSUME TypeOK, Descend
  PROVE  /\ walk' \in Seq(Generator)
         /\ walk' # <<>>
         /\ Len(walk') = Len(walk) + 1
         /\ DOMAIN walk' = 1..(Len(walk) + 1)
         /\ \A k \in DOMAIN walk : k < Len(walk) => walk'[k] = walk[k]
         /\ walk'[Len(walk)] = [items |-> Innermost.items, at |-> Innermost.at, below |-> TRUE]
         /\ walk'[Len(walk) + 1] = [items |-> children[Entry], at |-> 1, below |-> FALSE]
<1> DEFINE g == [items |-> Innermost.items, at |-> Innermost.at, below |-> TRUE]
           h == [items |-> children[Entry], at |-> 1, below |-> FALSE]
<1>0. walk # <<>> /\ Innermost.at <= Len(Innermost.items)
  BY DEF Descend, AtEntry
<1>1. walk \in Seq(Generator) /\ Len(walk) \in DOMAIN walk /\ Innermost \in Generator
  BY Typed, <1>0 DEF Innermost
<1>2. Entry \in Plugin
  BY TypedEntry, <1>0
<1>3. g \in Generator /\ h \in Generator
  BY <1>1, <1>2 DEF Generator, TypeOK
<1>5. walk' = Append([walk EXCEPT ![Len(walk)] = g], h)
  BY DEF Descend, Traverse
<1> HIDE DEF g, h
<1> DEFINE w == [walk EXCEPT ![Len(walk)] = g]
<1>6. /\ w \in Seq(Generator) /\ Len(w) = Len(walk) /\ w[Len(walk)] = g
      /\ \A k \in DOMAIN walk : k < Len(walk) => w[k] = walk[k]
  BY <1>1, <1>3, ExceptSeq
<1>7. walk' = Append(w, h)
  BY <1>5
<1> HIDE DEF w
<1>8. /\ walk' \in Seq(Generator) /\ Len(walk') = Len(w) + 1 /\ walk'[Len(w) + 1] = h
      /\ \A k \in 1..Len(w) : walk'[k] = w[k]
  BY <1>3, <1>6, <1>7
<1>9. DOMAIN walk' = 1..(Len(walk) + 1) /\ walk' # <<>>
  BY <1>8, <1>6, LenProperties
<1>10. Len(walk) \in 1..Len(w) /\ DOMAIN walk = 1..Len(w)
  BY <1>1, <1>6, LenProperties
<1>11. /\ Len(walk') = Len(walk) + 1
       /\ \A k \in DOMAIN walk : k < Len(walk) => walk'[k] = walk[k]
       /\ walk'[Len(walk)] = g
       /\ walk'[Len(walk) + 1] = h
  BY <1>6, <1>8, <1>10
<1> QED
  BY <1>8, <1>9, <1>11 DEF g, h

LEMMA Ascending ==
  ASSUME TypeOK, Ascend
  PROVE  /\ Len(walk) > 1
         /\ Innermost.at > Len(Innermost.items)
         /\ walk' \in Seq(Generator)
         /\ walk' # <<>>
         /\ Len(walk') = Len(walk) - 1
         /\ DOMAIN walk' = 1..(Len(walk) - 1)
         /\ \A k \in DOMAIN walk' : walk'[k] = walk[k]
<1>1. walk \in Seq(Generator) /\ Len(walk) > 1 /\ Innermost.at > Len(Innermost.items)
  BY Typed DEF Ascend, AtEnd
<1>2. walk' = SubSeq(walk, 1, Len(walk) - 1)
  BY DEF Ascend
<1>3. Len(walk') # 0
  BY <1>1, <1>2, Cut
<1> QED
  BY <1>1, <1>2, <1>3, Cut

LEMMA Starting ==
  ASSUME TypeOK, walk' = <<Traverse(children[Root])>>
  PROVE  /\ walk' \in Seq(Generator)
         /\ walk' # <<>>
         /\ Len(walk') = 1
         /\ DOMAIN walk' = {1}
         /\ walk'[1] = [items |-> children[Root], at |-> 1, below |-> FALSE]
<1>1. Traverse(children[Root]) \in Generator
  BY DEF Traverse, Generator, TypeOK
<1> QED
  BY <1>1 DEF Traverse

----------------------------------------------------------------------------
(* Lemmas about the tree and the modules *)

LEMMA Required ==
  ASSUME TypeOK, NEW p \in Plugin, Here \in Plugin \cup {Root}, RequirePlugin(p)
  PROVE  /\ plugins' \in Seq(Plugin) /\ pending' \in Seq(Plugin)
         /\ children' \in [Plugin \cup {Root} -> Seq(Plugin)]
         /\ mods' \in Nat /\ modules' = modules
         /\ p \in Elements(plugins) => UNCHANGED tree
         /\ p \notin Elements(plugins) =>
              /\ plugins' = Append(plugins, p)
              /\ Elements(plugins') = Elements(plugins) \cup {p}
              /\ Elements(pending') = Elements(pending) \cup {p}
              /\ children'[Here] = Append(children[Here], p)
              /\ Elements(children'[Here]) = Elements(children[Here]) \cup {p}
              /\ \A x \in (Plugin \cup {Root}) \ {Here} : children'[x] = children[x]
              /\ mods' = mods + 1
<1>1. children[Here] \in Seq(Plugin)
  BY DEF TypeOK
<1>2. CASE p \in Elements(plugins)
  BY <1>2 DEF RequirePlugin, tree, TypeOK
<1>3. CASE p \notin Elements(plugins)
  <2>1. /\ plugins' = Append(plugins, p)
        /\ pending' = Append(pending, p)
        /\ children' = [children EXCEPT ![Here] = Append(@, p)]
        /\ mods' = mods + 1
        /\ modules' = modules
    BY <1>3 DEF RequirePlugin
  <2>2. /\ Append(plugins, p) \in Seq(Plugin)
        /\ Elements(Append(plugins, p)) = Elements(plugins) \cup {p}
        /\ Append(pending, p) \in Seq(Plugin)
        /\ Elements(Append(pending, p)) = Elements(pending) \cup {p}
        /\ Append(children[Here], p) \in Seq(Plugin)
        /\ Elements(Append(children[Here], p)) = Elements(children[Here]) \cup {p}
    BY <1>1, ElementsAppend DEF TypeOK
  <2>3. children' \in [Plugin \cup {Root} -> Seq(Plugin)] /\ children'[Here] = Append(children[Here], p)
        /\ \A x \in (Plugin \cup {Root}) \ {Here} : children'[x] = children[x]
    BY <2>1, <2>2 DEF TypeOK
  <2> QED
    BY <1>3, <2>1, <2>2, <2>3 DEF TypeOK
<1> QED
  BY <1>2, <1>3

LEMMA TypedScript ==
  ASSUME TypeOK, NEW x \in Plugin \cup {Root}
  PROVE  /\ world.kind \in [Plugin -> Kind]
         /\ world.script[x] \in Seq(Statement)
         /\ Len(world.script[x]) \in Nat
         /\ DOMAIN world.script[x] = 1..Len(world.script[x])
         /\ \A i \in DOMAIN world.script[x] :
              /\ world.script[x][i] \in Statement
              /\ world.script[x][i].op \in {"use", "import"}
              /\ world.script[x][i].op = "use" => world.script[x][i].name \in Plugin
              /\ world.script[x][i].op = "import" => world.script[x][i].name \in Package
<1>1. world.script[x] \in Seq(Statement) /\ world.kind \in [Plugin -> Kind]
  BY DEF TypeOK, World
<1>2. \A i \in DOMAIN world.script[x] : world.script[x][i] \in Statement
  BY <1>1
<1>3. \A s \in Statement : /\ s.op \in {"use", "import"}
                           /\ s.op = "use" => s.name \in Plugin
                           /\ s.op = "import" => s.name \in Package
  BY DEF Statement
<1> QED
  BY <1>1, <1>2, <1>3

\* Where an action of the import of a plugin finds the loader.
LEMMA InPlugin ==
  ASSUME TypeOK, Shape, phase \in {"install", "script"}
  PROVE  /\ walk # <<>>
         /\ Innermost.at <= Len(Innermost.items)
         /\ Entry \in Plugin
         /\ Entry \in Elements(Innermost.items)
         /\ stack = <<Entry>>
         /\ Here = Entry
         /\ Root # Entry
<1>1. walk # <<>> /\ Innermost.at <= Len(Innermost.items) /\ stack = <<Entry>>
  BY DEF Shape
<1>2. Entry \in Plugin /\ Entry \in Elements(Innermost.items)
  BY <1>1, TypedEntry
<1> QED
  BY <1>1, <1>2, DeferredPluginsAssumption DEF Here

LEMMA InDescriptorHere ==
  ASSUME Shape, phase = "descriptor"
  PROVE  walk = <<>> /\ stack = <<>> /\ Here = Root
BY DEF Shape, Here

\* The use_plugin of the plugin that is being imported.
LEMMA RequiredInScript ==
  ASSUME TypeOK, Shape, RequireInScript
  PROVE  /\ phase = "script"
         /\ step \in DOMAIN Script /\ Script[step].op = "use" /\ step' = step + 1
         /\ Script[step].name \in Plugin
         /\ Script[step].name \in Uses(Entry)
         /\ RequirePlugin(Script[step].name)
         /\ UNCHANGED <<world, phase, by, line, stack, walk, seen, imported, installed, collected>>
<1>1. phase = "script" /\ step <= Len(Script) /\ Script[step].op = "use" /\ step' = step + 1
  BY DEF RequireInScript, InScript
<1>2. Entry \in Plugin
  BY <1>1, InPlugin
<1>3. step \in DOMAIN Script /\ Script[step].name \in Plugin
  <2>1. step \in Nat \ {0}
    BY DEF TypeOK
  <2>2. step \in DOMAIN Script
    BY <1>1, <1>2, <2>1, TypedScript DEF Script
  <2> QED
    BY <1>1, <1>2, <2>2, TypedScript DEF Script
<1>4. Script[step].name \in Uses(Entry)
  BY <1>1, <1>3 DEF Uses, Elements, Script
<1> QED
  BY <1>1, <1>3, <1>4 DEF RequireInScript

\* The use_plugin of build.py.
LEMMA RequiredInDescriptor ==
  ASSUME TypeOK, Shape, RequireInDescriptor
  PROVE  /\ phase = "descriptor"
         /\ line \in DOMAIN world.script[Root] /\ Line.op = "use" /\ line' = line + 1
         /\ Line.name \in Plugin
         /\ Line.name \in Uses(Root)
         /\ RequirePlugin(Line.name)
         /\ UNCHANGED <<world, phase, by, step, stack, walk, seen, imported, installed, collected>>
<1>1. phase = "descriptor" /\ line <= Len(world.script[Root]) /\ Line.op = "use" /\ line' = line + 1
  BY DEF RequireInDescriptor, InDescriptor, Line
<1>2. line \in DOMAIN world.script[Root] /\ Line.name \in Plugin
  BY <1>1, TypedScript DEF Line, TypeOK
<1>3. Line.name \in Uses(Root)
  BY <1>1, <1>2 DEF Uses, Elements, Line
<1> QED
  BY <1>1, <1>2, <1>3 DEF RequireInDescriptor

----------------------------------------------------------------------------
(* Types and generators *)

LEMMA LoadingFailsFacts ==
  ASSUME LoadingFails
  PROVE  /\ walk' = <<>> /\ stack' = <<>>
         /\ phase' \in {"descriptor", "failed"}
         /\ phase' = "descriptor" => by = "import" /\ line' = line + 1
         /\ phase' = "failed" => line' = line
         /\ UNCHANGED <<world, by, step, seen, imported, collected>>
BY DEF LoadingFails

LEMMA TypeStep ==
  ASSUME TypeOK, Shape, [Next]_vars
  PROVE  TypeOK'
<1> USE DEF tree
<1>1. CASE RequireInDescriptor
  <2>1. Here \in Plugin \cup {Root}
    BY <1>1, RequiredInDescriptor, InDescriptorHere
  <2>2. /\ plugins' \in Seq(Plugin) /\ pending' \in Seq(Plugin) /\ mods' \in Nat
        /\ children' \in [Plugin \cup {Root} -> Seq(Plugin)] /\ modules' = modules
    BY <1>1, <2>1, Required, RequiredInDescriptor
  <2>3. /\ line' = line + 1
        /\ UNCHANGED <<world, phase, by, step, stack, walk, seen, imported, installed, collected>>
    BY <1>1, RequiredInDescriptor
  <2> QED
    BY <2>2, <2>3 DEF TypeOK
<1>2. CASE ImportInDescriptor
  BY <1>2 DEF ImportInDescriptor, TypeOK
<1>3. CASE ImportDeferred
  BY <1>3, Starting DEF ImportDeferred, StartPass, TypeOK
<1>4. CASE RetryImport
  BY <1>4 DEF RetryImport, TypeOK
<1>5. CASE DescriptorEnds
  BY <1>5, Starting DEF DescriptorEnds, StartPass, TypeOK
<1>6. CASE Descend
  BY <1>6, Descending DEF Descend, TypeOK
<1>7. CASE Ascend
  BY <1>7, Ascending DEF Ascend, TypeOK
<1>8. CASE Yield
  <2>1. Entry \in Plugin
    BY <1>8, TypedEntry DEF Yield, AtEntry
  <2>2. stack' \in Seq(Plugin)
    BY <1>8, <2>1 DEF Yield, TypeOK
  <2> QED
    BY <1>8, <2>2 DEF Yield, TypeOK
<1>9. CASE RejectPending \/ RejectMissing \/ ImportFailsInScript \/ RejectOutdated
  <2>1. LoadingFails /\ UNCHANGED <<tree, installed>>
    BY <1>9 DEF RejectPending, RejectMissing, ImportFailsInScript, RejectOutdated
  <2>2. /\ walk' = <<>> /\ stack' = <<>> /\ phase' \in {"descriptor", "failed"}
        /\ UNCHANGED <<world, by, step, seen, imported, collected>>
    BY <2>1, LoadingFailsFacts
  <2>3. line' \in Nat \ {0}
    BY <2>1, LoadingFailsFacts DEF TypeOK
  <2> QED
    BY <2>1, <2>2, <2>3 DEF TypeOK
<1>10. CASE InstallPending
  <2>1. Elements(pending) \subseteq Plugin
    BY ElementsOf DEF TypeOK
  <2> QED
    BY <1>10, <2>1 DEF InstallPending, TypeOK
<1>11. CASE PassOver
  <2>0. Entry \in Plugin /\ stack = <<Entry>>
    BY <1>11, InPlugin DEF PassOver
  <2>1. stack' \in Seq(Plugin)
    BY <1>11, <2>0 DEF PassOver, Resume
  <2>2. walk' \in Seq(Generator)
    BY <1>11, InPlugin, Going DEF PassOver, Resume
  <2> QED
    BY <1>11, <2>1, <2>2 DEF PassOver, Resume, TypeOK
<1>12. CASE BeginScript
  BY <1>12 DEF BeginScript, TypeOK
<1>13. CASE RequireInScript
  <2>1. Here \in Plugin \cup {Root}
    BY <1>13, RequiredInScript, InPlugin
  <2>2. /\ plugins' \in Seq(Plugin) /\ pending' \in Seq(Plugin) /\ mods' \in Nat
        /\ children' \in [Plugin \cup {Root} -> Seq(Plugin)] /\ modules' = modules
    BY <1>13, <2>1, Required, RequiredInScript
  <2>3. /\ step' = step + 1
        /\ UNCHANGED <<world, phase, by, line, stack, walk, seen, imported, installed, collected>>
    BY <1>13, RequiredInScript
  <2> QED
    BY <2>2, <2>3 DEF TypeOK
<1>14. CASE ImportInScript
  BY <1>14 DEF ImportInScript, TypeOK
<1>15. CASE ScriptEnds
  <2>0. Entry \in Plugin /\ walk # <<>> /\ stack = <<Entry>> /\ Here = Entry
    BY <1>15, InPlugin DEF ScriptEnds
  <2>1. stack' \in Seq(Plugin)
    BY <1>15, <2>0 DEF ScriptEnds, Resume
  <2>2. walk' \in Seq(Generator)
    BY <1>15, <2>0, Going DEF ScriptEnds, Resume
  <2>3. modules' \in [Plugin -> Plugin \cup {Root}] /\ imported' \subseteq Plugin
    BY <1>15, <2>0 DEF ScriptEnds, TypeOK
  <2> QED
    BY <1>15, <2>1, <2>2, <2>3 DEF ScriptEnds, Resume, TypeOK
<1>16. CASE NextPass
  BY <1>16, Starting DEF NextPass, StartPass, TypeOK
<1>17. CASE LoadingReturns
  <2>1. CASE by = "import"
    <3>1. walk' = <<>> /\ phase' = "retry"
      BY <1>17, <2>1 DEF LoadingReturns
    <3> QED
      BY <1>17, <3>1 DEF LoadingReturns, TypeOK
  <2>2. CASE by # "import"
    <3>1. walk' = <<Traverse(children[Root])>> /\ phase' = "collect"
      BY <1>17, <2>2 DEF LoadingReturns
    <3>2. walk' \in Seq(Generator)
      BY <3>1, Starting
    <3> QED
      BY <1>17, <3>1, <3>2 DEF LoadingReturns, TypeOK
  <2> QED
    BY <2>1, <2>2
<1>18. CASE CollectEntry
  <2>1. walk # <<>> /\ Entry \in Plugin
    BY <1>18, TypedEntry DEF CollectEntry, AtEntry
  <2>2. walk' \in Seq(Generator)
    BY <1>18, <2>1, Going DEF CollectEntry
  <2>3. collected' \in Seq(Plugin \cup {Root})
    BY <1>18, <2>1 DEF CollectEntry, TypeOK
  <2> QED
    BY <1>18, <2>2, <2>3 DEF CollectEntry, TypeOK
<1>19. CASE AllCollected
  BY <1>19 DEF AllCollected, TypeOK
<1>20. CASE UNCHANGED vars
  BY <1>20 DEF vars, TypeOK
<1> QED
  BY <1>1, <1>2, <1>3, <1>4, <1>5, <1>6, <1>7, <1>8, <1>9, <1>10, <1>11, <1>12, <1>13, <1>14,
     <1>15, <1>16, <1>17, <1>18, <1>19, <1>20 DEF Next, Ended

\* What leaves the phase and the generators alone.
LEMMA ShapeKept ==
  ASSUME Shape, UNCHANGED <<phase, walk, stack>>
  PROVE  Shape'
BY DEF Shape, Innermost, Entry

\* The generators at the beginning of a pass or of the collection.
LEMMA ShapeStarts ==
  ASSUME TypeOK, walk' = <<Traverse(children[Root])>>, phase' \in {"visit", "collect"},
         stack' = <<>>
  PROVE  Shape'
BY Starting DEF Shape

LEMMA ShapeGoesOn ==
  ASSUME TypeOK, Shape, walk # <<>>, GoOn, phase' \in {"visit", "collect"}, stack' = <<>>
  PROVE  Shape'
<1>1. \A k \in DOMAIN walk' : k < Len(walk') => walk'[k] = walk[k] /\ k \in DOMAIN walk
  BY Going
<1>2. \A k \in DOMAIN walk' : k < Len(walk') \/ k = Len(walk')
  BY Going, Typed
<1>3. walk'[Len(walk')].below = FALSE
  BY Going
<1> QED
  BY <1>1, <1>2, <1>3, Going DEF Shape

LEMMA ShapeStep ==
  ASSUME TypeOK, Shape, [Next]_vars
  PROVE  Shape'
<1>1. CASE \/ RequireInDescriptor \/ ImportInDescriptor \/ RequireInScript \/ ImportInScript
           \/ InstallPending \/ UNCHANGED vars
  BY <1>1, ShapeKept DEF RequireInDescriptor, ImportInDescriptor, RequireInScript, ImportInScript,
                         InstallPending, vars
<1>2. CASE ImportDeferred \/ DescriptorEnds
  BY <1>2, ShapeStarts, InDescriptorHere
     DEF ImportDeferred, DescriptorEnds, StartPass, InDescriptor
<1>3. CASE RetryImport
  BY <1>3 DEF RetryImport, Shape
<1>4. CASE NextPass
  BY <1>4, ShapeStarts DEF NextPass, StartPass, PassEnds, AtEnd, Shape
<1>5. CASE Descend
  <2>1. phase \in {"visit", "collect"} /\ walk # <<>> /\ stack = <<>>
        /\ Innermost.at <= Len(Innermost.items) /\ UNCHANGED <<phase, stack>>
    BY <1>5 DEF Descend, AtEntry, Shape
  <2>2. \A k \in DOMAIN walk' : \/ k \in DOMAIN walk /\ k < Len(walk) /\ walk'[k] = walk[k]
                                \/ k = Len(walk) \/ k = Len(walk) + 1
    BY <1>5, Descending, Typed
  <2>3. walk'[Len(walk)].below /\ walk'[Len(walk)].at <= Len(walk'[Len(walk)].items)
        /\ walk'[Len(walk) + 1].below = FALSE /\ walk' # <<>> /\ Len(walk') = Len(walk) + 1
    BY <1>5, <2>1, Descending
  <2> QED
    BY <2>1, <2>2, <2>3, Typed DEF Shape
<1>6. CASE Ascend
  <2>1. phase \in {"visit", "collect"} /\ stack = <<>> /\ UNCHANGED <<phase, stack>>
    BY <1>6 DEF Ascend, AtEnd, Shape
  <2>2. \A k \in DOMAIN walk' : k \in DOMAIN walk /\ walk'[k] = walk[k] /\ k < Len(walk)
    BY <1>6, Ascending, Typed
  <2> QED
    BY <1>6, <2>1, <2>2, Ascending DEF Shape
<1>7. CASE Yield
  <2>1. /\ phase = "visit" /\ stack = <<>> /\ walk # <<>> /\ Innermost.at <= Len(Innermost.items)
        /\ phase' = "install" /\ stack' = <<Entry>> \o stack /\ walk' = walk
    BY <1>7 DEF Yield, AtEntry, Shape
  <2>2. stack' = <<Entry>>
    BY <2>1, TypedEntry
  <2> QED
    BY <2>1, <2>2 DEF Shape, Innermost, Entry
<1>8. CASE RejectPending \/ RejectMissing \/ ImportFailsInScript \/ RejectOutdated
  <2>1. LoadingFails
    BY <1>8 DEF RejectPending, RejectMissing, ImportFailsInScript, RejectOutdated
  <2> QED
    BY <2>1, LoadingFailsFacts DEF Shape
<1>9. CASE PassOver \/ ScriptEnds
  <2>1. phase \in {"install", "script"} /\ Resume
    BY <1>9 DEF PassOver, ScriptEnds
  <2>2. walk # <<>> /\ stack = <<Entry>> /\ Entry \in Plugin
    BY <2>1, InPlugin
  <2>3. stack' = <<>> /\ phase' = "visit" /\ GoOn
    BY <2>1, <2>2 DEF Resume
  <2> QED
    BY <2>2, <2>3, ShapeGoesOn
<1>10. CASE BeginScript
  BY <1>10 DEF BeginScript, Shape, Innermost, Entry
<1>11. CASE LoadingReturns
  <2>1. phase = "visit" /\ stack = <<>> /\ stack' = stack
    BY <1>11 DEF LoadingReturns, PassEnds, AtEnd, Shape
  <2>2. CASE by = "import"
    BY <1>11, <2>1, <2>2 DEF LoadingReturns, Shape
  <2>3. CASE by # "import"
    BY <1>11, <2>1, <2>3, ShapeStarts DEF LoadingReturns
  <2> QED
    BY <2>2, <2>3
<1>12. CASE CollectEntry
  BY <1>12, ShapeGoesOn DEF CollectEntry, AtEntry, Shape
<1>13. CASE AllCollected
  BY <1>13 DEF AllCollected, AtEnd, Shape
<1> QED
  BY <1>1, <1>2, <1>3, <1>4, <1>5, <1>6, <1>7, <1>8, <1>9, <1>10, <1>11, <1>12, <1>13
     DEF Next, Ended

----------------------------------------------------------------------------
(* The tree *)

\* Plugin p gets its place below x.
Grows(p, x) ==
  /\ phase \in {"descriptor", "script"}
  /\ p \notin Elements(plugins) /\ p \in Uses(x)
  /\ x = Root \/ (x \in Elements(plugins) /\ x # Root)
  /\ plugins' = Append(plugins, p)
  /\ Elements(plugins') = Elements(plugins) \cup {p}
  /\ Elements(pending') = Elements(pending) \cup {p}
  /\ children'[x] = Append(children[x], p)
  /\ Elements(children'[x]) = Elements(children[x]) \cup {p}
  /\ \A y \in (Plugin \cup {Root}) \ {x} : children'[y] = children[y]
  /\ mods' = mods + 1
  /\ UNCHANGED <<world, phase, modules, stack, walk, seen, imported, installed, collected>>

LEMMA TreeStep ==
  ASSUME TypeOK, Shape, Known, [Next]_vars
  PROVE  /\ world' = world
         /\ \/ UNCHANGED <<plugins, children>>
            \/ \E p \in Plugin : \E x \in Plugin \cup {Root} : Grows(p, x)
<1>1. CASE RequireInDescriptor
  <2>1. Here = Root /\ phase = "descriptor" /\ Line.name \in Plugin /\ Line.name \in Uses(Root)
        /\ RequirePlugin(Line.name)
    BY <1>1, RequiredInDescriptor, InDescriptorHere
  <2>2. UNCHANGED <<world, phase, stack, walk, seen, imported, installed, collected>>
    BY <1>1, RequiredInDescriptor
  <2>3. CASE Line.name \in Elements(plugins)
    BY <2>1, <2>2, <2>3, Required DEF tree
  <2>4. CASE Line.name \notin Elements(plugins)
    <3>1. Grows(Line.name, Root)
      BY <2>1, <2>2, <2>4, Required DEF Grows
    <3> QED
      BY <3>1, <2>1, <2>2
  <2> QED
    BY <2>3, <2>4
<1>2. CASE RequireInScript
  <2>1. phase = "script" /\ Script[step].name \in Plugin /\ Script[step].name \in Uses(Entry)
        /\ RequirePlugin(Script[step].name)
    BY <1>2, RequiredInScript
  <2>2. UNCHANGED <<world, phase, stack, walk, seen, imported, installed, collected>>
    BY <1>2, RequiredInScript
  <2>3. Here = Entry /\ Entry \in Plugin /\ Entry # Root /\ Entry \in Elements(Innermost.items)
        /\ walk # <<>>
    BY <2>1, InPlugin
  <2>4. Entry \in Elements(plugins)
    BY <2>3, Typed DEF Known, Innermost
  <2>5. CASE Script[step].name \in Elements(plugins)
    BY <2>1, <2>2, <2>3, <2>5, Required DEF tree
  <2>6. CASE Script[step].name \notin Elements(plugins)
    <3>1. Grows(Script[step].name, Entry)
      BY <2>1, <2>2, <2>3, <2>4, <2>6, Required DEF Grows
    <3> QED
      BY <3>1, <2>1, <2>2, <2>3
  <2> QED
    BY <2>5, <2>6
<1>3. CASE RejectPending \/ RejectMissing \/ ImportFailsInScript \/ RejectOutdated
  BY <1>3, LoadingFailsFacts
     DEF RejectPending, RejectMissing, ImportFailsInScript, RejectOutdated, tree
<1>4. ASSUME Next, ~ RequireInDescriptor, ~ RequireInScript,
             ~ (RejectPending \/ RejectMissing \/ ImportFailsInScript \/ RejectOutdated)
      PROVE  UNCHANGED <<world, plugins, children>>
  BY <1>4 DEF Next, Ended, vars, tree, ImportInDescriptor, ImportDeferred, RetryImport,
     DescriptorEnds, Descend, Ascend, Yield, InstallPending, PassOver, BeginScript,
     ImportInScript, ScriptEnds, NextPass, LoadingReturns, CollectEntry, AllCollected
<1> QED
  BY <1>1, <1>2, <1>3, <1>4 DEF vars

\* What has been required stays so.
LEMMA PluginsGrow ==
  ASSUME TypeOK, Shape, Known, [Next]_vars
  PROVE  Elements(plugins) \subseteq Elements(plugins')
<1>1. UNCHANGED plugins => Elements(plugins') = Elements(plugins)
  BY DEF Elements
<1> QED
  BY <1>1, TreeStep DEF Grows

LEMMA OnePlaceStep ==
  ASSUME TypeOK, Shape, Known, OnePlaceEach, [Next]_vars
  PROVE  OnePlaceEach'
<1>1. CASE UNCHANGED <<plugins, children>>
  BY <1>1, TreeStep DEF OnePlaceEach, Elements, Uses
<1>2. ASSUME NEW p \in Plugin, NEW z \in Plugin \cup {Root}, Grows(p, z)
      PROVE  OnePlaceEach'
  <2>0. /\ p \notin Elements(plugins) /\ p \in Uses(z) /\ world' = world
        /\ Elements(plugins') = Elements(plugins) \cup {p}
        /\ Elements(children'[z]) = Elements(children[z]) \cup {p}
        /\ children'[z] = Append(children[z], p)
        /\ \A y \in (Plugin \cup {Root}) \ {z} : children'[y] = children[y]
    BY <1>2 DEF Grows
  <2>1. \A y \in (Plugin \cup {Root}) : Elements(children[y]) \subseteq Elements(children'[y])
    BY <2>0 DEF Elements
  <2>2. \A q \in Elements(plugins') : \E y \in Plugin \cup {Root} : q \in Elements(children'[y])
    BY <2>0, <2>1 DEF OnePlaceEach
  <2>3. \A y \in Plugin \cup {Root} : Uses(y)' = Uses(y)
    BY <2>0 DEF Uses
  <2>4. \A y \in Plugin \cup {Root} :
          Elements(children'[y]) \subseteq Elements(plugins') \cap Uses(y)'
    <3> SUFFICES ASSUME NEW y \in Plugin \cup {Root}
                 PROVE  Elements(children'[y]) \subseteq Elements(plugins') \cap Uses(y)'
      OBVIOUS
    <3>1. Elements(children[y]) \subseteq Elements(plugins) \cap Uses(y)
      BY DEF OnePlaceEach
    <3>2. Elements(children'[y]) = Elements(children[y]) \/ y = z
      BY <2>0
    <3> QED
      BY <2>0, <2>3, <3>1, <3>2
  <2>5. ASSUME NEW x \in Plugin \cup {Root}, NEW y \in Plugin \cup {Root},
               NEW i \in DOMAIN children'[x], NEW j \in DOMAIN children'[y],
               children'[x][i] = children'[y][j]
        PROVE  x = y /\ i = j
    <3>1. children[z] \in Seq(Plugin) /\ children[x] \in Seq(Plugin) /\ children[y] \in Seq(Plugin)
      BY DEF TypeOK
    <3>2. \A u \in Plugin \cup {Root} : \A k \in DOMAIN children'[u] :
            \/ u = z /\ k = Len(children[z]) + 1 /\ children'[u][k] = p
            \/ /\ k \in DOMAIN children[u] /\ children'[u][k] = children[u][k]
               /\ children[u][k] # p
      <4> SUFFICES ASSUME NEW u \in Plugin \cup {Root}, NEW k \in DOMAIN children'[u]
                   PROVE  \/ u = z /\ k = Len(children[z]) + 1 /\ children'[u][k] = p
                          \/ /\ k \in DOMAIN children[u] /\ children'[u][k] = children[u][k]
                             /\ children[u][k] # p
        OBVIOUS
      <4>1. \A l \in DOMAIN children[u] : children[u][l] # p
        <5>1. \A l \in DOMAIN children[u] : children[u][l] \in Elements(children[u])
          BY DEF Elements
        <5>2. Elements(children[u]) \subseteq Elements(plugins)
          BY DEF OnePlaceEach
        <5> QED
          BY <2>0, <5>1, <5>2
      <4>2. CASE u = z
        <5>1. /\ DOMAIN children'[z] = 1..(Len(children[z]) + 1)
              /\ DOMAIN children[z] = 1..Len(children[z])
              /\ children'[z][Len(children[z]) + 1] = p
              /\ \A l \in DOMAIN children[z] : children'[z][l] = children[z][l]
              /\ Len(children[z]) \in Nat
          BY <2>0, <3>1
        <5> QED
          BY <4>1, <4>2, <5>1
      <4>3. CASE u # z
        BY <2>0, <4>1, <4>3
      <4> QED
        BY <4>2, <4>3
    <3> QED
      BY <2>5, <3>2 DEF OnePlaceEach
  <2> QED
    BY <2>2, <2>4, <2>5 DEF OnePlaceEach
<1> QED
  BY <1>1, <1>2, TreeStep

LEMMA RootedStep ==
  ASSUME TypeOK, Shape, Known, OnePlaceEach, Rooted, [Next]_vars
  PROVE  Rooted'
<1>1. CASE UNCHANGED <<plugins, children>>
  BY <1>1 DEF Rooted, Elements
<1>2. ASSUME NEW p \in Plugin, NEW z \in Plugin \cup {Root}, Grows(p, z),
             NEW S \in SUBSET Plugin, Elements(children'[Root]) \subseteq S,
             \A q \in S : Elements(children'[q]) \subseteq S
      PROVE  Elements(plugins') \subseteq S
  <2>1. /\ Elements(plugins') = Elements(plugins) \cup {p}
        /\ Elements(children'[z]) = Elements(children[z]) \cup {p}
        /\ \A y \in (Plugin \cup {Root}) \ {z} : Elements(children'[y]) = Elements(children[y])
        /\ z = Root \/ z \in Elements(plugins)
    BY <1>2 DEF Grows
  <2>2. Elements(plugins) \subseteq S
    <3>1. Elements(children[Root]) \subseteq S /\ \A q \in S : Elements(children[q]) \subseteq S
      BY <1>2, <2>1
    <3> QED
      BY <3>1 DEF Rooted
  <2>3. p \in S
    BY <1>2, <2>1, <2>2
  <2> QED
    BY <2>1, <2>2, <2>3
<1> QED
  BY <1>1, <1>2, TreeStep DEF Rooted

LEMMA OrderStep ==
  ASSUME TypeOK, Shape, Known, OnePlaceEach, Order, [Next]_vars
  PROVE  Order'
<1>1. CASE UNCHANGED <<plugins, children>>
  BY <1>1 DEF Order, Before, Elements
<1>2. ASSUME NEW p \in Plugin, NEW z \in Plugin \cup {Root}, Grows(p, z)
      PROVE  Order'
  <2>0. plugins \in Seq(Plugin) /\ plugins' = Append(plugins, p)
        /\ p \notin Elements(plugins) /\ (z = Root \/ (z # Root /\ z \in Elements(plugins)))
        /\ Elements(children'[z]) = Elements(children[z]) \cup {p}
        /\ \A y \in (Plugin \cup {Root}) \ {z} : Elements(children'[y]) = Elements(children[y])
    BY <1>2 DEF Grows, TypeOK
  <2>1. /\ Len(plugins) \in Nat /\ DOMAIN plugins = 1..Len(plugins)
        /\ DOMAIN plugins' = 1..(Len(plugins) + 1)
        /\ \A i \in DOMAIN plugins : plugins'[i] = plugins[i] /\ plugins[i] # p
        /\ plugins'[Len(plugins) + 1] = p
    BY <2>0 DEF Elements
  <2>2. \A i, j \in DOMAIN plugins' : plugins'[i] = plugins'[j] => i = j
    BY <2>1 DEF Order
  <2>3. \A q, r \in Plugin : Before(q, r) => Before(q, r)'
    BY <2>1 DEF Before
  <2>4. ASSUME NEW q \in Plugin, NEW r \in Elements(children'[q])
        PROVE  Before(q, r)'
    <3>1. CASE r \in Elements(children[q])
      <4>1. r \in Plugin
        BY <3>1, ElementsOf DEF TypeOK
      <4> QED
        BY <2>3, <3>1, <4>1 DEF Order
    <3>2. CASE r \notin Elements(children[q])
      <4>1. q = z /\ r = p
        BY <2>0, <3>2
      <4>2. q # Root
        BY DeferredPluginsAssumption
      <4>3. PICK i \in DOMAIN plugins : plugins[i] = q
        BY <2>0, <4>1, <4>2 DEF Elements
      <4> QED
        BY <2>1, <4>1, <4>3 DEF Before
    <3> QED
      BY <3>1, <3>2
  <2> QED
    BY <2>2, <2>4 DEF Order
<1> QED
  BY <1>1, <1>2, TreeStep

----------------------------------------------------------------------------
(* What is known of the plugins *)

\* The generators are for entries of the tree.
LEMMA ItemsStep ==
  ASSUME TypeOK, Shape, Known, OnePlaceEach, [Next]_vars
  PROVE  \A k \in DOMAIN walk' : Elements(walk'[k].items) \subseteq Elements(plugins)
<1>0. \A x \in Plugin \cup {Root} : Elements(children[x]) \subseteq Elements(plugins)
  BY DEF OnePlaceEach
<1>1. CASE walk' = walk
  BY <1>1 DEF Known
<1>2. CASE walk' = <<>>
  BY <1>2
<1>3. CASE walk' = <<Traverse(children[Root])>>
  BY <1>0, <1>3, Starting
<1>4. CASE Descend
  <2>1. walk # <<>> /\ Innermost.at <= Len(Innermost.items)
    BY <1>4 DEF Descend, AtEntry
  <2>2. Entry \in Plugin /\ Len(walk) \in DOMAIN walk
    BY <2>1, TypedEntry, Typed
  <2>3. /\ \A k \in DOMAIN walk' : \/ k \in DOMAIN walk /\ k < Len(walk) /\ walk'[k] = walk[k]
                                   \/ k = Len(walk) \/ k = Len(walk) + 1
        /\ walk'[Len(walk)].items = walk[Len(walk)].items
        /\ walk'[Len(walk) + 1].items = children[Entry]
    BY <1>4, Descending, Typed DEF Innermost
  <2> QED
    BY <1>0, <2>2, <2>3 DEF Known
<1>5. CASE Ascend
  BY <1>5, Ascending, Typed DEF Known
<1>6. CASE walk # <<>> /\ GoOn
  <2>1. \A k \in DOMAIN walk' : k \in DOMAIN walk /\ walk'[k].items = walk[k].items
    <3> SUFFICES ASSUME NEW k \in DOMAIN walk'
                 PROVE  k \in DOMAIN walk /\ walk'[k].items = walk[k].items
      OBVIOUS
    <3>1. k \in DOMAIN walk /\ (k < Len(walk) \/ k = Len(walk))
      BY <1>6, Going, Typed
    <3> QED
      BY <1>6, <3>1, Going DEF Innermost
  <2> QED
    BY <2>1 DEF Known
<1>7. CASE RejectPending \/ RejectMissing \/ ImportFailsInScript \/ RejectOutdated
  BY <1>2, <1>7, LoadingFailsFacts
     DEF RejectPending, RejectMissing, ImportFailsInScript, RejectOutdated
<1>8. CASE PassOver \/ ScriptEnds
  BY <1>6, <1>8, InPlugin DEF PassOver, ScriptEnds, Resume
<1>9. CASE CollectEntry
  BY <1>6, <1>9 DEF CollectEntry, AtEntry
<1>10. CASE LoadingReturns
  BY <1>2, <1>3, <1>10 DEF LoadingReturns
<1>11. CASE ImportDeferred \/ DescriptorEnds \/ NextPass
  BY <1>3, <1>11 DEF ImportDeferred, DescriptorEnds, NextPass, StartPass
<1>12. CASE \/ RequireInDescriptor \/ ImportInDescriptor \/ RetryImport \/ Yield \/ InstallPending
            \/ BeginScript \/ RequireInScript \/ ImportInScript \/ UNCHANGED vars
  BY <1>1, <1>12 DEF RequireInDescriptor, ImportInDescriptor, RetryImport, Yield, InstallPending,
     BeginScript, RequireInScript, ImportInScript, vars
<1>13. CASE AllCollected
  BY <1>2, <1>13 DEF AllCollected
<1> QED
  BY <1>4, <1>5, <1>7, <1>8, <1>9, <1>10, <1>11, <1>12, <1>13 DEF Next, Ended

\* What the steps do to the installs that are due and to what is imported.
LEMMA InstallStep ==
  ASSUME TypeOK, Shape, Known, [Next]_vars
  PROVE  /\ \/ UNCHANGED <<pending, imported, modules>>
            \/ (\E p \in Plugin : \E x \in Plugin \cup {Root} : Grows(p, x))
            \/ pending' = <<>> /\ UNCHANGED <<imported, modules, phase, walk>> /\ phase = "install"
            \/ /\ ScriptEnds /\ Entry \in Elements(plugins)
               /\ imported' = imported \cup {Entry} /\ pending' = pending
               /\ modules' = [modules EXCEPT ![Entry] = Entry]
         /\ imported \subseteq imported'
         /\ installed \subseteq installed'
<1>1. CASE RequireInDescriptor \/ RequireInScript
  <2>1. UNCHANGED <<imported, installed>>
    BY <1>1 DEF RequireInDescriptor, RequireInScript
  <2>2. CASE \E p \in Plugin : \E x \in Plugin \cup {Root} : Grows(p, x)
    BY <2>1, <2>2
  <2>3. CASE ~ \E p \in Plugin : \E x \in Plugin \cup {Root} : Grows(p, x)
    <3>1. plugins' = plugins
      BY <2>3, TreeStep
    <3>2. CASE RequireInDescriptor
      <4>1. RequirePlugin(Line.name) /\ Line.name \in Plugin /\ Here = Root
        BY <3>2, RequiredInDescriptor, InDescriptorHere
      <4>2. Line.name \in Elements(plugins)
        BY <3>1, <4>1, Required
      <4> QED
        BY <2>1, <4>1, <4>2 DEF RequirePlugin, tree
    <3>3. CASE RequireInScript
      <4>1. RequirePlugin(Script[step].name) /\ Script[step].name \in Plugin /\ Here = Entry
            /\ Entry \in Plugin
        BY <3>3, RequiredInScript, InPlugin
      <4>2. Script[step].name \in Elements(plugins)
        BY <3>1, <4>1, Required
      <4> QED
        BY <2>1, <4>1, <4>2 DEF RequirePlugin, tree
    <3> QED
      BY <1>1, <3>2, <3>3
  <2> QED
    BY <2>2, <2>3
<1>2. CASE InstallPending
  BY <1>2 DEF InstallPending
<1>3. CASE ScriptEnds
  <2>1. Entry \in Elements(Innermost.items) /\ Here = Entry /\ walk # <<>>
    BY <1>3, InPlugin DEF ScriptEnds
  <2>2. Entry \in Elements(plugins)
    BY <2>1, Typed DEF Known, Innermost
  <2> QED
    BY <1>3, <2>1, <2>2 DEF ScriptEnds
<1>4. CASE RejectPending \/ RejectMissing \/ ImportFailsInScript \/ RejectOutdated
  BY <1>4, LoadingFailsFacts
     DEF RejectPending, RejectMissing, ImportFailsInScript, RejectOutdated, tree
<1>5. ASSUME Next, ~ (RequireInDescriptor \/ RequireInScript), ~ InstallPending, ~ ScriptEnds,
             ~ (RejectPending \/ RejectMissing \/ ImportFailsInScript \/ RejectOutdated)
      PROVE  UNCHANGED <<pending, imported, modules, installed>>
  BY <1>5 DEF Next, Ended, vars, tree, ImportInDescriptor, ImportDeferred, RetryImport,
     DescriptorEnds, Descend, Ascend, Yield, PassOver, BeginScript,
     ImportInScript, NextPass, LoadingReturns, CollectEntry, AllCollected
<1> QED
  BY <1>1, <1>2, <1>3, <1>4, <1>5 DEF vars

LEMMA KnownStep ==
  ASSUME TypeOK, Shape, Known, OnePlaceEach, [Next]_vars
  PROVE  Known'
<1>1. Elements(plugins) \subseteq Elements(plugins')
  BY PluginsGrow
<1>2. \A k \in DOMAIN walk' : Elements(walk'[k].items) \subseteq Elements(plugins')
  BY <1>1, ItemsStep
<1>3. Elements(pending') \subseteq Elements(plugins') /\ imported' \subseteq Elements(plugins')
  <2>1. CASE UNCHANGED <<pending, imported>>
    <3>1. Elements(pending') = Elements(pending)
      BY <2>1
    <3> QED
      BY <1>1, <2>1, <3>1 DEF Known
  <2>2. CASE \E p \in Plugin : \E x \in Plugin \cup {Root} : Grows(p, x)
    BY <2>2 DEF Grows, Known
  <2>3. CASE pending' = <<>> /\ UNCHANGED imported
    BY <1>1, <2>3 DEF Known, Elements
  <2>4. CASE imported' = imported \cup {Entry} /\ pending' = pending /\ Entry \in Elements(plugins)
    <3>1. Elements(pending') = Elements(pending)
      BY <2>4
    <3> QED
      BY <1>1, <2>4, <3>1 DEF Known
  <2> QED
    BY <2>1, <2>2, <2>3, <2>4, InstallStep
<1> QED
  BY <1>2, <1>3 DEF Known

LEMMA ScriptPhase ==
  ASSUME TypeOK, Shape, [Next]_vars, phase' = "script"
  PROVE  walk' = walk /\ Entry' = Entry /\ (BeginScript \/ phase = "script")
<1>1. CASE RejectPending \/ RejectMissing \/ ImportFailsInScript \/ RejectOutdated
  BY <1>1, LoadingFailsFacts
     DEF RejectPending, RejectMissing, ImportFailsInScript, RejectOutdated
<1>2. CASE LoadingReturns
  BY <1>2 DEF LoadingReturns
<1>3. ASSUME Next, ~ LoadingReturns,
             ~ (RejectPending \/ RejectMissing \/ ImportFailsInScript \/ RejectOutdated)
      PROVE  walk' = walk /\ (BeginScript \/ phase = "script")
  BY <1>3 DEF Next, Ended, vars, RequireInDescriptor, ImportInDescriptor, ImportDeferred,
     RetryImport, DescriptorEnds, Descend, Ascend, Yield, InstallPending, PassOver, BeginScript,
     RequireInScript, ImportInScript, ScriptEnds, Resume, NextPass, StartPass, CollectEntry,
     AllCollected, InDescriptor, InScript, AtEntry, AtEnd, PassEnds
<1>4. walk' = walk /\ (BeginScript \/ phase = "script")
  BY <1>1, <1>2, <1>3 DEF vars
<1> QED
  BY <1>4 DEF Entry, Innermost

LEMMA InstalledStep ==
  ASSUME TypeOK, Shape, Known, InstalledBefore, [Next]_vars
  PROVE  InstalledBefore'
<1>1. CASE UNCHANGED <<pending, imported>>
  <2>1. Elements(pending') = Elements(pending)
    BY <1>1
  <2>2. BeginScript => Elements(pending) = {}
    BY ElementsOf DEF BeginScript, TypeOK
  <2> QED
    BY <1>1, <2>1, <2>2, ScriptPhase DEF InstalledBefore
<1>2. CASE \E p \in Plugin : \E x \in Plugin \cup {Root} : Grows(p, x)
  <2>1. phase = "script" => Entry \in Elements(plugins)
    BY InPlugin, Typed DEF Known, Innermost
  <2>2. PICK p \in Plugin : /\ p \notin Elements(plugins)
                            /\ Elements(pending') = Elements(pending) \cup {p}
                            /\ UNCHANGED <<phase, walk, imported>>
    BY <1>2 DEF Grows
  <2>3. Entry' = Entry
    BY <2>2 DEF Entry, Innermost
  <2> QED
    BY <2>1, <2>2, <2>3 DEF InstalledBefore, Known
<1>3. CASE pending' = <<>>
  BY <1>3 DEF InstalledBefore, Elements
<1>4. CASE ScriptEnds /\ imported' = imported \cup {Entry} /\ pending' = pending
  <2>1. Elements(pending') = Elements(pending) /\ phase = "script" /\ phase' = "visit"
    BY <1>4 DEF ScriptEnds, Resume
  <2> QED
    BY <1>4, <2>1 DEF InstalledBefore
<1> QED
  BY <1>1, <1>2, <1>3, <1>4, InstallStep

\* build.py goes on after an import or a plugin that has been required.
LEMMA LineStep ==
  ASSUME TypeOK, Shape, Progress, [Next]_vars
  PROVE  \/ line' = line
         \/ line' = line + 1 /\ (RequireInDescriptor \/ Line.op = "import")
<1>1. CASE RejectPending \/ RejectMissing \/ ImportFailsInScript \/ RejectOutdated
  <2>1. LoadingFails /\ Loading
    BY <1>1 DEF RejectPending, RejectMissing, ImportFailsInScript, RejectOutdated, InScript, Loading
  <2> QED
    BY <2>1, LoadingFailsFacts DEF Progress
<1>2. CASE RequireInDescriptor
  BY <1>2 DEF RequireInDescriptor
<1>3. CASE ImportInDescriptor
  BY <1>3 DEF ImportInDescriptor, InDescriptor, Line
<1>4. CASE RetryImport
  BY <1>4 DEF RetryImport, Progress
<1>5. ASSUME Next, ~ RequireInDescriptor, ~ ImportInDescriptor, ~ RetryImport,
             ~ (RejectPending \/ RejectMissing \/ ImportFailsInScript \/ RejectOutdated)
      PROVE  line' = line
  BY <1>5 DEF Next, Ended, vars, ImportDeferred, DescriptorEnds, Descend, Ascend, Yield,
     InstallPending, PassOver, BeginScript, RequireInScript, ImportInScript, ScriptEnds,
     NextPass, LoadingReturns, CollectEntry, AllCollected
<1> QED
  BY <1>1, <1>2, <1>3, <1>4, <1>5 DEF vars

\* Who loads, and from where in build.py.
LEMMA CallerStep ==
  ASSUME TypeOK, Shape, Progress, [Next]_vars
  PROVE  /\ phase' = "retry" \/ (Loading' /\ by' = "import") =>
              line' <= Len(world.script[Root]) /\ world.script[Root][line'].op = "import"
         /\ phase' \in {"collect", "collected"} \/ (Loading' /\ by' = "prepare") =>
              line' > Len(world.script[Root])
<1>1. CASE RejectPending \/ RejectMissing \/ ImportFailsInScript \/ RejectOutdated
  BY <1>1, LoadingFailsFacts
     DEF RejectPending, RejectMissing, ImportFailsInScript, RejectOutdated, Loading
<1>2. CASE RequireInDescriptor \/ ImportInDescriptor \/ RetryImport
  BY <1>2 DEF RequireInDescriptor, ImportInDescriptor, RetryImport, InDescriptor, Loading
<1>3. CASE ImportDeferred
  BY <1>3 DEF ImportDeferred, StartPass, InDescriptor, Loading
<1>4. CASE DescriptorEnds
  BY <1>4 DEF DescriptorEnds, StartPass, Loading
<1>5. CASE LoadingReturns
  <2>1. Loading /\ line' = line /\ by \in {"import", "prepare"}
        /\ (by = "import" => phase' = "retry") /\ (by = "prepare" => phase' = "collect")
    BY <1>5 DEF LoadingReturns, PassEnds, AtEnd, Loading, TypeOK
  <2> QED
    BY <2>1 DEF Progress, Loading, Line
<1>6. CASE CollectEntry \/ AllCollected
  BY <1>6 DEF CollectEntry, AllCollected, AtEntry, AtEnd, Progress, Loading
<1>7. CASE Descend \/ Ascend
  BY <1>7 DEF Descend, Ascend, Progress, Loading, Line
<1>8. CASE \/ Yield \/ InstallPending \/ PassOver \/ BeginScript \/ RequireInScript
           \/ ImportInScript \/ ScriptEnds \/ NextPass
  <2>1. Loading /\ UNCHANGED <<line, by>> /\ phase' \in {"visit", "install", "script"}
    BY <1>8 DEF Yield, InstallPending, PassOver, BeginScript, RequireInScript, ImportInScript,
       ScriptEnds, NextPass, StartPass, Resume, AtEntry, AtEnd, PassEnds, InScript, Loading
  <2> QED
    BY <2>1 DEF Progress, Loading, Line
<1>9. CASE UNCHANGED vars
  BY <1>9 DEF vars, Progress, Loading, Line
<1> QED
  BY <1>1, <1>2, <1>3, <1>4, <1>5, <1>6, <1>7, <1>8, <1>9 DEF Next, Ended

LEMMA ProgressStep ==
  ASSUME TypeOK, Shape, Known, Progress, [Next]_vars
  PROVE  Progress'
<1>0. world' = world /\ Elements(plugins) \subseteq Elements(plugins')
  BY TreeStep, PluginsGrow
<1>1. UsedBefore(Root, line)'
  <2>1. line \in Nat /\ DOMAIN world.script[Root] \subseteq Nat
    BY TypedScript DEF TypeOK
  <2>2. line' = line + 1 => Line.op = "import" \/ Line.name \in Elements(plugins')
    <3>1. RequireInDescriptor => Line.name \in Elements(plugins')
      BY Required, RequiredInDescriptor, InDescriptorHere DEF tree
    <3> QED
      BY <2>1, <3>1, LineStep
  <2>3. \A j \in DOMAIN world.script[Root] : j < line' => j < line \/ (j = line /\ line' = line + 1)
    BY <2>1, LineStep
  <2> QED
    BY <1>0, <2>1, <2>2, <2>3 DEF Progress, UsedBefore, Line
<1>2. phase' = "script" => UsedBefore(Entry, step)'
  <2> SUFFICES ASSUME phase' = "script"
               PROVE  UsedBefore(Entry, step)'
    OBVIOUS
  <2>1. walk' = walk /\ Entry' = Entry /\ (BeginScript \/ phase = "script")
    BY ScriptPhase
  <2>2. Entry \in Plugin
    BY <2>1, InPlugin DEF BeginScript
  <2>3. step \in Nat /\ DOMAIN world.script[Entry] = 1..Len(world.script[Entry])
        /\ Len(world.script[Entry]) \in Nat
    BY <2>2, TypedScript DEF TypeOK
  <2>4. CASE BeginScript
    <3>1. step' = 1
      BY <2>4 DEF BeginScript
    <3> QED
      BY <1>0, <2>1, <2>3, <3>1 DEF UsedBefore
  <2>5. CASE step' = step + 1 /\ phase = "script"
             /\ (Script[step].op = "import" \/ Script[step].name \in Elements(plugins'))
    <3>1. \A j \in DOMAIN world.script[Entry] : j < step' => j < step \/ j = step
      BY <2>3, <2>5
    <3> QED
      BY <1>0, <2>1, <2>5, <3>1 DEF UsedBefore, Progress, Script
  <2>6. CASE RequireInScript
    <3>1. RequirePlugin(Script[step].name) /\ Script[step].name \in Plugin /\ step' = step + 1
          /\ phase = "script" /\ Here = Entry
      BY <2>6, RequiredInScript, InPlugin
    <3>2. Script[step].name \in Elements(plugins')
      BY <2>2, <3>1, Required DEF tree
    <3> QED
      BY <2>5, <3>1, <3>2
  <2>7. CASE ImportInScript
    BY <2>5, <2>7 DEF ImportInScript, InScript
  <2>8. CASE UNCHANGED vars
    BY <2>1, <2>8 DEF UsedBefore, Progress, vars, BeginScript
  <2>9. CASE RejectPending \/ RejectMissing \/ ImportFailsInScript \/ RejectOutdated
    BY <2>9, LoadingFailsFacts
       DEF RejectPending, RejectMissing, ImportFailsInScript, RejectOutdated
  <2>10. CASE LoadingReturns
    BY <2>10 DEF LoadingReturns
  <2> QED
    BY <2>1, <2>4, <2>6, <2>7, <2>8, <2>9, <2>10
       DEF Next, Ended, RequireInDescriptor, ImportInDescriptor, ImportDeferred,
           RetryImport, DescriptorEnds, Descend, Ascend, Yield, InstallPending, PassOver,
           ScriptEnds, Resume, NextPass, StartPass, CollectEntry,
           AllCollected, InDescriptor, InScript, AtEntry, AtEnd, PassEnds
<1>3. \A p \in imported' : Uses(p)' \subseteq Elements(plugins') /\ modules'[p] = p
  <2>1. \A p \in imported : Uses(p)' \subseteq Elements(plugins')
    BY <1>0 DEF Progress, Uses
  <2>2. CASE UNCHANGED <<imported, modules>>
    BY <2>1, <2>2 DEF Progress
  <2>3. CASE ScriptEnds /\ imported' = imported \cup {Entry}
             /\ modules' = [modules EXCEPT ![Entry] = Entry]
    <3>1. phase = "script" /\ step > Len(Script) /\ Entry \in Plugin
      BY <2>3, InPlugin DEF ScriptEnds
    <3>2. step \in Nat /\ DOMAIN world.script[Entry] = 1..Len(world.script[Entry])
          /\ Len(world.script[Entry]) \in Nat
      BY <3>1, TypedScript DEF TypeOK
    <3>3. \A j \in DOMAIN world.script[Entry] :
            world.script[Entry][j].op = "use" => world.script[Entry][j].name \in Elements(plugins)
      BY <3>1, <3>2 DEF Progress, UsedBefore, Script
    <3>4. Uses(Entry) \subseteq Elements(plugins)
      BY <3>3 DEF Uses, Elements
    <3>5. modules' \in [Plugin -> Plugin \cup {Root}] /\ modules'[Entry] = Entry
          /\ \A p \in Plugin \ {Entry} : modules'[p] = modules[p]
      BY <2>3, <3>1 DEF TypeOK
    <3>6. imported \subseteq Plugin
      BY DEF TypeOK
    <3>7. \A p \in Plugin : Uses(p)' = Uses(p)
      BY <1>0 DEF Uses
    <3> QED
      BY <1>0, <2>1, <2>3, <3>1, <3>4, <3>5, <3>6, <3>7 DEF Progress
  <2> QED
    BY <2>2, <2>3, InstallStep DEF Grows
<1> QED
  BY <1>0, <1>1, <1>2, <1>3, CallerStep DEF Progress, Line

----------------------------------------------------------------------------
(* How far a traversal has come *)

LEMMA InnermostIs ==
  ASSUME TypeOK, walk # <<>>
  PROVE  /\ Len(walk) \in DOMAIN walk /\ Len(walk) >= 1
         /\ Innermost = walk[Len(walk)]
         /\ Entry = At(Len(walk))
BY Typed DEF Innermost, Entry, At

LEMMA InnermostNext ==
  ASSUME walk' = walk
  PROVE  Innermost' = Innermost /\ Entry' = Entry /\ \A k : At(k)' = At(k)
BY DEF Innermost, Entry, At

LEMMA DescendingInto ==
  ASSUME TypeOK, Shape, Descend
  PROVE  /\ walk # <<>> /\ Innermost.at \in DOMAIN Innermost.items
         /\ Entry \in Plugin /\ Entry \in Elements(Innermost.items)
         /\ ~ Innermost.below
         /\ phase \in {"visit", "collect"}
         /\ Innermost'.below = FALSE
         /\ \A k \in DOMAIN walk : /\ k \in DOMAIN walk'
                                   /\ walk'[k].items = walk[k].items
                                   /\ walk'[k].at = walk[k].at
                                   /\ At(k)' = At(k)
         /\ \A k \in DOMAIN walk' : k \in DOMAIN walk \/ k = Len(walk) + 1
         /\ walk'[Len(walk) + 1].items = children[Entry]
         /\ walk'[Len(walk) + 1].at = 1
         /\ UNCHANGED <<world, phase, tree, stack, seen, imported, collected>>
<1>1. walk # <<>> /\ Innermost.at <= Len(Innermost.items) /\ ~ Innermost.below
      /\ phase \in {"visit", "collect"}
      /\ UNCHANGED <<world, phase, tree, stack, seen, imported, collected>>
  BY DEF Descend, AtEntry
<1>2. Entry \in Plugin /\ Entry \in Elements(Innermost.items)
      /\ Innermost.at \in DOMAIN Innermost.items
  BY <1>1, TypedEntry
<1>3. \A k \in DOMAIN walk : /\ k \in DOMAIN walk'
                             /\ walk'[k].items = walk[k].items
                             /\ walk'[k].at = walk[k].at
  <2> SUFFICES ASSUME NEW k \in DOMAIN walk
               PROVE  /\ k \in DOMAIN walk'
                      /\ walk'[k].items = walk[k].items
                      /\ walk'[k].at = walk[k].at
    OBVIOUS
  <2>1. k \in DOMAIN walk' /\ (k < Len(walk) \/ k = Len(walk))
    BY Descending, Typed
  <2> QED
    BY <2>1, Descending DEF Innermost
<1>4. \A k \in DOMAIN walk : At(k)' = At(k)
  BY <1>3 DEF At
<1>5. \A k \in DOMAIN walk' : k \in DOMAIN walk \/ k = Len(walk) + 1
  BY Descending, Typed
<1>6. Innermost'.below = FALSE
  BY Descending DEF Innermost
<1> QED
  BY <1>1, <1>2, <1>3, <1>4, <1>5, <1>6, Descending

LEMMA AscendingFrom ==
  ASSUME TypeOK, Shape, Ascend
  PROVE  /\ walk # <<>> /\ Len(walk) > 1
         /\ Innermost.at > Len(Innermost.items) /\ ~ Innermost.below
         /\ phase \in {"visit", "collect"}
         /\ Innermost' = walk[Len(walk) - 1] /\ Innermost'.below
         /\ Entry' = At(Len(walk) - 1)
         /\ \A k \in DOMAIN walk' : /\ k \in DOMAIN walk /\ k < Len(walk)
                                    /\ walk'[k] = walk[k] /\ At(k)' = At(k)
         /\ \A k \in DOMAIN walk : k \in DOMAIN walk' \/ k = Len(walk)
         /\ UNCHANGED <<world, phase, tree, stack, seen, imported, collected>>
<1>1. walk # <<>> /\ Len(walk) > 1 /\ Innermost.at > Len(Innermost.items)
      /\ phase \in {"visit", "collect"}
      /\ UNCHANGED <<world, phase, tree, stack, seen, imported, collected>>
  BY Ascending DEF Ascend, AtEnd
<1>2. ~ Innermost.below
  BY <1>1, InnermostIs, Typed DEF Shape
<1>3. \A k \in DOMAIN walk' : k \in DOMAIN walk /\ k < Len(walk) /\ walk'[k] = walk[k]
  BY Ascending, Typed
<1>4. \A k \in DOMAIN walk : k \in DOMAIN walk' \/ k = Len(walk)
  BY Ascending, Typed
<1>5. Len(walk) - 1 \in DOMAIN walk'
  BY Ascending, Typed
<1>6. Innermost' = walk[Len(walk) - 1] /\ walk[Len(walk) - 1].below
  BY <1>3, <1>5, Ascending DEF Innermost, Shape
<1>7. \A k \in DOMAIN walk' : At(k)' = At(k)
  BY <1>3 DEF At
<1>8. Entry' = At(Len(walk) - 1)
  BY <1>6 DEF Entry, At
<1> QED
  BY <1>1, <1>2, <1>3, <1>4, <1>6, <1>7, <1>8

LEMMA GoingOn ==
  ASSUME TypeOK, Shape, walk # <<>>, Innermost.at <= Len(Innermost.items), GoOn
  PROVE  /\ Entry \in Plugin /\ Entry \in Elements(Innermost.items)
         /\ Innermost.at \in DOMAIN Innermost.items
         /\ DOMAIN walk' = DOMAIN walk /\ Len(walk') = Len(walk)
         /\ Innermost'.below = FALSE
         /\ \A k \in DOMAIN walk : k < Len(walk) => walk'[k] = walk[k] /\ At(k)' = At(k)
         /\ \A k \in DOMAIN walk : walk'[k].items = walk[k].items
         /\ \A k \in DOMAIN walk : k < Len(walk) \/ k = Len(walk)
         /\ walk'[Len(walk)].at = walk[Len(walk)].at + 1
<1>1. Entry \in Plugin /\ Entry \in Elements(Innermost.items)
      /\ Innermost.at \in DOMAIN Innermost.items
  BY TypedEntry
<1>2. \A k \in DOMAIN walk : k < Len(walk) => walk'[k] = walk[k] /\ At(k)' = At(k)
  BY Going DEF At
<1>3. \A k \in DOMAIN walk : k < Len(walk) \/ k = Len(walk)
  BY Typed
<1>4. walk'[Len(walk)].items = walk[Len(walk)].items
      /\ walk'[Len(walk)].at = walk[Len(walk)].at + 1 /\ Innermost'.below = FALSE
  BY Going DEF Innermost
<1>5. \A k \in DOMAIN walk : walk'[k].items = walk[k].items
  BY <1>2, <1>3, <1>4
<1> QED
  BY <1>1, <1>2, <1>3, <1>4, <1>5, Going

LEMMA NestedStarts ==
  ASSUME TypeOK, walk' = <<Traverse(children[Root])>>, children' = children
  PROVE  Nested'
BY Starting DEF Nested

LEMMA NestedMoves ==
  ASSUME TypeOK, Shape, Nested, walk # <<>>, children' = children,
         \/ Descend
         \/ Ascend
         \/ GoOn /\ Innermost.at <= Len(Innermost.items)
  PROVE  Nested'
<1>0. 1 \in DOMAIN walk /\ Len(walk) \in DOMAIN walk /\ Len(walk) \in Nat
      /\ DOMAIN walk = 1..Len(walk)
  BY Typed
<1>1. CASE Descend
  <2>1. walk'[1].items = walk[1].items
    BY <1>0, <1>1, DescendingInto
  <2>2. ASSUME NEW k \in DOMAIN walk', k > 1
        PROVE  walk'[k].items = children'[At(k - 1)']
    <3>1. CASE k \in DOMAIN walk
      <4>1. k - 1 \in DOMAIN walk
        BY <1>0, <2>2, <3>1
      <4> QED
        BY <1>1, <2>2, <3>1, <4>1, DescendingInto DEF Nested
    <3>2. CASE k = Len(walk) + 1
      <4>1. k - 1 = Len(walk)
        BY <1>0, <3>2
      <4> QED
        BY <1>0, <1>1, <3>2, <4>1, DescendingInto, InnermostIs
    <3> QED
      BY <1>1, <3>1, <3>2, DescendingInto
  <2> QED
    BY <2>1, <2>2 DEF Nested, At
<1>2. CASE Ascend
  <2>0. DOMAIN walk' = 1..(Len(walk) - 1) /\ Len(walk) > 1
    BY <1>2, Ascending
  <2>1. 1 \in DOMAIN walk' /\ \A k \in DOMAIN walk' : k > 1 => k - 1 \in DOMAIN walk'
    BY <1>0, <2>0
  <2> QED
    BY <1>2, <2>1, AscendingFrom DEF Nested, At
<1>3. CASE GoOn /\ Innermost.at <= Len(Innermost.items)
  <2>1. \A k \in DOMAIN walk : k > 1 => k - 1 \in DOMAIN walk /\ k - 1 < Len(walk)
    BY <1>0
  <2>2. \A k \in DOMAIN walk' : k > 1 => walk'[k].items = children'[At(k - 1)']
    BY <1>3, <2>1, GoingOn DEF Nested
  <2> QED
    BY <1>0, <1>3, <2>2, GoingOn DEF Nested, At
<1> QED
  BY <1>1, <1>2, <1>3

LEMMA DoneStarts ==
  ASSUME TypeOK, walk' = <<Traverse(children[Root])>>, phase' \in {"visit", "collect"}
  PROVE  Done({})'
<1>1. Innermost'.below = FALSE
  BY Starting DEF Innermost
<1>2. \A i \in DOMAIN children[Root] : ~ (i < 1)
  <2>1. children[Root] \in Seq(Plugin)
    BY DEF TypeOK
  <2> QED
    BY <2>1
<1>3. \A k \in DOMAIN walk' : \A i \in DOMAIN walk'[k].items : ~ (i < walk'[k].at)
  BY <1>2, Starting
<1> QED
  BY <1>1, <1>3 DEF Done

LEMMA DoneDescends ==
  ASSUME TypeOK, Shape, Descend, NEW D, Done(D)
  PROVE  Done(D)'
<1>1. children' = children
  BY DescendingInto DEF tree
<1>2. \A k \in DOMAIN walk' : \A i \in DOMAIN walk'[k].items :
        i < walk'[k].at => walk'[k].items[i] \in D
  <2>1. \A i \in DOMAIN children[Entry] : ~ (i < 1)
    <3>1. children[Entry] \in Seq(Plugin)
      BY DescendingInto DEF TypeOK
    <3> QED
      BY <3>1
  <2> QED
    BY <2>1, DescendingInto DEF Done
<1> QED
  BY <1>1, <1>2, DescendingInto DEF Done

LEMMA DoneAscends ==
  ASSUME TypeOK, Shape, Nested, Ascend, NEW D, Done(D)
  PROVE  Done(D)'
<1>1. children' = children
  BY AscendingFrom DEF tree
<1>2. Elements(children[At(Len(walk) - 1)]) \subseteq D
  <2>1. walk[Len(walk)].items = children[At(Len(walk) - 1)]
    BY AscendingFrom, InnermostIs DEF Nested
  <2>2. \A i \in DOMAIN walk[Len(walk)].items : i < walk[Len(walk)].at
    BY AscendingFrom, InnermostIs, Typed
  <2>3. \A i \in DOMAIN walk[Len(walk)].items : walk[Len(walk)].items[i] \in D
    BY <2>2, AscendingFrom, InnermostIs DEF Done
  <2> QED
    BY <2>1, <2>3 DEF Elements
<1> QED
  BY <1>1, <1>2, AscendingFrom DEF Done

LEMMA DoneGoesOn ==
  ASSUME TypeOK, Shape, walk # <<>>, Innermost.at <= Len(Innermost.items), GoOn,
         children' = children, phase' \in {"visit", "collect"},
         NEW D, Done(D), Elements(children[Entry]) \subseteq D, NEW e, e = Entry
  PROVE  Done(D \cup {e})'
<1> DEFINE C == D \cup {e}
<1>1. \A p \in C : Elements(children'[p]) \subseteq C
  BY DEF Done
<1>2. \A k \in DOMAIN walk' : \A i \in DOMAIN walk'[k].items :
        i < walk'[k].at => walk'[k].items[i] \in C
  <2> SUFFICES ASSUME NEW k \in DOMAIN walk', NEW i \in DOMAIN walk'[k].items, i < walk'[k].at
               PROVE  walk'[k].items[i] \in C
    OBVIOUS
  <2>1. k \in DOMAIN walk /\ walk'[k].items = walk[k].items /\ i \in DOMAIN walk[k].items
        /\ (k < Len(walk) \/ k = Len(walk))
    BY GoingOn
  <2>2. CASE k < Len(walk)
    BY <2>1, <2>2, GoingOn DEF Done
  <2>3. CASE k = Len(walk)
    <3>1. i < walk[k].at \/ i = walk[k].at
      BY <2>1, <2>3, GoingOn, Typed
    <3> QED
      BY <2>1, <2>3, <3>1, InnermostIs DEF Done, At
  <2> QED
    BY <2>1, <2>2, <2>3
<1> QED
  BY <1>1, <1>2, GoingOn DEF Done

----------------------------------------------------------------------------
(* The passes *)

\* A plugin that grows the tree or gets its module shows in mods; a pass is not
\* the last one then.
LEMMA ModsStep ==
  ASSUME TypeOK, Shape, Known, [Next]_vars
  PROVE  \/ seen' = mods' /\ mods' = mods /\ walk' = <<Traverse(children[Root])>>
            /\ phase' = "visit" /\ children' = children
         \/ seen' = seen /\ mods' = mods /\ UNCHANGED <<plugins, children, imported>>
         \/ seen' = seen /\ mods' = mods + 1 /\ phase \in {"descriptor", "script"}
            /\ phase' \in {"descriptor", "script", "visit"} /\ collected' = collected
<1>1. CASE RequireInDescriptor \/ RequireInScript
  <2>1. UNCHANGED <<seen, imported, phase, collected>> /\ phase \in {"descriptor", "script"}
    BY <1>1 DEF RequireInDescriptor, RequireInScript, InDescriptor, InScript
  <2>2. mods' = mods + 1 \/ UNCHANGED tree
    <3>1. CASE RequireInDescriptor
      <4>1. RequirePlugin(Line.name)
        BY <3>1, RequiredInDescriptor
      <4> QED
        BY <4>1 DEF RequirePlugin
    <3>2. CASE RequireInScript
      <4>1. RequirePlugin(Script[step].name)
        BY <3>2, RequiredInScript
      <4> QED
        BY <4>1 DEF RequirePlugin
    <3> QED
      BY <1>1, <3>1, <3>2
  <2> QED
    BY <2>1, <2>2 DEF tree
<1>2. CASE ScriptEnds
  BY <1>2 DEF ScriptEnds, Resume
<1>3. CASE ImportDeferred \/ DescriptorEnds \/ NextPass
  BY <1>3 DEF ImportDeferred, DescriptorEnds, NextPass, StartPass, tree
<1>4. CASE RejectPending \/ RejectMissing \/ ImportFailsInScript \/ RejectOutdated
  BY <1>4, LoadingFailsFacts
     DEF RejectPending, RejectMissing, ImportFailsInScript, RejectOutdated, tree
<1>5. CASE \/ ImportInDescriptor \/ RetryImport \/ Descend \/ Ascend \/ Yield \/ InstallPending
           \/ PassOver \/ BeginScript \/ ImportInScript \/ LoadingReturns \/ CollectEntry
           \/ AllCollected \/ UNCHANGED vars
  BY <1>5 DEF vars, tree, ImportInDescriptor, RetryImport, Descend, Ascend, Yield, InstallPending,
     PassOver, BeginScript, ImportInScript, LoadingReturns, CollectEntry, AllCollected
<1> QED
  BY <1>1, <1>2, <1>3, <1>4, <1>5 DEF Next, Ended

\* A pass over a tree that stays as it is.
LEMMA PassGoesOn ==
  ASSUME TypeOK, Shape, Known, Pass, [Next]_vars, Loading, Loading', seen = mods,
         UNCHANGED <<seen, mods, plugins, children, imported>>
  PROVE  (Nested /\ \E D \in SUBSET imported : Done(D))'
<1>0. Nested /\ walk # <<>>
  BY DEF Pass, Shape, Loading
<1>1. PICK D \in SUBSET imported : Done(D)
  BY DEF Pass
<1>2. D \in SUBSET imported'
  BY <1>1
<1>3. CASE Descend
  BY <1>0, <1>1, <1>2, <1>3, DoneDescends, NestedMoves
<1>4. CASE Ascend
  BY <1>0, <1>1, <1>2, <1>4, DoneAscends, NestedMoves
<1>5. CASE Yield
  <2>1. walk' = walk /\ phase' = "install" /\ EntryIsNext /\ Innermost.at <= Len(Innermost.items)
    BY <1>5 DEF Yield, AtEntry
  <2>2. Elements(children[Entry]) \subseteq D
    <3>1. Elements(<<>>) = {}
      BY DEF Elements
    <3> QED
      BY <1>1, <2>1, <3>1 DEF EntryIsNext, Done
  <2>3. Done(D)'
    BY <1>1, <2>1, <2>2, InnermostNext DEF Done
  <2> QED
    BY <1>0, <1>2, <2>1, <2>3 DEF Nested, At
<1>6. CASE PassOver
  <2>1. phase = "install" /\ Entry \in imported /\ GoOn /\ phase' = "visit"
        /\ Innermost.at <= Len(Innermost.items)
    BY <1>6, InPlugin DEF PassOver, Resume
  <2>2. PICK e : e = Entry
    OBVIOUS
  <2>3. Elements(children[Entry]) \subseteq D
    BY <1>1, <2>1 DEF Done
  <2>4. Done(D \cup {e})'
    BY <1>0, <1>1, <2>1, <2>2, <2>3, DoneGoesOn
  <2>5. D \cup {e} \in SUBSET imported'
    BY <1>2, <2>1, <2>2
  <2>6. Nested'
    BY <1>0, <2>1, NestedMoves
  <2> QED
    BY <2>4, <2>5, <2>6
<1>7. CASE \/ InstallPending \/ BeginScript \/ RequireInScript \/ ImportInScript
           \/ (UNCHANGED vars)
  <2>1. walk' = walk /\ (phase' = phase \/ phase = "install")
    BY <1>7 DEF InstallPending, BeginScript, RequireInScript, ImportInScript, vars
  <2>2. Done(D)'
    BY <1>1, <2>1, InnermostNext DEF Done
  <2> QED
    BY <1>0, <1>2, <2>1, <2>2 DEF Nested, At
<1>8. ~ ScriptEnds
  BY DEF ScriptEnds, TypeOK
<1>9. CASE NextPass
  BY <1>9 DEF NextPass
<1>10. CASE \/ RejectPending \/ RejectMissing \/ ImportFailsInScript \/ RejectOutdated
            \/ LoadingReturns
  BY <1>10, LoadingFailsFacts
     DEF RejectPending, RejectMissing, ImportFailsInScript, RejectOutdated, LoadingReturns, Loading
<1>11. CASE \/ RequireInDescriptor \/ ImportInDescriptor \/ ImportDeferred \/ RetryImport
            \/ DescriptorEnds \/ CollectEntry \/ AllCollected
  BY <1>11 DEF RequireInDescriptor, ImportInDescriptor, ImportDeferred, RetryImport,
     DescriptorEnds, CollectEntry, AllCollected, InDescriptor, AtEntry, AtEnd, Loading
<1> QED
  BY <1>3, <1>4, <1>5, <1>6, <1>7, <1>8, <1>9, <1>10, <1>11 DEF Next, Ended

LEMMA AllImported ==
  ASSUME TypeOK, Shape, Rooted, Pass, LoadingReturns
  PROVE  Elements(plugins) \subseteq imported
<1>1. /\ phase = "visit" /\ walk # <<>> /\ Len(walk) = 1 /\ seen = mods
      /\ Innermost.at > Len(Innermost.items)
  BY DEF LoadingReturns, PassEnds, AtEnd
<1>2. Nested
  BY <1>1 DEF Pass, Loading
<1>3. PICK D \in SUBSET imported : Done(D)
  BY <1>1 DEF Pass, Loading
<1>4. 1 \in DOMAIN walk /\ walk[1].items = children[Root] /\ walk[1].at > Len(walk[1].items)
      /\ DOMAIN walk[1].items = 1..Len(walk[1].items)
  BY <1>1, <1>2, Typed DEF Nested, Innermost
<1>5. \A i \in DOMAIN walk[1].items : walk[1].items[i] \in D
  BY <1>3, <1>4, Typed DEF Done
<1>6. Elements(children[Root]) \subseteq D
  BY <1>4, <1>5 DEF Elements
<1>7. D \in SUBSET Plugin /\ \A p \in D : Elements(children[p]) \subseteq D
  BY <1>3 DEF Done, TypeOK
<1> QED
  BY <1>3, <1>6, <1>7 DEF Rooted

LEMMA PassStep ==
  ASSUME TypeOK, Shape, Known, Rooted, Pass, [Next]_vars
  PROVE  Pass'
<1>0. mods \in Nat /\ seen \in Nat /\ seen <= mods
  BY DEF TypeOK, Pass
<1>1. seen' <= mods'
  BY <1>0, ModsStep
<1>2. Loading' /\ seen' = mods' => (Nested /\ \E D \in SUBSET imported : Done(D))'
  <2> SUFFICES ASSUME Loading', seen' = mods'
               PROVE  (Nested /\ \E D \in SUBSET imported : Done(D))'
    OBVIOUS
  <2>1. CASE walk' = <<Traverse(children[Root])>> /\ phase' = "visit" /\ children' = children
    BY <2>1, NestedStarts, DoneStarts
  <2>2. CASE /\ ~ (walk' = <<Traverse(children[Root])>> /\ phase' = "visit")
             /\ UNCHANGED <<seen, mods, plugins, children, imported>>
    <3>1. Loading
      <4>1. CASE RetryImport
        BY <4>1 DEF RetryImport, Loading
      <4>2. CASE RequireInDescriptor \/ ImportInDescriptor
        BY <4>2 DEF RequireInDescriptor, ImportInDescriptor, InDescriptor, Loading
      <4>3. CASE ImportDeferred \/ DescriptorEnds
        BY <2>2, <4>3 DEF ImportDeferred, DescriptorEnds, StartPass
      <4>4. CASE CollectEntry \/ AllCollected
        BY <4>4 DEF CollectEntry, AllCollected, AtEntry, AtEnd, Loading
      <4>5. CASE Descend \/ Ascend \/ UNCHANGED vars
        BY <4>5 DEF Descend, Ascend, vars, Loading
      <4>6. CASE \/ Yield \/ InstallPending \/ PassOver \/ BeginScript \/ RequireInScript
                 \/ ImportInScript \/ ScriptEnds \/ NextPass \/ LoadingReturns
                 \/ RejectPending \/ RejectMissing \/ ImportFailsInScript \/ RejectOutdated
        BY <4>6 DEF Yield, InstallPending, PassOver, BeginScript, RequireInScript, ImportInScript,
           ScriptEnds, NextPass, LoadingReturns, RejectPending, RejectMissing,
           ImportFailsInScript, RejectOutdated, AtEntry, AtEnd, PassEnds, InScript, Loading
      <4> QED
        BY <4>1, <4>2, <4>3, <4>4, <4>5, <4>6 DEF Next, Ended
    <3> QED
      BY <2>2, <3>1, PassGoesOn
  <2> QED
    BY <1>0, <2>1, <2>2, ModsStep
<1>3. phase' \in {"retry", "collect", "collected"} => Elements(plugins') \subseteq imported'
  <2> SUFFICES ASSUME phase' \in {"retry", "collect", "collected"}
               PROVE  Elements(plugins') \subseteq imported'
    OBVIOUS
  <2>1. UNCHANGED <<plugins, imported>>
    BY ModsStep
  <2>2. CASE LoadingReturns
    BY <2>1, <2>2, AllImported
  <2>3. CASE phase \in {"retry", "collect", "collected"}
    BY <2>1, <2>3 DEF Pass
  <2>4. CASE RejectPending \/ RejectMissing \/ ImportFailsInScript \/ RejectOutdated
    BY <2>4, LoadingFailsFacts
       DEF RejectPending, RejectMissing, ImportFailsInScript, RejectOutdated
  <2>5. CASE UNCHANGED vars
    BY <2>3, <2>5 DEF vars
  <2> QED
    BY <2>2, <2>3, <2>4, <2>5
       DEF Next, Ended, RequireInDescriptor, ImportInDescriptor, ImportDeferred,
           RetryImport, DescriptorEnds, Descend, Ascend, Yield, InstallPending, PassOver,
           BeginScript, RequireInScript, ImportInScript, ScriptEnds, Resume, NextPass, StartPass,
           CollectEntry, AllCollected, InDescriptor, InScript, AtEntry, AtEnd, PassEnds
<1> QED
  BY <1>1, <1>2, <1>3 DEF Pass

----------------------------------------------------------------------------
(* The collection *)

LEMMA BeforeStrict ==
  ASSUME TypeOK, Order
  PROVE  /\ \A p \in Plugin : ~ Before(p, p)
         /\ \A p, q, r \in Plugin : Before(p, q) /\ Before(q, r) => Before(p, r)
<1>1. DOMAIN plugins \subseteq Nat
  <2>1. plugins \in Seq(Plugin)
    BY DEF TypeOK
  <2> QED
    BY <2>1
<1> QED
  BY <1>1 DEF Before, Order

\* What is at one place of the tree is below one plugin only.
LEMMA SamePlace ==
  ASSUME OnePlaceEach, NEW x \in Plugin \cup {Root}, NEW y \in Plugin \cup {Root},
         NEW i \in DOMAIN children[x], NEW j \in DOMAIN children[y],
         children[x][i] = children[y][j]
  PROVE  x = y /\ i = j
BY DEF OnePlaceEach

\* The generator a plugin is in has the entries of Root or of an entry outside.
LEMMA Parent ==
  ASSUME TypeOK, Shape, Nested, NEW k \in DOMAIN walk
  PROVE  \/ k = 1 /\ walk[k].items = children[Root]
         \/ /\ k > 1 /\ k - 1 \in DOMAIN walk /\ At(k - 1) \in Plugin
            /\ At(k - 1) \in Elements(walk[k - 1].items)
            /\ walk[k].items = children[At(k - 1)]
<1>1. CASE k = 1
  BY <1>1 DEF Nested
<1>2. CASE k # 1
  <2>1. k > 1 /\ k - 1 \in DOMAIN walk /\ k - 1 < Len(walk)
    BY <1>2, Typed
  <2>2. walk[k - 1].at \in DOMAIN walk[k - 1].items
    BY <2>1, Typed DEF Shape
  <2>3. At(k - 1) \in Elements(walk[k - 1].items)
    BY <2>2 DEF At, Elements
  <2>4. Elements(walk[k - 1].items) \subseteq Plugin
    BY <2>1, ElementsOf, Typed
  <2> QED
    BY <2>1, <2>3, <2>4 DEF Nested
<1> QED
  BY <1>1, <1>2

\* No entry is in two generators.
LEMMA OneGenerator ==
  ASSUME TypeOK, Shape, OnePlaceEach, Order, Nested, Path,
         NEW j \in DOMAIN walk, NEW k \in DOMAIN walk, j <= k,
         NEW a \in DOMAIN walk[j].items, NEW b \in DOMAIN walk[k].items,
         walk[j].items[a] = walk[k].items[b]
  PROVE  j = k /\ a = b
<1>0. Root \notin Plugin
  BY DeferredPluginsAssumption
<1>1. CASE j = 1 /\ k = 1
  <2>1. walk[1].items = children[Root]
    BY DEF Nested
  <2> QED
    BY <1>1, <2>1, SamePlace
<1>2. CASE j = 1 /\ k > 1
  <2>1. walk[j].items = children[Root]
    BY <1>2 DEF Nested
  <2>2. At(k - 1) \in Plugin /\ walk[k].items = children[At(k - 1)]
    BY <1>2, Parent
  <2> QED
    BY <1>0, <2>1, <2>2, SamePlace
<1>3. CASE j > 1
  <2>0. k > 1
    BY <1>3, Typed
  <2>1. /\ At(j - 1) \in Plugin /\ walk[j].items = children[At(j - 1)]
        /\ At(k - 1) \in Plugin /\ walk[k].items = children[At(k - 1)]
        /\ At(k - 1) \in Elements(walk[k - 1].items)
        /\ j - 1 \in DOMAIN walk /\ k - 1 \in DOMAIN walk
    BY <1>3, <2>0, Parent
  <2>2. At(j - 1) = At(k - 1) /\ a = b
    BY <2>1, SamePlace
  <2>3. ~ (j < k)
    <3> SUFFICES ASSUME j < k
                 PROVE  FALSE
      OBVIOUS
    <3>1. j - 1 < k - 1
      BY Typed
    <3>2. Before(At(j - 1), At(k - 1))
      BY <2>1, <3>1 DEF Path
    <3> QED
      BY <2>1, <2>2, <3>2, BeforeStrict
  <2> QED
    BY <2>2, <2>3, Typed
<1> QED
  BY <1>1, <1>2, <1>3, Typed

LEMMA CollectionStarts ==
  ASSUME TypeOK, collected = <<>>, collected' = <<>>, children' = children,
         phase' = "collect", walk' = <<Traverse(children[Root])>>
  PROVE  CollectState'
<1>1. Elements(<<>>) = {}
  BY DEF Elements
<1>2. Nested' /\ Done({})'
  BY NestedStarts, DoneStarts
<1>3. Done(Elements(collected))'
  BY <1>1, <1>2 DEF Done
<1>4. Path'
  BY Starting DEF Path
<1>5. Fresh' /\ \A p \in Elements(collected') : Placed(p)'
  BY <1>1 DEF Fresh
<1> QED
  BY <1>2, <1>3, <1>4, <1>5 DEF CollectState

\* None of the entries below has been collected before the entry.
LEMMA BelowIsFresh ==
  ASSUME TypeOK, Shape, OnePlaceEach, Order, CollectState, Descend,
         NEW i \in DOMAIN children[Entry]
  PROVE  children[Entry][i] \notin Elements(collected)
<1>0. /\ Nested /\ Path /\ Fresh /\ Entry \in Plugin /\ Root \notin Plugin
      /\ Entry = At(Len(walk)) /\ Len(walk) \in DOMAIN walk
      /\ Innermost = walk[Len(walk)]
      /\ ~ Innermost.below /\ Entry \in Elements(Innermost.items)
      /\ Innermost.at \in DOMAIN Innermost.items
  BY DescendingInto, InnermostIs, DeferredPluginsAssumption DEF CollectState
<1> DEFINE p == children[Entry][i]
<1> SUFFICES ASSUME p \in Elements(collected)
             PROVE  FALSE
  OBVIOUS
<1>1. Entry \notin Elements(collected)
  <2>1. Innermost.items[Innermost.at] \notin Elements(collected)
    BY <1>0, Typed DEF Fresh
  <2> QED
    BY <2>1 DEF Entry
<1>2. Placed(p)
  BY DEF CollectState
<1>3. CASE \E k \in DOMAIN walk : \E j \in DOMAIN walk[k].items : walk[k].items[j] = p
  <2>0. PICK k \in DOMAIN walk : \E j \in DOMAIN walk[k].items : walk[k].items[j] = p
    BY <1>3
  <2>1. PICK j \in DOMAIN walk[k].items : walk[k].items[j] = p
    BY <2>0
  <2>2. CASE k = 1 /\ walk[k].items = children[Root]
    BY <1>0, <2>1, <2>2, SamePlace
  <2>3. CASE /\ k > 1 /\ k - 1 \in DOMAIN walk /\ At(k - 1) \in Plugin
             /\ walk[k].items = children[At(k - 1)]
    <3>1. At(k - 1) = Entry
      BY <1>0, <2>1, <2>3, SamePlace
    <3>2. k - 1 < Len(walk)
      BY <2>1, <2>3, Typed
    <3>3. Before(At(k - 1), Entry)
      BY <1>0, <2>3, <3>2 DEF Path
    <3> QED
      BY <1>0, <3>1, <3>3, BeforeStrict
  <2> QED
    BY <1>0, <2>2, <2>3, Parent
<1>4. CASE \E q \in Elements(collected) : p \in Elements(children[q])
  <2>1. PICK q \in Elements(collected) : p \in Elements(children[q])
    BY <1>4
  <2>2. q \in Plugin \cup {Root}
    BY ElementsOf DEF TypeOK
  <2>3. PICK j \in DOMAIN children[q] : children[q][j] = p
    BY <2>1 DEF Elements
  <2>4. q = Entry
    BY <1>0, <2>2, <2>3, SamePlace
  <2> QED
    BY <1>1, <2>1, <2>4
<1> QED
  BY <1>0, <1>2, <1>3, <1>4 DEF Placed

LEMMA CollectionDescends ==
  ASSUME TypeOK, Shape, OnePlaceEach, Order, CollectState, Descend
  PROVE  CollectState'
<1>0. Nested /\ Path /\ Fresh /\ walk # <<>>
      /\ children' = children /\ collected' = collected /\ plugins' = plugins
  BY DescendingInto DEF CollectState, tree
<1>1. Nested'
  BY <1>0, NestedMoves
<1>2. PICK C : C = Elements(collected)
  OBVIOUS
<1>3. Done(C) /\ Elements(collected') = C
  BY <1>0, <1>2 DEF CollectState
<1>4. Done(C)'
  BY <1>3, DoneDescends
<1>5. Done(Elements(collected))'
  BY <1>3, <1>4 DEF Done
<1>7. Path'
  <2> SUFFICES ASSUME NEW j \in DOMAIN walk', NEW k \in DOMAIN walk', j < k,
                      NEW q \in Elements(walk'[k].items), NEW a, a = At(j)'
               PROVE  Before(a, q)
    BY <1>0 DEF Path, Before
  <2>1. CASE k \in DOMAIN walk
    <3>1. j \in DOMAIN walk
      BY <2>1, DescendingInto, Typed
    <3> QED
      BY <1>0, <2>1, <3>1, DescendingInto DEF Path
  <2>2. CASE k = Len(walk) + 1
    <3>1. j \in DOMAIN walk /\ (j < Len(walk) \/ j = Len(walk)) /\ At(j)' = At(j)
      BY <2>2, DescendingInto, Typed
    <3>2. q \in Elements(children[Entry]) /\ Entry \in Plugin
      BY <2>2, DescendingInto
    <3>3. Before(Entry, q)
      BY <3>2 DEF Order
    <3>4. CASE j = Len(walk)
      BY <1>0, <3>1, <3>3, <3>4, InnermostIs
    <3>5. CASE j < Len(walk)
      <4>1. Before(At(j), Entry)
        BY <1>0, <3>1, <3>5, DescendingInto, InnermostIs DEF Path
      <4>2. At(j) \in Plugin /\ q \in Plugin
        <5>1. walk[j].at \in DOMAIN walk[j].items
          BY <3>1, <3>5, Typed DEF Shape
        <5>2. At(j) \in Plugin
          BY <3>1, <5>1, Typed DEF At
        <5>3. q \in Plugin
          BY <3>2, ElementsOf DEF TypeOK
        <5> QED
          BY <5>2, <5>3
      <4> QED
        BY <3>1, <3>2, <3>3, <4>1, <4>2, BeforeStrict
    <3> QED
      BY <3>1, <3>4, <3>5
  <2> QED
    BY <2>1, <2>2, DescendingInto
<1>8. Fresh'
  <2> SUFFICES ASSUME NEW k \in DOMAIN walk', NEW i \in DOMAIN walk'[k].items, i >= walk'[k].at
               PROVE  walk'[k].items[i] \notin Elements(collected')
    BY DEF Fresh
  <2>1. CASE k \in DOMAIN walk
    BY <1>0, <2>1, DescendingInto DEF Fresh
  <2>2. CASE k = Len(walk) + 1
    BY <1>0, <2>2, DescendingInto, BelowIsFresh
  <2> QED
    BY <2>1, <2>2, DescendingInto
<1>9. \A p \in Elements(collected') : Placed(p)'
  <2> SUFFICES ASSUME NEW p \in Elements(collected')
               PROVE  Placed(p)'
    OBVIOUS
  <2>1. Placed(p)
    BY <1>2, <1>3 DEF CollectState
  <2>2. \/ \E k \in DOMAIN walk : \E i \in DOMAIN walk[k].items :
             i < walk[k].at /\ walk[k].items[i] = p
        \/ \E q \in Elements(collected) : p \in Elements(children[q])
    BY <2>1, DescendingInto DEF Placed
  <2> QED
    BY <1>0, <1>2, <1>3, <2>2, DescendingInto DEF Placed
<1> QED
  BY <1>1, <1>5, <1>7, <1>8, <1>9 DEF CollectState

LEMMA CollectionAscends ==
  ASSUME TypeOK, Shape, CollectState, Ascend
  PROVE  CollectState'
<1>0. Nested /\ Path /\ Fresh /\ walk # <<>>
      /\ children' = children /\ collected' = collected /\ plugins' = plugins
  BY AscendingFrom DEF CollectState, tree
<1>1. Nested'
  BY <1>0, NestedMoves
<1>2. PICK C : C = Elements(collected)
  OBVIOUS
<1>3. Done(C) /\ Elements(collected') = C
  BY <1>0, <1>2 DEF CollectState
<1>4. Done(C)'
  BY <1>0, <1>3, DoneAscends
<1>5. Done(Elements(collected))'
  BY <1>3, <1>4 DEF Done
<1>6. Path'
  <2> SUFFICES ASSUME NEW j \in DOMAIN walk', NEW k \in DOMAIN walk', j < k,
                      NEW q \in Elements(walk'[k].items), NEW a, a = At(j)'
               PROVE  Before(a, q)
    BY <1>0 DEF Path, Before
  <2> QED
    BY <1>0, AscendingFrom DEF Path
<1>7. Fresh'
  BY <1>0, AscendingFrom DEF Fresh
<1>8. \A p \in Elements(collected') : Placed(p)'
  <2> SUFFICES ASSUME NEW p \in Elements(collected')
               PROVE  Placed(p)'
    OBVIOUS
  <2>1. Placed(p)
    BY <1>2, <1>3 DEF CollectState
  <2>2. CASE \E q \in Elements(collected) : p \in Elements(children[q])
    BY <1>0, <1>2, <1>3, <2>2 DEF Placed
  <2>3. CASE \E k \in DOMAIN walk : \E i \in DOMAIN walk[k].items :
               i < walk[k].at /\ walk[k].items[i] = p
    <3>1. PICK k \in DOMAIN walk : \E i \in DOMAIN walk[k].items :
            i < walk[k].at /\ walk[k].items[i] = p
      BY <2>3
    <3>2. CASE k \in DOMAIN walk'
      BY <3>1, <3>2, AscendingFrom DEF Placed
    <3>3. CASE k = Len(walk)
      <4>1. walk[k].items = children[At(Len(walk) - 1)]
        BY <1>0, <3>3, AscendingFrom, InnermostIs DEF Nested
      <4>2. p \in Elements(children[At(Len(walk) - 1)])
        BY <3>1, <4>1 DEF Elements
      <4> QED
        BY <1>0, <4>2, AscendingFrom DEF Placed
    <3> QED
      BY <3>1, <3>2, <3>3, AscendingFrom
  <2> QED
    BY <2>1, <2>2, <2>3, AscendingFrom DEF Placed
<1> QED
  BY <1>1, <1>5, <1>6, <1>7, <1>8 DEF CollectState

\* An entry that is collected is new, and of a module that is there.
LEMMA Collecting ==
  ASSUME TypeOK, Shape, Known, Progress, Pass, Collection, CollectEntry
  PROVE  /\ walk # <<>> /\ Innermost.at <= Len(Innermost.items) /\ GoOn
         /\ phase = "collect" /\ phase' = "collect" /\ CollectState
         /\ Entry \in Plugin /\ Entry \in Elements(plugins)
         /\ Entry \notin Elements(collected)
         /\ collected' = Append(collected, Entry)
         /\ Elements(collected') = Elements(collected) \cup {Entry}
         /\ Elements(children[Entry]) \subseteq Elements(collected)
         /\ UNCHANGED <<world, plugins, children, imported>>
<1>1. /\ walk # <<>> /\ Innermost.at <= Len(Innermost.items) /\ GoOn /\ EntryIsNext
      /\ phase = "collect" /\ phase' = "collect"
      /\ collected' = Append(collected, modules[Entry])
      /\ UNCHANGED <<world, plugins, children, imported>>
  BY DEF CollectEntry, AtEntry, tree
<1>2. CollectState
  BY <1>1 DEF Collection, CollectState
<1>3. /\ Entry \in Plugin /\ Entry \in Elements(Innermost.items)
      /\ Innermost.at \in DOMAIN Innermost.items
  BY <1>1, TypedEntry
<1>4. Entry \in Elements(plugins)
  BY <1>1, <1>3, InnermostIs DEF Known
<1>5. modules[Entry] = Entry
  BY <1>1, <1>4 DEF Pass, Progress
<1>6. Entry \notin Elements(collected)
  <2>1. Innermost.items[Innermost.at] \notin Elements(collected)
    BY <1>1, <1>2, <1>3, InnermostIs, Typed DEF CollectState, Fresh
  <2> QED
    BY <2>1 DEF Entry
<1>7. Elements(collected') = Elements(collected) \cup {Entry}
  <2>1. collected \in Seq(Plugin \cup {Root}) /\ Entry \in Plugin \cup {Root}
    BY <1>3 DEF TypeOK
  <2> QED
    BY <1>1, <1>5, <2>1, ElementsAppend
<1>8. Elements(children[Entry]) \subseteq Elements(collected)
  <2>1. Elements(<<>>) = {}
    BY DEF Elements
  <2> QED
    BY <1>1, <1>2, <2>1 DEF EntryIsNext, CollectState, Done
<1> QED
  BY <1>1, <1>2, <1>3, <1>4, <1>5, <1>6, <1>7, <1>8

LEMMA CollectionGoesOn ==
  ASSUME TypeOK, Shape, Known, OnePlaceEach, Order, Progress, Pass, Collection, CollectEntry
  PROVE  CollectState'
<1>0. /\ walk # <<>> /\ Innermost.at <= Len(Innermost.items) /\ GoOn /\ phase' = "collect"
      /\ Nested /\ Path /\ Fresh
      /\ children' = children /\ plugins' = plugins
      /\ Elements(children[Entry]) \subseteq Elements(collected)
  BY Collecting DEF CollectState
<1>1. Nested'
  BY <1>0, NestedMoves
<1>2. PICK C, e : C = Elements(collected) /\ e = Entry
  OBVIOUS
<1>3. Done(C) /\ Elements(collected') = C \cup {e}
  BY <1>2, Collecting DEF CollectState
<1>4. Done(C \cup {e})'
  BY <1>0, <1>2, <1>3, DoneGoesOn
<1>5. Done(Elements(collected))'
  BY <1>3, <1>4 DEF Done
<1>6. Path'
  <2> SUFFICES ASSUME NEW j \in DOMAIN walk', NEW k \in DOMAIN walk', j < k,
                      NEW q \in Elements(walk'[k].items), NEW a, a = At(j)'
               PROVE  Before(a, q)
    BY <1>0 DEF Path, Before
  <2>1. j \in DOMAIN walk /\ k \in DOMAIN walk /\ j < Len(walk) /\ walk'[k].items = walk[k].items
    BY <1>0, GoingOn, Typed
  <2> QED
    BY <1>0, <2>1, GoingOn DEF Path
<1>7. Fresh'
  <2> SUFFICES ASSUME NEW k \in DOMAIN walk', NEW i \in DOMAIN walk'[k].items, i >= walk'[k].at
               PROVE  walk'[k].items[i] \notin Elements(collected')
    BY DEF Fresh
  <2>1. /\ k \in DOMAIN walk /\ walk'[k].items = walk[k].items /\ i \in DOMAIN walk[k].items
        /\ (k < Len(walk) \/ k = Len(walk))
    BY <1>0, GoingOn
  <2>2. i >= walk[k].at /\ ~ (k = Len(walk) /\ i = walk[k].at)
    BY <1>0, <2>1, GoingOn, Typed
  <2>3. walk[k].items[i] \notin C
    BY <1>0, <1>2, <2>1, <2>2 DEF Fresh
  <2>4. walk[k].items[i] # e
    <3>1. /\ Len(walk) \in DOMAIN walk /\ k <= Len(walk)
          /\ walk[Len(walk)].at \in DOMAIN walk[Len(walk)].items
          /\ e = walk[Len(walk)].items[walk[Len(walk)].at]
      BY <1>0, <1>2, <2>1, GoingOn, InnermostIs, Typed DEF At
    <3> QED
      BY <1>0, <2>1, <2>2, <3>1, OneGenerator
  <2> QED
    BY <1>3, <2>1, <2>3, <2>4
<1>8. \A p \in Elements(collected') : Placed(p)'
  <2> SUFFICES ASSUME NEW p \in Elements(collected')
               PROVE  Placed(p)'
    OBVIOUS
  <2>1. CASE p = e
    <3>1. /\ Len(walk) \in DOMAIN walk'
          /\ Innermost.at \in DOMAIN walk'[Len(walk)].items
          /\ Innermost.at < walk'[Len(walk)].at
          /\ walk'[Len(walk)].items[Innermost.at] = e
      BY <1>0, <1>2, GoingOn, InnermostIs, Typed DEF Entry
    <3> QED
      BY <2>1, <3>1 DEF Placed
  <2>2. CASE p \in C
    <3>1. Placed(p)
      BY <1>2, <2>2, Collecting DEF CollectState
    <3>2. CASE \E q \in Elements(collected) : p \in Elements(children[q])
      BY <1>0, <1>2, <1>3, <3>2 DEF Placed
    <3>3. CASE Innermost.below /\ p \in Elements(children[Entry])
      BY <1>0, <1>2, <1>3, <3>3 DEF Placed
    <3>4. CASE \E k \in DOMAIN walk : \E i \in DOMAIN walk[k].items :
                 i < walk[k].at /\ walk[k].items[i] = p
      <4>1. \A k \in DOMAIN walk : \A i \in DOMAIN walk[k].items :
              i < walk[k].at => i < walk'[k].at /\ i \in DOMAIN walk'[k].items
                                /\ k \in DOMAIN walk' /\ walk'[k].items = walk[k].items
        <5> SUFFICES ASSUME NEW k \in DOMAIN walk, NEW i \in DOMAIN walk[k].items, i < walk[k].at
                     PROVE  i < walk'[k].at
          BY <1>0, GoingOn
        <5>1. k < Len(walk) \/ k = Len(walk)
          BY <1>0, GoingOn
        <5> QED
          BY <1>0, <5>1, GoingOn, Typed
      <4> QED
        BY <3>4, <4>1 DEF Placed
    <3> QED
      BY <3>1, <3>2, <3>3, <3>4 DEF Placed
  <2> QED
    BY <1>3, <2>1, <2>2
<1> QED
  BY <1>1, <1>5, <1>6, <1>7, <1>8 DEF CollectState

\* When the collection is over, everything has been collected.
LEMMA NothingLeft ==
  ASSUME TypeOK, Shape, Known, Rooted, Collection, AllCollected
  PROVE  Elements(plugins) \subseteq Elements(collected)
<1>1. phase = "collect" /\ walk # <<>> /\ Len(walk) = 1 /\ Innermost.at > Len(Innermost.items)
  BY DEF AllCollected, AtEnd
<1>2. Nested /\ Done(Elements(collected)) /\ Elements(collected) \subseteq Plugin
  <2>1. Elements(plugins) \subseteq Plugin
    BY ElementsOf DEF TypeOK
  <2> QED
    BY <1>1, <2>1 DEF Collection, CollectState
<1>3. 1 \in DOMAIN walk /\ walk[1].items = children[Root] /\ walk[1].at > Len(walk[1].items)
      /\ DOMAIN walk[1].items = 1..Len(walk[1].items)
  BY <1>1, <1>2, Typed DEF Nested, Innermost
<1>4. \A i \in DOMAIN walk[1].items : walk[1].items[i] \in Elements(collected)
  BY <1>2, <1>3, Typed DEF Done
<1>5. Elements(children[Root]) \subseteq Elements(collected)
  BY <1>3, <1>4 DEF Elements
<1> QED
  BY <1>2, <1>5 DEF Done, Rooted

\* Only the collection collects.
LEMMA CollectedStep ==
  ASSUME TypeOK, Shape, [Next]_vars
  PROVE  \/ CollectEntry
         \/ /\ collected' = collected
            /\ \/ phase' \notin {"collect", "collected"} /\ phase \notin {"collect", "collected"}
               \/ LoadingReturns /\ phase = "visit" /\ phase' = "collect"
                  /\ children' = children /\ walk' = <<Traverse(children[Root])>>
               \/ (Descend \/ Ascend) /\ phase' = phase
               \/ AllCollected /\ phase = "collect" /\ phase' = "collected"
               \/ UNCHANGED vars
<1>1. CASE RejectPending \/ RejectMissing \/ ImportFailsInScript \/ RejectOutdated
  BY <1>1, LoadingFailsFacts
     DEF RejectPending, RejectMissing, ImportFailsInScript, RejectOutdated, InScript
<1>2. CASE LoadingReturns
  BY <1>2 DEF LoadingReturns, PassEnds, AtEnd, tree
<1>3. CASE Descend \/ Ascend
  BY <1>3 DEF Descend, Ascend
<1>4. CASE AllCollected
  BY <1>4 DEF AllCollected, AtEnd
<1>5. CASE \/ RequireInDescriptor \/ ImportInDescriptor \/ ImportDeferred \/ RetryImport
           \/ DescriptorEnds
  BY <1>5 DEF RequireInDescriptor, ImportInDescriptor, ImportDeferred, RetryImport, DescriptorEnds,
     StartPass, InDescriptor
<1>6. CASE \/ Yield \/ InstallPending \/ PassOver \/ BeginScript \/ RequireInScript
           \/ ImportInScript \/ ScriptEnds \/ NextPass
  BY <1>6 DEF Yield, InstallPending, PassOver, BeginScript, RequireInScript, ImportInScript,
     ScriptEnds, NextPass, StartPass, Resume, AtEntry, AtEnd, PassEnds, InScript
<1>7. UNCHANGED vars => collected' = collected
  BY DEF vars
<1> QED
  BY <1>1, <1>2, <1>3, <1>4, <1>5, <1>6, <1>7 DEF Next, Ended

LEMMA CollectionStep ==
  ASSUME TypeOK, Shape, Known, OnePlaceEach, Progress, Rooted, Order, Pass, Collection,
         [Next]_vars
  PROVE  Collection'
<1>1. CASE CollectEntry
  <2>1. CollectState' /\ phase' = "collect"
    BY <1>1, CollectionGoesOn, Collecting
  <2>2. /\ collected' = Append(collected, Entry) /\ Entry \notin Elements(collected)
        /\ Elements(collected') = Elements(collected) \cup {Entry}
        /\ Entry \in Elements(plugins) /\ plugins' = plugins
    BY <1>1, Collecting
  <2>3. Elements(collected') \subseteq Elements(plugins')
    BY <2>2 DEF Collection
  <2>4. \A i, j \in DOMAIN collected' : collected'[i] = collected'[j] => i = j
    <3>1. /\ DOMAIN collected' = 1..(Len(collected) + 1) /\ DOMAIN collected = 1..Len(collected)
          /\ Len(collected) \in Nat /\ collected'[Len(collected) + 1] = Entry
          /\ \A i \in DOMAIN collected : collected'[i] = collected[i]
      BY <2>2 DEF TypeOK
    <3>2. \A i \in DOMAIN collected : collected[i] # Entry
      BY <2>2 DEF Elements
    <3> QED
      BY <3>1, <3>2 DEF Collection
  <2> QED
    BY <2>1, <2>3, <2>4 DEF Collection, CollectState
<1>2. ASSUME collected' = collected
      PROVE  /\ Elements(collected') \subseteq Elements(plugins')
             /\ \A i, j \in DOMAIN collected' : collected'[i] = collected'[j] => i = j
  <2>1. Elements(collected') = Elements(collected)
    BY <1>2
  <2> QED
    BY <1>2, <2>1, PluginsGrow DEF Collection
<1>3. CASE /\ collected' = collected
           /\ phase' \notin {"collect", "collected"} /\ phase \notin {"collect", "collected"}
  BY <1>2, <1>3 DEF Collection
<1>4. CASE /\ collected' = collected /\ phase = "visit" /\ phase' = "collect"
           /\ children' = children /\ walk' = <<Traverse(children[Root])>>
  <2>1. collected = <<>>
    BY <1>4 DEF Collection
  <2>2. CollectState'
    BY <1>4, <2>1, CollectionStarts
  <2> QED
    BY <1>2, <1>4, <2>2 DEF Collection, CollectState
<1>5. CASE collected' = collected /\ (Descend \/ Ascend) /\ phase' = phase
  <2>1. phase \in {"visit", "collect"}
    BY <1>5, DescendingInto, AscendingFrom
  <2>2. CASE phase = "visit"
    BY <1>2, <1>5, <2>2 DEF Collection
  <2>3. CASE phase = "collect"
    <3>1. CollectState
      BY <2>3 DEF Collection, CollectState
    <3>2. CollectState'
      BY <1>5, <3>1, CollectionDescends, CollectionAscends
    <3> QED
      BY <1>2, <1>5, <2>3, <3>2 DEF Collection, CollectState
  <2> QED
    BY <2>1, <2>2, <2>3
<1>6. CASE collected' = collected /\ AllCollected /\ phase' = "collected"
  <2>1. Elements(plugins') = Elements(plugins) /\ Elements(collected') = Elements(collected)
    BY <1>6 DEF AllCollected, tree, Elements
  <2> QED
    BY <1>2, <1>6, <2>1, NothingLeft DEF Collection
<1>7. CASE UNCHANGED vars
  <2>1. UNCHANGED <<phase, plugins, children, walk, collected>>
    BY <1>7 DEF vars
  <2>2. Elements(plugins') = Elements(plugins) /\ Elements(collected') = Elements(collected)
        /\ Innermost' = Innermost /\ Entry' = Entry
    BY <2>1, InnermostNext
  <2>3. (Nested <=> Nested') /\ (Fresh <=> Fresh')
    BY <2>1, <2>2 DEF Nested, Fresh, At
  <2>4. Path <=> Path'
    BY <2>1 DEF Path, Before, At
  <2>5. Done(Elements(collected)) <=> Done(Elements(collected))'
    BY <2>1, <2>2 DEF Done
  <2>6. (\A p \in Elements(collected) : Placed(p)) => \A p \in Elements(collected') : Placed(p)'
    BY <2>1, <2>2 DEF Placed
  <2> QED
    BY <2>1, <2>2, <2>3, <2>4, <2>5, <2>6 DEF Collection, CollectState
<1> QED
  BY <1>1, <1>3, <1>4, <1>5, <1>6, <1>7, CollectedStep

LEMMA UsedFirstStep ==
  ASSUME TypeOK, Shape, Known, OnePlaceEach, Progress, Pass, Collection, UsedFirst, [Next]_vars
  PROVE  UsedFirst'
<1>1. CASE CollectEntry
  <2>1. /\ collected' = Append(collected, Entry) /\ children' = children
        /\ Elements(children[Entry]) \subseteq Elements(collected)
    BY <1>1, Collecting
  <2>2. /\ DOMAIN collected' = 1..(Len(collected) + 1) /\ DOMAIN collected = 1..Len(collected)
        /\ Len(collected) \in Nat /\ collected'[Len(collected) + 1] = Entry
        /\ \A i \in DOMAIN collected : collected'[i] = collected[i]
    BY <2>1 DEF TypeOK
  <2> SUFFICES ASSUME NEW i \in DOMAIN collected', NEW p \in Elements(children'[collected'[i]])
               PROVE  \E j \in 1..(i - 1) : collected'[j] = p
    BY DEF UsedFirst
  <2>3. CASE i \in DOMAIN collected
    <3>1. PICK j \in 1..(i - 1) : collected[j] = p
      BY <2>1, <2>2, <2>3 DEF UsedFirst
    <3>2. j \in DOMAIN collected
      BY <2>2, <2>3
    <3> QED
      BY <2>2, <3>1, <3>2
  <2>4. CASE i = Len(collected) + 1
    <3>1. p \in Elements(collected)
      BY <2>1, <2>2, <2>4
    <3>2. PICK j \in DOMAIN collected : collected[j] = p
      BY <3>1 DEF Elements
    <3>3. j \in 1..(i - 1)
      BY <2>2, <2>4
    <3> QED
      BY <2>2, <3>2, <3>3
  <2> QED
    BY <2>2, <2>3, <2>4
<1>2. CASE collected' = collected /\ children' = children
  BY <1>2 DEF UsedFirst, Elements
<1>3. CASE collected' = collected /\ \E p \in Plugin : \E x \in Plugin \cup {Root} : Grows(p, x)
  <2>1. collected = <<>>
    BY <1>3 DEF Grows, Collection
  <2> QED
    BY <1>3, <2>1 DEF UsedFirst
<1> QED
  BY <1>1, <1>2, <1>3, CollectedStep, TreeStep

----------------------------------------------------------------------------
(* Failures *)

LEMMA FailureStep ==
  ASSUME TypeOK, Shape, Known, Progress, FailureIsJustified, [Next]_vars
  PROVE  FailureIsJustified'
<1> SUFFICES ASSUME phase' = "failed"
             PROVE  FailureIsJustified'
  BY DEF FailureIsJustified
<1>0. phase = "script" \/ phase = "install" => Entry \in Plugin /\ Entry \in Elements(plugins)
  BY InPlugin, InnermostIs DEF Known
<1>1. CASE RejectPending \/ RejectMissing \/ ImportFailsInScript \/ RejectOutdated
  <2>0. UNCHANGED <<world, plugins, installed>>
    BY <1>1, LoadingFailsFacts
       DEF RejectPending, RejectMissing, ImportFailsInScript, RejectOutdated, tree
  <2>1. CASE RejectPending
    <3>1. PICK p : p \in Elements(pending) /\ world.kind[p] = "unsupported"
      BY <2>1 DEF RejectPending, Unsupported
    <3>2. p \in Elements(plugins)
      BY <3>1 DEF Known
    <3> QED
      BY <2>0, <3>1, <3>2 DEF FailureIsJustified
  <2>2. CASE RejectMissing
    <3>1. Entry \in Elements(plugins) /\ world.kind[Entry] \in Kind /\ ~ Importable(Entry)
      BY <1>0, <2>2, TypedScript DEF RejectMissing
    <3>2. \/ world.kind[Entry] \in {"absent", "unsupported", "outdated"}
          \/ world.kind[Entry] = "download" /\ Entry \notin installed
      BY <3>1 DEF Kind, Importable
    <3> QED
      BY <2>0, <3>1, <3>2 DEF FailureIsJustified
  <2>3. CASE ImportFailsInScript
    <3>1. /\ phase = "script" /\ step <= Len(Script) /\ Script[step].op = "import"
          /\ ~ Available(Script[step].name) /\ Script[step].guard = "none"
      BY <2>3 DEF ImportFailsInScript, InScript
    <3>2. Entry \in Plugin /\ Entry \in Elements(plugins) /\ step \in Nat \ {0}
      BY <1>0, <3>1 DEF TypeOK
    <3>3. step \in DOMAIN Script
      BY <3>1, <3>2, TypedScript DEF Script
    <3>4. Script[step] \in Unavailable(Entry)
      BY <3>1, <3>3 DEF Unavailable, Elements, Script
    <3>5. Unavailable(Entry) = {s \in Elements(world'.script[Entry]) :
                                  s.op = "import" /\ ~ \E p \in installed' : s.name \in Provides[p]}
      BY <2>0 DEF Unavailable, Available
    <3>6. PICK e : e = Entry
      OBVIOUS
    <3>7. Script[step] \in Unavailable(e)'
      BY <3>4, <3>5, <3>6 DEF Unavailable, Available
    <3> QED
      BY <2>0, <3>1, <3>2, <3>6, <3>7 DEF FailureIsJustified
  <2>4. CASE RejectOutdated
    BY <1>0, <2>0, <2>4 DEF RejectOutdated, FailureIsJustified
  <2> QED
    BY <1>1, <2>1, <2>2, <2>3, <2>4
<1>2. CASE RetryImport
  <2>1. /\ phase = "retry" /\ ~ Available(Line.name) /\ Line.guard = "none"
        /\ UNCHANGED <<world, installed>>
    BY <1>2 DEF RetryImport
  <2>2. line \in DOMAIN world.script[Root] /\ Line.op = "import"
    BY <2>1, TypedScript DEF Progress, TypeOK
  <2>3. Line \in Unavailable(Root)
    BY <2>1, <2>2 DEF Unavailable, Elements, Line
  <2>4. Unavailable(Root)' = Unavailable(Root)
    BY <2>1 DEF Unavailable, Available
  <2> QED
    BY <2>1, <2>3, <2>4 DEF FailureIsJustified
<1>3. CASE UNCHANGED vars
  <2>1. UNCHANGED <<world, phase, plugins, installed>>
    BY <1>3 DEF vars
  <2>2. Elements(plugins') = Elements(plugins) /\ \A x : Unavailable(x)' = Unavailable(x)
    BY <2>1 DEF Unavailable, Available, Elements
  <2> QED
    BY <2>1, <2>2 DEF FailureIsJustified
<1>4. CASE LoadingReturns
  BY <1>4 DEF LoadingReturns
<1> QED
  BY <1>1, <1>2, <1>3, <1>4
     DEF Next, Ended, RequireInDescriptor, ImportInDescriptor, ImportDeferred,
         DescriptorEnds, Descend, Ascend, Yield, InstallPending, PassOver,
         BeginScript, RequireInScript, ImportInScript, ScriptEnds, Resume, NextPass, StartPass,
         CollectEntry, AllCollected, InDescriptor, InScript, AtEntry, AtEnd, PassEnds

----------------------------------------------------------------------------
(* Theorems *)

LEMMA Initially == Init => IInv
<1> SUFFICES ASSUME Init
             PROVE  IInv
  OBVIOUS
<1>1. TypeOK
  BY DeferredPluginsAssumption DEF Init, TypeOK
<1>2. Elements(<<>>) = {}
  BY DEF Elements
<1>3. Shape /\ Known /\ InstalledBefore /\ Collection /\ UsedFirst /\ FailureIsJustified
  BY <1>2 DEF Init, Shape, Known, InstalledBefore, Collection, UsedFirst, FailureIsJustified
<1>4. \A x \in Plugin \cup {Root} : children[x] = <<>>
  BY DEF Init
<1>5. OnePlaceEach /\ Rooted /\ Order
  BY <1>2, <1>4 DEF Init, OnePlaceEach, Rooted, Order
<1>6. Progress /\ Pass
  <2>1. DOMAIN world.script[Root] = 1..Len(world.script[Root])
    BY <1>1, TypedScript
  <2>2. UsedBefore(Root, line)
    BY <2>1 DEF Init, UsedBefore
  <2> QED
    BY <2>2 DEF Init, Progress, Pass, Loading
<1> QED
  BY <1>1, <1>3, <1>5, <1>6 DEF IInv

\* The strengthened invariant of loading and collecting plugins holds.
THEOREM Invariance == Spec => []IInv
<1>1. IInv /\ [Next]_vars => IInv'
  <2> SUFFICES ASSUME IInv, [Next]_vars
               PROVE  IInv'
    OBVIOUS
  <2> USE DEF IInv
  <2>1. TypeOK' /\ Shape'
    BY TypeStep, ShapeStep
  <2>2. Known' /\ OnePlaceEach' /\ InstalledBefore'
    BY KnownStep, OnePlaceStep, InstalledStep
  <2>3. Progress' /\ Rooted' /\ Order'
    BY ProgressStep, RootedStep, OrderStep
  <2>4. Pass' /\ Collection'
    BY PassStep, CollectionStep
  <2>5. UsedFirst' /\ FailureIsJustified'
    BY UsedFirstStep, FailureStep
  <2> QED
    BY <2>1, <2>2, <2>3, <2>4, <2>5
<1> QED
  BY Initially, <1>1, PTL DEF Spec

\* Loading and collecting keep their types (Reactor, ModuleTraversalTree).
THEOREM TypeCorrect == Spec => []TypeOK
<1>1. IInv => TypeOK
  BY DEF IInv
<1> QED
  BY <1>1, Invariance, PTL

\* A plugin has one place in the tree, below a module that names it, whatever
\* imports failed and were handled in between (_entry_stack).
THEOREM AlwaysOnePlace == Spec => []OnePlaceEach
<1>1. IInv => OnePlaceEach
  BY DEF IInv
<1> QED
  BY <1>1, Invariance, PTL

\* No plugin is imported while its installation is due (import_plugin).
THEOREM AlwaysInstalledBefore == Spec => []InstalledBefore
<1>1. IInv => InstalledBefore
  BY DEF IInv
<1> QED
  BY <1>1, Invariance, PTL

\* A plugin is collected after those it was the first to use (traverse).
THEOREM AlwaysUsedFirst == Spec => []UsedFirst
<1>1. IInv => UsedFirst
  BY DEF IInv
<1> QED
  BY <1>1, Invariance, PTL

\* A build fails for a plugin that cannot be loaded, or for an import that
\* nothing installed provides and the module does not handle.
THEOREM FailureAlwaysJustified == Spec => []FailureIsJustified
<1>1. IInv => FailureIsJustified
  BY DEF IInv
<1> QED
  BY <1>1, Invariance, PTL

\* An import of build.py is tried again only when every plugin named so far has
\* been installed, as far as that is possible, and imported
\* (__import_with_plugins, _load_deferred_plugins).
THEOREM RetryAlwaysLast == Spec => []RetryIsLast
<1>1. IInv => RetryIsLast
  <2> SUFFICES ASSUME IInv, phase \in {"retry", "collect"}
               PROVE  pending = <<>> /\ Elements(plugins) \subseteq imported
    BY DEF RetryIsLast
  <2>1. Elements(plugins) \subseteq imported
    BY DEF IInv, Pass
  <2>2. Elements(pending) = {}
    BY <2>1 DEF IInv, Known, InstalledBefore
  <2> QED
    BY <2>1, <2>2, ElementsOf DEF IInv, TypeOK
<1> QED
  BY <1>1, Invariance, PTL

\* Of a build that goes on, the annotations are collected of exactly the
\* plugins that build.py leads to, once each, for any number of plugins and
\* any way in which they use each other (_load_deferred_plugins, traverse).
THEOREM ClosureAlwaysCollected == Spec => []ClosureCollected
<1>1. IInv => ClosureCollected
  <2> SUFFICES ASSUME IInv, phase = "collected"
               PROVE  /\ Closed(Elements(collected))
                      /\ \A S \in SUBSET Plugin : Closed(S) => Elements(collected) \subseteq S
                      /\ \A i, j \in DOMAIN collected : collected[i] = collected[j] => i = j
    BY DEF ClosureCollected
  <2>1. Elements(collected) = Elements(plugins) /\ Elements(plugins) \subseteq imported
    BY DEF IInv, Collection, Pass
  <2>2. Uses(Root) \subseteq Elements(plugins)
    <3>1. line > Len(world.script[Root]) /\ UsedBefore(Root, line)
      BY DEF IInv, Progress
    <3>2. DOMAIN world.script[Root] = 1..Len(world.script[Root]) /\ line \in Nat
          /\ Len(world.script[Root]) \in Nat
      BY TypedScript DEF IInv, TypeOK
    <3>3. \A j \in DOMAIN world.script[Root] :
            world.script[Root][j].op = "use" => world.script[Root][j].name \in Elements(plugins)
      BY <3>1, <3>2 DEF UsedBefore
    <3> QED
      BY <3>3 DEF Uses, Elements
  <2>3. \A p \in Elements(plugins) : Uses(p) \subseteq Elements(plugins)
    BY <2>1 DEF IInv, Progress
  <2>4. \A S \in SUBSET Plugin : Closed(S) => Elements(plugins) \subseteq S
    <3> SUFFICES ASSUME NEW S \in SUBSET Plugin, Closed(S)
                 PROVE  Elements(plugins) \subseteq S
      OBVIOUS
    <3>1. \A x \in Plugin \cup {Root} : Elements(children[x]) \subseteq Uses(x)
      BY DEF IInv, OnePlaceEach
    <3>2. Elements(children[Root]) \subseteq S /\ \A p \in S : Elements(children[p]) \subseteq S
      BY <3>1 DEF Closed
    <3> QED
      BY <3>2 DEF IInv, Rooted
  <2>5. \A i, j \in DOMAIN collected : collected[i] = collected[j] => i = j
    BY DEF IInv, Collection
  <2> QED
    BY <2>1, <2>2, <2>3, <2>4, <2>5 DEF Closed
<1> QED
  BY <1>1, Invariance, PTL

=============================================================================
