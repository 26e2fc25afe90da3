-------------------------- MODULE DeferredPlugins --------------------------
(***************************************************************************)
(* How a build gets its plugins (pybuilder/reactor.py, pluginloader.py).   *)
(*                                                                         *)
(* use_plugin only puts a plugin into a tree, below the plugin whose       *)
(* module is being imported, or at its root. The tree is traversed and its *)
(* plugins are imported, which lets it grow, until a pass over it changes  *)
(* nothing: when build.py imports what cannot be found, and once more when *)
(* build.py is over. Then the tasks are collected in a last traversal.     *)
(***************************************************************************)
EXTENDS Naturals, Sequences

CONSTANTS
  Plugin,    \* the plugins a build may name
  Root,      \* build.py, and the root of the tree
  Package,   \* what build.py and the plugins import
  Provides,  \* the packages that are installed with a plugin
  Worlds     \* the builds considered

Guard == {"none", "ImportError", "Exception"}

\* A statement of a module: use_plugin, or an import, which may stand in a try
\* block that handles the exceptions named.
Statement == [op : {"use"}, name : Plugin, guard : {"none"}]
             \cup [op : {"import"}, name : Package, guard : Guard]

Kind == {"builtin",      \* a module that can be imported
         "outdated",     \* one that demands another version of PyBuilder
         "download",     \* pypi: and vcs: plugins, to be installed first
         "absent",       \* a module there is not
         "unsupported"}  \* a name no loader takes

World == [kind : [Plugin -> Kind], script : [Plugin \cup {Root} -> Seq(Statement)]]

ASSUME DeferredPluginsAssumption ==
  /\ Root \notin Plugin
  /\ Provides \in [Plugin -> SUBSET Package]
  /\ Worlds \subseteq World

\* An operator whose name starts with Bug is no part of the specification: it is
\* a plausible mistake in the definition that follows it, for the properties to
\* notice.

VARIABLES
  world,      \* the modules of this build
  phase,      \* what is going on
  by,         \* the caller of _load_deferred_plugins: "import" or "prepare"
  line,       \* position in build.py
  step,       \* position in the plugin that is being imported
  plugins,    \* _plugins
  children,   \* the entries of the tree, below each plugin and the root
  modules,    \* the module an entry of the tree has, as the name of its plugin
  stack,      \* _entry_stack, its left end first
  walk,       \* the generators of traverse, the innermost last
  mods,       \* _mods
  seen,       \* mods in _load_deferred_plugins
  pending,    \* _pending_plugin_installs
  imported,   \* _plugins_imported
  installed,  \* the plugins pip has installed
  collected   \* the modules whose annotations were collected, in this order

vars == <<world, phase, by, line, step, plugins, children, modules, stack, walk, mods, seen,
          pending, imported, installed, collected>>

tree == <<plugins, children, modules, mods, pending>>

Elements(s) == {s[i] : i \in DOMAIN s}

\* The generator for some entries: where it is, and whether the generator for
\* the entries below that one has been started.
Generator == [items : Seq(Plugin), at : Nat \ {0}, below : BOOLEAN]

Traverse(entries) == [items |-> entries, at |-> 1, below |-> FALSE]

TypeOK ==
  /\ world \in World
  /\ phase \in {"descriptor", "retry", "visit", "install", "script", "collect",
                "collected", "failed"}
  /\ by \in {"import", "prepare"}
  /\ line \in Nat \ {0}
  /\ step \in Nat \ {0}
  /\ plugins \in Seq(Plugin)
  /\ children \in [Plugin \cup {Root} -> Seq(Plugin)]
  /\ modules \in [Plugin -> Plugin \cup {Root}]
  /\ stack \in Seq(Plugin)
  /\ walk \in Seq(Generator)
  /\ mods \in Nat
  /\ seen \in Nat
  /\ pending \in Seq(Plugin)
  /\ imported \subseteq Plugin
  /\ installed \subseteq Plugin
  /\ collected \in Seq(Plugin \cup {Root})

\* Root stands for the None of an entry without a module.
Init ==
  /\ world \in Worlds
  /\ phase = "descriptor"
  /\ by = "import"
  /\ line = 1
  /\ step = 1
  /\ plugins = <<>>
  /\ children = [p \in Plugin \cup {Root} |-> <<>>]
  /\ modules = [p \in Plugin |-> Root]
  /\ stack = <<>>
  /\ walk = <<>>
  /\ mods = 0
  /\ seen = 0
  /\ pending = <<>>
  /\ imported = {}
  /\ installed = {}
  /\ collected = <<>>

Available(package) == \E p \in installed : package \in Provides[p]

\* Where the tree grows.
Here == IF stack = <<>> THEN Root ELSE Head(stack)

\* The child takes the place of its siblings.
BugOnlyChild(p) ==
  IF p \in Elements(plugins)
  THEN UNCHANGED tree
  ELSE /\ plugins' = Append(plugins, p)
       /\ pending' = Append(pending, p)
       /\ children' = [children EXCEPT ![Here] = p]
       /\ mods' = mods + 1
       /\ UNCHANGED modules

\* require_plugin, add_plugin: nothing happens if the plugin is known.
RequirePlugin(p) ==
  IF p \in Elements(plugins)
  THEN UNCHANGED tree
  ELSE /\ plugins' = Append(plugins, p)
       /\ pending' = Append(pending, p)
       /\ children' = [children EXCEPT ![Here] = Append(@, p)]
       /\ mods' = mods + 1
       /\ UNCHANGED modules

----------------------------------------------------------------------------
(* build.py, with the patched import *)

InDescriptor(op) ==
  /\ phase = "descriptor"
  /\ line <= Len(world.script[Root])
  /\ world.script[Root][line].op = op

Line == world.script[Root][line]

RequireInDescriptor ==
  /\ InDescriptor("use")
  /\ RequirePlugin(Line.name)
  /\ line' = line + 1
  /\ UNCHANGED <<world, phase, by, step, stack, walk, seen, imported, installed, collected>>

ImportInDescriptor ==
  /\ InDescriptor("import")
  /\ Available(Line.name)
  /\ line' = line + 1
  /\ UNCHANGED <<world, phase, by, step, tree, stack, walk, seen, imported, installed, collected>>

\* The beginning of a pass.
StartPass ==
  /\ phase' = "visit"
  /\ seen' = mods
  /\ walk' = <<Traverse(children[Root])>>

\* __import_with_plugins: the plugins known by now are loaded.
ImportDeferred ==
  /\ InDescriptor("import")
  /\ ~ Available(Line.name)
  /\ StartPass
  /\ by' = "import"
  /\ UNCHANGED <<world, line, step, tree, stack, imported, installed, collected>>

\* Then the import is tried again, and its failure is the descriptor's.
RetryImport ==
  /\ phase = "retry"
  /\ IF Available(Line.name) \/ Line.guard # "none"
     THEN phase' = "descriptor" /\ line' = line + 1
     ELSE phase' = "failed" /\ UNCHANGED line
  /\ UNCHANGED <<world, by, step, tree, stack, walk, seen, imported, installed, collected>>

DescriptorEnds ==
  /\ phase = "descriptor"
  /\ line > Len(world.script[Root])
  /\ StartPass
  /\ by' = "prepare"
  /\ UNCHANGED <<world, line, step, tree, stack, imported, installed, collected>>

----------------------------------------------------------------------------
(* ModuleTraversalTree.traverse *)

Innermost == walk[Len(walk)]

Entry == Innermost.items[Innermost.at]

AtEntry(ph) == phase = ph /\ walk # <<>> /\ Innermost.at <= Len(Innermost.items)

AtEnd(ph) == phase = ph /\ walk # <<>> /\ Innermost.at > Len(Innermost.items)

\* The entries below come first, as they are when this entry is reached.
Descend ==
  /\ AtEntry("visit") \/ AtEntry("collect")
  /\ ~ Innermost.below
  /\ children[Entry] # <<>>
  /\ walk' = Append([walk EXCEPT ![Len(walk)] =
                       [items |-> Innermost.items, at |-> Innermost.at, below |-> TRUE]],
                    Traverse(children[Entry]))
  /\ UNCHANGED <<world, phase, by, line, step, tree, stack, seen, imported, installed, collected>>

Ascend ==
  /\ AtEnd("visit") \/ AtEnd("collect")
  /\ Len(walk) > 1
  /\ walk' = SubSeq(walk, 1, Len(walk) - 1)
  /\ UNCHANGED <<world, phase, by, line, step, tree, stack, seen, imported, installed, collected>>

BugEntryFirst == TRUE

EntryIsNext == Innermost.below \/ children[Entry] = <<>>

GoOn ==
  walk' = [walk EXCEPT ![Len(walk)] =
             [items |-> Innermost.items, at |-> Innermost.at + 1, below |-> FALSE]]

Yield ==
  /\ AtEntry("visit")
  /\ EntryIsNext
  /\ stack' = <<Entry>> \o stack
  /\ phase' = "install"
  /\ UNCHANGED <<world, by, line, step, tree, walk, seen, imported, installed, collected>>

\* The traversal is resumed after the import of its entry.
Resume ==
  /\ phase' = "visit"
  /\ stack' = Tail(stack)
  /\ GoOn

----------------------------------------------------------------------------
(* Reactor.import_plugin and the loaders *)

\* The entry stays on the stack.
BugStackKept ==
  /\ walk' = <<>>
  /\ UNCHANGED stack
  /\ IF by = "import" /\ Line.guard = "Exception"
     THEN phase' = "descriptor" /\ line' = line + 1
     ELSE phase' = "failed" /\ UNCHANGED line
  /\ UNCHANGED <<world, by, step, seen, imported, collected>>

\* A MissingPluginException or IncompatiblePluginException leaves
\* _load_deferred_plugins, whose generators are closed. It is no ImportError.
LoadingFails ==
  /\ walk' = <<>>
  /\ stack' = <<>>
  /\ IF by = "import" /\ Line.guard = "Exception"
     THEN phase' = "descriptor" /\ line' = line + 1
     ELSE phase' = "failed" /\ UNCHANGED line
  /\ UNCHANGED <<world, by, step, seen, imported, collected>>

Unsupported == {p \in Elements(pending) : world.kind[p] = "unsupported"}

RejectPending ==
  /\ phase = "install"
  /\ Unsupported # {}
  /\ LoadingFails
  /\ UNCHANGED <<tree, installed>>

\* DispatchingPluginLoader.install_plugin: what pip cannot install is only
\* warned about.
InstallPending ==
  /\ phase = "install"
  /\ pending # <<>>
  /\ Unsupported = {}
  /\ \E S \in SUBSET {p \in Elements(pending) : world.kind[p] = "download"} :
       installed' = installed \cup S
  /\ pending' = <<>>
  /\ UNCHANGED <<world, phase, by, line, step, plugins, children, modules, stack, walk, mods,
                 seen, imported, collected>>

PassOver ==
  /\ phase = "install"
  /\ pending = <<>>
  /\ Entry \in imported
  /\ Resume
  /\ UNCHANGED <<world, by, line, step, tree, seen, imported, installed, collected>>

\* BuiltinPluginLoader.load_plugin tries pybuilder.plugins.<name>_plugin and then
\* <name>; the one script of a plugin stands for the module that is found. That
\* both are, and the first one fails to be imported, is left out.
Importable(p) ==
  world.kind[p] \in {"builtin", "outdated"} \/ (world.kind[p] = "download" /\ p \in installed)

RejectMissing ==
  /\ phase = "install"
  /\ pending = <<>>
  /\ Entry \notin imported
  /\ ~ Importable(Entry)
  /\ LoadingFails
  /\ UNCHANGED <<tree, installed>>

BeginScript ==
  /\ phase = "install"
  /\ pending = <<>>
  /\ Entry \notin imported
  /\ Importable(Entry)
  /\ phase' = "script"
  /\ step' = 1
  /\ UNCHANGED <<world, by, line, tree, stack, walk, seen, imported, installed, collected>>

Script == world.script[Entry]

InScript(op) ==
  /\ phase = "script"
  /\ step <= Len(Script)
  /\ Script[step].op = op

RequireInScript ==
  /\ InScript("use")
  /\ RequirePlugin(Script[step].name)
  /\ step' = step + 1
  /\ UNCHANGED <<world, phase, by, line, stack, walk, seen, imported, installed, collected>>

\* The import is found, or its ImportError is handled by the plugin.
ImportInScript ==
  /\ InScript("import")
  /\ Available(Script[step].name) \/ Script[step].guard # "none"
  /\ step' = step + 1
  /\ UNCHANGED <<world, phase, by, line, tree, stack, walk, seen, imported, installed, collected>>

\* The guard of the statement is not looked at.
BugGuardIgnored ==
  /\ InScript("import")
  /\ ~ Available(Script[step].name)
  /\ LoadingFails
  /\ UNCHANGED <<tree, installed>>

\* While plugins are being loaded (_deferred_import) no others are loaded for
\* the sake of an import.
ImportFailsInScript ==
  /\ InScript("import")
  /\ ~ Available(Script[step].name)
  /\ Script[step].guard = "none"
  /\ LoadingFails
  /\ UNCHANGED <<tree, installed>>

RejectOutdated ==
  /\ phase = "script"
  /\ step > Len(Script)
  /\ world.kind[Entry] = "outdated"
  /\ LoadingFails
  /\ UNCHANGED <<tree, installed>>

\* _plugins_imported.add, set_module
ScriptEnds ==
  /\ phase = "script"
  /\ step > Len(Script)
  /\ world.kind[Entry] # "outdated"
  /\ imported' = imported \cup {Entry}
  /\ modules' = [modules EXCEPT ![Here] = Entry]
  /\ mods' = mods + 1
  /\ Resume
  /\ UNCHANGED <<world, by, line, step, plugins, children, seen, pending, installed, collected>>

----------------------------------------------------------------------------
(* Reactor._load_deferred_plugins, _collect_project_annotations *)

PassEnds == AtEnd("visit") /\ Len(walk) = 1

\* The number of modifications is read before the loop only.
BugSeenOnce ==
  /\ PassEnds
  /\ mods # seen
  /\ walk' = <<Traverse(children[Root])>>
  /\ UNCHANGED <<world, phase, by, line, step, tree, stack, seen, imported, installed, collected>>

NextPass ==
  /\ PassEnds
  /\ mods # seen
  /\ StartPass
  /\ UNCHANGED <<world, by, line, step, tree, stack, imported, installed, collected>>

\* There is one pass only.
BugOnePass ==
  /\ PassEnds
  /\ IF by = "import"
     THEN phase' = "retry" /\ walk' = <<>>
     ELSE phase' = "collect" /\ walk' = <<Traverse(children[Root])>>
  /\ UNCHANGED <<world, by, line, step, tree, stack, seen, imported, installed, collected>>

LoadingReturns ==
  /\ PassEnds
  /\ mods = seen
  /\ IF by = "import"
     THEN phase' = "retry" /\ walk' = <<>>
     ELSE phase' = "collect" /\ walk' = <<Traverse(children[Root])>>
  /\ UNCHANGED <<world, by, line, step, tree, stack, seen, imported, installed, collected>>

CollectEntry ==
  /\ AtEntry("collect")
  /\ EntryIsNext
  /\ collected' = Append(collected, modules[Entry])
  /\ GoOn
  /\ UNCHANGED <<world, phase, by, line, step, tree, stack, seen, imported, installed>>

AllCollected ==
  /\ AtEnd("collect")
  /\ Len(walk) = 1
  /\ phase' = "collected"
  /\ walk' = <<>>
  /\ UNCHANGED <<world, by, line, step, tree, stack, seen, imported, installed, collected>>

Ended == phase \in {"collected", "failed"} /\ UNCHANGED vars

Next ==
  \/ RequireInDescriptor \/ ImportInDescriptor \/ ImportDeferred \/ RetryImport
  \/ DescriptorEnds
  \/ Descend \/ Ascend \/ Yield
  \/ RejectPending \/ InstallPending \/ PassOver \/ RejectMissing
  \/ BeginScript \/ RequireInScript \/ ImportInScript \/ ImportFailsInScript
  \/ RejectOutdated \/ ScriptEnds
  \/ NextPass \/ LoadingReturns \/ CollectEntry \/ AllCollected
  \/ Ended

Spec == Init /\ [][Next]_vars /\ WF_vars(Next)

----------------------------------------------------------------------------
(* Properties *)

\* The plugins a module names.
Uses(x) == {s.name : s \in {t \in Elements(world.script[x]) : t.op = "use"}}

\* With build.py's plugins and with those of its members.
Closed(S) == Uses(Root) \subseteq S /\ \A p \in S : Uses(p) \subseteq S

\* Of a build that goes on, the annotations are collected of exactly the
\* plugins that build.py leads to, once each (_load_deferred_plugins,
\* traverse, set_module).
ClosureCollected ==
  phase = "collected" =>
    /\ Closed(Elements(collected))
    /\ \A S \in SUBSET Plugin : Closed(S) => Elements(collected) \subseteq S
    /\ \A i, j \in DOMAIN collected : collected[i] = collected[j] => i = j

\* A plugin is collected when those it was the first to use have been
\* (ModuleTraversalTree.traverse).
UsedFirst ==
  \A i \in DOMAIN collected : \A p \in Elements(children[collected[i]]) :
    \E j \in 1..(i - 1) : collected[j] = p

\* A plugin has one place in the tree, below a module that names it, whatever
\* imports failed and were handled in between (_entry_stack).
OnePlaceEach ==
  /\ \A p \in Elements(plugins) : \E x \in Plugin \cup {Root} : p \in Elements(children[x])
  /\ \A x \in Plugin \cup {Root} : Elements(children[x]) \subseteq Elements(plugins) \cap Uses(x)
  /\ \A x, y \in Plugin \cup {Root} :
       \A i \in DOMAIN children[x] : \A j \in DOMAIN children[y] :
         children[x][i] = children[y][j] => x = y /\ i = j

\* An import of build.py is tried again only when every plugin it could come
\* with has been installed, as far as that is possible, and imported
\* (__import_with_plugins).
RetryIsLast ==
  phase \in {"retry", "collect"} => pending = <<>> /\ Elements(plugins) \subseteq imported

\* No plugin is imported while its installation is due (import_plugin).
InstalledBefore ==
  /\ phase = "script" => Entry \notin Elements(pending)
  /\ imported \cap Elements(pending) = {}

Unavailable(x) ==
  {s \in Elements(world.script[x]) : s.op = "import" /\ ~ Available(s.name)}

\* A build fails for a plugin that cannot be loaded, or for an import that
\* nothing installed provides and the module does not handle.
FailureIsJustified ==
  phase = "failed" =>
    \/ \E p \in Elements(plugins) :
         \/ world.kind[p] \in {"absent", "unsupported", "outdated"}
         \/ world.kind[p] = "download" /\ p \notin installed
         \/ \E s \in Unavailable(p) : s.guard = "none"
    \/ \E s \in Unavailable(Root) : s.guard = "none"

\* The passes come to an end.
LoadingEnds == <>(phase \in {"collected", "failed"})

=============================================================================
