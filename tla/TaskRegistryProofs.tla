------------------------- MODULE TaskRegistryProofs -------------------------
(***************************************************************************)
(* For every number of modules, of tasks and of declarations: the resolved *)
(* graph is the declared one, and only unknown names refuse a build.       *)
(*                                                                         *)
(* The strengthening is a conservation law: at every moment the edges in   *)
(* the dependencies, the injected and the pending ones together are those  *)
(* of the modules gone through so far; in the same way for tasks, actions  *)
(* and, once everything is registered, the part of the graph resolved.     *)
(*                                                                         *)
(* Of actions there may be several alike, and a list of them is counted:   *)
(* its members are paired with the places they are declared at.            *)
(***************************************************************************)
EXTENDS TaskRegistry, SequenceTheorems, FiniteSetTheorems, TLAPS

Collecting == phase \in {"inject", "tasks", "actions"}

\* Module m is behind us.
Past(m) == m \in DOMAIN build /\ m < module

SeenDependent(n, d) ==
  \E i \in DOMAIN Current.dependents :
    /\ phase = "inject" => i < at
    /\ Current.dependents[i] = [task |-> n, on |-> d.name, optional |-> d.optional]

SeenDependency(n, d) ==
  \E i \in DOMAIN Current.tasks :
    /\ phase = "tasks" => i < at
    /\ Current.tasks[i].name = n /\ d \in Elements(Current.tasks[i].deps)

\* A module gone through, or the part of the current one gone through, says
\* that n has dependency d.
SeenEdge(n, d) ==
  \/ \E m \in DOMAIN build : Past(m) /\ Declares(build[m], n, d.name, d.optional)
  \/ Collecting /\ SeenDependent(n, d)
  \/ phase \in {"tasks", "actions"} /\ SeenDependency(n, d)

SeenTask(n) ==
  \/ \E m \in DOMAIN build : Past(m) /\ n \in ModuleTasks(build[m])
  \/ /\ phase \in {"tasks", "actions"}
     /\ \E i \in DOMAIN Current.tasks : (phase = "tasks" => i < at) /\ Current.tasks[i].name = n

SeenAction(a) ==
  \/ \E m \in DOMAIN build : Past(m) /\ a \in Elements(build[m].actions)
  \/ phase = "actions" /\ \E i \in DOMAIN Current.actions : i < at /\ Current.actions[i] = a

InFlight(n, d) ==
  d \in Elements(deps[n]) \/ d \in Elements(injected[n]) \/ d \in Elements(pending[n])

Position ==
  /\ build \in Builds
  /\ IF Collecting THEN module <= Len(build) ELSE module = Len(build) + 1

Conserved ==
  /\ \A n \in Name, d \in Dependency : InFlight(n, d) <=> SeenEdge(n, d)
  /\ \A n \in Name : n \in Registered <=> SeenTask(n)
  /\ \A a \in Action : a \in Elements(actions) <=> SeenAction(a)

Waiting ==
  /\ WaitsForItsTask
  /\ \A n \in Name \ Registered : deps[n] = <<>>
  /\ \A n \in Name : ~ Collecting => injected[n] = <<>>
  /\ \A n \in Name : phase \in {"dependencies", "attach"} => pending[n] = <<>>

\* The i-th dependency of n has been resolved.
Gone(n, i) ==
  \/ phase = "attach"
  \/ /\ phase = "dependencies"
     /\ \E k \in DOMAIN tasks : tasks[k] = n /\ (k < at \/ (k = at /\ i < turn))

GoneThrough(n, d) == \E i \in DOMAIN deps[n] : Gone(n, i) /\ deps[n][i] = d

Weakened(d) == [name |-> d.name, optional |-> FALSE]

ResolvedSoFar ==
  \A n \in Name :
    /\ \A i, j \in DOMAIN resolved[n] : resolved[n][i].name = resolved[n][j].name => i = j
    /\ \A d \in Dependency :
         d \in Elements(resolved[n]) <=>
           GoneThrough(n, d) /\ (d.optional => ~ GoneThrough(n, Weakened(d)))
    /\ \A d \in Dependency : GoneThrough(n, d) => d.name \in Registered

Mentions(a) == 1..(Len(a.before) + Len(a.after))

\* The k-th name the loops over an action come to.
Mention(a, k) ==
  IF k <= Len(a.before) THEN a.before[k]
                        ELSE a.after[Len(a.before) + Len(a.after) + 1 - k]

AttachedSoFar ==
  \A i \in DOMAIN actions : \A k \in Mentions(actions[i]) :
    phase = "attach" /\ (i < at \/ (i = at /\ k < turn)) => Mention(actions[i], k) \in Registered

Refusals ==
  /\ outcome = "NoSuchTask" => UnknownDependent
  /\ outcome = "MissingTaskDependency" => UnknownDependency
  /\ outcome = "MissingActionDependency" => UnknownInAction
  /\ outcome = "resolved" => phase = "attach" /\ at > Len(actions)

IInv ==
  /\ TypeOK
  /\ Position
  /\ Conserved
  /\ Waiting
  /\ ResolvedSoFar
  /\ AttachedSoFar
  /\ Refusals

----------------------------------------------------------------------------
(* Lemmas about sequences *)

LEMMA ConcatElements ==
  ASSUME NEW S, NEW s \in Seq(S), NEW t \in Seq(S)
  PROVE  /\ s \o t \in Seq(S)
         /\ Elements(s \o t) = Elements(s) \cup Elements(t)
<1>1. /\ s \o t \in Seq(S) /\ Len(s \o t) = Len(s) + Len(t)
      /\ Len(s) \in Nat /\ Len(t) \in Nat
      /\ DOMAIN s = 1..Len(s) /\ DOMAIN t = 1..Len(t)
      /\ DOMAIN (s \o t) = 1..(Len(s) + Len(t))
  BY ConcatProperties, LenProperties
<1>2. ASSUME NEW x \in Elements(s \o t) PROVE x \in Elements(s) \cup Elements(t)
  <2>1. PICK i \in DOMAIN (s \o t) : x = (s \o t)[i]
    BY DEF Elements
  <2>2. CASE i <= Len(s)
    <3>1. x = s[i] /\ i \in DOMAIN s
      BY <1>1, <2>1, <2>2, ConcatProperties
    <3> QED
      BY <3>1 DEF Elements
  <2>3. CASE i > Len(s)
    <3>1. x = t[i - Len(s)] /\ i - Len(s) \in DOMAIN t
      BY <1>1, <2>1, <2>3, ConcatProperties
    <3> QED
      BY <3>1 DEF Elements
  <2> QED
    BY <1>1, <2>1, <2>2, <2>3
<1>3. ASSUME NEW x \in Elements(s) PROVE x \in Elements(s \o t)
  <2>1. PICK i \in DOMAIN s : x = s[i]
    BY DEF Elements
  <2>2. x = (s \o t)[i] /\ i \in DOMAIN (s \o t)
    BY <1>1, <2>1, ConcatProperties
  <2> QED
    BY <2>2 DEF Elements
<1>4. ASSUME NEW x \in Elements(t) PROVE x \in Elements(s \o t)
  <2>1. PICK i \in DOMAIN t : x = t[i]
    BY DEF Elements
  <2>2. x = (s \o t)[Len(s) + i] /\ Len(s) + i \in DOMAIN (s \o t)
    BY <1>1, <2>1, ConcatProperties
  <2> QED
    BY <2>2 DEF Elements
<1> QED
  BY <1>1, <1>2, <1>3, <1>4

LEMMA AppendElements ==
  ASSUME NEW S, NEW s \in Seq(S), NEW x \in S
  PROVE  /\ Append(s, x) \in Seq(S)
         /\ Elements(Append(s, x)) = Elements(s) \cup {x}
         /\ Len(s) \in Nat /\ DOMAIN s = 1..Len(s)
         /\ DOMAIN Append(s, x) = 1..(Len(s) + 1)
         /\ \A i \in 1..Len(s) : Append(s, x)[i] = s[i]
         /\ Append(s, x)[Len(s) + 1] = x
<1>1. /\ Append(s, x) \in Seq(S) /\ Len(s) \in Nat /\ DOMAIN s = 1..Len(s)
      /\ DOMAIN Append(s, x) = 1..(Len(s) + 1)
      /\ \A i \in 1..Len(s) : Append(s, x)[i] = s[i]
      /\ Append(s, x)[Len(s) + 1] = x
  BY AppendProperties, LenProperties
<1>2. Elements(Append(s, x)) = Elements(s) \cup {x}
  BY <1>1 DEF Elements
<1> QED
  BY <1>1, <1>2

\* x is inserted behind the i-th element.
Inserted(s, i, x) == SubSeq(s, 1, i) \o <<x>> \o SubSeq(s, i + 1, Len(s))

LEMMA InsertAt ==
  ASSUME NEW S, NEW s \in Seq(S), NEW x \in S, NEW i \in 0..Len(s)
  PROVE  LET t == Inserted(s, i, x) IN
         /\ t \in Seq(S) /\ Len(s) \in Nat /\ DOMAIN s = 1..Len(s)
         /\ t = [k \in 1..(Len(s) + 1) |->
                   IF k <= i THEN s[k] ELSE IF k = i + 1 THEN x ELSE s[k - 1]]
<1> DEFINE n == Len(s)
           p == SubSeq(s, 1, i)
           q == SubSeq(s, i + 1, n)
           one == <<x>>
           px == p \o one
           r == px \o q
<1>1. /\ n \in Nat /\ i \in Nat /\ i <= n /\ i + 1 \in Int /\ DOMAIN s = 1..n
      /\ \A k \in 1..n : s[k] \in S
  BY LenProperties, ElementOfSeq
<1> HIDE DEF n
<1>2. /\ p \in Seq(S)
      /\ Len(p) = IF 1 <= i THEN i - 1 + 1 ELSE 0
      /\ \A k \in 1..(i - 1 + 1) : p[k] = s[1 + k - 1]
  <2>1. \A k \in 1..i : s[k] \in S
    BY <1>1
  <2> QED
    BY <1>1, <2>1, SubSeqProperties
<1>3. /\ q \in Seq(S)
      /\ Len(q) = IF i + 1 <= n THEN n - (i + 1) + 1 ELSE 0
      /\ \A k \in 1..(n - (i + 1) + 1) : q[k] = s[(i + 1) + k - 1]
  <2>1. \A k \in (i + 1)..n : s[k] \in S
    BY <1>1
  <2> QED
    BY <1>1, <2>1, SubSeqProperties
<1> HIDE DEF p, q
<1>4. Len(p) = i /\ Len(q) = n - i
  BY <1>1, <1>2, <1>3
<1>5. \A k \in 1..i : p[k] = s[k]
  <2>1. \A k \in 1..i : k \in 1..(i - 1 + 1) /\ 1 + k - 1 = k
    BY <1>1
  <2> QED
    BY <1>2, <2>1
<1>6. \A k \in 1..(n - i) : q[k] = s[i + k]
  <2>1. \A k \in 1..(n - i) : k \in 1..(n - (i + 1) + 1) /\ (i + 1) + k - 1 = i + k
    BY <1>1
  <2> QED
    BY <1>3, <2>1
<1>7. one \in Seq(S) /\ Len(one) = 1 /\ one[1] = x
  OBVIOUS
<1> HIDE DEF one
<1>8. /\ px \in Seq(S) /\ Len(px) = i + 1
      /\ \A k \in 1..(i + 1) : px[k] = IF k <= i THEN p[k] ELSE one[k - i]
  <2>1. /\ px \in Seq(S) /\ Len(px) = Len(p) + Len(one)
        /\ \A k \in 1..(Len(p) + Len(one)) : px[k] = IF k <= Len(p) THEN p[k] ELSE one[k - Len(p)]
    BY <1>2, <1>7, ConcatProperties
  <2> QED
    BY <1>4, <1>7, <2>1
<1>9. (\A k \in 1..i : px[k] = s[k]) /\ px[i + 1] = x
  <2>1. i + 1 \in 1..(i + 1) /\ ~ (i + 1 <= i) /\ i + 1 - i = 1
    BY <1>1
  <2>2. \A k \in 1..i : k \in 1..(i + 1) /\ k <= i
    BY <1>1
  <2>3. px[i + 1] = one[i + 1 - i]
    BY <1>8, <2>1
  <2>4. \A k \in 1..i : px[k] = p[k]
    BY <1>8, <2>2
  <2> QED
    BY <1>5, <1>7, <2>1, <2>3, <2>4
<1> HIDE DEF px
<1>10. /\ r \in Seq(S) /\ Len(r) = i + 1 + (n - i)
       /\ \A k \in 1..(i + 1 + (n - i)) : r[k] = IF k <= i + 1 THEN px[k] ELSE q[k - (i + 1)]
  <2>1. /\ r \in Seq(S) /\ Len(r) = Len(px) + Len(q)
        /\ \A k \in 1..(Len(px) + Len(q)) : r[k] = IF k <= Len(px) THEN px[k] ELSE q[k - Len(px)]
    BY <1>3, <1>8, ConcatProperties
  <2> QED
    BY <1>4, <1>8, <2>1
<1>11. Len(r) = n + 1 /\ DOMAIN r = 1..(n + 1)
  <2>1. i + 1 + (n - i) = n + 1
    BY <1>1
  <2> QED
    BY <1>10, <2>1, LenProperties
<1>12. /\ \A k \in 1..i : r[k] = s[k]
       /\ r[i + 1] = x
  <2>1. \A k \in 1..(i + 1) : k \in 1..(i + 1 + (n - i)) /\ k <= i + 1
    BY <1>1
  <2>2. i + 1 \in 1..(i + 1) /\ \A k \in 1..i : k \in 1..(i + 1)
    BY <1>1
  <2> QED
    BY <1>9, <1>10, <2>1, <2>2
<1>13. \A k \in (i + 2)..(n + 1) : r[k] = s[k - 1]
  <2>1. ASSUME NEW k \in (i + 2)..(n + 1) PROVE r[k] = s[k - 1]
    <3>1. /\ k \in 1..(i + 1 + (n - i)) /\ ~ (k <= i + 1)
          /\ k - (i + 1) \in 1..(n - i) /\ i + (k - (i + 1)) = k - 1
      BY <1>1
    <3> QED
      BY <1>6, <1>10, <3>1
  <2> QED
    BY <2>1
<1> HIDE DEF r
<1>14. \A k \in 1..(n + 1) : r[k] = IF k <= i THEN s[k] ELSE IF k = i + 1 THEN x ELSE s[k - 1]
  <2>1. ASSUME NEW k \in 1..(n + 1)
        PROVE  r[k] = IF k <= i THEN s[k] ELSE IF k = i + 1 THEN x ELSE s[k - 1]
    <3>1. CASE k <= i
      <4>1. k \in 1..i
        BY <1>1, <3>1
      <4> QED
        BY <1>12, <3>1, <4>1
    <3>2. CASE k = i + 1
      <4>1. ~ (k <= i)
        BY <1>1, <3>2
      <4> QED
        BY <1>12, <3>2, <4>1
    <3>3. CASE ~ (k <= i) /\ k # i + 1
      <4>1. k \in (i + 2)..(n + 1)
        BY <1>1, <3>3
      <4> QED
        BY <1>13, <3>3, <4>1
    <3> QED
      BY <3>1, <3>2, <3>3
  <2> QED
    BY <2>1
<1>15. r = [k \in 1..(n + 1) |-> IF k <= i THEN s[k] ELSE IF k = i + 1 THEN x ELSE s[k - 1]]
  <2>1. r \in [1..(n + 1) -> S]
    BY <1>10, <1>11, LenProperties
  <2> QED
    BY <1>14, <2>1
<1>16. /\ r \in Seq(S) /\ n \in Nat /\ DOMAIN s = 1..n
       /\ r = [k \in 1..(n + 1) |-> IF k <= i THEN s[k] ELSE IF k = i + 1 THEN x ELSE s[k - 1]]
  BY <1>1, <1>10, <1>15
<1> QED
  BY <1>16 DEF r, px, one, p, q, n, Inserted

\* An element that is inserted joins the others.
LEMMA InsertElements ==
  ASSUME NEW S, NEW s \in Seq(S), NEW x \in S, NEW i \in 0..Len(s)
  PROVE  LET r == Inserted(s, i, x) IN
         r \in Seq(S) /\ Elements(r) = Elements(s) \cup {x}
<1> DEFINE r == Inserted(s, i, x)
           n == Len(s)
<1>1. /\ r \in Seq(S) /\ n \in Nat /\ DOMAIN s = 1..n
      /\ r = [k \in 1..(n + 1) |-> IF k <= i THEN s[k] ELSE IF k = i + 1 THEN x ELSE s[k - 1]]
  BY InsertAt
<1>2. i \in Nat /\ i <= n
  BY <1>1
<1> HIDE DEF r, n
<1>3. ASSUME NEW k \in 1..n PROVE s[k] \in Elements(r)
  <2>1. CASE k <= i
    <3>1. k \in 1..(n + 1)
      BY <1>1
    <3>2. r[k] = s[k]
      BY <1>1, <2>1, <3>1
    <3> QED
      BY <1>1, <3>1, <3>2 DEF Elements
  <2>2. CASE ~ (k <= i)
    <3>1. k + 1 \in 1..(n + 1) /\ ~ (k + 1 <= i) /\ k + 1 # i + 1 /\ k + 1 - 1 = k
      BY <1>1, <1>2, <2>2
    <3>2. r[k + 1] = s[k]
      BY <1>1, <3>1
    <3> QED
      BY <1>1, <3>1, <3>2 DEF Elements
  <2> QED
    BY <2>1, <2>2
<1>4. x \in Elements(r)
  <2>1. i + 1 \in 1..(n + 1) /\ ~ (i + 1 <= i)
    BY <1>1, <1>2
  <2>2. r[i + 1] = x
    BY <1>1, <2>1
  <2> QED
    BY <1>1, <2>1, <2>2 DEF Elements
<1>5. ASSUME NEW k \in 1..(n + 1) PROVE r[k] \in Elements(s) \cup {x}
  <2>1. CASE k <= i
    <3>1. k \in 1..n /\ r[k] = s[k]
      BY <1>1, <1>2, <2>1
    <3> QED
      BY <1>1, <3>1 DEF Elements
  <2>2. CASE k = i + 1
    <3>1. r[k] = x
      BY <1>1, <1>2, <2>2
    <3> QED
      BY <3>1
  <2>3. CASE ~ (k <= i) /\ k # i + 1
    <3>1. k - 1 \in 1..n /\ r[k] = s[k - 1]
      BY <1>1, <1>2, <2>3
    <3> QED
      BY <1>1, <3>1 DEF Elements
  <2> QED
    BY <2>1, <2>2, <2>3
<1>6. Elements(r) = Elements(s) \cup {x}
  <2>1. /\ \A y \in Elements(r) : \E k \in 1..(n + 1) : r[k] = y
        /\ \A y \in Elements(s) : \E k \in 1..n : s[k] = y
    BY <1>1 DEF Elements
  <2> QED
    BY <1>3, <1>4, <1>5, <2>1
<1> QED
  BY <1>1, <1>6 DEF r

LEMMA EmptyElements == Elements(<<>>) = {}
BY DEF Elements

LEMMA DependencyFields ==
  ASSUME NEW d \in Dependency
  PROVE  /\ d.name \in Name /\ d.optional \in BOOLEAN
         /\ d = [name |-> d.name, optional |-> d.optional]
         /\ Weakened(d) \in Dependency /\ Weakened(d).name = d.name
         /\ Weakened(d).optional = FALSE
         /\ ~ d.optional => d = Weakened(d)
BY DEF Dependency, Weakened

LEMMA ModuleFacts ==
  ASSUME NEW m \in Module
  PROVE  /\ m.dependents \in Seq(Edge)
         /\ m.tasks \in Seq([name : Name, deps : Seq(Dependency)])
         /\ m.actions \in Seq(Action)
         /\ DOMAIN m.dependents = 1..Len(m.dependents) /\ Len(m.dependents) \in Nat
         /\ DOMAIN m.tasks = 1..Len(m.tasks) /\ Len(m.tasks) \in Nat
         /\ DOMAIN m.actions = 1..Len(m.actions) /\ Len(m.actions) \in Nat
         /\ \A i \in DOMAIN m.dependents : m.dependents[i] \in Edge
         /\ \A i \in DOMAIN m.tasks : m.tasks[i].name \in Name /\ m.tasks[i].deps \in Seq(Dependency)
         /\ \A i \in DOMAIN m.actions : m.actions[i] \in Action
<1>1. /\ m.dependents \in Seq(Edge)
      /\ m.tasks \in Seq([name : Name, deps : Seq(Dependency)])
      /\ m.actions \in Seq(Action)
  BY DEF Module
<1>2. /\ DOMAIN m.dependents = 1..Len(m.dependents) /\ Len(m.dependents) \in Nat
      /\ \A i \in DOMAIN m.dependents : m.dependents[i] \in Edge
  BY <1>1, LenProperties, ElementOfSeq
<1>3. /\ DOMAIN m.tasks = 1..Len(m.tasks) /\ Len(m.tasks) \in Nat
      /\ \A i \in DOMAIN m.tasks : m.tasks[i] \in [name : Name, deps : Seq(Dependency)]
  BY <1>1, LenProperties, ElementOfSeq
<1>4. /\ DOMAIN m.actions = 1..Len(m.actions) /\ Len(m.actions) \in Nat
      /\ \A i \in DOMAIN m.actions : m.actions[i] \in Action
  BY <1>1, LenProperties, ElementOfSeq
<1> QED
  BY <1>1, <1>2, <1>3, <1>4

LEMMA BuildFacts ==
  ASSUME TypeOK
  PROVE  /\ Len(build) \in Nat /\ DOMAIN build = 1..Len(build)
         /\ \A m \in DOMAIN build : build[m] \in Module
         /\ DOMAIN tasks = 1..Len(tasks) /\ Len(tasks) \in Nat
         /\ DOMAIN actions = 1..Len(actions) /\ Len(actions) \in Nat
         /\ \A i \in DOMAIN tasks : tasks[i] \in Name
         /\ \A i \in DOMAIN actions : actions[i] \in Action
<1>1. build \in Seq(Module) /\ tasks \in Seq(Name) /\ actions \in Seq(Action)
  BY DEF TypeOK
<1> QED
  BY <1>1, LenProperties, ElementOfSeq

\* The edges under a name.
LEMMA EdgeFacts ==
  ASSUME NEW f \in [Name -> Seq(Dependency)], NEW n \in Name
  PROVE  /\ f[n] \in Seq(Dependency)
         /\ Len(f[n]) \in Nat /\ DOMAIN f[n] = 1..Len(f[n])
         /\ \A i \in DOMAIN f[n] : f[n][i] \in Dependency
         /\ Elements(f[n]) \subseteq Dependency
         /\ f[n] = <<>> <=> Elements(f[n]) = {}
<1>1. f[n] \in Seq(Dependency)
  OBVIOUS
<1>2. /\ Len(f[n]) \in Nat /\ DOMAIN f[n] = 1..Len(f[n])
      /\ \A i \in DOMAIN f[n] : f[n][i] \in Dependency
  BY <1>1, LenProperties, ElementOfSeq
<1>3. Elements(f[n]) \subseteq Dependency
  BY <1>2 DEF Elements
<1>4. f[n] = <<>> => Elements(f[n]) = {}
  BY EmptyElements
<1>5. Elements(f[n]) = {} => f[n] = <<>>
  <2>1. ASSUME f[n] # <<>> PROVE Elements(f[n]) # {}
    <3>1. Len(f[n]) # 0
      BY <1>1, <2>1, EmptySeq
    <3>2. 1 \in DOMAIN f[n]
      BY <1>2, <3>1
    <3> QED
      BY <3>2 DEF Elements
  <2> QED
    BY <2>1
<1> QED
  BY <1>1, <1>2, <1>3, <1>4, <1>5

LEMMA CurrentFacts ==
  ASSUME IInv, Collecting
  PROVE  Current \in Module /\ module \in DOMAIN build
<1>1. module \in 1..(Len(build) + 1) /\ module <= Len(build)
  BY DEF IInv, TypeOK, Position
<1>2. TypeOK
  BY DEF IInv
<1>3. module \in DOMAIN build
  BY <1>1, <1>2, BuildFacts
<1> QED
  BY <1>2, <1>3, BuildFacts DEF Current

----------------------------------------------------------------------------
(* The invariant holds initially *)

LEMMA InitIInv ==
  ASSUME Init
  PROVE  IInv
<1>1. /\ build \in Seq(Module) /\ build # <<>> /\ build \in Builds
  BY TaskRegistryAssumption DEF Init
<1>2. Len(build) \in Nat /\ Len(build) # 0
  BY <1>1, LenProperties, EmptySeq
<1>3. None \in [Name -> Seq(Dependency)] /\ None \in [Name -> Seq(Action)]
  BY DEF None
<1>4. \A n \in Name : None[n] = <<>>
  BY DEF None
<1>5. TypeOK
  BY <1>1, <1>2, <1>3 DEF Init, TypeOK
<1>6. Position
  BY <1>1, <1>2 DEF Init, Position, Collecting
<1>7. \A m \in DOMAIN build : ~ Past(m)
  BY <1>5, BuildFacts DEF Init, Past
<1>8. Current \in Module
  BY <1>2, <1>5, BuildFacts DEF Init, Current
<1>9. Conserved
  <2>1. ASSUME NEW n \in Name, NEW d \in Dependency
        PROVE  ~ InFlight(n, d) /\ ~ SeenEdge(n, d)
    <3>1. ~ InFlight(n, d)
      BY <1>4, EmptyElements DEF Init, InFlight
    <3>2. ~ SeenDependent(n, d)
      BY <1>8, ModuleFacts DEF Init, SeenDependent
    <3> QED
      BY <1>7, <3>1, <3>2 DEF Init, SeenEdge
  <2>2. ASSUME NEW n \in Name
        PROVE  n \notin Registered /\ ~ SeenTask(n)
    BY <1>7, EmptyElements DEF Init, Registered, SeenTask
  <2>3. ASSUME NEW a \in Action
        PROVE  a \notin Elements(actions) /\ ~ SeenAction(a)
    BY <1>7, EmptyElements DEF Init, SeenAction
  <2> QED
    BY <2>1, <2>2, <2>3 DEF Conserved
<1>10. Waiting
  BY <1>4 DEF Init, Waiting, WaitsForItsTask, Collecting
<1>11. ResolvedSoFar
  <2>1. \A n \in Name, d \in Dependency : ~ GoneThrough(n, d)
    BY DEF Init, GoneThrough, Gone
  <2>2. \A n \in Name : resolved[n] = <<>>
    BY <1>4 DEF Init
  <2> QED
    BY <2>1, <2>2, EmptyElements DEF ResolvedSoFar
<1>12. AttachedSoFar /\ Refusals
  BY DEF Init, AttachedSoFar, Refusals
<1> QED
  BY <1>5, <1>6, <1>9, <1>10, <1>11, <1>12 DEF IInv

----------------------------------------------------------------------------
(* Registration: the edges of the modules gone through are conserved *)

\* Nothing has been resolved before the resolution begins.
LEMMA EarlyStep ==
  ASSUME IInv,
         phase \notin {"dependencies", "attach"}, phase' \notin {"dependencies", "attach"},
         resolved' = resolved, outcome' = "registering"
  PROVE  ResolvedSoFar' /\ AttachedSoFar' /\ Refusals'
<1>1. \A n \in Name, d \in Dependency : ~ GoneThrough(n, d) /\ ~ GoneThrough(n, d)'
  BY DEF GoneThrough, Gone
<1>2. \A d \in Dependency : Weakened(d) \in Dependency
  BY DependencyFields
<1>3. ResolvedSoFar'
  <2>1. ASSUME NEW n \in Name
        PROVE  /\ \A i, j \in DOMAIN resolved[n] : resolved[n][i].name = resolved[n][j].name => i = j
               /\ \A d \in Dependency : d \notin Elements(resolved[n])
    BY <1>1 DEF IInv, ResolvedSoFar
  <2> QED
    BY <1>1, <2>1 DEF ResolvedSoFar, Elements
<1> QED
  BY <1>3 DEF AttachedSoFar, Refusals

LEMMA InjectStep ==
  ASSUME IInv, InjectDependency
  PROVE  IInv'
<1> DEFINE e == Current.dependents[at]
           d0 == [name |-> e.on, optional |-> e.optional]
<1>1. /\ phase = "inject" /\ phase' = "inject" /\ outcome = "registering"
      /\ at <= Len(Current.dependents) /\ at' = at + 1 /\ Collecting /\ Collecting'
      /\ Current' = Current
      /\ injected' = [injected EXCEPT ![e.task] = Append(@, d0)]
  BY DEF InjectDependency, InLoop, Registering, Collecting, Current
<1>2. /\ Current \in Module /\ TypeOK
      /\ at \in Nat \ {0} /\ injected \in [Name -> Seq(Dependency)]
  BY <1>1, CurrentFacts DEF IInv, TypeOK
<1>3. at \in DOMAIN Current.dependents /\ e \in Edge
  BY <1>1, <1>2, ModuleFacts
<1>4. e.task \in Name /\ d0 \in Dependency
  BY <1>3 DEF Edge, Dependency
<1> HIDE DEF e, d0
<1>5. /\ Append(injected[e.task], d0) \in Seq(Dependency)
      /\ Elements(Append(injected[e.task], d0)) = Elements(injected[e.task]) \cup {d0}
  BY <1>2, <1>4, AppendElements
<1>6. /\ injected' \in [Name -> Seq(Dependency)]
      /\ injected'[e.task] = Append(injected[e.task], d0)
      /\ \A n \in Name : n # e.task => injected'[n] = injected[n]
  BY <1>1, <1>2, <1>4, <1>5
<1>7. TypeOK'
  <2>1. at' \in Nat \ {0} /\ injected' \in [Name -> Seq(Dependency)]
    BY <1>1, <1>2, <1>6
  <2>2. UNCHANGED <<build, phase, module, turn, tasks, deps, pending, actions, resolved,
                    before, after, outcome>>
    BY <1>1 DEF InjectDependency
  <2> QED
    BY <1>2, <2>1, <2>2 DEF TypeOK
<1>8. Position'
  BY <1>1 DEF IInv, Position, InjectDependency
<1>9. ASSUME NEW n \in Name, NEW d \in Dependency
      PROVE  InFlight(n, d)' <=> SeenEdge(n, d)'
  <2>1. InFlight(n, d)' <=> InFlight(n, d) \/ (n = e.task /\ d = d0)
    <3>1. d \in Elements(injected'[n]) <=> d \in Elements(injected[n]) \/ (n = e.task /\ d = d0)
      BY <1>5, <1>6
    <3>2. deps' = deps /\ pending' = pending
      BY DEF InjectDependency
    <3> QED
      BY <3>1, <3>2 DEF InFlight
  <2>2. SeenDependent(n, d)' <=> SeenDependent(n, d) \/ (n = e.task /\ d = d0)
    <3>1. e = [task |-> n, on |-> d.name, optional |-> d.optional] <=> n = e.task /\ d = d0
      <4>1. e = [task |-> e.task, on |-> e.on, optional |-> e.optional]
        BY <1>3 DEF Edge
      <4>2. d = [name |-> d.name, optional |-> d.optional]
        BY DependencyFields
      <4> QED
        BY <4>1, <4>2 DEF d0
    <3>2. \A i \in DOMAIN Current.dependents : i < at + 1 <=> i < at \/ i = at
      <4>1. at \in Nat /\ DOMAIN Current.dependents = 1..Len(Current.dependents)
            /\ Len(Current.dependents) \in Nat
        BY <1>2, ModuleFacts
      <4> QED
        BY <4>1
    <3>3. SeenDependent(n, d)' <=>
            \E i \in DOMAIN Current.dependents :
              (i < at \/ i = at) /\ Current.dependents[i] = [task |-> n, on |-> d.name, optional |-> d.optional]
      BY <1>1, <3>2 DEF SeenDependent
    <3>4. SeenDependent(n, d) <=>
            \E i \in DOMAIN Current.dependents :
              i < at /\ Current.dependents[i] = [task |-> n, on |-> d.name, optional |-> d.optional]
      BY <1>1 DEF SeenDependent
    <3> QED
      BY <1>3, <3>1, <3>3, <3>4 DEF e
  <2>3. SeenEdge(n, d)' <=> SeenEdge(n, d) \/ (n = e.task /\ d = d0)
    BY <1>1, <2>2 DEF SeenEdge, Past, InjectDependency
  <2> QED
    BY <2>1, <2>3 DEF IInv, Conserved
<1>10. ASSUME NEW n \in Name PROVE n \in Registered' <=> SeenTask(n)'
  BY <1>1 DEF IInv, Conserved, Registered, SeenTask, Past, InjectDependency
<1>11. ASSUME NEW a \in Action PROVE a \in Elements(actions)' <=> SeenAction(a)'
  BY <1>1 DEF IInv, Conserved, SeenAction, Past, InjectDependency
<1>12. Conserved'
  BY <1>9, <1>10, <1>11 DEF Conserved
<1>13. Waiting'
  BY <1>1 DEF IInv, Waiting, WaitsForItsTask, InjectDependency, Registered
<1>14. ResolvedSoFar' /\ AttachedSoFar' /\ Refusals'
  BY <1>1, EarlyStep DEF InjectDependency
<1> QED
  BY <1>7, <1>8, <1>12, <1>13, <1>14 DEF IInv

LEMMA BeginTasksStep ==
  ASSUME IInv, BeginTasks
  PROVE  IInv'
<1>1. /\ phase = "inject" /\ phase' = "tasks" /\ outcome = "registering" /\ outcome' = outcome
      /\ at > Len(Current.dependents) /\ at' = 1 /\ turn' = 1 /\ Collecting /\ Collecting'
      /\ Current' = Current
  BY DEF BeginTasks, LoopOver, Registering, Collecting, Current, Begin
<1>2. Current \in Module /\ TypeOK /\ at \in Nat
  BY <1>1, CurrentFacts DEF IInv, TypeOK
<1>3. TypeOK'
  BY <1>1, <1>2 DEF TypeOK, BeginTasks
<1>4. Position'
  BY <1>1 DEF IInv, Position, BeginTasks
<1>5. \A i \in DOMAIN Current.dependents : i < at
  BY <1>1, <1>2, ModuleFacts
<1>6. \A i \in DOMAIN Current.tasks : ~ (i < 1)
  BY <1>2, ModuleFacts
<1>7. ASSUME NEW n \in Name, NEW d \in Dependency
      PROVE  InFlight(n, d)' <=> SeenEdge(n, d)'
  <2>1. InFlight(n, d)' <=> InFlight(n, d)
    BY DEF InFlight, BeginTasks
  <2>2. SeenDependent(n, d)' <=> SeenDependent(n, d)
    BY <1>1, <1>5 DEF SeenDependent
  <2>3. ~ SeenDependency(n, d)'
    BY <1>1, <1>6 DEF SeenDependency
  <2>4. SeenEdge(n, d)' <=> SeenEdge(n, d)
    BY <1>1, <2>2, <2>3 DEF SeenEdge, Past, BeginTasks
  <2> QED
    BY <2>1, <2>4 DEF IInv, Conserved
<1>8. ASSUME NEW n \in Name PROVE n \in Registered' <=> SeenTask(n)'
  BY <1>1, <1>6 DEF IInv, Conserved, Registered, SeenTask, Past, BeginTasks
<1>9. ASSUME NEW a \in Action PROVE a \in Elements(actions)' <=> SeenAction(a)'
  BY <1>1 DEF IInv, Conserved, SeenAction, Past, BeginTasks
<1>10. Conserved'
  BY <1>7, <1>8, <1>9 DEF Conserved
<1>11. Waiting'
  BY <1>1 DEF IInv, Waiting, WaitsForItsTask, BeginTasks, Registered
<1>12. ResolvedSoFar' /\ AttachedSoFar' /\ Refusals'
  BY <1>1, EarlyStep DEF BeginTasks
<1> QED
  BY <1>3, <1>4, <1>10, <1>11, <1>12 DEF IInv

LEMMA RegisterTaskStep ==
  ASSUME IInv, RegisterTask
  PROVE  IInv'
<1> DEFINE t == Current.tasks[at]
<1>1. /\ phase = "tasks" /\ phase' = "tasks" /\ outcome = "registering" /\ outcome' = outcome
      /\ at <= Len(Current.tasks) /\ at' = at + 1 /\ Collecting /\ Collecting'
      /\ Current' = Current
      /\ tasks' = IF t.name \in Registered THEN tasks ELSE Append(tasks, t.name)
      /\ deps' = [deps EXCEPT ![t.name] = @ \o t.deps \o injected[t.name]]
      /\ injected' = [injected EXCEPT ![t.name] = <<>>]
  BY DEF RegisterTask, InLoop, Registering, Collecting, Current
<1>2. /\ Current \in Module /\ TypeOK
      /\ at \in Nat \ {0} /\ tasks \in Seq(Name)
      /\ injected \in [Name -> Seq(Dependency)] /\ deps \in [Name -> Seq(Dependency)]
  BY <1>1, CurrentFacts DEF IInv, TypeOK
<1>3. at \in DOMAIN Current.tasks /\ t.name \in Name /\ t.deps \in Seq(Dependency)
  BY <1>1, <1>2, ModuleFacts
<1> HIDE DEF t
<1>4. /\ deps[t.name] \in Seq(Dependency) /\ injected[t.name] \in Seq(Dependency)
      /\ <<>> \in Seq(Dependency)
  BY <1>2, <1>3
<1>5. /\ deps[t.name] \o t.deps \in Seq(Dependency)
      /\ Elements(deps[t.name] \o t.deps) = Elements(deps[t.name]) \cup Elements(t.deps)
  BY <1>3, <1>4, ConcatElements
<1>6. /\ (deps[t.name] \o t.deps) \o injected[t.name] \in Seq(Dependency)
      /\ Elements((deps[t.name] \o t.deps) \o injected[t.name])
           = Elements(deps[t.name]) \cup Elements(t.deps) \cup Elements(injected[t.name])
  <2> DEFINE known == deps[t.name] \o t.deps
  <2>1. known \in Seq(Dependency) /\ Elements(known) = Elements(deps[t.name]) \cup Elements(t.deps)
    BY <1>5
  <2> HIDE DEF known
  <2>2. /\ known \o injected[t.name] \in Seq(Dependency)
        /\ Elements(known \o injected[t.name]) = Elements(known) \cup Elements(injected[t.name])
    BY <1>4, <2>1, ConcatElements
  <2> QED
    BY <2>1, <2>2 DEF known
<1>7. /\ injected' \in [Name -> Seq(Dependency)] /\ deps' \in [Name -> Seq(Dependency)]
      /\ injected'[t.name] = <<>>
      /\ deps'[t.name] = (deps[t.name] \o t.deps) \o injected[t.name]
      /\ \A n \in Name : n # t.name => injected'[n] = injected[n] /\ deps'[n] = deps[n]
  BY <1>1, <1>2, <1>3, <1>4, <1>6
<1>8. tasks' \in Seq(Name) /\ Registered' = Registered \cup {t.name}
  <2>1. CASE t.name \in Registered
    BY <1>1, <1>2, <2>1 DEF Registered
  <2>2. CASE t.name \notin Registered
    BY <1>1, <1>2, <1>3, <2>2, AppendElements DEF Registered
  <2> QED
    BY <2>1, <2>2
<1>9. TypeOK'
  <2>1. at' \in Nat \ {0}
    BY <1>1, <1>2
  <2>2. UNCHANGED <<build, phase, module, turn, pending, actions, resolved, before, after,
                    outcome>>
    BY <1>1 DEF RegisterTask
  <2> QED
    BY <1>2, <1>7, <1>8, <2>1, <2>2 DEF TypeOK
<1>10. Position'
  BY <1>1 DEF IInv, Position, RegisterTask
<1>11. \A i \in DOMAIN Current.tasks : i < at + 1 <=> i < at \/ i = at
  BY <1>2, ModuleFacts
<1>12. ASSUME NEW n \in Name, NEW d \in Dependency
       PROVE  InFlight(n, d)' <=> SeenEdge(n, d)'
  <2>1. InFlight(n, d)' <=> InFlight(n, d) \/ (n = t.name /\ d \in Elements(t.deps))
    BY <1>6, <1>7, EmptyElements DEF InFlight, RegisterTask
  <2>2. SeenDependency(n, d)' <=> SeenDependency(n, d) \/ (n = t.name /\ d \in Elements(t.deps))
    <3>1. SeenDependency(n, d)' <=>
            \E i \in DOMAIN Current.tasks :
              (i < at \/ i = at) /\ Current.tasks[i].name = n /\ d \in Elements(Current.tasks[i].deps)
      BY <1>1, <1>11 DEF SeenDependency
    <3>2. SeenDependency(n, d) <=>
            \E i \in DOMAIN Current.tasks :
              i < at /\ Current.tasks[i].name = n /\ d \in Elements(Current.tasks[i].deps)
      BY <1>1 DEF SeenDependency
    <3> QED
      BY <1>3, <3>1, <3>2 DEF t
  <2>3. SeenDependent(n, d)' <=> SeenDependent(n, d)
    BY <1>1 DEF SeenDependent
  <2>4. SeenEdge(n, d)' <=> SeenEdge(n, d) \/ (n = t.name /\ d \in Elements(t.deps))
    BY <1>1, <2>2, <2>3 DEF SeenEdge, Past, RegisterTask
  <2> QED
    BY <2>1, <2>4 DEF IInv, Conserved
<1>13. ASSUME NEW n \in Name PROVE n \in Registered' <=> SeenTask(n)'
  <2>1. SeenTask(n)' <=> SeenTask(n) \/ n = t.name
    <3>1. SeenTask(n)' <=>
            \/ \E m \in DOMAIN build : Past(m) /\ n \in ModuleTasks(build[m])
            \/ \E i \in DOMAIN Current.tasks : (i < at \/ i = at) /\ Current.tasks[i].name = n
      BY <1>1, <1>11 DEF SeenTask, Past, RegisterTask
    <3>2. SeenTask(n) <=>
            \/ \E m \in DOMAIN build : Past(m) /\ n \in ModuleTasks(build[m])
            \/ \E i \in DOMAIN Current.tasks : i < at /\ Current.tasks[i].name = n
      BY <1>1 DEF SeenTask
    <3> QED
      BY <1>3, <3>1, <3>2 DEF t
  <2> QED
    BY <1>8, <2>1 DEF IInv, Conserved
<1>14. ASSUME NEW a \in Action PROVE a \in Elements(actions)' <=> SeenAction(a)'
  BY <1>1 DEF IInv, Conserved, SeenAction, Past, RegisterTask
<1>15. Conserved'
  BY <1>12, <1>13, <1>14 DEF Conserved
<1>16. Waiting'
  BY <1>1, <1>7, <1>8 DEF IInv, Waiting, WaitsForItsTask
<1>17. ResolvedSoFar' /\ AttachedSoFar' /\ Refusals'
  BY <1>1, EarlyStep DEF RegisterTask
<1> QED
  BY <1>9, <1>10, <1>15, <1>16, <1>17 DEF IInv

LEMMA BeginActionsStep ==
  ASSUME IInv, BeginActions
  PROVE  IInv'
<1>1. /\ phase = "tasks" /\ phase' = "actions" /\ outcome = "registering" /\ outcome' = outcome
      /\ at > Len(Current.tasks) /\ at' = 1 /\ turn' = 1 /\ Collecting /\ Collecting'
      /\ Current' = Current
  BY DEF BeginActions, LoopOver, Registering, Collecting, Current, Begin
<1>2. Current \in Module /\ TypeOK /\ at \in Nat
  BY <1>1, CurrentFacts DEF IInv, TypeOK
<1>3. TypeOK'
  BY <1>1, <1>2 DEF TypeOK, BeginActions
<1>4. Position'
  BY <1>1 DEF IInv, Position, BeginActions
<1>5. \A i \in DOMAIN Current.tasks : i < at
  BY <1>1, <1>2, ModuleFacts
<1>6. \A i \in DOMAIN Current.actions : ~ (i < 1)
  BY <1>2, ModuleFacts
<1>7. ASSUME NEW n \in Name, NEW d \in Dependency
      PROVE  InFlight(n, d)' <=> SeenEdge(n, d)'
  <2>1. InFlight(n, d)' <=> InFlight(n, d)
    BY DEF InFlight, BeginActions
  <2>2. SeenDependent(n, d)' <=> SeenDependent(n, d)
    BY <1>1 DEF SeenDependent
  <2>3. SeenDependency(n, d)' <=> SeenDependency(n, d)
    BY <1>1, <1>5 DEF SeenDependency
  <2>4. SeenEdge(n, d)' <=> SeenEdge(n, d)
    BY <1>1, <2>2, <2>3 DEF SeenEdge, Past, BeginActions
  <2> QED
    BY <2>1, <2>4 DEF IInv, Conserved
<1>8. ASSUME NEW n \in Name PROVE n \in Registered' <=> SeenTask(n)'
  BY <1>1, <1>5 DEF IInv, Conserved, Registered, SeenTask, Past, BeginActions
<1>9. ASSUME NEW a \in Action PROVE a \in Elements(actions)' <=> SeenAction(a)'
  BY <1>1, <1>6 DEF IInv, Conserved, SeenAction, Past, BeginActions
<1>10. Conserved'
  BY <1>7, <1>8, <1>9 DEF Conserved
<1>11. Waiting'
  BY <1>1 DEF IInv, Waiting, WaitsForItsTask, BeginActions, Registered
<1>12. ResolvedSoFar' /\ AttachedSoFar' /\ Refusals'
  BY <1>1, EarlyStep DEF BeginActions
<1> QED
  BY <1>3, <1>4, <1>10, <1>11, <1>12 DEF IInv

LEMMA RegisterActionStep ==
  ASSUME IInv, RegisterAction
  PROVE  IInv'
<1> DEFINE a0 == Current.actions[at]
<1>1. /\ phase = "actions" /\ phase' = "actions" /\ outcome = "registering" /\ outcome' = outcome
      /\ at <= Len(Current.actions) /\ at' = at + 1 /\ Collecting /\ Collecting'
      /\ Current' = Current
  BY DEF RegisterAction, InLoop, Registering, Collecting, Current
<1>2. Current \in Module /\ TypeOK /\ at \in Nat \ {0} /\ actions \in Seq(Action)
  BY <1>1, CurrentFacts DEF IInv, TypeOK
<1>3. at \in DOMAIN Current.actions /\ a0 \in Action
  BY <1>1, <1>2, ModuleFacts
<1>4. PICK i \in 0..Len(actions) :
        actions' = SubSeq(actions, 1, i) \o <<a0>> \o SubSeq(actions, i + 1, Len(actions))
  BY DEF RegisterAction
<1> HIDE DEF a0
<1>5. actions' \in Seq(Action) /\ Elements(actions') = Elements(actions) \cup {a0}
  <2>1. actions' = Inserted(actions, i, a0)
    BY <1>4 DEF Inserted
  <2> QED
    BY <1>2, <1>3, <2>1, InsertElements
<1>6. UNCHANGED <<build, phase, module, turn, injected, tasks, deps, pending, resolved,
                  before, after, outcome>>
  BY DEF RegisterAction
<1>7. TypeOK'
  <2>1. at' \in Nat \ {0}
    BY <1>1, <1>2
  <2> QED
    BY <1>2, <1>5, <1>6, <2>1 DEF TypeOK
<1>8. Position'
  BY <1>1, <1>6 DEF IInv, Position
<1>9. ASSUME NEW n \in Name, NEW d \in Dependency
      PROVE  InFlight(n, d)' <=> SeenEdge(n, d)'
  <2>1. InFlight(n, d)' <=> InFlight(n, d)
    BY <1>6 DEF InFlight
  <2>2. SeenDependent(n, d)' <=> SeenDependent(n, d)
    BY <1>1 DEF SeenDependent
  <2>3. SeenDependency(n, d)' <=> SeenDependency(n, d)
    BY <1>1 DEF SeenDependency
  <2>4. SeenEdge(n, d)' <=> SeenEdge(n, d)
    BY <1>1, <1>6, <2>2, <2>3 DEF SeenEdge, Past
  <2> QED
    BY <2>1, <2>4 DEF IInv, Conserved
<1>10. ASSUME NEW n \in Name PROVE n \in Registered' <=> SeenTask(n)'
  BY <1>1, <1>6 DEF IInv, Conserved, Registered, SeenTask, Past
<1>11. ASSUME NEW a \in Action PROVE a \in Elements(actions)' <=> SeenAction(a)'
  <2>1. \A j \in DOMAIN Current.actions : j < at + 1 <=> j < at \/ j = at
    <3>1. /\ at \in Nat /\ Len(Current.actions) \in Nat
          /\ DOMAIN Current.actions = 1..Len(Current.actions)
      BY <1>2, ModuleFacts
    <3> QED
      BY <3>1
  <2>2. SeenAction(a)' <=>
          \/ \E m \in DOMAIN build : Past(m) /\ a \in Elements(build[m].actions)
          \/ \E j \in DOMAIN Current.actions : (j < at \/ j = at) /\ Current.actions[j] = a
    BY <1>1, <1>6, <2>1 DEF SeenAction, Past
  <2>3. SeenAction(a) <=>
          \/ \E m \in DOMAIN build : Past(m) /\ a \in Elements(build[m].actions)
          \/ \E j \in DOMAIN Current.actions : j < at /\ Current.actions[j] = a
    BY <1>1 DEF SeenAction
  <2>4. SeenAction(a)' <=> SeenAction(a) \/ a = a0
    BY <1>3, <2>2, <2>3 DEF a0
  <2> QED
    BY <1>5, <2>4 DEF IInv, Conserved
<1>12. Conserved'
  BY <1>9, <1>10, <1>11 DEF Conserved
<1>13. Waiting'
  BY <1>1, <1>6 DEF IInv, Waiting, WaitsForItsTask, Registered
<1>14. ResolvedSoFar' /\ AttachedSoFar' /\ Refusals'
  BY <1>1, <1>6, EarlyStep
<1> QED
  BY <1>7, <1>8, <1>12, <1>13, <1>14 DEF IInv

LEMMA RegisterLateStep ==
  ASSUME IInv, RegisterLate
  PROVE  IInv'
<1>1. /\ phase = "actions" /\ outcome = "registering" /\ outcome' = outcome
      /\ at > Len(Current.actions) /\ at' = 1 /\ turn' = 1 /\ Collecting
      /\ module' = module + 1
      /\ phase' = IF module = Len(build) THEN "pending" ELSE "inject"
      /\ UNCHANGED <<build, tasks, actions, resolved, before, after>>
  BY DEF RegisterLate, LoopOver, Registering, Collecting, NextModule, Begin
<1>2. /\ Current \in Module /\ TypeOK /\ at \in Nat /\ module \in DOMAIN build
      /\ module \in 1..Len(build) /\ Len(build) \in Nat /\ DOMAIN build = 1..Len(build)
      /\ injected \in [Name -> Seq(Dependency)] /\ deps \in [Name -> Seq(Dependency)]
      /\ pending \in [Name -> Seq(Dependency)]
  BY <1>1, CurrentFacts, BuildFacts DEF IInv, TypeOK
<1>3. ASSUME NEW n \in Name
      PROVE  /\ deps[n] \o pending[n] \o injected[n] \in Seq(Dependency)
             /\ Elements(deps[n] \o pending[n] \o injected[n])
                  = Elements(deps[n]) \cup Elements(pending[n]) \cup Elements(injected[n])
             /\ pending[n] \o injected[n] \in Seq(Dependency)
             /\ Elements(pending[n] \o injected[n]) = Elements(pending[n]) \cup Elements(injected[n])
  <2> DEFINE known == deps[n] \o pending[n]
  <2>1. deps[n] \in Seq(Dependency) /\ pending[n] \in Seq(Dependency) /\ injected[n] \in Seq(Dependency)
    BY <1>2
  <2>2. known \in Seq(Dependency) /\ Elements(known) = Elements(deps[n]) \cup Elements(pending[n])
    BY <2>1, ConcatElements
  <2> HIDE DEF known
  <2>3. /\ known \o injected[n] \in Seq(Dependency)
        /\ Elements(known \o injected[n]) = Elements(known) \cup Elements(injected[n])
    BY <2>1, <2>2, ConcatElements
  <2>4. /\ pending[n] \o injected[n] \in Seq(Dependency)
        /\ Elements(pending[n] \o injected[n]) = Elements(pending[n]) \cup Elements(injected[n])
    BY <2>1, ConcatElements
  <2> QED
    BY <2>2, <2>3, <2>4 DEF known
<1>4. /\ deps' = [n \in Name |-> IF n \in Registered THEN deps[n] \o pending[n] \o injected[n]
                                                    ELSE deps[n]]
      /\ pending' = [n \in Name |-> IF n \in Registered THEN <<>> ELSE pending[n] \o injected[n]]
      /\ injected' = [n \in Name |-> <<>>]
  BY DEF RegisterLate, None
<1>5. /\ deps' \in [Name -> Seq(Dependency)]
      /\ pending' \in [Name -> Seq(Dependency)]
      /\ injected' \in [Name -> Seq(Dependency)]
  BY <1>2, <1>3, <1>4
<1>6. TypeOK'
  <2>1. module' \in 1..(Len(build) + 1)
    BY <1>1, <1>2
  <2>2. phase' \in {"inject", "pending"}
    BY <1>1
  <2> QED
    BY <1>1, <1>2, <1>5, <2>1, <2>2 DEF TypeOK
<1>7. Position'
  <2>1. build' \in Builds
    BY <1>1 DEF IInv, Position
  <2>2. IF Collecting' THEN module' <= Len(build) ELSE module' = Len(build) + 1
    BY <1>1, <1>2 DEF Collecting
  <2> QED
    BY <1>1, <2>1, <2>2 DEF Position
<1>8. \A m \in DOMAIN build : Past(m)' <=> Past(m) \/ m = module
  BY <1>1, <1>2 DEF Past
<1>9. phase' = "inject" => Current' \in Module
  <2>1. phase' = "inject" => module' \in DOMAIN build
    BY <1>1, <1>2
  <2> QED
    BY <1>1, <1>2, <2>1, BuildFacts DEF Current
<1>10. ASSUME NEW n \in Name, NEW d \in Dependency
       PROVE  InFlight(n, d)' <=> SeenEdge(n, d)'
  <2>1. InFlight(n, d)' <=> InFlight(n, d)
    <3>1. CASE n \in Registered
      BY <1>3, <1>4, <3>1, EmptyElements DEF InFlight
    <3>2. CASE n \notin Registered
      BY <1>3, <1>4, <3>2, EmptyElements DEF InFlight
    <3> QED
      BY <3>1, <3>2
  <2>2. SeenDependent(n, d) <=> IsDependent(Current, n, d.name, d.optional)
    BY <1>1 DEF SeenDependent, IsDependent, Elements
  <2>3. SeenDependency(n, d) <=> DependsOn(Current, n, d.name, d.optional)
    BY <1>1, DependencyFields DEF SeenDependency, DependsOn
  <2>4. SeenEdge(n, d) <=>
          \/ \E m \in DOMAIN build : Past(m) /\ Declares(build[m], n, d.name, d.optional)
          \/ Declares(build[module], n, d.name, d.optional)
    BY <1>1, <2>2, <2>3 DEF SeenEdge, Declares, Current
  <2>5. ~ (Collecting' /\ SeenDependent(n, d)')
    <3> SUFFICES ASSUME Collecting', SeenDependent(n, d)' PROVE FALSE
      OBVIOUS
    <3>1. phase' = "inject"
      BY <1>1 DEF Collecting
    <3>2. \A i \in DOMAIN Current'.dependents : ~ (i < 1)
      BY <1>9, <3>1, ModuleFacts
    <3> QED
      BY <1>1, <3>1, <3>2 DEF SeenDependent
  <2>6. SeenEdge(n, d)' <=> \E m \in DOMAIN build : Past(m)' /\ Declares(build[m], n, d.name, d.optional)
    BY <1>1, <2>5 DEF SeenEdge
  <2>7. SeenEdge(n, d)' <=> SeenEdge(n, d)
    BY <1>2, <1>8, <2>4, <2>6
  <2> QED
    BY <2>1, <2>7 DEF IInv, Conserved
<1>11. ASSUME NEW n \in Name PROVE n \in Registered' <=> SeenTask(n)'
  <2>1. SeenTask(n) <=>
          (\E m \in DOMAIN build : Past(m) /\ n \in ModuleTasks(build[m])) \/ n \in ModuleTasks(build[module])
    BY <1>1 DEF SeenTask, ModuleTasks, Current
  <2>2. SeenTask(n)' <=> \E m \in DOMAIN build : Past(m)' /\ n \in ModuleTasks(build[m])
    BY <1>1 DEF SeenTask
  <2>3. SeenTask(n)' <=> SeenTask(n)
    BY <1>2, <1>8, <2>1, <2>2
  <2> QED
    BY <1>1, <2>3 DEF IInv, Conserved, Registered
<1>12. ASSUME NEW a \in Action PROVE a \in Elements(actions)' <=> SeenAction(a)'
  <2>1. \A i \in DOMAIN Current.actions : i < at
    BY <1>1, <1>2, ModuleFacts
  <2>2. SeenAction(a) <=>
          \/ \E m \in DOMAIN build : Past(m) /\ a \in Elements(build[m].actions)
          \/ a \in Elements(build[module].actions)
    BY <1>1, <2>1 DEF SeenAction, Elements, Current
  <2>3. SeenAction(a)' <=> \E m \in DOMAIN build : Past(m)' /\ a \in Elements(build[m].actions)
    BY <1>1 DEF SeenAction
  <2>4. SeenAction(a)' <=> SeenAction(a)
    BY <1>2, <1>8, <2>2, <2>3
  <2> QED
    BY <1>1, <2>4 DEF IInv, Conserved
<1>13. Conserved'
  BY <1>10, <1>11, <1>12 DEF Conserved
<1>14. Waiting'
  BY <1>1, <1>4 DEF IInv, Waiting, WaitsForItsTask, Registered
<1>15. ResolvedSoFar' /\ AttachedSoFar' /\ Refusals'
  BY <1>1, EarlyStep
<1> QED
  BY <1>6, <1>7, <1>13, <1>14, <1>15 DEF IInv

----------------------------------------------------------------------------
(* Resolution *)

\* When registration is over, what is known is what the modules declare.
LEMMA AllSeen ==
  ASSUME IInv, ~ Collecting
  PROVE  /\ Registered = DeclaredTasks
         /\ \A n \in Name, d \in Dependency : InFlight(n, d) <=> Declared(n, d.name, d.optional)
         /\ \A a \in Action : a \in Elements(actions) <=> a \in DeclaredActions
<1>1. /\ TypeOK /\ module = Len(build) + 1 /\ Len(build) \in Nat /\ DOMAIN build = 1..Len(build)
      /\ \A m \in DOMAIN build : build[m] \in Module
  BY BuildFacts DEF IInv, Position
<1>2. \A m \in DOMAIN build : Past(m)
  BY <1>1 DEF Past
<1>3. phase \notin {"inject", "tasks", "actions"}
  BY DEF Collecting
<1>4. \A n \in Name, d \in Dependency : InFlight(n, d) <=> Declared(n, d.name, d.optional)
  BY <1>2, <1>3 DEF IInv, Conserved, SeenEdge, Declared, Collecting
<1>5. \A a \in Action : a \in Elements(actions) <=> a \in DeclaredActions
  BY <1>2, <1>3 DEF IInv, Conserved, SeenAction, DeclaredActions
<1>6. \A n \in Name : n \in Registered <=> n \in DeclaredTasks
  BY <1>2, <1>3 DEF IInv, Conserved, SeenTask, DeclaredTasks
<1>7. Registered \subseteq Name
  BY <1>1, BuildFacts DEF Registered, Elements
<1>8. DeclaredTasks \subseteq Name
  <2>1. ASSUME NEW m \in DOMAIN build PROVE ModuleTasks(build[m]) \subseteq Name
    BY <1>1, ModuleFacts DEF ModuleTasks
  <2> QED
    BY <2>1 DEF DeclaredTasks
<1> QED
  BY <1>4, <1>5, <1>6, <1>7, <1>8

\* A step that touches the outcome alone.
LEMMA OutcomeStep ==
  ASSUME IInv, outcome' \in {"resolved"} \cup Failures,
         UNCHANGED <<build, phase, module, at, turn, injected, tasks, deps, pending,
                     actions, resolved, before, after>>,
         Refusals'
  PROVE  IInv'
<1>1. TypeOK'
  BY DEF IInv, TypeOK
<1>2. Position'
  BY DEF IInv, Position, Collecting
<1>3. Conserved'
  <2>1. \A n \in Name, d \in Dependency :
          (InFlight(n, d)' <=> InFlight(n, d)) /\ (SeenEdge(n, d)' <=> SeenEdge(n, d))
    BY DEF InFlight, SeenEdge, SeenDependent, SeenDependency, Past, Collecting, Current
  <2>2. \A n \in Name : SeenTask(n)' <=> SeenTask(n)
    BY DEF SeenTask, Past, Current
  <2>3. \A a \in Action : SeenAction(a)' <=> SeenAction(a)
    BY DEF SeenAction, Past, Current
  <2>4. Registered' = Registered /\ actions' = actions
    BY DEF Registered
  <2> QED
    BY <2>1, <2>2, <2>3, <2>4 DEF IInv, Conserved
<1>4. Waiting'
  BY DEF IInv, Waiting, WaitsForItsTask, Registered, Collecting
<1>5. ResolvedSoFar'
  <2>1. \A n \in Name, d \in Dependency : GoneThrough(n, d)' <=> GoneThrough(n, d)
    BY DEF GoneThrough, Gone
  <2>2. resolved' = resolved /\ Registered' = Registered
    BY DEF Registered
  <2>3. \A d \in Dependency : Weakened(d) \in Dependency
    BY DependencyFields
  <2> QED
    BY <2>1, <2>2, <2>3 DEF IInv, ResolvedSoFar
<1>6. AttachedSoFar'
  BY DEF IInv, AttachedSoFar, Registered
<1> QED
  BY <1>1, <1>2, <1>3, <1>4, <1>5, <1>6 DEF IInv

LEMMA RejectPendingStep ==
  ASSUME IInv, RejectPending
  PROVE  IInv'
<1>1. /\ phase = "pending" /\ ~ Collecting /\ TypeOK /\ UnknownPending # {}
      /\ pending \in [Name -> Seq(Dependency)]
  BY DEF RejectPending, Registering, Collecting, IInv, TypeOK
<1>2. PICK n \in Name \ Registered : pending[n] # <<>>
  BY <1>1 DEF UnknownPending
<1>3. PICK d \in Dependency : d \in Elements(pending[n])
  BY <1>1, <1>2, EdgeFacts
<1>4. PICK m \in DOMAIN build : Declares(build[m], n, d.name, d.optional)
  BY <1>1, <1>2, <1>3, AllSeen DEF InFlight, Declared
<1>5. n \notin DeclaredTasks
  BY <1>1, <1>2, AllSeen
<1>6. ~ DependsOn(build[m], n, d.name, d.optional)
  BY <1>5 DEF DependsOn, DeclaredTasks, ModuleTasks
<1>7. PICK i \in DOMAIN build[m].dependents :
        build[m].dependents[i] = [task |-> n, on |-> d.name, optional |-> d.optional]
  BY <1>4, <1>6 DEF Declares, IsDependent, Elements
<1>8. UnknownDependent
  BY <1>5, <1>7 DEF UnknownDependent
<1>9. Refusals'
  BY <1>8 DEF RejectPending, Raise, Refusals, UnknownDependent, DeclaredTasks
<1> QED
  BY <1>9, OutcomeStep DEF RejectPending, Raise, Failures

LEMMA FlushStep ==
  ASSUME IInv, FlushPending
  PROVE  IInv'
<1>1. /\ phase = "pending" /\ ~ Collecting /\ TypeOK /\ UnknownPending = {}
      /\ phase' = "dependencies" /\ ~ Collecting' /\ at' = 1 /\ turn' = 1
      /\ outcome = "registering" /\ outcome' = "registering"
      /\ pending \in [Name -> Seq(Dependency)] /\ deps \in [Name -> Seq(Dependency)]
      /\ UNCHANGED <<build, module, injected, tasks, actions, resolved, before, after>>
  BY DEF FlushPending, Registering, Collecting, IInv, TypeOK, Begin
<1>2. \A n \in Name : deps[n] \in Seq(Dependency) /\ pending[n] \in Seq(Dependency)
  BY <1>1
<1>3. /\ deps' = [n \in Name |-> deps[n] \o pending[n]]
      /\ pending' = [n \in Name |-> <<>>]
  BY DEF FlushPending, None
<1>4. ASSUME NEW n \in Name
      PROVE  /\ deps[n] \o pending[n] \in Seq(Dependency)
             /\ Elements(deps[n] \o pending[n]) = Elements(deps[n]) \cup Elements(pending[n])
  BY <1>2, ConcatElements
<1>5. deps' \in [Name -> Seq(Dependency)] /\ pending' \in [Name -> Seq(Dependency)]
  BY <1>3, <1>4
<1>6. TypeOK'
  BY <1>1, <1>5 DEF TypeOK
<1>7. Position'
  BY <1>1 DEF IInv, Position
<1>8. Conserved'
  <2>1. ASSUME NEW n \in Name, NEW d \in Dependency
        PROVE  InFlight(n, d)' <=> SeenEdge(n, d)'
    <3>1. InFlight(n, d)' <=> InFlight(n, d)
      BY <1>1, <1>3, <1>4, EmptyElements DEF InFlight
    <3>2. SeenEdge(n, d)' <=> SeenEdge(n, d)
      BY <1>1 DEF SeenEdge, Past
    <3> QED
      BY <3>1, <3>2 DEF IInv, Conserved
  <2>2. \A n \in Name : n \in Registered' <=> SeenTask(n)'
    BY <1>1 DEF IInv, Conserved, Registered, SeenTask, Past
  <2>3. \A a \in Action : a \in Elements(actions)' <=> SeenAction(a)'
    BY <1>1 DEF IInv, Conserved, SeenAction, Past
  <2> QED
    BY <2>1, <2>2, <2>3 DEF Conserved
<1>9. Waiting'
  <2>1. ASSUME NEW n \in Name, n \notin Registered
        PROVE  deps'[n] = <<>>
    <3>1. deps[n] = <<>> /\ pending[n] = <<>>
      BY <1>1, <2>1 DEF IInv, Waiting, UnknownPending
    <3>2. Elements(deps'[n]) = {}
      BY <1>3, <1>4, <3>1, EmptyElements
    <3>3. Elements(deps'[n]) = {} => deps'[n] = <<>>
      BY <1>5, EdgeFacts
    <3> QED
      BY <3>2, <3>3
  <2>2. Registered' = Registered
    BY <1>1 DEF Registered
  <2> QED
    BY <1>1, <1>3, <2>1, <2>2 DEF IInv, Waiting, WaitsForItsTask
<1>10. ResolvedSoFar'
  <2>1. \A n \in Name, d \in Dependency : ~ GoneThrough(n, d)
    BY <1>1 DEF GoneThrough, Gone
  <2>2. ASSUME NEW n \in Name, NEW d \in Dependency
        PROVE  ~ GoneThrough(n, d)'
    <3>1. \A i \in DOMAIN deps'[n] : ~ (i < 1)
      BY <1>5, EdgeFacts
    <3>2. \A k \in DOMAIN tasks : ~ (k < 1)
      BY <1>1, BuildFacts
    <3> QED
      BY <1>1, <3>1, <3>2 DEF GoneThrough, Gone
  <2>3. ASSUME NEW n \in Name
        PROVE  /\ \A i, j \in DOMAIN resolved[n] : resolved[n][i].name = resolved[n][j].name => i = j
               /\ \A d \in Dependency : d \notin Elements(resolved[n])
    BY <2>1 DEF IInv, ResolvedSoFar
  <2> QED
    BY <1>1, <2>2, <2>3 DEF ResolvedSoFar
<1>11. AttachedSoFar' /\ Refusals'
  BY <1>1 DEF AttachedSoFar, Refusals
<1> QED
  BY <1>6, <1>7, <1>8, <1>9, <1>10, <1>11 DEF IInv

\* The steps of the resolution leave alone what was registered.
LEMMA LateStep ==
  ASSUME IInv,
         phase \in {"dependencies", "attach"}, phase' \in {"dependencies", "attach"},
         UNCHANGED <<build, module, injected, tasks, deps, pending, actions>>
  PROVE  Position' /\ Conserved' /\ Waiting' /\ Registered' = Registered
<1>1. ~ Collecting /\ ~ Collecting'
  BY DEF Collecting
<1>2. Position'
  BY <1>1 DEF IInv, Position
<1>3. Registered' = Registered
  BY DEF Registered
<1>4. Conserved'
  <2>1. \A n \in Name, d \in Dependency :
          (InFlight(n, d)' <=> InFlight(n, d)) /\ (SeenEdge(n, d)' <=> SeenEdge(n, d))
    BY <1>1 DEF InFlight, SeenEdge, Past, Collecting
  <2>2. \A n \in Name : SeenTask(n)' <=> SeenTask(n)
    BY DEF SeenTask, Past
  <2>3. \A a \in Action : SeenAction(a)' <=> SeenAction(a)
    BY DEF SeenAction, Past
  <2> QED
    BY <1>3, <2>1, <2>2, <2>3 DEF IInv, Conserved
<1>5. Waiting'
  BY <1>1, <1>3 DEF IInv, Waiting, WaitsForItsTask
<1> QED
  BY <1>2, <1>3, <1>4, <1>5

LEMMA DeclarationFacts ==
  ASSUME IInv, InDependencies
  PROVE  /\ phase = "dependencies" /\ outcome = "registering"
         /\ at \in DOMAIN tasks /\ turn \in Nat
         /\ ResolvingTask \in Name
         /\ turn \in DOMAIN deps[ResolvingTask]
         /\ Declaration \in Dependency
         /\ Declaration \in Elements(deps[ResolvingTask])
         /\ deps \in [Name -> Seq(Dependency)] /\ resolved \in [Name -> Seq(Dependency)]
<1>1. /\ TypeOK /\ at \in Nat \ {0} /\ turn \in Nat \ {0}
      /\ deps \in [Name -> Seq(Dependency)] /\ resolved \in [Name -> Seq(Dependency)]
  BY DEF IInv, TypeOK
<1>2. /\ phase = "dependencies" /\ outcome = "registering"
      /\ at <= Len(tasks) /\ turn <= Len(deps[ResolvingTask])
  BY DEF InDependencies, InLoop, Registering
<1>3. at \in DOMAIN tasks /\ ResolvingTask \in Name
  BY <1>1, <1>2, BuildFacts DEF ResolvingTask
<1>4. turn \in DOMAIN deps[ResolvingTask]
  <2>1. /\ Len(deps[ResolvingTask]) \in Nat
        /\ DOMAIN deps[ResolvingTask] = 1..Len(deps[ResolvingTask])
    BY <1>1, <1>3, EdgeFacts
  <2> QED
    BY <1>1, <1>2, <2>1
<1>5. Declaration \in Dependency
  BY <1>1, <1>3, <1>4, EdgeFacts DEF Declaration
<1>6. Declaration \in Elements(deps[ResolvingTask])
  BY <1>4 DEF Declaration, Elements
<1> QED
  BY <1>1, <1>2, <1>3, <1>4, <1>5, <1>6

\* One more dependency gone through, with a list that is right for it.
LEMMA ResolveStep ==
  ASSUME IInv, InDependencies, Declaration.name \in Registered,
         NEW list \in Seq(Dependency), Resolve(list),
         \A i, j \in DOMAIN list : list[i].name = list[j].name => i = j,
         \A d \in Dependency :
           d \in Elements(list) <=>
             /\ GoneThrough(ResolvingTask, d) \/ d = Declaration
             /\ d.optional => ~ (GoneThrough(ResolvingTask, Weakened(d)) \/ Weakened(d) = Declaration)
  PROVE  IInv'
<1>1. /\ phase = "dependencies" /\ outcome = "registering"
      /\ at \in DOMAIN tasks /\ turn \in Nat /\ ResolvingTask \in Name
      /\ turn \in DOMAIN deps[ResolvingTask] /\ Declaration \in Dependency
      /\ deps \in [Name -> Seq(Dependency)] /\ resolved \in [Name -> Seq(Dependency)]
  BY DeclarationFacts
<1>2. /\ turn' = turn + 1 /\ resolved' = [resolved EXCEPT ![ResolvingTask] = list]
      /\ UNCHANGED <<build, phase, module, at, injected, tasks, deps, pending, actions,
                     before, after, outcome>>
  BY DEF Resolve
<1>3. /\ resolved' \in [Name -> Seq(Dependency)]
      /\ resolved'[ResolvingTask] = list
      /\ \A n \in Name : n # ResolvingTask => resolved'[n] = resolved[n]
  BY <1>1, <1>2
<1>4. TypeOK'
  <2>1. turn' \in Nat \ {0}
    BY <1>1, <1>2
  <2> QED
    BY <1>2, <1>3, <2>1 DEF IInv, TypeOK
<1>5. Position' /\ Conserved' /\ Waiting' /\ Registered' = Registered
  BY <1>1, <1>2, LateStep
<1>6. ASSUME NEW n \in Name, NEW d \in Dependency
      PROVE  GoneThrough(n, d)' <=> GoneThrough(n, d) \/ (n = ResolvingTask /\ d = Declaration)
  <2>1. ASSUME NEW i \in DOMAIN deps[n]
        PROVE  Gone(n, i)' <=> Gone(n, i) \/ (n = ResolvingTask /\ i = turn)
    <3>1. i \in Nat
      BY <1>1, EdgeFacts
    <3>2. i < turn + 1 <=> i < turn \/ i = turn
      BY <1>1, <3>1
    <3>3. Gone(n, i)' <=> \E k \in DOMAIN tasks : tasks[k] = n /\ (k < at \/ (k = at /\ (i < turn \/ i = turn)))
      BY <1>1, <1>2, <3>2 DEF Gone
    <3>4. Gone(n, i) <=> \E k \in DOMAIN tasks : tasks[k] = n /\ (k < at \/ (k = at /\ i < turn))
      BY <1>1 DEF Gone
    <3>5. CASE n = ResolvingTask /\ i = turn
      BY <1>1, <3>3, <3>5 DEF ResolvingTask
    <3>6. CASE ~ (n = ResolvingTask /\ i = turn)
      BY <3>3, <3>4, <3>6 DEF ResolvingTask
    <3> QED
      BY <3>5, <3>6
  <2> QED
    BY <1>1, <1>2, <2>1 DEF GoneThrough, Declaration
<1>7. \A d \in Dependency : Weakened(d) \in Dependency
  BY DependencyFields
<1>8. ResolvedSoFar'
  <2>1. ASSUME NEW n \in Name
        PROVE  /\ \A i, j \in DOMAIN resolved'[n] : resolved'[n][i].name = resolved'[n][j].name => i = j
               /\ \A d \in Dependency :
                    d \in Elements(resolved'[n]) <=>
                      GoneThrough(n, d)' /\ (d.optional => ~ GoneThrough(n, Weakened(d))')
               /\ \A d \in Dependency : GoneThrough(n, d)' => d.name \in Registered
    <3>1. CASE n = ResolvingTask
      BY <1>3, <1>6, <1>7, <3>1 DEF IInv, ResolvedSoFar
    <3>2. CASE n # ResolvingTask
      BY <1>3, <1>6, <1>7, <3>2 DEF IInv, ResolvedSoFar
    <3> QED
      BY <3>1, <3>2
  <2>2. \A d : Weakened(d)' = Weakened(d')
    BY DEF Weakened
  <2> QED
    BY <1>5, <2>1 DEF ResolvedSoFar, Elements, Weakened
<1>9. AttachedSoFar' /\ Refusals'
  BY <1>1, <1>2 DEF AttachedSoFar, Refusals
<1> QED
  BY <1>4, <1>5, <1>8, <1>9 DEF IInv

LEMMA RejectMissingStep ==
  ASSUME IInv, RejectMissing
  PROVE  IInv'
<1> DEFINE t == ResolvingTask
           d == Declaration
<1>1. /\ InDependencies /\ d.name \notin Registered /\ Raise("MissingTaskDependency")
      /\ phase = "dependencies" /\ ~ Collecting
      /\ t \in Name /\ d \in Dependency /\ d \in Elements(deps[t])
  BY DeclarationFacts DEF RejectMissing, Collecting
<1> HIDE DEF t, d
<1>2. PICK m \in DOMAIN build : Declares(build[m], t, d.name, d.optional)
  BY <1>1, AllSeen DEF InFlight, Declared
<1>3. d.name \notin DeclaredTasks
  BY <1>1, AllSeen
<1>4. ~ IsDependent(build[m], t, d.name, d.optional)
  <2> SUFFICES ASSUME IsDependent(build[m], t, d.name, d.optional)
               PROVE  FALSE
    OBVIOUS
  <2>1. PICK i \in DOMAIN build[m].dependents :
          build[m].dependents[i] = [task |-> t, on |-> d.name, optional |-> d.optional]
    BY DEF IsDependent, Elements
  <2>2. d.name \in ModuleTasks(build[m])
    <3>1. \E j \in DOMAIN build[m].tasks : build[m].tasks[j].name = build[m].dependents[i].on
      BY <2>1, TaskRegistryAssumption DEF IInv, Position
    <3> QED
      BY <2>1, <3>1 DEF ModuleTasks
  <2> QED
    BY <1>3, <2>2 DEF DeclaredTasks
<1>5. DependsOn(build[m], t, d.name, d.optional)
  BY <1>2, <1>4 DEF Declares
<1>6. d = [name |-> d.name, optional |-> d.optional]
  BY <1>1, DependencyFields
<1>7. UnknownDependency
  BY <1>3, <1>5, <1>6 DEF UnknownDependency, DependsOn
<1>8. Refusals'
  BY <1>1, <1>7 DEF Raise, Refusals, UnknownDependency, DeclaredTasks
<1> QED
  BY <1>1, <1>8, OutcomeStep DEF Raise, Failures

LEMMA AddDependencyStep ==
  ASSUME IInv, AddDependency
  PROVE  IInv'
<1> DEFINE t == ResolvingTask
           d0 == Declaration
           list == Append(resolved[t], d0)
<1>1. /\ InDependencies /\ d0.name \in Registered /\ Resolve(list)
      /\ t \in Name /\ d0 \in Dependency /\ resolved[t] \in Seq(Dependency)
  BY DeclarationFacts DEF AddDependency
<1>2. \A k \in DOMAIN resolved[t] : resolved[t][k].name # d0.name
  BY DEF AddDependency, Existing
<1>3. /\ list \in Seq(Dependency)
      /\ Elements(list) = Elements(resolved[t]) \cup {d0}
      /\ Len(resolved[t]) \in Nat /\ DOMAIN resolved[t] = 1..Len(resolved[t])
      /\ DOMAIN list = 1..(Len(resolved[t]) + 1)
      /\ \A i \in 1..Len(resolved[t]) : list[i] = resolved[t][i]
      /\ list[Len(resolved[t]) + 1] = d0
  BY <1>1, AppendElements
<1> HIDE DEF list
<1>4. /\ \A i, j \in DOMAIN resolved[t] : resolved[t][i].name = resolved[t][j].name => i = j
      /\ \A d \in Dependency :
           d \in Elements(resolved[t]) <=>
             GoneThrough(t, d) /\ (d.optional => ~ GoneThrough(t, Weakened(d)))
  BY <1>1 DEF IInv, ResolvedSoFar
<1> HIDE DEF t, d0
<1>5. \A i, j \in DOMAIN list : list[i].name = list[j].name => i = j
  BY <1>2, <1>3, <1>4
<1>6. ASSUME NEW d \in Dependency, d.name = d0.name
      PROVE  ~ GoneThrough(t, d)
  <2>1. Weakened(d) \in Dependency /\ Weakened(d).name = d0.name /\ Weakened(d).optional = FALSE
    BY <1>6, DependencyFields
  <2>2. Weakened(d) \notin Elements(resolved[t]) /\ d \notin Elements(resolved[t])
    BY <1>2, <1>6, <2>1 DEF Elements
  <2> QED
    BY <1>4, <2>1, <2>2
<1>7. ASSUME NEW d \in Dependency
      PROVE  d \in Elements(list) <=>
               /\ GoneThrough(t, d) \/ d = d0
               /\ d.optional => ~ (GoneThrough(t, Weakened(d)) \/ Weakened(d) = d0)
  <2>1. Weakened(d) \in Dependency /\ Weakened(d).name = d.name /\ Weakened(d).optional = FALSE
    BY DependencyFields
  <2>2. CASE d = d0
    BY <1>3, <1>6, <2>1, <2>2
  <2>3. CASE d # d0 /\ d.name = d0.name
    BY <1>3, <1>4, <1>6, <2>3
  <2>4. CASE d.name # d0.name
    BY <1>3, <1>4, <2>1, <2>4
  <2> QED
    BY <2>2, <2>3, <2>4
<1> QED
  BY <1>1, <1>3, <1>5, <1>7, ResolveStep DEF t, d0

LEMMA MergeDependencyStep ==
  ASSUME IInv, MergeDependency
  PROVE  IInv'
<1> DEFINE t == ResolvingTask
           d0 == Declaration
           old == resolved[t]
           list == [k \in DOMAIN old |-> IF k \in Existing /\ ~ d0.optional THEN d0 ELSE old[k]]
<1>1. /\ InDependencies /\ d0.name \in Registered /\ Resolve(list) /\ Existing # {}
      /\ t \in Name /\ d0 \in Dependency /\ old \in Seq(Dependency)
  BY DeclarationFacts DEF MergeDependency
<1>2. PICK k0 \in DOMAIN old : k0 \in Existing /\ old[k0].name = d0.name
  BY <1>1 DEF Existing
<1>3. /\ \A i, j \in DOMAIN old : old[i].name = old[j].name => i = j
      /\ \A d \in Dependency :
           d \in Elements(old) <=>
             GoneThrough(t, d) /\ (d.optional => ~ GoneThrough(t, Weakened(d)))
  BY <1>1 DEF IInv, ResolvedSoFar
<1>4. Existing = {k0}
  BY <1>2, <1>3 DEF Existing
<1>5. /\ DOMAIN old = 1..Len(old) /\ Len(old) \in Nat
      /\ \A k \in DOMAIN old : old[k] \in Dependency
  BY <1>1, LenProperties, ElementOfSeq
<1>6. /\ DOMAIN list = DOMAIN old
      /\ list[k0] = IF ~ d0.optional THEN d0 ELSE old[k0]
      /\ \A k \in DOMAIN old : k # k0 => list[k] = old[k]
  BY <1>2, <1>4
<1>7. list \in Seq(Dependency)
  <2>1. list \in [1..Len(old) -> Dependency]
    BY <1>1, <1>5
  <2> QED
    BY <1>5, <2>1, IsASeq
<1> HIDE DEF list
<1>8. \A i, j \in DOMAIN list : list[i].name = list[j].name => i = j
  BY <1>2, <1>3, <1>6
<1> DEFINE r == old[k0]
<1>9. /\ r \in Dependency /\ r.name = d0.name /\ r \in Elements(old)
      /\ \A d \in Elements(old) : d.name = d0.name => d = r
  BY <1>2, <1>3, <1>5 DEF Elements
<1>10. /\ \A d \in Dependency : d.name # d0.name => (d \in Elements(list) <=> d \in Elements(old))
       /\ \A d \in Elements(list) : d.name = d0.name => d = list[k0]
       /\ list[k0] \in Elements(list)
  BY <1>2, <1>3, <1>6 DEF Elements
<1>11. list[k0] \in Dependency /\ list[k0].name = d0.name
  BY <1>1, <1>6, <1>9
<1> HIDE DEF old, r, t, d0
<1>12. ASSUME NEW d \in Dependency
       PROVE  d \in Elements(list) <=>
                /\ GoneThrough(t, d) \/ d = d0
                /\ d.optional => ~ (GoneThrough(t, Weakened(d)) \/ Weakened(d) = d0)
  <2>1. /\ Weakened(d) \in Dependency /\ Weakened(d).name = d.name
        /\ Weakened(d).optional = FALSE
        /\ ~ d.optional => d = Weakened(d)
    BY DependencyFields
  <2>2. CASE d.name # d0.name
    BY <1>3, <1>10, <2>1, <2>2
  <2>3. CASE d.name = d0.name
    <3>1. d \in Elements(list) <=> d = list[k0]
      BY <1>10, <2>3
    <3>2. \A x, y \in Dependency : x.name = y.name /\ x.optional = y.optional => x = y
      BY DEF Dependency
    <3>3. GoneThrough(t, r) /\ (r.optional => ~ GoneThrough(t, Weakened(r)))
      BY <1>3, <1>9
    <3>4. CASE ~ d0.optional
      <4>1. list[k0] = d0
        BY <1>6, <3>4
      <4>2. d.optional => Weakened(d) = d0
        BY <1>1, <2>1, <2>3, <3>2, <3>4 DEF Dependency
      <4>3. ~ d.optional => d = d0
        BY <1>1, <2>3, <3>2, <3>4 DEF Dependency
      <4> QED
        BY <3>1, <3>4, <4>1, <4>2, <4>3
    <3>5. CASE d0.optional
      <4>1. list[k0] = r
        BY <1>6, <3>5 DEF r
      <4>2. Weakened(d) # d0
        BY <2>1, <3>5
      <4>3. d = r <=> GoneThrough(t, d) /\ (d.optional => ~ GoneThrough(t, Weakened(d)))
        BY <1>3, <1>9, <2>3
      <4>4. d = d0 => GoneThrough(t, d) \/ GoneThrough(t, Weakened(d))
        <5>1. CASE r.optional
          <6>1. r = d0
            BY <1>1, <1>9, <3>2, <3>5, <5>1 DEF Dependency
          <6> QED
            BY <3>3, <6>1
        <5>2. CASE ~ r.optional
          <6>1. Weakened(d) = r
            BY <1>9, <2>1, <2>3, <3>2, <5>2 DEF Dependency
          <6> QED
            BY <3>3, <6>1
        <5> QED
          BY <5>1, <5>2
      <4> QED
        BY <3>1, <3>5, <4>1, <4>2, <4>3, <4>4
    <3> QED
      BY <3>4, <3>5
  <2> QED
    BY <2>2, <2>3
<1> QED
  BY <1>1, <1>7, <1>8, <1>12, ResolveStep DEF t, d0

LEMMA NextTaskStep ==
  ASSUME IInv, NextTask
  PROVE  IInv'
<1>1. /\ phase = "dependencies" /\ outcome = "registering"
      /\ at <= Len(tasks) /\ turn > Len(deps[ResolvingTask])
      /\ at' = at + 1 /\ turn' = 1
      /\ UNCHANGED <<build, phase, module, injected, tasks, deps, pending, actions,
                     resolved, before, after, outcome>>
  BY DEF NextTask, InLoop, Registering
<1>2. /\ TypeOK /\ at \in Nat \ {0} /\ turn \in Nat
      /\ deps \in [Name -> Seq(Dependency)]
      /\ Len(tasks) \in Nat /\ DOMAIN tasks = 1..Len(tasks)
  BY BuildFacts DEF IInv, TypeOK
<1>3. TypeOK'
  <2>1. at' \in Nat \ {0} /\ turn' \in Nat \ {0}
    BY <1>1, <1>2
  <2> QED
    BY <1>1, <1>2, <2>1 DEF TypeOK
<1>4. Position' /\ Conserved' /\ Waiting' /\ Registered' = Registered
  BY <1>1, LateStep
<1>5. ASSUME NEW n \in Name, NEW i \in DOMAIN deps[n]
      PROVE  Gone(n, i)' <=> Gone(n, i)
  <2>1. i \in Nat /\ i >= 1 /\ i <= Len(deps[n]) /\ Len(deps[n]) \in Nat
    BY <1>2, EdgeFacts
  <2>2. Gone(n, i)' <=> \E k \in DOMAIN tasks : tasks[k] = n /\ (k < at + 1 \/ (k = at + 1 /\ i < 1))
    BY <1>1 DEF Gone
  <2>3. Gone(n, i) <=> \E k \in DOMAIN tasks : tasks[k] = n /\ (k < at \/ (k = at /\ i < turn))
    BY <1>1 DEF Gone
  <2>4. ASSUME NEW k \in DOMAIN tasks, tasks[k] = n
        PROVE  (k < at + 1 \/ (k = at + 1 /\ i < 1)) <=> (k < at \/ (k = at /\ i < turn))
    <3>1. k = at => i < turn
      BY <1>1, <1>2, <2>1, <2>4 DEF ResolvingTask
    <3> QED
      BY <1>2, <2>1, <3>1
  <2> QED
    BY <2>2, <2>3, <2>4
<1>6. \A n \in Name, d \in Dependency : GoneThrough(n, d)' <=> GoneThrough(n, d)
  BY <1>1, <1>5 DEF GoneThrough
<1>7. ResolvedSoFar'
  <2>1. \A d \in Dependency : Weakened(d) \in Dependency
    BY DependencyFields
  <2> QED
    BY <1>1, <1>4, <1>6, <2>1 DEF IInv, ResolvedSoFar
<1>8. AttachedSoFar' /\ Refusals'
  BY <1>1 DEF AttachedSoFar, Refusals
<1> QED
  BY <1>3, <1>4, <1>7, <1>8 DEF IInv

LEMMA BeginAttachStep ==
  ASSUME IInv, BeginAttach
  PROVE  IInv'
<1>1. /\ phase = "dependencies" /\ phase' = "attach" /\ outcome = "registering"
      /\ at > Len(tasks) /\ at' = 1 /\ turn' = 1
      /\ UNCHANGED <<build, module, injected, tasks, deps, pending, actions, resolved,
                     before, after, outcome>>
  BY DEF BeginAttach, LoopOver, Registering, Begin
<1>2. /\ TypeOK /\ at \in Nat
      /\ deps \in [Name -> Seq(Dependency)]
      /\ Len(tasks) \in Nat /\ DOMAIN tasks = 1..Len(tasks)
      /\ Len(actions) \in Nat /\ DOMAIN actions = 1..Len(actions)
      /\ \A i \in DOMAIN actions : actions[i] \in Action
  BY BuildFacts DEF IInv, TypeOK
<1>3. TypeOK'
  BY <1>1, <1>2 DEF TypeOK
<1>4. Position' /\ Conserved' /\ Waiting' /\ Registered' = Registered
  BY <1>1, LateStep
<1>5. ASSUME NEW n \in Name, NEW d \in Dependency
      PROVE  GoneThrough(n, d)' <=> GoneThrough(n, d)
  <2>1. GoneThrough(n, d)' <=> d \in Elements(deps[n])
    BY <1>1 DEF GoneThrough, Gone, Elements
  <2>2. CASE n \in Registered
    <3>1. PICK k \in DOMAIN tasks : tasks[k] = n
      BY <2>2 DEF Registered, Elements
    <3>2. k < at
      BY <1>1, <1>2
    <3> QED
      BY <1>1, <2>1, <3>1, <3>2 DEF GoneThrough, Gone, Elements
  <2>3. CASE n \notin Registered
    <3>1. deps[n] = <<>>
      BY <2>3 DEF IInv, Waiting
    <3> QED
      BY <2>1, <3>1 DEF GoneThrough, Elements
  <2> QED
    BY <2>2, <2>3
<1>6. ResolvedSoFar'
  <2>1. \A d \in Dependency : Weakened(d) \in Dependency
    BY DependencyFields
  <2> QED
    BY <1>1, <1>4, <1>5, <2>1 DEF IInv, ResolvedSoFar
<1>7. AttachedSoFar'
  <2>1. ASSUME NEW i \in DOMAIN actions, NEW k \in Mentions(actions[i])
        PROVE  ~ (i < 1 \/ (i = 1 /\ k < 1))
    BY <1>2, <2>1 DEF Mentions
  <2> QED
    BY <1>1, <2>1 DEF AttachedSoFar
<1>8. Refusals'
  BY <1>1 DEF Refusals
<1> QED
  BY <1>3, <1>4, <1>6, <1>7, <1>8 DEF IInv

LEMMA AttachingFacts ==
  ASSUME IInv, InLoop("attach", actions)
  PROVE  /\ phase = "attach" /\ outcome = "registering" /\ ~ Collecting
         /\ at \in DOMAIN actions /\ at \in Nat \ {0} /\ turn \in Nat \ {0}
         /\ Attaching \in Action /\ Attaching \in Elements(actions)
         /\ Attaching.before \in Seq(Name) /\ Attaching.after \in Seq(Name)
         /\ Len(Attaching.before) \in Nat /\ DOMAIN Attaching.before = 1..Len(Attaching.before)
         /\ Len(Attaching.after) \in Nat /\ DOMAIN Attaching.after = 1..Len(Attaching.after)
         /\ \A k \in DOMAIN Attaching.before : Attaching.before[k] \in Name
         /\ \A k \in DOMAIN Attaching.after : Attaching.after[k] \in Name
<1>1. /\ TypeOK /\ at \in Nat \ {0} /\ turn \in Nat \ {0}
      /\ phase = "attach" /\ outcome = "registering" /\ at <= Len(actions) /\ ~ Collecting
  BY DEF IInv, TypeOK, InLoop, Registering, Collecting
<1>2. at \in DOMAIN actions /\ Attaching \in Action
  BY <1>1, BuildFacts DEF Attaching
<1>3. Attaching \in Elements(actions)
  BY <1>2 DEF Elements, Attaching
<1>4. Attaching.before \in Seq(Name) /\ Attaching.after \in Seq(Name)
  BY <1>2 DEF Action
<1>5. /\ Len(Attaching.before) \in Nat /\ DOMAIN Attaching.before = 1..Len(Attaching.before)
      /\ Len(Attaching.after) \in Nat /\ DOMAIN Attaching.after = 1..Len(Attaching.after)
      /\ \A k \in DOMAIN Attaching.before : Attaching.before[k] \in Name
      /\ \A k \in DOMAIN Attaching.after : Attaching.after[k] \in Name
  BY <1>4, LenProperties, ElementOfSeq
<1> QED
  BY <1>1, <1>2, <1>3, <1>4, <1>5

LEMMA RejectActionStep ==
  ASSUME IInv, RejectAction
  PROVE  IInv'
<1>1. InLoop("attach", actions) /\ Raise("MissingActionDependency")
  BY DEF RejectAction, InBefore, InAfter
<1> DEFINE a == Attaching
           n == Len(a.before)
           m == Len(a.after)
<1>2. /\ ~ Collecting /\ a \in Action /\ a \in Elements(actions)
      /\ turn \in Nat \ {0} /\ n \in Nat /\ DOMAIN a.before = 1..n
      /\ m \in Nat /\ DOMAIN a.after = 1..m
  BY <1>1, AttachingFacts
<1>3. PICK u : u \in Elements(a.before) \cup Elements(a.after) /\ u \notin Registered
  <2>1. CASE InBefore /\ a.before[turn] \notin Registered
    <3>1. turn \in DOMAIN a.before
      BY <1>2, <2>1 DEF InBefore
    <3> QED
      BY <2>1, <3>1 DEF Elements
  <2>2. CASE InAfter /\ a.after[AfterTurn] \notin Registered
    <3>1. turn > n /\ turn <= n + m /\ AfterTurn = n + m + 1 - turn
      BY <2>2 DEF InAfter, AfterTurn
    <3> HIDE DEF n, m
    <3>2. AfterTurn \in 1..m
      BY <1>2, <3>1
    <3> QED
      BY <1>2, <2>2, <3>2 DEF Elements
  <2> QED
    BY <2>1, <2>2 DEF RejectAction
<1>4. a \in DeclaredActions /\ u \notin DeclaredTasks
  BY <1>2, <1>3, AllSeen
<1> HIDE DEF a
<1>5. PICK i \in DOMAIN build : a \in Elements(build[i].actions)
  BY <1>4 DEF DeclaredActions
<1>6. UnknownInAction
  BY <1>3, <1>4, <1>5 DEF UnknownInAction
<1>7. Refusals'
  BY <1>1, <1>6 DEF Raise, Refusals, UnknownInAction, DeclaredTasks
<1> QED
  BY <1>1, <1>7, OutcomeStep DEF Raise, Failures

\* What a step over the actions has to keep.
LEMMA AttachStep ==
  ASSUME IInv, InLoop("attach", actions),
         UNCHANGED <<build, phase, module, injected, tasks, deps, pending, actions,
                     resolved, outcome>>,
         at' \in Nat \ {0}, turn' \in Nat \ {0},
         before' \in [Name -> Seq(Action)], after' \in [Name -> Seq(Action)],
         \A i \in DOMAIN actions : \A k \in Mentions(actions[i]) :
           i < at' \/ (i = at' /\ k < turn') => Mention(actions[i], k) \in Registered
  PROVE  IInv'
<1>1. phase = "attach" /\ phase' = "attach" /\ outcome = "registering" /\ outcome' = "registering"
  BY DEF InLoop, Registering
<1>2. TypeOK'
  BY DEF IInv, TypeOK
<1>3. Position' /\ Conserved' /\ Waiting' /\ Registered' = Registered
  BY <1>1, LateStep
<1>4. ResolvedSoFar'
  <2>1. \A n \in Name, d \in Dependency : GoneThrough(n, d)' <=> GoneThrough(n, d)
    BY <1>1 DEF GoneThrough, Gone
  <2>2. \A d \in Dependency : Weakened(d) \in Dependency
    BY DependencyFields
  <2> QED
    BY <1>3, <2>1, <2>2 DEF IInv, ResolvedSoFar
<1>5. AttachedSoFar'
  BY <1>3 DEF AttachedSoFar
<1>6. Refusals'
  BY <1>1 DEF Refusals
<1> QED
  BY <1>2, <1>3, <1>4, <1>5, <1>6 DEF IInv

\* One mention more is known.
LEMMA MentionStep ==
  ASSUME IInv, InLoop("attach", actions),
         UNCHANGED <<build, phase, module, at, injected, tasks, deps, pending, actions,
                     resolved, outcome>>,
         turn' = turn + 1,
         before' \in [Name -> Seq(Action)], after' \in [Name -> Seq(Action)],
         Mention(Attaching, turn) \in Registered
  PROVE  IInv'
<1>1. phase = "attach" /\ at \in Nat \ {0} /\ turn \in Nat \ {0}
  BY AttachingFacts
<1>2. turn' \in Nat \ {0}
  BY <1>1
<1>3. ASSUME NEW i \in DOMAIN actions, NEW k \in Mentions(actions[i]),
             i < at \/ (i = at /\ k < turn + 1)
      PROVE  Mention(actions[i], k) \in Registered
  <2>1. CASE i < at \/ (i = at /\ k < turn)
    BY <1>1, <2>1 DEF IInv, AttachedSoFar
  <2>2. CASE i = at /\ k = turn
    BY <2>2 DEF Attaching
  <2>3. k \in Int
    BY DEF Mentions
  <2> QED
    BY <1>1, <1>3, <2>1, <2>2, <2>3
<1> QED
  BY <1>1, <1>2, <1>3, AttachStep

LEMMA AttachBeforeStep ==
  ASSUME IInv, AttachBefore
  PROVE  IInv'
<1> DEFINE u == Attaching.before[turn]
<1>1. /\ InLoop("attach", actions) /\ turn <= Len(Attaching.before) /\ u \in Registered
      /\ before' = [before EXCEPT ![u] = Append(@, Attaching)] /\ turn' = turn + 1
      /\ UNCHANGED <<build, phase, module, at, injected, tasks, deps, pending, actions,
                     resolved, after, outcome>>
  BY DEF AttachBefore, InBefore
<1>2. /\ before \in [Name -> Seq(Action)] /\ after \in [Name -> Seq(Action)]
      /\ Attaching \in Action
  BY <1>1, AttachingFacts DEF IInv, TypeOK
<1>3. Mention(Attaching, turn) = u
  BY <1>1 DEF Mention
<1> HIDE DEF u
<1>4. before' \in [Name -> Seq(Action)]
  <2>1. \A s \in Seq(Action) : Append(s, Attaching) \in Seq(Action)
    BY <1>2, AppendProperties
  <2> QED
    BY <1>1, <1>2, <2>1
<1>5. after' \in [Name -> Seq(Action)]
  BY <1>1, <1>2
<1> QED
  BY <1>1, <1>3, <1>4, <1>5, MentionStep

LEMMA AttachAfterStep ==
  ASSUME IInv, AttachAfter
  PROVE  IInv'
<1> DEFINE u == Attaching.after[AfterTurn]
<1>1. /\ InLoop("attach", actions) /\ turn > Len(Attaching.before) /\ u \in Registered
      /\ after' = [after EXCEPT ![u] = Append(@, Attaching)] /\ turn' = turn + 1
      /\ UNCHANGED <<build, phase, module, at, injected, tasks, deps, pending, actions,
                     resolved, before, outcome>>
  BY DEF AttachAfter, InAfter
<1>2. /\ before \in [Name -> Seq(Action)] /\ after \in [Name -> Seq(Action)]
      /\ Attaching \in Action /\ turn \in Nat /\ Len(Attaching.before) \in Nat
  BY <1>1, AttachingFacts DEF IInv, TypeOK
<1>3. Mention(Attaching, turn) = u
  <2>1. ~ (turn <= Len(Attaching.before))
    BY <1>1, <1>2
  <2> QED
    BY <2>1 DEF Mention, AfterTurn
<1> HIDE DEF u
<1>4. after' \in [Name -> Seq(Action)]
  <2>1. \A s \in Seq(Action) : Append(s, Attaching) \in Seq(Action)
    BY <1>2, AppendProperties
  <2> QED
    BY <1>1, <1>2, <2>1
<1>5. before' \in [Name -> Seq(Action)]
  BY <1>1, <1>2
<1> QED
  BY <1>1, <1>3, <1>4, <1>5, MentionStep

LEMMA NextActionStep ==
  ASSUME IInv, NextAction
  PROVE  IInv'
<1>1. /\ InLoop("attach", actions)
      /\ turn > Len(Attaching.before) + Len(Attaching.after)
      /\ at' = at + 1 /\ turn' = 1
      /\ UNCHANGED <<build, phase, module, injected, tasks, deps, pending, actions,
                     resolved, before, after, outcome>>
  BY DEF NextAction
<1>2. /\ phase = "attach" /\ at \in Nat \ {0} /\ turn \in Nat \ {0}
      /\ before \in [Name -> Seq(Action)] /\ after \in [Name -> Seq(Action)]
      /\ Len(Attaching.before) \in Nat /\ Len(Attaching.after) \in Nat
      /\ DOMAIN actions = 1..Len(actions)
  BY <1>1, AttachingFacts, BuildFacts DEF IInv, TypeOK
<1>3. at' \in Nat \ {0} /\ turn' \in Nat \ {0}
  BY <1>1, <1>2
<1>4. ASSUME NEW i \in DOMAIN actions, NEW k \in Mentions(actions[i]),
             i < at' \/ (i = at' /\ k < turn')
      PROVE  Mention(actions[i], k) \in Registered
  <2>1. i \in Int /\ k \in Int /\ k >= 1
    BY <1>2 DEF Mentions
  <2>2. i < at \/ i = at
    BY <1>1, <1>2, <1>4, <2>1
  <2>3. ASSUME i = at PROVE k < turn
    <3>1. k \in 1..(Len(Attaching.before) + Len(Attaching.after))
      BY <2>3 DEF Mentions, Attaching
    <3>2. PICK x, y \in Nat : x = Len(Attaching.before) /\ y = Len(Attaching.after)
      BY <1>2
    <3>3. turn > x + y /\ k \in 1..(x + y) /\ turn \in Nat
      BY <1>1, <1>2, <3>1, <3>2
    <3> QED
      BY <3>3
  <2> QED
    BY <1>2, <2>2, <2>3 DEF IInv, AttachedSoFar
<1>5. before' \in [Name -> Seq(Action)] /\ after' \in [Name -> Seq(Action)]
  BY <1>1, <1>2
<1> QED
  BY <1>1, <1>3, <1>4, <1>5, AttachStep

LEMMA ResolvedStep ==
  ASSUME IInv, Resolved
  PROVE  IInv'
<1>1. phase = "attach" /\ at > Len(actions) /\ outcome' = "resolved"
  BY DEF Resolved, LoopOver, Registering
<1>2. Refusals'
  BY <1>1 DEF Resolved, Refusals
<1> QED
  BY <1>1, <1>2, OutcomeStep DEF Resolved

----------------------------------------------------------------------------
(* The theorems *)

LEMMA StutterStep ==
  ASSUME IInv, UNCHANGED vars
  PROVE  IInv'
<1>1. TypeOK' /\ Position' /\ AttachedSoFar'
  BY DEF IInv, vars, TypeOK, Position, Collecting, AttachedSoFar, Registered
<1>2. Conserved'
  <2>1. \A n \in Name, d \in Dependency :
          (InFlight(n, d)' <=> InFlight(n, d)) /\ (SeenEdge(n, d)' <=> SeenEdge(n, d))
    BY DEF vars, InFlight, SeenEdge, SeenDependent, SeenDependency, Past, Collecting, Current
  <2>2. \A n \in Name : SeenTask(n)' <=> SeenTask(n)
    BY DEF vars, SeenTask, Past, Current
  <2>3. \A a \in Action : SeenAction(a)' <=> SeenAction(a)
    BY DEF vars, SeenAction, Past, Current
  <2>4. Registered' = Registered /\ actions' = actions
    BY DEF vars, Registered
  <2> QED
    BY <2>1, <2>2, <2>3, <2>4 DEF IInv, Conserved
<1>3. Waiting'
  BY DEF vars, IInv, Waiting, WaitsForItsTask, Registered, Collecting
<1>4. ResolvedSoFar'
  <2>1. \A n \in Name, d \in Dependency : GoneThrough(n, d)' <=> GoneThrough(n, d)
    BY DEF vars, GoneThrough, Gone
  <2>2. resolved' = resolved /\ Registered' = Registered
    BY DEF vars, Registered
  <2>3. \A d \in Dependency : Weakened(d) \in Dependency
    BY DependencyFields
  <2> QED
    BY <2>1, <2>2, <2>3 DEF IInv, ResolvedSoFar
<1>5. Refusals'
  <2>1. build' = build /\ DeclaredTasks' = DeclaredTasks
    BY DEF vars, DeclaredTasks
  <2>2. /\ UnknownDependent' <=> UnknownDependent
        /\ UnknownDependency' <=> UnknownDependency
    BY <2>1 DEF UnknownDependent, UnknownDependency
  <2>3. UnknownInAction' <=> UnknownInAction
    BY <2>1 DEF UnknownInAction
  <2> QED
    BY <2>2, <2>3 DEF IInv, vars, Refusals
<1> QED
  BY <1>1, <1>2, <1>3, <1>4, <1>5 DEF IInv

LEMMA NextIInv ==
  ASSUME IInv, [Next]_vars
  PROVE  IInv'
<1>1. CASE UNCHANGED vars
  BY <1>1, StutterStep
<1>2. CASE InjectDependency \/ BeginTasks \/ RegisterTask
  BY <1>2, InjectStep, BeginTasksStep, RegisterTaskStep
<1>3. CASE BeginActions \/ RegisterAction \/ RegisterLate
  BY <1>3, BeginActionsStep, RegisterActionStep, RegisterLateStep
<1>4. CASE RejectPending \/ FlushPending
  BY <1>4, RejectPendingStep, FlushStep
<1>5. CASE RejectMissing \/ AddDependency \/ MergeDependency \/ NextTask
  BY <1>5, RejectMissingStep, AddDependencyStep, MergeDependencyStep, NextTaskStep
<1>6. CASE BeginAttach \/ RejectAction \/ AttachBefore \/ AttachAfter \/ NextAction \/ Resolved
  BY <1>6, BeginAttachStep, RejectActionStep, AttachBeforeStep, AttachAfterStep, NextActionStep,
     ResolvedStep
<1>7. CASE Ended
  BY <1>7, StutterStep DEF Ended
<1> QED
  BY <1>1, <1>2, <1>3, <1>4, <1>5, <1>6, <1>7 DEF Next

\* The invariant is inductive: no edge is lost or invented while modules are
\* collected, and the part of the graph resolved so far is right
\* (collect_project_annotations, resolve_dependencies).
THEOREM Invariance == Spec => []IInv
<1>1. Init => IInv
  BY InitIInv
<1>2. IInv /\ [Next]_vars => IInv'
  BY NextIInv
<1> QED
  BY <1>1, <1>2, PTL DEF Spec

\* The registries hold what their types say, for builds of any length.
THEOREM TypeCorrect == Spec => []TypeOK
<1>1. IInv => TypeOK
  BY DEF IInv
<1> QED
  BY <1>1, Invariance, PTL

\* Between two modules an edge waits only as long as the task that depends is
\* not registered (register_late_task_dependencies).
THEOREM WaitsAlways == Spec => []WaitsForItsTask
<1>1. IInv => WaitsForItsTask
  BY DEF IInv, Waiting
<1> QED
  BY <1>1, Invariance, PTL

\* What has been resolved when the resolution is over.
LEMMA WhenResolved ==
  ASSUME IInv, outcome = "resolved"
  PROVE  /\ ~ Collecting
         /\ \A n \in Name, d \in Dependency :
              /\ Declared(n, d.name, d.optional) <=> d \in Elements(deps[n])
              /\ Declared(n, d.name, d.optional) <=> GoneThrough(n, d)
         /\ \A n \in Name \ Registered, d \in Dependency : ~ Declared(n, d.name, d.optional)
<1>1. /\ phase = "attach" /\ ~ Collecting
      /\ deps \in [Name -> Seq(Dependency)]
  BY DEF IInv, Refusals, Collecting, TypeOK
<1>2. \A n \in Name : injected[n] = <<>> /\ pending[n] = <<>>
  BY <1>1 DEF IInv, Waiting
<1>3. ASSUME NEW n \in Name, NEW d \in Dependency
      PROVE  Declared(n, d.name, d.optional) <=> d \in Elements(deps[n])
  BY <1>1, <1>2, AllSeen, EmptyElements DEF InFlight
<1>4. ASSUME NEW n \in Name, NEW d \in Dependency
      PROVE  GoneThrough(n, d) <=> d \in Elements(deps[n])
  BY <1>1 DEF GoneThrough, Gone, Elements
<1>5. \A n \in Name \ Registered : Elements(deps[n]) = {}
  BY EmptyElements DEF IInv, Waiting
<1> QED
  BY <1>1, <1>3, <1>4, <1>5

\* The resolved graph is the declared one: no edge is lost or invented, a
\* required declaration prevails over optional ones (resolve_dependencies).
THEOREM GraphAsDeclared == Spec => []ResolvedAsDeclared
<1>1. IInv => ResolvedAsDeclared
  <2> SUFFICES ASSUME IInv, outcome = "resolved", NEW t \in Name
               PROVE  /\ \A i, j \in DOMAIN resolved[t] :
                           resolved[t][i].name = resolved[t][j].name => i = j
                      /\ \A d \in Dependency :
                           d \in Elements(resolved[t]) <=>
                             /\ Declared(t, d.name, d.optional)
                             /\ d.optional => ~ Declared(t, d.name, FALSE)
    BY DEF ResolvedAsDeclared
  <2>1. ASSUME NEW d \in Dependency
        PROVE  /\ GoneThrough(t, d) <=> Declared(t, d.name, d.optional)
               /\ GoneThrough(t, Weakened(d)) <=> Declared(t, d.name, FALSE)
    <3>1. Weakened(d) \in Dependency /\ Weakened(d).name = d.name /\ Weakened(d).optional = FALSE
      BY DependencyFields
    <3>2. GoneThrough(t, d) <=> Declared(t, d.name, d.optional)
      BY WhenResolved
    <3>3. GoneThrough(t, Weakened(d)) <=> Declared(t, Weakened(d).name, Weakened(d).optional)
      BY <3>1, WhenResolved
    <3> QED
      BY <3>1, <3>2, <3>3
  <2> QED
    BY <2>1 DEF IInv, ResolvedSoFar
<1> QED
  BY <1>1, Invariance, PTL

LEMMA NothingUnknown ==
  ASSUME IInv, outcome = "resolved"
  PROVE  ~ (UnknownDependent \/ UnknownDependency \/ UnknownInAction)
<1>1. /\ ~ Collecting /\ Registered = DeclaredTasks /\ TypeOK
      /\ \A a \in Action : a \in Elements(actions) <=> a \in DeclaredActions
      /\ \A m \in DOMAIN build : build[m] \in Module
  BY WhenResolved, AllSeen, BuildFacts DEF IInv
<1>2. ~ UnknownDependent
  <2> SUFFICES ASSUME NEW m \in DOMAIN build, NEW i \in DOMAIN build[m].dependents,
                      build[m].dependents[i].task \notin DeclaredTasks
               PROVE  FALSE
    BY DEF UnknownDependent
  <2> DEFINE e == build[m].dependents[i]
             d == [name |-> e.on, optional |-> e.optional]
  <2>1. e \in Edge
    BY <1>1, ModuleFacts
  <2>2. e.task \in Name /\ d \in Dependency /\ e = [task |-> e.task, on |-> d.name, optional |-> d.optional]
    BY <2>1 DEF Edge, Dependency
  <2>3. Declared(e.task, d.name, d.optional)
    BY <2>2 DEF Declared, Declares, IsDependent, Elements
  <2>4. ~ Declared(e.task, d.name, d.optional)
    BY <1>1, <2>2, WhenResolved
  <2> QED
    BY <2>3, <2>4
<1>3. ~ UnknownDependency
  <2> SUFFICES ASSUME NEW m \in DOMAIN build, NEW i \in DOMAIN build[m].tasks,
                      NEW d \in Elements(build[m].tasks[i].deps), d.name \notin DeclaredTasks
               PROVE  FALSE
    BY DEF UnknownDependency
  <2> DEFINE t == build[m].tasks[i].name
  <2>1. t \in Name /\ d \in Dependency
    <3>1. t \in Name /\ build[m].tasks[i].deps \in Seq(Dependency)
      BY <1>1, ModuleFacts
    <3> QED
      BY <3>1, ElementOfSeq, LenProperties DEF Elements
  <2>2. Declared(t, d.name, d.optional)
    <3>1. d = [name |-> d.name, optional |-> d.optional]
      BY <2>1, DependencyFields
    <3> QED
      BY <3>1 DEF Declared, Declares, DependsOn
  <2>3. GoneThrough(t, d)
    BY <2>1, <2>2, WhenResolved
  <2>4. d.name \in Registered
    BY <2>1, <2>3 DEF IInv, ResolvedSoFar
  <2> QED
    BY <1>1, <2>4
<1>4. ~ UnknownInAction
  <2> SUFFICES ASSUME NEW m \in DOMAIN build, NEW a \in Elements(build[m].actions),
                      NEW u \in Elements(a.before) \cup Elements(a.after), u \notin DeclaredTasks
               PROVE  FALSE
    BY DEF UnknownInAction
  <2>1. a \in Action /\ a \in Elements(actions)
    <3>1. a \in Action
      BY <1>1, ModuleFacts DEF Elements
    <3> QED
      BY <1>1, <3>1 DEF DeclaredActions
  <2>2. /\ Len(a.before) \in Nat /\ DOMAIN a.before = 1..Len(a.before)
        /\ Len(a.after) \in Nat /\ DOMAIN a.after = 1..Len(a.after)
    <3>1. a.before \in Seq(Name) /\ a.after \in Seq(Name)
      BY <2>1 DEF Action
    <3> QED
      BY <3>1, LenProperties
  <2>3. PICK i \in DOMAIN actions : actions[i] = a
    BY <2>1 DEF Elements
  <2>4. phase = "attach" /\ i < at
    <3>1. phase = "attach" /\ at > Len(actions) /\ at \in Nat
      BY DEF IInv, Refusals, TypeOK
    <3>2. Len(actions) \in Nat /\ DOMAIN actions = 1..Len(actions)
      BY <1>1, BuildFacts
    <3> QED
      BY <3>1, <3>2
  <2>5. \A k \in Mentions(a) : Mention(a, k) \in Registered
    BY <2>3, <2>4 DEF IInv, AttachedSoFar
  <2>6. \E k \in Mentions(a) : Mention(a, k) = u
    <3>0. PICK x, y \in Nat : x = Len(a.before) /\ y = Len(a.after)
      BY <2>2
    <3>1. CASE u \in Elements(a.before)
      <4>1. PICK k \in 1..x : a.before[k] = u
        BY <2>2, <3>0, <3>1 DEF Elements
      <4>2. k \in 1..(x + y) /\ k <= x
        OBVIOUS
      <4>3. k \in Mentions(a) /\ k <= Len(a.before)
        BY <3>0, <4>2 DEF Mentions
      <4> QED
        BY <4>1, <4>3 DEF Mention
    <3>2. CASE u \in Elements(a.after)
      <4>1. PICK j \in 1..y : a.after[j] = u
        BY <2>2, <3>0, <3>2 DEF Elements
      <4>2. PICK k \in 1..(x + y) : ~ (k <= x) /\ x + y + 1 - k = j
        <5>1. x + y + 1 - j \in 1..(x + y) /\ ~ (x + y + 1 - j <= x)
          OBVIOUS
        <5>2. x + y + 1 - (x + y + 1 - j) = j
          OBVIOUS
        <5> QED
          BY <5>1, <5>2
      <4>3. k \in Mentions(a)
        BY <3>0, <4>2 DEF Mentions
      <4>4. Mention(a, k) = u
        BY <3>0, <4>1, <4>2 DEF Mention
      <4> QED
        BY <4>3, <4>4
    <3> QED
      BY <3>1, <3>2
  <2> QED
    BY <1>1, <2>5, <2>6
<1> QED
  BY <1>2, <1>3, <1>4

\* A build is refused exactly for a name that no module declares, whether it
\* is the dependent, the dependency or the task of an action
\* (NoSuchTaskException, MissingTaskDependencyException,
\* MissingActionDependencyException).
THEOREM UnknownAlwaysRefused == Spec => []UnknownRefused
<1>1. IInv => UnknownRefused
  BY NothingUnknown DEF IInv, Refusals, UnknownRefused
<1> QED
  BY <1>1, Invariance, PTL

----------------------------------------------------------------------------
(* Actions: every mention is attached once *)

DeclaredAt(p) == build[p[1]].actions[p[2]]

\* The p[2]-th action of module p[1] has been come to.
SeenAt(p) ==
  \/ p[1] < module
  \/ p[1] = module /\ phase = "actions" /\ p[2] < at

\* f tells of each registered action where it is declared.
Placed(f) ==
  /\ \A i, j \in DOMAIN actions : f[i] = f[j] => i = j
  /\ \A i \in DOMAIN actions : SeenAt(f[i]) /\ actions[i] = DeclaredAt(f[i])
  /\ \A p \in ActionPositions : SeenAt(p) => \E i \in DOMAIN actions : f[i] = p

EachPlaced == \E f \in [DOMAIN actions -> ActionPositions] : Placed(f)

\* The j-th action has been attached for its k-th mention in execute_before,
\* in execute_after.
BeforeDone(n, j, k) ==
  /\ k \in Occurrences(n, actions[j].before)
  /\ phase = "attach" /\ (j < at \/ (j = at /\ k < turn))

AfterDone(n, j, k) ==
  /\ k \in Occurrences(n, actions[j].after)
  /\ phase = "attach"
  /\ j < at \/ (j = at /\ Len(actions[j].before) + Len(actions[j].after) + 1 - k < turn)

Befores(n) ==
  UNION {{<<j, k>> : k \in {i \in DOMAIN actions[j].before : BeforeDone(n, j, i)}} : j \in DOMAIN actions}

Afters(n) ==
  UNION {{<<j, k>> : k \in {i \in DOMAIN actions[j].after : AfterDone(n, j, i)}} : j \in DOMAIN actions}

\* The list s holds an action for each mention in M, and no more.
Counts(s, M) ==
  /\ IsFiniteSet(M)
  /\ Len(s) = Cardinality(M)
  /\ Elements(s) = {actions[x[1]] : x \in M}

EachCounted == \A n \in Name : Counts(before[n], Befores(n)) /\ Counts(after[n], Afters(n))

LEMMA PlaceFacts ==
  ASSUME NEW p
  PROVE  p \in ActionPositions <=>
           \E m \in DOMAIN build : \E i \in DOMAIN build[m].actions : p = <<m, i>>
BY DEF ActionPositions

\* A place is a module and a position in its actions.
LEMMA PlaceTypes ==
  ASSUME TypeOK, NEW p \in ActionPositions
  PROVE  /\ p[1] \in DOMAIN build /\ p[1] \in Nat
         /\ p[2] \in DOMAIN build[p[1]].actions /\ p[2] \in Nat \ {0}
         /\ p = <<p[1], p[2]>>
<1>1. PICK m \in DOMAIN build : \E i \in DOMAIN build[m].actions : p = <<m, i>>
  BY PlaceFacts
<1> PICK i \in DOMAIN build[m].actions : p = <<m, i>>
  BY <1>1
<1>2. m \in Nat /\ build[m] \in Module
  BY BuildFacts
<1>3. i \in Nat \ {0}
  BY <1>2, ModuleFacts
<1> QED
  BY <1>1, <1>2, <1>3

\* A step that does not register an action keeps the places.
LEMMA PlacesKept ==
  ASSUME EachPlaced, UNCHANGED <<build, actions>>,
         \A p \in ActionPositions : SeenAt(p)' <=> SeenAt(p)
  PROVE  EachPlaced'
<1>1. PICK f \in [DOMAIN actions -> ActionPositions] : Placed(f)
  BY DEF EachPlaced
<1>2. ActionPositions' = ActionPositions
  BY DEF ActionPositions
<1>3. \A i \in DOMAIN actions : f[i] \in ActionPositions
  BY <1>1
<1>4. Placed(f)'
  <2>1. \A i, j \in DOMAIN actions' : f[i] = f[j] => i = j
    BY <1>1 DEF Placed
  <2>2. \A i \in DOMAIN actions' : SeenAt(f[i])' /\ (actions[i] = DeclaredAt(f[i]))'
    BY <1>1, <1>3 DEF Placed, DeclaredAt
  <2>3. \A p \in ActionPositions' : SeenAt(p)' => \E i \in DOMAIN actions' : f[i] = p
    BY <1>1, <1>2 DEF Placed
  <2> QED
    BY <2>1, <2>2, <2>3 DEF Placed
<1> QED
  BY <1>1, <1>2, <1>4 DEF EachPlaced

\* Nothing is declared where no module is left.
LEMMA PlacesUnseen ==
  ASSUME EachPlaced, UNCHANGED <<build, actions, module>>,
         phase # "actions", phase' # "actions"
  PROVE  EachPlaced'
<1>1. \A p \in ActionPositions : SeenAt(p)' <=> SeenAt(p)
  BY DEF SeenAt
<1> QED
  BY <1>1, PlacesKept

LEMMA InitPlaced ==
  ASSUME Init
  PROVE  EachPlaced
<1>1. TypeOK /\ module = 1 /\ phase = "inject" /\ actions = <<>>
  BY InitIInv DEF IInv, Init
<1>2. \A p \in ActionPositions : ~ SeenAt(p)
  <2>1. ASSUME NEW p \in ActionPositions PROVE ~ SeenAt(p)
    <3>1. p[1] \in 1..Len(build)
      BY <1>1, PlaceTypes, BuildFacts
    <3> QED
      BY <1>1, <3>1 DEF SeenAt
  <2> QED
    BY <2>1
<1>3. DOMAIN actions = {}
  BY <1>1
<1> DEFINE f == [i \in {} |-> i]
<1>4. f \in [DOMAIN actions -> ActionPositions] /\ DOMAIN f = {}
  BY <1>3
<1> HIDE DEF f
<1>5. Placed(f)
  BY <1>2, <1>3 DEF Placed
<1> QED
  BY <1>4, <1>5 DEF EachPlaced

\* An action that is registered is put in its place among those before.
LEMMA RegisterActionPlaced ==
  ASSUME IInv, EachPlaced, RegisterAction
  PROVE  EachPlaced'
<1> DEFINE a0 == Current.actions[at]
           n == Len(actions)
           here == <<module, at>>
<1>1. /\ phase = "actions" /\ phase' = "actions" /\ at' = at + 1 /\ at <= Len(Current.actions)
      /\ UNCHANGED <<build, module>> /\ Collecting
  BY DEF RegisterAction, InLoop, Registering, Collecting
<1>2. /\ TypeOK /\ Current \in Module /\ module \in DOMAIN build /\ module \in Nat
      /\ at \in Nat \ {0} /\ actions \in Seq(Action)
      /\ \A m \in DOMAIN build : m \in Nat
  <2>1. TypeOK /\ at \in Nat \ {0} /\ actions \in Seq(Action)
    BY DEF IInv, TypeOK
  <2>2. Current \in Module /\ module \in DOMAIN build
    BY <1>1, CurrentFacts
  <2>3. \A m \in DOMAIN build : m \in Nat
    BY <2>1, BuildFacts
  <2> QED
    BY <2>1, <2>2, <2>3
<1>3. at \in DOMAIN Current.actions /\ a0 \in Action
  BY <1>1, <1>2, ModuleFacts
<1>4. here \in ActionPositions /\ DeclaredAt(here) = a0 /\ here[1] = module /\ here[2] = at
  BY <1>2, <1>3, PlaceFacts DEF DeclaredAt, Current
<1>5. PICK i \in 0..n :
        actions' = SubSeq(actions, 1, i) \o <<a0>> \o SubSeq(actions, i + 1, n)
  BY DEF RegisterAction
<1> HIDE DEF a0
<1>6. /\ n \in Nat /\ DOMAIN actions = 1..n
      /\ actions' = [k \in 1..(n + 1) |->
                       IF k <= i THEN actions[k] ELSE IF k = i + 1 THEN a0 ELSE actions[k - 1]]
  <2>1. actions \in Seq(Action) /\ a0 \in Action /\ i \in 0..Len(actions)
    BY <1>2, <1>3
  <2>2. actions' = Inserted(actions, i, a0)
    BY <1>5 DEF Inserted
  <2>3. Len(actions) \in Nat /\ DOMAIN actions = 1..Len(actions)
    BY <2>1, LenProperties
  <2>4. Inserted(actions, i, a0) =
          [k \in 1..(Len(actions) + 1) |->
             IF k <= i THEN actions[k] ELSE IF k = i + 1 THEN a0 ELSE actions[k - 1]]
    BY <2>1, InsertAt
  <2> QED
    BY <2>2, <2>3, <2>4
<1> HIDE DEF n
<1>7. i \in Nat /\ i <= n
  BY <1>6
<1>8. ActionPositions' = ActionPositions
  BY <1>1 DEF ActionPositions
<1>9. ~ SeenAt(here)
  BY <1>2, <1>4 DEF SeenAt
<1>10. \A p \in ActionPositions : SeenAt(p)' <=> SeenAt(p) \/ p = here
  <2>1. ASSUME NEW p \in ActionPositions PROVE SeenAt(p)' <=> SeenAt(p) \/ p = here
    <3>1. p[1] \in Nat /\ p[2] \in Nat /\ p = <<p[1], p[2]>>
      BY <1>2, PlaceTypes
    <3>2. p[2] < at + 1 <=> p[2] < at \/ p[2] = at
      BY <1>2, <3>1
    <3>3. p = here <=> p[1] = module /\ p[2] = at
      BY <3>1
    <3> QED
      BY <1>1, <1>2, <3>1, <3>2, <3>3 DEF SeenAt
  <2> QED
    BY <2>1
<1> HIDE DEF here
<1>11. PICK f \in [1..n -> ActionPositions] : Placed(f)
  BY <1>6 DEF EachPlaced
<1>12. /\ \A k, j \in 1..n : f[k] = f[j] => k = j
       /\ \A k \in 1..n : f[k] \in ActionPositions /\ SeenAt(f[k]) /\ f[k] # here
                          /\ actions[k] = DeclaredAt(f[k])
       /\ \A p \in ActionPositions : SeenAt(p) => \E k \in 1..n : f[k] = p
  BY <1>6, <1>9, <1>11 DEF Placed
<1>13. PICK g : g = [k \in 1..(n + 1) |-> IF k <= i THEN f[k] ELSE IF k = i + 1 THEN here ELSE f[k - 1]]
  OBVIOUS
<1>14. \A k \in 1..(n + 1) :
         \/ k \in 1..i /\ k \in 1..n /\ g[k] = f[k] /\ actions'[k] = actions[k]
         \/ k = i + 1 /\ g[k] = here /\ actions'[k] = a0
         \/ /\ k \in (i + 2)..(n + 1) /\ k - 1 \in 1..n
            /\ g[k] = f[k - 1] /\ actions'[k] = actions[k - 1]
  <2>1. ASSUME NEW k \in 1..(n + 1)
        PROVE  \/ k \in 1..i /\ k \in 1..n /\ k <= i
               \/ k = i + 1 /\ ~ (k <= i)
               \/ k \in (i + 2)..(n + 1) /\ k - 1 \in 1..n /\ ~ (k <= i) /\ k # i + 1
    BY <1>6, <1>7
  <2> QED
    BY <1>6, <1>13, <2>1
<1>15. \A k \in 1..i : k \in 1..(n + 1) /\ g[k] = f[k]
  <2>1. \A k \in 1..i : k \in 1..(n + 1) /\ k <= i
    BY <1>6, <1>7
  <2> QED
    BY <1>13, <2>1
<1>16. i + 1 \in 1..(n + 1) /\ g[i + 1] = here
  <2>1. i + 1 \in 1..(n + 1) /\ ~ (i + 1 <= i)
    BY <1>6, <1>7
  <2> QED
    BY <1>13, <2>1
<1>17. \A k \in 1..n : ~ (k <= i) => k + 1 \in 1..(n + 1) /\ g[k + 1] = f[k]
  <2>1. \A k \in 1..n : ~ (k <= i) =>
          k + 1 \in 1..(n + 1) /\ ~ (k + 1 <= i) /\ k + 1 # i + 1 /\ k + 1 - 1 = k
    BY <1>6, <1>7
  <2> QED
    BY <1>13, <2>1
<1>18. g \in [1..(n + 1) -> ActionPositions]
  <2>1. \A k \in 1..(n + 1) : g[k] \in ActionPositions
    BY <1>4, <1>12, <1>14
  <2> QED
    BY <1>13, <2>1
<1>19. \A k, j \in 1..(n + 1) : g[k] = g[j] => k = j
  <2>1. ASSUME NEW k \in 1..(n + 1), NEW j \in 1..(n + 1), g[k] = g[j] PROVE k = j
    <3>1. k \in Nat /\ j \in Nat
      BY <1>6
    <3>2. CASE k = i + 1 \/ j = i + 1
      BY <1>7, <1>12, <1>14, <1>16, <2>1, <3>1, <3>2
    <3>3. CASE k # i + 1 /\ j # i + 1
      <4>1. PICK k1 \in 1..n : g[k] = f[k1] /\ ((k \in 1..i /\ k1 = k) \/ (k \in (i + 2)..(n + 1) /\ k1 = k - 1))
        BY <1>14, <3>3
      <4>2. PICK j1 \in 1..n : g[j] = f[j1] /\ ((j \in 1..i /\ j1 = j) \/ (j \in (i + 2)..(n + 1) /\ j1 = j - 1))
        BY <1>14, <3>3
      <4>3. k1 = j1
        BY <1>12, <2>1, <4>1, <4>2
      <4> QED
        BY <1>7, <3>1, <4>1, <4>2, <4>3
    <3> QED
      BY <3>2, <3>3
  <2> QED
    BY <2>1
<1>20. \A k \in 1..(n + 1) : SeenAt(g[k])' /\ actions'[k] = DeclaredAt(g[k])'
  <2>1. \A p : DeclaredAt(p)' = DeclaredAt(p)
    BY <1>1 DEF DeclaredAt
  <2>2. \A k \in 1..(n + 1) : /\ g[k] \in ActionPositions /\ (SeenAt(g[k]) \/ g[k] = here)
                              /\ actions'[k] = DeclaredAt(g[k])
    BY <1>4, <1>12, <1>14
  <2>3. \A k \in 1..(n + 1) : SeenAt(g[k])'
    BY <1>10, <2>2
  <2> QED
    BY <2>1, <2>2, <2>3
<1>21. \A p \in ActionPositions : SeenAt(p)' => \E k \in 1..(n + 1) : g[k] = p
  <2>1. ASSUME NEW p \in ActionPositions, SeenAt(p) PROVE \E k \in 1..(n + 1) : g[k] = p
    <3>1. PICK k \in 1..n : f[k] = p
      BY <1>12, <2>1
    <3>2. k <= i => k \in 1..i
      BY <1>6, <1>7
    <3> QED
      BY <1>15, <1>17, <3>1, <3>2
  <2> QED
    BY <1>10, <1>16, <2>1
<1>22. Placed(g)'
  <2>1. DOMAIN actions' = 1..(n + 1)
    BY <1>6
  <2>2. \A k, j \in DOMAIN actions' : g[k] = g[j] => k = j
    BY <1>19, <2>1
  <2>3. \A k \in DOMAIN actions' : SeenAt(g[k])' /\ actions'[k] = DeclaredAt(g[k])'
    BY <1>20, <2>1
  <2>4. \A p \in ActionPositions' : SeenAt(p)' => \E k \in DOMAIN actions' : g[k] = p
    BY <1>8, <1>21, <2>1
  <2> QED
    BY <2>2, <2>3, <2>4 DEF Placed
<1> QED
  <2>1. g \in [DOMAIN actions' -> ActionPositions']
    BY <1>6, <1>8, <1>18
  <2> QED
    BY <1>22, <2>1 DEF EachPlaced

\* The actions of a module that has been gone through are all in their places.
LEMMA RegisterLatePlaced ==
  ASSUME IInv, EachPlaced, RegisterLate
  PROVE  EachPlaced'
<1>1. /\ phase = "actions" /\ phase' # "actions" /\ module' = module + 1
      /\ at > Len(Current.actions) /\ UNCHANGED <<build, actions>> /\ Collecting
  BY DEF RegisterLate, LoopOver, Registering, NextModule, Begin, Collecting
<1>2. TypeOK /\ Current \in Module /\ module \in Nat /\ at \in Nat
  <2>1. TypeOK /\ at \in Nat
    BY DEF IInv, TypeOK
  <2>2. Current \in Module /\ module \in DOMAIN build
    BY <1>1, CurrentFacts
  <2>3. DOMAIN build = 1..Len(build) /\ Len(build) \in Nat
    BY <2>1, BuildFacts
  <2> QED
    BY <2>1, <2>2, <2>3
<1>3. ASSUME NEW p \in ActionPositions PROVE SeenAt(p)' <=> SeenAt(p)
  <2>1. p[1] \in Nat /\ p[2] \in Nat /\ p[2] \in DOMAIN build[p[1]].actions
    BY <1>2, PlaceTypes
  <2>2. p[1] < module + 1 <=> p[1] < module \/ p[1] = module
    BY <1>2, <2>1
  <2>3. ASSUME p[1] = module PROVE p[2] < at
    <3>1. p[2] \in 1..Len(Current.actions) /\ Len(Current.actions) \in Nat
      BY <1>2, <2>1, <2>3, ModuleFacts DEF Current
    <3> QED
      BY <1>1, <1>2, <3>1
  <2> QED
    BY <1>1, <2>2, <2>3 DEF SeenAt
<1> QED
  BY <1>1, <1>3, PlacesKept

LEMMA PlacedStep ==
  ASSUME IInv, EachPlaced, [Next]_vars
  PROVE  EachPlaced'
<1>1. CASE UNCHANGED vars
  <2>1. \A p \in ActionPositions : SeenAt(p)' <=> SeenAt(p)
    BY <1>1 DEF SeenAt, vars
  <2> QED
    BY <1>1, <2>1, PlacesKept DEF vars
<1>2. CASE InjectDependency \/ BeginTasks \/ RegisterTask
  BY <1>2, PlacesUnseen
     DEF InjectDependency, BeginTasks, RegisterTask, InLoop, LoopOver, Registering, Begin
<1>3. CASE BeginActions
  <2>1. phase = "tasks" /\ phase' = "actions" /\ at' = 1 /\ UNCHANGED <<build, actions, module>>
    BY <1>3 DEF BeginActions, LoopOver, Registering, Begin
  <2>2. \A p \in ActionPositions : ~ (p[2] < 1)
    <3>1. TypeOK
      BY DEF IInv
    <3> QED
      BY <3>1, PlaceTypes
  <2>3. \A p \in ActionPositions : SeenAt(p)' <=> SeenAt(p)
    BY <2>1, <2>2 DEF SeenAt
  <2> QED
    BY <2>1, <2>3, PlacesKept
<1>4. CASE RegisterAction \/ RegisterLate
  BY <1>4, RegisterActionPlaced, RegisterLatePlaced
<1>5. CASE FlushPending \/ BeginAttach
  BY <1>5, PlacesUnseen DEF FlushPending, BeginAttach, LoopOver, Registering, Begin
<1>6. CASE RejectPending \/ RejectMissing \/ RejectAction \/ Resolved
  BY <1>6, PlacesUnseen
     DEF RejectPending, RejectMissing, RejectAction, Resolved, Raise, InBefore, InAfter,
         InDependencies, InLoop, LoopOver, Registering
<1>7. CASE AddDependency \/ MergeDependency \/ NextTask
  BY <1>7, PlacesUnseen
     DEF AddDependency, MergeDependency, NextTask, Resolve, InDependencies, InLoop, Registering
<1>8. CASE AttachBefore \/ AttachAfter \/ NextAction
  BY <1>8, PlacesUnseen
     DEF AttachBefore, AttachAfter, NextAction, InBefore, InAfter, InLoop, Registering
<1>9. CASE Ended
  BY <1>1, <1>9 DEF Ended
<1> QED
  BY <1>1, <1>2, <1>3, <1>4, <1>5, <1>6, <1>7, <1>8, <1>9 DEF Next

LEMMA DoneFacts ==
  ASSUME NEW n, NEW x
  PROVE  /\ x \in Befores(n) <=>
              \E j \in DOMAIN actions : \E k \in DOMAIN actions[j].before :
                x = <<j, k>> /\ BeforeDone(n, j, k)
         /\ x \in Afters(n) <=>
              \E j \in DOMAIN actions : \E k \in DOMAIN actions[j].after :
                x = <<j, k>> /\ AfterDone(n, j, k)
BY DEF Befores, Afters

LEMMA ActionFacts ==
  ASSUME TypeOK, NEW j \in DOMAIN actions
  PROVE  /\ j \in Nat \ {0}
         /\ Len(actions[j].before) \in Nat /\ Len(actions[j].after) \in Nat
         /\ DOMAIN actions[j].before = 1..Len(actions[j].before)
         /\ DOMAIN actions[j].after = 1..Len(actions[j].after)
<1>1. actions[j] \in Action /\ j \in Nat \ {0}
  BY BuildFacts
<1>2. actions[j].before \in Seq(Name) /\ actions[j].after \in Seq(Name)
  BY <1>1 DEF Action
<1> QED
  BY <1>1, <1>2, LenProperties

\* Nothing is attached before the loop over the actions.
LEMMA NothingDone ==
  ASSUME NEW n, phase # "attach"
  PROVE  Befores(n) = {} /\ Afters(n) = {}
<1>1. \A j, k : ~ BeforeDone(n, j, k) /\ ~ AfterDone(n, j, k)
  BY DEF BeforeDone, AfterDone
<1>2. \A x : x \notin Befores(n) /\ x \notin Afters(n)
  BY <1>1, DoneFacts
<1> QED
  BY <1>2

LEMMA CountedNone ==
  ASSUME NEW s
  PROVE  Counts(s, {}) <=> Len(s) = 0 /\ Elements(s) = {}
<1>1. IsFiniteSet({}) /\ Cardinality({}) = 0
  BY FS_EmptySet
<1>2. {actions[x[1]] : x \in {}} = {}
  OBVIOUS
<1> QED
  BY <1>1, <1>2 DEF Counts

\* An action more for a mention more.
LEMMA CountedMore ==
  ASSUME NEW s \in Seq(Action), NEW M, Counts(s, M), NEW j, actions[j] \in Action,
         NEW k, <<j, k>> \notin M
  PROVE  Counts(Append(s, actions[j]), M \cup {<<j, k>>})
<1> DEFINE x == <<j, k>>
           a == actions[j]
<1>1. IsFiniteSet(M) /\ Len(s) = Cardinality(M) /\ Elements(s) = {actions[y[1]] : y \in M}
  BY DEF Counts
<1>2. IsFiniteSet(M \cup {x}) /\ Cardinality(M \cup {x}) = Cardinality(M) + 1
  BY <1>1, FS_AddElement
<1>3. Elements(Append(s, a)) = Elements(s) \cup {a} /\ Len(Append(s, a)) = Len(s) + 1
  BY AppendElements, AppendProperties
<1>4. {actions[y[1]] : y \in M \cup {x}} = {actions[y[1]] : y \in M} \cup {a}
  <2>1. x[1] = j
    OBVIOUS
  <2> HIDE DEF x
  <2> QED
    BY <2>1
<1> QED
  BY <1>1, <1>2, <1>3, <1>4 DEF Counts

LEMMA InitCounted ==
  ASSUME Init
  PROVE  EachCounted
<1>1. phase # "attach" /\ before = None /\ after = None
  BY DEF Init
<1>2. \A n \in Name : Counts(before[n], {}) /\ Counts(after[n], {})
  BY <1>1, EmptyElements, CountedNone DEF None
<1> QED
  BY <1>1, <1>2, NothingDone DEF EachCounted

LEMMA CountedEarly ==
  ASSUME EachCounted, phase # "attach", UNCHANGED <<before, after>>,
         \A n \in Name : (Befores(n) = {})' /\ (Afters(n) = {})'
  PROVE  EachCounted'
<1>1. ASSUME NEW n \in Name
      PROVE  Counts(before[n], Befores(n))' /\ Counts(after[n], Afters(n))'
  <2>1. Counts(before[n], {}) /\ Counts(after[n], {})
    BY NothingDone DEF EachCounted
  <2>2. /\ Len(before'[n]) = 0 /\ Elements(before'[n]) = {}
        /\ Len(after'[n]) = 0 /\ Elements(after'[n]) = {}
    BY <2>1, CountedNone
  <2>3. Befores(n)' = {} /\ Afters(n)' = {}
    OBVIOUS
  <2>4. IsFiniteSet({}) /\ Cardinality({}) = 0
    BY FS_EmptySet
  <2>5. {actions'[x[1]] : x \in {}} = {}
    OBVIOUS
  <2> QED
    BY <2>2, <2>3, <2>4, <2>5 DEF Counts
<1> QED
  BY <1>1 DEF EachCounted

LEMMA CountedLate ==
  ASSUME EachCounted, UNCHANGED <<actions, before, after>>,
         \A n \in Name : Befores(n)' = Befores(n) /\ Afters(n)' = Afters(n)
  PROVE  EachCounted'
<1>1. ASSUME NEW n \in Name
      PROVE  Counts(before[n], Befores(n))' /\ Counts(after[n], Afters(n))'
  <2>1. Counts(before[n], Befores(n)) /\ Counts(after[n], Afters(n))
    BY DEF EachCounted
  <2>2. Befores(n)' = Befores(n) /\ Afters(n)' = Afters(n)
    OBVIOUS
  <2> QED
    BY <2>1, <2>2 DEF Counts
<1> QED
  BY <1>1 DEF EachCounted

\* What is done of the actions when the loop comes to mention `turn` of action
\* `at` and goes past it.
LEMMA TurnDone ==
  ASSUME TypeOK, InLoop("attach", actions), NEW n,
         UNCHANGED <<phase, at, actions>>, turn' = turn + 1
  PROVE  /\ \A j \in DOMAIN actions : \A k \in DOMAIN actions[j].before :
              BeforeDone(n, j, k)' <=>
                \/ BeforeDone(n, j, k)
                \/ j = at /\ k = turn /\ actions[at].before[turn] = n
         /\ \A j \in DOMAIN actions : \A k \in DOMAIN actions[j].after :
              AfterDone(n, j, k)' <=>
                \/ AfterDone(n, j, k)
                \/ j = at /\ turn > Len(Attaching.before) /\ k = AfterTurn /\ actions[at].after[k] = n
<1>1. phase = "attach" /\ phase' = "attach" /\ turn \in Nat /\ at \in Nat
  BY DEF InLoop, Registering, TypeOK
<1>2. ASSUME NEW j \in DOMAIN actions, NEW k \in DOMAIN actions[j].before
      PROVE  BeforeDone(n, j, k)' <=>
               \/ BeforeDone(n, j, k)
               \/ j = at /\ k = turn /\ actions[at].before[turn] = n
  <2>1. k \in Nat
    BY ActionFacts
  <2>2. k < turn + 1 <=> k < turn \/ k = turn
    BY <1>1, <2>1
  <2> QED
    BY <1>1, <2>2 DEF BeforeDone, Occurrences
<1>3. ASSUME NEW j \in DOMAIN actions, NEW k \in DOMAIN actions[j].after
      PROVE  AfterDone(n, j, k)' <=>
               \/ AfterDone(n, j, k)
               \/ j = at /\ turn > Len(Attaching.before) /\ k = AfterTurn /\ actions[at].after[k] = n
  <2>1. /\ k \in 1..Len(actions[j].after)
        /\ Len(actions[j].before) \in Nat /\ Len(actions[j].after) \in Nat
    BY ActionFacts
  <2>2. PICK b, c \in Nat : b = Len(actions[j].before) /\ c = Len(actions[j].after)
    BY <2>1
  <2>3. b + c + 1 - k < turn + 1 <=> b + c + 1 - k < turn \/ (turn > b /\ k = b + c + 1 - turn)
    <3>1. k \in Nat /\ k >= 1 /\ k <= c /\ turn \in Nat
      BY <1>1, <2>1, <2>2
    <3> QED
      BY <3>1
  <2>4. CASE j = at
    <3>1. Len(Attaching.before) = b /\ AfterTurn = b + c + 1 - turn
      BY <2>2, <2>4 DEF Attaching, AfterTurn
    <3>2. AfterDone(n, j, k) <=> actions[j].after[k] = n /\ (j < at \/ b + c + 1 - k < turn)
      BY <1>1, <2>2, <2>4 DEF AfterDone, Occurrences
    <3>3. AfterDone(n, j, k)' <=> actions[j].after[k] = n /\ (j < at \/ b + c + 1 - k < turn + 1)
      BY <1>1, <2>2, <2>4 DEF AfterDone, Occurrences
    <3> QED
      BY <2>3, <2>4, <3>1, <3>2, <3>3
  <2>5. CASE j # at
    BY <1>1, <2>5 DEF AfterDone, Occurrences
  <2> QED
    BY <2>4, <2>5
<1> QED
  BY <1>2, <1>3

LEMMA AttachBeforeCounted ==
  ASSUME IInv, EachCounted, AttachBefore
  PROVE  EachCounted'
<1> DEFINE u == Attaching.before[turn]
           x == <<at, turn>>
<1>1. /\ InLoop("attach", actions) /\ turn <= Len(Attaching.before)
      /\ before' = [before EXCEPT ![u] = Append(@, Attaching)] /\ turn' = turn + 1
      /\ UNCHANGED <<phase, at, actions, after>>
  BY DEF AttachBefore, InBefore
<1>2. /\ TypeOK /\ before \in [Name -> Seq(Action)] /\ phase = "attach"
      /\ at \in DOMAIN actions /\ at \in Nat /\ turn \in Nat \ {0} /\ Attaching \in Action
      /\ Len(Attaching.before) \in Nat /\ DOMAIN Attaching.before = 1..Len(Attaching.before)
      /\ \A k \in DOMAIN Attaching.before : Attaching.before[k] \in Name
  BY <1>1, AttachingFacts DEF IInv, TypeOK
<1>3. turn \in DOMAIN actions[at].before /\ u \in Name /\ Attaching = actions[at]
  BY <1>1, <1>2 DEF Attaching
<1>4. ASSUME NEW n \in Name, NEW y
      PROVE  /\ y \in Befores(n)' <=> y \in Befores(n) \/ (y = x /\ u = n)
             /\ y \in Afters(n)' <=> y \in Afters(n)
  <2>1. /\ \A j \in DOMAIN actions : \A k \in DOMAIN actions[j].before :
             BeforeDone(n, j, k)' <=> BeforeDone(n, j, k) \/ (j = at /\ k = turn /\ u = n)
        /\ \A j \in DOMAIN actions : \A k \in DOMAIN actions[j].after :
             AfterDone(n, j, k)' <=> AfterDone(n, j, k)
    <3>1. ~ (turn > Len(Attaching.before))
      BY <1>1, <1>2
    <3> QED
      BY <1>1, <1>2, <1>3, <3>1, TurnDone
  <2>2. y \in Befores(n)' <=>
          \E j \in DOMAIN actions : \E k \in DOMAIN actions[j].before :
            y = <<j, k>> /\ BeforeDone(n, j, k)'
    BY <1>1 DEF Befores
  <2>3. y \in Afters(n)' <=>
          \E j \in DOMAIN actions : \E k \in DOMAIN actions[j].after :
            y = <<j, k>> /\ AfterDone(n, j, k)'
    BY <1>1 DEF Afters
  <2>4. y \in Befores(n)' <=> y \in Befores(n) \/ (y = x /\ u = n)
    BY <1>2, <1>3, <2>1, <2>2, DoneFacts
  <2>5. y \in Afters(n)' <=> y \in Afters(n)
    BY <2>1, <2>3, DoneFacts
  <2> QED
    BY <2>4, <2>5
<1>5. \A n \in Name : x \notin Befores(n)
  <2>1. ASSUME NEW n \in Name, x \in Befores(n) PROVE FALSE
    <3>1. BeforeDone(n, at, turn)
      BY <2>1, DoneFacts
    <3> QED
      BY <1>2, <3>1 DEF BeforeDone
  <2> QED
    BY <2>1
<1> HIDE DEF u
<1>6. ASSUME NEW n \in Name
      PROVE  Counts(before[n], Befores(n))' /\ Counts(after[n], Afters(n))'
  <2>1. Counts(before[n], Befores(n)) /\ Counts(after[n], Afters(n))
    BY DEF EachCounted
  <2>2. Afters(n)' = Afters(n)
    BY <1>4
  <2>3. Counts(after[n], Afters(n))'
    BY <1>1, <2>1, <2>2 DEF Counts
  <2>4. CASE n = u
    <3>1. before'[n] = Append(before[n], actions[at]) /\ before[n] \in Seq(Action)
      BY <1>1, <1>2, <1>3, <2>4
    <3>2. Befores(n)' = Befores(n) \cup {x}
      BY <1>4, <2>4
    <3>3. Counts(Append(before[n], actions[at]), Befores(n) \cup {x})
      BY <1>2, <1>3, <1>5, <2>1, <3>1, CountedMore
    <3>4. Counts(before[n], Befores(n))'
      <4>1. Counts(before'[n], Befores(n)')
        BY <3>1, <3>2, <3>3
      <4> QED
        BY <1>1, <4>1 DEF Counts
    <3> QED
      BY <2>3, <3>4
  <2>5. CASE n # u
    <3>1. before'[n] = before[n]
      BY <1>1, <1>2, <2>5
    <3>2. Befores(n)' = Befores(n)
      BY <1>4, <2>5
    <3>3. Counts(before[n], Befores(n))'
      <4>1. Counts(before'[n], Befores(n)')
        BY <2>1, <3>1, <3>2
      <4> QED
        BY <1>1, <4>1 DEF Counts
    <3> QED
      BY <2>3, <3>3
  <2> QED
    BY <2>4, <2>5
<1> QED
  BY <1>6 DEF EachCounted

LEMMA AttachAfterCounted ==
  ASSUME IInv, EachCounted, AttachAfter
  PROVE  EachCounted'
<1> DEFINE u == Attaching.after[AfterTurn]
           x == <<at, AfterTurn>>
<1>1. /\ InLoop("attach", actions) /\ turn > Len(Attaching.before)
      /\ turn <= Len(Attaching.before) + Len(Attaching.after)
      /\ after' = [after EXCEPT ![u] = Append(@, Attaching)] /\ turn' = turn + 1
      /\ UNCHANGED <<phase, at, actions, before>>
  BY DEF AttachAfter, InAfter
<1>2. /\ TypeOK /\ after \in [Name -> Seq(Action)] /\ phase = "attach"
      /\ at \in DOMAIN actions /\ at \in Nat /\ turn \in Nat \ {0} /\ Attaching \in Action
      /\ Len(Attaching.before) \in Nat
      /\ Len(Attaching.after) \in Nat /\ DOMAIN Attaching.after = 1..Len(Attaching.after)
      /\ DOMAIN Attaching.before = 1..Len(Attaching.before)
      /\ \A k \in DOMAIN Attaching.after : Attaching.after[k] \in Name
  BY <1>1, AttachingFacts DEF IInv, TypeOK
<1>3. AfterTurn \in DOMAIN actions[at].after /\ u \in Name /\ Attaching = actions[at]
  <2>1. PICK b, c \in Nat : b = Len(Attaching.before) /\ c = Len(Attaching.after)
    BY <1>2
  <2>2. turn \in Nat /\ turn > b /\ turn <= b + c
    BY <1>1, <1>2, <2>1
  <2>3. b + c + 1 - turn \in 1..c
    BY <2>2
  <2> QED
    BY <1>2, <2>1, <2>3 DEF Attaching, AfterTurn
<1>4. ASSUME NEW n \in Name, NEW y
      PROVE  /\ y \in Afters(n)' <=> y \in Afters(n) \/ (y = x /\ u = n)
             /\ y \in Befores(n)' <=> y \in Befores(n)
  <2>1. /\ \A j \in DOMAIN actions : \A k \in DOMAIN actions[j].after :
             AfterDone(n, j, k)' <=> AfterDone(n, j, k) \/ (j = at /\ k = AfterTurn /\ u = n)
        /\ \A j \in DOMAIN actions : \A k \in DOMAIN actions[j].before :
             BeforeDone(n, j, k)' <=> BeforeDone(n, j, k)
    <3>1. turn \notin DOMAIN actions[at].before
      BY <1>1, <1>2, <1>3
    <3> QED
      BY <1>1, <1>2, <1>3, <3>1, TurnDone
  <2>2. y \in Befores(n)' <=>
          \E j \in DOMAIN actions : \E k \in DOMAIN actions[j].before :
            y = <<j, k>> /\ BeforeDone(n, j, k)'
    BY <1>1 DEF Befores
  <2>3. y \in Afters(n)' <=>
          \E j \in DOMAIN actions : \E k \in DOMAIN actions[j].after :
            y = <<j, k>> /\ AfterDone(n, j, k)'
    BY <1>1 DEF Afters
  <2>4. y \in Afters(n)' <=> y \in Afters(n) \/ (y = x /\ u = n)
    BY <1>2, <1>3, <2>1, <2>3, DoneFacts
  <2>5. y \in Befores(n)' <=> y \in Befores(n)
    BY <2>1, <2>2, DoneFacts
  <2> QED
    BY <2>4, <2>5
<1>5. \A n \in Name : x \notin Afters(n)
  <2>1. ASSUME NEW n \in Name, x \in Afters(n) PROVE FALSE
    <3>1. AfterDone(n, at, AfterTurn)
      BY <2>1, DoneFacts
    <3>2. PICK b, c \in Nat : b = Len(Attaching.before) /\ c = Len(Attaching.after)
      BY <1>2
    <3>3. ~ (b + c + 1 - (b + c + 1 - turn) < turn)
      BY <1>2
    <3>4. at < at \/ b + c + 1 - (b + c + 1 - turn) < turn
      BY <1>3, <3>1, <3>2 DEF AfterDone, AfterTurn
    <3> QED
      BY <1>2, <3>3, <3>4
  <2> QED
    BY <2>1
<1> HIDE DEF u
<1>6. ASSUME NEW n \in Name
      PROVE  Counts(after[n], Afters(n))' /\ Counts(before[n], Befores(n))'
  <2>1. Counts(after[n], Afters(n)) /\ Counts(before[n], Befores(n))
    BY DEF EachCounted
  <2>2. Befores(n)' = Befores(n)
    BY <1>4
  <2>3. Counts(before[n], Befores(n))'
    BY <1>1, <2>1, <2>2 DEF Counts
  <2>4. CASE n = u
    <3>1. after'[n] = Append(after[n], actions[at]) /\ after[n] \in Seq(Action)
      BY <1>1, <1>2, <1>3, <2>4
    <3>2. Afters(n)' = Afters(n) \cup {x}
      BY <1>4, <2>4
    <3>3. Counts(Append(after[n], actions[at]), Afters(n) \cup {x})
      <4>1. actions[at] \in Action
        BY <1>2, <1>3
      <4> QED
        BY <1>5, <2>1, <3>1, <4>1, CountedMore
    <3>4. Counts(after[n], Afters(n))'
      <4>1. Counts(after'[n], Afters(n)')
        BY <3>1, <3>2, <3>3
      <4> QED
        BY <1>1, <4>1 DEF Counts
    <3> QED
      BY <2>3, <3>4
  <2>5. CASE n # u
    <3>1. after'[n] = after[n]
      BY <1>1, <1>2, <2>5
    <3>2. Afters(n)' = Afters(n)
      BY <1>4, <2>5
    <3>3. Counts(after[n], Afters(n))'
      <4>1. Counts(after'[n], Afters(n)')
        BY <2>1, <3>1, <3>2
      <4> QED
        BY <1>1, <4>1 DEF Counts
    <3> QED
      BY <2>3, <3>3
  <2> QED
    BY <2>4, <2>5
<1> QED
  BY <1>6 DEF EachCounted

LEMMA NextActionCounted ==
  ASSUME IInv, EachCounted, NextAction
  PROVE  EachCounted'
<1>1. /\ InLoop("attach", actions)
      /\ turn > Len(Attaching.before) + Len(Attaching.after)
      /\ at' = at + 1 /\ turn' = 1 /\ UNCHANGED <<phase, actions, before, after>>
  BY DEF NextAction
<1>2. TypeOK /\ phase = "attach" /\ at \in Nat /\ turn \in Nat
  BY <1>1, AttachingFacts DEF IInv
<1>3. ASSUME NEW n \in Name, NEW j \in DOMAIN actions
      PROVE  /\ \A k \in DOMAIN actions[j].before : BeforeDone(n, j, k)' <=> BeforeDone(n, j, k)
             /\ \A k \in DOMAIN actions[j].after : AfterDone(n, j, k)' <=> AfterDone(n, j, k)
  <2>1. PICK b, c \in Nat : /\ b = Len(actions[j].before) /\ c = Len(actions[j].after)
                            /\ DOMAIN actions[j].before = 1..b /\ DOMAIN actions[j].after = 1..c
    BY <1>2, ActionFacts
  <2>2. j \in Nat /\ (j = at => turn > b + c)
    BY <1>1, <1>2, <2>1, ActionFacts DEF Attaching
  <2>3. ASSUME NEW k \in 1..b
        PROVE  (j < at + 1 \/ (j = at + 1 /\ k < 1)) <=> (j < at \/ (j = at /\ k < turn))
    BY <1>2, <2>2
  <2>4. ASSUME NEW k \in 1..c
        PROVE  (j < at + 1 \/ (j = at + 1 /\ b + c + 1 - k < 1))
                 <=> (j < at \/ (j = at /\ b + c + 1 - k < turn))
    BY <1>2, <2>2
  <2>5. \A k \in 1..b : BeforeDone(n, j, k)' <=> BeforeDone(n, j, k)
    BY <1>1, <1>2, <2>3 DEF BeforeDone
  <2>6. \A k \in 1..c : AfterDone(n, j, k)' <=> AfterDone(n, j, k)
    BY <1>1, <1>2, <2>1, <2>4 DEF AfterDone
  <2> QED
    BY <2>1, <2>5, <2>6
<1>4. ASSUME NEW n \in Name PROVE Befores(n)' = Befores(n) /\ Afters(n)' = Afters(n)
  <2>1. \A y : y \in Befores(n)' <=>
          \E j \in DOMAIN actions : \E k \in DOMAIN actions[j].before :
            y = <<j, k>> /\ BeforeDone(n, j, k)'
    BY <1>1 DEF Befores
  <2>2. \A y : y \in Afters(n)' <=>
          \E j \in DOMAIN actions : \E k \in DOMAIN actions[j].after :
            y = <<j, k>> /\ AfterDone(n, j, k)'
    BY <1>1 DEF Afters
  <2>3. \A y : /\ y \in Befores(n)' <=> y \in Befores(n)
               /\ y \in Afters(n)' <=> y \in Afters(n)
    BY <1>3, <2>1, <2>2, DoneFacts
  <2> QED
    BY <2>3
<1> QED
  BY <1>1, <1>4, CountedLate

LEMMA BeginAttachCounted ==
  ASSUME IInv, EachCounted, BeginAttach
  PROVE  EachCounted'
<1>1. /\ phase = "dependencies" /\ at' = 1 /\ turn' = 1 /\ UNCHANGED <<actions, before, after>>
  BY DEF BeginAttach, LoopOver, Registering, Begin
<1>2. ASSUME NEW n \in Name, NEW j \in DOMAIN actions
      PROVE  /\ \A k \in DOMAIN actions[j].before : ~ BeforeDone(n, j, k)'
             /\ \A k \in DOMAIN actions[j].after : ~ AfterDone(n, j, k)'
  <2>1. TypeOK
    BY DEF IInv
  <2>2. PICK b, c \in Nat : /\ b = Len(actions[j].before) /\ c = Len(actions[j].after)
                            /\ DOMAIN actions[j].before = 1..b /\ DOMAIN actions[j].after = 1..c
    BY <2>1, ActionFacts
  <2>3. j \in Nat \ {0}
    BY <2>1, ActionFacts
  <2>4. \A k \in 1..b : ~ (j < 1 \/ (j = 1 /\ k < 1))
    BY <2>3
  <2>5. \A k \in 1..c : ~ (j < 1 \/ (j = 1 /\ b + c + 1 - k < 1))
    <3>1. ASSUME NEW k \in 1..c PROVE b + c + 1 - k >= 1
      OBVIOUS
    <3> QED
      BY <2>3, <3>1
  <2> QED
    BY <1>1, <2>2, <2>4, <2>5 DEF BeforeDone, AfterDone
<1>3. \A n \in Name : Befores(n)' = {} /\ Afters(n)' = {}
  <2>1. ASSUME NEW n \in Name PROVE Befores(n)' = {} /\ Afters(n)' = {}
    <3>1. \A y : y \in Befores(n)' =>
            \E j \in DOMAIN actions : \E k \in DOMAIN actions[j].before : BeforeDone(n, j, k)'
      BY <1>1 DEF Befores
    <3>2. \A y : y \in Afters(n)' =>
            \E j \in DOMAIN actions : \E k \in DOMAIN actions[j].after : AfterDone(n, j, k)'
      BY <1>1 DEF Afters
    <3> QED
      BY <1>2, <3>1, <3>2
  <2> QED
    BY <2>1
<1> QED
  BY <1>1, <1>3, CountedEarly

LEMMA CountedStep ==
  ASSUME IInv, EachCounted, [Next]_vars
  PROVE  EachCounted'
<1>1. ASSUME UNCHANGED <<phase, at, turn, actions, before, after>> PROVE EachCounted'
  <2>1. \A n \in Name : Befores(n)' = Befores(n) /\ Afters(n)' = Afters(n)
    BY <1>1 DEF Befores, Afters, BeforeDone, AfterDone
  <2> QED
    BY <1>1, <2>1, CountedLate
<1>2. ASSUME phase # "attach", phase' # "attach", UNCHANGED <<before, after>> PROVE EachCounted'
  <2>1. \A n \in Name : Befores(n)' = {} /\ Afters(n)' = {}
    BY <1>2 DEF Befores, Afters, BeforeDone, AfterDone
  <2> QED
    BY <1>2, <2>1, CountedEarly
<1>3. CASE UNCHANGED vars
  BY <1>1, <1>3 DEF vars
<1>4. CASE InjectDependency \/ BeginTasks \/ RegisterTask \/ BeginActions \/ RegisterAction
  BY <1>2, <1>4
     DEF InjectDependency, BeginTasks, RegisterTask, BeginActions, RegisterAction, InLoop,
         LoopOver, Registering, Begin
<1>5. CASE RegisterLate \/ FlushPending
  BY <1>2, <1>5 DEF RegisterLate, FlushPending, NextModule, LoopOver, Registering, Begin
<1>6. CASE RejectPending \/ RejectMissing \/ RejectAction \/ Resolved
  BY <1>1, <1>6 DEF RejectPending, RejectMissing, RejectAction, Resolved, Raise
<1>7. CASE AddDependency \/ MergeDependency \/ NextTask
  BY <1>2, <1>7
     DEF AddDependency, MergeDependency, NextTask, Resolve, InDependencies, InLoop, Registering
<1>8. CASE BeginAttach \/ AttachBefore \/ AttachAfter \/ NextAction
  BY <1>8, BeginAttachCounted, AttachBeforeCounted, AttachAfterCounted, NextActionCounted
<1>9. CASE Ended
  BY <1>3, <1>9 DEF Ended
<1> QED
  BY <1>3, <1>4, <1>5, <1>6, <1>7, <1>8, <1>9 DEF Next

\* Pairing the members of D with those of P pairs what is found at the ones
\* with what is found at the others.
LEMMA AsMany ==
  ASSUME NEW D, NEW P, NEW f \in [D -> P],
         \A i, j \in D : f[i] = f[j] => i = j,
         \A p \in P : \E i \in D : f[i] = p,
         NEW h,
         NEW M, IsFiniteSet(M),
         \A x : x \in M <=> \E j \in D : \E k \in h[f[j]] : x = <<j, k>>,
         NEW T,
         \A y : y \in T <=> \E p \in P : \E k \in h[p] : y = <<p, k>>
  PROVE  Cardinality(T) = Cardinality(M)
<1> DEFINE g == [x \in M |-> <<f[x[1]], x[2]>>]
<1>1. ASSUME NEW j \in D, NEW k \in h[f[j]]
      PROVE  <<j, k>> \in M /\ g[<<j, k>>] = <<f[j], k>>
  <2>1. <<j, k>> \in M
    OBVIOUS
  <2> QED
    BY <2>1
<1>2. g \in [M -> T]
  <2>1. ASSUME NEW x \in M PROVE g[x] \in T
    <3>1. PICK j \in D : \E k \in h[f[j]] : x = <<j, k>>
      OBVIOUS
    <3>2. PICK k \in h[f[j]] : x = <<j, k>>
      BY <3>1
    <3>3. g[x] = <<f[j], k>> /\ f[j] \in P
      BY <1>1, <3>2
    <3> QED
      BY <3>3
  <2> QED
    BY <2>1
<1>3. ASSUME NEW x \in M, NEW y \in M, g[x] = g[y] PROVE x = y
  <2>1. PICK j \in D : \E k \in h[f[j]] : x = <<j, k>>
    OBVIOUS
  <2>2. PICK k \in h[f[j]] : x = <<j, k>>
    BY <2>1
  <2>3. PICK i \in D : \E l \in h[f[i]] : y = <<i, l>>
    OBVIOUS
  <2>4. PICK l \in h[f[i]] : y = <<i, l>>
    BY <2>3
  <2>5. <<f[j], k>> = <<f[i], l>>
    BY <1>1, <1>3, <2>2, <2>4
  <2> QED
    BY <2>2, <2>4, <2>5
<1>4. ASSUME NEW y \in T PROVE \E x \in M : g[x] = y
  <2>1. PICK p \in P : \E k \in h[p] : y = <<p, k>>
    OBVIOUS
  <2>2. PICK k \in h[p] : y = <<p, k>>
    BY <2>1
  <2>3. PICK j \in D : f[j] = p
    OBVIOUS
  <2>4. <<j, k>> \in M /\ g[<<j, k>>] = y
    BY <1>1, <2>2, <2>3
  <2> QED
    BY <2>4
<1> HIDE DEF g
<1>5. g \in Bijection(M, T)
  BY <1>2, <1>3, <1>4 DEF Bijection, Injection, Surjection, IsInjective
<1>6. ExistsBijection(M, T)
  BY <1>5 DEF ExistsBijection
<1> QED
  BY <1>6, FS_Bijection

\* What has been attached when the resolution is over.
LEMMA AllAttached ==
  ASSUME IInv, EachPlaced, EachCounted, outcome = "resolved", NEW n \in Name
  PROVE  /\ Len(before[n]) = MentionsBefore(n) /\ Len(after[n]) = MentionsAfter(n)
         /\ Elements(before[n]) = {a \in DeclaredActions : n \in Elements(a.before)}
         /\ Elements(after[n]) = {a \in DeclaredActions : n \in Elements(a.after)}
<1>1. /\ TypeOK /\ phase = "attach" /\ ~ Collecting /\ at > Len(actions) /\ at \in Nat
      /\ module = Len(build) + 1 /\ Len(build) \in Nat /\ DOMAIN build = 1..Len(build)
      /\ DOMAIN actions = 1..Len(actions) /\ Len(actions) \in Nat
      /\ \A m \in DOMAIN build : build[m] \in Module
      /\ \A a \in Action : a \in Elements(actions) <=> a \in DeclaredActions
      /\ \A j \in DOMAIN actions : actions[j] \in Action
  BY AllSeen, BuildFacts DEF IInv, Refusals, Collecting, Position, TypeOK
<1>2. \A j \in DOMAIN actions : j < at
  BY <1>1
<1>3. PICK f \in [DOMAIN actions -> ActionPositions] : Placed(f)
  BY DEF EachPlaced
<1>4. /\ \A i, j \in DOMAIN actions : f[i] = f[j] => i = j
      /\ \A j \in DOMAIN actions : actions[j] = DeclaredAt(f[j])
      /\ \A p \in ActionPositions : \E j \in DOMAIN actions : f[j] = p
  <2>1. \A p \in ActionPositions : SeenAt(p)
    BY <1>1, PlaceTypes DEF SeenAt
  <2> QED
    BY <1>3, <2>1 DEF Placed
<1>5. Elements(actions) = DeclaredActions
  <2>1. DeclaredActions \subseteq Action
    BY <1>1, ModuleFacts DEF DeclaredActions, Elements
  <2>2. Elements(actions) \subseteq Action
    BY <1>1 DEF Elements
  <2> QED
    BY <1>1, <2>1, <2>2
<1>6. \A x : x \in Befores(n) <=>
        \E j \in DOMAIN actions : \E k \in Occurrences(n, actions[j].before) : x = <<j, k>>
  <2>1. \A j \in DOMAIN actions : \A k \in DOMAIN actions[j].before :
          BeforeDone(n, j, k) <=> k \in Occurrences(n, actions[j].before)
    BY <1>1, <1>2 DEF BeforeDone
  <2>2. \A s : Occurrences(n, s) \subseteq DOMAIN s
    BY DEF Occurrences
  <2> QED
    BY <2>1, <2>2, DoneFacts
<1>7. \A x : x \in Afters(n) <=>
        \E j \in DOMAIN actions : \E k \in Occurrences(n, actions[j].after) : x = <<j, k>>
  <2>1. \A j \in DOMAIN actions : \A k \in DOMAIN actions[j].after :
          AfterDone(n, j, k) <=> k \in Occurrences(n, actions[j].after)
    BY <1>1, <1>2 DEF AfterDone
  <2>2. \A s : Occurrences(n, s) \subseteq DOMAIN s
    BY DEF Occurrences
  <2> QED
    BY <2>1, <2>2, DoneFacts
<1>8. Counts(before[n], Befores(n)) /\ Counts(after[n], Afters(n))
  BY DEF EachCounted
<1>9. Len(before[n]) = MentionsBefore(n)
  <2> DEFINE h == [p \in ActionPositions |-> Occurrences(n, DeclaredAt(p).before)]
             T == UNION {{p} \X Occurrences(n, build[p[1]].actions[p[2]].before) : p \in ActionPositions}
  <2>1. \A p \in ActionPositions : h[p] = Occurrences(n, DeclaredAt(p).before)
    OBVIOUS
  <2>2. \A y : y \in T <=> \E p \in ActionPositions : \E k \in h[p] : y = <<p, k>>
    BY DEF DeclaredAt
  <2>3. MentionsBefore(n) = Cardinality(T)
    BY DEF MentionsBefore
  <2> HIDE DEF h, T
  <2>4. \A x : x \in Befores(n) <=> \E j \in DOMAIN actions : \E k \in h[f[j]] : x = <<j, k>>
    <3>1. \A j \in DOMAIN actions : h[f[j]] = Occurrences(n, actions[j].before)
      BY <1>4, <2>1
    <3> QED
      BY <1>6, <3>1
  <2>5. IsFiniteSet(Befores(n)) /\ Len(before[n]) = Cardinality(Befores(n))
    BY <1>8 DEF Counts
  <2>6. Cardinality(T) = Cardinality(Befores(n))
    BY <1>4, <2>2, <2>4, <2>5, AsMany
  <2> QED
    BY <2>3, <2>5, <2>6
<1>10. Len(after[n]) = MentionsAfter(n)
  <2> DEFINE h == [p \in ActionPositions |-> Occurrences(n, DeclaredAt(p).after)]
             T == UNION {{p} \X Occurrences(n, build[p[1]].actions[p[2]].after) : p \in ActionPositions}
  <2>1. \A p \in ActionPositions : h[p] = Occurrences(n, DeclaredAt(p).after)
    OBVIOUS
  <2>2. \A y : y \in T <=> \E p \in ActionPositions : \E k \in h[p] : y = <<p, k>>
    BY DEF DeclaredAt
  <2>3. MentionsAfter(n) = Cardinality(T)
    BY DEF MentionsAfter
  <2> HIDE DEF h, T
  <2>4. \A x : x \in Afters(n) <=> \E j \in DOMAIN actions : \E k \in h[f[j]] : x = <<j, k>>
    <3>1. \A j \in DOMAIN actions : h[f[j]] = Occurrences(n, actions[j].after)
      BY <1>4, <2>1
    <3> QED
      BY <1>7, <3>1
  <2>5. IsFiniteSet(Afters(n)) /\ Len(after[n]) = Cardinality(Afters(n))
    BY <1>8 DEF Counts
  <2>6. Cardinality(T) = Cardinality(Afters(n))
    BY <1>4, <2>2, <2>4, <2>5, AsMany
  <2> QED
    BY <2>3, <2>5, <2>6
<1>11. Elements(before[n]) = {a \in DeclaredActions : n \in Elements(a.before)}
  <2>1. Elements(before[n]) = {actions[x[1]] : x \in Befores(n)}
    BY <1>8 DEF Counts
  <2>2. ASSUME NEW x \in Befores(n)
        PROVE  actions[x[1]] \in Elements(actions) /\ n \in Elements(actions[x[1]].before)
    <3>1. PICK j \in DOMAIN actions : \E k \in Occurrences(n, actions[j].before) : x = <<j, k>>
      BY <1>6
    <3>2. x[1] = j /\ \E k \in DOMAIN actions[j].before : actions[j].before[k] = n
      BY <3>1 DEF Occurrences
    <3> QED
      BY <3>2 DEF Elements
  <2>3. ASSUME NEW a \in Elements(actions), n \in Elements(a.before)
        PROVE  a \in {actions[x[1]] : x \in Befores(n)}
    <3>1. PICK j \in DOMAIN actions : actions[j] = a
      BY DEF Elements
    <3>2. PICK k \in DOMAIN a.before : a.before[k] = n
      BY <2>3 DEF Elements
    <3>3. k \in Occurrences(n, actions[j].before)
      BY <3>1, <3>2 DEF Occurrences
    <3>4. <<j, k>> \in Befores(n) /\ <<j, k>>[1] = j
      BY <1>6, <3>3
    <3> QED
      BY <3>1, <3>4
  <2> QED
    BY <1>5, <2>1, <2>2, <2>3
<1>12. Elements(after[n]) = {a \in DeclaredActions : n \in Elements(a.after)}
  <2>1. Elements(after[n]) = {actions[x[1]] : x \in Afters(n)}
    BY <1>8 DEF Counts
  <2>2. ASSUME NEW x \in Afters(n)
        PROVE  actions[x[1]] \in Elements(actions) /\ n \in Elements(actions[x[1]].after)
    <3>1. PICK j \in DOMAIN actions : \E k \in Occurrences(n, actions[j].after) : x = <<j, k>>
      BY <1>7
    <3>2. x[1] = j /\ \E k \in DOMAIN actions[j].after : actions[j].after[k] = n
      BY <3>1 DEF Occurrences
    <3> QED
      BY <3>2 DEF Elements
  <2>3. ASSUME NEW a \in Elements(actions), n \in Elements(a.after)
        PROVE  a \in {actions[x[1]] : x \in Afters(n)}
    <3>1. PICK j \in DOMAIN actions : actions[j] = a
      BY DEF Elements
    <3>2. PICK k \in DOMAIN a.after : a.after[k] = n
      BY <2>3 DEF Elements
    <3>3. k \in Occurrences(n, actions[j].after)
      BY <3>1, <3>2 DEF Occurrences
    <3>4. <<j, k>> \in Afters(n) /\ <<j, k>>[1] = j
      BY <1>7, <3>3
    <3> QED
      BY <3>1, <3>4
  <2> QED
    BY <1>5, <2>1, <2>2, <2>3
<1> QED
  BY <1>9, <1>10, <1>11, <1>12

\* A registered action is never lost or doubled, whatever it is inserted
\* behind, and each mention of a task in it attaches it once to that task, for
\* any number of modules and actions (register_action, resolve_dependencies).
THEOREM AttachedOnceEach == Spec => []ActionsAttached
<1>1. Init => IInv /\ EachPlaced /\ EachCounted
  BY InitIInv, InitPlaced, InitCounted
<1>2. IInv /\ EachPlaced /\ EachCounted /\ [Next]_vars => (IInv /\ EachPlaced /\ EachCounted)'
  BY NextIInv, PlacedStep, CountedStep
<1>3. IInv /\ EachPlaced /\ EachCounted => ActionsAttached
  BY AllAttached DEF ActionsAttached
<1> QED
  BY <1>1, <1>2, <1>3, PTL DEF Spec

=============================================================================
