--------------------------- MODULE CoverageProofs ---------------------------
(***************************************************************************)
(* For any number of test plugins, plans and environments, and whatever    *)
(* the callables of the build do: the coverage plugin only makes steps of  *)
(* TaskExecution, so all that is proved there holds under it as well, and  *)
(* the tools and overrides in place are those of the measurements under    *)
(* way.                                                                    *)
(*                                                                         *)
(* The strengthening pairs the loops of `coverage` with the open calls     *)
(* they run in: the depths of the loops are the positions of those calls,  *)
(* and all but the one of the innermost call are measuring. It gives that  *)
(* the innermost loop is the one to be popped whenever a call is over.     *)
(*                                                                         *)
(* A second invariant, Accounts, is about builds in which no callable asks *)
(* for a plan: what the coverage_init have registered, the list prepare    *)
(* makes of it and what the loop has measured and has left always are the  *)
(* tests of the plan of the build, each once.                              *)
(***************************************************************************)
EXTENDS Coverage, TaskExecutionProofs

Rising(ls) == \A i, j \in DOMAIN ls : i < j => ls[i].depth < ls[j].depth

Live(ls) == {i \in DOMAIN ls : ls[i].measuring}
AllLive(ls) == \A i \in DOMAIN ls : ls[i].measuring

ToolDepths(ls) == {ls[i].depth : i \in Live(ls)}
EnvDepths(ls, e) == {ls[i].depth : i \in {m \in Live(ls) : ls[m].env = e}}

Balanced(ls, ts, os) ==
  /\ Stacked(ts, ToolDepths(ls))
  /\ \A e \in Env : Stacked(os[e], EnvDepths(ls, e))

\* The loops ls are those of the first n calls of s.
Nested(ls, s, n) ==
  /\ Rising(ls)
  /\ {ls[i].depth : i \in DOMAIN ls} = {d \in 1..n : RunsCoverage(s[d])}

Fits(ls, s) ==
  /\ Rising(ls)
  /\ s = <<>> => ls = <<>>
  /\ s # <<>> => /\ Nested(ls, s, Len(s))
                 /\ \A i \in DOMAIN ls : ls[i].measuring <=> ls[i].depth < Len(s)

----------------------------------------------------------------------------
(* Every step is a step of TaskExecution *)

LEMMA StepOfExecution == [CovNext]_<<vars, coverage>> => [Next]_vars
<1> SUFFICES ASSUME CovNext, ~ UNCHANGED vars PROVE Next
  BY DEF vars
<1>1. CASE \E a \in InitActions : Register(a)
  BY <1>1 DEF Register, Next
<1>2. CASE \E a \in InitActions : PassOver(a)
  BY <1>2 DEF PassOver
<1>3. CASE \E a \in InitActions : RunCoverage(a)
  <2>1. PICK a \in InitActions : RunCoverage(a)
    BY <1>3
  <2>2. Covers[a].task \in Task /\ Covers[a].step \in DOMAIN Steps[Covers[a].task]
    BY CoverageAssumption
  <2>3. ExecuteExecutable(Covers[a].task, Covers[a].step)
    BY <2>1 DEF RunCoverage
  <2> QED
    BY <2>2, <2>3 DEF Next
<1>4. CASE Prepare \/ PrepareRaises \/ EndLoop \/ CoverageRaises
  BY <1>4 DEF Prepare, PrepareRaises, EndLoop, CoverageRaises, Next
<1>5. CASE BeginLoop \/ Within
  BY <1>5 DEF BeginLoop, Within, Next
<1>6. CASE Replan \/ CallReturns \/ CallRaises
  BY <1>6 DEF Replan, CallReturns, CallRaises, Next
<1>7. CASE Interrupt
  BY <1>7 DEF Interrupt, Next
<1>8. CASE CovEnded
  BY <1>8 DEF CovEnded, Ended
<1> QED
  BY <1>1, <1>2, <1>3, <1>4, <1>5, <1>6, <1>7, <1>8 DEF CovNext

----------------------------------------------------------------------------
(* Sequences *)

LEMMA BelowFacts ==
  ASSUME NEW S, NEW s \in Seq(S), s # <<>>
  PROVE  /\ Len(s) \in Nat \ {0} /\ DOMAIN s = 1..Len(s) /\ s[Len(s)] \in S
         /\ Below(s) \in Seq(S) /\ Len(Below(s)) = Len(s) - 1
         /\ DOMAIN Below(s) = 1..(Len(s) - 1)
         /\ \A i \in 1..(Len(s) - 1) : Below(s)[i] = s[i]
<1>1. Len(s) \in Nat \ {0} /\ DOMAIN s = 1..Len(s)
  BY EmptySeq, LenProperties
<1>2. \A i \in 1..Len(s) : s[i] \in S
  BY ElementOfSeq
<1>3. /\ Below(s) \in Seq(S) /\ Len(Below(s)) = Len(s) - 1
      /\ \A i \in 1..(Len(s) - 1) : Below(s)[i] = s[i]
  <2>1. \A i \in 1..(Len(s) - 1) : s[i] \in S
    BY <1>1, <1>2
  <2> QED
    BY <1>1, <2>1, SubSeqProperties DEF Below
<1> QED
  BY <1>1, <1>2, <1>3, LenProperties

LEMMA AppendFacts ==
  ASSUME NEW S, NEW s \in Seq(S), NEW x \in S
  PROVE  /\ Append(s, x) \in Seq(S) /\ Len(s) \in Nat /\ DOMAIN s = 1..Len(s)
         /\ Len(Append(s, x)) = Len(s) + 1 /\ DOMAIN Append(s, x) = 1..(Len(s) + 1)
         /\ \A i \in 1..Len(s) : Append(s, x)[i] = s[i]
         /\ Append(s, x)[Len(s) + 1] = x
BY AppendProperties, LenProperties

\* The greatest of the members is the last one, and can be taken away.
LEMMA Popped ==
  ASSUME NEW s \in Seq(Nat), NEW S, Stacked(s, S), NEW m \in S, \A x \in S : x <= m
  PROVE  /\ s # <<>> /\ s[Len(s)] = m
         /\ Below(s) \in Seq(Nat) /\ Stacked(Below(s), S \ {m})
<1>1. PICK k \in DOMAIN s : s[k] = m
  BY DEF Stacked, Elements
<1>2. s # <<>>
  BY <1>1, EmptySeq, LenProperties
<1>3. /\ Len(s) \in Nat \ {0} /\ DOMAIN s = 1..Len(s)
      /\ Below(s) \in Seq(Nat) /\ DOMAIN Below(s) = 1..(Len(s) - 1)
      /\ \A i \in 1..(Len(s) - 1) : Below(s)[i] = s[i]
  BY <1>2, BelowFacts
<1>4. \A i \in DOMAIN s : s[i] \in S /\ s[i] \in Nat
  BY <1>3, ElementOfSeq DEF Stacked, Elements
<1>5. k = Len(s)
  <2> SUFFICES ASSUME k # Len(s) PROVE FALSE
    OBVIOUS
  <2>1. k < Len(s) /\ Len(s) \in DOMAIN s
    BY <1>3
  <2>2. s[k] < s[Len(s)]
    BY <2>1 DEF Stacked
  <2>3. s[Len(s)] <= m
    BY <2>1, <1>4
  <2> QED
    BY <1>1, <2>1, <2>2, <2>3, <1>4
<1>6. Elements(Below(s)) = S \ {m}
  <2>1. \A i \in 1..(Len(s) - 1) : s[i] \in S /\ s[i] # m
    <3> TAKE i \in 1..(Len(s) - 1)
    <3>1. i \in DOMAIN s /\ k \in DOMAIN s /\ i < k
      BY <1>3, <1>5
    <3>2. s[i] < s[k]
      BY <3>1 DEF Stacked
    <3> QED
      BY <3>1, <3>2, <1>1, <1>4
  <2>2. \A x \in S \ {m} : \E i \in 1..(Len(s) - 1) : s[i] = x
    <3> TAKE x \in S \ {m}
    <3>1. PICK i \in DOMAIN s : s[i] = x
      BY DEF Stacked, Elements
    <3>2. i # k
      BY <3>1, <1>1
    <3> QED
      BY <3>1, <3>2, <1>3, <1>5
  <2>3. Elements(Below(s)) = {s[i] : i \in 1..(Len(s) - 1)}
    BY <1>3 DEF Elements
  <2> QED
    BY <2>1, <2>2, <2>3
<1>7. \A i, j \in DOMAIN Below(s) : i < j => Below(s)[i] < Below(s)[j]
  <2>1. \A i, j \in DOMAIN s : i < j => s[i] < s[j]
    BY DEF Stacked
  <2>2. \A i \in 1..(Len(s) - 1) : i \in 1..Len(s)
    BY <1>3
  <2>3. \A i \in DOMAIN Below(s) : i \in DOMAIN s /\ Below(s)[i] = s[i]
    BY <1>3, <2>2
  <2> QED
    BY <2>1, <2>3
<1> QED
  BY <1>1, <1>2, <1>3, <1>5, <1>6, <1>7 DEF Stacked

\* One that is greater than all can be put on top.
LEMMA Pushed ==
  ASSUME NEW s \in Seq(Nat), NEW S, Stacked(s, S), NEW m \in Nat, \A x \in S : x < m
  PROVE  Append(s, m) \in Seq(Nat) /\ Stacked(Append(s, m), S \cup {m})
<1> DEFINE t == Append(s, m)
<1>1. /\ t \in Seq(Nat) /\ Len(s) \in Nat /\ DOMAIN s = 1..Len(s)
      /\ DOMAIN t = 1..(Len(s) + 1)
      /\ \A i \in 1..Len(s) : t[i] = s[i]
      /\ t[Len(s) + 1] = m
  BY AppendFacts
<1>2. \A i \in 1..Len(s) : s[i] \in S
  BY <1>1 DEF Stacked, Elements
<1>3. Elements(t) = S \cup {m}
  <2>1. Elements(t) = {t[i] : i \in 1..(Len(s) + 1)} /\ S = {s[i] : i \in 1..Len(s)}
    BY <1>1 DEF Elements, Stacked
  <2>2. 1..(Len(s) + 1) = 1..Len(s) \cup {Len(s) + 1}
    BY <1>1
  <2> QED
    BY <2>1, <2>2, <1>1
<1>4. ASSUME NEW i \in DOMAIN t, NEW j \in DOMAIN t, i < j PROVE t[i] < t[j]
  <2>1. i \in 1..Len(s)
    BY <1>1, <1>4
  <2>2. CASE j \in 1..Len(s)
    BY <2>1, <2>2, <1>1, <1>4 DEF Stacked
  <2>3. CASE j = Len(s) + 1
    BY <2>1, <2>3, <1>1, <1>2
  <2> QED
    BY <1>1, <2>2, <2>3
<1> QED
  BY <1>1, <1>3, <1>4 DEF Stacked

\* remove_tool of the last tool of the list.
LEMMA RemovedLast ==
  ASSUME tools \in Seq(Nat), tools # <<>>, NEW S, Stacked(tools, S)
  PROVE  Removed(tools[Len(tools)]) = Below(tools)
<1>1. /\ Len(tools) \in Nat \ {0} /\ DOMAIN tools = 1..Len(tools)
      /\ Below(tools) \in Seq(Nat) /\ DOMAIN Below(tools) = 1..(Len(tools) - 1)
      /\ Len(Below(tools)) = Len(tools) - 1
      /\ \A i \in 1..(Len(tools) - 1) : Below(tools)[i] = tools[i]
  BY BelowFacts
<1>2. \A i \in 1..(Len(tools) - 1) : tools[i] # tools[Len(tools)]
  <2> TAKE i \in 1..(Len(tools) - 1)
  <2>1. tools[i] < tools[Len(tools)]
    <3>1. i \in DOMAIN tools /\ Len(tools) \in DOMAIN tools /\ i < Len(tools)
      BY <1>1
    <3> QED
      BY <3>1 DEF Stacked
  <2>2. tools[i] \in Nat /\ tools[Len(tools)] \in Nat
    BY <1>1, ElementOfSeq
  <2> QED
    BY <2>1, <2>2
<1> DEFINE first(i) == /\ tools[i] = tools[Len(tools)]
                       /\ \A j \in 1..(i - 1) : tools[j] # tools[Len(tools)]
           at == CHOOSE i \in DOMAIN tools : first(i)
<1>3. Len(tools) \in DOMAIN tools /\ first(Len(tools))
  BY <1>1, <1>2
<1>4. \A i \in DOMAIN tools : first(i) => i = Len(tools)
  <2> TAKE i \in DOMAIN tools
  <2>1. i # Len(tools) => i \in 1..(Len(tools) - 1)
    BY <1>1
  <2> QED
    BY <2>1, <1>2
<1>5. at = Len(tools)
  BY <1>3, <1>4
<1>6. Removed(tools[Len(tools)]) =
        [i \in 1..(Len(tools) - 1) |-> IF i < at THEN tools[i] ELSE tools[i + 1]]
  BY DEF Removed
<1>7. Removed(tools[Len(tools)]) = [i \in 1..(Len(tools) - 1) |-> tools[i]]
  <2> HIDE DEF at
  <2>1. \A i \in 1..(Len(tools) - 1) : i < at
    BY <1>1, <1>5
  <2>2. [i \in 1..(Len(tools) - 1) |-> IF i < at THEN tools[i] ELSE tools[i + 1]]
        = [i \in 1..(Len(tools) - 1) |-> tools[i]]
    BY <2>1
  <2> QED
    BY <1>6, <2>2
<1>8. Below(tools) = [i \in 1..(Len(tools) - 1) |-> Below(tools)[i]]
  BY <1>1, LenProperties
<1> QED
  BY <1>1, <1>7, <1>8

----------------------------------------------------------------------------
(* Loops and calls *)

LEMMA LoopFacts ==
  ASSUME NEW ls \in Seq(Loop)
  PROVE  /\ Len(ls) \in Nat /\ DOMAIN ls = 1..Len(ls)
         /\ \A i \in DOMAIN ls : ls[i] \in Loop /\ ls[i].depth \in Nat \ {0}
         /\ ls # <<>> => Len(ls) \in DOMAIN ls
         /\ \A i \in DOMAIN ls : i # Len(ls) => i < Len(ls)
<1>1. Len(ls) \in Nat /\ DOMAIN ls = 1..Len(ls)
  BY LenProperties
<1>2. \A i \in DOMAIN ls : ls[i] \in Loop
  BY <1>1, ElementOfSeq
<1>3. \A i \in DOMAIN ls : ls[i].depth \in Nat \ {0}
  BY <1>2 DEF Loop
<1>4. ls # <<>> => Len(ls) # 0
  BY EmptySeq
<1> QED
  BY <1>1, <1>2, <1>3, <1>4

\* The last loop is the one of the greatest depth.
LEMMA LastIsDeepest ==
  ASSUME NEW ls \in Seq(Loop), ls # <<>>, Rising(ls)
  PROVE  \A i \in DOMAIN ls : i # Len(ls) => ls[i].depth < ls[Len(ls)].depth
BY LoopFacts DEF Rising

\* When the innermost call runs `coverage`, its loop is the last one.
LEMMA OwnLoop ==
  ASSUME NEW ls \in Seq(Loop), NEW s, s # <<>>, Len(s) \in Nat \ {0},
         Fits(ls, s), RunsCoverage(s[Len(s)])
  PROVE  /\ ls # <<>> /\ ls[Len(ls)].depth = Len(s) /\ ~ ls[Len(ls)].measuring
         /\ \A i \in DOMAIN ls : i # Len(ls) => ls[i].depth < Len(s) /\ ls[i].measuring
<1>1. Len(s) \in {d \in 1..Len(s) : RunsCoverage(s[d])}
  OBVIOUS
<1>2. PICK k \in DOMAIN ls : ls[k].depth = Len(s)
  BY <1>1 DEF Fits, Nested
<1>3. ls # <<>> /\ Len(ls) \in DOMAIN ls
  BY <1>2, LoopFacts, EmptySeq
<1>4. \A i \in DOMAIN ls : ls[i].depth \in 1..Len(s)
  BY DEF Fits, Nested
<1>5. \A i \in DOMAIN ls : i # Len(ls) => ls[i].depth < ls[Len(ls)].depth
  BY <1>3, LastIsDeepest DEF Fits
<1>6. k = Len(ls)
  <2>1. k # Len(ls) => ls[k].depth < ls[Len(ls)].depth
    BY <1>5
  <2>2. ls[Len(ls)].depth \in 1..Len(s)
    BY <1>3, <1>4
  <2> QED
    BY <1>2, <2>1, <2>2
<1>7. \A i \in DOMAIN ls : ls[i].measuring <=> ls[i].depth < Len(s)
  BY DEF Fits
<1>8. ~ (Len(s) < Len(s))
  OBVIOUS
<1>9. ls[Len(ls)].depth = Len(s)
  BY <1>2, <1>6
<1>10. ~ ls[Len(ls)].measuring
  BY <1>3, <1>7, <1>8, <1>9
<1> QED
  BY <1>3, <1>5, <1>7, <1>9, <1>10

\* ls are the loops of the calls below the innermost one of s.
Under(ls, s) ==
  /\ Rising(ls) /\ AllLive(ls)
  /\ {ls[i].depth : i \in DOMAIN ls} = {d \in 1..(Len(s) - 1) : RunsCoverage(s[d])}

LEMMA InnerNotCovering ==
  ASSUME NEW ls \in Seq(Loop), NEW s, s # <<>>, Len(s) \in Nat \ {0}
  PROVE  Fits(ls, s) /\ ~ RunsCoverage(s[Len(s)]) <=> Under(ls, s) /\ ~ RunsCoverage(s[Len(s)])
<1>1. ASSUME ~ RunsCoverage(s[Len(s)])
      PROVE  {d \in 1..Len(s) : RunsCoverage(s[d])} = {d \in 1..(Len(s) - 1) : RunsCoverage(s[d])}
  <2>1. \A d : d \in 1..Len(s) <=> d \in 1..(Len(s) - 1) \/ d = Len(s)
    OBVIOUS
  <2> QED
    BY <1>1, <2>1
<1>2. ASSUME Fits(ls, s), ~ RunsCoverage(s[Len(s)]) PROVE Under(ls, s)
  <2>1. {ls[i].depth : i \in DOMAIN ls} = {d \in 1..(Len(s) - 1) : RunsCoverage(s[d])}
    BY <1>1, <1>2 DEF Fits, Nested
  <2>2. \A i \in DOMAIN ls : ls[i].depth \in 1..(Len(s) - 1)
    BY <2>1
  <2>3. \A i \in DOMAIN ls : ls[i].depth < Len(s)
    BY <2>2
  <2> QED
    BY <1>2, <2>1, <2>3 DEF Fits, Under, AllLive
<1>3. ASSUME Under(ls, s), ~ RunsCoverage(s[Len(s)]) PROVE Fits(ls, s)
  <2>1. \A i \in DOMAIN ls : ls[i].depth \in 1..(Len(s) - 1)
    BY <1>3 DEF Under
  <2>2. \A i \in DOMAIN ls : ls[i].depth < Len(s)
    BY <2>1
  <2> QED
    BY <1>1, <1>3, <2>2 DEF Fits, Nested, Under, AllLive
<1> QED
  BY <1>2, <1>3

\* `coverage` ends: its loop is taken away.
LEMMA OwnLoopDropped ==
  ASSUME NEW ls \in Seq(Loop), NEW s, s # <<>>, Len(s) \in Nat \ {0},
         Fits(ls, s), RunsCoverage(s[Len(s)])
  PROVE  Below(ls) \in Seq(Loop) /\ Under(Below(ls), s)
<1>1. /\ ls # <<>> /\ ls[Len(ls)].depth = Len(s)
      /\ \A i \in DOMAIN ls : i # Len(ls) => ls[i].depth < Len(s) /\ ls[i].measuring
  BY OwnLoop
<1>2. /\ Len(ls) \in Nat \ {0} /\ DOMAIN ls = 1..Len(ls)
      /\ Below(ls) \in Seq(Loop) /\ DOMAIN Below(ls) = 1..(Len(ls) - 1)
      /\ \A i \in 1..(Len(ls) - 1) : Below(ls)[i] = ls[i]
  BY <1>1, BelowFacts
<1>3. \A i : i \in DOMAIN Below(ls) <=> i \in DOMAIN ls /\ i # Len(ls)
  BY <1>2
<1>4. Rising(Below(ls))
  BY <1>2, <1>3 DEF Rising, Fits
<1>5. AllLive(Below(ls))
  BY <1>1, <1>2, <1>3 DEF AllLive
<1>6. {Below(ls)[i].depth : i \in DOMAIN Below(ls)} = {d \in 1..(Len(s) - 1) : RunsCoverage(s[d])}
  <2> DEFINE D == {Below(ls)[i].depth : i \in DOMAIN Below(ls)}
  <2>1. {ls[i].depth : i \in DOMAIN ls} = {d \in 1..Len(s) : RunsCoverage(s[d])}
    BY DEF Fits, Nested
  <2>2. ASSUME NEW d \in D PROVE d \in 1..(Len(s) - 1) /\ RunsCoverage(s[d])
    <3>1. PICK i \in DOMAIN ls : i # Len(ls) /\ d = ls[i].depth
      BY <1>2, <1>3
    <3>2. d \in 1..Len(s) /\ RunsCoverage(s[d]) /\ d < Len(s)
      BY <1>1, <2>1, <3>1
    <3> QED
      BY <3>2
  <2>3. ASSUME NEW d \in 1..(Len(s) - 1), RunsCoverage(s[d]) PROVE d \in D
    <3>1. d \in 1..Len(s) /\ d # Len(s)
      OBVIOUS
    <3>2. PICK i \in DOMAIN ls : d = ls[i].depth
      BY <2>1, <2>3, <3>1
    <3> QED
      BY <1>1, <1>2, <1>3, <3>1, <3>2
  <2> QED
    BY <2>2, <2>3
<1> QED
  BY <1>2, <1>4, <1>5, <1>6 DEF Under

----------------------------------------------------------------------------
(* How the calls change *)

\* The innermost call goes on, and starts or ends no run of `coverage`.
LEMMA FitsOn ==
  ASSUME NEW ls, NEW s, NEW t, s # <<>>, t # <<>>, Len(t) = Len(s),
         \A i \in 1..Len(s) : RunsCoverage(t[i]) <=> RunsCoverage(s[i]),
         Fits(ls, s)
  PROVE  Fits(ls, t)
<1>1. {d \in 1..Len(t) : RunsCoverage(t[d])} = {d \in 1..Len(s) : RunsCoverage(s[d])}
  OBVIOUS
<1> QED
  BY <1>1 DEF Fits, Nested

LEMMA UnderOn ==
  ASSUME NEW ls, NEW s, NEW t, Len(t) = Len(s), Len(s) \in Nat \ {0},
         \A i \in 1..(Len(s) - 1) : t[i] = s[i],
         Under(ls, s)
  PROVE  Under(ls, t)
BY DEF Under

\* A callable other than `coverage` makes a call.
LEMMA FitsCall ==
  ASSUME NEW ls \in Seq(Loop), NEW s \in Seq(Call), s # <<>>,
         Fits(ls, s), ~ RunsCoverage(s[Len(s)]),
         NEW c \in Call, ~ RunsCoverage(c)
  PROVE  Fits(ls, Append(s, c))
<1>1. /\ Len(s) \in Nat \ {0} /\ Len(Append(s, c)) = Len(s) + 1
      /\ \A i \in 1..Len(s) : Append(s, c)[i] = s[i]
      /\ Append(s, c)[Len(s) + 1] = c
  BY AppendFacts, EmptySeq
<1>2. Append(s, c) # <<>>
  BY <1>1, EmptySeq
<1>3. Under(ls, s)
  BY <1>1, InnerNotCovering
<1>4. {d \in 1..(Len(s) + 1 - 1) : RunsCoverage(Append(s, c)[d])}
        = {d \in 1..Len(s) : RunsCoverage(s[d])}
  BY <1>1
<1>5. Under(ls, Append(s, c))
  BY <1>1, <1>3, <1>4 DEF Under, Fits, Nested
<1>6. Len(Append(s, c)) \in Nat \ {0} /\ ~ RunsCoverage(Append(s, c)[Len(Append(s, c))])
  BY <1>1
<1> QED
  BY <1>2, <1>5, <1>6, InnerNotCovering

\* Of two positions in order, the first is not the last of all.
LEMMA FirstNotLast ==
  ASSUME NEW n \in Nat, NEW i \in 1..(n + 1), NEW j \in 1..(n + 1), i < j
  PROVE  i \in 1..n /\ (j \in 1..n \/ j = n + 1)
OBVIOUS

\* `coverage` starts: its loop is the last one.
LEMMA FitsBegin ==
  ASSUME NEW ls \in Seq(Loop), NEW s, NEW t, s # <<>>, t # <<>>,
         Len(t) = Len(s), Len(s) \in Nat \ {0},
         \A i \in 1..(Len(s) - 1) : t[i] = s[i],
         Fits(ls, s), ~ RunsCoverage(s[Len(s)]), RunsCoverage(t[Len(s)]),
         NEW l \in Loop, l.depth = Len(s), ~ l.measuring
  PROVE  Fits(Append(ls, l), t)
<1> DEFINE ms == Append(ls, l)
<1>1. /\ Len(ls) \in Nat /\ DOMAIN ls = 1..Len(ls) /\ DOMAIN ms = 1..(Len(ls) + 1)
      /\ \A i \in 1..Len(ls) : ms[i] = ls[i]
      /\ ms[Len(ls) + 1] = l
  BY AppendFacts
<1>2. Under(ls, s)
  BY InnerNotCovering
<1>3. \A i \in 1..Len(ls) : ls[i].depth \in 1..(Len(s) - 1)
  BY <1>1, <1>2 DEF Under
<1>4. \A i \in 1..Len(ls) : ls[i].depth < Len(s)
  BY <1>3
<1>5. Rising(ms)
  <2> SUFFICES ASSUME NEW i \in 1..(Len(ls) + 1), NEW j \in 1..(Len(ls) + 1), i < j
               PROVE  ms[i].depth < ms[j].depth
    BY <1>1 DEF Rising
  <2> HIDE DEF ms
  <2>0. Len(ls) \in Nat /\ i \in 1..(Len(ls) + 1) /\ j \in 1..(Len(ls) + 1) /\ i < j
    BY <1>1
  <2>1. i \in 1..Len(ls)
    BY <2>0, FirstNotLast, Zenon
  <2>2. CASE j \in 1..Len(ls)
    BY <2>1, <2>2, <1>1, <1>2 DEF Under, Rising
  <2>3. CASE j = Len(ls) + 1
    BY <2>1, <2>3, <1>1, <1>4
  <2>4. j \in 1..Len(ls) \/ j = Len(ls) + 1
    BY <2>0, FirstNotLast, Zenon
  <2> QED
    BY <2>2, <2>3, <2>4
<1>6. {ms[i].depth : i \in DOMAIN ms} = {d \in 1..Len(t) : RunsCoverage(t[d])}
  <2>1. {ms[i].depth : i \in DOMAIN ms} = {ls[i].depth : i \in DOMAIN ls} \cup {Len(s)}
    <3>1. 1..(Len(ls) + 1) = 1..Len(ls) \cup {Len(ls) + 1}
      BY <1>1
    <3> QED
      BY <1>1, <3>1
  <2>2. {d \in 1..Len(t) : RunsCoverage(t[d])}
          = {d \in 1..(Len(s) - 1) : RunsCoverage(s[d])} \cup {Len(s)}
    <3>1. 1..Len(t) = 1..(Len(s) - 1) \cup {Len(s)}
      OBVIOUS
    <3> QED
      BY <3>1
  <2> QED
    BY <1>2, <2>1, <2>2 DEF Under
<1>7. \A i \in DOMAIN ms : ms[i].measuring <=> ms[i].depth < Len(t)
  <2> TAKE i \in DOMAIN ms
  <2>1. CASE i \in 1..Len(ls)
    BY <2>1, <1>1, <1>2, <1>4 DEF Under, AllLive
  <2>2. CASE i = Len(ls) + 1
    BY <2>2, <1>1
  <2> QED
    BY <1>1, <2>1, <2>2
<1> QED
  BY <1>5, <1>6, <1>7 DEF Fits, Nested

\* run_coverage calls execute_task: the last loop becomes a measuring one.
LEMMA FitsMeasure ==
  ASSUME NEW ls \in Seq(Loop), NEW s \in Seq(Call), s # <<>>,
         Fits(ls, s), RunsCoverage(s[Len(s)]),
         NEW c \in Call, ~ RunsCoverage(c),
         NEW l, l.depth = Len(s), l.measuring
  PROVE  Fits([ls EXCEPT ![Len(ls)] = l], Append(s, c))
<1> DEFINE ms == [ls EXCEPT ![Len(ls)] = l]
<1>1. /\ Len(s) \in Nat \ {0} /\ Len(Append(s, c)) = Len(s) + 1
      /\ \A i \in 1..Len(s) : Append(s, c)[i] = s[i]
      /\ Append(s, c)[Len(s) + 1] = c
  BY AppendFacts, EmptySeq
<1>2. /\ ls # <<>> /\ ls[Len(ls)].depth = Len(s)
      /\ \A i \in DOMAIN ls : i # Len(ls) => ls[i].depth < Len(s) /\ ls[i].measuring
  BY <1>1, OwnLoop
<1>3. /\ DOMAIN ms = DOMAIN ls /\ Len(ls) \in DOMAIN ls
      /\ ms[Len(ls)] = l /\ \A i \in DOMAIN ls : i # Len(ls) => ms[i] = ls[i]
  BY <1>2, LoopFacts
<1>4. \A i \in DOMAIN ls : ms[i].depth = ls[i].depth
  BY <1>2, <1>3
<1>5. Rising(ms) /\ {ms[i].depth : i \in DOMAIN ms} = {ls[i].depth : i \in DOMAIN ls}
  BY <1>3, <1>4 DEF Fits, Rising
<1>6. {d \in 1..(Len(s) + 1) : RunsCoverage(Append(s, c)[d])}
        = {d \in 1..Len(s) : RunsCoverage(s[d])}
  <2>1. 1..(Len(s) + 1) = 1..Len(s) \cup {Len(s) + 1}
    BY <1>1
  <2> QED
    BY <1>1, <2>1
<1>7. \A i \in DOMAIN ls : ms[i].measuring /\ ms[i].depth < Len(s) + 1
  <2>1. \A i \in DOMAIN ls : ms[i].measuring
    BY <1>2, <1>3
  <2>2. \A i \in DOMAIN ls : ms[i].depth \in Nat /\ ms[i].depth <= Len(s)
    BY <1>1, <1>2, <1>4, LoopFacts
  <2> QED
    BY <2>1, <2>2, <1>1
<1>8. Append(s, c) # <<>>
  BY <1>1, EmptySeq
<1> QED
  BY <1>1, <1>3, <1>5, <1>6, <1>7, <1>8 DEF Fits, Nested

\* The innermost call is over, and the call below it goes on.
LEMMA FitsOuter ==
  ASSUME NEW ls \in Seq(Loop), NEW s \in Seq(Call), s # <<>>, Under(ls, s),
         NEW t, t = SubSeq(s, 1, Len(s) - 1)
  PROVE  /\ t = <<>> => ls = <<>>
         /\ (ls = <<>> \/ ls[Len(ls)].depth # Len(s) - 1) => Fits(ls, t)
         /\ \A l : /\ ls # <<>> /\ ls[Len(ls)].depth = Len(s) - 1
                   /\ l.depth = Len(s) - 1 /\ ~ l.measuring
                   => Fits([ls EXCEPT ![Len(ls)] = l], t)
<1>1. /\ Len(s) \in Nat \ {0} /\ Len(t) = Len(s) - 1
      /\ \A i \in 1..(Len(s) - 1) : t[i] = s[i]
      /\ t \in Seq(Call)
  BY BelowFacts DEF Below
<1>2. t = <<>> <=> Len(s) = 1
  <2>1. t = <<>> <=> Len(t) = 0
    BY <1>1, EmptySeq
  <2> QED
    BY <1>1, <2>1
<1>3. {ls[i].depth : i \in DOMAIN ls} = {d \in 1..Len(t) : RunsCoverage(t[d])}
  BY <1>1 DEF Under
<1>4. \A i \in DOMAIN ls : ls[i].depth \in 1..Len(t) /\ ls[i].measuring
  BY <1>3 DEF Under, AllLive
<1>5. t = <<>> => ls = <<>>
  <2> SUFFICES ASSUME t = <<>>, ls # <<>> PROVE FALSE
    OBVIOUS
  <2>1. ls[Len(ls)].depth \in 1..0
    BY <1>1, <1>2, <1>4, LoopFacts
  <2> QED
    BY <2>1
<1>6. ls # <<>> => \A i \in DOMAIN ls : i # Len(ls) => ls[i].depth < ls[Len(ls)].depth
  BY LastIsDeepest DEF Under
<1>7. ASSUME ls = <<>> \/ ls[Len(ls)].depth # Len(s) - 1 PROVE Fits(ls, t)
  <2>1. \A i \in DOMAIN ls : ls[i].depth < Len(t)
    <3> TAKE i \in DOMAIN ls
    <3>1. ls # <<>>
      BY LoopFacts, EmptySeq
    <3>2. ls[Len(ls)].depth \in 1..Len(t) /\ ls[Len(ls)].depth # Len(t)
      BY <3>1, <1>1, <1>4, <1>7, LoopFacts
    <3>3. ls[Len(ls)].depth < Len(t)
      BY <3>2, <1>1
    <3> QED
      BY <3>1, <3>3, <1>1, <1>4, <1>6
  <2> QED
    BY <1>3, <1>4, <1>5, <2>1 DEF Fits, Nested, AllLive, Under
<1>8. ASSUME NEW l, ls # <<>>, ls[Len(ls)].depth = Len(s) - 1,
             l.depth = Len(s) - 1, ~ l.measuring
      PROVE  Fits([ls EXCEPT ![Len(ls)] = l], t)
  <2> DEFINE ms == [ls EXCEPT ![Len(ls)] = l]
  <2>1. /\ DOMAIN ms = DOMAIN ls /\ Len(ls) \in DOMAIN ls
        /\ ms[Len(ls)] = l /\ \A i \in DOMAIN ls : i # Len(ls) => ms[i] = ls[i]
    BY <1>8, LoopFacts
  <2>2. \A i \in DOMAIN ls : ms[i].depth = ls[i].depth
    BY <1>8, <2>1
  <2>3. Rising(ms) /\ {ms[i].depth : i \in DOMAIN ms} = {ls[i].depth : i \in DOMAIN ls}
    BY <2>1, <2>2 DEF Under, Rising
  <2>4. \A i \in DOMAIN ms : ms[i].measuring <=> ms[i].depth < Len(t)
    <3> TAKE i \in DOMAIN ms
    <3>1. CASE i = Len(ls)
      <4>1. ~ (Len(t) < Len(t))
        BY <1>1
      <4> QED
        BY <3>1, <4>1, <2>1, <1>1, <1>8
    <3>2. CASE i # Len(ls)
      BY <3>2, <2>1, <1>1, <1>4, <1>6, <1>8
    <3> QED
      BY <3>1, <3>2
  <2>5. t # <<>>
    BY <1>5, <1>8
  <2> QED
    BY <1>3, <2>3, <2>4, <2>5 DEF Fits, Nested
<1> QED
  BY <1>5, <1>7, <1>8

----------------------------------------------------------------------------
(* Tools and overrides *)

Typed(ts, os) == ts \in Seq(Nat) /\ os \in [Env -> Seq(Nat)]

\* A loop that is not measuring has no part in what is in place.
LEMMA SameLive ==
  ASSUME NEW ls, NEW ms, Live(ms) = Live(ls),
         \A i \in Live(ls) : ms[i].depth = ls[i].depth /\ ms[i].env = ls[i].env,
         NEW ts, NEW os, Balanced(ls, ts, os)
  PROVE  Balanced(ms, ts, os)
<1>1. ToolDepths(ms) = ToolDepths(ls)
  BY DEF ToolDepths
<1>2. \A e : EnvDepths(ms, e) = EnvDepths(ls, e)
  BY DEF EnvDepths
<1> QED
  BY <1>1, <1>2 DEF Balanced

\* The last loop is no longer measuring, and its `finally` are done.
LEMMA OneLess ==
  ASSUME NEW ls \in Seq(Loop), ls # <<>>, Rising(ls), ls[Len(ls)].measuring,
         NEW ms, Live(ms) = Live(ls) \ {Len(ls)},
         \A i \in Live(ms) : ms[i].depth = ls[i].depth /\ ms[i].env = ls[i].env,
         Typed(tools, overrides), Balanced(ls, tools, overrides), Finally(ls)
  PROVE  Typed(tools', overrides') /\ Balanced(ms, tools', overrides')
<1> DEFINE m == ls[Len(ls)].depth
           v == ls[Len(ls)].env
<1>1. /\ Len(ls) \in Live(ls) /\ ls[Len(ls)] \in Loop /\ m \in Nat
      /\ \A i \in Live(ls) : i \in DOMAIN ls /\ ls[i].depth \in Nat
  BY LoopFacts DEF Live
<1>2. \A i \in Live(ls) : i # Len(ls) => ls[i].depth < m
  BY <1>1, LastIsDeepest
<1>3. \A i \in Live(ls) : ls[i].depth = m <=> i = Len(ls)
  <2> TAKE i \in Live(ls)
  <2>1. i # Len(ls) => ls[i].depth < m
    BY <1>2
  <2>2. ls[i].depth < m => ls[i].depth # m
    BY <1>1
  <2> QED
    BY <2>1, <2>2
<1>4. \A x \in ToolDepths(ls) : x <= m
  <2> SUFFICES ASSUME NEW i \in Live(ls) PROVE ls[i].depth <= m
    BY DEF ToolDepths
  <2>1. ls[i].depth < m \/ ls[i].depth = m
    BY <1>2
  <2> QED
    BY <2>1, <1>1
<1> HIDE DEF m, v
<1>5. ToolDepths(ms) = ToolDepths(ls) \ {m} /\ m \in ToolDepths(ls)
  BY <1>1, <1>3 DEF ToolDepths, m
<1>6. /\ tools # <<>> /\ tools[Len(tools)] = m
      /\ Below(tools) \in Seq(Nat) /\ Stacked(Below(tools), ToolDepths(ms))
  <2>1. tools \in Seq(Nat) /\ Stacked(tools, ToolDepths(ls))
    BY DEF Typed, Balanced
  <2>2. /\ tools # <<>> /\ tools[Len(tools)] = m
        /\ Below(tools) \in Seq(Nat) /\ Stacked(Below(tools), ToolDepths(ls) \ {m})
    BY <2>1, <1>4, <1>5, Popped
  <2> QED
    BY <2>2, <1>5
<1>7. tools' = Below(tools)
  <2>1. tools' = Removed(m)
    BY DEF Finally, m
  <2>2. Removed(tools[Len(tools)]) = Below(tools)
    BY <1>6, RemovedLast DEF Typed, Balanced
  <2> QED
    BY <1>6, <2>1, <2>2
<1>8. \A e : e # v => EnvDepths(ms, e) = EnvDepths(ls, e)
  BY <1>1 DEF EnvDepths, v
<1>9. EnvDepths(ms, v) = EnvDepths(ls, v) \ {m} /\ m \in EnvDepths(ls, v)
  BY <1>1, <1>3 DEF EnvDepths, m, v
<1>10. EnvDepths(ls, v) \subseteq ToolDepths(ls)
  BY DEF EnvDepths, ToolDepths
<1>11. overrides' \in [Env -> Seq(Nat)] /\ \A e \in Env : Stacked(overrides'[e], EnvDepths(ms, e))
  <2>1. v \in Env \cup {NoEnv}
    BY <1>1 DEF Loop, v
  <2>2. CASE v = NoEnv
    <3>1. overrides' = overrides /\ NoEnv \notin Env
      BY <2>2, CoverageAssumption DEF Finally, v
    <3> QED
      BY <2>2, <3>1, <1>8 DEF Typed, Balanced
  <2>3. CASE v \in Env
    <3>1. overrides' = [overrides EXCEPT ![v] = Below(@)]
      BY <2>3, CoverageAssumption DEF Finally, v
    <3>2. overrides[v] \in Seq(Nat) /\ Stacked(overrides[v], EnvDepths(ls, v))
      BY <2>3 DEF Typed, Balanced
    <3>3. Below(overrides[v]) \in Seq(Nat) /\ Stacked(Below(overrides[v]), EnvDepths(ms, v))
      <4>1. \A x \in EnvDepths(ls, v) : x <= m
        BY <1>4, <1>10
      <4>2. /\ Below(overrides[v]) \in Seq(Nat)
            /\ Stacked(Below(overrides[v]), EnvDepths(ls, v) \ {m})
        BY <3>2, <4>1, <1>9, Popped
      <4> QED
        BY <4>2, <1>9
    <3>4. overrides' \in [Env -> Seq(Nat)]
      BY <3>1, <3>3 DEF Typed
    <3>5. ASSUME NEW e \in Env PROVE Stacked(overrides'[e], EnvDepths(ms, e))
      <4>1. CASE e = v
        BY <4>1, <2>3, <3>1, <3>3 DEF Typed
      <4>2. CASE e # v
        BY <4>2, <2>3, <3>1, <1>8 DEF Typed, Balanced
      <4> QED
        BY <4>1, <4>2
    <3> QED
      BY <3>4, <3>5
  <2> QED
    BY <2>1, <2>2, <2>3
<1> QED
  BY <1>6, <1>7, <1>11 DEF Typed, Balanced

\* The environment v is overridden at depth d.
Overridden(os, v, d) == IF v = NoEnv THEN os ELSE [os EXCEPT ![v] = Append(@, d)]

\* The loop k, alone, measures in ms but not in ls: at the depth m, greater than
\* all that measure, and with the environment v.
Joined(ls, ms, k, m, v) ==
  /\ Live(ms) = Live(ls) \cup {k} /\ k \notin Live(ls)
  /\ \A i \in Live(ls) : ms[i].depth = ls[i].depth /\ ms[i].env = ls[i].env
  /\ m \in Nat /\ ms[k].depth = m
  /\ v \in Env \cup {NoEnv} /\ ms[k].env = v
  /\ \A i \in Live(ls) : ls[i].depth < m

\* One more loop measures, and its tool and its override are put on top.
LEMMA OneMore ==
  ASSUME NEW ls, NEW ms, NEW k, NEW m, NEW v, Joined(ls, ms, k, m, v),
         NEW ts, NEW os, Typed(ts, os), Balanced(ls, ts, os),
         NEW tt, tt = Append(ts, m), NEW oo, oo = Overridden(os, v, m)
  PROVE  Typed(tt, oo) /\ Balanced(ms, tt, oo)
<1> USE DEF Joined
<1>1. ToolDepths(ms) = ToolDepths(ls) \cup {m}
  BY DEF ToolDepths
<1>2. \A e : e # v => EnvDepths(ms, e) = EnvDepths(ls, e)
  BY DEF EnvDepths
<1>3. EnvDepths(ms, v) = EnvDepths(ls, v) \cup {m}
  BY DEF EnvDepths
<1>4. \A x \in ToolDepths(ls) : x < m
  BY DEF ToolDepths
<1>5. EnvDepths(ls, v) \subseteq ToolDepths(ls)
  BY DEF EnvDepths, ToolDepths
<1>6. tt \in Seq(Nat) /\ Stacked(tt, ToolDepths(ms))
  <2>1. ts \in Seq(Nat) /\ Stacked(ts, ToolDepths(ls))
    BY DEF Typed, Balanced
  <2>2. Append(ts, m) \in Seq(Nat) /\ Stacked(Append(ts, m), ToolDepths(ls) \cup {m})
    BY <1>4, <2>1, Pushed
  <2> QED
    BY <1>1, <2>2
<1>7. oo \in [Env -> Seq(Nat)] /\ \A e \in Env : Stacked(oo[e], EnvDepths(ms, e))
  <2>1. CASE v = NoEnv
    <3>1. oo = os /\ NoEnv \notin Env
      BY <2>1, CoverageAssumption DEF Overridden
    <3> QED
      BY <2>1, <3>1, <1>2 DEF Typed, Balanced
  <2>2. CASE v \in Env
    <3>1. oo = [os EXCEPT ![v] = Append(@, m)]
      BY <2>2, CoverageAssumption DEF Overridden
    <3>2. os[v] \in Seq(Nat) /\ Stacked(os[v], EnvDepths(ls, v))
      BY <2>2 DEF Typed, Balanced
    <3>3. \A x \in EnvDepths(ls, v) : x < m
      BY <1>4, <1>5
    <3>4. Append(os[v], m) \in Seq(Nat) /\ Stacked(Append(os[v], m), EnvDepths(ms, v))
      BY <3>2, <3>3, <1>3, Pushed
    <3>5. oo \in [Env -> Seq(Nat)]
      BY <3>1, <3>4 DEF Typed
    <3>6. ASSUME NEW e \in Env PROVE Stacked(oo[e], EnvDepths(ms, e))
      <4>1. CASE e = v
        BY <4>1, <2>2, <3>1, <3>4 DEF Typed
      <4>2. CASE e # v
        BY <4>2, <2>2, <3>1, <1>2 DEF Typed, Balanced
      <4> QED
        BY <4>1, <4>2
    <3> QED
      BY <3>5, <3>6
  <2> QED
    BY <2>1, <2>2
<1> QED
  BY <1>6, <1>7 DEF Typed, Balanced

----------------------------------------------------------------------------
(* The steps *)

PluginOK ==
  /\ coverage_tasks \in Seq(InitActions) /\ covered_tasks \in Seq(InitActions)
  /\ prepared \in BOOLEAN /\ replanned \in BOOLEAN
  /\ python_env \in [InitActions -> Env \cup {NoEnv}]

Core ==
  /\ Typed(tools, overrides)
  /\ loops \in Seq(Loop)
  /\ Fits(loops, calls)
  /\ Balanced(loops, tools, overrides)

LEMMA PluginStep ==
  ASSUME PluginOK, CovNext
  PROVE  PluginOK'
<1>1. CASE \E a \in InitActions : Register(a)
  <2>1. PICK a \in InitActions : Register(a)
    BY <1>1
  <2>2. OwnEnv[a] \in Env \cup {NoEnv}
    BY CoverageAssumption
  <2>3. Append(coverage_tasks, a) \in Seq(InitActions)
    BY AppendProperties DEF PluginOK
  <2> QED
    BY <2>1, <2>2, <2>3 DEF Register, PluginOK
<1>2. CASE Prepare \/ PrepareRaises
  <2>1. DefaultEnv \in Env
    BY CoverageAssumption
  <2>2. \A n : Configure(n) => /\ covered_tasks' \in Seq(InitActions) /\ prepared' \in BOOLEAN
                               /\ python_env' \in [InitActions -> Env \cup {NoEnv}]
    BY <2>1 DEF Configure, PluginOK
  <2> QED
    BY <1>2, <2>2 DEF Prepare, PrepareRaises, PluginOK
<1>3. CASE UNCHANGED plugin /\ replanned' \in {replanned, TRUE}
  BY <1>3 DEF PluginOK, plugin
<1>4. \/ \E a \in InitActions : Register(a)
      \/ Prepare \/ PrepareRaises
      \/ UNCHANGED plugin /\ replanned' \in {replanned, TRUE}
  BY DEF CovNext, PassOver, RunCoverage, BeginLoop, EndLoop, CoverageRaises, Within, Replan,
         CallReturns, CallRaises, Interrupt, CovEnded, coverage
<1> QED
  BY <1>1, <1>2, <1>3, <1>4

\* The innermost call becomes d.
LEMMA InnerChanged ==
  ASSUME IInv, Open, NEW d, Becomes(d)
  PROVE  /\ calls # <<>> /\ calls' # <<>>
         /\ Len(calls) \in Nat \ {0} /\ Len(calls') = Len(calls)
         /\ \A i \in 1..(Len(calls) - 1) : calls'[i] = calls[i]
         /\ calls'[Len(calls)] = d
<1>1. calls \in Seq(Call) /\ calls # <<>> /\ Len(calls) \in Nat \ {0}
      /\ DOMAIN calls = 1..Len(calls)
  BY Now, LenProperties
<1>2. /\ Len(calls) \in 1..Len(calls)
      /\ \A i \in 1..(Len(calls) - 1) : i \in 1..Len(calls) /\ i # Len(calls)
  <2>1. Len(calls) \in Nat \ {0}
    BY <1>1
  <2> QED
    BY <2>1
<1>3. Len(calls') = Len(calls) /\ DOMAIN calls' = 1..Len(calls)
  BY <1>1 DEF Becomes
<1>4. calls' # <<>>
  BY <1>1, <1>3
<1> QED
  BY <1>1, <1>2, <1>3, <1>4 DEF Becomes

LEMMA GoesOn ==
  ASSUME IInv, Core, Open, NEW d, Becomes(d), RunsCoverage(d) <=> RunsCoverage(Inner),
         UNCHANGED <<tools, overrides, loops, result>>
  PROVE  Core'
<1>1. /\ calls # <<>> /\ calls' # <<>>
      /\ Len(calls) \in Nat \ {0} /\ Len(calls') = Len(calls)
      /\ \A i \in 1..(Len(calls) - 1) : calls'[i] = calls[i]
      /\ calls'[Len(calls)] = d
  BY InnerChanged
<1>2. \A i \in 1..Len(calls) : RunsCoverage(calls'[i]) <=> RunsCoverage(calls[i])
  <2> TAKE i \in 1..Len(calls)
  <2>1. i \in 1..(Len(calls) - 1) \/ i = Len(calls)
    BY <1>1
  <2> QED
    BY <2>1, <1>1 DEF Inner
<1>3. PICK s, t : s = calls /\ t = calls'
  OBVIOUS
<1>4. Fits(loops, t)
  BY <1>1, <1>2, <1>3, FitsOn DEF Core
<1>5. Typed(tools', overrides') /\ Balanced(loops', tools', overrides') /\ Fits(loops', calls')
  BY <1>3, <1>4 DEF Core
<1> QED
  BY <1>5 DEF Core

\* The innermost call is over, ls being the loops that are left.
LEMMA CallOverStep ==
  ASSUME IInv, Open, Typed(tools, overrides),
         NEW ls \in Seq(Loop), Under(ls, calls), Balanced(ls, tools, overrides),
         NEW how \in {"succeeded", "failed", "interrupted"}, Leave(how), CallOver(ls, how)
  PROVE  Core'
<1>1. calls \in Seq(Call) /\ calls # <<>> /\ Len(calls) \in Nat \ {0} /\ result = "running"
  BY Now DEF IInv, RootInv
<1>2. PICK t : t = SubSeq(calls, 1, Len(calls) - 1)
  OBVIOUS
<1>3. /\ t = <<>> => ls = <<>>
      /\ (ls = <<>> \/ ls[Len(ls)].depth # Len(calls) - 1) => Fits(ls, t)
      /\ \A l : /\ ls # <<>> /\ ls[Len(ls)].depth = Len(calls) - 1
                /\ l.depth = Len(calls) - 1 /\ ~ l.measuring
                => Fits([ls EXCEPT ![Len(ls)] = l], t)
  BY <1>1, <1>2, FitsOuter
<1>4. calls' = t
  BY <1>2 DEF Leave, Outer
<1>5. Len(calls) = 1 => t = <<>>
  <2> SUFFICES ASSUME Len(calls) = 1 PROVE t = <<>>
    OBVIOUS
  <2>1. t \in Seq(Call) /\ Len(t) = Len(calls) - 1
    BY <1>1, <1>2, BelowFacts DEF Below
  <2>2. Len(t) = 0
    BY <2>1
  <2> QED
    BY <2>1, <2>2, EmptySeq
<1>7. CASE ls # <<>> /\ ls[Len(ls)].depth = Len(calls) - 1
  <2> DEFINE l == [ls[Len(ls)] EXCEPT !.measuring = FALSE, !.env = NoEnv,
                                      !.failed = how # "succeeded",
                                      !.interrupt = how = "interrupted"]
             ms == [ls EXCEPT ![Len(ls)] = l]
  <2>1. /\ Len(ls) \in DOMAIN ls /\ ls[Len(ls)] \in Loop
    BY <1>7, LoopFacts
  <2>2. l \in Loop /\ l.depth = Len(calls) - 1 /\ ~ l.measuring
    BY <2>1, <1>7 DEF Loop
  <2>3. loops' = ms /\ Finally(ls)
    BY <1>7 DEF CallOver
  <2> HIDE DEF l
  <2>4. /\ DOMAIN ms = DOMAIN ls /\ ms[Len(ls)] = l
        /\ \A i \in DOMAIN ls : i # Len(ls) => ms[i] = ls[i]
    BY <2>1
  <2>5. ms \in Seq(Loop)
    BY <2>1, <2>2
  <2>6. Live(ms) = Live(ls) \ {Len(ls)}
    BY <2>2, <2>4 DEF Live
  <2>7. \A i \in Live(ms) : ms[i].depth = ls[i].depth /\ ms[i].env = ls[i].env
    BY <2>4, <2>6 DEF Live
  <2>8. Rising(ls) /\ ls[Len(ls)].measuring
    BY <2>1 DEF Under, AllLive
  <2>9. Fits(ms, t)
    BY <1>3, <1>7, <2>2
  <2> HIDE DEF ms
  <2>10. Typed(tools', overrides') /\ Balanced(ms, tools', overrides')
    BY <1>7, <2>3, <2>6, <2>7, <2>8, OneLess
  <2> QED
    BY <1>4, <2>3, <2>5, <2>9, <2>10 DEF Core
<1>8. CASE ~ (ls # <<>> /\ ls[Len(ls)].depth = Len(calls) - 1)
  <2>1. loops' = ls /\ UNCHANGED <<tools, overrides>>
    BY <1>8 DEF CallOver
  <2>2. Fits(ls, t)
    BY <1>3, <1>8
  <2> QED
    BY <1>4, <2>1, <2>2 DEF Core
<1> QED
  BY <1>7, <1>8

\* A call that is not the one of a `coverage` is over.
LEMMA OtherCallOver ==
  ASSUME IInv, Core, Open, ~ RunsCoverage(Inner),
         NEW how \in {"succeeded", "failed", "interrupted"}, Leave(how), CallOver(loops, how)
  PROVE  Core'
<1>1. calls # <<>> /\ Len(calls) \in Nat \ {0}
  BY Now
<1>2. Under(loops, calls)
  BY <1>1, InnerNotCovering DEF Core, Inner
<1> QED
  BY <1>2, CallOverStep DEF Core

\* The loop of `coverage` is taken away: it was not measuring.
LEMMA LoopDropped ==
  ASSUME IInv, Core, Open, RunsCoverage(Inner)
  PROVE  /\ loops # <<>> /\ Below(loops) \in Seq(Loop) /\ Under(Below(loops), calls)
         /\ Balanced(Below(loops), tools, overrides)
<1>1. calls # <<>> /\ Len(calls) \in Nat \ {0} /\ RunsCoverage(calls[Len(calls)])
  BY Now DEF Inner
<1>2. loops # <<>> /\ ~ loops[Len(loops)].measuring
  BY <1>1, OwnLoop DEF Core
<1>3. Below(loops) \in Seq(Loop) /\ Under(Below(loops), calls)
  BY <1>1, OwnLoopDropped DEF Core
<1>4. /\ DOMAIN loops = 1..Len(loops) /\ Len(loops) \in Nat \ {0}
      /\ DOMAIN Below(loops) = 1..(Len(loops) - 1)
      /\ \A i \in 1..(Len(loops) - 1) : Below(loops)[i] = loops[i]
  BY <1>2, BelowFacts DEF Core
<1>5. \A i : i \in DOMAIN Below(loops) <=> i \in DOMAIN loops /\ i # Len(loops)
  BY <1>4
<1>6. Live(Below(loops)) = Live(loops)
  BY <1>2, <1>4, <1>5 DEF Live
<1>7. \A i \in Live(loops) : Below(loops)[i] = loops[i]
  BY <1>4, <1>5, <1>6 DEF Live
<1>8. Balanced(Below(loops), tools, overrides)
  BY <1>6, <1>7, SameLive DEF Core
<1> QED
  BY <1>2, <1>3, <1>8

\* A callable that is not `coverage` returns, or raises.
LEMMA CallableOver ==
  ASSUME IInv, Core, Open, ~ RunsCoverage(Inner), CallableReturns \/ CallableRaises,
         UNCHANGED <<tools, overrides, loops>>
  PROVE  Core'
<1>1. Inner \in Call
  BY Now
<1>2. CASE CallableReturns
  <2>1. PICK d : d = [Inner EXCEPT !.running = FALSE, !.step = @ + 1]
    OBVIOUS
  <2>2. Becomes(d) /\ UNCHANGED result
    BY <1>2, <2>1 DEF CallableReturns
  <2>3. ~ RunsCoverage(d)
    BY <1>1, <2>1 DEF RunsCoverage, Call
  <2> QED
    BY <2>2, <2>3, GoesOn
<1>3. CASE CallableRaises
  <2>1. PICK d : d = [Inner EXCEPT !.running = FALSE, !.step = @ + 1,
                                   !.error = IF @ = 0 THEN Inner.step ELSE @,
                                   !.failures = Append(@, Inner.step)]
    OBVIOUS
  <2>2. Becomes(d) /\ UNCHANGED result
    BY <1>3, <2>1 DEF CallableRaises
  <2>3. ~ RunsCoverage(d)
    BY <1>1, <2>1 DEF RunsCoverage, Call
  <2> QED
    BY <2>2, <2>3, GoesOn
<1> QED
  BY <1>2, <1>3

LEMMA WithinStep ==
  ASSUME IInv, Core, Within
  PROVE  Core'
<1>1. UNCHANGED <<tools, overrides, loops>>
  BY DEF Within, coverage
<1>2. ASSUME Open, ~ Inner.running
      PROVE  Inner \in Call /\ ~ RunsCoverage(Inner)
  BY <1>2, Now DEF RunsCoverage
<1>3. CASE BeginTask
  <2>1. Open /\ Inner \in Call /\ ~ Inner.running
    BY <1>3, Now, StepFacts DEF BeginTask
  <2>2. PICK d : d = [Inner EXCEPT !.step = 1, !.error = 0, !.began = {}, !.failures = <<>>]
    OBVIOUS
  <2>3. ~ RunsCoverage(d) /\ ~ RunsCoverage(Inner)
    BY <2>1, <2>2 DEF RunsCoverage, Call
  <2>4. Becomes(d) /\ UNCHANGED result
    BY <1>3, <2>2 DEF BeginTask
  <2> QED
    BY <1>1, <2>1, <2>3, <2>4, GoesOn
<1>4. CASE SkipStep
  <2>1. Open /\ ~ Inner.running
    BY <1>4 DEF SkipStep, BetweenSteps
  <2>2. PICK d : d = [Inner EXCEPT !.step = @ + 1]
    OBVIOUS
  <2>3. ~ RunsCoverage(d) /\ ~ RunsCoverage(Inner)
    BY <1>2, <2>1, <2>2 DEF RunsCoverage, Call
  <2>4. Becomes(d) /\ UNCHANGED result
    BY <1>4, <2>2 DEF SkipStep
  <2> QED
    BY <1>1, <2>1, <2>3, <2>4, GoesOn
<1>5. CASE TaskSucceeds
  <2>1. Open /\ Inner.step > Len(StepsOf(Inner)) /\ InTask(Inner)
    BY <1>5 DEF TaskSucceeds, StepsOver
  <2>2. Inner \in Call /\ Inner.step \in Nat /\ Len(StepsOf(Inner)) \in Nat /\ InBounds(Inner)
    BY <2>1, Now, StepFacts
  <2>3. ~ Inner.running
    BY <2>1, <2>2 DEF InBounds
  <2>4. PICK d : d = [Inner EXCEPT !.step = 0, !.pos = @ + 1]
    OBVIOUS
  <2>5. ~ RunsCoverage(d) /\ ~ RunsCoverage(Inner)
    BY <2>2, <2>3, <2>4 DEF RunsCoverage, Call
  <2>6. Becomes(d) /\ UNCHANGED result
    BY <1>5, <2>4 DEF TaskSucceeds
  <2> QED
    BY <1>1, <2>1, <2>5, <2>6, GoesOn
<1>6. CASE StartStep /\ StepsOf(Inner)[Inner.step].callable # CoverageBody
  <2>1. Open /\ ~ Inner.running
    BY <1>6 DEF StartStep, BetweenSteps
  <2>2. PICK d : d = [Inner EXCEPT !.running = TRUE, !.began = @ \cup {Inner.step}]
    OBVIOUS
  <2>3. Inner \in Call /\ ~ RunsCoverage(Inner)
    BY <1>2, <2>1
  <2>4. StepsOf(d) = StepsOf(Inner) /\ d.step = Inner.step
    BY <2>2, <2>3 DEF StepsOf, TaskOf, Call
  <2>5. ~ RunsCoverage(d)
    BY <1>6, <2>4 DEF RunsCoverage
  <2>6. Becomes(d) /\ UNCHANGED result
    BY <1>6, <2>2 DEF StartStep
  <2> QED
    BY <1>1, <2>1, <2>3, <2>5, <2>6, GoesOn
<1>7. CASE Others /\ (CallableReturns \/ CallableRaises)
  <2>1. Open /\ ~ RunsCoverage(Inner)
    BY <1>7 DEF Others, Running, RunningStep, RunsCoverage
  <2> QED
    BY <1>1, <1>7, <2>1, CallableOver
<1> QED
  BY <1>3, <1>4, <1>5, <1>6, <1>7 DEF Within

\* coverage_init and `prepare`.
LEMMA PreparingStep ==
  ASSUME IInv, Core,
         (\E a \in InitActions : Register(a)) \/ Prepare \/ PrepareRaises
  PROVE  Core'
<1>1. Open /\ ~ RunsCoverage(Inner)
  <2>1. CoverageBody \notin InitActions \cup {PrepareBody}
    BY CoverageAssumption
  <2>2. PICK c \in InitActions \cup {PrepareBody} : Role(c)
    BY DEF Register, Prepare, PrepareRaises
  <2> QED
    BY <2>1, <2>2 DEF Role, Running, RunningStep, RunsCoverage
<1>2. CASE UNCHANGED <<tools, overrides, loops>> /\ (CallableReturns \/ CallableRaises)
  BY <1>1, <1>2, CallableOver
<1>3. CASE CallableRaisesThrough /\ CallOver(loops, "failed")
  BY <1>1, <1>3, OtherCallOver DEF CallableRaisesThrough
<1> QED
  BY <1>2, <1>3 DEF Register, Prepare, PrepareRaises

LEMMA BeginLoopStep ==
  ASSUME IInv, Core, PluginOK, BeginLoop
  PROVE  Core'
<1>1. Open /\ ~ Inner.running
  BY DEF BeginLoop, StartStep, BetweenSteps
<1>2. PICK d : d = [Inner EXCEPT !.running = TRUE, !.began = @ \cup {Inner.step}]
  OBVIOUS
<1>3. Inner \in Call /\ ~ RunsCoverage(Inner)
  BY <1>1, Now DEF RunsCoverage
<1>4. StepsOf(d) = StepsOf(Inner) /\ d.step = Inner.step /\ d.running
  BY <1>2, <1>3 DEF StepsOf, TaskOf, Call
<1>5. RunsCoverage(d)
  BY <1>4 DEF RunsCoverage, BeginLoop
<1>6. Becomes(d) /\ UNCHANGED <<result, tools, overrides>>
  BY <1>2 DEF BeginLoop, StartStep
<1>7. /\ calls # <<>> /\ calls' # <<>>
      /\ Len(calls) \in Nat \ {0} /\ Len(calls') = Len(calls)
      /\ \A i \in 1..(Len(calls) - 1) : calls'[i] = calls[i]
      /\ calls'[Len(calls)] = d
  BY <1>1, <1>6, InnerChanged
<1>8. PICK l : l = [ depth |-> Len(calls), measuring |-> FALSE, env |-> NoEnv,
                     left |-> IF prepared THEN covered_tasks ELSE <<>>,
                     failed |-> ~ prepared, interrupt |-> FALSE, measured |-> <<>> ]
  OBVIOUS
<1>9. loops' = Append(loops, l) /\ l.depth = Len(calls) /\ ~ l.measuring
  BY <1>8 DEF BeginLoop
<1>10. l \in Loop
  <2>1. <<>> \in Seq(InitActions) /\ covered_tasks \in Seq(InitActions)
        /\ prepared \in BOOLEAN
    BY EmptySeq DEF PluginOK
  <2>2. l.left \in Seq(InitActions)
    BY <1>8, <2>1
  <2> QED
    BY <1>7, <1>8, <2>1, <2>2 DEF Loop
<1>11. PICK s, t : s = calls /\ t = calls'
  OBVIOUS
<1>12. Fits(Append(loops, l), t)
  BY <1>3, <1>5, <1>7, <1>9, <1>10, <1>11, FitsBegin DEF Core, Inner
<1>13. /\ Append(loops, l) \in Seq(Loop) /\ Len(loops) \in Nat /\ DOMAIN loops = 1..Len(loops)
      /\ DOMAIN Append(loops, l) = 1..(Len(loops) + 1)
      /\ \A i \in 1..Len(loops) : Append(loops, l)[i] = loops[i]
      /\ Append(loops, l)[Len(loops) + 1] = l
  BY <1>10, AppendFacts DEF Core
<1>14. 1..(Len(loops) + 1) = 1..Len(loops) \cup {Len(loops) + 1}
  BY <1>13
<1>15. Live(Append(loops, l)) = Live(loops)
  BY <1>9, <1>13, <1>14 DEF Live
<1>16. \A i \in Live(loops) : Append(loops, l)[i] = loops[i]
  BY <1>13 DEF Live
<1>17. Balanced(Append(loops, l), tools, overrides)
  BY <1>15, <1>16, SameLive DEF Core
<1> QED
  BY <1>6, <1>9, <1>11, <1>12, <1>13, <1>17 DEF Core

LEMMA EndingStep ==
  ASSUME IInv, Core, EndLoop \/ CoverageRaises
  PROVE  Core'
<1>1. Open /\ RunsCoverage(Inner) /\ Inner \in Call
  BY Now DEF EndLoop, CoverageRaises, Role, Running, RunningStep, RunsCoverage
<1>2. /\ Below(loops) \in Seq(Loop) /\ Under(Below(loops), calls)
      /\ Balanced(Below(loops), tools, overrides)
  BY <1>1, LoopDropped
<1>3. CASE /\ CallableReturns \/ CallableRaises
           /\ loops' = Below(loops) /\ UNCHANGED <<tools, overrides>>
  <2>1. PICK d : Becomes(d) /\ ~ d.running
    <3>1. CASE CallableReturns
      <4>1. PICK d : d = [Inner EXCEPT !.running = FALSE, !.step = @ + 1]
        OBVIOUS
      <4>2. Becomes(d)
        BY <3>1, <4>1 DEF CallableReturns
      <4>3. ~ d.running
        BY <1>1, <4>1 DEF Call
      <4> QED
        BY <4>2, <4>3
    <3>2. CASE CallableRaises
      <4>1. PICK d : d = [Inner EXCEPT !.running = FALSE, !.step = @ + 1,
                                       !.error = IF @ = 0 THEN Inner.step ELSE @,
                                       !.failures = Append(@, Inner.step)]
        OBVIOUS
      <4>2. Becomes(d)
        BY <3>2, <4>1 DEF CallableRaises
      <4>3. ~ d.running
        BY <1>1, <4>1 DEF Call
      <4> QED
        BY <4>2, <4>3
    <3> QED
      BY <1>3, <3>1, <3>2
  <2>2. /\ calls # <<>> /\ calls' # <<>>
        /\ Len(calls) \in Nat \ {0} /\ Len(calls') = Len(calls)
        /\ \A i \in 1..(Len(calls) - 1) : calls'[i] = calls[i]
        /\ ~ RunsCoverage(calls'[Len(calls)])
    BY <1>1, <2>1, InnerChanged DEF RunsCoverage
  <2>3. PICK t : t = calls'
    OBVIOUS
  <2>4. Under(Below(loops), t)
    BY <1>2, <2>2, <2>3, UnderOn
  <2>5. Fits(Below(loops), t)
    BY <1>2, <2>2, <2>3, <2>4, InnerNotCovering
  <2> QED
    BY <1>2, <1>3, <2>3, <2>5 DEF Core
<1>4. CASE CallableRaisesThrough /\ CallOver(Below(loops), "failed")
  BY <1>1, <1>2, <1>4, CallOverStep DEF CallableRaisesThrough, Core
<1> QED
  BY <1>3, <1>4 DEF EndLoop, CoverageRaises

\* The loop goes on to its next covered task without a call.
LEMMA PassOverStep ==
  ASSUME IInv, Core, NEW a \in InitActions, PassOver(a)
  PROVE  Core'
<1>1. Open /\ RunsCoverage(Inner) /\ Innermost.left # <<>>
  BY DEF PassOver, NextCovered, Role, Running, RunningStep, RunsCoverage
<1>2. loops # <<>>
  BY <1>1, LoopDropped
<1>3. /\ DOMAIN loops = 1..Len(loops) /\ Len(loops) \in DOMAIN loops
      /\ loops[Len(loops)] \in Loop
  BY <1>2, LoopFacts DEF Core
<1>4. PICK l : l = [loops[Len(loops)] EXCEPT !.left = Tail(@)]
  OBVIOUS
<1>5. /\ l \in Loop /\ l.depth = loops[Len(loops)].depth
      /\ l.measuring = loops[Len(loops)].measuring /\ l.env = loops[Len(loops)].env
  <2>1. Tail(loops[Len(loops)].left) \in Seq(InitActions)
    BY <1>1, <1>3, HeadTailProperties DEF Loop, Innermost
  <2> QED
    BY <1>3, <1>4, <2>1 DEF Loop
<1>6. PICK ms : ms = [loops EXCEPT ![Len(loops)] = l]
  OBVIOUS
<1>7. loops' = ms /\ UNCHANGED <<vars, tools, overrides>>
  BY <1>3, <1>4, <1>6 DEF PassOver
<1>8. /\ ms \in Seq(Loop) /\ DOMAIN ms = DOMAIN loops /\ ms[Len(loops)] = l
      /\ \A i \in DOMAIN loops : i # Len(loops) => ms[i] = loops[i]
  BY <1>3, <1>5, <1>6 DEF Core
<1>9. \A i \in DOMAIN loops : /\ ms[i].depth = loops[i].depth
                              /\ ms[i].measuring = loops[i].measuring
                              /\ ms[i].env = loops[i].env
  BY <1>5, <1>8
<1>10. Fits(ms, calls)
  BY <1>8, <1>9 DEF Core, Fits, Nested, Rising, AllLive
<1>11. Live(ms) = Live(loops)
  BY <1>8, <1>9 DEF Live
<1>12. Balanced(ms, tools, overrides)
  BY <1>9, <1>11, SameLive DEF Core, Live
<1>13. ms # <<>> /\ calls # <<>>
  BY <1>1, <1>3, <1>8 DEF Open
<1> QED
  BY <1>7, <1>8, <1>10, <1>12, <1>13 DEF Core, vars

LEMMA NewCallType ==
  ASSUME NEW kind \in {"plan", "shortest", "task"}, NEW r \in Seq(Task), NEW plan \in Seq(Task),
         NEW bodies \in SUBSET Callable
  PROVE  NewCall(kind, r, plan, bodies) \in Call /\ ~ RunsCoverage(NewCall(kind, r, plan, bodies))
BY EmptySeq DEF NewCall, Call, RunsCoverage

\* run_coverage puts a tool and an override on top of all others.
LEMMA RunCoverageStep ==
  ASSUME IInv, Core, PluginOK, NEW a \in InitActions, RunCoverage(a)
  PROVE  Core'
<1>1. /\ Open /\ RunsCoverage(Inner) /\ Innermost.left # <<>> /\ a = Head(Innermost.left)
      /\ ExecuteExecutable(Covers[a].task, Covers[a].step)
  BY DEF RunCoverage, NextCovered, Role, Running, RunningStep, RunsCoverage
<1>2. /\ calls \in Seq(Call) /\ calls # <<>> /\ Len(calls) \in Nat \ {0}
      /\ RunsCoverage(calls[Len(calls)]) /\ result = "running"
  BY <1>1, Now DEF Inner, IInv, RootInv
<1>3. /\ loops # <<>> /\ loops[Len(loops)].depth = Len(calls) /\ ~ loops[Len(loops)].measuring
      /\ \A i \in DOMAIN loops : i # Len(loops) => loops[i].depth < Len(calls) /\ loops[i].measuring
  BY <1>2, OwnLoop DEF Core
<1>4. /\ DOMAIN loops = 1..Len(loops) /\ Len(loops) \in DOMAIN loops
      /\ loops[Len(loops)] \in Loop
  BY <1>3, LoopFacts DEF Core
<1>5. PICK c : c = NewCall("task", <<Covers[a].task>>, <<Covers[a].task>>,
                           {Steps[Covers[a].task][Covers[a].step].callable})
  OBVIOUS
<1>6. c \in Call /\ ~ RunsCoverage(c) /\ calls' = Append(calls, c) /\ UNCHANGED result
  <2>1. Covers[a].task \in Task /\ Covers[a].step \in DOMAIN Steps[Covers[a].task]
    BY CoverageAssumption
  <2>2. Steps[Covers[a].task][Covers[a].step] \in Step
    BY <2>1, TaskExecutionAssumption
  <2>3. {Steps[Covers[a].task][Covers[a].step].callable} \in SUBSET Callable
    BY <2>2 DEF Step
  <2>4. <<Covers[a].task>> \in Seq(Task)
    BY <2>1
  <2> QED
    BY <1>1, <1>5, <2>3, <2>4, NewCallType DEF ExecuteExecutable, Enter
<1>7. PICK l : l = [loops[Len(loops)] EXCEPT !.left = Tail(@), !.measuring = TRUE,
                      !.env = python_env[a], !.measured = Append(@, a)]
  OBVIOUS
<1>8. l \in Loop /\ l.depth = Len(calls) /\ l.measuring /\ l.env = python_env[a]
  <2>1. /\ Tail(loops[Len(loops)].left) \in Seq(InitActions)
        /\ Append(loops[Len(loops)].measured, a) \in Seq(InitActions)
    BY <1>1, <1>4, HeadTailProperties, AppendProperties DEF Loop, Innermost
  <2>2. python_env[a] \in Env \cup {NoEnv}
    BY DEF PluginOK
  <2> QED
    BY <1>3, <1>4, <1>7, <2>1, <2>2 DEF Loop
<1>9. PICK ms : ms = [loops EXCEPT ![Len(loops)] = l]
  OBVIOUS
<1>10. /\ ms \in Seq(Loop) /\ DOMAIN ms = DOMAIN loops /\ ms[Len(loops)] = l
       /\ \A i \in DOMAIN loops : i # Len(loops) => ms[i] = loops[i]
  BY <1>4, <1>8, <1>9 DEF Core
<1>11. /\ loops' = ms /\ tools' = Append(tools, Len(calls))
       /\ overrides' = IF python_env[a] = NoEnv THEN overrides
                       ELSE [overrides EXCEPT ![python_env[a]] = Append(@, Len(calls))]
  <2>1. loops' = ms
    BY <1>7, <1>9 DEF RunCoverage, Innermost
  <2> QED
    BY <2>1 DEF RunCoverage
<1>12. Fits(ms, Append(calls, c))
  BY <1>2, <1>6, <1>8, <1>9, FitsMeasure DEF Core
<1>13. Live(ms) = Live(loops) \cup {Len(loops)} /\ Len(loops) \notin Live(loops)
  BY <1>3, <1>4, <1>8, <1>10 DEF Live
<1>14. \A i \in Live(loops) : i \in DOMAIN loops /\ i # Len(loops)
  BY <1>13 DEF Live
<1>15. Typed(tools', overrides') /\ Balanced(ms, tools', overrides')
  <2>1. PICK k, ls : k = Len(loops) /\ ls = loops
    OBVIOUS
  <2>2. PICK ts, os, tt, oo : ts = tools /\ os = overrides /\ tt = tools' /\ oo = overrides'
    OBVIOUS
  <2>3. PICK m, v : m = Len(calls) /\ v = python_env[a]
    OBVIOUS
  <2>4. m \in Nat /\ v \in Env \cup {NoEnv} /\ ms[k].depth = m /\ ms[k].env = v
    BY <1>2, <1>8, <1>10, <2>1, <2>3 DEF PluginOK
  <2>5. \A i \in Live(ls) : ms[i].depth = ls[i].depth /\ ms[i].env = ls[i].env
    BY <1>10, <1>14, <2>1
  <2>6. \A i \in Live(ls) : ls[i].depth < m
    BY <1>3, <1>14, <2>1, <2>3
  <2>7. Live(ms) = Live(ls) \cup {k} /\ k \notin Live(ls)
    BY <1>13, <2>1
  <2>8. Typed(ts, os) /\ Balanced(ls, ts, os)
    BY <2>1, <2>2 DEF Core
  <2>9. tt = Append(ts, m) /\ oo = Overridden(os, v, m)
    BY <1>11, <2>2, <2>3 DEF Overridden
  <2>10. Joined(ls, ms, k, m, v)
    BY <2>4, <2>5, <2>6, <2>7 DEF Joined
  <2>11. Typed(tt, oo) /\ Balanced(ms, tt, oo)
    BY <2>8, <2>9, <2>10, OneMore
  <2> QED
    BY <2>2, <2>11
<1> QED
  BY <1>2, <1>6, <1>10, <1>11, <1>12, <1>15 DEF Core

LEMMA ReplanStep ==
  ASSUME IInv, Core, Replan
  PROVE  Core'
<1>1. Open /\ ~ RunsCoverage(Inner) /\ UNCHANGED <<tools, overrides, loops>>
  BY DEF Replan, Others, Running, RunningStep, RunsCoverage
<1>2. /\ calls \in Seq(Call) /\ calls # <<>> /\ ~ RunsCoverage(calls[Len(calls)])
      /\ result = "running"
  BY <1>1, Now DEF Inner, IInv, RootInv
<1>3. PICK c \in Call : ~ RunsCoverage(c) /\ calls' = Append(calls, c) /\ UNCHANGED result
  <2>1. PICK r \in Requests : ExecuteTask(r) \/ ExecuteTaskShortestPlan(r)
    BY DEF Replan
  <2>2. r \in Seq(Task) /\ PlanOf[r] \in Seq(Task) /\ Callable \in SUBSET Callable
    BY PlanFacts
  <2>3. CASE ExecuteTask(r)
    BY <2>2, <2>3, NewCallType DEF ExecuteTask, Enter
  <2>4. CASE ExecuteTaskShortestPlan(r)
    <3>1. PICK n \in 0..Len(PlanOf[r]) :
            Dropped(r, n) /\ Enter(NewCall("shortest", r, Shortest(r, n), Callable))
      BY <2>4 DEF ExecuteTaskShortestPlan
    <3>2. Shortest(r, n) \in Seq(Task)
      BY <3>1, ShortestPlanOrdered
    <3> QED
      BY <2>2, <3>1, <3>2, NewCallType DEF Enter
  <2> QED
    BY <2>1, <2>3, <2>4
<1>4. Fits(loops, Append(calls, c))
  BY <1>2, <1>3, FitsCall DEF Core
<1> QED
  BY <1>1, <1>2, <1>3, <1>4 DEF Core

LEMMA ReturningStep ==
  ASSUME IInv, Core, CallReturns \/ CallRaises
  PROVE  Core'
<1>1. CASE CallReturns
  <2>1. Open /\ ~ InTask(Inner) /\ Leave("succeeded") /\ CallOver(loops, "succeeded")
    BY <1>1 DEF CallReturns, PlanReturns
  <2>2. ~ RunsCoverage(Inner)
    BY <2>1, Now, StepFacts DEF RunsCoverage
  <2> QED
    BY <2>1, <2>2, OtherCallOver
<1>2. CASE CallRaises
  <2>1. Open /\ Leave("failed") /\ CallOver(loops, "failed")
    BY <1>2 DEF CallRaises, TaskRaises, StepsOver, CallableRaisesThrough, Running
  <2>2. ~ RunsCoverage(Inner)
    <3>1. CASE TaskRaises
      <4>1. Inner.step > Len(StepsOf(Inner)) /\ InTask(Inner)
        BY <3>1 DEF TaskRaises, StepsOver
      <4>2. Inner.step \in Nat /\ Len(StepsOf(Inner)) \in Nat /\ InBounds(Inner)
        BY <2>1, <4>1, Now, StepFacts
      <4> QED
        BY <4>1, <4>2 DEF InBounds, RunsCoverage
    <3>2. CASE Others
      BY <3>2 DEF Others, Running, RunningStep, RunsCoverage
    <3> QED
      BY <1>2, <3>1, <3>2 DEF CallRaises
  <2> QED
    BY <2>1, <2>2, OtherCallOver
<1> QED
  BY <1>1, <1>2

\* What is no Exception leaves the innermost call, and `coverage` when that is
\* what is running in it.
LEMMA InterruptStep ==
  ASSUME IInv, Core, Interrupt
  PROVE  Core'
<1>1. Open /\ Inner.running /\ Leave("interrupted")
  BY DEF Interrupt, CallableInterrupted, Running
<1>2. CASE RunsCoverage(Inner)
  <2>1. CallOver(Below(loops), "interrupted")
    BY <1>2 DEF Interrupt, RunningStep, RunsCoverage
  <2>2. /\ Below(loops) \in Seq(Loop) /\ Under(Below(loops), calls)
        /\ Balanced(Below(loops), tools, overrides)
    BY <1>1, <1>2, LoopDropped
  <2> QED
    BY <1>1, <2>1, <2>2, CallOverStep DEF Core
<1>3. CASE ~ RunsCoverage(Inner)
  <2>1. CallOver(loops, "interrupted")
    BY <1>1, <1>3 DEF Interrupt, RunningStep, RunsCoverage
  <2> QED
    BY <1>1, <1>3, <2>1, OtherCallOver
<1> QED
  BY <1>2, <1>3

----------------------------------------------------------------------------
(* The invariant *)

LEMMA CovTypeIs == CovTypeOK <=> PluginOK /\ Typed(tools, overrides) /\ loops \in Seq(Loop)
BY DEF CovTypeOK, PluginOK, Typed

LEMMA InitCovInv == CovInit => IInv /\ PluginOK /\ Core
<1> SUFFICES ASSUME CovInit PROVE IInv /\ PluginOK /\ Core
  OBVIOUS
<1>1. IInv
  BY InitIInv DEF CovInit
<1>2. PluginOK
  BY EmptySeq DEF CovInit, PluginOK
<1>3. loops = <<>> /\ tools = <<>> /\ overrides = [e \in Env |-> <<>>] /\ loops \in Seq(Loop)
  BY EmptySeq DEF CovInit
<1>4. DOMAIN loops = {}
  BY <1>3
<1>5. Rising(loops) /\ AllLive(loops) /\ Live(loops) = {}
  BY <1>4 DEF Rising, AllLive, Live
<1>6. Fits(loops, calls)
  <2>1. PICK d : d = NewCall("plan", request, PlanOf[request], Callable)
    OBVIOUS
  <2>2. calls = <<d>> /\ ~ d.running
    BY <2>1 DEF CovInit, Init, NewCall
  <2>3. Len(calls) = 1 /\ calls[1] = d
    BY <2>2
  <2>4. \A i \in 1..Len(calls) : ~ RunsCoverage(calls[i])
    BY <2>2, <2>3 DEF RunsCoverage
  <2> QED
    BY <1>4, <1>5, <2>4 DEF Fits, Nested
<1>7. Typed(tools, overrides) /\ Balanced(loops, tools, overrides)
  <2>1. <<>> \in Seq(Nat) /\ Stacked(<<>>, {})
    BY EmptySeq DEF Stacked, Elements
  <2>2. ToolDepths(loops) = {} /\ \A e : EnvDepths(loops, e) = {}
    BY <1>5 DEF ToolDepths, EnvDepths
  <2> QED
    BY <1>3, <2>1, <2>2 DEF Typed, Balanced
<1> QED
  BY <1>1, <1>2, <1>3, <1>6, <1>7 DEF Core

LEMMA NextCore ==
  ASSUME IInv, PluginOK, Core, CovNext
  PROVE  Core'
<1>1. CASE (\E a \in InitActions : Register(a)) \/ Prepare \/ PrepareRaises
  BY <1>1, PreparingStep
<1>2. CASE \E a \in InitActions : PassOver(a) \/ RunCoverage(a)
  BY <1>2, PassOverStep, RunCoverageStep
<1>3. CASE BeginLoop  BY <1>3, BeginLoopStep
<1>4. CASE EndLoop \/ CoverageRaises  BY <1>4, EndingStep
<1>5. CASE Within  BY <1>5, WithinStep
<1>6. CASE Replan  BY <1>6, ReplanStep
<1>7. CASE CallReturns \/ CallRaises  BY <1>7, ReturningStep
<1>8. CASE Interrupt  BY <1>8, InterruptStep
<1>10. CASE CovEnded
  BY <1>10 DEF CovEnded, Ended, vars, coverage, Core
<1> QED
  BY <1>1, <1>2, <1>3, <1>4, <1>5, <1>6, <1>7, <1>8, <1>10 DEF CovNext

LEMMA NextCovInv ==
  IInv /\ PluginOK /\ Core /\ [CovNext]_<<vars, coverage>> => IInv' /\ PluginOK' /\ Core'
<1> SUFFICES ASSUME IInv, PluginOK, Core, [CovNext]_<<vars, coverage>>
             PROVE  IInv' /\ PluginOK' /\ Core'
  OBVIOUS
<1>1. IInv'
  BY StepOfExecution, NextIInv
<1>2. CASE CovNext
  BY <1>1, <1>2, PluginStep, NextCore
<1>3. CASE UNCHANGED <<vars, coverage>>
  BY <1>1, <1>3 DEF vars, coverage, plugin, PluginOK, Core
<1> QED
  BY <1>2, <1>3

\* The invariant of task execution holds under coverage as well; each open loop
\* of `coverage` belongs to an open call that runs it, and the tools and the
\* overrides in place are those of the loops that are measuring.
THEOREM CoverageInvariance == CovSpec => [](IInv /\ PluginOK /\ Core)
BY InitCovInv, NextCovInv, PTL DEF CovSpec


----------------------------------------------------------------------------
(* The theorems *)

\* With the coverage plugin at work, a build still only does what TaskExecution
\* says: what is shown there of executing tasks holds for run_coverage as well,
\* which calls execute_task past every plan.
THEOREM CoverageIsExecution == CovSpec => Init /\ [][Next]_vars
<1>1. CovInit => Init
  BY DEF CovInit
<1> QED
  BY <1>1, StepOfExecution, PTL DEF CovSpec

\* So under coverage, too, a task of a plan runs after its prerequisites, and so
\* does each plan that a test under measurement asks for.
THEOREM CoveragePrerequisites == CovSpec => []PrerequisitesMet
BY PrerequisitesHold, CoverageInvariance, PTL

\* Every variable of the plugin, the tools and the overrides have their types.
THEOREM CoverageTyped == CovSpec => []CovTypeOK
<1>1. PluginOK /\ Core => CovTypeOK
  BY CovTypeIs DEF Core
<1> QED
  BY <1>1, CoverageInvariance, PTL

\* However the tests under measurement fail, are interrupted or run plans that
\* measure again, the tools and overrides in place are those of the measurements
\* under way, and none is left when the build is over.
THEOREM CoverageBalanced == CovSpec => []OverridesBalanced
<1>1. IInv /\ Core => OverridesBalanced
  <2> SUFFICES ASSUME IInv, Core PROVE OverridesBalanced
    OBVIOUS
  <2>1. Measuring = Live(loops) /\ Depths(Measuring) = ToolDepths(loops)
    BY DEF Measuring, Live, Depths, ToolDepths
  <2>2. Stacked(tools, Depths(Measuring))
    BY <2>1 DEF Core, Balanced
  <2>3. \A e \in Env : Stacked(overrides[e], Depths({i \in Measuring : loops[i].env = e}))
    BY <2>1 DEF Core, Balanced, Depths, EnvDepths
  <2>4. CASE Open
    <3> SUFFICES Depths(Measuring) = Measurements
      BY <2>2, <2>3 DEF OverridesBalanced
    <3>1. Len(calls) \in Nat \ {0} /\ calls # <<>>
      BY <2>4, Now
    <3>2. /\ {loops[i].depth : i \in DOMAIN loops} = {d \in 1..Len(calls) : RunsCoverage(calls[d])}
          /\ \A i \in DOMAIN loops : loops[i].measuring <=> loops[i].depth < Len(calls)
      BY <3>1 DEF Core, Fits, Nested
    <3>3. ASSUME NEW d \in Depths(Measuring) PROVE d \in Measurements
      <4>1. PICK i \in DOMAIN loops : loops[i].measuring /\ d = loops[i].depth
        BY <3>3 DEF Depths, Measuring
      <4>2. d \in 1..Len(calls) /\ RunsCoverage(calls[d]) /\ d < Len(calls)
        BY <3>2, <4>1
      <4>3. d \in 1..(Len(calls) - 1)
        BY <3>1, <4>2
      <4> QED
        BY <4>2, <4>3 DEF Measurements
    <3>4. ASSUME NEW d \in Measurements PROVE d \in Depths(Measuring)
      <4>1. d \in 1..(Len(calls) - 1) /\ RunsCoverage(calls[d])
        BY <3>4 DEF Measurements
      <4>2. d \in 1..Len(calls) /\ d < Len(calls)
        BY <3>1, <4>1
      <4>3. PICK i \in DOMAIN loops : loops[i].depth = d
        BY <3>2, <4>1, <4>2
      <4> QED
        BY <3>2, <4>2, <4>3 DEF Depths, Measuring
    <3> QED
      BY <3>3, <3>4
  <2>5. CASE ~ Open
    <3>1. calls = <<>> /\ loops = <<>>
      BY <2>5 DEF Core, Fits, Open
    <3>2. Len(calls) = 0 /\ DOMAIN loops = {}
      BY <3>1
    <3>3. Depths(Measuring) = {}
      BY <3>2 DEF Depths, Measuring
    <3>4. Measurements = {}
      BY <3>2 DEF Measurements
    <3> QED
      BY <2>2, <2>3, <3>3, <3>4 DEF OverridesBalanced
  <2> QED
    BY <2>4, <2>5
<1> QED
  BY <1>1, CoverageInvariance, PTL

----------------------------------------------------------------------------
(* What is measured *)

\* s holds the members of S, each once.
Once(s, S) == Elements(s) = S /\ \A i, j \in DOMAIN s : s[i] = s[j] => i = j

InPrepare(c) == InTask(c) /\ TaskOf(c) = PrepareTask

\* The step of `prepare` of the coverage plugin, and the coverage_init that the
\* call c is past.
PrepareStep == CHOOSE k \in DOMAIN Steps[PrepareTask] : Places(PrepareBody) = {k}
Reached(c) == {a \in InitActions : InPrepare(c) /\ \E j \in 1..(c.step - 1) : Places(a) = {j}}

PastPrepare(c) ==
  \/ \E i \in 1..(c.pos - 1) : c.plan[i] = PrepareTask
  \/ InPrepare(c) /\ c.step > PrepareStep

Covering(plan) == CoverageTask \in Elements(plan)

\* The coverage_init whose tests a plan runs.
Part(plan) == {a \in InitActions : Covers[a].task \in Elements(plan)}

\* They are before `coverage` in the plan.
InTime(plan) ==
  \A a \in Part(plan) :
    \E i, j \in DOMAIN plan : plan[i] = Covers[a].task /\ plan[j] = CoverageTask /\ i < j

\* What the plugin knows - tasks, covered and ready are _coverage_tasks, the list
\* of `prepare` and whether there is one - when the plan of c has come as far as
\* c says, no error being on its way out of the task "prepare".
Registered(c, tasks, covered, ready) ==
  \/ InPrepare(c) /\ c.error # 0
  \/ /\ PastPrepare(c)
     /\ Covering(c.plan) => ready /\ Once(covered, Part(c.plan)) /\ InTime(c.plan)
  \/ /\ ~ PastPrepare(c) /\ ~ ready
     /\ Once(tasks, IF Covering(c.plan) THEN Reached(c) \cap Part(c.plan) ELSE {})

\* What the loop l has measured and what it has still to come to are all tests of
\* the plan.
Complete(plan, l) ==
  /\ l.measuring => ~ l.failed
  /\ ~ l.failed => Once(l.measured \o l.left, Part(plan)) /\ InTime(plan)

\* Unless a callable asks for a plan, there is the plan of the build and, while
\* `coverage` of that plan measures a test, the call of execute_task for it.
Alone(s) ==
  /\ s[1].bodies = Callable
  /\ \A i, j \in DOMAIN s[1].plan : s[1].plan[i] = s[1].plan[j] => i = j
  /\ Len(s) <= 2
  /\ Len(s) = 2 => /\ RunsCoverage(s[1])
                   /\ \E t \in Task \ {PrepareTask, CoverageTask} : s[2].plan = <<t>>

Accounts ==
  Open /\ ~ replanned =>
    /\ Alone(calls)
    /\ current_plan = calls[1].plan
    /\ Registered(calls[1], coverage_tasks, covered_tasks, prepared)
    /\ \A i \in DOMAIN loops : Complete(calls[1].plan, loops[i])

LEMMA PlaceFacts ==
  /\ Steps[PrepareTask] \in Seq(Step) /\ Len(Steps[PrepareTask]) \in Nat
  /\ DOMAIN Steps[PrepareTask] = 1..Len(Steps[PrepareTask])
  /\ PrepareStep \in DOMAIN Steps[PrepareTask]
  /\ Places(PrepareBody) = {PrepareStep}
  /\ \A a \in InitActions : \E j \in 1..(PrepareStep - 1) : Places(a) = {j}
<1>1. Steps[PrepareTask] \in Seq(Step)
  BY PlacementAssumption, TaskExecutionAssumption
<1>2. PICK k \in DOMAIN Steps[PrepareTask] :
        /\ Places(PrepareBody) = {k}
        /\ \A a \in InitActions : \E j \in 1..(k - 1) : Places(a) = {j}
  BY PlacementAssumption
<1>3. PrepareStep \in DOMAIN Steps[PrepareTask] /\ Places(PrepareBody) = {PrepareStep}
  BY <1>2 DEF PrepareStep
<1>4. PrepareStep = k
  BY <1>2, <1>3
<1> QED
  BY <1>1, <1>2, <1>3, <1>4, LenProperties

\* The step of the task "prepare" that a call is at.
LEMMA PlaceOf ==
  ASSUME NEW c \in Call, InBounds(c), InPrepare(c), c.step <= Len(StepsOf(c))
  PROVE  /\ c.step \in Nat \ {0} /\ StepsOf(c) = Steps[PrepareTask]
         /\ c.step \in DOMAIN Steps[PrepareTask]
         /\ \A a : StepsOf(c)[c.step].callable = a <=> c.step \in Places(a)
<1>1. StepsOf(c) = Steps[PrepareTask]
  BY DEF InPrepare, StepsOf
<1>2. c.step \in Nat \ {0}
  BY StepFacts DEF InPrepare, InTask
<1>3. c.step \in DOMAIN Steps[PrepareTask]
  BY <1>1, <1>2, PlaceFacts
<1> QED
  BY <1>1, <1>2, <1>3 DEF Places

----------------------------------------------------------------------------
(* The call of the build comes from one step to the next. Here c and d are   *)
(* that call before and after, and the rest is what Registered speaks of.    *)

LEMMA SamePosition ==
  ASSUME NEW c, NEW d, d.plan = c.plan, d.pos = c.pos, d.step = c.step, d.error = c.error,
         NEW tasks, NEW covered, NEW ready, Registered(c, tasks, covered, ready)
  PROVE  Registered(d, tasks, covered, ready)
<1>1. InPrepare(d) <=> InPrepare(c)
  BY DEF InPrepare, InTask, TaskOf
<1>2. (PastPrepare(d) <=> PastPrepare(c)) /\ Reached(d) = Reached(c)
  BY <1>1 DEF PastPrepare, Reached
<1> QED
  BY <1>1, <1>2 DEF Registered

LEMMA TaskEntered ==
  ASSUME NEW c \in Call, ~ InTask(c),
         NEW d, d.plan = c.plan, d.pos = c.pos, d.step = 1, d.error = 0,
         NEW tasks, NEW covered, NEW ready, Registered(c, tasks, covered, ready)
  PROVE  Registered(d, tasks, covered, ready)
<1>1. ~ InPrepare(c) /\ Reached(c) = {}
  BY DEF InPrepare, Reached
<1>2. Reached(d) = {}
  <2>1. 1..(d.step - 1) = {}
    OBVIOUS
  <2> QED
    BY <2>1 DEF Reached
<1>3. ~ (d.step > PrepareStep)
  <2>1. PrepareStep \in 1..Len(Steps[PrepareTask])
    BY PlaceFacts
  <2> QED
    BY <2>1
<1>4. PastPrepare(d) <=> PastPrepare(c)
  BY <1>1, <1>3 DEF PastPrepare
<1> QED
  BY <1>1, <1>2, <1>4 DEF Registered

LEMMA OneStepOn ==
  ASSUME NEW c \in Call, InBounds(c), InTask(c), c.step <= Len(StepsOf(c)),
         NEW d, d.plan = c.plan, d.pos = c.pos, d.step = c.step + 1,
         d.error = c.error \/ d.error # 0,
         InPrepare(c) /\ c.error = 0 =>
           StepsOf(c)[c.step].callable \notin InitActions \cup {PrepareBody},
         NEW tasks, NEW covered, NEW ready, Registered(c, tasks, covered, ready)
  PROVE  Registered(d, tasks, covered, ready)
<1>1. c.step \in Nat \ {0}
  BY StepFacts DEF InTask
<1>2. InPrepare(d) <=> InPrepare(c)
  BY <1>1 DEF InPrepare, InTask, TaskOf
<1>3. CASE ~ InPrepare(c)
  <2>1. Reached(c) = {} /\ Reached(d) = {}
    BY <1>2, <1>3 DEF Reached
  <2>2. PastPrepare(d) <=> PastPrepare(c)
    BY <1>2, <1>3 DEF PastPrepare
  <2> QED
    BY <1>2, <1>3, <2>1, <2>2 DEF Registered
<1>4. CASE InPrepare(c) /\ d.error # 0
  BY <1>2, <1>4 DEF Registered
<1>5. CASE InPrepare(c) /\ c.error = 0
  <2>1. c.step \notin Places(PrepareBody) /\ \A a \in InitActions : c.step \notin Places(a)
    BY <1>5, PlaceOf
  <2>2. c.step # PrepareStep /\ PrepareStep \in Nat
    BY <2>1, PlaceFacts
  <2>3. d.step > PrepareStep <=> c.step > PrepareStep
    BY <1>1, <2>2
  <2>4. PastPrepare(d) <=> PastPrepare(c)
    BY <1>2, <2>3 DEF PastPrepare
  <2>5. Reached(d) = Reached(c)
    <3>1. \A j : j \in 1..(d.step - 1) <=> j \in 1..(c.step - 1) \/ j = c.step
      BY <1>1
    <3>2. \A a \in InitActions : Places(a) # {c.step}
      BY <2>1
    <3> QED
      BY <1>2, <3>1, <3>2 DEF Reached
  <2> QED
    BY <1>2, <1>5, <2>4, <2>5 DEF Registered
<1> QED
  BY <1>3, <1>4, <1>5

LEMMA TaskLeft ==
  ASSUME NEW c \in Call, InBounds(c), InTask(c), c.step > Len(StepsOf(c)), c.error = 0,
         NEW d, d.plan = c.plan, d.pos = c.pos + 1, d.step = 0,
         NEW tasks, NEW covered, NEW ready, Registered(c, tasks, covered, ready)
  PROVE  Registered(d, tasks, covered, ready)
<1>1. c.step \in Nat /\ c.pos \in Nat \ {0}
  BY StepFacts
<1>2. ~ InPrepare(d) /\ Reached(d) = {}
  BY DEF InPrepare, InTask, Reached
<1>3. \A i : i \in 1..(d.pos - 1) <=> i \in 1..(c.pos - 1) \/ i = c.pos
  BY <1>1
<1>4. PastPrepare(d) <=> PastPrepare(c)
  <2>1. CASE InPrepare(c)
    <3>1. StepsOf(c) = Steps[PrepareTask] /\ c.plan[c.pos] = PrepareTask
      BY <2>1 DEF InPrepare, StepsOf, TaskOf
    <3>2. c.step > PrepareStep
      BY <1>1, <3>1, PlaceFacts
    <3> QED
      BY <1>3, <2>1, <3>1, <3>2 DEF PastPrepare
  <2>2. CASE ~ InPrepare(c)
    <3>1. c.plan[c.pos] # PrepareTask
      BY <2>2 DEF InPrepare, TaskOf
    <3> QED
      BY <1>2, <1>3, <2>2, <3>1 DEF PastPrepare
  <2> QED
    BY <2>1, <2>2
<1>5. ~ PastPrepare(c) => Reached(c) = {}
  <2> SUFFICES ASSUME ~ PastPrepare(c) PROVE ~ InPrepare(c)
    BY DEF Reached
  <2>1. InPrepare(c) => StepsOf(c) = Steps[PrepareTask]
    BY DEF InPrepare, StepsOf
  <2>2. InPrepare(c) => c.step > PrepareStep
    BY <1>1, <2>1, PlaceFacts
  <2> QED
    BY <2>2 DEF PastPrepare
<1> QED
  BY <1>2, <1>4, <1>5 DEF Registered

\* At a step of the plugin in "prepare", which is in the plan only once, none of
\* what comes after that step has happened.
LEMMA NotPast ==
  ASSUME NEW c \in Call, InBounds(c), InPrepare(c), c.step <= PrepareStep,
         \A i, j \in DOMAIN c.plan : c.plan[i] = c.plan[j] => i = j
  PROVE  ~ PastPrepare(c)
<1>1. /\ c.pos \in Nat \ {0} /\ c.pos <= Len(c.plan) /\ DOMAIN c.plan = 1..Len(c.plan)
      /\ c.step \in Nat /\ Len(c.plan) \in Nat
  BY StepFacts DEF InPrepare
<1>2. c.plan[c.pos] = PrepareTask
  BY DEF InPrepare, TaskOf
<1>3. ~ (c.step > PrepareStep)
  BY <1>1, PlaceFacts
<1>4. ASSUME NEW i \in 1..(c.pos - 1) PROVE c.plan[i] # PrepareTask
  <2>1. i \in DOMAIN c.plan /\ c.pos \in DOMAIN c.plan /\ i # c.pos
    BY <1>1
  <2> QED
    BY <1>2, <2>1
<1> QED
  BY <1>3, <1>4 DEF PastPrepare

\* One that is not among them is added.
LEMMA OnceMore ==
  ASSUME NEW S, NEW s \in Seq(S), NEW R, Once(s, R), NEW x \in S, x \notin R
  PROVE  Once(Append(s, x), R \cup {x})
<1> DEFINE t == Append(s, x)
<1>1. /\ Len(s) \in Nat /\ DOMAIN s = 1..Len(s) /\ DOMAIN t = 1..(Len(s) + 1)
      /\ \A i \in 1..Len(s) : t[i] = s[i]
      /\ t[Len(s) + 1] = x
  BY AppendFacts
<1>2. \A i : i \in DOMAIN t <=> i \in DOMAIN s \/ i = Len(s) + 1
  BY <1>1
<1>3. \A i \in DOMAIN s : s[i] \in R /\ s[i] # x
  BY DEF Once, Elements
<1> HIDE DEF t
<1>4. Elements(t) = R \cup {x}
  <2>1. \A y \in R : \E i \in DOMAIN s : s[i] = y
    BY DEF Once, Elements
  <2> QED
    BY <1>1, <1>2, <1>3, <2>1 DEF Elements
<1>5. \A i, j \in DOMAIN t : t[i] = t[j] => i = j
  BY <1>1, <1>2, <1>3 DEF Once
<1>6. Once(t, R \cup {x})
  BY <1>4, <1>5 DEF Once
<1> QED
  BY <1>6 DEF t

\* coverage_init of a has returned.
LEMMA RegisterOne ==
  ASSUME NEW c \in Call, InBounds(c), InTask(c), c.step <= Len(StepsOf(c)),
         \A i, j \in DOMAIN c.plan : c.plan[i] = c.plan[j] => i = j,
         NEW a \in InitActions, StepsOf(c)[c.step].callable = a, InPrepare(c),
         NEW d, d.plan = c.plan, d.pos = c.pos, d.step = c.step + 1, d.error = c.error,
         NEW tasks \in Seq(InitActions), NEW covered, NEW ready,
         Registered(c, tasks, covered, ready),
         NEW more, more = IF Covering(c.plan) /\ a \in Part(c.plan)
                          THEN Append(tasks, a) ELSE tasks
  PROVE  Registered(d, more, covered, ready)
<1>1. c.step \in Nat \ {0} /\ c.step \in Places(a)
  BY PlaceOf
<1>2. Places(a) = {c.step} /\ c.step < PrepareStep /\ PrepareStep \in Nat
  <2>1. PICK j \in 1..(PrepareStep - 1) : Places(a) = {j}
    BY PlaceFacts
  <2>2. PrepareStep \in Nat
    BY PlaceFacts
  <2> QED
    BY <1>1, <2>1, <2>2
<1>3. InPrepare(d) /\ d.step <= PrepareStep
  BY <1>1, <1>2 DEF InPrepare, InTask, TaskOf
<1>4. CASE c.error # 0
  BY <1>3, <1>4 DEF Registered
<1>5. CASE c.error = 0
  <2>1. ~ PastPrepare(c)
    BY <1>1, <1>2, NotPast
  <2>2. ~ ready /\ Once(tasks, IF Covering(c.plan) THEN Reached(c) \cap Part(c.plan) ELSE {})
    BY <1>5, <2>1 DEF Registered
  <2>3. ~ PastPrepare(d)
    <3>1. ~ (d.step > PrepareStep)
      BY <1>1, <1>2
    <3> QED
      BY <2>1, <3>1 DEF PastPrepare
  <2>4. Reached(d) = Reached(c) \cup {a}
    <3>1. \A j : j \in 1..(d.step - 1) <=> j \in 1..(c.step - 1) \/ j = c.step
      BY <1>1
    <3>2. \A b \in InitActions : Places(b) = {c.step} => b = a
      <4> SUFFICES ASSUME NEW b \in InitActions, Places(b) = {c.step} PROVE b = a
        OBVIOUS
      <4>1. c.step \in Places(b)
        OBVIOUS
      <4> QED
        BY <4>1, <1>1 DEF Places
    <3> QED
      BY <1>2, <1>3, <3>1, <3>2 DEF Reached
  <2>5. a \notin Reached(c)
    <3>1. \A j \in 1..(c.step - 1) : j # c.step
      BY <1>1
    <3>2. \A j \in 1..(c.step - 1) : {j} # {c.step}
      BY <3>1
    <3> QED
      BY <1>2, <3>2 DEF Reached
  <2>6. CASE Covering(c.plan) /\ a \in Part(c.plan)
    <3>1. Once(more, (Reached(c) \cap Part(c.plan)) \cup {a})
      BY <2>2, <2>5, <2>6, OnceMore
    <3>2. (Reached(c) \cap Part(c.plan)) \cup {a} = Reached(d) \cap Part(d.plan)
      BY <2>4, <2>6
    <3> QED
      BY <2>2, <2>3, <2>6, <3>1, <3>2 DEF Registered
  <2>7. CASE Covering(c.plan) /\ a \notin Part(c.plan)
    <3>1. Reached(c) \cap Part(c.plan) = Reached(d) \cap Part(d.plan)
      BY <2>4, <2>7
    <3> QED
      BY <2>2, <2>3, <2>7, <3>1 DEF Registered
  <2>8. CASE ~ Covering(c.plan)
    BY <2>2, <2>3, <2>8 DEF Registered
  <2> QED
    BY <2>6, <2>7, <2>8
<1> QED
  BY <1>4, <1>5

\* `prepare` has returned: every coverage_init came before it.
LEMMA PrepareOver ==
  ASSUME NEW c \in Call, InBounds(c), InTask(c), c.step <= Len(StepsOf(c)),
         \A i, j \in DOMAIN c.plan : c.plan[i] = c.plan[j] => i = j,
         StepsOf(c)[c.step].callable = PrepareBody, InPrepare(c),
         NEW d, d.plan = c.plan, d.pos = c.pos, d.step = c.step + 1, d.error = c.error,
         NEW tasks \in Seq(InitActions), NEW covered, NEW ready,
         Registered(c, tasks, covered, ready),
         NEW covered2, NEW ready2,
         Covering(c.plan) =>
           /\ covered2 = tasks /\ ready2
           /\ \A a \in Elements(tasks) \cap Part(c.plan) :
                \E i, j \in DOMAIN c.plan :
                  c.plan[i] = Covers[a].task /\ c.plan[j] = CoverageTask /\ i < j
  PROVE  Registered(d, tasks, covered2, ready2)
<1>1. c.step \in Nat \ {0} /\ c.step \in Places(PrepareBody)
  BY PlaceOf
<1>2. c.step = PrepareStep /\ PrepareStep \in Nat
  BY <1>1, PlaceFacts
<1>3. InPrepare(d) /\ d.step > PrepareStep
  BY <1>1, <1>2 DEF InPrepare, InTask, TaskOf
<1>4. CASE c.error # 0
  BY <1>3, <1>4 DEF Registered
<1>5. CASE c.error = 0
  <2>1. ~ PastPrepare(c)
    BY <1>2, NotPast
  <2>2. Once(tasks, IF Covering(c.plan) THEN Reached(c) \cap Part(c.plan) ELSE {})
    BY <1>5, <2>1 DEF Registered
  <2>3. PastPrepare(d)
    BY <1>3 DEF PastPrepare
  <2>4. Reached(c) = InitActions
    <3>1. \A a \in InitActions : \E j \in 1..(c.step - 1) : Places(a) = {j}
      BY <1>2, PlaceFacts
    <3> QED
      BY <3>1 DEF Reached
  <2>5. Reached(c) \cap Part(c.plan) = Part(c.plan)
    BY <2>4 DEF Part
  <2>6. ASSUME Covering(c.plan)
        PROVE  ready2 /\ Once(covered2, Part(c.plan)) /\ InTime(c.plan)
    <3>1. Once(tasks, Part(c.plan)) /\ covered2 = tasks /\ ready2
      BY <2>2, <2>5, <2>6
    <3>2. Elements(tasks) = Part(c.plan)
      BY <3>1 DEF Once
    <3> QED
      BY <2>6, <3>1, <3>2 DEF InTime
  <2> QED
    BY <2>3, <2>6 DEF Registered
<1> QED
  BY <1>4, <1>5

----------------------------------------------------------------------------
(* The calls that are open *)

LEMMA AloneFacts ==
  ASSUME IInv, Open, Alone(calls)
  PROVE  /\ calls[1] \in Call /\ InBounds(calls[1])
         /\ Len(calls) = 1 \/ Len(calls) = 2
         /\ Len(calls) = 1 => Inner = calls[1]
         /\ Len(calls) = 2 => Inner = calls[2] /\ calls[1].running
<1>1. /\ calls \in Seq(Call) /\ calls # <<>> /\ Len(calls) \in Nat \ {0}
      /\ CallsInv(calls, Elements(tasks_executed), actions_executed)
  BY Now DEF IInv
<1>2. 1 \in DOMAIN calls
  BY <1>1, LenProperties
<1>3. calls[1] \in Call /\ InBounds(calls[1])
  BY <1>1, <1>2 DEF CallsInv, CallInv
<1>4. Len(calls) = 1 \/ Len(calls) = 2
  <2>1. Len(calls) <= 2
    BY DEF Alone
  <2>2. \A n \in Nat \ {0} : n <= 2 => n = 1 \/ n = 2
    OBVIOUS
  <2>3. Len(calls) \in Nat \ {0}
    BY <1>1
  <2> QED
    BY <2>1, <2>2, <2>3
<1> QED
  BY <1>3, <1>4 DEF Inner, Alone, RunsCoverage

\* execute_task as `coverage` calls it comes past no step of the plugin.
LEMMA MeasuredSteps ==
  ASSUME IInv, Open, Alone(calls), Len(calls) = 2, InTask(Inner),
         Inner.step <= Len(StepsOf(Inner))
  PROVE  StepsOf(Inner)[Inner.step].callable \notin InitActions \cup {PrepareBody, CoverageBody}
<1>1. PICK t \in Task \ {PrepareTask, CoverageTask} : Inner.plan = <<t>>
  BY AloneFacts DEF Alone
<1>2. /\ Inner.pos \in Nat \ {0} /\ Inner.pos <= Len(Inner.plan) /\ Inner.step \in Nat \ {0}
      /\ Len(StepsOf(Inner)) \in Nat /\ DOMAIN StepsOf(Inner) = 1..Len(StepsOf(Inner))
  BY Now, StepFacts DEF InTask
<1>3. Inner.pos = 1 /\ TaskOf(Inner) = t
  <2>1. Len(Inner.plan) = 1 /\ Inner.plan[1] = t
    BY <1>1
  <2> QED
    BY <1>2, <2>1 DEF TaskOf
<1>4. Inner.step \in DOMAIN Steps[t] /\ StepsOf(Inner) = Steps[t]
  BY <1>2, <1>3 DEF StepsOf
<1> QED
  BY <1>1, <1>4, PlacementAssumption

\* `coverage` is executed by the task of this name, those of the plugin before
\* `prepare` has ended by the task "prepare".
LEMMA RolePlaces ==
  ASSUME IInv, Running
  PROVE  /\ InTask(Inner) /\ Inner.step <= Len(StepsOf(Inner)) /\ InBounds(Inner)
         /\ Inner \in Call /\ Open
         /\ RunningStep.callable \in InitActions \cup {PrepareBody} => InPrepare(Inner)
         /\ RunningStep.callable = CoverageBody => TaskOf(Inner) = CoverageTask
<1>1. Open /\ Inner.running /\ Inner \in Call /\ InBounds(Inner)
  BY Now DEF Running
<1>2. InTask(Inner) /\ TaskOf(Inner) \in Task
  BY <1>1, StepFacts
<1>3. /\ Inner.step \in 1..Len(StepsOf(Inner)) /\ DOMAIN StepsOf(Inner) = 1..Len(StepsOf(Inner))
      /\ Len(StepsOf(Inner)) \in Nat
  BY <1>1, <1>2, StepFacts DEF InBounds
<1>4. Inner.step \in DOMAIN Steps[TaskOf(Inner)]
  BY <1>3 DEF StepsOf
<1> QED
  BY <1>1, <1>2, <1>3, <1>4, PlacementAssumption DEF InPrepare, RunningStep, StepsOf

\* The innermost call becomes d.
LEMMA InnerAccounts ==
  ASSUME IInv, Open, Accounts, ~ replanned,
         NEW d, Becomes(d), d.plan = Inner.plan, d.bodies = Inner.bodies,
         UNCHANGED current_plan,
         Len(calls) = 2 => UNCHANGED <<coverage_tasks, covered_tasks, prepared>>,
         Len(calls) = 1 => Registered(d, coverage_tasks', covered_tasks', prepared'),
         \A i \in DOMAIN loops' : Complete(calls[1].plan, loops'[i])
  PROVE  Accounts'
<1>1. /\ calls' # <<>> /\ Len(calls') = Len(calls)
      /\ \A i \in 1..(Len(calls) - 1) : calls'[i] = calls[i]
      /\ calls'[Len(calls)] = d
  BY InnerChanged
<1>2. Alone(calls) /\ (Len(calls) = 1 \/ Len(calls) = 2)
  BY AloneFacts DEF Accounts
<1>3. CASE Len(calls) = 1
  <2>1. calls'[1] = d /\ d.plan = calls[1].plan /\ d.bodies = calls[1].bodies
    BY <1>1, <1>3 DEF Inner
  <2>2. Alone(calls')
    BY <1>1, <1>2, <1>3, <2>1 DEF Alone
  <2> QED
    BY <1>3, <2>1, <2>2 DEF Accounts
<1>4. CASE Len(calls) = 2
  <2>1. calls'[1] = calls[1] /\ calls'[2] = d /\ d.plan = calls[2].plan
    BY <1>1, <1>4 DEF Inner
  <2>2. Alone(calls')
    BY <1>1, <1>2, <1>4, <2>1 DEF Alone
  <2> QED
    BY <1>4, <2>1, <2>2 DEF Accounts
<1> QED
  BY <1>2, <1>3, <1>4

\* The innermost call comes from one step to the next, or stays where it is, and
\* the callable it is at is none of the plugin's but perhaps `coverage`.
LEMMA StepAccounts ==
  ASSUME IInv, Open, Accounts, ~ replanned, InTask(Inner), Inner.step <= Len(StepsOf(Inner)),
         NEW d, Becomes(d), d.plan = Inner.plan, d.bodies = Inner.bodies, d.pos = Inner.pos,
         \/ d.step = Inner.step /\ d.error = Inner.error
         \/ /\ d.step = Inner.step + 1 /\ (d.error = Inner.error \/ d.error # 0)
            /\ Len(calls) = 1 /\ InPrepare(Inner) /\ Inner.error = 0 =>
                 StepsOf(Inner)[Inner.step].callable \notin InitActions \cup {PrepareBody},
         UNCHANGED <<current_plan, coverage_tasks, covered_tasks, prepared>>,
         \A i \in DOMAIN loops' : Complete(calls[1].plan, loops'[i])
  PROVE  Accounts'
<1>1. Inner \in Call /\ InBounds(Inner)
  BY Now
<1>2. Len(calls) = 1 => Registered(Inner, coverage_tasks, covered_tasks, prepared)
  BY AloneFacts DEF Accounts
<1>3. ASSUME Len(calls) = 1 PROVE Registered(d, coverage_tasks, covered_tasks, prepared)
  <2>1. CASE d.step = Inner.step /\ d.error = Inner.error
    BY <1>2, <1>3, <2>1, SamePosition
  <2>2. CASE /\ d.step = Inner.step + 1 /\ (d.error = Inner.error \/ d.error # 0)
             /\ InPrepare(Inner) /\ Inner.error = 0 =>
                  StepsOf(Inner)[Inner.step].callable \notin InitActions \cup {PrepareBody}
    BY <1>1, <1>2, <1>3, <2>2, OneStepOn
  <2> QED
    BY <1>3, <2>1, <2>2
<1> QED
  BY <1>3, InnerAccounts

\* A step of the plugin is not skipped before an error.
LEMMA NotSkipped ==
  ASSUME IInv, Open, Alone(calls), Len(calls) = 1, BetweenSteps, InPrepare(Inner),
         Inner.error = 0, Skipped(Inner, StepsOf(Inner)[Inner.step])
  PROVE  StepsOf(Inner)[Inner.step].callable \notin InitActions \cup {PrepareBody}
<1>1. Inner \in Call /\ InBounds(Inner) /\ Inner.step <= Len(StepsOf(Inner))
  BY Now DEF BetweenSteps
<1>2. Inner.step \in DOMAIN Steps[PrepareTask] /\ StepsOf(Inner) = Steps[PrepareTask]
  BY <1>1, PlaceOf
<1>3. StepsOf(Inner)[Inner.step].callable \in Callable
  <2>1. \A s \in Seq(Step) : \A k \in DOMAIN s : s[k] \in Step
    BY ElementOfSeq, LenProperties
  <2>2. StepsOf(Inner)[Inner.step] \in Step
    BY <1>2, <2>1, PlaceFacts
  <2> QED
    BY <2>2 DEF Step
<1>4. Inner.bodies = Callable
  BY AloneFacts DEF Alone
<1>5. StepsOf(Inner)[Inner.step].callable \in OnlyOnce
  BY <1>3, <1>4 DEF Skipped, NotDue
<1> QED
  BY <1>5, PlacementAssumption

LEMMA WithinAccounts ==
  ASSUME IInv, Open, Accounts, ~ replanned, Within
  PROVE  Accounts'
<1>1. Inner \in Call /\ InBounds(Inner)
  BY Now
<1>2. /\ UNCHANGED <<coverage_tasks, covered_tasks, prepared>>
      /\ \A i \in DOMAIN loops' : Complete(calls[1].plan, loops'[i])
  BY DEF Within, coverage, plugin, Accounts
<1>3. Alone(calls) /\ (Len(calls) = 1 => Registered(Inner, coverage_tasks, covered_tasks, prepared))
  BY AloneFacts DEF Accounts
<1>4. CASE BeginTask
  <2>1. PICK d : d = [Inner EXCEPT !.step = 1, !.error = 0, !.began = {}, !.failures = <<>>]
    OBVIOUS
  <2>2. /\ d.plan = Inner.plan /\ d.bodies = Inner.bodies /\ d.pos = Inner.pos
        /\ d.step = 1 /\ d.error = 0
    BY <1>1, <2>1 DEF Call
  <2>3. Becomes(d) /\ UNCHANGED current_plan /\ ~ InTask(Inner)
    BY <1>4, <2>1 DEF BeginTask
  <2>4. Len(calls) = 1 => Registered(d, coverage_tasks, covered_tasks, prepared)
    BY <1>1, <1>3, <2>2, <2>3, TaskEntered
  <2> QED
    BY <1>2, <2>2, <2>3, <2>4, InnerAccounts
<1>5. CASE SkipStep
  <2>1. PICK d : d = [Inner EXCEPT !.step = @ + 1]
    OBVIOUS
  <2>2. /\ d.plan = Inner.plan /\ d.bodies = Inner.bodies /\ d.pos = Inner.pos
        /\ d.step = Inner.step + 1 /\ d.error = Inner.error
    BY <1>1, <2>1 DEF Call
  <2>3. /\ Becomes(d) /\ UNCHANGED current_plan /\ InTask(Inner)
        /\ Inner.step <= Len(StepsOf(Inner)) /\ BetweenSteps
        /\ Skipped(Inner, StepsOf(Inner)[Inner.step])
    BY <1>5, <2>1 DEF SkipStep, BetweenSteps
  <2> QED
    BY <1>2, <1>3, <2>2, <2>3, NotSkipped, StepAccounts
<1>6. CASE StartStep
  <2>1. PICK d : d = [Inner EXCEPT !.running = TRUE, !.began = @ \cup {Inner.step}]
    OBVIOUS
  <2>2. /\ d.plan = Inner.plan /\ d.bodies = Inner.bodies /\ d.pos = Inner.pos
        /\ d.step = Inner.step /\ d.error = Inner.error
    BY <1>1, <2>1 DEF Call
  <2>3. /\ Becomes(d) /\ UNCHANGED current_plan /\ InTask(Inner)
        /\ Inner.step <= Len(StepsOf(Inner))
    BY <1>6, <2>1 DEF StartStep, BetweenSteps
  <2> QED
    BY <1>2, <2>2, <2>3, StepAccounts
<1>7. CASE TaskSucceeds
  <2>1. PICK d : d = [Inner EXCEPT !.step = 0, !.pos = @ + 1]
    OBVIOUS
  <2>2. /\ d.plan = Inner.plan /\ d.bodies = Inner.bodies /\ d.pos = Inner.pos + 1 /\ d.step = 0
    BY <1>1, <2>1 DEF Call
  <2>3. /\ Becomes(d) /\ UNCHANGED current_plan /\ InTask(Inner)
        /\ Inner.step > Len(StepsOf(Inner)) /\ Inner.error = 0
    BY <1>7, <2>1 DEF TaskSucceeds, StepsOver
  <2>4. Len(calls) = 1 => Registered(d, coverage_tasks, covered_tasks, prepared)
    BY <1>1, <1>3, <2>2, <2>3, TaskLeft
  <2> QED
    BY <1>2, <2>2, <2>3, <2>4, InnerAccounts
<1>8. CASE Others /\ (CallableReturns \/ CallableRaises)
  <2>1. PICK d, e : /\ d = [Inner EXCEPT !.running = FALSE, !.step = @ + 1]
                    /\ e = [Inner EXCEPT !.running = FALSE, !.step = @ + 1,
                                         !.error = IF @ = 0 THEN Inner.step ELSE @,
                                         !.failures = Append(@, Inner.step)]
    OBVIOUS
  <2>2. /\ InTask(Inner) /\ Inner.step <= Len(StepsOf(Inner))
        /\ StepsOf(Inner)[Inner.step].callable \notin InitActions \cup {PrepareBody}
    BY <1>8, RolePlaces DEF Others, RunningStep
  <2>3. CASE CallableReturns
    <3>1. /\ d.plan = Inner.plan /\ d.bodies = Inner.bodies /\ d.pos = Inner.pos
          /\ d.step = Inner.step + 1 /\ d.error = Inner.error
      BY <1>1, <2>1 DEF Call
    <3>2. Becomes(d) /\ UNCHANGED current_plan
      BY <2>1, <2>3 DEF CallableReturns
    <3> QED
      BY <1>2, <2>2, <3>1, <3>2, StepAccounts
  <2>4. CASE CallableRaises
    <3>1. /\ e.plan = Inner.plan /\ e.bodies = Inner.bodies /\ e.pos = Inner.pos
          /\ e.step = Inner.step + 1 /\ (e.error = Inner.error \/ e.error # 0)
      BY <1>1, <2>1, <2>2 DEF Call, InTask
    <3>2. Becomes(e) /\ UNCHANGED current_plan
      BY <2>1, <2>4 DEF CallableRaises
    <3> QED
      BY <1>2, <2>2, <3>1, <3>2, StepAccounts
  <2> QED
    BY <1>8, <2>3, <2>4
<1> QED
  BY <1>4, <1>5, <1>6, <1>7, <1>8 DEF Within

\* While `coverage` measures a test, no callable that is open is one of the plugin's.
LEMMA OnlyCall ==
  ASSUME IInv, Alone(calls), Running,
         RunningStep.callable \in InitActions \cup {PrepareBody, CoverageBody}
  PROVE  Len(calls) = 1 /\ Inner = calls[1] /\ Inner \in Call
<1>1. Open /\ InTask(Inner) /\ Inner.step <= Len(StepsOf(Inner)) /\ Inner \in Call
  BY RolePlaces
<1>2. Len(calls) # 2
  BY <1>1, MeasuredSteps DEF RunningStep
<1> QED
  BY <1>1, <1>2, AloneFacts

LEMMA RegisterAccounts ==
  ASSUME IInv, PluginOK, Accounts, ~ replanned, NEW a \in InitActions, Register(a)
  PROVE  Accounts'
<1>1. Running /\ RunningStep.callable = a
  BY DEF Register, Role
<1>2. Open /\ Alone(calls) /\ current_plan = calls[1].plan
  BY <1>1 DEF Accounts, Running
<1>3. Len(calls) = 1 /\ Inner = calls[1] /\ Inner \in Call
  BY <1>1, <1>2, OnlyCall
<1>4. /\ InPrepare(Inner) /\ InTask(Inner) /\ Inner.step <= Len(StepsOf(Inner))
      /\ InBounds(Inner) /\ StepsOf(Inner)[Inner.step].callable = a
  BY <1>1, RolePlaces DEF RunningStep
<1>5. PICK d : d = [Inner EXCEPT !.running = FALSE, !.step = @ + 1]
  OBVIOUS
<1>6. /\ d.plan = Inner.plan /\ d.bodies = Inner.bodies /\ d.pos = Inner.pos
      /\ d.step = Inner.step + 1 /\ d.error = Inner.error
  BY <1>3, <1>5 DEF Call
<1>7. Becomes(d) /\ UNCHANGED <<current_plan, covered_tasks, prepared, loops>>
  BY <1>5 DEF Register, CallableReturns
<1>8. coverage_tasks' = IF Covering(Inner.plan) /\ a \in Part(Inner.plan)
                        THEN Append(coverage_tasks, a) ELSE coverage_tasks
  BY <1>2, <1>3 DEF Register, InPlan, Covering, Part
<1>9. coverage_tasks \in Seq(InitActions)
  BY DEF PluginOK
<1>10. /\ Registered(Inner, coverage_tasks, covered_tasks, prepared)
       /\ \A i, j \in DOMAIN Inner.plan : Inner.plan[i] = Inner.plan[j] => i = j
  BY <1>2, <1>3 DEF Accounts, Alone
<1>11. Registered(d, coverage_tasks', covered_tasks, prepared)
  BY <1>3, <1>4, <1>6, <1>8, <1>9, <1>10, RegisterOne
<1>12. \A i \in DOMAIN loops' : Complete(calls[1].plan, loops'[i])
  BY <1>2, <1>7 DEF Accounts
<1> QED
  BY <1>2, <1>3, <1>6, <1>7, <1>11, <1>12, InnerAccounts

LEMMA PrepareAccounts ==
  ASSUME IInv, PluginOK, Accounts, ~ replanned, Prepare
  PROVE  Accounts'
<1>1. Running /\ RunningStep.callable = PrepareBody
  BY DEF Prepare, Role
<1>2. Open /\ Alone(calls) /\ current_plan = calls[1].plan
  BY <1>1 DEF Accounts, Running
<1>3. Len(calls) = 1 /\ Inner = calls[1] /\ Inner \in Call
  BY <1>1, <1>2, OnlyCall
<1>4. /\ InPrepare(Inner) /\ InTask(Inner) /\ Inner.step <= Len(StepsOf(Inner))
      /\ InBounds(Inner) /\ StepsOf(Inner)[Inner.step].callable = PrepareBody
  BY <1>1, RolePlaces DEF RunningStep
<1>5. PICK d : d = [Inner EXCEPT !.running = FALSE, !.step = @ + 1]
  OBVIOUS
<1>6. /\ d.plan = Inner.plan /\ d.bodies = Inner.bodies /\ d.pos = Inner.pos
      /\ d.step = Inner.step + 1 /\ d.error = Inner.error
  BY <1>3, <1>5 DEF Call
<1>7. Becomes(d) /\ UNCHANGED <<current_plan, coverage_tasks, loops>>
  BY <1>5 DEF Prepare, CallableReturns
<1>8. Covering(Inner.plan) =>
        /\ covered_tasks' = coverage_tasks /\ prepared'
        /\ \A a \in Elements(coverage_tasks) \cap Part(Inner.plan) :
             \E i, j \in DOMAIN Inner.plan :
               Inner.plan[i] = Covers[a].task /\ Inner.plan[j] = CoverageTask /\ i < j
  BY <1>2, <1>3 DEF Prepare, Configure, InPlan, Covering, Part, Late, BeforeInPlan
<1>9. coverage_tasks \in Seq(InitActions)
  BY DEF PluginOK
<1>10. /\ Registered(Inner, coverage_tasks, covered_tasks, prepared)
       /\ \A i, j \in DOMAIN Inner.plan : Inner.plan[i] = Inner.plan[j] => i = j
  BY <1>2, <1>3 DEF Accounts, Alone
<1>11. Registered(d, coverage_tasks, covered_tasks', prepared')
  BY <1>3, <1>4, <1>6, <1>8, <1>9, <1>10, PrepareOver
<1>12. \A i \in DOMAIN loops' : Complete(calls[1].plan, loops'[i])
  BY <1>2, <1>7 DEF Accounts
<1> QED
  BY <1>2, <1>3, <1>6, <1>7, <1>11, <1>12, InnerAccounts

\* The innermost call is over: when it is the only one, no call is open any more.
LEMMA LeaveAccounts ==
  ASSUME IInv, Open, Accounts, ~ replanned, NEW how, Leave(how), UNCHANGED current_plan,
         Len(calls) = 2 => /\ UNCHANGED <<coverage_tasks, covered_tasks, prepared>>
                           /\ \A i \in DOMAIN loops' : Complete(calls[1].plan, loops'[i])
  PROVE  Accounts'
<1>1. Alone(calls) /\ (Len(calls) = 1 \/ Len(calls) = 2)
  BY AloneFacts DEF Accounts
<1>2. calls \in Seq(Call) /\ calls # <<>>
  BY Now
<1>3. /\ Outer \in Seq(Call) /\ Len(Outer) = Len(calls) - 1
      /\ \A i \in 1..(Len(calls) - 1) : Outer[i] = calls[i]
  BY <1>2, BelowFacts DEF Outer, Below
<1>4. CASE Len(calls) = 1
  <2>1. Len(Outer) = 0
    BY <1>3, <1>4
  <2>2. calls' = <<>>
    BY <1>3, <2>1, EmptySeq DEF Leave
  <2> QED
    BY <2>2 DEF Accounts, Open
<1>5. CASE Len(calls) = 2
  <2>1. Len(calls') = 1 /\ calls'[1] = calls[1]
    BY <1>3, <1>5 DEF Leave
  <2>2. Alone(calls')
    BY <1>1, <2>1 DEF Alone
  <2> QED
    BY <1>5, <2>1, <2>2 DEF Accounts
<1> QED
  BY <1>1, <1>4, <1>5

LEMMA PrepareRaisesAccounts ==
  ASSUME IInv, PluginOK, Accounts, ~ replanned, PrepareRaises
  PROVE  Accounts'
<1>1. Running /\ RunningStep.callable = PrepareBody
  BY DEF PrepareRaises, Role
<1>2. Open /\ Alone(calls)
  BY <1>1 DEF Accounts, Running
<1>3. Len(calls) = 1 /\ Inner = calls[1] /\ Inner \in Call
  BY <1>1, <1>2, OnlyCall
<1>4. InPrepare(Inner) /\ Inner.step \in Nat \ {0}
  <2>1. InPrepare(Inner) /\ InTask(Inner) /\ InBounds(Inner)
    BY <1>1, RolePlaces
  <2> QED
    BY <1>3, <2>1, StepFacts DEF InTask
<1>5. CASE CallableRaises /\ UNCHANGED loops
  <2>1. PICK e : e = [Inner EXCEPT !.running = FALSE, !.step = @ + 1,
                                   !.error = IF @ = 0 THEN Inner.step ELSE @,
                                   !.failures = Append(@, Inner.step)]
    OBVIOUS
  <2>2. /\ e.plan = Inner.plan /\ e.bodies = Inner.bodies /\ e.pos = Inner.pos
        /\ e.step = Inner.step + 1 /\ e.error # 0
    BY <1>3, <1>4, <2>1 DEF Call
  <2>3. Becomes(e) /\ UNCHANGED current_plan
    BY <1>5, <2>1 DEF CallableRaises
  <2>4. InPrepare(e)
    BY <1>4, <2>2 DEF InPrepare, InTask, TaskOf
  <2>5. Registered(e, coverage_tasks', covered_tasks', prepared')
    BY <2>2, <2>4 DEF Registered
  <2>6. \A i \in DOMAIN loops' : Complete(calls[1].plan, loops'[i])
    BY <1>2, <1>5 DEF Accounts
  <2> QED
    BY <1>2, <1>3, <2>2, <2>3, <2>5, <2>6, InnerAccounts
<1>6. CASE CallableRaisesThrough
  BY <1>2, <1>3, <1>6, LeaveAccounts DEF CallableRaisesThrough
<1> QED
  BY <1>5, <1>6 DEF PrepareRaises

----------------------------------------------------------------------------
(* The loop of `coverage` *)

\* Taking the next covered task keeps what is measured and what is left together.
LEMMA TakeNext ==
  ASSUME NEW S, NEW m \in Seq(S), NEW l \in Seq(S), l # <<>>
  PROVE  /\ Append(m, Head(l)) \o Tail(l) = m \o l
         /\ Head(l) \in Elements(m \o l)
<1>1. /\ Head(l) \in S /\ Tail(l) \in Seq(S) /\ Len(Tail(l)) = Len(l) - 1
      /\ \A i \in 1..Len(Tail(l)) : Tail(l)[i] = l[i + 1]
      /\ Head(l) = l[1]
  BY HeadTailProperties
<1>2. /\ Append(m, Head(l)) \in Seq(S) /\ Len(Append(m, Head(l))) = Len(m) + 1
      /\ \A i \in 1..Len(m) : Append(m, Head(l))[i] = m[i]
      /\ Append(m, Head(l))[Len(m) + 1] = Head(l)
  BY <1>1, AppendFacts
<1>3. Len(m) \in Nat /\ Len(l) \in Nat \ {0}
  BY LenProperties, EmptySeq
<1>4. PICK n : n = Append(m, Head(l))
  OBVIOUS
<1>5. PICK r : r = Tail(l)
  OBVIOUS
<1>6. /\ m \o l \in Seq(S) /\ Len(m \o l) = Len(m) + Len(l)
      /\ \A i \in 1..(Len(m) + Len(l)) :
           (m \o l)[i] = IF i <= Len(m) THEN m[i] ELSE l[i - Len(m)]
  BY ConcatProperties
<1>7. /\ n \o r \in Seq(S) /\ Len(n \o r) = Len(n) + Len(r)
      /\ \A i \in 1..(Len(n) + Len(r)) :
           (n \o r)[i] = IF i <= Len(n) THEN n[i] ELSE r[i - Len(n)]
  BY <1>1, <1>2, <1>4, <1>5, ConcatProperties
<1>8. Len(n \o r) = Len(m \o l)
  BY <1>1, <1>2, <1>3, <1>4, <1>5, <1>6, <1>7
<1>9. \A i \in 1..Len(m \o l) : (n \o r)[i] = (m \o l)[i]
  <2> TAKE i \in 1..Len(m \o l)
  <2>4. i \in Nat
    OBVIOUS
  <2>1. CASE i <= Len(m)
    BY <2>1, <1>2, <1>3, <1>4, <1>6, <1>7, <1>8
  <2>2. CASE i = Len(m) + 1
    <3>1. (n \o r)[i] = Head(l)
      BY <2>2, <1>2, <1>3, <1>4, <1>7, <1>8
    <3>2. (m \o l)[i] = l[1]
      BY <2>2, <1>3, <1>6
    <3> QED
      BY <1>1, <3>1, <3>2
  <2>3. CASE i > Len(m) + 1
    <3>1. (n \o r)[i] = r[i - (Len(m) + 1)]
      BY <2>3, <1>2, <1>3, <1>4, <1>7, <1>8
    <3>2. i - (Len(m) + 1) \in 1..Len(Tail(l))
      BY <2>3, <1>1, <1>3, <1>6
    <3>3. r[i - (Len(m) + 1)] = l[i - (Len(m) + 1) + 1]
      BY <1>1, <1>5, <3>2
    <3>4. (m \o l)[i] = l[i - Len(m)]
      BY <2>3, <1>3, <1>6
    <3>5. i - (Len(m) + 1) + 1 = i - Len(m)
      BY <1>3, <1>6
    <3> QED
      BY <3>1, <3>3, <3>4, <3>5
  <2>5. i <= Len(m) \/ i = Len(m) + 1 \/ i > Len(m) + 1
    BY <2>4, <1>3
  <2> QED
    BY <2>1, <2>2, <2>3, <2>5
<1>10. n \o r = m \o l
  BY <1>6, <1>7, <1>8, <1>9, SeqEqual
<1>11. Head(l) \in Elements(m \o l)
  <2>1. Len(m) + 1 \in DOMAIN (m \o l)
    BY <1>3, <1>6, LenProperties
  <2>2. (m \o l)[Len(m) + 1] = l[1]
    BY <1>3, <1>6
  <2> QED
    BY <1>1, <2>1, <2>2 DEF Elements
<1> QED
  BY <1>4, <1>5, <1>10, <1>11

LEMMA BelowComplete ==
  ASSUME NEW ls \in Seq(Loop), NEW plan, \A i \in DOMAIN ls : Complete(plan, ls[i]), ls # <<>>
  PROVE  \A i \in DOMAIN Below(ls) : Complete(plan, Below(ls)[i])
<1>1. /\ DOMAIN Below(ls) = 1..(Len(ls) - 1) /\ DOMAIN ls = 1..Len(ls) /\ Len(ls) \in Nat
      /\ \A i \in 1..(Len(ls) - 1) : Below(ls)[i] = ls[i]
  BY BelowFacts
<1>2. \A i \in DOMAIN Below(ls) : i \in DOMAIN ls /\ Below(ls)[i] = ls[i]
  BY <1>1
<1> QED
  BY <1>2

\* execute_task, called by run_coverage, is over.
LEMMA CallOverComplete ==
  ASSUME NEW plan, \A i \in DOMAIN loops : Complete(plan, loops[i]),
         Fits(loops, calls), calls # <<>>, Len(calls) \in Nat, loops \in Seq(Loop),
         NEW how, CallOver(loops, how)
  PROVE  \A i \in DOMAIN loops' : Complete(plan, loops'[i])
<1>1. CASE ~ (loops # <<>> /\ loops[Len(loops)].depth = Len(calls) - 1)
  BY <1>1 DEF CallOver
<1>2. CASE loops # <<>> /\ loops[Len(loops)].depth = Len(calls) - 1
  <2>1. Len(loops) \in DOMAIN loops /\ loops[Len(loops)] \in Loop
    BY <1>2, LoopFacts
  <2>2. loops[Len(loops)].measuring
    <3>1. loops[Len(loops)].depth < Len(calls)
      BY <1>2
    <3> QED
      BY <2>1, <3>1 DEF Fits
  <2>3. PICK l : l = [loops[Len(loops)] EXCEPT !.measuring = FALSE, !.env = NoEnv,
                                               !.failed = how # "succeeded",
                                               !.interrupt = how = "interrupted"]
    OBVIOUS
  <2>4. ~ l.measuring /\ l.measured = loops[Len(loops)].measured /\ l.left = loops[Len(loops)].left
    BY <2>1, <2>3 DEF Loop
  <2>5. Complete(plan, l)
    BY <2>1, <2>2, <2>4 DEF Complete
  <2>6. loops' = [loops EXCEPT ![Len(loops)] = l]
    BY <1>2, <2>3 DEF CallOver
  <2> QED
    BY <2>1, <2>5, <2>6
<1> QED
  BY <1>1, <1>2

\* `coverage` runs in the call of the build, and comes to a test of its plan.
LEMMA NextInPart ==
  ASSUME IInv, Core, PluginOK, Accounts, ~ replanned, NEW a \in InitActions, NextCovered(a)
  PROVE  /\ Open /\ Len(calls) = 1 /\ Inner = calls[1] /\ current_plan = calls[1].plan
         /\ Alone(calls) /\ RunsCoverage(calls[1])
         /\ Len(loops) \in DOMAIN loops /\ Innermost \in Loop /\ ~ Innermost.measuring
         /\ a \in Part(calls[1].plan) /\ InTime(calls[1].plan)
         /\ Innermost.left # <<>> /\ a = Head(Innermost.left)
<1>1. Running /\ RunningStep.callable = CoverageBody
  BY DEF NextCovered, Role
<1>2. Open /\ Alone(calls) /\ current_plan = calls[1].plan
  BY <1>1 DEF Accounts, Running
<1>3. Len(calls) = 1 /\ Inner = calls[1] /\ Inner \in Call
  BY <1>1, <1>2, OnlyCall
<1>4. RunsCoverage(Inner)
  BY <1>1 DEF RunsCoverage, Running, RunningStep
<1>5. loops # <<>> /\ loops \in Seq(Loop)
  BY <1>2, <1>4, LoopDropped DEF Core
<1>6. Len(loops) \in DOMAIN loops /\ Innermost \in Loop
  BY <1>5, LoopFacts DEF Innermost
<1>7. ~ Innermost.measuring
  <2>1. calls # <<>> /\ Len(calls) \in Nat \ {0}
    BY <1>2, Now
  <2> QED
    BY <1>4, <1>5, <2>1, OwnLoop DEF Core, Inner, Innermost
<1>8. Complete(calls[1].plan, Innermost) /\ ~ Innermost.failed
  BY <1>2, <1>6 DEF Accounts, Innermost, NextCovered
<1>9. Innermost.left # <<>> /\ a = Head(Innermost.left)
  BY DEF NextCovered
<1>10. a \in Elements(Innermost.measured \o Innermost.left)
  <2>1. Innermost.measured \in Seq(InitActions) /\ Innermost.left \in Seq(InitActions)
    BY <1>6 DEF Loop
  <2> QED
    BY <1>9, <2>1, TakeNext
<1>11. a \in Part(calls[1].plan) /\ InTime(calls[1].plan)
  BY <1>8, <1>10 DEF Complete, Once
<1> QED
  BY <1>2, <1>3, <1>4, <1>6, <1>7, <1>9, <1>11

LEMMA PassOverNever ==
  ASSUME IInv, Core, PluginOK, Accounts, ~ replanned, NEW a \in InitActions, PassOver(a)
  PROVE  FALSE
<1>1. a \in Part(calls[1].plan) /\ current_plan = calls[1].plan
  BY NextInPart DEF PassOver
<1> QED
  BY <1>1 DEF PassOver, InPlan, Part

LEMMA RunCoverageAccounts ==
  ASSUME IInv, Core, PluginOK, Accounts, ~ replanned, NEW a \in InitActions, RunCoverage(a)
  PROVE  Accounts'
<1>1. /\ Open /\ Len(calls) = 1 /\ Inner = calls[1] /\ current_plan = calls[1].plan
      /\ Alone(calls) /\ RunsCoverage(calls[1])
      /\ Len(loops) \in DOMAIN loops /\ Innermost \in Loop /\ ~ Innermost.measuring
      /\ a \in Part(calls[1].plan) /\ InTime(calls[1].plan)
      /\ Innermost.left # <<>> /\ a = Head(Innermost.left)
  BY NextInPart DEF RunCoverage
<1>2. PICK t, c : t = Covers[a].task /\ c = NewCall("task", <<t>>, <<t>>,
                                                   {Steps[t][Covers[a].step].callable})
  OBVIOUS
<1>3. calls' = Append(calls, c) /\ c.plan = <<t>> /\ UNCHANGED current_plan
  BY <1>2 DEF RunCoverage, ExecuteExecutable, Enter, NewCall
<1>4. calls \in Seq(Call)
  BY <1>1, Now
<1>5. Len(calls') = 2 /\ calls'[1] = calls[1] /\ calls'[2] = c
  <2>1. t \in Task /\ Covers[a].step \in DOMAIN Steps[t]
    BY <1>2, CoverageAssumption
  <2>2. Steps[t][Covers[a].step] \in Step
    BY <2>1, TaskExecutionAssumption
  <2>3. {Steps[t][Covers[a].step].callable} \in SUBSET Callable /\ <<t>> \in Seq(Task)
    BY <2>1, <2>2 DEF Step
  <2>4. c \in Call
    BY <1>2, <2>3, NewCallType
  <2>5. /\ Len(Append(calls, c)) = Len(calls) + 1
        /\ \A i \in 1..Len(calls) : Append(calls, c)[i] = calls[i]
        /\ Append(calls, c)[Len(calls) + 1] = c
    BY <1>4, <2>4, AppendFacts
  <2>6. Len(calls) = 1 /\ 1 \in 1..1 /\ 1 + 1 = 2
    BY <1>1
  <2>7. Append(calls, c)[1] = calls[1] /\ Append(calls, c)[2] = c /\ Len(Append(calls, c)) = 2
    BY <2>5, <2>6
  <2> QED
    BY <1>3, <2>7
<1>6. t \in Task \ {PrepareTask, CoverageTask}
  <2>1. t \in Task /\ t # PrepareTask
    BY <1>2, CoverageAssumption, PlacementAssumption
  <2>2. PICK i, j \in DOMAIN calls[1].plan :
          calls[1].plan[i] = t /\ calls[1].plan[j] = CoverageTask /\ i < j
    BY <1>1, <1>2 DEF InTime
  <2>3. calls[1].plan \in Seq(Task)
    BY <1>1, AloneFacts DEF Call
  <2>4. i # j
    BY <2>2, <2>3, LenProperties
  <2>5. t # CoverageTask
    BY <1>1, <2>2, <2>4 DEF Alone
  <2> QED
    BY <2>1, <2>5
<1>7. Alone(calls')
  BY <1>1, <1>3, <1>5, <1>6 DEF Alone
<1>8. PICK l : l = [Innermost EXCEPT !.left = Tail(@), !.measuring = TRUE, !.env = python_env[a],
                                     !.measured = Append(@, a)]
  OBVIOUS
<1>9. loops' = [loops EXCEPT ![Len(loops)] = l]
  BY <1>8 DEF RunCoverage
<1>10. /\ l.measured = Append(Innermost.measured, a) /\ l.left = Tail(Innermost.left)
       /\ l.failed = Innermost.failed
  BY <1>1, <1>8 DEF Loop
<1>11. ~ Innermost.failed /\ Complete(calls[1].plan, Innermost)
  BY <1>1 DEF RunCoverage, NextCovered, Accounts, Innermost
<1>12. Complete(calls[1].plan, l)
  <2>1. Innermost.measured \in Seq(InitActions) /\ Innermost.left \in Seq(InitActions)
    BY <1>1 DEF Loop
  <2>2. l.measured \o l.left = Innermost.measured \o Innermost.left
    BY <1>1, <1>10, <2>1, TakeNext
  <2> QED
    BY <1>10, <1>11, <2>2 DEF Complete
<1>13. \A i \in DOMAIN loops' : Complete(calls[1].plan, loops'[i])
  BY <1>1, <1>9, <1>12 DEF Accounts
<1>14. UNCHANGED <<coverage_tasks, covered_tasks, prepared>>
  BY DEF RunCoverage, plugin
<1>15. Registered(calls[1], coverage_tasks, covered_tasks, prepared)
  BY <1>1 DEF Accounts
<1> QED
  BY <1>1, <1>3, <1>5, <1>7, <1>13, <1>14, <1>15 DEF Accounts

LEMMA BeginLoopAccounts ==
  ASSUME IInv, Core, PluginOK, Accounts, ~ replanned, BeginLoop
  PROVE  Accounts'
<1>1. /\ BetweenSteps /\ StepsOf(Inner)[Inner.step].callable = CoverageBody
      /\ Open /\ InTask(Inner) /\ Inner.step <= Len(StepsOf(Inner))
  BY DEF BeginLoop, StartStep, BetweenSteps
<1>2. Alone(calls) /\ Inner \in Call /\ InBounds(Inner)
  BY <1>1, Now DEF Accounts
<1>3. Len(calls) = 1 /\ Inner = calls[1]
  <2>1. Len(calls) # 2
    BY <1>1, <1>2, MeasuredSteps
  <2> QED
    BY <1>1, <1>2, <2>1, AloneFacts
<1>4. TaskOf(Inner) = CoverageTask /\ Covering(Inner.plan)
  <2>1. /\ TaskOf(Inner) \in Task /\ Inner.step \in Nat \ {0}
        /\ DOMAIN StepsOf(Inner) = 1..Len(StepsOf(Inner)) /\ Len(StepsOf(Inner)) \in Nat
        /\ Inner.pos \in DOMAIN Inner.plan
    BY <1>1, <1>2, StepFacts DEF InTask
  <2>2. Inner.step \in DOMAIN Steps[TaskOf(Inner)]
    BY <1>1, <2>1 DEF StepsOf
  <2>3. TaskOf(Inner) = CoverageTask
    BY <1>1, <2>1, <2>2, PlacementAssumption DEF StepsOf
  <2> QED
    BY <2>1, <2>3 DEF Covering, Elements, TaskOf
<1>5. Registered(Inner, coverage_tasks, covered_tasks, prepared)
  BY <1>1, <1>3 DEF Accounts
<1>6. prepared => Once(covered_tasks, Part(Inner.plan)) /\ InTime(Inner.plan)
  <2>1. ~ InPrepare(Inner)
    BY <1>4, PlacementAssumption DEF InPrepare
  <2> QED
    BY <1>4, <1>5, <2>1 DEF Registered
<1>7. PICK d, l : /\ d = [Inner EXCEPT !.running = TRUE, !.began = @ \cup {Inner.step}]
                  /\ l = [ depth |-> Len(calls), measuring |-> FALSE, env |-> NoEnv,
                           left |-> IF prepared THEN covered_tasks ELSE <<>>,
                           failed |-> ~ prepared, interrupt |-> FALSE, measured |-> <<>> ]
  OBVIOUS
<1>8. /\ d.plan = Inner.plan /\ d.bodies = Inner.bodies /\ d.pos = Inner.pos
      /\ d.step = Inner.step /\ d.error = Inner.error
  BY <1>2, <1>7 DEF Call
<1>9. /\ Becomes(d) /\ UNCHANGED <<current_plan, coverage_tasks, covered_tasks, prepared>>
      /\ loops' = Append(loops, l)
  BY <1>7 DEF BeginLoop, StartStep, plugin
<1>10. Complete(Inner.plan, l)
  <2>1. ~ l.measuring /\ l.failed = ~ prepared /\ l.measured = <<>>
        /\ (prepared => l.left = covered_tasks)
    BY <1>7
  <2>2. <<>> \o covered_tasks = covered_tasks
    BY ConcatEmptySeq DEF PluginOK
  <2> QED
    BY <1>6, <2>1, <2>2 DEF Complete
<1>11. \A i \in DOMAIN loops' : Complete(calls[1].plan, loops'[i])
  <2>1. loops \in Seq(Loop) /\ l \in Loop
    <3>1. Len(calls) \in Nat \ {0}
      BY <1>1, Now
    <3>2. covered_tasks \in Seq(InitActions) /\ <<>> \in Seq(InitActions) /\ prepared \in BOOLEAN
      BY EmptySeq DEF PluginOK
    <3> QED
      BY <1>7, <3>1, <3>2 DEF Core, Loop
  <2>2. /\ Len(loops) \in Nat /\ DOMAIN loops = 1..Len(loops)
        /\ DOMAIN loops' = 1..(Len(loops) + 1)
        /\ \A i \in 1..Len(loops) : loops'[i] = loops[i]
        /\ loops'[Len(loops) + 1] = l
    BY <1>9, <2>1, AppendFacts
  <2>3. \A i \in DOMAIN loops' : i \in DOMAIN loops \/ i = Len(loops) + 1
    BY <2>2
  <2> QED
    BY <1>1, <1>3, <1>10, <2>2, <2>3 DEF Accounts
<1> QED
  BY <1>1, <1>8, <1>9, <1>11, StepAccounts

LEMMA EndingAccounts ==
  ASSUME IInv, Core, PluginOK, Accounts, ~ replanned, EndLoop \/ CoverageRaises
  PROVE  Accounts'
<1>1. Running /\ RunningStep.callable = CoverageBody
  BY DEF EndLoop, CoverageRaises, Role
<1>2. Open /\ Alone(calls)
  BY <1>1 DEF Accounts, Running
<1>3. Len(calls) = 1 /\ Inner = calls[1] /\ Inner \in Call
  BY <1>1, <1>2, OnlyCall
<1>4. /\ InTask(Inner) /\ Inner.step <= Len(StepsOf(Inner)) /\ Inner.step \in Nat \ {0}
      /\ StepsOf(Inner)[Inner.step].callable \notin InitActions \cup {PrepareBody}
  <2>1. InTask(Inner) /\ Inner.step <= Len(StepsOf(Inner)) /\ InBounds(Inner)
    BY <1>1, RolePlaces
  <2> QED
    BY <1>1, <1>3, <2>1, StepFacts, CoverageAssumption DEF RunningStep, InTask
<1>5. \A i \in DOMAIN Below(loops) : Complete(calls[1].plan, Below(loops)[i])
  <2>1. RunsCoverage(Inner)
    BY <1>1 DEF RunsCoverage, Running, RunningStep
  <2>2. loops # <<>> /\ loops \in Seq(Loop)
    BY <1>2, <2>1, LoopDropped DEF Core
  <2> QED
    BY <1>2, <2>2, BelowComplete DEF Accounts
<1>6. PICK d, e : /\ d = [Inner EXCEPT !.running = FALSE, !.step = @ + 1]
                  /\ e = [Inner EXCEPT !.running = FALSE, !.step = @ + 1,
                                       !.error = IF @ = 0 THEN Inner.step ELSE @,
                                       !.failures = Append(@, Inner.step)]
  OBVIOUS
<1>7. UNCHANGED <<coverage_tasks, covered_tasks, prepared>>
  BY DEF EndLoop, CoverageRaises, plugin
<1>8. CASE CallableReturns /\ loops' = Below(loops)
  <2>1. /\ d.plan = Inner.plan /\ d.bodies = Inner.bodies /\ d.pos = Inner.pos
        /\ d.step = Inner.step + 1 /\ d.error = Inner.error
    BY <1>3, <1>6 DEF Call
  <2>2. Becomes(d) /\ UNCHANGED current_plan
    BY <1>6, <1>8 DEF CallableReturns
  <2> QED
    BY <1>2, <1>4, <1>5, <1>7, <1>8, <2>1, <2>2, StepAccounts
<1>9. CASE CallableRaises /\ loops' = Below(loops)
  <2>1. /\ e.plan = Inner.plan /\ e.bodies = Inner.bodies /\ e.pos = Inner.pos
        /\ e.step = Inner.step + 1 /\ (e.error = Inner.error \/ e.error # 0)
    BY <1>3, <1>4, <1>6 DEF Call
  <2>2. Becomes(e) /\ UNCHANGED current_plan
    BY <1>6, <1>9 DEF CallableRaises
  <2> QED
    BY <1>2, <1>4, <1>5, <1>7, <1>9, <2>1, <2>2, StepAccounts
<1>10. CASE CallableRaisesThrough
  BY <1>2, <1>3, <1>10, LeaveAccounts DEF CallableRaisesThrough
<1> QED
  BY <1>8, <1>9, <1>10 DEF EndLoop, CoverageRaises

LEMMA ReturningAccounts ==
  ASSUME IInv, Core, Accounts, ~ replanned, CallReturns \/ CallRaises
  PROVE  Accounts'
<1>1. PICK how : Leave(how) /\ CallOver(loops, how)
  BY DEF CallReturns, CallRaises, PlanReturns, TaskRaises, CallableRaisesThrough
<1>2. Open /\ UNCHANGED <<current_plan, coverage_tasks, covered_tasks, prepared>>
  BY DEF CallReturns, CallRaises, PlanReturns, TaskRaises, CallableRaisesThrough, StepsOver,
         Others, Running, plugin
<1>3. calls # <<>> /\ Len(calls) \in Nat \ {0}
  BY <1>2, Now
<1>4. \A i \in DOMAIN loops' : Complete(calls[1].plan, loops'[i])
  BY <1>1, <1>2, <1>3, CallOverComplete DEF Core, Accounts
<1> QED
  BY <1>1, <1>2, <1>4, LeaveAccounts

LEMMA InterruptAccounts ==
  ASSUME IInv, Core, Accounts, ~ replanned, Interrupt
  PROVE  Accounts'
<1>1. /\ Running /\ Open /\ Leave("interrupted")
      /\ UNCHANGED <<current_plan, coverage_tasks, covered_tasks, prepared>>
  BY DEF Interrupt, CallableInterrupted, Running, plugin
<1>2. calls # <<>> /\ Len(calls) \in Nat \ {0}
  BY <1>1, Now
<1>3. ASSUME Len(calls) = 2 PROVE \A i \in DOMAIN loops' : Complete(calls[1].plan, loops'[i])
  <2>1. RunningStep.callable # CoverageBody
    BY <1>1, <1>3, OnlyCall DEF Accounts
  <2>2. CallOver(loops, "interrupted")
    BY <2>1 DEF Interrupt
  <2> QED
    BY <1>1, <1>2, <2>2, CallOverComplete DEF Core, Accounts
<1> QED
  BY <1>1, <1>3, LeaveAccounts

LEMMA InitAccounts == CovInit => Accounts
<1> SUFFICES ASSUME CovInit PROVE Accounts
  OBVIOUS
<1>1. PICK d : d = NewCall("plan", request, PlanOf[request], Callable)
  OBVIOUS
<1>2. calls = <<d>> /\ request \in Requests /\ current_plan = d.plan
  BY <1>1 DEF CovInit, Init, NewCall
<1>3. d.plan = PlanOf[request] /\ d.bodies = Callable /\ d.pos = 1 /\ ~ InTask(d)
  BY <1>1 DEF NewCall, InTask
<1>4. Len(calls) = 1 /\ calls[1] = d
  BY <1>2
<1>5. Alone(calls)
  BY <1>2, <1>3, <1>4, TaskExecutionAssumption DEF Alone, RightPlan
<1>6. Registered(d, <<>>, <<>>, FALSE)
  <2>1. ~ PastPrepare(d)
    BY <1>3 DEF PastPrepare, InPrepare
  <2>2. Reached(d) = {}
    BY <1>3 DEF Reached, InPrepare
  <2>3. DOMAIN <<>> = {}
    OBVIOUS
  <2>4. Once(<<>>, {})
    BY <2>3 DEF Once, Elements
  <2> QED
    BY <2>1, <2>2, <2>4 DEF Registered
<1>7. DOMAIN loops = {}
  BY DEF CovInit
<1> QED
  BY <1>2, <1>4, <1>5, <1>6, <1>7 DEF Accounts, CovInit

LEMMA NextAccounts ==
  ASSUME IInv, PluginOK, Core, Accounts, [CovNext]_<<vars, coverage>>
  PROVE  Accounts'
<1> SUFFICES ASSUME Open', ~ replanned', CovNext PROVE Accounts'
  BY DEF Accounts, Open, Alone, vars, coverage, plugin
<1>1. ~ Replan
  BY DEF Replan
<1>2. ~ CovEnded
  BY DEF CovEnded, Ended, Open, vars
<1>4. ~ replanned
  BY <1>1, <1>2 DEF CovNext, Register, PassOver, RunCoverage, Prepare, PrepareRaises,
         BeginLoop, EndLoop, CoverageRaises, Within, coverage, CallReturns, CallRaises, Interrupt
<1>5. CASE \E a \in InitActions : Register(a) \/ PassOver(a) \/ RunCoverage(a)
  BY <1>4, <1>5, RegisterAccounts, PassOverNever, RunCoverageAccounts
<1>6. CASE Prepare \/ PrepareRaises
  BY <1>4, <1>6, PrepareAccounts, PrepareRaisesAccounts
<1>7. CASE BeginLoop
  BY <1>4, <1>7, BeginLoopAccounts
<1>8. CASE EndLoop \/ CoverageRaises
  BY <1>4, <1>8, EndingAccounts
<1>9. CASE Within
  <2>1. Open
    BY <1>9 DEF Within, BeginTask, SkipStep, StartStep, BetweenSteps, TaskSucceeds, StepsOver,
                Others, Running
  <2> QED
    BY <1>4, <1>9, <2>1, WithinAccounts
<1>10. CASE CallReturns \/ CallRaises
  BY <1>4, <1>10, ReturningAccounts
<1>11. CASE Interrupt
  BY <1>4, <1>11, InterruptAccounts
<1> QED
  BY <1>1, <1>2, <1>5, <1>6, <1>7, <1>8, <1>9, <1>10, <1>11 DEF CovNext

\* As long as no callable asks for a plan, the coverage_init that have come to
\* their turn, the list of `prepare` and the loop of `coverage` speak of the same
\* tests: those of the plan of the build.
THEOREM CoverageAccounts == CovSpec => []Accounts
<1>1. CovInit => IInv /\ PluginOK /\ Core /\ Accounts
  BY InitCovInv, InitAccounts
<1>2. IInv /\ PluginOK /\ Core /\ Accounts /\ [CovNext]_<<vars, coverage>>
        => IInv' /\ PluginOK' /\ Core' /\ Accounts'
  BY NextCovInv, NextAccounts
<1> QED
  BY <1>1, <1>2, PTL DEF CovSpec

\* When `coverage` of such a build has come through its list, the tests measured
\* are those of the plan whose plugin takes part, each once, and each comes before
\* `coverage` in the plan.
THEOREM MeasuredAlwaysOnce == CovSpec => []MeasuredOnceEach
<1>1. IInv /\ PluginOK /\ Core /\ Accounts => MeasuredOnceEach
  <2> SUFFICES ASSUME IInv, PluginOK, Core, Accounts,
                      NEW l \in Elements(loops),
                      ~ replanned, ~ l.failed, ~ l.measuring, l.left = <<>>,
                      NEW c, c = calls[l.depth]
               PROVE  /\ Elements(l.measured) =
                           {a \in InitActions : Covers[a].task \in Elements(c.plan)}
                      /\ \A i, j \in DOMAIN l.measured : l.measured[i] = l.measured[j] => i = j
                      /\ \A a \in Elements(l.measured) :
                           \E i \in 1..(c.pos - 1) : c.plan[i] = Covers[a].task
    BY DEF MeasuredOnceEach
  <2>1. Open /\ Alone(calls) /\ calls # <<>> /\ Len(calls) \in Nat \ {0}
    <3>1. loops # <<>>
      BY DEF Elements
    <3>2. Open
      BY <3>1 DEF Core, Fits, Open
    <3> QED
      BY <3>2, Now DEF Accounts
  <2>2. PICK n \in DOMAIN loops : l = loops[n]
    BY DEF Elements
  <2>3. l \in Loop /\ l.depth = Len(calls) /\ RunsCoverage(calls[Len(calls)])
    <3>1. loops[n] \in Loop /\ loops[n].depth \in 1..Len(calls) /\ ~ (loops[n].depth < Len(calls))
          /\ RunsCoverage(calls[loops[n].depth])
      <4>1. loops[n].depth \in {d \in 1..Len(calls) : RunsCoverage(calls[d])}
        BY <2>1 DEF Core, Fits, Nested
      <4>2. ~ (loops[n].depth < Len(calls))
        BY <2>1, <2>2 DEF Core, Fits
      <4> QED
        BY <4>1, <4>2, LoopFacts DEF Core
    <3>2. l.depth = Len(calls)
      BY <2>1, <2>2, <3>1
    <3> QED
      BY <2>2, <3>1, <3>2
  <2>4. c = Inner /\ Running /\ RunningStep.callable = CoverageBody
    BY <2>1, <2>3 DEF Inner, Running, RunningStep, RunsCoverage
  <2>5. /\ Len(calls) = 1 /\ Inner = calls[1] /\ Inner \in Call
        /\ TaskOf(Inner) = CoverageTask /\ InTask(Inner) /\ InBounds(Inner)
    BY <2>1, <2>4, OnlyCall, RolePlaces
  <2>6. Once(l.measured, Part(c.plan)) /\ InTime(c.plan)
    <3>1. Complete(c.plan, l)
      BY <2>1, <2>2, <2>4, <2>5 DEF Accounts
    <3>2. l.measured \o <<>> = l.measured
      BY <2>3, ConcatEmptySeq DEF Loop
    <3> QED
      BY <3>1, <3>2 DEF Complete
  <2>7. ASSUME NEW a \in Elements(l.measured)
        PROVE  \E i \in 1..(c.pos - 1) : c.plan[i] = Covers[a].task
    <3>1. PICK i, j \in DOMAIN c.plan :
            c.plan[i] = Covers[a].task /\ c.plan[j] = CoverageTask /\ i < j
      BY <2>6, <2>7 DEF Once, InTime
    <3>2. /\ c.pos \in DOMAIN c.plan /\ c.plan[c.pos] = CoverageTask
          /\ DOMAIN c.plan = 1..Len(c.plan) /\ Len(c.plan) \in Nat
      <4>1. /\ c.pos \in Nat \ {0} /\ c.pos <= Len(c.plan) /\ Len(c.plan) \in Nat
            /\ DOMAIN c.plan = 1..Len(c.plan)
        BY <2>4, <2>5, StepFacts
      <4> QED
        BY <2>4, <2>5, <4>1 DEF TaskOf
    <3>3. j = c.pos
      BY <2>1, <2>4, <2>5, <3>1, <3>2 DEF Alone
    <3>4. i \in 1..(c.pos - 1)
      BY <3>1, <3>2, <3>3
    <3> QED
      BY <3>1, <3>4
  <2> QED
    BY <2>6, <2>7 DEF Once, Part
<1> QED
  BY <1>1, CoverageInvariance, CoverageAccounts, PTL

=============================================================================
