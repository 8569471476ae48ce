--------------------------- MODULE TrustWalkProofs --------------------------
(***************************************************************************)
(* What the runner's walk accepts as root is the kernel's resolution of    *)
(* the path through root's own nodes, and what it refuses has a node that  *)
(* is not: for every file system, path and number of links.                *)
(***************************************************************************)
EXTENDS TrustWalk, Induction

-----------------------------------------------------------------------------
(* The kernel's resolution                                                 *)

LEMMA LayoutFacts ==
    ASSUME NEW f \in Layouts
    PROVE  /\ \A d \in Dirs, x \in Names : f.entry[d][x] \in Nodes \cup {NoEntry}
           /\ \A l \in Links : /\ f.target[l].comps \in Seq(Components)
                               /\ f.target[l].abs \in BOOLEAN
                               /\ Len(f.target[l].comps) <= MaxTarget
BY WalkAssumption

LEMMA Ends ==
    ASSUME NEW S, NEW s \in Seq(S), s # <<>>
    PROVE  /\ Last(s) \in S /\ Last(s) = s[Len(s)] /\ Len(s) \in Nat \ {0}
           /\ Front(s) \in Seq(S) /\ Len(Front(s)) = Len(s) - 1
           /\ \A i \in 1..(Len(s) - 1) : Front(s)[i] = s[i]
           /\ Head(s) \in S /\ Head(s) = s[1]
           /\ Tail(s) \in Seq(S) /\ Len(Tail(s)) = Len(s) - 1
           /\ s = <<Head(s)>> \o Tail(s)
BY DEF Last, Front

\* What one more component does, case by case.
Is(k, stack, comps, fuel, seen, node) ==
    /\ k.stack = stack /\ k.comps = comps /\ k.fuel = fuel /\ k.seen = seen
    /\ k.node = node

StepCases(f, k, c, n, after, one) ==
    /\ one \in Configs /\ n \in Nodes \cup {NoEntry}
    /\ c \in Components /\ after \in Seq(Components)
    /\ c = Dot => Is(one, k.stack, after, k.fuel, k.seen, Walking)
    /\ c = DotDot =>
         Is(one, IF Len(k.stack) > 1 THEN Front(k.stack) ELSE k.stack, after,
            k.fuel, k.seen, Walking)
    /\ n \in Dirs =>
         Is(one, Append(k.stack, n), after, k.fuel, k.seen \cup {n}, Walking)
    /\ n \in Links /\ k.fuel > 0 =>
         Is(one, IF f.target[n].abs THEN <<Root>> ELSE k.stack,
            f.target[n].comps \o after, k.fuel - 1, k.seen \cup {n}, Walking)
    /\ n \in Files /\ after = <<>> =>
         Is(one, k.stack, after, k.fuel, k.seen \cup {n}, n)
    /\ c \in Names /\ n \notin Dirs /\ ~ (n \in Links /\ k.fuel > 0)
         /\ ~ (n \in Files /\ after = <<>>) =>
         Is(one, k.stack, after, k.fuel, k.seen, NoEntry)

LEMMA OneStep ==
    ASSUME NEW f \in Layouts, NEW k \in Configs, k.node = Walking, k.comps # <<>>
    PROVE  StepCases(f, k, Head(k.comps), Lookup(f, Last(k.stack), Head(k.comps)),
                     Tail(k.comps), ResolveOne(f)[k])
<1> DEFINE c == Head(k.comps)
           n == Lookup(f, Last(k.stack), c)
           after == Tail(k.comps)
           one == ResolveOne(f)[k]
<1>k. /\ k.stack \in Seq(Dirs) /\ k.stack # <<>> /\ k.comps \in Seq(Components)
      /\ k.fuel \in Nat /\ k.seen \subseteq Nodes
  BY DEF Configs
<1>1. Last(k.stack) \in Dirs
  BY <1>k, Ends
<1>2. c \in Components /\ after \in Seq(Components)
  BY <1>k, Ends
<1>3. n \in Nodes \cup {NoEntry}
  BY <1>1, <1>2, LayoutFacts DEF Lookup
<1>4. one = Resolved(f, k, c, n)
  BY DEF ResolveOne
<1>5. /\ c \in {Dot, DotDot} => n = NoEntry /\ c \notin Names
      /\ NoEntry \notin Dirs /\ NoEntry \notin Files /\ NoEntry \notin Links
      /\ Dot # DotDot
      /\ \A m \in Dirs : m \notin Links /\ m \notin Files
      /\ \A m \in Links : m \notin Files
  BY WalkAssumption DEF Dot, DotDot, Lookup, Nodes
<1>c. c \in Names \/ c = Dot \/ c = DotDot
  BY <1>2 DEF Components
<1> SUFFICES StepCases(f, k, c, n, after, one)
  OBVIOUS
<1> HIDE DEF c, n, after, one
<1>7. CASE c = Dot
  <2>1. one = [k EXCEPT !.comps = after]
    BY <1>4, <1>5, <1>7 DEF Resolved, after
  <2>2. one \in Configs
    BY <2>1, <1>2 DEF Configs
  <2>i. Is(one, k.stack, after, k.fuel, k.seen, Walking)
    BY <2>1 DEF Is, Configs
  <2> QED BY <2>i, <2>2, <1>2, <1>3, <1>5, <1>7 DEF StepCases
<1>8. CASE c = DotDot
  <2> DEFINE s == IF Len(k.stack) > 1 THEN Front(k.stack) ELSE k.stack
  <2>1. one = [k EXCEPT !.comps = after, !.stack = s]
    BY <1>4, <1>5, <1>8 DEF Resolved, after
  <2>2. s \in Seq(Dirs) \ {<<>>}
    <3>1. Front(k.stack) \in Seq(Dirs) /\ Len(Front(k.stack)) = Len(k.stack) - 1
      BY <1>k, Ends
    <3>2. Len(k.stack) > 1 => Front(k.stack) # <<>>
      BY <1>k, <3>1
    <3> QED BY <1>k, <3>1, <3>2
  <2>3. one \in Configs
    BY <1>2, <2>1, <2>2 DEF Configs
  <2>i. Is(one, s, after, k.fuel, k.seen, Walking)
    BY <2>1 DEF Is, Configs
  <2> QED BY <2>i, <2>3, <1>2, <1>3, <1>5, <1>8 DEF StepCases
<1>9. CASE n \in Dirs
  <2>1. c # Dot /\ c # DotDot
    BY <1>5, <1>9
  <2>2. one = [k EXCEPT !.comps = after, !.stack = Append(k.stack, n),
                        !.seen = k.seen \cup {n}]
    BY <1>4, <1>5, <1>9, <2>1 DEF Resolved, after
  <2>3. Append(k.stack, n) \in Seq(Dirs) \ {<<>>} /\ k.seen \cup {n} \in SUBSET Nodes
    BY <1>k, <1>9 DEF Nodes
  <2>4. one \in Configs
    BY <1>2, <2>2, <2>3 DEF Configs
  <2>i. Is(one, Append(k.stack, n), after, k.fuel, k.seen \cup {n}, Walking)
    BY <2>2 DEF Is, Configs
  <2> QED BY <2>i, <2>1, <2>4, <1>2, <1>3, <1>5, <1>9 DEF StepCases
<1>10. CASE n \in Links /\ k.fuel > 0
  <2> DEFINE s == IF f.target[n].abs THEN <<Root>> ELSE k.stack
             t == f.target[n].comps \o after
  <2>1. c # Dot /\ c # DotDot /\ n \notin Dirs
    BY <1>5, <1>10
  <2>2. one = [k EXCEPT !.comps = t, !.stack = s, !.fuel = k.fuel - 1,
                        !.seen = k.seen \cup {n}]
    BY <1>4, <1>5, <1>10, <2>1 DEF Resolved, after
  <2>3. s \in Seq(Dirs) \ {<<>>} /\ k.seen \cup {n} \in SUBSET Nodes /\ k.fuel - 1 \in Nat
    BY <1>k, <1>10, WalkAssumption DEF Nodes
  <2>4. t \in Seq(Components)
    BY <1>2, <1>10, LayoutFacts
  <2> HIDE DEF s, t
  <2>5. one \in Configs
    BY <2>2, <2>3, <2>4 DEF Configs
  <2>i. Is(one, s, t, k.fuel - 1, k.seen \cup {n}, Walking)
    BY <2>2 DEF Is, Configs
  <2> QED BY <2>i, <2>1, <2>5, <1>2, <1>3, <1>5, <1>10 DEF StepCases, s, t
<1>11. CASE n \in Files /\ after = <<>>
  <2>1. c # Dot /\ c # DotDot /\ n \notin Dirs /\ n \notin Links
    BY <1>5, <1>11
  <2>2. one = [k EXCEPT !.comps = after, !.node = n, !.seen = k.seen \cup {n}]
    BY <1>4, <1>5, <1>11, <2>1 DEF Resolved, after
  <2>3. k.seen \cup {n} \in SUBSET Nodes /\ n \in Nodes
    BY <1>k, <1>11 DEF Nodes
  <2>4. one \in Configs
    BY <1>2, <2>2, <2>3 DEF Configs
  <2>i. Is(one, k.stack, after, k.fuel, k.seen \cup {n}, n)
    BY <2>2 DEF Is, Configs
  <2> QED BY <2>i, <2>1, <2>4, <1>2, <1>3, <1>5, <1>11 DEF StepCases
<1>12. CASE /\ c \in Names /\ n \notin Dirs /\ ~ (n \in Links /\ k.fuel > 0)
            /\ ~ (n \in Files /\ after = <<>>)
  <2>1. c # Dot /\ c # DotDot
    BY <1>5, <1>12
  <2>2. one = [k EXCEPT !.comps = after, !.node = NoEntry]
    BY <1>4, <1>5, <1>12, <2>1 DEF Resolved, after
  <2>3. one \in Configs
    BY <1>2, <2>2 DEF Configs
  <2>i. Is(one, k.stack, after, k.fuel, k.seen, NoEntry)
    BY <2>2 DEF Is, Configs
  <2> QED BY <2>i, <2>1, <2>3, <1>2, <1>3, <1>5, <1>12 DEF StepCases
<1> QED BY <1>7, <1>8, <1>9, <1>10, <1>11, <1>12, <1>c

\* A step adds to what was seen, keeps what has ended, and uses up a round.
LEMMA StepShrinks ==
    ASSUME NEW f \in Layouts, NEW k \in Configs, NEW one, one = ResolveOne(f)[k]
    PROVE  /\ one \in Configs /\ k.seen \subseteq one.seen
           /\ k.node # Walking => one = k
           /\ Rounds(k) \in Nat \ {0}
           /\ k.node = Walking /\ one.node = Walking => Rounds(one) <= Rounds(k) - 1
<1>k. k.comps \in Seq(Components) /\ k.fuel \in Nat /\ k.stack \in Seq(Dirs) /\ k.stack # <<>>
  BY DEF Configs
<1>m. MaxTarget \in Nat
  BY WalkAssumption
<1>p. \A i, j \in Nat : i * j \in Nat
  OBVIOUS
<1>1. Rounds(k) \in Nat \ {0}
  <2>1. k.fuel * MaxTarget \in Nat /\ Len(k.comps) \in Nat
    BY <1>k, <1>m, <1>p
  <2> QED BY <2>1 DEF Rounds
<1>2. CASE k.node # Walking
  BY <1>1, <1>2 DEF ResolveOne
<1>3. CASE k.node = Walking /\ k.comps = <<>>
  <2>1. one = [k EXCEPT !.node = Last(k.stack)]
    BY <1>3 DEF ResolveOne
  <2>2. Last(k.stack) \in Nodes /\ Walking \notin Nodes
    BY <1>k, Ends, WalkAssumption DEF Nodes
  <2>3. one.node = Last(k.stack) /\ one.seen = k.seen /\ one \in Configs
    BY <2>1, <2>2 DEF Configs
  <2> QED BY <1>1, <1>3, <2>2, <2>3
<1>4. CASE k.node = Walking /\ k.comps # <<>>
  <2> DEFINE c == Head(k.comps)
             n == Lookup(f, Last(k.stack), c)
             after == Tail(k.comps)
  <2>1. StepCases(f, k, c, n, after, one)
    BY <1>4, OneStep
  <2>2. Len(after) = Len(k.comps) - 1 /\ Len(k.comps) \in Nat
    BY <1>k, <1>4, Ends
  <2>3. c \in Names \/ c = Dot \/ c = DotDot
    BY <2>1 DEF StepCases, Components
  <2> HIDE DEF c, n, after
  <2>4. CASE one.comps = after /\ one.fuel = k.fuel /\ k.seen \subseteq one.seen
    <3>1. Rounds(one) = Rounds(k) - 1
      <4>1. k.fuel * MaxTarget \in Nat
        BY <1>k, <1>m, <1>p
      <4> QED BY <2>2, <2>4, <4>1 DEF Rounds
    <3> QED BY <1>1, <1>4, <2>1, <2>4, <3>1 DEF StepCases
  <2>5. CASE n \in Links /\ k.fuel > 0
    <3> DEFINE t == f.target[n].comps
    <3>1. /\ one.comps = t \o after /\ one.fuel = k.fuel - 1 /\ k.seen \subseteq one.seen
      BY <2>1, <2>5 DEF StepCases, Is
    <3>2. t \in Seq(Components) /\ Len(t) <= MaxTarget /\ Len(t) \in Nat
      BY <2>5, LayoutFacts
    <3> HIDE DEF t
    <3>3. Len(one.comps) = Len(t) + Len(k.comps) - 1
      <4>1. after \in Seq(Components)
        BY <2>1 DEF StepCases
      <4>2. Len(t \o after) = Len(t) + Len(after)
        BY <3>2, <4>1
      <4> QED BY <2>2, <3>1, <3>2, <4>2
    <3>4. (k.fuel - 1) * MaxTarget = k.fuel * MaxTarget - MaxTarget
      BY <1>k, <1>m
    <3>5. Rounds(one) <= Rounds(k) - 1
      <4> DEFINE a == k.fuel * MaxTarget
                 b == (k.fuel - 1) * MaxTarget
      <4>1. a \in Nat /\ b = a - MaxTarget
        BY <1>k, <1>m, <1>p, <3>4
      <4>2. Rounds(one) = Len(one.comps) + b + 1 /\ Rounds(k) = Len(k.comps) + a + 1
        BY <3>1 DEF Rounds
      <4> HIDE DEF a, b
      <4> QED BY <1>m, <2>2, <3>2, <3>3, <4>1, <4>2
    <3> QED BY <1>1, <1>4, <2>1, <3>1, <3>5 DEF StepCases
  <2>6. CASE ~ (n \in Links /\ k.fuel > 0)
    <3>1. one.comps = after /\ one.fuel = k.fuel /\ k.seen \subseteq one.seen
      <4>1. CASE c = Dot
        BY <2>1, <4>1 DEF StepCases, Is
      <4>2. CASE c = DotDot
        BY <2>1, <4>2 DEF StepCases, Is
      <4>3. CASE n \in Dirs
        BY <2>1, <4>3 DEF StepCases, Is
      <4>4. CASE n \in Files /\ after = <<>>
        BY <2>1, <4>4 DEF StepCases, Is
      <4>5. CASE c \in Names /\ n \notin Dirs /\ ~ (n \in Files /\ after = <<>>)
        BY <2>1, <2>6, <4>5 DEF StepCases, Is
      <4> QED BY <2>3, <4>1, <4>2, <4>3, <4>4, <4>5
    <3> QED BY <2>4, <3>1
  <2> QED BY <2>5, <2>6
<1> QED BY <1>2, <1>3, <1>4

\* The resolution as the sequence of what it comes to.
IsRun(f, k, run) ==
    /\ run \in [Nat -> Configs] /\ run[0] = k
    /\ \A i \in Nat : run[i + 1] = ResolveOne(f)[run[i]]

LEMMA ResolveRuns ==
    ASSUME NEW f \in Layouts, NEW k \in Configs
    PROVE  \E run : IsRun(f, k, run) /\ Resolve(f, k) = run[Rounds(k)]
<1> DEFINE step == [p \in Nat \X Configs |-> ResolveOne(f)[p[2]]]
           Eq(g) == g = [i \in Nat |-> IF i = 0 THEN k ELSE ResolveOne(f)[g[i - 1]]]
           run == CHOOSE g : Eq(g)
<1>1. \A x \in Configs : ResolveOne(f)[x] \in Configs
  BY StepShrinks
<1>2. step \in [Nat \X Configs -> Configs] /\ \A n \in Nat, x \in Configs : step[<<n, x>>] = ResolveOne(f)[x]
  BY <1>1
<1> HIDE DEF step
<1>3. PICK g : Recursive(g, Configs, k, step)
  BY <1>2, PrimitiveRecursion
<1>4. Eq(g)
  <2>1. g \in [Nat -> Configs] /\ g[0] = k
    BY <1>3 DEF Recursive
  <2>2. ASSUME NEW i \in Nat \ {0} PROVE g[i] = ResolveOne(f)[g[i - 1]]
    <3>1. g[i - 1] \in Configs
      BY <2>1
    <3> QED BY <1>2, <1>3, <3>1 DEF Recursive
  <2>3. \A i \in Nat : g[i] = IF i = 0 THEN k ELSE ResolveOne(f)[g[i - 1]]
    BY <2>1, <2>2
  <2> QED BY <2>1, <2>3
<1>5. Eq(run)
  <2> HIDE DEF Eq
  <2> QED BY <1>4, Zenon
<1>6. Resolve(f, k) = run[Rounds(k)]
  BY DEF Resolve
<1>7. /\ run = [i \in Nat |-> run[i]]
      /\ run[0] = k /\ \A i \in Nat : i # 0 => run[i] = ResolveOne(f)[run[i - 1]]
  <2>1. \A i \in Nat : run[i] = IF i = 0 THEN k ELSE ResolveOne(f)[run[i - 1]]
    BY <1>5, Zenon
  <2>2. DOMAIN run = Nat /\ run = [i \in Nat |-> IF i = 0 THEN k ELSE ResolveOne(f)[run[i - 1]]]
    BY <1>5, Zenon
  <2> HIDE DEF run
  <2> QED BY <2>1, <2>2
<1> HIDE DEF run
<1>8. \A i \in Nat : run[i + 1] = ResolveOne(f)[run[i]]
  <2> SUFFICES ASSUME NEW i \in Nat PROVE run[i + 1] = ResolveOne(f)[run[i]]
    OBVIOUS
  <2>1. i + 1 \in Nat /\ i + 1 # 0 /\ (i + 1) - 1 = i
    OBVIOUS
  <2>2. run[i + 1] = ResolveOne(f)[run[(i + 1) - 1]]
    BY <1>7, <2>1
  <2> QED BY <2>1, <2>2
<1>9. \A n \in Nat : run[n] \in Configs
  <2> DEFINE T == {n \in Nat : run[n] \in Configs}
  <2>1. 0 \in T
    BY <1>7
  <2>2. ASSUME NEW n \in Nat, n \in T PROVE n + 1 \in T
    BY <1>1, <1>8, <2>2
  <2>3. \A n \in Nat : n \in T
    <3> HIDE DEF T
    <3> QED BY <2>1, <2>2, SetInduction
  <2> QED BY <2>3
<1>10. run \in [Nat -> Configs]
  BY <1>7, <1>9
<1> QED BY <1>6, <1>7, <1>8, <1>10 DEF IsRun

LEMMA RunFacts ==
    ASSUME NEW f \in Layouts, NEW k \in Configs, NEW run, IsRun(f, k, run), NEW n \in Nat
    PROVE  /\ k.seen \subseteq run[n].seen
           /\ run[n].node = Walking => Rounds(run[n]) + n <= Rounds(k)
           /\ run[n].node # Walking => \A m \in Nat : run[n + m] = run[n]
<1>r. run \in [Nat -> Configs] /\ run[0] = k
  BY DEF IsRun
<1>s. ASSUME NEW i \in Nat
      PROVE  /\ run[i] \in Configs /\ run[i + 1] \in Configs
             /\ run[i].seen \subseteq run[i + 1].seen
             /\ run[i].node # Walking => run[i + 1] = run[i]
             /\ Rounds(run[i]) \in Nat
             /\ run[i].node = Walking /\ run[i + 1].node = Walking =>
                  Rounds(run[i + 1]) <= Rounds(run[i]) - 1
  <2>1. run[i] \in Configs /\ run[i + 1] = ResolveOne(f)[run[i]]
    BY <1>r DEF IsRun
  <2> QED BY <2>1, StepShrinks
<1>1. \A i \in Nat : k.seen \subseteq run[i].seen
  <2> DEFINE T == {i \in Nat : k.seen \subseteq run[i].seen}
  <2>1. 0 \in T
    BY <1>r
  <2>2. ASSUME NEW i \in Nat, i \in T PROVE i + 1 \in T
    <3>1. k.seen \subseteq run[i].seen /\ run[i].seen \subseteq run[i + 1].seen
      BY <1>s, <2>2
    <3> QED BY <3>1
  <2>3. \A i \in Nat : i \in T
    <3> HIDE DEF T
    <3> QED BY <2>1, <2>2, SetInduction
  <2> QED BY <2>3
<1>2. \A i \in Nat : run[i].node = Walking => Rounds(run[i]) + i <= Rounds(k)
  <2> DEFINE T == {i \in Nat : run[i].node = Walking => Rounds(run[i]) + i <= Rounds(k)}
  <2>0. Rounds(k) \in Nat
    BY <1>r, <1>s
  <2>1. 0 \in T
    BY <1>r, <2>0
  <2>2. ASSUME NEW i \in Nat, i \in T PROVE i + 1 \in T
    <3> SUFFICES ASSUME run[i + 1].node = Walking PROVE Rounds(run[i + 1]) + (i + 1) <= Rounds(k)
      OBVIOUS
    <3>1. run[i].node = Walking
      BY <1>s
    <3>2. Rounds(run[i]) + i <= Rounds(k) /\ Rounds(run[i + 1]) <= Rounds(run[i]) - 1
      BY <1>s, <2>2, <3>1
    <3>3. Rounds(run[i]) \in Nat /\ Rounds(run[i + 1]) \in Nat
      BY <1>s
    <3> QED BY <2>0, <3>2, <3>3
  <2>3. \A i \in Nat : i \in T
    <3> HIDE DEF T
    <3> QED BY <2>1, <2>2, SetInduction
  <2> QED BY <2>3
<1>3. ASSUME run[n].node # Walking PROVE \A m \in Nat : run[n + m] = run[n]
  <2> DEFINE T == {m \in Nat : run[n + m] = run[n]}
  <2>1. 0 \in T
    OBVIOUS
  <2>2. ASSUME NEW m \in Nat, m \in T PROVE m + 1 \in T
    <3>1. run[(n + m) + 1] = run[n + m]
      BY <1>s, <1>3, <2>2
    <3>2. (n + m) + 1 = n + (m + 1)
      OBVIOUS
    <3> QED BY <2>2, <3>1, <3>2
  <2>3. \A m \in Nat : m \in T
    <3> HIDE DEF T
    <3> QED BY <2>1, <2>2, SetInduction
  <2> QED BY <2>3
<1> QED BY <1>1, <1>2, <1>3

\* It ends, with all that was seen, and what has ended is its own end.
LEMMA ResolveEnds ==
    ASSUME NEW f \in Layouts, NEW k \in Configs
    PROVE  /\ Resolve(f, k) \in Configs /\ Resolve(f, k).node # Walking
           /\ k.seen \subseteq Resolve(f, k).seen
           /\ k.node # Walking => Resolve(f, k) = k
<1>1. PICK run : IsRun(f, k, run) /\ Resolve(f, k) = run[Rounds(k)]
  BY ResolveRuns
<1> DEFINE R == Rounds(k)
<1>2. R \in Nat
  BY StepShrinks
<1>3. run[R] \in Configs /\ Rounds(run[R]) \in Nat \ {0}
  <2>1. run[R] \in Configs
    BY <1>1, <1>2 DEF IsRun
  <2> QED BY <2>1, StepShrinks
<1>4. k.seen \subseteq run[R].seen /\ (run[R].node = Walking => Rounds(run[R]) + R <= R)
  BY <1>1, <1>2, RunFacts
<1>5. run[R].node # Walking
  BY <1>2, <1>3, <1>4
<1>6. ASSUME k.node # Walking PROVE run[R] = k
  <2>1. run[0] = k /\ 0 \in Nat
    BY <1>1 DEF IsRun
  <2>2. run[0 + R] = run[0]
    BY <1>1, <1>2, <1>6, <2>1, RunFacts
  <2> QED BY <1>2, <2>1, <2>2
<1> QED BY <1>1, <1>3, <1>4, <1>5, <1>6

\* One step does not change where it ends.
LEMMA ResolveUnfolds ==
    ASSUME NEW f \in Layouts, NEW k \in Configs, NEW one, one = ResolveOne(f)[k]
    PROVE  Resolve(f, k) = Resolve(f, one)
<1>1. PICK run : IsRun(f, k, run) /\ Resolve(f, k) = run[Rounds(k)]
  BY ResolveRuns
<1>o. one \in Configs
  BY StepShrinks
<1>2. PICK later : IsRun(f, one, later) /\ Resolve(f, one) = later[Rounds(one)]
  BY <1>o, ResolveRuns
<1>3. \A n \in Nat : later[n] = run[n + 1]
  <2> DEFINE T == {n \in Nat : later[n] = run[n + 1]}
  <2>1. 0 \in T
    <3>1. run[0 + 1] = ResolveOne(f)[run[0]] /\ run[0] = k /\ later[0] = one
      BY <1>1, <1>2 DEF IsRun
    <3> QED BY <3>1
  <2>2. ASSUME NEW n \in Nat, n \in T PROVE n + 1 \in T
    <3>1. later[n + 1] = ResolveOne(f)[later[n]] /\ run[(n + 1) + 1] = ResolveOne(f)[run[n + 1]]
      BY <1>1, <1>2 DEF IsRun
    <3> QED BY <2>2, <3>1
  <2>3. \A n \in Nat : n \in T
    <3> HIDE DEF T
    <3> QED BY <2>1, <2>2, SetInduction
  <2> QED BY <2>3
<1> DEFINE a == Rounds(k)
           b == Rounds(one) + 1
<1>4. a \in Nat /\ b \in Nat /\ Rounds(one) \in Nat
  BY <1>o, StepShrinks
<1>5. run[a].node # Walking
  BY <1>1, ResolveEnds
<1>6. run[b].node # Walking /\ Resolve(f, one) = run[b]
  BY <1>o, <1>2, <1>3, <1>4, ResolveEnds
<1>7. \A m \in Nat : run[a + m] = run[a] /\ run[b + m] = run[b]
  BY <1>1, <1>4, <1>5, <1>6, RunFacts
<1> HIDE DEF a, b
<1>8. run[a] = run[b]
  <2>1. CASE a <= b
    <3>1. b - a \in Nat /\ a + (b - a) = b
      BY <1>4, <2>1
    <3> QED BY <1>7, <3>1
  <2>2. CASE b <= a
    <3>1. a - b \in Nat /\ b + (a - b) = a
      BY <1>4, <2>2
    <3> QED BY <1>7, <3>1
  <2> QED BY <1>4, <2>1, <2>2
<1> QED BY <1>1, <1>6, <1>8 DEF a

\* With no component left it has arrived.
LEMMA Arrives ==
    ASSUME NEW f \in Layouts, NEW k \in Configs, k.node = Walking, k.comps = <<>>
    PROVE  Resolve(f, k).node = Last(k.stack) /\ Resolve(f, k).seen = k.seen
<1> DEFINE one == ResolveOne(f)[k]
<1>1. one = [k EXCEPT !.node = Last(k.stack)]
  BY DEF ResolveOne
<1>2. Last(k.stack) \in Nodes /\ Walking \notin Nodes
  <2>1. k.stack \in Seq(Dirs) /\ k.stack # <<>>
    BY DEF Configs
  <2> QED BY <2>1, Ends, WalkAssumption DEF Nodes
<1>3. one.node = Last(k.stack) /\ one.seen = k.seen
  BY <1>1 DEF Configs
<1>4. one \in Configs /\ Resolve(f, k) = Resolve(f, one)
  BY StepShrinks, ResolveUnfolds
<1> HIDE DEF one
<1>5. Resolve(f, one) = one
  BY <1>2, <1>3, <1>4, ResolveEnds
<1> QED BY <1>3, <1>4, <1>5

LEMMA StartTyped ==
    ASSUME NEW p \in Seq(Components)
    PROVE  /\ Start(p) \in Configs
           /\ Is(Start(p), <<Root>>, p, MaxHops, {Root}, Walking)
BY WalkAssumption DEF Start, Configs, Is, Nodes

LEMMA HeadTailOfCons ==
    ASSUME NEW S, NEW e \in S, NEW s \in Seq(S), NEW t, t = <<e>> \o s
    PROVE  t # <<>> /\ Head(t) = e /\ Tail(t) = s
<1>1. t \in Seq(S) /\ Len(t) = Len(s) + 1 /\ t[1] = e /\ \A i \in 1..Len(s) : t[i + 1] = s[i]
  <2>1. <<e>> \in Seq(S) /\ Len(<<e>>) = 1 /\ <<e>>[1] = e
    OBVIOUS
  <2>2. t \in Seq(S) /\ Len(t) = 1 + Len(s) /\ t[1] = e
    BY <2>1
  <2>3. ASSUME NEW i \in 1..Len(s) PROVE t[i + 1] = s[i]
    BY <2>1
  <2> QED BY <2>2, <2>3
<1>2. t # <<>> /\ Head(t) = e
  BY <1>1
<1>3. /\ Tail(t) \in Seq(S) /\ Len(Tail(t)) = Len(s)
      /\ \A i \in 1..Len(s) : Tail(t)[i] = s[i]
  BY <1>1, <1>2
<1> QED BY <1>2, <1>3, SeqEqual

LEMMA FrontOfPrefix ==
    ASSUME NEW S, NEW s \in Seq(S), NEW m \in 1..Len(s)
    PROVE  /\ Front(SubSeq(s, 1, m)) = SubSeq(s, 1, m - 1)
           /\ Len(Front(SubSeq(s, 1, m))) = m - 1
<1> DEFINE t == SubSeq(s, 1, m)
           u == SubSeq(s, 1, m - 1)
<1>1. t \in Seq(S) /\ Len(t) = m /\ \A i \in 1..m : t[i] = s[i]
  OBVIOUS
<1>2. u \in Seq(S) /\ Len(u) = m - 1 /\ \A i \in 1..(m - 1) : u[i] = s[i]
  OBVIOUS
<1> HIDE DEF t, u
<1>3. t # <<>>
  BY <1>1
<1>4. /\ Front(t) \in Seq(S) /\ Len(Front(t)) = m - 1
      /\ \A i \in 1..(m - 1) : Front(t)[i] = t[i]
  BY <1>1, <1>3, Ends
<1>5. Front(t) = u
  <2>1. \A i \in 1..(m - 1) : Front(t)[i] = u[i]
    BY <1>1, <1>2, <1>4
  <2>2. Len(Front(t)) = Len(u) /\ \A i \in 1..Len(Front(t)) : Front(t)[i] = u[i]
    BY <1>2, <1>4, <2>1
  <2> QED BY <1>2, <1>4, <2>2, SeqEqual
<1> QED BY <1>4, <1>5 DEF t, u

-----------------------------------------------------------------------------
(* Names that lead through directories                                     *)

\* The directories of the stack are those that the names lead through.
Along(f, names, stack) ==
    /\ Len(stack) = Len(names) + 1 /\ stack[1] = Root
    /\ \A i \in 1..Len(names) : f.entry[stack[i]][names[i]] = stack[i + 1]

LEMMA AlongRoot ==
    ASSUME NEW f PROVE Along(f, <<>>, <<Root>>)
BY DEF Along

LEMMA AlongFront ==
    ASSUME NEW f, NEW names \in Seq(Names), NEW stack \in Seq(Dirs),
           Along(f, names, stack), names # <<>>
    PROVE  /\ Along(f, Front(names), Front(stack))
           /\ Front(names) \in Seq(Names) /\ Front(stack) \in Seq(Dirs)
           /\ f.entry[Last(Front(stack))][Last(names)] = Last(stack)
<1>1. stack # <<>> /\ Len(stack) = Len(names) + 1
  BY DEF Along
<1>2. /\ Front(names) \in Seq(Names) /\ Len(Front(names)) = Len(names) - 1
      /\ \A i \in 1..(Len(names) - 1) : Front(names)[i] = names[i]
      /\ Len(names) \in Nat \ {0} /\ Last(names) = names[Len(names)]
  BY Ends
<1>3. /\ Front(stack) \in Seq(Dirs) /\ Len(Front(stack)) = Len(names)
      /\ \A i \in 1..Len(names) : Front(stack)[i] = stack[i]
      /\ Last(stack) = stack[Len(names) + 1]
  <2>1. /\ Front(stack) \in Seq(Dirs) /\ Len(Front(stack)) = Len(stack) - 1
        /\ \A i \in 1..(Len(stack) - 1) : Front(stack)[i] = stack[i]
        /\ Last(stack) = stack[Len(stack)]
    BY <1>1, Ends
  <2> QED BY <1>1, <1>2, <2>1
<1>4. Last(Front(stack)) = stack[Len(names)]
  <2>1. Front(stack) # <<>>
    BY <1>2, <1>3
  <2>2. Last(Front(stack)) = Front(stack)[Len(Front(stack))]
    BY <1>3, <2>1, Ends
  <2> QED BY <1>2, <1>3, <2>2
<1>5. \A i \in 1..Len(names) : f.entry[stack[i]][names[i]] = stack[i + 1]
  BY DEF Along
<1>6. Along(f, Front(names), Front(stack))
  <2> DEFINE ns == Front(names)
             st == Front(stack)
  <2>1. Len(st) = Len(ns) + 1 /\ st[1] = Root
    <3>1. stack[1] = Root /\ st[1] = stack[1]
      BY <1>2, <1>3 DEF Along
    <3> QED BY <1>2, <1>3, <3>1
  <2>2. ASSUME NEW i \in 1..Len(ns) PROVE f.entry[st[i]][ns[i]] = st[i + 1]
    <3>1. i \in 1..(Len(names) - 1) /\ i \in 1..Len(names) /\ i + 1 \in 1..Len(names)
      BY <1>2
    <3>2. st[i] = stack[i] /\ st[i + 1] = stack[i + 1] /\ ns[i] = names[i]
      BY <1>2, <1>3, <3>1
    <3> QED BY <1>5, <3>1, <3>2
  <2> HIDE DEF ns, st
  <2>3. Along(f, ns, st)
    BY <2>1, <2>2 DEF Along
  <2> QED BY <2>3 DEF ns, st
<1> QED BY <1>2, <1>3, <1>4, <1>5, <1>6

LEMMA AlongAppend ==
    ASSUME NEW f, NEW names \in Seq(Names), NEW stack \in Seq(Dirs),
           Along(f, names, stack), NEW c \in Names, NEW n \in Dirs,
           n = f.entry[Last(stack)][c]
    PROVE  Along(f, Append(names, c), Append(stack, n))
<1> DEFINE ns == Append(names, c)
           st == Append(stack, n)
           L == Len(names)
<1>1. L \in Nat /\ Len(stack) = L + 1 /\ stack[1] = Root
  BY DEF Along
<1>2. Len(ns) = L + 1 /\ ns[L + 1] = c /\ \A i \in 1..L : ns[i] = names[i]
  OBVIOUS
<1>3. Len(st) = L + 2 /\ st[L + 2] = n /\ \A i \in 1..(L + 1) : st[i] = stack[i]
  BY <1>1
<1>4. Last(stack) = stack[L + 1]
  BY <1>1 DEF Last
<1>5. \A i \in 1..L : f.entry[stack[i]][names[i]] = stack[i + 1]
  BY DEF Along
<1> HIDE DEF ns, st
<1>6. ASSUME NEW i \in 1..(L + 1) PROVE f.entry[st[i]][ns[i]] = st[i + 1]
  <2>1. CASE i = L + 1
    BY <1>1, <1>2, <1>3, <1>4, <2>1
  <2>2. CASE i \in 1..L
    <3>1. i + 1 \in 1..(L + 1)
      BY <1>1, <2>2
    <3> QED BY <1>2, <1>3, <1>5, <2>2, <3>1
  <2> QED BY <1>1, <2>1, <2>2
<1>7. Along(f, ns, st)
  <2>1. st[1] = Root
    BY <1>1, <1>3
  <2> HIDE DEF L
  <2> QED BY <1>1, <1>2, <1>3, <1>6, <2>1 DEF Along
<1> QED BY <1>7 DEF ns, st

LEMMA SubSeqSplit ==
    ASSUME NEW S, NEW s \in Seq(S), NEW i \in Nat, i + 1 <= Len(s)
    PROVE  /\ SubSeq(s, i + 1, Len(s)) # <<>>
           /\ Head(SubSeq(s, i + 1, Len(s))) = s[i + 1]
           /\ Tail(SubSeq(s, i + 1, Len(s))) = SubSeq(s, i + 2, Len(s))
<1> DEFINE t == SubSeq(s, i + 1, Len(s))
           u == SubSeq(s, i + 2, Len(s))
<1>1. t \in Seq(S) /\ Len(t) = Len(s) - i /\ \A j \in 1..(Len(s) - i) : t[j] = s[i + j]
  OBVIOUS
<1>2. u \in Seq(S) /\ Len(u) = Len(s) - i - 1
      /\ \A j \in 1..(Len(s) - i - 1) : u[j] = s[i + 1 + j]
  OBVIOUS
<1> HIDE DEF t, u
<1>3. t # <<>> /\ Head(t) = s[i + 1]
  <2>1. Len(t) \in Nat \ {0} /\ 1 \in 1..(Len(s) - i)
    BY <1>1
  <2> QED BY <1>1, <2>1
<1>4. Tail(t) = u
  <2>1. /\ Tail(t) \in Seq(S) /\ Len(Tail(t)) = Len(s) - i - 1
        /\ \A j \in 1..(Len(s) - i - 1) : Tail(t)[j] = t[j + 1]
    BY <1>1, <1>3
  <2>2. \A j \in 1..(Len(s) - i - 1) : Tail(t)[j] = u[j]
    <3> SUFFICES ASSUME NEW j \in 1..(Len(s) - i - 1) PROVE Tail(t)[j] = u[j]
      OBVIOUS
    <3>1. j + 1 \in 1..(Len(s) - i) /\ i + (j + 1) = i + 1 + j
      OBVIOUS
    <3> QED BY <1>1, <1>2, <2>1, <3>1
  <2>3. Len(Tail(t)) = Len(u)
    BY <1>2, <2>1
  <2>4. \A j \in 1..Len(u) : Tail(t)[j] = u[j]
    BY <1>2, <2>2
  <2> QED BY <1>2, <2>1, <2>3, <2>4, SeqEqual
<1> QED BY <1>3, <1>4 DEF t, u

\* The kernel finds the last of the directories.
LEMMA AlongStat ==
    ASSUME NEW f \in Layouts, NEW names \in Seq(Names), NEW stack \in Seq(Dirs),
           Along(f, names, stack)
    PROVE  Stat(f, names) = Last(stack) /\ Last(stack) \in Dirs
<1> DEFINE L == Len(names)
           goal == Route(f, names)
           Reached(k, i) == /\ k.node = Walking /\ k.stack = SubSeq(stack, 1, i + 1)
                            /\ k.comps = SubSeq(names, i + 1, L) /\ Resolve(f, k) = goal
           T == {i \in Nat : i <= L => \E k \in Configs : Reached(k, i)}
<1>1. L \in Nat /\ Len(stack) = L + 1 /\ stack[1] = Root /\ stack # <<>>
  BY DEF Along
<1>2. names \in Seq(Components)
  <2>1. \A i \in 1..L : names[i] \in Components
    BY DEF Components
  <2> QED BY <2>1
<1>3. 0 \in T
  <2> DEFINE k == Start(names)
  <2>1. k \in Configs /\ Is(k, <<Root>>, names, MaxHops, {Root}, Walking)
    BY <1>2, StartTyped
  <2>2. SubSeq(stack, 1, 1) = <<Root>>
    <3>1. /\ SubSeq(stack, 1, 1) \in Seq(Dirs) /\ Len(SubSeq(stack, 1, 1)) = 1
          /\ SubSeq(stack, 1, 1)[1] = Root
      BY <1>1
    <3> DEFINE a == SubSeq(stack, 1, 1)
               b == <<Root>>
    <3>2. b \in Seq(Dirs) /\ Len(b) = 1 /\ b[1] = Root
      BY WalkAssumption
    <3> HIDE DEF a, b
    <3>3. \A i \in 1..1 : a[i] = b[i]
      BY <3>1, <3>2 DEF a
    <3>4. Len(a) = Len(b) /\ a \in Seq(Dirs) /\ \A i \in 1..Len(a) : a[i] = b[i]
      BY <3>1, <3>2, <3>3 DEF a
    <3>5. a = b
      BY <3>2, <3>4, SeqEqual
    <3> QED BY <3>5 DEF a, b
  <2>3. SubSeq(names, 1, L) = names
    BY <1>1
  <2>4. Resolve(f, k) = goal
    BY DEF Route
  <2> HIDE DEF k, goal
  <2>5. Reached(k, 0)
    <3>1. 0 + 1 = 1
      OBVIOUS
    <3> QED BY <2>1, <2>2, <2>3, <2>4, <3>1 DEF Is
  <2> QED BY <2>1, <2>5
<1> HIDE DEF goal
<1>4. ASSUME NEW i \in Nat, i \in T PROVE i + 1 \in T
  <2> SUFFICES ASSUME i + 1 <= L PROVE \E k \in Configs : Reached(k, i + 1)
    OBVIOUS
  <2>1. PICK k \in Configs : Reached(k, i)
    BY <1>1, <1>4
  <2> DEFINE c == names[i + 1]
             n == stack[i + 2]
             one == ResolveOne(f)[k]
  <2>2. k.comps # <<>> /\ Head(k.comps) = c /\ Tail(k.comps) = SubSeq(names, i + 2, L)
    <3>1. k.comps = SubSeq(names, i + 1, L)
      BY <2>1
    <3> QED BY <1>1, <3>1, SubSeqSplit
  <2>3. Last(k.stack) = stack[i + 1] /\ Append(k.stack, n) = SubSeq(stack, 1, i + 2)
    <3>1. k.stack = SubSeq(stack, 1, i + 1) /\ i + 2 <= Len(stack)
      BY <1>1, <2>1
    <3> QED BY <3>1 DEF Last
  <2>4. c \in Names /\ n \in Dirs /\ f.entry[stack[i + 1]][c] = n
    <3>1. i + 1 \in 1..L /\ i + 2 \in 1..Len(stack)
      BY <1>1
    <3>2. f.entry[stack[i + 1]][names[i + 1]] = stack[(i + 1) + 1]
      BY <3>1 DEF Along
    <3> QED BY <3>1, <3>2
  <2>5. StepCases(f, k, c, n, SubSeq(names, i + 2, L), one)
    <3>1. Lookup(f, Last(k.stack), c) = n
      BY <2>3, <2>4 DEF Lookup
    <3>2. k.node = Walking
      BY <2>1
    <3> HIDE DEF c, n, one
    <3> QED BY <2>2, <3>1, <3>2, OneStep DEF one
  <2>6. Resolve(f, one) = goal
    <3>1. Resolve(f, k) = goal
      BY <2>1
    <3> QED BY <3>1, ResolveUnfolds
  <2> HIDE DEF c, n, one
  <2>7. one \in Configs /\ Is(one, SubSeq(stack, 1, i + 2), SubSeq(names, i + 2, L),
                              k.fuel, k.seen \cup {n}, Walking)
    BY <2>3, <2>4, <2>5 DEF StepCases
  <2>8. (i + 1) + 1 = i + 2
    OBVIOUS
  <2>9. Reached(one, i + 1)
    BY <2>6, <2>7, <2>8 DEF Is
  <2> QED BY <2>7, <2>9
<1>5. \A i \in Nat : i \in T
  <2> HIDE DEF T
  <2> QED BY <1>3, <1>4, SetInduction
<1>6. PICK k \in Configs : Reached(k, L)
  <2>1. L \in T
    BY <1>1, <1>5
  <2>2. L <= L
    BY <1>1
  <2> QED BY <2>1, <2>2
<1>7. k.comps = <<>> /\ k.stack = stack
  <2>1. k.comps = SubSeq(names, L + 1, L) /\ k.stack = SubSeq(stack, 1, L + 1)
    BY <1>6
  <2> QED BY <1>1, <2>1
<1>8. goal.node = Last(stack)
  BY <1>6, <1>7, Arrives
<1>9. Last(stack) \in Dirs
  BY <1>1, Ends
<1> QED BY <1>8, <1>9 DEF Stat, goal

\* Not following the last name it finds the entry of that name.
LEMMA AlongLstat ==
    ASSUME NEW f \in Layouts, NEW names \in Seq(Names), NEW stack \in Seq(Dirs),
           Along(f, names, stack)
    PROVE  /\ Lstat(f, names) = Last(stack)
           /\ \A c \in Names : Lstat(f, Append(names, c)) = Lookup(f, Last(stack), c)
<1>1. ASSUME NEW c \in Names PROVE Lstat(f, Append(names, c)) = Lookup(f, Last(stack), c)
  <2> DEFINE p == Append(names, c)
  <2>1. p # <<>> /\ Last(p) = c /\ Front(p) = names
    BY DEF Last, Front
  <2>2. Stat(f, names) = Last(stack) /\ Last(stack) \in Dirs
    BY AlongStat
  <2> HIDE DEF p
  <2>3. Lstat(f, p) = Lookup(f, Last(stack), c)
    BY <2>1, <2>2 DEF Lstat
  <2> QED BY <2>3 DEF p
<1>2. Lstat(f, names) = Last(stack)
  <2>1. CASE names = <<>>
    <3>1. Last(stack) = Root
      BY <2>1 DEF Along, Last
    <3> QED BY <2>1, <3>1 DEF Lstat
  <2>2. CASE names # <<>>
    <3>1. /\ Along(f, Front(names), Front(stack))
          /\ Front(names) \in Seq(Names) /\ Front(stack) \in Seq(Dirs)
          /\ f.entry[Last(Front(stack))][Last(names)] = Last(stack)
      BY <2>2, AlongFront
    <3>2. Stat(f, Front(names)) = Last(Front(stack)) /\ Last(Front(stack)) \in Dirs
      BY <3>1, AlongStat
    <3>3. Last(names) \in Names
      BY <2>2, Ends
    <3> QED BY <2>2, <3>1, <3>2, <3>3 DEF Lstat, Lookup
  <2> QED BY <2>1, <2>2
<1> QED BY <1>1, <1>2

-----------------------------------------------------------------------------
(* The inductive invariant                                                 *)

Fine(n) == attr[n] \in {"own", "sticky"}

Typed ==
    /\ TypeOK
    /\ fs \in Layouts /\ path \in Paths /\ use \in {"program", "directory"}
    /\ \A n \in Nodes : attr[n] \in Attributes(n)

\* The subject is the path, or what is left of it after the climb.
Asked ==
    /\ \E m \in 0..Len(path) : subject = SubSeq(path, 1, m)
    /\ use = "program" => subject = path
    /\ use = "program" /\ at \notin {"begin", "refused"} => Stat(fs, path) \in Files
    /\ subject # path =>
         Stat(fs, path) = NoEntry /\ Lstat(fs, SubSeq(path, 1, Len(subject) + 1)) = NoEntry

Places == {"component", "ancestor", "link", "readlink", "holder", "leaf"}

\* The name the walk looks at is the next one of the kernel's.
Pending(k) == next = Append(cur, Last(next)) /\ k.comps = <<Last(next)>> \o rest

\* Where the walk is, the kernel's resolution is too.
Beside(k) ==
    /\ Along(fs, cur, k.stack)
    /\ k.fuel = MaxHops - hops + (IF at = "readlink" THEN 1 ELSE 0)
    /\ at \in {"component", "ancestor"} => k.comps = rest
    /\ at \in {"link", "readlink"} => Pending(k)
    /\ at \in {"holder", "leaf"} =>
         /\ rest = <<>>
         /\ k.comps # <<>> => Pending(k) /\ Lstat(fs, next) \notin Links
    /\ at = "leaf" => attr[Last(k.stack)] = "own"

\* What the kernel has seen has been judged, all but the directory that is
\* about to be.
Judged(k) ==
    /\ ~ suspect => \A n \in k.seen :
         Fine(n) \/ (at = "ancestor" /\ k.node = Walking /\ n = Last(k.stack))
    /\ suspect /\ use = "program" => \E n \in k.seen : attr[n] # "own"

\* The kernel's resolution is on its way to the same end, or has failed: the
\* walk takes a file for a directory.
Follows(k) ==
    /\ Resolve(fs, k) = Route(fs, subject)
    /\ k.node \in {Walking, NoEntry}
    /\ Root \in k.seen /\ \A i \in 1..Len(k.stack) : k.stack[i] \in k.seen
    /\ Judged(k)
    /\ k.node = Walking => Beside(k)

Underway ==
    at \in Places =>
        /\ \E k \in Configs : Follows(k)
        /\ hops <= MaxHops
        /\ at \in {"ancestor", "leaf"} => ~ suspect
        /\ at \in {"link", "readlink"} => Lstat(fs, next) \in Links
        /\ at = "readlink" => hops > 0 /\ ~ LinkDistrust(Lstat(fs, next))

Ended ==
    /\ at \in {"tree", "accepted"} => RootsOwn(subject)
    /\ at = "tree" => use = "directory" /\ subject = path
    /\ AcceptedIsRootsOwn
    /\ RefusedForAReason

WalkInv == Typed /\ Asked /\ Underway /\ Ended

-----------------------------------------------------------------------------
(* What the parts of the invariant say of a state                          *)

LEMMA SubjectTyped ==
    ASSUME Typed, Asked
    PROVE  subject \in Seq(Components) /\ path \in Seq(Components) /\ path # <<>>
<1>1. path \in Seq(Components) /\ path # <<>>
  BY WalkAssumption DEF Typed
<1>2. PICK m \in 0..Len(path) : subject = SubSeq(path, 1, m)
  BY DEF Asked
<1> QED BY <1>1, <1>2

LEMMA Colours ==
    ASSUME Typed
    PROVE  /\ \A n \in Dirs :
                /\ LeafDistrust(n) <=> attr[n] # "own"
                /\ AncestorDistrust(n) => attr[n] # "own"
                /\ ~ AncestorDistrust(n) => Fine(n)
           /\ \A n \in Files : LeafDistrust(n) <=> attr[n] # "own"
           /\ \A n \in Links :
                /\ LinkDistrust(n) => attr[n] # "own"
                /\ ~ LinkDistrust(n) => Fine(n)
           /\ \A n \in Nodes : attr[n] = "own" => Fine(n)
<1>1. \A n \in Dirs : attr[n] \in {"own", "sticky", "open", "acl", "foreign"}
  BY DEF Typed, Attributes, Nodes
<1>2. \A n \in Links : attr[n] \in {"own", "foreign"}
  BY WalkAssumption DEF Typed, Attributes, Nodes
<1> QED BY <1>1, <1>2 DEF LeafDistrust, AncestorDistrust, LinkDistrust, Fine

\* Where a program is judged the kernel does not fail.
LEMMA NotLost ==
    ASSUME Typed, Asked, use = "program", at \in Places, NEW k \in Configs, Follows(k)
    PROVE  /\ k.node = Walking /\ Beside(k)
           /\ Resolve(fs, k) = Route(fs, path) /\ Resolve(fs, k).node \in Files
<1>1. at \notin {"begin", "refused"}
  BY DEF Places
<1>2. subject = path /\ Stat(fs, path) \in Files
  BY <1>1 DEF Asked
<1>3. Resolve(fs, k) = Route(fs, path) /\ Resolve(fs, k).node \in Files
  BY <1>2 DEF Follows, Stat
<1>4. ASSUME k.node # Walking PROVE FALSE
  <2>1. Resolve(fs, k) = k
    BY <1>4, ResolveEnds DEF Typed
  <2>2. k.node = NoEntry
    BY <1>4 DEF Follows
  <2> QED BY <1>3, <2>1, <2>2, WalkAssumption DEF Nodes
<1> QED BY <1>3, <1>4 DEF Follows

\* Where the walk stands.
LEMMA Standing ==
    ASSUME Typed, NEW k \in Configs, Along(fs, cur, k.stack)
    PROVE  Lstat(fs, cur) = Last(k.stack) /\ Last(k.stack) \in Dirs
<1>1. k.stack \in Seq(Dirs) /\ cur \in Seq(Names) /\ fs \in Layouts /\ k.stack # <<>>
  BY DEF Typed, TypeOK, Configs
<1>2. Lstat(fs, cur) = Last(k.stack)
  BY <1>1, AlongLstat
<1> QED BY <1>1, <1>2, Ends

LEMMA LastSeen ==
    ASSUME NEW k \in Configs, Follows(k)
    PROVE  Last(k.stack) \in k.seen
<1>1. k.stack \in Seq(Dirs) /\ k.stack # <<>>
  BY DEF Configs
<1>2. Last(k.stack) = k.stack[Len(k.stack)] /\ Len(k.stack) \in Nat \ {0}
  BY <1>1, Ends
<1>3. Len(k.stack) \in 1..Len(k.stack)
  BY <1>2
<1> QED BY <1>2, <1>3 DEF Follows

\* The kernel's next step, where the walk looks at the next name.
LEMMA LookedAt ==
    ASSUME Typed, NEW k \in Configs, k.node = Walking, Along(fs, cur, k.stack), Pending(k),
           NEW one, one = ResolveOne(fs)[k]
    PROVE  /\ next # <<>> /\ Last(next) \in Names
           /\ StepCases(fs, k, Last(next), Lstat(fs, next), rest, one)
           /\ Resolve(fs, k) = Resolve(fs, one)
<1> DEFINE c == Last(next)
<1>1. /\ k.stack \in Seq(Dirs) /\ cur \in Seq(Names) /\ next \in Seq(Names)
      /\ rest \in Seq(Components) /\ fs \in Layouts
  BY DEF Typed, TypeOK, Configs
<1>2. next = Append(cur, c) /\ k.comps = <<c>> \o rest
  BY DEF Pending
<1>3. next # <<>>
  BY <1>1, <1>2
<1>4. c \in Names
  BY <1>1, <1>3, Ends
<1> HIDE DEF c
<1>5. Lstat(fs, next) = Lookup(fs, Last(k.stack), c)
  BY <1>1, <1>2, <1>4, AlongLstat
<1>6. c \in Components
  BY <1>4 DEF Components
<1>7. k.comps # <<>> /\ Head(k.comps) = c /\ Tail(k.comps) = rest
  BY <1>1, <1>2, <1>6, HeadTailOfCons
<1>8. StepCases(fs, k, c, Lstat(fs, next), rest, one)
  BY <1>1, <1>5, <1>7, OneStep
<1>9. Resolve(fs, k) = Resolve(fs, one)
  BY <1>1, ResolveUnfolds
<1> QED BY <1>3, <1>4, <1>8, <1>9 DEF c

-----------------------------------------------------------------------------
(* The steps                                                               *)

LEMMA InitHolds == Init => WalkInv
<1> SUFFICES ASSUME Init PROVE WalkInv
  OBVIOUS
<1>1. path \in Seq(Components) /\ path # <<>>
  BY WalkAssumption DEF Init
<1>2. Typed
  <2>1. \A n \in Nodes : attr[n] \in Attributes(n)
    <3>1. PICK odd \in {s \in SUBSET Placed(fs) : Cardinality(s) <= MaxOdd} :
            \E a \in [odd -> {"own", "sticky", "open", "acl", "foreign"}] :
              /\ \A n \in odd : a[n] \in Attributes(n) \ {"own"}
              /\ attr = [n \in Nodes |-> IF n \in odd THEN a[n] ELSE "own"]
      BY Zenon DEF Init
    <3>2. PICK a \in [odd -> {"own", "sticky", "open", "acl", "foreign"}] :
              /\ \A n \in odd : a[n] \in Attributes(n) \ {"own"}
              /\ attr = [n \in Nodes |-> IF n \in odd THEN a[n] ELSE "own"]
      BY ONLY <3>1, Zenon
    <3>3. \A n \in Nodes : "own" \in Attributes(n)
      BY WalkAssumption DEF Attributes, Nodes
    <3> QED BY ONLY <3>2, <3>3
  <2>2. TypeOK
    <3>1. /\ at = "begin" /\ cur = <<>> /\ next = <<>> /\ rest = <<>> /\ hops = 0
          /\ suspect = FALSE
      BY DEF Init
    <3>2. MaxHops \in Nat
      BY WalkAssumption
    <3>3. 0 \in 0..MaxHops + 1 /\ <<>> \in Seq(Names) /\ <<>> \in Seq(Components)
      BY <3>2
    <3> QED BY <3>1, <3>3 DEF TypeOK
  <2> QED BY <2>1, <2>2 DEF Init, Typed
<1>3. Asked
  <2>1. Len(path) \in 0..Len(path) /\ path = SubSeq(path, 1, Len(path))
    BY <1>1
  <2> QED BY <2>1 DEF Init, Asked
<1>4. Underway /\ Ended
  BY DEF Init, Underway, Ended, Places, AcceptedIsRootsOwn, RefusedForAReason
<1> QED BY <1>2, <1>3, <1>4 DEF WalkInv

\* The walk of a subject begins where the kernel's resolution does.
LEMMA StartHolds ==
    ASSUME WalkInv, StartWalk, UNCHANGED <<scene, subject>>,
           use = "program" => Stat(fs, path) \in Files
    PROVE  WalkInv'
<1>1. Typed /\ Asked
  BY DEF WalkInv
<1>u. /\ fs' = fs /\ attr' = attr /\ path' = path /\ use' = use /\ subject' = subject
      /\ at' = "component" /\ rest' = subject /\ cur' = <<>> /\ next' = <<>> /\ hops' = 0
      /\ suspect' = AncestorDistrust(Root)
  BY DEF StartWalk, scene
<1>2. subject \in Seq(Components)
  BY <1>1, SubjectTyped
<1>3. Typed'
  BY <1>1, <1>u, <1>2, WalkAssumption DEF Typed, TypeOK, AncestorDistrust
<1>4. Asked'
  BY <1>1, <1>u DEF Asked
<1> DEFINE k == Start(subject)
<1>5. k \in Configs /\ Is(k, <<Root>>, subject, MaxHops, {Root}, Walking)
  BY <1>2, StartTyped
<1>6. Resolve(fs, k) = Route(fs, subject)
  BY DEF Route
<1>7. Root \in Dirs /\ (suspect' => attr[Root] # "own") /\ (~ suspect' => Fine(Root))
  BY <1>1, <1>u, Colours, WalkAssumption
<1>p. PICK i : i = k
  OBVIOUS
<1> HIDE DEF k
<1>8. Follows(i)'
  <2>1. Judged(i)'
    BY <1>u, <1>5, <1>7, <1>p DEF Judged, Is, Fine
  <2>2. Beside(i)'
    BY <1>u, <1>5, <1>p, AlongRoot, WalkAssumption DEF Beside, Is
  <2>3. (Resolve(fs, i) = Route(fs, subject))'
    BY <1>u, <1>6, <1>p
  <2> QED BY <2>1, <2>2, <2>3, <1>5, <1>p DEF Follows, Is
<1>9. Underway'
  BY <1>u, <1>5, <1>8, <1>p, WalkAssumption DEF Underway
<1>10. Ended'
  BY <1>u DEF Ended, AcceptedIsRootsOwn, RefusedForAReason
<1> QED BY <1>3, <1>4, <1>9, <1>10 DEF WalkInv

LEMMA BeginHolds == WalkInv /\ Begin => WalkInv'
<1> SUFFICES ASSUME WalkInv, Begin PROVE WalkInv'
  OBVIOUS
<1>1. CASE Stat(fs, path) \in Files
  BY <1>1, StartHolds DEF Begin
<1>2. CASE Stat(fs, path) \notin Files
  <2>u. /\ fs' = fs /\ attr' = attr /\ path' = path /\ use' = use /\ use = "program"
        /\ subject' = subject /\ cur' = cur /\ next' = next /\ rest' = rest
        /\ hops' = hops /\ suspect' = suspect /\ at' = "refused"
    BY <1>2 DEF Begin, scene, walkVars
  <2>1. Typed' /\ Asked'
    BY <2>u DEF WalkInv, Typed, TypeOK, Asked, Verdicts
  <2>2. Underway' /\ Ended'
    BY <1>2, <2>u DEF Underway, Ended, AcceptedIsRootsOwn, RefusedForAReason, Places
  <2> QED BY <2>1, <2>2 DEF WalkInv
<1> QED BY <1>1, <1>2

LEMMA ClimbHolds == WalkInv /\ Climb => WalkInv'
<1> SUFFICES ASSUME WalkInv, Climb PROVE WalkInv'
  OBVIOUS
<1>1. Typed /\ Asked /\ at = "begin" /\ use = "directory"
  BY DEF WalkInv, Climb
<1>s. fs' = fs /\ attr' = attr /\ path' = path /\ use' = use
  BY DEF Climb, scene
<1>2. subject \in Seq(Components) /\ path \in Seq(Components) /\ path # <<>>
  BY <1>1, SubjectTyped
<1>e. Stat(fs, <<>>) = Root /\ Route(fs, <<>>).seen = {Root} /\ Root \in Dirs
  <2>1. <<>> \in Seq(Components) /\ fs \in Layouts
    BY <1>1 DEF Typed
  <2> DEFINE k == Start(<<>>)
  <2>2. k \in Configs /\ Is(k, <<Root>>, <<>>, MaxHops, {Root}, Walking)
    BY <2>1, StartTyped
  <2>3. Last(<<Root>>) = Root
    BY DEF Last
  <2> HIDE DEF k
  <2>4. Resolve(fs, k).node = Root /\ Resolve(fs, k).seen = {Root}
    BY <2>1, <2>2, <2>3, Arrives DEF Is
  <2> QED BY <2>4, WalkAssumption DEF Stat, Route, k
<1>3. CASE Missing(subject)
  <2>u. /\ subject' = Front(subject) /\ at' = at /\ cur' = cur /\ next' = next /\ rest' = rest
        /\ hops' = hops /\ suspect' = suspect
    BY <1>3 DEF Climb
  <2>1. subject # <<>>
    BY <1>3, <1>e, WalkAssumption DEF Missing, Nodes
  <2>2. PICK m \in 0..Len(path) : subject = SubSeq(path, 1, m)
    BY <1>1 DEF Asked
  <2>3. m # 0 /\ m - 1 \in 0..Len(path) /\ Len(subject) = m
    BY <1>2, <2>1, <2>2
  <2>4. Front(subject) = SubSeq(path, 1, m - 1) /\ Len(Front(subject)) = m - 1
    BY <1>2, <2>2, <2>3, FrontOfPrefix
  <2>5. Front(subject) # path
    BY <1>2, <2>3, <2>4
  <2>6. Stat(fs, path) = NoEntry
    BY <1>1, <1>3 DEF Asked, Missing
  <2>7. Lstat(fs, SubSeq(path, 1, (m - 1) + 1)) = NoEntry
    <3>1. (m - 1) + 1 = m
      BY <2>3
    <3> QED BY <1>3, <2>2, <3>1 DEF Missing
  <2>8. Asked'
    BY <1>1, <1>s, <2>u, <2>3, <2>4, <2>6, <2>7 DEF Asked
  <2>9. Typed'
    BY <1>1, <1>s, <2>u DEF Typed, TypeOK
  <2>10. Underway' /\ Ended'
    BY <1>1, <2>u DEF Underway, Ended, AcceptedIsRootsOwn, RefusedForAReason, Places
  <2> QED BY <2>8, <2>9, <2>10 DEF WalkInv
<1>4. CASE ~ Missing(subject) /\ subject = <<>>
  <2>u. /\ subject' = subject /\ cur' = cur /\ next' = next /\ rest' = rest
        /\ hops' = hops /\ suspect' = suspect
        /\ at' = IF LeafDistrust(Root) THEN "refused" ELSE "accepted"
    BY <1>4 DEF Climb, walkVars
  <2>1. Typed' /\ Asked'
    BY <1>1, <1>s, <2>u DEF Typed, TypeOK, Asked, Verdicts
  <2>2. Underway'
    BY <2>u DEF Underway, Places
  <2>3. ASSUME at' = "accepted" PROVE RootsOwn(subject)'
    <3>1. ~ LeafDistrust(Root)
      BY <2>3, <2>u
    <3>2. attr[Root] = "own"
      BY <1>1, <1>e, <3>1, Colours
    <3> QED BY <1>4, <1>e, <1>s, <2>u, <3>2 DEF RootsOwn, Stat
  <2>4. Ended'
    <3>1. use' = "directory" /\ subject' # path' /\ at' # "tree"
      BY <1>1, <1>2, <1>4, <1>s, <2>u
    <3>2. AcceptedIsRootsOwn'
      BY <2>1, <2>3, <3>1 DEF AcceptedIsRootsOwn, Asked
    <3> QED BY <2>3, <3>1, <3>2 DEF Ended, RefusedForAReason
  <2> QED BY <2>1, <2>2, <2>4 DEF WalkInv
<1>5. CASE ~ Missing(subject) /\ subject # <<>>
  BY <1>1, <1>5, StartHolds DEF Climb
<1> QED BY <1>3, <1>4, <1>5

\* What a step of the walk leaves alone is still as it was: what is left is
\* where the walk is.
LEMMA OnTheWay ==
    ASSUME WalkInv, UNCHANGED <<scene, subject>>, at \in Places, TypeOK',
           at' \in Places, Underway'
    PROVE  WalkInv'
<1>1. fs' = fs /\ attr' = attr /\ path' = path /\ use' = use /\ subject' = subject
  BY DEF scene
<1>2. at \notin {"begin", "refused"} /\ at' \notin {"begin", "refused", "tree", "accepted"}
  BY DEF Places
<1>3. Typed'
  BY <1>1 DEF WalkInv, Typed
<1>4. Asked'
  BY <1>1, <1>2 DEF WalkInv, Asked
<1>5. Ended'
  BY <1>2 DEF Ended, AcceptedIsRootsOwn, RefusedForAReason
<1> QED BY <1>3, <1>4, <1>5 DEF WalkInv

LEMMA MaxHopsNat == MaxHops \in Nat
BY WalkAssumption

LEMMA ComponentHolds == WalkInv /\ Component => WalkInv'
<1> SUFFICES ASSUME WalkInv, Component PROVE WalkInv'
  OBVIOUS
<1> DEFINE c == Head(rest)
           after == Tail(rest)
           step == Append(cur, c)
<1>1. Typed /\ TypeOK /\ Underway /\ at = "component" /\ at \in Places /\ rest # <<>>
  BY DEF WalkInv, Typed, Component, Places
<1>s. /\ UNCHANGED <<scene, subject>> /\ fs' = fs /\ attr' = attr /\ path' = path
      /\ use' = use /\ subject' = subject /\ hops' = hops /\ suspect' = suspect
      /\ rest' = after
  BY DEF Component, scene
<1>2. /\ cur \in Seq(Names) /\ next \in Seq(Names) /\ rest \in Seq(Components)
      /\ hops \in 0..MaxHops + 1 /\ suspect \in BOOLEAN /\ fs \in Layouts
  BY <1>1 DEF TypeOK, Typed
<1>3. c \in Components /\ after \in Seq(Components) /\ rest = <<c>> \o after
  BY <1>1, <1>2, Ends
<1>c. c = Dot \/ c = DotDot \/ (c \in Names /\ c # Dot /\ c # DotDot)
  BY <1>3, WalkAssumption DEF Components
<1>d. Dot # DotDot
  BY DEF Dot, DotDot
<1>4. PICK k \in Configs : Follows(k)
  BY <1>1 DEF Underway
<1>5. hops <= MaxHops
  BY <1>1 DEF Underway
<1>f. PICK f : f = fs
  OBVIOUS
<1>o. PICK one : one = ResolveOne(f)[k]
  OBVIOUS
<1> DEFINE n == Lookup(fs, Last(k.stack), c)
<1>6. ASSUME k.node = Walking
      PROVE  /\ Along(fs, cur, k.stack) /\ k.comps = rest /\ k.fuel = MaxHops - hops
             /\ k.stack \in Seq(Dirs) /\ k.stack # <<>> /\ Len(k.stack) = Len(cur) + 1
             /\ StepCases(fs, k, c, n, after, one) /\ one \in Configs
             /\ Resolve(fs, one) = Route(fs, subject)
             /\ c \in Names => Lstat(fs, step) = n
  <2>1. Beside(k)
    BY <1>4, <1>6 DEF Follows
  <2>2. Along(fs, cur, k.stack) /\ k.comps = rest /\ k.fuel = MaxHops - hops
    BY <1>1, <1>2, <2>1, MaxHopsNat DEF Beside
  <2>3. k.stack \in Seq(Dirs) /\ k.stack # <<>>
    BY DEF Configs
  <2>4. StepCases(fs, k, c, n, after, one)
    BY <1>1, <1>2, <1>6, <1>f, <1>o, <2>2, OneStep
  <2>5. Resolve(fs, one) = Route(fs, subject)
    BY <1>2, <1>4, <1>f, <1>o, ResolveUnfolds DEF Follows
  <2>6. c \in Names => Lstat(fs, step) = n
    BY <1>2, <2>2, <2>3, AlongLstat
  <2> QED BY <2>2, <2>3, <2>4, <2>5, <2>6 DEF StepCases, Along
<1>7. k.node = Walking \/ k.node = NoEntry
  BY <1>4 DEF Follows
<1>w. Walking # NoEntry
  BY DEF Walking, NoEntry
\* The kernel failed before: nothing of it changes.
<1>8. ASSUME k.node = NoEntry PROVE Follows(k)'
  <2>1. Judged(k)'
    BY <1>1, <1>4, <1>8, <1>s, <1>w DEF Follows, Judged, Fine
  <2>2. (Resolve(fs, k) = Route(fs, subject))'
    BY <1>4, <1>s DEF Follows
  <2> QED BY <1>4, <1>8, <1>w, <2>1, <2>2 DEF Follows
<1> HIDE DEF c, after, step, n
<1>9. CASE c = Dot
  <2>u. at' = at /\ cur' = cur /\ next' = next
    BY <1>9, <1>d DEF Component, c
  <2>1. TypeOK'
    BY <1>1, <1>2, <1>3, <1>s, <2>u DEF TypeOK
  <2>2. ASSUME k.node = Walking PROVE one \in Configs /\ Follows(one)'
    <3>1. one \in Configs /\ Is(one, k.stack, after, k.fuel, k.seen, Walking)
      BY <1>6, <1>9, <2>2 DEF StepCases
    <3>2. Judged(one)'
      BY <1>1, <1>4, <1>s, <2>u, <3>1 DEF Follows, Judged, Fine, Is
    <3>3. Beside(one)'
      BY <1>1, <1>6, <1>s, <2>2, <2>u, <3>1, <1>2, MaxHopsNat DEF Beside, Is
    <3>4. (Resolve(fs, one) = Route(fs, subject))'
      BY <1>6, <1>s, <2>2
    <3> QED BY <1>4, <3>1, <3>2, <3>3, <3>4 DEF Follows, Is
  <2>3. Underway'
    BY <1>1, <1>5, <1>7, <1>8, <1>s, <2>2, <2>u DEF Underway
  <2> QED BY <1>1, <1>s, <2>1, <2>3, <2>u, OnTheWay
<1>10. CASE c = DotDot
  <2>u. at' = at /\ next' = next /\ cur' = IF cur = <<>> THEN cur ELSE Front(cur)
    BY <1>10, <1>d DEF Component, c
  <2>t. cur' \in Seq(Names)
    BY <1>2, <2>u, Ends
  <2>1. TypeOK'
    BY <1>1, <1>2, <1>3, <1>s, <2>u, <2>t DEF TypeOK
  <2>2. ASSUME k.node = Walking PROVE one \in Configs /\ Follows(one)'
    <3> DEFINE st == IF Len(k.stack) > 1 THEN Front(k.stack) ELSE k.stack
    <3>1. one \in Configs /\ Is(one, st, after, k.fuel, k.seen, Walking)
      BY <1>6, <1>10, <2>2 DEF StepCases
    <3>2. Judged(one)'
      BY <1>1, <1>4, <1>s, <2>u, <3>1 DEF Follows, Judged, Fine, Is
    <3>3. Len(k.stack) > 1 <=> cur # <<>>
      BY <1>2, <1>6, <2>2
    <3>4. Along(fs, cur', st)
      <4>1. CASE cur = <<>>
        BY <1>6, <2>2, <2>u, <3>3, <4>1
      <4>2. CASE cur # <<>>
        BY <1>2, <1>6, <2>2, <2>u, <3>3, <4>2, AlongFront
      <4> QED BY <4>1, <4>2
    <3>5. \A i \in 1..Len(st) : st[i] \in k.seen
      <4>1. \A i \in 1..Len(k.stack) : k.stack[i] \in k.seen
        BY <1>4 DEF Follows
      <4>2. /\ Len(Front(k.stack)) = Len(k.stack) - 1 /\ Len(k.stack) \in Nat
            /\ \A i \in 1..(Len(k.stack) - 1) : Front(k.stack)[i] = k.stack[i]
        BY <1>6, <2>2, Ends
      <4>3. \A i \in 1..(Len(k.stack) - 1) : i \in 1..Len(k.stack)
        BY <4>2
      <4> QED BY <4>1, <4>2, <4>3
    <3> HIDE DEF st
    <3>6. Beside(one)'
      BY <1>1, <1>6, <1>s, <2>2, <2>u, <3>1, <3>4, <1>2, MaxHopsNat DEF Beside, Is
    <3>7. (Resolve(fs, one) = Route(fs, subject))'
      BY <1>6, <1>s, <2>2
    <3> QED BY <1>4, <3>1, <3>2, <3>5, <3>6, <3>7 DEF Follows, Is
  <2>3. Underway'
    BY <1>1, <1>5, <1>7, <1>8, <1>s, <2>2, <2>u DEF Underway
  <2> QED BY <1>1, <1>s, <2>1, <2>3, <2>u, OnTheWay
<1>11. CASE c \in Names /\ c # Dot /\ c # DotDot
  <2>u. /\ next' = step
        /\ IF Lstat(fs, step) \in Links THEN at' = "link" /\ cur' = cur
           ELSE IF after = <<>> THEN at' = "holder" /\ cur' = cur
           ELSE cur' = step /\ at' = IF suspect THEN "component" ELSE "ancestor"
    BY <1>11 DEF Component, c, step, after
  <2>t. step \in Seq(Names) /\ step # <<>> /\ Last(step) = c /\ step = Append(cur, Last(step))
    BY <1>2, <1>11 DEF step, Last
  <2>1. TypeOK' /\ at' \in Places
    BY <1>1, <1>2, <1>3, <1>s, <2>u, <2>t DEF TypeOK, Places
  <2>l. Lstat(fs, next)' = Lstat(fs, step)
    BY <1>s, <2>u
  <2>p. ASSUME k.node = Walking, cur' = cur PROVE Pending(k)'
    <3>1. k.comps = <<c>> \o after
      BY <1>3, <1>6, <2>p
    <3>2. next' = Append(cur', Last(next')) /\ k.comps = <<Last(next')>> \o rest'
      BY <1>s, <2>u, <2>t, <2>p, <3>1
    <3> QED BY <3>2 DEF Pending
  <2>r. (Resolve(fs, k) = Route(fs, subject))'
    BY <1>4, <1>s DEF Follows
  <2>j. ASSUME k.node = Walking PROVE Judged(k)'
    BY <1>1, <1>4, <1>s DEF Follows, Judged, Fine
  <2>2. CASE Lstat(fs, step) \in Links
    <3>1. at' = "link" /\ cur' = cur
      BY <2>2, <2>u
    <3>2. ASSUME k.node = Walking PROVE Follows(k)'
      <4>1. Beside(k)'
        BY <1>6, <1>s, <1>2, <2>p, <3>1, <3>2, MaxHopsNat DEF Beside
      <4> QED BY <1>4, <2>j, <2>r, <3>2, <4>1 DEF Follows
    <3>3. Underway'
      BY <1>5, <1>7, <1>8, <1>s, <2>2, <2>l, <3>1, <3>2 DEF Underway
    <3> QED BY <1>1, <1>s, <2>1, <3>3, OnTheWay
  <2>3. CASE Lstat(fs, step) \notin Links /\ after = <<>>
    <3>1. at' = "holder" /\ cur' = cur
      BY <2>3, <2>u
    <3>2. ASSUME k.node = Walking PROVE Follows(k)'
      <4>1. Beside(k)'
        BY <1>6, <1>s, <1>2, <2>3, <2>l, <2>p, <3>1, <3>2, MaxHopsNat DEF Beside
      <4> QED BY <1>4, <2>j, <2>r, <3>2, <4>1 DEF Follows
    <3>3. Underway'
      BY <1>5, <1>7, <1>8, <1>s, <3>1, <3>2 DEF Underway
    <3> QED BY <1>1, <1>s, <2>1, <3>3, OnTheWay
  <2>4. CASE Lstat(fs, step) \notin Links /\ after # <<>>
    <3>1. cur' = step /\ at' = IF suspect THEN "component" ELSE "ancestor"
      BY <2>4, <2>u
    <3>2. ASSUME k.node = Walking PROVE one \in Configs /\ Follows(one)'
      <4>1. n = Lstat(fs, step) /\ n \notin Links /\ n \in Nodes \cup {NoEntry}
        BY <1>6, <1>11, <2>4, <3>2 DEF StepCases
      <4>2. (Resolve(fs, one) = Route(fs, subject))'
        BY <1>6, <1>s, <3>2
      <4>3. CASE n \in Dirs
        <5>1. one \in Configs
              /\ Is(one, Append(k.stack, n), after, k.fuel, k.seen \cup {n}, Walking)
          BY <1>6, <3>2, <4>3 DEF StepCases
        <5>2. Along(fs, step, Append(k.stack, n))
          <6>1. n = fs.entry[Last(k.stack)][c]
            BY <1>11 DEF n, Lookup
          <6> QED BY <1>2, <1>6, <1>11, <3>2, <4>3, <6>1, AlongAppend DEF step
        <5>3. Last(Append(k.stack, n)) = n
          BY <1>6, <3>2, <4>3 DEF Last
        <5>4. \A i \in 1..Len(Append(k.stack, n)) : Append(k.stack, n)[i] \in k.seen \cup {n}
          <6>1. \A i \in 1..Len(k.stack) : k.stack[i] \in k.seen
            BY <1>4 DEF Follows
          <6> QED BY <1>6, <3>2, <4>3, <6>1
        <5>5. Judged(one)'
          BY <1>1, <1>4, <1>s, <3>1, <5>1, <5>3 DEF Follows, Judged, Fine, Is
        <5>6. Beside(one)'
          BY <1>6, <1>s, <1>2, <3>1, <3>2, <5>1, <5>2, MaxHopsNat DEF Beside, Is
        <5> QED BY <1>4, <4>2, <5>1, <5>4, <5>5, <5>6 DEF Follows, Is
      <4>4. CASE n \notin Dirs
        <5>1. one \in Configs /\ Is(one, k.stack, after, k.fuel, k.seen, NoEntry)
          BY <1>6, <1>11, <2>4, <3>2, <4>1, <4>4 DEF StepCases
        <5>2. Judged(one)'
          BY <1>1, <1>4, <1>s, <5>1 DEF Follows, Judged, Fine, Is
        <5> QED BY <1>4, <1>w, <4>2, <5>1, <5>2 DEF Follows, Is
      <4> QED BY <4>3, <4>4
    <3>3. Underway'
      <4>1. at' \in {"component", "ancestor"} /\ (at' = "ancestor" => ~ suspect')
        BY <1>s, <3>1
      <4> QED BY <1>5, <1>7, <1>8, <1>s, <3>2, <4>1 DEF Underway
    <3> QED BY <1>1, <1>s, <2>1, <3>3, OnTheWay
  <2> QED BY <2>2, <2>3, <2>4
<1> QED BY <1>9, <1>10, <1>11, <1>c

LEMMA JudgeAncestorHolds == WalkInv /\ JudgeAncestor => WalkInv'
<1> SUFFICES ASSUME WalkInv, JudgeAncestor PROVE WalkInv'
  OBVIOUS
<1>1. /\ Typed /\ Asked /\ TypeOK /\ Underway /\ at = "ancestor" /\ at \in Places
      /\ fs \in Layouts
  BY DEF WalkInv, Typed, JudgeAncestor, Places
<1>s. /\ UNCHANGED <<scene, subject>> /\ fs' = fs /\ attr' = attr /\ path' = path
      /\ use' = use /\ subject' = subject /\ hops' = hops /\ cur' = cur /\ next' = next
      /\ rest' = rest /\ at' = "component" /\ at' \in Places
      /\ suspect' = AncestorDistrust(Lstat(fs, cur))
  BY DEF JudgeAncestor, scene, Places
<1>2. PICK k \in Configs : Follows(k)
  BY <1>1 DEF Underway
<1>3. ~ suspect
  BY <1>1 DEF Underway
<1>4. k.node = Walking => Lstat(fs, cur) = Last(k.stack) /\ Last(k.stack) \in Dirs
                          /\ Last(k.stack) \in k.seen /\ Beside(k)
  <2> SUFFICES ASSUME k.node = Walking
               PROVE  Lstat(fs, cur) = Last(k.stack) /\ Last(k.stack) \in Dirs
                      /\ Last(k.stack) \in k.seen /\ Beside(k)
    OBVIOUS
  <2>1. Beside(k)
    BY <1>2 DEF Follows
  <2>2. Lstat(fs, cur) = Last(k.stack) /\ Last(k.stack) \in Dirs
    BY <1>1, <2>1, Standing DEF Beside
  <2>3. Last(k.stack) \in k.seen
    BY <1>2, LastSeen
  <2> QED BY <2>1, <2>2, <2>3
<1>5. Judged(k)'
  <2>1. ASSUME NEW n \in k.seen, ~ suspect' PROVE Fine(n)
    <3>1. Fine(n) \/ (k.node = Walking /\ n = Last(k.stack))
      BY <1>2, <1>3 DEF Follows, Judged
    <3>2. k.node = Walking => Fine(Last(k.stack))
      BY <1>1, <1>4, <1>s, <2>1, Colours
    <3> QED BY <3>1, <3>2
  <2>2. ASSUME suspect', use = "program" PROVE \E n \in k.seen : attr[n] # "own"
    <3>1. k.node = Walking
      BY <1>1, <1>2, <2>2, NotLost
    <3> QED BY <1>1, <1>4, <1>s, <2>2, <3>1, Colours
  <2> QED BY <1>s, <2>1, <2>2 DEF Judged, Fine
<1>6. Follows(k)'
  <2>1. (Resolve(fs, k) = Route(fs, subject))'
    BY <1>2, <1>s DEF Follows
  <2>2. k.node = Walking => Beside(k)'
    BY <1>1, <1>4, <1>s DEF Beside
  <2> QED BY <1>2, <1>5, <2>1, <2>2 DEF Follows
<1>7. Underway'
  BY <1>1, <1>6, <1>s DEF Underway
<1>8. TypeOK'
  BY <1>1, <1>s DEF TypeOK, AncestorDistrust
<1> QED BY <1>1, <1>7, <1>8, <1>s, OnTheWay

LEMMA JudgeLinkHolds == WalkInv /\ JudgeLink => WalkInv'
<1> SUFFICES ASSUME WalkInv, JudgeLink PROVE WalkInv'
  OBVIOUS
<1>1. /\ Typed /\ Asked /\ TypeOK /\ Underway /\ at = "link" /\ at \in Places
      /\ fs \in Layouts
  BY DEF WalkInv, Typed, JudgeLink, Places
<1> DEFINE refused == hops + 1 > MaxHops \/ LinkDistrust(Lstat(fs, next))
<1>s. /\ UNCHANGED <<scene, subject>> /\ fs' = fs /\ attr' = attr /\ path' = path
      /\ use' = use /\ subject' = subject /\ hops' = hops + 1 /\ cur' = cur /\ next' = next
      /\ rest' = rest /\ suspect' = suspect /\ at' = IF refused THEN "refused" ELSE "readlink"
  BY DEF JudgeLink, scene
<1>2. PICK k \in Configs : Follows(k)
  BY <1>1 DEF Underway
<1>3. hops \in Nat /\ hops <= MaxHops /\ Lstat(fs, next) \in Links
  BY <1>1 DEF Underway, TypeOK
<1>4. TypeOK'
  BY <1>1, <1>3, <1>s, MaxHopsNat DEF TypeOK, Verdicts
<1>5. CASE refused
  <2>1. Typed' /\ Asked'
    BY <1>1, <1>4, <1>5, <1>s DEF Typed, Asked
  <2>2. ASSUME use = "program" PROVE \E n \in Route(fs, path).seen : attr[n] # "own"
    <3>1. /\ k.node = Walking /\ Beside(k)
          /\ Resolve(fs, k) = Route(fs, path) /\ Resolve(fs, k).node \in Files
      BY <1>1, <1>2, <2>2, NotLost
    <3> DEFINE n == Lstat(fs, next)
    <3>f. PICK one : one = ResolveOne(fs)[k]
      OBVIOUS
    <3>2. /\ StepCases(fs, k, Last(next), n, rest, one) /\ Last(next) \in Names
          /\ Resolve(fs, k) = Resolve(fs, one)
      BY <1>1, <3>1, <3>f, LookedAt DEF Beside
    <3>3. k.fuel = MaxHops - hops
      BY <1>1, <1>3, <3>1, MaxHopsNat DEF Beside
    <3>d. n \notin Dirs /\ n \notin Files /\ NoEntry \notin Files /\ NoEntry # Walking
      BY <1>3, WalkAssumption DEF Nodes, NoEntry, Walking
    <3> HIDE DEF n
    <3>4. CASE k.fuel > 0
      <4>1. one \in Configs /\ one.seen = k.seen \cup {n}
        BY <1>3, <3>2, <3>4 DEF StepCases, Is, n
      <4>2. n \in Route(fs, path).seen
        BY <1>1, <3>1, <3>2, <4>1, ResolveEnds
      <4>3. attr[n] # "own"
        BY <1>1, <1>3, <1>5, <3>3, <3>4, MaxHopsNat, Colours DEF n
      <4> QED BY <4>2, <4>3
    <3>5. CASE ~ k.fuel > 0
      <4>1. one \in Configs /\ one.node = NoEntry
        BY <3>2, <3>5, <3>d DEF StepCases, Is
      <4>2. Resolve(fs, one) = one
        BY <1>1, <3>d, <4>1, ResolveEnds
      <4> QED BY <3>1, <3>2, <3>d, <4>1, <4>2
    <3> QED BY <3>4, <3>5
  <2>3. Underway' /\ Ended'
    BY <1>5, <1>s, <2>2 DEF Underway, Ended, AcceptedIsRootsOwn, RefusedForAReason, Places
  <2> QED BY <2>1, <2>3 DEF WalkInv
<1>6. CASE ~ refused
  <2>1. at' = "readlink" /\ at' \in Places /\ hops + 1 <= MaxHops
        /\ ~ LinkDistrust(Lstat(fs, next))
    BY <1>3, <1>6, <1>s, MaxHopsNat DEF Places
  <2>2. Follows(k)'
    <3>1. Judged(k)'
      BY <1>1, <1>2, <1>s DEF Follows, Judged, Fine
    <3>2. ASSUME k.node = Walking PROVE Beside(k)'
      <4>1. Beside(k) /\ Pending(k)
        BY <1>1, <1>2, <3>2 DEF Follows, Beside
      <4>2. k.fuel = MaxHops - hops' + 1
        BY <1>1, <1>3, <1>s, <4>1, MaxHopsNat DEF Beside
      <4>3. Pending(k)'
        BY <1>s, <4>1 DEF Pending
      <4> QED BY <1>s, <2>1, <4>1, <4>2, <4>3 DEF Beside
    <3>3. (Resolve(fs, k) = Route(fs, subject))'
      BY <1>2, <1>s DEF Follows
    <3> QED BY <1>2, <3>1, <3>2, <3>3 DEF Follows
  <2>3. LinkDistrust(Lstat(fs, next))' <=> LinkDistrust(Lstat(fs, next))
    BY <1>s DEF LinkDistrust
  <2>4. Lstat(fs, next)' = Lstat(fs, next)
    BY <1>s
  <2>5. Underway'
    BY <1>3, <1>s, <2>1, <2>2, <2>3, <2>4 DEF Underway
  <2> QED BY <1>1, <1>4, <1>s, <2>1, <2>5, OnTheWay
<1> QED BY <1>5, <1>6

LEMMA ReadLinkHolds == WalkInv /\ ReadLink => WalkInv'
<1> SUFFICES ASSUME WalkInv, ReadLink PROVE WalkInv'
  OBVIOUS
<1> DEFINE n == Lstat(fs, next)
           t == fs.target[n]
<1>1. /\ Typed /\ Asked /\ TypeOK /\ Underway /\ at = "readlink" /\ at \in Places
      /\ fs \in Layouts
  BY DEF WalkInv, Typed, ReadLink, Places
<1>s. /\ UNCHANGED <<scene, subject>> /\ fs' = fs /\ attr' = attr /\ path' = path
      /\ use' = use /\ subject' = subject /\ hops' = hops /\ next' = next
      /\ suspect' = suspect /\ at' = "component" /\ at' \in Places
      /\ rest' = t.comps \o rest /\ cur' = IF t.abs THEN <<>> ELSE cur
  BY DEF ReadLink, scene, Places
<1>2. PICK k \in Configs : Follows(k)
  BY <1>1 DEF Underway
<1>3. hops \in Nat /\ hops <= MaxHops /\ hops > 0 /\ n \in Links /\ ~ LinkDistrust(n)
  BY <1>1 DEF Underway, TypeOK
<1>4. TypeOK'
  <2>1. t.comps \in Seq(Components) /\ rest \in Seq(Components)
    BY <1>1, <1>3, LayoutFacts DEF TypeOK
  <2>2. t.comps \o rest \in Seq(Components)
    BY <2>1
  <2>3. <<>> \in Seq(Names)
    OBVIOUS
  <2> QED BY <1>1, <1>s, <2>2, <2>3 DEF TypeOK
<1>f. PICK one : one = ResolveOne(fs)[k]
  OBVIOUS
<1>w. Walking # NoEntry
  BY DEF Walking, NoEntry
<1>5. ASSUME k.node = NoEntry PROVE Follows(k)'
  <2>1. Judged(k)'
    BY <1>1, <1>2, <1>5, <1>s, <1>w DEF Follows, Judged, Fine
  <2>2. (Resolve(fs, k) = Route(fs, subject))'
    BY <1>2, <1>s DEF Follows
  <2> QED BY <1>2, <1>5, <1>w, <2>1, <2>2 DEF Follows
<1>6. ASSUME k.node = Walking PROVE one \in Configs /\ Follows(one)'
  <2> DEFINE st == IF t.abs THEN <<Root>> ELSE k.stack
  <2>1. Beside(k) /\ Pending(k) /\ Along(fs, cur, k.stack)
    BY <1>1, <1>2, <1>6 DEF Follows, Beside
  <2>2. StepCases(fs, k, Last(next), n, rest, one) /\ Resolve(fs, k) = Resolve(fs, one)
    BY <1>1, <1>6, <1>f, <2>1, LookedAt
  <2>3. k.fuel = MaxHops - hops + 1 /\ k.fuel > 0
    BY <1>1, <1>3, <2>1, MaxHopsNat DEF Beside
  <2>4. one \in Configs /\ Is(one, st, t.comps \o rest, k.fuel - 1, k.seen \cup {n}, Walking)
    BY <1>3, <2>2, <2>3 DEF StepCases
  <2>5. Along(fs, cur', st)
    BY <1>s, <2>1, AlongRoot
  <2>6. \A i \in 1..Len(st) : st[i] \in k.seen
    BY <1>2 DEF Follows
  <2>7. Fine(n)
    BY <1>1, <1>3, Colours
  <2> HIDE DEF st, n, t
  <2>8. Judged(one)'
    BY <1>1, <1>2, <1>s, <2>4, <2>7 DEF Follows, Judged, Fine, Is
  <2>9. Beside(one)'
    BY <1>3, <1>s, <2>3, <2>4, <2>5, MaxHopsNat DEF Beside, Is
  <2>10. (Resolve(fs, one) = Route(fs, subject))'
    BY <1>2, <1>s, <2>2 DEF Follows
  <2> QED BY <1>2, <2>4, <2>6, <2>8, <2>9, <2>10 DEF Follows, Is
<1>7. k.node = Walking \/ k.node = NoEntry
  BY <1>2 DEF Follows
<1>8. Underway'
  BY <1>3, <1>5, <1>6, <1>7, <1>s DEF Underway
<1> QED BY <1>1, <1>4, <1>8, <1>s, OnTheWay

LEMMA ComponentsEndHolds == WalkInv /\ ComponentsEnd => WalkInv'
<1> SUFFICES ASSUME WalkInv, ComponentsEnd PROVE WalkInv'
  OBVIOUS
<1>1. /\ Typed /\ TypeOK /\ Underway /\ at = "component" /\ at \in Places /\ rest = <<>>
  BY DEF WalkInv, Typed, ComponentsEnd, Places
<1>s. /\ UNCHANGED <<scene, subject>> /\ fs' = fs /\ attr' = attr /\ path' = path
      /\ use' = use /\ subject' = subject /\ hops' = hops /\ cur' = cur /\ next' = next
      /\ rest' = rest /\ suspect' = suspect /\ at' = "holder" /\ at' \in Places
  BY DEF ComponentsEnd, scene, walkVars, Places
<1>2. PICK k \in Configs : Follows(k)
  BY <1>1 DEF Underway
<1>3. Follows(k)'
  <2>1. Judged(k)'
    BY <1>1, <1>2, <1>s DEF Follows, Judged, Fine
  <2>2. k.node = Walking => Beside(k)'
    BY <1>1, <1>2, <1>s DEF Follows, Beside
  <2>3. (Resolve(fs, k) = Route(fs, subject))'
    BY <1>2, <1>s DEF Follows
  <2> QED BY <1>2, <2>1, <2>2, <2>3 DEF Follows
<1>4. Underway'
  BY <1>1, <1>3, <1>s DEF Underway
<1>5. TypeOK'
  BY <1>1, <1>s DEF TypeOK
<1> QED BY <1>1, <1>4, <1>5, <1>s, OnTheWay

LEMMA JudgeHolderHolds == WalkInv /\ JudgeHolder => WalkInv'
<1> SUFFICES ASSUME WalkInv, JudgeHolder PROVE WalkInv'
  OBVIOUS
<1>1. /\ Typed /\ Asked /\ TypeOK /\ Underway /\ at = "holder" /\ at \in Places
      /\ fs \in Layouts
  BY DEF WalkInv, Typed, JudgeHolder, Places
<1> DEFINE refused == LeafDistrust(Lstat(fs, cur)) \/ suspect
<1>s. /\ UNCHANGED <<scene, subject>> /\ fs' = fs /\ attr' = attr /\ path' = path
      /\ use' = use /\ subject' = subject /\ hops' = hops /\ cur' = cur /\ next' = next
      /\ rest' = rest /\ suspect' = suspect /\ at' = IF refused THEN "refused" ELSE "leaf"
  BY DEF JudgeHolder, scene, walkVars
<1>2. PICK k \in Configs : Follows(k)
  BY <1>1 DEF Underway
<1>3. TypeOK'
  BY <1>1, <1>s DEF TypeOK, Verdicts
<1>4. ASSUME k.node = Walking
      PROVE  /\ Beside(k) /\ Lstat(fs, cur) = Last(k.stack) /\ Last(k.stack) \in Dirs
             /\ Last(k.stack) \in k.seen
  <2>1. Beside(k)
    BY <1>2, <1>4 DEF Follows
  <2> QED BY <1>1, <1>2, <2>1, Standing, LastSeen DEF Beside
<1>5. CASE refused
  <2>1. Typed' /\ Asked'
    BY <1>1, <1>3, <1>5, <1>s DEF Typed, Asked
  <2>2. ASSUME use = "program" PROVE \E n \in Route(fs, path).seen : attr[n] # "own"
    <3>1. k.node = Walking /\ Resolve(fs, k) = Route(fs, path)
      BY <1>1, <1>2, <2>2, NotLost
    <3>2. k.seen \subseteq Route(fs, path).seen
      BY <1>1, <3>1, ResolveEnds
    <3>3. CASE LeafDistrust(Lstat(fs, cur))
      BY <1>1, <1>4, <3>1, <3>2, <3>3, Colours
    <3>4. CASE suspect
      BY <1>2, <2>2, <3>2, <3>4 DEF Follows, Judged
    <3> QED BY <1>5, <3>3, <3>4
  <2>3. Underway' /\ Ended'
    BY <1>5, <1>s, <2>2 DEF Underway, Ended, AcceptedIsRootsOwn, RefusedForAReason, Places
  <2> QED BY <2>1, <2>3 DEF WalkInv
<1>6. CASE ~ refused
  <2>1. at' = "leaf" /\ at' \in Places /\ ~ suspect
    BY <1>1, <1>6, <1>s DEF Places, TypeOK
  <2>2. Follows(k)'
    <3>1. Judged(k)'
      BY <1>1, <1>2, <1>s DEF Follows, Judged, Fine
    <3>2. ASSUME k.node = Walking PROVE Beside(k)'
      <4>1. attr[Last(k.stack)] = "own"
        BY <1>1, <1>4, <1>6, <3>2, Colours
      <4>2. Pending(k) => Pending(k)'
        BY <1>s DEF Pending
      <4>3. Lstat(fs, next)' = Lstat(fs, next)
        BY <1>s
      <4> QED BY <1>1, <1>4, <1>s, <2>1, <3>2, <4>1, <4>2, <4>3 DEF Beside
    <3>3. (Resolve(fs, k) = Route(fs, subject))'
      BY <1>2, <1>s DEF Follows
    <3> QED BY <1>2, <3>1, <3>2, <3>3 DEF Follows
  <2>3. Underway'
    BY <1>1, <1>s, <2>1, <2>2 DEF Underway
  <2> QED BY <1>1, <1>3, <1>s, <2>1, <2>3, OnTheWay
<1> QED BY <1>5, <1>6

\* What the last look of the walk says of the end of the kernel's resolution.
LEMMA LastLook ==
    ASSUME WalkInv, at = "leaf", NEW k \in Configs, Follows(k), k.node = Walking,
           NEW r, r = Route(fs, subject)
    PROVE  /\ \A m \in k.seen : Fine(m)
           /\ \/ /\ r.node = Last(k.stack) /\ r.seen = k.seen /\ r.node \in Dirs
                 /\ attr[r.node] = "own"
              \/ /\ next # <<>> /\ Lstat(fs, next) \in Dirs \cup Files
                 /\ r.node = Lstat(fs, next) /\ r.seen = k.seen \cup {r.node}
              \/ next # <<>> /\ Lstat(fs, next) \notin Dirs \cup Files /\ r.node = NoEntry
<1>1. Typed /\ Underway /\ fs \in Layouts /\ at \in Places
  BY DEF WalkInv, Typed, Places
<1>2. Beside(k) /\ r = Resolve(fs, k) /\ Along(fs, cur, k.stack)
  BY DEF Follows, Beside
<1>3. ~ suspect
  BY <1>1 DEF Underway
<1>4. \A m \in k.seen : Fine(m)
  BY <1>3 DEF Follows, Judged
<1>5. CASE k.comps = <<>>
  <2>1. r.node = Last(k.stack) /\ r.seen = k.seen
    BY <1>1, <1>2, <1>5, Arrives
  <2>2. r.node \in Dirs
    BY <1>1, <1>2, <2>1, Standing
  <2>3. attr[r.node] = "own"
    BY <1>2, <2>1 DEF Beside
  <2> QED BY <1>4, <2>1, <2>2, <2>3
<1>6. CASE k.comps # <<>>
  <2> DEFINE n == Lstat(fs, next)
  <2>1. Pending(k) /\ n \notin Links /\ rest = <<>>
    BY <1>2, <1>6 DEF Beside
  <2>f. PICK one : one = ResolveOne(fs)[k]
    OBVIOUS
  <2>2. /\ next # <<>> /\ Last(next) \in Names /\ r = Resolve(fs, one)
        /\ StepCases(fs, k, Last(next), n, rest, one)
    BY <1>1, <1>2, <2>1, <2>f, LookedAt
  <2>d. /\ \A m \in Dirs : m \notin Files
        /\ \A m \in Files : m # Walking
        /\ NoEntry \notin Dirs /\ NoEntry \notin Files /\ NoEntry # Walking
    BY WalkAssumption DEF Nodes, NoEntry, Walking
  <2> HIDE DEF n
  <2>3. CASE n \in Dirs
    <3>1. one \in Configs
          /\ Is(one, Append(k.stack, n), rest, k.fuel, k.seen \cup {n}, Walking)
      BY <2>2, <2>3 DEF StepCases
    <3>2. r.node = Last(Append(k.stack, n)) /\ r.seen = k.seen \cup {n}
      BY <1>1, <2>1, <2>2, <3>1, Arrives DEF Is
    <3>3. Last(Append(k.stack, n)) = n
      <4>1. k.stack \in Seq(Dirs)
        BY DEF Configs
      <4> QED BY <2>3, <4>1 DEF Last
    <3> QED BY <1>4, <2>2, <2>3, <3>2, <3>3 DEF n
  <2>4. CASE n \in Files
    <3>1. one \in Configs /\ Is(one, k.stack, rest, k.fuel, k.seen \cup {n}, n)
      BY <2>1, <2>2, <2>4 DEF StepCases
    <3>2. r = one
      BY <1>1, <2>2, <2>4, <2>d, <3>1, ResolveEnds DEF Is
    <3> QED BY <1>4, <2>2, <2>4, <3>1, <3>2 DEF n, Is
  <2>5. CASE n \notin Dirs /\ n \notin Files
    <3>1. one \in Configs /\ one.node = NoEntry
      BY <2>1, <2>2, <2>5 DEF StepCases, Is
    <3>2. r = one
      BY <1>1, <2>2, <2>d, <3>1, ResolveEnds
    <3> QED BY <1>4, <2>2, <2>5, <3>1, <3>2 DEF n
  <2> QED BY <2>3, <2>4, <2>5
<1> QED BY <1>5, <1>6

LEMMA JudgeLeafHolds == WalkInv /\ JudgeLeaf => WalkInv'
<1> SUFFICES ASSUME WalkInv, JudgeLeaf PROVE WalkInv'
  OBVIOUS
<1>1. /\ Typed /\ Asked /\ TypeOK /\ Underway /\ at = "leaf" /\ at \in Places
      /\ fs \in Layouts
  BY DEF WalkInv, Typed, JudgeLeaf, Places
<1> DEFINE refused == next = <<>> \/ LeafDistrust(Lstat(fs, next))
           r == Route(fs, subject)
<1>s. /\ fs' = fs /\ attr' = attr /\ path' = path
      /\ use' = use /\ subject' = subject /\ hops' = hops /\ cur' = cur /\ next' = next
      /\ rest' = rest /\ suspect' = suspect
      /\ at' = IF refused THEN "refused"
               ELSE IF use = "directory" /\ subject = path THEN "tree" ELSE "accepted"
  BY DEF JudgeLeaf, scene, walkVars
<1>2. PICK k \in Configs : Follows(k)
  BY <1>1 DEF Underway
<1>3. Typed' /\ Asked'
  BY <1>1, <1>s DEF Typed, TypeOK, Verdicts, Asked
<1>4. Underway'
  BY <1>s DEF Underway, Places
<1>5. k.node = Walking =>
        /\ \A m \in k.seen : Fine(m)
        /\ \/ /\ r.node = Last(k.stack) /\ r.seen = k.seen /\ r.node \in Dirs
              /\ attr[r.node] = "own"
           \/ /\ next # <<>> /\ Lstat(fs, next) \in Dirs \cup Files
              /\ r.node = Lstat(fs, next) /\ r.seen = k.seen \cup {r.node}
           \/ next # <<>> /\ Lstat(fs, next) \notin Dirs \cup Files /\ r.node = NoEntry
  <2> HIDE DEF r
  <2> SUFFICES ASSUME k.node = Walking
        PROVE  /\ \A m \in k.seen : Fine(m)
               /\ \/ /\ r.node = Last(k.stack) /\ r.seen = k.seen /\ r.node \in Dirs
                     /\ attr[r.node] = "own"
                  \/ /\ next # <<>> /\ Lstat(fs, next) \in Dirs \cup Files
                     /\ r.node = Lstat(fs, next) /\ r.seen = k.seen \cup {r.node}
                  \/ next # <<>> /\ Lstat(fs, next) \notin Dirs \cup Files /\ r.node = NoEntry
    OBVIOUS
  <2>1. r = Route(fs, subject)
    BY DEF r
  <2> QED BY <1>1, <1>2, <2>1, LastLook
<1>6. CASE refused
  <2>1. ASSUME use = "program"
        PROVE  Stat(fs, path) \notin Files \/ \E n \in Route(fs, path).seen : attr[n] # "own"
    <3>1. k.node = Walking /\ Resolve(fs, k) = Route(fs, path) /\ Resolve(fs, k).node \in Files
      BY <1>1, <1>2, <2>1, NotLost
    <3>2. r = Route(fs, path) /\ r.node \in Files
      BY <1>2, <3>1 DEF Follows
    <3>d. r.node \notin Dirs /\ NoEntry \notin Files
      BY <3>2, WalkAssumption DEF Nodes
    <3> HIDE DEF r
    <3>3. next # <<>> /\ r.node = Lstat(fs, next) /\ r.seen = k.seen \cup {r.node}
      BY <1>5, <3>1, <3>2, <3>d
    <3>4. attr[r.node] # "own"
      BY <1>1, <1>6, <3>2, <3>3, Colours
    <3> QED BY <3>2, <3>3, <3>4
  <2>2. Ended'
    BY <1>6, <1>s, <2>1 DEF Ended, AcceptedIsRootsOwn, RefusedForAReason
  <2> QED BY <1>3, <1>4, <2>2 DEF WalkInv
<1>7. CASE ~ refused
  <2>1. RootsOwn(subject)
    <3> SUFFICES (r.node # NoEntry => attr[r.node] = "own") /\ \A m \in r.seen : Fine(m)
      BY DEF RootsOwn, Fine
    <3>1. CASE k.node = Walking
      <4>1. Lstat(fs, next) \in Dirs \cup Files => attr[Lstat(fs, next)] = "own"
        BY <1>1, <1>7, Colours
      <4>2. Lstat(fs, next) \in Dirs \cup Files
        BY <1>7 DEF LeafDistrust
      <4>3. attr[Lstat(fs, next)] = "own" /\ Fine(Lstat(fs, next))
        BY <1>1, <4>1, <4>2, Colours DEF Nodes
      <4> HIDE DEF r
      <4> QED BY <1>5, <3>1, <4>2, <4>3
    <3>2. CASE k.node = NoEntry
      <4>1. k.node # Walking
        BY <3>2 DEF Walking, NoEntry
      <4>2. r = k
        BY <1>1, <1>2, <4>1, ResolveEnds DEF Follows
      <4>3. ~ suspect
        BY <1>1 DEF Underway
      <4>4. \A m \in k.seen : Fine(m)
        BY <1>1, <1>2, <4>3 DEF Follows, Judged
      <4> HIDE DEF r
      <4> QED BY <3>2, <4>2, <4>4
    <3> QED BY <1>2, <3>1, <3>2 DEF Follows
  <2>2. RootsOwn(subject)'
    BY <1>s, <2>1 DEF RootsOwn
  <2>3. at' = IF use = "directory" /\ subject = path THEN "tree" ELSE "accepted"
    BY <1>7, <1>s
  <2>4. AcceptedIsRootsOwn'
    <3> SUFFICES ASSUME at' = "accepted" PROVE AcceptedIsRootsOwn'
      BY DEF AcceptedIsRootsOwn
    <3>1. ~ (use = "directory" /\ subject = path)
      BY <2>3
    <3>2. /\ use = "program" => subject = path /\ Stat(fs, path) \in Files
          /\ subject # path => Stat(fs, path) = NoEntry
                               /\ Lstat(fs, SubSeq(path, 1, Len(subject) + 1)) = NoEntry
      BY <1>1 DEF Asked
    <3> QED BY <1>s, <2>2, <3>1, <3>2 DEF AcceptedIsRootsOwn
  <2>5. Ended'
    BY <1>s, <2>2, <2>3, <2>4 DEF Ended, RefusedForAReason
  <2> QED BY <1>3, <1>4, <2>5 DEF WalkInv
<1> QED BY <1>6, <1>7

LEMMA JudgeTreeHolds == WalkInv /\ JudgeTree => WalkInv'
<1> SUFFICES ASSUME WalkInv, JudgeTree PROVE WalkInv'
  OBVIOUS
<1>1. /\ Typed /\ Asked /\ Ended /\ at = "tree" /\ use = "directory" /\ subject = path
      /\ RootsOwn(subject)
  BY DEF WalkInv, JudgeTree, Ended
<1>s. /\ fs' = fs /\ attr' = attr /\ path' = path
      /\ use' = use /\ subject' = subject /\ hops' = hops /\ cur' = cur /\ next' = next
      /\ rest' = rest /\ suspect' = suspect
      /\ at' = IF Stat(fs, path) \notin Dirs \/ TreeDistrust(Stat(fs, path)) THEN "refused"
               ELSE "accepted"
  BY DEF JudgeTree, scene, walkVars
<1>2. Typed' /\ Asked'
  BY <1>1, <1>s DEF Typed, TypeOK, Verdicts, Asked
<1>3. Underway'
  BY <1>s DEF Underway, Places
<1>4. RootsOwn(subject)'
  BY <1>1, <1>s DEF RootsOwn
<1>5. ASSUME at' = "accepted", NEW n \in Tree(fs, Stat(fs, path))
      PROVE  attr[n] = "own" \/ (n \in LockFiles /\ attr[n] = "open")
  <2>1. ~ TreeDistrust(Stat(fs, path))
    BY <1>5, <1>s
  <2>2. attr[n] \notin {"foreign", "acl"} /\ (attr[n] = "own" \/ n \in LockFiles)
    BY <2>1, <1>5 DEF TreeDistrust
  <2>3. n \in LockFiles => attr[n] \in {"own", "open", "acl", "foreign"}
    BY <1>1, WalkAssumption DEF Typed, Attributes, Nodes
  <2> QED BY <2>2, <2>3
<1>6. AcceptedIsRootsOwn'
  BY <1>1, <1>4, <1>5, <1>s DEF AcceptedIsRootsOwn
<1>7. Ended'
  BY <1>1, <1>4, <1>6, <1>s DEF Ended, RefusedForAReason
<1> QED BY <1>2, <1>3, <1>7 DEF WalkInv

LEMMA StutterHolds == WalkInv /\ UNCHANGED vars => WalkInv'
<1> SUFFICES ASSUME WalkInv, UNCHANGED vars PROVE WalkInv'
  OBVIOUS
<1>1. Typed /\ Asked /\ Underway /\ Ended
  BY DEF WalkInv
<1>s. /\ fs' = fs /\ attr' = attr /\ path' = path /\ use' = use /\ at' = at
      /\ subject' = subject /\ hops' = hops /\ cur' = cur /\ next' = next /\ rest' = rest
      /\ suspect' = suspect
  BY DEF vars, scene, walkVars
<1>2. Typed' /\ Asked'
  BY ONLY <1>1, <1>s DEF Typed, TypeOK, Asked
<1>3. Underway'
  <2>1. ASSUME NEW k \in Configs, Follows(k) PROVE Follows(k)'
    <3>1. Judged(k) => Judged(k)'
      BY ONLY <1>s DEF Judged, Fine
    <3>2. Beside(k) => Beside(k)'
      BY ONLY <1>s DEF Beside, Pending
    <3> QED BY ONLY <1>s, <2>1, <3>1, <3>2 DEF Follows
  <2>2. (\E k \in Configs : Follows(k)) => \E k \in Configs : Follows(k)'
    BY ONLY <2>1
  <2> QED BY ONLY <1>1, <1>s, <2>2 DEF Underway, LinkDistrust
<1>4. Ended'
  BY ONLY <1>1, <1>s DEF Ended, RootsOwn, AcceptedIsRootsOwn, RefusedForAReason
<1> QED BY <1>2, <1>3, <1>4 DEF WalkInv

LEMMA WalkInvAlways == Spec => []WalkInv
<1>1. WalkInv /\ [Walk]_vars => WalkInv'
  BY BeginHolds, ClimbHolds, ComponentHolds, JudgeAncestorHolds, JudgeLinkHolds, ReadLinkHolds,
     ComponentsEndHolds, JudgeHolderHolds, JudgeLeafHolds, JudgeTreeHolds, StutterHolds DEF Walk
<1> QED BY InitHolds, <1>1, PTL DEF Spec

-----------------------------------------------------------------------------
(* The theorems                                                            *)

\* What the runner accepts as root (pack_runner.sh, pwshpy_uv_distrust and
\* pwshpy_python_dir_distrust) is what the kernel finds, through nothing but
\* root's own: of any file system, path and number of links to follow.
THEOREM AcceptedIsRootsOwnAlways == Spec => []AcceptedIsRootsOwn
<1>1. WalkInv => AcceptedIsRootsOwn
  BY DEF WalkInv, Ended
<1> QED BY <1>1, WalkInvAlways, PTL

\* A program is refused (pwshpy_uv_acceptable) only for a node on its way that
\* is not plainly root's.
THEOREM RefusedForAReasonAlways == Spec => []RefusedForAReason
<1>1. WalkInv => RefusedForAReason
  BY DEF WalkInv, Ended
<1> QED BY <1>1, WalkInvAlways, PTL
=============================================================================
