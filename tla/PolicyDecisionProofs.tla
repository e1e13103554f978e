------------------------ MODULE PolicyDecisionProofs ------------------------
(***************************************************************************)
(* Proofs about the PDP.  First PolicyEval: which conditions are published  *)
(* and what the evaluator makes of them, for trees of any shape, lists of   *)
(* policies of any length and all requests.  Then PolicyDecision, for every *)
(* number of policies, roles, endpoints, users and decisions, whatever      *)
(* changes while they are made.                                             *)
(***************************************************************************)
EXTENDS PolicyDecision, PolicyEval, TLAPS, WellFoundedInduction, FiniteSetTheorems

-----------------------------------------------------------------------------
(* PolicyEval: minima *)

\* A set of natural numbers that is not empty has a least element.
LEMMA Least ==
    ASSUME NEW T \in SUBSET Nat, T # {}
    PROVE  \E x \in T : \A y \in T : x <= y
<1>1. IsWellFoundedOn(OpToRel(<, Nat), Nat)
    BY NatLessThanWellFounded
<1>2. PICK x \in T : \A y \in T : <<y, x>> \notin OpToRel(<, Nat)
    BY <1>1, WFMin
<1>3. \A y \in T : ~(y < x)
    BY <1>2 DEF OpToRel
<1> QED BY <1>3

-----------------------------------------------------------------------------
(* Lists of conditions *)

Conditions == UNION {Range(s) : s \in Lists}

\* The lists behind and below a list are lists, and smaller.
LEMMA Listed ==
    ASSUME NEW s \in Lists
    PROVE  /\ s \in Seq(Conditions) /\ DOMAIN s = 1 .. Len(s) /\ Len(s) \in Nat
           /\ s # <<>> => /\ Tail(s) \in Lists /\ Size[Tail(s)] < Size[s]
                          /\ Head(s) = s[1] /\ 1 \in DOMAIN s
           /\ \A i \in DOMAIN s : /\ Children(s[i]) \in Lists
                                  /\ Size[Children(s[i])] < Size[s]
                                  /\ Len(s[i].not) <= 1
<1>1. s \in Seq(Conditions)
    BY EvalAssumption DEF Conditions
<1>2. \A i \in DOMAIN s : s[i] \in Range(s)
    BY DEF Range
<1>3. s # <<>> => Head(s) = s[1] /\ 1 \in DOMAIN s
    BY <1>1
<1>4. s # <<>> => Tail(s) \in Lists /\ Size[Tail(s)] < Size[s]
    BY EvalAssumption
<1>5. \A c \in Range(s) : /\ Children(c) \in Lists /\ Size[Children(c)] < Size[s]
                          /\ Len(c.not) <= 1
    BY EvalAssumption
<1>6. DOMAIN s = 1 .. Len(s) /\ Len(s) \in Nat
    BY <1>1
<1>7. \A i \in DOMAIN s : /\ Children(s[i]) \in Lists /\ Size[Children(s[i])] < Size[s]
                          /\ Len(s[i].not) <= 1
    BY <1>2, <1>5, Zenon
<1> QED BY <1>1, <1>3, <1>4, <1>6, <1>7

LEMMA SizeType == Size \in [Lists -> Nat]
BY EvalAssumption

\* One of least size among those that are not as they should be.
LEMMA Smallest ==
    ASSUME NEW bad \in SUBSET Lists, bad # {}
    PROVE  \E x \in bad : \A y \in Lists : Size[y] < Size[x] => y \notin bad
<1> DEFINE ranks == {Size[x] : x \in bad}
<1>1. ranks \in SUBSET Nat /\ ranks # {}
    BY SizeType
<1>2. PICK n \in ranks : \A k \in ranks : n <= k
    BY <1>1, Least
<1>3. PICK x \in bad : Size[x] = n
    OBVIOUS
<1>4. ASSUME NEW y \in Lists, Size[y] < Size[x], y \in bad PROVE FALSE
  <2>1. Size[y] \in ranks
      BY <1>4
  <2>2. n <= Size[y] /\ Size[y] \in Nat /\ n \in Nat
      BY <1>1, <1>2, <2>1, SizeType
  <2> QED BY <1>3, <1>4, <2>2
<1> QED BY <1>4

\* A definition by recursion has a solution, if what it says of x depends on the
\* function at smaller lists only.
LEMMA Recursion ==
    ASSUME NEW T, T # {},
           NEW K \in [[Lists -> T] -> [Lists -> T]],
           \A x \in Lists : \A g, h \in [Lists -> T] :
              (\A y \in Lists : Size[y] < Size[x] => g[y] = h[y]) => K[g][x] = K[h][x]
    PROVE  \E f \in [Lists -> T] : f = K[f]
<1> DEFINE F == [Lists -> T]
           UpTo(n) == {g \in F : \A x \in Lists : Size[x] < n => g[x] = K[g][x]}
<1>1. \A x \in Lists : \A g, h \in F :
        (\A y \in Lists : Size[y] < Size[x] => g[y] = h[y]) => K[g][x] = K[h][x]
    OBVIOUS
<1>2. \A bad \in SUBSET Lists : bad # {} =>
        \E x \in bad : \A y \in Lists : Size[y] < Size[x] => y \notin bad
    BY Smallest
<1>3. \A m, n \in Nat : \A g \in UpTo(m), h \in UpTo(n) : \A x \in Lists :
        Size[x] < m /\ Size[x] < n => g[x] = h[x]
  <2> SUFFICES ASSUME NEW m \in Nat, NEW n \in Nat, NEW g \in UpTo(m), NEW h \in UpTo(n)
               PROVE  \A x \in Lists : Size[x] < m /\ Size[x] < n => g[x] = h[x]
      OBVIOUS
  <2> DEFINE bad == {x \in Lists : Size[x] < m /\ Size[x] < n /\ g[x] # h[x]}
  <2>1. ASSUME NEW x \in bad, \A y \in Lists : Size[y] < Size[x] => y \notin bad PROVE FALSE
    <3>1. ASSUME NEW y \in Lists, Size[y] < Size[x] PROVE g[y] = h[y]
      <4>1. Size[x] \in Nat /\ Size[y] \in Nat
          BY SizeType
      <4> QED BY <2>1, <3>1, <4>1
    <3>2. K[g][x] = K[h][x]
        BY <3>1
    <3> QED BY <3>2
  <2>2. bad \in SUBSET Lists
      OBVIOUS
  <2> HIDE DEF bad
  <2>3. bad = {}
      BY <1>2, <2>1, <2>2
  <2> QED BY <2>3 DEF bad
<1>4. \A n \in Nat : UpTo(n) # {}
  <2> DEFINE bad == {n \in Nat : UpTo(n) = {}}
  <2>1. ASSUME bad # {} PROVE FALSE
    <3>1. PICK n \in bad : \A k \in bad : n <= k
        BY <2>1, Least
    <3>2. CASE n = 0
      <4>1. PICK t \in T : TRUE
          OBVIOUS
      <4>2. [x \in Lists |-> t] \in UpTo(0)
          BY SizeType
      <4> QED BY <3>2, <4>2
    <3>3. CASE n # 0
      <4>1. n \in Nat /\ n - 1 \in Nat /\ ~(n <= n - 1)
          BY <3>3
      <4>2. PICK g \in F : g \in UpTo(n - 1)
          BY <3>1, <4>1
      <4>3. PICK h \in F : h = K[g]
          OBVIOUS
      <4>4. ASSUME NEW x \in Lists, Size[x] < n PROVE h[x] = K[h][x]
        <5>1. ASSUME NEW y \in Lists, Size[y] < Size[x] PROVE g[y] = h[y]
          <6>1. Size[x] \in Nat /\ Size[y] \in Nat /\ Size[y] < n - 1
              BY <4>1, <4>4, <5>1, SizeType
          <6> QED BY <4>2, <4>3, <6>1
        <5> HIDE DEF F
        <5>2. g \in F /\ h \in F /\ x \in Lists
            OBVIOUS
        <5>3. K[g][x] = K[h][x]
            BY ONLY <1>1, <5>1, <5>2
        <5> QED BY <4>3, <5>3
      <4>5. h \in UpTo(n)
          BY <4>4
      <4> QED BY <3>1, <4>5
    <3> QED BY <3>2, <3>3
  <2> QED BY <2>1
<1> HIDE DEF UpTo
<1> DEFINE G(n) == CHOOSE g : g \in UpTo(n)
           f == [x \in Lists |-> G(Size[x] + 1)[x]]
<1>5. \A n \in Nat : G(n) \in UpTo(n)
    BY <1>4
<1> HIDE DEF G
<1>6. \A n \in Nat : \A g \in UpTo(n) :
        g \in F /\ \A x \in Lists : Size[x] < n => g[x] = K[g][x]
    BY DEF UpTo
<1>7. \A x \in Lists : Size[x] + 1 \in Nat /\ Size[x] < Size[x] + 1
    BY SizeType
<1>8. \A x \in Lists : G(Size[x] + 1) \in UpTo(Size[x] + 1) /\ G(Size[x] + 1) \in F
    BY <1>5, <1>6, <1>7
<1>9. f \in F
    BY <1>8
<1>10. ASSUME NEW x \in Lists PROVE f[x] = K[f][x]
  <2>1. PICK g \in F : g = G(Size[x] + 1) /\ g \in UpTo(Size[x] + 1)
      BY <1>8
  <2>2. f[x] = K[g][x]
      BY <1>6, <1>7, <2>1
  <2>3. ASSUME NEW y \in Lists, Size[y] < Size[x] PROVE g[y] = f[y]
    <3>1. PICK h \in F : h = G(Size[y] + 1) /\ h \in UpTo(Size[y] + 1)
        BY <1>8
    <3>2. Size[y] < Size[x] + 1
        BY <2>3, SizeType
    <3>3. g[y] = h[y]
        BY <1>3, <1>7, <2>1, <3>1, <3>2
    <3> QED BY <3>1, <3>3
  <2> HIDE DEF f, F
  <2>4. K[g][x] = K[f][x]
      BY <1>1, <1>9, <2>3
  <2> QED BY <2>2, <2>4
<1>11. K[f] \in F
    BY <1>9
<1> HIDE DEF f
<1>12. f = K[f]
    BY <1>9, <1>10, <1>11
<1> QED BY <1>9, <1>12

-----------------------------------------------------------------------------
(* What the recursive functions are equal to *)

CountedBy(f) ==
    [s \in Lists |-> [depth \in Nat |-> [n \in Nat |->
        LET c == Head(s) IN
        IF s = <<>> THEN n
        ELSE IF ~WellFormed(c, depth, n) THEN Invalid
        ELSE IF c.comparison # <<>> /\ ~ValidComparison(c.comparison[1]) THEN Invalid
        ELSE f[Tail(s)][depth][f[Children(c)][depth + 1][n + 1]]]]]

Counts == [Nat -> [Nat -> Nat]]

LEMMA CountedTyped ==
    ASSUME NEW f, NEW s \in Lists,
           s # <<>> => f[Tail(s)] \in Counts /\ f[Children(Head(s))] \in Counts
    PROVE  CountedBy(f)[s] \in Counts
<1>1. ASSUME NEW depth \in Nat, NEW n \in Nat PROVE CountedBy(f)[s][depth][n] \in Nat
  <2>1. Invalid \in Nat
      BY EvalAssumption DEF Invalid
  <2>2. s # <<>> => f[Tail(s)][depth][f[Children(Head(s))][depth + 1][n + 1]] \in Nat
    <3>1. \A g \in Counts : \A i, j \in Nat : g[i][j] \in Nat
        BY DEF Counts
    <3>2. depth + 1 \in Nat /\ n + 1 \in Nat
        OBVIOUS
    <3> QED BY <3>1, <3>2
  <2> QED BY <2>1, <2>2 DEF CountedBy
<1> QED BY <1>1 DEF Counts, CountedBy

LEMMA CountedEquation == Counted = CountedBy(Counted) /\ Counted \in [Lists -> Counts]
<1> DEFINE F == [Lists -> Counts]
           K == [f \in F |-> CountedBy(f)]
<1>1. \A s \in Lists : s # <<>> => Tail(s) \in Lists /\ Children(Head(s)) \in Lists
    BY Listed
<1>2. \A f \in F : CountedBy(f) \in F
  <2> SUFFICES ASSUME NEW f \in F, NEW s \in Lists PROVE CountedBy(f)[s] \in Counts
      BY DEF CountedBy
  <2> QED BY <1>1, CountedTyped
<1>3. K \in [F -> F]
    BY <1>2
<1>4. \A s \in Lists : \A g, h \in F :
        (\A t \in Lists : Size[t] < Size[s] => g[t] = h[t]) => K[g][s] = K[h][s]
  <2> SUFFICES ASSUME NEW s \in Lists, NEW g \in F, NEW h \in F,
                      \A t \in Lists : Size[t] < Size[s] => g[t] = h[t]
               PROVE  K[g][s] = K[h][s]
      OBVIOUS
  <2>1. s # <<>> => g[Tail(s)] = h[Tail(s)] /\ g[Children(Head(s))] = h[Children(Head(s))]
      BY Listed
  <2> QED BY <2>1 DEF CountedBy
<1>5. Counts # {}
  <2>1. [depth \in Nat |-> [n \in Nat |-> 0]] \in Counts
      BY DEF Counts
  <2> QED BY <2>1
<1>6. \E f \in F : f = K[f]
  <2> HIDE DEF K
  <2> QED BY <1>3, <1>4, <1>5, Recursion, Zenon
<1>7. Counted = CountedBy(Counted)
  <2> DEFINE P(f) == f = CountedBy(f)
  <2>1. \E f : P(f)
      BY <1>6
  <2>2. Counted = CHOOSE f : P(f)
      BY DEF Counted, CountedBy
  <2> HIDE DEF P
  <2>3. P(Counted)
      BY <2>1, <2>2
  <2> QED BY <2>3 DEF P
<1>8. Counted \in F
  <2> DEFINE bad == {s \in Lists : Counted[s] \notin Counts}
  <2>1. ASSUME NEW s \in bad, \A t \in Lists : Size[t] < Size[s] => t \notin bad PROVE FALSE
    <3>1. s # <<>> => Counted[Tail(s)] \in Counts /\ Counted[Children(Head(s))] \in Counts
        BY <2>1, Listed
    <3>2. CountedBy(Counted)[s] \in Counts
        BY <3>1, CountedTyped
    <3> QED BY <1>7, <3>2
  <2>2. bad \in SUBSET Lists
      OBVIOUS
  <2> HIDE DEF bad
  <2>3. bad = {}
      BY <2>1, <2>2, Smallest, SizeType
  <2>4. Counted = [s \in Lists |-> Counted[s]]
      BY <1>7 DEF CountedBy
  <2> QED BY <2>3, <2>4 DEF bad
<1> QED BY <1>7, <1>8

\* What is below a node and what is behind it are lists.
LEMMA Smaller ==
    ASSUME NEW s \in Lists
    PROVE  /\ s # <<>> => /\ Tail(s) \in Lists /\ Size[Tail(s)] < Size[s]
                          /\ Children(Head(s)) \in Lists /\ Size[Children(Head(s))] < Size[s]
           /\ \A i \in DOMAIN s : /\ Children(s[i]) \in Lists
                                  /\ Size[Children(s[i])] < Size[s]
BY Listed

MatchBy(f) ==
    [s \in Lists |-> [i \in DOMAIN s |->
        LET c == s[i]
            below == f[Children(c)]
        IN IF c.all # <<>> THEN First(below, "yes")
           ELSE IF c.any # <<>> THEN First(below, "no")
           ELSE IF c.not # <<>> THEN Negated(below[1])
           ELSE IF c.comparison = <<>> THEN "panic"
           ELSE Comparison(c.comparison[1])]]

\* Outcomes of a condition, and what there is of a list without any.
Outcomes == {"yes", "no", "error", "panic", <<>>[1]}

LEMMA FirstStops ==
    ASSUME NEW V, NEW outcomes \in Seq(V), NEW rest
    PROVE  \/ First(outcomes, rest) = rest /\ \A i \in DOMAIN outcomes : outcomes[i] = rest
           \/ \E i \in DOMAIN outcomes :
                First(outcomes, rest) = outcomes[i] /\ outcomes[i] # rest
<1> DEFINE stops == {i \in DOMAIN outcomes : outcomes[i] # rest}
<1>1. stops \in SUBSET Nat
    OBVIOUS
<1>2. CASE stops = {}
    BY <1>2 DEF First
<1>3. CASE stops # {}
  <2>1. \E i \in stops : \A j \in stops : i =< j
    <3> HIDE DEF stops
    <3> QED BY <1>1, <1>3, Least
  <2>2. Min(stops) \in stops
    <3> HIDE DEF stops
    <3> QED BY <2>1 DEF Min
  <2>3. First(outcomes, rest) = outcomes[Min(stops)]
      BY <1>3 DEF First
  <2> QED BY <2>2, <2>3
<1> QED BY <1>2, <1>3

LEMMA ComparisonOutcome == \A c : Comparison(c) \in {"yes", "no", "error", "panic"}
<1>1. \A op, x, y : Compare(op, x, y) \in {"yes", "no", "error", "panic"}
    BY DEF Compare, Outcome
<1> QED BY <1>1 DEF Comparison, Outcome

LEMMA MatchEquation == Match = MatchBy(Match)
<1> DEFINE T == Seq(Outcomes)
           F == [Lists -> T]
           K == [f \in F |-> MatchBy(f)]
<1>1. ASSUME NEW f \in F, NEW s \in Lists, NEW i \in DOMAIN s
      PROVE  MatchBy(f)[s][i] \in Outcomes
  <2>1. f[Children(s[i])] \in T
      BY Smaller
  <2>2. First(f[Children(s[i])], "yes") \in Outcomes /\ First(f[Children(s[i])], "no") \in Outcomes
    <3>1. \A o \in T, rest \in Outcomes : First(o, rest) \in Outcomes
        BY FirstStops
    <3> QED BY <2>1, <3>1 DEF Outcomes
  <2>3. f[Children(s[i])][1] \in Outcomes
      BY <2>1 DEF Outcomes
  <2>4. Negated(f[Children(s[i])][1]) \in Outcomes
      BY <2>3 DEF Negated, Outcome, Outcomes
  <2> QED BY <2>2, <2>4, ComparisonOutcome DEF MatchBy, Outcomes
<1>2. K \in [F -> F]
  <2> SUFFICES ASSUME NEW f \in F, NEW s \in Lists PROVE MatchBy(f)[s] \in T
      BY DEF MatchBy
  <2>1. DOMAIN s = 1 .. Len(s) /\ Len(s) \in Nat
      BY Listed
  <2>2. MatchBy(f)[s] = [i \in 1 .. Len(s) |-> MatchBy(f)[s][i]]
      BY <2>1 DEF MatchBy
  <2>3. MatchBy(f)[s] \in [1 .. Len(s) -> Outcomes]
      BY <1>1, <2>1, <2>2
  <2>4. \A n \in Nat : \A o \in [1 .. n -> Outcomes] : o \in T
      OBVIOUS
  <2> HIDE DEF T
  <2> QED BY <2>1, <2>3, <2>4
<1>3. \A s \in Lists : \A g, h \in F :
        (\A t \in Lists : Size[t] < Size[s] => g[t] = h[t]) => K[g][s] = K[h][s]
  <2> SUFFICES ASSUME NEW s \in Lists, NEW g \in F, NEW h \in F,
                      \A t \in Lists : Size[t] < Size[s] => g[t] = h[t]
               PROVE  K[g][s] = K[h][s]
      OBVIOUS
  <2>1. \A i \in DOMAIN s : g[Children(s[i])] = h[Children(s[i])]
      BY Smaller
  <2> QED BY <2>1 DEF MatchBy
<1>4. T # {}
  <2>1. <<>> \in T
      OBVIOUS
  <2> QED BY <2>1
<1>5. \E f \in F : f = K[f]
  <2> HIDE DEF K, T
  <2> QED BY <1>2, <1>3, <1>4, Recursion, Zenon
<1> DEFINE P(f) == f = MatchBy(f)
<1>6. \E f : P(f)
    BY <1>5
<1>7. Match = CHOOSE f : P(f)
    BY DEF Match, MatchBy
<1> HIDE DEF P
<1>8. P(Match)
    BY <1>6, <1>7
<1> QED BY <1>8 DEF P

HoldsBy(f) ==
    [s \in Lists |-> {i \in DOMAIN s :
        LET c == s[i]
            below == f[Children(c)]
        IN IF c.all # <<>> THEN below = DOMAIN c.all
           ELSE IF c.any # <<>> THEN below # {}
           ELSE IF c.not # <<>> THEN below = {}
           ELSE Comparison(c.comparison[1]) = "yes"}]

LEMMA HoldsEquation == Holds = HoldsBy(Holds)
<1> DEFINE T == SUBSET Nat
           F == [Lists -> T]
           K == [f \in F |-> HoldsBy(f)]
<1>1. K \in [F -> F]
  <2> SUFFICES ASSUME NEW f \in F, NEW s \in Lists PROVE HoldsBy(f)[s] \in T
      BY DEF HoldsBy
  <2> QED BY Listed DEF HoldsBy
<1>2. \A s \in Lists : \A g, h \in F :
        (\A t \in Lists : Size[t] < Size[s] => g[t] = h[t]) => K[g][s] = K[h][s]
  <2> SUFFICES ASSUME NEW s \in Lists, NEW g \in F, NEW h \in F,
                      \A t \in Lists : Size[t] < Size[s] => g[t] = h[t]
               PROVE  K[g][s] = K[h][s]
      OBVIOUS
  <2>1. \A i \in DOMAIN s : g[Children(s[i])] = h[Children(s[i])]
      BY Smaller
  <2> QED BY <2>1 DEF HoldsBy
<1>3. \E f \in F : f = K[f]
  <2> HIDE DEF K
  <2> QED BY <1>1, <1>2, Recursion, Zenon
<1> DEFINE P(f) == f = HoldsBy(f)
<1>4. \E f : P(f)
    BY <1>3
<1>5. Holds = CHOOSE f : P(f)
    BY DEF Holds, HoldsBy
<1> HIDE DEF P
<1>6. P(Holds)
    BY <1>4, <1>5
<1> QED BY <1>6 DEF P

NodesBy(f) ==
    [s \in Lists |->
        IF s = <<>> THEN 0 ELSE 1 + f[Children(Head(s))] + f[Tail(s)]]

LEMMA NodesEquation == Nodes = NodesBy(Nodes)
<1> DEFINE F == [Lists -> Nat]
           K == [f \in F |-> NodesBy(f)]
<1>1. K \in [F -> F]
  <2> SUFFICES ASSUME NEW f \in F, NEW s \in Lists PROVE NodesBy(f)[s] \in Nat
      BY DEF NodesBy
  <2> QED BY Smaller DEF NodesBy
<1>2. \A s \in Lists : \A g, h \in F :
        (\A t \in Lists : Size[t] < Size[s] => g[t] = h[t]) => K[g][s] = K[h][s]
    BY Smaller DEF NodesBy
<1>3. \E f \in F : f = K[f]
  <2> HIDE DEF K
  <2>1. Nat # {}
      OBVIOUS
  <2> QED BY <1>1, <1>2, <2>1, Recursion, Zenon
<1> DEFINE P(f) == f = NodesBy(f)
<1>4. \E f : P(f)
    BY <1>3
<1>5. Nodes = CHOOSE f : P(f)
    BY DEF Nodes, NodesBy
<1> HIDE DEF P
<1>6. P(Nodes)
    BY <1>4, <1>5
<1> QED BY <1>6 DEF P

LEMMA MaxOfTwo ==
    ASSUME NEW a \in Nat, NEW b \in Nat
    PROVE  Max({a, b}) = IF a >= b THEN a ELSE b
<1> DEFINE m == IF a >= b THEN a ELSE b
<1>1. m \in {a, b} /\ \A y \in {a, b} : m >= y
    OBVIOUS
<1>2. \A x \in {a, b} : (\A y \in {a, b} : x >= y) => x = m
    OBVIOUS
<1> QED BY <1>1, <1>2 DEF Max

DepthBy(f) ==
    [s \in Lists |->
        IF s = <<>> THEN 0 ELSE Max({1 + f[Children(Head(s))], f[Tail(s)]})]

LEMMA DepthEquation == Depth = DepthBy(Depth)
<1> DEFINE F == [Lists -> Nat]
           K == [f \in F |-> DepthBy(f)]
<1>1. K \in [F -> F]
  <2> SUFFICES ASSUME NEW f \in F, NEW s \in Lists PROVE DepthBy(f)[s] \in Nat
      BY DEF DepthBy
  <2>1. s # <<>> => 1 + f[Children(Head(s))] \in Nat /\ f[Tail(s)] \in Nat
      BY Smaller
  <2>2. s # <<>> => Max({1 + f[Children(Head(s))], f[Tail(s)]}) \in Nat
      BY <2>1, MaxOfTwo
  <2> QED BY <2>2 DEF DepthBy
<1>2. \A s \in Lists : \A g, h \in F :
        (\A t \in Lists : Size[t] < Size[s] => g[t] = h[t]) => K[g][s] = K[h][s]
    BY Smaller DEF DepthBy
<1>3. \E f \in F : f = K[f]
  <2> HIDE DEF K
  <2>1. Nat # {}
      OBVIOUS
  <2> QED BY <1>1, <1>2, <2>1, Recursion, Zenon
<1> DEFINE P(f) == f = DepthBy(f)
<1>4. \E f : P(f)
    BY <1>3
<1>5. Depth = CHOOSE f : P(f)
    BY DEF Depth, DepthBy
<1> HIDE DEF P
<1>6. P(Depth)
    BY <1>4, <1>5
<1> QED BY <1>6 DEF P

-----------------------------------------------------------------------------
(* What validation is worth *)

\* The evaluator reaches an outcome on a condition, and the right one.
MatchOf(c) ==
    LET below == Match[Children(c)]
    IN IF c.all # <<>> THEN First(below, "yes")
       ELSE IF c.any # <<>> THEN First(below, "no")
       ELSE IF c.not # <<>> THEN Negated(below[1])
       ELSE IF c.comparison = <<>> THEN "panic"
       ELSE Comparison(c.comparison[1])

HoldsOf(c) ==
    LET below == Holds[Children(c)]
    IN IF c.all # <<>> THEN below = DOMAIN c.all
       ELSE IF c.any # <<>> THEN below # {}
       ELSE IF c.not # <<>> THEN below = {}
       ELSE Comparison(c.comparison[1]) = "yes"

Agrees(c) == MatchOf(c) \in {"yes", "no"} /\ (MatchOf(c) = "yes" <=> HoldsOf(c))

AllAgree(s) == \A i \in DOMAIN s : Agrees(s[i])

LEMMA ListOutcomes ==
    ASSUME NEW s \in Lists
    PROVE  /\ Match[s] = [i \in DOMAIN s |-> MatchOf(s[i])]
           /\ Holds[s] = {i \in DOMAIN s : HoldsOf(s[i])}
<1>1. Match[s] = MatchBy(Match)[s] /\ Holds[s] = HoldsBy(Holds)[s]
    BY MatchEquation, HoldsEquation, Zenon
<1> QED BY <1>1 DEF MatchBy, HoldsBy, MatchOf, HoldsOf

\* The loops over children stop where their meaning says.
LEMMA LoopsAgree ==
    ASSUME NEW s \in Lists, AllAgree(s)
    PROVE  /\ First(Match[s], "yes") \in {"yes", "no"}
           /\ First(Match[s], "yes") = "yes" <=> Holds[s] = DOMAIN s
           /\ First(Match[s], "no") \in {"yes", "no"}
           /\ First(Match[s], "no") = "yes" <=> Holds[s] # {}
<1>1. /\ DOMAIN Match[s] = DOMAIN s
      /\ \A i \in DOMAIN s : /\ Match[s][i] \in {"yes", "no"}
                             /\ Match[s][i] = "yes" <=> i \in Holds[s]
      /\ Holds[s] \subseteq DOMAIN s
    BY ListOutcomes DEF AllAgree, Agrees
<1>2. Match[s] \in Seq({"yes", "no"})
  <2>1. DOMAIN s = 1 .. Len(s) /\ Len(s) \in Nat
      BY Listed
  <2>2. Match[s] \in [1 .. Len(s) -> {"yes", "no"}]
    <3>1. Match[s] = [i \in 1 .. Len(s) |-> Match[s][i]]
        BY <2>1, ListOutcomes
    <3> QED BY <1>1, <2>1, <3>1
  <2>3. \A n \in Nat : \A o \in [1 .. n -> {"yes", "no"}] : o \in Seq({"yes", "no"})
      OBVIOUS
  <2> QED BY <2>1, <2>2, <2>3
<1>3. \A rest : \/ /\ First(Match[s], rest) = rest
                   /\ \A i \in DOMAIN s : Match[s][i] = rest
                \/ \E i \in DOMAIN s : /\ First(Match[s], rest) = Match[s][i]
                                       /\ Match[s][i] # rest
    BY <1>1, <1>2, FirstStops
<1>4. /\ First(Match[s], "yes") \in {"yes", "no"}
      /\ First(Match[s], "yes") = "yes" <=> Holds[s] = DOMAIN s
    BY <1>1, <1>3
<1>5. /\ First(Match[s], "no") \in {"yes", "no"}
      /\ First(Match[s], "no") = "yes" <=> Holds[s] # {}
    BY <1>1, <1>3
<1> QED BY <1>4, <1>5

LEMMA ValidComparisonDecided ==
    ASSUME NEW c, ValidComparison(c)
    PROVE  Comparison(c) \in {"yes", "no"}
<1>1. \A b : Outcome(b) \in {"yes", "no"}
    BY DEF Outcome
<1>2. \A x, y : c.op # "exists" => Compare(c.op, x, y) \in {"yes", "no"}
    BY <1>1 DEF ValidComparison, Operators, Compare
<1> QED BY <1>1, <1>2 DEF ValidComparison, Comparison

\* A node that validate accepts agrees, when what is below it does.
LEMMA NodeAgrees ==
    ASSUME NEW c, Kinds(c) = 1, Children(c) \in Lists, Len(c.not) <= 1,
           c.comparison # <<>> => ValidComparison(c.comparison[1]),
           AllAgree(Children(c))
    PROVE  Agrees(c)
<1>1. c.all # <<>> \/ c.any # <<>> \/ c.not # <<>> \/ c.comparison # <<>>
  <2> DEFINE set == {f \in {"all", "any", "not", "comparison"} : c[f] # <<>>}
  <2>1. Cardinality(set) = 1
      BY DEF Kinds
  <2> HIDE DEF set
  <2>2. Cardinality({}) = 0
      BY FS_EmptySet
  <2>3. 1 # 0
      OBVIOUS
  <2>4. set # {}
      BY <2>1, <2>2, <2>3, Zenon
  <2> QED BY <2>4 DEF set
<1>2. CASE c.all # <<>>
    BY <1>2, LoopsAgree DEF Agrees, MatchOf, HoldsOf, Children
<1>3. CASE c.all = <<>> /\ c.any # <<>>
    BY <1>3, LoopsAgree DEF Agrees, MatchOf, HoldsOf, Children
<1>4. CASE c.all = <<>> /\ c.any = <<>> /\ c.not # <<>>
  <2>1. c.not \in Lists /\ Children(c) = c.not
      BY <1>4 DEF Children
  <2>2. DOMAIN c.not = {1}
    <3>1. c.not \in Seq(Conditions)
        BY <2>1, Listed
    <3> QED BY <1>4, <3>1
  <2>3. /\ Match[c.not][1] \in {"yes", "no"}
        /\ Match[c.not][1] = "yes" <=> Holds[c.not] # {}
    <3>1. /\ Match[c.not][1] = MatchOf(c.not[1])
          /\ Holds[c.not] = {i \in {1} : HoldsOf(c.not[i])}
      <4>1. /\ Match[c.not] = [i \in DOMAIN c.not |-> MatchOf(c.not[i])]
            /\ Holds[c.not] = {i \in DOMAIN c.not : HoldsOf(c.not[i])}
          BY <2>1, ListOutcomes, Zenon
      <4>2. 1 \in DOMAIN c.not
          BY <2>2
      <4>3. Match[c.not][1] = MatchOf(c.not[1])
          BY <4>1, <4>2, Zenon
      <4> QED BY <2>2, <4>1, <4>3, Zenon
    <3> QED BY <2>1, <2>2, <3>1 DEF AllAgree, Agrees
  <2>4. MatchOf(c) = Negated(Match[c.not][1]) /\ (HoldsOf(c) <=> Holds[c.not] = {})
      BY <1>4, <2>1 DEF MatchOf, HoldsOf
  <2> QED BY <2>3, <2>4 DEF Agrees, Negated, Outcome
<1>5. CASE c.all = <<>> /\ c.any = <<>> /\ c.not = <<>>
  <2>1. c.comparison # <<>> /\ Comparison(c.comparison[1]) \in {"yes", "no"}
      BY <1>1, <1>5, ValidComparisonDecided
  <2> QED BY <1>5, <2>1 DEF Agrees, MatchOf, HoldsOf
<1> QED BY <1>2, <1>3, <1>4, <1>5

\* A count without an error is the number of nodes, within the limits, and the
\* conditions counted are decided.
Sound(s) ==
    \A depth, n \in Nat :
        n <= MaxNodes /\ Counted[s][depth][n] # Invalid =>
            /\ Nodes[s] \in Nat /\ Counted[s][depth][n] = n + Nodes[s]
            /\ n + Nodes[s] <= MaxNodes
            /\ Depth[s] \in Nat /\ (s = <<>> \/ depth + Depth[s] <= MaxDepth + 1)
            /\ s = <<>> => Depth[s] = 0
            /\ AllAgree(s)

LEMMA CountedStep ==
    ASSUME NEW s \in Lists, NEW depth \in Nat, NEW n \in Nat, s # <<>>,
           Counted[s][depth][n] # Invalid
    PROVE  LET c == Head(s)
               below == Counted[Children(c)][depth + 1][n + 1]
           IN /\ WellFormed(c, depth, n)
              /\ c.comparison # <<>> => ValidComparison(c.comparison[1])
              /\ Counted[s][depth][n] = Counted[Tail(s)][depth][below]
<1>1. Counted[s][depth][n] = CountedBy(Counted)[s][depth][n]
    BY CountedEquation, Zenon
<1>2. Counted[s][depth][n] =
        LET c == Head(s) IN
        IF s = <<>> THEN n
        ELSE IF ~WellFormed(c, depth, n) THEN Invalid
        ELSE IF c.comparison # <<>> /\ ~ValidComparison(c.comparison[1]) THEN Invalid
        ELSE Counted[Tail(s)][depth][Counted[Children(c)][depth + 1][n + 1]]
    BY <1>1 DEF CountedBy
<1> QED BY <1>2

\* Once invalid, always invalid.
LEMMA InvalidStays ==
    ASSUME NEW s \in Lists, NEW depth \in Nat
    PROVE  Counted[s][depth][Invalid] = Invalid
<1>1. Invalid \in Nat /\ ~(Invalid < MaxNodes)
    BY EvalAssumption DEF Invalid
<1>2. CASE s = <<>>
    BY <1>1, <1>2, CountedEquation DEF CountedBy
<1>3. CASE s # <<>>
    BY <1>1, <1>3, CountedStep DEF WellFormed
<1> QED BY <1>2, <1>3

LEMMA SoundStep ==
    ASSUME NEW s \in Lists,
           s # <<>> => Sound(Tail(s)) /\ Sound(Children(Head(s)))
    PROVE  Sound(s)
<1> SUFFICES ASSUME NEW depth \in Nat, NEW n \in Nat, n <= MaxNodes,
                    Counted[s][depth][n] # Invalid
             PROVE  /\ Nodes[s] \in Nat /\ Counted[s][depth][n] = n + Nodes[s]
                    /\ n + Nodes[s] <= MaxNodes
                    /\ Depth[s] \in Nat /\ (s = <<>> \/ depth + Depth[s] <= MaxDepth + 1)
                    /\ s = <<>> => Depth[s] = 0
                    /\ AllAgree(s)
    BY DEF Sound
<1>0. MaxNodes \in Nat /\ MaxDepth \in Nat
    BY EvalAssumption
<1>1. CASE s = <<>>
  <2>1. Counted[s][depth][n] = n
      BY <1>1, CountedEquation DEF CountedBy
  <2>2. Nodes[s] = 0 /\ Depth[s] = 0
      BY <1>1, NodesEquation, DepthEquation DEF NodesBy, DepthBy
  <2>3. AllAgree(s)
      BY <1>1 DEF AllAgree
  <2> QED BY <1>0, <1>1, <2>1, <2>2, <2>3
<1>2. CASE s # <<>>
  <2> DEFINE c == Head(s)
             rest == Tail(s)
             b == Counted[Children(c)][depth + 1][n + 1]
  <2>1. /\ rest \in Lists /\ Children(c) \in Lists
        /\ Len(c.not) <= 1
        /\ Sound(rest) /\ Sound(Children(c))
      BY <1>2, Listed
  <2>2. /\ depth <= MaxDepth /\ n < MaxNodes /\ Kinds(c) = 1
        /\ c.comparison # <<>> => ValidComparison(c.comparison[1])
        /\ Counted[s][depth][n] = Counted[rest][depth][b]
      BY <1>2, CountedStep DEF WellFormed
  <2>3. b # Invalid
      BY <2>1, <2>2, InvalidStays
  <2> HIDE DEF c, rest
  <2>4. /\ Nodes[Children(c)] \in Nat /\ b = n + 1 + Nodes[Children(c)]
        /\ b <= MaxNodes /\ b \in Nat
        /\ Depth[Children(c)] \in Nat
        /\ depth + 1 + Depth[Children(c)] <= MaxDepth + 1
        /\ AllAgree(Children(c))
    <3>1. depth + 1 \in Nat /\ n + 1 \in Nat /\ n + 1 <= MaxNodes
        BY <1>0, <2>2
    <3>2. /\ Nodes[Children(c)] \in Nat /\ b = (n + 1) + Nodes[Children(c)]
          /\ (n + 1) + Nodes[Children(c)] <= MaxNodes
          /\ Depth[Children(c)] \in Nat
          /\ Children(c) = <<>> \/ (depth + 1) + Depth[Children(c)] <= MaxDepth + 1
          /\ Children(c) = <<>> => Depth[Children(c)] = 0
          /\ AllAgree(Children(c))
        BY <2>1, <2>3, <3>1 DEF Sound
    <3> QED BY <1>0, <2>2, <3>1, <3>2
  <2> HIDE DEF b
  <2>5. /\ Nodes[rest] \in Nat /\ Counted[rest][depth][b] = b + Nodes[rest]
        /\ b + Nodes[rest] <= MaxNodes
        /\ Depth[rest] \in Nat
        /\ rest = <<>> \/ depth + Depth[rest] <= MaxDepth + 1
        /\ rest = <<>> => Depth[rest] = 0
        /\ AllAgree(rest)
      BY <2>1, <2>2, <2>4 DEF Sound
  <2>6. /\ Nodes[s] = 1 + Nodes[Children(c)] + Nodes[rest]
        /\ Depth[s] = Max({1 + Depth[Children(c)], Depth[rest]})
      BY <1>2, NodesEquation, DepthEquation DEF NodesBy, DepthBy, c, rest
  <2>7. /\ Depth[s] \in Nat /\ depth + Depth[s] <= MaxDepth + 1
    <3>1. 1 + Depth[Children(c)] \in Nat
        BY <2>4
    <3>2. Depth[s] = IF 1 + Depth[Children(c)] >= Depth[rest] THEN 1 + Depth[Children(c)]
                     ELSE Depth[rest]
        BY <2>5, <2>6, <3>1, MaxOfTwo
    <3> QED BY <1>0, <2>4, <2>5, <3>1, <3>2
  <2>8. AllAgree(s)
    <3>1. Agrees(c)
        BY <2>1, <2>2, <2>4, NodeAgrees
    <3>2. ASSUME NEW i \in DOMAIN s PROVE s[i] = c \/ \E j \in DOMAIN rest : s[i] = rest[j]
      <4>1. s \in Seq(Conditions)
          BY Listed
      <4>2. CASE i = 1
          BY <1>2, <4>1, <4>2 DEF c
      <4>3. CASE i # 1
        <5>1. i - 1 \in DOMAIN rest /\ rest[i - 1] = s[i]
            BY <1>2, <4>1, <4>3 DEF rest
        <5> QED BY <5>1
      <4> QED BY <4>2, <4>3
    <3> QED BY <2>5, <3>1, <3>2 DEF AllAgree
  <2>9. Nodes[s] \in Nat /\ Counted[s][depth][n] = n + Nodes[s] /\ n + Nodes[s] <= MaxNodes
    <3>1. Counted[s][depth][n] = b + Nodes[rest]
        BY <2>2, <2>5, Zenon
    <3>2. PICK x \in Nat, y \in Nat : x = Nodes[Children(c)] /\ y = Nodes[rest]
        BY <2>4, <2>5
    <3>3. b = n + 1 + x /\ Nodes[s] = 1 + x + y /\ b + y <= MaxNodes
        BY <2>4, <2>5, <2>6, <3>2
    <3>4. Counted[s][depth][n] = b + y
        BY <3>1, <3>2
    <3> QED BY <1>0, <3>3, <3>4
  <2> QED BY <1>2, <2>7, <2>8, <2>9
<1> QED BY <1>1, <1>2

LEMMA AllSound == \A s \in Lists : Sound(s)
<1> DEFINE bad == {s \in Lists : ~Sound(s)}
<1>1. ASSUME NEW s \in bad, \A t \in Lists : Size[t] < Size[s] => t \notin bad PROVE FALSE
  <2>1. s # <<>> => Sound(Tail(s)) /\ Sound(Children(Head(s)))
      BY <1>1, Smaller
  <2> QED BY <2>1, SoundStep
<1>2. bad \in SUBSET Lists
    OBVIOUS
<1> HIDE DEF bad
<1>3. bad = {}
    BY <1>1, <1>2, Smallest
<1> QED BY <1>3 DEF bad

\* A condition that validate accepts stays within the limits, and the evaluator
\* decides it, as it means, whatever the request says.
LEMMA ValidDecided ==
    ASSUME NEW s \in Lists, Valid(s)
    PROVE  /\ Nodes[s] <= MaxNodes /\ Depth[s] <= MaxDepth
           /\ MatchesCondition(s) \in {"yes", "no"}
           /\ MatchesCondition(s) = "yes" <=> Holds[s] = DOMAIN s
<1>1. MaxNodes \in Nat /\ MaxDepth \in Nat
    BY EvalAssumption
<1>2. /\ Nodes[s] \in Nat /\ Depth[s] \in Nat
      /\ 0 + Nodes[s] <= MaxNodes
      /\ s = <<>> \/ 1 + Depth[s] <= MaxDepth + 1
      /\ s = <<>> => Depth[s] = 0
      /\ AllAgree(s)
    BY <1>1, AllSound DEF Valid, Sound
<1> QED BY <1>1, <1>2, LoopsAgree DEF MatchesCondition

-----------------------------------------------------------------------------
(* The loop over the snapshots *)

AllValid == \A i \in DOMAIN snapshots : Valid(snapshots[i].condition)

NotBegun == drafts # <<>> => at = 1 /\ result = Pending

\* Until there is an answer, the matched are those that apply of the snapshots
\* looked at, and no deny is among them.
SoFar ==
    LET seen == {i \in 1 .. at - 1 : Applies(i)}
    IN result.reason = "pending" =>
         /\ result.decision = "deny"
         /\ Range(result.matched) = seen
         /\ \A i \in seen : snapshots[i].effect = "allow"

EvalInv ==
    /\ EvalTypeOK
    /\ AllValid
    /\ NotBegun
    /\ SoFar
    /\ EvaluatorTotal
    /\ DecisionMatchesReference

\* Requests do not change, and with them what conditions mean.
LEMMA MeaningStays == UNCHANGED input => Holds' = Holds
BY SMT DEF Holds, Comparison, Resolve

\* A snapshot that was published is evaluated as its condition means.
LEMMA SnapshotDecided ==
    ASSUME EvalTypeOK, AllValid, NEW i \in DOMAIN snapshots
    PROVE  LET s == snapshots[i]
           IN s.bound => /\ MatchesCondition(s.condition) \in {"yes", "no"}
                         /\ MatchesCondition(s.condition) = "yes" <=> Applies(i)
<1>1. snapshots[i] \in Policy
    BY DEF EvalTypeOK
<1>2. snapshots[i].condition \in Lists
    BY <1>1 DEF Policy
<1>3. Valid(snapshots[i].condition)
    BY DEF AllValid
<1> QED BY <1>2, <1>3, ValidDecided DEF Applies

LEMMA EvalInitInv == EvalInit => EvalInv
<1> SUFFICES ASSUME EvalInit PROVE EvalInv
    OBVIOUS
<1>1. drafts \in Seq(Policy)
    BY EvalAssumption DEF EvalInit
<1>2. EvalTypeOK
    BY <1>1 DEF EvalInit, EvalTypeOK, Pending
<1>3. AllValid /\ NotBegun /\ EvaluatorTotal /\ DecisionMatchesReference
    BY DEF EvalInit, AllValid, NotBegun, EvaluatorTotal, DecisionMatchesReference, Pending
<1>4. SoFar
    BY DEF EvalInit, SoFar, Pending, Range
<1> QED BY <1>2, <1>3, <1>4 DEF EvalInv

LEMMA PublishInv == EvalInv /\ Publish => EvalInv'
<1> SUFFICES ASSUME EvalInv, Publish PROVE EvalInv'
    OBVIOUS
<1>1. /\ drafts \in Seq(Policy) /\ snapshots \in Seq(Policy) /\ input \in Inputs
      /\ drafts # <<>> /\ at = 1 /\ result = Pending
      /\ drafts' = Tail(drafts) /\ at' = 1 /\ result' = Pending /\ input' = input
    BY DEF EvalInv, EvalTypeOK, NotBegun, Publish
<1>2. Head(drafts) \in Policy /\ drafts' \in Seq(Policy)
    BY <1>1
<1>3. snapshots' \in Seq(Policy)
    BY <1>1, <1>2 DEF Publish
<1>4. EvalTypeOK'
  <2>1. Len(snapshots') \in Nat
      BY <1>3
  <2>2. Pending \in [decision : {"allow", "deny"}, matched : Seq(1 .. Len(snapshots')),
                     reason : {"pending", "explicit_deny", "allowed_by_policy",
                               "default_deny", "error", "panic"}]
      BY DEF Pending
  <2>3. at' \in 1 .. Len(snapshots') + 1
      BY <1>1, <2>1
  <2> QED BY <1>1, <1>2, <1>3, <2>2, <2>3 DEF EvalTypeOK
<1>5. AllValid'
  <2> SUFFICES ASSUME NEW i \in DOMAIN snapshots' PROVE Valid(snapshots'[i].condition)
      BY DEF AllValid
  <2>1. CASE snapshots' = snapshots
      BY <2>1 DEF EvalInv, AllValid
  <2>2. CASE snapshots' = Append(snapshots, Head(drafts)) /\ Valid(Head(drafts).condition)
    <3>1. snapshots'[i] = Head(drafts) \/ (i \in DOMAIN snapshots /\ snapshots'[i] = snapshots[i])
        BY <1>1, <1>2, <2>2
    <3> QED BY <2>2, <3>1 DEF EvalInv, AllValid
  <2> QED BY <2>1, <2>2 DEF Publish
<1>6. NotBegun' /\ EvaluatorTotal' /\ DecisionMatchesReference'
    BY <1>1 DEF NotBegun, EvaluatorTotal, DecisionMatchesReference, Pending
<1>7. SoFar'
    BY <1>1 DEF SoFar, Pending, Range
<1> QED BY <1>4, <1>5, <1>6, <1>7 DEF EvalInv

\* One more is looked at.
LEMMA SeenGrows ==
    ASSUME at \in Nat, at >= 1
    PROVE  {i \in 1 .. (at + 1) - 1 : Applies(i)}
             = {i \in 1 .. at - 1 : Applies(i)} \cup {i \in {at} : Applies(i)}
OBVIOUS

\* The numbers of the matched snapshots, one more at the end.
LEMMA RangeAppend ==
    ASSUME NEW S, NEW seq \in Seq(S), NEW e
    PROVE  /\ Range(Append(seq, e)) = Range(seq) \cup {e}
           /\ Last(Append(seq, e)) = e
<1>1. \A i \in DOMAIN seq : Append(seq, e)[i] = seq[i] /\ i \in DOMAIN Append(seq, e)
    OBVIOUS
<1>2. \A i \in DOMAIN Append(seq, e) : i \in DOMAIN seq \/ Append(seq, e)[i] = e
    OBVIOUS
<1>3. Len(seq) + 1 \in DOMAIN Append(seq, e) /\ Append(seq, e)[Len(seq) + 1] = e
    OBVIOUS
<1>4. Last(Append(seq, e)) = e
    BY <1>3 DEF Last
<1> QED BY <1>1, <1>2, <1>3, <1>4 DEF Range

LEMMA RangeEmpty ==
    ASSUME NEW S, NEW seq \in Seq(S)
    PROVE  seq = <<>> <=> Range(seq) = {}
<1>1. CASE seq = <<>>
    BY <1>1 DEF Range
<1>2. CASE seq # <<>>
  <2>1. 1 \in DOMAIN seq
      BY <1>2
  <2> QED BY <1>2, <2>1 DEF Range
<1> QED BY <1>1, <1>2

\* What holds of the snapshots stays, while the loop runs.
LEMMA LoopKeeps ==
    ASSUME EvalInv, drafts = <<>>, UNCHANGED <<drafts, snapshots, input>>
    PROVE  /\ AllValid' /\ NotBegun'
           /\ \A i : Applies(i)' <=> Applies(i)
           /\ drafts' \in Seq(Policy) /\ snapshots' \in Seq(Policy) /\ input' \in Inputs
<1>1. AllValid'
    BY DEF EvalInv, AllValid, Valid
<1>2. NotBegun'
    BY DEF NotBegun
<1>3. \A i : Applies(i)' <=> Applies(i)
    BY MeaningStays DEF Applies
<1> QED BY <1>1, <1>2, <1>3 DEF EvalInv, EvalTypeOK

Results == [decision : {"allow", "deny"}, matched : Seq(1 .. Len(snapshots)),
            reason : {"pending", "explicit_deny", "allowed_by_policy",
                      "default_deny", "error", "panic"}]

LEMMA ConcludeInv == EvalInv /\ Conclude => EvalInv'
<1> SUFFICES ASSUME EvalInv, Conclude PROVE EvalInv'
    OBVIOUS
<1> DEFINE seen == {i \in 1 .. at - 1 : Applies(i)}
<1>1. /\ drafts = <<>> /\ UNCHANGED <<drafts, snapshots, input, at>>
      /\ result \in Results /\ result.reason = "pending"
      /\ Len(snapshots) \in Nat /\ at = Len(snapshots) + 1
      /\ DOMAIN snapshots = 1 .. Len(snapshots)
      /\ result' = IF result.matched # <<>> THEN Decided("allow", result.matched)
                   ELSE [result EXCEPT !.reason = "default_deny"]
    BY DEF EvalInv, EvalTypeOK, Conclude, Results
<1>2. AllValid' /\ NotBegun' /\ (\A i : Applies(i)' <=> Applies(i))
    BY <1>1, LoopKeeps
<1>3. result' \in Results
    BY <1>1 DEF Results, Decided
<1>4. EvalTypeOK'
    BY <1>1, <1>3 DEF EvalInv, EvalTypeOK, Results
<1>5. result'.reason \in {"allowed_by_policy", "default_deny"}
    BY <1>1 DEF Results, Decided
<1>6. /\ result.decision = "deny" /\ Range(result.matched) = seen
      /\ \A i \in seen : snapshots[i].effect = "allow"
    BY <1>1 DEF EvalInv, SoFar
<1>7. seen = {i \in DOMAIN snapshots : Applies(i)}
    BY <1>1
<1>8. result.matched = <<>> <=> seen = {}
  <2>1. result.matched \in Seq(1 .. Len(snapshots))
      BY <1>1 DEF Results
  <2>2. result.matched = <<>> <=> Range(result.matched) = {}
      BY <2>1, RangeEmpty
  <2> QED BY <1>6, <2>2
<1>9. DecisionMatchesReference'
  <2> SUFFICES ASSUME TRUE
               PROVE  /\ result'.decision = "allow" <=> seen # {}
                      /\ result'.reason # "explicit_deny"
                      /\ Range(result'.matched) = seen
    <3> DEFINE denying == {i \in seen : snapshots[i].effect = "deny"}
    <3>1. denying = {}
        BY <1>6
    <3>2. /\ seen = {i \in DOMAIN snapshots' : Applies(i)'}
          /\ denying = {i \in seen : snapshots'[i].effect = "deny"}
        BY <1>1, <1>2, <1>7
    <3> HIDE DEF seen, denying
    <3> QED BY <3>1, <3>2 DEF DecisionMatchesReference
  <2>1. result'.matched = result.matched
      BY <1>1 DEF Decided, Results
  <2>2. result'.decision = "allow" <=> result.matched # <<>>
      BY <1>1, <1>6 DEF Decided, Results
  <2> QED BY <1>5, <1>6, <1>8, <2>1, <2>2
<1>10. SoFar' /\ EvaluatorTotal'
    BY <1>5 DEF SoFar, EvaluatorTotal
<1> QED BY <1>2, <1>4, <1>9, <1>10 DEF EvalInv

LEMMA EvaluateNextInv == EvalInv /\ EvaluateNext => EvalInv'
<1> SUFFICES ASSUME EvalInv, EvaluateNext PROVE EvalInv'
    OBVIOUS
<1> DEFINE s == snapshots[at]
           m == IF s.bound THEN MatchesCondition(s.condition) ELSE "no"
           matched == Append(result.matched, at)
           seen == {i \in 1 .. at - 1 : Applies(i)}
           seenNext == {i \in 1 .. at' - 1 : Applies(i)'}
           applying == {i \in DOMAIN snapshots : Applies(i)}
<1>1. /\ drafts = <<>> /\ UNCHANGED <<drafts, snapshots, input>> /\ at' = at + 1
      /\ result \in Results /\ result.reason = "pending"
      /\ Len(snapshots) \in Nat /\ at \in 1 .. Len(snapshots)
      /\ DOMAIN snapshots = 1 .. Len(snapshots)
      /\ s \in Policy
    BY DEF EvalInv, EvalTypeOK, EvaluateNext, Results
<1>2. AllValid' /\ NotBegun' /\ (\A i : Applies(i)' <=> Applies(i))
    BY <1>1, LoopKeeps
<1>3. m \in {"yes", "no"} /\ (m = "yes" <=> Applies(at))
    BY <1>1, SnapshotDecided DEF EvalInv, Applies
<1>4. result' = IF m = "no" THEN result
                ELSE IF m # "yes" THEN [result EXCEPT !.reason = m]
                ELSE IF Ends(s.effect) THEN Decided(s.effect, matched)
                ELSE [result EXCEPT !.matched = matched]
    BY DEF EvaluateNext
<1>5. /\ result.decision = "deny" /\ Range(result.matched) = seen
      /\ \A i \in seen : snapshots[i].effect = "allow"
    BY <1>1 DEF EvalInv, SoFar
<1>6. /\ seenNext = seen \cup {i \in {at} : Applies(i)}
      /\ seen \subseteq applying /\ at \in DOMAIN snapshots
    BY <1>1, <1>2
<1>7. /\ Range(matched) = seen \cup {at} /\ Last(matched) = at
      /\ matched \in Seq(1 .. Len(snapshots))
    BY <1>1, <1>5, RangeAppend DEF Results
<1> HIDE DEF m, matched, seen, seenNext
<1>8. CASE m = "no"
  <2>1. result' = result /\ seenNext = seen
      BY <1>3, <1>4, <1>6, <1>8
  <2>2. EvalTypeOK'
      BY <1>1, <2>1 DEF EvalInv, EvalTypeOK
  <2>3. SoFar'
      BY <1>1, <1>5, <2>1 DEF SoFar, seenNext
  <2>4. EvaluatorTotal' /\ DecisionMatchesReference'
      BY <1>1, <2>1 DEF EvaluatorTotal, DecisionMatchesReference
  <2> QED BY <1>2, <2>2, <2>3, <2>4 DEF EvalInv
<1>9. CASE m = "yes" /\ s.effect = "deny"
  <2>1. result' = [decision |-> "deny", matched |-> matched, reason |-> "explicit_deny"]
      BY <1>4, <1>9 DEF Ends, Decided
  <2>2. EvalTypeOK'
      BY <1>1, <1>2, <1>7, <2>1 DEF EvalInv, EvalTypeOK
  <2>3. SoFar' /\ EvaluatorTotal'
      BY <2>1 DEF SoFar, EvaluatorTotal
  <2>4. DecisionMatchesReference'
    <3> DEFINE denying == {i \in applying : snapshots[i].effect = "deny"}
    <3>1. at \in denying /\ Range(matched) \subseteq applying
        BY <1>3, <1>6, <1>7, <1>9
    <3>2. /\ applying = {i \in DOMAIN snapshots' : Applies(i)'}
          /\ denying = {i \in applying : snapshots'[i].effect = "deny"}
        BY <1>1, <1>2
    <3> HIDE DEF applying, denying
    <3> QED BY <1>7, <2>1, <3>1, <3>2 DEF DecisionMatchesReference
  <2> QED BY <1>2, <2>2, <2>3, <2>4 DEF EvalInv
<1>10. CASE m = "yes" /\ s.effect # "deny"
  <2>1. result' = [result EXCEPT !.matched = matched] /\ s.effect = "allow"
      BY <1>1, <1>4, <1>10 DEF Ends, Policy
  <2>2. result'.reason = "pending" /\ result'.decision = "deny" /\ result'.matched = matched
      BY <1>1, <1>5, <2>1 DEF Results
  <2>3. result' \in Results
      BY <1>1, <1>7, <2>1 DEF Results
  <2>4. EvalTypeOK'
      BY <1>1, <2>3 DEF EvalInv, EvalTypeOK, Results
  <2>5. SoFar'
    <3>1. seenNext = seen \cup {at}
        BY <1>3, <1>6, <1>10
    <3>2. \A i \in seenNext : snapshots'[i].effect = "allow"
        BY <1>1, <1>5, <2>1, <3>1
    <3> QED BY <1>7, <2>2, <3>1, <3>2 DEF SoFar, seenNext
  <2>6. EvaluatorTotal' /\ DecisionMatchesReference'
      BY <2>2 DEF EvaluatorTotal, DecisionMatchesReference
  <2> QED BY <1>2, <2>4, <2>5, <2>6 DEF EvalInv
<1> QED BY <1>3, <1>8, <1>9, <1>10

LEMMA EvalNextInv == EvalInv /\ [EvalNext]_evalVars => EvalInv'
<1> SUFFICES ASSUME EvalInv, [EvalNext]_evalVars PROVE EvalInv'
    OBVIOUS
<1>1. CASE UNCHANGED evalVars
  <2>1. Holds' = Holds
      BY <1>1, MeaningStays DEF evalVars
  <2> QED BY <1>1, <2>1 DEF evalVars, EvalInv, EvalTypeOK, AllValid, Valid, NotBegun, SoFar,
                 Applies, EvaluatorTotal, DecisionMatchesReference
<1>2. CASE EvalNext
    BY <1>2, PublishInv, EvaluateNextInv, ConcludeInv DEF EvalNext
<1> QED BY <1>1, <1>2

\* Publishing and the loop of evaluateByAuthorizationType keep the invariant.
THEOREM EvaluatorInvariant == EvalSpec => []EvalInv
BY EvalInitInv, EvalNextInv, PTL DEF EvalSpec

\* Drafts, snapshots and the answer keep their types.
THEOREM EvaluatorTypeCorrect == EvalSpec => []EvalTypeOK
<1>1. EvalInv => EvalTypeOK
    BY DEF EvalInv
<1> QED BY <1>1, EvaluatorInvariant, PTL

\* The evaluator fails on no condition that compile accepts.
THEOREM EvaluatorNeverFails == EvalSpec => []EvaluatorTotal
<1>1. EvalInv => EvaluatorTotal
    BY DEF EvalInv
<1> QED BY <1>1, EvaluatorInvariant, PTL

\* The answer is the one the policies mean, in whatever order they come.
THEOREM EvaluatorIsRight == EvalSpec => []DecisionMatchesReference
<1>1. EvalInv => DecisionMatchesReference
    BY DEF EvalInv
<1> QED BY <1>1, EvaluatorInvariant, PTL

\* What is published keeps within the limits of depth and size.
THEOREM LimitsHold == EvalSpec => []PublishedIsBounded
<1>1. EvalInv => PublishedIsBounded
  <2> SUFFICES ASSUME EvalInv, NEW s \in Range(snapshots)
               PROVE  Nodes[s.condition] <= MaxNodes /\ Depth[s.condition] <= MaxDepth
      BY DEF PublishedIsBounded
  <2>1. PICK i \in DOMAIN snapshots : s = snapshots[i]
      BY DEF Range
  <2>2. s \in Policy /\ Valid(s.condition)
      BY <2>1 DEF EvalInv, EvalTypeOK, AllValid
  <2>3. s.condition \in Lists
      BY <2>2 DEF Policy
  <2> QED BY <2>2, <2>3, ValidDecided
<1> QED BY <1>1, EvaluatorInvariant, PTL

-----------------------------------------------------------------------------
(* PolicyDecision: type correctness *)

USE DirectoryAssumption, DecisionAssumption

LEMMA InitType == Init => DecisionTypeOK
BY DEF Init, DirInit, CatalogInit, DecisionTypeOK, DirTypeOK, EntityState

\* The directory's steps keep its types.
LEMMA DirectoryType == DirTypeOK /\ [DirNext]_dirVars => DirTypeOK'
<1> SUFFICES ASSUME DirTypeOK, [DirNext]_dirVars PROVE DirTypeOK'
    OBVIOUS
<1>1. ASSUME NEW s \in Scopes, NEW active \in BOOLEAN, SetScopeActive(s, active) PROVE DirTypeOK'
    BY <1>1 DEF DirTypeOK, SetScopeActive
<1>2. ASSUME NEW r \in Roles, NEW enabled \in BOOLEAN, UpdateRole(r, enabled) PROVE DirTypeOK'
    BY <1>2 DEF DirTypeOK, UpdateRole, EntityState
<1>3. ASSUME NEW r \in Roles, DeleteRole(r) PROVE DirTypeOK'
    BY <1>3 DEF DirTypeOK, DeleteRole, EntityState
<1>4. ASSUME NEW e \in Endpoints, NEW enabled \in BOOLEAN, UpdateEndpoint(e, enabled) PROVE DirTypeOK'
    BY <1>4 DEF DirTypeOK, UpdateEndpoint, EntityState
<1>5. ASSUME NEW e \in Endpoints, DeleteEndpoint(e) PROVE DirTypeOK'
    BY <1>5 DEF DirTypeOK, DeleteEndpoint, EntityState
<1>6. ASSUME NEW u \in Subjects, NEW s \in Scopes, NEW requested \in SUBSET RolesIn(s),
             NEW concurrent \in SUBSET userRoles[u], ReplaceUserRoles(u, s, requested, concurrent)
      PROVE  DirTypeOK'
    BY <1>6 DEF DirTypeOK, ReplaceUserRoles, RolesIn
<1>7. CASE UNCHANGED dirVars
    BY <1>7 DEF DirTypeOK, dirVars
<1> QED BY <1>1, <1>2, <1>3, <1>4, <1>5, <1>6, <1>7 DEF DirNext

CatalogTypeOK ==
    /\ frozen \in [Policies -> SUBSET Contents]
    /\ served \in [Policies -> SUBSET Contents]
    /\ retired \subseteq Policies

LEMMA CatalogType == CatalogTypeOK /\ [CatalogNext]_catalogVars => CatalogTypeOK'
<1> SUFFICES ASSUME CatalogTypeOK, [CatalogNext]_catalogVars PROVE CatalogTypeOK'
    OBVIOUS
<1>1. ASSUME NEW p \in Policies, NEW c \in Contents, Freeze(p, c) PROVE CatalogTypeOK'
    BY <1>1 DEF CatalogTypeOK, Freeze
<1>2. ASSUME NEW p \in Policies, Serve(p) \/ Withdraw(p) \/ Retire(p) PROVE CatalogTypeOK'
    BY <1>2 DEF CatalogTypeOK, Serve, Withdraw, Retire
<1>3. CASE UNCHANGED catalogVars
    BY <1>3 DEF CatalogTypeOK, catalogVars
<1> QED BY <1>1, <1>2, <1>3 DEF CatalogNext

\* A decision that has a next read knows its call.
LEMMA Undecided ==
    ASSUME DecisionTypeOK, NEW d \in Decisions, dec[d].pc \in {"endpoint", "roles", "policies"}
    PROVE  dec[d] \in Deciding
BY DEF DecisionTypeOK, Denied, Allowed, Idle

LEMMA DenyType ==
    ASSUME DecisionTypeOK, NEW d \in Decisions, NEW reason \in Reasons, Deny(d, reason)
    PROVE  dec' \in [Decisions -> Deciding \cup Denied \cup Allowed \cup {Idle}]
BY DEF DecisionTypeOK, Deny, Denied

LEMMA StepType ==
    ASSUME DecisionTypeOK, DecisionStep
    PROVE  dec' \in [Decisions -> Deciding \cup Denied \cup Allowed \cup {Idle}]
<1>1. ASSUME NEW d \in Decisions, NEW u \in Subjects, NEW s \in Scopes, NEW e \in Endpoints,
             NEW m \in Attributes, Decide(d, u, s, e, m)
      PROVE  dec' \in [Decisions -> Deciding \cup Denied \cup Allowed \cup {Idle}]
  <2> DEFINE gone == [roles |-> {r \in Roles : roleState[r] = "deleted"},
                      endpoints |-> {x \in Endpoints : endpointState[x] = "deleted"},
                      policies |-> retired]
  <2>1. gone \in Deleted
      BY DEF Deleted, DecisionTypeOK
  <2>2. [pc |-> "endpoint", subject |-> u, scope |-> s, endpoint |-> e,
         matching |-> m, roles |-> {}, gone |-> gone] \in Deciding
    <3> HIDE DEF gone
    <3> QED BY <2>1 DEF Deciding
  <2> QED BY <1>1, <2>2 DEF Decide, DecisionTypeOK
<1>2. ASSUME NEW d \in Decisions, GetEndpoint(d)
      PROVE  dec' \in [Decisions -> Deciding \cup Denied \cup Allowed \cup {Idle}]
  <2>1. dec[d] \in Deciding
      BY <1>2, Undecided DEF GetEndpoint
  <2>2. [dec[d] EXCEPT !.pc = "roles"] \in Deciding
      BY <2>1 DEF Deciding
  <2> QED BY <1>2, <2>1, <2>2, DenyType DEF GetEndpoint, DecisionTypeOK, Reasons
<1>3. ASSUME NEW d \in Decisions, RoleIDs(d)
      PROVE  dec' \in [Decisions -> Deciding \cup Denied \cup Allowed \cup {Idle}]
  <2>1. dec[d] \in Deciding
      BY <1>3, Undecided DEF RoleIDs
  <2>2. EffectiveRoles(dec[d].subject, dec[d].scope) \in SUBSET Roles
      BY <2>1 DEF EffectiveRoles, DecisionTypeOK, DirTypeOK, Deciding
  <2>3. [dec[d] EXCEPT !.pc = "policies",
                       !.roles = EffectiveRoles(dec[d].subject, dec[d].scope)] \in Deciding
      BY <2>1, <2>2 DEF Deciding
  <2> QED BY <1>3, <2>3 DEF RoleIDs, DecisionTypeOK
<1>4. ASSUME NEW d \in Decisions, Evaluate(d)
      PROVE  dec' \in [Decisions -> Deciding \cup Denied \cup Allowed \cup {Idle}]
  <2>1. dec[d] \in Deciding
      BY <1>4, Undecided DEF Evaluate
  <2> DEFINE matched == Matched(dec[d], dec[d].roles)
  <2>2. CASE Allow(d, matched)
    <3>1. [pc |-> "allowed", endpoint |-> dec[d].endpoint, grants |-> matched,
           gone |-> dec[d].gone] \in Allowed
        BY <2>1 DEF Deciding, Allowed, Matched
    <3> QED BY <2>2, <3>1 DEF Allow, DecisionTypeOK
  <2>3. CASE Deny(d, Reason(matched)) /\ Reason(matched) # "allowed_by_policy"
    <3>1. Reason(matched) \in Reasons
        BY <2>3 DEF Reason, Reasons
    <3> QED BY <2>3, <3>1, DenyType
  <2> QED BY <1>4, <2>2, <2>3 DEF Evaluate
<1>5. ASSUME NEW d \in Decisions, Return(d)
      PROVE  dec' \in [Decisions -> Deciding \cup Denied \cup Allowed \cup {Idle}]
    BY <1>5 DEF Return, DecisionTypeOK
<1> QED BY <1>1, <1>2, <1>3, <1>4, <1>5 DEF DecisionStep

LEMMA NextType == DecisionTypeOK /\ [Next]_decisionVars => DecisionTypeOK'
<1> SUFFICES ASSUME DecisionTypeOK, [Next]_decisionVars PROVE DecisionTypeOK'
    OBVIOUS
<1>1. DirTypeOK'
    BY DirectoryType DEF DecisionTypeOK, Next, decisionVars
<1>2. CatalogTypeOK'
    BY CatalogType DEF DecisionTypeOK, CatalogTypeOK, Next, decisionVars
<1>3. dec' \in [Decisions -> Deciding \cup Denied \cup Allowed \cup {Idle}]
    BY StepType DEF DecisionTypeOK, Next, decisionVars
<1>4. held' \in [Decisions -> SUBSET Policies]
  <2>1. CASE UNCHANGED held
      BY <2>1 DEF DecisionTypeOK
  <2>2. CASE Observe
    <3>1. \A d \in Decisions : Applying(d)' \subseteq Policies
        BY DEF Applying, Matched
    <3>2. \A d \in Decisions : held[d] \subseteq Policies
        BY DEF DecisionTypeOK
    <3> QED BY <2>2, <3>1, <3>2 DEF Observe
  <2> QED BY <2>1, <2>2 DEF Next, decisionVars
<1> QED BY <1>1, <1>2, <1>3, <1>4 DEF DecisionTypeOK, CatalogTypeOK

\* The directory, the catalog and the decisions keep their types.
THEOREM TypeCorrect == Spec => []DecisionTypeOK
BY InitType, NextType, PTL DEF Spec

-----------------------------------------------------------------------------
(* The catalog and the directory only ever go one way *)

\* What is served was frozen, the frozen content of a policy is one, and nothing
\* is served for a policy that is retired.
CatalogInv ==
    \A p \in Policies :
        /\ served[p] \subseteq frozen[p]
        /\ \A c, e \in frozen[p] : c = e
        /\ p \in retired => served[p] = {}

LEMMA CatalogStep == CatalogTypeOK /\ CatalogInv /\ [CatalogNext]_catalogVars => CatalogInv'
<1> SUFFICES ASSUME CatalogTypeOK, CatalogInv, [CatalogNext]_catalogVars PROVE CatalogInv'
    OBVIOUS
<1>1. ASSUME NEW p \in Policies, NEW c \in Contents, Freeze(p, c) PROVE CatalogInv'
    BY <1>1 DEF CatalogTypeOK, CatalogInv, Freeze
<1>2. ASSUME NEW p \in Policies, Serve(p) PROVE CatalogInv'
    BY <1>2 DEF CatalogTypeOK, CatalogInv, Serve
<1>3. ASSUME NEW p \in Policies, Withdraw(p) \/ Retire(p) PROVE CatalogInv'
    BY <1>3 DEF CatalogTypeOK, CatalogInv, Withdraw, Retire
<1>4. CASE UNCHANGED catalogVars
    BY <1>4 DEF CatalogInv, catalogVars
<1> QED BY <1>1, <1>2, <1>3, <1>4 DEF CatalogNext

\* Deletion is final, and so is what was frozen.
LEMMA OneWay ==
    ASSUME DecisionTypeOK, [Next]_decisionVars
    PROVE  /\ \A r \in Roles : roleState[r] = "deleted" => roleState'[r] = "deleted"
           /\ \A e \in Endpoints : endpointState[e] = "deleted" => endpointState'[e] = "deleted"
           /\ retired \subseteq retired'
           /\ \A p \in Policies : frozen[p] # {} => frozen'[p] = frozen[p]
<1>1. /\ \A r \in Roles : roleState[r] = "deleted" => roleState'[r] = "deleted"
      /\ \A e \in Endpoints : endpointState[e] = "deleted" => endpointState'[e] = "deleted"
  <2>1. CASE UNCHANGED dirVars
      BY <2>1 DEF dirVars
  <2>2. CASE DirNext
      BY <2>2 DEF DecisionTypeOK, DirTypeOK, DirNext, SetScopeActive, UpdateRole, DeleteRole,
         UpdateEndpoint, DeleteEndpoint, ReplaceUserRoles
  <2> QED BY <2>1, <2>2 DEF Next, decisionVars
<1>2. /\ retired \subseteq retired'
      /\ \A p \in Policies : frozen[p] # {} => frozen'[p] = frozen[p]
  <2>1. CASE UNCHANGED catalogVars
      BY <2>1 DEF catalogVars
  <2>2. CASE CatalogNext
      BY <2>2 DEF DecisionTypeOK, CatalogNext, Freeze, Serve, Withdraw, Retire
  <2> QED BY <2>1, <2>2 DEF Next, decisionVars
<1> QED BY <1>1, <1>2

-----------------------------------------------------------------------------
(* The inductive invariant *)

\* What was deleted when the call began still is.
GoneOK(d) ==
    dec[d].pc \in {"endpoint", "roles", "policies", "allowed"} =>
        /\ \A r \in dec[d].gone.roles : roleState[r] = "deleted"
        /\ \A e \in dec[d].gone.endpoints : endpointState[e] = "deleted"
        /\ dec[d].gone.policies \subseteq retired

\* What was read was not deleted when the call began.
ReadOK(d) ==
    /\ dec[d].pc \in {"roles", "policies"} => dec[d].endpoint \notin dec[d].gone.endpoints
    /\ dec[d].pc = "policies" => dec[d].roles \cap dec[d].gone.roles = {}

\* A policy that has applied all along matches the roles that were read, whatever
\* the roles of the subject are now.
StandOK(d) ==
    dec[d].pc = "policies" =>
        \A p \in held[d] : \E content \in served[p] : Matches(p, content, dec[d], dec[d].roles)

\* What an answer of allow rests on.
AllowedOK(d) ==
    dec[d].pc = "allowed" =>
        /\ dec[d].endpoint \notin dec[d].gone.endpoints
        /\ dec[d].grants \cap dec[d].gone.policies = {}
        /\ \A p \in dec[d].grants :
             frozen[p] # {} /\ \A content \in frozen[p] : ~ content.roles \subseteq dec[d].gone.roles
        /\ \A p \in held[d] :
             frozen[p] # {} /\ \A content \in frozen[p] : content.rule \notin DenyRules

\* What a denial for want of a policy rests on.
DefaultOK(d) == dec[d] = [pc |-> "denied", reason |-> "default_deny"] => held[d] = {}

CallOK(d) == GoneOK(d) /\ ReadOK(d) /\ StandOK(d) /\ AllowedOK(d) /\ DefaultOK(d)

IInv ==
    /\ DecisionTypeOK
    /\ CatalogInv
    /\ \A d \in Decisions : CallOK(d)

LEMMA InitInv == Init => IInv
BY InitType DEF Init, CatalogInit, IInv, CatalogInv, CallOK, GoneOK, ReadOK, StandOK,
   AllowedOK, DefaultOK, Idle

\* A policy that still applies, and has matched certain roles, matches them still:
\* its content is the same.
LEMMA StandsStill ==
    ASSUME IInv, Next, NEW d \in Decisions, dec'[d] = dec[d], dec[d].pc = "policies",
           NEW p \in held[d] \cap Applying(d)'
    PROVE  \E content \in served'[p] : Matches(p, content, dec[d], dec[d].roles)
<1>1. p \in Policies /\ CatalogInv'
  <2>1. CatalogInv'
      BY CatalogStep DEF IInv, DecisionTypeOK, CatalogTypeOK, Next
  <2> QED BY <2>1 DEF IInv, DecisionTypeOK
<1>2. PICK c \in served[p] : Matches(p, c, dec[d], dec[d].roles)
    BY DEF IInv, CallOK, StandOK
<1>3. PICK e \in served'[p] :
         \E roles : Matches(p, e, dec[d], roles)
    BY DEF Applying, Matched, Matches
<1>4. frozen'[p] = frozen[p]
    BY <1>1, <1>2, OneWay DEF IInv, CatalogInv
<1>5. c = e
    BY <1>1, <1>2, <1>3, <1>4 DEF IInv, CatalogInv
<1> QED BY <1>2, <1>5

\* A call that the step does not touch: others may change everything around it.
LEMMA OtherCall ==
    ASSUME IInv, Next, NEW d \in Decisions, dec'[d] = dec[d]
    PROVE  CallOK(d)'
<1> USE DEF IInv
<1>1. CASE dec[d] = Idle
    BY <1>1 DEF CallOK, GoneOK, ReadOK, StandOK, AllowedOK, DefaultOK, Idle
<1>2. CASE dec[d].pc = "denied"
  <2>1. held'[d] = held[d]
      BY <1>2 DEF Next, Observe, Idle
  <2> QED BY <1>2, <2>1 DEF CallOK, GoneOK, ReadOK, StandOK, AllowedOK, DefaultOK
<1>3. CASE dec[d].pc = "allowed"
  <2>1. held'[d] = held[d]
      BY <1>3 DEF Next, Observe, Idle
  <2>2. dec[d] \in Allowed /\ held[d] \subseteq Policies
      BY <1>3 DEF DecisionTypeOK, Deciding, Denied, Idle
  <2>3. dec[d].grants \subseteq Policies /\ dec[d].gone \in Deleted
      BY <2>2 DEF Allowed
  <2>4. GoneOK(d)'
      BY <1>3, <2>3, OneWay DEF CallOK, GoneOK, Deleted
  <2>5. AllowedOK(d)'
      BY <1>3, <2>1, <2>2, <2>3, OneWay DEF CallOK, AllowedOK
  <2> QED BY <1>3, <2>4, <2>5 DEF CallOK, ReadOK, StandOK, DefaultOK
<1>4. CASE dec[d].pc \in {"endpoint", "roles", "policies"}
  <2>1. dec[d] \in Deciding /\ dec[d].gone \in Deleted /\ dec[d] # Idle
      BY <1>4, Undecided DEF Deciding, Idle
  <2>2. held'[d] = held[d] \cap Applying(d)'
      BY <1>4, <2>1 DEF Next, Observe
  <2>3. GoneOK(d)' /\ ReadOK(d)'
      BY <1>4, <2>1, OneWay DEF CallOK, GoneOK, ReadOK, Deleted
  <2>4. StandOK(d)'
    <3> SUFFICES ASSUME dec[d].pc = "policies", NEW p \in held'[d]
                 PROVE  \E content \in served'[p] : Matches(p, content, dec[d], dec[d].roles)
        BY DEF StandOK, Matches
    <3> QED BY <2>2, StandsStill
  <2>5. AllowedOK(d)' /\ DefaultOK(d)'
      BY <1>4 DEF AllowedOK, DefaultOK
  <2> QED BY <2>3, <2>4, <2>5 DEF CallOK
<1>5. dec[d].pc \in {"denied", "allowed", "endpoint", "roles", "policies"} \/ dec[d] = Idle
    BY DEF DecisionTypeOK, Deciding, Denied, Allowed
<1> QED BY <1>1, <1>2, <1>3, <1>4, <1>5

\* A call begins with what is deleted then.
LEMMA DecideInv ==
    ASSUME IInv, NEW d \in Decisions, NEW u \in Subjects, NEW s \in Scopes,
           NEW e \in Endpoints, NEW m \in Attributes, Decide(d, u, s, e, m),
           UNCHANGED <<dirVars, catalogVars>>
    PROVE  CallOK(d)'
<1>1. /\ dec'[d].pc = "endpoint"
      /\ dec'[d].gone = [roles |-> {r \in Roles : roleState[r] = "deleted"},
                         endpoints |-> {x \in Endpoints : endpointState[x] = "deleted"},
                         policies |-> retired]
    BY DEF Decide, IInv, DecisionTypeOK
<1>2. GoneOK(d)'
    BY <1>1 DEF GoneOK, dirVars, catalogVars
<1> QED BY <1>1, <1>2 DEF CallOK, ReadOK, StandOK, AllowedOK, DefaultOK

\* An endpoint that was deleted when the call began is an error.
LEMMA GetEndpointInv ==
    ASSUME IInv, NEW d \in Decisions, GetEndpoint(d), UNCHANGED <<dirVars, catalogVars>>
    PROVE  CallOK(d)'
<1>1. dec[d] \in Deciding /\ dec[d].pc = "endpoint"
    BY Undecided DEF GetEndpoint, IInv
<1>2. CASE dec'[d] = Idle
    BY <1>2 DEF CallOK, GoneOK, ReadOK, StandOK, AllowedOK, DefaultOK, Idle
<1>3. ASSUME NEW reason \in {"scope_mismatch", "endpoint_disabled"},
             dec'[d] = [pc |-> "denied", reason |-> reason]
      PROVE  CallOK(d)'
    BY <1>3 DEF CallOK, GoneOK, ReadOK, StandOK, AllowedOK, DefaultOK
<1>4. CASE endpointState[dec[d].endpoint] # "deleted" /\ dec'[d] = [dec[d] EXCEPT !.pc = "roles"]
  <2>1. /\ dec'[d].pc = "roles" /\ dec'[d].gone = dec[d].gone
        /\ dec'[d].endpoint = dec[d].endpoint
      BY <1>1, <1>4 DEF Deciding
  <2>2. GoneOK(d)' /\ ReadOK(d)'
      BY <1>1, <1>4, <2>1 DEF IInv, CallOK, GoneOK, ReadOK, dirVars, catalogVars
  <2> QED BY <2>1, <2>2 DEF CallOK, StandOK, AllowedOK, DefaultOK
<1> QED BY <1>2, <1>3, <1>4 DEF GetEndpoint, Deny, IInv, DecisionTypeOK

\* The roles that are read are not deleted, and those that the policies which apply
\* by now, and all along, match.
LEMMA RoleIDsInv ==
    ASSUME IInv, NEW d \in Decisions, RoleIDs(d), Observe, UNCHANGED <<dirVars, catalogVars>>
    PROVE  CallOK(d)'
<1> DEFINE c == dec[d]
           roles == EffectiveRoles(c.subject, c.scope)
<1>1. c \in Deciding /\ c.pc = "roles"
    BY Undecided DEF RoleIDs, IInv
<1>2. dec'[d] = [c EXCEPT !.pc = "policies", !.roles = roles]
    BY DEF RoleIDs, IInv, DecisionTypeOK
<1>3. /\ dec'[d].pc = "policies" /\ dec'[d].roles = roles /\ dec'[d].gone = c.gone
      /\ dec'[d].endpoint = c.endpoint /\ dec'[d].scope = c.scope
      /\ dec'[d].subject = c.subject /\ dec'[d].matching = c.matching
    BY <1>1, <1>2 DEF Deciding
<1>4. GoneOK(d)' /\ ReadOK(d)'
  <2>1. \A r \in roles : roleState[r] # "deleted"
      BY DEF EffectiveRoles
  <2> QED BY <1>1, <1>3, <2>1 DEF IInv, CallOK, GoneOK, ReadOK, dirVars, catalogVars
<1>5. StandOK(d)'
  <2>1. held'[d] \subseteq Applying(d)'
      BY <1>1, <1>3 DEF Observe, Idle
  <2>2. EffectiveRoles(dec[d].subject, dec[d].scope)' = dec'[d].roles
      BY <1>3 DEF EffectiveRoles, dirVars
  <2> QED BY <2>1, <2>2 DEF StandOK, Applying, Matched
<1> QED BY <1>3, <1>4, <1>5 DEF CallOK, AllowedOK, DefaultOK

\* The answer follows from what was read.
LEMMA EvaluateInv ==
    ASSUME IInv, NEW d \in Decisions, Evaluate(d), Observe, UNCHANGED <<dirVars, catalogVars>>
    PROVE  CallOK(d)'
<1> DEFINE c == dec[d]
           matched == Matched(c, c.roles)
<1> USE DEF IInv
<1>1. c \in Deciding /\ c.pc = "policies" /\ c.gone \in Deleted /\ CallOK(d)
    BY Undecided DEF Evaluate, Deciding
<1>2. held[d] \subseteq matched /\ matched \subseteq Policies
    BY <1>1 DEF CallOK, StandOK, Matched, DecisionTypeOK
<1>3. CASE dec'[d] = [pc |-> "denied", reason |-> Reason(matched)]
                /\ Reason(matched) # "allowed_by_policy"
  <2>1. held'[d] = held[d]
      BY <1>3 DEF Observe, Idle
  <2>2. Reason(matched) = "default_deny" => matched = {}
      BY DEF Reason
  <2> QED BY <1>2, <1>3, <2>1, <2>2 DEF CallOK, GoneOK, ReadOK, StandOK, AllowedOK, DefaultOK
<1>4. CASE /\ dec'[d] = [pc |-> "allowed", endpoint |-> c.endpoint, grants |-> matched, gone |-> c.gone]
           /\ Reason(matched) = "allowed_by_policy"
  <2>1. /\ dec'[d].pc = "allowed" /\ dec'[d].endpoint = c.endpoint
        /\ dec'[d].grants = matched /\ dec'[d].gone = c.gone
      BY <1>4
  <2>2. held'[d] = held[d]
      BY <2>1 DEF Observe, Idle
  <2>3. \A p \in matched : ~Denies(p)
      BY <1>4 DEF Reason
  <2>4. ASSUME NEW p \in matched
        PROVE  /\ p \notin c.gone.policies
               /\ frozen[p] # {}
               /\ \A content \in frozen[p] :
                    content.rule \notin DenyRules /\ ~ content.roles \subseteq c.gone.roles
    <3>1. PICK content \in served[p] : Matches(p, content, c, c.roles)
        BY DEF Matched
    <3>2. content \in frozen[p] /\ \A other \in frozen[p] : other = content
        BY <1>2, <3>1 DEF CatalogInv
    <3>3. content.rule \notin DenyRules
        BY <2>3, <3>1 DEF Denies
    <3>4. ~ content.roles \subseteq c.gone.roles
        BY <1>1, <3>1 DEF Matches, CallOK, ReadOK
    <3>5. p \notin c.gone.policies
        BY <1>1, <1>2, <3>1 DEF CallOK, GoneOK, CatalogInv
    <3> QED BY <3>2, <3>3, <3>4, <3>5
  <2>5. GoneOK(d)'
      BY <1>1, <2>1 DEF CallOK, GoneOK, dirVars, catalogVars
  <2>6. AllowedOK(d)'
    <3>1. frozen' = frozen
        BY DEF catalogVars
    <3>2. c.endpoint \notin c.gone.endpoints
        BY <1>1 DEF CallOK, ReadOK
    <3> HIDE DEF c, matched
    <3> QED BY <1>2, <2>1, <2>2, <2>4, <3>1, <3>2 DEF AllowedOK
  <2> QED BY <2>1, <2>5, <2>6 DEF CallOK, ReadOK, StandOK, DefaultOK
<1> QED BY <1>3, <1>4 DEF Evaluate, Allow, Deny, DecisionTypeOK

LEMMA NextInv == IInv /\ [Next]_decisionVars => IInv'
<1> SUFFICES ASSUME IInv, [Next]_decisionVars PROVE IInv'
    OBVIOUS
<1>1. DecisionTypeOK' /\ CatalogInv'
    BY NextType, CatalogStep DEF IInv, DecisionTypeOK, CatalogTypeOK, Next, decisionVars
<1>2. CASE UNCHANGED decisionVars
    BY <1>1, <1>2 DEF IInv, decisionVars, dirVars, catalogVars, CallOK, GoneOK, ReadOK, StandOK,
       AllowedOK, DefaultOK, Matches
<1>3. CASE Next
  <2> SUFFICES ASSUME NEW d \in Decisions PROVE CallOK(d)'
      BY <1>1 DEF IInv
  <2>1. CASE dec'[d] = dec[d]
      BY <1>3, <2>1, OtherCall
  <2>2. CASE Return(d)
      BY <2>2 DEF Return, IInv, DecisionTypeOK, CallOK, GoneOK, ReadOK, StandOK, AllowedOK,
         DefaultOK, Idle
  <2>3. ASSUME NEW o \in Decisions \ {d},
               \/ \E u \in Subjects, s \in Scopes, e \in Endpoints, m \in Attributes :
                    Decide(o, u, s, e, m)
               \/ GetEndpoint(o) \/ RoleIDs(o) \/ Evaluate(o) \/ Return(o)
        PROVE  dec'[d] = dec[d]
      BY <2>3 DEF IInv, DecisionTypeOK, Decide, GetEndpoint, RoleIDs, Evaluate, Return, Deny, Allow
  <2>4. CASE DecisionStep /\ UNCHANGED <<dirVars, catalogVars>>
      BY <1>3, <2>1, <2>2, <2>3, <2>4, DecideInv, GetEndpointInv, RoleIDsInv, EvaluateInv
      DEF DecisionStep, Next
  <2>5. CASE UNCHANGED dec
      BY <2>1, <2>5
  <2> QED BY <1>3, <2>4, <2>5 DEF Next
<1> QED BY <1>2, <1>3

LEMMA InvAlways == Spec => []IInv
BY InitInv, NextInv, PTL DEF Spec

\* Nothing that was deleted before a decision began contributes to an answer of
\* allow, whatever is changed while the four reads are made.
THEOREM NothingDeletedGrants == Spec => []DeletedNeverGrants
<1>1. IInv => DeletedNeverGrants
    BY DEF IInv, DeletedNeverGrants, CallOK, AllowedOK
<1> QED BY <1>1, InvAlways, PTL

\* A deny policy that applies from the beginning of a decision to its end is never
\* overruled.
THEOREM DenyWins == Spec => []StandingDenyWins
<1>1. IInv => StandingDenyWins
    BY DEF IInv, StandingDenyWins, CallOK, AllowedOK
<1> QED BY <1>1, InvAlways, PTL

\* Nor is a policy that applies all along ever missed.
THEOREM AllowCounts == Spec => []StandingAllowCounts
<1>1. IInv => StandingAllowCounts
    BY DEF IInv, StandingAllowCounts, CallOK, DefaultOK
<1> QED BY <1>1, InvAlways, PTL
=============================================================================
