---------------------------- MODULE RuntimeProofs ----------------------------
(***************************************************************************)
(* Proofs about RuntimeOperations for every plan and policy: the caches    *)
(* and tables are in shape, the audit tells the mode, a halt takes effect, *)
(* an accepted order is harmless, telemetry shows what the journal has and *)
(* a supervisor cycle reaches the halt.                                    *)
(***************************************************************************)
EXTENDS RuntimeOperations, FiniteSetTheorems, WellFoundedInduction, TLAPS

-----------------------------------------------------------------------------
(* Sums over finite sets.                                                  *)

\* Induction over the numbers, for a set instead of a predicate.
LEMMA Counting ==
  ASSUME NEW P, 0 \in P, \A n \in Nat : n \in P => n + 1 \in P
  PROVE  Nat \subseteq P
<1> DEFINE R == OpToRel(<, Nat)
           Q == {n \in Nat : n \notin P}
<1>1. \A n, m \in Nat : n < m => <<n, m>> \in R
  BY DEF OpToRel
<1> SUFFICES ASSUME Q # {} PROVE FALSE
  OBVIOUS
<1>2. IsWellFoundedOn(R, Nat) /\ Q \subseteq Nat
  BY NatLessThanWellFounded
<1> HIDE DEF R
<1>3. PICK m \in Q : \A y \in Q : ~(<<y, m>> \in R)
  BY <1>2, WFMin
<1>4. m # 0 /\ m \in Nat
  OBVIOUS
<1>5. m - 1 \in Nat /\ m - 1 < m /\ (m - 1) + 1 = m
  BY <1>4
<1>6. m - 1 \in Q
  BY <1>3, <1>4, <1>5
<1> QED
  BY <1>1, <1>3, <1>4, <1>5, <1>6

\* Induction over the subsets of a finite set: a set is in P if it is there without any one
\* of its elements.
LEMMA Subsets ==
  ASSUME NEW S, IsFiniteSet(S), NEW P,
         \A T \in SUBSET S : (\A x \in T : T \ {x} \in P) => T \in P
  PROVE  SUBSET S \subseteq P
<1> DEFINE Q == {n \in Nat : \A T \in SUBSET S : Cardinality(T) = n => T \in P}
<1>1. \A T \in SUBSET S : IsFiniteSet(T) /\ Cardinality(T) \in Nat
  BY FS_Subset, FS_CardinalityType
<1>2. 0 \in Q
  <2> SUFFICES ASSUME NEW T \in SUBSET S, Cardinality(T) = 0 PROVE T \in P
    OBVIOUS
  <2>1. T = {}
    BY <1>1, FS_EmptySet
  <2> QED
    BY <2>1
<1>3. ASSUME NEW n \in Nat, n \in Q PROVE n + 1 \in Q
  <2> SUFFICES ASSUME NEW T \in SUBSET S, Cardinality(T) = n + 1, NEW x \in T PROVE T \ {x} \in P
    OBVIOUS
  <2>1. Cardinality(T \ {x}) = Cardinality(T) - 1
    BY <1>1, FS_RemoveElement
  <2>2. Cardinality(T \ {x}) = n
    BY <2>1
  <2> QED
    BY <1>3, <2>2
<1> HIDE DEF Q
<1>4. Nat \subseteq Q
  BY <1>2, <1>3, Counting
<1> QED
  BY <1>1, <1>4 DEF Q

\* The function by which MapThenSumSet adds up the values of w.
Adds(g, w, S) ==
  g = [s \in SUBSET S |-> IF s = {} THEN 0
                          ELSE w[CHOOSE x \in s : TRUE] + g[s \ {CHOOSE x \in s : TRUE}]]

Pick(s) == CHOOSE x \in s : TRUE

\* The element chosen is one of the set's.
LEMMA PickFacts == \A s : s # {} => Pick(s) \in s
  BY DEF Pick

\* There is such a function ...
LEMMA AddsExists ==
  ASSUME NEW S, IsFiniteSet(S), NEW w
  PROVE  \E g : Adds(g, w, S)
<1> DEFINE Small(n) == {s \in SUBSET S : Cardinality(s) <= n}
           Part(g, n) == /\ g = [s \in Small(n) |-> g[s]]
                         /\ \A s \in Small(n) : g[s] = IF s = {} THEN 0 ELSE w[Pick(s)] + g[s \ {Pick(s)}]
           Q == {n \in Nat : \E g : Part(g, n)}
<1>1. \A T \in SUBSET S : IsFiniteSet(T) /\ Cardinality(T) \in Nat
  BY FS_Subset, FS_CardinalityType
<1>2. \A s \in SUBSET S : s # {} => Cardinality(s \ {Pick(s)}) = Cardinality(s) - 1
  BY <1>1, FS_RemoveElement, PickFacts
<1>3. 0 \in Q
  <2> DEFINE g == [s \in Small(0) |-> 0]
  <2>1. \A s \in Small(0) : s = {}
    BY <1>1, FS_EmptySet
  <2>2. Part(g, 0)
    BY <2>1
  <2> HIDE DEF g, Part
  <2> QED
    BY <2>2
<1>4. ASSUME NEW n \in Nat, n \in Q PROVE n + 1 \in Q
  <2>1. PICK g : Part(g, n)
    BY <1>4
  <2> DEFINE k == [s \in Small(n + 1) |->
                     IF s = {} THEN 0 ELSE w[Pick(s)] + g[s \ {Pick(s)}]]
  <2>2. ASSUME NEW s \in Small(n + 1), s # {} PROVE s \ {Pick(s)} \in Small(n)
    <3>1. s \in SUBSET S /\ Cardinality(s) <= n + 1
      OBVIOUS
    <3>2. Cardinality(s \ {Pick(s)}) <= n
      BY <1>1, <1>2, <2>2, <3>1
    <3> QED
      BY <3>1, <3>2
  <2>3. ASSUME NEW s \in Small(n) PROVE s \in Small(n + 1) /\ g[s] = k[s]
    <3>1. s \in Small(n + 1)
      BY <1>1
    <3> QED
      BY <2>1, <3>1
  <2>4. Part(k, n + 1)
    <3>1. ASSUME NEW s \in Small(n + 1)
          PROVE  k[s] = IF s = {} THEN 0 ELSE w[Pick(s)] + k[s \ {Pick(s)}]
      <4> HIDE DEF Small, Part
      <4>1. CASE s = {}
        BY <4>1
      <4>2. CASE s # {}
        <5>1. k[s] = w[Pick(s)] + g[s \ {Pick(s)}]
          BY <4>2
        <5> HIDE DEF k
        <5> QED
          BY <2>2, <2>3, <4>2, <5>1
      <4> QED
        BY <4>1, <4>2
    <3> QED
      BY <3>1
  <2> HIDE DEF k, Part
  <2> QED
    BY <2>4
<1> HIDE DEF Q
<1>5. Cardinality(S) \in Q
  <2>1. Nat \subseteq Q
    BY <1>3, <1>4, Counting
  <2> QED
    BY <1>1, <2>1
<1>6. PICK g : Part(g, Cardinality(S))
  BY <1>5 DEF Q
<1>7. Small(Cardinality(S)) = SUBSET S
  BY FS_Subset
<1>8. g = [s \in SUBSET S |-> IF s = {} THEN 0 ELSE w[Pick(s)] + g[s \ {Pick(s)}]]
  BY <1>6, <1>7
<1> QED
  BY <1>8 DEF Adds, Pick

\* ... and it does not depend on what else there is to add.
LEMMA AddsUnique ==
  ASSUME NEW S, IsFiniteSet(S), NEW w, NEW g, NEW T \in SUBSET S, NEW k, NEW v,
         Adds(g, w, S), Adds(k, v, T), \A x \in T : w[x] = v[x]
  PROVE  \A s \in SUBSET T : g[s] = k[s]
<1> DEFINE P == {s \in SUBSET T : g[s] = k[s]}
<1>1. IsFiniteSet(T)
  BY FS_Subset
<1>2. ASSUME NEW s \in SUBSET T, \A x \in s : s \ {x} \in P PROVE s \in P
  <2>1. s \in SUBSET S
    OBVIOUS
  <2>2. g[s] = IF s = {} THEN 0 ELSE w[Pick(s)] + g[s \ {Pick(s)}]
    BY <2>1 DEF Adds, Pick
  <2>3. k[s] = IF s = {} THEN 0 ELSE v[Pick(s)] + k[s \ {Pick(s)}]
    BY DEF Adds, Pick
  <2>4. s # {} => Pick(s) \in s
    BY PickFacts
  <2> QED
    BY <1>2, <2>2, <2>3, <2>4
<1> HIDE DEF P
<1>3. SUBSET T \subseteq P
  BY <1>1, <1>2, Subsets
<1> QED
  BY <1>3 DEF P

\* The sum of w over S; Sum is what it is for each part of S.
Total(w, S) == MapThenSumSet(LAMBDA x : w[x], S)

\* MapThenSumSet is the value of such a function.
LEMMA TotalAdds ==
  ASSUME NEW S, IsFiniteSet(S), NEW w
  PROVE  \E g : Adds(g, w, S) /\ Total(w, S) = g[S]
<1>1. \E g : Adds(g, w, S)
  BY AddsExists
<1>2. Adds(CHOOSE g : Adds(g, w, S), w, S)
  BY <1>1, Zenon
<1>3. Total(w, S) = (CHOOSE g : Adds(g, w, S))[S]
  BY DEF Total, MapThenSumSet, MapThenFoldSet, Adds
<1> QED
  BY <1>2, <1>3

\* The sum over a set is any of its values and the sum over the rest.
LEMMA TotalFacts ==
  ASSUME NEW S, IsFiniteSet(S), NEW w, \A x \in S : w[x] \in Nat
  PROVE  /\ Total(w, {}) = 0
         /\ \A T \in SUBSET S : /\ Total(w, T) \in Nat
                                /\ \A x \in T : Total(w, T) = w[x] + Total(w, T \ {x})
<1>1. PICK g : Adds(g, w, S)
  BY AddsExists
<1>2. ASSUME NEW T \in SUBSET S PROVE Total(w, T) = g[T]
  <2>1. IsFiniteSet(T)
    BY FS_Subset
  <2>2. PICK k : Adds(k, w, T) /\ Total(w, T) = k[T]
    BY <2>1, TotalAdds
  <2>3. \A s \in SUBSET T : g[s] = k[s]
    BY <1>1, <2>2, AddsUnique
  <2> QED
    BY <2>2, <2>3
<1>3. \A s \in SUBSET S : g[s] = IF s = {} THEN 0 ELSE w[Pick(s)] + g[s \ {Pick(s)}]
  BY <1>1 DEF Adds, Pick
<1>4. \A T \in SUBSET S : g[T] \in Nat
  <2> DEFINE N == {T \in SUBSET S : g[T] \in Nat}
  <2>1. ASSUME NEW T \in SUBSET S, \A x \in T : T \ {x} \in N PROVE T \in N
    <3>1. CASE T = {}
      BY <1>3, <3>1
    <3>2. CASE T # {}
      <4>1. Pick(T) \in T /\ g[T] = w[Pick(T)] + g[T \ {Pick(T)}]
        BY <1>3, <3>2, PickFacts
      <4>2. w[Pick(T)] \in Nat /\ g[T \ {Pick(T)}] \in Nat
        BY <2>1, <4>1
      <4> QED
        BY <4>1, <4>2
    <3> QED
      BY <3>1, <3>2
  <2> HIDE DEF N
  <2>2. SUBSET S \subseteq N
    BY <2>1, Subsets
  <2> QED
    BY <2>2 DEF N
<1> DEFINE P == {T \in SUBSET S : \A x \in T : g[T] = w[x] + g[T \ {x}]}
<1>5. ASSUME NEW T \in SUBSET S, \A x \in T : T \ {x} \in P PROVE T \in P
  <2> SUFFICES ASSUME NEW x \in T PROVE g[T] = w[x] + g[T \ {x}]
    OBVIOUS
  <2> DEFINE c == Pick(T)
             a == g[T \ {c}]
             b == g[T \ {x}]
             d == g[(T \ {c}) \ {x}]
  <2>1. c \in T /\ g[T] = w[c] + a
    BY <1>3, PickFacts
  <2>2. a \in Nat /\ b \in Nat /\ d \in Nat /\ w[c] \in Nat /\ w[x] \in Nat
    BY <1>4, <2>1
  <2> HIDE DEF c
  <2>3. CASE x # c
    <3>1. x \in T \ {c} /\ c \in T \ {x} /\ (T \ {c}) \ {x} = (T \ {x}) \ {c}
      BY <2>1, <2>3
    <3>2. a = w[x] + d
      BY <1>5, <2>1, <3>1
    <3>3. b = w[c] + d
      BY <1>5, <3>1
    <3> HIDE DEF a, b, d
    <3>4. g[T] = w[x] + b
      BY <2>1, <2>2, <3>2, <3>3
    <3> QED
      BY <3>4 DEF b
  <2> QED
    BY <2>1, <2>3
<1> HIDE DEF P
<1>6. SUBSET S \subseteq P
  BY <1>5, Subsets
<1>7. \A T \in SUBSET S : \A x \in T : g[T] = w[x] + g[T \ {x}]
  BY <1>6 DEF P
<1> QED
  BY <1>2, <1>3, <1>4, <1>7

\* The sum over two sets without a common element.
LEMMA TotalSplit ==
  ASSUME NEW S, IsFiniteSet(S), NEW w, \A x \in S : w[x] \in Nat,
         NEW A \in SUBSET S, NEW B \in SUBSET S, A \cap B = {}
  PROVE  Total(w, A \cup B) = Total(w, A) + Total(w, B)
<1> DEFINE P == {T \in SUBSET B : Total(w, A \cup T) = Total(w, A) + Total(w, T)}
<1>1. /\ Total(w, {}) = 0
      /\ \A T \in SUBSET S : /\ Total(w, T) \in Nat
                             /\ \A x \in T : Total(w, T) = w[x] + Total(w, T \ {x})
  BY TotalFacts
<1>2. ASSUME NEW T \in SUBSET B, \A x \in T : T \ {x} \in P PROVE T \in P
  <2>1. CASE T = {}
    BY <1>1, <2>1
  <2>2. CASE T # {}
    <3>1. PICK x \in T : TRUE
      BY <2>2
    <3>2. A \cup T \in SUBSET S /\ T \in SUBSET S /\ x \in A \cup T /\ (A \cup T) \ {x} = A \cup (T \ {x})
      OBVIOUS
    <3>3. Total(w, A \cup T) = w[x] + Total(w, A \cup (T \ {x}))
      BY <1>1, <3>2
    <3>4. Total(w, T) = w[x] + Total(w, T \ {x})
      BY <1>1, <3>2
    <3>5. Total(w, A \cup (T \ {x})) = Total(w, A) + Total(w, T \ {x})
      BY <1>2
    <3>6. Total(w, A) \in Nat /\ Total(w, T \ {x}) \in Nat /\ w[x] \in Nat
      BY <1>1, <3>2
    <3> QED
      BY <3>3, <3>4, <3>5, <3>6
  <2> QED
    BY <2>1, <2>2
<1> HIDE DEF P
<1>3. IsFiniteSet(B)
  BY FS_Subset
<1>4. SUBSET B \subseteq P
  BY <1>2, <1>3, Subsets
<1> QED
  BY <1>4 DEF P

\* Larger values have a larger sum.
LEMMA TotalMonotone ==
  ASSUME NEW S, IsFiniteSet(S), NEW v, NEW w,
         \A x \in S : v[x] \in Nat /\ w[x] \in Nat /\ v[x] <= w[x]
  PROVE  Total(v, S) <= Total(w, S)
<1> DEFINE P == {T \in SUBSET S : Total(v, T) <= Total(w, T)}
<1>1. /\ Total(w, {}) = 0
      /\ \A T \in SUBSET S : /\ Total(w, T) \in Nat
                             /\ \A x \in T : Total(w, T) = w[x] + Total(w, T \ {x})
  BY TotalFacts
<1>2. /\ Total(v, {}) = 0
      /\ \A T \in SUBSET S : /\ Total(v, T) \in Nat
                             /\ \A x \in T : Total(v, T) = v[x] + Total(v, T \ {x})
  BY TotalFacts
<1>3. ASSUME NEW T \in SUBSET S, \A x \in T : T \ {x} \in P PROVE T \in P
  <2>1. CASE T = {}
    BY <1>1, <1>2, <2>1
  <2>2. CASE T # {}
    <3>1. PICK x \in T : TRUE
      BY <2>2
    <3>2. Total(w, T) = w[x] + Total(w, T \ {x}) /\ Total(v, T) = v[x] + Total(v, T \ {x})
      BY <1>1, <1>2
    <3>3. Total(v, T \ {x}) <= Total(w, T \ {x})
      BY <1>3
    <3>4. /\ Total(w, T \ {x}) \in Nat /\ Total(v, T \ {x}) \in Nat
          /\ v[x] \in Nat /\ w[x] \in Nat /\ v[x] <= w[x]
      BY <1>1, <1>2
    <3> QED
      BY <3>2, <3>3, <3>4
  <2> QED
    BY <2>1, <2>2
<1> HIDE DEF P
<1>4. SUBSET S \subseteq P
  BY <1>3, Subsets
<1> QED
  BY <1>4 DEF P

\* The notional that is left of a set of orders.
LEMMA RemainingTotal ==
  ASSUME NEW S, IsFiniteSet(S), NEW F \in SUBSET S
  PROVE  Remaining(F) = Total([f \in S |-> f.remaining], F)
<1> DEFINE w == [f \in S |-> f.remaining]
           Sums(g) == g = [s \in SUBSET F |-> IF s = {} THEN 0
                            ELSE Pick(s).remaining + g[s \ {Pick(s)}]]
<1>1. IsFiniteSet(F)
  BY FS_Subset
<1>2. \A x \in F : w[x] = x.remaining
  OBVIOUS
<1>3. PICK k : Adds(k, w, F) /\ Total(w, F) = k[F]
  BY <1>1, TotalAdds
<1> HIDE DEF w
<1>4. \A s \in SUBSET F : s # {} => w[Pick(s)] = Pick(s).remaining
  BY <1>2, PickFacts
<1>5. \A g : [s \in SUBSET F |-> IF s = {} THEN 0 ELSE Pick(s).remaining + g[s \ {Pick(s)}]]
          = [s \in SUBSET F |-> IF s = {} THEN 0 ELSE w[Pick(s)] + g[s \ {Pick(s)}]]
  BY <1>4
<1>6. Sums(k)
  BY <1>3, <1>5 DEF Adds, Pick
<1>7. Sums(CHOOSE g : Sums(g))
  BY <1>6, Zenon
<1>8. Remaining(F) = (CHOOSE g : Sums(g))[F]
  BY DEF Remaining, MapThenSumSet, MapThenFoldSet, Pick
<1> DEFINE h == CHOOSE g : Sums(g)
<1>9. Adds(h, w, F)
  <2>1. Sums(h)
    BY <1>7
  <2> HIDE DEF h
  <2> QED
    BY <1>5, <2>1 DEF Adds, Pick
<1> HIDE DEF h, Sums
<1>10. \A s \in SUBSET F : h[s] = k[s]
  BY <1>1, <1>3, <1>9, AddsUnique
<1> QED
  BY <1>3, <1>8, <1>10 DEF h, w

-----------------------------------------------------------------------------
(* What an accepted decision says.                                         *)

\* Positions in a concatenation.
LEMMA Positions ==
  ASSUME NEW S, NEW s \in Seq(S), NEW t \in Seq(S)
  PROVE  /\ s \o t \in Seq(S) /\ Len(s \o t) = Len(s) + Len(t)
         /\ \A k \in 1..Len(s) : (s \o t)[k] = s[k]
         /\ \A k \in 1..Len(t) : (s \o t)[Len(s) + k] = t[k]
  OBVIOUS

\* A sequence over some set is one over every larger set.
LEMMA Wider ==
  ASSUME NEW S, NEW T, S \subseteq T, NEW s \in Seq(S)
  PROVE  s \in Seq(T)
  OBVIOUS

\* Every function on 1..m is a sequence.
LEMMA Tuple ==
  ASSUME NEW g, NEW m \in Nat, g = [k \in 1..m |-> g[k]]
  PROVE  \E S : g \in Seq(S)
<1> DEFINE T == {g[k] : k \in 1..m}
<1>1. g \in [1..m -> T]
  OBVIOUS
<1> HIDE DEF T
<1>2. g \in Seq(T)
  BY <1>1
<1> QED
  BY <1>2

\* The four groups of rules are lists of 12, 6, 6 and 11.
LEMMA Groups ==
  ASSUME NEW i, NEW s, NEW p, NEW n
  PROVE  /\ (\E S : GlobalRules(i, s, p, n) \in Seq(S)) /\ Len(GlobalRules(i, s, p, n)) = 12
         /\ (\E S : AccountRules(i, s, p, n) \in Seq(S)) /\ Len(AccountRules(i, s, p, n)) = 6
         /\ (\E S : StrategyRules(i, s, p, n) \in Seq(S)) /\ Len(StrategyRules(i, s, p, n)) = 6
         /\ (\E S : OrderRules(i, s, p, n) \in Seq(S)) /\ Len(OrderRules(i, s, p, n)) = 11
<1>1. \E S : GlobalRules(i, s, p, n) \in Seq(S)
  <2>1. GlobalRules(i, s, p, n) = [k \in 1..12 |-> GlobalRules(i, s, p, n)[k]]
    BY DEF GlobalRules
  <2> QED
    BY <2>1, Tuple
<1>2. Len(GlobalRules(i, s, p, n)) = 12
  BY DEF GlobalRules
<1>3. \E S : AccountRules(i, s, p, n) \in Seq(S)
  <2>1. AccountRules(i, s, p, n) = [k \in 1..6 |-> AccountRules(i, s, p, n)[k]]
    BY DEF AccountRules
  <2> QED
    BY <2>1, Tuple
<1>4. Len(AccountRules(i, s, p, n)) = 6
  BY DEF AccountRules
<1>5. \E S : StrategyRules(i, s, p, n) \in Seq(S)
  <2>1. StrategyRules(i, s, p, n) = [k \in 1..6 |-> StrategyRules(i, s, p, n)[k]]
    BY DEF StrategyRules
  <2> QED
    BY <2>1, Tuple
<1>6. Len(StrategyRules(i, s, p, n)) = 6
  BY DEF StrategyRules
<1>7. \E S : OrderRules(i, s, p, n) \in Seq(S)
  <2>1. OrderRules(i, s, p, n) = [k \in 1..11 |-> OrderRules(i, s, p, n)[k]]
    BY DEF OrderRules
  <2> QED
    BY <2>1, Tuple
<1>8. Len(OrderRules(i, s, p, n)) = 11
  BY DEF OrderRules
<1> QED
  BY <1>1, <1>2, <1>3, <1>4, <1>5, <1>6, <1>7, <1>8

\* An accepted decision breaks no rule (engine.py:49-414).
LEMMA NoRuleBroken ==
  ASSUME NEW i, NEW s, NEW p, NEW n, EvaluateRisk(i, s, p, n).accepted
  PROVE  /\ \A k \in 1..12 : ~GlobalRules(i, s, p, n)[k].broken
         /\ \A k \in 1..6 : ~AccountRules(i, s, p, n)[k].broken
         /\ \A k \in 1..6 : ~StrategyRules(i, s, p, n)[k].broken
         /\ \A k \in 1..11 : ~OrderRules(i, s, p, n)[k].broken
<1> DEFINE g == GlobalRules(i, s, p, n)
           a == AccountRules(i, s, p, n)
           t == StrategyRules(i, s, p, n)
           o == OrderRules(i, s, p, n)
<1>1. /\ (\E S : g \in Seq(S)) /\ (\E S : a \in Seq(S)) /\ (\E S : t \in Seq(S)) /\ (\E S : o \in Seq(S))
      /\ Len(g) = 12 /\ Len(a) = 6 /\ Len(t) = 6 /\ Len(o) = 11
  BY Groups
<1>2. \A k \in DOMAIN (g \o a \o t \o o) : ~(g \o a \o t \o o)[k].broken
  <2> DEFINE rules == g \o a \o t \o o
             broken == {k \in DOMAIN rules : rules[k].broken}
  <2>1. EvaluateRisk(i, s, p, n).accepted = (broken = {})
    BY DEF EvaluateRisk
  <2> HIDE DEF rules
  <2>2. broken = {}
    BY <2>1, Zenon
  <2>3. \A k \in DOMAIN rules : ~rules[k].broken
    BY <2>2
  <2> QED
    BY <2>3 DEF rules
<1> HIDE DEF g, a, t, o
<1>3. PICK S1 : g \in Seq(S1)
  BY <1>1
<1>4. PICK S2 : a \in Seq(S2)
  BY <1>1
<1>5. PICK S3 : t \in Seq(S3)
  BY <1>1
<1>6. PICK S4 : o \in Seq(S4)
  BY <1>1
<1> DEFINE S == (S1 \cup S2) \cup (S3 \cup S4)
<1>7. S1 \subseteq S /\ S2 \subseteq S /\ S3 \subseteq S /\ S4 \subseteq S
  OBVIOUS
<1> HIDE DEF S
<1>8. g \in Seq(S) /\ a \in Seq(S) /\ t \in Seq(S) /\ o \in Seq(S)
  BY <1>3, <1>4, <1>5, <1>6, <1>7, Wider
<1> DEFINE ga == g \o a
<1>9. /\ ga \in Seq(S) /\ Len(ga) = 18
      /\ \A k \in 1..12 : ga[k] = g[k]
      /\ \A k \in 1..6 : ga[12 + k] = a[k]
  <2>1. /\ ga \in Seq(S) /\ Len(ga) = Len(g) + Len(a)
        /\ \A k \in 1..Len(g) : ga[k] = g[k]
        /\ \A k \in 1..Len(a) : ga[Len(g) + k] = a[k]
    BY <1>8, Positions
  <2> HIDE DEF ga
  <2> QED
    BY <1>1, <2>1
<1> HIDE DEF ga
<1> DEFINE gat == ga \o t
<1>10. /\ gat \in Seq(S) /\ Len(gat) = 24
       /\ \A k \in 1..18 : gat[k] = ga[k]
       /\ \A k \in 1..6 : gat[18 + k] = t[k]
  <2>0. ga \in Seq(S) /\ t \in Seq(S)
    BY <1>8, <1>9
  <2>1. /\ gat \in Seq(S) /\ Len(gat) = Len(ga) + Len(t)
        /\ \A k \in 1..Len(ga) : gat[k] = ga[k]
        /\ \A k \in 1..Len(t) : gat[Len(ga) + k] = t[k]
    BY <2>0, Positions
  <2> HIDE DEF gat
  <2> QED
    BY <1>1, <1>9, <2>1
<1> HIDE DEF gat
<1> DEFINE all == gat \o o
<1>11. /\ all \in Seq(S) /\ Len(all) = 35
       /\ \A k \in 1..24 : all[k] = gat[k]
       /\ \A k \in 1..11 : all[24 + k] = o[k]
  <2>0. gat \in Seq(S) /\ o \in Seq(S)
    BY <1>8, <1>10
  <2>1. /\ all \in Seq(S) /\ Len(all) = Len(gat) + Len(o)
        /\ \A k \in 1..Len(gat) : all[k] = gat[k]
        /\ \A k \in 1..Len(o) : all[Len(gat) + k] = o[k]
    BY <2>0, Positions
  <2> HIDE DEF all
  <2> QED
    BY <1>1, <1>10, <2>1
<1> HIDE DEF all
<1>12. \A k \in 1..35 : ~all[k].broken
  <2>1. \A k \in DOMAIN all : ~all[k].broken
    BY <1>2 DEF all, gat, ga
  <2>2. DOMAIN all = 1..35
    BY <1>11
  <2> QED
    BY <2>1, <2>2
<1>13. \A k \in 1..18 : ~ga[k].broken
  <2> SUFFICES ASSUME NEW k \in 1..18 PROVE ~ga[k].broken
    OBVIOUS
  <2>1. k \in 1..35 /\ k \in 1..24
    OBVIOUS
  <2>2. all[k] = gat[k] /\ gat[k] = ga[k]
    BY <1>10, <1>11, <2>1
  <2> QED
    BY <1>12, <2>1, <2>2
<1>14. \A k \in 1..12 : ~g[k].broken
  <2> SUFFICES ASSUME NEW k \in 1..12 PROVE ~g[k].broken
    OBVIOUS
  <2>1. k \in 1..18 /\ ga[k] = g[k]
    BY <1>9
  <2> QED
    BY <1>13, <2>1
<1>15. \A k \in 1..6 : ~a[k].broken
  <2> SUFFICES ASSUME NEW k \in 1..6 PROVE ~a[k].broken
    OBVIOUS
  <2>1. 12 + k \in 1..18 /\ ga[12 + k] = a[k]
    BY <1>9
  <2> QED
    BY <1>13, <2>1
<1>16. \A k \in 1..6 : ~t[k].broken
  <2> SUFFICES ASSUME NEW k \in 1..6 PROVE ~t[k].broken
    OBVIOUS
  <2>1. 18 + k \in 1..35 /\ 18 + k \in 1..24
    OBVIOUS
  <2>2. all[18 + k] = gat[18 + k] /\ gat[18 + k] = t[k]
    BY <1>10, <1>11, <2>1
  <2> QED
    BY <1>12, <2>1, <2>2
<1>17. \A k \in 1..11 : ~o[k].broken
  <2> SUFFICES ASSUME NEW k \in 1..11 PROVE ~o[k].broken
    OBVIOUS
  <2>1. 24 + k \in 1..35
    OBVIOUS
  <2>2. all[24 + k] = o[k]
    BY <1>11
  <2> QED
    BY <1>12, <2>1, <2>2
<1> QED
  BY <1>14, <1>15, <1>16, <1>17 DEF g, a, t, o

\* A rule that is not broken: its condition does not hold.
LEMMA Unbroken == \A a, b, c : ~Rule(a, b, c).broken => ~c
  BY DEF Rule

\* An accepted decision: the mode in the snapshot was SIMULATION and the facts in it are not
\* too old at the time of the decision (engine.py:49-414).
LEMMA AcceptedFacts ==
  ASSUME NEW i, NEW s, NEW p, NEW n, EvaluateRisk(i, s, p, n).accepted
  PROVE  /\ s.mode = "SIMULATION" /\ ~IsStale(s.strategy.at, n, p.strategyAge)
         /\ ~IsStale(s.security.at, n, p.marketAge)
<1>1. /\ GlobalRules(i, s, p, n)[5] = Rule("RUNTIME_MODE", "MODE_NOT_ARMED", s.mode # "SIMULATION")
      /\ StrategyRules(i, s, p, n)[2]
           = Rule("HEARTBEAT", "DATA_STALE", IsStale(s.strategy.at, n, p.strategyAge))
      /\ OrderRules(i, s, p, n)[3]
           = Rule("MARKET_FRESHNESS", "DATA_STALE", IsStale(s.security.at, n, p.marketAge))
  BY DEF GlobalRules, StrategyRules, OrderRules
<1>2. /\ ~GlobalRules(i, s, p, n)[5].broken /\ ~StrategyRules(i, s, p, n)[2].broken
      /\ ~OrderRules(i, s, p, n)[3].broken
  BY NoRuleBroken
<1>3. ~(s.mode # "SIMULATION")
  BY <1>1, <1>2, Unbroken, Zenon
<1>4. ~IsStale(s.strategy.at, n, p.strategyAge)
  BY <1>1, <1>2, Unbroken, Zenon
<1>5. ~IsStale(s.security.at, n, p.marketAge)
  BY <1>1, <1>2, Unbroken, Zenon
<1> QED
  BY <1>3, <1>4, <1>5

\* RiskSnapshotBuilder.build: the mode and the two times a snapshot carries.
LEMMA SnapshotFacts ==
  ASSUME NEW m, NEW health, NEW open, NEW l, NEW b, NEW q, NEW book, NEW x, NEW p
  PROVE  LET s == Snapshot(m, health, open, l, b, q, book, x, p)
         IN  s.mode = m /\ s.strategy.at = b.at /\ s.security.at = q.broker
<1> DEFINE s == Snapshot_NoExternal(m, health, open, l, b, q, book, x, p)
           y == PendingBuy(book.facts, book.tokens, DOMAIN book.own)
           z == PendingBuy(book.facts, book.tokens, {x})
<1>1. /\ s.mode = m /\ s.strategy.at = b.at /\ s.security.at = q.broker
      /\ "gross" \in DOMAIN s.security /\ "at" \in DOMAIN s.security
      /\ {"account", "security", "strategy", "mode"} \subseteq DOMAIN s
  BY DEF Snapshot_NoExternal
<1>2. Snapshot(m, health, open, l, b, q, book, x, p) =
        [s EXCEPT !.account.gross = @ + y, !.security.gross = @ + z]
  BY DEF Snapshot
<1> HIDE DEF s, y, z
<1> QED
  BY <1>1, <1>2

-----------------------------------------------------------------------------
(* Time, and what the caller of submit_intent may hold.                    *)

\* The clock, the latest it showed in SIMULATION, and the times of the cached facts.
Clock ==
  /\ IsPlan(plan) /\ now \in Nat /\ 1 <= now /\ now <= plan.clock
  /\ armed \in Nat /\ armed <= plan.clock
  /\ mode = "SIMULATION" => now <= armed
  /\ \A b \in beat : b.at \in Int
  /\ \A q \in quote : q.broker \in Int

\* A snapshot taken in SIMULATION holds facts no newer than the latest clock reading there.
Held ==
  \A h \in held : h.snapshot.mode = "SIMULATION" =>
    /\ h.snapshot.strategy.at \in Int /\ h.snapshot.strategy.at <= armed
    /\ h.snapshot.security.at \in Int /\ h.snapshot.security.at <= armed

\* No request reaches a live mode.
LEMMA AllowedModes == \A from, to : Allowed(from, to) => to \in Modes
<1> SUFFICES ASSUME NEW from, NEW to, Allowed(from, to) PROVE to \in Modes
  OBVIOUS
<1>1. CASE from = "DISABLED"
  BY <1>1 DEF Allowed, Modes
<1>2. CASE from = "OBSERVE"
  BY <1>2 DEF Allowed, Modes
<1>3. CASE from = "SHADOW"
  BY <1>3 DEF Allowed, Modes
<1>4. CASE from = "SIMULATION"
  BY <1>4 DEF Allowed, Modes
<1>5. CASE from \notin {"DISABLED", "OBSERVE", "SHADOW", "SIMULATION"}
  BY <1>5 DEF Allowed, Modes
<1> QED
  BY <1>1, <1>2, <1>3, <1>4, <1>5

\* A transition: an audited one of this session, or none.
LEMMA Transition ==
  ASSUME ControlStep
  PROVE  /\ \/ UNCHANGED <<mode, audit, armed>>
            \/ \E id, to, by : Enter(id, to, by, now) /\ to \in Modes
         /\ UNCHANGED <<plan, now, session, quote, beat, held, sent>>
         /\ session # None
<1>1. ASSUME NEW id, NEW to \in plan.targets, RequestMode(id, to)
      PROVE  /\ Enter(id, to, "operator", now) /\ to \in Modes /\ session # None
             /\ UNCHANGED <<plan, now, session, quote, beat, held, sent>>
  BY <1>1, AllowedModes DEF RequestMode, Enter, Does
<1>2. ASSUME NEW id, EmergencyHalt(id)
      PROVE  /\ Enter(id, "HALTED", "operator", now) /\ session # None
             /\ UNCHANGED <<plan, now, session, quote, beat, held, sent>>
  BY <1>2 DEF EmergencyHalt, Halt, Does
<1>3. ASSUME NEW id, NEW n, SupervisorTick(id, n)
      PROVE  /\ Enter(id, "HALTED", "health-monitor", now) \/ UNCHANGED <<mode, audit, armed>>
             /\ session # None
             /\ UNCHANGED <<plan, now, session, quote, beat, held, sent>>
  BY <1>3 DEF SupervisorTick, Halt, Does
<1>4. ASSUME Shutdown
      PROVE  /\ \E id : Enter(id, "HALTED", "runtime-lifecycle", now) \/ UNCHANGED <<mode, audit, armed>>
             /\ session # None
             /\ UNCHANGED <<plan, now, session, quote, beat, held, sent>>
  BY <1>4 DEF Shutdown, Halt, Does
<1>5. "HALTED" \in Modes
  BY DEF Modes
<1> QED
  BY <1>1, <1>2, <1>3, <1>4, <1>5 DEF ControlStep

\* Every step keeps the clock and what a snapshot may hold.
LEMMA HeldStep ==
  ASSUME Clock, Held, [RuntimeNext]_vars
  PROVE  Clock' /\ Held'
<1>1. ASSUME UNCHANGED <<plan, now, mode, armed, beat, quote, held>> PROVE Clock' /\ Held'
  BY <1>1 DEF Clock, Held
<1>2. /\ plan.skew \subseteq Int /\ plan.clock \in Nat /\ plan.back \subseteq 1..plan.clock
      /\ now \in Nat /\ 1 <= now /\ now <= plan.clock /\ armed \in Nat /\ armed <= plan.clock
  BY DEF Clock, IsPlan
<1>3. ASSUME NEW price, NEW d \in plan.skew, IngestQuote(price, now + d) PROVE Clock' /\ Held'
  <2>1. /\ quote' = {[price |-> price, broker |-> now + d, seen |-> now]}
        /\ UNCHANGED <<plan, now, mode, armed, beat, held>>
    BY <1>3 DEF IngestQuote
  <2>2. \A q \in quote' : q.broker \in Int
    BY <1>2, <2>1
  <2> QED
    BY <2>1, <2>2 DEF Clock, Held
<1>4. ASSUME NEW s, NEW n, NEW v, NEW d \in plan.skew, IngestHeartbeat(s, n, v, now + d)
      PROVE  Clock' /\ Held'
  <2>1. /\ beat' = {[session |-> s, seq |-> n, at |-> now + d, version |-> v]}
        /\ UNCHANGED <<plan, now, mode, armed, quote, held>>
    BY <1>4 DEF IngestHeartbeat
  <2>2. \A b \in beat' : b.at \in Int
    BY <1>2, <2>1
  <2> QED
    BY <2>1, <2>2 DEF Clock, Held
<1>5. ASSUME NEW c, NEW h, NEW at, NEW detail, Observe(c, h, at, detail) PROVE Clock' /\ Held'
  BY <1>1, <1>5 DEF Observe
<1>6. CASE HealthStep
  <2>1. ASSUME NEW c, NEW h, Report(c, h) PROVE Clock' /\ Held'
    BY <1>5, <2>1 DEF Report
  <2>2. ASSUME NEW gap, NEW resync, NEW at, ObserveQmt(gap, resync, at) PROVE Clock' /\ Held'
    BY <1>5, <2>2 DEF ObserveQmt
  <2>3. CASE RefreshMarketData
    BY <1>5, <2>3 DEF RefreshMarketData
  <2>4. CASE RefreshStrategies
    BY <1>5, <2>4 DEF RefreshStrategies
  <2> QED
    BY <1>3, <1>4, <1>6, <2>1, <2>2, <2>3, <2>4 DEF HealthStep
<1>7. CASE ControlStep
  <2>1. UNCHANGED <<plan, now, quote, beat, held>>
    BY <1>7, Transition
  <2>2. UNCHANGED <<mode, armed>> \/ (armed' = IF mode' = "SIMULATION" /\ armed < now THEN now ELSE armed)
    BY <1>7, Transition DEF Enter, ArmedAt
  <2>3. armed' \in {armed, now} /\ armed <= armed' /\ (mode' = "SIMULATION" => now <= armed')
    BY <1>2, <2>2 DEF Clock
  <2>4. Clock'
    BY <1>2, <2>1, <2>3 DEF Clock
  <2> QED
    BY <1>2, <2>1, <2>3, <2>4 DEF Held
<1>8. ASSUME NEW f, Account(f) PROVE Clock' /\ Held'
  BY <1>1, <1>8 DEF Account, memory
<1>9. CASE SubmitIntent
  BY <1>1, <1>9 DEF SubmitIntent, memory
<1>10. ASSUME NEW i, NEW book, NEW lag, EvaluateIntent(i, book, lag) PROVE Clock' /\ Held'
  <2>1. UNCHANGED <<plan, now, mode, armed, beat, quote>>
    BY <1>10 DEF EvaluateIntent
  <2>2. FreshBeat(beat, now, Policy.strategyAge) /\ FreshQuote(quote, now, Policy.marketAge)
    BY <1>10 DEF EvaluateIntent, Buildable
  <2>3. PICK b \in beat, q \in quote :
          LET known == [book EXCEPT !.at = now - lag]
              s     == Snapshot(mode, HealthFlags, MarketOpen, ledger, b, q, known, i.symbol, Policy)
          IN held' = {[intent |-> i, book |-> known, snapshot |-> s, ledger |-> ledger,
                       accepted |-> EvaluateRisk(i, s, Policy, now).accepted]}
    BY <1>10 DEF EvaluateIntent
  <2> DEFINE s == Snapshot(mode, HealthFlags, MarketOpen, ledger, b, q, [book EXCEPT !.at = now - lag],
                           i.symbol, Policy)
  <2>4. s.mode = mode /\ s.strategy.at = b.at /\ s.security.at = q.broker
    BY SnapshotFacts
  <2>5. \A h \in held' : h.snapshot = s
    BY <2>3
  <2>6. b.at \in Int /\ b.at <= now /\ q.broker \in Int /\ q.broker <= now
    <3>1. b.at \in Int /\ q.broker \in Int
      BY DEF Clock
    <3>2. ~(b.at > now) /\ ~(q.broker > now)
      BY <2>2 DEF FreshBeat, FreshQuote, IsStale
    <3> QED
      BY <1>2, <3>1, <3>2
  <2> HIDE DEF s
  <2>7. mode = "SIMULATION" => now <= armed
    BY DEF Clock
  <2>8. Held'
    BY <1>2, <2>1, <2>4, <2>5, <2>6, <2>7 DEF Held
  <2> QED
    BY <2>1, <2>8 DEF Clock
<1>11. CASE DecisionStep
  BY <1>8, <1>9, <1>10, <1>11 DEF DecisionStep
<1>12. ASSUME NEW s, Start(s) PROVE Clock' /\ Held'
  <2>1. /\ mode' = "DISABLED" /\ quote' = {} /\ beat' = {} /\ held' = {} /\ now' = now + 1
        /\ armed' = 0 /\ now < plan.clock /\ UNCHANGED plan
    BY <1>12 DEF Start, NoMemory
  <2> QED
    BY <1>2, <2>1 DEF Clock, Held
<1>13. CASE Die
  <2>1. /\ mode' = "DISABLED" /\ quote' = {} /\ beat' = {} /\ held' = {}
        /\ UNCHANGED <<plan, armed, now>>
    BY <1>13 DEF Die, NoMemory
  <2> QED
    BY <1>2, <2>1 DEF Clock, Held
<1>14. CASE Wait
  <2>1. /\ now' = now + 1 /\ now < plan.clock
        /\ armed' = IF mode = "SIMULATION" /\ armed < now' THEN now' ELSE armed
        /\ UNCHANGED <<plan, mode, beat, quote, held>>
    BY <1>14 DEF Wait, memory, ArmedAt
  <2>2. /\ armed' \in Nat /\ armed <= armed' /\ armed' <= plan.clock
        /\ now' \in Nat /\ 1 <= now' /\ now' <= plan.clock /\ (mode' = "SIMULATION" => now' <= armed')
    BY <1>2, <2>1
  <2>3. Clock'
    BY <2>1, <2>2 DEF Clock
  <2> QED
    BY <1>2, <2>1, <2>2, <2>3 DEF Held
<1>15. CASE SetBack
  <2>1. now' \in plan.back /\ now' < now /\ UNCHANGED <<plan, mode, armed, beat, quote, held>>
    BY <1>15 DEF SetBack, memory
  <2>2. now' \in Nat /\ 1 <= now' /\ now' <= plan.clock /\ now' <= now
    BY <1>2, <2>1
  <2>3. mode = "SIMULATION" => now' <= armed
    BY <1>2, <2>2 DEF Clock
  <2> QED
    BY <2>1, <2>2, <2>3 DEF Clock, Held
<1>16. CASE UNCHANGED vars
  BY <1>1, <1>16 DEF vars, memory
<1> QED
  BY <1>6, <1>7, <1>11, <1>12, <1>13, <1>14, <1>15, <1>16 DEF RuntimeNext

\* No order is authorised longer after the latest the clock showed in SIMULATION than the
\* heartbeat and the quote in the snapshot may be old, although the snapshot has no time of
\* its own, the runtime halts, dies and restarts in between and the clock may be set back
\* (risk_oms.py:29-38).
THEOREM HaltsBite == RuntimeSpec => []HaltTakesEffect
<1>1. RuntimeInit => Clock /\ Held /\ HaltTakesEffect
  <2> SUFFICES ASSUME RuntimeInit PROVE Clock /\ Held /\ HaltTakesEffect
    OBVIOUS
  <2>1. IsPlan(plan)
    BY RuntimeAssumption DEF RuntimeInit
  <2>2. now = 1 /\ armed = 0 /\ mode = "DISABLED" /\ beat = {} /\ quote = {} /\ held = {} /\ sent = {}
    BY DEF RuntimeInit
  <2> QED
    BY <2>1, <2>2 DEF Clock, Held, HaltTakesEffect, IsPlan
<1>2. Clock /\ Held /\ HaltTakesEffect /\ [RuntimeNext]_vars => HaltTakesEffect'
  <2> SUFFICES ASSUME Clock, Held, HaltTakesEffect, [RuntimeNext]_vars PROVE HaltTakesEffect'
    OBVIOUS
  <2>1. CASE SubmitIntent
    <3>1. PICK h \in held : /\ EvaluateRisk(h.intent, h.snapshot, Policy, now).accepted
                            /\ sent' = {[at |-> now, lag |-> now - armed, what |-> h]}
      BY <2>1 DEF SubmitIntent
    <3> DEFINE t == h.snapshot.strategy.at
               q == h.snapshot.security.at
    <3>2. /\ h.snapshot.mode = "SIMULATION" /\ ~IsStale(t, now, Policy.strategyAge)
          /\ ~IsStale(q, now, Policy.marketAge)
      BY <3>1, AcceptedFacts
    <3>3. t \in Int /\ q \in Int /\ t <= armed /\ q <= armed
      BY <3>2 DEF Held
    <3>4. Policy.strategyAge \in Nat /\ Policy.marketAge \in Nat /\ now \in Nat /\ armed \in Nat
      BY RuntimeAssumption DEF ValidPolicy, Clock
    <3>5. ~(t < now - Policy.strategyAge) /\ ~(q < now - Policy.marketAge)
      BY <3>2 DEF IsStale
    <3> HIDE DEF t, q
    <3>6. now - armed <= Policy.strategyAge /\ now - armed <= Policy.marketAge
      BY <3>3, <3>4, <3>5
    <3> QED
      BY <3>1, <3>6 DEF HaltTakesEffect
  <2>2. CASE UNCHANGED sent
    BY <2>2 DEF HaltTakesEffect
  <2>3. SubmitIntent \/ UNCHANGED sent
    <3>1. CASE HealthStep
      BY <3>1 DEF HealthStep, Report, ObserveQmt, IngestQuote, RefreshMarketData, IngestHeartbeat,
                  RefreshStrategies, Observe
    <3>2. CASE ControlStep
      BY <3>2, Transition
    <3>3. CASE DecisionStep \/ Die \/ Wait \/ SetBack \/ \E s \in plan.sessions : Start(s)
      BY <3>3 DEF DecisionStep, Account, EvaluateIntent, Die, Wait, SetBack, Start
    <3>4. CASE UNCHANGED vars
      BY <3>4 DEF vars
    <3> QED
      BY <3>1, <3>2, <3>3, <3>4 DEF RuntimeNext
  <2> QED
    BY <2>1, <2>2, <2>3
<1> QED
  BY <1>1, <1>2, HeldStep, PTL DEF RuntimeSpec

-----------------------------------------------------------------------------
(* The audit.                                                              *)

\* The audit is a list, and a process runs only on a proven deployment.
Audited ==
  /\ AuditTellsMode /\ (\E S : audit \in Seq(S))
  /\ session # None => Compatible(plan.release, plan.observed)

\* A row appended for the session that runs next, with the mode it runs in.
LEMMA Appended ==
  ASSUME Audited, NEW r, audit' = Append(audit, r), session' = r.session, mode' = r.to,
         UNCHANGED plan, Compatible(plan.release, plan.observed)
  PROVE  Audited'
<1>1. PICK S : audit \in Seq(S)
  BY DEF Audited
<1> DEFINE T == S \cup {r}
<1>2. S \subseteq T /\ r \in T
  OBVIOUS
<1> HIDE DEF T
<1>3. audit \in Seq(T)
  BY <1>1, <1>2, Wider
<1>4. audit' \in Seq(T) /\ Len(audit') = Len(audit) + 1 /\ audit'[Len(audit) + 1] = r /\ Len(audit) \in Nat
  BY <1>2, <1>3
<1>5. Len(audit) + 1 \in DOMAIN audit' /\ \A j \in DOMAIN audit' : ~(j > Len(audit) + 1)
  BY <1>4
<1>6. Compatible(plan.release, plan.observed)'
  BY DEF Compatible
<1>7. AuditTellsMode'
  BY <1>4, <1>5, <1>6 DEF AuditTellsMode
<1> QED
  BY <1>4, <1>6, <1>7 DEF Audited

\* The mode in memory is the target of the last transition audited for the session, across
\* replays, conflicts, halts, crashes and restarts, and nothing is audited on an unproven
\* deployment (mode.py:135-256).
THEOREM ModesAudited == RuntimeSpec => []AuditTellsMode
<1>1. RuntimeInit => Audited
  <2> SUFFICES ASSUME RuntimeInit PROVE Audited
    OBVIOUS
  <2>1. session = None /\ audit = <<>>
    BY DEF RuntimeInit
  <2>2. audit \in Seq({})
    BY <2>1
  <2> QED
    BY <2>1, <2>2 DEF Audited, AuditTellsMode
<1>2. Audited /\ [RuntimeNext]_vars => Audited'
  <2> SUFFICES ASSUME Audited, [RuntimeNext]_vars PROVE Audited'
    OBVIOUS
  <2>1. ASSUME UNCHANGED <<plan, session, mode, audit>> PROVE Audited'
    BY <2>1 DEF Audited, AuditTellsMode, Compatible
  <2>2. CASE HealthStep
    <3>1. UNCHANGED <<plan, session, mode, audit>>
      BY <2>2 DEF HealthStep, Report, ObserveQmt, IngestQuote, RefreshMarketData, IngestHeartbeat,
                  RefreshStrategies, Observe
    <3> QED
      BY <2>1, <3>1
  <2>3. CASE ControlStep
    <3>1. UNCHANGED <<plan, session>> /\ session # None
      BY <2>3, Transition
    <3>2. CASE UNCHANGED <<mode, audit>>
      BY <2>1, <3>1, <3>2
    <3>3. ASSUME NEW id, NEW to, NEW by, Enter(id, to, by, now) PROVE Audited'
      <4> DEFINE r == Row(id, to, by, now)
      <4>1. r.session = session /\ r.to = to
        BY DEF Row
      <4>2. audit' = Append(audit, r) /\ mode' = to
        BY <3>3 DEF Enter
      <4>3. Compatible(plan.release, plan.observed)
        BY <3>1 DEF Audited
      <4> HIDE DEF r
      <4> QED
        BY <3>1, <4>1, <4>2, <4>3, Appended
    <3> QED
      BY <2>3, <3>2, <3>3, Transition
  <2>4. CASE DecisionStep \/ Wait \/ SetBack
    <3>1. UNCHANGED <<plan, session, mode, audit>>
      BY <2>4 DEF DecisionStep, Account, EvaluateIntent, SubmitIntent, Wait, SetBack, memory
    <3> QED
      BY <2>1, <3>1
  <2>5. ASSUME NEW s, Start(s) PROVE Audited'
    <3> DEFINE r == [id |-> <<"startup", s>>, session |-> s, from |-> "DISABLED",
                     to |-> "DISABLED", by |-> "system", at |-> now + 1]
    <3>1. /\ audit' = Append(audit, r) /\ session' = s /\ mode' = "DISABLED" /\ UNCHANGED plan
          /\ Compatible(plan.release, plan.observed)
      BY <2>5 DEF Start, NoMemory
    <3>2. r.session = s /\ r.to = "DISABLED"
      OBVIOUS
    <3> HIDE DEF r
    <3> QED
      BY <3>1, <3>2, Appended
  <2>6. CASE Die
    <3>1. session' = None /\ UNCHANGED <<plan, audit>>
      BY <2>6 DEF Die
    <3> QED
      BY <3>1 DEF Audited, AuditTellsMode, Compatible
  <2>7. CASE UNCHANGED vars
    BY <2>1, <2>7 DEF vars, memory
  <2> QED
    BY <2>2, <2>3, <2>4, <2>5, <2>6, <2>7 DEF RuntimeNext
<1>3. Audited => AuditTellsMode
  BY DEF Audited
<1> QED
  BY <1>1, <1>2, <1>3, PTL DEF RuntimeSpec

-----------------------------------------------------------------------------
(* What an accepted order can lead to.                                     *)

\* What the rules leave of an accepted decision (engine.py:49-414).
LEMMA AcceptedLimits ==
  ASSUME NEW i, NEW s, NEW p, NEW n, EvaluateRisk(i, s, p, n).accepted
  PROVE  /\ ~(s.account.turnover + Notional(i) > p.maxTurnover)
         /\ ~(s.account.orders + 1 > p.maxOrders)
         /\ ~(ProjectedLong(i.side, s.account.gross, s.security.gross, Notional(i)) > p.maxGross)
         /\ ~(ProjectedPositions(i, s.strategy) > p.maxPositions)
         /\ ~(i.symbol \in s.blocked)
         /\ ~(ProjectedLong(i.side, s.security.gross, s.security.gross, Notional(i)) > p.maxSecurity)
         /\ i.side = "BUY" =>
              ~((s.account.cash - p.minCash) * 100 < Notional(i) * (100 + p.fee))
<1> DEFINE g == GlobalRules(i, s, p, n)
           a == AccountRules(i, s, p, n)
           t == StrategyRules(i, s, p, n)
           o == OrderRules(i, s, p, n)
<1>1. /\ ~g[10].broken /\ ~g[11].broken /\ ~a[6].broken /\ ~t[6].broken
      /\ ~o[4].broken /\ ~o[10].broken /\ ~o[11].broken
  BY NoRuleBroken
<1>2. /\ g[10] = Rule("DAILY_TURNOVER", "LIMIT_EXCEEDED", s.account.turnover + Notional(i) > p.maxTurnover)
      /\ g[11] = Rule("DAILY_ORDERS", "LIMIT_EXCEEDED", s.account.orders + 1 > p.maxOrders)
  BY DEF GlobalRules
<1>3. a[6] = Rule("ACCOUNT_EXPOSURE", "LIMIT_EXCEEDED",
                  ProjectedLong(i.side, s.account.gross, s.security.gross, Notional(i)) > p.maxGross)
  BY DEF AccountRules
<1>4. t[6] = Rule("POSITION_COUNT", "LIMIT_EXCEEDED", ProjectedPositions(i, s.strategy) > p.maxPositions)
  BY DEF StrategyRules
<1>5. /\ o[4] = Rule("SYMBOL_AMBIGUITY", "UNKNOWN_ORDER", i.symbol \in s.blocked)
      /\ o[10] = Rule("SECURITY_EXPOSURE", "LIMIT_EXCEEDED",
                      ProjectedLong(i.side, s.security.gross, s.security.gross, Notional(i)) > p.maxSecurity)
  BY DEF OrderRules
<1>6. i.side = "BUY" =>
        o[11] = Rule("CASH", "LIMIT_EXCEEDED",
                     (s.account.cash - p.minCash) * 100 < Notional(i) * (100 + p.fee))
  BY DEF OrderRules
<1> HIDE DEF g, a, t, o
<1>7. /\ ~(s.account.turnover + Notional(i) > p.maxTurnover)
      /\ ~(s.account.orders + 1 > p.maxOrders)
  BY <1>1, <1>2, Unbroken, Zenon
<1>8. ~(ProjectedLong(i.side, s.account.gross, s.security.gross, Notional(i)) > p.maxGross)
  BY <1>1, <1>3, Unbroken, Zenon
<1>9. ~(ProjectedPositions(i, s.strategy) > p.maxPositions)
  BY <1>1, <1>4, Unbroken, Zenon
<1>10. /\ ~(i.symbol \in s.blocked)
       /\ ~(ProjectedLong(i.side, s.security.gross, s.security.gross, Notional(i)) > p.maxSecurity)
  BY <1>1, <1>5, Unbroken, Zenon
<1>11. i.side = "BUY" => ~((s.account.cash - p.minCash) * 100 < Notional(i) * (100 + p.fee))
  BY <1>1, <1>6, Unbroken, Zenon
<1> QED
  BY <1>7, <1>8, <1>9, <1>10, <1>11

\* The symbols a strategy has a position in.
Invested(book) == { x \in DOMAIN book.own : book.own[x] > 0 }

\* The exposures and the counts of the book and the ledger, as a snapshot for x carries them.
Describes(s, book, l, x) ==
  /\ s.blocked = BlockedSymbols(book.facts, book.tokens)
  /\ s.account.cash = book.cash /\ s.account.turnover = Turnover(l)
  /\ s.account.orders = Cardinality(OfKind(l, "ORDER"))
  /\ s.account.gross = Gross(book.own) + Gross(book.other)
                         + PendingBuy(book.facts, book.tokens, DOMAIN book.own)
  /\ s.security.gross = book.own[x] + book.other[x] + PendingBuy(book.facts, book.tokens, {x})
  /\ s.strategy.inSecurity = book.own[x]
  /\ s.strategy.positions = Cardinality(Invested(book))

\* RiskSnapshotBuilder.build tells the truth, with the external buys added.
LEMMA SnapshotExposures ==
  ASSUME NEW m, NEW health, NEW open, NEW l, NEW b, NEW q, NEW book, NEW x, NEW p
  PROVE  Describes(Snapshot(m, health, open, l, b, q, book, x, p), book, l, x)
<1> DEFINE s == Snapshot_NoExternal(m, health, open, l, b, q, book, x, p)
           y == PendingBuy(book.facts, book.tokens, DOMAIN book.own)
           z == PendingBuy(book.facts, book.tokens, {x})
           e == [s EXCEPT !.account.gross = @ + y, !.security.gross = @ + z]
<1>1. /\ s.blocked = BlockedSymbols(book.facts, book.tokens)
      /\ s.account.cash = book.cash /\ s.account.turnover = Turnover(l)
      /\ s.account.orders = Cardinality(OfKind(l, "ORDER"))
      /\ s.account.gross = Gross(book.own) + Gross(book.other)
      /\ s.security.gross = book.own[x] + book.other[x]
      /\ s.strategy.inSecurity = book.own[x]
      /\ s.strategy.positions = Cardinality(Invested(book))
  BY DEF Snapshot_NoExternal, Invested
<1>2. /\ "gross" \in DOMAIN s.security
      /\ {"gross", "cash", "turnover", "orders"} \subseteq DOMAIN s.account
      /\ {"account", "security", "strategy", "blocked"} \subseteq DOMAIN s
  BY DEF Snapshot_NoExternal
<1>3. Snapshot(m, health, open, l, b, q, book, x, p) = e
  BY DEF Snapshot
<1> HIDE DEF s, y, z
<1>4. /\ e.blocked = s.blocked /\ e.strategy = s.strategy
      /\ e.account.cash = s.account.cash /\ e.account.turnover = s.account.turnover
      /\ e.account.orders = s.account.orders
      /\ e.account.gross = s.account.gross + y
      /\ e.security.gross = s.security.gross + z
  BY <1>2
<1> HIDE DEF e
<1> QED
  BY <1>1, <1>3, <1>4 DEF Describes, y, z

\* What is left of a set of orders: a number, and more of more orders.
LEMMA RemainingFacts ==
  ASSUME NEW S, IsFiniteSet(S), \A f \in S : f.remaining \in Nat
  PROVE  /\ Remaining({}) = 0
         /\ \A F \in SUBSET S : Remaining(F) \in Nat
         /\ \A F, G \in SUBSET S : F \cap G = {} => Remaining(F \cup G) = Remaining(F) + Remaining(G)
         /\ \A F, G \in SUBSET S : F \subseteq G => Remaining(F) <= Remaining(G)
<1> DEFINE w == [f \in S |-> f.remaining]
<1>1. \A F \in SUBSET S : Remaining(F) = Total(w, F)
  BY RemainingTotal
<1>2. \A x \in S : w[x] \in Nat
  OBVIOUS
<1> HIDE DEF w
<1>3. Total(w, {}) = 0 /\ \A T \in SUBSET S : Total(w, T) \in Nat
  BY <1>2, TotalFacts
<1>4. ASSUME NEW F \in SUBSET S, NEW G \in SUBSET S, F \cap G = {}
      PROVE  Remaining(F \cup G) = Remaining(F) + Remaining(G)
  <2>1. Total(w, F \cup G) = Total(w, F) + Total(w, G)
    BY <1>2, <1>4, TotalSplit
  <2>2. F \cup G \in SUBSET S
    OBVIOUS
  <2> QED
    BY <1>1, <2>1, <2>2
<1>5. ASSUME NEW F \in SUBSET S, NEW G \in SUBSET S, F \subseteq G PROVE Remaining(F) <= Remaining(G)
  <2> DEFINE H == G \ F
  <2>1. H \in SUBSET S /\ F \cap H = {} /\ F \cup H = G
    BY <1>5
  <2> HIDE DEF H
  <2>2. Remaining(G) = Remaining(F) + Remaining(H)
    BY <1>4, <2>1
  <2>3. Remaining(F) \in Nat /\ Remaining(H) \in Nat
    BY <1>1, <1>3, <2>1
  <2> QED
    BY <2>2, <2>3
<1>6. {} \in SUBSET S
  OBVIOUS
<1> QED
  BY <1>1, <1>3, <1>4, <1>5, <1>6

\* The orders of E in one symbol, and in any of D.
OrdersIn(E, x)    == {e \in E : e.symbol = x}
OrdersAmong(E, D) == {e \in E : e.symbol \in D}

\* What the order itself adds.
Adding(k, fits) == IF fits THEN k ELSE 0

\* The sum of all exposures is the sum of their parts.
LEMMA Exposures ==
  ASSUME NEW D, IsFiniteSet(D), NEW u, NEW v, \A x \in D : u[x] \in Nat /\ v[x] \in Nat,
         NEW E, IsFiniteSet(E), \A e \in E : e.remaining \in Nat,
         NEW y, NEW k \in Nat, NEW w,
         \A x \in D : w[x] = u[x] + v[x] + Remaining(OrdersIn(E, x))
                               + Adding(k, x = y)
  PROVE  Total(w, D) = Total(u, D) + Total(v, D) + Remaining(OrdersAmong(E, D))
                         + Adding(k, y \in D)
<1> DEFINE L(T) == Remaining(OrdersAmong(E, T))
           M(T) == Adding(k, y \in T)
           P == {T \in SUBSET D : Total(w, T) = Total(u, T) + Total(v, T) + L(T) + M(T)}
<1>1. /\ Remaining({}) = 0 /\ \A F \in SUBSET E : Remaining(F) \in Nat
      /\ \A F, G \in SUBSET E : F \cap G = {} => Remaining(F \cup G) = Remaining(F) + Remaining(G)
  BY RemainingFacts
<1>2. \A x \in D : u[x] \in Nat
  OBVIOUS
<1>3. \A x \in D : v[x] \in Nat
  OBVIOUS
<1>4. \A x \in D : w[x] \in Nat
  <2> SUFFICES ASSUME NEW x \in D PROVE w[x] \in Nat
    OBVIOUS
  <2> DEFINE r == Remaining(OrdersIn(E, x))
  <2>1. r \in Nat
    BY <1>1 DEF OrdersIn
  <2>2. w[x] = u[x] + v[x] + r + Adding(k, x = y)
    OBVIOUS
  <2> HIDE DEF r
  <2> QED
    BY <2>1, <2>2 DEF Adding
<1>5. /\ Total(u, {}) = 0
      /\ \A T \in SUBSET D : /\ Total(u, T) \in Nat
                             /\ \A x \in T : Total(u, T) = u[x] + Total(u, T \ {x})
  BY <1>2, TotalFacts
<1>6. /\ Total(v, {}) = 0
      /\ \A T \in SUBSET D : /\ Total(v, T) \in Nat
                             /\ \A x \in T : Total(v, T) = v[x] + Total(v, T \ {x})
  BY <1>3, TotalFacts
<1>7. /\ Total(w, {}) = 0
      /\ \A T \in SUBSET D : /\ Total(w, T) \in Nat
                             /\ \A x \in T : Total(w, T) = w[x] + Total(w, T \ {x})
  BY <1>4, TotalFacts
<1>8. ASSUME NEW T \in SUBSET D, \A x \in T : T \ {x} \in P PROVE T \in P
  <2>1. CASE T = {}
    <3>1. OrdersAmong(E, T) = {}
      BY <2>1 DEF OrdersAmong
    <3>2. L(T) = 0
      BY <1>1, <3>1
    <3>3. M(T) = 0
      BY <2>1 DEF Adding
    <3>4. Total(w, T) = 0 /\ Total(u, T) = 0 /\ Total(v, T) = 0
      BY <1>5, <1>6, <1>7, <2>1
    <3> HIDE DEF L, M
    <3>5. Total(w, T) = Total(u, T) + Total(v, T) + L(T) + M(T)
      BY <3>2, <3>3, <3>4
    <3> QED
      BY <3>5
  <2>2. CASE T # {}
    <3>1. PICK x \in T : TRUE
      BY <2>2
    <3> DEFINE R == T \ {x}
               one == OrdersIn(E, x)
               rest == OrdersAmong(E, R)
               r == Remaining(one)
               c == Adding(k, x = y)
    <3>2. one \in SUBSET E /\ rest \in SUBSET E /\ rest \cap one = {}
          /\ rest \cup one = OrdersAmong(E, T)
      BY DEF OrdersIn, OrdersAmong
    <3> HIDE DEF one, rest
    <3>3. L(T) = Remaining(rest) + r /\ r \in Nat /\ Remaining(rest) \in Nat
      BY <1>1, <3>2
    <3>4. L(R) = Remaining(rest)
      BY DEF rest
    <3>5. M(T) = M(R) + c /\ M(R) \in Nat /\ c \in Nat
      BY DEF Adding
    <3>6. w[x] = u[x] + v[x] + r + c
      BY DEF one
    <3>7. /\ Total(w, T) = w[x] + Total(w, R) /\ Total(u, T) = u[x] + Total(u, R)
          /\ Total(v, T) = v[x] + Total(v, R)
      BY <1>5, <1>6, <1>7
    <3>8. R \in SUBSET D /\ x \in D /\ u[x] \in Nat /\ v[x] \in Nat /\ w[x] \in Nat
      BY <1>4
    <3>9. Total(u, R) \in Nat /\ Total(v, R) \in Nat /\ Total(w, R) \in Nat
      BY <1>5, <1>6, <1>7, <3>8
    <3>10. Total(w, R) = Total(u, R) + Total(v, R) + L(R) + M(R)
      BY <1>8
    <3> HIDE DEF L, M, R, r, c
    <3>11. Total(w, T) = Total(u, T) + Total(v, T) + L(T) + M(T)
      BY <3>3, <3>4, <3>5, <3>6, <3>7, <3>8, <3>9, <3>10
    <3> QED
      BY <3>11
  <2> QED
    BY <2>1, <2>2
<1> HIDE DEF P
<1>9. SUBSET D \subseteq P
  BY <1>8, Subsets
<1>10. D \in P
  BY <1>9
<1> QED
  BY <1>10 DEF P

\* A part of an order costs no more than the whole.
LEMMA PartOfOrder ==
  ASSUME NEW q \in Nat, NEW p \in Nat, NEW f \in 0..q
  PROVE  f * p \in Nat /\ f * p <= p * q
<1>1. f \in Nat /\ q - f \in Nat
  OBVIOUS
<1>2. f * p \in Nat /\ (q - f) * p \in Nat /\ p * q \in Nat
  BY <1>1
<1>3. p * q = f * p + (q - f) * p
  BY <1>1
<1> QED
  BY <1>2, <1>3

\* What AcceptedIsHarmless says of the exposures of one decision.
Bounded(h) ==
  LET buys == { e \in External(h.book.facts, h.book.tokens) : e.side = "BUY" }
      i    == h.intent
  IN \A f \in 0..i.quantity, E \in SUBSET buys :
       /\ Gross(After(h, f, E)) <= Policy.maxGross
            \/ Gross(After(h, f, E)) <= Gross(After(h, 0, E))
       /\ After(h, f, E)[i.symbol] <= Policy.maxSecurity
            \/ After(h, f, E)[i.symbol] <= After(h, 0, E)[i.symbol]

\* The limits of an accepted decision on its own snapshot bound every exposure it can lead to.
LEMMA ExposuresBounded ==
  ASSUME NEW h, IsIntent(h.intent), IsBook(h.book), h.intent.symbol \in DOMAIN h.book.own,
         h.intent.symbol \notin BlockedSymbols(h.book.facts, h.book.tokens),
         NEW gross \in Nat, NEW inSecurity \in Nat,
         gross = Gross(h.book.own) + Gross(h.book.other)
                   + PendingBuy(h.book.facts, h.book.tokens, DOMAIN h.book.own),
         inSecurity = h.book.own[h.intent.symbol] + h.book.other[h.intent.symbol]
                        + PendingBuy(h.book.facts, h.book.tokens, {h.intent.symbol}),
         ~(ProjectedLong(h.intent.side, gross, inSecurity, Notional(h.intent)) > Policy.maxGross),
         ~(ProjectedLong(h.intent.side, inSecurity, inSecurity, Notional(h.intent)) > Policy.maxSecurity)
  PROVE  Bounded(h)
<1> DEFINE i == h.intent
           D == DOMAIN h.book.own
           u == h.book.own
           v == h.book.other
           X == External(h.book.facts, h.book.tokens)
           buys == {e \in X : e.side = "BUY"}
           N == Notional(i)
<1> SUFFICES ASSUME NEW f \in 0..i.quantity, NEW E \in SUBSET buys
             PROVE  /\ Gross(After(h, f, E)) <= Policy.maxGross
                         \/ Gross(After(h, f, E)) <= Gross(After(h, 0, E))
                    /\ After(h, f, E)[i.symbol] <= Policy.maxSecurity
                         \/ After(h, f, E)[i.symbol] <= After(h, 0, E)[i.symbol]
  BY DEF Bounded
<1> DEFINE w == After(h, f, E)
           z == After(h, 0, E)
           At(x) == Remaining(OrdersIn(E, x))
           H0(x) == u[x] + v[x] + At(x)
           c == f * i.price
           y == i.symbol
<1>1. /\ IsFiniteSet(D) /\ DOMAIN v = D /\ \A x \in D : u[x] \in Nat /\ v[x] \in Nat
      /\ IsFiniteSet(Range(h.book.facts)) /\ \A e \in Range(h.book.facts) : e.remaining \in Nat
  BY DEF IsBook
<1>2. X \subseteq Range(h.book.facts)
  BY DEF External
<1>3. IsFiniteSet(X) /\ \A e \in X : e.remaining \in Nat
  BY <1>1, <1>2, FS_Subset
<1>4. E \subseteq X /\ buys \subseteq X
  OBVIOUS
<1>5. IsFiniteSet(E) /\ \A e \in E : e.remaining \in Nat
  BY <1>3, <1>4, FS_Subset
<1>6. /\ Remaining({}) = 0 /\ \A F \in SUBSET X : Remaining(F) \in Nat
      /\ \A F, G \in SUBSET X : F \subseteq G => Remaining(F) <= Remaining(G)
  BY <1>3, RemainingFacts
<1>7. c \in Nat /\ c <= N /\ N \in Nat /\ i.price \in Nat /\ 0 * i.price = 0
  <2>1. i.quantity \in Nat /\ i.price \in Nat
    BY DEF IsIntent
  <2>2. c \in Nat /\ c <= i.price * i.quantity
    BY <2>1, PartOfOrder
  <2>3. i.price * i.quantity \in Nat /\ 0 * i.price = 0
    BY <2>1
  <2> QED
    BY <2>1, <2>2, <2>3 DEF Notional
<1>8. \A x : At(x) \in Nat
  BY <1>4, <1>6 DEF OrdersIn
<1>9. \A x \in D : H0(x) \in Nat
  <2> SUFFICES ASSUME NEW x \in D PROVE H0(x) \in Nat
    OBVIOUS
  <2>1. u[x] \in Nat /\ v[x] \in Nat /\ At(x) \in Nat
    BY <1>1, <1>8
  <2> HIDE DEF At
  <2> QED
    BY <2>1
<1>10. i.symbol \in D
  OBVIOUS
<1>11. Policy.maxGross \in Nat /\ Policy.maxSecurity \in Nat
  BY RuntimeAssumption DEF ValidPolicy
<1>12. DOMAIN w = D /\ DOMAIN z = D
  BY DEF After
<1>13. Gross(w) = Total(w, D) /\ Gross(z) = Total(z, D) /\ Gross(u) = Total(u, D) /\ Gross(v) = Total(v, D)
  <2>1. \A g : Gross(g) = Total(g, DOMAIN g)
    BY DEF Gross, Total
  <2> HIDE DEF w, z
  <2> QED
    BY <1>1, <1>12, <2>1
<1>14. ASSUME i.side = "BUY"
       PROVE  Gross(w) <= Policy.maxGross /\ w[i.symbol] <= Policy.maxSecurity
  <2>1. \A x \in D : w[x] = u[x] + v[x] + Remaining(OrdersIn(E, x))
                                 + Adding(c, x = y)
    BY <1>14 DEF After, OrdersIn, Adding
  <2> DEFINE all == OrdersAmong(E, D)
             pend == PendingBuy(h.book.facts, h.book.tokens, D)
             one == PendingBuy(h.book.facts, h.book.tokens, {i.symbol})
  <2>2. Total(w, D) = Total(u, D) + Total(v, D) + Remaining(all) + c
    <3> HIDE DEF w, c, u, v, D, y
    <3>0. /\ IsFiniteSet(D) /\ IsFiniteSet(E) /\ c \in Nat
          /\ \A x \in D : u[x] \in Nat /\ v[x] \in Nat
          /\ \A e \in E : e.remaining \in Nat
      BY <1>1, <1>5, <1>7
    <3>1. Total(w, D) = Total(u, D) + Total(v, D) + Remaining(OrdersAmong(E, D))
                          + Adding(c, y \in D)
      BY <2>1, <3>0, Exposures
    <3> QED
      BY <1>10, <3>1 DEF Adding, y
  <2>3. Remaining(all) <= pend /\ Remaining(all) \in Nat /\ pend \in Nat
    <3> DEFINE G == {e \in X : e.side = "BUY" /\ e.symbol \in D}
    <3>1. pend = Remaining(G)
      BY DEF PendingBuy
    <3>2. all \subseteq G /\ all \in SUBSET X /\ G \in SUBSET X
      BY DEF OrdersAmong
    <3> HIDE DEF all, G, pend
    <3> QED
      BY <1>6, <3>1, <3>2
  <2>4. one \in Nat
    <3> DEFINE G == {e \in X : e.side = "BUY" /\ e.symbol \in {i.symbol}}
    <3>1. one = Remaining(G)
      BY DEF PendingBuy
    <3>2. G \in SUBSET X
      OBVIOUS
    <3> HIDE DEF G, one
    <3> QED
      BY <1>6, <3>1, <3>2
  <2>5. At(i.symbol) = 0
    <3>1. ASSUME NEW e \in E PROVE e.symbol # i.symbol
      BY <1>4 DEF BlockedSymbols
    <3>2. OrdersIn(E, i.symbol) = {}
      BY <3>1 DEF OrdersIn
    <3> QED
      BY <1>6, <3>2
  <2>6. gross + N <= Policy.maxGross /\ inSecurity + N <= Policy.maxSecurity
    <3>1. ~(gross + N > Policy.maxGross) /\ ~(inSecurity + N > Policy.maxSecurity)
      BY <1>14 DEF ProjectedLong
    <3> HIDE DEF N
    <3> QED
      BY <1>7, <1>11, <3>1
  <2>7. Total(u, D) \in Nat /\ Total(v, D) \in Nat
    <3>1. \A x \in D : u[x] \in Nat
      BY <1>1
    <3>2. \A x \in D : v[x] \in Nat
      BY <1>1
    <3> HIDE DEF u, v, D
    <3>3. \A T \in SUBSET D : Total(u, T) \in Nat
      BY <1>1, <3>1, TotalFacts
    <3>4. \A T \in SUBSET D : Total(v, T) \in Nat
      BY <1>1, <3>2, TotalFacts
    <3> QED
      BY <3>3, <3>4
  <2>8. gross = Total(u, D) + Total(v, D) + pend
    BY <1>13
  <2>9. inSecurity = u[i.symbol] + v[i.symbol] + one
    OBVIOUS
  <2>10. w[i.symbol] = u[i.symbol] + v[i.symbol] + At(i.symbol) + c
    BY <1>10, <2>1 DEF Adding
  <2>11. u[i.symbol] \in Nat /\ v[i.symbol] \in Nat
    BY <1>1
  <2> HIDE DEF w, u, v, c, N, D, At, all, pend, one
  <2>12. Gross(w) <= Policy.maxGross
    BY <1>7, <1>11, <1>13, <2>2, <2>3, <2>6, <2>7, <2>8
  <2>13. w[i.symbol] <= Policy.maxSecurity
    BY <1>7, <1>11, <2>4, <2>5, <2>6, <2>9, <2>10, <2>11
  <2> QED
    BY <2>12, <2>13
<1>15. ASSUME i.side # "BUY"
       PROVE  Gross(w) <= Gross(z) /\ w[i.symbol] <= z[i.symbol]
  <2>1. ASSUME NEW x \in D PROVE w[x] \in Nat /\ z[x] \in Nat /\ w[x] <= z[x]
    <3> DEFINE m == IF x = i.symbol THEN c ELSE 0
               n == IF x = i.symbol THEN 0 * i.price ELSE 0
    <3>1. w[x] = IF m > H0(x) THEN 0 ELSE H0(x) - m
      BY <1>15 DEF After, OrdersIn
    <3>2. z[x] = IF n > H0(x) THEN 0 ELSE H0(x) - n
      BY <1>15 DEF After, OrdersIn
    <3>3. n = 0 /\ m \in Nat
      BY <1>7
    <3>4. H0(x) \in Nat
      BY <1>9
    <3> HIDE DEF H0, m, n, w, z
    <3> QED
      BY <3>1, <3>2, <3>3, <3>4
  <2> HIDE DEF w, z, D
  <2>2. Total(w, D) <= Total(z, D)
    BY <1>1, <2>1, TotalMonotone
  <2> QED
    BY <1>10, <1>13, <2>1, <2>2
<1> HIDE DEF w, z
<1>16. CASE i.side = "BUY"
  BY <1>14, <1>16 DEF w, z
<1>17. CASE i.side # "BUY"
  BY <1>15, <1>17 DEF w, z
<1> QED
  BY <1>16, <1>17

\* The positions once the order's symbol is one of them.
LEMMA PositionsAfter ==
  ASSUME NEW D, IsFiniteSet(D), NEW u, \A x \in D : u[x] \in Nat, NEW y \in D
  PROVE  LET P == {x \in D : u[x] > 0}
         IN  /\ Cardinality(P) \in Nat
             /\ Cardinality({x \in D : u[x] > 0 \/ x = y})
                  = Cardinality(P) + (IF u[y] = 0 THEN 1 ELSE 0)
<1> DEFINE P == {x \in D : u[x] > 0}
           Q == {x \in D : u[x] > 0 \/ x = y}
<1>1. IsFiniteSet(P)
  <2>1. P \subseteq D
    OBVIOUS
  <2> QED
    BY <2>1, FS_Subset
<1>2. Cardinality(P) \in Nat
  BY <1>1, FS_CardinalityType
<1>3. CASE u[y] = 0
  <2>1. y \notin P /\ Q = P \cup {y}
    BY <1>3
  <2> HIDE DEF P, Q
  <2>2. Cardinality(Q) = Cardinality(P) + 1
    BY <1>1, <2>1, FS_AddElement
  <2> QED
    BY <1>2, <1>3, <2>2 DEF P, Q
<1>4. CASE u[y] # 0
  <2>1. u[y] > 0
    BY <1>4
  <2>2. Q = P
    BY <2>1
  <2> HIDE DEF P, Q
  <2>3. Cardinality(Q) = Cardinality(P) + 0
    BY <1>2, <2>2
  <2> QED
    BY <1>2, <1>4, <2>3 DEF P, Q
<1> QED
  BY <1>3, <1>4

\* What AcceptedIsHarmless says of one decision.
Harmless(h) ==
  /\ Bounded(h)
  /\ ~\E e \in External(h.book.facts, h.book.tokens) : e.symbol = h.intent.symbol
  /\ h.intent.side = "BUY" =>
       /\ h.book.cash * 100 - Notional(h.intent) * (100 + Policy.fee) >= Policy.minCash * 100
       /\ Cardinality({ x \in DOMAIN h.book.own : h.book.own[x] > 0 \/ x = h.intent.symbol })
            <= Policy.maxPositions
  /\ Turnover(h.ledger) + Notional(h.intent) <= Policy.maxTurnover
  /\ Cardinality(OfKind(h.ledger, "ORDER")) < Policy.maxOrders

\* AccountRiskSnapshot and SecurityRiskSnapshot accept no negative exposure.
LEMMA WellFormedFacts ==
  ASSUME NEW s, WellFormed(s)
  PROVE  /\ s.account.gross \in Nat /\ s.security.gross \in Nat /\ s.account.cash \in Nat
         /\ s.account.turnover \in Nat
  BY DEF WellFormed

\* An accepted decision on a snapshot of the runtime facts is harmless.
LEMMA DecisionHarmless ==
  ASSUME NEW h, IsIntent(h.intent), IsBook(h.book), h.intent.symbol \in DOMAIN h.book.own,
         IsFiniteSet(h.ledger.events),
         NEW n, Describes(h.snapshot, h.book, h.ledger, h.intent.symbol),
         WellFormed(h.snapshot), EvaluateRisk(h.intent, h.snapshot, Policy, n).accepted
  PROVE  Harmless(h)
<1> DEFINE i == h.intent
           s == h.snapshot
           N == Notional(i)
           facts == h.book.facts
           tokens == h.book.tokens
<1>1. /\ ~(s.account.turnover + N > Policy.maxTurnover)
      /\ ~(s.account.orders + 1 > Policy.maxOrders)
      /\ ~(ProjectedLong(i.side, s.account.gross, s.security.gross, N) > Policy.maxGross)
      /\ ~(ProjectedPositions(i, s.strategy) > Policy.maxPositions)
      /\ ~(i.symbol \in s.blocked)
      /\ ~(ProjectedLong(i.side, s.security.gross, s.security.gross, N) > Policy.maxSecurity)
      /\ i.side = "BUY" => ~((s.account.cash - Policy.minCash) * 100 < N * (100 + Policy.fee))
  BY AcceptedLimits
<1>2. /\ s.blocked = BlockedSymbols(facts, tokens)
      /\ s.account.cash = h.book.cash /\ s.account.turnover = Turnover(h.ledger)
      /\ s.account.orders = Cardinality(OfKind(h.ledger, "ORDER"))
      /\ s.account.gross = Gross(h.book.own) + Gross(h.book.other)
                             + PendingBuy(facts, tokens, DOMAIN h.book.own)
      /\ s.security.gross = h.book.own[i.symbol] + h.book.other[i.symbol]
                             + PendingBuy(facts, tokens, {i.symbol})
      /\ s.strategy.inSecurity = h.book.own[i.symbol]
      /\ s.strategy.positions = Cardinality(Invested(h.book))
  BY DEF Describes
<1>3. s.account.gross \in Nat /\ s.security.gross \in Nat /\ s.account.cash \in Nat
      /\ s.account.turnover \in Nat
  BY WellFormedFacts, Zenon
<1>4. /\ {Policy.maxTurnover, Policy.maxOrders, Policy.minCash, Policy.maxPositions} \subseteq Nat
      /\ Policy.fee \in Nat
  BY RuntimeAssumption DEF ValidPolicy
<1>5. N \in Nat
  BY DEF IsIntent, Notional
<1>6. ~(i.symbol \in BlockedSymbols(facts, tokens))
  BY <1>1, <1>2
<1>7. Bounded(h)
  <2>1. i.symbol \notin BlockedSymbols(facts, tokens)
    BY <1>6
  <2> QED
    BY <1>1, <1>2, <1>3, <2>1, ExposuresBounded
<1>8. ~\E e \in External(facts, tokens) : e.symbol = i.symbol
  BY <1>6 DEF BlockedSymbols
<1>9. ASSUME i.side = "BUY"
      PROVE  h.book.cash * 100 - N * (100 + Policy.fee) >= Policy.minCash * 100
  <2> DEFINE K == N * (100 + Policy.fee)
  <2>1. K \in Nat
    BY <1>4, <1>5
  <2>2. ~((h.book.cash - Policy.minCash) * 100 < K) /\ h.book.cash \in Nat
    BY <1>1, <1>2, <1>3, <1>9
  <2> HIDE DEF K
  <2>3. h.book.cash * 100 - K >= Policy.minCash * 100
    BY <1>4, <2>1, <2>2
  <2> QED
    BY <2>3 DEF K
<1>10. ASSUME i.side = "BUY"
       PROVE  Cardinality({ x \in DOMAIN h.book.own : h.book.own[x] > 0 \/ x = i.symbol })
                <= Policy.maxPositions
  <2> DEFINE D == DOMAIN h.book.own
             u == h.book.own
             y == i.symbol
             P == Cardinality(Invested(h.book))
             Q == Cardinality({x \in D : u[x] > 0 \/ x = y})
  <2>1. IsFiniteSet(D) /\ (\A x \in D : u[x] \in Nat) /\ y \in D
    BY DEF IsBook
  <2>2. ~(P + (IF u[y] = 0 THEN 1 ELSE 0) > Policy.maxPositions)
    <3>1. ProjectedPositions(i, s.strategy)
            = s.strategy.positions + (IF s.strategy.inSecurity = 0 THEN 1 ELSE 0)
      BY <1>9, <1>10 DEF ProjectedPositions
    <3> QED
      BY <1>1, <1>2, <3>1
  <2>0. Invested(h.book) = {x \in D : u[x] > 0}
    BY DEF Invested
  <2> HIDE DEF D, u, y
  <2>3. P \in Nat /\ Q = P + (IF u[y] = 0 THEN 1 ELSE 0)
    BY <2>0, <2>1, PositionsAfter
  <2> HIDE DEF P, Q
  <2>4. Q <= Policy.maxPositions
    BY <1>4, <2>2, <2>3
  <2> QED
    BY <2>4 DEF Q, D, u, y
<1>11. Turnover(h.ledger) + N <= Policy.maxTurnover
  <2>1. Turnover(h.ledger) \in Nat /\ ~(Turnover(h.ledger) + N > Policy.maxTurnover)
    BY <1>1, <1>2, <1>3
  <2> HIDE DEF N
  <2> QED
    BY <1>4, <1>5, <2>1
<1>12. Cardinality(OfKind(h.ledger, "ORDER")) < Policy.maxOrders
  <2> DEFINE O == OfKind(h.ledger, "ORDER")
  <2>1. IsFiniteSet(O)
    BY FS_Subset DEF OfKind
  <2> HIDE DEF O
  <2>2. Cardinality(O) \in Nat
    BY <2>1, FS_CardinalityType
  <2>3. ~(Cardinality(O) + 1 > Policy.maxOrders)
    BY <1>1, <1>2 DEF O
  <2>4. Cardinality(O) < Policy.maxOrders
    BY <1>4, <2>2, <2>3
  <2> QED
    BY <2>4 DEF O
<1> QED
  BY <1>7, <1>8, <1>9, <1>10, <1>11, <1>12 DEF Harmless

\* The inputs are those of the plan, and the ledger is finite.
Booked ==
  /\ IsPlan(plan) /\ DOMAIN ledger = {"events", "pnl"} /\ IsFiniteSet(ledger.events)
  /\ \A h \in held : h.accepted => Harmless(h)

\* An accepted order is harmless however it ends: whatever part of it is filled and whichever
\* external buys are, no cap of the policy is broken that would hold without it; cash keeps its
\* reserve, the day its limits (engine.py:49-414, risk_runtime.py:74-172).
THEOREM AcceptedOrders == RuntimeSpec => []AcceptedIsHarmless
<1>1. RuntimeInit => Booked
  <2> SUFFICES ASSUME RuntimeInit PROVE Booked
    OBVIOUS
  <2>1. IsPlan(plan)
    BY RuntimeAssumption DEF RuntimeInit
  <2>2. held = {} /\ ledger = [events |-> {}, pnl |-> {}]
    BY DEF RuntimeInit, NoFacts
  <2>3. IsFiniteSet(ledger.events) /\ DOMAIN ledger = {"events", "pnl"}
    BY <2>2, FS_EmptySet
  <2> QED
    BY <2>1, <2>2, <2>3 DEF Booked
<1>2. Booked /\ [RuntimeNext]_vars => Booked'
  <2> SUFFICES ASSUME Booked, [RuntimeNext]_vars PROVE Booked'
    OBVIOUS
  <2>1. ASSUME UNCHANGED <<plan, ledger>>, held' = held \/ held' = {} PROVE Booked'
    BY <2>1 DEF Booked, Harmless, Bounded, After
  <2>2. CASE HealthStep
    <3>1. UNCHANGED <<plan, ledger, held>>
      BY <2>2 DEF HealthStep, Report, ObserveQmt, IngestQuote, RefreshMarketData, IngestHeartbeat,
                  RefreshStrategies, Observe
    <3> QED
      BY <2>1, <3>1
  <2>3. CASE ControlStep
    <3>1. UNCHANGED <<plan, ledger, held>>
      BY <2>3 DEF ControlStep, RequestMode, EmergencyHalt, SupervisorTick, Shutdown
    <3> QED
      BY <2>1, <3>1
  <2>4. ASSUME NEW f, Account(f) PROVE Booked'
    <3>1. UNCHANGED <<plan, held>>
      BY <2>4 DEF Account, memory
    <3>2. \/ ledger' = ledger
          \/ \E e : ledger' = [ledger EXCEPT !.pnl = @ \cup {e}]
          \/ \E e : ledger' = [ledger EXCEPT !.events = @ \cup {e}]
      BY <2>4 DEF Account, RecordEvent, RecordPnl
    <3>3. DOMAIN ledger' = DOMAIN ledger /\ (ledger'.events = ledger.events
                                               \/ \E e : ledger'.events = ledger.events \cup {e})
      BY <3>2 DEF Booked
    <3>4. IsFiniteSet(ledger'.events)
      BY <3>3, FS_AddElement DEF Booked
    <3> QED
      BY <3>1, <3>3, <3>4 DEF Booked, Harmless, Bounded, After
  <2>5. ASSUME NEW i \in plan.intents, NEW book \in plan.books, NEW lag, EvaluateIntent(i, book, lag)
        PROVE  Booked'
    <3> DEFINE known == [book EXCEPT !.at = now - lag]
    <3>1. UNCHANGED <<plan, ledger>>
      BY <2>5 DEF EvaluateIntent
    <3>2. PICK b \in beat, q \in quote :
            LET s == Snapshot(mode, HealthFlags, MarketOpen, ledger, b, q, known, i.symbol, Policy)
            IN  /\ WellFormed(s)
                /\ held' = {[intent |-> i, book |-> known, snapshot |-> s, ledger |-> ledger,
                             accepted |-> EvaluateRisk(i, s, Policy, now).accepted]}
      BY <2>5 DEF EvaluateIntent
    <3> DEFINE s == Snapshot(mode, HealthFlags, MarketOpen, ledger, b, q, known, i.symbol, Policy)
    <3>3. IsIntent(i) /\ IsBook(book) /\ i.symbol \in DOMAIN book.own
      BY DEF Booked, IsPlan
    <3>4. known.own = book.own /\ IsBook(known)
      BY <3>3 DEF IsBook
    <3> HIDE DEF known
    <3>5. WellFormed(s)
      BY <3>2
    <3> SUFFICES ASSUME NEW h \in held', h.accepted PROVE Harmless(h)'
      BY <3>1 DEF Booked
    <3> DEFINE ok == EvaluateRisk(i, s, Policy, now).accepted
    <3>6. h = [intent |-> i, book |-> known, snapshot |-> s, ledger |-> ledger, accepted |-> ok]
      BY <3>2, Zenon
    <3> HIDE DEF s, ok
    <3>7. h.intent = i /\ h.book = known /\ h.snapshot = s /\ h.ledger = ledger
      BY <3>6
    <3>8. ok
      BY <3>6, Zenon
    <3>9. EvaluateRisk(h.intent, h.snapshot, Policy, now).accepted
      BY <3>7, <3>8, Zenon DEF ok
    <3>10. /\ IsIntent(h.intent) /\ IsBook(h.book) /\ h.intent.symbol \in DOMAIN h.book.own
          /\ IsFiniteSet(h.ledger.events) /\ WellFormed(h.snapshot)
          /\ Describes(h.snapshot, h.book, h.ledger, h.intent.symbol)
      <4>1. Describes(s, known, ledger, i.symbol)
        BY SnapshotExposures DEF s
      <4> QED
        BY <3>3, <3>4, <3>5, <3>7, <4>1 DEF Booked
    <3>11. Harmless(h)
      BY <3>9, <3>10, DecisionHarmless
    <3> QED
      BY <3>11
  <2>6. CASE SubmitIntent
    <3>1. UNCHANGED <<plan, ledger, held>>
      BY <2>6 DEF SubmitIntent, memory
    <3> QED
      BY <2>1, <3>1
  <2>7. CASE DecisionStep
    BY <2>4, <2>5, <2>6, <2>7 DEF DecisionStep
  <2>8. CASE Die \/ \E s \in plan.sessions : Start(s)
    <3>1. UNCHANGED <<plan, ledger>> /\ held' = {}
      BY <2>8 DEF Die, Start, NoMemory
    <3> QED
      BY <2>1, <3>1
  <2>9. CASE Wait \/ SetBack \/ UNCHANGED vars
    <3>1. UNCHANGED <<plan, ledger, held>>
      BY <2>9 DEF Wait, SetBack, vars, memory
    <3> QED
      BY <2>1, <3>1
  <2> QED
    BY <2>2, <2>3, <2>7, <2>8, <2>9 DEF RuntimeNext
<1>3. Booked => AcceptedIsHarmless
  BY DEF Booked, AcceptedIsHarmless, Harmless, Bounded
<1> QED
  BY <1>1, <1>2, <1>3, PTL DEF RuntimeSpec

-----------------------------------------------------------------------------
(* Lists of alerts.                                                        *)

\* A finite set of numbers has a largest and a smallest one.
LEMMA Extremes ==
  ASSUME NEW S \in SUBSET Nat, IsFiniteSet(S), S # {}
  PROVE  Max(S) \in S /\ Min(S) \in S
<1> DEFINE P == {T \in SUBSET S : T # {} => /\ \E x \in T : \A y \in T : x >= y
                                            /\ \E x \in T : \A y \in T : x =< y}
<1>1. ASSUME NEW T \in SUBSET S, \A x \in T : T \ {x} \in P PROVE T \in P
  <2> SUFFICES ASSUME NEW a \in T
               PROVE  /\ \E x \in T : \A y \in T : x >= y
                      /\ \E x \in T : \A y \in T : x =< y
    OBVIOUS
  <2> DEFINE R == T \ {a}
  <2>1. CASE R = {}
    <3>1. \A y \in T : y = a
      BY <2>1
    <3>2. a \in Nat
      OBVIOUS
    <3> QED
      BY <3>1, <3>2
  <2>2. CASE R # {}
    <3>1. PICK b \in R : \A y \in R : b >= y
      BY <1>1, <2>2
    <3>2. PICK c \in R : \A y \in R : c =< y
      BY <1>1, <2>2
    <3>3. a \in Nat /\ b \in Nat /\ c \in Nat /\ (\A y \in T : y \in Nat /\ (y = a \/ y \in R)) /\ b \in T /\ c \in T
      OBVIOUS
    <3> HIDE DEF R
    <3>4. \E x \in T : \A y \in T : x >= y
      <4>1. CASE a >= b
        BY <3>1, <3>3, <4>1
      <4>2. CASE b >= a
        BY <3>1, <3>3, <4>2
      <4> QED
        BY <3>3, <4>1, <4>2
    <3>5. \E x \in T : \A y \in T : x =< y
      <4>1. CASE a =< c
        BY <3>2, <3>3, <4>1
      <4>2. CASE c =< a
        BY <3>2, <3>3, <4>2
      <4> QED
        BY <3>3, <4>1, <4>2
    <3> QED
      BY <3>4, <3>5
  <2> QED
    BY <2>1, <2>2
<1> HIDE DEF P
<1>2. SUBSET S \subseteq P
  BY <1>1, Subsets
<1>3. /\ \E x \in S : \A y \in S : x >= y
      /\ \E x \in S : \A y \in S : x =< y
  BY <1>2 DEF P
<1> QED
  BY <1>3 DEF Max, Min

\* An alert that is not shown yet is appended.
LEMMA AppendFacts ==
  ASSUME NEW K, NEW s \in Seq(K), IsInjective(s), NEW k \in K, k \notin Range(s)
  PROVE  /\ Append(s, k) \in Seq(K) /\ IsInjective(Append(s, k))
         /\ Range(Append(s, k)) = Range(s) \cup {k}
<1> DEFINE a == Append(s, k)
           n == Len(s)
<1>1. n \in Nat /\ DOMAIN s = 1..n /\ DOMAIN a = 1..(n + 1) /\ a \in Seq(K)
  OBVIOUS
<1>2. (\A x \in 1..n : a[x] = s[x]) /\ a[n + 1] = k
  OBVIOUS
<1> HIDE DEF a, n
<1>3. \A x \in 1..n : s[x] # k
  BY <1>1 DEF Range
<1>4. \A x \in 1..(n + 1) : x \in 1..n \/ x = n + 1
  BY <1>1
<1>5. 1..n \subseteq 1..(n + 1) /\ n + 1 \in 1..(n + 1)
  BY <1>1
<1>6. \A x, y \in 1..n : s[x] = s[y] => x = y
  BY <1>1 DEF IsInjective
<1>7. IsInjective(a)
  <2> SUFFICES ASSUME NEW x \in 1..(n + 1), NEW y \in 1..(n + 1), a[x] = a[y] PROVE x = y
    BY <1>1 DEF IsInjective
  <2> QED
    BY <1>2, <1>3, <1>4, <1>6
<1>8. Range(a) = Range(s) \cup {k}
  BY <1>1, <1>2, <1>4, <1>5 DEF Range
<1> QED
  BY <1>1, <1>7, <1>8 DEF a

\* dict.pop: the alert goes, the others keep their order.
LEMMA RemoveFacts ==
  ASSUME NEW K, NEW s \in Seq(K), IsInjective(s), NEW k
  PROVE  /\ RemoveFirst(s, k) \in Seq(K) /\ IsInjective(RemoveFirst(s, k))
         /\ Range(RemoveFirst(s, k)) = Range(s) \ {k}
<1> DEFINE n == Len(s)
<1>1. n \in Nat /\ DOMAIN s = 1..n /\ \A x \in 1..n : s[x] \in K
  OBVIOUS
<1>2. \A x, y \in 1..n : s[x] = s[y] => x = y
  BY <1>1 DEF IsInjective
<1>3. CASE \A x \in 1..n : s[x] # k
  <2>1. RemoveFirst(s, k) = s
    BY <1>3 DEF RemoveFirst
  <2>2. k \notin Range(s)
    BY <1>1, <1>3 DEF Range
  <2> QED
    BY <2>1, <2>2
<1>4. CASE \E x \in 1..n : s[x] = k
  <2> DEFINE I == {x \in 1..n : s[x] = k}
             i == Min(I)
  <2>1. IsFiniteSet(I) /\ I # {} /\ I \in SUBSET Nat
    <3>1. IsFiniteSet(1..n)
      BY <1>1, FS_Interval
    <3>2. I \in SUBSET (1..n) /\ I \in SUBSET Nat /\ I # {}
      BY <1>1, <1>4
    <3> HIDE DEF I
    <3> QED
      BY <3>1, <3>2, FS_Subset
  <2>2. i \in I
    BY <2>1, Extremes
  <2>3. RemoveFirst(s, k) = SubSeq(s, 1, i - 1) \o SubSeq(s, i + 1, n)
    BY <1>4, <2>1 DEF RemoveFirst, RemoveAt, SelectInSeq
  <2> HIDE DEF i
  <2>4. i \in 1..n /\ s[i] = k
    BY <2>2
  <2> DEFINE a == SubSeq(s, 1, i - 1)
             b == SubSeq(s, i + 1, n)
             r == a \o b
  <2>5. /\ a \in Seq(K) /\ Len(a) = i - 1 /\ \A x \in 1..(i - 1) : a[x] = s[x]
        /\ b \in Seq(K) /\ Len(b) = n - i /\ \A x \in 1..(n - i) : b[x] = s[i + x]
    <3>1. n \in Nat /\ i \in Nat /\ 1 <= i /\ i <= n /\ s \in Seq(K) /\ Len(s) = n
      BY <1>1, <2>4
    <3> HIDE DEF n
    <3>2. a \in Seq(K) /\ Len(a) = i - 1
      BY <3>1
    <3>3. \A x \in 1..(i - 1) : a[x] = s[x]
      BY <3>1
    <3>4. b \in Seq(K) /\ Len(b) = n - i
      BY <3>1
    <3>5. ASSUME NEW x \in 1..(n - i) PROVE b[x] = s[i + x]
      <4>1. b[x] = s[(i + 1) + x - 1] /\ (i + 1) + x - 1 = i + x
        BY <3>1
      <4> QED
        BY <4>1
    <3> QED
      BY <3>2, <3>3, <3>4, <3>5
  <2> HIDE DEF a, b
  <2>seqs. a \in Seq(K) /\ b \in Seq(K)
    BY <2>5
  <2>6. /\ r \in Seq(K) /\ Len(r) = Len(a) + Len(b)
        /\ \A x \in 1..Len(a) : r[x] = a[x]
        /\ \A x \in 1..Len(b) : r[Len(a) + x] = b[x]
    BY <2>seqs, Positions
  <2> HIDE DEF r, n
  <2>7. Len(r) = n - 1 /\ DOMAIN r = 1..(n - 1)
    BY <1>1, <2>4, <2>5, <2>6
  <2>8. \A x \in 1..(n - 1) : r[x] = IF x < i THEN s[x] ELSE s[x + 1]
    <3> SUFFICES ASSUME NEW x \in 1..(n - 1) PROVE r[x] = IF x < i THEN s[x] ELSE s[x + 1]
      OBVIOUS
    <3>1. CASE x < i
      <4>1. x \in 1..(i - 1)
        BY <1>1, <2>4, <3>1
      <4> QED
        BY <2>5, <2>6, <3>1, <4>1
    <3>2. CASE ~(x < i)
      <4> DEFINE y == x - (i - 1)
      <4>1. y \in 1..(n - i) /\ Len(a) + y = x /\ i + y = x + 1
        BY <1>1, <2>4, <2>5, <3>2
      <4> HIDE DEF y
      <4>2. r[x] = b[y]
        BY <2>5, <2>6, <4>1
      <4>3. b[y] = s[x + 1]
        BY <2>5, <4>1
      <4> QED
        BY <3>2, <4>2, <4>3
    <3> QED
      BY <3>1, <3>2
  <2> DEFINE pos(x) == IF x < i THEN x ELSE x + 1
  <2>9. \A x \in 1..(n - 1) : pos(x) \in 1..n /\ pos(x) # i /\ r[x] = s[pos(x)]
    BY <1>1, <2>4, <2>8
  <2>10. \A x, y \in 1..(n - 1) : pos(x) = pos(y) => x = y
    BY <1>1, <2>4
  <2>11. \A z \in 1..n : z # i => \E x \in 1..(n - 1) : pos(x) = z
    <3> SUFFICES ASSUME NEW z \in 1..n, z # i PROVE \E x \in 1..(n - 1) : pos(x) = z
      OBVIOUS
    <3>1. CASE z < i
      <4>1. z \in 1..(n - 1) /\ pos(z) = z
        BY <1>1, <2>4, <3>1
      <4> QED
        BY <4>1
    <3>2. CASE ~(z < i)
      <4>1. z - 1 \in 1..(n - 1) /\ pos(z - 1) = z
        BY <1>1, <2>4, <3>2
      <4> QED
        BY <4>1
    <3> QED
      BY <3>1, <3>2
  <2> HIDE DEF pos
  <2>12. IsInjective(r)
    <3> SUFFICES ASSUME NEW x \in 1..(n - 1), NEW y \in 1..(n - 1), r[x] = r[y] PROVE x = y
      BY <2>7 DEF IsInjective
    <3>1. pos(x) = pos(y)
      BY <1>2, <2>9
    <3> QED
      BY <2>10, <3>1
  <2>13. Range(r) = Range(s) \ {k}
    <3>1. ASSUME NEW v \in Range(r) PROVE v \in Range(s) /\ v # k
      <4>1. PICK x \in 1..(n - 1) : v = r[x]
        BY <2>7 DEF Range
      <4>2. v = s[pos(x)] /\ pos(x) \in 1..n /\ pos(x) # i
        BY <2>9, <4>1
      <4> QED
        BY <1>1, <1>2, <2>4, <4>2 DEF Range
    <3>2. ASSUME NEW v \in Range(s), v # k PROVE v \in Range(r)
      <4>1. PICK z \in 1..n : v = s[z]
        BY <1>1 DEF Range
      <4>2. z # i
        BY <2>4, <3>2, <4>1
      <4>3. PICK x \in 1..(n - 1) : pos(x) = z
        BY <2>11, <4>2
      <4> QED
        BY <2>7, <2>9, <4>1, <4>3 DEF Range
    <3> QED
      BY <3>1, <3>2
  <2> QED
    BY <2>3, <2>6, <2>12, <2>13 DEF r, a, b, n
<1> QED
  BY <1>3, <1>4

\* The alerts restored at a start are the active rows of the journal.
LEMMA Restored ==
  ASSUME NEW S, IsFiniteSet(S), NEW K, S \subseteq K
  PROVE  SetToSeq(S) \in Seq(K) /\ IsInjective(SetToSeq(S)) /\ Range(SetToSeq(S)) = S
<1> DEFINE n == Cardinality(S)
           f == SetToSeq(S)
<1>1. n \in Nat /\ ExistsBijection(1..n, S)
  BY FS_CardinalityType
<1>2. \E g \in [1..n -> S] : IsInjective(g)
  BY <1>1 DEF ExistsBijection, Bijection, Injection
<1>3. f \in [1..n -> S] /\ IsInjective(f)
  BY <1>2 DEF SetToSeq
<1> HIDE DEF f
<1>4. f \in Injection(1..n, S)
  BY <1>3 DEF Injection
<1>5. Cardinality(1..n) = n
  BY <1>1, FS_Interval
<1>6. f \in Surjection(1..n, S)
  BY <1>4, <1>5, FS_Injection
<1>7. Range(f) = S
  BY <1>3, <1>6 DEF Surjection, Range
<1>8. f \in Seq(S)
  BY <1>1, <1>3
<1>9. f \in Seq(K)
  BY <1>8, Wider
<1> QED
  BY <1>3, <1>7, <1>9 DEF f

-----------------------------------------------------------------------------
(* Noting one fact after the other.                                        *)

NoteOne(t, k, facts) == IF k \in DOMAIN facts THEN Note(t, facts[k]) ELSE t

\* The function by which FoldLeft notes the facts about the keys.
Notes(g, t, keys, facts) ==
  g = [s \in SUBSET (DOMAIN keys) |->
         IF s = {} THEN t ELSE NoteOne(g[s \ {Max(s)}], keys[Max(s)], facts)]

\* There is such a function ...
LEMMA NotesExists ==
  ASSUME NEW K, NEW keys \in Seq(K), NEW t, NEW facts
  PROVE  \E g : Notes(g, t, keys, facts)
<1> DEFINE S == DOMAIN keys
           Next1(g, s) == IF s = {} THEN t ELSE NoteOne(g[s \ {Max(s)}], keys[Max(s)], facts)
           Small(n) == {s \in SUBSET S : Cardinality(s) <= n}
           Part(g, n) == /\ g = [s \in Small(n) |-> g[s]]
                         /\ \A s \in Small(n) : g[s] = Next1(g, s)
           Q == {n \in Nat : \E g : Part(g, n)}
<1>0. IsFiniteSet(S) /\ S \subseteq Nat
  <2>1. S = 1..Len(keys) /\ Len(keys) \in Nat
    OBVIOUS
  <2> QED
    BY <2>1, FS_Interval
<1>1. \A T \in SUBSET S : IsFiniteSet(T) /\ Cardinality(T) \in Nat
  BY <1>0, FS_Subset, FS_CardinalityType
<1> HIDE DEF S
<1>2. ASSUME NEW s \in SUBSET S, s # {}
      PROVE  Max(s) \in s /\ Cardinality(s \ {Max(s)}) = Cardinality(s) - 1
  <2>1. s \in SUBSET Nat /\ IsFiniteSet(s)
    BY <1>0, <1>1
  <2>2. Max(s) \in s
    BY <1>2, <2>1, Extremes
  <2> QED
    BY <2>1, <2>2, FS_RemoveElement
<1>3. 0 \in Q
  <2> DEFINE g == [s \in Small(0) |-> t]
  <2>1. \A s \in Small(0) : s = {}
    BY <1>1, FS_EmptySet
  <2>2. Part(g, 0)
    BY <2>1
  <2> HIDE DEF g, Part
  <2> QED
    BY <2>2
<1>4. ASSUME NEW n \in Nat, n \in Q PROVE n + 1 \in Q
  <2>1. PICK g : Part(g, n)
    BY <1>4
  <2> DEFINE k == [s \in Small(n + 1) |-> Next1(g, s)]
  <2>2. ASSUME NEW s \in Small(n + 1), s # {} PROVE s \ {Max(s)} \in Small(n)
    <3>1. s \in SUBSET S /\ Cardinality(s) <= n + 1
      OBVIOUS
    <3>2. Cardinality(s \ {Max(s)}) = Cardinality(s) - 1 /\ Cardinality(s) \in Nat
      BY <1>1, <1>2, <2>2, <3>1
    <3>3. Cardinality(s \ {Max(s)}) <= n
      BY <3>1, <3>2
    <3>4. s \ {Max(s)} \in SUBSET S
      BY <3>1
    <3> QED
      BY <3>3, <3>4
  <2>3. ASSUME NEW s \in Small(n) PROVE s \in Small(n + 1) /\ g[s] = k[s]
    <3>1. s \in Small(n + 1)
      BY <1>1
    <3>2. g[s] = Next1(g, s)
      BY <2>1
    <3> HIDE DEF Next1, Small
    <3> QED
      BY <3>1, <3>2
  <2>4. Part(k, n + 1)
    <3>1. ASSUME NEW s \in Small(n + 1) PROVE k[s] = Next1(k, s)
      <4> HIDE DEF Small, Part
      <4>1. k[s] = Next1(g, s)
        OBVIOUS
      <4> HIDE DEF k
      <4>2. CASE s = {}
        BY <4>1, <4>2
      <4>3. CASE s # {}
        <5>1. g[s \ {Max(s)}] = k[s \ {Max(s)}]
          BY <2>2, <2>3, <4>3
        <5> QED
          BY <4>1, <4>3, <5>1
      <4> QED
        BY <4>2, <4>3
    <3>2. k = [s \in Small(n + 1) |-> k[s]]
      OBVIOUS
    <3> HIDE DEF k, Next1, Small
    <3> QED
      BY <3>1, <3>2
  <2> HIDE DEF k, Part
  <2> QED
    BY <2>4
<1> HIDE DEF Q
<1>5. Cardinality(S) \in Q
  <2>1. Nat \subseteq Q
    BY <1>3, <1>4, Counting
  <2> QED
    BY <1>1, <2>1
<1>6. PICK g : Part(g, Cardinality(S))
  BY <1>5 DEF Q
<1>7. Small(Cardinality(S)) = SUBSET S
  BY <1>0, FS_Subset
<1> HIDE DEF Small
<1>8. g = [s \in SUBSET S |-> IF s = {} THEN t ELSE NoteOne(g[s \ {Max(s)}], keys[Max(s)], facts)]
  BY <1>6, <1>7
<1> QED
  BY <1>8 DEF Notes, S

\* ... and NoteEach is its last value.
LEMMA NoteEachFolds ==
  ASSUME NEW K, NEW keys \in Seq(K), NEW t, NEW facts
  PROVE  \E g : Notes(g, t, keys, facts) /\ NoteEach(t, keys, facts) = g[DOMAIN keys]
<1>1. \E g : Notes(g, t, keys, facts)
  BY NotesExists
<1>2. Notes(CHOOSE g : Notes(g, t, keys, facts), t, keys, facts)
  BY <1>1, Zenon
<1>3. NoteEach(t, keys, facts) = (CHOOSE g : Notes(g, t, keys, facts))[DOMAIN keys]
  BY DEF NoteEach, FoldLeft, MapThenFoldSet, Notes, NoteOne
<1> QED
  BY <1>2, <1>3

-----------------------------------------------------------------------------
(* What the journal and the telemetry keep.                                *)

ActiveKeys(j) == {k \in DOMAIN j.rows : j.rows[k].status = "ACTIVE"}

\* The row of k shows event e, and no ACTIVE event of k is newer.
Current(j, k, e) ==
  /\ e \in j.events /\ IsStateOf(j.rows[k], k, e)
  /\ \A f \in j.events : f.key = k /\ f.type = "ACTIVE" => f.at <= e.at

\* No two facts about one key at one instant, a row for every key that was ever active, and
\* every row current.
Journal(j) ==
  /\ DOMAIN j = {"events", "rows"} /\ IsFiniteSet(DOMAIN j.rows)
  /\ \A e \in j.events : e.at \in Nat
  /\ \A e, f \in j.events : e.key = f.key /\ e.at = f.at => e = f
  /\ \A e \in j.events : e.type = "ACTIVE" => e.key \in DOMAIN j.rows
  /\ \A k \in DOMAIN j.rows : {"status", "last"} \subseteq DOMAIN j.rows[k] /\ \E e : Current(j, k, e)

\* Journal j goes on from journal i.
Advances(i, j) ==
  /\ i.events \subseteq j.events
  /\ \A k \in DOMAIN i.rows : k \in DOMAIN j.rows /\ Forward(i, j, k)

\* The time of a row is the time of an event.
LEMMA RowTimes ==
  ASSUME NEW j, Journal(j)
  PROVE  \A k \in DOMAIN j.rows : j.rows[k].last \in Nat
<1> TAKE k \in DOMAIN j.rows
<1>1. PICK e : Current(j, k, e)
  BY DEF Journal
<1>2. e \in j.events /\ e.at = j.rows[k].last
  BY <1>1 DEF Current, IsStateOf
<1> QED
  BY <1>2 DEF Journal

\* A journal goes on from itself, ...
LEMMA AdvancesSelf ==
  ASSUME NEW j, Journal(j)
  PROVE  Advances(j, j)
  BY RowTimes DEF Advances, Forward

\* ... and step by step.
LEMMA AdvancesOn ==
  ASSUME NEW i, NEW j, NEW r, Journal(i), Journal(j), Journal(r), Advances(i, j), Advances(j, r)
  PROVE  Advances(i, r)
<1>1. i.events \subseteq j.events /\ j.events \subseteq r.events
  BY DEF Advances
<1>2. ASSUME NEW k \in DOMAIN i.rows PROVE k \in DOMAIN r.rows /\ Forward(i, r, k)
  <2>1. k \in DOMAIN j.rows /\ k \in DOMAIN r.rows /\ Forward(i, j, k) /\ Forward(j, r, k)
    BY DEF Advances
  <2> DEFINE a == i.rows[k].last
             b == j.rows[k].last
             c == r.rows[k].last
  <2>2. a \in Nat /\ b \in Nat /\ c \in Nat
    BY <2>1, RowTimes
  <2>3. a <= b /\ b <= c
    BY <2>1 DEF Forward
  <2>4. ASSUME NEW e \in r.events \ i.events, e.key = k PROVE e.at <= c
    <3>1. CASE e \in j.events
      <4>1. e.at <= b /\ e.at \in Nat
        BY <2>1, <2>4, <3>1 DEF Forward, Journal
      <4> HIDE DEF b, c
      <4> QED
        BY <2>2, <2>3, <4>1
    <3>2. CASE e \notin j.events
      BY <2>1, <2>4, <3>2 DEF Forward
    <3> QED
      BY <3>1, <3>2
  <2>5. ASSUME r.rows[k] # i.rows[k]
        PROVE  \E e \in r.events \ i.events : e.key = k /\ IsStateOf(r.rows[k], k, e)
    <3>1. CASE r.rows[k] # j.rows[k]
      <4>1. PICK e \in r.events \ j.events : e.key = k /\ IsStateOf(r.rows[k], k, e)
        BY <2>1, <3>1 DEF Forward
      <4> QED
        BY <1>1, <4>1
    <3>2. CASE r.rows[k] = j.rows[k]
      <4>1. PICK e \in j.events \ i.events : e.key = k /\ IsStateOf(j.rows[k], k, e)
        BY <2>1, <2>5, <3>2 DEF Forward
      <4> QED
        BY <1>1, <3>2, <4>1
    <3> QED
      BY <3>1, <3>2
  <2>6. a <= c
    <3> HIDE DEF a, b, c
    <3> QED
      BY <2>2, <2>3
  <2> QED
    BY <2>1, <2>4, <2>5, <2>6 DEF Forward
<1> QED
  BY <1>1, <1>2 DEF Advances

\* What telemetry shows is what the journal has, which went on from journal i, and all of it
\* is about keys of K.
Shows(t, i, K) ==
  /\ DOMAIN t = {"tele", "journal", "raised"} /\ "alerts" \in DOMAIN t.tele
  /\ Journal(t.journal) /\ DOMAIN t.journal.rows \subseteq K
  /\ Journal(i) /\ Advances(i, t.journal)
  /\ t.tele.alerts \in Seq(K) /\ IsInjective(t.tele.alerts)
  /\ Range(t.tele.alerts) = ActiveKeys(t.journal)

IsFact(f, n, K) == f.key \in K /\ f.at = n /\ f.type \in {"ACTIVE", "RESOLVED"}

\* record_active and record_resolved: the fact becomes the row unless it is known, late, or
\* resolves what was never active; the other rows stay (alert_store.py:116-251).
LEMMA JournaledKeeps ==
  ASSUME NEW j, NEW n \in Nat, NEW K, NEW f, Journal(j), IsFact(f, n, K), ~Contradicts(j, f)
  PROVE  LET r == Journaled(j, f)
         IN  /\ Journal(r) /\ Advances(j, r) /\ DOMAIN r.rows \subseteq DOMAIN j.rows \cup {f.key}
             /\ \A k : k # f.key => /\ k \in DOMAIN r.rows <=> k \in DOMAIN j.rows
                                    /\ k \in DOMAIN j.rows => r.rows[k] = j.rows[k]
<1> DEFINE r == Journaled(j, f)
           known == f.key \in DOMAIN j.rows
           row   == j.rows[f.key]
           late  == known /\ f.at < row.last
           fresh == ~known \/ row.status = "RESOLVED"
           new   == IF f.type = "RESOLVED"
                    THEN [row EXCEPT !.status = "RESOLVED", !.last = f.at]
                    ELSE [status |-> "ACTIVE", detail |-> f.detail, last |-> f.at,
                          first |-> IF fresh THEN f.at ELSE row.first,
                          count |-> IF fresh THEN 1 ELSE row.count + 1]
           keep  == f \in j.events \/ late \/ (f.type = "RESOLVED" /\ ~known)
           D     == DOMAIN j.rows \cup {f.key}
<1>1. r.events = j.events \cup {f} /\ DOMAIN r = {"events", "rows"}
  BY DEF Journaled
<1>2. r.rows = IF keep THEN j.rows ELSE [k \in D |-> IF k = f.key THEN new ELSE j.rows[k]]
  BY DEF Journaled
<1>3. /\ \A e \in j.events : e.at \in Nat
      /\ \A e, g \in j.events : e.key = g.key /\ e.at = g.at => e = g
      /\ \A e \in j.events : e.type = "ACTIVE" => e.key \in DOMAIN j.rows
      /\ \A k \in DOMAIN j.rows : {"status", "last"} \subseteq DOMAIN j.rows[k] /\ \E e : Current(j, k, e)
      /\ IsFiniteSet(DOMAIN j.rows)
  BY DEF Journal
<1>4. f.at \in Nat /\ f.type \in {"ACTIVE", "RESOLVED"}
  BY DEF IsFact
<1>5. \A e \in j.events : e.key = f.key /\ e.at = f.at => e = f
  BY DEF Contradicts
<1>6. known => row.last \in Nat
  BY RowTimes
<1> HIDE DEF r
<1>7. /\ \A e \in r.events : e.at \in Nat
      /\ \A e, g \in r.events : e.key = g.key /\ e.at = g.at => e = g
  BY <1>1, <1>3, <1>4, <1>5
\* A row that stays is current, and went on, unless the fact is a newer one about it.
<1>8. ASSUME NEW k \in DOMAIN j.rows, k \in DOMAIN r.rows, r.rows[k] = j.rows[k],
             k # f.key \/ f \in j.events \/ late
      PROVE  (\E e : Current(r, k, e)) /\ Forward(j, r, k)
  <2>1. PICK e : Current(j, k, e)
    BY <1>3
  <2>2. e \in j.events /\ IsStateOf(j.rows[k], k, e) /\ e.at = j.rows[k].last /\ e.at \in Nat
    BY <1>3, <2>1 DEF Current, IsStateOf
  <2>3. \A g \in r.events \ j.events : g.key = k => g = f /\ g.at <= e.at
    <3> SUFFICES ASSUME NEW g \in r.events \ j.events, g.key = k PROVE g = f /\ g.at <= e.at
      OBVIOUS
    <3>1. g = f /\ f \notin j.events
      BY <1>1
    <3>2. late /\ k = f.key
      BY <1>8, <3>1
    <3>3. f.at < e.at
      BY <2>2, <3>2
    <3> QED
      BY <1>4, <2>2, <3>1, <3>3
  <2>4. \A g \in r.events : g.key = k /\ g.type = "ACTIVE" => g.at <= e.at
    BY <2>1, <2>3 DEF Current
  <2>5. Current(r, k, e)
    BY <1>1, <1>8, <2>2, <2>4 DEF Current
  <2>6. \A g \in r.events \ j.events : g.key = k => g.at <= r.rows[k].last
    BY <1>8, <2>2, <2>3
  <2>7. j.rows[k].last <= r.rows[k].last
    BY <1>8, <2>2
  <2>8. Forward(j, r, k)
    BY <1>8, <2>6, <2>7 DEF Forward
  <2> QED
    BY <2>5, <2>8
<1>9. CASE keep
  <2>1. r.rows = j.rows
    BY <1>2, <1>9
  <2>2. ASSUME NEW k \in DOMAIN r.rows PROVE (\E e : Current(r, k, e)) /\ Forward(j, r, k)
    <3>1. k # f.key \/ f \in j.events \/ late
      BY <1>9, <2>1
    <3> HIDE DEF late
    <3> QED
      BY <1>8, <2>1, <3>1
  <2>3. \A e \in r.events : e.type = "ACTIVE" => e.key \in DOMAIN r.rows
    <3>1. f.type = "ACTIVE" => f.key \in DOMAIN j.rows
      BY <1>3, <1>9
    <3> QED
      BY <1>1, <1>3, <2>1, <3>1
  <2>4. Journal(r)
    BY <1>1, <1>3, <1>7, <2>1, <2>2, <2>3 DEF Journal
  <2>5. Advances(j, r)
    BY <1>1, <2>1, <2>2 DEF Advances
  <2> QED
    BY <2>1, <2>4, <2>5 DEF r
<1>10. CASE ~keep
  <2>1. r.rows = [k \in D |-> IF k = f.key THEN new ELSE j.rows[k]]
    BY <1>2, <1>10
  <2>2. f \notin j.events /\ (known => row.last <= f.at) /\ (~known => f.type = "ACTIVE")
    <3>1. f \notin j.events /\ ~late /\ (~known => f.type # "RESOLVED")
      BY <1>10
    <3>2. known => ~(f.at < row.last)
      BY <3>1
    <3> HIDE DEF known, row
    <3> QED
      BY <1>4, <1>6, <3>1, <3>2
  <2>3. {"status", "last"} \subseteq DOMAIN new /\ new.status = f.type /\ new.last = f.at
    <3>1. CASE f.type = "RESOLVED"
      <4>1. known
        BY <1>10, <3>1
      <4>2. {"status", "last"} \subseteq DOMAIN row
        BY <1>3, <4>1
      <4>3. new = [row EXCEPT !.status = "RESOLVED", !.last = f.at]
        BY <3>1
      <4> HIDE DEF row, new
      <4> QED
        BY <3>1, <4>2, <4>3
    <3>2. CASE f.type = "ACTIVE"
      <4> HIDE DEF fresh
      <4>1. new = [status |-> "ACTIVE", detail |-> f.detail, last |-> f.at,
                   first |-> IF fresh THEN f.at ELSE row.first,
                   count |-> IF fresh THEN 1 ELSE row.count + 1]
        BY <3>2
      <4> HIDE DEF new
      <4> QED
        BY <3>2, <4>1
    <3> QED
      BY <1>4, <3>1, <3>2
  <2> HIDE DEF new
  <2>4. DOMAIN r.rows = D /\ r.rows[f.key] = new /\ f.key \in D
        /\ \A k \in D : k # f.key => k \in DOMAIN j.rows /\ r.rows[k] = j.rows[k]
    BY <2>1
  <2>5. IsStateOf(r.rows[f.key], f.key, f)
    BY <2>3, <2>4 DEF IsStateOf
  <2>6. Current(r, f.key, f)
    <3>1. ASSUME NEW g \in j.events, g.key = f.key, g.type = "ACTIVE" PROVE g.at <= f.at
      <4>1. known
        BY <1>3, <3>1
      <4>2. PICK e : Current(j, f.key, e)
        BY <1>3, <4>1
      <4>3. g.at <= e.at /\ e.at = row.last
        BY <3>1, <4>2 DEF Current, IsStateOf
      <4>4. g.at \in Nat /\ g.at <= row.last
        BY <1>3, <4>3
      <4> HIDE DEF row
      <4> QED
        BY <1>4, <1>6, <2>2, <4>1, <4>4
    <3>2. f.at <= f.at
      BY <1>4
    <3> QED
      BY <1>1, <2>5, <3>1, <3>2 DEF Current
  <2>7. \A k \in D : k # f.key => (\E e : Current(r, k, e)) /\ Forward(j, r, k)
    BY <1>8, <2>4
  <2>8. known => Forward(j, r, f.key)
    <3>1. \A g \in r.events \ j.events : g.key = f.key => g.at <= r.rows[f.key].last
      BY <1>1, <1>4, <2>3, <2>4
    <3>2. f \in r.events \ j.events
      BY <1>1, <2>2
    <3>3. known => row.last <= r.rows[f.key].last
      BY <2>2, <2>3, <2>4
    <3> QED
      BY <2>5, <3>1, <3>2, <3>3 DEF Forward
  <2>9. \A k \in D : {"status", "last"} \subseteq DOMAIN r.rows[k] /\ \E e : Current(r, k, e)
    BY <1>3, <2>3, <2>4, <2>6, <2>7
  <2>10. IsFiniteSet(D)
    BY <1>3, FS_AddElement
  <2>11. \A e \in r.events : e.type = "ACTIVE" => e.key \in DOMAIN r.rows
    BY <1>1, <1>3, <2>4
  <2>12. Journal(r)
    BY <1>1, <1>7, <2>4, <2>9, <2>10, <2>11 DEF Journal
  <2>13. Advances(j, r)
    BY <1>1, <2>4, <2>7, <2>8 DEF Advances
  <2> QED
    BY <2>4, <2>12, <2>13 DEF r
<1> QED
  BY <1>9, <1>10

\* _upsert and _resolve: the memory goes with the journal (telemetry.py:98-179).
LEMMA NoteShows ==
  ASSUME NEW t, NEW i, NEW n \in Nat, NEW K, NEW f, Shows(t, i, K), IsFact(f, n, K)
  PROVE  Shows(Note(t, f), i, K)
<1> DEFINE j == Journaled(t.journal, f)
           active == f.key \in DOMAIN j.rows /\ j.rows[f.key].status = "ACTIVE"
           order == t.tele.alerts
           alerts == IF ~active THEN RemoveFirst(order, f.key)
                     ELSE IF f.key \in Range(order) THEN order
                     ELSE Append(order, f.key)
           u == [t EXCEPT !.journal = j, !.tele.alerts = alerts]
<1>1. /\ DOMAIN t = {"tele", "journal", "raised"} /\ "alerts" \in DOMAIN t.tele
      /\ Journal(t.journal) /\ DOMAIN t.journal.rows \subseteq K
      /\ order \in Seq(K) /\ IsInjective(order) /\ Range(order) = ActiveKeys(t.journal)
      /\ Journal(i) /\ Advances(i, t.journal)
  BY DEF Shows
<1>2. CASE t.raised
  BY <1>2 DEF Note
<1>3. CASE ~t.raised /\ Contradicts(t.journal, f)
  <2> DEFINE v == [t EXCEPT !.raised = TRUE]
  <2>1. Note(t, f) = v
    BY <1>3 DEF Note
  <2>2. DOMAIN v = DOMAIN t /\ v.tele = t.tele /\ v.journal = t.journal
    BY <1>1
  <2> HIDE DEF v
  <2> QED
    BY <1>1, <2>1, <2>2 DEF Shows
<1>4. CASE ~t.raised /\ ~Contradicts(t.journal, f)
  <2>1. Note(t, f) = u
    BY <1>4 DEF Note
  <2>2. f.key \in K
    BY DEF IsFact
  <2>3. /\ Journal(j) /\ Advances(t.journal, j) /\ DOMAIN j.rows \subseteq DOMAIN t.journal.rows \cup {f.key}
        /\ \A k : k # f.key => /\ k \in DOMAIN j.rows <=> k \in DOMAIN t.journal.rows
                               /\ k \in DOMAIN t.journal.rows => j.rows[k] = t.journal.rows[k]
    BY <1>1, <1>4, JournaledKeeps
  <2> HIDE DEF j, order
  <2>4. \A k : k # f.key => (k \in ActiveKeys(j) <=> k \in ActiveKeys(t.journal))
    BY <2>3 DEF ActiveKeys
  <2>5. f.key \in ActiveKeys(j) <=> active
    BY DEF ActiveKeys
  <2>6. alerts \in Seq(K) /\ IsInjective(alerts) /\ Range(alerts) = ActiveKeys(j)
    <3>1. CASE ~active
      <4>1. /\ RemoveFirst(order, f.key) \in Seq(K) /\ IsInjective(RemoveFirst(order, f.key))
            /\ Range(RemoveFirst(order, f.key)) = Range(order) \ {f.key}
        BY <1>1, RemoveFacts
      <4>2. alerts = RemoveFirst(order, f.key)
        BY <3>1
      <4>3. Range(order) \ {f.key} = ActiveKeys(j)
        BY <1>1, <2>4, <2>5, <3>1
      <4> HIDE DEF alerts
      <4> QED
        BY <4>1, <4>2, <4>3
    <3>2. CASE active /\ f.key \in Range(order)
      <4>1. alerts = order
        BY <3>2
      <4>2. \A k : k \in Range(order) <=> k \in ActiveKeys(j)
        BY <1>1, <2>4, <2>5, <3>2
      <4>3. Range(order) = ActiveKeys(j)
        BY <4>2
      <4> HIDE DEF alerts
      <4> QED
        BY <1>1, <4>1, <4>3
    <3>3. CASE active /\ f.key \notin Range(order)
      <4>1. /\ Append(order, f.key) \in Seq(K) /\ IsInjective(Append(order, f.key))
            /\ Range(Append(order, f.key)) = Range(order) \cup {f.key}
        BY <1>1, <2>2, <3>3, AppendFacts
      <4>2. alerts = Append(order, f.key)
        BY <3>3
      <4>3. \A k : k \in Range(order) \cup {f.key} <=> k \in ActiveKeys(j)
        BY <1>1, <2>4, <2>5, <3>3
      <4> HIDE DEF alerts
      <4> QED
        BY <4>1, <4>2, <4>3
    <3> QED
      BY <3>1, <3>2, <3>3
  <2> HIDE DEF alerts
  <2>7. /\ DOMAIN u = DOMAIN t /\ u.journal = j /\ u.tele.alerts = alerts
        /\ "alerts" \in DOMAIN u.tele
    BY <1>1
  <2> HIDE DEF u
  <2>8. DOMAIN j.rows \subseteq K
    BY <1>1, <2>2, <2>3
  <2>9. Advances(i, j)
    BY <1>1, <2>3, AdvancesOn
  <2> QED
    BY <1>1, <2>1, <2>3, <2>6, <2>7, <2>8, <2>9 DEF Shows
<1> QED
  BY <1>2, <1>3, <1>4

\* Noting one fact after the other keeps it.
LEMMA NoteEachShows ==
  ASSUME NEW t, NEW i, NEW n \in Nat, NEW K, NEW L, NEW keys \in Seq(L), NEW facts, Shows(t, i, K),
         \A k \in DOMAIN facts : IsFact(facts[k], n, K)
  PROVE  Shows(NoteEach(t, keys, facts), i, K)
<1>1. PICK g : Notes(g, t, keys, facts) /\ NoteEach(t, keys, facts) = g[DOMAIN keys]
  BY NoteEachFolds
<1> DEFINE S == DOMAIN keys
           P == {s \in SUBSET S : Shows(g[s], i, K)}
<1>2. IsFiniteSet(S) /\ S \subseteq Nat
  <2>1. S = 1..Len(keys) /\ Len(keys) \in Nat
    OBVIOUS
  <2> QED
    BY <2>1, FS_Interval
<1>3. \A s \in SUBSET S : g[s] = IF s = {} THEN t ELSE NoteOne(g[s \ {Max(s)}], keys[Max(s)], facts)
  BY <1>1 DEF Notes
<1> HIDE DEF S
<1>4. ASSUME NEW s \in SUBSET S, \A x \in s : s \ {x} \in P PROVE s \in P
  <2>1. CASE s = {}
    BY <1>3, <2>1
  <2>2. CASE s # {}
    <3>1. s \in SUBSET Nat /\ IsFiniteSet(s)
      BY <1>2, FS_Subset
    <3>2. Max(s) \in s
      BY <2>2, <3>1, Extremes
    <3> DEFINE h == g[s \ {Max(s)}]
               k == keys[Max(s)]
    <3>3. Shows(h, i, K) /\ g[s] = NoteOne(h, k, facts)
      BY <1>3, <1>4, <2>2, <3>2
    <3> HIDE DEF h, k
    <3>4. CASE k \in DOMAIN facts
      <4>1. IsFact(facts[k], n, K) /\ g[s] = Note(h, facts[k])
        BY <3>3, <3>4 DEF NoteOne
      <4>2. Shows(Note(h, facts[k]), i, K)
        BY <3>3, <4>1, NoteShows
      <4> QED
        BY <4>1, <4>2
    <3>5. CASE k \notin DOMAIN facts
      BY <3>3, <3>5 DEF NoteOne
    <3> QED
      BY <3>4, <3>5
  <2> QED
    BY <2>1, <2>2
<1> HIDE DEF P
<1>5. SUBSET S \subseteq P
  BY <1>2, <1>4, Subsets
<1>6. S \in P
  BY <1>5
<1> QED
  BY <1>1, <1>6 DEF P, S

\* The two kinds of facts.
LEMMA Facts ==
  ASSUME NEW K, NEW k \in K, NEW d, NEW n
  PROVE  IsFact(ActiveFact(k, d, n), n, K) /\ IsFact(ResolvedFact(k, n), n, K)
  BY DEF IsFact, ActiveFact, ResolvedFact

\* What does not touch the alerts keeps what they show.
LEMMA SameAlerts ==
  ASSUME NEW t, NEW u, NEW i, NEW K, Shows(t, i, K), DOMAIN u = DOMAIN t, u.journal = t.journal,
         "alerts" \in DOMAIN u.tele, u.tele.alerts = t.tele.alerts
  PROVE  Shows(u, i, K)
  BY DEF Shows

\* sync_health in two passes: the troubles are noted, then what is no longer one is resolved.
Troubled(n)     == { c \in Components : Trouble(c, n) # "" }
BadNews(n)      == [c \in Troubled(n) |-> ActiveFact(c, Trouble(c, n), n)]
GoodNews(n)     == [k \in Components \ Troubled(n) |-> ResolvedFact(k, n)]
HealthStamp(t, n) == [t EXCEPT !.tele.health = n, !.tele.ready = Ready(n)]
FirstPass(t, n) == NoteEach(HealthStamp(t, n), plan.components, BadNews(n))

\* sync_health notes the bad news in the order of the components, then resolves what is shown.
LEMMA HealthPasses ==
  ASSUME IsPlan(plan), NEW n \in Nat, NEW t, NEW i, Shows(t, i, AlertKeys)
  PROVE  /\ Shows(FirstPass(t, n), i, AlertKeys)
         /\ \/ SyncHealth(t, n) = t
            \/ SyncHealth(t, n) = NoteEach(FirstPass(t, n), FirstPass(t, n).tele.alerts, GoodNews(n))
<1>1. DOMAIN t = {"tele", "journal", "raised"} /\ "alerts" \in DOMAIN t.tele
  BY DEF Shows
<1>2. \/ SyncHealth(t, n) = t
      \/ SyncHealth(t, n) = NoteEach(FirstPass(t, n), FirstPass(t, n).tele.alerts, GoodNews(n))
  BY DEF SyncHealth, FirstPass, HealthStamp, BadNews, GoodNews, Troubled
<1> DEFINE u == HealthStamp(t, n)
           r == Ready(n)
<1>3. Shows(u, i, AlertKeys)
  <2>1. u = [t EXCEPT !.tele.health = n, !.tele.ready = r]
    BY DEF HealthStamp
  <2> HIDE DEF u, r
  <2>2. /\ DOMAIN u = DOMAIN t /\ u.journal = t.journal
        /\ "alerts" \in DOMAIN u.tele /\ u.tele.alerts = t.tele.alerts
    BY <1>1, <2>1
  <2> QED
    BY <2>2, SameAlerts
<1>4. \A c \in DOMAIN BadNews(n) : IsFact(BadNews(n)[c], n, AlertKeys)
  BY Facts DEF BadNews, Troubled, AlertKeys
<1>5. PICK L : plan.components \in Seq(L)
  BY DEF IsPlan
<1> HIDE DEF u
<1>6. Shows(NoteEach(u, plan.components, BadNews(n)), i, AlertKeys)
  BY <1>3, <1>4, <1>5, NoteEachShows
<1> QED
  BY <1>2, <1>6 DEF FirstPass, u

\* sync_health, sync_mode and sync_execution_ambiguity.
LEMMA SyncShows ==
  ASSUME IsPlan(plan), NEW n \in Nat, NEW t, NEW i, Shows(t, i, AlertKeys)
  PROVE  /\ Shows(SyncHealth(t, n), i, AlertKeys)
         /\ \A m : Shows(SyncMode(t, m, n), i, AlertKeys)
         /\ \A c : Shows(SyncExecution(t, c, n), i, AlertKeys)
<1>0. DOMAIN t = {"tele", "journal", "raised"} /\ "alerts" \in DOMAIN t.tele
  BY DEF Shows
<1>1. Shows(SyncHealth(t, n), i, AlertKeys)
  <2> DEFINE u == FirstPass(t, n)
  <2>1. Shows(u, i, AlertKeys) /\ (SyncHealth(t, n) = t \/ SyncHealth(t, n) = NoteEach(u, u.tele.alerts, GoodNews(n)))
    BY HealthPasses
  <2> HIDE DEF u
  <2>2. u.tele.alerts \in Seq(AlertKeys)
    BY <2>1 DEF Shows
  <2>3. \A k \in DOMAIN GoodNews(n) : IsFact(GoodNews(n)[k], n, AlertKeys)
    BY Facts DEF GoodNews, AlertKeys
  <2>4. Shows(NoteEach(u, u.tele.alerts, GoodNews(n)), i, AlertKeys)
    BY <2>1, <2>2, <2>3, NoteEachShows
  <2> QED
    BY <2>1, <2>4
<1>2. ASSUME NEW m PROVE Shows(SyncMode(t, m, n), i, AlertKeys)
  <2> DEFINE u == [t EXCEPT !.tele.mode = n, !.tele.shown = m]
             f == IF m = "HALTED" THEN ActiveFact(HaltedKey, "HALTED", n) ELSE ResolvedFact(HaltedKey, n)
  <2>1. SyncMode(t, m, n) = t \/ SyncMode(t, m, n) = Note(u, f)
    BY DEF SyncMode
  <2>2. HaltedKey \in AlertKeys
    BY DEF AlertKeys
  <2>3. IsFact(f, n, AlertKeys)
    BY <2>2, Facts
  <2>4. /\ DOMAIN u = DOMAIN t /\ u.journal = t.journal
        /\ "alerts" \in DOMAIN u.tele /\ u.tele.alerts = t.tele.alerts
    BY <1>0
  <2> HIDE DEF u, f
  <2>5. Shows(u, i, AlertKeys)
    BY <2>4, SameAlerts
  <2>6. Shows(Note(u, f), i, AlertKeys)
    BY <2>3, <2>5, NoteShows
  <2> QED
    BY <2>1, <2>6
<1>3. ASSUME NEW c PROVE Shows(SyncExecution(t, c, n), i, AlertKeys)
  <2> DEFINE u == [t EXCEPT !.tele.execution = n]
             f == IF c # "0" THEN ActiveFact("execution:UNKNOWN", c, n)
                  ELSE ResolvedFact("execution:UNKNOWN", n)
  <2>1. SyncExecution(t, c, n) = t \/ SyncExecution(t, c, n) = Note(u, f)
    BY DEF SyncExecution
  <2>2. "execution:UNKNOWN" \in AlertKeys
    BY DEF AlertKeys
  <2>3. IsFact(f, n, AlertKeys)
    BY <2>2, Facts
  <2>4. /\ DOMAIN u = DOMAIN t /\ u.journal = t.journal
        /\ "alerts" \in DOMAIN u.tele /\ u.tele.alerts = t.tele.alerts
    BY <1>0
  <2> HIDE DEF u, f
  <2>5. Shows(u, i, AlertKeys)
    BY <2>4, SameAlerts
  <2>6. Shows(Note(u, f), i, AlertKeys)
    BY <2>3, <2>5, NoteShows
  <2> QED
    BY <2>1, <2>6
<1> QED
  BY <1>1, <1>2, <1>3

\* The tables and the memory of telemetry.
Alerting ==
  /\ Journal(journal) /\ DOMAIN journal.rows \subseteq AlertKeys
  /\ "alerts" \in DOMAIN tele /\ tele.alerts \in Seq(AlertKeys) /\ IsInjective(tele.alerts)
  /\ session # None => Range(tele.alerts) = ActiveKeys(journal)

\* A new memory shows the active rows.
LEMMA FreshShows ==
  ASSUME NEW j, NEW K, IsFiniteSet(DOMAIN j.rows), DOMAIN j.rows \subseteq K
  PROVE  LET t == FreshTelemetry(j)
         IN  /\ "alerts" \in DOMAIN t /\ t.alerts \in Seq(K) /\ IsInjective(t.alerts)
             /\ Range(t.alerts) = ActiveKeys(j)
<1> DEFINE t == FreshTelemetry(j)
<1>1. t.alerts = SetToSeq(ActiveKeys(j)) /\ "alerts" \in DOMAIN t
  BY DEF FreshTelemetry, ActiveKeys
<1>2. ActiveKeys(j) \subseteq DOMAIN j.rows
  BY DEF ActiveKeys
<1>3. IsFiniteSet(ActiveKeys(j)) /\ ActiveKeys(j) \subseteq K
  BY <1>2, FS_Subset
<1> HIDE DEF t
<1>4. /\ SetToSeq(ActiveKeys(j)) \in Seq(K) /\ IsInjective(SetToSeq(ActiveKeys(j)))
      /\ Range(SetToSeq(ActiveKeys(j))) = ActiveKeys(j)
  BY <1>3, Restored
<1> QED
  BY <1>1, <1>4 DEF t

\* Every step keeps what telemetry shows, and the journal goes on.
LEMMA AlertingStep ==
  ASSUME Clock, Alerting, [RuntimeNext]_vars
  PROVE  Alerting' /\ Advances(journal, journal')
<1>0. IsPlan(plan) /\ now \in Nat
  BY DEF Clock
<1>1. UNCHANGED plan => AlertKeys' = AlertKeys
  BY DEF AlertKeys, Components, HaltedKey
<1>2. ASSUME UNCHANGED <<plan, session, tele, journal>> PROVE Alerting' /\ Advances(journal, journal')
  BY <1>1, <1>2, AdvancesSelf DEF Alerting
<1>3. ASSUME NEW t, Shows(t, journal, AlertKeys), tele' = t.tele, journal' = t.journal,
             UNCHANGED <<plan, session>>
      PROVE  Alerting' /\ Advances(journal, journal')
  BY <1>1, <1>3 DEF Alerting, Shows
<1>4. session # None => Shows(Telemetry, journal, AlertKeys)
  <2>1. Telemetry = [tele |-> tele, journal |-> journal, raised |-> FALSE]
    BY DEF Telemetry
  <2>2. DOMAIN Telemetry = {"tele", "journal", "raised"} /\ Telemetry.tele = tele /\ Telemetry.journal = journal
    BY <2>1
  <2> QED
    BY <2>2, AdvancesSelf DEF Alerting, Shows
<1>5. CASE HealthStep
  <2>1. UNCHANGED <<plan, session, tele, journal>>
    BY <1>5 DEF HealthStep, Report, ObserveQmt, IngestQuote, RefreshMarketData, IngestHeartbeat,
                RefreshStrategies, Observe
  <2> QED
    BY <1>2, <2>1
<1>6. ASSUME NEW id, NEW to, RequestMode(id, to) \/ EmergencyHalt(id) PROVE Alerting' /\ Advances(journal, journal')
  <2>1. UNCHANGED <<plan, session, tele, journal>>
    BY <1>6 DEF RequestMode, EmergencyHalt
  <2> QED
    BY <1>2, <2>1
<1>7. ASSUME NEW id, NEW c, SupervisorTick(id, c) PROVE Alerting' /\ Advances(journal, journal')
  <2> DEFINE t1 == SyncHealth(Telemetry, now)
             t2 == SyncMode(t1, mode, now)
             t3 == SyncExecution(t2, c, now)
             t4 == SyncMode(t3, "HALTED", now)
  <2>1. \/ tele' = t3.tele /\ journal' = t3.journal
        \/ tele' = t4.tele /\ journal' = t4.journal
    BY <1>7 DEF SupervisorTick
  <2>2. session # None /\ UNCHANGED <<plan, session>>
    BY <1>7 DEF SupervisorTick, Does
  <2>3. Shows(t1, journal, AlertKeys)
    BY <1>0, <1>4, <2>2, SyncShows
  <2> HIDE DEF t1
  <2>4. Shows(t2, journal, AlertKeys)
    BY <1>0, <2>3, SyncShows
  <2> HIDE DEF t2
  <2>5. Shows(t3, journal, AlertKeys)
    BY <1>0, <2>4, SyncShows
  <2> HIDE DEF t3
  <2>6. Shows(t4, journal, AlertKeys)
    BY <1>0, <2>5, SyncShows
  <2> HIDE DEF t4
  <2> QED
    BY <1>3, <2>1, <2>2, <2>5, <2>6
<1>8. CASE Shutdown
  <2> DEFINE t == SyncMode(Telemetry, "HALTED", now)
  <2>1. tele' = t.tele /\ journal' = t.journal /\ session # None /\ UNCHANGED <<plan, session>>
    BY <1>8 DEF Shutdown, Does
  <2>2. Shows(t, journal, AlertKeys)
    BY <1>0, <1>4, <2>1, SyncShows
  <2> HIDE DEF t
  <2> QED
    BY <1>3, <2>1, <2>2
<1>9. CASE ControlStep
  BY <1>6, <1>7, <1>8, <1>9 DEF ControlStep
<1>10. CASE DecisionStep
  <2>1. UNCHANGED <<plan, session, tele, journal>>
    BY <1>10 DEF DecisionStep, Account, EvaluateIntent, SubmitIntent, memory
  <2> QED
    BY <1>2, <2>1
<1>11. ASSUME NEW s, Start(s) PROVE Alerting' /\ Advances(journal, journal')
  <2>1. tele' = FreshTelemetry(journal) /\ UNCHANGED <<plan, journal>>
    BY <1>11 DEF Start
  <2>2. IsFiniteSet(DOMAIN journal.rows) /\ DOMAIN journal.rows \subseteq AlertKeys /\ Journal(journal)
    BY DEF Alerting, Journal
  <2> DEFINE t == FreshTelemetry(journal)
  <2>3. /\ "alerts" \in DOMAIN t /\ t.alerts \in Seq(AlertKeys) /\ IsInjective(t.alerts)
        /\ Range(t.alerts) = ActiveKeys(journal)
    BY <2>2, FreshShows
  <2> HIDE DEF t
  <2>4. tele' = t
    BY <2>1 DEF t
  <2>5. Advances(journal, journal')
    BY <2>1, <2>2, AdvancesSelf
  <2> QED
    BY <1>1, <2>1, <2>2, <2>3, <2>4, <2>5 DEF Alerting
<1>12. CASE Die
  <2> DEFINE j == [rows |-> <<>>]
             t == FreshTelemetry(j)
  <2>1. tele' = t /\ session' = None /\ UNCHANGED <<plan, journal>>
    BY <1>12 DEF Die
  <2>2. DOMAIN j.rows = {}
    OBVIOUS
  <2> HIDE DEF j
  <2>3. IsFiniteSet(DOMAIN j.rows) /\ DOMAIN j.rows \subseteq AlertKeys
    BY <2>2, FS_EmptySet
  <2>4. "alerts" \in DOMAIN t /\ t.alerts \in Seq(AlertKeys) /\ IsInjective(t.alerts)
    BY <2>3, FreshShows
  <2> HIDE DEF t
  <2>5. Advances(journal, journal')
    BY <2>1, AdvancesSelf DEF Alerting
  <2> QED
    BY <1>1, <2>1, <2>4, <2>5 DEF Alerting
<1>13. CASE Wait \/ SetBack
  <2>1. UNCHANGED <<plan, session, tele, journal>>
    BY <1>13 DEF Wait, SetBack, memory
  <2> QED
    BY <1>2, <2>1
<1>14. CASE UNCHANGED vars
  BY <1>2, <1>14 DEF vars, memory
<1> QED
  BY <1>5, <1>9, <1>10, <1>11, <1>12, <1>13, <1>14 DEF RuntimeNext

\* At the start there is nothing to show, and no time has passed.
LEMMA AlertingInit == RuntimeInit => Clock /\ Held /\ Alerting
<1> SUFFICES ASSUME RuntimeInit PROVE Clock /\ Held /\ Alerting
  OBVIOUS
<1>1. IsPlan(plan)
  BY RuntimeAssumption DEF RuntimeInit
<1>2. /\ now = 1 /\ armed = 0 /\ mode = "DISABLED" /\ beat = {} /\ quote = {} /\ held = {}
      /\ session = None /\ journal = [events |-> {}, rows |-> <<>>] /\ tele = FreshTelemetry(journal)
  BY DEF RuntimeInit
<1>3. Clock /\ Held
  BY <1>1, <1>2 DEF Clock, Held, IsPlan
<1>4. DOMAIN journal = {"events", "rows"} /\ journal.events = {} /\ DOMAIN journal.rows = {}
  BY <1>2
<1>5. IsFiniteSet(DOMAIN journal.rows) /\ DOMAIN journal.rows \subseteq AlertKeys
  BY <1>4, FS_EmptySet
<1>6. Journal(journal)
  BY <1>4, <1>5 DEF Journal
<1>7. "alerts" \in DOMAIN tele /\ tele.alerts \in Seq(AlertKeys) /\ IsInjective(tele.alerts)
  BY <1>2, <1>5, FreshShows
<1> QED
  BY <1>2, <1>3, <1>5, <1>6, <1>7 DEF Alerting

\* What telemetry shows as active is what the journal has as active, and a journal row is an
\* event of its key that no ACTIVE event is newer than: no alert is lost by a crash or hidden
\* by an older fact, whichever way the clock went (alert_store.py:100-231, telemetry.py:86-176).
THEOREM AlertsShown == RuntimeSpec => []AlertsCurrent
<1>1. Alerting => AlertsCurrent
  <2> SUFFICES ASSUME Alerting PROVE AlertsCurrent
    OBVIOUS
  <2>1. session # None => Range(tele.alerts) = { k \in DOMAIN journal.rows : journal.rows[k].status = "ACTIVE" }
    BY DEF Alerting, ActiveKeys
  <2>2. ASSUME NEW k \in DOMAIN journal.rows
        PROVE  /\ \E e \in journal.events : IsStateOf(journal.rows[k], k, e)
               /\ \A e \in journal.events : e.key = k /\ e.type = "ACTIVE" => e.at <= journal.rows[k].last
    <3>1. PICK g : Current(journal, k, g)
      BY DEF Alerting, Journal
    <3>2. g \in journal.events /\ IsStateOf(journal.rows[k], k, g) /\ g.at = journal.rows[k].last
      BY <3>1 DEF Current, IsStateOf
    <3> QED
      BY <3>1, <3>2 DEF Current
  <2> QED
    BY <2>1, <2>2 DEF AlertsCurrent
<1> QED
  BY <1>1, AlertingInit, AlertingStep, HeldStep, PTL DEF RuntimeSpec

\* A journal row is never rewound: what one call notes about a key that has a row leaves a row
\* no older than before and than any fact noted, after a restart and with the clock set back
\* too (alert_store.py:160, 237).
THEOREM AlertsForward == RuntimeSpec => AlertsNeverRewound
<1>1. Clock /\ Held /\ Alerting /\ [RuntimeNext]_vars =>
        [\A k \in DOMAIN journal.rows : k \in DOMAIN journal'.rows /\ Forward(journal, journal', k)]_vars
  BY AlertingStep DEF Advances
<1> QED
  BY <1>1, AlertingInit, AlertingStep, HeldStep, PTL DEF RuntimeSpec, AlertsNeverRewound

-----------------------------------------------------------------------------
(* The supervisor reaches the halt.                                        *)

\* Nothing was raised, and the only news of this instant is F, which has one fact for a key.
Calm(t, n, F) ==
  /\ DOMAIN t = {"tele", "journal", "raised"} /\ ~t.raised
  /\ \A e \in t.journal.events : e.at # n \/ e \in F

OneFactPerKey(F, n) == \A e \in F : e.at = n /\ \A f \in F : e.key = f.key => e = f

\* No fact of F contradicts what is known.
LEMMA NoteCalm ==
  ASSUME NEW t, NEW n \in Nat, NEW F, NEW f \in F, Calm(t, n, F), OneFactPerKey(F, n)
  PROVE  Calm(Note(t, f), n, F)
<1> DEFINE j == Journaled(t.journal, f)
           active == f.key \in DOMAIN j.rows /\ j.rows[f.key].status = "ACTIVE"
           order == t.tele.alerts
           alerts == IF ~active THEN RemoveFirst(order, f.key)
                     ELSE IF f.key \in Range(order) THEN order
                     ELSE Append(order, f.key)
           u == [t EXCEPT !.journal = j, !.tele.alerts = alerts]
<1>1. ~Contradicts(t.journal, f)
  <2> SUFFICES ASSUME NEW e \in t.journal.events, e.key = f.key, e.at = f.at PROVE e = f
    BY DEF Contradicts
  <2>1. f.at = n
    BY DEF OneFactPerKey
  <2>2. e \in F
    BY <2>1 DEF Calm
  <2> QED
    BY <2>2 DEF OneFactPerKey
<1>2. Note(t, f) = u
  BY <1>1 DEF Note, Calm
<1>3. j.events = t.journal.events \cup {f}
  BY DEF Journaled
<1> HIDE DEF j, alerts
<1>4. DOMAIN u = DOMAIN t /\ u.journal = j /\ u.raised = t.raised
  BY DEF Calm
<1> HIDE DEF u
<1>5. \A e \in u.journal.events : e.at # n \/ e \in F
  BY <1>3, <1>4 DEF Calm
<1>6. ~u.raised
  BY <1>4 DEF Calm
<1> QED
  BY <1>2, <1>4, <1>5, <1>6 DEF Calm

\* One fact of F after the other.
LEMMA NoteEachCalm ==
  ASSUME NEW t, NEW n \in Nat, NEW F, NEW L, NEW keys \in Seq(L), NEW facts, Calm(t, n, F),
         OneFactPerKey(F, n), \A k \in DOMAIN facts : facts[k] \in F
  PROVE  Calm(NoteEach(t, keys, facts), n, F)
<1>1. PICK g : Notes(g, t, keys, facts) /\ NoteEach(t, keys, facts) = g[DOMAIN keys]
  BY NoteEachFolds
<1> DEFINE S == DOMAIN keys
           P == {s \in SUBSET S : Calm(g[s], n, F)}
<1>2. IsFiniteSet(S) /\ S \subseteq Nat
  <2>1. S = 1..Len(keys) /\ Len(keys) \in Nat
    OBVIOUS
  <2> QED
    BY <2>1, FS_Interval
<1>3. \A s \in SUBSET S : g[s] = IF s = {} THEN t ELSE NoteOne(g[s \ {Max(s)}], keys[Max(s)], facts)
  BY <1>1 DEF Notes
<1> HIDE DEF S
<1>4. ASSUME NEW s \in SUBSET S, \A x \in s : s \ {x} \in P PROVE s \in P
  <2>1. CASE s = {}
    BY <1>3, <2>1
  <2>2. CASE s # {}
    <3>1. s \in SUBSET Nat /\ IsFiniteSet(s)
      BY <1>2, FS_Subset
    <3>2. Max(s) \in s
      BY <2>2, <3>1, Extremes
    <3> DEFINE h == g[s \ {Max(s)}]
               k == keys[Max(s)]
    <3>3. Calm(h, n, F) /\ g[s] = NoteOne(h, k, facts)
      BY <1>3, <1>4, <2>2, <3>2
    <3> HIDE DEF h, k
    <3>4. CASE k \in DOMAIN facts
      <4>1. facts[k] \in F /\ g[s] = Note(h, facts[k])
        BY <3>3, <3>4 DEF NoteOne
      <4>2. Calm(Note(h, facts[k]), n, F)
        BY <3>3, <4>1, NoteCalm
      <4> QED
        BY <4>1, <4>2
    <3>5. CASE k \notin DOMAIN facts
      BY <3>3, <3>5 DEF NoteOne
    <3> QED
      BY <3>4, <3>5
  <2> QED
    BY <2>1, <2>2
<1> HIDE DEF P
<1>5. SUBSET S \subseteq P
  BY <1>2, <1>4, Subsets
<1>6. S \in P
  BY <1>5
<1> QED
  BY <1>1, <1>6 DEF P, S

\* All a cycle notes: the health, the mode and the ambiguity at one instant.
News(n, m, c) ==
  { BadNews(n)[k] : k \in DOMAIN BadNews(n) } \cup { GoodNews(n)[k] : k \in DOMAIN GoodNews(n) }
    \cup { IF m = "HALTED" THEN ActiveFact(HaltedKey, "HALTED", n) ELSE ResolvedFact(HaltedKey, n),
           IF c # "0" THEN ActiveFact("execution:UNKNOWN", c, n) ELSE ResolvedFact("execution:UNKNOWN", n) }

\* It has one fact for a key.
LEMMA NewsFacts ==
  ASSUME IsPlan(plan), NEW n, NEW m, NEW c
  PROVE  OneFactPerKey(News(n, m, c), n)
<1> DEFINE B == { BadNews(n)[k] : k \in DOMAIN BadNews(n) }
           G == { GoodNews(n)[k] : k \in DOMAIN GoodNews(n) }
           h == IF m = "HALTED" THEN ActiveFact(HaltedKey, "HALTED", n) ELSE ResolvedFact(HaltedKey, n)
           x == IF c # "0" THEN ActiveFact("execution:UNKNOWN", c, n) ELSE ResolvedFact("execution:UNKNOWN", n)
<1>1. Components \subseteq {"DATABASE", "OMS", "LEADER", "RECONCILIATION", "QMT", "MARKET_DATA", "STRATEGY"}
  <2> DEFINE C == {"DATABASE", "OMS", "LEADER", "RECONCILIATION", "QMT", "MARKET_DATA", "STRATEGY"}
  <2>1. plan.components \in Seq(C)
    BY DEF IsPlan
  <2> HIDE DEF C
  <2>2. Range(plan.components) \subseteq C
    BY <2>1 DEF Range
  <2> QED
    BY <2>2 DEF C, Components
<1>2. \A e \in B : e.at = n /\ e.key \in Troubled(n) /\ e = ActiveFact(e.key, Trouble(e.key, n), n)
  BY DEF BadNews, ActiveFact
<1>3. \A e \in G : e.at = n /\ e.key \in Components \ Troubled(n) /\ e = ResolvedFact(e.key, n)
  <2> TAKE e \in G
  <2> DEFINE D == Components \ Troubled(n)
  <2>1. PICK k \in D : e = ResolvedFact(k, n)
    BY DEF GoodNews
  <2> HIDE DEF D
  <2>2. e.at = n /\ e.key = k
    BY <2>1 DEF ResolvedFact
  <2>3. e.key \in D /\ e = ResolvedFact(e.key, n)
    BY <2>1, <2>2
  <2> QED
    BY <2>2, <2>3 DEF D
<1>4. h.at = n /\ h.key = "runtime:HALTED"
  BY DEF ActiveFact, ResolvedFact, HaltedKey
<1>5. x.at = n /\ x.key = "execution:UNKNOWN"
  BY DEF ActiveFact, ResolvedFact
<1>6. /\ "runtime:HALTED" \notin Components /\ "execution:UNKNOWN" \notin Components
      /\ Troubled(n) \subseteq Components
  BY <1>1 DEF Troubled
<1>7. News(n, m, c) = B \cup G \cup {h, x}
  BY DEF News
<1> HIDE DEF B, G, h, x
<1>8. \A e, f \in B : e.key = f.key => e = f
  <2> SUFFICES ASSUME NEW e \in B, NEW f \in B, e.key = f.key PROVE e = f
    OBVIOUS
  <2>1. e = ActiveFact(e.key, Trouble(e.key, n), n) /\ f = ActiveFact(f.key, Trouble(f.key, n), n)
    BY <1>2
  <2> QED
    BY <2>1
<1>9. \A e, f \in G : e.key = f.key => e = f
  <2> SUFFICES ASSUME NEW e \in G, NEW f \in G, e.key = f.key PROVE e = f
    OBVIOUS
  <2>1. e = ResolvedFact(e.key, n) /\ f = ResolvedFact(f.key, n)
    BY <1>3
  <2> QED
    BY <2>1
<1>10. \A e \in B, f \in G : e.key # f.key
  BY <1>2, <1>3
<1>11. \A e \in B \cup G : e.key # h.key /\ e.key # x.key
  BY <1>2, <1>3, <1>4, <1>5, <1>6
<1>12. h.key # x.key
  BY <1>4, <1>5
<1>13. \A e \in B \cup G \cup {h, x} : e.at = n
  BY <1>2, <1>3, <1>4, <1>5
<1>14. \A e, f \in B \cup G \cup {h, x} : e.key = f.key => e = f
  BY <1>8, <1>9, <1>10, <1>11, <1>12
<1> QED
  BY <1>7, <1>13, <1>14 DEF OneFactPerKey

\* A cycle at an instant of which the journal knows nothing raises nothing.
LEMMA CycleCalm ==
  ASSUME IsPlan(plan), NEW n \in Nat, NEW m, NEW c, NEW t, NEW i, Shows(t, i, AlertKeys), ~t.raised,
         \A e \in t.journal.events : e.at # n
  PROVE  ~SyncExecution(SyncMode(SyncHealth(t, n), m, n), c, n).raised
<1> DEFINE F == News(n, m, c)
           t1 == SyncHealth(t, n)
           t2 == SyncMode(t1, m, n)
           t3 == SyncExecution(t2, c, n)
           h == IF m = "HALTED" THEN ActiveFact(HaltedKey, "HALTED", n) ELSE ResolvedFact(HaltedKey, n)
           x == IF c # "0" THEN ActiveFact("execution:UNKNOWN", c, n) ELSE ResolvedFact("execution:UNKNOWN", n)
<1>1. OneFactPerKey(F, n)
  BY NewsFacts
<1>2. /\ \A k \in DOMAIN BadNews(n) : BadNews(n)[k] \in F
      /\ \A k \in DOMAIN GoodNews(n) : GoodNews(n)[k] \in F
      /\ h \in F /\ x \in F
  BY DEF News
<1> HIDE DEF F, h, x
<1>3. Calm(t, n, F)
  BY DEF Calm, Shows
<1>4. ASSUME NEW u, NEW v, Calm(u, n, F), DOMAIN v = DOMAIN u, v.journal = u.journal, v.raised = u.raised
      PROVE  Calm(v, n, F)
  BY <1>4 DEF Calm
<1>5. Calm(t1, n, F)
  <2> DEFINE u == FirstPass(t, n)
             s == HealthStamp(t, n)
             r == Ready(n)
  <2>1. Shows(u, i, AlertKeys) /\ (t1 = t \/ t1 = NoteEach(u, u.tele.alerts, GoodNews(n)))
    BY HealthPasses
  <2>2. s = [t EXCEPT !.tele.health = n, !.tele.ready = r]
    BY DEF HealthStamp
  <2>3. u = NoteEach(s, plan.components, BadNews(n))
    BY DEF FirstPass
  <2> HIDE DEF u, s, r, t1
  <2>4. DOMAIN s = DOMAIN t /\ s.journal = t.journal /\ s.raised = t.raised
    BY <2>2 DEF Shows
  <2>5. Calm(s, n, F)
    BY <1>3, <1>4, <2>4
  <2>6. PICK L : plan.components \in Seq(L)
    BY DEF IsPlan
  <2>7. Calm(u, n, F)
    BY <1>1, <1>2, <2>3, <2>5, <2>6, NoteEachCalm
  <2>8. u.tele.alerts \in Seq(AlertKeys)
    BY <2>1 DEF Shows
  <2>9. Calm(NoteEach(u, u.tele.alerts, GoodNews(n)), n, F)
    BY <1>1, <1>2, <2>7, <2>8, NoteEachCalm
  <2> QED
    BY <1>3, <2>1, <2>9
<1> HIDE DEF t1
<1>6. Calm(t2, n, F)
  <2> DEFINE u == [t1 EXCEPT !.tele.mode = n, !.tele.shown = m]
  <2>1. t2 = t1 \/ t2 = Note(u, h)
    BY DEF SyncMode, h
  <2>2. DOMAIN u = DOMAIN t1 /\ u.journal = t1.journal /\ u.raised = t1.raised
    BY <1>5 DEF Calm
  <2> HIDE DEF u, t2
  <2>3. Calm(u, n, F)
    BY <1>4, <1>5, <2>2
  <2>4. Calm(Note(u, h), n, F)
    BY <1>1, <1>2, <2>3, NoteCalm
  <2> QED
    BY <1>5, <2>1, <2>4
<1> HIDE DEF t2
<1>7. Calm(t3, n, F)
  <2> DEFINE u == [t2 EXCEPT !.tele.execution = n]
  <2>1. t3 = t2 \/ t3 = Note(u, x)
    BY DEF SyncExecution, x
  <2>2. DOMAIN u = DOMAIN t2 /\ u.journal = t2.journal /\ u.raised = t2.raised
    BY <1>6 DEF Calm
  <2> HIDE DEF u, t3
  <2>3. Calm(u, n, F)
    BY <1>4, <1>6, <2>2
  <2>4. Calm(Note(u, x), n, F)
    BY <1>1, <1>2, <2>3, NoteCalm
  <2> QED
    BY <1>6, <2>1, <2>4
<1>8. ~t3.raised
  BY <1>7 DEF Calm
<1> QED
  BY <1>8 DEF t2, t1

\* A supervisor cycle ends with an unready SIMULATION halted unless its request id was used
\* before or the journal already holds a fact of this instant (supervisor.py:48-87); facts
\* from before the clock was set back do not keep it from the halt.
THEOREM CyclesHalt == RuntimeSpec => TickHalts
<1>1. ASSUME Clock, Alerting, NEW id, NEW c, SupervisorTick(id, c), mode = "SIMULATION", ~Ready(now),
             Prior(id) = {}, \A e \in journal.events : e.at # now
      PROVE  mode' = "HALTED"
  <2> DEFINE t3 == SyncExecution(SyncMode(SyncHealth(Telemetry, now), mode, now), c, now)
             halt == ~t3.raised /\ MustHalt /\ Prior(id) = {}
  <2>1. session # None /\ (IF halt THEN Halt(id, "health-monitor") ELSE UNCHANGED <<mode, audit, armed>>)
    BY <1>1 DEF SupervisorTick, Does
  <2>2. /\ DOMAIN Telemetry = {"tele", "journal", "raised"} /\ Telemetry.tele = tele
        /\ Telemetry.journal = journal
    BY DEF Telemetry
  <2>3. ~Telemetry.raised
    BY DEF Telemetry
  <2>4. Shows(Telemetry, journal, AlertKeys)
    BY <1>1, <2>1, <2>2, AdvancesSelf DEF Alerting, Shows
  <2>5. IsPlan(plan) /\ now \in Nat /\ \A e \in Telemetry.journal.events : e.at # now
    BY <1>1, <2>2 DEF Clock
  <2>6. ~t3.raised
    BY <2>3, <2>4, <2>5, CycleCalm
  <2> HIDE DEF t3
  <2>7. halt
    BY <1>1, <2>6 DEF MustHalt
  <2>8. Halt(id, "health-monitor")
    BY <2>1, <2>7
  <2> QED
    BY <2>8 DEF Halt, Enter
<1>2. Clock /\ Held /\ Alerting /\ [RuntimeNext]_vars =>
        [\A id \in RequestId, n \in plan.unknown :
           /\ mode = "SIMULATION" /\ ~Ready(now) /\ SupervisorTick(id, n)
           /\ Prior(id) = {} /\ \A e \in journal.events : e.at # now
           => mode' = "HALTED"]_vars
  BY <1>1
<1> QED
  BY <1>2, AlertingInit, AlertingStep, HeldStep, PTL DEF RuntimeSpec, TickHalts

-----------------------------------------------------------------------------
(* What the caches and the audit hold.                                     *)

AtMostOne(S) == S = {} \/ \E x : S = {x}

\* As a cardinality.
LEMMA AtMostOneCounts == \A S : AtMostOne(S) => Cardinality(S) <= 1
  BY FS_EmptySet, FS_Singleton DEF AtMostOne

IsObservation(o) == o.healthy \in BOOLEAN /\ o.at \in Int

Seen(S) == AtMostOne(S) /\ \A o \in S : IsObservation(o)

\* Whatever the news, a component keeps at most one observation (health.py).
LEMMA ObservedSeen ==
  ASSUME NEW S, Seen(S), NEW h \in BOOLEAN, NEW at \in Int, NEW detail
  PROVE  Seen(Observed(S, [healthy |-> h, at |-> at, detail |-> detail]))
<1> DEFINE o == [healthy |-> h, at |-> at, detail |-> detail]
           c == [healthy |-> FALSE, at |-> o.at, detail |-> "CONFLICTING"]
<1>1. IsObservation(o)
  BY DEF IsObservation
<1>2. IsObservation(c)
  <2>1. o.at \in Int
    OBVIOUS
  <2> HIDE DEF o
  <2> QED
    BY <2>1 DEF IsObservation
<1>3. Observed(S, o) = S \/ Observed(S, o) = {o} \/ Observed(S, o) = {c}
  BY DEF Observed
<1> HIDE DEF o, c
<1>4. Seen({o}) /\ Seen({c})
  BY <1>1, <1>2 DEF Seen, AtMostOne
<1>5. Seen(Observed(S, o))
  BY <1>3, <1>4
<1> QED
  BY <1>5 DEF o

Memory ==
  /\ now \in 1..plan.clock /\ session \in plan.sessions \cup {None} /\ mode \in Modes
  /\ DOMAIN seen = Components /\ \A c \in Components : Seen(seen[c])
  /\ AtMostOne(quote) /\ AtMostOne(beat)

IsRow(r, n) == r.from \in Modes /\ r.to \in Modes /\ r.at \in 1..n

Rows(a, n) == (\E S : a \in Seq(S)) /\ \A r \in Range(a) : IsRow(r, n)

\* A row of a known mode is appended.
LEMMA RowsAppended ==
  ASSUME NEW a, NEW n, Rows(a, n), NEW r, IsRow(r, n)
  PROVE  Rows(Append(a, r), n)
<1>1. \A x \in Range(a) : IsRow(x, n)
  BY DEF Rows
<1>2. PICK S : a \in Seq(S)
  BY DEF Rows
<1> DEFINE T == S \cup {r}
           b == Append(a, r)
<1>3. S \subseteq T /\ r \in T
  OBVIOUS
<1> HIDE DEF T
<1>4. a \in Seq(T)
  BY <1>2, <1>3, Wider
<1>5. /\ b \in Seq(T) /\ Len(a) \in Nat /\ DOMAIN a = 1..Len(a) /\ DOMAIN b = 1..(Len(a) + 1)
      /\ b[Len(a) + 1] = r /\ \A x \in 1..Len(a) : b[x] = a[x]
  BY <1>3, <1>4
<1> HIDE DEF b
<1>6. \A x \in 1..(Len(a) + 1) : x \in 1..Len(a) \/ x = Len(a) + 1
  BY <1>5
<1>7. \A x \in Range(b) : x \in Range(a) \/ x = r
  BY <1>5, <1>6 DEF Range
<1> QED
  BY <1>1, <1>2, <1>5, <1>7 DEF Rows, b

\* Every step keeps the caches and the audit in shape.
LEMMA MemoryStep ==
  ASSUME Clock, Memory, Rows(audit, plan.clock), [RuntimeNext]_vars
  PROVE  Memory' /\ Rows(audit, plan.clock)'
<1>0. /\ IsPlan(plan) /\ now \in Nat /\ plan.clock \in Nat /\ now \in 1..plan.clock
      /\ plan.back \subseteq 1..plan.clock /\ "HALTED" \in Modes /\ "DISABLED" \in Modes /\ plan.health \subseteq BOOLEAN
      /\ plan.skew \subseteq Int
  BY DEF Clock, Memory, IsPlan, Modes
<1>1. UNCHANGED plan => Components' = Components
  BY DEF Components
<1>2. ASSUME UNCHANGED <<plan, now, session, mode, seen, quote, beat, audit>>
      PROVE  Memory' /\ Rows(audit, plan.clock)'
  BY <1>1, <1>2 DEF Memory
<1>3. ASSUME NEW c, NEW h \in BOOLEAN, NEW at \in Int, NEW detail, Observe(c, h, at, detail)
      PROVE  Memory' /\ Rows(audit, plan.clock)'
  <2> DEFINE new == Observed(seen[c], [healthy |-> h, at |-> at, detail |-> detail])
  <2>1. /\ c \in Components /\ seen' = [seen EXCEPT ![c] = new]
        /\ UNCHANGED <<plan, now, session, mode, quote, beat, audit>>
    BY <1>3 DEF Observe
  <2>2. Seen(seen[c])
    BY <2>1 DEF Memory
  <2>3. Seen(new)
    BY <2>2, ObservedSeen
  <2> HIDE DEF new
  <2>4. DOMAIN seen' = Components /\ \A x \in Components : Seen(seen'[x])
    BY <2>1, <2>3 DEF Memory
  <2> QED
    BY <1>1, <2>1, <2>4 DEF Memory
<1>4. ASSUME NEW price, NEW at, IngestQuote(price, at) PROVE Memory' /\ Rows(audit, plan.clock)'
  <2>1. (\E x : quote' = {x}) /\ UNCHANGED <<plan, now, session, mode, seen, beat, audit>>
    BY <1>4 DEF IngestQuote
  <2> QED
    BY <1>1, <2>1 DEF Memory, AtMostOne
<1>5. ASSUME NEW s, NEW n, NEW v, NEW at, IngestHeartbeat(s, n, v, at) PROVE Memory' /\ Rows(audit, plan.clock)'
  <2>1. (\E x : beat' = {x}) /\ UNCHANGED <<plan, now, session, mode, seen, quote, audit>>
    BY <1>5 DEF IngestHeartbeat
  <2> QED
    BY <1>1, <2>1 DEF Memory, AtMostOne
<1>6. CASE HealthStep
  <2>1. ASSUME NEW c, NEW h \in plan.health, Report(c, h) PROVE Memory' /\ Rows(audit, plan.clock)'
    <3>1. h \in BOOLEAN /\ Observe(c, h, now, "UNHEALTHY") /\ now \in Int
      BY <1>0, <2>1 DEF Report
    <3> QED
      BY <1>3, <3>1
  <2>2. ASSUME NEW gap, NEW resync, NEW at \in Int, ObserveQmt(gap, resync, at) PROVE Memory' /\ Rows(audit, plan.clock)'
    <3> DEFINE h == ~gap /\ ~resync
               d == IF gap THEN "INGRESS_GAP" ELSE "NEEDS_RESYNC"
    <3>1. h \in BOOLEAN
      OBVIOUS
    <3>2. Observe("QMT", h, at, d)
      BY <2>2 DEF ObserveQmt
    <3> HIDE DEF h, d
    <3> QED
      BY <1>3, <3>1, <3>2
  <2>3. ASSUME RefreshMarketData PROVE Memory' /\ Rows(audit, plan.clock)'
    <3> DEFINE h == FreshQuote(quote, now, Policy.marketAge)
    <3>1. h \in BOOLEAN
      BY DEF FreshQuote
    <3>2. Observe("MARKET_DATA", h, now, "MarketDataError")
      BY <2>3 DEF RefreshMarketData
    <3> HIDE DEF h
    <3> QED
      BY <1>0, <1>3, <3>1, <3>2
  <2>4. ASSUME RefreshStrategies PROVE Memory' /\ Rows(audit, plan.clock)'
    <3> DEFINE h == /\ FreshBeat(beat, now, Policy.strategyAge)
                    /\ \A b \in beat : b.version \in Policy.versions
    <3>1. h \in BOOLEAN
      OBVIOUS
    <3>2. Observe("STRATEGY", h, now, "StrategyRuntimeError")
      BY <2>4 DEF RefreshStrategies
    <3> HIDE DEF h
    <3> QED
      BY <1>0, <1>3, <3>1, <3>2
  <2>5. \A d \in plan.skew : now + d \in Int
    BY <1>0
  <2> QED
    BY <1>4, <1>5, <1>6, <2>1, <2>2, <2>3, <2>4, <2>5 DEF HealthStep
<1>7. CASE ControlStep
  <2>1. UNCHANGED <<plan, now, session, quote, beat>>
    BY <1>7, Transition
  <2>2. UNCHANGED seen
    BY <1>7 DEF ControlStep, RequestMode, EmergencyHalt, SupervisorTick, Shutdown
  <2>3. ASSUME UNCHANGED <<mode, audit>> PROVE Memory' /\ Rows(audit, plan.clock)'
    BY <1>2, <2>1, <2>2, <2>3
  <2>4. ASSUME NEW id, NEW to, NEW by, Enter(id, to, by, now), to \in Modes
        PROVE  Memory' /\ Rows(audit, plan.clock)'
    <3> DEFINE r == Row(id, to, by, now)
    <3>1. to \in Modes /\ mode \in Modes
      BY <1>0, <2>4 DEF Memory
    <3>2. IsRow(r, plan.clock)
      BY <1>0, <3>1 DEF IsRow, Row
    <3>3. audit' = Append(audit, r) /\ mode' = to
      BY <2>4 DEF Enter
    <3> HIDE DEF r
    <3>4. Rows(Append(audit, r), plan.clock)
      BY <3>2, RowsAppended
    <3>5. Rows(audit', plan'.clock)
      BY <2>1, <3>3, <3>4
    <3>6. Memory'
      BY <1>1, <2>1, <2>2, <3>1, <3>3 DEF Memory
    <3> QED
      BY <3>5, <3>6
  <2> QED
    BY <1>7, <2>3, <2>4, Transition
<1>8. CASE DecisionStep
  <2>1. UNCHANGED <<plan, now, session, mode, seen, quote, beat, audit>>
    BY <1>8 DEF DecisionStep, Account, EvaluateIntent, SubmitIntent, memory
  <2> QED
    BY <1>2, <2>1
<1>9. ASSUME mode' = "DISABLED", seen' = [c \in Components |-> {}], quote' = {}, beat' = {}, UNCHANGED plan,
              now' \in 1..plan.clock, session' \in plan.sessions \cup {None}
       PROVE  Memory'
  <2>1. DOMAIN seen' = Components /\ \A c \in Components : seen'[c] = {}
    BY <1>9
  <2>2. Seen({}) /\ AtMostOne({})
    BY DEF Seen, AtMostOne
  <2> QED
    BY <1>0, <1>1, <1>9, <2>1, <2>2 DEF Memory
<1>10. ASSUME NEW s \in plan.sessions, Start(s) PROVE Memory' /\ Rows(audit, plan.clock)'
  <2> DEFINE r == [id |-> <<"startup", s>>, session |-> s, from |-> "DISABLED",
                   to |-> "DISABLED", by |-> "system", at |-> now + 1]
  <2>1. audit' = Append(audit, r) /\ session' = s /\ now' = now + 1 /\ now < plan.clock /\ UNCHANGED plan
    BY <1>10 DEF Start
  <2>2. mode' = "DISABLED" /\ seen' = [c \in Components |-> {}] /\ quote' = {} /\ beat' = {}
    BY <1>10 DEF Start, NoMemory
  <2>3. now + 1 \in 1..plan.clock
    BY <1>0, <2>1
  <2>4. IsRow(r, plan.clock)
    BY <1>0, <2>3 DEF IsRow
  <2> HIDE DEF r
  <2>5. Rows(Append(audit, r), plan.clock)
    BY <2>4, RowsAppended
  <2>6. Rows(audit', plan'.clock)
    BY <2>1, <2>5
  <2>7. now' \in 1..plan.clock /\ session' \in plan.sessions \cup {None}
    BY <2>1, <2>3
  <2>8. Memory'
    BY <1>9, <2>1, <2>2, <2>7
  <2> QED
    BY <2>6, <2>8
<1>11. CASE Die
  <2>1. session' = None /\ UNCHANGED <<plan, now, audit>>
    BY <1>11 DEF Die
  <2>2. mode' = "DISABLED" /\ seen' = [c \in Components |-> {}] /\ quote' = {} /\ beat' = {}
    BY <1>11 DEF Die, NoMemory
  <2>3. now' \in 1..plan.clock /\ session' \in plan.sessions \cup {None}
    BY <1>0, <2>1
  <2>4. Memory'
    BY <1>9, <2>1, <2>2, <2>3
  <2> QED
    BY <2>1, <2>4
<1>12. CASE Wait \/ SetBack
  <2>1. now' \in 1..plan.clock
    BY <1>0, <1>12 DEF Wait, SetBack
  <2>2. UNCHANGED <<plan, session, mode, seen, quote, beat, audit>>
    BY <1>12 DEF Wait, SetBack, memory
  <2> QED
    BY <1>1, <2>1, <2>2 DEF Memory
<1>13. CASE UNCHANGED vars
  BY <1>2, <1>13 DEF vars, memory
<1> QED
  BY <1>6, <1>7, <1>8, <1>10, <1>11, <1>12, <1>13 DEF RuntimeNext

\* At the start the caches and the audit are empty.
LEMMA MemoryInit == RuntimeInit => Memory /\ Rows(audit, plan.clock)
<1> SUFFICES ASSUME RuntimeInit PROVE Memory /\ Rows(audit, plan.clock)
  OBVIOUS
<1>1. /\ now = 1 /\ session = None /\ mode = "DISABLED" /\ seen = [c \in Components |-> {}]
      /\ quote = {} /\ beat = {} /\ audit = <<>>
  BY DEF RuntimeInit
<1>2. plan.clock \in Nat \ {0}
  BY RuntimeAssumption DEF RuntimeInit, IsPlan
<1>3. now \in 1..plan.clock
  BY <1>1, <1>2
<1>4. Seen({}) /\ AtMostOne({})
  BY DEF Seen, AtMostOne
<1>5. Memory
  BY <1>1, <1>3, <1>4 DEF Memory, Modes
<1>6. audit \in Seq({}) /\ Range(audit) = {}
  BY <1>1 DEF Range
<1>7. Rows(audit, plan.clock)
  BY <1>6 DEF Rows
<1> QED
  BY <1>5, <1>7

\* The caches hold at most one fact each, whatever the order of the news, live modes are out of
\* reach, the audit's rows are of known modes, and the alert tables only
\* name known keys (health.py, strategy_api/runtime.py, market_data/service.py, mode.py).
THEOREM RuntimeTypes == RuntimeSpec => []RuntimeTypeOK
<1>1. Clock /\ Memory /\ Rows(audit, plan.clock) /\ Alerting => RuntimeTypeOK
  <2> SUFFICES ASSUME Clock, Memory, Rows(audit, plan.clock), Alerting PROVE RuntimeTypeOK
    OBVIOUS
  <2>1. armed \in 0..plan.clock
    BY DEF Clock
  <2>2. \A c \in Components : Cardinality(seen[c]) <= 1 /\ \A o \in seen[c] : o.healthy \in BOOLEAN
    BY AtMostOneCounts DEF Memory, Seen, IsObservation
  <2>3. Cardinality(quote) <= 1 /\ Cardinality(beat) <= 1
    BY AtMostOneCounts DEF Memory
  <2>4. \A r \in Range(audit) : {r.from, r.to} \subseteq Modes /\ r.at \in 1..plan.clock
    BY DEF Rows, IsRow
  <2>5. tele.alerts \in Seq(AlertKeys) /\ DOMAIN journal.rows \subseteq AlertKeys
    BY DEF Alerting
  <2>6. Range(tele.alerts) \subseteq AlertKeys
    <3> DEFINE K == AlertKeys
               s == tele.alerts
    <3>1. s \in Seq(K)
      BY <2>5
    <3> HIDE DEF K, s
    <3>2. Range(s) \subseteq K
      BY <3>1 DEF Range
    <3> QED
      BY <3>2 DEF K, s
  <2> QED
    BY <2>1, <2>2, <2>3, <2>4, <2>5, <2>6 DEF RuntimeTypeOK, Memory
<1> QED
  BY <1>1, MemoryInit, AlertingInit, AlertingStep, HeldStep, MemoryStep, PTL DEF RuntimeSpec

\* What a component is known by only goes forward.
Follows(S, T) == \A o \in S : \E p \in T : p = o \/ p.at > o.at \/ (p.at = o.at /\ ~p.healthy)

\* HealthRegistry.observe
LEMMA ObservedFollows ==
  ASSUME NEW S, Seen(S), NEW h, NEW at \in Int, NEW detail
  PROVE  Follows(S, Observed(S, [healthy |-> h, at |-> at, detail |-> detail]))
<1> DEFINE o == [healthy |-> h, at |-> at, detail |-> detail]
           c == [healthy |-> FALSE, at |-> o.at, detail |-> "CONFLICTING"]
<1>1. o.at \in Int
  OBVIOUS
<1>2. c.at = o.at
  OBVIOUS
<1>3. ~c.healthy
  OBVIOUS
<1>4. \/ Observed(S, o) = S
      \/ Observed(S, o) = {o} /\ \A p \in S : o.at > p.at
      \/ Observed(S, o) = {c} /\ (~\A p \in S : o.at > p.at) /\ (~\A p \in S : o.at < p.at)
  BY DEF Observed
<1> HIDE DEF o, c
<1>5. CASE Observed(S, o) = S
  BY <1>5 DEF Follows, o
<1>6. CASE Observed(S, o) = {o} /\ \A p \in S : o.at > p.at
  BY <1>6 DEF Follows, o
<1>7. CASE Observed(S, o) = {c} /\ (~\A p \in S : o.at > p.at) /\ (~\A p \in S : o.at < p.at)
  <2>1. PICK p : S = {p}
    BY <1>7 DEF Seen, AtMostOne
  <2>2. p.at \in Int
    BY <2>1 DEF Seen, IsObservation
  <2>3. ~(o.at > p.at) /\ ~(o.at < p.at)
    BY <1>7, <2>1
  <2>4. c.at = p.at
    BY <1>1, <1>2, <2>2, <2>3
  <2>5. Follows(S, {c})
    BY <1>3, <2>1, <2>4, Zenon DEF Follows
  <2> QED
    BY <1>7, <2>5 DEF o
<1> QED
  BY <1>4, <1>5, <1>6, <1>7

\* Within a process no news is replaced by older news, whatever order it arrives in and
\* wherever the clocks are set; at an equal instant only bad health or the next heartbeat of
\* the same strategy session replaces it (health.py:69-87, market_data/service.py:39-60,
\* strategy_api/runtime.py:73-96).
THEOREM NewsForward == RuntimeSpec => NewsAdvances
<1> DEFINE Quotes == \A q \in quote : \E p \in quote' : p = q \/ p.broker > q.broker
           Beats  == \A b \in beat : \E p \in beat' :
                       p = b \/ p.at > b.at \/ (p.at = b.at /\ p.session = b.session /\ p.seq > b.seq)
           All    == (\A c \in Components : Follows(seen[c], seen'[c])) /\ Quotes /\ Beats
<1>1. ASSUME Clock, Memory, [RuntimeNext]_vars, session # None, session' = session PROVE All
  <2>0. now \in Nat /\ plan.skew \subseteq Int /\ \A d \in plan.skew : now + d \in Int
    BY <1>1 DEF Clock, IsPlan
  <2>1. UNCHANGED quote => Quotes
    OBVIOUS
  <2>2. UNCHANGED beat => Beats
    OBVIOUS
  <2>3. UNCHANGED seen => \A c \in Components : Follows(seen[c], seen'[c])
    BY DEF Follows
  <2> HIDE DEF Quotes, Beats
  <2>4. UNCHANGED <<seen, quote, beat>> => All
    BY <2>1, <2>2, <2>3
  <2>5. ASSUME NEW c, NEW h, NEW at \in Int, NEW detail, Observe(c, h, at, detail) PROVE All
    <3> DEFINE new == Observed(seen[c], [healthy |-> h, at |-> at, detail |-> detail])
    <3>1. c \in Components /\ seen' = [seen EXCEPT ![c] = new] /\ UNCHANGED <<quote, beat>>
      BY <2>5 DEF Observe
    <3>2. Seen(seen[c]) /\ DOMAIN seen = Components
      BY <1>1, <3>1 DEF Memory
    <3>3. Follows(seen[c], new)
      BY <3>2, ObservedFollows
    <3> HIDE DEF new
    <3>4. \A x \in Components : x # c => Follows(seen[x], seen'[x])
      BY <3>1, <3>2 DEF Follows
    <3>5. Follows(seen[c], seen'[c])
      BY <3>1, <3>2, <3>3
    <3> QED
      BY <2>1, <2>2, <3>1, <3>4, <3>5
  <2>6. ASSUME NEW price, NEW at, IngestQuote(price, at) PROVE All
    <3> DEFINE n == [price |-> price, broker |-> at, seen |-> now]
    <3>1. quote' = {n} /\ (\A q \in quote : at > q.broker) /\ UNCHANGED <<seen, beat>>
      BY <2>6 DEF IngestQuote, NewerQuote
    <3>2. n.broker = at
      OBVIOUS
    <3> HIDE DEF n
    <3>3. Quotes
      BY <3>1, <3>2 DEF Quotes
    <3> QED
      BY <2>2, <2>3, <3>1, <3>3
  <2>7. ASSUME NEW s, NEW n, NEW v, NEW at \in Int, IngestHeartbeat(s, n, v, at) PROVE All
    <3> DEFINE b == [session |-> s, seq |-> n, at |-> at, version |-> v]
    <3>1. beat' = {b} /\ (\A old \in beat : NewerBeat(b, old)) /\ UNCHANGED <<seen, quote>>
      BY <2>7 DEF IngestHeartbeat
    <3>2. b.at \in Int /\ \A old \in beat : old.at \in Int
      BY <1>1 DEF Clock
    <3> HIDE DEF b
    <3>3. ASSUME NEW old \in beat
          PROVE  b.at > old.at \/ (b.at = old.at /\ b.session = old.session /\ b.seq > old.seq)
      BY <3>1, <3>2 DEF NewerBeat
    <3>4. Beats
      BY <3>1, <3>3 DEF Beats
    <3> QED
      BY <2>1, <2>3, <3>1, <3>4
  <2> HIDE DEF All
  <2>8. CASE HealthStep
    <3>1. ASSUME NEW c, NEW h, Report(c, h) PROVE All
      BY <2>0, <2>5, <3>1 DEF Report
    <3>2. ASSUME NEW gap, NEW resync, NEW at \in Int, ObserveQmt(gap, resync, at) PROVE All
      <4>1. PICK h, d : Observe("QMT", h, at, d)
        BY <3>2 DEF ObserveQmt
      <4> QED
        BY <2>5, <4>1
    <3>3. ASSUME RefreshMarketData PROVE All
      <4>1. PICK h, d : Observe("MARKET_DATA", h, now, d)
        BY <3>3 DEF RefreshMarketData
      <4> QED
        BY <2>0, <2>5, <4>1
    <3>4. ASSUME RefreshStrategies PROVE All
      <4>1. PICK h, d : Observe("STRATEGY", h, now, d)
        BY <3>4 DEF RefreshStrategies
      <4> QED
        BY <2>0, <2>5, <4>1
    <3> QED
      BY <2>0, <2>6, <2>7, <2>8, <3>1, <3>2, <3>3, <3>4 DEF HealthStep
  <2>9. CASE ControlStep \/ DecisionStep \/ Wait \/ SetBack \/ UNCHANGED vars
    <3>1. CASE ControlStep
      <4>1. UNCHANGED <<seen, quote, beat>>
        BY <3>1 DEF ControlStep, RequestMode, EmergencyHalt, SupervisorTick, Shutdown
      <4> QED
        BY <2>4, <4>1
    <3>2. CASE DecisionStep
      <4>1. UNCHANGED <<seen, quote, beat>>
        BY <3>2 DEF DecisionStep, Account, EvaluateIntent, SubmitIntent, memory
      <4> QED
        BY <2>4, <4>1
    <3>3. CASE Wait \/ SetBack \/ UNCHANGED vars
      <4>1. UNCHANGED <<seen, quote, beat>>
        BY <3>3 DEF Wait, SetBack, vars, memory
      <4> QED
        BY <2>4, <4>1
    <3> QED
      BY <2>9, <3>1, <3>2, <3>3
  <2>10. ~Die /\ \A s : ~Start(s)
    BY <1>1 DEF Die, Start
  <2> QED
    BY <1>1, <2>8, <2>9, <2>10 DEF RuntimeNext
<1>2. Clock /\ Held /\ Memory /\ [RuntimeNext]_vars =>
        [session # None /\ session' = session =>
           /\ \A c \in Components : \A o \in seen[c] : \E p \in seen'[c] :
                p = o \/ p.at > o.at \/ (p.at = o.at /\ ~p.healthy)
           /\ \A q \in quote : \E p \in quote' : p = q \/ p.broker > q.broker
           /\ \A b \in beat : \E p \in beat' :
                p = b \/ p.at > b.at \/ (p.at = b.at /\ p.session = b.session /\ p.seq > b.seq)]_vars
  BY <1>1, Zenon DEF Follows
<1> QED
  BY <1>2, AlertingInit, MemoryInit, HeldStep, MemoryStep, PTL DEF RuntimeSpec, NewsAdvances

\* The newest fact wins, in the alert journal (alert_store.py:160, 237) and in the caches of a
\* process (health.py:69-87, market_data/service.py:39-60, strategy_api/runtime.py:73-96).
THEOREM NewestFactsWin == RuntimeSpec => NewestWins
  BY AlertsForward, NewsForward DEF NewestWins
=============================================================================
