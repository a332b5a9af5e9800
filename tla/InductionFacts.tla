--------------------------- MODULE InductionFacts ---------------------------
(***************************************************************************)
(* Induction for the proofs of the other modules, with the property to be  *)
(* shown given as the set of what has it, and by it that folds and sums    *)
(* over finite sets exist and what they keep.                              *)
(***************************************************************************)
EXTENDS FiniteSetTheorems, FunctionTheorems, FiniteSetsExt, TLAPS

\* A non-empty set of natural numbers has a least member: strict inclusion of
\* the intervals 0 .. m is well-founded.
LEMMA LeastNatural ==
    ASSUME NEW T \in SUBSET Nat, T # {}
    PROVE  \E n \in T : \A m \in T : n <= m
<1>1. PICK k \in T : TRUE
    OBVIOUS
<1> DEFINE S == 0 .. k
           intervals == {0 .. m : m \in {n \in T : n <= k}}
<1>2. IsWellFoundedOn(StrictSubsetOrdering(S), SUBSET S)
    <2>1. IsFiniteSet(S)
        BY <1>1, FS_Interval
    <2> QED BY <2>1, FS_StrictSubsetOrderingWellFounded,
               FS_FiniteSubsetsOfFinite
<1>3. intervals \subseteq SUBSET S /\ intervals # {}
    BY <1>1
<1>4. PICK U \in intervals :
        \A V \in intervals : <<V, U>> \notin StrictSubsetOrdering(S)
    <2> HIDE DEF intervals, S
    <2> QED BY <1>2, <1>3, WFMin
<1>5. PICK n \in T : n <= k /\ U = 0 .. n
    BY <1>4
<1>6. ASSUME NEW m \in T, m < n PROVE FALSE
    <2>1. /\ 0 .. m \in intervals
          /\ 0 .. m \subseteq 0 .. n
          /\ n \in 0 .. n /\ n \notin 0 .. m
        BY <1>5, <1>6
    <2>2. 0 .. m \in SUBSET S /\ 0 .. n \in SUBSET S
        BY <1>5, <1>6
    <2>3. <<0 .. m, 0 .. n>> \in StrictSubsetOrdering(S)
        BY <2>1, <2>2 DEF StrictSubsetOrdering
    <2> QED BY <2>1, <2>3, <1>4, <1>5
<1> QED BY <1>6

\* A set that holds 0 and, with every number, the next, holds them all.
LEMMA InductionOnNat ==
    ASSUME NEW T \in SUBSET Nat, 0 \in T, \A n \in T : n + 1 \in T
    PROVE  T = Nat
<1> SUFFICES ASSUME Nat \ T # {} PROVE FALSE
    OBVIOUS
<1>1. PICK n \in Nat \ T : \A m \in Nat \ T : n <= m
    BY LeastNatural
<1> QED BY <1>1

\* Some set of a non-empty set of subsets of a finite set has no proper subset
\* among them.
LEMMA LeastSubset ==
    ASSUME NEW S, IsFiniteSet(S), NEW B \in SUBSET SUBSET S, B # {}
    PROVE  \E U \in B : \A V \in B : V \subseteq U => V = U
<1>1. IsWellFoundedOn(StrictSubsetOrdering(S), SUBSET S)
    <2>1. FiniteSubsetsOf(S) = SUBSET S
        BY FS_FiniteSubsetsOfFinite
    <2> QED BY <2>1, FS_StrictSubsetOrderingWellFounded
<1>2. PICK U \in B : \A V \in B : <<V, U>> \notin StrictSubsetOrdering(S)
    BY <1>1, WFMin
<1>3. ASSUME NEW V \in B, V \subseteq U, V # U PROVE FALSE
    <2>1. <<V, U>> \in StrictSubsetOrdering(S)
        BY <1>3 DEF StrictSubsetOrdering
    <2> QED BY <1>2, <2>1
<1> QED BY <1>3

\* What holds of the empty set, and of T with one more element of the finite
\* set S whenever it holds of T, holds of every subset of S.
LEMMA InductionOnSubsets ==
    ASSUME NEW S, IsFiniteSet(S), NEW Q,
           {} \in Q,
           \A T \in SUBSET S : \A x \in S \ T : T \in Q => T \cup {x} \in Q
    PROVE  \A T \in SUBSET S : T \in Q
<1> SUFFICES ASSUME (SUBSET S) \ Q # {} PROVE FALSE
    OBVIOUS
<1> DEFINE bad == (SUBSET S) \ Q
<1>1. PICK U \in bad : \A V \in bad : V \subseteq U => V = U
    <2>1. bad \in SUBSET SUBSET S /\ bad # {}
        OBVIOUS
    <2> HIDE DEF bad
    <2> QED BY <2>1, LeastSubset
<1>2. PICK x \in U : TRUE
    BY <1>1
<1>3. U \ {x} \in Q
    BY <1>1, <1>2
<1>4. U = (U \ {x}) \cup {x} /\ x \in S \ (U \ {x}) /\ U \ {x} \in SUBSET S
    BY <1>1, <1>2
<1> QED BY <1>1, <1>3, <1>4

-----------------------------------------------------------------------------
(* Folds over a finite set, as the community modules define them: one      *)
(* element is picked and taken away at a time.  step[x][v] is what x makes *)
(* of the result v for the others.                                         *)

IsFold(g, S, pick, base, step) ==
    g = [s \in SUBSET S |->
            IF s = {} THEN base ELSE step[pick[s]][g[s \ {pick[s]}]]]

IsPick(pick, S) == \A s \in SUBSET S : s # {} => pick[s] \in s

\* Sets of at most n elements have a fold, for every n.
IsFoldUpto(n, g, S, pick, base, step) ==
    g = [s \in SUBSET S |->
            IF Cardinality(s) > n \/ s = {} THEN base
            ELSE step[pick[s]][g[s \ {pick[s]}]]]

LEMMA PartialFold ==
    ASSUME NEW S, IsFiniteSet(S), NEW pick, IsPick(pick, S),
           NEW base, NEW step, NEW n \in Nat
    PROVE  \E g : IsFoldUpto(n, g, S, pick, base, step)
<1> DEFINE Upto(g, m) == IsFoldUpto(m, g, S, pick, base, step)
           T == {m \in Nat : \E g : Upto(g, m)}
<1>1. \A s \in SUBSET S : Cardinality(s) \in Nat /\ IsFiniteSet(s)
    BY FS_Subset, FS_CardinalityType
<1>2. 0 \in T
    <2> DEFINE g == [s \in SUBSET S |-> base]
    <2>1. \A s \in SUBSET S : Cardinality(s) > 0 \/ s = {}
        BY <1>1, FS_EmptySet
    <2>2. Upto(g, 0)
        BY <2>1 DEF IsFoldUpto
    <2> HIDE DEF g, Upto
    <2> QED BY <2>2
<1>3. ASSUME NEW m \in T PROVE m + 1 \in T
    <2>1. PICK g : Upto(g, m)
        OBVIOUS
    <2> DEFINE h == [s \in SUBSET S |->
                        IF Cardinality(s) > m + 1 \/ s = {} THEN base
                        ELSE step[pick[s]][g[s \ {pick[s]}]]]
    <2>2. ASSUME NEW s \in SUBSET S, Cardinality(s) <= m
          PROVE  h[s] = g[s]
        <3>1. g[s] = IF Cardinality(s) > m \/ s = {} THEN base
                     ELSE step[pick[s]][g[s \ {pick[s]}]]
            BY <2>1 DEF IsFoldUpto
        <3>2. ~(Cardinality(s) > m) /\ ~(Cardinality(s) > m + 1)
            BY <1>1, <2>2
        <3> QED BY <3>1, <3>2
    <2>3. ASSUME NEW s \in SUBSET S, s # {}, Cardinality(s) <= m + 1
          PROVE  h[s \ {pick[s]}] = g[s \ {pick[s]}]
        <3>1. pick[s] \in s /\ s \ {pick[s]} \in SUBSET S
            BY <2>3 DEF IsPick
        <3>2. Cardinality(s \ {pick[s]}) = Cardinality(s) - 1
            BY <1>1, <3>1, FS_RemoveElement
        <3>3. Cardinality(s \ {pick[s]}) <= m
            BY <1>1, <2>3, <3>2
        <3> HIDE DEF h
        <3> QED BY <2>2, <3>1, <3>3
    <2>4. Upto(h, m + 1)
        <3>1. \A s \in SUBSET S :
                h[s] = IF Cardinality(s) > m + 1 \/ s = {} THEN base
                       ELSE step[pick[s]][h[s \ {pick[s]}]]
            <4> SUFFICES ASSUME NEW s \in SUBSET S, s # {},
                                ~(Cardinality(s) > m + 1)
                         PROVE  h[s] = step[pick[s]][h[s \ {pick[s]}]]
                OBVIOUS
            <4>1. h[s] = step[pick[s]][g[s \ {pick[s]}]]
                OBVIOUS
            <4>2. h[s \ {pick[s]}] = g[s \ {pick[s]}]
                <5> HIDE DEF h
                <5> QED BY <1>1, <2>3
            <4> HIDE DEF h
            <4> QED BY <4>1, <4>2
        <3>2. h = [s \in SUBSET S |-> h[s]]
            OBVIOUS
        <3> HIDE DEF h
        <3> QED BY <3>1, <3>2 DEF IsFoldUpto
    <2> HIDE DEF Upto, h
    <2> QED BY <2>4
<1>4. T \in SUBSET Nat
    OBVIOUS
<1> HIDE DEF T
<1>5. n \in T
    BY <1>2, <1>3, <1>4, InductionOnNat
<1> QED BY <1>5 DEF T

LEMMA FoldExists ==
    ASSUME NEW S, IsFiniteSet(S), NEW pick, IsPick(pick, S),
           NEW base, NEW step
    PROVE  \E g : IsFold(g, S, pick, base, step)
<1>1. Cardinality(S) \in Nat
    BY FS_CardinalityType
<1>2. PICK g : IsFoldUpto(Cardinality(S), g, S, pick, base, step)
    BY <1>1, PartialFold
<1>3. \A s \in SUBSET S : ~(Cardinality(s) > Cardinality(S))
    BY <1>1, FS_Subset, FS_CardinalityType
<1>4. \A s \in SUBSET S :
        g[s] = IF s = {} THEN base ELSE step[pick[s]][g[s \ {pick[s]}]]
    BY <1>2, <1>3 DEF IsFoldUpto
<1>5. g = [s \in SUBSET S |-> g[s]]
    BY <1>2 DEF IsFoldUpto
<1> QED BY <1>4, <1>5 DEF IsFold

\* D holds the base and what every element makes of its members.
Keeps(D, S, base, step) ==
    base \in D /\ \A x \in S : \A v \in D : step[x][v] \in D

\* Such a set holds all of the fold.
LEMMA FoldType ==
    ASSUME NEW S, IsFiniteSet(S), NEW pick, IsPick(pick, S),
           NEW base, NEW step, NEW g, IsFold(g, S, pick, base, step),
           NEW D, Keeps(D, S, base, step)
    PROVE  \A s \in SUBSET S : g[s] \in D
<1>1. \A s \in SUBSET S :
        g[s] = IF s = {} THEN base ELSE step[pick[s]][g[s \ {pick[s]}]]
    BY DEF IsFold
<1> DEFINE bad == {s \in SUBSET S : g[s] \notin D}
<1> SUFFICES ASSUME bad # {} PROVE FALSE
    OBVIOUS
<1>2. PICK U \in bad : \A V \in bad : V \subseteq U => V = U
    <2>1. bad \in SUBSET SUBSET S
        OBVIOUS
    <2> HIDE DEF bad
    <2> QED BY <2>1, LeastSubset
<1>3. U # {} /\ pick[U] \in U
    BY <1>1, <1>2 DEF IsPick, Keeps
<1>4. U \ {pick[U]} \in SUBSET S /\ U \ {pick[U]} # U
    BY <1>2, <1>3
<1>5. g[U \ {pick[U]}] \in D
    BY <1>2, <1>4
<1>6. pick[U] \in S /\ U \in SUBSET S
    BY <1>2, <1>3
<1>7. g[U] = step[pick[U]][g[U \ {pick[U]}]]
    BY <1>1, <1>3, <1>6
<1>8. g[U] \in D
    BY <1>5, <1>6, <1>7 DEF Keeps
<1> QED BY <1>2, <1>8

\* A fold over a sequence, as the community modules define it, takes away the
\* last of its positions.
LastOf(list) == [s \in SUBSET DOMAIN list |-> Max(s)]

\* The last of some positions.
LEMMA LastPosition ==
    ASSUME NEW n \in Nat, NEW s \in SUBSET (1 .. n), s # {}
    PROVE  Max(s) \in s /\ \A i \in s : i <= Max(s)
<1> DEFINE T == {m \in Nat : n - m \in s}
<1>1. PICK i \in s : TRUE
    OBVIOUS
<1>2. n - i \in T
    BY <1>1
<1>3. PICK m \in T : \A k \in T : m <= k
    <2> HIDE DEF T
    <2>1. T \in SUBSET Nat /\ T # {}
        BY <1>2 DEF T
    <2> QED BY <2>1, LeastNatural
<1>4. n - m \in s /\ \A j \in s : n - j \in T
    OBVIOUS
<1>5. \A j \in s : n - m >= j
    <2> SUFFICES ASSUME NEW j \in s PROVE n - m >= j
        OBVIOUS
    <2>1. m <= n - j
        BY <1>3, <1>4
    <2> QED BY <2>1
<1>6. \E x \in s : \A y \in s : x >= y
    BY <1>4, <1>5
<1>7. Max(s) \in s /\ \A y \in s : Max(s) >= y
    BY <1>6 DEF Max
<1> QED BY <1>7

-----------------------------------------------------------------------------
(* Sums over a finite set, as MapThenSumSet takes them.                    *)

\* g maps every subset of S to the sum of w over it.
IsSum(g, S, w) ==
    g = [s \in SUBSET S |->
            IF s = {} THEN 0
            ELSE w[CHOOSE x \in s : TRUE] + g[s \ {CHOOSE x \in s : TRUE}]]

LEMMA SumExists ==
    ASSUME NEW S, IsFiniteSet(S), NEW w \in [S -> Int]
    PROVE  \E g : IsSum(g, S, w)
<1> DEFINE pick == [s \in SUBSET S |-> CHOOSE x \in s : TRUE]
           step == [x \in S |-> [v \in Int |-> w[x] + v]]
<1>1. IsPick(pick, S)
    BY DEF IsPick
<1>2. \A x \in S : \A v \in Int : step[x][v] = w[x] + v /\ step[x][v] \in Int
    OBVIOUS
<1>3. \A s \in SUBSET S : pick[s] = CHOOSE x \in s : TRUE
    OBVIOUS
<1> HIDE DEF pick, step
<1>4. PICK g : IsFold(g, S, pick, 0, step)
    BY <1>1, FoldExists
<1>5. \A s \in SUBSET S : g[s] \in Int
    <2>1. Keeps(Int, S, 0, step)
        BY <1>2 DEF Keeps
    <2> QED BY <1>1, <1>4, <2>1, FoldType
<1>6. ASSUME NEW s \in SUBSET S
      PROVE  g[s] = IF s = {} THEN 0
                    ELSE w[CHOOSE x \in s : TRUE] + g[s \ {CHOOSE x \in s : TRUE}]
    <2>1. g[s] = IF s = {} THEN 0 ELSE step[pick[s]][g[s \ {pick[s]}]]
        BY <1>4 DEF IsFold
    <2>2. CASE s = {}
        BY <2>1, <2>2
    <2>3. CASE s # {}
        <3>1. pick[s] \in S /\ g[s \ {pick[s]}] \in Int
            BY <1>1, <1>5, <2>3 DEF IsPick
        <3>2. g[s] = w[pick[s]] + g[s \ {pick[s]}]
            BY <1>2, <2>1, <2>3, <3>1
        <3> QED BY <1>3, <2>3, <3>2
    <2> QED BY <2>2, <2>3
<1>7. g = [s \in SUBSET S |-> g[s]]
    BY <1>4 DEF IsFold
<1> DEFINE body == [s \in SUBSET S |->
                        IF s = {} THEN 0
                        ELSE w[CHOOSE x \in s : TRUE]
                                + g[s \ {CHOOSE x \in s : TRUE}]]
<1>8. \A s \in SUBSET S : body[s] = g[s]
    BY <1>6
<1>9. body = [s \in SUBSET S |-> body[s]]
    OBVIOUS
<1>10. g = body
    <2> HIDE DEF body
    <2> QED BY <1>7, <1>8, <1>9
<1> QED BY <1>10, Zenon DEF IsSum

\* A sum takes the elements in any order.
LEMMA SumFacts ==
    ASSUME NEW S, IsFiniteSet(S), NEW w \in [S -> Int], NEW g, IsSum(g, S, w)
    PROVE  /\ g[{}] = 0
           /\ \A s \in SUBSET S : g[s] \in Int
           /\ \A s \in SUBSET S : \A x \in s : g[s] = w[x] + g[s \ {x}]
<1> DEFINE First(s) == CHOOSE x \in s : TRUE
<1>1. \A s \in SUBSET S :
        g[s] = IF s = {} THEN 0 ELSE w[First(s)] + g[s \ {First(s)}]
    BY DEF IsSum
<1>2. \A s \in SUBSET S : s # {} => First(s) \in s
    OBVIOUS
<1> HIDE DEF First
<1>3. \A s \in SUBSET S : g[s] \in Int
    <2> DEFINE bad == {s \in SUBSET S : g[s] \notin Int}
    <2> SUFFICES ASSUME bad # {} PROVE FALSE
        OBVIOUS
    <2>1. PICK U \in bad : \A V \in bad : V \subseteq U => V = U
        <3>1. bad \in SUBSET SUBSET S
            OBVIOUS
        <3> HIDE DEF bad
        <3> QED BY <3>1, LeastSubset
    <2>2. U # {} /\ First(U) \in U /\ U \in SUBSET S
        BY <1>1, <1>2, <2>1
    <2>3. g[U \ {First(U)}] \in Int
        BY <2>1, <2>2
    <2>4. g[U] = w[First(U)] + g[U \ {First(U)}] /\ w[First(U)] \in Int
        BY <1>1, <2>2
    <2> HIDE DEF bad
    <2>5. g[U] \in Int
        BY <2>3, <2>4
    <2> QED BY <2>1, <2>5 DEF bad
<1>4. \A s \in SUBSET S : \A x \in s : g[s] = w[x] + g[s \ {x}]
    <2> DEFINE bad == {s \in SUBSET S : \E x \in s : g[s] # w[x] + g[s \ {x}]}
    <2> SUFFICES ASSUME bad # {} PROVE FALSE
        OBVIOUS
    <2>1. PICK U \in bad : \A V \in bad : V \subseteq U => V = U
        <3>1. bad \in SUBSET SUBSET S
            OBVIOUS
        <3> HIDE DEF bad
        <3> QED BY <3>1, LeastSubset
    <2>2. PICK x \in U : g[U] # w[x] + g[U \ {x}]
        BY <2>1
    <2> DEFINE c == First(U)
    <2>3. /\ U \in SUBSET S /\ c \in U
          /\ g[U] = w[c] + g[U \ {c}]
        BY <1>1, <1>2, <2>1, <2>2
    <2> HIDE DEF c
    <2>4. c # x
        BY <2>2, <2>3
    <2>5. /\ U \ {c} \in SUBSET S /\ U \ {c} \notin bad
          /\ U \ {x} \in SUBSET S /\ U \ {x} \notin bad
        BY <2>1, <2>3
    <2>6. /\ g[U \ {c}] = w[x] + g[(U \ {c}) \ {x}]
          /\ g[U \ {x}] = w[c] + g[(U \ {x}) \ {c}]
        BY <2>2, <2>3, <2>4, <2>5
    <2> DEFINE rest == (U \ {c}) \ {x}
    <2>7. (U \ {x}) \ {c} = rest /\ rest \in SUBSET S
        BY <2>3
    <2>8. w[x] \in Int /\ w[c] \in Int /\ g[rest] \in Int
        BY <1>3, <2>3, <2>7
    <2>9. g[U] = w[c] + (w[x] + g[rest])
        BY <2>3, <2>6
    <2>10. g[U \ {x}] = w[c] + g[rest]
        BY <2>6, <2>7
    <2>11. w[c] + (w[x] + g[rest]) = w[x] + (w[c] + g[rest])
        <3> HIDE DEF rest
        <3> QED BY <2>8
    <2> HIDE DEF rest
    <2> QED BY <2>2, <2>9, <2>10, <2>11
<1> QED BY <1>1, <1>3, <1>4

\* A sum of naturals is one.
LEMMA SumOfNaturals ==
    ASSUME NEW S, IsFiniteSet(S), NEW w \in [S -> Nat], NEW g, IsSum(g, S, w)
    PROVE  \A s \in SUBSET S : g[s] \in Nat
<1>1. w \in [S -> Int]
    OBVIOUS
<1>2. /\ g[{}] = 0
      /\ \A s \in SUBSET S : \A x \in s : g[s] = w[x] + g[s \ {x}]
    BY <1>1, SumFacts
<1> DEFINE bad == {s \in SUBSET S : g[s] \notin Nat}
<1> SUFFICES ASSUME bad # {} PROVE FALSE
    OBVIOUS
<1>3. PICK U \in bad : \A V \in bad : V \subseteq U => V = U
    <2>1. bad \in SUBSET SUBSET S
        OBVIOUS
    <2> HIDE DEF bad
    <2> QED BY <2>1, LeastSubset
<1>4. U \in SUBSET S /\ U # {} /\ g[U] \notin Nat
    <2>1. {} \notin bad
        BY <1>2
    <2> QED BY <1>3, <2>1
<1>5. PICK x \in S : x \in U
    BY <1>4
<1>6. g[U \ {x}] \in Nat
    BY <1>3, <1>4, <1>5
<1>7. g[U] = w[x] + g[U \ {x}] /\ w[x] \in Nat
    BY <1>2, <1>4, <1>5
<1> HIDE DEF bad
<1>8. g[U] \in Nat
    BY <1>6, <1>7
<1> QED BY <1>4, <1>8

\* Sums of the same terms are the same, whatever the elements are called.
LEMMA SumOfImage ==
    ASSUME NEW S, IsFiniteSet(S), NEW w \in [S -> Int], NEW g, IsSum(g, S, w),
           NEW T, IsFiniteSet(T), NEW u \in [T -> Int], NEW h, IsSum(h, T, u),
           NEW f \in [S -> T],
           \A x \in S, y \in S : f[x] = f[y] => x = y,
           \A x \in S : u[f[x]] = w[x]
    PROVE  \A s \in SUBSET S : h[{f[x] : x \in s}] = g[s]
<1> DEFINE Image(s) == {f[x] : x \in s}
           bad == {s \in SUBSET S : h[Image(s)] # g[s]}
<1> SUFFICES ASSUME bad # {} PROVE FALSE
    OBVIOUS
<1>1. PICK U \in bad : \A V \in bad : V \subseteq U => V = U
    <2>1. bad \in SUBSET SUBSET S
        OBVIOUS
    <2> HIDE DEF bad
    <2> QED BY <2>1, LeastSubset
<1>2. /\ g[{}] = 0 /\ h[{}] = 0
      /\ \A s \in SUBSET S : \A x \in s : g[s] = w[x] + g[s \ {x}]
      /\ \A t \in SUBSET T : \A y \in t : h[t] = u[y] + h[t \ {y}]
    BY SumFacts
<1>3. U \in SUBSET S /\ h[Image(U)] # g[U]
    BY <1>1
<1>4. U # {}
    <2>1. Image({}) = {}
        OBVIOUS
    <2> HIDE DEF Image
    <2> QED BY <1>2, <1>3, <2>1
<1>5. PICK x : x \in U
    BY <1>4
<1>6. /\ Image(U) \in SUBSET T /\ f[x] \in Image(U)
      /\ Image(U) \ {f[x]} = Image(U \ {x})
    BY <1>3, <1>5
<1>7. h[Image(U \ {x})] = g[U \ {x}]
    <2>1. U \ {x} \in SUBSET S /\ U \ {x} \subseteq U /\ U \ {x} # U
        BY <1>3, <1>5
    <2> HIDE DEF Image
    <2> QED BY <1>1, <2>1
<1> HIDE DEF Image, bad
<1>8. h[Image(U)] = u[f[x]] + h[Image(U \ {x})]
    <2>1. h[Image(U)] = u[f[x]] + h[Image(U) \ {f[x]}]
        BY <1>2, <1>6
    <2> QED BY <1>6, <2>1
<1>9. g[U] = w[x] + g[U \ {x}]
    BY <1>2, <1>3, <1>5
<1>10. u[f[x]] = w[x]
    BY <1>3, <1>5
<1> QED BY <1>3, <1>7, <1>8, <1>9, <1>10

\* The image of a finite set is finite.
LEMMA ImageIsFinite ==
    ASSUME NEW S, IsFiniteSet(S), NEW f
    PROVE  IsFiniteSet({f[x] : x \in S})
<1> DEFINE T == {f[x] : x \in S}
           h == [x \in S |-> f[x]]
<1>1. h \in Surjection(S, T)
    <2>1. h \in [S -> T] /\ \A t \in T : \E x \in S : h[x] = t
        OBVIOUS
    <2> HIDE DEF h, T
    <2> QED BY <2>1, Fun_IsSurj
<1> HIDE DEF h, T
<1> QED BY <1>1, FS_Surjection DEF T

\* A sum lies between the least and the greatest term, counted once for each
\* element.
LEMMA SumBounds ==
    ASSUME NEW S, IsFiniteSet(S), NEW w \in [S -> Int], NEW g, IsSum(g, S, w),
           NEW low \in Int, NEW high \in Int,
           \A x \in S : low <= w[x] /\ w[x] <= high
    PROVE  /\ Cardinality(S) \in Nat
           /\ low * Cardinality(S) <= g[S] /\ g[S] <= high * Cardinality(S)
<1>1. /\ g[{}] = 0
      /\ \A s \in SUBSET S : g[s] \in Int
      /\ \A s \in SUBSET S : \A x \in s : g[s] = w[x] + g[s \ {x}]
    <2>1. w \in [S -> Int] /\ IsFiniteSet(S) /\ IsSum(g, S, w)
        OBVIOUS
    <2> QED BY ONLY <2>1, SumFacts
<1> DEFINE Within(s) ==
        low * Cardinality(s) <= g[s] /\ g[s] <= high * Cardinality(s)
           bad == {s \in SUBSET S : ~Within(s)}
<1>2. bad = {}
    <2> SUFFICES ASSUME bad # {} PROVE FALSE
        OBVIOUS
    <2>1. PICK U \in bad : \A V \in bad : V \subseteq U => V = U
        <3>1. bad \in SUBSET SUBSET S
            OBVIOUS
        <3> HIDE DEF bad
        <3> QED BY <3>1, LeastSubset
    <2>2. U \in SUBSET S /\ ~Within(U)
        BY <2>1
    <2>3. U # {}
        <3>1. Within({})
            BY <1>1, FS_EmptySet
        <3> QED BY <2>2, <3>1
    <2>4. PICK x \in S : x \in U
        BY <2>2, <2>3
    <2> DEFINE V == U \ {x}
               n == Cardinality(V)
    <2>5. V \in SUBSET S /\ V \subseteq U /\ V # U
        BY <2>2, <2>4
    <2>6. Within(V)
        BY <2>1, <2>5
    <2>7. n \in Nat /\ Cardinality(U) = n + 1
        <3>1. IsFiniteSet(U)
            BY <2>2, FS_Subset
        <3>2. IsFiniteSet(V) /\ Cardinality(V) = Cardinality(U) - 1
            BY <2>4, <3>1, FS_RemoveElement
        <3>3. Cardinality(U) \in Nat /\ Cardinality(V) \in Nat
            BY <3>1, <3>2, FS_CardinalityType
        <3> HIDE DEF V
        <3> QED BY <3>2, <3>3
    <2>8. g[U] = w[x] + g[V] /\ g[V] \in Int /\ w[x] \in Int
        BY <1>1, <2>2, <2>4, <2>5
    <2>9. low <= w[x] /\ w[x] <= high
        OBVIOUS
    <2>10. low * n <= g[V] /\ g[V] <= high * n
        BY <2>6
    <2> HIDE DEF bad, V, n
    <2>11. low * (n + 1) = low * n + low /\ high * (n + 1) = high * n + high
        BY <2>7
    <2>12. low * n \in Int /\ high * n \in Int
        BY <2>7
    <2>13. low * (n + 1) <= g[U] /\ g[U] <= high * (n + 1)
        BY <2>8, <2>9, <2>10, <2>11, <2>12
    <2> QED BY <2>2, <2>7, <2>13
<1>3. S \in SUBSET S /\ Cardinality(S) \in Nat
    BY FS_CardinalityType
<1> QED BY <1>2, <1>3

\* The greatest of finitely many natural numbers.
LEMMA GreatestOfFinite ==
    ASSUME NEW S \in SUBSET Nat, IsFiniteSet(S), S # {}
    PROVE  Max(S) \in S /\ \A n \in S : n <= Max(S)
<1> DEFINE Tops(U) == {m \in U : \A n \in U : m >= n}
           Q == {U \in SUBSET S : U = {} \/ Tops(U) # {}}
<1>1. S \in Q
    <2>1. ASSUME NEW T \in SUBSET S, NEW x \in S \ T, T \in Q
          PROVE  T \cup {x} \in Q
        <3>1. CASE T = {}
            <4>1. x \in Tops(T \cup {x})
                BY <3>1
            <4> QED BY <4>1
        <3>2. CASE T # {}
            <4>1. PICK m \in T : \A n \in T : m >= n
                BY <2>1, <3>2
            <4>2. (IF m >= x THEN m ELSE x) \in Tops(T \cup {x})
                BY <4>1
            <4> QED BY <4>2
        <3> QED BY <3>1, <3>2
    <2>2. {} \in Q
        OBVIOUS
    <2>3. S \in SUBSET S /\ IsFiniteSet(S)
        OBVIOUS
    <2> HIDE DEF Q
    <2> QED BY ONLY <2>1, <2>2, <2>3, InductionOnSubsets
<1>2. \E m \in S : \A n \in S : m >= n
    BY <1>1
<1>3. Max(S) \in S /\ \A n \in S : Max(S) >= n
    BY <1>2 DEF Max
<1> QED BY <1>3

\* The sum over two disjoint sets.
LEMMA SumOfUnion ==
    ASSUME NEW S, IsFiniteSet(S), NEW w \in [S -> Int], NEW g, IsSum(g, S, w),
           NEW A \in SUBSET S, NEW B \in SUBSET S, A \cap B = {}
    PROVE  g[A \cup B] = g[A] + g[B]
<1>1. /\ g[{}] = 0
      /\ \A s \in SUBSET S : g[s] \in Int
      /\ \A s \in SUBSET S : \A x \in s : g[s] = w[x] + g[s \ {x}]
    BY SumFacts
<1> DEFINE Q == {b \in SUBSET B : g[A \cup b] = g[A] + g[b]}
<1>2. {} \in Q
    <2>1. A \cup {} = A /\ g[A] \in Int
        BY <1>1
    <2>2. g[A \cup {}] = g[A] + g[{}]
        BY <1>1, <2>1
    <2> QED BY <2>2
<1>3. ASSUME NEW T \in SUBSET B, NEW x \in B \ T, T \in Q
      PROVE  T \cup {x} \in Q
    <2> DEFINE U == T \cup {x}
    <2>1. /\ U \in SUBSET S /\ x \in U /\ U \ {x} = T
          /\ A \cup U \in SUBSET S /\ x \in A \cup U
          /\ (A \cup U) \ {x} = A \cup T
        OBVIOUS
    <2> HIDE DEF U
    <2>2. /\ g[U] = w[x] + g[U \ {x}]
          /\ g[A \cup U] = w[x] + g[(A \cup U) \ {x}]
        BY <1>1, <2>1
    <2>3. g[A \cup T] = g[A] + g[T]
        BY <1>3
    <2>4. g[A] \in Int /\ g[T] \in Int /\ w[x] \in Int
        BY <1>1
    <2>5. g[A \cup U] = w[x] + (g[A] + g[T]) /\ g[U] = w[x] + g[T]
        BY <2>1, <2>2, <2>3
    <2>6. w[x] + (g[A] + g[T]) = g[A] + (w[x] + g[T])
        BY <2>4
    <2>7. U \in SUBSET B
        BY DEF U
    <2> QED BY <2>5, <2>6, <2>7 DEF U
<1>4. B \in SUBSET B /\ IsFiniteSet(B)
    BY FS_Subset
<1> HIDE DEF Q
<1>5. B \in Q
    BY ONLY <1>2, <1>3, <1>4, InductionOnSubsets
<1> QED BY <1>5 DEF Q

\* A sum over a part does not depend on the whole.
LEMMA SumOfPart ==
    ASSUME NEW T, IsFiniteSet(T), NEW u \in [T -> Int], NEW h, IsSum(h, T, u),
           NEW S \in SUBSET T, NEW w \in [S -> Int], NEW g, IsSum(g, S, w),
           \A x \in S : w[x] = u[x]
    PROVE  g[S] = h[S]
<1> DEFINE f == [x \in S |-> x]
<1>1. /\ f \in [S -> T] /\ \A x \in S : f[x] = x
      /\ {f[x] : x \in S} = S
    OBVIOUS
<1>2. IsFiniteSet(S)
    BY FS_Subset
<1> HIDE DEF f
<1>3. \A x \in S, y \in S : f[x] = f[y] => x = y
    BY <1>1
<1>4. \A x \in S : u[f[x]] = w[x]
    BY <1>1
<1>5. \A s \in SUBSET S : h[{f[x] : x \in s}] = g[s]
    BY <1>1, <1>2, <1>3, <1>4, SumOfImage
<1>6. h[{f[x] : x \in S}] = g[S]
    BY <1>5
<1> QED BY <1>1, <1>6

\* The weight of the records of a set.
WeightSum(S) ==
    LET Weight(o) == o.weight IN MapThenSumSet(Weight, S)
WeightsOf(S) == [o \in S |-> o.weight]

LEMMA WeightSumIsSum ==
    ASSUME NEW S, IsFiniteSet(S), \A o \in S : o.weight \in Int
    PROVE  \E g : IsSum(g, S, WeightsOf(S)) /\ WeightSum(S) = g[S]
<1> DEFINE Body(f) ==
        [s \in SUBSET S |->
            IF s = {} THEN 0
            ELSE (CHOOSE x \in s : TRUE).weight + f[s \ {CHOOSE x \in s : TRUE}]]
           w == WeightsOf(S)
           total == CHOOSE f : f = Body(f)
<1>1. WeightSum(S) = total[S]
    BY Zenon DEF WeightSum, MapThenSumSet, MapThenFoldSet
<1>2. PICK g : IsSum(g, S, w)
    BY SumExists DEF WeightsOf
<1>3. \A f : IsSum(f, S, w) <=> f = Body(f)
    <2> SUFFICES ASSUME NEW f PROVE IsSum(f, S, w) <=> f = Body(f)
        OBVIOUS
    <2> DEFINE sums == [s \in SUBSET S |->
                            IF s = {} THEN 0
                            ELSE w[CHOOSE x \in s : TRUE]
                                    + f[s \ {CHOOSE x \in s : TRUE}]]
    <2>1. \A s \in SUBSET S : s # {} => (CHOOSE x \in s : TRUE) \in S
        OBVIOUS
    <2>2. \A s \in SUBSET S : s # {} =>
            w[CHOOSE x \in s : TRUE] = (CHOOSE x \in s : TRUE).weight
        BY <2>1 DEF WeightsOf
    <2> HIDE DEF w
    <2>3. sums = Body(f)
        BY <2>2
    <2> QED BY <2>3, Zenon DEF IsSum
<1>4. total = Body(total)
    <2>1. g = Body(g)
        BY <1>2, <1>3
    <2> HIDE DEF Body
    <2> QED BY <2>1, Zenon
<1>5. IsSum(total, S, w)
    BY <1>3, <1>4
<1> QED BY <1>1, <1>5

\* The weight of two disjoint sets.
LEMMA WeightOfUnion ==
    ASSUME NEW A, IsFiniteSet(A), NEW B, IsFiniteSet(B), A \cap B = {},
           \A o \in A \cup B : o.weight \in Int
    PROVE  /\ WeightSum(A) \in Int /\ WeightSum(B) \in Int
           /\ WeightSum(A \cup B) = WeightSum(A) + WeightSum(B)
<1> DEFINE S == A \cup B
<1>1. IsFiniteSet(S) /\ A \in SUBSET S /\ B \in SUBSET S
    BY FS_Union
<1>2. \A s \in SUBSET S : WeightsOf(s) \in [s -> Int]
    BY DEF WeightsOf
<1>3. \A s \in SUBSET S : \A x \in s : WeightsOf(s)[x] = WeightsOf(S)[x]
    BY DEF WeightsOf
<1>4. \A o \in S : o.weight \in Int
    OBVIOUS
<1> HIDE DEF S
<1>5. PICK h : IsSum(h, S, WeightsOf(S)) /\ WeightSum(S) = h[S]
    BY <1>1, <1>4, WeightSumIsSum
<1>6. ASSUME NEW s \in SUBSET S
      PROVE  WeightSum(s) = h[s]
    <2>1. IsFiniteSet(s) /\ \A o \in s : o.weight \in Int
        BY <1>1, <1>4, FS_Subset
    <2>2. PICK g : IsSum(g, s, WeightsOf(s)) /\ WeightSum(s) = g[s]
        BY <2>1, WeightSumIsSum
    <2>3. /\ WeightsOf(S) \in [S -> Int] /\ WeightsOf(s) \in [s -> Int]
          /\ \A x \in s : WeightsOf(s)[x] = WeightsOf(S)[x]
        BY <1>2, <1>3
    <2>4. g[s] = h[s]
        BY <1>1, <1>5, <2>2, <2>3, SumOfPart
    <2> QED BY <2>2, <2>4
<1>7. WeightsOf(S) \in [S -> Int]
    BY <1>2
<1>8. h[A \cup B] = h[A] + h[B]
    BY <1>1, <1>5, <1>7, SumOfUnion
<1>9. \A s \in SUBSET S : h[s] \in Int
    BY <1>1, <1>5, <1>7, SumFacts
<1> QED BY <1>1, <1>6, <1>8, <1>9 DEF S

\* Each of the records of a set weighs no more than all of them.
LEMMA WeightOfOne ==
    ASSUME NEW S, IsFiniteSet(S), \A o \in S : o.weight \in Nat
    PROVE  /\ WeightSum(S) \in Nat
           /\ \A o \in S : o.weight <= WeightSum(S)
<1>1. \A o \in S : o.weight \in Int
    OBVIOUS
<1>2. PICK g : IsSum(g, S, WeightsOf(S)) /\ WeightSum(S) = g[S]
    BY <1>1, WeightSumIsSum
<1>3. WeightsOf(S) \in [S -> Nat] /\ WeightsOf(S) \in [S -> Int]
    BY DEF WeightsOf
<1>4. \A s \in SUBSET S : g[s] \in Nat
    BY <1>2, <1>3, SumOfNaturals
<1>5. \A x \in S : g[S] = WeightsOf(S)[x] + g[S \ {x}]
    BY <1>2, <1>3, SumFacts
<1>6. ASSUME NEW x \in S PROVE x.weight <= g[S]
    <2>1. g[S] = x.weight + g[S \ {x}]
        BY <1>5 DEF WeightsOf
    <2>2. g[S \ {x}] \in Nat /\ x.weight \in Nat
        BY <1>4
    <2> QED BY <2>1, <2>2
<1> QED BY <1>2, <1>4, <1>6

\* Sums compare as their terms do, one of them scaled.
LEMMA SumsCompare ==
    ASSUME NEW S, IsFiniteSet(S),
           NEW w \in [S -> Int], NEW g, IsSum(g, S, w),
           NEW u \in [S -> Int], NEW h, IsSum(h, S, u), NEW k \in Int
    PROVE  /\ (\A x \in S : k * w[x] <= u[x]) => k * g[S] <= h[S]
           /\ (\A x \in S : u[x] <= k * w[x]) => h[S] <= k * g[S]
<1> DEFINE Low == \A x \in S : k * w[x] <= u[x]
           High == \A x \in S : u[x] <= k * w[x]
           Q == {T \in SUBSET S :
                    (Low => k * g[T] <= h[T]) /\ (High => h[T] <= k * g[T])}
<1>1. /\ g[{}] = 0 /\ h[{}] = 0
      /\ \A s \in SUBSET S : g[s] \in Int /\ h[s] \in Int
      /\ \A s \in SUBSET S : \A x \in s :
            g[s] = w[x] + g[s \ {x}] /\ h[s] = u[x] + h[s \ {x}]
    BY SumFacts
<1>2. {} \in Q
    BY <1>1
<1>3. ASSUME NEW T \in SUBSET S, NEW x \in S \ T, T \in Q PROVE T \cup {x} \in Q
    <2> DEFINE R == T \cup {x}
    <2>1. R \in SUBSET S /\ x \in R /\ R \ {x} = T
        OBVIOUS
    <2>2. g[R] = w[x] + g[T] /\ h[R] = u[x] + h[T]
        BY <1>1, <2>1
    <2>3. /\ w[x] \in Int /\ u[x] \in Int /\ g[T] \in Int /\ h[T] \in Int
          /\ Low => k * w[x] <= u[x] /\ k * g[T] <= h[T]
          /\ High => u[x] <= k * w[x] /\ h[T] <= k * g[T]
        BY <1>1, <1>3
    <2>4. k * (w[x] + g[T]) = k * w[x] + k * g[T]
        BY <2>3
    <2> HIDE DEF R, Low, High
    <2>5. /\ Low => k * g[R] <= h[R]
          /\ High => h[R] <= k * g[R]
        BY <2>2, <2>3, <2>4
    <2> QED BY <2>1, <2>5 DEF R
<1> HIDE DEF Q
<1>4. S \in Q
    <2>1. \A T \in SUBSET S : T \in Q
        BY <1>2, <1>3, InductionOnSubsets
    <2> QED BY <2>1
<1> QED BY <1>4 DEF Q
=============================================================================
