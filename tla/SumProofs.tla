----------------------------- MODULE SumProofs -----------------------------
(***************************************************************************)
(* What Total computes for every finite set of rows.  Total is a fold: a   *)
(* recursive function that removes one chosen row at a time.  The          *)
(* induction is over the subsets of a finite set, by the well-foundedness  *)
(* of strict inclusion, with the set of good subsets in the place of an    *)
(* induction predicate.                                                    *)
(***************************************************************************)
EXTENDS Sums, TLAPS, FiniteSetTheorems

\* Induction over the subsets of a finite set: a set of subsets that has every
\* T whose subsets by one element less it has is the set of all subsets.
LEMMA SubsetInduction ==
    ASSUME NEW S, IsFiniteSet(S), NEW Good,
           \A T \in SUBSET S : (\A x \in T : T \ {x} \in Good) => T \in Good
    PROVE  \A T \in SUBSET S : T \in Good
<1> DEFINE Bad == {T \in SUBSET S : T \notin Good}
<1> SUFFICES ASSUME Bad # {} PROVE FALSE
    OBVIOUS
<1>1. IsWellFoundedOn(StrictSubsetOrdering(S), SUBSET S)
    <2>1. FiniteSubsetsOf(S) = SUBSET S
        BY FS_FiniteSubsetsOfFinite
    <2>2. IsWellFoundedOn(StrictSubsetOrdering(S), FiniteSubsetsOf(S))
        BY FS_StrictSubsetOrderingWellFounded
    <2> QED
        BY <2>1, <2>2
<1>2. PICK T \in Bad : \A U \in Bad : ~(<<U, T>> \in StrictSubsetOrdering(S))
    <2>1. Bad \subseteq SUBSET S
        OBVIOUS
    <2> HIDE DEF Bad
    <2> QED
        BY <1>1, <2>1, WFMin
<1>3. ASSUME NEW x \in T PROVE T \ {x} \in Good
    <2>1. T \ {x} \subseteq T /\ T \ {x} # T /\ T \ {x} \in SUBSET S /\ T \in SUBSET S
        OBVIOUS
    <2>2. <<T \ {x}, T>> \in StrictSubsetOrdering(S)
        BY <2>1 DEF StrictSubsetOrdering
    <2> QED
        BY <1>2, <2>1, <2>2
<1> QED
    BY <1>3

-----------------------------------------------------------------------------
(* The recursive function behind Total *)

Chosen(s) == CHOOSE x \in s : TRUE

\* One unfolding of the recursive function.
Unfold(f, g, s) == IF s = {} THEN 0 ELSE f[Chosen(s)] + g[s \ {Chosen(s)}]

Iter(f, S) == CHOOSE g : g = [s \in SUBSET S |-> Unfold(f, g, s)]

\* Total is the value of that function at the whole set.
LEMMA TotalIsIter ==
    ASSUME NEW f, NEW S PROVE Total(f, S) = Iter(f, S)[S]
BY DEF Total, MapThenSumSet, MapThenFoldSet, Iter, Unfold, Chosen

\* The row chosen from a non-empty set is one of its rows.
LEMMA ChosenIn ==
    ASSUME NEW s, s # {} PROVE Chosen(s) \in s
BY DEF Chosen

\* Unfolding gives integers.
LEMMA UnfoldInt ==
    ASSUME NEW S, NEW f, \A x \in S : f[x] \in Int, NEW g \in [SUBSET S -> Int], NEW s \in SUBSET S
    PROVE  Unfold(f, g, s) \in Int
<1>1. CASE s = {}
    BY <1>1 DEF Unfold
<1>2. CASE s # {}
    <2>1. Chosen(s) \in S /\ s \ {Chosen(s)} \in SUBSET S
        BY <1>2, ChosenIn
    <2>2. f[Chosen(s)] \in Int /\ g[s \ {Chosen(s)}] \in Int
        BY <2>1
    <2> QED
        BY <1>2, <2>2 DEF Unfold
<1> QED
    BY <1>1, <1>2

\* The recursive function is well defined: an approximation that is right for
\* all sets up to a size exists for every size up to that of S.
LEMMA IterExists ==
    ASSUME NEW S, IsFiniteSet(S), NEW f, \A x \in S : f[x] \in Int
    PROVE  \E g \in [SUBSET S -> Int] : \A s \in SUBSET S : g[s] = Unfold(f, g, s)
<1> DEFINE Right(g, n) == \A s \in SUBSET S : Cardinality(s) <= n => g[s] = Unfold(f, g, s)
           Good == {T \in SUBSET S : \E g \in [SUBSET S -> Int] : Right(g, Cardinality(T))}
<1>1. \A s \in SUBSET S : IsFiniteSet(s) /\ Cardinality(s) \in Nat /\ Cardinality(s) <= Cardinality(S)
    BY FS_Subset, FS_CardinalityType
<1>2. ASSUME NEW T \in SUBSET S, \A x \in T : T \ {x} \in Good PROVE T \in Good
    <2>1. CASE T = {}
        <3> DEFINE g == [s \in SUBSET S |-> 0]
        <3>1. Cardinality(T) = 0 /\ \A s \in SUBSET S : Cardinality(s) <= 0 => s = {}
            BY <1>1, <2>1, FS_EmptySet
        <3>2. g \in [SUBSET S -> Int] /\ Right(g, Cardinality(T))
            BY <3>1 DEF Unfold
        <3> QED
            BY <3>2
    <2>2. CASE T # {}
        <3>1. PICK x \in T : TRUE
            BY <2>2
        <3>2. PICK g \in [SUBSET S -> Int] : Right(g, Cardinality(T \ {x}))
            BY <1>2
        <3>3. Cardinality(T \ {x}) = Cardinality(T) - 1 /\ Cardinality(T) \in Nat
            BY <1>1, FS_RemoveElement
        <3> DEFINE h == [s \in SUBSET S |-> Unfold(f, g, s)]
        <3>4. h \in [SUBSET S -> Int]
            BY UnfoldInt
        <3>5. ASSUME NEW s \in SUBSET S, Cardinality(s) <= Cardinality(T)
              PROVE  h[s] = Unfold(f, h, s)
            <4>1. CASE s = {}
                BY <4>1 DEF Unfold
            <4>2. CASE s # {}
                <5> DEFINE r == s \ {Chosen(s)}
                <5>1. Chosen(s) \in s /\ r \in SUBSET S
                    BY <4>2, ChosenIn
                <5>2. Cardinality(r) = Cardinality(s) - 1
                    BY <1>1, <5>1, FS_RemoveElement
                <5>3. Cardinality(r) <= Cardinality(T \ {x})
                    BY <1>1, <3>3, <3>5, <5>1, <5>2
                <5>4. g[r] = h[r]
                    BY <3>2, <5>1, <5>3
                <5>5. h[s] = f[Chosen(s)] + g[r] /\ Unfold(f, h, s) = f[Chosen(s)] + h[r]
                    BY <4>2 DEF Unfold
                <5> QED
                    BY <5>4, <5>5
            <4> QED
                BY <4>1, <4>2
        <3>6. Right(h, Cardinality(T))
            BY <3>5
        <3> HIDE DEF h, Right
        <3> QED
            BY <3>4, <3>6
    <2> QED
        BY <2>1, <2>2
<1>3. S \in Good
    <2> HIDE DEF Good
    <2>1. \A T \in SUBSET S : (\A x \in T : T \ {x} \in Good) => T \in Good
        BY <1>2
    <2>2. \A T \in SUBSET S : T \in Good
        BY <2>1, SubsetInduction
    <2> QED
        BY <2>2
<1>4. PICK g \in [SUBSET S -> Int] : Right(g, Cardinality(S))
    BY <1>3
<1> QED
    BY <1>1, <1>4

\* The chosen function satisfies its recursion and has integer values.
LEMMA IterUnfolds ==
    ASSUME NEW S, IsFiniteSet(S), NEW f, \A x \in S : f[x] \in Int
    PROVE  \A s \in SUBSET S : Iter(f, S)[s] = Unfold(f, Iter(f, S), s)
<1>1. PICK g \in [SUBSET S -> Int] : \A s \in SUBSET S : g[s] = Unfold(f, g, s)
    BY IterExists
<1>2. g = [s \in SUBSET S |-> Unfold(f, g, s)]
    BY <1>1
<1>3. Iter(f, S) = [s \in SUBSET S |-> Unfold(f, Iter(f, S), s)]
    BY <1>2, Zenon DEF Iter
<1> QED
    BY <1>3

\* Two solutions of the recursion agree on the sets both know.
LEMMA SolutionsAgree ==
    ASSUME NEW S, IsFiniteSet(S), NEW f, NEW f2, NEW g, NEW h, \A x \in S : f[x] = f2[x],
           \A s \in SUBSET S : g[s] = Unfold(f, g, s),
           \A s \in SUBSET S : h[s] = Unfold(f2, h, s)
    PROVE  \A s \in SUBSET S : g[s] = h[s]
<1> DEFINE Good == {s \in SUBSET S : g[s] = h[s]}
<1>1. ASSUME NEW T \in SUBSET S, \A x \in T : T \ {x} \in Good PROVE T \in Good
    <2>1. CASE T = {}
        <3>1. g[T] = 0 /\ h[T] = 0
            BY <2>1 DEF Unfold
        <3> QED
            BY <3>1
    <2>2. CASE T # {}
        <3>1. Chosen(T) \in T
            BY <2>2, ChosenIn
        <3>2. g[T \ {Chosen(T)}] = h[T \ {Chosen(T)}] /\ f[Chosen(T)] = f2[Chosen(T)]
            BY <1>1, <3>1
        <3>3. g[T] = f[Chosen(T)] + g[T \ {Chosen(T)}] /\ h[T] = f2[Chosen(T)] + h[T \ {Chosen(T)}]
            BY <2>2 DEF Unfold
        <3> QED
            BY <3>2, <3>3
    <2> QED
        BY <2>1, <2>2
<1> HIDE DEF Good
<1>2. \A T \in SUBSET S : (\A x \in T : T \ {x} \in Good) => T \in Good
    BY <1>1
<1>3. \A s \in SUBSET S : s \in Good
    BY <1>2, SubsetInduction
<1> QED
    BY <1>3 DEF Good

\* The recursive function of a set gives the total of each of its subsets.
LEMMA IterIsTotal ==
    ASSUME NEW S, IsFiniteSet(S), NEW f, \A x \in S : f[x] \in Int, NEW T \in SUBSET S
    PROVE  Iter(f, S)[T] = Total(f, T)
<1>1. IsFiniteSet(T) /\ \A x \in T : f[x] \in Int
    BY FS_Subset
<1>2. \A s \in SUBSET S : Iter(f, S)[s] = Unfold(f, Iter(f, S), s)
    BY IterUnfolds
<1>3. \A s \in SUBSET T : Iter(f, T)[s] = Unfold(f, Iter(f, T), s)
    BY <1>1, IterUnfolds
<1>4. \A s \in SUBSET T : Iter(f, S)[s] = Unfold(f, Iter(f, S), s)
    BY <1>2
<1>5. \A s \in SUBSET T : Iter(f, S)[s] = Iter(f, T)[s]
    BY <1>1, <1>3, <1>4, SolutionsAgree
<1> QED
    BY <1>5, TotalIsIter

-----------------------------------------------------------------------------
(* Totals *)

\* Quantities that agree on the rows of a set have the same total.
LEMMA TotalSame ==
    ASSUME NEW S, IsFiniteSet(S), NEW f, NEW g, \A x \in S : f[x] = g[x] /\ f[x] \in Int
    PROVE  Total(f, S) = Total(g, S)
<1>1. \A s \in SUBSET S : Iter(f, S)[s] = Unfold(f, Iter(f, S), s)
    BY IterUnfolds
<1>2. \A s \in SUBSET S : Iter(g, S)[s] = Unfold(g, Iter(g, S), s)
    <2>1. \A x \in S : g[x] \in Int
        OBVIOUS
    <2> QED
        BY <2>1, IterUnfolds
<1>3. \A s \in SUBSET S : Iter(f, S)[s] = Iter(g, S)[s]
    BY <1>1, <1>2, SolutionsAgree
<1> QED
    BY <1>3, TotalIsIter

\* No rows have the total 0; of some rows the chosen one is split off.
LEMMA TotalUnfolds ==
    ASSUME NEW S, IsFiniteSet(S), NEW f, \A x \in S : f[x] \in Int
    PROVE  /\ S = {} => Total(f, S) = 0
           /\ S # {} => Chosen(S) \in S /\ Total(f, S) = f[Chosen(S)] + Total(f, S \ {Chosen(S)})
<1>1. Total(f, S) = Unfold(f, Iter(f, S), S)
    BY IterUnfolds, TotalIsIter
<1>2. Iter(f, S)[S \ {Chosen(S)}] = Total(f, S \ {Chosen(S)})
    BY IterIsTotal
<1> QED
    BY <1>1, <1>2, ChosenIn DEF Unfold

\* The total of integers is an integer.
LEMMA TotalInt ==
    ASSUME NEW S, IsFiniteSet(S), NEW f, \A x \in S : f[x] \in Int
    PROVE  \A T \in SUBSET S : Total(f, T) \in Int
<1> DEFINE Good == {T \in SUBSET S : Total(f, T) \in Int}
<1>1. ASSUME NEW T \in SUBSET S, \A x \in T : T \ {x} \in Good PROVE T \in Good
    <2>1. IsFiniteSet(T) /\ \A x \in T : f[x] \in Int
        BY FS_Subset
    <2>2. CASE T = {}
        BY <2>1, <2>2, TotalUnfolds
    <2>3. CASE T # {}
        <3>1. Chosen(T) \in T /\ Total(f, T) = f[Chosen(T)] + Total(f, T \ {Chosen(T)})
            BY <2>1, <2>3, TotalUnfolds
        <3>2. f[Chosen(T)] \in Int /\ Total(f, T \ {Chosen(T)}) \in Int
            BY <1>1, <2>1, <3>1
        <3> QED
            BY <3>1, <3>2
    <2> QED
        BY <2>2, <2>3
<1> HIDE DEF Good
<1>2. \A T \in SUBSET S : (\A x \in T : T \ {x} \in Good) => T \in Good
    BY <1>1
<1>3. \A T \in SUBSET S : T \in Good
    BY <1>2, SubsetInduction
<1> QED
    BY <1>3 DEF Good

\* Any row can be split off, not only the chosen one.
LEMMA TotalSplits ==
    ASSUME NEW S, IsFiniteSet(S), NEW f, \A x \in S : f[x] \in Int
    PROVE  \A T \in SUBSET S : \A x \in T : Total(f, T) = f[x] + Total(f, T \ {x})
<1> DEFINE Good == {T \in SUBSET S : \A x \in T : Total(f, T) = f[x] + Total(f, T \ {x})}
<1>1. \A T \in SUBSET S : Total(f, T) \in Int
    BY TotalInt
<1>2. ASSUME NEW T \in SUBSET S, \A x \in T : T \ {x} \in Good PROVE T \in Good
    <2> SUFFICES ASSUME NEW x \in T PROVE Total(f, T) = f[x] + Total(f, T \ {x})
        OBVIOUS
    <2> DEFINE p == Chosen(T)
    <2>1. IsFiniteSet(T) /\ T # {} /\ \A y \in T : f[y] \in Int
        BY FS_Subset
    <2>2. p \in T /\ Total(f, T) = f[p] + Total(f, T \ {p})
        BY <2>1, TotalUnfolds
    <2>3. CASE x = p
        BY <2>2, <2>3
    <2>4. CASE x # p
        <3> DEFINE R == (T \ {p}) \ {x}
        <3>1. R = (T \ {x}) \ {p} /\ R \in SUBSET S /\ x \in T \ {p} /\ p \in T \ {x}
            BY <2>2, <2>4
        <3>2. Total(f, T \ {p}) = f[x] + Total(f, R)
            BY <1>2, <2>2, <3>1
        <3>3. Total(f, T \ {x}) = f[p] + Total(f, R)
            BY <1>2, <3>1
        <3>4. f[p] \in Int /\ f[x] \in Int /\ Total(f, R) \in Int
            BY <1>1, <2>1, <2>2, <3>1
        <3> HIDE DEF p, R
        <3> QED
            BY <2>2, <3>2, <3>3, <3>4
    <2> QED
        BY <2>3, <2>4
<1> HIDE DEF Good
<1>3. \A T \in SUBSET S : (\A x \in T : T \ {x} \in Good) => T \in Good
    BY <1>2
<1>4. \A T \in SUBSET S : T \in Good
    BY <1>3, SubsetInduction
<1> QED
    BY <1>4 DEF Good

\* No rows add up to nothing.
LEMMA TotalEmpty ==
    ASSUME NEW f PROVE Total(f, {}) = 0
BY TotalUnfolds, FS_EmptySet

\* A row that joins a set adds its quantity to the total.
LEMMA TotalJoins ==
    ASSUME NEW S, IsFiniteSet(S), NEW f, NEW g, NEW x, x \notin S, g[x] \in Int,
           \A y \in S : f[y] = g[y] /\ f[y] \in Int
    PROVE  Total(g, S \cup {x}) = Total(f, S) + g[x] /\ Total(f, S) \in Int
<1>1. IsFiniteSet(S \cup {x}) /\ \A y \in S \cup {x} : g[y] \in Int
    BY FS_AddElement
<1>2. Total(g, S \cup {x}) = g[x] + Total(g, (S \cup {x}) \ {x})
    BY <1>1, TotalSplits
<1>3. (S \cup {x}) \ {x} = S
    OBVIOUS
<1>4. Total(f, S) = Total(g, S)
    BY TotalSame
<1>5. Total(f, S) \in Int
    BY TotalInt
<1>6. Total(g, S \cup {x}) = g[x] + Total(g, S)
    BY <1>2, <1>3
<1> QED
    BY <1>4, <1>5, <1>6

\* Totals of quantities that are sums row by row.
LEMMA TotalAdds ==
    ASSUME NEW S, IsFiniteSet(S), NEW f, NEW g, NEW h,
           \A x \in S : f[x] \in Int /\ g[x] \in Int /\ h[x] = f[x] + g[x]
    PROVE  Total(h, S) = Total(f, S) + Total(g, S)
<1> DEFINE Good == {T \in SUBSET S : Total(h, T) = Total(f, T) + Total(g, T)}
<1>1. \A x \in S : f[x] \in Int /\ g[x] \in Int /\ h[x] \in Int
    OBVIOUS
<1>2. ASSUME NEW T \in SUBSET S, \A x \in T : T \ {x} \in Good PROVE T \in Good
    <2>1. CASE T = {}
        BY <2>1, TotalEmpty
    <2>2. CASE T # {}
        <3>1. PICK x \in T : TRUE
            BY <2>2
        <3> DEFINE R == T \ {x}
        <3>2. R \in SUBSET S /\ Total(h, R) = Total(f, R) + Total(g, R)
            BY <1>2
        <3>3. Total(f, T) = f[x] + Total(f, R)
            BY <1>1, TotalSplits
        <3>4. Total(g, T) = g[x] + Total(g, R)
            BY <1>1, TotalSplits
        <3>5. Total(h, T) = h[x] + Total(h, R)
            BY <1>1, TotalSplits
        <3>6. Total(f, R) \in Int
            BY <1>1, TotalInt
        <3>7. Total(g, R) \in Int
            BY <1>1, TotalInt
        <3>8. f[x] \in Int /\ g[x] \in Int /\ h[x] = f[x] + g[x]
            OBVIOUS
        <3> HIDE DEF R
        <3> QED
            BY <3>2, <3>3, <3>4, <3>5, <3>6, <3>7, <3>8
    <2> QED
        BY <2>1, <2>2
<1> HIDE DEF Good
<1>3. \A T \in SUBSET S : (\A x \in T : T \ {x} \in Good) => T \in Good
    BY <1>2
<1>4. \A T \in SUBSET S : T \in Good
    BY <1>3, SubsetInduction
<1> QED
    BY <1>4 DEF Good

\* Totals of quantities are at least 0, and 0 when every quantity is.
LEMMA TotalNat ==
    ASSUME NEW S, IsFiniteSet(S), NEW f, \A x \in S : f[x] \in Nat
    PROVE  Total(f, S) \in Nat /\ ((\A x \in S : f[x] = 0) => Total(f, S) = 0)
<1> DEFINE Zero(T) == (\A x \in T : f[x] = 0) => Total(f, T) = 0
           Good == {T \in SUBSET S : Total(f, T) \in Nat /\ Zero(T)}
<1>1. \A x \in S : f[x] \in Int
    OBVIOUS
<1>2. ASSUME NEW T \in SUBSET S, \A x \in T : T \ {x} \in Good PROVE T \in Good
    <2>1. CASE T = {}
        BY <2>1, TotalEmpty
    <2>2. CASE T # {}
        <3>1. PICK x \in T : TRUE
            BY <2>2
        <3>2. Total(f, T) = f[x] + Total(f, T \ {x})
            BY <1>1, TotalSplits
        <3>3. f[x] \in Nat /\ Total(f, T \ {x}) \in Nat /\ Zero(T \ {x})
            BY <1>2
        <3> QED
            BY <3>2, <3>3
    <2> QED
        BY <2>1, <2>2
<1> HIDE DEF Good
<1>3. \A T \in SUBSET S : (\A x \in T : T \ {x} \in Good) => T \in Good
    BY <1>2
<1>4. \A T \in SUBSET S : T \in Good
    BY <1>3, SubsetInduction
<1> QED
    BY <1>4 DEF Good

\* A quantity that is nowhere larger has no larger total.
LEMMA TotalBelow ==
    ASSUME NEW S, IsFiniteSet(S), NEW f, NEW g,
           \A x \in S : f[x] \in Int /\ g[x] \in Int /\ f[x] <= g[x]
    PROVE  Total(f, S) <= Total(g, S)
<1> DEFINE d == [x \in S |-> g[x] - f[x]]
<1>1. \A x \in S : d[x] \in Nat /\ g[x] = f[x] + d[x] /\ d[x] \in Int
    OBVIOUS
<1> HIDE DEF d
<1>2. Total(g, S) = Total(f, S) + Total(d, S)
    BY <1>1, TotalAdds
<1>3. Total(d, S) \in Nat
    BY <1>1, TotalNat
<1>4. Total(f, S) \in Int
    BY TotalInt
<1> QED
    BY <1>2, <1>3, <1>4

\* Rows with the quantity 0 can be left out.
LEMMA TotalFilters ==
    ASSUME NEW S, IsFiniteSet(S), NEW f, \A x \in S : f[x] \in Int, NEW R \in SUBSET S,
           \A x \in S \ R : f[x] = 0
    PROVE  Total(f, S) = Total(f, R)
<1> DEFINE Good == {T \in SUBSET S : Total(f, T) = Total(f, T \cap R)}
<1>1. ASSUME NEW T \in SUBSET S, \A x \in T : T \ {x} \in Good PROVE T \in Good
    <2>1. CASE T \subseteq R
        <3>1. T \cap R = T
            BY <2>1
        <3> QED
            BY <3>1
    <2>2. CASE ~(T \subseteq R)
        <3>1. PICK x \in T : x \notin R
            BY <2>2
        <3>2. (T \ {x}) \cap R = T \cap R /\ f[x] = 0 /\ T \ {x} \in SUBSET S
            BY <3>1
        <3>3. Total(f, T) = f[x] + Total(f, T \ {x})
            BY TotalSplits
        <3>4. Total(f, T \ {x}) = Total(f, T \cap R)
            BY <1>1, <3>2
        <3>5. Total(f, T \ {x}) \in Int
            BY <3>2, TotalInt
        <3>6. Total(f, T) = Total(f, T \cap R)
            BY <3>2, <3>3, <3>4, <3>5
        <3> QED
            BY <3>6
    <2> QED
        BY <2>1, <2>2
<1> HIDE DEF Good
<1>2. \A T \in SUBSET S : (\A x \in T : T \ {x} \in Good) => T \in Good
    BY <1>1
<1>3. S \in Good
    BY <1>2, SubsetInduction
<1>4. S \cap R = R
    OBVIOUS
<1> QED
    BY <1>3, <1>4 DEF Good

\* The total over a table is the same by rows and by columns.
LEMMA TotalSwaps ==
    ASSUME NEW S, IsFiniteSet(S), NEW B, IsFiniteSet(B), NEW m,
           \A x \in S, b \in B : m[x][b] \in Int
    PROVE  Total([x \in S |-> Total(m[x], B)], S) = Total([b \in B |-> Total([x \in S |-> m[x][b]], S)], B)
<1> DEFINE row == [x \in S |-> Total(m[x], B)]
           col(T) == [b \in B |-> Total([x \in S |-> m[x][b]], T)]
           Good == {T \in SUBSET S : Total(row, T) = Total(col(T), B)}
<1>1. \A x \in S : row[x] = Total(m[x], B) /\ row[x] \in Int
    BY TotalInt
<1>2. \A b \in B, x \in S : [y \in S |-> m[y][b]][x] = m[x][b] /\ [y \in S |-> m[y][b]][x] \in Int
    OBVIOUS
<1>3. \A T \in SUBSET S : \A b \in B : col(T)[b] = Total([x \in S |-> m[x][b]], T) /\ col(T)[b] \in Int
    BY <1>2, TotalInt
<1>4. ASSUME NEW T \in SUBSET S, \A x \in T : T \ {x} \in Good PROVE T \in Good
    <2>1. CASE T = {}
        <3>1. Total(row, T) = 0
            BY <2>1, TotalEmpty
        <3>2. \A b \in B : col(T)[b] = 0 /\ col(T)[b] \in Nat
            BY <1>3, <2>1, TotalEmpty
        <3>3. Total(col(T), B) = 0
            <4> HIDE DEF col
            <4> QED
                BY <3>2, TotalNat
        <3> QED
            BY <3>1, <3>3
    <2>2. CASE T # {}
        <3>1. PICK x \in T : TRUE
            BY <2>2
        <3> DEFINE R == T \ {x}
        <3>2. R \in SUBSET S /\ Total(row, R) = Total(col(R), B)
            BY <1>4
        <3>3. \A b \in B : col(T)[b] = m[x][b] + col(R)[b]
            BY <1>2, <1>3, <3>2, TotalSplits
        <3>4. \A b \in B : m[x][b] \in Int /\ col(R)[b] \in Int
            BY <1>3, <3>2
        <3>5. Total(row, T) = row[x] + Total(row, R)
            <4> HIDE DEF row
            <4> QED
                BY <1>1, TotalSplits
        <3> HIDE DEF row, col, R
        <3>6. Total(col(T), B) = Total(m[x], B) + Total(col(R), B)
            BY <3>3, <3>4, TotalAdds
        <3>7. Total(row, T) = Total(col(T), B)
            BY <1>1, <3>2, <3>5, <3>6
        <3> QED
            BY <3>7
    <2> QED
        BY <2>1, <2>2
<1> HIDE DEF Good
<1>5. \A T \in SUBSET S : (\A x \in T : T \ {x} \in Good) => T \in Good
    BY <1>4
<1> HIDE DEF row, col
<1>6. \A T \in SUBSET S : T \in Good
    BY ONLY IsFiniteSet(S), <1>5, SubsetInduction
<1>7. S \in Good
    BY <1>6
<1>8. Total(row, S) = Total(col(S), B)
    BY <1>7 DEF Good
<1> QED
    BY <1>8 DEF row, col

\* The sum over a part of the rows is the sum over all of them of a quantity
\* that is zero on the others.
LEMMA TotalMasks ==
    ASSUME NEW S, IsFiniteSet(S), NEW R \in SUBSET S, NEW f, NEW g,
           \A x \in R : f[x] \in Int /\ g[x] = f[x], \A x \in S \ R : g[x] = 0
    PROVE  Total(f, R) = Total(g, S)
<1>1. \A x \in S : g[x] \in Int
    OBVIOUS
<1>2. Total(g, S) = Total(g, R)
    BY <1>1, TotalFilters
<1>3. IsFiniteSet(R)
    BY FS_Subset
<1>4. Total(f, R) = Total(g, R)
    BY <1>3, TotalSame
<1> QED
    BY <1>2, <1>4

\* Changing the quantity of one row changes the sum by the difference.
LEMMA TotalChanges ==
    ASSUME NEW S, IsFiniteSet(S), NEW f, NEW g, NEW o \in S,
           \A x \in S : f[x] \in Int /\ g[x] \in Int, \A x \in S \ {o} : g[x] = f[x]
    PROVE  Total(g, S) = Total(f, S) + g[o] - f[o]
<1> DEFINE R == S \ {o}
<1>1. Total(f, S) = f[o] + Total(f, R)
    BY TotalSplits
<1>2. Total(g, S) = g[o] + Total(g, R)
    BY TotalSplits
<1>3. IsFiniteSet(R) /\ \A x \in R : f[x] = g[x] /\ f[x] \in Int
    BY FS_Subset
<1>4. Total(f, R) = Total(g, R)
    <2> HIDE DEF R
    <2> QED
        BY <1>3, TotalSame
<1>5. Total(f, R) \in Int /\ Total(f, S) \in Int
    BY TotalInt
<1> QED
    BY <1>1, <1>2, <1>4, <1>5

\* More rows have no smaller total.
LEMMA TotalMonotone ==
    ASSUME NEW S, IsFiniteSet(S), NEW f, \A x \in S : f[x] \in Nat, NEW R \in SUBSET S
    PROVE  Total(f, R) \in Nat /\ Total(f, R) <= Total(f, S)
<1> DEFINE g == [x \in S |-> IF x \in R THEN f[x] ELSE 0]
<1>1. \A x \in S : g[x] \in Int /\ f[x] \in Int /\ g[x] <= f[x]
    OBVIOUS
<1>2. (\A x \in R : f[x] \in Int /\ g[x] = f[x]) /\ (\A x \in S \ R : g[x] = 0)
    OBVIOUS
<1> HIDE DEF g
<1>3. Total(f, R) = Total(g, S)
    BY <1>2, TotalMasks
<1>4. Total(g, S) <= Total(f, S)
    BY <1>1, TotalBelow
<1>5. IsFiniteSet(R) /\ \A x \in R : f[x] \in Nat
    BY FS_Subset
<1>6. Total(f, R) \in Nat
    BY <1>5, TotalNat
<1> QED
    BY <1>3, <1>4, <1>6
=============================================================================
