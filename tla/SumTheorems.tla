---------------------------- MODULE SumTheorems ----------------------------
(***************************************************************************)
(* What a sum over a finite set is.  SumFunctionOnSet is defined by a      *)
(* recursive function over the subsets of the set, and nothing in the      *)
(* library says that such a function exists.  The argument is induction    *)
(* over finite sets, put as the absence of a smallest counterexample; the  *)
(* same gives the least and the largest of a set of numbers.               *)
(***************************************************************************)
EXTENDS FiniteSetsExt, FiniteSetTheorems, WellFoundedInduction, TLAPS

\* Among subsets of a finite set one is the smallest: no other is inside it.
LEMMA SmallestSubset ==
    ASSUME NEW S, IsFiniteSet(S), NEW T \in SUBSET (SUBSET S), T # {}
    PROVE  \E x \in T : \A y \in T : y \subseteq x => y = x
<1>1. IsWellFoundedOn(StrictSubsetOrdering(S), FiniteSubsetsOf(S))
  BY FS_StrictSubsetOrderingWellFounded
<1>2. T \subseteq FiniteSubsetsOf(S)
  BY FS_FiniteSubsetsOfFinite
<1>3. \E x \in T : \A y \in T : ~(<<y, x>> \in StrictSubsetOrdering(S))
  BY <1>1, <1>2, WFMin
<1> QED BY <1>3 DEF StrictSubsetOrdering

\* One number of a set is the least.
LEMMA SmallestNumber ==
    ASSUME NEW B \in SUBSET Nat, B # {}
    PROVE  \E n \in B : \A m \in B : n <= m
<1>1. PICK b \in B : TRUE
  OBVIOUS
<1> DEFINE T == {1 .. m : m \in {m \in B : m <= b}}
           N == 1 .. b
<1>2. T \in SUBSET (SUBSET N) /\ T # {} /\ IsFiniteSet(N)
  <2>1. b \in Nat
    OBVIOUS
  <2>2. \A m \in {m \in B : m <= b} : 1 .. m \in SUBSET (1 .. b)
    BY <2>1
  <2>3. b \in {m \in B : m <= b}
    BY <2>1
  <2>4. IsFiniteSet(N)
    BY <2>1, FS_Interval
  <2>5. T # {}
    BY <2>3
  <2>6. T \in SUBSET (SUBSET N)
    BY <2>2
  <2> QED BY <2>4, <2>5, <2>6
<1>3. PICK x \in T : \A y \in T : y \subseteq x => y = x
  <2> HIDE DEF T, N
  <2> QED BY <1>2, SmallestSubset
<1>4. PICK n \in B : n <= b /\ x = 1 .. n
  OBVIOUS
<1>5. ASSUME NEW m \in B, m < n PROVE FALSE
  <2>1. m \in Nat /\ n \in Nat /\ b \in Nat /\ m <= b
    BY <1>4, <1>5
  <2>2. 1 .. m \in T /\ 1 .. m \subseteq 1 .. n
    BY <1>5, <2>1
  <2>3. 1 .. m = 1 .. n
    BY <1>3, <1>4, <2>2
  <2>4. n \in 1 .. n /\ n \notin 1 .. m
    BY <1>5, <2>1
  <2> QED BY <2>3, <2>4
<1>6. \A m \in B : n <= m
  BY <1>5
<1> QED BY <1>6

\* Among finitely many numbers one is the largest.
LEMMA LargestNumber ==
    ASSUME NEW S, \A n \in S : n \in Nat, S # {}, IsFiniteSet(S)
    PROVE  \E n \in S : \A m \in S : m <= n
<1> DEFINE Bad == {T \in SUBSET S : T # {} /\ ~\E n \in T : \A m \in T : m <= n}
<1> SUFFICES ASSUME Bad # {} PROVE FALSE
  OBVIOUS
<1>1. PICK T \in Bad : \A U \in Bad : U \subseteq T => U = T
  <2>1. Bad \in SUBSET (SUBSET S)
    OBVIOUS
  <2> HIDE DEF Bad
  <2> QED BY <2>1, SmallestSubset
<1>2. PICK x \in T : TRUE
  OBVIOUS
<1>3. \A n \in T : n \in Nat
  OBVIOUS
<1> DEFINE U == T \ {x}
<1>4. U \notin Bad /\ U \in SUBSET S
  BY <1>1, <1>2
<1>5. CASE U = {}
  <2>1. \A m \in T : m = x
    BY <1>5
  <2> QED BY <1>2, <1>3, <2>1
<1>6. CASE U # {}
  <2>1. PICK n \in U : \A m \in U : m <= n
    BY <1>4, <1>6
  <2>2. \A m \in T : m = x \/ m <= n
    BY <2>1
  <2>3. n <= x \/ x <= n
    BY <1>2, <1>3, <2>1
  <2>4. (\A m \in T : m <= x) \/ (\A m \in T : m <= n)
    BY <1>2, <1>3, <2>1, <2>2, <2>3
  <2> QED BY <1>2, <2>1, <2>4
<1> QED BY <1>5, <1>6

-----------------------------------------------------------------------------
(* The recursive function behind the sum.                                  *)

\* The element that is added last.
SumLast(s) == CHOOSE x \in s : TRUE

\* The recursion's equation at a set, and the function it defines over a set.
SumStep(f, g, s) == IF s = {} THEN 0 ELSE f[SumLast(s)] + g[s \ {SumLast(s)}]
SumSolves(f, g, S) == g = [s \in SUBSET S |-> SumStep(f, g, s)]
SumIter(f, S) == CHOOSE g : SumSolves(f, g, S)

LEMMA SumIsIter == \A f, S : SumFunctionOnSet(f, S) = SumIter(f, S)[S]
BY DEF SumFunctionOnSet, FoldFunctionOnSet, MapThenFoldSet, SumIter, SumSolves, SumStep, SumLast

LEMMA LastIsIn == ASSUME NEW s, s # {} PROVE SumLast(s) \in s
BY DEF SumLast

\* Two solutions agree where both are defined.
LEMMA SolutionsAgree ==
    ASSUME NEW f, NEW S, IsFiniteSet(S), NEW T, NEW g, NEW h,
           SumSolves(f, g, S), SumSolves(f, h, T)
    PROVE  \A s \in (SUBSET S) \cap (SUBSET T) : g[s] = h[s]
<1> DEFINE Bad == {s \in (SUBSET S) \cap (SUBSET T) : g[s] # h[s]}
<1> SUFFICES ASSUME Bad # {} PROVE FALSE
  OBVIOUS
<1>0a. Bad \in SUBSET (SUBSET S)
  OBVIOUS
<1>1. PICK s \in Bad : \A r \in Bad : r \subseteq s => r = s
  <2> HIDE DEF Bad
  <2> QED BY <1>0a, SmallestSubset
<1>2. g[s] = SumStep(f, g, s) /\ h[s] = SumStep(f, h, s)
  BY DEF SumSolves
<1>3. CASE s = {}
  BY <1>2, <1>3 DEF SumStep
<1>4. CASE s # {}
  <2> DEFINE r == s \ {SumLast(s)}
  <2>1. r \in (SUBSET S) \cap (SUBSET T) /\ r \subseteq s /\ r # s
    BY <1>4, LastIsIn
  <2>2. g[r] = h[r]
    BY <2>1, <1>1
  <2> QED BY <1>2, <1>4, <2>2 DEF SumStep
<1> QED BY <1>3, <1>4

LEMMA IterSolves ==
    ASSUME NEW f, NEW S, IsFiniteSet(S)
    PROVE  SumSolves(f, SumIter(f, S), S)
<1> DEFINE Bad == {T \in SUBSET S : ~ SumSolves(f, SumIter(f, T), T)}
<1> SUFFICES ASSUME Bad # {} PROVE FALSE
  OBVIOUS
<1>0a. Bad \in SUBSET (SUBSET S)
  OBVIOUS
<1>1. PICK T \in Bad : \A U \in Bad : U \subseteq T => U = T
  <2> HIDE DEF Bad
  <2> QED BY <1>0a, SmallestSubset
<1>2. \A U \in SUBSET T : U # T => SumSolves(f, SumIter(f, U), U) /\ IsFiniteSet(U)
  BY <1>1, FS_Subset
<1> DEFINE h == [s \in SUBSET T |-> IF s = {} THEN 0 
                       ELSE f[SumLast(s)] + SumIter(f, s \ {SumLast(s)})[s \ {SumLast(s)}]]
<1>3. ASSUME NEW s \in SUBSET T PROVE h[s] = SumStep(f, h, s)
  <2>1. CASE s = {}
    BY <2>1 DEF SumStep
  <2>2. CASE s # {}
    <3> DEFINE u == s \ {SumLast(s)}
    <3>1. u \in SUBSET T /\ u # T
      BY <2>2, LastIsIn
    <3> HIDE DEF u
    <3>2. SumSolves(f, SumIter(f, u), u) /\ IsFiniteSet(u)
      BY <3>1, <1>2
    <3>3. SumIter(f, u)[u] = SumStep(f, SumIter(f, u), u)
      BY <3>2 DEF SumSolves
    <3>4. h[u] = SumIter(f, u)[u]
      <4>1. CASE u = {}
        BY <3>1, <3>3, <4>1 DEF SumStep
      <4>2. CASE u # {}
        <5> DEFINE w == u \ {SumLast(u)}
        <5>1. w \in SUBSET T /\ w # T /\ w \in SUBSET u
          BY <3>1
        <5> HIDE DEF w
        <5>2. SumSolves(f, SumIter(f, w), w)
          BY <5>1, <1>2
        <5>3. SumIter(f, u)[w] = SumIter(f, w)[w]
          BY <5>1, <5>2, <3>2, SolutionsAgree
        <5>4. h[u] = f[SumLast(u)] + SumIter(f, w)[w]
          BY <3>1, <4>2 DEF w
        <5> QED BY <3>3, <4>2, <5>3, <5>4 DEF SumStep, w
      <4> QED BY <4>1, <4>2
    <3>5. h[s] = f[SumLast(s)] + SumIter(f, u)[u]
      BY <2>2 DEF u
    <3> QED BY <3>4, <3>5, <2>2 DEF SumStep, u
  <2> QED BY <2>1, <2>2
<1>4. h = [s \in SUBSET T |-> h[s]]
  OBVIOUS
<1> HIDE DEF h
<1>5. SumSolves(f, h, T)
  BY <1>3, <1>4 DEF SumSolves
<1>6. SumSolves(f, SumIter(f, T), T)
  BY <1>5 DEF SumIter
<1> QED BY <1>1, <1>6

\* The sum of nothing, and of a set by the element that is added last.
LEMMA SumUnfolds ==
    ASSUME NEW f, NEW S, IsFiniteSet(S)
    PROVE  /\ S = {} => SumFunctionOnSet(f, S) = 0
           /\ S # {} => SumFunctionOnSet(f, S)
                          = f[SumLast(S)] + SumFunctionOnSet(f, S \ {SumLast(S)})
<1>0. SumSolves(f, SumIter(f, S), S)
  BY IterSolves
<1>1. SumIter(f, S)[S] = SumStep(f, SumIter(f, S), S)
  BY <1>0 DEF SumSolves
<1>2. CASE S = {}
  BY <1>1, <1>2, SumIsIter DEF SumStep
<1>3. CASE S # {}
  <2> DEFINE u == S \ {SumLast(S)}
  <2>1. IsFiniteSet(u) /\ u \in SUBSET S
    BY FS_Subset
  <2>2. SumIter(f, S)[u] = SumIter(f, u)[u]
    BY <2>1, IterSolves, SolutionsAgree
  <2> QED BY <1>1, <1>3, <2>2, SumIsIter DEF SumStep
<1> QED BY <1>2, <1>3

-----------------------------------------------------------------------------
(* Sums of numbers.                                                        *)

LEMMA SumOfNothing == ASSUME NEW f PROVE SumFunctionOnSet(f, {}) = 0
BY SumUnfolds, FS_EmptySet

LEMMA SumIsInt ==
    ASSUME NEW f, NEW S, IsFiniteSet(S), \A s \in S : f[s] \in Int
    PROVE  SumFunctionOnSet(f, S) \in Int
<1> DEFINE Bad == {T \in SUBSET S : SumFunctionOnSet(f, T) \notin Int}
<1> SUFFICES ASSUME Bad # {} PROVE FALSE
  OBVIOUS
<1>0a. Bad \in SUBSET (SUBSET S)
  OBVIOUS
<1>1. PICK T \in Bad : \A U \in Bad : U \subseteq T => U = T
  <2> HIDE DEF Bad
  <2> QED BY <1>0a, SmallestSubset
<1>2. IsFiniteSet(T)
  BY FS_Subset
<1>3. CASE T = {}
  BY <1>1, <1>3, SumOfNothing
<1>4. CASE T # {}
  <2>1. SumLast(T) \in T
    BY <1>4, LastIsIn
  <2>2. SumFunctionOnSet(f, T \ {SumLast(T)}) \in Int
    BY <1>1, <2>1
  <2>3. f[SumLast(T)] \in Int
    BY <2>1
  <2> QED BY <1>1, <1>2, <1>4, <2>2, <2>3, SumUnfolds
<1> QED BY <1>3, <1>4

\* It does not matter which element is added last.
LEMMA SumTakesOut ==
    ASSUME NEW f, NEW S, IsFiniteSet(S), \A s \in S : f[s] \in Int, NEW x \in S
    PROVE  SumFunctionOnSet(f, S) = f[x] + SumFunctionOnSet(f, S \ {x})
<1> DEFINE Sum(T) == SumFunctionOnSet(f, T)
           Bad == {T \in SUBSET S : \E y \in T : Sum(T) # f[y] + Sum(T \ {y})}
<1> SUFFICES ASSUME Bad # {} PROVE FALSE
  OBVIOUS
<1>0a. Bad \in SUBSET (SUBSET S)
  OBVIOUS
<1>1. PICK T \in Bad : \A U \in Bad : U \subseteq T => U = T
  <2> HIDE DEF Bad
  <2> QED BY <1>0a, SmallestSubset
<1>2. PICK y \in T : Sum(T) # f[y] + Sum(T \ {y})
  BY <1>1
<1> DEFINE c == SumLast(T)
           rest == (T \ {c}) \ {y}
<1>3. c \in T
  BY LastIsIn
<1>4. Sum(T) = f[c] + Sum(T \ {c})
  <2>1. IsFiniteSet(T) /\ T # {}
    BY FS_Subset
  <2> QED BY <2>1, SumUnfolds
<1>5. c # y
  BY <1>2, <1>4
<1>6. Sum(T \ {c}) = f[y] + Sum(rest)
  <2>1. T \ {c} \in SUBSET S /\ T \ {c} \subseteq T /\ T \ {c} # T /\ y \in T \ {c}
    BY <1>3, <1>5
  <2> QED BY <1>1, <2>1
<1>7. Sum(T \ {y}) = f[c] + Sum(rest)
  <2>1. (T \ {y}) \ {c} = rest
    OBVIOUS
  <2>2. T \ {y} \in SUBSET S /\ T \ {y} \subseteq T /\ T \ {y} # T /\ c \in T \ {y}
    BY <1>3, <1>5
  <2> QED BY <1>1, <2>1, <2>2
<1>8. Sum(rest) \in Int
  BY SumIsInt, FS_Subset
<1>9. f[c] \in Int /\ f[y] \in Int
  BY <1>3
<1> HIDE DEF Sum, c, rest, Bad
<1> QED BY <1>2, <1>4, <1>6, <1>7, <1>8, <1>9

\* One more element.
LEMMA SumAdds ==
    ASSUME NEW f, NEW S, IsFiniteSet(S), \A s \in S : f[s] \in Int,
           NEW x, x \notin S, f[x] \in Int
    PROVE  SumFunctionOnSet(f, S \cup {x}) = f[x] + SumFunctionOnSet(f, S)
<1>1. IsFiniteSet(S \cup {x})
  BY FS_AddElement
<1>2. (S \cup {x}) \ {x} = S
  OBVIOUS
<1> QED BY <1>1, <1>2, SumTakesOut

\* A sum is that of the values, whatever the function is elsewhere.
LEMMA SumOfSameValues ==
    ASSUME NEW f, NEW g, NEW S, IsFiniteSet(S), \A s \in S : f[s] = g[s]
    PROVE  SumFunctionOnSet(f, S) = SumFunctionOnSet(g, S)
<1> DEFINE Bad == {T \in SUBSET S : SumFunctionOnSet(f, T) # SumFunctionOnSet(g, T)}
<1> SUFFICES ASSUME Bad # {} PROVE FALSE
  OBVIOUS
<1>0a. Bad \in SUBSET (SUBSET S)
  OBVIOUS
<1>1. PICK T \in Bad : \A U \in Bad : U \subseteq T => U = T
  <2> HIDE DEF Bad
  <2> QED BY <1>0a, SmallestSubset
<1>2. CASE T = {}
  BY <1>1, <1>2, SumOfNothing
<1>3. CASE T # {}
  <2>1. SumLast(T) \in T /\ IsFiniteSet(T)
    BY <1>3, LastIsIn, FS_Subset
  <2>2. SumFunctionOnSet(f, T \ {SumLast(T)}) = SumFunctionOnSet(g, T \ {SumLast(T)})
    BY <1>1, <2>1
  <2> QED BY <1>1, <1>3, <2>1, <2>2, SumUnfolds
<1> QED BY <1>2, <1>3

\* Larger values have a larger sum.
LEMMA SumOfLargerValues ==
    ASSUME NEW f, NEW g, NEW S, IsFiniteSet(S),
           \A s \in S : f[s] \in Int /\ g[s] \in Int /\ f[s] <= g[s]
    PROVE  SumFunctionOnSet(f, S) <= SumFunctionOnSet(g, S)
<1> DEFINE Bad == {T \in SUBSET S : ~ (SumFunctionOnSet(f, T) <= SumFunctionOnSet(g, T))}
<1> SUFFICES ASSUME Bad # {} PROVE FALSE
  OBVIOUS
<1>0a. Bad \in SUBSET (SUBSET S)
  OBVIOUS
<1>1. PICK T \in Bad : \A U \in Bad : U \subseteq T => U = T
  <2> HIDE DEF Bad
  <2> QED BY <1>0a, SmallestSubset
<1>2. CASE T = {}
  BY <1>1, <1>2, SumOfNothing
<1>3. CASE T # {}
  <2> DEFINE c == SumLast(T)
             u == T \ {c}
  <2>1. c \in S /\ c \in T /\ IsFiniteSet(T) /\ IsFiniteSet(u) /\ u \in SUBSET S
    BY <1>3, LastIsIn, FS_Subset
  <2>2. SumFunctionOnSet(f, u) <= SumFunctionOnSet(g, u)
    BY <1>1, <2>1
  <2>3. SumFunctionOnSet(f, u) \in Int /\ SumFunctionOnSet(g, u) \in Int
    BY <2>1, SumIsInt
  <2>4. SumFunctionOnSet(f, T) = f[c] + SumFunctionOnSet(f, u)
        /\ SumFunctionOnSet(g, T) = g[c] + SumFunctionOnSet(g, u)
    BY <1>3, <2>1, SumUnfolds
  <2> HIDE DEF c, u
  <2> QED BY <1>1, <2>1, <2>2, <2>3, <2>4
<1> QED BY <1>2, <1>3

\* The sum of the sums of two values.
LEMMA SumOfSums ==
    ASSUME NEW f, NEW g, NEW h, NEW S, IsFiniteSet(S),
           \A s \in S : f[s] \in Int /\ g[s] \in Int /\ h[s] = f[s] + g[s]
    PROVE  SumFunctionOnSet(h, S) = SumFunctionOnSet(f, S) + SumFunctionOnSet(g, S)
<1> DEFINE Bad == {T \in SUBSET S : SumFunctionOnSet(h, T)
                                      # SumFunctionOnSet(f, T) + SumFunctionOnSet(g, T)}
<1> SUFFICES ASSUME Bad # {} PROVE FALSE
  OBVIOUS
<1>0a. Bad \in SUBSET (SUBSET S)
  OBVIOUS
<1>1. PICK T \in Bad : \A U \in Bad : U \subseteq T => U = T
  <2> HIDE DEF Bad
  <2> QED BY <1>0a, SmallestSubset
<1>2. CASE T = {}
  BY <1>1, <1>2, SumOfNothing
<1>3. CASE T # {}
  <2> DEFINE c == SumLast(T)
             u == T \ {c}
  <2>1. c \in S /\ c \in T /\ IsFiniteSet(T) /\ IsFiniteSet(u) /\ u \in SUBSET S
    BY <1>3, LastIsIn, FS_Subset
  <2>2. SumFunctionOnSet(h, u) = SumFunctionOnSet(f, u) + SumFunctionOnSet(g, u)
    BY <1>1, <2>1
  <2>3. SumFunctionOnSet(f, u) \in Int /\ SumFunctionOnSet(g, u) \in Int
    BY <2>1, SumIsInt
  <2>4. /\ SumFunctionOnSet(f, T) = f[c] + SumFunctionOnSet(f, u)
        /\ SumFunctionOnSet(g, T) = g[c] + SumFunctionOnSet(g, u)
        /\ SumFunctionOnSet(h, T) = h[c] + SumFunctionOnSet(h, u)
    BY <1>3, <2>1, SumUnfolds
  <2>5. SumFunctionOnSet(h, T) # SumFunctionOnSet(f, T) + SumFunctionOnSet(g, T)
    BY <1>1
  <2> HIDE DEF c, u, Bad
  <2> QED BY <2>1, <2>2, <2>3, <2>4, <2>5
<1> QED BY <1>2, <1>3

LEMMA SumIsNat ==
    ASSUME NEW f, NEW S, IsFiniteSet(S), \A s \in S : f[s] \in Nat
    PROVE  SumFunctionOnSet(f, S) \in Nat
<1> DEFINE Bad == {T \in SUBSET S : SumFunctionOnSet(f, T) \notin Nat}
<1> SUFFICES ASSUME Bad # {} PROVE FALSE
  OBVIOUS
<1>0a. Bad \in SUBSET (SUBSET S)
  OBVIOUS
<1>1. PICK T \in Bad : \A U \in Bad : U \subseteq T => U = T
  <2> HIDE DEF Bad
  <2> QED BY <1>0a, SmallestSubset
<1>2. IsFiniteSet(T)
  BY FS_Subset
<1>3. CASE T = {}
  BY <1>1, <1>3, SumOfNothing
<1>4. CASE T # {}
  <2>1. SumLast(T) \in T
    BY <1>4, LastIsIn
  <2>2. SumFunctionOnSet(f, T \ {SumLast(T)}) \in Nat
    BY <1>1, <2>1
  <2>3. f[SumLast(T)] \in Nat
    BY <2>1
  <2> QED BY <1>1, <1>2, <1>4, <2>2, <2>3, SumUnfolds
<1> QED BY <1>3, <1>4

\* The sums of two disjoint sets.
LEMMA SumOfTwoSets ==
    ASSUME NEW f, NEW S, NEW T, IsFiniteSet(S), IsFiniteSet(T), S \cap T = {},
           \A s \in S \cup T : f[s] \in Int
    PROVE  SumFunctionOnSet(f, S \cup T) = SumFunctionOnSet(f, S) + SumFunctionOnSet(f, T)
<1> DEFINE Bad == {U \in SUBSET T : SumFunctionOnSet(f, S \cup U)
                                      # SumFunctionOnSet(f, S) + SumFunctionOnSet(f, U)}
<1> SUFFICES ASSUME Bad # {} PROVE FALSE
  OBVIOUS
<1>0a. Bad \in SUBSET (SUBSET T)
  OBVIOUS
<1>1. PICK U \in Bad : \A V \in Bad : V \subseteq U => V = U
  <2> HIDE DEF Bad
  <2> QED BY <1>0a, SmallestSubset
<1>0. SumFunctionOnSet(f, S) \in Int
  BY SumIsInt
<1>2. CASE U = {}
  <2>1. S \cup U = S
    BY <1>2
  <2> QED BY <1>0, <1>1, <1>2, <2>1, SumOfNothing
<1>3. CASE U # {}
  <2>0. PICK c \in U : TRUE
    BY <1>3
  <2> DEFINE V == U \ {c}
  <2>1. c \in T /\ c \notin S /\ c \notin S \cup V /\ V \subseteq U /\ V # U /\ V \in SUBSET T
    BY <2>0
  <2>2. IsFiniteSet(U) /\ IsFiniteSet(V) /\ IsFiniteSet(S \cup V)
    BY <2>1, FS_Subset, FS_Union
  <2>3. SumFunctionOnSet(f, S \cup V) = SumFunctionOnSet(f, S) + SumFunctionOnSet(f, V)
    BY <1>1, <2>1
  <2>4. SumFunctionOnSet(f, U) = f[c] + SumFunctionOnSet(f, V)
    BY <2>2, SumTakesOut
  <2>5. SumFunctionOnSet(f, (S \cup V) \cup {c}) = f[c] + SumFunctionOnSet(f, S \cup V)
    BY <2>1, <2>2, SumAdds
  <2>6. (S \cup V) \cup {c} = S \cup U
    BY <2>0
  <2>8. SumFunctionOnSet(f, S \cup U) = f[c] + SumFunctionOnSet(f, S \cup V)
    BY <2>5, <2>6
  <2>7. SumFunctionOnSet(f, V) \in Int /\ f[c] \in Int
    BY <2>1, <2>2, SumIsInt
  <2>9. SumFunctionOnSet(f, S \cup U) = SumFunctionOnSet(f, S) + SumFunctionOnSet(f, U)
    <3> HIDE DEF V, Bad
    <3> QED BY <1>0, <2>3, <2>4, <2>7, <2>8
  <2> QED BY <1>1, <2>9
<1> QED BY <1>2, <1>3

\* A part of a set of naturals sums to no more than the whole.
LEMMA SumOfPart ==
    ASSUME NEW f, NEW S, IsFiniteSet(S), \A s \in S : f[s] \in Nat, NEW T \in SUBSET S
    PROVE  SumFunctionOnSet(f, T) <= SumFunctionOnSet(f, S)
<1>1. IsFiniteSet(T) /\ IsFiniteSet(S \ T) /\ T \cap (S \ T) = {}
  BY FS_Subset
<1>2. SumFunctionOnSet(f, T) \in Nat /\ SumFunctionOnSet(f, S \ T) \in Nat
  BY <1>1, SumIsNat
<1>3. SumFunctionOnSet(f, T \cup (S \ T)) = SumFunctionOnSet(f, T) + SumFunctionOnSet(f, S \ T)
  BY <1>1, SumOfTwoSets
<1>4. T \cup (S \ T) = S
  OBVIOUS
<1>5. SumFunctionOnSet(f, S) = SumFunctionOnSet(f, T) + SumFunctionOnSet(f, S \ T)
  BY <1>3, <1>4
<1> QED BY <1>2, <1>5

\* One value changed.
LEMMA SumOfChange ==
    ASSUME NEW f, NEW g, NEW S, IsFiniteSet(S), NEW x \in S,
           \A s \in S : f[s] \in Int /\ g[s] \in Int,
           \A s \in S \ {x} : f[s] = g[s]
    PROVE  SumFunctionOnSet(g, S) = SumFunctionOnSet(f, S) + g[x] - f[x]
<1>1. IsFiniteSet(S \ {x})
  BY FS_Subset
<1>2. SumFunctionOnSet(f, S \ {x}) = SumFunctionOnSet(g, S \ {x})
  BY <1>1, SumOfSameValues
<1>3. SumFunctionOnSet(f, S) = f[x] + SumFunctionOnSet(f, S \ {x})
  BY SumTakesOut
<1>4. SumFunctionOnSet(g, S) = g[x] + SumFunctionOnSet(g, S \ {x})
  BY SumTakesOut
<1>5. SumFunctionOnSet(f, S \ {x}) \in Int
  BY <1>1, SumIsInt
<1> QED BY <1>2, <1>3, <1>4, <1>5

LEMMA SumOfZeros ==
    ASSUME NEW f, NEW S, IsFiniteSet(S), \A s \in S : f[s] = 0
    PROVE  SumFunctionOnSet(f, S) = 0
<1> DEFINE Bad == {T \in SUBSET S : SumFunctionOnSet(f, T) # 0}
<1> SUFFICES ASSUME Bad # {} PROVE FALSE
  OBVIOUS
<1>1. Bad \in SUBSET (SUBSET S)
  OBVIOUS
<1>2. PICK T \in Bad : \A U \in Bad : U \subseteq T => U = T
  <2> HIDE DEF Bad
  <2> QED BY <1>1, SmallestSubset
<1>3. CASE T = {}
  BY <1>2, <1>3, SumOfNothing
<1>4. CASE T # {}
  <2>1. SumLast(T) \in T /\ IsFiniteSet(T)
    BY <1>4, LastIsIn, FS_Subset
  <2>2. SumFunctionOnSet(f, T \ {SumLast(T)}) = 0
    BY <1>2, <2>1
  <2>3. f[SumLast(T)] = 0
    BY <2>1
  <2> QED BY <1>2, <1>4, <2>1, <2>2, <2>3, SumUnfolds
<1> QED BY <1>3, <1>4

=============================================================================
