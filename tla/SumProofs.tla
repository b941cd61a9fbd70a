------------------------------- MODULE SumProofs -------------------------------
(***************************************************************************)
(* What the sums of the models compute: SumFunctionOnSet and MapThenSumSet *)
(* of the community modules, over a finite set.  Both fold the set in the  *)
(* order of a CHOOSE; the lemmas say that the recursion has a solution,    *)
(* that the order does not matter, and what one element more adds.         *)
(*                                                                         *)
(* Induction is by smallest counterexample: among the subsets of a finite  *)
(* set that a claim fails for, one has no proper subset that it fails for. *)
(***************************************************************************)
EXTENDS Integers, FiniteSets, FiniteSetsExt, Functions, FiniteSetTheorems,
        WellFoundedInduction, TLAPS

\* A set of finite sets has one with no proper subset in it.
LEMMA SmallestSubset ==
  ASSUME NEW S, IsFiniteSet(S), NEW T \in SUBSET (SUBSET S), T # {}
  PROVE  \E s \in T : \A t \in T : t \subseteq s => t = s
<1>1. IsWellFoundedOn(StrictSubsetOrdering(S), FiniteSubsetsOf(S))
  BY FS_StrictSubsetOrderingWellFounded
<1>2. T \subseteq FiniteSubsetsOf(S)
  BY FS_Subset DEF FiniteSubsetsOf
<1>3. PICK s \in T : \A t \in T : ~ (<<t, s>> \in StrictSubsetOrdering(S))
  BY <1>1, <1>2, WFMin
<1> QED
  BY <1>3 DEF StrictSubsetOrdering

-----------------------------------------------------------------------------
(* The recursion.                                                          *)

Some(s) == CHOOSE x \in s : TRUE

\* g sums f over every subset of S.
SumsOver(g, f, S) ==
  g = [s \in SUBSET S |-> IF s = {} THEN 0 ELSE f[Some(s)] + g[s \ {Some(s)}]]

LEMMA SomeOf ==
  ASSUME NEW s, s # {}
  PROVE  Some(s) \in s
BY DEF Some

LEMMA SumsUnfold ==
  ASSUME NEW S, NEW f, NEW g, SumsOver(g, f, S), NEW s \in SUBSET S
  PROVE  g[s] = IF s = {} THEN 0 ELSE f[Some(s)] + g[s \ {Some(s)}]
BY DEF SumsOver

\* Two sums agree on a set where what they sum agrees.
LEMMA SumsAgree ==
  ASSUME NEW S, NEW f, NEW g, SumsOver(g, f, S),
         NEW T, NEW h, NEW k, SumsOver(k, h, T),
         NEW w, w \subseteq S, w \subseteq T, IsFiniteSet(w),
         \A x \in w : f[x] = h[x]
  PROVE  g[w] = k[w]
<1> DEFINE Bad == {v \in SUBSET w : g[v] # k[v]}
<1>1. SUFFICES ASSUME Bad # {} PROVE FALSE
  OBVIOUS
<1>2. PICK v \in Bad : \A t \in Bad : t \subseteq v => t = v
  <2>1. Bad \in SUBSET (SUBSET w)
    OBVIOUS
  <2> HIDE DEF Bad
  <2> QED
    BY <1>1, <2>1, SmallestSubset
<1>3. v \in SUBSET w /\ v \in SUBSET S /\ v \in SUBSET T /\ g[v] # k[v]
  OBVIOUS
<1>4. v # {}
  BY <1>3, SumsUnfold
<1> DEFINE c == Some(v)
<1>5. c \in v
  BY <1>4, SomeOf
<1>6. v \ {c} \notin Bad
  BY <1>2, <1>5
<1>7. g[v \ {c}] = k[v \ {c}]
  BY <1>3, <1>6
<1>8. f[c] = h[c]
  BY <1>3, <1>5
<1> HIDE DEF Bad
<1> QED
  BY <1>3, <1>4, <1>7, <1>8, SumsUnfold

\* The recursion has a solution.
LEMMA SumsExist ==
  ASSUME NEW S, IsFiniteSet(S), NEW f
  PROVE  \E g : SumsOver(g, f, S)
<1> DEFINE Bad == {s \in SUBSET S : ~ \E g : SumsOver(g, f, s)}
<1>1. SUFFICES ASSUME Bad # {} PROVE FALSE
  OBVIOUS
<1>2. PICK s \in Bad : \A t \in Bad : t \subseteq s => t = s
  <2>1. Bad \in SUBSET (SUBSET S)
    OBVIOUS
  <2> HIDE DEF Bad
  <2> QED
    BY <1>1, <2>1, SmallestSubset
<1>3. s \in SUBSET S /\ \A t \in SUBSET s : t # s => \E g : SumsOver(g, f, t)
  BY <1>2
<1> DEFINE Of(t) == CHOOSE g : SumsOver(g, f, t)
<1>4. \A t \in SUBSET s : t # s => SumsOver(Of(t), f, t)
  BY <1>3
<1> DEFINE g == [t \in SUBSET s |->
                   IF t = {} THEN 0
                   ELSE f[Some(t)] + Of(t \ {Some(t)})[t \ {Some(t)}]]
<1>5. ASSUME NEW t \in SUBSET s, t # s
      PROVE  g[t] = Of(t)[t]
  <2>1. SumsOver(Of(t), f, t) /\ t \in SUBSET t
    BY <1>4, <1>5
  <2>2. CASE t = {}
    BY <2>1, <2>2, SumsUnfold
  <2>3. CASE t # {}
    <3> DEFINE u == t \ {Some(t)}
    <3>1. Some(t) \in t /\ u \in SUBSET s /\ u # s /\ u \subseteq t
      BY <1>5, <2>3, SomeOf
    <3>2. SumsOver(Of(u), f, u)
      BY <1>4, <3>1
    <3>3. IsFiniteSet(u)
      BY <1>3, <3>1, FS_Subset
    <3>4. Of(u)[u] = Of(t)[u]
      <4> HIDE DEF Of, u
      <4> QED
        BY <2>1, <3>1, <3>2, <3>3, SumsAgree
    <3>5. Of(t)[t] = f[Some(t)] + Of(t)[u]
      <4> HIDE DEF Of
      <4> QED
        BY <2>1, <2>3, SumsUnfold
    <3>6. g[t] = f[Some(t)] + Of(u)[u]
      BY <2>3
    <3> QED
      BY <3>4, <3>5, <3>6
  <2> QED
    BY <2>2, <2>3
<1>6. ASSUME NEW t \in SUBSET s, t # {}
      PROVE  g[t] = f[Some(t)] + g[t \ {Some(t)}]
  <2> DEFINE u == t \ {Some(t)}
  <2>1. u \in SUBSET s /\ u # s
    BY <1>6, SomeOf
  <2>2. g[u] = Of(u)[u]
    BY <1>5, <2>1
  <2>3. g[t] = f[Some(t)] + Of(u)[u]
    BY <1>6
  <2> QED
    BY <2>2, <2>3
<1>7. g = [t \in SUBSET s |-> g[t]] /\ \A t \in SUBSET s : t = {} => g[t] = 0
  OBVIOUS
<1> HIDE DEF g
<1>8. SumsOver(g, f, s)
  BY <1>6, <1>7 DEF SumsOver
<1> QED
  BY <1>2, <1>8

\* The order of the elements does not matter: any of them may be taken first.
LEMMA SumsTakeAny ==
  ASSUME NEW S, IsFiniteSet(S), NEW f, \A x \in S : f[x] \in Int,
         NEW g, SumsOver(g, f, S)
  PROVE  \A s \in SUBSET S : g[s] \in Int /\ \A x \in s : g[s] = f[x] + g[s \ {x}]
<1> DEFINE Good(s) == g[s] \in Int /\ \A x \in s : g[s] = f[x] + g[s \ {x}]
           Bad == {s \in SUBSET S : ~ Good(s)}
<1>1. SUFFICES ASSUME Bad # {} PROVE FALSE
  OBVIOUS
<1>2. PICK s \in Bad : \A t \in Bad : t \subseteq s => t = s
  <2>1. Bad \in SUBSET (SUBSET S)
    OBVIOUS
  <2> HIDE DEF Bad
  <2> QED
    BY <1>1, <2>1, SmallestSubset
<1>3. s \in SUBSET S /\ ~ Good(s) /\ \A t \in SUBSET s : t # s => Good(t)
  BY <1>2
<1>4. s # {}
  <2>1. g[{}] = 0
    BY SumsUnfold
  <2>2. Good({})
    BY <2>1
  <2> HIDE DEF Good
  <2> QED
    BY <1>3, <2>2
<1> DEFINE c == Some(s)
<1>5. c \in s /\ g[s] = f[c] + g[s \ {c}]
  BY <1>3, <1>4, SomeOf, SumsUnfold
<1>6. Good(s \ {c})
  BY <1>3, <1>5
<1>7. g[s] \in Int /\ f[c] \in Int
  BY <1>3, <1>5, <1>6
<1>8. ASSUME NEW x \in s, x # c
      PROVE  g[s] = f[x] + g[s \ {x}]
  <2> DEFINE rest == s \ {c, x}
  <2>1. g[s \ {c}] = f[x] + g[rest]
    <3>1. x \in s \ {c} /\ (s \ {c}) \ {x} = rest
      BY <1>8
    <3> QED
      BY <1>6, <3>1
  <2>2. g[s \ {x}] = f[c] + g[rest]
    <3>1. s \ {x} \in SUBSET s /\ s \ {x} # s /\ c \in s \ {x} /\ (s \ {x}) \ {c} = rest
      BY <1>5, <1>8
    <3>2. Good(s \ {x})
      BY <1>3, <3>1
    <3> QED
      BY <3>1, <3>2
  <2>3. f[x] \in Int /\ g[rest] \in Int
    <3>1. rest \in SUBSET s /\ rest # s
      BY <1>8
    <3>2. Good(rest)
      BY <1>3, <3>1
    <3> QED
      BY <1>3, <3>2
  <2> HIDE DEF rest
  <2> QED
    BY <1>5, <1>7, <2>1, <2>2, <2>3
<1>9. Good(s)
  BY <1>5, <1>7, <1>8
<1> QED
  BY <1>3, <1>9

-----------------------------------------------------------------------------
(* The sums of the community modules.                                      *)

LEMMA SumIsFold ==
  ASSUME NEW f, NEW S
  PROVE  SumFunctionOnSet(f, S) = (CHOOSE g : SumsOver(g, f, S))[S]
BY DEF SumFunctionOnSet, FoldFunctionOnSet, MapThenFoldSet, SumsOver, Some

LEMMA SumSolved ==
  ASSUME NEW f, NEW S, IsFiniteSet(S)
  PROVE  \E g : SumsOver(g, f, S) /\ SumFunctionOnSet(f, S) = g[S]
<1> DEFINE g == CHOOSE h : SumsOver(h, f, S)
<1>1. SumsOver(g, f, S)
  BY SumsExist
<1>2. SumFunctionOnSet(f, S) = g[S]
  BY SumIsFold
<1> HIDE DEF g
<1> QED
  BY <1>1, <1>2

LEMMA SumOfNothing ==
  ASSUME NEW f
  PROVE  SumFunctionOnSet(f, {}) = 0
<1>1. IsFiniteSet({})
  BY FS_EmptySet
<1>2. PICK g : SumsOver(g, f, {}) /\ SumFunctionOnSet(f, {}) = g[{}]
  BY <1>1, SumSolved
<1> QED
  BY <1>2, SumsUnfold

LEMMA SumOfSame ==
  ASSUME NEW S, IsFiniteSet(S), NEW f, NEW h, \A x \in S : f[x] = h[x]
  PROVE  SumFunctionOnSet(f, S) = SumFunctionOnSet(h, S)
<1>1. PICK g : SumsOver(g, f, S) /\ SumFunctionOnSet(f, S) = g[S]
  BY SumSolved
<1>2. PICK k : SumsOver(k, h, S) /\ SumFunctionOnSet(h, S) = k[S]
  BY SumSolved
<1>3. g[S] = k[S]
  BY <1>1, <1>2, SumsAgree
<1> QED
  BY <1>1, <1>2, <1>3

LEMMA SumOfIntegers ==
  ASSUME NEW S, IsFiniteSet(S), NEW f, \A x \in S : f[x] \in Int
  PROVE  SumFunctionOnSet(f, S) \in Int
<1>1. PICK g : SumsOver(g, f, S) /\ SumFunctionOnSet(f, S) = g[S]
  BY SumSolved
<1>2. g[S] \in Int
  BY <1>1, SumsTakeAny
<1> QED
  BY <1>1, <1>2

LEMMA SumOfOneMore ==
  ASSUME NEW S, IsFiniteSet(S), NEW a, a \notin S,
         NEW f, \A x \in S \cup {a} : f[x] \in Int
  PROVE  SumFunctionOnSet(f, S \cup {a}) = SumFunctionOnSet(f, S) + f[a]
<1> SUFFICES ASSUME NEW T, T = S \cup {a}
             PROVE  SumFunctionOnSet(f, T) = SumFunctionOnSet(f, S) + f[a]
  OBVIOUS
<1>1. IsFiniteSet(T) /\ \A x \in T : f[x] \in Int
  BY FS_AddElement
<1>2. PICK g : SumsOver(g, f, T) /\ SumFunctionOnSet(f, T) = g[T]
  BY <1>1, SumSolved
<1>3. PICK k : SumsOver(k, f, S) /\ SumFunctionOnSet(f, S) = k[S]
  BY SumSolved
<1>4. g[S] = k[S]
  BY <1>2, <1>3, SumsAgree
<1>5. \A s \in SUBSET T : g[s] \in Int /\ \A x \in s : g[s] = f[x] + g[s \ {x}]
  BY ONLY <1>1, <1>2, SumsTakeAny
<1>6. T \in SUBSET T /\ S \in SUBSET T /\ a \in T /\ T \ {a} = S
  OBVIOUS
<1>7. g[T] = f[a] + g[S] /\ g[S] \in Int /\ f[a] \in Int
  <2>1. g[T] = f[a] + g[T \ {a}]
    BY ONLY <1>5, <1>6
  <2> QED
    BY ONLY <1>1, <1>5, <1>6, <2>1
<1>8. g[T] = g[S] + f[a]
  BY ONLY <1>7
<1> QED
  BY <1>2, <1>3, <1>4, <1>8

\* A sum of naturals is a natural, no less than any of them.
LEMMA SumOfNaturals ==
  ASSUME NEW S, IsFiniteSet(S), NEW f, \A x \in S : f[x] \in Nat
  PROVE  SumFunctionOnSet(f, S) \in Nat /\ \A x \in S : f[x] <= SumFunctionOnSet(f, S)
<1>1. PICK g : SumsOver(g, f, S) /\ SumFunctionOnSet(f, S) = g[S]
  BY SumSolved
<1>2. \A s \in SUBSET S : g[s] \in Int /\ \A x \in s : g[s] = f[x] + g[s \ {x}]
  BY <1>1, SumsTakeAny
<1> DEFINE Bad == {s \in SUBSET S : ~ (g[s] >= 0)}
<1>3. Bad = {}
  <2> SUFFICES ASSUME Bad # {} PROVE FALSE
    OBVIOUS
  <2>1. PICK s \in Bad : \A t \in Bad : t \subseteq s => t = s
    <3>1. Bad \in SUBSET (SUBSET S)
      OBVIOUS
    <3> HIDE DEF Bad
    <3> QED
      BY <3>1, SmallestSubset
  <2>2. s # {}
    <3>1. g[{}] = 0
      BY <1>1, SumsUnfold
    <3> QED
      BY <3>1
  <2>3. PICK x \in s : TRUE
    BY <2>2
  <2> DEFINE rest == s \ {x}
  <2>4. s \in SUBSET S /\ rest \in SUBSET S /\ rest \subseteq s /\ rest # s
    BY <2>3
  <2>5. rest \notin Bad
    BY <2>1, <2>4
  <2>6. g[rest] >= 0
    BY <2>4, <2>5
  <2>7. g[rest] \in Int /\ f[x] \in Nat /\ g[s] = f[x] + g[rest]
    BY <1>2, <2>4
  <2> HIDE DEF rest
  <2>8. g[s] >= 0
    BY <2>6, <2>7
  <2> QED
    BY <2>8
<1>4. \A s \in SUBSET S : g[s] \in Nat
  BY <1>2, <1>3
<1>5. ASSUME NEW x \in S
      PROVE  f[x] <= g[S]
  <2>1. g[S] = f[x] + g[S \ {x}] /\ g[S \ {x}] \in Nat /\ f[x] \in Nat
    BY <1>2, <1>4
  <2> QED
    BY <2>1
<1> QED
  BY <1>1, <1>4, <1>5

\* Whatever solves the recursion for f gives the sum of f.
LEMMA SolutionIsSum ==
  ASSUME NEW S, IsFiniteSet(S), NEW f, NEW g, SumsOver(g, f, S)
  PROVE  g[S] = SumFunctionOnSet(f, S)
<1>1. PICK h : SumsOver(h, f, S) /\ SumFunctionOnSet(f, S) = h[S]
  BY SumSolved
<1>2. g[S] = h[S]
  BY <1>1, SumsAgree
<1> QED
  BY <1>1, <1>2

\* The sum of the sizes of disjoint sets is the size of their union.
LEMMA SumOfSizes ==
  ASSUME NEW S, IsFiniteSet(S), NEW P, \A x \in S : IsFiniteSet(P[x]),
         \A x, y \in S : x # y => P[x] \cap P[y] = {}
  PROVE  /\ IsFiniteSet(UNION {P[x] : x \in S})
         /\ Cardinality(UNION {P[x] : x \in S})
              = SumFunctionOnSet([x \in S |-> Cardinality(P[x])], S)
<1> DEFINE f == [x \in S |-> Cardinality(P[x])]
           U(s) == UNION {P[x] : x \in s}
           Good(s) == IsFiniteSet(U(s)) /\ Cardinality(U(s)) = SumFunctionOnSet(f, s)
           Bad == {s \in SUBSET S : ~ Good(s)}
<1>1. \A x \in S : f[x] = Cardinality(P[x]) /\ f[x] \in Nat
  BY FS_CardinalityType
<1> HIDE DEF f
<1>2. SUFFICES ASSUME Bad # {} PROVE FALSE
  <2>1. (S \in SUBSET S) /\ (Bad = {} => Good(S))
    OBVIOUS
  <2> QED
    BY <1>2, <2>1 DEF f
<1>3. PICK s \in Bad : \A t \in Bad : t \subseteq s => t = s
  <2>1. Bad \in SUBSET (SUBSET S)
    OBVIOUS
  <2> HIDE DEF Bad
  <2> QED
    BY <1>2, <2>1, SmallestSubset
<1>4. s \in SUBSET S /\ ~ Good(s) /\ \A t \in SUBSET s : t # s => Good(t)
  BY <1>3
<1>5. s # {}
  <2>1. U({}) = {}
    OBVIOUS
  <2>2. Good({})
    BY <2>1, FS_EmptySet, SumOfNothing
  <2> HIDE DEF Good
  <2> QED
    BY <1>4, <2>2
<1>6. PICK x \in s : TRUE
  BY <1>5
<1> DEFINE rest == s \ {x}
<1>7. Good(rest)
  BY <1>4, <1>6
<1>8. U(s) = U(rest) \cup P[x] /\ U(rest) \cap P[x] = {}
  BY <1>4, <1>6
<1>9. IsFiniteSet(P[x]) /\ IsFiniteSet(rest) /\ x \in S /\ x \notin rest /\ s = rest \cup {x}
  BY <1>4, <1>6, FS_Subset
<1>10. SumFunctionOnSet(f, s) = SumFunctionOnSet(f, rest) + f[x]
  <2>1. \A y \in rest \cup {x} : f[y] \in Int
    BY <1>1, <1>4, <1>9
  <2> HIDE DEF rest
  <2> QED
    BY <1>9, <2>1, SumOfOneMore
<1>11. IsFiniteSet(U(s)) /\ Cardinality(U(s)) = Cardinality(U(rest)) + Cardinality(P[x])
  <2> SUFFICES ASSUME NEW a, NEW b, NEW c, a = U(s), b = U(rest), c = P[x]
               PROVE  IsFiniteSet(a) /\ Cardinality(a) = Cardinality(b) + Cardinality(c)
    OBVIOUS
  <2>1. a = b \cup c /\ b \cap c = {} /\ IsFiniteSet(b) /\ IsFiniteSet(c)
    BY <1>7, <1>8, <1>9
  <2>2. Cardinality(b) \in Nat /\ Cardinality(c) \in Nat /\ Cardinality({}) = 0
    BY ONLY <2>1, FS_CardinalityType, FS_EmptySet
  <2>3. /\ IsFiniteSet(b \cup c)
        /\ Cardinality(b \cup c) = Cardinality(b) + Cardinality(c) - Cardinality(b \cap c)
    BY ONLY <2>1, FS_Union
  <2>4. IsFiniteSet(a) /\ Cardinality(a) = Cardinality(b \cup c) /\ Cardinality(b \cap c) = 0
    BY ONLY <2>1, <2>2, <2>3, Zenon
  <2> QED
    BY ONLY <2>2, <2>3, <2>4
<1>12. Good(s)
  <2> HIDE DEF U, rest
  <2> QED
    BY <1>1, <1>7, <1>9, <1>10, <1>11
<1> QED
  BY <1>4, <1>12

-----------------------------------------------------------------------------
(* Sums over the parts of a set.                                           *)

\* The sum over two disjoint sets is the sum of the sums over each.
LEMMA SumOfUnion ==
  ASSUME NEW S, IsFiniteSet(S), NEW T, IsFiniteSet(T), S \cap T = {},
         NEW f, \A x \in S \cup T : f[x] \in Int
  PROVE  SumFunctionOnSet(f, S \cup T) = SumFunctionOnSet(f, S) + SumFunctionOnSet(f, T)
<1> DEFINE Good(t) == SumFunctionOnSet(f, S \cup t) = SumFunctionOnSet(f, S) + SumFunctionOnSet(f, t)
           Bad == {t \in SUBSET T : ~ Good(t)}
<1>1. SUFFICES ASSUME Bad # {} PROVE FALSE
  <2>1. (T \in SUBSET T) /\ (Bad = {} => Good(T))
    OBVIOUS
  <2> QED
    BY <1>1, <2>1
<1>2. PICK t \in Bad : \A u \in Bad : u \subseteq t => u = t
  <2>1. Bad \in SUBSET (SUBSET T)
    OBVIOUS
  <2> HIDE DEF Bad
  <2> QED
    BY <1>1, <2>1, SmallestSubset
<1>3. t \in SUBSET T /\ ~ Good(t) /\ \A u \in SUBSET t : u # t => Good(u)
  BY <1>2
<1>4. \A u \in SUBSET T : IsFiniteSet(u) /\ IsFiniteSet(S \cup u) /\ \A x \in S \cup u : f[x] \in Int
  BY FS_Subset, FS_Union
<1>5. t # {}
  <2>1. S \cup {} = S /\ SumFunctionOnSet(f, {}) = 0 /\ SumFunctionOnSet(f, S) \in Int
    BY SumOfNothing, SumOfIntegers
  <2>2. Good({})
    BY <2>1
  <2> HIDE DEF Good
  <2> QED
    BY <1>3, <2>2
<1>6. PICK x \in t : TRUE
  BY <1>5
<1>7. PICK u : u = t \ {x}
  OBVIOUS
<1>8. /\ u \in SUBSET T /\ u \in SUBSET t /\ u # t /\ x \notin u /\ t = u \cup {x}
      /\ x \notin S \cup u /\ S \cup t = (S \cup u) \cup {x}
  BY <1>3, <1>6, <1>7
<1>9. SumFunctionOnSet(f, S \cup u) = SumFunctionOnSet(f, S) + SumFunctionOnSet(f, u)
  BY <1>3, <1>8
<1>10. SumFunctionOnSet(f, t) = SumFunctionOnSet(f, u) + f[x]
  <2>1. \A y \in u \cup {x} : f[y] \in Int
    BY <1>3, <1>4, <1>8
  <2> QED
    BY <1>4, <1>8, <2>1, SumOfOneMore
<1>11. SumFunctionOnSet(f, S \cup t) = SumFunctionOnSet(f, S \cup u) + f[x]
  <2>1. \A y \in (S \cup u) \cup {x} : f[y] \in Int
    BY <1>3, <1>4, <1>8
  <2>2. IsFiniteSet(S \cup u)
    BY <1>4, <1>8
  <2>3. SumFunctionOnSet(f, (S \cup u) \cup {x}) = SumFunctionOnSet(f, S \cup u) + f[x]
    BY ONLY <1>8, <2>1, <2>2, SumOfOneMore
  <2> QED
    BY <1>8, <2>3
<1>12. SumFunctionOnSet(f, S) \in Int /\ SumFunctionOnSet(f, u) \in Int /\ f[x] \in Int
  BY <1>3, <1>4, <1>8, SumOfIntegers
<1>13. Good(t)
  BY ONLY <1>9, <1>10, <1>11, <1>12
<1> QED
  BY <1>3, <1>13

\* The sum over disjoint sets is the sum of the sums over each.
LEMMA SumOfSums ==
  ASSUME NEW S, IsFiniteSet(S), NEW P, \A x \in S : IsFiniteSet(P[x]),
         \A x, y \in S : x # y => P[x] \cap P[y] = {},
         NEW f, \A x \in S : \A z \in P[x] : f[z] \in Int
  PROVE  SumFunctionOnSet([x \in S |-> SumFunctionOnSet(f, P[x])], S)
           = SumFunctionOnSet(f, UNION {P[x] : x \in S})
<1> DEFINE h == [x \in S |-> SumFunctionOnSet(f, P[x])]
           U(s) == UNION {P[x] : x \in s}
           Good(s) == IsFiniteSet(U(s)) /\ SumFunctionOnSet(h, s) = SumFunctionOnSet(f, U(s))
           Bad == {s \in SUBSET S : ~ Good(s)}
<1>1. \A x \in S : h[x] = SumFunctionOnSet(f, P[x]) /\ h[x] \in Int
  BY SumOfIntegers
<1> HIDE DEF h
<1>2. SUFFICES ASSUME Bad # {} PROVE FALSE
  <2>1. (S \in SUBSET S) /\ (Bad = {} => Good(S))
    OBVIOUS
  <2> QED
    BY <1>2, <2>1 DEF h
<1>3. PICK s \in Bad : \A t \in Bad : t \subseteq s => t = s
  <2>1. Bad \in SUBSET (SUBSET S)
    OBVIOUS
  <2> HIDE DEF Bad
  <2> QED
    BY <1>2, <2>1, SmallestSubset
<1>4. s \in SUBSET S /\ ~ Good(s) /\ \A t \in SUBSET s : t # s => Good(t)
  BY <1>3
<1>5. s # {}
  <2>1. U({}) = {}
    OBVIOUS
  <2>2. Good({})
    BY <2>1, FS_EmptySet, SumOfNothing
  <2> HIDE DEF Good
  <2> QED
    BY <1>4, <2>2
<1>6. PICK x \in s : TRUE
  BY <1>5
<1> DEFINE rest == s \ {x}
<1>7. Good(rest)
  BY <1>4, <1>6
<1>8. /\ U(s) = U(rest) \cup P[x] /\ U(rest) \cap P[x] = {}
      /\ \A z \in U(rest) \cup P[x] : f[z] \in Int
  BY <1>4, <1>6
<1>9. IsFiniteSet(P[x]) /\ IsFiniteSet(rest) /\ x \in S /\ x \notin rest /\ s = rest \cup {x}
  BY <1>4, <1>6, FS_Subset
<1>10. SumFunctionOnSet(h, s) = SumFunctionOnSet(h, rest) + h[x]
  <2>1. \A y \in rest \cup {x} : h[y] \in Int
    BY <1>1, <1>4, <1>9
  <2> HIDE DEF rest
  <2> QED
    BY <1>9, <2>1, SumOfOneMore
<1>11. /\ IsFiniteSet(U(s))
       /\ SumFunctionOnSet(f, U(s)) = SumFunctionOnSet(f, U(rest)) + SumFunctionOnSet(f, P[x])
  <2> SUFFICES ASSUME NEW a, NEW b, NEW c, a = U(s), b = U(rest), c = P[x]
               PROVE  /\ IsFiniteSet(a)
                      /\ SumFunctionOnSet(f, a) = SumFunctionOnSet(f, b) + SumFunctionOnSet(f, c)
    OBVIOUS
  <2>1. /\ a = b \cup c /\ b \cap c = {} /\ IsFiniteSet(b) /\ IsFiniteSet(c)
        /\ \A z \in b \cup c : f[z] \in Int
    BY <1>7, <1>8, <1>9
  <2>2. IsFiniteSet(b \cup c)
    BY ONLY <2>1, FS_Union
  <2>3. SumFunctionOnSet(f, b \cup c) = SumFunctionOnSet(f, b) + SumFunctionOnSet(f, c)
    BY ONLY <2>1, SumOfUnion
  <2> QED
    BY ONLY <2>1, <2>2, <2>3
<1>12. Good(s)
  <2>1. SumFunctionOnSet(h, rest) = SumFunctionOnSet(f, U(rest)) /\ h[x] = SumFunctionOnSet(f, P[x])
    BY <1>1, <1>7, <1>9
  <2> HIDE DEF U, rest
  <2> QED
    BY <1>10, <1>11, <2>1
<1> QED
  BY <1>4, <1>12

-----------------------------------------------------------------------------
(* Sums that wrap.                                                         *)

LEMMA RemainderOf ==
  ASSUME NEW M \in Nat \ {0}, NEW a \in Int
  PROVE  /\ a % M \in 0..M - 1
         /\ a \div M \in Int
         /\ a = M * (a \div M) + (a % M)
OBVIOUS

LEMMA RemainderUnique ==
  ASSUME NEW M \in Nat \ {0}, NEW r \in 0..M - 1, NEW s \in 0..M - 1, NEW k \in Int,
         r = M * k + s
  PROVE  r = s
<1>1. CASE k >= 1
  <2>1. M * k >= M
    BY <1>1
  <2> QED
    BY <2>1
<1>2. CASE k <= -1
  <2>1. M * k <= -M
    BY <1>2
  <2> QED
    BY <2>1
<1>3. CASE k = 0
  BY <1>3
<1> QED
  BY <1>1, <1>2, <1>3

LEMMA RemainderSame ==
  ASSUME NEW M \in Nat \ {0}, NEW a \in Int, NEW b \in Int, NEW k \in Int, a = M * k + b
  PROVE  a % M = b % M
<1>1. /\ a % M \in 0..M - 1 /\ a \div M \in Int /\ a = M * (a \div M) + (a % M)
      /\ b % M \in 0..M - 1 /\ b \div M \in Int /\ b = M * (b \div M) + (b % M)
  BY RemainderOf
<1> DEFINE p == a \div M
           q == b \div M
           r == a % M
           s == b % M
<1> HIDE DEF p, q, r, s
<1>2. r \in 0..M - 1 /\ s \in 0..M - 1 /\ p \in Int /\ q \in Int
  BY <1>1 DEF p, q, r, s
<1>3. a = M * p + r /\ b = M * q + s
  BY <1>1 DEF p, q, r, s
<1>4. r = M * (k + q - p) + s
  BY <1>2, <1>3
<1>5. r = s
  BY <1>2, <1>4, RemainderUnique
<1> QED
  BY <1>5 DEF r, s

\* A sum wraps in the end as it does at each addition.
LEMMA RemainderOfSum ==
  ASSUME NEW M \in Nat \ {0}, NEW a \in Int, NEW b \in Int
  PROVE  (a + b) % M = ((a % M) + (b % M)) % M
<1> DEFINE p == a \div M
           q == b \div M
           r == a % M
           s == b % M
<1>1. /\ r \in 0..M - 1 /\ p \in Int /\ a = M * p + r
      /\ s \in 0..M - 1 /\ q \in Int /\ b = M * q + s
  BY RemainderOf
<1> HIDE DEF p, q, r, s
<1>2. /\ a + b = M * (p + q) + (r + s)
      /\ a + b \in Int /\ r + s \in Int /\ p + q \in Int
  BY <1>1
<1>3. (a + b) % M = (r + s) % M
  BY ONLY M \in Nat \ {0}, <1>2, RemainderSame
<1> QED
  BY <1>3 DEF r, s

LEMMA SumWraps ==
  ASSUME NEW M \in Nat \ {0}, NEW S, IsFiniteSet(S), NEW f, \A x \in S : f[x] \in Int
  PROVE  SumFunctionOnSet([x \in S |-> f[x] % M], S) % M = SumFunctionOnSet(f, S) % M
<1> DEFINE h == [x \in S |-> f[x] % M]
           Good(s) == SumFunctionOnSet(h, s) % M = SumFunctionOnSet(f, s) % M
           Bad == {s \in SUBSET S : ~ Good(s)}
<1>1. \A x \in S : h[x] = f[x] % M /\ h[x] \in Int
  BY RemainderOf
<1> HIDE DEF h
<1>2. SUFFICES ASSUME Bad # {} PROVE FALSE
  <2>1. (S \in SUBSET S) /\ (Bad = {} => Good(S))
    OBVIOUS
  <2> QED
    BY <1>2, <2>1 DEF h
<1>3. PICK s \in Bad : \A t \in Bad : t \subseteq s => t = s
  <2>1. Bad \in SUBSET (SUBSET S)
    OBVIOUS
  <2> HIDE DEF Bad
  <2> QED
    BY <1>2, <2>1, SmallestSubset
<1>4. s \in SUBSET S /\ ~ Good(s) /\ \A t \in SUBSET s : t # s => Good(t)
  BY <1>3
<1>5. s # {}
  <2>1. Good({})
    BY SumOfNothing
  <2> HIDE DEF Good
  <2> QED
    BY <1>4, <2>1
<1>6. PICK x \in s : TRUE
  BY <1>5
<1>7. PICK t : t = s \ {x}
  OBVIOUS
<1>8. /\ t \in SUBSET s /\ t # s /\ x \notin t /\ s = t \cup {x} /\ x \in S
      /\ IsFiniteSet(t) /\ \A y \in t \cup {x} : h[y] \in Int /\ f[y] \in Int
  BY <1>1, <1>4, <1>6, <1>7, FS_Subset
<1> DEFINE a == SumFunctionOnSet(f, t)
           b == SumFunctionOnSet(h, t)
<1>9. /\ SumFunctionOnSet(f, s) = a + f[x] /\ SumFunctionOnSet(h, s) = b + h[x]
      /\ a \in Int /\ b \in Int /\ f[x] \in Int /\ h[x] \in Int /\ h[x] = f[x] % M
  BY <1>1, <1>8, SumOfOneMore, SumOfIntegers
<1>10. a % M = b % M
  BY <1>4, <1>8
<1> HIDE DEF a, b
<1>11. (a + f[x]) % M = ((a % M) + (f[x] % M)) % M
  BY <1>9, RemainderOfSum
<1>12. (b + h[x]) % M = ((b % M) + (h[x] % M)) % M
  BY <1>9, RemainderOfSum
<1>13. h[x] % M = f[x] % M
  <2>1. f[x] = M * (f[x] \div M) + h[x] /\ f[x] \div M \in Int
    BY <1>9, RemainderOf
  <2> QED
    BY ZenonT(40), <1>9, <2>1, RemainderSame
<1>14. Good(s)
  BY <1>9, <1>10, <1>11, <1>12, <1>13
<1> QED
  BY <1>4, <1>14

=============================================================================
