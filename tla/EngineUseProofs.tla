-------------------------- MODULE EngineUseProofs ---------------------------
(***************************************************************************)
(* The two uses of the engine: its queries, for every finite set of        *)
(* symbols, and the benchmark's order stream, for every length of the      *)
(* stream and every set of fair values.  Both rest on what was proved of   *)
(* the engine for every bound.                                             *)
(***************************************************************************)
EXTENDS BookQueries, BenchStream, MatchingEngineProofs, SumProofs

-----------------------------------------------------------------------------
(* getOrderCount is a sum over the books; it is compared with the callbacks *)
(* through the sets of ids that Balanced relates.                           *)

\* The ids in each book.
IdsIn == [s \in Symbols |-> {books[s][i].id : i \in DOMAIN books[s]}]

\* A book holds as many ids as orders.
LEMMA IdsOfBook ==
  ASSUME TypeOK, IdsDistinct, NEW s \in Symbols
  PROVE  IsFiniteSet(IdsIn[s]) /\ Cardinality(IdsIn[s]) = Len(books[s])
<1> DEFINE book == books[s]
           f == [i \in 1..Len(book) |-> book[i].id]
<1>1. DOMAIN book = 1..Len(book) /\ Len(book) \in Nat
  BY BookTyped
<1>2. IsFiniteSet(1..Len(book)) /\ Cardinality(1..Len(book)) = Len(book)
  BY <1>1, FS_Interval
<1>3. f \in Bijection(1..Len(book), IdsIn[s])
  <2>1. \A i, j \in 1..Len(book) : f[i] = f[j] => i = j
    BY <1>1 DEF IdsDistinct
  <2>2. IdsIn[s] = {f[i] : i \in 1..Len(book)}
    BY <1>1 DEF IdsIn
  <2> HIDE DEF book
  <2> QED
    BY <2>1, <2>2 DEF Bijection, Injection, Surjection, IsInjective
<1> QED
  BY <1>2, <1>3, FS_Bijection DEF ExistsBijection

LEMMA CountIsSum ==
  ASSUME IsFiniteSet(Symbols)
  PROVE  GetOrderCount = SumFunctionOnSet([s \in Symbols |-> Len(books[s])], Symbols)
<1> DEFINE f == [s \in Symbols |-> Len(books[s])]
           Solves(g) == g = [S \in SUBSET Symbols |->
                               IF S = {} THEN 0 ELSE Len(books[Some(S)]) + g[S \ {Some(S)}]]
           sum == CHOOSE g : Solves(g)
<1>1. GetOrderCount = sum[Symbols]
  BY DEF GetOrderCount, MapThenSumSet, MapThenFoldSet, Some
<1>2. ASSUME NEW g PROVE Solves(g) <=> SumsOver(g, f, Symbols)
  <2>1. \A S \in SUBSET Symbols : S # {} => f[Some(S)] = Len(books[Some(S)])
    BY SomeOf
  <2> QED
    BY <2>1 DEF SumsOver
<1>3. SumsOver(sum, f, Symbols)
  <2>1. \E g : SumsOver(g, f, Symbols)
    BY SumsExist
  <2>2. \E g : Solves(g)
    <3> HIDE DEF f, Solves
    <3> QED
      BY <1>2, <2>1
  <2>3. Solves(sum)
    BY <2>2
  <2> HIDE DEF sum, f, Solves
  <2> QED
    BY <1>2, <2>3
<1> HIDE DEF sum, f
<1>4. sum[Symbols] = SumFunctionOnSet(f, Symbols)
  BY <1>3, SolutionIsSum
<1> QED
  BY <1>1, <1>4 DEF f

LEMMA CountIsResting ==
  ASSUME TypeOK, IdsDistinct, IsFiniteSet(Symbols)
  PROVE  IsFiniteSet(RestingIds) /\ GetOrderCount = Cardinality(RestingIds)
<1> DEFINE all == UNION {IdsIn[s] : s \in Symbols}
<1>1. \A s \in Symbols : IsFiniteSet(IdsIn[s]) /\ Cardinality(IdsIn[s]) = Len(books[s])
  BY IdsOfBook
<1>2. \A s, t \in Symbols : s # t => IdsIn[s] \cap IdsIn[t] = {}
  BY DEF IdsDistinct, IdsIn
<1>3. /\ IsFiniteSet(all)
      /\ Cardinality(all) = SumFunctionOnSet([s \in Symbols |-> Cardinality(IdsIn[s])], Symbols)
  BY <1>1, <1>2, SumOfSizes
<1>4. [s \in Symbols |-> Cardinality(IdsIn[s])] = [s \in Symbols |-> Len(books[s])]
  BY <1>1
<1>5. all = RestingIds
  <2>1. ASSUME NEW id
        PROVE  id \in all <=> \E s \in Symbols : \E i \in DOMAIN books[s] : books[s][i].id = id
    BY DEF IdsIn
  <2> HIDE DEF all
  <2> QED
    BY <2>1, RestingAt
<1> QED
  BY <1>3, <1>4, <1>5, CountIsSum

\* Between calls getOrderCount is the number of orders accepted and not yet
\* reported Filled or Cancelled: the queries and the callbacks agree.
THEOREM CountAgrees == Spec => []OrderCountAgreesWithCallbacks
<1>1. TypeOK /\ Placed /\ Balanced => OrderCountAgreesWithCallbacks
  <2> SUFFICES ASSUME TypeOK, Placed, Balanced, call = Idle
               PROVE  GetOrderCount = nextOrderId - 1 - Cardinality(closed)
    BY DEF OrderCountAgreesWithCallbacks
  <2> DEFINE ids == 1..nextOrderId - 1
  <2>1. nextOrderId \in Int /\ nextOrderId >= 1
    BY MaxOrdersAssumption DEF TypeOK
  <2>2. IsFiniteSet(ids) /\ Cardinality(ids) = nextOrderId - 1
    BY <2>1, FS_Interval
  <2>3. CallIds = {}
    BY DEF CallIds
  <2>4. RestingIds = ids \ closed /\ closed = ids \cap closed
    BY <2>3 DEF Balanced
  <2>5. Cardinality(ids \ closed) = Cardinality(ids) - Cardinality(ids \cap closed)
    <3> HIDE DEF ids
    <3> QED
      BY <2>2, FS_Difference
  <2> QED
    BY <2>2, <2>4, <2>5, CountIsResting, FinitelyManySymbols DEF Placed
<1> QED
  BY <1>1, TypeCorrect, OrdersPlaced, OrdersBalanced, PTL

-----------------------------------------------------------------------------
(* getBookSnapshot.  The prices of a side have an order from the best on;  *)
(* with it a snapshot has one level for each of them, and the levels part  *)
(* the positions of the side.                                              *)

Before(side, p, q) == IF side = "Buy" THEN p > q ELSE p < q

\* A finite set of prices has a last one.
LEMMA LastPrice ==
  ASSUME NEW S, S \subseteq Int, IsFiniteSet(S), S # {}, NEW side
  PROVE  \E x \in S : \A y \in S \ {x} : Before(side, y, x)
<1> DEFINE Bad == {t \in SUBSET S : t # {} /\ ~ \E x \in t : \A y \in t \ {x} : Before(side, y, x)}
<1>1. SUFFICES ASSUME Bad # {} PROVE FALSE
  OBVIOUS
<1>2. PICK t \in Bad : \A u \in Bad : u \subseteq t => u = t
  <2>1. Bad \in SUBSET (SUBSET S)
    OBVIOUS
  <2> HIDE DEF Bad
  <2> QED
    BY ONLY IsFiniteSet(S), <1>1, <2>1, SmallestSubset
<1>3. PICK x \in t : TRUE
  BY <1>2
<1>4. PICK u : u = t \ {x}
  OBVIOUS
<1>5. u \in SUBSET S /\ u \subseteq t /\ u # t /\ t = u \cup {x} /\ t \subseteq Int
  BY <1>2, <1>3, <1>4
<1>6. u \notin Bad
  BY <1>2, <1>5
<1>7. CASE u = {}
  BY <1>2, <1>3, <1>5, <1>7
<1>8. CASE u # {}
  <2>1. PICK z \in u : \A y \in u \ {z} : Before(side, y, z)
    BY <1>5, <1>6, <1>8
  <2>2. z \in Int /\ x \in Int /\ z # x /\ \A y \in u : y \in Int
    BY <1>3, <1>4, <1>5, <2>1
  <2>3. \/ \A y \in t \ {z} : Before(side, y, z)
        \/ \A y \in t \ {x} : Before(side, y, x)
    BY <1>4, <1>5, <2>1, <2>2 DEF Before
  <2> QED
    BY <1>2, <1>3, <1>5, <2>1, <2>3
<1> QED
  BY <1>7, <1>8

\* And so all of them can be put in order.
LEMMA PricesOrdered ==
  ASSUME NEW S, S \subseteq Int, IsFiniteSet(S), NEW side
  PROVE  \E f \in [1..Cardinality(S) -> S] :
           \A k, m \in DOMAIN f : k < m => Before(side, f[k], f[m])
<1> DEFINE Good(s) == \E f \in [1..Cardinality(s) -> s] :
                        \A k, m \in 1..Cardinality(s) : k < m => Before(side, f[k], f[m])
           Bad == {s \in SUBSET S : ~ Good(s)}
<1>1. SUFFICES ASSUME Bad # {} PROVE FALSE
  <2>1. Good(S)
    BY <1>1
  <2>2. PICK f \in [1..Cardinality(S) -> S] :
               \A k, m \in 1..Cardinality(S) : k < m => Before(side, f[k], f[m])
    BY <2>1
  <2> QED
    BY <2>2
<1>2. PICK s \in Bad : \A t \in Bad : t \subseteq s => t = s
  <2>1. Bad \in SUBSET (SUBSET S)
    OBVIOUS
  <2> HIDE DEF Bad
  <2> QED
    BY ONLY IsFiniteSet(S), <1>1, <2>1, SmallestSubset
<1>3. s \in SUBSET S /\ ~ Good(s) /\ \A t \in SUBSET s : t # s => Good(t)
  BY <1>2
<1>4. s # {}
  <2>1. Cardinality({}) = 0 /\ 1..0 = {}
    BY FS_EmptySet
  <2>2. [x \in {} |-> x] \in [1..Cardinality({}) -> {}]
    BY <2>1
  <2>3. Good({})
    BY <2>1, <2>2
  <2> HIDE DEF Good
  <2> QED
    BY <1>3, <2>3
<1>5. s \subseteq Int /\ IsFiniteSet(s)
  BY <1>3, FS_Subset
<1>6. PICK x \in s : \A y \in s \ {x} : Before(side, y, x)
  BY <1>4, <1>5, LastPrice
<1>7. PICK t : t = s \ {x}
  OBVIOUS
<1>8. t \in SUBSET s /\ t # s /\ x \notin t /\ s = t \cup {x} /\ IsFiniteSet(t)
  BY <1>5, <1>6, <1>7, FS_Subset
<1>9. PICK n : n = Cardinality(t)
  OBVIOUS
<1>10. n \in Nat /\ Cardinality(s) = n + 1
  BY <1>8, <1>9, FS_CardinalityType, FS_AddElement
<1>11. PICK f \in [1..n -> t] : \A k, m \in 1..n : k < m => Before(side, f[k], f[m])
  BY <1>3, <1>8, <1>9
<1> DEFINE g == [k \in 1..n + 1 |-> IF k <= n THEN f[k] ELSE x]
<1>12. g \in [1..n + 1 -> s] /\ \A k \in 1..n + 1 : g[k] = IF k <= n THEN f[k] ELSE x
  BY <1>6, <1>8, <1>10, <1>11
<1> HIDE DEF g
<1>13. ASSUME NEW k \in 1..n + 1, NEW m \in 1..n + 1, k < m
       PROVE  Before(side, g[k], g[m])
  <2>1. k \in 1..n /\ g[k] = f[k] /\ f[k] \in s \ {x}
    BY <1>7, <1>10, <1>11, <1>12, <1>13
  <2>2. CASE m <= n
    BY <1>10, <1>11, <1>12, <1>13, <2>1, <2>2
  <2>3. CASE ~ (m <= n)
    BY <1>6, <1>12, <2>1, <2>3
  <2> QED
    BY <2>2, <2>3
<1>14. Good(s)
  BY <1>10, <1>12, <1>13
<1> QED
  BY <1>3, <1>14

\* What InOrder returns: each price once, in order.
LEMMA InOrderEnumerates ==
  ASSUME NEW S, S \subseteq Int, IsFiniteSet(S), NEW side
  PROVE  LET f == InOrder(S, side)
         IN  /\ f \in [1..Cardinality(S) -> S]
             /\ \A k, m \in 1..Cardinality(S) : k < m => Before(side, f[k], f[m])
             /\ \A k, m \in 1..Cardinality(S) : f[k] = f[m] => k = m
             /\ \A p \in S : \E k \in 1..Cardinality(S) : f[k] = p
<1> DEFINE f == InOrder(S, side)
           n == Cardinality(S)
<1>1. n \in Nat
  BY FS_CardinalityType
<1>2. f \in [1..n -> S] /\ \A k, m \in DOMAIN f : k < m => Before(side, f[k], f[m])
  BY PricesOrdered DEF InOrder, Before
<1> HIDE DEF f
<1>3. \A k, m \in 1..n : k < m => Before(side, f[k], f[m])
  BY <1>2
<1>4. \A k \in 1..n : f[k] \in Int
  BY <1>2
<1>5. \A k, m \in 1..n : f[k] = f[m] => k = m
  BY <1>1, <1>3, <1>4 DEF Before
<1>6. \A p \in S : \E k \in 1..n : f[k] = p
  <2>1. IsFiniteSet(1..n) /\ Cardinality(1..n) = n
    BY <1>1, FS_Interval
  <2>2. f \in Injection(1..n, S)
    BY <1>2, <1>5 DEF Injection, IsInjective
  <2>3. f \in Surjection(1..n, S)
    BY <2>1, <2>2, FS_Injection
  <2> QED
    BY <2>3 DEF Surjection
<1> QED
  BY <1>2, <1>3, <1>5, <1>6 DEF f

\* The positions of the orders of a side.
OnSide(s, side) == {j \in DOMAIN books[s] : books[s][j].side = side}

LEMMA PricesAreFinite ==
  ASSUME TypeOK, NEW s \in Symbols, NEW side
  PROVE  /\ IsFiniteSet(OnSide(s, side))
         /\ PricesOf(s, side) \subseteq Int /\ IsFiniteSet(PricesOf(s, side))
<1> DEFINE f == [i \in OnSide(s, side) |-> books[s][i].price]
<1>1. DOMAIN books[s] = 1..Len(books[s]) /\ Len(books[s]) \in Nat
  BY BookTyped
<1>2. IsFiniteSet(OnSide(s, side))
  <2>1. IsFiniteSet(1..Len(books[s])) /\ OnSide(s, side) \subseteq 1..Len(books[s])
    BY <1>1, FS_Interval DEF OnSide
  <2> QED
    BY ONLY <2>1, FS_Subset
<1>3. PricesOf(s, side) = {books[s][i].price : i \in OnSide(s, side)}
  BY DEF PricesOf, OnSide
<1>4. PricesOf(s, side) \subseteq Int
  BY <1>3, BookTyped DEF OnSide
<1>5. f \in Surjection(OnSide(s, side), PricesOf(s, side))
  BY <1>3 DEF Surjection
<1> HIDE DEF f
<1> QED
  BY <1>2, <1>4, <1>5, FS_Surjection

\* A book has no more orders than were ever accepted.
LEMMA BooksFit ==
  ASSUME TypeOK, IdsDistinct, NEW s \in Symbols, NEW part \in SUBSET DOMAIN books[s]
  PROVE  IsFiniteSet(part) /\ Cardinality(part) \in 0..UInt32Modulus - 1
<1>1. /\ DOMAIN books[s] = 1..Len(books[s]) /\ Len(books[s]) \in Nat
      /\ \A i \in DOMAIN books[s] : books[s][i].id \in OrderIds
  BY BookTyped
<1>2. /\ IsFiniteSet(1..Len(books[s])) /\ Cardinality(1..Len(books[s])) = Len(books[s])
      /\ IsFiniteSet(OrderIds) /\ Cardinality(OrderIds) = MaxOrders
  BY SMTT(40), <1>1, MaxOrdersAssumption, FS_Interval DEF OrderIds
<1>3. IdsIn[s] \in SUBSET OrderIds /\ Cardinality(IdsIn[s]) = Len(books[s])
  BY <1>1, IdsOfBook DEF IdsIn
<1>4. Len(books[s]) <= MaxOrders
  BY <1>2, <1>3, FS_Subset
<1>5. part \in SUBSET (1..Len(books[s]))
  BY <1>1
<1>6. IsFiniteSet(part) /\ Cardinality(part) <= Len(books[s])
  BY ONLY <1>2, <1>5, FS_Subset
<1>7. Cardinality(part) \in Nat
  BY <1>6, FS_CardinalityType
<1> QED
  BY <1>1, <1>4, <1>6, <1>7, CountsFit, UInt32Assumption, MaxOrdersAssumption

\* What a snapshot shows: strictly worsening prices, each the price of an order
\* of the side, every order of the side once, and its lots up to the wrap.
LEMMA SnapshotOf ==
  ASSUME TypeOK, IdsDistinct, NEW s \in Symbols, NEW side
  PROVE  LET levels == GetBookSnapshot(s, side)
             n == Cardinality(PricesOf(s, side))
         IN  /\ n \in Nat /\ DOMAIN levels = 1..n /\ Len(levels) = n
             /\ \A k \in 1..n : levels[k].price \in PricesOf(s, side)
             /\ \A k, m \in 1..n : k < m => Before(side, levels[k].price, levels[m].price)
             /\ OrdersIn(levels) = Cardinality(OnSide(s, side))
             /\ LotsIn(levels) \in Int /\ LotsAt(s, OnSide(s, side)) \in Int
             /\ LotsIn(levels) % UInt32Modulus = LotsAt(s, OnSide(s, side)) % UInt32Modulus
<1> DEFINE levels == GetBookSnapshot(s, side)
           keys == PricesOf(s, side)
           n == Cardinality(keys)
           prices == InOrder(keys, side)
           lots == [i \in DOMAIN books[s] |-> books[s][i].remaining]
           P == [k \in 1..n |-> AtLevel(s, side, prices[k])]
           M == UInt32Modulus
<1>1. keys \subseteq Int /\ IsFiniteSet(keys) /\ n \in Nat /\ IsFiniteSet(1..n)
  BY PricesAreFinite, FS_CardinalityType, FS_Interval
<1>2. /\ prices \in [1..n -> keys]
      /\ \A k, m \in 1..n : k < m => Before(side, prices[k], prices[m])
      /\ \A k, m \in 1..n : prices[k] = prices[m] => k = m
      /\ \A p \in keys : \E k \in 1..n : prices[k] = p
  <2> HIDE DEF keys
  <2> QED
    BY ZenonT(40), <1>1, InOrderEnumerates
<1>3. levels = [k \in 1..n |-> PriceLevel(s, side, prices[k])]
  BY <1>2 DEF GetBookSnapshot
<1> HIDE DEF prices, levels
<1>4. DOMAIN levels = 1..n /\ Len(levels) = n
  BY <1>1, <1>3
<1>5. \A k \in 1..n : /\ levels[k].price = prices[k]
                      /\ levels[k].count = Cardinality(P[k]) % M
                      /\ levels[k].total = LotsAt(s, P[k]) % M
  BY <1>3 DEF PriceLevel
<1>6. /\ \A k \in 1..n : P[k] \subseteq DOMAIN books[s] /\ P[k] \subseteq OnSide(s, side)
      /\ \A k, m \in 1..n : k # m => P[k] \cap P[m] = {}
  BY <1>2 DEF AtLevel, OnSide
<1>7. UNION {P[k] : k \in 1..n} = OnSide(s, side)
  <2>1. \A i \in OnSide(s, side) : books[s][i].price \in keys
    BY DEF OnSide, PricesOf
  <2>2. \A i \in OnSide(s, side) : \E k \in 1..n : i \in P[k]
    BY <1>2, <2>1 DEF OnSide, AtLevel
  <2> HIDE DEF P
  <2> QED
    BY <1>6, <2>2
<1> HIDE DEF P, keys
<1>8. \A k \in 1..n : IsFiniteSet(P[k]) /\ Cardinality(P[k]) \in 0..M - 1
  BY <1>6, BooksFit
<1>9. OrdersIn(levels) = Cardinality(OnSide(s, side))
  <2>1. \A k \in 1..n : Cardinality(P[k]) % M = Cardinality(P[k])
    <3>1. \A c \in 0..M - 1 : c % M = c
      BY UInt32Assumption
    <3> QED
      BY <1>8, <3>1
  <2>2. [k \in 1..n |-> levels[k].count] = [k \in 1..n |-> Cardinality(P[k])]
    BY <1>5, <2>1
  <2>3. OrdersIn(levels) = SumFunctionOnSet([k \in 1..n |-> Cardinality(P[k])], 1..n)
    BY <1>4, <2>2 DEF OrdersIn, SumFunction
  <2>4. Cardinality(UNION {P[k] : k \in 1..n})
          = SumFunctionOnSet([k \in 1..n |-> Cardinality(P[k])], 1..n)
    <3> HIDE DEF n
    <3> QED
      BY <1>1, <1>6, <1>8, SumOfSizes
  <2> QED
    BY <1>7, <2>3, <2>4
<1>10. \A i \in DOMAIN books[s] : lots[i] \in Int
  BY BookTyped
<1>11. \A part : LotsAt(s, part) = SumFunctionOnSet(lots, part)
  BY DEF LotsAt
<1> HIDE DEF lots
<1>12. \A k \in 1..n : LotsAt(s, P[k]) \in Int
  BY <1>6, <1>8, <1>10, <1>11, SumOfIntegers
<1>13. LotsAt(s, OnSide(s, side)) \in Int
  BY <1>10, <1>11, PricesAreFinite, SumOfIntegers DEF OnSide
<1> DEFINE sums == [k \in 1..n |-> SumFunctionOnSet(lots, P[k])]
           rests == [k \in 1..n |-> sums[k] % M]
<1>14. LotsIn(levels) = SumFunctionOnSet(rests, 1..n)
  <2>1. [k \in 1..n |-> levels[k].total] = rests
    BY <1>5, <1>11
  <2> QED
    BY <1>4, <2>1 DEF LotsIn, SumFunction
<1>15. \A k \in 1..n : sums[k] \in Int
  BY <1>11, <1>12
<1>16. SumFunctionOnSet(sums, 1..n) = LotsAt(s, OnSide(s, side))
  <2>1. SumFunctionOnSet(sums, 1..n) = SumFunctionOnSet(lots, UNION {P[k] : k \in 1..n})
    <3>1. \A k \in 1..n : \A i \in P[k] : lots[i] \in Int
      BY <1>6, <1>10
    <3> HIDE DEF n
    <3> QED
      BY <1>1, <1>6, <1>8, <3>1, SumOfSums
  <2> QED
    BY <1>7, <1>11, <2>1
<1> HIDE DEF sums
<1>17. SumFunctionOnSet(rests, 1..n) % M = SumFunctionOnSet(sums, 1..n) % M
  <2> HIDE DEF n
  <2> QED
    BY <1>1, <1>15, SumWraps, UInt32Assumption
<1>18. LotsIn(levels) \in Int
  <2>1. \A k \in 1..n : rests[k] \in Int
    BY <1>15, RemainderOf, UInt32Assumption
  <2> HIDE DEF rests, n
  <2> QED
    BY <1>1, <1>14, <2>1, SumOfIntegers
<1>19. \A k \in 1..n : levels[k].price \in keys
  BY <1>2, <1>5
<1>20. \A k, m \in 1..n : k < m => Before(side, levels[k].price, levels[m].price)
  BY <1>2, <1>5
<1> HIDE DEF rests
<1> QED
  BY <1>1, <1>4, <1>9, <1>13, <1>14, <1>16, <1>17, <1>18, <1>19, <1>20 DEF keys, levels

\* Both snapshots of a symbol have their best bid below their best ask and
\* strictly worsening prices, and between them they show every resting order
\* once and every resting lot once, up to the wrap of the 32-bit totals.
THEOREM SnapshotsAgree == Spec => []SnapshotsShowBook
<1>1. TypeOK /\ Placed /\ BooksUncrossed => SnapshotsShowBook
  <2> SUFFICES ASSUME TypeOK, IdsDistinct, BooksUncrossed, NEW s \in Symbols
               PROVE  LET bids == GetBookSnapshot(s, "Buy")
                          asks == GetBookSnapshot(s, "Sell")
                      IN  /\ bids # <<>> /\ asks # <<>> => bids[1].price < asks[1].price
                          /\ \A k \in 1..Len(bids) - 1 : bids[k].price > bids[k + 1].price
                          /\ \A k \in 1..Len(asks) - 1 : asks[k].price < asks[k + 1].price
                          /\ OrdersIn(bids) + OrdersIn(asks) = Len(books[s])
                          /\ (LotsIn(bids) + LotsIn(asks)) % UInt32Modulus
                               = LotsAt(s, DOMAIN books[s]) % UInt32Modulus
    BY DEF SnapshotsShowBook, Placed
  <2> DEFINE bids == GetBookSnapshot(s, "Buy")
             asks == GetBookSnapshot(s, "Sell")
             buys == OnSide(s, "Buy")
             sells == OnSide(s, "Sell")
             M == UInt32Modulus
             b == Cardinality(PricesOf(s, "Buy"))
             a == Cardinality(PricesOf(s, "Sell"))
  <2>1. /\ b \in Nat /\ DOMAIN bids = 1..b /\ Len(bids) = b
        /\ \A k \in 1..b : bids[k].price \in PricesOf(s, "Buy")
        /\ \A k, m \in 1..b : k < m => Before("Buy", bids[k].price, bids[m].price)
        /\ OrdersIn(bids) = Cardinality(buys)
        /\ LotsIn(bids) \in Int /\ LotsAt(s, buys) \in Int
        /\ LotsIn(bids) % M = LotsAt(s, buys) % M
    BY SnapshotOf
  <2>2. /\ a \in Nat /\ DOMAIN asks = 1..a /\ Len(asks) = a
        /\ \A k \in 1..a : asks[k].price \in PricesOf(s, "Sell")
        /\ \A k, m \in 1..a : k < m => Before("Sell", asks[k].price, asks[m].price)
        /\ OrdersIn(asks) = Cardinality(sells)
        /\ LotsIn(asks) \in Int /\ LotsAt(s, sells) \in Int
        /\ LotsIn(asks) % M = LotsAt(s, sells) % M
    BY SnapshotOf
  <2>3. /\ buys \cup sells = DOMAIN books[s] /\ buys \cap sells = {}
        /\ IsFiniteSet(buys) /\ IsFiniteSet(sells)
        /\ DOMAIN books[s] = 1..Len(books[s]) /\ Len(books[s]) \in Nat
        /\ \A i \in DOMAIN books[s] : books[s][i].remaining \in Int
    <3>1. /\ DOMAIN books[s] = 1..Len(books[s]) /\ Len(books[s]) \in Nat
          /\ \A i \in DOMAIN books[s] : books[s][i].side \in Sides /\ books[s][i].remaining \in Int
      BY BookTyped
    <3>2. IsFiniteSet(buys) /\ IsFiniteSet(sells)
      BY PricesAreFinite
    <3>3. buys \cup sells = DOMAIN books[s] /\ buys \cap sells = {}
      BY <3>1 DEF OnSide, Sides
    <3> QED
      BY <3>1, <3>2, <3>3
  <2> HIDE DEF bids, asks, buys, sells, a, b, M
  <2>4. bids # <<>> /\ asks # <<>> => bids[1].price < asks[1].price
    <3> SUFFICES ASSUME bids # <<>>, asks # <<>> PROVE bids[1].price < asks[1].price
      OBVIOUS
    <3>1. 1 \in 1..b /\ 1 \in 1..a
      BY <2>1, <2>2
    <3>2. bids[1].price \in PricesOf(s, "Buy") /\ asks[1].price \in PricesOf(s, "Sell")
      BY <2>1, <2>2, <3>1
    <3> QED
      BY <3>2 DEF PricesOf, BooksUncrossed
  <2>5. \A k \in 1..Len(bids) - 1 : bids[k].price > bids[k + 1].price
    <3> TAKE k \in 1..Len(bids) - 1
    <3>1. k \in 1..b /\ k + 1 \in 1..b /\ k < k + 1
      BY <2>1
    <3> QED
      BY <2>1, <3>1 DEF Before
  <2>6. \A k \in 1..Len(asks) - 1 : asks[k].price < asks[k + 1].price
    <3> TAKE k \in 1..Len(asks) - 1
    <3>1. k \in 1..a /\ k + 1 \in 1..a /\ k < k + 1
      BY <2>2
    <3> QED
      BY <2>2, <3>1 DEF Before
  <2>7. OrdersIn(bids) + OrdersIn(asks) = Len(books[s])
    <3>1. Cardinality(DOMAIN books[s]) = Len(books[s])
      BY <2>3, FS_Interval
    <3>2. Cardinality(buys \cup sells) = Cardinality(buys) + Cardinality(sells) - Cardinality(buys \cap sells)
      BY <2>3, FS_Union
    <3>3. /\ Cardinality(buys \cup sells) = Len(books[s]) /\ Cardinality(buys \cap sells) = 0
          /\ Cardinality(buys) \in Nat /\ Cardinality(sells) \in Nat
      BY <2>3, <3>1, FS_EmptySet, FS_CardinalityType
    <3> QED
      BY <2>1, <2>2, <3>2, <3>3
  <2>8. (LotsIn(bids) + LotsIn(asks)) % M = LotsAt(s, DOMAIN books[s]) % M
    <3>1. LotsAt(s, DOMAIN books[s]) = LotsAt(s, buys) + LotsAt(s, sells)
      <4> DEFINE lots == [i \in DOMAIN books[s] |-> books[s][i].remaining]
      <4>1. \A i \in buys \cup sells : lots[i] \in Int
        BY <2>3
      <4>2. \A part : LotsAt(s, part) = SumFunctionOnSet(lots, part)
        BY DEF LotsAt
      <4> HIDE DEF lots
      <4>3. SumFunctionOnSet(lots, buys \cup sells)
              = SumFunctionOnSet(lots, buys) + SumFunctionOnSet(lots, sells)
        BY <2>3, <4>1, SumOfUnion
      <4>4. LotsAt(s, buys \cup sells) = LotsAt(s, buys) + LotsAt(s, sells)
        BY ONLY <4>2, <4>3
      <4> QED
        BY ONLY <2>3, <4>4
    <3>2. M \in Nat \ {0}
      BY UInt32Assumption DEF M
    <3>3. (LotsIn(bids) + LotsIn(asks)) % M = ((LotsIn(bids) % M) + (LotsIn(asks) % M)) % M
      BY <2>1, <2>2, <3>2, RemainderOfSum
    <3>4. (LotsAt(s, buys) + LotsAt(s, sells)) % M
            = ((LotsAt(s, buys) % M) + (LotsAt(s, sells) % M)) % M
      BY <2>1, <2>2, <3>2, RemainderOfSum
    <3> QED
      BY <2>1, <2>2, <3>1, <3>3, <3>4
  <2> QED
    BY <2>4, <2>5, <2>6, <2>7, <2>8 DEF bids, asks, M
<1> QED
  BY <1>1, TypeCorrect, OrdersPlaced, Uncrossed, PTL

-----------------------------------------------------------------------------
(* The stream.  The generator's own books are related to the stream        *)
(* (StreamOk), the engine to what of the stream was replayed (ReplayOk);   *)
(* that every replayed action is a request the engine's specification has  *)
(* follows from both, and with it what was proved of the engine.           *)

Actions ==
  [type : {"Add"}, symbol : Symbols, side : Sides, price : {p \in Prices : p > 0},
   quantity : Quantities \ {0}]
  \cup [type : {"Cancel"}, target : Nat]
  \cup [type : {"Amend"}, target : Nat, price : {p \in Prices : p > 0},
        quantity : Quantities \ {0}]

\* The adds, and the targets of the cancels, among the first n actions.
Adds(acts, n) == {k \in 1..n : acts[k].type = "Add"}
Gone(acts, n) == {acts[k].target : k \in {j \in 1..n : acts[j].type = "Cancel"}}

\* An action that is not an add names an order added and not cancelled before.
Aims(acts, k) ==
  acts[k].type # "Add" =>
    /\ acts[k].target \in 1..Cardinality(Adds(acts, k))
    /\ acts[k].target \notin Gone(acts, k - 1)

StreamOk ==
  /\ actions \in Seq(Actions) /\ Len(actions) <= Count
  /\ replayed \in 0..Len(actions)
  /\ Generating => replayed = 0
  /\ liveOrderIds \in Seq(Nat) /\ IsInjective(liveOrderIds)
  /\ nextExpectedId = 1 + Cardinality(Adds(actions, Len(actions)))
  /\ Gone(actions, Len(actions)) \subseteq 1..nextExpectedId - 1
  /\ Range(liveOrderIds) = (1..nextExpectedId - 1) \ Gone(actions, Len(actions))
  /\ \A k \in DOMAIN actions : Aims(actions, k)

ReplayOk ==
  /\ nextOrderId = 1 + Cardinality(Adds(actions, replayed))
  /\ Gone(actions, replayed) \subseteq closed

EngineOk == TypeOK /\ Placed /\ Balanced

StreamInv == StreamOk /\ ReplayOk /\ EngineOk

-----------------------------------------------------------------------------
(* Counting actions.                                                       *)

LEMMA AddsFinite ==
  ASSUME NEW acts, NEW n \in Nat
  PROVE  IsFiniteSet(Adds(acts, n)) /\ Cardinality(Adds(acts, n)) \in Nat
<1>1. IsFiniteSet(1..n)
  BY FS_Interval
<1>2. IsFiniteSet(Adds(acts, n))
  BY <1>1, FS_Subset DEF Adds
<1> QED
  BY <1>2, FS_CardinalityType

LEMMA NothingAdded ==
  ASSUME NEW acts
  PROVE  Cardinality(Adds(acts, 0)) = 0 /\ Gone(acts, 0) = {}
<1>1. Adds(acts, 0) = {} /\ Gone(acts, 0) = {}
  BY DEF Adds, Gone
<1> QED
  BY <1>1, FS_EmptySet

\* One action more.
LEMMA OneMore ==
  ASSUME NEW acts, NEW n \in Nat
  PROVE  /\ Cardinality(Adds(acts, n + 1))
              = Cardinality(Adds(acts, n)) + IF acts[n + 1].type = "Add" THEN 1 ELSE 0
         /\ Gone(acts, n + 1)
              = Gone(acts, n) \cup IF acts[n + 1].type = "Cancel" THEN {acts[n + 1].target} ELSE {}
<1> DEFINE old == Adds(acts, n)
           new == Adds(acts, n + 1)
<1>1. IsFiniteSet(old) /\ Cardinality(old) \in Nat
  BY AddsFinite
<1>2. n + 1 \notin old /\ 1..n + 1 = (1..n) \cup {n + 1}
  BY DEF Adds
<1>3. new = IF acts[n + 1].type = "Add" THEN old \cup {n + 1} ELSE old
  BY <1>2 DEF Adds
<1>4. Gone(acts, n + 1)
        = Gone(acts, n) \cup IF acts[n + 1].type = "Cancel" THEN {acts[n + 1].target} ELSE {}
  BY <1>2 DEF Gone
<1> HIDE DEF old, new
<1>5. acts[n + 1].type = "Add" => Cardinality(new) = Cardinality(old) + 1
  BY <1>1, <1>2, <1>3, FS_AddElement
<1>6. acts[n + 1].type # "Add" => Cardinality(new) = Cardinality(old)
  BY <1>3
<1> QED
  BY <1>1, <1>4, <1>5, <1>6 DEF old, new

\* Only the first n actions matter.
LEMMA SamePrefix ==
  ASSUME NEW old, NEW new, NEW n \in Nat, \A k \in 1..n : new[k] = old[k]
  PROVE  Adds(new, n) = Adds(old, n) /\ Gone(new, n) = Gone(old, n)
BY DEF Adds, Gone

LEMMA AimsAt ==
  ASSUME NEW acts, NEW k, NEW action, acts[k] = action,
         action.type # "Add" =>
           /\ action.target \in 1..Cardinality(Adds(acts, k))
           /\ action.target \notin Gone(acts, k - 1)
  PROVE  Aims(acts, k)
BY DEF Aims

LEMMA SameAims ==
  ASSUME NEW old, NEW new, NEW n \in Nat, \A k \in 1..n : new[k] = old[k],
         NEW k \in 1..n, Aims(old, k)
  PROVE  Aims(new, k)
<1>1. /\ k \in Nat /\ k - 1 \in Nat
      /\ \A j \in 1..k : new[j] = old[j]
      /\ \A j \in 1..k - 1 : new[j] = old[j]
  OBVIOUS
<1>2. Adds(new, k) = Adds(old, k) /\ Gone(new, k - 1) = Gone(old, k - 1)
  BY <1>1, SamePrefix
<1> QED
  BY <1>2 DEF Aims

-----------------------------------------------------------------------------
(* live_order_ids_.                                                        *)

\* Swap-and-pop drops the id at the position, and no other.
LEMMA SwapAndPopDrops ==
  ASSUME NEW ids \in Seq(Nat), IsInjective(ids), NEW idx \in DOMAIN ids
  PROVE  /\ SwapAndPop(ids, idx) \in Seq(Nat)
         /\ IsInjective(SwapAndPop(ids, idx))
         /\ Range(SwapAndPop(ids, idx)) = Range(ids) \ {ids[idx]}
<1> DEFINE n == Len(ids)
           swapped == [ids EXCEPT ![idx] = Last(ids)]
           new == SubSeq(swapped, 1, n - 1)
<1>1. n \in Nat /\ n >= 1 /\ DOMAIN ids = 1..n /\ idx \in 1..n /\ ids[n] \in Nat
  OBVIOUS
<1>2. /\ swapped \in Seq(Nat) /\ Len(swapped) = n
      /\ \A i \in 1..n : swapped[i] = IF i = idx THEN ids[n] ELSE ids[i]
  <2>1. Last(ids) = ids[n]
    BY DEF Last
  <2> QED
    BY <1>1, <2>1, ExceptSeq
<1> HIDE DEF swapped, n
<1>3. /\ new \in Seq(Nat) /\ DOMAIN new = 1..n - 1
      /\ \A i \in 1..n - 1 : new[i] = swapped[i]
  BY <1>1, <1>2, SubSeqProperties
<1>4. SwapAndPop(ids, idx) = new
  BY <1>2 DEF SwapAndPop, Front, swapped
<1> HIDE DEF new
<1>5. \A i, j \in 1..n : ids[i] = ids[j] => i = j
  BY <1>1 DEF IsInjective
<1>6. \A i \in 1..n - 1 :
        i \in 1..n /\ i # n /\ new[i] = IF i = idx THEN ids[n] ELSE ids[i]
  <2>1. \A i \in 1..n - 1 : i \in 1..n /\ i # n
    BY ONLY <1>1
  <2> QED
    BY ONLY <1>2, <1>3, <2>1
<1>7. IsInjective(new)
  <2>1. ASSUME NEW i \in 1..n - 1, NEW j \in 1..n - 1, new[i] = new[j]
        PROVE  i = j
    <3>1. n \in 1..n
      BY ONLY <1>1
    <3>2. CASE i = idx
      BY ONLY <1>5, <1>6, <2>1, <3>1, <3>2
    <3>3. CASE i # idx
      BY ONLY <1>5, <1>6, <2>1, <3>1, <3>3
    <3> QED
      BY <3>2, <3>3
  <2> QED
    BY <1>3, <2>1 DEF IsInjective
<1>8. Range(new) = Range(ids) \ {ids[idx]}
  <2>1. ASSUME NEW i \in 1..n - 1
        PROVE  \E j \in 1..n : new[i] = ids[j] /\ ids[j] # ids[idx]
    <3>1. n \in 1..n
      BY ONLY <1>1
    <3>2. CASE i = idx
      BY ONLY <1>1, <1>5, <1>6, <2>1, <3>1, <3>2
    <3>3. CASE i # idx
      BY ONLY <1>1, <1>5, <1>6, <2>1, <3>3
    <3> QED
      BY <3>2, <3>3
  <2>2. ASSUME NEW i \in 1..n, i # idx
        PROVE  \E j \in 1..n - 1 : new[j] = ids[i]
    <3>1. CASE i = n
      <4>1. idx \in 1..n - 1
        BY <1>1, <2>2, <3>1
      <4> QED
        BY ONLY <1>6, <3>1, <4>1
    <3>2. CASE i # n
      <4>1. i \in 1..n - 1
        BY <1>1, <2>2, <3>2
      <4> QED
        BY ONLY <1>6, <2>2, <4>1
    <3> QED
      BY <3>1, <3>2
  <2>3. Range(new) = {new[i] : i \in 1..n - 1} /\ Range(ids) = {ids[i] : i \in 1..n}
    BY <1>1, <1>3 DEF Range
  <2>4. \A x : x \in Range(new) <=> x \in Range(ids) /\ x # ids[idx]
    BY SMTT(40), <2>1, <2>2, <2>3
  <2> QED
    BY <2>4
<1> QED
  BY <1>3, <1>4, <1>7, <1>8

\* A new id at the back.
LEMMA AppendAdds ==
  ASSUME NEW ids \in Seq(Nat), IsInjective(ids), NEW id \in Nat, id \notin Range(ids)
  PROVE  /\ Append(ids, id) \in Seq(Nat)
         /\ IsInjective(Append(ids, id))
         /\ Range(Append(ids, id)) = Range(ids) \cup {id}
<1> DEFINE n == Len(ids)
           new == Append(ids, id)
<1>1. /\ n \in Nat /\ DOMAIN ids = 1..n
      /\ new \in Seq(Nat) /\ DOMAIN new = 1..n + 1
      /\ \A i \in 1..n : new[i] = ids[i]
      /\ new[n + 1] = id
  BY AppendProperties
<1> HIDE DEF n, new
<1>2. 1..n + 1 = (1..n) \cup {n + 1}
  BY <1>1
<1>3. \A i \in 1..n : ids[i] # id
  BY <1>1 DEF Range
<1>4. IsInjective(new)
  BY <1>1, <1>2, <1>3 DEF IsInjective
<1>5. Range(new) = Range(ids) \cup {id}
  BY <1>1, <1>2 DEF Range
<1> QED
  BY <1>1, <1>4, <1>5 DEF new

-----------------------------------------------------------------------------
(* The generator.                                                          *)

LEMMA LargerIsPositive ==
  ASSUME NEW a \in Int
  PROVE  Larger(a, 1) \in Int /\ Larger(a, 1) > 0
BY DEF Larger

LEMMA AddsArePriced ==
  ASSUME NEW side \in Sides, NEW fair \in FairValues, NEW offset \in -SpreadWidth..SpreadWidth
  PROVE  AddPrice(side, fair, offset) \in Prices /\ AddPrice(side, fair, offset) > 0
<1>1. fair \in Int /\ offset \in Int /\ Bias \in Int
  BY FairValuesAssumption, GeneratorAssumption
<1> DEFINE drawn == Larger(fair + offset, 1)
           biased == IF side = "Buy" THEN Smaller(drawn, fair + Bias) ELSE Larger(drawn, fair - Bias)
<1>2. biased \in Int
  BY <1>1 DEF Larger, Smaller
<1>3. AddPrice(side, fair, offset) = Larger(biased, 1)
  BY DEF AddPrice
<1> HIDE DEF biased
<1> QED
  BY <1>2, <1>3, LargerIsPositive, PricesDrawn

\* One action more in the stream, whatever it is.
LEMMA StreamGrows ==
  ASSUME StreamOk, Generating, NEW action \in Actions,
         action.type # "Add" => action.target \in Range(liveOrderIds),
         actions' = Append(actions, action), UNCHANGED replayed
  PROVE  /\ actions' \in Seq(Actions) /\ Len(actions') <= Count
         /\ replayed' \in 0..Len(actions')
         /\ Generating' => replayed' = 0
         /\ Cardinality(Adds(actions', Len(actions')))
              = Cardinality(Adds(actions, Len(actions))) + IF action.type = "Add" THEN 1 ELSE 0
         /\ Gone(actions', Len(actions'))
              = Gone(actions, Len(actions))
                  \cup IF action.type = "Cancel" THEN {action.target} ELSE {}
         /\ \A k \in DOMAIN actions' : Aims(actions', k)
<1> DEFINE n == Len(actions)
<1>1. /\ n \in Nat /\ n < Count /\ Count \in Nat /\ DOMAIN actions = 1..n
      /\ replayed = 0 /\ replayed \in 0..n
  BY GeneratorAssumption DEF StreamOk, Generating
<1>2. /\ actions' \in Seq(Actions) /\ Len(actions') = n + 1 /\ DOMAIN actions' = 1..n + 1
      /\ \A k \in 1..n : actions'[k] = actions[k]
      /\ actions'[n + 1] = action
  BY AppendProperties DEF StreamOk
<1> HIDE DEF n
<1>3. Adds(actions', n) = Adds(actions, n) /\ Gone(actions', n) = Gone(actions, n)
  BY <1>1, <1>2, SamePrefix
<1>4. /\ Cardinality(Adds(actions', n + 1))
           = Cardinality(Adds(actions, n)) + IF action.type = "Add" THEN 1 ELSE 0
      /\ Gone(actions', n + 1)
           = Gone(actions, n) \cup IF action.type = "Cancel" THEN {action.target} ELSE {}
  <2>1. /\ Cardinality(Adds(actions', n + 1))
             = Cardinality(Adds(actions', n)) + IF actions'[n + 1].type = "Add" THEN 1 ELSE 0
        /\ Gone(actions', n + 1)
             = Gone(actions', n)
                 \cup IF actions'[n + 1].type = "Cancel" THEN {actions'[n + 1].target} ELSE {}
    BY <1>1, OneMore
  <2> QED
    BY ONLY <1>2, <1>3, <2>1
<1>5. \A k \in 1..n : Aims(actions', k)
  <2> TAKE k \in 1..n
  <2>1. Aims(actions, k)
    BY <1>1 DEF StreamOk
  <2> QED
    BY <1>1, <1>2, <2>1, SameAims
<1>6. Aims(actions', n + 1)
  <2>1. Cardinality(Adds(actions, n)) \in Nat /\ n + 1 - 1 = n
    BY ONLY <1>1, AddsFinite
  <2>2. /\ Range(liveOrderIds) = (1..nextExpectedId - 1) \ Gone(actions, n)
        /\ nextExpectedId = 1 + Cardinality(Adds(actions, n))
    BY DEF StreamOk, n
  <2>3. action.type # "Add" => Cardinality(Adds(actions', n + 1)) = Cardinality(Adds(actions, n))
    BY <1>4, <2>1
  <2>4. PICK m \in Nat : m = n + 1
    BY ONLY <1>1
  <2>5. actions'[m] = action /\ m - 1 = n
    BY <1>1, <1>2, <2>4
  <2>6. action.type # "Add" =>
          /\ action.target \in 1..Cardinality(Adds(actions', m))
          /\ action.target \notin Gone(actions', m - 1)
    BY <1>3, <2>1, <2>2, <2>3, <2>4, <2>5
  <2>7. Aims(actions', m)
    BY ONLY <2>5, <2>6, AimsAt
  <2> QED
    BY <2>4, <2>7
<1>7. \A k \in 1..n + 1 : Aims(actions', k)
  <2>1. 1..n + 1 = (1..n) \cup {n + 1}
    BY <1>1
  <2> QED
    BY <1>5, <1>6, <2>1
<1> QED
  BY <1>1, <1>2, <1>4, <1>7 DEF n, Generating

LEMMA GenerateKeeps ==
  ASSUME StreamInv, Generate
  PROVE  StreamInv'
<1>1. StreamOk /\ ReplayOk /\ EngineOk
  BY DEF StreamInv
<1>2. UNCHANGED vars /\ UNCHANGED replayed
  BY DEF Generate
<1>3. EngineOk'
  BY <1>1, <1>2, TypeKept, PlacedKept, BalancedKept DEF EngineOk
<1>4. Generating /\ replayed = 0
  BY <1>1 DEF Generate, GenerateAdd, GenerateCancel, GenerateAmend, StreamOk
<1>5. ReplayOk'
  <2>1. /\ nextOrderId' = nextOrderId /\ closed' = closed /\ replayed' = 0
        /\ nextOrderId = 1 + Cardinality(Adds(actions, 0))
    BY <1>1, <1>2, <1>4 DEF vars, ReplayOk
  <2>2. /\ Cardinality(Adds(actions, 0)) = 0
        /\ Cardinality(Adds(actions', 0)) = 0 /\ Gone(actions', 0) = {}
    BY NothingAdded
  <2> QED
    BY <2>1, <2>2 DEF ReplayOk
<1> DEFINE n == Len(actions)
           top == Cardinality(Adds(actions, n))
<1>6. /\ liveOrderIds \in Seq(Nat) /\ IsInjective(liveOrderIds)
      /\ nextExpectedId = 1 + top
      /\ Gone(actions, n) \subseteq 1..nextExpectedId - 1
      /\ Range(liveOrderIds) = (1..nextExpectedId - 1) \ Gone(actions, n)
  BY <1>1 DEF StreamOk
<1>7. top \in Nat
  BY <1>1, AddsFinite DEF StreamOk
<1>8. StreamOk'
  <2>1. ASSUME NEW symbol \in Symbols, NEW side \in Sides, NEW fair \in FairValues,
               NEW offset \in -SpreadWidth..SpreadWidth, NEW quantity \in Quantities \ {0},
               GenerateAdd(symbol, side, fair, offset, quantity)
        PROVE  StreamOk'
    <3> DEFINE action == [type |-> "Add", symbol |-> symbol, side |-> side,
                          price |-> AddPrice(side, fair, offset), quantity |-> quantity]
    <3>1. action \in Actions /\ action.type = "Add"
      BY AddsArePriced DEF Actions
    <3>2. /\ actions' = Append(actions, action)
          /\ liveOrderIds' = Append(liveOrderIds, nextExpectedId)
          /\ nextExpectedId' = nextExpectedId + 1
      BY <2>1 DEF GenerateAdd
    <3> HIDE DEF action
    <3>3. /\ actions' \in Seq(Actions) /\ Len(actions') <= Count
          /\ replayed' \in 0..Len(actions')
          /\ Generating' => replayed' = 0
          /\ Cardinality(Adds(actions', Len(actions'))) = top + 1
          /\ Gone(actions', Len(actions')) = Gone(actions, n)
          /\ \A k \in DOMAIN actions' : Aims(actions', k)
      BY <1>1, <1>2, <1>4, <3>1, <3>2, StreamGrows
    <3> HIDE DEF n, top
    <3>4. nextExpectedId \in Nat /\ nextExpectedId \notin Range(liveOrderIds)
      BY <1>6, <1>7
    <3>5. /\ liveOrderIds' \in Seq(Nat) /\ IsInjective(liveOrderIds')
          /\ Range(liveOrderIds') = Range(liveOrderIds) \cup {nextExpectedId}
      BY <1>6, <3>2, <3>4, AppendAdds
    <3>6. 1..nextExpectedId' - 1 = (1..nextExpectedId - 1) \cup {nextExpectedId}
      BY <1>6, <1>7, <3>2
    <3>7. nextExpectedId \notin Gone(actions, n)
      BY <1>6, <1>7
    <3>8. /\ nextExpectedId' = 1 + Cardinality(Adds(actions', Len(actions')))
          /\ Gone(actions', Len(actions')) \subseteq 1..nextExpectedId' - 1
          /\ Range(liveOrderIds') = (1..nextExpectedId' - 1) \ Gone(actions', Len(actions'))
      <4>1. nextExpectedId' = 1 + Cardinality(Adds(actions', Len(actions')))
        BY <1>6, <1>7, <3>2, <3>3
      <4> QED
        BY <1>6, <3>3, <3>5, <3>6, <3>7, <4>1
    <3> QED
      BY <3>3, <3>5, <3>8 DEF StreamOk
  <2>2. ASSUME NEW idx \in DOMAIN liveOrderIds, GenerateCancel(idx)
        PROVE  StreamOk'
    <3> DEFINE target == liveOrderIds[idx]
               action == [type |-> "Cancel", target |-> target]
    <3>1. target \in Range(liveOrderIds) /\ target \in Nat
      BY <1>6, <2>2 DEF Range
    <3>2. action \in Actions /\ action.type = "Cancel" /\ action.target = target
      BY <3>1 DEF Actions
    <3>3. /\ actions' = Append(actions, action)
          /\ liveOrderIds' = SwapAndPop(liveOrderIds, idx)
          /\ nextExpectedId' = nextExpectedId
      BY <2>2 DEF GenerateCancel
    <3>4. /\ liveOrderIds' \in Seq(Nat) /\ IsInjective(liveOrderIds')
          /\ Range(liveOrderIds') = Range(liveOrderIds) \ {target}
      BY <1>6, <2>2, <3>3, SwapAndPopDrops
    <3> HIDE DEF action, target
    <3>5. /\ actions' \in Seq(Actions) /\ Len(actions') <= Count
          /\ replayed' \in 0..Len(actions')
          /\ Generating' => replayed' = 0
          /\ Cardinality(Adds(actions', Len(actions'))) = top
          /\ Gone(actions', Len(actions')) = Gone(actions, n) \cup {target}
          /\ \A k \in DOMAIN actions' : Aims(actions', k)
      BY <1>1, <1>2, <1>4, <1>7, <3>1, <3>2, <3>3, StreamGrows
    <3> HIDE DEF n, top
    <3>6. /\ nextExpectedId' = 1 + Cardinality(Adds(actions', Len(actions')))
          /\ Gone(actions', Len(actions')) \subseteq 1..nextExpectedId' - 1
          /\ Range(liveOrderIds') = (1..nextExpectedId' - 1) \ Gone(actions', Len(actions'))
      BY <1>6, <3>1, <3>3, <3>4, <3>5
    <3> QED
      BY <3>4, <3>5, <3>6 DEF StreamOk
  <2>3. ASSUME NEW idx \in DOMAIN liveOrderIds, NEW price \in AmendPrices,
               NEW quantity \in Quantities \ {0}, GenerateAmend(idx, price, quantity)
        PROVE  StreamOk'
    <3> DEFINE target == liveOrderIds[idx]
               action == [type |-> "Amend", target |-> target,
                          price |-> Larger(price, 1), quantity |-> quantity]
    <3>1. target \in Range(liveOrderIds) /\ target \in Nat
      BY <1>6, <2>3 DEF Range
    <3>2. action \in Actions /\ action.type = "Amend" /\ action.target = target
      <4>1. Larger(price, 1) \in Prices /\ Larger(price, 1) > 0
        BY PricesDrawn, LargerIsPositive
      <4> QED
        BY <3>1, <4>1 DEF Actions
    <3>3. /\ actions' = Append(actions, action)
          /\ liveOrderIds' = liveOrderIds
          /\ nextExpectedId' = nextExpectedId
      BY <2>3 DEF GenerateAmend
    <3> HIDE DEF action, target
    <3>4. /\ actions' \in Seq(Actions) /\ Len(actions') <= Count
          /\ replayed' \in 0..Len(actions')
          /\ Generating' => replayed' = 0
          /\ Cardinality(Adds(actions', Len(actions'))) = top
          /\ Gone(actions', Len(actions')) = Gone(actions, n)
          /\ \A k \in DOMAIN actions' : Aims(actions', k)
      <4>1. action.type # "Add" /\ action.type # "Cancel"
        BY <3>2
      <4> HIDE DEF top
      <4>2. /\ actions' \in Seq(Actions) /\ Len(actions') <= Count
            /\ replayed' \in 0..Len(actions')
            /\ Generating' => replayed' = 0
            /\ Cardinality(Adds(actions', Len(actions')))
                 = top + IF action.type = "Add" THEN 1 ELSE 0
            /\ Gone(actions', Len(actions'))
                 = Gone(actions, n)
                     \cup IF action.type = "Cancel" THEN {action.target} ELSE {}
            /\ \A k \in DOMAIN actions' : Aims(actions', k)
        BY <1>1, <1>2, <1>4, <3>1, <3>2, <3>3, StreamGrows DEF top
      <4> QED
        BY <1>7, <4>1, <4>2
    <3> QED
      BY <1>6, <3>3, <3>4 DEF StreamOk
  <2> QED
    BY <2>1, <2>2, <2>3 DEF Generate
<1> QED
  BY <1>3, <1>5, <1>8 DEF StreamInv

-----------------------------------------------------------------------------
(* The replay.                                                             *)

\* The action to be replayed is one the engine's specification has, and the
\* engine answers as the generator guessed.
LEMMA ReplayIsRequested ==
  ASSUME StreamInv, Replay
  PROVE  Next /\ ReplayOk'
<1> DEFINE k == replayed + 1
           action == actions[k]
           top == Cardinality(Adds(actions, replayed))
<1>1. StreamOk /\ ReplayOk /\ TypeOK /\ Balanced
  BY DEF StreamInv, EngineOk
<1>2. /\ call = Idle /\ Apply(action) /\ replayed' = k /\ actions' = actions
      /\ replayed \in Nat /\ k \in DOMAIN actions
  BY <1>1, GeneratorAssumption DEF Replay, StreamOk, Generating
<1>3. action \in Actions /\ Aims(actions, k)
  BY <1>1, <1>2 DEF StreamOk
<1>4. /\ Cardinality(Adds(actions, k)) = top + IF action.type = "Add" THEN 1 ELSE 0
      /\ Gone(actions, k)
           = Gone(actions, replayed) \cup IF action.type = "Cancel" THEN {action.target} ELSE {}
  BY <1>2, OneMore
<1>5. top \in Nat /\ nextOrderId = 1 + top /\ Gone(actions, replayed) \subseteq closed
  BY <1>1, <1>2, AddsFinite DEF ReplayOk
<1>6. nextOrderId \in 1..MaxOrders + 1 /\ MaxOrders \in Nat
  BY <1>1, MaxOrdersAssumption DEF TypeOK
<1>7. ReplayOk' <=> /\ nextOrderId' = 1 + Cardinality(Adds(actions, k))
                    /\ Gone(actions, k) \subseteq closed'
  BY <1>2 DEF ReplayOk
<1> HIDE DEF k, action, top
<1>8. CASE action.type = "Add"
  <2>1. /\ action.symbol \in Symbols /\ action.side \in Sides /\ action.price \in Prices
        /\ action.price > 0 /\ action.quantity \in Quantities /\ action.quantity # 0
    BY <1>3, <1>8 DEF Actions
  <2>2. ValidRequest(action.symbol, action.price, action.quantity)
    BY <2>1, SymbolsAssumption DEF ValidRequest
  <2>3. AddOrder(action.symbol, action.side, action.price, action.quantity)
    BY <1>2, <1>8, <2>2 DEF Apply, AddRejected
  <2>4. Next
    BY <2>1, <2>3 DEF Next
  <2>5. nextOrderId' = nextOrderId + 1 /\ closed' = closed
    BY <2>3, TerminalOfNone DEF AddOrder, BeginCall
  <2> QED
    BY <1>4, <1>5, <1>7, <1>8, <2>4, <2>5
<1>9. ASSUME action.type # "Add"
      PROVE  /\ action.target \in 1..nextOrderId - 1
             /\ action.target \in 0..MaxOrders
             /\ action.target \in closed \cup RestingIds
  <2>1. action.target \in 1..top
    BY <1>3, <1>4, <1>5, <1>9 DEF Aims, action
  <2>2. CallIds = {}
    BY <1>2 DEF CallIds
  <2> QED
    BY <1>1, <1>5, <1>6, <2>1, <2>2 DEF Balanced
<1>10. CASE action.type = "Cancel"
  <2>1. /\ action.target \in 0..MaxOrders
        /\ action.target \in closed \cup RestingIds
    BY <1>9, <1>10
  <2>2. Gone(actions, k) = Gone(actions, replayed) \cup {action.target}
    BY <1>4, <1>10
  <2>3. Cardinality(Adds(actions, k)) = top
    BY <1>4, <1>5, <1>10
  <2>4. CASE CancelMissed(action.target)
    <3>1. Next
      BY <2>1, <2>4 DEF Next
    <3>2. nextOrderId' = nextOrderId /\ closed' = closed
      BY <2>4, TerminalOfNone DEF CancelMissed, BeginCall
    <3>3. action.target \notin RestingIds
      BY <2>4 DEF CancelMissed, RestingIds
    <3> QED
      BY <1>5, <1>7, <2>1, <2>2, <2>3, <3>1, <3>2, <3>3
  <2>5. ASSUME NEW s \in Symbols, NEW i \in DOMAIN books[s], CancelOrder(action.target, s, i)
        PROVE  Next /\ ReplayOk'
    <3>1. Next
      BY <2>1, <2>5 DEF Next
    <3>2. nextOrderId' = nextOrderId /\ closed' = closed \cup {action.target}
      BY <2>5, TerminalOfUpdate DEF CancelOrder, BeginCall
    <3> QED
      BY <1>5, <1>7, <2>2, <2>3, <3>1, <3>2
  <2> QED
    BY <1>2, <1>10, <2>4, <2>5 DEF Apply
<1>11. CASE action.type = "Amend"
  <2>1. /\ action.target \in 0..MaxOrders
        /\ action.price \in Prices /\ action.quantity \in Quantities
    BY <1>3, <1>9, <1>11 DEF Actions
  <2>2. Gone(actions, k) = Gone(actions, replayed) /\ Cardinality(Adds(actions, k)) = top
    BY <1>4, <1>5, <1>11
  <2> DEFINE kept == nextOrderId' = nextOrderId /\ closed' = closed
  <2>3. CASE AmendMissed(action.target, action.price, action.quantity)
    <3>1. Next
      BY <2>1, <2>3 DEF Next
    <3>2. kept
      BY <2>3, TerminalOfNone DEF AmendMissed, BeginCall
    <3> QED
      BY <1>5, <1>7, <2>2, <3>1, <3>2
  <2>4. ASSUME NEW s \in Symbols, NEW i \in DOMAIN books[s],
               \/ AmendInPlace(action.target, s, i, action.price, action.quantity)
               \/ AmendRematch(action.target, s, i, action.price, action.quantity)
        PROVE  Next /\ ReplayOk'
    <3>1. Next
      BY <2>1, <2>4 DEF Next
    <3>2. kept
      BY <2>4, TerminalOfNone DEF AmendInPlace, AmendRematch, BeginCall
    <3> QED
      BY <1>5, <1>7, <2>2, <3>1, <3>2
  <2> QED
    BY <1>2, <1>11, <2>3, <2>4 DEF Apply
<1> QED
  BY <1>3, <1>8, <1>10, <1>11 DEF Actions

\* No step of a call hands out an id or opens a closed order again.
LEMMA AdvanceKeepsIds ==
  ASSUME Advance
  PROVE  nextOrderId' = nextOrderId /\ closed \subseteq closed'
<1>1. CASE MatchStep
  BY <1>1 DEF MatchStep, Fill, CallBack
<1>2. CASE ReturnFilled
  BY <1>2 DEF ReturnFilled, CallBack
<1>3. CASE ReturnResting
  BY <1>3 DEF ReturnResting, RestRemainder, CallBack
<1> QED
  BY <1>1, <1>2, <1>3 DEF Advance

-----------------------------------------------------------------------------
(* The whole scenario.                                                     *)

\* Every step of the scenario is one of the engine's, or leaves it alone.
LEMMA StepOfEngine ==
  ASSUME StreamInv, [StreamNext]_allVars
  PROVE  [Next]_vars
<1>1. CASE Generate
  BY <1>1 DEF Generate
<1>2. CASE Replay
  BY <1>2, ReplayIsRequested
<1>3. CASE Continue
  BY <1>3 DEF Continue, Next
<1>4. CASE UNCHANGED allVars
  BY <1>4 DEF allVars, vars
<1> QED
  BY <1>1, <1>2, <1>3, <1>4 DEF StreamNext

LEMMA StreamInvKept ==
  ASSUME StreamInv, [StreamNext]_allVars
  PROVE  StreamInv'
<1>1. StreamOk /\ ReplayOk /\ EngineOk
  BY DEF StreamInv
<1>2. EngineOk'
  BY <1>1, StepOfEngine, TypeKept, PlacedKept, BalancedKept DEF EngineOk
<1>3. CASE Generate
  BY <1>3, GenerateKeeps
<1>4. CASE Replay
  <2>1. StreamOk'
    <3>1. /\ actions' = actions /\ liveOrderIds' = liveOrderIds
          /\ nextExpectedId' = nextExpectedId
          /\ ~ Generating /\ replayed' = replayed + 1 /\ replayed < Count
      BY <1>4 DEF Replay
    <3>2. replayed' \in 0..Len(actions) /\ ~ Generating'
      BY <1>1, <3>1, GeneratorAssumption DEF StreamOk, Generating
    <3> QED
      BY <1>1, <3>1, <3>2 DEF StreamOk
  <2> QED
    BY <1>2, <1>4, <2>1, ReplayIsRequested DEF StreamInv
<1>5. ASSUME UNCHANGED streamVars, nextOrderId' = nextOrderId, closed \subseteq closed'
      PROVE  StreamInv'
  <2>1. StreamOk'
    BY <1>1, <1>5 DEF streamVars, StreamOk, Generating
  <2>2. ReplayOk'
    BY <1>1, <1>5 DEF streamVars, ReplayOk
  <2> QED
    BY <1>2, <2>1, <2>2 DEF StreamInv
<1>6. CASE Continue
  BY <1>5, <1>6, AdvanceKeepsIds DEF Continue
<1>7. CASE UNCHANGED allVars
  BY <1>5, <1>7 DEF allVars, streamVars
<1> QED
  BY <1>3, <1>4, <1>6, <1>7 DEF StreamNext

LEMMA StreamInvAtFirst ==
  ASSUME StreamInit
  PROVE  StreamInv
<1>1. Init /\ actions = <<>> /\ liveOrderIds = <<>> /\ nextExpectedId = 1 /\ replayed = 0
  BY DEF StreamInit
<1>2. EngineOk
  BY <1>1, InitTyped, NothingRestsAtFirst DEF EngineOk, Placed, IdsDistinct, Balanced, Init
<1>3. Cardinality(Adds(<<>>, 0)) = 0 /\ Gone(<<>>, 0) = {}
  BY NothingAdded
<1>4. ReplayOk
  BY <1>1, <1>3 DEF ReplayOk, Init
<1>5. IsInjective(<<>>) /\ Range(<<>>) = {}
  BY DEF IsInjective, Range
<1>6. StreamOk
  BY <1>1, <1>3, <1>5, GeneratorAssumption DEF StreamOk
<1> QED
  BY <1>2, <1>4, <1>6 DEF StreamInv

LEMMA StreamInvHolds == StreamSpec => []StreamInv
BY StreamInvAtFirst, StreamInvKept, PTL DEF StreamSpec

\* Every id the generator guessed is the one the engine hands out: no order of
\* the stream is refused, and every cancel and amendment names an order the
\* engine was given before and the stream has not cancelled.
THEOREM GuessesAreReal == StreamSpec => []GuessedIdsAreReal
<1>1. StreamInv => GuessedIdsAreReal
  <2> SUFFICES ASSUME StreamInv PROVE GuessedIdsAreReal
    OBVIOUS
  <2>1. StreamOk /\ ReplayOk
    BY DEF StreamInv
  <2>2. \A n : AddsBefore(n) = Cardinality(Adds(actions, n))
    BY DEF AddsBefore, Adds
  <2>3. nextOrderId = 1 + AddsBefore(replayed)
    BY <2>1, <2>2 DEF ReplayOk
  <2>4. ASSUME NEW k \in DOMAIN actions, actions[k].type # "Add"
        PROVE  /\ actions[k].target \in 1..AddsBefore(k)
               /\ \A j \in 1..k - 1 :
                    actions[j].type = "Cancel" => actions[j].target # actions[k].target
    <3>1. Aims(actions, k)
      BY <2>1 DEF StreamOk
    <3> QED
      BY <2>2, <2>4, <3>1 DEF Aims, Gone
  <2> QED
    BY <2>3, <2>4 DEF GuessedIdsAreReal
<1> QED
  BY <1>1, StreamInvHolds, PTL

\* When the stream was replayed and the last call has returned, every resting
\* order is one the generator still tracks, at exactly one place.
THEOREM RestingAreTracked == StreamSpec => []RestingOrdersAreLive
<1>1. StreamInv => RestingOrdersAreLive
  <2> SUFFICES ASSUME StreamInv, replayed = Count, call = Idle,
                      NEW id \in OrderIds, Resting(id)
               PROVE  id \in Range(liveOrderIds)
    BY DEF StreamInv, StreamOk, RestingOrdersAreLive
  <2>1. StreamOk /\ ReplayOk /\ Balanced
    BY DEF StreamInv, EngineOk
  <2>2. Len(actions) = replayed
    BY <2>1, GeneratorAssumption DEF StreamOk
  <2>3. id \in RestingIds
    BY DEF RestingIds
  <2>4. id \in 1..nextOrderId - 1 /\ id \notin closed
    BY <2>1, <2>3 DEF Balanced
  <2>5. /\ nextOrderId = nextExpectedId
        /\ Gone(actions, Len(actions)) \subseteq closed
    BY <2>1, <2>2 DEF StreamOk, ReplayOk
  <2> QED
    BY <2>1, <2>4, <2>5 DEF StreamOk
<1> QED
  BY <1>1, StreamInvHolds, PTL

=============================================================================
