--------------------------- MODULE UsageBooksProofs ---------------------------
(***************************************************************************)
(* What holds of the books of the statistics, whatever the attempts, the   *)
(* length of hours and of retention and the prices, while the clock goes   *)
(* on, rounds of retention and scripts are at work and the process starts  *)
(* anew between any two steps.  BackgroundTasksProofs and                  *)
(* RequestLifeProofs rest on it.                                           *)
(***************************************************************************)
EXTENDS UsageBooks, FiniteSetTheorems, SequenceTheorems, WellFoundedInduction, TLAPS

-----------------------------------------------------------------------------
(* Sums over finite sets.  SumFunctionOnSet takes the elements in an order *)
(* of CHOOSE; that the order does not matter is shown by a least set for   *)
(* which it would.                                                         *)

LEMMA LeastNumber ==
  ASSUME NEW S \in SUBSET Nat, S # {}
  PROVE  Min(S) \in S /\ \A y \in S : Min(S) <= y
<1>1. PICK x \in S : \A y \in S : <<y, x>> \notin OpToRel(<, Nat)
  BY NatLessThanWellFounded, WFMin, Zenon
<1>2. \A y \in S : ~(y < x)
  <2>1. \A a, b \in Nat : a < b => <<a, b>> \in OpToRel(<, Nat)
    BY Zenon DEF OpToRel
  <2> QED BY <1>1, <2>1, Zenon
<1>3. \A y \in S : x <= y
  BY <1>2
<1> QED BY <1>3 DEF Min

\* What holds of no element, and of one more whenever it holds of some, holds of all.
LEMMA OneByOne ==
  ASSUME NEW S, IsFiniteSet(S), NEW Good, {} \in Good,
         \A s \in SUBSET S, x \in S : s \in Good /\ x \notin s => s \cup {x} \in Good
  PROVE  S \in Good
<1> DEFINE Bad == {n \in Nat : \E s \in SUBSET S : Cardinality(s) = n /\ s \notin Good}
<1>1. ASSUME Bad # {}
      PROVE  FALSE
  <2> DEFINE m == Min(Bad)
  <2>1. m \in Bad /\ \A n \in Bad : m <= n
    <3>1. Bad \in SUBSET Nat
      OBVIOUS
    <3> HIDE DEF Bad
    <3> QED BY <1>1, <3>1, LeastNumber
  <2> HIDE DEF m
  <2>2. PICK s \in SUBSET S : Cardinality(s) = m /\ s \notin Good
    BY <2>1
  <2>3. PICK x \in s : TRUE
    BY <2>2
  <2>4. PICK r : r = s \ {x}
    OBVIOUS
  <2>5. IsFiniteSet(s) /\ Cardinality(r) = m - 1 /\ Cardinality(r) \in Nat /\ m \in Nat
    BY <2>1, <2>2, <2>4, FS_Subset, FS_RemoveElement, FS_CardinalityType
  <2>6. m - 1 \notin Bad /\ m - 1 \in Nat
    BY <2>1, <2>5
  <2>7. r \in SUBSET S /\ x \in S /\ x \notin r /\ r \cup {x} = s
    BY <2>4
  <2>8. r \in Good
    BY <2>5, <2>6, <2>7
  <2> QED BY <2>2, <2>7, <2>8
<1>2. Cardinality(S) \in Nat
  BY FS_CardinalityType
<1> QED BY <1>1, <1>2

First(s) == CHOOSE x \in s : TRUE

LEMMA FirstIsIn ==
  ASSUME NEW s, s # {}
  PROVE  First(s) \in s
BY DEF First

SumTable(v, S) ==
  LET sum[s \in SUBSET S] == IF s = {} THEN 0 ELSE v[First(s)] + sum[s \ {First(s)}]
  IN  sum

LEMMA SumInTable ==
  ASSUME NEW v, NEW S
  PROVE  SumFunctionOnSet(v, S) = SumTable(v, S)[S]
BY DEF SumFunctionOnSet, FoldFunctionOnSet, MapThenFoldSet, SumTable, First

\* Numbers that add up.
Numbers(v, S) == IsFiniteSet(S) /\ \A x \in S : v[x] \in Nat

\* Sets of at most n of the elements, and a table of their sums.
UpTo(S, n) == {s \in SUBSET S : Cardinality(s) <= n}

TableOf(f, v, S, n) ==
  /\ f \in [UpTo(S, n) -> Nat]
  /\ \A s \in UpTo(S, n) : f[s] = IF s = {} THEN 0 ELSE v[First(s)] + f[s \ {First(s)}]

LEMMA Smaller ==
  ASSUME NEW S, IsFiniteSet(S), NEW s \in SUBSET S, NEW x \in s
  PROVE  /\ IsFiniteSet(s) /\ Cardinality(s) \in Nat \ {0}
         /\ IsFiniteSet(s \ {x}) /\ s \ {x} \in SUBSET S
         /\ Cardinality(s \ {x}) = Cardinality(s) - 1
         /\ Cardinality(s \ {x}) \in Nat
<1>1. IsFiniteSet(s)
  BY FS_Subset
<1>2. /\ Cardinality(s) \in Nat /\ IsFiniteSet(s \ {x})
      /\ Cardinality(s \ {x}) = Cardinality(s) - 1 /\ Cardinality(s \ {x}) \in Nat
  BY <1>1, FS_CardinalityType, FS_RemoveElement
<1> QED BY <1>1, <1>2

LEMMA TableExists ==
  ASSUME NEW v, NEW S, Numbers(v, S)
  PROVE  \E f : TableOf(f, v, S, Cardinality(S))
<1> DEFINE N == Cardinality(S)
           Bad == {n \in 0 .. N : ~ \E f : TableOf(f, v, S, n)}
<1>1. IsFiniteSet(S) /\ N \in Nat
  BY FS_CardinalityType DEF Numbers
<1>2. ASSUME Bad # {}
      PROVE  FALSE
  <2> DEFINE m == Min(Bad)
  <2>1. Bad \in SUBSET Nat
    BY <1>1
  <2>2. m \in Bad /\ \A n \in Bad : m <= n
    <3> HIDE DEF Bad
    <3> QED BY <1>2, <2>1, LeastNumber
  <2> HIDE DEF m
  <2>3. m \in 0 .. N /\ ~ \E f : TableOf(f, v, S, m)
    BY <2>2
  <2>4. m # 0
    <3>1. \A s \in UpTo(S, 0) : s = {}
      <4> SUFFICES ASSUME NEW s \in SUBSET S, Cardinality(s) <= 0, s # {}
                   PROVE  FALSE
        BY DEF UpTo
      <4>1. First(s) \in s
        BY FirstIsIn
      <4>2. Cardinality(s) \in Nat \ {0}
        BY <1>1, <4>1, Smaller
      <4> QED BY <4>2
    <3>2. TableOf([s \in UpTo(S, 0) |-> 0], v, S, 0)
      BY <3>1 DEF TableOf
    <3> QED BY <2>3, <3>2
  <2>5. m \in Nat /\ m - 1 \in 0 .. N /\ ~(m <= m - 1)
    BY <1>1, <2>3, <2>4
  <2>6. PICK f : TableOf(f, v, S, m - 1)
    BY <2>2, <2>5
  <2> DEFINE g == [s \in UpTo(S, m) |->
                     IF s = {} THEN 0 ELSE v[First(s)] + f[s \ {First(s)}]]
  <2>7. ASSUME NEW s \in UpTo(S, m), s # {}
        PROVE  s \ {First(s)} \in UpTo(S, m - 1) /\ First(s) \in S
    <3>1. First(s) \in s /\ s \in SUBSET S /\ Cardinality(s) <= m
      BY <2>7, FirstIsIn DEF UpTo
    <3>2. /\ Cardinality(s \ {First(s)}) = Cardinality(s) - 1 /\ Cardinality(s) \in Nat
          /\ s \ {First(s)} \in SUBSET S
      BY <1>1, <3>1, Smaller
    <3>3. Cardinality(s \ {First(s)}) <= m - 1
      BY <2>5, <3>1, <3>2
    <3> QED BY <3>1, <3>2, <3>3 DEF UpTo
  <2>8. g \in [UpTo(S, m) -> Nat]
    <3>1. ASSUME NEW s \in UpTo(S, m), s # {}
          PROVE  v[First(s)] + f[s \ {First(s)}] \in Nat
      <4>1. v[First(s)] \in Nat /\ f[s \ {First(s)}] \in Nat
        BY <2>6, <2>7, <3>1 DEF TableOf, Numbers
      <4> QED BY <4>1
    <3> QED BY <3>1
  <2>9. ASSUME NEW s \in UpTo(S, m - 1)
        PROVE  s \in UpTo(S, m) /\ g[s] = f[s]
    <3>1. s \in SUBSET S /\ Cardinality(s) <= m - 1 /\ Cardinality(s) \in Nat
      BY <1>1, FS_Subset, FS_CardinalityType DEF UpTo
    <3>2. s \in UpTo(S, m)
      BY <2>5, <3>1 DEF UpTo
    <3> QED BY <2>6, <3>2 DEF TableOf
  <2>10. TableOf(g, v, S, m)
    <3>1. ASSUME NEW s \in UpTo(S, m)
          PROVE  g[s] = IF s = {} THEN 0 ELSE v[First(s)] + g[s \ {First(s)}]
      <4>1. CASE s = {}
        BY <4>1
      <4>2. CASE s # {}
        <5>1. s \ {First(s)} \in UpTo(S, m - 1)
          BY <2>7, <4>2
        <5>2. g[s \ {First(s)}] = f[s \ {First(s)}]
          BY <2>9, <5>1
        <5>3. g[s] = v[First(s)] + f[s \ {First(s)}]
          BY <4>2
        <5> HIDE DEF g
        <5> QED BY <4>2, <5>2, <5>3
      <4> QED BY <4>1, <4>2
    <3> HIDE DEF g
    <3> QED BY <2>8, <3>1 DEF TableOf
  <2> QED BY <2>3, <2>10
<1>3. N \notin Bad
  BY <1>2
<1> QED BY <1>1, <1>3

LEMMA TableSums ==
  ASSUME NEW v, NEW S, Numbers(v, S)
  PROVE  /\ SumTable(v, S)[{}] = 0
         /\ \A s \in SUBSET S : SumTable(v, S)[s] \in Nat
         /\ \A s \in SUBSET S : s # {} =>
              SumTable(v, S)[s] = v[First(s)] + SumTable(v, S)[s \ {First(s)}]
<1> DEFINE N == Cardinality(S)
           Next(f) == [s \in SUBSET S |->
                         IF s = {} THEN 0 ELSE v[First(s)] + f[s \ {First(s)}]]
           t == SumTable(v, S)
<1>1. IsFiniteSet(S) /\ N \in Nat
  BY FS_CardinalityType DEF Numbers
<1>2. UpTo(S, N) = SUBSET S
  BY <1>1, FS_Subset DEF UpTo
<1>3. PICK f : TableOf(f, v, S, N)
  BY TableExists
<1>4. f = Next(f)
  BY <1>2, <1>3 DEF TableOf
<1>5. t = Next(t)
  BY <1>4 DEF SumTable
<1>6. /\ t[{}] = 0
      /\ \A s \in SUBSET S : s # {} => t[s] = v[First(s)] + t[s \ {First(s)}]
  <2> HIDE DEF t
  <2> QED BY <1>5
<1> DEFINE Bad == {n \in 0 .. N : \E s \in SUBSET S : Cardinality(s) = n /\ t[s] \notin Nat}
<1> HIDE DEF t
<1>7. ASSUME Bad # {}
      PROVE  FALSE
  <2> DEFINE m == Min(Bad)
  <2>1. Bad \in SUBSET Nat
    BY <1>1
  <2>2. m \in Bad /\ \A n \in Bad : m <= n
    <3> HIDE DEF Bad
    <3> QED BY <1>7, <2>1, LeastNumber
  <2> HIDE DEF m
  <2>3. PICK s \in SUBSET S : Cardinality(s) = m /\ t[s] \notin Nat
    BY <2>2
  <2>4. s # {}
    BY <1>6, <2>3
  <2>5. First(s) \in s
    BY <2>4, FirstIsIn
  <2>6. /\ s \ {First(s)} \in SUBSET S /\ m \in Nat
        /\ Cardinality(s \ {First(s)}) = m - 1 /\ m - 1 \in Nat
    BY <1>1, <2>3, <2>5, Smaller
  <2>7. m - 1 \notin Bad /\ m - 1 \in 0 .. N
    BY <1>1, <2>2, <2>6
  <2>8. t[s \ {First(s)}] \in Nat
    BY <2>6, <2>7
  <2>9. v[First(s)] \in Nat
    BY <2>5 DEF Numbers
  <2>10. v[First(s)] + t[s \ {First(s)}] \in Nat
    BY <2>8, <2>9
  <2> QED BY <1>6, <2>3, <2>4, <2>10
<1>8. \A s \in SUBSET S : t[s] \in Nat
  <2> SUFFICES ASSUME NEW s \in SUBSET S, t[s] \notin Nat
               PROVE  FALSE
    OBVIOUS
  <2>1. Cardinality(s) \in 0 .. N
    BY <1>1, FS_Subset, FS_CardinalityType
  <2> QED BY <1>7, <2>1
<1> QED BY <1>6, <1>8 DEF t

\* Two tables agree on what both hold.
LEMMA SameTable ==
  ASSUME NEW v, NEW w, NEW S, NEW T \in SUBSET S, Numbers(v, S), \A x \in T : v[x] = w[x],
         NEW s \in SUBSET T
  PROVE  SumTable(v, S)[s] = SumTable(w, T)[s]
<1> DEFINE N == Cardinality(T)
           t == SumTable(v, S)
           q == SumTable(w, T)
           Bad == {n \in 0 .. N : \E x \in SUBSET T : Cardinality(x) = n /\ t[x] # q[x]}
<1>1. IsFiniteSet(T) /\ N \in Nat /\ Numbers(w, T)
  BY FS_CardinalityType, FS_Subset DEF Numbers
<1>2. t[{}] = q[{}]
  BY <1>1, TableSums
<1>3. ASSUME NEW x \in SUBSET T, x # {}
      PROVE  /\ t[x] = v[First(x)] + t[x \ {First(x)}]
             /\ q[x] = v[First(x)] + q[x \ {First(x)}]
  <2>1. v[First(x)] = w[First(x)]
    BY <1>3, FirstIsIn
  <2>2. q[x] = w[First(x)] + q[x \ {First(x)}]
    BY <1>1, <1>3, TableSums
  <2>3. t[x] = v[First(x)] + t[x \ {First(x)}]
    <3>1. x \in SUBSET S
      OBVIOUS
    <3> QED BY <1>3, <3>1, TableSums
  <2> QED BY <2>1, <2>2, <2>3
<1> HIDE DEF t, q
<1>4. ASSUME Bad # {}
      PROVE  FALSE
  <2> DEFINE m == Min(Bad)
  <2>1. Bad \in SUBSET Nat
    BY <1>1
  <2>2. m \in Bad /\ \A n \in Bad : m <= n
    <3> HIDE DEF Bad
    <3> QED BY <1>4, <2>1, LeastNumber
  <2> HIDE DEF m
  <2>3. PICK x \in SUBSET T : Cardinality(x) = m /\ t[x] # q[x]
    BY <2>2
  <2>4. x # {}
    BY <1>2, <2>3
  <2>5. First(x) \in x
    BY <2>4, FirstIsIn
  <2>6. /\ x \ {First(x)} \in SUBSET T /\ m \in Nat
        /\ Cardinality(x \ {First(x)}) = m - 1 /\ m - 1 \in Nat
    <3>1. PICK y \in x : y = First(x)
      BY <2>5
    <3>2. /\ Cardinality(x) \in Nat /\ Cardinality(x \ {y}) \in Nat
          /\ Cardinality(x \ {y}) = Cardinality(x) - 1 /\ x \ {y} \in SUBSET T
      BY <1>1, Smaller
    <3>3. Cardinality(x) = m
      BY <2>3
    <3> QED BY <3>1, <3>2, <3>3
  <2>7. m - 1 \notin Bad /\ m - 1 \in 0 .. N
    BY <1>1, <2>2, <2>6
  <2>8. t[x \ {First(x)}] = q[x \ {First(x)}]
    BY <2>6, <2>7
  <2> QED BY <1>3, <2>3, <2>4, <2>8
<1>5. Cardinality(s) \in 0 .. N
  BY <1>1, FS_Subset, FS_CardinalityType
<1>6. t[s] = q[s]
  BY <1>4, <1>5
<1> QED BY <1>6 DEF t, q

\* The order does not matter.
LEMMA AnyOrder ==
  ASSUME NEW v, NEW S, Numbers(v, S), NEW s \in SUBSET S, NEW r \in s
  PROVE  SumTable(v, S)[s] = v[r] + SumTable(v, S)[s \ {r}]
<1> DEFINE N == Cardinality(S)
           t == SumTable(v, S)
           Bad == {n \in 0 .. N : \E x \in SUBSET S : Cardinality(x) = n /\
                                    \E y \in x : t[x] # v[y] + t[x \ {y}]}
<1>1. IsFiniteSet(S) /\ N \in Nat
  BY FS_CardinalityType DEF Numbers
<1>2. \A x \in SUBSET S : t[x] \in Nat
  BY TableSums
<1>3. ASSUME NEW x \in SUBSET S, x # {}
      PROVE  t[x] = v[First(x)] + t[x \ {First(x)}]
  BY <1>3, TableSums
<1>4. \A x \in S : v[x] \in Nat
  BY DEF Numbers
<1> HIDE DEF t
<1>5. ASSUME Bad # {}
      PROVE  FALSE
  <2> DEFINE m == Min(Bad)
  <2>1. Bad \in SUBSET Nat
    BY <1>1
  <2>2. m \in Bad /\ \A n \in Bad : m <= n
    <3> HIDE DEF Bad
    <3> QED BY <1>5, <2>1, LeastNumber
  <2> HIDE DEF m
  <2>3. PICK x \in SUBSET S : Cardinality(x) = m /\ \E y \in x : t[x] # v[y] + t[x \ {y}]
    BY <2>2
  <2>4. PICK y \in x : t[x] # v[y] + t[x \ {y}]
    BY <2>3
  <2> DEFINE z == First(x)
  <2>5. z \in x /\ t[x] = v[z] + t[x \ {z}]
    BY <1>3, FirstIsIn
  <2> HIDE DEF z
  <2>6. y # z
    BY <2>4, <2>5
  <2>7. ASSUME NEW c \in x, NEW d \in x, c # d
        PROVE  t[x \ {c}] = v[d] + t[(x \ {c}) \ {d}]
    <3>1. /\ x \ {c} \in SUBSET S /\ m \in Nat
          /\ Cardinality(x \ {c}) = m - 1 /\ m - 1 \in Nat
      <4>1. /\ x \ {c} \in SUBSET S /\ Cardinality(x) \in Nat
            /\ Cardinality(x \ {c}) = Cardinality(x) - 1 /\ Cardinality(x \ {c}) \in Nat
        BY <1>1, Smaller
      <4>2. Cardinality(x) = m
        BY <2>3
      <4> QED BY <4>1, <4>2
    <3>2. m - 1 \notin Bad /\ m - 1 \in 0 .. N
      BY <1>1, <2>2, <3>1
    <3>3. d \in x \ {c}
      BY <2>7
    <3> QED BY <3>1, <3>2, <3>3
  <2>8. t[x \ {z}] = v[y] + t[(x \ {z}) \ {y}]
    BY <2>5, <2>6, <2>7
  <2>9. t[x \ {y}] = v[z] + t[(x \ {y}) \ {z}]
    BY <2>5, <2>6, <2>7
  <2>10. (x \ {z}) \ {y} = (x \ {y}) \ {z}
    OBVIOUS
  <2>11. v[y] \in Nat /\ v[z] \in Nat /\ t[(x \ {y}) \ {z}] \in Nat
    <3>1. (x \ {y}) \ {z} \in SUBSET S /\ y \in S /\ z \in S
      BY <2>5
    <3> QED BY <1>2, <1>4, <3>1
  <2>12. v[z] + (v[y] + t[(x \ {y}) \ {z}]) = v[y] + (v[z] + t[(x \ {y}) \ {z}])
    BY <2>11
  <2> QED BY <2>4, <2>5, <2>8, <2>9, <2>10, <2>12
<1>6. Cardinality(s) \in 0 .. N
  BY <1>1, FS_Subset, FS_CardinalityType
<1>7. t[s] = v[r] + t[s \ {r}]
  BY <1>5, <1>6
<1> QED BY <1>7 DEF t

\* A sum of numbers, of none, without one of them, and of the same ones.
LEMMA TotalSplits ==
  ASSUME NEW v, NEW S, Numbers(v, S)
  PROVE  /\ SumFunctionOnSet(v, S) \in Nat
         /\ \A r \in S : SumFunctionOnSet(v, S) = v[r] + SumFunctionOnSet(v, S \ {r})
<1>1. SumFunctionOnSet(v, S) \in Nat
  <2>1. SumTable(v, S)[S] \in Nat
    BY TableSums
  <2> QED BY <2>1, SumInTable
<1>2. ASSUME NEW r \in S
      PROVE  SumFunctionOnSet(v, S) = v[r] + SumFunctionOnSet(v, S \ {r})
  <2>1. PICK T \in SUBSET S : T = S \ {r}
    OBVIOUS
  <2>2. SumTable(v, S)[S] = v[r] + SumTable(v, S)[T]
    BY <2>1, AnyOrder
  <2>3. SumTable(v, S)[T] = SumTable(v, T)[T]
    BY SameTable
  <2> QED BY <2>1, <2>2, <2>3, SumInTable
<1> QED BY <1>1, <1>2

LEMMA TotalOfNone ==
  ASSUME NEW v
  PROVE  SumFunctionOnSet(v, {}) = 0
<1>1. Numbers(v, {})
  BY FS_EmptySet DEF Numbers
<1> QED BY <1>1, TableSums, SumInTable

LEMMA TotalSame ==
  ASSUME NEW v, NEW w, NEW S, Numbers(v, S), \A x \in S : v[x] = w[x]
  PROVE  SumFunctionOnSet(v, S) = SumFunctionOnSet(w, S)
BY SameTable, SumInTable

LEMMA TotalWith ==
  ASSUME NEW v, NEW S, Numbers(v, S), NEW r, r \notin S, v[r] \in Nat
  PROVE  /\ Numbers(v, S \cup {r})
         /\ SumFunctionOnSet(v, S \cup {r}) = SumFunctionOnSet(v, S) + v[r]
<1>1. Numbers(v, S \cup {r})
  BY FS_AddElement DEF Numbers
<1>2. SumFunctionOnSet(v, S \cup {r}) = v[r] + SumFunctionOnSet(v, (S \cup {r}) \ {r})
  BY <1>1, TotalSplits
<1>3. (S \cup {r}) \ {r} = S
  OBVIOUS
<1>4. SumFunctionOnSet(v, S) \in Nat
  BY TotalSplits
<1>5. PICK n \in Nat : n = SumFunctionOnSet(v, S)
  BY <1>4
<1>6. v[r] + n = n + v[r]
  OBVIOUS
<1> QED BY <1>1, <1>2, <1>3, <1>5, <1>6

-----------------------------------------------------------------------------
(* The sum of a column.                                                    *)

\* Rows whose column adds up.
Summable(column, S) == IsFiniteSet(S) /\ \A r \in S : OrZero(r[column]) \in Nat

ColumnOf(column, S) == [r \in S |-> OrZero(r[column])]

LEMMA ColumnAddsUp ==
  ASSUME NEW column, NEW S
  PROVE  /\ ColumnSum(column, S) = SumFunctionOnSet(ColumnOf(column, S), S)
         /\ \A r \in S : ColumnOf(column, S)[r] = OrZero(r[column])
         /\ Summable(column, S) => Numbers(ColumnOf(column, S), S)
<1>1. DOMAIN ColumnOf(column, S) = S /\ \A r \in S : ColumnOf(column, S)[r] = OrZero(r[column])
  BY DEF ColumnOf
<1>2. ColumnSum(column, S) = SumFunctionOnSet(ColumnOf(column, S), DOMAIN ColumnOf(column, S))
  BY DEF ColumnSum, SumFunction, ColumnOf
<1>3. ColumnSum(column, S) = SumFunctionOnSet(ColumnOf(column, S), S)
  BY <1>1, <1>2
<1> QED BY <1>1, <1>3 DEF Numbers, Summable

LEMMA SumOfNone ==
  ASSUME NEW column
  PROVE  ColumnSum(column, {}) = 0
BY ColumnAddsUp, TotalOfNone

LEMMA SumIsCount ==
  ASSUME NEW column, NEW S, Summable(column, S)
  PROVE  ColumnSum(column, S) \in Nat
BY ColumnAddsUp, TotalSplits

LEMMA SumWithout ==
  ASSUME NEW column, NEW S, Summable(column, S), NEW r \in S
  PROVE  ColumnSum(column, S) = OrZero(r[column]) + ColumnSum(column, S \ {r})
<1>1. PICK T \in SUBSET S : T = S \ {r}
  OBVIOUS
<1>2. Numbers(ColumnOf(column, S), S) /\ Numbers(ColumnOf(column, S), T)
  BY ColumnAddsUp, FS_Subset DEF Numbers
<1>3. ColumnSum(column, S) = OrZero(r[column]) + SumFunctionOnSet(ColumnOf(column, S), T)
  BY <1>1, <1>2, ColumnAddsUp, TotalSplits
<1>4. SumFunctionOnSet(ColumnOf(column, S), T) = SumFunctionOnSet(ColumnOf(column, T), T)
  BY <1>2, ColumnAddsUp, TotalSame
<1> QED BY <1>1, <1>3, <1>4, ColumnAddsUp

LEMMA SumWith ==
  ASSUME NEW column, NEW S, Summable(column, S), NEW r, r \notin S, OrZero(r[column]) \in Nat
  PROVE  ColumnSum(column, S \cup {r}) = ColumnSum(column, S) + OrZero(r[column])
<1>1. Summable(column, S \cup {r})
  BY FS_AddElement DEF Summable
<1>2. ColumnSum(column, S \cup {r}) = OrZero(r[column]) + ColumnSum(column, (S \cup {r}) \ {r})
  BY <1>1, SumWithout
<1>3. (S \cup {r}) \ {r} = S
  OBVIOUS
<1>4. ColumnSum(column, S) \in Nat
  BY SumIsCount
<1>5. OrZero(r[column]) + ColumnSum(column, S) = ColumnSum(column, S) + OrZero(r[column])
  BY <1>4
<1> QED BY <1>2, <1>3, <1>5

-----------------------------------------------------------------------------
(* The sums of a row of the books.                                         *)

Columns == {"requests", "ok_count", "tokens", "cost", "cost_known", "latency", "ttfb"}
Summed == {"output_tokens", "cost", "latency_ms", "ttfb_ms"}

Rows(S) == IsFiniteSet(S) /\ \A r \in S : \A column \in Summed : OrZero(r[column]) \in Nat
Served(S) == {r \in S : r.ok}
Costed(S) == {r \in S : r.cost # Null}

LEMMA PartOfRows ==
  ASSUME NEW S, Rows(S), NEW T \in SUBSET S
  PROVE  Rows(T) /\ \A column \in Summed : Summable(column, T)
BY FS_Subset DEF Rows, Summable

LEMMA SumsColumns ==
  ASSUME NEW S
  PROVE  /\ Sums(S) = [column \in Columns |-> Sums(S)[column]]
         /\ Sums(S)["requests"] = Cardinality(S)
         /\ Sums(S)["ok_count"] = Cardinality(Served(S))
         /\ Sums(S)["tokens"] = ColumnSum("output_tokens", S)
         /\ Sums(S)["cost"] = ColumnSum("cost", S)
         /\ Sums(S)["cost_known"] = Cardinality(Costed(S))
         /\ Sums(S)["latency"] = ColumnSum("latency_ms", Served(S))
         /\ Sums(S)["ttfb"] = ColumnSum("ttfb_ms", Served(S))
BY DEF Sums, Columns, Served, Costed

LEMMA SumsAreCounts ==
  ASSUME NEW S, Rows(S)
  PROVE  Sums(S) \in [Columns -> Nat]
<1>1. /\ S \in SUBSET S /\ Served(S) \in SUBSET S /\ Costed(S) \in SUBSET S
  BY DEF Served, Costed
<1>2. /\ Summable("output_tokens", S) /\ Summable("cost", S)
      /\ Summable("latency_ms", Served(S)) /\ Summable("ttfb_ms", Served(S))
  BY <1>1, PartOfRows DEF Summed
<1>3. /\ ColumnSum("output_tokens", S) \in Nat /\ ColumnSum("cost", S) \in Nat
      /\ ColumnSum("latency_ms", Served(S)) \in Nat /\ ColumnSum("ttfb_ms", Served(S)) \in Nat
  BY <1>2, SumIsCount
<1>4. /\ Cardinality(S) \in Nat /\ Cardinality(Served(S)) \in Nat /\ Cardinality(Costed(S)) \in Nat
  BY <1>1, FS_Subset, FS_CardinalityType DEF Rows
<1>5. \A column \in Columns : Sums(S)[column] \in Nat
  BY <1>3, <1>4, SumsColumns DEF Columns
<1> QED BY <1>5, SumsColumns

LEMMA CountWith ==
  ASSUME NEW S, IsFiniteSet(S), NEW r, r \notin S
  PROVE  Cardinality(S \cup {r}) = Cardinality(S) + 1
BY FS_AddElement

LEMMA SumsWith ==
  ASSUME NEW S, Rows(S), NEW r, r \notin S, Rows({r})
  PROVE  /\ Rows(S \cup {r})
         /\ Sums(S \cup {r}) = Both(Sums(S), Sums({r}))
<1> DEFINE T == S \cup {r}
           one == {r}
<1>1. Rows(T)
  <2>1. IsFiniteSet(T)
    BY FS_AddElement DEF Rows
  <2> QED BY <2>1 DEF Rows
<1>2. /\ IsFiniteSet(S) /\ Served(S) \in SUBSET S /\ Costed(S) \in SUBSET S
      /\ IsFiniteSet(Served(S)) /\ IsFiniteSet(Costed(S)) /\ IsFiniteSet({})
      /\ S = {} \cup S /\ S \in SUBSET S
  BY FS_Subset, FS_EmptySet DEF Rows, Served, Costed
<1>3. Cardinality(T) = Cardinality(S) + Cardinality(one)
  BY <1>2, CountWith, FS_Singleton
<1>4. Cardinality(Served(T)) = Cardinality(Served(S)) + Cardinality(Served(one))
  <2>1. CASE r.ok
    <3>1. Served(T) = Served(S) \cup {r} /\ Served(one) = {r} /\ r \notin Served(S)
      BY <2>1 DEF Served
    <3> QED BY <1>2, <3>1, CountWith, FS_Singleton
  <2>2. CASE ~r.ok
    <3>1. Served(T) = Served(S) /\ Served(one) = {}
      BY <2>2 DEF Served
    <3>2. Cardinality(Served(S)) \in Nat
      BY <1>2, FS_CardinalityType
    <3>3. Cardinality(Served(one)) = 0
      BY <3>1, FS_EmptySet
    <3> QED BY <3>1, <3>2, <3>3
  <2> QED BY <2>1, <2>2
<1>5. Cardinality(Costed(T)) = Cardinality(Costed(S)) + Cardinality(Costed(one))
  <2>1. CASE r.cost # Null
    <3>1. Costed(T) = Costed(S) \cup {r} /\ Costed(one) = {r} /\ r \notin Costed(S)
      BY <2>1 DEF Costed
    <3> QED BY <1>2, <3>1, CountWith, FS_Singleton
  <2>2. CASE r.cost = Null
    <3>1. Costed(T) = Costed(S) /\ Costed(one) = {}
      BY <2>2 DEF Costed
    <3>2. Cardinality(Costed(S)) \in Nat
      BY <1>2, FS_CardinalityType
    <3>3. Cardinality(Costed(one)) = 0
      BY <3>1, FS_EmptySet
    <3> QED BY <3>1, <3>2, <3>3
  <2> QED BY <2>1, <2>2
<1>6. \A column \in Summed : OrZero(r[column]) \in Nat
  BY DEF Rows
<1>7. ASSUME NEW column \in Summed, NEW P \in SUBSET S
      PROVE  /\ ColumnSum(column, P) \in Nat
             /\ ColumnSum(column, P \cup {r}) = ColumnSum(column, P) + OrZero(r[column])
             /\ ColumnSum(column, {r}) = OrZero(r[column])
             /\ ColumnSum(column, {}) = 0
  <2>1. Summable(column, P) /\ Summable(column, {})
    BY PartOfRows
  <2>2. OrZero(r[column]) \in Nat /\ r \notin P /\ r \notin {}
    BY <1>6
  <2>3. ColumnSum(column, P) \in Nat
    BY <2>1, SumIsCount
  <2>4. ColumnSum(column, P \cup {r}) = ColumnSum(column, P) + OrZero(r[column])
    BY <2>1, <2>2, SumWith
  <2>5. ColumnSum(column, {} \cup {r}) = ColumnSum(column, {}) + OrZero(r[column])
    BY <2>1, <2>2, SumWith
  <2>6. ColumnSum(column, {}) = 0 /\ {} \cup {r} = {r}
    BY SumOfNone
  <2>7. ColumnSum(column, {r}) = 0 + OrZero(r[column])
    BY <2>5, <2>6
  <2>8. 0 + OrZero(r[column]) = OrZero(r[column])
    BY <2>2
  <2> QED BY <2>3, <2>4, <2>6, <2>7, <2>8
<1>8. /\ ColumnSum("output_tokens", T) = ColumnSum("output_tokens", S) + ColumnSum("output_tokens", one)
      /\ ColumnSum("cost", T) = ColumnSum("cost", S) + ColumnSum("cost", one)
  BY <1>2, <1>7 DEF Summed
<1>9. ASSUME NEW column \in Summed
      PROVE  ColumnSum(column, Served(T)) = ColumnSum(column, Served(S)) + ColumnSum(column, Served(one))
  <2>1. CASE r.ok
    <3>1. Served(T) = Served(S) \cup {r} /\ Served(one) = {r}
      BY <2>1 DEF Served
    <3> QED BY <1>2, <1>7, <3>1
  <2>2. CASE ~r.ok
    <3>1. Served(T) = Served(S) /\ Served(one) = {}
      BY <2>2 DEF Served
    <3>2. ColumnSum(column, Served(S)) \in Nat /\ ColumnSum(column, Served(one)) = 0
      BY <1>2, <1>7, <3>1
    <3> QED BY <3>1, <3>2
  <2> QED BY <2>1, <2>2
<1> HIDE DEF T, one
<1>10. \A column \in Columns : Sums(T)[column] = Sums(S)[column] + Sums(one)[column]
  <2>1. "latency_ms" \in Summed /\ "ttfb_ms" \in Summed
    BY DEF Summed
  <2> QED BY <2>1, <1>3, <1>4, <1>5, <1>8, <1>9, SumsColumns DEF Columns
<1>11. DOMAIN Sums(S) = Columns
  BY SumsColumns
<1>12. Sums(T) = [column \in Columns |-> Sums(T)[column]]
  BY SumsColumns
<1>13. Sums(T) = Both(Sums(S), Sums(one))
  BY <1>10, <1>11, <1>12 DEF Both
<1> QED BY <1>1, <1>13 DEF T, one

-----------------------------------------------------------------------------
(* An attempt is in usage_events and in the history of what was recorded,  *)
(* here with the cost of the day, there with the one of a later estimate.  *)

SameAttempt(r, q) ==
  /\ r.id = q.id /\ r.ts = q.ts /\ r.ok = q.ok
  /\ r.username = q.username /\ r.provider = q.provider /\ r.model = q.model
  /\ r.output_tokens = q.output_tokens /\ r.latency_ms = q.latency_ms /\ r.ttfb_ms = q.ttfb_ms

Twins(S, T) ==
  /\ IsFiniteSet(S) /\ IsFiniteSet(T)
  /\ \A r, q \in S : r.id = q.id => r = q
  /\ \A r, q \in T : r.id = q.id => r = q
  /\ \A u \in S : \E r \in T : SameAttempt(u, r)
  /\ \A r \in T : \E u \in S : SameAttempt(u, r)

LEMMA TwinSums ==
  ASSUME NEW column \in {"output_tokens", "latency_ms", "ttfb_ms"},
         NEW S, NEW T, Twins(S, T), Summable(column, S), Summable(column, T)
  PROVE  Cardinality(S) = Cardinality(T) /\ ColumnSum(column, S) = ColumnSum(column, T)
<1> DEFINE Same(s, q) == Cardinality(s) = Cardinality(q) /\ ColumnSum(column, s) = ColumnSum(column, q)
           N == Cardinality(S)
           Bad == {n \in 0 .. N : \E s \in SUBSET S, q \in SUBSET T :
                                    Cardinality(s) = n /\ Twins(s, q) /\ ~Same(s, q)}
<1>1. IsFiniteSet(S) /\ IsFiniteSet(T) /\ N \in Nat
  BY FS_CardinalityType DEF Summable
<1>2. ASSUME Bad # {}
      PROVE  FALSE
  <2> DEFINE m == Min(Bad)
  <2>1. Bad \in SUBSET Nat
    BY <1>1
  <2>2. m \in Bad /\ \A n \in Bad : m <= n
    <3> HIDE DEF Bad
    <3> QED BY <1>2, <2>1, LeastNumber
  <2> HIDE DEF m, Same
  <2>3. PICK s \in SUBSET S : \E q \in SUBSET T : Cardinality(s) = m /\ Twins(s, q) /\ ~Same(s, q)
    BY <2>2
  <2>4. PICK q \in SUBSET T : Cardinality(s) = m /\ Twins(s, q) /\ ~Same(s, q)
    BY <2>3
  <2>5. s # {}
    <3> SUFFICES ASSUME s = {}
                 PROVE  FALSE
      OBVIOUS
    <3>1. q = {}
      BY <2>4 DEF Twins
    <3> QED BY <2>4, <3>1 DEF Same
  <2>6. PICK x \in s : TRUE
    BY <2>5
  <2>7. PICK y \in q : SameAttempt(x, y)
    BY <2>4 DEF Twins
  <2> DEFINE s1 == s \ {x}
             q1 == q \ {y}
  <2>8. /\ s1 \in SUBSET S /\ m \in Nat /\ IsFiniteSet(s1) /\ Cardinality(s) \in Nat
        /\ Cardinality(s1) = m - 1 /\ m - 1 \in Nat
    <3>1. /\ Cardinality(s1) = Cardinality(s) - 1 /\ Cardinality(s1) \in Nat /\ IsFiniteSet(s1)
          /\ Cardinality(s) \in Nat
      BY <1>1, Smaller
    <3>2. Cardinality(s) = m
      BY <2>4
    <3> QED BY <3>1, <3>2
  <2>9. /\ q1 \in SUBSET T /\ IsFiniteSet(q1) /\ Cardinality(q) \in Nat
        /\ Cardinality(q1) = Cardinality(q) - 1
    BY <1>1, Smaller
  <2>10. Twins(s1, q1)
    <3>1. \A u \in s1 : \E r \in q1 : SameAttempt(u, r)
      BY <2>4, <2>7 DEF Twins, SameAttempt
    <3>2. \A r \in q1 : \E u \in s1 : SameAttempt(u, r)
      BY <2>4, <2>7 DEF Twins, SameAttempt
    <3>3. /\ \A r, c \in s1 : r.id = c.id => r = c
          /\ \A r, c \in q1 : r.id = c.id => r = c
      BY <2>4 DEF Twins
    <3> QED BY <2>8, <2>9, <3>1, <3>2, <3>3 DEF Twins
  <2>11. m - 1 \notin Bad /\ m - 1 \in 0 .. N
    BY <1>1, <2>2, <2>8
  <2>12. Same(s1, q1)
    BY <2>8, <2>9, <2>10, <2>11
  <2>13. Cardinality(s) = Cardinality(q)
    <3>1. Cardinality(s1) = Cardinality(q1) /\ Cardinality(s) = m
      BY <2>4, <2>12 DEF Same
    <3> QED BY <2>8, <2>9, <3>1
  <2>14. ColumnSum(column, s) = ColumnSum(column, q)
    <3>1. Summable(column, s) /\ Summable(column, q)
      BY FS_Subset DEF Summable
    <3>2. /\ ColumnSum(column, s) = OrZero(x[column]) + ColumnSum(column, s1)
          /\ ColumnSum(column, q) = OrZero(y[column]) + ColumnSum(column, q1)
      BY <3>1, SumWithout
    <3>3. x[column] = y[column]
      BY <2>7 DEF SameAttempt
    <3> QED BY <2>12, <3>2, <3>3 DEF Same
  <2> QED BY <2>4, <2>13, <2>14 DEF Same
<1>3. Same(S, T)
  <2>1. N \notin Bad
    BY <1>2
  <2> QED BY <1>1, <2>1
<1> QED BY <1>3

LEMMA TwinCounts ==
  ASSUME NEW S, NEW T, Twins(S, T), Rows(S), Rows(T)
  PROVE  Counts(Sums(S)) = Counts(Sums(T))
<1>1. Twins(Served(S), Served(T))
  <2>1. IsFiniteSet(Served(S)) /\ IsFiniteSet(Served(T))
    BY FS_Subset DEF Rows, Served
  <2>2. \A u \in Served(S) : \E r \in Served(T) : SameAttempt(u, r)
    BY DEF Twins, Served, SameAttempt
  <2>3. \A r \in Served(T) : \E u \in Served(S) : SameAttempt(u, r)
    BY DEF Twins, Served, SameAttempt
  <2>4. /\ \A r, q \in Served(S) : r.id = q.id => r = q
        /\ \A r, q \in Served(T) : r.id = q.id => r = q
    BY DEF Twins, Served
  <2> QED BY <2>1, <2>2, <2>3, <2>4 DEF Twins
<1>2. ASSUME NEW column \in {"output_tokens", "latency_ms", "ttfb_ms"}
      PROVE  /\ Summable(column, S) /\ Summable(column, T)
             /\ Summable(column, Served(S)) /\ Summable(column, Served(T))
  <2>1. column \in Summed /\ Served(S) \in SUBSET S /\ Served(T) \in SUBSET T
    BY DEF Summed, Served
  <2> QED BY <2>1, PartOfRows
<1>3. /\ Cardinality(S) = Cardinality(T)
      /\ ColumnSum("output_tokens", S) = ColumnSum("output_tokens", T)
  BY <1>2, TwinSums
<1>4. /\ Cardinality(Served(S)) = Cardinality(Served(T))
      /\ ColumnSum("latency_ms", Served(S)) = ColumnSum("latency_ms", Served(T))
      /\ ColumnSum("ttfb_ms", Served(S)) = ColumnSum("ttfb_ms", Served(T))
  BY <1>1, <1>2, TwinSums
<1>5. \A column \in Columns \ {"cost", "cost_known"} : Sums(S)[column] = Sums(T)[column]
  BY <1>3, <1>4, SumsColumns DEF Columns
<1>6. DOMAIN Sums(S) = Columns /\ DOMAIN Sums(T) = Columns
  BY SumsColumns
<1> QED BY <1>5, <1>6 DEF Counts

LEMMA CountsWith ==
  ASSUME NEW a \in [Columns -> Nat], NEW b \in [Columns -> Nat], NEW c, Counts(a) = Counts(b)
  PROVE  Counts(Both(a, c)) = Counts(Both(b, c))
<1>1. \A column \in Columns \ {"cost", "cost_known"} : a[column] = b[column]
  <2> SUFFICES ASSUME NEW column \in Columns \ {"cost", "cost_known"}
               PROVE  a[column] = b[column]
    OBVIOUS
  <2>1. Counts(a)[column] = a[column] /\ Counts(b)[column] = b[column]
    BY DEF Counts
  <2> QED BY <2>1
<1>2. DOMAIN Both(a, c) = Columns /\ DOMAIN Both(b, c) = Columns
  BY DEF Both
<1>3. \A column \in Columns \ {"cost", "cost_known"} : Both(a, c)[column] = Both(b, c)[column]
  BY <1>1 DEF Both
<1> QED BY <1>2, <1>3 DEF Counts


-----------------------------------------------------------------------------
(* Hours.                                                                  *)

LEMMA Times ==
  ASSUME NEW p \in Nat, NEW a \in Nat, NEW b \in Nat, a <= b
  PROVE  p * a <= p * b /\ p * a \in Nat
<1>1. PICK d \in Nat : b = a + d
  <2>1. b - a \in Nat /\ b = a + (b - a)
    OBVIOUS
  <2> QED BY <2>1
<1>2. p * b = p * a + p * d
  BY <1>1
<1>3. p * a \in Nat /\ p * d \in Nat
  BY <1>1
<1> QED BY <1>2, <1>3

LEMMA HourBounds ==
  ASSUME NEW t \in Nat
  PROVE  /\ HourOf(t) \in Nat
         /\ PerHour * HourOf(t) <= t
         /\ t < PerHour * HourOf(t) + PerHour
<1>1. PerHour \in Nat \ {0}
  BY BookConstants
<1> QED BY <1>1 DEF HourOf

LEMMA HourFrom ==
  ASSUME NEW t \in Nat, NEW h \in Nat
  PROVE  /\ t >= h * PerHour <=> HourOf(t) >= h
         /\ h * PerHour \in Nat
<1> DEFINE q == HourOf(t)
<1>1. PerHour \in Nat /\ PerHour > 0 /\ q \in Nat /\ PerHour * q <= t /\ t < PerHour * q + PerHour
  BY HourBounds, BookConstants
<1> HIDE DEF q
<1>2. h * PerHour = PerHour * h /\ PerHour * h \in Nat
  BY <1>1
<1>3. ASSUME q >= h
      PROVE  t >= h * PerHour
  <2>1. PerHour * h <= PerHour * q /\ PerHour * q \in Nat
    BY <1>1, <1>3, Times
  <2> QED BY <1>1, <1>2, <2>1
<1>4. ASSUME ~(q >= h)
      PROVE  ~(t >= h * PerHour)
  <2>1. q + 1 <= h /\ q + 1 \in Nat
    BY <1>1, <1>4
  <2>2. PerHour * (q + 1) <= PerHour * h
    BY <1>1, <2>1, Times
  <2>3. PerHour * (q + 1) = PerHour * q + PerHour /\ PerHour * q \in Nat
    BY <1>1
  <2> QED BY <1>1, <1>2, <2>2, <2>3
<1>5. t >= h * PerHour <=> q >= h
  BY <1>3, <1>4
<1> QED BY <1>2, <1>5 DEF q

LEMMA HourGrows ==
  ASSUME NEW a \in Nat, NEW b \in Nat
  PROVE  /\ a <= b => HourOf(a) <= HourOf(b)
         /\ a + PerHour <= b => HourOf(a) + 1 <= HourOf(b)
<1> DEFINE p == HourOf(a)
           q == HourOf(b)
<1>1. PerHour \in Nat /\ PerHour > 0 /\ p \in Nat /\ PerHour * p <= a /\ q \in Nat
  BY HourBounds, BookConstants
<1>2. \A h \in Nat : (b >= h * PerHour <=> q >= h)
  BY HourFrom
<1> HIDE DEF p, q
<1>3. p * PerHour = PerHour * p /\ (p + 1) * PerHour = PerHour * p + PerHour /\ PerHour * p \in Nat
  BY <1>1
<1>4. a <= b => b >= p * PerHour
  BY <1>1, <1>3
<1>5. a + PerHour <= b => b >= (p + 1) * PerHour
  BY <1>1, <1>3
<1>6. p + 1 \in Nat
  BY <1>1
<1>7. (a <= b => q >= p) /\ (a + PerHour <= b => q >= p + 1)
  BY <1>1, <1>2, <1>4, <1>5, <1>6
<1>8. (q >= p => p <= q) /\ (q >= p + 1 => p + 1 <= q)
  BY <1>1
<1>9. (a <= b => p <= q) /\ (a + PerHour <= b => p + 1 <= q)
  BY <1>7, <1>8
<1> QED BY <1>9 DEF p, q

\* A round recomputes whole hours, and purges whole hours before the one that goes on.
LEMMA RoundsByTheHour ==
  ASSUME clock \in Nat
  PROVE  /\ \E h \in Nat : RollupSince = h * PerHour
         /\ \E h \in Nat : PurgeBefore = h * PerHour /\ h <= HourOf(clock)
<1>1. PerHour \in Nat \ {0} /\ Overlap \in Nat /\ Retain \in Nat /\ Retain >= Overlap + PerHour
  BY BookConstants
<1>2. 0 \in Nat /\ 0 = 0 * PerHour /\ HourOf(clock) \in Nat /\ 0 <= HourOf(clock)
  BY <1>1, HourBounds
<1>3. \E h \in Nat : RollupSince = h * PerHour
  <2>1. CASE clock <= Overlap
    BY <1>2, <2>1 DEF RollupSince
  <2>2. CASE ~(clock <= Overlap)
    <3>1. HourOf(clock - Overlap) \in Nat
      BY <1>1, <2>2, HourBounds
    <3> QED BY <2>2, <3>1 DEF RollupSince
  <2> QED BY <2>1, <2>2
<1>4. \E h \in Nat : PurgeBefore = h * PerHour /\ h <= HourOf(clock)
  <2>1. CASE clock < Retain
    BY <1>2, <2>1 DEF PurgeBefore
  <2>2. CASE ~(clock < Retain)
    <3> DEFINE a == clock - Retain
    <3>1. a \in Nat /\ a + PerHour <= clock
      BY <1>1, <2>2
    <3>2. HourOf(a) \in Nat /\ HourOf(a) + 1 <= HourOf(clock)
      BY <3>1, HourBounds, HourGrows
    <3>3. HourOf(a) + 1 \in Nat
      BY <3>2
    <3> QED BY <2>2, <3>2, <3>3 DEF PurgeBefore
  <2> QED BY <2>1, <2>2
<1> QED BY <1>3, <1>4

-----------------------------------------------------------------------------
(* The inductive invariant of the books.                                   *)

AttemptRow(r) ==
  /\ r.id \in Nat /\ r.id < written
  /\ r.ts \in Nat /\ r.ts <= clock
  /\ "cost" \in DOMAIN r
  /\ \A column \in Summed : OrZero(r[column]) \in Nat

Remains(r) == \E u \in usage : u.id = r.id
RowsOf(S, k) == {r \in S : HourKey(r) = k}
KeysOf(S) == {HourKey(r) : r \in S}

BookTypes ==
  /\ clock \in Nat /\ written \in Nat /\ price \in Prices
  /\ IsFiniteSet(usage) /\ IsFiniteSet(recorded)
  /\ \A r \in usage \cup recorded : AttemptRow(r)
  /\ hourly \in [DOMAIN hourly -> [Columns -> Nat]]
  /\ script.at \in {"idle", "found", "orphans", "repriced"}
  /\ script.at = "idle" => script = NoScript

\* Every event is an attempt that was recorded, once; and what was purged is older, by
\* whole hours, than what was not and than the hour that goes on.
EventsKept ==
  /\ \A r, q \in usage : r.id = q.id => r = q
  /\ \A r, q \in recorded : r.id = q.id => r = q
  /\ \A u \in usage : \E r \in recorded : SameAttempt(u, r)
  /\ \A u \in usage, r \in recorded : HourOf(u.ts) <= HourOf(r.ts) => Remains(r)
  /\ \A r \in recorded : HourOf(r.ts) = HourOf(clock) => Remains(r)

KeptHour(h) == \A r \in recorded : HourOf(r.ts) = h => Remains(r)
SameKeys(h) == KeyedAt(DOMAIN hourly, h) = KeyedAt(KeysOf(recorded), h)
Counted(h) ==
  \A k \in KeyedAt(KeysOf(recorded), h) : Counts(hourly[k]) = Counts(Sums(RowsOf(recorded, k)))
InStep(h) ==
  \A k \in KeyedAt(KeysOf(usage), h) : k \in DOMAIN hourly /\ hourly[k] = Sums(RowsOf(usage, k))

\* What is right of an hour also while a script is at work of it: until the rows without
\* events are deleted there may be too many, between a new estimate and the recomputation
\* they may be of the old cost, and what a script deletes was not purged.
UnderScript(h) == script.at # "idle" /\ h \in script.hours
HourSound(h) ==
  /\ ~(UnderScript(h) /\ script.at = "orphans") => (SameKeys(h) /\ Counted(h))
  /\ ~(UnderScript(h) /\ script.at = "repriced") => InStep(h)
  /\ UnderScript(h) /\ script.at \in {"found", "orphans"} => KeptHour(h)

BooksInv == BookTypes /\ EventsKept /\ \A h \in Nat \ blurred : HourSound(h)

-----------------------------------------------------------------------------
(* An hour that has all of its events.                                     *)

LEMMA KeyIsHours ==
  ASSUME NEW r
  PROVE  HourKey(r).hour = HourOf(r.ts)
BY DEF HourKey

LEMMA SameAttemptKey ==
  ASSUME NEW r, NEW q, SameAttempt(r, q)
  PROVE  HourKey(r) = HourKey(q) /\ r.id = q.id /\ r.ts = q.ts
BY DEF HourKey, SameAttempt

LEMMA Typed ==
  ASSUME BookTypes
  PROVE  /\ \A S \in SUBSET usage : Rows(S)
         /\ \A S \in SUBSET recorded : Rows(S)
<1>1. Rows(usage) /\ Rows(recorded)
  BY DEF BookTypes, AttemptRow, Rows
<1> QED BY <1>1, PartOfRows

\* The event of a recorded attempt that stands.
LEMMA RemainsAs ==
  ASSUME EventsKept, NEW r \in recorded, Remains(r)
  PROVE  \E u \in usage : SameAttempt(u, r)
BY DEF EventsKept, Remains, SameAttempt

LEMMA HourWithEvents ==
  ASSUME EventsKept, BookTypes, NEW u \in usage
  PROVE  KeptHour(HourOf(u.ts))
<1>1. HourOf(u.ts) \in Nat
  BY HourBounds DEF BookTypes, AttemptRow
<1>2. HourOf(u.ts) <= HourOf(u.ts)
  BY <1>1
<1>3. \A r \in recorded : HourOf(r.ts) = HourOf(u.ts) => HourOf(u.ts) <= HourOf(r.ts)
  BY <1>2
<1> QED BY <1>3 DEF EventsKept, KeptHour

LEMMA EventKeys ==
  ASSUME EventsKept, NEW h
  PROVE  /\ KeyedAt(KeysOf(usage), h) \subseteq KeyedAt(KeysOf(recorded), h)
         /\ KeptHour(h) => KeyedAt(KeysOf(usage), h) = KeyedAt(KeysOf(recorded), h)
<1>1. \A u \in usage : HourKey(u) \in KeysOf(recorded)
  BY SameAttemptKey DEF EventsKept, KeysOf
<1>2. ASSUME KeptHour(h), NEW r \in recorded, HourKey(r).hour = h
      PROVE  HourKey(r) \in KeysOf(usage)
  <2>1. Remains(r)
    BY <1>2, KeyIsHours DEF KeptHour
  <2>2. PICK u \in usage : SameAttempt(u, r)
    BY <2>1, RemainsAs
  <2> QED BY <2>2, SameAttemptKey DEF KeysOf
<1> QED BY <1>1, <1>2 DEF KeyedAt, KeysOf

LEMMA EventTwins ==
  ASSUME EventsKept, BookTypes, NEW k, KeptHour(k.hour)
  PROVE  /\ Twins(RowsOf(usage, k), RowsOf(recorded, k))
         /\ Counts(Sums(RowsOf(usage, k))) = Counts(Sums(RowsOf(recorded, k)))
<1>1. /\ RowsOf(usage, k) \in SUBSET usage /\ RowsOf(recorded, k) \in SUBSET recorded
      /\ Rows(RowsOf(usage, k)) /\ Rows(RowsOf(recorded, k))
  BY Typed DEF RowsOf
<1>2. \A u \in RowsOf(usage, k) : \E r \in RowsOf(recorded, k) : SameAttempt(u, r)
  BY SameAttemptKey DEF EventsKept, RowsOf
<1>3. ASSUME NEW r \in RowsOf(recorded, k)
      PROVE  \E u \in RowsOf(usage, k) : SameAttempt(u, r)
  <2>1. r \in recorded /\ HourKey(r) = k
    BY DEF RowsOf
  <2>2. Remains(r)
    BY <2>1, KeyIsHours DEF KeptHour
  <2>3. PICK u \in usage : SameAttempt(u, r)
    BY <2>1, <2>2, RemainsAs
  <2> QED BY <2>1, <2>3, SameAttemptKey DEF RowsOf
<1>4. Twins(RowsOf(usage, k), RowsOf(recorded, k))
  <2>1. /\ \A r, q \in RowsOf(usage, k) : r.id = q.id => r = q
        /\ \A r, q \in RowsOf(recorded, k) : r.id = q.id => r = q
    BY <1>1 DEF EventsKept
  <2> QED BY <1>1, <1>2, <1>3, <2>1 DEF Twins, Rows
<1> QED BY <1>1, <1>4, TwinCounts


-----------------------------------------------------------------------------
(* An attempt is recorded.                                                 *)

LEMMA BothAreCounts ==
  ASSUME NEW a \in [Columns -> Nat], NEW b \in [Columns -> Nat]
  PROVE  Both(a, b) \in [Columns -> Nat]
<1>1. \A column \in Columns : a[column] \in Nat /\ b[column] \in Nat
  OBVIOUS
<1>2. \A column \in Columns : a[column] + b[column] \in Nat
  BY <1>1
<1> QED BY <1>2 DEF Both

LEMMA RowsWith ==
  ASSUME NEW S, NEW r
  PROVE  /\ KeysOf(S \cup {r}) = KeysOf(S) \cup {HourKey(r)}
         /\ RowsOf(S \cup {r}, HourKey(r)) = RowsOf(S, HourKey(r)) \cup {r}
         /\ \A k : k # HourKey(r) => RowsOf(S \cup {r}, k) = RowsOf(S, k)
BY DEF KeysOf, RowsOf

LEMMA WrittenRow ==
  ASSUME BookTypes, NEW sample \in Samples
  PROVE  \E r : /\ r = Written(sample) /\ r.id = written /\ r.ts = clock /\ "cost" \in DOMAIN r
                /\ \A column \in Summed : OrZero(r[column]) \in Nat
<1> DEFINE fields == [id |-> written, rowid |-> NextRowid, ts |-> clock, cost |-> CostAt(sample, price)]
           r == Overlaid(fields, sample)
<1>1. /\ DOMAIN fields = {"id", "rowid", "ts", "cost"}
      /\ fields["id"] = written /\ fields["ts"] = clock /\ fields["cost"] = CostAt(sample, price)
  OBVIOUS
<1> HIDE DEF fields
<1>2. /\ r["id"] = written /\ r["ts"] = clock /\ r["cost"] = CostAt(sample, price)
      /\ "cost" \in DOMAIN r
      /\ \A column \in {"output_tokens", "latency_ms", "ttfb_ms"} : r[column] = sample[column]
  <2>1. {"output_tokens", "latency_ms", "ttfb_ms"} \subseteq DOMAIN sample
    BY BookConstants
  <2> QED BY <1>1, <2>1 DEF Overlaid
<1>3. \A column \in {"output_tokens", "latency_ms", "ttfb_ms"} : OrZero(r[column]) \in Nat
  <2>1. \A column \in {"output_tokens", "latency_ms", "ttfb_ms"} : sample[column] \in Nat \cup {Null}
    BY BookConstants
  <2> HIDE DEF r
  <2> QED BY <1>2, <2>1 DEF OrZero
<1>4. OrZero(CostAt(sample, price)) \in Nat
  <2>1. sample["output_tokens"] \in Nat \cup {Null} /\ price \in Nat
    BY BookConstants DEF BookTypes
  <2>2. sample.output_tokens # Null => price * sample.output_tokens \in Nat
    BY <2>1
  <2> QED BY <2>2 DEF OrZero, CostAt
<1>5. r = Written(sample)
  BY DEF Written, fields
<1> HIDE DEF r
<1>6. r.id = written /\ r.ts = clock /\ "cost" \in DOMAIN r
  BY <1>2
<1>7. \A column \in Summed : OrZero(r[column]) \in Nat
  BY <1>2, <1>3, <1>4 DEF Summed
<1> QED BY <1>5, <1>6, <1>7

LEMMA AttemptRecorded ==
  ASSUME BooksInv, NEW sample \in Samples, Record(sample)
  PROVE  BooksInv'
<1>1. BookTypes /\ EventsKept
  BY DEF BooksInv
<1>2. PICK r0 : /\ r0 = Written(sample) /\ r0.id = written /\ r0.ts = clock /\ "cost" \in DOMAIN r0
                /\ \A column \in Summed : OrZero(r0[column]) \in Nat
  BY <1>1, WrittenRow
<1>3. /\ written' = written + 1 /\ usage' = usage \cup {r0} /\ recorded' = recorded \cup {r0}
      /\ hourly' = BumpHourly(r0)
      /\ blurred' = blurred \cup (IF Revives(r0) THEN {HourOf(clock)} ELSE {})
      /\ UNCHANGED <<clock, price, script>>
  BY <1>2 DEF Record
<1> DEFINE k0 == HourKey(r0)
           before == IF k0 \in DOMAIN hourly THEN hourly[k0] ELSE Sums({})
<1>4. /\ clock \in Nat /\ written \in Nat /\ HourOf(clock) \in Nat /\ k0.hour = HourOf(clock)
  BY <1>1, <1>2, HourBounds, KeyIsHours DEF BookTypes
<1>5. /\ DOMAIN hourly' = DOMAIN hourly \cup {k0}
      /\ hourly'[k0] = Both(before, Sums({r0}))
      /\ \A k \in DOMAIN hourly : k # k0 => hourly'[k] = hourly[k]
  BY <1>3 DEF BumpHourly
<1>6. Rows({r0}) /\ Rows({})
  BY <1>2, FS_Singleton, FS_EmptySet DEF Rows
<1>7. /\ before \in [Columns -> Nat] /\ Sums({r0}) \in [Columns -> Nat]
  <2>1. Sums({}) \in [Columns -> Nat] /\ Sums({r0}) \in [Columns -> Nat]
    BY <1>6, SumsAreCounts
  <2> QED BY <1>1, <2>1 DEF BookTypes
<1>8. \A r \in usage \cup recorded : r.id \in Nat /\ r.id < written /\ r.id # r0.id
  BY <1>1, <1>2 DEF BookTypes, AttemptRow
<1>9. r0 \notin usage /\ r0 \notin recorded
  BY <1>8
<1>10. BookTypes'
  <2>1. IsFiniteSet(usage') /\ IsFiniteSet(recorded')
    BY <1>1, <1>3, FS_AddElement DEF BookTypes
  <2>2. AttemptRow(r0)'
    <3>1. r0.id \in Nat /\ r0.id < written + 1 /\ r0.ts \in Nat /\ r0.ts <= clock
      BY <1>2, <1>4
    <3> QED BY <1>2, <1>3, <3>1 DEF AttemptRow
  <2>3. ASSUME NEW r \in usage \cup recorded
        PROVE  AttemptRow(r)'
    <3>1. AttemptRow(r) /\ written \in Nat
      BY <1>1 DEF BookTypes
    <3> QED BY <1>3, <3>1 DEF AttemptRow
  <2>4. hourly' \in [DOMAIN hourly' -> [Columns -> Nat]]
    <3>1. Both(before, Sums({r0})) \in [Columns -> Nat]
      BY <1>7, BothAreCounts
    <3>2. \A k \in DOMAIN hourly' : hourly'[k] \in [Columns -> Nat]
      BY <1>1, <1>5, <3>1 DEF BookTypes
    <3>3. hourly' = [k \in DOMAIN hourly' |-> hourly'[k]]
      BY <1>3 DEF BumpHourly
    <3> QED BY <3>2, <3>3
  <2>5. written' \in Nat
    BY <1>3, <1>4
  <2>6. \A r \in (usage \cup recorded)' : AttemptRow(r)'
    BY <1>3, <2>2, <2>3
  <2> QED BY <1>1, <1>3, <2>1, <2>4, <2>5, <2>6 DEF BookTypes
<1>11. EventsKept'
  <2>1. /\ \A r, q \in usage' : r.id = q.id => r = q
        /\ \A r, q \in recorded' : r.id = q.id => r = q
    BY <1>1, <1>3, <1>8 DEF EventsKept
  <2>2. \A u \in usage' : \E r \in recorded' : SameAttempt(u, r)
    <3>1. SameAttempt(r0, r0)
      BY DEF SameAttempt
    <3> QED BY <1>1, <1>3, <3>1 DEF EventsKept
  <2>3. \A r : Remains(r) \/ r = r0 => Remains(r)'
    BY <1>3 DEF Remains
  <2>4. \A r \in recorded' : HourOf(r.ts) = HourOf(clock') => Remains(r)'
    BY <1>1, <1>3, <2>3 DEF EventsKept
  <2>5. ASSUME NEW u \in usage', NEW r \in recorded', HourOf(u.ts) <= HourOf(r.ts)
        PROVE  Remains(r)'
    <3>1. CASE r = r0
      BY <2>3, <3>1
    <3>2. CASE r # r0 /\ u # r0
      BY <1>1, <1>3, <2>3, <2>5, <3>2 DEF EventsKept
    <3>3. CASE r # r0 /\ u = r0
      <4>1. r.ts \in Nat /\ r.ts <= clock
        BY <1>1, <1>3, <3>3 DEF BookTypes, AttemptRow
      <4>2. HourOf(r.ts) <= HourOf(clock) /\ HourOf(r.ts) \in Nat
        BY <1>4, <4>1, HourBounds, HourGrows
      <4>3. HourOf(clock) <= HourOf(r.ts)
        BY <1>2, <2>5, <3>3
      <4>4. HourOf(r.ts) = HourOf(clock')
        BY <1>3, <1>4, <4>2, <4>3
      <4> QED BY <2>4, <4>4
    <3> QED BY <3>1, <3>2, <3>3
  <2> QED BY <2>1, <2>2, <2>4, <2>5 DEF EventsKept
<1>12. /\ KeysOf(usage') = KeysOf(usage) \cup {k0} /\ KeysOf(recorded') = KeysOf(recorded) \cup {k0}
       /\ RowsOf(usage', k0) = RowsOf(usage, k0) \cup {r0}
       /\ RowsOf(recorded', k0) = RowsOf(recorded, k0) \cup {r0}
       /\ \A k : k # k0 => RowsOf(usage', k) = RowsOf(usage, k) /\ RowsOf(recorded', k) = RowsOf(recorded, k)
  <2>1. \A S : /\ KeysOf(S \cup {r0}) = KeysOf(S) \cup {k0}
               /\ RowsOf(S \cup {r0}, k0) = RowsOf(S, k0) \cup {r0}
               /\ \A k : k # k0 => RowsOf(S \cup {r0}, k) = RowsOf(S, k)
    BY RowsWith
  <2>2. usage' = usage \cup {r0} /\ recorded' = recorded \cup {r0}
    BY <1>3
  <2> HIDE DEF k0
  <2> QED BY <2>1, <2>2
<1>13. ASSUME NEW S \in {usage, recorded}
       PROVE  /\ Rows(RowsOf(S, k0)) /\ Sums(RowsOf(S, k0)) \in [Columns -> Nat]
              /\ Sums(RowsOf(S, k0) \cup {r0}) = Both(Sums(RowsOf(S, k0)), Sums({r0}))
  <2>1. Rows(RowsOf(S, k0)) /\ r0 \notin RowsOf(S, k0)
    BY <1>1, <1>9, Typed DEF RowsOf
  <2> QED BY <1>6, <2>1, SumsAreCounts, SumsWith
<1> HIDE DEF before
<1>14. ASSUME NEW h \in Nat, h \notin blurred'
       PROVE  HourSound(h)'
  <2>1. h \notin blurred /\ HourSound(h) /\ (UnderScript(h)' <=> UnderScript(h)) /\ script'.at = script.at
    BY <1>3, <1>14 DEF BooksInv, UnderScript
  <2>2. ASSUME SameKeys(h), Counted(h)
        PROVE  SameKeys(h)' /\ Counted(h)'
    <3>1. SameKeys(h)'
      BY <1>5, <1>12, <2>2 DEF SameKeys, KeyedAt
    <3>2. ASSUME NEW k \in KeyedAt(KeysOf(recorded'), h)
          PROVE  Counts(hourly'[k]) = Counts(Sums(RowsOf(recorded', k)))
      <4>1. CASE k # k0
        <5>1. k \in KeyedAt(KeysOf(recorded), h)
          BY <1>12, <4>1 DEF KeyedAt
        <5>2. k \in DOMAIN hourly
          BY <2>2, <5>1 DEF SameKeys, KeyedAt
        <5> QED BY <1>5, <1>12, <2>2, <4>1, <5>1, <5>2 DEF Counted
      <4>2. CASE k = k0
        <5>1. k0.hour = h
          BY <4>2 DEF KeyedAt
        <5>2. Counts(before) = Counts(Sums(RowsOf(recorded, k0)))
          <6>1. CASE k0 \in DOMAIN hourly
            <7>1. k0 \in KeyedAt(KeysOf(recorded), h)
              BY <2>2, <5>1, <6>1 DEF SameKeys, KeyedAt
            <7> QED BY <2>2, <6>1, <7>1 DEF Counted, before
          <6>2. CASE k0 \notin DOMAIN hourly
            <7>1. k0 \notin KeysOf(recorded)
              BY <2>2, <5>1, <6>2 DEF SameKeys, KeyedAt
            <7>2. RowsOf(recorded, k0) = {}
              BY <7>1 DEF KeysOf, RowsOf
            <7> QED BY <6>2, <7>2 DEF before
          <6> QED BY <6>1, <6>2
        <5>3. Counts(Both(before, Sums({r0}))) = Counts(Both(Sums(RowsOf(recorded, k0)), Sums({r0})))
          BY <1>7, <1>13, <5>2, CountsWith
        <5> QED BY <1>5, <1>12, <1>13, <4>2, <5>3
      <4> QED BY <4>1, <4>2
    <3> QED BY <3>1, <3>2 DEF Counted
  <2>3. ASSUME InStep(h), ~(UnderScript(h) /\ script.at = "repriced")
        PROVE  InStep(h)'
    <3> SUFFICES ASSUME NEW k \in KeyedAt(KeysOf(usage'), h)
                 PROVE  k \in DOMAIN hourly' /\ hourly'[k] = Sums(RowsOf(usage', k))
      BY DEF InStep
    <3>1. CASE k # k0
      <4>1. k \in KeyedAt(KeysOf(usage), h)
        BY <1>12, <3>1 DEF KeyedAt
      <4> QED BY <1>5, <1>12, <2>3, <3>1, <4>1 DEF InStep
    <3>2. CASE k = k0
      <4>1. k0.hour = h /\ h = HourOf(clock)
        BY <1>4, <3>2 DEF KeyedAt
      <4>2. before = Sums(RowsOf(usage, k0))
        <5>1. CASE k0 \in KeysOf(usage)
          <6>1. k0 \in KeyedAt(KeysOf(usage), h)
            BY <4>1, <5>1 DEF KeyedAt
          <6> QED BY <2>3, <6>1 DEF InStep, before
        <5>2. CASE k0 \notin KeysOf(usage)
          <6>1. RowsOf(usage, k0) = {}
            BY <5>2 DEF KeysOf, RowsOf
          <6>2. k0 \notin DOMAIN hourly
            <7> SUFFICES ASSUME k0 \in DOMAIN hourly
                         PROVE  FALSE
              OBVIOUS
            <7>1. CASE UnderScript(h) /\ script.at = "orphans"
              <8>1. Revives(r0)
                BY <4>1, <5>2, <7>1 DEF Revives, Orphans, UnderScript, KeysOf
              <8> QED BY <1>3, <1>14, <4>1, <8>1
            <7>2. CASE ~(UnderScript(h) /\ script.at = "orphans")
              <8>1. SameKeys(h)
                BY <2>1, <7>2 DEF HourSound
              <8>2. k0 \in KeyedAt(KeysOf(recorded), h)
                BY <4>1, <8>1 DEF SameKeys, KeyedAt
              <8>3. KeptHour(h)
                BY <1>1, <4>1 DEF EventsKept, KeptHour
              <8>4. k0 \in KeyedAt(KeysOf(usage), h)
                BY <1>1, <8>2, <8>3, EventKeys
              <8> QED BY <5>2, <8>4 DEF KeyedAt
            <7> QED BY <7>1, <7>2
          <6> QED BY <6>1, <6>2 DEF before
        <5> QED BY <5>1, <5>2
      <4> QED BY <1>5, <1>12, <1>13, <3>2, <4>2
    <3> QED BY <3>1, <3>2
  <2>4. ASSUME KeptHour(h)
        PROVE  KeptHour(h)'
    BY <1>3, <2>4 DEF KeptHour, Remains
  <2>5. ~(UnderScript(h) /\ script.at = "orphans") => SameKeys(h)' /\ Counted(h)'
    BY <2>1, <2>2 DEF HourSound
  <2>6. ~(UnderScript(h) /\ script.at = "repriced") => InStep(h)'
    BY <2>1, <2>3 DEF HourSound
  <2>7. UnderScript(h) /\ script.at \in {"found", "orphans"} => KeptHour(h)'
    BY <2>1, <2>4 DEF HourSound
  <2> QED BY <2>1, <2>5, <2>6, <2>7 DEF HourSound
<1> QED BY <1>10, <1>11, <1>14 DEF BooksInv


-----------------------------------------------------------------------------
(* Hours are recomputed from their events.                                 *)

RolledRows(f, part, n) ==
  /\ f = [k \in DOMAIN f |-> f[k]]
  /\ DOMAIN f = {k \in KeysOf(part) : k.hour >= n} \cup DOMAIN hourly
  /\ \A k \in KeysOf(part) : k.hour >= n => f[k] = Sums(RowsOf(part, k))
  /\ \A k \in DOMAIN hourly : ~(k \in KeysOf(part) /\ k.hour >= n) => f[k] = hourly[k]

LEMMA RolledKeys ==
  ASSUME NEW part, \A r \in part : r.ts \in Nat, NEW n \in Nat
  PROVE  RolledRows(RolledUpFrom(part, n * PerHour), part, n)
<1> DEFINE late == {r \in part : r.ts >= n * PerHour}
           g == [k \in {HourKey(r) : r \in late} |-> Sums({r \in late : HourKey(r) = k})]
<1>1. \A r \in part : (r \in late <=> HourKey(r).hour >= n)
  BY HourFrom, KeyIsHours
<1>2. RolledUpFrom(part, n * PerHour) = Overlaid(g, hourly)
  BY DEF RolledUpFrom
<1> HIDE DEF late
<1>3. {HourKey(r) : r \in late} = {k \in KeysOf(part) : k.hour >= n}
  <2>1. late \subseteq part
    BY DEF late
  <2> QED BY <1>1, <2>1 DEF KeysOf
<1>4. ASSUME NEW k \in KeysOf(part), k.hour >= n
      PROVE  {r \in late : HourKey(r) = k} = RowsOf(part, k)
  <2>1. late \subseteq part
    BY DEF late
  <2> QED BY <1>1, <1>4, <2>1 DEF RowsOf
<1>5. /\ DOMAIN g = {k \in KeysOf(part) : k.hour >= n}
      /\ \A k \in DOMAIN g : g[k] = Sums(RowsOf(part, k))
  BY <1>3, <1>4
<1> HIDE DEF g
<1>6. RolledRows(Overlaid(g, hourly), part, n)
  BY <1>5 DEF Overlaid, RolledRows
<1> QED BY <1>2, <1>6

LEMMA RolledTypes ==
  ASSUME BookTypes, NEW part \in SUBSET usage, NEW n \in Nat,
         hourly' = RolledUpFrom(part, n * PerHour)
  PROVE  hourly' \in [DOMAIN hourly' -> [Columns -> Nat]]
<1>1. PICK f : f = RolledUpFrom(part, n * PerHour)
  OBVIOUS
<1>2. \A r \in part : r.ts \in Nat
  BY DEF BookTypes, AttemptRow
<1>3. ASSUME NEW k
      PROVE  Sums(RowsOf(part, k)) \in [Columns -> Nat]
  <2>1. Rows(RowsOf(part, k))
    BY Typed DEF RowsOf
  <2> QED BY <2>1, SumsAreCounts
<1>4. \A k \in DOMAIN hourly : hourly[k] \in [Columns -> Nat]
  BY DEF BookTypes
<1>5. RolledRows(f, part, n)
  BY <1>1, <1>2, RolledKeys
<1>6. \A k \in DOMAIN f : f[k] \in [Columns -> Nat]
  BY <1>3, <1>4, <1>5 DEF RolledRows
<1>7. hourly' = f /\ f = [k \in DOMAIN f |-> f[k]]
  BY <1>1, <1>5 DEF RolledRows
<1> QED BY <1>6, <1>7

LEMMA HealedHour ==
  ASSUME EventsKept, BookTypes, NEW n \in Nat, NEW h \in Healed(n * PerHour)
  PROVE  /\ h \in Nat /\ h >= n
         /\ KeptHour(h)
         /\ KeyedAt(DOMAIN hourly, h) \subseteq KeysOf(usage)
<1>1. /\ \E u \in usage : u.ts >= n * PerHour /\ HourOf(u.ts) = h
      /\ \A k \in DOMAIN hourly : k.hour = h => k \in KeysOf(usage)
  BY DEF Healed, KeysOf
<1>2. PICK u \in usage : u.ts >= n * PerHour /\ HourOf(u.ts) = h
  BY <1>1
<1>3. u.ts \in Nat
  BY DEF BookTypes, AttemptRow
<1>4. h \in Nat /\ h >= n
  BY <1>2, <1>3, HourBounds, HourFrom
<1>5. KeptHour(h)
  BY <1>2, HourWithEvents
<1> QED BY <1>1, <1>4, <1>5 DEF KeyedAt

\* An hour that was right stays so, and one all of whose rows have events is set right.
LEMMA HourRolledUp ==
  ASSUME BookTypes, EventsKept, NEW n \in Nat, NEW h \in Nat,
         hourly' = RolledUpFrom(usage, n * PerHour), UNCHANGED <<usage, recorded>>
  PROVE  /\ h \in Healed(n * PerHour) \/ (SameKeys(h) /\ Counted(h)) => (SameKeys(h) /\ Counted(h))'
         /\ h \in Healed(n * PerHour) \/ n = 0 \/ InStep(h) => InStep(h)'
         /\ h \in Healed(n * PerHour) \/ KeptHour(h) => KeptHour(h)'
<1>1. \A r \in usage : r.ts \in Nat
  BY DEF BookTypes, AttemptRow
<1>2. PICK f : f = RolledUpFrom(usage, n * PerHour)
  OBVIOUS
<1>3. RolledRows(f, usage, n)
  BY <1>1, <1>2, RolledKeys
<1>4. hourly' = f /\ usage' = usage /\ recorded' = recorded
  BY <1>2
<1>5. h \in Healed(n * PerHour) =>
        h >= n /\ KeptHour(h) /\ KeyedAt(DOMAIN hourly, h) \subseteq KeysOf(usage)
  BY HealedHour
<1>6. /\ KeyedAt(KeysOf(usage), h) \subseteq KeyedAt(KeysOf(recorded), h)
      /\ KeptHour(h) => KeyedAt(KeysOf(usage), h) = KeyedAt(KeysOf(recorded), h)
  BY EventKeys
<1>7. ASSUME h \in Healed(n * PerHour) \/ (SameKeys(h) /\ Counted(h))
      PROVE  (SameKeys(h) /\ Counted(h))'
  <2>1. KeyedAt(DOMAIN f, h) = KeyedAt(KeysOf(recorded), h)
    <3>1. CASE h \in Healed(n * PerHour)
      BY <1>3, <1>5, <1>6, <3>1 DEF KeyedAt, RolledRows
    <3>2. CASE SameKeys(h)
      BY <1>3, <1>6, <3>2 DEF KeyedAt, SameKeys, RolledRows
    <3> QED BY <1>7, <3>1, <3>2
  <2>2. ASSUME NEW k \in KeyedAt(KeysOf(recorded), h)
        PROVE  Counts(f[k]) = Counts(Sums(RowsOf(recorded, k)))
    <3>1. k.hour = h /\ k \in DOMAIN f
      BY <2>1, <2>2 DEF KeyedAt, RolledRows
    <3>2. CASE k \in KeysOf(usage) /\ k.hour >= n
      <4>1. f[k] = Sums(RowsOf(usage, k))
        BY <1>3, <3>2 DEF RolledRows
      <4>2. PICK u \in usage : HourKey(u) = k
        BY <3>2 DEF KeysOf
      <4>3. KeptHour(k.hour)
        BY <4>2, HourWithEvents, KeyIsHours
      <4> QED BY <4>1, <4>3, EventTwins
    <3>3. CASE ~(k \in KeysOf(usage) /\ k.hour >= n)
      <4>1. h \notin Healed(n * PerHour)
        <5>1. ASSUME h \in Healed(n * PerHour)
              PROVE  k \in KeysOf(usage) /\ k.hour >= n
          BY <1>5, <1>6, <2>2, <3>1, <5>1 DEF KeyedAt, RolledRows
        <5> QED BY <3>3, <5>1
      <4>2. f[k] = hourly[k]
        BY <1>3, <3>1, <3>3 DEF RolledRows
      <4> QED BY <1>7, <2>2, <4>1, <4>2 DEF Counted
    <3> QED BY <3>2, <3>3
  <2> QED BY <1>4, <2>1, <2>2 DEF SameKeys, Counted
<1>8. ASSUME h \in Healed(n * PerHour) \/ n = 0 \/ InStep(h)
       PROVE  InStep(h)'
  <2> SUFFICES ASSUME NEW k \in KeyedAt(KeysOf(usage), h)
               PROVE  k \in DOMAIN f /\ f[k] = Sums(RowsOf(usage, k))
    BY <1>4 DEF InStep
  <2>1. k \in KeysOf(usage) /\ k.hour = h
    BY DEF KeyedAt, RolledRows
  <2>2. CASE h >= n
    BY <1>3, <2>1, <2>2 DEF RolledRows
  <2>3. CASE ~(h >= n)
    <3>1. InStep(h)
      BY <1>5, <1>8, <2>3
    <3> QED BY <1>3, <2>1, <2>3, <3>1 DEF InStep, RolledRows
  <2> QED BY <2>2, <2>3
<1>9. KeptHour(h)' <=> KeptHour(h)
  BY <1>4 DEF KeptHour, Remains
<1> QED BY <1>5, <1>7, <1>8, <1>9

LEMMA RollUpKeeps ==
  ASSUME BooksInv, RollUp \/ RecomputeAll
  PROVE  BooksInv'
<1>1. BookTypes /\ EventsKept
  BY DEF BooksInv
<1>2. PICK n \in Nat : /\ hourly' = RolledUpFrom(usage, n * PerHour)
                       /\ blurred' = blurred \ Healed(n * PerHour)
                       /\ \/ UNCHANGED script
                          \/ n = 0 /\ script.at # "orphans" /\ script' = NoScript
  <2>1. CASE RollUp
    <3>1. PICK h \in Nat : RollupSince = h * PerHour
      BY <1>1, RoundsByTheHour DEF BookTypes
    <3> QED BY <2>1, <3>1 DEF RollUp, RolledUp
  <2>2. CASE RecomputeAll
    <3>1. 0 * PerHour = 0
      BY BookConstants
    <3> QED BY <2>2, <3>1 DEF RecomputeAll, RolledUp
  <2> QED BY <2>1, <2>2
<1>3. UNCHANGED <<clock, price, usage, recorded, written>>
  BY DEF RollUp, RecomputeAll
<1>4. BookTypes'
  <2>1. hourly' \in [DOMAIN hourly' -> [Columns -> Nat]]
    BY <1>1, <1>2, RolledTypes
  <2>2. script'.at \in {"idle", "found", "orphans", "repriced"} /\ (script'.at = "idle" => script' = NoScript)
    BY <1>1, <1>2 DEF BookTypes, NoScript
  <2> QED BY <1>1, <1>3, <2>1, <2>2 DEF BookTypes, AttemptRow
<1>5. EventsKept'
  BY <1>1, <1>3 DEF EventsKept, Remains
<1>6. ASSUME NEW h \in Nat, h \notin blurred'
      PROVE  HourSound(h)'
  <2>1. h \in blurred => h \in Healed(n * PerHour)
    BY <1>2, <1>6
  <2>2. /\ h \in Healed(n * PerHour) \/ (SameKeys(h) /\ Counted(h)) => (SameKeys(h) /\ Counted(h))'
        /\ h \in Healed(n * PerHour) \/ n = 0 \/ InStep(h) => InStep(h)'
        /\ h \in Healed(n * PerHour) \/ KeptHour(h) => KeptHour(h)'
    BY <1>1, <1>2, <1>3, HourRolledUp
  <2>3. h \notin blurred => HourSound(h)
    BY DEF BooksInv
  <2>4. CASE UNCHANGED script
    BY <2>1, <2>2, <2>3, <2>4 DEF HourSound, UnderScript
  <2>5. CASE n = 0 /\ script.at # "orphans" /\ script' = NoScript
    <3>1. ~UnderScript(h)'
      BY <2>5 DEF UnderScript, NoScript
    <3>2. SameKeys(h)' /\ Counted(h)'
      BY <2>1, <2>2, <2>3, <2>5 DEF HourSound
    <3>3. InStep(h)'
      BY <2>2, <2>5
    <3> QED BY <3>1, <3>2, <3>3 DEF HourSound
  <2> QED BY <1>2, <2>4, <2>5
<1> QED BY <1>4, <1>5, <1>6 DEF BooksInv


-----------------------------------------------------------------------------
(* Events past their age are deleted, by whole hours.                      *)

LEMMA PurgeKeeps ==
  ASSUME BooksInv, Purge
  PROVE  BooksInv'
<1>1. BookTypes /\ EventsKept /\ clock \in Nat
  BY DEF BooksInv, BookTypes
<1>2. PICK n \in Nat : PurgeBefore = n * PerHour /\ n <= HourOf(clock)
  BY <1>1, RoundsByTheHour
<1>3. UNCHANGED <<clock, price, hourly, script, recorded, written>>
  BY DEF Purge
<1>4. \A r \in usage : r.ts \in Nat /\ HourOf(r.ts) \in Nat /\ n * PerHour \in Nat
  BY <1>1, HourBounds, HourFrom DEF BookTypes, AttemptRow
<1>5. \A r \in usage : (r.ts < PurgeBefore <=> ~(HourOf(r.ts) >= n))
  <2> SUFFICES ASSUME NEW r \in usage
               PROVE  r.ts < n * PerHour <=> ~(HourOf(r.ts) >= n)
    BY <1>2
  <2>1. r.ts \in Nat /\ n * PerHour \in Nat
    BY <1>4
  <2>2. r.ts >= n * PerHour <=> HourOf(r.ts) >= n
    BY <2>1, HourFrom
  <2> QED BY <2>1, <2>2
<1>6. usage' = {r \in usage : HourOf(r.ts) >= n}
  BY <1>5 DEF Purge
<1>7. /\ blurred \subseteq blurred'
      /\ script.at \in {"found", "orphans"} =>
           \A r \in usage : ~(HourOf(r.ts) >= n) /\ HourOf(r.ts) \in script.hours => HourOf(r.ts) \in blurred'
  BY <1>5 DEF Purge
<1>8. usage' \in SUBSET usage
  BY <1>6
<1>9. BookTypes'
  <2>1. IsFiniteSet(usage')
    BY <1>1, <1>8, FS_Subset DEF BookTypes
  <2> QED BY <1>1, <1>3, <1>8, <2>1 DEF BookTypes, AttemptRow
\* What stood and is of a late hour does so still.
<1>10. ASSUME NEW r \in recorded, Remains(r), HourOf(r.ts) >= n
       PROVE  Remains(r)'
  <2>1. PICK u \in usage : SameAttempt(u, r)
    BY <1>1, <1>10, RemainsAs
  <2>2. u.id = r.id /\ u.ts = r.ts
    BY <2>1, SameAttemptKey
  <2>3. u \in usage'
    BY <1>6, <1>10, <2>2
  <2> QED BY <2>2, <2>3 DEF Remains
<1>11. EventsKept'
  <2>1. ASSUME NEW u \in usage', NEW r \in recorded', HourOf(u.ts) <= HourOf(r.ts)
        PROVE  Remains(r)'
    <3>1. u \in usage /\ r \in recorded /\ HourOf(u.ts) >= n
      BY <1>3, <1>6
    <3>2. Remains(r)
      BY <1>1, <2>1, <3>1 DEF EventsKept
    <3>3. HourOf(r.ts) \in Nat /\ HourOf(u.ts) \in Nat
      BY <1>1, <3>1, HourBounds DEF BookTypes, AttemptRow
    <3>4. HourOf(r.ts) >= n
      BY <2>1, <3>1, <3>3
    <3> QED BY <1>10, <3>1, <3>2, <3>4
  <2>2. ASSUME NEW r \in recorded', HourOf(r.ts) = HourOf(clock')
        PROVE  Remains(r)'
    <3>1. r \in recorded /\ Remains(r)
      BY <1>1, <1>3, <2>2 DEF EventsKept
    <3>2. HourOf(clock) \in Nat
      BY <1>1, HourBounds
    <3>3. HourOf(r.ts) >= n
      BY <1>2, <1>3, <2>2, <3>2
    <3> QED BY <1>10, <3>1, <3>3
  <2>3. \A u \in usage' : \E r \in recorded' : SameAttempt(u, r)
    BY <1>1, <1>3, <1>8 DEF EventsKept
  <2>4. /\ \A r, q \in usage' : r.id = q.id => r = q
        /\ \A r, q \in recorded' : r.id = q.id => r = q
    BY <1>1, <1>3, <1>8 DEF EventsKept
  <2> QED BY <2>1, <2>2, <2>3, <2>4 DEF EventsKept
<1>12. ASSUME NEW h \in Nat, h \notin blurred'
       PROVE  HourSound(h)'
  <2>1. HourSound(h)
    BY <1>7, <1>12 DEF BooksInv
  <2>2. (UnderScript(h)' <=> UnderScript(h)) /\ script'.at = script.at
    BY <1>3 DEF UnderScript
  <2>3. SameKeys(h) /\ Counted(h) => (SameKeys(h) /\ Counted(h))'
    BY <1>3 DEF SameKeys, Counted
  <2>4. ASSUME InStep(h)
        PROVE  InStep(h)'
    <3> SUFFICES ASSUME NEW k \in KeyedAt(KeysOf(usage'), h)
                 PROVE  k \in DOMAIN hourly /\ hourly[k] = Sums(RowsOf(usage', k))
      BY <1>3 DEF InStep
    <3>1. k.hour = h /\ k \in KeysOf(usage') /\ k \in KeyedAt(KeysOf(usage), h)
      BY <1>8 DEF KeyedAt, KeysOf
    <3>2. PICK u \in usage' : HourKey(u) = k
      BY <3>1 DEF KeysOf
    <3>3. h >= n
      BY <1>6, <3>1, <3>2, KeyIsHours
    <3>4. RowsOf(usage', k) = RowsOf(usage, k)
      BY <1>6, <3>1, <3>3, KeyIsHours DEF RowsOf
    <3> QED BY <2>4, <3>1, <3>4 DEF InStep
  <2>5. ASSUME KeptHour(h), UnderScript(h), script.at \in {"found", "orphans"}
        PROVE  KeptHour(h)'
    <3> SUFFICES ASSUME NEW r \in recorded, HourOf(r.ts) = h
                 PROVE  Remains(r)'
      BY <1>3 DEF KeptHour
    <3>1. Remains(r)
      BY <2>5 DEF KeptHour
    <3>2. PICK u \in usage : SameAttempt(u, r)
      BY <1>1, <3>1, RemainsAs
    <3>3. HourOf(u.ts) = h
      BY <3>2, SameAttemptKey
    <3>4. HourOf(r.ts) >= n
      BY <1>7, <1>12, <2>5, <3>3 DEF UnderScript
    <3> QED BY <1>10, <3>1, <3>4
  <2>6. ~(UnderScript(h) /\ script.at = "orphans") => (SameKeys(h) /\ Counted(h))'
    BY <2>1, <2>3 DEF HourSound
  <2>7. ~(UnderScript(h) /\ script.at = "repriced") => InStep(h)'
    BY <2>1, <2>4 DEF HourSound
  <2>8. UnderScript(h) /\ script.at \in {"found", "orphans"} => KeptHour(h)'
    BY <2>1, <2>5 DEF HourSound
  <2> QED BY <2>2, <2>6, <2>7, <2>8 DEF HourSound
<1> QED BY <1>9, <1>11, <1>12 DEF BooksInv

-----------------------------------------------------------------------------
(* A script deletes failures.                                              *)

\* The largest of numbers that have a bound.
LEMMA LargestNumber ==
  ASSUME NEW S \in SUBSET Nat, S # {}, NEW bound \in Nat, \A x \in S : x <= bound
  PROVE  Max(S) \in S /\ \A y \in S : y <= Max(S)
<1> DEFINE Over == {n \in Nat : \A x \in S : x <= n}
           m == Min(Over)
<1>1. Over \in SUBSET Nat /\ Over # {}
  OBVIOUS
<1>2. m \in Over /\ \A n \in Over : m <= n
  <2> HIDE DEF Over
  <2> QED BY <1>1, LeastNumber
<1> HIDE DEF m
<1>3. m \in Nat /\ \A x \in S : x <= m
  BY <1>2
<1>4. m \in S
  <2> SUFFICES ASSUME m \notin S
               PROVE  FALSE
    OBVIOUS
  <2>1. PICK y \in S : TRUE
    OBVIOUS
  <2>2. m - 1 \in Nat /\ ~(m <= m - 1)
    BY <1>3, <2>1
  <2>3. \A x \in S : x <= m - 1
    BY <1>3
  <2> QED BY <1>2, <2>2, <2>3
<1>5. \E x \in S : \A y \in S : y <= x
  BY <1>3, <1>4
<1> QED BY <1>5 DEF Max

LEMMA SweepBeginsKeeps ==
  ASSUME BooksInv, SweepBegins
  PROVE  BooksInv'
<1>1. BookTypes /\ EventsKept /\ clock \in Nat
  BY DEF BooksInv, BookTypes
<1>2. /\ UNCHANGED <<clock, price, usage, hourly, recorded, blurred, written>> /\ script = NoScript
  BY DEF SweepBegins
<1>3. PICK provider \in {r.provider : r \in {q \in usage : ~q.ok}} :
        script' = [at |-> "found", provider |-> provider,
                   hours |-> Min({HourOf(r.ts) : r \in Failures(provider)}) ..
                             Max({HourOf(r.ts) : r \in Failures(provider)})]
  BY DEF SweepBegins
<1> DEFINE hours == {HourOf(r.ts) : r \in Failures(provider)}
<1>4. script'.at = "found" /\ script'.hours = Min(hours) .. Max(hours)
  BY <1>3
<1>5. \A r \in usage : r.ts \in Nat /\ r.ts <= clock
  BY <1>1 DEF BookTypes, AttemptRow
<1>6. hours \in SUBSET Nat /\ hours # {}
  <2>1. Failures(provider) \subseteq usage /\ Failures(provider) # {}
    BY DEF Failures
  <2> QED BY <1>5, <2>1, HourBounds
<1>7. PICK u \in usage : HourOf(u.ts) = Min(hours)
  <2>1. Min(hours) \in hours
    BY <1>6, LeastNumber
  <2> QED BY <2>1 DEF Failures
<1>8. BookTypes'
  <2>1. script'.at # "idle"
    BY <1>4
  <2> QED BY <1>1, <1>2, <1>4, <2>1 DEF BookTypes, AttemptRow
<1>9. EventsKept'
  BY <1>1, <1>2 DEF EventsKept, Remains
<1>10. ASSUME NEW h \in Nat, h \notin blurred'
       PROVE  HourSound(h)'
  <2>1. SameKeys(h) /\ Counted(h) /\ InStep(h)
    BY <1>2, <1>10 DEF BooksInv, HourSound, UnderScript, NoScript
  <2>2. (SameKeys(h) /\ Counted(h) /\ InStep(h))'
    BY <1>2, <2>1 DEF SameKeys, Counted, InStep
  <2>3. ASSUME h \in Min(hours) .. Max(hours)
        PROVE  KeptHour(h)'
    <3>1. Max(hours) \in Nat /\ Min(hours) \in Nat
      <4>1. \A x \in hours : x <= HourOf(clock)
        BY <1>1, <1>5, HourGrows DEF Failures
      <4>2. HourOf(clock) \in Nat
        BY <1>1, HourBounds
      <4> HIDE DEF hours
      <4> QED BY <1>6, <4>1, <4>2, LargestNumber, LeastNumber
    <3>2. HourOf(u.ts) <= h
      BY <1>7, <2>3, <3>1
    <3>3. \A r \in recorded : HourOf(r.ts) = h => Remains(r)
      BY <1>1, <3>2 DEF EventsKept
    <3> QED BY <1>2, <3>3 DEF KeptHour, Remains
  <2>4. UnderScript(h)' => KeptHour(h)'
    BY <1>4, <2>3 DEF UnderScript
  <2> QED BY <2>2, <2>4 DEF HourSound
<1> QED BY <1>8, <1>9, <1>10 DEF BooksInv

LEMMA SweepDeletesKeeps ==
  ASSUME BooksInv, SweepDeletes
  PROVE  BooksInv'
<1>1. BookTypes /\ EventsKept
  BY DEF BooksInv
<1>2. PICK gone \in SUBSET usage :
        /\ usage' = usage \ gone
        /\ recorded' = {r \in recorded : r.id \notin {g.id : g \in gone}}
        /\ hourly' = RolledUpFrom(usage \ gone, 0)
        /\ blurred' = blurred \cup ({HourOf(r.ts) : r \in gone} \ script.hours)
  BY DEF SweepDeletes, Failures
<1>3. /\ script.at = "found" /\ script' = [script EXCEPT !.at = "orphans"]
      /\ UNCHANGED <<clock, price, written>>
  BY DEF SweepDeletes
<1>4. script'.at = "orphans" /\ script'.hours = script.hours
  BY <1>1, <1>3 DEF BookTypes
<1>5. \A r \in recorded : (r \in recorded' <=> ~ \E g \in gone : g.id = r.id)
  BY <1>2
<1>6. recorded' \in SUBSET recorded /\ usage' \in SUBSET usage
  BY <1>2
\* What is deleted is deleted from both.
<1>7. ASSUME NEW u \in usage, NEW r \in recorded, u.id = r.id
      PROVE  u \in usage' <=> r \in recorded'
  <2>1. u \in gone <=> \E g \in gone : g.id = r.id
    BY <1>1, <1>7 DEF EventsKept
  <2> QED BY <1>2, <1>5, <2>1
<1>8. \A r \in recorded' : Remains(r) => Remains(r)'
  BY <1>6, <1>7 DEF Remains
<1>9. hourly' = RolledUpFrom(usage', 0 * PerHour) /\ \A r \in usage' : r.ts \in Nat
  <2>1. 0 * PerHour = 0
    BY BookConstants
  <2> QED BY <1>1, <1>2, <1>6, <2>1 DEF BookTypes, AttemptRow
<1>10. PICK part : part = usage'
  OBVIOUS
<1>11. hourly' = RolledUpFrom(part, 0 * PerHour) /\ part \in SUBSET usage /\ \A r \in part : r.ts \in Nat
  BY <1>6, <1>9, <1>10
<1>12. RolledRows(hourly', part, 0)
  <2>1. RolledRows(RolledUpFrom(part, 0 * PerHour), part, 0)
    BY <1>11, RolledKeys
  <2>2. PICK f : f = RolledUpFrom(part, 0 * PerHour)
    OBVIOUS
  <2>3. RolledRows(f, part, 0)
    BY <2>1, <2>2
  <2> QED BY <1>11, <2>2, <2>3
<1>13. BookTypes'
  <2>1. hourly' \in [DOMAIN hourly' -> [Columns -> Nat]]
    BY <1>1, <1>11, RolledTypes
  <2>2. IsFiniteSet(usage') /\ IsFiniteSet(recorded')
    BY <1>1, <1>6, FS_Subset DEF BookTypes
  <2> QED BY <1>1, <1>3, <1>4, <1>6, <2>1, <2>2 DEF BookTypes, AttemptRow
<1>14. EventsKept'
  <2>1. ASSUME NEW u \in usage'
        PROVE  \E r \in recorded' : SameAttempt(u, r)
    <3>1. PICK r \in recorded : SameAttempt(u, r)
      BY <1>1, <1>6 DEF EventsKept
    <3> QED BY <1>6, <1>7, <3>1, SameAttemptKey
  <2>2. \A u \in usage', r \in recorded' : HourOf(u.ts) <= HourOf(r.ts) => Remains(r)'
    BY <1>1, <1>6, <1>8 DEF EventsKept
  <2>3. \A r \in recorded' : HourOf(r.ts) = HourOf(clock') => Remains(r)'
    BY <1>1, <1>3, <1>6, <1>8 DEF EventsKept
  <2>4. /\ \A r, q \in usage' : r.id = q.id => r = q
        /\ \A r, q \in recorded' : r.id = q.id => r = q
    BY <1>1, <1>6 DEF EventsKept
  <2> QED BY <2>1, <2>2, <2>3, <2>4 DEF EventsKept
<1>15. ASSUME NEW h \in Nat, h \notin blurred'
       PROVE  HourSound(h)'
  <2>1. HourSound(h) /\ (UnderScript(h)' <=> h \in script.hours) /\ (UnderScript(h) <=> h \in script.hours)
    BY <1>2, <1>3, <1>4, <1>15 DEF BooksInv, UnderScript
  <2>2. SameKeys(h) /\ Counted(h) /\ InStep(h)
    BY <1>3, <2>1 DEF HourSound
  <2>3. \A k \in KeysOf(part) : k.hour \in Nat
    BY <1>11, HourBounds, KeyIsHours DEF KeysOf
  <2>4. \A k \in KeysOf(part) : k \in DOMAIN hourly' /\ hourly'[k] = Sums(RowsOf(part, k))
    <3>1. \A k \in KeysOf(part) : k.hour >= 0
      BY <2>3
    <3> QED BY <1>12, <3>1 DEF RolledRows
  <2>5. InStep(h)'
    BY <1>10, <2>4 DEF InStep, KeyedAt
  <2>6. CASE h \in script.hours
    <3>1. KeptHour(h)
      BY <1>3, <2>1, <2>6 DEF HourSound
    <3>2. KeptHour(h)'
      BY <1>6, <1>8, <3>1 DEF KeptHour
    <3> QED BY <1>4, <2>1, <2>5, <2>6, <3>2 DEF HourSound
  <2>7. CASE h \notin script.hours
    <3>1. ASSUME NEW u \in usage, HourOf(u.ts) = h
          PROVE  u \in usage'
      BY <1>2, <1>15, <2>7, <3>1
    <3>2. ASSUME NEW r \in recorded, HourOf(r.ts) = h
          PROVE  r \in recorded'
      <4> SUFFICES ASSUME NEW g \in gone, g.id = r.id
                   PROVE  FALSE
        BY <1>5
      <4>1. Remains(r) /\ g \in usage
        BY DEF Remains
      <4>2. PICK u \in usage : SameAttempt(u, r)
        BY <1>1, <4>1, RemainsAs
      <4>3. u = g
        BY <1>1, <4>1, <4>2, SameAttemptKey DEF EventsKept
      <4>4. HourOf(g.ts) = h
        BY <3>2, <4>2, <4>3, SameAttemptKey
      <4> QED BY <1>2, <3>1, <4>1, <4>4
    <3>3. ASSUME NEW k, k.hour = h
          PROVE  RowsOf(usage', k) = RowsOf(usage, k) /\ RowsOf(recorded', k) = RowsOf(recorded, k)
      BY <1>6, <3>1, <3>2, <3>3, KeyIsHours DEF RowsOf
    <3>4. /\ KeyedAt(KeysOf(usage'), h) = KeyedAt(KeysOf(usage), h)
          /\ KeyedAt(KeysOf(recorded'), h) = KeyedAt(KeysOf(recorded), h)
      BY <1>6, <3>1, <3>2, KeyIsHours DEF KeyedAt, KeysOf
    <3>5. KeyedAt(KeysOf(usage), h) \subseteq KeyedAt(KeysOf(recorded), h)
      BY <1>1, EventKeys
    <3>6. KeyedAt(DOMAIN hourly', h) = KeyedAt(DOMAIN hourly, h)
      <4>1. DOMAIN hourly' = {k \in KeysOf(part) : k.hour >= 0} \cup DOMAIN hourly
        BY <1>12 DEF RolledRows
      <4>2. KeyedAt(KeysOf(part), h) \subseteq KeyedAt(DOMAIN hourly, h)
        BY <1>10, <2>2, <3>4, <3>5 DEF SameKeys
      <4> QED BY <4>1, <4>2 DEF KeyedAt
    <3>7. ASSUME NEW k \in KeyedAt(DOMAIN hourly, h)
          PROVE  hourly'[k] = hourly[k]
      <4>1. k \in DOMAIN hourly /\ k.hour = h
        BY DEF KeyedAt
      <4>2. CASE k \in KeysOf(part)
        <5>1. hourly'[k] = Sums(RowsOf(usage', k))
          BY <1>10, <2>4, <4>2
        <5>2. k \in KeyedAt(KeysOf(usage), h)
          BY <1>10, <3>4, <4>1, <4>2 DEF KeyedAt
        <5>3. hourly[k] = Sums(RowsOf(usage, k))
          BY <2>2, <5>2 DEF InStep
        <5> QED BY <3>3, <4>1, <5>1, <5>3
      <4>3. CASE k \notin KeysOf(part)
        BY <1>12, <4>1, <4>3 DEF RolledRows
      <4> QED BY <4>2, <4>3
    <3>8. SameKeys(h)'
      BY <2>2, <3>4, <3>6 DEF SameKeys
    <3>9. ASSUME NEW k \in KeyedAt(KeysOf(recorded'), h)
          PROVE  Counts(hourly'[k]) = Counts(Sums(RowsOf(recorded', k)))
      <4>1. k \in KeyedAt(KeysOf(recorded), h) /\ k \in KeyedAt(DOMAIN hourly, h) /\ k.hour = h
        BY <2>2, <3>4 DEF SameKeys, KeyedAt
      <4> QED BY <2>2, <3>3, <3>7, <4>1 DEF Counted
    <3>10. Counted(h)'
      BY <3>9 DEF Counted
    <3> QED BY <2>1, <2>5, <2>7, <3>8, <3>10 DEF HourSound
  <2> QED BY <2>6, <2>7
<1> QED BY <1>13, <1>14, <1>15 DEF BooksInv


LEMMA SweepOrphansKeeps ==
  ASSUME BooksInv, SweepOrphans
  PROVE  BooksInv'
<1>1. BookTypes /\ EventsKept
  BY DEF BooksInv
<1>2. /\ script.at = "orphans" /\ script' = NoScript
      /\ UNCHANGED <<clock, price, usage, recorded, blurred, written>>
      /\ DOMAIN hourly' = DOMAIN hourly \ Orphans
      /\ \A k \in DOMAIN hourly' : hourly'[k] = hourly[k]
      /\ hourly' = [k \in DOMAIN hourly' |-> hourly'[k]]
  BY DEF SweepOrphans
<1>3. \A k \in DOMAIN hourly : (k \in Orphans <=> k.hour \in script.hours /\ k \notin KeysOf(usage))
  BY DEF Orphans, KeysOf
<1>4. BookTypes'
  <2>1. \A k \in DOMAIN hourly' : hourly'[k] \in [Columns -> Nat]
    BY <1>1, <1>2 DEF BookTypes
  <2>2. hourly' \in [DOMAIN hourly' -> [Columns -> Nat]]
    BY <1>2, <2>1
  <2>3. script'.at = "idle"
    BY <1>2 DEF NoScript
  <2> QED BY <1>1, <1>2, <2>2, <2>3 DEF BookTypes, AttemptRow
<1>5. EventsKept'
  BY <1>1, <1>2 DEF EventsKept, Remains
<1>6. ASSUME NEW h \in Nat, h \notin blurred'
      PROVE  HourSound(h)'
  <2>1. HourSound(h) /\ ~UnderScript(h)' /\ (UnderScript(h) <=> h \in script.hours)
    BY <1>2, <1>6 DEF BooksInv, UnderScript, NoScript
  <2>2. InStep(h)
    BY <1>2, <2>1 DEF HourSound
  <2>3. InStep(h)'
    <3> SUFFICES ASSUME NEW k \in KeyedAt(KeysOf(usage), h)
                 PROVE  k \in DOMAIN hourly' /\ hourly'[k] = Sums(RowsOf(usage, k))
      BY <1>2 DEF InStep
    <3>1. k \in KeysOf(usage) /\ k \in DOMAIN hourly /\ hourly[k] = Sums(RowsOf(usage, k))
      BY <2>2 DEF InStep, KeyedAt
    <3> QED BY <1>2, <1>3, <3>1
  <2>4. CASE h \in script.hours
    <3>1. KeptHour(h)
      BY <1>2, <2>1, <2>4 DEF HourSound
    <3>2. KeyedAt(KeysOf(usage), h) = KeyedAt(KeysOf(recorded), h)
      BY <1>1, <3>1, EventKeys
    <3>3. KeyedAt(DOMAIN hourly', h) = KeyedAt(KeysOf(usage), h)
      BY <1>2, <1>3, <2>2, <2>4 DEF InStep, KeyedAt
    <3>4. ASSUME NEW k \in KeyedAt(KeysOf(recorded), h)
          PROVE  Counts(hourly'[k]) = Counts(Sums(RowsOf(recorded, k)))
      <4>1. hourly'[k] = Sums(RowsOf(usage, k)) /\ k.hour = h
        BY <1>2, <2>3, <3>2 DEF InStep, KeyedAt
      <4> QED BY <1>1, <3>1, <4>1, EventTwins
    <3>5. SameKeys(h)' /\ Counted(h)'
      BY <1>2, <3>2, <3>3, <3>4 DEF SameKeys, Counted
    <3> QED BY <2>1, <2>3, <3>5 DEF HourSound
  <2>5. CASE h \notin script.hours
    <3>1. SameKeys(h) /\ Counted(h)
      BY <2>1, <2>5 DEF HourSound
    <3>2. KeyedAt(DOMAIN hourly', h) = KeyedAt(DOMAIN hourly, h)
      BY <1>2, <1>3, <2>5 DEF KeyedAt
    <3>3. SameKeys(h)'
      BY <1>2, <3>1, <3>2 DEF SameKeys
    <3>4. ASSUME NEW k \in KeyedAt(KeysOf(recorded), h)
          PROVE  hourly'[k] = hourly[k]
      BY <1>2, <3>1, <3>2 DEF SameKeys, KeyedAt
    <3>5. Counted(h)'
      BY <1>2, <3>1, <3>4 DEF Counted
    <3> QED BY <2>1, <2>3, <3>3, <3>5 DEF HourSound
  <2> QED BY <2>4, <2>5
<1> QED BY <1>4, <1>5, <1>6 DEF BooksInv

-----------------------------------------------------------------------------
(* The cost of every event is estimated anew.                              *)

LEMMA SameButCost ==
  ASSUME BookTypes, NEW r \in usage
  PROVE  SameAttempt(Repriced(r), r) /\ AttemptRow(Repriced(r))
<1> DEFINE c == CostAt(r, price)
<1>1. AttemptRow(r) /\ price \in Nat
  BY BookConstants DEF BookTypes
<1>2. CASE c = Null
  BY <1>1, <1>2 DEF Repriced, SameAttempt
<1>3. CASE c # Null
  <2>1. c \in Nat
    <3>1. r.output_tokens # Null /\ c = price * r.output_tokens
      BY <1>3 DEF CostAt
    <3>2. OrZero(r["output_tokens"]) \in Nat
      BY <1>1 DEF AttemptRow, Summed
    <3>3. r.output_tokens \in Nat
      BY <3>1, <3>2 DEF OrZero
    <3> QED BY <1>1, <3>1, <3>3
  <2> HIDE DEF c
  <2>2. Repriced(r) = [r EXCEPT !.cost = c]
    BY <1>3 DEF Repriced, c
  <2>3. /\ DOMAIN Repriced(r) = DOMAIN r /\ "cost" \in DOMAIN Repriced(r)
        /\ Repriced(r)["cost"] = c
        /\ \A field \in DOMAIN r : field # "cost" => Repriced(r)[field] = r[field]
    BY <1>1, <2>2 DEF AttemptRow
  <2> DEFINE q == [r EXCEPT !.cost = c]
  <2>4. /\ q.id = r.id /\ q.ts = r.ts /\ q.ok = r.ok
        /\ q.username = r.username /\ q.provider = r.provider /\ q.model = r.model
        /\ q.output_tokens = r.output_tokens /\ q.latency_ms = r.latency_ms /\ q.ttfb_ms = r.ttfb_ms
    OBVIOUS
  <2> HIDE DEF q
  <2>5. SameAttempt(q, r)
    BY <2>4 DEF SameAttempt
  <2>6. OrZero(c) \in Nat
    BY <2>1 DEF OrZero
  <2>7. AttemptRow(q)
    <3>1. q = Repriced(r)
      BY <2>2 DEF q
    <3>2. q["cost"] = c /\ q["output_tokens"] = r["output_tokens"]
          /\ q["latency_ms"] = r["latency_ms"] /\ q["ttfb_ms"] = r["ttfb_ms"]
      BY <2>3, <2>4, <3>1
    <3>3. \A column \in Summed : OrZero(q[column]) \in Nat
      BY <1>1, <2>6, <3>2 DEF AttemptRow, Summed
    <3> QED BY <1>1, <2>3, <2>4, <3>1, <3>3 DEF AttemptRow
  <2> QED BY <2>2, <2>5, <2>7 DEF q
<1> QED BY <1>2, <1>3

LEMMA RepriceKeeps ==
  ASSUME BooksInv, Reprice
  PROVE  BooksInv'
<1>1. BookTypes /\ EventsKept
  BY DEF BooksInv
<1>2. /\ script = NoScript /\ UNCHANGED <<clock, price, hourly, recorded, blurred, written>>
      /\ usage' = {Repriced(r) : r \in usage}
      /\ script'.at = "repriced"
      /\ script'.hours = {HourOf(r.ts) : r \in {q \in usage : Repriced(q) # q}}
  BY DEF Reprice
<1>3. \A r \in usage : SameAttempt(Repriced(r), r) /\ AttemptRow(Repriced(r)) /\ Repriced(r).id = r.id
                       /\ Repriced(r).ts = r.ts
  BY <1>1, SameButCost, SameAttemptKey
<1>4. BookTypes'
  <2>1. IsFiniteSet(usage')
    <3> DEFINE f == [r \in usage |-> Repriced(r)]
    <3>1. f \in Surjection(usage, usage')
      BY <1>2 DEF Surjection
    <3>2. IsFiniteSet(usage)
      BY <1>1 DEF BookTypes
    <3> HIDE DEF f
    <3> QED BY <3>1, <3>2, FS_Surjection
  <2>2. \A r \in (usage \cup recorded)' : AttemptRow(r)
    BY <1>1, <1>2, <1>3 DEF BookTypes
  <2>3. \A r \in (usage \cup recorded)' : AttemptRow(r)'
    BY <1>2, <2>2 DEF AttemptRow
  <2> QED BY <1>1, <1>2, <2>1, <2>3 DEF BookTypes
<1>5. EventsKept'
  <2>1. \A u \in usage' : \E v \in usage : SameAttempt(u, v)
    BY <1>2, <1>3
  <2>2. \A r : Remains(r) => Remains(r)'
    BY <1>2, <1>3 DEF Remains
  <2>3. \A u, v \in usage' : u.id = v.id => u = v
    BY <1>1, <1>2, <1>3 DEF EventsKept
  <2>4. \A u \in usage' : \E r \in recorded' : SameAttempt(u, r)
    BY <1>1, <1>2, <2>1 DEF EventsKept, SameAttempt
  <2>5. \A u \in usage', r \in recorded' : HourOf(u.ts) <= HourOf(r.ts) => Remains(r)'
    BY <1>1, <1>2, <2>1, <2>2 DEF EventsKept, SameAttempt
  <2>6. \A r \in recorded' : HourOf(r.ts) = HourOf(clock') => Remains(r)'
    BY <1>1, <1>2, <2>2 DEF EventsKept
  <2> QED BY <1>1, <1>2, <2>3, <2>4, <2>5, <2>6 DEF EventsKept
<1>6. ASSUME NEW h \in Nat, h \notin blurred'
      PROVE  HourSound(h)'
  <2>1. SameKeys(h) /\ Counted(h) /\ InStep(h)
    BY <1>2, <1>6 DEF BooksInv, HourSound, UnderScript, NoScript
  <2>2. SameKeys(h)' /\ Counted(h)'
    BY <1>2, <2>1 DEF SameKeys, Counted
  <2>3. UnderScript(h)' <=> h \in script'.hours
    BY <1>2 DEF UnderScript
  <2>4. ASSUME h \notin script'.hours
        PROVE  InStep(h)'
    <3>1. \A r \in usage : HourOf(r.ts) = h => Repriced(r) = r
      BY <1>2, <2>4
    <3>2. \A r : HourOf(r.ts) = h => (r \in usage' <=> r \in usage)
      BY <1>2, <1>3, <3>1
    <3>3. KeyedAt(KeysOf(usage'), h) = KeyedAt(KeysOf(usage), h)
      BY <3>2, KeyIsHours DEF KeyedAt, KeysOf
    <3>4. \A k : k.hour = h => RowsOf(usage', k) = RowsOf(usage, k)
      BY <3>2, KeyIsHours DEF RowsOf
    <3> QED BY <1>2, <2>1, <3>3, <3>4 DEF InStep, KeyedAt
  <2> QED BY <1>2, <2>2, <2>3, <2>4 DEF HourSound
<1> QED BY <1>4, <1>5, <1>6 DEF BooksInv

-----------------------------------------------------------------------------
(* The other steps, and the result.                                        *)

LEMMA BooksBegin == BooksInit => BooksInv
<1> SUFFICES ASSUME BooksInit
             PROVE  BooksInv
  OBVIOUS
<1>1. /\ clock = 0 /\ price \in Prices /\ usage = {} /\ hourly = <<>> /\ recorded = {} /\ written = 0
      /\ script = NoScript
  BY DEF BooksInit
<1>2. DOMAIN hourly = {} /\ hourly = [k \in {} |-> hourly[k]]
  BY <1>1
<1>3. BookTypes
  <2>1. IsFiniteSet({})
    BY FS_EmptySet
  <2>2. hourly \in [DOMAIN hourly -> [Columns -> Nat]]
    BY <1>2
  <2> QED BY <1>1, <2>1, <2>2 DEF BookTypes, NoScript
<1>4. EventsKept
  BY <1>1 DEF EventsKept
<1>5. \A h : SameKeys(h) /\ Counted(h) /\ InStep(h) /\ ~UnderScript(h)
  BY <1>1, <1>2 DEF SameKeys, Counted, InStep, KeyedAt, KeysOf, UnderScript, NoScript
<1> QED BY <1>3, <1>4, <1>5 DEF BooksInv, HourSound

\* The tables, the script and the history are all that the invariant is about.
LEMMA BooksRest ==
  ASSUME BooksInv, UNCHANGED <<clock, usage, hourly, script, recorded, written, blurred>>, price' \in Prices
  PROVE  BooksInv'
<1>1. BookTypes'
  BY DEF BooksInv, BookTypes, AttemptRow
<1>2. EventsKept'
  BY DEF BooksInv, EventsKept, Remains
<1>3. ASSUME NEW h \in Nat, h \notin blurred'
      PROVE  HourSound(h)'
  <2>1. HourSound(h)
    BY <1>3 DEF BooksInv
  <2>2. (SameKeys(h) /\ Counted(h) => (SameKeys(h) /\ Counted(h))') /\ (InStep(h) => InStep(h)')
        /\ (KeptHour(h) => KeptHour(h)') /\ (UnderScript(h) <=> UnderScript(h)')
    BY DEF SameKeys, Counted, InStep, KeptHour, UnderScript, Remains
  <2> QED BY <2>1, <2>2 DEF HourSound
<1> QED BY <1>1, <1>2, <1>3 DEF BooksInv

LEMMA ScriptDiesKeeps ==
  ASSUME BooksInv, ScriptDies
  PROVE  BooksInv'
<1>1. /\ script # NoScript /\ script' = NoScript
      /\ blurred' = blurred \cup (IF script.at = "found" THEN {} ELSE script.hours)
      /\ UNCHANGED <<clock, price, usage, hourly, recorded, written>>
  BY DEF ScriptDies
<1>2. BookTypes'
  BY <1>1 DEF BooksInv, BookTypes, AttemptRow, NoScript
<1>3. EventsKept'
  BY <1>1 DEF BooksInv, EventsKept, Remains
<1>4. ASSUME NEW h \in Nat, h \notin blurred'
      PROVE  HourSound(h)'
  <2>1. HourSound(h) /\ ~UnderScript(h)' /\ (UnderScript(h) => script.at = "found")
    BY <1>1, <1>4 DEF BooksInv, UnderScript, NoScript
  <2>2. SameKeys(h) /\ Counted(h) /\ InStep(h)
    BY <2>1 DEF HourSound
  <2>3. SameKeys(h)' /\ Counted(h)' /\ InStep(h)'
    BY <1>1, <2>2 DEF SameKeys, Counted, InStep
  <2> QED BY <2>1, <2>3 DEF HourSound
<1> QED BY <1>2, <1>3, <1>4 DEF BooksInv

LEMMA ClockTicksKeeps ==
  ASSUME BooksInv, ClockTicks
  PROVE  BooksInv'
<1>1. BookTypes /\ EventsKept /\ clock \in Nat
  BY DEF BooksInv, BookTypes
<1>2. clock' = clock + 1 /\ UNCHANGED <<price, usage, hourly, script, recorded, blurred, written>>
  BY DEF ClockTicks
<1>3. BookTypes'
  <2>1. \A r \in usage \cup recorded : r.ts \in Nat /\ r.ts <= clock + 1
    BY <1>1 DEF BookTypes, AttemptRow
  <2>2. \A r \in usage \cup recorded : AttemptRow(r)'
    BY <1>1, <1>2, <2>1 DEF BookTypes, AttemptRow
  <2>3. clock' \in Nat
    BY <1>1, <1>2
  <2> QED BY <1>1, <1>2, <2>2, <2>3 DEF BookTypes
<1>4. EventsKept'
  <2>1. ASSUME NEW r \in recorded, HourOf(r.ts) = HourOf(clock + 1)
        PROVE  Remains(r)
    <3>1. r.ts \in Nat /\ r.ts <= clock /\ clock <= clock + 1 /\ clock + 1 \in Nat
      BY <1>1 DEF BookTypes, AttemptRow
    <3>2. HourOf(r.ts) <= HourOf(clock) /\ HourOf(clock) <= HourOf(clock + 1)
      BY <1>1, <3>1, HourGrows
    <3>3. HourOf(r.ts) \in Nat /\ HourOf(clock) \in Nat
      BY <1>1, <3>1, HourBounds
    <3>4. HourOf(r.ts) = HourOf(clock)
      BY <2>1, <3>2, <3>3
    <3> QED BY <1>1, <3>4 DEF EventsKept
  <2> QED BY <1>1, <1>2, <2>1 DEF EventsKept, Remains
<1>5. ASSUME NEW h \in Nat, h \notin blurred'
      PROVE  HourSound(h)'
  <2>1. HourSound(h)
    BY <1>2, <1>5 DEF BooksInv
  <2>2. (SameKeys(h) /\ Counted(h) => (SameKeys(h) /\ Counted(h))') /\ (InStep(h) => InStep(h)')
        /\ (KeptHour(h) => KeptHour(h)') /\ (UnderScript(h) <=> UnderScript(h)')
    BY <1>2 DEF SameKeys, Counted, InStep, KeptHour, UnderScript, Remains
  <2> QED BY <1>2, <2>1, <2>2 DEF HourSound
<1> QED BY <1>3, <1>4, <1>5 DEF BooksInv

BooksStep ==
  RecordAny \/ ScriptStep \/ ClockTicks \/ PricesMove \/ TidyBegins \/ TidyStep \/ TidyLeaves \/ BooksStart

LEMMA BooksGoOn == BooksInv /\ (BooksStep \/ UNCHANGED bookVars) => BooksInv'
<1> SUFFICES ASSUME BooksInv, BooksStep \/ UNCHANGED bookVars
             PROVE  BooksInv'
  OBVIOUS
<1>1. CASE RecordAny
  BY <1>1, AttemptRecorded DEF RecordAny
<1>2. CASE SweepBegins
  BY <1>2, SweepBeginsKeeps
<1>3. CASE SweepDeletes
  BY <1>3, SweepDeletesKeeps
<1>4. CASE SweepOrphans
  BY <1>4, SweepOrphansKeeps
<1>5. CASE Reprice
  BY <1>5, RepriceKeeps
<1>6. CASE RollUp \/ RecomputeAll
  BY <1>6, RollUpKeeps
<1>7. CASE ScriptDies
  BY <1>7, ScriptDiesKeeps
<1>8. CASE Purge
  BY <1>8, PurgeKeeps
<1>9. CASE ClockTicks
  BY <1>9, ClockTicksKeeps
<1>10. CASE PricesMove \/ TidyBegins \/ TidyLeaves \/ BooksStart \/ UNCHANGED bookVars
  <2>1. UNCHANGED <<clock, usage, hourly, script, recorded, written, blurred>>
    BY <1>10 DEF PricesMove, TidyBegins, TidyLeaves, BooksStart, bookVars
  <2>2. price' \in Prices
    BY <1>10 DEF PricesMove, TidyBegins, TidyLeaves, BooksStart, bookVars, BooksInv, BookTypes
  <2> QED BY <2>1, <2>2, BooksRest
<1> QED BY <1>1, <1>2, <1>3, <1>4, <1>5, <1>6, <1>7, <1>8, <1>9, <1>10 DEF BooksStep, ScriptStep, TidyStep

LEMMA BooksWhole == BooksInv => AllHoursComplete
<1> SUFFICES ASSUME BooksInv, NEW h \in Hours, Settled(h)
             PROVE  HourComplete(h)
  BY DEF AllHoursComplete
<1>1. h \in Nat
  BY HourBounds, BookConstants DEF Hours
<1>2. SameKeys(h) /\ Counted(h) /\ InStep(h)
  BY <1>1 DEF BooksInv, HourSound, Settled, UnderScript
<1>3. ASSUME NEW k \in KeyedAt(KeysOf(recorded), h), RowsOf(usage, k) # {}
      PROVE  hourly[k] = Sums(RowsOf(usage, k))
  <2>1. k \in KeyedAt(KeysOf(usage), h)
    BY <1>3 DEF KeyedAt, KeysOf, RowsOf
  <2> QED BY <1>2, <2>1 DEF InStep
<1> QED BY <1>2, <1>3 DEF HourComplete, SameKeys, Counted, KeysOf, RowsOf

-----------------------------------------------------------------------------
(* More about sums: of parts, of groups, of what is alike.                 *)

LEMMA SmallestFirst ==
  ASSUME NEW S, IsFiniteSet(S), NEW Good, {} \in Good,
         \A s \in SUBSET S : s # {} /\ s \ {First(s)} \in Good => s \in Good
  PROVE  \A s \in SUBSET S : s \in Good
<1> DEFINE Bad == {n \in Nat : \E s \in SUBSET S : Cardinality(s) = n /\ s \notin Good}
<1>1. ASSUME Bad # {}
      PROVE  FALSE
  <2> DEFINE m == Min(Bad)
  <2>1. m \in Bad /\ \A n \in Bad : m <= n
    <3>1. Bad \in SUBSET Nat
      OBVIOUS
    <3> HIDE DEF Bad
    <3> QED BY <1>1, <3>1, LeastNumber
  <2> HIDE DEF m
  <2>2. PICK s \in SUBSET S : Cardinality(s) = m /\ s \notin Good
    BY <2>1
  <2>3. PICK x \in s : x = First(s)
    BY <2>2, FirstIsIn
  <2>4. PICK r : r = s \ {x}
    OBVIOUS
  <2>5. Cardinality(r) = m - 1 /\ Cardinality(r) \in Nat /\ m \in Nat
    BY <2>1, <2>2, <2>4, FS_Subset, FS_RemoveElement, FS_CardinalityType
  <2>6. m - 1 \notin Bad /\ m - 1 \in Nat
    BY <2>1, <2>5
  <2>7. r \in SUBSET S
    BY <2>4
  <2>8. r \in Good
    BY <2>5, <2>6, <2>7
  <2> QED BY <2>2, <2>3, <2>4, <2>8
<1>2. \A s \in SUBSET S : Cardinality(s) \in Nat
  BY FS_Subset, FS_CardinalityType
<1> QED BY <1>1, <1>2

LEMMA TotalChange ==
  ASSUME NEW v, NEW w, NEW S, Numbers(v, S), NEW x \in S, NEW d \in Nat,
         w[x] = v[x] + d, \A y \in S \ {x} : w[y] = v[y]
  PROVE  Numbers(w, S) /\ SumFunctionOnSet(w, S) = SumFunctionOnSet(v, S) + d
<1>1. Numbers(w, S)
  BY DEF Numbers
<1>2. PICK T : T = S \ {x}
  OBVIOUS
<1>3. Numbers(v, T) /\ \A y \in T : v[y] = w[y]
  BY <1>2, FS_Subset DEF Numbers
<1>4. PICK n : n = SumFunctionOnSet(v, T)
  OBVIOUS
<1>5. n = SumFunctionOnSet(w, T) /\ n \in Nat
  BY <1>3, <1>4, TotalSame, TotalSplits
<1>6. SumFunctionOnSet(w, S) = w[x] + n /\ SumFunctionOnSet(v, S) = v[x] + n
  <2>1. SumFunctionOnSet(w, S) = w[x] + SumFunctionOnSet(w, T)
    BY <1>1, <1>2, TotalSplits
  <2>2. SumFunctionOnSet(v, S) = v[x] + SumFunctionOnSet(v, T)
    BY <1>2, TotalSplits
  <2> QED BY <1>4, <1>5, <2>1, <2>2
<1>7. v[x] \in Nat
  BY DEF Numbers
<1>8. (v[x] + d) + n = (v[x] + n) + d
  BY <1>5, <1>7
<1> QED BY <1>1, <1>6, <1>8

LEMMA TotalZero ==
  ASSUME NEW v, NEW S, IsFiniteSet(S), \A x \in S : v[x] = 0
  PROVE  SumFunctionOnSet(v, S) = 0
<1>1. PICK Good : Good = {s \in SUBSET S : SumFunctionOnSet(v, s) = 0}
  OBVIOUS
<1>2. {} \in Good
  BY <1>1, TotalOfNone
<1>3. ASSUME NEW s \in SUBSET S, NEW x \in S, s \in Good, x \notin s
      PROVE  s \cup {x} \in Good
  <2>1. Numbers(v, s)
    BY FS_Subset DEF Numbers
  <2>2. SumFunctionOnSet(v, s \cup {x}) = SumFunctionOnSet(v, s) + v[x]
    BY <1>3, <2>1, TotalWith
  <2>3. v[x] = 0 /\ SumFunctionOnSet(v, s) = 0
    BY <1>1, <1>3
  <2> QED BY <1>1, <1>3, <2>2, <2>3
<1>4. S \in Good
  BY <1>2, <1>3, OneByOne
<1> QED BY <1>1, <1>4

\* The sum of two parts.
LEMMA TotalOfBoth ==
  ASSUME NEW v, NEW S, NEW T, Numbers(v, S), Numbers(v, T), S \cap T = {}
  PROVE  SumFunctionOnSet(v, S \cup T) = SumFunctionOnSet(v, S) + SumFunctionOnSet(v, T)
<1>1. PICK Good : Good = {s \in SUBSET T : Numbers(v, S \cup s) /\
                            SumFunctionOnSet(v, S \cup s) = SumFunctionOnSet(v, S) + SumFunctionOnSet(v, s)}
  OBVIOUS
<1>2. PICK n \in Nat : n = SumFunctionOnSet(v, S)
  BY TotalSplits
<1>3. {} \in Good
  <2>1. S \cup {} = S /\ n + 0 = n
    OBVIOUS
  <2> QED BY <1>1, <1>2, <2>1, TotalOfNone
<1>4. ASSUME NEW s \in SUBSET T, NEW x \in T, s \in Good, x \notin s
      PROVE  s \cup {x} \in Good
  <2>1. PICK both : both = S \cup s
    OBVIOUS
  <2>2. Numbers(v, both) /\ SumFunctionOnSet(v, both) = n + SumFunctionOnSet(v, s)
    BY <1>1, <1>2, <1>4, <2>1
  <2>3. x \notin both /\ v[x] \in Nat /\ both \cup {x} = S \cup (s \cup {x})
    BY <1>4, <2>1 DEF Numbers
  <2>4. Numbers(v, s)
    BY FS_Subset DEF Numbers
  <2>5. PICK k \in Nat : k = SumFunctionOnSet(v, s)
    BY <2>4, TotalSplits
  <2>6. /\ Numbers(v, both \cup {x})
        /\ SumFunctionOnSet(v, both \cup {x}) = (n + k) + v[x]
    BY <2>2, <2>3, <2>5, TotalWith
  <2>7. SumFunctionOnSet(v, s \cup {x}) = k + v[x]
    BY <1>4, <2>3, <2>4, <2>5, TotalWith
  <2>8. (n + k) + v[x] = n + (k + v[x])
    BY <2>3
  <2> QED BY <1>1, <1>2, <1>4, <2>3, <2>6, <2>7, <2>8
<1>5. T \in Good
  BY <1>3, <1>4, OneByOne DEF Numbers
<1> QED BY <1>1, <1>5

LEMMA TotalOfPart ==
  ASSUME NEW v, NEW S, Numbers(v, S), NEW T \in SUBSET S
  PROVE  /\ Numbers(v, T) /\ SumFunctionOnSet(v, T) \in Nat
         /\ SumFunctionOnSet(v, T) <= SumFunctionOnSet(v, S)
<1>1. PICK R : R = S \ T
  OBVIOUS
<1>2. Numbers(v, T) /\ Numbers(v, R) /\ T \cap R = {} /\ T \cup R = S
  BY <1>1, FS_Subset DEF Numbers
<1>3. SumFunctionOnSet(v, S) = SumFunctionOnSet(v, T) + SumFunctionOnSet(v, R)
  BY <1>2, TotalOfBoth
<1>4. SumFunctionOnSet(v, T) \in Nat /\ SumFunctionOnSet(v, R) \in Nat
  BY <1>2, TotalSplits
<1> QED BY <1>2, <1>3, <1>4

Having(g, S, h) == {x \in S : g[x] = h}
Groups(v, S, g, G) == [h \in G |-> SumFunctionOnSet(v, {x \in S : g[x] = h})]

\* The sums of groups sum up to the sum of all.
LEMMA TotalParted ==
  ASSUME NEW v, NEW S, Numbers(v, S), NEW g, NEW G, IsFiniteSet(G), \A x \in S : g[x] \in G
  PROVE  /\ Numbers(Groups(v, S, g, G), G)
         /\ SumFunctionOnSet(Groups(v, S, g, G), G) = SumFunctionOnSet(v, S)
<1>1. ASSUME NEW s \in SUBSET S
      PROVE  /\ Numbers(Groups(v, s, g, G), G)
             /\ \A h \in G : /\ Groups(v, s, g, G)[h] = SumFunctionOnSet(v, {x \in s : g[x] = h})
                             /\ Numbers(v, {x \in s : g[x] = h})
  <2>1. ASSUME NEW h \in G
        PROVE  /\ Groups(v, s, g, G)[h] = SumFunctionOnSet(v, {x \in s : g[x] = h})
               /\ Numbers(v, {x \in s : g[x] = h})
               /\ Groups(v, s, g, G)[h] \in Nat
    <3>1. Numbers(v, {x \in s : g[x] = h})
      <4>1. {x \in s : g[x] = h} \in SUBSET S
        OBVIOUS
      <4> QED BY <4>1, FS_Subset DEF Numbers
    <3>2. Groups(v, s, g, G)[h] = SumFunctionOnSet(v, {x \in s : g[x] = h})
      BY DEF Groups
    <3> QED BY <3>1, <3>2, TotalSplits
  <2> QED BY <2>1 DEF Numbers
<1>2. PICK Good : Good = {s \in SUBSET S : SumFunctionOnSet(Groups(v, s, g, G), G) = SumFunctionOnSet(v, s)}
  OBVIOUS
<1>3. {} \in Good
  <2>1. \A h \in G : Groups(v, {}, g, G)[h] = 0
    <3> SUFFICES ASSUME NEW h \in G
                 PROVE  Groups(v, {}, g, G)[h] = 0
      OBVIOUS
    <3>1. {x \in {} : g[x] = h} = {}
      OBVIOUS
    <3> QED BY <1>1, <3>1, TotalOfNone
  <2>2. SumFunctionOnSet(Groups(v, {}, g, G), G) = 0
    BY <2>1, TotalZero
  <2> QED BY <1>2, <2>2, TotalOfNone
<1>4. ASSUME NEW s \in SUBSET S, NEW x \in S, s \in Good, x \notin s
      PROVE  s \cup {x} \in Good
  <2>1. PICK a : a = Groups(v, s, g, G)
    OBVIOUS
  <2>2. PICK more \in SUBSET S : more = s \cup {x}
    OBVIOUS
  <2>3. PICK b : b = Groups(v, more, g, G)
    OBVIOUS
  <2>4. g[x] \in G /\ v[x] \in Nat
    BY DEF Numbers
  <2>5. Numbers(a, G)
    BY <1>1, <2>1
  <2>6. b[g[x]] = a[g[x]] + v[x]
    <3>1. PICK P : P = {y \in s : g[y] = g[x]}
      OBVIOUS
    <3>2. {y \in more : g[y] = g[x]} = P \cup {x} /\ x \notin P
      BY <1>4, <2>2, <3>1
    <3>3. Numbers(v, P) /\ a[g[x]] = SumFunctionOnSet(v, P)
      BY <1>1, <2>1, <2>4, <3>1
    <3>4. b[g[x]] = SumFunctionOnSet(v, P \cup {x})
      BY <1>1, <2>3, <2>4, <3>2
    <3> QED BY <2>4, <3>2, <3>3, <3>4, TotalWith
  <2>7. ASSUME NEW h \in G \ {g[x]}
        PROVE  b[h] = a[h]
    <3>1. {y \in more : g[y] = h} = {y \in s : g[y] = h}
      BY <2>2
    <3>2. h \in G
      OBVIOUS
    <3>3. a[h] = SumFunctionOnSet(v, {y \in s : g[y] = h})
      BY <1>1, <2>1, <3>2
    <3>4. b[h] = SumFunctionOnSet(v, {y \in more : g[y] = h})
      BY <1>1, <2>3, <3>2
    <3> QED BY <3>1, <3>3, <3>4
  <2>8. SumFunctionOnSet(b, G) = SumFunctionOnSet(a, G) + v[x]
    BY <2>4, <2>5, <2>6, <2>7, TotalChange
  <2>9. Numbers(v, s)
    BY FS_Subset DEF Numbers
  <2>10. SumFunctionOnSet(v, more) = SumFunctionOnSet(v, s) + v[x]
    BY <1>4, <2>2, <2>4, <2>9, TotalWith
  <2>11. SumFunctionOnSet(a, G) = SumFunctionOnSet(v, s)
    BY <1>2, <1>4, <2>1
  <2> QED BY <1>2, <2>2, <2>3, <2>8, <2>10, <2>11
<1>5. S \in Good
  BY <1>3, <1>4, OneByOne DEF Numbers
<1> QED BY <1>1, <1>2, <1>5

\* A count is a sum of ones.
LEMMA CountIsTotal ==
  ASSUME NEW v, NEW S, IsFiniteSet(S), \A x \in S : v[x] = 1
  PROVE  Numbers(v, S) /\ SumFunctionOnSet(v, S) = Cardinality(S)
<1>1. PICK Good : Good = {s \in SUBSET S : SumFunctionOnSet(v, s) = Cardinality(s)}
  OBVIOUS
<1>2. {} \in Good
  BY <1>1, TotalOfNone, FS_EmptySet
<1>3. ASSUME NEW s \in SUBSET S, NEW x \in S, s \in Good, x \notin s
      PROVE  s \cup {x} \in Good
  <2>1. IsFiniteSet(s) /\ v[x] = 1 /\ 1 \in Nat
    BY FS_Subset
  <2>2. Numbers(v, s)
    BY <2>1 DEF Numbers
  <2>3. SumFunctionOnSet(v, s \cup {x}) = SumFunctionOnSet(v, s) + 1
    BY <1>3, <2>1, <2>2, TotalWith
  <2>4. Cardinality(s \cup {x}) = Cardinality(s) + 1
    BY <1>3, <2>1, CountWith
  <2> QED BY <1>1, <1>3, <2>3, <2>4
<1>4. S \in Good
  BY <1>2, <1>3, OneByOne
<1> QED BY <1>1, <1>4 DEF Numbers

LEMMA CountParted ==
  ASSUME NEW S, IsFiniteSet(S), NEW g, NEW G, IsFiniteSet(G), \A x \in S : g[x] \in G,
         NEW w, \A h \in G : w[h] = Cardinality(Having(g, S, h))
  PROVE  Numbers(w, G) /\ SumFunctionOnSet(w, G) = Cardinality(S)
<1>1. PICK v : v = [x \in S |-> 1]
  OBVIOUS
<1>2. \A x \in S : v[x] = 1
  BY <1>1
<1>3. Numbers(v, S) /\ SumFunctionOnSet(v, S) = Cardinality(S)
  BY <1>2, CountIsTotal
<1>4. PICK a : a = Groups(v, S, g, G)
  OBVIOUS
<1>5. Numbers(a, G) /\ SumFunctionOnSet(a, G) = SumFunctionOnSet(v, S)
  BY <1>3, <1>4, TotalParted
<1>6. ASSUME NEW h \in G
      PROVE  a[h] = w[h]
  <2>1. PICK P \in SUBSET S : P = {x \in S : g[x] = h}
    OBVIOUS
  <2>2. IsFiniteSet(P) /\ \A x \in P : v[x] = 1
    BY <1>2, FS_Subset
  <2>3. SumFunctionOnSet(v, P) = Cardinality(P)
    BY <2>2, CountIsTotal
  <2>4. a[h] = SumFunctionOnSet(v, P)
    BY <1>4, <2>1 DEF Groups
  <2>5. w[h] = Cardinality(P)
    BY <2>1 DEF Having
  <2> QED BY <2>3, <2>4, <2>5
<1>7. Numbers(w, G)
  BY <1>5, <1>6 DEF Numbers
<1> QED BY <1>3, <1>5, <1>6, <1>7, TotalSame
=============================================================================
