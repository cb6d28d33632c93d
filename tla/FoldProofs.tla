------------------------------ MODULE FoldProofs ------------------------------
(***************************************************************************)
(* What a fold over a sequence computes, whatever its step: the modules    *)
(* that prove something about a fold instantiate this one with theirs.     *)
(***************************************************************************)
EXTENDS Integers, Sequences, SequencesExt, WellFoundedInduction, TLAPS

CONSTANT Step(_, _)    \* what is made of a result and the next element

Folded(base, s) == FoldLeft(Step, base, s)

LEMMA LeastOf ==
  ASSUME NEW S \in SUBSET Nat, S # {}
  PROVE  \E x \in S : \A y \in S : x <= y
<1>1. PICK x \in S : \A y \in S : <<y, x>> \notin OpToRel(<, Nat)
  BY NatLessThanWellFounded, WFMin, Zenon
<1>2. \A y \in S : ~(y < x)
  <2>1. \A a, b \in Nat : a < b => <<a, b>> \in OpToRel(<, Nat)
    BY Zenon DEF OpToRel
  <2> QED BY <1>1, <2>1, Zenon
<1> QED BY <1>2

\* What the fold is defined by: the result for each set of positions.
Solves(f, base, s, D) ==
  f = [S \in D |-> IF S = {} THEN base ELSE Step(f[S \ {Max(S)}], s[Max(S)])]

Results(base, s) == CHOOSE f : Solves(f, base, s, SUBSET DOMAIN s)

LEMMA FoldedResults ==
  ASSUME NEW base, NEW s
  PROVE  Folded(base, s) = Results(base, s)[DOMAIN s]
BY DEF Folded, FoldLeft, MapThenFoldSet, Results, Solves

LEMMA LastIsMax ==
  ASSUME NEW k \in Nat, NEW S \in SUBSET (1 .. k + 1), k + 1 \in S
  PROVE  Max(S) = k + 1
<1>1. \A y \in S : y \in 1 .. k + 1 /\ k + 1 >= y
  OBVIOUS
<1>2. \E x \in S : \A y \in S : x >= y
  BY <1>1
<1>3. PICK x : x = Max(S)
  OBVIOUS
<1>4. x \in S /\ \A y \in S : x >= y
  BY <1>2, <1>3 DEF Max
<1>5. x >= k + 1 /\ k + 1 >= x /\ x \in Nat
  BY <1>1, <1>4
<1> QED BY <1>3, <1>5

LEMMA ResultsExist ==
  ASSUME NEW base, NEW s, NEW n \in Nat
  PROVE  \E f : Solves(f, base, s, SUBSET (1 .. n))
<1> DEFINE Bad == {k \in 0 .. n : ~ \E f : Solves(f, base, s, SUBSET (1 .. k))}
<1>1. ASSUME NEW k \in Nat, NEW f, Solves(f, base, s, SUBSET (1 .. k))
      PROVE  \E g : Solves(g, base, s, SUBSET (1 .. k + 1))
  <2> DEFINE g == [S \in SUBSET (1 .. k + 1) |->
                     IF k + 1 \in S THEN Step(f[S \ {k + 1}], s[k + 1]) ELSE f[S]]
             h == [S \in SUBSET (1 .. k + 1) |->
                     IF S = {} THEN base ELSE Step(g[S \ {Max(S)}], s[Max(S)])]
  <2>1. \A S \in SUBSET (1 .. k + 1) : S \ {k + 1} \in SUBSET (1 .. k)
    OBVIOUS
  <2>2. \A S \in SUBSET (1 .. k) : f[S] = IF S = {} THEN base ELSE Step(f[S \ {Max(S)}], s[Max(S)])
    <3> DEFINE F == [S \in SUBSET (1 .. k) |-> IF S = {} THEN base ELSE Step(f[S \ {Max(S)}], s[Max(S)])]
    <3>1. f = F
      BY <1>1 DEF Solves
    <3>2. \A S \in SUBSET (1 .. k) : F[S] = IF S = {} THEN base ELSE Step(f[S \ {Max(S)}], s[Max(S)])
      OBVIOUS
    <3> HIDE DEF F
    <3> QED BY <3>1, <3>2
  <2>3. ASSUME NEW S \in SUBSET (1 .. k + 1)
        PROVE  g[S] = IF S = {} THEN base ELSE Step(g[S \ {Max(S)}], s[Max(S)])
    <3>1. CASE k + 1 \in S
      <4>1. Max(S) = k + 1 /\ S # {}
        BY <3>1, LastIsMax
      <4>2. S \ {k + 1} \in SUBSET (1 .. k + 1) /\ k + 1 \notin S \ {k + 1}
        OBVIOUS
      <4>3. g[S \ {k + 1}] = f[S \ {k + 1}]
        BY <4>2
      <4> QED BY <3>1, <4>1, <4>3
    <3>2. CASE k + 1 \notin S
      <4>1. S \in SUBSET (1 .. k) /\ S \ {Max(S)} \in SUBSET (1 .. k + 1) /\ k + 1 \notin S \ {Max(S)}
        BY <2>1, <3>2
      <4>2. g[S] = f[S] /\ g[S \ {Max(S)}] = f[S \ {Max(S)}]
        BY <3>2, <4>1
      <4> QED BY <2>2, <4>1, <4>2
    <3> QED BY <3>1, <3>2
  <2>4. g = h
    <3>1. \A S \in SUBSET (1 .. k + 1) : g[S] = h[S]
      <4> HIDE DEF g
      <4> QED BY <2>3
    <3> QED BY <3>1
  <2> QED BY <2>4 DEF Solves
<1>2. \E f : Solves(f, base, s, SUBSET (1 .. 0))
  <2> DEFINE f == [S \in SUBSET (1 .. 0) |-> base]
  <2>1. \A S \in SUBSET (1 .. 0) : S = {}
    OBVIOUS
  <2>2. f = [S \in SUBSET (1 .. 0) |-> IF S = {} THEN base ELSE Step(f[S \ {Max(S)}], s[Max(S)])]
    BY <2>1
  <2> QED BY <2>2 DEF Solves
<1>3. ASSUME Bad # {}
      PROVE  FALSE
  <2>1. Bad \in SUBSET Nat
    OBVIOUS
  <2>2. PICK k \in Bad : \A y \in Bad : k <= y
    BY <1>3, <2>1, LeastOf
  <2>3. k \in 0 .. n /\ k # 0 /\ ~ \E f : Solves(f, base, s, SUBSET (1 .. k))
    BY <1>2, <2>2
  <2>4. k - 1 \in 0 .. n /\ k - 1 \in Nat /\ (k - 1) + 1 = k /\ ~(k <= k - 1)
    BY <2>3
  <2>5. k - 1 \notin Bad
    BY <2>2, <2>4
  <2>6. PICK f : Solves(f, base, s, SUBSET (1 .. k - 1))
    BY <2>4, <2>5
  <2>7. \E g : Solves(g, base, s, SUBSET (1 .. (k - 1) + 1))
    BY <1>1, <2>4, <2>6
  <2> QED BY <2>3, <2>4, <2>7
<1>4. n \in 0 .. n /\ n \notin Bad
  <2> HIDE DEF Bad
  <2> QED BY <1>3
<1> QED BY <1>4

\* A fold goes from result to result, over the elements in their order.
LEMMA FoldSteps ==
  ASSUME NEW base, NEW s, NEW n \in Nat, DOMAIN s = 1 .. n
  PROVE  \E f : /\ f[0] = base /\ f[n] = Folded(base, s)
                /\ \A k \in 1 .. n : f[k] = Step(f[k - 1], s[k])
<1> DEFINE t == Results(base, s)
           f == [k \in 0 .. n |-> t[1 .. k]]
<1>1. Solves(t, base, s, SUBSET (1 .. n))
  BY ResultsExist DEF Results
<1>2. \A S \in SUBSET (1 .. n) : t[S] = IF S = {} THEN base ELSE Step(t[S \ {Max(S)}], s[Max(S)])
  <2> DEFINE F == [S \in SUBSET (1 .. n) |-> IF S = {} THEN base ELSE Step(t[S \ {Max(S)}], s[Max(S)])]
  <2>1. t = F
    BY <1>1 DEF Solves
  <2>2. \A S \in SUBSET (1 .. n) : F[S] = IF S = {} THEN base ELSE Step(t[S \ {Max(S)}], s[Max(S)])
    OBVIOUS
  <2> HIDE DEF F, t
  <2> QED BY <2>1, <2>2
<1> HIDE DEF t
<1>3. f[0] = base
  <2>1. 1 .. 0 = {} /\ 1 .. 0 \in SUBSET (1 .. n) /\ 0 \in 0 .. n
    OBVIOUS
  <2> QED BY <1>2, <2>1
<1>4. f[n] = Folded(base, s)
  BY FoldedResults DEF t
<1>5. ASSUME NEW k \in 1 .. n
      PROVE  f[k] = Step(f[k - 1], s[k])
  <2>1. /\ k - 1 \in Nat /\ (k - 1) + 1 = k /\ k \in 0 .. n /\ k - 1 \in 0 .. n
        /\ 1 .. k \in SUBSET (1 .. n) /\ k \in 1 .. k
    OBVIOUS
  <2>2. Max(1 .. k) = k
    BY <2>1, LastIsMax
  <2>3. (1 .. k) \ {k} = 1 .. k - 1
    BY <2>1
  <2>4. t[1 .. k] = Step(t[1 .. k - 1], s[k])
    BY <1>2, <2>1, <2>2, <2>3
  <2> QED BY <2>1, <2>4
<1> QED BY <1>3, <1>4, <1>5
=============================================================================
