---------------------------- MODULE IntervalProofs ----------------------------
(***************************************************************************)
(* Induction and recursion over an interval of naturals, stated with sets  *)
(* and functions so that they can be applied to the searches and the loops *)
(* that the models write as recursive functions.                           *)
(***************************************************************************)
EXTENDS Naturals, Sequences, WellFoundedInduction, TLAPS

(* Every nonempty set of naturals has a least element. *)
LEMMA LeastNatural ==
    ASSUME NEW T, T \subseteq Nat, T # {}
    PROVE  \E m \in T : \A n \in T : m <= n
<1>1. PICK m \in T : \A y \in T : ~(<<y, m>> \in OpToRel(<, Nat))
  BY Zenon, NatLessThanWellFounded, WFMin
<1>2. \A y \in T : ~(y < m)
  BY Zenon, <1>1 DEF OpToRel
<1> QED BY <1>2

(* A set that has the first number of an interval, and with each number the   *)
(* next one, has the whole interval.                                         *)
LEMMA IntervalInduction ==
    ASSUME NEW lo \in Nat, NEW hi \in Nat, NEW P,
           lo \in P, \A r \in lo..hi : r > lo /\ r - 1 \in P => r \in P
    PROVE  lo..hi \subseteq P
<1> SUFFICES ASSUME (lo..hi) \ P # {} PROVE FALSE
  OBVIOUS
<1>1. PICK m \in (lo..hi) \ P : \A n \in (lo..hi) \ P : m <= n
  <2>1. (lo..hi) \ P \subseteq Nat
    OBVIOUS
  <2> QED BY Zenon, <2>1, LeastNatural
<1>2. m > lo /\ m - 1 \in lo..hi /\ ~(m <= m - 1)
  BY <1>1
<1>3. m - 1 \in P
  BY <1>1, <1>2, Zenon
<1> QED BY <1>1, <1>2, <1>3

(* f has the value base at lo, and G gives each value from the one before. *)
Recursion(f, lo, hi, base, G) ==
    f = [r \in lo..hi |-> IF r = lo THEN base ELSE G[r][f[r - 1]]]

(* A function that is defined on an interval by its first value and by the    *)
(* step from one value to the next exists, and its values stay in D.         *)
LEMMA IntervalRecursion ==
    ASSUME NEW lo \in Nat, NEW hi \in Nat, NEW D, NEW base \in D,
           NEW G \in [Nat -> [D -> D]]
    PROVE  \E f \in [lo..hi -> D] : Recursion(f, lo, hi, base, G)
<1> USE DEF Recursion
<1> DEFINE Solves(f, n) == Recursion(f, lo, n, base, G)
           P == {n \in Nat : \E f \in [lo..n -> D] : Solves(f, n)}
<1>1. lo \in P
  <2> DEFINE f == [r \in lo..lo |-> base]
  <2>1. f \in [lo..lo -> D] /\ Solves(f, lo)
    OBVIOUS
  <2> QED BY <2>1
<1>2. \A n \in lo..hi : n > lo /\ n - 1 \in P => n \in P
  <2> SUFFICES ASSUME NEW n \in lo..hi, n > lo, n - 1 \in P PROVE n \in P
    OBVIOUS
  <2>1. PICK f \in [lo..(n - 1) -> D] : Solves(f, n - 1)
    OBVIOUS
  <2> DEFINE g == [r \in lo..n |-> IF r = n THEN G[n][f[n - 1]] ELSE f[r]]
  <2>2. g \in [lo..n -> D]
    OBVIOUS
  <2>3. \A r \in lo..(n - 1) : f[r] = IF r = lo THEN base ELSE G[r][f[r - 1]]
    BY Zenon, <2>1
  <2>4. g[n] = G[n][g[n - 1]] /\ \A r \in lo..(n - 1) : g[r] = f[r]
    OBVIOUS
  <2>5. \A r \in lo..n : g[r] = IF r = lo THEN base ELSE G[r][g[r - 1]]
    <3> HIDE DEF g
    <3> TAKE r \in lo..n
    <3>1. CASE r = n
      BY <2>4, <3>1
    <3>2. CASE r # n
      BY <2>3, <2>4, <3>2
    <3> QED BY <3>1, <3>2
  <2>6. Solves(g, n)
    BY <2>2, <2>5
  <2>7. n \in Nat
    OBVIOUS
  <2> HIDE DEF g, Solves, Recursion
  <2> QED BY Zenon, <2>2, <2>6, <2>7
<1>3. CASE hi < lo
  <2>1. lo..hi = {}
    BY <1>3
  <2> DEFINE f == [r \in lo..hi |-> base]
  <2>2. f \in [lo..hi -> D] /\ Recursion(f, lo, hi, base, G)
    BY <2>1
  <2> QED BY <2>2
<1>4. CASE ~(hi < lo)
  <2>1. hi \in P
    <3> HIDE DEF P
    <3>1. lo..hi \subseteq P
      BY <1>1, <1>2, IntervalInduction
    <3> QED BY <1>4, <3>1
  <2> QED BY <2>1
<1> QED BY <1>3, <1>4

(* A set of numbers up to n that is not empty has a greatest element, the one *)
(* that Max chooses.                                                         *)
LEMMA GreatestNumber ==
    ASSUME NEW n \in Nat, NEW s \in SUBSET (1..n), s # {},
           NEW m, m = CHOOSE x \in s : \A y \in s : x >= y
    PROVE  m \in s /\ \A y \in s : m >= y
<1> DEFINE T == {n - x : x \in s}
<1>1. PICK k \in T : \A l \in T : k <= l
  <2>1. T \subseteq Nat
    OBVIOUS
  <2>2. T # {}
    BY Zenon
  <2> QED BY Zenon, <2>1, <2>2, LeastNatural
<1>2. PICK x \in s : k = n - x
  BY <1>1
<1>3. \A y \in s : x >= y
  <2> TAKE y \in s
  <2>1. k <= n - y
    BY <1>1
  <2> QED BY <1>2, <2>1
<1> QED BY Zenon, <1>3

(* f folds every subset of 1..n from its greatest element down, the way the  *)
(* library defines FoldLeft; G[i] is what the element i does.                *)
FoldMap(f, n, base, G) ==
    \A s \in SUBSET (1..n) :
       f[s] = IF s = {} THEN base
              ELSE G[CHOOSE x \in s : \A y \in s : x >= y]
                    [f[s \ {CHOOSE x \in s : \A y \in s : x >= y}]]

(* The same of an f that is only known to be in D where its arguments are.   *)
FoldIn(f, n, D, base, G) ==
    /\ f[{}] = base
    /\ \A s \in SUBSET (1..n) : \A m \in s :
          (\A y \in s : m >= y) /\ f[s \ {m}] \in D => f[s] = G[m][f[s \ {m}]]

(* h[k] is the value of a loop over 1..n after its step k.                   *)
Loop(h, n, base, G) ==
    h[0] = base /\ \A k \in 1..n : h[k] = G[k][h[k - 1]]

(* Such a fold exists.                                                       *)
LEMMA FoldExists ==
    ASSUME NEW n \in Nat, NEW D, NEW base \in D, NEW G \in [Nat -> [D -> D]]
    PROVE  \E f \in [SUBSET (1..n) -> D] : FoldMap(f, n, base, G)
<1> USE DEF FoldMap
<1> DEFINE E == [SUBSET (1..n) -> D]
           first == [s \in SUBSET (1..n) |-> base]
           H == [k \in Nat |-> [h \in E |-> [s \in SUBSET (1..n) |->
                    IF k \in s THEN G[k][h[s]] ELSE h[s]]]]
<1>1. PICK h \in [0..n -> E] : Recursion(h, 0, n, first, H)
  <2>1. first \in E
    OBVIOUS
  <2>2. ASSUME NEW k \in Nat, NEW g \in E
        PROVE  [s \in SUBSET (1..n) |-> IF k \in s THEN G[k][g[s]] ELSE g[s]] \in E
    <3>1. \A s \in SUBSET (1..n) : (IF k \in s THEN G[k][g[s]] ELSE g[s]) \in D
      BY <2>2
    <3> QED BY Zenon, <3>1
  <2> HIDE DEF first, E
  <2>3. H \in [Nat -> [E -> E]]
    BY Zenon, <2>2
  <2> HIDE DEF H
  <2>4. 0 \in Nat
    OBVIOUS
  <2> QED BY Zenon, <2>1, <2>3, <2>4, IntervalRecursion
<1>2. h[0] = first /\ \A k \in 1..n : h[k] = H[k][h[k - 1]]
  <2>1. h = [r \in 0..n |-> IF r = 0 THEN first ELSE H[r][h[r - 1]]]
    BY <1>1 DEF Recursion
  <2>2. \A r \in 0..n : h[r] = IF r = 0 THEN first ELSE H[r][h[r - 1]]
    <3> HIDE DEF first, H
    <3> QED BY Zenon, <2>1
  <2> HIDE DEF first, H
  <2> QED BY <2>2
<1>3. \A k \in 1..n : \A s \in SUBSET (1..n) :
        h[k][s] = IF k \in s THEN G[k][h[k - 1][s]] ELSE h[k - 1][s]
  <2> TAKE k \in 1..n
  <2>1. k - 1 \in 0..n /\ k \in Nat
    OBVIOUS
  <2>2. h[k - 1] \in E
    <3> HIDE DEF E
    <3> QED BY Zenon, <1>1, <2>1
  <2>3. h[k] = [s \in SUBSET (1..n) |-> IF k \in s THEN G[k][h[k - 1][s]] ELSE h[k - 1][s]]
    <3> HIDE DEF E
    <3> QED BY Zenon, <1>2, <2>1, <2>2
  <2> QED BY Zenon, <2>3
<1>4. \A s \in SUBSET (1..n) : \A j \in 0..n : s \cap ((j + 1)..n) = {} => h[n][s] = h[j][s]
  <2> TAKE s \in SUBSET (1..n)
  <2> TAKE j \in 0..n
  <2> HAVE s \cap ((j + 1)..n) = {}
  <2> DEFINE Q == {k \in j..n : h[k][s] = h[j][s]}
  <2>1. j \in Q
    OBVIOUS
  <2>2. \A k \in j..n : k > j /\ k - 1 \in Q => k \in Q
    <3> SUFFICES ASSUME NEW k \in j..n, k > j, k - 1 \in Q PROVE k \in Q
      OBVIOUS
    <3>1. k \in 1..n /\ k \notin s
      OBVIOUS
    <3> QED BY <1>3, <3>1
  <2>3. j..n \subseteq Q
    <3> HIDE DEF Q
    <3>1. j \in Nat
      OBVIOUS
    <3> QED BY <2>1, <2>2, <3>1, IntervalInduction
  <2>4. n \in j..n
    OBVIOUS
  <2> QED BY Zenon, <2>3, <2>4
<1>5. \A s, z \in SUBSET (1..n) : \A k \in 0..n :
        s \cap (1..k) = z \cap (1..k) => h[k][s] = h[k][z]
  <2> TAKE s, z \in SUBSET (1..n)
  <2> DEFINE Q == {k \in 0..n : s \cap (1..k) = z \cap (1..k) => h[k][s] = h[k][z]}
  <2>1. 0 \in Q
    <3>1. h[0] = [y \in SUBSET (1..n) |-> base]
      BY Zenon, <1>2
    <3>2. h[0][s] = base /\ h[0][z] = base
      BY Zenon, <3>1
    <3> QED BY <3>2
  <2>2. \A k \in 0..n : k > 0 /\ k - 1 \in Q => k \in Q
    <3> SUFFICES ASSUME NEW k \in 0..n, k > 0, k - 1 \in Q, s \cap (1..k) = z \cap (1..k)
                 PROVE  h[k][s] = h[k][z]
      OBVIOUS
    <3>1. k \in 1..n /\ (k \in s <=> k \in z) /\ s \cap (1..(k - 1)) = z \cap (1..(k - 1))
      OBVIOUS
    <3>2. h[k - 1][s] = h[k - 1][z]
      BY <3>1
    <3> QED BY <1>3, <3>1, <3>2
  <2>3. 0..n \subseteq Q
    <3> HIDE DEF Q
    <3> QED BY <2>1, <2>2, IntervalInduction
  <2> QED BY <2>3
<1>6. \A s \in SUBSET (1..n) :
        h[n][s] = IF s = {} THEN base
                  ELSE G[CHOOSE x \in s : \A y \in s : x >= y]
                        [h[n][s \ {CHOOSE x \in s : \A y \in s : x >= y}]]
  <2> TAKE s \in SUBSET (1..n)
  <2>1. CASE s = {}
    <3>1. h[n][s] = h[0][s]
      BY <1>4, <2>1
    <3> QED BY <1>2, <2>1, <3>1
  <2>2. CASE s # {}
    <3> DEFINE m == CHOOSE x \in s : \A y \in s : x >= y
    <3>1. m \in s /\ \A y \in s : m >= y
      BY Zenon, <2>2, GreatestNumber
    <3> HIDE DEF m
    <3>2. m \in 1..n /\ m - 1 \in 0..n /\ s \cap ((m + 1)..n) = {}
          /\ (s \ {m}) \cap (((m - 1) + 1)..n) = {} /\ s \ {m} \in SUBSET (1..n)
          /\ s \cap (1..(m - 1)) = (s \ {m}) \cap (1..(m - 1))
      BY <3>1
    <3>3. h[n][s] = h[m][s] /\ h[n][s \ {m}] = h[m - 1][s \ {m}]
      <4>1. m \in 0..n
        BY <3>2
      <4> QED BY Zenon, <1>4, <3>2, <4>1
    <3>4. h[m - 1][s] = h[m - 1][s \ {m}]
      BY Zenon, <1>5, <3>2
    <3>5. h[m][s] = G[m][h[m - 1][s]]
      BY Zenon, <1>3, <3>1, <3>2
    <3>6. h[n][s] = G[m][h[n][s \ {m}]]
      BY Zenon, <3>3, <3>4, <3>5
    <3> QED BY Zenon, <2>2, <3>6 DEF m
  <2> QED BY Zenon, <2>1, <2>2
<1>7. h[n] \in [SUBSET (1..n) -> D]
  <2>1. n \in 0..n
    OBVIOUS
  <2> QED BY Zenon, <1>1, <2>1
<1> QED BY Zenon, <1>6, <1>7

(* Such a fold of the whole interval is the last value of a loop from 1 to n. *)
LEMMA FoldSteps ==
    ASSUME NEW n \in Nat, NEW D, NEW base \in D, NEW G \in [Nat -> [D -> D]],
           NEW f, FoldIn(f, n, D, base, G)
    PROVE  \E h \in [0..n -> D] : h[n] = f[1..n] /\ Loop(h, n, base, G)
<1> USE DEF FoldIn, Loop
<1> DEFINE P == {k \in 0..n : f[1..k] \in D}
           h == [k \in 0..n |-> f[1..k]]
<1>1. ASSUME NEW k \in 1..n, f[1..(k - 1)] \in D
      PROVE  f[1..k] = G[k][f[1..(k - 1)]]
  <2>1. 1..k \in SUBSET (1..n) /\ k \in 1..k /\ (\A y \in 1..k : k >= y)
        /\ (1..k) \ {k} = 1..(k - 1)
    OBVIOUS
  <2> QED BY Zenon, <1>1, <2>1
<1>2. 1..0 = {}
  OBVIOUS
<1>3. 0..n \subseteq P
  <2>1. 0 \in P
    BY <1>2
  <2>2. \A k \in 0..n : k > 0 /\ k - 1 \in P => k \in P
    <3> SUFFICES ASSUME NEW k \in 0..n, k > 0, k - 1 \in P PROVE f[1..k] \in D
      OBVIOUS
    <3>1. k \in 1..n /\ k \in Nat /\ f[1..(k - 1)] \in D
      OBVIOUS
    <3>2. G[k] \in [D -> D]
      BY Zenon, <3>1
    <3>3. G[k][f[1..(k - 1)]] \in D
      BY Zenon, <3>1, <3>2
    <3> QED BY Zenon, <1>1, <3>1, <3>3
  <2> HIDE DEF P
  <2> QED BY <2>1, <2>2, IntervalInduction
<1>4. \A k \in 0..n : f[1..k] \in D
  BY Zenon, <1>3
<1>5. h \in [0..n -> D]
  BY Zenon, <1>4
<1>6. h[0] = base /\ h[n] = f[1..n]
  BY <1>2
<1>7. \A k \in 1..n : h[k] = G[k][h[k - 1]]
  <2> TAKE k \in 1..n
  <2>1. k \in 0..n /\ k - 1 \in 0..n
    OBVIOUS
  <2> QED BY Zenon, <1>1, <1>4, <2>1
<1> HIDE DEF h
<1> QED BY Zenon, <1>5, <1>6, <1>7

------------------------------------------------------------------------------
(* A function on 1..n is a sequence of length n. *)
LEMMA Tuple ==
    ASSUME NEW S, NEW n \in Nat, NEW s \in [1..n -> S]
    PROVE  s \in Seq(S) /\ Len(s) = n
OBVIOUS

(* u is s followed by t. *)
Joined(s, t, u) ==
    /\ Len(s) \in Nat /\ Len(t) \in Nat /\ Len(u) = Len(s) + Len(t)
    /\ \A i \in 1..Len(s) : u[i] = s[i]
    /\ \A i \in 1..Len(t) : u[Len(s) + i] = t[i]

(* Concatenation joins its arguments. *)
LEMMA ConcatType ==
    ASSUME NEW S, NEW s \in Seq(S), NEW t \in Seq(S)
    PROVE  s \o t \in Seq(S) /\ Joined(s, t, s \o t)
BY DEF Joined
===============================================================================
