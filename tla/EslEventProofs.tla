--------------------------- MODULE EslEventProofs ---------------------------
(***************************************************************************)
(* Proofs about EslEvent, for all texts, names and indexes and for events  *)
(* of any size.                                                            *)
(***************************************************************************)
EXTENDS EslEvent, SequenceTheorems, FiniteSetTheorems, WellFoundedInduction, TLAPS

-----------------------------------------------------------------------------
(* Numbers, and functions defined by recursion.                            *)

\* A non-empty set of natural numbers has a least element.
LEMMA LeastNatural ==
  ASSUME NEW S \in SUBSET Nat, S # {}
  PROVE  \E x \in S : \A y \in S : x <= y
<1>1. PICK x \in S : \A y \in S : <<y, x>> \notin OpToRel(<, Nat)
  BY NatLessThanWellFounded, WFMin
<1>2. \A y \in S : ~ (y < x)
  BY <1>1 DEF OpToRel
<1>. QED
  BY <1>2

\* A set of numbers that holds 0 and successors up to n holds n.
LEMMA SetInduction ==
  ASSUME NEW n \in Nat, NEW T \in SUBSET Nat, 0 \in T,
         \A k \in T : k < n => k + 1 \in T
  PROVE  n \in T
<1>. SUFFICES ASSUME n \notin T PROVE FALSE
  OBVIOUS
<1>. DEFINE U == {k \in Nat : k <= n /\ k \notin T}
<1>1. U \in SUBSET Nat /\ U # {}
  OBVIOUS
<1>2. PICK x \in U : \A y \in U : x <= y
  <2>. HIDE DEF U
  <2>. QED
    BY <1>1, LeastNatural
<1>3. x # 0 /\ x - 1 \in Nat /\ x - 1 < n /\ (x - 1) + 1 = x /\ x \notin T
  OBVIOUS
<1>4. x - 1 \notin U
  <2>1. ~ (x <= x - 1)
    BY <1>3
  <2>. HIDE DEF U
  <2>. QED
    BY <1>2, <2>1
<1>. QED
  BY <1>3, <1>4

\* A set of numbers that holds all up to n, if it holds 0 and successors.
LEMMA UpTo ==
  ASSUME NEW n \in Nat, NEW T \in SUBSET Nat, 0 \in T,
         \A k \in T : k < n => k + 1 \in T
  PROVE  0 .. n \subseteq T
<1>. SUFFICES ASSUME NEW m \in 0 .. n PROVE m \in T
  OBVIOUS
<1>1. m \in Nat /\ \A k \in T : k < m => k < n
  OBVIOUS
<1>. QED
  BY <1>1, SetInduction

\* A non-empty set of numbers up to n has a least and a greatest element.
LEMMA Extremes ==
  ASSUME NEW n \in Nat, NEW S \in SUBSET (0 .. n), S # {}
  PROVE  /\ Min(S) \in S /\ \A y \in S : Min(S) <= y
         /\ Max(S) \in S /\ \A y \in S : y <= Max(S)
<1>1. \E x \in S : \A y \in S : x =< y
  <2>1. S \in SUBSET Nat
    OBVIOUS
  <2>. QED
    BY <2>1, LeastNatural
<1>2. \E x \in S : \A y \in S : x >= y
  <2>. DEFINE R == {n - x : x \in S}
  <2>0. \A x \in S : n - x \in Nat
    OBVIOUS
  <2>1. R \in SUBSET Nat /\ R # {}
    BY <2>0, Zenon
  <2>2. PICK r \in R : \A y \in R : r <= y
    <3>. HIDE DEF R
    <3>. QED
      BY <2>1, LeastNatural
  <2>3. PICK x \in S : r = n - x
    OBVIOUS
  <2>4. ASSUME NEW y \in S PROVE x >= y
    <3>1. n - y \in R
      OBVIOUS
    <3>2. n - x <= n - y
      BY <2>2, <2>3, <3>1
    <3>. QED
      BY <3>2
  <2>. QED
    BY <2>4
<1>3. Min(S) \in S /\ \A y \in S : Min(S) =< y
  BY <1>1, Zenon DEF Min
<1>4. Max(S) \in S /\ \A y \in S : Max(S) >= y
  BY <1>2, Zenon DEF Max
<1>. QED
  BY <1>3, <1>4

\* What a function of numbers computes from base, step by step.
Recurs(m, base, G, f) ==
  f = [i \in 0 .. m |-> IF i = 0 THEN base ELSE G[i][f[i - 1]]]

\* There is such a function.
LEMMA RecursExists ==
  ASSUME NEW n \in Nat, NEW base, NEW G
  PROVE  \E f : Recurs(n, base, G, f)
<1>. DEFINE T == {m \in Nat : \E f : Recurs(m, base, G, f)}
<1>1. 0 \in T
  <2>. DEFINE f == [i \in 0 .. 0 |-> base]
  <2>1. f = [i \in 0 .. 0 |-> IF i = 0 THEN base ELSE G[i][f[i - 1]]]
    OBVIOUS
  <2>. QED
    BY <2>1, Zenon DEF Recurs
<1>2. ASSUME NEW m \in T PROVE m + 1 \in T
  <2>0. m \in Nat /\ m + 1 \in Nat
    OBVIOUS
  <2>1. PICK f : Recurs(m, base, G, f)
    OBVIOUS
  <2>. DEFINE g == [i \in 0 .. m + 1 |-> IF i = 0 THEN base ELSE G[i][f[i - 1]]]
              h == [i \in 0 .. m + 1 |-> IF i = 0 THEN base ELSE G[i][g[i - 1]]]
  <2>2. ASSUME NEW i \in 0 .. m PROVE g[i] = f[i]
    <3>1. i \in 0 .. m + 1
      BY <2>0
    <3>2. f[i] = IF i = 0 THEN base ELSE G[i][f[i - 1]]
      BY <2>1, Zenon DEF Recurs
    <3>3. g[i] = IF i = 0 THEN base ELSE G[i][f[i - 1]]
      BY <3>1, Zenon
    <3>. QED
      BY <3>2, <3>3, Zenon
  <2>3. ASSUME NEW i \in 0 .. m + 1 PROVE g[i] = h[i]
    <3>1. CASE i = 0
      BY <3>1, Zenon
    <3>2. CASE i # 0
      <4>1. i - 1 \in 0 .. m
        BY <2>0, <3>2
      <4>2. g[i - 1] = f[i - 1]
        BY <2>2, <4>1, Zenon
      <4>3. g[i] = G[i][f[i - 1]]
        BY <3>2, Zenon
      <4>4. h[i] = G[i][g[i - 1]]
        <5>. HIDE DEF g
        <5>. QED
          BY <3>2, Zenon
      <4>. QED
        BY <4>2, <4>3, <4>4, Zenon
    <3>. QED
      BY <3>1, <3>2
  <2>4. g = [i \in 0 .. m + 1 |-> g[i]] /\ h = [i \in 0 .. m + 1 |-> h[i]]
    <3>1. g = [i \in 0 .. m + 1 |-> g[i]]
      BY Zenon
    <3>. HIDE DEF g
    <3>2. h = [i \in 0 .. m + 1 |-> h[i]]
      BY Zenon
    <3>. QED
      BY <3>1, <3>2
  <2>5. g = h
    <3>. HIDE DEF g, h
    <3>. QED
      BY <2>3, <2>4
  <2>6. Recurs(m + 1, base, G, g)
    BY <2>5, Zenon DEF Recurs
  <2>. QED
    BY <2>0, <2>6
<1>3. T \in SUBSET Nat
  OBVIOUS
<1>4. n \in T
  <2>. HIDE DEF T
  <2>. QED
    BY <1>1, <1>2, <1>3, SetInduction
<1>. QED
  BY <1>4

\* If each step leads from a set of Ok to the next, each value is in its set.
LEMMA Stays ==
  ASSUME NEW n \in Nat, NEW f, NEW Ok, f[0] \in Ok[0],
         \A i \in 1 .. n : f[i - 1] \in Ok[i - 1] => f[i] \in Ok[i]
  PROVE  \A i \in 0 .. n : f[i] \in Ok[i]
<1>. DEFINE T == {m \in Nat : m <= n => f[m] \in Ok[m]}
<1>1. 0 \in T
  OBVIOUS
<1>2. ASSUME NEW m \in T, m < n PROVE m + 1 \in T
  <2>1. m \in Nat /\ f[m] \in Ok[m] /\ m + 1 \in 1 .. n /\ (m + 1) - 1 = m /\ m + 1 \in Nat
    BY <1>2
  <2>2. f[m + 1] \in Ok[m + 1]
    BY <2>1
  <2>. QED
    BY <2>1, <2>2
<1>3. T \in SUBSET Nat
  OBVIOUS
<1>4. 0 .. n \subseteq T
  <2>. HIDE DEF T
  <2>. QED
    BY <1>1, <1>2, <1>3, UpTo
<1>. QED
  BY <1>4

\* The largest of the numbers up to m + 1, if m + 1 is one of them.
LEMMA MaxLast ==
  ASSUME NEW m \in Nat, NEW S \in SUBSET (1 .. m + 1), m + 1 \in S
  PROVE  Max(S) = m + 1
<1>1. S \in SUBSET (0 .. m + 1) /\ S # {} /\ m + 1 \in Nat
  OBVIOUS
<1>2. Max(S) \in S /\ \A y \in S : y <= Max(S)
  BY <1>1, Extremes
<1>3. Max(S) \in 1 .. m + 1 /\ m + 1 <= Max(S)
  BY <1>2
<1>. QED
  BY <1>3

\* What FoldLeft computes, for each set of places of a sequence of length n.
Folds(n, base, G, f) ==
  f = [S \in SUBSET (1 .. n) |->
         IF S = {} THEN base ELSE G[Max(S)][f[S \ {Max(S)}]]]

\* There is such a function.
LEMMA FoldsExists ==
  ASSUME NEW n \in Nat, NEW base, NEW G
  PROVE  \E f : Folds(n, base, G, f)
<1>. DEFINE T == {m \in Nat : \E f : Folds(m, base, G, f)}
<1>1. 0 \in T
  <2>. DEFINE f == [S \in SUBSET (1 .. 0) |-> base]
  <2>0. \A S \in SUBSET (1 .. 0) : S = {}
    OBVIOUS
  <2>1. f = [S \in SUBSET (1 .. 0) |->
               IF S = {} THEN base ELSE G[Max(S)][f[S \ {Max(S)}]]]
    BY <2>0
  <2>. QED
    BY <2>1, Zenon DEF Folds
<1>2. ASSUME NEW m \in T PROVE m + 1 \in T
  <2>0. m \in Nat /\ m + 1 \in Nat
    OBVIOUS
  <2>1. PICK f : Folds(m, base, G, f)
    OBVIOUS
  <2>. DEFINE D == SUBSET (1 .. m + 1)
              E == SUBSET (1 .. m)
              g == [S \in D |-> IF S \in E THEN f[S] ELSE G[m + 1][f[S \ {m + 1}]]]
              h == [S \in D |-> IF S = {} THEN base ELSE G[Max(S)][g[S \ {Max(S)}]]]
  <2>2. /\ \A S \in E : S \in D
        /\ \A S \in D : S \notin E => S # {} /\ S \ {m + 1} \in E /\ m + 1 \in S
        /\ \A S \in E : S # {} => S \ {Max(S)} \in E
    <3>1. \A i \in 1 .. m + 1 : i # m + 1 => i \in 1 .. m
      BY <2>0
    <3>2. ASSUME NEW S \in D, S \notin E PROVE S # {} /\ S \ {m + 1} \in E /\ m + 1 \in S
      BY <3>1, <3>2, Zenon
    <3>3. \A S \in E : S \in D
      BY <2>0
    <3>. QED
      BY <3>2, <3>3, Zenon
  <2>3. ASSUME NEW S \in E PROVE g[S] = h[S]
    <3>1. f[S] = IF S = {} THEN base ELSE G[Max(S)][f[S \ {Max(S)}]]
      BY <2>1, Zenon DEF Folds
    <3>. HIDE DEF D, E
    <3>2. g[S] = f[S]
      BY <2>2, Zenon
    <3>3. S # {} => g[S \ {Max(S)}] = f[S \ {Max(S)}]
      BY <2>2, Zenon
    <3>. HIDE DEF g
    <3>4. h[S] = IF S = {} THEN base ELSE G[Max(S)][g[S \ {Max(S)}]]
      BY <2>2, Zenon
    <3>. QED
      BY <3>1, <3>2, <3>3, <3>4, Zenon
  <2>4. ASSUME NEW S \in D, S \notin E PROVE g[S] = h[S]
    <3>1. Max(S) = m + 1
      BY <2>0, <2>2, <2>4, MaxLast
    <3>. HIDE DEF D, E
    <3>2. g[S] = G[m + 1][f[S \ {m + 1}]] /\ g[S \ {m + 1}] = f[S \ {m + 1}]
      BY <2>2, <2>4, Zenon
    <3>. HIDE DEF g
    <3>3. h[S] = G[Max(S)][g[S \ {Max(S)}]]
      BY <2>2, <2>4, Zenon
    <3>. QED
      BY <3>1, <3>2, <3>3, Zenon
  <2>5. g = [S \in D |-> g[S]] /\ h = [S \in D |-> h[S]]
    <3>. HIDE DEF D, E
    <3>1. g = [S \in D |-> g[S]]
      BY Zenon
    <3>. HIDE DEF g
    <3>2. h = [S \in D |-> h[S]]
      BY Zenon
    <3>. QED
      BY <3>1, <3>2
  <2>6. g = h
    <3>. HIDE DEF D, E, g, h
    <3>. QED
      BY <2>3, <2>4, <2>5
  <2>7. Folds(m + 1, base, G, g)
    BY <2>6, Zenon DEF Folds
  <2>. QED
    BY <2>0, <2>7
<1>3. T \in SUBSET Nat
  OBVIOUS
<1>4. n \in T
  <2>. HIDE DEF T
  <2>. QED
    BY <1>1, <1>2, <1>3, SetInduction
<1>. QED
  BY <1>4

\* A set of some places has a last one.
LEMMA Places ==
  ASSUME NEW n \in Nat, NEW S \in SUBSET (1 .. n), S # {}
  PROVE  Max(S) \in 1 .. n /\ S \ {Max(S)} \in SUBSET (1 .. n)
<1>1. S \in SUBSET (0 .. n)
  OBVIOUS
<1>2. Max(S) \in S
  BY <1>1, Extremes
<1>. QED
  BY <1>2

LEMMA FirstPlaces ==
  ASSUME NEW n \in Nat, NEW i \in 1 .. n
  PROVE  /\ 1 .. i \in SUBSET (1 .. n) /\ 1 .. i # {} /\ Max(1 .. i) = i
         /\ (1 .. i) \ {i} = 1 .. i - 1
<1>1. /\ 1 .. i \in SUBSET (1 .. n) /\ 1 .. i # {} /\ (1 .. i) \ {i} = 1 .. i - 1
      /\ i - 1 \in Nat /\ 1 .. i \in SUBSET (1 .. (i - 1) + 1) /\ (i - 1) + 1 \in 1 .. i
      /\ (i - 1) + 1 = i
  OBVIOUS
<1>2. Max(1 .. i) = (i - 1) + 1
  BY <1>1, MaxLast
<1>. QED
  BY <1>1, <1>2

\* A set that no step leaves holds all of a fold.
LEMMA FoldsIn ==
  ASSUME NEW n \in Nat, NEW f, NEW A, f[{}] \in A,
         \A S \in SUBSET (1 .. n) : S # {} /\ f[S \ {Max(S)}] \in A => f[S] \in A
  PROVE  \A S \in SUBSET (1 .. n) : f[S] \in A
<1>. DEFINE T == {m \in Nat : m <= n => \A S \in SUBSET (1 .. m) : f[S] \in A}
<1>1. 0 \in T
  <2>1. \A S \in SUBSET (1 .. 0) : S = {}
    OBVIOUS
  <2>. QED
    BY <2>1
<1>2. ASSUME NEW m \in T, m < n PROVE m + 1 \in T
  <2>1. m \in Nat /\ m + 1 \in Nat
    OBVIOUS
  <2>2. \A S \in SUBSET (1 .. m) : f[S] \in A
    BY <1>2
  <2>3. ASSUME NEW S \in SUBSET (1 .. m + 1), m + 1 \in S PROVE f[S] \in A
    <3>1. Max(S) = m + 1
      BY <2>1, <2>3, MaxLast
    <3>2. S \in SUBSET (1 .. n) /\ S # {} /\ S \ {m + 1} \in SUBSET (1 .. m)
      BY <1>2, <2>1, <2>3
    <3>. QED
      BY <2>2, <3>1, <3>2, Zenon
  <2>4. \A S \in SUBSET (1 .. m + 1) : m + 1 \notin S => S \in SUBSET (1 .. m)
    BY <2>1
  <2>5. \A S \in SUBSET (1 .. m + 1) : f[S] \in A
    BY <2>2, <2>3, <2>4, Zenon
  <2>. QED
    BY <2>1, <2>5
<1>3. T \in SUBSET Nat
  OBVIOUS
<1>4. n \in T
  <2>. HIDE DEF T
  <2>. QED
    BY <1>1, <1>2, <1>3, SetInduction
<1>. QED
  BY <1>4

\* A fold that stays in A.
FoldsTo(n, base, G, A, f) ==
  /\ f = [S \in SUBSET (1 .. n) |-> f[S]]
  /\ \A S \in SUBSET (1 .. n) :
       /\ f[S] \in A
       /\ f[S] = IF S = {} THEN base ELSE G[Max(S)][f[S \ {Max(S)}]]

\* There is a fold in each set that no step leaves.
LEMMA FoldsExist ==
  ASSUME NEW n \in Nat, NEW base, NEW G, NEW A, base \in A,
         \A i \in 1 .. n : \A x \in A : G[i][x] \in A
  PROVE  \E f : FoldsTo(n, base, G, A, f)
<1>. DEFINE P == SUBSET (1 .. n)
<1>1. PICK f : Folds(n, base, G, f)
  BY FoldsExists
<1>2. f = [S \in P |-> IF S = {} THEN base ELSE G[Max(S)][f[S \ {Max(S)}]]]
  BY <1>1 DEF Folds
<1>3. \A S \in P : S # {} => Max(S) \in 1 .. n
  BY Places
<1>4. {} \in P
  OBVIOUS
<1>. HIDE DEF P
<1>5. \A S \in P : f[S] = IF S = {} THEN base ELSE G[Max(S)][f[S \ {Max(S)}]]
  BY <1>2, Zenon
<1>6. f = [S \in P |-> f[S]]
  BY <1>2, Zenon
<1>7. \A S \in P : S # {} /\ f[S \ {Max(S)}] \in A => f[S] \in A
  BY <1>3, <1>5
<1>8. f[{}] \in A
  BY <1>4, <1>5
<1>9. \A S \in P : f[S] \in A
  BY <1>7, <1>8, FoldsIn DEF P
<1>. QED
  BY <1>5, <1>6, <1>9, Zenon DEF P, FoldsTo

-----------------------------------------------------------------------------
(* Linked lists.                                                           *)

\* The element of s at i, or a null pointer.
At(s, i) == IF i \in 1 .. Len(s) THEN s[i] ELSE NULL

\* From h to l, the pointers nx of the cells D lead through s; no other cell
\* points to any.
Threads(D, nx, h, l, s) ==
  /\ s \in Seq(D) /\ D \subseteq Nat \ {NULL}
  /\ \A i, j \in 1 .. Len(s) : s[i] = s[j] => i = j
  /\ h = At(s, 1) /\ l = At(s, Len(s))
  /\ \A i \in 1 .. Len(s) : nx[s[i]] = At(s, i + 1)
  /\ \A c \in D : (\A i \in 1 .. Len(s) : s[i] # c) => nx[c] = NULL

LEMMA TopThreads ==
  ASSUME NEW D, NEW nx, NEW h, NEW l, NEW s, Threads(D, nx, h, l, s),
         NEW c \in D, \A i \in 1 .. Len(s) : s[i] # c,
         NEW nx2, nx2[c] = h, \A d \in D \ {c} : nx2[d] = nx[d]
  PROVE  Threads(D, nx2, c, IF l = NULL THEN c ELSE l, <<c>> \o s)
<1>. DEFINE r == <<c>> \o s
            n == Len(s)
<1>1. s \in Seq(D) /\ n \in Nat /\ D \subseteq Nat \ {NULL} /\ \A i \in 1 .. n : s[i] \in D
  BY DEF Threads
<1>2. /\ r \in Seq(D) /\ Len(r) = n + 1 /\ r[1] = c
      /\ \A i \in 1 .. n : r[i + 1] = s[i]
      /\ \A i \in 2 .. n + 1 : r[i] = s[i - 1] /\ i - 1 \in 1 .. n
  BY <1>1
<1>. HIDE DEF r
<1>3. \A i, j \in 1 .. n : s[i] = s[j] => i = j
  BY DEF Threads
<1>4. \A i, j \in 1 .. Len(r) : r[i] = r[j] => i = j
  <2>. TAKE i, j \in 1 .. Len(r)
  <2>1. i = 1 \/ i \in 2 .. n + 1
    BY <1>1, <1>2
  <2>2. j = 1 \/ j \in 2 .. n + 1
    BY <1>1, <1>2
  <2>. QED
    BY <1>1, <1>2, <1>3, <2>1, <2>2
<1>5. c = At(r, 1) /\ (IF l = NULL THEN c ELSE l) = At(r, Len(r))
  <2>1. l = At(s, n)
    BY DEF Threads
  <2>2. n = 0 => l = NULL
    BY <2>1 DEF At
  <2>3. n # 0 => l = s[n] /\ l # NULL /\ r[n + 1] = s[n]
    <3>1. n # 0 => n \in 1 .. n
      BY <1>1
    <3>2. n # 0 => s[n] \in D
      BY <1>1, <3>1
    <3>. QED
      BY <1>1, <1>2, <2>1, <3>1, <3>2 DEF At
  <2>. QED
    BY <1>1, <1>2, <2>2, <2>3 DEF At
<1>6. ASSUME NEW i \in 1 .. Len(r) PROVE nx2[r[i]] = At(r, i + 1)
  <2>1. CASE i = 1
    <3>1. h = At(s, 1) /\ nx2[r[i]] = h
      BY <1>2, <2>1 DEF Threads
    <3>. QED
      BY <1>1, <1>2, <2>1, <3>1 DEF At
  <2>2. CASE i # 1
    <3>1. i - 1 \in 1 .. n /\ r[i] = s[i - 1] /\ s[i - 1] # c /\ s[i - 1] \in D
      BY <1>1, <1>2, <2>2
    <3>2. nx2[r[i]] = At(s, (i - 1) + 1)
      BY <3>1 DEF Threads
    <3>3. At(s, (i - 1) + 1) = At(r, i + 1)
      BY <1>1, <1>2, <3>1 DEF At
    <3>. QED
      BY <3>2, <3>3
  <2>. QED
    BY <2>1, <2>2
<1>7. ASSUME NEW d \in D, \A i \in 1 .. Len(r) : r[i] # d PROVE nx2[d] = NULL
  <2>1. d # c
    BY <1>1, <1>2, <1>7
  <2>2. ASSUME NEW i \in 1 .. n PROVE s[i] # d
    <3>1. i + 1 \in 1 .. Len(r)
      BY <1>1, <1>2
    <3>. QED
      BY <1>2, <1>7, <3>1
  <2>. QED
    BY <2>1, <2>2 DEF Threads
<1>. QED
  BY <1>1, <1>2, <1>4, <1>5, <1>6, <1>7 DEF Threads, r

LEMMA BottomThreads ==
  ASSUME NEW D, NEW nx, NEW h, NEW l, NEW s, Threads(D, nx, h, l, s),
         NEW c \in D, \A i \in 1 .. Len(s) : s[i] # c,
         NEW nx2, l # NULL => nx2[l] = c, \A d \in D : d # l => nx2[d] = nx[d]
  PROVE  Threads(D, nx2, IF l = NULL THEN c ELSE h, c, Append(s, c))
<1>. DEFINE r == Append(s, c)
            n == Len(s)
<1>1. s \in Seq(D) /\ n \in Nat /\ D \subseteq Nat \ {NULL} /\ \A i \in 1 .. n : s[i] \in D
  BY DEF Threads
<1>2. /\ r \in Seq(D) /\ Len(r) = n + 1 /\ r[n + 1] = c
      /\ \A i \in 1 .. n : r[i] = s[i]
      /\ \A i \in 1 .. Len(r) : i \in 1 .. n \/ i = n + 1
  BY <1>1
<1>. HIDE DEF r
<1>3. \A i, j \in 1 .. n : s[i] = s[j] => i = j
  BY DEF Threads
<1>4. \A i, j \in 1 .. Len(r) : r[i] = r[j] => i = j
  <2>. TAKE i, j \in 1 .. Len(r)
  <2>. QED
    BY <1>1, <1>2, <1>3
<1>5. (IF l = NULL THEN c ELSE h) = At(r, 1) /\ c = At(r, Len(r)) /\ (n = 0 <=> l = NULL)
      /\ (n # 0 => l = s[n])
  <2>1. l = At(s, n) /\ h = At(s, 1)
    BY DEF Threads
  <2>2. n = 0 => l = NULL
    BY <2>1 DEF At
  <2>3. n # 0 => l = s[n] /\ l # NULL /\ h = s[1] /\ r[1] = s[1]
    <3>1. n # 0 => n \in 1 .. n /\ 1 \in 1 .. n
      BY <1>1
    <3>2. n # 0 => s[n] \in D
      BY <1>1, <3>1
    <3>. QED
      BY <1>1, <1>2, <2>1, <3>1, <3>2 DEF At
  <2>. QED
    BY <1>1, <1>2, <2>2, <2>3 DEF At
<1>6. nx[c] = NULL
  BY DEF Threads
<1>7. ASSUME NEW i \in 1 .. Len(r) PROVE nx2[r[i]] = At(r, i + 1)
  <2>1. CASE i = n + 1
    <3>1. r[i] = c /\ c # l
      <4>1. n # 0 => n \in 1 .. n
        BY <1>1
      <4>. QED
        BY <1>1, <1>2, <1>5, <2>1, <4>1
    <3>2. nx2[c] = NULL
      BY <1>6, <3>1
    <3>. QED
      BY <1>1, <1>2, <2>1, <3>1, <3>2 DEF At
  <2>2. CASE i = n /\ n # 0
    BY <1>1, <1>2, <1>5, <2>2 DEF At
  <2>3. CASE i \in 1 .. n /\ i # n
    <3>1. r[i] = s[i] /\ s[i] \in D /\ i + 1 \in 1 .. n /\ i + 1 \in 1 .. Len(r)
      BY <1>1, <1>2, <2>3
    <3>2. s[i] # l
      <4>1. n # 0 /\ n \in 1 .. n
        BY <1>1, <2>3
      <4>. QED
        BY <1>3, <1>5, <2>3, <4>1
    <3>3. nx2[r[i]] = At(s, i + 1)
      BY <2>3, <3>1, <3>2 DEF Threads
    <3>. QED
      BY <1>2, <3>1, <3>3 DEF At
  <2>. QED
    BY <1>1, <1>2, <2>1, <2>2, <2>3
<1>8. ASSUME NEW d \in D, \A i \in 1 .. Len(r) : r[i] # d PROVE nx2[d] = NULL
  <2>1. ASSUME NEW i \in 1 .. n PROVE s[i] # d
    <3>1. i \in 1 .. Len(r)
      BY <1>1, <1>2
    <3>. QED
      BY <1>2, <1>8, <3>1
  <2>2. d # l
    <3>1. n # 0 => n \in 1 .. n
      BY <1>1
    <3>. QED
      BY <1>1, <1>5, <2>1, <3>1
  <2>. QED
    BY <2>1, <2>2 DEF Threads
<1>. QED
  BY <1>1, <1>2, <1>4, <1>5, <1>7, <1>8 DEF Threads, r

\* The sequence s without its element at k.
Without(s, k) == [i \in 1 .. Len(s) - 1 |-> IF i < k THEN s[i] ELSE s[i + 1]]

LEMMA WithoutFacts ==
  ASSUME NEW D, NEW s \in Seq(D), NEW k \in 1 .. Len(s)
  PROVE  /\ Without(s, k) \in Seq(D) /\ Len(Without(s, k)) = Len(s) - 1
         /\ \A i \in 1 .. Len(s) - 1 :
              /\ i < k => Without(s, k)[i] = s[i] /\ i \in 1 .. Len(s)
              /\ i >= k => Without(s, k)[i] = s[i + 1] /\ i + 1 \in 1 .. Len(s)
<1>1. Len(s) \in Nat /\ Len(s) - 1 \in Nat /\ k \in Nat
  OBVIOUS
<1>2. ASSUME NEW i \in 1 .. Len(s) - 1
      PROVE  i \in 1 .. Len(s) /\ i + 1 \in 1 .. Len(s) /\ s[i] \in D /\ s[i + 1] \in D
  BY <1>1
<1>3. Without(s, k) \in [1 .. Len(s) - 1 -> D]
  BY <1>2 DEF Without
<1>4. Without(s, k) \in Seq(D) /\ Len(Without(s, k)) = Len(s) - 1
  BY <1>1, <1>3
<1>. QED
  BY <1>1, <1>2, <1>4 DEF Without

\* The cell c, at k in s, is cut out: what led from lp to c leads on behind c.
Cuts(D, nx, h, l, s, k, lp, c, nx2, h2, l2) ==
  /\ Threads(D, nx, h, l, s) /\ k \in 1 .. Len(s) /\ lp = At(s, k - 1) /\ c = s[k]
  /\ \A d \in D \ {c} : nx2[d] = IF d = lp THEN nx[c] ELSE nx[d]
  /\ h2 = IF lp = NULL THEN nx[c] ELSE h
  /\ l2 = IF c = l \/ nx[c] = NULL THEN lp ELSE l

LEMMA CutThreads ==
  ASSUME NEW D, NEW nx, NEW h, NEW l, NEW s, NEW k, NEW lp, NEW c, NEW nx2, NEW h2, NEW l2,
         Cuts(D, nx, h, l, s, k, lp, c, nx2, h2, l2)
  PROVE  Threads(D \ {c}, nx2, h2, l2, Without(s, k))
<1>. DEFINE r == Without(s, k)
            n == Len(s)
            E == D \ {c}
<1>0. /\ Threads(D, nx, h, l, s) /\ k \in 1 .. Len(s) /\ lp = At(s, k - 1) /\ c = s[k]
      /\ \A d \in D \ {c} : nx2[d] = IF d = lp THEN nx[c] ELSE nx[d]
      /\ h2 = IF lp = NULL THEN nx[c] ELSE h
      /\ l2 = IF c = l \/ nx[c] = NULL THEN lp ELSE l
  BY DEF Cuts
<1>1. s \in Seq(D) /\ n \in Nat /\ D \subseteq Nat \ {NULL} /\ \A i \in 1 .. n : s[i] \in D
  BY <1>0 DEF Threads
<1>2. /\ r \in Seq(D) /\ Len(r) = n - 1
      /\ \A i \in 1 .. n - 1 :
              /\ i < k => r[i] = s[i] /\ i \in 1 .. n
              /\ i >= k => r[i] = s[i + 1] /\ i + 1 \in 1 .. n
  BY <1>0, <1>1, WithoutFacts
<1>. HIDE DEF r
<1>3. \A i, j \in 1 .. n : s[i] = s[j] => i = j
  BY <1>0 DEF Threads
<1>4. k \in Nat /\ k >= 1 /\ k <= n /\ n - 1 \in Nat
  BY <1>0, <1>1
<1>5. \A i \in 1 .. n - 1 : r[i] \in E
  BY <1>0, <1>1, <1>2, <1>3, <1>4
<1>6. r \in Seq(E)
  <2>1. r = [i \in 1 .. n - 1 |-> r[i]]
    BY <1>0, <1>2, <1>4
  <2>2. r \in [1 .. n - 1 -> E]
    BY <1>0, <1>5, <2>1
  <2>. QED
    BY <1>0, <1>4, <2>2
<1>7. \A i, j \in 1 .. Len(r) : r[i] = r[j] => i = j
  <2>. TAKE i, j \in 1 .. Len(r)
  <2>. QED
    BY <1>0, <1>2, <1>3, <1>4
<1>8. nx[c] = At(s, k + 1) /\ h = At(s, 1) /\ l = At(s, n)
  BY <1>0 DEF Threads
<1>9. (IF lp = NULL THEN nx[c] ELSE h) = At(r, 1)
  <2>1. CASE k = 1
    <3>1. lp = NULL
      BY <1>0, <2>1 DEF At
    <3>. QED
      BY <1>0, <1>2, <1>4, <1>8, <2>1, <3>1 DEF At
  <2>2. CASE k # 1
    <3>1. k - 1 \in 1 .. n /\ 1 \in 1 .. n - 1 /\ 1 < k
      BY <1>0, <1>4, <2>2
    <3>2. lp = s[k - 1] /\ lp # NULL
      BY <1>0, <1>1, <3>1 DEF At
    <3>. QED
      BY <1>0, <1>2, <1>4, <1>8, <3>1, <3>2 DEF At
  <2>. QED
    BY <1>0, <2>1, <2>2
<1>10. (IF c = l \/ nx[c] = NULL THEN lp ELSE l) = At(r, Len(r))
  <2>1. CASE k = n
    <3>1. c = l
      BY <1>0, <1>4, <1>8, <2>1 DEF At
    <3>2. lp = At(r, n - 1)
      BY <1>0, <1>2, <1>4, <2>1 DEF At
    <3>. QED
      BY <1>0, <1>2, <3>1, <3>2
  <2>2. CASE k # n
    <3>1. k + 1 \in 1 .. n /\ n - 1 \in 1 .. n - 1 /\ n - 1 >= k /\ (n - 1) + 1 = n /\ n \in 1 .. n
      BY <1>0, <1>4, <2>2
    <3>2. nx[c] = s[k + 1] /\ nx[c] # NULL /\ l = s[n] /\ c # l
      BY <1>0, <1>1, <1>3, <1>8, <2>2, <3>1 DEF At
    <3>3. r[n - 1] = s[n]
      BY <1>0, <1>2, <3>1
    <3>. QED
      BY <1>0, <1>2, <3>1, <3>2, <3>3 DEF At
  <2>. QED
    BY <1>0, <2>1, <2>2
<1>11. ASSUME NEW i \in 1 .. Len(r) PROVE nx2[r[i]] = At(r, i + 1)
  <2>0. i \in 1 .. n - 1 /\ i \in Nat /\ r[i] \in E
    BY <1>0, <1>2, <1>5
  <2>1. CASE i = k - 1
    <3>1. i < k /\ r[i] = s[k - 1] /\ k - 1 \in 1 .. n
      BY <1>0, <1>2, <1>4, <2>0, <2>1
    <3>2. r[i] = lp
      BY <1>0, <3>1 DEF At
    <3>3. nx2[r[i]] = At(s, k + 1)
      BY <1>0, <1>8, <2>0, <3>2
    <3>4. At(s, k + 1) = At(r, i + 1)
      BY <1>0, <1>2, <1>4, <2>1 DEF At
    <3>. QED
      BY <1>0, <3>3, <3>4
  <2>2. CASE i < k - 1
    <3>1. i < k /\ r[i] = s[i] /\ i \in 1 .. n /\ i + 1 < k /\ i + 1 \in 1 .. n - 1 /\ k - 1 \in 1 .. n
          /\ i # k - 1
      BY <1>0, <1>2, <1>4, <2>0, <2>2
    <3>2. r[i] # lp
      BY <1>0, <1>3, <3>1 DEF At
    <3>3. nx2[r[i]] = nx[s[i]]
      BY <1>0, <2>0, <3>1, <3>2
    <3>4. nx[s[i]] = At(s, i + 1)
      BY <1>0, <3>1 DEF Threads
    <3>5. At(s, i + 1) = At(r, i + 1)
      BY <1>0, <1>2, <1>4, <3>1 DEF At
    <3>. QED
      BY <1>0, <3>3, <3>4, <3>5
  <2>3. CASE i >= k
    <3>1. r[i] = s[i + 1] /\ i + 1 \in 1 .. n /\ i + 1 # k - 1
      BY <1>0, <1>2, <1>4, <2>0, <2>3
    <3>2. r[i] # lp
      BY <1>0, <1>1, <1>3, <1>4, <3>1 DEF At
    <3>3. nx2[r[i]] = nx[s[i + 1]]
      BY <1>0, <2>0, <3>1, <3>2
    <3>4. nx[s[i + 1]] = At(s, (i + 1) + 1)
      BY <1>0, <3>1 DEF Threads
    <3>5. At(s, (i + 1) + 1) = At(r, i + 1)
      BY <1>0, <1>2, <1>4, <2>0, <2>3, <3>1 DEF At
    <3>. QED
      BY <1>0, <3>3, <3>4, <3>5
  <2>. QED
    BY <1>0, <1>4, <2>0, <2>1, <2>2, <2>3
<1>12. ASSUME NEW d \in E, \A i \in 1 .. Len(r) : r[i] # d PROVE nx2[d] = NULL
  <2>1. ASSUME NEW i \in 1 .. n PROVE s[i] # d
    <3>1. CASE i = k
      BY <1>0, <3>1
    <3>2. CASE i < k
      <4>1. i \in 1 .. n - 1 /\ r[i] = s[i]
        BY <1>0, <1>2, <1>4, <3>2
      <4>. QED
        BY <1>0, <1>2, <1>12, <4>1
    <3>3. CASE i > k
      <4>1. i - 1 \in 1 .. n - 1 /\ i - 1 >= k /\ (i - 1) + 1 = i
        BY <1>0, <1>4, <3>3
      <4>2. r[i - 1] = s[i]
        BY <1>0, <1>2, <4>1
      <4>. QED
        BY <1>0, <1>2, <1>12, <4>1, <4>2
    <3>. QED
      BY <1>0, <1>4, <3>1, <3>2, <3>3
  <2>2. nx[d] = NULL
    BY <1>0, <2>1 DEF Threads
  <2>3. d # lp
    <3>1. k - 1 \in 1 .. n => s[k - 1] # d
      BY <1>0, <2>1
    <3>2. d # NULL
      BY <1>0, <1>1
    <3>. QED
      BY <1>0, <3>1, <3>2 DEF At
  <2>. QED
    BY <1>0, <2>2, <2>3
<1>. QED
  BY <1>0, <1>1, <1>6, <1>7, <1>9, <1>10, <1>11, <1>12 DEF Threads, r

-----------------------------------------------------------------------------
(* Events that are whole.                                                  *)

Cells == [name : AnyName, value : Text \cup {NoText}, array : Seq(Text), next : Nat]
Mems == UNION {[D -> Cells] : D \in SUBSET (Nat \ {NULL})}
Evs == [mem : Mems, headers : Nat, last_header : Nat, body : Text \cup {NoText},
        uniq : BOOLEAN, subclass : Word]

Nexts(e) == [c \in DOMAIN e.mem |-> e.mem[c].next]

\* What the cells of the list s hold: texts; arrays in the first cell of a
\* name only; if u, names that differ.
Kept(m, s, u) ==
  /\ \A i \in 1 .. Len(s) : m[s[i]].value \in Text
  /\ \A i, j \in 1 .. Len(s) :
       i < j /\ m[s[i]].name = m[s[j]].name => ~ u /\ m[s[j]].array = <<>>

\* The headers of e are s, and distinct if u.
Whole(e, s, u) ==
  /\ e \in Evs /\ IsFiniteSet(DOMAIN e.mem) /\ u \in BOOLEAN
  /\ Threads(DOMAIN e.mem, Nexts(e), e.headers, e.last_header, s)
  /\ Kept(e.mem, s, u)

LEMMA EvFields ==
  ASSUME NEW e \in Evs
  PROVE  /\ e.mem \in [DOMAIN e.mem -> Cells] /\ DOMAIN e.mem \subseteq Nat \ {NULL}
         /\ e.headers \in Nat /\ e.last_header \in Nat /\ e.body \in Text \cup {NoText}
         /\ e.uniq \in BOOLEAN /\ e.subclass \in Word
         /\ e = [mem |-> e.mem, headers |-> e.headers, last_header |-> e.last_header,
                 body |-> e.body, uniq |-> e.uniq, subclass |-> e.subclass]
<1>1. /\ e.mem \in Mems /\ e.headers \in Nat /\ e.last_header \in Nat
      /\ e.body \in Text \cup {NoText} /\ e.uniq \in BOOLEAN /\ e.subclass \in Word
      /\ e = [mem |-> e.mem, headers |-> e.headers, last_header |-> e.last_header,
              body |-> e.body, uniq |-> e.uniq, subclass |-> e.subclass]
  BY DEF Evs
<1>2. PICK D \in SUBSET (Nat \ {NULL}) : e.mem \in [D -> Cells]
  BY <1>1, Zenon DEF Mems
<1>. QED
  BY <1>1, <1>2

LEMMA EvOf ==
  ASSUME NEW D \in SUBSET (Nat \ {NULL}), NEW e, NEW m \in [D -> Cells], NEW h \in Nat, NEW l \in Nat,
         NEW b \in Text \cup {NoText}, NEW u \in BOOLEAN, NEW w \in Word,
         e = [mem |-> m, headers |-> h, last_header |-> l, body |-> b,
              uniq |-> u, subclass |-> w]
  PROVE  e \in Evs
<1>1. m \in Mems
  BY Zenon DEF Mems
<1>. QED
  BY <1>1 DEF Evs

\* What a list is of, from its being whole.
LEMMA WholeFacts ==
  ASSUME NEW e, NEW s, NEW u, Whole(e, s, u)
  PROVE  /\ s \in Seq(DOMAIN e.mem) /\ Len(s) \in Nat
         /\ DOMAIN e.mem \subseteq Nat \ {NULL}
         /\ \A i \in 1 .. Len(s) : s[i] \in DOMAIN e.mem /\ s[i] # NULL
         /\ \A i \in 1 .. Len(s) : e.mem[s[i]] \in Cells /\ e.mem[s[i]].value \in Text
         /\ \A i, j \in 1 .. Len(s) : s[i] = s[j] => i = j
<1>1. /\ s \in Seq(DOMAIN e.mem) /\ DOMAIN e.mem \subseteq Nat \ {NULL} /\ Len(s) \in Nat
      /\ \A i, j \in 1 .. Len(s) : s[i] = s[j] => i = j
  BY DEF Whole, Threads
<1>2. \A i \in 1 .. Len(s) : s[i] \in DOMAIN e.mem /\ s[i] # NULL
  BY <1>1
<1>3. e.mem \in [DOMAIN e.mem -> Cells]
  BY EvFields DEF Whole
<1>. QED
  BY <1>1, <1>2, <1>3 DEF Whole, Kept

LEMMA ListFits ==
  ASSUME NEW e, NEW s, NEW u, Whole(e, s, u)
  PROVE  /\ Cardinality(DOMAIN e.mem) \in Nat
         /\ Len(s) <= Cardinality(DOMAIN e.mem)
<1>. DEFINE D == DOMAIN e.mem
<1>1. IsFiniteSet(D) /\ Cardinality(D) \in Nat
  BY FS_CardinalityType DEF Whole
<1>2. s \in [1 .. Len(s) -> D] /\ Len(s) \in Nat /\ \A i, j \in 1 .. Len(s) : s[i] = s[j] => i = j
  BY WholeFacts
<1>. HIDE DEF D
<1>3. IsFiniteSet(1 .. Len(s)) /\ Cardinality(1 .. Len(s)) = Len(s)
  <2>1. 1 \in Int /\ Len(s) \in Int
    BY <1>2
  <2>2. IsFiniteSet(1 .. Len(s)) /\ Cardinality(1 .. Len(s)) = IF 1 > Len(s) THEN 0 ELSE Len(s) - 1 + 1
    BY <2>1, FS_Interval, Zenon
  <2>. QED
    BY <1>2, <2>2
<1>4. ASSUME Cardinality(D) < Cardinality(1 .. Len(s)) PROVE FALSE
  BY <1>1, <1>2, <1>3, <1>4, FS_PigeonHole
<1>5. Len(s) <= Cardinality(D)
  BY <1>1, <1>2, <1>3, <1>4
<1>. QED
  BY <1>1, <1>5 DEF D

\* Walking a whole event goes through its list.
LEMMA ChainIs ==
  ASSUME NEW e, NEW s, NEW u, Whole(e, s, u)
  PROVE  Chain(e) = s
<1>. DEFINE n == Cardinality(DOMAIN e.mem)
            body(f) == [i \in 0 .. n |-> IF i = 0 THEN e.headers ELSE NextOf(e, f[i - 1])]
            at == CHOOSE f : f = body(f)
            w == [i \in 0 .. n |-> At(s, i + 1)]
<1>1. n \in Nat /\ Len(s) \in Nat /\ Len(s) <= n
  BY ListFits, WholeFacts
<1>2. /\ e.headers = At(s, 1)
      /\ \A i \in 1 .. Len(s) : s[i] \in DOMAIN e.mem /\ s[i] # NULL /\ e.mem[s[i]].next = At(s, i + 1)
  BY WholeFacts DEF Whole, Threads, Nexts
<1>. HIDE DEF n
<1>3. ASSUME NEW i \in Nat \ {0} PROVE NextOf(e, At(s, i)) = At(s, i + 1)
  <2>1. CASE i \in 1 .. Len(s)
    BY <1>2, <2>1 DEF NextOf, At
  <2>2. CASE i \notin 1 .. Len(s)
    <3>1. i + 1 \notin 1 .. Len(s)
      BY <1>1, <2>2
    <3>. QED
      BY <2>2, <3>1 DEF NextOf, At
  <2>. QED
    BY <2>1, <2>2
<1>4. w = body(w)
  <2>1. ASSUME NEW i \in 0 .. n PROVE w[i] = body(w)[i]
    <3>1. CASE i = 0
      BY <1>2, <3>1
    <3>2. CASE i # 0
      <4>1. i - 1 \in 0 .. n /\ (i - 1) + 1 = i /\ i \in Nat \ {0}
        BY <1>1, <3>2
      <4>2. w[i - 1] = At(s, i)
        BY <4>1
      <4>3. w[i] = At(s, i + 1)
        OBVIOUS
      <4>. HIDE DEF w
      <4>4. body(w)[i] = NextOf(e, w[i - 1])
        BY <3>2
      <4>. QED
        BY <1>3, <4>1, <4>2, <4>3, <4>4
    <3>. QED
      BY <3>1, <3>2
  <2>. QED
    BY <2>1
<1>5. at = body(at)
  BY <1>4, Zenon
<1>. HIDE DEF at
<1>. DEFINE T == {i \in Nat : i <= n => at[i] = At(s, i + 1)}
<1>6. 0 \in T
  BY <1>1, <1>2, <1>5
<1>7. ASSUME NEW i \in T, i < n PROVE i + 1 \in T
  <2>1. i \in Nat /\ i + 1 \in Nat \ {0} /\ at[i] = At(s, i + 1) /\ i + 1 \in 0 .. n /\ i + 1 # 0 /\ (i + 1) - 1 = i /\ i + 1 \in Nat
    BY <1>1, <1>7
  <2>2. at[i + 1] = NextOf(e, at[i])
    BY <1>5, <2>1
  <2>3. at[i + 1] = At(s, (i + 1) + 1)
    BY <1>3, <2>1, <2>2
  <2>. QED
    BY <2>1, <2>3
<1>8. ASSUME NEW i \in 0 .. n PROVE at[i] = At(s, i + 1)
  <2>1. T \in SUBSET Nat
    OBVIOUS
  <2>2. 0 .. n \subseteq T
    <3>. HIDE DEF T
    <3>. QED
      BY <1>1, <1>6, <1>7, <2>1, UpTo
  <2>. QED
    BY <2>2
<1>9. {j \in 0 .. n : at[j] # NULL} = 0 .. Len(s) - 1
  <2>1. ASSUME NEW j \in 0 .. n PROVE at[j] # NULL <=> j \in 0 .. Len(s) - 1
    BY <1>1, <1>2, <1>8 DEF At
  <2>. QED
    BY <1>1, <2>1
<1>10. Cardinality(0 .. Len(s) - 1) = Len(s)
  <2>1. 0 \in Int /\ Len(s) - 1 \in Int
    BY <1>1
  <2>2. Cardinality(0 .. Len(s) - 1) = IF 0 > Len(s) - 1 THEN 0 ELSE (Len(s) - 1) - 0 + 1
    BY <2>1, FS_Interval, Zenon
  <2>. QED
    BY <1>1, <2>2
<1>11. Chain(e) = [i \in 1 .. Cardinality({j \in 0 .. n : at[j] # NULL}) |-> at[i - 1]]
  BY DEF Chain, n, at
<1>12. ASSUME NEW i \in 1 .. Len(s) PROVE at[i - 1] = s[i]
  <2>1. i - 1 \in 0 .. n /\ (i - 1) + 1 = i
    BY <1>1
  <2>. QED
    BY <1>8, <2>1 DEF At
<1>13. Chain(e) = [i \in 1 .. Len(s) |-> s[i]]
  BY <1>9, <1>10, <1>11, <1>12, Zenon
<1>14. s = [i \in 1 .. Len(s) |-> s[i]]
  BY WholeFacts
<1>. QED
  BY <1>13, <1>14

\* The header found is the first of its name, if there is one.
LEMMA HeaderFound ==
  ASSUME NEW e, NEW s, NEW u, Whole(e, s, u), NEW n
  PROVE  \/ /\ get_header_ptr(e, n) = NULL
            /\ \A i \in 1 .. Len(s) : e.mem[s[i]].name # n
         \/ \E k \in 1 .. Len(s) :
              /\ get_header_ptr(e, n) = s[k] /\ s[k] # NULL /\ e.mem[s[k]].name = n
              /\ \A i \in 1 .. Len(s) : e.mem[s[i]].name = n => k <= i
<1>. DEFINE F == {i \in DOMAIN s : e.mem[s[i]].name = n}
<1>1. Chain(e) = s
  BY ChainIs
<1>2. s \in Seq(DOMAIN e.mem) /\ Len(s) \in Nat /\ DOMAIN s = 1 .. Len(s)
      /\ \A i \in 1 .. Len(s) : s[i] # NULL
  BY WholeFacts
<1>3. get_header_ptr(e, n) = IF F = {} THEN NULL ELSE s[Min(F)]
  BY <1>1 DEF get_header_ptr
<1>4. F # {} => Min(F) \in F /\ \A y \in F : Min(F) <= y
  <2>1. F \in SUBSET (0 .. Len(s))
    BY <1>2
  <2>. HIDE DEF F
  <2>. QED
    BY <1>2, <2>1, Extremes
<1>5. CASE F = {}
  BY <1>2, <1>3, <1>5
<1>6. CASE F # {}
  BY <1>2, <1>3, <1>4, <1>6
<1>. QED
  BY <1>5, <1>6

LEMMA NewCellFree ==
  ASSUME NEW e, e \in Evs, IsFiniteSet(DOMAIN e.mem)
  PROVE  NewCell(e) \in Nat \ {NULL} /\ NewCell(e) \notin DOMAIN e.mem
<1>. DEFINE D == DOMAIN e.mem
            n == Cardinality(D)
            free == (1 .. n + 1) \ D
<1>1. n \in Nat
  BY FS_CardinalityType
<1>2. free # {}
  <2>1. SUFFICES ASSUME 1 .. n + 1 \in SUBSET D PROVE FALSE
    OBVIOUS
  <2>2. Cardinality(1 .. n + 1) <= Cardinality(D)
    BY <2>1, FS_Subset
  <2>3. Cardinality(1 .. n + 1) = n + 1
    BY <1>1, FS_Interval
  <2>. HIDE DEF D
  <2>. QED
    BY <1>1, <2>2, <2>3
<1>3. free \in SUBSET Nat
  BY <1>1
<1>4. \E c \in free : \A d \in free : c <= d
  <2>. HIDE DEF free
  <2>. QED
    BY <1>2, <1>3, LeastNatural
<1>5. NewCell(e) = CHOOSE c \in free : \A d \in free : c <= d
  BY DEF NewCell
<1>6. NewCell(e) \in free
  <2>. HIDE DEF free
  <2>. QED
    BY <1>4, <1>5, Zenon
<1>. QED
  BY <1>1, <1>6 DEF NULL

-----------------------------------------------------------------------------
(* Texts.                                                                  *)

LEMMA NoTextIsNone == NoText \notin Text /\ NoText \notin Seq(Token)
<1>1. "NULL" \notin Token
  BY EventAssumption DEF Token, ARR, SEP
<1>2. NoText \notin Seq(Token)
  BY <1>1 DEF NoText
<1>. QED
  BY <1>2 DEF Text

\* Texts that may follow a mark.
Loose == {t \in Seq(Token) : \A i \in 2 .. Len(t) : t[i] = ARR => t[i - 1] \in {ARR, SEP}}

LEMMA TextIsLoose == Text \subseteq Loose
<1>1. ASSUME NEW t \in Text PROVE t \in Loose
  <2>1. t \in Seq(Token) /\ \A i \in DOMAIN t : t[i] = ARR => (i > 1 => t[i - 1] \in {ARR, SEP})
    BY DEF Text, Marked
  <2>2. \A i \in 2 .. Len(t) : i \in DOMAIN t /\ i > 1
    BY <2>1
  <2>. QED
    BY <2>1, <2>2 DEF Loose
<1>. QED
  BY <1>1

LEMMA LooseMarked ==
  ASSUME NEW t \in Loose
  PROVE  <<ARR>> \o t \in Text
<1>. DEFINE r == <<ARR>> \o t
<1>1. t \in Seq(Token) /\ ARR \in Token /\ \A i \in 2 .. Len(t) : t[i] = ARR => t[i - 1] \in {ARR, SEP}
  BY DEF Loose, Token
<1>2. r \in Seq(Token) /\ Len(r) = Len(t) + 1 /\ r[1] = ARR /\ DOMAIN r = 1 .. Len(t) + 1
      /\ \A i \in 1 .. Len(t) : r[i + 1] = t[i]
  BY <1>1
<1>. HIDE DEF r
<1>3. ASSUME NEW i \in DOMAIN r, r[i] = ARR, i > 1 PROVE r[i - 1] \in {ARR, SEP}
  <2>1. CASE i = 2
    BY <1>2, <2>1
  <2>2. CASE i # 2
    <3>1. i - 1 \in 2 .. Len(t) /\ i - 1 \in 1 .. Len(t) /\ (i - 1) - 1 \in 1 .. Len(t)
          /\ (i - 1) + 1 = i /\ ((i - 1) - 1) + 1 = i - 1
      BY <1>1, <1>2, <1>3, <2>2
    <3>2. r[i] = t[i - 1] /\ r[i - 1] = t[(i - 1) - 1]
      BY <1>2, <3>1
    <3>. QED
      BY <1>1, <1>3, <3>1, <3>2
  <2>. QED
    BY <2>1, <2>2
<1>4. Marked(r)
  BY <1>2, <1>3 DEF Marked
<1>. QED
  BY <1>2, <1>4 DEF Text, r

LEMMA LooseJoined ==
  ASSUME NEW t \in Loose, NEW p \in Text
  PROVE  t \o <<SEP>> \o p \in Loose
<1>. DEFINE q == t \o <<SEP>>
            r == q \o p
            n == Len(t)
<1>1. /\ t \in Seq(Token) /\ p \in Seq(Token) /\ SEP \in Token /\ ARR # SEP
      /\ n \in Nat /\ Len(p) \in Nat
      /\ \A i \in 2 .. n : t[i] = ARR => t[i - 1] \in {ARR, SEP}
      /\ \A i \in 2 .. Len(p) : p[i] = ARR => p[i - 1] \in {ARR, SEP}
  BY TextIsLoose DEF Loose, Token, ARR, SEP
<1>2. q \in Seq(Token) /\ Len(q) = n + 1 /\ q[n + 1] = SEP /\ \A i \in 1 .. n : q[i] = t[i]
  BY <1>1
<1>. HIDE DEF q
<1>3. /\ r \in Seq(Token) /\ Len(r) = n + 1 + Len(p)
      /\ \A i \in 1 .. n + 1 : r[i] = q[i]
      /\ \A i \in 1 .. Len(p) : r[n + 1 + i] = p[i]
  <2>1. \A i \in 1 .. Len(p) : n + 1 + i \in 1 .. Len(q) + Len(p) /\ n + 1 + i - Len(q) = i /\ n + 1 + i > Len(q)
    BY <1>1, <1>2
  <2>2. /\ r \in Seq(Token) /\ Len(r) = Len(q) + Len(p)
        /\ \A i \in 1 .. Len(q) + Len(p) : r[i] = IF i <= Len(q) THEN q[i] ELSE p[i - Len(q)]
    BY <1>1, <1>2, ConcatProperties
  <2>3. \A i \in 1 .. n + 1 : r[i] = q[i]
    BY <1>1, <1>2, <2>2
  <2>4. \A i \in 1 .. Len(p) : r[n + 1 + i] = p[i]
    BY <1>1, <1>2, <2>1, <2>2
  <2>. QED
    BY <1>1, <1>2, <2>2, <2>3, <2>4
<1>. HIDE DEF r
<1>4. ASSUME NEW i \in 2 .. Len(r), r[i] = ARR PROVE r[i - 1] \in {ARR, SEP}
  <2>1. CASE i <= n
    <3>1. i \in 1 .. n + 1 /\ i - 1 \in 1 .. n + 1 /\ i \in 1 .. n /\ i - 1 \in 1 .. n /\ i \in 2 .. n
      BY <1>1, <2>1
    <3>2. r[i] = t[i] /\ r[i - 1] = t[i - 1]
      BY <1>2, <1>3, <3>1
    <3>. QED
      BY <1>1, <1>4, <3>1, <3>2
  <2>2. CASE i = n + 1
    <3>1. r[i] = SEP
      BY <1>1, <1>2, <1>3, <2>2
    <3>. QED
      BY <1>1, <1>4, <3>1
  <2>3. CASE i = n + 2
    <3>1. i - 1 = n + 1 /\ n + 1 \in 1 .. n + 1
      BY <1>1, <2>3
    <3>. QED
      BY <1>2, <1>3, <3>1
  <2>4. CASE i > n + 2
    <3>. DEFINE j == i - n - 1
    <3>1. j \in 2 .. Len(p) /\ j \in 1 .. Len(p) /\ j - 1 \in 1 .. Len(p)
          /\ n + 1 + j = i /\ n + 1 + (j - 1) = i - 1
      BY <1>1, <1>3, <2>4
    <3>. HIDE DEF j
    <3>2. r[i] = p[j] /\ r[i - 1] = p[j - 1]
      BY <1>3, <3>1
    <3>. QED
      BY <1>1, <1>4, <3>1, <3>2
  <2>. QED
    BY <1>1, <2>1, <2>2, <2>3, <2>4
<1>5. r \in Loose
  BY <1>3, <1>4 DEF Loose
<1>. QED
  BY <1>5 DEF r, q

\* What an array is sent as is a text.
\* The loop that joins the elements of an array: r[i] has i of them.
JoinSteps(a, r) ==
  /\ r[1] = a[1] /\ \A i \in 2 .. Len(a) : r[i] = r[i - 1] \o <<SEP>> \o a[i]
  /\ \A i \in 1 .. Len(a) : r[i] \in Loose

LEMMA RenderSteps ==
  ASSUME NEW a \in Seq(Text), Len(a) >= 2
  PROVE  \E r : JoinSteps(a, r) /\ Render(a) = <<ARR>> \o r[Len(a)]
<1>. DEFINE s == Tail(a)
            n == Len(s)
            base == Head(a)
            G == [i \in 1 .. n |-> [t \in Loose |-> t \o <<SEP>> \o s[i]]]
            body(f) == [S \in SUBSET DOMAIN s |->
                          IF S = {} THEN base
                          ELSE f[S \ {Max(S)}] \o <<SEP>> \o s[Max(S)]]
            it == CHOOSE f : f = body(f)
<1>1. s \in Seq(Text) /\ n \in Nat /\ DOMAIN s = 1 .. n /\ base \in Text /\ a[1] = base
      /\ n = Len(a) - 1 /\ \A i \in 1 .. n : s[i] \in Text /\ s[i] = a[i + 1]
  BY HeadTailProperties
<1>2. base \in Loose
  BY <1>1, TextIsLoose
<1>. HIDE DEF s, n, base
<1>3. \A i \in 1 .. n : \A t \in Loose : G[i][t] = t \o <<SEP>> \o s[i] /\ G[i][t] \in Loose
  BY <1>1, LooseJoined
<1>. HIDE DEF G
<1>4. PICK f : FoldsTo(n, base, G, Loose, f)
  <2>1. n \in Nat /\ \A i \in 1 .. n : \A x \in Loose : G[i][x] \in Loose
    BY <1>1, <1>3, Zenon
  <2>. QED
    BY <1>2, <2>1, FoldsExist, Zenon
<1>5. \A S \in SUBSET (1 .. n) : S # {} => Max(S) \in 1 .. n /\ S \ {Max(S)} \in SUBSET (1 .. n)
  BY <1>1, Places
<1>6. f = body(f)
  <2>1. \A S \in SUBSET (1 .. n) :
          f[S] = IF S = {} THEN base ELSE f[S \ {Max(S)}] \o <<SEP>> \o s[Max(S)]
    BY <1>3, <1>4, <1>5, Zenon DEF FoldsTo
  <2>. QED
    BY <1>1, <1>4, <2>1, Zenon DEF FoldsTo
<1>7. it = body(it)
  BY <1>6, Zenon
<1>. HIDE DEF it
<1>8. \A S \in SUBSET (1 .. n) :
        it[S] = IF S = {} THEN base ELSE it[S \ {Max(S)}] \o <<SEP>> \o s[Max(S)]
  BY <1>1, <1>7, Zenon
<1>9. \A S \in SUBSET (1 .. n) : it[S] \in Loose
  <2>1. it[{}] \in Loose
    <3>1. {} \in SUBSET (1 .. n)
      OBVIOUS
    <3>. QED
      BY <1>2, <1>8, <3>1, Zenon
  <2>2. \A S \in SUBSET (1 .. n) : S # {} /\ it[S \ {Max(S)}] \in Loose => it[S] \in Loose
    <3>1. \A i \in 1 .. n : s[i] \in Text
      BY <1>1
    <3>. QED
      BY <1>5, <1>8, <3>1, LooseJoined, Zenon
  <2>. QED
    BY <1>1, <2>1, <2>2, FoldsIn
<1>10. Render(a) = IF Len(a) = 1 THEN a[1] ELSE <<ARR>> \o it[DOMAIN s]
  BY DEF Render, FoldLeft, MapThenFoldSet, it, s, base
<1>. DEFINE r == [i \in 1 .. n + 1 |-> it[1 .. i - 1]]
<1>11. ASSUME NEW i \in 2 .. n + 1 PROVE r[i] = r[i - 1] \o <<SEP>> \o a[i]
  <2>. DEFINE j == i - 1
  <2>1. j \in 1 .. n /\ j + 1 = i /\ i \in 1 .. n + 1 /\ j \in 1 .. n + 1
    BY <1>1
  <2>2. r[i] = it[1 .. j] /\ r[j] = it[1 .. j - 1]
    BY <2>1
  <2>. HIDE DEF r, j
  <2>3. /\ 1 .. j \in SUBSET (1 .. n) /\ 1 .. j # {} /\ Max(1 .. j) = j
        /\ (1 .. j) \ {j} = 1 .. j - 1
    BY <1>1, <2>1, FirstPlaces
  <2>4. it[1 .. j] = it[1 .. j - 1] \o <<SEP>> \o s[j]
    BY <1>8, <2>3, Zenon
  <2>5. s[j] = a[i]
    BY <1>1, <2>1
  <2>. QED
    BY <2>2, <2>4, <2>5 DEF j
<1>12. r[1] = a[1]
  <2>1. {} \in SUBSET (1 .. n) /\ 1 .. 0 = {} /\ 1 \in 1 .. n + 1 /\ 1 - 1 = 0
    BY <1>1
  <2>2. r[1] = it[{}]
    BY <2>1
  <2>. HIDE DEF r
  <2>. QED
    BY <1>1, <1>8, <2>1, <2>2, Zenon
<1>13. ASSUME NEW i \in 1 .. n + 1 PROVE r[i] \in Loose
  <2>1. 1 .. i - 1 \in SUBSET (1 .. n) /\ r[i] = it[1 .. i - 1]
    BY <1>1
  <2>. HIDE DEF r
  <2>. QED
    BY <1>9, <2>1, Zenon
<1>14. r[n + 1] = it[DOMAIN s]
  <2>1. n + 1 \in 1 .. n + 1 /\ (n + 1) - 1 = n
    BY <1>1
  <2>. QED
    BY <1>1, <2>1
<1>. HIDE DEF r
<1>15. Len(a) = n + 1 /\ Len(a) # 1
  BY <1>1
<1>16. JoinSteps(a, r)
  BY <1>11, <1>12, <1>13, <1>15, Zenon DEF JoinSteps
<1>17. Render(a) = <<ARR>> \o r[Len(a)]
  BY <1>10, <1>14, <1>15
<1>. QED
  BY <1>16, <1>17

LEMMA RenderText ==
  ASSUME NEW arr \in Seq(Text), arr # <<>>
  PROVE  Render(arr) \in Text
<1>1. Len(arr) \in Nat /\ Len(arr) # 0
  OBVIOUS
<1>2. CASE Len(arr) = 1
  <2>1. arr[1] \in Text
    BY <1>2
  <2>. QED
    BY <1>2, <2>1 DEF Render
<1>3. CASE Len(arr) >= 2
  <2>1. PICK r : JoinSteps(arr, r) /\ Render(arr) = <<ARR>> \o r[Len(arr)]
    BY <1>3, RenderSteps
  <2>2. r[Len(arr)] \in Loose
    BY <1>1, <1>3, <2>1 DEF JoinSteps
  <2>. QED
    BY <2>1, <2>2, LooseMarked
<1>4. Len(arr) = 1 \/ Len(arr) >= 2
  <2>. DEFINE n == Len(arr)
  <2>1. n \in Nat /\ n # 0
    BY <1>1
  <2>. HIDE DEF n
  <2>2. n = 1 \/ n >= 2
    BY <2>1
  <2>. QED
    BY <2>2 DEF n
<1>. QED
  BY <1>2, <1>3, <1>4

-----------------------------------------------------------------------------
(* What the steps that change the list do.                                 *)

\* Event f has what e has beside its headers.
Same(e, f) == f.body = e.body /\ f.uniq = e.uniq /\ f.subclass = e.subclass

\* Cell d of f holds what it holds in e.
AsIs(e, f, d) ==
  /\ f.mem[d].name = e.mem[d].name /\ f.mem[d].value = e.mem[d].value
  /\ f.mem[d].array = e.mem[d].array

HasNo(e, s, n) == \A i \in 1 .. Len(s) : e.mem[s[i]].name # n

Blank(n) == [name |-> n, value |-> NoText, array |-> <<>>, next |-> NULL]

\* The same list in a larger memory.
LEMMA NewHeaderIs ==
  ASSUME NEW e, NEW s, NEW u, Whole(e, s, u), NEW n \in AnyName,
         NEW f, f = new_header(e, n), NEW c, c = NewCell(e)
  PROVE  /\ Whole(f, s, u) /\ Same(e, f)
         /\ c # NULL /\ c \in DOMAIN f.mem /\ f.mem[c] = Blank(n)
         /\ \A i \in 1 .. Len(s) : s[i] # c
         /\ \A d \in DOMAIN e.mem : d \in DOMAIN f.mem /\ f.mem[d] = e.mem[d]
<1>. DEFINE D == DOMAIN e.mem
            E == D \cup {c}
            m == [d \in E |-> IF d = c THEN Blank(n) ELSE e.mem[d]]
<1>1. /\ e \in Evs /\ IsFiniteSet(D) /\ u \in BOOLEAN
      /\ Threads(D, Nexts(e), e.headers, e.last_header, s) /\ Kept(e.mem, s, u)
  BY DEF Whole
<1>2. c \in Nat \ {NULL} /\ c \notin D
  BY <1>1, NewCellFree
<1>3. /\ e.mem \in [D -> Cells] /\ D \subseteq Nat \ {NULL}
      /\ e.headers \in Nat /\ e.last_header \in Nat /\ e.body \in Text \cup {NoText}
      /\ e.uniq \in BOOLEAN /\ e.subclass \in Word
      /\ e = [mem |-> e.mem, headers |-> e.headers, last_header |-> e.last_header,
              body |-> e.body, uniq |-> e.uniq, subclass |-> e.subclass]
  BY <1>1, EvFields
<1>4. f = [mem |-> m, headers |-> e.headers, last_header |-> e.last_header,
           body |-> e.body, uniq |-> e.uniq, subclass |-> e.subclass]
  BY <1>3 DEF new_header, Blank
<1>5. Blank(n) \in Cells
  BY DEF Blank, Cells, NULL
<1>6. m \in [E -> Cells] /\ E \in SUBSET (Nat \ {NULL}) /\ m[c] = Blank(n)
      /\ \A d \in D : d \in E /\ d # c /\ m[d] = e.mem[d]
  BY <1>2, <1>3, <1>5
<1>. HIDE DEF m, E
<1>7. f \in Evs
  BY <1>3, <1>4, <1>6, EvOf
<1>8. f.mem = m /\ DOMAIN f.mem = E /\ f.headers = e.headers /\ f.last_header = e.last_header
      /\ Same(e, f)
  BY <1>4, <1>6 DEF Same
<1>9. IsFiniteSet(E)
  BY <1>1, FS_AddElement DEF E
<1>10. s \in Seq(D) /\ \A i \in 1 .. Len(s) : s[i] \in D
  BY WholeFacts
<1>11. Nexts(f)[c] = NULL /\ \A d \in D : Nexts(f)[d] = Nexts(e)[d]
  BY <1>6, <1>8 DEF Nexts, Blank, E
<1>12. Threads(E, Nexts(f), f.headers, f.last_header, s)
  <2>1. s \in Seq(E)
    BY <1>10 DEF E
  <2>2. \A i \in 1 .. Len(s) : Nexts(f)[s[i]] = At(s, i + 1)
    BY <1>1, <1>10, <1>11 DEF Threads
  <2>3. \A d \in E : (\A i \in 1 .. Len(s) : s[i] # d) => Nexts(f)[d] = NULL
    BY <1>1, <1>11 DEF Threads, E
  <2>. QED
    BY <1>1, <1>6, <1>8, <2>1, <2>2, <2>3 DEF Threads
<1>13. Kept(f.mem, s, u)
  <2>1. \A i \in 1 .. Len(s) : f.mem[s[i]] = e.mem[s[i]]
    BY <1>6, <1>8, <1>10
  <2>. QED
    BY <1>1, <2>1 DEF Kept
<1>14. Whole(f, s, u)
  BY <1>1, <1>7, <1>8, <1>9, <1>12, <1>13 DEF Whole
<1>. QED
  BY <1>2, <1>6, <1>8, <1>10, <1>14 DEF E

\* In f, cell c has another value or array.
Rewrites(e, c, f) ==
  /\ f \in Evs /\ Same(e, f)
  /\ f.headers = e.headers /\ f.last_header = e.last_header
  /\ DOMAIN f.mem = DOMAIN e.mem
  /\ \A b \in DOMAIN e.mem \ {c} : f.mem[b] = e.mem[b]
  /\ f.mem[c].name = e.mem[c].name /\ f.mem[c].next = e.mem[c].next
  /\ f.mem[c].value \in Text

LEMMA PutIs ==
  ASSUME NEW e \in Evs, NEW c \in DOMAIN e.mem, NEW r \in Cells, r.value \in Text,
         r.name = e.mem[c].name, r.next = e.mem[c].next, NEW f, f = [e EXCEPT !.mem[c] = r]
  PROVE  Rewrites(e, c, f) /\ f.mem[c] = r
<1>. DEFINE D == DOMAIN e.mem
            m == [e.mem EXCEPT ![c] = r]
<1>1. /\ e.mem \in [D -> Cells] /\ D \in SUBSET (Nat \ {NULL})
      /\ e.headers \in Nat /\ e.last_header \in Nat /\ e.body \in Text \cup {NoText}
      /\ e.uniq \in BOOLEAN /\ e.subclass \in Word
      /\ e = [mem |-> e.mem, headers |-> e.headers, last_header |-> e.last_header,
              body |-> e.body, uniq |-> e.uniq, subclass |-> e.subclass]
  BY EvFields
<1>2. f = [mem |-> m, headers |-> e.headers, last_header |-> e.last_header,
           body |-> e.body, uniq |-> e.uniq, subclass |-> e.subclass]
  BY <1>1
<1>3. m \in [D -> Cells] /\ m[c] = r /\ \A b \in D \ {c} : m[b] = e.mem[b]
  BY <1>1
<1>. HIDE DEF m
<1>4. f \in Evs
  BY <1>1, <1>2, <1>3, EvOf
<1>5. f.mem = m /\ f.headers = e.headers /\ f.last_header = e.last_header /\ Same(e, f)
  BY <1>2 DEF Same
<1>. QED
  BY <1>3, <1>4, <1>5 DEF Rewrites

\* A cell gets a value, and with it an array.
LEMMA StoredIs ==
  ASSUME NEW e \in Evs, NEW c \in DOMAIN e.mem, NEW sense, NEW d \in Text,
         NEW f, f = Stored(e, sense, c, d)
  PROVE  Rewrites(e, c, f) /\ (Stacking(sense) \/ f.mem[c].array = e.mem[c].array)
<1>. DEFINE D == DOMAIN e.mem
            h == e.mem[c]
            old == IF h.value # NoText /\ h.array = <<>> THEN <<h.value>> ELSE h.array
            new == IF Pushing(sense) THEN Append(old, d) ELSE <<d>> \o old
            r == IF Stacking(sense) THEN [h EXCEPT !.array = new, !.value = Render(new)]
                 ELSE [h EXCEPT !.value = d]
<1>1. /\ e.mem \in [D -> Cells] /\ D \in SUBSET (Nat \ {NULL})
      /\ e.headers \in Nat /\ e.last_header \in Nat /\ e.body \in Text \cup {NoText}
      /\ e.uniq \in BOOLEAN /\ e.subclass \in Word
      /\ e = [mem |-> e.mem, headers |-> e.headers, last_header |-> e.last_header,
              body |-> e.body, uniq |-> e.uniq, subclass |-> e.subclass]
  BY EvFields
<1>2. /\ h.value \in Text \cup {NoText} /\ h.array \in Seq(Text) /\ h.name \in AnyName /\ h.next \in Nat
      /\ h = [name |-> h.name, value |-> h.value, array |-> h.array, next |-> h.next]
  BY <1>1 DEF Cells
<1>3. old \in Seq(Text)
  BY <1>2
<1>4. new \in Seq(Text) /\ new # <<>>
  <2>. HIDE DEF old
  <2>1. /\ Append(old, d) \in Seq(Text) /\ <<d>> \o old \in Seq(Text)
        /\ Append(old, d)[Len(old) + 1] = d /\ Len(Append(old, d)) = Len(old) + 1
        /\ Len(<<d>> \o old) = Len(old) + 1 /\ Len(old) \in Nat
    BY <1>3
  <2>2. Append(old, d) # <<>> /\ <<d>> \o old # <<>>
    BY <2>1
  <2>. QED
    BY <2>1, <2>2
<1>5. Render(new) \in Text
  BY <1>4, RenderText
<1>6. f = [e EXCEPT !.mem[c] = r]
  BY DEF Stored
<1>7. r \in Cells /\ r.value \in Text /\ r.name = h.name /\ r.next = h.next
      /\ (Stacking(sense) \/ r.array = h.array)
  <2>. HIDE DEF new, h
  <2>1. CASE Stacking(sense)
    <3>1. r = [name |-> h.name, value |-> Render(new), array |-> new, next |-> h.next]
      BY <1>2, <2>1
    <3>. HIDE DEF r
    <3>. QED
      BY <1>2, <1>4, <1>5, <2>1, <3>1 DEF Cells
  <2>2. CASE ~ Stacking(sense)
    <3>1. r = [name |-> h.name, value |-> d, array |-> h.array, next |-> h.next]
      BY <1>2, <2>2
    <3>. HIDE DEF r
    <3>. QED
      BY <1>2, <2>2, <3>1 DEF Cells
  <2>. QED
    BY <2>1, <2>2
<1>. HIDE DEF r
<1>. QED
  BY <1>6, <1>7, PutIs

\* The texts of header h with d among them, and what its cell holds then.
Stacked(sense, h, d) ==
  LET old == IF h.value # NoText /\ h.array = <<>> THEN <<h.value>> ELSE h.array
  IN  IF Pushing(sense) THEN Append(old, d) ELSE <<d>> \o old

LEMMA StoredView ==
  ASSUME NEW e \in Evs, NEW c \in DOMAIN e.mem, NEW sense, NEW d, NEW f, f = Stored(e, sense, c, d)
  PROVE  /\ f.mem[c].value = IF Stacking(sense) THEN Render(Stacked(sense, e.mem[c], d)) ELSE d
         /\ f.mem[c].array = IF Stacking(sense) THEN Stacked(sense, e.mem[c], d) ELSE e.mem[c].array
<1>. DEFINE h == e.mem[c]
            new == Stacked(sense, h, d)
            r == IF Stacking(sense) THEN [h EXCEPT !.array = new, !.value = Render(new)]
                 ELSE [h EXCEPT !.value = d]
<1>1. e.mem \in [DOMAIN e.mem -> Cells] /\ h \in Cells
  BY EvFields
<1>2. h = [name |-> h.name, value |-> h.value, array |-> h.array, next |-> h.next]
  BY <1>1 DEF Cells
<1>3. f = [e EXCEPT !.mem[c] = r]
  BY Zenon DEF Stored, Stacked
<1>. HIDE DEF h, new
<1>4. f.mem[c] = r
  <2>1. e = [mem |-> e.mem, headers |-> e.headers, last_header |-> e.last_header,
             body |-> e.body, uniq |-> e.uniq, subclass |-> e.subclass]
    BY EvFields
  <2>. HIDE DEF r
  <2>2. f.mem = [e.mem EXCEPT ![c] = r]
    BY <1>3, <2>1
  <2>. QED
    BY <1>1, <2>2
<1>5. CASE Stacking(sense)
  <2>1. r = [h EXCEPT !.array = new, !.value = Render(new)]
    BY <1>5
  <2>. HIDE DEF r
  <2>2. r = [name |-> h.name, value |-> Render(new), array |-> new, next |-> h.next]
    BY <1>2, <2>1
  <2>. QED
    BY <1>4, <1>5, <2>2 DEF h, new
<1>6. CASE ~ Stacking(sense)
  <2>1. r = [name |-> h.name, value |-> d, array |-> h.array, next |-> h.next]
    BY <1>2, <1>6
  <2>. HIDE DEF r
  <2>. QED
    BY <1>4, <1>6, <2>1 DEF h, new
<1>. QED
  BY <1>5, <1>6 DEF h, new

LEMMA RenderOne == \A d : Render(<<d>>) = d
BY DEF Render

\* In a cell outside the list, or in the first of its name, that is sound.
LEMMA RewrittenWhole ==
  ASSUME NEW e, NEW s, NEW u, Whole(e, s, u), NEW c, NEW f, Rewrites(e, c, f),
         \A k \in 1 .. Len(s) : s[k] = c =>
           f.mem[c].array = e.mem[c].array \/ \A i \in 1 .. Len(s) : e.mem[s[i]].name = e.mem[c].name => k <= i
  PROVE  Whole(f, s, u)
<1>1. /\ e \in Evs /\ IsFiniteSet(DOMAIN e.mem) /\ u \in BOOLEAN
      /\ Threads(DOMAIN e.mem, Nexts(e), e.headers, e.last_header, s) /\ Kept(e.mem, s, u)
  BY DEF Whole
<1>2. /\ f \in Evs /\ f.headers = e.headers /\ f.last_header = e.last_header
      /\ DOMAIN f.mem = DOMAIN e.mem
      /\ \A b \in DOMAIN e.mem \ {c} : f.mem[b] = e.mem[b]
      /\ f.mem[c].name = e.mem[c].name /\ f.mem[c].next = e.mem[c].next
      /\ f.mem[c].value \in Text
  BY DEF Rewrites
<1>3. Nexts(f) = Nexts(e)
  <2>1. \A b \in DOMAIN e.mem : f.mem[b].next = e.mem[b].next
    BY <1>2
  <2>. QED
    BY <1>2, <2>1, Zenon DEF Nexts
<1>4. /\ Len(s) \in Nat /\ \A i \in 1 .. Len(s) : s[i] \in DOMAIN e.mem
      /\ \A i, j \in 1 .. Len(s) : s[i] = s[j] => i = j
  BY WholeFacts
<1>5. /\ \A i \in 1 .. Len(s) : f.mem[s[i]].name = e.mem[s[i]].name
      /\ \A i \in 1 .. Len(s) : f.mem[s[i]].value \in Text
  BY <1>1, <1>2, <1>4 DEF Kept
<1>6. ASSUME NEW i \in 1 .. Len(s), NEW j \in 1 .. Len(s), i < j,
             f.mem[s[i]].name = f.mem[s[j]].name
      PROVE  ~ u /\ f.mem[s[j]].array = <<>>
  <2>1. ~ u /\ e.mem[s[j]].array = <<>>
    BY <1>1, <1>5, <1>6 DEF Kept
  <2>2. CASE s[j] # c
    BY <1>2, <1>4, <2>1, <2>2
  <2>3. CASE s[j] = c
    <3>1. ~ (j <= i)
      BY <1>4, <1>6
    <3>2. f.mem[c].array = e.mem[c].array
      BY <1>5, <1>6, <2>3, <3>1
    <3>. QED
      BY <1>2, <2>1, <2>3, <3>2
  <2>. QED
    BY <2>2, <2>3
<1>7. Kept(f.mem, s, u)
  BY <1>5, <1>6 DEF Kept
<1>. QED
  BY <1>1, <1>2, <1>3, <1>7 DEF Whole

\* A cell outside the list goes to an end of it.
LEMMA LinkedWhole ==
  ASSUME NEW e, NEW s, NEW u, Whole(e, s, u), NEW c \in DOMAIN e.mem,
         \A i \in 1 .. Len(s) : s[i] # c,
         e.mem[c].value \in Text, NEW sense, NEW f, f = Linked(e, sense, c),
         \/ HasNo(e, s, e.mem[c].name)
         \/ ~ u /\ e.mem[c].array = <<>> /\ ~ OnTop(sense)
  PROVE  /\ Whole(f, IF OnTop(sense) THEN <<c>> \o s ELSE Append(s, c), u) /\ Same(e, f)
         /\ DOMAIN f.mem = DOMAIN e.mem
         /\ \A d \in DOMAIN e.mem : AsIs(e, f, d)
<1>. DEFINE D == DOMAIN e.mem
            h == e.headers
            l == e.last_header
            to == IF OnTop(sense) THEN c ELSE l
            nx == IF OnTop(sense) THEN h ELSE c
            m == IF to = NULL THEN e.mem ELSE [e.mem EXCEPT ![to].next = nx]
            h2 == IF OnTop(sense) \/ l = NULL THEN c ELSE h
            l2 == IF OnTop(sense) /\ l # NULL THEN l ELSE c
            r == IF OnTop(sense) THEN <<c>> \o s ELSE Append(s, c)
<1>1. /\ e \in Evs /\ IsFiniteSet(D) /\ u \in BOOLEAN
      /\ Threads(D, Nexts(e), h, l, s) /\ Kept(e.mem, s, u)
  BY DEF Whole
<1>2. /\ e.mem \in [D -> Cells] /\ D \in SUBSET (Nat \ {NULL})
      /\ e.headers \in Nat /\ e.last_header \in Nat /\ e.body \in Text \cup {NoText}
      /\ e.uniq \in BOOLEAN /\ e.subclass \in Word
      /\ e = [mem |-> e.mem, headers |-> e.headers, last_header |-> e.last_header,
              body |-> e.body, uniq |-> e.uniq, subclass |-> e.subclass]
  BY <1>1, EvFields
<1>3. c # NULL /\ c \in Nat /\ (l = NULL \/ l \in D)
  <2>1. l = At(s, Len(s))
    BY <1>1 DEF Threads
  <2>2. \A i \in 1 .. Len(s) : s[i] \in D
    BY WholeFacts
  <2>. QED
    BY <1>2, <2>1, <2>2 DEF At
<1>4. f = [mem |-> m, headers |-> h2, last_header |-> l2,
           body |-> e.body, uniq |-> e.uniq, subclass |-> e.subclass]
  <2>1. CASE OnTop(sense)
    BY <1>2, <1>3, <2>1 DEF Linked
  <2>2. CASE ~ OnTop(sense)
    BY <1>2, <1>3, <2>2 DEF Linked
  <2>. QED
    BY <2>1, <2>2
<1>5. to = NULL \/ to \in D
  BY <1>3
<1>6. /\ m \in [D -> Cells]
      /\ \A d \in D : m[d].next = IF d = to THEN nx ELSE e.mem[d].next
      /\ \A d \in D : m[d].name = e.mem[d].name /\ m[d].value = e.mem[d].value
                      /\ m[d].array = e.mem[d].array
  <2>1. nx \in Nat
    BY <1>2, <1>3
  <2>2. \A d \in D : e.mem[d] \in Cells
    BY <1>2
  <2>. HIDE DEF to, nx
  <2>3. CASE to = NULL
    BY <1>2, <2>3
  <2>4. CASE to # NULL
    <3>1. to \in D /\ e.mem[to] \in Cells
      BY <1>5, <2>2, <2>4
    <3>2. /\ [e.mem[to] EXCEPT !.next = nx] \in Cells
          /\ [e.mem[to] EXCEPT !.next = nx].next = nx
          /\ [e.mem[to] EXCEPT !.next = nx].name = e.mem[to].name
          /\ [e.mem[to] EXCEPT !.next = nx].value = e.mem[to].value
          /\ [e.mem[to] EXCEPT !.next = nx].array = e.mem[to].array
      BY <2>1, <3>1 DEF Cells
    <3>3. m = [d \in D |-> IF d = to THEN [e.mem[to] EXCEPT !.next = nx] ELSE e.mem[d]]
      BY <1>2, <2>4, <3>1
    <3>. HIDE DEF m
    <3>. QED
      BY <2>2, <3>1, <3>2, <3>3
  <2>. QED
    BY <2>3, <2>4
<1>7. h2 \in Nat /\ l2 \in Nat
  BY <1>2, <1>3
<1>. HIDE DEF m
<1>8. f \in Evs
  <2>. HIDE DEF h2, l2
  <2>. QED
    BY <1>2, <1>4, <1>6, <1>7, EvOf
<1>9. f.mem = m /\ f.headers = h2 /\ f.last_header = l2 /\ Same(e, f) /\ DOMAIN f.mem = D
  <2>. HIDE DEF h2, l2
  <2>. QED
    BY <1>4, <1>6 DEF Same
<1>10. Nexts(f) = [d \in D |-> m[d].next] /\ Nexts(e) = [d \in D |-> e.mem[d].next]
  BY <1>9 DEF Nexts
<1>11. Threads(D, Nexts(f), h2, l2, r)
  <2>1. CASE OnTop(sense)
    <3>1. Nexts(f)[c] = h /\ \A d \in D \ {c} : Nexts(f)[d] = Nexts(e)[d]
      BY <1>6, <1>10, <2>1
    <3>2. Threads(D, Nexts(f), c, IF l = NULL THEN c ELSE l, <<c>> \o s)
      <4>. HIDE DEF h, l, D
      <4>. QED
        BY <1>1, <3>1, TopThreads DEF D
    <3>. QED
      BY <2>1, <3>2
  <2>2. CASE ~ OnTop(sense)
    <3>1. (l # NULL => Nexts(f)[l] = c) /\ \A d \in D : d # l => Nexts(f)[d] = Nexts(e)[d]
      BY <1>3, <1>6, <1>10, <2>2
    <3>2. Threads(D, Nexts(f), IF l = NULL THEN c ELSE h, c, Append(s, c))
      <4>. HIDE DEF h, l, D
      <4>. QED
        BY <1>1, <3>1, BottomThreads DEF D
    <3>. QED
      BY <2>2, <3>2
  <2>. QED
    BY <2>1, <2>2
<1>12. s \in Seq(D) /\ Len(s) \in Nat /\ \A i \in 1 .. Len(s) : s[i] \in D
  BY WholeFacts
<1>13. \A d \in D : AsIs(e, f, d)
  BY <1>6, <1>9 DEF AsIs
<1>14. Kept(f.mem, r, u)
  <2>1. CASE OnTop(sense)
    <3>1. /\ r[1] = c /\ Len(r) = Len(s) + 1
          /\ \A i \in 1 .. Len(r) : i # 1 => i - 1 \in 1 .. Len(s) /\ r[i] = s[i - 1]
      BY <1>12, <2>1
    <3>2. HasNo(e, s, e.mem[c].name)
      BY <2>1
    <3>. HIDE DEF r
    <3>3. \A i \in 1 .. Len(r) : f.mem[r[i]].value \in Text
      BY <1>1, <1>12, <1>13, <3>1 DEF Kept, AsIs
    <3>4. ASSUME NEW i \in 1 .. Len(r), NEW j \in 1 .. Len(r), i < j,
                 f.mem[r[i]].name = f.mem[r[j]].name
          PROVE  ~ u /\ f.mem[r[j]].array = <<>>
      <4>1. j # 1 /\ j - 1 \in 1 .. Len(s) /\ r[j] = s[j - 1] /\ r[j] \in D
        BY <1>12, <3>1, <3>4
      <4>2. i # 1
        BY <1>13, <3>1, <3>2, <3>4, <4>1 DEF HasNo, AsIs
      <4>3. i - 1 \in 1 .. Len(s) /\ r[i] = s[i - 1] /\ r[i] \in D /\ i - 1 < j - 1
        BY <1>12, <3>1, <3>4, <4>2
      <4>. QED
        BY <1>1, <1>13, <3>4, <4>1, <4>3 DEF Kept, AsIs
    <3>. QED
      BY <3>3, <3>4 DEF Kept
  <2>2. CASE ~ OnTop(sense)
    <3>1. /\ r[Len(s) + 1] = c /\ Len(r) = Len(s) + 1
          /\ \A i \in 1 .. Len(r) : i # Len(s) + 1 => i \in 1 .. Len(s) /\ r[i] = s[i]
      BY <1>12, <2>2
    <3>. HIDE DEF r
    <3>3. \A i \in 1 .. Len(r) : f.mem[r[i]].value \in Text
      BY <1>1, <1>12, <1>13, <3>1 DEF Kept, AsIs
    <3>4. ASSUME NEW i \in 1 .. Len(r), NEW j \in 1 .. Len(r), i < j,
                 f.mem[r[i]].name = f.mem[r[j]].name
          PROVE  ~ u /\ f.mem[r[j]].array = <<>>
      <4>1. i # Len(s) + 1 /\ i \in 1 .. Len(s) /\ r[i] = s[i] /\ r[i] \in D
        BY <1>12, <3>1, <3>4
      <4>2. CASE j = Len(s) + 1
        <5>1. ~ HasNo(e, s, e.mem[c].name)
          BY <1>13, <3>1, <3>4, <4>1, <4>2 DEF HasNo, AsIs
        <5>. QED
          BY <1>13, <3>1, <4>2, <5>1 DEF AsIs
      <4>3. CASE j # Len(s) + 1
        <5>1. j \in 1 .. Len(s) /\ r[j] = s[j] /\ r[j] \in D
          BY <1>12, <3>1, <4>3
        <5>. QED
          BY <1>1, <1>13, <3>4, <4>1, <5>1 DEF Kept, AsIs
      <4>. QED
        BY <4>2, <4>3
    <3>. QED
      BY <3>3, <3>4 DEF Kept
  <2>. QED
    BY <2>1, <2>2
<1>15. Whole(f, r, u)
  <2>. HIDE DEF r, h2, l2
  <2>. QED
    BY <1>1, <1>8, <1>9, <1>11, <1>14 DEF Whole
<1>. QED
  BY <1>9, <1>13, <1>15

\* A cell leaves the list.
Unlinks(e, s, u, k, lp, c, f) ==
  /\ Whole(e, s, u) /\ k \in 1 .. Len(s)
  /\ lp = At(s, k - 1) /\ c = s[k] /\ f = Unlinked(e, lp, c)

LEMMA UnlinkedWhole ==
  ASSUME NEW e, NEW s, NEW u, NEW k, NEW lp, NEW c, NEW f, Unlinks(e, s, u, k, lp, c, f)
  PROVE  /\ Whole(f, Without(s, k), u) /\ Same(e, f)
         /\ DOMAIN f.mem = DOMAIN e.mem \ {c}
         /\ \A d \in DOMAIN f.mem : AsIs(e, f, d)
<1>0. Whole(e, s, u) /\ k \in 1 .. Len(s) /\ lp = At(s, k - 1) /\ c = s[k] /\ f = Unlinked(e, lp, c)
  BY DEF Unlinks
<1>. USE <1>0
<1>. DEFINE D == DOMAIN e.mem
            E == D \ {c}
            h == e.headers
            l == e.last_header
            nx == e.mem[c].next
            q == IF lp = NULL THEN e.mem ELSE [e.mem EXCEPT ![lp].next = nx]
            m == [d \in E |-> q[d]]
            h2 == IF lp = NULL THEN nx ELSE h
            l2 == IF c = l \/ nx = NULL THEN lp ELSE l
            r == Without(s, k)
<1>1. /\ e \in Evs /\ IsFiniteSet(D) /\ u \in BOOLEAN
      /\ Threads(D, Nexts(e), h, l, s) /\ Kept(e.mem, s, u)
  BY DEF Whole
<1>2. /\ e.mem \in [D -> Cells] /\ D \in SUBSET (Nat \ {NULL})
      /\ e.headers \in Nat /\ e.last_header \in Nat /\ e.body \in Text \cup {NoText}
      /\ e.uniq \in BOOLEAN /\ e.subclass \in Word
      /\ e = [mem |-> e.mem, headers |-> e.headers, last_header |-> e.last_header,
              body |-> e.body, uniq |-> e.uniq, subclass |-> e.subclass]
  BY <1>1, EvFields
<1>3. s \in Seq(D) /\ Len(s) \in Nat /\ (\A i \in 1 .. Len(s) : s[i] \in D) /\ c \in D
  BY WholeFacts
<1>4. (lp = NULL \/ lp \in D) /\ nx \in Nat /\ lp \in Nat
  <2>1. e.mem[c] \in Cells
    BY <1>2, <1>3
  <2>. QED
    BY <1>2, <1>3, <2>1 DEF At, Cells, NULL
<1>5. /\ q \in [D -> Cells]
      /\ \A d \in D : q[d].next = IF d = lp THEN nx ELSE e.mem[d].next
      /\ \A d \in D : q[d].name = e.mem[d].name /\ q[d].value = e.mem[d].value
                      /\ q[d].array = e.mem[d].array
  <2>2. \A d \in D : e.mem[d] \in Cells
    BY <1>2
  <2>. HIDE DEF nx
  <2>3. CASE lp = NULL
    BY <1>2, <2>3
  <2>4. CASE lp # NULL
    <3>1. lp \in D /\ e.mem[lp] \in Cells
      BY <1>4, <2>2, <2>4
    <3>2. /\ [e.mem[lp] EXCEPT !.next = nx] \in Cells
          /\ [e.mem[lp] EXCEPT !.next = nx].next = nx
          /\ [e.mem[lp] EXCEPT !.next = nx].name = e.mem[lp].name
          /\ [e.mem[lp] EXCEPT !.next = nx].value = e.mem[lp].value
          /\ [e.mem[lp] EXCEPT !.next = nx].array = e.mem[lp].array
      BY <1>4, <3>1 DEF Cells
    <3>3. q = [d \in D |-> IF d = lp THEN [e.mem[lp] EXCEPT !.next = nx] ELSE e.mem[d]]
      BY <1>2, <2>4, <3>1
    <3>. HIDE DEF q
    <3>. QED
      BY <2>2, <3>1, <3>2, <3>3
  <2>. QED
    BY <2>3, <2>4
<1>6. f = [mem |-> m, headers |-> h2, last_header |-> l2,
           body |-> e.body, uniq |-> e.uniq, subclass |-> e.subclass]
  <2>1. DOMAIN q = D
    BY <1>5
  <2>2. CASE lp = NULL
    BY <1>2, <2>1, <2>2 DEF Unlinked
  <2>3. CASE lp # NULL
    BY <1>2, <2>1, <2>3 DEF Unlinked
  <2>. QED
    BY <2>2, <2>3
<1>. HIDE DEF q
<1>7. h2 \in Nat /\ l2 \in Nat /\ E \in SUBSET (Nat \ {NULL})
  BY <1>2, <1>4
<1>8. m \in [E -> Cells] /\ \A d \in E : m[d] = q[d]
  BY <1>5
<1>. HIDE DEF m
<1>9. f \in Evs
  <2>. HIDE DEF h2, l2, E
  <2>. QED
    BY <1>2, <1>6, <1>7, <1>8, EvOf
<1>10. f.mem = m /\ f.headers = h2 /\ f.last_header = l2 /\ Same(e, f) /\ DOMAIN f.mem = E
  <2>. HIDE DEF h2, l2, E
  <2>. QED
    BY <1>6, <1>8 DEF Same
<1>11. \A d \in E : AsIs(e, f, d)
  BY <1>5, <1>8, <1>10 DEF AsIs
<1>12. Threads(E, Nexts(f), h2, l2, r)
  <2>1. Nexts(e)[c] = nx
    BY <1>3 DEF Nexts
  <2>2. \A d \in D \ {c} : Nexts(f)[d] = IF d = lp THEN Nexts(e)[c] ELSE Nexts(e)[d]
    BY <1>5, <1>8, <1>10, <2>1 DEF Nexts
  <2>3. Cuts(D, Nexts(e), h, l, s, k, lp, c, Nexts(f), h2, l2)
    BY <1>1, <2>1, <2>2 DEF Cuts
  <2>4. Threads(D \ {c}, Nexts(f), h2, l2, Without(s, k))
    <3>. HIDE DEF h, l, D, h2, l2
    <3>. QED
      BY <2>3, CutThreads
  <2>. QED
    BY <2>4
<1>13. /\ r \in Seq(D) /\ Len(r) = Len(s) - 1
       /\ \A i \in 1 .. Len(s) - 1 :
              /\ i < k => r[i] = s[i] /\ i \in 1 .. Len(s)
              /\ i >= k => r[i] = s[i + 1] /\ i + 1 \in 1 .. Len(s)
  BY <1>3, WithoutFacts
<1>14. \A i \in 1 .. Len(r) : r[i] \in E
  <2>1. r \in Seq(E)
    BY <1>12 DEF Threads
  <2>. QED
    BY <2>1
<1>. HIDE DEF r, E
<1>15. Kept(f.mem, r, u)
  <2>1. ASSUME NEW i \in 1 .. Len(r)
        PROVE  \E a \in 1 .. Len(s) : r[i] = s[a] /\ a = IF i < k THEN i ELSE i + 1
    BY <1>3, <1>13
  <2>2. ASSUME NEW i \in 1 .. Len(r) PROVE f.mem[r[i]].value \in Text
    <3>1. PICK a \in 1 .. Len(s) : r[i] = s[a]
      BY <2>1
    <3>2. AsIs(e, f, s[a]) /\ e.mem[s[a]].value \in Text
      BY <1>1, <1>11, <1>14, <3>1 DEF Kept
    <3>. QED
      BY <3>1, <3>2 DEF AsIs
  <2>3. ASSUME NEW i \in 1 .. Len(r), NEW j \in 1 .. Len(r), i < j,
               f.mem[r[i]].name = f.mem[r[j]].name
        PROVE  ~ u /\ f.mem[r[j]].array = <<>>
    <3>1. PICK a \in 1 .. Len(s) : r[i] = s[a] /\ a = IF i < k THEN i ELSE i + 1
      BY <2>1
    <3>2. PICK b \in 1 .. Len(s) : r[j] = s[b] /\ b = IF j < k THEN j ELSE j + 1
      BY <2>1
    <3>3. a < b
      BY <1>3, <1>13, <2>3, <3>1, <3>2
    <3>4. AsIs(e, f, s[a]) /\ AsIs(e, f, s[b])
      BY <1>11, <1>14, <3>1, <3>2
    <3>. QED
      BY <1>1, <2>3, <3>1, <3>2, <3>3, <3>4 DEF Kept, AsIs
  <2>. QED
    BY <2>2, <2>3 DEF Kept
<1>16. IsFiniteSet(E)
  BY <1>1, FS_RemoveElement DEF E
<1>17. Whole(f, r, u)
  <2>. HIDE DEF h2, l2
  <2>. QED
    BY <1>1, <1>9, <1>10, <1>12, <1>15, <1>16 DEF Whole
<1>. QED
  BY <1>10, <1>11, <1>17 DEF r, E

-----------------------------------------------------------------------------
(* Deleting headers.                                                       *)

\* The list r is s without some of the cells called n; g tells the places.
Thins(e, s, n, r, g) ==
  /\ g \in [1 .. Len(r) -> 1 .. Len(s)]
  /\ \A i, j \in 1 .. Len(r) : i < j => g[i] < g[j]
  /\ \A j \in 1 .. Len(r) : r[j] = s[g[j]]
  /\ \A x \in 1 .. Len(s) : (\A j \in 1 .. Len(r) : g[j] # x) => e.mem[s[x]].name = n

\* Event a.e is e when the cells before i have been looked at, k of them kept.
Looked(e, s, u, n, v, i, a, r, g, k) ==
  /\ Whole(a.e, r, u) /\ Same(e, a.e) /\ k \in 0 .. i /\ Len(r) = k + (Len(s) - i)
  /\ a.lp = At(r, k)
  /\ Thins(e, s, n, r, g)
  /\ \A j \in 1 .. k : g[j] <= i /\ (v = <<>> => e.mem[r[j]].name # n)
  /\ \A j \in k + 1 .. Len(r) : g[j] = i + (j - k)
  /\ \A d \in DOMAIN a.e.mem : d \in DOMAIN e.mem /\ AsIs(e, a.e, d)

LEMMA LookedKeeps ==
  ASSUME NEW e, NEW s, NEW u, NEW n, NEW v, NEW i \in 1 .. Len(s), Len(s) \in Nat,
         NEW a, NEW r, NEW g, NEW k, Looked(e, s, u, n, v, i - 1, a, r, g, k),
         v = <<>> => a.e.mem[s[i]].name # n
  PROVE  Looked(e, s, u, n, v, i, [e |-> a.e, lp |-> s[i]], r, g, k + 1)
<1>1. /\ Whole(a.e, r, u) /\ Same(e, a.e) /\ k \in 0 .. i - 1 /\ Len(r) = k + (Len(s) - (i - 1))
      /\ Thins(e, s, n, r, g)
      /\ \A j \in 1 .. k : g[j] <= i - 1 /\ (v = <<>> => e.mem[r[j]].name # n)
      /\ \A j \in k + 1 .. Len(r) : g[j] = (i - 1) + (j - k)
      /\ \A d \in DOMAIN a.e.mem : d \in DOMAIN e.mem /\ AsIs(e, a.e, d)
  BY DEF Looked
<1>2. k \in Nat /\ i \in Nat /\ k + 1 \in 1 .. Len(r) /\ k + 1 \in 0 .. i /\ Len(r) \in Nat
      /\ Len(r) = (k + 1) + (Len(s) - i)
  BY <1>1
<1>3. g[k + 1] = i /\ r[k + 1] = s[i]
  <2>1. g[k + 1] = (i - 1) + ((k + 1) - k)
    BY <1>1, <1>2
  <2>2. g[k + 1] = i
    BY <1>2, <2>1
  <2>. QED
    BY <1>1, <1>2, <2>2 DEF Thins
<1>4. s[i] = At(r, k + 1)
  BY <1>2, <1>3 DEF At
<1>5. v = <<>> => e.mem[r[k + 1]].name # n
  <2>1. s[i] \in DOMAIN a.e.mem
    BY <1>1, <1>2, <1>3, WholeFacts
  <2>. QED
    BY <1>1, <1>3, <2>1 DEF AsIs
<1>6. ASSUME NEW j \in 1 .. k + 1 PROVE g[j] <= i /\ (v = <<>> => e.mem[r[j]].name # n)
  <2>1. CASE j = k + 1
    BY <1>2, <1>3, <1>5, <2>1
  <2>2. CASE j # k + 1
    <3>1. j \in 1 .. k /\ j \in 1 .. Len(r)
      BY <1>2, <2>2
    <3>2. g[j] \in 1 .. Len(s)
      BY <1>1, <3>1 DEF Thins
    <3>3. g[j] <= i - 1 /\ (v = <<>> => e.mem[r[j]].name # n)
      BY <1>1, <3>1, Zenon
    <3>4. g[j] <= i
      <4>1. g[j] \in Int /\ i \in Int /\ g[j] <= i - 1
        BY <1>2, <3>2, <3>3
      <4>. QED
        BY <4>1
    <3>. QED
      BY <3>3, <3>4
  <2>. QED
    BY <2>1, <2>2
<1>7. ASSUME NEW j \in (k + 1) + 1 .. Len(r) PROVE g[j] = i + (j - (k + 1))
  <2>0. j \in Int /\ k \in Int /\ i \in Int /\ Len(r) \in Int /\ (k + 1) + 1 <= j /\ j <= Len(r)
    BY <1>2
  <2>1. j \in k + 1 .. Len(r) /\ (i - 1) + (j - k) = i + (j - (k + 1))
    BY <2>0
  <2>. QED
    BY <1>1, <2>1
<1>. QED
  BY <1>1, <1>2, <1>4, <1>6, <1>7 DEF Looked

LEMMA LookedDrops ==
  ASSUME NEW e, NEW s, NEW u, NEW n, NEW v, NEW i \in 1 .. Len(s), Len(s) \in Nat,
         NEW a, NEW r, NEW g, NEW k, Looked(e, s, u, n, v, i - 1, a, r, g, k),
         a.e.mem[s[i]].name = n
  PROVE  Looked(e, s, u, n, v, i, [e |-> Unlinked(a.e, a.lp, s[i]), lp |-> a.lp],
                Without(r, k + 1), Without(g, k + 1), k)
<1>. DEFINE f == Unlinked(a.e, a.lp, s[i])
            q == Without(r, k + 1)
            w == Without(g, k + 1)
<1>1. /\ Whole(a.e, r, u) /\ Same(e, a.e) /\ k \in 0 .. i - 1 /\ Len(r) = k + (Len(s) - (i - 1))
      /\ a.lp = At(r, k)
      /\ \A j \in 1 .. k : g[j] <= i - 1 /\ (v = <<>> => e.mem[r[j]].name # n)
      /\ \A j \in k + 1 .. Len(r) : g[j] = (i - 1) + (j - k)
      /\ \A d \in DOMAIN a.e.mem : d \in DOMAIN e.mem /\ AsIs(e, a.e, d)
  BY DEF Looked
<1>2. /\ g \in [1 .. Len(r) -> 1 .. Len(s)]
      /\ \A x, y \in 1 .. Len(r) : x < y => g[x] < g[y]
      /\ \A j \in 1 .. Len(r) : r[j] = s[g[j]]
      /\ \A x \in 1 .. Len(s) : (\A j \in 1 .. Len(r) : g[j] # x) => e.mem[s[x]].name = n
  BY DEF Looked, Thins
<1>3. k \in Nat /\ i \in Nat /\ k + 1 \in 1 .. Len(r) /\ Len(r) \in Nat /\ k \in 0 .. i
      /\ Len(r) - 1 = k + (Len(s) - i) /\ Len(r) - 1 \in Nat /\ (k + 1) - 1 = k
  <2>1. k \in 0 .. i - 1 /\ Len(r) = k + (Len(s) - (i - 1))
    BY <1>1
  <2>. DEFINE m == Len(r)
              o == Len(s)
  <2>2. o \in Nat /\ i \in 1 .. o /\ k \in 0 .. i - 1 /\ m = k + (o - (i - 1))
    BY <2>1
  <2>. HIDE DEF m, o
  <2>3. /\ k \in Nat /\ i \in Nat /\ k + 1 \in 1 .. m /\ m \in Nat /\ k \in 0 .. i
        /\ m - 1 = k + (o - i) /\ m - 1 \in Nat /\ (k + 1) - 1 = k
    BY <2>2
  <2>. QED
    BY <2>3 DEF m, o
<1>4. g[k + 1] = i /\ r[k + 1] = s[i]
  <2>1. g[k + 1] = (i - 1) + ((k + 1) - k)
    BY <1>1, <1>3
  <2>2. g[k + 1] = i
    BY <1>3, <2>1
  <2>. QED
    BY <1>2, <1>3, <2>2
<1>5. /\ Whole(f, q, u) /\ Same(a.e, f) /\ DOMAIN f.mem = DOMAIN a.e.mem \ {s[i]}
      /\ \A d \in DOMAIN f.mem : AsIs(a.e, f, d)
  <2>. DEFINE b == a.e
              lp == a.lp
              c == s[i]
              m == k + 1
              p == Without(r, m)
  <2>1. Unlinks(b, r, u, m, lp, c, f)
    BY <1>1, <1>3, <1>4 DEF Unlinks
  <2>. HIDE DEF b, lp, c, f, m
  <2>2. /\ Whole(f, p, u) /\ Same(b, f) /\ DOMAIN f.mem = DOMAIN b.mem \ {c}
        /\ \A d \in DOMAIN f.mem : AsIs(b, f, d)
    BY <2>1, UnlinkedWhole
  <2>. QED
    BY <2>2 DEF b, c, m
<1>6. /\ Len(q) = Len(r) - 1
      /\ \A j \in 1 .. Len(r) - 1 :
           /\ j < k + 1 => q[j] = r[j] /\ j \in 1 .. Len(r)
           /\ j >= k + 1 => q[j] = r[j + 1] /\ j + 1 \in 1 .. Len(r)
  <2>1. r \in Seq(DOMAIN a.e.mem)
    BY <1>1, WholeFacts
  <2>. QED
    BY <1>3, <2>1, WithoutFacts
<1>7. /\ w \in [1 .. Len(r) - 1 -> 1 .. Len(s)]
      /\ \A j \in 1 .. Len(r) - 1 :
           /\ j < k + 1 => w[j] = g[j]
           /\ j >= k + 1 => w[j] = g[j + 1]
  <2>1. g \in Seq(1 .. Len(s)) /\ Len(g) = Len(r) /\ k + 1 \in 1 .. Len(g)
    <3>. DEFINE m == Len(r)
                D == 1 .. Len(s)
    <3>1. g \in [1 .. m -> D] /\ m \in Nat /\ k + 1 \in 1 .. m
      BY <1>2, <1>3
    <3>. HIDE DEF m, D
    <3>2. g \in Seq(D) /\ Len(g) = m
      BY <3>1
    <3>. QED
      BY <3>1, <3>2 DEF m, D
  <2>2. /\ w \in Seq(1 .. Len(s)) /\ Len(w) = Len(r) - 1
        /\ \A j \in 1 .. Len(r) - 1 :
             /\ j < k + 1 => w[j] = g[j] /\ j \in 1 .. Len(r)
             /\ j >= k + 1 => w[j] = g[j + 1] /\ j + 1 \in 1 .. Len(r)
    <3>. DEFINE D == 1 .. Len(s)
                m == k + 1
    <3>1. g \in Seq(D) /\ m \in 1 .. Len(g)
      BY <2>1
    <3>. HIDE DEF D, m
    <3>2. /\ Without(g, m) \in Seq(D) /\ Len(Without(g, m)) = Len(g) - 1
          /\ \A j \in 1 .. Len(g) - 1 :
              /\ j < m => Without(g, m)[j] = g[j] /\ j \in 1 .. Len(g)
              /\ j >= m => Without(g, m)[j] = g[j + 1] /\ j + 1 \in 1 .. Len(g)
      BY <3>1, WithoutFacts
    <3>. QED
      BY <2>1, <3>2 DEF D, m
  <2>. HIDE DEF w
  <2>. QED
    BY <2>2
<1>. HIDE DEF f, q, w
<1>8. Thins(e, s, n, q, w)
  <2>1. \A j \in 1 .. Len(r) : g[j] \in 1 .. Len(s)
    BY <1>2
  <2>2. ASSUME NEW x \in 1 .. Len(q), NEW y \in 1 .. Len(q), x < y PROVE w[x] < w[y]
    <3>1. CASE y < k + 1
      BY <1>2, <1>3, <1>6, <1>7, <2>2, <3>1
    <3>2. CASE x >= k + 1
      BY <1>2, <1>3, <1>6, <1>7, <2>2, <3>2
    <3>3. CASE x < k + 1 /\ y >= k + 1
      <4>1. x < y + 1
        BY <2>2
      <4>. QED
        BY <1>2, <1>3, <1>6, <1>7, <3>3, <4>1
    <3>. QED
      BY <1>3, <1>6, <3>1, <3>2, <3>3
  <2>3. ASSUME NEW j \in 1 .. Len(q) PROVE q[j] = s[w[j]]
    BY <1>2, <1>3, <1>6, <1>7
  <2>4. ASSUME NEW x \in 1 .. Len(s), \A j \in 1 .. Len(q) : w[j] # x
        PROVE  e.mem[s[x]].name = n
    <3>1. CASE x = i
      <4>1. s[i] \in DOMAIN a.e.mem
        BY <1>1, <1>3, <1>4, WholeFacts
      <4>. QED
        BY <1>1, <3>1, <4>1 DEF AsIs
    <3>2. CASE x # i
      <4>1. ASSUME NEW j \in 1 .. Len(r) PROVE g[j] # x
        <5>1. CASE j < k + 1
          <6>1. j \in 1 .. Len(q) /\ w[j] = g[j]
            BY <1>3, <1>6, <1>7, <5>1
          <6>. QED
            BY <2>4, <6>1
        <5>2. CASE j = k + 1
          BY <1>4, <3>2, <5>2
        <5>3. CASE j > k + 1
          <6>1. j - 1 \in 1 .. Len(q) /\ j - 1 >= k + 1 /\ (j - 1) + 1 = j
            BY <1>3, <1>6, <5>3
          <6>2. w[j - 1] = g[j]
            BY <1>6, <1>7, <6>1
          <6>. QED
            BY <2>4, <6>1, <6>2
        <5>. QED
          BY <1>3, <5>1, <5>2, <5>3
      <4>. QED
        BY <1>2, <4>1
    <3>. QED
      BY <3>1, <3>2
  <2>. QED
    BY <1>6, <1>7, <2>2, <2>3, <2>4 DEF Thins
<1>9. a.lp = At(q, k)
  BY <1>1, <1>3, <1>6 DEF At
<1>10. ASSUME NEW j \in 1 .. k PROVE w[j] <= i /\ (v = <<>> => e.mem[q[j]].name # n)
  <2>0. j \in Int /\ k \in Int /\ i \in Int /\ Len(r) \in Int /\ 1 <= j /\ j <= k /\ k + 1 <= Len(r)
    BY <1>3
  <2>1. j \in 1 .. Len(r) - 1 /\ j < k + 1
    BY <2>0
  <2>2. w[j] = g[j] /\ q[j] = r[j] /\ w[j] \in 1 .. Len(s)
    BY <1>6, <1>7, <2>1
  <2>3. g[j] <= i - 1 /\ (v = <<>> => e.mem[r[j]].name # n)
    BY <1>1, Zenon
  <2>4. w[j] <= i
    <3>1. w[j] \in Int /\ w[j] <= i - 1
      BY <2>2, <2>3
    <3>. QED
      BY <2>0, <3>1
  <2>. QED
    BY <2>2, <2>3, <2>4
<1>11. ASSUME NEW j \in k + 1 .. Len(q) PROVE w[j] = i + (j - k)
  <2>0. j \in Int /\ k \in Int /\ k >= 0 /\ i \in Int /\ Len(r) \in Int /\ k + 1 <= j /\ j <= Len(r) - 1
    BY <1>3, <1>6
  <2>1. j \in 1 .. Len(r) - 1 /\ j >= k + 1 /\ j + 1 \in k + 1 .. Len(r)
        /\ (i - 1) + ((j + 1) - k) = i + (j - k)
    BY <2>0
  <2>2. w[j] = g[j + 1]
    BY <1>7, <2>1, Zenon
  <2>3. g[j + 1] = (i - 1) + ((j + 1) - k)
    BY <1>1, <2>1, Zenon
  <2>. QED
    BY <2>1, <2>2, <2>3
<1>12. Same(e, f) /\ \A d \in DOMAIN f.mem : d \in DOMAIN e.mem /\ AsIs(e, f, d)
  BY <1>1, <1>5 DEF Same, AsIs
<1>13. Len(q) = k + (Len(s) - i)
  BY <1>3, <1>6
<1>. DEFINE z == [e |-> f, lp |-> a.lp]
<1>14. z.e = f /\ z.lp = a.lp
  OBVIOUS
<1>. HIDE DEF z
<1>15. Looked(e, s, u, n, v, i, z, q, w, k)
  BY <1>3, <1>5, <1>8, <1>9, <1>10, <1>11, <1>12, <1>13, <1>14 DEF Looked
<1>. QED
  BY <1>15 DEF z, f, q, w

\* What is left when headers called n were deleted.
Left(e, s, n, f, r, g) ==
  /\ Same(e, f) /\ Thins(e, s, n, r, g)
  /\ \A d \in DOMAIN f.mem : d \in DOMAIN e.mem /\ AsIs(e, f, d)

LEMMA DeletedWhole ==
  ASSUME NEW e, NEW s, NEW u, Whole(e, s, u), NEW n, NEW v, NEW f, f = del_header_val(e, n, v)
  PROVE  \E r, g : /\ Whole(f, r, u) /\ Left(e, s, n, f, r, g)
                   /\ v = <<>> => HasNo(f, r, n)
<1>. DEFINE ch == Chain(e)
            L == Len(ch)
            Gone(b, c) == b.mem[c].name = n /\ (v = <<>> \/ b.mem[c].value = v)
            Step(i, a) == IF Gone(a.e, ch[i])
                          THEN [e |-> Unlinked(a.e, a.lp, ch[i]), lp |-> a.lp]
                          ELSE [e |-> a.e, lp |-> ch[i]]
            base == [e |-> e, lp |-> NULL]
            A == [e : Evs, lp : Nat]
            Ok == [i \in 0 .. L |-> {a \in A : \E r, g, k : Looked(e, s, u, n, v, i, a, r, g, k)}]
            G == [i \in 1 .. L |-> [a \in A |-> Step(i, a)]]
            body(h) == [i \in 0 .. L |-> IF i = 0 THEN base ELSE Step(i, h[i - 1])]
            after == CHOOSE h : h = body(h)
<1>0. ch = s
  BY ChainIs
<1>. HIDE DEF ch
<1>1. L \in Nat /\ L = Len(s) /\ s \in Seq(DOMAIN e.mem) /\ e \in Evs
  BY <1>0, WholeFacts DEF Whole
<1>2. base \in Ok[0]
  <2>. DEFINE g == [j \in 1 .. L |-> j]
  <2>1. Thins(e, s, n, s, g)
    BY <1>1 DEF Thins
  <2>2. /\ Same(e, e) /\ 0 \in 0 .. 0 /\ Len(s) = 0 + (L - 0) /\ NULL = At(s, 0)
        /\ \A j \in 0 + 1 .. Len(s) : g[j] = 0 + (j - 0)
        /\ \A d \in DOMAIN e.mem : AsIs(e, e, d)
    BY <1>1 DEF Same, At, AsIs
  <2>3. base.e = e /\ base.lp = NULL /\ base \in A
    BY <1>1 DEF NULL
  <2>. HIDE DEF base, A, g
  <2>4. Looked(e, s, u, n, v, 0, base, s, g, 0)
    BY <1>1, <2>1, <2>2, <2>3 DEF Looked
  <2>. QED
    BY <1>1, <2>3, <2>4
<1>3. ASSUME NEW i \in 1 .. L, NEW a \in Ok[i - 1]
      PROVE  Step(i, a) \in Ok[i] /\ a \in A
  <2>1. i - 1 \in 0 .. L /\ i \in 0 .. L
    BY <1>1
  <2>2. a \in A /\ \E r, g, k : Looked(e, s, u, n, v, i - 1, a, r, g, k)
    BY <2>1
  <2>3. PICK r, g, k : Looked(e, s, u, n, v, i - 1, a, r, g, k)
    BY <2>2
  <2>4. \E q, w, m : Looked(e, s, u, n, v, i, Step(i, a), q, w, m)
    <3>1. CASE Gone(a.e, ch[i])
      <4>1. Looked(e, s, u, n, v, i, [e |-> Unlinked(a.e, a.lp, s[i]), lp |-> a.lp],
                   Without(r, k + 1), Without(g, k + 1), k)
        BY <1>0, <1>1, <2>3, <3>1, LookedDrops
      <4>. QED
        BY <1>0, <3>1, <4>1, Zenon
    <3>2. CASE ~ Gone(a.e, ch[i])
      <4>1. Looked(e, s, u, n, v, i, [e |-> a.e, lp |-> s[i]], r, g, k + 1)
        BY <1>0, <1>1, <2>3, <3>2, LookedKeeps
      <4>. QED
        BY <1>0, <3>2, <4>1, Zenon
    <3>. QED
      BY <3>1, <3>2
  <2>5. Step(i, a) \in A
    <3>. HIDE DEF Step
    <3>1. PICK q, w, m : Looked(e, s, u, n, v, i, Step(i, a), q, w, m)
      BY <2>4
    <3>2. Step(i, a).e \in Evs
      BY <3>1 DEF Looked, Whole
    <3>3. Step(i, a).lp = At(q, m) /\ Whole(Step(i, a).e, q, u)
      BY <3>1 DEF Looked
    <3>4. \A j \in 1 .. Len(q) : q[j] \in Nat
      BY <3>3, WholeFacts
    <3>5. Step(i, a).lp \in Nat
      BY <3>3, <3>4 DEF At, NULL
    <3>6. Step(i, a) = [e |-> Step(i, a).e, lp |-> Step(i, a).lp]
      <4>1. CASE Gone(a.e, ch[i])
        BY <4>1 DEF Step
      <4>2. CASE ~ Gone(a.e, ch[i])
        BY <4>2 DEF Step
      <4>. QED
        BY <4>1, <4>2
    <3>. QED
      BY <3>2, <3>5, <3>6
  <2>. HIDE DEF Step, A
  <2>. QED
    BY <2>1, <2>2, <2>4, <2>5
<1>4. \A i \in 1 .. L : \A a \in A : G[i][a] = Step(i, a)
  BY Zenon
<1>. HIDE DEF Ok, Step, A, base, G, L
<1>5. PICK h : Recurs(L, base, G, h)
  BY <1>1, RecursExists
<1>6. \A i \in 0 .. L : h[i] = IF i = 0 THEN base ELSE G[i][h[i - 1]]
  <2>1. h = [i \in 0 .. L |-> IF i = 0 THEN base ELSE G[i][h[i - 1]]]
    BY <1>5, Zenon DEF Recurs
  <2>. QED
    BY <2>1, Zenon
<1>7. \A i \in 0 .. L : h[i] \in Ok[i]
  <2>1. h[0] \in Ok[0]
    BY <1>1, <1>2, <1>6
  <2>2. ASSUME NEW i \in 1 .. L, h[i - 1] \in Ok[i - 1] PROVE h[i] \in Ok[i]
    <3>1. i \in 0 .. L /\ i # 0
      BY <1>1
    <3>. QED
      BY <1>3, <1>4, <1>6, <2>2, <3>1, Zenon
  <2>. QED
    BY <1>1, <2>1, <2>2, Stays
<1>8. h = body(h)
  <2>1. ASSUME NEW i \in 0 .. L, i # 0 PROVE h[i] = Step(i, h[i - 1])
    <3>1. i \in 1 .. L /\ i - 1 \in 0 .. L
      BY <1>1, <2>1
    <3>. QED
      BY <1>3, <1>4, <1>6, <1>7, <2>1, <3>1, Zenon
  <2>2. \A i \in 0 .. L : h[i] = IF i = 0 THEN base ELSE Step(i, h[i - 1])
    BY <1>6, <2>1, Zenon
  <2>3. h = [i \in 0 .. L |-> h[i]]
    BY <1>5, Zenon DEF Recurs
  <2>. QED
    BY <2>2, <2>3, Zenon
<1>9. after = body(after)
  BY <1>8, Zenon
<1>. HIDE DEF after
<1>10. \A i \in 0 .. L : after[i] = IF i = 0 THEN base ELSE Step(i, after[i - 1])
  BY <1>9, Zenon
<1>11. \A i \in 0 .. L : after[i] \in Ok[i]
  <2>1. after[0] \in Ok[0]
    BY <1>1, <1>2, <1>10
  <2>2. ASSUME NEW i \in 1 .. L, after[i - 1] \in Ok[i - 1] PROVE after[i] \in Ok[i]
    <3>1. i \in 0 .. L /\ i # 0
      BY <1>1
    <3>. QED
      BY <1>3, <1>10, <2>2, <3>1, Zenon
  <2>. QED
    BY <1>1, <2>1, <2>2, Stays
<1>12. f = after[L].e
  BY DEF del_header_val, after, L, Step, base, ch
<1>13. PICK r, g, k : Looked(e, s, u, n, v, L, after[L], r, g, k)
  BY <1>1, <1>11 DEF Ok
<1>14. /\ Whole(f, r, u) /\ Same(e, f) /\ k \in 0 .. L /\ Len(r) = k
       /\ Thins(e, s, n, r, g)
       /\ \A j \in 1 .. k : v = <<>> => e.mem[r[j]].name # n
       /\ \A d \in DOMAIN f.mem : d \in DOMAIN e.mem /\ AsIs(e, f, d)
  BY <1>1, <1>12, <1>13 DEF Looked, L
<1>15. v = <<>> => HasNo(f, r, n)
  <2>1. \A j \in 1 .. Len(r) : r[j] \in DOMAIN f.mem
    BY <1>14, WholeFacts
  <2>. QED
    BY <1>14, <2>1 DEF HasNo, AsIs
<1>. QED
  BY <1>14, <1>15 DEF Left

-----------------------------------------------------------------------------
(* Adding a header.                                                        *)

\* Event f is e with a header n more, of text d, in cell c.
Grown(e, s, sense, n, d, f, c) ==
  /\ Same(e, f) /\ c \in DOMAIN f.mem /\ f.mem[c].name = n
  /\ f.mem[c].value = d /\ f.mem[c].array = IF Stacking(sense) THEN <<d>> ELSE <<>>
  /\ \A i \in 1 .. Len(s) : s[i] # c
  /\ \A b \in DOMAIN e.mem : b \in DOMAIN f.mem /\ AsIs(e, f, b)

Ends(s, sense, c) == IF OnTop(sense) THEN <<c>> \o s ELSE Append(s, c)

LEMMA FreshWhole ==
  ASSUME NEW e, NEW s, NEW u, Whole(e, s, u), NEW sense, NEW n \in AnyName, NEW d \in Text,
         HasNo(e, s, n) \/ (~ u /\ ~ Stacking(sense)),
         NEW f, f = FreshHeader(e, sense, n, d)
  PROVE  \E c : Whole(f, Ends(s, sense, c), u) /\ Grown(e, s, sense, n, d, f, c)
<1>. DEFINE e1 == new_header(e, n)
            c == NewCell(e)
            e2 == Stored(e1, sense, c, d)
<1>1. /\ Whole(e1, s, u) /\ Same(e, e1)
      /\ c # NULL /\ c \in DOMAIN e1.mem /\ e1.mem[c] = Blank(n)
      /\ \A i \in 1 .. Len(s) : s[i] # c
      /\ \A b \in DOMAIN e.mem : b \in DOMAIN e1.mem /\ e1.mem[b] = e.mem[b]
  BY NewHeaderIs
<1>2. f = Linked(e2, sense, c)
  BY DEF FreshHeader
<1>. HIDE DEF e1, c
<1>3. Rewrites(e1, c, e2) /\ (Stacking(sense) \/ e2.mem[c].array = e1.mem[c].array)
  <2>1. e1 \in Evs
    BY <1>1 DEF Whole
  <2>. QED
    BY <1>1, <2>1, StoredIs
<1>10. e2.mem[c].value = d /\ e2.mem[c].array = IF Stacking(sense) THEN <<d>> ELSE <<>>
  <2>1. e1 \in Evs
    BY <1>1 DEF Whole
  <2>2. Stacked(sense, e1.mem[c], d) = <<d>> /\ e1.mem[c].array = <<>>
    BY <1>1 DEF Stacked, Blank
  <2>3. /\ e2.mem[c].value = IF Stacking(sense) THEN Render(Stacked(sense, e1.mem[c], d)) ELSE d
        /\ e2.mem[c].array = IF Stacking(sense) THEN Stacked(sense, e1.mem[c], d) ELSE e1.mem[c].array
    BY <1>1, <2>1, StoredView
  <2>. QED
    BY <2>2, <2>3, RenderOne
<1>. HIDE DEF e2
<1>4. Whole(e2, s, u)
  BY <1>1, <1>3, RewrittenWhole
<1>5. /\ DOMAIN e2.mem = DOMAIN e1.mem /\ e2.mem[c].name = n /\ e2.mem[c].value \in Text
      /\ \A b \in DOMAIN e1.mem \ {c} : e2.mem[b] = e1.mem[b]
      /\ Same(e1, e2) /\ (Stacking(sense) \/ e2.mem[c].array = <<>>)
  BY <1>1, <1>3 DEF Rewrites, Blank
<1>6. \/ HasNo(e2, s, e2.mem[c].name)
      \/ ~ u /\ e2.mem[c].array = <<>> /\ ~ OnTop(sense)
  <2>1. CASE HasNo(e, s, n)
    <3>1. \A i \in 1 .. Len(s) : e2.mem[s[i]].name = e.mem[s[i]].name
      BY <1>1, <1>5, WholeFacts
    <3>. QED
      BY <1>5, <2>1, <3>1 DEF HasNo
  <2>2. CASE ~ u /\ ~ Stacking(sense)
    BY <1>5, <2>2 DEF Stacking, OnTop, BOTTOM, TOP, UNSHIFT
  <2>. QED
    BY <2>1, <2>2
<1>7. /\ Whole(f, IF OnTop(sense) THEN <<c>> \o s ELSE Append(s, c), u) /\ Same(e2, f)
      /\ DOMAIN f.mem = DOMAIN e2.mem
      /\ \A b \in DOMAIN e2.mem : AsIs(e2, f, b)
  BY <1>1, <1>2, <1>4, <1>5, <1>6, LinkedWhole
<1>8. /\ Same(e, f) /\ c \in DOMAIN f.mem /\ f.mem[c].name = n
      /\ f.mem[c].value = d /\ f.mem[c].array = IF Stacking(sense) THEN <<d>> ELSE <<>>
  BY <1>1, <1>5, <1>7, <1>10 DEF Same, AsIs
<1>9. ASSUME NEW b \in DOMAIN e.mem PROVE b \in DOMAIN f.mem /\ AsIs(e, f, b)
  <2>1. b # c
    BY <1>1, NewCellFree DEF Whole, c
  <2>. QED
    BY <1>1, <1>5, <1>7, <2>1 DEF AsIs
<1>. QED
  BY <1>1, <1>7, <1>8, <1>9 DEF Grown, Ends

LEMMA BodyWhole ==
  ASSUME NEW e, NEW s, NEW u, Whole(e, s, u), NEW b \in Text \cup {NoText}, NEW f, f = set_body(e, b)
  PROVE  /\ Whole(f, s, u) /\ f.mem = e.mem /\ f.uniq = e.uniq /\ f.subclass = e.subclass
         /\ f.headers = e.headers /\ f.last_header = e.last_header /\ f.body = b
<1>1. e \in Evs
  BY DEF Whole
<1>2. /\ e.mem \in [DOMAIN e.mem -> Cells] /\ DOMAIN e.mem \in SUBSET (Nat \ {NULL})
      /\ e.headers \in Nat /\ e.last_header \in Nat
      /\ e.uniq \in BOOLEAN /\ e.subclass \in Word
      /\ e = [mem |-> e.mem, headers |-> e.headers, last_header |-> e.last_header,
              body |-> e.body, uniq |-> e.uniq, subclass |-> e.subclass]
  BY <1>1, EvFields
<1>3. f = [mem |-> e.mem, headers |-> e.headers, last_header |-> e.last_header,
           body |-> b, uniq |-> e.uniq, subclass |-> e.subclass]
  BY <1>2 DEF set_body
<1>4. f \in Evs
  BY <1>2, <1>3, EvOf
<1>5. /\ f.mem = e.mem /\ f.uniq = e.uniq /\ f.subclass = e.subclass
      /\ f.headers = e.headers /\ f.last_header = e.last_header /\ f.body = b
  BY <1>3
<1>6. Nexts(f) = Nexts(e)
  BY <1>5 DEF Nexts
<1>. QED
  BY <1>4, <1>5, <1>6 DEF Whole

-----------------------------------------------------------------------------
(* The pieces of an array text.                                            *)

Bare == {p \in Text : \A i \in 1 .. Len(p) : p[i] # SEP}

LEMMA NoMarkText ==
  ASSUME NEW t \in Seq(Token), \A i \in 1 .. Len(t) : t[i] # ARR
  PROVE  t \in Text
<1>1. DOMAIN t = 1 .. Len(t)
  OBVIOUS
<1>. QED
  BY <1>1 DEF Text, Marked

LEMMA ListOf ==
  ASSUME NEW n \in Nat, NEW S, NEW s \in [1 .. n -> S]
  PROVE  s \in Seq(S) /\ Len(s) = n
OBVIOUS

LEMMA EmptyBare == <<>> \in Bare
<1>1. <<>> \in Seq(Token) /\ Len(<<>>) = 0 /\ \A i \in 1 .. 0 : FALSE
  OBVIOUS
<1>2. <<>> \in Text
  BY <1>1, NoMarkText
<1>. QED
  BY <1>1, <1>2 DEF Bare

LEMMA BareFacts ==
  ASSUME NEW p \in Bare
  PROVE  /\ p \in Seq(Token) /\ Len(p) \in Nat /\ DOMAIN p = 1 .. Len(p)
         /\ \A i \in 1 .. Len(p) : p[i] # SEP
         /\ \A i \in 1 .. Len(p) : p[i] = ARR => p[1] = ARR
         /\ \A i \in 1 .. Len(p) : p[i] = ARR /\ i > 1 => p[i - 1] \in {ARR, SEP}
BY DEF Bare, Text, Marked

LEMMA UnmarkedText ==
  ASSUME NEW p \in Bare
  PROVE  Unmarked(p) \in Text
<1>. DEFINE F == {i \in DOMAIN p : p[i] # ARR}
            n == Len(p)
            m == Min(F)
            q == SubSeq(p, m, n)
<1>1. /\ p \in Seq(Token) /\ n \in Nat /\ DOMAIN p = 1 .. n
      /\ \A i \in 1 .. n : p[i] # SEP
      /\ \A i \in 1 .. n : p[i] = ARR /\ i > 1 => p[i - 1] \in {ARR, SEP}
  BY BareFacts
<1>2. CASE F = {}
  <2>1. Unmarked(p) = <<>>
    BY <1>2 DEF Unmarked
  <2>. QED
    BY <2>1, EmptyBare DEF Bare
<1>3. CASE F # {}
  <2>1. Unmarked(p) = q
    BY <1>3 DEF Unmarked
  <2>2. m \in 1 .. n /\ p[m] # ARR
    <3>1. F \in SUBSET (0 .. n)
      BY <1>1
    <3>2. m \in F
      <4>. HIDE DEF F, n
      <4>. QED
        BY <1>1, <1>3, <3>1, Extremes
    <3>. QED
      BY <1>1, <3>2
  <2>. HIDE DEF F, m
  <2>3. \A i \in m .. n : p[i] # ARR
    <3>. DEFINE T == {k \in Nat : m + k <= n => p[m + k] # ARR}
    <3>1. 0 \in T
      BY <1>1, <2>2
    <3>2. ASSUME NEW k \in T, k < n PROVE k + 1 \in T
      <4>. SUFFICES ASSUME m + (k + 1) <= n PROVE p[m + (k + 1)] # ARR
        OBVIOUS
      <4>1. /\ m + k <= n /\ m + k \in 1 .. n /\ m + (k + 1) \in 1 .. n
            /\ m + (k + 1) > 1 /\ (m + (k + 1)) - 1 = m + k
        BY <1>1, <2>2
      <4>2. p[m + k] # ARR /\ p[m + k] # SEP
        BY <1>1, <4>1
      <4>. QED
        BY <1>1, <4>1, <4>2
    <3>3. 0 .. n \subseteq T
      <4>1. T \in SUBSET Nat
        OBVIOUS
      <4>. HIDE DEF T
      <4>. QED
        BY <1>1, <3>1, <3>2, <4>1, UpTo
    <3>4. ASSUME NEW i \in m .. n PROVE p[i] # ARR
      <4>1. i - m \in 0 .. n /\ m + (i - m) = i /\ i <= n
        BY <1>1, <2>2
      <4>2. i - m \in T
        BY <3>3, <4>1
      <4>. QED
        BY <4>1, <4>2
    <3>. QED
      BY <3>4
  <2>4. q \in Seq(Token) /\ Len(q) = n - m + 1 /\ \A i \in 1 .. n - m + 1 : q[i] = p[m + i - 1]
    BY <1>1, <2>2, SubSeqProperties
  <2>5. ASSUME NEW i \in 1 .. Len(q) PROVE q[i] # ARR
    <3>1. i \in 1 .. n - m + 1 /\ m + i - 1 \in m .. n
      BY <1>1, <2>2, <2>4
    <3>. QED
      BY <2>3, <2>4, <3>1
  <2>. HIDE DEF q
  <2>. QED
    BY <2>1, <2>4, <2>5, NoMarkText
<1>. QED
  BY <1>2, <1>3

\* The pieces of the first i tokens of t.
Cut(t, i, ps) ==
  /\ ps \in Seq(Bare) /\ Len(ps) >= 1
  /\ LET q == ps[Len(ps)]
     IN  IF q = <<>> THEN i = 0 \/ t[i] = SEP ELSE i > 0 /\ q[Len(q)] = t[i]

LEMMA CutNext ==
  ASSUME NEW t, t \in Seq(Token), <<ARR>> \o t \in Text, NEW i \in 1 .. Len(t),
         NEW ps, Cut(t, i - 1, ps), NEW qs,
         qs = IF t[i] = SEP THEN Append(ps, <<>>)
              ELSE [ps EXCEPT ![Len(ps)] = Append(@, t[i])]
  PROVE  Cut(t, i, qs)
<1>. DEFINE n == Len(ps)
            q == ps[n]
            k == t[i]
<1>1. ps \in Seq(Bare) /\ n \in Nat /\ n >= 1 /\ q \in Bare /\ i \in Nat /\ k \in Token
      /\ (IF q = <<>> THEN i - 1 = 0 \/ t[i - 1] = SEP ELSE i - 1 > 0 /\ q[Len(q)] = t[i - 1])
  BY DEF Cut
<1>2. CASE k = SEP
  <2>1. <<>> \in Bare
    BY EmptyBare
  <2>2. qs = Append(ps, <<>>)
    BY <1>2
  <2>3. qs \in Seq(Bare) /\ Len(qs) = n + 1 /\ qs[n + 1] = <<>>
    BY <1>1, <2>1, <2>2
  <2>. QED
    BY <1>1, <1>2, <2>3 DEF Cut
<1>3. CASE k # SEP
  <2>. DEFINE r == Append(q, k)
  <2>1. /\ q \in Seq(Token) /\ Len(q) \in Nat
        /\ \A j \in 1 .. Len(q) : q[j] # SEP
        /\ \A j \in 1 .. Len(q) : q[j] = ARR => q[1] = ARR
        /\ \A j \in 1 .. Len(q) : q[j] = ARR /\ j > 1 => q[j - 1] \in {ARR, SEP}
    <3>. HIDE DEF q
    <3>. QED
      BY <1>1, BareFacts
  <2>. HIDE DEF q
  <2>2. /\ r \in Seq(Token) /\ Len(r) = Len(q) + 1 /\ DOMAIN r = 1 .. Len(q) + 1
        /\ \A j \in 1 .. Len(q) : r[j] = q[j]
        /\ r[Len(q) + 1] = k
    BY <1>1, <2>1
  <2>3. \A j \in 1 .. Len(r) : r[j] # SEP
    BY <1>3, <2>1, <2>2
  <2>4. k = ARR /\ q # <<>> => q[Len(q)] = ARR /\ Len(q) >= 1
    <3>. SUFFICES ASSUME k = ARR, q # <<>> PROVE q[Len(q)] = ARR /\ Len(q) >= 1
      OBVIOUS
    <3>. DEFINE d == <<ARR>> \o t
    <3>1. /\ d \in Seq(Token) /\ DOMAIN d = 1 .. Len(t) + 1 /\ Len(t) \in Nat
          /\ \A j \in 1 .. Len(t) : d[j + 1] = t[j]
      OBVIOUS
    <3>2. \A j \in DOMAIN d : d[j] = ARR /\ j > 1 => d[j - 1] \in {ARR, SEP}
      BY DEF Text, Marked
    <3>. HIDE DEF d
    <3>3. i - 1 > 0 /\ q[Len(q)] = t[i - 1]
      BY <1>1
    <3>4. /\ i + 1 \in DOMAIN d /\ i + 1 > 1 /\ (i + 1) - 1 = (i - 1) + 1
          /\ i - 1 \in 1 .. Len(t) /\ d[i + 1] = ARR
      BY <1>1, <3>1, <3>3
    <3>5. t[i - 1] \in {ARR, SEP}
      BY <3>1, <3>2, <3>4
    <3>6. Len(q) >= 1
      BY <2>1
    <3>. QED
      BY <2>1, <3>3, <3>5, <3>6
  <2>5. q[1] = ARR \/ q = <<>> \/ k # ARR
    BY <2>1, <2>4
  <2>6. Marked(r)
    <3>. SUFFICES ASSUME NEW j \in DOMAIN r, r[j] = ARR
                  PROVE  r[1] = ARR /\ (j > 1 => r[j - 1] \in {ARR, SEP})
      BY DEF Marked
    <3>1. CASE j \in 1 .. Len(q)
      <4>1. q[1] = ARR /\ (j > 1 => q[j - 1] \in {ARR, SEP})
        BY <2>1, <2>2, <3>1
      <4>2. 1 \in 1 .. Len(q) /\ (j > 1 => j - 1 \in 1 .. Len(q))
        BY <2>1, <3>1
      <4>. QED
        BY <2>2, <4>1, <4>2
    <3>2. CASE j = Len(q) + 1
      <4>1. k = ARR
        BY <2>2, <3>2
      <4>2. CASE q = <<>>
        BY <2>1, <2>2, <3>2, <4>1, <4>2
      <4>3. CASE q # <<>>
        <5>1. q[Len(q)] = ARR /\ Len(q) >= 1 /\ q[1] = ARR /\ (Len(q) + 1) - 1 = Len(q)
          BY <2>1, <2>4, <2>5, <4>1, <4>3
        <5>2. 1 \in 1 .. Len(q) /\ Len(q) \in 1 .. Len(q)
          BY <2>1, <5>1
        <5>. QED
          BY <2>2, <3>2, <5>1, <5>2
      <4>. QED
        BY <4>2, <4>3
    <3>. QED
      BY <2>1, <2>2, <3>1, <3>2
  <2>7. r \in Bare /\ r # <<>> /\ r[Len(r)] = k
    <3>1. r \in Text
      BY <2>2, <2>6 DEF Text
    <3>2. r \in Bare
      BY <2>3, <3>1 DEF Bare
    <3>3. Len(r) # 0
      BY <2>1, <2>2
    <3>. HIDE DEF r
    <3>4. r # <<>>
      BY <3>3
    <3>. QED
      BY <2>2, <3>2, <3>4
  <2>. HIDE DEF r
  <2>8. qs = [ps EXCEPT ![n] = r]
    BY <1>3 DEF q, r
  <2>9. qs \in Seq(Bare) /\ Len(qs) = n /\ qs[n] = r
    <3>. HIDE DEF n
    <3>1. ps \in [1 .. n -> Bare] /\ n \in 1 .. n
      BY <1>1 DEF n
    <3>2. qs \in [1 .. n -> Bare] /\ qs[n] = r
      BY <2>7, <2>8, <3>1
    <3>3. n \in Nat
      BY <1>1 DEF n
    <3>. QED
      BY <3>2, <3>3, ListOf, Zenon
  <2>10. Len(qs) >= 1 /\ i > 0 /\ qs[Len(qs)] = r
    BY <1>1, <2>9
  <2>. HIDE DEF n
  <2>. QED
    BY <2>7, <2>9, <2>10, Zenon DEF Cut, k
<1>. QED
  BY <1>2, <1>3

\* What a token does to the pieces so far.
CutOn(ps, k) == IF k = SEP THEN Append(ps, <<>>)
                ELSE [ps EXCEPT ![Len(ps)] = Append(@, k)]
Pieces == {ps \in Seq(Seq(Token)) : Len(ps) >= 1}

LEMMA CutFits ==
  ASSUME NEW ps \in Pieces, NEW k \in Token
  PROVE  CutOn(ps, k) \in Pieces
<1>. DEFINE m == Len(ps)
<1>1. ps \in Seq(Seq(Token)) /\ m \in Nat /\ m \in 1 .. m /\ ps[m] \in Seq(Token)
  BY DEF Pieces
<1>2. CASE k = SEP
  <2>1. Append(ps, <<>>) \in Seq(Seq(Token)) /\ Len(Append(ps, <<>>)) = m + 1
    <3>1. <<>> \in Seq(Token)
      OBVIOUS
    <3>. QED
      BY <1>1, <3>1
  <2>. QED
    BY <1>1, <1>2, <2>1 DEF CutOn, Pieces
<1>3. CASE k # SEP
  <2>1. Append(ps[m], k) \in Seq(Token)
    BY <1>1
  <2>2. ps \in [1 .. m -> Seq(Token)]
    BY <1>1
  <2>. HIDE DEF m
  <2>3. [ps EXCEPT ![m] = Append(@, k)] \in [1 .. m -> Seq(Token)]
    BY <2>1, <2>2
  <2>4. [ps EXCEPT ![m] = Append(@, k)] \in Seq(Seq(Token)) /\ Len([ps EXCEPT ![m] = Append(@, k)]) = m
    BY <1>1, <2>3, ListOf, Zenon
  <2>5. m >= 1
    BY <1>1
  <2>. QED
    BY <1>3, <2>4, <2>5 DEF m, CutOn, Pieces
<1>. QED
  BY <1>2, <1>3

\* The loop over the tokens of t.
CutSteps(t, h) ==
  /\ h[0] = << <<>> >> /\ \A i \in 1 .. Len(t) : h[i] = CutOn(h[i - 1], t[i])
  /\ \A i \in 0 .. Len(t) : h[i] \in Pieces

LEMMA TokenSteps ==
  ASSUME NEW t \in Seq(Token)
  PROVE  \E h : CutSteps(t, h) /\ PiecesOf(t) = h[Len(t)]
<1>. DEFINE Step(ps, k) == IF k = SEP THEN Append(ps, <<>>)
                           ELSE [ps EXCEPT ![Len(ps)] = Append(@, k)]
            s == t
            m == Len(s)
            A == Pieces
            base == << <<>> >>
            G == [i \in 1 .. m |-> [ps \in A |-> Step(ps, s[i])]]
            body(f) == [S \in SUBSET DOMAIN s |->
                          IF S = {} THEN base ELSE Step(f[S \ {Max(S)}], s[Max(S)])]
            it == CHOOSE f : f = body(f)
<1>0. ASSUME NEW ps \in Pieces, NEW k \in Token PROVE Step(ps, k) \in Pieces /\ Step(ps, k) = CutOn(ps, k)
  <2>1. Step(ps, k) = CutOn(ps, k)
    BY DEF CutOn
  <2>. QED
    BY <2>1, CutFits
<1>. HIDE DEF Step
<1>1. s \in Seq(Token) /\ base \in Pieces
  <2>1. <<>> \in Seq(Token) /\ Len(base) = 1
    OBVIOUS
  <2>2. base \in Seq(Seq(Token))
    BY <2>1
  <2>. QED
    BY <2>1, <2>2 DEF Pieces
<1>. HIDE DEF s, base
<1>2. m \in Nat /\ DOMAIN s = 1 .. m /\ \A i \in 1 .. m : s[i] \in Token
  BY <1>1
<1>. HIDE DEF m, A
<1>3. \A i \in 1 .. m : \A ps \in A : G[i][ps] = Step(ps, s[i]) /\ Step(ps, s[i]) \in A
  BY <1>0, <1>2 DEF A
<1>. HIDE DEF G
<1>4. PICK f : FoldsTo(m, base, G, A, f)
  <2>1. m \in Nat /\ base \in A /\ \A i \in 1 .. m : \A x \in A : G[i][x] \in A
    BY <1>1, <1>2, <1>3, Zenon DEF A
  <2>. QED
    BY <2>1, FoldsExist, Zenon
<1>5. \A S \in SUBSET (1 .. m) : S # {} => Max(S) \in 1 .. m /\ S \ {Max(S)} \in SUBSET (1 .. m)
  BY <1>2, Places
<1>6. f = body(f)
  <2>1. \A S \in SUBSET (1 .. m) :
          f[S] = IF S = {} THEN base ELSE Step(f[S \ {Max(S)}], s[Max(S)])
    BY <1>3, <1>4, <1>5, Zenon DEF FoldsTo
  <2>. QED
    BY <1>2, <1>4, <2>1, Zenon DEF FoldsTo
<1>7. it = body(it)
  BY <1>6, Zenon
<1>. HIDE DEF it
<1>8. \A S \in SUBSET (1 .. m) :
        it[S] = IF S = {} THEN base ELSE Step(it[S \ {Max(S)}], s[Max(S)])
  BY <1>2, <1>7, Zenon
<1>9. \A S \in SUBSET (1 .. m) : it[S] \in A
  <2>1. it[{}] \in A
    <3>1. {} \in SUBSET (1 .. m)
      OBVIOUS
    <3>. QED
      BY <1>1, <1>8, <3>1, Zenon DEF A
  <2>2. \A S \in SUBSET (1 .. m) : S # {} /\ it[S \ {Max(S)}] \in A => it[S] \in A
    BY <1>3, <1>5, <1>8, Zenon
  <2>. QED
    BY <1>2, <2>1, <2>2, FoldsIn
<1>10. PiecesOf(t) = it[DOMAIN s]
  BY DEF PiecesOf, FoldLeft, MapThenFoldSet, it, s, base, Step
<1>. DEFINE h == [i \in 0 .. m |-> it[1 .. i]]
<1>11. ASSUME NEW i \in 1 .. m PROVE h[i] = CutOn(h[i - 1], s[i])
  <2>1. /\ 1 .. i \in SUBSET (1 .. m) /\ 1 .. i # {} /\ Max(1 .. i) = i
        /\ (1 .. i) \ {i} = 1 .. i - 1 /\ 1 .. i - 1 \in SUBSET (1 .. m)
    BY <1>2, FirstPlaces
  <2>2. it[1 .. i] = Step(it[1 .. i - 1], s[i])
    BY <1>8, <2>1, Zenon
  <2>3. h[i] = it[1 .. i] /\ h[i - 1] = it[1 .. i - 1]
    BY <1>2
  <2>4. it[1 .. i - 1] \in Pieces
    BY <1>9, <2>1 DEF A
  <2>. HIDE DEF h
  <2>. QED
    BY <1>0, <1>2, <2>2, <2>3, <2>4
<1>12. h[0] = base
  <2>1. {} \in SUBSET (1 .. m) /\ 1 .. 0 = {} /\ h[0] = it[1 .. 0]
    BY <1>2
  <2>. HIDE DEF h
  <2>. QED
    BY <1>8, <2>1, Zenon
<1>13. ASSUME NEW i \in 0 .. m PROVE h[i] \in A
  <2>1. 1 .. i \in SUBSET (1 .. m) /\ h[i] = it[1 .. i]
    BY <1>2
  <2>. HIDE DEF h
  <2>. QED
    BY <1>9, <2>1, Zenon
<1>14. h[m] = it[DOMAIN s]
  BY <1>2
<1>. HIDE DEF h
<1>15. CutSteps(s, h) /\ PiecesOf(t) = h[Len(s)]
  BY <1>10, <1>11, <1>12, <1>13, <1>14, Zenon DEF CutSteps, m, A, base
<1>. QED
  BY <1>15 DEF s

LEMMA PiecesAre ==
  ASSUME NEW t \in Seq(Token), <<ARR>> \o t \in Text
  PROVE  PiecesOf(t) \in Seq(Bare)
<1>. DEFINE n == Len(t)
            base == << <<>> >>
            Ok == [i \in 0 .. n |-> {ps \in Pieces : Cut(t, i, ps)}]
<1>1. PICK h : CutSteps(t, h) /\ PiecesOf(t) = h[n]
  BY TokenSteps
<1>2. n \in Nat /\ \A i \in 1 .. n : t[i] \in Token
  OBVIOUS
<1>3. /\ h[0] = base /\ \A i \in 1 .. n : h[i] = CutOn(h[i - 1], t[i])
      /\ \A i \in 0 .. n : h[i] \in Pieces
  BY <1>1 DEF CutSteps
<1>4. Cut(t, 0, base)
  <2>1. Len(base) = 1 /\ base[1] = <<>>
    OBVIOUS
  <2>2. base \in Seq(Bare)
    BY EmptyBare
  <2>. HIDE DEF base
  <2>3. base[Len(base)] = <<>> /\ Len(base) >= 1
    BY <2>1
  <2>. QED
    BY <2>2, <2>3, Zenon DEF Cut
<1>. HIDE DEF base, n
<1>5. h[0] \in Ok[0]
  BY <1>2, <1>3, <1>4
<1>6. ASSUME NEW i \in 1 .. n, h[i - 1] \in Ok[i - 1] PROVE h[i] \in Ok[i]
  <2>1. i - 1 \in 0 .. n /\ i \in 0 .. n /\ i \in 1 .. Len(t)
    BY <1>2 DEF n
  <2>2. Cut(t, i - 1, h[i - 1])
    BY <1>6, <2>1
  <2>3. h[i] = CutOn(h[i - 1], t[i])
    BY <1>3
  <2>4. Cut(t, i, h[i])
    BY <2>1, <2>2, <2>3, CutNext DEF CutOn
  <2>. QED
    BY <1>3, <2>1, <2>4
<1>7. Cut(t, n, h[n])
  <2>1. n \in 0 .. n
    BY <1>2
  <2>2. \A i \in 0 .. n : h[i] \in Ok[i]
    <3>. HIDE DEF Ok
    <3>. QED
      BY <1>2, <1>5, <1>6, Stays
  <2>. QED
    BY <2>1, <2>2
<1>. QED
  BY <1>1, <1>7 DEF Cut

-----------------------------------------------------------------------------
(* The calls that add headers.                                             *)

\* The events that are whole.
Sound(u) == {e \in Evs : e.uniq = u /\ \E s : Whole(e, s, u)}

LEMMA SoundDeleted ==
  ASSUME NEW u, NEW e \in Sound(u), NEW n, NEW v
  PROVE  del_header_val(e, n, v) \in Sound(u)
<1>1. PICK s : Whole(e, s, u)
  BY DEF Sound
<1>. DEFINE f == del_header_val(e, n, v)
<1>2. PICK r, g : Whole(f, r, u) /\ Left(e, s, n, f, r, g)
  BY <1>1, DeletedWhole
<1>. HIDE DEF f
<1>3. f \in Sound(u)
  BY <1>2 DEF Sound, Left, Same, Whole
<1>. QED
  BY <1>3 DEF f

LEMMA SoundBody ==
  ASSUME NEW u, NEW e \in Sound(u), NEW b \in Text \cup {NoText}
  PROVE  set_body(e, b) \in Sound(u)
<1>1. PICK s : Whole(e, s, u)
  BY DEF Sound
<1>. DEFINE f == set_body(e, b)
<1>2. Whole(f, s, u) /\ f.uniq = e.uniq
  BY <1>1, BodyWhole
<1>. HIDE DEF f
<1>3. f \in Sound(u)
  BY <1>2 DEF Sound, Whole
<1>. QED
  BY <1>3 DEF f

\* The text is stored in the first header called n.
LEMMA SoundStored ==
  ASSUME NEW u, NEW e \in Sound(u), NEW n, NEW c, c = get_header_ptr(e, n), c # NULL,
         NEW sense, NEW d \in Text
  PROVE  Stored(e, sense, c, d) \in Sound(u)
<1>1. PICK s : Whole(e, s, u)
  BY DEF Sound
<1>. DEFINE f == Stored(e, sense, c, d)
<1>2. PICK k \in 1 .. Len(s) : /\ c = s[k] /\ e.mem[s[k]].name = n
                               /\ \A i \in 1 .. Len(s) : e.mem[s[i]].name = n => k <= i
  BY <1>1, HeaderFound
<1>3. c \in DOMAIN e.mem /\ e \in Evs /\ \A i \in 1 .. Len(s) : s[i] = c => i = k
  BY <1>1, <1>2, WholeFacts DEF Sound
<1>4. Rewrites(e, c, f)
  BY <1>3, StoredIs
<1>. HIDE DEF f
<1>5. Whole(f, s, u)
  BY <1>1, <1>2, <1>3, <1>4, RewrittenWhole
<1>6. f \in Sound(u)
  BY <1>4, <1>5 DEF Sound, Rewrites, Same
<1>. QED
  BY <1>6 DEF f

LEMMA SoundFresh ==
  ASSUME NEW u, NEW e \in Sound(u), NEW n \in AnyName, NEW sense, NEW d \in Text,
         get_header_ptr(e, n) = NULL \/ (~ u /\ ~ Stacking(sense))
  PROVE  FreshHeader(e, sense, n, d) \in Sound(u)
<1>1. PICK s : Whole(e, s, u)
  BY DEF Sound
<1>. DEFINE f == FreshHeader(e, sense, n, d)
<1>2. HasNo(e, s, n) \/ (~ u /\ ~ Stacking(sense))
  BY <1>1, HeaderFound DEF HasNo
<1>3. PICK c : Whole(f, Ends(s, sense, c), u) /\ Grown(e, s, sense, n, d, f, c)
  BY <1>1, <1>2, FreshWhole
<1>. HIDE DEF f
<1>4. f \in Sound(u)
  BY <1>3 DEF Sound, Whole, Grown, Same
<1>. QED
  BY <1>4 DEF f

LEMMA SoundPiece ==
  ASSUME NEW u, NEW e \in Sound(u), NEW n \in AnyName, NEW p \in Bare
  PROVE  Piece(e, n, p) \in Sound(u)
<1>. DEFINE c == get_header_ptr(e, n)
            q == IF c # NULL THEN p ELSE Unmarked(p)
            f == IF n = Body THEN set_body(e, IF q = <<>> /\ p # <<>> THEN <<ARR>> ELSE q) ELSE e
<1>1. p \in Text /\ q \in Text /\ <<ARR>> \in Text
  <2>1. <<>> \in Loose /\ <<ARR>> \o <<>> = <<ARR>>
    BY EmptyBare, TextIsLoose DEF Bare
  <2>2. <<ARR>> \in Text
    BY <2>1, LooseMarked
  <2>. QED
    BY <2>2, UnmarkedText DEF Bare
<1>2. f \in Sound(u)
  BY <1>1, SoundBody
<1>3. get_header_ptr(f, n) = c
  <2>1. PICK s : Whole(e, s, u)
    BY DEF Sound
  <2>2. Whole(f, s, u) /\ f.mem = e.mem
    BY <1>1, <2>1, BodyWhole
  <2>3. Chain(f) = s /\ Chain(e) = s
    <3>. HIDE DEF f
    <3>. QED
      BY <2>1, <2>2, ChainIs
  <2>. HIDE DEF f
  <2>. QED
    BY <2>2, <2>3 DEF get_header_ptr
<1>4. Piece(e, n, p) = IF c # NULL THEN Stored(f, PUSH, c, p)
                       ELSE IF q = <<>> THEN f
                       ELSE FreshHeader(f, PUSH, n, q)
  BY DEF Piece
<1>. HIDE DEF c, q, f
<1>5. CASE c # NULL
  BY <1>1, <1>2, <1>3, <1>4, <1>5, SoundStored
<1>6. CASE c = NULL
  BY <1>1, <1>2, <1>3, <1>4, <1>6, SoundFresh
<1>. QED
  BY <1>5, <1>6

\* The loop over the pieces ps: it[i] is the event after i of them.
PieceSteps(u, e, n, ps, it) ==
  /\ it[0] = e /\ \A i \in 1 .. Len(ps) : it[i] = Piece(it[i - 1], n, ps[i])
  /\ \A i \in 0 .. Len(ps) : it[i] \in Sound(u)

LEMMA ArraySteps ==
  ASSUME NEW u, NEW e \in Sound(u), NEW n \in AnyName, NEW d \in Text, d # <<>>, d[1] = ARR,
         NEW ps, ps = PiecesOf(Tail(d))
  PROVE  /\ ps \in Seq(Bare)
         /\ \E w : /\ PieceSteps(u, e, n, ps, w)
                   /\ add_array(e, n, d) = IF Tail(d) = <<>> THEN e ELSE w[Len(ps)]
<1>. DEFINE s == ps
            m == Len(s)
            A == Sound(u)
            G == [i \in 1 .. m |-> [f \in A |-> Piece(f, n, s[i])]]
            body(f) == [S \in SUBSET DOMAIN s |->
                          IF S = {} THEN e ELSE Piece(f[S \ {Max(S)}], n, s[Max(S)])]
            it == CHOOSE f : f = body(f)
            base == e
<1>1. s \in Seq(Bare) /\ s = PiecesOf(Tail(d))
  <2>1. d \in Seq(Token)
    BY DEF Text
  <2>2. Tail(d) \in Seq(Token) /\ <<ARR>> \o Tail(d) = d
    BY <2>1
  <2>. QED
    BY <2>2, PiecesAre
<1>. HIDE DEF s
<1>2. m \in Nat /\ DOMAIN s = 1 .. m /\ \A i \in 1 .. m : s[i] \in Bare
  BY <1>1
<1>. HIDE DEF m, A
<1>3. \A i \in 1 .. m : \A f \in A : G[i][f] = Piece(f, n, s[i]) /\ Piece(f, n, s[i]) \in A
  BY <1>2, SoundPiece DEF A
<1>. HIDE DEF G
<1>4. PICK f : FoldsTo(m, e, G, A, f)
  <2>1. m \in Nat /\ e \in A /\ \A i \in 1 .. m : \A x \in A : G[i][x] \in A
    BY <1>2, <1>3 DEF A
  <2>. QED
    BY <2>1, FoldsExist, Zenon
<1>5. \A S \in SUBSET (1 .. m) : S # {} => Max(S) \in 1 .. m /\ S \ {Max(S)} \in SUBSET (1 .. m)
  BY <1>2, Places
<1>6. f = body(f)
  <2>1. \A S \in SUBSET (1 .. m) :
          f[S] = IF S = {} THEN e ELSE Piece(f[S \ {Max(S)}], n, s[Max(S)])
    BY <1>3, <1>4, <1>5, Zenon DEF FoldsTo
  <2>. QED
    BY <1>2, <1>4, <2>1, Zenon DEF FoldsTo
<1>7. it = body(it)
  BY <1>6, Zenon
<1>. HIDE DEF it
<1>8. \A S \in SUBSET (1 .. m) :
        it[S] = IF S = {} THEN e ELSE Piece(it[S \ {Max(S)}], n, s[Max(S)])
  BY <1>2, <1>7, Zenon
<1>9. \A S \in SUBSET (1 .. m) : it[S] \in A
  <2>1. it[{}] \in A
    <3>1. {} \in SUBSET (1 .. m)
      OBVIOUS
    <3>. QED
      BY <1>8, <3>1, Zenon DEF A
  <2>2. \A S \in SUBSET (1 .. m) : S # {} /\ it[S \ {Max(S)}] \in A => it[S] \in A
    BY <1>3, <1>5, <1>8, Zenon
  <2>. QED
    BY <1>2, <2>1, <2>2, FoldsIn
<1>10. add_array(e, n, d) = IF Tail(d) = <<>> THEN e ELSE it[DOMAIN s]
  BY DEF add_array, FoldLeft, MapThenFoldSet, it, s
<1>. DEFINE w == [i \in 0 .. m |-> it[1 .. i]]
<1>11. ASSUME NEW i \in 1 .. m PROVE w[i] = Piece(w[i - 1], n, s[i])
  <2>1. /\ 1 .. i \in SUBSET (1 .. m) /\ 1 .. i # {} /\ Max(1 .. i) = i
        /\ (1 .. i) \ {i} = 1 .. i - 1
    BY <1>2, FirstPlaces
  <2>2. it[1 .. i] = Piece(it[1 .. i - 1], n, s[i])
    BY <1>8, <2>1, Zenon
  <2>3. w[i] = it[1 .. i] /\ w[i - 1] = it[1 .. i - 1]
    BY <1>2
  <2>. HIDE DEF w
  <2>. QED
    BY <2>2, <2>3, Zenon
<1>12. w[0] = base
  <2>1. {} \in SUBSET (1 .. m) /\ 1 .. 0 = {} /\ w[0] = it[1 .. 0]
    BY <1>2
  <2>. HIDE DEF w
  <2>. QED
    BY <1>8, <2>1, Zenon
<1>13. ASSUME NEW i \in 0 .. m PROVE w[i] \in A
  <2>1. 1 .. i \in SUBSET (1 .. m) /\ w[i] = it[1 .. i]
    BY <1>2
  <2>. HIDE DEF w
  <2>. QED
    BY <1>9, <2>1, Zenon
<1>14. w[m] = it[DOMAIN s]
  BY <1>2
<1>. HIDE DEF w
<1>15. PieceSteps(u, e, n, s, w)
  BY <1>11, <1>12, <1>13, Zenon DEF PieceSteps, m, A
<1>. QED
  BY <1>1, <1>10, <1>14, <1>15 DEF m, s

LEMMA SoundArray ==
  ASSUME NEW u, NEW e \in Sound(u), NEW n \in AnyName, NEW d \in Text, d # <<>>, d[1] = ARR
  PROVE  add_array(e, n, d) \in Sound(u)
<1>. DEFINE ps == PiecesOf(Tail(d))
<1>1. ps \in Seq(Bare) /\ \E w : /\ PieceSteps(u, e, n, ps, w)
                                /\ add_array(e, n, d) = IF Tail(d) = <<>> THEN e ELSE w[Len(ps)]
  BY ArraySteps
<1>. HIDE DEF ps
<1>2. Len(ps) \in 0 .. Len(ps)
  BY <1>1
<1>. QED
  BY <1>1, <1>2 DEF PieceSteps

LEMMA SoundAdded ==
  ASSUME NEW u, NEW e \in Sound(u), NEW sense \in Sense, NEW n \in AnyName, NEW d \in Text
  PROVE  base_add_header(e, sense, n, d) \in Sound(u)
<1>. DEFINE f == IF n = Body THEN set_body(e, d) ELSE e
            c == IF Stacking(sense) THEN get_header_ptr(f, n) ELSE NULL
            g == IF f.uniq THEN del_header(f, n) ELSE f
<1>1. f \in Sound(u)
  BY SoundBody
<1>2. base_add_header(e, sense, n, d) =
        IF c # NULL THEN Stored(f, IF OnTop(sense) THEN sense - 1 ELSE sense, c, d)
        ELSE IF d = <<>> THEN del_header(f, n)
        ELSE IF ARR \in ToSet(d) THEN add_array(g, n, d)
        ELSE FreshHeader(g, sense, n, d)
  BY DEF base_add_header
<1>. HIDE DEF f
<1>3. del_header(f, n) \in Sound(u) /\ g \in Sound(u)
  BY <1>1, SoundDeleted DEF del_header
<1>4. CASE c # NULL
  BY <1>1, <1>2, <1>4, SoundStored
<1>5. CASE c = NULL /\ d = <<>>
  BY <1>2, <1>3, <1>5
<1>6. CASE c = NULL /\ d # <<>> /\ ARR \in ToSet(d)
  <2>1. d[1] = ARR
    BY <1>6 DEF Text, Marked, ToSet
  <2>. HIDE DEF c, g
  <2>. QED
    BY <1>2, <1>3, <1>6, <2>1, SoundArray
<1>7. CASE c = NULL /\ d # <<>> /\ ARR \notin ToSet(d)
  <2>1. f.uniq = u /\ u \in BOOLEAN
    BY <1>1 DEF Sound, Whole
  <2>2. get_header_ptr(g, n) = NULL \/ (~ u /\ ~ Stacking(sense))
    <3>1. CASE u
      <4>1. PICK s : Whole(f, s, u)
        BY <1>1 DEF Sound
      <4>2. g = del_header_val(f, n, <<>>)
        BY <2>1, <3>1 DEF del_header
      <4>3. PICK r, w : Whole(g, r, u) /\ HasNo(g, r, n)
        <5>. HIDE DEF g
        <5>. QED
          BY <4>1, <4>2, DeletedWhole
      <4>. HIDE DEF g
      <4>4. \A i \in 1 .. Len(r) : g.mem[r[i]].name # n
        BY <4>3 DEF HasNo
      <4>. QED
        BY <4>3, <4>4, HeaderFound
    <3>2. CASE ~ u
      <4>1. g = f
        BY <2>1, <3>2
      <4>. QED
        BY <1>7, <3>2, <4>1
    <3>. QED
      BY <3>1, <3>2
  <2>. HIDE DEF c, g
  <2>. QED
    BY <1>2, <1>3, <1>7, <2>2, SoundFresh
<1>. QED
  BY <1>4, <1>5, <1>6, <1>7

\* What a header in a list is.
Heads == {h \in Cells : h.value \in Text}

LEMMA HeadTexts ==
  ASSUME NEW h \in Heads
  PROVE  HeaderTexts(h) \in Seq(Text) /\ h.name \in AnyName
BY DEF HeaderTexts, Heads, Cells

LEMMA HeadersFit ==
  ASSUME NEW u, NEW e \in Sound(u)
  PROVE  HeadersOf(e) \in Seq(Heads)
<1>1. PICK s : Whole(e, s, u)
  BY DEF Sound
<1>2. Chain(e) = s /\ s \in Seq(DOMAIN e.mem) /\ Len(s) \in Nat
      /\ \A i \in 1 .. Len(s) : e.mem[s[i]] \in Cells /\ e.mem[s[i]].value \in Text
  BY <1>1, ChainIs, WholeFacts
<1>3. HeadersOf(e) = [i \in DOMAIN s |-> e.mem[s[i]]] /\ DOMAIN s = 1 .. Len(s)
  BY <1>2 DEF HeadersOf
<1>4. HeadersOf(e) \in [1 .. Len(s) -> Heads]
  BY <1>2, <1>3 DEF Heads
<1>. QED
  BY <1>2, <1>4, ListOf

\* The loop over the texts ds.
AddSteps(u, e, sense, n, ds, it) ==
  /\ it[0] = e
  /\ \A i \in 1 .. Len(ds) : it[i] = base_add_header(it[i - 1], sense, n, ds[i])
  /\ \A i \in 0 .. Len(ds) : it[i] \in Sound(u)

LEMMA AllSteps ==
  ASSUME NEW u, NEW e \in Sound(u), NEW sense \in Sense, NEW n \in AnyName, NEW ds \in Seq(Text)
  PROVE  \E w : AddSteps(u, e, sense, n, ds, w) /\ add_all(e, sense, n, ds) = w[Len(ds)]
<1>. DEFINE s == ds
            m == Len(s)
            A == Sound(u)
            base == e
            G == [i \in 1 .. m |-> [f \in A |-> base_add_header(f, sense, n, s[i])]]
            body(f) == [S \in SUBSET DOMAIN s |->
                          IF S = {} THEN base ELSE base_add_header(f[S \ {Max(S)}], sense, n, s[Max(S)])]
            it == CHOOSE f : f = body(f)
<1>1. s \in Seq(Text) /\ base \in Sound(u)
  OBVIOUS
<1>. HIDE DEF s, base
<1>2. m \in Nat /\ DOMAIN s = 1 .. m /\ \A i \in 1 .. m : s[i] \in Text
  BY <1>1
<1>. HIDE DEF m, A
<1>3. \A i \in 1 .. m : \A f \in A : /\ G[i][f] = base_add_header(f, sense, n, s[i])
                                     /\ base_add_header(f, sense, n, s[i]) \in A
  BY <1>2, SoundAdded DEF A
<1>. HIDE DEF G
<1>4. PICK f : FoldsTo(m, base, G, A, f)
  <2>1. m \in Nat /\ base \in A /\ \A i \in 1 .. m : \A x \in A : G[i][x] \in A
    BY <1>1, <1>2, <1>3, Zenon DEF A
  <2>. QED
    BY <2>1, FoldsExist, Zenon
<1>5. \A S \in SUBSET (1 .. m) : S # {} => Max(S) \in 1 .. m /\ S \ {Max(S)} \in SUBSET (1 .. m)
  BY <1>2, Places
<1>6. f = body(f)
  <2>1. \A S \in SUBSET (1 .. m) :
          f[S] = IF S = {} THEN base ELSE base_add_header(f[S \ {Max(S)}], sense, n, s[Max(S)])
    BY <1>3, <1>4, <1>5, Zenon DEF FoldsTo
  <2>. QED
    BY <1>2, <1>4, <2>1, Zenon DEF FoldsTo
<1>7. it = body(it)
  BY <1>6, Zenon
<1>. HIDE DEF it
<1>8. \A S \in SUBSET (1 .. m) :
        it[S] = IF S = {} THEN base ELSE base_add_header(it[S \ {Max(S)}], sense, n, s[Max(S)])
  BY <1>2, <1>7, Zenon
<1>9. \A S \in SUBSET (1 .. m) : it[S] \in A
  <2>1. it[{}] \in A
    <3>1. {} \in SUBSET (1 .. m)
      OBVIOUS
    <3>. QED
      BY <1>1, <1>8, <3>1, Zenon DEF A
  <2>2. \A S \in SUBSET (1 .. m) : S # {} /\ it[S \ {Max(S)}] \in A => it[S] \in A
    BY <1>3, <1>5, <1>8, Zenon
  <2>. QED
    BY <1>2, <2>1, <2>2, FoldsIn
<1>10. add_all(e, sense, n, ds) = it[DOMAIN s]
  BY DEF add_all, FoldLeft, MapThenFoldSet, it, s, base
<1>. DEFINE w == [i \in 0 .. m |-> it[1 .. i]]
<1>11. ASSUME NEW i \in 1 .. m PROVE w[i] = base_add_header(w[i - 1], sense, n, s[i])
  <2>1. /\ 1 .. i \in SUBSET (1 .. m) /\ 1 .. i # {} /\ Max(1 .. i) = i
        /\ (1 .. i) \ {i} = 1 .. i - 1
    BY <1>2, FirstPlaces
  <2>2. it[1 .. i] = base_add_header(it[1 .. i - 1], sense, n, s[i])
    BY <1>8, <2>1, Zenon
  <2>3. w[i] = it[1 .. i] /\ w[i - 1] = it[1 .. i - 1]
    BY <1>2
  <2>. HIDE DEF w
  <2>. QED
    BY <2>2, <2>3, Zenon
<1>12. w[0] = base
  <2>1. {} \in SUBSET (1 .. m) /\ 1 .. 0 = {} /\ w[0] = it[1 .. 0]
    BY <1>2
  <2>. HIDE DEF w
  <2>. QED
    BY <1>8, <2>1, Zenon
<1>13. ASSUME NEW i \in 0 .. m PROVE w[i] \in A
  <2>1. 1 .. i \in SUBSET (1 .. m) /\ w[i] = it[1 .. i]
    BY <1>2
  <2>. HIDE DEF w
  <2>. QED
    BY <1>9, <2>1, Zenon
<1>14. w[m] = it[DOMAIN s]
  BY <1>2
<1>. HIDE DEF w
<1>15. AddSteps(u, base, sense, n, s, w) /\ add_all(e, sense, n, ds) = w[Len(s)]
  BY <1>10, <1>11, <1>12, <1>13, <1>14, Zenon DEF AddSteps, m, A
<1>. QED
  BY <1>15 DEF s, base

LEMMA SoundAll ==
  ASSUME NEW u, NEW e \in Sound(u), NEW sense \in Sense, NEW n \in AnyName, NEW ds \in Seq(Text)
  PROVE  add_all(e, sense, n, ds) \in Sound(u)
<1>1. PICK w : AddSteps(u, e, sense, n, ds, w) /\ add_all(e, sense, n, ds) = w[Len(ds)]
  BY AllSteps
<1>2. Len(ds) \in 0 .. Len(ds)
  OBVIOUS
<1>. QED
  BY <1>1, <1>2 DEF AddSteps

LEMMA SoundHeader ==
  ASSUME NEW u, NEW e \in Sound(u), NEW h \in Heads
  PROVE  Added(e, h) \in Sound(u)
<1>. DEFINE sense == IF h.array # <<>> THEN PUSH ELSE BOTTOM
            n == h.name
            ds == HeaderTexts(h)
<1>1. sense \in Sense /\ n \in AnyName /\ ds \in Seq(Text)
  BY HeadTexts DEF Sense, PUSH, BOTTOM, UNSHIFT
<1>2. Added(e, h) = add_all(e, sense, n, ds)
  BY DEF Added
<1>. HIDE DEF sense, n, ds
<1>. QED
  BY <1>1, <1>2, SoundAll

LEMMA SoundMerged ==
  ASSUME NEW u, NEW e \in Sound(u), NEW v, NEW from \in Sound(v)
  PROVE  merge(e, from) \in Sound(u)
<1>. DEFINE s == HeadersOf(from)
            m == Len(s)
            A == Sound(u)
            base == e
            G == [i \in 1 .. m |-> [f \in A |-> Added(f, s[i])]]
            body(f) == [S \in SUBSET DOMAIN s |->
                          IF S = {} THEN base ELSE Added(f[S \ {Max(S)}], s[Max(S)])]
            it == CHOOSE f : f = body(f)
<1>1. s \in Seq(Heads) /\ base \in Sound(u)
  BY HeadersFit
<1>. HIDE DEF s, base
<1>2. m \in Nat /\ DOMAIN s = 1 .. m /\ \A i \in 1 .. m : s[i] \in Heads
  BY <1>1
<1>. HIDE DEF m, A
<1>3. \A i \in 1 .. m : \A f \in A : /\ G[i][f] = Added(f, s[i])
                                     /\ Added(f, s[i]) \in A
  BY <1>2, SoundHeader DEF A
<1>. HIDE DEF G
<1>4. PICK f : FoldsTo(m, base, G, A, f)
  <2>1. m \in Nat /\ base \in A /\ \A i \in 1 .. m : \A x \in A : G[i][x] \in A
    BY <1>1, <1>2, <1>3, Zenon DEF A
  <2>. QED
    BY <2>1, FoldsExist, Zenon
<1>5. \A S \in SUBSET (1 .. m) : S # {} => Max(S) \in 1 .. m /\ S \ {Max(S)} \in SUBSET (1 .. m)
  BY <1>2, Places
<1>6. f = body(f)
  <2>1. \A S \in SUBSET (1 .. m) :
          f[S] = IF S = {} THEN base ELSE Added(f[S \ {Max(S)}], s[Max(S)])
    BY <1>3, <1>4, <1>5, Zenon DEF FoldsTo
  <2>. QED
    BY <1>2, <1>4, <2>1, Zenon DEF FoldsTo
<1>7. it = body(it)
  BY <1>6, Zenon
<1>. HIDE DEF it
<1>8. \A S \in SUBSET (1 .. m) :
        it[S] = IF S = {} THEN base ELSE Added(it[S \ {Max(S)}], s[Max(S)])
  BY <1>2, <1>7, Zenon
<1>9. \A S \in SUBSET (1 .. m) : it[S] \in A
  <2>1. it[{}] \in A
    <3>1. {} \in SUBSET (1 .. m)
      OBVIOUS
    <3>. QED
      BY <1>1, <1>8, <3>1, Zenon DEF A
  <2>2. \A S \in SUBSET (1 .. m) : S # {} /\ it[S \ {Max(S)}] \in A => it[S] \in A
    BY <1>3, <1>5, <1>8, Zenon
  <2>. QED
    BY <1>2, <2>1, <2>2, FoldsIn
<1>10. merge(e, from) = it[DOMAIN s]
  BY DEF merge, FoldLeft, MapThenFoldSet, it, s, base
<1>. QED
  BY <1>2, <1>9, <1>10 DEF A

-----------------------------------------------------------------------------
(* Events made from events.                                                *)

\* What an event is beside its list does not matter to the list.
LEMMA SameList ==
  ASSUME NEW e, NEW s, NEW u, Whole(e, s, u), NEW f \in Evs,
         f.mem = e.mem, f.headers = e.headers, f.last_header = e.last_header
  PROVE  Whole(f, s, u)
<1>1. Nexts(f) = Nexts(e)
  BY DEF Nexts
<1>. QED
  BY <1>1 DEF Whole

AsBefore(e, f) == f.mem = e.mem /\ f.uniq = e.uniq /\ f.body = e.body

LEMMA SubclassWhole ==
  ASSUME NEW e, NEW s, NEW u, Whole(e, s, u), NEW w \in Word,
         NEW f, f = [e EXCEPT !.subclass = w]
  PROVE  Whole(f, s, u) /\ AsBefore(e, f)
<1>1. /\ e.mem \in [DOMAIN e.mem -> Cells] /\ DOMAIN e.mem \in SUBSET (Nat \ {NULL})
      /\ e.headers \in Nat /\ e.last_header \in Nat /\ e.body \in Text \cup {NoText}
      /\ e.uniq \in BOOLEAN /\ e.subclass \in Word
      /\ e = [mem |-> e.mem, headers |-> e.headers, last_header |-> e.last_header,
              body |-> e.body, uniq |-> e.uniq, subclass |-> e.subclass]
  BY EvFields DEF Whole
<1>2. f = [mem |-> e.mem, headers |-> e.headers, last_header |-> e.last_header,
           body |-> e.body, uniq |-> e.uniq, subclass |-> w]
  BY <1>1
<1>3. f \in Evs
  BY <1>1, <1>2, EvOf
<1>4. /\ f.mem = e.mem /\ f.headers = e.headers /\ f.last_header = e.last_header
      /\ f.uniq = e.uniq /\ f.body = e.body
  BY <1>2
<1>. QED
  BY <1>3, <1>4, SameList DEF AsBefore

Asked(e, f, b) == f.mem = e.mem /\ f.uniq = b /\ f.body = e.body

LEMMA UniqWhole ==
  ASSUME NEW e, NEW s, NEW u, Whole(e, s, u), NEW b \in BOOLEAN,
         NEW f, f = [e EXCEPT !.uniq = b]
  PROVE  Whole(f, s, u) /\ Asked(e, f, b)
<1>1. /\ e.mem \in [DOMAIN e.mem -> Cells] /\ DOMAIN e.mem \in SUBSET (Nat \ {NULL})
      /\ e.headers \in Nat /\ e.last_header \in Nat /\ e.body \in Text \cup {NoText}
      /\ e.uniq \in BOOLEAN /\ e.subclass \in Word
      /\ e = [mem |-> e.mem, headers |-> e.headers, last_header |-> e.last_header,
              body |-> e.body, uniq |-> e.uniq, subclass |-> e.subclass]
  BY EvFields DEF Whole
<1>2. f = [mem |-> e.mem, headers |-> e.headers, last_header |-> e.last_header,
           body |-> e.body, uniq |-> b, subclass |-> e.subclass]
  BY <1>1
<1>3. f \in Evs
  BY <1>1, <1>2, EvOf
<1>4. /\ f.mem = e.mem /\ f.headers = e.headers /\ f.last_header = e.last_header
      /\ f.uniq = b /\ f.body = e.body
  BY <1>2
<1>. QED
  BY <1>3, <1>4, SameList DEF Asked

LEMMA EmptyWhole ==
  ASSUME NEW u \in BOOLEAN
  PROVE  Whole(Empty, <<>>, u) /\ Empty.uniq = FALSE /\ Empty.body = NoText
<1>. DEFINE m == [c \in {} |-> NULL]
<1>1. m \in [{} -> Cells] /\ DOMAIN m = {} /\ {} \in SUBSET (Nat \ {NULL})
  OBVIOUS
<1>2. Empty = [mem |-> m, headers |-> NULL, last_header |-> NULL, body |-> NoText,
               uniq |-> FALSE, subclass |-> NoText]
  BY DEF Empty
<1>. HIDE DEF m
<1>3. Empty \in Evs
  <2>1. NULL \in Nat /\ NoText \in Word /\ NoText \in Text \cup {NoText} /\ FALSE \in BOOLEAN
    BY DEF NULL, Word
  <2>. QED
    BY <1>1, <1>2, <2>1, EvOf
<1>4. Empty.mem = m /\ Empty.headers = NULL /\ Empty.last_header = NULL /\ Empty.uniq = FALSE /\ Empty.body = NoText
  BY <1>2
<1>5. <<>> \in Seq({}) /\ Len(<<>>) = 0 /\ \A i \in 1 .. 0 : FALSE
  OBVIOUS
<1>6. Threads({}, Nexts(Empty), NULL, NULL, <<>>)
  BY <1>5 DEF Threads, At
<1>7. Kept(m, <<>>, u)
  BY <1>5 DEF Kept
<1>8. IsFiniteSet({})
  BY FS_EmptySet
<1>. QED
  BY <1>1, <1>3, <1>4, <1>6, <1>7, <1>8 DEF Whole

LEMMA EmptySound == Empty \in Sound(FALSE)
BY EmptyWhole DEF Sound, Whole

\* Unique names are so where they need not be, too.
LEMMA UniqueWhole ==
  ASSUME NEW e, NEW s, Whole(e, s, TRUE), NEW u \in BOOLEAN
  PROVE  Whole(e, s, u)
<1>1. Kept(e.mem, s, u)
  BY DEF Whole, Kept
<1>. QED
  BY <1>1 DEF Whole

\* A header whose name is not there yet, in an event that may have one of a name.
LEMMA FirstAdded ==
  ASSUME NEW e, NEW s, Whole(e, s, TRUE), e.uniq = FALSE, NEW n \in AnyName \ {Body},
         HasNo(e, s, n), NEW d \in Seq(Letters), NEW f, f = base_add_header(e, BOTTOM, n, d)
  PROVE  \E r : /\ Whole(f, r, TRUE) /\ f.uniq = FALSE /\ f.body = e.body
                /\ \A x : x # n /\ HasNo(e, s, x) => HasNo(f, r, x)
<1>1. d \in Text /\ ARR \notin ToSet(d)
  <2>1. d \in Seq(Token) /\ DOMAIN d = 1 .. Len(d) /\ \A i \in 1 .. Len(d) : d[i] \in Letters
    BY DEF Token
  <2>2. \A i \in 1 .. Len(d) : d[i] # ARR
    BY <2>1, EventAssumption
  <2>3. ARR \notin ToSet(d)
    BY <2>1, <2>2 DEF ToSet
  <2>. QED
    BY <2>1, <2>2, <2>3, NoMarkText
<1>2. f = IF d = <<>> THEN del_header(e, n) ELSE FreshHeader(e, BOTTOM, n, d)
  BY <1>1 DEF base_add_header, Stacking
<1>3. CASE d = <<>>
  <2>1. f = del_header_val(e, n, <<>>)
    BY <1>2, <1>3 DEF del_header
  <2>2. PICK r, g : Whole(f, r, TRUE) /\ Left(e, s, n, f, r, g)
    BY <2>1, DeletedWhole
  <2>3. f.uniq = FALSE /\ f.body = e.body
    BY <2>2 DEF Left, Same
  <2>4. ASSUME NEW x, HasNo(e, s, x) PROVE HasNo(f, r, x)
    <3>1. ASSUME NEW i \in 1 .. Len(r) PROVE f.mem[r[i]].name # x
      <4>1. r[i] \in DOMAIN f.mem /\ r[i] = s[g[i]] /\ g[i] \in 1 .. Len(s)
        BY <2>2, WholeFacts DEF Left, Thins
      <4>2. AsIs(e, f, r[i])
        BY <2>2, <4>1 DEF Left
      <4>. QED
        BY <2>4, <4>1, <4>2 DEF HasNo, AsIs
    <3>. QED
      BY <3>1 DEF HasNo
  <2>. QED
    BY <2>2, <2>3, <2>4
<1>4. CASE d # <<>>
  <2>1. f = FreshHeader(e, BOTTOM, n, d)
    BY <1>2, <1>4
  <2>2. PICK c : Whole(f, Ends(s, BOTTOM, c), TRUE) /\ Grown(e, s, BOTTOM, n, d, f, c)
    BY <1>1, <2>1, FreshWhole
  <2>3. Ends(s, BOTTOM, c) = Append(s, c)
    BY DEF Ends, OnTop, BOTTOM, TOP, UNSHIFT
  <2>4. f.uniq = FALSE /\ f.body = e.body
    BY <2>2 DEF Grown, Same
  <2>5. ASSUME NEW x, x # n, HasNo(e, s, x) PROVE HasNo(f, Append(s, c), x)
    <3>1. ASSUME NEW i \in 1 .. Len(Append(s, c)) PROVE f.mem[Append(s, c)[i]].name # x
      <4>1. s \in Seq(DOMAIN e.mem) /\ Len(s) \in Nat
        BY WholeFacts
      <4>2. CASE i \in 1 .. Len(s)
        <5>1. Append(s, c)[i] = s[i] /\ s[i] \in DOMAIN e.mem
          BY <4>1, <4>2
        <5>2. AsIs(e, f, s[i])
          BY <2>2, <5>1 DEF Grown
        <5>. QED
          BY <2>5, <4>2, <5>1, <5>2 DEF HasNo, AsIs
      <4>3. CASE i = Len(s) + 1
        <5>1. Append(s, c)[i] = c
          BY <4>1, <4>3
        <5>. QED
          BY <2>2, <2>5, <5>1 DEF Grown
      <4>4. i \in 1 .. Len(s) \/ i = Len(s) + 1
        BY <4>1
      <4>. QED
        BY <4>2, <4>3, <4>4
    <3>. QED
      BY <3>1 DEF HasNo
  <2>. QED
    BY <2>2, <2>3, <2>4, <2>5
<1>. QED
  BY <1>3, <1>4

LEMMA CreatedList ==
  ASSUME NEW name \in Word, NEW sub \in Word, NEW u \in BOOLEAN,
         NEW f, f = [create_subclass(name, sub) EXCEPT !.uniq = u]
  PROVE  \E r : /\ Whole(f, r, u) /\ f.uniq = u /\ f.body = NoText
                /\ \A x : x \notin {EventName, Subclass} => HasNo(f, r, x)
<1>. DEFINE e == IF name = NoText THEN Empty ELSE base_add_header(Empty, BOTTOM, EventName, name)
            e2 == [e EXCEPT !.subclass = sub]
            e3 == IF sub = NoText THEN e ELSE base_add_header(e2, BOTTOM, Subclass, sub)
<1>1. /\ EventName \in AnyName \ {Body} /\ Subclass \in AnyName \ {Body}
      /\ EventName # Subclass
  BY DEF AnyName, Special, EventName, Subclass, Body
<1>2. PICK s : /\ Whole(e, s, TRUE) /\ e.uniq = FALSE /\ e.body = NoText
               /\ \A x : x # EventName => HasNo(e, s, x)
  <2>1. Whole(Empty, <<>>, TRUE) /\ Empty.uniq = FALSE /\ Empty.body = NoText
    BY EmptyWhole
  <2>2. \A x : HasNo(Empty, <<>>, x)
    <3>1. Len(<<>>) = 0 /\ \A i \in 1 .. 0 : FALSE
      OBVIOUS
    <3>. QED
      BY <3>1 DEF HasNo
  <2>3. CASE name = NoText
    BY <2>1, <2>2, <2>3
  <2>4. CASE name # NoText
    <3>1. name \in Seq(Letters) /\ e = base_add_header(Empty, BOTTOM, EventName, name)
      BY <2>4 DEF Word
    <3>. HIDE DEF e
    <3>2. PICK r : /\ Whole(e, r, TRUE) /\ e.uniq = FALSE /\ e.body = Empty.body
                   /\ \A x : x # EventName /\ HasNo(Empty, <<>>, x) => HasNo(e, r, x)
      BY <1>1, <2>1, <2>2, <3>1, FirstAdded
    <3>. QED
      BY <2>1, <2>2, <3>2
  <2>. QED
    BY <2>3, <2>4
<1>. HIDE DEF e
<1>3. Whole(e2, s, TRUE) /\ e2.mem = e.mem /\ e2.uniq = FALSE /\ e2.body = NoText
  <2>1. e2 = [e EXCEPT !.subclass = sub] /\ sub \in Word
    OBVIOUS
  <2>. HIDE DEF e2, e3
  <2>2. Whole(e2, s, TRUE) /\ AsBefore(e, e2)
    BY <1>2, <2>1, SubclassWhole
  <2>. QED
    BY <1>2, <2>2 DEF AsBefore
<1>4. \A x : x # EventName => HasNo(e2, s, x)
  <2>. HIDE DEF e2
  <2>. QED
    BY <1>2, <1>3 DEF HasNo
<1>. HIDE DEF e2
<1>5. PICK r : /\ Whole(e3, r, TRUE) /\ e3.body = NoText
               /\ \A x : x \notin {EventName, Subclass} => HasNo(e3, r, x)
  <2>1. CASE sub = NoText
    BY <1>2, <2>1
  <2>2. CASE sub # NoText
    <3>1. sub \in Seq(Letters) /\ e3 = base_add_header(e2, BOTTOM, Subclass, sub)
      BY <2>2 DEF Word
    <3>. HIDE DEF e3
    <3>2. HasNo(e2, s, Subclass)
      BY <1>1, <1>4
    <3>3. PICK r : /\ Whole(e3, r, TRUE) /\ e3.body = e2.body
                   /\ \A x : x # Subclass /\ HasNo(e2, s, x) => HasNo(e3, r, x)
      BY <1>1, <1>3, <3>1, <3>2, FirstAdded
    <3>. QED
      BY <1>3, <1>4, <3>3
  <2>. QED
    BY <2>1, <2>2
<1>6. f = [e3 EXCEPT !.uniq = u]
  BY DEF create_subclass, e, e2, e3
<1>. HIDE DEF e3
<1>7. Whole(f, r, TRUE) /\ f.uniq = u /\ f.mem = e3.mem /\ f.body = NoText
  <2>1. Whole(e3, r, TRUE)
    BY <1>5
  <2>2. Whole(f, r, TRUE) /\ Asked(e3, f, u)
    BY <1>6, <2>1, UniqWhole
  <2>. QED
    BY <1>5, <2>2 DEF Asked
<1>8. \A x : x \notin {EventName, Subclass} => HasNo(f, r, x)
  BY <1>5, <1>7 DEF HasNo
<1>9. Whole(f, r, u)
  BY <1>7, UniqueWhole
<1>. QED
  BY <1>7, <1>8, <1>9

LEMMA CreatedWhole ==
  ASSUME NEW name \in Word, NEW sub \in Word, NEW u \in BOOLEAN,
         NEW f, f = [create_subclass(name, sub) EXCEPT !.uniq = u]
  PROVE  f \in Sound(u)
BY CreatedList DEF Sound, Whole

LEMMA SoundRenamed ==
  ASSUME NEW u, NEW e \in Sound(u), NEW n
  PROVE  Renamed(e, n) \in Sound(u)
BY SoundDeleted DEF Renamed, del_header

\* What the reader of the JSON text does with an item, and its loop.
JsonStep(f, h) == IF h.array = <<>> /\ h.name = Body THEN set_body(f, h.value)
                  ELSE Added(IF h.array = <<>> THEN Renamed(f, h.name) ELSE f, h)
JsonSteps(items, it) ==
  /\ it[0] = Empty /\ \A i \in 1 .. Len(items) : it[i] = JsonStep(it[i - 1], items[i])
  /\ \A i \in 0 .. Len(items) : it[i] \in Sound(FALSE)

LEMMA ItemSteps ==
  ASSUME NEW items \in Seq(Heads)
  PROVE  \E w : JsonSteps(items, w) /\ create_json(items) = w[Len(items)]
<1>. DEFINE Step(f, h) == IF h.array = <<>> /\ h.name = Body THEN set_body(f, h.value)
                          ELSE Added(IF h.array = <<>> THEN Renamed(f, h.name) ELSE f, h)
<1>0. ASSUME NEW f \in Sound(FALSE), NEW h \in Heads PROVE Step(f, h) \in Sound(FALSE)
  <2>1. Renamed(f, h.name) \in Sound(FALSE)
    BY SoundRenamed
  <2>2. h.value \in Text
    BY DEF Heads
  <2>. QED
    BY <2>1, <2>2, SoundHeader, SoundBody
<1>. HIDE DEF Step
<1>. DEFINE s == items
            m == Len(s)
            A == Sound(FALSE)
            base == Empty
            G == [i \in 1 .. m |-> [f \in A |-> Step(f, s[i])]]
            body(f) == [S \in SUBSET DOMAIN s |->
                          IF S = {} THEN base ELSE Step(f[S \ {Max(S)}], s[Max(S)])]
            it == CHOOSE f : f = body(f)
<1>1. s \in Seq(Heads) /\ base \in Sound(FALSE)
  BY EmptySound
<1>. HIDE DEF s, base
<1>2. m \in Nat /\ DOMAIN s = 1 .. m /\ \A i \in 1 .. m : s[i] \in Heads
  BY <1>1
<1>. HIDE DEF m, A
<1>3. \A i \in 1 .. m : \A f \in A : /\ G[i][f] = Step(f, s[i])
                                     /\ Step(f, s[i]) \in A
  BY <1>2, <1>0 DEF A
<1>. HIDE DEF G
<1>4. PICK f : FoldsTo(m, base, G, A, f)
  <2>1. m \in Nat /\ base \in A /\ \A i \in 1 .. m : \A x \in A : G[i][x] \in A
    BY <1>1, <1>2, <1>3, Zenon DEF A
  <2>. QED
    BY <2>1, FoldsExist, Zenon
<1>5. \A S \in SUBSET (1 .. m) : S # {} => Max(S) \in 1 .. m /\ S \ {Max(S)} \in SUBSET (1 .. m)
  BY <1>2, Places
<1>6. f = body(f)
  <2>1. \A S \in SUBSET (1 .. m) :
          f[S] = IF S = {} THEN base ELSE Step(f[S \ {Max(S)}], s[Max(S)])
    BY <1>3, <1>4, <1>5, Zenon DEF FoldsTo
  <2>. QED
    BY <1>2, <1>4, <2>1, Zenon DEF FoldsTo
<1>7. it = body(it)
  BY <1>6, Zenon
<1>. HIDE DEF it
<1>8. \A S \in SUBSET (1 .. m) :
        it[S] = IF S = {} THEN base ELSE Step(it[S \ {Max(S)}], s[Max(S)])
  BY <1>2, <1>7, Zenon
<1>9. \A S \in SUBSET (1 .. m) : it[S] \in A
  <2>1. it[{}] \in A
    <3>1. {} \in SUBSET (1 .. m)
      OBVIOUS
    <3>. QED
      BY <1>1, <1>8, <3>1, Zenon DEF A
  <2>2. \A S \in SUBSET (1 .. m) : S # {} /\ it[S \ {Max(S)}] \in A => it[S] \in A
    BY <1>3, <1>5, <1>8, Zenon
  <2>. QED
    BY <1>2, <2>1, <2>2, FoldsIn
<1>10. create_json(items) = it[DOMAIN s]
  BY DEF create_json, FoldLeft, MapThenFoldSet, it, s, base, Step
<1>. DEFINE w == [i \in 0 .. m |-> it[1 .. i]]
<1>11. ASSUME NEW i \in 1 .. m PROVE w[i] = Step(w[i - 1], s[i])
  <2>1. /\ 1 .. i \in SUBSET (1 .. m) /\ 1 .. i # {} /\ Max(1 .. i) = i
        /\ (1 .. i) \ {i} = 1 .. i - 1
    BY <1>2, FirstPlaces
  <2>2. it[1 .. i] = Step(it[1 .. i - 1], s[i])
    BY <1>8, <2>1, Zenon
  <2>3. w[i] = it[1 .. i] /\ w[i - 1] = it[1 .. i - 1]
    BY <1>2
  <2>. HIDE DEF w
  <2>. QED
    BY <2>2, <2>3, Zenon
<1>12. w[0] = base
  <2>1. {} \in SUBSET (1 .. m) /\ 1 .. 0 = {} /\ w[0] = it[1 .. 0]
    BY <1>2
  <2>. HIDE DEF w
  <2>. QED
    BY <1>8, <2>1, Zenon
<1>13. ASSUME NEW i \in 0 .. m PROVE w[i] \in A
  <2>1. 1 .. i \in SUBSET (1 .. m) /\ w[i] = it[1 .. i]
    BY <1>2
  <2>. HIDE DEF w
  <2>. QED
    BY <1>9, <2>1, Zenon
<1>14. w[m] = it[DOMAIN s]
  BY <1>2
<1>. HIDE DEF w
<1>15. JsonSteps(s, w) /\ create_json(items) = w[Len(s)]
  BY <1>10, <1>11, <1>12, <1>13, <1>14, Zenon DEF JsonSteps, JsonStep, Step, m, A, base
<1>. QED
  BY <1>15 DEF s

LEMMA SoundJson ==
  ASSUME NEW items \in Seq(Heads)
  PROVE  create_json(items) \in Sound(FALSE)
<1>1. PICK w : JsonSteps(items, w) /\ create_json(items) = w[Len(items)]
  BY ItemSteps
<1>2. Len(items) \in 0 .. Len(items)
  OBVIOUS
<1>. QED
  BY <1>1, <1>2 DEF JsonSteps

\* The lines of an event sent as text.
Lines == {l \in [name : AnyName, value : Text] : l.value # <<>>}

\* What the reader of the text does with a line, and its loop.
ParseStep(e, l) ==
  IF Head(l.value) = ARR THEN add_array(Renamed(e, l.name), l.name, l.value)
  ELSE base_add_header(Renamed(e, l.name), BOTTOM, l.name, l.value)
ParseSteps(lines, it) ==
  /\ it[0] = Empty /\ \A i \in 1 .. Len(lines) : it[i] = ParseStep(it[i - 1], lines[i])
  /\ \A i \in 0 .. Len(lines) : it[i] \in Sound(FALSE)

LEMMA LineSteps ==
  ASSUME NEW text, text.lines \in Seq(Lines), text.body \in Text
  PROVE  \E w : /\ ParseSteps(text.lines, w)
               /\ parse(text) = LET e1 == w[Len(text.lines)]
                                IN  IF get_header_ptr(e1, Length) = NULL THEN e1
                                    ELSE set_body(e1, text.body)
<1>. DEFINE Step(e, l) ==
              IF Head(l.value) = ARR THEN add_array(Renamed(e, l.name), l.name, l.value)
              ELSE base_add_header(Renamed(e, l.name), BOTTOM, l.name, l.value)
<1>0. ASSUME NEW f \in Sound(FALSE), NEW l \in Lines PROVE Step(f, l) \in Sound(FALSE)
  <2>. DEFINE g == Renamed(f, l.name)
              n == l.name
              d == l.value
  <2>1. g \in Sound(FALSE)
    BY SoundRenamed
  <2>2. n \in AnyName /\ d \in Text /\ d # <<>> /\ BOTTOM \in Sense
    BY DEF Lines, Sense, BOTTOM, UNSHIFT
  <2>3. Head(d) = d[1]
    BY <2>2 DEF Text
  <2>4. Step(f, l) = IF Head(d) = ARR THEN add_array(g, n, d) ELSE base_add_header(g, BOTTOM, n, d)
    OBVIOUS
  <2>. HIDE DEF g, n, d, Step
  <2>5. CASE Head(d) = ARR
    BY <2>1, <2>2, <2>3, <2>4, <2>5, SoundArray
  <2>6. CASE Head(d) # ARR
    BY <2>1, <2>2, <2>4, <2>6, SoundAdded
  <2>. QED
    BY <2>5, <2>6
<1>. HIDE DEF Step
<1>. DEFINE s == text.lines
            m == Len(s)
            A == Sound(FALSE)
            base == Empty
            G == [i \in 1 .. m |-> [f \in A |-> Step(f, s[i])]]
            body(f) == [S \in SUBSET DOMAIN s |->
                          IF S = {} THEN base ELSE Step(f[S \ {Max(S)}], s[Max(S)])]
            it == CHOOSE f : f = body(f)
<1>1. s \in Seq(Lines) /\ base \in Sound(FALSE)
  BY EmptySound
<1>. HIDE DEF s, base
<1>2. m \in Nat /\ DOMAIN s = 1 .. m /\ \A i \in 1 .. m : s[i] \in Lines
  BY <1>1
<1>. HIDE DEF m, A
<1>3. \A i \in 1 .. m : \A f \in A : /\ G[i][f] = Step(f, s[i])
                                     /\ Step(f, s[i]) \in A
  BY <1>2, <1>0 DEF A
<1>. HIDE DEF G
<1>4. PICK f : FoldsTo(m, base, G, A, f)
  <2>1. m \in Nat /\ base \in A /\ \A i \in 1 .. m : \A x \in A : G[i][x] \in A
    BY <1>1, <1>2, <1>3, Zenon DEF A
  <2>. QED
    BY <2>1, FoldsExist, Zenon
<1>5. \A S \in SUBSET (1 .. m) : S # {} => Max(S) \in 1 .. m /\ S \ {Max(S)} \in SUBSET (1 .. m)
  BY <1>2, Places
<1>6. f = body(f)
  <2>1. \A S \in SUBSET (1 .. m) :
          f[S] = IF S = {} THEN base ELSE Step(f[S \ {Max(S)}], s[Max(S)])
    BY <1>3, <1>4, <1>5, Zenon DEF FoldsTo
  <2>. QED
    BY <1>2, <1>4, <2>1, Zenon DEF FoldsTo
<1>7. it = body(it)
  BY <1>6, Zenon
<1>. HIDE DEF it
<1>8. \A S \in SUBSET (1 .. m) :
        it[S] = IF S = {} THEN base ELSE Step(it[S \ {Max(S)}], s[Max(S)])
  BY <1>2, <1>7, Zenon
<1>9. \A S \in SUBSET (1 .. m) : it[S] \in A
  <2>1. it[{}] \in A
    <3>1. {} \in SUBSET (1 .. m)
      OBVIOUS
    <3>. QED
      BY <1>1, <1>8, <3>1, Zenon DEF A
  <2>2. \A S \in SUBSET (1 .. m) : S # {} /\ it[S \ {Max(S)}] \in A => it[S] \in A
    BY <1>3, <1>5, <1>8, Zenon
  <2>. QED
    BY <1>2, <2>1, <2>2, FoldsIn
<1>10. parse(text) = LET e1 == it[DOMAIN s]
                     IN  IF get_header_ptr(e1, Length) = NULL THEN e1 ELSE set_body(e1, text.body)
  BY DEF parse, FoldLeft, MapThenFoldSet, it, s, base, Step
<1>. DEFINE w == [i \in 0 .. m |-> it[1 .. i]]
<1>11. ASSUME NEW i \in 1 .. m PROVE w[i] = Step(w[i - 1], s[i])
  <2>1. /\ 1 .. i \in SUBSET (1 .. m) /\ 1 .. i # {} /\ Max(1 .. i) = i
        /\ (1 .. i) \ {i} = 1 .. i - 1
    BY <1>2, FirstPlaces
  <2>2. it[1 .. i] = Step(it[1 .. i - 1], s[i])
    BY <1>8, <2>1, Zenon
  <2>3. w[i] = it[1 .. i] /\ w[i - 1] = it[1 .. i - 1]
    BY <1>2
  <2>. HIDE DEF w
  <2>. QED
    BY <2>2, <2>3, Zenon
<1>12. w[0] = base
  <2>1. {} \in SUBSET (1 .. m) /\ 1 .. 0 = {} /\ w[0] = it[1 .. 0]
    BY <1>2
  <2>. HIDE DEF w
  <2>. QED
    BY <1>8, <2>1, Zenon
<1>13. ASSUME NEW i \in 0 .. m PROVE w[i] \in A
  <2>1. 1 .. i \in SUBSET (1 .. m) /\ w[i] = it[1 .. i]
    BY <1>2
  <2>. HIDE DEF w
  <2>. QED
    BY <1>9, <2>1, Zenon
<1>14. w[m] = it[DOMAIN s]
  BY <1>2
<1>. HIDE DEF w
<1>15. ParseSteps(s, w)
  BY <1>11, <1>12, <1>13, Zenon DEF ParseSteps, ParseStep, Step, m, A, base
<1>. QED
  BY <1>10, <1>14, <1>15 DEF s, m

LEMMA SoundParsed ==
  ASSUME NEW text, text.lines \in Seq(Lines), text.body \in Text
  PROVE  parse(text) \in Sound(FALSE)
<1>1. PICK w : /\ ParseSteps(text.lines, w)
               /\ parse(text) = LET e1 == w[Len(text.lines)]
                                IN  IF get_header_ptr(e1, Length) = NULL THEN e1
                                    ELSE set_body(e1, text.body)
  BY LineSteps
<1>2. w[Len(text.lines)] \in Sound(FALSE)
  <2>1. Len(text.lines) \in 0 .. Len(text.lines)
    OBVIOUS
  <2>. QED
    BY <1>1, <2>1 DEF ParseSteps
<1>. QED
  BY <1>1, <1>2, SoundBody

LEMMA OneToken ==
  ASSUME NEW k \in Token, k # ARR
  PROVE  <<k>> \in Text /\ <<k>> # <<>>
<1>. DEFINE t == <<k>>
<1>1. t \in Seq(Token) /\ Len(t) = 1 /\ t[1] = k /\ \A i \in 1 .. 1 : i = 1
  OBVIOUS
<1>2. t # <<>>
  OBVIOUS
<1>. HIDE DEF t
<1>3. t \in Text
  BY <1>1, NoMarkText
<1>. QED
  BY <1>2, <1>3 DEF t

LEMMA NumberIsText == Number \in Text /\ Number # <<>> /\ undef \in Text /\ undef # <<>>
<1>1. "#" \in Token /\ "#" # ARR /\ "_undef_" \in Token /\ "_undef_" # ARR
  BY DEF Token, ARR
<1>. QED
  BY <1>1, OneToken DEF Number, undef

LEMMA SentLines ==
  ASSUME NEW u, NEW e \in Sound(u)
  PROVE  serialize(e).lines \in Seq(Lines) /\ serialize(e).body \in Text
<1>. DEFINE hs == HeadersOf(e)
            ls == [i \in DOMAIN hs |->
                     Line(hs[i].name, IF hs[i].value = <<>> THEN undef ELSE hs[i].value)]
            last == Line(Length, Number)
            all == IF e.body \in {NoText, <<>>} THEN ls ELSE Append(ls, last)
<1>1. hs \in Seq(Heads)
  BY HeadersFit
<1>. HIDE DEF hs
<1>2. Len(hs) \in Nat /\ DOMAIN hs = 1 .. Len(hs) /\ \A i \in 1 .. Len(hs) : hs[i] \in Heads
  BY <1>1
<1>3. undef \in Text /\ Number \in Text /\ undef # <<>> /\ Number # <<>>
  BY NumberIsText
<1>4. ASSUME NEW i \in 1 .. Len(hs)
      PROVE  Line(hs[i].name, IF hs[i].value = <<>> THEN undef ELSE hs[i].value) \in Lines
  <2>1. hs[i].name \in AnyName /\ hs[i].value \in Text
    BY <1>2 DEF Heads, Cells
  <2>. QED
    BY <1>3, <2>1 DEF Lines, Line
<1>5. ls \in Seq(Lines)
  <2>1. ls \in [1 .. Len(hs) -> Lines]
    BY <1>2, <1>4
  <2>. HIDE DEF ls
  <2>. QED
    BY <1>2, <2>1, ListOf
<1>6. last \in Lines
  BY <1>3 DEF Lines, Line, Length, AnyName, Special
<1>. HIDE DEF ls, last
<1>7. all \in Seq(Lines)
  BY <1>5, <1>6
<1>8. e.body \in Text \cup {NoText} /\ <<>> \in Text
  BY EvFields, EmptyBare DEF Sound, Bare
<1>9. serialize(e) = [lines |-> all, body |-> IF e.body = NoText THEN <<>> ELSE e.body]
  BY DEF serialize, all, ls, last, hs
<1>. HIDE DEF all
<1>. QED
  BY <1>7, <1>8, <1>9

LEMMA SentItems ==
  ASSUME NEW u, NEW e \in Sound(u)
  PROVE  serialize_json(e) \in Seq(Heads)
<1>. DEFINE Item(n, v) == [name |-> n, value |-> v, array |-> <<>>, next |-> NULL]
<1>1. HeadersOf(e) \in Seq(Heads)
  BY HeadersFit
<1>2. CASE e.body = NoText
  BY <1>1, <1>2 DEF serialize_json
<1>3. CASE e.body # NoText
  <2>1. e.body \in Text /\ Number \in Text
    BY <1>3, EvFields, NumberIsText DEF Sound
  <2>2. ASSUME NEW n \in {Length, Body}, NEW v \in Text PROVE Item(n, v) \in Heads
    BY DEF Heads, Cells, AnyName, Special, Length, Body, NULL
  <2>3. <<Item(Length, Number), Item(Body, e.body)>> \in Seq(Heads)
    <3>1. Item(Length, Number) \in Heads /\ Item(Body, e.body) \in Heads
      BY <2>1, <2>2
    <3>. HIDE DEF Item
    <3>. QED
      BY <3>1
  <2>4. serialize_json(e) = HeadersOf(e) \o <<Item(Length, Number), Item(Body, e.body)>>
    BY <1>3 DEF serialize_json
  <2>. HIDE DEF Item
  <2>. QED
    BY <1>1, <2>3, <2>4
<1>. QED
  BY <1>2, <1>3

\* The loop over the headers hs that are copied.
CopyStep(e, f, h) == IF e.subclass # NoText /\ h.name = Subclass THEN f ELSE Added(f, h)
CopySteps(u, e, hs, it) ==
  /\ it[0] = [create_subclass(NoText, e.subclass) EXCEPT !.uniq = e.uniq]
  /\ \A i \in 1 .. Len(hs) : it[i] = CopyStep(e, it[i - 1], hs[i])
  /\ \A i \in 0 .. Len(hs) : it[i] \in Sound(u)

LEMMA DupSteps ==
  ASSUME NEW u, NEW e \in Sound(u), NEW hs, hs = HeadersOf(e)
  PROVE  \E w : /\ CopySteps(u, e, hs, w)
               /\ dup(e) = LET e1 == w[Len(hs)]
                           IN  IF e.body = NoText THEN e1 ELSE set_body(e1, e.body)
<1>. DEFINE Step(f, h) == IF e.subclass # NoText /\ h.name = Subclass THEN f ELSE Added(f, h)
            new == [create_subclass(NoText, e.subclass) EXCEPT !.uniq = e.uniq]
<1>0. ASSUME NEW f \in Sound(u), NEW h \in Heads PROVE Step(f, h) \in Sound(u)
  BY SoundHeader
<1>. HIDE DEF Step
<1>a. e.uniq = u /\ u \in BOOLEAN /\ e.subclass \in Word /\ NoText \in Word
      /\ e.body \in Text \cup {NoText}
  BY EvFields DEF Sound, Word
<1>b. new \in Sound(u)
  <2>. DEFINE w == e.subclass
  <2>1. new = [create_subclass(NoText, w) EXCEPT !.uniq = u] /\ w \in Word
    BY <1>a
  <2>. HIDE DEF new, w
  <2>. QED
    BY <1>a, <2>1, CreatedWhole
<1>. HIDE DEF new
<1>. DEFINE s == HeadersOf(e)
            m == Len(s)
            A == Sound(u)
            base == new
            G == [i \in 1 .. m |-> [f \in A |-> Step(f, s[i])]]
            body(f) == [S \in SUBSET DOMAIN s |->
                          IF S = {} THEN base ELSE Step(f[S \ {Max(S)}], s[Max(S)])]
            it == CHOOSE f : f = body(f)
<1>1. s \in Seq(Heads) /\ base \in Sound(u)
  BY <1>b, HeadersFit
<1>. HIDE DEF s, base
<1>2. m \in Nat /\ DOMAIN s = 1 .. m /\ \A i \in 1 .. m : s[i] \in Heads
  BY <1>1
<1>. HIDE DEF m, A
<1>3. \A i \in 1 .. m : \A f \in A : /\ G[i][f] = Step(f, s[i])
                                     /\ Step(f, s[i]) \in A
  BY <1>2, <1>0 DEF A
<1>. HIDE DEF G
<1>4. PICK f : FoldsTo(m, base, G, A, f)
  <2>1. m \in Nat /\ base \in A /\ \A i \in 1 .. m : \A x \in A : G[i][x] \in A
    BY <1>1, <1>2, <1>3, Zenon DEF A
  <2>. QED
    BY <2>1, FoldsExist, Zenon
<1>5. \A S \in SUBSET (1 .. m) : S # {} => Max(S) \in 1 .. m /\ S \ {Max(S)} \in SUBSET (1 .. m)
  BY <1>2, Places
<1>6. f = body(f)
  <2>1. \A S \in SUBSET (1 .. m) :
          f[S] = IF S = {} THEN base ELSE Step(f[S \ {Max(S)}], s[Max(S)])
    BY <1>3, <1>4, <1>5, Zenon DEF FoldsTo
  <2>. QED
    BY <1>2, <1>4, <2>1, Zenon DEF FoldsTo
<1>7. it = body(it)
  BY <1>6, Zenon
<1>. HIDE DEF it
<1>8. \A S \in SUBSET (1 .. m) :
        it[S] = IF S = {} THEN base ELSE Step(it[S \ {Max(S)}], s[Max(S)])
  BY <1>2, <1>7, Zenon
<1>9. \A S \in SUBSET (1 .. m) : it[S] \in A
  <2>1. it[{}] \in A
    <3>1. {} \in SUBSET (1 .. m)
      OBVIOUS
    <3>. QED
      BY <1>1, <1>8, <3>1, Zenon DEF A
  <2>2. \A S \in SUBSET (1 .. m) : S # {} /\ it[S \ {Max(S)}] \in A => it[S] \in A
    BY <1>3, <1>5, <1>8, Zenon
  <2>. QED
    BY <1>2, <2>1, <2>2, FoldsIn
<1>10. dup(e) = LET e1 == it[DOMAIN s]
                 IN  IF e.body = NoText THEN e1 ELSE set_body(e1, e.body)
  BY DEF dup, FoldLeft, MapThenFoldSet, it, s, base, Step, new
<1>. DEFINE w == [i \in 0 .. m |-> it[1 .. i]]
<1>11. ASSUME NEW i \in 1 .. m PROVE w[i] = Step(w[i - 1], s[i])
  <2>1. /\ 1 .. i \in SUBSET (1 .. m) /\ 1 .. i # {} /\ Max(1 .. i) = i
        /\ (1 .. i) \ {i} = 1 .. i - 1
    BY <1>2, FirstPlaces
  <2>2. it[1 .. i] = Step(it[1 .. i - 1], s[i])
    BY <1>8, <2>1, Zenon
  <2>3. w[i] = it[1 .. i] /\ w[i - 1] = it[1 .. i - 1]
    BY <1>2
  <2>. HIDE DEF w
  <2>. QED
    BY <2>2, <2>3, Zenon
<1>12. w[0] = base
  <2>1. {} \in SUBSET (1 .. m) /\ 1 .. 0 = {} /\ w[0] = it[1 .. 0]
    BY <1>2
  <2>. HIDE DEF w
  <2>. QED
    BY <1>8, <2>1, Zenon
<1>13. ASSUME NEW i \in 0 .. m PROVE w[i] \in A
  <2>1. 1 .. i \in SUBSET (1 .. m) /\ w[i] = it[1 .. i]
    BY <1>2
  <2>. HIDE DEF w
  <2>. QED
    BY <1>9, <2>1, Zenon
<1>14. w[m] = it[DOMAIN s]
  BY <1>2
<1>. HIDE DEF w
<1>15. CopySteps(u, e, s, w)
  BY <1>11, <1>12, <1>13, Zenon DEF CopySteps, CopyStep, Step, m, A, base, new
<1>. QED
  BY <1>10, <1>14, <1>15 DEF s, m

LEMMA SoundCopy ==
  ASSUME NEW u, NEW e \in Sound(u)
  PROVE  dup(e) \in Sound(u)
<1>. DEFINE hs == HeadersOf(e)
<1>1. PICK w : /\ CopySteps(u, e, hs, w)
               /\ dup(e) = LET e1 == w[Len(hs)]
                           IN  IF e.body = NoText THEN e1 ELSE set_body(e1, e.body)
  BY DupSteps
<1>2. Len(hs) \in 0 .. Len(hs)
  BY HeadersFit
<1>. HIDE DEF hs
<1>3. w[Len(hs)] \in Sound(u) /\ e.body \in Text \cup {NoText}
  BY <1>1, <1>2, EvFields DEF CopySteps, Sound
<1>. QED
  BY <1>1, <1>3, SoundBody

-----------------------------------------------------------------------------
(* A header given by name and index.                                       *)

LEMMA ArrayPut ==
  ASSUME NEW o, NEW a, NEW v, NEW r, r = [o EXCEPT !.array = a, !.value = v],
         o = [name |-> o.name, value |-> o.value, array |-> o.array, next |-> o.next]
  PROVE  r = [name |-> o.name, value |-> v, array |-> a, next |-> o.next]
OBVIOUS

\* Header h, the first called n or one outside the list, gets an array: any,
\* with its value, or its own with another element.
LEMMA SoundIndexed ==
  ASSUME NEW u, NEW e \in Sound(u), NEW sense, NEW n \in AnyName, NEW i \in Int, NEW d \in Text
  PROVE  base_add_index(e, sense, n, i, d) \in Sound(u)
<1>. DEFINE c == get_header_ptr(e, n)
            f == IF c = NULL THEN new_header(e, n) ELSE e
            h == IF c = NULL THEN NewCell(e) ELSE c
            old == f.mem[h]
            arr == old.array
            new == [j \in 1 .. i + 1 |-> IF j = i + 1 THEN d
                                         ELSE IF j <= Len(arr) THEN arr[j] ELSE <<>>]
            r1 == [old EXCEPT !.array = [arr EXCEPT ![i + 1] = d]]
            r2 == [old EXCEPT !.array = new, !.value = Render(new)]
            f1 == [f EXCEPT !.mem[h] = r1]
            g == [f EXCEPT !.mem[h] = r2]
<1>1. PICK s : Whole(e, s, u)
  BY DEF Sound
<1>2. base_add_index(e, sense, n, i, d) =
        IF i \notin 0 .. MaxIndex THEN f
        ELSE IF i < Len(arr) THEN f1
        ELSE IF c = NULL THEN Linked(g, sense, h) ELSE g
  BY DEF base_add_index
<1>3. /\ Whole(f, s, u) /\ Same(e, f) /\ h \in DOMAIN f.mem /\ old.name = n
      /\ c = NULL => HasNo(f, s, n) /\ arr = <<>> /\ \A k \in 1 .. Len(s) : s[k] # h
      /\ c # NULL => /\ old.value \in Text
                     /\ \A k \in 1 .. Len(s) : s[k] = h =>
                          \A j \in 1 .. Len(s) : f.mem[s[j]].name = n => k <= j
  <2>1. CASE c = NULL
    <3>1. HasNo(e, s, n)
      BY <1>1, <2>1, HeaderFound DEF HasNo
    <3>2. /\ Whole(f, s, u) /\ Same(e, f)
          /\ h # NULL /\ h \in DOMAIN f.mem /\ old = Blank(n)
          /\ \A k \in 1 .. Len(s) : s[k] # h
          /\ \A b \in DOMAIN e.mem : b \in DOMAIN f.mem /\ f.mem[b] = e.mem[b]
      <4>1. f = new_header(e, n) /\ h = NewCell(e)
        BY <2>1
      <4>. HIDE DEF f, h
      <4>. QED
        BY <1>1, <4>1, NewHeaderIs
    <3>. HIDE DEF f, h, c
    <3>3. HasNo(f, s, n)
      BY <1>1, <3>1, <3>2, WholeFacts DEF HasNo
    <3>. QED
      BY <2>1, <3>2, <3>3 DEF Blank
  <2>2. CASE c # NULL
    <3>1. PICK k \in 1 .. Len(s) : /\ c = s[k] /\ e.mem[s[k]].name = n
                                   /\ \A j \in 1 .. Len(s) : e.mem[s[j]].name = n => k <= j
      BY <1>1, <2>2, HeaderFound
    <3>2. f = e /\ h = c /\ Same(e, e)
      BY <2>2 DEF Same
    <3>. HIDE DEF f, h, c
    <3>. QED
      BY <1>1, <2>2, <3>1, <3>2, WholeFacts
  <2>. QED
    BY <2>1, <2>2
<1>4. f \in Evs /\ f.uniq = u
  BY <1>3 DEF Whole, Same, Sound
<1>. HIDE DEF f, h, c
<1>5. /\ old \in Cells /\ old.name \in AnyName /\ arr \in Seq(Text) /\ old.next \in Nat
      /\ old = [name |-> old.name, value |-> old.value, array |-> arr, next |-> old.next]
  <2>1. old \in Cells
    BY <1>3, <1>4, EvFields
  <2>. QED
    BY <2>1 DEF Cells
<1>6. f \in Sound(u)
  BY <1>3, <1>4 DEF Sound
<1>. HIDE DEF old, arr
<1>7. ASSUME i \in 0 .. MaxIndex, i < Len(arr) PROVE f1 \in Sound(u)
  <2>1. c # NULL
    <3>1. Len(<<>>) = 0
      OBVIOUS
    <3>. QED
      BY <1>3, <1>7, <3>1 DEF arr
  <2>2. [arr EXCEPT ![i + 1] = d] \in Seq(Text)
    <3>1. arr \in [1 .. Len(arr) -> Text] /\ Len(arr) \in Nat
      BY <1>5
    <3>2. [arr EXCEPT ![i + 1] = d] \in [1 .. Len(arr) -> Text]
      BY <3>1
    <3>. QED
      BY <3>1, <3>2, ListOf
  <2>3. r1 = [name |-> old.name, value |-> old.value,
              array |-> [arr EXCEPT ![i + 1] = d], next |-> old.next]
    BY <1>5
  <2>. HIDE DEF r1
  <2>4. r1 \in Cells /\ r1.value \in Text /\ r1.name = old.name /\ r1.next = old.next
    BY <1>3, <1>5, <2>1, <2>2, <2>3 DEF Cells, old
  <2>5. Rewrites(f, h, f1)
    BY <1>3, <1>4, <2>4, PutIs DEF old
  <2>. HIDE DEF f1
  <2>6. Whole(f1, s, u)
    BY <1>3, <2>1, <2>5, RewrittenWhole DEF old
  <2>. QED
    BY <1>4, <2>5, <2>6 DEF Sound, Rewrites, Same
<1>8. ASSUME i \in 0 .. MaxIndex, ~ (i < Len(arr))
      PROVE  (IF c = NULL THEN Linked(g, sense, h) ELSE g) \in Sound(u)
  <2>1. new \in Seq(Text) /\ new # <<>>
    <3>1. ASSUME NEW j \in 1 .. i + 1, j <= Len(arr) PROVE arr[j] \in Text
      BY <1>5, <1>8, <3>1
    <3>2. <<>> \in Text
      BY EmptyBare DEF Bare
    <3>3. new \in [1 .. i + 1 -> Text] /\ i + 1 \in Nat /\ i + 1 > 0
      BY <1>8, <3>1, <3>2
    <3>. HIDE DEF new
    <3>4. new \in Seq(Text) /\ Len(new) = i + 1
      BY <3>3, ListOf, Zenon
    <3>. QED
      BY <3>3, <3>4
  <2>. HIDE DEF new
  <2>2. Render(new) \in Text
    BY <2>1, RenderText
  <2>3. r2 = [name |-> old.name, value |-> Render(new), array |-> new, next |-> old.next]
    <3>. DEFINE v == Render(new)
    <3>1. r2 = [old EXCEPT !.array = new, !.value = v]
      OBVIOUS
    <3>2. old = [name |-> old.name, value |-> old.value, array |-> old.array, next |-> old.next]
      BY <1>5 DEF arr
    <3>. HIDE DEF r2, v
    <3>3. r2 = [name |-> old.name, value |-> v, array |-> new, next |-> old.next]
      BY <3>1, <3>2, ArrayPut
    <3>. QED
      BY <3>3 DEF v
  <2>. HIDE DEF r2
  <2>4. r2 \in Cells /\ r2.value \in Text /\ r2.name = old.name /\ r2.next = old.next
    BY <1>5, <2>1, <2>2, <2>3 DEF Cells
  <2>5. Rewrites(f, h, g)
    BY <1>3, <1>4, <2>4, PutIs DEF old
  <2>. HIDE DEF g
  <2>6. Whole(g, s, u)
    BY <1>3, <2>5, RewrittenWhole DEF old
  <2>7. g \in Sound(u)
    BY <1>4, <2>5, <2>6 DEF Sound, Rewrites, Same
  <2>8. ASSUME c = NULL PROVE Linked(g, sense, h) \in Sound(u)
    <3>. DEFINE l == Linked(g, sense, h)
    <3>1. /\ h \in DOMAIN g.mem /\ g.mem[h].name = n /\ g.mem[h].value \in Text
          /\ \A b \in DOMAIN f.mem \ {h} : g.mem[b] = f.mem[b]
      BY <1>3, <2>5 DEF Rewrites, old
    <3>2. \A k \in 1 .. Len(s) : s[k] # h /\ s[k] \in DOMAIN f.mem
      BY <1>3, <2>8, WholeFacts
    <3>3. HasNo(g, s, g.mem[h].name)
      BY <1>3, <2>8, <3>1, <3>2 DEF HasNo
    <3>4. /\ Whole(l, IF OnTop(sense) THEN <<h>> \o s ELSE Append(s, h), u) /\ Same(g, l)
      BY <2>6, <3>1, <3>2, <3>3, LinkedWhole
    <3>. HIDE DEF l
    <3>5. l \in Sound(u)
      BY <2>7, <3>4 DEF Sound, Same, Whole
    <3>. QED
      BY <3>5 DEF l
  <2>. QED
    BY <2>7, <2>8
<1>. HIDE DEF f1, g
<1>. QED
  BY <1>2, <1>6, <1>7, <1>8

-----------------------------------------------------------------------------
(* The invariant.                                                          *)

\* The list threads through the cells of the memory: that is what makes
\* EventWhole inductive.
Threaded == event \in Sound(event.uniq)

LEMMA ThreadedIsWhole == Threaded => EventWhole
<1>. SUFFICES ASSUME Threaded PROVE EventWhole
  OBVIOUS
<1>. DEFINE u == event.uniq
            D == DOMAIN event.mem
<1>1. PICK s : Whole(event, s, u)
  BY DEF Threaded, Sound
<1>2. /\ event \in Evs /\ u \in BOOLEAN
      /\ Threads(D, Nexts(event), event.headers, event.last_header, s)
      /\ Kept(event.mem, s, u)
  BY <1>1 DEF Whole
<1>3. /\ event.mem \in [D -> Cells] /\ D \subseteq Nat \ {NULL}
      /\ event.body \in Text \cup {NoText} /\ event.subclass \in Word
  BY <1>2, EvFields
<1>4. /\ s \in Seq(D) /\ Len(s) \in Nat /\ DOMAIN s = 1 .. Len(s)
      /\ \A i \in 1 .. Len(s) : s[i] \in D /\ s[i] # NULL
      /\ \A i \in 1 .. Len(s) : event.mem[s[i]].value \in Text
      /\ \A i, j \in 1 .. Len(s) : s[i] = s[j] => i = j
  BY <1>1, WholeFacts
<1>5. Chain(event) = s
  BY <1>1, ChainIs
<1>6. /\ event.headers = At(s, 1) /\ event.last_header = At(s, Len(s))
      /\ \A i \in 1 .. Len(s) : event.mem[s[i]].next = At(s, i + 1)
      /\ \A c \in D : (\A i \in 1 .. Len(s) : s[i] # c) => event.mem[c].next = NULL
  BY <1>2, <1>4 DEF Threads, Nexts
<1>. HIDE DEF D, u
<1>7. TypeOK
  <2>1. \A i \in Nat : At(s, i) \in D \cup {NULL}
    BY <1>4 DEF At
  <2>2. {event.headers, event.last_header} \subseteq D \cup {NULL}
    BY <1>4, <1>6, <2>1
  <2>3. ASSUME NEW c \in D
        PROVE  event.mem[c] \in [name : AnyName, value : Text \cup {NoText}, array : Seq(Text),
                                 next : D \cup {NULL}]
    <3>1. event.mem[c] \in Cells
      BY <1>3
    <3>2. event.mem[c].next \in D \cup {NULL}
      <4>1. CASE \E i \in 1 .. Len(s) : s[i] = c
        BY <1>4, <1>6, <2>1, <4>1
      <4>2. CASE \A i \in 1 .. Len(s) : s[i] # c
        BY <1>6, <4>2
      <4>. QED
        BY <4>1, <4>2
    <3>. QED
      BY <3>1, <3>2 DEF Cells
  <2>. QED
    BY <1>2, <1>3, <2>2, <2>3 DEF TypeOK, D, u
<1>8. ListShape
  <2>1. IsInjective(s)
    BY <1>4 DEF IsInjective
  <2>2. event.last_header = IF s = <<>> THEN NULL ELSE Last(s)
    BY <1>4, <1>6 DEF At, Last
  <2>3. s # <<>> => event.mem[event.last_header].next = NULL
    <3>. SUFFICES ASSUME s # <<>> PROVE event.mem[event.last_header].next = NULL
      OBVIOUS
    <3>1. Len(s) \in 1 .. Len(s) /\ ~ (Len(s) + 1 \in 1 .. Len(s))
      BY <1>4
    <3>2. event.last_header = s[Len(s)] /\ At(s, Len(s) + 1) = NULL
      BY <1>6, <3>1 DEF At
    <3>. QED
      BY <1>6, <3>1, <3>2
  <2>4. \A c \in ToSet(s) : event.mem[c].value # NoText
    <3>1. ToSet(s) = {s[i] : i \in 1 .. Len(s)}
      BY <1>4 DEF ToSet
    <3>. QED
      BY <1>4, <3>1, NoTextIsNone
  <2>. QED
    BY <1>5, <2>1, <2>2, <2>3, <2>4 DEF ListShape
<1>9. HeadersOf(event) = [i \in 1 .. Len(s) |-> event.mem[s[i]]]
  BY <1>4, <1>5 DEF HeadersOf
<1>10. FirstIsArray
  <2>1. \A i, j \in 1 .. Len(s) : i < j /\ event.mem[s[i]].name = event.mem[s[j]].name
           => event.mem[s[j]].array = <<>>
    BY <1>2 DEF Kept
  <2>. QED
    BY <1>4, <1>9, <2>1 DEF FirstIsArray
<1>11. UniqueNames
  <2>. SUFFICES ASSUME u PROVE IsInjective([i \in 1 .. Len(s) |-> event.mem[s[i]].name])
    BY <1>9 DEF UniqueNames, u
  <2>1. \A i, j \in 1 .. Len(s) : ~ (i < j /\ event.mem[s[i]].name = event.mem[s[j]].name)
    BY <1>2 DEF Kept
  <2>2. ASSUME NEW i \in 1 .. Len(s), NEW j \in 1 .. Len(s),
               event.mem[s[i]].name = event.mem[s[j]].name
        PROVE  i = j
    BY <1>4, <2>1, <2>2
  <2>. QED
    BY <2>2 DEF IsInjective
<1>. QED
  BY <1>7, <1>8, <1>10, <1>11 DEF EventWhole

LEMMA GivenFits ==
  ASSUME NEW h \in Given
  PROVE  h.name \in AnyName /\ h.value \in Text
BY EventAssumption

LEMMA InitThreaded == Init => Threaded
<1>. SUFFICES ASSUME NEW k \in Kinds, NEW uniq \in BOOLEAN,
                     event = [create_subclass(k.name, k.subclass) EXCEPT !.uniq = uniq]
              PROVE  Threaded
  BY DEF Init
<1>1. k.name \in Word /\ k.subclass \in Word
  BY EventAssumption
<1>2. event \in Sound(uniq)
  BY <1>1, CreatedWhole
<1>. QED
  BY <1>2 DEF Threaded, Sound

LEMMA NextThreaded == Threaded /\ [Next]_vars => Threaded'
<1>. SUFFICES ASSUME Threaded, [Next]_vars PROVE Threaded'
  OBVIOUS
<1>0. ASSUME NEW u, event' \in Sound(u) PROVE Threaded'
  BY <1>0 DEF Threaded, Sound
<1>. DEFINE u == event.uniq
<1>1. event \in Sound(u)
  BY DEF Threaded
<1>. HIDE DEF u
<1>2. CASE add_header
  <2>1. PICK sense \in Sense, h \in Given : event' = base_add_header(event, sense, h.name, h.value)
    BY <1>2 DEF add_header, Becomes
  <2>2. h.name \in AnyName /\ h.value \in Text
    BY GivenFits
  <2>. QED
    BY <1>0, <1>1, <2>1, <2>2, SoundAdded
<1>3. CASE add_index
  <2>1. PICK sense \in {BOTTOM, TOP}, n \in Names, i \in Indexes, d \in Texts :
          event' = base_add_index(event, sense, n, i, d)
    BY <1>3 DEF add_index, Becomes
  <2>2. n \in AnyName /\ i \in Int /\ d \in Text
    BY EventAssumption DEF AnyName
  <2>. QED
    BY <1>0, <1>1, <2>1, <2>2, SoundIndexed
<1>4. CASE delete
  <2>1. PICK n, v : event' = del_header_val(event, n, v)
    BY <1>4 DEF delete, Becomes, del_header
  <2>. QED
    BY <1>0, <1>1, <2>1, SoundDeleted
<1>5. CASE give_body
  <2>1. PICK b \in Bodies : event' = set_body(event, b)
    BY <1>5 DEF give_body, Becomes
  <2>2. b \in Text \cup {NoText}
    BY EventAssumption
  <2>. QED
    BY <1>0, <1>1, <2>1, <2>2, SoundBody
<1>6. CASE merge_in
  <2>1. PICK n \in Names, d \in Texts, f \in Texts :
          event' = merge(event, base_add_header(base_add_header(Empty, BOTTOM, n, d), BOTTOM, n, f))
    BY <1>6 DEF merge_in, Becomes
  <2>2. n \in AnyName /\ d \in Text /\ f \in Text /\ BOTTOM \in Sense
    BY EventAssumption DEF AnyName, Sense, BOTTOM, UNSHIFT
  <2>. DEFINE a == base_add_header(Empty, BOTTOM, n, d)
              b == base_add_header(a, BOTTOM, n, f)
  <2>3. a \in Sound(FALSE)
    BY <2>2, EmptySound, SoundAdded
  <2>. HIDE DEF a
  <2>4. b \in Sound(FALSE)
    BY <2>2, <2>3, SoundAdded
  <2>5. event' = merge(event, b)
    BY <2>1 DEF a
  <2>. HIDE DEF b
  <2>. QED
    BY <1>0, <1>1, <2>4, <2>5, SoundMerged
<1>7. CASE copy
  BY <1>0, <1>1, <1>7, SoundCopy DEF copy, Becomes
<1>8. CASE send
  <2>. DEFINE text == serialize(event)
  <2>1. text.lines \in Seq(Lines) /\ text.body \in Text /\ event' = parse(text)
    BY <1>1, <1>8, SentLines DEF send, Becomes
  <2>. HIDE DEF text
  <2>. QED
    BY <1>0, <2>1, SoundParsed
<1>9. CASE send_json
  <2>. DEFINE items == serialize_json(event)
  <2>1. items \in Seq(Heads) /\ event' = create_json(items)
    BY <1>1, <1>9, SentItems DEF send_json, Becomes
  <2>. HIDE DEF items
  <2>. QED
    BY <1>0, <2>1, SoundJson
<1>10. CASE UNCHANGED vars
  BY <1>10 DEF vars, Threaded
<1>. QED
  BY <1>2, <1>3, <1>4, <1>5, <1>6, <1>7, <1>8, <1>9, <1>10 DEF Next

\* Whatever calls are made on an event, its memory holds headers and pointers
\* to them, the list meets each of its headers once and ends at last_header, an
\* array is in the first header of its name, and an event asked to have unique
\* headers has one of each name (esl_event.c:294-766).
THEOREM EventStaysWhole == Spec => []EventWhole
<1>1. Init => Threaded
  BY InitThreaded
<1>2. Threaded /\ [Next]_vars => Threaded'
  BY NextThreaded
<1>3. Threaded => EventWhole
  BY ThreadedIsWhole
<1>. QED
  BY <1>1, <1>2, <1>3, PTL DEF Spec

-----------------------------------------------------------------------------
(* The headers of one name.                                                *)

Views == [value : Text, array : Seq(Text)]
View(h) == [value |-> h.value, array |-> h.array]

\* Of the first i cells of s those called n hold q, in this order; w are their
\* places.
Listed(e, s, i, n, q, w) ==
  /\ q \in Seq(Views) /\ w \in [1 .. Len(q) -> 1 .. i]
  /\ \A j, k \in 1 .. Len(q) : j < k => w[j] < w[k]
  /\ \A x \in 1 .. i : e.mem[s[x]].name = n <=> \E j \in 1 .. Len(q) : w[j] = x
  /\ \A j \in 1 .. Len(q) : q[j] = View(e.mem[s[w[j]]])

\* Cells x of two lists have the same name, and what n is called the same texts.
Alike(e, s, f, r, n, x) ==
  /\ f.mem[r[x]].name = e.mem[s[x]].name
  /\ e.mem[s[x]].name = n => View(f.mem[r[x]]) = View(e.mem[s[x]])

LEMMA ListedAs ==
  ASSUME NEW e, NEW s, NEW i \in Nat, NEW n, NEW q, NEW w, Listed(e, s, i, n, q, w),
         NEW f, NEW r, \A x \in 1 .. i : Alike(e, s, f, r, n, x)
  PROVE  Listed(f, r, i, n, q, w)
<1>1. ASSUME NEW j \in 1 .. Len(q) PROVE q[j] = View(f.mem[r[w[j]]])
  <2>1. w[j] \in 1 .. i
    BY DEF Listed
  <2>2. e.mem[s[w[j]]].name = n /\ q[j] = View(e.mem[s[w[j]]])
    BY <2>1 DEF Listed
  <2>. QED
    BY <2>1, <2>2 DEF Alike
<1>2. \A x \in 1 .. i : f.mem[r[x]].name = n <=> \E j \in 1 .. Len(q) : w[j] = x
  BY DEF Listed, Alike
<1>. QED
  BY <1>1, <1>2 DEF Listed

\* One cell more, of another name.
LEMMA ListedOther ==
  ASSUME NEW e, NEW s, NEW i \in Nat, NEW n, NEW q, NEW w, Listed(e, s, i, n, q, w),
         e.mem[s[i + 1]].name # n
  PROVE  Listed(e, s, i + 1, n, q, w)
<1>1. w \in [1 .. Len(q) -> 1 .. i + 1]
  BY DEF Listed
<1>2. ASSUME NEW x \in 1 .. i + 1
      PROVE  e.mem[s[x]].name = n <=> \E j \in 1 .. Len(q) : w[j] = x
  <2>1. CASE x \in 1 .. i
    BY <2>1 DEF Listed
  <2>2. CASE x \notin 1 .. i
    <3>1. x = i + 1
      BY <2>2
    <3>2. \A j \in 1 .. Len(q) : w[j] # i + 1
      BY DEF Listed
    <3>. QED
      BY <3>1, <3>2
  <2>. QED
    BY <2>1, <2>2
<1>. QED
  BY <1>1, <1>2 DEF Listed

\* One cell more, of this name.
LEMMA ListedNext ==
  ASSUME NEW e, NEW s, NEW i \in Nat, NEW n, NEW q, NEW w, Listed(e, s, i, n, q, w),
         e.mem[s[i + 1]].name = n, NEW v \in Views, v = View(e.mem[s[i + 1]])
  PROVE  \E z : Listed(e, s, i + 1, n, Append(q, v), z)
<1>. DEFINE m == Len(q)
            p == Append(q, v)
            z == [j \in 1 .. m + 1 |-> IF j = m + 1 THEN i + 1 ELSE w[j]]
<1>1. /\ q \in Seq(Views) /\ m \in Nat /\ w \in [1 .. m -> 1 .. i]
      /\ \A j, k \in 1 .. m : j < k => w[j] < w[k]
      /\ \A x \in 1 .. i : e.mem[s[x]].name = n <=> \E j \in 1 .. m : w[j] = x
      /\ \A j \in 1 .. m : q[j] = View(e.mem[s[w[j]]])
  BY DEF Listed
<1>2. /\ p \in Seq(Views) /\ Len(p) = m + 1 /\ p[m + 1] = v
      /\ \A j \in 1 .. m : p[j] = q[j]
  BY <1>1
<1>. HIDE DEF m, p
<1>3. \A j \in 1 .. m + 1 : j # m + 1 => j \in 1 .. m
  BY <1>1
<1>4. \A j \in 1 .. m : j \in 1 .. m + 1 /\ z[j] = w[j] /\ w[j] \in 1 .. i
  BY <1>1
<1>5. z[m + 1] = i + 1 /\ m + 1 \in 1 .. m + 1
  BY <1>1
<1>6. z \in [1 .. m + 1 -> 1 .. i + 1]
  <2>1. ASSUME NEW j \in 1 .. m + 1 PROVE z[j] \in 1 .. i + 1
    <3>. HIDE DEF z
    <3>1. CASE j = m + 1
      BY <1>5, <3>1
    <3>2. CASE j # m + 1
      <4>1. j \in 1 .. m
        BY <1>3, <3>2
      <4>2. z[j] = w[j] /\ w[j] \in 1 .. i
        BY <1>4, <4>1
      <4>. QED
        BY <4>2
    <3>. QED
      BY <3>1, <3>2
  <2>. QED
    BY <2>1
<1>. HIDE DEF z
<1>7. ASSUME NEW j \in 1 .. m + 1, NEW k \in 1 .. m + 1, j < k PROVE z[j] < z[k]
  <2>1. j \in 1 .. m
    BY <1>1, <1>7
  <2>2. CASE k = m + 1
    BY <1>4, <1>5, <2>1, <2>2
  <2>3. CASE k # m + 1
    BY <1>1, <1>3, <1>4, <1>7, <2>1, <2>3
  <2>. QED
    BY <2>2, <2>3
<1>8. ASSUME NEW x \in 1 .. i + 1
      PROVE  e.mem[s[x]].name = n <=> \E j \in 1 .. m + 1 : z[j] = x
  <2>1. CASE x = i + 1
    BY <1>5, <2>1
  <2>2. CASE x # i + 1
    <3>1. x \in 1 .. i
      BY <2>2
    <3>2. \A j \in 1 .. m + 1 : z[j] = x <=> (j \in 1 .. m /\ w[j] = x)
      BY <1>1, <1>3, <1>4, <1>5, <2>2
    <3>. QED
      BY <1>1, <1>4, <3>1, <3>2
  <2>. QED
    BY <2>1, <2>2
<1>9. ASSUME NEW j \in 1 .. m + 1 PROVE p[j] = View(e.mem[s[z[j]]])
  <2>1. CASE j = m + 1
    BY <1>2, <1>5, <2>1
  <2>2. CASE j # m + 1
    BY <1>1, <1>2, <1>3, <1>4, <2>2
  <2>. QED
    BY <2>1, <2>2
<1>10. Listed(e, s, i + 1, n, p, z)
  BY <1>2, <1>6, <1>7, <1>8, <1>9 DEF Listed
<1>. QED
  BY <1>10 DEF p

\* There is one such list.
LEMMA ListedOnce ==
  ASSUME NEW e, NEW s, NEW i \in Nat, NEW n, NEW q, NEW w, Listed(e, s, i, n, q, w),
         NEW p, NEW z, Listed(e, s, i, n, p, z)
  PROVE  q = p
<1>. DEFINE a == Len(q)
            b == Len(p)
            T == {j \in Nat : \A k \in 1 .. j : k <= a /\ k <= b => w[k] = z[k]}
<1>1. /\ q \in Seq(Views) /\ a \in Nat /\ w \in [1 .. a -> 1 .. i]
      /\ \A j, k \in 1 .. a : j < k => w[j] < w[k]
      /\ \A x \in 1 .. i : e.mem[s[x]].name = n <=> \E j \in 1 .. a : w[j] = x
      /\ \A j \in 1 .. a : q[j] = View(e.mem[s[w[j]]])
  BY DEF Listed
<1>2. /\ p \in Seq(Views) /\ b \in Nat /\ z \in [1 .. b -> 1 .. i]
      /\ \A j, k \in 1 .. b : j < k => z[j] < z[k]
      /\ \A x \in 1 .. i : e.mem[s[x]].name = n <=> \E j \in 1 .. b : z[j] = x
      /\ \A j \in 1 .. b : p[j] = View(e.mem[s[z[j]]])
  BY DEF Listed
<1>. HIDE DEF a, b
<1>3. 0 \in T
  OBVIOUS
<1>4. \A j \in 1 .. a : \E k \in 1 .. b : z[k] = w[j]
  BY <1>1, <1>2
<1>5. \A j \in 1 .. b : \E k \in 1 .. a : w[k] = z[j]
  BY <1>1, <1>2
<1>6. ASSUME NEW j \in T PROVE j + 1 \in T
  <2>1. j \in Nat /\ j + 1 \in Nat /\ \A k \in 1 .. j : k <= a /\ k <= b => w[k] = z[k]
    OBVIOUS
  <2>2. ASSUME j + 1 <= a, j + 1 <= b PROVE w[j + 1] = z[j + 1]
    <3>1. j + 1 \in 1 .. a /\ j + 1 \in 1 .. b
      BY <1>1, <1>2, <2>1, <2>2
    <3>2. PICK k \in 1 .. b : z[k] = w[j + 1]
      BY <1>4, <3>1
    <3>3. PICK l \in 1 .. a : w[l] = z[j + 1]
      BY <1>5, <3>1
    <3>4. k >= j + 1
      <4>1. SUFFICES ASSUME k <= j PROVE FALSE
        BY <1>2, <2>1
      <4>2. k \in 1 .. a /\ k < j + 1 /\ k \in 1 .. j
        BY <1>1, <1>2, <2>1, <2>2, <4>1
      <4>3. w[k] = z[k] /\ w[k] < w[j + 1]
        BY <1>1, <1>2, <2>1, <3>1, <4>2
      <4>4. w[j + 1] \in Nat
        BY <1>1, <3>1
      <4>. QED
        BY <3>2, <4>3, <4>4
    <3>5. l >= j + 1
      <4>1. SUFFICES ASSUME l <= j PROVE FALSE
        BY <1>1, <2>1
      <4>2. l \in 1 .. b /\ l < j + 1 /\ l \in 1 .. j
        BY <1>1, <1>2, <2>1, <2>2, <4>1
      <4>3. w[l] = z[l] /\ z[l] < z[j + 1]
        BY <1>1, <1>2, <2>1, <3>1, <4>2
      <4>4. z[j + 1] \in Nat
        BY <1>2, <3>1
      <4>. QED
        BY <3>3, <4>3, <4>4
    <3>6. z[j + 1] <= w[j + 1]
      <4>1. CASE k = j + 1
        BY <1>1, <3>1, <3>2, <4>1
      <4>2. CASE k # j + 1
        <5>1. j + 1 < k
          BY <1>2, <2>1, <3>4, <4>2
        <5>2. z[j + 1] < z[k] /\ z[j + 1] \in Nat /\ z[k] \in Nat
          BY <1>2, <3>1, <5>1
        <5>. QED
          BY <3>2, <5>2
      <4>. QED
        BY <4>1, <4>2
    <3>7. w[j + 1] <= z[j + 1]
      <4>1. CASE l = j + 1
        BY <1>2, <3>1, <3>3, <4>1
      <4>2. CASE l # j + 1
        <5>1. j + 1 < l
          BY <1>1, <2>1, <3>5, <4>2
        <5>2. w[j + 1] < w[l] /\ w[j + 1] \in Nat /\ w[l] \in Nat
          BY <1>1, <3>1, <5>1
        <5>. QED
          BY <3>3, <5>2
      <4>. QED
        BY <4>1, <4>2
    <3>8. w[j + 1] \in Nat /\ z[j + 1] \in Nat
      BY <1>1, <1>2, <3>1
    <3>. QED
      BY <3>6, <3>7, <3>8
  <2>3. \A k \in 1 .. j + 1 : k = j + 1 \/ k \in 1 .. j
    BY <2>1
  <2>. QED
    BY <2>1, <2>2, <2>3
<1>7. Nat \subseteq T
  <2>1. T \in SUBSET Nat
    OBVIOUS
  <2>. HIDE DEF T
  <2>. QED
    BY <1>3, <1>6, <2>1, SetInduction
<1>8. \A k \in Nat \ {0} : k <= a /\ k <= b => w[k] = z[k]
  <2>1. ASSUME NEW k \in Nat \ {0} PROVE k <= a /\ k <= b => w[k] = z[k]
    <3>1. k \in T /\ k \in 1 .. k
      BY <1>7
    <3>. QED
      BY <3>1
  <2>. QED
    BY <2>1
<1>9. ~ (a < b)
  <2>. SUFFICES ASSUME a < b PROVE FALSE
    OBVIOUS
  <2>1. a + 1 \in 1 .. b
    BY <1>1, <1>2
  <2>2. PICK k \in 1 .. a : w[k] = z[a + 1]
    BY <1>5, <2>1
  <2>3. k \in 1 .. b /\ k \in Nat \ {0} /\ k <= a /\ k <= b /\ k < a + 1
    BY <1>1, <1>2
  <2>4. w[k] = z[k] /\ z[k] < z[a + 1]
    BY <1>2, <1>8, <2>1, <2>3
  <2>5. z[k] \in Nat
    BY <1>2, <2>3
  <2>. QED
    BY <2>2, <2>4, <2>5
<1>10. ~ (b < a)
  <2>. SUFFICES ASSUME b < a PROVE FALSE
    OBVIOUS
  <2>1. b + 1 \in 1 .. a
    BY <1>1, <1>2
  <2>2. PICK k \in 1 .. b : z[k] = w[b + 1]
    BY <1>4, <2>1
  <2>3. k \in 1 .. a /\ k \in Nat \ {0} /\ k <= a /\ k <= b /\ k < b + 1
    BY <1>1, <1>2
  <2>4. w[k] = z[k] /\ w[k] < w[b + 1]
    BY <1>1, <1>8, <2>1, <2>3
  <2>5. w[k] \in Nat
    BY <1>1, <2>3
  <2>. QED
    BY <2>2, <2>4, <2>5
<1>11. a = b
  BY <1>1, <1>2, <1>9, <1>10
<1>12. ASSUME NEW k \in 1 .. a PROVE q[k] = p[k]
  <2>1. k \in Nat \ {0} /\ k <= a /\ k <= b /\ k \in 1 .. b
    BY <1>1, <1>2, <1>11
  <2>2. w[k] = z[k]
    BY <1>8, <2>1
  <2>3. q[k] = View(e.mem[s[w[k]]]) /\ p[k] = View(e.mem[s[z[k]]])
    BY <1>1, <1>2, <2>1
  <2>. QED
    BY <2>2, <2>3
<1>13. q = [k \in 1 .. a |-> q[k]] /\ p = [k \in 1 .. b |-> p[k]]
  BY <1>1, <1>2 DEF a, b
<1>. QED
  BY <1>11, <1>12, <1>13, Zenon

\* The headers of e called n hold q, in order.
Shows(e, n, q) == \E s, w : Whole(e, s, e.uniq) /\ Listed(e, s, Len(s), n, q, w)

LEMMA ShownIn ==
  ASSUME NEW e, NEW s, NEW u, Whole(e, s, u), NEW n, NEW q, Shows(e, n, q)
  PROVE  \E w : Whole(e, s, e.uniq) /\ Listed(e, s, Len(s), n, q, w)
<1>1. PICK r, w : Whole(e, r, e.uniq) /\ Listed(e, r, Len(r), n, q, w)
  BY DEF Shows
<1>2. Chain(e) = s /\ Chain(e) = r
  <2>1. Chain(e) = s
    BY ChainIs
  <2>2. Chain(e) = r
    BY <1>1, ChainIs
  <2>. QED
    BY <2>1, <2>2
<1>. QED
  BY <1>1, <1>2

LEMMA ShownOnce ==
  ASSUME NEW e, NEW n, NEW q, Shows(e, n, q), NEW p, Shows(e, n, p)
  PROVE  q = p
<1>1. PICK s, w : Whole(e, s, e.uniq) /\ Listed(e, s, Len(s), n, q, w)
  BY DEF Shows
<1>2. PICK z : Listed(e, s, Len(s), n, p, z)
  BY <1>1, ShownIn
<1>3. Len(s) \in Nat
  BY <1>1, WholeFacts
<1>. QED
  BY <1>1, <1>2, <1>3, ListedOnce

\* None are shown if there are none.
LEMMA NoneShown ==
  ASSUME NEW e, NEW s, Whole(e, s, e.uniq), NEW n
  PROVE  Shows(e, n, <<>>) <=> HasNo(e, s, n)
<1>1. Len(s) \in Nat
  BY WholeFacts
<1>2. <<>> \in Seq(Views) /\ Len(<<>>) = 0 /\ \A j \in 1 .. 0 : FALSE
  OBVIOUS
<1>3. ASSUME HasNo(e, s, n) PROVE Shows(e, n, <<>>)
  <2>. DEFINE w == [j \in 1 .. 0 |-> 1]
  <2>1. w \in [1 .. 0 -> 1 .. Len(s)]
    BY <1>2
  <2>. HIDE DEF w
  <2>2. Listed(e, s, Len(s), n, <<>>, w)
    BY <1>2, <1>3, <2>1 DEF Listed, HasNo
  <2>. QED
    BY <2>2 DEF Shows
<1>4. ASSUME Shows(e, n, <<>>) PROVE HasNo(e, s, n)
  <2>1. PICK w : Listed(e, s, Len(s), n, <<>>, w)
    BY <1>4, ShownIn
  <2>. QED
    BY <1>2, <2>1 DEF Listed, HasNo
<1>. QED
  BY <1>3, <1>4

\* From e to f nothing changes but what is called x.
But(e, f, x) ==
  /\ f.uniq = e.uniq /\ (x # Body => f.body = e.body)
  /\ \A n, q : n # x /\ Shows(e, n, q) => Shows(f, n, q)

LEMMA ButSelf == \A e, x : But(e, e, x)
BY DEF But

LEMMA ButThen ==
  ASSUME NEW e, NEW f, NEW g, NEW x, But(e, f, x), But(f, g, x)
  PROVE  But(e, g, x)
BY DEF But

LEMMA ButDeleted ==
  ASSUME NEW u, NEW e \in Sound(u), NEW x, NEW v, NEW f, f = del_header_val(e, x, v)
  PROVE  But(e, f, x)
<1>1. PICK s : Whole(e, s, u)
  BY DEF Sound
<1>2. PICK r, g : Whole(f, r, u) /\ Left(e, s, x, f, r, g)
  BY <1>1, DeletedWhole
<1>3. f.uniq = u /\ e.uniq = u /\ f.body = e.body
  BY <1>2 DEF Left, Same, Sound
<1>4. /\ g \in [1 .. Len(r) -> 1 .. Len(s)]
      /\ \A i, j \in 1 .. Len(r) : i < j => g[i] < g[j]
      /\ \A j \in 1 .. Len(r) : r[j] = s[g[j]]
      /\ \A y \in 1 .. Len(s) : (\A j \in 1 .. Len(r) : g[j] # y) => e.mem[s[y]].name = x
      /\ \A d \in DOMAIN f.mem : AsIs(e, f, d)
  BY <1>2 DEF Left, Thins
<1>5. Len(r) \in Nat /\ Len(s) \in Nat /\ \A j \in 1 .. Len(r) : r[j] \in DOMAIN f.mem
  BY <1>1, <1>2, WholeFacts
<1>6. ASSUME NEW n, NEW q, n # x, Shows(e, n, q) PROVE Shows(f, n, q)
  <2>1. PICK w : Listed(e, s, Len(s), n, q, w)
    BY <1>1, <1>6, ShownIn
  <2>. DEFINE m == Len(q)
              z == [j \in 1 .. m |-> CHOOSE y \in 1 .. Len(r) : g[y] = w[j]]
  <2>2. /\ q \in Seq(Views) /\ m \in Nat /\ w \in [1 .. m -> 1 .. Len(s)]
        /\ \A j, k \in 1 .. m : j < k => w[j] < w[k]
        /\ \A y \in 1 .. Len(s) : e.mem[s[y]].name = n <=> \E j \in 1 .. m : w[j] = y
        /\ \A j \in 1 .. m : q[j] = View(e.mem[s[w[j]]])
    BY <2>1 DEF Listed
  <2>. HIDE DEF m
  <2>3. ASSUME NEW j \in 1 .. m PROVE z[j] \in 1 .. Len(r) /\ g[z[j]] = w[j]
    <3>1. w[j] \in 1 .. Len(s) /\ e.mem[s[w[j]]].name # x
      BY <1>6, <2>2
    <3>2. \E y \in 1 .. Len(r) : g[y] = w[j]
      BY <1>4, <3>1
    <3>. QED
      BY <3>2
  <2>4. z \in [1 .. m -> 1 .. Len(r)]
    <3>1. \A j \in 1 .. m : z[j] \in 1 .. Len(r)
      BY <2>3
    <3>. QED
      BY <3>1
  <2>. HIDE DEF z
  <2>5. ASSUME NEW j \in 1 .. m, NEW k \in 1 .. m, j < k PROVE z[j] < z[k]
    <3>1. g[z[j]] < g[z[k]] /\ z[j] \in 1 .. Len(r) /\ z[k] \in 1 .. Len(r)
      BY <2>2, <2>3, <2>5
    <3>2. g[z[j]] \in Int /\ g[z[k]] \in Int
      BY <1>4, <3>1
    <3>3. ~ (z[k] < z[j]) /\ z[k] # z[j]
      <4>1. ASSUME z[k] < z[j] PROVE FALSE
        <5>1. g[z[k]] < g[z[j]]
          BY <1>4, <3>1, <4>1
        <5>. QED
          BY <3>1, <3>2, <5>1
      <4>2. ASSUME z[k] = z[j] PROVE FALSE
        BY <3>1, <3>2, <4>2
      <4>. QED
        BY <4>1, <4>2
    <3>. QED
      BY <1>5, <3>1, <3>3
  <2>6. ASSUME NEW y \in 1 .. Len(r)
        PROVE  /\ f.mem[r[y]].name = e.mem[s[g[y]]].name
               /\ View(f.mem[r[y]]) = View(e.mem[s[g[y]]])
    <3>1. AsIs(e, f, r[y]) /\ r[y] = s[g[y]]
      BY <1>4, <1>5
    <3>. QED
      BY <3>1 DEF AsIs, View
  <2>7. ASSUME NEW y \in 1 .. Len(r)
        PROVE  f.mem[r[y]].name = n <=> \E j \in 1 .. m : z[j] = y
    <3>1. g[y] \in 1 .. Len(s)
      BY <1>4
    <3>2. f.mem[r[y]].name = n <=> \E j \in 1 .. m : w[j] = g[y]
      BY <2>2, <2>6, <3>1
    <3>3. ASSUME NEW j \in 1 .. m, w[j] = g[y] PROVE z[j] = y
      <4>1. z[j] \in 1 .. Len(r) /\ g[z[j]] = g[y]
        BY <2>3, <3>3
      <4>2. ~ (z[j] < y) /\ ~ (y < z[j])
        <5>1. ASSUME z[j] < y PROVE FALSE
          <6>1. g[z[j]] < g[y]
            BY <1>4, <4>1, <5>1
          <6>. QED
            BY <3>1, <4>1, <6>1
        <5>2. ASSUME y < z[j] PROVE FALSE
          <6>1. g[y] < g[z[j]]
            BY <1>4, <4>1, <5>2
          <6>. QED
            BY <3>1, <4>1, <6>1
        <5>. QED
          BY <5>1, <5>2
      <4>. QED
        BY <1>5, <4>1, <4>2
    <3>4. ASSUME NEW j \in 1 .. m, z[j] = y PROVE w[j] = g[y]
      BY <2>3, <3>4
    <3>. QED
      BY <3>2, <3>3, <3>4
  <2>8. ASSUME NEW j \in 1 .. m PROVE q[j] = View(f.mem[r[z[j]]])
    <3>1. z[j] \in 1 .. Len(r) /\ g[z[j]] = w[j]
      BY <2>3
    <3>2. View(f.mem[r[z[j]]]) = View(e.mem[s[g[z[j]]]])
      BY <2>6, <3>1
    <3>3. q[j] = View(e.mem[s[w[j]]])
      BY <2>2
    <3>. QED
      BY <3>1, <3>2, <3>3
  <2>9. Listed(f, r, Len(r), n, q, z)
    BY <2>2, <2>4, <2>5, <2>7, <2>8 DEF Listed, m
  <2>. QED
    BY <1>2, <1>3, <2>9 DEF Shows
<1>. QED
  BY <1>3, <1>6 DEF But

LEMMA ButBody ==
  ASSUME NEW u, NEW e \in Sound(u), NEW b \in Text \cup {NoText}, NEW f, f = set_body(e, b)
  PROVE  But(e, f, Body) /\ f.body = b /\ \A n, q : Shows(e, n, q) => Shows(f, n, q)
<1>1. PICK s : Whole(e, s, u)
  BY DEF Sound
<1>2. Whole(f, s, u) /\ f.mem = e.mem /\ f.uniq = e.uniq /\ f.body = b
  BY <1>1, BodyWhole
<1>3. ASSUME NEW n, NEW q, Shows(e, n, q) PROVE Shows(f, n, q)
  <2>1. PICK w : Listed(e, s, Len(s), n, q, w)
    BY <1>1, <1>3, ShownIn
  <2>2. Listed(f, s, Len(s), n, q, w)
    BY <1>2, <2>1 DEF Listed
  <2>3. f.uniq = u
    BY <1>2 DEF Sound
  <2>. QED
    BY <1>2, <2>2, <2>3 DEF Shows
<1>. QED
  BY <1>2, <1>3 DEF But

LEMMA ButStored ==
  ASSUME NEW u, NEW e \in Sound(u), NEW x, NEW c, c = get_header_ptr(e, x), c # NULL,
         NEW sense, NEW d \in Text, NEW f, f = Stored(e, sense, c, d)
  PROVE  But(e, f, x)
<1>1. PICK s : Whole(e, s, u)
  BY DEF Sound
<1>2. PICK k \in 1 .. Len(s) : /\ c = s[k] /\ e.mem[s[k]].name = x
                               /\ \A i \in 1 .. Len(s) : e.mem[s[i]].name = x => k <= i
  BY <1>1, HeaderFound
<1>3. /\ c \in DOMAIN e.mem /\ e \in Evs /\ Len(s) \in Nat
      /\ \A i \in 1 .. Len(s) : s[i] = c => i = k
      /\ \A i \in 1 .. Len(s) : s[i] \in DOMAIN e.mem
  BY <1>1, <1>2, WholeFacts DEF Sound
<1>4. Rewrites(e, c, f)
  BY <1>3, StoredIs
<1>5. Whole(f, s, u)
  BY <1>1, <1>2, <1>3, <1>4, RewrittenWhole
<1>6. f.uniq = u /\ e.uniq = u /\ f.body = e.body
  BY <1>4 DEF Rewrites, Same, Sound
<1>7. ASSUME NEW n, NEW q, n # x, Shows(e, n, q) PROVE Shows(f, n, q)
  <2>1. PICK w : Listed(e, s, Len(s), n, q, w)
    BY <1>1, <1>7, ShownIn
  <2>2. ASSUME NEW i \in 1 .. Len(s) PROVE Alike(e, s, f, s, n, i)
    <3>1. CASE s[i] = c
      BY <1>2, <1>4, <1>7, <3>1 DEF Rewrites, Alike
    <3>2. CASE s[i] # c
      <4>1. f.mem[s[i]] = e.mem[s[i]]
        BY <1>3, <1>4, <3>2 DEF Rewrites
      <4>. QED
        BY <4>1 DEF Alike
    <3>. QED
      BY <3>1, <3>2
  <2>3. Listed(f, s, Len(s), n, q, w)
    BY <1>3, <2>1, <2>2, ListedAs
  <2>. QED
    BY <1>5, <1>6, <2>3 DEF Shows
<1>. QED
  BY <1>6, <1>7 DEF But

\* What a header of its own shows, and what f shows beyond e.
Newly(sense, d) == [value |-> d, array |-> IF sense = PUSH THEN <<d>> ELSE <<>>]
ShowsMore(e, f, x, v) == \A q : Shows(e, x, q) => Shows(f, x, Append(q, v))

\* A header added at the end: what it shows then, and that nothing else changes.
LEMMA FreshShows ==
  ASSUME NEW u, NEW e \in Sound(u), NEW x \in AnyName, NEW sense \in {BOTTOM, PUSH},
         NEW d \in Text, Shows(e, x, <<>>) \/ (~ u /\ sense = BOTTOM),
         NEW f, f = FreshHeader(e, sense, x, d)
  PROVE  But(e, f, x) /\ ShowsMore(e, f, x, Newly(sense, d))
<1>1. PICK s : Whole(e, s, u)
  BY DEF Sound
<1>2. e.uniq = u /\ (sense = PUSH <=> Stacking(sense)) /\ ~ OnTop(sense)
  BY DEF Sound, Stacking, OnTop, BOTTOM, TOP, PUSH, UNSHIFT
<1>3. HasNo(e, s, x) \/ (~ u /\ ~ Stacking(sense))
  <2>1. CASE Shows(e, x, <<>>)
    BY <1>1, <1>2, <2>1, NoneShown
  <2>2. CASE ~ u /\ sense = BOTTOM
    BY <1>2, <2>2 DEF Stacking
  <2>. QED
    BY <2>1, <2>2
<1>4. PICK c : Whole(f, Ends(s, sense, c), u) /\ Grown(e, s, sense, x, d, f, c)
  BY <1>1, <1>3, FreshWhole
<1>. DEFINE r == Append(s, c)
            v == Newly(sense, d)
<1>5. /\ Whole(f, r, u) /\ f.uniq = u /\ f.body = e.body
      /\ f.mem[c].name = x /\ View(f.mem[c]) = v
      /\ \A b \in DOMAIN e.mem : AsIs(e, f, b)
  BY <1>2, <1>4 DEF Grown, Same, Ends, View, Newly
<1>6. v \in Views
  <2>1. <<d>> \in Seq(Text) /\ <<>> \in Seq(Text)
    OBVIOUS
  <2>. QED
    BY <2>1 DEF Views, Newly
<1>7. /\ s \in Seq(DOMAIN e.mem) /\ Len(s) \in Nat /\ \A i \in 1 .. Len(s) : s[i] \in DOMAIN e.mem
  BY <1>1, WholeFacts
<1>8. Len(r) = Len(s) + 1 /\ r[Len(s) + 1] = c /\ \A i \in 1 .. Len(s) : r[i] = s[i]
  BY <1>7
<1>. HIDE DEF r, v
<1>9. ASSUME NEW n, NEW q, NEW w, Listed(e, s, Len(s), n, q, w)
      PROVE  Listed(f, r, Len(s), n, q, w)
  <2>1. ASSUME NEW i \in 1 .. Len(s) PROVE Alike(e, s, f, r, n, i)
    <3>1. AsIs(e, f, s[i]) /\ r[i] = s[i]
      BY <1>5, <1>7, <1>8
    <3>. QED
      BY <3>1 DEF AsIs, Alike, View
  <2>. QED
    BY <1>7, <1>9, <2>1, ListedAs
<1>10. ASSUME NEW n, NEW q, n # x, Shows(e, n, q) PROVE Shows(f, n, q)
  <2>1. PICK w : Listed(e, s, Len(s), n, q, w)
    BY <1>1, <1>10, ShownIn
  <2>2. Listed(f, r, Len(s), n, q, w)
    BY <1>9, <2>1
  <2>3. Listed(f, r, Len(s) + 1, n, q, w)
    BY <1>5, <1>7, <1>8, <1>10, <2>2, ListedOther
  <2>. QED
    BY <1>5, <1>8, <2>3 DEF Shows
<1>11. ASSUME NEW q, Shows(e, x, q) PROVE Shows(f, x, Append(q, v))
  <2>1. PICK w : Listed(e, s, Len(s), x, q, w)
    BY <1>1, <1>11, ShownIn
  <2>2. Listed(f, r, Len(s), x, q, w)
    BY <1>9, <2>1
  <2>3. f.mem[r[Len(s) + 1]].name = x /\ v = View(f.mem[r[Len(s) + 1]])
    BY <1>5, <1>8
  <2>4. \E z : Listed(f, r, Len(s) + 1, x, Append(q, v), z)
    BY <1>6, <1>7, <2>2, <2>3, ListedNext
  <2>. QED
    BY <1>5, <1>8, <2>4 DEF Shows
<1>12. But(e, f, x)
  BY <1>2, <1>5, <1>10 DEF But
<1>. QED
  BY <1>11, <1>12 DEF v, ShowsMore

LEMMA FreshBut ==
  ASSUME NEW u, NEW e \in Sound(u), NEW x \in AnyName, NEW sense \in {BOTTOM, PUSH},
         NEW d \in Text, Shows(e, x, <<>>) \/ (~ u /\ sense = BOTTOM)
  PROVE  But(e, FreshHeader(e, sense, x, d), x)
<1>. DEFINE f == FreshHeader(e, sense, x, d)
<1>1. f = FreshHeader(e, sense, x, d)
  OBVIOUS
<1>. HIDE DEF f
<1>2. But(e, f, x)
  BY <1>1, FreshShows
<1>. QED
  BY <1>1, <1>2

-----------------------------------------------------------------------------
(* The calls that add headers, name by name.                               *)

\* No header is found if none is shown.
LEMMA NoneFound ==
  ASSUME NEW u, NEW e \in Sound(u), NEW n
  PROVE  Shows(e, n, <<>>) <=> get_header_ptr(e, n) = NULL
<1>1. PICK s : Whole(e, s, u)
  BY DEF Sound
<1>2. e.uniq = u
  BY DEF Sound
<1>3. Shows(e, n, <<>>) <=> HasNo(e, s, n)
  BY <1>1, <1>2, NoneShown
<1>4. HasNo(e, s, n) <=> get_header_ptr(e, n) = NULL
  BY <1>1, HeaderFound DEF HasNo
<1>. QED
  BY <1>3, <1>4

LEMMA BodyPut ==
  ASSUME NEW u, NEW e \in Sound(u), NEW n, NEW b \in Text \cup {NoText},
         NEW f, f = IF n = Body THEN set_body(e, b) ELSE e
  PROVE  /\ f \in Sound(u) /\ But(e, f, n)
         /\ \A x : get_header_ptr(f, x) = get_header_ptr(e, x)
<1>1. CASE n # Body
  BY <1>1, ButSelf
<1>2. CASE n = Body
  <2>1. PICK s : Whole(e, s, u)
    BY DEF Sound
  <2>2. f = set_body(e, b)
    BY <1>2
  <2>3. Whole(f, s, u) /\ f.mem = e.mem
    BY <2>1, <2>2, BodyWhole
  <2>4. Chain(f) = s /\ Chain(e) = s
    BY <2>1, <2>3, ChainIs
  <2>5. \A x : get_header_ptr(f, x) = get_header_ptr(e, x)
    BY <2>3, <2>4 DEF get_header_ptr
  <2>6. f \in Sound(u)
    BY <2>2, SoundBody
  <2>. QED
    BY <1>2, <2>2, <2>5, <2>6, ButBody
<1>. QED
  BY <1>1, <1>2

LEMMA ButPiece ==
  ASSUME NEW u, NEW e \in Sound(u), NEW n \in AnyName, NEW p \in Bare
  PROVE  But(e, Piece(e, n, p), n)
<1>. DEFINE c == get_header_ptr(e, n)
            q == IF c # NULL THEN p ELSE Unmarked(p)
            b == IF q = <<>> /\ p # <<>> THEN <<ARR>> ELSE q
            f == IF n = Body THEN set_body(e, b) ELSE e
            g == IF c # NULL THEN Stored(f, PUSH, c, p)
                 ELSE IF q = <<>> THEN f
                 ELSE FreshHeader(f, PUSH, n, q)
<1>1. p \in Text /\ q \in Text /\ b \in Text
  <2>1. <<>> \in Loose /\ <<ARR>> \o <<>> = <<ARR>>
    BY EmptyBare, TextIsLoose DEF Bare
  <2>2. <<ARR>> \in Text
    BY <2>1, LooseMarked
  <2>. QED
    BY <2>2, UnmarkedText DEF Bare
<1>2. f = (IF n = Body THEN set_body(e, b) ELSE e) /\ b \in Text \cup {NoText}
  BY <1>1
<1>3. Piece(e, n, p) = g
  BY DEF Piece
<1>. HIDE DEF q, b, f
<1>4. f \in Sound(u) /\ But(e, f, n) /\ get_header_ptr(f, n) = c
  BY <1>2, BodyPut
<1>. HIDE DEF c
<1>5. But(f, g, n)
  <2>1. CASE c # NULL
    <3>1. g = Stored(f, PUSH, c, p)
      BY <2>1
    <3>. QED
      BY <1>1, <1>4, <2>1, <3>1, ButStored
  <2>2. CASE c = NULL /\ q = <<>>
    BY <2>2, ButSelf
  <2>3. CASE c = NULL /\ q # <<>>
    <3>1. g = FreshHeader(f, PUSH, n, q)
      BY <2>3
    <3>2. Shows(f, n, <<>>)
      BY <1>4, <2>3, NoneFound
    <3>. HIDE DEF g
    <3>. QED
      BY <1>1, <1>4, <3>1, <3>2, FreshShows
  <2>. QED
    BY <2>1, <2>2, <2>3
<1>. HIDE DEF g
<1>. QED
  BY <1>3, <1>4, <1>5, ButThen

LEMMA ButArray ==
  ASSUME NEW u, NEW e \in Sound(u), NEW n \in AnyName, NEW d \in Text, d # <<>>, d[1] = ARR
  PROVE  But(e, add_array(e, n, d), n)
<1>. DEFINE ps == PiecesOf(Tail(d))
            m == Len(ps)
<1>1. ps \in Seq(Bare) /\ \E w : /\ PieceSteps(u, e, n, ps, w)
                                /\ add_array(e, n, d) = IF Tail(d) = <<>> THEN e ELSE w[m]
  BY ArraySteps
<1>. HIDE DEF ps
<1>2. PICK w : /\ PieceSteps(u, e, n, ps, w)
               /\ add_array(e, n, d) = IF Tail(d) = <<>> THEN e ELSE w[m]
  BY <1>1
<1>3. m \in Nat /\ \A i \in 1 .. m : ps[i] \in Bare
  BY <1>1
<1>4. /\ w[0] = e /\ \A i \in 1 .. m : w[i] = Piece(w[i - 1], n, ps[i])
      /\ \A i \in 0 .. m : w[i] \in Sound(u)
  BY <1>2 DEF PieceSteps
<1>. HIDE DEF m
<1>. DEFINE T == {i \in Nat : i <= m => But(e, w[i], n)}
<1>5. 0 \in T
  BY <1>4, ButSelf
<1>6. ASSUME NEW i \in T, i < m PROVE i + 1 \in T
  <2>1. i \in 0 .. m /\ i + 1 \in 1 .. m /\ (i + 1) - 1 = i /\ i + 1 \in Nat /\ But(e, w[i], n)
    BY <1>3, <1>6
  <2>2. w[i] \in Sound(u) /\ w[i + 1] = Piece(w[i], n, ps[i + 1]) /\ ps[i + 1] \in Bare
    BY <1>3, <1>4, <2>1
  <2>3. But(w[i], w[i + 1], n)
    BY <2>2, ButPiece
  <2>. QED
    BY <2>1, <2>3, ButThen
<1>7. But(e, w[m], n)
  <2>1. T \in SUBSET Nat
    OBVIOUS
  <2>2. 0 .. m \subseteq T
    <3>. HIDE DEF T
    <3>. QED
      BY <1>3, <1>5, <1>6, <2>1, UpTo
  <2>. QED
    BY <1>3, <2>2
<1>. QED
  BY <1>2, <1>7, ButSelf

\* The event before a header n is added to it.
LEMMA Cleared ==
  ASSUME NEW u, NEW e \in Sound(u), NEW n,
         NEW g, g = IF e.uniq THEN del_header(e, n) ELSE e
  PROVE  /\ g \in Sound(u) /\ But(e, g, n)
         /\ u => Shows(g, n, <<>>)
         /\ ~ u => g = e
<1>1. e.uniq = u /\ u \in BOOLEAN
  BY DEF Sound, Whole
<1>2. CASE ~ u
  BY <1>1, <1>2, ButSelf
<1>3. CASE u
  <2>1. g = del_header_val(e, n, <<>>)
    BY <1>1, <1>3 DEF del_header
  <2>2. g \in Sound(u) /\ But(e, g, n)
    BY <2>1, SoundDeleted, ButDeleted
  <2>3. PICK s : Whole(e, s, u)
    BY DEF Sound
  <2>4. PICK r, w : Whole(g, r, u) /\ HasNo(g, r, n)
    BY <2>1, <2>3, DeletedWhole
  <2>5. g.uniq = u
    BY <2>2 DEF Sound
  <2>6. Shows(g, n, <<>>)
    BY <2>4, <2>5, NoneShown
  <2>. QED
    BY <1>3, <2>2, <2>6
<1>. QED
  BY <1>1, <1>2, <1>3

LEMMA ButAdded ==
  ASSUME NEW u, NEW e \in Sound(u), NEW sense \in {BOTTOM, PUSH}, NEW n \in AnyName, NEW d \in Text
  PROVE  But(e, base_add_header(e, sense, n, d), n)
<1>. DEFINE f == IF n = Body THEN set_body(e, d) ELSE e
            c == IF Stacking(sense) THEN get_header_ptr(f, n) ELSE NULL
            g == IF f.uniq THEN del_header(f, n) ELSE f
            h == IF c # NULL THEN Stored(f, IF OnTop(sense) THEN sense - 1 ELSE sense, c, d)
                 ELSE IF d = <<>> THEN del_header(f, n)
                 ELSE IF ARR \in ToSet(d) THEN add_array(g, n, d)
                 ELSE FreshHeader(g, sense, n, d)
<1>1. f = IF n = Body THEN set_body(e, d) ELSE e
  OBVIOUS
<1>2. base_add_header(e, sense, n, d) = h
  BY DEF base_add_header
<1>. HIDE DEF f
<1>3. f \in Sound(u) /\ But(e, f, n)
  BY <1>1, BodyPut
<1>4. g \in Sound(u) /\ But(f, g, n) /\ (u => Shows(g, n, <<>>)) /\ (~ u => g = f)
  BY <1>3, Cleared
<1>. HIDE DEF g
<1>5. But(f, h, n)
  <2>1. CASE c # NULL
    <3>1. c = get_header_ptr(f, n) /\ h = Stored(f, IF OnTop(sense) THEN sense - 1 ELSE sense, c, d)
      BY <2>1
    <3>. HIDE DEF c, h
    <3>. QED
      BY <1>3, <2>1, <3>1, ButStored
  <2>2. CASE c = NULL /\ d = <<>>
    <3>1. h = del_header_val(f, n, <<>>)
      BY <2>2 DEF del_header
    <3>. HIDE DEF h
    <3>. QED
      BY <1>3, <3>1, ButDeleted
  <2>3. CASE c = NULL /\ d # <<>> /\ ARR \in ToSet(d)
    <3>1. d[1] = ARR
      BY <2>3 DEF Text, Marked, ToSet
    <3>2. h = add_array(g, n, d)
      BY <2>3
    <3>. HIDE DEF h, c
    <3>3. But(g, h, n)
      BY <1>4, <2>3, <3>1, <3>2, ButArray
    <3>. QED
      BY <1>4, <3>3, ButThen
  <2>4. CASE c = NULL /\ d # <<>> /\ ARR \notin ToSet(d)
    <3>1. h = FreshHeader(g, sense, n, d)
      BY <2>4
    <3>2. Shows(g, n, <<>>) \/ (~ u /\ sense = BOTTOM)
      <4>1. CASE u
        BY <1>4, <4>1
      <4>2. CASE ~ u /\ sense = PUSH
        <5>1. c = get_header_ptr(f, n)
          BY <4>2 DEF Stacking, PUSH, BOTTOM
        <5>. HIDE DEF c
        <5>. QED
          BY <1>3, <1>4, <2>4, <4>2, <5>1, NoneFound
      <4>. QED
        BY <4>1, <4>2
    <3>. HIDE DEF h, c
    <3>3. But(g, FreshHeader(g, sense, n, d), n)
      BY <1>4, <3>2, FreshBut
    <3>. QED
      BY <1>4, <3>1, <3>3, ButThen
  <2>. QED
    BY <2>1, <2>2, <2>3, <2>4
<1>. HIDE DEF h
<1>. QED
  BY <1>2, <1>3, <1>5, ButThen

\* A text without a mark is added as the last header of its name, or pushed as
\* the first one.
LEMMA AddedShows ==
  ASSUME NEW u, NEW e \in Sound(u), NEW sense \in {BOTTOM, PUSH}, NEW n \in AnyName \ {Body},
         NEW d \in Text, d # <<>>, ARR \notin ToSet(d), NEW q, Shows(e, n, q),
         q = <<>> \/ (~ u /\ sense = BOTTOM)
  PROVE  Shows(base_add_header(e, sense, n, d), n, Append(q, Newly(sense, d)))
<1>. DEFINE g == IF e.uniq THEN del_header(e, n) ELSE e
            f == FreshHeader(g, sense, n, d)
<1>1. (IF Stacking(sense) THEN get_header_ptr(e, n) ELSE NULL) = NULL
  <2>1. CASE q = <<>>
    BY <2>1, NoneFound
  <2>2. CASE sense = BOTTOM
    BY <2>2 DEF Stacking
  <2>. QED
    BY <2>1, <2>2
<1>2. base_add_header(e, sense, n, d) = f
  BY <1>1 DEF base_add_header
<1>3. g \in Sound(u) /\ (u => Shows(g, n, <<>>)) /\ (~ u => g = e)
  BY Cleared
<1>. HIDE DEF g
<1>4. Shows(g, n, q) /\ (Shows(g, n, <<>>) \/ (~ u /\ sense = BOTTOM))
  <2>1. CASE u
    BY <1>3, <2>1
  <2>2. CASE ~ u
    BY <1>3, <2>2
  <2>. QED
    BY <2>1, <2>2
<1>5. f = FreshHeader(g, sense, n, d)
  OBVIOUS
<1>. HIDE DEF f
<1>. QED
  BY <1>2, <1>3, <1>4, <1>5, FreshShows DEF ShowsMore

\* What the header of array a shows.
Arrayed(a) == [value |-> Render(a), array |-> a]

\* A text, marked or not, is pushed on the only header of its name.
LEMMA PushedShows ==
  ASSUME NEW u, NEW e \in Sound(u), NEW n \in AnyName \ {Body}, NEW d \in Text,
         NEW v \in Views, v.array # <<>>, Shows(e, n, <<v>>),
         NEW a, a = Append(v.array, d)
  PROVE  Shows(base_add_header(e, PUSH, n, d), n, <<Arrayed(a)>>)
<1>. DEFINE c == get_header_ptr(e, n)
            f == Stored(e, PUSH, c, d)
            y == Arrayed(a)
<1>1. PICK s : Whole(e, s, u)
  BY DEF Sound
<1>2. e.uniq = u /\ e \in Evs
  BY DEF Sound
<1>3. PICK w : Listed(e, s, Len(s), n, <<v>>, w)
  BY <1>1, ShownIn
<1>4. /\ Len(s) \in Nat /\ \A i \in 1 .. Len(s) : s[i] \in DOMAIN e.mem /\ s[i] # NULL
      /\ \A i, j \in 1 .. Len(s) : s[i] = s[j] => i = j
  BY <1>1, WholeFacts
<1>5. /\ w \in [1 .. 1 -> 1 .. Len(s)] /\ v = View(e.mem[s[w[1]]])
      /\ \A x \in 1 .. Len(s) : e.mem[s[x]].name = n <=> w[1] = x
  <2>1. Len(<<v>>) = 1 /\ <<v>>[1] = v /\ 1 \in 1 .. 1 /\ \A j \in 1 .. 1 : j = 1
    OBVIOUS
  <2>. QED
    BY <1>3, <2>1 DEF Listed
<1>6. w[1] \in 1 .. Len(s)
  BY <1>5
<1>7. c = s[w[1]]
  BY <1>1, <1>5, <1>6, HeaderFound
<1>8. c \in DOMAIN e.mem /\ c # NULL /\ e.mem[c].array = v.array /\ e.mem[c].array # <<>>
  BY <1>4, <1>5, <1>6, <1>7 DEF View
<1>9. base_add_header(e, PUSH, n, d) = f
  <2>1. Stacking(PUSH) /\ ~ OnTop(PUSH)
    BY DEF Stacking, OnTop, BOTTOM, TOP, PUSH, UNSHIFT
  <2>. QED
    BY <1>8, <2>1 DEF base_add_header
<1>10. f = Stored(e, PUSH, c, d)
  OBVIOUS
<1>. HIDE DEF c, f
<1>11. Rewrites(e, c, f)
  BY <1>2, <1>8, <1>10, StoredIs
<1>12. View(f.mem[c]) = y
  <2>1. Stacked(PUSH, e.mem[c], d) = a /\ Stacking(PUSH)
    BY <1>8 DEF Stacked, Stacking, Pushing, BOTTOM, PUSH
  <2>2. /\ f.mem[c].value = IF Stacking(PUSH) THEN Render(Stacked(PUSH, e.mem[c], d)) ELSE d
        /\ f.mem[c].array = IF Stacking(PUSH) THEN Stacked(PUSH, e.mem[c], d) ELSE e.mem[c].array
    BY <1>2, <1>8, <1>10, StoredView
  <2>. QED
    BY <2>1, <2>2 DEF View, Arrayed
<1>13. y \in Views
  <2>1. f.mem[c] \in Cells /\ f.mem[c].value \in Text
    BY <1>8, <1>11, EvFields DEF Rewrites
  <2>. HIDE DEF y
  <2>. QED
    BY <1>12, <2>1 DEF View, Views, Cells
<1>14. Whole(f, s, u)
  <2>1. \A k \in 1 .. Len(s) : s[k] = c =>
           \A i \in 1 .. Len(s) : e.mem[s[i]].name = e.mem[c].name => k <= i
    <3>1. ASSUME NEW k \in 1 .. Len(s), s[k] = c, NEW i \in 1 .. Len(s), e.mem[s[i]].name = e.mem[c].name
          PROVE  k <= i
      BY <1>4, <1>5, <1>6, <1>7, <3>1
    <3>. QED
      BY <3>1
  <2>. QED
    BY <1>1, <1>11, <2>1, RewrittenWhole
<1>15. Listed(f, s, Len(s), n, <<y>>, w)
  <2>. HIDE DEF y
  <2>1. <<y>> \in Seq(Views) /\ Len(<<y>>) = 1 /\ <<y>>[1] = y /\ 1 \in 1 .. 1 /\ \A j \in 1 .. 1 : j = 1
    BY <1>13
  <2>2. ASSUME NEW x \in 1 .. Len(s) PROVE f.mem[s[x]].name = e.mem[s[x]].name
    BY <1>4, <1>11 DEF Rewrites
  <2>3. y = View(f.mem[s[w[1]]])
    BY <1>7, <1>12
  <2>. QED
    BY <1>5, <2>1, <2>2, <2>3 DEF Listed
<1>16. f.uniq = u
  BY <1>2, <1>11 DEF Rewrites, Same
<1>. QED
  BY <1>9, <1>14, <1>15, <1>16 DEF Shows

LEMMA ButAll ==
  ASSUME NEW u, NEW e \in Sound(u), NEW sense \in {BOTTOM, PUSH}, NEW n \in AnyName, NEW ds \in Seq(Text)
  PROVE  But(e, add_all(e, sense, n, ds), n)
<1>. DEFINE m == Len(ds)
<1>1. sense \in Sense
  BY DEF Sense, BOTTOM, PUSH, UNSHIFT
<1>2. PICK w : AddSteps(u, e, sense, n, ds, w) /\ add_all(e, sense, n, ds) = w[m]
  BY <1>1, AllSteps
<1>3. m \in Nat /\ \A i \in 1 .. m : ds[i] \in Text
  OBVIOUS
<1>4. /\ w[0] = e /\ \A i \in 1 .. m : w[i] = base_add_header(w[i - 1], sense, n, ds[i])
      /\ \A i \in 0 .. m : w[i] \in Sound(u)
  BY <1>2 DEF AddSteps
<1>. HIDE DEF m
<1>. DEFINE T == {i \in Nat : i <= m => But(e, w[i], n)}
<1>5. 0 \in T
  BY <1>4, ButSelf
<1>6. ASSUME NEW i \in T, i < m PROVE i + 1 \in T
  <2>1. i \in 0 .. m /\ i + 1 \in 1 .. m /\ (i + 1) - 1 = i /\ i + 1 \in Nat /\ But(e, w[i], n)
    BY <1>3, <1>6
  <2>2. w[i] \in Sound(u) /\ w[i + 1] = base_add_header(w[i], sense, n, ds[i + 1]) /\ ds[i + 1] \in Text
    BY <1>3, <1>4, <2>1
  <2>3. But(w[i], w[i + 1], n)
    BY <2>2, ButAdded
  <2>. QED
    BY <2>1, <2>3, ButThen
<1>7. But(e, w[m], n)
  <2>1. T \in SUBSET Nat
    OBVIOUS
  <2>2. 0 .. m \subseteq T
    <3>. HIDE DEF T
    <3>. QED
      BY <1>3, <1>5, <1>6, <2>1, UpTo
  <2>. QED
    BY <1>3, <2>2
<1>. QED
  BY <1>2, <1>7

LEMMA ButHeader ==
  ASSUME NEW u, NEW e \in Sound(u), NEW h \in Heads
  PROVE  But(e, Added(e, h), h.name)
<1>. DEFINE sense == IF h.array # <<>> THEN PUSH ELSE BOTTOM
            n == h.name
            ds == HeaderTexts(h)
<1>1. sense \in {BOTTOM, PUSH} /\ n \in AnyName /\ ds \in Seq(Text)
  BY HeadTexts
<1>2. Added(e, h) = add_all(e, sense, n, ds)
  BY DEF Added
<1>. HIDE DEF sense, n, ds
<1>3. But(e, Added(e, h), n)
  BY <1>1, <1>2, ButAll
<1>. QED
  BY <1>3 DEF n

LEMMA ButRenamed ==
  ASSUME NEW u, NEW e \in Sound(u), NEW n
  PROVE  But(e, Renamed(e, n), n)
<1>. DEFINE f == Renamed(e, n)
<1>1. CASE n = EventName
  <2>1. f = del_header_val(e, n, <<>>)
    BY <1>1 DEF Renamed, del_header
  <2>. HIDE DEF f
  <2>2. But(e, f, n)
    BY <2>1, ButDeleted
  <2>. QED
    BY <2>2 DEF f
<1>2. CASE n # EventName
  BY <1>2, ButSelf DEF Renamed
<1>. QED
  BY <1>1, <1>2

LEMMA ButItem ==
  ASSUME NEW f \in Sound(FALSE), NEW h \in Heads
  PROVE  But(f, JsonStep(f, h), h.name)
<1>. DEFINE g == IF h.array = <<>> THEN Renamed(f, h.name) ELSE f
            r == set_body(f, h.value)
<1>1. g \in Sound(FALSE) /\ But(f, g, h.name)
  <2>1. Renamed(f, h.name) \in Sound(FALSE) /\ But(f, Renamed(f, h.name), h.name)
    BY SoundRenamed, ButRenamed
  <2>2. But(f, f, h.name)
    BY ButSelf
  <2>. QED
    BY <2>1, <2>2
<1>2. JsonStep(f, h) = IF h.array = <<>> /\ h.name = Body THEN r ELSE Added(g, h)
  BY DEF JsonStep
<1>3. CASE h.array = <<>> /\ h.name = Body
  <2>1. r = set_body(f, h.value) /\ h.value \in Text \cup {NoText}
    BY DEF Heads
  <2>. HIDE DEF r
  <2>2. But(f, r, Body)
    BY <2>1, ButBody
  <2>. QED
    BY <1>2, <1>3, <2>2
<1>4. CASE ~ (h.array = <<>> /\ h.name = Body)
  <2>. HIDE DEF g
  <2>1. But(g, Added(g, h), h.name)
    BY <1>1, ButHeader
  <2>2. But(f, Added(g, h), h.name)
    BY <1>1, <2>1, ButThen
  <2>. QED
    BY <1>2, <1>4, <2>2
<1>. QED
  BY <1>3, <1>4

LEMMA ButCopied ==
  ASSUME NEW u, NEW e, NEW f \in Sound(u), NEW h \in Heads
  PROVE  But(f, CopyStep(e, f, h), h.name)
<1>1. But(f, f, h.name) /\ But(f, Added(f, h), h.name)
  BY ButSelf, ButHeader
<1>. QED
  BY <1>1 DEF CopyStep

\* An array pushed text by text is in one header again.
LEMMA ArrayShows ==
  ASSUME NEW u, NEW e \in Sound(u), NEW n \in AnyName \ {Body},
         NEW a \in Seq(Text), a # <<>>, a[1] # <<>>, ARR \notin ToSet(a[1]), Shows(e, n, <<>>)
  PROVE  Shows(add_all(e, PUSH, n, a), n, <<Arrayed(a)>>)
<1>. DEFINE m == Len(a)
            P(i) == [j \in 1 .. i |-> a[j]]
<1>1. PUSH \in Sense /\ PUSH \in {BOTTOM, PUSH}
  BY DEF Sense, PUSH, BOTTOM, UNSHIFT
<1>2. PICK w : AddSteps(u, e, PUSH, n, a, w) /\ add_all(e, PUSH, n, a) = w[m]
  BY <1>1, AllSteps
<1>3. m \in Nat /\ m >= 1 /\ \A i \in 1 .. m : a[i] \in Text
  OBVIOUS
<1>4. /\ w[0] = e /\ \A i \in 1 .. m : w[i] = base_add_header(w[i - 1], PUSH, n, a[i])
      /\ \A i \in 0 .. m : w[i] \in Sound(u)
  BY <1>2 DEF AddSteps
<1>5. ASSUME NEW i \in 1 .. m PROVE P(i) \in Seq(Text) /\ P(i) # <<>> /\ Len(P(i)) = i
  <2>1. P(i) \in [1 .. i -> Text] /\ i \in Nat /\ i # 0
    BY <1>3
  <2>. HIDE DEF P
  <2>2. P(i) \in Seq(Text) /\ Len(P(i)) = i
    BY <2>1, ListOf
  <2>3. Len(<<>>) = 0
    OBVIOUS
  <2>. QED
    BY <2>1, <2>2, <2>3
<1>6. ASSUME NEW i \in Nat, i + 1 \in 1 .. m, i \in 1 .. m PROVE P(i + 1) = Append(P(i), a[i + 1])
  <2>1. P(i) \in Seq(Text) /\ Len(P(i)) = i /\ \A j \in 1 .. i : P(i)[j] = a[j]
    BY <1>5, <1>6
  <2>2. DOMAIN P(i + 1) = 1 .. i + 1 /\ \A j \in 1 .. i + 1 : P(i + 1)[j] = a[j]
    OBVIOUS
  <2>3. P(i + 1) \in Seq(Text)
    BY <1>5, <1>6
  <2>. HIDE DEF P
  <2>4. a[i + 1] \in Text
    BY <1>3, <1>6
  <2>. QED
    BY <2>1, <2>2, <2>3, <2>4
<1>7. P(m) = a
  BY <1>3
<1>8. P(1) = <<a[1]>>
  OBVIOUS
<1>. HIDE DEF m, P
<1>. DEFINE T == {i \in Nat : 1 <= i /\ i <= m => Shows(w[i], n, <<Arrayed(P(i))>>)}
<1>9. 0 \in T
  OBVIOUS
<1>10. ASSUME NEW i \in T, i < m PROVE i + 1 \in T
  <2>1. i \in Nat /\ i + 1 \in 1 .. m /\ i \in 0 .. m /\ (i + 1) - 1 = i /\ i + 1 \in Nat
    BY <1>3, <1>10
  <2>2. w[i] \in Sound(u) /\ w[i + 1] = base_add_header(w[i], PUSH, n, a[i + 1]) /\ a[i + 1] \in Text
    BY <1>3, <1>4, <2>1
  <2>3. CASE i = 0
    <3>. DEFINE d == a[1]
    <3>1. w[1] = base_add_header(e, PUSH, n, d) /\ d \in Text /\ d # <<>> /\ ARR \notin ToSet(d)
      BY <1>4, <2>2, <2>3
    <3>. HIDE DEF d
    <3>2. Shows(w[1], n, Append(<<>>, Newly(PUSH, d)))
      BY <1>1, <3>1, AddedShows
    <3>3. Newly(PUSH, d) = Arrayed(<<d>>)
      BY RenderOne DEF Newly, Arrayed
    <3>4. Append(<<>>, Newly(PUSH, d)) = <<Arrayed(P(1))>>
      BY <1>8, <3>3 DEF d
    <3>. QED
      BY <2>3, <3>2, <3>4
  <2>4. CASE i # 0
    <3>. DEFINE b == P(i)
                v == Arrayed(b)
                c == P(i + 1)
    <3>1. i \in 1 .. m /\ Shows(w[i], n, <<v>>)
      BY <2>1, <2>4
    <3>2. b \in Seq(Text) /\ b # <<>> /\ c = Append(b, a[i + 1])
      BY <1>5, <1>6, <2>1, <3>1
    <3>. HIDE DEF b, c
    <3>3. v.array = b
      BY DEF Arrayed
    <3>4. v \in Views
      BY <3>2, RenderText DEF Views, Arrayed
    <3>. HIDE DEF v
    <3>5. c = Append(v.array, a[i + 1]) /\ v.array # <<>>
      BY <3>2, <3>3
    <3>6. Shows(w[i + 1], n, <<Arrayed(c)>>)
      BY <2>2, <3>1, <3>4, <3>5, PushedShows
    <3>. QED
      BY <2>1, <3>6 DEF c
  <2>. QED
    BY <2>3, <2>4
<1>11. Shows(w[m], n, <<Arrayed(P(m))>>)
  <2>1. T \in SUBSET Nat
    OBVIOUS
  <2>2. 0 .. m \subseteq T
    <3>. HIDE DEF T
    <3>. QED
      BY <1>3, <1>9, <1>10, <2>1, UpTo
  <2>. QED
    BY <1>3, <2>2
<1>. QED
  BY <1>2, <1>7, <1>11

\* A header of another event is there again behind those of its name.
LEMMA HeaderShows ==
  ASSUME NEW u, NEW e \in Sound(u), NEW h \in Heads, h.name # Body, Solid(h),
         NEW q, Shows(e, h.name, q), q = <<>> \/ (~ u /\ h.array = <<>>)
  PROVE  Shows(Added(e, h), h.name, Append(q, View(h)))
<1>. DEFINE n == h.name
            a == h.array
            d == h.value
<1>1. n \in AnyName \ {Body} /\ a \in Seq(Text) /\ d \in Text
  BY DEF Heads, Cells
<1>2. CASE a = <<>>
  <2>. DEFINE ds == <<d>>
  <2>1. BOTTOM \in {BOTTOM, PUSH} /\ BOTTOM \in Sense /\ ds \in Seq(Text) /\ Len(ds) = 1 /\ ds[1] = d
    BY <1>1 DEF Sense, BOTTOM, UNSHIFT
  <2>2. Added(e, h) = add_all(e, BOTTOM, n, ds)
    BY <1>2 DEF Added, HeaderTexts
  <2>3. d # <<>> /\ ARR \notin ToSet(d)
    BY <1>2 DEF Solid
  <2>. HIDE DEF ds, n, d
  <2>4. PICK w : AddSteps(u, e, BOTTOM, n, ds, w) /\ add_all(e, BOTTOM, n, ds) = w[Len(ds)]
    <3>1. n \in AnyName /\ BOTTOM \in Sense /\ ds \in Seq(Text)
      BY <1>1, <2>1
    <3>. QED
      BY <3>1, AllSteps
  <2>5. w[1] = base_add_header(e, BOTTOM, n, d)
    BY <2>1, <2>4 DEF AddSteps
  <2>6. q = <<>> \/ (~ u /\ BOTTOM = BOTTOM)
    OBVIOUS
  <2>7. Shows(base_add_header(e, BOTTOM, n, d), n, Append(q, Newly(BOTTOM, d)))
    <3>1. Shows(e, n, q)
      BY DEF n
    <3>. QED
      BY <1>1, <2>1, <2>3, <2>6, <3>1, AddedShows
  <2>8. Newly(BOTTOM, d) = View(h)
    BY <1>2 DEF Newly, View, BOTTOM, PUSH, d
  <2>. QED
    BY <2>1, <2>2, <2>4, <2>5, <2>7, <2>8 DEF n
<1>3. CASE a # <<>>
  <2>1. q = <<>>
    BY <1>3
  <2>2. Added(e, h) = add_all(e, PUSH, n, a)
    BY <1>3 DEF Added, HeaderTexts
  <2>3. Head(a) = a[1]
    BY <1>1, <1>3
  <2>4. a[1] # <<>> /\ ARR \notin ToSet(a[1]) /\ d = Render(a)
    BY <1>3, <2>3 DEF Solid
  <2>5. View(h) = Arrayed(a)
    BY <2>4 DEF View, Arrayed
  <2>6. Shows(e, n, <<>>)
    BY <2>1
  <2>. HIDE DEF n, a
  <2>7. Shows(add_all(e, PUSH, n, a), n, <<Arrayed(a)>>)
    BY <1>1, <1>3, <2>4, <2>6, ArrayShows
  <2>8. Append(<<>>, View(h)) = <<Arrayed(a)>>
    BY <2>5
  <2>. QED
    BY <2>1, <2>2, <2>7, <2>8 DEF n
<1>. QED
  BY <1>2, <1>3

-----------------------------------------------------------------------------
(* A copy holds, name by name, what the event does.                        *)

\* The loop that finds the headers called n among hs.
CalledSteps(hs, n, c) ==
  /\ c[0] = <<>>
  /\ \A i \in 1 .. Len(hs) :
       c[i] = IF hs[i].name = n THEN Append(c[i - 1], hs[i]) ELSE c[i - 1]
  /\ \A i \in 0 .. Len(hs) : c[i] \in Seq(Heads)

LEMMA CallSteps ==
  ASSUME NEW u, NEW e \in Sound(u), NEW n
  PROVE  \E c : CalledSteps(HeadersOf(e), n, c) /\ Called(e, n) = c[Len(HeadersOf(e))]
<1>. DEFINE Step(q, h) == IF h.name = n THEN Append(q, h) ELSE q
<1>0. ASSUME NEW q \in Seq(Heads), NEW h \in Heads PROVE Step(q, h) \in Seq(Heads)
  OBVIOUS
<1>. HIDE DEF Step
<1>. DEFINE s == HeadersOf(e)
            m == Len(s)
            A == Seq(Heads)
            base == <<>>
            G == [i \in 1 .. m |-> [q \in A |-> Step(q, s[i])]]
            body(f) == [S \in SUBSET DOMAIN s |->
                          IF S = {} THEN base ELSE Step(f[S \ {Max(S)}], s[Max(S)])]
            it == CHOOSE f : f = body(f)
<1>1. s \in Seq(Heads) /\ base \in Seq(Heads)
  BY HeadersFit
<1>. HIDE DEF s, base
<1>2. m \in Nat /\ DOMAIN s = 1 .. m /\ \A i \in 1 .. m : s[i] \in Heads
  BY <1>1
<1>. HIDE DEF m, A
<1>3. \A i \in 1 .. m : \A q \in A : G[i][q] = Step(q, s[i]) /\ Step(q, s[i]) \in A
  BY <1>0, <1>2 DEF A
<1>. HIDE DEF G
<1>4. PICK f : FoldsTo(m, base, G, A, f)
  <2>1. m \in Nat /\ base \in A /\ \A i \in 1 .. m : \A x \in A : G[i][x] \in A
    BY <1>1, <1>2, <1>3, Zenon DEF A
  <2>. QED
    BY <2>1, FoldsExist, Zenon
<1>5. \A S \in SUBSET (1 .. m) : S # {} => Max(S) \in 1 .. m /\ S \ {Max(S)} \in SUBSET (1 .. m)
  BY <1>2, Places
<1>6. f = body(f)
  <2>1. \A S \in SUBSET (1 .. m) :
          f[S] = IF S = {} THEN base ELSE Step(f[S \ {Max(S)}], s[Max(S)])
    BY <1>3, <1>4, <1>5, Zenon DEF FoldsTo
  <2>. QED
    BY <1>2, <1>4, <2>1, Zenon DEF FoldsTo
<1>7. it = body(it)
  BY <1>6, Zenon
<1>. HIDE DEF it
<1>8. \A S \in SUBSET (1 .. m) :
        it[S] = IF S = {} THEN base ELSE Step(it[S \ {Max(S)}], s[Max(S)])
  BY <1>2, <1>7, Zenon
<1>9. \A S \in SUBSET (1 .. m) : it[S] \in A
  <2>1. it[{}] \in A
    <3>1. {} \in SUBSET (1 .. m)
      OBVIOUS
    <3>. QED
      BY <1>1, <1>8, <3>1, Zenon DEF A
  <2>2. \A S \in SUBSET (1 .. m) : S # {} /\ it[S \ {Max(S)}] \in A => it[S] \in A
    BY <1>3, <1>5, <1>8, Zenon
  <2>. QED
    BY <1>2, <2>1, <2>2, FoldsIn
<1>10. Called(e, n) = it[DOMAIN s]
  BY DEF Called, FoldLeft, MapThenFoldSet, it, s, base, Step
<1>. DEFINE c == [i \in 0 .. m |-> it[1 .. i]]
<1>11. ASSUME NEW i \in 1 .. m PROVE c[i] = Step(c[i - 1], s[i])
  <2>1. /\ 1 .. i \in SUBSET (1 .. m) /\ 1 .. i # {} /\ Max(1 .. i) = i
        /\ (1 .. i) \ {i} = 1 .. i - 1
    BY <1>2, FirstPlaces
  <2>2. it[1 .. i] = Step(it[1 .. i - 1], s[i])
    BY <1>8, <2>1, Zenon
  <2>3. c[i] = it[1 .. i] /\ c[i - 1] = it[1 .. i - 1]
    BY <1>2
  <2>. HIDE DEF c
  <2>. QED
    BY <2>2, <2>3, Zenon
<1>12. c[0] = base
  <2>1. {} \in SUBSET (1 .. m) /\ 1 .. 0 = {} /\ c[0] = it[1 .. 0]
    BY <1>2
  <2>. HIDE DEF c
  <2>. QED
    BY <1>8, <2>1, Zenon
<1>13. ASSUME NEW i \in 0 .. m PROVE c[i] \in A
  <2>1. 1 .. i \in SUBSET (1 .. m) /\ c[i] = it[1 .. i]
    BY <1>2
  <2>. HIDE DEF c
  <2>. QED
    BY <1>9, <2>1, Zenon
<1>14. c[m] = it[DOMAIN s]
  BY <1>2
<1>. HIDE DEF c
<1>15. CalledSteps(s, n, c) /\ Called(e, n) = c[Len(s)]
  BY <1>10, <1>11, <1>12, <1>13, <1>14, Zenon DEF CalledSteps, Step, m, A, base
<1>. QED
  BY <1>15 DEF s

ViewsOf(hs) == [i \in DOMAIN hs |-> View(hs[i])]

LEMMA ViewOf == ASSUME NEW h \in Heads PROVE View(h) \in Views
BY DEF View, Views, Heads, Cells

LEMMA ViewsAre ==
  ASSUME NEW hs \in Seq(Heads)
  PROVE  /\ ViewsOf(hs) \in Seq(Views) /\ Len(ViewsOf(hs)) = Len(hs)
         /\ \A h \in Heads : ViewsOf(Append(hs, h)) = Append(ViewsOf(hs), View(h))
<1>. DEFINE m == Len(hs)
            q == ViewsOf(hs)
<1>1. m \in Nat /\ DOMAIN hs = 1 .. m /\ \A i \in 1 .. m : hs[i] \in Heads
  OBVIOUS
<1>. HIDE DEF m
<1>2. q = [i \in 1 .. m |-> View(hs[i])]
  BY <1>1 DEF ViewsOf
<1>3. q \in [1 .. m -> Views]
  BY <1>1, <1>2, ViewOf
<1>. HIDE DEF q
<1>4. q \in Seq(Views) /\ Len(q) = m
  BY <1>1, <1>3, ListOf
<1>5. ASSUME NEW h \in Heads PROVE ViewsOf(Append(hs, h)) = Append(q, View(h))
  <2>. DEFINE gs == Append(hs, h)
              p == Append(q, View(h))
  <2>1. gs \in Seq(Heads) /\ DOMAIN gs = 1 .. m + 1 /\ gs[m + 1] = h /\ \A i \in 1 .. m : gs[i] = hs[i]
    BY DEF m
  <2>2. View(h) \in Views
    BY ViewOf
  <2>3. /\ p \in Seq(Views) /\ DOMAIN p = 1 .. m + 1 /\ p[m + 1] = View(h)
        /\ \A i \in 1 .. m : p[i] = q[i]
    BY <1>4, <2>2
  <2>. HIDE DEF gs, p
  <2>4. ASSUME NEW i \in 1 .. m + 1 PROVE View(gs[i]) = p[i]
    <3>1. CASE i = m + 1
      BY <2>1, <2>3, <3>1
    <3>2. CASE i # m + 1
      <4>1. i \in 1 .. m
        BY <1>1, <3>2
      <4>. QED
        BY <1>2, <2>1, <2>3, <4>1
    <3>. QED
      BY <3>1, <3>2
  <2>5. p = [i \in 1 .. m + 1 |-> p[i]]
    BY <2>3
  <2>6. ViewsOf(gs) = [i \in 1 .. m + 1 |-> View(gs[i])]
    BY <2>1 DEF ViewsOf
  <2>7. ViewsOf(gs) = p
    BY <2>4, <2>5, <2>6, Zenon
  <2>. QED
    BY <2>7 DEF gs, p
<1>. QED
  BY <1>4, <1>5 DEF m, q

\* The headers found so far are at their places in the list.
LEMMA CalledListed ==
  ASSUME NEW u, NEW e \in Sound(u), NEW s, Whole(e, s, u), NEW n,
         NEW c, CalledSteps(HeadersOf(e), n, c), NEW k \in 0 .. Len(s)
  PROVE  /\ HeadersOf(e) = [i \in 1 .. Len(s) |-> e.mem[s[i]]] /\ Len(HeadersOf(e)) = Len(s)
         /\ \E w : Listed(e, s, k, n, ViewsOf(c[k]), w)
<1>. DEFINE hs == HeadersOf(e)
            m == Len(s)
<1>1. m \in Nat /\ s \in Seq(DOMAIN e.mem) /\ DOMAIN s = 1 .. m
      /\ \A i \in 1 .. m : e.mem[s[i]] \in Cells /\ e.mem[s[i]].value \in Text
  BY WholeFacts
<1>2. Chain(e) = s
  BY ChainIs
<1>3. hs = [i \in 1 .. m |-> e.mem[s[i]]]
  BY <1>1, <1>2 DEF HeadersOf
<1>4. hs \in Seq(Heads)
  BY HeadersFit
<1>5. Len(hs) = m /\ \A i \in 1 .. m : hs[i] = e.mem[s[i]] /\ hs[i] \in Heads
  <2>1. DOMAIN hs = 1 .. m
    BY <1>3
  <2>. HIDE DEF hs, m
  <2>2. Len(hs) = m
    BY <1>1, <1>4, <2>1
  <2>3. \A i \in 1 .. m : hs[i] = e.mem[s[i]]
    BY <1>3
  <2>4. \A i \in 1 .. Len(hs) : hs[i] \in Heads
    BY <1>4
  <2>. QED
    BY <2>2, <2>3, <2>4
<1>6. /\ c[0] = <<>>
      /\ \A i \in 1 .. m : c[i] = IF hs[i].name = n THEN Append(c[i - 1], hs[i]) ELSE c[i - 1]
      /\ \A i \in 0 .. m : c[i] \in Seq(Heads)
  BY <1>5 DEF CalledSteps
<1>. HIDE DEF hs, m
<1>. DEFINE T == {i \in Nat : i <= m => \E w : Listed(e, s, i, n, ViewsOf(c[i]), w)}
<1>7. 0 \in T
  <2>. DEFINE q == ViewsOf(c[0])
              w == [j \in 1 .. 0 |-> 1]
  <2>1. q \in Seq(Views) /\ Len(q) = 0
    <3>1. c[0] \in Seq(Heads) /\ Len(c[0]) = 0
      BY <1>6
    <3>. QED
      BY <3>1, ViewsAre
  <2>2. w \in [1 .. 0 -> 1 .. 0] /\ \A j \in 1 .. 0 : FALSE
    OBVIOUS
  <2>. HIDE DEF q, w
  <2>3. Listed(e, s, 0, n, q, w)
    BY <2>1, <2>2 DEF Listed
  <2>. QED
    BY <2>3 DEF q
<1>8. ASSUME NEW i \in T, i < m PROVE i + 1 \in T
  <2>1. i \in Nat /\ i + 1 \in 1 .. m /\ i \in 0 .. m /\ (i + 1) - 1 = i /\ i + 1 \in Nat
    BY <1>1, <1>8
  <2>2. PICK w : Listed(e, s, i, n, ViewsOf(c[i]), w)
    BY <1>1, <1>8, <2>1
  <2>. DEFINE h == hs[i + 1]
  <2>3. h \in Heads /\ h = e.mem[s[i + 1]] /\ c[i] \in Seq(Heads)
        /\ c[i + 1] = IF h.name = n THEN Append(c[i], h) ELSE c[i]
    BY <1>5, <1>6, <2>1
  <2>. HIDE DEF h
  <2>4. CASE h.name = n
    <3>1. ViewsOf(c[i + 1]) = Append(ViewsOf(c[i]), View(h)) /\ View(h) \in Views
      BY <2>3, <2>4, ViewsAre, ViewOf
    <3>. DEFINE v == View(h)
    <3>2. v \in Views /\ v = View(e.mem[s[i + 1]]) /\ e.mem[s[i + 1]].name = n
      BY <2>3, <2>4, <3>1
    <3>. HIDE DEF v
    <3>3. \E z : Listed(e, s, i + 1, n, Append(ViewsOf(c[i]), v), z)
      BY <2>1, <2>2, <3>2, ListedNext
    <3>. QED
      BY <2>1, <3>1, <3>3 DEF v
  <2>5. CASE h.name # n
    <3>1. e.mem[s[i + 1]].name # n /\ c[i + 1] = c[i]
      BY <2>3, <2>5
    <3>2. Listed(e, s, i + 1, n, ViewsOf(c[i]), w)
      BY <2>1, <2>2, <3>1, ListedOther
    <3>. QED
      BY <2>1, <3>1, <3>2
  <2>. QED
    BY <2>4, <2>5
<1>9. \E w : Listed(e, s, k, n, ViewsOf(c[k]), w)
  <2>1. T \in SUBSET Nat
    OBVIOUS
  <2>2. 0 .. m \subseteq T
    <3>. HIDE DEF T
    <3>. QED
      BY <1>1, <1>7, <1>8, <2>1, UpTo
  <2>3. k \in 0 .. m
    BY DEF m
  <2>. QED
    BY <1>1, <2>2, <2>3
<1>. QED
  BY <1>3, <1>5, <1>9 DEF hs, m

LEMMA CalledShown ==
  ASSUME NEW u, NEW e \in Sound(u), NEW n
  PROVE  Shows(e, n, ViewsOf(Called(e, n))) /\ Called(e, n) \in Seq(Heads)
<1>1. PICK s : Whole(e, s, u)
  BY DEF Sound
<1>2. PICK c : CalledSteps(HeadersOf(e), n, c) /\ Called(e, n) = c[Len(HeadersOf(e))]
  BY CallSteps
<1>3. Len(s) \in 0 .. Len(s) /\ e.uniq = u
  BY <1>1, WholeFacts DEF Sound
<1>4. Len(HeadersOf(e)) = Len(s) /\ \E w : Listed(e, s, Len(s), n, ViewsOf(c[Len(s)]), w)
  BY <1>1, <1>2, <1>3, CalledListed
<1>5. c[Len(s)] \in Seq(Heads)
  BY <1>2, <1>3, <1>4 DEF CalledSteps
<1>. QED
  BY <1>1, <1>2, <1>3, <1>4, <1>5 DEF Shows

\* From it[0], that has no header n, the headers of e called n are added one by
\* one, and in between nothing called n changes.
LEMMA CopiedShows ==
  ASSUME NEW v, NEW e \in Sound(v), NEW n \in Names, AllSolid(e, n),
         NEW u \in BOOLEAN, u => v,
         NEW hs, hs = HeadersOf(e), NEW it, \A i \in 0 .. Len(hs) : it[i] \in Sound(u),
         Shows(it[0], n, <<>>),
         \A i \in 1 .. Len(hs) : IF hs[i].name = n THEN it[i] = Added(it[i - 1], hs[i])
                                 ELSE But(it[i - 1], it[i], hs[i].name)
  PROVE  Shows(it[Len(hs)], n, ViewsOf(Called(e, n)))
<1>1. PICK s : Whole(e, s, v)
  BY DEF Sound
<1>. DEFINE m == Len(s)
<1>2. PICK c : CalledSteps(hs, n, c) /\ Called(e, n) = c[Len(hs)]
  BY CallSteps
<1>3. m \in Nat
  BY <1>1, WholeFacts
<1>4. \A k \in 0 .. m : \E w : Listed(e, s, k, n, ViewsOf(c[k]), w)
  BY <1>1, <1>2, CalledListed
<1>5. hs = [i \in 1 .. m |-> e.mem[s[i]]] /\ Len(hs) = m
  <2>1. 0 \in 0 .. Len(s)
    BY <1>3
  <2>. QED
    BY <1>1, <1>2, <2>1, CalledListed
<1>6. hs \in Seq(Heads)
  BY HeadersFit
<1>7. /\ c[0] = <<>>
      /\ \A i \in 1 .. m : c[i] = IF hs[i].name = n THEN Append(c[i - 1], hs[i]) ELSE c[i - 1]
      /\ \A i \in 0 .. m : c[i] \in Seq(Heads)
  BY <1>2, <1>5 DEF CalledSteps
<1>8. \A i \in 1 .. m : hs[i] = e.mem[s[i]]
  BY <1>5
<1>9. \A i \in 1 .. m : hs[i] \in Heads /\ (hs[i].name = n => Solid(hs[i]))
  <2>1. \A i \in 1 .. Len(hs) : hs[i] \in Heads /\ hs[i] \in ToSet(hs)
    BY <1>6 DEF ToSet
  <2>2. \A h \in ToSet(hs) : h.name = n => Solid(h)
    BY DEF AllSolid
  <2>. QED
    BY <1>5, <2>1, <2>2
<1>10. n # Body
  BY EventAssumption DEF Special
<1>11. \A i, j \in 1 .. m : i < j /\ e.mem[s[i]].name = e.mem[s[j]].name
         => ~ v /\ e.mem[s[j]].array = <<>>
  BY <1>1 DEF Whole, Kept
<1>12. \A i \in 1 .. m : IF hs[i].name = n THEN it[i] = Added(it[i - 1], hs[i])
                         ELSE But(it[i - 1], it[i], hs[i].name)
  BY <1>5
<1>13. \A i \in 0 .. m : it[i] \in Sound(u)
  BY <1>5
<1>. HIDE DEF m
<1>. DEFINE T == {i \in Nat : i <= m => Shows(it[i], n, ViewsOf(c[i]))}
<1>14. 0 \in T
  <2>1. ViewsOf(<<>>) = <<>>
    BY DEF ViewsOf
  <2>. QED
    BY <1>7, <2>1
<1>15. ASSUME NEW i \in T, i < m PROVE i + 1 \in T
  <2>1. i \in Nat /\ i + 1 \in 1 .. m /\ i \in 0 .. m /\ (i + 1) - 1 = i /\ i + 1 \in Nat
    BY <1>3, <1>15
  <2>. DEFINE h == hs[i + 1]
              f == it[i]
              q == ViewsOf(c[i])
  <2>2. Shows(f, n, q)
    BY <1>3, <1>15, <2>1
  <2>3. /\ h \in Heads /\ h = e.mem[s[i + 1]] /\ c[i] \in Seq(Heads) /\ f \in Sound(u)
        /\ c[i + 1] = IF h.name = n THEN Append(c[i], h) ELSE c[i]
    BY <1>7, <1>8, <1>9, <1>13, <2>1
  <2>4. h.name = n => Solid(h) /\ it[i + 1] = Added(f, h)
    BY <1>9, <1>12, <2>1
  <2>5. h.name # n => But(f, it[i + 1], h.name)
    BY <1>12, <2>1
  <2>6. ViewsOf(Append(c[i], h)) = Append(q, View(h)) /\ q \in Seq(Views)
    BY <2>3, ViewsAre
  <2>7. ASSUME h.name = n, q # <<>> PROVE ~ u /\ h.array = <<>>
    <3>1. PICK w : Listed(e, s, i, n, q, w)
      BY <1>4, <2>1
    <3>2. 1 \in 1 .. Len(q)
      BY <2>6, <2>7
    <3>3. w[1] \in 1 .. i
      BY <3>1, <3>2 DEF Listed
    <3>4. e.mem[s[w[1]]].name = n
      BY <3>1, <3>2, <3>3 DEF Listed
    <3>5. w[1] \in 1 .. m /\ w[1] < i + 1
      BY <1>3, <2>1, <3>3
    <3>6. ~ v /\ e.mem[s[i + 1]].array = <<>>
      BY <1>11, <2>1, <2>3, <2>7, <3>4, <3>5
    <3>. QED
      BY <2>3, <3>6
  <2>. HIDE DEF h, f, q
  <2>8. CASE h.name = n
    <3>1. h.name # Body /\ Solid(h) /\ Shows(f, h.name, q) /\ (q = <<>> \/ (~ u /\ h.array = <<>>))
      BY <1>10, <2>2, <2>4, <2>7, <2>8
    <3>2. Shows(Added(f, h), h.name, Append(q, View(h)))
      BY <2>3, <3>1, HeaderShows
    <3>. QED
      BY <2>1, <2>3, <2>4, <2>6, <2>8, <3>2
  <2>9. CASE h.name # n
    <3>1. Shows(it[i + 1], n, q)
      BY <2>2, <2>5, <2>9 DEF But
    <3>2. c[i + 1] = c[i]
      BY <2>3, <2>9
    <3>. QED
      BY <2>1, <3>1, <3>2 DEF q
  <2>. QED
    BY <2>8, <2>9
<1>16. Shows(it[m], n, ViewsOf(c[m]))
  <2>1. T \in SUBSET Nat
    OBVIOUS
  <2>2. 0 .. m \subseteq T
    <3>. HIDE DEF T
    <3>. QED
      BY <1>3, <1>14, <1>15, <2>1, UpTo
  <2>. QED
    BY <1>3, <2>2
<1>. QED
  BY <1>2, <1>5, <1>16

\* Two events that show the same have the same values and arrays.
LEMMA ShownAlike ==
  ASSUME NEW u, NEW e \in Sound(u), NEW v, NEW f \in Sound(v), NEW n,
         Shows(f, n, ViewsOf(Called(e, n)))
  PROVE  /\ ValuesOf(Called(f, n)) = ValuesOf(Called(e, n))
         /\ ArraysOf(Called(f, n)) = ArraysOf(Called(e, n))
<1>. DEFINE a == Called(e, n)
            b == Called(f, n)
<1>1. Shows(f, n, ViewsOf(b)) /\ b \in Seq(Heads) /\ a \in Seq(Heads)
  BY CalledShown
<1>2. Shows(f, n, ViewsOf(a))
  OBVIOUS
<1>. HIDE DEF a, b
<1>3. ViewsOf(a) = ViewsOf(b)
  BY <1>1, <1>2, ShownOnce
<1>4. DOMAIN a = DOMAIN b /\ \A i \in DOMAIN a : View(a[i]) = View(b[i])
  BY <1>3 DEF ViewsOf
<1>5. \A i \in DOMAIN a : a[i].value = b[i].value /\ a[i].array = b[i].array
  BY <1>4 DEF View
<1>6. ValuesOf(b) = ValuesOf(a) /\ ArraysOf(b) = ArraysOf(a)
  BY <1>4, <1>5 DEF ValuesOf, ArraysOf
<1>. QED
  BY <1>6 DEF a, b

\* No header is called n if the event has none.
LEMMA CalledNone ==
  ASSUME NEW u, NEW e \in Sound(u), NEW n, Called(e, n) = <<>>, NEW i \in 1 .. Len(HeadersOf(e))
  PROVE  HeadersOf(e)[i].name # n
<1>1. PICK s : Whole(e, s, u)
  BY DEF Sound
<1>2. e.uniq = u
  BY DEF Sound
<1>3. ViewsOf(<<>>) = <<>>
  BY DEF ViewsOf
<1>4. Shows(e, n, <<>>)
  BY <1>3, CalledShown
<1>5. HasNo(e, s, n)
  BY <1>1, <1>2, <1>4, NoneShown
<1>6. PICK c : CalledSteps(HeadersOf(e), n, c)
  BY CallSteps
<1>7. HeadersOf(e) = [k \in 1 .. Len(s) |-> e.mem[s[k]]] /\ Len(HeadersOf(e)) = Len(s)
  <2>1. 0 \in 0 .. Len(s)
    BY <1>1, WholeFacts
  <2>. QED
    BY <1>1, <1>6, <2>1, CalledListed
<1>. QED
  BY <1>5, <1>7 DEF HasNo

\* As long as no header is called Body, the body stays.
LEMMA BodyStays ==
  ASSUME NEW m \in Nat, NEW it, NEW hs,
         \A i \in 1 .. m : hs[i].name # Body /\ But(it[i - 1], it[i], hs[i].name)
  PROVE  it[m].body = it[0].body
<1>. DEFINE T == {i \in Nat : i <= m => it[i].body = it[0].body}
<1>1. 0 \in T
  OBVIOUS
<1>2. ASSUME NEW i \in T, i < m PROVE i + 1 \in T
  <2>1. i \in Nat /\ i + 1 \in 1 .. m /\ (i + 1) - 1 = i /\ i + 1 \in Nat /\ it[i].body = it[0].body
    BY <1>2
  <2>2. hs[i + 1].name # Body /\ But(it[i], it[i + 1], hs[i + 1].name)
    BY <2>1
  <2>. QED
    BY <2>1, <2>2 DEF But
<1>3. T \in SUBSET Nat
  OBVIOUS
<1>4. 0 .. m \subseteq T
  <2>. HIDE DEF T
  <2>. QED
    BY <1>1, <1>2, <1>3, UpTo
<1>. QED
  BY <1>4

\* Another event agrees with e.
Agrees(e, f) ==
  /\ Called(e, Body) = <<>> => f.body = e.body
  /\ \A n \in Names : AllSolid(e, n) => Shows(f, n, ViewsOf(Called(e, n)))

LEMMA CopyAgrees ==
  ASSUME NEW u, NEW e \in Sound(u), NEW f, f = dup(e)
  PROVE  f \in Sound(u) /\ Agrees(e, f)
<1>. DEFINE hs == HeadersOf(e)
            m == Len(hs)
            new == [create_subclass(NoText, e.subclass) EXCEPT !.uniq = u]
<1>1. PICK w : /\ CopySteps(u, e, hs, w)
               /\ f = LET e1 == w[m] IN IF e.body = NoText THEN e1 ELSE set_body(e1, e.body)
  BY DupSteps
<1>2. e.uniq = u /\ e \in Evs /\ u \in BOOLEAN /\ e.subclass \in Word /\ NoText \in Word
      /\ e.body \in Text \cup {NoText}
  BY EvFields DEF Sound, Whole, Word
<1>3. w[0] = new
  BY <1>1, <1>2 DEF CopySteps
<1>4. hs \in Seq(Heads) /\ m \in Nat /\ \A i \in 1 .. m : hs[i] \in Heads
  <2>1. hs \in Seq(Heads)
    BY HeadersFit
  <2>. QED
    BY <2>1
<1>5. /\ \A i \in 1 .. m : w[i] = CopyStep(e, w[i - 1], hs[i])
      /\ \A i \in 0 .. m : w[i] \in Sound(u)
  BY <1>1 DEF CopySteps
<1>. HIDE DEF m, new
<1>6. PICK r : /\ Whole(new, r, u) /\ new.uniq = u /\ new.body = NoText
               /\ \A x : x \notin {EventName, Subclass} => HasNo(new, r, x)
  <2>. DEFINE sub == e.subclass
  <2>1. new = [create_subclass(NoText, sub) EXCEPT !.uniq = u] /\ sub \in Word
    BY <1>2 DEF new
  <2>. HIDE DEF sub
  <2>. QED
    BY <1>2, <2>1, CreatedList
<1>7. \A i \in 1 .. m : But(w[i - 1], w[i], hs[i].name)
  <2>1. ASSUME NEW i \in 1 .. m PROVE But(w[i - 1], w[i], hs[i].name)
    <3>1. i - 1 \in 0 .. m
      BY <1>4
    <3>2. w[i - 1] \in Sound(u) /\ hs[i] \in Heads /\ w[i] = CopyStep(e, w[i - 1], hs[i])
      BY <1>4, <1>5, <3>1
    <3>. QED
      BY <3>2, ButCopied
  <2>. QED
    BY <2>1
<1>8. ASSUME NEW n \in Names, AllSolid(e, n) PROVE Shows(w[m], n, ViewsOf(Called(e, n)))
  <2>1. n \notin Special
    BY EventAssumption
  <2>2. Shows(w[0], n, <<>>)
    <3>1. HasNo(new, r, n)
      BY <1>6, <2>1 DEF Special, EventName, Subclass
    <3>. QED
      BY <1>3, <1>6, <3>1, NoneShown
  <2>3. ASSUME NEW i \in 1 .. m, hs[i].name = n PROVE w[i] = Added(w[i - 1], hs[i])
    <3>1. hs[i].name # Subclass
      BY <2>1, <2>3 DEF Special
    <3>. QED
      BY <1>5, <3>1 DEF CopyStep
  <2>4. \A i \in 1 .. m : IF hs[i].name = n THEN w[i] = Added(w[i - 1], hs[i])
                          ELSE But(w[i - 1], w[i], hs[i].name)
    BY <1>7, <2>3
  <2>5. hs = HeadersOf(e)
    OBVIOUS
  <2>. HIDE DEF hs
  <2>. QED
    BY <1>2, <1>5, <1>8, <2>2, <2>4, <2>5, CopiedShows DEF m
<1>9. w[m] \in Sound(u)
  BY <1>4, <1>5
<1>10. CASE e.body = NoText
  <2>1. f = w[m]
    BY <1>1, <1>10 DEF m
  <2>2. ASSUME Called(e, Body) = <<>> PROVE f.body = e.body
    <3>1. \A i \in 1 .. m : hs[i].name # Body
      BY <2>2, CalledNone DEF m
    <3>2. w[m].body = w[0].body
      BY <1>4, <1>7, <3>1, BodyStays
    <3>. QED
      BY <1>3, <1>6, <1>10, <2>1, <3>2
  <2>. QED
    BY <1>8, <1>9, <2>1, <2>2 DEF Agrees
<1>11. CASE e.body # NoText
  <2>1. f = set_body(w[m], e.body)
    BY <1>1, <1>11 DEF m
  <2>2. f.body = e.body /\ \A n, q : Shows(w[m], n, q) => Shows(f, n, q)
    BY <1>2, <1>9, <2>1, ButBody
  <2>3. f \in Sound(u)
    BY <1>2, <1>9, <2>1, SoundBody
  <2>. QED
    BY <1>8, <2>2, <2>3 DEF Agrees
<1>. QED
  BY <1>10, <1>11

LEMMA EmptyShows == \A n : Shows(Empty, n, <<>>)
<1>1. Whole(Empty, <<>>, FALSE) /\ Empty.uniq = FALSE
  BY EmptyWhole
<1>2. \A n : HasNo(Empty, <<>>, n)
  <2>1. Len(<<>>) = 0 /\ \A i \in 1 .. 0 : FALSE
    OBVIOUS
  <2>. QED
    BY <2>1 DEF HasNo
<1>. QED
  BY <1>1, <1>2, NoneShown

\* The items of an event sent as JSON: its headers, and two for the body.
LEMMA ItemsAre ==
  ASSUME NEW u, NEW e \in Sound(u), NEW hs, hs = HeadersOf(e), NEW items, items = serialize_json(e)
  PROVE  /\ items \in Seq(Heads) /\ \A i \in 1 .. Len(hs) : items[i] = hs[i]
         /\ e.body = NoText => Len(items) = Len(hs)
         /\ e.body # NoText =>
              /\ Len(items) = Len(hs) + 2 /\ items[Len(hs) + 1].name = Length
              /\ items[Len(hs) + 2].name = Body /\ items[Len(hs) + 2].array = <<>>
              /\ items[Len(hs) + 2].value = e.body
<1>. DEFINE Item(n, v) == [name |-> n, value |-> v, array |-> <<>>, next |-> NULL]
            a == Item(Length, Number)
            b == Item(Body, e.body)
<1>1. hs \in Seq(Heads) /\ items \in Seq(Heads)
  BY HeadersFit, SentItems
<1>2. CASE e.body = NoText
  BY <1>1, <1>2 DEF serialize_json
<1>3. CASE e.body # NoText
  <2>1. items = hs \o <<a, b>>
    BY <1>3 DEF serialize_json
  <2>2. a.name = Length /\ b.name = Body /\ b.array = <<>> /\ b.value = e.body
    OBVIOUS
  <2>. HIDE DEF a, b
  <2>3. /\ Len(items) = Len(hs) + 2 /\ items[Len(hs) + 1] = a /\ items[Len(hs) + 2] = b
        /\ \A i \in 1 .. Len(hs) : items[i] = hs[i]
    BY <1>1, <2>1
  <2>. QED
    BY <1>1, <1>3, <2>2, <2>3
<1>. QED
  BY <1>2, <1>3

LEMMA JsonAgrees ==
  ASSUME NEW u, NEW e \in Sound(u), NEW f, f = create_json(serialize_json(e))
  PROVE  f \in Sound(FALSE) /\ Agrees(e, f)
<1>. DEFINE hs == HeadersOf(e)
            m == Len(hs)
            items == serialize_json(e)
<1>1. hs \in Seq(Heads) /\ items \in Seq(Heads) /\ \A i \in 1 .. m : items[i] = hs[i]
  BY HeadersFit, ItemsAre
<1>2. /\ e.body = NoText => Len(items) = m
      /\ e.body # NoText =>
           /\ Len(items) = m + 2 /\ items[m + 1].name = Length
           /\ items[m + 2].name = Body /\ items[m + 2].array = <<>>
           /\ items[m + 2].value = e.body
  BY ItemsAre
<1>3. PICK w : JsonSteps(items, w) /\ f = w[Len(items)]
  BY <1>1, ItemSteps
<1>4. f \in Sound(FALSE)
  BY <1>1, SoundJson
<1>5. m \in Nat /\ Len(items) \in Nat /\ Len(items) >= m /\ \A i \in 1 .. Len(items) : items[i] \in Heads
  <2>1. m \in Nat /\ Len(items) \in Nat /\ \A i \in 1 .. Len(items) : items[i] \in Heads
    BY <1>1
  <2>. HIDE DEF items, hs, m
  <2>. QED
    BY <1>2, <2>1
<1>. HIDE DEF items
<1>6. /\ w[0] = Empty /\ \A i \in 1 .. Len(items) : w[i] = JsonStep(w[i - 1], items[i])
      /\ \A i \in 0 .. Len(items) : w[i] \in Sound(FALSE)
  BY <1>3 DEF JsonSteps
<1>. HIDE DEF m
<1>7. \A i \in 1 .. Len(items) : But(w[i - 1], w[i], items[i].name)
  <2>1. ASSUME NEW i \in 1 .. Len(items) PROVE But(w[i - 1], w[i], items[i].name)
    <3>1. i - 1 \in 0 .. Len(items)
      BY <1>5
    <3>2. w[i - 1] \in Sound(FALSE) /\ items[i] \in Heads /\ w[i] = JsonStep(w[i - 1], items[i])
      BY <1>5, <1>6, <3>1
    <3>. QED
      BY <3>2, ButItem
  <2>. QED
    BY <2>1
<1>8. ASSUME NEW n \in Names, AllSolid(e, n) PROVE Shows(w[m], n, ViewsOf(Called(e, n)))
  <2>1. n \notin Special
    BY EventAssumption
  <2>2. Shows(w[0], n, <<>>)
    BY <1>6, EmptyShows
  <2>3. ASSUME NEW i \in 1 .. m
        PROVE  IF hs[i].name = n THEN w[i] = Added(w[i - 1], hs[i])
               ELSE But(w[i - 1], w[i], hs[i].name)
    <3>1. i \in 1 .. Len(items) /\ items[i] = hs[i]
      BY <1>1, <1>5 DEF m
    <3>2. ASSUME hs[i].name = n PROVE w[i] = Added(w[i - 1], hs[i])
      <4>1. n # Body /\ n # EventName
        BY <2>1 DEF Special
      <4>2. Renamed(w[i - 1], hs[i].name) = w[i - 1]
        BY <3>2, <4>1 DEF Renamed
      <4>. QED
        BY <1>6, <3>1, <3>2, <4>1, <4>2 DEF JsonStep
    <3>3. But(w[i - 1], w[i], hs[i].name)
      BY <1>7, <3>1
    <3>. QED
      BY <3>2, <3>3
  <2>4. \A i \in 0 .. m : w[i] \in Sound(FALSE)
    <3>1. \A i \in 0 .. m : i \in 0 .. Len(items)
      BY <1>5
    <3>. QED
      BY <1>6, <3>1, Zenon
  <2>5. hs = HeadersOf(e)
    OBVIOUS
  <2>6. FALSE \in BOOLEAN /\ (FALSE => u)
    OBVIOUS
  <2>. HIDE DEF hs
  <2>. QED
    BY <1>8, <2>2, <2>3, <2>4, <2>5, <2>6, CopiedShows DEF m
<1>9. CASE e.body = NoText
  <2>1. f = w[m] /\ Len(items) = m
    BY <1>2, <1>3, <1>9 DEF m
  <2>2. ASSUME Called(e, Body) = <<>> PROVE f.body = e.body
    <3>1. \A i \in 1 .. m : hs[i].name # Body
      BY <2>2, CalledNone DEF m
    <3>2. \A i \in 1 .. m : hs[i].name # Body /\ But(w[i - 1], w[i], hs[i].name)
      BY <1>1, <1>7, <2>1, <3>1 DEF m
    <3>. HIDE DEF hs
    <3>3. w[m].body = w[0].body
      BY <1>5, <3>2, BodyStays
    <3>4. Empty.body = NoText
      BY DEF Empty
    <3>. QED
      BY <1>6, <1>9, <2>1, <3>3, <3>4
  <2>. QED
    BY <1>4, <1>8, <2>1, <2>2 DEF Agrees
<1>10. CASE e.body # NoText
  <2>. DEFINE h == items[m + 2]
  <2>1. Len(items) = m + 2 /\ items[m + 1].name = Length /\ h.name = Body /\ h.array = <<>> /\ h.value = e.body
    BY <1>2, <1>10 DEF m
  <2>2. m + 1 \in 1 .. Len(items) /\ m + 2 \in 1 .. Len(items) /\ (m + 1) - 1 = m /\ (m + 2) - 1 = m + 1
        /\ m + 1 \in 0 .. Len(items)
    BY <1>5, <2>1
  <2>3. But(w[m], w[m + 1], Length) /\ But(w[m + 1], w[m + 2], Body) /\ f = w[m + 2]
    BY <1>3, <1>7, <2>1, <2>2
  <2>4. ASSUME NEW n \in Names, AllSolid(e, n) PROVE Shows(f, n, ViewsOf(Called(e, n)))
    <3>1. n # Length /\ n # Body
      BY EventAssumption DEF Special
    <3>2. Shows(w[m], n, ViewsOf(Called(e, n)))
      BY <1>8, <2>4
    <3>. QED
      BY <2>3, <3>1, <3>2 DEF But
  <2>5. f.body = e.body
    <3>1. w[m + 2] = JsonStep(w[m + 1], h) /\ w[m + 1] \in Sound(FALSE)
      BY <1>6, <2>2
    <3>2. f = set_body(w[m + 1], e.body)
      BY <2>1, <2>3, <3>1 DEF JsonStep
    <3>3. e.body \in Text \cup {NoText}
      BY EvFields DEF Sound
    <3>. DEFINE g == w[m + 1]
                b == e.body
    <3>4. g \in Sound(FALSE) /\ b \in Text \cup {NoText} /\ f = set_body(g, b)
      BY <3>1, <3>2, <3>3
    <3>. HIDE DEF g, b
    <3>5. f.body = b
      BY <3>4, ButBody
    <3>. QED
      BY <3>5 DEF b
  <2>. QED
    BY <1>4, <2>4, <2>5 DEF Agrees
<1>. QED
  BY <1>9, <1>10

LEMMA ThreadedCopies == Threaded => CopiesAgree
<1>. SUFFICES ASSUME Threaded,
                     NEW f \in {dup(event), create_json(serialize_json(event))}
              PROVE  /\ Called(event, Body) = <<>> => f.body = event.body
                     /\ \A n \in Names :
                          AllSolid(event, n) =>
                            /\ ValuesOf(Called(f, n)) = ValuesOf(Called(event, n))
                            /\ ArraysOf(Called(f, n)) = ArraysOf(Called(event, n))
  BY Zenon DEF CopiesAgree
<1>. DEFINE u == event.uniq
<1>1. event \in Sound(u)
  BY DEF Threaded
<1>2. PICK v : f \in Sound(v) /\ Agrees(event, f)
  <2>1. CASE f = dup(event)
    BY <1>1, <2>1, CopyAgrees
  <2>2. CASE f = create_json(serialize_json(event))
    BY <1>1, <2>2, JsonAgrees
  <2>. QED
    BY <2>1, <2>2
<1>. HIDE DEF u
<1>3. ASSUME NEW n \in Names, AllSolid(event, n)
      PROVE  /\ ValuesOf(Called(f, n)) = ValuesOf(Called(event, n))
             /\ ArraysOf(Called(f, n)) = ArraysOf(Called(event, n))
  <2>1. Shows(f, n, ViewsOf(Called(event, n)))
    BY <1>2, <1>3 DEF Agrees
  <2>. QED
    BY <1>1, <1>2, <2>1, ShownAlike
<1>. QED
  BY <1>2, <1>3 DEF Agrees

\* After any calls, a copy of the event and one read from its JSON text have,
\* under each name all of whose headers are solid, the same headers in the same
\* order, as values and as arrays, and the same body if no header bears its
\* name (esl_event.c:713-766, 890-975).
THEOREM CopiesStayAgreed == Spec => []CopiesAgree
<1>1. Init => Threaded
  BY InitThreaded
<1>2. Threaded /\ [Next]_vars => Threaded'
  BY NextThreaded
<1>3. Threaded => CopiesAgree
  BY ThreadedCopies
<1>. QED
  BY <1>1, <1>2, <1>3, PTL DEF Spec

-----------------------------------------------------------------------------
(* The pieces of an array's text are its elements.                         *)

\* A token more in the last piece.
LEMMA CutGrows ==
  ASSUME NEW ps \in Seq(Seq(Token)), NEW q \in Seq(Token), NEW k \in Token, k # SEP
  PROVE  CutOn(Append(ps, q), k) = Append(ps, Append(q, k))
<1>. DEFINE m == Len(ps)
            r == Append(ps, q)
            z == Append(q, k)
            a == [r EXCEPT ![m + 1] = z]
            b == Append(ps, z)
<1>1. /\ m \in Nat /\ r \in Seq(Seq(Token)) /\ Len(r) = m + 1 /\ r[m + 1] = q
      /\ \A i \in 1 .. m : r[i] = ps[i]
  OBVIOUS
<1>2. z \in Seq(Token)
  OBVIOUS
<1>3. CutOn(r, k) = [r EXCEPT ![Len(r)] = Append(r[Len(r)], k)]
  BY DEF CutOn
<1>. HIDE DEF r
<1>4. CutOn(r, k) = a
  BY <1>1, <1>3
<1>. HIDE DEF z
<1>5. b \in Seq(Seq(Token)) /\ Len(b) = m + 1 /\ b[m + 1] = z /\ \A i \in 1 .. m : b[i] = ps[i]
  BY <1>1, <1>2
<1>6. a \in [1 .. m + 1 -> Seq(Token)] /\ \A i \in 1 .. m + 1 : a[i] = IF i = m + 1 THEN z ELSE r[i]
  <2>1. r \in [1 .. m + 1 -> Seq(Token)]
    BY <1>1
  <2>. QED
    BY <1>1, <1>2, <2>1
<1>. HIDE DEF a, b
<1>7. a \in Seq(Seq(Token)) /\ Len(a) = m + 1
  BY <1>1, <1>6, ListOf
<1>8. ASSUME NEW i \in 1 .. m + 1 PROVE a[i] = b[i]
  <2>1. CASE i = m + 1
    BY <1>5, <1>6, <2>1
  <2>2. CASE i # m + 1
    <3>1. i \in 1 .. m
      BY <1>1, <2>2
    <3>. QED
      BY <1>1, <1>5, <1>6, <2>2, <3>1
  <2>. QED
    BY <2>1, <2>2
<1>9. a = b
  <2>1. \A i \in 1 .. Len(a) : a[i] = b[i]
    BY <1>7, <1>8
  <2>. QED
    BY <1>5, <1>7, <2>1, SeqEqual
<1>. QED
  BY <1>4, <1>9 DEF r, b, z

\* Behind the first m tokens of z comes p.
Follows(z, m, p) == Len(z) = m + Len(p) /\ \A j \in 1 .. Len(p) : z[m + j] = p[j]

\* Behind a "|:", a text without any is one piece more.
LEMMA PieceCut ==
  ASSUME NEW z \in Seq(Token), NEW h, CutSteps(z, h), NEW m \in Nat, NEW p \in Seq(Token),
         Follows(z, m, p), SEP \notin ToSet(p), NEW ps \in Seq(Seq(Token)), h[m] = Append(ps, <<>>)
  PROVE  h[Len(z)] = Append(ps, p)
<1>. DEFINE n == Len(p)
            P(j) == [k \in 1 .. j |-> p[k]]
            T == {j \in Nat : j <= n => h[m + j] = Append(ps, P(j))}
<1>1. n \in Nat /\ \A j \in 1 .. n : p[j] \in Token /\ p[j] # SEP
  BY DEF ToSet
<1>2. ASSUME NEW j \in 0 .. n PROVE P(j) \in Seq(Token) /\ Len(P(j)) = j
  <2>1. j \in Nat /\ P(j) \in [1 .. j -> Token]
    BY <1>1
  <2>. HIDE DEF P
  <2>. QED
    BY <2>1, ListOf
<1>3. ASSUME NEW j \in Nat, j + 1 \in 1 .. n PROVE P(j + 1) = Append(P(j), p[j + 1])
  <2>1. j \in 0 .. n /\ j + 1 \in 0 .. n
    BY <1>1, <1>3
  <2>2. P(j) \in Seq(Token) /\ Len(P(j)) = j /\ \A k \in 1 .. j : P(j)[k] = p[k]
    BY <1>2, <2>1
  <2>3. P(j + 1) \in Seq(Token) /\ Len(P(j + 1)) = j + 1 /\ \A k \in 1 .. j + 1 : P(j + 1)[k] = p[k]
    BY <1>2, <2>1
  <2>. HIDE DEF P
  <2>. DEFINE a == P(j + 1)
              b == Append(P(j), p[j + 1])
  <2>4. p[j + 1] \in Token
    BY <1>1, <1>3
  <2>5. b \in Seq(Token) /\ Len(b) = j + 1 /\ b[j + 1] = p[j + 1] /\ \A k \in 1 .. j : b[k] = p[k]
    BY <2>2, <2>4
  <2>6. a \in Seq(Token) /\ Len(a) = j + 1 /\ \A k \in 1 .. j + 1 : a[k] = p[k]
    BY <2>3
  <2>. HIDE DEF a, b
  <2>7. \A k \in 1 .. Len(a) : a[k] = b[k]
    <3>1. \A k \in 1 .. j + 1 : k = j + 1 \/ k \in 1 .. j
      OBVIOUS
    <3>. QED
      BY <2>5, <2>6, <3>1
  <2>8. a = b
    BY <2>5, <2>6, <2>7, SeqEqual
  <2>. QED
    BY <2>8 DEF a, b
<1>4. P(n) = p /\ P(0) = <<>>
  BY <1>1
<1>5. \A i \in 1 .. Len(z) : h[i] = CutOn(h[i - 1], z[i])
  BY DEF CutSteps
<1>. HIDE DEF P, n
<1>6. 0 \in T
  BY <1>4
<1>7. ASSUME NEW j \in T, j < n PROVE j + 1 \in T
  <2>1. j \in Nat /\ j + 1 \in 1 .. n /\ j \in 0 .. n /\ j + 1 \in Nat /\ h[m + j] = Append(ps, P(j))
    BY <1>1, <1>7
  <2>2. m + (j + 1) \in 1 .. Len(z) /\ (m + (j + 1)) - 1 = m + j
    BY <1>1, <2>1 DEF n, Follows
  <2>3. z[m + (j + 1)] = p[j + 1] /\ p[j + 1] \in Token /\ p[j + 1] # SEP
    BY <1>1, <2>1 DEF n, Follows
  <2>4. h[m + (j + 1)] = CutOn(Append(ps, P(j)), p[j + 1])
    BY <1>5, <2>1, <2>2, <2>3
  <2>5. P(j) \in Seq(Token) /\ P(j + 1) = Append(P(j), p[j + 1])
    BY <1>2, <1>3, <2>1
  <2>6. h[m + (j + 1)] = Append(ps, P(j + 1))
    BY <2>3, <2>4, <2>5, CutGrows
  <2>. QED
    BY <2>1, <2>6
<1>8. h[m + n] = Append(ps, P(n))
  <2>1. T \in SUBSET Nat
    OBVIOUS
  <2>2. 0 .. n \subseteq T
    <3>. HIDE DEF T
    <3>. QED
      BY <1>1, <1>6, <1>7, <2>1, UpTo
  <2>3. n \in 0 .. n
    BY <1>1
  <2>4. n \in T
    BY <2>2, <2>3, Zenon
  <2>. QED
    BY <1>1, <2>4
<1>. QED
  BY <1>4, <1>8 DEF n, Follows

LEMMA OnePiece ==
  ASSUME NEW p \in Seq(Token), SEP \notin ToSet(p)
  PROVE  PiecesOf(p) = <<p>>
<1>1. PICK h : CutSteps(p, h) /\ PiecesOf(p) = h[Len(p)]
  BY TokenSteps
<1>. DEFINE ps == <<>>
            m == 0
<1>2. m \in Nat /\ Follows(p, m, p)
  BY DEF Follows
<1>3. ps \in Seq(Seq(Token)) /\ h[m] = Append(ps, <<>>)
  BY <1>1 DEF CutSteps
<1>4. Append(ps, p) = <<p>>
  OBVIOUS
<1>. HIDE DEF ps, m
<1>5. h[Len(p)] = Append(ps, p)
  BY <1>1, <1>2, <1>3, PieceCut
<1>. QED
  BY <1>1, <1>4, <1>5

LEMMA PieceMore ==
  ASSUME NEW t \in Seq(Token), NEW p \in Seq(Token), SEP \notin ToSet(p)
  PROVE  PiecesOf(t \o <<SEP>> \o p) = Append(PiecesOf(t), p)
<1>. DEFINE q == t \o <<SEP>>
            z == q \o p
            n == Len(t)
            ps == PiecesOf(t)
<1>1. n \in Nat /\ Len(p) \in Nat /\ SEP \in Token
  BY DEF Token
<1>2. q \in Seq(Token) /\ Len(q) = n + 1 /\ q[n + 1] = SEP /\ \A i \in 1 .. n : q[i] = t[i]
  BY <1>1
<1>. HIDE DEF q
<1>3. /\ z \in Seq(Token) /\ Len(z) = (n + 1) + Len(p)
      /\ \A i \in 1 .. n + 1 : z[i] = q[i]
      /\ \A i \in 1 .. Len(p) : z[(n + 1) + i] = p[i]
  <2>1. \A i \in 1 .. Len(p) : (n + 1) + i \in 1 .. Len(q) + Len(p) /\ (n + 1) + i - Len(q) = i /\ (n + 1) + i > Len(q)
    BY <1>1, <1>2
  <2>2. /\ z \in Seq(Token) /\ Len(z) = Len(q) + Len(p)
        /\ \A i \in 1 .. Len(q) + Len(p) : z[i] = IF i <= Len(q) THEN q[i] ELSE p[i - Len(q)]
    BY <1>1, <1>2, ConcatProperties
  <2>3. \A i \in 1 .. n + 1 : z[i] = q[i]
    BY <1>1, <1>2, <2>2
  <2>4. \A i \in 1 .. Len(p) : z[(n + 1) + i] = p[i]
    BY <1>1, <1>2, <2>1, <2>2
  <2>. QED
    BY <1>1, <1>2, <2>2, <2>3, <2>4
<1>. HIDE DEF z, ps
<1>4. PICK h : CutSteps(z, h) /\ PiecesOf(z) = h[Len(z)]
  BY <1>3, TokenSteps
<1>5. PICK g : CutSteps(t, g) /\ ps = g[n]
  BY TokenSteps DEF ps
<1>. HIDE DEF n
<1>6. /\ h[0] = << <<>> >> /\ \A i \in 1 .. Len(z) : h[i] = CutOn(h[i - 1], z[i])
      /\ g[0] = << <<>> >> /\ \A i \in 1 .. n : g[i] = CutOn(g[i - 1], t[i])
      /\ g[n] \in Pieces
  <2>1. n \in 0 .. n
    BY <1>1
  <2>. QED
    BY <1>4, <1>5, <2>1 DEF CutSteps, n
<1>. DEFINE T == {i \in Nat : i <= n => h[i] = g[i]}
<1>7. 0 \in T
  BY <1>6
<1>8. ASSUME NEW i \in T, i < n PROVE i + 1 \in T
  <2>1. i \in Nat /\ i + 1 \in 1 .. n /\ (i + 1) - 1 = i /\ i + 1 \in Nat /\ i + 1 \in 1 .. Len(z)
        /\ i + 1 \in 1 .. n + 1 /\ h[i] = g[i]
    BY <1>1, <1>3, <1>8
  <2>2. z[i + 1] = t[i + 1]
    BY <1>2, <1>3, <2>1
  <2>3. h[i + 1] = CutOn(h[i], z[i + 1]) /\ g[i + 1] = CutOn(g[i], t[i + 1])
    BY <1>6, <2>1
  <2>. QED
    BY <2>1, <2>2, <2>3
<1>9. h[n] = ps
  <2>1. T \in SUBSET Nat
    OBVIOUS
  <2>2. 0 .. n \subseteq T
    <3>. HIDE DEF T
    <3>. QED
      BY <1>1, <1>7, <1>8, <2>1, UpTo
  <2>. QED
    BY <1>1, <1>5, <2>2
<1>10. h[n + 1] = Append(ps, <<>>)
  <2>1. n + 1 \in 1 .. Len(z) /\ (n + 1) - 1 = n /\ n + 1 \in 1 .. n + 1
    BY <1>1, <1>3
  <2>2. z[n + 1] = SEP
    BY <1>2, <1>3, <2>1
  <2>3. h[n + 1] = CutOn(h[n], z[n + 1])
    BY <1>6, <2>1
  <2>. QED
    BY <1>9, <2>2, <2>3 DEF CutOn
<1>11. ps \in Seq(Seq(Token)) /\ n + 1 \in Nat
  BY <1>1, <1>5, <1>6 DEF Pieces
<1>12. h[Len(z)] = Append(ps, p)
  <2>. DEFINE m == n + 1
  <2>1. m \in Nat /\ Follows(z, m, p) /\ h[m] = Append(ps, <<>>)
    BY <1>3, <1>10, <1>11 DEF Follows
  <2>. HIDE DEF m
  <2>. QED
    BY <1>3, <1>4, <1>11, <2>1, PieceCut
<1>. QED
  BY <1>4, <1>12 DEF z, q, ps

\* Texts without marks between elements.
Apart(a) == \A i \in DOMAIN a : SEP \notin ToSet(a[i])

LEMMA PiecesBack ==
  ASSUME NEW a \in Seq(Text), Len(a) >= 2, Apart(a)
  PROVE  /\ Render(a) \in Text /\ Render(a) # <<>> /\ Render(a)[1] = ARR
         /\ Tail(Render(a)) # <<>> /\ PiecesOf(Tail(Render(a))) = a
<1>. DEFINE m == Len(a)
            P(i) == [j \in 1 .. i |-> a[j]]
<1>1. PICK r : JoinSteps(a, r) /\ Render(a) = <<ARR>> \o r[m]
  BY RenderSteps
<1>2. m \in Nat /\ m >= 2 /\ \A i \in 1 .. m : a[i] \in Text /\ a[i] \in Seq(Token) /\ SEP \notin ToSet(a[i])
  <2>1. DOMAIN a = 1 .. m
    OBVIOUS
  <2>2. \A i \in 1 .. m : SEP \notin ToSet(a[i])
    BY <2>1 DEF Apart
  <2>3. m \in Nat /\ m >= 2 /\ \A i \in 1 .. m : a[i] \in Text
    OBVIOUS
  <2>4. \A t \in Text : t \in Seq(Token)
    BY DEF Text
  <2>. QED
    BY <2>2, <2>3, <2>4
<1>3. /\ r[1] = a[1] /\ \A i \in 2 .. m : r[i] = r[i - 1] \o <<SEP>> \o a[i]
      /\ \A i \in 1 .. m : r[i] \in Seq(Token)
  BY <1>1 DEF JoinSteps, Loose
<1>4. ASSUME NEW i \in 1 .. m PROVE P(i) \in Seq(Text) /\ Len(P(i)) = i
  <2>1. i \in Nat /\ P(i) \in [1 .. i -> Text]
    BY <1>2
  <2>. HIDE DEF P
  <2>. QED
    BY <2>1, ListOf
<1>5. ASSUME NEW i \in Nat, i + 1 \in 1 .. m, i \in 1 .. m PROVE P(i + 1) = Append(P(i), a[i + 1])
  <2>1. P(i) \in Seq(Text) /\ Len(P(i)) = i /\ \A j \in 1 .. i : P(i)[j] = a[j]
    BY <1>4, <1>5
  <2>. DEFINE b == P(i + 1)
              c == Append(P(i), a[i + 1])
  <2>2. b \in Seq(Text) /\ Len(b) = i + 1 /\ \A j \in 1 .. i + 1 : b[j] = a[j]
    BY <1>4, <1>5
  <2>. HIDE DEF P, b
  <2>3. a[i + 1] \in Text
    BY <1>2, <1>5
  <2>4. c \in Seq(Text) /\ Len(c) = i + 1 /\ c[i + 1] = a[i + 1] /\ \A j \in 1 .. i : c[j] = a[j]
    BY <2>1, <2>3
  <2>. HIDE DEF c
  <2>5. \A j \in 1 .. Len(b) : b[j] = c[j]
    <3>1. \A j \in 1 .. i + 1 : j = i + 1 \/ j \in 1 .. i
      OBVIOUS
    <3>. QED
      BY <2>2, <2>4, <3>1
  <2>6. b = c
    BY <2>2, <2>4, <2>5, SeqEqual
  <2>. QED
    BY <2>6 DEF b, c
<1>6. P(m) = a /\ P(1) = <<a[1]>>
  BY <1>2
<1>. HIDE DEF P, m
<1>. DEFINE T == {i \in Nat : 1 <= i /\ i <= m => PiecesOf(r[i]) = P(i)}
<1>7. 0 \in T
  OBVIOUS
<1>8. ASSUME NEW i \in T, i < m PROVE i + 1 \in T
  <2>1. i \in Nat /\ i + 1 \in 1 .. m /\ (i + 1) - 1 = i /\ i + 1 \in Nat
    BY <1>2, <1>8
  <2>2. CASE i = 0
    <3>. DEFINE p == a[1]
    <3>1. p \in Seq(Token) /\ SEP \notin ToSet(p) /\ r[1] = p
      BY <1>2, <1>3, <2>1, <2>2
    <3>. HIDE DEF p
    <3>2. PiecesOf(r[1]) = <<p>>
      BY <3>1, OnePiece
    <3>. QED
      BY <1>6, <2>1, <2>2, <3>2 DEF p
  <2>3. CASE i # 0
    <3>. DEFINE t == r[i]
                p == a[i + 1]
    <3>1. i \in 1 .. m /\ i + 1 \in 2 .. m /\ PiecesOf(t) = P(i)
      BY <1>2, <2>1, <2>3
    <3>2. t \in Seq(Token) /\ p \in Seq(Token) /\ SEP \notin ToSet(p)
      BY <1>2, <1>3, <2>1, <3>1
    <3>3. r[i + 1] = t \o <<SEP>> \o p
      BY <1>3, <2>1, <3>1
    <3>. HIDE DEF t, p
    <3>4. PiecesOf(t \o <<SEP>> \o p) = Append(PiecesOf(t), p)
      BY <3>2, PieceMore
    <3>5. P(i + 1) = Append(P(i), p)
      BY <1>5, <2>1, <3>1 DEF p
    <3>6. PiecesOf(r[i + 1]) = P(i + 1)
      BY <3>1, <3>3, <3>4, <3>5
    <3>. QED
      BY <2>1, <3>6
  <2>. QED
    BY <2>2, <2>3
<1>9. PiecesOf(r[m]) = a
  <2>1. T \in SUBSET Nat
    OBVIOUS
  <2>2. 0 .. m \subseteq T
    <3>. HIDE DEF T
    <3>. QED
      BY <1>2, <1>7, <1>8, <2>1, UpTo
  <2>3. m \in 0 .. m
    BY <1>2
  <2>4. m \in T
    BY <2>2, <2>3, Zenon
  <2>. QED
    BY <1>2, <1>6, <2>4
<1>10. r[m] # <<>>
  <2>. SUFFICES ASSUME r[m] = <<>> PROVE FALSE
    OBVIOUS
  <2>1. <<>> \in Seq(Token) /\ ToSet(<<>>) = {}
    BY DEF ToSet
  <2>2. PiecesOf(<<>>) = << <<>> >>
    BY <2>1, OnePiece
  <2>3. Len(<< <<>> >>) = 1
    OBVIOUS
  <2>. QED
    BY <1>2, <1>9, <2>2, <2>3 DEF m
<1>. DEFINE t == r[m]
<1>11. t \in Seq(Token) /\ ARR \in Token
  <2>1. m \in 1 .. m
    BY <1>2
  <2>. QED
    BY <1>3, <2>1 DEF Token
<1>. HIDE DEF t
<1>12. Tail(<<ARR>> \o t) = t /\ <<ARR>> \o t # <<>> /\ (<<ARR>> \o t)[1] = ARR
  BY <1>11
<1>13. a # <<>>
  BY <1>2 DEF m
<1>. QED
  BY <1>1, <1>9, <1>10, <1>12, <1>13, RenderText DEF t, m

-----------------------------------------------------------------------------
(* An event read from its text.                                            *)

LEMMA UnmarkedSame ==
  ASSUME NEW t \in Text, t # <<>>, ARR \notin ToSet(t)
  PROVE  Unmarked(t) = t
<1>. DEFINE F == {i \in DOMAIN t : t[i] # ARR}
            n == Len(t)
<1>1. t \in Seq(Token) /\ n \in Nat /\ DOMAIN t = 1 .. n /\ 1 \in 1 .. n
  BY DEF Text
<1>2. F = 1 .. n
  BY <1>1 DEF ToSet
<1>3. Min(1 .. n) = 1
  <2>1. 1 .. n \in SUBSET (0 .. n) /\ 1 .. n # {}
    BY <1>1
  <2>2. Min(1 .. n) \in 1 .. n /\ \A y \in 1 .. n : Min(1 .. n) <= y
    BY <1>1, <2>1, Extremes
  <2>. QED
    BY <1>1, <2>2
<1>4. Unmarked(t) = SubSeq(t, Min(F), n)
  <2>1. F # {}
    BY <1>1, <1>2
  <2>. QED
    BY <2>1 DEF Unmarked
<1>5. SubSeq(t, 1, n) = t
  BY <1>1
<1>. QED
  BY <1>2, <1>3, <1>4, <1>5

\* An element more, once there is a header.
LEMMA PiecePushed ==
  ASSUME NEW e, NEW n \in AnyName \ {Body}, NEW p, get_header_ptr(e, n) # NULL
  PROVE  Piece(e, n, p) = base_add_header(e, PUSH, n, p)
<1>1. Stacking(PUSH) /\ ~ OnTop(PUSH)
  BY DEF Stacking, OnTop, BOTTOM, TOP, PUSH, UNSHIFT
<1>. QED
  BY <1>1 DEF Piece, base_add_header

LEMMA FirstPiece ==
  ASSUME NEW u, NEW e \in Sound(u), NEW n \in AnyName \ {Body}, NEW p \in Text, p # <<>>,
         ARR \notin ToSet(p), Shows(e, n, <<>>)
  PROVE  Shows(Piece(e, n, p), n, <<Arrayed(<<p>>)>>)
<1>1. get_header_ptr(e, n) = NULL
  BY NoneFound
<1>2. Unmarked(p) = p
  BY UnmarkedSame
<1>. DEFINE f == FreshHeader(e, PUSH, n, p)
<1>3. Piece(e, n, p) = f
  BY <1>1, <1>2 DEF Piece
<1>4. f = FreshHeader(e, PUSH, n, p) /\ PUSH \in {BOTTOM, PUSH}
  OBVIOUS
<1>. HIDE DEF f
<1>5. ShowsMore(e, f, n, Newly(PUSH, p))
  BY <1>4, FreshShows
<1>6. Shows(f, n, Append(<<>>, Newly(PUSH, p)))
  BY <1>5 DEF ShowsMore
<1>7. Newly(PUSH, p) = Arrayed(<<p>>)
  BY RenderOne DEF Newly, Arrayed
<1>8. Append(<<>>, Newly(PUSH, p)) = <<Arrayed(<<p>>)>>
  BY <1>7
<1>. QED
  BY <1>3, <1>6, <1>8

\* The text of an array is read as the array it was made of.
LEMMA ArrayRead ==
  ASSUME NEW u, NEW e \in Sound(u), NEW n \in AnyName \ {Body},
         NEW a \in Seq(Text), Len(a) >= 2, Apart(a), a[1] # <<>>, ARR \notin ToSet(a[1]),
         Shows(e, n, <<>>)
  PROVE  Shows(add_array(e, n, Render(a)), n, <<Arrayed(a)>>)
<1>. DEFINE m == Len(a)
            d == Render(a)
            P(i) == [j \in 1 .. i |-> a[j]]
<1>1. d \in Text /\ d # <<>> /\ d[1] = ARR /\ Tail(d) # <<>> /\ a = PiecesOf(Tail(d))
  BY PiecesBack
<1>. HIDE DEF d
<1>2. PICK w : PieceSteps(u, e, n, a, w) /\ add_array(e, n, d) = w[m]
  BY <1>1, ArraySteps
<1>3. m \in Nat /\ m >= 2 /\ \A i \in 1 .. m : a[i] \in Text
  OBVIOUS
<1>4. /\ w[0] = e /\ \A i \in 1 .. m : w[i] = Piece(w[i - 1], n, a[i])
      /\ \A i \in 0 .. m : w[i] \in Sound(u)
  BY <1>2 DEF PieceSteps
<1>5. ASSUME NEW i \in 1 .. m PROVE P(i) \in Seq(Text) /\ Len(P(i)) = i
  <2>1. P(i) \in [1 .. i -> Text] /\ i \in Nat
    BY <1>3
  <2>. HIDE DEF P
  <2>. QED
    BY <2>1, ListOf
<1>6. ASSUME NEW i \in Nat, i + 1 \in 1 .. m, i \in 1 .. m PROVE P(i + 1) = Append(P(i), a[i + 1])
  <2>1. P(i) \in Seq(Text) /\ Len(P(i)) = i /\ \A j \in 1 .. i : P(i)[j] = a[j]
    BY <1>5, <1>6
  <2>2. DOMAIN P(i + 1) = 1 .. i + 1 /\ \A j \in 1 .. i + 1 : P(i + 1)[j] = a[j]
    OBVIOUS
  <2>3. P(i + 1) \in Seq(Text)
    BY <1>5, <1>6
  <2>. HIDE DEF P
  <2>4. a[i + 1] \in Text
    BY <1>3, <1>6
  <2>. QED
    BY <2>1, <2>2, <2>3, <2>4
<1>7. P(m) = a /\ P(1) = <<a[1]>>
  BY <1>3
<1>. HIDE DEF m, P
<1>. DEFINE T == {i \in Nat : 1 <= i /\ i <= m => Shows(w[i], n, <<Arrayed(P(i))>>)}
<1>8. 0 \in T
  OBVIOUS
<1>9. ASSUME NEW i \in T, i < m PROVE i + 1 \in T
  <2>1. i \in Nat /\ i + 1 \in 1 .. m /\ i \in 0 .. m /\ (i + 1) - 1 = i /\ i + 1 \in Nat
    BY <1>3, <1>9
  <2>2. w[i] \in Sound(u) /\ w[i + 1] = Piece(w[i], n, a[i + 1]) /\ a[i + 1] \in Text
    BY <1>3, <1>4, <2>1
  <2>3. CASE i = 0
    <3>. DEFINE p == a[1]
    <3>1. w[1] = Piece(e, n, p) /\ p \in Text /\ p # <<>> /\ ARR \notin ToSet(p)
      BY <1>4, <2>2, <2>3
    <3>. HIDE DEF p
    <3>2. Shows(w[1], n, <<Arrayed(<<p>>)>>)
      BY <3>1, FirstPiece
    <3>. QED
      BY <1>7, <2>3, <3>2 DEF p
  <2>4. CASE i # 0
    <3>. DEFINE b == P(i)
                v == Arrayed(b)
                c == P(i + 1)
    <3>1. i \in 1 .. m /\ Shows(w[i], n, <<v>>)
      BY <2>1, <2>4
    <3>2. b \in Seq(Text) /\ b # <<>> /\ c = Append(b, a[i + 1])
      <4>1. b \in Seq(Text) /\ Len(b) = i /\ i > 0
        BY <1>5, <2>1, <2>4, <3>1
      <4>2. c = Append(b, a[i + 1])
        BY <1>6, <2>1, <3>1
      <4>. HIDE DEF b
      <4>. QED
        BY <4>1, <4>2
    <3>. HIDE DEF b, c
    <3>3. v.array = b
      BY DEF Arrayed
    <3>4. v \in Views
      BY <3>2, RenderText DEF Views, Arrayed
    <3>. HIDE DEF v
    <3>5. c = Append(v.array, a[i + 1]) /\ v.array # <<>>
      BY <3>2, <3>3
    <3>6. get_header_ptr(w[i], n) # NULL
      <4>1. ASSUME get_header_ptr(w[i], n) = NULL PROVE FALSE
        <5>1. Shows(w[i], n, <<>>)
          BY <2>2, <4>1, NoneFound
        <5>2. <<v>> = <<>>
          BY <3>1, <5>1, ShownOnce
        <5>. QED
          BY <5>2
      <4>. QED
        BY <4>1
    <3>7. w[i + 1] = base_add_header(w[i], PUSH, n, a[i + 1])
      BY <2>2, <3>6, PiecePushed
    <3>8. Shows(w[i + 1], n, <<Arrayed(c)>>)
      BY <2>2, <3>1, <3>4, <3>5, <3>7, PushedShows
    <3>. QED
      BY <2>1, <3>8 DEF c
  <2>. QED
    BY <2>3, <2>4
<1>10. Shows(w[m], n, <<Arrayed(P(m))>>)
  <2>1. T \in SUBSET Nat
    OBVIOUS
  <2>2. 0 .. m \subseteq T
    <3>. HIDE DEF T
    <3>. QED
      BY <1>3, <1>8, <1>9, <2>1, UpTo
  <2>3. m \in 0 .. m
    BY <1>3
  <2>4. m \in T
    BY <2>2, <2>3, Zenon
  <2>. QED
    BY <1>3, <2>4
<1>. QED
  BY <1>2, <1>7, <1>10 DEF d

LEMMA SingleHead ==
  ASSUME NEW S, NEW a \in Seq(S), Len(a) <= 1, a # <<>>
  PROVE  Len(a) = 1 /\ Head(a) = a[1]
<1>1. Len(a) \in Nat /\ Len(a) # 0
  OBVIOUS
<1>2. Len(a) = 1
  BY <1>1
<1>3. Head(a) = a[1]
  BY <1>2
<1>. QED
  BY <1>2, <1>3

\* What a line shows: one value more.
LEMMA LineShows ==
  ASSUME NEW f \in Sound(FALSE), NEW h \in Heads, h.name \in Names, Solid(h), Apart(h.array),
         NEW q, Shows(f, h.name, q), q = <<>> \/ h.array = <<>>
  PROVE  /\ h.value # <<>>
         /\ \E y \in Views : /\ y.value = h.value
                             /\ Shows(ParseStep(f, Line(h.name, h.value)), h.name, Append(q, y))
<1>. DEFINE n == h.name
            d == h.value
            a == h.array
            g == ParseStep(f, Line(n, d))
<1>1. n \in AnyName \ {Body} /\ a \in Seq(Text) /\ d \in Text /\ n # EventName
  BY EventAssumption DEF Heads, Cells, Special
<1>2. g = IF Head(d) = ARR THEN add_array(f, n, d) ELSE base_add_header(f, BOTTOM, n, d)
  BY <1>1 DEF ParseStep, Renamed, Line
<1>3. Shows(f, n, q)
  OBVIOUS
<1>4. CASE Len(a) <= 1
  <2>1. d # <<>> /\ ARR \notin ToSet(d)
    <3>1. CASE a = <<>>
      BY <3>1 DEF Solid
    <3>2. CASE a # <<>>
      <4>1. Len(a) = 1 /\ Head(a) = a[1]
        BY <1>1, <1>4, <3>2, SingleHead
      <4>2. d = a[1]
        BY <3>2, <4>1 DEF Solid, Render
      <4>. QED
        BY <3>2, <4>1, <4>2 DEF Solid
    <3>. QED
      BY <3>1, <3>2
  <2>2. Head(d) # ARR
    <3>1. d \in Seq(Token) /\ Head(d) = d[1] /\ 1 \in DOMAIN d
      BY <1>1, <2>1 DEF Text
    <3>. QED
      BY <2>1, <3>1 DEF ToSet
  <2>. DEFINE y == Newly(BOTTOM, d)
  <2>3. y \in Views /\ y.value = d
    <3>1. <<>> \in Seq(Text)
      OBVIOUS
    <3>. QED
      BY <1>1, <3>1 DEF Newly, Views, BOTTOM, PUSH
  <2>4. BOTTOM \in {BOTTOM, PUSH} /\ (q = <<>> \/ (~ FALSE /\ BOTTOM = BOTTOM))
    OBVIOUS
  <2>. HIDE DEF n, d, g
  <2>5. Shows(base_add_header(f, BOTTOM, n, d), n, Append(q, y))
    BY <1>1, <1>3, <2>1, <2>4, AddedShows
  <2>6. Shows(g, n, Append(q, y))
    BY <1>2, <2>2, <2>5
  <2>. HIDE DEF y
  <2>. QED
    BY <2>1, <2>3, <2>6 DEF n, d, g
<1>5. CASE Len(a) >= 2
  <2>1. a # <<>> /\ Head(a) = a[1]
    BY <1>1, <1>5
  <2>2. d = Render(a) /\ a[1] # <<>> /\ ARR \notin ToSet(a[1]) /\ q = <<>>
    BY <2>1 DEF Solid
  <2>3. d # <<>> /\ d[1] = ARR
    BY <1>1, <1>5, <2>2, PiecesBack
  <2>4. Head(d) = ARR
    BY <1>1, <2>3 DEF Text
  <2>. DEFINE y == Arrayed(a)
  <2>5. y \in Views /\ y.value = d
    BY <1>1, <2>2 DEF Arrayed, Views
  <2>6. Shows(f, n, <<>>) /\ Apart(a)
    BY <2>2
  <2>. HIDE DEF n, d, g, a
  <2>7. Shows(add_array(f, n, Render(a)), n, <<Arrayed(a)>>)
    BY <1>1, <1>5, <2>2, <2>6, ArrayRead
  <2>8. Shows(g, n, Append(q, y))
    <3>1. Append(<<>>, y) = <<y>>
      OBVIOUS
    <3>. QED
      BY <1>2, <2>2, <2>4, <2>7, <3>1
  <2>. HIDE DEF y
  <2>. QED
    BY <2>3, <2>5, <2>8 DEF n, d, g
<1>6. Len(a) \in Nat
  BY <1>1
<1>. QED
  BY <1>4, <1>5, <1>6

LEMMA ButLine ==
  ASSUME NEW f \in Sound(FALSE), NEW l \in Lines
  PROVE  But(f, ParseStep(f, l), l.name)
<1>. DEFINE g == Renamed(f, l.name)
            n == l.name
            d == l.value
<1>1. g \in Sound(FALSE) /\ But(f, g, n)
  BY SoundRenamed, ButRenamed
<1>2. n \in AnyName /\ d \in Text /\ d # <<>> /\ BOTTOM \in {BOTTOM, PUSH}
  BY DEF Lines
<1>3. Head(d) = d[1]
  BY <1>2 DEF Text
<1>4. ParseStep(f, l) = IF Head(d) = ARR THEN add_array(g, n, d) ELSE base_add_header(g, BOTTOM, n, d)
  BY DEF ParseStep
<1>. HIDE DEF g, n, d
<1>5. CASE Head(d) = ARR
  <2>1. But(g, add_array(g, n, d), n)
    BY <1>1, <1>2, <1>3, <1>5, ButArray
  <2>2. But(f, ParseStep(f, l), n)
    BY <1>1, <1>4, <1>5, <2>1, ButThen
  <2>. QED
    BY <2>2 DEF n
<1>6. CASE Head(d) # ARR
  <2>1. But(g, base_add_header(g, BOTTOM, n, d), n)
    BY <1>1, <1>2, ButAdded
  <2>2. But(f, ParseStep(f, l), n)
    BY <1>1, <1>4, <1>6, <2>1, ButThen
  <2>. QED
    BY <2>2 DEF n
<1>. QED
  BY <1>5, <1>6
\* The values of two lists that agree so far.
LEMMA ValuesMore ==
  ASSUME NEW A, NEW p \in Seq(A), NEW B, NEW q \in Seq(B), ValuesOf(q) = ValuesOf(p),
         NEW h \in A, NEW y \in B, y.value = h.value
  PROVE  ValuesOf(Append(q, y)) = ValuesOf(Append(p, h))
<1>. DEFINE m == Len(p)
            r == Append(q, y)
            s == Append(p, h)
<1>1. m \in Nat /\ DOMAIN p = 1 .. m /\ DOMAIN q = 1 .. Len(q) /\ Len(q) \in Nat
  OBVIOUS
<1>2. DOMAIN q = DOMAIN p /\ \A i \in DOMAIN p : q[i].value = p[i].value
  <2>1. DOMAIN ValuesOf(q) = DOMAIN q /\ DOMAIN ValuesOf(p) = DOMAIN p
    BY DEF ValuesOf
  <2>2. \A i \in DOMAIN p : ValuesOf(p)[i] = p[i].value
    BY DEF ValuesOf
  <2>3. \A i \in DOMAIN q : ValuesOf(q)[i] = q[i].value
    BY DEF ValuesOf
  <2>. QED
    BY <2>1, <2>2, <2>3
<1>3. Len(q) = m
  <2>. DEFINE k == Len(q)
  <2>1. k \in Nat /\ m \in Nat /\ 1 .. k = 1 .. m
    BY <1>1, <1>2
  <2>. HIDE DEF k, m
  <2>2. k <= m
    <3>1. k > 0 => k \in 1 .. m
      BY <2>1
    <3>. QED
      BY <2>1, <3>1
  <2>3. m <= k
    <3>1. m > 0 => m \in 1 .. k
      BY <2>1
    <3>. QED
      BY <2>1, <3>1
  <2>. QED
    BY <2>1, <2>2, <2>3 DEF k
<1>4. /\ DOMAIN r = 1 .. m + 1 /\ DOMAIN s = 1 .. m + 1 /\ r[m + 1] = y /\ s[m + 1] = h
      /\ \A i \in 1 .. m : r[i] = q[i] /\ s[i] = p[i]
  BY <1>1, <1>3
<1>. HIDE DEF r, s, m
<1>5. \A i \in 1 .. m + 1 : r[i].value = s[i].value
  <2>1. ASSUME NEW i \in 1 .. m + 1 PROVE r[i].value = s[i].value
    <3>1. CASE i = m + 1
      BY <1>4, <3>1
    <3>2. CASE i # m + 1
      <4>1. i \in 1 .. m
        BY <1>1, <3>2
      <4>. QED
        BY <1>1, <1>2, <1>4, <4>1
    <3>. QED
      BY <3>1, <3>2
  <2>. QED
    BY <2>1
<1>6. ValuesOf(r) = ValuesOf(s)
  BY <1>4, <1>5 DEF ValuesOf
<1>. QED
  BY <1>6 DEF r, s

LEMMA NoValues ==
  ASSUME NEW B, NEW q \in Seq(B), ValuesOf(q) = ValuesOf(<<>>)
  PROVE  q = <<>>
<1>1. DOMAIN ValuesOf(q) = DOMAIN q /\ DOMAIN ValuesOf(<<>>) = {}
  BY DEF ValuesOf
<1>2. 1 .. Len(q) = {} /\ Len(q) \in Nat
  BY <1>1
<1>3. Len(q) = 0
  <2>1. Len(q) > 0 => 1 \in 1 .. Len(q)
    BY <1>2
  <2>. QED
    BY <1>2, <2>1
<1>. QED
  BY <1>3

\* A header that comes after another of its name has no array.
LEMMA LaterPlain ==
  ASSUME NEW u, NEW e \in Sound(u), NEW n, NEW hs, hs = HeadersOf(e),
         NEW c, CalledSteps(hs, n, c), NEW i \in Nat, i + 1 \in 1 .. Len(hs),
         hs[i + 1].name = n, c[i] # <<>>
  PROVE  hs[i + 1].array = <<>>
<1>1. PICK s : Whole(e, s, u)
  BY DEF Sound
<1>. DEFINE m == Len(s)
<1>2. m \in Nat
  BY <1>1, WholeFacts
<1>3. hs = [k \in 1 .. m |-> e.mem[s[k]]] /\ Len(hs) = m
  <2>1. 0 \in 0 .. Len(s)
    BY <1>2
  <2>. QED
    BY <1>1, <2>1, CalledListed
<1>4. \A k, j \in 1 .. m : k < j /\ e.mem[s[k]].name = e.mem[s[j]].name => e.mem[s[j]].array = <<>>
  BY <1>1 DEF Whole, Kept
<1>5. i \in 0 .. m /\ i + 1 \in 1 .. m /\ hs[i + 1] = e.mem[s[i + 1]]
  BY <1>2, <1>3
<1>6. c[i] \in Seq(Heads)
  BY <1>3, <1>5 DEF CalledSteps
<1>. DEFINE q == ViewsOf(c[i])
<1>7. 1 \in 1 .. Len(q)
  <2>1. Len(q) = Len(c[i])
    BY <1>6, ViewsAre
  <2>. QED
    BY <1>6, <2>1
<1>8. PICK w : Listed(e, s, i, n, q, w)
  BY <1>1, <1>5, CalledListed
<1>. HIDE DEF q, m
<1>9. w[1] \in 1 .. i /\ e.mem[s[w[1]]].name = n
  <2>1. w[1] \in 1 .. i
    BY <1>7, <1>8 DEF Listed
  <2>. QED
    BY <1>7, <1>8, <2>1 DEF Listed
<1>10. w[1] \in 1 .. m /\ w[1] < i + 1
  BY <1>2, <1>5, <1>9
<1>. QED
  BY <1>4, <1>5, <1>9, <1>10
\* From it[0], that has no header n, the lines of the headers of e called n are
\* read one by one, and in between nothing called n changes.
LEMMA ParsedShows ==
  ASSUME NEW u, NEW e \in Sound(u), NEW n \in Names, AllSolid(e, n), AllApart(e, n),
         NEW hs, hs = HeadersOf(e), NEW it, \A i \in 0 .. Len(hs) : it[i] \in Sound(FALSE),
         Shows(it[0], n, <<>>),
         \A i \in 1 .. Len(hs) :
           IF hs[i].name = n
           THEN hs[i].value # <<>> => it[i] = ParseStep(it[i - 1], Line(n, hs[i].value))
           ELSE But(it[i - 1], it[i], hs[i].name)
  PROVE  \E q \in Seq(Views) : Shows(it[Len(hs)], n, q) /\ ValuesOf(q) = ValuesOf(Called(e, n))
<1>. DEFINE m == Len(hs)
<1>1. PICK c : CalledSteps(hs, n, c) /\ Called(e, n) = c[m]
  BY CallSteps
<1>2. hs \in Seq(Heads)
  BY HeadersFit
<1>3. m \in Nat
  BY <1>2
<1>4. /\ c[0] = <<>>
      /\ \A i \in 1 .. m : c[i] = IF hs[i].name = n THEN Append(c[i - 1], hs[i]) ELSE c[i - 1]
      /\ \A i \in 0 .. m : c[i] \in Seq(Heads)
  BY <1>1 DEF CalledSteps
<1>5. \A i \in 1 .. m : hs[i] \in Heads /\ (hs[i].name = n => Solid(hs[i]) /\ Apart(hs[i].array))
  <2>1. \A i \in 1 .. m : hs[i] \in Heads /\ hs[i] \in ToSet(hs)
    BY <1>2 DEF ToSet
  <2>2. \A h \in ToSet(hs) : h.name = n => Solid(h)
    BY DEF AllSolid
  <2>3. \A h \in ToSet(hs) : h.name = n => Apart(h.array)
    BY DEF AllApart, Apart
  <2>. HIDE DEF m
  <2>. QED
    BY <2>1, <2>2, <2>3
<1>6. /\ \A i \in 0 .. m : it[i] \in Sound(FALSE)
      /\ \A i \in 1 .. m :
           IF hs[i].name = n
           THEN hs[i].value # <<>> => it[i] = ParseStep(it[i - 1], Line(n, hs[i].value))
           ELSE But(it[i - 1], it[i], hs[i].name)
  OBVIOUS
<1>. DEFINE P(i) == \E q \in Seq(Views) : Shows(it[i], n, q) /\ ValuesOf(q) = ValuesOf(c[i])
            T == {i \in Nat : i <= m => P(i)}
<1>7. 0 \in T
  <2>1. <<>> \in Seq(Views)
    OBVIOUS
  <2>2. P(0)
    BY <1>4, <2>1
  <2>. QED
    BY <2>2
<1>8. ASSUME NEW i \in T, i < m PROVE i + 1 \in T
  <2>1. i \in Nat /\ i + 1 \in 1 .. m /\ i \in 0 .. m /\ (i + 1) - 1 = i /\ i + 1 \in Nat /\ P(i)
    <3>. HIDE DEF P
    <3>. QED
      BY <1>3, <1>8
  <2>2. PICK q \in Seq(Views) : Shows(it[i], n, q) /\ ValuesOf(q) = ValuesOf(c[i])
    BY <2>1
  <2>. DEFINE h == hs[i + 1]
              f == it[i]
              g == it[i + 1]
              p == c[i]
  <2>3. /\ h \in Heads /\ p \in Seq(Heads) /\ f \in Sound(FALSE) /\ Shows(f, n, q)
        /\ c[i + 1] = IF h.name = n THEN Append(p, h) ELSE p
    <3>. HIDE DEF P, T
    <3>. QED
      BY <1>4, <1>5, <1>6, <2>1, <2>2
  <2>4. h.name = n => /\ Solid(h) /\ Apart(h.array)
                      /\ h.value # <<>> => g = ParseStep(f, Line(n, h.value))
    <3>. HIDE DEF P, T
    <3>. QED
      BY <1>5, <1>6, <2>1
  <2>5. h.name # n => But(f, g, h.name)
    <3>. HIDE DEF P, T
    <3>. QED
      BY <1>6, <2>1
  <2>6. h.name = n /\ p # <<>> => h.array = <<>>
    <3>. HIDE DEF P, T
    <3>. QED
      BY <1>1, <2>1, LaterPlain
  <2>7. ValuesOf(q) = ValuesOf(p)
    BY <2>2
  <2>. HIDE DEF h, f, p, g
  <2>8. ASSUME NEW z \in Seq(Views), Shows(g, n, z), ValuesOf(z) = ValuesOf(c[i + 1])
        PROVE  i + 1 \in T
    <3>1. P(i + 1)
      BY <2>8 DEF g
    <3>. HIDE DEF P
    <3>. QED
      BY <2>1, <3>1
  <2>. HIDE DEF P, T
  <2>9. CASE h.name = n
    <3>1. q = <<>> \/ h.array = <<>>
      <4>1. p = <<>> => q = <<>>
        BY <2>7, NoValues
      <4>. QED
        BY <2>6, <2>9, <4>1
    <3>2. Shows(f, h.name, q) /\ h.name \in Names /\ Solid(h) /\ Apart(h.array)
      BY <2>3, <2>4, <2>9
    <3>3. /\ h.value # <<>>
          /\ \E y \in Views : /\ y.value = h.value
                              /\ Shows(ParseStep(f, Line(h.name, h.value)), h.name, Append(q, y))
      BY <2>3, <3>1, <3>2, LineShows
    <3>4. PICK y \in Views : y.value = h.value /\ Shows(g, n, Append(q, y))
      BY <2>4, <2>9, <3>3
    <3>5. ValuesOf(Append(q, y)) = ValuesOf(Append(p, h))
      BY <2>3, <2>7, <3>4, ValuesMore
    <3>. DEFINE z == Append(q, y)
    <3>6. z \in Seq(Views) /\ Shows(g, n, z) /\ ValuesOf(z) = ValuesOf(c[i + 1])
      BY <2>3, <2>9, <3>4, <3>5
    <3>. HIDE DEF z
    <3>. QED
      BY <2>8, <3>6
  <2>10. CASE h.name # n
    <3>1. Shows(g, n, q) /\ c[i + 1] = p
      BY <2>3, <2>5, <2>10 DEF But
    <3>. QED
      BY <2>7, <2>8, <3>1
  <2>. QED
    BY <2>9, <2>10
<1>9. P(m)
  <2>1. T \in SUBSET Nat
    OBVIOUS
  <2>2. 0 .. m \subseteq T
    <3>. HIDE DEF T, m
    <3>. QED
      BY <1>3, <1>7, <1>8, <2>1, UpTo
  <2>3. m \in 0 .. m
    BY <1>3
  <2>4. m \in T
    <3>. HIDE DEF T
    <3>. QED
      BY <2>2, <2>3, Zenon
  <2>. HIDE DEF P
  <2>. QED
    BY <1>3, <2>4
<1>. QED
  BY <1>1, <1>9

\* The lines of an event sent as text: its headers, and one for the body.
LEMMA LinesAre ==
  ASSUME NEW u, NEW e \in Sound(u), NEW hs, hs = HeadersOf(e),
         NEW text, text = serialize(e), NEW lines, lines = text.lines
  PROVE  /\ lines \in Seq(Lines) /\ Len(hs) \in Nat
         /\ \A i \in 1 .. Len(hs) :
              /\ hs[i] \in Heads /\ lines[i].name = hs[i].name
              /\ hs[i].value # <<>> => lines[i] = Line(hs[i].name, hs[i].value)
         /\ text.body \in Text /\ (e.body # NoText => text.body = e.body)
         /\ e.body \in {NoText, <<>>} => Len(lines) = Len(hs)
         /\ e.body \notin {NoText, <<>>} =>
              Len(lines) = Len(hs) + 1 /\ lines[Len(hs) + 1] = Line(Length, Number)
<1>. DEFINE m == Len(hs)
            Of(i) == Line(hs[i].name, IF hs[i].value = <<>> THEN undef ELSE hs[i].value)
            ls == [i \in DOMAIN hs |-> Of(i)]
            last == Line(Length, Number)
            all == IF e.body \in {NoText, <<>>} THEN ls ELSE Append(ls, last)
<1>1. hs \in Seq(Heads) /\ lines \in Seq(Lines) /\ text.body \in Text
  BY HeadersFit, SentLines
<1>2. text = [lines |-> all, body |-> IF e.body = NoText THEN <<>> ELSE e.body]
  BY DEF serialize
<1>3. m \in Nat /\ DOMAIN hs = 1 .. m /\ \A i \in 1 .. m : hs[i] \in Heads
  BY <1>1
<1>. HIDE DEF m, Of
<1>4. ls = [i \in 1 .. m |-> Of(i)]
  BY <1>3
<1>5. \A i \in 1 .. m : Of(i) \in Lines
  <2>1. ASSUME NEW i \in 1 .. m PROVE Of(i) \in Lines
    <3>1. hs[i].name \in AnyName /\ hs[i].value \in Text
      BY <1>3 DEF Heads, Cells
    <3>. QED
      BY <3>1, NumberIsText DEF Of, Lines, Line
  <2>. QED
    BY <2>1
<1>6. last \in Lines
  BY NumberIsText DEF Lines, Line, Length, AnyName, Special
<1>. HIDE DEF ls, last
<1>7. ls \in Seq(Lines) /\ Len(ls) = m /\ \A i \in 1 .. m : ls[i] = Of(i)
  <2>1. ls \in [1 .. m -> Lines]
    BY <1>4, <1>5
  <2>. QED
    BY <1>3, <1>4, <2>1, ListOf
<1>8. lines = all /\ text.body = IF e.body = NoText THEN <<>> ELSE e.body
  BY <1>2
<1>9. /\ \A i \in 1 .. m : all[i] = Of(i)
      /\ e.body \in {NoText, <<>>} => Len(all) = m
      /\ e.body \notin {NoText, <<>>} => Len(all) = m + 1 /\ all[m + 1] = last
  <2>1. CASE e.body \in {NoText, <<>>}
    BY <1>7, <2>1
  <2>2. CASE e.body \notin {NoText, <<>>}
    BY <1>3, <1>6, <1>7, <2>2
  <2>. QED
    BY <2>1, <2>2
<1>10. \A i \in 1 .. m : /\ Of(i).name = hs[i].name
                         /\ hs[i].value # <<>> => Of(i) = Line(hs[i].name, hs[i].value)
  BY DEF Of, Line
<1>. HIDE DEF all
<1>. QED
  BY <1>1, <1>3, <1>8, <1>9, <1>10 DEF m, last

\* Another event has the same values as e, where these are found again in text.
Resembles(e, f) ==
  /\ e.body \notin {NoText, <<>>} => f.body = e.body
  /\ \A n \in Names : AllSolid(e, n) /\ AllApart(e, n) =>
       \E q \in Seq(Views) : Shows(f, n, q) /\ ValuesOf(q) = ValuesOf(Called(e, n))
LEMMA ParsedAgrees ==
  ASSUME NEW u, NEW e \in Sound(u), NEW f, f = parse(serialize(e))
  PROVE  f \in Sound(FALSE) /\ Resembles(e, f)
<1>. DEFINE hs == HeadersOf(e)
            m == Len(hs)
            text == serialize(e)
            lines == text.lines
            last == Line(Length, Number)
            k == Len(lines)
<1>1. /\ lines \in Seq(Lines) /\ m \in Nat
      /\ \A i \in 1 .. m :
           /\ hs[i] \in Heads /\ lines[i].name = hs[i].name
           /\ hs[i].value # <<>> => lines[i] = Line(hs[i].name, hs[i].value)
      /\ text.body \in Text /\ (e.body # NoText => text.body = e.body)
      /\ e.body \in {NoText, <<>>} => k = m
      /\ e.body \notin {NoText, <<>>} => k = m + 1 /\ lines[m + 1] = last
  BY LinesAre
<1>2. PICK w : /\ ParseSteps(lines, w)
               /\ f = LET e1 == w[k]
                      IN  IF get_header_ptr(e1, Length) = NULL THEN e1 ELSE set_body(e1, text.body)
  BY <1>1, LineSteps
<1>3. k \in Nat /\ k >= m /\ \A i \in 1 .. k : lines[i] \in Lines
  <2>. HIDE DEF lines, m
  <2>1. k \in Nat /\ \A i \in 1 .. k : lines[i] \in Lines
    BY <1>1
  <2>. HIDE DEF k
  <2>. QED
    BY <1>1, <2>1
<1>4. /\ w[0] = Empty /\ \A i \in 1 .. k : w[i] = ParseStep(w[i - 1], lines[i])
      /\ \A i \in 0 .. k : w[i] \in Sound(FALSE)
  BY <1>2 DEF ParseSteps
<1>5. hs = HeadersOf(e)
  OBVIOUS
<1>. HIDE DEF hs, m, lines, k, text, last
<1>6. \A i \in 1 .. k : But(w[i - 1], w[i], lines[i].name)
  <2>1. ASSUME NEW i \in 1 .. k PROVE But(w[i - 1], w[i], lines[i].name)
    <3>1. i - 1 \in 0 .. k
      BY <1>3
    <3>2. w[i - 1] \in Sound(FALSE) /\ lines[i] \in Lines /\ w[i] = ParseStep(w[i - 1], lines[i])
      BY <1>3, <1>4, <3>1
    <3>. QED
      BY <3>2, ButLine
  <2>. QED
    BY <2>1
<1>7. w[k] \in Sound(FALSE)
  <2>1. k \in 0 .. k
    BY <1>3
  <2>. QED
    BY <1>4, <2>1
<1>8. ASSUME NEW n \in Names, AllSolid(e, n), AllApart(e, n)
      PROVE  \E q \in Seq(Views) : Shows(w[m], n, q) /\ ValuesOf(q) = ValuesOf(Called(e, n))
  <2>1. Shows(w[0], n, <<>>)
    BY <1>4, EmptyShows
  <2>2. ASSUME NEW i \in 1 .. m
        PROVE  IF hs[i].name = n
               THEN hs[i].value # <<>> => w[i] = ParseStep(w[i - 1], Line(n, hs[i].value))
               ELSE But(w[i - 1], w[i], hs[i].name)
    <3>1. i \in 1 .. k
      BY <1>1, <1>3
    <3>2. w[i] = ParseStep(w[i - 1], lines[i]) /\ But(w[i - 1], w[i], hs[i].name)
      BY <1>1, <1>4, <1>6, <3>1
    <3>. QED
      BY <1>1, <3>2
  <2>3. \A i \in 0 .. m : w[i] \in Sound(FALSE)
    <3>1. \A i \in 0 .. m : i \in 0 .. k
      BY <1>1, <1>3
    <3>. QED
      BY <1>4, <3>1, Zenon
  <2>. QED
    BY <1>5, <1>8, <2>1, <2>2, <2>3, ParsedShows DEF m
<1>9. CASE e.body \in {NoText, <<>>}
  <2>1. k = m
    BY <1>1, <1>9
  <2>2. f \in Sound(FALSE) /\ \A n, q : Shows(w[m], n, q) => Shows(f, n, q)
    <3>1. CASE get_header_ptr(w[k], Length) = NULL
      BY <1>2, <1>7, <2>1, <3>1
    <3>2. CASE get_header_ptr(w[k], Length) # NULL
      <4>1. f = set_body(w[k], text.body)
        BY <1>2, <3>2
      <4>. DEFINE g == w[k]
                  b == text.body
      <4>2. g \in Sound(FALSE) /\ b \in Text \cup {NoText} /\ f = set_body(g, b)
        BY <1>1, <1>7, <4>1
      <4>. HIDE DEF g, b
      <4>3. f \in Sound(FALSE)
        BY <4>2, SoundBody
      <4>4. \A n, q : Shows(g, n, q) => Shows(f, n, q)
        BY <4>2, ButBody
      <4>. QED
        BY <2>1, <4>3, <4>4 DEF g
    <3>. QED
      BY <3>1, <3>2
  <2>. QED
    BY <1>8, <1>9, <2>2 DEF Resembles
<1>10. CASE e.body \notin {NoText, <<>>}
  <2>. DEFINE g == w[m]
              z == w[k]
              b == text.body
  <2>1. k = m + 1 /\ lines[k] = last /\ k \in 1 .. k /\ k - 1 = m /\ m \in 0 .. k
    BY <1>1, <1>3, <1>10
  <2>2. g \in Sound(FALSE) /\ z \in Sound(FALSE) /\ z = ParseStep(g, last) /\ But(g, z, Length)
    <3>1. last.name = Length
      BY DEF last, Line
    <3>. QED
      BY <1>4, <1>6, <1>7, <2>1, <3>1
  <2>3. f = IF get_header_ptr(z, Length) = NULL THEN z ELSE set_body(z, b)
    BY <1>2
  <2>4. b \in Text \cup {NoText} /\ b = e.body
    BY <1>1, <1>10
  <2>5. \A n \in Names : n # Length
    BY EventAssumption DEF Special
  <2>6. ASSUME NEW n \in Names, AllSolid(e, n), AllApart(e, n)
        PROVE  \E q \in Seq(Views) : Shows(g, n, q) /\ ValuesOf(q) = ValuesOf(Called(e, n))
    BY <1>8, <2>6
  <2>. HIDE DEF g, z, b
  <2>7. get_header_ptr(z, Length) # NULL
    <3>. DEFINE d == Number
                y == Newly(BOTTOM, d)
                q == ViewsOf(Called(g, Length))
    <3>1. z = base_add_header(g, BOTTOM, Length, d)
      <4>1. Head(d) # ARR /\ Length # EventName
        BY DEF Number, ARR, Length, EventName
      <4>2. last.name = Length /\ last.value = d
        BY DEF last, Line
      <4>. QED
        BY <2>2, <4>1, <4>2 DEF ParseStep, Renamed
    <3>2. d \in Text /\ d # <<>> /\ ARR \notin ToSet(d)
      <4>1. ToSet(d) = {"#"}
        BY DEF Number, ToSet
      <4>. QED
        BY <4>1, NumberIsText DEF ARR
    <3>3. Shows(g, Length, q) /\ Called(g, Length) \in Seq(Heads)
      BY <2>2, CalledShown
    <3>4. q \in Seq(Views)
      BY <3>3, ViewsAre
    <3>5. Length \in AnyName \ {Body} /\ BOTTOM \in {BOTTOM, PUSH}
      BY DEF AnyName, Special, Length, Body
    <3>6. y \in Views
      <4>1. <<>> \in Seq(Text)
        OBVIOUS
      <4>. QED
        BY <3>2, <4>1 DEF Newly, Views, BOTTOM, PUSH
    <3>. HIDE DEF d, q, y
    <3>7. Shows(z, Length, Append(q, Newly(BOTTOM, d)))
      BY <2>2, <3>1, <3>2, <3>3, <3>5, AddedShows
    <3>8. Append(q, y) # <<>>
      <4>1. Len(Append(q, y)) = Len(q) + 1 /\ Len(q) \in Nat /\ Len(<<>>) = 0
        BY <3>4, <3>6
      <4>. QED
        BY <4>1
    <3>. SUFFICES ASSUME get_header_ptr(z, Length) = NULL PROVE FALSE
      OBVIOUS
    <3>9. Shows(z, Length, <<>>)
      BY <2>2, NoneFound
    <3>. QED
      BY <3>7, <3>8, <3>9, ShownOnce DEF y
  <2>8. f = set_body(z, b)
    BY <2>3, <2>7
  <2>9. f \in Sound(FALSE) /\ f.body = b /\ \A n, q : Shows(z, n, q) => Shows(f, n, q)
    <3>1. f \in Sound(FALSE)
      BY <2>2, <2>4, <2>8, SoundBody
    <3>2. f.body = b /\ \A n, q : Shows(z, n, q) => Shows(f, n, q)
      BY <2>2, <2>4, <2>8, ButBody
    <3>. QED
      BY <3>1, <3>2
  <2>10. ASSUME NEW n \in Names, AllSolid(e, n), AllApart(e, n)
         PROVE  \E q \in Seq(Views) : Shows(f, n, q) /\ ValuesOf(q) = ValuesOf(Called(e, n))
    <3>1. PICK q \in Seq(Views) : Shows(g, n, q) /\ ValuesOf(q) = ValuesOf(Called(e, n))
      BY <2>6, <2>10
    <3>2. Shows(z, n, q)
      BY <2>2, <2>5, <3>1 DEF But
    <3>. QED
      BY <2>9, <3>1, <3>2
  <2>. QED
    BY <2>4, <2>9, <2>10 DEF Resembles
<1>. QED
  BY <1>9, <1>10

\* The values of the headers e shows.
LEMMA ShownValues ==
  ASSUME NEW u, NEW e \in Sound(u), NEW n, NEW q, Shows(e, n, q)
  PROVE  ValuesOf(Called(e, n)) = ValuesOf(q)
<1>. DEFINE b == Called(e, n)
<1>1. Shows(e, n, ViewsOf(b))
  BY CalledShown
<1>. HIDE DEF b
<1>2. q = ViewsOf(b)
  BY <1>1, ShownOnce
<1>3. DOMAIN q = DOMAIN b /\ \A i \in DOMAIN b : q[i] = View(b[i])
  BY <1>2 DEF ViewsOf
<1>4. \A i \in DOMAIN b : q[i].value = b[i].value
  BY <1>3 DEF View
<1>5. ValuesOf(q) = ValuesOf(b)
  BY <1>3, <1>4 DEF ValuesOf
<1>. QED
  BY <1>5 DEF b

LEMMA ThreadedPlain == Threaded => PlainAgrees
<1>. SUFFICES ASSUME Threaded PROVE PlainAgrees
  OBVIOUS
<1>. DEFINE f == parse(serialize(event))
<1>1. event \in Sound(event.uniq)
  BY DEF Threaded
<1>2. f \in Sound(FALSE) /\ Resembles(event, f)
  BY <1>1, ParsedAgrees
<1>3. f = parse(serialize(event))
  OBVIOUS
<1>. HIDE DEF f
<1>4. ASSUME NEW n \in Names, AllSolid(event, n) /\ AllApart(event, n)
      PROVE  ValuesOf(Called(f, n)) = ValuesOf(Called(event, n))
  <2>1. PICK q : Shows(f, n, q) /\ ValuesOf(q) = ValuesOf(Called(event, n))
    BY <1>2, <1>4 DEF Resembles
  <2>. QED
    BY <1>2, <2>1, ShownValues
<1>5. event.body \notin {NoText, <<>>} => f.body = event.body
  BY <1>2 DEF Resembles
<1>. QED
  BY <1>3, <1>4, <1>5 DEF PlainAgrees

\* After any calls, whoever reads the event from its text finds under each name
\* all of whose headers are solid, and none with a "|:" inside an element, the
\* values the event has, in the same order, and its body if there is one
\* (esl_event.c:769-888 against esl.c:1413-1464).
THEOREM PlainStaysAgreed == Spec => []PlainAgrees
<1>1. Init => Threaded
  BY InitThreaded
<1>2. Threaded /\ [Next]_vars => Threaded'
  BY NextThreaded
<1>3. Threaded => PlainAgrees
  BY ThreadedPlain
<1>. QED
  BY <1>1, <1>2, <1>3, PTL DEF Spec
=============================================================================
