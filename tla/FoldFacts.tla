----------------------------- MODULE FoldFacts -----------------------------
(***************************************************************************)
(* A fold over a finite set, or over a sequence by its indices, can be     *)
(* computed: there is the function from the subsets to the results that    *)
(* the community modules' FoldLeft and MapThenFoldSet choose, and on a     *)
(* sequence its results follow one another from the first item to the      *)
(* last.                                                                   *)
(***************************************************************************)
EXTENDS Integers, FiniteSets, Sequences, FiniteSetTheorems, WellFoundedInduction,
        NaturalsInduction, TLAPS

\* Sets of subsets have a smallest member.
LEMMA SmallestSet ==
  ASSUME NEW T, IsFiniteSet(T), NEW B, B \subseteq SUBSET T, B # {}
  PROVE  \E s \in B : \A t \in B : t \subseteq s => t = s
<1> DEFINE R == StrictSubsetOrdering(T)
<1>1. B \subseteq FiniteSubsetsOf(T)
  BY FS_Subset DEF FiniteSubsetsOf
<1>2. IsWellFoundedOn(R, FiniteSubsetsOf(T))
  BY FS_StrictSubsetOrderingWellFounded
<1> HIDE DEF R
<1>3. PICK s \in B : \A t \in B : ~ (<<t, s>> \in R)
  BY <1>1, <1>2, WFMin
<1>4. ASSUME NEW t \in B, t \subseteq s PROVE t = s
  BY <1>3, <1>4 DEF R, StrictSubsetOrdering
<1> QED
  BY <1>4

\* h folds F over the subsets of D, with pick for the element that is taken last.
FoldedBy(D, pick, F, base, h) ==
  /\ DOMAIN h = SUBSET D /\ h[{}] = base
  /\ \A s \in SUBSET D : s # {} => h[s] = F[<<pick[s], h[s \ {pick[s]}]>>]

LEMMA FoldsAgree ==
  ASSUME NEW D, IsFiniteSet(D), NEW pick, \A s \in SUBSET D : s # {} => pick[s] \in s,
         NEW F, NEW base, NEW A \in SUBSET D, NEW B \in SUBSET D,
         NEW h, FoldedBy(A, pick, F, base, h), NEW k, FoldedBy(B, pick, F, base, k),
         NEW u \in SUBSET A, u \in SUBSET B
  PROVE  h[u] = k[u]
<1> DEFINE Bad == {s \in (SUBSET A) \cap (SUBSET B) : h[s] # k[s]}
<1>1. Bad = {}
  <2> SUFFICES ASSUME Bad # {} PROVE FALSE
    OBVIOUS
  <2>0. Bad \subseteq SUBSET D
    OBVIOUS
  <2> HIDE DEF Bad
  <2>1. PICK s \in Bad : \A t \in Bad : t \subseteq s => t = s
    BY <2>0, SmallestSet
  <2> USE DEF Bad
  <2> DEFINE r == s \ {pick[s]}
  <2>2. s # {} /\ pick[s] \in s
    BY DEF FoldedBy
  <2>3. r \in SUBSET A /\ r \in SUBSET B /\ r \subseteq s /\ r # s
    BY <2>2
  <2>4. h[r] = k[r]
    BY <2>1, <2>3
  <2>5. h[s] = k[s]
    BY <2>2, <2>4 DEF FoldedBy
  <2> QED
    BY <2>5
<1> QED
  BY <1>1

LEMMA FoldsExist ==
  ASSUME NEW D, IsFiniteSet(D), NEW pick, \A s \in SUBSET D : s # {} => pick[s] \in s,
         NEW R, NEW base \in R, NEW F \in [D \X R -> R]
  PROVE  \E h \in [SUBSET D -> R] : FoldedBy(D, pick, F, base, h)
<1> DEFINE Fine(s, h) == h \in [SUBSET s -> R] /\ FoldedBy(s, pick, F, base, h)
           Bad == {s \in SUBSET D : ~ \E h : Fine(s, h)}
<1>1. Bad = {}
  <2> SUFFICES ASSUME Bad # {} PROVE FALSE
    OBVIOUS
  <2>0. Bad \subseteq SUBSET D
    OBVIOUS
  <2> HIDE DEF Bad
  <2>1. PICK s \in Bad : \A t \in Bad : t \subseteq s => t = s
    BY <2>0, SmallestSet
  <2> DEFINE K(t) == CHOOSE k : Fine(t, k)
             Rest(t) == t \ {pick[t]}
             h == [t \in SUBSET s |-> IF t = {} THEN base ELSE F[<<pick[t], K(Rest(t))[Rest(t)]>>]]
  <2>2. s \in SUBSET D
    BY DEF Bad
  <2>3. ASSUME NEW t \in SUBSET s, t # {}
        PROVE  /\ pick[t] \in t /\ Rest(t) \in SUBSET s /\ Rest(t) \subseteq t /\ Rest(t) # s
               /\ Fine(Rest(t), K(Rest(t)))
    <3>1. t \in SUBSET D
      BY <2>2
    <3>2. pick[t] \in t
      BY <2>3, <3>1
    <3>3. Rest(t) \in SUBSET s /\ Rest(t) # s
      BY <3>2
    <3>4. Rest(t) \notin Bad
      BY <2>1, <3>3
    <3>5. \E k : Fine(Rest(t), k)
      BY <2>2, <3>3, <3>4 DEF Bad
    <3> HIDE DEF Fine
    <3>6. Fine(Rest(t), K(Rest(t)))
      BY <3>5
    <3> QED
      BY <3>2, <3>3, <3>6
  <2>4. h \in [SUBSET s -> R]
    <3>1. ASSUME NEW t \in SUBSET s, t # {} PROVE F[<<pick[t], K(Rest(t))[Rest(t)]>>] \in R
      <4>1. K(Rest(t))[Rest(t)] \in R
        <5>1. Rest(t) \in SUBSET Rest(t) /\ K(Rest(t)) \in [SUBSET Rest(t) -> R]
          BY <2>3, <3>1
        <5> HIDE DEF K, Rest
        <5> QED
          BY <5>1
      <4>2. pick[t] \in D
        BY <2>2, <2>3, <3>1
      <4> HIDE DEF K
      <4> QED
        BY <4>1, <4>2
    <3> HIDE DEF K, Rest
    <3> QED
      BY <3>1
  <2>5. h[{}] = base
    OBVIOUS
  <2>6. ASSUME NEW t \in SUBSET s, t # {} PROVE h[t] = F[<<pick[t], h[Rest(t)]>>]
    <3> DEFINE u == Rest(t)
    <3>1. u \in SUBSET s /\ Fine(u, K(u)) /\ h[t] = F[<<pick[t], K(u)[u]>>]
      <4> HIDE DEF K, Rest
      <4> QED
        BY <2>3, <2>6
    <3>2. CASE u = {}
      <4>1. K(u)[u] = base
        <5> HIDE DEF K
        <5> QED
          BY <3>1, <3>2 DEF FoldedBy
      <4>2. h[u] = base
        BY <2>5, <3>2
      <4> HIDE DEF h, K, u, Rest
      <4> QED
        BY <3>1, <4>1, <4>2 DEF u
    <3>3. CASE u # {}
      <4> DEFINE v == Rest(u)
      <4>1. v \in SUBSET u /\ Fine(v, K(v)) /\ h[u] = F[<<pick[u], K(v)[v]>>]
        <5> HIDE DEF K, Rest, u
        <5> QED
          BY <2>3, <3>1, <3>3
      <4>2. K(u)[u] = F[<<pick[u], K(u)[v]>>]
        <5> HIDE DEF K, u
        <5> QED
          BY <3>1, <3>3 DEF FoldedBy
      <4>3. K(u)[v] = K(v)[v]
        <5>1. u \in SUBSET D /\ v \in SUBSET D
          BY <2>2, <3>1, <4>1
        <5> HIDE DEF K, u, v
        <5> QED
          BY <3>1, <4>1, <5>1, FoldsAgree
      <4>4. K(u)[u] = h[u]
        <5> HIDE DEF h, K, u, v
        <5> QED
          BY <4>1, <4>2, <4>3
      <4> HIDE DEF h, K, u, Rest
      <4> QED
        BY <3>1, <4>4 DEF u
    <3> QED
      BY <3>2, <3>3
  <2>7. Fine(s, h)
    <3> HIDE DEF h
    <3>1. DOMAIN h = SUBSET s
      BY <2>4
    <3> QED
      BY <2>4, <2>5, <2>6, <3>1 DEF FoldedBy
  <2>8. s \notin Bad
    <3> HIDE DEF Fine, h
    <3> QED
      BY <2>2, <2>7 DEF Bad
  <2> QED
    BY <2>8
<1>2. D \notin Bad
  BY <1>1
<1> QED
  BY <1>2

\* A set of numbers below a bound has a largest.
Largest(s) == CHOOSE x \in s : \A y \in s : x >= y

LEMMA LargestIn ==
  ASSUME NEW m \in Nat, NEW s \in SUBSET (1..m), s # {}
  PROVE  Largest(s) \in s /\ \A y \in s : Largest(s) >= y
<1> DEFINE B == {m - x : x \in s}
<1>0. \A x \in s : x \in 1..m
  OBVIOUS
<1>1. B \subseteq Nat /\ B # {}
  <2>1. \A x \in s : m - x \in Nat
    BY <1>0
  <2>2. \E x : x \in s
    OBVIOUS
  <2> QED
    BY <2>1, <2>2
<1> HIDE DEF B
<1>2. PICK n \in B : \A k \in B : ~ (<<k, n>> \in OpToRel(<, Nat))
  BY <1>1, NatLessThanWellFounded, WFMin
<1>3. ASSUME NEW k \in B PROVE n <= k
  <2>1. k \in Nat /\ n \in Nat /\ ~ (<<k, n>> \in OpToRel(<, Nat))
    BY <1>1, <1>2
  <2> QED
    BY <2>1 DEF OpToRel
<1>4. PICK x \in s : n = m - x
  BY DEF B
<1>5. \A y \in s : m - y \in B
  BY DEF B
<1>6. \A y \in s : x >= y
  BY <1>3, <1>4, <1>5
<1> QED
  BY <1>4, <1>6 DEF Largest

LEMMA LargestOf ==
  ASSUME NEW m \in Nat, NEW n \in 1..m PROVE Largest(1..n) = n
<1>1. Largest(1..n) \in 1..n /\ \A y \in 1..n : Largest(1..n) >= y
  <2>1. (1..n) \in SUBSET (1..m) /\ (1..n) # {}
    OBVIOUS
  <2> QED
    BY <2>1, LargestIn
<1> QED
  BY <1>1

\* Induction over numbers, with a set for the property.
LEMMA NumberInduction ==
  ASSUME NEW P, 0 \in P, \A n \in Nat : n \in P => n + 1 \in P PROVE Nat \subseteq P
<1> DEFINE B == Nat \ P
<1> SUFFICES ASSUME B # {} PROVE FALSE
  OBVIOUS
<1>1. PICK n \in B : \A k \in B : ~ (<<k, n>> \in OpToRel(<, Nat))
  <2>1. B \subseteq Nat
    OBVIOUS
  <2> HIDE DEF B
  <2> QED
    BY <2>1, NatLessThanWellFounded, WFMin
<1>2. n # 0 /\ n - 1 \in Nat /\ n \in Nat /\ n \notin P
  OBVIOUS
<1>3. n - 1 \in P
  <2> SUFFICES ASSUME n - 1 \notin P PROVE FALSE
    OBVIOUS
  <2>1. ~ (<<n - 1, n>> \in OpToRel(<, Nat))
    BY <1>1, <1>2
  <2> QED
    BY <1>2, <2>1 DEF OpToRel
<1> QED
  BY <1>2, <1>3

\* What FoldLeft computes by: a fold over the sets of indices.
Folding(F, base, q, c) ==
  c = [s \in SUBSET DOMAIN q |->
         IF s = {} THEN base ELSE F[<<q[Largest(s)], c[s \ {Largest(s)}]>>]]

LEMMA FoldingExists ==
  ASSUME NEW X, NEW R, NEW F \in [X \X R -> R], NEW base \in R, NEW q \in Seq(X)
  PROVE  \E c \in [SUBSET DOMAIN q -> R] : Folding(F, base, q, c)
<1> DEFINE m == Len(q)
           D == 1..m
           G == [p \in D \X R |-> F[<<q[p[1]], p[2]>>]]
           pick == [s \in SUBSET D |-> Largest(s)]
<1>0. m \in Nat /\ DOMAIN q = D /\ \A k \in D : q[k] \in X
  OBVIOUS
<1> HIDE DEF m
<1>1. \A s \in SUBSET D : s # {} => Largest(s) \in s
  BY <1>0, LargestIn
<1>2. IsFiniteSet(D)
  BY <1>0, FS_Interval
<1>3. G \in [D \X R -> R]
  BY <1>0
<1>4. PICK h \in [SUBSET D -> R] : FoldedBy(D, pick, G, base, h)
  <2>1. \A s \in SUBSET D : s # {} => pick[s] \in s
    BY <1>1
  <2> HIDE DEF D, G, pick
  <2> QED
    BY <1>2, <1>3, <2>1, FoldsExist
<1>5. ASSUME NEW s \in SUBSET D, s # {}
      PROVE  h[s] = F[<<q[Largest(s)], h[s \ {Largest(s)}]>>]
  <2> DEFINE x == Largest(s)
             t == s \ {x}
  <2>1. x \in D /\ t \in SUBSET D /\ pick[s] = x
    BY <1>1, <1>5
  <2>2. h[s] = G[<<x, h[t]>>]
    <3> HIDE DEF G
    <3> QED
      BY <1>4, <1>5, <2>1 DEF FoldedBy
  <2>3. h[t] \in R
    BY <1>4, <2>1
  <2>4. G[<<x, h[t]>>] = F[<<q[x], h[t]>>]
    <3> HIDE DEF x, t, D
    <3> QED
      BY <2>1, <2>3
  <2> QED
    BY <2>2, <2>4
<1>6. \A s \in SUBSET D : h[s] = IF s = {} THEN base ELSE F[<<q[Largest(s)], h[s \ {Largest(s)}]>>]
  <2>1. h[{}] = base
    BY <1>4 DEF FoldedBy
  <2> QED
    BY <1>5, <2>1
<1>7. h = [s \in SUBSET D |-> h[s]]
  BY <1>4
<1>8. Folding(F, base, q, h)
  BY <1>0, <1>6, <1>7 DEF Folding
<1> QED
  BY <1>0, <1>8

\* c holds what F computes of the items at any of the indices of q.
Computed(F, R, base, q, c) ==
  /\ c[{}] = base
  /\ \A s \in SUBSET DOMAIN q : s # {} /\ c[s \ {Largest(s)}] \in R =>
       c[s] = F[<<q[Largest(s)], c[s \ {Largest(s)}]>>]

\* g holds the results one after the other.
Traced(F, R, base, q, g) ==
  /\ g \in [0..Len(q) -> R] /\ g[0] = base
  /\ \A n \in 1..Len(q) : g[n] = F[<<q[n], g[n - 1]>>]

Foldable(X, F, R, base, q) == F \in [X \X R -> R] /\ base \in R /\ q \in Seq(X)

LEMMA FoldingSteps ==
  ASSUME NEW X, NEW R, NEW F, NEW base, NEW q, NEW c, Foldable(X, F, R, base, q),
         Computed(F, R, base, q, c)
  PROVE  \E g : Traced(F, R, base, q, g) /\ g[Len(q)] = c[DOMAIN q]
<1> DEFINE m == Len(q)
           P == {n \in Nat : n <= m => c[1..n] \in R /\ (n # 0 => c[1..n] = F[<<q[n], c[1..n-1]>>])}
           g == [n \in 0..m |-> c[1..n]]
<1> USE DEF Foldable
<1>0. m \in Nat /\ DOMAIN q = 1..m /\ \A k \in 1..m : q[k] \in X
  OBVIOUS
<1> HIDE DEF m
<1>1. 0 \in P
  <2>1. (1..0) = {} /\ c[{}] = base
    BY DEF Computed
  <2> QED
    BY <2>1
<1>2. ASSUME NEW n \in Nat, n \in P PROVE n + 1 \in P
  <2> SUFFICES ASSUME n + 1 <= m PROVE c[1..n+1] \in R /\ c[1..n+1] = F[<<q[n+1], c[1..n]>>]
    <3>1. n + 1 - 1 = n
      OBVIOUS
    <3> QED
      BY <3>1
  <2>1. c[1..n] \in R
    BY <1>0, <1>2
  <2>2. Largest(1..n+1) = n + 1
    <3>1. n + 1 \in 1..m
      BY <1>0
    <3> QED
      BY <1>0, <3>1, LargestOf
  <2>3. (1..n+1) \in SUBSET DOMAIN q /\ (1..n+1) # {} /\ (1..n+1) \ {n + 1} = 1..n
    <3>1. \A k \in 1..n+1 : k \in 1..m
      BY <1>0
    <3>2. n + 1 \in 1..n+1 /\ (1..n+1) \ {n + 1} = 1..n
      OBVIOUS
    <3>3. (1..n+1) \in SUBSET (1..m)
      BY <3>1
    <3> QED
      BY <1>0, <3>2, <3>3
  <2>4. c[1..n+1] = F[<<q[n+1], c[1..n]>>]
    BY <2>1, <2>2, <2>3 DEF Computed
  <2>5. n + 1 \in 1..m
    BY <1>0
  <2>6. F[<<q[n+1], c[1..n]>>] \in R
    BY <1>0, <2>1, <2>5
  <2> QED
    BY <2>4, <2>6
<1>3. Nat \subseteq P
  <2> HIDE DEF P
  <2> QED
    BY <1>1, <1>2, NumberInduction
<1>4. g \in [0..m -> R]
  <2>1. ASSUME NEW n \in 0..m PROVE c[1..n] \in R
    <3>1. n \in Nat /\ n <= m
      BY <1>0
    <3>2. n \in P
      BY <1>3, <3>1
    <3> QED
      BY <3>1, <3>2
  <2> QED
    BY <2>1
<1>5. g[0] = base /\ g[m] = c[DOMAIN q]
  <2>1. (1..0) = {} /\ 0 \in 0..m /\ m \in 0..m /\ c[{}] = base
    BY <1>0 DEF Computed
  <2> QED
    BY <1>0, <2>1
<1>6. ASSUME NEW n \in 1..m PROVE g[n] = F[<<q[n], g[n - 1]>>]
  <2>1. n \in Nat /\ n # 0 /\ n <= m /\ n \in 0..m /\ n - 1 \in 0..m
    BY <1>0
  <2>2. c[1..n] = F[<<q[n], c[1..n-1]>>]
    BY <1>3, <2>1
  <2> QED
    BY <2>1, <2>2
<1> HIDE DEF g
<1>7. Traced(F, R, base, q, g)
  BY <1>4, <1>5, <1>6 DEF m, Traced
<1> QED
  BY <1>5, <1>7 DEF m
=============================================================================
