------------------------ MODULE CarLifeSessionProofs ------------------------
(***************************************************************************)
(* Proofs about CarLifeSession, for every phone and every set of channels: *)
(* the channels keep what PhoneChannels promises, the two ends agree on    *)
(* what is encrypted, and no answer is lost.                               *)
(*                                                                         *)
(* They go in this order.  Where picks messages out of a sequence; its     *)
(* facts are proved over the recursive function it computes by, with       *)
(* SeqInduction.  Then each handler of the session: what it sends and what *)
(* becomes of the cipher.  Then NextIs: each action of the specification   *)
(* is one of a few kinds of step (Steps), and from there on no action is   *)
(* looked at again.  Shape is the type of the state, Flight the messages   *)
(* between the phone and the handlers of the car.  Inbound holds whatever  *)
(* the phone asks for.  Encrypts, which makes CipherInStep inductive, and  *)
(* Owing, which makes NoLostAnswer inductive, hold as long as no request   *)
(* for a key switches the cipher off (Rekeying); for a phone that asks for *)
(* the keys once Token shows that there is none.  Agreed is all of them.   *)
(***************************************************************************)
EXTENDS CarLifeSession, SequenceTheorems, WellFoundedInduction, NaturalsInduction, TLAPS

-----------------------------------------------------------------------------
\* Where

\* Induction over sequences, with a set for the property.
LEMMA SeqInduction ==
  ASSUME NEW S, NEW P, <<>> \in P,
         \A s1 \in Seq(S), x \in S : s1 \in P => Append(s1, x) \in P
  PROVE  Seq(S) \subseteq P
<1> SUFFICES ASSUME NEW bad \in Seq(S), bad \notin P PROVE FALSE
  OBVIOUS
<1> DEFINE Lengths == {Len(t) : t \in Seq(S) \ P}
<1>1. Lengths \subseteq Nat /\ Lengths # {}
  BY LenProperties
<1>2. PICK n \in Lengths : \A k \in Lengths : ~ (<<k, n>> \in OpToRel(<, Nat))
  BY <1>1, NatLessThanWellFounded, WFMin
<1>3. PICK t \in Seq(S) \ P : Len(t) = n
  OBVIOUS
<1>4. t # <<>> /\ t \in Seq(S)
  OBVIOUS
<1>5. PICK u \in Seq(S), x \in S : t = Append(u, x)
  BY <1>4, SequenceEmptyOrAppend
<1>6. Len(u) \in Nat /\ Len(u) < n
  BY <1>3, <1>5, AppendProperties, LenProperties
<1>7. u \in P
  <2>1. n \in Nat
    BY <1>1
  <2>2. SUFFICES ASSUME u \notin P PROVE FALSE
    OBVIOUS
  <2>3. Len(u) \in Lengths
    BY <2>2
  <2>4. <<Len(u), n>> \in OpToRel(<, Nat)
    BY <1>6, <2>1 DEF OpToRel
  <2> QED
    BY <1>2, <2>3, <2>4
<1> QED
  BY <1>3, <1>5, <1>7

\* What Where computes by.
Part(seq, T, f) ==
  f = [n \in 0..Len(seq) |->
         IF n = 0 THEN <<>>
         ELSE IF seq[n] \in T THEN Append(f[n - 1], seq[n]) ELSE f[n - 1]]
Grown(q, x, T, f) ==
  [n \in 0..Len(q) + 1 |->
     IF n = Len(q) + 1 THEN IF x \in T THEN Append(f[Len(q)], x) ELSE f[Len(q)] ELSE f[n]]
OnePart(seq, T) == \E f : Part(seq, T, f) /\ \A g : Part(seq, T, g) => g = f

\* The parts of a longer sequence begin with those of a shorter one.
LEMMA PartGrows ==
  ASSUME NEW S, NEW T, NEW q \in Seq(S), NEW x \in S, NEW f, Part(q, T, f),
         \A g : Part(q, T, g) => g = f
  PROVE  /\ Part(Append(q, x), T, Grown(q, x, T, f))
         /\ \A g : Part(Append(q, x), T, g) => g = Grown(q, x, T, f)
<1> DEFINE h == [n \in 0..Len(q) + 1 |->
                   IF n = Len(q) + 1
                   THEN IF x \in T THEN Append(f[Len(q)], x) ELSE f[Len(q)] ELSE f[n]]
           r == Append(q, x)
<1>1. /\ Len(q) \in Nat /\ Len(r) = Len(q) + 1
      /\ r[Len(q) + 1] = x /\ \A n \in 1..Len(q) : r[n] = q[n]
  BY AppendProperties, LenProperties
<1> HIDE DEF r
<1>2. Part(r, T, h)
  <2> DEFINE k == [n \in 0..Len(r) |->
                     IF n = 0 THEN <<>>
                     ELSE IF r[n] \in T THEN Append(h[n - 1], r[n]) ELSE h[n - 1]]
  <2>1. ASSUME NEW n \in 0..Len(r) PROVE k[n] = h[n]
    <3>1. CASE n = 0
      BY <1>1, <3>1 DEF Part
    <3>2. CASE n \in 1..Len(q)
      <4>1. n - 1 \in 0..Len(q) /\ n # Len(q) + 1 /\ n - 1 # Len(q) + 1
        BY <1>1, <3>2
      <4>2. h[n] = f[n] /\ h[n - 1] = f[n - 1] /\ r[n] = q[n]
        BY <1>1, <3>2, <4>1
      <4>3. f[n] = IF q[n] \in T THEN Append(f[n - 1], q[n]) ELSE f[n - 1]
        <5>1. f = [j \in 0..Len(q) |->
                     IF j = 0 THEN <<>>
                     ELSE IF q[j] \in T THEN Append(f[j - 1], q[j]) ELSE f[j - 1]]
          BY DEF Part
        <5>2. n \in 0..Len(q) /\ n # 0
          BY <1>1, <3>2
        <5> HIDE DEF h, k
        <5> QED
          BY <5>1, <5>2
      <4>4. k[n] = IF r[n] \in T THEN Append(h[n - 1], r[n]) ELSE h[n - 1]
        BY <3>2
      <4> HIDE DEF h, k
      <4> QED
        BY <4>2, <4>3, <4>4
    <3>3. CASE n = Len(q) + 1
      <4>1. h[n - 1] = f[Len(q)] /\ n # 0
        BY <1>1, <3>3
      <4> QED
        BY <1>1, <3>3, <4>1
    <3> QED
      BY <1>1, <3>1, <3>2, <3>3
  <2>2. DOMAIN h = 0..Len(r)
    BY <1>1
  <2>3. h = k
    BY <2>1, <2>2
  <2> QED
    BY <2>3 DEF Part
<1>3. ASSUME NEW g, Part(r, T, g) PROVE g = h
  <2> DEFINE low == [n \in 0..Len(q) |-> g[n]]
             next == [n \in 0..Len(q) |->
                        IF n = 0 THEN <<>>
                        ELSE IF q[n] \in T THEN Append(low[n - 1], q[n]) ELSE low[n - 1]]
  <2>0. g = [n \in 0..Len(r) |->
               IF n = 0 THEN <<>>
               ELSE IF r[n] \in T THEN Append(g[n - 1], r[n]) ELSE g[n - 1]]
    BY <1>3 DEF Part
  <2>1. ASSUME NEW n \in 0..Len(q) PROVE low[n] = next[n]
    <3>1. n \in 0..Len(r)
      BY <1>1
    <3>2. g[n] = IF n = 0 THEN <<>>
                 ELSE IF r[n] \in T THEN Append(g[n - 1], r[n]) ELSE g[n - 1]
      BY <2>0, <3>1
    <3>3. CASE n = 0
      BY <3>2, <3>3
    <3>4. CASE n # 0
      <4>1. n \in 1..Len(q) /\ n - 1 \in 0..Len(q)
        BY <1>1, <3>4
      <4>2. low[n - 1] = g[n - 1] /\ r[n] = q[n] /\ low[n] = g[n]
        BY <1>1, <4>1
      <4>3. next[n] = IF q[n] \in T THEN Append(low[n - 1], q[n]) ELSE low[n - 1]
        BY <4>1
      <4> HIDE DEF low, next
      <4> QED
        BY <3>2, <3>4, <4>2, <4>3
    <3> QED
      BY <3>3, <3>4
  <2>2. Part(q, T, low)
    BY <2>1 DEF Part
  <2>3. low = f
    BY <2>2
  <2>4. ASSUME NEW n \in 0..Len(r) PROVE g[n] = h[n]
    <3>1. CASE n \in 0..Len(q)
      BY <1>1, <2>3, <3>1
    <3>2. CASE n = Len(q) + 1
      <4>1. g[n] = IF x \in T THEN Append(g[n - 1], x) ELSE g[n - 1]
        <5>1. n \in 0..Len(r) /\ n # 0 /\ r[n] = x
          BY <1>1, <3>2
        <5> HIDE DEF h, low, next
        <5> QED
          BY <2>0, <5>1
      <4>2. g[n - 1] = f[Len(q)]
        <5>1. n - 1 = Len(q) /\ Len(q) \in 0..Len(q)
          BY <1>1, <3>2
        <5>2. low[Len(q)] = g[Len(q)]
          BY <5>1
        <5> QED
          BY <2>3, <5>1, <5>2
      <4>3. h[n] = IF x \in T THEN Append(f[Len(q)], x) ELSE f[Len(q)]
        BY <1>1, <3>2
      <4> HIDE DEF h
      <4> QED
        BY <4>1, <4>2, <4>3
    <3> QED
      BY <1>1, <3>1, <3>2
  <2>5. DOMAIN h = 0..Len(r) /\ DOMAIN g = 0..Len(r)
    BY <1>1, <2>0
  <2>6. g = [n \in 0..Len(r) |-> g[n]] /\ h = [n \in 0..Len(r) |-> h[n]]
    <3>1. g = [n \in DOMAIN g |-> g[n]]
      <4> HIDE DEF h
      <4> QED
        BY <2>0
    <3> QED
      BY <2>5, <3>1
  <2> HIDE DEF h
  <2> QED
    BY <2>4, <2>6
<1>4. h = Grown(q, x, T, f)
  BY DEF Grown
<1> HIDE DEF h
<1> QED
  BY <1>2, <1>3, <1>4 DEF r

LEMMA PartEmpty ==
  ASSUME NEW T PROVE Part(<<>>, T, [n \in 0..0 |-> <<>>]) /\ \A g : Part(<<>>, T, g) => g = [n \in 0..0 |-> <<>>]
<1>1. Len(<<>>) = 0
  OBVIOUS
<1>2. 0..0 = {0}
  OBVIOUS
<1>3. ASSUME NEW g, g = [n \in 0..0 |->
         IF n = 0 THEN <<>>
         ELSE IF <<>>[n] \in T THEN Append(g[n - 1], <<>>[n]) ELSE g[n - 1]]
      PROVE g = [n \in 0..0 |-> <<>>]
  BY <1>2, <1>3
<1> QED
  BY <1>1, <1>2, <1>3 DEF Part

LEMMA PartIsOne ==
  ASSUME NEW S, NEW T, NEW q \in Seq(S) PROVE OnePart(q, T)
<1> DEFINE P == {t \in Seq(S) : OnePart(t, T)}
<1>1. <<>> \in P
  BY PartEmpty, EmptySeq DEF OnePart
<1>2. ASSUME NEW t \in Seq(S), NEW x \in S, t \in P PROVE Append(t, x) \in P
  <2>1. PICK f : Part(t, T, f) /\ \A g : Part(t, T, g) => g = f
    BY <1>2 DEF OnePart
  <2>2. OnePart(Append(t, x), T)
    <3>1. /\ Part(Append(t, x), T, Grown(t, x, T, f))
          /\ \A g : Part(Append(t, x), T, g) => g = Grown(t, x, T, f)
      BY <2>1, PartGrows
    <3> QED
      BY <3>1 DEF OnePart
  <2> QED
    BY <2>2, AppendProperties
<1> HIDE DEF P
<1>3. Seq(S) \subseteq P
  BY <1>1, <1>2, SeqInduction
<1> QED
  BY <1>3 DEF P

LEMMA WhereIs ==
  ASSUME NEW S, NEW T, NEW q \in Seq(S), NEW f, Part(q, T, f)
  PROVE  Where(q, T) = f[Len(q)]
<1> DEFINE body(g) == [n \in 0..Len(q) |->
         IF n = 0 THEN <<>>
         ELSE IF q[n] \in T THEN Append(g[n - 1], q[n]) ELSE g[n - 1]]
           chosen == CHOOSE g : g = body(g)
<1>1. f = body(f)
  BY DEF Part
<1>2. chosen = body(chosen)
  BY <1>1
<1>3. Part(q, T, chosen)
  BY <1>2 DEF Part
<1>4. chosen = f
  BY <1>3, PartIsOne DEF OnePart
<1>5. Where(q, T) = chosen[Len(q)]
  BY DEF Where
<1> QED
  BY <1>4, <1>5

LEMMA WhereEmpty == ASSUME NEW T PROVE Where(<<>>, T) = <<>>
<1>1. Where(<<>>, T) = [n \in 0..0 |-> <<>>][Len(<<>>)]
  BY PartEmpty, WhereIs, EmptySeq
<1> QED
  BY <1>1

\* Where, message by message.
LEMMA WhereAppend ==
  ASSUME NEW S, NEW T, NEW q \in Seq(S), NEW x \in S
  PROVE  Where(Append(q, x), T) = IF x \in T THEN Append(Where(q, T), x) ELSE Where(q, T)
<1>1. PICK f : Part(q, T, f) /\ \A g : Part(q, T, g) => g = f
  BY PartIsOne DEF OnePart
<1> DEFINE h == Grown(q, x, T, f)
<1>2. Part(Append(q, x), T, h)
  BY <1>1, PartGrows
<1>3. Append(q, x) \in Seq(S) /\ Len(Append(q, x)) = Len(q) + 1 /\ Len(q) \in Nat
  BY AppendProperties, LenProperties
<1>4. h[Len(q) + 1] = IF x \in T THEN Append(f[Len(q)], x) ELSE f[Len(q)]
  BY <1>3 DEF Grown
<1> HIDE DEF h
<1>5. Where(Append(q, x), T) = h[Len(q) + 1] /\ Where(q, T) = f[Len(q)]
  BY <1>1, <1>2, <1>3, WhereIs
<1> QED
  BY <1>4, <1>5

LEMMA WhereType ==
  ASSUME NEW S, NEW T, NEW q \in Seq(S)
  PROVE  Where(q, T) \in Seq(S \cap T) /\ Where(q, T) \in Seq(S)
<1> DEFINE P == {t \in Seq(S) : Where(t, T) \in Seq(S \cap T)}
<1>1. <<>> \in P
  BY WhereEmpty, EmptySeq
<1>2. ASSUME NEW t \in Seq(S), NEW x \in S, t \in P PROVE Append(t, x) \in P
  <2>1. Append(t, x) \in Seq(S)
    BY AppendProperties
  <2>2. Where(t, T) \in Seq(S \cap T)
    BY <1>2
  <2>3. Where(Append(t, x), T) = IF x \in T THEN Append(Where(t, T), x) ELSE Where(t, T)
    BY WhereAppend
  <2>4. x \in T => Append(Where(t, T), x) \in Seq(S \cap T)
    BY <2>2, AppendProperties
  <2> QED
    BY <2>1, <2>2, <2>3, <2>4
<1> HIDE DEF P
<1>3. Seq(S) \subseteq P
  BY <1>1, <1>2, SeqInduction
<1>4. Where(q, T) \in Seq(S \cap T)
  BY <1>3 DEF P
<1>5. Where(q, T) \in Seq(S)
  <2>1. S \cap T \subseteq S
    OBVIOUS
  <2> QED
    BY <1>4, <2>1, SeqMonotonic
<1> QED
  BY <1>4, <1>5

LEMMA ConcatAppend ==
  ASSUME NEW S, NEW s1 \in Seq(S), NEW s2 \in Seq(S), NEW x \in S
  PROVE  s1 \o Append(s2, x) = Append(s1 \o s2, x)
<1>1. <<x>> \in Seq(S)
  OBVIOUS
<1>2. Append(s2, x) = s2 \o <<x>> /\ s1 \o s2 \in Seq(S)
  BY AppendIsConcat, ConcatProperties
<1>3. Append(s1 \o s2, x) = (s1 \o s2) \o <<x>>
  BY <1>2, AppendIsConcat
<1> QED
  BY <1>1, <1>2, <1>3, ConcatAssociative

\* Where of two sequences, one after the other.
LEMMA WhereConcat ==
  ASSUME NEW S, NEW T, NEW s1 \in Seq(S), NEW s2 \in Seq(S)
  PROVE  Where(s1 \o s2, T) = Where(s1, T) \o Where(s2, T)
<1> DEFINE P == {t \in Seq(S) : Where(s1 \o t, T) = Where(s1, T) \o Where(t, T)}
<1>1. <<>> \in P
  <2>1. s1 \o <<>> = s1 /\ Where(s1, T) \o <<>> = Where(s1, T)
    BY ConcatEmptySeq, WhereType
  <2> QED
    BY <2>1, WhereEmpty, EmptySeq
<1>2. ASSUME NEW t \in Seq(S), NEW x \in S, t \in P PROVE Append(t, x) \in P
  <2>1. s1 \o Append(t, x) = Append(s1 \o t, x) /\ s1 \o t \in Seq(S) /\ Append(t, x) \in Seq(S)
    BY ConcatAppend, ConcatProperties, AppendProperties
  <2>2. Where(s1 \o t, T) = Where(s1, T) \o Where(t, T)
    BY <1>2
  <2>3. Where(s1, T) \in Seq(S) /\ Where(t, T) \in Seq(S)
    BY WhereType
  <2>4. Where(Append(t, x), T) = IF x \in T THEN Append(Where(t, T), x) ELSE Where(t, T)
    BY WhereAppend
  <2>5. Where(Append(s1 \o t, x), T)
          = IF x \in T THEN Append(Where(s1, T) \o Where(t, T), x) ELSE Where(s1, T) \o Where(t, T)
    <3> DEFINE u == s1 \o t
    <3>1. u \in Seq(S) /\ Where(u, T) = Where(s1, T) \o Where(t, T)
      BY <2>1, <2>2
    <3> HIDE DEF u
    <3>2. Where(Append(u, x), T) = IF x \in T THEN Append(Where(u, T), x) ELSE Where(u, T)
      <4>1. \A w \in Seq(S) :
              Where(Append(w, x), T) = IF x \in T THEN Append(Where(w, T), x) ELSE Where(w, T)
        BY WhereAppend
      <4> QED
        BY <3>1, <4>1
    <3> QED
      BY <3>1, <3>2 DEF u
  <2>6. Where(s1, T) \o Append(Where(t, T), x) = Append(Where(s1, T) \o Where(t, T), x)
    BY <2>3, ConcatAppend
  <2>7. Where(s1 \o Append(t, x), T) = Where(s1, T) \o Where(Append(t, x), T)
    BY <2>1, <2>4, <2>5, <2>6
  <2> QED
    BY <2>1, <2>7
<1> HIDE DEF P
<1>3. Seq(S) \subseteq P
  BY <1>1, <1>2, SeqInduction
<1> QED
  BY <1>3 DEF P

LEMMA WhereOne ==
  ASSUME NEW T, NEW x PROVE Where(<<x>>, T) = IF x \in T THEN <<x>> ELSE <<>>
<1>1. <<x>> = Append(<<>>, x) /\ <<>> \in Seq({x}) /\ x \in {x}
  BY EmptySeq
<1>2. Where(Append(<<>>, x), T) = IF x \in T THEN Append(Where(<<>>, T), x) ELSE Where(<<>>, T)
  BY <1>1, WhereAppend, ZenonT(30)
<1>3. Where(<<>>, T) = <<>>
  BY WhereEmpty
<1> QED
  BY <1>1, <1>2, <1>3

LEMMA HeadAndTail ==
  ASSUME NEW S, NEW q \in Seq(S), q # <<>>
  PROVE  q = <<Head(q)>> \o Tail(q) /\ Head(q) \in S /\ Tail(q) \in Seq(S)
<1>1. /\ Head(q) \in S /\ Tail(q) \in Seq(S) /\ Len(Tail(q)) = Len(q) - 1
      /\ \A i \in 1..Len(Tail(q)) : Tail(q)[i] = q[i + 1]
  BY HeadTailProperties
<1>2. <<Head(q)>> \in Seq(S) /\ Len(<<Head(q)>>) = 1 /\ <<Head(q)>>[1] = q[1]
  BY <1>1
<1>3. Len(q) \in Nat \ {0}
  BY EmptySeq
<1> DEFINE r == <<Head(q)>> \o Tail(q)
<1>4. /\ r \in Seq(S) /\ Len(r) = Len(q)
      /\ \A i \in 1..Len(q) : r[i] = IF i <= 1 THEN q[1] ELSE Tail(q)[i - 1]
  <2>1. /\ r \in Seq(S) /\ Len(r) = 1 + Len(Tail(q))
        /\ \A i \in 1..1 + Len(Tail(q)) : r[i] = IF i <= 1 THEN <<Head(q)>>[i] ELSE Tail(q)[i - 1]
    BY <1>1, <1>2, ConcatProperties
  <2> QED
    BY <1>1, <1>2, <1>3, <2>1
<1> HIDE DEF r
<1>5. \A i \in 1..Len(r) : r[i] = q[i]
  BY <1>1, <1>3, <1>4
<1>6. r = q
  BY <1>4, <1>5, SeqEqual
<1> QED
  BY <1>1, <1>6 DEF r

\* Where, from the front.
LEMMA WhereHead ==
  ASSUME NEW S, NEW T, NEW q \in Seq(S), q # <<>>
  PROVE  Where(q, T) = IF Head(q) \in T THEN <<Head(q)>> \o Where(Tail(q), T) ELSE Where(Tail(q), T)
<1>1. /\ q = <<Head(q)>> \o Tail(q) /\ Head(q) \in S /\ Tail(q) \in Seq(S)
      /\ <<Head(q)>> \in Seq(S)
  BY HeadAndTail
<1>2. Where(q, T) = Where(<<Head(q)>>, T) \o Where(Tail(q), T)
  BY <1>1, WhereConcat
<1>3. <<>> \o Where(Tail(q), T) = Where(Tail(q), T)
  BY <1>1, WhereType, ConcatEmptySeq
<1> QED
  BY <1>2, <1>3, WhereOne

-----------------------------------------------------------------------------
\* The handlers

Field == { "st", "running", "err", "major", "failAt", "silent", "keypair", "key", "enabled",
           "excludes", "mic", "subscribed", "host", "tx" }

\* A message as a session leaves it, with a cipher that is on or off.
Post(on, c, svc, arg) == [ch |-> c, svc |-> svc, arg |-> arg, enc |-> on /\ arg # "none"]

\* x and y have the same version and the same cipher.
Same(x, y) ==
  /\ DOMAIN y = Field /\ y.major = x.major /\ y.keypair = x.keypair
  /\ y.key = x.key /\ y.enabled = x.enabled /\ y.excludes = x.excludes

LEMMA SendIs ==
  ASSUME NEW x, DOMAIN x = Field, x.enabled \in BOOLEAN, NEW c, NEW svc, NEW arg
  PROVE  /\ Same(x, SendOn(x, c, svc, arg))
         /\ SendOn(x, c, svc, arg).tx = Append(x.tx, Post(x.enabled, c, svc, arg))
<1> DEFINE m == Msg(c, svc, arg)
           p == IF x.enabled THEN Encrypt(m) ELSE m
<1>1. p = Post(x.enabled, c, svc, arg)
  <2>1. CASE x.enabled
    BY <2>1 DEF Encrypt, Msg, Post
  <2>2. CASE ~x.enabled
    BY <2>2 DEF Msg, Post
  <2> QED
    BY <2>1, <2>2
<1>2. SendOn(x, c, svc, arg) = [x EXCEPT !.tx = Append(x.tx, p)]
  BY DEF SendOn
<1> HIDE DEF p, m
<1> QED
  BY <1>1, <1>2 DEF Same, Field

\* What a handler that sends one message, or none, leaves.
Quiet(x, y) == Same(x, y) /\ y.tx = x.tx
Says1(x, y, svc, arg) == Same(x, y) /\ y.tx = Append(x.tx, Post(x.enabled, "CMD", svc, arg))

LEMMA SendCmdIs ==
  ASSUME NEW x, DOMAIN x = Field, x.enabled \in BOOLEAN, NEW svc, NEW arg
  PROVE  Says1(x, SendCmd(x, svc, arg), svc, arg)
  BY SendIs DEF SendCmd, Says1

LEMMA SmallSteps ==
  ASSUME NEW x, DOMAIN x = Field
  PROVE  /\ Quiet(x, x) /\ Quiet(x, Fail(x))
         /\ \A st : Quiet(x, SetState(x, st))
         /\ \A callback : Quiet(x, Calls(x, callback))
  BY DEF Quiet, Same, Fail, SetState, Calls, Field

\* Quiet steps before and after a message change nothing about it.
LEMMA QuietAround ==
  ASSUME NEW x, NEW y, NEW z, NEW svc, NEW arg
  PROVE  /\ Quiet(x, y) /\ Quiet(y, z) => Quiet(x, z)
         /\ Quiet(x, y) /\ Says1(y, z, svc, arg) => Says1(x, z, svc, arg)
         /\ Says1(x, y, svc, arg) /\ Quiet(y, z) => Says1(x, z, svc, arg)
  BY DEF Quiet, Says1, Same

\* A handler that may send one message, this one.
LEMMA Answers1 ==
  ASSUME NEW x, DOMAIN x = Field, x.enabled \in BOOLEAN, NEW f
  PROVE  /\ Says1(x, HandleFeatureConfigRequest(x), "HU_FEATURE_CONFIG_RESPONSE", "ok")
         /\ Says1(x, HandleVideoInitDone(x), "VIDEO_ENCODER_START", "none")
         /\ Says1(x, HandleMicRecordPrepare(x), "MIC_RECORD_PREPARE_DONE", "none")
         /\ IF f.arg = "bad" THEN Quiet(x, HandleHfpStatusRequest(x, f))
            ELSE Says1(x, HandleHfpStatusRequest(x, f), "BT_HFP_STATUS_RESPONSE", "ok")
         /\ IF f.arg = "bad" THEN Quiet(x, HandleActivationRequest(x, f))
            ELSE Says1(x, HandleActivationRequest(x, f), "HU_ACTIVE", "ok")
         /\ Quiet(x, HandleMicRecord(x, f))
         /\ Quiet(x, Notify(x, f)) /\ Quiet(x, HandleMedia(x, f))
<1>0. \A svc, arg : Says1(x, SendCmd(x, svc, arg), svc, arg)
  BY SendCmdIs
<1>1. ASSUME NEW callback, NEW svc, NEW arg
      PROVE  Says1(x, SendCmd(Calls(x, callback), svc, arg), svc, arg)
  <2> DEFINE y == Calls(x, callback)
  <2>1. Quiet(x, y)
    BY SmallSteps
  <2> HIDE DEF y
  <2>2. Says1(y, SendCmd(y, svc, arg), svc, arg)
    BY <2>1, SendCmdIs DEF Quiet, Same
  <2> QED
    BY <2>1, <2>2, QuietAround DEF y
<1>2. Says1(x, HandleFeatureConfigRequest(x), "HU_FEATURE_CONFIG_RESPONSE", "ok")
  BY <1>0 DEF HandleFeatureConfigRequest
<1>3. Says1(x, HandleVideoInitDone(x), "VIDEO_ENCODER_START", "none")
  <2> DEFINE y == SendCmd(x, "VIDEO_ENCODER_START", "none")
  <2>1. Says1(x, y, "VIDEO_ENCODER_START", "none") /\ HandleVideoInitDone(x) = SetState(y, "VideoStarted")
    BY <1>0 DEF HandleVideoInitDone
  <2> HIDE DEF y
  <2>2. Quiet(y, SetState(y, "VideoStarted"))
    BY <2>1, SmallSteps DEF Says1, Same
  <2> QED
    BY <2>1, <2>2, QuietAround
<1>4. Says1(x, HandleMicRecordPrepare(x), "MIC_RECORD_PREPARE_DONE", "none")
  BY <1>1 DEF HandleMicRecordPrepare
<1>5. IF f.arg = "bad" THEN Quiet(x, HandleHfpStatusRequest(x, f))
      ELSE Says1(x, HandleHfpStatusRequest(x, f), "BT_HFP_STATUS_RESPONSE", "ok")
  BY <1>1, SmallSteps DEF HandleHfpStatusRequest
<1>6. IF f.arg = "bad" THEN Quiet(x, HandleActivationRequest(x, f))
      ELSE Says1(x, HandleActivationRequest(x, f), "HU_ACTIVE", "ok")
  BY <1>1, SmallSteps DEF HandleActivationRequest
<1>7. Quiet(x, HandleMicRecord(x, f))
  <2> DEFINE y == Calls(x, "onMicRecord")
  <2>1. Quiet(x, y) /\ HandleMicRecord(x, f) = [y EXCEPT !.mic = f.svc # "MIC_RECORD_END"]
    BY SmallSteps DEF HandleMicRecord
  <2> HIDE DEF y
  <2> QED
    BY <2>1 DEF Quiet, Same, Field
<1>8. Quiet(x, Notify(x, f))
  <2>1. \A callback : Quiet(x, Calls(x, callback))
    BY SmallSteps
  <2>2. \/ Notify(x, f) = x \/ Notify(x, f) = Calls(x, Parsed[f.svc])
        \/ Notify(x, f) = Calls(x, Signal[f.svc]) \/ Notify(x, f) = Calls(x, "onAppEvent")
    BY DEF Notify
  <2> QED
    BY <2>1, <2>2, SmallSteps
<1>9. Quiet(x, HandleMedia(x, f))
  <2> DEFINE y == IF f.ch = "VIDEO" /\ f.svc \in {"VIDEO_DATA", "VIDEO_HEARTBEAT"}
                  THEN [x EXCEPT !.silent = 0] ELSE x
  <2>1. Quiet(x, y)
    BY DEF Quiet, Same, Field
  <2>2. HandleMedia(x, f) = y \/ HandleMedia(x, f) = Calls(y, MediaCall[f.svc])
    BY DEF HandleMedia
  <2> HIDE DEF y
  <2>3. \A callback : Quiet(y, Calls(y, callback))
    BY <2>1, SmallSteps DEF Quiet, Same
  <2> QED
    BY <2>1, <2>2, <2>3, QuietAround
<1> QED
  BY <1>2, <1>3, <1>4, <1>5, <1>6, <1>7, <1>8, <1>9

\* A handler that sends two.
Says2(x, y, svc1, arg1, svc2, arg2) ==
  /\ Same(x, y)
  /\ y.tx = Append(Append(x.tx, Post(x.enabled, "CMD", svc1, arg1)), Post(x.enabled, "CMD", svc2, arg2))

LEMMA TwoSends ==
  ASSUME NEW x, NEW y, NEW z, NEW svc1, NEW arg1, NEW svc2, NEW arg2,
         Says1(x, y, svc1, arg1), Says1(y, z, svc2, arg2)
  PROVE  Says2(x, z, svc1, arg1, svc2, arg2)
  BY DEF Says1, Says2, Same

LEMMA VersionMatchIs ==
  ASSUME NEW x, DOMAIN x = Field, x.enabled \in BOOLEAN, NEW f
  PROVE  LET y == HandleProtocolVersionMatch(x, f) IN
         IF f.arg = "match" THEN Says1(x, y, "STATISTIC_INFO", "ok")
         ELSE IF f.arg \in Versions \ {x.major}
         THEN \E z : /\ DOMAIN z = Field /\ z.major = f.arg /\ z.keypair = x.keypair /\ z.key = x.key
                    /\ z.enabled = x.enabled /\ z.excludes = x.excludes /\ z.tx = x.tx
                    /\ Says1(z, y, "HU_PROTOCOL_VERSION", f.arg)
         ELSE Quiet(x, y)
<1> DEFINE y == HandleProtocolVersionMatch(x, f)
           z == [x EXCEPT !.major = f.arg]
           w == SendCmd(x, "STATISTIC_INFO", "ok")
<1>1. CASE f.arg = "match"
  <2>1. Says1(x, w, "STATISTIC_INFO", "ok") /\ y = SetState(w, "VersionMatched")
    BY <1>1, SessionAssumption, SendCmdIs DEF HandleProtocolVersionMatch
  <2> HIDE DEF w
  <2>2. Quiet(w, SetState(w, "VersionMatched"))
    BY <2>1, SmallSteps DEF Says1, Same
  <2> QED
    BY <1>1, <2>1, <2>2, QuietAround
<1>2. CASE f.arg # "match" /\ f.arg \in Versions \ {x.major}
  <2>1. /\ DOMAIN z = Field /\ z.major = f.arg /\ z.keypair = x.keypair /\ z.key = x.key
        /\ z.enabled = x.enabled /\ z.excludes = x.excludes /\ z.tx = x.tx
    BY DEF Field
  <2>2. y = SendCmd(z, "HU_PROTOCOL_VERSION", f.arg)
    BY <1>2 DEF HandleProtocolVersionMatch
  <2> HIDE DEF z
  <2>3. Says1(z, y, "HU_PROTOCOL_VERSION", f.arg)
    BY <2>1, <2>2, SendCmdIs
  <2> HIDE DEF y
  <2> QED
    BY <1>2, <2>1, <2>3 DEF y
<1>3. CASE f.arg # "match" /\ f.arg \notin Versions \ {x.major}
  <2>1. y = Fail(x)
    BY <1>3 DEF HandleProtocolVersionMatch
  <2> QED
    BY <1>3, <2>1, SmallSteps
<1> QED
  BY <1>1, <1>2, <1>3

LEMMA MdInfoIs ==
  ASSUME NEW x, DOMAIN x = Field, x.enabled \in BOOLEAN
  PROVE  Says2(x, HandleMdInfo(x), "HU_INFO", "ok", "HU_AUTH_REQUEST", "ok")
<1> DEFINE w == SendCmd(x, "HU_INFO", "ok")
           y == SendCmd(w, "HU_AUTH_REQUEST", "ok")
<1>1. Says1(x, w, "HU_INFO", "ok")
  BY SendCmdIs
<1>2. HandleMdInfo(x) = SetState(y, "AuthRequested") \/ HandleMdInfo(x) = Fail(y)
  BY DEF HandleMdInfo
<1> HIDE DEF w
<1>3. Says1(w, y, "HU_AUTH_REQUEST", "ok")
  BY <1>1, SendCmdIs DEF Says1, Same
<1> HIDE DEF y
<1>4. Quiet(y, HandleMdInfo(x))
  BY <1>2, <1>3, SmallSteps DEF Says1, Same
<1>5. Says1(w, HandleMdInfo(x), "HU_AUTH_REQUEST", "ok")
  BY <1>3, <1>4, QuietAround
<1> QED
  BY <1>1, <1>5, TwoSends

LEMMA AuthResponseIs ==
  ASSUME NEW x, DOMAIN x = Field, x.enabled \in BOOLEAN, NEW f
  PROVE  LET y == HandleAuthResponse(x, f) IN
         IF f.arg = "good" THEN Says1(x, y, "HU_AUTH_RESULT", "true")
         ELSE IF f.arg = "wrong" THEN Says1(x, y, "HU_AUTH_RESULT", "false")
         ELSE Quiet(x, y)
<1> DEFINE y == HandleAuthResponse(x, f)
           good == SendCmd(x, "HU_AUTH_RESULT", "true")
           wrong == SendCmd(x, "HU_AUTH_RESULT", "false")
<1>1. CASE f.arg = "good"
  <2>1. Says1(x, good, "HU_AUTH_RESULT", "true") /\ y = SetState(good, "AuthVerified")
    BY <1>1, SendCmdIs DEF HandleAuthResponse
  <2> HIDE DEF good
  <2>2. Quiet(good, SetState(good, "AuthVerified"))
    BY <2>1, SmallSteps DEF Says1, Same
  <2> QED
    BY <1>1, <2>1, <2>2, QuietAround
<1>2. CASE f.arg = "wrong"
  <2>1. /\ Says1(x, wrong, "HU_AUTH_RESULT", "false")
        /\ y = [SetState(wrong, "Failed") EXCEPT !.err = TRUE, !.failAt = AuthGrace]
    BY <1>2, SendCmdIs DEF HandleAuthResponse
  <2> HIDE DEF wrong
  <2>2. Quiet(wrong, y)
    BY <2>1 DEF Quiet, Says1, Same, SetState, Field
  <2> QED
    BY <1>2, <2>1, <2>2, QuietAround
<1>3. CASE f.arg # "good" /\ f.arg # "wrong"
  <2>1. y = Fail(x)
    BY <1>3 DEF HandleAuthResponse
  <2> QED
    BY <1>3, <2>1, SmallSteps
<1> QED
  BY <1>1, <1>2, <1>3

LEMMA AuthResultIs ==
  ASSUME NEW x, DOMAIN x = Field, x.enabled \in BOOLEAN, NEW f
  PROVE  LET y == HandleAuthResult(x, f) IN
         \/ Says2(x, y, "MD_AUTH_RESULT_RESPONSE", "none", "VIDEO_ENCODER_INIT", "ok")
         \/ Says1(x, y, "MD_AUTH_RESULT_RESPONSE", "none")
<1> DEFINE w == SendCmd(x, "MD_AUTH_RESULT_RESPONSE", "none")
           v == SetState(w, "Established")
           u == SendCmd(v, "VIDEO_ENCODER_INIT", "ok")
           y == HandleAuthResult(x, f)
<1>1. Says1(x, w, "MD_AUTH_RESULT_RESPONSE", "none")
  BY SendCmdIs
<1>2. y = SetState(u, "VideoInitSent") \/ y = Fail(w)
  BY DEF HandleAuthResult, OnEstablished
<1> HIDE DEF w, y
<1>3. Quiet(w, v) /\ Quiet(w, Fail(w))
  BY <1>1, SmallSteps DEF Says1, Same
<1> HIDE DEF v
<1>4. Says1(v, u, "VIDEO_ENCODER_INIT", "ok")
  BY <1>1, <1>3, SendCmdIs DEF Says1, Same, Quiet
<1> HIDE DEF u
<1>5. Quiet(u, SetState(u, "VideoInitSent"))
  BY <1>4, SmallSteps DEF Says1, Same
<1>6. Says1(w, SetState(u, "VideoInitSent"), "VIDEO_ENCODER_INIT", "ok")
  BY <1>3, <1>4, <1>5, QuietAround
<1>7. Says2(x, SetState(u, "VideoInitSent"), "MD_AUTH_RESULT_RESPONSE", "none", "VIDEO_ENCODER_INIT", "ok")
  BY <1>1, <1>6, TwoSends
<1>8. Says1(x, Fail(w), "MD_AUTH_RESULT_RESPONSE", "none")
  BY <1>1, <1>3, QuietAround
<1> QED
  BY <1>2, <1>7, <1>8 DEF y

LEMMA EncryptionIs ==
  ASSUME NEW x, DOMAIN x = Field, x.enabled \in BOOLEAN, NEW f
  PROVE  LET y == HandleEncryption(x, f) IN
         /\ f.svc = "MD_RSA_PUBLIC_KEY_REQUEST" =>
              IF x.keypair
              THEN /\ DOMAIN y = Field /\ y.major = x.major /\ y.keypair = x.keypair
                   /\ y.key = x.key /\ y.enabled = FALSE /\ y.excludes = x.excludes
                   /\ y.tx = Append(x.tx, Post(x.enabled, "CMD", "HU_RSA_PUBLIC_KEY_RESPONSE", "ok"))
              ELSE Quiet(x, y)
         /\ f.svc = "MD_AES_KEY_SEND_REQUEST" =>
              IF x.keypair /\ f.arg = "ok"
              THEN /\ DOMAIN y = Field /\ y.major = x.major /\ y.keypair = x.keypair
                   /\ y.key = TRUE /\ y.enabled = FALSE /\ y.excludes = {}
                   /\ y.tx = Append(x.tx, Post(x.enabled, "CMD", "HU_AES_REC_RESPONSE", "none"))
              ELSE Quiet(x, y)
         /\ f.svc = "MD_ENCRYPT_READY" =>
              /\ DOMAIN y = Field /\ y.major = x.major /\ y.keypair = x.keypair
              /\ y.key = x.key /\ y.enabled = (x.enabled \/ x.key) /\ y.excludes = x.excludes
              /\ y.tx = Append(x.tx, Post(x.enabled, "CMD", "MD_ENCRYPT_READY_DONE", "none"))
<1> DEFINE y == HandleEncryption(x, f)
<1>1. ASSUME f.svc = "MD_RSA_PUBLIC_KEY_REQUEST"
      PROVE  IF x.keypair
             THEN /\ DOMAIN y = Field /\ y.major = x.major /\ y.keypair = x.keypair
                  /\ y.key = x.key /\ y.enabled = FALSE /\ y.excludes = x.excludes
                  /\ y.tx = Append(x.tx, Post(x.enabled, "CMD", "HU_RSA_PUBLIC_KEY_RESPONSE", "ok"))
             ELSE Quiet(x, y)
  <2> DEFINE z == SendCmd(x, "HU_RSA_PUBLIC_KEY_RESPONSE", "ok")
  <2>1. Says1(x, z, "HU_RSA_PUBLIC_KEY_RESPONSE", "ok")
    BY SendCmdIs
  <2>2. y = IF x.keypair THEN [z EXCEPT !.enabled = FALSE] ELSE x
    BY <1>1 DEF HandleEncryption
  <2> HIDE DEF z, y
  <2>3. CASE x.keypair
    BY <2>1, <2>2, <2>3 DEF Says1, Same, Field
  <2>4. CASE ~x.keypair
    BY <2>2, <2>4, SmallSteps
  <2> QED
    BY <2>3, <2>4
<1>2. ASSUME f.svc = "MD_AES_KEY_SEND_REQUEST"
      PROVE  IF x.keypair /\ f.arg = "ok"
              THEN /\ DOMAIN y = Field /\ y.major = x.major /\ y.keypair = x.keypair
                   /\ y.key = TRUE /\ y.enabled = FALSE /\ y.excludes = {}
                   /\ y.tx = Append(x.tx, Post(x.enabled, "CMD", "HU_AES_REC_RESPONSE", "none"))
              ELSE Quiet(x, y)
  <2> DEFINE z == [x EXCEPT !.key = TRUE, !.excludes = {}, !.enabled = FALSE]
  <2>1. y = IF x.keypair /\ f.arg = "ok" THEN SendCmd(z, "HU_AES_REC_RESPONSE", "none") ELSE x
    BY <1>2 DEF HandleEncryption, InstallKey
  <2>2. /\ DOMAIN z = Field /\ z.major = x.major /\ z.keypair = x.keypair /\ z.tx = x.tx
        /\ z.key = TRUE /\ z.enabled = FALSE /\ z.excludes = {}
    BY DEF Field
  <2> HIDE DEF z, y
  <2>3. Says1(z, SendCmd(z, "HU_AES_REC_RESPONSE", "none"), "HU_AES_REC_RESPONSE", "none")
    BY <2>2, SendCmdIs
  <2>6. Post(z.enabled, "CMD", "HU_AES_REC_RESPONSE", "none") = Post(x.enabled, "CMD", "HU_AES_REC_RESPONSE", "none")
    BY <2>2 DEF Post
  <2>4. CASE x.keypair /\ f.arg = "ok"
    BY <2>1, <2>2, <2>3, <2>4, <2>6 DEF Says1, Same
  <2>5. CASE ~(x.keypair /\ f.arg = "ok")
    BY <2>1, <2>5, SmallSteps
  <2> QED
    BY <2>4, <2>5
<1>3. ASSUME f.svc = "MD_ENCRYPT_READY"
      PROVE  /\ DOMAIN y = Field /\ y.major = x.major /\ y.keypair = x.keypair
             /\ y.key = x.key /\ y.enabled = (x.enabled \/ x.key) /\ y.excludes = x.excludes
             /\ y.tx = Append(x.tx, Post(x.enabled, "CMD", "MD_ENCRYPT_READY_DONE", "none"))
  <2> DEFINE z == SendCmd(x, "MD_ENCRYPT_READY_DONE", "none")
  <2>1. Says1(x, z, "MD_ENCRYPT_READY_DONE", "none")
    BY SendCmdIs
  <2>2. y = [z EXCEPT !.enabled = z.enabled \/ x.key]
    BY <1>3 DEF HandleEncryption
  <2> HIDE DEF z, y
  <2> QED
    BY <2>1, <2>2 DEF Says1, Same, Field
<1> QED
  BY <1>1, <1>2, <1>3

LEMMA CarDataIs ==
  ASSUME NEW x, DOMAIN x = Field, x.enabled \in BOOLEAN, NEW f, NEW reports \in BOOLEAN
  PROVE  LET y == HandleCarDataSubscribe(x, f, reports) IN
         /\ f.svc = "CAR_DATA_SUBSCRIBE_REQ" => Quiet(x, y) \/ Says1(x, y, "CAR_VELOCITY", "ok")
         /\ f.svc = "CAR_DATA_STOP_REQ" => Quiet(x, y)
         /\ f.svc = "CARLIFE_DATA_REQ" => Says1(x, y, "CARLIFE_DATA_SUBSCRIBE", "ok")
         /\ f.svc = "CARLIFE_DATA_SUBSCRIBE_DONE" =>
              Says1(x, y, "CARLIFE_DATA_SUBSCRIBE_DONE_RSP", "none")
<1> DEFINE y == HandleCarDataSubscribe(x, f, reports)
           w == Calls(x, "onCarDataSubscribe")
           v == [w EXCEPT !.subscribed = TRUE]
           u == [w EXCEPT !.subscribed = FALSE]
<1>1. Quiet(x, w)
  BY SmallSteps
<1>2. /\ f.svc = "CAR_DATA_SUBSCRIBE_REQ" => y = IF reports THEN SendCmd(v, "CAR_VELOCITY", "ok") ELSE v
      /\ f.svc = "CAR_DATA_STOP_REQ" => y = u
      /\ f.svc = "CARLIFE_DATA_REQ" => y = SendCmd(w, "CARLIFE_DATA_SUBSCRIBE", "ok")
      /\ f.svc = "CARLIFE_DATA_SUBSCRIBE_DONE" =>
           y = SendCmd(w, "CARLIFE_DATA_SUBSCRIBE_DONE_RSP", "none")
  BY DEF HandleCarDataSubscribe, PublishVehicleReport
<1> HIDE DEF w, y
<1>3. Quiet(w, v) /\ Quiet(w, u)
  BY <1>1 DEF Quiet, Same, Field
<1> HIDE DEF u, v
<1>4. Quiet(x, v) /\ Quiet(x, u)
  BY <1>1, <1>3, QuietAround
<1>5. \A svc, arg : Says1(w, SendCmd(w, svc, arg), svc, arg) /\ Says1(v, SendCmd(v, svc, arg), svc, arg)
  BY <1>1, <1>4, SendCmdIs DEF Quiet, Same
<1>6. \A svc, arg : Says1(x, SendCmd(w, svc, arg), svc, arg) /\ Says1(x, SendCmd(v, svc, arg), svc, arg)
  BY <1>1, <1>4, <1>5, QuietAround
<1> QED
  BY <1>2, <1>4, <1>6 DEF y

-----------------------------------------------------------------------------
\* What a session that handles a message sends, and what becomes of its cipher

\* Strings.  The provers do not know of a literal that it is one.
Text ==
  STRING \cup
    { "HU_PROTOCOL_VERSION", "STATISTIC_INFO", "HU_INFO", "HU_AUTH_REQUEST", "VIDEO_ENCODER_INIT",
      "CAR_VELOCITY", "TOUCH_ACTION_DOWN", "VR_DATA", "VIDEO_HEARTBEAT" } \cup
    { "HU_AUTH_RESULT", "MD_AUTH_RESULT_RESPONSE", "VIDEO_ENCODER_START", "HU_FEATURE_CONFIG_RESPONSE",
      "HU_RSA_PUBLIC_KEY_RESPONSE", "HU_AES_REC_RESPONSE", "MD_ENCRYPT_READY_DONE",
      "MIC_RECORD_PREPARE_DONE", "BT_HFP_STATUS_RESPONSE", "HU_ACTIVE", "CARLIFE_DATA_SUBSCRIBE",
      "CARLIFE_DATA_SUBSCRIBE_DONE_RSP" } \cup
    Handshake \cup
    { "none", "ok", "bad", "match", "reject", "good", "wrong", "true", "false" }

LEMMA TextFacts ==
  /\ "HU_PROTOCOL_VERSION" \in Text /\ "STATISTIC_INFO" \in Text /\ "HU_INFO" \in Text
  /\ "HU_AUTH_REQUEST" \in Text /\ "VIDEO_ENCODER_INIT" \in Text /\ "CAR_VELOCITY" \in Text
  /\ "TOUCH_ACTION_DOWN" \in Text /\ "VR_DATA" \in Text /\ "VIDEO_HEARTBEAT" \in Text
  /\ "HU_AUTH_RESULT" \in Text /\ "MD_AUTH_RESULT_RESPONSE" \in Text
  /\ "VIDEO_ENCODER_START" \in Text /\ "HU_FEATURE_CONFIG_RESPONSE" \in Text
  /\ "HU_RSA_PUBLIC_KEY_RESPONSE" \in Text /\ "HU_AES_REC_RESPONSE" \in Text
  /\ "MD_ENCRYPT_READY_DONE" \in Text /\ "MIC_RECORD_PREPARE_DONE" \in Text
  /\ "BT_HFP_STATUS_RESPONSE" \in Text /\ "HU_ACTIVE" \in Text /\ "CARLIFE_DATA_SUBSCRIBE" \in Text
  /\ "CARLIFE_DATA_SUBSCRIBE_DONE_RSP" \in Text
  /\ "none" \in Text /\ "ok" \in Text /\ "bad" \in Text /\ "match" \in Text /\ "reject" \in Text
  /\ "good" \in Text /\ "wrong" \in Text /\ "true" \in Text /\ "false" \in Text
  BY DEF Text

Svcs(q) == [i \in DOMAIN q |-> q[i].svc]
Answers == {AnswerTo[svc] : svc \in DOMAIN AnswerTo}

\* Messages of a session whose cipher is on or off, with or without a key.
Posted(on, key, keypair) ==
  {m \in [ch : {"CMD", "TOUCH", "VR"}, svc : Text, arg : Text, enc : BOOLEAN] :
     /\ m.enc <=> on /\ m.arg # "none"
     /\ m.svc = "HU_AUTH_RESULT" => m.arg \in {"true", "false"}
     /\ m.svc = "HU_RSA_PUBLIC_KEY_RESPONSE" => keypair
     /\ m.svc = "HU_AES_REC_RESPONSE" => key
     /\ m.svc # "MD_ENCRYPT_READY_DONE"
     /\ m.ch # "CMD" => m.svc \notin Answers}

\* The requests a session answers.
Answered(x, f) ==
  /\ f.ch = "CMD" /\ f.svc \in DOMAIN AnswerTo
  /\ f.svc = "MD_AUTH_RESPONSE" => f.arg \in {"good", "wrong"}
  /\ f.svc = "MD_RSA_PUBLIC_KEY_REQUEST" => x.keypair
  /\ f.svc = "MD_AES_KEY_SEND_REQUEST" => x.keypair /\ f.arg = "ok"
  /\ f.svc \in {"BT_HFP_STATUS_REQUEST", "BOX_ACTIVE"} => f.arg # "bad"

Cased(x) ==
  /\ DOMAIN x = Field /\ x.major \in Versions /\ x.keypair \in BOOLEAN
  /\ x.key \in BOOLEAN /\ x.enabled \in BOOLEAN /\ x.excludes \subseteq Text

Turned(x, f, y) ==
  /\ f.ch = "CMD" /\ f.svc = "MD_ENCRYPT_READY"
  /\ y.key = x.key /\ y.enabled = (x.enabled \/ x.key)
  /\ y.tx = <<Post(x.enabled, "CMD", "MD_ENCRYPT_READY_DONE", "none")>>
Kept(x, f, y) ==
  /\ f.ch = "CMD" => f.svc # "MD_ENCRYPT_READY"
  /\ x.key => y.key
  /\ y.enabled = x.enabled /\ y.tx \in Seq(Posted(x.enabled, y.key, x.keypair))
\* A new exchange of keys, which switches the cipher off.
KeyRequests == {"MD_RSA_PUBLIC_KEY_REQUEST", "MD_AES_KEY_SEND_REQUEST"}
Dropped(x, f, y) ==
  /\ x.enabled /\ f.ch = "CMD" /\ f.svc \in KeyRequests
  /\ ~y.enabled /\ (x.key => y.key)
  /\ y.tx \in Seq(Posted(x.enabled, y.key, x.keypair))
Handled(x, f, y) ==
  /\ Cased(y) /\ y.keypair = x.keypair /\ y.excludes \subseteq x.excludes
  /\ Turned(x, f, y) \/ Kept(x, f, y) \/ Dropped(x, f, y)
  /\ Where(Svcs(y.tx), Answers) = IF Answered(x, f) THEN <<AnswerTo[f.svc]>> ELSE <<>>

LEMMA AnswerFacts ==
  /\ DOMAIN AnswerTo =
       { "MD_AUTH_RESPONSE", "MD_AUTH_RESULT", "VIDEO_ENCODER_INIT_DONE", "MD_FEATURE_CONFIG_REQUEST",
         "MD_RSA_PUBLIC_KEY_REQUEST", "MD_AES_KEY_SEND_REQUEST", "MD_ENCRYPT_READY",
         "MIC_RECORD_PREPARE_START", "BT_HFP_STATUS_REQUEST", "BOX_ACTIVE", "CARLIFE_DATA_REQ",
         "CARLIFE_DATA_SUBSCRIBE_DONE" }
  /\ AnswerTo["MD_AUTH_RESPONSE"] = "HU_AUTH_RESULT"
  /\ AnswerTo["MD_AUTH_RESULT"] = "MD_AUTH_RESULT_RESPONSE"
  /\ AnswerTo["VIDEO_ENCODER_INIT_DONE"] = "VIDEO_ENCODER_START"
  /\ AnswerTo["MD_FEATURE_CONFIG_REQUEST"] = "HU_FEATURE_CONFIG_RESPONSE"
  /\ AnswerTo["MD_RSA_PUBLIC_KEY_REQUEST"] = "HU_RSA_PUBLIC_KEY_RESPONSE"
  /\ AnswerTo["MD_AES_KEY_SEND_REQUEST"] = "HU_AES_REC_RESPONSE"
  /\ AnswerTo["MD_ENCRYPT_READY"] = "MD_ENCRYPT_READY_DONE"
  /\ AnswerTo["MIC_RECORD_PREPARE_START"] = "MIC_RECORD_PREPARE_DONE"
  /\ AnswerTo["BT_HFP_STATUS_REQUEST"] = "BT_HFP_STATUS_RESPONSE"
  /\ AnswerTo["BOX_ACTIVE"] = "HU_ACTIVE"
  /\ AnswerTo["CARLIFE_DATA_REQ"] = "CARLIFE_DATA_SUBSCRIBE"
  /\ AnswerTo["CARLIFE_DATA_SUBSCRIBE_DONE"] = "CARLIFE_DATA_SUBSCRIBE_DONE_RSP"
  BY DEF AnswerTo

LEMMA AnswersAre ==
  Answers =
    { "HU_AUTH_RESULT", "MD_AUTH_RESULT_RESPONSE", "VIDEO_ENCODER_START", "HU_FEATURE_CONFIG_RESPONSE",
      "HU_RSA_PUBLIC_KEY_RESPONSE", "HU_AES_REC_RESPONSE", "MD_ENCRYPT_READY_DONE",
      "MIC_RECORD_PREPARE_DONE", "BT_HFP_STATUS_RESPONSE", "HU_ACTIVE", "CARLIFE_DATA_SUBSCRIBE",
      "CARLIFE_DATA_SUBSCRIBE_DONE_RSP" }
  BY AnswerFacts DEF Answers

LEMMA SvcsOfTwo ==
  ASSUME NEW p, NEW q
  PROVE  /\ Svcs(<<>>) = <<>> /\ Svcs(<<p>>) = <<p.svc>> /\ Svcs(<<p, q>>) = <<p.svc, q.svc>>
  BY DEF Svcs

LEMMA AppendTwo ==
  ASSUME NEW x, NEW y, NEW q, q = <<x>>
  PROVE  Append(q, y) = <<x, y>>
<1> DEFINE r == Append(q, y)
           t == <<x, y>>
<1>1. q \in Seq({x, y}) /\ Len(q) = 1 /\ q[1] = x
  OBVIOUS
<1>2. t \in Seq({x, y}) /\ Len(t) = 2 /\ t[1] = x /\ t[2] = y
  OBVIOUS
<1> HIDE DEF t
<1>3. r \in Seq({x, y}) /\ Len(r) = 2 /\ r[1] = x /\ r[2] = y
  <2>1. y \in {x, y}
    OBVIOUS
  <2>2. /\ r \in Seq({x, y}) /\ Len(r) = Len(q) + 1
        /\ \A i \in 1..Len(q) : r[i] = q[i]
        /\ r[Len(q) + 1] = y
    BY <1>1, <2>1, AppendProperties
  <2> HIDE DEF r
  <2> QED
    BY <1>1, <2>2
<1> HIDE DEF r
<1>4. \A i \in 1..Len(r) : r[i] = t[i]
  BY <1>2, <1>3
<1>5. r = t
  BY <1>2, <1>3, <1>4, SeqEqual
<1> QED
  BY <1>5 DEF r, t

LEMMA WhereTwo ==
  ASSUME NEW T, NEW x, NEW y
  PROVE  Where(<<x, y>>, T) = IF x \in T THEN IF y \in T THEN <<x, y>> ELSE <<x>>
                              ELSE IF y \in T THEN <<y>> ELSE <<>>
<1> DEFINE q == <<x>>
<1>1. <<x, y>> = Append(q, y) /\ q \in Seq({x, y}) /\ y \in {x, y}
  OBVIOUS
<1>2. Where(q, T) = IF x \in T THEN <<x>> ELSE <<>>
  BY WhereOne
<1>4. Append(<<>>, y) = <<y>> /\ q = <<x>>
  OBVIOUS
<1> HIDE DEF q
<1>3. Where(Append(q, y), T) = IF y \in T THEN Append(Where(q, T), y) ELSE Where(q, T)
  BY <1>1, WhereAppend
<1>5. CASE x \in T
  <2>1. Where(q, T) = q
    BY <1>2, <1>4, <1>5
  <2>2. Append(q, y) = <<x, y>>
    BY <1>4, AppendTwo
  <2> QED
    BY <1>3, <1>4, <1>5, <2>1, <2>2
<1>6. CASE x \notin T
  <2>1. Where(q, T) = <<>>
    BY <1>2, <1>6
  <2>2. Append(q, y) = <<x, y>>
    BY <1>4, AppendTwo
  <2> QED
    BY <1>3, <1>4, <1>6, <2>1, <2>2
<1> QED
  BY <1>5, <1>6

\* A message a session may send whatever it handles.
Plain(svc, arg) ==
  /\ svc \in Text /\ arg \in Text
  /\ svc \notin {"HU_AUTH_RESULT", "HU_RSA_PUBLIC_KEY_RESPONSE", "HU_AES_REC_RESPONSE",
                 "MD_ENCRYPT_READY_DONE"}

LEMMA QuietHandled ==
  ASSUME NEW x, Cased(x), x.tx = <<>>, NEW f, NEW y, Quiet(x, y), ~Answered(x, f),
         f.ch = "CMD" => f.svc # "MD_ENCRYPT_READY"
  PROVE  Handled(x, f, y)
<1>1. y.tx = <<>> /\ Where(Svcs(y.tx), Answers) = <<>>
  BY SvcsOfTwo, WhereEmpty DEF Quiet
<1>2. Cased(y) /\ Kept(x, f, y) /\ y.keypair = x.keypair /\ y.excludes = x.excludes
  BY <1>1, EmptySeq DEF Quiet, Same, Cased, Kept
<1> QED
  BY <1>1, <1>2 DEF Handled

Adds(x, y, svc, arg) == y.tx = Append(x.tx, Post(x.enabled, "CMD", svc, arg))

LEMMA SaysHandled ==
  ASSUME NEW x, Cased(x), x.tx = <<>>, NEW f, NEW y, NEW svc, NEW arg,
         Cased(y), y.keypair = x.keypair, y.excludes \subseteq x.excludes,
         y.enabled = x.enabled \/ (~y.enabled /\ f.ch = "CMD" /\ f.svc \in KeyRequests),
         x.key => y.key, Adds(x, y, svc, arg),
         svc \in Text, arg \in Text,
         svc = "HU_AUTH_RESULT" => arg \in {"true", "false"},
         svc = "HU_RSA_PUBLIC_KEY_RESPONSE" => x.keypair,
         svc = "HU_AES_REC_RESPONSE" => y.key,
         svc # "MD_ENCRYPT_READY_DONE",
         f.ch = "CMD" => f.svc # "MD_ENCRYPT_READY",
         IF Answered(x, f) THEN svc = AnswerTo[f.svc] ELSE svc \notin Answers
  PROVE  Handled(x, f, y)
<1> DEFINE p == Post(x.enabled, "CMD", svc, arg)
<1>1. p \in Posted(x.enabled, y.key, x.keypair)
  BY DEF Posted, Post, Cased
<1>2. p.svc = svc
  BY DEF Post
<1> HIDE DEF p
<1>7. y.tx = <<p>>
  BY DEF p, Adds
<1>3. y.tx \in Seq(Posted(x.enabled, y.key, x.keypair))
  BY <1>1, <1>7
<1>4. Where(Svcs(y.tx), Answers) = IF svc \in Answers THEN <<svc>> ELSE <<>>
  <2>1. Svcs(y.tx) = <<svc>>
    BY <1>2, <1>7, SvcsOfTwo
  <2> QED
    BY <2>1, WhereOne
<1>5. Answered(x, f) => AnswerTo[f.svc] \in Answers
  BY DEF Answered, Answers
<1>6. Kept(x, f, y) \/ Dropped(x, f, y)
  <2>1. x.enabled \in BOOLEAN /\ y.enabled \in BOOLEAN
    BY DEF Cased
  <2>2. CASE y.enabled = x.enabled
    BY <1>3, <2>2 DEF Kept
  <2>3. CASE y.enabled # x.enabled
    BY <1>3, <2>1, <2>3 DEF Dropped
  <2> QED
    BY <2>2, <2>3
<1> QED
  BY <1>4, <1>5, <1>6 DEF Handled

LEMMA Says1Handled ==
  ASSUME NEW x, Cased(x), x.tx = <<>>, NEW f, NEW y, NEW svc, NEW arg, Says1(x, y, svc, arg),
         svc \in Text, arg \in Text,
         svc = "HU_AUTH_RESULT" => arg \in {"true", "false"},
         svc = "HU_RSA_PUBLIC_KEY_RESPONSE" => x.keypair,
         svc \notin {"HU_AES_REC_RESPONSE", "MD_ENCRYPT_READY_DONE"},
         f.ch = "CMD" => f.svc # "MD_ENCRYPT_READY",
         IF Answered(x, f) THEN svc = AnswerTo[f.svc] ELSE svc \notin Answers
  PROVE  Handled(x, f, y)
<1>1. Cased(y) /\ y.keypair = x.keypair /\ y.enabled = x.enabled /\ y.excludes = x.excludes
      /\ y.key = x.key /\ Adds(x, y, svc, arg)
  BY DEF Says1, Same, Cased, Adds
<1> QED
  BY <1>1, SaysHandled

LEMMA Says2Handled ==
  ASSUME NEW x, Cased(x), x.tx = <<>>, NEW f, NEW y, NEW svc1, NEW arg1, NEW svc2, NEW arg2,
         Says2(x, y, svc1, arg1, svc2, arg2), Plain(svc1, arg1), Plain(svc2, arg2),
         f.ch = "CMD" => f.svc # "MD_ENCRYPT_READY",
         svc2 \notin Answers,
         IF Answered(x, f) THEN svc1 = AnswerTo[f.svc] ELSE svc1 \notin Answers
  PROVE  Handled(x, f, y)
<1> DEFINE p == Post(x.enabled, "CMD", svc1, arg1)
           q == Post(x.enabled, "CMD", svc2, arg2)
<1>1. p \in Posted(x.enabled, y.key, x.keypair) /\ q \in Posted(x.enabled, y.key, x.keypair)
  BY DEF Posted, Post, Cased, Plain
<1>2. p.svc = svc1 /\ q.svc = svc2
  BY DEF Post
<1> HIDE DEF p, q
<1>7. y.tx = <<p, q>>
  <2> DEFINE first == Append(<<>>, p)
  <2>1. y.tx = Append(first, q)
    BY DEF Says2, p, q
  <2>2. first = <<p>>
    OBVIOUS
  <2> HIDE DEF first
  <2> QED
    BY <2>1, <2>2, AppendTwo
<1>3. y.tx \in Seq(Posted(x.enabled, y.key, x.keypair))
  BY <1>1, <1>7
<1>4. Where(Svcs(y.tx), Answers) = IF svc1 \in Answers THEN <<svc1>> ELSE <<>>
  <2>1. Svcs(y.tx) = <<svc1, svc2>>
    BY <1>2, <1>7, SvcsOfTwo
  <2>2. Where(<<svc1, svc2>>, Answers) = IF svc1 \in Answers THEN <<svc1>> ELSE <<>>
    <3>1. Where(<<svc1, svc2>>, Answers)
            = IF svc1 \in Answers THEN IF svc2 \in Answers THEN <<svc1, svc2>> ELSE <<svc1>>
              ELSE IF svc2 \in Answers THEN <<svc2>> ELSE <<>>
      BY WhereTwo
    <3> QED
      BY <3>1
  <2> QED
    BY <2>1, <2>2
<1>5. Answered(x, f) => AnswerTo[f.svc] \in Answers
  BY DEF Answered, Answers
<1>6. Kept(x, f, y) /\ Cased(y) /\ y.keypair = x.keypair /\ y.excludes = x.excludes
  BY <1>3 DEF Kept, Says2, Same, Cased
<1> QED
  BY <1>4, <1>5, <1>6 DEF Handled

\* What the handlers of the handshake send, and what becomes of the cipher.
LEMMA HandshakeHandled ==
  ASSUME NEW x, Cased(x), x.tx = <<>>, NEW f, f.ch = "CMD", f.arg \in Text, NEW reports \in BOOLEAN,
         f.svc \in {"PROTOCOL_VERSION_MATCH_STATUS", "MD_INFO", "MD_AUTH_RESPONSE", "MD_AUTH_RESULT"}
  PROVE  Handled(x, f, HandleCmd(x, f, reports))
<1> DEFINE y == HandleCmd(x, f, reports)
<1>0. DOMAIN x = Field /\ x.enabled \in BOOLEAN
  BY DEF Cased
<1>1. CASE f.svc = "PROTOCOL_VERSION_MATCH_STATUS"
  <2>1. y = HandleProtocolVersionMatch(x, f)
    BY <1>1 DEF HandleCmd
  <2>2. ~Answered(x, f)
    BY <1>1, AnswerFacts DEF Answered
  <2> HIDE DEF y
  <2>3. CASE f.arg = "match"
    <3>1. Says1(x, y, "STATISTIC_INFO", "ok")
      BY <1>0, <2>1, <2>3, VersionMatchIs
    <3> QED
      BY <1>1, <2>2, <3>1, AnswersAre, Says1Handled, TextFacts DEF y
  <2>4. CASE f.arg # "match" /\ f.arg \in Versions \ {x.major}
    <3>1. PICK z : /\ DOMAIN z = Field /\ z.major = f.arg /\ z.keypair = x.keypair /\ z.key = x.key
                   /\ z.enabled = x.enabled /\ z.excludes = x.excludes /\ z.tx = x.tx
                   /\ Says1(z, y, "HU_PROTOCOL_VERSION", f.arg)
      BY <1>0, <2>1, <2>4, VersionMatchIs
    <3>2. /\ Cased(y) /\ y.keypair = x.keypair /\ y.enabled = x.enabled /\ y.excludes = x.excludes
          /\ y.key = x.key /\ Adds(x, y, "HU_PROTOCOL_VERSION", f.arg)
      BY <2>4, <3>1 DEF Says1, Same, Cased, Adds
    <3>3. "HU_PROTOCOL_VERSION" \notin Answers
      BY AnswersAre
    <3> QED
      BY <1>1, <2>2, <3>2, <3>3, SaysHandled, TextFacts DEF y
  <2>5. CASE f.arg # "match" /\ f.arg \notin Versions \ {x.major}
    <3>1. Quiet(x, y)
      BY <1>0, <2>1, <2>5, VersionMatchIs
    <3> QED
      BY <1>1, <2>2, <3>1, QuietHandled DEF y
  <2> QED
    BY <2>3, <2>4, <2>5
<1>2. CASE f.svc = "MD_INFO"
  <2>1. y = HandleMdInfo(x)
    BY <1>2 DEF HandleCmd
  <2>2. Says2(x, y, "HU_INFO", "ok", "HU_AUTH_REQUEST", "ok") /\ ~Answered(x, f)
    BY <1>0, <1>2, <2>1, MdInfoIs, AnswerFacts DEF Answered
  <2> HIDE DEF y
  <2>3. Plain("HU_INFO", "ok") /\ Plain("HU_AUTH_REQUEST", "ok")
    BY TextFacts DEF Plain
  <2> QED
    BY <1>2, <2>2, <2>3, AnswersAre, Says2Handled DEF y
<1>3. CASE f.svc = "MD_AUTH_RESPONSE"
  <2>1. y = HandleAuthResponse(x, f)
    BY <1>3 DEF HandleCmd
  <2>2. Answered(x, f) <=> f.arg \in {"good", "wrong"}
    BY <1>3, AnswerFacts DEF Answered
  <2> HIDE DEF y
  <2>3. CASE f.arg = "good"
    <3>1. Says1(x, y, "HU_AUTH_RESULT", "true")
      BY <1>0, <2>1, <2>3, AuthResponseIs
    <3> QED
      BY <1>3, <2>2, <2>3, <3>1, AnswerFacts, Says1Handled, TextFacts DEF y
  <2>4. CASE f.arg = "wrong"
    <3>1. Says1(x, y, "HU_AUTH_RESULT", "false")
      BY <1>0, <2>1, <2>4, AuthResponseIs
    <3> QED
      BY <1>3, <2>2, <2>4, <3>1, AnswerFacts, Says1Handled, TextFacts DEF y
  <2>5. CASE f.arg \notin {"good", "wrong"}
    <3>1. Quiet(x, y)
      BY <1>0, <2>1, <2>5, AuthResponseIs
    <3> QED
      BY <1>3, <2>2, <2>5, <3>1, QuietHandled DEF y
  <2> QED
    BY <2>3, <2>4, <2>5
<1>4. CASE f.svc = "MD_AUTH_RESULT"
  <2>1. y = HandleAuthResult(x, f)
    BY <1>4 DEF HandleCmd
  <2>2. Answered(x, f) /\ AnswerTo[f.svc] = "MD_AUTH_RESULT_RESPONSE"
    BY <1>4, AnswerFacts DEF Answered
  <2>3. \/ Says2(x, y, "MD_AUTH_RESULT_RESPONSE", "none", "VIDEO_ENCODER_INIT", "ok")
        \/ Says1(x, y, "MD_AUTH_RESULT_RESPONSE", "none")
    BY <1>0, <2>1, AuthResultIs
  <2> HIDE DEF y
  <2>4. CASE Says1(x, y, "MD_AUTH_RESULT_RESPONSE", "none")
    BY <1>4, <2>2, <2>4, Says1Handled, TextFacts DEF y
  <2>5. CASE Says2(x, y, "MD_AUTH_RESULT_RESPONSE", "none", "VIDEO_ENCODER_INIT", "ok")
    <3>1. Plain("MD_AUTH_RESULT_RESPONSE", "none") /\ Plain("VIDEO_ENCODER_INIT", "ok")
      BY TextFacts DEF Plain
    <3>2. "VIDEO_ENCODER_INIT" \notin Answers
      BY AnswersAre
    <3> QED
      BY <1>4, <2>2, <2>5, <3>1, <3>2, Says2Handled DEF y
  <2> QED
    BY <2>3, <2>4, <2>5
<1> QED
  BY <1>1, <1>2, <1>3, <1>4

\* The requests that are answered at once.
LEMMA RequestHandled ==
  ASSUME NEW x, Cased(x), x.tx = <<>>, NEW f, f.ch = "CMD", f.arg \in Text, NEW reports \in BOOLEAN,
         f.svc \in {"MD_FEATURE_CONFIG_REQUEST", "VIDEO_ENCODER_INIT_DONE", "MIC_RECORD_PREPARE_START",
                   "BT_HFP_STATUS_REQUEST", "BOX_ACTIVE"}
  PROVE  Handled(x, f, HandleCmd(x, f, reports))
<1> DEFINE y == HandleCmd(x, f, reports)
<1>0. DOMAIN x = Field /\ x.enabled \in BOOLEAN
  BY DEF Cased
<1>a. f.svc \in {"BT_HFP_STATUS_REQUEST", "BOX_ACTIVE"} \/ Answered(x, f)
  BY AnswerFacts DEF Answered
<1>b. f.svc \in {"BT_HFP_STATUS_REQUEST", "BOX_ACTIVE"} => (Answered(x, f) <=> f.arg # "bad")
  BY AnswerFacts DEF Answered
<1>1. CASE f.svc = "MD_FEATURE_CONFIG_REQUEST"
  <2>1. y = HandleFeatureConfigRequest(x)
    BY <1>1 DEF HandleCmd
  <2> HIDE DEF y
  <2>2. Says1(x, y, "HU_FEATURE_CONFIG_RESPONSE", "ok")
    BY <1>0, <2>1, Answers1
  <2> QED
    BY <1>1, <1>a, <2>2, AnswerFacts, Says1Handled, TextFacts DEF y
<1>2. CASE f.svc = "VIDEO_ENCODER_INIT_DONE"
  <2>1. y = HandleVideoInitDone(x)
    BY <1>2 DEF HandleCmd
  <2> HIDE DEF y
  <2>2. Says1(x, y, "VIDEO_ENCODER_START", "none")
    BY <1>0, <2>1, Answers1
  <2> QED
    BY <1>2, <1>a, <2>2, AnswerFacts, Says1Handled, TextFacts DEF y
<1>3. CASE f.svc = "MIC_RECORD_PREPARE_START"
  <2>1. y = HandleMicRecordPrepare(x)
    BY <1>3 DEF HandleCmd
  <2> HIDE DEF y
  <2>2. Says1(x, y, "MIC_RECORD_PREPARE_DONE", "none")
    BY <1>0, <2>1, Answers1
  <2> QED
    BY <1>3, <1>a, <2>2, AnswerFacts, Says1Handled, TextFacts DEF y
<1>4. CASE f.svc = "BT_HFP_STATUS_REQUEST"
  <2>1. y = HandleHfpStatusRequest(x, f)
    BY <1>4 DEF HandleCmd
  <2> HIDE DEF y
  <2>2. IF f.arg = "bad" THEN Quiet(x, y) ELSE Says1(x, y, "BT_HFP_STATUS_RESPONSE", "ok")
    BY <1>0, <2>1, Answers1
  <2>3. CASE f.arg = "bad"
    BY <1>4, <1>b, <2>2, <2>3, QuietHandled DEF y
  <2>4. CASE f.arg # "bad"
    BY <1>4, <1>b, <2>2, <2>4, AnswerFacts, Says1Handled, TextFacts DEF y
  <2> QED
    BY <2>3, <2>4
<1>5. CASE f.svc = "BOX_ACTIVE"
  <2>1. y = HandleActivationRequest(x, f)
    BY <1>5 DEF HandleCmd
  <2> HIDE DEF y
  <2>2. IF f.arg = "bad" THEN Quiet(x, y) ELSE Says1(x, y, "HU_ACTIVE", "ok")
    BY <1>0, <2>1, Answers1
  <2>3. CASE f.arg = "bad"
    BY <1>5, <1>b, <2>2, <2>3, QuietHandled DEF y
  <2>4. CASE f.arg # "bad"
    BY <1>5, <1>b, <2>2, <2>4, AnswerFacts, Says1Handled, TextFacts DEF y
  <2> QED
    BY <2>3, <2>4
<1> QED
  BY <1>1, <1>2, <1>3, <1>4, <1>5

\* The key exchange.
LEMMA EncryptionHandled ==
  ASSUME NEW x, Cased(x), x.tx = <<>>, NEW f, f.ch = "CMD", f.arg \in Text, NEW reports \in BOOLEAN,
         f.svc \in {"MD_RSA_PUBLIC_KEY_REQUEST", "MD_AES_KEY_SEND_REQUEST", "MD_ENCRYPT_READY"}
  PROVE  Handled(x, f, HandleCmd(x, f, reports))
<1> DEFINE y == HandleCmd(x, f, reports)
<1>0. DOMAIN x = Field /\ x.enabled \in BOOLEAN
  BY DEF Cased
<1>1. y = HandleEncryption(x, f)
  BY DEF HandleCmd
<1> HIDE DEF y
<1>2. CASE f.svc = "MD_RSA_PUBLIC_KEY_REQUEST"
  <2>2. Answered(x, f) <=> x.keypair
    BY <1>2, AnswerFacts DEF Answered
  <2>3. CASE x.keypair
    <3>1. /\ DOMAIN y = Field /\ y.major = x.major /\ y.keypair = x.keypair
          /\ y.key = x.key /\ y.enabled = FALSE /\ y.excludes = x.excludes
          /\ y.tx = Append(x.tx, Post(x.enabled, "CMD", "HU_RSA_PUBLIC_KEY_RESPONSE", "ok"))
      <4> DEFINE z == HandleEncryption(x, f)
                 RSA == f.svc = "MD_RSA_PUBLIC_KEY_REQUEST"
                 KeyGiven == /\ DOMAIN z = Field /\ z.major = x.major /\ z.keypair = x.keypair
                             /\ z.key = x.key /\ z.enabled = FALSE /\ z.excludes = x.excludes
                             /\ z.tx = Append(x.tx, Post(x.enabled, "CMD", "HU_RSA_PUBLIC_KEY_RESPONSE", "ok"))
      <4>1. RSA => IF x.keypair THEN KeyGiven ELSE Quiet(x, z)
        BY <1>0, EncryptionIs
      <4> HIDE DEF KeyGiven
      <4>2. KeyGiven
        BY <1>2, <2>3, <4>1
      <4> QED
        BY <1>1, <4>2 DEF KeyGiven
    <3>2. Cased(y) /\ Adds(x, y, "HU_RSA_PUBLIC_KEY_RESPONSE", "ok")
      BY <3>1 DEF Cased, Adds
    <3>3. f.svc \in KeyRequests
      BY <1>2 DEF KeyRequests
    <3> QED
      BY <1>2, <2>2, <2>3, <3>1, <3>2, <3>3, AnswerFacts, SaysHandled, TextFacts, ZenonT(30) DEF y
  <2>4. CASE ~x.keypair
    <3>1. Quiet(x, y)
      BY <1>0, <1>1, <1>2, <2>4, EncryptionIs
    <3> QED
      BY <1>2, <2>2, <2>4, <3>1, QuietHandled DEF y
  <2> QED
    BY <2>3, <2>4
<1>3. CASE f.svc = "MD_AES_KEY_SEND_REQUEST"
  <2>1. Answered(x, f) <=> x.keypair /\ f.arg = "ok"
    BY <1>3, AnswerFacts DEF Answered
  <2>2. CASE x.keypair /\ f.arg = "ok"
    <3>1. /\ DOMAIN y = Field /\ y.major = x.major /\ y.keypair = x.keypair
          /\ y.key = TRUE /\ y.enabled = FALSE /\ y.excludes = {}
          /\ y.tx = Append(x.tx, Post(x.enabled, "CMD", "HU_AES_REC_RESPONSE", "none"))
      BY <1>0, <1>1, <1>3, <2>2, EncryptionIs, ZenonT(30)
    <3>2. Cased(y) /\ Adds(x, y, "HU_AES_REC_RESPONSE", "none")
      BY <3>1 DEF Cased, Adds
    <3>3. f.svc \in KeyRequests
      BY <1>3 DEF KeyRequests
    <3> QED
      BY <1>3, <2>1, <2>2, <3>1, <3>2, <3>3, AnswerFacts, SaysHandled, TextFacts, ZenonT(30) DEF y
  <2>3. CASE ~(x.keypair /\ f.arg = "ok")
    <3>1. Quiet(x, y)
      BY <1>0, <1>1, <1>3, <2>3, EncryptionIs
    <3> QED
      BY <1>3, <2>1, <2>3, <3>1, QuietHandled DEF y
  <2> QED
    BY <2>2, <2>3
<1>4. CASE f.svc = "MD_ENCRYPT_READY"
  <2>1. /\ DOMAIN y = Field /\ y.major = x.major /\ y.keypair = x.keypair
        /\ y.key = x.key /\ y.enabled = (x.enabled \/ x.key) /\ y.excludes = x.excludes
        /\ y.tx = Append(x.tx, Post(x.enabled, "CMD", "MD_ENCRYPT_READY_DONE", "none"))
    BY <1>0, <1>1, <1>4, EncryptionIs
  <2> DEFINE p == Post(x.enabled, "CMD", "MD_ENCRYPT_READY_DONE", "none")
  <2>2. p.svc = "MD_ENCRYPT_READY_DONE"
    BY DEF Post
  <2>3. y.tx = Append(<<>>, p)
    BY <2>1
  <2> HIDE DEF p
  <2>4. y.tx = <<p>>
    BY <2>3
  <2>5. Where(Svcs(y.tx), Answers) = <<"MD_ENCRYPT_READY_DONE">>
    <3>1. Svcs(y.tx) = <<"MD_ENCRYPT_READY_DONE">>
      BY <2>2, <2>4, SvcsOfTwo
    <3> QED
      BY <3>1, WhereOne, AnswersAre
  <2>6. Answered(x, f) /\ AnswerTo[f.svc] = "MD_ENCRYPT_READY_DONE"
    BY <1>4, AnswerFacts DEF Answered
  <2>7. Turned(x, f, y) /\ Cased(y)
    BY <1>4, <2>1, <2>4 DEF Turned, Cased, p
  <2> QED
    BY <2>1, <2>5, <2>6, <2>7 DEF Handled, y
<1> QED
  BY <1>2, <1>3, <1>4

\* Subscriptions to the data of the car.
LEMMA CarDataHandled ==
  ASSUME NEW x, Cased(x), x.tx = <<>>, NEW f, f.ch = "CMD", f.arg \in Text, NEW reports \in BOOLEAN,
         f.svc \in {"CAR_DATA_SUBSCRIBE_REQ", "CAR_DATA_STOP_REQ", "CARLIFE_DATA_REQ",
                   "CARLIFE_DATA_SUBSCRIBE_DONE"}
  PROVE  Handled(x, f, HandleCmd(x, f, reports))
<1> DEFINE y == HandleCmd(x, f, reports)
<1>0. DOMAIN x = Field /\ x.enabled \in BOOLEAN
  BY DEF Cased
<1>1. y = HandleCarDataSubscribe(x, f, reports)
  BY DEF HandleCmd
<1> HIDE DEF y
<1>2. CASE f.svc \in {"CAR_DATA_SUBSCRIBE_REQ", "CAR_DATA_STOP_REQ"}
  <2>1. Quiet(x, y) \/ Says1(x, y, "CAR_VELOCITY", "ok")
    BY <1>0, <1>1, <1>2, CarDataIs
  <2>2. ~Answered(x, f) /\ "CAR_VELOCITY" \notin Answers /\ f.svc # "MD_ENCRYPT_READY"
    BY <1>2, AnswerFacts, AnswersAre DEF Answered
  <2> QED
    BY <2>1, <2>2, QuietHandled, Says1Handled, TextFacts DEF y
<1>3. CASE f.svc = "CARLIFE_DATA_REQ"
  <2>1. Says1(x, y, "CARLIFE_DATA_SUBSCRIBE", "ok")
    BY <1>0, <1>1, <1>3, CarDataIs
  <2>2. Answered(x, f)
    BY <1>3, AnswerFacts DEF Answered
  <2> QED
    BY <1>3, <2>1, <2>2, AnswerFacts, Says1Handled, TextFacts DEF y
<1>4. CASE f.svc = "CARLIFE_DATA_SUBSCRIBE_DONE"
  <2>1. Says1(x, y, "CARLIFE_DATA_SUBSCRIBE_DONE_RSP", "none")
    BY <1>0, <1>1, <1>4, CarDataIs
  <2>2. Answered(x, f)
    BY <1>4, AnswerFacts DEF Answered
  <2> QED
    BY <1>4, <2>1, <2>2, AnswerFacts, Says1Handled, TextFacts DEF y
<1> QED
  BY <1>2, <1>3, <1>4

\* Whatever it is that is handled.
LEMMA FrameHandled ==
  ASSUME NEW x, Cased(x), x.tx = <<>>, NEW f, f.arg \in Text, NEW reports \in BOOLEAN
  PROVE  Handled(x, f, HandleFrame(x, f, reports))
<1> DEFINE y == HandleFrame(x, f, reports)
<1>0. DOMAIN x = Field /\ x.enabled \in BOOLEAN
  BY DEF Cased
<1>1. CASE f.ch # "CMD"
  <2>1. Quiet(x, y) /\ ~Answered(x, f)
    BY <1>0, <1>1, Answers1 DEF HandleFrame, Answered
  <2> QED
    BY <1>1, <2>1, QuietHandled
<1>2. CASE f.ch = "CMD"
  <2>0. y = HandleCmd(x, f, reports)
    BY <1>2 DEF HandleFrame
  <2>1. CASE f.svc \in {"PROTOCOL_VERSION_MATCH_STATUS", "MD_INFO", "MD_AUTH_RESPONSE", "MD_AUTH_RESULT",
                      "MD_FEATURE_CONFIG_REQUEST", "VIDEO_ENCODER_INIT_DONE", "MIC_RECORD_PREPARE_START",
                      "BT_HFP_STATUS_REQUEST", "BOX_ACTIVE", "MD_RSA_PUBLIC_KEY_REQUEST",
                      "MD_AES_KEY_SEND_REQUEST", "MD_ENCRYPT_READY", "CAR_DATA_SUBSCRIBE_REQ",
                      "CAR_DATA_STOP_REQ", "CARLIFE_DATA_REQ", "CARLIFE_DATA_SUBSCRIBE_DONE"}
    BY <1>2, <2>0, <2>1, HandshakeHandled, RequestHandled, EncryptionHandled, CarDataHandled
  <2>2. CASE f.svc \in {"MIC_RECORD_WAKEUP_START", "MIC_RECORD_END"}
    <3>1. y = HandleMicRecord(x, f) /\ ~Answered(x, f)
      BY <2>0, <2>2, AnswerFacts DEF HandleCmd, Answered
    <3>2. Quiet(x, y)
      BY <1>0, <3>1, Answers1
    <3> QED
      BY <2>2, <3>1, <3>2, QuietHandled
  <2>3. CASE f.svc = "MD_EXIT"
    <3>1. y = [x EXCEPT !.running = FALSE] /\ ~Answered(x, f)
      BY <2>0, <2>3, AnswerFacts DEF HandleCmd, Answered
    <3>2. Quiet(x, y)
      BY <1>0, <3>1 DEF Quiet, Same, Field
    <3> QED
      BY <2>3, <3>1, <3>2, QuietHandled
  <2>4. CASE f.svc \notin {"PROTOCOL_VERSION_MATCH_STATUS", "MD_INFO", "MD_AUTH_RESPONSE", "MD_AUTH_RESULT",
                      "MD_FEATURE_CONFIG_REQUEST", "VIDEO_ENCODER_INIT_DONE", "MIC_RECORD_PREPARE_START",
                      "BT_HFP_STATUS_REQUEST", "BOX_ACTIVE", "MD_RSA_PUBLIC_KEY_REQUEST",
                      "MD_AES_KEY_SEND_REQUEST", "MD_ENCRYPT_READY", "CAR_DATA_SUBSCRIBE_REQ",
                      "CAR_DATA_STOP_REQ", "CARLIFE_DATA_REQ", "CARLIFE_DATA_SUBSCRIBE_DONE",
                      "MIC_RECORD_WAKEUP_START", "MIC_RECORD_END", "MD_EXIT"}
    <3>1. y = Notify(x, f)
      BY <2>0, <2>4 DEF HandleCmd
    <3>2. ~Answered(x, f)
      BY <2>4, AnswerFacts DEF Answered
    <3>3. Quiet(x, y)
      BY <1>0, <3>1, Answers1
    <3> QED
      BY <2>4, <3>2, <3>3, QuietHandled
  <2> QED
    BY <2>1, <2>2, <2>3, <2>4
<1> QED
  BY <1>1, <1>2

-----------------------------------------------------------------------------
\* The channels of a sequence of messages

LEMMA WhereAgrees ==
  ASSUME NEW S, NEW q \in Seq(S), NEW T, NEW U, \A m \in Range(q) : m \in T <=> m \in U
  PROVE  Where(q, T) = Where(q, U)
<1> DEFINE P == {t \in Seq(S) : (\A m \in Range(t) : m \in T <=> m \in U) => Where(t, T) = Where(t, U)}
<1>1. <<>> \in P
  BY WhereEmpty, EmptySeq
<1>2. ASSUME NEW t \in Seq(S), NEW x \in S, t \in P PROVE Append(t, x) \in P
  <2> DEFINE r == Append(t, x)
  <2>1. /\ r \in Seq(S) /\ Len(r) = Len(t) + 1 /\ Len(t) \in Nat
        /\ \A i \in 1..Len(t) : r[i] = t[i]
        /\ r[Len(t) + 1] = x /\ DOMAIN t = 1..Len(t)
    BY AppendProperties, LenProperties
  <2>2. DOMAIN r = 1..Len(r)
    BY <2>1, LenProperties
  <2>3. /\ Where(r, T) = IF x \in T THEN Append(Where(t, T), x) ELSE Where(t, T)
        /\ Where(r, U) = IF x \in U THEN Append(Where(t, U), x) ELSE Where(t, U)
    BY WhereAppend
  <2> HIDE DEF r
  <2>4. SUFFICES ASSUME \A m \in Range(r) : m \in T <=> m \in U PROVE Where(r, T) = Where(r, U)
    BY <2>1 DEF r
  <2>5. \A i \in 1..Len(t) : t[i] \in Range(r)
    BY <2>1, <2>2 DEF Range
  <2>6. Range(t) \subseteq Range(r) /\ x \in Range(r)
    BY <2>1, <2>2, <2>5 DEF Range
  <2>7. Where(t, T) = Where(t, U)
    BY <1>2, <2>4, <2>6
  <2> QED
    BY <2>3, <2>4, <2>6, <2>7
<1> HIDE DEF P
<1>3. Seq(S) \subseteq P
  BY <1>1, <1>2, SeqInduction
<1> QED
  BY <1>3 DEF P

LEMMA RangeIn == ASSUME NEW S, NEW q \in Seq(S) PROVE Range(q) \subseteq S
  BY LenProperties DEF Range

\* Of a sequence of messages, the set to pick from can be fixed.
LEMMA OfIs ==
  ASSUME NEW S, NEW q \in Seq(S), NEW c
  PROVE  Of(q, c) = Where(q, {m \in S : m.ch = c})
<1>1. Range(q) \subseteq S
  BY RangeIn
<1> DEFINE T == {m \in Range(q) : m.ch = c}
           U == {m \in S : m.ch = c}
<1>2. \A m \in Range(q) : m \in T <=> m \in U
  BY <1>1
<1> HIDE DEF T, U
<1>3. Where(q, T) = Where(q, U)
  BY <1>2, WhereAgrees
<1> QED
  BY <1>3 DEF Of, T, U

LEMMA OfFacts ==
  ASSUME NEW S, NEW c
  PROVE  /\ Of(<<>>, c) = <<>>
         /\ \A q \in Seq(S) : Of(q, c) \in Seq({m \in S : m.ch = c}) /\ Of(q, c) \in Seq(S)
<1> DEFINE T == {m \in S : m.ch = c}
<1>1. Of(<<>>, c) = <<>>
  BY WhereEmpty DEF Of
<1>2. ASSUME NEW q \in Seq(S) PROVE Of(q, c) \in Seq(T) /\ Of(q, c) \in Seq(S)
  <2>1. Where(q, T) \in Seq(S \cap T) /\ Where(q, T) \in Seq(S)
    BY WhereType
  <2>2. S \cap T = T
    OBVIOUS
  <2> QED
    BY OfIs, <2>1, <2>2
<1> QED
  BY <1>1, <1>2

LEMMA OfAppend ==
  ASSUME NEW S, NEW c, NEW q \in Seq(S), NEW x \in S
  PROVE  Of(Append(q, x), c) = IF x.ch = c THEN Append(Of(q, c), x) ELSE Of(q, c)
<1> DEFINE T == {m \in S : m.ch = c}
           r == Append(q, x)
<1>1. r \in Seq(S)
  BY AppendProperties
<1> HIDE DEF r
<1>2. Of(r, c) = Where(r, T) /\ Of(q, c) = Where(q, T)
  BY <1>1, OfIs
<1>3. x \in T <=> x.ch = c
  OBVIOUS
<1> HIDE DEF T
<1>4. Where(Append(q, x), T) = IF x \in T THEN Append(Where(q, T), x) ELSE Where(q, T)
  BY WhereAppend
<1> QED
  BY <1>2, <1>3, <1>4 DEF r

\* Of, from the front.
LEMMA OfHead ==
  ASSUME NEW S, NEW c, NEW q \in Seq(S), q # <<>>
  PROVE  Of(q, c) = IF Head(q).ch = c THEN <<Head(q)>> \o Of(Tail(q), c) ELSE Of(Tail(q), c)
<1> DEFINE T == {m \in S : m.ch = c}
           t == Tail(q)
           h == Head(q)
<1>1. h \in S /\ t \in Seq(S)
  BY HeadTailProperties
<1>2. h \in T <=> h.ch = c
  BY <1>1
<1> HIDE DEF T, t, h
<1>3. Where(q, T) = IF h \in T THEN <<h>> \o Where(t, T) ELSE Where(t, T)
  BY WhereHead DEF h, t
<1>4. Of(q, c) = Where(q, T) /\ Of(t, c) = Where(t, T)
  BY <1>1, OfIs DEF T
<1> QED
  BY <1>2, <1>3, <1>4 DEF h, t

-----------------------------------------------------------------------------
\* What a round of the loop sends

\* Messages for the phone, as far as the cipher has come.
Outbound(key, keypair) ==
  {m \in [ch : {"CMD", "TOUCH", "VR", "VIDEO"}, svc : Text, arg : Text, enc : BOOLEAN] :
     /\ m.svc = "HU_AUTH_RESULT" => m.arg \in {"true", "false"}
     /\ m.svc = "HU_RSA_PUBLIC_KEY_RESPONSE" => keypair
     /\ m.svc = "HU_AES_REC_RESPONSE" => key}
Wire == [ch : Channel, svc : Text, arg : Text, enc : BOOLEAN]

LEMMA PostedOut ==
  ASSUME NEW on \in BOOLEAN, NEW key \in BOOLEAN, NEW keypair \in BOOLEAN
  PROVE  /\ Posted(on, key, keypair) \subseteq Outbound(key, keypair)
         /\ Post(on, "CMD", "MD_ENCRYPT_READY_DONE", "none") \in Outbound(key, keypair)
<1>1. Posted(on, key, keypair) \subseteq Outbound(key, keypair)
  BY DEF Posted, Outbound
<1>2. Post(on, "CMD", "MD_ENCRYPT_READY_DONE", "none") \in Outbound(key, keypair)
  BY TextFacts DEF Post, Outbound
<1> QED
  BY <1>1, <1>2

\* What the host has to send is one message, or none.
Offered(x, y) ==
  \/ y.tx = x.tx
  \/ \E m \in Posted(x.enabled, x.key, x.keypair) :
       m.svc \notin Answers /\ y.tx = Append(x.tx, m)

LEMMA PollsIs ==
  ASSUME NEW x, Cased(x), NEW offer
  PROVE  Same(x, Polls(x, offer)) /\ Offered(x, Polls(x, offer))
<1>0. DOMAIN x = Field /\ x.enabled \in BOOLEAN
  BY DEF Cased
<1> DEFINE p(c, svc) == Post(x.enabled, c, svc, "ok")
<1>1. /\ p("TOUCH", "TOUCH_ACTION_DOWN") \in Posted(x.enabled, x.key, x.keypair)
      /\ p("VR", "VR_DATA") \in Posted(x.enabled, x.key, x.keypair)
      /\ p("CMD", "CAR_VELOCITY") \in Posted(x.enabled, x.key, x.keypair)
  BY <1>0, TextFacts, AnswersAre DEF Post, Posted
<1>2. /\ p("TOUCH", "TOUCH_ACTION_DOWN").svc \notin Answers
      /\ p("VR", "VR_DATA").svc \notin Answers /\ p("CMD", "CAR_VELOCITY").svc \notin Answers
  BY AnswersAre DEF Post
<1>3. ASSUME NEW c, NEW svc
      PROVE  Same(x, SendOn(x, c, svc, "ok")) /\ SendOn(x, c, svc, "ok").tx = Append(x.tx, p(c, svc))
  BY <1>0, SendIs
<1> HIDE DEF p
<1>4. \/ Polls(x, offer) = SendOn(x, "TOUCH", "TOUCH_ACTION_DOWN", "ok")
      \/ Polls(x, offer) = SendOn(x, "VR", "VR_DATA", "ok")
      \/ Polls(x, offer) = SendOn(x, "CMD", "CAR_VELOCITY", "ok")
      \/ Polls(x, offer) = x
  BY DEF Polls, PublishVehicleReport, SendCmd
<1>5. Same(x, x)
  BY <1>0 DEF Same
<1> QED
  BY <1>1, <1>2, <1>3, <1>4, <1>5 DEF Offered

\* decryptInbound learns at most that a service comes in plain.
Learned(x, f, y, g) ==
  /\ Cased(y) /\ y.tx = x.tx /\ y.major = x.major /\ y.keypair = x.keypair
  /\ y.key = x.key /\ y.enabled = x.enabled
  /\ g.ch = f.ch /\ g.svc = f.svc /\ g.arg \in {f.arg, "bad"}
  /\ \/ y.excludes = x.excludes
     \/ x.enabled /\ ~f.enc /\ f.arg # "none" /\ y.excludes = x.excludes \cup {f.svc}
  /\ g.arg # f.arg =>
       IF f.enc THEN ~x.enabled \/ f.arg = "none" \/ f.svc \in x.excludes
       ELSE x.enabled /\ f.arg # "none"

LEMMA DecryptIs ==
  ASSUME NEW x, Cased(x), NEW f \in Wire, NEW d \in DecryptInbound(x, f)
  PROVE  Learned(x, f, d[1], d[2])
<1>0. /\ DOMAIN x = Field /\ f.svc \in Text /\ f.enc \in BOOLEAN
      /\ DOMAIN f = {"ch", "svc", "arg", "enc"}
  BY DEF Cased, Wire
<1>1. CASE x.enabled /\ f.arg # "none" /\ f.svc \notin x.excludes
  <2>1. d \in Decrypted(x, f)
    BY <1>1 DEF DecryptInbound
  <2>2. CASE f.enc
    <3> DEFINE g == [f EXCEPT !.enc = FALSE]
    <3>1. d = <<x, g>>
      BY <2>1, <2>2 DEF Decrypted
    <3>2. g.ch = f.ch /\ g.svc = f.svc /\ g.arg = f.arg
      BY <1>0
    <3> HIDE DEF g
    <3> QED
      BY <3>1, <3>2 DEF Learned
  <2>3. CASE ~f.enc
    <3> DEFINE y == [x EXCEPT !.excludes = x.excludes \cup {f.svc}]
               g == [f EXCEPT !.arg = "bad"]
    <3>1. d = <<y, f>> \/ d = <<x, g>>
      BY <2>1, <2>3 DEF Decrypted
    <3>2. /\ Cased(y) /\ y.tx = x.tx /\ y.major = x.major /\ y.keypair = x.keypair
          /\ y.key = x.key /\ y.enabled = x.enabled /\ y.excludes = x.excludes \cup {f.svc}
      BY <1>0 DEF Cased, Field
    <3>3. g.ch = f.ch /\ g.svc = f.svc /\ g.arg = "bad"
      BY <1>0
    <3> HIDE DEF y, g
    <3>4. Learned(x, f, y, f) /\ Learned(x, f, x, g)
      BY <1>1, <2>3, <3>2, <3>3 DEF Learned
    <3> QED
      BY <3>1, <3>4
  <2> QED
    BY <1>0, <2>2, <2>3
<1>2. CASE ~(x.enabled /\ f.arg # "none" /\ f.svc \notin x.excludes)
  <2> DEFINE g == Unread(f)
  <2>1. d = <<x, g>>
    BY <1>2 DEF DecryptInbound
  <2>2. g.ch = f.ch /\ g.svc = f.svc /\ g.arg = IF f.enc THEN "bad" ELSE f.arg
    BY <1>0 DEF Unread
  <2>3. d[1] = x /\ d[2] = g
    BY <2>1
  <2> HIDE DEF g
  <2>4. g.arg \in {f.arg, "bad"} /\ (g.arg # f.arg => f.enc)
    BY <2>2
  <2>5. ~x.enabled \/ f.arg = "none" \/ f.svc \in x.excludes
    BY <1>2
  <2>6. x.enabled \in BOOLEAN /\ f.enc \in BOOLEAN
    BY <1>0 DEF Cased
  <2>8. g.arg # f.arg =>
          IF f.enc THEN ~x.enabled \/ f.arg = "none" \/ f.svc \in x.excludes
          ELSE x.enabled /\ f.arg # "none"
    BY <2>4, <2>5
  <2>7. Learned(x, f, x, g)
    BY <2>2, <2>4, <2>6, <2>8 DEF Learned
  <2> QED
    BY <2>3, <2>7
<1> QED
  BY <1>1, <1>2

LEMMA SvcsAppend ==
  ASSUME NEW S, NEW q \in Seq(S), NEW m \in S
  PROVE  Svcs(Append(q, m)) = Append(Svcs(q), m.svc)
<1> DEFINE r == Append(q, m)
           left == Svcs(r)
           right == Append(Svcs(q), m.svc)
           V == {x.svc : x \in S}
<1>1. /\ r \in Seq(S) /\ Len(r) = Len(q) + 1 /\ Len(q) \in Nat
      /\ \A i \in 1..Len(q) : r[i] = q[i]
      /\ r[Len(q) + 1] = m /\ DOMAIN q = 1..Len(q)
  BY AppendProperties, LenProperties
<1>2. DOMAIN r = 1..Len(q) + 1 /\ \A i \in 1..Len(q) : q[i] \in S
  BY <1>1, LenProperties, ElementOfSeq
<1> HIDE DEF r
<1>3. Svcs(q) \in [1..Len(q) -> V]
  BY <1>1, <1>2 DEF Svcs
<1>4. Svcs(q) \in Seq(V) /\ Len(Svcs(q)) = Len(q)
  BY <1>1, <1>3, SeqDef
<1>5. /\ right \in Seq(V) /\ Len(right) = Len(q) + 1
      /\ \A i \in 1..Len(q) : right[i] = q[i].svc
      /\ right[Len(q) + 1] = m.svc
  <2>1. m.svc \in V
    OBVIOUS
  <2>2. \A i \in 1..Len(q) : Svcs(q)[i] = q[i].svc
    BY <1>1 DEF Svcs
  <2> HIDE DEF V
  <2> QED
    BY <1>4, <2>1, <2>2, AppendProperties
<1>6. left \in Seq(V) /\ Len(left) = Len(q) + 1 /\ \A i \in 1..Len(q) + 1 : left[i] = r[i].svc
  <2>1. left \in [1..Len(q) + 1 -> V]
    BY <1>1, <1>2 DEF Svcs
  <2>2. Len(q) + 1 \in Nat
    BY <1>1
  <2> QED
    BY <1>2, <2>1, <2>2, SeqDef DEF Svcs
<1> HIDE DEF left, right, V
<1>7. \A i \in 1..Len(left) : left[i] = right[i]
  BY <1>1, <1>5, <1>6
<1>8. left = right
  BY <1>5, <1>6, <1>7, SeqEqual
<1> QED
  BY <1>8 DEF left, right, r

LEMMA SvcsType ==
  ASSUME NEW S, NEW q \in Seq(S)
  PROVE  Svcs(q) \in Seq({m.svc : m \in S}) /\ Len(Svcs(q)) = Len(q)
<1>1. Len(q) \in Nat /\ DOMAIN q = 1..Len(q) /\ \A i \in 1..Len(q) : q[i] \in S
  BY LenProperties, ElementOfSeq
<1>2. Svcs(q) \in [1..Len(q) -> {m.svc : m \in S}]
  BY <1>1 DEF Svcs
<1> QED
  BY <1>1, <1>2, SeqDef

\* A round of the loop that handles f, and reads it as g.
RoundKept(x, f, y) ==
  /\ f.ch = "CMD" => f.svc # "MD_ENCRYPT_READY"
  /\ x.key => y.key
  /\ y.enabled = x.enabled /\ y.tx \in Seq(Posted(x.enabled, y.key, x.keypair))
RoundTurned(x, f, y) ==
  /\ f.ch = "CMD" /\ f.svc = "MD_ENCRYPT_READY"
  /\ y.key = x.key /\ y.enabled = (x.enabled \/ x.key)
  /\ \E q : /\ q = <<Post(x.enabled, "CMD", "MD_ENCRYPT_READY_DONE", "none")>>
           /\ \/ y.tx = q
              \/ \E m \in Posted(y.enabled, y.key, x.keypair) : y.tx = Append(q, m)
RoundDropped(x, f, y) ==
  /\ x.enabled /\ f.ch = "CMD" /\ f.svc \in KeyRequests
  /\ ~y.enabled /\ (x.key => y.key)
  /\ \E q \in Seq(Posted(x.enabled, y.key, x.keypair)) :
       \/ y.tx = q
       \/ \E m \in Posted(y.enabled, y.key, x.keypair) : y.tx = Append(q, m)
Round(x, f, g, y) ==
  /\ Cased(y) /\ y.keypair = x.keypair
  /\ g.ch = f.ch /\ g.svc = f.svc /\ g.arg \in {f.arg, "bad"}
  /\ \/ y.excludes \subseteq x.excludes
     \/ x.enabled /\ ~f.enc /\ f.arg # "none" /\ y.excludes \subseteq x.excludes \cup {f.svc}
  /\ g.arg # f.arg =>
       IF f.enc THEN ~x.enabled \/ f.arg = "none" \/ f.svc \in x.excludes
       ELSE x.enabled /\ f.arg # "none"
  /\ RoundKept(x, f, y) \/ RoundTurned(x, f, y) \/ RoundDropped(x, f, y)
  /\ Where(Svcs(y.tx), Answers) = IF Answered(x, g) THEN <<AnswerTo[f.svc]>> ELSE <<>>

LEMMA OfferedAnswers ==
  ASSUME NEW S, NEW x, NEW y, x.tx \in Seq(S), Posted(x.enabled, x.key, x.keypair) \subseteq S, Offered(x, y)
  PROVE  Where(Svcs(y.tx), Answers) = Where(Svcs(x.tx), Answers)
<1>1. CASE y.tx = x.tx
  BY <1>1
<1>2. ASSUME NEW m \in Posted(x.enabled, x.key, x.keypair), m.svc \notin Answers, y.tx = Append(x.tx, m)
      PROVE  Where(Svcs(y.tx), Answers) = Where(Svcs(x.tx), Answers)
  <2>1. m \in S
    BY <1>2
  <2>2. Svcs(y.tx) = Append(Svcs(x.tx), m.svc)
    BY <1>2, <2>1, SvcsAppend
  <2>3. Svcs(x.tx) \in Seq({n.svc : n \in S}) /\ m.svc \in {n.svc : n \in S}
    BY <2>1, SvcsType
  <2> DEFINE q == Svcs(x.tx)
             V == {n.svc : n \in S}
             v == m.svc
  <2> HIDE DEF q, V, v
  <2>4. \A t \in Seq(V) :
          Where(Append(t, v), Answers) = IF v \in Answers THEN Append(Where(t, Answers), v) ELSE Where(t, Answers)
    <3>1. v \in V
      BY <2>3 DEF v, V
    <3> QED
      BY <3>1, WhereAppend
  <2>5. q \in Seq(V) /\ v \notin Answers
    BY <1>2, <2>3 DEF q, V, v
  <2>6. Where(Append(q, v), Answers) = Where(q, Answers)
    BY <2>4, <2>5
  <2> QED
    BY <2>2, <2>6 DEF q, v
<1> QED
  BY <1>1, <1>2 DEF Offered

LEMMA RoundIs ==
  ASSUME NEW x, Cased(x), x.tx = <<>>, NEW f \in Wire, NEW d \in DecryptInbound(x, f),
         NEW reports \in BOOLEAN, NEW offer
  PROVE  Round(x, f, d[2], Polls(HandleFrame(d[1], d[2], reports), offer))
<1> DEFINE z == d[1]
           g == d[2]
           y == HandleFrame(z, g, reports)
           w == Polls(y, offer)
<1>1. Learned(x, f, z, g)
  BY DecryptIs
<1> HIDE DEF z, g
<1>2. f.arg \in Text /\ g.arg \in Text /\ g.ch = f.ch /\ g.svc = f.svc
  BY <1>1, TextFacts DEF Learned, Wire
<1>3. Handled(z, g, y)
  BY <1>1, <1>2, FrameHandled DEF Learned
<1> HIDE DEF y
<1>4. Same(y, w) /\ Offered(y, w)
  BY <1>3, PollsIs DEF Handled
<1> HIDE DEF w
<1>5. /\ Cased(w) /\ w.keypair = x.keypair
      /\ w.key = y.key /\ w.enabled = y.enabled /\ w.excludes = y.excludes
      /\ z.key = x.key /\ z.enabled = x.enabled /\ z.keypair = x.keypair
      /\ y.keypair = x.keypair /\ y.excludes \subseteq z.excludes
  BY <1>1, <1>3, <1>4 DEF Cased, Same, Handled, Learned
<1>6. \/ w.excludes \subseteq x.excludes
      \/ x.enabled /\ ~f.enc /\ f.arg # "none" /\ w.excludes \subseteq x.excludes \cup {f.svc}
  <2>1. \/ z.excludes = x.excludes
        \/ x.enabled /\ ~f.enc /\ f.arg # "none" /\ z.excludes = x.excludes \cup {f.svc}
    BY <1>1 DEF Learned
  <2> QED
    BY <1>5, <2>1
<1>7. Answered(z, g) <=> Answered(x, g)
  BY <1>5 DEF Answered
<1>8. x.key \in BOOLEAN /\ x.enabled \in BOOLEAN /\ y.key \in BOOLEAN /\ y.enabled \in BOOLEAN /\ x.keypair \in BOOLEAN
  BY <1>3 DEF Cased, Handled
<1> DEFINE S == Outbound(y.key, x.keypair)
<1>9. Posted(y.enabled, y.key, y.keypair) \subseteq S
  BY <1>5, <1>8, PostedOut
<1>10. (RoundKept(x, f, w) \/ RoundTurned(x, f, w) \/ RoundDropped(x, f, w)) /\ y.tx \in Seq(S)
  <2>1. CASE Kept(z, g, y)
    <3> DEFINE T == Posted(x.enabled, y.key, x.keypair)
    <3>1. /\ y.enabled = x.enabled /\ y.tx \in Seq(T) /\ (x.key => y.key)
          /\ g.ch = "CMD" => g.svc # "MD_ENCRYPT_READY"
      BY <1>5, <2>1 DEF Kept
    <3>2. T \subseteq S
      BY <1>8, PostedOut
    <3>3. Posted(y.enabled, y.key, y.keypair) = T
      BY <1>5, <3>1
    <3> HIDE DEF S, T
    <3>4. y.tx \in Seq(S)
      BY <3>1, <3>2, SeqMonotonic
    <3>5. w.tx \in Seq(T)
      <4>1. CASE w.tx = y.tx
        BY <3>1, <4>1
      <4>2. ASSUME NEW m \in T, w.tx = Append(y.tx, m) PROVE w.tx \in Seq(T)
        BY <3>1, <4>2, AppendProperties
      <4> QED
        BY <1>4, <3>3, <4>1, <4>2 DEF Offered
    <3>6. RoundKept(x, f, w)
      BY <1>2, <1>5, <3>1, <3>5 DEF RoundKept, T
    <3> QED
      BY <3>4, <3>6
  <2>2. CASE Turned(z, g, y)
    <3> DEFINE p == Post(x.enabled, "CMD", "MD_ENCRYPT_READY_DONE", "none")
    <3>1. /\ y.key = x.key /\ y.enabled = (x.enabled \/ x.key) /\ y.tx = <<p>>
          /\ f.ch = "CMD" /\ f.svc = "MD_ENCRYPT_READY"
      BY <1>2, <1>5, <2>2 DEF Turned
    <3>2. p \in S
      BY <1>8, PostedOut
    <3> HIDE DEF S, p
    <3>3. y.tx \in Seq(S)
      BY <3>1, <3>2
    <3>4. w.tx = y.tx \/ \E m \in Posted(w.enabled, w.key, x.keypair) : w.tx = Append(y.tx, m)
      BY <1>4, <1>5 DEF Offered
    <3>5. RoundTurned(x, f, w)
      BY <1>5, <3>1, <3>4 DEF RoundTurned, p
    <3> QED
      BY <3>3, <3>5
  <2>3. CASE Dropped(z, g, y)
    <3> DEFINE T == Posted(x.enabled, y.key, x.keypair)
    <3>1. /\ y.tx \in Seq(T) /\ (x.key => y.key) /\ x.enabled /\ ~y.enabled
          /\ f.ch = "CMD" /\ f.svc \in KeyRequests
      BY <1>2, <1>5, <2>3 DEF Dropped
    <3>2. T \subseteq S
      BY <1>8, PostedOut
    <3> HIDE DEF S, T
    <3>3. y.tx \in Seq(S)
      BY <3>1, <3>2, SeqMonotonic
    <3>4. w.tx = y.tx \/ \E m \in Posted(w.enabled, w.key, x.keypair) : w.tx = Append(y.tx, m)
      BY <1>4, <1>5 DEF Offered
    <3>5. RoundDropped(x, f, w)
      BY <1>5, <3>1, <3>4 DEF RoundDropped, T
    <3> QED
      BY <3>3, <3>5
  <2> QED
    BY <1>3, <2>1, <2>2, <2>3 DEF Handled
<1>11. Where(Svcs(w.tx), Answers) = IF Answered(x, g) THEN <<AnswerTo[f.svc]>> ELSE <<>>
  <2>1. Where(Svcs(w.tx), Answers) = Where(Svcs(y.tx), Answers)
    BY <1>4, <1>9, <1>10, OfferedAnswers
  <2>2. Where(Svcs(y.tx), Answers) = IF Answered(z, g) THEN <<AnswerTo[g.svc]>> ELSE <<>>
    BY <1>3 DEF Handled
  <2> QED
    BY <1>2, <1>7, <2>1, <2>2
<1>12. /\ g.arg \in {f.arg, "bad"}
       /\ g.arg # f.arg =>
            IF f.enc THEN ~x.enabled \/ f.arg = "none" \/ f.svc \in x.excludes
            ELSE x.enabled /\ f.arg # "none"
  BY <1>1 DEF Learned
<1>13. Round(x, f, g, w)
  BY <1>2, <1>5, <1>6, <1>10, <1>11, <1>12 DEF Round
<1> QED
  BY <1>13 DEF w, y, z, g

-----------------------------------------------------------------------------
\* The shape of the state

PhoneField ==
  {"plan", "offers", "ready", "inside", "encrypts", "window", "asked", "again", "owed"}

\* What the phone says of its own accord, and all it says.
Wishes == UNION {p.says : p \in Plan}
Spoken ==
  Command("PROTOCOL_VERSION_MATCH_STATUS", Versions \cup {"match", "reject"})
    \cup Command("MD_INFO", {"ok"}) \cup Command("MD_AUTH_RESPONSE", {"good", "wrong", "bad"})
    \cup Command("MD_AUTH_RESULT", {"true", "false"})
    \cup Command("VIDEO_ENCODER_INIT_DONE", {"none"})
    \cup Command("MD_AES_KEY_SEND_REQUEST", {"ok", "bad"})
    \cup Command("MD_ENCRYPT_READY", {"none"}) \cup {NoMsg} \cup Wishes

On(c) == {m \in Wire : m.ch = c}

PhoneShape ==
  /\ DOMAIN ph = PhoneField
  /\ DOMAIN ph.plan = {"says", "major", "host", "fault"}
  /\ ph.plan.says \subseteq Wishes /\ ph.plan.major \in Versions
  /\ ph.ready \in BOOLEAN /\ ph.encrypts \in BOOLEAN /\ ph.window \subseteq Text
  /\ ph.asked \in BOOLEAN /\ ph.again \in BOOLEAN
WireShape ==
  /\ net \in [Channel -> Seq(Wire)] /\ \A c \in Channel : net[c] \in Seq(On(c))
  /\ queue \in Seq(Wire)
  /\ out \in [Channel -> Seq(Outbound(s.key, s.keypair))]
LinkShape ==
  /\ far \subseteq Channel /\ closed \in BOOLEAN
  /\ DOMAIN reader = Channel /\ DOMAIN acceptor = Channel /\ acceptor["CMD"] # "wait"
Shape == Cased(s) /\ s.tx = <<>> /\ PhoneShape /\ WireShape /\ LinkShape

\* What the steps have in common.
PhoneSame ==
  /\ DOMAIN ph' = PhoneField /\ ph'.plan = ph.plan /\ ph'.ready = ph.ready
  /\ ph'.encrypts = ph.encrypts /\ ph'.window = ph.window /\ ph'.owed = ph.owed
  /\ ph'.asked = ph.asked /\ ph'.again = ph.again
LinkSame == UNCHANGED <<far, closed, reader, acceptor>>
Settled == Same(s, s') /\ s'.tx = <<>>

\* Steps in which no message moves.
Idle ==
  /\ UNCHANGED <<net, queue, out, heard>>
  /\ Settled /\ PhoneSame
  /\ far' \subseteq Channel /\ closed' \in BOOLEAN /\ (closed => closed')
  /\ DOMAIN reader' = Channel /\ DOMAIN acceptor' = Channel /\ acceptor'["CMD"] # "wait"
  /\ reader'["CMD"] = reader["CMD"]

\* A message of the car on its own account.
Posting ==
  /\ UNCHANGED <<net, queue, heard>> /\ LinkSame
  /\ Settled /\ PhoneSame
  /\ \E tx \in Seq(Posted(s.enabled, s.key, s.keypair)) :
       /\ Where(Svcs(tx), Answers) = <<>>
       /\ out' = [c \in Channel |-> IF CanSend(c) THEN out[c] \o Of(tx, c) ELSE out[c]]
Beating ==
  /\ UNCHANGED <<net, queue, heard>> /\ LinkSame
  /\ Settled /\ PhoneSame
  /\ out' = [out EXCEPT !["VIDEO"] = Append(@, Msg("VIDEO", "VIDEO_HEARTBEAT", "none"))]

\* A round of the loop that takes a message from the queue.
Taking ==
  /\ UNCHANGED net /\ LinkSame /\ PhoneSame
  /\ queue # <<>> /\ queue' = Tail(queue)
  /\ heard' = [heard EXCEPT ![Head(queue).ch] = Head(queue)]
  /\ \E x, g :
       /\ Round(s, Head(queue), g, x)
       /\ Cased(s') /\ s'.tx = <<>> /\ s'.keypair = x.keypair /\ s'.key = x.key
       /\ s'.enabled = x.enabled /\ s'.excludes = x.excludes
       /\ out' = [c \in Channel |-> IF CanSend(c) THEN out[c] \o Of(x.tx, c) ELSE out[c]]

\* A frame that is read, and a reader that ends.
Reading(c) ==
  /\ UNCHANGED <<out, heard, s, ph>> /\ LinkSame
  /\ net[c] # <<>> /\ queue' = Append(queue, Head(net[c]))
  /\ net' = [net EXCEPT ![c] = Tail(@)]
Ending(c) ==
  /\ UNCHANGED <<queue, out, heard, s, ph, far, acceptor>>
  /\ closed \/ net[c] = <<>>
  /\ net' = [net EXCEPT ![c] = <<>>] /\ reader' = [reader EXCEPT ![c] = "end"]
  /\ closed' \in BOOLEAN /\ (closed => closed')

Steps ==
  \/ Idle \/ Posting \/ Beating \/ Taking
  \/ \E c \in Channel : Reading(c) \/ Ending(c)
  \/ PhoneReads \/ PhoneSays

-----------------------------------------------------------------------------
\* Each action is such a step

LEMMA OffersSame ==
  ASSUME PhoneShape, NEW k, ph' = [ph EXCEPT !.offers = k]
  PROVE  PhoneSame
  BY DEF PhoneShape, PhoneField, PhoneSame

LEMMA FlushIs ==
  ASSUME NEW x, Cased(x)
  PROVE  /\ Cased(Flush(x)) /\ Flush(x).tx = <<>> /\ Same(x, Flush(x))
<1> DEFINE y == Flush(x)
<1>1. DOMAIN x = Field
  BY DEF Cased
<1>2. /\ DOMAIN y = Field /\ y.tx = <<>> /\ y.major = x.major /\ y.keypair = x.keypair
      /\ y.key = x.key /\ y.enabled = x.enabled /\ y.excludes = x.excludes
  BY <1>1 DEF Flush, Field
<1> HIDE DEF y
<1> QED
  BY <1>2 DEF Cased, Same, y

LEMMA SameCased ==
  ASSUME NEW x, NEW y, Cased(x), Same(x, y) PROVE Cased(y)
  BY DEF Cased, Same

\* Fields that the cipher does not depend on.
LEMMA SmallChanges ==
  ASSUME NEW x, Cased(x), x.tx = <<>>, NEW a, NEW b, NEW c, NEW d
  PROVE  /\ Same(x, x)
         /\ LET y == [x EXCEPT !.running = a] IN Same(x, y) /\ y.tx = <<>>
         /\ LET y == [x EXCEPT !.st = a, !.running = b] IN Same(x, y) /\ y.tx = <<>>
         /\ LET y == [x EXCEPT !.st = a, !.err = b] IN Same(x, y) /\ y.tx = <<>>
         /\ LET y == [x EXCEPT !.mic = a, !.running = b, !.st = c] IN Same(x, y) /\ y.tx = <<>>
         /\ LET y == [x EXCEPT !.silent = a, !.failAt = b] IN Same(x, y) /\ y.tx = <<>>
  BY DEF Cased, Same, Field

LEMMA LinkStays ==
  ASSUME LinkShape, UNCHANGED <<far, reader, acceptor>>, closed' \in BOOLEAN, closed => closed'
  PROVE  /\ far' \subseteq Channel /\ closed' \in BOOLEAN /\ (closed => closed')
         /\ DOMAIN reader' = Channel /\ DOMAIN acceptor' = Channel /\ acceptor'["CMD"] # "wait"
         /\ reader'["CMD"] = reader["CMD"]
  BY DEF LinkShape

LEMMA IdleBy ==
  ASSUME Shape, Settled, PhoneSame, UNCHANGED <<net, queue, out, heard, far, reader, acceptor>>,
         closed' \in BOOLEAN, closed => closed'
  PROVE  Idle
  BY LinkStays DEF Shape, Idle

LEMMA Unmoved ==
  ASSUME Shape
  PROVE  /\ UNCHANGED s => Settled
         /\ UNCHANGED ph => PhoneSame
         /\ \A b : s' = [s EXCEPT !.running = b] => Settled
<1>1. Same(s, s) /\ s.tx = <<>> /\ DOMAIN s = Field
  BY SmallChanges DEF Shape, Cased
<1>2. UNCHANGED s => Settled
  BY <1>1 DEF Settled
<1>3. UNCHANGED ph => PhoneSame
  BY DEF Shape, PhoneSame, PhoneShape
<1>4. ASSUME NEW b, s' = [s EXCEPT !.running = b] PROVE Settled
  BY <1>1, <1>4 DEF Settled, Same, Field
<1> QED
  BY <1>2, <1>3, <1>4

\* Nothing of the session, and a thread that closes the transport or has closed it.
LEMMA CloseIdle ==
  ASSUME Shape, UNCHANGED <<s, ph, heard>>, NEW t, CloseBegin(t) \/ CloseEnd(t)
  PROVE  Idle
<1>1. /\ UNCHANGED <<net, queue, out, far, reader, acceptor>>
      /\ closed' \in BOOLEAN /\ (closed => closed')
  BY DEF CloseBegin, CloseEnd, Shape, LinkShape
<1> QED
  BY <1>1, Unmoved, IdleBy

LEMMA LinkIdle ==
  ASSUME Shape, UNCHANGED transportVars, UNCHANGED heard, Settled, PhoneSame
  PROVE  Idle
<1>1. /\ UNCHANGED <<net, queue, out, far, reader, acceptor>>
      /\ closed' \in BOOLEAN /\ (closed => closed')
  BY DEF transportVars, Shape, LinkShape
<1> QED
  BY <1>1, IdleBy

LEMMA StartIdle ==
  ASSUME Shape, Start PROVE Idle
<1>1. Settled
  <2> DEFINE x == [s EXCEPT !.st = "Connected"]
  <2>1. s' = [x EXCEPT !.running = TRUE]
    BY DEF Start, SetState
  <2>2. DOMAIN s = Field /\ s.tx = <<>>
    BY DEF Shape, Cased
  <2> QED
    BY <2>1, <2>2 DEF Settled, Same, Field
<1>2. UNCHANGED ph /\ UNCHANGED transportVars /\ UNCHANGED heard
  BY DEF Start
<1> QED
  BY <1>1, <1>2, Unmoved, LinkIdle

LEMMA AfterIdle ==
  ASSUME Shape, After PROVE Idle
<1>1. Settled
  <2>1. s' = [s EXCEPT !.mic = FALSE, !.running = FALSE,
                       !.st = IF s.st = "Failed" THEN s.st ELSE "Closed"]
    BY DEF After
  <2>2. DOMAIN s = Field /\ s.tx = <<>>
    BY DEF Shape, Cased
  <2> QED
    BY <2>1, <2>2 DEF Settled, Same, Field
<1>2. UNCHANGED ph /\ UNCHANGED transportVars /\ UNCHANGED heard
  BY DEF After
<1> QED
  BY <1>1, <1>2, Unmoved, LinkIdle

LEMMA SecondIdle ==
  ASSUME Shape, Second PROVE Idle
<1>1. Settled
  <2>1. PICK a, b : s' = [s EXCEPT !.silent = a, !.failAt = b]
    BY DEF Second
  <2>2. DOMAIN s = Field /\ s.tx = <<>>
    BY DEF Shape, Cased
  <2> QED
    BY <2>1, <2>2 DEF Settled, Same, Field
<1>2. UNCHANGED ph /\ UNCHANGED transportVars /\ UNCHANGED heard
  BY DEF Second
<1> QED
  BY <1>1, <1>2, Unmoved, LinkIdle

LEMMA WaitIdle ==
  ASSUME Shape, RecvTimeout \/ Stopped \/ Quit PROVE Idle
<1>1. UNCHANGED s /\ UNCHANGED ph /\ UNCHANGED transportVars /\ UNCHANGED heard
  BY DEF RecvTimeout, Stopped, Quit, LoopEnds
<1> QED
  BY <1>1, Unmoved, LinkIdle

LEMMA CloseSteps ==
  ASSUME Shape, MainClose \/ BeatClose \/ RequestStop PROVE Idle
<1>1. \/ UNCHANGED <<s, ph, heard>> /\ \E t : CloseBegin(t) \/ CloseEnd(t)
      \/ UNCHANGED <<ph, heard, transportVars>> /\ s' = [s EXCEPT !.running = FALSE]
  BY DEF MainClose, BeatClose, RequestStop
<1>2. CASE UNCHANGED <<s, ph, heard>> /\ \E t : CloseBegin(t) \/ CloseEnd(t)
  BY <1>2, CloseIdle
<1>3. CASE UNCHANGED <<ph, heard, transportVars>> /\ s' = [s EXCEPT !.running = FALSE]
  BY <1>3, Unmoved, LinkIdle
<1> QED
  BY <1>1, <1>2, <1>3

LEMMA HangUpIdle ==
  ASSUME Shape, PhoneHangsUp PROVE Idle
<1>1. /\ UNCHANGED <<s, ph, heard>> /\ UNCHANGED <<net, queue, out, reader, acceptor, closed>>
      /\ far' \subseteq Channel
  BY DEF PhoneHangsUp, sessionVars, Shape, LinkShape
<1>2. Settled /\ PhoneSame
  BY <1>1, Unmoved
<1> QED
  BY <1>1, <1>2 DEF Shape, LinkShape, Idle

LEMMA AcceptIdle ==
  ASSUME Shape, NEW c \in Channel, Accept(c), UNCHANGED sessionVars PROVE Idle
<1>1. UNCHANGED <<s, ph, heard>> /\ UNCHANGED <<net, queue, out, closed>> /\ c # "CMD"
  BY DEF Accept, sessionVars, Shape, LinkShape
<1>2. /\ far' \subseteq Channel /\ DOMAIN reader' = Channel /\ DOMAIN acceptor' = Channel
      /\ acceptor'["CMD"] # "wait" /\ reader'["CMD"] = reader["CMD"]
  BY <1>1 DEF Accept, Shape, LinkShape
<1>3. Settled /\ PhoneSame
  BY <1>1, Unmoved
<1> QED
  BY <1>1, <1>2, <1>3 DEF Shape, LinkShape, Idle

LEMMA ThreadsAre ==
  ASSUME Shape, Threads PROVE Idle \/ \E c \in Channel : Reading(c) \/ Ending(c)
<1>1. PICK c \in Channel : Accept(c) \/ Read(c) \/ ReaderEnd(c)
  BY DEF Threads
<1>2. UNCHANGED sessionVars
  BY DEF Threads
<1>3. CASE Accept(c)
  BY <1>2, <1>3, AcceptIdle
<1>4. CASE Read(c)
  BY <1>2, <1>4 DEF Read, Reading, sessionVars, LinkSame
<1>5. CASE ReaderEnd(c)
  BY <1>2, <1>5 DEF ReaderEnd, Ending, sessionVars, Shape, LinkShape
<1> QED
  BY <1>1, <1>3, <1>4, <1>5

LEMMA OneSvc ==
  ASSUME NEW m, m.svc \notin Answers PROVE Where(Svcs(<<m>>), Answers) = <<>>
<1>1. Svcs(<<m>>) = <<m.svc>>
  BY SvcsOfTwo
<1> DEFINE v == m.svc
<1> HIDE DEF v
<1>2. Where(<<v>>, Answers) = IF v \in Answers THEN <<v>> ELSE <<>>
  BY WhereOne
<1> QED
  BY <1>1, <1>2 DEF v

LEMMA OfferPosting ==
  ASSUME Shape, NEW x, Same(s, x), Offered(s, x), s' = Flush(x), out' = Leaves(x),
         UNCHANGED <<net, queue, heard>>, LinkSame, PhoneSame
  PROVE  Posting
<1>1. Cased(s) /\ s.tx = <<>>
  BY DEF Shape
<1>2. Cased(x)
  BY <1>1, SameCased
<1>3. Settled
  <2>1. Same(x, s') /\ s'.tx = <<>>
    BY <1>2, FlushIs
  <2> QED
    BY <2>1 DEF Same, Settled
<1> DEFINE S == Posted(s.enabled, s.key, s.keypair)
<1>4. x.tx \in Seq(S) /\ Where(Svcs(x.tx), Answers) = <<>>
  <2>1. CASE x.tx = <<>>
    BY <2>1, SvcsOfTwo, WhereEmpty, EmptySeq
  <2>2. ASSUME NEW m \in S, m.svc \notin Answers, x.tx = Append(<<>>, m)
        PROVE  x.tx \in Seq(S) /\ Where(Svcs(x.tx), Answers) = <<>>
    <3>1. x.tx = <<m>>
      BY <2>2
    <3> HIDE DEF S
    <3> QED
      BY <2>2, <3>1, OneSvc
  <2> QED
    BY <1>1, <2>1, <2>2 DEF Offered
<1>5. out' = [c \in Channel |-> IF CanSend(c) THEN out[c] \o Of(x.tx, c) ELSE out[c]]
  BY DEF Leaves
<1> QED
  BY <1>3, <1>4, <1>5 DEF Posting

LEMMA HelloIs ==
  ASSUME Shape, Hello PROVE Idle \/ Posting
<1>0. Cased(s) /\ DOMAIN s = Field /\ s.tx = <<>> /\ s.enabled \in BOOLEAN /\ s.major \in Text
  BY SessionAssumption DEF Shape, Cased, Text
<1>1. LinkSame /\ PhoneSame /\ UNCHANGED <<net, queue, heard>>
  BY Unmoved DEF Hello, Still, LinkSame
<1>2. CASE CanSend("CMD")
  <2> DEFINE x == SendCmd(s, "HU_PROTOCOL_VERSION", s.major)
             m == Post(s.enabled, "CMD", "HU_PROTOCOL_VERSION", s.major)
  <2>1. s' = Flush(x) /\ out' = Leaves(x)
    BY <1>2 DEF Hello
  <2>2. Same(s, x) /\ x.tx = Append(s.tx, m)
    BY <1>0, SendIs DEF SendCmd
  <2>3. m \in Posted(s.enabled, s.key, s.keypair) /\ m.svc \notin Answers
    BY <1>0, TextFacts, AnswersAre DEF Post, Posted
  <2>4. Offered(s, x)
    BY <2>2, <2>3 DEF Offered
  <2> HIDE DEF x
  <2> QED
    BY <1>1, <2>1, <2>2, <2>4, OfferPosting
<1>3. CASE ~CanSend("CMD")
  <2>1. s' = [SetState(s, "Failed") EXCEPT !.err = TRUE] /\ UNCHANGED out
    BY <1>3 DEF Hello
  <2>2. Settled
    BY <1>0, <2>1 DEF SetState, Settled, Same, Field
  <2> QED
    BY <1>1, <2>1, <2>2, IdleBy DEF LinkSame, Shape, LinkShape
<1> QED
  BY <1>2, <1>3

LEMMA CheckIs ==
  ASSUME Shape, Check PROVE Idle \/ Posting
<1>1. LinkSame /\ UNCHANGED <<net, queue, heard>> /\ PhoneShape
  BY DEF Check, Still, LinkSame, Shape
<1>2. CASE closed
  <2>1. UNCHANGED <<s, out, ph>>
    BY <1>2 DEF Check
  <2> QED
    BY <1>1, <2>1, Unmoved, IdleBy DEF LinkSame, Shape, LinkShape
<1>3. CASE ~closed
  <2>1. PICK offer \in {"none", ph.plan.host} :
          LET x == Polls(s, offer) IN Offer(offer) /\ s' = Flush(x) /\ out' = Leaves(x)
    BY <1>3 DEF Check
  <2> DEFINE x == Polls(s, offer)
  <2>2. Same(s, x) /\ Offered(s, x)
    BY PollsIs DEF Shape
  <2>3. PhoneSame
    BY <1>1, <2>1, OffersSame DEF Offer
  <2>4. s' = Flush(x) /\ out' = Leaves(x)
    BY <2>1
  <2> HIDE DEF x
  <2> QED
    BY <1>1, <2>2, <2>3, <2>4, OfferPosting
<1> QED
  BY <1>2, <1>3

LEMMA HeartbeatIs ==
  ASSUME Shape, Heartbeat PROVE Idle \/ Beating
<1>1. LinkSame /\ UNCHANGED <<net, queue, heard>> /\ PhoneSame
  BY Unmoved DEF Heartbeat, Still, LinkSame
<1>2. Settled
  <2>1. UNCHANGED s \/ \E b : s' = [s EXCEPT !.running = b]
    BY DEF Heartbeat
  <2> QED
    BY <2>1, Unmoved
<1>3. UNCHANGED out \/ out' = [out EXCEPT !["VIDEO"] = Append(@, Msg("VIDEO", "VIDEO_HEARTBEAT", "none"))]
  <2>1. UNCHANGED out \/ out' = Sent(out, Msg("VIDEO", "VIDEO_HEARTBEAT", "none"))
    BY DEF Heartbeat
  <2> QED
    BY <2>1 DEF Sent, Msg
<1>4. CASE UNCHANGED out
  BY <1>1, <1>2, <1>4, IdleBy DEF LinkSame, Shape, LinkShape
<1> QED
  BY <1>1, <1>2, <1>3, <1>4 DEF Beating

LEMMA ReceiveIs ==
  ASSUME Shape, Receive PROVE Taking
<1> DEFINE f == Head(queue)
<1>1. /\ queue # <<>> /\ queue' = Tail(queue) /\ UNCHANGED net /\ LinkSame
      /\ heard' = [heard EXCEPT ![f.ch] = f]
  BY DEF Receive, LinkSame
<1>2. f \in Wire /\ Cased(s) /\ s.tx = <<>> /\ PhoneShape
  BY <1>1, HeadTailProperties DEF Shape, WireShape
<1>3. PICK d \in DecryptInbound(s, f), offer \in {"none", ph.plan.host} :
        LET x == Polls(HandleFrame(d[1], d[2], offer = "report"), offer) IN
        Offer(offer) /\ s' = Flush(x) /\ out' = Leaves(x)
  BY DEF Receive
<1> DEFINE x == Polls(HandleFrame(d[1], d[2], offer = "report"), offer)
<1>4. s' = Flush(x) /\ out' = Leaves(x) /\ Offer(offer)
  BY <1>3
<1> HIDE DEF f
<1>5. Round(s, f, d[2], x)
  <2>1. (offer = "report") \in BOOLEAN
    OBVIOUS
  <2> QED
    BY <1>2, <2>1, RoundIs
<1> HIDE DEF x
<1>6. Cased(x)
  BY <1>5 DEF Round
<1>7. Cased(s') /\ s'.tx = <<>> /\ Same(x, s')
  BY <1>4, <1>6, FlushIs
<1>8. PhoneSame
  BY <1>2, <1>4, OffersSame DEF Offer
<1>9. out' = [c \in Channel |-> IF CanSend(c) THEN out[c] \o Of(x.tx, c) ELSE out[c]]
  BY <1>4 DEF Leaves
<1> QED
  BY <1>1, <1>5, <1>7, <1>8, <1>9 DEF Taking, Same, f

\* Each action of the specification is one of the steps above.
LEMMA NextIs ==
  ASSUME Shape, Next PROVE Steps
<1>1. CASE MainThread
  BY <1>1, StartIdle, HelloIs, ReceiveIs, WaitIdle, CheckIs, AfterIdle, CloseSteps
     DEF MainThread, Steps
<1>2. CASE Quit \/ BeatThread \/ RequestStop
  BY <1>2, WaitIdle, HeartbeatIs, CloseSteps DEF BeatThread, Steps
<1>3. CASE Threads \/ Second
  BY <1>3, ThreadsAre, SecondIdle DEF Steps
<1>4. CASE Phone
  BY <1>4, HangUpIdle DEF Phone, Steps
<1> QED
  BY <1>1, <1>2, <1>3, <1>4 DEF Next

-----------------------------------------------------------------------------
\* What the phone says

Bare == [ch : Channel, svc : Text, arg : Text, enc : {FALSE}]

LEMMA CommandIs ==
  ASSUME NEW svc \in Text, NEW args, args \subseteq Text
  PROVE  /\ Command(svc, args) \subseteq Bare
         /\ \A m \in Command(svc, args) : m.ch = "CMD" /\ m.svc = svc /\ m.arg \in args
<1>1. ASSUME NEW m \in Command(svc, args)
      PROVE  m \in Bare /\ m.ch = "CMD" /\ m.svc = svc /\ m.arg \in args
  <2>1. PICK arg \in args : m = [ch |-> "CMD", svc |-> svc, arg |-> arg, enc |-> FALSE]
    BY DEF Command, Msg
  <2> QED
    BY <2>1, TransportAssumption DEF Bare
<1> QED
  BY <1>1

LEMMA WishesAre ==
  Wishes \subseteq Bare /\ \A m \in Wishes : m.svc \notin Handshake
<1>1. ASSUME NEW m \in Wishes PROVE m \in Bare /\ m.svc \notin Handshake
  <2>1. PICK p \in Plan : m \in p.says
    BY DEF Wishes
  <2>2. m \in [ch : Channel, svc : STRING \ Handshake, arg : STRING, enc : {FALSE}]
    BY <2>1, SessionAssumption
  <2>3. STRING \subseteq Text
    BY DEF Text
  <2> QED
    BY <2>2, <2>3 DEF Bare
<1> QED
  BY <1>1

LEMMA HandshakeText == Handshake \subseteq Text /\ Versions \subseteq Text
<1>1. Handshake \subseteq Text
  BY DEF Text
<1>2. Versions \subseteq STRING
  BY SessionAssumption
<1> QED
  BY <1>1, <1>2 DEF Text

\* All that the phone says is in plain and for one of the channels.
LEMMA SpokenIs ==
  Spoken \subseteq Bare /\ NoMsg \in Spoken
<1>1. NoMsg \in Bare
  BY TransportAssumption, TextFacts DEF NoMsg, Msg, Bare
<1>2. /\ Command("PROTOCOL_VERSION_MATCH_STATUS", Versions \cup {"match", "reject"}) \subseteq Bare
      /\ Command("MD_INFO", {"ok"}) \subseteq Bare
      /\ Command("MD_AUTH_RESPONSE", {"good", "wrong", "bad"}) \subseteq Bare
      /\ Command("MD_AUTH_RESULT", {"true", "false"}) \subseteq Bare
      /\ Command("VIDEO_ENCODER_INIT_DONE", {"none"}) \subseteq Bare
      /\ Command("MD_AES_KEY_SEND_REQUEST", {"ok", "bad"}) \subseteq Bare
      /\ Command("MD_ENCRYPT_READY", {"none"}) \subseteq Bare
  <2>1. /\ "PROTOCOL_VERSION_MATCH_STATUS" \in Handshake /\ "MD_INFO" \in Handshake
        /\ "MD_AUTH_RESPONSE" \in Handshake /\ "MD_AUTH_RESULT" \in Handshake
        /\ "VIDEO_ENCODER_INIT_DONE" \in Handshake /\ "MD_AES_KEY_SEND_REQUEST" \in Handshake
        /\ "MD_ENCRYPT_READY" \in Handshake
    BY DEF Handshake
  <2>2. /\ "PROTOCOL_VERSION_MATCH_STATUS" \in Text /\ "MD_INFO" \in Text
        /\ "MD_AUTH_RESPONSE" \in Text /\ "MD_AUTH_RESULT" \in Text
        /\ "VIDEO_ENCODER_INIT_DONE" \in Text /\ "MD_AES_KEY_SEND_REQUEST" \in Text
        /\ "MD_ENCRYPT_READY" \in Text
    BY <2>1, HandshakeText
  <2>3. /\ Versions \cup {"match", "reject"} \subseteq Text /\ {"ok"} \subseteq Text
        /\ {"good", "wrong", "bad"} \subseteq Text /\ {"true", "false"} \subseteq Text
        /\ {"none"} \subseteq Text /\ {"ok", "bad"} \subseteq Text
    BY HandshakeText, TextFacts
  <2> QED
    BY <2>2, <2>3, CommandIs
<1> QED
  BY <1>1, <1>2, WishesAre DEF Spoken

LEMMA MessageIs ==
  Message = Spoken \cup {[m EXCEPT !.enc = TRUE] : m \in Spoken}
  BY DEF Message, Spoken, Wishes

\* What is said travels as a message of the channel.
LEMMA Encoded ==
  ASSUME NEW m \in Spoken, NEW b \in BOOLEAN
  PROVE  LET n == [m EXCEPT !.enc = b] IN
         n \in Message /\ n \in On(m.ch) /\ n.svc = m.svc /\ n.arg = m.arg /\ n.enc = b
<1>1. m \in Bare
  BY SpokenIs
<1> DEFINE n == [m EXCEPT !.enc = b]
<1>2. n \in On(m.ch) /\ n.svc = m.svc /\ n.arg = m.arg /\ n.enc = b
  BY <1>1 DEF Bare, On, Wire
<1>3. n \in Message
  <2>1. CASE b
    BY <2>1, MessageIs
  <2>2. CASE ~b
    <3>1. n = m
      BY <1>1, <2>2 DEF Bare
    <3> QED
      BY <3>1, MessageIs
  <2> QED
    BY <2>1, <2>2
<1> QED
  BY <1>2, <1>3

\* What becomes of the phone as it says something.
RequestsKey(m) == m.svc = "MD_RSA_PUBLIC_KEY_REQUEST"
Spoke(p, m, n) ==
  /\ m \in Spoken /\ m.ch \in Channel
  /\ n \in Message /\ n \in On(m.ch) /\ n.svc = m.svc /\ n.arg = m.arg
  /\ n.enc = (p.encrypts /\ m.arg # "none")
  /\ net' = [net EXCEPT ![m.ch] = Append(@, n)]
  /\ DOMAIN ph' = PhoneField /\ ph'.plan = p.plan /\ ph'.encrypts = p.encrypts
  /\ ph'.ready = (p.ready \/ m.svc = "MD_ENCRYPT_READY")
  /\ ph'.window = IF ~p.encrypts /\ (p.ready \/ m.ch # "CMD") /\ m.arg # "none"
                  THEN p.window \cup {m.svc} ELSE p.window
  /\ ph'.asked = (p.asked \/ RequestsKey(m)) /\ ph'.again = (p.again \/ (p.asked /\ RequestsKey(m)))
  /\ ph'.owed = IF Owed(m) THEN Append(p.owed, AnswerTo[m.svc]) ELSE p.owed

LEMMA SaysIs ==
  ASSUME NEW p, DOMAIN p = PhoneField, p.encrypts \in BOOLEAN, p.ready \in BOOLEAN,
         NEW m \in Spoken, Says(p, m)
  PROVE  \E n : Spoke(p, m, n)
<1> DEFINE n == [m EXCEPT !.enc = p.encrypts /\ m.arg # "none"]
<1>1. m.ch \in Channel
  BY SpokenIs DEF Bare
<1>2. (p.encrypts /\ m.arg # "none") \in BOOLEAN
  OBVIOUS
<1>3. /\ n \in Message /\ n \in On(m.ch) /\ n.svc = m.svc /\ n.arg = m.arg
      /\ n.enc = (p.encrypts /\ m.arg # "none")
  BY <1>2, Encoded
<1>4. net' = [net EXCEPT ![m.ch] = Append(@, n)] /\ ph' = Speaks(p, m)
  BY DEF Says
<1> DEFINE plain == ~p.encrypts /\ (p.ready \/ m.ch # "CMD") /\ m.arg # "none"
           w == IF plain THEN p.window \cup {m.svc} ELSE p.window
           a == p.again \/ (p.asked /\ RequestsKey(m))
           b == p.asked \/ RequestsKey(m)
           q == [p EXCEPT !.window = w, !.ready = p.ready \/ m.svc = "MD_ENCRYPT_READY",
                          !.again = a, !.asked = b]
           o == IF Owed(m) THEN Append(p.owed, AnswerTo[m.svc]) ELSE p.owed
<1>5. ph' = [q EXCEPT !.owed = o]
  <2>1. ph' = [q EXCEPT !.owed = IF Owed(m) THEN Append(q.owed, AnswerTo[m.svc]) ELSE q.owed]
    BY <1>4 DEF Speaks, RequestsKey
  <2>2. q.owed = p.owed
    BY DEF PhoneField
  <2> QED
    BY <2>1, <2>2
<1> HIDE DEF o, a, b
<1>6. /\ DOMAIN ph' = PhoneField /\ ph'.plan = p.plan /\ ph'.encrypts = p.encrypts
      /\ ph'.ready = (p.ready \/ m.svc = "MD_ENCRYPT_READY") /\ ph'.window = w /\ ph'.owed = o
      /\ ph'.again = a /\ ph'.asked = b
  BY <1>5 DEF PhoneField
<1> HIDE DEF n
<1>7. Spoke(p, m, n)
  BY <1>1, <1>3, <1>4, <1>6 DEF Spoke, o, a, b
<1> QED
  BY <1>7

\* The reply to a message, and what it is a reply to.
Reply(m, r) ==
  /\ r \in Spoken /\ r.ch = "CMD" /\ r.svc \in Handshake \cup {"none"}
  /\ r.svc = "MD_ENCRYPT_READY" => m.svc = "HU_AES_REC_RESPONSE" /\ r.arg = "none"
  /\ r.svc = "MD_AES_KEY_SEND_REQUEST" => m.svc = "HU_RSA_PUBLIC_KEY_RESPONSE" /\ r.arg \in {"ok", "bad"}
  /\ r.svc = "MD_AUTH_RESPONSE" => r.arg \in {"good", "wrong", "bad"}
  /\ r.svc = "MD_AUTH_RESULT" => r.arg \in {"true", "false"}

LEMMA RepliesAre ==
  ASSUME PhoneShape, NEW m, m.svc = "HU_AUTH_RESULT" => m.arg \in {"true", "false"},
         NEW r \in Replies(m)
  PROVE  Reply(m, r)
<1>0. ph.plan.major \in Versions
  BY DEF PhoneShape
<1> DEFINE Some(svc, args) == r \in Command(svc, args)
<1>1. CASE r = NoMsg
  BY <1>1, SpokenIs DEF NoMsg, Msg, Reply, Handshake
<1>2. CASE m.svc = "HU_PROTOCOL_VERSION" /\ Some("PROTOCOL_VERSION_MATCH_STATUS", {"match"})
  BY <1>2 DEF Spoken, Command, Msg, Reply, Handshake
<1>3. CASE m.svc = "HU_PROTOCOL_VERSION" /\ Some("PROTOCOL_VERSION_MATCH_STATUS", {ph.plan.major, "reject"})
  BY <1>0, <1>3 DEF Spoken, Command, Msg, Reply, Handshake
<1>4. CASE Some("MD_INFO", {"ok"})
  BY <1>4 DEF Spoken, Command, Msg, Reply, Handshake
<1>5. CASE Some("MD_AUTH_RESPONSE", {"good", "wrong", "bad"})
  BY <1>5 DEF Spoken, Command, Msg, Reply, Handshake
<1>6. CASE Some("MD_AUTH_RESULT", {"false"})
  BY <1>6 DEF Spoken, Command, Msg, Reply, Handshake
<1>7. CASE m.svc = "HU_AUTH_RESULT" /\ Some("MD_AUTH_RESULT", {m.arg})
  BY <1>7 DEF Spoken, Command, Msg, Reply, Handshake
<1>8. CASE Some("VIDEO_ENCODER_INIT_DONE", {"none"})
  BY <1>8 DEF Spoken, Command, Msg, Reply, Handshake
<1>9. CASE m.svc = "HU_RSA_PUBLIC_KEY_RESPONSE" /\ Some("MD_AES_KEY_SEND_REQUEST", {"ok", "bad"})
  BY <1>9 DEF Spoken, Command, Msg, Reply, Handshake
<1>10. CASE m.svc = "HU_AES_REC_RESPONSE" /\ Some("MD_ENCRYPT_READY", {"none"})
  BY <1>10 DEF Spoken, Command, Msg, Reply, Handshake
<1>11. \/ r = NoMsg
       \/ m.svc = "HU_PROTOCOL_VERSION" /\ Some("PROTOCOL_VERSION_MATCH_STATUS", {"match"})
       \/ m.svc = "HU_PROTOCOL_VERSION" /\ Some("PROTOCOL_VERSION_MATCH_STATUS", {ph.plan.major, "reject"})
       \/ Some("MD_INFO", {"ok"}) \/ Some("MD_AUTH_RESPONSE", {"good", "wrong", "bad"})
       \/ Some("MD_AUTH_RESULT", {"false"})
       \/ m.svc = "HU_AUTH_RESULT" /\ Some("MD_AUTH_RESULT", {m.arg})
       \/ Some("VIDEO_ENCODER_INIT_DONE", {"none"})
       \/ m.svc = "HU_RSA_PUBLIC_KEY_RESPONSE" /\ Some("MD_AES_KEY_SEND_REQUEST", {"ok", "bad"})
       \/ m.svc = "HU_AES_REC_RESPONSE" /\ Some("MD_ENCRYPT_READY", {"none"})
  BY DEF Replies
<1> HIDE DEF Some
<1> QED
  BY <1>1, <1>2, <1>3, <1>4, <1>5, <1>6, <1>7, <1>8, <1>9, <1>10, <1>11

\* The phone as it has read m.
HasRead(m, p) ==
  /\ DOMAIN p = PhoneField /\ p.plan = ph.plan /\ p.ready = ph.ready /\ p.window = ph.window
  /\ p.encrypts = (ph.encrypts \/ m.svc = "MD_ENCRYPT_READY_DONE")
  /\ p.asked = ph.asked /\ p.again = ph.again
  /\ p.owed = RemoveFirst(ph.owed, m.svc)
HasSpoken(p, m) == \E n : Spoke(p, m, n)
KeptQuiet(p) ==
  /\ DOMAIN ph' = PhoneField /\ ph'.plan = p.plan /\ ph'.ready = p.ready
  /\ ph'.encrypts = p.encrypts /\ ph'.window = p.window /\ ph'.owed = p.owed
  /\ ph'.asked = p.asked /\ ph'.again = p.again /\ UNCHANGED net

LEMMA PhoneReadsIs ==
  ASSUME Shape, PhoneReads
  PROVE  /\ out["CMD"] # <<>> /\ out' = [out EXCEPT !["CMD"] = Tail(@)]
         /\ UNCHANGED <<s, queue, heard>> /\ LinkSame
         /\ Head(out["CMD"]) \in Outbound(s.key, s.keypair)
         /\ \E p : /\ HasRead(Head(out["CMD"]), p)
                   /\ KeptQuiet(p) \/ \E r : Reply(Head(out["CMD"]), r) /\ HasSpoken(p, r)
<1> DEFINE m == Head(out["CMD"])
           p == [ph EXCEPT !.inside = @ \/ m.svc = "MD_AUTH_RESULT_RESPONSE",
                           !.encrypts = @ \/ m.svc = "MD_ENCRYPT_READY_DONE",
                           !.owed = RemoveFirst(@, m.svc)]
<1>1. /\ out["CMD"] # <<>> /\ out' = [out EXCEPT !["CMD"] = Tail(@)]
      /\ UNCHANGED <<s, queue, heard>> /\ LinkSame
  BY DEF PhoneReads, LinkSame
<1>2. m \in Outbound(s.key, s.keypair)
  <2>1. out["CMD"] \in Seq(Outbound(s.key, s.keypair))
    BY TransportAssumption DEF Shape, WireShape
  <2> QED
    BY <1>1, <2>1, HeadTailProperties
<1>3. PhoneShape /\ DOMAIN ph = PhoneField /\ ph.ready \in BOOLEAN /\ ph.encrypts \in BOOLEAN
  BY DEF Shape, PhoneShape
<1>4. PICK r \in Replies(m) : IF r = NoMsg THEN ph' = p /\ UNCHANGED net ELSE Says(p, r)
  BY DEF PhoneReads
<1> HIDE DEF m
<1>5. HasRead(m, p)
  BY <1>3 DEF HasRead, PhoneField
<1>6. Reply(m, r)
  BY <1>2, <1>3, <1>4, RepliesAre DEF Outbound
<1>7. CASE r = NoMsg
  <2>1. ph' = p /\ UNCHANGED net /\ DOMAIN p = PhoneField
    BY <1>3, <1>4, <1>7
  <2> HIDE DEF p
  <2>2. KeptQuiet(p)
    BY <2>1 DEF KeptQuiet
  <2> QED
    BY <1>1, <1>2, <1>5, <2>2 DEF m
<1>8. CASE r # NoMsg
  <2>1. Says(p, r)
    BY <1>4, <1>8
  <2>2. p.encrypts \in BOOLEAN /\ p.ready \in BOOLEAN /\ DOMAIN p = PhoneField /\ r \in Spoken
    BY <1>3, <1>6 DEF PhoneField, Reply
  <2> HIDE DEF p
  <2>3. HasSpoken(p, r)
    BY <2>1, <2>2, SaysIs DEF HasSpoken
  <2> QED
    BY <1>1, <1>2, <1>5, <1>6, <2>3 DEF m
<1> QED
  BY <1>7, <1>8

\* A phone that says one of its wishes.
Wishing(p, m) ==
  /\ m \in Wishes /\ DOMAIN p = PhoneField
  /\ DOMAIN p.plan = {"says", "major", "host", "fault"} /\ p.plan.major = ph.plan.major
  /\ p.plan.says \subseteq Wishes /\ p.ready = ph.ready /\ p.window = ph.window
  /\ p.encrypts = ph.encrypts /\ p.owed = ph.owed
  /\ p.asked = ph.asked /\ p.again = ph.again
  /\ HasSpoken(p, m)

LEMMA PhoneSaysIs ==
  ASSUME Shape, PhoneSays
  PROVE  /\ UNCHANGED <<s, queue, heard, out>> /\ LinkSame
         /\ \E p, m : Wishing(p, m)
<1>1. UNCHANGED <<s, queue, heard, out>> /\ LinkSame
  BY DEF PhoneSays, LinkSame
<1>2. PICK m \in ph.plan.says : Says([ph EXCEPT !.plan.says = @ \ {m}], m)
  BY DEF PhoneSays
<1>3. /\ DOMAIN ph = PhoneField /\ DOMAIN ph.plan = {"says", "major", "host", "fault"}
      /\ ph.plan.says \subseteq Wishes /\ ph.ready \in BOOLEAN /\ ph.encrypts \in BOOLEAN
  BY DEF Shape, PhoneShape
<1> DEFINE l == [ph.plan EXCEPT !.says = @ \ {m}]
           p == [ph EXCEPT !.plan = l]
<1>4. Says(p, m)
  BY <1>2, <1>3 DEF PhoneField
<1>5. /\ DOMAIN l = {"says", "major", "host", "fault"} /\ l.major = ph.plan.major
      /\ l.says \subseteq Wishes
  BY <1>3
<1> HIDE DEF l
<1>6. /\ DOMAIN p = PhoneField /\ p.plan = l /\ p.ready = ph.ready /\ p.window = ph.window
      /\ p.encrypts = ph.encrypts /\ p.owed = ph.owed /\ p.asked = ph.asked /\ p.again = ph.again
  BY <1>3 DEF PhoneField
<1> HIDE DEF p
<1>7. m \in Wishes /\ m \in Spoken
  BY <1>3 DEF Spoken
<1>8. HasSpoken(p, m)
  BY <1>3, <1>4, <1>6, <1>7, SaysIs DEF HasSpoken
<1>9. Wishing(p, m)
  BY <1>5, <1>6, <1>7, <1>8 DEF Wishing
<1> QED
  BY <1>1, <1>9

-----------------------------------------------------------------------------
\* The shape is an invariant

LEMMA OutboundGrows ==
  ASSUME NEW key1 \in BOOLEAN, NEW key2 \in BOOLEAN, key1 => key2, NEW keypair
  PROVE  Outbound(key1, keypair) \subseteq Outbound(key2, keypair)
  BY DEF Outbound

LEMMA SameShape ==
  ASSUME Shape, Settled, PhoneSame
  PROVE  /\ Cased(s') /\ s'.tx = <<>> /\ PhoneShape' /\ s'.key = s.key /\ s'.keypair = s.keypair
<1>1. Cased(s') /\ s'.key = s.key /\ s'.keypair = s.keypair /\ s'.tx = <<>>
  BY SameCased DEF Shape, Settled, Same
<1>2. PhoneShape'
  BY DEF Shape, PhoneShape, PhoneSame
<1> QED
  BY <1>1, <1>2

\* Each step keeps the shape.
LEMMA IdleShape ==
  ASSUME Shape, Idle PROVE Shape'
<1>1. Cased(s') /\ s'.tx = <<>> /\ PhoneShape' /\ s'.key = s.key /\ s'.keypair = s.keypair
  BY SameShape DEF Idle
<1>2. WireShape'
  BY <1>1 DEF Idle, Shape, WireShape
<1>3. LinkShape'
  BY DEF Idle, LinkShape
<1> QED
  BY <1>1, <1>2, <1>3 DEF Shape

\* What a channel is left with after messages of the car.
LEMMA PostsTyped ==
  ASSUME NEW S, NEW T, S \subseteq T, out \in [Channel -> Seq(S)], NEW tx \in Seq(T),
         out' = [c \in Channel |-> IF CanSend(c) THEN out[c] \o Of(tx, c) ELSE out[c]]
  PROVE  out' \in [Channel -> Seq(T)]
<1>1. ASSUME NEW c \in Channel
      PROVE  (IF CanSend(c) THEN out[c] \o Of(tx, c) ELSE out[c]) \in Seq(T)
  <2>1. out[c] \in Seq(T)
    BY SeqMonotonic
  <2>2. Of(tx, c) \in Seq(T)
    BY OfFacts
  <2> QED
    BY <2>1, <2>2, ConcatProperties
<1> QED
  BY <1>1

LEMMA PostingShape ==
  ASSUME Shape, Posting PROVE Shape'
<1>1. Cased(s') /\ s'.tx = <<>> /\ PhoneShape' /\ s'.key = s.key /\ s'.keypair = s.keypair
  BY SameShape DEF Posting
<1>2. PICK tx \in Seq(Posted(s.enabled, s.key, s.keypair)) :
        out' = [c \in Channel |-> IF CanSend(c) THEN out[c] \o Of(tx, c) ELSE out[c]]
  BY DEF Posting
<1> DEFINE S == Outbound(s.key, s.keypair)
<1>3. tx \in Seq(S)
  <2>1. Posted(s.enabled, s.key, s.keypair) \subseteq S
    BY PostedOut DEF Shape, Cased
  <2> QED
    BY <2>1, SeqMonotonic
<1>4. out \in [Channel -> Seq(S)] /\ S \subseteq S
  BY DEF Shape, WireShape
<1> HIDE DEF S
<1>5. out' \in [Channel -> Seq(S)]
  BY <1>2, <1>3, <1>4, PostsTyped
<1>6. WireShape'
  BY <1>1, <1>5 DEF S, Posting, Shape, WireShape
<1>7. LinkShape'
  BY DEF Posting, LinkSame, Shape, LinkShape
<1> QED
  BY <1>1, <1>6, <1>7 DEF Shape

LEMMA BeatingShape ==
  ASSUME Shape, Beating PROVE Shape'
<1>1. Cased(s') /\ s'.tx = <<>> /\ PhoneShape' /\ s'.key = s.key /\ s'.keypair = s.keypair
  BY SameShape DEF Beating
<1> DEFINE S == Outbound(s.key, s.keypair)
           m == Msg("VIDEO", "VIDEO_HEARTBEAT", "none")
<1>2. m \in S
  BY TextFacts DEF Msg, Outbound
<1>3. out \in [Channel -> Seq(S)] /\ out' = [out EXCEPT !["VIDEO"] = Append(@, m)]
  BY DEF Shape, WireShape, Beating
<1> HIDE DEF S, m
<1>4. out' \in [Channel -> Seq(S)]
  BY <1>2, <1>3, AppendProperties
<1>5. WireShape'
  BY <1>1, <1>4 DEF S, Beating, Shape, WireShape
<1>6. LinkShape'
  BY DEF Beating, LinkSame, Shape, LinkShape
<1> QED
  BY <1>1, <1>5, <1>6 DEF Shape

LEMMA RoundSends ==
  ASSUME NEW x, Cased(x), NEW f, NEW g, NEW y, Round(x, f, g, y)
  PROVE  y.tx \in Seq(Outbound(y.key, x.keypair)) /\ (x.key => y.key)
<1>1. /\ x.key \in BOOLEAN /\ x.enabled \in BOOLEAN /\ x.keypair \in BOOLEAN
      /\ y.key \in BOOLEAN /\ y.enabled \in BOOLEAN
  BY DEF Round, Cased
<1> DEFINE S == Outbound(y.key, x.keypair)
<1>2. CASE RoundKept(x, f, y)
  <2>1. Posted(x.enabled, y.key, x.keypair) \subseteq S
    BY <1>1, PostedOut
  <2> QED
    BY <1>2, <2>1, SeqMonotonic DEF RoundKept
<1>3. CASE RoundTurned(x, f, y)
  <2> DEFINE p == Post(x.enabled, "CMD", "MD_ENCRYPT_READY_DONE", "none")
  <2>1. /\ y.key = x.key
        /\ y.tx = <<p>> \/ \E m \in Posted(y.enabled, y.key, x.keypair) : y.tx = Append(<<p>>, m)
    BY <1>3 DEF RoundTurned
  <2>2. p \in S /\ Posted(y.enabled, y.key, x.keypair) \subseteq S
    BY <1>1, PostedOut
  <2> HIDE DEF S, p
  <2>3. <<p>> \in Seq(S) /\ \A m \in S : Append(<<p>>, m) \in Seq(S)
    BY <2>2, AppendProperties
  <2> QED
    BY <2>1, <2>2, <2>3 DEF S
<1>4. CASE RoundDropped(x, f, y)
  <2>1. PICK q \in Seq(Posted(x.enabled, y.key, x.keypair)) :
          y.tx = q \/ \E m \in Posted(y.enabled, y.key, x.keypair) : y.tx = Append(q, m)
    BY <1>4 DEF RoundDropped
  <2>2. Posted(x.enabled, y.key, x.keypair) \subseteq S /\ Posted(y.enabled, y.key, x.keypair) \subseteq S
    BY <1>1, PostedOut
  <2> HIDE DEF S
  <2>3. q \in Seq(S)
    BY <2>2, SeqMonotonic
  <2>4. \A m \in S : Append(q, m) \in Seq(S)
    BY <2>3, AppendProperties
  <2>5. y.tx \in Seq(S)
    BY <2>1, <2>2, <2>3, <2>4
  <2> QED
    BY <1>4, <2>5 DEF RoundDropped, S
<1> QED
  BY <1>2, <1>3, <1>4 DEF Round

LEMMA TakingShape ==
  ASSUME Shape, Taking PROVE Shape'
<1> DEFINE f == Head(queue)
<1>1. PICK x, g :
        /\ Round(s, f, g, x) /\ Cased(s') /\ s'.tx = <<>> /\ s'.keypair = x.keypair /\ s'.key = x.key
        /\ out' = [c \in Channel |-> IF CanSend(c) THEN out[c] \o Of(x.tx, c) ELSE out[c]]
  BY DEF Taking
<1>2. PhoneShape'
  BY DEF Shape, PhoneShape, PhoneSame, Taking
<1>3. x.tx \in Seq(Outbound(x.key, s.keypair)) /\ (s.key => x.key) /\ x.keypair = s.keypair
      /\ x.key \in BOOLEAN /\ s.key \in BOOLEAN
  BY <1>1, RoundSends DEF Shape, Round, Cased
<1> DEFINE S == Outbound(s.key, s.keypair)
           T == Outbound(s'.key, s.keypair)
<1>4. S \subseteq T /\ x.tx \in Seq(T)
  BY <1>1, <1>3, OutboundGrows
<1>5. out \in [Channel -> Seq(S)]
  BY DEF Shape, WireShape
<1> HIDE DEF S, T, f
<1>6. out' \in [Channel -> Seq(T)]
  BY <1>1, <1>4, <1>5, PostsTyped
<1>7. queue' \in Seq(Wire)
  BY HeadTailProperties DEF Taking, Shape, WireShape
<1>8. WireShape'
  BY <1>1, <1>3, <1>6, <1>7 DEF T, Taking, Shape, WireShape
<1>9. LinkShape'
  BY DEF Taking, LinkSame, Shape, LinkShape
<1> QED
  BY <1>1, <1>2, <1>8, <1>9 DEF Shape

LEMMA ReadingShape ==
  ASSUME Shape, NEW c \in Channel, Reading(c) PROVE Shape'
<1>1. net[c] \in Seq(On(c)) /\ net[c] # <<>> /\ On(c) \subseteq Wire
  BY DEF Reading, Shape, WireShape, On
<1>2. Head(net[c]) \in On(c) /\ Tail(net[c]) \in Seq(On(c)) /\ Head(net[c]) \in Wire
  BY <1>1, HeadTailProperties
<1>3. Tail(net[c]) \in Seq(Wire)
  BY <1>1, <1>2, SeqMonotonic
<1>4. queue' \in Seq(Wire)
  BY <1>2, AppendProperties DEF Reading, Shape, WireShape
<1>5. net' \in [Channel -> Seq(Wire)] /\ \A d \in Channel : net'[d] \in Seq(On(d))
  BY <1>2, <1>3 DEF Reading, Shape, WireShape
<1>6. UNCHANGED <<s, ph, out>> /\ LinkSame
  BY DEF Reading
<1> QED
  BY <1>4, <1>5, <1>6 DEF Shape, PhoneShape, WireShape, LinkShape, LinkSame

LEMMA EndingShape ==
  ASSUME Shape, NEW c \in Channel, Ending(c) PROVE Shape'
<1>1. net' \in [Channel -> Seq(Wire)] /\ \A d \in Channel : net'[d] \in Seq(On(d))
  BY EmptySeq DEF Ending, Shape, WireShape
<1>2. DOMAIN reader' = Channel /\ UNCHANGED <<s, ph, out, queue, far, acceptor>> /\ closed' \in BOOLEAN
  BY DEF Ending, Shape, LinkShape
<1> QED
  BY <1>1, <1>2 DEF Shape, PhoneShape, WireShape, LinkShape

LEMMA SpokeNet ==
  ASSUME Shape, NEW p, NEW m, NEW n, Spoke(p, m, n)
  PROVE  net' \in [Channel -> Seq(Wire)] /\ \A d \in Channel : net'[d] \in Seq(On(d))
<1>1. /\ m.ch \in Channel /\ n \in On(m.ch) /\ n \in Wire
      /\ net' = [net EXCEPT ![m.ch] = Append(@, n)]
  BY DEF Spoke, On
<1>2. Append(net[m.ch], n) \in Seq(Wire) /\ Append(net[m.ch], n) \in Seq(On(m.ch))
  BY <1>1, AppendProperties DEF Shape, WireShape
<1> QED
  BY <1>1, <1>2 DEF Shape, WireShape

LEMMA SpokePhone ==
  ASSUME NEW p, NEW m, NEW n, Spoke(p, m, n),
         DOMAIN p.plan = {"says", "major", "host", "fault"},
         p.plan.says \subseteq Wishes, p.plan.major \in Versions,
         p.ready \in BOOLEAN, p.encrypts \in BOOLEAN, p.window \subseteq Text,
         p.asked \in BOOLEAN, p.again \in BOOLEAN
  PROVE  PhoneShape'
<1>1. m.svc \in Text
  BY SpokenIs DEF Spoke, Bare
<1> QED
  BY <1>1 DEF Spoke, PhoneShape

LEMMA PhoneReadsShape ==
  ASSUME Shape, PhoneReads PROVE Shape'
<1> DEFINE m == Head(out["CMD"])
<1>1. /\ out["CMD"] # <<>> /\ out' = [out EXCEPT !["CMD"] = Tail(@)]
      /\ UNCHANGED <<s, queue, heard>> /\ LinkSame
  BY PhoneReadsIs
<1>2. PICK p : HasRead(m, p) /\ (KeptQuiet(p) \/ \E r : Reply(m, r) /\ HasSpoken(p, r))
  BY PhoneReadsIs
<1> HIDE DEF m
<1>3. /\ DOMAIN p.plan = {"says", "major", "host", "fault"}
      /\ p.plan.says \subseteq Wishes /\ p.plan.major \in Versions
      /\ p.ready \in BOOLEAN /\ p.encrypts \in BOOLEAN /\ p.window \subseteq Text
      /\ p.asked \in BOOLEAN /\ p.again \in BOOLEAN
  BY <1>2 DEF HasRead, Shape, PhoneShape
<1>4. /\ net' \in [Channel -> Seq(Wire)] /\ \A d \in Channel : net'[d] \in Seq(On(d))
      /\ PhoneShape'
  <2>1. CASE KeptQuiet(p)
    BY <1>3, <2>1 DEF KeptQuiet, Shape, WireShape, PhoneShape
  <2>2. ASSUME NEW r, HasSpoken(p, r)
        PROVE  /\ net' \in [Channel -> Seq(Wire)] /\ \A d \in Channel : net'[d] \in Seq(On(d))
               /\ PhoneShape'
    <3>1. PICK n : Spoke(p, r, n)
      BY <2>2 DEF HasSpoken
    <3> QED
      BY <1>3, <3>1, SpokeNet, SpokePhone
  <2> QED
    BY <1>2, <2>1, <2>2
<1>5. out' \in [Channel -> Seq(Outbound(s.key, s.keypair))]
  <2> DEFINE S == Outbound(s.key, s.keypair)
  <2>1. out \in [Channel -> Seq(S)]
    BY DEF Shape, WireShape
  <2> HIDE DEF S
  <2>2. Tail(out["CMD"]) \in Seq(S)
    BY <1>1, <2>1, TransportAssumption, HeadTailProperties
  <2>3. out' \in [Channel -> Seq(S)]
    BY <1>1, <2>1, <2>2
  <2> QED
    BY <2>3 DEF S
<1> QED
  BY <1>1, <1>4, <1>5 DEF Shape, WireShape, LinkShape, LinkSame

LEMMA PhoneSaysShape ==
  ASSUME Shape, PhoneSays PROVE Shape'
<1>1. UNCHANGED <<s, queue, heard, out>> /\ LinkSame
  BY PhoneSaysIs
<1>2. PICK p, m : Wishing(p, m)
  BY PhoneSaysIs
<1>3. /\ DOMAIN p.plan = {"says", "major", "host", "fault"}
      /\ p.plan.says \subseteq Wishes /\ p.plan.major \in Versions
      /\ p.ready \in BOOLEAN /\ p.encrypts \in BOOLEAN /\ p.window \subseteq Text
      /\ p.asked \in BOOLEAN /\ p.again \in BOOLEAN
  BY <1>2 DEF Wishing, Shape, PhoneShape
<1>4. PICK n : Spoke(p, m, n)
  BY <1>2 DEF Wishing, HasSpoken
<1>5. net' \in [Channel -> Seq(Wire)] /\ \A d \in Channel : net'[d] \in Seq(On(d))
  BY <1>4, SpokeNet
<1>6. PhoneShape'
  BY <1>3, <1>4, SpokePhone
<1> QED
  BY <1>1, <1>5, <1>6 DEF Shape, WireShape, LinkShape, LinkSame

LEMMA InitShape == ASSUME Init PROVE Shape
<1>1. Cased(s) /\ s.tx = <<>>
  BY SessionAssumption DEF Init, SessionInit, Cased, Field
<1>2. PhoneShape
  <2>1. PICK plan \in Plan :
          ph = [ plan |-> plan, offers |-> 0, ready |-> FALSE, inside |-> FALSE, encrypts |-> FALSE,
                 window |-> {}, asked |-> FALSE, again |-> FALSE, owed |-> <<>> ]
    BY DEF Init, SessionInit
  <2>2. /\ DOMAIN plan = {"says", "major", "host", "fault"} /\ plan.major \in Versions
        /\ plan.says \subseteq Wishes
    BY SessionAssumption DEF Wishes
  <2> QED
    BY <2>1, <2>2 DEF PhoneShape, PhoneField
<1>3. WireShape
  <2>1. net = [c \in Channel |-> <<>>] /\ queue = <<>> /\ out = [c \in Channel |-> <<>>]
    BY DEF Init, TransportInit
  <2> QED
    BY <2>1, EmptySeq DEF WireShape
<1>4. LinkShape
  BY TransportAssumption DEF Init, TransportInit, LinkShape
<1> QED
  BY <1>1, <1>2, <1>3, <1>4 DEF Shape

LEMMA StutterShape == ASSUME Shape, UNCHANGED vars PROVE Shape'
  BY DEF Shape, PhoneShape, WireShape, LinkShape, vars, transportVars, sessionVars

LEMMA ShapeStep == ASSUME Shape, [Next]_vars PROVE Shape'
<1>1. CASE Next
  BY <1>1, NextIs, IdleShape, PostingShape, BeatingShape, TakingShape, ReadingShape, EndingShape,
     PhoneReadsShape, PhoneSaysShape DEF Steps
<1> QED
  BY <1>1, StutterShape

\* The type of the state: sessions, phones and messages are what they are, and
\* an answer about a key is in flight only once there is a key.
THEOREM ShapeAlways == Spec => []Shape
<1>1. Shape /\ [Next]_vars => Shape'
  BY ShapeStep
<1> QED
  BY InitShape, <1>1, PTL DEF Spec

-----------------------------------------------------------------------------
\* The channels are what PhoneChannels promises

Flight == [c \in Channel |-> Of(queue, c) \o net[c]]

\* What is in flight on a channel belongs to the channel.
LEMMA FlightType ==
  ASSUME Shape
  PROVE  /\ DOMAIN Flight = Channel
         /\ \A c \in Channel : /\ Flight[c] = Of(queue, c) \o net[c] /\ Flight[c] \in Seq(On(c))
                              /\ Of(queue, c) \in Seq(On(c)) /\ net[c] \in Seq(On(c))
<1>1. DOMAIN Flight = Channel /\ \A c \in Channel : Flight[c] = Of(queue, c) \o net[c]
  BY DEF Flight
<1>2. ASSUME NEW c \in Channel
      PROVE  Flight[c] \in Seq(On(c)) /\ Of(queue, c) \in Seq(On(c)) /\ net[c] \in Seq(On(c))
  <2>1. net[c] \in Seq(On(c)) /\ queue \in Seq(Wire)
    BY DEF Shape, WireShape
  <2>2. Of(queue, c) \in Seq({m \in Wire : m.ch = c})
    BY <2>1, OfFacts
  <2> QED
    BY <1>1, <2>1, <2>2, ConcatProperties DEF On
<1> QED
  BY <1>1, <1>2

LEMMA FlightSame ==
  ASSUME UNCHANGED <<net, queue>> PROVE Flight' = Flight
  BY DEF Flight

\* A frame that is read keeps its place.
LEMMA FlightRead ==
  ASSUME Shape, NEW c \in Channel, Reading(c) PROVE Flight' = Flight
<1> DEFINE h == Head(net[c])
           t == Tail(net[c])
<1>1. /\ net[c] \in Seq(On(c)) /\ net[c] # <<>> /\ queue \in Seq(Wire) /\ On(c) \subseteq Wire
      /\ queue' = Append(queue, h) /\ net' = [net EXCEPT ![c] = t] /\ DOMAIN net = Channel
  BY DEF Reading, Shape, WireShape, On
<1>2. h \in On(c) /\ t \in Seq(On(c)) /\ net[c] = <<h>> \o t /\ h \in Wire /\ h.ch = c
  BY <1>1, HeadAndTail DEF On
<1> HIDE DEF h, t
<1>3. ASSUME NEW d \in Channel
      PROVE  Of(queue', d) \o net'[d] = Of(queue, d) \o net[d]
  <2>1. Of(queue', d) = IF d = c THEN Append(Of(queue, d), h) ELSE Of(queue, d)
    <3>1. Of(Append(queue, h), d) = IF h.ch = d THEN Append(Of(queue, d), h) ELSE Of(queue, d)
      BY <1>1, <1>2, OfAppend
    <3> QED
      BY <1>1, <1>2, <3>1
  <2>2. CASE d # c
    BY <1>1, <2>1, <2>2
  <2>3. CASE d = c
    <3> DEFINE o == Of(queue, c)
    <3>1. o \in Seq(On(c))
      BY FlightType
    <3> HIDE DEF o
    <3>2. <<h>> \in Seq(On(c)) /\ Append(o, h) = o \o <<h>>
      BY <1>2, <3>1, AppendIsConcat
    <3>3. (o \o <<h>>) \o t = o \o (<<h>> \o t)
      BY <1>2, <3>1, <3>2, ConcatAssociative
    <3> QED
      BY <1>1, <1>2, <2>1, <2>3, <3>2, <3>3 DEF o
  <2> QED
    BY <2>2, <2>3
<1> QED
  BY <1>3 DEF Flight

\* A message that is taken is the first of its channel.
LEMMA FlightTaken ==
  ASSUME Shape, Taking
  PROVE  LET f == Head(queue) IN
         /\ f \in Wire /\ Flight[f.ch] # <<>> /\ Head(Flight[f.ch]) = f
         /\ Flight' = [Flight EXCEPT ![f.ch] = Tail(@)]
<1> DEFINE f == Head(queue)
           k == f.ch
<1>1. /\ queue \in Seq(Wire) /\ queue # <<>> /\ queue' = Tail(queue) /\ net' = net
      /\ f \in Wire /\ queue' \in Seq(Wire)
  BY HeadTailProperties DEF Taking, Shape, WireShape
<1>2. k \in Channel /\ f \in On(k)
  BY <1>1 DEF Wire, On
<1> HIDE DEF f
<1>3. \A c \in Channel :
        Of(queue, c) = IF f.ch = c THEN <<f>> \o Of(queue', c) ELSE Of(queue', c)
  <2>1. \A c : Of(queue, c) = IF Head(queue).ch = c THEN <<Head(queue)>> \o Of(Tail(queue), c) ELSE Of(Tail(queue), c)
    BY <1>1, OfHead
  <2> QED
    BY <1>1, <2>1 DEF f
<1>4. \A c \in Channel \ {k} : Flight'[c] = Flight[c]
  BY <1>1, <1>3 DEF Flight
<1> DEFINE r == Of(queue', k) \o net[k]
<1>5. Flight'[k] = r /\ r \in Seq(On(k))
  <2>1. Of(queue', k) \in Seq(On(k))
    BY <1>1, OfFacts DEF On
  <2>2. net[k] \in Seq(On(k))
    BY <1>2, FlightType
  <2> QED
    BY <1>1, <1>2, <2>1, <2>2, ConcatProperties DEF Flight
<1>6. Flight[k] = <<f>> \o r
  <2> DEFINE o == Of(queue', k)
  <2>1. o \in Seq(On(k)) /\ net[k] \in Seq(On(k)) /\ <<f>> \in Seq(On(k))
    <3>1. o \in Seq(On(k))
      BY <1>1, OfFacts DEF On
    <3> QED
      BY <1>2, <3>1, FlightType
  <2>2. Flight[k] = (<<f>> \o o) \o net[k]
    BY <1>2, <1>3, FlightType
  <2> DEFINE one == <<f>>
             S == On(k)
             u == net[k]
  <2> HIDE DEF o, k, one, S, u
  <2>3. (one \o o) \o u = one \o (o \o u)
    <3>1. o \in Seq(S) /\ u \in Seq(S) /\ one \in Seq(S)
      BY <2>1 DEF one, S, u
    <3> QED
      BY <3>1, ConcatAssociative
  <2> QED
    BY <2>2, <2>3 DEF o, one, u
<1> HIDE DEF r
<1>7. Flight[k] # <<>> /\ Head(Flight[k]) = f /\ Tail(Flight[k]) = r
  <2> DEFINE q == <<f>> \o r
  <2>1. q \in Seq(On(k)) /\ Len(q) = 1 + Len(r) /\ Len(r) \in Nat
        /\ \A i \in 1..Len(q) : q[i] = IF i <= 1 THEN f ELSE r[i - 1]
    <3>1. <<f>> \in Seq(On(k)) /\ Len(<<f>>) = 1 /\ <<f>>[1] = f
      BY <1>2
    <3> QED
      BY <1>5, <3>1, ConcatProperties, LenProperties
  <2> HIDE DEF q
  <2>2. q # <<>> /\ Head(q) = f /\ q = <<Head(q)>> \o Tail(q)
    BY <2>1, HeadAndTail, EmptySeq
  <2>3. Tail(q) = r
    <3>1. /\ Tail(q) \in Seq(On(k)) /\ Len(Tail(q)) = Len(r)
          /\ \A i \in 1..Len(Tail(q)) : Tail(q)[i] = q[i + 1]
      BY <2>1, <2>2, HeadTailProperties
    <3>2. \A i \in 1..Len(Tail(q)) : Tail(q)[i] = r[i]
      BY <2>1, <3>1
    <3> QED
      BY <1>5, <3>1, <3>2, SeqEqual
  <2> QED
    BY <1>6, <2>2, <2>3 DEF q
<1>8. Flight' = [Flight EXCEPT ![k] = Tail(@)]
  <2>1. DOMAIN Flight' = Channel /\ DOMAIN Flight = Channel
    BY DEF Flight
  <2>2. Flight' = [c \in Channel |-> Flight'[c]]
    BY DEF Flight
  <2>3. \A c \in Channel : Flight'[c] = IF c = k THEN Tail(Flight[k]) ELSE Flight[c]
    BY <1>4, <1>5, <1>7
  <2> HIDE DEF k
  <2> QED
    BY <1>2, <2>1, <2>2, <2>3
<1> QED
  BY <1>1, <1>7, <1>8 DEF f

\* A reader that ends drops what it has not read: the end of what is in flight.
LEMMA FlightEnds ==
  ASSUME Shape, NEW c \in Channel, Ending(c)
  PROVE  /\ net[c] = <<>> => Flight' = Flight
         /\ \E n \in 0..Len(Flight[c]) : Flight' = [Flight EXCEPT ![c] = SubSeq(@, 1, n)]
         /\ Flight' = [Flight EXCEPT ![c] = Of(queue, c)]
<1> DEFINE o == Of(queue, c)
<1>1. /\ queue' = queue /\ net' = [net EXCEPT ![c] = <<>>] /\ DOMAIN net = Channel
      /\ o \in Seq(On(c)) /\ net[c] \in Seq(On(c)) /\ Flight[c] = o \o net[c] /\ DOMAIN Flight = Channel
  BY FlightType DEF Ending, Shape, WireShape
<1>2. Flight' = [Flight EXCEPT ![c] = o]
  <2>1. \A d \in Channel : Flight'[d] = IF d = c THEN o \o <<>> ELSE Flight[d]
    BY <1>1 DEF Flight
  <2>2. o \o <<>> = o
    BY <1>1, ConcatEmptySeq
  <2> HIDE DEF o
  <2>3. \A d \in Channel : Flight'[d] = IF d = c THEN o ELSE Flight[d]
    BY <2>1, <2>2
  <2>4. Flight' = [d \in Channel |-> Flight'[d]]
    BY DEF Flight
  <2> QED
    BY <1>1, <2>3, <2>4
<1> HIDE DEF o
<1>3. net[c] = <<>> => Flight' = Flight
  <2>1. ASSUME net[c] = <<>> PROVE o = Flight[c]
    BY <1>1, <2>1, ConcatEmptySeq
  <2>2. [Flight EXCEPT ![c] = Flight[c]] = Flight
    BY DEF Flight
  <2> QED
    BY <1>2, <2>1, <2>2
<1>4. SubSeq(Flight[c], 1, Len(o)) = o /\ Len(o) \in 0..Len(Flight[c])
  <2> DEFINE q == o \o net[c]
             n == Len(o)
             r == SubSeq(q, 1, n)
  <2>1. /\ q \in Seq(On(c)) /\ Len(q) = n + Len(net[c]) /\ n \in Nat /\ Len(net[c]) \in Nat
        /\ \A i \in 1..n : q[i] = o[i]
    <3>1. n \in Nat /\ Len(net[c]) \in Nat
      BY <1>1, LenProperties
    <3>2. /\ q \in Seq(On(c)) /\ Len(q) = n + Len(net[c])
          /\ \A i \in 1..n + Len(net[c]) : q[i] = IF i <= n THEN o[i] ELSE net[c][i - n]
      BY <1>1, ConcatProperties
    <3> QED
      BY <3>1, <3>2
  <2> HIDE DEF q, n
  <2>2. r \in Seq(On(c)) /\ Len(r) = n /\ \A i \in 1..n : r[i] = q[i]
    <3>1. n <= Len(q)
      BY <2>1
    <3>2. CASE n = 0
      <4>1. r = <<>>
        BY <3>2
      <4> QED
        BY <3>2, <4>1, EmptySeq
    <3>3. CASE n # 0
      <4>1. 1 \in 1..Len(q) /\ n \in 1..Len(q)
        BY <2>1, <3>1, <3>3
      <4>2. /\ r \in Seq(On(c)) /\ Len(r) = IF 1 <= n THEN n - 1 + 1 ELSE 0
            /\ \A i \in 1..n - 1 + 1 : r[i] = q[1 + i - 1]
        BY <2>1, <4>1, SubSeqProperties
      <4> QED
        BY <2>1, <3>3, <4>2
    <3> QED
      BY <3>2, <3>3
  <2>3. r = o
    BY <1>1, <2>1, <2>2, SeqEqual DEF n
  <2> QED
    BY <1>1, <2>1, <2>3 DEF q, n, r
<1> QED
  BY <1>2, <1>3, <1>4 DEF o

\* What the phone says comes behind what is in flight.
LEMMA FlightSpoken ==
  ASSUME Shape, NEW p, NEW m, NEW n, Spoke(p, m, n), queue' = queue
  PROVE  m.ch \in Channel /\ n \in Message /\ Flight' = [Flight EXCEPT ![m.ch] = Append(@, n)]
<1> DEFINE k == m.ch
           o == Of(queue, k)
<1>1. /\ k \in Channel /\ n \in Message /\ n \in On(k) /\ net' = [net EXCEPT ![k] = Append(@, n)]
      /\ DOMAIN net = Channel
  BY DEF Spoke, Shape, WireShape
<1>2. o \in Seq(On(k)) /\ net[k] \in Seq(On(k)) /\ Flight[k] = o \o net[k] /\ DOMAIN Flight = Channel
  BY <1>1, FlightType
<1> HIDE DEF k
<1>3. \A d \in Channel : Flight'[d] = IF d = k THEN o \o Append(net[k], n) ELSE Flight[d]
  BY <1>1 DEF Flight
<1> HIDE DEF o
<1>4. o \o Append(net[k], n) = Append(Flight[k], n)
  BY <1>1, <1>2, ConcatAppend
<1>5. Flight' = [d \in Channel |-> Flight'[d]]
  BY DEF Flight
<1>6. Flight' = [Flight EXCEPT ![k] = Append(@, n)]
  BY <1>2, <1>3, <1>4, <1>5
<1> QED
  BY <1>1, <1>6 DEF k

\* A step of the channels, or a stutter.
AbstractStep == Abstract!Next \/ UNCHANGED <<Flight, heard, closed>>

LEMMA AbstractSend ==
  ASSUME NEW c \in Channel, NEW m \in Message, Flight' = [Flight EXCEPT ![c] = Append(@, m)],
         UNCHANGED <<heard, closed>>
  PROVE  Abstract!Next
<1>1. Abstract!Send(c)
  BY DEF Abstract!Send, Flight
<1> QED
  BY <1>1 DEF Abstract!Next

\* Each step of the session is one of the channels, or a stutter.
LEMMA IdleAbstract == ASSUME Shape, Idle PROVE AbstractStep
<1>1. Flight' = Flight /\ UNCHANGED heard
  BY FlightSame DEF Idle
<1>2. CASE UNCHANGED closed
  BY <1>1, <1>2 DEF AbstractStep
<1>3. CASE ~UNCHANGED closed
  <2>1. closed' = TRUE
    BY <1>3 DEF Idle, Shape, LinkShape
  <2>2. Abstract!Down
    BY <1>1, <2>1 DEF Abstract!Down, Flight
  <2> QED
    BY <2>2 DEF AbstractStep, Abstract!Next
<1> QED
  BY <1>2, <1>3

LEMMA CarAbstract == ASSUME Shape, Posting \/ Beating PROVE AbstractStep
<1>1. Flight' = Flight
  BY FlightSame DEF Posting, Beating
<1>2. UNCHANGED <<heard, closed>>
  BY DEF Posting, Beating, LinkSame
<1> QED
  BY <1>1, <1>2 DEF AbstractStep

LEMMA TakingAbstract == ASSUME Shape, Taking PROVE AbstractStep
<1> DEFINE f == Head(queue)
<1>1. /\ f \in Wire /\ Flight[f.ch] # <<>> /\ Head(Flight[f.ch]) = f
      /\ Flight' = [Flight EXCEPT ![f.ch] = Tail(@)]
  BY FlightTaken
<1>2. heard' = [heard EXCEPT ![f.ch] = f] /\ UNCHANGED closed
  BY DEF Taking, LinkSame
<1> HIDE DEF f
<1>3. f.ch \in Channel
  BY <1>1 DEF Wire
<1>4. heard' = [heard EXCEPT ![f.ch] = Head(Flight[f.ch])]
  BY <1>1, <1>2
<1>5. PICK c \in Channel : c = f.ch
  BY <1>3
<1>6. Abstract!Handle(c)
  BY <1>1, <1>2, <1>4, <1>5 DEF Abstract!Handle, Flight
<1> QED
  BY <1>6 DEF AbstractStep, Abstract!Next

LEMMA ReadingAbstract == ASSUME Shape, NEW c \in Channel, Reading(c) PROVE AbstractStep
<1>1. Flight' = Flight
  BY FlightRead
<1>2. UNCHANGED <<heard, closed>>
  BY DEF Reading, LinkSame
<1> QED
  BY <1>1, <1>2 DEF AbstractStep

LEMMA EndingAbstract == ASSUME Shape, NEW c \in Channel, Ending(c) PROVE AbstractStep
<1>1. /\ net[c] = <<>> => Flight' = Flight
      /\ \E n \in 0..Len(Flight[c]) : Flight' = [Flight EXCEPT ![c] = SubSeq(@, 1, n)]
  BY FlightEnds
<1>2. UNCHANGED heard /\ (closed \/ net[c] = <<>>) /\ closed' \in BOOLEAN /\ (closed => closed')
  BY DEF Ending
<1>3. CASE closed
  <2>1. UNCHANGED closed
    BY <1>2, <1>3 DEF Shape, LinkShape
  <2>2. Abstract!Lose(c)
    BY <1>1, <1>2, <1>3, <2>1 DEF Abstract!Lose, Flight
  <2> QED
    BY <2>2 DEF AbstractStep, Abstract!Next
<1>4. CASE ~closed
  <2>1. Flight' = Flight
    BY <1>1, <1>2, <1>4
  <2>2. CASE UNCHANGED closed
    BY <1>2, <2>1, <2>2 DEF AbstractStep
  <2>3. CASE ~UNCHANGED closed
    <3>1. closed' = TRUE
      BY <1>2, <1>4, <2>3 DEF Shape, LinkShape
    <3>2. Abstract!Down
      BY <1>2, <2>1, <3>1 DEF Abstract!Down, Flight
    <3> QED
      BY <3>2 DEF AbstractStep, Abstract!Next
  <2> QED
    BY <2>2, <2>3
<1> QED
  BY <1>3, <1>4

LEMMA SpokenAbstract ==
  ASSUME Shape, NEW p, NEW m, HasSpoken(p, m), UNCHANGED <<queue, heard, closed>>
  PROVE  AbstractStep
<1>1. PICK n : Spoke(p, m, n)
  BY DEF HasSpoken
<1>2. m.ch \in Channel /\ n \in Message /\ Flight' = [Flight EXCEPT ![m.ch] = Append(@, n)]
  BY <1>1, FlightSpoken
<1> QED
  BY <1>2, AbstractSend DEF AbstractStep

LEMMA PhoneAbstract == ASSUME Shape, PhoneReads \/ PhoneSays PROVE AbstractStep
<1>1. CASE PhoneReads
  <2>1. UNCHANGED <<queue, heard, closed>>
    BY <1>1, PhoneReadsIs DEF LinkSame
  <2>2. PICK p : KeptQuiet(p) \/ \E r : HasSpoken(p, r)
    BY <1>1, PhoneReadsIs
  <2>3. CASE KeptQuiet(p)
    <3>1. Flight' = Flight
      BY <2>1, <2>3, FlightSame DEF KeptQuiet
    <3> QED
      BY <2>1, <3>1 DEF AbstractStep
  <2> QED
    BY <2>1, <2>2, <2>3, SpokenAbstract
<1>2. CASE PhoneSays
  <2>1. UNCHANGED <<queue, heard, closed>>
    BY <1>2, PhoneSaysIs DEF LinkSame
  <2>2. PICK p, m : HasSpoken(p, m)
    BY <1>2, PhoneSaysIs DEF Wishing
  <2> QED
    BY <2>1, <2>2, SpokenAbstract
<1> QED
  BY <1>1, <1>2

\* Any step at all.
LEMMA StepAbstract == ASSUME Shape, [Next]_vars PROVE AbstractStep
<1>1. CASE UNCHANGED vars
  <2>1. UNCHANGED <<net, queue, heard, closed>>
    BY <1>1 DEF vars, transportVars, sessionVars
  <2> QED
    BY <2>1, FlightSame DEF AbstractStep
<1>2. CASE Next
  BY <1>2, NextIs, IdleAbstract, CarAbstract, TakingAbstract, ReadingAbstract, EndingAbstract,
     PhoneAbstract DEF Steps
<1> QED
  BY <1>1, <1>2

LEMMA InitAbstract == ASSUME Init PROVE Abstract!Init
<1>1. /\ net = [c \in Channel |-> <<>>] /\ queue = <<>> /\ closed = FALSE
      /\ heard = [c \in Channel |-> NoMsg]
  BY DEF Init, TransportInit, SessionInit
<1>2. NoMsg \in Message
  BY SpokenIs, MessageIs
<1>3. \A c \in Channel : Of(queue, c) \o net[c] = <<>>
  <2>1. \A c : Of(<<>>, c) = <<>>
    BY OfFacts
  <2> QED
    BY <1>1, <2>1
<1>4. [c \in Channel |-> Of(queue, c) \o net[c]] = [c \in Channel |-> <<>>]
  BY <1>3
<1> QED
  BY <1>1, <1>2, <1>4 DEF Abstract!Init

\* What the threads of the transport and close() do to the messages of the phone is
\* what PhoneChannels promises.
THEOREM ChannelsAlwaysInOrder == Spec => ChannelsInOrder
<1>1. Shape /\ [Next]_vars => [Abstract!Next]_<<Flight, heard, ~closed>>
  BY StepAbstract DEF AbstractStep
<1>2. Shape /\ [Next]_vars => [Abstract!Next]_<<[c \in Channel |-> Of(queue, c) \o net[c]], heard, ~closed>>
  BY <1>1 DEF Flight
<1> QED
  BY InitAbstract, ShapeAlways, <1>2, PTL DEF Spec, ChannelsInOrder, Abstract!Spec

-----------------------------------------------------------------------------
\* The cipher: sequences of messages

ReadyIn(q) == \E j \in 1..Len(q) : q[j].svc = "MD_ENCRYPT_READY"
DoneIn(q) == \E j \in 1..Len(q) : q[j].svc = "MD_ENCRYPT_READY_DONE"

\* The phone sent it in plain, and did not yet know that the car may decrypt.
Early(m, w) == ~m.enc /\ m.arg # "none" /\ m.svc \notin w

\* A message in plain that the car must not take for an encrypted one is before
\* MD_ENCRYPT_READY.
Safe(on, q, w) ==
  \A i \in 1..Len(q) : Early(q[i], w) =>
    ~on /\ \A j \in 1..i - 1 : q[j].svc # "MD_ENCRYPT_READY"

\* A phone that decrypts or not reads the messages of q as they are.
InStep(on, q) ==
  \A i \in 1..Len(q) : q[i].arg # "none" =>
    (q[i].enc <=> on \/ \E j \in 1..i : q[j].svc = "MD_ENCRYPT_READY_DONE")

LEMMA SeqBasics ==
  ASSUME NEW S, NEW q \in Seq(S), NEW m \in S
  PROVE  /\ Len(q) \in Nat /\ Append(q, m) \in Seq(S) /\ Len(Append(q, m)) = Len(q) + 1
         /\ \A i \in 1..Len(q) : Append(q, m)[i] = q[i]
         /\ Append(q, m)[Len(q) + 1] = m
  BY AppendProperties, LenProperties

LEMMA TailBasics ==
  ASSUME NEW S, NEW q \in Seq(S), q # <<>>
  PROVE  /\ Len(q) \in Nat \ {0} /\ Tail(q) \in Seq(S) /\ Len(Tail(q)) = Len(q) - 1
         /\ \A i \in 1..Len(q) - 1 : Tail(q)[i] = q[i + 1]
         /\ Head(q) = q[1] /\ Head(q) \in S
<1>1. Len(q) \in Nat /\ Len(q) # 0
  BY EmptySeq, LenProperties
<1> QED
  BY <1>1, HeadTailProperties

LEMMA ReadyAppend ==
  ASSUME NEW S, NEW q \in Seq(S), NEW m \in S
  PROVE  ReadyIn(Append(q, m)) <=> ReadyIn(q) \/ m.svc = "MD_ENCRYPT_READY"
<1> DEFINE r == Append(q, m)
<1>1. /\ Len(q) \in Nat /\ Len(r) = Len(q) + 1 /\ \A i \in 1..Len(q) : r[i] = q[i]
      /\ r[Len(q) + 1] = m
  BY SeqBasics
<1> HIDE DEF r
<1>2. ReadyIn(r) <=> ReadyIn(q) \/ m.svc = "MD_ENCRYPT_READY"
  BY <1>1 DEF ReadyIn
<1> QED
  BY <1>2 DEF r

LEMMA DoneAppend ==
  ASSUME NEW S, NEW q \in Seq(S), NEW m \in S
  PROVE  DoneIn(Append(q, m)) <=> DoneIn(q) \/ m.svc = "MD_ENCRYPT_READY_DONE"
<1> DEFINE r == Append(q, m)
<1>1. /\ Len(q) \in Nat /\ Len(r) = Len(q) + 1 /\ \A i \in 1..Len(q) : r[i] = q[i]
      /\ r[Len(q) + 1] = m
  BY SeqBasics
<1> HIDE DEF r
<1>2. DoneIn(r) <=> DoneIn(q) \/ m.svc = "MD_ENCRYPT_READY_DONE"
  BY <1>1 DEF DoneIn
<1> QED
  BY <1>2 DEF r

LEMMA ReadyTail ==
  ASSUME NEW S, NEW q \in Seq(S), q # <<>>
  PROVE  /\ ReadyIn(Tail(q)) => ReadyIn(q)
         /\ Head(q).svc = "MD_ENCRYPT_READY" => ReadyIn(q)
<1> DEFINE t == Tail(q)
           h == Head(q)
<1>1. /\ Len(q) \in Nat \ {0} /\ Len(t) = Len(q) - 1 /\ h = q[1]
      /\ \A i \in 1..Len(q) - 1 : t[i] = q[i + 1]
  BY TailBasics
<1> HIDE DEF t, h
<1>2. ASSUME ReadyIn(t) PROVE ReadyIn(q)
  <2>1. PICK j \in 1..Len(t) : t[j].svc = "MD_ENCRYPT_READY"
    BY <1>2 DEF ReadyIn
  <2>2. j + 1 \in 1..Len(q) /\ q[j + 1].svc = "MD_ENCRYPT_READY"
    BY <1>1, <2>1
  <2> QED
    BY <2>2 DEF ReadyIn
<1>3. h.svc = "MD_ENCRYPT_READY" => ReadyIn(q)
  BY <1>1 DEF ReadyIn
<1> QED
  BY <1>2, <1>3 DEF t, h

LEMMA DoneTail ==
  ASSUME NEW S, NEW q \in Seq(S), q # <<>>
  PROVE  DoneIn(q) <=> Head(q).svc = "MD_ENCRYPT_READY_DONE" \/ DoneIn(Tail(q))
<1> DEFINE t == Tail(q)
           h == Head(q)
<1>1. /\ Len(q) \in Nat \ {0} /\ Len(t) = Len(q) - 1 /\ h = q[1]
      /\ \A i \in 1..Len(q) - 1 : t[i] = q[i + 1]
  BY TailBasics
<1> HIDE DEF t, h
<1>2. ASSUME DoneIn(t) PROVE DoneIn(q)
  <2>1. PICK j \in 1..Len(t) : t[j].svc = "MD_ENCRYPT_READY_DONE"
    BY <1>2 DEF DoneIn
  <2>2. j + 1 \in 1..Len(q) /\ q[j + 1].svc = "MD_ENCRYPT_READY_DONE"
    BY <1>1, <2>1
  <2> QED
    BY <2>2 DEF DoneIn
<1>3. ASSUME DoneIn(q) PROVE h.svc = "MD_ENCRYPT_READY_DONE" \/ DoneIn(t)
  <2>1. PICK j \in 1..Len(q) : q[j].svc = "MD_ENCRYPT_READY_DONE"
    BY <1>3 DEF DoneIn
  <2>2. CASE j = 1
    BY <1>1, <2>1, <2>2
  <2>3. CASE j # 1
    <3>1. j - 1 \in 1..Len(t) /\ t[j - 1] = q[j - 1 + 1] /\ j - 1 + 1 = j
      BY <1>1, <2>1, <2>3
    <3> QED
      BY <2>1, <3>1 DEF DoneIn
  <2> QED
    BY <2>2, <2>3
<1>4. h.svc = "MD_ENCRYPT_READY_DONE" => DoneIn(q)
  BY <1>1 DEF DoneIn
<1> QED
  BY <1>2, <1>3, <1>4 DEF t, h

\* Safe, as messages come and go.
LEMMA SafeAppend ==
  ASSUME NEW S, NEW q \in Seq(S), NEW m \in S, NEW on, NEW w, Safe(on, q, w),
         Early(m, w) => ~on /\ ~ReadyIn(q)
  PROVE  Safe(on, Append(q, m), w)
<1> DEFINE r == Append(q, m)
<1>1. /\ Len(q) \in Nat /\ Len(r) = Len(q) + 1 /\ \A i \in 1..Len(q) : r[i] = q[i]
      /\ r[Len(q) + 1] = m
  BY SeqBasics
<1> HIDE DEF r
<1>2. ASSUME NEW i \in 1..Len(r), Early(r[i], w)
      PROVE  ~on /\ \A j \in 1..i - 1 : r[j].svc # "MD_ENCRYPT_READY"
  <2>1. CASE i = Len(q) + 1
    <3>1. ~on /\ ~ReadyIn(q) /\ i - 1 = Len(q)
      BY <1>1, <1>2, <2>1
    <3> QED
      BY <1>1, <3>1 DEF ReadyIn
  <2>2. CASE i # Len(q) + 1
    <3>1. i \in 1..Len(q) /\ r[i] = q[i] /\ \A j \in 1..i - 1 : j \in 1..Len(q)
      BY <1>1, <2>2
    <3>2. Early(q[i], w)
      BY <1>2, <3>1
    <3> QED
      BY <1>1, <3>1, <3>2 DEF Safe
  <2> QED
    BY <2>1, <2>2
<1> QED
  BY <1>2 DEF Safe, r

LEMMA SafeTail ==
  ASSUME NEW S, NEW q \in Seq(S), q # <<>>, NEW on, NEW w, Safe(on, q, w)
  PROVE  /\ Safe(on, Tail(q), w)
         /\ Head(q).svc = "MD_ENCRYPT_READY" => \A to : Safe(to, Tail(q), w)
         /\ Early(Head(q), w) => ~on
<1> DEFINE t == Tail(q)
           h == Head(q)
<1>1. /\ Len(q) \in Nat \ {0} /\ Len(t) = Len(q) - 1 /\ h = q[1]
      /\ \A i \in 1..Len(q) - 1 : t[i] = q[i + 1]
  BY TailBasics
<1> HIDE DEF t, h
<1>2. ASSUME NEW i \in 1..Len(t), Early(t[i], w)
      PROVE  /\ ~on /\ h.svc # "MD_ENCRYPT_READY"
             /\ \A j \in 1..i - 1 : t[j].svc # "MD_ENCRYPT_READY"
  <2>1. i + 1 \in 1..Len(q) /\ t[i] = q[i + 1] /\ i + 1 - 1 = i /\ 1 \in 1..i
    BY <1>1
  <2>2. Early(q[i + 1], w)
    BY <1>2, <2>1
  <2>3. ~on /\ \A j \in 1..i : q[j].svc # "MD_ENCRYPT_READY"
    BY <2>1, <2>2 DEF Safe
  <2>4. ASSUME NEW j \in 1..i - 1 PROVE t[j].svc # "MD_ENCRYPT_READY"
    <3>1. j + 1 \in 1..i /\ t[j] = q[j + 1]
      BY <1>1
    <3> QED
      BY <2>3, <3>1
  <2> QED
    BY <1>1, <2>1, <2>3, <2>4
<1>3. Safe(on, t, w)
  BY <1>2 DEF Safe
<1>4. h.svc = "MD_ENCRYPT_READY" => \A to : Safe(to, t, w)
  BY <1>2 DEF Safe
<1>5. Early(h, w) => ~on
  BY <1>1 DEF Safe
<1> QED
  BY <1>3, <1>4, <1>5 DEF t, h

LEMMA SafeGrows ==
  ASSUME NEW q, NEW on, NEW w, NEW v, w \subseteq v, Safe(on, q, w)
  PROVE  Safe(on, q, v)
<1>1. ASSUME NEW m, Early(m, v) PROVE Early(m, w)
  BY <1>1 DEF Early
<1> QED
  BY <1>1 DEF Safe

LEMMA CutBasics ==
  ASSUME NEW S, NEW q \in Seq(S), NEW n \in 0..Len(q)
  PROVE  /\ SubSeq(q, 1, n) \in Seq(S) /\ Len(SubSeq(q, 1, n)) = n
         /\ \A i \in 1..n : SubSeq(q, 1, n)[i] = q[i]
<1>0. Len(q) \in Nat
  BY LenProperties
<1>1. CASE n = 0
  <2>1. SubSeq(q, 1, n) = <<>>
    BY <1>1
  <2> QED
    BY <1>1, <2>1, EmptySeq
<1>2. CASE n # 0
  <2>1. 1 \in 1..Len(q) /\ n \in 1..Len(q)
    BY <1>0, <1>2
  <2>2. /\ SubSeq(q, 1, n) \in Seq(S) /\ Len(SubSeq(q, 1, n)) = IF 1 <= n THEN n - 1 + 1 ELSE 0
        /\ \A i \in 1..n - 1 + 1 : SubSeq(q, 1, n)[i] = q[1 + i - 1]
    BY <2>1, SubSeqProperties
  <2> QED
    BY <1>2, <2>2
<1> QED
  BY <1>1, <1>2

LEMMA CutSafe ==
  ASSUME NEW S, NEW q \in Seq(S), NEW n \in 0..Len(q)
  PROVE  /\ ReadyIn(SubSeq(q, 1, n)) => ReadyIn(q)
         /\ \A on, w : Safe(on, q, w) => Safe(on, SubSeq(q, 1, n), w)
<1> DEFINE r == SubSeq(q, 1, n)
<1>1. Len(r) = n /\ Len(q) \in Nat /\ n <= Len(q) /\ n \in Nat /\ \A i \in 1..n : r[i] = q[i]
  BY CutBasics, LenProperties
<1> HIDE DEF r
<1>2. ReadyIn(r) => ReadyIn(q)
  BY <1>1 DEF ReadyIn
<1>3. ASSUME NEW on, NEW w, Safe(on, q, w) PROVE Safe(on, r, w)
  <2>1. SUFFICES ASSUME NEW i \in 1..Len(r), Early(r[i], w)
                 PROVE  ~on /\ \A j \in 1..i - 1 : r[j].svc # "MD_ENCRYPT_READY"
    BY DEF Safe
  <2>2. i \in 1..Len(q) /\ Early(q[i], w) /\ \A j \in 1..i - 1 : j \in 1..n
    BY <1>1, <2>1
  <2> QED
    BY <1>1, <1>3, <2>2 DEF Safe
<1> QED
  BY <1>2, <1>3 DEF r

\* InStep, as messages come and go.
LEMMA InStepAppend ==
  ASSUME NEW S, NEW q \in Seq(S), NEW m \in S, NEW on, InStep(on, q),
         m.arg # "none" => (m.enc <=> on \/ DoneIn(q) \/ m.svc = "MD_ENCRYPT_READY_DONE")
  PROVE  InStep(on, Append(q, m))
<1> DEFINE r == Append(q, m)
<1>1. /\ Len(q) \in Nat /\ Len(r) = Len(q) + 1 /\ \A i \in 1..Len(q) : r[i] = q[i]
      /\ r[Len(q) + 1] = m
  BY SeqBasics
<1> HIDE DEF r
<1>2. ASSUME NEW i \in 1..Len(r), r[i].arg # "none"
      PROVE  r[i].enc <=> on \/ \E j \in 1..i : r[j].svc = "MD_ENCRYPT_READY_DONE"
  <2>1. CASE i = Len(q) + 1
    <3>1. (\E j \in 1..i : r[j].svc = "MD_ENCRYPT_READY_DONE")
            <=> DoneIn(q) \/ m.svc = "MD_ENCRYPT_READY_DONE"
      BY <1>1, <2>1 DEF DoneIn
    <3> QED
      BY <1>1, <1>2, <2>1, <3>1
  <2>2. CASE i # Len(q) + 1
    <3>1. i \in 1..Len(q) /\ r[i] = q[i] /\ \A j \in 1..i : r[j] = q[j]
      BY <1>1, <2>2
    <3> QED
      BY <1>2, <3>1 DEF InStep
  <2> QED
    BY <2>1, <2>2
<1> QED
  BY <1>2 DEF InStep, r

LEMMA InStepTail ==
  ASSUME NEW S, NEW q \in Seq(S), q # <<>>, NEW on, InStep(on, q)
  PROVE  InStep(on \/ Head(q).svc = "MD_ENCRYPT_READY_DONE", Tail(q))
<1> DEFINE t == Tail(q)
           h == Head(q)
<1>1. /\ Len(q) \in Nat \ {0} /\ Len(t) = Len(q) - 1 /\ h = q[1]
      /\ \A i \in 1..Len(q) - 1 : t[i] = q[i + 1]
  BY TailBasics
<1> HIDE DEF t, h
<1>2. ASSUME NEW i \in 1..Len(t), t[i].arg # "none"
      PROVE  t[i].enc <=> (on \/ h.svc = "MD_ENCRYPT_READY_DONE")
                          \/ \E j \in 1..i : t[j].svc = "MD_ENCRYPT_READY_DONE"
  <2>1. i + 1 \in 1..Len(q) /\ t[i] = q[i + 1] /\ i \in Nat
    BY <1>1
  <2>2. q[i + 1].enc <=> on \/ \E j \in 1..i + 1 : q[j].svc = "MD_ENCRYPT_READY_DONE"
    BY <1>2, <2>1 DEF InStep
  <2>3. (\E j \in 1..i + 1 : q[j].svc = "MD_ENCRYPT_READY_DONE")
          <=> h.svc = "MD_ENCRYPT_READY_DONE" \/ \E j \in 1..i : t[j].svc = "MD_ENCRYPT_READY_DONE"
    <3>1. ASSUME NEW j \in 1..i + 1, q[j].svc = "MD_ENCRYPT_READY_DONE"
          PROVE  h.svc = "MD_ENCRYPT_READY_DONE" \/ \E k \in 1..i : t[k].svc = "MD_ENCRYPT_READY_DONE"
      <4>1. CASE j = 1
        BY <1>1, <3>1, <4>1
      <4>2. CASE j # 1
        <5>1. j - 1 \in 1..i /\ j - 1 \in 1..Len(q) - 1 /\ j - 1 + 1 = j
          BY <1>1, <2>1, <4>2
        <5>2. t[j - 1] = q[j]
          BY <1>1, <5>1
        <5> QED
          BY <3>1, <5>1, <5>2
      <4> QED
        BY <4>1, <4>2
    <3>2. ASSUME NEW j \in 1..i, t[j].svc = "MD_ENCRYPT_READY_DONE"
          PROVE  \E k \in 1..i + 1 : q[k].svc = "MD_ENCRYPT_READY_DONE"
      <4>1. j + 1 \in 1..i + 1 /\ t[j] = q[j + 1]
        BY <1>1, <2>1
      <4> QED
        BY <3>2, <4>1
    <3>3. 1 \in 1..i + 1
      BY <2>1
    <3> QED
      BY <1>1, <3>1, <3>2, <3>3
  <2> QED
    BY <2>1, <2>2, <2>3
<1>3. InStep(on \/ h.svc = "MD_ENCRYPT_READY_DONE", t)
  BY <1>2 DEF InStep
<1> QED
  BY <1>3 DEF t, h

\* Messages that are all encrypted, or all in plain.
LEMMA InStepConcat ==
  ASSUME NEW S, NEW q \in Seq(S), NEW t \in Seq(S), NEW on, InStep(on, q),
         \A k \in 1..Len(t) : /\ t[k].svc # "MD_ENCRYPT_READY_DONE"
                              /\ t[k].arg # "none" => (t[k].enc <=> on \/ DoneIn(q))
  PROVE  InStep(on, q \o t) /\ (DoneIn(q \o t) <=> DoneIn(q))
<1> DEFINE r == q \o t
           n == Len(q)
<1>1. /\ n \in Nat /\ Len(t) \in Nat /\ Len(r) = n + Len(t)
      /\ \A i \in 1..n : r[i] = q[i]
      /\ \A i \in n + 1..n + Len(t) : r[i] = t[i - n] /\ i - n \in 1..Len(t)
  <2>1. n \in Nat /\ Len(t) \in Nat
    BY LenProperties
  <2>2. /\ r \in Seq(S) /\ Len(r) = n + Len(t)
        /\ \A i \in 1..n + Len(t) : r[i] = IF i <= n THEN q[i] ELSE t[i - n]
    BY ConcatProperties
  <2> QED
    BY <2>1, <2>2
<1> HIDE DEF r, n
<1>2. DoneIn(q) <=> \E j \in 1..n : q[j].svc = "MD_ENCRYPT_READY_DONE"
  BY DEF DoneIn, n
<1>3. \A i \in n + 1..n + Len(t) : r[i].svc # "MD_ENCRYPT_READY_DONE"
  BY <1>1
<1>4. \A i \in 1..Len(r) : i \in 1..n \/ i \in n + 1..n + Len(t)
  BY <1>1
<1>5. DoneIn(r) <=> DoneIn(q)
  <2>1. ASSUME NEW j \in 1..Len(r), r[j].svc = "MD_ENCRYPT_READY_DONE" PROVE DoneIn(q)
    BY <1>1, <1>2, <1>3, <1>4, <2>1
  <2>2. ASSUME NEW j \in 1..n, q[j].svc = "MD_ENCRYPT_READY_DONE" PROVE DoneIn(r)
    BY <1>1, <2>2, SMTT(30) DEF DoneIn
  <2> QED
    BY <1>2, <2>1, <2>2 DEF DoneIn
<1>6. ASSUME NEW i \in 1..Len(r), r[i].arg # "none"
      PROVE  r[i].enc <=> on \/ \E j \in 1..i : r[j].svc = "MD_ENCRYPT_READY_DONE"
  <2>1. CASE i \in 1..n
    <3>1. r[i] = q[i] /\ \A j \in 1..i : r[j] = q[j]
      BY <1>1, <2>1
    <3> QED
      BY <1>6, <2>1, <3>1 DEF InStep, n
  <2>2. CASE i \in n + 1..n + Len(t)
    <3>1. r[i].enc <=> on \/ DoneIn(q)
      BY <1>1, <1>6, <2>2
    <3>2. (\E j \in 1..i : r[j].svc = "MD_ENCRYPT_READY_DONE") <=> DoneIn(q)
      <4>1. ASSUME NEW j \in 1..i, r[j].svc = "MD_ENCRYPT_READY_DONE" PROVE DoneIn(q)
        <5>1. j \in 1..Len(r)
          BY <1>1, <1>6
        <5> QED
          BY <4>1, <5>1, <1>5 DEF DoneIn
      <4>2. ASSUME NEW j \in 1..n, q[j].svc = "MD_ENCRYPT_READY_DONE"
            PROVE  \E k \in 1..i : r[k].svc = "MD_ENCRYPT_READY_DONE"
        <5>1. j \in 1..i /\ r[j] = q[j]
          BY <1>1, <2>2
        <5> QED
          BY <4>2, <5>1
      <4> QED
        BY <1>2, <4>1, <4>2
    <3> QED
      BY <3>1, <3>2
  <2> QED
    BY <1>4, <2>1, <2>2
<1>7. InStep(on, r)
  BY <1>6 DEF InStep
<1> QED
  BY <1>5, <1>7 DEF r

-----------------------------------------------------------------------------
\* The cipher: the invariant

NoEarly(q, w) == \A i \in 1..Len(q) : ~Early(q[i], w)

\* What the car decrypts.  The phone sends in plain what the car has excluded, and
\* on the other channels all that it sends in plain is known to come that way.
Windowed ==
  /\ s.excludes \subseteq ph.window
  /\ \A c \in Channel \ {"CMD"} : NoEarly(Flight[c], ph.window)
\* No cipher without a key.
Keyed ==
  /\ s.enabled => s.key
  /\ ReadyIn(Flight["CMD"]) => s.key
Begun == ~ph.ready => ~s.enabled /\ ~ReadyIn(Flight["CMD"])
Decrypts == Safe(s.enabled, Flight["CMD"], ph.window)
Inbound == Windowed /\ Keyed /\ Begun /\ Decrypts

\* What the car encrypts.
Encrypts ==
  /\ ph.encrypts \/ DoneIn(out["CMD"]) => s.enabled
  /\ s.enabled /\ CanSend("CMD") => ph.encrypts \/ DoneIn(out["CMD"])
  /\ InStep(ph.encrypts, out["CMD"])
Ciphered == Inbound /\ Encrypts

\* NoEarly, as messages come and go.
LEMMA NoEarlyAppend ==
  ASSUME NEW S, NEW q \in Seq(S), NEW m \in S, NEW w, NoEarly(q, w), ~Early(m, w)
  PROVE  NoEarly(Append(q, m), w)
<1> DEFINE r == Append(q, m)
<1>1. /\ Len(q) \in Nat /\ Len(r) = Len(q) + 1 /\ \A i \in 1..Len(q) : r[i] = q[i]
      /\ r[Len(q) + 1] = m
  BY SeqBasics
<1> HIDE DEF r
<1>2. NoEarly(r, w)
  BY <1>1 DEF NoEarly
<1> QED
  BY <1>2 DEF r

LEMMA NoEarlyTail ==
  ASSUME NEW S, NEW q \in Seq(S), q # <<>>, NEW w, NoEarly(q, w)
  PROVE  NoEarly(Tail(q), w) /\ ~Early(Head(q), w)
<1> DEFINE t == Tail(q)
           h == Head(q)
<1>1. /\ Len(q) \in Nat \ {0} /\ Len(t) = Len(q) - 1 /\ h = q[1]
      /\ \A i \in 1..Len(q) - 1 : t[i] = q[i + 1]
  BY TailBasics
<1> HIDE DEF t, h
<1>2. NoEarly(t, w) /\ ~Early(h, w)
  BY <1>1 DEF NoEarly
<1> QED
  BY <1>2 DEF t, h

LEMMA NoEarlyCut ==
  ASSUME NEW S, NEW q \in Seq(S), NEW n \in 0..Len(q), NEW w, NoEarly(q, w)
  PROVE  NoEarly(SubSeq(q, 1, n), w)
<1> DEFINE r == SubSeq(q, 1, n)
<1>1. Len(r) = n /\ Len(q) \in Nat /\ n <= Len(q) /\ n \in Nat /\ \A i \in 1..n : r[i] = q[i]
  BY CutBasics, LenProperties
<1> HIDE DEF r
<1>2. NoEarly(r, w)
  BY <1>1 DEF NoEarly
<1> QED
  BY <1>2 DEF r

LEMMA NoEarlyGrows ==
  ASSUME NEW q, NEW w, NEW v, w \subseteq v, NoEarly(q, w)
  PROVE  NoEarly(q, v)
  BY DEF NoEarly, Early

LEMMA InboundSame ==
  ASSUME Inbound, Flight' = Flight, s'.excludes = s.excludes, s'.key = s.key, s'.enabled = s.enabled,
         ph'.window = ph.window, ph'.ready = ph.ready
  PROVE  Inbound'
<1>1. Windowed'
  BY DEF Inbound, Windowed
<1>2. Keyed' /\ Begun'
  BY DEF Inbound, Keyed, Begun
<1>3. Decrypts'
  BY DEF Inbound, Decrypts
<1> QED
  BY <1>1, <1>2, <1>3 DEF Inbound

LEMMA InboundCut ==
  ASSUME Shape, Inbound, UNCHANGED <<s, ph>>, NEW c \in Channel, NEW n \in 0..Len(Flight[c]),
         Flight' = [Flight EXCEPT ![c] = SubSeq(@, 1, n)]
  PROVE  Inbound'
<1> DEFINE F == Flight["CMD"]
           G == Flight'["CMD"]
<1>1. /\ DOMAIN Flight = Channel /\ \A d \in Channel : Flight[d] \in Seq(On(d))
      /\ "CMD" \in Channel
  BY FlightType, TransportAssumption
<1>2. (ReadyIn(G) => ReadyIn(F)) /\ \A on, w : Safe(on, F, w) => Safe(on, G, w)
  <2>1. CASE c = "CMD"
    BY <1>1, <2>1, CutSafe
  <2>2. CASE c # "CMD"
    <3>1. G = F
      BY <1>1, <2>2
    <3> QED
      BY <3>1
  <2> QED
    BY <2>1, <2>2
<1>3. \A d \in Channel \ {"CMD"} : NoEarly(Flight'[d], ph.window)
  <2> SUFFICES ASSUME NEW d \in Channel \ {"CMD"} PROVE NoEarly(Flight'[d], ph.window)
    OBVIOUS
  <2>1. NoEarly(Flight[d], ph.window)
    BY DEF Inbound, Windowed
  <2>2. CASE d = c
    BY <1>1, <2>1, <2>2, NoEarlyCut
  <2>3. CASE d # c
    <3>1. Flight'[d] = Flight[d]
      BY <1>1, <2>3
    <3> QED
      BY <2>1, <3>1
  <2> QED
    BY <2>2, <2>3
<1>4. Windowed'
  BY <1>3 DEF Inbound, Windowed
<1>5. Keyed' /\ Begun'
  BY <1>2 DEF Inbound, Keyed, Begun
<1>6. Decrypts'
  BY <1>2 DEF Inbound, Decrypts
<1> QED
  BY <1>4, <1>5, <1>6 DEF Inbound

\* The phone says something.
LEMMA InboundSpoken ==
  ASSUME Shape, Inbound, UNCHANGED <<s, queue>>, NEW p, NEW m, HasSpoken(p, m),
         p.ready = ph.ready, p.window = ph.window, p.encrypts \in BOOLEAN,
         m.svc = "MD_ENCRYPT_READY" => s.key
  PROVE  Inbound'
<1>1. PICK n : Spoke(p, m, n)
  BY DEF HasSpoken
<1> DEFINE k == m.ch
           F == Flight["CMD"]
           v == ph'.window
<1>2. k \in Channel /\ Flight' = [Flight EXCEPT ![k] = Append(@, n)]
  BY <1>1, FlightSpoken
<1>3. /\ DOMAIN Flight = Channel /\ \A d \in Channel : Flight[d] \in Seq(On(d))
      /\ "CMD" \in Channel
  BY FlightType, TransportAssumption
<1>4. /\ n \in On(k) /\ n.svc = m.svc /\ n.arg = m.arg /\ n.enc = (p.encrypts /\ m.arg # "none")
      /\ ph'.ready = (ph.ready \/ m.svc = "MD_ENCRYPT_READY")
      /\ v = IF ~p.encrypts /\ (ph.ready \/ k # "CMD") /\ m.arg # "none"
             THEN ph.window \cup {m.svc} ELSE ph.window
  BY <1>1 DEF Spoke
<1> HIDE DEF k, v
<1>5. ph.window \subseteq v /\ ph.ready \in BOOLEAN
  BY <1>4 DEF Shape, PhoneShape
<1>6. Early(n, v) => k = "CMD" /\ ~ph.ready
  BY <1>4 DEF Early
<1>7. \A d \in Channel \ {"CMD"} : NoEarly(Flight'[d], v)
  <2> SUFFICES ASSUME NEW d \in Channel \ {"CMD"} PROVE NoEarly(Flight'[d], v)
    OBVIOUS
  <2>1. NoEarly(Flight[d], v)
    BY <1>5, NoEarlyGrows DEF Inbound, Windowed
  <2>2. CASE d = k
    <3>1. ~Early(n, v) /\ Flight'[d] = Append(Flight[d], n) /\ n \in On(d)
      BY <1>2, <1>3, <1>4, <1>6, <2>2
    <3>2. NoEarly(Append(Flight[d], n), v)
      BY <1>3, <2>1, <3>1, NoEarlyAppend
    <3> QED
      BY <3>1, <3>2
  <2>3. CASE d # k
    <3>1. Flight'[d] = Flight[d]
      BY <1>2, <1>3, <2>3
    <3> QED
      BY <2>1, <3>1
  <2> QED
    BY <2>2, <2>3
<1>8. Windowed'
  BY <1>5, <1>7 DEF Inbound, Windowed, v
<1>9. Safe(s.enabled, F, v)
  BY <1>5, SafeGrows DEF Inbound, Decrypts
<1>10. /\ ReadyIn(Flight'["CMD"]) => ReadyIn(F) \/ m.svc = "MD_ENCRYPT_READY"
       /\ Safe(s.enabled, Flight'["CMD"], v)
  <2>1. CASE k = "CMD"
    <3>1. Flight'["CMD"] = Append(F, n) /\ n \in On("CMD") /\ F \in Seq(On("CMD"))
      BY <1>2, <1>3, <1>4, <2>1
    <3>2. Early(n, v) => ~s.enabled /\ ~ReadyIn(F)
      BY <1>6 DEF Inbound, Begun
    <3> HIDE DEF F
    <3>3. Safe(s.enabled, Append(F, n), v)
      BY <1>9, <3>1, <3>2, SafeAppend
    <3>4. ReadyIn(Append(F, n)) <=> ReadyIn(F) \/ n.svc = "MD_ENCRYPT_READY"
      BY <3>1, ReadyAppend
    <3> QED
      BY <1>4, <3>1, <3>3, <3>4
  <2>2. CASE k # "CMD"
    <3>1. Flight'["CMD"] = F
      BY <1>2, <1>3, <2>2
    <3> QED
      BY <1>9, <3>1
  <2> QED
    BY <2>1, <2>2
<1>11. Keyed' /\ Begun'
  BY <1>4, <1>5, <1>10 DEF Inbound, Keyed, Begun
<1>12. Decrypts'
  BY <1>10 DEF Decrypts, v
<1> QED
  BY <1>8, <1>11, <1>12 DEF Inbound

\* A round of the loop.
LEMMA InboundTaken ==
  ASSUME Shape, Inbound, Taking
  PROVE  Inbound' /\ (Head(queue).ch = "CMD" /\ Head(queue).svc = "MD_ENCRYPT_READY" => s.key)
<1> DEFINE f == Head(queue)
           k == f.ch
           F == Flight["CMD"]
<1>1. /\ f \in Wire /\ Flight[k] # <<>> /\ Head(Flight[k]) = f
      /\ Flight' = [Flight EXCEPT ![k] = Tail(@)]
  BY FlightTaken
<1>2. PICK x, g :
        /\ Round(s, f, g, x) /\ s'.key = x.key /\ s'.enabled = x.enabled /\ s'.excludes = x.excludes
  BY DEF Taking
<1>3. ph'.window = ph.window /\ ph'.ready = ph.ready
  BY DEF Taking, PhoneSame
<1>4. k \in Channel /\ "CMD" \in Channel
  BY <1>1, TransportAssumption DEF Wire
<1>5. DOMAIN Flight = Channel /\ \A d \in Channel : Flight[d] \in Seq(On(d))
  BY FlightType
<1>6. /\ s.key \in BOOLEAN /\ s.enabled \in BOOLEAN /\ x.key \in BOOLEAN /\ x.enabled \in BOOLEAN
      /\ ph.ready \in BOOLEAN
  BY <1>2 DEF Shape, Cased, Round, PhoneShape
<1> HIDE DEF f
<1>7. /\ Early(f, ph.window) => ~s.enabled
      /\ k = "CMD" /\ f.svc = "MD_ENCRYPT_READY" => ReadyIn(F)
  <2>1. CASE k = "CMD"
    <3>1. F \in Seq(On("CMD")) /\ F # <<>> /\ Head(F) = f /\ Safe(s.enabled, F, ph.window)
      BY <1>1, <1>5, <1>4, <2>1 DEF Inbound, Decrypts
    <3> HIDE DEF F
    <3> QED
      BY <3>1, SafeTail, ReadyTail
  <2>2. CASE k # "CMD"
    <3>1. NoEarly(Flight[k], ph.window) /\ Flight[k] \in Seq(On(k))
      BY <1>4, <1>5, <2>2 DEF Inbound, Windowed
    <3> HIDE DEF k
    <3>2. ~Early(Head(Flight[k]), ph.window)
      BY <1>1, <3>1, NoEarlyTail
    <3> QED
      BY <1>1, <2>2, <3>2
  <2> QED
    BY <2>1, <2>2
<1>8. k = "CMD" /\ f.svc = "MD_ENCRYPT_READY" => s.key /\ ph.ready
  BY <1>6, <1>7 DEF Inbound, Keyed, Begun
<1>9. x.excludes \subseteq ph.window
  <2>1. s.excludes \subseteq ph.window
    BY DEF Inbound, Windowed
  <2>2. \/ x.excludes \subseteq s.excludes
        \/ s.enabled /\ ~f.enc /\ f.arg # "none" /\ x.excludes \subseteq s.excludes \cup {f.svc}
    BY <1>2 DEF Round
  <2>3. s.enabled /\ ~f.enc /\ f.arg # "none" => f.svc \in ph.window
    BY <1>7 DEF Early
  <2> QED
    BY <2>1, <2>2, <2>3
<1>10. \A d \in Channel \ {"CMD"} : NoEarly(Flight'[d], ph.window)
  <2> SUFFICES ASSUME NEW d \in Channel \ {"CMD"} PROVE NoEarly(Flight'[d], ph.window)
    OBVIOUS
  <2>1. NoEarly(Flight[d], ph.window) /\ Flight[d] \in Seq(On(d))
    BY <1>5 DEF Inbound, Windowed
  <2>2. CASE d = k
    <3>1. Flight[d] # <<>> /\ Flight'[d] = Tail(Flight[d])
      BY <1>1, <1>5, <2>2
    <3>2. NoEarly(Tail(Flight[d]), ph.window)
      BY <2>1, <3>1, NoEarlyTail
    <3> QED
      BY <3>1, <3>2
  <2>3. CASE d # k
    <3>1. Flight'[d] = Flight[d]
      BY <1>1, <1>5, <2>3
    <3> QED
      BY <2>1, <3>1
  <2> QED
    BY <2>2, <2>3
<1>11. Windowed'
  BY <1>2, <1>3, <1>9, <1>10 DEF Windowed
<1>12. \/ x.enabled = s.enabled /\ (s.key => x.key)
          /\ ~(k = "CMD" /\ f.svc = "MD_ENCRYPT_READY")
       \/ x.enabled = (s.enabled \/ s.key) /\ x.key = s.key /\ k = "CMD" /\ f.svc = "MD_ENCRYPT_READY"
       \/ s.enabled /\ ~x.enabled /\ (s.key => x.key) /\ k = "CMD" /\ f.svc # "MD_ENCRYPT_READY"
  <2>1. CASE RoundKept(s, f, x)
    BY <2>1 DEF RoundKept
  <2>2. CASE RoundTurned(s, f, x)
    BY <2>2 DEF RoundTurned
  <2>3. CASE RoundDropped(s, f, x)
    BY <2>3 DEF RoundDropped, KeyRequests
  <2> QED
    BY <1>2, <2>1, <2>2, <2>3 DEF Round
<1>13. /\ ReadyIn(Flight'["CMD"]) => ReadyIn(F)
       /\ Safe(x.enabled, Flight'["CMD"], ph.window)
  <2>1. CASE k = "CMD"
    <3>1. F \in Seq(On("CMD")) /\ F # <<>> /\ Head(F) = f /\ Safe(s.enabled, F, ph.window)
          /\ Flight'["CMD"] = Tail(F)
      BY <1>1, <1>5, <1>4, <2>1 DEF Inbound, Decrypts
    <3> HIDE DEF F
    <3>2. /\ ReadyIn(Tail(F)) => ReadyIn(F)
          /\ Safe(s.enabled, Tail(F), ph.window)
          /\ f.svc = "MD_ENCRYPT_READY" => \A to : Safe(to, Tail(F), ph.window)
      BY <3>1, ReadyTail, SafeTail
    <3>3. Safe(FALSE, Tail(F), ph.window)
      BY <3>2 DEF Safe
    <3>4. Safe(x.enabled, Tail(F), ph.window)
      <4>1. CASE f.svc = "MD_ENCRYPT_READY"
        BY <3>2, <4>1
      <4>2. CASE x.enabled = s.enabled
        BY <3>2, <4>2
      <4>3. CASE ~x.enabled
        <5>1. x.enabled = FALSE
          BY <1>6, <4>3
        <5> QED
          BY <3>3, <5>1
      <4> QED
        BY <1>12, <4>1, <4>2, <4>3
    <3> QED
      BY <3>1, <3>2, <3>4
  <2>2. CASE k # "CMD"
    <3>1. Flight'["CMD"] = F /\ x.enabled = s.enabled /\ Safe(s.enabled, F, ph.window)
      BY <1>1, <1>4, <1>5, <1>12, <2>2 DEF Inbound, Decrypts
    <3> QED
      BY <3>1
  <2> QED
    BY <2>1, <2>2
<1>14. (s.enabled => s.key) /\ (ReadyIn(F) => s.key) /\ (~ph.ready => ~s.enabled /\ ~ReadyIn(F))
  BY DEF Inbound, Keyed, Begun
<1> HIDE DEF F, k
<1>15. Keyed' /\ Begun'
  <2>1. /\ x.enabled => x.key
        /\ ReadyIn(Flight'["CMD"]) => x.key
        /\ ~ph.ready => ~x.enabled /\ ~ReadyIn(Flight'["CMD"])
    BY <1>6, <1>8, <1>12, <1>13, <1>14 DEF k
  <2> QED
    BY <1>2, <1>3, <2>1 DEF Keyed, Begun
<1>16. Decrypts'
  BY <1>2, <1>3, <1>13 DEF Decrypts
<1> QED
  BY <1>8, <1>11, <1>15, <1>16 DEF Inbound, f, k

LEMMA OfOne ==
  ASSUME NEW m, NEW c, m.ch = c PROVE Of(<<m>>, c) = <<m>>
<1> DEFINE T == {x \in Range(<<m>>) : x.ch = c}
<1>1. m \in T
  <2>1. m = <<m>>[1] /\ 1 \in DOMAIN <<m>>
    OBVIOUS
  <2> QED
    BY <2>1 DEF Range
<1>2. Of(<<m>>, c) = Where(<<m>>, T)
  BY DEF Of
<1> HIDE DEF T
<1>3. Where(<<m>>, T) = IF m \in T THEN <<m>> ELSE <<>>
  BY WhereOne
<1> QED
  BY <1>1, <1>2, <1>3

LEMMA OutTyped ==
  ASSUME Shape
  PROVE  /\ "CMD" \in Channel /\ DOMAIN out = Channel
         /\ out["CMD"] \in Seq(Outbound(s.key, s.keypair))
         /\ s.key \in BOOLEAN /\ s.enabled \in BOOLEAN /\ s.keypair \in BOOLEAN
         /\ ph.encrypts \in BOOLEAN
  BY TransportAssumption DEF Shape, WireShape, Cased, PhoneShape

\* Nothing for the command channel.
LEMMA EncryptsSame ==
  ASSUME Encrypts, s'.enabled = s.enabled, ph'.encrypts = ph.encrypts, out'["CMD"] = out["CMD"],
         CanSend("CMD")' => CanSend("CMD")
  PROVE  Encrypts'
<1>1. DoneIn(out'["CMD"]) <=> DoneIn(out["CMD"])
  OBVIOUS
<1>2. InStep(ph'.encrypts, out'["CMD"])
  BY DEF Encrypts
<1> QED
  BY <1>1, <1>2 DEF Encrypts

\* Messages under a cipher that stays as it is.
LEMMA EncryptsPosted ==
  ASSUME Shape, Encrypts, NEW key \in BOOLEAN, s.key => key,
         NEW tx \in Seq(Posted(s.enabled, key, s.keypair)),
         out' = [c \in Channel |-> IF CanSend(c) THEN out[c] \o Of(tx, c) ELSE out[c]],
         s'.enabled = s.enabled, ph'.encrypts = ph.encrypts, LinkSame
  PROVE  Encrypts'
<1> DEFINE S == Outbound(key, s.keypair)
           P == Posted(s.enabled, key, s.keypair)
           q == out["CMD"]
           t == Of(tx, "CMD")
<1>1. CanSend("CMD")' <=> CanSend("CMD")
  BY DEF LinkSame, CanSend, Alive
<1>2. CASE ~CanSend("CMD")
  <2>1. out'["CMD"] = q
    BY <1>2, OutTyped
  <2> QED
    BY <1>1, <2>1, EncryptsSame
<1>3. CASE CanSend("CMD")
  <2>1. out'["CMD"] = q \o t
    BY <1>3, OutTyped
  <2>2. t \in Seq(P)
    BY OfFacts
  <2>3. P \subseteq S
    BY OutTyped, PostedOut
  <2>4. q \in Seq(S)
    <3>1. Outbound(s.key, s.keypair) \subseteq S
      BY OutTyped, OutboundGrows
    <3> QED
      BY <3>1, OutTyped, SeqMonotonic
  <2>5. s.enabled <=> ph.encrypts \/ DoneIn(q)
    BY <1>3, OutTyped DEF Encrypts
  <2>6. \A k \in 1..Len(t) : /\ t[k].svc # "MD_ENCRYPT_READY_DONE"
                             /\ t[k].arg # "none" => (t[k].enc <=> ph.encrypts \/ DoneIn(q))
    <3>1. SUFFICES ASSUME NEW k \in 1..Len(t)
                   PROVE  /\ t[k].svc # "MD_ENCRYPT_READY_DONE"
                          /\ t[k].arg # "none" => (t[k].enc <=> ph.encrypts \/ DoneIn(q))
      OBVIOUS
    <3>2. t[k] \in P
      BY <2>2, ElementOfSeq
    <3> HIDE DEF t, q
    <3>3. t[k].svc # "MD_ENCRYPT_READY_DONE" /\ (t[k].enc <=> s.enabled /\ t[k].arg # "none")
      BY <3>2 DEF Posted
    <3> QED
      BY <2>5, <3>3
  <2>7. InStep(ph.encrypts, q)
    BY DEF Encrypts
  <2>8. t \in Seq(S)
    BY <2>2, <2>3, SeqMonotonic
  <2> HIDE DEF S, P, q, t
  <2>9. InStep(ph.encrypts, q \o t) /\ (DoneIn(q \o t) <=> DoneIn(q))
    BY <2>4, <2>6, <2>7, <2>8, InStepConcat
  <2>10. InStep(ph'.encrypts, out'["CMD"]) /\ (DoneIn(out'["CMD"]) <=> DoneIn(q))
    BY <2>1, <2>9
  <2> QED
    BY <1>1, <2>5, <2>10, OutTyped DEF Encrypts
<1> QED
  BY <1>2, <1>3

\* The round that enables the cipher.
LEMMA EncryptsTurned ==
  ASSUME Shape, Encrypts, s.key, NEW x, NEW f, RoundTurned(s, f, x),
         out' = [c \in Channel |-> IF CanSend(c) THEN out[c] \o Of(x.tx, c) ELSE out[c]],
         s'.enabled = x.enabled, ph'.encrypts = ph.encrypts, LinkSame
  PROVE  Encrypts'
<1> DEFINE S == Outbound(s.key, s.keypair)
           P == Posted(x.enabled, x.key, s.keypair)
           p == Post(s.enabled, "CMD", "MD_ENCRYPT_READY_DONE", "none")
           q == out["CMD"]
           t == Of(x.tx, "CMD")
<1>1. CanSend("CMD")' <=> CanSend("CMD")
  BY DEF LinkSame, CanSend, Alive
<1>2. /\ x.enabled = TRUE /\ x.key = s.key
      /\ x.tx = <<p>> \/ \E m \in P : x.tx = Append(<<p>>, m)
  BY OutTyped DEF RoundTurned
<1>3. p \in S /\ P \subseteq S /\ p.ch = "CMD" /\ p.svc = "MD_ENCRYPT_READY_DONE" /\ p.arg = "none"
  BY <1>2, OutTyped, PostedOut DEF Post
<1>4. \A m \in P : m.enc <=> m.arg # "none"
  BY <1>2 DEF Posted
<1>5. InStep(ph.encrypts, q) /\ q \in Seq(S)
  BY OutTyped DEF Encrypts
<1>6. CASE ~CanSend("CMD")
  <2>1. out'["CMD"] = q
    BY <1>6, OutTyped
  <2>2. InStep(ph'.encrypts, out'["CMD"])
    BY <1>5, <2>1
  <2> QED
    BY <1>1, <1>2, <1>6, <2>2 DEF Encrypts
<1>7. CASE CanSend("CMD")
  <2>1. out'["CMD"] = q \o t
    BY <1>7, OutTyped
  <2> DEFINE r == Append(q, p)
             one == <<p>>
  <2> HIDE DEF S, P, p
  <2>2. one \in Seq(S) /\ Of(one, "CMD") = one /\ r \in Seq(S)
    <3>1. Of(one, "CMD") = one
      BY <1>3, OfOne
    <3> QED
      BY <1>3, <1>5, <3>1, AppendProperties
  <2>3. InStep(ph.encrypts, r) /\ DoneIn(r)
    <3> HIDE DEF q
    <3>1. InStep(ph.encrypts, Append(q, p))
      BY <1>3, <1>5, InStepAppend
    <3>2. DoneIn(Append(q, p))
      BY <1>3, <1>5, DoneAppend
    <3> QED
      BY <3>1, <3>2
  <2>4. t = one \/ \E m \in P : t = Append(one, m)
    <3>1. CASE x.tx = one
      BY <2>2, <3>1
    <3>2. ASSUME NEW m \in P, x.tx = Append(one, m) PROVE t = one \/ t = Append(one, m)
      <4> HIDE DEF one
      <4>1. Of(Append(one, m), "CMD") = IF m.ch = "CMD" THEN Append(Of(one, "CMD"), m) ELSE Of(one, "CMD")
        BY <1>3, <2>2, <3>2, OfAppend
      <4> QED
        BY <2>2, <3>2, <4>1
    <3> QED
      BY <1>2, <3>1, <3>2
  <2>5. q \o one = r
    BY <1>3, <1>5, AppendIsConcat
  <2> HIDE DEF q, t, one, r
  <2>6. out'["CMD"] = r \/ \E m \in P : out'["CMD"] = Append(r, m)
    <3>1. CASE t = one
      BY <2>1, <2>5, <3>1
    <3>2. ASSUME NEW m \in P, t = Append(one, m) PROVE out'["CMD"] = Append(r, m)
      <4>1. q \o Append(one, m) = Append(q \o one, m)
        BY <1>3, <1>5, <2>2, <3>2, ConcatAppend
      <4> QED
        BY <2>1, <2>5, <3>2, <4>1
    <3> QED
      BY <2>4, <3>1, <3>2
  <2>7. InStep(ph.encrypts, out'["CMD"]) /\ DoneIn(out'["CMD"])
    <3>1. CASE out'["CMD"] = r
      BY <2>3, <3>1
    <3>2. ASSUME NEW m \in P, out'["CMD"] = Append(r, m)
          PROVE  InStep(ph.encrypts, out'["CMD"]) /\ DoneIn(out'["CMD"])
      <4>1. m \in S /\ (m.enc <=> m.arg # "none")
        BY <1>3, <1>4, <3>2
      <4>2. InStep(ph.encrypts, Append(r, m)) /\ DoneIn(Append(r, m))
        BY <2>2, <2>3, <4>1, InStepAppend, DoneAppend
      <4> QED
        BY <3>2, <4>2
    <3> QED
      BY <2>6, <3>1, <3>2
  <2>8. InStep(ph'.encrypts, out'["CMD"])
    BY <2>7
  <2> QED
    BY <1>1, <1>2, <2>7, <2>8 DEF Encrypts
<1> QED
  BY <1>6, <1>7

\* A request of the phone that switches the cipher of the car off.
Rekeying == s.enabled /\ Head(queue).ch = "CMD" /\ Head(queue).svc \in KeyRequests

LEMMA EncryptsTaken ==
  ASSUME Shape, Ciphered, Taking, ~Rekeying PROVE Encrypts'
<1> DEFINE f == Head(queue)
<1>1. PICK x, g :
        /\ Round(s, f, g, x) /\ s'.enabled = x.enabled
        /\ out' = [c \in Channel |-> IF CanSend(c) THEN out[c] \o Of(x.tx, c) ELSE out[c]]
  BY DEF Taking
<1>2. ph'.encrypts = ph.encrypts /\ LinkSame
  BY DEF Taking, PhoneSame
<1>3. f.ch = "CMD" /\ f.svc = "MD_ENCRYPT_READY" => s.key
  BY InboundTaken DEF Ciphered
<1>6. ~RoundDropped(s, f, x)
  BY DEF Rekeying, RoundDropped
<1> HIDE DEF f
<1>4. CASE RoundKept(s, f, x)
  <2>1. /\ x.enabled = s.enabled /\ x.tx \in Seq(Posted(s.enabled, x.key, s.keypair))
        /\ (s.key => x.key) /\ x.key \in BOOLEAN
    BY <1>1, <1>4 DEF RoundKept, Round, Cased
  <2> QED
    BY <1>1, <1>2, <2>1, EncryptsPosted DEF Ciphered
<1>5. CASE RoundTurned(s, f, x)
  <2>1. s.key
    BY <1>3, <1>5 DEF RoundTurned
  <2> QED
    BY <1>1, <1>2, <1>5, <2>1, EncryptsTurned DEF Ciphered
<1> QED
  BY <1>1, <1>4, <1>5, <1>6 DEF Round

\* The phone reads a message.
LEMMA EncryptsRead ==
  ASSUME Shape, Encrypts, out["CMD"] # <<>>, out' = [out EXCEPT !["CMD"] = Tail(@)],
         UNCHANGED s, LinkSame,
         ph'.encrypts = (ph.encrypts \/ Head(out["CMD"]).svc = "MD_ENCRYPT_READY_DONE")
  PROVE  Encrypts'
<1> DEFINE q == out["CMD"]
           S == Outbound(s.key, s.keypair)
<1>1. q \in Seq(S) /\ q # <<>> /\ out'["CMD"] = Tail(q) /\ InStep(ph.encrypts, q)
  BY OutTyped DEF Encrypts
<1>2. CanSend("CMD")' <=> CanSend("CMD")
  BY DEF LinkSame, CanSend, Alive
<1>3. /\ ph.encrypts \/ DoneIn(q) => s.enabled
      /\ s.enabled /\ CanSend("CMD") => ph.encrypts \/ DoneIn(q)
      /\ ph'.encrypts = (ph.encrypts \/ Head(q).svc = "MD_ENCRYPT_READY_DONE")
  BY DEF Encrypts
<1> HIDE DEF q, S
<1>4. /\ DoneIn(q) <=> Head(q).svc = "MD_ENCRYPT_READY_DONE" \/ DoneIn(Tail(q))
      /\ InStep(ph.encrypts \/ Head(q).svc = "MD_ENCRYPT_READY_DONE", Tail(q))
  BY <1>1, DoneTail, InStepTail
<1>5. InStep(ph'.encrypts, out'["CMD"])
  BY <1>1, <1>3, <1>4
<1>6. /\ ph'.encrypts \/ DoneIn(out'["CMD"]) => s'.enabled
      /\ s'.enabled /\ CanSend("CMD")' => ph'.encrypts \/ DoneIn(out'["CMD"])
  BY <1>1, <1>2, <1>3, <1>4
<1> QED
  BY <1>5, <1>6 DEF Encrypts

\* A step that leaves messages and cipher alone.
LEMMA QuietInbound ==
  ASSUME Shape, Inbound,
         Idle \/ Posting \/ Beating \/ \E c \in Channel : Reading(c) \/ Ending(c)
  PROVE  Inbound'
<1>1. CASE Idle
  BY <1>1, FlightSame, InboundSame DEF Idle, Settled, Same, PhoneSame
<1>2. CASE Posting
  BY <1>2, FlightSame, InboundSame DEF Posting, Settled, Same, PhoneSame
<1>3. CASE Beating
  BY <1>3, FlightSame, InboundSame DEF Beating, Settled, Same, PhoneSame
<1>4. ASSUME NEW c \in Channel, Reading(c) PROVE Inbound'
  BY <1>4, FlightRead, InboundSame DEF Reading
<1>5. ASSUME NEW c \in Channel, Ending(c) PROVE Inbound'
  <2>1. UNCHANGED <<s, ph, out>>
    BY <1>5 DEF Ending
  <2> QED
    BY <1>5, <2>1, FlightEnds, InboundCut
<1> QED
  BY <1>1, <1>2, <1>3, <1>4, <1>5

LEMMA QuietEncrypts ==
  ASSUME Shape, Encrypts,
         Idle \/ Posting \/ Beating \/ \E c \in Channel : Reading(c) \/ Ending(c)
  PROVE  Encrypts'
<1>1. CASE Idle
  <2>1. CanSend("CMD")' => CanSend("CMD")
    BY <1>1 DEF Idle, CanSend, Alive
  <2>2. s'.enabled = s.enabled /\ ph'.encrypts = ph.encrypts /\ out'["CMD"] = out["CMD"]
    BY <1>1 DEF Idle, Settled, Same, PhoneSame
  <2> QED
    BY <2>1, <2>2, EncryptsSame
<1>2. CASE Posting
  <2>1. PICK tx \in Seq(Posted(s.enabled, s.key, s.keypair)) :
          out' = [c \in Channel |-> IF CanSend(c) THEN out[c] \o Of(tx, c) ELSE out[c]]
    BY <1>2 DEF Posting
  <2>2. s'.enabled = s.enabled /\ ph'.encrypts = ph.encrypts /\ LinkSame
    BY <1>2 DEF Posting, Settled, Same, PhoneSame
  <2> QED
    BY <2>1, <2>2, OutTyped, EncryptsPosted
<1>3. CASE Beating
  <2>1. /\ s'.enabled = s.enabled /\ ph'.encrypts = ph.encrypts /\ LinkSame
        /\ out'["CMD"] = out["CMD"]
    BY <1>3, OutTyped DEF Beating, Settled, Same, PhoneSame
  <2>2. CanSend("CMD")' => CanSend("CMD")
    BY <2>1 DEF LinkSame, CanSend, Alive
  <2> QED
    BY <2>1, <2>2, EncryptsSame
<1>4. ASSUME NEW c \in Channel, Reading(c) PROVE Encrypts'
  <2>1. CanSend("CMD")' => CanSend("CMD")
    BY <1>4 DEF Reading, LinkSame, CanSend, Alive
  <2>2. s'.enabled = s.enabled /\ ph'.encrypts = ph.encrypts /\ out'["CMD"] = out["CMD"]
    BY <1>4 DEF Reading
  <2> QED
    BY <2>1, <2>2, EncryptsSame
<1>5. ASSUME NEW c \in Channel, Ending(c) PROVE Encrypts'
  <2>1. UNCHANGED <<s, ph, out>>
    BY <1>5 DEF Ending
  <2>2. CanSend("CMD")' => CanSend("CMD")
    BY <1>5 DEF Ending, CanSend, Alive, Shape, LinkShape
  <2> QED
    BY <2>1, <2>2, EncryptsSame
<1> QED
  BY <1>1, <1>2, <1>3, <1>4, <1>5

LEMMA PhoneReadsInbound ==
  ASSUME Shape, Inbound, PhoneReads PROVE Inbound'
<1> DEFINE m == Head(out["CMD"])
<1>1. UNCHANGED <<s, queue>> /\ m \in Outbound(s.key, s.keypair)
  BY PhoneReadsIs
<1>2. PICK p : HasRead(m, p) /\ (KeptQuiet(p) \/ \E r : Reply(m, r) /\ HasSpoken(p, r))
  BY PhoneReadsIs
<1> HIDE DEF m
<1>3. p.encrypts \in BOOLEAN /\ p.ready = ph.ready /\ p.window = ph.window
  BY <1>2, OutTyped DEF HasRead
<1>4. CASE KeptQuiet(p)
  <2>1. UNCHANGED <<net, queue>> /\ ph'.ready = ph.ready /\ ph'.window = ph.window
    BY <1>1, <1>3, <1>4 DEF KeptQuiet
  <2> QED
    BY <1>1, <2>1, FlightSame, InboundSame
<1>5. ASSUME NEW r, Reply(m, r), HasSpoken(p, r) PROVE Inbound'
  <2>1. r.svc = "MD_ENCRYPT_READY" => s.key
    BY <1>1, <1>5 DEF Reply, Outbound
  <2> QED
    BY <1>1, <1>3, <1>5, <2>1, InboundSpoken
<1> QED
  BY <1>2, <1>4, <1>5

LEMMA PhoneReadsEncrypts ==
  ASSUME Shape, Encrypts, PhoneReads PROVE Encrypts'
<1> DEFINE m == Head(out["CMD"])
<1>1. /\ out["CMD"] # <<>> /\ out' = [out EXCEPT !["CMD"] = Tail(@)]
      /\ UNCHANGED s /\ LinkSame
  BY PhoneReadsIs
<1>2. PICK p : HasRead(m, p) /\ (KeptQuiet(p) \/ \E r : Reply(m, r) /\ HasSpoken(p, r))
  BY PhoneReadsIs
<1> HIDE DEF m
<1>3. p.encrypts = (ph.encrypts \/ m.svc = "MD_ENCRYPT_READY_DONE") /\ ph'.encrypts = p.encrypts
  BY <1>2 DEF HasRead, KeptQuiet, HasSpoken, Spoke
<1> QED
  BY <1>1, <1>3, EncryptsRead DEF m

LEMMA PhoneSaysInbound ==
  ASSUME Shape, Inbound, PhoneSays PROVE Inbound'
<1>1. UNCHANGED <<s, queue>>
  BY PhoneSaysIs
<1>2. PICK p, m : Wishing(p, m)
  BY PhoneSaysIs
<1>3. /\ HasSpoken(p, m) /\ p.ready = ph.ready /\ p.window = ph.window /\ p.encrypts = ph.encrypts
      /\ m.svc # "MD_ENCRYPT_READY"
  BY <1>2, WishesAre DEF Wishing, Handshake
<1> QED
  BY <1>1, <1>3, OutTyped, InboundSpoken

LEMMA PhoneSaysEncrypts ==
  ASSUME Shape, Encrypts, PhoneSays PROVE Encrypts'
<1>1. UNCHANGED <<s, out>> /\ LinkSame
  BY PhoneSaysIs
<1>2. PICK p, m : Wishing(p, m)
  BY PhoneSaysIs
<1>3. ph'.encrypts = ph.encrypts
  BY <1>2 DEF Wishing, HasSpoken, Spoke
<1>4. CanSend("CMD")' => CanSend("CMD")
  BY <1>1 DEF LinkSame, CanSend, Alive
<1> QED
  BY <1>1, <1>3, <1>4, EncryptsSame

\* What the car decrypts stays right whatever the phone asks for; what it encrypts
\* does as long as no request switches its cipher off.
LEMMA InboundStep == ASSUME Shape, Inbound, [Next]_vars PROVE Inbound'
<1>1. CASE UNCHANGED vars
  <2>1. UNCHANGED <<net, queue, s, ph>>
    BY <1>1 DEF vars, transportVars, sessionVars
  <2> QED
    BY <2>1, FlightSame, InboundSame
<1>2. CASE Next
  BY <1>2, NextIs, InboundTaken, QuietInbound, PhoneReadsInbound, PhoneSaysInbound DEF Steps
<1> QED
  BY <1>1, <1>2

LEMMA EncryptsStep ==
  ASSUME Shape, Ciphered, [Next]_vars, Taking => ~Rekeying PROVE Encrypts'
<1>1. CASE UNCHANGED vars
  <2>1. UNCHANGED <<out, s, ph, reader, closed>>
    BY <1>1 DEF vars, transportVars, sessionVars
  <2>2. CanSend("CMD")' => CanSend("CMD")
    BY <2>1 DEF CanSend, Alive
  <2> QED
    BY <2>1, <2>2, EncryptsSame DEF Ciphered
<1>2. CASE Next
  <2>1. CASE Taking
    BY <2>1, EncryptsTaken
  <2> QED
    BY <1>2, <2>1, NextIs, QuietEncrypts, PhoneReadsEncrypts, PhoneSaysEncrypts DEF Steps, Ciphered
<1> QED
  BY <1>1, <1>2

LEMMA InitCiphered == ASSUME Init PROVE Ciphered
<1>1. /\ net = [c \in Channel |-> <<>>] /\ queue = <<>> /\ out = [c \in Channel |-> <<>>]
      /\ s.enabled = FALSE /\ s.excludes = {}
      /\ ph.ready = FALSE /\ ph.encrypts = FALSE /\ ph.window = {}
  BY DEF Init, TransportInit, SessionInit
<1>2. \A c \in Channel : Flight[c] = <<>>
  <2>1. \A c : Of(<<>>, c) = <<>>
    BY OfFacts
  <2> QED
    BY <1>1, <2>1 DEF Flight
<1>3. Flight["CMD"] = <<>> /\ out["CMD"] = <<>>
  BY <1>1, <1>2, TransportAssumption
<1>4. Windowed
  BY <1>1, <1>2 DEF Windowed, NoEarly
<1>5. Keyed /\ Begun /\ Decrypts
  BY <1>1, <1>3 DEF Keyed, Begun, Decrypts, ReadyIn, Safe
<1>6. Encrypts
  BY <1>1, <1>3 DEF Encrypts, DoneIn, InStep
<1> QED
  BY <1>4, <1>5, <1>6 DEF Ciphered, Inbound

\* The invariant is enough.
LEMMA CipheredMeans ==
  ASSUME Shape, Inbound, ~ph.again => Encrypts PROVE CipherInStep
<1>1. s.excludes \subseteq ph.window
  BY DEF Inbound, Windowed
<1>2. DOMAIN out["CMD"] = 1..Len(out["CMD"]) /\ Len(out["CMD"]) \in Nat
  BY OutTyped, LenProperties
<1>3. ASSUME ~ph.again, NEW i \in DOMAIN out["CMD"], out["CMD"][i].arg # "none"
      PROVE  out["CMD"][i].enc <=>
               s.key /\ (ph.encrypts \/ \E j \in 1..i : out["CMD"][j].svc = "MD_ENCRYPT_READY_DONE")
  <2> DEFINE said == \E j \in 1..i : out["CMD"][j].svc = "MD_ENCRYPT_READY_DONE"
  <2>1. out["CMD"][i].enc <=> ph.encrypts \/ said
    BY <1>2, <1>3 DEF Encrypts, InStep
  <2>2. said => DoneIn(out["CMD"])
    BY <1>2, <1>3 DEF DoneIn
  <2>3. ph.encrypts \/ said => s.key
    BY <1>3, <2>2 DEF Inbound, Keyed, Encrypts
  <2> QED
    BY <2>1, <2>3
<1> QED
  BY <1>1, <1>3 DEF CipherInStep

-----------------------------------------------------------------------------
\* Answers: a sequence through a function

Maps(F, S, V) == F \in [S -> V]
Through(F, q) == [i \in DOMAIN q |-> F[q[i]]]

LEMMA ThroughType ==
  ASSUME NEW S, NEW V, NEW F, Maps(F, S, V), NEW q \in Seq(S)
  PROVE  Through(F, q) \in Seq(V) /\ Len(Through(F, q)) = Len(q)
         /\ \A i \in 1..Len(q) : Through(F, q)[i] = F[q[i]]
<1>1. Len(q) \in Nat /\ DOMAIN q = 1..Len(q) /\ \A i \in 1..Len(q) : q[i] \in S
  BY LenProperties, ElementOfSeq
<1>2. Through(F, q) \in [1..Len(q) -> V]
  BY <1>1 DEF Through, Maps
<1> QED
  BY <1>1, <1>2, SeqDef DEF Through

\* A sequence with these elements is the other through F.
LEMMA ThroughIs ==
  ASSUME NEW S, NEW V, NEW F, Maps(F, S, V), NEW q \in Seq(S), NEW r \in Seq(V), Len(r) = Len(q),
         \A i \in 1..Len(q) : r[i] = F[q[i]]
  PROVE  Through(F, q) = r
<1> DEFINE l == Through(F, q)
<1>1. l \in Seq(V) /\ Len(l) = Len(q) /\ \A i \in 1..Len(q) : l[i] = F[q[i]]
  BY ThroughType
<1> HIDE DEF l
<1>2. \A i \in 1..Len(l) : l[i] = r[i]
  BY <1>1
<1>3. l = r
  BY <1>1, <1>2, SeqEqual
<1> QED
  BY <1>3 DEF l

LEMMA ThroughConcat ==
  ASSUME NEW S, NEW V, NEW F, Maps(F, S, V), NEW s1 \in Seq(S), NEW s2 \in Seq(S)
  PROVE  Through(F, s1 \o s2) = Through(F, s1) \o Through(F, s2)
<1> DEFINE q == s1 \o s2
           t1 == Through(F, s1)
           t2 == Through(F, s2)
           r == t1 \o t2
           n == Len(s1)
           k == Len(s2)
<1>1. /\ q \in Seq(S) /\ Len(q) = n + k
      /\ \A i \in 1..n + k : q[i] = IF i <= n THEN s1[i] ELSE s2[i - n]
  BY ConcatProperties
<1>2. t1 \in Seq(V) /\ Len(t1) = n /\ \A i \in 1..n : t1[i] = F[s1[i]]
  BY ThroughType
<1>3. t2 \in Seq(V) /\ Len(t2) = k /\ \A i \in 1..k : t2[i] = F[s2[i]]
  BY ThroughType
<1>4. n \in Nat /\ k \in Nat
  BY LenProperties
<1> HIDE DEF t1, t2, q, n, k
<1>5. /\ r \in Seq(V) /\ Len(r) = Len(t1) + Len(t2)
      /\ \A i \in 1..Len(t1) + Len(t2) : r[i] = IF i <= Len(t1) THEN t1[i] ELSE t2[i - Len(t1)]
  BY <1>2, <1>3, ConcatProperties
<1> HIDE DEF r
<1>6. ASSUME NEW i \in 1..Len(q) PROVE r[i] = F[q[i]]
  <2>1. i \in 1..n + k
    BY <1>1
  <2>2. CASE i <= n
    <3>1. i \in 1..n /\ q[i] = s1[i] /\ r[i] = t1[i]
      BY <1>1, <1>2, <1>3, <1>4, <1>5, <2>1, <2>2
    <3> QED
      BY <1>2, <3>1
  <2>3. CASE ~(i <= n)
    <3>1. i - n \in 1..k /\ q[i] = s2[i - n] /\ r[i] = t2[i - n]
      BY <1>1, <1>2, <1>3, <1>4, <1>5, <2>1, <2>3
    <3> QED
      BY <1>3, <3>1
  <2> QED
    BY <2>2, <2>3
<1>7. Len(r) = Len(q)
  BY <1>1, <1>2, <1>3, <1>5
<1>8. q \in Seq(S) /\ r \in Seq(V)
  BY <1>1, <1>5
<1>9. Through(F, q) = r
  BY <1>6, <1>7, <1>8, ThroughIs
<1> QED
  BY <1>9 DEF r, q, t1, t2

LEMMA ThroughOne ==
  ASSUME NEW S, NEW V, NEW F, Maps(F, S, V), NEW x \in S
  PROVE  Through(F, <<x>>) = <<F[x]>>
<1>0. F[x] \in V
  BY DEF Maps
<1> DEFINE q == <<x>>
           r == <<F[x]>>
<1>1. q \in Seq(S) /\ Len(q) = 1 /\ q[1] = x
  OBVIOUS
<1>2. r \in Seq(V) /\ Len(r) = 1 /\ r[1] = F[x]
  BY <1>0
<1> HIDE DEF q, r
<1>3. \A i \in 1..Len(q) : r[i] = F[q[i]]
  <2>1. SUFFICES ASSUME NEW i \in 1..Len(q) PROVE r[i] = F[q[i]]
    OBVIOUS
  <2>2. i = 1
    BY <1>1
  <2> QED
    BY <1>1, <1>2, <2>2
<1>4. Through(F, q) = r
  BY <1>1, <1>2, <1>3, ThroughIs
<1> QED
  BY <1>4 DEF q, r

SvcOf(S) == [m \in S |-> m.svc]
LEMMA SvcsThrough ==
  ASSUME NEW S, NEW q \in Seq(S) PROVE Svcs(q) = Through(SvcOf(S), q)
<1>1. DOMAIN q = 1..Len(q) /\ \A i \in 1..Len(q) : q[i] \in S
  BY LenProperties, ElementOfSeq
<1> QED
  BY <1>1 DEF Svcs, Through, SvcOf

LEMMA SvcsConcat ==
  ASSUME NEW S, NEW s1 \in Seq(S), NEW s2 \in Seq(S)
  PROVE  Svcs(s1 \o s2) = Svcs(s1) \o Svcs(s2)
<1> DEFINE V == {m.svc : m \in S}
           F == SvcOf(S)
           q == s1 \o s2
<1>1. Maps(F, S, V)
  BY DEF SvcOf, Maps
<1>2. q \in Seq(S)
  BY ConcatProperties
<1> HIDE DEF q
<1>3. Svcs(s1) = Through(F, s1) /\ Svcs(s2) = Through(F, s2) /\ Svcs(q) = Through(F, q)
  BY <1>2, SvcsThrough
<1> HIDE DEF F, V
<1>4. \A t1, t2 \in Seq(S) : Through(F, t1 \o t2) = Through(F, t1) \o Through(F, t2)
  BY <1>1, ThroughConcat
<1> QED
  BY <1>3, <1>4 DEF q

LEMMA WhereOfWhere ==
  ASSUME NEW S, NEW q \in Seq(S), NEW T, NEW U, U \subseteq T
  PROVE  Where(Where(q, T), U) = Where(q, U)
<1> DEFINE P == {t \in Seq(S) : Where(Where(t, T), U) = Where(t, U)}
<1>1. <<>> \in P
  BY WhereEmpty, EmptySeq
<1>2. ASSUME NEW t \in Seq(S), NEW x \in S, t \in P PROVE Append(t, x) \in P
  <2> DEFINE w == Where(t, T)
             r == Append(t, x)
  <2>1. w \in Seq(S) /\ r \in Seq(S) /\ Where(w, U) = Where(t, U)
    BY <1>2, WhereType, AppendProperties
  <2>2. Where(r, T) = IF x \in T THEN Append(w, x) ELSE w
    BY WhereAppend
  <2>3. Where(r, U) = IF x \in U THEN Append(Where(t, U), x) ELSE Where(t, U)
    BY WhereAppend
  <2> HIDE DEF w, r
  <2>4. Where(Append(w, x), U) = IF x \in U THEN Append(Where(w, U), x) ELSE Where(w, U)
    BY <2>1, WhereAppend
  <2>5. Where(Where(r, T), U) = Where(r, U)
    BY <2>1, <2>2, <2>3, <2>4
  <2> QED
    BY <2>1, <2>5 DEF r
<1> HIDE DEF P
<1>3. Seq(S) \subseteq P
  BY <1>1, <1>2, SeqInduction
<1> QED
  BY <1>3 DEF P

LEMMA FirstOf ==
  ASSUME NEW S, NEW q \in Seq(S), NEW e, NEW k \in 1..Len(q), q[k] = e,
         \A j \in 1..k - 1 : q[j] # e
  PROVE  RemoveFirst(q, e) = SubSeq(q, 1, k - 1) \o SubSeq(q, k + 1, Len(q))
<1> DEFINE I == {i \in 1..Len(q) : q[i] = e}
<1>0. Len(q) \in Nat
  BY LenProperties
<1>1. k \in I /\ \A i \in I : k <= i
  BY <1>0
<1>2. Min(I) = k
  BY <1>0, <1>1 DEF Min
<1>3. RemoveFirst(q, e) = RemoveAt(q, Min(I))
  BY <1>1 DEF RemoveFirst, SelectInSeq
<1> QED
  BY <1>2, <1>3 DEF RemoveAt

LEMMA RemoveFirstNone ==
  ASSUME NEW q, NEW e, \A i \in 1..Len(q) : q[i] # e
  PROVE  RemoveFirst(q, e) = q
  BY DEF RemoveFirst

\* RemoveFirst takes out the first one, if there is one.
SplitAt(S, q, e, l, r) ==
  /\ l \in Seq(S) /\ r \in Seq(S) /\ q = (l \o <<e>>) \o r
  /\ \A i \in 1..Len(l) : l[i] # e
  /\ RemoveFirst(q, e) = l \o r

\* A part of the sequence before its first e, e, and the rest.
LEMMA Split ==
  ASSUME NEW S, NEW q \in Seq(S), NEW e
  PROVE  (\E i \in 1..Len(q) : q[i] = e) => \E l, r : SplitAt(S, q, e, l, r)
<1> SUFFICES ASSUME \E i \in 1..Len(q) : q[i] = e PROVE \E l, r : SplitAt(S, q, e, l, r)
  OBVIOUS
<1>0. Len(q) \in Nat
  BY LenProperties
<1>1. PICK k \in 1..Len(q) : q[k] = e /\ \A j \in 1..k - 1 : q[j] # e
  <2> DEFINE I == {i \in 1..Len(q) : q[i] = e}
  <2>1. I \subseteq Nat /\ I # {}
    BY <1>0
  <2>2. PICK k \in I : \A j \in I : ~ (<<j, k>> \in OpToRel(<, Nat))
    BY <2>1, NatLessThanWellFounded, WFMin
  <2>3. \A j \in I : ~ (j < k)
    BY <2>1, <2>2 DEF OpToRel
  <2>4. \A j \in 1..k - 1 : q[j] # e
    BY <1>0, <2>3
  <2> QED
    BY <2>4
<1> DEFINE l == SubSeq(q, 1, k - 1)
           r == SubSeq(q, k + 1, Len(q))
           p == (l \o <<e>>) \o r
           m == l \o <<e>>
<1>2. RemoveFirst(q, e) = l \o r
  BY <1>1, FirstOf
<1>3. l \in Seq(S) /\ Len(l) = k - 1 /\ \A i \in 1..k - 1 : l[i] = q[i]
  <2>1. k - 1 \in 0..Len(q)
    BY <1>0
  <2> QED
    BY <2>1, CutBasics
<1>4. r \in Seq(S) /\ Len(r) = Len(q) - k /\ \A i \in 1..Len(q) - k : r[i] = q[k + i]
  <2>1. CASE k = Len(q)
    <3>1. r = <<>>
      BY <1>0, <2>1
    <3> QED
      BY <1>0, <2>1, <3>1, EmptySeq
  <2>2. CASE k # Len(q)
    <3>1. k + 1 \in 1..Len(q) /\ Len(q) \in 1..Len(q)
      BY <1>0, <2>2
    <3>2. /\ r \in Seq(S)
          /\ Len(r) = IF k + 1 <= Len(q) THEN Len(q) - (k + 1) + 1 ELSE 0
          /\ \A i \in 1..Len(q) - (k + 1) + 1 : r[i] = q[k + 1 + i - 1]
      BY <3>1, SubSeqProperties
    <3> QED
      BY <1>0, <3>1, <3>2
  <2> QED
    BY <2>1, <2>2
<1>5. e \in S /\ <<e>> \in Seq(S) /\ Len(<<e>>) = 1 /\ <<e>>[1] = e
  <2>1. e \in S
    BY <1>1, ElementOfSeq
  <2> QED
    BY <2>1
<1> HIDE DEF l, r
<1>6. /\ m \in Seq(S) /\ Len(m) = k
      /\ \A i \in 1..k : m[i] = q[i]
  <2> DEFINE one == <<e>>
  <2>1. one \in Seq(S) /\ Len(one) = 1 /\ one[1] = e
    BY <1>5
  <2> HIDE DEF one
  <2>2. /\ l \o one \in Seq(S) /\ Len(l \o one) = Len(l) + Len(one)
        /\ \A i \in 1..Len(l) + Len(one) : (l \o one)[i] = IF i <= Len(l) THEN l[i] ELSE one[i - Len(l)]
    BY <1>3, <2>1, ConcatProperties
  <2>3. \A i \in 1..k : (l \o one)[i] = q[i]
    <3>1. SUFFICES ASSUME NEW i \in 1..k PROVE (l \o one)[i] = q[i]
      OBVIOUS
    <3>2. CASE i = k
      <4>1. i - Len(l) = 1 /\ ~(i <= Len(l)) /\ i \in 1..Len(l) + Len(one)
        BY <1>3, <2>1, <3>2
      <4> QED
        BY <1>1, <2>1, <2>2, <3>2, <4>1
    <3>3. CASE i # k
      <4>1. i <= Len(l) /\ i \in 1..k - 1 /\ i \in 1..Len(l) + Len(one)
        BY <1>3, <2>1, <3>3
      <4> QED
        BY <1>3, <2>2, <4>1
    <3> QED
      BY <3>2, <3>3
  <2> QED
    BY <1>3, <2>1, <2>2, <2>3, SMTT(30) DEF one
<1> HIDE DEF m
<1>7. q = m \o r
  <2> DEFINE s1 == m \o r
  <2>1. /\ s1 \in Seq(S) /\ Len(s1) = Len(m) + Len(r)
        /\ \A i \in 1..Len(m) + Len(r) : s1[i] = IF i <= Len(m) THEN m[i] ELSE r[i - Len(m)]
    BY <1>4, <1>6, ConcatProperties
  <2> HIDE DEF s1
  <2>2. \A i \in 1..Len(q) : q[i] = s1[i]
    <3>1. SUFFICES ASSUME NEW i \in 1..Len(q) PROVE q[i] = s1[i]
      OBVIOUS
    <3>2. CASE i <= k
      <4>1. i \in 1..k /\ i \in 1..Len(m) + Len(r)
        BY <1>0, <1>4, <1>6, <3>2
      <4> QED
        BY <1>6, <2>1, <3>2, <4>1
    <3>3. CASE ~(i <= k)
      <4>1. i - k \in 1..Len(q) - k /\ i \in 1..Len(m) + Len(r) /\ k + (i - k) = i
        BY <1>0, <1>4, <1>6, <3>3
      <4> QED
        BY <1>4, <1>6, <2>1, <3>3, <4>1
    <3> QED
      BY <3>2, <3>3
  <2>3. q = s1
    BY <1>0, <1>4, <1>6, <2>1, <2>2, SeqEqual
  <2> QED
    BY <2>3 DEF s1
<1>8. \A i \in 1..Len(l) : l[i] # e
  BY <1>1, <1>3
<1>9. SplitAt(S, q, e, l, r)
  BY <1>2, <1>3, <1>4, <1>5, <1>7, <1>8 DEF m, SplitAt
<1> QED
  BY <1>9


LEMMA ConcatBasics ==
  ASSUME NEW S, NEW q \in Seq(S), NEW r \in Seq(S)
  PROVE  /\ q \o r \in Seq(S) /\ Len(q) \in Nat /\ Len(r) \in Nat
         /\ Len(q \o r) = Len(q) + Len(r)
         /\ \A i \in 1..Len(q) : (q \o r)[i] = q[i]
         /\ \A i \in 1..Len(r) : (q \o r)[Len(q) + i] = r[i]
<1> DEFINE p == q \o r
           n == Len(q)
           k == Len(r)
<1>1. n \in Nat /\ k \in Nat
  BY LenProperties
<1>2. /\ p \in Seq(S) /\ Len(p) = n + k
      /\ \A i \in 1..n + k : p[i] = IF i <= n THEN q[i] ELSE r[i - n]
  BY ConcatProperties
<1> HIDE DEF p, n, k
<1>3. \A i \in 1..n : p[i] = q[i]
  BY <1>1, <1>2
<1>4. ASSUME NEW i \in 1..k PROVE p[n + i] = r[i]
  <2> DEFINE j == n + i
  <2>1. j \in 1..n + k /\ ~(j <= n) /\ j - n = i
    BY <1>1
  <2> HIDE DEF j
  <2>2. p[j] = r[j - n]
    BY <1>2, <2>1
  <2>3. p[j] = r[i]
    BY <2>1, <2>2
  <2> QED
    BY <2>3 DEF j
<1> QED
  BY <1>1, <1>2, <1>3, <1>4 DEF p, n, k

\* p is q and then r.
Joined(S, q, r, p) ==
  /\ p \in Seq(S) /\ Len(q) \in Nat /\ Len(r) \in Nat /\ Len(p) = Len(q) + Len(r)
  /\ \A i \in 1..Len(q) : p[i] = q[i]
  /\ \A i \in 1..Len(r) : p[Len(q) + i] = r[i]

LEMMA ConcatJoins ==
  ASSUME NEW S, NEW q \in Seq(S), NEW r \in Seq(S)
  PROVE  Joined(S, q, r, q \o r)
  BY ConcatBasics DEF Joined

LEMMA JoinedFirst ==
  ASSUME NEW S, NEW one \in Seq(S), NEW u \in Seq(S), NEW v \in Seq(S), NEW p,
         Joined(S, one, u, p), Joined(S, one, v, p)
  PROVE  u = v
<1>1. Len(u) = Len(v) /\ \A i \in 1..Len(u) : u[i] = v[i]
  BY DEF Joined
<1> QED
  BY <1>1, SeqEqual

LEMMA JoinedNone ==
  ASSUME NEW S, NEW one \in Seq(S), Len(one) = 1, NEW w \in Seq(S), NEW u \in Seq(S), NEW v \in Seq(S),
         NEW m, NEW p, Joined(S, w, one, m), Joined(S, m, v, p), Joined(S, one, u, p),
         \A i \in 1..Len(w) : w[i] # one[1]
  PROVE  w = <<>>
<1>1. SUFFICES ASSUME w # <<>> PROVE FALSE
  OBVIOUS
<1>2. Len(w) # 0 /\ Len(w) \in Nat
  BY <1>1, EmptySeq, LenProperties
<1>3. 1 \in 1..Len(w) /\ 1 \in 1..Len(m) /\ 1 \in 1..Len(one)
  BY <1>2 DEF Joined
<1>4. p[1] = m[1] /\ m[1] = w[1] /\ p[1] = one[1]
  BY <1>3 DEF Joined
<1> QED
  BY <1>3, <1>4

LEMMA OneIs ==
  ASSUME NEW S, NEW e \in S
  PROVE  <<e>> \in Seq(S) /\ Len(<<e>>) = 1 /\ <<e>>[1] = e
  OBVIOUS

\* What comes before the only one of its kind is nothing.
FirstOnly(one, w, u, v) == (w \o one) \o v = one \o u => w = <<>> /\ v = u

LEMMA NoneBefore ==
  ASSUME NEW S, NEW one \in Seq(S), Len(one) = 1, NEW w \in Seq(S), NEW u \in Seq(S), NEW v \in Seq(S),
         \A i \in 1..Len(w) : w[i] # one[1]
  PROVE  FirstOnly(one, w, u, v)
<1> DEFINE m == w \o one
           p == m \o v
           q == one \o u
           l == one \o v
<1>1. Joined(S, w, one, m)
  BY ConcatJoins
<1>2. m \in Seq(S)
  BY <1>1 DEF Joined
<1>3. Joined(S, m, v, p)
  <2> HIDE DEF m
  <2> QED
    BY <1>2, ConcatJoins
<1>4. Joined(S, one, u, q) /\ Joined(S, one, v, l)
  BY ConcatJoins
<1>5. w = <<>> => m = one
  BY ConcatEmptySeq
<1>6. w = <<>> => p = l
  BY <1>5
<1> HIDE DEF m, p, q, l
<1>7. p = q => w = <<>>
  BY <1>1, <1>3, <1>4, JoinedNone
<1>8. p = q => v = u
  BY <1>4, <1>6, <1>7, JoinedFirst
<1> QED
  BY <1>7, <1>8 DEF p, q, m, FirstOnly

LEMMA Elements ==
  ASSUME NEW S, NEW q \in Seq(S), NEW R, \A i \in 1..Len(q) : q[i] \in R
  PROVE  q \in Seq(R)
<1>1. Len(q) \in Nat /\ q \in [1..Len(q) -> S]
  BY LenProperties
<1>2. q \in [1..Len(q) -> R]
  BY <1>1
<1> QED
  BY <1>1, <1>2, SeqDef

LEMMA WhereSplit ==
  ASSUME NEW S, NEW T, NEW l \in Seq(S), NEW e \in S, NEW r \in Seq(S)
  PROVE  /\ Where((l \o <<e>>) \o r, T)
              = IF e \in T THEN (Where(l, T) \o <<e>>) \o Where(r, T) ELSE Where(l, T) \o Where(r, T)
         /\ Where(l \o r, T) = Where(l, T) \o Where(r, T)
<1> DEFINE one == <<e>>
           m == l \o one
<1>1. one \in Seq(S)
  OBVIOUS
<1>2. Where(one, T) = IF e \in T THEN one ELSE <<>>
  BY WhereOne
<1> HIDE DEF one
<1>3. m \in Seq(S)
  BY <1>1, ConcatProperties
<1>4. Where(m, T) = Where(l, T) \o Where(one, T)
  BY <1>1, WhereConcat
<1> HIDE DEF m
<1>5. Where(m \o r, T) = Where(m, T) \o Where(r, T)
  BY <1>3, WhereConcat
<1>6. Where(l \o r, T) = Where(l, T) \o Where(r, T)
  BY WhereConcat
<1>7. Where(l, T) \o <<>> = Where(l, T)
  BY WhereType, ConcatEmptySeq
<1>8. Where(m \o r, T) = IF e \in T THEN (Where(l, T) \o one) \o Where(r, T) ELSE Where(l, T) \o Where(r, T)
  BY <1>2, <1>4, <1>5, <1>7
<1> QED
  BY <1>6, <1>8 DEF m, one

LEMMA SplitOr ==
  ASSUME NEW S, NEW q \in Seq(S), NEW e
  PROVE  \/ (\A i \in 1..Len(q) : q[i] # e) /\ RemoveFirst(q, e) = q
         \/ \E l, r : SplitAt(S, q, e, l, r)
<1>1. CASE \A i \in 1..Len(q) : q[i] # e
  BY <1>1, RemoveFirstNone
<1>2. CASE \E i \in 1..Len(q) : q[i] = e
  BY <1>2, Split
<1> QED
  BY <1>1, <1>2

LEMMA WhereNone ==
  ASSUME NEW S, NEW q \in Seq(S), NEW T, NEW e, \A i \in 1..Len(q) : q[i] # e
  PROVE  \A i \in 1..Len(Where(q, T)) : Where(q, T)[i] # e
<1> DEFINE R == S \ {e}
           w == Where(q, T)
<1>1. \A i \in 1..Len(q) : q[i] \in R
  BY ElementOfSeq
<1> HIDE DEF R
<1>2. q \in Seq(R)
  BY <1>1, Elements
<1>3. w \in Seq(R)
  BY <1>2, WhereType
<1> HIDE DEF w
<1>4. \A i \in 1..Len(w) : w[i] \in R
  BY <1>3, ElementOfSeq
<1> QED
  BY <1>4 DEF R, w

LEMMA FirstIs ==
  ASSUME NEW S, NEW one \in Seq(S), Len(one) = 1, NEW u \in Seq(S), NEW w,
         \A i \in 1..Len(w) : w[i] # one[1]
  PROVE  w # one \o u
<1> DEFINE p == one \o u
<1>1. Joined(S, one, u, p)
  BY ConcatJoins
<1> HIDE DEF p
<1>2. p[1] = one[1] /\ 1 \in 1..Len(p)
  BY <1>1 DEF Joined
<1> QED
  BY <1>2 DEF p

LEMMA RemovedNone ==
  ASSUME NEW S, NEW q \in Seq(S), NEW T, NEW e \in S,
         \A i \in 1..Len(q) : q[i] # e
  PROVE  \A u \in Seq(S) : Where(q, T) # <<e>> \o u
<1> DEFINE w == Where(q, T)
           one == <<e>>
<1>1. \A i \in 1..Len(w) : w[i] # e
  BY WhereNone
<1>2. one \in Seq(S) /\ Len(one) = 1 /\ one[1] = e
  BY OneIs
<1> HIDE DEF w, one
<1>3. \A u \in Seq(S) : w # one \o u
  BY <1>1, <1>2, FirstIs
<1> QED
  BY <1>3 DEF w, one

\* y is x without e, as far as T goes.
Struck(S, T, e, x, y) ==
  /\ e \notin T => Where(y, T) = Where(x, T)
  /\ \A u \in Seq(S) : e \in T /\ Where(x, T) = <<e>> \o u => Where(y, T) = u

LEMMA RemovedOne ==
  ASSUME NEW S, NEW T, NEW e \in S, NEW l \in Seq(S), NEW r \in Seq(S),
         \A i \in 1..Len(l) : l[i] # e
  PROVE  Struck(S, T, e, (l \o <<e>>) \o r, l \o r)
<1> DEFINE wl == Where(l, T)
           wr == Where(r, T)
           one == <<e>>
           x == Where((l \o <<e>>) \o r, T)
           y == Where(l \o r, T)
<1>1. x = (IF e \in T THEN (wl \o one) \o wr ELSE wl \o wr) /\ y = wl \o wr
  BY WhereSplit, SMTT(30)
<1>2. wl \in Seq(S) /\ wr \in Seq(S)
  BY WhereType
<1>3. \A i \in 1..Len(wl) : wl[i] # e
  BY WhereNone
<1>4. one \in Seq(S) /\ Len(one) = 1 /\ one[1] = e
  BY OneIs
<1> HIDE DEF wl, wr, one, x, y
<1>5. ASSUME NEW u \in Seq(S) PROVE (wl \o one) \o wr = one \o u => wl = <<>> /\ wr = u
  <2>1. \A i \in 1..Len(wl) : wl[i] # one[1]
    BY <1>3, <1>4
  <2>2. FirstOnly(one, wl, u, wr)
    BY <1>2, <1>4, <2>1, NoneBefore
  <2> QED
    BY <2>2 DEF FirstOnly
<1>6. wl = <<>> => wl \o wr = wr
  BY <1>2, ConcatEmptySeq
<1>7. /\ e \notin T => y = x
      /\ \A u \in Seq(S) : e \in T /\ x = one \o u => y = u
  BY <1>1, <1>5, <1>6
<1> QED
  BY <1>7 DEF x, y, one, Struck

\* An answer that is read is struck out.
LEMMA WhereRemoved ==
  ASSUME NEW S, NEW q \in Seq(S), NEW T, NEW e \in S
  PROVE  RemoveFirst(q, e) \in Seq(S) /\ Struck(S, T, e, q, RemoveFirst(q, e))
<1>1. CASE (\A i \in 1..Len(q) : q[i] # e) /\ RemoveFirst(q, e) = q
  BY <1>1, RemovedNone DEF Struck
<1>2. ASSUME NEW l, NEW r, SplitAt(S, q, e, l, r)
      PROVE  RemoveFirst(q, e) \in Seq(S) /\ Struck(S, T, e, q, RemoveFirst(q, e))
  <2> DEFINE x == (l \o <<e>>) \o r
             y == l \o r
             t == RemoveFirst(q, e)
  <2>1. l \in Seq(S) /\ r \in Seq(S) /\ q = x /\ (\A i \in 1..Len(l) : l[i] # e) /\ t = y
    BY <1>2 DEF SplitAt
  <2>5. Struck(S, T, e, x, y)
    BY <2>1, RemovedOne
  <2>3. y \in Seq(S)
    BY <2>1, ConcatProperties
  <2> HIDE DEF x, y, t
  <2> QED
    BY <2>1, <2>3, <2>5 DEF t
<1> QED
  BY <1>1, <1>2, SplitOr


-----------------------------------------------------------------------------
\* Answers: what is owed for the requests of a sequence

\* Requests, and what each is answered; k are those that are owed their answer.
Asking == {m \in On("CMD") : m.svc \in DOMAIN AnswerTo}
Answering == [m \in Asking |-> AnswerTo[m.svc]]
Due(k, q) == Through(Answering, Where(q, k))

LEMMA AnsweringMaps ==
  Maps(Answering, Asking, Text) /\ \A m \in Asking : Answering[m] = AnswerTo[m.svc] /\ AnswerTo[m.svc] \in Text
<1>1. ASSUME NEW m \in Asking PROVE AnswerTo[m.svc] \in Text
  <2>1. AnswerTo[m.svc] \in Answers
    BY DEF Asking, Answers
  <2>2. Answers \subseteq Text
    BY AnswersAre, TextFacts
  <2> QED
    BY <2>1, <2>2
<1> QED
  BY <1>1 DEF Answering, Maps

LEMMA AnsweringConcat ==
  \A t1, t2 \in Seq(Asking) :
    Through(Answering, t1 \o t2) = Through(Answering, t1) \o Through(Answering, t2)
  BY AnsweringMaps, ThroughConcat

LEMMA DueType ==
  ASSUME NEW k, k \subseteq Asking, NEW q \in Seq(On("CMD"))
  PROVE  Where(q, k) \in Seq(Asking) /\ Due(k, q) \in Seq(Text)
<1>1. Where(q, k) \in Seq(On("CMD") \cap k) /\ On("CMD") \cap k \subseteq Asking
  BY WhereType
<1>2. Where(q, k) \in Seq(Asking)
  BY <1>1, SeqMonotonic
<1> QED
  BY <1>2, AnsweringMaps, ThroughType DEF Due

LEMMA DueAppend ==
  ASSUME NEW k, k \subseteq Asking, NEW q \in Seq(On("CMD")), NEW m \in On("CMD")
  PROVE  Due(k, Append(q, m)) = IF m \in k THEN Append(Due(k, q), AnswerTo[m.svc]) ELSE Due(k, q)
<1> DEFINE w == Where(q, k)
           r == Append(q, m)
           one == <<m>>
           d == Due(k, q)
<1>1. w \in Seq(Asking) /\ d \in Seq(Text) /\ d = Through(Answering, w)
  BY DueType DEF Due
<1>2. Where(r, k) = IF m \in k THEN Append(w, m) ELSE w
  BY WhereAppend
<1>3. Due(k, r) = Through(Answering, Where(r, k))
  BY DEF Due
<1> HIDE DEF w, r, d
<1>4. CASE m \in k
  <2>1. m \in Asking /\ one \in Seq(Asking)
    BY <1>4
  <2>2. Append(w, m) = w \o one
    BY <1>1, <2>1, AppendIsConcat
  <2>3. Through(Answering, one) = <<AnswerTo[m.svc]>>
    BY <2>1, AnsweringMaps, ThroughOne
  <2>4. AnswerTo[m.svc] \in Text
    BY <2>1, AnsweringMaps
  <2> HIDE DEF one
  <2>5. Through(Answering, w \o one) = Through(Answering, w) \o Through(Answering, one)
    BY <1>1, <2>1, AnsweringConcat
  <2>6. Append(d, AnswerTo[m.svc]) = d \o <<AnswerTo[m.svc]>>
    BY <1>1, <2>4, AppendIsConcat
  <2>7. Due(k, r) = Append(d, AnswerTo[m.svc])
    BY <1>1, <1>2, <1>3, <1>4, <2>2, <2>3, <2>5, <2>6
  <2> QED
    BY <1>4, <2>7 DEF r, d
<1>5. CASE m \notin k
  <2>1. Due(k, r) = d
    BY <1>1, <1>2, <1>3, <1>5
  <2> QED
    BY <1>5, <2>1 DEF r, d
<1> QED
  BY <1>4, <1>5

LEMMA DueHead ==
  ASSUME NEW k, k \subseteq Asking, NEW q \in Seq(On("CMD")), q # <<>>
  PROVE  Due(k, q) = IF Head(q) \in k THEN <<AnswerTo[Head(q).svc]>> \o Due(k, Tail(q)) ELSE Due(k, Tail(q))
<1> DEFINE m == Head(q)
           t == Tail(q)
           w == Where(t, k)
           one == <<m>>
<1>1. m \in On("CMD") /\ t \in Seq(On("CMD"))
  BY HeadTailProperties
<1>2. Where(q, k) = IF m \in k THEN <<m>> \o w ELSE w
  BY WhereHead
<1> HIDE DEF m, t
<1>3. w \in Seq(Asking) /\ Due(k, t) = Through(Answering, w) /\ Due(k, q) = Through(Answering, Where(q, k))
  BY <1>1, DueType DEF Due
<1> HIDE DEF w
<1>4. CASE m \in k
  <2>1. m \in Asking /\ one \in Seq(Asking)
    BY <1>4
  <2>3. Through(Answering, one) = <<AnswerTo[m.svc]>>
    BY <2>1, AnsweringMaps, ThroughOne
  <2>4. Where(q, k) = one \o w
    BY <1>2, <1>4
  <2> HIDE DEF one
  <2>5. Through(Answering, one \o w) = Through(Answering, one) \o Through(Answering, w)
    BY <1>3, <2>1, AnsweringConcat
  <2>6. Due(k, q) = <<AnswerTo[m.svc]>> \o Due(k, t)
    BY <1>3, <2>3, <2>4, <2>5
  <2> QED
    BY <1>4, <2>6 DEF m, t
<1>5. CASE m \notin k
  BY <1>2, <1>3, <1>5 DEF m, t
<1> QED
  BY <1>4, <1>5

\* What the phone waits for, of T, is what is on its way and then what is due.
Balance(o, q, d, T) == Where(o, T) = Where(q, T) \o Where(d, T)

LEMMA BalanceShrinks ==
  ASSUME NEW o \in Seq(Text), NEW q \in Seq(Text), NEW d \in Seq(Text), NEW T, NEW U, U \subseteq T,
         Balance(o, q, d, T)
  PROVE  Balance(o, q, d, U)
<1> DEFINE a == Where(q, T)
           b == Where(d, T)
<1>1. a \in Seq(Text) /\ b \in Seq(Text)
  BY WhereType
<1>2. /\ Where(Where(o, T), U) = Where(o, U)
      /\ Where(a, U) = Where(q, U)
      /\ Where(b, U) = Where(d, U)
  BY WhereOfWhere
<1>3. Where(o, T) = a \o b
  BY DEF Balance
<1> HIDE DEF a, b
<1>4. Where(a \o b, U) = Where(a, U) \o Where(b, U)
  BY <1>1, WhereConcat
<1> QED
  BY <1>2, <1>3, <1>4 DEF Balance

LEMMA BalanceAsks ==
  ASSUME NEW o \in Seq(Text), NEW q \in Seq(Text), NEW d \in Seq(Text), NEW T, NEW x \in Text,
         Balance(o, q, d, T)
  PROVE  Balance(Append(o, x), q, Append(d, x), T)
<1> DEFINE a == Where(q, T)
           b == Where(d, T)
           p == Where(o, T)
           e == Append(d, x)
           r == Append(o, x)
<1>1. a \in Seq(Text) /\ b \in Seq(Text) /\ p = a \o b
  BY WhereType DEF Balance
<1>2. /\ Where(r, T) = IF x \in T THEN Append(p, x) ELSE p
      /\ Where(e, T) = IF x \in T THEN Append(b, x) ELSE b
  BY WhereAppend
<1> HIDE DEF a, b, p, e, r
<1>3. a \o Append(b, x) = Append(a \o b, x)
  BY <1>1, ConcatAppend
<1>4. Where(r, T) = a \o Where(e, T)
  BY <1>1, <1>2, <1>3
<1> QED
  BY <1>4 DEF Balance, a, e, r

LEMMA BalanceReads ==
  ASSUME NEW o \in Seq(Text), NEW q \in Seq(Text), q # <<>>, NEW d \in Seq(Text), NEW T,
         Balance(o, q, d, T)
  PROVE  RemoveFirst(o, Head(q)) \in Seq(Text) /\ Balance(RemoveFirst(o, Head(q)), Tail(q), d, T)
<1> DEFINE e == Head(q)
           t == Tail(q)
           a == Where(t, T)
           b == Where(d, T)
           one == <<e>>
           u == a \o b
           r == RemoveFirst(o, e)
<1>1. e \in Text /\ t \in Seq(Text)
  BY HeadTailProperties
<1>2. Where(q, T) = IF e \in T THEN one \o a ELSE a
  BY WhereHead
<1> HIDE DEF e, t
<1>3. a \in Seq(Text) /\ b \in Seq(Text) /\ Where(o, T) = Where(q, T) \o b
  BY <1>1, WhereType DEF Balance
<1>4. one \in Seq(Text)
  BY <1>1
<1>5. r \in Seq(Text) /\ Struck(Text, T, e, o, r)
  BY <1>1, WhereRemoved
<1>6. e \notin T => Where(r, T) = Where(o, T)
  BY <1>5 DEF Struck
<1>7. \A v \in Seq(Text) : e \in T /\ Where(o, T) = one \o v => Where(r, T) = v
  BY <1>5 DEF Struck
<1> HIDE DEF a, b, one, r
<1>8. u \in Seq(Text) /\ (one \o a) \o b = one \o u
  BY <1>3, <1>4, ConcatProperties, ConcatAssociative, SMTT(30)
<1> HIDE DEF u
<1>9. Where(r, T) = u
  <2>1. CASE e \in T
    <3>1. Where(o, T) = one \o u
      BY <1>2, <1>3, <1>8, <2>1
    <3> QED
      BY <1>7, <1>8, <2>1, <3>1
  <2>2. CASE e \notin T
    BY <1>2, <1>3, <1>6, <2>2 DEF u
  <2> QED
    BY <2>1, <2>2
<1> QED
  BY <1>5, <1>9 DEF Balance, u, a, b, r, e, t

Associates(s1, s2, s3) == (s1 \o s2) \o s3 = s1 \o (s2 \o s3)

LEMMA TextAssociates ==
  ASSUME NEW s1 \in Seq(Text), NEW s2 \in Seq(Text), NEW s3 \in Seq(Text)
  PROVE  Associates(s1, s2, s3)
  BY ConcatAssociative DEF Associates

\* The car answers x, which is due, or what does not matter to T.
LEMMA BalanceAnswers ==
  ASSUME NEW o \in Seq(Text), NEW q \in Seq(Text), NEW d \in Seq(Text), NEW T, NEW z \in Seq(Text),
         NEW c \in Seq(Text)
  PROVE  Where(d, T) = Where(z, T) \o Where(c, T) /\ Balance(o, q, d, T) => Balance(o, q \o z, c, T)
<1> DEFINE a == Where(q, T)
           b == Where(z, T)
           e == Where(c, T)
<1>1. a \in Seq(Text) /\ b \in Seq(Text) /\ e \in Seq(Text)
  BY WhereType
<1>2. Where(q \o z, T) = a \o b
  BY WhereConcat
<1> HIDE DEF a, b, e
<1>3. Associates(a, b, e)
  BY <1>1, TextAssociates
<1> QED
  BY <1>2, <1>3 DEF Balance, Associates, a, b, e


-----------------------------------------------------------------------------
\* Answers: what is sent

\* Messages for the phone: an answer goes over the command channel.
Addressed ==
  {m \in [ch : {"CMD", "TOUCH", "VR", "VIDEO"}, svc : Text, arg : Text, enc : BOOLEAN] :
     m.ch # "CMD" => m.svc \notin Answers}

LEMMA PostedAddressed ==
  ASSUME NEW on, NEW key, NEW keypair
  PROVE  /\ Posted(on, key, keypair) \subseteq Addressed
         /\ on \in BOOLEAN => Post(on, "CMD", "MD_ENCRYPT_READY_DONE", "none") \in Addressed
<1>1. Posted(on, key, keypair) \subseteq Addressed
  BY DEF Posted, Addressed
<1>2. on \in BOOLEAN => Post(on, "CMD", "MD_ENCRYPT_READY_DONE", "none") \in Addressed
  BY TextFacts DEF Post, Addressed
<1> QED
  BY <1>1, <1>2

LEMMA RoundAddressed ==
  ASSUME NEW x, Cased(x), NEW f, NEW g, NEW y, Round(x, f, g, y)
  PROVE  y.tx \in Seq(Addressed)
<1>1. x.enabled \in BOOLEAN
  BY DEF Cased
<1>2. CASE RoundKept(x, f, y)
  <2> DEFINE P == Posted(x.enabled, y.key, x.keypair)
  <2>1. y.tx \in Seq(P) /\ P \subseteq Addressed
    BY <1>2, PostedAddressed DEF RoundKept
  <2> HIDE DEF P
  <2> QED
    BY <2>1, SeqMonotonic
<1>3. CASE RoundTurned(x, f, y)
  <2> DEFINE p == Post(x.enabled, "CMD", "MD_ENCRYPT_READY_DONE", "none")
  <2>1. y.tx = <<p>> \/ \E m \in Posted(y.enabled, y.key, x.keypair) : y.tx = Append(<<p>>, m)
    BY <1>3 DEF RoundTurned
  <2>2. p \in Addressed /\ Posted(y.enabled, y.key, x.keypair) \subseteq Addressed
    BY <1>1, PostedAddressed
  <2> HIDE DEF p
  <2>3. <<p>> \in Seq(Addressed) /\ \A m \in Addressed : Append(<<p>>, m) \in Seq(Addressed)
    BY <2>2, AppendProperties
  <2> QED
    BY <2>1, <2>2, <2>3
<1>4. CASE RoundDropped(x, f, y)
  <2>1. PICK q \in Seq(Posted(x.enabled, y.key, x.keypair)) :
          y.tx = q \/ \E m \in Posted(y.enabled, y.key, x.keypair) : y.tx = Append(q, m)
    BY <1>4 DEF RoundDropped
  <2>2. /\ Posted(x.enabled, y.key, x.keypair) \subseteq Addressed
        /\ Posted(y.enabled, y.key, x.keypair) \subseteq Addressed
    BY PostedAddressed
  <2>3. q \in Seq(Addressed)
    BY <2>2, SeqMonotonic
  <2>4. \A m \in Addressed : Append(q, m) \in Seq(Addressed)
    BY <2>3, AppendProperties
  <2> QED
    BY <2>1, <2>2, <2>3, <2>4
<1> QED
  BY <1>2, <1>3, <1>4 DEF Round

LEMMA SvcsText ==
  ASSUME NEW S, \A m \in S : m.svc \in Text, NEW q \in Seq(S)
  PROVE  Svcs(q) \in Seq(Text)
<1> DEFINE V == {m.svc : m \in S}
<1>1. Svcs(q) \in Seq(V) /\ V \subseteq Text
  BY SvcsType
<1> HIDE DEF V
<1> QED
  BY <1>1, SeqMonotonic

\* The answers among the commands are the answers.
LEMMA AnswersOnCmd ==
  ASSUME NEW q \in Seq(Addressed)
  PROVE  Where(Svcs(Of(q, "CMD")), Answers) = Where(Svcs(q), Answers)
<1> DEFINE W(t) == Where(Svcs(t), Answers)
           P == {t \in Seq(Addressed) : W(Of(t, "CMD")) = W(t)}
<1>0. \A m \in Addressed : m.svc \in Text /\ (m.ch # "CMD" => m.svc \notin Answers)
  BY DEF Addressed
<1>1. <<>> \in P
  BY OfFacts, EmptySeq
<1>2. ASSUME NEW t \in Seq(Addressed), NEW m \in Addressed
      PROVE  W(Append(t, m)) = IF m.svc \in Answers THEN Append(W(t), m.svc) ELSE W(t)
  <2> DEFINE v == m.svc
             u == Svcs(t)
  <2>1. Svcs(Append(t, m)) = Append(u, v)
    BY SvcsAppend
  <2>2. u \in Seq(Text) /\ v \in Text
    BY <1>0, SvcsText
  <2> HIDE DEF u, v
  <2>3. Where(Append(u, v), Answers) = IF v \in Answers THEN Append(Where(u, Answers), v) ELSE Where(u, Answers)
    BY <2>2, WhereAppend
  <2> QED
    BY <2>1, <2>3 DEF u, v
<1>3. ASSUME NEW t \in Seq(Addressed), NEW m \in Addressed, t \in P PROVE Append(t, m) \in P
  <2> DEFINE o == Of(t, "CMD")
             r == Append(t, m)
  <2>1. o \in Seq(Addressed) /\ r \in Seq(Addressed) /\ W(o) = W(t)
    BY <1>3, OfFacts, AppendProperties
  <2>2. Of(r, "CMD") = IF m.ch = "CMD" THEN Append(o, m) ELSE o
    BY OfAppend
  <2>3. W(r) = IF m.svc \in Answers THEN Append(W(t), m.svc) ELSE W(t)
    BY <1>2
  <2> HIDE DEF o, r
  <2>4. W(Append(o, m)) = IF m.svc \in Answers THEN Append(W(o), m.svc) ELSE W(o)
    BY <1>2, <2>1
  <2>5. CASE m.ch = "CMD"
    <3>1. Of(r, "CMD") = Append(o, m)
      BY <2>2, <2>5
    <3>2. W(Append(o, m)) = W(r)
      BY <2>1, <2>3, <2>4
    <3> HIDE DEF W
    <3> QED
      BY <2>1, <3>1, <3>2 DEF r
  <2>6. CASE m.ch # "CMD"
    <3>1. Of(r, "CMD") = o
      BY <2>2, <2>6
    <3>2. W(o) = W(r)
      BY <1>0, <2>1, <2>3, <2>6
    <3> HIDE DEF W
    <3> QED
      BY <2>1, <3>1, <3>2 DEF r
  <2> QED
    BY <2>5, <2>6
<1> HIDE DEF P
<1>4. Seq(Addressed) \subseteq P
  BY <1>1, <1>3, SeqInduction
<1> QED
  BY <1>4 DEF P

LEMMA SureTx ==
  ASSUME NEW q \in Seq(Addressed), NEW T, T \subseteq Answers
  PROVE  /\ Svcs(Of(q, "CMD")) \in Seq(Text)
         /\ Where(Svcs(Of(q, "CMD")), T) = Where(Where(Svcs(q), Answers), T)
<1> DEFINE o == Of(q, "CMD")
           u == Svcs(o)
           v == Svcs(q)
<1>1. \A m \in Addressed : m.svc \in Text
  BY DEF Addressed
<1>2. o \in Seq(Addressed)
  BY OfFacts
<1>3. u \in Seq(Text) /\ v \in Seq(Text)
  BY <1>1, <1>2, SvcsText
<1>4. Where(u, Answers) = Where(v, Answers)
  BY AnswersOnCmd
<1> HIDE DEF o, u, v
<1>5. Where(Where(u, Answers), T) = Where(u, T)
  BY <1>3, WhereOfWhere
<1> QED
  BY <1>3, <1>4, <1>5 DEF u, v, o

LEMMA AnswersDiffer ==
  \A a, b \in DOMAIN AnswerTo : AnswerTo[a] = AnswerTo[b] => a = b
  BY AnswerFacts

\* The answers that the phone is sure to get.
Sure(w) == {AnswerTo[svc] : svc \in DOMAIN AnswerTo \ w}

LEMMA SureIs ==
  ASSUME NEW w
  PROVE  /\ Sure(w) \subseteq Answers
         /\ \A svc \in DOMAIN AnswerTo : AnswerTo[svc] \in Sure(w) <=> svc \notin w
         /\ \A v : w \subseteq v => Sure(v) \subseteq Sure(w)
  BY AnswersDiffer DEF Sure, Answers

-----------------------------------------------------------------------------
\* Answers: the invariant

\* A message of the phone as it comes to be handled.
Civil(on, keypair, m) ==
  /\ m.enc => on /\ m.arg # "none"
  /\ m.svc = "MD_AUTH_RESPONSE" => m.arg \in {"good", "wrong", "bad"}
  /\ m.svc = "MD_AES_KEY_SEND_REQUEST" => keypair /\ m.arg \in {"ok", "bad"}
Courteous(on, keypair, q) == \A i \in 1..Len(q) : Civil(on, keypair, q[i])

Requests == {m \in On("CMD") : Owed(m)}

Balanced == Balance(ph.owed, Svcs(out["CMD"]), Due(Requests, Flight["CMD"]), Sure(ph.window))
Owing ==
  /\ ph.owed \in Seq(Text)
  /\ Courteous(s.enabled, s.keypair, Flight["CMD"])
  /\ CanSend("CMD") => Balanced

LEMMA CourteousAppend ==
  ASSUME NEW S, NEW q \in Seq(S), NEW m \in S, NEW on, NEW keypair, Courteous(on, keypair, q),
         Civil(on, keypair, m)
  PROVE  Courteous(on, keypair, Append(q, m))
<1> DEFINE r == Append(q, m)
<1>1. /\ Len(q) \in Nat /\ Len(r) = Len(q) + 1 /\ \A i \in 1..Len(q) : r[i] = q[i]
      /\ r[Len(q) + 1] = m
  BY SeqBasics
<1> HIDE DEF r
<1>2. ASSUME NEW i \in 1..Len(r) PROVE Civil(on, keypair, r[i])
  BY <1>1 DEF Courteous
<1> QED
  BY <1>2 DEF r, Courteous

LEMMA CourteousTail ==
  ASSUME NEW S, NEW q \in Seq(S), q # <<>>, NEW on, NEW keypair, Courteous(on, keypair, q)
  PROVE  Courteous(on, keypair, Tail(q)) /\ Civil(on, keypair, Head(q))
<1> DEFINE t == Tail(q)
           h == Head(q)
<1>1. /\ Len(q) \in Nat \ {0} /\ Len(t) = Len(q) - 1 /\ h = q[1]
      /\ \A i \in 1..Len(q) - 1 : t[i] = q[i + 1]
  BY TailBasics
<1> HIDE DEF t, h
<1>2. Courteous(on, keypair, t) /\ Civil(on, keypair, h)
  BY <1>1 DEF Courteous
<1> QED
  BY <1>2 DEF t, h

LEMMA CourteousCut ==
  ASSUME NEW S, NEW q \in Seq(S), NEW n \in 0..Len(q), NEW on, NEW keypair, Courteous(on, keypair, q)
  PROVE  Courteous(on, keypair, SubSeq(q, 1, n))
<1> DEFINE r == SubSeq(q, 1, n)
<1>1. Len(r) = n /\ Len(q) \in Nat /\ n <= Len(q) /\ n \in Nat /\ \A i \in 1..n : r[i] = q[i]
  BY CutBasics, LenProperties
<1> HIDE DEF r
<1>2. Courteous(on, keypair, r)
  BY <1>1 DEF Courteous
<1> QED
  BY <1>2 DEF r

LEMMA CourteousGrows ==
  ASSUME NEW q, NEW on, NEW later, on => later, NEW keypair, Courteous(on, keypair, q)
  PROVE  Courteous(later, keypair, q)
  BY DEF Courteous, Civil

LEMMA RequestsSame == ASSUME s'.keypair = s.keypair PROVE Requests' = Requests
  BY DEF Requests, Owed

LEMMA RequestsAsk == Requests \subseteq Asking
  BY DEF Requests, Asking, Owed

LEMMA CmdTyped ==
  ASSUME Shape
  PROVE  /\ Flight["CMD"] \in Seq(On("CMD")) /\ Due(Requests, Flight["CMD"]) \in Seq(Text)
         /\ Svcs(out["CMD"]) \in Seq(Text)
<1>1. "CMD" \in Channel /\ out["CMD"] \in Seq(Outbound(s.key, s.keypair))
  BY OutTyped
<1>2. Flight["CMD"] \in Seq(On("CMD"))
  BY <1>1, FlightType
<1>3. Due(Requests, Flight["CMD"]) \in Seq(Text)
  BY <1>2, RequestsAsk, DueType
<1>4. \A m \in Outbound(s.key, s.keypair) : m.svc \in Text
  BY DEF Outbound
<1> QED
  BY <1>1, <1>2, <1>3, <1>4, SvcsText

\* Neither the phone nor what is on its way is concerned.
LEMMA OwingSame ==
  ASSUME Owing, ph'.owed = ph.owed, ph'.window = ph.window, s'.enabled = s.enabled,
         s'.keypair = s.keypair, Flight'["CMD"] = Flight["CMD"], out'["CMD"] = out["CMD"],
         CanSend("CMD")' => CanSend("CMD")
  PROVE  Owing'
<1>1. Requests' = Requests
  BY RequestsSame
<1>2. Balanced => Balanced'
  BY <1>1 DEF Balanced
<1> QED
  BY <1>2 DEF Owing

\* The car sends tx, having taken what stands between F and G.
LEMMA OwingSends ==
  ASSUME Shape, Owing, ph'.owed = ph.owed, ph'.window = ph.window, s'.keypair = s.keypair,
         NEW tx \in Seq(Addressed),
         out' = [c \in Channel |-> IF CanSend(c) THEN out[c] \o Of(tx, c) ELSE out[c]],
         Flight'["CMD"] \in Seq(On("CMD")),
         Where(Due(Requests, Flight["CMD"]), Sure(ph.window))
           = Where(Where(Svcs(tx), Answers), Sure(ph.window))
               \o Where(Due(Requests, Flight'["CMD"]), Sure(ph.window)),
         CanSend("CMD")' => CanSend("CMD")
  PROVE  CanSend("CMD")' => Balanced'
<1> SUFFICES ASSUME CanSend("CMD")' PROVE Balanced'
  OBVIOUS
<1> DEFINE q == out["CMD"]
           o == Of(tx, "CMD")
           z == Svcs(o)
           T == Sure(ph.window)
           d == Due(Requests, Flight["CMD"])
           c == Due(Requests, Flight'["CMD"])
           w == ph.owed
           S == Addressed \cup Outbound(s.key, s.keypair)
<1>1. Balance(w, Svcs(q), d, T) /\ w \in Seq(Text)
  BY DEF Owing, Balanced
<1>2. d \in Seq(Text) /\ Svcs(q) \in Seq(Text) /\ c \in Seq(Text)
  BY CmdTyped, RequestsAsk, DueType
<1>3. z \in Seq(Text) /\ Where(z, T) = Where(Where(Svcs(tx), Answers), T)
  BY SureIs, SureTx
<1>4. out'["CMD"] = q \o o
  BY OutTyped
<1>5. q \in Seq(S) /\ o \in Seq(S)
  <2>1. q \in Seq(Outbound(s.key, s.keypair)) /\ o \in Seq(Addressed)
    BY OutTyped, OfFacts
  <2>2. Outbound(s.key, s.keypair) \subseteq S /\ Addressed \subseteq S
    OBVIOUS
  <2> HIDE DEF q, o, S
  <2> QED
    BY <2>1, <2>2, SeqMonotonic
<1> HIDE DEF q, o, S
<1>6. Svcs(q \o o) = Svcs(q) \o Svcs(o)
  BY <1>5, SvcsConcat
<1>7. Where(d, T) = Where(z, T) \o Where(c, T)
  BY <1>3
<1> HIDE DEF z, T, d, c, w
<1>8. Balance(w, Svcs(q) \o z, c, T)
  BY <1>1, <1>2, <1>3, <1>7, BalanceAnswers
<1>9. Requests' = Requests
  BY RequestsSame
<1> QED
  BY <1>4, <1>6, <1>8, <1>9 DEF Balanced, w, z, T, c


-----------------------------------------------------------------------------
\* Answers: the invariant is kept

\* What is not in the window is read as it was sent, and answered if it is owed an answer.
LEMMA TakenAnswered ==
  ASSUME Ciphered, NEW f \in Wire, f.ch = "CMD", Civil(s.enabled, s.keypair, f),
         Early(f, ph.window) => ~s.enabled, NEW x, NEW g, Round(s, f, g, x)
  PROVE  f.svc \in ph.window \/ (Answered(s, g) <=> f \in Requests)
<1> SUFFICES ASSUME f.svc \notin ph.window PROVE Answered(s, g) <=> f \in Requests
  OBVIOUS
<1>1. s.excludes \subseteq ph.window
  BY DEF Ciphered, Inbound, Windowed
<1>2. g.arg = f.arg
  BY <1>1 DEF Round, Civil, Early
<1>3. g.ch = f.ch /\ g.svc = f.svc
  BY DEF Round
<1>4. f \in Requests <=> Owed(f)
  BY DEF Requests, On
<1>5. Answered(s, g) <=> Owed(f)
  BY <1>2, <1>3 DEF Answered, Owed, Payloads, Civil
<1> QED
  BY <1>4, <1>5

LEMMA TakenSends ==
  ASSUME Shape, Ciphered, NEW f \in Wire, f.ch = "CMD", Civil(s.enabled, s.keypair, f),
         Early(f, ph.window) => ~s.enabled, NEW x, NEW g, Round(s, f, g, x)
  PROVE  Where(Where(Svcs(x.tx), Answers), Sure(ph.window))
           = IF f \in Requests THEN Where(<<AnswerTo[f.svc]>>, Sure(ph.window)) ELSE <<>>
<1> DEFINE T == Sure(ph.window)
           e == AnswerTo[f.svc]
<1>1. Where(Svcs(x.tx), Answers) = IF Answered(s, g) THEN <<e>> ELSE <<>>
  BY DEF Round
<1>2. Where(<<>>, T) = <<>> /\ Where(<<e>>, T) = IF e \in T THEN <<e>> ELSE <<>>
  BY WhereEmpty, WhereOne
<1>3. f.svc \in ph.window \/ (Answered(s, g) <=> f \in Requests)
  BY TakenAnswered
<1>4. f \in Requests => f.svc \in DOMAIN AnswerTo
  BY DEF Requests, Owed
<1>5. Answered(s, g) => f.svc \in DOMAIN AnswerTo
  BY DEF Answered, Round
<1>6. f.svc \in DOMAIN AnswerTo /\ f.svc \in ph.window => e \notin T
  BY SureIs
<1> HIDE DEF T, e
<1>7. Where(Where(Svcs(x.tx), Answers), T) = IF f \in Requests THEN Where(<<e>>, T) ELSE <<>>
  <2>1. CASE Answered(s, g)
    BY <1>1, <1>2, <1>3, <1>5, <1>6, <2>1
  <2>2. CASE ~Answered(s, g)
    BY <1>1, <1>2, <1>3, <1>4, <1>6, <2>2
  <2> QED
    BY <2>1, <2>2
<1> QED
  BY <1>7 DEF T, e

\* What is due for the first message, and what is due for the others.
LEMMA DueTaken ==
  ASSUME NEW q \in Seq(On("CMD")), q # <<>>, NEW T
  PROVE  Where(Due(Requests, q), T)
           = (IF Head(q) \in Requests THEN Where(<<AnswerTo[Head(q).svc]>>, T) ELSE <<>>)
               \o Where(Due(Requests, Tail(q)), T)
<1> DEFINE f == Head(q)
           t == Tail(q)
           e == AnswerTo[f.svc]
           one == <<e>>
           c == Due(Requests, t)
           w == Where(c, T)
<1>1. t \in Seq(On("CMD"))
  BY HeadTailProperties
<1>2. c \in Seq(Text)
  BY <1>1, RequestsAsk, DueType
<1>3. Due(Requests, q) = IF f \in Requests THEN one \o c ELSE c
  BY RequestsAsk, DueHead
<1>4. f \in Requests => one \in Seq(Text)
  BY RequestsAsk, AnsweringMaps
<1> HIDE DEF c
<1>5. w \in Seq(Text)
  BY <1>2, WhereType
<1>6. f \in Requests => Where(one \o c, T) = Where(one, T) \o w
  BY <1>2, <1>4, WhereConcat
<1> HIDE DEF one, f, t, w
<1>7. <<>> \o w = w
  BY <1>5, ConcatEmptySeq
<1>8. Where(Due(Requests, q), T) = (IF f \in Requests THEN Where(one, T) ELSE <<>>) \o w
  BY <1>3, <1>6, <1>7 DEF w
<1> QED
  BY <1>8 DEF one, e, f, t, w, c

\* A round of the loop.
LEMMA TakenDue ==
  ASSUME Shape, Ciphered, Owing, Taking
  PROVE  \E tx \in Seq(Addressed) :
           /\ out' = [c \in Channel |-> IF CanSend(c) THEN out[c] \o Of(tx, c) ELSE out[c]]
           /\ Where(Due(Requests, Flight["CMD"]), Sure(ph.window))
                = Where(Where(Svcs(tx), Answers), Sure(ph.window))
                    \o Where(Due(Requests, Flight'["CMD"]), Sure(ph.window))
<1> DEFINE f == Head(queue)
           q == Flight["CMD"]
           T == Sure(ph.window)
<1>1. /\ f \in Wire /\ Flight[f.ch] # <<>> /\ Head(Flight[f.ch]) = f
      /\ Flight' = [Flight EXCEPT ![f.ch] = Tail(@)]
  BY FlightTaken
<1>2. "CMD" \in Channel /\ DOMAIN Flight = Channel /\ q \in Seq(On("CMD"))
  BY FlightType, TransportAssumption
<1>3. PICK x, g : /\ Round(s, f, g, x)
                  /\ out' = [c \in Channel |-> IF CanSend(c) THEN out[c] \o Of(x.tx, c) ELSE out[c]]
  BY DEF Taking
<1>4. x.tx \in Seq(Addressed)
  BY <1>3, RoundAddressed DEF Shape
<1>5. Where(Due(Requests, q), T) = Where(Where(Svcs(x.tx), Answers), T) \o Where(Due(Requests, Flight'["CMD"]), T)
  <2>1. CASE f.ch = "CMD"
    <3>1. q # <<>> /\ Head(q) = f /\ Flight'["CMD"] = Tail(q)
      BY <1>1, <1>2, <2>1
    <3>2. Civil(s.enabled, s.keypair, f)
      BY <1>2, <3>1, CourteousTail DEF Owing
    <3>3. Early(f, ph.window) => ~s.enabled
      BY <1>2, <3>1, SafeTail DEF Ciphered, Inbound, Decrypts
    <3>4. Where(Where(Svcs(x.tx), Answers), T) = IF f \in Requests THEN Where(<<AnswerTo[f.svc]>>, T) ELSE <<>>
      BY <1>1, <1>3, <2>1, <3>2, <3>3, TakenSends
    <3>5. Where(Due(Requests, q), T)
            = (IF f \in Requests THEN Where(<<AnswerTo[f.svc]>>, T) ELSE <<>>) \o Where(Due(Requests, Tail(q)), T)
      BY <1>2, <3>1, DueTaken
    <3> QED
      BY <3>1, <3>4, <3>5
  <2>2. CASE f.ch # "CMD"
    <3>1. Flight'["CMD"] = q
      BY <1>1, <1>2, <2>2
    <3>2. Where(Svcs(x.tx), Answers) = <<>>
      BY <1>3, <2>2 DEF Round, Answered
    <3>3. Where(<<>>, T) = <<>>
      BY WhereEmpty
    <3>4. Where(Due(Requests, q), T) \in Seq(Text)
      BY CmdTyped, WhereType
    <3>5. <<>> \o Where(Due(Requests, q), T) = Where(Due(Requests, q), T)
      BY <3>4, ConcatEmptySeq
    <3> QED
      BY <3>1, <3>2, <3>3, <3>5
  <2> QED
    BY <2>1, <2>2
<1> QED
  BY <1>3, <1>4, <1>5

LEMMA SendingSame == ASSUME LinkSame, NEW c PROVE CanSend(c)' = CanSend(c)
  BY DEF LinkSame, CanSend, Alive

LEMMA OwingTaken ==
  ASSUME Shape, Ciphered, Owing, Taking, ~Rekeying PROVE Owing'
<1> DEFINE f == Head(queue)
           q == Flight["CMD"]
<1>1. /\ f \in Wire /\ Flight[f.ch] # <<>> /\ Head(Flight[f.ch]) = f
      /\ Flight' = [Flight EXCEPT ![f.ch] = Tail(@)]
  BY FlightTaken
<1>2. "CMD" \in Channel /\ DOMAIN Flight = Channel /\ q \in Seq(On("CMD"))
  BY FlightType, TransportAssumption
<1>3. /\ ph'.owed = ph.owed /\ ph'.window = ph.window /\ s'.keypair = s.keypair
      /\ s.enabled => s'.enabled
  BY DEF Taking, PhoneSame, Round, RoundKept, RoundTurned, RoundDropped, Rekeying
<1>4. Courteous(s.enabled, s.keypair, q)
  BY DEF Owing
<1>5. Flight'["CMD"] \in Seq(On("CMD")) /\ Courteous(s.enabled, s.keypair, Flight'["CMD"])
  <2>1. CASE f.ch = "CMD"
    <3>1. q # <<>> /\ Flight'["CMD"] = Tail(q)
      BY <1>1, <1>2, <2>1
    <3>2. Tail(q) \in Seq(On("CMD")) /\ Courteous(s.enabled, s.keypair, Tail(q))
      BY <1>2, <1>4, <3>1, CourteousTail, HeadTailProperties
    <3> QED
      BY <3>1, <3>2
  <2>2. CASE f.ch # "CMD"
    BY <1>1, <1>2, <1>4, <2>2
  <2> QED
    BY <2>1, <2>2
<1>6. Courteous(s'.enabled, s'.keypair, Flight'["CMD"])
  BY <1>3, <1>5, CourteousGrows
<1>7. PICK tx \in Seq(Addressed) :
           /\ out' = [c \in Channel |-> IF CanSend(c) THEN out[c] \o Of(tx, c) ELSE out[c]]
           /\ Where(Due(Requests, Flight["CMD"]), Sure(ph.window))
                = Where(Where(Svcs(tx), Answers), Sure(ph.window))
                    \o Where(Due(Requests, Flight'["CMD"]), Sure(ph.window))
  BY TakenDue
<1>8. CanSend("CMD")' => CanSend("CMD")
  BY SendingSame DEF Taking
<1>9. CanSend("CMD")' => Balanced'
  BY <1>3, <1>5, <1>7, <1>8, OwingSends
<1> QED
  BY <1>3, <1>6, <1>9 DEF Owing


\* Messages of the car that answer nothing.
LEMMA OwingPosting == ASSUME Shape, Owing, Posting PROVE Owing'
<1> DEFINE T == Sure(ph.window)
           q == Flight["CMD"]
           w == Where(Due(Requests, q), T)
<1>1. /\ ph'.owed = ph.owed /\ ph'.window = ph.window /\ s'.keypair = s.keypair
      /\ s'.enabled = s.enabled
  BY DEF Posting, PhoneSame, Settled, Same
<1>2. Flight' = Flight
  BY FlightSame DEF Posting
<1>3. PICK tx \in Seq(Posted(s.enabled, s.key, s.keypair)) :
       /\ Where(Svcs(tx), Answers) = <<>>
       /\ out' = [c \in Channel |-> IF CanSend(c) THEN out[c] \o Of(tx, c) ELSE out[c]]
  BY DEF Posting
<1>4. tx \in Seq(Addressed)
  BY PostedAddressed, SeqMonotonic
<1>5. CanSend("CMD")' => CanSend("CMD")
  BY SendingSame DEF Posting
<1>6. q \in Seq(On("CMD")) /\ w \in Seq(Text)
  BY CmdTyped, WhereType
<1>7. Where(<<>>, T) = <<>> /\ <<>> \o w = w
  BY <1>6, WhereEmpty, ConcatEmptySeq
<1>8. w = Where(Where(Svcs(tx), Answers), T) \o Where(Due(Requests, Flight'["CMD"]), T)
  BY <1>2, <1>3, <1>7
<1>9. Flight'["CMD"] \in Seq(On("CMD"))
  BY <1>2, <1>6
<1>10. CanSend("CMD")' => Balanced'
  BY <1>1, <1>3, <1>4, <1>5, <1>8, <1>9, OwingSends
<1> QED
  BY <1>1, <1>2, <1>10 DEF Owing

\* Nothing of the phone and of the commands changes, but the channel may.
LEMMA OwingQuiet ==
  ASSUME Shape, Owing, Idle \/ Beating \/ \E c \in Channel : Reading(c)
  PROVE  Owing'
<1>1. "CMD" \in Channel /\ DOMAIN out = Channel
  BY OutTyped
<1>2. CASE Idle
  <2>1. Flight' = Flight
    BY <1>2, FlightSame DEF Idle
  <2>2. CanSend("CMD")' => CanSend("CMD")
    BY <1>1, <1>2 DEF Idle, CanSend, Alive
  <2> QED
    BY <1>2, <2>1, <2>2, OwingSame DEF Idle, PhoneSame, Settled, Same
<1>3. CASE Beating
  <2>1. Flight' = Flight
    BY <1>3, FlightSame DEF Beating
  <2>2. CanSend("CMD")' => CanSend("CMD")
    BY <1>3, SendingSame DEF Beating
  <2>3. out'["CMD"] = out["CMD"]
    BY <1>1, <1>3 DEF Beating
  <2> QED
    BY <1>3, <2>1, <2>2, <2>3, OwingSame DEF Beating, PhoneSame, Settled, Same
<1>4. ASSUME NEW c \in Channel, Reading(c) PROVE Owing'
  <2>1. Flight' = Flight
    BY <1>4, FlightRead
  <2>2. CanSend("CMD")' => CanSend("CMD")
    BY <1>4, SendingSame DEF Reading
  <2> QED
    BY <1>4, <2>1, <2>2, OwingSame DEF Reading
<1> QED
  BY <1>2, <1>3, <1>4

\* A reader that ends may drop requests, and no one can send on its channel.
LEMMA OwingEnds ==
  ASSUME Shape, Owing, NEW c \in Channel, Ending(c) PROVE Owing'
<1>1. UNCHANGED <<s, ph, out>> /\ (closed => closed') /\ reader' = [reader EXCEPT ![c] = "end"]
  BY DEF Ending
<1>2. DOMAIN reader = Channel /\ "CMD" \in Channel /\ DOMAIN Flight = Channel
  BY OutTyped, FlightType DEF Shape, LinkShape
<1>3. PICK n \in 0..Len(Flight[c]) : Flight' = [Flight EXCEPT ![c] = SubSeq(@, 1, n)]
  BY FlightEnds
<1>4. CASE c = "CMD"
  <2>1. ~CanSend("CMD")'
    BY <1>1, <1>2, <1>4 DEF CanSend, Alive
  <2>2. Flight["CMD"] \in Seq(On("CMD")) /\ Flight'["CMD"] = SubSeq(Flight["CMD"], 1, n)
    BY <1>2, <1>3, <1>4, FlightType
  <2>3. Courteous(s.enabled, s.keypair, Flight'["CMD"])
    BY <1>4, <2>2, CourteousCut DEF Owing
  <2> QED
    BY <1>1, <2>1, <2>3 DEF Owing
<1>5. CASE c # "CMD"
  <2>1. Flight'["CMD"] = Flight["CMD"]
    BY <1>2, <1>3, <1>5
  <2>2. CanSend("CMD")' => CanSend("CMD")
    BY <1>1, <1>2, <1>5 DEF CanSend, Alive
  <2> QED
    BY <1>1, <2>1, <2>2, OwingSame
<1> QED
  BY <1>4, <1>5

\* What the phone says on the command channel is civil.
Polite(p, m) ==
  /\ m.svc = "MD_AUTH_RESPONSE" => m.arg \in {"good", "wrong", "bad"}
  /\ m.svc = "MD_AES_KEY_SEND_REQUEST" => s.keypair /\ m.arg \in {"ok", "bad"}
  /\ p.encrypts => s.enabled

\* A message that is said, and perhaps owed its answer.
LEMMA OwingSpoken ==
  ASSUME Shape, UNCHANGED <<s, queue>>, LinkSame, NEW p, p.encrypts \in BOOLEAN,
         p.window = ph.window, p.owed \in Seq(Text),
         Courteous(s.enabled, s.keypair, Flight["CMD"]),
         NEW o \in Seq(Text), Svcs(out'["CMD"]) = o,
         CanSend("CMD") => Balance(p.owed, o, Due(Requests, Flight["CMD"]), Sure(p.window)),
         NEW m, NEW n, Spoke(p, m, n), Polite(p, m)
  PROVE  Owing'
<1> DEFINE F == Flight["CMD"]
           G == Flight'["CMD"]
           d == Due(Requests, F)
           e == Due(Requests, G)
           x == AnswerTo[m.svc]
           w == p.owed
           v == ph'.owed
           T == Sure(p.window)
           U == Sure(ph'.window)
<1>1. m.ch \in Channel /\ Flight' = [Flight EXCEPT ![m.ch] = Append(@, n)] /\ n \in On(m.ch)
  <2>1. queue' = queue
    OBVIOUS
  <2>2. m.ch \in Channel /\ Flight' = [Flight EXCEPT ![m.ch] = Append(@, n)]
    BY <2>1, FlightSpoken
  <2> QED
    BY <2>2 DEF Spoke
<1>2. n.svc = m.svc /\ n.arg = m.arg /\ n.enc = (p.encrypts /\ m.arg # "none") /\ n.ch = m.ch
  BY DEF Spoke, On
<1>3. "CMD" \in Channel /\ DOMAIN Flight = Channel /\ F \in Seq(On("CMD")) /\ d \in Seq(Text)
  BY FlightType, TransportAssumption, CmdTyped
<1>4. G = IF m.ch = "CMD" THEN Append(F, n) ELSE F
  BY <1>1, <1>3
<1>5. Courteous(s.enabled, s.keypair, G)
  <2>1. Civil(s.enabled, s.keypair, n)
    BY <1>2 DEF Civil, Polite
  <2>2. m.ch = "CMD" => n \in On("CMD")
    BY <1>1
  <2>3. m.ch = "CMD" => Courteous(s.enabled, s.keypair, Append(F, n))
    BY <1>3, <2>1, <2>2, CourteousAppend
  <2> QED
    BY <1>4, <2>3
<1>6. n \in Requests <=> Owed(m)
  BY <1>1, <1>2 DEF Requests, Owed, On
<1>7. v = IF Owed(m) THEN Append(w, x) ELSE w
  BY DEF Spoke
<1>8. Owed(m) => m.ch = "CMD" /\ x \in Text
  BY <1>6, RequestsAsk, AnsweringMaps, <1>2 DEF Owed
<1>9. e = IF Owed(m) THEN Append(d, x) ELSE d
  <2>1. CASE m.ch = "CMD"
    <3>1. n \in On("CMD")
      BY <1>1, <2>1
    <3>2. Due(Requests, Append(F, n)) = IF n \in Requests THEN Append(d, AnswerTo[n.svc]) ELSE d
      BY <1>3, <3>1, RequestsAsk, DueAppend
    <3> QED
      BY <1>2, <1>4, <1>6, <2>1, <3>2
  <2>2. CASE m.ch # "CMD"
    BY <1>4, <1>8, <2>2
  <2> QED
    BY <2>1, <2>2
<1>10. U \subseteq T
  <2>1. p.window \subseteq ph'.window
    BY DEF Spoke
  <2> QED
    BY <2>1, SureIs
<1>11. Requests' = Requests
  BY RequestsSame
<1>12. CanSend("CMD")' => CanSend("CMD")
  BY SendingSame
<1> HIDE DEF F, G, d, e, x, w, v, T, U
<1>13. v \in Seq(Text) /\ e \in Seq(Text)
  <2>1. w \in Seq(Text)
    BY DEF w
  <2>2. Owed(m) => Append(w, x) \in Seq(Text) /\ Append(d, x) \in Seq(Text)
    BY <1>3, <1>8, <2>1, AppendProperties
  <2> QED
    BY <1>3, <1>7, <1>9, <2>1, <2>2
<1>14. Balance(w, o, d, T) => Balance(v, o, e, T)
  <2>1. w \in Seq(Text)
    BY DEF w
  <2>2. CASE Owed(m)
    BY <1>3, <1>7, <1>8, <1>9, <2>1, <2>2, BalanceAsks
  <2>3. CASE ~Owed(m)
    BY <1>7, <1>9, <2>3
  <2> QED
    BY <2>2, <2>3
<1>15. Balance(v, o, e, T) => Balance(v, o, e, U)
  BY <1>10, <1>13, BalanceShrinks
<1>16. CanSend("CMD") => Balance(w, o, d, T)
  BY DEF w, d, T, F
<1>17. CanSend("CMD")' => Balance(v, o, e, U)
  BY <1>12, <1>14, <1>15, <1>16
<1>18. CanSend("CMD")' => Balanced'
  BY <1>11, <1>17 DEF Balanced, v, e, U, G
<1>19. ph'.owed \in Seq(Text) /\ Courteous(s'.enabled, s'.keypair, Flight'["CMD"])
  BY <1>5, <1>13 DEF v, G
<1> QED
  BY <1>18, <1>19 DEF Owing

\* Services, from the front.
LEMMA SvcsTail ==
  ASSUME NEW S, NEW q \in Seq(S), q # <<>>
  PROVE  Svcs(q) # <<>> /\ Head(Svcs(q)) = Head(q).svc /\ Tail(Svcs(q)) = Svcs(Tail(q))
<1> DEFINE h == Head(q)
           t == Tail(q)
           V == {m.svc : m \in S}
           one == <<h>>
<1>1. q = one \o t /\ h \in S /\ t \in Seq(S) /\ one \in Seq(S)
  BY HeadAndTail
<1>2. Svcs(one \o t) = Svcs(one) \o Svcs(t) /\ Svcs(one) = <<h.svc>>
  BY <1>1, SvcsConcat, SvcsOfTwo
<1>3. Svcs(t) \in Seq(V) /\ h.svc \in V
  BY <1>1, SvcsType
<1> HIDE DEF V, h, t, one
<1> DEFINE u == Svcs(t)
           e == h.svc
<1>4. Svcs(q) = <<e>> \o u /\ u \in Seq(V) /\ e \in V
  BY <1>1, <1>2, <1>3
<1> HIDE DEF u, e
<1>5. <<e>> \o u # <<>> /\ Head(<<e>> \o u) = e /\ Tail(<<e>> \o u) = u
  BY <1>4
<1> QED
  BY <1>4, <1>5 DEF u, e, h, t

\* The phone has read the first of the commands.
LEMMA HasReadIs ==
  ASSUME Shape, Ciphered, Owing, out["CMD"] # <<>>, out' = [out EXCEPT !["CMD"] = Tail(@)],
         NEW p, HasRead(Head(out["CMD"]), p)
  PROVE  /\ p.owed \in Seq(Text) /\ p.encrypts \in BOOLEAN /\ (p.encrypts => s.enabled)
         /\ Svcs(out'["CMD"]) \in Seq(Text)
         /\ CanSend("CMD") =>
              Balance(p.owed, Svcs(out'["CMD"]), Due(Requests, Flight["CMD"]), Sure(p.window))
<1> DEFINE q == out["CMD"]
           o == Svcs(q)
           w == ph.owed
           d == Due(Requests, Flight["CMD"])
           T == Sure(ph.window)
<1>1. "CMD" \in Channel /\ DOMAIN out = Channel /\ q \in Seq(Outbound(s.key, s.keypair))
  BY OutTyped
<1>2. out'["CMD"] = Tail(q)
  BY <1>1
<1>3. o # <<>> /\ Head(o) = Head(q).svc /\ Tail(o) = Svcs(Tail(q))
  BY <1>1, SvcsTail
<1>4. o \in Seq(Text) /\ d \in Seq(Text)
  BY CmdTyped
<1>5. p.owed = RemoveFirst(w, Head(o)) /\ p.window = ph.window
  BY <1>3 DEF HasRead
<1>6. p.encrypts \in BOOLEAN /\ (p.encrypts => s.enabled)
  <2>1. DoneIn(q) <=> Head(q).svc = "MD_ENCRYPT_READY_DONE" \/ DoneIn(Tail(q))
    BY <1>1, DoneTail
  <2>2. ph.encrypts \in BOOLEAN /\ p.encrypts = (ph.encrypts \/ Head(q).svc = "MD_ENCRYPT_READY_DONE")
    BY OutTyped DEF HasRead
  <2>3. ph.encrypts \/ DoneIn(q) => s.enabled
    BY DEF Ciphered, Encrypts
  <2> QED
    BY <2>1, <2>2, <2>3
<1>7. w \in Seq(Text) /\ (CanSend("CMD") => Balance(w, o, d, T))
  BY DEF Owing, Balanced
<1>8. Head(o) \in Text /\ Tail(o) \in Seq(Text)
  BY <1>3, <1>4, HeadTailProperties
<1> HIDE DEF o, w, d, T
<1>9. RemoveFirst(w, Head(o)) \in Seq(Text)
  BY <1>7, <1>8, WhereRemoved
<1>10. Balance(w, o, d, T) => Balance(RemoveFirst(w, Head(o)), Tail(o), d, T)
  BY <1>3, <1>4, <1>7, BalanceReads
<1>11. Tail(o) = Svcs(out'["CMD"])
  BY <1>2, <1>3
<1> QED
  BY <1>5, <1>6, <1>7, <1>8, <1>9, <1>10, <1>11 DEF d, T


LEMMA OwingReads == ASSUME Shape, Ciphered, Owing, PhoneReads PROVE Owing'
<1> DEFINE m == Head(out["CMD"])
           o == Svcs(out'["CMD"])
<1>1. /\ out["CMD"] # <<>> /\ out' = [out EXCEPT !["CMD"] = Tail(@)]
      /\ UNCHANGED <<s, queue, heard>> /\ LinkSame
      /\ m \in Outbound(s.key, s.keypair)
  BY PhoneReadsIs
<1>2. PICK p : HasRead(m, p) /\ (KeptQuiet(p) \/ \E r : Reply(m, r) /\ HasSpoken(p, r))
  BY PhoneReadsIs
<1>3. /\ p.owed \in Seq(Text) /\ p.encrypts \in BOOLEAN /\ (p.encrypts => s.enabled)
      /\ o \in Seq(Text)
      /\ CanSend("CMD") => Balance(p.owed, o, Due(Requests, Flight["CMD"]), Sure(p.window))
  BY <1>1, <1>2, HasReadIs
<1>4. Courteous(s.enabled, s.keypair, Flight["CMD"]) /\ p.window = ph.window
  BY <1>2 DEF Owing, HasRead
<1>5. s' = s /\ queue' = queue
  BY <1>1
<1>6. CASE KeptQuiet(p)
  <2>1. Flight' = Flight
    BY <1>5, <1>6, FlightSame DEF KeptQuiet
  <2>2. Requests' = Requests /\ (CanSend("CMD")' => CanSend("CMD"))
    BY <1>1, <1>5, RequestsSame, SendingSame
  <2>3. ph'.owed = p.owed /\ ph'.window = p.window
    BY <1>6 DEF KeptQuiet
  <2> HIDE DEF m, o
  <2>4. CanSend("CMD")' => Balance(ph'.owed, o, Due(Requests', Flight'["CMD"]), Sure(ph'.window))
    BY <1>3, <2>1, <2>2, <2>3
  <2> QED
    BY <1>3, <1>4, <1>5, <2>1, <2>3, <2>4 DEF Owing, Balanced, o
<1>7. ASSUME NEW r, Reply(m, r), HasSpoken(p, r) PROVE Owing'
  <2>1. PICK n : Spoke(p, r, n)
    BY <1>7 DEF HasSpoken
  <2>2. r.svc = "MD_AES_KEY_SEND_REQUEST" => s.keypair /\ r.arg \in {"ok", "bad"}
    BY <1>1, <1>7 DEF Reply, Outbound
  <2>3. Polite(p, r)
    BY <1>3, <1>7, <2>2 DEF Polite, Reply
  <2> HIDE DEF m, o
  <2>4. LinkSame
    BY <1>1
  <2>5. Svcs(out'["CMD"]) = o
    BY DEF o
  <2> QED
    BY <1>3, <1>4, <1>5, <2>1, <2>3, <2>4, <2>5, OwingSpoken
<1> QED
  BY <1>2, <1>6, <1>7

LEMMA OwingSays == ASSUME Shape, Ciphered, Owing, PhoneSays PROVE Owing'
<1> DEFINE o == Svcs(out["CMD"])
<1>1. UNCHANGED <<s, queue, heard, out>> /\ LinkSame
  BY PhoneSaysIs
<1>2. PICK p, m : Wishing(p, m)
  BY PhoneSaysIs
<1>3. PICK n : Spoke(p, m, n)
  BY <1>2 DEF Wishing, HasSpoken
<1>4. p.window = ph.window /\ p.encrypts = ph.encrypts /\ p.owed = ph.owed /\ m \in Wishes
  BY <1>2 DEF Wishing
<1>5. ph.encrypts \in BOOLEAN /\ (ph.encrypts => s.enabled)
  BY OutTyped DEF Ciphered, Encrypts
<1>6. Polite(p, m)
  BY <1>4, <1>5, WishesAre DEF Polite, Handshake
<1>7. o \in Seq(Text) /\ Svcs(out'["CMD"]) = o
  BY <1>1, CmdTyped
<1>8. Courteous(s.enabled, s.keypair, Flight["CMD"]) /\ p.owed \in Seq(Text)
  BY <1>4 DEF Owing
<1>9. CanSend("CMD") => Balance(p.owed, o, Due(Requests, Flight["CMD"]), Sure(p.window))
  BY <1>4 DEF Owing, Balanced
<1>10. s' = s /\ queue' = queue /\ LinkSame
  BY <1>1
<1>11. p.encrypts \in BOOLEAN
  BY <1>4, <1>5
<1> HIDE DEF o
<1> QED
  BY <1>3, <1>4, <1>6, <1>7, <1>8, <1>9, <1>10, <1>11, OwingSpoken

\* The invariant is kept by every step.
LEMMA OwingStep ==
  ASSUME Shape, Ciphered, Owing, [Next]_vars, Taking => ~Rekeying PROVE Owing'
<1>1. CASE UNCHANGED vars
  <2>1. UNCHANGED <<net, queue, out, s, ph, reader, closed>>
    BY <1>1 DEF vars, transportVars, sessionVars
  <2>2. CanSend("CMD")' => CanSend("CMD")
    BY <2>1 DEF CanSend, Alive
  <2> QED
    BY <2>1, <2>2, FlightSame, OwingSame
<1>2. CASE Next
  <2>1. Steps
    BY <1>2, NextIs
  <2>2. CASE Idle \/ Beating \/ \E c \in Channel : Reading(c)
    BY <2>2, OwingQuiet
  <2>3. CASE Posting
    BY <2>3, OwingPosting
  <2>4. CASE Taking
    BY <2>4, OwingTaken
  <2>5. CASE \E c \in Channel : Ending(c)
    BY <2>5, OwingEnds
  <2>6. CASE PhoneReads
    BY <2>6, OwingReads
  <2>7. CASE PhoneSays
    BY <2>7, OwingSays
  <2> QED
    BY <2>1, <2>2, <2>3, <2>4, <2>5, <2>6, <2>7 DEF Steps
<1> QED
  BY <1>1, <1>2

LEMMA InitOwing == ASSUME Init PROVE Owing
<1>1. /\ net = [c \in Channel |-> <<>>] /\ queue = <<>> /\ out = [c \in Channel |-> <<>>]
      /\ ph.owed = <<>>
  BY DEF Init, TransportInit, SessionInit
<1>2. Flight["CMD"] = <<>> /\ out["CMD"] = <<>>
  <2>1. \A c : Of(<<>>, c) = <<>>
    BY OfFacts
  <2> QED
    BY <1>1, <2>1, TransportAssumption DEF Flight
<1>3. Courteous(s.enabled, s.keypair, Flight["CMD"])
  BY <1>2 DEF Courteous
<1>4. Due(Requests, <<>>) = <<>>
  <2>1. Where(<<>>, Requests) = <<>>
    BY WhereEmpty
  <2>2. Through(Answering, <<>>) = <<>>
    BY DEF Through
  <2> QED
    BY <2>1, <2>2 DEF Due
<1>5. Balanced
  <2>1. Svcs(<<>>) = <<>>
    BY SvcsOfTwo
  <2>2. Where(<<>>, Sure(ph.window)) = <<>>
    BY WhereEmpty
  <2>3. <<>> \o <<>> = <<>>
    OBVIOUS
  <2> QED
    BY <1>1, <1>2, <1>4, <2>1, <2>2, <2>3 DEF Balanced, Balance
<1> QED
  BY <1>1, <1>3, <1>5 DEF Owing

\* The invariant is enough.
LEMMA OwingMeans == ASSUME Shape, ~ph.again => Owing PROVE NoLostAnswer
<1> DEFINE F == Of(queue, "CMD") \o net["CMD"]
           k == {m \in Range(F) : Owed(m)}
           requests == Where(F, k)
           answers == Svcs(out["CMD"])
           due == [i \in DOMAIN requests |-> AnswerTo[requests[i].svc]]
           T == Sure(ph.window)
<1> SUFFICES ASSUME Alive("CMD"), ~closed, ~ph.again
             PROVE  Where(ph.owed, T) = Where(answers \o due, T)
  BY DEF NoLostAnswer, Svcs, Sure
<1>1. "CMD" \in Channel /\ F = Flight["CMD"] /\ F \in Seq(On("CMD"))
  BY FlightType, TransportAssumption
<1>2. answers \in Seq(Text) /\ Due(Requests, F) \in Seq(Text)
  BY <1>1, CmdTyped
<1>3. Balanced
  BY <1>1 DEF Owing, CanSend
<1>4. requests = Where(F, Requests)
  <2>1. \A m \in Range(F) : m \in k <=> m \in Requests
    BY <1>1, RangeIn DEF Requests
  <2> HIDE DEF F, k
  <2> QED
    BY <1>1, <2>1, WhereAgrees
<1>5. due = Due(Requests, F)
  <2>1. requests \in Seq(Asking)
    BY <1>1, <1>4, RequestsAsk, DueType
  <2> HIDE DEF requests
  <2>2. \A i \in DOMAIN requests : requests[i] \in Asking
    BY <2>1, ElementOfSeq, LenProperties
  <2>3. due = Through(Answering, requests)
    BY <2>1, <2>2, AnsweringMaps DEF Through
  <2> QED
    BY <1>4, <2>3 DEF Due
<1> HIDE DEF F, k, requests, answers, due, T
<1>6. Where(answers \o due, T) = Where(answers, T) \o Where(due, T)
  BY <1>2, <1>5, WhereConcat
<1> QED
  BY <1>1, <1>3, <1>5, <1>6 DEF Balanced, Balance, answers, T

-----------------------------------------------------------------------------
\* The exchange of keys

\* How many messages of q have a service of K.
Named(q, K) == Len(Where(Svcs(q), K))

LEMMA NamedIs ==
  ASSUME NEW S, NEW q \in Seq(S), NEW K
  PROVE  /\ Named(q, K) \in Nat /\ Named(<<>>, K) = 0
         /\ \A m \in S : Named(Append(q, m), K) = Named(q, K) + (IF m.svc \in K THEN 1 ELSE 0)
<1> DEFINE V == {m.svc : m \in S}
           u == Svcs(q)
<1>1. u \in Seq(V) /\ \A m \in S : m.svc \in V
  BY SvcsType
<1>2. Where(<<>>, K) = <<>> /\ Svcs(<<>>) = <<>>
  BY WhereEmpty, SvcsOfTwo
<1> HIDE DEF V, u
<1>3. Where(u, K) \in Seq(V) /\ Len(Where(u, K)) \in Nat
  BY <1>1, WhereType, LenProperties
<1>4. ASSUME NEW m \in S
      PROVE  Named(Append(q, m), K) = Named(q, K) + (IF m.svc \in K THEN 1 ELSE 0)
  <2> DEFINE v == m.svc
  <2>1. Svcs(Append(q, m)) = Append(u, v)
    BY SvcsAppend DEF u
  <2>2. v \in V
    BY <1>1
  <2> HIDE DEF v
  <2>3. Where(Append(u, v), K) = IF v \in K THEN Append(Where(u, K), v) ELSE Where(u, K)
    BY <1>1, <2>2, WhereAppend
  <2>4. Len(Append(Where(u, K), v)) = Len(Where(u, K)) + 1
    BY <1>3, <2>2, AppendProperties
  <2> QED
    BY <1>3, <2>1, <2>3, <2>4 DEF Named, u, v
<1> QED
  BY <1>2, <1>3, <1>4 DEF Named, u

LEMMA NamedConcat ==
  ASSUME NEW S, NEW q \in Seq(S), NEW r \in Seq(S), NEW K
  PROVE  Named(q \o r, K) = Named(q, K) + Named(r, K)
<1> DEFINE V == {m.svc : m \in S}
           u == Svcs(q)
           v == Svcs(r)
<1>1. u \in Seq(V) /\ v \in Seq(V) /\ Svcs(q \o r) = u \o v
  BY SvcsType, SvcsConcat
<1> HIDE DEF V, u, v
<1>2. Where(u \o v, K) = Where(u, K) \o Where(v, K)
  BY <1>1, WhereConcat
<1>3. Where(u, K) \in Seq(V) /\ Where(v, K) \in Seq(V)
  BY <1>1, WhereType
<1>4. Len(Where(u, K) \o Where(v, K)) = Len(Where(u, K)) + Len(Where(v, K))
  BY <1>3, ConcatProperties
<1> QED
  BY <1>1, <1>2, <1>4 DEF Named, u, v

LEMMA NamedHead ==
  ASSUME NEW S, NEW q \in Seq(S), q # <<>>, NEW K
  PROVE  Named(q, K) = Named(Tail(q), K) + (IF Head(q).svc \in K THEN 1 ELSE 0)
<1>1. /\ q = <<Head(q)>> \o Tail(q) /\ Head(q) \in S /\ Tail(q) \in Seq(S)
      /\ <<Head(q)>> \in Seq(S)
  BY HeadAndTail
<1>2. Named(q, K) = Named(<<Head(q)>>, K) + Named(Tail(q), K)
  BY <1>1, NamedConcat
<1>3. Named(<<Head(q)>>, K) = IF Head(q).svc \in K THEN 1 ELSE 0
  <2>1. Svcs(<<Head(q)>>) = <<Head(q).svc>>
    BY SvcsOfTwo
  <2>2. Where(<<Head(q).svc>>, K) = IF Head(q).svc \in K THEN <<Head(q).svc>> ELSE <<>>
    BY WhereOne
  <2>3. Len(<<Head(q).svc>>) = 1 /\ Len(<<>>) = 0
    OBVIOUS
  <2> QED
    BY <2>1, <2>2, <2>3, Zenon DEF Named
<1>4. Named(Tail(q), K) \in Nat
  BY <1>1, NamedIs
<1> QED
  BY <1>2, <1>3, <1>4

\* One message at a time carries the exchange of keys on, and none does before it
\* is asked for or once the cipher is on.
KeyAsks == KeyRequests \cup {"MD_ENCRYPT_READY"}
KeyAnswers == {"HU_RSA_PUBLIC_KEY_RESPONSE", "HU_AES_REC_RESPONSE"}
KeysAsked == Named(Flight["CMD"], KeyAsks)
KeysTold == Named(out["CMD"], KeyAnswers)
Token ==
  /\ KeysAsked + KeysTold <= 1
  /\ s.enabled \/ ~ph.asked => KeysAsked + KeysTold = 0
  /\ ~ph.asked => ~s.enabled

LEMMA KeysAre ==
  ASSUME Shape
  PROVE  /\ KeysAsked \in Nat /\ KeysTold \in Nat /\ ph.asked \in BOOLEAN /\ ph.again \in BOOLEAN
         /\ s.enabled \in BOOLEAN
<1>1. Flight["CMD"] \in Seq(On("CMD")) /\ out["CMD"] \in Seq(Outbound(s.key, s.keypair))
  BY CmdTyped, OutTyped
<1>2. KeysAsked \in Nat /\ KeysTold \in Nat
  BY <1>1, NamedIs DEF KeysAsked, KeysTold
<1> QED
  BY <1>2, OutTyped DEF Shape, PhoneShape

\* The numbers do not grow, no cipher is switched on, and the phone has not asked.
LEMMA TokenKept ==
  ASSUME Shape, Token, s'.enabled => s.enabled, ph'.asked = ph.asked,
         KeysAsked' \in Nat, KeysTold' \in Nat, KeysAsked' + KeysTold' <= KeysAsked + KeysTold
  PROVE  Token'
<1>1. KeysAsked \in Nat /\ KeysTold \in Nat
  BY KeysAre
<1>2. KeysAsked + KeysTold <= 1 /\ (s.enabled \/ ~ph.asked => KeysAsked + KeysTold = 0)
  BY DEF Token
<1> DEFINE a == KeysAsked
           b == KeysTold
           c == KeysAsked'
           d == KeysTold'
<1>3. /\ a \in Nat /\ b \in Nat /\ c \in Nat /\ d \in Nat /\ c + d <= a + b
      /\ a + b <= 1
  BY <1>1, <1>2
<1> HIDE DEF a, b, c, d
<1>4. c + d <= 1 /\ (a + b = 0 => c + d = 0)
  BY <1>3
<1>5. /\ KeysAsked' + KeysTold' <= 1
      /\ KeysAsked + KeysTold = 0 => KeysAsked' + KeysTold' = 0
  BY <1>4 DEF a, b, c, d
<1>6. s'.enabled \/ ~ph'.asked => KeysAsked' + KeysTold' = 0
  BY <1>2, <1>5
<1>7. ~ph'.asked => ~s'.enabled
  BY DEF Token
<1> QED
  BY <1>5, <1>6, <1>7 DEF Token

\* What the car sends, by what it answers.
LEMMA ToldSends ==
  ASSUME Shape, NEW tx \in Seq(Addressed),
         out' = [c \in Channel |-> IF CanSend(c) THEN out[c] \o Of(tx, c) ELSE out[c]],
         NEW n \in Nat, Len(Where(Where(Svcs(tx), Answers), KeyAnswers)) = n
  PROVE  KeysTold' = IF CanSend("CMD") THEN KeysTold + n ELSE KeysTold
<1> DEFINE q == out["CMD"]
           o == Of(tx, "CMD")
           S == Addressed \cup Outbound(s.key, s.keypair)
<1>1. out'["CMD"] = IF CanSend("CMD") THEN q \o o ELSE q
  BY OutTyped
<1>2. q \in Seq(S) /\ o \in Seq(S)
  <2>1. q \in Seq(Outbound(s.key, s.keypair)) /\ o \in Seq(Addressed)
    BY OutTyped, OfFacts
  <2>2. Outbound(s.key, s.keypair) \subseteq S /\ Addressed \subseteq S
    OBVIOUS
  <2> HIDE DEF q, o, S
  <2> QED
    BY <2>1, <2>2, SeqMonotonic
<1>3. Named(o, KeyAnswers) = n
  <2>1. KeyAnswers \subseteq Answers
    BY AnswersAre DEF KeyAnswers
  <2>2. Where(Svcs(o), KeyAnswers) = Where(Where(Svcs(tx), Answers), KeyAnswers)
    BY <2>1, SureTx
  <2> QED
    BY <2>2 DEF Named
<1> HIDE DEF q, o, S
<1>4. Named(q \o o, KeyAnswers) = Named(q, KeyAnswers) + n
  BY <1>2, <1>3, NamedConcat
<1>5. KeysTold = Named(q, KeyAnswers) /\ KeysTold' = Named(out'["CMD"], KeyAnswers)
  BY DEF KeysTold, q
<1> QED
  BY <1>1, <1>4, <1>5

\* Steps in which the phone says nothing and the car takes no message.
LEMMA TokenQuiet ==
  ASSUME Shape, Token, Idle \/ Posting \/ Beating \/ \E c \in Channel : Reading(c) \/ Ending(c)
  PROVE  Token'
<1>1. CASE Idle \/ Beating
  <2>1. s'.enabled = s.enabled /\ ph'.asked = ph.asked /\ Flight' = Flight /\ out'["CMD"] = out["CMD"]
    BY <1>1, FlightSame, OutTyped DEF Idle, Beating, Settled, Same, PhoneSame
  <2>2. KeysAsked' = KeysAsked /\ KeysTold' = KeysTold
    BY <2>1 DEF KeysAsked, KeysTold
  <2> QED
    BY <2>1, <2>2, KeysAre, TokenKept
<1>2. CASE Posting
  <2>1. s'.enabled = s.enabled /\ ph'.asked = ph.asked /\ Flight' = Flight
    BY <1>2, FlightSame DEF Posting, Settled, Same, PhoneSame
  <2>2. PICK tx \in Seq(Posted(s.enabled, s.key, s.keypair)) :
          /\ Where(Svcs(tx), Answers) = <<>>
          /\ out' = [c \in Channel |-> IF CanSend(c) THEN out[c] \o Of(tx, c) ELSE out[c]]
    BY <1>2 DEF Posting
  <2>3. tx \in Seq(Addressed)
    BY PostedAddressed, SeqMonotonic
  <2>4. Len(Where(Where(Svcs(tx), Answers), KeyAnswers)) = 0
    BY <2>2, WhereEmpty
  <2>5. KeysTold' = KeysTold
    BY <2>2, <2>3, <2>4, ToldSends, KeysAre
  <2>6. KeysAsked' = KeysAsked
    BY <2>1 DEF KeysAsked
  <2> QED
    BY <2>1, <2>5, <2>6, KeysAre, TokenKept
<1>3. ASSUME NEW c \in Channel, Reading(c) PROVE Token'
  <2>1. s' = s /\ ph' = ph /\ Flight' = Flight /\ out' = out
    BY <1>3, FlightRead DEF Reading
  <2>2. KeysAsked' = KeysAsked /\ KeysTold' = KeysTold
    BY <2>1 DEF KeysAsked, KeysTold
  <2> QED
    BY <2>1, <2>2, KeysAre, TokenKept
<1>4. ASSUME NEW c \in Channel, Ending(c) PROVE Token'
  <2> DEFINE o == Of(queue, "CMD")
             q == Flight["CMD"]
  <2>1. s' = s /\ ph' = ph /\ out' = out /\ Flight' = [Flight EXCEPT ![c] = Of(queue, c)]
    BY <1>4, FlightEnds DEF Ending
  <2>2. /\ o \in Seq(On("CMD")) /\ net["CMD"] \in Seq(On("CMD")) /\ q = o \o net["CMD"]
        /\ DOMAIN Flight = Channel /\ "CMD" \in Channel
    BY FlightType, OutTyped
  <2>3. Flight'["CMD"] = q \/ Flight'["CMD"] = o
    BY <2>1, <2>2
  <2> HIDE DEF o, q
  <2>4. Named(q, KeyAsks) = Named(o, KeyAsks) + Named(net["CMD"], KeyAsks)
    BY <2>2, NamedConcat
  <2>5. Named(o, KeyAsks) \in Nat /\ Named(net["CMD"], KeyAsks) \in Nat
    BY <2>2, NamedIs
  <2>6. KeysAsked' \in Nat /\ KeysAsked' <= KeysAsked
    BY <2>3, <2>4, <2>5 DEF KeysAsked, q
  <2>7. KeysTold' = KeysTold
    BY <2>1 DEF KeysTold
  <2> QED
    BY <2>1, <2>6, <2>7, KeysAre, TokenKept
<1> QED
  BY <1>1, <1>2, <1>3, <1>4

\* A round of the loop: what the car takes it may answer.
LEMMA TokenTaken == ASSUME Shape, Token, Taking PROVE Token' /\ ~Rekeying
<1> DEFINE f == Head(queue)
           q == Flight["CMD"]
<1>1. /\ f \in Wire /\ Flight[f.ch] # <<>> /\ Head(Flight[f.ch]) = f
      /\ Flight' = [Flight EXCEPT ![f.ch] = Tail(@)]
  BY FlightTaken
<1>2. "CMD" \in Channel /\ DOMAIN Flight = Channel /\ q \in Seq(On("CMD"))
  BY FlightType, TransportAssumption
<1>3. PICK x, g :
        /\ Round(s, f, g, x) /\ s'.enabled = x.enabled
        /\ out' = [c \in Channel |-> IF CanSend(c) THEN out[c] \o Of(x.tx, c) ELSE out[c]]
  BY DEF Taking
<1>4. x.tx \in Seq(Addressed)
  BY <1>3, RoundAddressed DEF Shape
<1>5. ph'.asked = ph.asked
  BY DEF Taking, PhoneSame
<1> DEFINE n == Len(Where(Where(Svcs(x.tx), Answers), KeyAnswers))
           asks == f.ch = "CMD" /\ f.svc \in KeyAsks
<1>6. /\ n \in {0, 1}
      /\ n = 1 => f.ch = "CMD" /\ f.svc \in KeyRequests
  <2>1. CASE Answered(s, g)
    <3>1. Where(Svcs(x.tx), Answers) = <<AnswerTo[f.svc]>> /\ f.ch = "CMD" /\ f.svc \in DOMAIN AnswerTo
      BY <1>3, <2>1 DEF Round, Answered
    <3>2. Where(<<AnswerTo[f.svc]>>, KeyAnswers)
            = IF AnswerTo[f.svc] \in KeyAnswers THEN <<AnswerTo[f.svc]>> ELSE <<>>
      BY WhereOne
    <3>3. AnswerTo[f.svc] \in KeyAnswers => f.svc \in KeyRequests
      BY <3>1, AnswerFacts DEF KeyAnswers, KeyRequests
    <3> QED
      BY <3>1, <3>2, <3>3
  <2>2. CASE ~Answered(s, g)
    <3>1. Where(Svcs(x.tx), Answers) = <<>>
      BY <1>3, <2>2 DEF Round
    <3> QED
      BY <3>1, WhereEmpty
  <2> QED
    BY <2>1, <2>2
<1> HIDE DEF n
<1>7. KeysTold' = IF CanSend("CMD") THEN KeysTold + n ELSE KeysTold
  <2>1. n \in Nat
    BY <1>6
  <2> QED
    BY <1>3, <1>4, <2>1, ToldSends DEF n
<1>8. KeysAsked = KeysAsked' + (IF asks THEN 1 ELSE 0) /\ KeysAsked' \in Nat
  <2>1. CASE f.ch = "CMD"
    <3>1. q # <<>> /\ Head(q) = f /\ Flight'["CMD"] = Tail(q) /\ Tail(q) \in Seq(On("CMD"))
      BY <1>1, <1>2, <2>1, HeadTailProperties
    <3> HIDE DEF f, q
    <3>2. Named(q, KeyAsks) = Named(Tail(q), KeyAsks) + (IF f.svc \in KeyAsks THEN 1 ELSE 0)
      BY <1>2, <3>1, NamedHead
    <3>3. Named(Tail(q), KeyAsks) \in Nat
      BY <3>1, NamedIs
    <3> QED
      BY <2>1, <3>1, <3>2, <3>3 DEF KeysAsked, q
  <2>2. CASE f.ch # "CMD"
    <3>1. Flight'["CMD"] = q
      BY <1>1, <1>2, <2>2
    <3>2. KeysAsked' = KeysAsked
      BY <3>1 DEF KeysAsked
    <3> QED
      BY <2>2, <3>2, KeysAre
  <2> QED
    BY <2>1, <2>2
<1>9. n = 1 => asks /\ f.svc # "MD_ENCRYPT_READY"
  BY <1>6 DEF KeyAsks, KeyRequests
<1>10. \/ s'.enabled = s.enabled
       \/ asks /\ f.svc = "MD_ENCRYPT_READY"
       \/ ~s'.enabled
  <2>1. CASE RoundKept(s, f, x)
    BY <1>3, <2>1 DEF RoundKept
  <2>2. CASE RoundTurned(s, f, x)
    BY <2>2 DEF RoundTurned, KeyAsks
  <2>3. CASE RoundDropped(s, f, x)
    BY <1>3, <2>3 DEF RoundDropped
  <2> QED
    BY <1>3, <2>1, <2>2, <2>3 DEF Round
<1>11. ~Rekeying
  <2>1. Rekeying => s.enabled /\ asks
    BY DEF Rekeying, KeyAsks
  <2> QED
    BY <1>8, <2>1, KeysAre DEF Token
<1> HIDE DEF f, q, asks
<1>12. KeysTold' \in Nat /\ KeysAsked' + KeysTold' <= KeysAsked + KeysTold
  BY <1>6, <1>7, <1>8, <1>9, KeysAre
<1>13. ASSUME s'.enabled = s.enabled PROVE Token'
  BY <1>5, <1>8, <1>12, <1>13, TokenKept
<1>14. ASSUME asks, f.svc = "MD_ENCRYPT_READY" PROVE Token'
  <2>1. n = 0
    BY <1>6, <1>9, <1>14
  <2>2. KeysAsked' + KeysTold' = 0 /\ ph.asked
    BY <1>7, <1>8, <1>14, <2>1, KeysAre DEF Token
  <2> QED
    BY <1>5, <2>2 DEF Token
<1>15. ASSUME ~s'.enabled PROVE Token'
  BY <1>5, <1>8, <1>12, <1>15, TokenKept
<1> QED
  BY <1>10, <1>11, <1>13, <1>14, <1>15

\* What the phone says, by its service.
LEMMA AskedSpoken ==
  ASSUME Shape, NEW p, NEW m, NEW n, Spoke(p, m, n), queue' = queue
  PROVE  KeysAsked' = KeysAsked + (IF m.ch = "CMD" /\ m.svc \in KeyAsks THEN 1 ELSE 0)
<1> DEFINE q == Flight["CMD"]
<1>1. m.ch \in Channel /\ Flight' = [Flight EXCEPT ![m.ch] = Append(@, n)]
  BY FlightSpoken
<1>2. n \in On(m.ch) /\ n.svc = m.svc
  BY DEF Spoke
<1>3. "CMD" \in Channel /\ DOMAIN Flight = Channel /\ q \in Seq(On("CMD"))
  BY FlightType, TransportAssumption
<1>4. Flight'["CMD"] = IF m.ch = "CMD" THEN Append(q, n) ELSE q
  BY <1>1, <1>3
<1> HIDE DEF q
<1>5. m.ch = "CMD" => Named(Append(q, n), KeyAsks) = Named(q, KeyAsks) + (IF m.svc \in KeyAsks THEN 1 ELSE 0)
  BY <1>2, <1>3, NamedIs
<1>6. Named(q, KeyAsks) \in Nat
  BY <1>3, NamedIs
<1> QED
  BY <1>4, <1>5, <1>6 DEF KeysAsked, q

\* The phone reads the first of the commands, and replies to an answer about keys.
LEMMA TokenReads == ASSUME Shape, Token, PhoneReads PROVE Token'
<1> DEFINE m == Head(out["CMD"])
<1>1. /\ out["CMD"] # <<>> /\ out' = [out EXCEPT !["CMD"] = Tail(@)]
      /\ UNCHANGED <<s, queue>>
  BY PhoneReadsIs
<1>2. PICK p : HasRead(m, p) /\ (KeptQuiet(p) \/ \E r : Reply(m, r) /\ HasSpoken(p, r))
  BY PhoneReadsIs
<1>3. KeysTold = KeysTold' + (IF m.svc \in KeyAnswers THEN 1 ELSE 0) /\ KeysTold' \in Nat
  <2> DEFINE o == out["CMD"]
  <2>1. o \in Seq(Outbound(s.key, s.keypair)) /\ out'["CMD"] = Tail(o)
    BY <1>1, OutTyped
  <2>2. Tail(o) \in Seq(Outbound(s.key, s.keypair)) /\ o # <<>>
    BY <1>1, <2>1, HeadTailProperties
  <2> HIDE DEF o
  <2>3. Named(o, KeyAnswers) = Named(Tail(o), KeyAnswers) + (IF Head(o).svc \in KeyAnswers THEN 1 ELSE 0)
    BY <2>1, <2>2, NamedHead
  <2>4. Named(Tail(o), KeyAnswers) \in Nat
    BY <2>2, NamedIs
  <2> QED
    BY <2>1, <2>3, <2>4 DEF KeysTold, o
<1> HIDE DEF m
<1>4. CASE KeptQuiet(p)
  <2>1. Flight' = Flight /\ ph'.asked = ph.asked
    BY <1>1, <1>2, <1>4, FlightSame DEF KeptQuiet, HasRead
  <2>2. KeysAsked' = KeysAsked
    BY <2>1 DEF KeysAsked
  <2> QED
    BY <1>1, <1>3, <2>1, <2>2, KeysAre, TokenKept
<1>5. ASSUME NEW r, Reply(m, r), HasSpoken(p, r) PROVE Token'
  <2>1. PICK n : Spoke(p, r, n)
    BY <1>5 DEF HasSpoken
  <2>2. KeysAsked' = KeysAsked + (IF r.ch = "CMD" /\ r.svc \in KeyAsks THEN 1 ELSE 0)
    BY <1>1, <2>1, AskedSpoken
  <2>3. r.svc # "MD_RSA_PUBLIC_KEY_REQUEST"
    BY <1>5 DEF Reply, Handshake
  <2>4. r.svc \in KeyAsks => m.svc \in KeyAnswers
    BY <1>5, <2>3 DEF Reply, KeyAsks, KeyRequests, KeyAnswers
  <2>5. ph'.asked = ph.asked
    <3>1. p.asked = ph.asked /\ p.asked \in BOOLEAN
      BY <1>2, KeysAre DEF HasRead
    <3>2. ph'.asked = (p.asked \/ r.svc = "MD_RSA_PUBLIC_KEY_REQUEST")
      BY <2>1 DEF Spoke, RequestsKey
    <3> QED
      BY <2>3, <3>1, <3>2
  <2> QED
    BY <1>1, <1>3, <2>2, <2>4, <2>5, KeysAre, TokenKept
<1> QED
  BY <1>2, <1>4, <1>5

\* The phone asks for the keys, once.
LEMMA TokenSays == ASSUME Shape, Token, PhoneSays, ~ph'.again PROVE Token'
<1>1. UNCHANGED <<s, queue, out>>
  BY PhoneSaysIs
<1>2. PICK p, m : Wishing(p, m)
  BY PhoneSaysIs
<1>3. PICK n : Spoke(p, m, n)
  BY <1>2 DEF Wishing, HasSpoken
<1>4. KeysAsked' = KeysAsked + (IF m.ch = "CMD" /\ m.svc \in KeyAsks THEN 1 ELSE 0) /\ KeysTold' = KeysTold
  BY <1>1, <1>3, AskedSpoken DEF KeysTold
<1>5. m.svc \in KeyAsks => m.svc = "MD_RSA_PUBLIC_KEY_REQUEST"
  BY <1>2, WishesAre DEF Wishing, Handshake, KeyAsks, KeyRequests
<1>6. /\ ph'.asked = (ph.asked \/ m.svc = "MD_RSA_PUBLIC_KEY_REQUEST")
      /\ ph'.again = (ph.again \/ (ph.asked /\ m.svc = "MD_RSA_PUBLIC_KEY_REQUEST"))
  BY <1>2, <1>3 DEF Spoke, RequestsKey, Wishing
<1>7. CASE m.svc = "MD_RSA_PUBLIC_KEY_REQUEST"
  <2>1. ~ph.asked /\ ph'.asked
    BY <1>6, <1>7, KeysAre
  <2>2. KeysAsked + KeysTold = 0 /\ ~s'.enabled
    BY <1>1, <2>1 DEF Token
  <2> QED
    BY <1>4, <2>1, <2>2, KeysAre DEF Token
<1>8. CASE m.svc # "MD_RSA_PUBLIC_KEY_REQUEST"
  <2>1. KeysAsked' = KeysAsked /\ ph'.asked = ph.asked
    BY <1>4, <1>5, <1>6, <1>8, KeysAre
  <2> QED
    BY <1>1, <1>4, <2>1, KeysAre, TokenKept
<1> QED
  BY <1>7, <1>8

LEMMA TokenStep == ASSUME Shape, Token, [Next]_vars, ~ph'.again PROVE Token'
<1>1. CASE UNCHANGED vars
  <2>1. UNCHANGED <<net, queue, out, s, ph>>
    BY <1>1 DEF vars, transportVars, sessionVars
  <2>2. KeysAsked' = KeysAsked /\ KeysTold' = KeysTold
    BY <2>1, FlightSame DEF KeysAsked, KeysTold
  <2> QED
    BY <2>1, <2>2, KeysAre, TokenKept
<1>2. CASE Next
  BY <1>2, NextIs, TokenQuiet, TokenTaken, TokenReads, TokenSays DEF Steps
<1> QED
  BY <1>1, <1>2

\* A phone that has asked once more has done so for ever.
LEMMA AgainStays == ASSUME Shape, [Next]_vars, ~ph'.again PROVE ~ph.again
<1>1. CASE UNCHANGED vars
  BY <1>1 DEF vars, sessionVars
<1>2. CASE Idle \/ Posting \/ Beating \/ Taking \/ \E c \in Channel : Reading(c) \/ Ending(c)
  BY <1>2 DEF Idle, Posting, Beating, Taking, Reading, Ending, PhoneSame
<1>3. ASSUME NEW p, NEW m, HasSpoken(p, m), p.again = ph.again PROVE ~ph.again
  BY <1>3 DEF HasSpoken, Spoke
<1>4. CASE PhoneReads
  <2>1. PICK p : /\ HasRead(Head(out["CMD"]), p)
                 /\ KeptQuiet(p) \/ \E r : Reply(Head(out["CMD"]), r) /\ HasSpoken(p, r)
    BY <1>4, PhoneReadsIs
  <2>2. p.again = ph.again
    BY <2>1 DEF HasRead
  <2> QED
    BY <1>3, <2>1, <2>2 DEF KeptQuiet
<1>5. CASE PhoneSays
  <2>1. PICK p, m : Wishing(p, m)
    BY <1>5, PhoneSaysIs
  <2> QED
    BY <1>3, <2>1 DEF Wishing
<1>6. CASE Next
  BY <1>2, <1>4, <1>5, <1>6, NextIs DEF Steps
<1> QED
  BY <1>1, <1>6

-----------------------------------------------------------------------------
\* The cipher and the answers

\* What holds of any phone, and of one that asks for the keys once.
Agreed == Inbound /\ (~ph.again => Token /\ Encrypts /\ Owing)

LEMMA AgreedStep == ASSUME Shape, Agreed, [Next]_vars PROVE Agreed'
<1>1. Inbound'
  BY InboundStep DEF Agreed
<1>2. ASSUME ~ph'.again PROVE (Token /\ Encrypts /\ Owing)'
  <2>1. Token /\ Ciphered /\ Owing
    BY <1>2, AgainStays DEF Agreed, Ciphered
  <2>2. Taking => ~Rekeying
    BY <2>1, TokenTaken
  <2> QED
    BY <1>2, <2>1, <2>2, TokenStep, EncryptsStep, OwingStep
<1> QED
  BY <1>1, <1>2 DEF Agreed

LEMMA InitAgreed == ASSUME Init PROVE Agreed
<1>1. Inbound /\ Encrypts /\ Owing
  BY InitCiphered, InitOwing DEF Ciphered
<1>2. /\ net = [c \in Channel |-> <<>>] /\ queue = <<>> /\ out = [c \in Channel |-> <<>>]
      /\ s.enabled = FALSE
  BY DEF Init, TransportInit, SessionInit
<1>3. Flight["CMD"] = <<>> /\ out["CMD"] = <<>>
  <2>1. \A c : Of(<<>>, c) = <<>>
    BY OfFacts
  <2> QED
    BY <1>2, <2>1, TransportAssumption DEF Flight
<1>4. KeysAsked = 0 /\ KeysTold = 0
  <2>1. \A K : Named(<<>>, K) = 0
    BY EmptySeq, NamedIs
  <2> QED
    BY <1>3, <2>1 DEF KeysAsked, KeysTold
<1>5. Token
  BY <1>2, <1>4 DEF Token
<1> QED
  BY <1>1, <1>5 DEF Agreed

\* The car excludes a service from decryption only if the phone sent it in plain, and
\* the car and a phone that asks for the keys once agree on what the car encrypts
\* (session.cpp:122, 1238, 1256).
THEOREM CipherAlwaysInStep == Spec => []CipherInStep
<1>1. Shape /\ Agreed /\ [Next]_vars => Agreed'
  BY AgreedStep
<1>2. Init => Agreed
  BY InitAgreed
<1>3. Shape /\ Agreed => CipherInStep
  BY CipheredMeans DEF Agreed
<1> QED
  BY <1>1, <1>2, <1>3, ShapeAlways, PTL DEF Spec

\* As long as the command channel lives, what a phone that asks for the keys once
\* waits for is on its way to it, or is due for a request that is on its way to the
\* car (session.cpp:266, 1238).
THEOREM AnswersNeverLost == Spec => []NoLostAnswer
<1>1. Shape /\ Agreed /\ [Next]_vars => Agreed'
  BY AgreedStep
<1>2. Init => Agreed
  BY InitAgreed
<1>3. Shape /\ Agreed => NoLostAnswer
  BY OwingMeans DEF Agreed
<1> QED
  BY <1>1, <1>2, <1>3, ShapeAlways, PTL DEF Spec
=============================================================================
