--------------------------- MODULE SequenceLemmas ---------------------------
(***************************************************************************)
(* What the proofs need of the sequences that FlattenSeq makes: it is a    *)
(* homomorphism, and what bytes and messages, one after the other, say is  *)
(* made with it.  The library's induction theorems take an operator, which *)
(* cannot be instantiated; SetInduction takes a set.                       *)
(***************************************************************************)
EXTENDS MidiBytes, Integers, SequenceTheorems, WellFoundedInduction, TLAPS

LEMMA LeastIn ==
    ASSUME NEW T \in SUBSET Nat, T # {}
    PROVE  \E x \in T : \A y \in T : x <= y
  <1> DEFINE R == OpToRel(<, Nat)
  <1>1. \E x \in T : \A y \in T : ~(<<y, x>> \in R)
    <2>1. IsWellFoundedOn(R, Nat)
      BY NatLessThanWellFounded, Zenon
    <2> HIDE DEF R
    <2> QED
      BY <2>1, WFMin, Zenon
  <1>2. \A x, y \in Nat : y < x => <<y, x>> \in R
    BY Zenon DEF OpToRel
  <1> HIDE DEF R
  <1>3. PICK x \in T : \A y \in T : ~(<<y, x>> \in R)
    BY <1>1
  <1>4. \A y \in T : ~(y < x) /\ y \in Nat /\ x \in Nat
    BY <1>2, <1>3
  <1> QED
    BY <1>4

(* Induction up to n, of a set instead of a predicate.                     *)
LEMMA SetInduction ==
    ASSUME NEW n \in Nat, NEW T, 0 \in T, \A k \in 0 .. n - 1 : k \in T => k + 1 \in T
    PROVE  \A k \in 0..n : k \in T
  <1> SUFFICES ASSUME NEW j \in 0..n, j \notin T PROVE FALSE
    OBVIOUS
  <1> DEFINE U == {k \in 0..n : k \notin T}
  <1>1. U \in SUBSET Nat /\ U # {}
    OBVIOUS
  <1>2. PICK k \in U : \A l \in U : k <= l
    BY <1>1, LeastIn
  <1>3. k \in 0..n /\ k # 0 /\ k - 1 \in 0 .. n - 1 /\ k - 1 \notin U
    BY <1>2
  <1>4. k - 1 \in T /\ (k - 1) + 1 = k
    BY <1>3
  <1> QED
    BY <1>2, <1>3, <1>4
-----------------------------------------------------------------------------
(* FlattenSeq is the last value of a function that exists.                 *)
IsFlattening(f, s, n) ==
    f = [i \in 1..n |-> IF i = 1 THEN s[i] ELSE f[i - 1] \o s[i]]

LEMMA FlatteningExists ==
    ASSUME NEW s, NEW n \in Nat
    PROVE  \E f : IsFlattening(f, s, n)
  <1> DEFINE T == {k \in Nat : \E f : IsFlattening(f, s, k)}
  <1>1. 0 \in T
    <2> DEFINE f == [i \in 1..0 |-> s]
    <2>1. IsFlattening(f, s, 0)
      BY DEF IsFlattening
    <2> QED
      BY <2>1
  <1>2. ASSUME NEW k \in 0 .. n - 1, k \in T PROVE k + 1 \in T
    <2>1. PICK f : IsFlattening(f, s, k)
      BY <1>2
    <2> DEFINE g == [i \in 1 .. k + 1 |->
                        IF i = 1 THEN s[i]
                        ELSE IF i = k + 1 THEN f[k] \o s[i] ELSE f[i]]
    <2>2. \A i \in 1..k : f[i] = IF i = 1 THEN s[i] ELSE f[i - 1] \o s[i]
      BY <2>1 DEF IsFlattening
    <2>3. \A i \in 1..k : g[i] = f[i]
      BY <2>2
    <2>4. \A i \in 1 .. k + 1 : g[i] = IF i = 1 THEN s[i] ELSE g[i - 1] \o s[i]
      <3> SUFFICES ASSUME NEW i \in 1 .. k + 1
                   PROVE  g[i] = IF i = 1 THEN s[i] ELSE g[i - 1] \o s[i]
        OBVIOUS
      <3>1. CASE i = k + 1 /\ i # 1
        <4>1. k \in 1..k /\ i - 1 = k
          BY <3>1
        <4>2. g[k] = f[k] /\ g[i] = f[k] \o s[i]
          BY <2>3, <3>1, <4>1
        <4> QED
          BY <3>1, <4>1, <4>2
      <3>2. CASE i = 1
        BY <3>2
      <3>3. CASE i # k + 1 /\ i # 1
        <4>1. i \in 1..k /\ i - 1 \in 1..k
          BY <3>3
        <4> HIDE DEF g
        <4> QED
          BY <2>2, <2>3, <3>3, <4>1
      <3> QED
        BY <3>1, <3>2, <3>3
    <2>5. IsFlattening(g, s, k + 1)
      <3>1. g = [i \in 1 .. k + 1 |-> g[i]]
        BY Zenon
      <3> HIDE DEF g
      <3> QED
        BY <2>4, <3>1 DEF IsFlattening
    <2> QED
      BY <2>5
  <1> HIDE DEF T
  <1>3. \A k \in 0..n : k \in T
    BY <1>1, <1>2, SetInduction
  <1> QED
    BY <1>3 DEF T

LEMMA FlatteningIs ==
    ASSUME NEW s, Len(s) \in Nat, Len(s) # 0
    PROVE  \E f : IsFlattening(f, s, Len(s)) /\ FlattenSeq(s) = f[Len(s)]
  <1> DEFINE f == CHOOSE g : IsFlattening(g, s, Len(s))
  <1>1. IsFlattening(f, s, Len(s))
    BY FlatteningExists
  <1>2. FlattenSeq(s) = f[Len(s)]
    BY DEF FlattenSeq, IsFlattening
  <1> HIDE DEF f
  <1> QED
    BY <1>1, <1>2

LEMMA FlattenEmpty == FlattenSeq(<< >>) = << >>
  <1>1. Len(<< >>) = 0
    OBVIOUS
  <1> QED
    BY <1>1 DEF FlattenSeq

LEMMA FlatteningsAgree ==
    ASSUME NEW u, NEW v, NEW l \in Nat, NEW m \in Nat, NEW f, NEW g,
           IsFlattening(f, u, l), IsFlattening(g, v, m), l <= m,
           \A i \in 1..l : u[i] = v[i]
    PROVE  \A i \in 1..l : f[i] = g[i]
  <1> DEFINE T == {k \in 0..l : k # 0 => f[k] = g[k]}
  <1>1. 0 \in T
    OBVIOUS
  <1>2. /\ \A i \in 1..l : f[i] = IF i = 1 THEN u[i] ELSE f[i - 1] \o u[i]
        /\ \A i \in 1..m : g[i] = IF i = 1 THEN v[i] ELSE g[i - 1] \o v[i]
    BY DEF IsFlattening
  <1>3. ASSUME NEW k \in 0 .. l - 1, k \in T PROVE k + 1 \in T
    <2>1. k + 1 \in 1..l /\ k + 1 \in 1..m /\ (k + 1) - 1 = k
      OBVIOUS
    <2>2. /\ f[k + 1] = IF k + 1 = 1 THEN u[k + 1] ELSE f[k] \o u[k + 1]
          /\ g[k + 1] = IF k + 1 = 1 THEN v[k + 1] ELSE g[k] \o v[k + 1]
      BY <1>2, <2>1
    <2> QED
      BY <1>3, <2>1, <2>2
  <1> HIDE DEF T
  <1>4. \A k \in 0..l : k \in T
    BY <1>1, <1>3, SetInduction
  <1> QED
    BY <1>4 DEF T

LEMMA FlattenStep ==
    ASSUME NEW u, NEW v, NEW l \in Nat, l # 0, Len(u) = l, Len(v) = l + 1,
           \A i \in 1..l : u[i] = v[i]
    PROVE  FlattenSeq(v) = FlattenSeq(u) \o v[l + 1]
  <1>1. PICK f : IsFlattening(f, u, l) /\ FlattenSeq(u) = f[l]
    BY FlatteningIs
  <1>2. PICK g : IsFlattening(g, v, l + 1) /\ FlattenSeq(v) = g[l + 1]
    BY FlatteningIs
  <1>3. l + 1 \in Nat /\ l <= l + 1 /\ l \in 1..l /\ l + 1 \in 1 .. l + 1 /\ (l + 1) - 1 = l
    OBVIOUS
  <1>4. f[l] = g[l]
    BY <1>1, <1>2, <1>3, FlatteningsAgree
  <1>5. g[l + 1] = g[l] \o v[l + 1]
    <2>1. \A i \in 1 .. l + 1 : g[i] = IF i = 1 THEN v[i] ELSE g[i - 1] \o v[i]
      BY <1>2 DEF IsFlattening
    <2>2. g[l + 1] = IF l + 1 = 1 THEN v[l + 1] ELSE g[(l + 1) - 1] \o v[l + 1]
      BY <1>3, <2>1, Zenon
    <2>3. l + 1 # 1
      OBVIOUS
    <2> QED
      BY <1>3, <2>2, <2>3, Zenon
  <1> QED
    BY <1>1, <1>2, <1>4, <1>5, Zenon

LEMMA FlattenFirst ==
    ASSUME NEW v, Len(v) = 1
    PROVE  FlattenSeq(v) = v[1]
  <1>1. Len(v) \in Nat /\ Len(v) # 0
    OBVIOUS
  <1>2. PICK f : IsFlattening(f, v, 1) /\ FlattenSeq(v) = f[1]
    BY <1>1, FlatteningIs, Zenon
  <1> QED
    BY <1>2 DEF IsFlattening

LEMMA FlattenAppend ==
    ASSUME NEW S, NEW s \in Seq(Seq(S)), NEW x \in Seq(S)
    PROVE  FlattenSeq(Append(s, x)) = FlattenSeq(s) \o x
  <1>1. /\ Len(s) \in Nat /\ Len(Append(s, x)) = Len(s) + 1
        /\ Append(s, x)[Len(s) + 1] = x /\ \A i \in 1..Len(s) : s[i] = Append(s, x)[i]
    BY AppendProperties, LenProperties
  <1>2. CASE Len(s) # 0
    BY <1>1, <1>2, FlattenStep
  <1>3. CASE Len(s) = 0
    <2>1. s = << >>
      BY <1>3, EmptySeq
    <2>2. FlattenSeq(s) \o x = x
      BY <2>1, FlattenEmpty, ConcatEmptySeq
    <2>3. Len(<<x>>) = 1 /\ <<x>>[1] = x /\ Append(<< >>, x) = <<x>>
      OBVIOUS
    <2>4. FlattenSeq(<<x>>) = x
      BY <2>3, FlattenFirst, Zenon
    <2> QED
      BY <2>1, <2>2, <2>3, <2>4, Zenon
  <1> QED
    BY <1>2, <1>3

(* A sequence and its prefixes.                                            *)
LEMMA PrefixGrows ==
    ASSUME NEW S, NEW s \in Seq(S), NEW k \in 0 .. Len(s) - 1
    PROVE  /\ SubSeq(s, 1, k) \in Seq(S) /\ Len(SubSeq(s, 1, k)) = k
           /\ SubSeq(s, 1, k + 1) = Append(SubSeq(s, 1, k), s[k + 1])
           /\ s[k + 1] \in S
  <1>1. Len(s) \in Nat /\ \A i \in 1..Len(s) : s[i] \in S
    BY LenProperties, ElementOfSeq
  <1>2. /\ SubSeq(s, 1, k) \in Seq(S) /\ Len(SubSeq(s, 1, k)) = k
        /\ \A i \in 1..k : SubSeq(s, 1, k)[i] = s[i]
    BY <1>1, SubSeqProperties
  <1>3. /\ SubSeq(s, 1, k + 1) \in Seq(S) /\ Len(SubSeq(s, 1, k + 1)) = k + 1
        /\ \A i \in 1 .. k + 1 : SubSeq(s, 1, k + 1)[i] = s[i]
    BY <1>1, SubSeqProperties
  <1> DEFINE p == SubSeq(s, 1, k)
             q == SubSeq(s, 1, k + 1)
             a == Append(p, s[k + 1])
  <1>4. s[k + 1] \in S /\ p \in Seq(S) /\ Len(p) = k
    BY <1>1, <1>2
  <1> HIDE DEF p, q
  <1>5. a \in Seq(S) /\ Len(a) = k + 1 /\ a[k + 1] = s[k + 1] /\ \A i \in 1..k : a[i] = p[i]
    BY <1>4, AppendProperties
  <1>6. \A i \in 1 .. k + 1 : a[i] = q[i]
    BY <1>2, <1>3, <1>5 DEF p, q
  <1>7. a = q
    <2>1. q \in Seq(S) /\ Len(q) = k + 1
      BY <1>3 DEF q
    <2> HIDE DEF a
    <2> QED
      BY <1>5, <1>6, <2>1, SeqEqual
  <1> QED
    BY <1>4, <1>7 DEF p, q

LEMMA FlattenIsSeq ==
    ASSUME NEW S, NEW s \in Seq(Seq(S))
    PROVE  FlattenSeq(s) \in Seq(S)
  <1> DEFINE n == Len(s)
             T == {k \in 0..n : FlattenSeq(SubSeq(s, 1, k)) \in Seq(S)}
  <1>1. n \in Nat /\ SubSeq(s, 1, n) = s
    BY LenProperties, SubSeqFull
  <1>2. 0 \in T
    <2>1. SubSeq(s, 1, 0) = << >>
      BY <1>1, SubSeqEmpty
    <2>2. FlattenSeq(SubSeq(s, 1, 0)) \in Seq(S)
      BY <2>1, FlattenEmpty, EmptySeq, Zenon
    <2> QED
      BY <1>1, <2>2
  <1>3. ASSUME NEW k \in 0 .. n - 1, k \in T PROVE k + 1 \in T
    <2>1. /\ SubSeq(s, 1, k) \in Seq(Seq(S)) /\ s[k + 1] \in Seq(S)
          /\ SubSeq(s, 1, k + 1) = Append(SubSeq(s, 1, k), s[k + 1])
      BY <1>1, PrefixGrows
    <2>2. FlattenSeq(SubSeq(s, 1, k + 1)) = FlattenSeq(SubSeq(s, 1, k)) \o s[k + 1]
      BY <2>1, FlattenAppend
    <2>3. FlattenSeq(SubSeq(s, 1, k)) \o s[k + 1] \in Seq(S)
      BY <1>3, <2>1, ConcatProperties
    <2>4. k + 1 \in 0..n
      BY <1>1
    <2> QED
      BY <2>2, <2>3, <2>4, Zenon
  <1> HIDE DEF T, n
  <1>4. \A k \in 0..n : k \in T
    BY <1>1, <1>2, <1>3, SetInduction
  <1>5. n \in T
    BY <1>1, <1>4
  <1> QED
    BY <1>1, <1>5, Zenon DEF T

LEMMA ConcatAppend ==
    ASSUME NEW S, NEW s \in Seq(S), NEW p \in Seq(S), NEW x \in S
    PROVE  s \o Append(p, x) = Append(s \o p, x)
  <1>1. Append(p, x) = p \o <<x>> /\ <<x>> \in Seq(S) /\ s \o p \in Seq(S)
    BY AppendIsConcat, ConcatProperties
  <1>2. Append(s \o p, x) = (s \o p) \o <<x>>
    BY <1>1, AppendIsConcat
  <1>3. (s \o p) \o <<x>> = s \o (p \o <<x>>)
    <2>1. <<x>> \in Seq(S)
      BY <1>1
    <2> QED
      BY <2>1, ConcatAssociative
  <1> QED
    BY <1>1, <1>2, <1>3, Zenon

LEMMA FlattenConcatStep ==
    ASSUME NEW S, NEW s \in Seq(Seq(S)), NEW p \in Seq(Seq(S)), NEW x \in Seq(S),
           FlattenSeq(s \o p) = FlattenSeq(s) \o FlattenSeq(p)
    PROVE  FlattenSeq(s \o Append(p, x)) = FlattenSeq(s) \o FlattenSeq(Append(p, x))
  <1>1. s \o p \in Seq(Seq(S)) /\ s \o Append(p, x) = Append(s \o p, x)
    BY ConcatProperties, ConcatAppend
  <1>2. /\ FlattenSeq(Append(s \o p, x)) = FlattenSeq(s \o p) \o x
        /\ FlattenSeq(Append(p, x)) = FlattenSeq(p) \o x
    BY <1>1, FlattenAppend
  <1>3. FlattenSeq(s) \in Seq(S) /\ FlattenSeq(p) \in Seq(S)
    BY FlattenIsSeq
  <1>4. (FlattenSeq(s) \o FlattenSeq(p)) \o x = FlattenSeq(s) \o (FlattenSeq(p) \o x)
    BY <1>3, ConcatAssociative
  <1> QED
    BY <1>1, <1>2, <1>4, Zenon

LEMMA FlattenConcat ==
    ASSUME NEW S, NEW s \in Seq(Seq(S)), NEW t \in Seq(Seq(S))
    PROVE  FlattenSeq(s \o t) = FlattenSeq(s) \o FlattenSeq(t)
  <1> DEFINE n == Len(t)
             P(k) == SubSeq(t, 1, k)
             T == {k \in 0..n : FlattenSeq(s \o P(k)) = FlattenSeq(s) \o FlattenSeq(P(k))}
  <1>1. n \in Nat /\ P(n) = t
    BY LenProperties, SubSeqFull
  <1>2. 0 \in T
    <2>1. P(0) = << >>
      BY <1>1, SubSeqEmpty
    <2>2. FlattenSeq(s) \o << >> = FlattenSeq(s) /\ s \o << >> = s
      BY FlattenIsSeq, ConcatEmptySeq
    <2>3. FlattenSeq(s \o P(0)) = FlattenSeq(s) \o FlattenSeq(P(0))
      BY <2>1, <2>2, FlattenEmpty, Zenon
    <2> QED
      BY <1>1, <2>3
  <1>3. ASSUME NEW k \in 0 .. n - 1, k \in T PROVE k + 1 \in T
    <2>1. P(k) \in Seq(Seq(S)) /\ t[k + 1] \in Seq(S) /\ P(k + 1) = Append(P(k), t[k + 1])
      BY <1>1, PrefixGrows
    <2>2. FlattenSeq(s \o P(k + 1)) = FlattenSeq(s) \o FlattenSeq(P(k + 1))
      BY <1>3, <2>1, FlattenConcatStep
    <2>3. k + 1 \in 0..n
      BY <1>1
    <2> QED
      BY <2>2, <2>3
  <1> HIDE DEF T, n, P
  <1>4. \A k \in 0..n : k \in T
    BY <1>1, <1>2, <1>3, SetInduction
  <1>5. n \in T
    BY <1>1, <1>4
  <1> QED
    BY <1>1, <1>5, Zenon DEF T

LEMMA FlattenOne ==
    ASSUME NEW S, NEW x \in Seq(S)
    PROVE  FlattenSeq(<<x>>) = x
  <1>1. << >> \in Seq(Seq(S)) /\ Append(<< >>, x) = <<x>>
    BY EmptySeq
  <1>2. FlattenSeq(Append(<< >>, x)) = FlattenSeq(<< >>) \o x
    BY <1>1, FlattenAppend
  <1> QED
    BY <1>1, <1>2, FlattenEmpty, ConcatEmptySeq
-----------------------------------------------------------------------------
(* What f makes of each member of s, one after the other.                  *)
Maps(f, D, R) == \A x \in D : f[x] \in R
Mapped(f, s) == [i \in 1..Len(s) |-> f[s[i]]]
FlatMap(f, s) == FlattenSeq(Mapped(f, s))

LEMMA MappedIsSeq ==
    ASSUME NEW D, NEW R, NEW f, Maps(f, D, R), NEW s \in Seq(D)
    PROVE  /\ Mapped(f, s) \in Seq(R) /\ Len(Mapped(f, s)) = Len(s)
           /\ \A i \in 1..Len(s) : Mapped(f, s)[i] = f[s[i]]
  <1> DEFINE n == Len(s)
             t == [i \in 1..n |-> f[s[i]]]
  <1>1. n \in Nat /\ \A i \in 1..n : s[i] \in D
    BY LenProperties, ElementOfSeq
  <1>2. Mapped(f, s) = t
    BY DEF Mapped
  <1> HIDE DEF n
  <1>3. t \in [1..n -> R]
    BY <1>1 DEF Maps
  <1>4. \A i \in 1..n : t[i] = f[s[i]]
    OBVIOUS
  <1> HIDE DEF t
  <1>5. t \in Seq(R) /\ Len(t) = n
    BY <1>1, <1>3
  <1> QED
    BY <1>2, <1>4, <1>5 DEF n

LEMMA ConcatPointwise ==
    ASSUME NEW R, NEW a \in Seq(R), NEW b \in Seq(R), NEW c \in Seq(R),
           Len(c) = Len(a) + Len(b),
           \A i \in 1..Len(a) : c[i] = a[i],
           \A i \in 1..Len(b) : c[Len(a) + i] = b[i]
    PROVE  c = a \o b
  <1>1. /\ a \o b \in Seq(R) /\ Len(a \o b) = Len(a) + Len(b)
        /\ \A i \in 1 .. Len(a) + Len(b) :
               (a \o b)[i] = IF i <= Len(a) THEN a[i] ELSE b[i - Len(a)]
    BY ConcatProperties
  <1>2. Len(a) \in Nat /\ Len(b) \in Nat
    BY LenProperties
  <1>3. ASSUME NEW i \in 1..Len(c) PROVE c[i] = (a \o b)[i]
    <2>1. CASE i <= Len(a)
      <3>1. i \in 1..Len(a)
        BY <1>2, <2>1
      <3> QED
        BY <1>1, <1>2, <2>1, <3>1
    <2>2. CASE ~(i <= Len(a))
      <3>1. i - Len(a) \in 1..Len(b) /\ Len(a) + (i - Len(a)) = i
        BY <1>2, <2>2
      <3>2. (a \o b)[i] = b[i - Len(a)]
        BY <1>1, <1>2, <2>2
      <3>3. c[Len(a) + (i - Len(a))] = b[i - Len(a)]
        BY <3>1
      <3> QED
        BY <3>1, <3>2, <3>3
    <2> QED
      BY <2>1, <2>2
  <1> QED
    BY <1>1, <1>3, SeqEqual

LEMMA MappedConcat ==
    ASSUME NEW D, NEW R, NEW f, Maps(f, D, R), NEW s \in Seq(D), NEW t \in Seq(D)
    PROVE  Mapped(f, s \o t) = Mapped(f, s) \o Mapped(f, t)
  <1>1. /\ s \o t \in Seq(D) /\ Len(s \o t) = Len(s) + Len(t)
        /\ Len(s) \in Nat /\ Len(t) \in Nat
        /\ \A i \in 1 .. Len(s) + Len(t) :
               (s \o t)[i] = IF i <= Len(s) THEN s[i] ELSE t[i - Len(s)]
    BY ConcatProperties, LenProperties
  <1>2. /\ Mapped(f, s) \in Seq(R) /\ Len(Mapped(f, s)) = Len(s)
        /\ \A i \in 1..Len(s) : Mapped(f, s)[i] = f[s[i]]
    BY MappedIsSeq
  <1>3. /\ Mapped(f, t) \in Seq(R) /\ Len(Mapped(f, t)) = Len(t)
        /\ \A i \in 1..Len(t) : Mapped(f, t)[i] = f[t[i]]
    BY MappedIsSeq
  <1>4. /\ Mapped(f, s \o t) \in Seq(R) /\ Len(Mapped(f, s \o t)) = Len(s \o t)
        /\ \A i \in 1 .. Len(s \o t) : Mapped(f, s \o t)[i] = f[(s \o t)[i]]
    <2>1. \A u \in Seq(D) : /\ Mapped(f, u) \in Seq(R) /\ Len(Mapped(f, u)) = Len(u)
                            /\ \A i \in 1..Len(u) : Mapped(f, u)[i] = f[u[i]]
      BY MappedIsSeq
    <2> QED
      BY <1>1, <2>1, Zenon
  <1>5. \A i \in 1..Len(s) : i \in 1..Len(s \o t) /\ (s \o t)[i] = s[i]
    BY <1>1
  <1>6. \A i \in 1..Len(t) : Len(s) + i \in 1..Len(s \o t) /\ (s \o t)[Len(s) + i] = t[i]
    <2> TAKE i \in 1..Len(t)
    <2>1. Len(s) + i \in 1 .. Len(s) + Len(t) /\ ~(Len(s) + i <= Len(s))
          /\ (Len(s) + i) - Len(s) = i
      BY <1>1
    <2> QED
      BY <1>1, <2>1
  <1>7. \A i \in 1..Len(s) : Mapped(f, s \o t)[i] = Mapped(f, s)[i]
    BY <1>2, <1>4, <1>5
  <1>8. \A i \in 1..Len(t) : Mapped(f, s \o t)[Len(s) + i] = Mapped(f, t)[i]
    <2> TAKE i \in 1..Len(t)
    <2>1. Len(s) + i \in 1..Len(s \o t) /\ (s \o t)[Len(s) + i] = t[i]
      BY <1>6, Zenon
    <2>2. Mapped(f, s \o t)[Len(s) + i] = f[(s \o t)[Len(s) + i]]
      BY <1>1, <1>4, <2>1, Zenon
    <2> QED
      BY <1>3, <2>1, <2>2, Zenon
  <1>9. /\ Len(Mapped(f, s \o t)) = Len(Mapped(f, s)) + Len(Mapped(f, t))
        /\ \A i \in 1..Len(Mapped(f, s)) : Mapped(f, s \o t)[i] = Mapped(f, s)[i]
        /\ \A i \in 1..Len(Mapped(f, t)) :
               Mapped(f, s \o t)[Len(Mapped(f, s)) + i] = Mapped(f, t)[i]
    BY <1>1, <1>2, <1>3, <1>4, <1>7, <1>8
  <1> QED
    BY <1>2, <1>3, <1>4, <1>9, ConcatPointwise, Zenon

LEMMA FlatMapIsSeq ==
    ASSUME NEW D, NEW S, NEW f, Maps(f, D, Seq(S)), NEW s \in Seq(D)
    PROVE  FlatMap(f, s) \in Seq(S)
  <1>1. Mapped(f, s) \in Seq(Seq(S))
    BY MappedIsSeq
  <1> QED
    BY <1>1, FlattenIsSeq DEF FlatMap

LEMMA FlatMapEmpty == ASSUME NEW f PROVE FlatMap(f, << >>) = << >>
  <1>1. Mapped(f, << >>) = << >>
    BY DEF Mapped
  <1> QED
    BY <1>1, FlattenEmpty, Zenon DEF FlatMap

LEMMA FlatMapConcat ==
    ASSUME NEW D, NEW S, NEW f, Maps(f, D, Seq(S)), NEW s \in Seq(D), NEW t \in Seq(D)
    PROVE  FlatMap(f, s \o t) = FlatMap(f, s) \o FlatMap(f, t)
  <1>1. Mapped(f, s) \in Seq(Seq(S)) /\ Mapped(f, t) \in Seq(Seq(S))
    BY MappedIsSeq
  <1>2. Mapped(f, s \o t) = Mapped(f, s) \o Mapped(f, t)
    BY MappedConcat
  <1>3. FlattenSeq(Mapped(f, s) \o Mapped(f, t))
            = FlattenSeq(Mapped(f, s)) \o FlattenSeq(Mapped(f, t))
    BY <1>1, FlattenConcat
  <1> QED
    BY <1>2, <1>3, Zenon DEF FlatMap

LEMMA FlatMapOne ==
    ASSUME NEW D, NEW S, NEW f, Maps(f, D, Seq(S)), NEW x \in D
    PROVE  FlatMap(f, <<x>>) = f[x]
  <1>1. <<x>> \in Seq(D) /\ Len(<<x>>) = 1 /\ <<x>>[1] = x
    OBVIOUS
  <1>2. Len(Mapped(f, <<x>>)) = 1 /\ Mapped(f, <<x>>)[1] = f[x]
    <2>1. /\ Len(Mapped(f, <<x>>)) = Len(<<x>>)
          /\ \A i \in 1..Len(<<x>>) : Mapped(f, <<x>>)[i] = f[<<x>>[i]]
      <3>1. \A u \in Seq(D) : /\ Len(Mapped(f, u)) = Len(u)
                              /\ \A i \in 1..Len(u) : Mapped(f, u)[i] = f[u[i]]
        BY MappedIsSeq
      <3> QED
        BY <1>1, <3>1, Zenon
    <2> QED
      BY <1>1, <2>1
  <1> QED
    BY <1>2, FlattenFirst, Zenon DEF FlatMap

LEMMA FlatMapAppend ==
    ASSUME NEW D, NEW S, NEW f, Maps(f, D, Seq(S)), NEW s \in Seq(D), NEW x \in D
    PROVE  FlatMap(f, Append(s, x)) = FlatMap(f, s) \o f[x]
  <1>1. Append(s, x) = s \o <<x>> /\ <<x>> \in Seq(D)
    BY AppendIsConcat
  <1>2. FlatMap(f, s \o <<x>>) = FlatMap(f, s) \o FlatMap(f, <<x>>)
    <2>1. \A u \in Seq(D) : FlatMap(f, s \o u) = FlatMap(f, s) \o FlatMap(f, u)
      BY FlatMapConcat
    <2> QED
      BY <1>1, <2>1, Zenon
  <1>3. FlatMap(f, <<x>>) = f[x]
    BY FlatMapOne
  <1> QED
    BY <1>1, <1>2, <1>3, Zenon

(* What f makes one of each of, and what it drops.                        *)
LEMMA FlatMapEach ==
    ASSUME NEW D, NEW S, NEW f, Maps(f, D, Seq(S)), NEW s \in Seq(D), NEW t \in Seq(S),
           Len(s) = Len(t), \A i \in 1..Len(s) : f[s[i]] = <<t[i]>>
    PROVE  FlatMap(f, s) = t
  <1> DEFINE n == Len(s)
             P(k) == SubSeq(s, 1, k)
             Q(k) == SubSeq(t, 1, k)
             T == {k \in 0..n : FlatMap(f, P(k)) = Q(k)}
  <1>1. n \in Nat /\ n = Len(t) /\ P(n) = s /\ Q(n) = t /\ P(0) = << >> /\ Q(0) = << >>
    BY LenProperties, SubSeqFull, SubSeqEmpty
  <1>2. 0 \in T
    <2>1. FlatMap(f, P(0)) = Q(0)
      BY <1>1, FlatMapEmpty, Zenon
    <2> QED
      BY <1>1, <2>1
  <1>3. ASSUME NEW k \in 0 .. n - 1, k \in T PROVE k + 1 \in T
    <2>1. P(k) \in Seq(D) /\ s[k + 1] \in D /\ P(k + 1) = Append(P(k), s[k + 1])
      BY <1>1, PrefixGrows
    <2>2. Q(k) \in Seq(S) /\ t[k + 1] \in S /\ Q(k + 1) = Append(Q(k), t[k + 1])
      <3>1. k \in 0 .. Len(t) - 1
        BY <1>1
      <3> QED
        BY <3>1, PrefixGrows
    <2>3. FlatMap(f, P(k + 1)) = FlatMap(f, P(k)) \o f[s[k + 1]]
      <3>1. \A p \in Seq(D), x \in D : FlatMap(f, Append(p, x)) = FlatMap(f, p) \o f[x]
        BY FlatMapAppend
      <3> QED
        BY <2>1, <3>1, Zenon
    <2>4. k + 1 \in 1..n /\ k + 1 \in 0..n
      BY <1>1
    <2>5. f[s[k + 1]] = <<t[k + 1]>>
      BY <2>4
    <2>6. Q(k + 1) = Q(k) \o <<t[k + 1]>>
      BY <2>2, AppendIsConcat
    <2> QED
      BY <1>3, <2>3, <2>4, <2>5, <2>6, Zenon
  <1> HIDE DEF T, n, P, Q
  <1>4. \A k \in 0..n : k \in T
    BY <1>1, <1>2, <1>3, SetInduction
  <1>5. n \in T
    BY <1>1, <1>4
  <1> QED
    BY <1>1, <1>5, Zenon DEF T

LEMMA FlatMapNone ==
    ASSUME NEW D, NEW S, NEW f, Maps(f, D, Seq(S)), NEW s \in Seq(D),
           \A i \in 1..Len(s) : f[s[i]] = << >>
    PROVE  FlatMap(f, s) = << >>
  <1> DEFINE n == Len(s)
             P(k) == SubSeq(s, 1, k)
             T == {k \in 0..n : FlatMap(f, P(k)) = << >>}
  <1>1. n \in Nat /\ P(n) = s /\ P(0) = << >>
    BY LenProperties, SubSeqFull, SubSeqEmpty
  <1>2. 0 \in T
    <2>1. FlatMap(f, P(0)) = << >>
      BY <1>1, FlatMapEmpty, Zenon
    <2> QED
      BY <1>1, <2>1
  <1>3. ASSUME NEW k \in 0 .. n - 1, k \in T PROVE k + 1 \in T
    <2>1. P(k) \in Seq(D) /\ s[k + 1] \in D /\ P(k + 1) = Append(P(k), s[k + 1])
      BY <1>1, PrefixGrows
    <2>2. FlatMap(f, P(k + 1)) = FlatMap(f, P(k)) \o f[s[k + 1]]
      <3>1. \A p \in Seq(D), x \in D : FlatMap(f, Append(p, x)) = FlatMap(f, p) \o f[x]
        BY FlatMapAppend
      <3> QED
        BY <2>1, <3>1, Zenon
    <2>3. k + 1 \in 1..n /\ k + 1 \in 0..n
      BY <1>1
    <2>4. f[s[k + 1]] = << >> /\ << >> \o << >> = << >>
      BY <2>3
    <2> QED
      BY <1>3, <2>2, <2>3, <2>4, Zenon
  <1> HIDE DEF T, n, P
  <1>4. \A k \in 0..n : k \in T
    BY <1>1, <1>2, <1>3, SetInduction
  <1>5. n \in T
    BY <1>1, <1>4
  <1> QED
    BY <1>1, <1>5, Zenon DEF T

LEMMA PrefixOfConcat ==
    ASSUME NEW S, NEW s \in Seq(S), NEW t \in Seq(S)
    PROVE  IsPrefix(s, s \o t)
  <1>1. /\ Len(s) \in Nat /\ Len(t) \in Nat /\ s \o t \in Seq(S)
        /\ Len(s \o t) = Len(s) + Len(t)
        /\ \A i \in 1 .. Len(s) + Len(t) : (s \o t)[i] = IF i <= Len(s) THEN s[i] ELSE t[i - Len(s)]
    BY ConcatProperties, LenProperties
  <1>2. SubSeq(s \o t, 1, Len(s)) = s /\ SubSeq(s, 1, Len(s)) = s
    BY <1>1, SubSeqOfConcat1, SubSeqFull
  <1> QED
    BY <1>1, <1>2 DEF IsPrefix

LEMMA PrefixStays ==
    ASSUME NEW S, NEW r \in Seq(S), NEW s \in Seq(S), NEW t \in Seq(S), IsPrefix(r, s)
    PROVE  IsPrefix(r, s \o t)
  <1>1. /\ Len(r) \in Nat /\ Len(s) \in Nat /\ Len(t) \in Nat /\ Len(r) <= Len(s)
        /\ s \o t \in Seq(S) /\ Len(s \o t) = Len(s) + Len(t)
        /\ \A i \in 1 .. Len(s) + Len(t) :
               (s \o t)[i] = IF i <= Len(s) THEN s[i] ELSE t[i - Len(s)]
    BY ConcatProperties, LenProperties DEF IsPrefix
  <1>2. \A i \in 1..Len(r) : (s \o t)[i] = s[i] /\ s[i] \in S /\ (s \o t)[i] \in S
    BY <1>1, ElementOfSeq
  <1>3. /\ SubSeq(s, 1, Len(r)) \in Seq(S) /\ Len(SubSeq(s, 1, Len(r))) = Len(r)
        /\ \A i \in 1..Len(r) : SubSeq(s, 1, Len(r))[i] = s[i]
    BY <1>1, <1>2, SubSeqProperties
  <1>4. /\ SubSeq(s \o t, 1, Len(r)) \in Seq(S) /\ Len(SubSeq(s \o t, 1, Len(r))) = Len(r)
        /\ \A i \in 1..Len(r) : SubSeq(s \o t, 1, Len(r))[i] = (s \o t)[i]
    BY <1>1, <1>2, SubSeqProperties
  <1>5. SubSeq(s \o t, 1, Len(r)) = SubSeq(s, 1, Len(r))
    <2> DEFINE a == SubSeq(s \o t, 1, Len(r))
               b == SubSeq(s, 1, Len(r))
    <2>1. /\ a \in Seq(S) /\ b \in Seq(S) /\ Len(a) = Len(r) /\ Len(b) = Len(r)
          /\ \A i \in 1..Len(r) : a[i] = b[i]
      BY <1>2, <1>3, <1>4
    <2> HIDE DEF a, b
    <2>2. a = b
      BY <2>1, SeqEqual
    <2> QED
      BY <2>2 DEF a, b
  <1>6. Len(r) <= Len(s \o t)
    BY <1>1
  <1> QED
    BY <1>5, <1>6 DEF IsPrefix
-----------------------------------------------------------------------------
(* What has come out, what is held and what is still to come make up the   *)
(* whole; and the same where nothing is ever held.                         *)
Joins(h, k, w, t) == h \o (k \o w) = t
Meets(h, w, t) == h \o w = t

Associates(S) == \A a, b, c \in Seq(S) : (a \o b) \o c = a \o (b \o c)

LEMMA Regrouped == ASSUME NEW S PROVE Associates(S)
  BY ConcatAssociative DEF Associates

LEMMA MeetsGrow ==
    ASSUME NEW S, NEW h \in Seq(S), NEW w \in Seq(S), NEW x \in Seq(S), NEW t,
           Meets(h, w, t)
    PROVE  Meets(h, w \o x, t \o x)
  <1>1. (h \o w) \o x = h \o (w \o x)
    <2>1. Associates(S)
      BY Regrouped
    <2> QED
      BY <2>1, Zenon DEF Associates
  <1> QED
    BY <1>1, Zenon DEF Meets

LEMMA MeetsMove ==
    ASSUME NEW S, NEW h \in Seq(S), NEW w \in Seq(S), NEW x \in Seq(S), NEW t,
           Meets(h, w \o x, t)
    PROVE  Meets(h \o w, x, t)
  <1>1. (h \o w) \o x = h \o (w \o x)
    <2>1. Associates(S)
      BY Regrouped
    <2> QED
      BY <2>1, Zenon DEF Associates
  <1> QED
    BY <1>1, Zenon DEF Meets

LEMMA JoinsMeets ==
    ASSUME NEW S, NEW h \in Seq(S), NEW k \in Seq(S), NEW w \in Seq(S), NEW t
    PROVE  Joins(h, k, w, t) <=> Meets(h, k \o w, t)
  BY Zenon DEF Joins, Meets

(* More is to come.                                                        *)
LEMMA JoinsGrow ==
    ASSUME NEW S, NEW h \in Seq(S), NEW k \in Seq(S), NEW w \in Seq(S),
           NEW x \in Seq(S), NEW t, Joins(h, k, w, t)
    PROVE  Joins(h, k, w \o x, t \o x)
  <1>1. k \o w \in Seq(S)
    BY ConcatProperties
  <1>2. Meets(h, k \o w, t)
    BY JoinsMeets, Zenon
  <1>3. Meets(h, (k \o w) \o x, t \o x)
    BY <1>1, <1>2, MeetsGrow, Zenon
  <1>4. (k \o w) \o x = k \o (w \o x)
    <2>1. Associates(S)
      BY Regrouped
    <2> QED
      BY <2>1, Zenon DEF Associates
  <1> QED
    BY <1>3, <1>4, Zenon DEF Joins, Meets

(* What is held, and more, comes out in part.                              *)
LEMMA JoinsRelease ==
    ASSUME NEW S, NEW h \in Seq(S), NEW k \in Seq(S), NEW w \in Seq(S), NEW t,
           NEW e \in Seq(S), NEW l \in Seq(S), Meets(e, l, k), Joins(h, k, w, t)
    PROVE  Joins(h \o e, l, w, t)
  <1>1. l \o w \in Seq(S)
    BY ConcatProperties
  <1>2. (e \o l) \o w = e \o (l \o w)
    <2>1. Associates(S)
      BY Regrouped
    <2> QED
      BY <2>1, Zenon DEF Associates
  <1>3. Meets(h, e \o (l \o w), t)
    BY <1>2, Zenon DEF Joins, Meets
  <1>4. Meets(h \o e, l \o w, t)
    BY <1>1, <1>3, MeetsMove, Zenon
  <1> QED
    BY <1>4, Zenon DEF Joins, Meets

LEMMA JoinsMove ==
    ASSUME NEW S, NEW h \in Seq(S), NEW k \in Seq(S), NEW m \in Seq(S),
           NEW w \in Seq(S), NEW t, NEW e \in Seq(S), NEW l \in Seq(S),
           Meets(e, l, k \o m), Joins(h, k, m \o w, t)
    PROVE  Joins(h \o e, l, w, t)
  <1>1. k \o m \in Seq(S)
    BY ConcatProperties
  <1>2. (k \o m) \o w = k \o (m \o w)
    <2>1. Associates(S)
      BY Regrouped
    <2>2. \A b, c \in Seq(S) : (k \o b) \o c = k \o (b \o c)
      BY <2>1, Zenon DEF Associates
    <2>3. \A c \in Seq(S) : (k \o m) \o c = k \o (m \o c)
      BY <2>2, Zenon
    <2> QED
      BY <2>3, Zenon
  <1>3. Joins(h, k \o m, w, t)
    BY <1>2, Zenon DEF Joins
  <1> QED
    BY <1>1, <1>3, JoinsRelease, Zenon
-----------------------------------------------------------------------------
(* What the bytes of a line say, whatever comes before them: the events of *)
(* a stream, and its System Real-Time.                                     *)
Mark(b) == IF b = SysExStart THEN StartMark ELSE IF b = SysExEnd THEN EndMark ELSE b
MarkOf == [b \in Bytes |-> IF IsSystemRealTime(b) THEN << >> ELSE <<Mark(b)>>]
AloneOf ==
    [b \in Bytes |-> IF IsSystemRealTime(b) THEN <<ShortMessage(b, << >>)>> ELSE << >>]
EventOf == [m \in MidiMessages |-> IF IsRealTime(m) THEN << >> ELSE Events(m)]
RealOf == [m \in MidiMessages |-> IF IsRealTime(m) THEN <<m>> ELSE << >>]

LEMMA ShortIsMessage ==
    ASSUME NEW b \in Bytes, NEW d \in Seq(Bytes)
    PROVE  ShortMessage(b, d) \in MidiMessages
  BY DEF ShortMessage, MidiMessages

LEMMA SmallSeqs ==
    ASSUME NEW S, NEW m \in S, NEW n \in S
    PROVE  /\ << >> \in Seq(S) /\ <<m>> \in Seq(S) /\ <<m, n>> \in Seq(S)
           /\ Append(<< >>, m) = <<m>> /\ Append(<<m>>, n) = <<m, n>>
  <1>1. << >> \in Seq(S) /\ <<m>> \in Seq(S)
    OBVIOUS
  <1>2. <<m, n>> \in Seq(S)
    OBVIOUS
  <1>3. Append(<< >>, m) = <<m>>
    OBVIOUS
  <1>4. Append(<<m>>, n) = <<m, n>>
    <2>1. Len(<<m>>) = 1 /\ Len(<<m, n>>) = 2
      OBVIOUS
    <2>2. /\ Append(<<m>>, n) \in Seq(S) /\ Len(Append(<<m>>, n)) = 2
          /\ Append(<<m>>, n)[1] = <<m>>[1] /\ Append(<<m>>, n)[2] = n
      BY <1>1, <2>1, AppendProperties
    <2>3. <<m>>[1] = m /\ <<m, n>>[1] = m /\ <<m, n>>[2] = n
      OBVIOUS
    <2>4. \A i \in 1..2 : Append(<<m>>, n)[i] = <<m, n>>[i]
      BY <2>2, <2>3
    <2> QED
      BY <1>2, <2>1, <2>2, <2>4, SeqEqual
  <1> QED
    BY <1>1, <1>2, <1>3, <1>4

LEMMA EventsAre ==
    ASSUME NEW m \in MidiMessages
    PROVE  Events(m) \in Seq(Nat)
  <1>1. m.data \in Seq(Bytes) /\ m.status \in Bytes
    BY DEF MidiMessages
  <1>2. m.data \in Seq(Nat) /\ m.status \in Nat
    <2>1. Bytes \subseteq Nat
      BY DEF Bytes
    <2> QED
      BY <1>1, <2>1, SeqMonotonic
  <1>3. /\ << >> \in Seq(Nat) /\ <<m.status>> \in Seq(Nat)
        /\ <<StartMark>> \in Seq(Nat) /\ <<EndMark>> \in Seq(Nat)
    BY <1>2 DEF StartMark, EndMark
  <1>4. CASE ~m.chunk
    BY <1>2, <1>3, <1>4, ConcatProperties DEF Events
  <1>5. CASE m.chunk
    <2> DEFINE head == IF m.start THEN <<StartMark>> ELSE << >>
               last == IF m.end THEN <<EndMark>> ELSE << >>
    <2>1. head \in Seq(Nat) /\ last \in Seq(Nat)
      BY <1>3
    <2>2. Events(m) = (head \o m.data) \o last
      BY <1>5 DEF Events
    <2> HIDE DEF head, last
    <2> QED
      BY <1>2, <2>1, <2>2, ConcatProperties
  <1> QED
    BY <1>4, <1>5

LEMMA StreamMaps ==
    /\ Maps(MarkOf, Bytes, Seq(Nat)) /\ Maps(AloneOf, Bytes, Seq(MidiMessages))
    /\ Maps(EventOf, MidiMessages, Seq(Nat)) /\ Maps(RealOf, MidiMessages, Seq(MidiMessages))
  <1>1. ASSUME NEW b \in Bytes PROVE MarkOf[b] \in Seq(Nat)
    <2>1. Mark(b) \in Nat
      BY DEF Mark, StartMark, EndMark, Bytes
    <2>2. << >> \in Seq(Nat) /\ <<Mark(b)>> \in Seq(Nat)
      BY <2>1
    <2> QED
      BY <2>2 DEF MarkOf
  <1>2. ASSUME NEW b \in Bytes PROVE AloneOf[b] \in Seq(MidiMessages)
    <2>1. << >> \in Seq(Bytes)
      OBVIOUS
    <2>2. ShortMessage(b, << >>) \in MidiMessages
      BY <2>1, ShortIsMessage
    <2>3. << >> \in Seq(MidiMessages) /\ <<ShortMessage(b, << >>)>> \in Seq(MidiMessages)
      BY <2>2, SmallSeqs
    <2> QED
      BY <2>3 DEF AloneOf
  <1>3. ASSUME NEW m \in MidiMessages PROVE EventOf[m] \in Seq(Nat)
    <2>1. << >> \in Seq(Nat)
      OBVIOUS
    <2> QED
      BY <2>1, EventsAre DEF EventOf
  <1>4. ASSUME NEW m \in MidiMessages PROVE RealOf[m] \in Seq(MidiMessages)
    BY SmallSeqs DEF RealOf
  <1> QED
    BY <1>1, <1>2, <1>3, <1>4 DEF Maps

LEMMA StreamsOf ==
    ASSUME NEW ms \in Seq(MidiMessages)
    PROVE  EventsOf(ms) = FlatMap(EventOf, ms) /\ RealTimeOf(ms) = FlatMap(RealOf, ms)
  <1>1. \A i \in 1..Len(ms) : ms[i] \in MidiMessages
    BY ElementOfSeq
  <1>2. [i \in 1..Len(ms) |-> IF IsRealTime(ms[i]) THEN << >> ELSE Events(ms[i])]
            = Mapped(EventOf, ms)
    BY <1>1 DEF Mapped, EventOf
  <1>3. [i \in 1..Len(ms) |-> IF IsRealTime(ms[i]) THEN <<ms[i]>> ELSE << >>]
            = Mapped(RealOf, ms)
    BY <1>1 DEF Mapped, RealOf
  <1> QED
    BY <1>2, <1>3, Zenon DEF EventsOf, RealTimeOf, FlatMap

LEMMA ByteStreams ==
    ASSUME NEW s \in Seq(Bytes)
    PROVE  /\ FlatMap(MarkOf, s) \in Seq(Nat) /\ FlatMap(AloneOf, s) \in Seq(MidiMessages)
           /\ \A t \in Seq(Bytes) :
                  /\ FlatMap(MarkOf, s \o t) = FlatMap(MarkOf, s) \o FlatMap(MarkOf, t)
                  /\ FlatMap(AloneOf, s \o t) = FlatMap(AloneOf, s) \o FlatMap(AloneOf, t)
  <1>1. Maps(MarkOf, Bytes, Seq(Nat)) /\ Maps(AloneOf, Bytes, Seq(MidiMessages))
    BY StreamMaps
  <1>2. FlatMap(MarkOf, s) \in Seq(Nat) /\ FlatMap(AloneOf, s) \in Seq(MidiMessages)
    BY <1>1, FlatMapIsSeq
  <1>3. ASSUME NEW t \in Seq(Bytes)
        PROVE  /\ FlatMap(MarkOf, s \o t) = FlatMap(MarkOf, s) \o FlatMap(MarkOf, t)
               /\ FlatMap(AloneOf, s \o t) = FlatMap(AloneOf, s) \o FlatMap(AloneOf, t)
    BY <1>1, FlatMapConcat
  <1> QED
    BY <1>2, <1>3

LEMMA MessageStreams ==
    ASSUME NEW s \in Seq(MidiMessages)
    PROVE  /\ FlatMap(EventOf, s) \in Seq(Nat) /\ FlatMap(RealOf, s) \in Seq(MidiMessages)
           /\ \A t \in Seq(MidiMessages) :
                  /\ FlatMap(EventOf, s \o t) = FlatMap(EventOf, s) \o FlatMap(EventOf, t)
                  /\ FlatMap(RealOf, s \o t) = FlatMap(RealOf, s) \o FlatMap(RealOf, t)
  <1>1. /\ Maps(EventOf, MidiMessages, Seq(Nat))
        /\ Maps(RealOf, MidiMessages, Seq(MidiMessages))
    BY StreamMaps
  <1>2. FlatMap(EventOf, s) \in Seq(Nat) /\ FlatMap(RealOf, s) \in Seq(MidiMessages)
    BY <1>1, FlatMapIsSeq
  <1>3. ASSUME NEW t \in Seq(MidiMessages)
        PROVE  /\ FlatMap(EventOf, s \o t) = FlatMap(EventOf, s) \o FlatMap(EventOf, t)
               /\ FlatMap(RealOf, s \o t) = FlatMap(RealOf, s) \o FlatMap(RealOf, t)
    BY <1>1, FlatMapConcat
  <1> QED
    BY <1>2, <1>3

LEMMA DataMarks ==
    ASSUME NEW x \in 0..127
    PROVE  MarkOf[x] = <<x>> /\ AloneOf[x] = << >>
  <1>1. x \in Bytes /\ x # SysExStart /\ x # SysExEnd /\ ~IsSystemRealTime(x)
    BY DEF Bytes, SysExStart, SysExEnd, IsSystemRealTime
  <1> QED
    BY <1>1 DEF MarkOf, AloneOf, Mark

LEMMA MarkEach ==
    ASSUME NEW s \in Seq(Bytes), NEW t \in Seq(Nat), Len(s) = Len(t),
           \A i \in 1..Len(s) : MarkOf[s[i]] = <<t[i]>>
    PROVE  FlatMap(MarkOf, s) = t
  <1> DEFINE S == Nat
  <1>1. Maps(MarkOf, Bytes, Seq(S)) /\ t \in Seq(S)
    BY StreamMaps
  <1> HIDE DEF S
  <1> QED
    BY <1>1, FlatMapEach

(* Data is events as it is, and no System Real-Time.                       *)
LEMMA DataStreams ==
    ASSUME NEW d \in Seq(Bytes), \A i \in 1..Len(d) : d[i] \in 0..127
    PROVE  FlatMap(MarkOf, d) = d /\ FlatMap(AloneOf, d) = << >> /\ d \in Seq(Nat)
  <1>1. d \in Seq(Nat)
    <2>1. Bytes \subseteq Nat
      BY DEF Bytes
    <2> QED
      BY <2>1, SeqMonotonic
  <1>2. \A i \in 1..Len(d) : MarkOf[d[i]] = <<d[i]>> /\ AloneOf[d[i]] = << >>
    BY DataMarks
  <1>3. FlatMap(MarkOf, d) = d
    <2>1. Len(d) = Len(d) /\ \A i \in 1..Len(d) : MarkOf[d[i]] = <<d[i]>>
      BY <1>2
    <2> QED
      BY <1>1, <2>1, MarkEach
  <1>4. FlatMap(AloneOf, d) = << >>
    BY <1>2, StreamMaps, FlatMapNone
  <1> QED
    BY <1>1, <1>3, <1>4

LEMMA OneByte ==
    ASSUME NEW b \in Bytes
    PROVE  /\ FlatMap(MarkOf, <<b>>) = MarkOf[b] /\ FlatMap(AloneOf, <<b>>) = AloneOf[b]
           /\ <<b>> \in Seq(Bytes)
  BY StreamMaps, FlatMapOne

(* What messages say, by their number.                                     *)
LEMMA NoneSays == FlatMap(EventOf, << >>) = << >> /\ FlatMap(RealOf, << >>) = << >>
  BY FlatMapEmpty

LEMMA OneSays ==
    ASSUME NEW m \in MidiMessages
    PROVE  FlatMap(EventOf, <<m>>) = EventOf[m] /\ FlatMap(RealOf, <<m>>) = RealOf[m]
  BY StreamMaps, FlatMapOne

LEMMA TwoSay ==
    ASSUME NEW m \in MidiMessages, NEW n \in MidiMessages
    PROVE  /\ FlatMap(EventOf, <<m, n>>) = EventOf[m] \o EventOf[n]
           /\ FlatMap(RealOf, <<m, n>>) = RealOf[m] \o RealOf[n]
  <1>1. <<m>> \in Seq(MidiMessages) /\ Append(<<m>>, n) = <<m, n>>
    BY SmallSeqs
  <1>2. /\ FlatMap(EventOf, Append(<<m>>, n)) = FlatMap(EventOf, <<m>>) \o EventOf[n]
        /\ FlatMap(RealOf, Append(<<m>>, n)) = FlatMap(RealOf, <<m>>) \o RealOf[n]
    <2>1. \A p \in Seq(MidiMessages) :
              /\ FlatMap(EventOf, Append(p, n)) = FlatMap(EventOf, p) \o EventOf[n]
              /\ FlatMap(RealOf, Append(p, n)) = FlatMap(RealOf, p) \o RealOf[n]
      BY StreamMaps, FlatMapAppend
    <2> QED
      BY <1>1, <2>1, Zenon
  <1> QED
    BY <1>1, <1>2, OneSays, Zenon
=============================================================================
