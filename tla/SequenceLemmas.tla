----------------------------- MODULE SequenceLemmas -----------------------------
(***************************************************************************)
(* Lemmas on natural numbers, intervals, concatenations and division that  *)
(* the proofs of several components rest on.  Induction is by a least      *)
(* counterexample: what holds of no least natural number of a set holds of *)
(* none.                                                                   *)
(***************************************************************************)
EXTENDS Integers, SequencesExt, FiniteSetTheorems, SequenceTheorems, WellFoundedInduction, TLAPS

LEMMA Least ==
  ASSUME NEW T, T \subseteq Nat, T # {}
  PROVE  \E m \in T : \A k \in T : m <= k
<1> DEFINE R == OpToRel(<, Nat)
<1>1. \A k, m \in Nat : <<k, m>> \in R <=> k < m
  BY DEF OpToRel
<1>2. IsWellFoundedOn(R, Nat)
  BY NatLessThanWellFounded
<1> HIDE DEF R
<1>3. PICK m \in T : \A k \in T : ~(<<k, m>> \in R)
  BY <1>2, WFMin
<1>4. m \in Nat /\ \A k \in T : k \in Nat /\ ~(k < m)
  BY <1>1, <1>3
<1>5. \A k \in T : m <= k
  BY <1>4
<1>6. QED
  BY <1>3, <1>5

\* A set of indexes that has with each all the smaller ones.
LEMMA Prefix ==
  ASSUME NEW L \in Nat, NEW P, P \subseteq 1 .. L, \A i \in P : \A j \in 1 .. i : j \in P
  PROVE  Cardinality(P) \in 0 .. L /\ P = 1 .. Cardinality(P)
<1> DEFINE T == {m \in 1 .. L + 1 : m \notin P}
<1>1. T \subseteq Nat /\ L + 1 \in T
  OBVIOUS
<1>2. PICK m \in T : \A k \in T : m <= k
  BY <1>1, Least
<1>3. m \in 1 .. L + 1 /\ m \notin P /\ \A k \in 1 .. m - 1 : k \in P
  BY <1>2
<1>4. P = 1 .. m - 1
  <2>1. ASSUME NEW i \in P PROVE i \in 1 .. m - 1
    <3>1. i \in Nat /\ 1 <= i /\ (m <= i => m \in 1 .. i)
      BY <1>3
    <3>2. m \notin 1 .. i
      BY <1>3
    <3>3. QED
      BY <1>3, <3>1, <3>2
  <2>2. QED
    BY <1>3, <2>1
<1>5. Cardinality(1 .. m - 1) = m - 1
  BY <1>3, FS_Interval
<1>6. QED
  BY <1>3, <1>4, <1>5

-------------------------------------------------------------------------------
(* FlattenSeq *)

\* The concatenations of the first sequences of s.
Joins(s, f, n) == f = [i \in 1 .. n |-> IF i = 1 THEN s[i] ELSE f[i - 1] \o s[i]]

LEMMA JoinsExist ==
  ASSUME NEW s, NEW n \in Nat
  PROVE  \E f : Joins(s, f, n)
<1> DEFINE T == {k \in Nat : ~\E f : Joins(s, f, k)}
<1>1. SUFFICES ASSUME T # {} PROVE FALSE
  OBVIOUS
<1>2. T \subseteq Nat
  OBVIOUS
<1>3. PICK m \in T : \A k \in T : m <= k
  BY <1>1, <1>2, Least
<1>4. m # 0
  <2> DEFINE f == [i \in 1 .. 0 |-> {}]
  <2>1. Joins(s, f, 0)
    BY DEF Joins
  <2>2. QED
    BY <2>1
<1>5. m - 1 \in Nat /\ m - 1 \notin T
  BY <1>3, <1>4
<1>6. PICK f : Joins(s, f, m - 1)
  BY <1>5
<1> DEFINE g == [i \in 1 .. m |-> IF i = 1 THEN s[i] ELSE f[i - 1] \o s[i]]
<1>7. \A i \in 1 .. m - 1 : g[i] = f[i]
  <2>1. ASSUME NEW i \in 1 .. m - 1 PROVE g[i] = f[i]
    <3>1. f[i] = IF i = 1 THEN s[i] ELSE f[i - 1] \o s[i]
      BY <1>6, <2>1 DEF Joins
    <3>2. i \in 1 .. m
      BY <1>3, <2>1
    <3>3. QED
      BY <3>1, <3>2
  <2>2. QED
    BY <2>1
<1>8. \A i \in 1 .. m : g[i] = IF i = 1 THEN s[i] ELSE g[i - 1] \o s[i]
  <2>1. ASSUME NEW i \in 1 .. m PROVE g[i] = IF i = 1 THEN s[i] ELSE g[i - 1] \o s[i]
    <3>1. i = 1 \/ i - 1 \in 1 .. m - 1
      BY <1>3, <2>1
    <3>2. g[i] = IF i = 1 THEN s[i] ELSE f[i - 1] \o s[i]
      OBVIOUS
    <3> HIDE DEF g
    <3>3. QED
      BY <1>7, <3>1, <3>2
  <2>2. QED
    BY <2>1
<1>9. Joins(s, g, m)
  BY <1>8 DEF Joins
<1>10. QED
  BY <1>9

LEMMA FlattenUnfolds ==
  ASSUME NEW s, Len(s) \in Nat \ {0}
  PROVE  \E f : Joins(s, f, Len(s)) /\ FlattenSeq(s) = f[Len(s)]
<1> DEFINE f == CHOOSE g : Joins(s, g, Len(s))
<1>1. Joins(s, f, Len(s))
  BY JoinsExist
<1>2. FlattenSeq(s) = f[Len(s)]
  BY DEF FlattenSeq, Joins
<1>3. QED
  BY <1>1, <1>2

\* Every element of t comes from one of the first n sequences of s, in the order of
\* those, and each of theirs is there.
Joined(s, t, n) ==
  /\ \A i \in 1 .. n : ToSet(s[i]) \subseteq ToSet(t)
  /\ \E owner \in [DOMAIN t -> 1 .. n] :
       /\ \A k \in DOMAIN t : t[k] \in ToSet(s[owner[k]])
       /\ \A k, l \in DOMAIN t : k <= l => owner[k] <= owner[l]

LEMMA JoinNothing == ASSUME NEW s, NEW t, DOMAIN t = {} PROVE Joined(s, t, 0)
<1> DEFINE none == [k \in DOMAIN t |-> 1]
<1>1. none \in [DOMAIN t -> 1 .. 0]
  OBVIOUS
<1>2. \A k \in DOMAIN t : FALSE
  OBVIOUS
<1>3. \A i \in 1 .. 0 : FALSE
  OBVIOUS
<1> HIDE DEF none
<1>4. QED
  BY <1>1, <1>2, <1>3 DEF Joined

LEMMA JoinOneMore ==
  ASSUME NEW S, NEW s, NEW n \in Nat, NEW t \in Seq(S), Joined(s, t, n), s[n + 1] \in Seq(S)
  PROVE  t \o s[n + 1] \in Seq(S) /\ Joined(s, t \o s[n + 1], n + 1)
<1> DEFINE x == s[n + 1]
           u == t \o x
<1>1. /\ Len(t) \in Nat /\ DOMAIN t = 1 .. Len(t) /\ Len(x) \in Nat /\ DOMAIN x = 1 .. Len(x)
      /\ u \in Seq(S) /\ DOMAIN u = 1 .. Len(t) + Len(x)
      /\ \A k \in DOMAIN u : u[k] = IF k <= Len(t) THEN t[k] ELSE x[k - Len(t)]
  <2>1. u \in Seq(S) /\ Len(u) = Len(t) + Len(x)
    BY ConcatProperties
  <2>2. \A k \in 1 .. Len(t) + Len(x) : u[k] = IF k <= Len(t) THEN t[k] ELSE x[k - Len(t)]
    BY ConcatProperties
  <2>3. QED
    BY <2>1, <2>2, LenProperties
<1> HIDE DEF u, x
<1>2. PICK owner \in [DOMAIN t -> 1 .. n] :
        /\ \A k \in DOMAIN t : t[k] \in ToSet(s[owner[k]])
        /\ \A k, l \in DOMAIN t : k <= l => owner[k] <= owner[l]
  BY DEF Joined
<1> DEFINE both == [k \in DOMAIN u |-> IF k <= Len(t) THEN owner[k] ELSE n + 1]
<1>3. both \in [DOMAIN u -> 1 .. n + 1]
  BY <1>1, <1>2
<1>4. \A k \in DOMAIN u : u[k] \in ToSet(s[both[k]])
  <2>1. ASSUME NEW k \in DOMAIN u PROVE u[k] \in ToSet(s[both[k]])
    <3>1. CASE k <= Len(t)
      <4>1. k \in DOMAIN t /\ u[k] = t[k] /\ both[k] = owner[k]
        BY <1>1, <3>1
      <4>2. QED
        BY <1>2, <4>1
    <3>2. CASE ~(k <= Len(t))
      <4>1. k - Len(t) \in DOMAIN x /\ u[k] = x[k - Len(t)] /\ both[k] = n + 1
        BY <1>1, <3>2
      <4>2. u[k] \in ToSet(x)
        BY <4>1 DEF ToSet
      <4>3. QED
        BY <4>1, <4>2 DEF x
    <3>3. QED
      BY <3>1, <3>2
  <2>2. QED
    BY <2>1
<1>5. \A k, l \in DOMAIN u : k <= l => both[k] <= both[l]
  BY <1>1, <1>2
<1>6. ToSet(t) \subseteq ToSet(u) /\ ToSet(x) \subseteq ToSet(u)
  <2>1. ASSUME NEW k \in DOMAIN t PROVE t[k] \in ToSet(u)
    <3>1. k \in DOMAIN u /\ u[k] = t[k]
      BY <1>1
    <3>2. QED
      BY <3>1 DEF ToSet
  <2>2. ASSUME NEW k \in DOMAIN x PROVE x[k] \in ToSet(u)
    <3>1. k + Len(t) \in DOMAIN u /\ u[k + Len(t)] = x[k]
      BY <1>1
    <3>2. QED
      BY <3>1 DEF ToSet
  <2>3. QED
    BY <2>1, <2>2 DEF ToSet
<1>7. \A i \in 1 .. n + 1 : ToSet(s[i]) \subseteq ToSet(u)
  BY <1>6 DEF Joined, x
<1> HIDE DEF both
<1>8. Joined(s, u, n + 1)
  BY <1>3, <1>4, <1>5, <1>7 DEF Joined
<1>9. QED
  BY <1>1, <1>8 DEF u, x

LEMMA Flattening ==
  ASSUME NEW S, NEW s \in Seq(Seq(S))
  PROVE  FlattenSeq(s) \in Seq(S) /\ Joined(s, FlattenSeq(s), Len(s))
<1>1. Len(s) \in Nat /\ DOMAIN s = 1 .. Len(s) /\ \A i \in 1 .. Len(s) : s[i] \in Seq(S)
  BY LenProperties
<1>2. CASE Len(s) = 0
  <2>1. FlattenSeq(s) = s /\ s = <<>> /\ DOMAIN s = {}
    BY <1>1, <1>2, EmptySeq DEF FlattenSeq
  <2>2. Joined(s, s, 0)
    BY <2>1, JoinNothing
  <2>3. <<>> \in Seq(S)
    OBVIOUS
  <2>4. QED
    BY <1>2, <2>1, <2>2, <2>3
<1>3. CASE Len(s) # 0
  <2>1. PICK f : Joins(s, f, Len(s)) /\ FlattenSeq(s) = f[Len(s)]
    BY <1>1, <1>3, FlattenUnfolds
  <2>2. \A i \in 1 .. Len(s) : f[i] = IF i = 1 THEN s[i] ELSE f[i - 1] \o s[i]
    BY <2>1 DEF Joins
  <2> DEFINE T == {n \in 1 .. Len(s) : ~(f[n] \in Seq(S) /\ Joined(s, f[n], n))}
  <2>3. SUFFICES ASSUME T # {} PROVE FALSE
    BY <1>1, <1>3, <2>1
  <2>4. T \subseteq Nat
    OBVIOUS
  <2>5. PICK m \in T : \A k \in T : m <= k
    BY <2>3, <2>4, Least
  <2>6. m # 1
    <3>1. Joined(s, <<>>, 0)
      BY JoinNothing
    <3>2. <<>> \in Seq(S) /\ s[0 + 1] \in Seq(S)
      BY <1>1, <1>3
    <3>3. <<>> \o s[0 + 1] \in Seq(S) /\ Joined(s, <<>> \o s[0 + 1], 0 + 1)
      BY <3>1, <3>2, JoinOneMore
    <3>4. <<>> \o s[1] = s[1]
      BY <3>2, ConcatEmptySeq
    <3>5. f[1] = s[1]
      BY <1>1, <1>3, <2>2
    <3>6. QED
      BY <2>5, <3>3, <3>4, <3>5
  <2>7. m - 1 \in 1 .. Len(s) /\ m - 1 \notin T /\ m = (m - 1) + 1 /\ m - 1 \in Nat
    BY <1>1, <2>5, <2>6
  <2>8. f[m - 1] \o s[m] \in Seq(S) /\ Joined(s, f[m - 1] \o s[m], m)
    BY <1>1, <2>5, <2>7, JoinOneMore
  <2>9. QED
    BY <2>2, <2>5, <2>6, <2>8
<1>4. QED
  BY <1>2, <1>3

LEMMA FlattenOneMore ==
  ASSUME NEW S, NEW s \in Seq(Seq(S)), NEW x \in Seq(S)
  PROVE  FlattenSeq(Append(s, x)) = FlattenSeq(s) \o x
<1> DEFINE n == Len(s)
           t == Append(s, x)
<1>1. /\ n \in Nat /\ DOMAIN s = 1 .. n /\ t \in Seq(Seq(S)) /\ Len(t) = n + 1
      /\ t[n + 1] = x /\ \A i \in 1 .. n : t[i] = s[i]
  BY LenProperties, AppendProperties
<1> HIDE DEF t
<1>2. PICK g : Joins(t, g, n + 1) /\ FlattenSeq(t) = g[n + 1]
  <2>1. Len(t) \in Nat \ {0}
    BY <1>1
  <2>2. PICK g : Joins(t, g, Len(t)) /\ FlattenSeq(t) = g[Len(t)]
    BY <2>1, FlattenUnfolds
  <2>3. QED
    BY <1>1, <2>2
<1>3. \A i \in 1 .. n + 1 : g[i] = IF i = 1 THEN t[i] ELSE g[i - 1] \o t[i]
  BY <1>2 DEF Joins
<1>4. CASE n = 0
  <2>1. FlattenSeq(s) = s /\ s = <<>>
    BY <1>4, EmptySeq DEF FlattenSeq
  <2>2. g[n + 1] = x /\ <<>> \o x = x
    BY <1>1, <1>3, <1>4, ConcatEmptySeq
  <2>3. QED
    BY <1>2, <2>1, <2>2 DEF t
<1>5. CASE n # 0
  <2>1. PICK f : Joins(s, f, n) /\ FlattenSeq(s) = f[n]
    BY <1>1, <1>5, FlattenUnfolds
  <2>2. \A i \in 1 .. n : f[i] = IF i = 1 THEN s[i] ELSE f[i - 1] \o s[i]
    BY <2>1 DEF Joins
  <2> DEFINE T == {i \in 1 .. n : g[i] # f[i]}
  <2>3. T = {}
    <3>1. SUFFICES ASSUME T # {} PROVE FALSE
      OBVIOUS
    <3>2. T \subseteq Nat
      OBVIOUS
    <3>3. PICK m \in T : \A k \in T : m <= k
      BY <3>1, <3>2, Least
    <3>4. m # 1
      BY <1>1, <1>3, <2>2, <3>3
    <3>5. m - 1 \in 1 .. n /\ m - 1 \notin T
      <4>1. m \in 1 .. n /\ m - 1 \in 1 .. n /\ ~(m <= m - 1)
        BY <1>1, <3>3, <3>4
      <4> HIDE DEF T, n
      <4>2. QED
        BY <3>3, <4>1
    <3>6. g[m - 1] = f[m - 1]
      BY <3>5
    <3>7. m \in 1 .. n + 1 /\ m \in 1 .. n
      BY <1>1, <3>3
    <3>8. g[m] = f[m]
      BY <1>1, <1>3, <2>2, <3>4, <3>6, <3>7
    <3>9. QED
      BY <3>3, <3>8
  <2>4. g[n] = f[n]
    <3>1. n \in 1 .. n
      BY <1>1, <1>5
    <3> HIDE DEF n
    <3>2. QED
      BY <2>3, <3>1
  <2>5. n + 1 \in 1 .. n + 1 /\ n + 1 # 1 /\ (n + 1) - 1 = n
    BY <1>1, <1>5
  <2>6. g[n + 1] = f[n] \o x
    BY <1>1, <1>3, <2>4, <2>5
  <2>7. QED
    BY <1>2, <2>1, <2>6 DEF t
<1>6. QED
  BY <1>4, <1>5

LEMMA FlattenNothing ==
  ASSUME NEW s, Len(s) = 0
  PROVE  FlattenSeq(s) = s
BY DEF FlattenSeq

LEMMA FlattenOne ==
  ASSUME NEW S, NEW x \in Seq(S)
  PROVE  FlattenSeq(<<x>>) = x
<1>1. PICK s \in Seq(Seq(S)) : s = <<>>
  BY EmptySeq
<1>2. FlattenSeq(s) = s
  BY <1>1, FlattenNothing
<1>3. FlattenSeq(Append(s, x)) = FlattenSeq(s) \o x
  BY FlattenOneMore
<1>4. Append(s, x) = <<x>>
  BY <1>1
<1>5. s \o x = x
  BY <1>1, ConcatEmptySeq
<1>6. QED
  BY <1>2, <1>3, <1>4, <1>5

\* What is in front can be taken off as well.
LEMMA FlattenFirst ==
  ASSUME NEW S, NEW s \in Seq(Seq(S)), s # <<>>
  PROVE  /\ Head(s) \in Seq(S) /\ FlattenSeq(Tail(s)) \in Seq(S)
         /\ FlattenSeq(s) = Head(s) \o FlattenSeq(Tail(s))
<1> DEFINE h == Head(s)
           t == Tail(s)
           n == Len(t)
           T == {m \in 0 .. n : FlattenSeq(SubSeq(s, 1, m + 1)) # h \o FlattenSeq(SubSeq(t, 1, m))}
<1>1. /\ h \in Seq(S) /\ t \in Seq(Seq(S)) /\ n \in Nat /\ Len(s) = n + 1 /\ h = s[1]
      /\ \A i \in 1 .. n : t[i] = s[i + 1]
  <2>1. Len(s) \in Nat \ {0}
    BY EmptySeq
  <2>2. s[1] \in Seq(S) /\ Head(s) = s[1]
    BY <2>1
  <2>3. QED
    BY <2>1, <2>2, HeadTailProperties
<1>2. FlattenSeq(t) \in Seq(S)
  BY <1>1, Flattening
<1> HIDE DEF h, t
<1>3. T = {}
  <2>1. SUFFICES ASSUME T # {} PROVE FALSE
    OBVIOUS
  <2>2. T \subseteq 0 .. n
    OBVIOUS
  <2>3. PICK m \in T : \A k \in T : m <= k
    <3>1. T \subseteq Nat
      <4> HIDE DEF T
      <4>1. QED
        BY <1>1, <2>2
    <3> HIDE DEF T
    <3>2. QED
      BY <2>1, <3>1, Least
  <2>4. m \in 0 .. n
    BY <2>3
  <2>5. m # 0
    <3>1. SUFFICES ASSUME m = 0 PROVE FALSE
      OBVIOUS
    <3>2. SubSeq(s, 1, 1) = <<h>>
      <4>1. 1 \in 1 .. Len(s)
        BY <1>1
      <4>2. SubSeq(s, 1, 1) = << s[1] >> \o SubSeq(s, 1 + 1, 1)
        BY <4>1, SubSeqRecursiveFirst
      <4>3. SubSeq(s, 1 + 1, 1) = <<>>
        BY SubSeqEmpty
      <4>4. <<h>> \in Seq(Seq(S))
        BY <1>1
      <4>5. <<h>> \o <<>> = <<h>>
        BY <4>4, ConcatEmptySeq
      <4>6. QED
        BY <1>1, <4>2, <4>3, <4>5
    <3>3. FlattenSeq(<<h>>) = h
      BY <1>1, FlattenOne
    <3>4. SubSeq(t, 1, 0) = <<>>
      BY SubSeqEmpty
    <3>5. Len(<<>>) = 0
      BY EmptySeq
    <3>6. FlattenSeq(<<>>) = <<>>
      BY <3>5, FlattenNothing
    <3>7. h \o <<>> = h
      BY <1>1, ConcatEmptySeq
    <3> HIDE DEF T, n
    <3>8. SubSeq(s, 1, m + 1) = <<h>> /\ SubSeq(t, 1, m) = <<>>
      BY <3>1, <3>2, <3>4
    <3>9. FlattenSeq(SubSeq(s, 1, m + 1)) = h \o FlattenSeq(SubSeq(t, 1, m))
      BY <3>3, <3>6, <3>7, <3>8
    <3>10. QED
      BY <2>3, <3>9 DEF T
  <2>6. m - 1 \in 0 .. n /\ m - 1 \notin T
    <3>1. m - 1 \in 0 .. n /\ ~(m <= m - 1)
      BY <1>1, <2>4, <2>5
    <3> HIDE DEF T
    <3>2. QED
      BY <2>3, <3>1
  <2>7. FlattenSeq(SubSeq(s, 1, m)) = h \o FlattenSeq(SubSeq(t, 1, m - 1))
    <3>1. (m - 1) + 1 = m
      BY <2>4
    <3>2. QED
      BY <2>6, <3>1
  <2> DEFINE x == t[m]
             u == SubSeq(s, 1, m)
             v == SubSeq(t, 1, m - 1)
  <2>8. /\ x \in Seq(S) /\ u \in Seq(Seq(S)) /\ v \in Seq(Seq(S))
        /\ SubSeq(s, 1, m + 1) = Append(u, x) /\ SubSeq(t, 1, m) = Append(v, x)
    <3>1. m \in 1 .. n
      BY <2>4, <2>5
    <3>2. x \in Seq(S) /\ x = s[m + 1]
      BY <1>1, <3>1, ElementOfSeq
    <3>3. m \in 1 .. Len(s) /\ m + 1 \in 1 .. Len(s) /\ m + 1 \in 1 .. m + 1 /\ 1 \in 1 .. Len(s) /\ (m + 1) - 1 = m
      BY <1>1, <3>1
    <3>4. u \in Seq(Seq(S)) /\ v \in Seq(Seq(S))
      <4>1. \A i \in 1 .. m : s[i] \in Seq(S)
        BY <1>1, <3>1, ElementOfSeq
      <4>2. \A i \in 1 .. m - 1 : t[i] \in Seq(S)
        BY <1>1, <3>1, ElementOfSeq
      <4>3. m \in Int /\ m - 1 \in Int
        BY <3>1
      <4>4. QED
        BY <4>1, <4>2, <4>3, SubSeqProperties
    <3>5. SubSeq(s, 1, m + 1) = u \o <<s[m + 1]>>
      <4>1. SubSeq(s, 1, m + 1) = SubSeq(s, 1, (m + 1) - 1) \o <<s[m + 1]>>
        BY <1>1, <3>3, SubSeqRecursiveSecond
      <4>2. QED
        BY <3>3, <4>1
    <3>6. SubSeq(t, 1, m) = v \o <<t[m]>>
      <4>1. 1 \in 1 .. Len(t) /\ m \in 1 .. Len(t)
        BY <3>1
      <4>2. QED
        BY <1>1, <4>1, SubSeqRecursiveSecond
    <3> HIDE DEF u, v, x
    <3>7. Append(u, x) = u \o <<x>> /\ Append(v, x) = v \o <<x>>
      BY <3>2, <3>4, AppendIsConcat
    <3>8. QED
      BY <3>2, <3>4, <3>5, <3>6, <3>7 DEF x
  <2> HIDE DEF x, u, v
  <2>9. FlattenSeq(u) \in Seq(S) /\ FlattenSeq(v) \in Seq(S)
    BY <2>8, Flattening
  <2>10. FlattenSeq(Append(u, x)) = FlattenSeq(u) \o x /\ FlattenSeq(Append(v, x)) = FlattenSeq(v) \o x
    BY <2>8, FlattenOneMore
  <2>11. (h \o FlattenSeq(v)) \o x = h \o (FlattenSeq(v) \o x)
    <3> DEFINE w == FlattenSeq(v)
    <3>1. h \in Seq(S) /\ w \in Seq(S) /\ x \in Seq(S)
      BY <1>1, <2>8, <2>9
    <3> HIDE DEF T, n, w
    <3>2. (h \o w) \o x = h \o (w \o x)
      BY <3>1, ConcatAssociative
    <3>3. QED
      BY <3>2 DEF w
  <2>12. FlattenSeq(u) = h \o FlattenSeq(v)
    BY <2>7 DEF u, v
  <2>13. FlattenSeq(SubSeq(s, 1, m + 1)) = h \o FlattenSeq(SubSeq(t, 1, m))
    BY <2>8, <2>10, <2>11, <2>12
  <2>14. QED
    BY <2>3, <2>13
<1>4. n \in 0 .. n
  BY <1>1
<1>5. SubSeq(s, 1, Len(s)) = s /\ SubSeq(t, 1, Len(t)) = t
  BY <1>1, SubSeqFull
<1> HIDE DEF n
<1>6. FlattenSeq(SubSeq(s, 1, n + 1)) = h \o FlattenSeq(SubSeq(t, 1, n))
  BY <1>3, <1>4
<1>7. QED
  BY <1>1, <1>2, <1>5, <1>6 DEF h, t, n

\* t is s with x in front of it.
InFront(x, s, t) == Len(t) = Len(s) + 1 /\ t[1] = x /\ \A i \in 1 .. Len(s) : t[i + 1] = s[i]

LEMMA FlattenInFront ==
  ASSUME NEW S, NEW x \in Seq(S), NEW s \in Seq(Seq(S)), NEW t \in Seq(Seq(S)), InFront(x, s, t)
  PROVE  FlattenSeq(s) \in Seq(S) /\ FlattenSeq(t) = x \o FlattenSeq(s)
<1>1. Len(s) \in Nat
  OBVIOUS
<1>2. t # <<>> /\ Head(t) = x
  <2>1. Len(t) # 0
    BY <1>1 DEF InFront
  <2>2. t # <<>>
    BY <2>1, EmptySeq
  <2>3. QED
    BY <2>2 DEF InFront
<1>3. Tail(t) \in Seq(Seq(S)) /\ Len(Tail(t)) = Len(s) /\ \A i \in 1 .. Len(Tail(t)) : Tail(t)[i] = t[i + 1]
  BY <1>1, <1>2, HeadTailProperties DEF InFront
<1> DEFINE u == Tail(t)
<1>4. u \in Seq(Seq(S)) /\ Len(u) = Len(s) /\ \A i \in 1 .. Len(u) : u[i] = s[i]
  BY <1>3 DEF InFront
<1> HIDE DEF u
<1>5. u = s
  BY <1>4, SeqEqual
<1>6. QED
  BY <1>2, <1>5, FlattenFirst DEF u

-------------------------------------------------------------------------------
(* Ends of a sequence *)

\* A stack and its top.
LEMMA TopOf ==
  ASSUME NEW S, NEW s \in Seq(S), s # <<>>
  PROVE  Last(s) \in S /\ Front(s) \in Seq(S) /\ s = Append(Front(s), Last(s))
<1>1. Len(s) \in Nat \ {0}
  BY EmptySeq
<1> DEFINE n == Len(s) - 1
           f == SubSeq(s, 1, n)
<1>2. n \in Nat /\ n + 1 = Len(s) /\ n + 1 \in 1 .. Len(s) /\ n - 1 + 1 = n
  BY <1>1
<1>3. Front(s) = f /\ Last(s) = s[n + 1]
  BY <1>2 DEF Front, Last
<1> HIDE DEF n
<1>4. \A i \in 1 .. n : s[i] \in S
  BY <1>2, ElementOfSeq
<1>5. f \in Seq(S) /\ Len(f) = n /\ \A i \in 1 .. n : f[i] = s[i]
  <2>1. 1 \in Int /\ n \in Int /\ (n < 1 => n = 0) /\ \A i \in 1 .. n : 1 + i - 1 = i
    BY <1>2
  <2>2. /\ f \in Seq(S) /\ Len(f) = IF 1 <= n THEN n - 1 + 1 ELSE 0
        /\ \A i \in 1 .. n - 1 + 1 : f[i] = s[1 + i - 1]
    BY <1>4, <2>1, SubSeqProperties
  <2> HIDE DEF f
  <2>3. QED
    BY <1>2, <2>1, <2>2
<1> DEFINE x == s[n + 1]
           u == Append(f, x)
<1>6. x \in S
  BY <1>2, ElementOfSeq
<1> HIDE DEF f, x
<1>7. u \in Seq(S) /\ Len(u) = n + 1 /\ u[n + 1] = x /\ \A i \in 1 .. n : u[i] = f[i]
  BY <1>5, <1>6, AppendProperties
<1> HIDE DEF u
<1>8. \A i \in 1 .. Len(s) : s[i] = u[i]
  <2>1. TAKE i \in 1 .. Len(s)
  <2>2. i \in 1 .. n \/ i = n + 1
    BY <1>2
  <2>3. QED
    BY <1>5, <1>7, <2>2 DEF x
<1>9. s = u
  BY <1>2, <1>7, <1>8, SeqEqual
<1>10. QED
  BY <1>3, <1>5, <1>6, <1>9 DEF u, x

LEMMA Halves ==
  ASSUME NEW S, NEW s \in Seq(S), Len(s) > 0
  PROVE  Head(s) \in S /\ Tail(s) \in Seq(S) /\ <<Head(s)>> \o Tail(s) = s
<1>1. Len(s) \in Nat \ {0}
  OBVIOUS
<1>2. s # <<>>
  BY <1>1, EmptySeq
<1>3. Head(s) \in S /\ Tail(s) \in Seq(S)
  BY <1>2, HeadTailProperties
<1>4. SubSeq(s, 1, Len(s)) = << s[1] >> \o SubSeq(s, 1 + 1, Len(s))
  BY <1>1, SubSeqRecursiveFirst
<1>5. SubSeq(s, 1, Len(s)) = s /\ Tail(s) = SubSeq(s, 2, Len(s)) /\ Head(s) = s[1]
  BY <1>1, <1>2, SubSeqFull, TailIsSubSeq
<1>6. 1 + 1 = 2
  OBVIOUS
<1>7. QED
  BY <1>3, <1>4, <1>5, <1>6

LEMMA SingletonSeq == ASSUME NEW S, NEW h \in S PROVE <<h>> \in Seq(S)
OBVIOUS

\* Three sequences, joined in one way and in another.
Associated(a, b, c) == (a \o b) \o c = a \o (b \o c)

LEMMA Associates ==
  ASSUME NEW S, NEW a \in Seq(S), NEW b \in Seq(S), NEW c \in Seq(S)
  PROVE  Associated(a, b, c)
BY ConcatAssociative DEF Associated

\* And four.
Regrouped(a, b, c, d) == a \o ((b \o c) \o d) = (a \o b) \o (c \o d)

LEMMA Regroup ==
  ASSUME NEW S, NEW a \in Seq(S), NEW b \in Seq(S), NEW c \in Seq(S), NEW d \in Seq(S)
  PROVE  Regrouped(a, b, c, d)
<1>1. (b \o c) \o d = b \o (c \o d)
  BY ConcatAssociative
<1>2. PICK r \in Seq(S) : r = c \o d
  BY ConcatProperties
<1>3. (a \o b) \o r = a \o (b \o r)
  BY ConcatAssociative
<1>4. QED
  BY <1>1, <1>2, <1>3 DEF Regrouped

\* The first of what is to come goes over to what is behind.
Shifted(a, s, p) == a \o (s \o p) = Append(a, Head(s)) \o (Tail(s) \o p)

LEMMA Shift ==
  ASSUME NEW S, NEW a \in Seq(S), NEW s \in Seq(S), NEW p \in Seq(S), Len(s) > 0
  PROVE  Shifted(a, s, p)
<1>1. Head(s) \in S /\ Tail(s) \in Seq(S)
  BY Halves
<1>2. PICK h \in S : h = Head(s)
  BY <1>1
<1>3. <<h>> \in Seq(S)
  BY SingletonSeq
<1>4. PICK o \in Seq(S) : o = <<h>>
  BY <1>3
<1>5. PICK t \in Seq(S) : t = Tail(s)
  BY <1>1
<1>6. o \o t = s
  <2>1. <<Head(s)>> \o Tail(s) = s
    BY Halves
  <2>2. QED
    BY <1>2, <1>4, <1>5, <2>1
<1>7. Regrouped(a, o, t, p)
  BY Regroup
<1>8. Append(a, h) = a \o <<h>>
  BY AppendIsConcat
<1>9. a \o (s \o p) = Append(a, h) \o (t \o p)
  BY <1>4, <1>6, <1>7, <1>8, Zenon DEF Regrouped
<1>10. QED
  BY <1>2, <1>5, <1>9 DEF Shifted

LEMMA FirstOf ==
  ASSUME NEW S, NEW s \in Seq(S), NEW r \in Nat, r > 0, Len(s) >= r
  PROVE  /\ SubSeq(s, 1, r) \in Seq(S) /\ Len(SubSeq(s, 1, r)) = r
         /\ \A i \in 1 .. r : SubSeq(s, 1, r)[i] = s[i]
<1>1. \A i \in 1 .. r : s[i] \in S
  BY ElementOfSeq
<1>2. 1 \in Int /\ r \in Int /\ 1 <= r /\ r - 1 + 1 = r /\ \A i \in 1 .. r : 1 + i - 1 = i
  OBVIOUS
<1>3. /\ SubSeq(s, 1, r) \in Seq(S) /\ Len(SubSeq(s, 1, r)) = IF 1 <= r THEN r - 1 + 1 ELSE 0
      /\ \A i \in 1 .. r - 1 + 1 : SubSeq(s, 1, r)[i] = s[1 + i - 1]
  BY <1>1, <1>2, SubSeqProperties
<1> DEFINE c == SubSeq(s, 1, r)
<1> HIDE DEF c
<1>4. QED
  BY <1>2, <1>3

\* The first bytes of a sequence and its continuation.
LEMMA CutInSecond ==
  ASSUME NEW S, NEW a \in Seq(S), NEW b \in Seq(S), NEW r \in Nat, r > 0, Len(b) >= r
  PROVE  a \o SubSeq(b, 1, r) = SubSeq(a \o b, 1, Len(a) + r)
<1>1. PICK n \in Nat : n = Len(a)
  OBVIOUS
<1>2. PICK m \in Nat : m = Len(b)
  OBVIOUS
<1> DEFINE c == SubSeq(b, 1, r)
           u == a \o c
           w == a \o b
           v == SubSeq(w, 1, n + r)
<1>3. c \in Seq(S) /\ Len(c) = r /\ \A i \in 1 .. r : c[i] = b[i]
  BY <1>2, FirstOf
<1>4. w \in Seq(S) /\ Len(w) = n + m /\ \A i \in 1 .. n + m : w[i] = IF i <= n THEN a[i] ELSE b[i - n]
  BY <1>1, <1>2, ConcatProperties
<1> HIDE DEF c, w
<1>5. n + r \in Nat /\ n + r <= Len(w) /\ n + r > 0
  BY <1>2, <1>4
<1>6. v \in Seq(S) /\ Len(v) = n + r /\ \A i \in 1 .. n + r : v[i] = w[i]
  BY <1>4, <1>5, FirstOf
<1>7. u \in Seq(S) /\ Len(u) = n + r /\ \A i \in 1 .. n + r : u[i] = IF i <= n THEN a[i] ELSE c[i - n]
  BY <1>1, <1>3, ConcatProperties
<1> HIDE DEF u, v
<1>8. \A i \in 1 .. n + r : u[i] = v[i]
  <2>1. TAKE i \in 1 .. n + r
  <2>2. i \in 1 .. n + m /\ (i <= n \/ i - n \in 1 .. r)
    BY <1>2
  <2>3. QED
    BY <1>3, <1>4, <1>6, <1>7, <2>2
<1>9. u = v
  BY <1>6, <1>7, <1>8, SeqEqual
<1>10. QED
  BY <1>1, <1>9 DEF u, v, w, c

-------------------------------------------------------------------------------
(* Division *)

LEMMA DivMod ==
  ASSUME NEW n \in Int, NEW d \in Nat \ {0}
  PROVE  /\ n \div d \in Int /\ n % d \in 0 .. d - 1
         /\ n = (n \div d) * d + (n % d)
  OBVIOUS

LEMMA NatDiv ==
  ASSUME NEW n \in Nat, NEW d \in Nat \ {0}
  PROVE  n \div d \in Nat /\ n % d \in Nat
  OBVIOUS

LEMMA ProductsGrow ==
  ASSUME NEW a \in Int, NEW b \in Int, NEW d \in Nat, a <= b
  PROVE  a * d <= b * d
  OBVIOUS

\* Quotient and remainder are the only numbers that are like them.
LEMMA DivModUnique ==
  ASSUME NEW d \in Nat \ {0}, NEW q \in Int, NEW r \in 0 .. d - 1
  PROVE  /\ (q * d + r) \div d = q
         /\ (q * d + r) % d = r
<1> DEFINE n == q * d + r
           p == n \div d
           s == n % d
<1>1. n \in Int /\ p \in Int /\ s \in 0 .. d - 1 /\ n = p * d + s
  BY DivMod
<1>2. q * d \in Int /\ p * d \in Int
  BY <1>1
<1>3. ~ (p + 1 <= q)
  <2>1. p + 1 <= q => (p + 1) * d <= q * d
    BY <1>1, ProductsGrow
  <2>2. (p + 1) * d = p * d + d
    BY <1>1
  <2>3. QED
    BY <1>1, <1>2, <2>1, <2>2
<1>4. ~ (q + 1 <= p)
  <2>1. q + 1 <= p => (q + 1) * d <= p * d
    BY <1>1, ProductsGrow
  <2>2. (q + 1) * d = q * d + d
    BY <1>1
  <2>3. QED
    BY <1>1, <1>2, <2>1, <2>2
<1>5. QED
  BY <1>1, <1>2, <1>3, <1>4
===============================================================================
