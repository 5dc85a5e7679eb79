--------------------------- MODULE SequenceLemmas ---------------------------
(***************************************************************************)
(* Lemmas that the proofs of several components rest on.                   *)
(*                                                                         *)
(* Induction over sets of numbers, from which follows what FlattenSeq of   *)
(* the community modules computes: where each entry of a sequence of       *)
(* sequences lies in the flat one.                                         *)
(*                                                                         *)
(* Linked lists as sequences of nodes: what appending a node at the tail    *)
(* and unlinking one do to the pointers, for any pointers, nodes and null   *)
(* pointer.                                                                *)
(***************************************************************************)
EXTENDS Integers, Sequences, WellFoundedInduction, TLAPS

\* Not extended: models have a Remove of their own.
Ext == INSTANCE SequencesExt

(***************************************************************************)
(* Induction                                                               *)
(***************************************************************************)
\* Every set of numbers that is not empty has a least one.
LEMMA Least ==
  ASSUME NEW T \in SUBSET Nat, T # {}
  PROVE  \E x \in T : \A y \in T : x <= y
<1> DEFINE R == OpToRel(<, Nat)
<1>1. IsWellFoundedOn(R, Nat)
  BY NatLessThanWellFounded
<1>2. \A x, y \in Nat : <<x, y>> \in R <=> x < y
  BY DEF OpToRel
<1> HIDE DEF R
<1>3. \E x \in T : \A y \in T : <<y, x>> \notin R
  BY <1>1, WFMin
<1> QED BY <1>2, <1>3, T \subseteq Nat, \A x, y \in Nat : ~(y < x) => x <= y

\* Induction over a set of numbers.
LEMMA Induction ==
  ASSUME NEW T \in SUBSET Nat, 0 \in T, \A n \in T : n + 1 \in T
  PROVE  \A n \in Nat : n \in T
<1> SUFFICES ASSUME Nat \ T # {}
             PROVE  FALSE
  OBVIOUS
<1>1. PICK x \in Nat \ T : \A y \in Nat \ T : x <= y
  <2>1. (Nat \ T) \in SUBSET Nat
    OBVIOUS
  <2> QED BY <2>1, Least
<1>2. x # 0 /\ x - 1 \in Nat /\ ~(x <= x - 1) /\ (x - 1) + 1 = x
  BY <1>1
<1> QED BY <1>1, <1>2

\* Sequences with the same entries are the same.
LEMMA SameSeq ==
  ASSUME NEW S, NEW s \in Seq(S), NEW t \in Seq(S), Len(s) = Len(t),
         \A i \in 1 .. Len(s) : s[i] = t[i]
  PROVE  s = t
<1>1. DOMAIN s = 1 .. Len(s) /\ DOMAIN t = 1 .. Len(s)
  OBVIOUS
<1>2. s = [i \in DOMAIN s |-> s[i]] /\ t = [i \in DOMAIN t |-> t[i]]
  OBVIOUS
<1> QED BY <1>1, <1>2, Zenon

LEMMA ConcatIs ==
  ASSUME NEW S, NEW s \in Seq(S), NEW t \in Seq(S)
  PROVE  /\ s \o t \in Seq(S) /\ Len(s \o t) = Len(s) + Len(t)
         /\ \A i \in 1 .. Len(s) : (s \o t)[i] = s[i]
         /\ \A i \in 1 .. Len(t) : (s \o t)[Len(s) + i] = t[i]
OBVIOUS

\* What is left of a sequence behind its first n entries.
LEMMA RestIs ==
  ASSUME NEW S, NEW s \in Seq(S), NEW n \in 0 .. Len(s)
  PROVE  /\ SubSeq(s, n + 1, Len(s)) \in Seq(S)
         /\ Len(SubSeq(s, n + 1, Len(s))) = Len(s) - n
         /\ \A i \in 1 .. Len(s) - n : SubSeq(s, n + 1, Len(s))[i] = s[n + i]
<1>1. Len(s) \in Nat /\ n \in Nat /\ n <= Len(s) /\ \A i \in 1 .. Len(s) : s[i] \in S
  OBVIOUS
<1> DEFINE rest == SubSeq(s, n + 1, Len(s))
<1>2. rest = [i \in 1 .. Len(s) - n |-> s[(n + 1) + i - 1]]
  BY <1>1
<1>3. \A i \in 1 .. Len(s) - n : (n + 1) + i - 1 = n + i /\ n + i \in 1 .. Len(s)
  BY <1>1
<1> HIDE DEF rest
<1>4. rest = [i \in 1 .. Len(s) - n |-> s[n + i]]
  BY <1>2, <1>3
<1>5. Len(s) - n \in Nat
  BY <1>1
<1> QED BY <1>1, <1>3, <1>4, <1>5 DEF rest

(***************************************************************************)
(* FlattenSeq                                                              *)
(***************************************************************************)
\* The sequences of ss up to the i-th, one after the other.
IsFlattening(f, ss, n) ==
  f = [i \in 1 .. n |-> IF i = 1 THEN ss[i] ELSE f[i - 1] \o ss[i]]

\* The recursive function in the definition of FlattenSeq exists.
LEMMA FlatteningExists ==
  ASSUME NEW ss
  PROVE  \A n \in Nat : \E f : IsFlattening(f, ss, n)
<1> DEFINE T == {n \in Nat : \E f : IsFlattening(f, ss, n)}
<1>1. 0 \in T
  <2>1. IsFlattening([i \in 1 .. 0 |-> << >>], ss, 0)
    BY DEF IsFlattening
  <2> QED BY <2>1
<1>2. ASSUME NEW n \in T
      PROVE  n + 1 \in T
  <2>1. PICK g : IsFlattening(g, ss, n)
    OBVIOUS
  <2> DEFINE f == [i \in 1 .. n + 1 |-> IF i = 1 THEN ss[i] ELSE g[i - 1] \o ss[i]]
  <2>2. \A i \in 1 .. n : f[i] = g[i]
    <3> SUFFICES ASSUME NEW i \in 1 .. n
                 PROVE  f[i] = g[i]
      OBVIOUS
    <3>1. g[i] = IF i = 1 THEN ss[i] ELSE g[i - 1] \o ss[i]
      BY <2>1 DEF IsFlattening
    <3>2. i \in 1 .. n + 1
      OBVIOUS
    <3> QED BY <3>1, <3>2
  <2>3. \A i \in 1 .. n + 1 : i # 1 => i - 1 \in 1 .. n
    OBVIOUS
  <2>4. f = [i \in 1 .. n + 1 |-> IF i = 1 THEN ss[i] ELSE f[i - 1] \o ss[i]]
    <3>1. \A i \in 1 .. n + 1 :
            (IF i = 1 THEN ss[i] ELSE g[i - 1] \o ss[i])
              = (IF i = 1 THEN ss[i] ELSE f[i - 1] \o ss[i])
      <4> HIDE DEF f
      <4> QED BY <2>2, <2>3
    <3> QED BY <3>1, Zenon
  <2>5. IsFlattening(f, ss, n + 1)
    <3> HIDE DEF f
    <3> QED BY <2>4 DEF IsFlattening
  <2> QED BY <2>5
<1> HIDE DEF T
<1>3. T \subseteq Nat
  BY DEF T
<1>4. \A n \in Nat : n \in T
  BY <1>1, <1>2, <1>3, Induction
<1> QED BY <1>4 DEF T

LEMMA FlattenSeqIs ==
  ASSUME NEW ss, Len(ss) \in Nat, Len(ss) # 0
  PROVE  \E f : IsFlattening(f, ss, Len(ss)) /\ Ext!FlattenSeq(ss) = f[Len(ss)]
<1> DEFINE f == CHOOSE f : f = [i \in 1 .. Len(ss) |-> IF i = 1 THEN ss[i] ELSE f[i - 1] \o ss[i]]
<1>1. \E g : IsFlattening(g, ss, Len(ss))
  BY FlatteningExists
<1>2. IsFlattening(f, ss, Len(ss))
  BY <1>1, Zenon DEF IsFlattening
<1>3. Ext!FlattenSeq(ss) = f[Len(ss)]
  BY Zenon DEF Ext!FlattenSeq
<1> QED BY <1>2, <1>3, Zenon

\* Where the sequences of ss lie in flat, which has them one after the other: the
\* i-th after the first p[i - 1] entries.
IsLayout(flat, ss, p) ==
  /\ p \in [0 .. Len(ss) -> Nat]
  /\ p[0] = 0
  /\ p[Len(ss)] = Len(flat)
  /\ \A i \in 1 .. Len(ss) :
       /\ p[i] = p[i - 1] + Len(ss[i])
       /\ \A j \in 1 .. Len(ss[i]) : flat[p[i - 1] + j] = ss[i][j]
  /\ \A i, j \in 0 .. Len(ss) : i <= j => p[i] <= p[j]
  /\ \A k \in 1 .. Len(flat) :
       \E i \in 1 .. Len(ss) : \E j \in 1 .. Len(ss[i]) : k = p[i - 1] + j

\* Where FlattenSeq puts each entry of each sequence.
LEMMA FlattenLayout ==
  ASSUME NEW S, NEW ss \in Seq(Seq(S))
  PROVE  /\ Ext!FlattenSeq(ss) \in Seq(S)
         /\ \E p : IsLayout(Ext!FlattenSeq(ss), ss, p)
<1>0. /\ Len(ss) \in Nat
      /\ \A i \in 1 .. Len(ss) : ss[i] \in Seq(S) /\ Len(ss[i]) \in Nat
  OBVIOUS
<1>1. CASE Len(ss) = 0
  <2>1. ss = << >> /\ Ext!FlattenSeq(ss) = << >>
    BY <1>1 DEF Ext!FlattenSeq
  <2> DEFINE p == [i \in 0 .. 0 |-> 0]
  <2>2. IsLayout(<< >>, << >>, p)
    BY DEF IsLayout
  <2> QED BY <2>1, <2>2
<1>2. CASE Len(ss) # 0
  <2>1. PICK f : IsFlattening(f, ss, Len(ss)) /\ Ext!FlattenSeq(ss) = f[Len(ss)]
    BY <1>0, <1>2, FlattenSeqIs
  <2> DEFINE pre(n) == IF n = 0 THEN << >> ELSE f[n]
             p == [n \in 0 .. Len(ss) |-> Len(pre(n))]
  <2>2. pre(0) = << >> /\ p[0] = 0
    BY <1>0
  <2>3. \A n \in 1 .. Len(ss) : pre(n) = pre(n - 1) \o ss[n]
    <3> SUFFICES ASSUME NEW n \in 1 .. Len(ss)
                 PROVE  pre(n) = pre(n - 1) \o ss[n]
      OBVIOUS
    <3>1. f[n] = IF n = 1 THEN ss[n] ELSE f[n - 1] \o ss[n]
      BY <2>1 DEF IsFlattening
    <3>2. CASE n = 1
      <4>1. << >> \o ss[n] = ss[n]
        BY <1>0
      <4> QED BY <3>1, <3>2, <4>1
    <3>3. CASE n # 1
      <4>1. n # 0 /\ n - 1 # 0
        BY <3>3
      <4> QED BY <3>1, <3>3, <4>1
    <3> QED BY <3>2, <3>3
  <2>4. \A n \in 0 .. Len(ss) : p[n] = Len(pre(n))
    OBVIOUS
  <2>5. pre(Len(ss)) = Ext!FlattenSeq(ss)
    BY <1>2, <2>1
  <2>6. p = [n \in 0 .. Len(ss) |-> p[n]]
    OBVIOUS
  <2> HIDE DEF pre, p
  <2> DEFINE Laid(n) ==
               /\ pre(n) \in Seq(S) /\ p[n] = Len(pre(n)) /\ p[n] \in Nat
               /\ \A i \in 0 .. n : p[i] \in Nat /\ p[i] <= p[n]
               /\ \A i \in 1 .. n :
                    /\ p[i] = p[i - 1] + Len(ss[i])
                    /\ \A j \in 1 .. Len(ss[i]) : pre(n)[p[i - 1] + j] = ss[i][j]
               /\ \A k \in 1 .. Len(pre(n)) :
                    \E i \in 1 .. n : \E j \in 1 .. Len(ss[i]) : k = p[i - 1] + j
               /\ \A i, j \in 0 .. n : i <= j => p[i] <= p[j]
             T == {n \in Nat : n <= Len(ss) => Laid(n)}
  <2>7. 0 \in T
    <3>1. pre(0) \in Seq(S) /\ Len(pre(0)) = 0
      <4>1. << >> \in Seq(S) /\ Len(<< >>) = 0
        OBVIOUS
      <4> HIDE DEF Laid, T
      <4> QED BY <2>2, <4>1
    <3>2. Laid(0)
      <4>1. \A i \in 0 .. 0 : i = 0
        OBVIOUS
      <4>2. \A i \in 1 .. 0 : FALSE
        OBVIOUS
      <4>3. \A k \in 1 .. Len(pre(0)) : FALSE
        BY <3>1
      <4> QED BY <2>2, <3>1, <4>1, <4>2, <4>3
    <3> HIDE DEF Laid
    <3> QED BY <3>2
  <2>8. ASSUME NEW n \in T
        PROVE  n + 1 \in T
    <3> SUFFICES ASSUME n + 1 <= Len(ss)
                 PROVE  Laid(n + 1)
      <4> HIDE DEF Laid
      <4> QED OBVIOUS
    <3>1. /\ n \in Nat /\ n + 1 \in 1 .. Len(ss) /\ n \in 0 .. Len(ss) /\ n <= Len(ss)
          /\ (n + 1) - 1 = n
      BY <1>0
    <3>2. Laid(n)
      BY <3>1
    <3> HIDE DEF T
    <3>3. pre(n + 1) = pre(n) \o ss[n + 1]
      BY <2>3, <3>1
    <3>4. ss[n + 1] \in Seq(S) /\ Len(ss[n + 1]) \in Nat
      BY <1>0, <3>1
    <3>5. /\ pre(n + 1) \in Seq(S)
          /\ Len(pre(n + 1)) = p[n] + Len(ss[n + 1])
          /\ \A k \in 1 .. p[n] : pre(n + 1)[k] = pre(n)[k]
          /\ \A j \in 1 .. Len(ss[n + 1]) : pre(n + 1)[p[n] + j] = ss[n + 1][j]
      <4> HIDE DEF Laid
      <4>1. pre(n) \in Seq(S) /\ p[n] = Len(pre(n))
        BY <3>2 DEF Laid
      <4>2. \A a, b \in Seq(S) :
              /\ a \o b \in Seq(S) /\ Len(a \o b) = Len(a) + Len(b)
              /\ \A k \in 1 .. Len(a) : (a \o b)[k] = a[k]
              /\ \A j \in 1 .. Len(b) : (a \o b)[Len(a) + j] = b[j]
        OBVIOUS
      <4> DEFINE a == pre(n)
                 b == ss[n + 1]
      <4>3. a \in Seq(S) /\ b \in Seq(S)
        BY <3>4, <4>1
      <4> HIDE DEF a, b
      <4>4. /\ a \o b \in Seq(S) /\ Len(a \o b) = Len(a) + Len(b)
            /\ \A k \in 1 .. Len(a) : (a \o b)[k] = a[k]
            /\ \A j \in 1 .. Len(b) : (a \o b)[Len(a) + j] = b[j]
        BY <4>2, <4>3
      <4> QED BY <3>3, <4>1, <4>4 DEF a, b
    <3>6. p[n + 1] = p[n] + Len(ss[n + 1])
      BY <2>4, <3>1, <3>5
    <3>7. \A i \in 0 .. n + 1 : p[i] \in Nat /\ p[i] <= p[n + 1]
      BY <3>1, <3>2, <3>4, <3>6
    <3>8. ASSUME NEW i \in 1 .. n + 1
          PROVE  /\ p[i] = p[i - 1] + Len(ss[i])
                 /\ \A j \in 1 .. Len(ss[i]) : pre(n + 1)[p[i - 1] + j] = ss[i][j]
      <4>1. CASE i = n + 1
        BY <3>1, <3>5, <3>6, <4>1
      <4>2. CASE i # n + 1
        <5>1. i \in 1 .. n /\ i - 1 \in 0 .. n /\ i \in 0 .. n /\ i \in 1 .. Len(ss)
          BY <3>1, <4>2
        <5>2. /\ p[i] = p[i - 1] + Len(ss[i])
              /\ \A j \in 1 .. Len(ss[i]) : pre(n)[p[i - 1] + j] = ss[i][j]
              /\ p[i] <= p[n] /\ p[i - 1] \in Nat /\ p[n] \in Nat
          BY <3>2, <5>1
        <5>3. \A j \in 1 .. Len(ss[i]) : p[i - 1] + j \in 1 .. p[n]
          <6> HIDE DEF Laid
          <6>1. Len(ss[i]) \in Nat
            BY <1>0, <5>1
          <6> QED BY <5>2, <6>1
        <5> HIDE DEF Laid
        <5> QED BY <3>5, <5>2, <5>3
      <4> QED BY <4>1, <4>2
    <3>9. ASSUME NEW k \in 1 .. Len(pre(n + 1))
          PROVE  \E i \in 1 .. n + 1 : \E j \in 1 .. Len(ss[i]) : k = p[i - 1] + j
      <4>1. CASE k <= p[n]
        <5>1. k \in 1 .. Len(pre(n))
          BY <3>2, <4>1
        <5>2. PICK i \in 1 .. n : \E j \in 1 .. Len(ss[i]) : k = p[i - 1] + j
          BY <3>2, <5>1
        <5>3. i \in 1 .. n + 1
          BY <3>1
        <5> HIDE DEF Laid
        <5> QED BY <5>2, <5>3
      <4>2. CASE k > p[n]
        <5>0. p[n] \in Nat
          BY <3>2
        <5> HIDE DEF Laid
        <5>1. k - p[n] \in 1 .. Len(ss[n + 1]) /\ k = p[n] + (k - p[n])
          BY <3>4, <3>5, <4>2, <5>0
        <5>2. n + 1 \in 1 .. n + 1
          BY <3>1
        <5> QED BY <3>1, <5>1, <5>2
      <4>3. p[n] \in Nat
        BY <3>2
      <4> HIDE DEF Laid
      <4> QED BY <3>4, <3>5, <4>1, <4>2, <4>3
    <3>10. \A i, j \in 0 .. n + 1 : i <= j => p[i] <= p[j]
      <4>1. \A j \in 0 .. n + 1 : j = n + 1 \/ j \in 0 .. n
        BY <3>1
      <4>2. \A i, j \in 0 .. n : i <= j => p[i] <= p[j]
        BY <3>2
      <4> HIDE DEF Laid
      <4> QED BY <3>1, <3>7, <4>1, <4>2
    <3>11. p[n + 1] = Len(pre(n + 1)) /\ p[n + 1] \in Nat
      BY <3>5, <3>6, <3>7, <3>1
    <3> QED BY <3>5, <3>7, <3>8, <3>9, <3>10, <3>11
  <2>9. Laid(Len(ss))
    <3> HIDE DEF Laid
    <3>1. T \subseteq Nat
      OBVIOUS
    <3> HIDE DEF T
    <3>2. Len(ss) \in T
      BY <1>0, <2>7, <2>8, <3>1, Induction
    <3> QED BY <1>0, <3>2 DEF T
  <2>10. p \in [0 .. Len(ss) -> Nat]
    <3>1. \A i \in 0 .. Len(ss) : p[i] \in Nat
      BY <2>9
    <3> HIDE DEF Laid
    <3> QED BY <2>6, <3>1
  <2>11. IsLayout(Ext!FlattenSeq(ss), ss, p) /\ Ext!FlattenSeq(ss) \in Seq(S)
    BY <2>2, <2>5, <2>9, <2>10 DEF IsLayout
  <2> QED BY <2>11
<1> QED BY <1>0, <1>1, <1>2

\* What IsFlattening says of one entry.
LEMMA FlatteningEntry ==
  ASSUME NEW f, NEW ss, NEW n \in Nat, IsFlattening(f, ss, n)
  PROVE  /\ n # 0 => f[1] = ss[1]
         /\ \A i \in Nat : i + 2 <= n => f[i + 2] = f[i + 1] \o ss[i + 2]
<1>1. \A i \in 1 .. n : f[i] = IF i = 1 THEN ss[i] ELSE f[i - 1] \o ss[i]
  BY DEF IsFlattening
<1>2. n # 0 => 1 \in 1 .. n
  OBVIOUS
<1>3. \A i \in Nat : i + 2 <= n => i + 2 \in 1 .. n /\ i + 2 # 1 /\ (i + 2) - 1 = i + 1
  OBVIOUS
<1> QED BY <1>1, <1>2, <1>3

LEMMA FlattenConcat ==
  ASSUME NEW S, NEW a \in Seq(Seq(S)), NEW b \in Seq(Seq(S))
  PROVE  Ext!FlattenSeq(a \o b) = Ext!FlattenSeq(a) \o Ext!FlattenSeq(b)
<1> DEFINE ab == a \o b
<1>1. /\ Len(a) \in Nat /\ Len(b) \in Nat /\ Len(ab) = Len(a) + Len(b)
      /\ \A i \in 1 .. Len(a) : ab[i] = a[i] /\ a[i] \in Seq(S)
      /\ \A i \in 1 .. Len(b) : ab[Len(a) + i] = b[i] /\ b[i] \in Seq(S)
  OBVIOUS
<1>2. Ext!FlattenSeq(a) \in Seq(S) /\ Ext!FlattenSeq(b) \in Seq(S)
  BY FlattenLayout
<1>3. CASE Len(a) = 0
  <2>1. a = << >> /\ a \o b = b /\ Ext!FlattenSeq(a) = << >>
    BY <1>3 DEF Ext!FlattenSeq
  <2> QED BY <1>2, <2>1
<1>4. CASE Len(b) = 0
  <2>1. b = << >> /\ a \o b = a /\ Ext!FlattenSeq(b) = << >>
    BY <1>4 DEF Ext!FlattenSeq
  <2> QED BY <1>2, <2>1
<1>5. CASE Len(a) # 0 /\ Len(b) # 0
  <2> HIDE DEF ab
  <2>0. /\ Len(ab) \in Nat /\ Len(ab) # 0
        /\ Len(a) \in Nat /\ Len(a) # 0
        /\ Len(b) \in Nat /\ Len(b) # 0
    BY <1>1, <1>5
  <2>1. PICK f : IsFlattening(f, ab, Len(ab)) /\ Ext!FlattenSeq(ab) = f[Len(ab)]
    BY <2>0, FlattenSeqIs, Zenon
  <2>2. PICK g : IsFlattening(g, a, Len(a)) /\ Ext!FlattenSeq(a) = g[Len(a)]
    BY <1>1, <1>5, FlattenSeqIs
  <2>3. PICK h : IsFlattening(h, b, Len(b)) /\ Ext!FlattenSeq(b) = h[Len(b)]
    BY <1>1, <1>5, FlattenSeqIs
  <2>4. /\ f[1] = ab[1]
        /\ \A i \in Nat : i + 2 <= Len(ab) => f[i + 2] = f[i + 1] \o ab[i + 2]
    BY <2>0, <2>1, FlatteningEntry, Zenon
  <2>5. /\ g[1] = a[1]
        /\ \A i \in Nat : i + 2 <= Len(a) => g[i + 2] = g[i + 1] \o a[i + 2]
    BY <2>0, <2>2, FlatteningEntry, Zenon
  <2>6. /\ h[1] = b[1]
        /\ \A i \in Nat : i + 2 <= Len(b) => h[i + 2] = h[i + 1] \o b[i + 2]
    BY <2>0, <2>3, FlatteningEntry, Zenon
  <2> DEFINE T == {i \in Nat : i + 1 <= Len(a) => f[i + 1] = g[i + 1]}
  <2>7. \A i \in Nat : i \in T
    <3>1. 0 \in T
      <4>1. 1 \in 1 .. Len(a)
        BY <1>1, <1>5
      <4> QED BY <1>1, <2>4, <2>5, <4>1
    <3>2. ASSUME NEW i \in T
          PROVE  i + 1 \in T
      <4> SUFFICES ASSUME (i + 1) + 1 <= Len(a)
                   PROVE  f[(i + 1) + 1] = g[(i + 1) + 1]
        OBVIOUS
      <4>1. /\ i + 2 <= Len(a) /\ i + 2 <= Len(ab) /\ i + 1 <= Len(a) /\ (i + 1) + 1 = i + 2
            /\ i + 2 \in 1 .. Len(a)
        BY <1>1
      <4> QED BY <1>1, <2>4, <2>5, <4>1
    <3>3. T \in SUBSET Nat
      OBVIOUS
    <3> HIDE DEF T
    <3> QED BY <3>1, <3>2, <3>3, Induction
  <2>8. f[Len(a)] = g[Len(a)]
    <3>1. Len(a) - 1 \in Nat /\ (Len(a) - 1) + 1 = Len(a) /\ (Len(a) - 1) + 1 <= Len(a)
      BY <1>1, <1>5
    <3>2. Len(a) - 1 \in T
      BY <2>7, <3>1
    <3>3. (Len(a) - 1) + 1 <= Len(a) => f[(Len(a) - 1) + 1] = g[(Len(a) - 1) + 1]
      BY <3>2
    <3> HIDE DEF T
    <3> QED BY <3>1, <3>3
  <2> HIDE DEF T
  <2> DEFINE flat == g[Len(a)]
             U == {i \in Nat : i + 1 <= Len(b) =>
                     h[i + 1] \in Seq(S) /\ f[(Len(a) + i) + 1] = flat \o h[i + 1]}
  <2>9. flat \in Seq(S)
    BY <1>2, <2>2
  <2>10. \A i \in Nat : i \in U
    <3>1. 0 \in U
      <4>1. 1 \in 1 .. Len(b) /\ Len(a) - 1 \in Nat /\ (Len(a) - 1) + 2 <= Len(ab)
            /\ (Len(a) - 1) + 2 = Len(a) + 1 /\ (Len(a) - 1) + 1 = Len(a)
            /\ (Len(a) + 0) + 1 = Len(a) + 1
        BY <1>1, <1>5
      <4>2. f[Len(a) + 1] = f[Len(a)] \o ab[Len(a) + 1]
        BY <2>4, <4>1
      <4>3. ab[Len(a) + 1] = b[1] /\ b[1] \in Seq(S)
        BY <1>1, <4>1
      <4>4. h[0 + 1] \in Seq(S) /\ f[(Len(a) + 0) + 1] = flat \o h[0 + 1]
        <5> HIDE DEF flat
        <5>1. flat = f[Len(a)]
          BY <2>8 DEF flat
        <5>2. 0 + 1 = 1
          OBVIOUS
        <5>3. h[0 + 1] = b[1]
          BY <2>6, <5>2
        <5>4. f[(Len(a) + 0) + 1] = f[Len(a)] \o b[1]
          BY <4>1, <4>2, <4>3, Zenon
        <5> QED BY <4>3, <5>1, <5>3, <5>4, Zenon
      <4> HIDE DEF flat
      <4> QED BY <4>4
    <3>2. ASSUME NEW i \in U
          PROVE  i + 1 \in U
      <4> SUFFICES ASSUME (i + 1) + 1 <= Len(b)
                   PROVE  /\ h[(i + 1) + 1] \in Seq(S)
                          /\ f[(Len(a) + (i + 1)) + 1] = flat \o h[(i + 1) + 1]
        <5> HIDE DEF flat
        <5> QED OBVIOUS
      <4>1. /\ i \in Nat /\ i + 2 <= Len(b) /\ i + 1 <= Len(b) /\ (i + 1) + 1 = i + 2
            /\ i + 2 \in 1 .. Len(b)
            /\ Len(a) + i \in Nat /\ (Len(a) + i) + 2 <= Len(ab)
            /\ (Len(a) + (i + 1)) + 1 = (Len(a) + i) + 2
            /\ Len(a) + (i + 2) = (Len(a) + i) + 2
        BY <1>1
      <4>2. h[i + 1] \in Seq(S) /\ f[(Len(a) + i) + 1] = flat \o h[i + 1]
        BY <4>1
      <4>3. h[i + 2] = h[i + 1] \o b[i + 2] /\ b[i + 2] \in Seq(S)
        BY <1>1, <2>6, <4>1
      <4>4. f[(Len(a) + i) + 2] = f[(Len(a) + i) + 1] \o ab[(Len(a) + i) + 2]
        BY <2>4, <4>1
      <4>5. ab[(Len(a) + i) + 2] = b[i + 2]
        BY <1>1, <4>1
      <4> HIDE DEF flat, U
      <4>6. f[(Len(a) + i) + 2] = (flat \o h[i + 1]) \o b[i + 2]
        BY <4>2, <4>4, <4>5
      <4>7. (flat \o h[i + 1]) \o b[i + 2] = flat \o (h[i + 1] \o b[i + 2])
        <5>1. flat \in Seq(S) /\ h[i + 1] \in Seq(S) /\ b[i + 2] \in Seq(S)
          BY <2>9, <4>2, <4>3
        <5> DEFINE s == h[i + 1]
                   t == b[i + 2]
        <5>2. s \in Seq(S) /\ t \in Seq(S)
          BY <5>1
        <5> HIDE DEF s, t
        <5>3. (flat \o s) \o t = flat \o (s \o t)
          <6>1. \A x, y, z \in Seq(S) : (x \o y) \o z = x \o (y \o z)
            OBVIOUS
          <6> QED BY <5>1, <5>2, <6>1
        <5> QED BY <5>3 DEF s, t
      <4>8. h[i + 1] \o b[i + 2] \in Seq(S)
        BY <4>2, <4>3
      <4> QED BY <4>1, <4>3, <4>6, <4>7, <4>8
    <3>3. U \in SUBSET Nat
      OBVIOUS
    <3> HIDE DEF U
    <3> QED BY <3>1, <3>2, <3>3, Induction
  <2>11. f[Len(ab)] = flat \o h[Len(b)]
    <3>1. /\ Len(b) - 1 \in Nat /\ (Len(b) - 1) + 1 = Len(b)
          /\ (Len(a) + (Len(b) - 1)) + 1 = Len(ab)
      BY <1>1, <1>5
    <3>2. Len(b) - 1 \in U
      BY <2>10, <3>1
    <3> HIDE DEF flat
    <3> QED BY <1>1, <3>1, <3>2
  <2> QED BY <2>1, <2>2, <2>3, <2>11 DEF ab
<1> QED BY <1>1, <1>3, <1>4, <1>5

(***************************************************************************)
(* Chains                                                                  *)
(***************************************************************************)
\* s without its entry at position p.
Cut(s, p) == [j \in 1 .. Len(s) - 1 |-> IF j < p THEN s[j] ELSE s[j + 1]]

Distinct(s) == \A i, j \in 1 .. Len(s) : s[i] = s[j] => i = j

\* h, t and the pointers nx lead through the nodes of s.
Chain(s, h, t, nx, null) ==
  /\ h = IF s = << >> THEN null ELSE s[1]
  /\ t = IF s = << >> THEN null ELSE s[Len(s)]
  /\ \A i \in 1 .. Len(s) : nx[s[i]] = IF i = Len(s) THEN null ELSE s[i + 1]

NodesOf(s) == {s[i] : i \in 1 .. Len(s)}

\* The node before position p of s.
Before(s, p, null) == IF p = 1 THEN null ELSE s[p - 1]

-----------------------------------------------------------------------------

LEMMA CutIsSeq ==
  ASSUME NEW S, NEW s \in Seq(S), NEW p \in 1 .. Len(s)
  PROVE  /\ Cut(s, p) \in Seq(S)
         /\ Len(Cut(s, p)) = Len(s) - 1
         /\ \A j \in 1 .. Len(s) - 1 :
              Cut(s, p)[j] = IF j < p THEN s[j] ELSE s[j + 1]
<1>1. Len(s) \in Nat /\ Len(s) - 1 \in Nat
  OBVIOUS
<1>2. \A j \in 1 .. Len(s) - 1 : (IF j < p THEN s[j] ELSE s[j + 1]) \in S
  BY <1>1
<1> QED BY <1>1, <1>2 DEF Cut

LEMMA CutDistinct ==
  ASSUME NEW S, NEW s \in Seq(S), Distinct(s), NEW p \in 1 .. Len(s)
  PROVE  /\ Distinct(Cut(s, p))
         /\ NodesOf(Cut(s, p)) = NodesOf(s) \ {s[p]}
<1> DEFINE w == Cut(s, p)
<1>1. /\ Len(s) \in Nat /\ Len(w) = Len(s) - 1
      /\ \A j \in 1 .. Len(s) - 1 : w[j] = IF j < p THEN s[j] ELSE s[j + 1]
  BY CutIsSeq
<1> HIDE DEF w
<1>2. Distinct(w)
  <2> SUFFICES ASSUME NEW i \in 1 .. Len(s) - 1, NEW j \in 1 .. Len(s) - 1, w[i] = w[j]
               PROVE  i = j
    BY <1>1 DEF Distinct
  <2> QED BY <1>1 DEF Distinct
<1>3. ASSUME NEW i \in 1 .. Len(w)
      PROVE  w[i] \in {s[k] : k \in 1 .. Len(s)} \ {s[p]}
  <2>1. CASE i < p
    BY <1>1, <1>3, <2>1 DEF Distinct
  <2>2. CASE ~(i < p)
    <3>1. w[i] = s[i + 1] /\ i + 1 \in 1 .. Len(s) /\ i + 1 # p
      BY <1>1, <1>3, <2>2
    <3> QED BY <3>1 DEF Distinct
  <2> QED BY <2>1, <2>2
<1>4. ASSUME NEW k \in 1 .. Len(s), s[k] # s[p]
      PROVE  \E i \in 1 .. Len(w) : w[i] = s[k]
  <2>1. CASE k < p
    <3>1. k \in 1 .. Len(w) /\ w[k] = s[k]
      BY <1>1, <2>1
    <3> QED BY <3>1
  <2>2. CASE k > p
    <3>1. k - 1 \in 1 .. Len(w) /\ ~(k - 1 < p) /\ (k - 1) + 1 = k
      BY <1>1, <2>2
    <3>2. w[k - 1] = s[k]
      BY <1>1, <3>1
    <3> QED BY <3>1, <3>2
  <2> QED BY <1>4, <2>1, <2>2
<1> QED BY <1>2, <1>3, <1>4 DEF w, NodesOf

LEMMA AppendDistinct ==
  ASSUME NEW S, NEW s \in Seq(S), Distinct(s), NEW n \in S, n \notin NodesOf(s)
  PROVE  /\ Append(s, n) \in Seq(S)
         /\ Distinct(Append(s, n))
         /\ NodesOf(Append(s, n)) = NodesOf(s) \cup {n}
<1> DEFINE a == Append(s, n)
<1>1. /\ a \in Seq(S) /\ Len(s) \in Nat /\ Len(a) = Len(s) + 1
      /\ \A i \in 1 .. Len(s) : a[i] = s[i]
      /\ a[Len(s) + 1] = n
      /\ \A i \in 1 .. Len(s) : s[i] # n
  BY DEF NodesOf
<1> HIDE DEF a
<1>2. Distinct(a)
  BY <1>1 DEF Distinct
<1>3. NodesOf(a) = NodesOf(s) \cup {n}
  <2>1. \A i \in 1 .. Len(a) : i \in 1 .. Len(s) \/ i = Len(s) + 1
    BY <1>1
  <2>2. \A i \in 1 .. Len(s) : i \in 1 .. Len(a) /\ a[i] = s[i]
    BY <1>1
  <2>3. Len(s) + 1 \in 1 .. Len(a)
    BY <1>1
  <2> QED BY <1>1, <2>1, <2>2, <2>3 DEF NodesOf
<1> QED BY <1>1, <1>2, <1>3 DEF a

LEMMA AppendChain ==
  ASSUME NEW S, NEW null, null \notin S, NEW s \in Seq(S), Distinct(s),
         NEW h, NEW t, NEW nx, Chain(s, h, t, nx, null),
         NEW n \in S, n \notin NodesOf(s),
         NEW h2, h2 = IF h = null THEN n ELSE h,
         NEW nx2, nx2[n] = null, t # null => nx2[t] = n,
         \A m \in S : m # n /\ m # t => nx2[m] = nx[m]
  PROVE  /\ Append(s, n) \in Seq(S)
         /\ Distinct(Append(s, n))
         /\ NodesOf(Append(s, n)) = NodesOf(s) \cup {n}
         /\ Chain(Append(s, n), h2, n, nx2, null)
<1> DEFINE a == Append(s, n)
<1>1. /\ a \in Seq(S) /\ Len(s) \in Nat /\ Len(a) = Len(s) + 1
      /\ \A i \in 1 .. Len(s) : a[i] = s[i]
      /\ a[Len(s) + 1] = n
      /\ \A i \in 1 .. Len(s) : s[i] \in S /\ s[i] # n
  BY DEF NodesOf
<1>2. Distinct(a) /\ NodesOf(a) = NodesOf(s) \cup {n}
  BY AppendDistinct
<1> HIDE DEF a
<1>3. CASE Len(s) = 0
  <2>1. s = << >> /\ h2 = n
    BY <1>3 DEF Chain
  <2>2. Len(a) = 1 /\ Len(s) + 1 = 1 /\ a[1] = n
    BY <1>1, <1>3
  <2>3. a # << >>
    BY <1>1, <2>2
  <2>4. \A i \in 1 .. Len(a) : nx2[a[i]] = IF i = Len(a) THEN null ELSE a[i + 1]
    BY <2>2
  <2>5. Chain(a, h2, n, nx2, null)
    BY <2>1, <2>2, <2>3, <2>4 DEF Chain
  <2> QED BY <1>1, <1>2, <2>5 DEF a
<1>4. CASE Len(s) # 0
  <2>1. /\ s # << >> /\ h = s[1] /\ t = s[Len(s)] /\ h # null /\ t # null
        /\ t \in S /\ t # n /\ h2 = h
    BY <1>1, <1>4 DEF Chain
  <2>2. ASSUME NEW i \in 1 .. Len(a)
        PROVE  nx2[a[i]] = IF i = Len(a) THEN null ELSE a[i + 1]
    <3>1. CASE i = Len(s) + 1
      BY <1>1, <3>1
    <3>2. CASE i = Len(s)
      BY <1>1, <1>4, <2>1, <3>2
    <3>3. CASE i < Len(s)
      <4>1. i \in 1 .. Len(s) /\ s[i] # t /\ i + 1 \in 1 .. Len(s)
        BY <1>1, <2>1, <3>3 DEF Distinct
      <4>2. nx2[s[i]] = nx[s[i]]
        BY <1>1, <4>1
      <4>3. nx[s[i]] = s[i + 1]
        BY <3>3, <4>1 DEF Chain
      <4> QED BY <1>1, <3>3, <4>1, <4>2, <4>3
    <3> QED BY <1>1, <3>1, <3>2, <3>3
  <2>3. Chain(a, h2, n, nx2, null)
    BY <1>1, <1>4, <2>1, <2>2 DEF Chain
  <2> QED BY <1>1, <1>2, <2>3 DEF a
<1> QED BY <1>1, <1>3, <1>4

LEMMA UnlinkChain ==
  ASSUME NEW S, NEW null, null \notin S, NEW s \in Seq(S), Distinct(s),
         NEW h, NEW t, NEW nx,
         Chain(s, h, t, nx, null), NEW p \in 1 .. Len(s),
         NEW node, node = s[p], NEW prev, prev = Before(s, p, null),
         NEW h2, h2 = IF h = node THEN nx[node] ELSE h,
         NEW t2, t2 = IF t = node THEN prev ELSE t,
         NEW nx2, prev # null => nx2[prev] = nx[node],
         \A m \in S : m # node /\ m # prev => nx2[m] = nx[m]
  PROVE  Chain(Cut(s, p), h2, t2, nx2, null)
<1> DEFINE w == Cut(s, p)
<1>1. /\ Len(s) \in Nat /\ w \in Seq(S) /\ Len(w) = Len(s) - 1
      /\ \A j \in 1 .. Len(s) - 1 : w[j] = IF j < p THEN s[j] ELSE s[j + 1]
      /\ \A i \in 1 .. Len(s) : s[i] \in S
  <2>1. \A i \in 1 .. Len(s) : s[i] \in S
    OBVIOUS
  <2> QED BY <2>1, CutIsSeq
<1>2. null \notin S /\ s # << >>
  OBVIOUS
<1>3. /\ h = s[1] /\ t = s[Len(s)]
      /\ \A i \in 1 .. Len(s) : nx[s[i]] = IF i = Len(s) THEN null ELSE s[i + 1]
  BY <1>2 DEF Chain
<1>4. \A i \in 1 .. Len(s) : i # p => s[i] # node
  BY DEF Distinct
<1>5. /\ p = 1 => prev = null
      /\ p # 1 => prev = s[p - 1] /\ p - 1 \in 1 .. Len(s) /\ prev # null /\ prev # node
                  /\ prev \in S
  BY <1>1, <1>2, <1>4 DEF Before
<1> HIDE DEF w
<1>6. \A i \in 1 .. Len(s) : i # p /\ i # p - 1 => nx2[s[i]] = nx[s[i]]
  <2> SUFFICES ASSUME NEW i \in 1 .. Len(s), i # p, i # p - 1
               PROVE  nx2[s[i]] = nx[s[i]]
    OBVIOUS
  <2>1. p # 1 => s[i] # prev
    BY <1>1, <1>5 DEF Distinct
  <2>2. s[i] \in S /\ s[i] # node
    BY <1>1, <1>4
  <2> QED BY <1>2, <1>5, <2>1, <2>2
<1>7. p # 1 => nx2[prev] = nx[node]
  BY <1>5
<1>8. h2 = IF w = << >> THEN null ELSE w[1]
  <2>1. CASE Len(s) = 1
    BY <1>1, <1>3, <2>1
  <2>2. CASE Len(s) # 1 /\ p = 1
    BY <1>1, <1>3, <2>2
  <2>3. CASE Len(s) # 1 /\ p # 1
    BY <1>1, <1>3, <1>4, <2>3
  <2> QED BY <2>1, <2>2, <2>3
<1>9. t2 = IF w = << >> THEN null ELSE w[Len(w)]
  <2>1. CASE Len(s) = 1
    BY <1>1, <1>3, <1>5, <2>1
  <2>2. CASE Len(s) # 1 /\ p = Len(s)
    BY <1>1, <1>3, <1>5, <2>2
  <2>3. CASE Len(s) # 1 /\ p # Len(s)
    BY <1>1, <1>3, <1>4, <2>3
  <2> QED BY <2>1, <2>2, <2>3
<1>10. ASSUME NEW i \in 1 .. Len(w)
       PROVE  nx2[w[i]] = IF i = Len(w) THEN null ELSE w[i + 1]
  <2>1. CASE i = p - 1
    <3>1. w[i] = prev /\ p # 1 /\ nx2[prev] = nx[s[p]]
      BY <1>1, <1>5, <1>7, <1>10, <2>1
    <3>2. CASE p = Len(s)
      BY <1>1, <1>3, <1>10, <2>1, <3>1, <3>2
    <3>3. CASE p # Len(s)
      <4>1. p \in 1 .. Len(s) - 1 /\ i + 1 = p /\ i # Len(w)
        BY <1>1, <1>10, <2>1, <3>3
      <4>2. w[i + 1] = s[p + 1]
        BY <1>1, <4>1
      <4> QED BY <1>3, <3>1, <3>3, <4>1, <4>2
    <3> QED BY <3>2, <3>3
  <2>2. CASE i < p - 1
    <3>1. w[i] = s[i] /\ i \in 1 .. Len(s) /\ i # p /\ i # p - 1 /\ i # Len(s)
      BY <1>1, <1>10, <2>2
    <3>2. nx2[w[i]] = s[i + 1]
      BY <1>3, <1>6, <3>1
    <3> QED BY <1>1, <1>10, <2>2, <3>2
  <2>3. CASE i > p - 1
    <3>1. /\ w[i] = s[i + 1] /\ i + 1 \in 1 .. Len(s) /\ i + 1 # p /\ i + 1 # p - 1
          /\ i + 1 = Len(s) <=> i = Len(w)
      BY <1>1, <1>10, <2>3
    <3>2. nx2[w[i]] = IF i + 1 = Len(s) THEN null ELSE s[(i + 1) + 1]
      BY <1>3, <1>6, <3>1
    <3>3. i # Len(w) => i + 1 \in 1 .. Len(s) - 1 /\ ~(i + 1 < p)
      BY <1>1, <1>10, <2>3
    <3>4. i # Len(w) => w[i + 1] = s[(i + 1) + 1]
      BY <1>1, <3>3
    <3> QED BY <3>1, <3>2, <3>4
  <2> QED BY <1>1, <1>10, <2>1, <2>2, <2>3
<1>11. Chain(w, h2, t2, nx2, null)
  BY <1>8, <1>9, <1>10 DEF Chain
<1> QED BY <1>11 DEF w

LEMMA ChainKept ==
  ASSUME NEW null, NEW s, NEW h, NEW t, NEW nx, Chain(s, h, t, nx, null),
         NEW nx2, \A m \in NodesOf(s) : nx2[m] = nx[m]
  PROVE  Chain(s, h, t, nx2, null)
BY DEF Chain, NodesOf
=============================================================================
