--------------------------- MODULE BallListProofs ---------------------------
(***************************************************************************)
(* What TLAPS proves of BallList, for any number of heap blocks, owners and *)
(* balls: that the pointers describe the list after every step, that a      *)
(* traversal without the mutex steps to live nodes, that every step is one  *)
(* of BallStore, and that a removal takes the balls asked for and no other. *)
(***************************************************************************)
EXTENDS BallList, SequenceLemmas, FiniteSetTheorems, SequenceTheorems, TLAPS

LEMMA RemoveIsCut ==
  ASSUME NEW s \in Seq(Nodes), Distinct(s), NEW p \in 1 .. Len(s)
  PROVE  Remove(s, s[p]) = Cut(s, p)
<1>1. \A i \in 1 .. Len(s) : s[i] = s[p] => i = p
  BY DEF Distinct
<1>2. (CHOOSE i \in 1 .. Len(s) : s[i] = s[p]) = p
  BY <1>1
<1> QED BY <1>2 DEF Remove, Without, Cut

-----------------------------------------------------------------------------
(* The candidates of delete_ball.                                           *)

\* An entry of the candidates is the node at position p, with the one before.
EntryAt(s, e, p) == p \in 1 .. Len(s) /\ e.node = s[p] /\ e.prev = Before(s, p, NULL)

\* The candidates c are o's newest balls of those before position end, in order.
Chosen(s, data, o, c, end) ==
  /\ \A i \in 1 .. Len(c) :
       \E p \in 1 .. end - 1 : EntryAt(s, c[i], p) /\ data[s[p]].owner = o
  /\ \A i, j \in 1 .. Len(c), p, q \in 1 .. Len(s) :
       i < j /\ EntryAt(s, c[i], p) /\ EntryAt(s, c[j], q) => p < q
  /\ \A p \in 1 .. end - 1 : data[s[p]].owner = o =>
       \/ \E i \in 1 .. Len(c) : EntryAt(s, c[i], p)
       \/ \A i \in 1 .. Len(c), q \in 1 .. Len(s) : EntryAt(s, c[i], q) => p < q

\* All of o's balls before position end are among the candidates.
AllChosen(s, data, o, c, end) ==
  \A q \in 1 .. end - 1 :
    data[s[q]].owner = o => \E i \in 1 .. Len(c) : EntryAt(s, c[i], q)

\* An entry is at one position only.
LEMMA EntryOnce ==
  ASSUME NEW s \in Seq(Nodes), Distinct(s), NEW e, NEW p, NEW q,
         EntryAt(s, e, p), EntryAt(s, e, q)
  PROVE  p = q
BY DEF Distinct, EntryAt

LEMMA SkipChosen ==
  ASSUME NEW s \in Seq(Nodes), NEW data, NEW o, NEW c \in Seq(Entries),
         NEW p \in 1 .. Len(s), Chosen(s, data, o, c, p), data[s[p]].owner # o
  PROVE  Chosen(s, data, o, c, p + 1)
<1>1. \A q \in 1 .. (p + 1) - 1 : q \in 1 .. p - 1 \/ q = p
  OBVIOUS
<1>2. \A q \in 1 .. p - 1 : q \in 1 .. (p + 1) - 1
  OBVIOUS
<1> QED BY <1>1, <1>2 DEF Chosen

\* k is c with e after it, c's first d entries dropped.
Slid(c, e, k, d) ==
  /\ Len(k) \in Nat /\ 1 <= Len(k)
  /\ k[Len(k)] = e
  /\ \A i \in 1 .. Len(k) - 1 : i + d \in 1 .. Len(c) /\ k[i] = c[i + d]
  /\ \A i \in 2 .. Len(c) : \E j \in 1 .. Len(k) - 1 : k[j] = c[i]

LEMMA KeepSlides ==
  ASSUME NEW c \in Seq(Entries), NEW count \in Nat \ {0}, Len(c) <= count,
         NEW e \in Entries, NEW k, k = Keep(c, count, e)
  PROVE  /\ k \in Seq(Entries) /\ Len(k) <= count
         /\ \E d \in {0, 1} : Slid(c, e, k, d)
<1>1. CASE Len(c) < count
  <2>1. k = Append(c, e)
    BY <1>1 DEF Keep
  <2>2. /\ k \in Seq(Entries) /\ Len(c) \in Nat /\ Len(k) = Len(c) + 1
        /\ k[Len(k)] = e
        /\ \A i \in 1 .. Len(c) : k[i] = c[i]
    BY <2>1
  <2>3. \A i \in 1 .. Len(k) - 1 : i + 0 \in 1 .. Len(c) /\ k[i] = c[i + 0]
    BY <2>2
  <2>4. \A i \in 2 .. Len(c) : i \in 1 .. Len(k) - 1 /\ k[i] = c[i]
    BY <2>2
  <2>5. Len(k) \in Nat /\ 1 <= Len(k) /\ Len(k) <= count
    BY <1>1, <2>2
  <2>6. Slid(c, e, k, 0)
    BY <2>2, <2>3, <2>4, <2>5 DEF Slid
  <2> QED BY <2>2, <2>5, <2>6
<1>2. CASE Len(c) = count
  <2> DEFINE r == Tail(c)
  <2>1. k = Append(r, e) /\ c # << >>
    BY <1>2 DEF Keep
  <2>2. /\ r \in Seq(Entries) /\ Len(r) = Len(c) - 1 /\ Len(r) \in Nat
        /\ \A i \in 1 .. Len(r) : r[i] = c[i + 1]
    BY <2>1, HeadTailProperties
  <2> HIDE DEF r
  <2>3. /\ k \in Seq(Entries) /\ Len(k) = Len(r) + 1
        /\ k[Len(k)] = e
        /\ \A i \in 1 .. Len(r) : k[i] = r[i]
    BY <2>1, <2>2
  <2>4. \A i \in 1 .. Len(k) - 1 : i + 1 \in 1 .. Len(c) /\ k[i] = c[i + 1]
    BY <2>2, <2>3
  <2>5. ASSUME NEW i \in 2 .. Len(c)
        PROVE  \E j \in 1 .. Len(k) - 1 : k[j] = c[i]
    <3>1. i - 1 \in 1 .. Len(k) - 1 /\ (i - 1) + 1 = i
      BY <2>2, <2>3
    <3> QED BY <2>4, <3>1
  <2>6. Len(k) \in Nat /\ 1 <= Len(k) /\ Len(k) <= count
    BY <1>2, <2>2, <2>3
  <2>7. Slid(c, e, k, 1)
    BY <2>3, <2>4, <2>5, <2>6 DEF Slid
  <2> QED BY <2>3, <2>6, <2>7
<1> QED BY <1>1, <1>2

LEMMA KeepChosen ==
  ASSUME NEW s \in Seq(Nodes), Distinct(s), NEW data, NEW o, NEW c \in Seq(Entries),
         NEW count \in Nat \ {0}, Len(c) <= count,
         NEW p \in 1 .. Len(s), Chosen(s, data, o, c, p), data[s[p]].owner = o,
         NEW e \in Entries, EntryAt(s, e, p)
  PROVE  Chosen(s, data, o, Keep(c, count, e), p + 1)
<1> SUFFICES ASSUME NEW k, k = Keep(c, count, e)
             PROVE  Chosen(s, data, o, k, p + 1)
  OBVIOUS
<1>0. PICK d \in {0, 1} : Slid(c, e, k, d)
  BY KeepSlides
<1>1. /\ Len(k) \in Nat /\ 1 <= Len(k) /\ k[Len(k)] = e
      /\ \A i \in 2 .. Len(c) : \E j \in 1 .. Len(k) - 1 : k[j] = c[i]
  BY <1>0 DEF Slid
<1>2. \A i \in 1 .. Len(k) - 1 : i + d \in 1 .. Len(c) /\ k[i] = c[i + d]
  BY <1>0 DEF Slid
<1>3. Len(c) \in Nat /\ Len(s) \in Nat
  OBVIOUS
<1>4. ASSUME NEW i \in 1 .. Len(k)
      PROVE  \E q \in 1 .. (p + 1) - 1 : EntryAt(s, k[i], q) /\ data[s[q]].owner = o
  <2>1. CASE i = Len(k)
    BY <1>1, <2>1
  <2>2. CASE i # Len(k)
    <3>1. i + d \in 1 .. Len(c) /\ k[i] = c[i + d]
      BY <1>1, <1>2, <2>2
    <3>2. PICK q \in 1 .. p - 1 : EntryAt(s, c[i + d], q) /\ data[s[q]].owner = o
      BY <3>1 DEF Chosen
    <3> QED BY <3>1, <3>2
  <2> QED BY <2>1, <2>2
<1>5. ASSUME NEW i \in 1 .. Len(k), NEW j \in 1 .. Len(k),
             NEW q \in 1 .. Len(s), NEW r \in 1 .. Len(s),
             i < j, EntryAt(s, k[i], q), EntryAt(s, k[j], r)
      PROVE  q < r
  <2>1. i + d \in 1 .. Len(c) /\ k[i] = c[i + d]
    <3>1. i \in 1 .. Len(k) - 1
      BY <1>1, <1>5
    <3> QED BY <1>2, <3>1
  <2>2. CASE j = Len(k)
    <3>1. r = p
      BY <1>1, <1>5, <2>2, EntryOnce
    <3>2. PICK m \in 1 .. p - 1 : EntryAt(s, c[i + d], m)
      BY <2>1 DEF Chosen
    <3>3. q = m
      BY <1>5, <2>1, <3>2, EntryOnce
    <3> QED BY <3>1, <3>2, <3>3
  <2>3. CASE j # Len(k)
    <3>1. j + d \in 1 .. Len(c) /\ k[j] = c[j + d] /\ i + d < j + d
      BY <1>1, <1>2, <1>5, <2>3
    <3> QED BY <1>5, <2>1, <3>1 DEF Chosen
  <2> QED BY <2>2, <2>3
<1>6. ASSUME NEW q \in 1 .. (p + 1) - 1, data[s[q]].owner = o
      PROVE  \/ \E i \in 1 .. Len(k) : EntryAt(s, k[i], q)
             \/ \A i \in 1 .. Len(k), r \in 1 .. Len(s) : EntryAt(s, k[i], r) => q < r
  <2>1. CASE q = p
    <3>1. Len(k) \in 1 .. Len(k) /\ EntryAt(s, k[Len(k)], q)
      BY <1>1, <2>1
    <3> QED BY <3>1
  <2>2. CASE q # p /\ \A i \in 1 .. Len(c), r \in 1 .. Len(s) : EntryAt(s, c[i], r) => q < r
    <3>1. ASSUME NEW i \in 1 .. Len(k), NEW r \in 1 .. Len(s), EntryAt(s, k[i], r)
          PROVE  q < r
      <4>1. CASE i = Len(k)
        BY <1>1, <1>6, <2>2, <3>1, <4>1, EntryOnce
      <4>2. CASE i # Len(k)
        <5>1. i \in 1 .. Len(k) - 1
          BY <1>1, <4>2
        <5>2. i + d \in 1 .. Len(c) /\ k[i] = c[i + d]
          BY <1>2, <5>1
        <5> QED BY <2>2, <3>1, <5>2
      <4> QED BY <4>1, <4>2
    <3> QED BY <3>1
  <2>3. ASSUME NEW i \in 1 .. Len(c), EntryAt(s, c[i], q), q # p
        PROVE  \/ \E l \in 1 .. Len(k) : EntryAt(s, k[l], q)
               \/ \A l \in 1 .. Len(k), r \in 1 .. Len(s) : EntryAt(s, k[l], r) => q < r
    <3>1. CASE i # 1
      <4>1. PICK j \in 1 .. Len(k) - 1 : k[j] = c[i]
        BY <1>1, <1>3, <3>1
      <4> QED BY <1>1, <2>3, <4>1
    <3>2. CASE i = 1 /\ k[1] = c[1]
      BY <1>1, <2>3, <3>2
    <3>3. CASE i = 1 /\ k[1] # c[1]
      <4>1. ASSUME NEW l \in 1 .. Len(k), NEW r \in 1 .. Len(s), EntryAt(s, k[l], r)
            PROVE  q < r
        <5>1. CASE l = Len(k)
          BY <1>1, <1>6, <2>3, <4>1, <5>1, EntryOnce
        <5>2. CASE l # Len(k)
          <6>1. l + d \in 1 .. Len(c) /\ k[l] = c[l + d]
            BY <1>1, <1>2, <5>2
          <6>2. 1 < l + d
            BY <3>3, <6>1
          <6>3. q \in 1 .. Len(s) /\ 1 \in 1 .. Len(c)
            BY <1>3, <1>6, <6>1
          <6> QED BY <2>3, <3>3, <4>1, <6>1, <6>2, <6>3 DEF Chosen
        <5> QED BY <5>1, <5>2
      <4> QED BY <4>1
    <3> QED BY <3>1, <3>2, <3>3
  <2>4. q # p => q \in 1 .. p - 1
    BY <1>6
  <2> QED BY <1>6, <2>1, <2>2, <2>3, <2>4 DEF Chosen
<1> QED BY <1>4, <1>5, <1>6 DEF Chosen

\* As long as there is room, no ball is forgotten; once there is none, there is none.
LEMMA KeepAll ==
  ASSUME NEW s \in Seq(Nodes), NEW data, NEW o, NEW c \in Seq(Entries),
         NEW count \in Nat \ {0}, Len(c) <= count,
         NEW p \in 1 .. Len(s), NEW e \in Entries, EntryAt(s, e, p),
         Len(c) = count \/ AllChosen(s, data, o, c, p)
  PROVE  \/ Len(Keep(c, count, e)) = count
         \/ AllChosen(s, data, o, Keep(c, count, e), p + 1)
<1>1. Len(c) \in Nat
  OBVIOUS
<1>2. CASE Len(c) = count
  <2> DEFINE r == Tail(c)
  <2>1. r \in Seq(Entries) /\ Len(r) = Len(c) - 1 /\ c # << >>
    BY <1>2, HeadTailProperties
  <2>2. Keep(c, count, e) = Append(r, e)
    BY <1>2 DEF Keep
  <2> HIDE DEF r
  <2>3. Len(Append(r, e)) = Len(r) + 1
    BY <2>1
  <2> QED BY <1>1, <1>2, <2>1, <2>2, <2>3
<1>3. CASE Len(c) # count
  <2> DEFINE k == Append(c, e)
  <2>1. Keep(c, count, e) = k
    BY <1>1, <1>3 DEF Keep
  <2>2. Len(k) = Len(c) + 1 /\ k[Len(c) + 1] = e /\ \A i \in 1 .. Len(c) : k[i] = c[i]
    OBVIOUS
  <2> HIDE DEF k
  <2>3. ASSUME NEW q \in 1 .. (p + 1) - 1, data[s[q]].owner = o
        PROVE  \E i \in 1 .. Len(k) : EntryAt(s, k[i], q)
    <3>1. CASE q = p
      <4>1. Len(c) + 1 \in 1 .. Len(k)
        BY <1>1, <2>2
      <4> QED BY <2>2, <3>1, <4>1
    <3>2. CASE q # p
      <4>1. q \in 1 .. p - 1
        BY <3>2
      <4>2. PICK i \in 1 .. Len(c) : EntryAt(s, c[i], q)
        BY <1>3, <2>3, <4>1 DEF AllChosen
      <4>3. i \in 1 .. Len(k)
        BY <1>1, <2>2
      <4> QED BY <2>2, <4>2, <4>3
    <3> QED BY <3>1, <3>2
  <2> QED BY <2>1, <2>3 DEF AllChosen
<1> QED BY <1>2, <1>3

LEMMA DropLastIsSeq ==
  ASSUME NEW S, NEW c \in Seq(S), NEW n \in Nat, Len(c) = n + 1
  PROVE  /\ SubSeq(c, 1, Len(c) - 1) \in Seq(S)
         /\ Len(SubSeq(c, 1, Len(c) - 1)) = n
         /\ \A i \in 1 .. n : SubSeq(c, 1, Len(c) - 1)[i] = c[i]
<1>1. Len(c) - 1 = n /\ \A i \in 1 .. n : c[i] \in S
  OBVIOUS
<1> DEFINE r == SubSeq(c, 1, n)
<1>2. /\ r \in Seq(S)
      /\ Len(r) = IF 1 <= n THEN n - 1 + 1 ELSE 0
      /\ \A i \in 1 .. n - 1 + 1 : r[i] = c[1 + i - 1]
  BY <1>1, SubSeqProperties
<1> HIDE DEF r
<1>3. Len(r) = n
  BY <1>2
<1>4. ASSUME NEW i \in 1 .. n
      PROVE  r[i] = c[i]
  <2>1. i \in 1 .. n - 1 + 1 /\ 1 + i - 1 = i
    OBVIOUS
  <2> QED BY <1>2, <2>1
<1> QED BY <1>1, <1>2, <1>3, <1>4 DEF r

\* The last candidate is the owner's newest ball; without it the others are
\* still the owner's newest.
LEMMA DropLast ==
  ASSUME NEW s \in Seq(Nodes), Distinct(s), NEW B, NEW data \in [Nodes -> B],
         NEW o \in Owners, NEW c \in Seq(Entries), c # << >>,
         Chosen(s, data, o, c, Len(s) + 1)
  PROVE  \E p \in 1 .. Len(s) :
           /\ EntryAt(s, c[Len(c)], p)
           /\ data[s[p]].owner = o
           /\ \A q \in 1 .. Len(s) : data[s[q]].owner = o => q <= p
           /\ Chosen(Cut(s, p), [data EXCEPT ![s[p]] = NoBall], o,
                     SubSeq(c, 1, Len(c) - 1), Len(s))
           /\ AllChosen(s, data, o, c, Len(s) + 1) =>
                AllChosen(Cut(s, p), [data EXCEPT ![s[p]] = NoBall], o,
                          SubSeq(c, 1, Len(c) - 1), Len(s))
<1>1. Len(c) \in Nat /\ Len(c) >= 1 /\ Len(s) \in Nat
  OBVIOUS
<1>2. PICK p \in 1 .. (Len(s) + 1) - 1 :
        EntryAt(s, c[Len(c)], p) /\ data[s[p]].owner = o
  BY <1>1 DEF Chosen
<1>3. p \in 1 .. Len(s)
  BY <1>1
<1>4. ASSUME NEW i \in 1 .. Len(c), NEW q \in 1 .. Len(s), EntryAt(s, c[i], q), i # Len(c)
      PROVE  q < p
  BY <1>1, <1>2, <1>3, <1>4 DEF Chosen
<1>5. ASSUME NEW q \in 1 .. Len(s), data[s[q]].owner = o
      PROVE  q <= p
  <2>1. q \in 1 .. (Len(s) + 1) - 1
    BY <1>1
  <2>2. CASE \E i \in 1 .. Len(c) : EntryAt(s, c[i], q)
    <3>1. PICK i \in 1 .. Len(c) : EntryAt(s, c[i], q)
      BY <2>2
    <3>2. CASE i = Len(c)
      BY <1>2, <1>3, <3>1, <3>2, EntryOnce
    <3>3. CASE i # Len(c)
      BY <1>3, <1>4, <3>1, <3>3
    <3> QED BY <3>2, <3>3
  <2>3. CASE \A i \in 1 .. Len(c), r \in 1 .. Len(s) : EntryAt(s, c[i], r) => q < r
    BY <1>1, <1>2, <1>3, <2>3
  <2> QED BY <1>5, <2>1, <2>2, <2>3 DEF Chosen
<1> DEFINE w == Cut(s, p)
           data2 == [data EXCEPT ![s[p]] = NoBall]
           r == SubSeq(c, 1, Len(c) - 1)
<1>6. /\ w \in Seq(Nodes) /\ Len(w) = Len(s) - 1 /\ Distinct(w)
      /\ \A j \in 1 .. Len(s) - 1 : w[j] = IF j < p THEN s[j] ELSE s[j + 1]
  BY <1>3, CutIsSeq, CutDistinct
<1>7. Len(r) = Len(c) - 1 /\ \A i \in 1 .. Len(c) - 1 : r[i] = c[i]
  <2>1. Len(c) - 1 \in Nat /\ Len(c) = (Len(c) - 1) + 1
    BY <1>1
  <2> QED BY <2>1, DropLastIsSeq
<1>8. \A i \in 1 .. Len(s) : i # p => data2[s[i]] = data[s[i]]
  BY <1>3 DEF Distinct
<1> HIDE DEF w, data2, r
<1>9. ASSUME NEW q \in 1 .. Len(s), q < p
      PROVE  /\ q \in 1 .. Len(s) - 1
             /\ w[q] = s[q]
             /\ Before(w, q, NULL) = Before(s, q, NULL)
             /\ data2[w[q]] = data[s[q]]
             /\ \A e : EntryAt(s, e, q) => EntryAt(w, e, q)
  <2>1. q \in 1 .. Len(s) - 1 /\ w[q] = s[q]
    BY <1>3, <1>6, <1>9
  <2>2. q # 1 => q - 1 \in 1 .. Len(s) - 1 /\ q - 1 < p
    BY <1>1, <1>3, <1>9
  <2>3. q # 1 => w[q - 1] = s[q - 1]
    BY <1>6, <2>2
  <2>4. Before(w, q, NULL) = Before(s, q, NULL)
    BY <2>3 DEF Before
  <2>5. data2[w[q]] = data[s[q]]
    BY <1>8, <1>9, <2>1
  <2> QED BY <1>6, <2>1, <2>4, <2>5 DEF EntryAt
<1>10. ASSUME NEW i \in 1 .. Len(r)
       PROVE  \E q \in 1 .. Len(s) - 1 :
                /\ EntryAt(s, c[i], q) /\ EntryAt(w, r[i], q)
                /\ data2[w[q]].owner = o
  <2>1. i \in 1 .. Len(c) /\ i # Len(c) /\ r[i] = c[i]
    BY <1>1, <1>7
  <2>2. PICK q \in 1 .. (Len(s) + 1) - 1 : EntryAt(s, c[i], q) /\ data[s[q]].owner = o
    BY <2>1 DEF Chosen
  <2>3. q \in 1 .. Len(s) /\ q < p
    BY <1>1, <1>4, <2>1, <2>2
  <2> QED BY <1>9, <2>1, <2>2, <2>3
<1>11. ASSUME NEW i \in 1 .. Len(r), NEW j \in 1 .. Len(r),
              NEW a \in 1 .. Len(w), NEW b \in 1 .. Len(w),
              i < j, EntryAt(w, r[i], a), EntryAt(w, r[j], b)
       PROVE  a < b
  <2>1. PICK a2 \in 1 .. Len(s) - 1 : EntryAt(s, c[i], a2) /\ EntryAt(w, r[i], a2)
    BY <1>10
  <2>2. PICK b2 \in 1 .. Len(s) - 1 : EntryAt(s, c[j], b2) /\ EntryAt(w, r[j], b2)
    BY <1>10
  <2>3. a = a2
    BY <1>6, <1>11, <2>1, EntryOnce
  <2>4. b = b2
    BY <1>6, <1>11, <2>2, EntryOnce
  <2>5. /\ i \in 1 .. Len(c) /\ j \in 1 .. Len(c)
        /\ a2 \in 1 .. Len(s) /\ b2 \in 1 .. Len(s)
    BY <1>1, <1>7
  <2> QED BY <1>11, <2>1, <2>2, <2>3, <2>4, <2>5 DEF Chosen
<1>12. ASSUME NEW q \in 1 .. Len(s) - 1, data2[w[q]].owner = o
       PROVE  q < p /\ q \in 1 .. Len(s) /\ q \in 1 .. (Len(s) + 1) - 1 /\ data[s[q]].owner = o
  <2>1. q < p
    <3> SUFFICES ASSUME ~(q < p) PROVE FALSE
      OBVIOUS
    <3>1. w[q] = s[q + 1] /\ q + 1 \in 1 .. Len(s) /\ q + 1 # p /\ q + 1 > p
      BY <1>1, <1>3, <1>6
    <3>2. data[s[q + 1]].owner = o
      BY <1>8, <1>12, <3>1
    <3>3. q + 1 <= p
      BY <1>5, <3>1, <3>2
    <3> QED BY <1>3, <3>1, <3>3
  <2> QED BY <1>1, <1>9, <1>12, <2>1
<1>13. ASSUME NEW q \in 1 .. Len(s) - 1, data2[w[q]].owner = o,
              NEW i \in 1 .. Len(c), EntryAt(s, c[i], q)
       PROVE  \E j \in 1 .. Len(r) : EntryAt(w, r[j], q)
  <2>1. q < p /\ q \in 1 .. Len(s)
    BY <1>12, <1>13
  <2>2. i # Len(c)
    BY <1>2, <1>3, <1>13, <2>1, EntryOnce
  <2>3. i \in 1 .. Len(r) /\ r[i] = c[i]
    BY <1>1, <1>7, <2>2
  <2> QED BY <1>9, <1>13, <2>1, <2>3
<1>14. ASSUME NEW q \in 1 .. Len(s) - 1, data2[w[q]].owner = o
       PROVE  \/ \E i \in 1 .. Len(r) : EntryAt(w, r[i], q)
              \/ \A i \in 1 .. Len(r), b \in 1 .. Len(w) : EntryAt(w, r[i], b) => q < b
  <2>1. q < p /\ q \in 1 .. Len(s) /\ q \in 1 .. (Len(s) + 1) - 1 /\ data[s[q]].owner = o
    BY <1>12, <1>14
  <2>2. CASE \E i \in 1 .. Len(c) : EntryAt(s, c[i], q)
    BY <1>13, <1>14, <2>2
  <2>3. CASE \A i \in 1 .. Len(c), b \in 1 .. Len(s) : EntryAt(s, c[i], b) => q < b
    <3>1. ASSUME NEW i \in 1 .. Len(r), NEW b \in 1 .. Len(w), EntryAt(w, r[i], b)
          PROVE  q < b
      <4>1. PICK b2 \in 1 .. Len(s) - 1 : EntryAt(s, c[i], b2) /\ EntryAt(w, r[i], b2)
        BY <1>10
      <4>2. b = b2
        BY <1>6, <3>1, <4>1, EntryOnce
      <4>3. i \in 1 .. Len(c) /\ b2 \in 1 .. Len(s)
        BY <1>1, <1>7
      <4> QED BY <2>3, <4>1, <4>2, <4>3
    <3> QED BY <3>1
  <2> QED BY <2>1, <2>2, <2>3 DEF Chosen
<1>15. AllChosen(s, data, o, c, Len(s) + 1) => AllChosen(w, data2, o, r, Len(s))
  BY <1>12, <1>13 DEF AllChosen
<1>16. Chosen(w, data2, o, r, Len(s))
  BY <1>6, <1>10, <1>11, <1>14 DEF Chosen
<1> QED BY <1>2, <1>3, <1>5, <1>15, <1>16 DEF w, data2, r

-----------------------------------------------------------------------------
(* The inductive invariant.                                                 *)

Balls == [id : Nat, owner : Owners \cup {NULL}]

HeapOK ==
  /\ next \in [Nodes -> Pointers]
  /\ ball \in [Nodes -> Balls]
  /\ allocated \subseteq Nodes
  /\ list \in Seq(Nodes)
  /\ total \in Nat
  /\ Cardinality(allocated) = total
  /\ Linked

AddOps == [kind : {"add"}, owner : Owners, left : 1 .. MaxCount]
ScanOps == [kind : {"scan"}, owner : Owners, count : 1 .. MaxCount,
            cur : Pointers, prev : Pointers, candidates : Seq(Entries)]
UnlinkOps == [kind : {"unlink"}, owner : Owners, count : 1 .. MaxCount,
              candidates : Seq(Entries)]
PurgeOps == [kind : {"purge"}, owner : Owners, cur : Pointers, prev : Pointers]

\* A walk of the list stands before position p, past its end in the end.
StandsAt(cur, prev, p) ==
  /\ p \in 1 .. Len(list) + 1
  /\ cur = IF p = Len(list) + 1 THEN NULL ELSE list[p]
  /\ prev = Before(list, p, NULL)

ScanOK ==
  /\ op \in ScanOps
  /\ Len(op.candidates) <= op.count
  /\ \E p \in 1 .. Len(list) + 1 :
       StandsAt(op.cur, op.prev, p) /\ Chosen(list, ball, op.owner, op.candidates, p)

UnlinkOK ==
  /\ op \in UnlinkOps
  /\ Len(op.candidates) <= op.count
  /\ op.candidates # << >>
  /\ Chosen(list, ball, op.owner, op.candidates, Len(list) + 1)

PurgeOK ==
  /\ op \in PurgeOps
  /\ \E p \in 1 .. Len(list) + 1 :
       /\ StandsAt(op.cur, op.prev, p)
       /\ \A q \in 1 .. p - 1 : ball[list[q]].owner # op.owner

OpOK == op = Idle \/ op \in AddOps \/ ScanOK \/ UnlinkOK \/ PurgeOK

IInv == HeapOK /\ OpOK /\ reader \in Nodes \cup {Outside}

-----------------------------------------------------------------------------

LEMMA InvImpliesType == IInv => TypeOK
<1> SUFFICES ASSUME IInv PROVE TypeOK
  OBVIOUS
<1>1. head \in Pointers /\ tail \in Pointers
  <2>1. list \in Seq(Nodes) /\ Linked
    BY DEF IInv, HeapOK
  <2>2. list # << >> => list[1] \in Nodes /\ list[Len(list)] \in Nodes
    BY <2>1
  <2> QED BY <2>1, <2>2 DEF Linked, Pointers
<1>2. total \in 0 .. Cardinality(Nodes)
  <2>1. IsFiniteSet(Nodes) /\ allocated \subseteq Nodes
    BY HeapAssumption DEF IInv, HeapOK
  <2>2. Cardinality(allocated) <= Cardinality(Nodes) /\ Cardinality(Nodes) \in Nat
    BY <2>1, FS_Subset, FS_CardinalityType
  <2> QED BY <2>2 DEF IInv, HeapOK
<1>3. /\ op.kind \in {"idle", "add", "scan", "unlink", "purge"}
      /\ op.kind \in {"scan", "unlink"} =>
           op.candidates \in Seq(Entries) /\ Len(op.candidates) <= op.count
  BY DEF IInv, OpOK, Idle, AddOps, ScanOK, ScanOps, UnlinkOK, UnlinkOps, PurgeOK, PurgeOps
<1> QED BY <1>1, <1>2, <1>3 DEF IInv, HeapOK, Balls, TypeOK

LEMMA LinkedIsChain ==
  Linked <=> /\ Chain(list, head, tail, next, NULL)
             /\ Distinct(list)
             /\ allocated = NodesOf(list)
             /\ total = Len(list)
BY DEF Linked, Chain, Distinct, NodesOf

\* What an operation that leaves the list alone keeps.
LEMMA HeapKept ==
  ASSUME HeapOK, UNCHANGED <<manager, heap, list>>
  PROVE  HeapOK'
<1>1. /\ head' = head /\ tail' = tail /\ total' = total /\ next' = next
      /\ ball' = ball /\ allocated' = allocated /\ list' = list
  BY DEF manager, heap
<1>2. /\ Chain(list, head, tail, next, NULL) /\ Distinct(list)
      /\ allocated = NodesOf(list) /\ total = Len(list)
  BY LinkedIsChain DEF HeapOK
<1>3. /\ Chain(list', head', tail', next', NULL) /\ Distinct(list')
      /\ allocated' = NodesOf(list') /\ total' = Len(list')
  BY <1>1, <1>2
<1>4. Linked'
  BY <1>3 DEF Linked, Chain, Distinct, NodesOf
<1> QED BY <1>1, <1>4 DEF HeapOK

\* Unlinking the node at position p with the one before it keeps the heap.
LEMMA UnlinkKeeps ==
  ASSUME HeapOK, NEW p \in 1 .. Len(list), NEW node, node = list[p],
         NEW prev, prev = Before(list, p, NULL), Unlink(node, prev)
  PROVE  /\ HeapOK'
         /\ list' = Cut(list, p)
         /\ ball' = [ball EXCEPT ![node] = NoBall]
         /\ Len(list') = Len(list) - 1
         /\ \A q \in 1 .. Len(list) - 1 : list'[q] = IF q < p THEN list[q] ELSE list[q + 1]
<1>1. /\ Chain(list, head, tail, next, NULL) /\ Distinct(list) /\ list \in Seq(Nodes)
      /\ allocated = NodesOf(list) /\ total = Len(list)
      /\ next \in [Nodes -> Pointers] /\ ball \in [Nodes -> Balls]
      /\ node \in Nodes /\ node \in allocated
  BY LinkedIsChain DEF HeapOK, NodesOf
<1>2. /\ list' = Cut(list, p)
      /\ ball' = [ball EXCEPT ![node] = NoBall]
      /\ allocated' = allocated \ {node}
      /\ total' = total - 1
  BY <1>1, RemoveIsCut DEF Unlink
<1>3. /\ list' \in Seq(Nodes) /\ Len(list') = Len(list) - 1
      /\ \A q \in 1 .. Len(list) - 1 : list'[q] = IF q < p THEN list[q] ELSE list[q + 1]
  BY <1>1, <1>2, CutIsSeq
<1>4. Distinct(list') /\ allocated' = NodesOf(list')
  BY <1>1, <1>2, CutDistinct
<1>5. Chain(list', head', tail', next', NULL)
  <2>1. /\ head' = IF head = node THEN next[node] ELSE head
        /\ tail' = IF tail = node THEN prev ELSE tail
    BY DEF Unlink
  <2>2. prev # NULL => prev \in Nodes /\ prev # node
    <3>1. p # 1 => p - 1 \in 1 .. Len(list) /\ p - 1 # p
      OBVIOUS
    <3> QED BY <1>1, <3>1 DEF Before, Distinct
  <2>3. prev # NULL => next'[prev] = next[node]
    BY <1>1, <2>2 DEF Unlink
  <2>4. \A m \in Nodes : m # node /\ m # prev => next'[m] = next[m]
    BY <1>1 DEF Unlink
  <2>5. Chain(Cut(list, p), head', tail', next', NULL)
    <3>1. /\ list \in Seq(Nodes) /\ Distinct(list) /\ NULL \notin Nodes
          /\ Chain(list, head, tail, next, NULL)
      BY <1>1, HeapAssumption
    <3>2. ASSUME NEW h2, h2 = IF head = node THEN next[node] ELSE head,
                 NEW t2, t2 = IF tail = node THEN prev ELSE tail,
                 NEW nx2, prev # NULL => nx2[prev] = next[node],
                 \A m \in Nodes : m # node /\ m # prev => nx2[m] = next[m]
          PROVE  Chain(Cut(list, p), h2, t2, nx2, NULL)
      <4>1. node = list[p] /\ prev = Before(list, p, NULL) /\ p \in 1 .. Len(list)
        OBVIOUS
      <4> QED BY ONLY <3>1, <3>2, <4>1, UnlinkChain
    <3> QED BY <2>1, <2>3, <2>4, <3>2
  <2> QED BY <1>2, <2>5
<1>6. total' \in Nat /\ total' = Len(list')
  BY <1>1, <1>2, <1>3
<1>7. Cardinality(allocated') = total'
  <2>1. IsFiniteSet(allocated)
    BY HeapAssumption, FS_Subset DEF HeapOK
  <2>2. Cardinality(allocated \ {node}) = Cardinality(allocated) - 1
    BY <1>1, <2>1, FS_RemoveElement
  <2> QED BY <1>2, <2>2 DEF HeapOK
<1>8. next' \in [Nodes -> Pointers]
  <2>1. next[node] \in Pointers /\ NULL \in Pointers
    BY <1>1 DEF Pointers
  <2> QED BY <1>1, <2>1 DEF Unlink
<1>9. ball' \in [Nodes -> Balls] /\ allocated' \subseteq Nodes
  BY <1>1, <1>2 DEF HeapOK, Balls, NoBall
<1>10. Linked'
  BY <1>4, <1>5, <1>6 DEF Linked, Chain, Distinct, NodesOf
<1> QED BY <1>2, <1>3, <1>6, <1>7, <1>8, <1>9, <1>10 DEF HeapOK

\* Where a walk that stands at p goes next.
LEMMA WalkOn ==
  ASSUME HeapOK, NEW cur, NEW prev, NEW p \in 1 .. Len(list) + 1, StandsAt(cur, prev, p),
         cur # NULL
  PROVE  /\ p \in 1 .. Len(list)
         /\ cur = list[p] /\ cur \in Nodes
         /\ prev = Before(list, p, NULL)
         /\ StandsAt(next[cur], cur, p + 1)
<1>1. Len(list) \in Nat /\ list \in Seq(Nodes)
  BY DEF HeapOK
<1>2. p \in 1 .. Len(list) /\ cur = list[p] /\ cur \in Nodes
  BY <1>1 DEF StandsAt
<1>3. next[cur] = IF p + 1 = Len(list) + 1 THEN NULL ELSE list[p + 1]
  <2>1. next[list[p]] = IF p = Len(list) THEN NULL ELSE list[p + 1]
    BY <1>2 DEF HeapOK, Linked
  <2>2. p + 1 = Len(list) + 1 <=> p = Len(list)
    BY <1>1
  <2> QED BY <1>2, <2>1, <2>2
<1>4. p + 1 \in 1 .. Len(list) + 1 /\ Before(list, p + 1, NULL) = cur
  BY <1>1, <1>2 DEF Before
<1> QED BY <1>2, <1>3, <1>4 DEF StandsAt

-----------------------------------------------------------------------------

LEMMA InitInv == Init => IInv
<1> SUFFICES ASSUME Init PROVE IInv
  OBVIOUS
<1>1. list = << >> /\ Len(list) = 0
  BY DEF Init
<1>2. Linked
  BY <1>1 DEF Init, Linked
<1>3. next \in [Nodes -> Pointers] /\ ball \in [Nodes -> Balls]
  BY DEF Init, Pointers, Balls, NoBall
<1>4. Cardinality(allocated) = total /\ total \in Nat
  BY FS_EmptySet DEF Init
<1>5. HeapOK
  BY <1>1, <1>2, <1>3, <1>4 DEF Init, HeapOK
<1> QED BY <1>5 DEF Init, IInv, OpOK

LEMMA StartAddInv ==
  ASSUME IInv, NEW o \in Owners, NEW c \in 1 .. MaxCount, StartAdd(o, c)
  PROVE  IInv'
<1>1. HeapOK'
  BY HeapKept DEF IInv, StartAdd, Start
<1>2. op' \in AddOps
  BY DEF StartAdd, Start, AddOps
<1> QED BY <1>1, <1>2 DEF IInv, OpOK, StartAdd, Start

\* An operation that begins at the head stands at the first position.
LEMMA AtHead ==
  ASSUME HeapOK
  PROVE  StandsAt(head, NULL, 1) /\ 1 \in 1 .. Len(list) + 1 /\ head \in Pointers
<1>1. list \in Seq(Nodes) /\ Len(list) \in Nat /\ Linked
  BY DEF HeapOK
<1>2. list # << >> => list[1] \in Nodes /\ 1 # Len(list) + 1
  BY <1>1
<1>3. list = << >> => 1 = Len(list) + 1
  BY <1>1
<1> QED BY <1>1, <1>2, <1>3 DEF StandsAt, Linked, Before, Pointers

LEMMA StartDeleteInv ==
  ASSUME IInv, NEW o \in Owners, NEW c \in 1 .. MaxCount, StartDelete(o, c)
  PROVE  IInv'
<1>1. HeapOK' /\ list' = list /\ ball' = ball
  BY HeapKept DEF IInv, StartDelete, Start, heap
<1>2. op' = [kind |-> "scan", owner |-> o, count |-> c, cur |-> head, prev |-> NULL,
             candidates |-> << >>]
  BY DEF StartDelete, Start
<1>3. StandsAt(head, NULL, 1) /\ 1 \in 1 .. Len(list) + 1 /\ head \in Pointers
  BY AtHead DEF IInv
<1>4. op' \in ScanOps /\ Len(op'.candidates) <= op'.count
  BY <1>2, <1>3 DEF ScanOps, Pointers
<1>5. Chosen(list, ball, o, << >>, 1)
  BY DEF Chosen
<1>6. ScanOK'
  BY <1>1, <1>2, <1>3, <1>4, <1>5 DEF ScanOK, StandsAt
<1> QED BY <1>1, <1>6 DEF IInv, OpOK, StartDelete, Start

LEMMA StartPurgeInv ==
  ASSUME IInv, NEW o \in Owners, StartPurge(o)
  PROVE  IInv'
<1>1. HeapOK' /\ list' = list /\ ball' = ball
  BY HeapKept DEF IInv, StartPurge, Start, heap
<1>2. op' = [kind |-> "purge", owner |-> o, cur |-> head, prev |-> NULL]
  BY DEF StartPurge, Start
<1>3. StandsAt(head, NULL, 1) /\ 1 \in 1 .. Len(list) + 1 /\ head \in Pointers
  BY AtHead DEF IInv
<1>4. op' \in PurgeOps
  BY <1>2, <1>3 DEF PurgeOps, Pointers
<1>5. PurgeOK'
  BY <1>1, <1>2, <1>3, <1>4 DEF PurgeOK, StandsAt
<1> QED BY <1>1, <1>5 DEF IInv, OpOK, StartPurge, Start

LEMMA AddBallInv ==
  ASSUME IInv, AddBall
  PROVE  IInv'
<1>1. op \in AddOps
  BY DEF IInv, OpOK, AddBall, Idle, ScanOK, ScanOps, UnlinkOK, UnlinkOps, PurgeOK, PurgeOps
<1>2. PICK n \in Malloc : AppendBall(n, [id |-> total, owner |-> op.owner])
  BY DEF AddBall
<1>3. /\ Chain(list, head, tail, next, NULL) /\ Distinct(list) /\ list \in Seq(Nodes)
      /\ allocated = NodesOf(list) /\ total = Len(list) /\ total \in Nat
      /\ next \in [Nodes -> Pointers] /\ ball \in [Nodes -> Balls]
      /\ n \in Nodes /\ n \notin allocated /\ allocated \subseteq Nodes
  BY LinkedIsChain DEF IInv, HeapOK, Malloc
<1>4. /\ list' = Append(list, n) /\ total' = total + 1 /\ allocated' = allocated \cup {n}
      /\ head' = (IF head = NULL THEN n ELSE head) /\ tail' = n
      /\ next' = IF head = NULL THEN [next EXCEPT ![n] = NULL]
                                ELSE [next EXCEPT ![n] = NULL, ![tail] = n]
  BY <1>2 DEF AppendBall, AddBall
<1>5. /\ list' \in Seq(Nodes) /\ Distinct(list') /\ NodesOf(list') = NodesOf(list) \cup {n}
      /\ Chain(list', head', tail', next', NULL)
  <2>1. tail # NULL => tail \in NodesOf(list) /\ head # NULL
    <3>1. list # << >> => Len(list) \in 1 .. Len(list) /\ 1 \in 1 .. Len(list)
      BY <1>3
    <3> QED BY <1>3, <3>1, HeapAssumption DEF Chain, NodesOf
  <2>2. tail = NULL => list = << >> /\ head = NULL
    <3>1. list # << >> => list[Len(list)] \in Nodes
      BY <1>3
    <3> QED BY <1>3, <3>1, HeapAssumption DEF Chain
  <2>3. /\ next'[n] = NULL
        /\ tail # NULL => next'[tail] = n
        /\ \A m \in Nodes : m # n /\ m # tail => next'[m] = next[m]
    BY <1>3, <1>4, <2>1, <2>2
  <2>4. NULL \notin Nodes /\ n \notin NodesOf(list)
    BY <1>3, HeapAssumption
  <2>5. ASSUME NEW h2, h2 = IF head = NULL THEN n ELSE head,
               NEW nx2, nx2[n] = NULL, tail # NULL => nx2[tail] = n,
               \A m \in Nodes : m # n /\ m # tail => nx2[m] = next[m]
        PROVE  /\ Append(list, n) \in Seq(Nodes)
               /\ Distinct(Append(list, n))
               /\ NodesOf(Append(list, n)) = NodesOf(list) \cup {n}
               /\ Chain(Append(list, n), h2, n, nx2, NULL)
    BY <1>3, <2>4, <2>5, AppendChain
  <2> QED BY <1>4, <2>3, <2>5
<1>6. /\ ball' \in [Nodes -> Balls]
      /\ next' \in [Nodes -> Pointers]
      /\ allocated' \subseteq Nodes
  BY <1>1, <1>2, <1>3, <1>4 DEF AppendBall, AddOps, Balls, Pointers
<1>7. Linked'
  <2>1. Len(list') = Len(list) + 1
    BY <1>3, <1>4
  <2>2. allocated' = NodesOf(list') /\ total' = Len(list')
    BY <1>3, <1>4, <1>5, <2>1
  <2> QED BY <1>5, <2>2 DEF Linked, Chain, Distinct, NodesOf
<1>8. Cardinality(allocated') = total' /\ total' \in Nat
  <2>1. IsFiniteSet(allocated)
    BY <1>3, HeapAssumption, FS_Subset
  <2>2. Cardinality(allocated \cup {n}) = Cardinality(allocated) + 1
    BY <1>3, <2>1, FS_AddElement
  <2> QED BY <1>3, <1>4, <2>2 DEF IInv, HeapOK
<1>9. OpOK'
  <2>1. CASE op.left = 1
    BY <2>1 DEF AddBall, OpOK
  <2>2. CASE op.left # 1
    <3>1. op' = [op EXCEPT !.left = @ - 1]
      BY <2>2 DEF AddBall
    <3>2. op.left - 1 \in 1 .. MaxCount
      BY <1>1, <2>2, HeapAssumption DEF AddOps
    <3>3. op' \in AddOps
      BY <1>1, <3>1, <3>2 DEF AddOps
    <3> QED BY <3>3 DEF OpOK
  <2> QED BY <2>1, <2>2
<1> QED BY <1>5, <1>6, <1>7, <1>8, <1>9 DEF IInv, HeapOK, AddBall

LEMMA ScanBallInv ==
  ASSUME IInv, ScanBall
  PROVE  IInv'
<1> DEFINE e == [node |-> op.cur, prev |-> op.prev]
<1>1. ScanOK
  BY DEF IInv, OpOK, ScanBall, Idle, AddOps, UnlinkOK, UnlinkOps, PurgeOK, PurgeOps
<1>2. PICK p \in 1 .. Len(list) + 1 :
        StandsAt(op.cur, op.prev, p) /\ Chosen(list, ball, op.owner, op.candidates, p)
  BY <1>1 DEF ScanOK
<1>3. /\ p \in 1 .. Len(list) /\ op.cur = list[p] /\ op.cur \in Nodes
      /\ op.prev = Before(list, p, NULL) /\ StandsAt(next[op.cur], op.cur, p + 1)
  BY <1>2, WalkOn DEF IInv, ScanBall
<1>4. HeapOK' /\ list' = list /\ ball' = ball
  BY HeapKept DEF IInv, ScanBall, heap
<1>5. /\ list \in Seq(Nodes) /\ Distinct(list) /\ next[op.cur] \in Pointers
      /\ Len(list) \in Nat
  BY <1>3, LinkedIsChain DEF IInv, HeapOK
<1>6. /\ op.owner \in Owners /\ op.count \in Nat \ {0} /\ op.candidates \in Seq(Entries)
      /\ Len(op.candidates) <= op.count /\ op.prev \in Pointers
  BY <1>1, HeapAssumption DEF ScanOK, ScanOps
<1>7. e \in Entries /\ EntryAt(list, e, p)
  BY <1>3, <1>6 DEF Entries, EntryAt
<1> DEFINE c == IF ball[op.cur].owner = op.owner
                  THEN Keep(op.candidates, op.count, e) ELSE op.candidates
<1>8. c \in Seq(Entries) /\ Len(c) <= op.count
      /\ Chosen(list, ball, op.owner, c, p + 1)
  <2>1. CASE ball[op.cur].owner = op.owner
    <3>1. c = Keep(op.candidates, op.count, e)
      BY <2>1
    <3>2. c \in Seq(Entries) /\ Len(c) <= op.count
      <4> HIDE DEF c, e
      <4> QED BY <1>6, <1>7, <3>1, KeepSlides
    <3>3. Chosen(list, ball, op.owner, Keep(op.candidates, op.count, e), p + 1)
      <4> HIDE DEF e
      <4> QED BY <1>2, <1>3, <1>5, <1>6, <1>7, <2>1, KeepChosen
    <3> QED BY <3>1, <3>2, <3>3
  <2>2. CASE ball[op.cur].owner # op.owner
    <3>1. Chosen(list, ball, op.owner, op.candidates, p + 1)
      BY <1>2, <1>3, <1>5, <1>6, <2>2, SkipChosen
    <3> QED BY <1>6, <2>2, <3>1
  <2> QED BY <2>1, <2>2
<1>9. op' = [op EXCEPT !.candidates = c, !.prev = op.cur, !.cur = next[op.cur]]
  BY DEF ScanBall
<1> HIDE DEF c
<1>10. /\ op' \in ScanOps /\ op'.candidates = c /\ op'.owner = op.owner
       /\ op'.count = op.count /\ op'.cur = next[op.cur] /\ op'.prev = op.cur
  BY <1>1, <1>3, <1>5, <1>8, <1>9 DEF ScanOK, ScanOps, Pointers
<1>11. p + 1 \in 1 .. Len(list) + 1
  BY <1>3, <1>5
<1>12. ScanOK'
  <2>1. StandsAt(op.cur, op.prev, p + 1)'
    BY <1>3, <1>4, <1>10 DEF StandsAt
  <2>2. Chosen(list', ball', op'.owner, op'.candidates, p + 1)
    BY <1>4, <1>8, <1>10
  <2>3. p + 1 \in 1 .. Len(list') + 1
    BY <1>4, <1>11
  <2>4. op' \in ScanOps /\ Len(op'.candidates) <= op'.count
    BY <1>8, <1>10
  <2> QED BY <2>1, <2>2, <2>3, <2>4 DEF ScanOK
<1> QED BY <1>4, <1>12 DEF IInv, OpOK, ScanBall

LEMMA ScanEndInv ==
  ASSUME IInv, ScanEnd
  PROVE  IInv'
<1>1. ScanOK
  BY DEF IInv, OpOK, ScanEnd, Idle, AddOps, UnlinkOK, UnlinkOps, PurgeOK, PurgeOps
<1>2. PICK p \in 1 .. Len(list) + 1 :
        StandsAt(op.cur, op.prev, p) /\ Chosen(list, ball, op.owner, op.candidates, p)
  BY <1>1 DEF ScanOK
<1>3. p = Len(list) + 1
  <2>1. list \in Seq(Nodes) /\ NULL \notin Nodes
    BY HeapAssumption DEF IInv, HeapOK
  <2>2. p \in 1 .. Len(list) => list[p] \in Nodes
    BY <2>1
  <2> QED BY <1>2, <2>1, <2>2 DEF StandsAt, ScanEnd
<1>4. HeapOK' /\ list' = list /\ ball' = ball
  BY HeapKept DEF IInv, ScanEnd, heap
<1>5. OpOK'
  <2>1. CASE op.candidates = << >>
    BY <2>1 DEF OpOK, ScanEnd
  <2>2. CASE op.candidates # << >>
    <3>1. op' = [kind |-> "unlink", owner |-> op.owner, count |-> op.count,
                 candidates |-> op.candidates]
      BY <2>2 DEF ScanEnd
    <3>2. op' \in UnlinkOps /\ Len(op'.candidates) <= op'.count /\ op'.candidates # << >>
      BY <1>1, <2>2, <3>1 DEF ScanOK, ScanOps, UnlinkOps
    <3>3. Chosen(list', ball', op'.owner, op'.candidates, Len(list') + 1)
      BY <1>2, <1>3, <1>4, <3>1
    <3> QED BY <3>2, <3>3 DEF UnlinkOK, OpOK
  <2> QED BY <2>1, <2>2
<1> QED BY <1>4, <1>5 DEF IInv, ScanEnd

\* What DeleteBall does: it unlinks the owner's newest ball, the guard of
\* the code about the recorded predecessor never failing.
LEMMA DeleteBallUnlinks ==
  ASSUME IInv, DeleteBall
  PROVE  /\ UnlinkOK
         /\ \E p \in 1 .. Len(list) :
              /\ Unlink(list[p], Before(list, p, NULL))
              /\ ball[list[p]].owner = op.owner
              /\ \A q \in 1 .. Len(list) : ball[list[q]].owner = op.owner => q <= p
              /\ Chosen(Cut(list, p), [ball EXCEPT ![list[p]] = NoBall], op.owner,
                        SubSeq(op.candidates, 1, Len(op.candidates) - 1), Len(list))
              /\ AllChosen(list, ball, op.owner, op.candidates, Len(list) + 1) =>
                   AllChosen(Cut(list, p), [ball EXCEPT ![list[p]] = NoBall], op.owner,
                             SubSeq(op.candidates, 1, Len(op.candidates) - 1), Len(list))
<1>1. UnlinkOK
  BY DEF IInv, OpOK, DeleteBall, Idle, AddOps, ScanOK, ScanOps, PurgeOK, PurgeOps
<1>2. /\ list \in Seq(Nodes) /\ Distinct(list) /\ Chain(list, head, tail, next, NULL)
      /\ ball \in [Nodes -> Balls]
  BY LinkedIsChain DEF IInv, HeapOK
<1>3. /\ op.owner \in Owners /\ op.candidates \in Seq(Entries) /\ op.candidates # << >>
      /\ Chosen(list, ball, op.owner, op.candidates, Len(list) + 1)
  BY <1>1 DEF UnlinkOK, UnlinkOps
<1>4. PICK p \in 1 .. Len(list) :
        /\ EntryAt(list, op.candidates[Len(op.candidates)], p)
        /\ ball[list[p]].owner = op.owner
        /\ \A q \in 1 .. Len(list) : ball[list[q]].owner = op.owner => q <= p
        /\ Chosen(Cut(list, p), [ball EXCEPT ![list[p]] = NoBall], op.owner,
                  SubSeq(op.candidates, 1, Len(op.candidates) - 1), Len(list))
        /\ AllChosen(list, ball, op.owner, op.candidates, Len(list) + 1) =>
             AllChosen(Cut(list, p), [ball EXCEPT ![list[p]] = NoBall], op.owner,
                       SubSeq(op.candidates, 1, Len(op.candidates) - 1), Len(list))
  BY <1>2, <1>3, DropLast
<1> DEFINE last == op.candidates[Len(op.candidates)]
<1>5. last.node = list[p] /\ last.prev = Before(list, p, NULL)
  BY <1>4 DEF EntryAt
<1>6. ~(last.prev # NULL /\ next[last.prev] # last.node)
  <2>1. CASE p = 1
    BY <1>5, <2>1 DEF Before
  <2>2. CASE p # 1
    <3>1. p - 1 \in 1 .. Len(list) /\ p - 1 # Len(list) /\ (p - 1) + 1 = p
      BY <1>2, <2>2
    <3>2. next[list[p - 1]] = list[p]
      BY <3>1, <1>2 DEF Chain
    <3> QED BY <1>5, <2>2, <3>2 DEF Before
  <2> QED BY <2>1, <2>2
<1>7. Unlink(last.node, last.prev)
  BY <1>6, Zenon DEF DeleteBall
<1> QED BY <1>1, <1>4, <1>5, <1>7

LEMMA DeleteBallInv ==
  ASSUME IInv, DeleteBall
  PROVE  IInv'
<1> DEFINE rest == SubSeq(op.candidates, 1, Len(op.candidates) - 1)
<1>1. UnlinkOK
  BY DeleteBallUnlinks
<1>2. PICK p \in 1 .. Len(list) :
        /\ Unlink(list[p], Before(list, p, NULL))
        /\ Chosen(Cut(list, p), [ball EXCEPT ![list[p]] = NoBall], op.owner,
                  rest, Len(list))
  BY DeleteBallUnlinks
<1>3. /\ HeapOK' /\ list' = Cut(list, p) /\ ball' = [ball EXCEPT ![list[p]] = NoBall]
      /\ Len(list') = Len(list) - 1 /\ Len(list) \in Nat
  BY <1>2, UnlinkKeeps DEF IInv, HeapOK
<1>4. rest \in Seq(Entries) /\ Len(rest) <= op.count
  <2>1. /\ op.candidates \in Seq(Entries) /\ op.candidates # << >>
        /\ Len(op.candidates) <= op.count /\ op.count \in Nat
    BY <1>1, HeapAssumption DEF UnlinkOK, UnlinkOps
  <2>2. Len(op.candidates) - 1 \in Nat /\ Len(op.candidates) = (Len(op.candidates) - 1) + 1
    BY <2>1
  <2>3. rest \in Seq(Entries) /\ Len(rest) = Len(op.candidates) - 1
    BY <2>1, <2>2, DropLastIsSeq
  <2> HIDE DEF rest
  <2> QED BY <2>1, <2>2, <2>3
<1>5. op' = IF rest = << >> THEN Idle ELSE [op EXCEPT !.candidates = rest]
  BY DEF DeleteBall
<1> HIDE DEF rest
<1>6. OpOK'
  <2>1. CASE rest = << >>
    BY <1>5, <2>1 DEF OpOK
  <2>2. CASE rest # << >>
    <3>1. /\ op' \in UnlinkOps /\ op'.candidates = rest /\ op'.owner = op.owner
          /\ op'.count = op.count
      BY <1>1, <1>4, <1>5, <2>2 DEF UnlinkOK, UnlinkOps
    <3>2. Chosen(list', ball', op'.owner, op'.candidates, Len(list') + 1)
      <4>1. Len(list') + 1 = Len(list)
        BY <1>3
      <4> QED BY <1>2, <1>3, <3>1, <4>1
    <3> QED BY <1>4, <2>2, <3>1, <3>2 DEF UnlinkOK, OpOK
  <2> QED BY <2>1, <2>2
<1> QED BY <1>3, <1>6 DEF IInv, DeleteBall

\* What PurgeBall does: it unlinks the owner's oldest ball, or walks on.
LEMMA PurgeBallUnlinks ==
  ASSUME IInv, PurgeBall
  PROVE  /\ PurgeOK
         /\ \E p \in 1 .. Len(list) :
              /\ StandsAt(next[op.cur], op.cur, p + 1)
              /\ op.cur = list[p] /\ op.prev = Before(list, p, NULL)
              /\ \A q \in 1 .. p - 1 : ball[list[q]].owner # op.owner
<1>1. PurgeOK
  BY DEF IInv, OpOK, PurgeBall, Idle, AddOps, ScanOK, ScanOps, UnlinkOK, UnlinkOps
<1>2. PICK p \in 1 .. Len(list) + 1 :
        /\ StandsAt(op.cur, op.prev, p)
        /\ \A q \in 1 .. p - 1 : ball[list[q]].owner # op.owner
  BY <1>1 DEF PurgeOK
<1>3. /\ p \in 1 .. Len(list) /\ op.cur = list[p] /\ op.prev = Before(list, p, NULL)
      /\ StandsAt(next[op.cur], op.cur, p + 1)
  BY <1>2, WalkOn DEF IInv, PurgeBall
<1> QED BY <1>1, <1>2, <1>3

LEMMA PurgeBallInv ==
  ASSUME IInv, PurgeBall
  PROVE  IInv'
<1>1. PurgeOK
  BY PurgeBallUnlinks
<1>2. PICK p \in 1 .. Len(list) :
        /\ StandsAt(next[op.cur], op.cur, p + 1)
        /\ op.cur = list[p] /\ op.prev = Before(list, p, NULL)
        /\ \A q \in 1 .. p - 1 : ball[list[q]].owner # op.owner
  BY PurgeBallUnlinks
<1>3. /\ list \in Seq(Nodes) /\ Len(list) \in Nat /\ list[p] \in Nodes
      /\ Distinct(list) /\ ball \in [Nodes -> Balls] /\ next[op.cur] \in Pointers
  BY <1>2, LinkedIsChain DEF IInv, HeapOK
<1>4. CASE ball[op.cur].owner = op.owner
  <2>1. Unlink(list[p], Before(list, p, NULL)) /\ op' = [op EXCEPT !.cur = next[op.cur]]
    BY <1>2, <1>4 DEF PurgeBall
  <2>2. /\ HeapOK' /\ ball' = [ball EXCEPT ![list[p]] = NoBall]
        /\ list' = Cut(list, p) /\ Len(list') = Len(list) - 1
        /\ \A q \in 1 .. Len(list) - 1 : list'[q] = IF q < p THEN list[q] ELSE list[q + 1]
    BY <2>1, UnlinkKeeps DEF IInv
  <2>3. /\ op' \in PurgeOps /\ op'.cur = next[op.cur] /\ op'.prev = Before(list, p, NULL)
        /\ op'.owner = op.owner
    BY <1>1, <1>2, <1>3, <2>1 DEF PurgeOK, PurgeOps
  <2>4. p \in 1 .. Len(list') + 1
    BY <1>3, <2>2
  <2>5. Before(list', p, NULL) = Before(list, p, NULL)
    <3>1. p # 1 => p - 1 \in 1 .. Len(list) - 1 /\ p - 1 < p
      BY <1>3
    <3> QED BY <2>2, <3>1 DEF Before
  <2>6. next[op.cur] = IF p = Len(list') + 1 THEN NULL ELSE list'[p]
    <3>1. CASE p = Len(list)
      BY <1>2, <1>3, <2>2, <3>1 DEF StandsAt
    <3>2. CASE p # Len(list)
      <4>1. p \in 1 .. Len(list) - 1 /\ p + 1 # Len(list) + 1 /\ p # Len(list') + 1
        BY <1>3, <2>2, <3>2
      <4>2. list'[p] = list[p + 1]
        BY <2>2, <4>1
      <4> QED BY <1>2, <4>1, <4>2 DEF StandsAt
    <3> QED BY <3>1, <3>2
  <2>7. StandsAt(op.cur, op.prev, p)'
    BY <2>3, <2>4, <2>5, <2>6 DEF StandsAt
  <2>8. ASSUME NEW q \in 1 .. p - 1
        PROVE  ball'[list'[q]].owner # op'.owner
    <3>1. q \in 1 .. Len(list) - 1 /\ q \in 1 .. Len(list) /\ q < p /\ q # p
      BY <1>3
    <3>2. list'[q] = list[q] /\ list[q] # list[p] /\ list[q] \in Nodes
      BY <1>3, <2>2, <3>1 DEF Distinct
    <3>3. ball'[list'[q]] = ball[list[q]]
      BY <1>3, <2>2, <3>2
    <3> QED BY <1>2, <2>3, <3>3
  <2>9. PurgeOK'
    BY <2>3, <2>4, <2>7, <2>8 DEF PurgeOK
  <2> QED BY <2>2, <2>9 DEF IInv, OpOK, PurgeBall
<1>5. CASE ball[op.cur].owner # op.owner
  <2>1. HeapOK' /\ list' = list /\ ball' = ball
    BY <1>5, HeapKept DEF IInv, PurgeBall, heap
  <2>2. op' = [op EXCEPT !.cur = next[op.cur], !.prev = op.cur]
    BY <1>5 DEF PurgeBall
  <2>3. /\ op' \in PurgeOps /\ op'.cur = next[op.cur] /\ op'.prev = op.cur
        /\ op'.owner = op.owner
    BY <1>1, <1>2, <1>3, <2>2 DEF PurgeOK, PurgeOps, Pointers
  <2>4. StandsAt(op.cur, op.prev, p + 1)'
    BY <1>2, <2>1, <2>3 DEF StandsAt
  <2>5. \A q \in 1 .. (p + 1) - 1 : ball'[list'[q]].owner # op'.owner
    <3>1. \A q \in 1 .. (p + 1) - 1 : q \in 1 .. p - 1 \/ q = p
      OBVIOUS
    <3> QED BY <1>2, <1>5, <2>1, <2>3, <3>1
  <2>6. p + 1 \in 1 .. Len(list') + 1
    BY <1>3, <2>1
  <2>7. PurgeOK'
    BY <2>3, <2>4, <2>5, <2>6 DEF PurgeOK
  <2> QED BY <2>1, <2>7 DEF IInv, OpOK, PurgeBall
<1> QED BY <1>4, <1>5

LEMMA PurgeEndInv ==
  ASSUME IInv, PurgeEnd
  PROVE  IInv'
<1>1. HeapOK'
  BY HeapKept DEF IInv, PurgeEnd
<1> QED BY <1>1 DEF IInv, OpOK, PurgeEnd

\* Steps that leave the list and the operation alone.
LEMMA OpKept ==
  ASSUME OpOK, UNCHANGED <<manager, heap, list, op>>
  PROVE  OpOK'
<1>1. list' = list /\ ball' = ball /\ op' = op
  BY DEF heap
<1> QED BY <1>1 DEF OpOK, ScanOK, UnlinkOK, PurgeOK, StandsAt

LEMMA ReadInv ==
  ASSUME IInv, ReadBegin \/ ReadNext
  PROVE  IInv'
<1>1. UNCHANGED <<manager, heap, list, op>>
  BY DEF ReadBegin, ReadNext
<1>2. HeapOK' /\ OpOK'
  BY <1>1, HeapKept, OpKept DEF IInv
<1>3. head \in Pointers /\ next \in [Nodes -> Pointers]
  BY InvImpliesType DEF IInv, HeapOK, TypeOK
<1>4. CASE ReadBegin
  BY <1>2, <1>3, <1>4 DEF IInv, ReadBegin, Pointers
<1>5. CASE ReadNext
  <2>1. reader \in Nodes
    BY <1>5 DEF IInv, ReadNext
  <2>2. PICK n \in Pointers : reader' = IF n = NULL THEN Outside ELSE n
    BY <1>3, <1>5, <2>1 DEF ReadNext
  <2> QED BY <1>2, <2>2 DEF IInv, Pointers
<1> QED BY <1>4, <1>5

LEMMA NextInv == IInv /\ [Next]_vars => IInv'
<1> SUFFICES ASSUME IInv, [Next]_vars PROVE IInv'
  OBVIOUS
<1>1. CASE UNCHANGED vars
  <2>1. UNCHANGED <<manager, heap, list, op>> /\ reader' = reader
    BY <1>1 DEF vars
  <2> QED BY <2>1, HeapKept, OpKept DEF IInv
<1>2. CASE \E o \in Owners, c \in 1 .. MaxCount : StartAdd(o, c) \/ StartDelete(o, c)
  BY <1>2, StartAddInv, StartDeleteInv
<1>3. CASE \E o \in Owners : StartPurge(o)
  BY <1>3, StartPurgeInv
<1>4. CASE AddBall
  BY <1>4, AddBallInv
<1>5. CASE ScanBall
  BY <1>5, ScanBallInv
<1>6. CASE ScanEnd
  BY <1>6, ScanEndInv
<1>7. CASE DeleteBall
  BY <1>7, DeleteBallInv
<1>8. CASE PurgeBall
  BY <1>8, PurgeBallInv
<1>9. CASE PurgeEnd
  BY <1>9, PurgeEndInv
<1>10. CASE ReadBegin \/ ReadNext
  BY <1>10, ReadInv
<1> QED
  BY <1>1, <1>2, <1>3, <1>4, <1>5, <1>6, <1>7, <1>8, <1>9, <1>10 DEF Next

\* The invariant that carries the others: the pointers describe the list, and
\* an operation under way stands where its local variables say, delete_ball
\* with the newest balls so far among its candidates.
THEOREM Inductive == Spec => []IInv
BY InitInv, NextInv, PTL DEF Spec

\* The pointers of the manager are null or blocks of the heap, total_count
\* counts within it, and delete_ball never keeps more than count candidates.
THEOREM TypeCorrect == Spec => []TypeOK
BY Inductive, InvImpliesType, PTL

\* After every step of every operation head, tail, the next fields and
\* total_count describe one list of exactly the allocated blocks.
THEOREM StaysLinked == Spec => []Linked
<1>1. IInv => Linked
  BY DEF IInv, HeapOK
<1> QED BY <1>1, Inductive, PTL

\* A traversal without the mutex that stands on a live node steps to a live
\* node or leaves the list, whatever operation is half done.
THEOREM StepsToLive == Spec => StepsToLiveNodes
<1>1. IInv /\ [Next]_vars =>
        [(reader \in allocated /\ reader' # reader
            => reader' = Outside \/ reader' \in allocated')]_vars
  <2> SUFFICES ASSUME IInv, [Next]_vars, reader \in allocated, reader' # reader
               PROVE  reader' = Outside \/ reader' \in allocated'
    OBVIOUS
  <2>1. reader # Outside
    BY HeapAssumption DEF IInv, HeapOK
  <2>2. ReadNext
    BY <2>1 DEF Next, vars, StartAdd, StartDelete, StartPurge, Start, AddBall, ScanBall,
                ScanEnd, DeleteBall, PurgeBall, PurgeEnd, ReadBegin
  <2>3. /\ reader' = (IF next[reader] = NULL THEN Outside ELSE next[reader])
        /\ allocated' = allocated
    BY <2>2 DEF ReadNext, heap
  <2>4. next[reader] = NULL \/ next[reader] \in allocated
    <3>1. /\ Chain(list, head, tail, next, NULL) /\ allocated = NodesOf(list)
          /\ list \in Seq(Nodes)
      BY LinkedIsChain DEF IInv, HeapOK
    <3>2. PICK i \in 1 .. Len(list) : reader = list[i]
      BY <3>1 DEF NodesOf
    <3>3. i # Len(list) => i + 1 \in 1 .. Len(list)
      BY <3>1
    <3> QED BY <3>1, <3>2, <3>3 DEF Chain, NodesOf
  <2> QED BY <2>3, <2>4
<1> QED BY <1>1, Inductive, PTL DEF Spec, StepsToLiveNodes

-----------------------------------------------------------------------------
(* The list implements BallStore.                                           *)

\* The store that the list stands for.
Stored(l, data) == [i \in 1 .. Len(l) |-> data[l[i]]]

LEMMA StoredUnlinked ==
  ASSUME HeapOK, NEW p \in 1 .. Len(list), list' = Cut(list, p),
         ball' = [ball EXCEPT ![list[p]] = NoBall]
  PROVE  Stored(list', ball') = Store!Without(Stored(list, ball), p)
<1>1. /\ list \in Seq(Nodes) /\ Distinct(list) /\ ball \in [Nodes -> Balls]
      /\ Len(list) \in Nat
  BY LinkedIsChain DEF HeapOK
<1>2. /\ Len(list') = Len(list) - 1
      /\ \A j \in 1 .. Len(list) - 1 : list'[j] = IF j < p THEN list[j] ELSE list[j + 1]
  BY <1>1, CutIsSeq
<1>3. Len(Stored(list, ball)) = Len(list)
  BY <1>1 DEF Stored
<1>4. \A i \in 1 .. Len(list) : i # p => ball'[list[i]] = ball[list[i]]
  BY <1>1 DEF Distinct
<1>5. ASSUME NEW j \in 1 .. Len(list) - 1
      PROVE  ball'[list'[j]] = IF j < p THEN Stored(list, ball)[j]
                                        ELSE Stored(list, ball)[j + 1]
  <2>1. CASE j < p
    <3>1. j \in 1 .. Len(list) /\ j # p /\ list'[j] = list[j]
      BY <1>1, <1>2, <2>1
    <3> QED BY <1>4, <2>1, <3>1 DEF Stored
  <2>2. CASE ~(j < p)
    <3>1. j + 1 \in 1 .. Len(list) /\ j + 1 # p /\ list'[j] = list[j + 1]
      BY <1>1, <1>2, <2>2
    <3> QED BY <1>4, <2>2, <3>1 DEF Stored
  <2> QED BY <2>1, <2>2
<1>6. Stored(list', ball') = [j \in 1 .. Len(list) - 1 |-> ball'[list'[j]]]
  BY <1>2 DEF Stored
<1>7. Store!Without(Stored(list, ball), p)
        = [j \in 1 .. Len(list) - 1 |-> IF j < p THEN Stored(list, ball)[j]
                                                 ELSE Stored(list, ball)[j + 1]]
  BY <1>3 DEF Store!Without
<1> QED BY <1>5, <1>6, <1>7

LEMMA DeleteBallRefines ==
  ASSUME IInv, DeleteBall
  PROVE  Store!Next
<1>1. PICK p \in 1 .. Len(list) :
        /\ Unlink(list[p], Before(list, p, NULL))
        /\ ball[list[p]].owner = op.owner
        /\ \A q \in 1 .. Len(list) : ball[list[q]].owner = op.owner => q <= p
  BY DeleteBallUnlinks
<1>2. list' = Cut(list, p) /\ ball' = [ball EXCEPT ![list[p]] = NoBall]
  BY <1>1, UnlinkKeeps DEF IInv
<1>3. Stored(list', ball') = Store!Without(Stored(list, ball), p)
  BY <1>2, StoredUnlinked DEF IInv
<1>4. op.owner \in Owners
  BY DeleteBallUnlinks DEF UnlinkOK, UnlinkOps
<1>5. Len(Stored(list, ball)) = Len(list)
  BY DEF IInv, HeapOK, Stored
<1>6. \A q \in 1 .. Len(list) : Stored(list, ball)[q] = ball[list[q]]
  BY DEF Stored
<1>7. /\ p \in Store!Owned(op.owner)
      /\ \A q \in Store!Owned(op.owner) : q <= p
  BY <1>1, <1>5, <1>6 DEF Store!Owned, Stored
<1>8. Store!RemoveNewest(op.owner)
  BY <1>3, <1>7 DEF Store!RemoveNewest, Stored
<1> QED BY <1>4, <1>8 DEF Store!Next, Store!Add, Store!RemoveNewest, Store!RemoveOldest

LEMMA PurgeBallRefines ==
  ASSUME IInv, PurgeBall
  PROVE  Store!Next \/ Stored(list', ball') = Stored(list, ball)
<1>1. PICK p \in 1 .. Len(list) :
        /\ op.cur = list[p] /\ op.prev = Before(list, p, NULL)
        /\ \A q \in 1 .. p - 1 : ball[list[q]].owner # op.owner
  BY PurgeBallUnlinks
<1>2. CASE ball[op.cur].owner = op.owner
  <2>1. Unlink(list[p], Before(list, p, NULL))
    BY <1>1, <1>2 DEF PurgeBall
  <2>2. list' = Cut(list, p) /\ ball' = [ball EXCEPT ![list[p]] = NoBall]
    BY <2>1, UnlinkKeeps DEF IInv
  <2>3. Stored(list', ball') = Store!Without(Stored(list, ball), p)
    BY <2>2, StoredUnlinked DEF IInv
  <2>4. op.owner \in Owners
    BY PurgeBallUnlinks DEF PurgeOK, PurgeOps
  <2>5. Len(Stored(list, ball)) = Len(list) /\ Len(list) \in Nat
    BY DEF IInv, HeapOK, Stored
  <2>6. \A q \in 1 .. Len(list) : Stored(list, ball)[q] = ball[list[q]]
    BY DEF Stored
  <2>7. \A q \in 1 .. Len(list) : ball[list[q]].owner = op.owner => p <= q
    <3>1. \A q \in 1 .. Len(list) : ~(p <= q) => q \in 1 .. p - 1
      BY <2>5
    <3> QED BY <1>1, <3>1
  <2>8. /\ p \in Store!Owned(op.owner)
        /\ \A q \in Store!Owned(op.owner) : p <= q
    BY <1>1, <1>2, <2>5, <2>6, <2>7 DEF Store!Owned, Stored
  <2>9. Store!RemoveOldest(op.owner)
    BY <2>3, <2>8 DEF Store!RemoveOldest, Stored
  <2> QED BY <2>4, <2>9 DEF Store!Next, Store!Add, Store!RemoveNewest, Store!RemoveOldest
<1>3. CASE ball[op.cur].owner # op.owner
  BY <1>3 DEF PurgeBall, heap
<1> QED BY <1>2, <1>3

LEMMA AddBallRefines ==
  ASSUME IInv, AddBall
  PROVE  Store!Next
<1>1. op \in AddOps
  BY DEF IInv, OpOK, AddBall, Idle, ScanOK, ScanOps, UnlinkOK, UnlinkOps, PurgeOK, PurgeOps
<1> DEFINE data == [id |-> total, owner |-> op.owner]
<1>2. PICK n \in Malloc : AppendBall(n, data)
  BY DEF AddBall
<1>3. /\ list \in Seq(Nodes) /\ Len(list) \in Nat /\ allocated = NodesOf(list)
      /\ total = Len(list) /\ ball \in [Nodes -> Balls]
      /\ n \in Nodes /\ n \notin allocated
  BY LinkedIsChain DEF IInv, HeapOK, Malloc
<1>4. list' = Append(list, n) /\ ball' = [ball EXCEPT ![n] = data]
  BY <1>2 DEF AppendBall
<1>5. /\ Len(list') = Len(list) + 1 /\ list'[Len(list) + 1] = n
      /\ \A i \in 1 .. Len(list) : list'[i] = list[i] /\ list[i] # n /\ list[i] \in Nodes
  BY <1>3, <1>4 DEF NodesOf
<1> DEFINE s == Stored(list, ball)
           a == Append(s, data)
<1>6. s \in Seq(Balls) /\ Len(s) = Len(list) /\ data \in Balls
      /\ \A i \in 1 .. Len(list) : s[i] = ball[list[i]]
  <2>1. \A i \in 1 .. Len(list) : ball[list[i]] \in Balls
    BY <1>3, <1>5
  <2>2. data \in Balls
    BY <1>1, <1>3 DEF AddOps, Balls
  <2> QED BY <1>3, <2>1, <2>2 DEF Stored
<1>7. \A i \in 1 .. Len(list) : ball'[list'[i]] = s[i]
  BY <1>3, <1>4, <1>5, <1>6
<1>8. ball'[list'[Len(list) + 1]] = data
  BY <1>3, <1>4, <1>5
<1> HIDE DEF data, s
<1>9. /\ a \in Seq(Balls) /\ Len(a) = Len(list) + 1 /\ a[Len(list) + 1] = data
      /\ \A i \in 1 .. Len(list) : a[i] = s[i]
  BY <1>3, <1>6
<1> HIDE DEF a
<1>10. Stored(list', ball') = a
  <2>1. Stored(list', ball') = [i \in 1 .. Len(list) + 1 |-> ball'[list'[i]]]
    BY <1>5 DEF Stored
  <2>2. a = [i \in 1 .. Len(list) + 1 |-> a[i]]
    BY <1>9
  <2>3. \A i \in 1 .. Len(list) + 1 : ball'[list'[i]] = a[i]
    <3>1. \A i \in 1 .. Len(list) + 1 : i \in 1 .. Len(list) \/ i = Len(list) + 1
      BY <1>3
    <3> QED BY <1>7, <1>8, <1>9, <3>1
  <2> QED BY <2>1, <2>2, <2>3
<1>11. Store!Add(op.owner)
  BY <1>3, <1>6, <1>10 DEF Store!Add, Stored, a, s, data
<1>12. op.owner \in Owners
  BY <1>1 DEF AddOps
<1> QED BY <1>11, <1>12 DEF Store!Next, Store!Add, Store!RemoveNewest, Store!RemoveOldest

\* Every step of the heap's list is a step of the store or leaves it as it is:
\* an owner's balls go away newest first in delete_ball, oldest first in
\* delete_ball_by_socket, and the others keep their order.
THEOREM Implements == Spec => ImplementsStore
<1>1. Init => Store!Init
  BY DEF Init, Store!Init
<1>2. IInv /\ [Next]_vars => [Store!Next]_(Stored(list, ball))
  <2> SUFFICES ASSUME IInv, [Next]_vars
               PROVE  Store!Next \/ Stored(list', ball') = Stored(list, ball)
    BY DEF Stored
  <2>1. CASE AddBall
    BY <2>1, AddBallRefines
  <2>2. CASE DeleteBall
    BY <2>2, DeleteBallRefines
  <2>3. CASE PurgeBall
    BY <2>3, PurgeBallRefines
  <2>4. CASE UNCHANGED <<list, ball>>
    BY <2>4
  <2> QED BY <2>1, <2>2, <2>3, <2>4
          DEF Next, vars, heap, StartAdd, StartDelete, StartPurge, Start, ScanBall, ScanEnd,
              PurgeEnd, ReadBegin, ReadNext
<1> QED BY <1>1, <1>2, Inductive, PTL DEF Spec, ImplementsStore, Store!Spec, Stored

-----------------------------------------------------------------------------

(***************************************************************************)
(* What an operation has removed, compared with the list it began with.    *)
(***************************************************************************)
\* The list consists of the balls of before at the positions f[1], f[2] ...
Placements == [1 .. Len(list) -> 1 .. Len(before)]

Kept(f) ==
  /\ \A a, b \in 1 .. Len(list) : a < b => f[a] < f[b]
  /\ \A a \in 1 .. Len(list) :
       before[f[a]].node = list[a] /\ before[f[a]].owner = ball[list[a]].owner

Removed(f) == 1 .. Len(before) \ {f[a] : a \in 1 .. Len(list)}

\* delete_ball has removed nothing yet.
ScanRemoves ==
  \E f \in Placements :
    /\ Kept(f)
    /\ Removed(f) = {}
    /\ \A p \in 1 .. Len(list) + 1 : StandsAt(op.cur, op.prev, p) =>
         \/ Len(op.candidates) = op.count
         \/ AllChosen(list, ball, op.owner, op.candidates, p)

\* o's newest balls are gone, and the candidates c make up the count that was
\* asked for, or are all that o has left.
DeleteRemoves(o, count, c) ==
  \E f \in Placements :
    /\ Kept(f)
    /\ Removed(f) \subseteq Mine(o)
    /\ \A r \in Removed(f), a \in 1 .. Len(list) : ball[list[a]].owner = o => f[a] < r
    /\ Cardinality(Removed(f)) + Len(c) <= count
    /\ \/ Cardinality(Removed(f)) + Len(c) = count
       \/ AllChosen(list, ball, o, c, Len(list) + 1)

\* delete_ball_by_socket has removed balls of o only.
PurgeRemoves(o) == \E f \in Placements : Kept(f) /\ Removed(f) \subseteq Mine(o)

Entered == Seq([node : Nodes, owner : Owners \cup {NULL}])

RemovalInv ==
  /\ before \in Entered
  /\ op.kind = "scan" => ScanRemoves
  /\ op.kind = "unlink" => DeleteRemoves(op.owner, op.count, op.candidates)
  /\ op.kind = "purge" => PurgeRemoves(op.owner)

-----------------------------------------------------------------------------

\* An increasing numbering counts.
LEMMA Numbering ==
  ASSUME NEW n \in Nat, NEW f \in [1 .. n -> Nat],
         \A a, b \in 1 .. n : a < b => f[a] < f[b]
  PROVE  \A a \in 0 .. n : /\ IsFiniteSet({f[b] : b \in 1 .. a})
                           /\ Cardinality({f[b] : b \in 1 .. a}) = a
<1> DEFINE I(a) == {f[b] : b \in 1 .. a}
           T == {a \in Nat : a <= n => IsFiniteSet(I(a)) /\ Cardinality(I(a)) = a}
<1>1. 0 \in T
  <2>1. I(0) = {}
    OBVIOUS
  <2> HIDE DEF I
  <2> QED BY <2>1, FS_EmptySet
<1>2. ASSUME NEW a \in T
      PROVE  a + 1 \in T
  <2> SUFFICES ASSUME a + 1 <= n
               PROVE  IsFiniteSet(I(a + 1)) /\ Cardinality(I(a + 1)) = a + 1
    OBVIOUS
  <2>1. IsFiniteSet(I(a)) /\ Cardinality(I(a)) = a
    <3> HIDE DEF I
    <3> QED OBVIOUS
  <2>2. I(a + 1) = I(a) \cup {f[a + 1]}
    <3>1. \A b \in 1 .. a + 1 : b \in 1 .. a \/ b = a + 1
      OBVIOUS
    <3>2. \A b \in 1 .. a : b \in 1 .. a + 1
      OBVIOUS
    <3>3. a + 1 \in 1 .. a + 1
      OBVIOUS
    <3> QED BY <3>1, <3>2, <3>3
  <2>3. f[a + 1] \notin I(a)
    <3>1. \A b \in 1 .. a : b \in 1 .. n /\ b < a + 1
      OBVIOUS
    <3>2. a + 1 \in 1 .. n
      OBVIOUS
    <3>3. \A b \in 1 .. a : f[b] < f[a + 1] /\ f[b] \in Nat /\ f[a + 1] \in Nat
      BY <3>1, <3>2
    <3> QED BY <3>3
  <2> HIDE DEF I, T
  <2> QED BY <2>1, <2>2, <2>3, FS_AddElement
<1> HIDE DEF I
<1>3. T \subseteq Nat
  OBVIOUS
<1> HIDE DEF T
<1>4. \A a \in Nat : a \in T
  BY <1>1, <1>2, <1>3, Induction
<1>5. \A a \in 0 .. n : IsFiniteSet(I(a)) /\ Cardinality(I(a)) = a
  BY <1>4 DEF T
<1> QED BY <1>5 DEF I

\* The list that a numbering leaves.
LEMMA RemainsIs ==
  ASSUME NEW l \in Seq(Nodes), list' = l, Len(before) \in Nat,
         NEW f \in [1 .. Len(l) -> 1 .. Len(before)],
         \A a, b \in 1 .. Len(l) : a < b => f[a] < f[b],
         \A a \in 1 .. Len(l) : before[f[a]].node = l[a],
         NEW K, K = {f[a] : a \in 1 .. Len(l)}
  PROVE  Remains(K)
<1>1. Len(l) \in Nat /\ f \in [1 .. Len(l) -> Nat]
  OBVIOUS
<1>2. \A a \in 0 .. Len(l) : Cardinality({f[b] : b \in 1 .. a}) = a
  BY <1>1, Numbering
<1>3. Cardinality(K) = Len(l)
  BY <1>1, <1>2
<1>4. ASSUME NEW a \in 1 .. Len(l)
      PROVE  Cardinality({j \in K : j <= f[a]}) = a
  <2>1. \A b \in 1 .. Len(l) : f[b] <= f[a] <=> b <= a
    <3>1. \A b \in 1 .. Len(l) : b = a \/ b < a \/ a < b
      BY <1>1
    <3> QED BY <1>1, <3>1
  <2>2. {j \in K : j <= f[a]} = {f[b] : b \in 1 .. a}
    <3>1. \A b \in 1 .. a : b \in 1 .. Len(l) /\ b <= a
      BY <1>1
    <3>2. \A b \in 1 .. Len(l) : b <= a => b \in 1 .. a
      BY <1>1
    <3> QED BY <2>1, <3>1, <3>2
  <2>3. a \in 0 .. Len(l)
    OBVIOUS
  <2> QED BY <1>2, <2>2, <2>3
<1>5. \A i \in K : l[Cardinality({j \in K : j <= i})] = before[i].node
  BY <1>4
<1> HIDE DEF Remains
<1>6. Len(list') = Cardinality(K)
  BY <1>3
<1>7. \A i \in K : list'[Cardinality({j \in K : j <= i})] = before[i].node
  BY <1>5
<1> QED BY <1>6, <1>7 DEF Remains

\* The newest of M are gone, count of them or all: those with at most count
\* from them on.
LEMMA NewestGone ==
  ASSUME NEW m \in Nat, NEW M \in SUBSET (1 .. m), NEW R \in SUBSET M,
         NEW count \in Nat, Cardinality(R) <= count,
         \A r \in R, k \in M \ R : k < r,
         Cardinality(R) = count \/ M \ R = {}
  PROVE  1 .. m \ R = {i \in 1 .. m : i \in M => Cardinality({j \in M : j >= i}) > count}
<1>1. IsFiniteSet(M) /\ IsFiniteSet(R) /\ Cardinality(R) \in Nat
  <2>1. IsFiniteSet(1 .. m)
    BY FS_Interval
  <2> QED BY <2>1, FS_Subset, FS_CardinalityType
<1>2. ASSUME NEW i \in R
      PROVE  ~(Cardinality({j \in M : j >= i}) > count)
  <2>1. {j \in M : j >= i} \subseteq R
    <3>1. \A j \in M \ R : ~(j >= i)
      OBVIOUS
    <3> QED BY <3>1
  <2>2. Cardinality({j \in M : j >= i}) <= Cardinality(R)
    BY <1>1, <2>1, FS_Subset
  <2>3. Cardinality({j \in M : j >= i}) \in Nat
    BY <1>1, <2>1, FS_Subset, FS_CardinalityType
  <2> QED BY <1>1, <2>2, <2>3
<1>3. ASSUME NEW i \in M \ R
      PROVE  Cardinality({j \in M : j >= i}) > count
  <2>1. Cardinality(R) = count
    OBVIOUS
  <2>2. R \cup {i} \subseteq {j \in M : j >= i}
    OBVIOUS
  <2>3. Cardinality(R \cup {i}) = Cardinality(R) + 1
    BY <1>1, FS_AddElement
  <2>4. IsFiniteSet({j \in M : j >= i})
    BY <1>1, FS_Subset
  <2>5. /\ Cardinality(R \cup {i}) <= Cardinality({j \in M : j >= i})
        /\ Cardinality({j \in M : j >= i}) \in Nat
    BY <2>2, <2>4, FS_Subset, FS_CardinalityType
  <2> QED BY <1>1, <2>1, <2>3, <2>5
<1> QED BY <1>2, <1>3

-----------------------------------------------------------------------------

LEMMA StandsOnce ==
  ASSUME HeapOK, NEW cur, NEW prev, NEW p, NEW q,
         StandsAt(cur, prev, p), StandsAt(cur, prev, q)
  PROVE  p = q
<1>1. list \in Seq(Nodes) /\ Distinct(list) /\ NULL \notin Nodes /\ Len(list) \in Nat
  BY LinkedIsChain, HeapAssumption DEF HeapOK
<1>2. \A i \in 1 .. Len(list) : list[i] # NULL
  BY <1>1
<1> QED BY <1>1, <1>2 DEF StandsAt, Distinct

\* When an operation begins, nothing is removed.
LEMMA BeginsKept ==
  ASSUME HeapOK,
         before' = [i \in 1 .. Len(list) |-> [node |-> list[i], owner |-> ball[list[i]].owner]],
         UNCHANGED <<list, ball>>
  PROVE  /\ before' \in Entered
         /\ \E f \in Placements' : Kept(f)' /\ Removed(f)' = {}
<1>1. /\ list \in Seq(Nodes) /\ Len(list) \in Nat
      /\ \A i \in 1 .. Len(list) : list[i] \in Nodes /\ ball[list[i]].owner \in Owners \cup {NULL}
  BY DEF HeapOK, Balls
<1>2. before' \in Entered /\ Len(before') = Len(list)
  BY <1>1 DEF Entered
<1> DEFINE f == [i \in 1 .. Len(list) |-> i]
<1>3. f \in Placements'
  BY <1>1, <1>2 DEF Placements
<1>4. Kept(f)'
  <2>1. \A a \in 1 .. Len(list') :
          before'[f[a]].node = list'[a] /\ before'[f[a]].owner = ball'[list'[a]].owner
    OBVIOUS
  <2>2. \A a, b \in 1 .. Len(list') : a < b => f[a] < f[b]
    OBVIOUS
  <2> QED BY <2>1, <2>2 DEF Kept
<1>5. Removed(f)' = {}
  BY <1>2 DEF Removed
<1> QED BY <1>2, <1>3, <1>4, <1>5

\* Unlinking the node at p removes its ball and leaves the others in place.
LEMMA UnlinkRemoves ==
  ASSUME HeapOK, before \in Entered, UNCHANGED before, NEW p \in 1 .. Len(list),
         list' = Cut(list, p), ball' = [ball EXCEPT ![list[p]] = NoBall],
         NEW f \in Placements, Kept(f)
  PROVE  \E g \in Placements' :
           /\ Kept(g)'
           /\ Removed(g)' = Removed(f) \cup {f[p]}
           /\ \A a \in 1 .. Len(list') : \E b \in 1 .. Len(list) :
                b # p /\ g[a] = f[b] /\ ball'[list'[a]] = ball[list[b]]
<1>1. /\ list \in Seq(Nodes) /\ Distinct(list) /\ Len(list) \in Nat /\ Len(before) \in Nat
      /\ ball \in [Nodes -> Balls]
  BY LinkedIsChain DEF HeapOK, Entered
<1>2. /\ Len(list') = Len(list) - 1
      /\ \A a \in 1 .. Len(list) - 1 : list'[a] = IF a < p THEN list[a] ELSE list[a + 1]
  BY <1>1, CutIsSeq
<1> DEFINE h(a) == IF a < p THEN a ELSE a + 1
<1> PICK g : g = [a \in 1 .. Len(list) - 1 |-> f[h(a)]]
  OBVIOUS
<1>3. \A a \in 1 .. Len(list) - 1 : h(a) \in 1 .. Len(list) /\ h(a) # p
  BY <1>1
<1>4. \A a, b \in 1 .. Len(list) - 1 : a < b => h(a) < h(b)
  BY <1>1
<1>5. \A b \in 1 .. Len(list) : b # p => \E a \in 1 .. Len(list) - 1 : h(a) = b
  <2> SUFFICES ASSUME NEW b \in 1 .. Len(list), b # p
               PROVE  \E a \in 1 .. Len(list) - 1 : h(a) = b
    OBVIOUS
  <2>1. CASE b < p
    <3>1. b \in 1 .. Len(list) - 1 /\ h(b) = b
      BY <1>1, <2>1
    <3> QED BY <3>1
  <2>2. CASE ~(b < p)
    <3>1. b - 1 \in 1 .. Len(list) - 1 /\ h(b - 1) = b
      BY <1>1, <2>2
    <3> QED BY <3>1
  <2> QED BY <2>1, <2>2
<1>6. ASSUME NEW a \in 1 .. Len(list) - 1
      PROVE  /\ list'[a] = list[h(a)]
             /\ ball'[list'[a]] = ball[list[h(a)]]
  <2>1. list'[a] = list[h(a)]
    BY <1>2
  <2> HIDE DEF h
  <2>2. list[h(a)] \in Nodes /\ list[h(a)] # list[p]
    BY <1>1, <1>3 DEF Distinct
  <2> QED BY <1>1, <2>1, <2>2
<1>7. \A a \in 1 .. Len(list) - 1 : g[a] = f[h(a)]
  OBVIOUS
<1>8. g \in Placements'
  <2> HIDE DEF h
  <2> QED BY <1>2, <1>3 DEF Placements
<1> HIDE DEF h
<1>9. Kept(g)'
  <2>1. \A a, b \in 1 .. Len(list') : a < b => g[a] < g[b]
    BY <1>2, <1>3, <1>4, <1>7 DEF Kept
  <2>2. \A a \in 1 .. Len(list') :
          before'[g[a]].node = list'[a] /\ before'[g[a]].owner = ball'[list'[a]].owner
    <3> SUFFICES ASSUME NEW a \in 1 .. Len(list) - 1
                 PROVE  /\ before'[g[a]].node = list'[a]
                        /\ before'[g[a]].owner = ball'[list'[a]].owner
      BY <1>2
    <3>1. h(a) \in 1 .. Len(list) /\ g[a] = f[h(a)] /\ before' = before
      BY <1>3, <1>7
    <3>2. /\ before[f[h(a)]].node = list[h(a)]
          /\ before[f[h(a)]].owner = ball[list[h(a)]].owner
      BY <3>1 DEF Kept
    <3> QED BY <1>6, <3>1, <3>2
  <2> QED BY <2>1, <2>2 DEF Kept
<1>10. {g[a] : a \in 1 .. Len(list')} = {f[b] : b \in 1 .. Len(list)} \ {f[p]}
  <2>1. \A b \in 1 .. Len(list) : f[b] = f[p] => b = p
    <3>1. \A b \in 1 .. Len(list) : f[b] \in Nat
      BY DEF Placements
    <3>2. \A b \in 1 .. Len(list) : b < p \/ b = p \/ p < b
      BY <1>1
    <3> QED BY <3>1, <3>2 DEF Kept
  <2>2. \A a \in 1 .. Len(list) - 1 :
          h(a) \in 1 .. Len(list) /\ g[a] = f[h(a)] /\ f[h(a)] # f[p]
    BY <1>3, <1>7, <2>1
  <2>3. \A b \in 1 .. Len(list) : f[b] # f[p] => \E a \in 1 .. Len(list) - 1 : g[a] = f[b]
    <3> SUFFICES ASSUME NEW b \in 1 .. Len(list), f[b] # f[p]
                 PROVE  \E a \in 1 .. Len(list) - 1 : g[a] = f[b]
      OBVIOUS
    <3>1. PICK a \in 1 .. Len(list) - 1 : h(a) = b
      BY <1>5
    <3>2. g[a] = f[b]
      BY <1>7, <3>1
    <3> QED BY <3>2
  <2>4. {g[a] : a \in 1 .. Len(list) - 1} = {f[b] : b \in 1 .. Len(list)} \ {f[p]}
    BY <2>2, <2>3
  <2> QED BY <1>2, <2>4
<1>11. Removed(g)' = Removed(f) \cup {f[p]}
  <2>1. f[p] \in 1 .. Len(before)
    BY DEF Placements
  <2> QED BY <1>10, <2>1 DEF Removed
<1>12. \A a \in 1 .. Len(list') : \E b \in 1 .. Len(list) :
         b # p /\ g[a] = f[b] /\ ball'[list'[a]] = ball[list[b]]
  <2> SUFFICES ASSUME NEW a \in 1 .. Len(list')
               PROVE  \E b \in 1 .. Len(list) :
                        b # p /\ g[a] = f[b] /\ ball'[list'[a]] = ball[list[b]]
    OBVIOUS
  <2>1. a \in 1 .. Len(list) - 1
    BY <1>2
  <2>2. /\ h(a) \in 1 .. Len(list) /\ h(a) # p /\ g[a] = f[h(a)]
        /\ ball'[list'[a]] = ball[list[h(a)]]
    BY <1>3, <1>6, <1>7, <2>1
  <2> QED BY <2>2
<1> QED BY <1>8, <1>9, <1>11, <1>12

-----------------------------------------------------------------------------

LEMMA DeleteBallRemoves ==
  ASSUME IInv, RemovalInv, DeleteBall, NEW o, o = op.owner, NEW count, count = op.count,
         NEW c, c = SubSeq(op.candidates, 1, Len(op.candidates) - 1)
  PROVE  DeleteRemoves(o, count, c)' /\ c \in Seq(Entries)
<1>1. UnlinkOK /\ HeapOK /\ before \in Entered /\ before' = before
  BY DeleteBallUnlinks DEF IInv, RemovalInv, DeleteBall
<1>2. PICK p \in 1 .. Len(list) :
        /\ Unlink(list[p], Before(list, p, NULL))
        /\ ball[list[p]].owner = op.owner
        /\ \A q \in 1 .. Len(list) : ball[list[q]].owner = op.owner => q <= p
        /\ AllChosen(list, ball, op.owner, op.candidates, Len(list) + 1) =>
             AllChosen(Cut(list, p), [ball EXCEPT ![list[p]] = NoBall], op.owner,
                       SubSeq(op.candidates, 1, Len(op.candidates) - 1), Len(list))
  BY DeleteBallUnlinks
<1>3. /\ list' = Cut(list, p) /\ ball' = [ball EXCEPT ![list[p]] = NoBall]
      /\ Len(list') = Len(list) - 1 /\ Len(list) \in Nat
  BY <1>1, <1>2, UnlinkKeeps DEF HeapOK
<1>4. PICK f \in Placements :
        /\ Kept(f)
        /\ Removed(f) \subseteq Mine(o)
        /\ \A r \in Removed(f), a \in 1 .. Len(list) : ball[list[a]].owner = o => f[a] < r
        /\ Cardinality(Removed(f)) + Len(op.candidates) <= count
        /\ \/ Cardinality(Removed(f)) + Len(op.candidates) = count
           \/ AllChosen(list, ball, o, op.candidates, Len(list) + 1)
  <2>1. op.kind = "unlink"
    BY DEF DeleteBall
  <2> QED BY <2>1 DEF RemovalInv, DeleteRemoves
<1>5. PICK g \in Placements' :
        /\ Kept(g)'
        /\ Removed(g)' = Removed(f) \cup {f[p]}
        /\ \A a \in 1 .. Len(list') : \E b \in 1 .. Len(list) :
             b # p /\ g[a] = f[b] /\ ball'[list'[a]] = ball[list[b]]
  BY <1>1, <1>3, <1>4, UnlinkRemoves
<1>6. f[p] \in Mine(o) /\ f[p] \notin Removed(f)
  BY <1>2, <1>4 DEF Kept, Mine, Removed, Placements
<1>7. Removed(g)' \subseteq Mine(o)'
  <2>1. Mine(o)' = Mine(o)
    BY <1>1 DEF Mine
  <2> QED BY <1>4, <1>5, <1>6, <2>1
<1>8. ASSUME NEW r \in Removed(g)', NEW a \in 1 .. Len(list'), ball'[list'[a]].owner = o
      PROVE  g[a] < r
  <2>1. PICK b \in 1 .. Len(list) : b # p /\ g[a] = f[b] /\ ball'[list'[a]] = ball[list[b]]
    BY <1>5
  <2>2. ball[list[b]].owner = o /\ b < p
    BY <1>2, <1>8, <2>1
  <2>3. CASE r \in Removed(f)
    BY <1>4, <2>1, <2>2, <2>3
  <2>4. CASE r = f[p]
    BY <1>4, <2>1, <2>2, <2>4 DEF Kept
  <2> QED BY <1>5, <2>3, <2>4
<1>9. /\ op.candidates \in Seq(Entries) /\ c \in Seq(Entries)
      /\ Len(c) + 1 = Len(op.candidates) /\ Len(c) \in Nat
  <2>1. op.candidates \in Seq(Entries) /\ op.candidates # << >>
    BY <1>1 DEF UnlinkOK, UnlinkOps
  <2>2. Len(op.candidates) - 1 \in Nat /\ Len(op.candidates) = (Len(op.candidates) - 1) + 1
    BY <2>1
  <2> QED BY <2>1, <2>2, DropLastIsSeq
<1>10. Cardinality(Removed(g)') = Cardinality(Removed(f)) + 1 /\ Cardinality(Removed(f)) \in Nat
  <2>1. IsFiniteSet(Removed(f))
    <3>1. Len(before) \in Nat
      BY <1>1 DEF Entered
    <3>2. IsFiniteSet(1 .. Len(before))
      BY <3>1, FS_Interval
    <3> QED BY <3>2, FS_Subset DEF Removed
  <2> QED BY <1>5, <1>6, <2>1, FS_AddElement, FS_CardinalityType
<1>11. /\ Cardinality(Removed(g)') + Len(c) <= count
       /\ \/ Cardinality(Removed(g)') + Len(c) = count
          \/ AllChosen(list', ball', o, c, Len(list') + 1)
  <2>1. Cardinality(Removed(g)') + Len(c) = Cardinality(Removed(f)) + Len(op.candidates)
    BY <1>9, <1>10
  <2>2. Len(list') + 1 = Len(list)
    BY <1>3
  <2> QED BY <1>2, <1>3, <1>4, <2>1, <2>2
<1> QED BY <1>5, <1>7, <1>8, <1>9, <1>11 DEF DeleteRemoves

\* The scan leaves the list as it was, with the candidates of the whole list.
LEMMA ScanEndRemoves ==
  ASSUME IInv, RemovalInv, ScanEnd, NEW o, o = op.owner, NEW count, count = op.count,
         NEW c, c = op.candidates
  PROVE  DeleteRemoves(o, count, c)'
<1>1. ScanOK /\ HeapOK
  BY DEF IInv, OpOK, ScanEnd, Idle, AddOps, UnlinkOK, UnlinkOps, PurgeOK, PurgeOps
<1>2. PICK p \in 1 .. Len(list) + 1 : StandsAt(op.cur, op.prev, p)
  BY <1>1 DEF ScanOK
<1>3. p = Len(list) + 1
  <2>1. list \in Seq(Nodes) /\ NULL \notin Nodes
    BY <1>1, HeapAssumption DEF HeapOK
  <2>2. p \in 1 .. Len(list) => list[p] \in Nodes
    BY <2>1
  <2> QED BY <1>2, <2>1, <2>2 DEF StandsAt, ScanEnd
<1>4. PICK f \in Placements :
        /\ Kept(f) /\ Removed(f) = {}
        /\ Len(c) = count \/ AllChosen(list, ball, o, c, Len(list) + 1)
  BY <1>2, <1>3 DEF RemovalInv, ScanRemoves, ScanEnd
<1>5. list' = list /\ ball' = ball /\ before' = before
  BY DEF ScanEnd, heap
<1>6. f \in Placements' /\ Kept(f)' /\ Removed(f)' = {}
  BY <1>4, <1>5 DEF Placements, Kept, Removed
<1>7. Cardinality(Removed(f)') = 0 /\ Len(c) \in Nat /\ Len(c) <= count
  <2>1. c \in Seq(Entries) /\ Len(c) <= count
    BY <1>1 DEF ScanOK, ScanOps
  <2> QED BY <1>6, <2>1, FS_EmptySet
<1>8. /\ Cardinality(Removed(f)') + Len(c) <= count
      /\ Cardinality(Removed(f)') + Len(c) = count \/ AllChosen(list', ball', o, c, Len(list') + 1)
  BY <1>4, <1>5, <1>7
<1>9. Removed(f)' \subseteq Mine(o)' /\ \A r \in Removed(f)' : FALSE
  BY <1>6
<1> QED BY <1>6, <1>8, <1>9 DEF DeleteRemoves

\* Without candidates left, exactly o's newest balls are gone.
LEMMA DeleteRemains ==
  ASSUME NEW o, NEW count \in Nat, DeleteRemoves(o, count, << >>)',
         list' \in Seq(Nodes), before' = before, before \in Entered
  PROVE  Remains({i \in 1 .. Len(before) :
                    i \in Mine(o) => Cardinality({j \in Mine(o) : j >= i}) > count})
<1>1. PICK f \in Placements' :
        /\ Kept(f)'
        /\ Removed(f)' \subseteq Mine(o)
        /\ \A r \in Removed(f)', a \in 1 .. Len(list') : ball'[list'[a]].owner = o => f[a] < r
        /\ Cardinality(Removed(f)') + 0 <= count
        /\ \/ Cardinality(Removed(f)') + 0 = count
           \/ AllChosen(list', ball', o, << >>, Len(list') + 1)
  <2>1. Mine(o)' = Mine(o) /\ Len(<< >>) = 0
    BY DEF Mine
  <2> QED BY <2>1 DEF DeleteRemoves
<1>2. Len(before) \in Nat /\ Len(list') \in Nat /\ Mine(o) \subseteq 1 .. Len(before)
  BY DEF Entered, Mine
<1> DEFINE R == Removed(f)'
           K == {f[a] : a \in 1 .. Len(list')}
<1>3. R = 1 .. Len(before) \ K /\ K \subseteq 1 .. Len(before)
  BY <1>1 DEF Removed, Placements
<1>4. /\ f \in [1 .. Len(list') -> 1 .. Len(before)]
      /\ \A a, b \in 1 .. Len(list') : a < b => f[a] < f[b]
      /\ \A a \in 1 .. Len(list') :
           before[f[a]].node = list'[a] /\ before[f[a]].owner = ball'[list'[a]].owner
  BY <1>1 DEF Placements, Kept
<1>5. ASSUME NEW k \in Mine(o) \ R
      PROVE  \E a \in 1 .. Len(list') : k = f[a] /\ ball'[list'[a]].owner = o
  <2>1. PICK a \in 1 .. Len(list') : k = f[a]
    BY <1>2, <1>3
  <2> QED BY <1>4, <2>1 DEF Mine
<1>6. \A r \in R, k \in Mine(o) \ R : k < r
  BY <1>1, <1>5
<1>7. IsFiniteSet(R) /\ Cardinality(R) \in Nat
  <2>1. IsFiniteSet(1 .. Len(before))
    BY <1>2, FS_Interval
  <2> QED BY <1>3, <2>1, FS_Subset, FS_CardinalityType
<1>8. Cardinality(R) = count \/ Mine(o) \ R = {}
  <2> SUFFICES ASSUME AllChosen(list', ball', o, << >>, Len(list') + 1), NEW k \in Mine(o) \ R
               PROVE  FALSE
    BY <1>1, <1>7
  <2>1. PICK a \in 1 .. Len(list') : ball'[list'[a]].owner = o
    BY <1>5
  <2>2. a \in 1 .. (Len(list') + 1) - 1
    BY <1>2
  <2> QED BY <2>1, <2>2 DEF AllChosen
<1>9. K = {i \in 1 .. Len(before) :
             i \in Mine(o) => Cardinality({j \in Mine(o) : j >= i}) > count}
  <2>1. R \subseteq Mine(o) /\ Cardinality(R) <= count
    BY <1>1, <1>7
  <2> HIDE DEF R
  <2>2. 1 .. Len(before) \ R = {i \in 1 .. Len(before) :
             i \in Mine(o) => Cardinality({j \in Mine(o) : j >= i}) > count}
    BY <1>2, <1>6, <1>8, <2>1, NewestGone
  <2>3. K = 1 .. Len(before) \ R
    BY <1>3
  <2> QED BY <2>2, <2>3
<1>10. \A a \in 1 .. Len(list') : before[f[a]].node = list'[a]
  BY <1>4
<1>11. Remains(K)
  BY <1>2, <1>4, <1>10, RemainsIs
<1> QED BY <1>9, <1>11

LEMMA PurgeBallRemoves ==
  ASSUME IInv, RemovalInv, PurgeBall, NEW o, o = op.owner
  PROVE  PurgeRemoves(o)'
<1>1. HeapOK /\ before \in Entered /\ before' = before /\ Mine(o)' = Mine(o)
  BY DEF IInv, RemovalInv, PurgeBall, Mine
<1>2. PICK f \in Placements : Kept(f) /\ Removed(f) \subseteq Mine(o)
  BY DEF RemovalInv, PurgeRemoves, PurgeBall
<1>3. PICK p \in 1 .. Len(list) : op.cur = list[p] /\ op.prev = Before(list, p, NULL)
  BY PurgeBallUnlinks
<1>4. CASE ball[op.cur].owner = op.owner
  <2>1. Unlink(list[p], Before(list, p, NULL))
    BY <1>3, <1>4 DEF PurgeBall
  <2>2. list' = Cut(list, p) /\ ball' = [ball EXCEPT ![list[p]] = NoBall]
    BY <1>1, <2>1, UnlinkKeeps
  <2>3. PICK g \in Placements' :
          /\ Kept(g)'
          /\ Removed(g)' = Removed(f) \cup {f[p]}
          /\ \A a \in 1 .. Len(list') : \E b \in 1 .. Len(list) :
               b # p /\ g[a] = f[b] /\ ball'[list'[a]] = ball[list[b]]
    BY <1>1, <1>2, <1>3, <2>2, UnlinkRemoves
  <2>4. f[p] \in Mine(o)
    BY <1>2, <1>3, <1>4 DEF Kept, Mine, Placements
  <2> QED BY <1>1, <1>2, <2>3, <2>4 DEF PurgeRemoves
<1>5. CASE ball[op.cur].owner # op.owner
  <2>1. list' = list /\ ball' = ball
    BY <1>5 DEF PurgeBall, heap
  <2>2. f \in Placements' /\ Kept(f)' /\ Removed(f)' = Removed(f)
    BY <1>1, <1>2, <2>1 DEF Placements, Kept, Removed
  <2> QED BY <1>1, <1>2, <2>2 DEF PurgeRemoves
<1> QED BY <1>4, <1>5

\* At its end the walk has passed every ball of the list, and none is o's.
LEMMA PurgeRemains ==
  ASSUME IInv, RemovalInv, PurgeEnd
  PROVE  Remains(1 .. Len(before) \ Mine(op.owner))
<1> DEFINE o == op.owner
<1>1. PurgeOK /\ HeapOK /\ before \in Entered
  BY DEF IInv, OpOK, RemovalInv, PurgeEnd, Idle, AddOps, ScanOK, ScanOps, UnlinkOK, UnlinkOps
<1>2. /\ list \in Seq(Nodes) /\ Len(list) \in Nat /\ Len(before) \in Nat
      /\ \A i \in 1 .. Len(list) : list[i] # NULL
  <2>1. list \in Seq(Nodes) /\ NULL \notin Nodes
    BY <1>1, HeapAssumption DEF HeapOK
  <2>2. \A i \in 1 .. Len(list) : list[i] \in Nodes
    BY <2>1
  <2> QED BY <1>1, <2>1, <2>2 DEF Entered
<1>3. PICK p \in 1 .. Len(list) + 1 :
        StandsAt(op.cur, op.prev, p) /\ \A q \in 1 .. p - 1 : ball[list[q]].owner # o
  BY <1>1 DEF PurgeOK
<1>4. p = Len(list) + 1
  BY <1>2, <1>3 DEF StandsAt, PurgeEnd
<1>5. \A q \in 1 .. Len(list) : ball[list[q]].owner # o
  <2>1. \A q \in 1 .. Len(list) : q \in 1 .. p - 1
    BY <1>2, <1>4
  <2> QED BY <1>3, <2>1
<1>6. PICK f \in Placements : Kept(f) /\ Removed(f) \subseteq Mine(o)
  BY DEF RemovalInv, PurgeRemoves, PurgeEnd
<1> DEFINE K == {f[a] : a \in 1 .. Len(list)}
<1>7. \A a \in 1 .. Len(list) :
        f[a] \in 1 .. Len(before) /\ before[f[a]].node = list[a] /\ before[f[a]].owner # o
  BY <1>5, <1>6 DEF Kept, Placements
<1>8. K = 1 .. Len(before) \ Mine(o)
  <2>1. \A k \in K : k \in 1 .. Len(before) /\ k \notin Mine(o)
    BY <1>7 DEF Mine
  <2>2. \A i \in 1 .. Len(before) : i \notin Mine(o) => i \in K
    BY <1>6 DEF Removed
  <2> HIDE DEF K
  <2> QED BY <2>1, <2>2
<1>9. Remains(K)
  <2>1. f \in [1 .. Len(list) -> 1 .. Len(before)]
    BY DEF Placements
  <2>2. \A a, b \in 1 .. Len(list) : a < b => f[a] < f[b]
    BY <1>6 DEF Kept
  <2>3. list' = list
    BY DEF PurgeEnd
  <2> QED BY <1>2, <1>7, <2>1, <2>2, <2>3, RemainsIs
<1> QED BY <1>8, <1>9

-----------------------------------------------------------------------------

LEMMA StartDeleteRemoves ==
  ASSUME IInv, NEW o \in Owners, NEW c \in 1 .. MaxCount, StartDelete(o, c)
  PROVE  before' \in Entered /\ ScanRemoves' /\ op'.kind = "scan"
<1>1. /\ before' = [i \in 1 .. Len(list) |-> [node |-> list[i], owner |-> ball[list[i]].owner]]
      /\ list' = list /\ ball' = ball
  BY DEF StartDelete, Start, heap
<1>2. /\ op' = [kind |-> "scan", owner |-> o, count |-> c, cur |-> head, prev |-> NULL,
                candidates |-> << >>]
  BY DEF StartDelete, Start
<1>3. /\ before' \in Entered
      /\ \E f \in Placements' : Kept(f)' /\ Removed(f)' = {}
  BY <1>1, BeginsKept DEF IInv
<1>4. ASSUME NEW p \in 1 .. Len(list') + 1, StandsAt(op.cur, op.prev, p)'
      PROVE  AllChosen(list', ball', op'.owner, op'.candidates, p)
  <2>1. StandsAt(head, NULL, p)
    BY <1>1, <1>2, <1>4 DEF StandsAt
  <2>2. p = 1
    BY <2>1, AtHead, StandsOnce DEF IInv
  <2> QED BY <2>2 DEF AllChosen
<1> QED BY <1>2, <1>3, <1>4 DEF ScanRemoves

LEMMA StartPurgeRemoves ==
  ASSUME IInv, NEW o \in Owners, StartPurge(o)
  PROVE  before' \in Entered /\ PurgeRemoves(o)' /\ op'.kind = "purge" /\ op'.owner = o
<1>1. /\ before' = [i \in 1 .. Len(list) |-> [node |-> list[i], owner |-> ball[list[i]].owner]]
      /\ list' = list /\ ball' = ball
      /\ op' = [kind |-> "purge", owner |-> o, cur |-> head, prev |-> NULL]
  BY DEF StartPurge, Start, heap
<1>2. /\ before' \in Entered
      /\ \E f \in Placements' : Kept(f)' /\ Removed(f)' = {}
  BY <1>1, BeginsKept DEF IInv
<1> QED BY <1>1, <1>2 DEF PurgeRemoves

LEMMA ScanBallRemoves ==
  ASSUME IInv, RemovalInv, ScanBall
  PROVE  ScanRemoves' /\ op'.kind = "scan"
<1> DEFINE e == [node |-> op.cur, prev |-> op.prev]
           c == IF ball[op.cur].owner = op.owner
                  THEN Keep(op.candidates, op.count, e) ELSE op.candidates
<1>1. ScanOK /\ HeapOK
  BY DEF IInv, OpOK, ScanBall, Idle, AddOps, UnlinkOK, UnlinkOps, PurgeOK, PurgeOps
<1>2. PICK p \in 1 .. Len(list) + 1 : StandsAt(op.cur, op.prev, p)
  BY <1>1 DEF ScanOK
<1>3. /\ p \in 1 .. Len(list) /\ op.cur = list[p] /\ op.cur \in Nodes
      /\ op.prev = Before(list, p, NULL) /\ StandsAt(next[op.cur], op.cur, p + 1)
  BY <1>1, <1>2, WalkOn DEF ScanBall
<1>4. list' = list /\ ball' = ball /\ before' = before
  BY DEF ScanBall, heap
<1>5. PICK f \in Placements :
        /\ Kept(f) /\ Removed(f) = {}
        /\ \/ Len(op.candidates) = op.count
           \/ AllChosen(list, ball, op.owner, op.candidates, p)
  BY <1>2 DEF RemovalInv, ScanRemoves, ScanBall
<1>6. f \in Placements' /\ Kept(f)' /\ Removed(f)' = {}
  BY <1>4, <1>5 DEF Placements, Kept, Removed
<1>7. /\ list \in Seq(Nodes) /\ op.candidates \in Seq(Entries)
      /\ op.count \in Nat \ {0} /\ Len(op.candidates) <= op.count /\ op.prev \in Pointers
  BY <1>1, HeapAssumption DEF ScanOK, ScanOps, HeapOK
<1>8. e \in Entries /\ EntryAt(list, e, p)
  BY <1>3, <1>7 DEF Entries, EntryAt
<1>9. op' = [op EXCEPT !.candidates = c, !.prev = op.cur, !.cur = next[op.cur]]
  BY DEF ScanBall
<1>10. Len(c) = op.count \/ AllChosen(list, ball, op.owner, c, p + 1)
  <2> HIDE DEF e
  <2>1. CASE ball[op.cur].owner = op.owner
    BY <1>3, <1>5, <1>7, <1>8, <2>1, KeepAll
  <2>2. CASE ball[op.cur].owner # op.owner
    <3>1. \A q \in 1 .. (p + 1) - 1 : q \in 1 .. p - 1 \/ q = p
      OBVIOUS
    <3> QED BY <1>3, <1>5, <2>2, <3>1 DEF AllChosen
  <2> QED BY <2>1, <2>2
<1> HIDE DEF c
<1>11. /\ op'.kind = "scan" /\ op'.candidates = c /\ op'.owner = op.owner
       /\ op'.count = op.count /\ op'.cur = next[op.cur] /\ op'.prev = op.cur
  BY <1>1, <1>9 DEF ScanOK, ScanOps
<1>12. ASSUME NEW q \in 1 .. Len(list') + 1, StandsAt(op.cur, op.prev, q)'
       PROVE  Len(op'.candidates) = op'.count \/ AllChosen(list', ball', op'.owner, op'.candidates, q)
  <2>1. StandsAt(next[op.cur], op.cur, q)
    BY <1>4, <1>11, <1>12 DEF StandsAt
  <2>2. q = p + 1
    BY <1>1, <1>3, <2>1, StandsOnce
  <2> QED BY <1>4, <1>10, <1>11, <2>2
<1> QED BY <1>6, <1>11, <1>12 DEF ScanRemoves

\* Where nothing of the list and the operation changes.
LEMMA RemovalKept ==
  ASSUME RemovalInv, UNCHANGED <<list, ball, before, op>>
  PROVE  RemovalInv'
<1>1. list' = list /\ ball' = ball /\ before' = before /\ op' = op
  OBVIOUS
<1>2. op.kind = "scan" => ScanRemoves'
  BY <1>1 DEF RemovalInv, ScanRemoves, Placements, Kept, Removed, StandsAt
<1>3. op.kind = "unlink" => DeleteRemoves(op.owner, op.count, op.candidates)'
  <2> SUFFICES ASSUME op.kind = "unlink"
               PROVE  DeleteRemoves(op.owner, op.count, op.candidates)'
    OBVIOUS
  <2>1. PICK f \in Placements :
          /\ Kept(f)
          /\ Removed(f) \subseteq Mine(op.owner)
          /\ \A r \in Removed(f), a \in 1 .. Len(list) :
               ball[list[a]].owner = op.owner => f[a] < r
          /\ Cardinality(Removed(f)) + Len(op.candidates) <= op.count
          /\ \/ Cardinality(Removed(f)) + Len(op.candidates) = op.count
             \/ AllChosen(list, ball, op.owner, op.candidates, Len(list) + 1)
    BY DEF RemovalInv, DeleteRemoves
  <2>2. f \in Placements' /\ Kept(f)' /\ Removed(f)' = Removed(f) /\ Mine(op.owner)' = Mine(op.owner)
    BY <1>1, <2>1 DEF Placements, Kept, Removed, Mine
  <2> QED BY <1>1, <2>1, <2>2 DEF DeleteRemoves
<1>4. op.kind = "purge" => PurgeRemoves(op.owner)'
  BY <1>1 DEF RemovalInv, PurgeRemoves, Placements, Kept, Removed, Mine
<1> QED BY <1>1, <1>2, <1>3, <1>4 DEF RemovalInv

LEMMA RemovalNext == IInv /\ RemovalInv /\ [Next]_vars => RemovalInv'
<1> SUFFICES ASSUME IInv, RemovalInv, [Next]_vars PROVE RemovalInv'
  OBVIOUS
<1>0. Idle.kind = "idle"
  BY DEF Idle
<1>1. ASSUME NEW o \in Owners, NEW c \in 1 .. MaxCount, StartAdd(o, c)
      PROVE  RemovalInv'
  <2>1. /\ before' = [i \in 1 .. Len(list) |-> [node |-> list[i], owner |-> ball[list[i]].owner]]
        /\ list' = list /\ ball' = ball /\ op'.kind = "add"
    BY <1>1 DEF StartAdd, Start, heap
  <2>2. before' \in Entered
    BY <2>1, BeginsKept DEF IInv
  <2> QED BY <2>1, <2>2 DEF RemovalInv
<1>2. ASSUME NEW o \in Owners, NEW c \in 1 .. MaxCount, StartDelete(o, c)
      PROVE  RemovalInv'
  BY <1>2, StartDeleteRemoves DEF RemovalInv
<1>3. ASSUME NEW o \in Owners, StartPurge(o)
      PROVE  RemovalInv'
  BY <1>3, StartPurgeRemoves DEF RemovalInv
<1>4. CASE AddBall
  <2>1. op \in AddOps
    BY <1>4 DEF IInv, OpOK, AddBall, Idle, ScanOK, ScanOps, UnlinkOK, UnlinkOps, PurgeOK, PurgeOps
  <2>2. op'.kind \in {"idle", "add"}
    BY <1>0, <1>4, <2>1 DEF AddBall, AddOps
  <2> QED BY <1>4, <2>2 DEF RemovalInv, AddBall
<1>5. CASE ScanBall
  <2>1. before' = before
    BY <1>5 DEF ScanBall
  <2> QED BY <1>5, <2>1, ScanBallRemoves DEF RemovalInv
<1>6. CASE ScanEnd
  <2>1. before' = before
    BY <1>6 DEF ScanEnd
  <2>2. CASE op.candidates = << >>
    BY <1>0, <1>6, <2>1, <2>2 DEF ScanEnd, RemovalInv
  <2>3. CASE op.candidates # << >>
    <3>1. op' = [kind |-> "unlink", owner |-> op.owner, count |-> op.count,
                 candidates |-> op.candidates]
      BY <1>6, <2>3 DEF ScanEnd
    <3>2. ASSUME NEW o, o = op.owner, NEW count, count = op.count, NEW c, c = op.candidates
          PROVE  DeleteRemoves(op.owner, op.count, op.candidates)'
      <4>1. DeleteRemoves(o, count, c)'
        BY <1>6, <3>2, ScanEndRemoves
      <4>2. op'.owner = o /\ op'.count = count /\ op'.candidates = c
        BY <3>1, <3>2
      <4> QED BY <4>1, <4>2 DEF DeleteRemoves
    <3> QED BY <2>1, <3>1, <3>2 DEF RemovalInv
  <2> QED BY <2>2, <2>3
<1>7. CASE DeleteBall
  <2>1. before' = before /\ UnlinkOK
    BY <1>7, DeleteBallUnlinks DEF DeleteBall
  <2>2. ASSUME NEW rest, rest = SubSeq(op.candidates, 1, Len(op.candidates) - 1)
        PROVE  RemovalInv'
    <3>1. op' = IF rest = << >> THEN Idle ELSE [op EXCEPT !.candidates = rest]
      BY <1>7, <2>2 DEF DeleteBall
    <3>2. CASE rest = << >>
      BY <1>0, <2>1, <3>1, <3>2 DEF RemovalInv
    <3>3. CASE rest # << >>
      <4>1. /\ op'.kind = "unlink" /\ op'.owner = op.owner /\ op'.count = op.count
            /\ op'.candidates = rest
        BY <2>1, <3>1, <3>3 DEF UnlinkOK, UnlinkOps
      <4>2. ASSUME NEW o, o = op.owner, NEW count, count = op.count
            PROVE  DeleteRemoves(op.owner, op.count, op.candidates)'
        <5>1. DeleteRemoves(o, count, rest)'
          BY <1>7, <2>2, <4>2, DeleteBallRemoves
        <5>2. op'.owner = o /\ op'.count = count /\ op'.candidates = rest
          BY <4>1, <4>2
        <5> QED BY <5>1, <5>2 DEF DeleteRemoves
      <4> QED BY <2>1, <4>1, <4>2 DEF RemovalInv
    <3> QED BY <3>2, <3>3
  <2> QED BY <2>2
<1>8. CASE PurgeBall
  <2>1. before' = before /\ PurgeOK
    BY <1>8, PurgeBallUnlinks DEF PurgeBall
  <2>2. op'.kind = "purge" /\ op'.owner = op.owner
    BY <1>8, <2>1 DEF PurgeBall, PurgeOK, PurgeOps
  <2>3. ASSUME NEW o, o = op.owner
        PROVE  PurgeRemoves(op.owner)'
    <3>1. PurgeRemoves(o)' /\ op'.owner = o
      BY <1>8, <2>2, <2>3, PurgeBallRemoves
    <3> QED BY <3>1 DEF PurgeRemoves
  <2> QED BY <2>1, <2>2, <2>3 DEF RemovalInv
<1>9. CASE PurgeEnd
  BY <1>0, <1>9 DEF PurgeEnd, RemovalInv
<1>10. CASE ReadBegin \/ ReadNext \/ UNCHANGED vars
  <2>1. UNCHANGED <<list, ball, before, op>>
    BY <1>10 DEF ReadBegin, ReadNext, vars, heap
  <2> QED BY <2>1, RemovalKept
<1> QED
  BY <1>1, <1>2, <1>3, <1>4, <1>5, <1>6, <1>7, <1>8, <1>9, <1>10 DEF Next

\* delete_ball removes the owner's newest balls, as many as asked for or all it
\* has, delete_ball_by_socket all of them, and every other ball stays in its
\* place: for any number of blocks, owners and balls.
THEOREM RemovesRight == Spec => RemovesRightBalls
<1>1. Init => RemovalInv
  <2> SUFFICES ASSUME Init PROVE RemovalInv
    OBVIOUS
  <2>1. before \in Entered
    BY DEF Init, Entered
  <2> QED BY <2>1 DEF Init, Idle, RemovalInv
<1> DEFINE A == op # Idle /\ op' = Idle =>
       /\ op.kind \in {"scan", "unlink"} =>
            Remains({i \in 1 .. Len(before) :
                       i \in Mine(op.owner) =>
                         Cardinality({j \in Mine(op.owner) : j >= i}) > op.count})
       /\ op.kind = "purge" => Remains(1 .. Len(before) \ Mine(op.owner))
<1>2. IInv /\ IInv' /\ RemovalInv /\ [Next]_vars => [A]_vars
  <2> SUFFICES ASSUME IInv, IInv', RemovalInv, [Next]_vars, op # Idle, op' = Idle
               PROVE  /\ op.kind \in {"scan", "unlink"} =>
                           Remains({i \in 1 .. Len(before) :
                                      i \in Mine(op.owner) =>
                                        Cardinality({j \in Mine(op.owner) : j >= i}) > op.count})
                      /\ op.kind = "purge" => Remains(1 .. Len(before) \ Mine(op.owner))
    OBVIOUS
  <2>0. Idle.kind = "idle" /\ list' \in Seq(Nodes) /\ before \in Entered
    BY DEF Idle, IInv, HeapOK, RemovalInv
  <2>1. CASE ScanEnd \/ DeleteBall
    <3>1. op.kind \in {"scan", "unlink"} /\ op.count \in Nat /\ before' = before
      <4>1. ScanOK \/ UnlinkOK
        BY <2>1 DEF IInv, OpOK, ScanEnd, DeleteBall, Idle, AddOps, PurgeOK, PurgeOps
      <4> QED BY <2>1, <4>1, HeapAssumption
              DEF ScanEnd, DeleteBall, ScanOK, ScanOps, UnlinkOK, UnlinkOps
    <3>2. ASSUME NEW o, o = op.owner, NEW count, count = op.count
          PROVE  DeleteRemoves(o, count, << >>)'
      <4>1. CASE ScanEnd
        <5>1. op.candidates = << >>
          BY <2>0, <4>1 DEF ScanEnd
        <5> QED BY <3>2, <4>1, <5>1, ScanEndRemoves
      <4>2. CASE DeleteBall
        <5>1. ASSUME NEW rest, rest = SubSeq(op.candidates, 1, Len(op.candidates) - 1)
              PROVE  DeleteRemoves(o, count, << >>)'
          <6>1. UnlinkOK /\ op' = IF rest = << >> THEN Idle ELSE [op EXCEPT !.candidates = rest]
            BY <4>2, <5>1, DeleteBallUnlinks DEF DeleteBall
          <6>2. rest = << >>
            <7> SUFFICES ASSUME rest # << >> PROVE FALSE
              OBVIOUS
            <7>1. op'.kind = "unlink"
              BY <6>1 DEF UnlinkOK, UnlinkOps
            <7> QED BY <2>0, <7>1
          <6> QED BY <3>2, <4>2, <5>1, <6>2, DeleteBallRemoves
        <5> QED BY <5>1
      <4> QED BY <2>1, <4>1, <4>2
    <3> QED BY <2>0, <3>1, <3>2, DeleteRemains
  <2>2. CASE PurgeEnd
    BY <2>2, PurgeRemains DEF PurgeEnd
  <2>3. CASE AddBall
    <3>1. op.kind = "add"
      BY <2>3 DEF AddBall
    <3> QED BY <3>1
  <2>4. CASE PurgeBall
    <3>1. op'.kind = "purge"
      BY <2>4, PurgeBallUnlinks DEF PurgeBall, PurgeOK, PurgeOps
    <3> QED BY <2>0, <3>1
  <2>5. CASE ScanBall
    <3>1. op'.kind = "scan"
      BY <2>5, ScanBallRemoves
    <3> QED BY <2>0, <3>1
  <2> QED BY <2>1, <2>2, <2>3, <2>4, <2>5
          DEF Next, vars, StartAdd, StartDelete, StartPurge, Start, ReadBegin, ReadNext
<1> QED BY <1>1, <1>2, RemovalNext, Inductive, PTL DEF Spec, RemovesRightBalls
=============================================================================
