------------------------- MODULE SearchResultsProofs -------------------------
(***************************************************************************)
(* What TLAPS proves of SearchResults.  For all documents, in alphabetical *)
(* order or not, and all texts: the types, that the focus stays on a link  *)
(* that is displayed, where Up moves it, and that keys and clicks move a   *)
(* cursor in the list of the links displayed.  For documents whose rows    *)
(* have the ids that Doxygen gives them, and all texts: which rows are     *)
(* displayed.                                                              *)
(***************************************************************************)
EXTENDS SearchResults, SequenceLemmas

Children == UNION {{Child(r, c) : c \in 0 .. Kids(r) - 1} : r \in Rows}
Items == {Item(r) : r \in Rows}

LEMMA LinkShapes ==
  /\ \A r \in Rows : Item(r) \in Items /\ Len(Item(r)) = 1 /\ Item(r)[1] = r
  /\ \A r \in Rows : \A c \in 0 .. Kids(r) - 1 :
       Child(r, c) \in Children /\ Len(Child(r, c)) = 2 /\ Child(r, c)[1] = r
  /\ Len(Outside) = 0
BY DEF Items, Children, Item, Child, Outside

\* A displayed link is a link of the document.
LEMMA ShownLink ==
  ASSUME TypeOK, NEW e, Shown(e)
  PROVE  /\ e \in Items \cup Children
         /\ Len(e) = 1 => e[1] \in visible /\ e = Item(e[1])
<1>1. visible \subseteq Rows
  BY DEF TypeOK
<1>2. CASE \E r \in visible : e = Item(r)
  BY <1>1, <1>2, LinkShapes
<1>3. CASE \E r \in visible \cap open : \E c \in 0 .. Kids(r) - 1 : e = Child(r, c)
  BY <1>1, <1>3, LinkShapes
<1> QED BY <1>2, <1>3 DEF Shown

\* What a key does, item or child: it leaves the focus, or moves it outside or to
\* a displayed link; or it opens or closes the row whose item has the focus.
LEMMA MoveEffect ==
  ASSUME NEW key, Move(key)
  PROVE  \/ /\ open' = open
            /\ focus' \in {focus, Outside} \/ Shown(focus')
         \/ /\ Len(focus) = 1
            /\ focus' = focus
            /\ \/ open' = open \ {focus[1]}
               \/ HasChildren(focus[1]) /\ open' = open \cup {focus[1]}
<1> DEFINE Quiet == open' = open /\ (focus' \in {focus, Outside} \/ Shown(focus'))
<1>1. ASSUME NEW e, GoUp(e) \/ GoDown(e), UNCHANGED open
      PROVE  Quiet
  BY <1>1 DEF GoUp, GoDown, Focused
<1>2. ASSUME NEW r, NEW c, NavChild(key, r, c)
      PROVE  Quiet
  <2>1. CASE key = "Up"
    BY <1>1, <1>2, <2>1 DEF NavChild
  <2>2. CASE key = "Down"
    BY <1>1, <1>2, <2>2 DEF NavChild
  <2>3. CASE key \notin {"Up", "Down"}
    BY <1>2, <2>3 DEF NavChild
  <2> QED BY <2>1, <2>2, <2>3
<1>3. ASSUME NEW r, NavItem(key, r)
      PROVE  \/ Quiet
             \/ /\ focus' = focus
                /\ open' = open \ {r} \/ (HasChildren(r) /\ open' = open \cup {r})
  <2>1. CASE key = "Up"
    BY <1>1, <1>3, <2>1 DEF NavItem
  <2>2. CASE key = "Down"
    BY <1>1, <1>3, <2>2 DEF NavItem
  <2>3. CASE key \notin {"Up", "Down"}
    BY <1>3, <2>3 DEF NavItem
  <2> QED BY <2>1, <2>2, <2>3
<1> QED BY <1>2, <1>3 DEF Move

LEMMA LoadedTypes ==
  ASSUME NEW d \in Documents, NEW q \in Queries
  PROVE  Matching(d, q) \subseteq 0 .. Len(d) - 1
BY DEF Matching

IInv == TypeOK /\ FocusShown

LEMMA InitIInv == Init => IInv
BY LoadedTypes DEF Init, IInv, TypeOK, FocusShown, Rows, Keys, NoKey, Outside

\* A step that keeps the document and moves the focus as MoveEffect says.
LEMMA MoveKeeps ==
  ASSUME IInv, InList, NEW key, Move(key), UNCHANGED <<doc, query, visible, noMatches>>,
         lastKey' \in (Keys \ {"Enter"}) \cup {NoKey}, repeatOn' \in BOOLEAN
  PROVE  IInv'
<1>0. TypeOK /\ Shown(focus)
  BY DEF IInv, FocusShown, InList
<1>a. UNCHANGED Rows /\ \A r \in Rows : UNCHANGED <<Kids(r), HasChildren(r)>>
  BY DEF Rows, Kids, HasChildren
<1>1. CASE open' = open /\ (focus' \in {focus, Outside} \/ Shown(focus'))
  <2>1. focus' = Outside \/ Shown(focus')
    BY <1>0, <1>1
  <2>2. focus' \in {Outside} \cup Items \cup Children
    BY <1>0, <2>1, ShownLink
  <2>3. TypeOK'
    BY <1>0, <1>1, <1>a, <2>2 DEF TypeOK, Items, Children
  <2>4. FocusShown'
    BY <1>1, <2>1 DEF FocusShown, Shown, Kids
  <2> QED BY <2>3, <2>4 DEF IInv
<1>2. CASE /\ Len(focus) = 1
           /\ focus' = focus
           /\ \/ open' = open \ {focus[1]}
              \/ HasChildren(focus[1]) /\ open' = open \cup {focus[1]}
  <2>1. focus[1] \in visible /\ focus = Item(focus[1])
    BY <1>0, <1>2, ShownLink
  <2>2. open' \subseteq {r \in Rows : HasChildren(r)}
    BY <1>0, <1>2, <2>1 DEF TypeOK
  <2>3. TypeOK'
    BY <1>0, <1>2, <1>a, <2>2 DEF TypeOK
  <2>4. FocusShown'
    BY <1>2, <2>1 DEF FocusShown, Shown
  <2> QED BY <2>3, <2>4 DEF IInv
<1> QED BY <1>1, <1>2, MoveEffect

\* A step that shows or hides the results of row r, whose item has the focus then.
LEMMA ToggleKeeps ==
  ASSUME IInv, NEW r \in visible, HasChildren(r), open' = Toggled(r), focus' = Item(r),
         UNCHANGED <<doc, query, visible, noMatches, lastKey, repeatOn>>
  PROVE  IInv'
<1>0. TypeOK /\ r \in Rows
  BY DEF IInv, TypeOK
<1>1. open' \subseteq {s \in Rows : HasChildren(s)}
  BY <1>0 DEF TypeOK, Toggled
<1>2. TypeOK'
  BY <1>0, <1>1 DEF TypeOK, Rows, Kids, HasChildren
<1>3. FocusShown'
  BY DEF FocusShown, Shown
<1> QED BY <1>2, <1>3 DEF IInv

LEMMA StepIInv ==
  ASSUME IInv, [Next]_vars
  PROVE  IInv'
<1>0. TypeOK /\ FocusShown
  BY DEF IInv
<1>a. ASSUME UNCHANGED <<doc, query, visible, noMatches, open, focus>>,
             lastKey' \in (Keys \ {"Enter"}) \cup {NoKey}, repeatOn' \in BOOLEAN
      PROVE  IInv'
  <2>1. TypeOK'
    BY <1>0, <1>a DEF TypeOK, Rows, Kids, HasChildren
  <2>2. FocusShown'
    BY <1>0, <1>a DEF FocusShown, Shown, Kids
  <2> QED BY <2>1, <2>2 DEF IInv
<1>1. CASE Load
  <2>1. PICK d \in Documents, q \in Queries : Loaded(d, q)
    BY <1>1 DEF Load
  <2> QED BY <2>1, LoadedTypes
          DEF IInv, TypeOK, FocusShown, Loaded, Rows, Keys, NoKey, Outside
<1>2. ASSUME NEW k \in Keys, KeyDown(k)
      PROVE  IInv'
  BY <1>2, MoveKeeps DEF KeyDown
<1>3. CASE RepeatKeyPress
  BY <1>0, <1>3, MoveKeeps DEF TypeOK, RepeatKeyPress
<1>4. CASE Enter
  <2>1. Len(focus) = 1 /\ HasChildren(focus[1]) /\ focus' = focus
    BY <1>4 DEF Enter
  <2>2. focus # Outside
    BY <2>1, LinkShapes
  <2>3. focus[1] \in visible /\ focus = Item(focus[1])
    BY <1>0, <2>1, <2>2, ShownLink DEF FocusShown
  <2> QED BY <1>4, <2>1, <2>3, ToggleKeeps DEF Enter
<1>5. ASSUME NEW r \in Rows, Click(r)
      PROVE  IInv'
  BY <1>5, ToggleKeeps DEF Click
<1>6. CASE IgnoreKeyPress \/ KeyUp
  <2>1. (lastKey # NoKey) \in BOOLEAN
    OBVIOUS
  <2> QED BY <1>0, <1>6, <1>a, <2>1 DEF TypeOK, IgnoreKeyPress, KeyUp
<1>7. CASE EnterList
  <2>1. focus' = Outside \/ Shown(focus')
    BY <1>7 DEF EnterList, GoDown, Focused
  <2>2. focus' \in {Outside} \cup Items \cup Children
    BY <1>0, <2>1, ShownLink
  <2>3. UNCHANGED <<doc, query, visible, noMatches, open, lastKey, repeatOn>>
    BY <1>7 DEF EnterList
  <2>4. TypeOK'
    BY <1>0, <2>2, <2>3 DEF TypeOK, Rows, Kids, HasChildren, Items, Children
  <2>5. FocusShown'
    BY <2>1, <2>3 DEF FocusShown, Shown, Kids
  <2> QED BY <2>4, <2>5 DEF IInv
<1>8. CASE UNCHANGED vars
  BY <1>0, <1>8, <1>a DEF vars, TypeOK
<1> QED BY <1>1, <1>2, <1>3, <1>4, <1>5, <1>6, <1>7, <1>8 DEF Next

LEMMA Invariant == Spec => []IInv
<1>1. IInv /\ [Next]_vars => IInv'
  BY StepIInv
<1> QED BY <1>1, InitIInv, PTL DEF Spec

\* For all documents and texts: the focus is on a link of the document, and only
\* rows with several results are ever open (search.js 425-736).
THEOREM TypeCorrect == Spec => []TypeOK
<1>1. IInv => TypeOK
  BY DEF IInv
<1> QED BY <1>1, Invariant, PTL

\* Whatever keys are pressed, held and released and whatever rows are clicked, the
\* focus is never on a link that is not displayed (search.js 471-735).
THEOREM FocusStaysShown == Spec => []FocusShown
<1>1. IInv => FocusShown
  BY DEF IInv
<1> QED BY <1>1, Invariant, PTL

LEMMA IsPrefixIff ==
  ASSUME NEW S, NEW s \in Seq(S), NEW t \in Seq(S)
  PROVE  IsPrefix(s, t) <=> /\ Len(s) <= Len(t)
                            /\ \A k \in 1 .. Len(s) : s[k] = t[k]
<1>1. Len(s) \in Nat /\ Len(t) \in Nat
  OBVIOUS
<1>2. Len(s) <= Len(t) => /\ SubSeq(s, 1, Len(s)) = [k \in 1 .. Len(s) |-> s[k]]
                          /\ SubSeq(t, 1, Len(s)) = [k \in 1 .. Len(s) |-> t[k]]
  BY <1>1
<1>3. (\A k \in 1 .. Len(s) : s[k] = t[k])
        <=> [k \in 1 .. Len(s) |-> s[k]] = [k \in 1 .. Len(s) |-> t[k]]
  BY Zenon
<1> QED BY <1>2, <1>3 DEF IsPrefix

(***************************************************************************)
(* Encoded texts                                                           *)
(***************************************************************************)
LEMMA EncodeCharIs ==
  ASSUME NEW c \in Nat
  PROVE  /\ EncodeChar(c) \in Seq(Nat)
         /\ Literal(c) => EncodeChar(c) = <<c>> /\ Len(EncodeChar(c)) = 1 /\ EncodeChar(c)[1] = c
         /\ ~Literal(c) => /\ Len(EncodeChar(c)) = 3
                           /\ EncodeChar(c)[1] = Underscore
                           /\ EncodeChar(c)[2] = HexDigit(c \div 16)
                           /\ EncodeChar(c)[3] = HexDigit(c % 16)
<1>1. HexDigit(c \div 16) \in Nat /\ HexDigit(c % 16) \in Nat
  BY DEF HexDigit
<1>2. CASE Literal(c)
  BY <1>2 DEF EncodeChar
<1>3. CASE ~Literal(c)
  <2>1. EncodeChar(c) = <<Underscore, HexDigit(c \div 16), HexDigit(c % 16)>>
    BY <1>3 DEF EncodeChar
  <2>2. Underscore \in Nat
    BY DEF Underscore
  <2> HIDE DEF Underscore
  <2> QED BY <1>1, <1>3, <2>1, <2>2
<1> QED BY <1>2, <1>3

\* The codes of two characters that begin alike are as long, and differ if the
\* characters do: no code is the beginning of another.
LEMMA EncodeCharPrefixFree ==
  ASSUME NEW c \in Nat, NEW d \in Nat, EncodeChar(c)[1] = EncodeChar(d)[1]
  PROVE  /\ Len(EncodeChar(c)) = Len(EncodeChar(d))
         /\ (\A j \in 1 .. Len(EncodeChar(c)) : EncodeChar(c)[j] = EncodeChar(d)[j]) => c = d
<1>1. ~Literal(Underscore)
  BY DEF Literal, Underscore
<1>2. Literal(c) <=> Literal(d)
  BY <1>1, EncodeCharIs
<1>3. CASE Literal(c)
  BY <1>2, <1>3, EncodeCharIs
<1>4. CASE ~Literal(c)
  <2>1. Len(EncodeChar(c)) = 3 /\ Len(EncodeChar(d)) = 3
    BY <1>2, <1>4, EncodeCharIs
  <2>2. SUFFICES ASSUME HexDigit(c \div 16) = HexDigit(d \div 16),
                        HexDigit(c % 16) = HexDigit(d % 16)
                 PROVE  c = d
    <3>1. 2 \in 1 .. 3 /\ 3 \in 1 .. 3
      OBVIOUS
    <3> QED BY <1>2, <1>4, <2>1, <3>1, EncodeCharIs
  <2>3. c < 128 /\ d < 128
    BY <1>2, <1>4 DEF Literal
  <2>4. /\ c \div 16 \in 0 .. 15 /\ c % 16 \in 0 .. 15 /\ c = 16 * (c \div 16) + (c % 16)
        /\ d \div 16 \in 0 .. 15 /\ d % 16 \in 0 .. 15 /\ d = 16 * (d \div 16) + (d % 16)
    <3>1. \A x \in 0 .. 127 : x \div 16 \in 0 .. 15
      OBVIOUS
    <3>2. \A x \in 0 .. 127 : x % 16 \in 0 .. 15
      OBVIOUS
    <3>3. \A x \in 0 .. 127 : x = 16 * (x \div 16) + (x % 16)
      OBVIOUS
    <3>4. c \in 0 .. 127 /\ d \in 0 .. 127
      BY <2>3
    <3> QED BY <3>1, <3>2, <3>3, <3>4
  <2>5. c \div 16 = d \div 16 /\ c % 16 = d % 16
    BY <2>2, <2>4 DEF HexDigit
  <2> QED BY <2>4, <2>5
<1> QED BY <1>3, <1>4

\* The code of s[i] lies behind the first p[i - 1] characters of code.
Encodes(code, s, p) ==
  /\ p[0] = 0 /\ p[Len(s)] = Len(code)
  /\ \A i \in 0 .. Len(s) : p[i] \in Nat /\ p[i] <= Len(code)
  /\ \A i \in 1 .. Len(s) :
       /\ p[i] = p[i - 1] + Len(EncodeChar(s[i]))
       /\ \A j \in 1 .. Len(EncodeChar(s[i])) : code[p[i - 1] + j] = EncodeChar(s[i])[j]
  /\ \A k \in 1 .. Len(code) :
       \E i \in 1 .. Len(s) : \E j \in 1 .. Len(EncodeChar(s[i])) : k = p[i - 1] + j

LEMMA EncodedText ==
  ASSUME NEW s \in Seq(Nat)
  PROVE  /\ convertToId(s) \in Seq(Nat)
         /\ \E p : Encodes(convertToId(s), s, p)
<1> DEFINE codes == [i \in DOMAIN s |-> EncodeChar(s[i])]
           code == convertToId(s)
<1>1. DOMAIN s = 1 .. Len(s) /\ Len(s) \in Nat /\ \A i \in 1 .. Len(s) : s[i] \in Nat
  OBVIOUS
<1>2. /\ codes \in Seq(Seq(Nat)) /\ Len(codes) = Len(s)
      /\ \A i \in 1 .. Len(s) : codes[i] = EncodeChar(s[i])
  BY <1>1, EncodeCharIs
<1>3. code = Ext!FlattenSeq(codes)
  BY Zenon DEF convertToId, FlattenSeq, Ext!FlattenSeq
<1> HIDE DEF code, codes
<1>4. code \in Seq(Nat) /\ \E p : IsLayout(code, codes, p)
  BY <1>2, <1>3, FlattenLayout
<1>5. PICK p : IsLayout(code, codes, p)
  BY <1>4
<1>6. /\ p \in [0 .. Len(s) -> Nat]
      /\ p[0] = 0 /\ p[Len(s)] = Len(code)
      /\ \A i \in 1 .. Len(s) :
           /\ p[i] = p[i - 1] + Len(EncodeChar(s[i]))
           /\ \A j \in 1 .. Len(EncodeChar(s[i])) : code[p[i - 1] + j] = EncodeChar(s[i])[j]
      /\ \A i, j \in 0 .. Len(s) : i <= j => p[i] <= p[j]
      /\ \A k \in 1 .. Len(code) :
           \E i \in 1 .. Len(s) : \E j \in 1 .. Len(EncodeChar(s[i])) : k = p[i - 1] + j
  <2>1. /\ p \in [0 .. Len(codes) -> Nat] /\ p[0] = 0 /\ p[Len(codes)] = Len(code)
        /\ \A i \in 1 .. Len(codes) :
             /\ p[i] = p[i - 1] + Len(codes[i])
             /\ \A j \in 1 .. Len(codes[i]) : code[p[i - 1] + j] = codes[i][j]
        /\ \A i, j \in 0 .. Len(codes) : i <= j => p[i] <= p[j]
        /\ \A k \in 1 .. Len(code) :
             \E i \in 1 .. Len(codes) : \E j \in 1 .. Len(codes[i]) : k = p[i - 1] + j
    BY <1>5, Zenon DEF IsLayout
  <2>2. Len(codes) = Len(s)
    BY <1>2
  <2>3. \A i \in 1 .. Len(s) : codes[i] = EncodeChar(s[i])
    BY <1>2
  <2>4. ASSUME NEW i \in 1 .. Len(s)
        PROVE  /\ p[i] = p[i - 1] + Len(EncodeChar(s[i]))
               /\ \A j \in 1 .. Len(EncodeChar(s[i])) : code[p[i - 1] + j] = EncodeChar(s[i])[j]
    <3>1. i \in 1 .. Len(codes) /\ codes[i] = EncodeChar(s[i])
      BY <2>2, <2>3
    <3> QED BY <2>1, <3>1
  <2>5. ASSUME NEW k \in 1 .. Len(code)
        PROVE  \E i \in 1 .. Len(s) : \E j \in 1 .. Len(EncodeChar(s[i])) : k = p[i - 1] + j
    <3>1. PICK i \in 1 .. Len(codes) : \E j \in 1 .. Len(codes[i]) : k = p[i - 1] + j
      BY <2>1
    <3>2. i \in 1 .. Len(s) /\ codes[i] = EncodeChar(s[i])
      BY <2>2, <2>3
    <3> QED BY <3>1, <3>2
  <2> QED BY <2>1, <2>2, <2>4, <2>5, Zenon
<1>7. \A i \in 0 .. Len(s) : p[i] \in Nat /\ p[i] <= Len(code)
  <2>1. \A i \in 0 .. Len(s) : i <= Len(s) /\ Len(s) \in 0 .. Len(s)
    BY <1>1
  <2> QED BY <1>6, <2>1
<1> QED BY <1>4, <1>6, <1>7 DEF code, Encodes

\* What comparing encoded texts finds, if tail ends the id of a row named n: n begins
\* with w, unless w goes on after n with a character whose code begins the tail.
LEMMA EncodedPrefix ==
  ASSUME NEW w \in Seq(Nat), NEW n \in Seq(Nat), NEW tail \in Seq(Nat),
         IsPrefix(n, w) /\ Len(n) < Len(w) => ~IsPrefix(EncodeChar(w[Len(n) + 1]), tail)
  PROVE  IsPrefix(convertToId(w), convertToId(n) \o tail) <=> IsPrefix(w, n)
<1> DEFINE cw == convertToId(w)
           cn == convertToId(n)
           id == cn \o tail
<1>1. PICK p : Encodes(cw, w, p)
  BY EncodedText
<1>2. PICK q : Encodes(cn, n, q)
  BY EncodedText
<1>3. /\ cw \in Seq(Nat) /\ cn \in Seq(Nat)
      /\ Len(cw) \in Nat /\ Len(cn) \in Nat /\ Len(tail) \in Nat
      /\ Len(w) \in Nat /\ \A i \in 1 .. Len(w) : w[i] \in Nat
      /\ Len(n) \in Nat /\ \A i \in 1 .. Len(n) : n[i] \in Nat
  BY EncodedText
<1>4. /\ id \in Seq(Nat) /\ Len(id) = Len(cn) + Len(tail)
      /\ \A k \in 1 .. Len(cn) : id[k] = cn[k]
      /\ \A j \in 1 .. Len(tail) : id[Len(cn) + j] = tail[j]
  <2> HIDE DEF cn
  <2> QED BY <1>3
<1>7. \A c \in Nat : Len(EncodeChar(c)) \in {1, 3}
  BY EncodeCharIs
<1> HIDE DEF cw, cn, id
<1>8. IsPrefix(cw, id) <=> /\ Len(cw) <= Len(id)
                           /\ \A k \in 1 .. Len(cw) : cw[k] = id[k]
  BY <1>3, <1>4, IsPrefixIff
<1>9. IsPrefix(w, n) <=> Len(w) <= Len(n) /\ \A k \in 1 .. Len(w) : w[k] = n[k]
  BY IsPrefixIff
<1>10. ASSUME IsPrefix(cw, id)
       PROVE  IsPrefix(w, n)
  <2> DEFINE Agree(i) == /\ i <= Len(n) /\ p[i] = q[i]
                         /\ \A k \in 1 .. i : w[k] = n[k]
             T == {i \in Nat : i <= Len(w) => Agree(i)}
  <2>1. 0 \in T
    BY <1>1, <1>2, <1>3 DEF Encodes
  <2>2. ASSUME NEW i \in T
        PROVE  i + 1 \in T
    <3> SUFFICES ASSUME i + 1 <= Len(w)
                 PROVE  Agree(i + 1)
      <4> HIDE DEF Agree
      <4> QED OBVIOUS
    <3>1. /\ i \in Nat /\ i + 1 \in 1 .. Len(w) /\ (i + 1) - 1 = i
          /\ i <= Len(n) /\ p[i] = q[i] /\ \A k \in 1 .. i : w[k] = n[k]
      <4>1. i \in Nat /\ (i <= Len(w) => Agree(i))
        <5> HIDE DEF Agree
        <5> QED OBVIOUS
      <4>2. i <= Len(w) /\ i + 1 \in 1 .. Len(w) /\ (i + 1) - 1 = i
        BY <1>3, <4>1
      <4> QED BY <4>1, <4>2
    <3> HIDE DEF T
    <3> DEFINE code == EncodeChar(w[i + 1])
    <3>2. /\ w[i + 1] \in Nat /\ Len(code) \in Nat /\ p[i] \in Nat
          /\ p[i + 1] = p[i] + Len(code) /\ p[i + 1] <= Len(cw)
          /\ \A j \in 1 .. Len(code) : cw[p[i] + j] = code[j]
      <4>1. i \in 0 .. Len(w) /\ i + 1 \in 0 .. Len(w)
        BY <1>3, <3>1
      <4>2. /\ p[i + 1] = p[(i + 1) - 1] + Len(code)
            /\ \A j \in 1 .. Len(code) : cw[p[(i + 1) - 1] + j] = code[j]
        BY <1>1, <3>1, Zenon DEF Encodes
      <4>3. p[i] \in Nat /\ p[i + 1] <= Len(cw)
        BY <1>1, <4>1 DEF Encodes
      <4>4. w[i + 1] \in Nat
        BY <1>3, <3>1
      <4>5. Len(code) \in Nat
        BY <1>7, <4>4
      <4> HIDE DEF code
      <4> QED BY <3>1, <4>2, <4>3, <4>4, <4>5
    <3>3. \A j \in 1 .. Len(code) : id[p[i] + j] = code[j] /\ p[i] + j <= Len(id)
      <4> HIDE DEF code
      <4>1. \A j \in 1 .. Len(code) : p[i] + j \in 1 .. Len(cw)
        <5>1. /\ Len(code) \in Nat /\ p[i] \in Nat /\ Len(cw) \in Nat
              /\ p[i] + Len(code) <= Len(cw)
          BY <1>3, <3>2
        <5> QED BY <5>1
      <4>2. Len(cw) <= Len(id) /\ \A k \in 1 .. Len(cw) : cw[k] = id[k]
        BY <1>8, <1>10
      <4>3. \A j \in 1 .. Len(code) : cw[p[i] + j] = code[j]
        BY <3>2
      <4>4. \A k \in 1 .. Len(cw) : k \in Nat /\ k <= Len(cw) /\ k <= Len(id)
        BY <1>3, <1>4, <4>2
      <4> QED BY <4>1, <4>2, <4>3, <4>4
    <3>4. i # Len(n)
      <4> SUFFICES ASSUME i = Len(n)
                   PROVE  FALSE
        OBVIOUS
      <4>1. p[i] = Len(cn)
        BY <1>2, <3>1 DEF Encodes
      <4>2. Len(code) <= Len(tail)
        <5> HIDE DEF code
        <5>1. Len(code) # 0 => Len(code) \in 1 .. Len(code)
          BY <3>2
        <5> QED BY <1>3, <1>4, <3>2, <3>3, <4>1, <5>1
      <4>3. \A j \in 1 .. Len(code) : code[j] = tail[j]
        <5> HIDE DEF code
        <5> SUFFICES ASSUME NEW j \in 1 .. Len(code)
                     PROVE  code[j] = tail[j]
          OBVIOUS
        <5>1. j \in 1 .. Len(tail)
          BY <1>3, <3>2, <4>2
        <5>2. id[Len(cn) + j] = tail[j]
          BY <1>4, <5>1
        <5> QED BY <3>3, <4>1, <5>2
      <4>4. code \in Seq(Nat)
        BY <3>2, EncodeCharIs
      <4>5. IsPrefix(code, tail)
        <5> HIDE DEF code
        <5> QED BY <4>2, <4>3, <4>4, IsPrefixIff
      <4>6. IsPrefix(n, w) /\ Len(n) < Len(w)
        <5>1. Len(n) < Len(w) /\ Len(n) <= Len(w)
          BY <1>3, <3>1
        <5>2. \A k \in 1 .. Len(n) : n[k] = w[k]
          BY <3>1
        <5> QED BY <5>1, <5>2, IsPrefixIff
      <4> QED BY <4>5, <4>6
    <3>5. i + 1 \in 1 .. Len(n) /\ i \in 0 .. Len(n) /\ i + 1 \in 0 .. Len(n)
      BY <1>3, <3>1, <3>4
    <3> DEFINE other == EncodeChar(n[i + 1])
    <3>6. /\ n[i + 1] \in Nat /\ Len(other) \in Nat
          /\ q[i + 1] = q[i] + Len(other) /\ q[i + 1] <= Len(cn)
          /\ \A j \in 1 .. Len(other) : cn[q[i] + j] = other[j]
      <4>1. /\ q[i + 1] = q[(i + 1) - 1] + Len(other)
            /\ \A j \in 1 .. Len(other) : cn[q[(i + 1) - 1] + j] = other[j]
        BY <1>2, <3>5, Zenon DEF Encodes
      <4>2. q[i + 1] <= Len(cn)
        BY <1>2, <3>5 DEF Encodes
      <4>3. n[i + 1] \in Nat
        BY <1>3, <3>5
      <4>4. Len(other) \in Nat
        BY <1>7, <4>3
      <4> HIDE DEF other
      <4> QED BY <3>1, <4>1, <4>2, <4>3, <4>4
    <3>7. \A j \in 1 .. Len(other) : id[p[i] + j] = other[j]
      <4> HIDE DEF other
      <4>1. \A j \in 1 .. Len(other) : p[i] + j \in 1 .. Len(cn)
        <5>1. /\ Len(other) \in Nat /\ p[i] \in Nat /\ Len(cn) \in Nat
              /\ p[i] + Len(other) <= Len(cn)
          BY <1>3, <3>1, <3>2, <3>6
        <5> QED BY <5>1
      <4> QED BY <1>4, <3>1, <3>6, <4>1
    <3>8. code[1] = other[1]
      <4>1. Len(code) \in {1, 3} /\ Len(other) \in {1, 3}
        BY <1>7, <3>2, <3>6
      <4> HIDE DEF code, other
      <4>2. 1 \in 1 .. Len(code) /\ 1 \in 1 .. Len(other)
        <5>1. \A x \in {1, 3} : 1 \in 1 .. x
          OBVIOUS
        <5> QED BY <4>1, <5>1
      <4> QED BY <3>3, <3>7, <4>2
    <3>9. Len(code) = Len(other)
      BY <3>2, <3>6, <3>8, EncodeCharPrefixFree
    <3>10. \A j \in 1 .. Len(code) : code[j] = other[j]
      <4> HIDE DEF code, other
      <4> QED BY <3>3, <3>7, <3>9
    <3>11. w[i + 1] = n[i + 1]
      BY <3>2, <3>6, <3>8, <3>10, EncodeCharPrefixFree
    <3>12. p[i + 1] = q[i + 1]
      BY <3>1, <3>2, <3>6, <3>9
    <3>13. \A k \in 1 .. i + 1 : k \in 1 .. i \/ k = i + 1
      BY <3>1
    <3> HIDE DEF code, other
    <3> QED BY <3>1, <3>5, <3>11, <3>12, <3>13
  <2>3. Agree(Len(w))
    <3> HIDE DEF Agree
    <3>1. T \subseteq Nat
      OBVIOUS
    <3> HIDE DEF T
    <3>2. Len(w) \in T
      BY <1>3, <2>1, <2>2, <3>1, Induction
    <3> QED BY <1>3, <3>2 DEF T
  <2> QED BY <1>9, <2>3
<1>11. ASSUME IsPrefix(w, n)
       PROVE  IsPrefix(cw, id)
  <2>0. Len(w) <= Len(n) /\ \A k \in 1 .. Len(w) : w[k] = n[k] /\ k \in 1 .. Len(n)
    BY <1>3, <1>9, <1>11
  <2> DEFINE T == {i \in Nat : i <= Len(w) => p[i] = q[i]}
  <2>1. 0 \in T
    BY <1>1, <1>2 DEF Encodes
  <2>2. ASSUME NEW i \in T
        PROVE  i + 1 \in T
    <3> SUFFICES ASSUME i + 1 <= Len(w)
                 PROVE  p[i + 1] = q[i + 1]
      OBVIOUS
    <3>1. i \in Nat /\ i + 1 \in 1 .. Len(w) /\ (i + 1) - 1 = i /\ p[i] = q[i]
      BY <1>3
    <3>2. w[i + 1] = n[i + 1] /\ i + 1 \in 1 .. Len(n)
      BY <2>0, <3>1
    <3> QED BY <1>1, <1>2, <3>1, <3>2 DEF Encodes
  <2>3. T \subseteq Nat
    OBVIOUS
  <2> HIDE DEF T
  <2>4. \A i \in Nat : i \in T
    BY <2>1, <2>2, <2>3, Induction
  <2>5. \A i \in 0 .. Len(w) : p[i] = q[i]
    BY <1>3, <2>4 DEF T
  <2>6. Len(cw) <= Len(cn)
    <3>1. Len(w) \in 0 .. Len(w) /\ Len(w) \in 0 .. Len(n)
      BY <1>3, <2>0
    <3> QED BY <1>1, <1>2, <2>5, <3>1 DEF Encodes
  <2>7. ASSUME NEW k \in 1 .. Len(cw)
        PROVE  cw[k] = id[k]
    <3>1. PICK i \in 1 .. Len(w) : \E j \in 1 .. Len(EncodeChar(w[i])) : k = p[i - 1] + j
      BY <1>1 DEF Encodes
    <3>2. PICK j \in 1 .. Len(EncodeChar(w[i])) : k = p[i - 1] + j
      BY <3>1
    <3>3. i - 1 \in 0 .. Len(w) /\ p[i - 1] = q[i - 1] /\ w[i] = n[i] /\ i \in 1 .. Len(n)
      <4>1. i - 1 \in 0 .. Len(w)
        BY <1>3
      <4> QED BY <2>0, <2>5, <4>1
    <3>4. cw[k] = EncodeChar(w[i])[j]
      BY <1>1, <3>2 DEF Encodes
    <3>5. cn[k] = EncodeChar(w[i])[j]
      BY <1>2, <3>2, <3>3 DEF Encodes
    <3>6. k \in 1 .. Len(cn)
      BY <1>3, <2>6
    <3> QED BY <1>4, <3>4, <3>5, <3>6
  <2> QED BY <1>3, <1>4, <1>8, <2>6, <2>7
<1> QED BY <1>10, <1>11 DEF cw, cn, id

LEMMA LowerText ==
  ASSUME NEW s \in Seq(Nat)
  PROVE  Lower(s) \in Seq(Nat) /\ Len(Lower(s)) = Len(s)
<1>1. DOMAIN s = 1 .. Len(s) /\ Len(s) \in Nat /\ \A i \in 1 .. Len(s) : s[i] \in Nat
  OBVIOUS
<1>2. \A i \in 1 .. Len(s) : (IF s[i] \in 65 .. 90 THEN s[i] + 32 ELSE s[i]) \in Nat
  BY <1>1
<1> QED BY <1>1, <1>2 DEF Lower

LEMMA TrimText ==
  ASSUME NEW s \in Seq(Nat)
  PROVE  Trim(s) \in Seq(Nat)
<1> DEFINE Ink == {i \in DOMAIN s : s[i] # Space}
<1>1. DOMAIN s = 1 .. Len(s) /\ Len(s) \in Nat
  OBVIOUS
<1>2. CASE Ink = {}
  BY <1>2 DEF Trim
<1>3. CASE Ink # {}
  <2>1. \E i \in Ink : \A j \in Ink : i <= j
    <3>1. Ink \in SUBSET Nat
      BY <1>1
    <3> HIDE DEF Ink
    <3> QED BY <1>3, <3>1, Least
  <2>2. \E i \in Ink : \A j \in Ink : j <= i
    <3> DEFINE Behind == {Len(s) - i : i \in Ink}
    <3>1. Behind \in SUBSET Nat /\ Behind # {}
      BY <1>1, <1>3
    <3>2. PICK x \in Behind : \A y \in Behind : x <= y
      <4> HIDE DEF Behind
      <4> QED BY <3>1, Least
    <3>3. PICK i \in Ink : x = Len(s) - i
      BY <3>2
    <3>4. \A j \in Ink : Len(s) - i <= Len(s) - j
      BY <3>2, <3>3
    <3> QED BY <1>1, <3>3, <3>4
  <2> DEFINE first == CHOOSE i \in Ink : \A j \in Ink : i <= j
             last == CHOOSE i \in Ink : \A j \in Ink : j <= i
  <2>3. first \in 1 .. Len(s) /\ last \in 1 .. Len(s)
    BY <1>1, <2>1, <2>2
  <2>4. Trim(s) = SubSeq(s, first, last)
    BY <1>3 DEF Trim
  <2> HIDE DEF first, last
  <2> QED BY <1>1, <2>3, <2>4
<1> QED BY <1>2, <1>3

\* The id of a row is its encoded name and a number (search/*.js).
DoxygenIds ==
  \A d \in Documents : \A i \in DOMAIN d :
    /\ Number(d[i]) \in Seq(48 .. 57)
    /\ Lower(d[i].id) = convertToId(Lower(d[i].name)) \o <<Underscore>> \o Number(d[i])

LEMMA TextsConcat ==
  ASSUME NEW x \in Seq(Seq(Nat)), NEW y \in Seq(Seq(Nat))
  PROVE  /\ x \o y \in Seq(Seq(Nat)) /\ Len(x \o y) = Len(x) + Len(y)
         /\ \A i \in 1 .. Len(x) : (x \o y)[i] = x[i]
         /\ \A i \in 1 .. Len(y) : (x \o y)[Len(x) + i] = y[i]
BY ConcatIs

LEMMA EncodedConcat ==
  ASSUME NEW s \in Seq(Nat), NEW t \in Seq(Nat)
  PROVE  convertToId(s \o t) = convertToId(s) \o convertToId(t)
<1> DEFINE st == s \o t
           codes(u) == [i \in DOMAIN u |-> EncodeChar(u[i])]
<1>1. /\ Len(s) \in Nat /\ DOMAIN s = 1 .. Len(s) /\ \A i \in 1 .. Len(s) : s[i] \in Nat
      /\ Len(t) \in Nat /\ DOMAIN t = 1 .. Len(t) /\ \A i \in 1 .. Len(t) : t[i] \in Nat
      /\ st \in Seq(Nat) /\ Len(st) = Len(s) + Len(t) /\ DOMAIN st = 1 .. Len(s) + Len(t)
      /\ \A i \in 1 .. Len(s) : st[i] = s[i]
      /\ \A i \in 1 .. Len(t) : st[Len(s) + i] = t[i]
  OBVIOUS
<1>2. \A u : convertToId(u) = Ext!FlattenSeq(codes(u))
  BY Zenon DEF convertToId, FlattenSeq, Ext!FlattenSeq
<1> HIDE DEF st
<1>0. ASSUME NEW u \in Seq(Nat)
      PROVE  /\ codes(u) \in Seq(Seq(Nat)) /\ Len(codes(u)) = Len(u)
             /\ \A i \in 1 .. Len(u) : codes(u)[i] = EncodeChar(u[i])
  <2>1. DOMAIN u = 1 .. Len(u) /\ Len(u) \in Nat /\ \A i \in 1 .. Len(u) : u[i] \in Nat
    OBVIOUS
  <2> QED BY <2>1, EncodeCharIs
<1> HIDE DEF codes
<1>3. /\ codes(s) \in Seq(Seq(Nat)) /\ Len(codes(s)) = Len(s)
      /\ \A i \in 1 .. Len(s) : codes(s)[i] = EncodeChar(s[i])
  BY <1>0
<1>4. /\ codes(t) \in Seq(Seq(Nat)) /\ Len(codes(t)) = Len(t)
      /\ \A i \in 1 .. Len(t) : codes(t)[i] = EncodeChar(t[i])
  BY <1>0
<1>5. /\ codes(st) \in Seq(Seq(Nat)) /\ Len(codes(st)) = Len(s) + Len(t)
      /\ \A i \in 1 .. Len(s) + Len(t) : codes(st)[i] = EncodeChar(st[i])
  BY <1>0, <1>1
<1>6. /\ codes(s) \o codes(t) \in Seq(Seq(Nat))
      /\ Len(codes(s) \o codes(t)) = Len(s) + Len(t)
      /\ \A i \in 1 .. Len(s) : (codes(s) \o codes(t))[i] = codes(s)[i]
      /\ \A i \in 1 .. Len(t) : (codes(s) \o codes(t))[Len(s) + i] = codes(t)[i]
  <2> DEFINE x == codes(s)
             y == codes(t)
  <2>2. x \in Seq(Seq(Nat)) /\ y \in Seq(Seq(Nat)) /\ Len(x) = Len(s) /\ Len(y) = Len(t)
    BY <1>3, <1>4
  <2> HIDE DEF x, y
  <2>3. /\ x \o y \in Seq(Seq(Nat)) /\ Len(x \o y) = Len(x) + Len(y)
        /\ \A i \in 1 .. Len(x) : (x \o y)[i] = x[i]
        /\ \A i \in 1 .. Len(y) : (x \o y)[Len(x) + i] = y[i]
    BY <2>2, TextsConcat
  <2>4. /\ x \o y \in Seq(Seq(Nat))
        /\ Len(x \o y) = Len(s) + Len(t)
        /\ \A i \in 1 .. Len(s) : (x \o y)[i] = x[i]
        /\ \A i \in 1 .. Len(t) : (x \o y)[Len(s) + i] = y[i]
    BY <2>2, <2>3
  <2> QED BY <2>4 DEF x, y
<1>7. \A i \in 1 .. Len(s) + Len(t) : codes(st)[i] = (codes(s) \o codes(t))[i]
  <2> TAKE i \in 1 .. Len(s) + Len(t)
  <2>1. CASE i <= Len(s)
    <3>1. i \in 1 .. Len(s)
      BY <1>1, <2>1
    <3> QED BY <1>1, <1>3, <1>5, <1>6, <3>1
  <2>2. CASE ~(i <= Len(s))
    <3> DEFINE j == i - Len(s)
    <3>1. j \in 1 .. Len(t) /\ i = Len(s) + j
      BY <1>1, <2>2
    <3> HIDE DEF j
    <3>2. codes(st)[i] = EncodeChar(t[j])
      BY <1>1, <1>5, <3>1
    <3>3. (codes(s) \o codes(t))[i] = EncodeChar(t[j])
      BY <1>4, <1>6, <3>1
    <3> QED BY <3>2, <3>3
  <2> QED BY <2>1, <2>2
<1>8. codes(st) = codes(s) \o codes(t)
  <2>1. Len(codes(st)) = Len(codes(s) \o codes(t))
    BY <1>5, <1>6
  <2>2. \A i \in 1 .. Len(codes(st)) : codes(st)[i] = (codes(s) \o codes(t))[i]
    BY <1>5, <1>7
  <2> QED BY <1>5, <1>6, <2>1, <2>2, SameSeq, Zenon
<1>9. Ext!FlattenSeq(codes(s) \o codes(t))
        = Ext!FlattenSeq(codes(s)) \o Ext!FlattenSeq(codes(t))
  BY <1>3, <1>4, FlattenConcat
<1> QED BY <1>2, <1>8, <1>9 DEF st

\* What comes after the same text decides.
LEMMA PrefixAfter ==
  ASSUME NEW x \in Seq(Nat), NEW y \in Seq(Nat), NEW z \in Seq(Nat)
  PROVE  IsPrefix(x \o y, x \o z) <=> IsPrefix(y, z)
<1> SUFFICES ASSUME NEW v \in Seq(Nat), v = x \o y, NEW w \in Seq(Nat), w = x \o z
             PROVE  IsPrefix(v, w) <=> IsPrefix(y, z)
  <2>1. x \o y \in Seq(Nat) /\ x \o z \in Seq(Nat)
    OBVIOUS
  <2> QED BY <2>1, Zenon
<1>0. ASSUME NEW s \in Seq(Nat), NEW t \in Seq(Nat)
      PROVE  IsPrefix(s, t) <=> Len(s) <= Len(t) /\ \A k \in 1 .. Len(s) : s[k] = t[k]
  BY IsPrefixIff
<1>1. IsPrefix(v, w) <=> Len(v) <= Len(w) /\ \A k \in 1 .. Len(v) : v[k] = w[k]
  BY <1>0
<1>2. IsPrefix(y, z) <=> Len(y) <= Len(z) /\ \A k \in 1 .. Len(y) : y[k] = z[k]
  BY <1>0
<1>3. /\ Len(x) \in Nat /\ Len(y) \in Nat /\ Len(z) \in Nat
      /\ Len(v) = Len(x) + Len(y) /\ Len(w) = Len(x) + Len(z)
      /\ \A k \in 1 .. Len(x) : v[k] = x[k] /\ w[k] = x[k]
      /\ \A k \in 1 .. Len(y) : v[Len(x) + k] = y[k]
      /\ \A k \in 1 .. Len(z) : w[Len(x) + k] = z[k]
  OBVIOUS
<1>4. ASSUME IsPrefix(v, w)
      PROVE  IsPrefix(y, z)
  <2>1. Len(y) <= Len(z)
    BY <1>1, <1>3, <1>4
  <2>2. ASSUME NEW k \in 1 .. Len(y)
        PROVE  y[k] = z[k]
    <3>1. Len(x) + k \in 1 .. Len(v) /\ k \in 1 .. Len(z)
      BY <1>3, <2>1
    <3>2. v[Len(x) + k] = w[Len(x) + k]
      BY <1>1, <1>4, <3>1
    <3> QED BY <1>3, <3>1, <3>2
  <2> QED BY <1>2, <2>1, <2>2
<1>5. ASSUME IsPrefix(y, z)
      PROVE  IsPrefix(v, w)
  <2>1. Len(v) <= Len(w) /\ Len(y) <= Len(z)
    BY <1>2, <1>3, <1>5
  <2>2. ASSUME NEW k \in 1 .. Len(v)
        PROVE  v[k] = w[k]
    <3>1. CASE k <= Len(x)
      <4>1. k \in 1 .. Len(x)
        BY <1>3, <3>1
      <4> QED BY <1>3, <4>1
    <3>2. CASE ~(k <= Len(x))
      <4> DEFINE j == k - Len(x)
      <4>1. j \in 1 .. Len(y) /\ j \in 1 .. Len(z) /\ k = Len(x) + j
        BY <1>3, <2>1, <3>2
      <4> HIDE DEF j
      <4>2. y[j] = z[j]
        BY <1>2, <1>5, <4>1
      <4> QED BY <1>3, <4>1, <4>2
    <3> QED BY <3>1, <3>2
  <2> QED BY <1>1, <2>1, <2>2
<1> QED BY <1>4, <1>5

\* What comparing encoded texts finds, whatever tail ends the id of a row named n.
LEMMA EncodedMatch ==
  ASSUME NEW w \in Seq(Nat), NEW n \in Seq(Nat), NEW tail \in Seq(Nat)
  PROVE  IsPrefix(convertToId(w), convertToId(n) \o tail)
           <=> \/ IsPrefix(w, n)
               \/ /\ IsPrefix(n, w)
                  /\ IsPrefix(convertToId(SubSeq(w, Len(n) + 1, Len(w))), tail)
<1> DEFINE rest == SubSeq(w, Len(n) + 1, Len(w))
<1>1. Len(w) \in Nat /\ Len(n) \in Nat
  OBVIOUS
<1>2. CASE ~IsPrefix(n, w)
  BY <1>2, EncodedPrefix
<1>3. CASE IsPrefix(n, w)
  <2>1. Len(n) <= Len(w) /\ \A k \in 1 .. Len(n) : n[k] = w[k]
    BY <1>3, IsPrefixIff
  <2>2. /\ rest \in Seq(Nat) /\ Len(rest) = Len(w) - Len(n)
        /\ \A k \in 1 .. Len(w) - Len(n) : rest[k] = w[Len(n) + k]
    <3>1. Len(n) \in 0 .. Len(w)
      BY <1>1, <2>1
    <3> QED BY <3>1, RestIs
  <2> HIDE DEF rest
  <2>3. w = n \o rest
    <3>1. /\ n \o rest \in Seq(Nat) /\ Len(n \o rest) = Len(w)
          /\ \A k \in 1 .. Len(n) : (n \o rest)[k] = n[k]
          /\ \A k \in 1 .. Len(w) - Len(n) : (n \o rest)[Len(n) + k] = rest[k]
      BY <1>1, <2>1, <2>2
    <3>2. ASSUME NEW k \in 1 .. Len(w)
          PROVE  w[k] = (n \o rest)[k]
      <4>1. CASE k <= Len(n)
        <5>1. k \in 1 .. Len(n)
          BY <1>1, <4>1
        <5> QED BY <2>1, <3>1, <5>1
      <4>2. CASE ~(k <= Len(n))
        <5> DEFINE j == k - Len(n)
        <5>1. j \in 1 .. Len(w) - Len(n) /\ k = Len(n) + j
          BY <1>1, <4>2
        <5> HIDE DEF j
        <5> QED BY <2>2, <3>1, <5>1
      <4> QED BY <4>1, <4>2
    <3>3. Len(w) = Len(n \o rest)
      BY <3>1
    <3> QED BY <3>1, <3>2, <3>3, SameSeq, Zenon
  <2>4. /\ convertToId(n) \in Seq(Nat) /\ convertToId(rest) \in Seq(Nat)
        /\ convertToId(w) = convertToId(n) \o convertToId(rest)
    BY <2>2, <2>3, EncodedText, EncodedConcat
  <2>5. IsPrefix(convertToId(w), convertToId(n) \o tail) <=> IsPrefix(convertToId(rest), tail)
    BY <2>4, PrefixAfter
  <2>6. IsPrefix(w, n) => IsPrefix(convertToId(rest), tail)
    <3> SUFFICES ASSUME IsPrefix(w, n)
                 PROVE  IsPrefix(convertToId(rest), tail)
      OBVIOUS
    <3>1. Len(w) <= Len(n)
      BY IsPrefixIff
    <3>2. Len(rest) = 0 /\ rest = << >>
      BY <1>1, <2>1, <2>2, <3>1
    <3>3. IsPrefix(n, w) /\ Len(n) < Len(w) => ~IsPrefix(EncodeChar(w[Len(n) + 1]), tail)
      BY <1>1, <3>1
    <3>4. IsPrefix(convertToId(w), convertToId(n) \o tail)
      BY <3>3, EncodedPrefix
    <3> QED BY <2>5, <3>4
  <2> QED BY <1>3, <2>5, <2>6 DEF rest
<1> QED BY <1>2, <1>3

LEMMA MatchingNames ==
  ASSUME DoxygenIds, NEW d \in Documents, NEW q \in Queries
  PROVE  Matching(d, q)
           = {r \in 0 .. Len(d) - 1 : \/ IsPrefix(Lower(Trim(q)), Lower(d[r + 1].name))
                                      \/ ReadsNumber(Lower(Trim(q)), d[r + 1])}
<1> DEFINE text == Lower(Trim(q))
<1>1. text \in Seq(Nat)
  BY QueriesAssumption, TrimText, LowerText
<1>2. d \in Seq(Row)
  BY DocumentsAssumption
<1> SUFFICES ASSUME NEW r \in 0 .. Len(d) - 1
             PROVE  IsPrefix(convertToId(text), Lower(d[r + 1].id))
                      <=> \/ IsPrefix(text, Lower(d[r + 1].name))
                          \/ ReadsNumber(text, d[r + 1])
  BY DEF Matching
<1> DEFINE name == Lower(d[r + 1].name)
           tail == <<Underscore>> \o Number(d[r + 1])
<1>3. r + 1 \in DOMAIN d /\ d[r + 1] \in Row
  BY <1>2
<1>4. name \in Seq(Nat)
  BY <1>3, LowerText DEF Row
<1>5. Number(d[r + 1]) \in Seq(Nat)
  <2>1. Number(d[r + 1]) \in Seq(48 .. 57)
    BY <1>3 DEF DoxygenIds
  <2>2. \A x \in Seq(48 .. 57) : x \in Seq(Nat)
    OBVIOUS
  <2> HIDE DEF Number
  <2> QED BY <2>1, <2>2
<1>6. tail \in Seq(Nat)
  <2>1. <<Underscore>> \in Seq(Nat)
    BY DEF Underscore
  <2> QED BY <1>5, <2>1
<1>7. Lower(d[r + 1].id) = convertToId(name) \o tail
  <2>1. Lower(d[r + 1].id) = convertToId(name) \o <<Underscore>> \o Number(d[r + 1])
    BY <1>3 DEF DoxygenIds
  <2>2. convertToId(name) \in Seq(Nat)
    BY <1>4, EncodedText
  <2>3. <<Underscore>> \in Seq(Nat)
    BY DEF Underscore
  <2>4. \A a, b, c \in Seq(Nat) : a \o b \o c = a \o (b \o c)
    OBVIOUS
  <2> HIDE DEF name
  <2> QED BY <1>5, <2>1, <2>2, <2>3, <2>4
<1>8. ReadsNumber(text, d[r + 1])
        <=> IsPrefix(name, text) /\ IsPrefix(convertToId(SubSeq(text, Len(name) + 1, Len(text))), tail)
  BY DEF ReadsNumber
<1> HIDE DEF text, name, tail
<1> QED BY <1>1, <1>4, <1>6, <1>7, <1>8, EncodedMatch DEF name

MatchInv == visible = Matching(doc, query) /\ noMatches = (visible = {})

\* The rows displayed are always those that matched when the document was loaded.
LEMMA MatchInvariant == Spec => []MatchInv
<1>1. Init => MatchInv
  BY DEF Init, MatchInv
<1>2. MatchInv /\ [Next]_vars => MatchInv'
  <2> SUFFICES ASSUME MatchInv, [Next]_vars
               PROVE  MatchInv'
    OBVIOUS
  <2>1. CASE Load
    BY <2>1 DEF Load, Loaded, MatchInv
  <2>2. CASE UNCHANGED <<doc, query, visible, noMatches>>
    BY <2>2 DEF MatchInv
  <2>3. ASSUME NEW k \in Keys, KeyDown(k)
        PROVE  MatchInv'
    BY <2>2, <2>3 DEF KeyDown
  <2>4. CASE Enter \/ IgnoreKeyPress \/ RepeatKeyPress \/ KeyUp \/ EnterList
    BY <2>2, <2>4 DEF Enter, IgnoreKeyPress, RepeatKeyPress, KeyUp, EnterList
  <2>5. ASSUME NEW r \in Rows, Click(r)
        PROVE  MatchInv'
    BY <2>2, <2>5 DEF Click
  <2>6. CASE UNCHANGED vars
    BY <2>2, <2>6 DEF vars
  <2> QED BY <2>1, <2>3, <2>4, <2>5, <2>6 DEF Next
<1> QED BY <1>1, <1>2, PTL DEF Spec

\* For all documents of Doxygen's and all texts: a row is displayed if its name begins
\* with the text, whatever its case and the spaces around it, and besides only if the
\* text goes on from the name into the number of the id; "No Matches" if and only if no
\* row is (search.js 24-45, 489-535).
THEOREM NamesMatch ==
  ASSUME DoxygenIds
  PROVE  Spec => []RowsMatch
<1>1. TypeOK /\ MatchInv => RowsMatch
  BY MatchingNames DEF TypeOK, MatchInv, RowsMatch, Rows
<1> QED BY <1>1, TypeCorrect, MatchInvariant, PTL

(***************************************************************************)
(* The list of the links displayed                                         *)
(***************************************************************************)
KidsIn(d, r) == IF d[r + 1].results = 1 THEN 0 ELSE d[r + 1].results

\* What row i of d contributes to the list when the rows v are displayed and the
\* children of the rows o.
LinksOf(d, v, o, i) ==
  IF i - 1 \notin v THEN << >>
  ELSE <<Item(i - 1)>> \o
         (IF i - 1 \in o
          THEN [c \in 1 .. KidsIn(d, i - 1) |-> Child(i - 1, c - 1)] ELSE << >>)

Links(d, v, o) == FlattenSeq([i \in DOMAIN d |-> LinksOf(d, v, o, i)])

Displayed(d, v, o, e) ==
  \/ \E r \in v : e = Item(r)
  \/ \E r \in v \cap o : \E c \in 0 .. KidsIn(d, r) - 1 : e = Child(r, c)

\* The position of a link, if p[r] links are displayed above row r.
Place(p, e) == p[e[1]] + (IF Len(e) = 1 THEN 1 ELSE 2 + e[2])

Height(d, v, o, r) == IF r \notin v THEN 0 ELSE IF r \in o THEN 1 + KidsIn(d, r) ELSE 1

Places(d, v, o, p) ==
  /\ p[0] = 0
  /\ \A r \in 0 .. Len(d) : p[r] \in Nat
  /\ \A r \in 0 .. Len(d) - 1 : p[r + 1] = p[r] + Height(d, v, o, r)
  /\ \A r, s \in 0 .. Len(d) : r <= s => p[r] <= p[s]
  /\ \A e : Displayed(d, v, o, e) => /\ Place(p, e) \in 1 .. Len(Links(d, v, o))
                                     /\ Links(d, v, o)[Place(p, e)] = e
  /\ \A k \in 1 .. Len(Links(d, v, o)) : /\ Displayed(d, v, o, Links(d, v, o)[k])
                                         /\ Place(p, Links(d, v, o)[k]) = k
  /\ p[Len(d)] = Len(Links(d, v, o))

LEMMA KidsInNat ==
  ASSUME NEW d \in Seq(Row), NEW r \in 0 .. Len(d) - 1
  PROVE  KidsIn(d, r) \in Nat
<1>1. d[r + 1] \in Row
  OBVIOUS
<1> QED BY <1>1 DEF Row, KidsIn

LEMMA LinkPlaces ==
  ASSUME NEW p, NEW r, NEW c
  PROVE  /\ Place(p, Item(r)) = p[r] + 1
         /\ Place(p, Child(r, c)) = p[r] + (2 + c)
BY DEF Place, Item, Child

LEMMA RowLinks ==
  ASSUME NEW d \in Seq(Row), NEW v, NEW o, NEW r \in 0 .. Len(d) - 1
  PROVE  LET links == LinksOf(d, v, o, r + 1)
         IN  /\ links \in Seq(Seq(Nat))
             /\ Len(links) = Height(d, v, o, r)
             /\ Height(d, v, o, r) \in Nat
             /\ r \in v => links[1] = Item(r)
             /\ r \in v /\ r \in o =>
                  \A c \in 0 .. KidsIn(d, r) - 1 : links[c + 2] = Child(r, c)
<1> DEFINE links == LinksOf(d, v, o, r + 1)
           kids == [c \in 1 .. KidsIn(d, r) |-> Child(r, c - 1)]
<1>1. KidsIn(d, r) \in Nat /\ r \in Nat /\ (r + 1) - 1 = r
  BY KidsInNat
<1>2. Item(r) \in Seq(Nat) /\ \A c \in Nat : Child(r, c) \in Seq(Nat)
  BY <1>1 DEF Item, Child
<1>3. links = IF r \notin v THEN << >> ELSE <<Item(r)>> \o (IF r \in o THEN kids ELSE << >>)
  BY <1>1 DEF LinksOf
<1>4. /\ kids \in Seq(Seq(Nat)) /\ Len(kids) = KidsIn(d, r)
      /\ \A c \in 0 .. KidsIn(d, r) - 1 : c + 1 \in 1 .. Len(kids) /\ kids[c + 1] = Child(r, c)
  <2>1. \A c \in 1 .. KidsIn(d, r) : c - 1 \in Nat /\ Child(r, c - 1) \in Seq(Nat)
    BY <1>1, <1>2
  <2> DEFINE n == KidsIn(d, r)
  <2>2. n \in Nat
    BY <1>1
  <2>3. kids = [c \in 1 .. n |-> Child(r, c - 1)]
    OBVIOUS
  <2> HIDE DEF n, kids
  <2>4. kids \in Seq(Seq(Nat)) /\ Len(kids) = n
    BY <2>1, <2>2, <2>3 DEF n
  <2>5. \A c \in 0 .. n - 1 : c + 1 \in 1 .. n /\ (c + 1) - 1 = c
    BY <2>2
  <2>6. \A c \in 0 .. n - 1 : kids[c + 1] = Child(r, c)
    BY <2>3, <2>5
  <2> QED BY <2>4, <2>5, <2>6 DEF n
<1>5. <<Item(r)>> \in Seq(Seq(Nat)) /\ Len(<<Item(r)>>) = 1 /\ <<Item(r)>>[1] = Item(r)
  BY <1>2
<1>6. \A a, b \in Seq(Seq(Nat)) :
        /\ a \o b \in Seq(Seq(Nat)) /\ Len(a \o b) = Len(a) + Len(b)
        /\ \A k \in 1 .. Len(a) : (a \o b)[k] = a[k]
        /\ \A j \in 1 .. Len(b) : (a \o b)[Len(a) + j] = b[j]
  OBVIOUS
<1>7. << >> \in Seq(Seq(Nat)) /\ Len(<< >>) = 0
  OBVIOUS
<1> DEFINE item == <<Item(r)>>
<1> HIDE DEF kids, links, item
<1>8. CASE r \notin v
  <2>1. links = << >> /\ Height(d, v, o, r) = 0
    BY <1>3, <1>8 DEF Height
  <2>2. links \in Seq(Seq(Nat)) /\ Len(links) = 0
    BY <1>7, <2>1
  <2>3. Len(links) = Height(d, v, o, r) /\ Height(d, v, o, r) \in Nat
    BY <2>1, <2>2
  <2> QED BY <1>8, <2>2, <2>3 DEF links
<1>9. CASE r \in v /\ r \notin o
  <2>1. links = item \o << >>
    BY <1>3, <1>9 DEF item
  <2>2. item \in Seq(Seq(Nat)) /\ Len(item) = 1 /\ item[1] = Item(r)
    BY <1>5 DEF item
  <2>3. links \in Seq(Seq(Nat)) /\ Len(links) = 1 /\ links[1] = Item(r)
    BY <1>6, <1>7, <2>1, <2>2
  <2> QED BY <1>9, <2>3 DEF Height, links
<1>10. CASE r \in v /\ r \in o
  <2>1. links = item \o kids
    BY <1>3, <1>10 DEF item
  <2>2. item \in Seq(Seq(Nat)) /\ Len(item) = 1 /\ item[1] = Item(r)
    BY <1>5 DEF item
  <2>3. /\ links \in Seq(Seq(Nat)) /\ Len(links) = 1 + KidsIn(d, r) /\ links[1] = Item(r)
        /\ \A j \in 1 .. Len(kids) : links[1 + j] = kids[j]
    <3>1. kids \in Seq(Seq(Nat)) /\ Len(kids) = KidsIn(d, r)
      BY <1>4
    <3>2. /\ item \o kids \in Seq(Seq(Nat)) /\ Len(item \o kids) = Len(item) + Len(kids)
          /\ \A k \in 1 .. Len(item) : (item \o kids)[k] = item[k]
          /\ \A j \in 1 .. Len(kids) : (item \o kids)[Len(item) + j] = kids[j]
      BY <1>6, <2>2, <3>1
    <3>3. links \in Seq(Seq(Nat)) /\ Len(links) = 1 + KidsIn(d, r)
      BY <2>1, <2>2, <3>1, <3>2
    <3>4. links[1] = item[1]
      BY <2>1, <2>2, <3>2
    <3>5. \A j \in 1 .. Len(kids) : links[1 + j] = kids[j]
      BY <2>1, <2>2, <3>2
    <3> QED BY <2>2, <3>3, <3>4, <3>5
  <2>4. \A c \in 0 .. KidsIn(d, r) - 1 : links[c + 2] = Child(r, c)
    <3> SUFFICES ASSUME NEW c \in 0 .. KidsIn(d, r) - 1
                 PROVE  links[c + 2] = Child(r, c)
      OBVIOUS
    <3>1. c + 2 = 1 + (c + 1)
      BY <1>1
    <3> QED BY <1>4, <2>3, <3>1
  <2> QED BY <1>1, <1>10, <2>3, <2>4 DEF Height, links
<1> QED BY <1>8, <1>9, <1>10

LEMMA PlacesExist ==
  ASSUME NEW d \in Seq(Row), NEW v \in SUBSET (0 .. Len(d) - 1), NEW o
  PROVE  /\ Links(d, v, o) \in Seq(Seq(Nat))
         /\ \E p : Places(d, v, o, p)
<1> DEFINE all == [i \in DOMAIN d |-> LinksOf(d, v, o, i)]
           links == Links(d, v, o)
<1>1. Len(d) \in Nat /\ DOMAIN d = 1 .. Len(d)
  OBVIOUS
<1>2. \A i \in 1 .. Len(d) : i - 1 \in 0 .. Len(d) - 1 /\ (i - 1) + 1 = i
  BY <1>1
<1>3. \A i \in 1 .. Len(d) : LinksOf(d, v, o, i) \in Seq(Seq(Nat))
  BY <1>2, RowLinks
<1>4. all \in Seq(Seq(Seq(Nat))) /\ Len(all) = Len(d)
  BY <1>1, <1>3
<1>5. links = Ext!FlattenSeq(all)
  BY Zenon DEF Links, FlattenSeq, Ext!FlattenSeq
<1>6. \A r \in 0 .. Len(d) - 1 : all[r + 1] = LinksOf(d, v, o, r + 1) /\ r + 1 \in 1 .. Len(d)
  BY <1>1
<1> HIDE DEF all, links
<1>7. links \in Seq(Seq(Nat)) /\ \E p : IsLayout(links, all, p)
  BY <1>4, <1>5, FlattenLayout
<1>8. PICK p : IsLayout(links, all, p)
  BY <1>7
<1>9. /\ p[0] = 0 /\ p[Len(d)] = Len(links) /\ Len(links) \in Nat
      /\ \A r \in 0 .. Len(d) : p[r] \in Nat
      /\ \A r, s \in 0 .. Len(d) : r <= s => p[r] <= p[s]
  <2>1. /\ p \in [0 .. Len(all) -> Nat] /\ p[0] = 0 /\ p[Len(all)] = Len(links)
        /\ \A r, s \in 0 .. Len(all) : r <= s => p[r] <= p[s]
    BY <1>8, Zenon DEF IsLayout
  <2>2. Len(links) \in Nat
    BY <1>7
  <2> QED BY <1>4, <2>1, <2>2
<1>10. ASSUME NEW r \in 0 .. Len(d) - 1
       PROVE  /\ p[r + 1] = p[r] + Height(d, v, o, r)
              /\ Height(d, v, o, r) \in Nat
              /\ \A j \in 1 .. Height(d, v, o, r) : links[p[r] + j] = LinksOf(d, v, o, r + 1)[j]
  <2>1. /\ p[r + 1] = p[(r + 1) - 1] + Len(all[r + 1])
        /\ \A j \in 1 .. Len(all[r + 1]) : links[p[(r + 1) - 1] + j] = all[r + 1][j]
    <3>1. r + 1 \in 1 .. Len(all)
      BY <1>4, <1>6
    <3> QED BY <1>8, <3>1, Zenon DEF IsLayout
  <2>2. (r + 1) - 1 = r /\ all[r + 1] = LinksOf(d, v, o, r + 1)
    BY <1>6
  <2>3. Len(all[r + 1]) = Height(d, v, o, r) /\ Height(d, v, o, r) \in Nat
    BY <2>2, RowLinks
  <2> QED BY <2>1, <2>2, <2>3
<1>11. ASSUME NEW r \in v
       PROVE  /\ p[r] + 1 \in 1 .. Len(links)
              /\ links[p[r] + 1] = Item(r)
  <2>1. r \in 0 .. Len(d) - 1 /\ r \in 0 .. Len(d) /\ r + 1 \in 0 .. Len(d)
    BY <1>1
  <2>2. 1 <= Height(d, v, o, r) /\ 1 \in 1 .. Height(d, v, o, r)
    BY <2>1, KidsInNat DEF Height
  <2>3. links[p[r] + 1] = Item(r)
    BY <1>10, <2>1, <2>2, RowLinks
  <2>4. p[r + 1] <= Len(links) /\ p[r] \in Nat /\ p[r + 1] >= p[r] + 1
    <3>1. Len(d) \in 0 .. Len(d) /\ r + 1 <= Len(d)
      BY <1>1, <2>1
    <3>2. p[r + 1] <= p[Len(d)]
      BY <1>9, <2>1, <3>1
    <3> QED BY <1>9, <1>10, <2>1, <2>2, <3>2
  <2> QED BY <1>9, <2>1, <2>3, <2>4
<1>12. ASSUME NEW r \in v \cap o, NEW c \in 0 .. KidsIn(d, r) - 1
       PROVE  /\ p[r] + (2 + c) \in 1 .. Len(links)
              /\ links[p[r] + (2 + c)] = Child(r, c)
  <2>1. r \in 0 .. Len(d) - 1 /\ r \in 0 .. Len(d) /\ r + 1 \in 0 .. Len(d)
    BY <1>1
  <2>2. /\ KidsIn(d, r) \in Nat /\ Height(d, v, o, r) = 1 + KidsIn(d, r)
        /\ 2 + c \in 1 .. Height(d, v, o, r) /\ c + 2 = 2 + c
    BY <2>1, KidsInNat DEF Height
  <2>3. links[p[r] + (2 + c)] = Child(r, c)
    <3>1. LinksOf(d, v, o, r + 1)[c + 2] = Child(r, c)
      BY <2>1, RowLinks
    <3> QED BY <1>10, <2>1, <2>2, <3>1
  <2>4. p[r + 1] <= Len(links) /\ p[r] \in Nat /\ p[r + 1] >= p[r] + (2 + c)
    <3>1. Len(d) \in 0 .. Len(d) /\ r + 1 <= Len(d)
      BY <1>1, <2>1
    <3>2. p[r + 1] <= p[Len(d)]
      BY <1>9, <2>1, <3>1
    <3> QED BY <1>9, <1>10, <2>1, <2>2, <3>2
  <2> QED BY <1>9, <2>1, <2>3, <2>4
<1>13. \A e : Displayed(d, v, o, e) => Place(p, e) \in 1 .. Len(links) /\ links[Place(p, e)] = e
  <2> SUFFICES ASSUME NEW e, Displayed(d, v, o, e)
               PROVE  Place(p, e) \in 1 .. Len(links) /\ links[Place(p, e)] = e
    OBVIOUS
  <2>1. CASE \E r \in v : e = Item(r)
    <3>1. PICK r \in v : e = Item(r)
      BY <2>1
    <3>2. Place(p, e) = p[r] + 1
      BY <3>1, LinkPlaces
    <3> QED BY <1>11, <3>1, <3>2
  <2>2. CASE \E r \in v \cap o : \E c \in 0 .. KidsIn(d, r) - 1 : e = Child(r, c)
    BY <1>12, <2>2, LinkPlaces
  <2> QED BY <2>1, <2>2 DEF Displayed
<1>14. ASSUME NEW k \in 1 .. Len(links)
       PROVE  Displayed(d, v, o, links[k]) /\ Place(p, links[k]) = k
  <2>1. PICK i \in 1 .. Len(all) : \E j \in 1 .. Len(all[i]) : k = p[i - 1] + j
    BY <1>8 DEF IsLayout
  <2> DEFINE r == i - 1
  <2>2. r \in 0 .. Len(d) - 1 /\ i = r + 1 /\ r \in 0 .. Len(d)
    BY <1>1, <1>4
  <2> HIDE DEF r
  <2>3. PICK j \in 1 .. Height(d, v, o, r) : k = p[r] + j
    <3>1. Len(all[i]) = Height(d, v, o, r)
      BY <1>6, <2>2, RowLinks
    <3> QED BY <2>1, <3>1 DEF r
  <2>4. links[k] = LinksOf(d, v, o, r + 1)[j]
    BY <1>10, <2>2, <2>3
  <2>5. KidsIn(d, r) \in Nat /\ r \in v
    BY <2>2, <2>3, KidsInNat DEF Height
  <2>6. CASE j = 1
    <3>1. links[k] = Item(r)
      BY <2>2, <2>4, <2>5, <2>6, RowLinks
    <3> QED BY <2>3, <2>5, <2>6, <3>1, LinkPlaces DEF Displayed
  <2>7. CASE j # 1
    <3>1. /\ r \in o /\ j - 2 \in 0 .. KidsIn(d, r) - 1 /\ (j - 2) + 2 = j
          /\ 2 + (j - 2) = j
      BY <2>3, <2>5, <2>7 DEF Height
    <3>2. links[k] = Child(r, j - 2)
      BY <2>2, <2>4, <2>5, <3>1, RowLinks
    <3>3. Place(p, links[k]) = k
      BY <2>3, <3>1, <3>2, LinkPlaces
    <3> QED BY <2>5, <3>1, <3>2, <3>3 DEF Displayed
  <2> QED BY <2>6, <2>7
<1>15. Places(d, v, o, p)
  BY <1>9, <1>10, <1>13, <1>14 DEF Places, links
<1> QED BY <1>7, <1>15 DEF links

(***************************************************************************)
(* The cursor                                                              *)
(***************************************************************************)
\* Rows that are not displayed take no place.
LEMMA HiddenTakeNoPlace ==
  ASSUME NEW d \in Seq(Row), NEW v, NEW o, NEW p, Places(d, v, o, p),
         NEW r \in 0 .. Len(d), NEW s \in 0 .. Len(d), r <= s,
         \A k \in r .. s - 1 : k \notin v
  PROVE  p[r] = p[s]
<1> DEFINE T == {m \in Nat : r + m <= s => p[r + m] = p[r]}
<1>1. 0 \in T
  OBVIOUS
<1>2. ASSUME NEW m \in T
      PROVE  m + 1 \in T
  <2> SUFFICES ASSUME r + (m + 1) <= s
               PROVE  p[r + (m + 1)] = p[r]
    OBVIOUS
  <2>1. /\ r + m \in r .. s - 1 /\ r + m \in 0 .. Len(d) - 1
        /\ r + (m + 1) = (r + m) + 1 /\ p[r + m] = p[r]
    OBVIOUS
  <2>2. p[(r + m) + 1] = p[r + m] + Height(d, v, o, r + m) /\ p[r + m] \in Nat
    BY <2>1 DEF Places
  <2>3. Height(d, v, o, r + m) = 0
    BY <2>1 DEF Height
  <2> QED BY <2>1, <2>2, <2>3
<1>3. T \subseteq Nat
  OBVIOUS
<1> HIDE DEF T
<1>4. s - r \in T
  BY <1>1, <1>2, <1>3, Induction
<1> QED BY <1>4 DEF T

\* The list of the model and the place of the focus in it.
LEMMA EntriesAre ==
  /\ Entries = Links(doc, visible, open)
  /\ Entries' = Links(doc', visible', open')
  /\ \A e : Shown(e) <=> Displayed(doc, visible, open, e)
BY DEF Entries, Links, LinksOf, KidsIn, Kids, Shown, Displayed

\* The position of the link e in the list of links l.
PositionOf(l, e) == IF e = Outside THEN 0 ELSE CHOOSE i \in DOMAIN l : l[i] = e

LEMMA PositionIs ==
  ASSUME NEW d \in Seq(Row), NEW v \in SUBSET (0 .. Len(d) - 1), NEW o, NEW p, NEW e,
         Places(d, v, o, p), Displayed(d, v, o, e)
  PROVE  /\ PositionOf(Links(d, v, o), e) = Place(p, e)
         /\ Place(p, e) \in 1 .. Len(Links(d, v, o))
         /\ Links(d, v, o)[Place(p, e)] = e
<1> DEFINE links == Links(d, v, o)
<1>1. links \in Seq(Seq(Nat))
  BY PlacesExist
<1>2. DOMAIN links = 1 .. Len(links)
  BY <1>1
<1>3. /\ Place(p, e) \in 1 .. Len(links) /\ links[Place(p, e)] = e
      /\ \A k \in 1 .. Len(links) : Place(p, links[k]) = k
  BY DEF Places
<1>4. e # Outside
  <2>1. \A r, c : Item(r) # Outside /\ Child(r, c) # Outside
    <3>1. \A r, c : Len(Item(r)) = 1 /\ Len(Child(r, c)) = 2 /\ Len(Outside) = 0
      BY DEF Item, Child, Outside
    <3> QED BY <3>1
  <2> QED BY <2>1, Zenon DEF Displayed
<1> HIDE DEF links
<1>5. \E i \in DOMAIN links : links[i] = e
  BY <1>2, <1>3
<1> DEFINE i == CHOOSE i \in DOMAIN links : links[i] = e
<1>6. i \in DOMAIN links /\ links[i] = e
  BY <1>5, Zenon
<1>7. i = Place(p, e)
  BY <1>2, <1>3, <1>6
<1> QED BY <1>3, <1>4, <1>7 DEF PositionOf, links

LEMMA PositionsAre ==
  /\ Position = PositionOf(Entries, focus)
  /\ Position' = PositionOf(Entries', focus')
BY DEF Position, PositionOf

LEMMA NavNextIs ==
  ASSUME TypeOK, NEW p, Places(doc, visible, open, p), NEW i \in 0 .. Len(doc)
  PROVE  \/ NavNext(i) = Outside
         \/ \E s \in visible : NavNext(i) = Item(s) /\ p[s] = p[i]
<1> SUFFICES ASSUME Following(i) # {}
             PROVE  \E s \in visible : NavNext(i) = Item(s) /\ p[s] = p[i]
  BY DEF NavNext
<1>0. doc \in Seq(Row) /\ visible \in SUBSET (0 .. Len(doc) - 1) /\ Len(doc) \in Nat
  BY DocumentsAssumption DEF TypeOK, Rows
<1>1. Following(i) \in SUBSET Nat
  <2>1. \A k \in visible : k \in Nat
    BY <1>0
  <2> QED BY <2>1 DEF Following
<1>2. \E r \in Following(i) : \A s \in Following(i) : r <= s
  BY <1>1, Least
<1> DEFINE s == CHOOSE r \in Following(i) : \A s \in Following(i) : r <= s
<1>3. s \in Following(i) /\ \A r \in Following(i) : s <= r
  BY <1>2
<1>4. NavNext(i) = Item(s)
  BY DEF NavNext
<1> HIDE DEF s
<1>5. s \in visible /\ s >= i /\ s \in 0 .. Len(doc)
  BY <1>0, <1>3 DEF Following
<1>6. \A k \in i .. s - 1 : k \notin visible
  BY <1>0, <1>3, <1>5 DEF Following
<1>7. p[i] = p[s]
  BY <1>0, <1>5, <1>6, HiddenTakeNoPlace
<1> QED BY <1>4, <1>5, <1>7

LEMMA NavPrevIs ==
  ASSUME TypeOK, NEW p, Places(doc, visible, open, p), NEW r \in visible
  PROVE  \/ NavPrev(r - 1) = Outside /\ p[r] = 0
         \/ \E s \in visible : /\ s < r /\ NavPrev(r - 1) = Item(s)
                               /\ s # r - 1 => r - 1 \notin visible
                               /\ p[r] = p[s + 1]
<1>0. /\ doc \in Seq(Row) /\ visible \in SUBSET (0 .. Len(doc) - 1) /\ Len(doc) \in Nat
      /\ r \in 0 .. Len(doc) /\ r \in Nat
  BY DocumentsAssumption DEF TypeOK, Rows
<1>1. CASE Preceding(r - 1) = {}
  <2>1. \A k \in 0 .. r - 1 : k \notin visible
    BY <1>0, <1>1 DEF Preceding
  <2>2. p[0] = p[r] /\ p[0] = 0
    <3>1. 0 \in 0 .. Len(doc) /\ 0 <= r
      BY <1>0
    <3>2. p[0] = p[r]
      BY <1>0, <2>1, <3>1, HiddenTakeNoPlace
    <3> QED BY <3>2 DEF Places
  <2> QED BY <1>1, <2>2 DEF NavPrev
<1>2. CASE Preceding(r - 1) # {}
  <2>1. \E k \in Preceding(r - 1) : \A m \in Preceding(r - 1) : m <= k
    <3> DEFINE Above == {r - k : k \in Preceding(r - 1)}
    <3>1. \A k \in Preceding(r - 1) : k \in Nat /\ k <= r - 1
      BY <1>0 DEF Preceding
    <3>2. Above \in SUBSET Nat /\ Above # {}
      BY <1>0, <1>2, <3>1
    <3>3. PICK x \in Above : \A y \in Above : x <= y
      <4> HIDE DEF Above
      <4> QED BY <3>2, Least
    <3>4. PICK k \in Preceding(r - 1) : x = r - k
      BY <3>3
    <3>5. \A m \in Preceding(r - 1) : r - k <= r - m
      BY <3>3, <3>4
    <3> QED BY <1>0, <3>1, <3>4, <3>5
  <2> DEFINE s == CHOOSE k \in Preceding(r - 1) : \A m \in Preceding(r - 1) : m <= k
  <2>2. s \in Preceding(r - 1) /\ \A m \in Preceding(r - 1) : m <= s
    BY <2>1
  <2>3. NavPrev(r - 1) = Item(s)
    BY <1>2 DEF NavPrev
  <2> HIDE DEF s
  <2>4. /\ s \in visible /\ s <= r - 1 /\ s \in Nat /\ s < r
        /\ s + 1 \in 0 .. Len(doc) /\ s + 1 <= r
    BY <1>0, <2>2 DEF Preceding
  <2>5. \A k \in s + 1 .. r - 1 : k \notin visible
    <3> SUFFICES ASSUME NEW k \in s + 1 .. r - 1, k \in visible
                 PROVE  FALSE
      OBVIOUS
    <3>1. k \in Preceding(r - 1)
      BY <1>0 DEF Preceding
    <3> QED BY <1>0, <2>2, <2>4, <3>1
  <2>6. p[s + 1] = p[r]
    BY <1>0, <2>4, <2>5, HiddenTakeNoPlace
  <2>7. s # r - 1 => r - 1 \in s + 1 .. r - 1
    BY <1>0, <2>4
  <2> QED BY <2>3, <2>4, <2>5, <2>6, <2>7
<1> QED BY <1>1, <1>2

\* The link found below a displayed one is the next in the list.
LEMMA BelowIs ==
  ASSUME TypeOK, NEW p, Places(doc, visible, open, p), NEW r \in visible
  PROVE  /\ \/ BelowItem(r) = Outside
            \/ Shown(BelowItem(r)) /\ Place(p, BelowItem(r)) = Place(p, Item(r)) + 1
         /\ r \in open => \A c \in 0 .. Kids(r) - 1 :
              \/ BelowChild(r, c) = Outside
              \/ /\ Shown(BelowChild(r, c))
                 /\ Place(p, BelowChild(r, c)) = Place(p, Child(r, c)) + 1
<1>0. /\ doc \in Seq(Row) /\ Len(doc) \in Nat
      /\ r \in 0 .. Len(doc) - 1 /\ r + 1 \in 0 .. Len(doc) /\ r \in 0 .. Len(doc)
  BY DocumentsAssumption DEF TypeOK, Rows
<1>1. Kids(r) = KidsIn(doc, r) /\ Kids(r) \in Nat
  BY <1>0, KidsInNat DEF Kids, KidsIn
<1>2. p[r] \in Nat /\ p[r + 1] = p[r] + (IF r \in open THEN 1 + Kids(r) ELSE 1)
  BY <1>0, <1>1 DEF Places, Height
<1>3. \/ NavNext(r + 1) = Outside
      \/ /\ Shown(NavNext(r + 1))
         /\ Place(p, NavNext(r + 1)) = p[r + 1] + 1
  <2>1. CASE NavNext(r + 1) = Outside
    BY <2>1
  <2>2. CASE \E s \in visible : NavNext(r + 1) = Item(s) /\ p[s] = p[r + 1]
    <3>1. PICK s \in visible : NavNext(r + 1) = Item(s) /\ p[s] = p[r + 1]
      BY <2>2
    <3>2. Place(p, Item(s)) = p[s] + 1
      BY LinkPlaces
    <3> QED BY <3>1, <3>2 DEF Shown
  <2> QED BY <1>0, <2>1, <2>2, NavNextIs
<1>4. CASE r \in open
  <2>1. HasChildren(r) /\ 0 \in 0 .. Kids(r) - 1
    <3>1. HasChildren(r)
      BY <1>4 DEF TypeOK
    <3> QED BY <1>1, <3>1 DEF HasChildren
  <2>2. Shown(BelowItem(r)) /\ BelowItem(r) = Child(r, 0)
    BY <1>4, <2>1 DEF BelowItem, Shown
  <2>3. Place(p, BelowItem(r)) = Place(p, Item(r)) + 1
    <3>1. Place(p, Child(r, 0)) = p[r] + (2 + 0) /\ Place(p, Item(r)) = p[r] + 1
      BY LinkPlaces
    <3> QED BY <1>2, <2>2, <3>1
  <2>4. ASSUME NEW c \in 0 .. Kids(r) - 1
        PROVE  \/ BelowChild(r, c) = Outside
               \/ /\ Shown(BelowChild(r, c))
                  /\ Place(p, BelowChild(r, c)) = Place(p, Child(r, c)) + 1
    <3>1. Place(p, Child(r, c)) = p[r] + (2 + c)
      BY LinkPlaces
    <3>2. CASE c + 1 < Kids(r)
      <4>1. c + 1 \in 0 .. Kids(r) - 1 /\ BelowChild(r, c) = Child(r, c + 1)
        BY <1>1, <3>2 DEF BelowChild
      <4>2. Place(p, Child(r, c + 1)) = p[r] + (2 + (c + 1))
        BY LinkPlaces
      <4>3. Shown(Child(r, c + 1))
        BY <1>4, <4>1 DEF Shown
      <4> QED BY <1>1, <1>2, <3>1, <4>1, <4>2, <4>3
    <3>3. CASE ~(c + 1 < Kids(r))
      <4>1. c + 1 = Kids(r) /\ BelowChild(r, c) = NavNext(r + 1)
        BY <1>1, <3>3 DEF BelowChild
      <4> QED BY <1>1, <1>2, <1>3, <1>4, <3>1, <4>1
    <3> QED BY <3>2, <3>3
  <2> QED BY <2>2, <2>3, <2>4
<1>5. CASE r \notin open
  <2>1. BelowItem(r) = NavNext(r + 1)
    BY <1>5 DEF BelowItem
  <2>2. Place(p, Item(r)) = p[r] + 1
    BY LinkPlaces
  <2> QED BY <1>2, <1>3, <1>5, <2>1, <2>2
<1> QED BY <1>4, <1>5

\* The link found above a displayed one is the previous in the list, and the search
\* field above the first; unless rows are hidden between and the row found shows its
\* children: then it is that row, or a child that is not displayed.
LEMMA AboveIs ==
  ASSUME TypeOK, NEW p, Places(doc, visible, open, p), NEW r \in visible
  PROVE  /\ \/ AboveItem(r) = Outside /\ Place(p, Item(r)) = 1
            \/ Shown(AboveItem(r)) /\ Place(p, AboveItem(r)) = Place(p, Item(r)) - 1
            \/ /\ r - 1 \notin visible
               /\ AboveItem(r) # Outside
               /\ \E s \in visible \cap open :
                    /\ NavPrev(r - 1) = Item(s)
                    /\ Place(p, Item(r)) = Place(p, Item(s)) + 1 + Kids(s)
                    /\ ~Shown(AboveItem(r)) \/ AboveItem(r) = Item(s)
         /\ r \in open => \A c \in 0 .. Kids(r) - 1 :
              /\ Shown(AboveChild(r, c))
              /\ Place(p, AboveChild(r, c)) = Place(p, Child(r, c)) - 1
<1>0. /\ doc \in Seq(Row) /\ Len(doc) \in Nat
      /\ r \in 0 .. Len(doc) - 1 /\ r \in 0 .. Len(doc)
      /\ \A k \in visible : k \in 0 .. Len(doc) - 1 /\ k \in 0 .. Len(doc)
  BY DocumentsAssumption DEF TypeOK, Rows
<1>1. p[r] \in Nat /\ Place(p, Item(r)) = p[r] + 1
  BY <1>0, LinkPlaces DEF Places
<1>2. ASSUME r \in open, NEW c \in 0 .. Kids(r) - 1
      PROVE  /\ Shown(AboveChild(r, c))
             /\ Place(p, AboveChild(r, c)) = Place(p, Child(r, c)) - 1
  <2>1. Place(p, Child(r, c)) = p[r] + (2 + c) /\ Place(p, Child(r, c - 1)) = p[r] + (2 + (c - 1))
    BY LinkPlaces
  <2>2. Kids(r) \in Nat
    BY <1>0, KidsInNat DEF Kids, KidsIn
  <2>3. CASE c > 0
    <3>1. c - 1 \in 0 .. Kids(r) - 1
      BY <2>2, <2>3
    <3>2. AboveChild(r, c) = Child(r, c - 1)
      BY <2>3 DEF AboveChild
    <3>3. Shown(AboveChild(r, c))
      BY <1>2, <3>1, <3>2 DEF Shown
    <3>4. p[r] + (2 + (c - 1)) = p[r] + (2 + c) - 1
      BY <1>1, <2>2
    <3>5. Place(p, AboveChild(r, c)) = p[r] + (2 + (c - 1))
      BY <2>1, <3>2
    <3>6. Place(p, AboveChild(r, c)) = Place(p, Child(r, c)) - 1
      BY <1>1, <2>1, <2>2, <3>4, <3>5
    <3> QED BY <3>3, <3>6
  <2>4. CASE ~(c > 0)
    <3>1. c = 0 /\ AboveChild(r, c) = Item(r)
      BY <2>2, <2>4 DEF AboveChild
    <3>2. Shown(Item(r))
      BY DEF Shown
    <3> QED BY <1>1, <2>1, <3>1, <3>2
  <2> QED BY <2>3, <2>4
<1>3. CASE NavPrev(r - 1) = Outside /\ p[r] = 0
  <2>1. AboveItem(r) = Outside
    BY <1>3 DEF AboveItem
  <2> QED BY <1>1, <1>2, <1>3, <2>1
<1>4. ASSUME NEW s \in visible, s < r, NavPrev(r - 1) = Item(s),
             s # r - 1 => r - 1 \notin visible, p[r] = p[s + 1]
      PROVE  \/ Shown(AboveItem(r)) /\ Place(p, AboveItem(r)) = Place(p, Item(r)) - 1
             \/ /\ r - 1 \notin visible
                /\ AboveItem(r) # Outside
                /\ \E x \in visible \cap open :
                     /\ NavPrev(r - 1) = Item(x)
                     /\ Place(p, Item(r)) = Place(p, Item(x)) + 1 + Kids(x)
                     /\ ~Shown(AboveItem(r)) \/ AboveItem(r) = Item(x)
  <2>1. s \in 0 .. Len(doc) - 1 /\ s \in 0 .. Len(doc)
    BY <1>0
  <2>2. Item(s) # Outside /\ Item(s)[1] = s
    BY DEF Item, Outside
  <2>3. AboveItem(r) = IF s \in open /\ HasChildren(r - 1)
                       THEN Child(r - 1, Kids(r - 1) - 1) ELSE Item(s)
    BY <1>4, <2>2 DEF AboveItem
  <2>4. Kids(s) \in Nat /\ Kids(s) = KidsIn(doc, s)
    <3>1. Kids(s) = KidsIn(doc, s)
      BY DEF Kids, KidsIn
    <3>2. KidsIn(doc, s) \in Nat
      BY <1>0, <2>1, KidsInNat
    <3> QED BY <3>1, <3>2
  <2>5. /\ p[s] \in Nat /\ p[r] = p[s] + (IF s \in open THEN 1 + Kids(s) ELSE 1)
        /\ Place(p, Item(s)) = p[s] + 1
    BY <1>4, <2>1, <2>4, LinkPlaces DEF Places, Height
  <2>6. s \in open => HasChildren(s)
    BY DEF TypeOK
  <2>7. Shown(Item(s))
    BY DEF Shown
  <2>8. CASE s \notin open
    <3>1. AboveItem(r) = Item(s)
      BY <2>3, <2>8
    <3> QED BY <1>1, <2>5, <2>7, <2>8, <3>1
  <2>9. CASE s \in open /\ s = r - 1
    <3>1. AboveItem(r) = Child(s, Kids(s) - 1) /\ Kids(s) - 1 \in 0 .. Kids(s) - 1
      BY <2>3, <2>4, <2>6, <2>9 DEF HasChildren
    <3>2. Shown(AboveItem(r))
      BY <2>9, <3>1 DEF Shown
    <3>3. Place(p, AboveItem(r)) = p[s] + (2 + (Kids(s) - 1))
      BY <3>1, LinkPlaces
    <3>4. p[s] + (2 + (Kids(s) - 1)) = (p[r] + 1) - 1
      BY <2>4, <2>5, <2>9
    <3> QED BY <1>1, <3>2, <3>3, <3>4
  <2>10. CASE s \in open /\ s # r - 1
    <3>1. r - 1 \notin visible
      BY <1>4, <2>10
    <3>2. Place(p, Item(r)) = Place(p, Item(s)) + 1 + Kids(s)
      BY <1>1, <2>4, <2>5, <2>10
    <3>3. CASE HasChildren(r - 1)
      <4>1. AboveItem(r) = Child(r - 1, Kids(r - 1) - 1)
        BY <2>3, <2>10, <3>3
      <4>2. /\ \A x, c : Child(x, c) # Outside /\ \A y : Child(x, c) # Item(y)
            /\ \A x, c, y, e : Child(x, c) = Child(y, e) => x = y
        <5>1. \A x, c : Len(Child(x, c)) = 2 /\ Child(x, c)[1] = x /\ Len(Item(x)) = 1
          BY DEF Child, Item
        <5>2. Len(Outside) = 0
          BY DEF Outside
        <5> QED BY <5>1, <5>2
      <4>3. AboveItem(r) # Outside /\ ~Shown(AboveItem(r))
        BY <3>1, <4>1, <4>2, Zenon DEF Shown
      <4> QED BY <1>4, <2>10, <3>1, <3>2, <4>3
    <3>4. CASE ~HasChildren(r - 1)
      <4>1. AboveItem(r) = Item(s)
        BY <2>3, <3>4
      <4> QED BY <1>4, <2>2, <2>10, <3>1, <3>2, <4>1
    <3> QED BY <3>3, <3>4
  <2> QED BY <2>8, <2>9, <2>10
<1> QED BY <1>2, <1>3, <1>4, NavPrevIs

LEMMA DocIsRows ==
  ASSUME TypeOK
  PROVE  /\ doc \in Seq(Row) /\ Len(doc) \in Nat
         /\ visible \in SUBSET (0 .. Len(doc) - 1)
BY DocumentsAssumption DEF TypeOK, Rows

\* Where the cursor is while the focus is in the list.
LEMMA CursorIs ==
  ASSUME TypeOK, NEW p, Places(doc, visible, open, p), Shown(focus)
  PROVE  /\ Position = Place(p, focus)
         /\ Position \in 1 .. Len(Entries)
BY DocIsRows, PositionIs, EntriesAre, PositionsAre

\* Moving the focus to a link of the list, or outside.
LEMMA MovedTo ==
  ASSUME TypeOK, NEW p, Places(doc, visible, open, p),
         UNCHANGED <<doc, visible, open>>
  PROVE  /\ Entries' = Entries
         /\ focus' = Outside => Position' = 0
         /\ \A e : focus' = e /\ Shown(e) => /\ Position' = Place(p, e)
                                             /\ Position' \in 1 .. Len(Entries)
<1>1. Entries' = Links(doc, visible, open) /\ Entries = Links(doc, visible, open)
  BY EntriesAre
<1>2. focus' = Outside => Position' = 0
  BY PositionsAre DEF PositionOf
<1>3. ASSUME NEW e, focus' = e, Shown(e)
      PROVE  Position' = Place(p, e) /\ Position' \in 1 .. Len(Entries)
  BY <1>1, <1>3, DocIsRows, PositionIs, EntriesAre, PositionsAre
<1> QED BY <1>1, <1>2, <1>3

\* Showing or hiding the children of a row that is displayed.
LEMMA UnfoldImplements ==
  ASSUME TypeOK, NEW r \in visible, HasChildren(r), focus' = Item(r),
         open' \in {open \cup {r}, open \ {r}}, open' # open, UNCHANGED <<doc, visible>>
  PROVE  Cursor!Unfold
<1> DEFINE links(o) == Links(doc, visible, o)
<1>0. /\ doc \in Seq(Row) /\ visible \in SUBSET (0 .. Len(doc) - 1)
      /\ Entries = links(open) /\ Entries' = links(open')
  BY DocIsRows, EntriesAre
<1>1. PICK p : Places(doc, visible, open, p)
  BY <1>0, PlacesExist
<1>2. PICK q : Places(doc, visible, open', q)
  BY <1>0, PlacesExist
<1>3. \A o : /\ Displayed(doc, visible, o, Item(r))
             /\ Displayed(doc, visible, o, Child(r, 0)) <=> r \in o
  <2> TAKE o
  <2>1. Displayed(doc, visible, o, Item(r))
    BY DEF Displayed
  <2>2. ASSUME Displayed(doc, visible, o, Child(r, 0))
        PROVE  r \in o
    <3>1. \A s, c : Child(r, 0) # Item(s) /\ (Child(r, 0) = Child(s, c) => r = s)
      <4>1. \A s, c : /\ Len(Child(r, 0)) = 2 /\ Len(Item(s)) = 1
                      /\ Child(r, 0)[1] = r /\ Child(s, c)[1] = s
        BY DEF Child, Item
      <4> QED BY <4>1
    <3> QED BY <2>2, <3>1, Zenon DEF Displayed
  <2>3. ASSUME r \in o
        PROVE  Displayed(doc, visible, o, Child(r, 0))
    <3>1. KidsIn(doc, r) \in Nat /\ KidsIn(doc, r) = Kids(r)
      BY <1>0, KidsInNat DEF KidsIn, Kids
    <3>2. 0 \in 0 .. KidsIn(doc, r) - 1
      BY <3>1 DEF HasChildren
    <3> QED BY <2>3, <3>2 DEF Displayed
  <2> QED BY <2>1, <2>2, <2>3
<1>4. links(open) # links(open')
  <2> SUFFICES ASSUME links(open) = links(open')
               PROVE  FALSE
    OBVIOUS
  <2>1. \A e : Displayed(doc, visible, open, e) <=> Displayed(doc, visible, open', e)
    <3>1. \A o, z, e : Places(doc, visible, o, z) =>
            (Displayed(doc, visible, o, e) <=> \E k \in 1 .. Len(links(o)) : links(o)[k] = e)
      BY Zenon DEF Places
    <3> HIDE DEF links
    <3> QED BY <1>1, <1>2, <3>1
  <2>2. r \in open <=> r \in open'
    BY <1>3, <2>1
  <2> QED BY <2>2
<1>5. /\ Position' = Place(q, Item(r))
      /\ Place(q, Item(r)) \in 1 .. Len(links(open'))
      /\ links(open')[Place(q, Item(r))] = Item(r)
  BY <1>0, <1>2, <1>3, PositionIs, PositionsAre
<1>6. /\ Place(p, Item(r)) \in 1 .. Len(links(open))
      /\ links(open)[Place(p, Item(r))] = Item(r)
  BY <1>0, <1>1, <1>3, PositionIs
<1>7. links(open) \in Seq(Seq(Nat)) /\ links(open') \in Seq(Seq(Nat))
  BY <1>0, PlacesExist
<1> HIDE DEF links
<1>8. DOMAIN links(open) = 1 .. Len(links(open)) /\ DOMAIN links(open') = 1 .. Len(links(open'))
  BY <1>7
<1> QED BY <1>0, <1>4, <1>5, <1>6, <1>7, <1>8 DEF Cursor!Unfold

\* Up from the item of row r to that of row s, over the children of s.
LEMMA UpPastChildren ==
  ASSUME TypeOK, NEW p, Places(doc, visible, open, p),
         NEW r \in visible, NEW s \in visible \cap open,
         Place(p, Item(r)) = Place(p, Item(s)) + 1 + Kids(s),
         focus = Item(r), focus' = Item(s), UNCHANGED <<doc, visible, open>>
  PROVE  Cursor!UpPastResults
<1>0. /\ doc \in Seq(Row) /\ visible \in SUBSET (0 .. Len(doc) - 1)
      /\ r \in Nat /\ s \in Nat /\ s \in 0 .. Len(doc) - 1 /\ s \in 0 .. Len(doc)
  BY DocIsRows
<1>1. Kids(s) = KidsIn(doc, s) /\ KidsIn(doc, s) \in Nat /\ p[s] \in Nat
  <2>1. Kids(s) = KidsIn(doc, s)
    BY DEF Kids, KidsIn
  <2> QED BY <1>0, <2>1, KidsInNat DEF Places
<1>2. Shown(Item(r)) /\ Shown(Item(s))
  BY DEF Shown
<1>3. /\ Position = Place(p, Item(r)) /\ Position \in 1 .. Len(Entries)
      /\ Position' = Place(p, Item(s)) /\ Position' \in 1 .. Len(Entries)
      /\ Entries' = Entries
  BY <1>2, CursorIs, MovedTo
<1>4. Entries \in Seq(Seq(Nat)) /\ DOMAIN Entries = 1 .. Len(Entries) /\ Len(Entries) \in Nat
  <2>1. Entries \in Seq(Seq(Nat))
    BY <1>0, EntriesAre, PlacesExist
  <2> QED BY <2>1
<1>5. \A e : Shown(e) => Entries[Place(p, e)] = e
  BY <1>0, EntriesAre, PositionIs
<1>6. Entries[Position] = Item(r) /\ Entries[Position'] = Item(s)
  BY <1>2, <1>3, <1>5
<1>7. Place(p, Item(s)) = p[s] + 1
  BY LinkPlaces
<1>8. ASSUME NEW i \in Position' + 1 .. Position - 1
      PROVE  Len(Entries[i]) = 2
  <2> DEFINE c == i - (p[s] + 2)
  <2>0. i \in p[s] + 2 .. p[s] + 1 + Kids(s) /\ Kids(s) \in Nat /\ p[s] \in Nat
    <3>1. Position' = p[s] + 1 /\ Position = (p[s] + 1) + 1 + Kids(s)
      BY <1>3, <1>7
    <3> QED BY <1>1, <3>1
  <2>1. c \in 0 .. Kids(s) - 1 /\ i = p[s] + (2 + c)
    BY <2>0
  <2> HIDE DEF c
  <2>2. Shown(Child(s, c)) /\ Place(p, Child(s, c)) = i
    BY <2>1, LinkPlaces DEF Shown
  <2>3. Entries[i] = Child(s, c)
    BY <1>5, <2>2
  <2> QED BY <2>3 DEF Child
<1>9. \A x \in Nat : Item(x) \in Seq(Nat) /\ Len(Item(x)) = 1
  BY DEF Item
<1> DEFINE heads == {e \in Seq(Nat) : Len(e) = 1}
<1>10. {Entries[Position], Entries[Position']} \subseteq heads
  BY <1>0, <1>6, <1>9
<1>11. ASSUME NEW i \in Position' + 1 .. Position - 1
       PROVE  Entries[i] \notin heads
  <2>1. Len(Entries[i]) = 2
    BY <1>8
  <2>2. Entries[i] \in heads => Len(Entries[i]) = 1
    OBVIOUS
  <2> HIDE DEF heads
  <2> QED BY <2>1, <2>2
<1>12. Position' \in 1 .. Position - 1
  BY <1>1, <1>3, <1>4
<1> QED BY <1>3, <1>4, <1>10, <1>11, <1>12 DEF Cursor!UpPastResults

LEMMA MoveImplements ==
  ASSUME IInv, InList, NEW key, Move(key),
         UNCHANGED <<doc, query, visible, noMatches>>
  PROVE  /\ [Cursor!Next]_(Cursor!vars)
         /\ key = "Up" => \/ Position' = Position - 1
                          \/ BehindHidden /\ focus' \in {focus, NavPrev(focus[1] - 1)}
<1>0. TypeOK /\ Shown(focus)
  BY DEF IInv, FocusShown, InList
<1>1. PICK p : Places(doc, visible, open, p)
  BY <1>0, DocIsRows, PlacesExist
<1>2. Position = Place(p, focus) /\ Position \in 1 .. Len(Entries) /\ Len(Entries) \in Nat
  <2>1. Entries \in Seq(Seq(Nat))
    BY <1>0, DocIsRows, EntriesAre, PlacesExist
  <2> QED BY <1>0, <1>1, <2>1, CursorIs
<1> DEFINE Goal == /\ [Cursor!Next]_(Cursor!vars)
                   /\ key = "Up" => \/ Position' = Position - 1
                                    \/ BehindHidden /\ focus' \in {focus, NavPrev(focus[1] - 1)}
<1>3. ASSUME key # "Up", UNCHANGED <<focus, open>>
      PROVE  Goal
  BY <1>3, EntriesAre, PositionsAre DEF Cursor!vars
<1>4. ASSUME key # "Up", focus' = Outside, UNCHANGED open
      PROVE  Goal
  BY <1>0, <1>1, <1>4, MovedTo DEF Cursor!Next, Cursor!Leave
<1>5. ASSUME NEW e, GoDown(e), UNCHANGED open, key # "Up",
             e = Outside \/ (Shown(e) /\ Place(p, e) = Place(p, focus) + 1)
      PROVE  Goal
  <2>1. CASE e = Outside
    BY <1>3, <1>5, <2>1 DEF GoDown
  <2>2. CASE e # Outside
    <3>1. Shown(e) /\ focus' = e /\ Place(p, e) = Position + 1
      BY <1>2, <1>5, <2>2 DEF GoDown, Focused
    <3>2. /\ Entries' = Entries /\ Position' = Position + 1
          /\ Position' \in 1 .. Len(Entries)
      BY <1>0, <1>1, <1>5, <3>1, MovedTo
    <3>3. Position \in 1 .. Len(Entries) - 1
      BY <1>2, <3>2
    <3> QED BY <1>5, <3>2, <3>3 DEF Cursor!Next, Cursor!Down
  <2> QED BY <2>1, <2>2
<1>6. ASSUME NEW e, GoUp(e), UNCHANGED open,
             \/ e = Outside /\ Place(p, focus) = 1
             \/ Shown(e) /\ Place(p, e) = Place(p, focus) - 1
      PROVE  Goal
  <2>1. focus' = e
    BY <1>6 DEF GoUp, Focused
  <2>2. Entries' = Entries /\ Position' = Position - 1
    <3>1. CASE e = Outside /\ Place(p, focus) = 1
      BY <1>0, <1>1, <1>2, <1>6, <2>1, <3>1, MovedTo
    <3>2. CASE Shown(e) /\ Place(p, e) = Place(p, focus) - 1
      BY <1>0, <1>1, <1>2, <1>6, <2>1, <3>2, MovedTo
    <3> QED BY <1>6, <3>1, <3>2
  <2> QED BY <1>2, <2>2 DEF Cursor!Next, Cursor!Up
<1>7. ASSUME NEW r \in visible, focus = Item(r), NavItem(key, r)
      PROVE  Goal
  <2>1. CASE key = "Up"
    <3>1. GoUp(AboveItem(r)) /\ UNCHANGED open
      BY <1>7, <2>1 DEF NavItem
    <3>2. CASE AboveItem(r) = Outside /\ Place(p, Item(r)) = 1
      BY <1>6, <1>7, <3>1, <3>2
    <3>3. CASE Shown(AboveItem(r)) /\ Place(p, AboveItem(r)) = Place(p, Item(r)) - 1
      BY <1>6, <1>7, <3>1, <3>3
    <3>4. ASSUME r - 1 \notin visible, AboveItem(r) # Outside, NEW s \in visible \cap open,
                 NavPrev(r - 1) = Item(s),
                 Place(p, Item(r)) = Place(p, Item(s)) + 1 + Kids(s),
                 ~Shown(AboveItem(r)) \/ AboveItem(r) = Item(s)
          PROVE  Goal
      <4>1. Len(focus) = 1 /\ focus[1] = r
        BY <1>7 DEF Item
      <4>2. BehindHidden
        BY <3>4, <4>1 DEF BehindHidden
      <4>3. CASE ~Shown(AboveItem(r))
        <5>1. UNCHANGED <<focus, open>>
          BY <3>1, <3>4, <4>3 DEF GoUp, Focused
        <5>2. UNCHANGED Cursor!vars
          BY <5>1, EntriesAre, PositionsAre DEF Cursor!vars
        <5> QED BY <4>2, <5>1, <5>2
      <4>4. CASE AboveItem(r) = Item(s)
        <5>1. Shown(Item(s)) /\ focus' = Item(s) /\ UNCHANGED open
          BY <3>1, <4>4 DEF Shown, GoUp, Focused
        <5>2. Cursor!UpPastResults
          BY <1>0, <1>1, <1>7, <3>4, <5>1, UpPastChildren
        <5> QED BY <3>4, <4>1, <4>2, <5>1, <5>2 DEF Cursor!Next
      <4> QED BY <3>4, <4>3, <4>4
    <3> HIDE DEF Goal
    <3> QED BY <1>0, <1>1, <3>2, <3>3, <3>4, AboveIs
  <2>2. CASE key = "Down"
    <3>1. GoDown(BelowItem(r)) /\ UNCHANGED open
      BY <1>7, <2>2 DEF NavItem
    <3> QED BY <1>0, <1>1, <1>5, <1>7, <2>2, <3>1, BelowIs
  <2>3. CASE key \in {"Right", "Left"}
    <3>1. focus' = focus /\ open' \in {open, open \cup {r}, open \ {r}}
      BY <1>7, <2>3 DEF NavItem
    <3>2. CASE open' = open
      BY <1>3, <2>3, <3>1, <3>2
    <3>3. CASE open' # open
      <4>1. HasChildren(r)
        BY <1>0, <1>7, <2>3, <3>3 DEF NavItem, TypeOK
      <4>2. Cursor!Unfold
        BY <1>0, <1>7, <3>1, <3>3, <4>1, UnfoldImplements
      <4> QED BY <2>3, <4>2 DEF Cursor!Next
    <3> QED BY <3>2, <3>3
  <2>4. CASE key = "Escape"
    <3>1. focus' = Outside /\ UNCHANGED open
      BY <1>7, <2>4 DEF NavItem
    <3> QED BY <1>4, <2>4, <3>1
  <2>5. CASE key \notin {"Up", "Down", "Right", "Left", "Escape"}
    <3>1. UNCHANGED <<focus, open>>
      BY <1>7, <2>5 DEF NavItem
    <3> QED BY <1>3, <2>5, <3>1
  <2> QED BY <2>1, <2>2, <2>3, <2>4, <2>5
<1>8. ASSUME NEW r \in visible \cap open, NEW c \in 0 .. Kids(r) - 1,
             focus = Child(r, c), NavChild(key, r, c)
      PROVE  Goal
  <2>1. CASE key = "Up"
    <3>1. GoUp(AboveChild(r, c)) /\ UNCHANGED open
      BY <1>8, <2>1 DEF NavChild
    <3> QED BY <1>0, <1>1, <1>6, <1>8, <3>1, AboveIs
  <2>2. CASE key = "Down"
    <3>1. GoDown(BelowChild(r, c)) /\ UNCHANGED open
      BY <1>8, <2>2 DEF NavChild
    <3> QED BY <1>0, <1>1, <1>5, <1>8, <2>2, <3>1, BelowIs
  <2>3. CASE key = "Escape"
    <3>1. focus' = Outside /\ UNCHANGED open
      BY <1>8, <2>3 DEF NavChild
    <3> QED BY <1>4, <2>3, <3>1
  <2>4. CASE key \notin {"Up", "Down", "Escape"}
    <3>1. UNCHANGED <<focus, open>>
      BY <1>8, <2>4 DEF NavChild
    <3> QED BY <1>3, <2>4, <3>1
  <2> QED BY <2>1, <2>2, <2>3, <2>4
<1>9. CASE \E r \in visible : focus = Item(r)
  <2>1. PICK r \in visible : focus = Item(r)
    BY <1>9
  <2>2. NavItem(key, r)
    <3>1. Len(focus) = 1 /\ focus[1] = r
      BY <2>1 DEF Item
    <3> QED BY <3>1 DEF Move
  <2> QED BY <1>7, <2>1, <2>2
<1>10. CASE \E r \in visible \cap open : \E c \in 0 .. Kids(r) - 1 : focus = Child(r, c)
  <2>0. PICK r \in visible \cap open : \E c \in 0 .. Kids(r) - 1 : focus = Child(r, c)
    BY <1>10
  <2>1. PICK c \in 0 .. Kids(r) - 1 : focus = Child(r, c)
    BY <2>0
  <2>2. NavChild(key, r, c)
    <3>1. Len(focus) = 2 /\ focus[1] = r /\ focus[2] = c
      BY <2>1 DEF Child
    <3> QED BY <3>1 DEF Move
  <2> QED BY <1>8, <2>1, <2>2
<1> QED BY <1>0, <1>9, <1>10 DEF Shown

\* A click on the link of a row, or Enter on it.
LEMMA ToggleImplements ==
  ASSUME TypeOK, NEW r \in visible, HasChildren(r), open' = Toggled(r), focus' = Item(r),
         UNCHANGED <<doc, visible>>
  PROVE  Cursor!Next
<1>1. open' \in {open \cup {r}, open \ {r}} /\ open' # open
  BY DEF Toggled
<1> QED BY <1>1, UnfoldImplements DEF Cursor!Next

LEMMA CursorInit ==
  ASSUME Init
  PROVE  Cursor!Init
<1>1. TypeOK
  BY InitIInv DEF IInv
<1>2. Entries \in Seq(Seq(Nat))
  BY <1>1, DocIsRows, EntriesAre, PlacesExist
<1>3. Position = 0
  BY PositionsAre DEF Init, PositionOf
<1>4. Len(Entries) \in Nat
  BY <1>2
<1> QED BY <1>2, <1>3, <1>4 DEF Cursor!Init, Cursor!TypeOK

LEMMA CursorStep ==
  ASSUME IInv, [Next]_vars
  PROVE  [Cursor!Next]_(Cursor!vars)
<1>0. TypeOK /\ FocusShown
  BY DEF IInv
<1>1. CASE Load
  <2>1. PICK d \in Documents, q \in Queries : Loaded(d, q)
    BY <1>1 DEF Load
  <2>2. doc' \in Seq(Row) /\ visible' \in SUBSET (0 .. Len(doc') - 1)
    BY <2>1, DocumentsAssumption DEF Loaded, Matching
  <2>3. Entries' \in Seq(Seq(Nat))
    BY <2>2, EntriesAre, PlacesExist
  <2>4. Position' = 0
    BY <2>1, PositionsAre DEF Loaded, PositionOf
  <2> QED BY <2>3, <2>4 DEF Cursor!Next, Cursor!Load
<1>2. ASSUME NEW k \in Keys, KeyDown(k)
      PROVE  [Cursor!Next]_(Cursor!vars)
  BY <1>2, MoveImplements DEF KeyDown
<1>3. CASE RepeatKeyPress
  BY <1>3, MoveImplements DEF RepeatKeyPress
<1>4. CASE Enter
  <2>1. Len(focus) = 1 /\ HasChildren(focus[1])
    BY <1>4 DEF Enter
  <2>2. focus # Outside
    BY <2>1, LinkShapes
  <2>3. focus[1] \in visible /\ focus = Item(focus[1])
    BY <1>0, <2>1, <2>2, ShownLink DEF FocusShown
  <2> QED BY <1>0, <1>4, <2>1, <2>3, ToggleImplements DEF Enter
<1>5. ASSUME NEW r \in Rows, Click(r)
      PROVE  [Cursor!Next]_(Cursor!vars)
  BY <1>0, <1>5, ToggleImplements DEF Click
<1>6. CASE UNCHANGED <<doc, visible, open, focus>>
  BY <1>6, EntriesAre, PositionsAre DEF Cursor!vars
<1>7. CASE EnterList
  <2>1. PICK p : Places(doc, visible, open, p)
    BY <1>0, DocIsRows, PlacesExist
  <2>2. Position = 0 /\ UNCHANGED <<doc, visible, open>> /\ GoDown(NavNext(0)) /\ focus = Outside
    BY <1>7, PositionsAre DEF EnterList, PositionOf
  <2>3. CASE NavNext(0) = Outside
    BY <1>6, <2>2, <2>3 DEF GoDown
  <2>4. ASSUME NEW s \in visible, NavNext(0) = Item(s), p[s] = p[0]
        PROVE  [Cursor!Next]_(Cursor!vars)
    <3>1. Shown(Item(s)) /\ Item(s) # Outside
      BY DEF Shown, Item, Outside
    <3>2. focus' = Item(s)
      BY <2>2, <2>4, <3>1 DEF GoDown, Focused
    <3>3. Place(p, Item(s)) = 1
      <4>1. p[0] = 0
        BY <2>1 DEF Places
      <4>2. Place(p, Item(s)) = p[s] + 1
        BY LinkPlaces
      <4> QED BY <2>4, <4>1, <4>2
    <3>4. /\ Entries' = Entries /\ Position' = 1
          /\ 1 \in 1 .. Len(Entries)
      BY <1>0, <2>1, <2>2, <3>1, <3>2, <3>3, MovedTo
    <3>5. Entries # << >>
      BY <3>4
    <3> QED BY <2>2, <3>4, <3>5 DEF Cursor!Next, Cursor!EnterList
  <2>5. 0 \in 0 .. Len(doc)
    BY <1>0, DocIsRows
  <2> QED BY <1>0, <2>1, <2>3, <2>4, <2>5, NavNextIs
<1>8. CASE IgnoreKeyPress \/ KeyUp
  BY <1>6, <1>8 DEF IgnoreKeyPress, KeyUp
<1>9. CASE UNCHANGED vars
  BY <1>6, <1>9 DEF vars
<1> QED BY <1>1, <1>2, <1>3, <1>4, <1>5, <1>7, <1>8, <1>9 DEF Next

\* For all documents, in alphabetical order or not, and all texts: keys and clicks move a
\* cursor in the list of the links displayed, whatever rows are open; Up never leads down
\* or past the link of a row (search.js 471-735).
THEOREM MovesAsCursor == Spec => ImplementsCursor
<1>1. Init => Cursor!Init
  BY CursorInit
<1>2. IInv /\ [Next]_vars => [Cursor!Next]_(Cursor!vars)
  BY CursorStep
<1> QED BY <1>1, <1>2, Invariant, PTL DEF Spec, ImplementsCursor, Cursor!Spec

\* For all documents and texts: pressing Up in the list moves the focus to the link just
\* above, or from the first one to the search field, unless rows are hidden between the
\* two and the children of the row above are shown; then the focus stays or passes over
\* these children (search.js 612-648, 696-707).
THEOREM WhereUpMoves == Spec => UpMovesUp
<1> DEFINE UpMoves == lastKey # "Up" /\ lastKey' = "Up" =>
                        \/ Position' = Position - 1
                        \/ BehindHidden /\ focus' \in {focus, NavPrev(focus[1] - 1)}
<1>1. ASSUME IInv, [Next]_vars
      PROVE  [UpMoves]_vars
  <2> SUFFICES ASSUME lastKey # "Up", lastKey' = "Up"
               PROVE  \/ Position' = Position - 1
                      \/ BehindHidden /\ focus' \in {focus, NavPrev(focus[1] - 1)}
    OBVIOUS
  <2>1. CASE \E k \in Keys : KeyDown(k)
    BY <1>1, <2>1, MoveImplements DEF KeyDown
  <2>2. CASE Load
    BY <2>2 DEF Load, Loaded, NoKey
  <2>3. CASE KeyUp
    BY <2>3 DEF KeyUp, NoKey
  <2>4. CASE UNCHANGED lastKey
    BY <2>4
  <2>5. CASE Enter \/ IgnoreKeyPress \/ RepeatKeyPress \/ EnterList
    BY <2>4, <2>5 DEF Enter, IgnoreKeyPress, RepeatKeyPress, EnterList
  <2>6. ASSUME NEW r \in Rows, Click(r)
        PROVE  UNCHANGED lastKey
    BY <2>6 DEF Click
  <2>7. CASE UNCHANGED vars
    BY <2>4, <2>7 DEF vars
  <2> QED BY <1>1, <2>1, <2>2, <2>3, <2>4, <2>5, <2>6, <2>7 DEF Next
<1> QED BY <1>1, Invariant, PTL DEF Spec, UpMovesUp
=============================================================================
