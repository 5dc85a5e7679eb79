---------------------------- MODULE SearchResults ----------------------------
(***************************************************************************)
(* The results window of the documentation's search: the document that     *)
(* docs/html/search/search.js builds inside the frame MSearchResults, which *)
(* rows it shows for the text searched for, and how keys and clicks move    *)
(* the focus in them.                                                       *)
(*                                                                          *)
(* Texts are sequences of character codes, because the rows are found by    *)
(* comparing encoded texts (convertToId).                                   *)
(***************************************************************************)
EXTENDS Integers, Sequences, FiniteSets, SequencesExt

CONSTANTS
  Documents, \* the search data: each one is a sequence of rows
  Queries    \* texts searched for

\* A row of searchData: the id that Doxygen gave it, the name it shows, and how
\* many places it refers to.
Row == [id : Seq(Nat), name : Seq(Nat), results : Nat \ {0}]

ASSUME DocumentsAssumption == Documents \subseteq Seq(Row)
ASSUME QueriesAssumption == Queries \subseteq Seq(Nat)

Space == 32
Underscore == 95

VARIABLES
  doc,       \* searchData of the document in the frame
  query,     \* the text in its URL
  visible,   \* the rows displayed
  noMatches, \* "No Matches" is displayed
  open,      \* the rows whose children are displayed
  focus,     \* the link that has the focus, or Outside
  lastKey, repeatOn

vars == <<doc, query, visible, noMatches, open, focus, lastKey, repeatOn>>

Rows == 0 .. Len(doc) - 1

\* A row that refers to one place is a link to it; one that refers to several
\* has a child for each.
Kids(r) == IF doc[r + 1].results = 1 THEN 0 ELSE doc[r + 1].results

\* FindChildElement(id) finds an element.
HasChildren(r) == Kids(r) > 0

Item(r) == <<r>>
Child(r, c) == <<r, c>>
Outside == << >>

Shown(e) ==
  \/ \E r \in visible : e = Item(r)
  \/ \E r \in visible \cap open : \E c \in 0 .. Kids(r) - 1 : e = Child(r, c)

\* focus() on an element that is not displayed does nothing.
Focused(e) == IF e = Outside \/ Shown(e) THEN e ELSE focus

NoKey == "none"
Keys == {"Up", "Down", "Left", "Right", "Escape", "Enter", "other"}

-----------------------------------------------------------------------------
(* The search: which rows match.                                            *)

Lower(s) == [i \in DOMAIN s |-> IF s[i] \in 65 .. 90 THEN s[i] + 32 ELSE s[i]]

\* Without leading and trailing spaces.
Trim(s) ==
  LET Ink == {i \in DOMAIN s : s[i] # Space}
  IN IF Ink = {} THEN << >>
     ELSE SubSeq(s, CHOOSE i \in Ink : \A j \in Ink : i <= j,
                    CHOOSE i \in Ink : \A j \in Ink : j <= i)

HexDigit(d) == IF d < 10 THEN 48 + d ELSE 87 + d

Literal(c) == c \in 97 .. 122 \/ c \in 48 .. 57 \/ c >= 128

EncodeChar(c) ==
  IF Literal(c) THEN <<c>>
  ELSE <<Underscore, HexDigit(c \div 16), HexDigit(c % 16)>>

convertToId(s) == FlattenSeq([i \in DOMAIN s |-> EncodeChar(s[i])])

MatchingSimple(d, q) ==  \* mutant: underscores of the text are not encoded
  LET text == Lower(Trim(q))
      Code(c) == IF c = Underscore THEN <<c>> ELSE EncodeChar(c)
  IN {r \in 0 .. Len(d) - 1 :
        IsPrefix(FlattenSeq([i \in DOMAIN text |-> Code(text[i])]), Lower(d[r + 1].id))}

Matching(d, q) ==
  {r \in 0 .. Len(d) - 1 :
     IsPrefix(convertToId(Lower(Trim(q))), Lower(d[r + 1].id))}

\* The document as the page's scripts leave it: createResults, then
\* searchResults.Search.
Loaded(d, q) ==
  /\ doc' = d
  /\ query' = q
  /\ visible' = Matching(d, q)
  /\ noMatches' = (Matching(d, q) = {})
  /\ open' = {}
  /\ focus' = Outside
  /\ lastKey' = NoKey
  /\ repeatOn' = FALSE

Init ==
  /\ doc \in Documents
  /\ query \in Queries
  /\ visible = Matching(doc, query)
  /\ noMatches = (Matching(doc, query) = {})
  /\ open = {}
  /\ focus = Outside
  /\ lastKey = NoKey
  /\ repeatOn = FALSE

\* SearchBox.Search sets the location of the frame.
Load == \E d \in Documents, q \in Queries : Loaded(d, q)

-----------------------------------------------------------------------------
(* Moving the focus.                                                        *)

\* The first displayed item at i or below it, the last one at i or above it.
Following(i) == {r \in visible : r >= i}
NavNext(i) ==
  IF Following(i) = {} THEN Outside
  ELSE Item(CHOOSE r \in Following(i) : \A s \in Following(i) : r <= s)

Preceding(i) == {r \in visible : r <= i}
NavPrev(i) ==
  IF Preceding(i) = {} THEN Outside
  ELSE Item(CHOOSE r \in Preceding(i) : \A s \in Preceding(i) : s <= r)

AboveFirst(r) ==  \* mutant: the search for the last child ends at the first
  LET found == NavPrev(r - 1)
  IN IF found # Outside /\ found[1] \in open /\ HasChildren(r - 1)
     THEN Child(r - 1, 0)
     ELSE found

\* The link above item r. The row found is asked whether its children are
\* displayed, the row just above r which of them is the last.
AboveItem(r) ==
  LET found == NavPrev(r - 1)
  IN IF found # Outside /\ found[1] \in open /\ HasChildren(r - 1)
     THEN Child(r - 1, Kids(r - 1) - 1)
     ELSE found

\* The link below item r, below its last child; Outside if there is none.
BelowItem(r) ==
  IF r \in open THEN Child(r, 0) ELSE NavNext(r + 1)

AboveChild(r, c) == IF c > 0 THEN Child(r, c - 1) ELSE Item(r)

BelowRow(r, c) ==  \* mutant: NavNext of the row itself
  IF c + 1 < Kids(r) THEN Child(r, c + 1) ELSE NavNext(r)

BelowChild(r, c) ==
  IF c + 1 < Kids(r) THEN Child(r, c + 1) ELSE NavNext(r + 1)

\* Down at the last link does nothing; Up at the first returns to the field.
GoDown(target) == focus' = IF target = Outside THEN focus ELSE Focused(target)
GoUp(target) == focus' = Focused(target)

NavItemAny(key, r) ==  \* mutant: Right does not look for children
  CASE key = "Up"     -> GoUp(AboveItem(r)) /\ UNCHANGED open
    [] key = "Down"   -> GoDown(BelowItem(r)) /\ UNCHANGED open
    [] key = "Right"  -> open' = open \cup {r} /\ UNCHANGED focus
    [] key = "Left"   -> open' = open \ {r} /\ UNCHANGED focus
    [] key = "Escape" -> focus' = Outside /\ UNCHANGED open
    [] OTHER          -> UNCHANGED <<focus, open>>

NavChildLeft(key, r, c) ==  \* mutant: Left closes the row of a child
  CASE key = "Up"     -> GoUp(AboveChild(r, c)) /\ UNCHANGED open
    [] key = "Down"   -> GoDown(BelowChild(r, c)) /\ UNCHANGED open
    [] key = "Left"   -> open' = open \ {r} /\ UNCHANGED focus
    [] key = "Escape" -> focus' = Outside /\ UNCHANGED open
    [] OTHER          -> UNCHANGED <<focus, open>>

\* Nav and NavChild once they know the key.
NavItem(key, r) ==
  CASE key = "Up"     -> GoUp(AboveItem(r)) /\ UNCHANGED open
    [] key = "Down"   -> GoDown(BelowItem(r)) /\ UNCHANGED open
    [] key = "Right"  -> /\ open' = IF HasChildren(r) THEN open \cup {r} ELSE open
                         /\ UNCHANGED focus
    [] key = "Left"   -> open' = open \ {r} /\ UNCHANGED focus
    [] key = "Escape" -> focus' = Outside /\ UNCHANGED open
    [] OTHER          -> UNCHANGED <<focus, open>>

NavChild(key, r, c) ==
  CASE key = "Up"     -> GoUp(AboveChild(r, c)) /\ UNCHANGED open
    [] key = "Down"   -> GoDown(BelowChild(r, c)) /\ UNCHANGED open
    [] key = "Escape" -> focus' = Outside /\ UNCHANGED open
    [] OTHER          -> UNCHANGED <<focus, open>>

Move(key) ==
  IF Len(focus) = 1 THEN NavItem(key, focus[1])
                    ELSE NavChild(key, focus[1], focus[2])

-----------------------------------------------------------------------------
(* Events. A link's handlers run while it has the focus.                    *)

InList == focus # Outside

\* Toggle(id)
Toggled(r) == IF r \in open THEN open \ {r} ELSE open \cup {r}

\* Enter is left to the browser, which follows the link: that of a row with
\* several results toggles its children.
KeyDown(k) ==
  /\ InList
  /\ k # "Enter"
  /\ lastKey' = k
  /\ repeatOn' = FALSE
  /\ Move(k)
  /\ UNCHANGED <<doc, query, visible, noMatches>>

Enter ==
  /\ Len(focus) = 1
  /\ HasChildren(focus[1])
  /\ open' = Toggled(focus[1])
  /\ UNCHANGED <<doc, query, visible, noMatches, focus, lastKey, repeatOn>>

\* The first keypress after a keydown is ignored; the others repeat the key.
IgnoreKeyPress ==
  /\ InList
  /\ ~repeatOn
  /\ repeatOn' = (lastKey # NoKey)
  /\ UNCHANGED <<doc, query, visible, noMatches, open, focus, lastKey>>

RepeatKeyPress ==
  /\ InList
  /\ repeatOn
  /\ Move(lastKey)
  /\ UNCHANGED <<doc, query, visible, noMatches, lastKey, repeatOn>>

KeyUp ==
  /\ InList
  /\ lastKey' = NoKey
  /\ repeatOn' = FALSE
  /\ UNCHANGED <<doc, query, visible, noMatches, open, focus>>

\* A click on the link of a row with several results.
Click(r) ==
  /\ r \in visible
  /\ HasChildren(r)
  /\ focus' = Item(r)
  /\ open' = Toggled(r)
  /\ UNCHANGED <<doc, query, visible, noMatches, lastKey, repeatOn>>

\* Down or Enter in the search field: SearchBox.OnSearchFieldChange.
EnterList ==
  /\ focus = Outside
  /\ GoDown(NavNext(0))
  /\ UNCHANGED <<doc, query, visible, noMatches, open, lastKey, repeatOn>>

Next ==
  \/ Load
  \/ \E k \in Keys : KeyDown(k)
  \/ Enter
  \/ IgnoreKeyPress
  \/ RepeatKeyPress
  \/ KeyUp
  \/ \E r \in Rows : Click(r)
  \/ EnterList

Spec == Init /\ [][Next]_vars

-----------------------------------------------------------------------------
(* Properties                                                               *)

\* The focus is on a link of an existing row, or outside; only rows with
\* children are open (search.js 425-736).
TypeOK ==
  /\ doc \in Documents
  /\ query \in Queries
  /\ visible \subseteq Rows
  /\ noMatches \in BOOLEAN
  /\ open \subseteq {r \in Rows : HasChildren(r)}
  /\ focus \in {Outside} \cup {Item(r) : r \in Rows}
                 \cup UNION {{Child(r, c) : c \in 0 .. Kids(r) - 1} : r \in Rows}
  /\ lastKey \in (Keys \ {"Enter"}) \cup {NoKey}
  /\ repeatOn \in BOOLEAN

\* The number that ends the id of a row, and whether the text w is the name of the
\* row followed by characters whose code is how this number goes on.
Number(row) == SubSeq(Lower(row.id), Len(convertToId(Lower(row.name))) + 2, Len(row.id))

ReadsNumber(w, row) ==
  LET name == Lower(row.name)
      rest == SubSeq(w, Len(name) + 1, Len(w))
  IN  IsPrefix(name, w) /\ IsPrefix(convertToId(rest), <<Underscore>> \o Number(row))

\* Comparing encoded texts finds what comparing the texts would: a row is
\* displayed if its name starts with the text searched for, whatever its case and
\* the spaces around it, and "No Matches" if and only if there is no row. One kind
\* of row is displayed besides, and this property says that it is the only one: the
\* comparison does not stop where the name ends in the id, so that a text may go on
\* from the name into the number behind it. "cmd_del&" finds cmd_5fdel_26, as & has
\* the code _26 (Search, search.js 489-535; convertToId, 24-45).
RowsMatch ==
  LET text == Lower(Trim(query))
  IN /\ visible = {r \in Rows : \/ IsPrefix(text, Lower(doc[r + 1].name))
                                \/ ReadsNumber(text, doc[r + 1])}
     /\ noMatches <=> visible = {}

\* No sequence of keys and clicks leaves the focus on a link that is not
\* displayed, from which the user would not see where the next key goes
\* (Nav, NavChild, Toggle, search.js 471-735).
FocusShown == focus # Outside => Shown(focus)

\* The links displayed, from top to bottom.
Entries ==
  FlattenSeq([i \in DOMAIN doc |->
    IF i - 1 \notin visible THEN << >>
    ELSE <<Item(i - 1)>> \o
           (IF i - 1 \in open
            THEN [c \in 1 .. Kids(i - 1) |-> Child(i - 1, c - 1)] ELSE << >>)])

Position ==
  IF focus = Outside THEN 0 ELSE CHOOSE i \in DOMAIN Entries : Entries[i] = focus

\* The focus is on the link of a row that follows a hidden one, and the next row
\* displayed above shows its children.
BehindHidden ==
  /\ Len(focus) = 1
  /\ focus[1] - 1 \notin visible
  /\ \E r \in visible \cap open : NavPrev(focus[1] - 1) = Item(r)

\* Pressing Up in the list moves the focus to the link displayed just above, and
\* from the first one to the search field, however rows were opened and closed
\* before. The code fails to in one situation, and this property says that it is the
\* only one: between the row and the one displayed above it, whose children are
\* shown, rows are hidden. The focus then stays where it is or passes over the
\* children to their row (Nav, search.js 612-648; NavChild, 696-707).
UpMovesUp ==
  [][lastKey # "Up" /\ lastKey' = "Up" =>
       \/ Position' = Position - 1
       \/ BehindHidden /\ focus' \in {focus, NavPrev(focus[1] - 1)}]_vars

\* Keys and clicks move a cursor in the list of the links displayed, in the order of
\* the page or not: Down goes to the next link and nowhere from the last, Up never
\* leads down nor past the link of a row, opening and closing a row keeps its link
\* the focused one.
Cursor ==
  INSTANCE ResultCursor WITH
    Entry <- Seq(Nat),
    Heads <- {e \in Seq(Nat) : Len(e) = 1},
    entries <- Entries,
    at <- Position

ImplementsCursor == Cursor!Spec
=============================================================================
