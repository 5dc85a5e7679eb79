--------------------------- MODULE SearchBoxProofs ---------------------------
(***************************************************************************)
(* What TLAPS proves of SearchBox, for all texts, filters and timers: the  *)
(* types, and that the panel's flags, windows and timers agree.            *)
(***************************************************************************)
EXTENDS SearchBox, TLAPS

\* The field has the focus only after it was activated.
FieldIsActive == focus = "field" => searchActive

\* TypedIsSearched also for a text that stays in the field when it is left.
TypedInv ==
  /\ ~unread /\ ~cancelled
  /\ Compact[value] # Empty
  /\ focus = "field" \/ value # Label
  /\ searchIndex \in Sections
  => \/ keyTimeout \in keyTimers
     \/ results /\ Compact[lastSearchValue] = Compact[value]

\* The inductive invariant.
IInv ==
  /\ TypeOK
  /\ ClosedIsReset
  /\ TextIsActive
  /\ FieldIsActive
  /\ RemembersLiveTimer
  /\ KeptUnderMouse
  /\ TypedInv

-----------------------------------------------------------------------------

LEMMA FirstSection == 0 \in Sections /\ Sections \subseteq 0 .. Count
BY SectionAssumption DEF Sections

LEMMA InitIInv == Init => IInv
BY FirstSection, TextAssumption, SectionAssumption, TimerAssumption
   DEF Init, IInv, TypeOK, ClosedIsReset, TextIsActive, FieldIsActive,
       RemembersLiveTimer, KeptUnderMouse, TypedInv

(* What the shared actions of the object keep, each for the variables it     *)
(* sets.                                                                     *)

LEMMA ActivateTypes ==
  ASSUME TypeOK, NEW a \in BOOLEAN, NEW s \in BOOLEAN, Activate(a, s)
  PROVE  /\ value' \in Text /\ boxActive' \in BOOLEAN /\ searchActive' \in BOOLEAN
         /\ lastSearchValue' \in Text
BY TextAssumption DEF TypeOK, Activate

LEMMA SearchTypes ==
  ASSUME TypeOK, NEW i \in 0 .. Count, Search(i)
  PROVE  /\ keyTimeout' = None
         /\ results' \in BOOLEAN /\ close' \in BOOLEAN /\ {unread', cancelled'} \subseteq BOOLEAN
         /\ lastSearchValue' \in Text
         /\ location' \in Pages \cup {None}
<1>1. CASE i \notin Sections
  BY <1>1 DEF TypeOK, Search, windowVars, typedVars
<1>2. CASE i \in Sections
  <2>1. /\ keyTimeout' = None
        /\ results' = TRUE
        /\ close' = (close \/ ~results)
        /\ lastSearchValue' = Trim[value]
        /\ unread' = FALSE /\ cancelled' = FALSE
    BY <1>2 DEF Search
  <2>2. location' = IF Trim[value] = Empty \/ Trim[value] \in Indexed[i]
                    THEN Page(i, Trim[value]) ELSE NoMatches
    BY <1>2 DEF Search
  <2>3. Trim[value] \in Text
    BY TextAssumption DEF TypeOK
  <2>4. Page(i, Trim[value]) \in Pages /\ NoMatches \in Pages
    BY <1>2, <2>3 DEF Pages
  <2>5. location' \in Pages
    BY <2>2, <2>4
  <2>6. (close \/ ~results) \in BOOLEAN
    OBVIOUS
  <2> QED BY <2>1, <2>3, <2>5, <2>6
<1> QED BY <1>1, <1>2

LEMMA SelectItemTypes ==
  ASSUME TypeOK, NEW i \in 0 .. Count, SelectItem(i)
  PROVE  /\ searchIndex' \in 0 .. Count
         /\ marked' \in Sections \cup {None}
         /\ keyTimeout' \in Timers \cup {None} /\ keyTimers' \subseteq Timers
         /\ results' \in BOOLEAN /\ close' \in BOOLEAN /\ {unread', cancelled'} \subseteq BOOLEAN
         /\ lastSearchValue' \in Text
         /\ location' \in Pages \cup {None}
BY SearchTypes DEF TypeOK, SelectItem, windowVars, typedVars

LEMMA CompareTypes ==
  ASSUME TypeOK, NEW v \in Text, Compare(v)
  PROVE  /\ {unread', cancelled'} \subseteq BOOLEAN
         /\ keyTimeout' \in Timers \cup {None} /\ keyTimers' \subseteq Timers
         /\ results' \in BOOLEAN /\ close' \in BOOLEAN
         /\ lastSearchValue' \in Text
<1>1. CASE Compact[v] = lastSearchValue
  BY <1>1 DEF TypeOK, Compare, windowVars
<1>2. CASE Compact[v] # lastSearchValue /\ Compact[v] # Empty
  <2>1. /\ unread' = FALSE /\ cancelled' = FALSE
        /\ keyTimeout' \in Fresh
        /\ keyTimers' = (keyTimers \ {keyTimeout}) \cup {keyTimeout'}
        /\ UNCHANGED <<results, close, lastSearchValue>>
    BY <1>2 DEF Compare, windowVars
  <2>2. keyTimeout' \in Timers
    BY <2>1 DEF Fresh
  <2>3. keyTimers' \subseteq Timers
    BY <2>1, <2>2 DEF TypeOK
  <2> QED BY <2>1, <2>2, <2>3 DEF TypeOK
<1>3. CASE Compact[v] # lastSearchValue /\ Compact[v] = Empty
  BY <1>3, TextAssumption DEF TypeOK, Compare, HideResults
<1> QED BY <1>1, <1>2, <1>3

LEMMA StepTypeOK ==
  ASSUME TypeOK, [Next]_vars
  PROVE  TypeOK'
<1>a. Elsewhere \subseteq {"page", "select", "results"}
  BY DEF Elsewhere
<1> USE DEF windowVars, filterVars, keyVars, selectVars, fieldVars, typedVars
<1>1. CASE FocusField \/ BlurField
  BY <1>1, <1>a, ActivateTypes DEF TypeOK, FocusField, BlurField
<1>2. CASE MoveFocus
  BY <1>2, <1>a DEF TypeOK, MoveFocus
<1>3. ASSUME NEW t \in Text, Edit(t)
      PROVE  TypeOK'
  BY <1>3 DEF TypeOK, Edit
<1>4. CASE KeyUp
  BY <1>4, CompareTypes DEF TypeOK, KeyUp
<1>5. CASE KeyUpDown
  <2>1. value' \in Text /\ searchActive' \in BOOLEAN
    BY <1>5, TextAssumption DEF TypeOK, KeyUpDown
  <2> QED BY <1>5, <2>1, CompareTypes DEF TypeOK, KeyUpDown
<1>6. CASE KeyUpShiftDown
  BY <1>6, ActivateTypes DEF TypeOK, KeyUpShiftDown, ShowSelect
<1>7. CASE KeyUpEscape
  BY <1>7, ActivateTypes DEF TypeOK, KeyUpEscape, HideResults
<1>8. CASE MouseOver \/ MouseOut \/ CloseSelectionWindow
  BY <1>8 DEF TypeOK, MouseOver, MouseOut, CloseSelectionWindow, ShowSelect, Fresh
<1>9. ASSUME NEW i \in Sections, ClickItem(i)
      PROVE  TypeOK'
  BY <1>9, FirstSection, SelectItemTypes DEF TypeOK, ClickItem
<1>10. CASE SelectDown
  <2>1. searchIndex + 1 \in 0 .. Count
    BY <1>10, SectionAssumption DEF TypeOK, SelectDown
  <2> QED BY <1>10, <2>1, SelectItemTypes DEF TypeOK, SelectDown
<1>11. CASE SelectUp
  <2>1. searchIndex - 1 \in 0 .. Count
    BY <1>11, SectionAssumption DEF TypeOK, SelectUp
  <2> QED BY <1>11, <2>1, SelectItemTypes DEF TypeOK, SelectUp
<1>12. CASE SelectEnter
  <2>1. /\ value' \in Text /\ searchActive' \in BOOLEAN /\ boxActive' \in BOOLEAN
        /\ select' \in BOOLEAN
        /\ focus' \in {"page", "field", "select", "results"}
    BY <1>12, TextAssumption DEF TypeOK, SelectEnter
  <2> QED BY <1>12, <2>1, SelectItemTypes DEF TypeOK, SelectEnter
<1>13. CASE CloseResultsWindow
  BY <1>13, ActivateTypes DEF TypeOK, CloseResultsWindow, HideResults
<1>14. CASE ResultsEscape
  BY <1>14, TextAssumption DEF TypeOK, ResultsEscape, HideResults
<1>15. CASE SearchTimer
  BY <1>15, SearchTypes DEF TypeOK, SearchTimer
<1>16. CASE FrameLoaded
  BY <1>16 DEF TypeOK, FrameLoaded
<1>17. CASE UNCHANGED vars
  BY <1>17 DEF TypeOK, vars
<1> QED BY <1>1, <1>2, <1>3, <1>4, <1>5, <1>6, <1>7, <1>8, <1>9, <1>10, <1>11,
           <1>12, <1>13, <1>14, <1>15, <1>16, <1>17 DEF Next

\* The other parts of the invariant, one at a time.

LEMMA StepFieldIsActive ==
  ASSUME IInv, [Next]_vars
  PROVE  FieldIsActive'
<1> USE DEF windowVars, filterVars, keyVars, selectVars, fieldVars, typedVars
<1>0. TypeOK /\ TextIsActive /\ FieldIsActive
  BY DEF IInv
<1>1. ASSUME focus' = "field", searchActive' = searchActive, focus = "field"
      PROVE  FieldIsActive'
  BY <1>0, <1>1 DEF FieldIsActive
<1>2. CASE FocusField \/ ResultsEscape
  BY <1>0, <1>2 DEF TextIsActive, FieldIsActive, FocusField, ResultsEscape, Activate
<1>3. CASE SelectEnter
  BY <1>0, <1>3 DEF TextIsActive, FieldIsActive, SelectEnter
<1>4. CASE BlurField
  BY <1>4 DEF FieldIsActive, BlurField, Elsewhere
<1>5. CASE ~(FocusField \/ ResultsEscape \/ SelectEnter \/ BlurField)
  BY <1>0, <1>5
     DEF FieldIsActive, Next, vars, MoveFocus, Elsewhere, Edit, KeyUp, KeyUpDown,
         KeyUpShiftDown, KeyUpEscape, MouseOver, MouseOut, CloseSelectionWindow,
         ClickItem, SelectDown, SelectUp, CloseResultsWindow, SearchTimer, FrameLoaded
<1> QED BY <1>2, <1>3, <1>4, <1>5

LEMMA StepTextIsActive ==
  ASSUME IInv, [Next]_vars
  PROVE  TextIsActive'
<1> USE DEF windowVars, filterVars, keyVars, selectVars, fieldVars, typedVars
<1>0. TypeOK /\ TextIsActive /\ FieldIsActive
  BY DEF IInv
<1>1. CASE FocusField \/ BlurField \/ KeyUpShiftDown \/ KeyUpEscape \/ CloseResultsWindow
  BY <1>0, <1>1 DEF TextIsActive, FocusField, BlurField, KeyUpShiftDown, KeyUpEscape,
                    CloseResultsWindow, Activate
<1>2. CASE KeyUpDown \/ SelectEnter
  BY <1>0, <1>2 DEF TextIsActive, KeyUpDown, SelectEnter
<1>3. ASSUME NEW t \in Text, Edit(t)
      PROVE  TextIsActive'
  BY <1>0, <1>3 DEF TextIsActive, FieldIsActive, Edit
<1>4. CASE ResultsEscape
  BY <1>4 DEF TextIsActive, ResultsEscape
<1>5. CASE UNCHANGED <<value, searchActive>>
  BY <1>0, <1>5 DEF TextIsActive
<1> QED BY <1>1, <1>2, <1>3, <1>4, <1>5
        DEF Next, vars, MoveFocus, KeyUp, MouseOver, MouseOut, CloseSelectionWindow,
            ClickItem, SelectDown, SelectUp, SearchTimer, FrameLoaded

LEMMA StepKeptUnderMouse ==
  ASSUME IInv, [Next]_vars
  PROVE  KeptUnderMouse'
<1> USE DEF windowVars, filterVars, keyVars, selectVars, fieldVars, typedVars
<1>0. TypeOK /\ KeptUnderMouse
  BY DEF IInv
<1>1. CASE MouseOver \/ KeyUpShiftDown
  BY <1>0, <1>1 DEF KeptUnderMouse, MouseOver, KeyUpShiftDown, ShowSelect
<1>2. CASE MouseOut \/ CloseSelectionWindow
  BY <1>0, <1>2 DEF KeptUnderMouse, MouseOut, CloseSelectionWindow
<1>3. CASE UNCHANGED <<hideTimers, hideTimeout, mouse>>
  BY <1>0, <1>3 DEF KeptUnderMouse
<1> QED BY <1>1, <1>2, <1>3
        DEF Next, vars, FocusField, BlurField, MoveFocus, Edit, KeyUp, KeyUpDown,
            KeyUpEscape, ClickItem, SelectDown, SelectUp, SelectEnter,
            CloseResultsWindow, ResultsEscape, SearchTimer, FrameLoaded

LEMMA StepRemembersLiveTimer ==
  ASSUME IInv, [Next]_vars
  PROVE  RemembersLiveTimer'
<1> USE DEF windowVars, filterVars, keyVars, selectVars, fieldVars, typedVars
<1>0. TypeOK /\ RemembersLiveTimer
  BY DEF IInv
<1>1. ASSUME NEW v \in Text, Compare(v)
      PROVE  RemembersLiveTimer'
  BY <1>1 DEF RemembersLiveTimer, Compare
<1>2. ASSUME NEW i, SelectItem(i)
      PROVE  RemembersLiveTimer'
  BY <1>0, <1>2 DEF RemembersLiveTimer, SelectItem, Search
<1>3. CASE KeyUp
  BY <1>0, <1>1, <1>3 DEF TypeOK, KeyUp
<1>4. CASE KeyUpDown
  <2>1. value' \in Text
    BY <1>0, <1>4, TextAssumption DEF TypeOK, KeyUpDown
  <2> QED BY <1>1, <1>4, <2>1 DEF KeyUpDown
<1>5. CASE KeyUpShiftDown \/ KeyUpEscape \/ SearchTimer
  BY <1>5 DEF RemembersLiveTimer, KeyUpShiftDown, KeyUpEscape, SearchTimer, Search
<1>6. CASE SelectDown \/ SelectUp \/ SelectEnter \/ \E i \in Sections : ClickItem(i)
  BY <1>2, <1>6 DEF SelectDown, SelectUp, SelectEnter, ClickItem
<1>7. CASE UNCHANGED <<keyTimeout, keyTimers>>
  BY <1>0, <1>7 DEF RemembersLiveTimer
<1> QED BY <1>3, <1>4, <1>5, <1>6, <1>7
        DEF Next, vars, FocusField, BlurField, MoveFocus, Edit, MouseOver, MouseOut,
            CloseSelectionWindow, CloseResultsWindow, ResultsEscape, FrameLoaded

LEMMA SearchOpens ==
  ASSUME NEW i, Search(i)
  PROVE  \/ results' /\ lastSearchValue' = Trim[value] /\ i \in Sections
         \/ UNCHANGED <<results, close, lastSearchValue>> /\ i \notin Sections
BY DEF Search, windowVars

LEMMA StepClosedIsReset ==
  ASSUME IInv, [Next]_vars
  PROVE  ClosedIsReset'
<1> USE DEF windowVars, filterVars, keyVars, selectVars, fieldVars, typedVars
<1>0. TypeOK /\ ClosedIsReset
  BY DEF IInv
<1>a. ASSUME results'
      PROVE  ClosedIsReset'
  BY <1>a DEF ClosedIsReset
<1>b. ASSUME UNCHANGED <<results, close, lastSearchValue, boxActive, searchActive, value>>,
             focus = "field" => focus' = "field"
      PROVE  ClosedIsReset'
  BY <1>0, <1>b DEF ClosedIsReset
<1>1. CASE FocusField
  <2>1. focus' = "field" /\ UNCHANGED <<results, close>>
        /\ UNCHANGED lastSearchValue
    BY <1>1 DEF FocusField, Activate
  <2> QED BY <1>0, <2>1 DEF ClosedIsReset
<1>2. CASE BlurField
  <2>1. CASE results
    BY <1>a, <1>2, <2>1 DEF BlurField
  <2>2. CASE ~results
    BY <1>0, <1>2, <2>2 DEF ClosedIsReset, BlurField, Activate
  <2> QED BY <2>1, <2>2
<1>3. ASSUME NEW t \in Text, Edit(t)
      PROVE  ClosedIsReset'
  BY <1>0, <1>3 DEF ClosedIsReset, Edit
<1>4. ASSUME NEW v \in Text, Compare(v), value' = v, focus' = "field" \/ results
      PROVE  ClosedIsReset'
  <2>1. CASE UNCHANGED <<results, close, lastSearchValue>>
    BY <1>0, <1>4, <2>1 DEF ClosedIsReset
  <2>2. CASE HideResults /\ lastSearchValue' = Empty /\ Compact[v] = Empty
    BY <1>4, <2>2 DEF ClosedIsReset, HideResults
  <2> QED BY <1>4, <2>1, <2>2 DEF Compare
<1>5. CASE KeyUp
  BY <1>0, <1>4, <1>5 DEF TypeOK, KeyUp
<1>6. CASE KeyUpDown
  <2>1. value' \in Text
    BY <1>0, <1>6, TextAssumption DEF TypeOK, KeyUpDown
  <2>2. Compare(value') /\ results
    BY <1>6 DEF KeyUpDown
  <2> QED BY <1>4, <2>1, <2>2
<1>7. CASE KeyUpShiftDown
  <2>1. CASE results
    BY <1>a, <1>7, <2>1 DEF KeyUpShiftDown
  <2>2. CASE ~results
    BY <1>0, <1>7, <2>2 DEF ClosedIsReset, KeyUpShiftDown, Activate
  <2> QED BY <2>1, <2>2
<1>8. CASE KeyUpEscape \/ CloseResultsWindow
  BY <1>8 DEF ClosedIsReset, KeyUpEscape, CloseResultsWindow, Activate, HideResults
<1>9. ASSUME NEW i, SelectItem(i), UNCHANGED <<focus, value, boxActive, searchActive>>
      PROVE  ClosedIsReset'
  BY <1>a, <1>b, <1>9, SearchOpens DEF SelectItem
<1>10. CASE SelectDown \/ SelectUp \/ \E i \in Sections : ClickItem(i)
  BY <1>9, <1>10 DEF SelectDown, SelectUp, ClickItem
<1>11. CASE SelectEnter
  <2>1. CASE Throws(searchIndex)
    BY <1>9, <1>11, <2>1 DEF SelectEnter
  <2>2. CASE ~Throws(searchIndex)
    <3>1. focus' = "field" /\ (results' \/ UNCHANGED <<results, close, lastSearchValue>>)
      BY <1>11, <2>2, SearchOpens DEF SelectEnter, SelectItem
    <3> QED BY <1>0, <3>1 DEF ClosedIsReset
  <2> QED BY <2>1, <2>2
<1>12. CASE ResultsEscape
  BY <1>12 DEF ClosedIsReset, ResultsEscape, HideResults
<1>13. CASE SearchTimer
  BY <1>a, <1>b, <1>13, SearchOpens DEF SearchTimer
<1>14. CASE MoveFocus
  BY <1>b, <1>14 DEF MoveFocus
<1>15. CASE MouseOver \/ MouseOut \/ CloseSelectionWindow \/ FrameLoaded
  BY <1>b, <1>15 DEF MouseOver, MouseOut, CloseSelectionWindow, FrameLoaded
<1>16. CASE UNCHANGED vars
  BY <1>b, <1>16 DEF vars
<1> QED BY <1>1, <1>2, <1>3, <1>5, <1>6, <1>7, <1>8, <1>10, <1>11, <1>12, <1>13,
           <1>14, <1>15, <1>16 DEF Next

LEMMA StepTypedInv ==
  ASSUME IInv, [Next]_vars
  PROVE  TypedInv'
<1> USE DEF windowVars, filterVars, keyVars, selectVars, fieldVars, typedVars
<1>0. /\ TypeOK /\ ClosedIsReset /\ TextIsActive /\ FieldIsActive
      /\ RemembersLiveTimer /\ TypedInv
  BY DEF IInv
<1>a. ASSUME UNCHANGED <<unread, cancelled, searchIndex, keyTimeout, keyTimers, results,
                         lastSearchValue>>,
             \/ value' = value /\ (focus' = "field" => focus = "field" \/ value # Label)
             \/ Compact[value'] = Empty
             \/ value' = Label /\ focus' # "field"
      PROVE  TypedInv'
  BY <1>0, <1>a DEF TypedInv
<1>b. Compact[Empty] = Empty
  BY TextAssumption
<1>c. ASSUME NEW v \in Text, Compare(v), value' = v
      PROVE  TypedInv'
  <2>1. CASE Compact[v] = lastSearchValue /\ Compact[v] # Empty
    <3>1. results /\ Compact[lastSearchValue] = Compact[v]
      BY <1>0, <1>c, <2>1, TextAssumption DEF ClosedIsReset
    <3>2. UNCHANGED <<results, lastSearchValue>>
      BY <1>c, <2>1 DEF Compare
    <3> QED BY <1>c, <3>1, <3>2 DEF TypedInv
  <2>2. CASE Compact[v] # lastSearchValue /\ Compact[v] # Empty
    BY <1>c, <2>2 DEF TypedInv, Compare
  <2>3. CASE Compact[v] = Empty
    BY <1>c, <2>3 DEF TypedInv
  <2> QED BY <2>1, <2>2, <2>3
<1>d. ASSUME NEW i, Search(i), value' = value, searchIndex' = i
      PROVE  TypedInv'
  <2>1. CASE i \in Sections
    <3>1. results' /\ lastSearchValue' = Trim[value]
      BY <1>d, <2>1, SearchOpens
    <3>2. Compact[Trim[value]] = Compact[value]
      BY <1>0, TextAssumption DEF TypeOK
    <3> QED BY <1>d, <3>1, <3>2 DEF TypedInv
  <2>2. CASE i \notin Sections
    BY <1>d, <2>2 DEF TypedInv
  <2> QED BY <2>1, <2>2
<1>e. ASSUME NEW i, SelectItem(i), value' = value, focus = "select", focus' # "field"
      PROVE  TypedInv'
  <2>1. CASE Searches
    BY <1>d, <1>e, <2>1 DEF SelectItem
  <2>2. CASE ~Searches
    BY <1>0, <1>e, <2>2 DEF SelectItem, Searches, TextIsActive, TypedInv
  <2> QED BY <2>1, <2>2
<1>1. CASE FocusField
  <2>1. CASE value = Label
    <3>1. value' = Empty /\ UNCHANGED lastSearchValue
      BY <1>1, <2>1 DEF FocusField, Activate
    <3> QED BY <1>1, <1>a, <1>b, <3>1 DEF FocusField
  <2>2. CASE value # Label
    <3>1. value' = value /\ UNCHANGED lastSearchValue
      BY <1>1, <2>2 DEF FocusField, Activate
    <3> QED BY <1>1, <1>a, <2>2, <3>1 DEF FocusField
  <2> QED BY <2>1, <2>2
<1>2. CASE BlurField
  <2>0. focus' # "field"
    BY <1>2 DEF BlurField, Elsewhere
  <2>1. CASE results
    <3>1. value' = (IF value = Label THEN Empty ELSE value) /\ UNCHANGED lastSearchValue
      BY <1>2, <2>1 DEF BlurField, Activate
    <3> QED BY <1>2, <1>a, <1>b, <2>0, <3>1 DEF BlurField
  <2>2. CASE ~results
    BY <1>2, <2>0, <2>2 DEF BlurField, Activate, TypedInv
  <2> QED BY <2>1, <2>2
<1>3. ASSUME NEW t \in Text, Edit(t)
      PROVE  TypedInv'
  BY <1>3 DEF TypedInv, Edit
<1>4. CASE KeyUp
  BY <1>0, <1>c, <1>4 DEF TypeOK, KeyUp
<1>5. CASE KeyUpDown
  <2>1. value' \in Text
    BY <1>0, <1>5, TextAssumption DEF TypeOK, KeyUpDown
  <2> QED BY <1>c, <1>5, <2>1 DEF KeyUpDown
<1>6. CASE KeyUpShiftDown
  <2>1. focus' = "select" /\ UNCHANGED <<results, searchIndex>>
        /\ UNCHANGED unread /\ cancelled' = (cancelled \/ keyTimeout # None)
    BY <1>6 DEF KeyUpShiftDown
  <2>2. CASE results
    <3>1. value' = (IF value = Label THEN Empty ELSE value) /\ UNCHANGED lastSearchValue
      BY <1>6, <2>2 DEF KeyUpShiftDown, Activate
    <3>2. None \notin keyTimers
      BY <1>0, TimerAssumption DEF TypeOK
    <3>3. focus = "field"
      BY <1>6 DEF KeyUpShiftDown
    <3> QED BY <1>0, <1>b, <2>1, <3>1, <3>2, <3>3 DEF TypedInv
  <2>3. CASE ~results
    BY <1>6, <2>1, <2>3 DEF KeyUpShiftDown, Activate, TypedInv
  <2> QED BY <2>2, <2>3
<1>7. CASE KeyUpEscape \/ CloseResultsWindow
  BY <1>7 DEF TypedInv, KeyUpEscape, CloseResultsWindow, Activate
<1>8. CASE SelectDown \/ SelectUp \/ \E i \in Sections : ClickItem(i)
  BY <1>e, <1>8 DEF SelectDown, SelectUp, ClickItem
<1>9. CASE SelectEnter
  <2>1. CASE Throws(searchIndex)
    BY <1>e, <1>9, <2>1 DEF SelectEnter
  <2>2. CASE value = Label /\ ~Throws(searchIndex)
    BY <1>b, <1>9, <2>2 DEF SelectEnter, TypedInv
  <2>3. CASE value # Label /\ ~Throws(searchIndex)
    <3>1. value' = value /\ SelectItem(searchIndex)
      BY <1>9, <2>3 DEF SelectEnter
    <3>2. CASE Searches
      BY <1>d, <3>1, <3>2 DEF SelectItem
    <3>3. CASE ~Searches
      BY <1>0, <2>3, <3>1, <3>3 DEF Searches, TextIsActive, TypedInv
    <3> QED BY <3>2, <3>3
  <2> QED BY <2>1, <2>2, <2>3
<1>10. CASE ResultsEscape
  BY <1>b, <1>10 DEF TypedInv, ResultsEscape
<1>11. CASE SearchTimer
  BY <1>d, <1>11 DEF SearchTimer
<1>12. CASE MoveFocus
  <2>1. focus' # "field"
    BY <1>12 DEF MoveFocus, Elsewhere
  <2> QED BY <1>a, <1>12, <2>1 DEF MoveFocus
<1>13. CASE MouseOver \/ MouseOut \/ CloseSelectionWindow \/ FrameLoaded
  BY <1>a, <1>13 DEF MouseOver, MouseOut, CloseSelectionWindow, FrameLoaded
<1>14. CASE UNCHANGED vars
  BY <1>a, <1>14 DEF vars
<1> QED BY <1>1, <1>2, <1>3, <1>4, <1>5, <1>6, <1>7, <1>8, <1>9, <1>10, <1>11,
           <1>12, <1>13, <1>14 DEF Next

LEMMA Invariant == Spec => []IInv
<1>1. IInv /\ [Next]_vars => IInv'
  <2> SUFFICES ASSUME IInv, [Next]_vars PROVE IInv'
    OBVIOUS
  <2>1. TypeOK'
    BY StepTypeOK DEF IInv
  <2> QED BY <2>1, StepClosedIsReset, StepTextIsActive, StepFieldIsActive,
             StepRemembersLiveTimer, StepKeptUnderMouse, StepTypedInv DEF IInv
<1> QED BY <1>1, InitIInv, PTL DEF Spec

-----------------------------------------------------------------------------

\* However many texts, filters and timers: the object's fields keep their types,
\* and the filter chosen is at most one past the last (search.js 79-120, 292).
THEOREM TypeCorrect == Spec => []TypeOK
<1>1. IInv => TypeOK
  BY DEF IInv
<1> QED BY <1>1, Invariant, PTL

\* Closing the results resets the panel, whichever way they are closed and
\* whichever timers fire late (search.js 311-319, 397-420).
THEOREM ClosingResets == Spec => []ClosedIsReset
<1>1. IInv => ClosedIsReset
  BY DEF IInv
<1> QED BY <1>1, Invariant, PTL

\* A text of the user is never taken for the label (search.js 276-287, 397-420).
THEOREM TextActive == Spec => []TextIsActive
<1>1. IInv => TextIsActive
  BY DEF IInv
<1> QED BY <1>1, Invariant, PTL

\* A text that was typed and compared is searched for or about to be, unless Shift
\* with Down or Enter cancelled its search and no key or search came after that
\* (search.js 176-236, 325-390).
THEOREM TypedSearched == Spec => []TypedIsSearched
<1>1. IInv => TypedIsSearched
  BY DEF IInv, TypedInv, TypedIsSearched
<1> QED BY <1>1, Invariant, PTL

\* The timer the object remembers is one that will fire (search.js 178-182, 327).
THEOREM TimerRemembered == Spec => []RemembersLiveTimer
<1>1. IInv => RemembersLiveTimer
  BY DEF IInv
<1> QED BY <1>1, Invariant, PTL

\* No timer hides the filters under the mouse (search.js 133-174).
THEOREM FiltersKept == Spec => []KeptUnderMouse
<1>1. IInv => KeptUnderMouse
  BY DEF IInv
<1> QED BY <1>1, Invariant, PTL
=============================================================================
