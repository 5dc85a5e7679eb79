------------------------------ MODULE SearchBox ------------------------------
(***************************************************************************)
(* The search panel of the documentation's pages: class SearchBox of        *)
(* docs/html/search/search.js, with the handlers that docs/html/menu.js     *)
(* and the pages attach to the search field, the filter list, the results   *)
(* frame and the close button.                                              *)
(*                                                                          *)
(* JavaScript runs one handler at a time; what interleaves are the user's   *)
(* events, two kinds of timers and the loading of the frame. Delays are     *)
(* left out: a timer that is set fires at any later time.                   *)
(***************************************************************************)
EXTENDS Naturals, FiniteSets

CONSTANTS
  Text,         \* contents of the search field
  Empty, Label, \* no text; the word shown while the panel is not in use
  Trim,         \* a text without its leading spaces
  Compact,      \* a text without any space
  Count,        \* how many sections (filters) the index has
  Indexed,      \* per section the texts whose first character it lists
  Timers,       \* what setTimeout returns
  None          \* no timer, no filter, no page

Sections == 0 .. Count - 1

ASSUME TextAssumption ==
  /\ Empty \in Text /\ Label \in Text /\ Empty # Label
  /\ Trim \in [Text -> Text]
  /\ Compact \in [Text -> Text]
  /\ \A t \in Text : Compact[Trim[t]] = Compact[t] /\ Compact[Compact[t]] = Compact[t]
  /\ \A t \in Text : Compact[t] # Empty => Trim[t] # Empty
  /\ Compact[Empty] = Empty
  /\ Trim[Empty] = Empty
  /\ Compact[Label] # Empty

ASSUME SectionAssumption ==
  /\ Count \in Nat \ {0}
  /\ Indexed \in [Sections -> SUBSET Text]

ASSUME TimerAssumption == None \notin Timers

NoMatches == <<"nomatches">>
Page(i, t) == <<"results", i, t>>
Pages == {NoMatches} \cup {Page(i, t) : i \in Sections, t \in Text}

VARIABLES
  focus,           \* what has the focus
  value,           \* the content of the search field
  boxActive,       \* the class of the search box
  searchActive,    \* a text of the user is in the field
  results, close,  \* the results window and the close button are displayed
  select,          \* the window with the filters is displayed
  mouse,           \* the mouse is over that window or over its icon
  searchIndex,     \* the filter chosen
  marked,          \* the filter with the bullet
  keyTimeout, hideTimeout,  \* the timers as the object remembers them
  keyTimers, hideTimers,    \* the timers that will fire
  lastSearchValue,
  location, frame, \* the page the results frame was sent to, the one it shows
  unread,          \* the field may have changed since a handler compared it
  cancelled        \* history: Shift with Down or Enter cancelled a search to come,
                   \* and nothing has searched or compared since

fieldVars == <<value, boxActive, searchActive, lastSearchValue>>
windowVars == <<results, close>>
filterVars == <<searchIndex, marked>>
keyVars == <<keyTimeout, keyTimers>>
selectVars == <<select, hideTimeout, hideTimers>>
typedVars == <<unread, cancelled>>
vars == <<focus, fieldVars, windowVars, filterVars, keyVars, selectVars, mouse,
          location, frame, typedVars>>

\* As the page leaves it: init_search makes the first filter the chosen one.
Init ==
  /\ focus = "page"
  /\ value = Label
  /\ boxActive = FALSE
  /\ searchActive = FALSE
  /\ results = FALSE
  /\ close = FALSE
  /\ select = FALSE
  /\ mouse = FALSE
  /\ searchIndex = 0
  /\ marked = 0
  /\ keyTimeout = None
  /\ hideTimeout = None
  /\ keyTimers = {}
  /\ hideTimers = {}
  /\ lastSearchValue = Empty
  /\ location = None
  /\ frame = None
  /\ unread = FALSE
  /\ cancelled = FALSE

\* setTimeout returns a number that is not in use. When Timers has none left
\* the event that needs one does not happen: this is the bound of the model.
Fresh == Timers \ (keyTimers \cup hideTimers \cup {keyTimeout, hideTimeout})

-----------------------------------------------------------------------------
(* The actions of the object, composed by the events below.                 *)

ActivateNot(isActive, shown) ==  \* mutant: searchActive is not set
  IF isActive \/ shown
  THEN /\ boxActive' = TRUE
       /\ value' = IF value = Label THEN Empty ELSE value
       /\ UNCHANGED <<searchActive, lastSearchValue>>
  ELSE /\ boxActive' = FALSE
       /\ value' = Label
       /\ searchActive' = FALSE
       /\ lastSearchValue' = Empty

\* Activate(isActive), when the display of the results window is "shown".
Activate(isActive, shown) ==
  IF isActive \/ shown
  THEN /\ boxActive' = TRUE
       /\ value' = IF value = Label THEN Empty ELSE value
       /\ searchActive' = (searchActive \/ value = Label)
       /\ UNCHANGED lastSearchValue
  ELSE /\ boxActive' = FALSE
       /\ value' = Label
       /\ searchActive' = FALSE
       /\ lastSearchValue' = Empty

HideResults == results' = FALSE /\ close' = FALSE

SearchAgain(i) ==  \* mutant: goes on remembering the timer
  /\ UNCHANGED keyTimeout
  /\ IF i \notin Sections
     THEN UNCHANGED <<windowVars, lastSearchValue, location, typedVars>>
     ELSE /\ results' = TRUE
          /\ close' = (close \/ ~results)
          /\ lastSearchValue' = Trim[value]
          /\ location' = IF Trim[value] = Empty \/ Trim[value] \in Indexed[i]
                         THEN Page(i, Trim[value]) ELSE NoMatches
          /\ unread' = FALSE /\ cancelled' = FALSE

\* Search() for filter i. With a filter that does not exist it throws after its
\* first statement.
Search(i) ==
  /\ keyTimeout' = None
  /\ IF i \notin Sections
     THEN UNCHANGED <<windowVars, lastSearchValue, location, typedVars>>
     ELSE /\ results' = TRUE
          /\ close' = (close \/ ~results)
          /\ lastSearchValue' = Trim[value]
          /\ location' = IF Trim[value] = Empty \/ Trim[value] \in Indexed[i]
                         THEN Page(i, Trim[value]) ELSE NoMatches
          /\ unread' = FALSE /\ cancelled' = FALSE

\* OnSelectItem(i): whether it searches, and whether that throws.
Searches == Compact[value] # Empty /\ searchActive
Throws(i) == Searches /\ i \notin Sections

SelectItem(i) ==
  /\ searchIndex' = i
  /\ marked' = IF i \in Sections THEN i ELSE None
  /\ UNCHANGED keyTimers
  /\ IF Searches THEN Search(i)
     ELSE UNCHANGED <<keyTimeout, windowVars, lastSearchValue, location, typedVars>>

ShowSelectStill ==  \* mutant: the timer to hide it runs on
  /\ select' = TRUE
  /\ UNCHANGED <<hideTimers, hideTimeout>>

ShowSelect ==
  /\ select' = TRUE
  /\ hideTimers' = hideTimers \ {hideTimeout}
  /\ hideTimeout' = None

CompareOnce(v) ==  \* mutant: an emptied field keeps the text searched for
  /\ unread' = FALSE /\ cancelled' = FALSE
  /\ IF Compact[v] = lastSearchValue
     THEN /\ keyTimeout' = None
          /\ keyTimers' = keyTimers \ {keyTimeout}
          /\ UNCHANGED <<windowVars, lastSearchValue>>
     ELSE IF Compact[v] # Empty
     THEN /\ keyTimeout' \in Fresh
          /\ keyTimers' = (keyTimers \ {keyTimeout}) \cup {keyTimeout'}
          /\ UNCHANGED <<windowVars, lastSearchValue>>
     ELSE /\ keyTimeout' = None
          /\ keyTimers' = keyTimers \ {keyTimeout}
          /\ HideResults
          /\ UNCHANGED lastSearchValue

CompareLazy(v) ==  \* mutant: the timer is cleared and not set again
  /\ unread' = FALSE /\ cancelled' = FALSE
  /\ keyTimeout' = None
  /\ keyTimers' = keyTimers \ {keyTimeout}
  /\ IF Compact[v] = Empty
     THEN HideResults /\ lastSearchValue' = Empty
     ELSE UNCHANGED <<windowVars, lastSearchValue>>

\* The end of OnSearchFieldChange, for content v of the field.
Compare(v) ==
  /\ unread' = FALSE /\ cancelled' = FALSE
  /\ IF Compact[v] = lastSearchValue
     THEN /\ keyTimeout' = None
          /\ keyTimers' = keyTimers \ {keyTimeout}
          /\ UNCHANGED <<windowVars, lastSearchValue>>
     ELSE IF Compact[v] # Empty
     THEN /\ keyTimeout' \in Fresh
          /\ keyTimers' = (keyTimers \ {keyTimeout}) \cup {keyTimeout'}
          /\ UNCHANGED <<windowVars, lastSearchValue>>
     ELSE /\ keyTimeout' = None
          /\ keyTimers' = keyTimers \ {keyTimeout}
          /\ HideResults
          /\ lastSearchValue' = Empty

-----------------------------------------------------------------------------
(* Events of the search field.                                              *)

FocusField ==
  /\ focus # "field"
  /\ focus' = "field"
  /\ Activate(TRUE, results)
  /\ UNCHANGED <<windowVars, filterVars, keyVars, selectVars, mouse, location,
                 frame, typedVars>>

\* What can take the focus besides the field; nothing displayed, nothing focused.
Elsewhere ==
  {"page"} \cup (IF select THEN {"select"} ELSE {})
           \cup (IF results /\ frame \in Pages THEN {"results"} ELSE {})

BlurField ==
  /\ focus = "field"
  /\ focus' \in Elsewhere
  /\ Activate(FALSE, results)
  /\ UNCHANGED <<windowVars, filterVars, keyVars, selectVars, mouse, location,
                 frame, typedVars>>

MoveFocus ==
  /\ focus # "field"
  /\ focus' \in Elsewhere
  /\ UNCHANGED <<fieldVars, windowVars, filterVars, keyVars, selectVars, mouse,
                 location, frame, typedVars>>

\* The content changes when a key goes down, the handler runs when one goes up.
Edit(t) ==
  /\ focus = "field"
  /\ t # value
  /\ value' = t
  /\ unread' = TRUE
  /\ UNCHANGED <<focus, boxActive, searchActive, lastSearchValue, windowVars,
                 filterVars, keyVars, selectVars, mouse, location, frame, cancelled>>

KeyUp ==
  /\ focus = "field"
  /\ Compare(value)
  /\ UNCHANGED <<focus, value, boxActive, searchActive, filterVars, selectVars,
                 mouse, location, frame>>

\* Down or Enter: the first result gets the focus if there is one; the field
\* loses it then, and the handler goes on.
KeyUpDown ==
  /\ focus = "field"
  /\ results /\ frame \in Pages \ {NoMatches}
  /\ boxActive' = TRUE
  /\ value' = IF value = Label THEN Empty ELSE value
  /\ searchActive' = (searchActive \/ value = Label)
  /\ Compare(value')
  /\ focus' = IF results' THEN "results" ELSE "page"
  /\ UNCHANGED <<filterVars, selectVars, mouse, location, frame>>

\* Shift with Down or Enter: the filters.
KeyUpShiftDown ==
  /\ focus = "field"
  /\ keyTimeout' = None
  /\ keyTimers' = keyTimers \ {keyTimeout}
  /\ ShowSelect
  /\ focus' = "select"
  /\ Activate(FALSE, results)
  /\ cancelled' = (cancelled \/ keyTimeout # None)
  /\ UNCHANGED <<windowVars, filterVars, mouse, location, frame, unread>>

\* Escape. The loss of the focus calls Activate(false) too, before the window is
\* hidden; the second call overwrites what the first one sets.
KeyUpEscape ==
  /\ focus = "field"
  /\ keyTimeout' = None
  /\ keyTimers' = keyTimers \ {keyTimeout}
  /\ focus' = "page"
  /\ HideResults
  /\ Activate(FALSE, FALSE)
  /\ UNCHANGED <<filterVars, selectVars, mouse, location, frame, typedVars>>

-----------------------------------------------------------------------------
(* Events of the list of filters.                                           *)

MouseOver ==
  /\ ~mouse
  /\ mouse' = TRUE
  /\ ShowSelect
  /\ UNCHANGED <<focus, fieldVars, windowVars, filterVars, keyVars, location,
                 frame, typedVars>>

MouseOut ==
  /\ mouse
  /\ mouse' = FALSE
  /\ hideTimeout' \in Fresh
  /\ hideTimers' = hideTimers \cup {hideTimeout'}
  /\ UNCHANGED <<focus, fieldVars, windowVars, filterVars, keyVars, select,
                 location, frame, typedVars>>

\* Hiding the element that has the focus takes the focus away.
CloseSelectionWindow ==
  \E t \in hideTimers :
    /\ hideTimers' = hideTimers \ {t}
    /\ select' = FALSE
    /\ focus' = IF focus = "select" THEN "page" ELSE focus
    /\ UNCHANGED <<fieldVars, windowVars, filterVars, keyVars, hideTimeout,
                   mouse, location, frame, typedVars>>

\* A click gives the filter the focus first: BlurField or MoveFocus.
ClickItem(i) ==
  /\ select /\ mouse /\ focus = "select"
  /\ SelectItem(i)
  /\ UNCHANGED <<focus, value, boxActive, searchActive, selectVars, mouse, frame>>

SelectDownOn ==  \* mutant: does not stop after the last filter
  /\ focus = "select"
  /\ SelectItem(searchIndex + 1)
  /\ UNCHANGED <<focus, value, boxActive, searchActive, selectVars, mouse, frame>>

SelectDown ==
  /\ focus = "select"
  /\ searchIndex < Count
  /\ SelectItem(searchIndex + 1)
  /\ UNCHANGED <<focus, value, boxActive, searchActive, selectVars, mouse, frame>>

SelectUp ==
  /\ focus = "select"
  /\ searchIndex > 0
  /\ SelectItem(searchIndex - 1)
  /\ UNCHANGED <<focus, value, boxActive, searchActive, selectVars, mouse, frame>>

\* Enter or Escape: back to the field, whose focus activates the panel. If the
\* search throws, the list stays.
SelectEnter ==
  /\ focus = "select"
  /\ SelectItem(searchIndex)
  /\ IF Throws(searchIndex)
     THEN UNCHANGED <<focus, value, boxActive, searchActive, select>>
     ELSE /\ select' = FALSE
          /\ focus' = "field"
          /\ boxActive' = TRUE
          /\ value' = IF value = Label THEN Empty ELSE value
          /\ searchActive' = (searchActive \/ value = Label)
  /\ UNCHANGED <<hideTimeout, hideTimers, mouse, frame>>

-----------------------------------------------------------------------------
(* Events of the results window and of its frame.                           *)

\* The close button; the click has taken the focus from the field before.
CloseResultsWindow ==
  /\ close
  /\ focus # "field"
  /\ focus' = "page"
  /\ HideResults
  /\ Activate(FALSE, FALSE)
  /\ UNCHANGED <<filterVars, keyVars, selectVars, mouse, location, frame, typedVars>>

\* Escape in the list of results: closes it and focuses the field.
ResultsEscape ==
  /\ focus = "results"
  /\ focus' = "field"
  /\ HideResults
  /\ boxActive' = TRUE
  /\ value' = Empty
  /\ searchActive' = TRUE
  /\ lastSearchValue' = Empty
  /\ UNCHANGED <<filterVars, keyVars, selectVars, mouse, location, frame, typedVars>>

SearchTimer ==
  \E t \in keyTimers :
    /\ keyTimers' = keyTimers \ {t}
    /\ Search(searchIndex)
    /\ UNCHANGED <<focus, value, boxActive, searchActive, filterVars, selectVars,
                   mouse, frame>>

\* A new document in the frame takes the focus from the old one's links. (Sent to
\* the page that it shows already, the frame keeps its document.)
FrameLoaded ==
  /\ frame # location
  /\ frame' = location
  /\ focus' = IF focus = "results" THEN "page" ELSE focus
  /\ UNCHANGED <<fieldVars, windowVars, filterVars, keyVars, selectVars, mouse,
                 location, typedVars>>

Next ==
  \/ FocusField \/ BlurField \/ MoveFocus
  \/ \E t \in Text : Edit(t)
  \/ KeyUp \/ KeyUpDown \/ KeyUpShiftDown \/ KeyUpEscape
  \/ MouseOver \/ MouseOut \/ CloseSelectionWindow
  \/ \E i \in Sections : ClickItem(i)
  \/ SelectDown \/ SelectUp \/ SelectEnter
  \/ CloseResultsWindow \/ ResultsEscape
  \/ SearchTimer \/ FrameLoaded

Spec == Init /\ [][Next]_vars

-----------------------------------------------------------------------------
(* Properties                                                               *)

\* The types of the object's fields; the chosen filter may be one past the last,
\* which is what the guard of Down allows (search.js 79-120, 292).
TypeOK ==
  /\ focus \in {"page", "field", "select", "results"}
  /\ value \in Text
  /\ {boxActive, searchActive, results, close, select, mouse, unread, cancelled}
       \subseteq BOOLEAN
  /\ searchIndex \in 0 .. Count
  /\ marked \in Sections \cup {None}
  /\ {keyTimeout, hideTimeout} \subseteq Timers \cup {None}
  /\ keyTimers \subseteq Timers /\ hideTimers \subseteq Timers
  /\ lastSearchValue \in Text
  /\ {location, frame} \subseteq Pages \cup {None}

\* Whichever way the results were closed (close button, Escape in the field or in
\* the list, an emptied field), nothing of the search is left: no close button, no
\* remembered text that would suppress the next search for it and, once the focus
\* has left the field, a panel that looks and behaves unused, or a field without
\* text, if that is how the results were closed (Activate, search.js 397-420, and
\* its callers).
ClosedIsReset ==
  ~results =>
    /\ ~close
    /\ lastSearchValue = Empty
    /\ focus # "field" =>
         \/ ~boxActive /\ ~searchActive /\ value = Label
         \/ Compact[value] = Empty

\* A filter chosen while a text of the user is in the field is applied: whenever
\* the field does not show the label, searchActive is set, whatever windows were
\* opened and timers fired before (OnSelectItem 276-287, Activate 397-420).
TextIsActive == value # Label => searchActive

\* What the user typed is searched for: once a handler has compared the field
\* with the last search, either its timer will fire or the results shown are
\* those of this text (up to spaces), across editing, escaping, closing, choosing
\* filters and timers that fire late. One order of keys loses a search, and this
\* property says that it is the only one: Shift with Down or Enter cancels the timer
\* and returns before the comparison, so that who goes back to the field with the
\* mouse has a text in it that nothing will search for before the next key
\* (OnSearchFieldChange 176-236, the cancelling 178-200; Search 325-390).
TypedIsSearched ==
  focus = "field" /\ ~unread /\ ~cancelled
  /\ Compact[value] # Empty /\ searchIndex \in Sections
    => \/ keyTimeout \in keyTimers
       \/ results /\ Compact[lastSearchValue] = Compact[value]

\* The object can always cancel the timer it remembers: it does not remember one
\* that has fired or was cleared (keyTimeout, search.js 178-182, 217, 327).
RemembersLiveTimer == keyTimeout # None => keyTimeout \in keyTimers

\* The filters are not hidden while the mouse is on them: a timer to hide them
\* runs only while the mouse is away, and is the one the object can stop
\* (OnSearchSelectShow 133-168, OnSearchSelectHide 170-174).
KeptUnderMouse ==
  hideTimers # {} => ~mouse /\ hideTimers = {hideTimeout}
=============================================================================
