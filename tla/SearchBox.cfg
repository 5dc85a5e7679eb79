SPECIFICATION Spec
CONSTANTS
  Text <- Texts
  Empty = ""
  Label = "Search"
  Trim <- WithoutLeading
  Compact <- WithoutSpaces
  Count = 2
  Indexed <- TwoFilters
  Timers = {t1, t2, t3}
  None = none
SYMMETRY Symmetry
INVARIANTS
  TypeOK
  ClosedIsReset
  TextIsActive
  TypedIsSearched
  RemembersLiveTimer
  KeptUnderMouse
