SPECIFICATION Spec
CONSTANTS
  Documents <- Excerpts
  Queries <- Texts
INVARIANTS
  TypeOK
  RowsMatch
  FocusShown
PROPERTIES
  UpMovesUp
  ImplementsCursor
