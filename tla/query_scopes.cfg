SPECIFICATION Spec
CHECK_DEADLOCK FALSE
CONSTANTS
  tt = tt  w = w  u = u  x = x  y = y  rowid = rowid
  Name = {tt, w, u}
  Column = {x, y}
  RowId = rowid
  None = None  Unknown = Unknown  NoName = NoName
  Selected = Selected  Excluded = Excluded  Old = Old  New = New
  Schema <- TheSchema
  FromClauses <- TheFromClauses
  AliasSets <- TheAliases
  CteColumns <- TheCteColumns
  MaxDepth = 3  MaxCtes = 1
INVARIANTS
  ScopesAreLexical
  ResolutionIsLexical
  OrderErrorsAreJustified
