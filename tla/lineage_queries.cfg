CONSTANTS
  t = t  u = u  v = v  a = a  b = b
  None = None  Unknown = Unknown  NoName = NoName
  Name <- MCName
  Column <- MCColumn
  Schema <- MCSchema
  Results <- MCResults
  Declared <- MCDeclared
  References <- MCReferences
  Aliases <- MCAliases
  Bindings <- MCBindings
  MaxNodes = 3
  MaxDepth = 4
  MaxSources = 2
SPECIFICATION Spec
INVARIANTS LineageIsTrue OuterQueryIsTheStatements
CHECK_DEADLOCK FALSE
