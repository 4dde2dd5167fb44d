CONSTANTS
  t = t  u = u  builtin = builtin  a = a  b = b  m1 = m1  m2 = m2
  Unknown = Unknown  None = None
  Name <- MCName
  Col <- MCCol
  Dialect <- WithBuiltin
  Arity <- Arities
  Module <- OneModule
  Resolvable <- NoModules
  Modes <- BothModes
  Statements <- DocumentStatements
  ModuleStatements <- NoStatements
  HostTables <- HostTU
  Preloaded <- NoPreload
  Fn <- NoFns
SPECIFICATION SessionSpec
INVARIANT TypeOK
INVARIANT LayersDisjoint
PROPERTY ImplementsSession
