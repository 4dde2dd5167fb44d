CONSTANTS
  t = t  u = u  builtin = builtin  a = a  b = b  m1 = m1  m2 = m2
  Unknown = Unknown  None = None
  Name <- MCName
  Col <- MCCol
  Dialect <- WithBuiltin
  Arity <- Arities
  Module <- NoModules
  Resolvable <- NoModules
  Modes <- OnlyExecute
  Statements <- Drops
  ModuleStatements <- NoStatements
  HostTables <- NoHost
  Preloaded <- PreloadT
  Fn <- NoFns
SPECIFICATION Spec
PROPERTY DdlPersistsAcrossCalls
