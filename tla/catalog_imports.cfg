CONSTANTS
  t = t  u = u  builtin = builtin  a = a  b = b  m1 = m1  m2 = m2
  Unknown = Unknown  None = None
  Name <- MCName
  Col <- MCCol
  Dialect <- WithBuiltin
  Arity <- Arities
  Module <- TwoModules
  Resolvable <- TwoModules
  Modes <- OnlyExecute
  Statements <- FewT
  ModuleStatements <- OnU
  HostTables <- HostU
  Preloaded <- PreloadT
  Fn <- OneFn
SPECIFICATION Spec
INVARIANT ImportsRunOnce
PROPERTIES ImplementsSession FunctionsPersistAcrossCalls
