SPECIFICATION Spec
CONSTANTS
  sqlite = sqlite  perfetto = perfetto  latest = latest  old = old  doc = doc
  one = one  two = two
  None = None
  Symbol <- Symbols
  Override <- Overrides
  Uri <- Uris
  Selection <- Calls
  Context <- Contexts
  MaxVersion = 2
INVARIANTS
  ServerSpeaksTheDialect
  ManagerShowsTheDialect
  ContextSurvivesSwitches
  AnswersAreCurrent
PROPERTIES
  SelectionsReturn
CHECK_DEADLOCK FALSE
