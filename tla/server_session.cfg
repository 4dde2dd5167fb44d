SPECIFICATION Spec
CONSTANTS
  u1 = u1  u2 = u2  x = x  y = y  sql = sql  dialect = dialect  schema = schema
  e1 = e1  None = None
  DialectOnly = dialect
  Uri <- MCUri
  Text <- MCText
  Lang <- MCLang
  Base <- MCBase
  Entry <- MCEntry
  EntryBase <- MCEntryBase
  Maps <- MCMaps
  Source <- NoFiles
  Configs <- MCConfigs
  Projects <- AnyProject
  Feature <- Queries
  Other = TRUE
  Capacity = 1
  MaxSent = 4
INVARIANTS TypeOK AnsweredInOrder AnswersShowWhatWasAsked DiagnosticsFollow PublishedInSession
PROPERTIES ShutDownIsFinal EveryRequestAnswered DiagnosticsSettle
