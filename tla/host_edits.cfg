SPECIFICATION Spec
CONSTANTS
  u1 = u1  u2 = u2  x = x  y = y  dialect = dialect  schema = schema
  e1 = e1  file = file  None = None
  DialectOnly = dialect
  Uri <- TwoUris
  Text <- TwoTexts
  Lang <- NoLang
  Base <- Schemas
  Entry <- OneEntry
  EntryBase <- EntrySchema
  Maps <- MapU1
  Source <- OneFile
  Configs <- ProjectConfig
INVARIANTS TypeOK CacheIsFresh
PROPERTY ImplementsService
