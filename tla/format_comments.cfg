SPECIFICATION Spec
CONSTANTS
  IndentWidth = 2
  Punctuation <- NoPunctuation
  LineWidths <- Wide
  Documents <- AllDocs
INVARIANTS
  KeepsComments
  KeepsCodeElsewhere
  NoNewBlankLines
  LayoutIsKept
CHECK_DEADLOCK FALSE
