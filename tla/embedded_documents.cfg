SPECIFICATION Spec
CONSTANTS
  Accented <- Accent
  Wide <- Emoji
  Line <- Script
  PieceKind <- Kinds
  MaxLines = 4
  MaxPieces = 5
INVARIANTS
  PositionsAreTheProtocols
  TokensAreWhereTheyAre
  MaskSeparatesElsewhere
  
  DiagnosticsCoverTheirText
CHECK_DEADLOCK FALSE
