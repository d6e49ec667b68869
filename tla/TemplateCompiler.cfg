SPECIFICATION Spec
CONSTANTS
  Vocabularies <- MCVocabularies
  MaxPieces = 5
INVARIANTS NestingDecided LinesKept RendersSource
CHECK_DEADLOCK FALSE
