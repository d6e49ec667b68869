SPECIFICATION Spec
CONSTANTS
  Vocabularies <- MCCommentedCode
  MaxPieces = 3
INVARIANTS CommentsAsWritten
CHECK_DEADLOCK FALSE
