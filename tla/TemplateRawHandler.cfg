SPECIFICATION Spec
CONSTANTS
  Vocabularies <- MCHandled
  MaxPieces = 4
INVARIANTS HandlersAttached
CHECK_DEADLOCK FALSE
