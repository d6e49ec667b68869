SPECIFICATION Spec
CONSTANTS
  Nodes = {1, 2, 3, 4, 5, 6, 7}
  MaxLength = 2
  MaxEdits = 3
  Own = {1}
  Kinds <- MCKinds
INVARIANT OwnCopy
