SPECIFICATION Spec
CONSTANTS
  Requests = {"render1", "flush", "render2", "page", "ping"}
  Conns = {"one", "two"}
  Stream <- MCStream
  KindOf <- MCKind
  BundlesOf <- MCBundles
  MaxBundles = 1
  PartOf <- MCPartOf
INVARIANT NativeFetchKept
CHECK_DEADLOCK FALSE
