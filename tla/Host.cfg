SPECIFICATION Spec
CONSTANTS
  NObjects = {o1, o2, o3}
  Handles = {h1, h2}
  None = None
INVARIANTS
  TypeOK
  BoundIsInitialized
  AtMostOneContextOpen
  RegisteredAlive
  NoDeadObjectTouched
SYMMETRY Symmetry
