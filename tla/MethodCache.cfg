SPECIFICATION ObjSpec
CONSTANTS
  P = P
  Q = Q
  H = H
  A = A
  B = B
  CtxNames = {A, B}
  AsmNames = {P, Q}
  HostNames = {H}
  References <- HostReferences
  Hash <- CollidingHash
  Ids <- MCIds
  Alcs = {a1, a2}
  Slots = {s1}
  Objects = {o1}
  CtxVars = {v1, v2}
  Default = Default
  None = None
  NoId = NoId
  Test = Test
  Methods = {Test}
  Declares <- MCDeclares
INVARIANTS
  CachedMethodsWereLoaded
  MisdirectionNeedsReload
SYMMETRY Symmetry
CHECK_DEADLOCK FALSE
