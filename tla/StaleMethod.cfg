SPECIFICATION ObjSpec
CONSTANTS
  P = P
  Q = Q
  H = H
  A = A
  B = B
  CtxNames = {A, B}
  AsmNames = {P, Q}
  HostNames = {}
  References <- MCReferences
  Hash <- MCHash
  Ids <- MCIds
  Alcs = {a1, a2}
  Slots = {s1}
  Objects = {o1, o2}
  CtxVars = {v1, v2}
  Default = Default
  None = None
  NoId = NoId
  Test = Test
  Methods = {Test}
  Declares <- MCDeclares
INVARIANTS
  InstanceCallsSucceed
SYMMETRY Symmetry
CHECK_DEADLOCK FALSE
