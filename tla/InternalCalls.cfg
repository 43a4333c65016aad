SPECIFICATION CallsSpec
CONSTANTS
  P = P
  A = A
  B = B
  CtxNames = {A, B}
  AsmNames = {P}
  HostNames = {}
  References <- MCReferences
  Hash <- MCHash
  Ids <- MCIds
  Alcs = {a1, a2}
  Slots = {}
  Objects = {}
  CtxVars = {v1, v2}
  Default = Default
  None = None
  NoId = NoId
  GetVec3 = GetVec3
  Log = Log
  Gone = Gone
  Delegates = {GetVec3, Log, Gone}
  HasDelegate <- MCHasDelegate
  Short = {Log}
  Functions = {f1, f2}
  MaxCalls = 2
SYMMETRY Symmetry
CHECK_DEADLOCK FALSE
INVARIANTS
  PointersLeadHome
PROPERTIES
  WritesReachLoaded
  OnlyStaleObjectsMisroute
  UploadIsWhole
