SPECIFICATION Spec
CONSTANTS
  Threads = {t1, t2}
  N = 2
  FirstTable = 2
  Ops = {"Insert"}
  MaxOps = 2
  Sources = {}
  MaxClears = 0
  Zero = Zero
  NoThread = NoThread
INVARIANTS
  InsertedFound
CHECK_DEADLOCK FALSE
