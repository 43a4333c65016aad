SPECIFICATION Spec
CONSTANTS
  Threads = {t1}
  N = 2
  FirstTable = 1
  Ops = {"Insert", "EmplaceBack"}
  MaxOps = 6
  Sources = {0, 3}
  MaxClears = 2
  Zero = Zero
  NoThread = NoThread
INVARIANTS
  TypeOK
  InsertedFound
  TablePagesAlive
PROPERTIES
  AppendOnly
CHECK_DEADLOCK FALSE
