SPECIFICATION FairSpec
CONSTANTS
  Threads = {t1, t2, t3}
  N = 2
  FirstTable = 2
  Ops = {"Insert"}
  MaxOps = 2
  Sources = {}
  MaxClears = 0
  Zero = Zero
  NoThread = NoThread
INVARIANTS
  IndicesUnique
  IndexNotBeforePage
  OvershootBounded
PROPERTIES
  TableKeepsPages
  InsertsFinish
CHECK_DEADLOCK FALSE
