SPECIFICATION Spec
CONSTANTS
  NObjects = {o1, o2}
  Handles = {h1, h2}
  None = None
INVARIANTS
  SuccessIsNotFailure
SYMMETRY Symmetry
