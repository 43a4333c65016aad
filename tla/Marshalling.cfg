SPECIFICATION Spec
CONSTANTS
  StringVars = {v1, v2}
  Blocks = {b1, b2}
  None = None
  Names <- MCNames
  Methods <- MCMethods
  Arguments <- MCArguments
  Results <- MCResults
  FieldType <- MCFieldType
  MaxArgs = 1
  MaxCached = 1
  MaxWritten = 1
INVARIANTS
  TypeOK
  StringsOwned
  ArgumentsArrive
  CachedIsFound
  ReadsBackWrites
SYMMETRY Symmetry
CHECK_DEADLOCK FALSE
