SPECIFICATION Spec
CONSTANTS
  O = O
  R = R
  X1 = X1
  X2 = X2
  Y = Y
  mo = mo
  m1 = m1
  m2 = m2
  my = my
  f1 = f1
  f2 = f2
  p1 = p1
  p2 = p2
  at = at
  at1 = at1
  a1 = a1
  a2 = a2
  a3 = a3
  NameO = NameO
  NameR = NameR
  NameX = NameX
  NameY = NameY
  Types <- MCTypes
  Methods <- MCMethods
  Fields <- MCFields
  Properties <- MCProperties
  Attributes = {at, at1}
  Names = {NameO, NameR, NameX, NameY}
  Asms = {a1, a2, a3}
  Core = Core
  TypesOf <- MCTypesOf
  Owner <- MCOwner
  NameOf <- MCNameOf
  Declared <- MCDeclared
  Failing <- MCFailing
  BaseOf <- MCBaseOf
  EltOf <- MCEltOf
  TypeOf <- MCTypeOf
  ParamsOf <- MCParamsOf
  AttributesOf <- MCAttributesOf
  Unresolvable <- MCUnresolvable
  NullId = NullId
  NoId = NoId
  NoName = NoName
  MaxTypes = 4
INVARIANTS
  TypeOK
  AcceptedAreReached
  MembersKnown
  ResolvedTypesMatch
  FoundByName
CHECK_DEADLOCK FALSE
