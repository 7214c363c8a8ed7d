SPECIFICATION Spec
CONSTANTS
  Keys = {k1, k2, k3}
  Torn = Torn
  Undecodable = Undecodable
  Unset = Unset
  MaxTears = 1
  MaxRewrite = 2
INVARIANTS
  TypeOK
  NoDuplicateKeys
  BoundedBlastRadius
  SecuredSurvives
PROPERTY ImplementsBuffer
SYMMETRY KeySymmetry
CHECK_DEADLOCK FALSE
