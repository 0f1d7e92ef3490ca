SPECIFICATION MCSpec
CONSTANTS
  u1 = u1
  u2 = u2
  Unparkers = {u1, u2}
  Self = Self
  NoOne = NoOne
PROPERTIES ForcedPermitSurvives
