SPECIFICATION Spec
CONSTANTS
  Keys = {k1, k2}
  Cost = 2
  Full = 4
  IdleGc = 4
  Crowd = 2
  MaxTime = 9
INVARIANTS TypeOK ReadsBounded
PROPERTIES AllowanceSpec
