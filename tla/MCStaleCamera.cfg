SPECIFICATION Spec
CONSTANTS
  Chn = {c0, c1}
  LegacyChn = {c0}
  MaxMade = 3
INVARIANTS
  AnsweredByItsCamera
