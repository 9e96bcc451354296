\* The comment on the difference of cycles.
CONSTANTS
  Reader = {r1, r2}
  Size = 3
  MaxWords = 10
SPECIFICATION Spec
INVARIANT OverwritingDetected
