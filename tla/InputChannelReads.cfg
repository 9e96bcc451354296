\* Two recipients, a ring of three slots, more than three laps of it.
CONSTANTS
  Reader = {r1, r2}
  Size = 3
  MaxWords = 10
SPECIFICATION Spec
INVARIANTS TypeOK RingHoldsNewest InOrderOnce SkipsWholeRings AddsOneByOne
