SPECIFICATION Spec
CONSTANTS
  Writers = {w1, w2}
  Readers = {r1}
  MaxWriters = 2
  Claims = {c1, c2}
  Inodes = {i1, i2, i3, i4, i5}
  NumBlocks = 2
  None = None
  Hole = Hole
  NoClaim = NoClaim
  Torn = Torn
  NotReading = NotReading
INVARIANT NeverTorn
