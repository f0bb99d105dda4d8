SPECIFICATION Spec
CONSTANTS
  Builds <- OneFeature
  DeviceLists <- Lists
  Null = Null
  MaxLines = 2
  PipeCapacity = 1
  TailMax = 1
  MaySpoil = TRUE
  Garbled = Garbled
INVARIANT ZeroLimitDeadlocks
