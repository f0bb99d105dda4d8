SPECIFICATION FairSpec
CONSTANTS
  Builds <- OneFeature
  DeviceLists <- Lists
  Null = Null
  MaxLines = 2
  PipeCapacity = 1
  TailMax = 1
  MaySpoil = TRUE
  Garbled = Garbled
INVARIANTS
  TypeOK
  PreflightTellsApart
  ExporterIsGone
  FailureIsEarned
  TailIsLast
  ServingIsWhole
  HealthNegotiates
  ProvisioningAgreesWithServing
  AnswerIsRecorded
  ClassNamesTheOwner
PROPERTIES
  CommandsEnd
  RequestEnds
