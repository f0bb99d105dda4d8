SPECIFICATION FairSpec
CONSTANTS
  Requests = {r1, r2, r3, r4}
  Devices = {"cuda", "cpu"}
  MaxInflight = 2
  MaxInflightCpu = 1
  Builds = {TRUE, FALSE}
  MayDisconnect = TRUE
  Nobody = Nobody
INVARIANTS TypeOK PermitsBounded NoPermitLost AwaitedJobsBounded OneCoremlJobPerEngine
PROPERTY EveryRequestEnds
