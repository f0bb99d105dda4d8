SPECIFICATION Spec
CONSTANTS
  Requests = {r1, r2, r3, r4}
  Devices = {"cuda", "cpu"}
  MaxInflight = 2
  MaxInflightCpu = 1
  Builds = {FALSE}
  MayDisconnect = TRUE
  Nobody = Nobody
INVARIANT RunningJobsBounded
