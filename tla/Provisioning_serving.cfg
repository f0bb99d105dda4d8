SPECIFICATION Spec
CONSTANTS
  seg = seg
  b64 = b64
  gender = gender
  meta = meta
  good = good
  fresh = fresh
  bad = bad
  torn = torn
  SharedFiles = {seg}
  EngineFiles = {seg}
  BatchFiles = {b64}
  GenderModel = gender
  GenderMeta = meta
  Absent = Absent
  NoMarker = NoMarker
  Unreadable = Unreadable
  Torn = torn
  Contents = {good, fresh, bad, torn}
  SizeOf <- TwinSizes
  Sound = {good, fresh}
  Provisioners = {p}
  Verifiers = {v}
  Serving = TRUE
  MaxTools = 1
  MaxFaults = 1
  Devices = {"cpu"}
  Clips = {"good"}
  Flaky = TRUE
INVARIANTS GateAcceptsVerified ServesWhatWasVerified
PROPERTY DeepVerifyIsExact
