SPECIFICATION Spec
CONSTANTS
  seg = seg
  b64 = b64
  gender = gender
  meta = meta
  good = good
  fresh = fresh
  bad = bad
  torn = torn
  SharedFiles = {seg}
  EngineFiles = {seg}
  BatchFiles = {b64}
  GenderModel = gender
  GenderMeta = meta
  Absent = Absent
  NoMarker = NoMarker
  Unreadable = Unreadable
  Torn = torn
  Contents = {good, bad, torn}
  SizeOf <- DistinctSizes
  Sound = {good}
  Provisioners = {p}
  Verifiers = {v}
  Serving = FALSE
  MaxTools = 2
  MaxFaults = 0
  Devices = {"cpu"}
  Clips = {"good"}
  Flaky = FALSE
PROPERTY ProvenanceFromExport
