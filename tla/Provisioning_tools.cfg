SPECIFICATION FairSpec
CONSTANTS
  seg = seg
  b64 = b64
  gender = gender
  meta = meta
  good = good
  fresh = fresh
  bad = bad
  torn = torn
  SharedFiles = {seg}
  EngineFiles = {seg}
  BatchFiles = {b64}
  GenderModel = gender
  GenderMeta = meta
  Absent = Absent
  NoMarker = NoMarker
  Unreadable = Unreadable
  Torn = torn
  Contents = {good, bad, torn}
  SizeOf <- DistinctSizes
  Sound = {good}
  Provisioners = {p}
  Verifiers = {v}
  Serving = FALSE
  MaxTools = 1
  MaxFaults = 2
  Devices = {"usable", "unusable"}
  Clips = {"good", "bad"}
  Flaky = TRUE
INVARIANTS
  TypeOK PassVouchesForSound VerifiedMeansSound
PROPERTIES
  ProvenanceFromExport ProvisionedIsVerified FailIsDeserved ExportRecovers
