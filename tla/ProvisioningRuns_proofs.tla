----------------------- MODULE ProvisioningRuns_proofs -----------------------
(***************************************************************************)
(* What the runs of provision-models and verify-models promise by how they *)
(* end, for every directory and with one process at a time: an exit with  *)
(* success tells the truth about the bytes, and only the step that earned *)
(* it writes a pass, a fail or a provenance.                              *)
(***************************************************************************)
EXTENDS Provisioning_proofs

-----------------------------------------------------------------------------
(* What a run knows of the directory and the marker when it comes to write *)
(* or to answer.  Nobody else writes meanwhile, so what it read is still   *)
(* so.                                                                     *)
Names(t) == RequiredFiles(opt[t].set, opt[t].gender)

Known(t) ==
  /\ pc[t] = "vouch" =>
       AllSound(dir, Names(t)) /\ recs[t] = FileRecords(dir, Names(t))
  /\ pc[t] \in {"structural", "endtoend", "attest"} /\ report[t] = "ok" =>
       Readable(marker) /\ MatchesMarker(dir, marker)
  /\ pc[t] \in {"endtoend", "attest", "stamp"} => AllSound(dir, Names(t))
  /\ pc[t] = "stamp" =>
       Readable(marker) /\ MatchesMarker(dir, marker) /\ seen[t] = marker
  /\ pc[t] = "condemn" => Deserved(dir, opt[t], verdict[t])

RunInv ==
  /\ MarkerInv
  /\ \A t \in Tools : Known(t)

-----------------------------------------------------------------------------
(* What the first stages blame is to blame, and what they pass is sound.   *)
LEMMA StructuralBlame ==
  ASSUME NEW d \in Directory, NEW o \in Options,
         NEW v, v = StructuralVerdict(d, o)
  PROVE  IF v = "ok" THEN AllSound(d, RequiredFiles(o.set, o.gender))
         ELSE Deserved(d, o, v)
  <1>1. \A f \in RequiredFiles(o.set, o.gender) : d[f] \in Sound => NonEmpty(d, f)
    BY DirectoryAssumption DEF NonEmpty, Present
  <1>2. CASE MissingRequired(d, o.set, o.gender) # {}
    BY <1>1, <1>2 DEF StructuralVerdict, MissingRequired, AllSound, Deserved
  <1>3. CASE MissingRequired(d, o.set, o.gender) = {}
    BY <1>3 DEF StructuralVerdict, Deserved
  <1>4. QED
    BY <1>2, <1>3

(* A tool that does nothing, while the only one at work is t.              *)
LEMMA OthersKnow ==
  ASSUME MarkerInv, NEW t \in Tools, NEW u \in Tools \ {t}, Known(u),
         pc[t] # "idle" \/ \A v \in Tools : pc[v] = "idle",
         pc'[u] = pc[u], opt'[u] = opt[u]
  PROVE  Known(u)'
  <1>1. pc[u] = "idle"
    BY DEF MarkerInv, Alone
  <1>2. QED
    BY <1>1 DEF Known

LEMMA EndsKnown ==
  ASSUME RunInv, NEW t \in Tools, NEW how, Ends(t, how), pc[t] # "idle"
  PROVE  \A u \in Tools : Known(u)'
  <1>1. RunTypes
    BY TypeInvParts DEF RunInv, MarkerInv
  <1>2. pc'[t] = "idle"
    BY <1>1 DEF Ends, RunTypes
  <1>3. Known(t)'
    BY <1>2 DEF Known
  <1>4. \A u \in Tools \ {t} : pc'[u] = pc[u] /\ opt'[u] = opt[u]
    BY <1>1 DEF Ends, RunTypes
  <1>5. QED
    BY <1>3, <1>4, OthersKnow DEF RunInv

(* A step of t that goes on.                                               *)
LEMMA GoesOn ==
  ASSUME RunInv, NEW t \in Tools, NEW label, pc[t] # "idle", Goto(t, label),
         opt' = opt, Known(t)'
  PROVE  \A u \in Tools : Known(u)'
  <1>1. RunTypes
    BY TypeInvParts DEF RunInv, MarkerInv
  <1>2. \A u \in Tools \ {t} : pc'[u] = pc[u] /\ opt'[u] = opt[u]
    BY <1>1 DEF Goto, RunTypes
  <1>3. QED
    BY <1>2, OthersKnow DEF RunInv

LEMMA SmokeKnown ==
  ASSUME RunInv, NEW t \in Tools, SmokeStep(t)
  PROVE  \A u \in Tools : Known(u)'
  <1>1. RunTypes /\ dir \in Directory /\ opt[t] \in Options
    BY TypeInvParts DEF RunInv, MarkerInv, RunTypes
  <1>2. /\ marker' = marker /\ dir' = dir /\ pc[t] \in {"structural", "endtoend"}
        /\ Known(t)
    BY DEF RunInv, SmokeStep, Structural, EndToEnd, At
  <1>3. ASSUME NEW v, SmokeEnds(t, v),
               v # "device" => Deserved(dir, opt[t], v)
        PROVE  \A u \in Tools : Known(u)'
    <2>1. CASE \E how : Ends(t, how)
      BY <1>2, <2>1, EndsKnown
    <2>2. CASE /\ Goto(t, "condemn") /\ v # "device" /\ opt' = opt
               /\ verdict' = [verdict EXCEPT ![t] = v]
      <3>1. pc'[t] = "condemn" /\ verdict'[t] = v
        BY <1>1, <2>2 DEF Goto, RunTypes
      <3>2. Deserved(dir, opt[t], v)'
        BY <1>2, <1>3, <2>2 DEF Deserved, AllSound, Opened, OpenedIfThere, Present
      <3>3. Deserved(dir', opt'[t], verdict'[t])
        BY <3>1, <3>2
      <3>4. Known(t)'
        BY <3>1, <3>3 DEF Known
      <3>5. QED
        BY <1>2, <2>2, <3>4, GoesOn
    <2>3. QED
      BY <1>3, <2>1, <2>2 DEF SmokeEnds
  <1>4. CASE Structural(t)
    <2>1. CASE StructuralVerdict(dir, opt[t]) # "ok"
      <3>1. Deserved(dir, opt[t], StructuralVerdict(dir, opt[t]))
        BY <1>1, <2>1, StructuralBlame
      <3>2. QED
        BY <1>3, <1>4, <2>1, <3>1 DEF Structural
    <2>2. CASE StructuralVerdict(dir, opt[t]) = "ok"
      <3>1. pc'[t] = "endtoend" /\ opt' = opt /\ report' = report /\ Goto(t, "endtoend")
        BY <1>1, <1>4, <2>2 DEF Structural, Goto, RunTypes
      <3>2. AllSound(dir, Names(t))
        BY <1>1, <2>2, StructuralBlame DEF Names
      <3>3. Known(t)'
        BY <1>2, <1>4, <3>1, <3>2
        DEF Known, Structural, At, Readable, MatchesMarker, Recorded, Drifted, AllSound, Names
      <3>4. QED
        BY <1>2, <3>1, <3>3, GoesOn
    <2>3. QED
      BY <2>1, <2>2
  <1>5. CASE EndToEnd(t)
    <2>1. PICK v \in EndToEndVerdicts(dir, opt[t], Flaky) :
            IF v # "ok" THEN SmokeEnds(t, v)
            ELSE /\ Goto(t, IF t \in Verifiers THEN "attest" ELSE "hash")
                 /\ UNCHANGED <<opt, phase, verdict, recs, report, seen>>
      BY <1>5 DEF EndToEnd
    <2>2. CASE v # "ok"
      <3>1. AllSound(dir, Names(t))
        BY <1>2, <1>5 DEF Known, EndToEnd, At
      <3>2. v \in {"device", "engine", "machine"}
            /\ (v = "engine" => ~AllSound(dir, Opened(dir, opt[t])))
        BY <2>2 DEF EndToEndVerdicts
      <3>3. v # "device" => Deserved(dir, opt[t], v)
        BY <3>1, <3>2 DEF Deserved, Names
      <3>4. QED
        BY <1>3, <2>1, <2>2, <3>3
    <2>3. CASE v = "ok"
      <3>1. AllSound(dir, Names(t))
        BY <2>3 DEF EndToEndVerdicts, Names
      <3>2. /\ pc'[t] \in {"attest", "hash"} /\ report' = report /\ opt' = opt
            /\ \E label : Goto(t, label)
        BY <1>1, <2>1, <2>3 DEF Goto, RunTypes
      <3>3. Known(t)'
        BY <1>2, <3>1, <3>2
        DEF Known, Names, AllSound, Readable, MatchesMarker, Recorded, Drifted
      <3>4. QED
        BY <1>2, <3>2, <3>3, GoesOn
    <2>4. QED
      BY <2>2, <2>3
  <1>6. QED
    BY <1>4, <1>5 DEF SmokeStep

LEMMA ProvisionKnown ==
  ASSUME MaxTools = 1, RunInv, NEW t \in Tools,
         \/ Refuse(t) \/ UpToDate(t) \/ StartExport(t)
         \/ ExportPhase(t) \/ ExportFails(t) \/ ExportDone(t)
         \/ Condemn(t) \/ HashFiles(t) \/ Vouch(t) \/ Kill(t)
         \/ \E o \in ProvisionRequests : BeginProvision(t, o)
  PROVE  \A u \in Tools : Known(u)'
  <1>1. RunTypes /\ Known(t) /\ Established(t)
    BY TypeInvParts DEF RunInv, MarkerInv
  <1>2. CASE Refuse(t) \/ UpToDate(t) \/ ExportFails(t) \/ Condemn(t) \/ Vouch(t) \/ Kill(t)
    <2>1. pc[t] # "idle" /\ \E how : Ends(t, how)
      BY <1>2 DEF Refuse, UpToDate, ExportFails, Condemn, Vouch, Kill, At
    <2>2. QED
      BY <2>1, EndsKnown
  <1>3. CASE StartExport(t) \/ ExportDone(t)
    <2>1. /\ pc[t] \in {"check", "export"} /\ report' = report /\ opt' = opt
          /\ \E label \in {"export", "structural"} : Goto(t, label)
      BY <1>3 DEF StartExport, ExportDone, At
    <2>2. report'[t] = "none" /\ pc'[t] \in {"export", "structural"}
      BY <1>1, <2>1 DEF Established, Goto, RunTypes
    <2>3. Known(t)'
      BY <1>1, <2>1, <2>2 DEF Known
    <2>4. QED
      BY <2>1, <2>3, GoesOn
  <1>4. CASE ExportPhase(t)
    <2>1. pc[t] = "export" /\ pc' = pc /\ opt' = opt
      BY <1>4 DEF ExportPhase, At
    <2>2. Known(t)' /\ Goto(t, "export")
      BY <1>1, <2>1 DEF Known, Goto, RunTypes
    <2>3. QED
      BY <2>1, <2>2, GoesOn
  <1>5. CASE HashFiles(t)
    <2>1. CASE \E f \in Names(t) : ~Present(dir, f)
      BY <1>5, <2>1, EndsKnown DEF HashFiles, At, Names
    <2>2. CASE ~\E f \in Names(t) : ~Present(dir, f)
      <3>1. /\ pc[t] = "hash" /\ Goto(t, "vouch") /\ opt' = opt /\ dir' = dir
            /\ recs' = [recs EXCEPT ![t] = FileRecords(dir, Names(t))]
        BY <1>5, <2>2 DEF HashFiles, At, Names
      <3>2. pc'[t] = "vouch" /\ recs'[t] = FileRecords(dir, Names(t))
        BY <1>1, <3>1 DEF Goto, RunTypes
      <3>3. AllSound(dir, Names(t))
        BY <1>1, <3>1 DEF Established, Names
      <3>4. Known(t)'
        BY <1>1, <3>1, <3>2, <3>3 DEF Known, Names, AllSound, FileRecords
      <3>5. QED
        BY <3>1, <3>4, GoesOn
    <2>3. QED
      BY <2>1, <2>2
  <1>6. CASE \E o \in ProvisionRequests : BeginProvision(t, o)
    <2>1. PICK o \in ProvisionRequests : BeginProvision(t, o)
      BY <1>6
    <2>2. \A u \in Tools : pc[u] = "idle"
      BY <2>1, NothingElseStarts DEF BeginProvision
    <2>3. /\ pc'[t] = "check"
          /\ \A u \in Tools \ {t} : pc'[u] = pc[u] /\ opt'[u] = opt[u]
      BY <1>1, <2>1 DEF BeginProvision, Goto, RunTypes
    <2>4. Known(t)'
      BY <2>3 DEF Known
    <2>5. QED
      BY <2>2, <2>3, <2>4, OthersKnow DEF RunInv
  <1>7. QED
    BY <1>2, <1>3, <1>4, <1>5, <1>6

LEMMA VerifyKnown ==
  ASSUME MaxTools = 1, RunInv, NEW t \in Tools,
         \/ Compare(t) \/ Attest(t) \/ Stamp(t)
         \/ \E o \in VerifyRequests, e \in Explicit : BeginVerify(t, o, e)
  PROVE  \A u \in Tools : Known(u)'
  <1>1. RunTypes /\ Known(t) /\ MarkerInv
    BY TypeInvParts DEF RunInv, MarkerInv
  <1>2. CASE Compare(t)
    <2>1. CASE marker = Unreadable
      BY <1>2, <2>1, EndsKnown DEF Compare, At
    <2>2. CASE marker # Unreadable
      <3>1. /\ pc[t] = "compare" /\ Goto(t, "structural") /\ opt' = opt /\ dir' = dir
            /\ marker' = marker
            /\ report' = [report EXCEPT ![t] =
                 IF marker = NoMarker THEN "unverified"
                 ELSE IF MatchesMarker(dir, marker) THEN "ok" ELSE "drift"]
        BY <1>2, <2>2 DEF Compare, At
      <3>2. /\ pc'[t] = "structural"
            /\ report'[t] = "ok" => Readable(marker) /\ MatchesMarker(dir, marker)
        BY <1>1, <2>2, <3>1 DEF Goto, RunTypes, Readable
      <3>3. Known(t)'
        BY <1>1, <3>1, <3>2 DEF Known, Readable, MatchesMarker, Recorded, Drifted
      <3>4. QED
        BY <3>1, <3>3, GoesOn
    <2>3. QED
      BY <2>1, <2>2
  <1>3. CASE Attest(t)
    <2>1. CASE report[t] = "ok" /\ opt[t].attest /\ Readable(marker)
      <3>1. /\ pc[t] = "attest" /\ Goto(t, "stamp") /\ opt' = opt /\ dir' = dir
            /\ marker' = marker /\ seen' = [seen EXCEPT ![t] = marker]
        BY <1>3, <2>1 DEF Attest, At
      <3>2. pc'[t] = "stamp" /\ seen'[t] = marker
        BY <1>1, <3>1 DEF Goto, RunTypes
      <3>3. Known(t)'
        BY <1>1, <2>1, <3>1, <3>2
        DEF Known, Readable, MatchesMarker, Recorded, Drifted, AllSound, Names
      <3>4. QED
        BY <3>1, <3>3, GoesOn
    <2>2. CASE ~(report[t] = "ok" /\ opt[t].attest /\ Readable(marker))
      BY <1>3, <2>2, EndsKnown DEF Attest, At
    <2>3. QED
      BY <2>1, <2>2
  <1>4. CASE Stamp(t)
    BY <1>4, EndsKnown DEF Stamp, At
  <1>5. CASE \E o \in VerifyRequests, e \in Explicit : BeginVerify(t, o, e)
    <2>1. PICK o \in VerifyRequests, e \in Explicit : BeginVerify(t, o, e)
      BY <1>5
    <2>2. \A u \in Tools : pc[u] = "idle"
      BY <2>1, NothingElseStarts DEF BeginVerify
    <2>3. /\ pc'[t] = "compare"
          /\ \A u \in Tools \ {t} : pc'[u] = pc[u] /\ opt'[u] = opt[u]
      BY <1>1, <2>1 DEF BeginVerify, Goto, RunTypes
    <2>4. Known(t)'
      BY <2>3 DEF Known
    <2>5. QED
      BY <1>1, <2>2, <2>3, <2>4, OthersKnow DEF RunInv
  <1>6. QED
    BY <1>2, <1>3, <1>4, <1>5

LEMMA InitRunInv == Init => RunInv
  <1> SUFFICES ASSUME Init PROVE RunInv
    OBVIOUS
  <1>1. \A t \in Tools : pc[t] = "idle"
    BY DEF Init
  <1>2. QED
    BY <1>1, InitMarkerInv DEF RunInv, Known

LEMMA NextRunInv ==
  ASSUME MaxTools = 1, RunInv, [Next]_vars
  PROVE  RunInv'
  <1>1. MarkerInv'
    BY NextMarkerInv DEF RunInv
  <1>2. ASSUME UNCHANGED <<dir, marker, runVars>>
        PROVE  \A t \in Tools : Known(t)'
    BY <1>2
    DEF RunInv, Known, runVars, Names, AllSound, FileRecords, Readable,
        MatchesMarker, Recorded, Drifted, Deserved, Opened, OpenedIfThere, Present
  <1>3. CASE ServerStep
    BY <1>1, <1>2, <1>3
    DEF RunInv, ServerStep, ServerStart, ServerStat, ServerEvaluate, ServerLoad, ServerStop
  <1>4. CASE UNCHANGED vars
    BY <1>1, <1>2, <1>4 DEF vars, RunInv
  <1>5. CASE \E f \in Files : Rewrite(f)
    <2>1. MayStart /\ UNCHANGED runVars
      BY <1>5 DEF Rewrite
    <2>2. \A t \in Tools : pc[t] = "idle"
      BY <2>1, NothingElseStarts
    <2>3. \A t \in Tools : Known(t)'
      BY <2>1, <2>2 DEF RunInv, Known, runVars
    <2>4. QED
      BY <1>1, <2>3 DEF RunInv
  <1>6. CASE \E t \in Provisioners :
               ProvisionerStep(t) \/ \E o \in ProvisionRequests : BeginProvision(t, o)
    BY <1>1, <1>6, ProvisionKnown, SmokeKnown DEF RunInv, ProvisionerStep, Tools
  <1>7. CASE \E t \in Verifiers :
               \/ VerifierStep(t)
               \/ \E o \in VerifyRequests, e \in Explicit : BeginVerify(t, o, e)
    BY <1>1, <1>7, VerifyKnown, ProvisionKnown, SmokeKnown DEF RunInv, VerifierStep, Tools
  <1>8. QED
    BY <1>3, <1>4, <1>5, <1>6, <1>7 DEF Next

-----------------------------------------------------------------------------
(* Who writes a marker, and who says what.                                 *)

LEMMA WhoWrites ==
  ASSUME [Next]_vars, marker' # marker
  PROVE  \/ \E t \in Provisioners : Condemn(t) \/ Vouch(t)
         \/ \E t \in Verifiers : Stamp(t)
  <1>1. ASSUME NEW t \in Provisioners, ProvisionerStep(t)
        PROVE  Condemn(t) \/ Vouch(t)
    BY <1>1
    DEF ProvisionerStep, Refuse, UpToDate, StartExport, ExportPhase, ExportFails,
        ExportDone, SmokeStep, Structural, EndToEnd, HashFiles, Kill
  <1>2. ASSUME NEW t \in Verifiers, VerifierStep(t)
        PROVE  Stamp(t)
    BY <1>2 DEF VerifierStep, Compare, SmokeStep, Structural, EndToEnd, Attest, Kill
  <1>3. QED
    BY <1>1, <1>2
    DEF Next, vars, BeginProvision, BeginVerify, Rewrite, ServerStep, ServerStart,
        ServerStat, ServerEvaluate, ServerLoad, ServerStop

LEMMA EndsSays ==
  ASSUME NEW t \in Tools, NEW how, Ends(t, how), NEW u \in Tools
  PROVE  outcome'[u] = IF u = t THEN how ELSE "none"
  BY DEF Ends, Quiet

LEMMA ProvisionerSays ==
  ASSUME NEW t \in Tools, NEW u \in Tools,
         outcome'[u] \in {"provisioned", "ok"}, ProvisionerStep(t)
  PROVE  u = t /\ outcome'[u] = "provisioned" /\ Vouch(t)
         /\ marker' = PassMarker(opt[t], recs[t])
  <1>1. ASSUME outcome' = Quiet
        PROVE  FALSE
    BY <1>1 DEF Quiet
  <1>2. ASSUME NEW how, Ends(t, how)
        PROVE  u = t /\ outcome'[u] = how
    BY <1>2, EndsSays
  <1>3. CASE Refuse(t) \/ UpToDate(t) \/ ExportFails(t) \/ Condemn(t) \/ Kill(t)
    BY <1>2, <1>3 DEF Refuse, UpToDate, ExportFails, Condemn, Kill
  <1>4. CASE SmokeStep(t)
    BY <1>1, <1>2, <1>4 DEF SmokeStep, Structural, EndToEnd, SmokeEnds
  <1>5. CASE HashFiles(t)
    BY <1>1, <1>2, <1>5 DEF HashFiles
  <1>6. CASE StartExport(t) \/ ExportPhase(t) \/ ExportDone(t)
    BY <1>1, <1>6 DEF StartExport, ExportPhase, ExportDone
  <1>7. CASE Vouch(t)
    BY <1>2, <1>7 DEF Vouch
  <1>8. QED
    BY <1>3, <1>4, <1>5, <1>6, <1>7 DEF ProvisionerStep

LEMMA VerifierSays ==
  ASSUME RunTypes, NEW t \in Tools, NEW u \in Tools,
         outcome'[u] \in {"provisioned", "ok"}, VerifierStep(t)
  PROVE  u = t /\ outcome'[u] = "ok" /\ (Stamp(t) \/ (Attest(t) /\ report[t] = "ok"))
  <1>1. ASSUME outcome' = Quiet
        PROVE  FALSE
    BY <1>1 DEF Quiet
  <1>2. ASSUME NEW how, Ends(t, how)
        PROVE  u = t /\ outcome'[u] = how
    BY <1>2, EndsSays
  <1>3. CASE Compare(t)
    BY <1>1, <1>2, <1>3 DEF Compare
  <1>4. CASE SmokeStep(t)
    BY <1>1, <1>2, <1>4 DEF SmokeStep, Structural, EndToEnd, SmokeEnds
  <1>5. CASE Attest(t)
    <2>1. report[t] # "provisioned"
      BY DEF RunTypes, Reports
    <2>2. QED
      BY <1>1, <1>2, <1>5, <2>1 DEF Attest
  <1>6. CASE Stamp(t) \/ Kill(t)
    BY <1>2, <1>6 DEF Stamp, Kill
  <1>7. QED
    BY <1>3, <1>4, <1>5, <1>6 DEF VerifierStep

LEMMA WhoSays ==
  ASSUME RunTypes, Next, NEW u \in Tools, outcome'[u] \in {"provisioned", "ok"}
  PROVE  \/ u \in Provisioners /\ outcome'[u] = "provisioned" /\ Vouch(u)
              /\ marker' = PassMarker(opt[u], recs[u])
         \/ u \in Verifiers /\ outcome'[u] = "ok"
              /\ (Stamp(u) \/ (Attest(u) /\ report[u] = "ok"))
  <1>1. outcome' # Quiet
    BY DEF Quiet
  <1>2. CASE \E t \in Provisioners : ProvisionerStep(t)
    BY <1>2, ProvisionerSays DEF Tools
  <1>3. CASE \E t \in Verifiers : VerifierStep(t)
    BY <1>3, VerifierSays DEF Tools
  <1>4. QED
    BY <1>1, <1>2, <1>3
    DEF Next, BeginProvision, BeginVerify, Rewrite, ServerStep, ServerStart,
        ServerStat, ServerEvaluate, ServerLoad, ServerStop

-----------------------------------------------------------------------------
(* One process at a time: only a provisioning run that has just exported   *)
(* says where the bytes came from; re-attestation changes what a marker    *)
(* says of the smoke test and nothing else (mod.rs attest).                *)
THEOREM ProvenanceIsExports ==
  ASSUME MaxTools = 1
  PROVE  Spec => ProvenanceFromExport
  <1>1. RunInv /\ [Next]_vars => RunInv'
    BY NextRunInv
  <1>2. ASSUME RunInv, [Next]_vars
        PROVE  KeepsProvenance
    <2>1. SUFFICES ASSUME marker' # marker,
                          \A t \in Provisioners : pc[t] \notin {"condemn", "vouch"}
                   PROVE  /\ Readable(marker) /\ marker'.files = marker.files
                          /\ marker'.set = marker.set /\ marker'.recipe = marker.recipe
      BY DEF KeepsProvenance
    <2>2. PICK t \in Verifiers : Stamp(t)
      BY <1>2, <2>1, WhoWrites DEF Condemn, Vouch, At
    <2>3. /\ pc[t] = "stamp" /\ t \in Tools
          /\ marker' = [seen[t] EXCEPT !.smoke = "pass", !.error = "ok"]
      BY <2>1, <2>2 DEF Stamp, At, Tools
    <2>4. seen[t] = marker /\ Readable(marker) /\ seen[t] \in Marker
      BY <1>2, <2>3 DEF RunInv, Known, MarkerInv, TypeInv, StampHasRead
    <2>5. QED
      BY <2>3, <2>4 DEF Marker
  <1>3. QED
    BY <1>1, <1>2, InitRunInv, PTL DEF Spec, ProvenanceFromExport

(* What a run that passed the smoke test records is a marker the stat-only *)
(* evaluation calls verified over the same directory.                      *)
LEMMA FreshMarkerVerifies ==
  ASSUME NEW d \in Directory, NEW o \in Options,
         AllSound(d, RequiredFiles(o.set, o.gender)),
         NEW m, m = PassMarker(o, FileRecords(d, RequiredFiles(o.set, o.gender)))
  PROVE  Evaluate(d, m, o.set) = "verified" /\ \A f \in Recorded(m) : m.files[f] = d[f]
  <1> DEFINE names == RequiredFiles(o.set, o.gender)
  <1>1. names \subseteq Files
    BY DEF RequiredFiles, Files
  <1>2. FileRecords(d, names) \in Directory
    BY <1>1, RecordsType
  <1>3. o.set \in ModelSets /\ m \in Marker
    BY <1>2, PassMarkerType DEF Options
  <1>4. /\ m.files = FileRecords(d, names) /\ m.set = o.set /\ m.smoke = "pass"
        /\ m.schema = MARKER_SCHEMA /\ m.recipe = EXPORT_RECIPE_VERSION
    BY DEF PassMarker
  <1>5. \A f \in Recorded(m) : m.files[f] = d[f] /\ m.files[f] # Absent
    BY <1>4 DEF Recorded, FileRecords
  <1>6. ~KnownBad(d, m)
    BY <1>4, <1>5 DEF KnownBad, SameLength, Present
  <1>7. ~Outdated(m, o.set)
    BY <1>3, <1>4 DEF Outdated, Covers
  <1>8. Interpretable(m)
    BY <1>3, <1>4, MarkerAssumption DEF Interpretable, Readable, MARKER_SCHEMA
  <1>9. QED
    BY <1>5, <1>6, <1>7, <1>8 DEF Evaluate

(* One process at a time: provision-models says "provisioned" only over a  *)
(* directory that holds everything it was asked for, sound, recorded as it *)
(* is, and verified for the startup gate (mod.rs provision).               *)
THEOREM ProvisionedTellsTheTruth ==
  ASSUME MaxTools = 1
  PROVE  Spec => ProvisionedIsVerified
  <1>1. RunInv /\ [Next]_vars => RunInv'
    BY NextRunInv
  <1>2. ASSUME RunInv, Next
        PROVE  ProvisionsVerified
    <2>1. SUFFICES ASSUME NEW t \in Provisioners, outcome'[t] = "provisioned"
                   PROVE  /\ Evaluate(dir', marker', opt[t].set) = "verified"
                          /\ AllSound(dir', RequiredFiles(opt[t].set, opt[t].gender))
                          /\ \A f \in Recorded(marker') : marker'.files[f] = dir'[f]
      BY DEF ProvisionsVerified
    <2>2. RunTypes /\ dir \in Directory /\ t \in Tools
      BY <1>2, TypeInvParts DEF RunInv, MarkerInv, Tools
    <2>3. Vouch(t) /\ marker' = PassMarker(opt[t], recs[t])
      BY <1>2, <2>1, <2>2, WhoSays
    <2>4. pc[t] = "vouch" /\ dir' = dir /\ opt[t] \in Options
      BY <2>2, <2>3 DEF Vouch, At, RunTypes
    <2>5. AllSound(dir, Names(t)) /\ recs[t] = FileRecords(dir, Names(t))
      BY <1>2, <2>2, <2>4 DEF RunInv, Known
    <2>6. /\ Evaluate(dir, marker', opt[t].set) = "verified"
          /\ \A f \in Recorded(marker') : marker'.files[f] = dir[f]
      BY <2>2, <2>3, <2>4, <2>5, FreshMarkerVerifies DEF Names
    <2>7. QED
      BY <2>4, <2>5, <2>6 DEF Names
  <1>3. QED
    BY <1>1, <1>2, InitRunInv, PTL DEF Spec, ProvisionedIsVerified

(* One process at a time: verify-models says "ok" only over the very bytes *)
(* the marker recorded, all of them sound, also where a stat would see no  *)
(* difference (verify.rs verify_deep, cli.rs run_verify).                  *)
THEOREM DeepVerifyTellsTheTruth ==
  ASSUME MaxTools = 1
  PROVE  Spec => DeepVerifyIsExact
  <1>1. RunInv /\ [Next]_vars => RunInv'
    BY NextRunInv
  <1>2. ASSUME RunInv, Next
        PROVE  VerifiesExactly
    <2>1. SUFFICES ASSUME NEW t \in Verifiers, outcome'[t] = "ok"
                   PROVE  /\ AllSound(dir, Names(t)) /\ Readable(marker)
                          /\ MatchesMarker(dir, marker)
      BY DEF VerifiesExactly, AllSound, Names, MatchesMarker, Drifted
    <2>2. RunTypes /\ t \in Tools
      BY <1>2, TypeInvParts DEF RunInv, MarkerInv, Tools
    <2>3. Stamp(t) \/ (Attest(t) /\ report[t] = "ok")
      BY <1>2, <2>1, <2>2, WhoSays
    <2>4. pc[t] = "stamp" \/ (pc[t] = "attest" /\ report[t] = "ok")
      BY <2>3 DEF Stamp, Attest, At
    <2>5. QED
      BY <1>2, <2>2, <2>4 DEF RunInv, Known
  <1>3. QED
    BY <1>1, <1>2, InitRunInv, PTL DEF Spec, DeepVerifyIsExact

(* One process at a time, whatever the clip, the device and the machine:   *)
(* a marker comes to say "fail" only at the hands of a provisioning run,   *)
(* with an error that is still true of the directory and the run when it   *)
(* is written, and never because of the device (mod.rs                     *)
(* should_record_failure).                                                 *)
THEOREM FailureIsDeserved ==
  ASSUME MaxTools = 1
  PROVE  Spec => FailIsDeserved
  <1>1. RunInv /\ [Next]_vars => RunInv'
    BY NextRunInv
  <1>2. ASSUME RunInv, [Next]_vars
        PROVE  FailsDeservedly
    <2>1. SUFFICES ASSUME marker' # marker, Readable(marker'), marker'.smoke = "fail"
                   PROVE  \E t \in Provisioners :
                            At(t, "condemn") /\ Deserved(dir, opt[t], marker'.error)
      BY DEF FailsDeservedly
    <2>2. ASSUME NEW t \in Verifiers, Stamp(t)
          PROVE  FALSE
      <3>1. t \in Tools /\ pc[t] = "stamp"
            /\ marker' = [seen[t] EXCEPT !.smoke = "pass", !.error = "ok"]
        BY <2>1, <2>2 DEF Stamp, At, Tools
      <3>2. seen[t] \in Marker
        BY <1>2, <3>1 DEF RunInv, MarkerInv, TypeInv, StampHasRead
      <3>3. QED
        BY <2>1, <3>1, <3>2 DEF Marker
    <2>3. ASSUME NEW t \in Provisioners, Vouch(t)
          PROVE  FALSE
      BY <2>1, <2>3 DEF Vouch, PassMarker
    <2>4. PICK t \in Provisioners : Condemn(t)
      BY <1>2, <2>1, <2>2, <2>3, WhoWrites
    <2>5. t \in Tools /\ pc[t] = "condemn" /\ marker'.error = verdict[t]
      BY <2>1, <2>4 DEF Condemn, At, Tools, FailMarker
    <2>6. QED
      BY <1>2, <2>5 DEF RunInv, Known, At
  <1>3. QED
    BY <1>1, <1>2, InitRunInv, PTL DEF Spec, FailIsDeserved
=============================================================================
