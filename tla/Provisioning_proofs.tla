-------------------------- MODULE Provisioning_proofs --------------------------
(***************************************************************************)
(* Theorems of Provisioning, for every directory, every set of tools and  *)
(* every content.  Type correctness holds however many tools overlap; that *)
(* a passing marker vouches for sound bytes needs tools that do not.       *)
(***************************************************************************)
EXTENDS Provisioning, FiniteSetTheorems, TLAPS

-----------------------------------------------------------------------------
(* What the actions need besides the types: a tool that stamps has read a  *)
(* marker.                                                                 *)
StampHasRead == \A t \in Tools : pc[t] = "stamp" => seen[t] \in Marker

TypeInv == TypeOK /\ StampHasRead

(* The part of TypeOK about what the tools hold in memory. *)
RunTypes ==
  /\ pc \in [Tools -> PC]
  /\ opt \in [Tools -> Options]
  /\ phase \in [Tools -> 1..5]
  /\ verdict \in [Tools -> Verdicts]
  /\ recs \in [Tools -> Directory]
  /\ report \in [Tools -> Reports]
  /\ seen \in [Tools -> Marker \cup {NoMarker}]
  /\ outcome \in [Tools -> Outcomes]

LEMMA NoRecordsType == NoRecords \in Directory
  BY DEF NoRecords, Directory

LEMMA RecordsType ==
  ASSUME NEW d \in Directory, NEW names
  PROVE  FileRecords(d, names) \in Directory
  BY DEF FileRecords, Directory

(* The markers the code writes are markers. *)
LEMMA FailMarkerType ==
  ASSUME NEW o \in Options, NEW v \in Verdicts
  PROVE  FailMarker(o, v) \in Marker
  BY NoRecordsType
  DEF FailMarker, Marker, Options, ModelSets, MARKER_SCHEMA, EXPORT_RECIPE_VERSION

LEMMA PassMarkerType ==
  ASSUME NEW o, o.set \in ModelSets, NEW records \in Directory
  PROVE  PassMarker(o, records) \in Marker
  BY DEF PassMarker, Marker, Verdicts, MARKER_SCHEMA, EXPORT_RECIPE_VERSION

LEMMA ServingSetType ==
  ASSUME NEW m, NEW explicit \in Explicit
  PROVE  ServingSet(m, explicit) \in ModelSets
  BY DEF ServingSet, Explicit, ModelSets

LEMMA DefaultOptionsType == DefaultOptions \in Options
  BY DEF DefaultOptions, Options, ModelSets, AllDevices, AllClips

LEMMA EvaluateType ==
  ASSUME NEW d, NEW m, NEW wanted
  PROVE  Evaluate(d, m, wanted) \in ModelsStates
  BY DEF Evaluate, ModelsStates

(* A run that ends leaves nothing in memory that is not of its type. *)
LEMMA EndsType ==
  ASSUME RunTypes, NEW t \in Tools, NEW how \in Outcomes, Ends(t, how)
  PROVE  RunTypes' /\ (StampHasRead => StampHasRead')
  <1>1. DefaultOptions \in Options
    BY DefaultOptionsType
  <1>2. NoRecords \in Directory
    BY NoRecordsType
  <1>3. RunTypes'
    BY <1>1, <1>2 DEF Ends, RunTypes, PC, Verdicts, Reports, Quiet, Outcomes
  <1>4. StampHasRead => StampHasRead'
    BY DEF Ends, RunTypes, StampHasRead
  <1>5. QED
    BY <1>3, <1>4

LEMMA QuietType == Quiet \in [Tools -> Outcomes]
  BY DEF Quiet, Outcomes

LEMMA SmokeEndsType ==
  ASSUME RunTypes, NEW t \in Tools, NEW v \in Verdicts, SmokeEnds(t, v)
  PROVE  RunTypes' /\ (StampHasRead => StampHasRead')
  <1>1. CASE Ends(t, "device_unavailable")
    BY <1>1, EndsType DEF Outcomes
  <1>2. CASE Ends(t, "smoke_failed")
    BY <1>2, EndsType DEF Outcomes
  <1>3. CASE /\ Goto(t, "condemn")
             /\ verdict' = [verdict EXCEPT ![t] = v]
             /\ outcome' = Quiet
             /\ UNCHANGED <<opt, phase, recs, report, seen>>
    BY <1>3, QuietType DEF RunTypes, Goto, PC, StampHasRead
  <1>4. QED
    BY <1>1, <1>2, <1>3 DEF SmokeEnds

LEMMA FaultType ==
  ASSUME faults \in 0..MaxFaults, Fault \/ NoFault
  PROVE  faults' \in 0..MaxFaults
  BY ToolAssumption DEF Fault, NoFault

-----------------------------------------------------------------------------
LEMMA InitTypeInv == Init => TypeInv
  <1> SUFFICES ASSUME Init PROVE TypeInv
    OBVIOUS
  <1>1. dir \in Directory
    BY ToolAssumption DEF Init, Directory
  <1>2. marker \in MarkerFile
    <2>1. CASE marker \in {NoMarker, Unreadable}
      BY <2>1 DEF MarkerFile
    <2>2. CASE marker \notin {NoMarker, Unreadable}
      <3>1. PICK s \in ModelSets, g \in BOOLEAN, r \in {1, 2} :
              marker = [PassMarker([set |-> s], FileRecords(dir, RequiredFiles(s, g)))
                          EXCEPT !.recipe = r]
        BY <2>2 DEF Init, InitialMarkers
      <3>2. PassMarker([set |-> s], FileRecords(dir, RequiredFiles(s, g))) \in Marker
        BY <1>1, RecordsType, PassMarkerType
      <3>3. marker \in Marker
        BY <3>1, <3>2 DEF Marker
      <3>4. QED
        BY <3>3 DEF MarkerFile
    <2>3. QED
      BY <2>1, <2>2
  <1>3. RunTypes
    BY DefaultOptionsType, NoRecordsType, QuietType
    DEF Init, RunTypes, PC, Verdicts, Reports
  <1>4. srv \in Server
    BY DEF Init, Down, Server, ServerStates, ModelSets
  <1>5. faults \in 0..MaxFaults
    BY ToolAssumption DEF Init
  <1>6. StampHasRead
    BY DEF Init, StampHasRead
  <1>7. QED
    BY <1>1, <1>2, <1>3, <1>4, <1>5, <1>6 DEF TypeInv, TypeOK, RunTypes

(* TypeInv in the parts an action can disturb. *)
LEMMA TypeInvParts ==
  /\ TypeInv <=> /\ dir \in Directory
                 /\ marker \in MarkerFile
                 /\ RunTypes
                 /\ srv \in Server
                 /\ faults \in 0..MaxFaults
                 /\ StampHasRead
  /\ TypeInv' <=> /\ dir' \in Directory
                  /\ marker' \in MarkerFile
                  /\ RunTypes'
                  /\ srv' \in Server
                  /\ faults' \in 0..MaxFaults
                  /\ StampHasRead'
  BY DEF TypeInv, TypeOK, RunTypes

(* A step to another label leaves what the tool holds in memory alone. *)
LEMMA GotoType ==
  ASSUME RunTypes, NEW t \in Tools, NEW label \in PC \ {"stamp"}, Goto(t, label),
         outcome' = Quiet,
         UNCHANGED <<opt, phase, verdict, recs, report, seen>>
  PROVE  RunTypes' /\ (StampHasRead => StampHasRead')
  BY QuietType DEF RunTypes, Goto, StampHasRead

LEMMA ExportTypeInv ==
  ASSUME TypeInv, NEW t \in Tools,
         ExportPhase(t) \/ ExportFails(t) \/ ExportDone(t)
  PROVE  TypeInv'
  <1> USE TypeInvParts
  <1>1. CASE ExportPhase(t)
    <2>1. PICK new \in [PhaseFiles(t) -> Contents \ {Torn}] :
            dir' = IF phase[t] = 4
                   THEN IF opt[t].set = "small" THEN Trimmed(dir) ELSE dir
                   ELSE [f \in Files |-> IF f \in PhaseFiles(t) THEN new[f] ELSE dir[f]]
      BY <1>1 DEF ExportPhase
    <2>2. dir' \in Directory
      BY <2>1 DEF Directory, Trimmed
    <2>3. phase' \in [Tools -> 1..5]
      BY <1>1 DEF ExportPhase, RunTypes
    <2>4. RunTypes' /\ StampHasRead'
      BY <1>1, <2>3, QuietType DEF ExportPhase, RunTypes, StampHasRead
    <2>5. faults' \in 0..MaxFaults
      BY <1>1, FaultType DEF ExportPhase
    <2>6. QED
      BY <1>1, <2>2, <2>4, <2>5 DEF ExportPhase
  <1>2. CASE ExportFails(t)
    <2>1. dir' \in Directory
      BY <1>2, ToolAssumption DEF ExportFails, Directory
    <2>2. RunTypes' /\ StampHasRead'
      BY <1>2, EndsType DEF ExportFails, Outcomes
    <2>3. faults' \in 0..MaxFaults
      BY <1>2, FaultType DEF ExportFails
    <2>4. QED
      BY <1>2, <2>1, <2>2, <2>3 DEF ExportFails
  <1>3. CASE ExportDone(t)
    <2>1. RunTypes' /\ StampHasRead'
      BY <1>3, GotoType DEF ExportDone, PC
    <2>2. QED
      BY <1>3, <2>1 DEF ExportDone
  <1>4. QED
    BY <1>1, <1>2, <1>3

LEMMA SmokeTypeInv ==
  ASSUME TypeInv, NEW t \in Tools, SmokeStep(t)
  PROVE  TypeInv'
  <1> USE TypeInvParts
  <1>1. CASE Structural(t)
    <2> DEFINE v == StructuralVerdict(dir, opt[t])
    <2>1. v \in Verdicts
      BY DEF StructuralVerdict, Verdicts
    <2>2. CASE v # "ok"
      BY <1>1, <2>1, <2>2, SmokeEndsType DEF Structural
    <2>3. CASE v = "ok"
      <3>1. RunTypes' /\ StampHasRead'
        BY <1>1, <2>3, GotoType DEF Structural, PC
      <3>2. QED
        BY <1>1, <3>1 DEF Structural
    <2>4. QED
      BY <2>2, <2>3
  <1>2. CASE EndToEnd(t)
    <2>1. PICK v \in EndToEndVerdicts(dir, opt[t], Flaky) :
            /\ IF FailsSound(t, v) THEN Fault ELSE NoFault
            /\ IF v # "ok" THEN SmokeEnds(t, v)
               ELSE /\ Goto(t, IF t \in Verifiers THEN "attest" ELSE "hash")
                    /\ outcome' = Quiet
                    /\ UNCHANGED <<opt, phase, verdict, recs, report, seen>>
      BY <1>2 DEF EndToEnd
    <2>2. v \in Verdicts
      BY DEF EndToEndVerdicts, Verdicts
    <2>3. faults' \in 0..MaxFaults
      BY <2>1, FaultType
    <2>4. CASE v # "ok"
      BY <1>2, <2>1, <2>2, <2>3, <2>4, SmokeEndsType DEF EndToEnd
    <2>5. CASE v = "ok"
      <3>1. RunTypes' /\ StampHasRead'
        BY <2>1, <2>5, GotoType DEF PC
      <3>2. QED
        BY <1>2, <2>3, <3>1 DEF EndToEnd
    <2>6. QED
      BY <2>4, <2>5
  <1>3. QED
    BY <1>1, <1>2 DEF SmokeStep

LEMMA ProvisionTypeInv ==
  ASSUME TypeInv, NEW t \in Tools,
         \/ Refuse(t) \/ UpToDate(t) \/ StartExport(t)
         \/ Condemn(t) \/ HashFiles(t) \/ Vouch(t)
         \/ \E o \in ProvisionRequests : BeginProvision(t, o)
  PROVE  TypeInv'
  <1> USE TypeInvParts
  <1>1. CASE Refuse(t)
    <2>1. RunTypes' /\ StampHasRead' /\ faults' \in 0..MaxFaults
      BY <1>1, EndsType, FaultType DEF Refuse, Outcomes
    <2>2. QED
      BY <1>1, <2>1 DEF Refuse
  <1>2. CASE UpToDate(t)
    <2>1. RunTypes' /\ StampHasRead'
      BY <1>2, EndsType DEF UpToDate, Outcomes
    <2>2. QED
      BY <1>2, <2>1 DEF UpToDate
  <1>3. CASE StartExport(t)
    <2>1. RunTypes' /\ StampHasRead'
      BY <1>3, GotoType DEF StartExport, PC
    <2>2. QED
      BY <1>3, <2>1 DEF StartExport
  <1>4. CASE Condemn(t)
    <2>1. marker' \in MarkerFile
      BY <1>4, FailMarkerType DEF Condemn, MarkerFile, RunTypes
    <2>2. RunTypes' /\ StampHasRead' /\ faults' \in 0..MaxFaults
      BY <1>4, EndsType, FaultType DEF Condemn, Outcomes
    <2>3. QED
      BY <1>4, <2>1, <2>2 DEF Condemn
  <1>5. CASE HashFiles(t)
    <2> DEFINE names == RequiredFiles(opt[t].set, opt[t].gender)
    <2>1. CASE \E f \in names : ~Present(dir, f)
      <3>1. RunTypes' /\ StampHasRead'
        BY <1>5, <2>1, EndsType DEF HashFiles, Outcomes
      <3>2. QED
        BY <1>5, <3>1 DEF HashFiles
    <2>2. CASE ~\E f \in names : ~Present(dir, f)
      <3>1. FileRecords(dir, names) \in Directory
        BY RecordsType
      <3>2. RunTypes' /\ StampHasRead'
        BY ZenonT(40), <1>5, <2>2, <3>1, QuietType DEF HashFiles, Goto, RunTypes, PC, StampHasRead
      <3>3. QED
        BY <1>5, <3>2 DEF HashFiles
    <2>3. QED
      BY <2>1, <2>2
  <1>6. CASE Vouch(t)
    <2>1. opt[t].set \in ModelSets /\ recs[t] \in Directory
      BY DEF RunTypes, Options
    <2>2. marker' \in MarkerFile
      BY <1>6, <2>1, PassMarkerType DEF Vouch, MarkerFile
    <2>3. RunTypes' /\ StampHasRead' /\ faults' \in 0..MaxFaults
      BY <1>6, EndsType, FaultType DEF Vouch, Outcomes
    <2>4. QED
      BY <1>6, <2>2, <2>3 DEF Vouch
  <1>7. CASE \E o \in ProvisionRequests : BeginProvision(t, o)
    <2>1. PICK o \in ProvisionRequests : BeginProvision(t, o)
      BY <1>7
    <2>2. RunTypes' /\ StampHasRead'
      BY <2>1, QuietType
      DEF BeginProvision, ProvisionRequests, Asked, Goto, RunTypes, PC, StampHasRead
    <2>3. faults' \in 0..MaxFaults
      BY <2>1, FaultType DEF BeginProvision
    <2>4. QED
      BY <2>1, <2>2, <2>3 DEF BeginProvision
  <1>8. QED
    BY <1>1, <1>2, <1>3, <1>4, <1>5, <1>6, <1>7

LEMMA VerifyTypeInv ==
  ASSUME TypeInv, NEW t \in Tools,
         \/ Compare(t) \/ Attest(t) \/ Stamp(t)
         \/ \E o \in VerifyRequests, e \in Explicit : BeginVerify(t, o, e)
  PROVE  TypeInv'
  <1> USE TypeInvParts
  <1>1. CASE Compare(t)
    <2>1. CASE marker = Unreadable
      BY <1>1, <2>1, EndsType DEF Compare, Outcomes
    <2>2. CASE marker # Unreadable
      <3>1. RunTypes' /\ StampHasRead'
        BY <1>1, <2>2, QuietType DEF Compare, Goto, RunTypes, PC, Reports, StampHasRead
      <3>2. QED
        BY <1>1, <3>1 DEF Compare
    <2>3. QED
      BY <2>1, <2>2
  <1>2. CASE Attest(t)
    <2>1. CASE report[t] = "ok" /\ opt[t].attest /\ Readable(marker)
      <3>1. marker \in Marker
        BY <2>1 DEF MarkerFile, Readable
      <3>2. RunTypes'
        BY <1>2, <2>1, <3>1, QuietType DEF Attest, Goto, RunTypes, PC
      <3>3. StampHasRead'
        BY <1>2, <2>1, <3>1 DEF Attest, Goto, RunTypes, StampHasRead
      <3>4. QED
        BY <1>2, <3>2, <3>3 DEF Attest
    <2>2. CASE ~(report[t] = "ok" /\ opt[t].attest /\ Readable(marker))
      <3>1. report[t] \in Outcomes
        BY DEF RunTypes, Reports, Outcomes
      <3>2. Ends(t, report[t])
        BY <1>2, <2>2 DEF Attest
      <3>3. RunTypes' /\ StampHasRead'
        BY <3>1, <3>2, EndsType
      <3>4. QED
        BY <1>2, <3>3 DEF Attest
    <2>3. QED
      BY <2>1, <2>2
  <1>3. CASE Stamp(t)
    <2>1. seen[t] \in Marker
      BY <1>3 DEF Stamp, At, StampHasRead
    <2>2. [seen[t] EXCEPT !.smoke = "pass", !.error = "ok"] \in Marker
      BY <2>1 DEF Marker, Verdicts
    <2>3. marker' \in MarkerFile
      BY <1>3, <2>2 DEF Stamp, MarkerFile
    <2>4. RunTypes' /\ StampHasRead' /\ faults' \in 0..MaxFaults
      BY <1>3, EndsType, FaultType DEF Stamp, Outcomes
    <2>5. QED
      BY <1>3, <2>3, <2>4 DEF Stamp
  <1>4. CASE \E o \in VerifyRequests, e \in Explicit : BeginVerify(t, o, e)
    <2>1. PICK o \in VerifyRequests, e \in Explicit : BeginVerify(t, o, e)
      BY <1>4
    <2>2. [o EXCEPT !.set = ServingSet(marker, e), !.gender = Present(dir, GenderModel)]
            \in Options
      BY ServingSetType DEF VerifyRequests, Asked, Options, Present
    <2>3. RunTypes' /\ StampHasRead'
      BY <2>1, <2>2, QuietType DEF BeginVerify, Goto, RunTypes, PC, StampHasRead
    <2>4. faults' \in 0..MaxFaults
      BY <2>1, FaultType DEF BeginVerify
    <2>5. QED
      BY <2>1, <2>3, <2>4 DEF BeginVerify
  <1>5. QED
    BY <1>1, <1>2, <1>3, <1>4

LEMMA KillTypeInv ==
  ASSUME TypeInv, NEW t \in Tools, Kill(t)
  PROVE  TypeInv'
  <1>1. RunTypes' /\ StampHasRead' /\ faults' \in 0..MaxFaults
    BY TypeInvParts, EndsType, FaultType DEF Kill, Outcomes
  <1>2. QED
    BY <1>1, TypeInvParts DEF Kill

LEMMA RewriteTypeInv ==
  ASSUME TypeInv, NEW f \in Files, Rewrite(f)
  PROVE  TypeInv'
  <1>1. dir' \in Directory
    BY TypeInvParts DEF Rewrite, Directory
  <1>2. RunTypes' /\ StampHasRead'
    BY TypeInvParts, QuietType DEF Rewrite, runVars, RunTypes, StampHasRead
  <1>3. faults' \in 0..MaxFaults
    BY TypeInvParts, FaultType DEF Rewrite
  <1>4. QED
    BY <1>1, <1>2, <1>3, TypeInvParts DEF Rewrite

LEMMA ServerTypeInv ==
  ASSUME TypeInv, ServerStep
  PROVE  TypeInv'
  <1> USE TypeInvParts
  <1>1. Down \in Server
    BY DEF Down, Server, ServerStates, ModelSets
  <1>2. RunTypes' /\ StampHasRead' /\ dir' = dir /\ marker' = marker
    BY QuietType
    DEF ServerStep, ServerStart, ServerStat, ServerEvaluate, ServerLoad, ServerStop,
        runVars, RunTypes, StampHasRead
  <1>3. faults' \in 0..MaxFaults
    BY FaultType
    DEF ServerStep, ServerStart, ServerStat, ServerEvaluate, ServerLoad, ServerStop, NoFault
  <1>4. srv' \in Server
    <2>1. CASE \E e \in Explicit, a \in BOOLEAN : ServerStart(e, a)
      <3>1. PICK e \in Explicit, a \in BOOLEAN : ServerStart(e, a)
        BY <2>1
      <3>2. QED
        BY <1>1, <3>1, ServingSetType DEF ServerStart, Server, ServerStates
    <2>2. CASE ServerStat
      BY <1>1, <2>2, EvaluateType DEF ServerStat, Server, ServerStates
    <2>3. CASE ServerEvaluate
      BY <1>1, <2>3, EvaluateType DEF ServerEvaluate, Server, ServerStates
    <2>4. CASE ServerLoad
      <3>1. AllSound(dir, RequiredFiles(srv.set, FALSE)) \in BOOLEAN
        BY DEF AllSound
      <3>2. QED
        BY <1>1, <2>4, <3>1 DEF ServerLoad, Server, ServerStates
    <2>5. CASE ServerStop
      BY <1>1, <2>5 DEF ServerStop
    <2>6. QED
      BY <2>1, <2>2, <2>3, <2>4, <2>5 DEF ServerStep
  <1>5. QED
    BY <1>2, <1>3, <1>4

LEMMA NextTypeInv ==
  ASSUME TypeInv, [Next]_vars
  PROVE  TypeInv'
  <1>1. CASE \E t \in Provisioners :
               ProvisionerStep(t) \/ \E o \in ProvisionRequests : BeginProvision(t, o)
    <2>1. PICK t \in Provisioners :
            ProvisionerStep(t) \/ \E o \in ProvisionRequests : BeginProvision(t, o)
      BY <1>1
    <2>2. t \in Tools
      BY DEF Tools
    <2>3. QED
      BY <2>1, <2>2, ProvisionTypeInv, ExportTypeInv, SmokeTypeInv, KillTypeInv
      DEF ProvisionerStep
  <1>2. CASE \E t \in Verifiers :
               \/ VerifierStep(t)
               \/ \E o \in VerifyRequests, e \in Explicit : BeginVerify(t, o, e)
    <2>1. PICK t \in Verifiers :
            \/ VerifierStep(t)
            \/ \E o \in VerifyRequests, e \in Explicit : BeginVerify(t, o, e)
      BY <1>2
    <2>2. t \in Tools
      BY DEF Tools
    <2>3. QED
      BY <2>1, <2>2, VerifyTypeInv, SmokeTypeInv, KillTypeInv DEF VerifierStep
  <1>3. CASE \E f \in Files : Rewrite(f)
    BY <1>3, RewriteTypeInv
  <1>4. CASE ServerStep
    BY <1>4, ServerTypeInv
  <1>5. CASE UNCHANGED vars
    BY <1>5 DEF vars, runVars, TypeInv, TypeOK, StampHasRead
  <1>6. QED
    BY <1>1, <1>2, <1>3, <1>4, <1>5 DEF Next

(* Every variable keeps its type in every behaviour, however many tools    *)
(* overlap (the state of provision/mod.rs, verify.rs and the startup gate). *)
THEOREM TypeCorrect == Spec => []TypeOK
  <1>1. Init => TypeInv
    BY InitTypeInv
  <1>2. TypeInv /\ [Next]_vars => TypeInv'
    BY NextTypeInv
  <1>3. TypeInv => TypeOK
    BY DEF TypeInv
  <1>4. QED
    BY <1>1, <1>2, <1>3, PTL DEF Spec

-----------------------------------------------------------------------------
(* The inductive invariant behind the marker's promise.  It holds when the *)
(* operator lets one process at a time work on the directory: with two, a  *)
(* verifier that found the marker in order reads it again in attest, and   *)
(* may stamp the failure a provisioner recorded in between.                *)

(* Nobody works next to anybody else. *)
Alone ==
  /\ \A t, u \in Tools : pc[t] # "idle" /\ pc[u] # "idle" => t = u
  /\ \A t \in Tools : pc[t] # "idle" => ~Starting

(* Every marker either vouches for sound bytes or records a failure and no *)
(* hashes at all.                                                          *)
MarkerSane ==
  Readable(marker) =>
    Vouches(marker) \/ (marker.smoke = "fail" /\ marker.files = NoRecords)

(* What each step of a run has established for the steps after it. *)
Established(t) ==
  /\ pc[t] \in {"idle", "check", "export"} => report[t] = "none"
  /\ pc[t] \in {"structural", "endtoend", "attest"} /\ report[t] = "ok" =>
       Readable(marker) /\ Recorded(marker) # {}
  /\ pc[t] = "hash" => AllSound(dir, RequiredFiles(opt[t].set, opt[t].gender))
  /\ pc[t] = "vouch" => Vouches(PassMarker(opt[t], recs[t]))
  /\ pc[t] = "stamp" => Vouches(seen[t])

MarkerInv ==
  /\ TypeInv
  /\ Alone
  /\ MarkerSane
  /\ \A t \in Tools : Established(t)

LEMMA NothingElseStarts ==
  ASSUME MaxTools = 1, MayStart
  PROVE  (\A t \in Tools : pc[t] = "idle") /\ ~Starting
  <1>1. IsFiniteSet(Running)
    BY ToolAssumption, FS_Subset DEF Running
  <1>2. Cardinality(Running) \in Nat
    BY <1>1, FS_CardinalityType
  <1>3. Cardinality(Running) = 0 /\ ~Starting
    BY <1>2 DEF MayStart
  <1>4. Running = {}
    BY <1>1, <1>3, FS_EmptySet
  <1>5. QED
    BY <1>3, <1>4 DEF Running

(* While t works nobody else does: a step of t has only its own part of    *)
(* the invariant to answer for, and the marker.                            *)
LEMMA OwnStep ==
  ASSUME MarkerInv, TypeInv', NEW t \in Tools,
         \/ pc[t] # "idle"
         \/ (\A u \in Tools : pc[u] = "idle") /\ ~Starting,
         \A u \in Tools \ {t} : pc'[u] = pc[u] /\ report'[u] = report[u],
         srv' = srv,
         MarkerSane', Established(t)'
  PROVE  MarkerInv'
  <1>1. \A u \in Tools \ {t} : pc[u] = "idle"
    BY DEF MarkerInv, Alone
  <1>2. ~Starting
    BY DEF MarkerInv, Alone
  <1>3. Alone'
    BY <1>1, <1>2 DEF Alone, Starting
  <1>4. ASSUME NEW u \in Tools \ {t}
        PROVE  Established(u)'
    BY <1>1, <1>4 DEF MarkerInv, Established
  <1>5. QED
    BY <1>3, <1>4 DEF MarkerInv

LEMMA MarkerKept ==
  ASSUME MarkerInv, marker' = marker
  PROVE  MarkerSane'
  BY DEF MarkerInv, MarkerSane, Readable, Vouches, Recorded

LEMMA EndsInv ==
  ASSUME MarkerInv, TypeInv', NEW t \in Tools, NEW how, pc[t] # "idle",
         Ends(t, how), srv' = srv, MarkerSane'
  PROVE  MarkerInv'
  <1>1. RunTypes
    BY TypeInvParts DEF MarkerInv
  <1>2. pc'[t] = "idle" /\ report'[t] = "none"
    BY <1>1 DEF Ends, RunTypes
  <1>3. \A u \in Tools \ {t} : pc'[u] = pc[u] /\ report'[u] = report[u]
    BY <1>1 DEF Ends, RunTypes
  <1>4. Established(t)'
    BY <1>2 DEF Established
  <1>5. QED
    BY <1>3, <1>4, OwnStep

(* A step to a label that promises nothing. *)
LEMMA GotoInv ==
  ASSUME MarkerInv, TypeInv', NEW t \in Tools, NEW label,
         \/ label \in {"condemn", "compare"}
         \/ label \in {"check", "export"} /\ report[t] = "none",
         \/ pc[t] # "idle"
         \/ (\A u \in Tools : pc[u] = "idle") /\ ~Starting,
         Goto(t, label), report' = report, srv' = srv, MarkerSane'
  PROVE  MarkerInv'
  <1>1. RunTypes
    BY TypeInvParts DEF MarkerInv
  <1>2. pc'[t] = label /\ \A u \in Tools \ {t} : pc'[u] = pc[u]
    BY <1>1 DEF Goto, RunTypes
  <1>3. Established(t)'
    BY <1>2 DEF Established
  <1>4. QED
    BY <1>2, <1>3, OwnStep

LEMMA SmokeEndsInv ==
  ASSUME MarkerInv, TypeInv', NEW t \in Tools, NEW v, pc[t] # "idle",
         SmokeEnds(t, v), srv' = srv, marker' = marker
  PROVE  MarkerInv'
  <1>1. MarkerSane'
    BY MarkerKept
  <1>2. CASE \E how : Ends(t, how)
    BY <1>1, <1>2, EndsInv
  <1>3. CASE Goto(t, "condemn") /\ report' = report
    <2>1. "condemn" \in {"condemn", "compare"}
      OBVIOUS
    <2>2. QED
      BY <1>1, <1>3, <2>1, GotoInv
  <1>4. QED
    BY <1>2, <1>3 DEF SmokeEnds

LEMMA ExportMarkerInv ==
  ASSUME MarkerInv, TypeInv', NEW t \in Tools,
         ExportPhase(t) \/ ExportFails(t) \/ ExportDone(t)
  PROVE  MarkerInv'
  <1>1. MarkerSane' /\ srv' = srv /\ pc[t] = "export"
    BY MarkerKept DEF ExportPhase, ExportFails, ExportDone, At
  <1>2. CASE ExportPhase(t)
    <2>1. pc' = pc /\ report' = report
      BY <1>2 DEF ExportPhase
    <2>2. Established(t)'
      BY <1>1, <2>1 DEF MarkerInv, Established
    <2>3. QED
      BY <1>1, <2>1, <2>2, OwnStep
  <1>3. CASE ExportFails(t)
    BY <1>1, <1>3, EndsInv DEF ExportFails
  <1>4. CASE ExportDone(t)
    <2>1. RunTypes
      BY TypeInvParts DEF MarkerInv
    <2>2. pc'[t] = "structural" /\ report' = report /\ \A u \in Tools \ {t} : pc'[u] = pc[u]
      BY <1>4, <2>1 DEF ExportDone, Goto, RunTypes
    <2>3. Established(t)'
      BY <1>1, <2>2 DEF MarkerInv, Established
    <2>4. QED
      BY <1>1, <2>2, <2>3, OwnStep
  <1>5. QED
    BY <1>2, <1>3, <1>4

LEMMA SmokeMarkerInv ==
  ASSUME MarkerInv, TypeInv', NEW t \in Tools, SmokeStep(t)
  PROVE  MarkerInv'
  <1>1. RunTypes
    BY TypeInvParts DEF MarkerInv
  <1>2. /\ MarkerSane' /\ marker' = marker /\ dir' = dir /\ srv' = srv
        /\ pc[t] \in {"structural", "endtoend"}
    BY MarkerKept DEF SmokeStep, Structural, EndToEnd, At
  <1>3. CASE Structural(t)
    <2>1. CASE StructuralVerdict(dir, opt[t]) # "ok"
      BY <1>2, <1>3, <2>1, SmokeEndsInv DEF Structural
    <2>2. CASE StructuralVerdict(dir, opt[t]) = "ok"
      <3>1. pc'[t] = "endtoend" /\ report' = report /\ \A u \in Tools \ {t} : pc'[u] = pc[u]
        BY <1>1, <1>3, <2>2 DEF Structural, Goto, RunTypes
      <3>2. Established(t)'
        BY <1>2, <3>1, <1>3 DEF MarkerInv, Established, Recorded, Readable, Structural, At
      <3>3. QED
        BY <1>2, <3>1, <3>2, OwnStep
    <2>3. QED
      BY <2>1, <2>2
  <1>4. CASE EndToEnd(t)
    <2>1. PICK v \in EndToEndVerdicts(dir, opt[t], Flaky) :
            IF v # "ok" THEN SmokeEnds(t, v)
            ELSE /\ Goto(t, IF t \in Verifiers THEN "attest" ELSE "hash")
                 /\ outcome' = Quiet
                 /\ UNCHANGED <<opt, phase, verdict, recs, report, seen>>
      BY <1>4 DEF EndToEnd
    <2>2. CASE v # "ok"
      BY <1>2, <2>1, <2>2, SmokeEndsInv
    <2>3. CASE v = "ok"
      <3>1. AllSound(dir, RequiredFiles(opt[t].set, opt[t].gender))
        BY <2>3 DEF EndToEndVerdicts
      <3>2. /\ pc'[t] \in {"attest", "hash"} /\ report' = report /\ opt' = opt
            /\ \A u \in Tools \ {t} : pc'[u] = pc[u]
        BY <1>1, <2>1, <2>3 DEF Goto, RunTypes
      <3>3. Established(t)'
        BY <1>2, <3>1, <3>2 DEF MarkerInv, Established, Recorded, Readable, AllSound
      <3>4. QED
        BY <1>2, <3>2, <3>3, OwnStep
    <2>4. QED
      BY <2>2, <2>3
  <1>5. QED
    BY <1>3, <1>4 DEF SmokeStep

(* What hash_files records of a directory that passed is a marker that     *)
(* vouches for it.                                                         *)
LEMMA RecordsVouch ==
  ASSUME NEW d \in Directory, NEW o \in Options,
         AllSound(d, RequiredFiles(o.set, o.gender))
  PROVE  Vouches(PassMarker(o, FileRecords(d, RequiredFiles(o.set, o.gender))))
  <1> DEFINE names == RequiredFiles(o.set, o.gender)
             m == PassMarker(o, FileRecords(d, names))
  <1>1. RequiredFiles(o.set, FALSE) \subseteq names /\ names \subseteq Files
    BY DEF RequiredFiles, Files
  <1>2. m.set = o.set /\ m.files = FileRecords(d, names)
    BY DEF PassMarker
  <1>3. \A f \in names : d[f] \in Sound /\ d[f] # Absent
    BY DirectoryAssumption DEF AllSound
  <1>4. Recorded(m) = names
    BY <1>1, <1>2, <1>3 DEF Recorded, FileRecords
  <1>5. \A f \in Recorded(m) : m.files[f] \in Sound
    BY <1>1, <1>2, <1>3, <1>4 DEF FileRecords
  <1> HIDE DEF names, m
  <1>6. Vouches(m)
    BY <1>1, <1>2, <1>4, <1>5 DEF Vouches
  <1>7. QED
    BY <1>6 DEF names, m

LEMMA ProvisionMarkerInv ==
  ASSUME MaxTools = 1, MarkerInv, TypeInv', NEW t \in Tools,
         \/ Refuse(t) \/ UpToDate(t) \/ StartExport(t)
         \/ Condemn(t) \/ HashFiles(t) \/ Vouch(t)
         \/ \E o \in ProvisionRequests : BeginProvision(t, o)
  PROVE  MarkerInv'
  <1>0. RunTypes /\ dir \in Directory
    BY TypeInvParts DEF MarkerInv
  <1>1. CASE Refuse(t)
    BY <1>1, MarkerKept, EndsInv DEF Refuse, At
  <1>2. CASE UpToDate(t)
    BY <1>2, MarkerKept, EndsInv DEF UpToDate, At
  <1>3. CASE StartExport(t)
    <2>1. pc[t] = "check" /\ report[t] = "none"
      BY <1>3 DEF StartExport, At, MarkerInv, Established
    <2>2. "export" \in {"check", "export"}
      OBVIOUS
    <2>3. QED
      BY <1>3, <2>1, <2>2, MarkerKept, GotoInv DEF StartExport
  <1>4. CASE Condemn(t)
    <2>1. CASE marker' = FailMarker(opt[t], verdict[t])
      <3>1. MarkerSane'
        BY <2>1 DEF FailMarker, MarkerSane
      <3>2. QED
        BY <1>4, <3>1, EndsInv DEF Condemn, At
    <2>2. CASE marker' = marker
      BY <1>4, <2>2, MarkerKept, EndsInv DEF Condemn, At
    <2>3. QED
      BY <1>4, <2>1, <2>2 DEF Condemn
  <1>5. CASE HashFiles(t)
    <2> DEFINE names == RequiredFiles(opt[t].set, opt[t].gender)
    <2>1. CASE \E f \in names : ~Present(dir, f)
      BY <1>5, <2>1, MarkerKept, EndsInv DEF HashFiles, At
    <2>2. CASE ~\E f \in names : ~Present(dir, f)
      <3>1. opt[t] \in Options /\ AllSound(dir, names)
        BY <1>0, <1>5 DEF RunTypes, HashFiles, At, MarkerInv, Established
      <3>2. Vouches(PassMarker(opt[t], FileRecords(dir, names)))
        BY <1>0, <3>1, RecordsVouch
      <3>3. /\ pc'[t] = "vouch" /\ opt' = opt /\ recs'[t] = FileRecords(dir, names)
            /\ report' = report /\ srv' = srv /\ marker' = marker /\ pc[t] = "hash"
            /\ \A u \in Tools \ {t} : pc'[u] = pc[u]
        BY <1>0, <1>5, <2>2 DEF HashFiles, Goto, At, RunTypes
      <3>4. Established(t)'
        BY <3>2, <3>3 DEF Established, Vouches, PassMarker, Recorded
      <3>5. QED
        BY <3>3, <3>4, MarkerKept, OwnStep
    <2>3. QED
      BY <2>1, <2>2
  <1>6. CASE Vouch(t)
    <2>1. CASE marker' = PassMarker(opt[t], recs[t])
      <3>1. Vouches(PassMarker(opt[t], recs[t]))
        BY <1>6 DEF Vouch, At, MarkerInv, Established
      <3>2. MarkerSane'
        BY <2>1, <3>1 DEF MarkerSane, Vouches, Recorded
      <3>3. QED
        BY <1>6, <3>2, EndsInv DEF Vouch, At
    <2>2. CASE marker' = marker
      BY <1>6, <2>2, MarkerKept, EndsInv DEF Vouch, At
    <2>3. QED
      BY <1>6, <2>1, <2>2 DEF Vouch
  <1>7. CASE \E o \in ProvisionRequests : BeginProvision(t, o)
    <2>1. PICK o \in ProvisionRequests : BeginProvision(t, o)
      BY <1>7
    <2>2. (\A u \in Tools : pc[u] = "idle") /\ ~Starting
      BY <2>1, NothingElseStarts DEF BeginProvision
    <2>3. report[t] = "none"
      BY <2>2 DEF MarkerInv, Established
    <2>4. "check" \in {"check", "export"}
      OBVIOUS
    <2>5. QED
      BY <2>1, <2>2, <2>3, <2>4, MarkerKept, GotoInv DEF BeginProvision
  <1>8. QED
    BY <1>1, <1>2, <1>3, <1>4, <1>5, <1>6, <1>7

LEMMA VerifyMarkerInv ==
  ASSUME MaxTools = 1, MarkerInv, TypeInv', NEW t \in Tools,
         \/ Compare(t) \/ Attest(t) \/ Stamp(t)
         \/ \E o \in VerifyRequests, e \in Explicit : BeginVerify(t, o, e)
  PROVE  MarkerInv'
  <1>0. RunTypes
    BY TypeInvParts DEF MarkerInv
  <1>1. CASE Compare(t)
    <2>1. CASE marker = Unreadable
      BY <1>1, <2>1, MarkerKept, EndsInv DEF Compare, At
    <2>2. CASE marker # Unreadable
      <3>1. report'[t] = "ok" => Readable(marker) /\ Recorded(marker) # {}
        BY <1>0, <1>1, <2>2 DEF Compare, MatchesMarker, Readable, RunTypes
      <3>2. /\ pc'[t] = "structural" /\ pc[t] = "compare" /\ marker' = marker /\ srv' = srv
            /\ \A u \in Tools \ {t} : pc'[u] = pc[u] /\ report'[u] = report[u]
        BY <1>0, <1>1, <2>2 DEF Compare, Goto, At, RunTypes
      <3>3. Established(t)'
        BY <3>1, <3>2 DEF Established, Readable, Recorded
      <3>4. QED
        BY <3>2, <3>3, MarkerKept, OwnStep
    <2>3. QED
      BY <2>1, <2>2
  <1>2. CASE Attest(t)
    <2>1. CASE report[t] = "ok" /\ opt[t].attest /\ Readable(marker)
      <3>1. Recorded(marker) # {}
        BY <1>2, <2>1 DEF Attest, At, MarkerInv, Established
      <3>2. Recorded(marker) = {} \/ marker.files # NoRecords
        BY DEF Recorded, NoRecords
      <3>3. Vouches(marker)
        BY <2>1, <3>1, <3>2 DEF MarkerInv, MarkerSane
      <3>4. /\ pc'[t] = "stamp" /\ pc[t] = "attest" /\ seen'[t] = marker
            /\ marker' = marker /\ srv' = srv /\ report' = report
            /\ \A u \in Tools \ {t} : pc'[u] = pc[u]
        BY <1>0, <1>2, <2>1 DEF Attest, Goto, At, RunTypes
      <3>5. Established(t)'
        BY <3>3, <3>4 DEF Established, Vouches, Recorded
      <3>6. QED
        BY <3>4, <3>5, MarkerKept, OwnStep
    <2>2. CASE ~(report[t] = "ok" /\ opt[t].attest /\ Readable(marker))
      BY <1>2, <2>2, MarkerKept, EndsInv DEF Attest, At
    <2>3. QED
      BY <2>1, <2>2
  <1>3. CASE Stamp(t)
    <2> DEFINE stamped == [seen[t] EXCEPT !.smoke = "pass", !.error = "ok"]
    <2>1. CASE marker' = stamped
      <3>1. seen[t] \in Marker /\ Vouches(seen[t])
        BY <1>3 DEF Stamp, At, MarkerInv, TypeInv, StampHasRead, Established
      <3>2. stamped.set = seen[t].set /\ stamped.files = seen[t].files
        BY <3>1 DEF Marker
      <3>3. Vouches(stamped)
        BY <3>1, <3>2 DEF Vouches, Recorded
      <3>4. MarkerSane'
        BY <2>1, <3>3 DEF MarkerSane, Vouches, Recorded
      <3>5. QED
        BY <1>3, <3>4, EndsInv DEF Stamp, At
    <2>2. CASE marker' = marker
      BY <1>3, <2>2, MarkerKept, EndsInv DEF Stamp, At
    <2>3. QED
      BY <1>3, <2>1, <2>2 DEF Stamp
  <1>4. CASE \E o \in VerifyRequests, e \in Explicit : BeginVerify(t, o, e)
    <2>1. PICK o \in VerifyRequests, e \in Explicit : BeginVerify(t, o, e)
      BY <1>4
    <2>2. (\A u \in Tools : pc[u] = "idle") /\ ~Starting
      BY <2>1, NothingElseStarts DEF BeginVerify
    <2>3. "compare" \in {"condemn", "compare"}
      OBVIOUS
    <2>4. QED
      BY <2>1, <2>2, <2>3, MarkerKept, GotoInv DEF BeginVerify
  <1>5. QED
    BY <1>1, <1>2, <1>3, <1>4

LEMMA ServerMarkerInv ==
  ASSUME MaxTools = 1, MarkerInv, TypeInv', ServerStep
  PROVE  MarkerInv'
  <1>1. UNCHANGED <<dir, marker, runVars>>
    BY DEF ServerStep, ServerStart, ServerStat, ServerEvaluate, ServerLoad, ServerStop
  <1>2. Alone'
    <2>1. CASE \E e \in Explicit, a \in BOOLEAN : ServerStart(e, a)
      <3>1. \A t \in Tools : pc[t] = "idle"
        BY <2>1, NothingElseStarts DEF ServerStart
      <3>2. QED
        BY <1>1, <3>1 DEF Alone, runVars
    <2>2. CASE ServerStat \/ ServerEvaluate \/ ServerLoad \/ ServerStop
      <3>1. Starting' => Starting
        <4>1. srv \in Server
          BY TypeInvParts DEF MarkerInv
        <4>2. Down.pc = "down"
          BY DEF Down
        <4>3. CASE ServerStat
          BY <4>3 DEF ServerStat, Starting
        <4>4. CASE ServerEvaluate
          BY <4>4 DEF ServerEvaluate, Starting
        <4>5. CASE ServerLoad
          BY <4>5 DEF ServerLoad, Starting
        <4>6. CASE ServerStop
          BY <4>2, <4>6 DEF ServerStop, Starting
        <4>7. QED
          BY <2>2, <4>3, <4>4, <4>5, <4>6
      <3>2. QED
        BY <1>1, <3>1 DEF Alone, runVars, MarkerInv
    <2>3. QED
      BY <2>1, <2>2 DEF ServerStep
  <1>3. MarkerSane'
    BY <1>1, MarkerKept
  <1>4. ASSUME NEW t \in Tools
        PROVE  Established(t)'
    BY <1>1 DEF MarkerInv, Established, runVars, Readable, Recorded, AllSound, Vouches,
                PassMarker
  <1>5. QED
    BY <1>2, <1>3, <1>4 DEF MarkerInv

LEMMA NextMarkerInv ==
  ASSUME MaxTools = 1, MarkerInv, [Next]_vars
  PROVE  MarkerInv'
  <1>0. TypeInv'
    BY NextTypeInv DEF MarkerInv
  <1>1. CASE \E t \in Provisioners :
               ProvisionerStep(t) \/ \E o \in ProvisionRequests : BeginProvision(t, o)
    <2>1. PICK t \in Provisioners :
            ProvisionerStep(t) \/ \E o \in ProvisionRequests : BeginProvision(t, o)
      BY <1>1
    <2>2. t \in Tools
      BY DEF Tools
    <2>3. CASE Kill(t)
      BY <1>0, <2>2, <2>3, MarkerKept, EndsInv DEF Kill
    <2>4. QED
      BY <1>0, <2>1, <2>2, <2>3, ProvisionMarkerInv, ExportMarkerInv, SmokeMarkerInv
      DEF ProvisionerStep
  <1>2. CASE \E t \in Verifiers :
               \/ VerifierStep(t)
               \/ \E o \in VerifyRequests, e \in Explicit : BeginVerify(t, o, e)
    <2>1. PICK t \in Verifiers :
            \/ VerifierStep(t)
            \/ \E o \in VerifyRequests, e \in Explicit : BeginVerify(t, o, e)
      BY <1>2
    <2>2. t \in Tools
      BY DEF Tools
    <2>3. CASE Kill(t)
      BY <1>0, <2>2, <2>3, MarkerKept, EndsInv DEF Kill
    <2>4. QED
      BY <1>0, <2>1, <2>2, <2>3, VerifyMarkerInv, SmokeMarkerInv DEF VerifierStep
  <1>3. CASE \E f \in Files : Rewrite(f)
    <2>1. MayStart /\ UNCHANGED <<marker, runVars, srv>>
      BY <1>3 DEF Rewrite
    <2>2. \A t \in Tools : pc[t] = "idle"
      BY <2>1, NothingElseStarts
    <2>3. Alone' /\ MarkerSane' /\ \A t \in Tools : Established(t)'
      BY <2>1, <2>2, MarkerKept DEF MarkerInv, Alone, Established, runVars
    <2>4. QED
      BY <1>0, <2>3 DEF MarkerInv
  <1>4. CASE ServerStep
    BY <1>0, <1>4, ServerMarkerInv
  <1>5. CASE UNCHANGED vars
    <2>1. UNCHANGED <<dir, marker, runVars, srv>>
      BY <1>5 DEF vars
    <2>2. Alone' /\ MarkerSane'
      BY <2>1, MarkerKept DEF MarkerInv, Alone, Starting, runVars
    <2>3. ASSUME NEW t \in Tools
          PROVE  Established(t)'
      BY <2>1 DEF MarkerInv, Established, runVars, Readable, Recorded, AllSound, Vouches,
                  PassMarker
    <2>4. QED
      BY <1>0, <2>2, <2>3 DEF MarkerInv
  <1>6. QED
    BY <1>1, <1>2, <1>3, <1>4, <1>5 DEF Next

LEMMA InitMarkerInv == Init => MarkerInv
  <1> SUFFICES ASSUME Init PROVE MarkerInv
    OBVIOUS
  <1>1. TypeInv
    BY InitTypeInv
  <1>2. Alone
    BY DEF Init, Alone
  <1>3. MarkerSane
    BY DEF Init, MarkerSane, VouchedFor, Vouches
  <1>4. \A t \in Tools : Established(t)
    BY DEF Init, Established
  <1>5. QED
    BY <1>1, <1>2, <1>3, <1>4 DEF MarkerInv

(* One process at a time: a marker that says "pass" only ever vouches for  *)
(* bytes that went through the smoke test, through kills, torn exports,    *)
(* failed writes, rewrites and re-attestation (mod.rs provision, attest).  *)
THEOREM MarkerIsSound ==
  ASSUME MaxTools = 1
  PROVE  Spec => []PassVouchesForSound
  <1>1. Init => MarkerInv
    BY InitMarkerInv
  <1>2. MarkerInv /\ [Next]_vars => MarkerInv'
    BY NextMarkerInv
  <1>3. MarkerInv => PassVouchesForSound
    BY DEF MarkerInv, MarkerSane, PassVouchesForSound
  <1>4. QED
    BY <1>1, <1>2, <1>3, PTL DEF Spec

-----------------------------------------------------------------------------
(* What the stat-only tier is worth.                                       *)

(* No unsound content has the length of a sound one: the assumption under  *)
(* which a stat can vouch for a file at all.                               *)
LengthTells ==
  \A c \in Sound, d \in Contents : SizeOf[c] = SizeOf[d] => d \in Sound

LEMMA VerifiedParts ==
  ASSUME TypeInv, NEW wanted, Evaluate(dir, marker, wanted) = "verified"
  PROVE  /\ marker \in Marker
         /\ marker.smoke = "pass"
         /\ \A f \in Recorded(marker) : SameLength(dir, marker, f)
         /\ marker.set \in ModelSets /\ Covers(marker.set, wanted)
  BY TypeInvParts
  DEF Evaluate, Interpretable, Readable, KnownBad, Outdated, MarkerFile

LEMMA VerifiedSound ==
  ASSUME TypeInv, PassVouchesForSound, LengthTells,
         NEW wanted \in ModelSets, Evaluate(dir, marker, wanted) = "verified"
  PROVE  AllSound(dir, RequiredFiles(wanted, FALSE))
  <1>1. /\ marker \in Marker
        /\ \A f \in Recorded(marker) : SameLength(dir, marker, f)
        /\ Covers(marker.set, wanted)
    BY VerifiedParts
  <1>2. Vouches(marker)
    BY <1>1, VerifiedParts, MarkerAssumption DEF PassVouchesForSound, Readable
  <1>3. RequiredFiles(wanted, FALSE) \subseteq RequiredFiles(marker.set, FALSE)
    BY <1>1 DEF Covers, RequiredFiles
  <1>4. ASSUME NEW f \in RequiredFiles(wanted, FALSE)
        PROVE  dir[f] \in Sound
    <2>1. f \in Recorded(marker) /\ f \in Files
      BY <1>2, <1>3 DEF Vouches, Recorded
    <2>2. marker.files[f] \in Sound
      BY <1>2, <2>1 DEF Vouches
    <2>3. dir[f] \in Contents
      BY <1>1, <2>1, TypeInvParts DEF SameLength, Present, Directory
    <2>4. SizeOf[dir[f]] = SizeOf[marker.files[f]]
      BY <1>1, <2>1 DEF SameLength
    <2>5. QED
      BY <2>2, <2>3, <2>4 DEF LengthTells
  <1>5. QED
    BY <1>4 DEF AllSound

(* One process at a time, and lengths that tell: a directory the startup   *)
(* gate calls verified holds sound models (marker.rs evaluate).            *)
THEOREM VerifiedIsSound ==
  ASSUME MaxTools = 1, LengthTells
  PROVE  Spec => []VerifiedMeansSound
  <1>1. MarkerInv => VerifiedMeansSound
    BY VerifiedSound DEF MarkerInv, MarkerSane, PassVouchesForSound, VerifiedMeansSound
  <1>2. Init => MarkerInv
    BY InitMarkerInv
  <1>3. MarkerInv /\ [Next]_vars => MarkerInv'
    BY NextMarkerInv
  <1>4. QED
    BY <1>1, <1>2, <1>3, PTL DEF Spec

(* One process at a time: what the evaluation calls verified, the gate     *)
(* lets a server start from, judged by the set the marker records          *)
(* (mod.rs serving_set, startup_gate_with).                                *)
THEOREM GateAgrees ==
  ASSUME MaxTools = 1
  PROVE  Spec => []GateAcceptsVerified
  <1>1. ASSUME MarkerInv
        PROVE  GateAcceptsVerified
    <2> SUFFICES ASSUME Readable(marker),
                        Evaluate(dir, marker, marker.set) = "verified"
                 PROVE  GateProceeds(dir, marker, ServingSet(marker, "none"))
      BY DEF GateAcceptsVerified
    <2>1. TypeInv /\ PassVouchesForSound
      BY <1>1 DEF MarkerInv, MarkerSane, PassVouchesForSound
    <2>2. /\ marker.smoke = "pass" /\ marker.set \in ModelSets
          /\ \A f \in Recorded(marker) : SameLength(dir, marker, f)
      BY <2>1, VerifiedParts
    <2>3. Vouches(marker)
      BY <2>1, <2>2 DEF PassVouchesForSound
    <2>4. ServingSet(marker, "none") = marker.set
      BY <2>2 DEF ServingSet
    <2>5. ASSUME NEW f \in RequiredFiles(marker.set, FALSE)
          PROVE  NonEmpty(dir, f)
      <3>1. f \in Recorded(marker) /\ marker.files[f] \in Sound
        BY <2>3 DEF Vouches
      <3>2. Present(dir, f) /\ SizeOf[dir[f]] = SizeOf[marker.files[f]]
        BY <2>2, <3>1 DEF SameLength
      <3>3. SizeOf[marker.files[f]] > 0
        BY <3>1, DirectoryAssumption
      <3>4. QED
        BY <3>2, <3>3 DEF NonEmpty
    <2>6. MissingRequired(dir, marker.set, FALSE) = {}
      BY <2>5 DEF MissingRequired
    <2>7. QED
      BY <2>4, <2>6 DEF GateProceeds
  <1>2. Init => MarkerInv
    BY InitMarkerInv
  <1>3. MarkerInv /\ [Next]_vars => MarkerInv'
    BY NextMarkerInv
  <1>4. QED
    BY <1>1, <1>2, <1>3, PTL DEF Spec

-----------------------------------------------------------------------------
(* The server.  Between the evaluation and the end of the load nobody      *)
(* touches the directory, so what was evaluated is what is loaded.         *)
ServerInv ==
  /\ srv.pc = "load" /\ srv.status = "verified" =>
       AllSound(dir, RequiredFiles(srv.set, FALSE))
  /\ ServesWhatWasVerified

LEMMA ToolsLeaveServer ==
  ASSUME MaxTools = 1, MarkerInv, [Next]_vars, ~ServerStep
  PROVE  srv' = srv /\ (Starting => dir' = dir)
  <1>1. ASSUME NEW t \in Tools, ProvisionerStep(t) \/ VerifierStep(t)
        PROVE  srv' = srv /\ pc[t] # "idle"
    BY <1>1
    DEF ProvisionerStep, VerifierStep, Refuse, UpToDate, StartExport, ExportPhase,
        ExportFails, ExportDone, SmokeStep, Structural, EndToEnd, Condemn, HashFiles,
        Vouch, Compare, Attest, Stamp, Kill, At
  <1>2. ASSUME NEW t \in Tools,
               \/ \E o \in ProvisionRequests : BeginProvision(t, o)
               \/ \E o \in VerifyRequests, e \in Explicit : BeginVerify(t, o, e)
        PROVE  srv' = srv /\ dir' = dir
    BY <1>2 DEF BeginProvision, BeginVerify
  <1>3. ASSUME NEW f \in Files, Rewrite(f)
        PROVE  srv' = srv /\ ~Starting
    BY <1>3, NothingElseStarts DEF Rewrite
  <1>4. \A t \in Tools : pc[t] # "idle" => ~Starting
    BY DEF MarkerInv, Alone
  <1>5. CASE UNCHANGED vars
    BY <1>5 DEF vars
  <1>6. CASE Next
    <2>1. CASE \E t \in Provisioners :
                 ProvisionerStep(t) \/ \E o \in ProvisionRequests : BeginProvision(t, o)
      BY <2>1, <1>1, <1>2, <1>4 DEF Tools
    <2>2. CASE \E t \in Verifiers :
                 \/ VerifierStep(t)
                 \/ \E o \in VerifyRequests, e \in Explicit : BeginVerify(t, o, e)
      BY <2>2, <1>1, <1>2, <1>4 DEF Tools
    <2>3. CASE \E f \in Files : Rewrite(f)
      BY <2>3, <1>3
    <2>4. QED
      BY <1>6, <2>1, <2>2, <2>3 DEF Next
  <1>7. QED
    BY <1>5, <1>6

LEMMA NextServerInv ==
  ASSUME MaxTools = 1, LengthTells, MarkerInv, ServerInv, [Next]_vars
  PROVE  ServerInv'
  <1>1. TypeInv /\ PassVouchesForSound /\ srv \in Server
    BY TypeInvParts DEF MarkerInv, MarkerSane, PassVouchesForSound
  <1>2. Down.pc = "down"
    BY DEF Down
  <1>3. CASE ~ServerStep
    BY <1>3, ToolsLeaveServer DEF ServerInv, ServesWhatWasVerified, Starting, AllSound
  <1>4. CASE \E e \in Explicit, a \in BOOLEAN : ServerStart(e, a)
    <2>1. srv'.pc = "stat"
      BY <1>4 DEF ServerStart, Down
    <2>2. QED
      BY <2>1 DEF ServerInv, ServesWhatWasVerified
  <1>5. CASE srv' = Down
    BY <1>2, <1>5 DEF ServerInv, ServesWhatWasVerified
  <1>6. ASSUME srv' = [srv EXCEPT !.pc = "load", !.status = Evaluate(dir, marker, srv.set)],
               dir' = dir
        PROVE  ServerInv'
    <2>1. srv'.pc = "load" /\ srv'.set = srv.set /\ srv.set \in ModelSets
          /\ srv'.status = Evaluate(dir, marker, srv.set)
      BY <1>1, <1>6 DEF Server
    <2>2. srv'.status = "verified" => AllSound(dir, RequiredFiles(srv.set, FALSE))
      BY <1>1, <2>1, VerifiedSound
    <2>3. QED
      BY <1>6, <2>1, <2>2 DEF ServerInv, ServesWhatWasVerified, AllSound
  <1>7. CASE ServerStat
    <2>1. CASE srv' = [srv EXCEPT !.pc = "evaluate"]
      <3>1. srv'.pc = "evaluate"
        BY <1>1, <2>1 DEF Server
      <3>2. QED
        BY <3>1 DEF ServerInv, ServesWhatWasVerified
    <2>2. QED
      BY <1>5, <1>6, <1>7, <2>1 DEF ServerStat
  <1>8. CASE ServerEvaluate
    BY <1>5, <1>6, <1>8 DEF ServerEvaluate
  <1>9. CASE ServerLoad
    <2>1. CASE srv' = [srv EXCEPT !.pc = "up", !.allow = FALSE,
                         !.sound = AllSound(dir, RequiredFiles(srv.set, FALSE))]
      <3>1. /\ srv'.pc = "up" /\ srv'.status = srv.status
            /\ srv'.sound = AllSound(dir, RequiredFiles(srv.set, FALSE))
        BY <1>1, <2>1 DEF Server
      <3>2. srv.pc = "load"
        BY <1>9 DEF ServerLoad
      <3>3. QED
        BY <3>1, <3>2 DEF ServerInv, ServesWhatWasVerified
    <2>2. QED
      BY <1>5, <1>9, <2>1 DEF ServerLoad
  <1>10. CASE ServerStop
    BY <1>5, <1>10 DEF ServerStop
  <1>11. QED
    BY <1>3, <1>4, <1>7, <1>8, <1>9, <1>10 DEF ServerStep

(* One process at a time, and lengths that tell: a server whose /readyz    *)
(* answers "verified" has loaded sound models (main.rs readyz, run).       *)
THEOREM ServesVerified ==
  ASSUME MaxTools = 1, LengthTells
  PROVE  Spec => []ServesWhatWasVerified
  <1>1. Init => MarkerInv /\ ServerInv
    BY InitMarkerInv DEF Init, Down, ServerInv, ServesWhatWasVerified
  <1>2. (MarkerInv /\ ServerInv) /\ [Next]_vars => (MarkerInv /\ ServerInv)'
    BY NextMarkerInv, NextServerInv
  <1>3. ServerInv => ServesWhatWasVerified
    BY DEF ServerInv
  <1>4. QED
    BY <1>1, <1>2, <1>3, PTL DEF Spec
=============================================================================
