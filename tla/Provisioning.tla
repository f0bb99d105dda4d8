----------------------------- MODULE Provisioning -----------------------------
(***************************************************************************)
(* The tools that write and judge a models directory, and the server that *)
(* starts from it, as processes over one shared directory:                *)
(*   - provision-models  (provision/mod.rs provision, exporter.rs,        *)
(*     scripts/provision/provision.py);                                   *)
(*   - verify-models     (cli.rs run_verify, verify.rs verify_deep, attest);*)
(*   - the start of diar-server (startup_gate_with, then the engine load). *)
(* A tool may be killed between any two steps; a killed export may leave  *)
(* the file it was writing torn.  Nothing in the code takes a lock on the *)
(* directory: how many tools overlap is the operator's doing (MaxTools).  *)
(***************************************************************************)
EXTENDS ModelsDirectory, FiniteSets

CONSTANTS
  Provisioners, Verifiers,
  Serving,       \* is a server started at all?
  MaxTools,      \* how many tools the operator lets run at the same time
  MaxFaults,     \* bound on the crashes, failures and bad inputs of a behaviour
  EngineFiles,   \* the shared files opened at load; others wait for a request
  Torn,          \* the content a killed export leaves in a file
  Devices,       \* devices the operator asks for, out of AllDevices
  Clips,         \* smoke clips the operator passes, out of AllClips
  Flaky          \* may stage 4 fail on sound models?

Tools == Provisioners \cup Verifiers
AllDevices == {"cpu", "usable", "unusable"}
AllClips == {"good", "bad"}

ASSUME ToolAssumption ==
  /\ Provisioners \cap Verifiers = {}
  /\ IsFiniteSet(Tools)
  /\ Serving \in BOOLEAN
  /\ MaxTools \in Nat
  /\ MaxFaults \in Nat
  /\ EngineFiles \subseteq SharedFiles
  /\ Torn \in Contents \ Sound
  /\ Devices \subseteq AllDevices
  /\ Clips \subseteq AllClips
  /\ Flaky \in BOOLEAN

VARIABLES
  dir,           \* the files
  marker,        \* diar-provision.json
  pc,            \* what each tool is about to do
  opt,           \* the options of its current run
  phase,         \* of the export
  verdict,       \* of the smoke test
  recs,          \* the hashes a provisioner will record
  report,        \* a verifier's comparison with the marker
  seen,          \* the marker a verifier read in attest
  outcome,       \* how a run ended, if the last step ended it
  srv,           \* the server process; sound: what it loaded was
  faults         \* how many faults so far, at most MaxFaults

runVars == <<pc, opt, phase, verdict, recs, report, seen>>
vars == <<dir, marker, runVars, outcome, srv, faults>>

PC == {"idle", "check", "export", "structural", "endtoend", "condemn",
       "hash", "vouch", "compare", "attest", "stamp"}

Options ==
  [set : ModelSets, gender : BOOLEAN, force : BOOLEAN, attest : BOOLEAN,
   device : AllDevices, clip : AllClips]

Reports == {"none", "unverified", "drift", "ok"}
Outcomes ==
  {"none", "up-to-date", "provisioned", "refused", "export_failed",
   "smoke_failed", "device_unavailable", "not_written", "unverified", "drift",
   "ok", "killed"}

ServerStates == {"down", "stat", "evaluate", "load", "up"}
Server ==
  [pc : ServerStates, set : ModelSets, allow : BOOLEAN,
   status : ModelsStates \cup {"none"}, sound : BOOLEAN]

TypeOK ==
  /\ dir \in Directory
  /\ marker \in MarkerFile
  /\ pc \in [Tools -> PC]
  /\ opt \in [Tools -> Options]
  /\ phase \in [Tools -> 1..5]
  /\ verdict \in [Tools -> Verdicts]
  /\ recs \in [Tools -> Directory]
  /\ report \in [Tools -> Reports]
  /\ seen \in [Tools -> Marker \cup {NoMarker}]
  /\ outcome \in [Tools -> Outcomes]
  /\ srv \in Server
  /\ faults \in 0..MaxFaults

-----------------------------------------------------------------------------
(* Markers the code writes. *)

FailMarker(o, why) ==
  [schema |-> MARKER_SCHEMA, recipe |-> EXPORT_RECIPE_VERSION, set |-> o.set,
   files |-> NoRecords, smoke |-> "fail", error |-> why]

PassMarker(o, records) ==
  [schema |-> MARKER_SCHEMA, recipe |-> EXPORT_RECIPE_VERSION, set |-> o.set,
   files |-> records, smoke |-> "pass", error |-> "ok"]

(* file_records over marker_file_list: the named files as they are now. *)
FileRecords(d, names) == [f \in Files |-> IF f \in names THEN d[f] ELSE Absent]

-----------------------------------------------------------------------------
(* The directories the tools may be pointed at: an empty one, one copied   *)
(* in without a marker or with a marker that was cut short, and one an     *)
(* earlier provisioning run vouched for, by this export recipe or by the   *)
(* one before it.                                                          *)
InitialMarkers(d) ==
  {NoMarker, Unreadable} \cup
  {[PassMarker([set |-> s], FileRecords(d, RequiredFiles(s, g)))
      EXCEPT !.recipe = r] : s \in ModelSets, g \in BOOLEAN, r \in {1, 2}}

VouchedFor(m) ==
  /\ RequiredFiles(m.set, FALSE) \subseteq Recorded(m)
  /\ \A f \in Recorded(m) : m.files[f] \in Sound

(* No run has just ended. *)
Quiet == [t \in Tools |-> "none"]

DefaultOptions ==
  [set |-> "fast", gender |-> TRUE, force |-> FALSE, attest |-> TRUE,
   device |-> "cpu", clip |-> "good"]

Down ==
  [pc |-> "down", set |-> "fast", allow |-> FALSE, status |-> "none",
   sound |-> FALSE]

Init ==
  /\ dir \in [Files -> (Contents \ {Torn}) \cup {Absent}]
  /\ marker \in {m \in InitialMarkers(dir) : Readable(m) => VouchedFor(m)}
  /\ pc = [t \in Tools |-> "idle"]
  /\ opt = [t \in Tools |-> DefaultOptions]
  /\ phase = [t \in Tools |-> 1]
  /\ verdict = [t \in Tools |-> "ok"]
  /\ recs = [t \in Tools |-> NoRecords]
  /\ report = [t \in Tools |-> "none"]
  /\ seen = [t \in Tools |-> NoMarker]
  /\ outcome = Quiet
  /\ srv = Down
  /\ faults = 0

-----------------------------------------------------------------------------
Running == {t \in Tools : pc[t] # "idle"}
Starting == srv.pc \in {"stat", "evaluate", "load"}

(* The operator's discipline: another process may start using the          *)
(* directory while fewer than MaxTools do.                                 *)
MayStart == Cardinality(Running) + (IF Starting THEN 1 ELSE 0) < MaxTools

(* The end of a run: everything the process held in memory is gone. *)
Ends(t, how) ==
  /\ pc' = [pc EXCEPT ![t] = "idle"]
  /\ opt' = [opt EXCEPT ![t] = DefaultOptions]
  /\ phase' = [phase EXCEPT ![t] = 1]
  /\ verdict' = [verdict EXCEPT ![t] = "ok"]
  /\ recs' = [recs EXCEPT ![t] = NoRecords]
  /\ report' = [report EXCEPT ![t] = "none"]
  /\ seen' = [seen EXCEPT ![t] = NoMarker]
  /\ outcome' = [Quiet EXCEPT ![t] = how]

At(t, label) == pc[t] = label
Goto(t, label) == pc' = [pc EXCEPT ![t] = label]

Fault ==
  /\ faults < MaxFaults
  /\ faults' = faults + 1
NoFault == UNCHANGED faults

(* Options that make a run fail whatever the models are. *)
Handicap(o) == o.clip = "bad" \/ o.device = "unusable"

-----------------------------------------------------------------------------
(* provision-models *)

BeginProvision(t, o) ==
  /\ t \in Provisioners
  /\ At(t, "idle")
  /\ MayStart
  /\ IF Handicap(o) THEN Fault ELSE NoFault
  /\ Goto(t, "check")
  /\ opt' = [opt EXCEPT ![t] = o]
  /\ outcome' = Quiet
  /\ UNCHANGED <<dir, marker, phase, verdict, recs, report, seen, srv>>

(* Steps 1, 3, 4 and 4b: read-only mount, token, python, clip. *)
Refuse(t) ==
  /\ At(t, "check")
  /\ Fault
  /\ Ends(t, "refused")
  /\ UNCHANGED <<dir, marker, srv>>

AlreadyVerified(t) ==
  ~opt[t].force /\ Evaluate(dir, marker, opt[t].set) = "verified"

UpToDate(t) ==
  /\ At(t, "check")
  /\ AlreadyVerified(t)
  /\ Ends(t, "up-to-date")
  /\ UNCHANGED <<dir, marker, srv, faults>>

StartExport(t) ==
  /\ At(t, "check")
  /\ ~AlreadyVerified(t)
  /\ Goto(t, "export")
  /\ outcome' = Quiet
  /\ UNCHANGED <<dir, marker, opt, phase, verdict, recs, report, seen, srv, faults>>

(* Mutant: files that are there already are not exported again. *)
PhaseFilesMissing(t) ==
  {f \in CASE phase[t] = 1 -> SharedFiles
           [] phase[t] = 2 -> BatchFiles
           [] phase[t] = 3 /\ opt[t].gender -> {GenderModel, GenderMeta}
           [] OTHER -> {} : ~Present(dir, f)}

(* The exporter writes every file of the fast set in place, gender unless  *)
(* skipped (its meta file for the fast set only), and trims afterwards.    *)
PhaseFiles(t) ==
  CASE phase[t] = 1 -> SharedFiles
    [] phase[t] = 2 -> BatchFiles
    [] phase[t] = 3 -> IF ~opt[t].gender THEN {}
                       ELSE IF opt[t].set = "fast" THEN {GenderModel, GenderMeta}
                       ELSE {GenderModel}
    [] OTHER -> {}

Trimmed(d) == [f \in Files |-> IF f \in FastOnlyFiles THEN Absent ELSE d[f]]

(* Mutant: the trim is repeated once too often. *)
ExportPhaseTwice(t) ==
  /\ At(t, "export")
  /\ phase[t] <= 5
  /\ dir' = IF phase[t] >= 4 THEN Trimmed(dir) ELSE dir
  /\ phase' = [phase EXCEPT ![t] = @ + 1]
  /\ outcome' = Quiet
  /\ UNCHANGED <<marker, pc, opt, verdict, recs, report, seen, srv, faults>>

(* One phase: 1 and 2 are provision.py's 2a-2d, 3 is 2e, 4 the trim.  What *)
(* the exporter produces is not always sound (a fault): hence the smoke.   *)
ExportPhase(t) ==
  /\ At(t, "export")
  /\ phase[t] < 5
  /\ \E new \in [PhaseFiles(t) -> Contents \ {Torn}] :
       /\ dir' = IF phase[t] = 4
                 THEN IF opt[t].set = "small" THEN Trimmed(dir) ELSE dir
                 ELSE [f \in Files |-> IF f \in PhaseFiles(t) THEN new[f] ELSE dir[f]]
       /\ IF AllSound(new, PhaseFiles(t)) THEN NoFault ELSE Fault
  /\ phase' = [phase EXCEPT ![t] = @ + 1]
  /\ outcome' = Quiet
  /\ UNCHANGED <<marker, pc, opt, verdict, recs, report, seen, srv>>

(* python exits non-zero, leaves no readable report, or is killed with the *)
(* whole container; the file being written may be torn.                    *)
ExportFails(t) ==
  /\ At(t, "export")
  /\ Fault
  /\ \/ UNCHANGED dir
     \/ \E f \in PhaseFiles(t) : dir' = [dir EXCEPT ![f] = Torn]
  /\ \E how \in {"export_failed", "killed"} : Ends(t, how)
  /\ UNCHANGED <<marker, srv>>

ExportDone(t) ==
  /\ At(t, "export")
  /\ phase[t] = 5
  /\ Goto(t, "structural")
  /\ outcome' = Quiet
  /\ UNCHANGED <<dir, marker, opt, phase, verdict, recs, report, seen, srv, faults>>

-----------------------------------------------------------------------------
(* verify::run, the smoke test both tools share *)

(* Mutant: whatever went wrong is recorded. *)
SmokeEndsRecorded(t, v) ==
  IF t \in Verifiers THEN Ends(t, "smoke_failed")
  ELSE /\ Goto(t, "condemn")
       /\ verdict' = [verdict EXCEPT ![t] = v]
       /\ outcome' = Quiet
       /\ UNCHANGED <<opt, phase, recs, report, seen>>

(* What a verdict other than "ok" leads to: a provisioner condemns the     *)
(* directory unless the device is to blame; a verifier only reports.       *)
SmokeEnds(t, v) ==
  IF v = "device" THEN Ends(t, "device_unavailable")
  ELSE IF t \in Verifiers THEN Ends(t, "smoke_failed")
  ELSE /\ Goto(t, "condemn")
       /\ verdict' = [verdict EXCEPT ![t] = v]
       /\ outcome' = Quiet
       /\ UNCHANGED <<opt, phase, recs, report, seen>>

Structural(t) ==
  /\ At(t, "structural")
  /\ LET v == StructuralVerdict(dir, opt[t]) IN
       IF v # "ok" THEN SmokeEnds(t, v)
       ELSE /\ Goto(t, "endtoend")
            /\ outcome' = Quiet
            /\ UNCHANGED <<opt, phase, verdict, recs, report, seen>>
  /\ UNCHANGED <<dir, marker, srv, faults>>

(* A failure nothing the run was given accounts for. *)
FailsSound(t, v) ==
  /\ v # "ok"
  /\ AllSound(dir, Opened(dir, opt[t]))
  /\ ~(v = "device" /\ opt[t].device = "unusable")

EndToEnd(t) ==
  /\ At(t, "endtoend")
  /\ \E v \in EndToEndVerdicts(dir, opt[t], Flaky) :
       /\ IF FailsSound(t, v) THEN Fault ELSE NoFault
       /\ IF v # "ok" THEN SmokeEnds(t, v)
          ELSE /\ Goto(t, IF t \in Verifiers THEN "attest" ELSE "hash")
               /\ outcome' = Quiet
               /\ UNCHANGED <<opt, phase, verdict, recs, report, seen>>
  /\ UNCHANGED <<dir, marker, srv>>

-----------------------------------------------------------------------------
(* provision-models, after the smoke test *)

(* The result of writing the fail marker is ignored. *)
Condemn(t) ==
  /\ At(t, "condemn")
  /\ \/ marker' = FailMarker(opt[t], verdict[t]) /\ NoFault
     \/ marker' = marker /\ Fault
  /\ Ends(t, "smoke_failed")
  /\ UNCHANGED <<dir, srv>>

HashFiles(t) ==
  /\ At(t, "hash")
  /\ LET names == RequiredFiles(opt[t].set, opt[t].gender) IN
       IF \E f \in names : ~Present(dir, f) THEN Ends(t, "export_failed")
       ELSE /\ recs' = [recs EXCEPT ![t] = FileRecords(dir, names)]
            /\ Goto(t, "vouch")
            /\ outcome' = Quiet
            /\ UNCHANGED <<opt, phase, verdict, report, seen>>
  /\ UNCHANGED <<dir, marker, srv, faults>>

(* Mutant: the result of the write is ignored here too. *)
VouchUnchecked(t) ==
  /\ At(t, "vouch")
  /\ \/ marker' = PassMarker(opt[t], recs[t]) /\ NoFault
     \/ marker' = marker /\ Fault
  /\ Ends(t, "provisioned")
  /\ UNCHANGED <<dir, srv>>

Vouch(t) ==
  /\ At(t, "vouch")
  /\ \/ marker' = PassMarker(opt[t], recs[t]) /\ NoFault /\ Ends(t, "provisioned")
     \/ marker' = marker /\ Fault /\ Ends(t, "not_written")
  /\ UNCHANGED <<dir, srv>>

-----------------------------------------------------------------------------
(* verify-models *)

(* The set comes from the marker unless given; gender from the file.  A    *)
(* clip or a mode it refuses before this changes nothing and is left out.  *)
BeginVerify(t, o, explicit) ==
  /\ t \in Verifiers
  /\ At(t, "idle")
  /\ MayStart
  /\ IF Handicap(o) THEN Fault ELSE NoFault
  /\ opt' = [opt EXCEPT ![t] = [o EXCEPT !.set = ServingSet(marker, explicit),
                                         !.gender = Present(dir, GenderModel)]]
  /\ Goto(t, "compare")
  /\ outcome' = Quiet
  /\ UNCHANGED <<dir, marker, phase, verdict, recs, report, seen, srv>>

Compare(t) ==
  /\ At(t, "compare")
  /\ IF marker = Unreadable THEN Ends(t, "smoke_failed")
     ELSE /\ report' = [report EXCEPT ![t] =
               IF marker = NoMarker THEN "unverified"
               ELSE IF MatchesMarker(dir, marker) THEN "ok" ELSE "drift"]
          /\ Goto(t, "structural")
          /\ outcome' = Quiet
          /\ UNCHANGED <<opt, phase, verdict, recs, seen>>
  /\ UNCHANGED <<dir, marker, srv, faults>>

(* attest re-reads the marker; without one, or unless fully verified, the  *)
(* run ends with its report.                                               *)
Attest(t) ==
  /\ At(t, "attest")
  /\ IF report[t] = "ok" /\ opt[t].attest /\ Readable(marker)
     THEN /\ seen' = [seen EXCEPT ![t] = marker]
          /\ Goto(t, "stamp")
          /\ outcome' = Quiet
          /\ UNCHANGED <<opt, phase, verdict, recs, report>>
     ELSE Ends(t, report[t])
  /\ UNCHANGED <<dir, marker, srv, faults>>

(* Mutant: attesting also brings the recipe up to date. *)
StampRecipe(t) ==
  /\ At(t, "stamp")
  /\ marker' = PassMarker(seen[t], seen[t].files)
  /\ NoFault
  /\ Ends(t, "ok")
  /\ UNCHANGED <<dir, srv>>

Stamp(t) ==
  /\ At(t, "stamp")
  /\ \/ marker' = [seen[t] EXCEPT !.smoke = "pass", !.error = "ok"] /\ NoFault
     \/ marker' = marker /\ Fault
  /\ Ends(t, "ok")
  /\ UNCHANGED <<dir, srv>>

-----------------------------------------------------------------------------
(* Every tool may be killed; so may the server. *)

Kill(t) ==
  /\ pc[t] \notin {"idle", "export"}
  /\ Fault
  /\ Ends(t, "killed")
  /\ UNCHANGED <<dir, marker, srv>>

(* Somebody replaces or removes a file behind the tools' back. *)
Rewrite(f) ==
  /\ MayStart
  /\ Fault
  /\ \E c \in Contents \cup {Absent} : dir' = [dir EXCEPT ![f] = c]
  /\ outcome' = Quiet
  /\ UNCHANGED <<marker, runVars, srv>>

-----------------------------------------------------------------------------
(* diar-server, up to the point where it serves *)

ServerStart(explicit, allow) ==
  /\ Serving
  /\ srv.pc = "down"
  /\ MayStart
  /\ srv' = [Down EXCEPT !.pc = "stat", !.allow = allow,
                         !.set = ServingSet(marker, explicit)]
  /\ outcome' = Quiet
  /\ UNCHANGED <<dir, marker, runVars, faults>>

(* Required files first: fatal unless overridden, and then the marker is   *)
(* only reported.                                                          *)
ServerStat ==
  /\ srv.pc = "stat"
  /\ srv' = IF MissingRequired(dir, srv.set, FALSE) = {}
            THEN [srv EXCEPT !.pc = "evaluate"]
            ELSE IF srv.allow
            THEN [srv EXCEPT !.pc = "load", !.status = Evaluate(dir, marker, srv.set)]
            ELSE Down
  /\ outcome' = Quiet
  /\ UNCHANGED <<dir, marker, runVars, faults>>

ServerEvaluate ==
  /\ srv.pc = "evaluate"
  /\ LET state == Evaluate(dir, marker, srv.set) IN
       srv' = IF state = "failed" /\ ~srv.allow THEN Down
              ELSE [srv EXCEPT !.pc = "load", !.status = state]
  /\ outcome' = Quiet
  /\ UNCHANGED <<dir, marker, runVars, faults>>

(* Each engine opens the files; what does not open ends the process.  The  *)
(* batch-64 graphs and the gender model are opened if they are there.      *)
ServerLoad ==
  /\ srv.pc = "load"
  /\ \/ /\ \A f \in EngineFiles : NonEmpty(dir, f)
        /\ srv' = [srv EXCEPT !.pc = "up", !.allow = FALSE,
                               !.sound = AllSound(dir, RequiredFiles(srv.set, FALSE))]
        /\ NoFault
     \/ /\ srv' = Down
        /\ IF AllSound(dir, SharedFiles \cup OpenedIfThere(dir)) THEN Fault ELSE NoFault
  /\ outcome' = Quiet
  /\ UNCHANGED <<dir, marker, runVars>>

ServerStop ==
  /\ srv.pc # "down"
  /\ srv' = Down
  /\ outcome' = Quiet
  /\ UNCHANGED <<dir, marker, runVars, faults>>

-----------------------------------------------------------------------------
Asked == {o \in Options : o.device \in Devices /\ o.clip \in Clips}

ProvisionRequests == {o \in Asked : o.attest}
VerifyRequests == {o \in Asked : o.set = "fast" /\ o.gender /\ ~o.force}
Explicit == ModelSets \cup {"none"}

SmokeStep(t) == Structural(t) \/ EndToEnd(t)

ProvisionerStep(t) ==
  \/ Refuse(t) \/ UpToDate(t) \/ StartExport(t)
  \/ ExportPhase(t) \/ ExportFails(t) \/ ExportDone(t)
  \/ SmokeStep(t)
  \/ Condemn(t) \/ HashFiles(t) \/ Vouch(t)
  \/ Kill(t)

VerifierStep(t) ==
  \/ Compare(t) \/ SmokeStep(t) \/ Attest(t) \/ Stamp(t) \/ Kill(t)

ServerStep ==
  \/ \E e \in Explicit, a \in BOOLEAN : ServerStart(e, a)
  \/ ServerStat \/ ServerEvaluate \/ ServerLoad \/ ServerStop

Next ==
  \/ \E t \in Provisioners :
       ProvisionerStep(t) \/ \E o \in ProvisionRequests : BeginProvision(t, o)
  \/ \E t \in Verifiers :
       \/ VerifierStep(t)
       \/ \E o \in VerifyRequests, e \in Explicit : BeginVerify(t, o, e)
  \/ \E f \in Files : Rewrite(f)
  \/ ServerStep

Spec == Init /\ [][Next]_vars

(* A process that runs gets on with it: no step waits for another process. *)
ToolStep(t) ==
  \/ UpToDate(t) \/ StartExport(t) \/ ExportPhase(t) \/ ExportDone(t)
  \/ SmokeStep(t) \/ Condemn(t) \/ HashFiles(t) \/ Vouch(t)
  \/ Compare(t) \/ Attest(t) \/ Stamp(t)

FairSpec ==
  /\ Spec
  /\ \A t \in Tools : WF_vars(ToolStep(t))

-----------------------------------------------------------------------------
(* Properties *)

(* A readable marker that says "pass" vouches for something, and only for  *)
(* bytes that went through the smoke test: it records every required file  *)
(* of its set, each with the hash of a sound content (marker.rs, verify.rs *)
(* "a marker that vouches for nothing is the same hole wearing a hat").    *)
Vouches(m) ==
  /\ RequiredFiles(m.set, FALSE) \subseteq Recorded(m)
  /\ \A f \in Recorded(m) : m.files[f] \in Sound

PassVouchesForSound ==
  Readable(marker) /\ marker.smoke = "pass" => Vouches(marker)

(* When every content has its own length, the stat-only evaluation tells   *)
(* the truth: a directory it calls verified for a set holds sound contents *)
(* in every file of that set, whatever was killed, torn or replaced.       *)
VerifiedMeansSound ==
  \A wanted \in ModelSets :
    Evaluate(dir, marker, wanted) = "verified"
      => AllSound(dir, RequiredFiles(wanted, FALSE))

(* A directory verified for the set its marker records is one a server     *)
(* without DIAR_MODEL_SET starts from: the gate judges it by that set      *)
(* (serving_set), and finds nothing missing.                               *)
GateAcceptsVerified ==
  Readable(marker) /\ Evaluate(dir, marker, marker.set) = "verified"
    => GateProceeds(dir, marker, ServingSet(marker, "none"))

(* The step of nobody who has just exported.                               *)
KeepsProvenance ==
  (marker' # marker /\ \A t \in Provisioners : pc[t] \notin {"condemn", "vouch"})
   => /\ Readable(marker)
      /\ marker'.files = marker.files
      /\ marker'.set = marker.set
      /\ marker'.recipe = marker.recipe

(* Only a provisioning run that has just exported says where the bytes     *)
(* came from: nothing else creates a marker, or changes the set, the       *)
(* recipe or the hashes of one (mod.rs attest).                            *)
ProvenanceFromExport == [][KeepsProvenance]_vars

(* The step that ends a provisioning run well.                             *)
ProvisionsVerified ==
  \A t \in Provisioners : outcome'[t] = "provisioned" =>
     /\ Evaluate(dir', marker', opt[t].set) = "verified"
     /\ AllSound(dir', RequiredFiles(opt[t].set, opt[t].gender))
     /\ \A f \in Recorded(marker') : marker'.files[f] = dir'[f]

(* provision-models exits 0 with "provisioned" only over a directory that  *)
(* holds everything asked for, sound and recorded as it is, and that the   *)
(* stat-only evaluation then calls verified.                               *)
ProvisionedIsVerified == [][ProvisionsVerified]_vars

(* The step that ends a verification well.                                 *)
VerifiesExactly ==
  \A t \in Verifiers : outcome'[t] = "ok" =>
     /\ \A f \in RequiredFiles(opt[t].set, opt[t].gender) : dir[f] \in Sound
     /\ Readable(marker)
     /\ Recorded(marker) # {}
     /\ \A f \in Recorded(marker) : dir[f] = marker.files[f]

(* verify-models exits 0 only over a directory whose files are the very    *)
(* ones the marker recorded, and sound: also where stat sees no difference. *)
DeepVerifyIsExact == [][VerifiesExactly]_vars

(* Is v, as an error recorded over directory d by a run with options o,    *)
(* what was wrong?                                                         *)
Deserved(d, o, v) ==
  LET required == RequiredFiles(o.set, o.gender) IN
    CASE v \in {"missing", "models"} -> ~AllSound(d, required)
      [] v = "clip" -> o.clip = "bad"
      [] v = "engine" -> AllSound(d, required) /\ ~AllSound(d, Opened(d, o))
      [] v = "machine" -> AllSound(d, required)
      [] OTHER -> FALSE

(* The step that writes a failure down.                                    *)
FailsDeservedly ==
  (marker' # marker /\ Readable(marker') /\ marker'.smoke = "fail")
   => \E t \in Provisioners :
        At(t, "condemn") /\ Deserved(dir, opt[t], marker'.error)

(* A marker is made to say "fail" only by a provisioning run, the recorded *)
(* error is true of the directory and the run at that moment, and it is    *)
(* never the device (mod.rs should_record_failure, verify.rs stage 4).     *)
(* This does not say that the files are bad: a clip that does not decode,  *)
(* or a machine that runs out of memory after the load, is written down    *)
(* against a sound directory (mod.rs provision; attest admits the latter). *)
FailIsDeserved == [][FailsDeservedly]_vars

(* A server that answers "verified" has loaded sound models for the set it *)
(* serves (main.rs readyz, decided once at startup).                       *)
ServesWhatWasVerified ==
  srv.pc = "up" /\ srv.status = "verified" => srv.sound

(* provision-models --force is always a way out, as every remedy printed   *)
(* says: from any directory and any marker, an export that starts with no  *)
(* fault left to come, a usable device and a good clip ends in a verified  *)
(* directory a server may start from.  With --skip-gender it may not: the  *)
(* engine still opens the gender file that was there.                      *)
StartsOver(t) ==
  /\ At(t, "export")
  /\ phase[t] = 1
  /\ faults = MaxFaults
  /\ opt[t].gender
  /\ ~Handicap(opt[t])

ExportRecovers ==
  \A t \in Provisioners : \A s \in ModelSets :
    (StartsOver(t) /\ opt[t].set = s)
      ~> (/\ Evaluate(dir, marker, s) = "verified"
          /\ GateProceeds(dir, marker, ServingSet(marker, "none")))

-----------------------------------------------------------------------------
(* What the documentation says and the code does not do. *)

(* docs/PROVISIONING.md: verify-models is the recovery path out of a       *)
(* marker that records a stale failure.  A run that passed every stage     *)
(* should not end with the failure still recorded.                         *)
AttestRecovers ==
  [][\A t \in Verifiers :
       (At(t, "attest") /\ pc'[t] = "idle" /\ outcome'[t] # "killed" /\ opt[t].attest)
         => ~(Readable(marker') /\ marker'.smoke = "fail")]_vars

(* docs/PROVISIONING.md, mod.rs: exit 9 leaves models that are not marked  *)
(* bad, that is a directory the gate does not find known-bad.              *)
DeviceFailureStaysServable ==
  [][\A t \in Provisioners : outcome'[t] = "device_unavailable" =>
       Evaluate(dir', marker', opt[t].set) # "failed"]_vars
=============================================================================
