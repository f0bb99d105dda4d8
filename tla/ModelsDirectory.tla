--------------------------- MODULE ModelsDirectory ---------------------------
(***************************************************************************)
(* The models directory of diar-native and the provenance marker in it:   *)
(* what the files are, what a marker claims about them, and the pure      *)
(* decisions the Rust code takes from the two (evaluate, missing_required, *)
(* serving_set, the verdicts of the smoke test).  No state: Provisioning  *)
(* is the state machine that uses these operators.                        *)
(*                                                                         *)
(* The bytes of a file are abstracted to a member of Contents, of which   *)
(* only the length (what stat sees), the identity (what sha256 sees) and  *)
(* whether the five smoke stages accept it (Sound) matter.                *)
(***************************************************************************)
EXTENDS Naturals

CONSTANTS
  SharedFiles,   \* required by every model set, gender excluded
  BatchFiles,    \* the batch-64 graphs that make a set "fast"
  GenderModel,   \* gender-wav2vec2.onnx
  GenderMeta,    \* gender-wav2vec2.meta.json
  Contents,      \* the possible bytes of a file
  SizeOf,        \* Contents -> length in bytes
  Sound,         \* the contents that pass the smoke test
  Absent,        \* no such file; in a marker: no record of it
  NoMarker,      \* diar-provision.json does not exist
  Unreadable     \* diar-provision.json does not parse

Files == SharedFiles \cup BatchFiles \cup {GenderModel, GenderMeta}

ASSUME DirectoryAssumption ==
  /\ SizeOf \in [Contents -> Nat]
  /\ Sound \subseteq Contents
  /\ \A c \in Sound : SizeOf[c] > 0
  /\ Absent \notin Contents

ModelSets == {"fast", "small"}
EXPORT_RECIPE_VERSION == 2
MARKER_SCHEMA == 1

Directory == [Files -> Contents \cup {Absent}]
NoRecords == [f \in Files |-> Absent]

(* Why a smoke test did not pass; "ok" when it did.  The code carries the  *)
(* cause in the text of the error and tells only "device" from the rest.   *)
Verdicts == {"ok", "missing", "clip", "models", "engine", "machine", "device"}

(* marker.rs Marker, the fields something is decided from.  error is the   *)
(* SmokeRecord's error; files maps a recorded name to the recorded length  *)
(* and hash, that is to a content.                                         *)
Marker ==
  [schema : Nat, recipe : Nat, set : ModelSets \cup {"other"},
   files : Directory, smoke : {"pass", "fail"}, error : Verdicts]

MarkerFile == Marker \cup {NoMarker, Unreadable}

ASSUME MarkerAssumption ==
  /\ NoMarker \notin Marker
  /\ Unreadable \notin Marker
  /\ NoMarker # Unreadable

Readable(m) == m \notin {NoMarker, Unreadable}
Recorded(m) == {f \in Files : m.files[f] # Absent}

-----------------------------------------------------------------------------
(* files.rs *)

RequiredFiles(set, gender) ==
  SharedFiles
    \cup (IF set = "fast" THEN BatchFiles ELSE {})
    \cup (IF gender THEN {GenderModel} ELSE {})
    \cup (IF gender /\ set = "fast" THEN {GenderMeta} ELSE {})

(* What `--set small` deletes after a full export. *)
FastOnlyFiles == BatchFiles \cup {GenderMeta}

(* Mutant: the narrower set is taken for the wider one. *)
CoversAnything(have, wanted) == TRUE

Covers(have, wanted) == have = "fast" \/ have = wanted

-----------------------------------------------------------------------------
(* marker.rs: the fast, stat-only tier *)

Present(dir, f) == dir[f] # Absent
NonEmpty(dir, f) == Present(dir, f) /\ SizeOf[dir[f]] > 0

MissingRequired(dir, set, gender) ==
  {f \in RequiredFiles(set, gender) : ~NonEmpty(dir, f)}

(* Mutant: the length is not compared. *)
SameName(dir, m, f) == Present(dir, f)

(* A recorded file is there at the recorded length. *)
SameLength(dir, m, f) ==
  Present(dir, f) /\ SizeOf[dir[f]] = SizeOf[m.files[f]]

Interpretable(m) == Readable(m) /\ m.schema <= MARKER_SCHEMA
KnownBad(dir, m) ==
  \/ m.smoke # "pass"
  \/ \E f \in Recorded(m) : ~SameLength(dir, m, f)
Outdated(m, wanted) ==
  \/ m.recipe # EXPORT_RECIPE_VERSION
  \/ m.set \notin ModelSets
  \/ ~Covers(m.set, wanted)

(* marker.rs evaluate: the order of its early returns is the order here. *)
Evaluate(dir, m, wanted) ==
  IF ~Interpretable(m) THEN "unverified"
  ELSE IF KnownBad(dir, m) THEN "failed"
  ELSE IF Outdated(m, wanted) THEN "stale"
  ELSE "verified"

ModelsStates == {"verified", "stale", "unverified", "failed"}

(* Mutant: the set is guessed instead of read from the marker. *)
ServingSetGuessed(m, explicit) == IF explicit # "none" THEN explicit ELSE "fast"

(* provision/mod.rs serving_set: an explicit choice wins, then the marker. *)
ServingSet(m, explicit) ==
  IF explicit # "none" THEN explicit
  ELSE IF Readable(m) /\ m.set \in ModelSets THEN m.set ELSE "fast"

(* startup_gate_with, as one decision on one state of the directory: may a *)
(* server without the override start?                                      *)
GateProceeds(dir, m, set) ==
  /\ MissingRequired(dir, set, FALSE) = {}
  /\ Evaluate(dir, m, set) # "failed"

-----------------------------------------------------------------------------
(* verify.rs: the deep tier *)

AllSound(dir, names) == \A f \in names : dir[f] \in Sound

(* The part of verify::run before the end-to-end stage: required files,    *)
(* the clip, then stages 1, 2, 5 and 3.                                    *)
StructuralVerdict(dir, o) ==
  IF MissingRequired(dir, o.set, o.gender) # {} THEN "missing"
  ELSE IF o.clip = "bad" THEN "clip"
  ELSE IF ~AllSound(dir, RequiredFiles(o.set, o.gender)) THEN "models"
  ELSE "ok"

(* The engine opens the batch-64 and gender files whenever they are there, *)
(* whatever the set.                                                       *)
OpenedIfThere(dir) == {f \in BatchFiles \cup {GenderModel} : Present(dir, f)}
Opened(dir, o) == RequiredFiles(o.set, o.gender) \cup OpenedIfThere(dir)

(* Stage 4.  A load that fails on an accelerator is blamed on the device   *)
(* iff the same directory then loads on the CPU, though the device may be  *)
(* usable and only short of memory.  What fails on the CPU as well, or     *)
(* after the load, is an unsound file or again the machine (flaky).  An    *)
(* unsound file the set does not require may make it fail or not.          *)
EndToEndVerdicts(dir, o, flaky) ==
  LET sound == AllSound(dir, Opened(dir, o)) IN
    {v \in {"device", "engine", "machine", "ok"} :
       CASE v = "device" -> \/ o.device = "unusable"
                            \/ o.device # "cpu" /\ (flaky \/ ~sound)
         [] v = "engine" -> ~sound
         [] v = "machine" -> flaky
         [] v = "ok" -> /\ o.device # "unusable"
                        /\ AllSound(dir, RequiredFiles(o.set, o.gender))}

(* verify_deep's drift list: recorded files whose hash differs, and the    *)
(* marker itself when it records none.                                     *)
Drifted(dir, m) == {f \in Recorded(m) : dir[f] # m.files[f]}

(* Mutants: a marker that records nothing matches; lengths for hashes. *)
MatchesVacuously(dir, m) == Drifted(dir, m) = {}
MatchesByLength(dir, m) ==
  Recorded(m) # {} /\ \A f \in Recorded(m) : SameLength(dir, m, f)

MatchesMarker(dir, m) == Recorded(m) # {} /\ Drifted(dir, m) = {}
=============================================================================
