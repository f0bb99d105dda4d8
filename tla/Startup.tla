------------------------------- MODULE Startup -------------------------------
(***************************************************************************)
(* diar-server serving: run() from the environment to axum::serve, the     *)
(* choice of devices (engines.rs), the capability list of /healthz, and    *)
(* one request after the other through its handler, its job and its log    *)
(* record (main.rs, reqlog.rs).  Requests side by side, permits and        *)
(* engine locks are in module Admission; how the gate judges a directory   *)
(* is in module Provisioning.                                              *)
(***************************************************************************)
EXTENDS Integers, Sequences, Functions

CONSTANTS
  Builds,            \* the features a binary may be compiled with: sets of features
  DeviceLists,       \* values of DIAR_DEVICES, split at the commas
  Null               \* an unset variable, an omitted field

VARIABLES
  env,           \* the build and the environment; does not change
  server,        \* where run() is, what it has planned, loaded and admits
  request,       \* the request at hand: what it asks for and where its handler is
  job,           \* its spawn_blocking job, which outlives the handler
  record         \* its terminal log record

startupVars == <<env, server, request, job, record>>

-----------------------------------------------------------------------------
(* Devices *)

Device == {"cuda", "coreml", "coreml_fast", "cpu"}

ASSUME StartupAssumption ==
  /\ DeviceLists \subseteq Seq(STRING)
  /\ Null \notin Device

RequiredFeature(device) ==
  CASE device = "cpu" -> {} [] device = "cuda" -> {"cuda"} [] OTHER -> {"coreml"}
IsCompiledIn(device) == RequiredFeature(device) \subseteq env.build

(* supported(): what this build can serve. *)
Supported == {device \in Device : IsCompiledIn(device)}

(* Mutant: any device name will do. *)
ParsedByName(name) == IF name \in Device THEN "ok" ELSE "unknown"

(* FromStr for Device: "ok", or the variant of DeviceError. *)
Parsed(name) ==
  CASE name \notin Device -> "unknown"
    [] name \in Device /\ ~IsCompiledIn(name) -> "not_compiled_in"
    [] OTHER -> "ok"

(* Of a list that is not all blank, the first entry that is not. *)
HasNames(list) == \E i \in DOMAIN list : list[i] # ""
FirstName(list) ==
  list[CHOOSE i \in DOMAIN list : list[i] # "" /\ \A j \in 1..(i - 1) : list[j] = ""]

(* Mutant: an entry that comes twice is planned twice. *)
PlannedTwice(list) == SelectSeq(list, LAMBDA name : name # "")

(* What the loop over the entries has planned after each of them: blanks   *)
(* are skipped, and what is planned already.                               *)
Loop(list) ==
  LET planned[i \in 0..Len(list)] ==
        IF i = 0 THEN << >>
        ELSE IF list[i] = "" \/ list[i] \in Range(planned[i - 1]) THEN planned[i - 1]
        ELSE Append(planned[i - 1], list[i])
  IN planned
Planned(list) == Loop(list)[Len(list)]

(* device_from_mode: what is not recognised is cuda. *)
DeviceFromMode == IF env.mode \in {"cpu", "coreml", "coreml_fast"} THEN env.mode ELSE "cuda"

(* DIAR_DEVICES has a name. *)
Named == env.devices # Null /\ HasNames(env.devices)

(* plan_devices: << >> is an error. *)
PlanDevices ==
  IF Named
  THEN IF \A name \in Range(env.devices) \ {""} : Parsed(name) = "ok"
       THEN Planned(env.devices) ELSE << >>
  ELSE IF Parsed(DeviceFromMode) = "ok" THEN <<DeviceFromMode>> ELSE << >>

(* Mutant: the mode is taken as the server takes it. *)
ProvisioningModeOfServer == IF Parsed(DeviceFromMode) = "ok" THEN DeviceFromMode ELSE "usage"

(* provisioning_mode: --mode or DIAR_MODE, the first of DIAR_DEVICES, cpu. *)
ProvisioningMode ==
  LET named == IF env.mode # Null THEN env.mode
               ELSE IF Named THEN FirstName(env.devices) ELSE "cpu" IN
  IF Parsed(named) = "ok" THEN named ELSE "usage"

(* EngineRegistry: the loaded devices, the first being the default. *)
DefaultDevice == server.engines[1]

(* EngineRegistry::resolve of a device name. *)
Resolution(name) ==
  IF name = Null THEN "ok"
  ELSE IF Parsed(name) # "ok" THEN Parsed(name)
  ELSE IF name \in Range(server.engines) THEN "ok" ELSE "not_loaded"

-----------------------------------------------------------------------------
Modes == {Null, "cpu", "nonsense"}
Limits == {Null, 0, 1}          \* a limit that is unset or does not parse is Null
Endpoints == {"/diarize", "/embed_window"}
Media == {"none", "good", "bad"}
Asked == {Null, "cpu", "coreml", "tpu"}

(* /diarize has a path and no samples. *)
Requests == {r \in [endpoint : Endpoints, device : Asked, samples_b64 : Media, wav_path : Media] :
               r.endpoint = "/diarize" => r.samples_b64 = "none" /\ r.wav_path # "none"}
NoRequest == [endpoint |-> "/diarize", device |-> Null, samples_b64 |-> "none",
              wav_path |-> "good"]

Classes == {"none", "ok", "bad_device", "invalid_input", "audio_decode", "inference", "panic"}
NoRecord == [level |-> "none", class |-> "none", status |-> 0]
NoJob == [at |-> "none", device |-> Null, class |-> "none"]
NoAnswer == [at |-> "none", of |-> NoRequest, device |-> Null, class |-> "none", status |-> 0]

StartupTypeOK ==
  /\ env \in [build : Builds, devices : DeviceLists \cup {Null}, mode : Modes]
  /\ server \in [at : {"gates", "models", "plan", "load", "bind", "serving", "ended"},
                 code : {"none", "FAILURE", "MODELS_UNUSABLE", "KILLED"},
                 models : {"none", "verified", "stale", "unverified", "failed"},
                 planned : Seq(Device), engines : Seq(Device),
                 inflight : Limits, gate : Nat, cpu_gate : Nat \cup {Null}]
  /\ request \in [at : {"none", "arrived", "admitting", "joining", "finishing", "logged",
                        "answered", "dropped", "rejected"},
                  of : Requests, device : Device \cup {Null}, class : Classes, status : Nat]
  /\ job \in [at : {"none", "input", "inference", "done"}, device : Device \cup {Null},
              class : Classes]
  /\ record \in [level : {"none", "info", "warn", "error"}, class : Classes, status : Nat]

StartupInit ==
  /\ env \in [build : Builds, devices : DeviceLists \cup {Null}, mode : Modes]
  /\ server = [at |-> "gates", code |-> "none", models |-> "none", planned |-> << >>,
               engines |-> << >>, inflight |-> Null, gate |-> 0, cpu_gate |-> Null]
  /\ request = NoAnswer /\ job = NoJob /\ record = NoRecord

-----------------------------------------------------------------------------
(* run() *)

notServing == <<env, request, job, record>>

(* shutdown::exit and exit_main: the one way out, and the code. *)
Stop(code) == server' = [server EXCEPT !.at = "ended", !.code = code]

(* Mutant: the value is taken as it is. *)
PositiveUnfiltered(limit, default) == IF limit # Null THEN limit ELSE default

(* A limit of 0 would let nobody in: it counts as unset. *)
Positive(limit, default) == IF limit # Null /\ limit > 0 THEN limit ELSE default

(* The gates, and for the record DIAR_MAX_INFLIGHT as it was set. *)
ReadLimits ==
  /\ server.at = "gates"
  /\ \E inflight, cpu \in Limits :
       server' = [server EXCEPT !.at = "models", !.inflight = inflight,
                                !.gate = Positive(inflight, 2),
                                !.cpu_gate = Positive(cpu, Null)]
  /\ UNCHANGED notServing

(* startup_gate_or_exit: missing or known-bad models are fatal, unless it  *)
(* is told to start anyway.                                                *)
StartupGate ==
  /\ server.at = "models"
  /\ \/ \E state \in {"verified", "stale", "unverified", "failed"} :
          server' = [server EXCEPT !.at = "plan", !.models = state]
     \/ Stop("MODELS_UNUSABLE")
  /\ UNCHANGED notServing

Plan ==
  /\ server.at = "plan"
  /\ IF PlanDevices = << >> THEN Stop("FAILURE")
     ELSE server' = [server EXCEPT !.at = "load", !.planned = PlanDevices]
  /\ UNCHANGED notServing

(* EngineRegistry::load, one engine after the other; one that does not     *)
(* load ends the server.                                                   *)
LoadEngine ==
  /\ server.at = "load"
  /\ LET rest == Tail(server.planned)
         next == IF rest = << >> THEN "bind" ELSE "load" IN
     \/ server' = [server EXCEPT !.engines = Append(@, Head(server.planned)),
                                 !.planned = rest, !.at = next]
     \/ Stop("FAILURE")
  /\ UNCHANGED notServing

Bind ==
  /\ server.at = "bind"
  /\ \/ server' = [server EXCEPT !.at = "serving"]
     \/ Stop("FAILURE")                           \* the address is in use
  /\ UNCHANGED notServing

(* health_body: what a client may send as "device", and what a rebuild or  *)
(* a restart would add.                                                    *)
Health == [default_device |-> DefaultDevice, devices |-> server.engines,
           supported_devices |-> Supported, models_verified |-> server.models = "verified"]

-----------------------------------------------------------------------------
(* A request *)

serving == <<env, server>>

Arrive ==
  /\ server.at = "serving"
  /\ request.at = "none"
  /\ \E r \in Requests : request' = [NoAnswer EXCEPT !.at = "arrived", !.of = r]
  /\ UNCHANGED <<serving, job, record>>

(* The Json extractor refuses a body that is not the request's JSON: the   *)
(* handler is not called, so that there is no log.                         *)
Refused ==
  /\ server.at = "serving"
  /\ request.at = "none"
  /\ \E status \in {400, 415, 422} :
       request' = [NoAnswer EXCEPT !.at = "rejected", !.status = status]
  /\ UNCHANGED <<serving, job, record>>

(* fail: the handler has an answer, which finish is going to log. *)
Answer(class) ==
  request' = [request EXCEPT !.at = "finishing", !.class = class,
                             !.status = CASE class = "ok" -> 200 [] class = "bad_device" -> 400
                                          [] class = "panic" -> 500 [] OTHER -> 422]

(* RequestLog::new, then resolve, before a permit is asked for. *)
ResolveDevice ==
  /\ request.at = "arrived"
  /\ LET name == request.of.device IN
     IF Resolution(name) = "ok"
     THEN request' = [request EXCEPT !.at = "admitting",
                                     !.device = IF name = Null THEN DefaultDevice ELSE name]
     ELSE Answer("bad_device")
  /\ UNCHANGED <<serving, job, record>>

(* admit: it waits, and does not fail, as nobody closes the gates. *)
Admit ==
  /\ request.at = "admitting"
  /\ server.gate > 0
  /\ request.device = "cpu" /\ server.cpu_gate # Null => server.cpu_gate > 0
  /\ request' = [request EXCEPT !.at = "joining"]
  /\ job' = [at |-> "input", device |-> request.device, class |-> "none"]
  /\ UNCHANGED <<serving, record>>

(* Mutant: samples that do not decode are bad audio. *)
InputErrorOfAudio(r) ==
  IF r.samples_b64 # "none" THEN (IF r.samples_b64 = "bad" THEN "audio_decode" ELSE "none")
  ELSE IF r.wav_path = "none" THEN "invalid_input"
  ELSE IF r.wav_path = "bad" THEN "audio_decode" ELSE "none"

(* What is wrong with the input; samples go before a path.  A path that    *)
(* cannot be read is a bad one.  No start_s/end_s window is refused here:  *)
(* one that selects no audio leaves an empty clip for Infer to fail on.    *)
InputError(r) ==
  IF r.samples_b64 # "none" THEN (IF r.samples_b64 = "bad" THEN "invalid_input" ELSE "none")
  ELSE IF r.wav_path = "none" THEN "invalid_input"
  ELSE IF r.wav_path = "bad" THEN "audio_decode" ELSE "none"

JobDone(class) == job' = [job EXCEPT !.at = "done", !.class = class]

(* The job gets its audio, then runs the engine; it may panic in both. *)
LoadInput ==
  /\ job.at = "input"
  /\ \/ /\ InputError(request.of) = "none"
        /\ job' = [job EXCEPT !.at = "inference"]
     \/ /\ InputError(request.of) # "none"
        /\ JobDone(InputError(request.of))
     \/ JobDone("panic")
  /\ UNCHANGED <<serving, request, record>>

Infer ==
  /\ job.at = "inference"
  /\ \E class \in {"ok", "inference", "panic"} : JobDone(class)
  /\ UNCHANGED <<serving, request, record>>

(* Mutant: a panicking job is waited for as if it could not panic. *)
JoinUnwrapped ==
  /\ request.at = "joining"
  /\ job.at = "done"
  /\ IF job.class = "panic"
     THEN request' = [request EXCEPT !.at = "logged", !.class = "panic", !.status = 500]
     ELSE Answer(job.class)
  /\ UNCHANGED <<serving, job, record>>

Join ==
  /\ request.at = "joining"
  /\ job.at = "done"
  /\ Answer(job.class)
  /\ UNCHANGED <<serving, job, record>>

(* RequestLog::finish: the one terminal record, at the level of its status. *)
Finish ==
  /\ request.at = "finishing"
  /\ record' = [class |-> request.class, status |-> request.status,
                level |-> IF request.class = "ok" THEN "info"
                          ELSE IF request.status >= 500 THEN "error" ELSE "warn"]
  /\ request' = [request EXCEPT !.at = "logged"]
  /\ UNCHANGED <<serving, job>>

Respond ==
  /\ request.at = "logged"
  /\ request' = [request EXCEPT !.at = "answered"]
  /\ UNCHANGED <<serving, job, record>>

(* The client goes while the handler waits: the handler is dropped at its  *)
(* await, its job is not.                                                  *)
Disconnect ==
  /\ request.at \in {"admitting", "joining"}
  /\ request' = [request EXCEPT !.at = "dropped"]
  /\ UNCHANGED <<serving, job, record>>

(* The next request, when this one has nothing left at work. *)
NextRequest ==
  /\ request.at \in {"answered", "dropped", "rejected"}
  /\ job.at \in {"none", "done"}
  /\ request' = NoAnswer /\ job' = NoJob /\ record' = NoRecord
  /\ UNCHANGED serving

(* docker stop: there is no graceful shutdown. *)
KillServer ==
  /\ server.at = "serving"
  /\ Stop("KILLED")
  /\ request' = NoAnswer /\ job' = NoJob /\ record' = NoRecord
  /\ UNCHANGED env

StartStep == ReadLimits \/ StartupGate \/ Plan \/ LoadEngine \/ Bind
HandlerStep == ResolveDevice \/ Admit \/ Join \/ Finish \/ Respond
JobStep == LoadInput \/ Infer

StartupNext ==
  \/ StartStep \/ HandlerStep \/ JobStep
  \/ Arrive \/ Refused \/ Disconnect \/ NextRequest \/ KillServer

-----------------------------------------------------------------------------
(* A server that serves runs the whole of what was asked for: with         *)
(* DIAR_DEVICES every entry of it, and no other device, the first being    *)
(* the default; nothing was skipped, doubled or replaced ("a misconfigured *)
(* device fails startup rather than the first request").                   *)
ServingIsWhole ==
  server.at = "serving" =>
    LET asked == IF env.devices = Null THEN {} ELSE Range(env.devices) \ {""} IN
    /\ asked # {} => /\ Range(server.engines) = asked
                     /\ \E i \in DOMAIN env.devices :
                          /\ env.devices[i] = DefaultDevice
                          /\ \A j \in 1..(i - 1) : env.devices[j] = ""
    /\ asked = {} => Len(server.engines) = 1
    /\ IsInjective(server.engines)

(* What /healthz lists is what a client gets: a device in "devices" is     *)
(* accepted, one only in "supported_devices" needs another DIAR_DEVICES    *)
(* (and is refused for not being loaded), any other a rebuild; and the     *)
(* default is the first.                                                   *)
HealthNegotiates ==
  server.at = "serving" =>
    \A name \in Device \cup (Asked \ {Null}) :
      /\ name \in Range(Health.devices) <=> Resolution(name) = "ok"
      /\ name \in Health.supported_devices \ Range(Health.devices)
           <=> Resolution(name) = "not_loaded"
      /\ Health.default_device = Health.devices[1]

(* With DIAR_MODE unset and DIAR_DEVICES set, provision-models tests the   *)
(* models on the device the server will use when a request names none      *)
(* ("an operator who sets DIAR_DEVICES=cpu gets a CPU server").            *)
ProvisioningAgreesWithServing ==
  server.at = "serving" /\ env.mode = Null /\ Named => ProvisioningMode = DefaultDevice

(* Whatever way a handler comes to its answer, the record a caller finds   *)
(* under the request id says the same, and says "error" exactly when the   *)
(* sidecar answered 5xx.                                                   *)
AnswerIsRecorded ==
  request.at = "answered" =>
    /\ record.status = request.status /\ record.class = request.class
    /\ record.level = "error" <=> request.status >= 500
    /\ record.level = "info" <=> request.status = 200

(* The class of a failure names its owner: bad_device, invalid_input and   *)
(* audio_decode blame the caller, and only for what the caller sent; a     *)
(* request in good order is never the one to blame.                        *)
ClassNamesTheOwner ==
  record.class # "none" =>
    LET r == request.of
        input == IF r.samples_b64 # "none" THEN r.samples_b64 ELSE r.wav_path IN
    /\ record.class = "bad_device" =>
         r.device # Null /\ r.device \notin Range(server.engines) /\ job.at = "none"
    /\ record.class = "audio_decode" => r.wav_path = "bad" /\ r.samples_b64 = "none"
    /\ record.class = "invalid_input" => r.endpoint = "/embed_window" /\ input # "good"
    /\ record.class \in {"ok", "inference"} => input = "good"

(* A request that reached its handler is answered, unless its client goes  *)
(* or the server is stopped: no limit in the environment makes it wait for *)
(* ever.                                                                   *)
RequestEnds ==
  request.at = "arrived" ~> request.at \in {"none", "answered", "dropped"}

-----------------------------------------------------------------------------
(* What the documentation says and the code does not do. *)

(* docs/CONFIGURATION.md, docs/TROUBLESHOOTING.md: DIAR_MAX_INFLIGHT=0 is  *)
(* accepted and deadlocks every request: none is ever let through to a job.*)
(* The code takes 0 for unset (main.rs run).                               *)
ZeroLimitDeadlocks ==
  server.at = "serving" /\ server.inflight = 0 => job.at = "none"
=============================================================================
