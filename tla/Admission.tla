------------------------------ MODULE Admission ------------------------------
(***************************************************************************)
(* diar-server's request path (main.rs diarize, embed_window, admit,      *)
(* with_engine_on): a handler future that waits for admission and then    *)
(* for its job, and the job itself on a blocking thread.  When a client   *)
(* disconnects, the server drops the handler, and with it the permits;    *)
(* nothing stops the job.  Both endpoints take the same steps.            *)
(***************************************************************************)
EXTENDS Naturals, Sequences, FiniteSets

CONSTANTS
  Requests,
  Devices,           \* the engines loaded (engines.rs EngineRegistry)
  MaxInflight,       \* DIAR_MAX_INFLIGHT
  MaxInflightCpu,    \* DIAR_MAX_INFLIGHT_CPU; 0: unset, there is no CPU gate
  Builds,            \* is this a coreml build? a subset of BOOLEAN
  MayDisconnect,     \* do clients give up?
  Nobody

ASSUME AdmissionAssumption ==
  /\ IsFiniteSet(Requests)
  /\ Nobody \notin Requests
  /\ "unknown" \notin Devices
  /\ MaxInflight \in Nat \ {0}
  /\ MaxInflightCpu \in Nat
  /\ Builds \subseteq BOOLEAN
  /\ MayDisconnect \in BOOLEAN

Gates == {"global", "cpu"}
Permits(g) == IF g = "global" THEN MaxInflight ELSE MaxInflightCpu

VARIABLES
  coreml,        \* the build
  handler,       \* where each handler future is
  device,        \* the device each request resolved to
  holders,       \* who has a permit of each gate
  queue,         \* who waits for one, first come first served
  job,           \* where each job is
  owner          \* who has each engine's mutex

gateVars == <<holders, queue>>
vars == <<coreml, handler, device, gateVars, job, owner>>

Waiting == {"global", "cpu", "join"}
Active == {"loading", "locking", "cloning", "running"}   \* of a job

TypeOK ==
  /\ coreml \in BOOLEAN
  /\ handler \in [Requests -> {"idle", "done", "gone"} \cup Waiting]
  /\ device \in [Requests -> Devices \cup {"unknown"}]
  /\ holders \in [Gates -> SUBSET Requests]
  /\ queue \in [Gates -> Seq(Requests)]
  /\ job \in [Requests -> {"none", "ended"} \cup Active]
  /\ owner \in [Devices -> Requests \cup {Nobody}]

Init ==
  /\ coreml \in Builds
  /\ handler = [r \in Requests |-> "idle"]
  /\ device = [r \in Requests |-> "unknown"]
  /\ holders = [g \in Gates |-> {}]
  /\ queue = [g \in Gates |-> << >>]
  /\ job = [r \in Requests |-> "none"]
  /\ owner = [d \in Devices |-> Nobody]

-----------------------------------------------------------------------------
(* tokio::sync::Semaphore: fair, and a released permit goes to the first   *)
(* waiter before anybody else can take it.                                 *)

Queued(g) == {queue[g][i] : i \in DOMAIN queue[g]}

CanTake(g) == queue[g] = << >> /\ Cardinality(holders[g]) < Permits(g)

Acquire(g, r) ==
  IF CanTake(g)
  THEN /\ holders' = [holders EXCEPT ![g] = @ \cup {r}]
       /\ UNCHANGED queue
  ELSE /\ queue' = [queue EXCEPT ![g] = Append(@, r)]
       /\ UNCHANGED holders

(* A dropped Acquire leaves the queue. *)
Without(q, r) ==
  IF \E i \in DOMAIN q : q[i] = r
  THEN LET at == CHOOSE i \in DOMAIN q : q[i] = r IN
       [i \in 1..(Len(q) - 1) |-> IF i < at THEN q[i] ELSE q[i + 1]]
  ELSE q

Handed(g, r) ==
  (holders[g] \ {r}) \cup (IF queue[g] = << >> THEN {} ELSE {Head(queue[g])})

(* The permits, and the place in a queue, of a handler that ends. *)
ReleaseAll(r) ==
  /\ holders' = [g \in Gates |-> IF r \in holders[g] THEN Handed(g, r) ELSE holders[g]]
  /\ queue' = [g \in Gates |->
                 IF r \notin holders[g] THEN Without(queue[g], r)
                 ELSE IF queue[g] = << >> THEN << >> ELSE Tail(queue[g])]

-----------------------------------------------------------------------------
(* The handler *)

(* A device that is not loaded costs a 400 and no permit. *)
Reject(r) ==
  /\ handler[r] = "idle"
  /\ handler' = [handler EXCEPT ![r] = "done"]
  /\ UNCHANGED <<coreml, device, gateVars, job, owner>>

Arrive(r, d) ==
  /\ handler[r] = "idle"
  /\ handler' = [handler EXCEPT ![r] = "global"]
  /\ device' = [device EXCEPT ![r] = d]
  /\ Acquire("global", r)
  /\ UNCHANGED <<coreml, job, owner>>

(* Mutant: the CPU gate is not asked. *)
NeedsCpuPermitNever(r) == FALSE

NeedsCpuPermit(r) == device[r] = "cpu" /\ MaxInflightCpu > 0

Spawn(r) ==
  /\ handler' = [handler EXCEPT ![r] = "join"]
  /\ job' = [job EXCEPT ![r] = "loading"]

(* The global permit first, the CPU permit second. *)
PassGlobal(r) ==
  /\ handler[r] = "global"
  /\ r \in holders["global"]
  /\ IF NeedsCpuPermit(r)
     THEN /\ handler' = [handler EXCEPT ![r] = "cpu"]
          /\ Acquire("cpu", r)
          /\ UNCHANGED job
     ELSE Spawn(r) /\ UNCHANGED gateVars
  /\ UNCHANGED <<coreml, device, owner>>

PassCpu(r) ==
  /\ handler[r] = "cpu"
  /\ r \in holders["cpu"]
  /\ Spawn(r)
  /\ UNCHANGED <<coreml, device, gateVars, owner>>

(* Mutants: the permits are forgotten with the response; a permit is       *)
(* given back both by hand and by its drop.                                *)
RespondForgets(r) ==
  /\ handler[r] = "join"
  /\ job[r] = "ended"
  /\ handler' = [handler EXCEPT ![r] = "done"]
  /\ job' = [job EXCEPT ![r] = "none"]
  /\ device' = [device EXCEPT ![r] = "unknown"]
  /\ UNCHANGED <<coreml, gateVars, owner>>
RespondReleasesTwice(r) ==
  /\ handler[r] = "join"
  /\ job[r] = "ended"
  /\ handler' = [handler EXCEPT ![r] = "done"]
  /\ job' = [job EXCEPT ![r] = "none"]
  /\ device' = [device EXCEPT ![r] = "unknown"]
  /\ LET waiters == {queue["global"][i] : i \in DOMAIN queue["global"] \cap {1, 2}} IN
     /\ holders' = [g \in Gates |-> (holders[g] \ {r})
                       \cup (IF g = "global" THEN waiters ELSE {})]
     /\ queue' = [queue EXCEPT !["global"] = SubSeq(@, 3, Len(@))]
  /\ UNCHANGED <<coreml, owner>>

(* 200, 422 or 500, as the job ended; the permits go with the handler. *)
Respond(r) ==
  /\ handler[r] = "join"
  /\ job[r] = "ended"
  /\ handler' = [handler EXCEPT ![r] = "done"]
  /\ job' = [job EXCEPT ![r] = "none"]
  /\ device' = [device EXCEPT ![r] = "unknown"]
  /\ ReleaseAll(r)
  /\ UNCHANGED <<coreml, owner>>

(* The client is gone: the future is dropped where it waits. *)
Disconnect(r) ==
  /\ MayDisconnect
  /\ handler[r] \in Waiting
  /\ handler' = [handler EXCEPT ![r] = "gone"]
  /\ job' = [job EXCEPT ![r] = IF @ = "ended" THEN "none" ELSE @]
  /\ ReleaseAll(r)
  /\ UNCHANGED <<coreml, device, owner>>

-----------------------------------------------------------------------------
(* The job, under spawn_blocking *)

(* A job ends with a result, an error or a panic, which the runtime      *)
(* catches; nobody takes it if the handler is gone.                        *)
Becomes(r, state) ==
  job' = [job EXCEPT ![r] =
            IF state = "ended" /\ handler[r] = "gone" THEN "none" ELSE state]

(* load_audio or decode_samples_b64, when a blocking thread is free. *)
Load(r) ==
  /\ job[r] = "loading"
  /\ \E next \in {"locking", "ended"} : Becomes(r, next)
  /\ UNCHANGED <<coreml, handler, device, gateVars, owner>>

(* Mutants: the mutex remembers the wrong owner; coreml jobs do not keep   *)
(* it, like the others.                                                    *)
LockForDevice(r) ==
  /\ job[r] = "locking"
  /\ owner[device[r]] = Nobody
  /\ owner' = [owner EXCEPT ![device[r]] = device[r]]
  /\ Becomes(r, IF coreml THEN "running" ELSE "cloning")
  /\ UNCHANGED <<coreml, handler, device, gateVars>>
LockAndClone(r) ==
  /\ job[r] = "locking"
  /\ owner[device[r]] = Nobody
  /\ owner' = IF coreml THEN owner ELSE [owner EXCEPT ![device[r]] = r]
  /\ Becomes(r, IF coreml THEN "running" ELSE "cloning")
  /\ UNCHANGED <<coreml, handler, device, gateVars>>

(* with_engine_on: a poisoned mutex is taken all the same. *)
Lock(r) ==
  /\ job[r] = "locking"
  /\ owner[device[r]] = Nobody
  /\ owner' = [owner EXCEPT ![device[r]] = r]
  /\ Becomes(r, IF coreml THEN "running" ELSE "cloning")
  /\ UNCHANGED <<coreml, handler, device, gateVars>>

(* clone_shared, with the mutex held for it alone. *)
Clone(r) ==
  /\ job[r] = "cloning"
  /\ owner' = [owner EXCEPT ![device[r]] = Nobody]
  /\ \E next \in {"running", "ended"} : Becomes(r, next)
  /\ UNCHANGED <<coreml, handler, device, gateVars>>

(* Mutant: the mutex is not given back. *)
FinishJobKeeping(r) ==
  /\ job[r] = "running"
  /\ Becomes(r, "ended")
  /\ UNCHANGED <<coreml, handler, device, gateVars, owner>>

(* The guard of a coreml job goes when the job does, panicking or not. *)
FinishJob(r) ==
  /\ job[r] = "running"
  /\ owner' = IF coreml THEN [owner EXCEPT ![device[r]] = Nobody] ELSE owner
  /\ Becomes(r, "ended")
  /\ UNCHANGED <<coreml, handler, device, gateVars>>

-----------------------------------------------------------------------------
HandlerStep(r) == PassGlobal(r) \/ PassCpu(r) \/ Respond(r)
JobStep(r) == Load(r) \/ Lock(r) \/ Clone(r) \/ FinishJob(r)

(* Every request came, was answered or given up, and no job is left. *)
Quiescent ==
  /\ \A r \in Requests : handler[r] \in {"done", "gone"} /\ job[r] = "none"
  /\ UNCHANGED vars

Next ==
  \/ \E r \in Requests :
       \/ Reject(r)
       \/ \E d \in Devices : Arrive(r, d)
       \/ HandlerStep(r) \/ JobStep(r) \/ Disconnect(r)
  \/ Quiescent

Spec == Init /\ [][Next]_vars

(* A future that can go on is polled, a blocking thread runs, inference    *)
(* ends.  A handler and its job never can both go on, so one weak fairness *)
(* covers the two; a request comes once, so nobody overtakes for ever at   *)
(* the mutex.                                                              *)
FairSpec ==
  /\ Spec
  /\ \A r \in Requests : WF_vars(HandlerStep(r) \/ JobStep(r))

-----------------------------------------------------------------------------
Running(r) == job[r] \in Active

(* No more permits are out than a gate has. *)
PermitsBounded == \A g \in Gates : Cardinality(holders[g]) <= Permits(g)

(* No permit is lost, whoever is dropped and when: a permit is held by a   *)
(* handler that still lives, and while somebody waits all are held.        *)
NoPermitLost ==
  \A g \in Gates :
    /\ \A r \in holders[g] : handler[r] \in Waiting
    /\ queue[g] # << >> => Cardinality(holders[g]) = Permits(g)

(* No more jobs than DIAR_MAX_INFLIGHT, and of CPU jobs than               *)
(* DIAR_MAX_INFLIGHT_CPU if it is set, run for clients that still wait     *)
(* (main.rs admit).                                                        *)
AwaitedJobsBounded ==
  LET Awaited == {r \in Requests : handler[r] = "join"} IN
  /\ Cardinality(Awaited) <= MaxInflight
  /\ MaxInflightCpu > 0 =>
       Cardinality({r \in Awaited : device[r] = "cpu"}) <= MaxInflightCpu

(* Under coreml an engine runs one job at a time, panics included: speakrs *)
(* documents its models as single-thread-at-a-time (main.rs with_engine_on). *)
OneCoremlJobPerEngine ==
  coreml => \A r, q \in Requests :
    (job[r] = "running" /\ job[q] = "running" /\ device[r] = device[q]) => r = q

(* Every request is answered, or its client has left: since a request     *)
(* comes once, again and again there is nobody left who waits.             *)
EveryRequestEnds ==
  []<>(\A r \in Requests : handler[r] \notin Waiting)

(* main.rs AppState: DIAR_MAX_INFLIGHT bounds the total inflight work, so  *)
(* that load cannot oversubscribe the box.                                 *)
RunningJobsBounded == Cardinality({r \in Requests : Running(r)}) <= MaxInflight
=============================================================================
