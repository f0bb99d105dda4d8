--------------------------- MODULE Admission_proofs ---------------------------
(***************************************************************************)
(* Theorems of Admission, for every number of requests, devices and       *)
(* permits: the gates never give out more permits than they have, and so  *)
(* bound the jobs somebody waits for; a coreml engine runs one job.       *)
(***************************************************************************)
EXTENDS Admission, FiniteSetTheorems, TLAPS

-----------------------------------------------------------------------------
(* What a request's handler, permits, job and mutex have to do with each   *)
(* other.                                                                  *)
Coupled(r) ==
  /\ handler[r] \in {"cpu", "join"} => r \in holders["global"]
  /\ handler[r] = "join" /\ NeedsCpuPermit(r) => r \in holders["cpu"]
  /\ handler[r] \in {"idle", "global", "cpu", "done"} => job[r] = "none"
  /\ handler[r] \in Waiting \cup {"gone"} => device[r] \in Devices
  /\ coreml => job[r] # "cloning" /\ (job[r] = "running" => owner[device[r]] = r)

AdmissionInv ==
  /\ TypeOK
  /\ PermitsBounded
  /\ \A r \in Requests : Coupled(r)

-----------------------------------------------------------------------------
(* The semaphore *)

LEMMA PermitsType == \A g \in Gates : Permits(g) \in Nat
  BY AdmissionAssumption DEF Permits, Gates

LEMMA HoldersFinite ==
  ASSUME TypeOK, NEW g \in Gates
  PROVE  IsFiniteSet(holders[g]) /\ Cardinality(holders[g]) \in Nat
  <1>1. holders[g] \subseteq Requests
    BY DEF TypeOK
  <1>2. QED
    BY <1>1, AdmissionAssumption, FS_Subset, FS_CardinalityType

LEMMA WithoutType ==
  ASSUME NEW q \in Seq(Requests), NEW r
  PROVE  Without(q, r) \in Seq(Requests)
  <1>1. CASE \E i \in DOMAIN q : q[i] = r
    <2> DEFINE at == CHOOSE i \in DOMAIN q : q[i] = r
    <2>1. Len(q) \in Nat /\ Len(q) >= 1 /\ Len(q) - 1 \in Nat
      BY <1>1
    <2>2. \A i \in 1..(Len(q) - 1) : q[i] \in Requests /\ q[i + 1] \in Requests
      BY <2>1
    <2>3. [i \in 1..(Len(q) - 1) |-> IF i < at THEN q[i] ELSE q[i + 1]] \in Seq(Requests)
      BY <2>1, <2>2
    <2>4. QED
      BY <1>1, <2>3 DEF Without
  <1>2. QED
    BY <1>1 DEF Without

(* Taking a permit, or a place in the queue, keeps the gates in order and  *)
(* takes nothing from anybody.                                             *)
LEMMA AcquireKeeps ==
  ASSUME TypeOK, PermitsBounded, NEW g \in Gates, NEW r \in Requests, Acquire(g, r)
  PROVE  /\ holders' \in [Gates -> SUBSET Requests]
         /\ queue' \in [Gates -> Seq(Requests)]
         /\ PermitsBounded'
         /\ \A h \in Gates : holders[h] \subseteq holders'[h]
  <1>1. CASE CanTake(g)
    <2>1. holders' = [holders EXCEPT ![g] = @ \cup {r}] /\ queue' = queue
      BY <1>1 DEF Acquire
    <2>2. Cardinality(holders[g]) < Permits(g)
      BY <1>1 DEF CanTake
    <2>3. Cardinality(holders[g] \cup {r}) <= Permits(g)
      <3>1. /\ IsFiniteSet(holders[g]) /\ Cardinality(holders[g]) \in Nat
            /\ Permits(g) \in Nat
        BY HoldersFinite, PermitsType
      <3>2. \/ Cardinality(holders[g] \cup {r}) = Cardinality(holders[g])
            \/ Cardinality(holders[g] \cup {r}) = Cardinality(holders[g]) + 1
        BY <3>1, FS_AddElement
      <3>3. QED
        BY <2>2, <3>1, <3>2
    <2>4. \A h \in Gates : holders'[h] = IF h = g THEN holders[g] \cup {r} ELSE holders[h]
      BY <2>1 DEF TypeOK
    <2>5. PermitsBounded'
      BY <2>3, <2>4 DEF PermitsBounded, Permits
    <2>6. QED
      BY <2>1, <2>4, <2>5 DEF TypeOK
  <1>2. CASE ~CanTake(g)
    <2>1. queue' = [queue EXCEPT ![g] = Append(@, r)] /\ holders' = holders
      BY <1>2 DEF Acquire
    <2>2. Append(queue[g], r) \in Seq(Requests)
      BY DEF TypeOK
    <2>3. queue' \in [Gates -> Seq(Requests)]
      BY <2>1, <2>2 DEF TypeOK
    <2>4. QED
      BY <2>1, <2>3 DEF TypeOK, PermitsBounded, Permits
  <1>3. QED
    BY <1>1, <1>2

(* A handler that ends gives up its own permits and nobody else's; each    *)
(* goes to one waiter at most.                                             *)
LEMMA ReleaseKeeps ==
  ASSUME TypeOK, PermitsBounded, NEW r \in Requests, ReleaseAll(r)
  PROVE  /\ holders' \in [Gates -> SUBSET Requests]
         /\ queue' \in [Gates -> Seq(Requests)]
         /\ PermitsBounded'
         /\ \A h \in Gates : holders[h] \ {r} \subseteq holders'[h]
  <1>1. ASSUME NEW g \in Gates
        PROVE  /\ holders'[g] = IF r \in holders[g] THEN Handed(g, r) ELSE holders[g]
               /\ queue'[g] \in Seq(Requests)
               /\ queue[g] # << >> => Head(queue[g]) \in Requests
    <2>1. queue[g] \in Seq(Requests)
      BY DEF TypeOK
    <2>2. Without(queue[g], r) \in Seq(Requests)
      BY <2>1, WithoutType
    <2>3. queue[g] # << >> => Tail(queue[g]) \in Seq(Requests) /\ Head(queue[g]) \in Requests
      BY <2>1
    <2>4. QED
      BY <2>2, <2>3 DEF ReleaseAll
  <1>2. ASSUME NEW g \in Gates
        PROVE  holders'[g] \subseteq Requests /\ holders[g] \ {r} \subseteq holders'[g]
    BY <1>1 DEF TypeOK, Handed
  <1>3. holders' \in [Gates -> SUBSET Requests]
    BY <1>2 DEF ReleaseAll
  <1>4. queue' \in [Gates -> Seq(Requests)]
    BY <1>1 DEF ReleaseAll
  <1>5. ASSUME NEW g \in Gates
        PROVE  Cardinality(holders'[g]) <= Permits(g)
    <2>1. /\ IsFiniteSet(holders[g]) /\ Cardinality(holders[g]) \in Nat
          /\ Cardinality(holders[g]) <= Permits(g) /\ Permits(g) \in Nat
      BY HoldersFinite, PermitsType DEF PermitsBounded
    <2>2. CASE r \notin holders[g]
      BY <1>1, <2>1, <2>2
    <2>3. CASE r \in holders[g]
      <3>1. /\ IsFiniteSet(holders[g] \ {r})
            /\ Cardinality(holders[g] \ {r}) = Cardinality(holders[g]) - 1
        BY <2>1, <2>3, FS_RemoveElement
      <3>2. CASE queue[g] = << >>
        <4>1. holders'[g] = holders[g] \ {r}
          BY <1>1, <2>3, <3>2 DEF Handed
        <4>2. QED
          BY <2>1, <3>1, <4>1
      <3>3. CASE queue[g] # << >>
        <4>1. holders'[g] = (holders[g] \ {r}) \cup {Head(queue[g])}
          BY <1>1, <2>3, <3>3 DEF Handed
        <4>2. \/ Cardinality(holders'[g]) = Cardinality(holders[g] \ {r})
              \/ Cardinality(holders'[g]) = Cardinality(holders[g] \ {r}) + 1
          BY <3>1, <4>1, FS_AddElement
        <4>3. QED
          BY <2>1, <3>1, <4>2
      <3>4. QED
        BY <3>2, <3>3
    <2>4. QED
      BY <2>2, <2>3
  <1>6. QED
    BY <1>2, <1>3, <1>4, <1>5 DEF PermitsBounded, Permits

-----------------------------------------------------------------------------
LEMMA InitAdmissionInv == Init => AdmissionInv
  <1> SUFFICES ASSUME Init PROVE AdmissionInv
    OBVIOUS
  <1>1. TypeOK
    BY AdmissionAssumption DEF Init, TypeOK
  <1>2. PermitsBounded
    <2>1. Cardinality({}) = 0
      BY FS_EmptySet
    <2>2. QED
      BY <2>1, PermitsType DEF Init, PermitsBounded
  <1>3. \A r \in Requests : Coupled(r)
    BY DEF Init, Coupled, Waiting
  <1>4. QED
    BY <1>1, <1>2, <1>3 DEF AdmissionInv

LEMMA HandlerInv ==
  ASSUME AdmissionInv, NEW r \in Requests,
         Reject(r) \/ (\E d \in Devices : Arrive(r, d)) \/ HandlerStep(r) \/ Disconnect(r)
  PROVE  AdmissionInv'
  <1> USE DEF AdmissionInv
  <1>1. CASE Reject(r)
    <2>1. TypeOK' /\ PermitsBounded'
      BY <1>1 DEF Reject, gateVars, TypeOK, PermitsBounded, Permits
    <2>2. ASSUME NEW q \in Requests
          PROVE  Coupled(q)'
      BY <1>1 DEF Reject, gateVars, Coupled, NeedsCpuPermit, TypeOK, Waiting
    <2>3. QED
      BY <2>1, <2>2
  <1>2. CASE \E d \in Devices : Arrive(r, d)
    <2>1. PICK d \in Devices : Arrive(r, d)
      BY <1>2
    <2>2. Acquire("global", r) /\ "global" \in Gates
      BY <2>1 DEF Arrive, Gates
    <2>3. /\ holders' \in [Gates -> SUBSET Requests] /\ queue' \in [Gates -> Seq(Requests)]
          /\ PermitsBounded' /\ \A h \in Gates : holders[h] \subseteq holders'[h]
      BY <2>2, AcquireKeeps
    <2>4. TypeOK'
      BY <2>1, <2>3 DEF Arrive, TypeOK, Waiting
    <2>5. ASSUME NEW q \in Requests
          PROVE  Coupled(q)'
      BY <2>1, <2>3 DEF Arrive, Coupled, NeedsCpuPermit, TypeOK, Waiting, Gates
    <2>6. QED
      BY <2>3, <2>4, <2>5
  <1>3. CASE PassGlobal(r)
    <2>1. CASE NeedsCpuPermit(r)
      <3>1. Acquire("cpu", r) /\ "cpu" \in Gates
        BY <1>3, <2>1 DEF PassGlobal, Gates
      <3>2. /\ holders' \in [Gates -> SUBSET Requests] /\ queue' \in [Gates -> Seq(Requests)]
            /\ PermitsBounded' /\ \A h \in Gates : holders[h] \subseteq holders'[h]
        BY <3>1, AcquireKeeps
      <3>3. TypeOK'
        BY <1>3, <2>1, <3>2 DEF PassGlobal, TypeOK, Waiting
      <3>4. ASSUME NEW q \in Requests
            PROVE  Coupled(q)'
        BY <1>3, <2>1, <3>2 DEF PassGlobal, Coupled, NeedsCpuPermit, TypeOK, Waiting, Gates
      <3>5. QED
        BY <3>2, <3>3, <3>4
    <2>2. CASE ~NeedsCpuPermit(r)
      <3>1. TypeOK' /\ PermitsBounded'
        BY <1>3, <2>2
        DEF PassGlobal, Spawn, gateVars, TypeOK, Waiting, Active, PermitsBounded, Permits
      <3>2. ASSUME NEW q \in Requests
            PROVE  Coupled(q)'
        BY <1>3, <2>2
        DEF PassGlobal, Spawn, gateVars, Coupled, NeedsCpuPermit, TypeOK, Waiting
      <3>3. QED
        BY <3>1, <3>2
    <2>3. QED
      BY <2>1, <2>2
  <1>4. CASE PassCpu(r)
    <2>1. TypeOK' /\ PermitsBounded'
      BY <1>4
      DEF PassCpu, Spawn, gateVars, TypeOK, Waiting, Active, PermitsBounded, Permits
    <2>2. ASSUME NEW q \in Requests
          PROVE  Coupled(q)'
      BY <1>4 DEF PassCpu, Spawn, gateVars, Coupled, NeedsCpuPermit, TypeOK, Waiting
    <2>3. QED
      BY <2>1, <2>2
  <1>5. CASE Respond(r)
    <2>1. ReleaseAll(r)
      BY <1>5 DEF Respond
    <2>2. /\ holders' \in [Gates -> SUBSET Requests] /\ queue' \in [Gates -> Seq(Requests)]
          /\ PermitsBounded' /\ \A h \in Gates : holders[h] \ {r} \subseteq holders'[h]
      BY <2>1, ReleaseKeeps
    <2>3. TypeOK'
      BY <1>5, <2>2 DEF Respond, TypeOK, Waiting
    <2>4. ASSUME NEW q \in Requests
          PROVE  Coupled(q)'
      BY <1>5, <2>2 DEF Respond, Coupled, NeedsCpuPermit, TypeOK, Waiting, Gates
    <2>5. QED
      BY <2>2, <2>3, <2>4
  <1>6. CASE Disconnect(r)
    <2>1. ReleaseAll(r)
      BY <1>6 DEF Disconnect
    <2>2. /\ holders' \in [Gates -> SUBSET Requests] /\ queue' \in [Gates -> Seq(Requests)]
          /\ PermitsBounded' /\ \A h \in Gates : holders[h] \ {r} \subseteq holders'[h]
      BY <2>1, ReleaseKeeps
    <2>3. TypeOK'
      BY <1>6, <2>2 DEF Disconnect, TypeOK, Waiting
    <2>4. ASSUME NEW q \in Requests
          PROVE  Coupled(q)'
      BY <1>6, <2>2 DEF Disconnect, Coupled, NeedsCpuPermit, TypeOK, Waiting, Gates
    <2>5. QED
      BY <2>2, <2>3, <2>4
  <1>7. QED
    BY <1>1, <1>2, <1>3, <1>4, <1>5, <1>6 DEF HandlerStep

LEMMA JobInv ==
  ASSUME AdmissionInv, NEW r \in Requests, JobStep(r)
  PROVE  AdmissionInv'
  <1> USE DEF AdmissionInv
  <1>1. /\ UNCHANGED <<coreml, handler, device, gateVars>>
        /\ job[r] \in Active
    BY DEF JobStep, Load, Lock, Clone, FinishJob, Active
  <1>2. PermitsBounded'
    BY <1>1 DEF PermitsBounded, Permits, gateVars
  <1>3. device[r] \in Devices /\ handler[r] \in {"join", "gone"}
    BY <1>1 DEF Coupled, Active, TypeOK, Waiting
  <1>4. PICK state \in {"locking", "cloning", "running", "ended"} : Becomes(r, state)
    BY DEF JobStep, Load, Lock, Clone, FinishJob
  <1>5. owner' \in [Devices -> Requests \cup {Nobody}]
    BY <1>3 DEF JobStep, Load, Lock, Clone, FinishJob, TypeOK
  <1>6. TypeOK'
    BY <1>1, <1>4, <1>5 DEF TypeOK, Becomes, gateVars, Active
  <1>7. ASSUME NEW q \in Requests
        PROVE  Coupled(q)'
    <2>1. /\ handler[q] \in {"cpu", "join"} => q \in holders["global"]
          /\ handler[q] = "join" /\ NeedsCpuPermit(q) => q \in holders["cpu"]
          /\ handler[q] \in Waiting \cup {"gone"} => device[q] \in Devices
      BY DEF Coupled
    <2>2. handler[q] \in {"idle", "global", "cpu", "done"} => job'[q] = "none"
      BY <1>3, <1>4 DEF Becomes, Coupled, TypeOK
    <2>3. coreml => job'[q] # "cloning" /\ (job'[q] = "running" => owner'[device[q]] = q)
      <3> SUFFICES ASSUME coreml
                   PROVE  job'[q] # "cloning" /\ (job'[q] = "running" => owner'[device[q]] = q)
        OBVIOUS
      <3>1. job[r] # "cloning" /\ job[q] # "cloning"
        BY DEF Coupled
      <3>2. job[q] = "running" => owner[device[q]] = q /\ device[q] \in Devices
        BY DEF Coupled, TypeOK, Waiting
      <3>3. q # Nobody /\ r # Nobody
        BY AdmissionAssumption
      <3>4. CASE Load(r)
        BY <3>1, <3>2, <3>4 DEF Load, Becomes, TypeOK
      <3>5. CASE Lock(r)
        BY <1>3, <3>1, <3>2, <3>3, <3>5 DEF Lock, Becomes, TypeOK
      <3>6. CASE FinishJob(r)
        <4>1. owner[device[r]] = r
          BY <3>6 DEF FinishJob, Coupled
        <4>2. owner' = [owner EXCEPT ![device[r]] = Nobody]
          BY <3>6 DEF FinishJob
        <4>3. job'[r] # "running" /\ job'[r] # "cloning"
              /\ (q # r => job'[q] = job[q])
          BY <3>6 DEF FinishJob, Becomes, TypeOK
        <4>4. QED
          BY <1>3, <3>1, <3>2, <4>1, <4>2, <4>3 DEF TypeOK
      <3>7. QED
        BY <3>1, <3>4, <3>5, <3>6 DEF JobStep, Clone
    <2>4. QED
      BY <1>1, <2>1, <2>2, <2>3 DEF Coupled, NeedsCpuPermit, gateVars
  <1>8. QED
    BY <1>2, <1>6, <1>7

LEMMA NextAdmissionInv ==
  ASSUME AdmissionInv, [Next]_vars
  PROVE  AdmissionInv'
  <1>1. CASE UNCHANGED vars
    BY <1>1
    DEF vars, gateVars, AdmissionInv, TypeOK, PermitsBounded, Permits, Coupled, NeedsCpuPermit
  <1>2. QED
    BY <1>1, HandlerInv, JobInv DEF Next, Quiescent

(* Every variable of the request path keeps its type (main.rs diarize).    *)
THEOREM AdmissionTypes == Spec => []TypeOK
  BY InitAdmissionInv, NextAdmissionInv, PTL DEF Spec, AdmissionInv

(* However handlers are dropped, a gate never has more permits out than it *)
(* was made with (main.rs admit, run).                                     *)
THEOREM PermitsAreBounded == Spec => []PermitsBounded
  BY InitAdmissionInv, NextAdmissionInv, PTL DEF Spec, AdmissionInv

(* The gates bound the jobs whose client still waits, in total and on the  *)
(* CPU (main.rs admit).                                                    *)
THEOREM AwaitedAreBounded == Spec => []AwaitedJobsBounded
  <1>1. ASSUME AdmissionInv
        PROVE  AwaitedJobsBounded
    <2> DEFINE Awaited == {r \in Requests : handler[r] = "join"}
               OnCpu == {r \in Awaited : device[r] = "cpu"}
    <2>1. Awaited \subseteq holders["global"] /\ "global" \in Gates /\ "cpu" \in Gates
      BY <1>1 DEF AdmissionInv, Coupled, Gates
    <2>2. Cardinality(Awaited) <= MaxInflight
      <3>1. Cardinality(Awaited) <= Cardinality(holders["global"])
        BY <1>1, <2>1, HoldersFinite, FS_Subset DEF AdmissionInv
      <3>2. Cardinality(holders["global"]) <= MaxInflight
        BY <1>1, <2>1 DEF AdmissionInv, PermitsBounded, Permits
      <3>3. Cardinality(Awaited) \in Nat /\ Cardinality(holders["global"]) \in Nat
        BY <1>1, <2>1, HoldersFinite, FS_Subset, FS_CardinalityType DEF AdmissionInv
      <3>4. QED
        BY <3>1, <3>2, <3>3, AdmissionAssumption
    <2>3. ASSUME MaxInflightCpu > 0
          PROVE  Cardinality(OnCpu) <= MaxInflightCpu
      <3>1. OnCpu \subseteq holders["cpu"]
        BY <1>1, <2>3 DEF AdmissionInv, Coupled, NeedsCpuPermit
      <3>2. Cardinality(OnCpu) <= Cardinality(holders["cpu"])
        BY <1>1, <2>1, <3>1, HoldersFinite, FS_Subset DEF AdmissionInv
      <3>3. Cardinality(holders["cpu"]) <= MaxInflightCpu
        BY <1>1, <2>1 DEF AdmissionInv, PermitsBounded, Permits
      <3>4. Cardinality(OnCpu) \in Nat /\ Cardinality(holders["cpu"]) \in Nat
        BY <1>1, <2>1, <3>1, HoldersFinite, FS_Subset, FS_CardinalityType DEF AdmissionInv
      <3>5. QED
        BY <3>2, <3>3, <3>4, AdmissionAssumption
    <2>4. QED
      BY <2>2, <2>3 DEF AwaitedJobsBounded
  <1>2. QED
    BY <1>1, InitAdmissionInv, NextAdmissionInv, PTL DEF Spec

(* Under coreml two jobs never run on one engine, whatever panics or       *)
(* disconnects (main.rs with_engine_on).                                   *)
THEOREM CoremlSerialised == Spec => []OneCoremlJobPerEngine
  <1>1. AdmissionInv => OneCoremlJobPerEngine
    BY DEF AdmissionInv, Coupled, OneCoremlJobPerEngine
  <1>2. QED
    BY <1>1, InitAdmissionInv, NextAdmissionInv, PTL DEF Spec

-----------------------------------------------------------------------------
(* That no permit is lost needs the queues as well: who waits at a gate    *)
(* waits there once and has no permit of it, so that a permit handed on    *)
(* goes to somebody new, and a gate somebody waits at is full.             *)
InOrder(g) ==
  /\ \A i \in DOMAIN queue[g] : queue[g][i] \notin holders[g]
  /\ \A i, j \in DOMAIN queue[g] : queue[g][i] = queue[g][j] => i = j
  /\ queue[g] # << >> => Cardinality(holders[g]) = Permits(g)

(* The handler of each is where it should be.                              *)
Placed(g) ==
  /\ \A r \in holders[g] : handler[r] \in Waiting /\ (g = "cpu" => handler[r] # "global")
  /\ \A i \in DOMAIN queue[g] : handler[queue[g][i]] = g

NoLossInv ==
  /\ AdmissionInv
  /\ \A g \in Gates : InOrder(g) /\ Placed(g)

(* A dropped Acquire is in the queue no more; the others keep their order. *)
LEMMA WithoutDrops ==
  ASSUME NEW q \in Seq(Requests), NEW r,
         \A i, j \in DOMAIN q : q[i] = q[j] => i = j
  PROVE  /\ \A i \in DOMAIN Without(q, r) :
              Without(q, r)[i] # r /\ \E j \in DOMAIN q : Without(q, r)[i] = q[j]
         /\ \A i, j \in DOMAIN Without(q, r) : Without(q, r)[i] = Without(q, r)[j] => i = j
         /\ Without(q, r) # << >> => q # << >>
  <1>1. CASE \E i \in DOMAIN q : q[i] = r
    <2> DEFINE at == CHOOSE i \in DOMAIN q : q[i] = r
               from(i) == IF i < at THEN i ELSE i + 1
               w == [i \in 1..(Len(q) - 1) |-> IF i < at THEN q[i] ELSE q[i + 1]]
    <2>1. Len(q) \in Nat /\ DOMAIN q = 1..Len(q)
      OBVIOUS
    <2>2. at \in 1..Len(q) /\ q[at] = r
      BY <1>1, <2>1
    <2>3. Without(q, r) = w
      BY <1>1 DEF Without
    <2> HIDE DEF at
    <2>4. DOMAIN w = 1..(Len(q) - 1)
      OBVIOUS
    <2>5. \A i \in 1..(Len(q) - 1) :
             from(i) \in 1..Len(q) /\ from(i) # at /\ w[i] = q[from(i)]
      BY <2>1, <2>2
    <2>6. \A i, j \in 1..(Len(q) - 1) : from(i) = from(j) => i = j
      BY <2>1, <2>2
    <2> HIDE DEF w, from
    <2>7. \A i \in DOMAIN w : w[i] # r /\ \E j \in DOMAIN q : w[i] = q[j]
      BY <2>1, <2>2, <2>4, <2>5
    <2>8. \A i, j \in DOMAIN w : w[i] = w[j] => i = j
      BY <2>1, <2>4, <2>5, <2>6
    <2>9. q # << >>
      BY <1>1
    <2>10. QED
      BY <2>3, <2>7, <2>8, <2>9
  <1>2. QED
    BY <1>1 DEF Without

(* Who asks a gate for a permit joins its holders or the end of its queue. *)
LEMMA AcquireInOrder ==
  ASSUME TypeOK, PermitsBounded, NEW g \in Gates, NEW r \in Requests, Acquire(g, r),
         InOrder(g), r \notin holders[g], r \notin Queued(g)
  PROVE  /\ \A h \in Gates \ {g} : holders'[h] = holders[h] /\ queue'[h] = queue[h]
         /\ InOrder(g)'
         /\ holders'[g] \subseteq holders[g] \cup {r}
         /\ \A i \in DOMAIN queue'[g] : queue'[g][i] \in Queued(g) \cup {r}
  <1> DEFINE q == queue[g]
  <1>1. q \in Seq(Requests) /\ Len(q) \in Nat /\ DOMAIN q = 1..Len(q)
    BY DEF TypeOK
  <1>2. Permits(g)' = Permits(g)
    BY DEF Permits
  <1>3. CASE CanTake(g)
    <2>1. /\ holders' = [holders EXCEPT ![g] = @ \cup {r}] /\ queue' = queue
          /\ queue[g] = << >>
      BY <1>3 DEF Acquire, CanTake
    <2>2. QED
      BY <2>1 DEF InOrder, TypeOK
  <1>4. CASE ~CanTake(g)
    <2>1. queue' = [queue EXCEPT ![g] = Append(@, r)] /\ holders' = holders
      BY <1>4 DEF Acquire
    <2>2. /\ queue'[g] = Append(q, r)
          /\ \A h \in Gates \ {g} : queue'[h] = queue[h]
      BY <2>1 DEF TypeOK
    <2>3. /\ DOMAIN queue'[g] = 1..(Len(q) + 1)
          /\ \A i \in 1..Len(q) : queue'[g][i] = q[i]
          /\ queue'[g][Len(q) + 1] = r
      BY <1>1, <2>2
    <2>4. \A i \in 1..Len(q) : q[i] # r /\ q[i] \in Queued(g)
      BY <1>1 DEF Queued
    <2>5. Cardinality(holders[g]) = Permits(g)
      <3>1. Cardinality(holders[g]) \in Nat /\ Permits(g) \in Nat
        BY HoldersFinite, PermitsType
      <3>2. QED
        BY <1>4, <3>1 DEF InOrder, CanTake, PermitsBounded
    <2>6. \A i \in DOMAIN queue'[g] : queue'[g][i] \notin holders'[g]
      BY <1>1, <2>1, <2>3 DEF InOrder
    <2>7. \A i, j \in DOMAIN queue'[g] : queue'[g][i] = queue'[g][j] => i = j
      <3>1. \A i, j \in 1..Len(q) : q[i] = q[j] => i = j
        BY <1>1 DEF InOrder
      <3>2. \A i \in 1..(Len(q) + 1) : i \in 1..Len(q) \/ i = Len(q) + 1
        BY <1>1
      <3>3. QED
        BY <2>3, <2>4, <3>1, <3>2
    <2>8. InOrder(g)'
      BY <1>2, <2>1, <2>5, <2>6, <2>7 DEF InOrder
    <2>9. \A i \in DOMAIN queue'[g] : queue'[g][i] \in Queued(g) \cup {r}
      BY <1>1, <2>3, <2>4
    <2>10. QED
      BY <2>1, <2>2, <2>8, <2>9
  <1>5. QED
    BY <1>3, <1>4

(* A handler that ends leaves every gate; its permit goes to the waiter    *)
(* that has waited longest, who leaves the queue for it.                   *)
LEMMA ReleaseInOrder ==
  ASSUME TypeOK, NEW r \in Requests, ReleaseAll(r), NEW g \in Gates, InOrder(g)
  PROVE  /\ InOrder(g)'
         /\ r \in holders[g] => r \notin holders'[g]
         /\ holders'[g] \subseteq holders[g] \cup Queued(g)
         /\ \A i \in DOMAIN queue'[g] :
              queue'[g][i] # r /\ \E j \in DOMAIN queue[g] : queue'[g][i] = queue[g][j]
  <1> DEFINE q == queue[g]
  <1>1. q \in Seq(Requests) /\ Len(q) \in Nat /\ DOMAIN q = 1..Len(q)
    BY DEF TypeOK
  <1>2. Permits(g)' = Permits(g)
    BY DEF Permits
  <1>3. CASE r \notin holders[g]
    <2>1. holders'[g] = holders[g] /\ queue'[g] = Without(q, r)
      BY <1>3 DEF ReleaseAll
    <2>2. \A i, j \in DOMAIN q : q[i] = q[j] => i = j
      BY DEF InOrder
    <2>3. /\ \A i \in DOMAIN Without(q, r) :
                Without(q, r)[i] # r /\ \E j \in DOMAIN q : Without(q, r)[i] = q[j]
          /\ \A i, j \in DOMAIN Without(q, r) :
                Without(q, r)[i] = Without(q, r)[j] => i = j
          /\ Without(q, r) # << >> => q # << >>
      BY <1>1, <2>2, WithoutDrops
    <2>4. InOrder(g)'
      BY <1>2, <2>1, <2>3 DEF InOrder
    <2>5. QED
      BY <1>3, <2>1, <2>3, <2>4
  <1>4. CASE r \in holders[g] /\ q = << >>
    <2>1. holders'[g] = holders[g] \ {r} /\ queue'[g] = << >>
      BY <1>4 DEF ReleaseAll, Handed
    <2>2. QED
      BY <2>1 DEF InOrder
  <1>5. CASE r \in holders[g] /\ q # << >>
    <2>1. holders'[g] = (holders[g] \ {r}) \cup {Head(q)} /\ queue'[g] = Tail(q)
      BY <1>5 DEF ReleaseAll, Handed
    <2>2. /\ Len(q) >= 1 /\ Head(q) = q[1] /\ DOMAIN Tail(q) = 1..(Len(q) - 1)
          /\ \A i \in 1..(Len(q) - 1) : Tail(q)[i] = q[i + 1]
      BY <1>1, <1>5
    <2>3. \A i \in 1..(Len(q) - 1) : i + 1 \in 1..Len(q) /\ i + 1 # 1
      BY <1>1
    <2>4. /\ \A i \in 1..Len(q) : q[i] \notin holders[g]
          /\ \A i, j \in 1..Len(q) : q[i] = q[j] => i = j
          /\ Cardinality(holders[g]) = Permits(g)
      BY <1>1, <1>5 DEF InOrder
    <2>5. q[1] # r /\ q[1] \notin holders[g] /\ 1 \in 1..Len(q)
      BY <1>1, <1>5, <2>2, <2>4
    <2>6. Cardinality(holders'[g]) = Permits(g)
      <3>1. IsFiniteSet(holders[g]) /\ Cardinality(holders[g]) \in Nat
        BY HoldersFinite
      <3>2. /\ IsFiniteSet(holders[g] \ {r})
            /\ Cardinality(holders[g] \ {r}) = Cardinality(holders[g]) - 1
        BY <1>5, <3>1, FS_RemoveElement
      <3>3. Cardinality(holders'[g]) = Cardinality(holders[g] \ {r}) + 1
        BY ZenonT(40), <2>1, <2>2, <2>5, <3>2, FS_AddElement
      <3>4. QED
        BY <2>4, <3>1, <3>2, <3>3
    <2>7. \A i \in DOMAIN queue'[g] :
             /\ queue'[g][i] = q[i + 1] /\ i + 1 \in DOMAIN q
             /\ q[i + 1] # q[1] /\ q[i + 1] # r /\ q[i + 1] \notin holders[g]
      BY <1>1, <1>5, <2>1, <2>2, <2>3, <2>4, <2>5
    <2>8. \A i \in DOMAIN queue'[g] : queue'[g][i] \notin holders'[g]
      BY <2>1, <2>2, <2>7
    <2>9. \A i, j \in DOMAIN queue'[g] : queue'[g][i] = queue'[g][j] => i = j
      BY <1>1, <2>1, <2>2, <2>4, <2>7
    <2>10. InOrder(g)'
      BY <1>2, <2>6, <2>8, <2>9 DEF InOrder
    <2>11. r \notin holders'[g] /\ holders'[g] \subseteq holders[g] \cup Queued(g)
      BY <1>1, <2>1, <2>2, <2>5 DEF Queued
    <2>12. QED
      BY <2>7, <2>10, <2>11
  <1>6. QED
    BY <1>3, <1>4, <1>5

LEMMA InitNoLossInv == Init => NoLossInv
  <1> SUFFICES ASSUME Init PROVE NoLossInv
    OBVIOUS
  <1>1. AdmissionInv
    BY InitAdmissionInv
  <1>2. \A g \in Gates : holders[g] = {} /\ queue[g] = << >>
    BY DEF Init
  <1>3. QED
    BY <1>1, <1>2 DEF NoLossInv, InOrder, Placed

LEMMA HandlerNoLoss ==
  ASSUME NoLossInv, NEW r \in Requests,
         Reject(r) \/ (\E d \in Devices : Arrive(r, d)) \/ HandlerStep(r) \/ Disconnect(r),
         NEW g \in Gates
  PROVE  InOrder(g)' /\ Placed(g)'
  <1>1. /\ TypeOK /\ PermitsBounded /\ Coupled(r)
        /\ \A h \in Gates : InOrder(h) /\ Placed(h)
    BY DEF NoLossInv, AdmissionInv
  <1>2. queue[g] \in Seq(Requests)
    BY <1>1 DEF TypeOK
  <1>3. CASE Reject(r)
    BY <1>1, <1>2, <1>3
    DEF Reject, gateVars, InOrder, Placed, Permits, Waiting, Gates, TypeOK
  <1>4. ASSUME NEW h \in Gates, Acquire(h, r), handler[r] # h,
               handler' = [handler EXCEPT ![r] = h],
               h = "cpu" => handler[r] = "global" /\ r \in holders["global"],
               h = "global" => handler[r] = "idle"
        PROVE  InOrder(g)' /\ Placed(g)'
    <2>1. r \notin holders[h] /\ r \notin Queued(h)
      BY <1>1, <1>4 DEF Placed, Waiting, Gates, Queued
    <2>2. /\ \A k \in Gates \ {h} : holders'[k] = holders[k] /\ queue'[k] = queue[k]
          /\ InOrder(h)'
          /\ holders'[h] \subseteq holders[h] \cup {r}
          /\ \A i \in DOMAIN queue'[h] : queue'[h][i] \in Queued(h) \cup {r}
      BY <1>1, <1>4, <2>1, AcquireInOrder
    <2>3. \A q \in Requests : handler'[q] = IF q = r THEN h ELSE handler[q]
      BY <1>1, <1>4 DEF TypeOK
    <2>4. CASE g = h
      <3>1. \A q \in holders'[g] :
               handler'[q] \in Waiting /\ (g = "cpu" => handler'[q] # "global")
        BY <1>1, <2>2, <2>3, <2>4 DEF Placed, Waiting, Gates, TypeOK
      <3>2. \A q \in Queued(g) : handler[q] = g /\ q \in Requests
        BY <1>1, <1>2 DEF Placed, Queued
      <3>3. QED
        BY <2>2, <2>3, <2>4, <3>1, <3>2 DEF Placed
    <2>5. CASE g # h
      <3>1. holders'[g] = holders[g] /\ queue'[g] = queue[g]
        BY <2>2, <2>5
      <3>2. InOrder(g)'
        BY <1>1, <3>1 DEF InOrder, Permits
      <3>3. \A i \in DOMAIN queue[g] : queue[g][i] # r
        BY <1>1, <1>4, <2>5 DEF InOrder, Placed, Gates
      <3>4. \A q \in holders[g] :
               handler'[q] \in Waiting /\ (g = "cpu" => handler'[q] # "global")
        BY <1>1, <1>4, <2>3, <2>5 DEF Placed, Waiting, Gates, TypeOK
      <3>5. \A i \in DOMAIN queue[g] : handler'[queue[g][i]] = g
        BY <1>1, <1>2, <2>3, <3>3 DEF Placed
      <3>6. QED
        BY <3>1, <3>2, <3>4, <3>5 DEF Placed
    <2>6. QED
      BY <2>4, <2>5
  <1>5. CASE \E d \in Devices : Arrive(r, d)
    BY <1>4, <1>5 DEF Arrive, Gates
  <1>6. CASE PassGlobal(r) /\ NeedsCpuPermit(r)
    BY <1>4, <1>6 DEF PassGlobal, Gates
  <1>7. CASE (PassGlobal(r) /\ ~NeedsCpuPermit(r)) \/ PassCpu(r)
    <2>1. /\ UNCHANGED <<holders, queue>>
          /\ handler' = [handler EXCEPT ![r] = "join"]
          /\ handler[r] \in Gates /\ r \in holders[handler[r]]
      BY <1>7 DEF PassGlobal, PassCpu, Spawn, gateVars, Gates
    <2>2. \A i \in DOMAIN queue[g] : queue[g][i] # r
      BY <1>1, <2>1 DEF InOrder, Placed
    <2>3. \A q \in Requests : handler'[q] = IF q = r THEN "join" ELSE handler[q]
      BY <1>1, <2>1 DEF TypeOK
    <2>4. QED
      BY <1>1, <1>2, <2>1, <2>2, <2>3 DEF InOrder, Placed, Permits, Waiting, TypeOK
  <1>8. CASE Respond(r) \/ Disconnect(r)
    <2>1. /\ ReleaseAll(r)
          /\ \A q \in Requests \ {r} : handler'[q] = handler[q]
      BY <1>1, <1>8 DEF Respond, Disconnect, TypeOK
    <2>2. /\ InOrder(g)'
          /\ r \in holders[g] => r \notin holders'[g]
          /\ holders'[g] \subseteq holders[g] \cup Queued(g)
          /\ \A i \in DOMAIN queue'[g] :
               queue'[g][i] # r /\ \E j \in DOMAIN queue[g] : queue'[g][i] = queue[g][j]
      BY <1>1, <2>1, ReleaseInOrder
    <2>3. r \notin holders'[g]
      <3>1. r \notin holders[g] => holders'[g] = holders[g]
        BY <2>1 DEF ReleaseAll
      <3>2. QED
        BY <2>2, <3>1
    <2>4. \A q \in holders'[g] :
             handler'[q] \in Waiting /\ (g = "cpu" => handler'[q] # "global")
      BY <1>1, <1>2, <2>1, <2>2, <2>3 DEF Placed, Queued, Waiting, Gates, TypeOK
    <2>5. \A i \in DOMAIN queue'[g] : handler'[queue'[g][i]] = g
      BY <1>1, <1>2, <2>1, <2>2 DEF Placed
    <2>6. QED
      BY <2>2, <2>4, <2>5 DEF Placed
  <1>9. QED
    BY <1>3, <1>5, <1>6, <1>7, <1>8 DEF HandlerStep

LEMMA NextNoLossInv ==
  ASSUME NoLossInv, [Next]_vars
  PROVE  NoLossInv'
  <1>1. AdmissionInv'
    BY NextAdmissionInv DEF NoLossInv
  <1>2. ASSUME UNCHANGED <<handler, holders, queue>>
        PROVE  NoLossInv'
    BY <1>1, <1>2 DEF NoLossInv, InOrder, Placed, Permits
  <1>3. CASE UNCHANGED vars
    BY <1>2, <1>3 DEF vars, gateVars
  <1>4. ASSUME NEW r \in Requests, JobStep(r)
        PROVE  NoLossInv'
    BY <1>2, <1>4 DEF JobStep, Load, Lock, Clone, FinishJob, gateVars
  <1>5. QED
    BY <1>1, <1>3, <1>4, HandlerNoLoss DEF Next, Quiescent, NoLossInv

(* No permit is lost: whoever is dropped and whenever, each permit is with *)
(* a handler that lives, and nobody waits at a gate that has one to give   *)
(* (main.rs admit, run; tokio's Semaphore hands a permit to the first      *)
(* waiter).                                                                *)
THEOREM PermitsAreKept == Spec => []NoPermitLost
  <1>1. NoLossInv => NoPermitLost
    BY DEF NoLossInv, InOrder, Placed, NoPermitLost
  <1>2. QED
    BY <1>1, InitNoLossInv, NextNoLossInv, PTL DEF Spec
=============================================================================
