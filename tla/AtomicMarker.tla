----------------------------- MODULE AtomicMarker -----------------------------
(* What marker.rs promises of diar-provision.json: a write replaces the    *)
(* whole claim at once, and a read answers with one claim that was         *)
(* published, or with none before the first.                               *)
CONSTANTS
  Readers,
  Claims,
  NoClaim,       \* there is no marker
  NotReading     \* the reader is not reading

VARIABLES
  published,     \* the claim the directory carries
  reading,       \* the claim each reader is about to answer with
  answer         \* the last answer of each reader

vars == <<published, reading, answer>>

Init ==
  /\ published \in Claims \cup {NoClaim}
  /\ reading = [r \in Readers |-> NotReading]
  /\ answer = [r \in Readers |-> NoClaim]

Publish(c) ==
  /\ published' = c
  /\ UNCHANGED <<reading, answer>>

StartReading(r) ==
  /\ reading[r] = NotReading
  /\ reading' = [reading EXCEPT ![r] = published]
  /\ UNCHANGED <<published, answer>>

Answer(r) ==
  /\ reading[r] # NotReading
  /\ answer' = [answer EXCEPT ![r] = reading[r]]
  /\ reading' = [reading EXCEPT ![r] = NotReading]
  /\ UNCHANGED published

Next ==
  \/ \E c \in Claims : Publish(c)
  \/ \E r \in Readers : StartReading(r) \/ Answer(r)

Spec == Init /\ [][Next]_vars
=============================================================================
