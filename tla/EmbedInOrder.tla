----------------------------- MODULE EmbedInOrder -----------------------------
(* What run_multi_mask promises its caller, whatever runs in parallel      *)
(* behind it: the windows are embedded batch by batch in their order, each *)
(* into its own row, and the call answers "ok" with all of them or names   *)
(* one stage that failed.                                                  *)
EXTENDS Naturals

CONSTANTS
  MaxWindows,
  Failures,      \* the stages an answer may blame
  Blank          \* a row nobody has written

VARIABLES
  windows,       \* how many windows the audio has
  batch,         \* how many are embedded together
  rows,          \* the window whose embedding each row holds
  answer

vars == <<windows, batch, rows, answer>>

Init ==
  /\ windows \in 0..MaxWindows
  /\ batch \in 1..MaxWindows
  /\ rows = [i \in 1..MaxWindows |-> Blank]
  /\ answer = "none"

Stored == {i \in 1..MaxWindows : rows[i] # Blank}

(* The next batch: the last one may be short. *)
Store ==
  /\ answer = "none"
  /\ \E done \in 0..(windows - 1) :
       /\ Stored = 1..done
       /\ rows' = [i \in 1..MaxWindows |->
                     IF i \in (done + 1)..(done + batch) /\ i <= windows THEN i ELSE rows[i]]
  /\ UNCHANGED <<windows, batch, answer>>

Answer ==
  /\ answer = "none"
  /\ answer' \in Failures \cup (IF Stored = 1..windows THEN {"ok"} ELSE {})
  /\ UNCHANGED <<windows, batch, rows>>

Next == Store \/ Answer

Spec == Init /\ [][Next]_vars
=============================================================================
