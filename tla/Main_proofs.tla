----------------------------- MODULE Main_proofs -----------------------------
(***************************************************************************)
(* The binary for any build, any DIAR_DEVICES and any number of lines: the *)
(* exporter and the two readers keep ExportInv, the server and its         *)
(* requests keep StartupInv, and what the runs check of both follows.      *)
(***************************************************************************)
EXTENDS Main, FiniteSetTheorems, SequenceTheorems, TLAPS

-----------------------------------------------------------------------------
(* What holds of the tool and its exporter, whatever step comes next       *)

(* Past whoami, the token is good, unless a portal answered. *)
Asking == parent.at = "resolve" /\ host.network # "portal" => Token = "good"

Undecided == parent.at # "ended" => parent.code = "none"

(* Whether there is a child, whether it still runs, and has a line left.   *)
Spawned ==
  /\ child.writing # "none" => child.written[child.writing] < MaxLines
  /\ parent.at \in Checks => child.at = "none" /\ \A p \in Pipes : reader[p] = "none"
  /\ parent.at \in Reading => child.at # "none"
  /\ parent.at = "finish" => child.at \notin Running
  /\ reader["err"] = "ended" => pipe["err"] = << >> /\ child.at \notin Working

(* The lines kept of the first k lines on stderr. *)
Latest(k) ==
  LET kept == IF k < TailMax THEN k ELSE TailMax IN [i \in 1..kept |-> k - kept + i]

(* As long as stderr is read: what was written is what was read, and then  *)
(* what is in the pipe; the tail are the last lines read.                  *)
StderrInOrder ==
  reader["err"] # "closed" =>
    LET waiting == Len(pipe["err"])
        read == child.written["err"] - waiting IN
    /\ read \in Nat
    /\ \A i \in 1..waiting : pipe["err"][i] \in {read + i, Garbled}
    /\ tail = Latest(read)

(* What the tool may take for a failure comes from something wrong. *)
Earned ==
  /\ child.at \in {"dying", "failed"} => wrong
  /\ child.at \in {"reported", "returning", "succeeded"} => report = "whole" \/ wrong
  /\ \A p \in Pipes : /\ reader[p] = "closed" /\ child.at \in Working => wrong
                      /\ \A i \in DOMAIN pipe[p] : pipe[p][i] = Garbled => wrong

ExportInv ==
  /\ ExportTypeOK /\ Asking /\ Undecided /\ Spawned /\ StderrInOrder /\ Earned
  /\ PreflightTellsApart /\ ExporterIsGone /\ FailureIsEarned

-----------------------------------------------------------------------------
(* ExportInv holds at first *)

LEMMA ExportInitInv ==
  ASSUME NEW h \in Hosts, ExportInitOn(h)
  PROVE  ExportInv
  <1>1. /\ host = h /\ wrong = FALSE /\ tail = << >> /\ report = "absent"
        /\ parent.at \in {"writable", "whoami"} /\ parent.code = "none"
        /\ parent.verdict = "none"
        /\ parent = [at |-> parent.at, code |-> "none", verdict |-> "none"]
        /\ child = [at |-> "none", written |-> [p \in Pipes |-> 0], writing |-> "none"]
        /\ pipe = [p \in Pipes |-> << >>] /\ reader = [p \in Pipes |-> "none"]
    BY DEF ExportInitOn
  <1>2. ExportTypeOK
    <2>1. parent \in [at : Checks \cup Reading \cup {"ended"}, code : Codes, verdict : Verdicts]
      BY <1>1 DEF Checks, Codes, Verdicts
    <2>2. child \in [at : {"none", "succeeded", "failed"} \cup Running,
                     written : [Pipes -> 0..MaxLines], writing : Pipes \cup {"none"}]
      BY <1>1, ExportAssumption
    <2>3. pipe \in [Pipes -> Seq(1..MaxLines \cup {Garbled})]
      BY <1>1
    <2>4. \A p \in Pipes : Len(pipe[p]) <= PipeCapacity
      BY <1>1, ExportAssumption
    <2>5. tail \in Seq(1..MaxLines) /\ Len(tail) <= TailMax
      BY <1>1, ExportAssumption
    <2>6. QED
      BY <1>1, <2>1, <2>2, <2>3, <2>4, <2>5 DEF ExportTypeOK
  <1>3. Asking /\ Undecided /\ PreflightTellsApart /\ ExporterIsGone /\ FailureIsEarned
    BY <1>1 DEF Asking, Undecided, PreflightTellsApart, ExporterIsGone, FailureIsEarned
  <1>4. Spawned
    BY <1>1 DEF Spawned, Reading, Pipes
  <1>5. Earned
    BY <1>1 DEF Earned, Pipes, Working
  <1>6. StderrInOrder
    <2>1. child.written["err"] = 0 /\ pipe["err"] = << >> /\ Len(pipe["err"]) = 0
      BY <1>1 DEF Pipes
    <2>2. Latest(0) = << >>
      BY ExportAssumption DEF Latest
    <2>3. QED
      BY <1>1, <2>1, <2>2 DEF StderrInOrder
  <1>7. QED
    BY <1>2, <1>3, <1>4, <1>5, <1>6 DEF ExportInv

-----------------------------------------------------------------------------
(* The checks *)

LEMMA ExportTyped ==
  ASSUME ExportTypeOK
  PROVE  /\ host \in Hosts
         /\ parent = [at |-> parent.at, code |-> parent.code, verdict |-> parent.verdict]
         /\ parent.at \in Checks \cup Reading \cup {"ended"}
         /\ parent.code \in Codes /\ parent.verdict \in Verdicts
         /\ child = [at |-> child.at, written |-> child.written, writing |-> child.writing]
         /\ child.at \in {"none", "succeeded", "failed"} \cup Running
         /\ child.written \in [Pipes -> 0..MaxLines] /\ child.writing \in Pipes \cup {"none"}
         /\ \A p \in Pipes : pipe[p] \in Seq(1..MaxLines \cup {Garbled})
         /\ wrong \in BOOLEAN
  BY DEF ExportTypeOK

(* A step of the tool alone that stays among the checks, or ends there.    *)
LEMMA CheckFrame ==
  ASSUME ExportInv, parent.at \in Checks, UNCHANGED unstarted,
         parent' \in [at : Checks \cup {"ended"}, code : Codes \ {"EXPORT_FAILED"},
                      verdict : Verdicts],
         Asking', Undecided', PreflightTellsApart'
  PROVE  ExportInv'
  <1>1. child.at = "none" /\ parent'.at \notin Reading /\ parent'.at # "finish"
        /\ parent'.code # "EXPORT_FAILED"
    BY DEF ExportInv, Spawned, Checks, Reading
  <1>2. ExportTypeOK'
    BY DEF ExportInv, ExportTypeOK, unstarted
  <1>3. Spawned'
    BY <1>1 DEF ExportInv, Spawned, unstarted
  <1>4. StderrInOrder' /\ Earned'
    BY DEF ExportInv, StderrInOrder, Earned, unstarted, Latest
  <1>5. ExporterIsGone' /\ FailureIsEarned'
    BY <1>1 DEF ExporterIsGone, FailureIsEarned, unstarted, Running, Working, Leaving
  <1>6. QED
    BY <1>2, <1>3, <1>4, <1>5 DEF ExportInv

LEMMA GoesIs ==
  ASSUME ExportInv, NEW to, Goes(to)
  PROVE  parent' = [at |-> to, code |-> parent.code, verdict |-> parent.verdict]
  <1>1. parent = [at |-> parent.at, code |-> parent.code, verdict |-> parent.verdict]
    BY ExportTyped DEF ExportInv
  <1>2. QED
    BY <1>1 DEF Goes

LEMMA ExitsIs ==
  ASSUME ExportInv, NEW code, Exits(code)
  PROVE  parent' = [at |-> "ended", code |-> code, verdict |-> parent.verdict]
  <1>1. parent = [at |-> parent.at, code |-> parent.code, verdict |-> parent.verdict]
    BY ExportTyped DEF ExportInv
  <1>2. QED
    BY <1>1 DEF Exits

LEMMA DeniedIs ==
  ASSUME ExportInv, NEW why, Denied(why)
  PROVE  parent' = [at |-> "ended", code |-> "TOKEN_DENIED", verdict |-> why]
  <1>1. parent = [at |-> parent.at, code |-> parent.code, verdict |-> parent.verdict]
    BY ExportTyped DEF ExportInv
  <1>2. QED
    BY <1>1 DEF Denied

(* On to another check than that of the terms, or out. *)
LEMMA MovesOn ==
  ASSUME ExportInv, parent.at \in Checks, UNCHANGED unstarted,
         NEW to \in Checks \ {"resolve"}, NEW code \in Codes \ {"EXPORT_FAILED"},
         Goes(to) \/ Exits(code)
  PROVE  ExportInv'
  <1>1. /\ parent.code = "none" /\ parent.verdict \in Verdicts
        /\ PreflightTellsApart
    BY ExportTyped DEF ExportInv, Undecided, Checks
  <1>2. \/ parent' = [at |-> to, code |-> "none", verdict |-> parent.verdict]
        \/ parent' = [at |-> "ended", code |-> code, verdict |-> parent.verdict]
    BY <1>1, GoesIs, ExitsIs
  <1>3. /\ parent' \in [at : Checks \cup {"ended"}, code : Codes \ {"EXPORT_FAILED"},
                         verdict : Verdicts]
        /\ Undecided' /\ Asking' /\ parent'.verdict = parent.verdict
    BY <1>1, <1>2 DEF Undecided, Asking, Codes
  <1>4. PreflightTellsApart'
    BY <1>1, <1>3 DEF PreflightTellsApart, Token, unstarted
  <1>5. QED
    BY <1>3, <1>4, CheckFrame

LEMMA EasyChecks ==
  ASSUME ExportInv,
         CheckWritable \/ UpToDate \/ CheckPython \/ ResolveClip
           \/ (parent.at = "writable" /\ Exits("USAGE") /\ UNCHANGED unstarted)
  PROVE  ExportInv'
  <1>1. parent.at \in Checks /\ UNCHANGED unstarted
    BY DEF CheckWritable, UpToDate, CheckPython, ResolveClip, Check, Checks
  <1>2. \E to \in Checks \ {"resolve"}, code \in Codes \ {"EXPORT_FAILED"} :
          Goes(to) \/ Exits(code)
    BY DEF CheckWritable, UpToDate, CheckPython, ResolveClip, Check, Checks, Codes
  <1>3. QED
    BY <1>1, <1>2, MovesOn

(* An answer of 200 is what HuggingFace grants, and 401 and 403 are what   *)
(* it refuses.                                                             *)
LEMMA AnswersTell ==
  ASSUME NEW call \in {"whoami", "resolve"}, NEW status \in Statuses(call),
         host.network # "portal"
  PROVE  /\ status = 200 => Token = "good" /\ (call = "resolve" => host.accepted)
         /\ status \in {401, 403} => ~(Token = "good" /\ (call = "resolve" => host.accepted))
  BY DEF Statuses, Truth

LEMMA WhoAmIInv ==
  ASSUME ExportInv, WhoAmI
  PROVE  ExportInv'
  <1>1. /\ parent.at \in Checks /\ UNCHANGED unstarted /\ host' = host
        /\ parent.code = "none" /\ parent.verdict \in Verdicts /\ PreflightTellsApart
    BY ExportTyped DEF ExportInv, WhoAmI, Checks, Undecided, unstarted
  <1>2. PICK status \in Statuses("whoami") :
          IF status = 200 THEN Goes("resolve")
          ELSE Denied(IF status = 0 THEN "transport"
                      ELSE IF status \in {401, 403} THEN "token" ELSE "other")
    BY DEF WhoAmI
  <1>3. CASE status = 200
    <2>1. parent' = [at |-> "resolve", code |-> "none", verdict |-> parent.verdict]
      BY <1>1, <1>2, <1>3, GoesIs
    <2>2. host.network # "portal" => Token = "good"
      BY <1>3, AnswersTell
    <2>3. Asking' /\ PreflightTellsApart'
      BY <1>1, <2>1, <2>2 DEF Asking, PreflightTellsApart, Token
    <2>4. parent' \in [at : Checks \cup {"ended"}, code : Codes \ {"EXPORT_FAILED"},
                       verdict : Verdicts] /\ Undecided'
      BY <1>1, <2>1 DEF Checks, Codes, Undecided
    <2>5. QED
      BY <1>1, <2>3, <2>4, CheckFrame
  <1>4. CASE status # 200
    <2>1. PICK why \in {"transport", "token", "other"} :
            /\ parent' = [at |-> "ended", code |-> "TOKEN_DENIED", verdict |-> why]
            /\ why = "token" => status \in {401, 403}
      BY <1>2, <1>4, DeniedIs
    <2>2. host.network # "portal" => (why = "token" => Token # "good")
      BY <2>1, AnswersTell
    <2>3. Asking' /\ PreflightTellsApart'
      BY <1>1, <2>1, <2>2 DEF Asking, PreflightTellsApart, Token
    <2>4. parent' \in [at : Checks \cup {"ended"}, code : Codes \ {"EXPORT_FAILED"},
                       verdict : Verdicts] /\ Undecided'
      BY <2>1 DEF Codes, Undecided, Verdicts
    <2>5. QED
      BY <1>1, <2>3, <2>4, CheckFrame
  <1>5. QED
    BY <1>3, <1>4

LEMMA ResolveInv ==
  ASSUME ExportInv, Resolve
  PROVE  ExportInv'
  <1>1. /\ parent.at \in Checks /\ UNCHANGED unstarted /\ host' = host
        /\ parent = [at |-> parent.at, code |-> parent.code, verdict |-> parent.verdict]
        /\ host.network # "portal" => Token = "good"
    BY ExportTyped DEF ExportInv, Resolve, Checks, Asking, unstarted
  <1>2. PICK status \in Statuses("resolve") :
          IF status = 200 THEN Granted
          ELSE Denied(IF status = 0 THEN "transport"
                      ELSE IF status \in {401, 403} THEN "gate" ELSE "other")
    BY DEF Resolve
  <1>3. CASE status = 200
    <2>1. \/ parent' = [at |-> "python", code |-> "none", verdict |-> "granted"]
          \/ parent' = [at |-> "ended", code |-> "OK", verdict |-> "granted"]
      BY <1>1, <1>2, <1>3 DEF Granted
    <2>2. host.network # "portal" => Token = "good" /\ host.accepted
      BY <1>3, AnswersTell
    <2>3. Asking' /\ PreflightTellsApart'
      BY <1>1, <2>1, <2>2 DEF Asking, PreflightTellsApart, Token
    <2>4. parent' \in [at : Checks \cup {"ended"}, code : Codes \ {"EXPORT_FAILED"},
                       verdict : Verdicts] /\ Undecided'
      BY <2>1 DEF Checks, Codes, Undecided, Verdicts
    <2>5. QED
      BY <1>1, <2>3, <2>4, CheckFrame
  <1>4. CASE status # 200
    <2>1. PICK why \in {"transport", "gate", "other"} :
            /\ parent' = [at |-> "ended", code |-> "TOKEN_DENIED", verdict |-> why]
            /\ why = "gate" => status \in {401, 403}
      BY <1>2, <1>4, DeniedIs
    <2>2. host.network # "portal" => (why = "gate" => Token = "good" /\ ~host.accepted)
      BY <1>1, <2>1, AnswersTell
    <2>3. Asking' /\ PreflightTellsApart'
      BY <1>1, <2>1, <2>2 DEF Asking, PreflightTellsApart, Token
    <2>4. parent' \in [at : Checks \cup {"ended"}, code : Codes \ {"EXPORT_FAILED"},
                       verdict : Verdicts] /\ Undecided'
      BY <2>1 DEF Codes, Undecided, Verdicts
    <2>5. QED
      BY <1>1, <2>3, <2>4, CheckFrame
  <1>5. QED
    BY <1>3, <1>4

-----------------------------------------------------------------------------
(* The export: the tool *)

LEMMA VerdictFrame ==
  ASSUME ExportInv, host' = host, parent'.verdict = parent.verdict,
         parent'.at = parent.at \/ parent'.at # "resolve"
  PROVE  Asking' /\ PreflightTellsApart'
  BY DEF ExportInv, Asking, PreflightTellsApart, Token

LEMMA SpawnInv ==
  ASSUME ExportInv, Spawn
  PROVE  ExportInv'
  <1>1. /\ ExportTypeOK /\ Spawned /\ StderrInOrder /\ Earned /\ parent.at = "spawn"
        /\ child.at = "none" /\ parent.code = "none" /\ Goes("stdout")
        /\ \A p \in Pipes : reader[p] = "none"
        /\ UNCHANGED <<host, pipe, tail, report, wrong>>
    BY DEF ExportInv, Spawn, Spawned, Undecided, Checks
  <1>2. parent' = [at |-> "stdout", code |-> "none", verdict |-> parent.verdict]
    BY <1>1, GoesIs
  <1>3. /\ child' = [at |-> "exporting", written |-> child.written, writing |-> child.writing]
        /\ reader' = [p \in Pipes |-> "reading"]
    <2>1. child = [at |-> child.at, written |-> child.written, writing |-> child.writing]
      BY <1>1, ExportTyped
    <2>2. QED
      BY <2>1 DEF Spawn
  <1>4. ExportTypeOK'
    <2>1. parent' \in [at : Checks \cup Reading \cup {"ended"}, code : Codes, verdict : Verdicts]
      BY <1>1, <1>2, ExportTyped DEF Reading, Codes
    <2>2. child' \in [at : {"none", "succeeded", "failed"} \cup Running,
                      written : [Pipes -> 0..MaxLines], writing : Pipes \cup {"none"}]
      BY <1>1, <1>3, ExportTyped DEF Running, Working
    <2>3. QED
      BY <1>1, <1>3, <2>1, <2>2 DEF ExportTypeOK
  <1>5. Undecided' /\ ExporterIsGone' /\ FailureIsEarned'
    BY <1>2 DEF Undecided, ExporterIsGone, FailureIsEarned
  <1>6. Asking' /\ PreflightTellsApart'
    BY <1>1, <1>2, VerdictFrame
  <1>7. Spawned'
    <2>1. child'.written = child.written /\ child'.writing = child.writing
      BY <1>3
    <2>2. QED
      BY <1>1, <1>2, <1>3, <2>1 DEF Spawned, Checks, Reading, Pipes
  <1>8. StderrInOrder'
    <2>1. reader["err"] # "closed" /\ child'.written = child.written
      BY <1>1, <1>3 DEF Pipes
    <2>2. QED
      BY <1>1, <2>1 DEF StderrInOrder, Latest
  <1>9. Earned'
    BY <1>1, <1>3 DEF Earned
  <1>10. QED
    BY <1>4, <1>5, <1>6, <1>7, <1>8, <1>9 DEF ExportInv

LEMMA SpawnFailsInv ==
  ASSUME ExportInv, SpawnFails
  PROVE  ExportInv'
  <1>1. /\ ExportTypeOK /\ Spawned /\ StderrInOrder /\ Earned
        /\ child.at = "none" /\ wrong' = TRUE
        /\ UNCHANGED <<host, child, pipe, reader, tail, report>>
    BY DEF ExportInv, SpawnFails, Spawned, Checks
  <1>2. PICK code \in {"EXPORT_FAILED", "NO_EXPORTER_ENV"} :
          parent' = [at |-> "ended", code |-> code, verdict |-> parent.verdict]
    BY ExitsIs DEF SpawnFails
  <1>3. ExportTypeOK'
    <2>1. parent' \in [at : Checks \cup Reading \cup {"ended"}, code : Codes, verdict : Verdicts]
      BY <1>1, <1>2, ExportTyped DEF Codes
    <2>2. QED
      BY <1>1, <2>1 DEF ExportTypeOK
  <1>4. Undecided' /\ ExporterIsGone' /\ FailureIsEarned'
    BY <1>1, <1>2 DEF Undecided, ExporterIsGone, FailureIsEarned, Running, Working, Leaving
  <1>5. Asking' /\ PreflightTellsApart'
    BY <1>1, <1>2, VerdictFrame
  <1>6. Spawned'
    BY <1>1, <1>2 DEF Spawned, Checks, Reading
  <1>7. StderrInOrder'
    BY <1>1 DEF StderrInOrder, Latest
  <1>8. Earned'
    BY <1>1 DEF Earned
  <1>9. QED
    BY <1>3, <1>4, <1>5, <1>6, <1>7, <1>8 DEF ExportInv

(* The tool reads stdout: on to the thread, or the next line. *)
LEMMA ReadStdoutInv ==
  ASSUME ExportInv, ReadStdout
  PROVE  ExportInv'
  <1>1. /\ ExportTypeOK /\ Spawned /\ StderrInOrder /\ Earned /\ FailureIsEarned
        /\ parent.at = "stdout" /\ child.at # "none" /\ parent.code = "none"
        /\ UNCHANGED <<host, child, tail, report, wrong>>
    BY DEF ExportInv, ReadStdout, Spawned, Reading, Undecided
  <1>2. parent' \in {parent, [at |-> "join", code |-> "none", verdict |-> parent.verdict]}
    BY <1>1, GoesIs DEF ReadStdout
  <1>3. /\ reader'["err"] = reader["err"] /\ pipe'["err"] = pipe["err"]
        /\ \/ /\ reader'["out"] = "closed" /\ pipe'["out"] = << >>
              /\ reader' \in [Pipes -> {"none", "reading", "ended", "closed"}]
              /\ wrong \/ child.at \notin Working
           \/ /\ reader' = reader /\ pipe["out"] # << >>
              /\ pipe'["out"] = Tail(pipe["out"])
        /\ pipe' = [p \in Pipes |-> pipe'[p]]
    BY <1>1 DEF ReadStdout, ExportTypeOK, Pipes, AtEnd, Earned
  <1>4. /\ pipe'["out"] \in Seq(1..MaxLines \cup {Garbled})
        /\ Len(pipe'["out"]) <= PipeCapacity
        /\ \A i \in DOMAIN pipe'["out"] : pipe'["out"][i] = Garbled => wrong
    <2>1. /\ pipe["out"] \in Seq(1..MaxLines \cup {Garbled})
          /\ Len(pipe["out"]) <= PipeCapacity
          /\ \A i \in DOMAIN pipe["out"] : pipe["out"][i] = Garbled => wrong
      BY <1>1 DEF ExportTypeOK, Earned, Pipes
    <2>2. CASE pipe'["out"] = << >>
      BY <2>2, ExportAssumption
    <2>3. CASE pipe["out"] # << >> /\ pipe'["out"] = Tail(pipe["out"])
      <3>1. /\ Len(Tail(pipe["out"])) = Len(pipe["out"]) - 1
            /\ \A i \in 1..(Len(pipe["out"]) - 1) : Tail(pipe["out"])[i] = pipe["out"][i + 1]
        BY <2>1, <2>3
      <3>2. QED
        BY <2>1, <2>3, <3>1, ExportAssumption
    <2>4. QED
      BY <1>3, <2>2, <2>3
  <1>5. ExportTypeOK'
    <2>1. parent' \in [at : Checks \cup Reading \cup {"ended"}, code : Codes, verdict : Verdicts]
      BY <1>1, <1>2, ExportTyped DEF Codes, Reading, ExportTypeOK
    <2>2. /\ pipe' \in [Pipes -> Seq(1..MaxLines \cup {Garbled})]
          /\ \A p \in Pipes : Len(pipe'[p]) <= PipeCapacity
      BY <1>1, <1>3, <1>4 DEF ExportTypeOK, Pipes
    <2>3. QED
      BY <1>1, <1>3, <2>1, <2>2 DEF ExportTypeOK
  <1>6. Undecided' /\ ExporterIsGone' /\ FailureIsEarned'
    BY <1>1, <1>2 DEF Undecided, ExporterIsGone, FailureIsEarned
  <1>7. Asking' /\ PreflightTellsApart'
    BY <1>1, <1>2, VerdictFrame
  <1>8. Spawned'
    BY <1>1, <1>2, <1>3 DEF Spawned, Checks, Reading
  <1>9. StderrInOrder'
    BY <1>1, <1>3 DEF StderrInOrder, Latest
  <1>10. Earned'
    BY <1>1, <1>3, <1>4 DEF Earned, Pipes
  <1>11. QED
    BY <1>5, <1>6, <1>7, <1>8, <1>9, <1>10 DEF ExportInv

LEMMA JoinPumpWaitInv ==
  ASSUME ExportInv, JoinPump \/ WaitChild
  PROVE  ExportInv'
  <1>1. /\ ExportTypeOK /\ Spawned /\ StderrInOrder /\ Earned /\ FailureIsEarned
        /\ child.at # "none" /\ parent.code = "none" /\ UNCHANGED unstarted
    BY DEF ExportInv, JoinPump, WaitChild, Spawned, Reading, Undecided
  <1>2. PICK at \in {"wait", "finish"} :
          /\ parent' = [at |-> at, code |-> "none", verdict |-> parent.verdict]
          /\ at = "finish" => child.at \notin Running
    BY <1>1, GoesIs DEF JoinPump, WaitChild
  <1>3. ExportTypeOK'
    <2>1. parent' \in [at : Checks \cup Reading \cup {"ended"}, code : Codes, verdict : Verdicts]
      BY <1>1, <1>2, ExportTyped DEF Codes, Reading
    <2>2. QED
      BY <1>1, <2>1 DEF ExportTypeOK, unstarted
  <1>4. Undecided' /\ ExporterIsGone' /\ FailureIsEarned'
    BY <1>2 DEF Undecided, ExporterIsGone, FailureIsEarned
  <1>5. Asking' /\ PreflightTellsApart'
    BY <1>1, <1>2, VerdictFrame DEF unstarted
  <1>6. Spawned'
    BY <1>1, <1>2 DEF Spawned, Checks, Reading, unstarted
  <1>7. StderrInOrder' /\ Earned'
    BY <1>1 DEF StderrInOrder, Latest, Earned, unstarted
  <1>8. QED
    BY <1>3, <1>4, <1>5, <1>6, <1>7 DEF ExportInv

LEMMA FinishExportInv ==
  ASSUME ExportInv, FinishExport
  PROVE  ExportInv'
  <1>1. /\ ExportTypeOK /\ Spawned /\ StderrInOrder /\ Earned
        /\ child.at \in {"succeeded", "failed"} /\ UNCHANGED unstarted
    BY ExportTyped DEF ExportInv, FinishExport, Spawned, Reading
  <1>2. PICK code \in {"EXPORTED", "EXPORT_FAILED"} :
          /\ parent' = [at |-> "ended", code |-> code, verdict |-> parent.verdict]
          /\ code = "EXPORT_FAILED" => ~(child.at = "succeeded" /\ report = "whole")
    BY ExitsIs DEF FinishExport
  <1>3. ExportTypeOK'
    <2>1. parent' \in [at : Checks \cup Reading \cup {"ended"}, code : Codes, verdict : Verdicts]
      BY <1>1, <1>2, ExportTyped DEF Codes
    <2>2. QED
      BY <1>1, <2>1 DEF ExportTypeOK, unstarted
  <1>4. Undecided' /\ ExporterIsGone'
    BY <1>1, <1>2 DEF Undecided, ExporterIsGone, Running, Working, Leaving, unstarted
  <1>5. FailureIsEarned'
    BY <1>1, <1>2 DEF FailureIsEarned, Earned, unstarted
  <1>6. Asking' /\ PreflightTellsApart'
    BY <1>1, <1>2, VerdictFrame DEF unstarted
  <1>7. Spawned'
    BY <1>1, <1>2 DEF Spawned, Checks, Reading, unstarted
  <1>8. StderrInOrder' /\ Earned'
    BY <1>1 DEF StderrInOrder, Latest, Earned, unstarted
  <1>9. QED
    BY <1>3, <1>4, <1>5, <1>6, <1>7, <1>8 DEF ExportInv

LEMMA KillParentInv ==
  ASSUME ExportInv, KillParent
  PROVE  ExportInv'
  <1>1. /\ ExportTypeOK /\ Spawned /\ Earned /\ wrong' = TRUE
        /\ reader' = [p \in Pipes |-> "closed"] /\ pipe' = [p \in Pipes |-> << >>]
        /\ UNCHANGED <<host, child, tail, report>>
        /\ parent' = [at |-> "ended", code |-> "KILLED", verdict |-> parent.verdict]
    BY ExitsIs DEF ExportInv, KillParent
  <1>2. ExportTypeOK'
    <2>1. parent' \in [at : Checks \cup Reading \cup {"ended"}, code : Codes, verdict : Verdicts]
      BY <1>1, ExportTyped DEF Codes
    <2>2. /\ pipe' \in [Pipes -> Seq(1..MaxLines \cup {Garbled})]
          /\ \A p \in Pipes : Len(pipe'[p]) <= PipeCapacity
      BY <1>1, ExportAssumption
    <2>3. QED
      BY <1>1, <2>1, <2>2 DEF ExportTypeOK
  <1>3. Undecided' /\ ExporterIsGone' /\ FailureIsEarned'
    BY <1>1 DEF Undecided, ExporterIsGone, FailureIsEarned
  <1>4. Asking' /\ PreflightTellsApart'
    BY <1>1, VerdictFrame
  <1>5. Spawned' /\ StderrInOrder'
    BY <1>1 DEF Spawned, Checks, Reading, Pipes, StderrInOrder
  <1>6. Earned'
    BY <1>1 DEF Earned
  <1>7. QED
    BY <1>2, <1>3, <1>4, <1>5, <1>6 DEF ExportInv

(* The tail with one more line is the tail of one line more. *)
LEMMA KeptIsLatest ==
  ASSUME NEW k \in Nat, tail = Latest(k)
  PROVE  Kept(k + 1) = Latest(k + 1)
  <1>1. TailMax \in Nat \ {0}
    BY ExportAssumption
  <1>2. CASE k < TailMax
    <2>1. tail = [i \in 1..k |-> i]
      <3>1. \A i \in 1..k : k - k + i = i
        OBVIOUS
      <3>2. QED
        BY <1>2, <3>1 DEF Latest
    <2>2. tail \in Seq(Nat) /\ Len(tail) = k
      BY <2>1
    <2>3. /\ Append(tail, k + 1) \in Seq(Nat) /\ Len(Append(tail, k + 1)) = k + 1
          /\ \A i \in 1..(k + 1) : Append(tail, k + 1)[i] = i
      BY <2>1, <2>2
    <2>4. Append(tail, k + 1) = [i \in 1..(k + 1) |-> i]
      BY <2>3
    <2>5. Latest(k + 1) = [i \in 1..(k + 1) |-> i]
      <3>1. (IF k + 1 < TailMax THEN k + 1 ELSE TailMax) = k + 1
        BY <1>1, <1>2
      <3>2. \A i \in 1..(k + 1) : (k + 1) - (k + 1) + i = i
        OBVIOUS
      <3>3. QED
        BY <3>1, <3>2 DEF Latest
    <2>6. Kept(k + 1) = Append(tail, k + 1)
      BY <1>1, <1>2, <2>2 DEF Kept
    <2>7. QED
      BY <2>4, <2>5, <2>6
  <1>3. CASE k >= TailMax
    <2>1. tail = [i \in 1..TailMax |-> k - TailMax + i]
      BY <1>1, <1>3 DEF Latest
    <2>2. tail \in Seq(Nat) /\ Len(tail) = TailMax
      BY <1>1, <1>3, <2>1
    <2>3. /\ Tail(tail) \in Seq(Nat) /\ Len(Tail(tail)) = TailMax - 1
          /\ \A i \in 1..(TailMax - 1) : Tail(tail)[i] = tail[i + 1]
      BY <1>1, <2>2
    <2>4. /\ Append(Tail(tail), k + 1) \in Seq(Nat)
          /\ Len(Append(Tail(tail), k + 1)) = TailMax
          /\ \A i \in 1..(TailMax - 1) : Append(Tail(tail), k + 1)[i] = tail[i + 1]
          /\ Append(Tail(tail), k + 1)[TailMax] = k + 1
      BY <1>1, <2>3
    <2>5. \A i \in 1..TailMax : Append(Tail(tail), k + 1)[i] = k + 1 - TailMax + i
      <3>1. \A i \in 1..(TailMax - 1) : tail[i + 1] = k + 1 - TailMax + i
        BY <1>1, <2>1
      <3>2. QED
        BY <1>1, <2>4, <3>1
    <2>6. Append(Tail(tail), k + 1) = [i \in 1..TailMax |-> k + 1 - TailMax + i]
      <3>1. PICK s \in Seq(Nat) : s = Append(Tail(tail), k + 1)
        BY <2>4
      <3>2. Len(s) = TailMax /\ \A i \in 1..TailMax : s[i] = k + 1 - TailMax + i
        BY <2>4, <2>5, <3>1
      <3>3. s = [i \in 1..TailMax |-> k + 1 - TailMax + i]
        BY <3>2
      <3>4. QED
        BY <3>1, <3>3
    <2>7. Latest(k + 1) = [i \in 1..TailMax |-> k + 1 - TailMax + i]
      BY <1>1, <1>3 DEF Latest
    <2>8. Kept(k + 1) = Append(Tail(tail), k + 1)
      BY <2>2 DEF Kept
    <2>9. QED
      BY <2>6, <2>7, <2>8
  <1>4. QED
    BY <1>1, <1>2, <1>3

(* The thread on stderr: at the end, at a garbled line, or at the next. *)
LEMMA PumpStderrInv ==
  ASSUME ExportInv, PumpStderr
  PROVE  ExportInv'
  <1>1. /\ ExportTypeOK /\ Spawned /\ StderrInOrder /\ Earned /\ FailureIsEarned
        /\ Undecided /\ ExporterIsGone /\ reader["err"] = "reading"
        /\ UNCHANGED <<host, parent, child, report, wrong>>
    BY DEF ExportInv, PumpStderr
  <1> DEFINE q == pipe["err"]
             read == child.written["err"] - Len(q)
  <1>2. /\ q \in Seq(1..MaxLines \cup {Garbled}) /\ Len(q) <= PipeCapacity /\ read \in Nat
        /\ child.written["err"] \in 0..MaxLines
        /\ \A i \in 1..Len(q) : q[i] \in {read + i, Garbled}
        /\ tail = Latest(read) /\ tail \in Seq(1..MaxLines) /\ Len(tail) <= TailMax
        /\ \A i \in 1..Len(q) : q[i] = Garbled => wrong
        /\ parent.at \notin Checks
    BY <1>1 DEF ExportTypeOK, Pipes, StderrInOrder, Earned, Spawned
  <1>3. Undecided' /\ ExporterIsGone' /\ FailureIsEarned'
    BY <1>1 DEF Undecided, ExporterIsGone, FailureIsEarned
  <1>4. Asking' /\ PreflightTellsApart'
    BY <1>1, VerdictFrame
  <1>5. CASE /\ AtEnd("err") /\ reader' = [reader EXCEPT !["err"] = "ended"]
             /\ UNCHANGED <<pipe, tail>>
    <2>1. /\ reader' \in [Pipes -> {"none", "reading", "ended", "closed"}]
          /\ reader'["err"] = "ended" /\ reader'["out"] = reader["out"]
          /\ pipe["err"] = << >> /\ child.at \notin Working
      BY <1>1, <1>5 DEF ExportTypeOK, AtEnd, Pipes
    <2>2. ExportTypeOK' /\ Spawned' /\ Earned'
      BY <1>1, <1>2, <1>5, <2>1 DEF ExportTypeOK, Spawned, Earned, Pipes
    <2>3. StderrInOrder'
      BY <1>1, <1>5 DEF StderrInOrder, Latest
    <2>4. QED
      BY <1>3, <1>4, <2>2, <2>3 DEF ExportInv
  <1>6. CASE /\ q # << >> /\ Head(q) = Garbled
             /\ reader' = [reader EXCEPT !["err"] = "closed"]
             /\ pipe' = [pipe EXCEPT !["err"] = << >>] /\ UNCHANGED tail
    <2>1. /\ reader' \in [Pipes -> {"none", "reading", "ended", "closed"}]
          /\ reader'["err"] = "closed" /\ reader'["out"] = reader["out"]
          /\ pipe' \in [Pipes -> Seq(1..MaxLines \cup {Garbled})]
          /\ pipe'["err"] = << >> /\ pipe'["out"] = pipe["out"]
      BY <1>1, <1>6 DEF ExportTypeOK, Pipes
    <2>2. wrong
      BY <1>2, <1>6
    <2>3. ExportTypeOK'
      <3>1. Len(pipe'["err"]) <= PipeCapacity
        BY <2>1, ExportAssumption
      <3>2. QED
        BY <1>1, <1>6, <2>1, <3>1 DEF ExportTypeOK, Pipes
    <2>4. Spawned' /\ Earned' /\ StderrInOrder'
      BY <1>1, <1>2, <2>1, <2>2 DEF Spawned, Earned, StderrInOrder, Pipes
    <2>5. QED
      BY <1>3, <1>4, <2>3, <2>4 DEF ExportInv
  <1>7. CASE /\ q # << >> /\ Head(q) # Garbled /\ tail' = Kept(Head(q))
             /\ pipe' = [pipe EXCEPT !["err"] = Tail(@)] /\ UNCHANGED reader
    <2>1. /\ Head(q) = read + 1 /\ Len(q) \in Nat \ {0}
          /\ Tail(q) \in Seq(1..MaxLines \cup {Garbled}) /\ Len(Tail(q)) = Len(q) - 1
          /\ \A i \in 1..(Len(q) - 1) : Tail(q)[i] = q[i + 1]
      BY <1>2, <1>7
    <2>2. /\ pipe' \in [Pipes -> Seq(1..MaxLines \cup {Garbled})]
          /\ pipe'["err"] = Tail(q) /\ pipe'["out"] = pipe["out"]
      BY <1>1, <1>7, <2>1 DEF ExportTypeOK, Pipes
    <2>3. tail' = Latest(read + 1)
      BY <1>2, <1>7, <2>1, KeptIsLatest
    <2>4. tail' \in Seq(1..MaxLines) /\ Len(tail') <= TailMax
      <3>1. read + 1 \in 1..MaxLines
        BY <1>2, <2>1, ExportAssumption
      <3>2. QED
        BY <2>3, <3>1, ExportAssumption DEF Latest
    <2>5. ExportTypeOK'
      <3>1. \A p \in Pipes : Len(pipe'[p]) <= PipeCapacity
        BY <1>1, <1>2, <2>1, <2>2, ExportAssumption DEF ExportTypeOK, Pipes
      <3>2. QED
        BY <1>1, <1>7, <2>2, <2>4, <3>1 DEF ExportTypeOK
    <2>6. Spawned'
      BY <1>1, <1>2, <1>7 DEF Spawned
    <2>7. Earned'
      <3>1. \A i \in DOMAIN pipe'["err"] : pipe'["err"][i] = Garbled => wrong
        BY <1>2, <2>1, <2>2
      <3>2. QED
        BY <1>1, <1>7, <2>2, <3>1 DEF Earned, Pipes
    <2>8. StderrInOrder'
      <3>1. child'.written["err"] - Len(pipe'["err"]) = read + 1
        BY <1>1, <1>2, <2>1, <2>2
      <3>2. \A i \in 1..Len(pipe'["err"]) : pipe'["err"][i] \in {read + 1 + i, Garbled}
        <4>1. ASSUME NEW i \in 1..(Len(q) - 1) PROVE q[i + 1] \in {read + 1 + i, Garbled}
          <5>1. i + 1 \in 1..Len(q) /\ read + (i + 1) = read + 1 + i
            <6>1. read \in Nat /\ Len(q) \in Nat
              BY <1>2, <2>1
            <6> HIDE DEF read, q
            <6>2. QED
              BY <6>1
          <5>2. q[i + 1] \in {read + (i + 1), Garbled}
            BY <1>2, <5>1
          <5> HIDE DEF read, q
          <5>3. QED
            BY <5>1, <5>2
        <4>2. QED
          BY <2>1, <2>2, <4>1
      <3>3. PICK r \in Nat : r = read + 1
        BY <1>2
      <3>4. QED
        BY <2>3, <3>1, <3>2, <3>3 DEF StderrInOrder, Latest
    <2>9. QED
      BY <1>3, <1>4, <2>5, <2>6, <2>7, <2>8 DEF ExportInv
  <1>8. QED
    BY <1>5, <1>6, <1>7 DEF PumpStderr

-----------------------------------------------------------------------------
(* The export: the exporter *)

(* What a step of the exporter leaves as it is. *)
LEMMA ChildFrame ==
  ASSUME ExportInv, child.at \in Running, UNCHANGED <<host, parent, reader>>, wrong => wrong'
  PROVE  /\ Asking' /\ Undecided' /\ PreflightTellsApart' /\ ExporterIsGone' /\ FailureIsEarned'
         /\ parent.at \notin Checks /\ parent.at # "finish"
         /\ child.at \in Working => reader["err"] # "ended"
  <1>1. Asking' /\ PreflightTellsApart'
    BY VerdictFrame
  <1>2. /\ parent.at = "ended" => parent.code = "KILLED"
        /\ parent.at \notin Checks /\ parent.at # "finish"
        /\ child.at \in Working => reader["err"] # "ended"
    BY DEF ExportInv, ExporterIsGone, Spawned, Running, Working, Leaving
  <1>3. QED
    BY <1>1, <1>2 DEF ExportInv, Undecided, ExporterIsGone, FailureIsEarned

(* The exporter goes on without writing a line. *)
LEMMA SilentChild ==
  ASSUME ExportInv, child.at \in Running,
         child' \in [at : {"succeeded", "failed"} \cup Running, written : {child.written},
                     writing : {"none"} \cup {p \in Pipes : child.written[p] < MaxLines}],
         UNCHANGED <<host, parent, pipe, reader, tail>>,
         report' \in {"absent", "torn", "whole"}, wrong' \in BOOLEAN, wrong => wrong',
         child.at \in Leaving => child'.at \notin Working,
         child'.at \in {"dying", "failed"} => wrong',
         child'.at \in {"reported", "returning", "succeeded"} => report' = "whole" \/ wrong'
  PROVE  ExportInv'
  <1>1. ExportTypeOK /\ Spawned /\ StderrInOrder /\ Earned
    BY DEF ExportInv
  <1>2. ExportTypeOK'
    <2>1. child' \in [at : {"none", "succeeded", "failed"} \cup Running,
                      written : [Pipes -> 0..MaxLines], writing : Pipes \cup {"none"}]
      BY <1>1, ExportTyped
    <2>2. QED
      BY <1>1, <2>1 DEF ExportTypeOK
  <1>3. /\ Asking' /\ Undecided' /\ PreflightTellsApart' /\ ExporterIsGone' /\ FailureIsEarned'
        /\ parent.at \notin Checks /\ parent.at # "finish"
        /\ child.at \in Working => reader["err"] # "ended"
    BY ChildFrame
  <1>4. Spawned'
    BY <1>1, <1>3 DEF Spawned, Running, Working, Leaving
  <1>5. StderrInOrder'
    BY <1>1 DEF StderrInOrder, Latest
  <1>6. Earned'
    BY <1>1 DEF Earned, Running
  <1>7. QED
    BY <1>2, <1>3, <1>4, <1>5, <1>6 DEF ExportInv

LEMMA SilentStepsInv ==
  ASSUME ExportInv, (\E p \in Pipes : Say(p)) \/ WriteReport \/ Succeed \/ Fail \/ Exit
  PROVE  ExportInv'
  <1> DEFINE Quiet == {"none"} \cup {p \in Pipes : child.written[p] < MaxLines}
  <1>1. /\ child = [at |-> child.at, written |-> child.written, writing |-> child.writing]
        /\ child.writing \in Quiet /\ wrong \in BOOLEAN
        /\ child.at \in {"dying", "failed"} => wrong
        /\ child.at \in {"reported", "returning", "succeeded"} => report = "whole" \/ wrong
        /\ report \in {"absent", "torn", "whole"}
    BY ExportTyped DEF ExportInv, Earned, ExportTypeOK, Spawned
  <1>2. ASSUME NEW p \in Pipes, Say(p) PROVE ExportInv'
    <2>1. /\ child' = [at |-> child.at, written |-> child.written, writing |-> p]
          /\ child.at \in Working /\ p \in Quiet
          /\ UNCHANGED <<host, parent, pipe, reader, tail, report, wrong>>
      BY <1>1, <1>2 DEF Say
    <2>2. /\ child' \in [at : {"succeeded", "failed"} \cup Running, written : {child.written},
                         writing : Quiet]
          /\ child.at \in Running /\ child.at \notin Leaving /\ child'.at = child.at
      BY <2>1 DEF Running, Working, Leaving
    <2>3. QED
      BY <1>1, <2>1, <2>2, SilentChild
  <1>3. CASE WriteReport
    <2>1. /\ child.at \in Running /\ child.at \notin Leaving
          /\ UNCHANGED <<host, parent, pipe, reader, tail>>
          /\ wrong' \in BOOLEAN /\ (wrong => wrong') /\ report' \in {"absent", "torn", "whole"}
      BY <1>1, <1>3 DEF WriteReport, Running, Working, Leaving
    <2>2. PICK at \in {"reporting", "reported"} :
            /\ child' = [at |-> at, written |-> child.written, writing |-> child.writing]
            /\ at = "reported" => report' = "whole" \/ wrong'
      BY <1>1, <1>3 DEF WriteReport
    <2>3. /\ child' \in [at : {"succeeded", "failed"} \cup Running, written : {child.written},
                         writing : Quiet]
          /\ child'.at = at /\ at \notin {"dying", "failed", "returning", "succeeded"}
      BY <1>1, <2>2 DEF Running, Working
    <2>4. QED
      BY <2>1, <2>2, <2>3, SilentChild
  <1>4. CASE Succeed
    <2>1. /\ child' = [at |-> "returning", written |-> child.written, writing |-> child.writing]
          /\ child.at = "reported" /\ child.at \in Running /\ child.at \notin Leaving
          /\ UNCHANGED <<host, parent, pipe, reader, tail, report, wrong>>
      BY <1>1, <1>4 DEF Succeed, Running, Working, Leaving
    <2>2. /\ child' \in [at : {"succeeded", "failed"} \cup Running, written : {child.written},
                         writing : Quiet]
          /\ child'.at = "returning"
      BY <1>1, <2>1 DEF Running, Leaving
    <2>3. QED
      BY <1>1, <2>1, <2>2, SilentChild
  <1>5. CASE Fail
    <2>1. /\ child' = [at |-> "dying", written |-> child.written, writing |-> "none"]
          /\ child.at \in Running /\ child.at \notin Leaving /\ wrong' = TRUE
          /\ UNCHANGED <<host, parent, pipe, reader, tail, report>>
      BY <1>1, <1>5 DEF Fail, Running, Working, Leaving
    <2>2. /\ child' \in [at : {"succeeded", "failed"} \cup Running, written : {child.written},
                         writing : Quiet]
          /\ child'.at = "dying"
      BY <1>1, <2>1 DEF Running, Leaving
    <2>3. QED
      BY <1>1, <2>1, <2>2, SilentChild
  <1>6. CASE Exit
    <2>1. /\ child.at \in {"returning", "dying"} /\ child.at \in Running
          /\ UNCHANGED <<host, parent, pipe, reader, tail, report, wrong>>
      BY <1>6 DEF Exit, Running, Leaving
    <2>2. PICK at \in {"succeeded", "failed"} :
            /\ child' = [at |-> at, written |-> child.written, writing |-> child.writing]
            /\ IF child.at = "returning" THEN at = "succeeded" ELSE at = "failed"
      BY <1>1, <1>6 DEF Exit
    <2>3. /\ child' \in [at : {"succeeded", "failed"} \cup Running, written : {child.written},
                         writing : Quiet]
          /\ child'.at = at /\ at \notin Working
      BY <1>1, <2>2 DEF Working
    <2>4. QED
      BY <1>1, <2>1, <2>2, <2>3, SilentChild
  <1>7. QED
    BY <1>2, <1>3, <1>4, <1>5, <1>6

(* What a line written does: to the pipe, or to nowhere. *)
LEMMA WritesALine ==
  ASSUME ExportInv, NEW p \in Pipes, WriteLine(p)
  PROVE  \E at \in {child.at, "dying"}, line \in {child.written[p] + 1, Garbled} :
           /\ child' = [at |-> at,
                        written |-> [child.written EXCEPT ![p] = child.written[p] + 1],
                        writing |-> "none"]
           /\ \/ /\ reader[p] = "reading" /\ Len(pipe[p]) < PipeCapacity /\ at = child.at
                 /\ pipe' = [pipe EXCEPT ![p] = Append(@, line)]
                 /\ wrong' \in BOOLEAN /\ (wrong \/ line = Garbled => wrong')
              \/ reader[p] = "closed" /\ UNCHANGED <<pipe, wrong>>
  <1> DEFINE done == [child EXCEPT !.written[p] = @ + 1, !.writing = "none"]
  <1>1. /\ child = [at |-> child.at, written |-> child.written, writing |-> child.writing]
        /\ child.written[p] \in Nat /\ wrong \in BOOLEAN
        /\ child.written \in [Pipes -> 0..MaxLines]
    BY ExportTyped DEF ExportInv
  <1>2. done = [at |-> child.at,
                written |-> [child.written EXCEPT ![p] = child.written[p] + 1],
                writing |-> "none"]
    <2>1. [child EXCEPT !.written[p] = @ + 1]
            = [at |-> child.at, written |-> [child.written EXCEPT ![p] = child.written[p] + 1],
               writing |-> child.writing]
      BY <1>1
    <2>2. done = [[child EXCEPT !.written[p] = @ + 1] EXCEPT !.writing = "none"]
      BY <1>1
    <2> HIDE DEF done
    <2>3. QED
      BY <2>1, <2>2
  <1>3. child.written[p] + 1 # Garbled
    BY <1>1, ExportAssumption
  <1>4. CASE /\ reader[p] = "reading" /\ Len(pipe[p]) < PipeCapacity /\ child' = done
             /\ pipe' = [pipe EXCEPT ![p] = Append(@, child.written[p] + 1)]
             /\ UNCHANGED wrong
    BY <1>1, <1>2, <1>3, <1>4
  <1>5. CASE /\ reader[p] = "reading" /\ Len(pipe[p]) < PipeCapacity /\ child' = done
             /\ pipe' = [pipe EXCEPT ![p] = Append(@, Garbled)] /\ wrong' = TRUE
    BY <1>2, <1>5
  <1>6. ASSUME reader[p] = "closed", UNCHANGED <<pipe, wrong>>,
               NEW at \in {child.at, "dying"}, child' = [done EXCEPT !.at = at]
        PROVE  child' = [at |-> at,
                         written |-> [child.written EXCEPT ![p] = child.written[p] + 1],
                         writing |-> "none"]
    BY <1>2, <1>6
  <1>7. QED
    BY <1>4, <1>5, <1>6 DEF WriteLine

LEMMA WriteLineInv ==
  ASSUME ExportInv, NEW p \in Pipes, WriteLine(p)
  PROVE  ExportInv'
  <1>1. /\ ExportTypeOK /\ Spawned /\ StderrInOrder /\ Earned /\ child.at \in Working
        /\ child.at \in Running /\ child.writing = p /\ child.written[p] < MaxLines
        /\ UNCHANGED <<host, parent, reader, tail, report>>
    BY DEF ExportInv, WriteLine, Spawned, Pipes, Running
  <1>2. PICK at \in {child.at, "dying"}, line \in {child.written[p] + 1, Garbled} :
           /\ child' = [at |-> at,
                        written |-> [child.written EXCEPT ![p] = child.written[p] + 1],
                        writing |-> "none"]
           /\ \/ /\ reader[p] = "reading" /\ Len(pipe[p]) < PipeCapacity /\ at = child.at
                 /\ pipe' = [pipe EXCEPT ![p] = Append(@, line)]
                 /\ wrong' \in BOOLEAN /\ (wrong \/ line = Garbled => wrong')
              \/ reader[p] = "closed" /\ UNCHANGED <<pipe, wrong>>
    BY WritesALine
  <1>3. /\ child'.at = at /\ child'.writing = "none"
        /\ child'.written \in [Pipes -> 0..MaxLines]
        /\ child'.written[p] = child.written[p] + 1
        /\ \A x \in Pipes \ {p} : child'.written[x] = child.written[x]
        /\ line \in 1..MaxLines \cup {Garbled}
    BY <1>1, <1>2, ExportTyped, ExportAssumption
  <1>4. /\ Asking' /\ Undecided' /\ PreflightTellsApart' /\ ExporterIsGone' /\ FailureIsEarned'
        /\ parent.at \notin Checks /\ parent.at # "finish" /\ reader["err"] # "ended"
    BY <1>1, <1>2, ChildFrame
  <1>5. Spawned'
    BY <1>1, <1>3, <1>4 DEF Spawned
  <1>6. child' \in [at : {"none", "succeeded", "failed"} \cup Running,
                    written : [Pipes -> 0..MaxLines], writing : Pipes \cup {"none"}]
    BY <1>1, <1>2, <1>3 DEF Running, Leaving
  <1>7. CASE reader[p] = "closed" /\ UNCHANGED <<pipe, wrong>>
    <2>1. ExportTypeOK'
      BY <1>1, <1>6, <1>7 DEF ExportTypeOK
    <2>2. Earned'
      BY <1>1, <1>3, <1>7 DEF Earned, Working
    <2>3. StderrInOrder'
      BY <1>1, <1>3, <1>7 DEF StderrInOrder, Latest, Pipes
    <2>4. QED
      BY <1>4, <1>5, <2>1, <2>2, <2>3 DEF ExportInv
  <1>8. CASE /\ reader[p] = "reading" /\ Len(pipe[p]) < PipeCapacity /\ at = child.at
             /\ pipe' = [pipe EXCEPT ![p] = Append(@, line)]
             /\ wrong' \in BOOLEAN /\ (wrong \/ line = Garbled => wrong')
    <2>1. /\ pipe[p] \in Seq(1..MaxLines \cup {Garbled})
          /\ Append(pipe[p], line) \in Seq(1..MaxLines \cup {Garbled})
          /\ Len(pipe[p]) \in Nat /\ Len(Append(pipe[p], line)) = Len(pipe[p]) + 1
          /\ \A i \in 1..Len(pipe[p]) : Append(pipe[p], line)[i] = pipe[p][i]
          /\ Append(pipe[p], line)[Len(pipe[p]) + 1] = line
      BY <1>1, <1>3 DEF ExportTypeOK
    <2>2. /\ pipe' \in [Pipes -> Seq(1..MaxLines \cup {Garbled})]
          /\ pipe'[p] = Append(pipe[p], line)
          /\ \A x \in Pipes \ {p} : pipe'[x] = pipe[x]
      BY <1>1, <1>8, <2>1 DEF ExportTypeOK
    <2>3. ExportTypeOK'
      <3>1. \A x \in Pipes : Len(pipe'[x]) <= PipeCapacity
        BY <1>1, <1>8, <2>1, <2>2, ExportAssumption DEF ExportTypeOK
      <3>2. QED
        BY <1>1, <1>6, <1>8, <2>2, <3>1 DEF ExportTypeOK
    <2>4. Earned'
      <3>1. \A i \in DOMAIN pipe'[p] : pipe'[p][i] = Garbled => wrong'
        <4>1. \A i \in 1..Len(pipe[p]) : pipe[p][i] = Garbled => wrong
          BY <1>1, <2>1 DEF Earned
        <4>2. DOMAIN pipe'[p] = 1..(Len(pipe[p]) + 1)
          BY <2>1, <2>2
        <4>3. QED
          BY <1>8, <2>1, <2>2, <4>1, <4>2
      <3>2. QED
        BY <1>1, <1>3, <1>8, <2>2, <3>1 DEF Earned
    <2>5. StderrInOrder'
      <3>1. CASE p # "err"
        BY <1>1, <1>3, <2>2, <3>1 DEF StderrInOrder, Latest, Pipes
      <3>2. CASE p = "err"
        <4>1. PICK read \in Nat : /\ read = child.written["err"] - Len(pipe["err"])
                                  /\ tail = Latest(read)
                                  /\ \A i \in 1..Len(pipe["err"]) :
                                       pipe["err"][i] \in {read + i, Garbled}
          BY <1>1, <1>8, <3>2 DEF StderrInOrder
        <4>2. PICK n \in Nat : n = Len(pipe["err"])
          BY <2>1, <3>2
        <4>3. child.written["err"] = read + n /\ child'.written["err"] = read + n + 1
          BY <1>1, <1>3, <3>2, <4>1, <4>2, ExportTyped
        <4>4. Len(pipe'["err"]) = n + 1 /\ child'.written["err"] - Len(pipe'["err"]) = read
          BY <2>1, <2>2, <3>2, <4>2, <4>3
        <4>5. \A i \in 1..(n + 1) : pipe'["err"][i] \in {read + i, Garbled}
          <5>1. line \in {read + (n + 1), Garbled}
            BY <3>2, <4>3
          <5>2. /\ \A i \in 1..n : pipe'["err"][i] = pipe["err"][i]
                /\ pipe'["err"][n + 1] = line
            BY <2>1, <2>2, <3>2, <4>2
          <5>3. \A i \in 1..(n + 1) : i \in 1..n \/ i = n + 1
            OBVIOUS
          <5>4. QED
            BY <4>1, <4>2, <5>1, <5>2, <5>3
        <4>6. QED
          BY <1>1, <4>1, <4>4, <4>5 DEF StderrInOrder, Latest
      <3>3. QED
        BY <3>1, <3>2
    <2>6. QED
      BY <1>4, <1>5, <2>3, <2>4, <2>5 DEF ExportInv
  <1>9. QED
    BY <1>2, <1>7, <1>8

(* Every step of the tool, its thread and its exporter. *)
LEMMA ExportStepInv ==
  ASSUME ExportInv, ExportNext
  PROVE  ExportInv'
  <1>1. CASE CheckWritable \/ UpToDate \/ CheckPython \/ ResolveClip
    BY <1>1, EasyChecks
  <1>2. CASE WhoAmI \/ Resolve
    BY <1>2, WhoAmIInv, ResolveInv
  <1>3. CASE Spawn \/ SpawnFails \/ ReadStdout \/ JoinPump \/ WaitChild \/ FinishExport
             \/ KillParent
    BY <1>3, SpawnInv, SpawnFailsInv, ReadStdoutInv, JoinPumpWaitInv, FinishExportInv,
       KillParentInv
  <1>4. CASE PumpStderr
    BY <1>4, PumpStderrInv
  <1>5. CASE (\E p \in Pipes : Say(p)) \/ WriteReport \/ Succeed \/ Fail \/ Exit
    BY <1>5, SilentStepsInv
  <1>6. CASE \E p \in Pipes : WriteLine(p)
    BY <1>6, WriteLineInv
  <1>7. QED
    BY <1>1, <1>2, <1>3, <1>4, <1>5, <1>6 DEF ExportNext, ToolStep, ChildStep

LEMMA ExportStutterInv ==
  ASSUME ExportInv, UNCHANGED exportVars
  PROVE  ExportInv'
  BY DEF exportVars, ExportInv, ExportTypeOK, Asking, Undecided, Spawned, StderrInOrder,
         Latest, Earned, PreflightTellsApart, Token, ExporterIsGone, FailureIsEarned

(* The tail in the error message. *)
LEMMA TailFollows ==
  ASSUME ExportInv
  PROVE  TailIsLast
  <1> SUFFICES ASSUME parent.at = "finish", reader["err"] = "ended"
               PROVE  tail = Latest(child.written["err"])
    BY DEF TailIsLast, Latest
  <1>1. pipe["err"] = << >> /\ child.written["err"] \in Nat
    BY ExportTyped DEF ExportInv, Spawned, Pipes
  <1>2. child.written["err"] - Len(pipe["err"]) = child.written["err"]
    BY <1>1
  <1>3. QED
    BY <1>2 DEF ExportInv, StderrInOrder

-----------------------------------------------------------------------------
(* What is planned of a list of names *)

(* Induction, for sets of numbers: a set that lacks some m but has 0 and   *)
(* the successor of each of its members would map its part below m one to  *)
(* one to that part without 0.                                             *)
LEMMA SetInduction ==
  ASSUME NEW S, 0 \in S, \A k \in Nat : k \in S => k + 1 \in S
  PROVE  Nat \subseteq S
  <1> SUFFICES ASSUME NEW m \in Nat, m \notin S PROVE FALSE
    OBVIOUS
  <1> DEFINE A == S \cap (0..m)
             B == A \ {0}
             f == [k \in A |-> k + 1]
  <1>1. IsFiniteSet(A) /\ Cardinality(A) \in Nat
    <2>1. IsFiniteSet(0..m) /\ A \in SUBSET (0..m)
      BY FS_Interval
    <2> HIDE DEF A
    <2>2. QED
      BY <2>1, FS_Subset, FS_CardinalityType
  <1>2. IsFiniteSet(B) /\ Cardinality(B) = Cardinality(A) - 1
    <2>1. 0 \in A
      OBVIOUS
    <2>2. QED
      BY <1>1, <2>1, FS_RemoveElement
  <1>3. f \in Injection(A, B)
    <2>1. ASSUME NEW k \in A PROVE k + 1 \in B
      <3>1. k \in Nat /\ k <= m /\ k # m /\ k \in S
        OBVIOUS
      <3>2. k + 1 \in S /\ k + 1 \in 0..m /\ k + 1 # 0
        BY <3>1
      <3>3. QED
        BY <3>2
    <2>2. \A k, l \in A : k + 1 = l + 1 => k = l
      OBVIOUS
    <2>3. f \in [A -> B]
      BY <2>1
    <2>4. IsInjective(f)
      BY <2>2 DEF IsInjective
    <2>5. QED
      BY <2>3, <2>4 DEF Injection
  <1>4. Cardinality(A) <= Cardinality(B)
    BY <1>2, <1>3, FS_Injection
  <1>5. QED
    BY <1>1, <1>2, <1>4

(* One entry of the loop, and the loop up to any entry. *)
Entry(list, i, planned) ==
  IF list[i] = "" \/ list[i] \in Range(planned) THEN planned ELSE Append(planned, list[i])
IsLoop(list, n, f) ==
  f = [i \in 0..n |-> IF i = 0 THEN << >> ELSE Entry(list, i, f[i - 1])]

LEMMA LoopExists ==
  ASSUME NEW list, NEW n \in Nat
  PROVE  \E f : IsLoop(list, n, f)
  <1> DEFINE S == {k \in Nat : \E f : IsLoop(list, k, f)}
  <1>1. 0 \in S
    <2>1. IsLoop(list, 0, [i \in 0..0 |-> << >>])
      BY DEF IsLoop
    <2>2. QED
      BY <2>1
  <1>2. ASSUME NEW k \in Nat, k \in S PROVE k + 1 \in S
    <2>1. PICK f : IsLoop(list, k, f)
      BY <1>2
    <2> DEFINE h == [i \in 0..(k + 1) |-> IF i = 0 THEN << >> ELSE Entry(list, i, f[i - 1])]
    <2>2. \A i \in 0..k : h[i] = f[i]
      <3>1. f = [i \in 0..k |-> IF i = 0 THEN << >> ELSE Entry(list, i, f[i - 1])]
        BY <2>1 DEF IsLoop
      <3>2. \A i \in 0..k : f[i] = IF i = 0 THEN << >> ELSE Entry(list, i, f[i - 1])
        BY ONLY <3>1
      <3>3. QED
        BY ONLY <3>2, k \in Nat
    <2>3. \A i \in 0..(k + 1) : i # 0 => h[i - 1] = f[i - 1]
      <3> HIDE DEF h
      <3>1. \A i \in 0..(k + 1) : i # 0 => i - 1 \in 0..k
        OBVIOUS
      <3>2. QED
        BY <2>2, <3>1
    <2>4. IsLoop(list, k + 1, h)
      <3>1. \A i \in 0..(k + 1) :
              (IF i = 0 THEN << >> ELSE Entry(list, i, f[i - 1]))
                = IF i = 0 THEN << >> ELSE Entry(list, i, h[i - 1])
        <4> HIDE DEF h
        <4>1. QED
          BY <2>3
      <3>2. PICK g : g = h
        OBVIOUS
      <3>3. g = [i \in 0..(k + 1) |-> IF i = 0 THEN << >> ELSE Entry(list, i, g[i - 1])]
        BY <3>1, <3>2
      <3>4. QED
        BY <3>2, <3>3 DEF IsLoop
    <2>5. QED
      BY <2>4
  <1>3. Nat \subseteq S
    <2> HIDE DEF S
    <2>1. QED
      BY <1>1, <1>2, SetInduction
  <1>4. QED
    BY <1>3

LEMMA LoopIs ==
  ASSUME NEW list \in Seq(STRING)
  PROVE  IsLoop(list, Len(list), Loop(list))
  <1>1. PICK f : IsLoop(list, Len(list), f)
    BY LoopExists
  <1>2. Loop(list) = CHOOSE g : IsLoop(list, Len(list), g)
    BY DEF Loop, IsLoop, Entry
  <1>3. QED
    BY <1>1, <1>2

(* The names among the first entries, and the first of them. *)
NamesTo(list, i) == {list[j] : j \in 1..i} \ {""}
IsFirstName(list, i, name) ==
  \E j \in 1..i : list[j] = name /\ \A k \in 1..(j - 1) : list[k] = ""

(* After i entries every name that came is planned, once, the first first. *)
Planning(list, planned, i) ==
  /\ planned \in Seq(STRING)
  /\ Range(planned) = NamesTo(list, i)
  /\ IsInjective(planned)
  /\ planned # << >> => IsFirstName(list, i, planned[1])

LEMMA NextName ==
  ASSUME NEW list, NEW i \in Nat, NEW name
  PROVE  /\ list[i + 1] = "" => NamesTo(list, i + 1) = NamesTo(list, i)
         /\ list[i + 1] # "" => NamesTo(list, i + 1) = NamesTo(list, i) \cup {list[i + 1]}
         /\ IsFirstName(list, i, name) => IsFirstName(list, i + 1, name)
         /\ NamesTo(list, i) = {} => IsFirstName(list, i + 1, list[i + 1])
  <1>1. \A j : j \in 1..(i + 1) <=> j \in 1..i \/ j = i + 1
    OBVIOUS
  <1>2. {list[j] : j \in 1..(i + 1)} = {list[j] : j \in 1..i} \cup {list[i + 1]}
    BY <1>1
  <1>3. IsFirstName(list, i, name) => IsFirstName(list, i + 1, name)
    BY <1>1 DEF IsFirstName
  <1>4. ASSUME NamesTo(list, i) = {} PROVE IsFirstName(list, i + 1, list[i + 1])
    <2>1. \A k \in 1..i : list[k] = ""
      BY <1>4 DEF NamesTo
    <2>2. PICK m \in 1..(i + 1) : m = i + 1 /\ m - 1 = i
      OBVIOUS
    <2>3. list[m] = list[i + 1] /\ \A k \in 1..(m - 1) : list[k] = ""
      BY <2>1, <2>2
    <2>4. QED
      BY <2>3 DEF IsFirstName
  <1>5. QED
    BY <1>2, <1>3, <1>4 DEF NamesTo

LEMMA PlanningGoesOn ==
  ASSUME NEW list \in Seq(STRING), NEW i \in Nat, i + 1 \in 1..Len(list),
         NEW planned, Planning(list, planned, i)
  PROVE  Planning(list, Entry(list, i + 1, planned), i + 1)
  <1>1. PICK name \in STRING : name = list[i + 1]
    BY ElementOfSeq
  <1>2. /\ planned \in Seq(STRING) /\ IsInjective(planned) /\ Range(planned) = NamesTo(list, i)
        /\ planned # << >> => IsFirstName(list, i, planned[1])
    BY DEF Planning
  <1>3. CASE name = "" \/ name \in Range(planned)
    <2>1. Entry(list, i + 1, planned) = planned
      BY <1>1, <1>3 DEF Entry
    <2>2. Range(planned) = NamesTo(list, i + 1)
      <3>1. /\ name = "" => NamesTo(list, i + 1) = NamesTo(list, i)
            /\ name # "" => NamesTo(list, i + 1) = NamesTo(list, i) \cup {name}
        BY <1>1, NextName
      <3>2. QED
        BY <1>2, <1>3, <3>1
    <2>3. planned # << >> => IsFirstName(list, i + 1, planned[1])
      BY <1>2, NextName
    <2>4. QED
      BY <1>2, <2>1, <2>2, <2>3 DEF Planning
  <1>4. CASE name # "" /\ name \notin Range(planned)
    <2>1. PICK more : more = Append(planned, name)
      OBVIOUS
    <2>2. PICK n \in Nat : n = Len(planned) /\ DOMAIN planned = 1..n
      BY <1>2
    <2>3. /\ more \in Seq(STRING) /\ Len(more) = n + 1
          /\ \A x \in 1..n : more[x] = planned[x]
          /\ more[n + 1] = name
      BY <1>1, <1>2, <2>1, <2>2, AppendProperties
    <2>4. /\ DOMAIN more = 1..(n + 1)
          /\ \A x : x \in 1..(n + 1) <=> x \in 1..n \/ x = n + 1
      BY <2>3
    <2>5. Range(more) = Range(planned) \cup {name}
      <3>1. Range(more) = {more[x] : x \in 1..(n + 1)}
        BY <2>4 DEF Range
      <3>2. Range(planned) = {planned[x] : x \in 1..n}
        BY <2>2 DEF Range
      <3>3. QED
        BY <2>3, <2>4, <3>1, <3>2
    <2>6. IsInjective(more)
      <3>1. \A x \in 1..n : more[x] # name
        BY <1>4, <2>2, <2>3 DEF Range
      <3>2. \A x, y \in 1..n : more[x] = more[y] => x = y
        BY <1>2, <2>2, <2>3 DEF IsInjective
      <3>3. ASSUME NEW x \in 1..(n + 1), NEW y \in 1..(n + 1), more[x] = more[y]
            PROVE  x = y
        BY <2>3, <2>4, <3>1, <3>2, <3>3
      <3>4. QED
        BY <2>4, <3>3 DEF IsInjective
    <2>7. IsFirstName(list, i + 1, more[1])
      <3>1. CASE planned = << >>
        <4>1. n = 0 /\ n + 1 = 1
          BY <2>2, <3>1
        <4>2. more[1] = name
          BY <2>3, <4>1
        <4>3. NamesTo(list, i) = {}
          BY <1>2, <2>2, <4>1 DEF Range
        <4>4. QED
          BY <1>1, <4>2, <4>3, NextName
      <3>2. CASE planned # << >>
        <4>1. n # 0
          BY <1>2, <2>2, <3>2
        <4>2. more[1] = planned[1]
          BY <2>3, <4>1
        <4>3. QED
          BY <1>2, <3>2, <4>2, NextName
      <3>3. QED
        BY <3>1, <3>2
    <2>8. Range(more) = NamesTo(list, i + 1)
      BY <1>1, <1>2, <1>4, <2>5, NextName
    <2>9. Entry(list, i + 1, planned) = more
      BY <1>1, <1>4, <2>1 DEF Entry
    <2>10. QED
      BY <2>3, <2>6, <2>7, <2>8, <2>9 DEF Planning
  <1>5. QED
    BY <1>3, <1>4

LEMMA PlannedIsWhole ==
  ASSUME NEW list \in Seq(STRING)
  PROVE  Planning(list, Planned(list), Len(list))
  <1>1. PICK f : f = Loop(list)
    OBVIOUS
  <1>2. IsLoop(list, Len(list), f) /\ Len(list) \in Nat
    BY <1>1, LoopIs
  <1> DEFINE S == {i \in Nat : i <= Len(list) => Planning(list, f[i], i)}
  <1>3. 0 \in S
    <2>1. f[0] = << >>
      BY <1>2 DEF IsLoop
    <2>2. Planning(list, << >>, 0)
      BY DEF Planning, Range, IsInjective, NamesTo
    <2>3. QED
      BY <2>1, <2>2
  <1>4. ASSUME NEW i \in Nat, i \in S PROVE i + 1 \in S
    <2> SUFFICES ASSUME i + 1 <= Len(list) PROVE Planning(list, f[i + 1], i + 1)
      OBVIOUS
    <2>1. Planning(list, f[i], i) /\ i + 1 \in 1..Len(list) /\ i + 1 \in 0..Len(list)
      BY <1>2, <1>4
    <2>2. f[i + 1] = Entry(list, i + 1, f[i])
      <3>1. (i + 1) - 1 = i /\ i + 1 # 0
        OBVIOUS
      <3>2. QED
        BY <1>2, <2>1, <3>1 DEF IsLoop
    <2>3. QED
      BY <2>1, <2>2, PlanningGoesOn
  <1>5. Nat \subseteq S
    <2> HIDE DEF S
    <2>1. QED
      BY <1>3, <1>4, SetInduction
  <1>6. Planning(list, f[Len(list)], Len(list))
    BY <1>2, <1>5
  <1>7. QED
    BY <1>1, <1>6 DEF Planned

-----------------------------------------------------------------------------
(* The devices *)

EnvTyped == env \in [build : Builds, devices : DeviceLists \cup {Null}, mode : Modes]

LEMMA ListTyped ==
  ASSUME EnvTyped, env.devices # Null
  PROVE  env.devices \in Seq(STRING)
  BY StartupAssumption DEF EnvTyped

LEMMA FirstIsFirst ==
  ASSUME NEW list \in Seq(STRING), NEW name, name # "", IsFirstName(list, Len(list), name)
  PROVE  FirstName(list) = name
  <1>1. PICK j \in 1..Len(list) : list[j] = name /\ \A k \in 1..(j - 1) : list[k] = ""
    BY DEF IsFirstName
  <1>2. PICK i : i = CHOOSE x \in DOMAIN list : list[x] # "" /\ \A k \in 1..(x - 1) : list[k] = ""
    OBVIOUS
  <1>3. \E x \in DOMAIN list : list[x] # "" /\ \A k \in 1..(x - 1) : list[k] = ""
    BY <1>1, LenProperties
  <1>4. /\ i \in DOMAIN list /\ list[i] # ""
        /\ \A k \in 1..(i - 1) : list[k] = ""
    BY <1>2, <1>3
  <1>5. i \in Nat \ {0} /\ j \in Nat \ {0}
    <2>1. DOMAIN list = 1..Len(list) /\ Len(list) \in Nat
      BY LenProperties
    <2>2. i \in 1..Len(list)
      BY <1>4, <2>1
    <2>3. QED
      BY ONLY <2>1, <2>2, j \in 1..Len(list)
  <1>6. ~(i < j)
    <2>1. i < j => i \in 1..(j - 1)
      BY ONLY <1>5
    <2>2. QED
      BY <1>1, <1>4, <2>1
  <1>7. ~(j < i)
    <2>1. j < i => j \in 1..(i - 1)
      BY ONLY <1>5
    <2>2. QED
      BY <1>1, <1>4, <2>1
  <1>8. i = j
    BY ONLY <1>5, <1>6, <1>7
  <1>9. QED
    BY <1>1, <1>2, <1>8 DEF FirstName

(* What is planned is what was asked for, if all of it can be served.      *)
LEMMA PlanIsWhole ==
  ASSUME EnvTyped, PlanDevices # << >>
  PROVE  /\ PlanDevices \in Seq(Device) /\ IsInjective(PlanDevices)
         /\ \A name \in Range(PlanDevices) : Parsed(name) = "ok"
         /\ Named => /\ Range(PlanDevices) = Range(env.devices) \ {""}
                     /\ IsFirstName(env.devices, Len(env.devices), PlanDevices[1])
                     /\ PlanDevices[1] = FirstName(env.devices)
         /\ ~Named => Len(PlanDevices) = 1
  <1>1. CASE Named
    <2>1. PICK list \in Seq(STRING) : list = env.devices
      BY <1>1, ListTyped DEF Named
    <2>2. PICK planned : planned = Planned(list)
      OBVIOUS
    <2>3. Planning(list, planned, Len(list))
      BY <2>2, PlannedIsWhole
    <2>4. /\ PlanDevices = planned
          /\ \A name \in Range(list) \ {""} : Parsed(name) = "ok"
      BY <1>1, <2>1, <2>2 DEF PlanDevices
    <2>5. Range(list) \ {""} = NamesTo(list, Len(list))
      <3>1. DOMAIN list = 1..Len(list)
        BY LenProperties
      <3>2. QED
        BY <3>1 DEF Range, NamesTo
    <2>6. /\ planned \in Seq(STRING) /\ IsInjective(planned)
          /\ Range(planned) = Range(list) \ {""}
          /\ IsFirstName(list, Len(list), planned[1])
      BY <2>3, <2>4, <2>5 DEF Planning
    <2>7. \A name \in Range(planned) : Parsed(name) = "ok" /\ name \in Device
      BY <2>4, <2>6 DEF Parsed
    <2>8. planned \in Seq(Device)
      <3>1. DOMAIN planned = 1..Len(planned) /\ Len(planned) \in Nat
        BY <2>6, LenProperties
      <3>2. \A i \in 1..Len(planned) : planned[i] \in Device
        BY <2>7, <3>1 DEF Range
      <3>3. planned \in [1..Len(planned) -> STRING]
        BY <2>6, LenProperties
      <3>4. planned \in [1..Len(planned) -> Device]
        BY <3>2, <3>3
      <3>5. QED
        BY <3>1, <3>4
    <2>9. planned[1] = FirstName(list)
      <3>1. Len(planned) \in Nat \ {0}
        BY <2>4, <2>6, EmptySeq
      <3>2. planned[1] \in Range(planned)
        <4>1. 1 \in DOMAIN planned
          <5>1. DOMAIN planned = 1..Len(planned)
            BY <2>6, LenProperties
          <5>2. QED
            BY <3>1, <5>1
        <4>2. QED
          BY <4>1 DEF Range
      <3>3. planned[1] # ""
        BY <2>6, <3>2
      <3>4. QED
        BY <2>6, <3>3, FirstIsFirst
    <2>10. QED
      BY <1>1, <2>1, <2>4, <2>6, <2>7, <2>8, <2>9
  <1>2. CASE ~Named
    <2>1. PICK name : name = DeviceFromMode
      OBVIOUS
    <2>2. PlanDevices = <<name>> /\ Parsed(name) = "ok" /\ name \in Device
      BY <1>2, <2>1 DEF PlanDevices, Parsed
    <2>3. /\ <<name>> \in Seq(Device) /\ IsInjective(<<name>>) /\ Range(<<name>>) = {name}
          /\ Len(<<name>>) = 1
      BY <2>2 DEF Range, IsInjective
    <2>4. QED
      BY <1>2, <2>2, <2>3
  <1>3. QED
    BY <1>1, <1>2

LEMMA PlanIsFixed ==
  ASSUME env' = env
  PROVE  PlanDevices' = PlanDevices
  BY DEF PlanDevices, Named, Parsed, IsCompiledIn, DeviceFromMode

(* Loading an engine does not change the order.                            *)
LEMMA HeadMoves ==
  ASSUME NEW left \in Seq(Device), NEW right \in Seq(Device), right # << >>
  PROVE  /\ Append(left, Head(right)) \in Seq(Device) /\ Tail(right) \in Seq(Device)
         /\ Append(left, Head(right)) # << >>
         /\ Append(left, Head(right)) \o Tail(right) = left \o right
  <1>1. PICK first \in Device : first = Head(right)
    BY HeadTailProperties
  <1>2. PICK rest \in Seq(Device) : rest = Tail(right)
    BY HeadTailProperties
  <1>3. right = <<first>> \o rest
    <2>1. /\ Len(rest) = Len(right) - 1 /\ Len(right) \in Nat \ {0}
          /\ right[1] = first
          /\ \A i \in 1..(Len(right) - 1) : rest[i] = right[i + 1]
      BY <1>1, <1>2, HeadTailProperties, EmptySeq
    <2>2. /\ <<first>> \in Seq(Device) /\ Len(<<first>>) = 1 /\ <<first>>[1] = first
      OBVIOUS
    <2>3. PICK both \in Seq(Device) : both = <<first>> \o rest
      BY <2>2, ConcatProperties
    <2>4. /\ Len(both) = 1 + Len(rest)
          /\ \A i \in 1..(1 + Len(rest)) :
               both[i] = IF i <= 1 THEN <<first>>[i] ELSE rest[i - 1]
      BY <2>2, <2>3, ConcatProperties
    <2>5. \A i \in 1..Len(right) : both[i] = right[i]
      <3>1. ASSUME NEW i \in 1..Len(right), i # 1 PROVE both[i] = right[i]
        <4>1. PICK m \in 1..(Len(right) - 1) : m = i - 1 /\ m + 1 = i
          BY <2>1, <3>1
        <4>2. rest[m] = right[i]
          BY <2>1, <4>1
        <4>3. ~(i <= 1) /\ i \in 1..(1 + Len(rest))
          BY <2>1, <3>1
        <4>4. QED
          BY <2>4, <4>1, <4>2, <4>3
      <3>2. both[1] = right[1]
        BY <2>1, <2>2, <2>4
      <3>3. QED
        BY <3>1, <3>2
    <2>6. Len(both) = Len(right)
      BY <2>1, <2>4
    <2>7. both = right
      BY <2>5, <2>6, SeqEqual
    <2>8. QED
      BY <2>3, <2>7
  <1>4. Append(left, first) = left \o <<first>> /\ <<first>> \in Seq(Device)
    BY AppendIsConcat
  <1>5. (left \o <<first>>) \o rest = left \o (<<first>> \o rest)
    BY <1>4, ConcatAssociative
  <1>6. Append(left, first) \in Seq(Device) /\ Append(left, first) # << >>
    BY AppendProperties
  <1>7. QED
    BY <1>1, <1>2, <1>3, <1>4, <1>5, <1>6

-----------------------------------------------------------------------------
(* What holds of the server and its request, whatever step comes next      *)

(* Engines loaded and planned are together what was asked for. *)
Loading ==
  /\ server.at \in {"gates", "models", "plan"} => server.engines = << >>
  /\ server.at = "load" => /\ server.planned # << >>
                           /\ server.engines \o server.planned = PlanDevices
  /\ server.at \in {"bind", "serving"} => /\ server.engines = PlanDevices
                                         /\ server.engines # << >>

(* A failure with the input blames it on what was sent. *)
InputIsJudged(class, r) ==
  LET input == IF r.samples_b64 # "none" THEN r.samples_b64 ELSE r.wav_path IN
  /\ class = "audio_decode" => r.wav_path = "bad" /\ r.samples_b64 = "none"
  /\ class = "invalid_input" => r.endpoint = "/embed_window" /\ input # "good"
  /\ class \in {"ok", "inference"} => input = "good"

StatusOf(class) ==
  CASE class = "ok" -> 200 [] class = "bad_device" -> 400
    [] class = "panic" -> 500 [] OTHER -> 422
LevelOf(class) ==
  IF class = "ok" THEN "info" ELSE IF StatusOf(class) >= 500 THEN "error" ELSE "warn"

(* The job of a handler that is not yet admitted, and what a job may tell. *)
JobFits ==
  /\ request.at # "none" => server.at = "serving"
  /\ request.at \in {"none", "arrived", "admitting", "rejected"} => job.at = "none"
  /\ job.at = "inference" => InputError(request.of) = "none"
  /\ job.at = "done" => /\ job.class \notin {"none", "bad_device"}
                        /\ InputIsJudged(job.class, request.of)

(* The answer a handler is about to give, or has given. *)
Answering ==
  /\ request.at \in {"finishing", "logged", "answered"} =>
       /\ request.class # "none" /\ request.status = StatusOf(request.class)
       /\ InputIsJudged(request.class, request.of)
       /\ request.class = "bad_device" =>
            /\ job.at = "none" /\ request.of.device # Null
            /\ request.of.device \notin Range(server.engines)
  /\ record = IF request.at \in {"logged", "answered"}
              THEN [level |-> LevelOf(request.class), class |-> request.class,
                    status |-> request.status]
              ELSE NoRecord

StartupInv == StartupTypeOK /\ Loading /\ JobFits /\ Answering

LEMMA StartupTyped ==
  ASSUME StartupTypeOK
  PROVE  /\ EnvTyped
         /\ server = [at |-> server.at, code |-> server.code, models |-> server.models,
                      planned |-> server.planned, engines |-> server.engines,
                      inflight |-> server.inflight, gate |-> server.gate, cpu_gate |-> server.cpu_gate]
         /\ server.planned \in Seq(Device) /\ server.engines \in Seq(Device)
         /\ request = [at |-> request.at, of |-> request.of, device |-> request.device,
                       class |-> request.class, status |-> request.status]
         /\ request.of \in Requests /\ request.device \in Device \cup {Null}
         /\ request.class \in Classes /\ request.status \in Nat
         /\ job = [at |-> job.at, device |-> job.device, class |-> job.class]
         /\ job.device \in Device \cup {Null} /\ job.class \in Classes
  BY DEF StartupTypeOK, EnvTyped

LEMMA NoAnswerTyped ==
  /\ NoRequest \in Requests
  /\ NoAnswer \in [at : {"none"}, of : Requests, device : Device \cup {Null},
                   class : Classes, status : Nat]
  /\ NoJob \in [at : {"none"}, device : Device \cup {Null}, class : Classes]
  /\ NoRecord \in [level : {"none"}, class : Classes, status : Nat]
  <1>1. NoRequest \in Requests
    BY DEF NoRequest, Requests, Endpoints, Asked, Media
  <1>2. QED
    BY <1>1 DEF NoAnswer, NoJob, NoRecord, Classes

LEMMA StartupInitInv == StartupInit => StartupInv
  <1> SUFFICES ASSUME StartupInit PROVE StartupInv
    OBVIOUS
  <1>1. /\ env \in [build : Builds, devices : DeviceLists \cup {Null}, mode : Modes]
        /\ server = [at |-> "gates", code |-> "none", models |-> "none", planned |-> << >>,
                     engines |-> << >>, inflight |-> Null, gate |-> 0, cpu_gate |-> Null]
        /\ request = NoAnswer /\ job = NoJob /\ record = NoRecord
    BY DEF StartupInit
  <1>2. << >> \in Seq(Device)
    OBVIOUS
  <1>3. StartupTypeOK
    BY <1>1, <1>2, NoAnswerTyped DEF StartupTypeOK, Limits
  <1>4. Loading
    BY <1>1 DEF Loading
  <1>5. JobFits /\ Answering
    BY <1>1, NoAnswerTyped DEF JobFits, Answering
  <1>6. QED
    BY <1>3, <1>4, <1>5 DEF StartupInv

-----------------------------------------------------------------------------
(* run() *)

(* Until it serves, the server has no request. *)
LEMMA NotServing ==
  ASSUME StartupInv, server.at # "serving", UNCHANGED notServing
  PROVE  /\ env' = env /\ EnvTyped /\ PlanDevices' = PlanDevices
         /\ JobFits' /\ Answering'
  <1>1. /\ request.at = "none" /\ job.at = "none" /\ record = NoRecord
        /\ request' = request /\ job' = job /\ record' = record /\ env' = env
    BY DEF StartupInv, JobFits, Answering, notServing
  <1>2. EnvTyped /\ PlanDevices' = PlanDevices
    BY <1>1, StartupTyped, PlanIsFixed DEF StartupInv
  <1>3. JobFits' /\ Answering'
    BY <1>1 DEF JobFits, Answering
  <1>4. QED
    BY <1>1, <1>2, <1>3

LEMMA StopInv ==
  ASSUME StartupInv, server.at # "serving", UNCHANGED notServing,
         NEW code \in {"FAILURE", "MODELS_UNUSABLE"}, Stop(code)
  PROVE  StartupInv'
  <1>1. server' = [at |-> "ended", code |-> code, models |-> server.models,
                   planned |-> server.planned, engines |-> server.engines,
                   inflight |-> server.inflight, gate |-> server.gate, cpu_gate |-> server.cpu_gate]
    BY StartupTyped DEF StartupInv, Stop
  <1>2. StartupTypeOK'
    BY <1>1 DEF StartupInv, StartupTypeOK, notServing
  <1>3. Loading'
    BY <1>1 DEF Loading
  <1>4. QED
    BY <1>2, <1>3, NotServing DEF StartupInv

LEMMA StartStepInv ==
  ASSUME StartupInv, StartStep
  PROVE  StartupInv'
  <1>1. /\ server = [at |-> server.at, code |-> server.code, models |-> server.models,
                     planned |-> server.planned, engines |-> server.engines,
                     inflight |-> server.inflight, gate |-> server.gate, cpu_gate |-> server.cpu_gate]
        /\ server.planned \in Seq(Device) /\ server.engines \in Seq(Device)
        /\ StartupTypeOK /\ Loading /\ EnvTyped
    BY StartupTyped DEF StartupInv
  <1>2. UNCHANGED notServing /\ server.at # "serving"
    BY DEF StartStep, ReadLimits, StartupGate, Plan, LoadEngine, Bind
  <1>3. PlanDevices' = PlanDevices /\ JobFits' /\ Answering'
    BY <1>2, NotServing
  <1>4. CASE ReadLimits
    <2>1. PICK inflight \in Limits, cpu \in Limits :
            server' = [at |-> "models", code |-> server.code, models |-> server.models,
                       planned |-> server.planned, engines |-> server.engines,
                       inflight |-> inflight, gate |-> Positive(inflight, 2), cpu_gate |-> Positive(cpu, Null)]
      BY <1>1, <1>4 DEF ReadLimits
    <2>2. Positive(inflight, 2) \in Nat /\ Positive(cpu, Null) \in Nat \cup {Null}
      BY DEF Positive, Limits
    <2>3. StartupTypeOK'
      BY <1>1, <1>2, <2>1, <2>2 DEF StartupTypeOK, notServing
    <2>4. Loading'
      BY <1>1, <1>4, <2>1 DEF Loading, ReadLimits
    <2>5. QED
      BY <1>3, <2>3, <2>4 DEF StartupInv
  <1>5. CASE StartupGate
    <2>1. CASE Stop("MODELS_UNUSABLE")
      BY <1>2, <2>1, StopInv
    <2>2. ASSUME NEW state \in {"verified", "stale", "unverified", "failed"},
                 server' = [server EXCEPT !.at = "plan", !.models = state]
          PROVE  StartupInv'
      <3>1. server' = [at |-> "plan", code |-> server.code, models |-> state,
                       planned |-> server.planned, engines |-> server.engines,
                       inflight |-> server.inflight, gate |-> server.gate, cpu_gate |-> server.cpu_gate]
        BY <1>1, <2>2
      <3>2. StartupTypeOK'
        BY <1>1, <1>2, <3>1 DEF StartupTypeOK, notServing
      <3>3. Loading'
        BY <1>1, <1>5, <3>1 DEF Loading, StartupGate
      <3>4. QED
        BY <1>3, <3>2, <3>3 DEF StartupInv
    <2>3. QED
      BY <1>5, <2>1, <2>2 DEF StartupGate
  <1>6. CASE Plan
    <2>1. CASE PlanDevices = << >>
      BY <1>2, <1>6, <2>1, StopInv DEF Plan
    <2>2. CASE PlanDevices # << >>
      <3>1. server' = [at |-> "load", code |-> server.code, models |-> server.models,
                       planned |-> PlanDevices, engines |-> server.engines,
                       inflight |-> server.inflight, gate |-> server.gate, cpu_gate |-> server.cpu_gate]
        BY <1>1, <1>6, <2>2 DEF Plan
      <3>2. PlanDevices \in Seq(Device)
        BY <1>1, <2>2, PlanIsWhole
      <3>3. StartupTypeOK'
        BY <1>1, <1>2, <3>1, <3>2 DEF StartupTypeOK, notServing
      <3>4. << >> \o PlanDevices = PlanDevices
        BY <3>2, ConcatEmptySeq
      <3>5. Loading'
        BY <1>1, <1>3, <1>6, <2>2, <3>1, <3>4 DEF Loading, Plan
      <3>6. QED
        BY <1>3, <3>3, <3>5 DEF StartupInv
    <2>3. QED
      BY <2>1, <2>2
  <1>7. CASE LoadEngine
    <2>1. CASE Stop("FAILURE")
      BY <1>2, <2>1, StopInv
    <2>2. CASE ~Stop("FAILURE")
      <3>1. PICK rest : rest = Tail(server.planned)
        OBVIOUS
      <3>2. PICK loaded : loaded = Append(server.engines, Head(server.planned))
        OBVIOUS
      <3>3. PICK next \in {"bind", "load"} :
              /\ next = IF rest = << >> THEN "bind" ELSE "load"
              /\ server' = [at |-> next, code |-> server.code, models |-> server.models,
                            planned |-> rest, engines |-> loaded,
                            inflight |-> server.inflight, gate |-> server.gate, cpu_gate |-> server.cpu_gate]
        BY <1>1, <1>7, <2>2, <3>1, <3>2 DEF LoadEngine
      <3>4. server.planned # << >> /\ server.engines \o server.planned = PlanDevices
        BY <1>1, <1>7 DEF Loading, LoadEngine
      <3>5. /\ loaded \in Seq(Device) /\ rest \in Seq(Device) /\ loaded # << >>
            /\ loaded \o rest = PlanDevices
        <4>1. PICK left \in Seq(Device) : left = server.engines
          BY <1>1
        <4>2. PICK right \in Seq(Device) : right = server.planned
          BY <1>1
        <4>3. /\ Append(left, Head(right)) \in Seq(Device) /\ Tail(right) \in Seq(Device)
              /\ Append(left, Head(right)) # << >>
              /\ Append(left, Head(right)) \o Tail(right) = left \o right
          BY <3>4, <4>2, HeadMoves
        <4>4. QED
          BY <3>1, <3>2, <3>4, <4>1, <4>2, <4>3
      <3>6. StartupTypeOK'
        BY <1>1, <1>2, <3>3, <3>5 DEF StartupTypeOK, notServing
      <3>7. rest = << >> => loaded = PlanDevices
        BY <3>5, ConcatEmptySeq
      <3>8. Loading'
        BY <1>3, <3>3, <3>5, <3>7 DEF Loading
      <3>9. QED
        BY <1>3, <3>6, <3>8 DEF StartupInv
    <2>3. QED
      BY <2>1, <2>2
  <1>8. CASE Bind
    <2>1. CASE Stop("FAILURE")
      BY <1>2, <2>1, StopInv
    <2>2. CASE server' = [server EXCEPT !.at = "serving"]
      <3>1. server' = [at |-> "serving", code |-> server.code, models |-> server.models,
                       planned |-> server.planned, engines |-> server.engines,
                       inflight |-> server.inflight, gate |-> server.gate, cpu_gate |-> server.cpu_gate]
        BY <1>1, <2>2
      <3>2. StartupTypeOK'
        BY <1>1, <1>2, <3>1 DEF StartupTypeOK, notServing
      <3>3. Loading'
        BY <1>1, <1>3, <1>8, <3>1 DEF Loading, Bind
      <3>4. QED
        BY <1>3, <3>2, <3>3 DEF StartupInv
    <2>3. QED
      BY <1>8, <2>1, <2>2 DEF Bind
  <1>9. QED
    BY <1>4, <1>5, <1>6, <1>7, <1>8 DEF StartStep

-----------------------------------------------------------------------------
(* A request *)

LEMMA RequestFrame ==
  ASSUME StartupInv, UNCHANGED serving
  PROVE  Loading' /\ PlanDevices' = PlanDevices
  <1>1. env' = env /\ server' = server
    BY DEF serving
  <1>2. PlanDevices' = PlanDevices
    BY <1>1, PlanIsFixed
  <1>3. QED
    BY <1>1, <1>2 DEF StartupInv, Loading

(* The step before and after a request, and the end of the server. *)
LEMMA FreshInv ==
  ASSUME StartupInv, NextRequest \/ KillServer
  PROVE  StartupInv'
  <1>1. request' = NoAnswer /\ job' = NoJob /\ record' = NoRecord /\ env' = env
    BY DEF NextRequest, KillServer, serving
  <1>2. JobFits' /\ Answering'
    BY <1>1 DEF JobFits, Answering, NoAnswer, NoJob
  <1>3. server' \in {server, [at |-> "ended", code |-> "KILLED", models |-> server.models,
                             planned |-> server.planned, engines |-> server.engines,
                             inflight |-> server.inflight, gate |-> server.gate, cpu_gate |-> server.cpu_gate]}
    BY StartupTyped DEF StartupInv, NextRequest, KillServer, Stop, serving
  <1>4. StartupTypeOK'
    BY <1>1, <1>3, NoAnswerTyped DEF StartupInv, StartupTypeOK
  <1>5. Loading'
    <2>1. CASE server' = server
      BY <1>1, <2>1, RequestFrame DEF serving
    <2>2. CASE server' # server
      <3>1. server'.at = "ended"
        BY <1>3, <2>2
      <3>2. QED
        BY <3>1 DEF Loading
    <2>3. QED
      BY <2>1, <2>2
  <1>6. QED
    BY <1>2, <1>4, <1>5 DEF StartupInv

LEMMA ArriveInv ==
  ASSUME StartupInv, Arrive \/ Refused
  PROVE  StartupInv'
  <1>1. /\ server.at = "serving" /\ request.at = "none" /\ job.at = "none" /\ record = NoRecord
        /\ UNCHANGED <<serving, job, record>> /\ StartupTypeOK
    BY DEF StartupInv, JobFits, Answering, Arrive, Refused
  <1>2. /\ request' \in [at : {"arrived", "rejected"}, of : Requests, device : {Null},
                         class : {"none"}, status : Nat]
    <2>1. CASE Arrive
      <3>1. PICK r \in Requests : request' = [at |-> "arrived", of |-> r, device |-> Null,
                                             class |-> "none", status |-> 0]
        BY <2>1 DEF Arrive, NoAnswer
      <3>2. QED
        BY <3>1
    <2>2. CASE Refused
      <3>1. PICK status \in {400, 415, 422} :
              request' = [NoAnswer EXCEPT !.at = "rejected", !.status = status]
        BY <2>2 DEF Refused
      <3>2. request' = [at |-> "rejected", of |-> NoRequest, device |-> Null,
                        class |-> "none", status |-> status]
        BY <3>1 DEF NoAnswer
      <3>3. QED
        BY <3>2, NoAnswerTyped
    <2>3. QED
      BY <2>1, <2>2
  <1>3. StartupTypeOK'
    BY <1>1, <1>2 DEF StartupTypeOK, serving, Classes
  <1>4. JobFits' /\ Answering'
    BY <1>1, <1>2 DEF JobFits, Answering, serving
  <1>5. QED
    BY <1>1, <1>3, <1>4, RequestFrame DEF StartupInv

(* The handler has an answer. *)
LEMMA AnswerInv ==
  ASSUME StartupInv, NEW class \in Classes \ {"none"}, Answer(class),
         request.at \in {"arrived", "joining"}, UNCHANGED <<serving, job, record>>,
         InputIsJudged(class, request.of),
         class = "bad_device" => /\ job.at = "none" /\ request.of.device # Null
                                 /\ request.of.device \notin Range(server.engines)
  PROVE  StartupInv'
  <1>1. /\ StartupTypeOK /\ server.at = "serving" /\ record = NoRecord
        /\ job.at = "inference" => InputError(request.of) = "none"
        /\ job.at = "done" => /\ job.class \notin {"none", "bad_device"}
                              /\ InputIsJudged(job.class, request.of)
    BY DEF StartupInv, JobFits, Answering
  <1>2. request' = [at |-> "finishing", of |-> request.of, device |-> request.device,
                    class |-> class, status |-> StatusOf(class)]
    <2>1. request = [at |-> request.at, of |-> request.of, device |-> request.device,
                     class |-> request.class, status |-> request.status]
      BY <1>1, StartupTyped
    <2>2. request' = [request EXCEPT !.at = "finishing", !.class = class,
                                     !.status = StatusOf(class)]
      BY DEF Answer, StatusOf
    <2>3. QED
      BY <2>1, <2>2
  <1>3. StartupTypeOK'
    <2>1. StatusOf(class) \in Nat
      BY DEF StatusOf
    <2>2. request' \in [at : {"finishing"}, of : Requests, device : Device \cup {Null},
                        class : Classes, status : Nat]
      BY <1>1, <1>2, <2>1, StartupTyped
    <2>3. QED
      BY <1>1, <2>2 DEF StartupTypeOK, serving
  <1>4. JobFits'
    BY <1>1, <1>2 DEF JobFits, serving
  <1>5. Answering'
    BY <1>1, <1>2 DEF Answering, serving
  <1>6. QED
    BY <1>3, <1>4, <1>5, RequestFrame DEF StartupInv

LEMMA ResolveDeviceInv ==
  ASSUME StartupInv, ResolveDevice
  PROVE  StartupInv'
  <1>1. /\ StartupTypeOK /\ Loading /\ server.at = "serving" /\ record = NoRecord
        /\ request.at = "arrived" /\ job.at = "none" /\ UNCHANGED <<serving, job, record>>
        /\ server.engines \in Seq(Device) /\ server.engines # << >>
    BY StartupTyped DEF StartupInv, JobFits, Answering, Loading, ResolveDevice
  <1>2. PICK name : name = request.of.device
    OBVIOUS
  <1>3. CASE Resolution(name) # "ok"
    <2>1. name # Null /\ name \notin Range(server.engines)
      <3>1. \A device \in Range(server.engines) : Parsed(device) = "ok"
        BY <1>1, StartupTyped, PlanIsWhole DEF Loading
      <3>2. QED
        BY <1>3, <3>1 DEF Resolution
    <2>2. InputIsJudged("bad_device", request.of)
      BY DEF InputIsJudged
    <2>3. Answer("bad_device") /\ "bad_device" \in Classes \ {"none"}
      BY <1>2, <1>3 DEF ResolveDevice, Classes
    <2>4. QED
      BY <1>1, <1>2, <2>1, <2>2, <2>3, AnswerInv
  <1>4. CASE Resolution(name) = "ok"
    <2>1. PICK device : device = IF name = Null THEN DefaultDevice ELSE name
      OBVIOUS
    <2>2. device \in Device
      <3>1. CASE name = Null
        <4>1. Len(server.engines) \in Nat \ {0}
          BY <1>1, EmptySeq
        <4>2. server.engines[1] \in Device
          BY <1>1, <4>1, ElementOfSeq
        <4>3. QED
          BY <2>1, <3>1, <4>2 DEF DefaultDevice
      <3>2. CASE name # Null
        BY <1>4, <2>1, <3>2 DEF Resolution, Parsed
      <3>3. QED
        BY <3>1, <3>2
    <2>3. request' = [at |-> "admitting", of |-> request.of, device |-> device,
                      class |-> request.class, status |-> request.status]
      <3>1. request = [at |-> request.at, of |-> request.of, device |-> request.device,
                       class |-> request.class, status |-> request.status]
        BY <1>1, StartupTyped
      <3>2. request' = [request EXCEPT !.at = "admitting", !.device = device]
        BY <1>2, <1>4, <2>1 DEF ResolveDevice
      <3>3. QED
        BY <3>1, <3>2
    <2>4. StartupTypeOK'
      <3>1. request' \in [at : {"admitting"}, of : Requests, device : Device \cup {Null},
                          class : Classes, status : Nat]
        BY <1>1, <2>2, <2>3, StartupTyped
      <3>2. QED
        BY <1>1, <3>1 DEF StartupTypeOK, serving
    <2>5. JobFits' /\ Answering'
      BY <1>1, <2>3 DEF JobFits, Answering, serving
    <2>6. QED
      BY <1>1, <2>4, <2>5, RequestFrame DEF StartupInv
  <1>5. QED
    BY <1>3, <1>4

LEMMA AdmitInv ==
  ASSUME StartupInv, Admit
  PROVE  StartupInv'
  <1>1. /\ StartupTypeOK /\ server.at = "serving" /\ record = NoRecord
        /\ request.at = "admitting" /\ job.at = "none" /\ UNCHANGED <<serving, record>>
        /\ job' = [at |-> "input", device |-> request.device, class |-> "none"]
    BY DEF StartupInv, JobFits, Answering, Admit
  <1>2. request' = [at |-> "joining", of |-> request.of, device |-> request.device,
                    class |-> request.class, status |-> request.status]
    BY <1>1, StartupTyped DEF Admit
  <1>3. StartupTypeOK'
    <2>1. /\ request' \in [at : {"joining"}, of : Requests, device : Device \cup {Null},
                           class : Classes, status : Nat]
          /\ job' \in [at : {"input"}, device : Device \cup {Null}, class : Classes]
      BY <1>1, <1>2, StartupTyped DEF Classes
    <2>2. QED
      BY <1>1, <2>1 DEF StartupTypeOK, serving
  <1>4. JobFits' /\ Answering'
    BY <1>1, <1>2 DEF JobFits, Answering, serving
  <1>5. QED
    BY <1>1, <1>3, <1>4, RequestFrame DEF StartupInv

LEMMA InputErrorIsFair ==
  ASSUME NEW r \in Requests
  PROVE  /\ InputError(r) \in {"none", "invalid_input", "audio_decode"}
         /\ InputIsJudged(InputError(r), r) /\ InputIsJudged("panic", r)
         /\ InputError(r) = "none" =>
              InputIsJudged("ok", r) /\ InputIsJudged("inference", r)
  <1>1. /\ r.samples_b64 \in Media /\ r.wav_path \in Media /\ r.endpoint \in Endpoints
        /\ r.endpoint = "/diarize" => r.samples_b64 = "none" /\ r.wav_path # "none"
    BY DEF Requests
  <1>2. QED
    BY <1>1 DEF InputError, InputIsJudged, Media, Endpoints

(* The job is not the handler's: it goes on when the handler is dropped. *)
LEMMA JobInv ==
  ASSUME StartupInv, JobStep
  PROVE  StartupInv'
  <1>1. /\ StartupTypeOK /\ Answering /\ JobFits /\ UNCHANGED <<serving, request, record>>
        /\ job.at \in {"input", "inference"}
        /\ job = [at |-> job.at, device |-> job.device, class |-> job.class]
        /\ job.device \in Device \cup {Null} /\ job.class \in Classes
        /\ request.of \in Requests
    BY StartupTyped DEF StartupInv, JobStep, LoadInput, Infer
  <1>2. \/ /\ InputError(request.of) = "none"
           /\ job' = [at |-> "inference", device |-> job.device, class |-> job.class]
        \/ \E class \in Classes \ {"none", "bad_device"} :
             /\ InputIsJudged(class, request.of)
             /\ job' = [at |-> "done", device |-> job.device, class |-> class]
    <2>1. CASE LoadInput
      BY <1>1, <2>1, InputErrorIsFair DEF LoadInput, JobDone, Classes
    <2>2. CASE Infer
      <3>1. job.at = "inference" /\ InputError(request.of) = "none"
        BY <1>1, <2>2 DEF Infer, JobFits
      <3>2. PICK class \in {"ok", "inference", "panic"} :
              job' = [at |-> "done", device |-> job.device, class |-> class]
        BY <1>1, <2>2 DEF Infer, JobDone
      <3>3. InputIsJudged(class, request.of) /\ class \in Classes \ {"none", "bad_device"}
        BY <1>1, <3>1, InputErrorIsFair DEF Classes
      <3>4. QED
        BY <3>2, <3>3
    <2>3. QED
      BY <2>1, <2>2 DEF JobStep
  <1>3. /\ job' \in [at : {"inference", "done"}, device : Device \cup {Null}, class : Classes]
        /\ job'.at = "inference" => InputError(request.of) = "none"
        /\ job'.at = "done" => /\ job'.class \notin {"none", "bad_device"}
                               /\ InputIsJudged(job'.class, request.of)
    BY <1>1, <1>2
  <1>4. StartupTypeOK'
    BY <1>1, <1>3 DEF StartupTypeOK, serving
  <1>5. JobFits'
    BY <1>1, <1>3 DEF JobFits, serving
  <1>6. Answering'
    BY <1>1 DEF Answering, serving
  <1>7. QED
    BY <1>1, <1>4, <1>5, <1>6, RequestFrame DEF StartupInv

LEMMA JoinInv ==
  ASSUME StartupInv, Join
  PROVE  StartupInv'
  <1>1. /\ StartupTypeOK /\ request.at = "joining" /\ Answer(job.class)
        /\ UNCHANGED <<serving, job, record>> /\ job.class \in Classes
        /\ job.class \notin {"none", "bad_device"} /\ InputIsJudged(job.class, request.of)
    BY StartupTyped DEF StartupInv, JobFits, Join
  <1>2. QED
    BY <1>1, AnswerInv

(* A step of the handler that leaves its answer as it is. *)
LEMMA HandlerMoves ==
  ASSUME StartupInv, NEW at \in {"logged", "answered", "dropped"},
         request' = [request EXCEPT !.at = at], UNCHANGED <<serving, job>>,
         request.at \notin {"none", "arrived", "rejected"},
         \/ at = "dropped" /\ record' = NoRecord
         \/ /\ request.at \in {"finishing", "logged"} /\ at # "dropped"
            /\ record' = [level |-> LevelOf(request.class), class |-> request.class,
                          status |-> request.status]
  PROVE  StartupInv'
  <1>1. /\ StartupTypeOK /\ JobFits /\ Answering /\ server.at = "serving"
    BY DEF StartupInv, JobFits
  <1>2. request' = [at |-> at, of |-> request.of, device |-> request.device,
                    class |-> request.class, status |-> request.status]
    BY <1>1, StartupTyped
  <1>3. StartupTypeOK'
    <2>1. request' \in [at : {"logged", "answered", "dropped"}, of : Requests,
                        device : Device \cup {Null}, class : Classes, status : Nat]
      BY <1>1, <1>2, StartupTyped
    <2>2. record' \in [level : {"none", "info", "warn", "error"}, class : Classes, status : Nat]
      BY <1>1, NoAnswerTyped, StartupTyped DEF LevelOf
    <2>3. QED
      BY <1>1, <2>1, <2>2 DEF StartupTypeOK, serving
  <1>4. JobFits'
    BY <1>1, <1>2 DEF JobFits, serving
  <1>5. Answering'
    BY <1>1, <1>2 DEF Answering, serving
  <1>6. QED
    BY <1>3, <1>4, <1>5, RequestFrame DEF StartupInv

LEMMA LastStepsInv ==
  ASSUME StartupInv, Finish \/ Respond \/ Disconnect
  PROVE  StartupInv'
  <1>1. Answering
    BY DEF StartupInv
  <1>2. CASE Finish
    <2>1. /\ request.status = StatusOf(request.class) /\ request.at = "finishing"
          /\ request' = [request EXCEPT !.at = "logged"] /\ UNCHANGED <<serving, job>>
          /\ record' = [class |-> request.class, status |-> request.status,
                        level |-> IF request.class = "ok" THEN "info"
                                  ELSE IF request.status >= 500 THEN "error" ELSE "warn"]
      BY <1>1, <1>2 DEF Finish, Answering
    <2>2. record' = [level |-> LevelOf(request.class), class |-> request.class,
                     status |-> request.status]
      BY <2>1 DEF LevelOf
    <2>3. QED
      BY <2>1, <2>2, HandlerMoves
  <1>3. CASE Respond
    <2>1. /\ request.at = "logged" /\ request' = [request EXCEPT !.at = "answered"]
          /\ UNCHANGED <<serving, job>>
          /\ record' = [level |-> LevelOf(request.class), class |-> request.class,
                        status |-> request.status]
      BY <1>1, <1>3 DEF Respond, Answering
    <2>2. QED
      BY <2>1, HandlerMoves
  <1>4. CASE Disconnect
    <2>1. /\ request.at \in {"admitting", "joining"}
          /\ request' = [request EXCEPT !.at = "dropped"]
          /\ UNCHANGED <<serving, job>> /\ record' = NoRecord
      BY <1>1, <1>4 DEF Disconnect, Answering
    <2>2. QED
      BY <2>1, HandlerMoves
  <1>5. QED
    BY <1>2, <1>3, <1>4

LEMMA StartupStepInv ==
  ASSUME StartupInv, StartupNext
  PROVE  StartupInv'
  <1>1. CASE StartStep
    BY <1>1, StartStepInv
  <1>2. CASE HandlerStep
    BY <1>2, ResolveDeviceInv, AdmitInv, JoinInv, LastStepsInv DEF HandlerStep
  <1>3. CASE JobStep
    BY <1>3, JobInv
  <1>4. CASE Arrive \/ Refused
    BY <1>4, ArriveInv
  <1>5. CASE NextRequest \/ KillServer
    BY <1>5, FreshInv
  <1>6. CASE Disconnect
    BY <1>6, LastStepsInv
  <1>7. QED
    BY <1>1, <1>2, <1>3, <1>4, <1>5, <1>6 DEF StartupNext

LEMMA StartupStutterInv ==
  ASSUME StartupInv, UNCHANGED startupVars
  PROVE  StartupInv'
  <1>1. /\ StartupTypeOK' /\ JobFits' /\ Answering'
    BY DEF startupVars, StartupInv, StartupTypeOK, JobFits, Answering
  <1>2. QED
    BY <1>1, RequestFrame DEF startupVars, serving, StartupInv

-----------------------------------------------------------------------------
(* What follows *)

LEMMA WholeFollows ==
  ASSUME StartupInv
  PROVE  ServingIsWhole
  <1> SUFFICES ASSUME server.at = "serving" PROVE ServingIsWhole
    BY DEF ServingIsWhole
  <1>1. EnvTyped /\ server.engines = PlanDevices /\ PlanDevices # << >>
    BY StartupTyped DEF StartupInv, Loading
  <1>2. PICK asked : asked = IF env.devices = Null THEN {} ELSE Range(env.devices) \ {""}
    OBVIOUS
  <1>3. Named <=> asked # {}
    BY <1>2 DEF Named, HasNames, Range
  <1>4. asked # {} => /\ Range(server.engines) = asked
                      /\ \E i \in DOMAIN env.devices :
                           /\ env.devices[i] = DefaultDevice
                           /\ \A j \in 1..(i - 1) : env.devices[j] = ""
    <2> SUFFICES ASSUME Named
                 PROVE  /\ Range(server.engines) = asked
                        /\ \E i \in DOMAIN env.devices :
                             /\ env.devices[i] = DefaultDevice
                             /\ \A j \in 1..(i - 1) : env.devices[j] = ""
      BY <1>3
    <2>1. /\ Range(server.engines) = Range(env.devices) \ {""}
          /\ IsFirstName(env.devices, Len(env.devices), DefaultDevice)
      BY <1>1, PlanIsWhole DEF DefaultDevice
    <2>2. DOMAIN env.devices = 1..Len(env.devices)
      BY <1>1, ListTyped, LenProperties DEF Named
    <2>3. QED
      BY <1>2, <2>1, <2>2 DEF IsFirstName, Named
  <1>5. asked = {} => Len(server.engines) = 1
    BY <1>1, <1>3, PlanIsWhole
  <1>6. IsInjective(server.engines)
    BY <1>1, PlanIsWhole
  <1>7. QED
    BY <1>2, <1>4, <1>5, <1>6 DEF ServingIsWhole

LEMMA NegotiationFollows ==
  ASSUME StartupInv
  PROVE  HealthNegotiates
  <1> SUFFICES ASSUME server.at = "serving", NEW name \in Device \cup (Asked \ {Null})
               PROVE  /\ name \in Range(server.engines) <=> Resolution(name) = "ok"
                      /\ name \in Supported \ Range(server.engines)
                           <=> Resolution(name) = "not_loaded"
    BY DEF HealthNegotiates, Health, DefaultDevice
  <1>1. \A device \in Range(server.engines) : Parsed(device) = "ok"
    BY StartupTyped, PlanIsWhole DEF StartupInv, Loading
  <1>2. name # Null
    <2>1. \A device \in Device : device # Null
      BY StartupAssumption
    <2>2. QED
      BY <2>1
  <1>3. name \in Supported <=> Parsed(name) = "ok"
    BY DEF Supported, Parsed
  <1>4. Parsed(name) # "not_loaded"
    BY DEF Parsed
  <1>5. QED
    BY <1>1, <1>2, <1>3, <1>4 DEF Resolution

LEMMA AgreementFollows ==
  ASSUME StartupInv
  PROVE  ProvisioningAgreesWithServing
  <1> SUFFICES ASSUME server.at = "serving", env.mode = Null, Named
               PROVE  ProvisioningMode = DefaultDevice
    BY DEF ProvisioningAgreesWithServing
  <1>1. EnvTyped /\ server.engines = PlanDevices /\ PlanDevices # << >>
    BY StartupTyped DEF StartupInv, Loading
  <1>2. DefaultDevice = FirstName(env.devices)
    BY <1>1, PlanIsWhole DEF DefaultDevice
  <1>3. Parsed(DefaultDevice) = "ok"
    <2>1. Len(server.engines) \in Nat \ {0} /\ DOMAIN server.engines = 1..Len(server.engines)
      BY <1>1, PlanIsWhole, EmptySeq, LenProperties
    <2>2. server.engines[1] \in Range(server.engines)
      BY <2>1 DEF Range
    <2>3. QED
      BY <1>1, <2>2, PlanIsWhole DEF DefaultDevice
  <1>4. QED
    BY <1>2, <1>3 DEF ProvisioningMode

LEMMA RecordFollows ==
  ASSUME StartupInv
  PROVE  AnswerIsRecorded
  <1> SUFFICES ASSUME request.at = "answered"
               PROVE  /\ record.status = request.status /\ record.class = request.class
                      /\ record.level = "error" <=> request.status >= 500
                      /\ record.level = "info" <=> request.status = 200
    BY DEF AnswerIsRecorded
  <1>1. /\ record = [level |-> LevelOf(request.class), class |-> request.class,
                     status |-> request.status]
        /\ request.status = StatusOf(request.class)
    BY DEF StartupInv, Answering
  <1>2. QED
    BY <1>1 DEF LevelOf, StatusOf

LEMMA OwnerFollows ==
  ASSUME StartupInv
  PROVE  ClassNamesTheOwner
  <1> SUFFICES ASSUME record.class # "none"
               PROVE  /\ InputIsJudged(record.class, request.of)
                      /\ record.class = "bad_device" =>
                           /\ request.of.device # Null /\ job.at = "none"
                           /\ request.of.device \notin Range(server.engines)
    BY DEF ClassNamesTheOwner, InputIsJudged
  <1>1. request.at \in {"logged", "answered"} /\ record.class = request.class
    BY DEF StartupInv, Answering, NoRecord
  <1>2. QED
    BY <1>1 DEF StartupInv, Answering

-----------------------------------------------------------------------------
(* The binary *)

MainInv == command \in Commands /\ StartupInv /\ ExportInv

LEMMA MainInitInv == Init => MainInv
  <1> SUFFICES ASSUME Init PROVE MainInv
    OBVIOUS
  <1>1. NotStarted \in Hosts
    BY DEF NotStarted, Hosts, Networks, Pythons
  <1>2. ExportInv
    BY <1>1, ExportInitInv DEF Init
  <1>3. QED
    BY <1>2, StartupInitInv DEF Init, MainInv

LEMMA MainStepInv == MainInv /\ [Next]_vars => MainInv'
  <1> SUFFICES ASSUME MainInv, [Next]_vars PROVE MainInv'
    OBVIOUS
  <1>1. CASE Serving(StartupNext)
    BY <1>1, StartupStepInv, ExportStutterInv DEF Serving, MainInv
  <1>2. CASE Exporting(ExportNext)
    BY <1>2, ExportStepInv, StartupStutterInv DEF Exporting, MainInv
  <1>3. CASE Misused
    <2>1. ExportInv'
      BY <1>3, EasyChecks DEF Misused, MainInv
    <2>2. StartupInv' /\ command' = command
      BY <1>3, StartupStutterInv DEF Misused, MainInv
    <2>3. QED
      BY <2>1, <2>2 DEF MainInv
  <1>4. CASE Ended \/ UNCHANGED vars
    BY <1>4, StartupStutterInv, ExportStutterInv DEF Ended, vars, MainInv
  <1>5. QED
    BY <1>1, <1>2, <1>3, <1>4 DEF Next

LEMMA MainAlways == Spec => []MainInv
  BY MainInitInv, MainStepInv, PTL DEF Spec

(* Types of the server, its request, the tool and its exporter (the states *)
(* of main.rs and exporter.rs): the tail never exceeds its limit.          *)
THEOREM MainTypes == Spec => []TypeOK
  <1>1. MainInv => TypeOK
    BY DEF MainInv, StartupInv, ExportInv, TypeOK
  <1>2. QED
    BY <1>1, MainAlways, PTL

(* preflight.rs tells a bad token from terms that were not accepted.       *)
THEOREM PreflightIsRight == Spec => []PreflightTellsApart
  <1>1. MainInv => PreflightTellsApart
    BY DEF MainInv, ExportInv
  <1>2. QED
    BY <1>1, MainAlways, PTL

(* provision leaves no exporter behind that still writes (run_export).     *)
THEOREM NoExporterIsLeft == Spec => []ExporterIsGone
  <1>1. MainInv => ExporterIsGone
    BY DEF MainInv, ExportInv
  <1>2. QED
    BY <1>1, MainAlways, PTL

(* Reading two pipes and waiting never fail a healthy export (run_export). *)
THEOREM FailuresAreEarned == Spec => []FailureIsEarned
  <1>1. MainInv => FailureIsEarned
    BY DEF MainInv, ExportInv
  <1>2. QED
    BY <1>1, MainAlways, PTL

(* The error message ends with the last lines of stderr (pump_err).        *)
THEOREM TailIsTheLast == Spec => []TailIsLast
  <1>1. MainInv => TailIsLast
    BY TailFollows DEF MainInv
  <1>2. QED
    BY <1>1, MainAlways, PTL

(* A server that serves has loaded all of DIAR_DEVICES and nothing else,   *)
(* each device once, the first as the default (plan_devices and load).     *)
THEOREM ServesTheWhole == Spec => []ServingIsWhole
  <1>1. MainInv => ServingIsWhole
    BY WholeFollows DEF MainInv
  <1>2. QED
    BY <1>1, MainAlways, PTL

(* What health_body lists is what resolve answers.                         *)
THEOREM HealthTellsTheTruth == Spec => []HealthNegotiates
  <1>1. MainInv => HealthNegotiates
    BY NegotiationFollows DEF MainInv
  <1>2. QED
    BY <1>1, MainAlways, PTL

(* provisioning_mode and plan_devices agree on the default device.         *)
THEOREM ProvisioningAgrees == Spec => []ProvisioningAgreesWithServing
  <1>1. MainInv => ProvisioningAgreesWithServing
    BY AgreementFollows DEF MainInv
  <1>2. QED
    BY <1>1, MainAlways, PTL

(* The record of RequestLog::finish says what the client was told.         *)
THEOREM RecordsTellTheAnswer == Spec => []AnswerIsRecorded
  <1>1. MainInv => AnswerIsRecorded
    BY RecordFollows DEF MainInv
  <1>2. QED
    BY <1>1, MainAlways, PTL

(* The class of a failure blames the caller only for what it sent          *)
(* (JobError, fail).                                                       *)
THEOREM ClassesNameTheOwner == Spec => []ClassNamesTheOwner
  <1>1. MainInv => ClassNamesTheOwner
    BY OwnerFollows DEF MainInv
  <1>2. QED
    BY <1>1, MainAlways, PTL

=============================================================================
