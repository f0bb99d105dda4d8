---------------------------- MODULE ExportProcess ----------------------------
(***************************************************************************)
(* provision-models from its first check to the end of the export, and     *)
(* check-token: the checks before the child is started (mod.rs provision,  *)
(* preflight.rs check), then run_export with the child process, its two    *)
(* pipes, the thread that reads stderr and the thread that reads stdout.   *)
(* The other steps of provisioning are in module Provisioning, of which    *)
(* this is the step "export".                                              *)
(***************************************************************************)
EXTENDS Integers, Sequences

CONSTANTS
  MaxLines,          \* lines the exporter writes to each pipe, at most
  PipeCapacity,      \* lines a pipe holds
  TailMax,           \* lines of stderr kept for the error message (40)
  MaySpoil,          \* lines that are not UTF-8, and a killed parent
  Garbled            \* a line that is not UTF-8

ASSUME ExportAssumption ==
  /\ MaxLines \in Nat
  /\ PipeCapacity \in Nat \ {0}
  /\ TailMax \in Nat \ {0}
  /\ MaySpoil \in BOOLEAN
  /\ Garbled \notin Nat

VARIABLES
  host,          \* what the checks find; does not change
  parent,        \* the tool: where it is, its exit code, what preflight said
  child,         \* the exporter: where it is, lines it has written, the pipe it writes to
  pipe,          \* the two pipes
  reader,        \* who reads them (the tool stdout, a thread stderr): to the end, or not
  tail,          \* the last lines of stderr
  report,        \* the provenance report
  wrong          \* history: something other than the tool went wrong

exportVars == <<host, parent, child, pipe, reader, tail, report, wrong>>

Pipes == {"out", "err"}
Tokens == {"blank", "bad", "good"}
Networks == {"up", "shaky", "portal"}      \* portal: redirects every request

(* What the export imports: any one of the alternatives will do.  torch    *)
(* stands for the modules with no alternative.                             *)
REQUIRED_MODULES == {[alternatives |-> {"torch"}, gender_only |-> FALSE],
                     [alternatives |-> {"onnxsim", "onnxslim"}, gender_only |-> FALSE],
                     [alternatives |-> {"onnxconverter_common"}, gender_only |-> TRUE]}

(* The interpreters there are, each the modules it imports; {}: none.      *)
Pythons == {{}, {"torch", "onnxconverter_common"}, {"torch", "onnxslim"},
            {"torch", "onnxsim", "onnxconverter_common"}}
Checks == {"writable", "idempotency", "whoami", "resolve", "python", "clip", "spawn"}
Reading == {"stdout", "join", "wait", "finish"}
Codes == {"none", "OK", "USAGE", "EXPORT_FAILED", "TOKEN_DENIED", "NO_EXPORTER_ENV",
          "NOT_WRITABLE", "EXPORTED", "KILLED"}
Verdicts == {"none", "granted", "token", "gate", "other", "transport"}

(* The exporter at work; and leaving, when its ends of the pipes are       *)
(* closed and its exit status is not there yet.                            *)
Working == {"exporting", "reporting", "reported"}
Leaving == {"returning", "dying"}
Running == Working \cup Leaving

(* hf_token: --hf-token, if given; environment: the token variables, in    *)
(* the order they are looked at.                                           *)
Hosts == [command : {"provision", "check_token"}, writable : BOOLEAN,
          hf_token : {"unset", "blank"},
          environment : {<<"blank", "good">>, <<"bad", "good">>, <<"blank", "blank">>},
          accepted : BOOLEAN, network : Networks, python : Pythons, gender : BOOLEAN,
          clip : BOOLEAN]

ExportTypeOK ==
  /\ host \in Hosts
  /\ parent \in [at : Checks \cup Reading \cup {"ended"}, code : Codes, verdict : Verdicts]
  /\ child \in [at : {"none", "succeeded", "failed"} \cup Running,
                written : [Pipes -> 0..MaxLines], writing : Pipes \cup {"none"}]
  /\ pipe \in [Pipes -> Seq(1..MaxLines \cup {Garbled})]
  /\ \A p \in Pipes : Len(pipe[p]) <= PipeCapacity
  /\ reader \in [Pipes -> {"none", "reading", "ended", "closed"}]
  /\ tail \in Seq(1..MaxLines) /\ Len(tail) <= TailMax
  /\ report \in {"absent", "torn", "whole"}
  /\ wrong \in BOOLEAN

ExportInitOn(h) ==
  /\ host = h
  /\ parent = [at |-> IF host.command = "provision" THEN "writable" ELSE "whoami",
               code |-> "none", verdict |-> "none"]
  /\ child = [at |-> "none", written |-> [p \in Pipes |-> 0], writing |-> "none"]
  /\ pipe = [p \in Pipes |-> << >>]
  /\ reader = [p \in Pipes |-> "none"]
  /\ tail = << >>
  /\ report = "absent"
  /\ wrong = FALSE

-----------------------------------------------------------------------------
(* The checks, cheapest first *)

unstarted == <<host, child, pipe, reader, tail, report, wrong>>

Goes(to) == parent' = [parent EXCEPT !.at = to]
Exits(code) == parent' = [parent EXCEPT !.at = "ended", !.code = code]
Denied(why) == parent' = [parent EXCEPT !.at = "ended", !.code = "TOKEN_DENIED", !.verdict = why]

(* One check: on to the next, or out with its exit code. *)
Check(stage, holds, next, code) ==
  /\ parent.at = stage
  /\ IF holds THEN Goes(next) ELSE Exits(code)
  /\ UNCHANGED unstarted

CheckWritable == Check("writable", host.writable, "idempotency", "NOT_WRITABLE")

(* Models that are verified are left alone; which are is in Provisioning. *)
UpToDate ==
  /\ parent.at = "idempotency"
  /\ Goes("whoami") \/ Exits("OK")
  /\ UNCHANGED unstarted

(* token_from_env: the first variable that is set and not blank. *)
TokenFromEnv(environment) ==
  IF \E i \in DOMAIN environment : environment[i] # "blank"
  THEN environment[CHOOSE i \in DOMAIN environment :
         environment[i] # "blank" /\ \A j \in 1..(i - 1) : environment[j] = "blank"]
  ELSE "blank"

(* --hf-token wins, even if it is blank. *)
Token == IF host.hf_token # "unset" THEN host.hf_token ELSE TokenFromEnv(host.environment)

(* What HuggingFace answers, as the table in preflight.rs measured it.     *)
(* The transport calls a redirect a success.                               *)
Truth(call) ==
  IF host.network = "portal" THEN 200
  ELSE IF Token = "good" /\ (call = "whoami" \/ host.accepted) THEN 200
  ELSE 401
Statuses(call) ==
  {Truth(call)} \cup (IF Truth(call) = 401 THEN {403} ELSE {})
    \cup (IF host.network = "shaky" THEN {500, 0} ELSE {})    \* 0: no answer

(* Who does the token belong to? *)
WhoAmI ==
  /\ parent.at = "whoami"
  /\ \E status \in Statuses("whoami") :
       IF status = 200 THEN Goes("resolve")
       ELSE Denied(IF status = 0 THEN "transport"
                   ELSE IF status \in {401, 403} THEN "token" ELSE "other")
  /\ UNCHANGED unstarted

Granted ==
  parent' = [parent EXCEPT !.verdict = "granted",
                           !.at = IF host.command = "provision" THEN "python" ELSE "ended",
                           !.code = IF host.command = "provision" THEN "none" ELSE "OK"]

(* Mutant: the gate is asked alone, and a denial is blamed on the token. *)
ResolveBlamesToken ==
  /\ parent.at = "resolve"
  /\ \E status \in Statuses("resolve") : IF status = 200 THEN Granted ELSE Denied("token")
  /\ UNCHANGED unstarted

(* Has the account accepted the terms?  A file of the repository tells. *)
Resolve ==
  /\ parent.at = "resolve"
  /\ \E status \in Statuses("resolve") :
       IF status = 200 THEN Granted
       ELSE Denied(IF status = 0 THEN "transport"
                   ELSE IF status \in {401, 403} THEN "gate" ELSE "other")
  /\ UNCHANGED unstarted

(* check_python_env: there is an interpreter, and it imports what the      *)
(* export needs.                                                           *)
Importable ==
  /\ host.python # {}
  /\ \A required \in REQUIRED_MODULES :
       (required.gender_only => host.gender) => required.alternatives \cap host.python # {}

CheckPython == Check("python", Importable, "clip", "NO_EXPORTER_ENV")
ResolveClip == Check("clip", host.clip, "spawn", "USAGE")

-----------------------------------------------------------------------------
(* run_export *)

Spawn ==
  /\ parent.at = "spawn"
  /\ Goes("stdout")
  /\ child' = [child EXCEPT !.at = "exporting"]
  /\ reader' = [p \in Pipes |-> "reading"]
  /\ UNCHANGED <<host, pipe, tail, report, wrong>>

(* The scripts cannot be staged, or the interpreter does not start. *)
SpawnFails ==
  /\ parent.at = "spawn"
  /\ \E code \in {"EXPORT_FAILED", "NO_EXPORTER_ENV"} : Exits(code)
  /\ wrong' = TRUE
  /\ UNCHANGED <<host, child, pipe, reader, tail, report>>

(* child.stdout, child.stderr: a pipe is at its end when it is empty and   *)
(* the child has left its own end of it, which is before it can be waited  *)
(* for.  The exporter hands the pipes to nobody who outlives it.           *)
AtEnd(p) == pipe[p] = << >> /\ child.at \notin Working

(* Mutant: nothing is dropped from the tail. *)
KeptAll(line) == Append(tail, line)

(* Mutant: the oldest lines are kept instead of the latest. *)
KeptFirst(line) == IF Len(tail) = TailMax THEN tail ELSE Append(tail, line)

Kept(line) == IF Len(tail) = TailMax THEN Append(Tail(tail), line) ELSE Append(tail, line)

(* Mutant: stderr is read when stdout is done with. *)
PumpTurnAfterStdout == reader["out"] # "reading"

PumpTurn == TRUE

(* The thread on stderr: a line that is not UTF-8 ends the loop like the   *)
(* end of the pipe, and the pipe is closed.                                *)
PumpStderr ==
  /\ reader["err"] = "reading"
  /\ PumpTurn
  /\ \/ /\ AtEnd("err")
        /\ reader' = [reader EXCEPT !["err"] = "ended"]
        /\ UNCHANGED <<pipe, tail>>
     \/ /\ pipe["err"] # << >>
        /\ IF Head(pipe["err"]) = Garbled
           THEN /\ reader' = [reader EXCEPT !["err"] = "closed"]
                /\ pipe' = [pipe EXCEPT !["err"] = << >>]
                /\ UNCHANGED tail
           ELSE /\ tail' = Kept(Head(pipe["err"]))
                /\ pipe' = [pipe EXCEPT !["err"] = Tail(@)]
                /\ UNCHANGED reader
  /\ UNCHANGED <<host, parent, child, report, wrong>>

(* Mutant: the first line is waited for, then the pipe is dropped. *)
ReadStdoutOnce ==
  /\ parent.at = "stdout"
  /\ AtEnd("out") \/ pipe["out"] # << >>
  /\ reader' = [reader EXCEPT !["out"] = "closed"]
  /\ pipe' = [pipe EXCEPT !["out"] = << >>]
  /\ Goes("join")
  /\ UNCHANGED <<host, child, tail, report, wrong>>

(* The tool itself reads stdout, in the same way. *)
ReadStdout ==
  /\ parent.at = "stdout"
  /\ \/ /\ AtEnd("out") \/ (pipe["out"] # << >> /\ Head(pipe["out"]) = Garbled)
        /\ reader' = [reader EXCEPT !["out"] = "closed"]
        /\ pipe' = [pipe EXCEPT !["out"] = << >>]
        /\ Goes("join")
     \/ /\ pipe["out"] # << >> /\ Head(pipe["out"]) # Garbled
        /\ pipe' = [pipe EXCEPT !["out"] = Tail(@)]
        /\ UNCHANGED <<reader, parent>>
  /\ UNCHANGED <<host, child, tail, report, wrong>>

JoinPump ==
  /\ parent.at = "join"
  /\ reader["err"] # "reading"
  /\ Goes("wait")
  /\ UNCHANGED unstarted

(* Mutant: the pipes are at their end, so the child must have exited. *)
WaitChildNot == parent.at = "wait" /\ Goes("finish") /\ UNCHANGED unstarted

WaitChild ==
  /\ parent.at = "wait"
  /\ child.at \notin Running
  /\ Goes("finish")
  /\ UNCHANGED unstarted

(* Both an exit status of 0 and a readable report make an export. *)
FinishExport ==
  /\ parent.at = "finish"
  /\ Exits(IF child.at = "succeeded" /\ report = "whole" THEN "EXPORTED" ELSE "EXPORT_FAILED")
  /\ UNCHANGED unstarted

(* The tool alone is killed: its ends of the pipes are closed. *)
KillParent ==
  /\ MaySpoil
  /\ parent.at # "ended"
  /\ Exits("KILLED")
  /\ wrong' = TRUE
  /\ reader' = [p \in Pipes |-> "closed"]
  /\ pipe' = [p \in Pipes |-> << >>]
  /\ UNCHANGED <<host, child, tail, report>>

-----------------------------------------------------------------------------
(* The exporter, provision.py *)

(* The exporter has a line for a pipe: it does nothing else until it has   *)
(* written it.                                                             *)
Say(p) ==
  /\ child.at \in Working /\ child.writing = "none"
  /\ child.written[p] < MaxLines
  /\ child' = [child EXCEPT !.writing = p]
  /\ UNCHANGED <<host, parent, pipe, reader, tail, report, wrong>>

(* The write waits for room; on a pipe that was closed it fails, which     *)
(* ends the exporter, or not (its C++ libraries do not look).              *)
WriteLine(p) ==
  /\ child.at \in Working /\ child.writing = p
  /\ LET done == [child EXCEPT !.written[p] = @ + 1, !.writing = "none"] IN
     \/ /\ reader[p] = "reading" /\ Len(pipe[p]) < PipeCapacity
        /\ child' = done
        /\ \/ pipe' = [pipe EXCEPT ![p] = Append(@, child.written[p] + 1)] /\ UNCHANGED wrong
           \/ MaySpoil /\ pipe' = [pipe EXCEPT ![p] = Append(@, Garbled)] /\ wrong' = TRUE
     \/ /\ reader[p] = "closed"
        /\ \E at \in {child.at, "dying"} : child' = [done EXCEPT !.at = at]
        /\ UNCHANGED <<pipe, wrong>>
  /\ UNCHANGED <<host, parent, reader, tail, report>>

(* The report is written in place, last of all; 0 comes after it. *)
WriteReport ==
  /\ child.writing = "none"
  /\ \/ child.at = "exporting" /\ report' = "torn" /\ child' = [child EXCEPT !.at = "reporting"]
        /\ UNCHANGED wrong
     \/ child.at = "reporting" /\ child' = [child EXCEPT !.at = "reported"]
        /\ \/ report' = "whole" /\ UNCHANGED wrong
           \/ report' = "torn" /\ wrong' = TRUE     \* not the JSON this build reads
  /\ UNCHANGED <<host, parent, pipe, reader, tail>>

Succeed ==
  /\ child.at = "reported" /\ child.writing = "none"
  /\ child' = [child EXCEPT !.at = "returning"]
  /\ UNCHANGED <<host, parent, pipe, reader, tail, report, wrong>>

(* An exception, a full disk, the OOM killer. *)
Fail ==
  /\ child.at \in Working
  /\ child' = [child EXCEPT !.at = "dying", !.writing = "none"]
  /\ wrong' = TRUE
  /\ UNCHANGED <<host, parent, pipe, reader, tail, report>>

(* Its exit status is there. *)
Exit ==
  /\ child.at \in Leaving
  /\ child' = [child EXCEPT !.at = IF @ = "returning" THEN "succeeded" ELSE "failed"]
  /\ UNCHANGED <<host, parent, pipe, reader, tail, report, wrong>>

ToolStep ==
  \/ CheckWritable \/ UpToDate \/ WhoAmI \/ Resolve \/ CheckPython \/ ResolveClip
  \/ Spawn \/ ReadStdout \/ JoinPump \/ WaitChild \/ FinishExport
ChildStep == WriteReport \/ Succeed \/ Exit \/ \E p \in Pipes : Say(p) \/ WriteLine(p)

ExportNext == ToolStep \/ PumpStderr \/ ChildStep \/ SpawnFails \/ Fail \/ KillParent

ExportQuiet == parent.at = "ended" /\ child.at \notin Running

-----------------------------------------------------------------------------
(* Preflight tells a bad token from terms that were not accepted, the      *)
(* reason for its two calls, and grants only what HuggingFace grants,      *)
(* unless something in between answers for HuggingFace.                    *)
PreflightTellsApart ==
  host.network # "portal" =>
    /\ parent.verdict = "token" => Token # "good"
    /\ parent.verdict = "gate" => Token = "good" /\ ~host.accepted
    /\ parent.verdict = "granted" => Token = "good" /\ host.accepted

(* When provision has gone on from the export, or given it up, nobody      *)
(* writes to the models directory any more: not even a child whose pipes   *)
(* were at their end, or closed, before it was gone.                       *)
ExporterIsGone ==
  parent.at = "ended" /\ parent.code # "KILLED" => child.at \notin Running

(* An export fails only if something did: the tool's own reading and       *)
(* waiting never turn the run of a healthy exporter into a failure.        *)
FailureIsEarned == parent.code = "EXPORT_FAILED" => wrong

(* The lines in the error message are the last the exporter wrote to       *)
(* stderr (where a traceback ends), unless a line that is not UTF-8 has    *)
(* ended the reading.                                                      *)
TailIsLast ==
  (parent.at = "finish" /\ reader["err"] = "ended") =>
    LET written == child.written["err"]
        kept == IF written < TailMax THEN written ELSE TailMax IN
    tail = [i \in 1..kept |-> written - kept + i]
=============================================================================
