-------------------------------- MODULE Main --------------------------------
(* The binary diar-server: main() takes the command line to serving or to  *)
(* one of the tools.  verify-models is in module Provisioning.             *)
EXTENDS Startup, ExportProcess

VARIABLE command

vars == <<command, startupVars, exportVars>>

Commands == {"serve", "provision-models", "check-token"}

(* The tools, before they are started. *)
NotStarted ==
  [command |-> "check_token", writable |-> TRUE, hf_token |-> "unset",
   environment |-> <<"blank", "good">>, accepted |-> TRUE, network |-> "up", python |-> {},
   gender |-> FALSE, clip |-> TRUE]

TypeOK == command \in Commands /\ StartupTypeOK /\ ExportTypeOK

(* The tools are looked at in two environments: one that names a device    *)
(* the build has, one that does not.                                       *)
Init ==
  /\ StartupInit
  /\ command \in Commands
  /\ IF command = "serve"
     THEN ExportInitOn(NotStarted)
     ELSE /\ env.devices = Null /\ env.mode \in {"cpu", "nonsense"} /\ env.build = {}
          /\ \E h \in Hosts :
               /\ h.command = (IF command = "check-token" THEN "check_token" ELSE "provision")
               /\ ExportInitOn(h)

Serving(step) == command = "serve" /\ step /\ UNCHANGED <<command, exportVars>>

(* run_provision has a device before it has anything else. *)
ModeIsKnown == ProvisioningMode # "usage"

Exporting(step) ==
  /\ command # "serve"
  /\ command = "provision-models" => ModeIsKnown
  /\ step
  /\ UNCHANGED <<command, startupVars>>

Misused ==
  /\ command = "provision-models" /\ ~ModeIsKnown
  /\ parent.at = "writable"
  /\ Exits("USAGE")
  /\ UNCHANGED <<command, startupVars, unstarted>>

Ended ==
  /\ IF command = "serve" THEN server.at = "ended" ELSE ExportQuiet
  /\ UNCHANGED vars

Next == Serving(StartupNext) \/ Exporting(ExportNext) \/ Misused \/ Ended

Spec == Init /\ [][Next]_vars

(* A process gets on with what it can do, and so does the exporter.        *)
(* Nobody has to send requests, to disconnect or to stop the server.       *)
FairSpec ==
  /\ Spec
  /\ WF_vars(Serving(StartStep)) /\ WF_vars(Serving(HandlerStep)) /\ WF_vars(Serving(JobStep))
  /\ WF_vars(Exporting(ToolStep)) /\ WF_vars(Exporting(PumpStderr))
  /\ WF_vars(Exporting(ChildStep)) /\ WF_vars(Misused)

-----------------------------------------------------------------------------
(* Every command comes to its end, or to serving: reading both pipes at    *)
(* once, the tool waits for no exporter that waits for it, and the         *)
(* exporter does not outlive it.                                           *)
CommandsEnd ==
  <>(IF command = "serve" THEN server.at \in {"serving", "ended"} ELSE ExportQuiet)
=============================================================================
