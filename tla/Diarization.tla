----------------------------- MODULE Diarization -----------------------------
(* One diarization inside the engine (DiarEngine::diarize_with calling     *)
(* speakrs): the embedding pipeline, and, if it succeeds, clustering, of   *)
(* which the pairwise distances are the concurrent part.                   *)
EXTENDS EmbedPipeline, PairwiseDistances

VARIABLE phase

vars == <<embedVars, pdistVars, phase>>

Phases == {"embedding", "clustering", "done"}

TypeOK == EmbedTypeOK /\ PdistTypeOK /\ phase \in Phases

Init ==
  /\ EmbedInit /\ PdistInit
  /\ phase = "embedding"

EmbedStep ==
  /\ phase = "embedding"
  /\ EmbedNext
  /\ UNCHANGED <<pdistVars, phase>>

(* How many speakers' embeddings of the windows are clustered is data. *)
StartClustering ==
  /\ phase = "embedding"
  /\ Returned /\ answer = "ok"
  /\ phase' = "clustering"
  /\ \E n \in 0..MaxEmbeddings : (call.windows = 0 => n = 0) /\ Split(n)
  /\ UNCHANGED embedVars

GiveUp ==
  /\ phase = "embedding"
  /\ Returned /\ answer # "ok"
  /\ phase' = "done"
  /\ UNCHANGED <<embedVars, pdistVars>>

ClusterStep ==
  /\ phase = "clustering"
  /\ PdistStep
  /\ UNCHANGED <<embedVars, phase>>

FinishClustering ==
  /\ phase = "clustering"
  /\ AllComputed
  /\ phase' = "done"
  /\ UNCHANGED <<embedVars, pdistVars>>

Finished == phase = "done" /\ UNCHANGED vars

Next ==
  \/ EmbedStep \/ StartClustering \/ GiveUp
  \/ ClusterStep \/ FinishClustering \/ Finished

Spec == Init /\ [][Next]_vars

(* Every thread gets on with what it can do; a call of the sessions ends.  *)
FairSpec ==
  /\ Spec
  /\ EmbedFairness
  /\ WF_vars(StartClustering \/ GiveUp \/ ClusterStep \/ FinishClustering)

-----------------------------------------------------------------------------
(* A diarization ends: with an error as soon as the pipeline returns one,  *)
(* else when the last block of distances is written.                       *)
DiarizationEnds == <>(phase = "done")
=============================================================================
