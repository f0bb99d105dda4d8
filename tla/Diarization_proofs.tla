-------------------------- MODULE Diarization_proofs --------------------------
(***************************************************************************)
(* What holds of a diarization for any number of windows and embeddings,   *)
(* any batch, pool and block, and any number of workers: the invariants of *)
(* the embedding pipeline and of the pairwise distances hold throughout,   *)
(* because each of the two parts rests while the other one runs.           *)
(***************************************************************************)
EXTENDS Diarization, EmbedPipeline_proofs, PairwiseDistances_proofs

DiarizationInv ==
  /\ EmbedInv /\ PdistInv
  /\ phase \in Phases
  /\ phase = "embedding" => \A w \in PdistWorkers : holding[w] = Idle

LEMMA InitDiarizationInv == Init => DiarizationInv
  BY EmbedInitInv, PdistInitInv DEF Init, DiarizationInv, Phases, PdistInit

LEMMA NextDiarizationInv == DiarizationInv /\ [Next]_vars => DiarizationInv'
  <1> SUFFICES ASSUME DiarizationInv, [Next]_vars PROVE DiarizationInv'
    OBVIOUS
  <1>1. EmbedInv /\ PdistInv
    BY DEF DiarizationInv
  <1>2. CASE EmbedStep
    <2>1. EmbedInv'
      BY <1>1, <1>2, EmbedNextInv DEF EmbedStep
    <2>2. PdistInv'
      BY <1>1, <1>2, PdistStutterInv DEF EmbedStep
    <2>3. QED
      BY <1>2, <2>1, <2>2 DEF EmbedStep, DiarizationInv, pdistVars
  <1>3. CASE StartClustering
    <2>1. PICK n \in 0..MaxEmbeddings : Split(n)
      BY <1>3 DEF StartClustering
    <2>2. PdistInv'
      BY <1>1, <1>3, <2>1, SplitInv DEF StartClustering, DiarizationInv
    <2>3. EmbedInv'
      BY <1>1, <1>3, EmbedStutterInv DEF StartClustering
    <2>4. QED
      BY <1>3, <2>2, <2>3 DEF StartClustering, DiarizationInv, Phases
  <1>4. CASE ClusterStep
    <2>1. PdistInv'
      BY <1>1, <1>4, PdistStepInv DEF ClusterStep
    <2>2. EmbedInv'
      BY <1>1, <1>4, EmbedStutterInv DEF ClusterStep
    <2>3. QED
      BY <1>4, <2>1, <2>2 DEF ClusterStep, DiarizationInv, Phases
  <1>5. CASE UNCHANGED <<embedVars, pdistVars>> /\ phase' \in {phase, "done"}
    <2>1. EmbedInv' /\ PdistInv'
      BY <1>1, <1>5, EmbedStutterInv, PdistStutterInv
    <2>2. QED
      BY <1>5, <2>1 DEF DiarizationInv, Phases, pdistVars
  <1>6. QED
    BY <1>2, <1>3, <1>4, <1>5 DEF Next, GiveUp, FinishClustering, Finished, vars

LEMMA DiarizationInvAlways == Spec => []DiarizationInv
  BY InitDiarizationInv, NextDiarizationInv, PTL DEF Spec

-----------------------------------------------------------------------------
(* Types: among them, that a worker never holds a block that reaches past  *)
(* the embeddings, and that the vector has a cell per pair                 *)
(* (patches/speakrs condensed_euclidean_with_workers, run_multi_mask).     *)
THEOREM DiarizationTypes == Spec => []TypeOK
  <1>1. DiarizationInv => TypeOK
    BY PdistSafety DEF DiarizationInv, EmbedInv, TypeOK
  <1>2. QED
    BY <1>1, DiarizationInvAlways, PTL

(* Every row that is written holds the embedding of its own window under   *)
(* its own mask, for any batch and any pool, although audio, masks and row *)
(* numbers travel in three vectors and the chunks of a batch are computed  *)
(* in any order (run_multi_mask, compute_fbanks_with_pool).                *)
THEOREM RowsHoldTheirWindows == Spec => []RowsMatch
  <1>1. DiarizationInv => RowsMatch
    BY DEF DiarizationInv, EmbedInv
  <1>2. QED
    BY <1>1, DiarizationInvAlways, PTL

(* A call that returns normally has embedded every window: no send that    *)
(* failed and no partial batch that nobody took went unnoticed             *)
(* (run_multi_mask's two joins).                                           *)
THEOREM OkMeansComplete == Spec => []OkIsComplete
  <1>1. DiarizationInv => OkIsComplete
    BY AnswerIsRight DEF DiarizationInv
  <1>2. QED
    BY <1>1, DiarizationInvAlways, PTL

(* The stage a call blames is one in which something went wrong, never one *)
(* that ended because its neighbour had.                                   *)
THEOREM BlameIsTheCulprits == Spec => []BlameIsDeserved
  <1>1. DiarizationInv => BlameIsDeserved
    BY AnswerIsRight DEF DiarizationInv
  <1>2. QED
    BY <1>1, DiarizationInvAlways, PTL

(* Of several workers that fail, the one of the first chunk is reported,   *)
(* whichever failed first (compute_fbanks_with_pool joins in order).       *)
THEOREM FirstFailureIsTold == Spec => []FirstFailureIsReported
  <1>1. DiarizationInv => FirstFailureIsReported
    BY DEF DiarizationInv, EmbedInv
  <1>2. QED
    BY <1>1, DiarizationInvAlways, PTL

(* A worker's slice of the condensed vector is exactly as long as what it  *)
(* writes there: the closed form for the start of a row is how many pairs  *)
(* come before it, for any number of embeddings and any block.             *)
THEOREM SlicesAreExact == Spec => []SlicesFit
  <1>1. DiarizationInv => SlicesFit
    BY PdistSafety DEF DiarizationInv
  <1>2. QED
    BY <1>1, DiarizationInvAlways, PTL

(* When the workers are done every pair's distance is where the double     *)
(* loop put it, whoever computed which block.                              *)
THEOREM DistancesAreInOrder == Spec => []CondensedIsInOrder
  <1>1. DiarizationInv => CondensedIsInOrder
    BY PdistSafety DEF DiarizationInv
  <1>2. QED
    BY <1>1, DiarizationInvAlways, PTL

(* Three threads, two channels and a pool of workers are, to the caller,   *)
(* the loop that embeds batch after batch in order and then answers.       *)
THEOREM EmbeddingIsInOrder == Spec => EmbedsInOrder
  <1>1. Init => Embedding!Init
    BY EmbedInitRefines DEF Init
  <1>2. DiarizationInv /\ [Next]_vars => [Embedding!Next]_(Embedding!vars)
    <2> SUFFICES ASSUME DiarizationInv, [Next]_vars
                 PROVE  [Embedding!Next]_(Embedding!vars)
      OBVIOUS
    <2>1. CASE EmbedStep
      BY <2>1, EmbedNextRefines DEF EmbedStep, DiarizationInv
    <2>2. CASE UNCHANGED embedVars
      BY <2>2 DEF embedVars, Embedding!vars
    <2>3. QED
      BY <2>1, <2>2
      DEF Next, StartClustering, GiveUp, ClusterStep, FinishClustering, Finished, vars
  <1>3. QED
    BY <1>1, <1>2, DiarizationInvAlways, PTL DEF Spec, EmbedsInOrder, Embedding!Spec
=============================================================================
