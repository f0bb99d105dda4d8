---------------------------- MODULE EmbedPipeline ----------------------------
(***************************************************************************)
(* run_multi_mask of the speakrs patch set: windows come in over a channel *)
(* from the segmentation stage; the calling thread decodes them and makes  *)
(* batches, one thread computes their filterbanks on a pool of sessions,   *)
(* one thread embeds them.  The three are joined by two channels of        *)
(* capacity 1.  A stage ends when it fails, when its input is closed, or   *)
(* when nobody reads its output any more.                                  *)
(* A window is its number; its audio, its mask and its row in the result   *)
(* travel in three separate vectors, as in the code.                       *)
(***************************************************************************)
EXTENDS Integers, Sequences

CONSTANTS
  MaxWindows,
  BatchSizes,
  PoolSizes,         \* sizes of the fbank session pool; 0: there is none
  FBANK_BATCH_SIZE,  \* what the batched fbank session takes at once
  MayFail,           \* do stages fail?
  Blank

ASSUME EmbedAssumption ==
  /\ MaxWindows \in Nat
  /\ BatchSizes \subseteq 1..MaxWindows
  /\ PoolSizes \subseteq Nat /\ \E p \in PoolSizes : \A q \in PoolSizes : q <= p
  /\ FBANK_BATCH_SIZE \in Nat \ {0}
  /\ MayFail \in BOOLEAN
  /\ Blank \notin (1..MaxWindows) \cup [fbank : 1..MaxWindows, mask : 1..MaxWindows]

VARIABLES
  call,          \* the call: the windows there are, the batch, the pool
  segmentation,  \* the stage before: what it has sent, is it still there?
  windows,       \* the channel from it (external; capacity 1)
  decode,        \* the calling thread: where it is, chunk_idx, its buffers
  jobs,          \* channel: batches
  fbank,         \* the fbank thread: where it is, and the batch it works on
  worker,        \* the threads of the pool
  prepared,      \* channel: batches with their filterbanks
  gpu,           \* the embedding thread
  rows,          \* the result: filterbank and mask each row was made from
  answer,        \* what the call returns
  failed         \* history: the stages in which something went wrong

embedVars == <<call, segmentation, windows, decode, jobs, fbank, worker,
               prepared, gpu, rows, answer, failed>>

Indices == 1..MaxWindows
Batches == [audio : Seq(Indices), masks : Seq(Indices), rows : Seq(Indices),
            fbanks : Seq(Indices)]
NoBatch == [audio |-> << >>, masks |-> << >>, rows |-> << >>, fbanks |-> << >>]
Stages == {"decode", "fbank", "gpu"}
Ends == {"ok", "error", "panic"}
WorkerStates == {"none", "busy"} \cup Ends
MaxPool == CHOOSE p \in PoolSizes : \A q \in PoolSizes : q <= p
Pool == 1..MaxPool

EmbedTypeOK ==
  /\ call \in [windows : 0..MaxWindows, batch : BatchSizes, pool : PoolSizes, batched : BOOLEAN]
  /\ segmentation \in [sent : 0..MaxWindows, open : BOOLEAN]
  /\ windows \in Seq(Indices)
  /\ decode \in [at : {"recv", "send", "last", "join"}, next : 1..(MaxWindows + 1),
                buffer : Batches]
  /\ jobs \in Seq(Batches) /\ prepared \in Seq(Batches)
  /\ fbank \in [at : {"recv", "standard", "pool", "send"} \cup Ends, batch : Batches,
               handles : Seq(Pool), failure : Pool \cup {0}]
  /\ worker \in [Pool -> WorkerStates]
  /\ gpu \in [at : {"recv", "predict"} \cup Ends, batch : Batches]
  /\ rows \in [Indices -> [fbank : Indices, mask : Indices] \cup {Blank}]
  /\ answer \in {"none", "ok"} \cup Stages
  /\ failed \subseteq Stages

(* The channels and the three stages, started together.  That the fbank    *)
(* model cannot be cloned ends the call before this: there is no state yet.*)
EmbedInit ==
  /\ call \in [windows : 0..MaxWindows, batch : BatchSizes, pool : PoolSizes, batched : BOOLEAN]
  /\ segmentation = [sent |-> 0, open |-> TRUE]
  /\ windows = << >>
  /\ decode = [at |-> "recv", next |-> 1, buffer |-> NoBatch]
  /\ jobs = << >> /\ prepared = << >>
  /\ fbank = [at |-> "recv", batch |-> NoBatch, handles |-> << >>, failure |-> 0]
  /\ worker = [w \in Pool |-> "none"]
  /\ gpu = [at |-> "recv", batch |-> NoBatch]
  /\ rows = [i \in Indices |-> Blank]
  /\ answer = "none"
  /\ failed = {}

-----------------------------------------------------------------------------
(* Channels.  The sender's end is closed when its stage is past sending,  *)
(* the receiver's when its stage has ended.                                *)

HasRoom(channel) == Len(channel) < 1
(* Mutant: the calling thread keeps its sender until it returns. *)
JobsClosedNever == FALSE
JobsClosed == decode.at = "join"
FbankEnded == fbank.at \in Ends
GpuEnded == gpu.at \in Ends

(* Something goes wrong in a stage: an error, or a panic. *)
Fails(stage) == MayFail /\ failed' = failed \cup {stage}

-----------------------------------------------------------------------------
(* The segmentation stage, up to the call's end: then its sends fail. *)

Segment ==
  /\ segmentation.open
  /\ IF segmentation.sent = call.windows \/ answer # "none"
     THEN segmentation' = [segmentation EXCEPT !.open = FALSE] /\ UNCHANGED windows
     ELSE /\ HasRoom(windows)
          /\ segmentation' = [segmentation EXCEPT !.sent = @ + 1]
          /\ windows' = Append(windows, segmentation.sent + 1)
  /\ UNCHANGED <<call, decode, jobs, fbank, worker, prepared, gpu, rows, answer, failed>>

-----------------------------------------------------------------------------
(* The calling thread *)

elsewhereDecode == <<call, segmentation, fbank, worker, prepared, gpu, rows, answer>>

(* The audio is cut by chunk_idx, the mask comes from the window received. *)
Prepared(window) ==
  [audio  |-> Append(decode.buffer.audio, decode.next),
   masks  |-> Append(decode.buffer.masks, window),
   rows   |-> Append(decode.buffer.rows, decode.next),
   fbanks |-> decode.buffer.fbanks]

(* Mutant: chunk_idx is counted up before and after a full batch is sent. *)
DecodeWindowCountsTwice ==
  /\ decode.at = "recv"
  /\ windows # << >>
  /\ windows' = Tail(windows)
  /\ LET buffer == Prepared(Head(windows)) IN
       decode' = [at |-> IF Len(buffer.audio) = call.batch THEN "send" ELSE "recv",
                  next |-> decode.next + 1, buffer |-> buffer]
  /\ UNCHANGED <<jobs, failed, elsewhereDecode>>

DecodeWindow ==
  /\ decode.at = "recv"
  /\ windows # << >>
  /\ windows' = Tail(windows)
  /\ LET buffer == Prepared(Head(windows)) IN
       decode' = IF Len(buffer.audio) = call.batch
                 THEN [decode EXCEPT !.buffer = buffer, !.at = "send"]
                 ELSE [decode EXCEPT !.buffer = buffer, !.next = @ + 1]
  /\ UNCHANGED <<jobs, failed, elsewhereDecode>>

(* A panic unwinds into thread::scope and drops the sender. *)
DecodePanics ==
  /\ decode.at = "recv"
  /\ windows # << >>
  /\ Fails("decode")
  /\ windows' = Tail(windows)
  /\ decode' = [decode EXCEPT !.at = "join", !.buffer = NoBatch]
  /\ UNCHANGED <<jobs, elsewhereDecode>>

(* A full batch.  If nobody takes it the loop ends, with empty buffers. *)
SendJob ==
  /\ decode.at = "send"
  /\ \/ /\ FbankEnded
        /\ decode' = [decode EXCEPT !.at = "join", !.buffer = NoBatch]
        /\ UNCHANGED jobs
     \/ /\ ~FbankEnded /\ HasRoom(jobs)
        /\ jobs' = Append(jobs, decode.buffer)
        /\ decode' = [at |-> "recv", next |-> decode.next + 1, buffer |-> NoBatch]
  /\ UNCHANGED <<windows, failed, elsewhereDecode>>

NoMoreWindows ==
  /\ decode.at = "recv"
  /\ windows = << >> /\ ~segmentation.open
  /\ decode' = [decode EXCEPT !.at = IF decode.buffer.audio = << >> THEN "join" ELSE "last"]
  /\ UNCHANGED <<windows, jobs, failed, elsewhereDecode>>

(* Mutant: the windows of the last, partial batch are left where they are. *)
SendLastNever ==
  /\ decode.at = "last"
  /\ decode' = [decode EXCEPT !.at = "join", !.buffer = NoBatch]
  /\ UNCHANGED <<jobs, windows, failed, elsewhereDecode>>

(* The partial batch; that nobody takes it is not looked at here. *)
SendLast ==
  /\ decode.at = "last"
  /\ \/ FbankEnded /\ UNCHANGED jobs
     \/ ~FbankEnded /\ HasRoom(jobs) /\ jobs' = Append(jobs, decode.buffer)
  /\ decode' = [decode EXCEPT !.at = "join", !.buffer = NoBatch]
  /\ UNCHANGED <<windows, failed, elsewhereDecode>>

-----------------------------------------------------------------------------
(* The fbank thread, and compute_fbanks_with_pool *)

elsewhereFbank == <<call, segmentation, windows, decode, gpu, rows, answer>>

Smaller(m, n) == IF m < n THEN m ELSE n
CeilDiv(m, n) == (m + n - 1) \div n

(* fbank_pool_route *)
UsesPool(inputs) ==
  /\ inputs > 1 /\ call.pool > 0
  /\ ~(call.pool = 1 /\ inputs >= FBANK_BATCH_SIZE /\ call.batched)

InputsPerWorker(inputs) == CeilDiv(inputs, Smaller(inputs, call.pool))

(* audios.chunks(inputs_per_worker) zipped with the sessions: there may    *)
(* be fewer chunks than sessions.                                          *)
Chunk(w, inputs) ==
  SubSeq(inputs, (w - 1) * InputsPerWorker(Len(inputs)) + 1,
         Smaller(w * InputsPerWorker(Len(inputs)), Len(inputs)))
Workers(inputs) ==
  Smaller(Smaller(Len(inputs), call.pool), CeilDiv(Len(inputs), InputsPerWorker(Len(inputs))))

TakeJob ==
  /\ fbank.at = "recv"
  /\ jobs # << >>
  /\ jobs' = Tail(jobs)
  /\ LET inputs == Head(jobs).audio IN
     IF UsesPool(Len(inputs))
     THEN /\ fbank' = [at |-> "pool", batch |-> Head(jobs), failure |-> 0,
                       handles |-> [w \in 1..Workers(inputs) |-> w]]
          /\ worker' = [w \in Pool |-> IF w \in 1..Workers(inputs) THEN "busy" ELSE "none"]
     ELSE /\ fbank' = [fbank EXCEPT !.at = "standard", !.batch = Head(jobs)]
          /\ UNCHANGED worker
  /\ UNCHANGED <<prepared, failed, elsewhereFbank>>

NoMoreJobs ==
  /\ fbank.at = "recv"
  /\ jobs = << >> /\ JobsClosed
  /\ fbank' = [fbank EXCEPT !.at = "ok"]
  /\ UNCHANGED <<jobs, worker, prepared, failed, elsewhereFbank>>

(* A stage that ends for good drops what is left in its channel. *)
EndFbank(how) ==
  /\ fbank' = [fbank EXCEPT !.at = how, !.batch = NoBatch, !.handles = << >>]
  /\ jobs' = << >>

(* One thread and one session, or the batched session. *)
StandardFbank ==
  /\ fbank.at = "standard"
  /\ \/ /\ fbank' = [fbank EXCEPT !.at = "send", !.batch.fbanks = fbank.batch.audio]
        /\ UNCHANGED <<jobs, failed>>
     \/ Fails("fbank") /\ \E how \in {"error", "panic"} : EndFbank(how)
  /\ UNCHANGED <<worker, prepared, elsewhereFbank>>

(* A worker locks its session once for its whole chunk.  Jobs of other     *)
(* requests may hold the session meanwhile: that only delays it.           *)
WorkerEnds(w) ==
  /\ worker[w] = "busy"
  /\ \/ worker' = [worker EXCEPT ![w] = "ok"] /\ UNCHANGED failed
     \/ Fails("fbank") /\ \E how \in {"error", "panic"} : worker' = [worker EXCEPT ![w] = how]
  /\ UNCHANGED <<jobs, fbank, prepared, elsewhereFbank>>

(* Mutant: the last failure wins. *)
JoinedLast(w) ==
  IF worker[w] # "ok" THEN [fbank EXCEPT !.failure = w]
  ELSE IF fbank.failure # 0 THEN fbank
  ELSE [fbank EXCEPT !.batch.fbanks = @ \o Chunk(w, fbank.batch.audio)]

(* What one joined worker adds: its results unless something failed        *)
(* before, its failure if it is the first.                                 *)
Joined(w) ==
  IF fbank.failure # 0 THEN fbank
  ELSE IF worker[w] = "ok"
  THEN [fbank EXCEPT !.batch.fbanks = @ \o Chunk(w, fbank.batch.audio)]
  ELSE [fbank EXCEPT !.failure = w]

(* Mutant: whoever ends first is joined first. *)
JoinWorkerAny ==
  /\ fbank.at = "pool"
  /\ \E i \in DOMAIN fbank.handles :
       LET w == fbank.handles[i] IN
       /\ worker[w] # "busy"
       /\ fbank' = [Joined(w) EXCEPT !.handles =
                      SubSeq(@, 1, i - 1) \o SubSeq(@, i + 1, Len(@))]
  /\ UNCHANGED <<jobs, worker, prepared, failed, elsewhereFbank>>

(* The handles are joined in the order of the chunks. *)
JoinWorker ==
  /\ fbank.at = "pool"
  /\ fbank.handles # << >>
  /\ worker[Head(fbank.handles)] # "busy"
  /\ fbank' = [Joined(Head(fbank.handles)) EXCEPT !.handles = Tail(@)]
  /\ UNCHANGED <<jobs, worker, prepared, failed, elsewhereFbank>>

PoolDone ==
  /\ fbank.at = "pool"
  /\ fbank.handles = << >>
  /\ IF fbank.failure = 0
     THEN fbank' = [fbank EXCEPT !.at = "send"] /\ UNCHANGED jobs
     ELSE EndFbank("error")
  /\ UNCHANGED <<worker, prepared, failed, elsewhereFbank>>

(* Mutant: a reader that has gone is an error of this stage. *)
SendPreparedFails ==
  /\ fbank.at = "send"
  /\ \/ /\ GpuEnded
        /\ EndFbank("error")
        /\ UNCHANGED prepared
     \/ /\ ~GpuEnded /\ HasRoom(prepared)
        /\ prepared' = Append(prepared, fbank.batch)
        /\ fbank' = [fbank EXCEPT !.at = "recv", !.batch = NoBatch]
        /\ UNCHANGED jobs
  /\ UNCHANGED <<worker, failed, elsewhereFbank>>

(* If the other thread has ended, this one ends without an error: the      *)
(* other's join tells.                                                     *)
SendPrepared ==
  /\ fbank.at = "send"
  /\ \/ /\ GpuEnded
        /\ EndFbank("ok")
        /\ UNCHANGED prepared
     \/ /\ ~GpuEnded /\ HasRoom(prepared)
        /\ prepared' = Append(prepared, fbank.batch)
        /\ fbank' = [fbank EXCEPT !.at = "recv", !.batch = NoBatch]
        /\ UNCHANGED jobs
  /\ UNCHANGED <<worker, failed, elsewhereFbank>>

-----------------------------------------------------------------------------
(* The embedding thread *)

elsewhereGpu == <<call, segmentation, windows, decode, jobs, fbank, worker, answer>>

TakePrepared ==
  /\ gpu.at = "recv"
  /\ prepared # << >>
  /\ gpu' = [at |-> "predict", batch |-> Head(prepared)]
  /\ prepared' = Tail(prepared)
  /\ UNCHANGED <<rows, failed, elsewhereGpu>>

NoMorePrepared ==
  /\ gpu.at = "recv"
  /\ prepared = << >> /\ FbankEnded
  /\ gpu' = [gpu EXCEPT !.at = "ok"]
  /\ UNCHANGED <<prepared, rows, failed, elsewhereGpu>>

(* embed_multi_mask_and_store: the i-th embedding, of the i-th filterbank  *)
(* under the i-th mask, goes to the row chunk_indices[i].                  *)
Store(batch) ==
  rows' = [row \in Indices |->
             IF \E i \in DOMAIN batch.rows : batch.rows[i] = row /\ i <= Len(batch.fbanks)
             THEN LET i == CHOOSE i \in DOMAIN batch.rows : batch.rows[i] = row IN
                  [fbank |-> batch.fbanks[i], mask |-> batch.masks[i]]
             ELSE rows[row]]

Predict ==
  /\ gpu.at = "predict"
  /\ \/ /\ Store(gpu.batch)
        /\ gpu' = [at |-> "recv", batch |-> NoBatch]
        /\ UNCHANGED <<prepared, failed>>
     \/ /\ Fails("gpu")
        /\ \E how \in {"error", "panic"} : gpu' = [at |-> how, batch |-> NoBatch]
        /\ prepared' = << >>
        /\ UNCHANGED rows
  /\ UNCHANGED elsewhereGpu

-----------------------------------------------------------------------------
(* Both threads are joined, fbank first; its failure is told first.  A     *)
(* panic of the calling thread goes on when the scope has ended.           *)
Verdict ==
  IF "decode" \in failed THEN "decode"
  ELSE IF fbank.at # "ok" THEN "fbank"
  ELSE IF gpu.at # "ok" THEN "gpu"
  ELSE "ok"

(* Mutant: the embedding thread is not waited for. *)
ReturnEarly ==
  /\ answer = "none"
  /\ decode.at = "join" /\ FbankEnded
  /\ answer' = Verdict
  /\ UNCHANGED <<call, segmentation, windows, decode, jobs, fbank, worker,
                 prepared, gpu, rows, failed>>

Return ==
  /\ answer = "none"
  /\ decode.at = "join" /\ FbankEnded /\ GpuEnded
  /\ answer' = Verdict
  /\ UNCHANGED <<call, segmentation, windows, decode, jobs, fbank, worker,
                 prepared, gpu, rows, failed>>

DecodeStep == DecodeWindow \/ DecodePanics \/ SendJob \/ NoMoreWindows \/ SendLast \/ Return
FbankStep ==
  \/ TakeJob \/ NoMoreJobs \/ StandardFbank \/ JoinWorker \/ PoolDone \/ SendPrepared
GpuStep == TakePrepared \/ NoMorePrepared \/ Predict

EmbedNext ==
  \/ Segment \/ DecodeStep \/ FbankStep \/ GpuStep
  \/ \E w \in Pool : WorkerEnds(w)

EmbedFairness ==
  /\ WF_embedVars(Segment) /\ WF_embedVars(DecodeStep)
  /\ WF_embedVars(FbankStep) /\ WF_embedVars(GpuStep)
  /\ \A w \in Pool : WF_embedVars(WorkerEnds(w))

Returned == answer # "none" /\ ~segmentation.open

-----------------------------------------------------------------------------
(* Every row that is written holds the embedding of its own window under   *)
(* its own mask, in full and partial batches and whichever worker of the   *)
(* pool ends first ("outputs are identical by construction", run_multi_mask). *)
RowsMatch ==
  \A i \in Indices : rows[i] # Blank => rows[i] = [fbank |-> i, mask |-> i]

(* A call that returns normally has embedded every window there was: a     *)
(* send that fails, or a partial batch nobody took, always comes with an   *)
(* error from somewhere ("pipeline died; the joins below carry the error"). *)
OkIsComplete ==
  answer = "ok" =>
    /\ failed = {}
    /\ decode.next = call.windows + 1
    /\ \A i \in 1..call.windows : rows[i] # Blank

(* The stage that is blamed is one in which something went wrong, not one  *)
(* that ended because its neighbour had ("GPU stage died; its join reports *)
(* the error").                                                            *)
BlameIsDeserved == answer \in Stages => answer \in failed

(* Which of several failing workers is reported depends on the inputs and  *)
(* not on the race: all the chunks before it succeeded.                    *)
FirstFailureIsReported ==
  fbank.failure # 0 =>
    /\ worker[fbank.failure] \in {"error", "panic"}
    /\ \A w \in 1..(fbank.failure - 1) : worker[w] = "ok"

(* To its caller the pipeline embeds in order, batch by batch. *)
Embedding == INSTANCE EmbedInOrder WITH
  windows <- call.windows, batch <- call.batch, Failures <- Stages,
  rows <- [i \in Indices |-> IF rows[i] = Blank THEN Blank ELSE rows[i].fbank]

EmbedsInOrder == Embedding!Spec
=============================================================================
