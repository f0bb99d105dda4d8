------------------------ MODULE EmbedPipeline_proofs ------------------------
(***************************************************************************)
(* What holds of the embedding pipeline for any number of windows, any     *)
(* batch and any pool of sessions: EmbedInv, which EmbedInit implies and   *)
(* EmbedNext preserves, the pipeline's safety properties, which follow     *)
(* from it, and its steps as steps of EmbedInOrder.                        *)
(***************************************************************************)
EXTENDS EmbedPipeline, SequenceTheorems, TLAPS

-----------------------------------------------------------------------------
(* Numbers and sequences *)

LEMMA LargestPool ==
  /\ MaxPool \in PoolSizes /\ MaxPool \in Nat
  /\ \A p \in PoolSizes : p \in Nat /\ p <= MaxPool
  BY EmbedAssumption DEF MaxPool

(* CeilDiv rounds up. *)
LEMMA CeilDivCovers ==
  ASSUME NEW m \in Nat, NEW n \in Nat \ {0}
  PROVE  /\ CeilDiv(m, n) \in Nat
         /\ CeilDiv(m, n) * n >= m
         /\ (CeilDiv(m, n) - 1) * n < m
         /\ m > 0 => CeilDiv(m, n) > 0
  <1> DEFINE q == (m + n - 1) \div n
             r == (m + n - 1) % n
  <1>1. q \in Int /\ r \in 0..(n - 1) /\ m + n - 1 = n * q + r
    OBVIOUS
  <1>2. n * q = q * n /\ (q - 1) * n = q * n - n
    BY <1>1
  <1>3. q * n >= m /\ (q - 1) * n < m
    BY <1>1, <1>2
  <1>4. q >= 0
    <2>1. SUFFICES ASSUME q <= -1 PROVE FALSE
      BY <1>1
    <2>2. q * n <= (-1) * n
      BY <1>1, <2>1
    <2>3. QED
      BY <1>3, <2>2
  <1>5. m > 0 => q > 0
    BY <1>1, <1>3, <1>4
  <1>6. QED
    BY <1>1, <1>3, <1>4, <1>5 DEF CeilDiv

(* A channel holds at most one message. *)
LEMMA OneSlot ==
  ASSUME NEW S, NEW s \in Seq(S), Len(s) <= 1
  PROVE  /\ s # << >> => Len(s) = 1 /\ s = << Head(s) >> /\ Tail(s) = << >>
                         /\ Head(s) = s[1] /\ s[1] \in S
         /\ Len(s) < 1 => s = << >> /\ \A x \in S : Append(s, x) = << x >>
  <1>1. CASE s = << >>
    BY <1>1
  <1>2. CASE s # << >>
    <2>1. Len(s) = 1
      <3>1. Tail(s) \in Seq(S) /\ Len(Tail(s)) = Len(s) - 1
        BY <1>2
      <3>2. QED
        BY <3>1
    <2>2. Head(s) = s[1] /\ s[1] \in S
      BY <2>1
    <2>3. << Head(s) >> \in Seq(S) /\ Len(<< Head(s) >>) = 1 /\ << Head(s) >>[1] = s[1]
      BY <2>2
    <2>4. s = << Head(s) >>
      BY <2>1, <2>3, SeqEqual
    <2>5. Tail(s) = << >>
      <3>1. Tail(s) \in Seq(S) /\ Len(Tail(s)) = 0
        BY <1>2, <2>1
      <3>2. QED
        BY ONLY <3>1, EmptySeq
    <2>6. QED
      BY <2>1, <2>2, <2>4, <2>5
  <1>3. QED
    BY <1>1, <1>2

(* The audio the first w chunks hold. *)
Covered(inputs, w) == Smaller(w * InputsPerWorker(Len(inputs)), Len(inputs))

(* There are no more chunks than sessions, and none is empty. *)
LEMMA ChunksAreFull ==
  ASSUME EmbedTypeOK, NEW inputs \in Seq(Indices), UsesPool(Len(inputs))
  PROVE  /\ InputsPerWorker(Len(inputs)) \in Nat \ {0}
         /\ Workers(inputs) \in Pool
         /\ \A w \in 1..Workers(inputs) :
              (w - 1) * InputsPerWorker(Len(inputs)) \in 0..(Len(inputs) - 1)
         /\ Workers(inputs) * InputsPerWorker(Len(inputs)) >= Len(inputs)
  <1> DEFINE n == Len(inputs)
             k == InputsPerWorker(n)
             m == Smaller(n, call.pool)
             c == CeilDiv(n, k)
  <1>0. n \in Nat /\ call.pool \in PoolSizes
    BY DEF EmbedTypeOK
  <1>1. n > 1 /\ call.pool \in Nat /\ call.pool > 0 /\ call.pool <= MaxPool /\ MaxPool \in Nat
    BY <1>0, LargestPool DEF UsesPool
  <1>2. m \in Nat \ {0} /\ m <= MaxPool
    <2>1. m = n \/ m = call.pool
      BY DEF Smaller
    <2>2. m <= call.pool
      BY <1>0, <1>1 DEF Smaller
    <2>3. QED
      BY <1>0, <1>1, <2>1, <2>2
  <1>3. k \in Nat \ {0} /\ k * m >= n
    <2>1. k = CeilDiv(n, m)
      BY DEF InputsPerWorker
    <2> HIDE DEF k, m, n
    <2>2. QED
      BY <1>0, <1>1, <1>2, <2>1, CeilDivCovers
  <1>4. c \in Nat \ {0} /\ c * k >= n /\ (c - 1) * k < n
    <2> HIDE DEF k, n
    <2>1. QED
      BY <1>0, <1>1, <1>3, CeilDivCovers
  <1>5. Workers(inputs) = Smaller(m, c)
    BY DEF Workers
  <1> HIDE DEF k, m, c
  <1>6. Workers(inputs) \in 1..MaxPool /\ Workers(inputs) <= c
    BY <1>2, <1>4, <1>5, LargestPool DEF Smaller
  <1>7. ASSUME NEW w \in 1..Workers(inputs)
        PROVE  (w - 1) * k \in 0..(n - 1)
    <2>1. w - 1 <= c - 1 /\ w - 1 \in Nat
      BY <1>4, <1>6, LargestPool
    <2>2. (w - 1) * k <= (c - 1) * k
      BY <2>1, <1>3, <1>4
    <2>3. (w - 1) * k >= 0 /\ (w - 1) * k \in Int
      BY <2>1, <1>3
    <2>4. QED
      BY <2>2, <2>3, <1>0, <1>3, <1>4
  <1>8. Workers(inputs) * k >= n
    <2>1. CASE Workers(inputs) = c
      BY <2>1, <1>4
    <2>2. CASE Workers(inputs) = m
      <3>1. m * k = k * m
        BY <1>2, <1>3
      <3>2. QED
        BY <2>2, <3>1, <1>3
    <2>3. QED
      BY <2>1, <2>2, <1>5 DEF Smaller
  <1>9. QED
    BY <1>3, <1>6, <1>7, <1>8 DEF k, Pool

(* The chunks are adjacent and the last one ends with the audio: joined in *)
(* their order they give back what was cut.                                *)
LEMMA ChunksJoin ==
  ASSUME EmbedTypeOK, NEW inputs \in Seq(Indices), UsesPool(Len(inputs))
  PROVE  /\ SubSeq(inputs, 1, Covered(inputs, 0)) = << >>
         /\ SubSeq(inputs, 1, Covered(inputs, Workers(inputs))) = inputs
         /\ \A w \in 1..Workers(inputs) :
              SubSeq(inputs, 1, Covered(inputs, w - 1)) \o Chunk(w, inputs)
                = SubSeq(inputs, 1, Covered(inputs, w))
  <1> DEFINE n == Len(inputs)
             k == InputsPerWorker(n)
  <1>1. /\ n \in Nat /\ k \in Nat \ {0} /\ Workers(inputs) \in Nat \ {0}
        /\ Workers(inputs) * k >= n
    BY ChunksAreFull, LargestPool DEF Pool
  <1>2. \A w \in 1..Workers(inputs) : (w - 1) * k \in 0..(n - 1)
    BY ChunksAreFull
  <1> HIDE DEF k
  <1>3. Covered(inputs, 0) = 0
    BY <1>1 DEF Covered, Smaller, k
  <1>4. Covered(inputs, Workers(inputs)) = n
    BY <1>1 DEF Covered, Smaller, k
  <1>5. ASSUME NEW w \in 1..Workers(inputs)
        PROVE  SubSeq(inputs, 1, Covered(inputs, w - 1)) \o Chunk(w, inputs)
                 = SubSeq(inputs, 1, Covered(inputs, w))
    <2> DEFINE before == (w - 1) * k
               end == Smaller(w * k, n)
    <2>1. before \in 0..(n - 1)
      BY <1>2
    <2>2. w * k = before + k /\ w * k \in Nat
      BY <1>1
    <2>3. end \in before..n
      BY <2>1, <2>2, <1>1 DEF Smaller
    <2>4. Covered(inputs, w - 1) = before /\ Covered(inputs, w) = end
      BY <2>1 DEF Covered, Smaller, k
    <2>5. Chunk(w, inputs) = SubSeq(inputs, before + 1, end)
      BY DEF Chunk, k
    <2> HIDE DEF before, end
    <2>6. SubSeq(inputs, 1, before) \o SubSeq(inputs, before + 1, end) = SubSeq(inputs, 1, end)
      <3>1. 1 \in 1..(Len(inputs) + 1) /\ before \in (1 - 1)..Len(inputs) /\ end \in before..Len(inputs)
        BY <2>1, <2>3, <1>1
      <3>2. QED
        BY <3>1, ConcatAdjacentSubSeq
    <2>7. QED
      BY <2>4, <2>5, <2>6
  <1>6. SubSeq(inputs, 1, 0) = << >>
    BY SubSeqEmpty
  <1>7. SubSeq(inputs, 1, n) = inputs
    BY SubSeqFull
  <1>8. QED
    BY <1>3, <1>4, <1>5, <1>6, <1>7

-----------------------------------------------------------------------------
(* The invariant *)

(* Who has failed, and what is known of it. *)
FbankDied == fbank.at \in {"error", "panic"}
GpuDied == gpu.at \in {"error", "panic"}
Broken(w) == worker[w] \in {"error", "panic"}

Blames ==
  /\ "gpu" \in failed <=> GpuDied
  /\ FbankDied \/ (\E w \in Pool : Broken(w)) => "fbank" \in failed
  /\ "fbank" \in failed => FbankDied \/ (fbank.at = "pool" /\ \E w \in Pool : Broken(w))
  /\ "decode" \in failed => decode.at = "join"
  /\ answer # "none" =>
       decode.at = "join" /\ FbankEnded /\ GpuEnded /\ answer = Verdict

(* Who ends when: a stage that has not failed ends after the one before it. *)
Closing ==
  /\ gpu.at = "ok" => FbankEnded /\ prepared = << >>
  /\ GpuDied => prepared = << >>
  /\ FbankEnded => jobs = << >>
  /\ fbank.at = "ok" /\ ~GpuDied => decode.at = "join"

(* The windows between the segmentation and the calling thread: chunk_idx  *)
(* counts those that have arrived.                                         *)
Coming ==
  /\ windows # << >> => windows = << segmentation.sent >>
  /\ segmentation.sent <= call.windows
  /\ ~segmentation.open /\ answer = "none" => segmentation.sent = call.windows
  /\ decode.at = "recv" => decode.next = segmentation.sent - Len(windows) + 1
  /\ decode.at = "send" => decode.next = segmentation.sent - Len(windows)
  /\ decode.at = "last" => decode.next = call.windows + 1
  /\ decode.at = "join" /\ "decode" \notin failed /\ ~FbankDied /\ ~GpuDied =>
       decode.next = call.windows + 1

(* The vectors of a batch go together, wherever it is. *)
Matched(b) ==
  /\ b.audio = b.rows /\ b.masks = b.rows
  /\ \A i \in DOMAIN b.rows : b.rows[i] <= call.windows

Carried ==
  /\ Matched(decode.buffer) /\ decode.buffer.fbanks = << >>
  /\ \A i \in DOMAIN jobs : Matched(jobs[i]) /\ jobs[i].fbanks = << >>
  /\ Matched(fbank.batch)
  /\ \A i \in DOMAIN prepared : Matched(prepared[i]) /\ prepared[i].fbanks = prepared[i].rows
  /\ Matched(gpu.batch) /\ gpu.batch.fbanks = gpu.batch.rows

(* What a stage holds where it is. *)
Held ==
  /\ decode.at \in {"recv", "last"} => Len(decode.buffer.rows) < call.batch
  /\ decode.at = "send" => Len(decode.buffer.rows) = call.batch
  /\ decode.at = "join" => decode.buffer = NoBatch
  /\ fbank.at \in {"recv"} \cup Ends => fbank.batch = NoBatch
  /\ fbank.at = "standard" => fbank.batch.fbanks = << >>
  /\ fbank.at = "send" => fbank.batch.fbanks = fbank.batch.rows
  /\ gpu.at # "predict" => gpu.batch = NoBatch

(* The handles that are left are those of the last chunks; what has been   *)
(* joined without a failure is the beginning of the audio.                 *)
Joining(inputs, joined) ==
  /\ UsesPool(Len(inputs))
  /\ joined \in 0..Workers(inputs) /\ Len(fbank.handles) = Workers(inputs) - joined
  /\ \A i \in DOMAIN fbank.handles : fbank.handles[i] = joined + i
  /\ \A w \in Pool : /\ worker[w] = "busy" => w \in (joined + 1)..Workers(inputs)
                     /\ Broken(w) => w <= Workers(inputs)
  /\ \A w \in 1..Workers(inputs) : worker[w] # "none"
  /\ fbank.failure = 0 =>
       /\ \A w \in 1..joined : worker[w] = "ok"
       /\ fbank.batch.fbanks = SubSeq(inputs, 1, Covered(inputs, joined))
  /\ fbank.failure <= joined

PoolInv ==
  IF fbank.at = "pool"
  THEN Joining(fbank.batch.audio, Workers(fbank.batch.audio) - Len(fbank.handles))
  ELSE /\ \A w \in Pool : worker[w] # "busy"
       /\ fbank.failure # 0 => FbankDied

(* The line: the rows that are written, then the batches from the          *)
(* embedding thread back to the calling thread, hold the windows in their  *)
(* order and without a gap, up to the first stage that failed.             *)
Queued(channel) == IF channel = << >> THEN NoBatch ELSE channel[1]
StartsAt(b, n) == \A i \in DOMAIN b.rows : b.rows[i] = n + i
IsWhole(b, n) ==
  \/ b.rows = << >> \/ Len(b.rows) = call.batch
  \/ Len(b.rows) < call.batch /\ n + Len(b.rows) = call.windows
InLine(b, n) == StartsAt(b, n) /\ IsWhole(b, n)

AfterGpu(done) == done + Len(gpu.batch.rows)
AfterPrepared(done) == AfterGpu(done) + Len(Queued(prepared).rows)
AfterFbank(done) == AfterPrepared(done) + Len(fbank.batch.rows)
AfterJobs(done) == AfterFbank(done) + Len(Queued(jobs).rows)
Received == IF decode.at = "send" THEN decode.next ELSE decode.next - 1

Line(done) ==
  /\ \A i \in Indices : rows[i] # Blank <=> i <= done
  /\ InLine(gpu.batch, done)
  /\ InLine(Queued(prepared), AfterGpu(done))
  /\ ~GpuDied => InLine(fbank.batch, AfterPrepared(done))
  /\ ~GpuDied /\ ~FbankDied =>
       /\ InLine(Queued(jobs), AfterFbank(done))
       /\ StartsAt(decode.buffer, AfterJobs(done))
       /\ "decode" \notin failed => Received = AfterJobs(done) + Len(decode.buffer.rows)

Channels == Len(windows) <= 1 /\ Len(jobs) <= 1 /\ Len(prepared) <= 1

EmbedInv ==
  /\ EmbedTypeOK /\ Channels
  /\ Blames /\ Closing /\ Coming
  /\ Carried /\ Held /\ PoolInv /\ FirstFailureIsReported
  /\ RowsMatch
  /\ \E done \in 0..MaxWindows : Line(done)

-----------------------------------------------------------------------------
(* EmbedInv holds at first *)

LEMMA EmptyBatch ==
  /\ NoBatch \in Batches /\ Matched(NoBatch)
  /\ NoBatch.rows = << >> /\ NoBatch.fbanks = << >> /\ Len(NoBatch.rows) = 0
  /\ \A n : InLine(NoBatch, n)
  BY DEF NoBatch, Batches, Matched, InLine, StartsAt, IsWhole

LEMMA BlankIsNoRow ==
  Blank \notin Indices /\ Blank \notin [fbank : Indices, mask : Indices]
  BY EmbedAssumption DEF Indices

LEMMA EmbedInitInv == EmbedInit => EmbedInv
  <1> SUFFICES ASSUME EmbedInit PROVE EmbedInv
    OBVIOUS
  <1>1. EmbedTypeOK
    <2>1. NoBatch \in Batches
      BY EmptyBatch
    <2>2. 0 \in 0..MaxWindows /\ 1 \in 1..(MaxWindows + 1)
      BY EmbedAssumption
    <2>3. QED
      BY <2>1, <2>2 DEF EmbedInit, EmbedTypeOK, Ends, WorkerStates
  <1>2. Channels
    BY DEF EmbedInit, Channels
  <1>3. Blames
    BY DEF EmbedInit, Blames, FbankDied, GpuDied, Broken
  <1>4. Closing /\ Coming
    BY DEF EmbedInit, Closing, Coming, FbankDied, GpuDied, FbankEnded, Ends
  <1>5. Carried
    BY EmptyBatch DEF EmbedInit, Carried
  <1>6. Held
    <2>1. call.batch \in 1..MaxWindows
      BY <1>1, EmbedAssumption DEF EmbedTypeOK
    <2>2. QED
      BY <2>1, EmptyBatch, EmbedAssumption DEF EmbedInit, Held
  <1>7. PoolInv /\ FirstFailureIsReported
    BY DEF EmbedInit, PoolInv, FirstFailureIsReported
  <1>8. RowsMatch
    BY DEF EmbedInit, RowsMatch
  <1>9. Line(0)
    BY EmptyBatch DEF EmbedInit, Line, Queued, AfterGpu, AfterPrepared, AfterFbank, AfterJobs,
                      Received, StartsAt, InLine, Indices
  <1>10. QED
    BY <1>1, <1>2, <1>3, <1>4, <1>5, <1>6, <1>7, <1>8, <1>9, EmbedAssumption DEF EmbedInv

-----------------------------------------------------------------------------
(* What EmbedInv says in the terms the steps need *)

LEMMA Vectors ==
  ASSUME NEW b \in Batches
  PROVE  /\ b = [audio |-> b.audio, masks |-> b.masks, rows |-> b.rows, fbanks |-> b.fbanks]
         /\ b.audio \in Seq(Indices) /\ b.masks \in Seq(Indices)
         /\ b.rows \in Seq(Indices) /\ b.fbanks \in Seq(Indices)
         /\ Len(b.rows) \in Nat /\ DOMAIN b.rows = 1..Len(b.rows)
         /\ b.rows = << >> <=> Len(b.rows) = 0
  <1>1. /\ b = [audio |-> b.audio, masks |-> b.masks, rows |-> b.rows, fbanks |-> b.fbanks]
        /\ b.audio \in Seq(Indices) /\ b.masks \in Seq(Indices)
        /\ b.rows \in Seq(Indices) /\ b.fbanks \in Seq(Indices)
    BY DEF Batches
  <1>2. Len(b.rows) \in Nat /\ DOMAIN b.rows = 1..Len(b.rows)
    BY <1>1
  <1>3. b.rows = << >> <=> Len(b.rows) = 0
    <2>1. b.rows # << >> => Len(b.rows) \in Nat \ {0}
      BY ONLY <1>1, EmptySeq
    <2>2. QED
      BY <2>1, EmptySeq
  <1>4. QED
    BY <1>1, <1>2, <1>3

LEMMA Typed ==
  ASSUME EmbedTypeOK
  PROVE  /\ call.windows \in 0..MaxWindows /\ call.batch \in 1..MaxWindows
         /\ decode.next \in 1..(MaxWindows + 1) /\ segmentation.sent \in 0..MaxWindows
         /\ decode = [at |-> decode.at, next |-> decode.next, buffer |-> decode.buffer]
         /\ decode.buffer \in Batches /\ fbank.batch \in Batches /\ gpu.batch \in Batches
         /\ fbank = [at |-> fbank.at, batch |-> fbank.batch, handles |-> fbank.handles,
                     failure |-> fbank.failure]
         /\ MaxWindows \in Nat
  BY EmbedAssumption DEF EmbedTypeOK

LEMMA Slots ==
  ASSUME EmbedTypeOK, Channels
  PROVE  /\ windows # << >> => windows = << Head(windows) >> /\ Head(windows) \in Indices
                               /\ Tail(windows) = << >> /\ Len(windows) = 1
         /\ jobs # << >> => jobs = << jobs[1] >> /\ Head(jobs) = jobs[1] /\ Tail(jobs) = << >>
                            /\ jobs[1] \in Batches /\ Len(jobs) = 1
         /\ prepared # << >> => prepared = << prepared[1] >> /\ Head(prepared) = prepared[1]
                                /\ Tail(prepared) = << >> /\ prepared[1] \in Batches
                                /\ Len(prepared) = 1
         /\ HasRoom(windows) => windows = << >> /\ \A x \in Indices : Append(windows, x) = << x >>
         /\ HasRoom(jobs) => jobs = << >> /\ \A b \in Batches : Append(jobs, b) = << b >>
         /\ HasRoom(prepared) =>
              prepared = << >> /\ \A b \in Batches : Append(prepared, b) = << b >>
         /\ Queued(jobs) \in Batches /\ Queued(prepared) \in Batches
  <1>1. windows \in Seq(Indices) /\ jobs \in Seq(Batches) /\ prepared \in Seq(Batches)
    BY DEF EmbedTypeOK
  <1>2. Len(windows) <= 1 /\ Len(jobs) <= 1 /\ Len(prepared) <= 1
    BY DEF Channels
  <1>3. /\ windows # << >> => windows = << Head(windows) >> /\ Head(windows) \in Indices
                              /\ Tail(windows) = << >> /\ Len(windows) = 1
        /\ HasRoom(windows) => windows = << >> /\ \A x \in Indices : Append(windows, x) = << x >>
    BY <1>1, <1>2, OneSlot DEF HasRoom
  <1>4. /\ jobs # << >> => jobs = << jobs[1] >> /\ Head(jobs) = jobs[1] /\ Tail(jobs) = << >>
                           /\ jobs[1] \in Batches /\ Len(jobs) = 1
        /\ HasRoom(jobs) => jobs = << >> /\ \A b \in Batches : Append(jobs, b) = << b >>
    BY <1>1, <1>2, OneSlot DEF HasRoom
  <1>5. /\ prepared # << >> => prepared = << prepared[1] >> /\ Head(prepared) = prepared[1]
                               /\ Tail(prepared) = << >> /\ prepared[1] \in Batches
                               /\ Len(prepared) = 1
        /\ HasRoom(prepared) =>
             prepared = << >> /\ \A b \in Batches : Append(prepared, b) = << b >>
    BY <1>1, <1>2, OneSlot DEF HasRoom
  <1>6. Queued(jobs) \in Batches /\ Queued(prepared) \in Batches
    BY <1>4, <1>5, EmptyBatch DEF Queued
  <1>7. QED
    BY <1>3, <1>4, <1>5, <1>6

(* A step elsewhere leaves the pool alone. *)
LEMMA PoolFrame ==
  ASSUME PoolInv, FirstFailureIsReported, UNCHANGED <<call, fbank, worker>>
  PROVE  PoolInv' /\ FirstFailureIsReported'
  BY DEF PoolInv, Joining, FirstFailureIsReported, FbankDied, Broken, UsesPool,
         Workers, InputsPerWorker, Covered

LEMMA Places ==
  ASSUME EmbedTypeOK, Channels, NEW done \in 0..MaxWindows
  PROVE  /\ done \in Nat /\ AfterGpu(done) \in Nat /\ AfterPrepared(done) \in Nat
         /\ AfterFbank(done) \in Nat /\ AfterJobs(done) \in Nat
  <1>1. done \in Nat
    BY Typed
  <1>2. /\ Len(gpu.batch.rows) \in Nat /\ Len(fbank.batch.rows) \in Nat
        /\ Len(Queued(prepared).rows) \in Nat /\ Len(Queued(jobs).rows) \in Nat
    BY Typed, Slots, Vectors
  <1>3. AfterGpu(done) \in Nat
    BY <1>1, <1>2 DEF AfterGpu
  <1>4. AfterPrepared(done) \in Nat
    BY <1>2, <1>3 DEF AfterPrepared
  <1>5. AfterFbank(done) \in Nat
    BY <1>2, <1>4 DEF AfterFbank
  <1>6. AfterJobs(done) \in Nat
    BY <1>2, <1>5 DEF AfterJobs
  <1>7. QED
    BY <1>1, <1>3, <1>4, <1>5, <1>6

-----------------------------------------------------------------------------
(* The stage before, and the calling thread *)

LEMMA SegmentInv ==
  ASSUME EmbedInv, Segment
  PROVE  EmbedInv'
  <1> USE DEF EmbedInv, Segment
  <1> DEFINE Last == /\ segmentation' = [sent |-> segmentation.sent, open |-> FALSE]
                     /\ segmentation.sent = call.windows \/ answer # "none"
                     /\ windows' = windows
             More == /\ segmentation' = [sent |-> segmentation.sent + 1, open |-> TRUE]
                     /\ segmentation.sent + 1 <= call.windows /\ answer = "none"
                     /\ windows = << >> /\ windows' = << segmentation.sent + 1 >>
                     /\ segmentation.sent + 1 \in Indices
  <1>0. segmentation = [sent |-> segmentation.sent, open |-> TRUE] /\ segmentation.sent \in Nat
    BY DEF EmbedTypeOK
  <1>1. Last \/ More
    <2>1. CASE segmentation.sent = call.windows \/ answer # "none"
      BY <2>1, <1>0
    <2>2. CASE ~(segmentation.sent = call.windows \/ answer # "none")
      <3>1. segmentation.sent + 1 \in Indices /\ segmentation.sent + 1 <= call.windows
        BY <2>2, Typed DEF Coming, Indices
      <3>2. segmentation' = [sent |-> segmentation.sent + 1, open |-> TRUE]
        BY <2>2, <1>0
      <3>3. windows = << >> /\ windows' = << segmentation.sent + 1 >>
        BY <2>2, <3>1, Slots
      <3>4. QED
        BY <2>2, <3>1, <3>2, <3>3
    <2>3. QED
      BY <2>1, <2>2
  <1> HIDE DEF Segment
  <1>3. EmbedTypeOK' /\ Channels' /\ Coming'
    <2>1. CASE Last
      BY <2>1, <1>0 DEF Segment, EmbedTypeOK, Channels, Coming, FbankDied, GpuDied
    <2>2. CASE More
      <3>1. segmentation'.sent = segmentation.sent + 1 /\ segmentation'.open = TRUE
        BY <2>2
      <3>2. windows' \in Seq(Indices) /\ Len(windows') = 1 /\ Len(windows) = 0
        BY <2>2
      <3>3. segmentation.sent + 1 \in 0..MaxWindows
        BY <2>2, <1>0, Typed
      <3>4. EmbedTypeOK' /\ Channels'
        BY <2>2, <3>2, <3>3 DEF Segment, EmbedTypeOK, Channels
      <3>5. Coming'
        BY <2>2, <3>1, <3>2, <1>0, Typed DEF Segment, Coming, FbankDied, GpuDied
      <3>6. QED
        BY <3>4, <3>5
    <2>3. QED
      BY <1>1, <2>1, <2>2
  <1> USE DEF Segment
  <1>2. Blames' /\ Closing' /\ Held' /\ PoolInv' /\ FirstFailureIsReported' /\ RowsMatch'
    BY DEF Blames, Closing, Held, PoolInv, Joining, FirstFailureIsReported, RowsMatch,
           FbankDied, GpuDied, Broken, FbankEnded, GpuEnded, Verdict, UsesPool,
           Workers, InputsPerWorker, Covered
  <1>4. Carried'
    BY DEF Carried, Matched
  <1>5. PICK done \in 0..MaxWindows : Line(done)
    OBVIOUS
  <1>6. Line(done)'
    BY <1>5 DEF Line, InLine, IsWhole, StartsAt, AfterGpu, AfterPrepared, AfterFbank, AfterJobs,
                Received, Queued, FbankDied, GpuDied
  <1>7. QED
    BY <1>3, <1>2, <1>4, <1>6

LEMMA DecodeWindowInv ==
  ASSUME EmbedInv, DecodeWindow
  PROVE  EmbedInv'
  <1> DEFINE old == decode.buffer
             buffer == Prepared(Head(windows))
             full == Len(buffer.audio) = call.batch
  <1> USE DEF elsewhereDecode
  <1>1. /\ EmbedTypeOK /\ Channels /\ Coming /\ Carried /\ Held
        /\ decode.at = "recv" /\ windows # << >> /\ windows' = << >>
    BY Slots DEF EmbedInv, DecodeWindow
  <1>2. /\ Head(windows) = decode.next /\ decode.next \in Indices /\ decode.next <= call.windows
        /\ decode.next = segmentation.sent
    <2>1. windows = << segmentation.sent >> /\ Len(windows) = 1 /\ Head(windows) \in Indices
      BY <1>1, Slots DEF Coming
    <2>2. Head(windows) = segmentation.sent
      BY <2>1
    <2>3. QED
      BY <1>1, <2>1, <2>2, Typed DEF Coming
  <1>3. /\ old \in Batches /\ old.audio = old.rows /\ old.masks = old.rows /\ old.fbanks = << >>
        /\ old.rows \in Seq(Indices) /\ Len(old.rows) \in Nat /\ Len(old.rows) < call.batch
        /\ \A i \in DOMAIN old.rows : old.rows[i] <= call.windows
    BY <1>1, Typed, Vectors DEF Carried, Matched, Held
  <1>4. /\ buffer.rows = Append(old.rows, decode.next)
        /\ buffer.audio = buffer.rows /\ buffer.masks = buffer.rows /\ buffer.fbanks = << >>
        /\ buffer \in Batches
    <2>2. Prepared(decode.next) =
            [audio |-> Append(old.audio, decode.next), masks |-> Append(old.masks, decode.next),
             rows |-> Append(old.rows, decode.next), fbanks |-> old.fbanks]
      BY DEF Prepared
    <2>3. buffer = [audio |-> Append(old.rows, decode.next), masks |-> Append(old.rows, decode.next),
                    rows |-> Append(old.rows, decode.next), fbanks |-> << >>]
      BY <2>2, <1>2, <1>3
    <2>4. Append(old.rows, decode.next) \in Seq(Indices) /\ << >> \in Seq(Indices)
      BY <1>2, <1>3
    <2> HIDE DEF buffer
    <2>5. buffer \in Batches
      BY <2>3, <2>4 DEF Batches
    <2>6. QED
      BY <2>3, <2>5
  <1>5. /\ Len(buffer.rows) = Len(old.rows) + 1 /\ DOMAIN buffer.rows = 1..(Len(old.rows) + 1)
        /\ \A i \in 1..Len(old.rows) : buffer.rows[i] = old.rows[i]
        /\ buffer.rows[Len(old.rows) + 1] = decode.next
    BY <1>2, <1>3, <1>4, AppendProperties
  <1> HIDE DEF buffer
  <1>6. Matched(buffer)
    BY <1>2, <1>3, <1>4, <1>5 DEF Matched
  <1>7. decode' = [at |-> IF full THEN "send" ELSE "recv",
                   next |-> IF full THEN decode.next ELSE decode.next + 1, buffer |-> buffer]
    BY <1>1, Typed DEF DecodeWindow, buffer
  <1>8. EmbedTypeOK' /\ Channels'
    <2>1. decode' \in [at : {"recv", "send", "last", "join"}, next : 1..(MaxWindows + 1),
                       buffer : Batches]
      BY <1>1, <1>2, <1>4, <1>7, Typed DEF Indices
    <2>2. windows' \in Seq(Indices) /\ Len(windows') <= 1
      BY <1>1
    <2>3. QED
      BY <1>1, <2>1, <2>2 DEF DecodeWindow, EmbedTypeOK, Channels
  <1>9. Blames' /\ Closing'
    BY <1>1, <1>7 DEF EmbedInv, DecodeWindow, Blames, Closing, FbankDied, GpuDied, Broken,
                      FbankEnded, GpuEnded, Verdict
  <1>10. Coming'
    BY <1>1, <1>2, <1>7, Typed DEF EmbedInv, DecodeWindow, Coming, Blames, FbankDied, GpuDied
  <1>17. decode'.buffer = buffer /\ decode'.at = (IF full THEN "send" ELSE "recv")
    BY <1>7
  <1>11. Carried'
    BY ZenonT(40), <1>1, <1>4, <1>6, <1>17 DEF DecodeWindow, Carried, Matched
  <1>12. Held'
    BY SMTT(30), <1>1, <1>3, <1>4, <1>5, <1>17, Typed DEF DecodeWindow, Held
  <1>13. PoolInv' /\ FirstFailureIsReported' /\ RowsMatch'
    BY PoolFrame DEF EmbedInv, DecodeWindow, RowsMatch
  <1>14. PICK done \in 0..MaxWindows : Line(done)
    BY DEF EmbedInv
  <1>15. Line(done)'
    <2>1. \A n : UNCHANGED <<InLine(gpu.batch, n), InLine(fbank.batch, n), InLine(Queued(jobs), n),
                            InLine(Queued(prepared), n), FbankDied, GpuDied, AfterGpu(done),
                            AfterPrepared(done), AfterFbank(done), AfterJobs(done)>>
      BY DEF DecodeWindow, InLine, IsWhole, StartsAt, Queued, FbankDied, GpuDied, AfterGpu,
             AfterPrepared, AfterFbank, AfterJobs
    <2>2. CASE ~GpuDied /\ ~FbankDied
      <3>1. /\ StartsAt(old, AfterJobs(done))
            /\ decode.next - 1 = AfterJobs(done) + Len(old.rows)
        BY <1>1, <1>14, <2>2 DEF EmbedInv, Blames, Line, Received
      <3>2. AfterJobs(done) \in Nat
        BY <1>1, Places
      <3>3. StartsAt(buffer, AfterJobs(done))
        <4> SUFFICES ASSUME NEW i \in 1..(Len(old.rows) + 1)
                     PROVE  buffer.rows[i] = AfterJobs(done) + i
          BY <1>5 DEF StartsAt
        <4>1. CASE i \in 1..Len(old.rows)
          <5>1. i \in DOMAIN old.rows
            BY <4>1, <1>3
          <5>2. QED
            BY <4>1, <5>1, <1>5, <3>1 DEF StartsAt
        <4>2. CASE i = Len(old.rows) + 1
          <5>1. decode.next \in Int /\ Len(old.rows) \in Nat
            BY <1>1, <1>3, Typed
          <5>2. decode.next = AfterJobs(done) + (Len(old.rows) + 1)
            BY <5>1, <3>1, <3>2
          <5>3. buffer.rows[i] = decode.next
            BY <4>2, <1>5
          <5>4. QED
            BY <4>2, <5>2, <5>3
        <4>3. QED
          BY <4>1, <4>2, <1>3
      <3>4. Received' = AfterJobs(done) + Len(buffer.rows)
        <4>1. Received' = decode.next
          BY <1>1, <1>7, Typed DEF Received
        <4>2. decode.next \in Int /\ Len(old.rows) \in Nat /\ Len(buffer.rows) = Len(old.rows) + 1
          BY <1>1, <1>3, <1>5, Typed
        <4>3. QED
          BY <4>1, <4>2, <3>1, <3>2
      <3>5. decode'.buffer = buffer
        BY <1>7
      <3>6. StartsAt(decode.buffer, AfterJobs(done))'
        BY <2>1, <3>3, <3>5 DEF StartsAt
      <3>7. QED
        BY <1>14, <2>1, <3>4, <3>5, <3>6 DEF DecodeWindow, Line
    <2>3. QED
      BY <1>14, <2>1, <2>2 DEF DecodeWindow, Line
  <1>16. QED
    BY <1>8, <1>9, <1>10, <1>11, <1>12, <1>13, <1>14, <1>15 DEF EmbedInv

(* The steps after which the calling thread only waits, without a send. *)
LEMMA DecodePanicsInv ==
  ASSUME EmbedInv, DecodePanics
  PROVE  EmbedInv'
  <1> USE DEF elsewhereDecode
  <1>1. /\ EmbedTypeOK /\ Channels /\ Coming /\ Carried /\ Held /\ Blames /\ Closing
        /\ decode.at = "recv" /\ windows # << >> /\ windows' = << >>
    BY Slots DEF EmbedInv, DecodePanics
  <1>2. decode' = [at |-> "join", next |-> decode.next, buffer |-> NoBatch]
    BY <1>1, Typed DEF DecodePanics
  <1>3. failed' = failed \cup {"decode"}
    BY DEF DecodePanics, Fails
  <1>4. EmbedTypeOK' /\ Channels'
    BY <1>1, <1>2, <1>3, Typed, EmptyBatch DEF DecodePanics, EmbedTypeOK, Channels, Stages
  <1>5. Blames' /\ Closing'
    BY <1>1, <1>2, <1>3 DEF DecodePanics, Blames, Closing, FbankDied, GpuDied, Broken,
                            FbankEnded, GpuEnded, Verdict
  <1>6. Coming'
    BY <1>1, <1>2, <1>3 DEF DecodePanics, Coming
  <1>7. Carried' /\ Held'
    BY <1>1, <1>2, EmptyBatch DEF DecodePanics, Carried, Held, Matched
  <1>8. PoolInv' /\ FirstFailureIsReported' /\ RowsMatch'
    BY PoolFrame DEF EmbedInv, DecodePanics, RowsMatch
  <1>9. PICK done \in 0..MaxWindows : Line(done)
    BY DEF EmbedInv
  <1>10. Line(done)'
    BY <1>2, <1>3, <1>9, EmptyBatch
    DEF DecodePanics, Line, InLine, IsWhole, StartsAt, Queued, FbankDied, GpuDied, AfterGpu,
        AfterPrepared, AfterFbank, AfterJobs
  <1>11. QED
    BY <1>4, <1>5, <1>6, <1>7, <1>8, <1>9, <1>10 DEF EmbedInv

LEMMA NoMoreWindowsInv ==
  ASSUME EmbedInv, NoMoreWindows
  PROVE  EmbedInv'
  <1> USE DEF elsewhereDecode
  <1>1. /\ EmbedTypeOK /\ Channels /\ Coming /\ Carried /\ Held /\ Blames /\ Closing
        /\ decode.at = "recv" /\ windows = << >> /\ ~segmentation.open /\ Len(windows) = 0
    BY Slots DEF EmbedInv, NoMoreWindows
  <1>2. /\ decode'.at = IF decode.buffer.audio = << >> THEN "join" ELSE "last"
        /\ decode'.next = decode.next /\ decode'.buffer = decode.buffer
        /\ decode' \in [at : {"recv", "send", "last", "join"}, next : 1..(MaxWindows + 1),
                        buffer : Batches]
    BY <1>1, Typed DEF NoMoreWindows
  <1>3. decode.buffer.audio = << >> => decode.buffer = NoBatch
    <2>1. decode.buffer.audio = decode.buffer.rows /\ decode.buffer.masks = decode.buffer.rows
          /\ decode.buffer.fbanks = << >>
      BY <1>1 DEF Carried, Matched
    <2>2. QED
      BY <1>1, <2>1, Typed, Vectors DEF NoBatch
  <1>4. EmbedTypeOK' /\ Channels'
    BY <1>1, <1>2 DEF NoMoreWindows, EmbedTypeOK, Channels
  <1>5. Blames' /\ Closing'
    BY <1>1, <1>2 DEF NoMoreWindows, Blames, Closing, FbankDied, GpuDied, Broken,
                      FbankEnded, GpuEnded, Verdict
  <1>6. Coming'
    <2>1. decode.next = segmentation.sent + 1 /\ answer = "none"
      BY <1>1, Typed DEF Coming, Blames
    <2>2. segmentation.sent = call.windows
      BY <1>1, <2>1 DEF Coming
    <2>3. QED
      BY <1>1, <1>2, <2>1, <2>2 DEF NoMoreWindows, Coming
  <1>7. Carried' /\ Held'
    BY <1>1, <1>2, <1>3 DEF NoMoreWindows, Carried, Held, Matched
  <1>8. PoolInv' /\ FirstFailureIsReported' /\ RowsMatch'
    BY PoolFrame DEF EmbedInv, NoMoreWindows, RowsMatch
  <1>9. PICK done \in 0..MaxWindows : Line(done)
    BY DEF EmbedInv
  <1>10. Line(done)'
    BY <1>1, <1>2, <1>9
    DEF NoMoreWindows, Line, InLine, IsWhole, StartsAt, Queued, FbankDied, GpuDied, AfterGpu,
        AfterPrepared, AfterFbank, AfterJobs, Received
  <1>11. QED
    BY <1>4, <1>5, <1>6, <1>7, <1>8, <1>9, <1>10 DEF EmbedInv

LEMMA ReturnInv ==
  ASSUME EmbedInv, Return
  PROVE  EmbedInv'
  <1>1. /\ EmbedTypeOK /\ Channels /\ Coming /\ Carried /\ Held /\ Blames /\ Closing
        /\ decode.at = "join" /\ FbankEnded /\ GpuEnded /\ answer' = Verdict
    BY DEF EmbedInv, Return
  <1>2. EmbedTypeOK' /\ Channels'
    BY <1>1 DEF Return, EmbedTypeOK, Channels, Verdict, Stages
  <1>3. Blames' /\ Closing'
    BY <1>1 DEF Return, Blames, Closing, FbankDied, GpuDied, Broken, FbankEnded, GpuEnded, Verdict
  <1>4. Coming'
    BY <1>1 DEF Return, Coming, FbankDied, GpuDied, Verdict
  <1>5. Carried' /\ Held' /\ RowsMatch'
    BY <1>1 DEF EmbedInv, Return, Carried, Held, Matched, RowsMatch
  <1>6. PoolInv' /\ FirstFailureIsReported'
    BY PoolFrame DEF EmbedInv, Return
  <1>7. PICK done \in 0..MaxWindows : Line(done)
    BY DEF EmbedInv
  <1>8. Line(done)'
    BY <1>7
    DEF Return, Line, InLine, IsWhole, StartsAt, Queued, FbankDied, GpuDied, AfterGpu,
        AfterPrepared, AfterFbank, AfterJobs, Received
  <1>9. QED
    BY <1>2, <1>3, <1>4, <1>5, <1>6, <1>7, <1>8 DEF EmbedInv

(* A batch is sent: what the calling thread held is in the channel.        *)
Sent ==
  /\ ~FbankEnded /\ jobs = << >> /\ jobs' = << decode.buffer >>
  /\ decode'.buffer = NoBatch

LEMMA SentInLine ==
  ASSUME EmbedTypeOK, Channels, Sent, NEW done \in 0..MaxWindows, Line(done),
         UNCHANGED <<windows, failed, elsewhereDecode>>, "decode" \notin failed,
         \/ Len(decode.buffer.rows) = call.batch
         \/ Len(decode.buffer.rows) < call.batch /\ Received = call.windows,
         Received' = Received, decode'.at # "send"
  PROVE  Line(done)'
  <1>1. /\ Queued(jobs) = NoBatch /\ Queued(jobs)' = decode.buffer /\ decode'.buffer = NoBatch
        /\ Len(decode.buffer.rows) \in Nat
    BY Typed, Vectors DEF Sent, Queued
  <1>2. /\ AfterGpu(done)' = AfterGpu(done) /\ AfterPrepared(done)' = AfterPrepared(done)
        /\ AfterFbank(done)' = AfterFbank(done)
    BY DEF elsewhereDecode, AfterGpu, AfterPrepared, AfterFbank, Queued
  <1>3. AfterJobs(done) = AfterFbank(done) /\ AfterFbank(done) \in Nat
    BY <1>1, Places, EmptyBatch DEF AfterJobs
  <1>4. AfterJobs(done)' = AfterFbank(done) + Len(decode.buffer.rows)
    BY <1>1, <1>2 DEF AfterJobs
  <1>5. /\ FbankDied' = FbankDied /\ GpuDied' = GpuDied
        /\ \A i \in Indices : (rows[i] # Blank)' <=> i <= done
        /\ InLine(gpu.batch, done)'
        /\ InLine(Queued(prepared), AfterGpu(done))'
        /\ ~GpuDied => InLine(fbank.batch, AfterPrepared(done))'
    BY <1>2 DEF Line, elsewhereDecode, InLine, StartsAt, IsWhole, FbankDied, GpuDied, Queued
  <1>6. ASSUME ~GpuDied, ~FbankDied
        PROVE  /\ InLine(Queued(jobs), AfterFbank(done))'
               /\ StartsAt(decode.buffer, AfterJobs(done))'
               /\ Received' = AfterJobs(done)' + Len(decode'.buffer.rows)
    <2>1. /\ StartsAt(decode.buffer, AfterFbank(done))
          /\ Received = AfterFbank(done) + Len(decode.buffer.rows)
      BY <1>3, <1>6 DEF Line
    <2>2. InLine(Queued(jobs), AfterFbank(done))'
      BY <1>1, <1>2, <2>1 DEF InLine, StartsAt, IsWhole, elsewhereDecode
    <2>3. StartsAt(decode.buffer, AfterJobs(done))'
      BY <1>1, EmptyBatch DEF StartsAt
    <2>4. Received' = AfterJobs(done)' + Len(decode'.buffer.rows)
      BY <1>1, <1>3, <1>4, <2>1, EmptyBatch
    <2>5. QED
      BY <2>2, <2>3, <2>4
  <1>7. QED
    BY <1>5, <1>6 DEF Line

(* Nobody takes the batch: the fbank thread has failed, or the one behind. *)
LEMMA NotSentInLine ==
  ASSUME FbankEnded, Closing, decode.at # "join", NEW done \in 0..MaxWindows, Line(done),
         UNCHANGED <<jobs, windows, failed, elsewhereDecode>>
  PROVE  Line(done)' /\ (GpuDied' \/ FbankDied')
  <1>1. GpuDied \/ FbankDied
    BY DEF Closing, FbankEnded, Ends, FbankDied
  <1>2. QED
    BY <1>1 DEF elsewhereDecode, Line, InLine, IsWhole, StartsAt, Queued, FbankDied, GpuDied,
                AfterGpu, AfterPrepared, AfterFbank, AfterJobs

LEMMA SendJobInv ==
  ASSUME EmbedInv, SendJob
  PROVE  EmbedInv'
  <1>1. /\ EmbedTypeOK /\ Channels /\ Coming /\ Carried /\ Held /\ Blames /\ Closing
        /\ decode.at = "send" /\ "decode" \notin failed
        /\ UNCHANGED <<windows, failed, elsewhereDecode>>
    BY DEF EmbedInv, SendJob, Blames
  <1>2. PICK done \in 0..MaxWindows : Line(done)
    BY DEF EmbedInv
  <1>3. PoolInv' /\ FirstFailureIsReported' /\ RowsMatch'
    BY <1>1, PoolFrame DEF EmbedInv, RowsMatch, elsewhereDecode
  <1>4. CASE FbankEnded /\ decode' = [decode EXCEPT !.at = "join", !.buffer = NoBatch]
             /\ UNCHANGED jobs
    <2>1. decode' = [at |-> "join", next |-> decode.next, buffer |-> NoBatch]
      BY <1>1, <1>4, Typed
    <2>2. Line(done)' /\ (GpuDied' \/ FbankDied')
      BY <1>1, <1>2, <1>4, NotSentInLine
    <2>3. EmbedTypeOK' /\ Channels'
      BY <1>1, <1>4, <2>1, Typed, EmptyBatch DEF elsewhereDecode, EmbedTypeOK, Channels
    <2>4. Blames' /\ Closing'
      BY <1>1, <1>4, <2>1 DEF elsewhereDecode, Blames, Closing, FbankDied, GpuDied, Broken,
                              FbankEnded, GpuEnded, Verdict
    <2>5. Coming'
      BY <1>1, <2>1, <2>2 DEF elsewhereDecode, Coming
    <2>6. Carried' /\ Held'
      BY <1>1, <1>4, <2>1, EmptyBatch DEF elsewhereDecode, Carried, Held, Matched
    <2>7. QED
      BY <1>3, <2>2, <2>3, <2>4, <2>5, <2>6 DEF EmbedInv
  <1>5. CASE ~FbankEnded /\ HasRoom(jobs) /\ jobs' = Append(jobs, decode.buffer)
             /\ decode' = [at |-> "recv", next |-> decode.next + 1, buffer |-> NoBatch]
    <2>1. Sent
      BY <1>1, <1>5, Slots, Typed DEF Sent
    <2>2. jobs' = << decode.buffer >> /\ decode.buffer \in Batches
      BY <1>1, <2>1, Typed DEF Sent
    <2>3. decode.next \in Nat /\ decode.next <= MaxWindows
      BY <1>1, Typed DEF Coming, EmbedTypeOK
    <2>4. Received' = Received /\ decode'.at = "recv"
      BY <1>1, <1>5, <2>3 DEF Received
    <2>5. Line(done)'
      <3>1. Len(decode.buffer.rows) = call.batch
        BY <1>1 DEF Held
      <3>2. QED
        BY <1>1, <1>2, <2>1, <2>4, <3>1, SentInLine
    <2>6. EmbedTypeOK' /\ Channels'
      <3>1. jobs' \in Seq(Batches) /\ Len(jobs') <= 1
        BY <2>2
      <3>2. decode' \in [at : {"recv", "send", "last", "join"}, next : 1..(MaxWindows + 1),
                         buffer : Batches]
        BY <1>5, <2>3, EmptyBatch, EmbedAssumption
      <3>3. QED
        BY <1>1, <3>1, <3>2 DEF elsewhereDecode, EmbedTypeOK, Channels
    <2>7. Blames' /\ Closing'
      BY <1>1, <1>5 DEF elsewhereDecode, Blames, Closing, FbankDied, GpuDied, Broken,
                        FbankEnded, GpuEnded, Verdict
    <2>8. Coming'
      BY <1>1, <1>5, <2>3, Typed DEF elsewhereDecode, Coming
    <2>9. Carried'
      BY <1>1, <1>5, <2>2, EmptyBatch DEF elsewhereDecode, Carried, Matched
    <2>10. Held'
      BY <1>1, <1>5, EmptyBatch, Typed DEF elsewhereDecode, Held
    <2>11. QED
      BY <1>3, <2>5, <2>6, <2>7, <2>8, <2>9, <2>10 DEF EmbedInv
  <1>6. QED
    BY <1>4, <1>5 DEF SendJob

LEMMA SendLastInv ==
  ASSUME EmbedInv, SendLast
  PROVE  EmbedInv'
  <1>1. /\ EmbedTypeOK /\ Channels /\ Coming /\ Carried /\ Held /\ Blames /\ Closing
        /\ decode.at = "last" /\ "decode" \notin failed /\ decode.next = call.windows + 1
        /\ UNCHANGED <<windows, failed, elsewhereDecode>>
    BY DEF EmbedInv, SendLast, Blames, Coming
  <1>2. PICK done \in 0..MaxWindows : Line(done)
    BY DEF EmbedInv
  <1>3. PoolInv' /\ FirstFailureIsReported' /\ RowsMatch'
    BY <1>1, PoolFrame DEF EmbedInv, RowsMatch, elsewhereDecode
  <1>4. decode' = [at |-> "join", next |-> decode.next, buffer |-> NoBatch]
    BY <1>1, Typed DEF SendLast
  <1>5. Coming'
    BY <1>1, <1>4 DEF elsewhereDecode, Coming
  <1>6. CASE FbankEnded /\ UNCHANGED jobs
    <2>1. Line(done)'
      BY <1>1, <1>2, <1>6, NotSentInLine
    <2>2. EmbedTypeOK' /\ Channels'
      BY <1>1, <1>4, <1>6, Typed, EmptyBatch DEF elsewhereDecode, EmbedTypeOK, Channels
    <2>3. Blames' /\ Closing'
      BY <1>1, <1>4, <1>6 DEF elsewhereDecode, Blames, Closing, FbankDied, GpuDied, Broken,
                              FbankEnded, GpuEnded, Verdict
    <2>4. Carried' /\ Held'
      BY <1>1, <1>4, <1>6, EmptyBatch DEF elsewhereDecode, Carried, Held, Matched
    <2>5. QED
      BY <1>3, <1>5, <2>1, <2>2, <2>3, <2>4 DEF EmbedInv
  <1>7. CASE ~FbankEnded /\ HasRoom(jobs) /\ jobs' = Append(jobs, decode.buffer)
    <2>1. Sent
      BY <1>1, <1>4, <1>7, Slots, Typed DEF Sent
    <2>2. jobs' = << decode.buffer >> /\ decode.buffer \in Batches
      BY <1>1, <2>1, Typed DEF Sent
    <2>3. Line(done)'
      <3>1. /\ Received' = Received /\ Received = call.windows /\ decode'.at = "join"
            /\ Len(decode.buffer.rows) < call.batch
        BY <1>1, <1>4, Typed DEF Received, Held
      <3>2. QED
        BY <1>1, <1>2, <2>1, <3>1, SentInLine
    <2>4. EmbedTypeOK' /\ Channels'
      <3>1. jobs' \in Seq(Batches) /\ Len(jobs') <= 1
        BY <2>2
      <3>2. QED
        BY <1>1, <1>4, <3>1, Typed, EmptyBatch DEF elsewhereDecode, EmbedTypeOK, Channels
    <2>5. Blames' /\ Closing'
      BY <1>1, <1>4, <1>7 DEF elsewhereDecode, Blames, Closing, FbankDied, GpuDied, Broken,
                              FbankEnded, GpuEnded, Verdict
    <2>6. Carried' /\ Held'
      BY <1>1, <1>4, <2>2, EmptyBatch DEF elsewhereDecode, Carried, Held, Matched
    <2>7. QED
      BY <1>3, <1>5, <2>3, <2>4, <2>5, <2>6 DEF EmbedInv
  <1>8. QED
    BY <1>6, <1>7 DEF SendLast

-----------------------------------------------------------------------------
(* The fbank thread and the pool *)

(* It leaves the calling thread and the embedding thread alone.            *)
LEMMA FbankFrame ==
  ASSUME EmbedInv, UNCHANGED elsewhereFbank, failed \subseteq failed',
         FbankDied => FbankDied'
  PROVE  RowsMatch' /\ Coming'
  BY DEF elsewhereFbank, EmbedInv, RowsMatch, Coming, GpuDied

(* A batch moves from the channel to the thread.                           *)
LEMMA TakenInLine ==
  ASSUME EmbedTypeOK, Channels, fbank.batch = NoBatch, jobs # << >>,
         jobs' = << >>, fbank'.batch = jobs[1], ~FbankDied, ~FbankDied',
         UNCHANGED <<prepared, failed, elsewhereFbank>>,
         NEW done \in 0..MaxWindows, Line(done)
  PROVE  Line(done)'
  <1>1. /\ Queued(jobs) = jobs[1] /\ Queued(jobs)' = NoBatch /\ jobs[1] \in Batches
        /\ Len(jobs[1].rows) \in Nat
    BY Slots, Vectors DEF Queued
  <1>2. /\ AfterGpu(done)' = AfterGpu(done) /\ AfterPrepared(done)' = AfterPrepared(done)
        /\ AfterPrepared(done) \in Nat
    BY Places DEF elsewhereFbank, AfterGpu, AfterPrepared, Queued
  <1>3. AfterFbank(done) = AfterPrepared(done)
    BY <1>2, EmptyBatch DEF AfterFbank
  <1>4. AfterFbank(done)' = AfterPrepared(done) + Len(jobs[1].rows)
    BY <1>2 DEF AfterFbank
  <1>5. AfterJobs(done) = AfterPrepared(done) + Len(jobs[1].rows)
    BY <1>1, <1>3 DEF AfterJobs
  <1>6. AfterJobs(done)' = AfterJobs(done)
    BY <1>1, <1>2, <1>4, <1>5, EmptyBatch DEF AfterJobs
  <1>7. /\ GpuDied' = GpuDied
        /\ \A i \in Indices : (rows[i] # Blank)' <=> i <= done
        /\ InLine(gpu.batch, done)'
        /\ InLine(Queued(prepared), AfterGpu(done))'
    BY <1>2 DEF Line, elsewhereFbank, InLine, StartsAt, IsWhole, GpuDied, Queued
  <1>8. ASSUME ~GpuDied
        PROVE  /\ InLine(fbank.batch, AfterPrepared(done))'
               /\ InLine(Queued(jobs), AfterFbank(done))'
               /\ StartsAt(decode.buffer, AfterJobs(done))'
               /\ "decode" \notin failed =>
                    Received' = AfterJobs(done)' + Len(decode'.buffer.rows)
    <2>1. /\ InLine(jobs[1], AfterPrepared(done)) /\ StartsAt(decode.buffer, AfterJobs(done))
          /\ "decode" \notin failed => Received = AfterJobs(done) + Len(decode.buffer.rows)
      BY <1>1, <1>3, <1>8 DEF Line
    <2>2. InLine(fbank.batch, AfterPrepared(done))'
      BY <1>2, <2>1 DEF InLine, StartsAt, IsWhole, elsewhereFbank
    <2>3. InLine(Queued(jobs), AfterFbank(done))'
      BY <1>1, EmptyBatch DEF InLine, StartsAt, IsWhole
    <2>4. StartsAt(decode.buffer, AfterJobs(done))'
      BY <1>6, <2>1 DEF StartsAt, elsewhereFbank
    <2>5. "decode" \notin failed => Received' = AfterJobs(done)' + Len(decode'.buffer.rows)
      BY <1>6, <2>1 DEF Received, elsewhereFbank
    <2>6. QED
      BY <2>2, <2>3, <2>4, <2>5
  <1>9. QED
    BY <1>7, <1>8 DEF Line

(* How a batch is divided depends on the call and on nothing that changes. *)
LEMMA ChunksFrame ==
  ASSUME UNCHANGED call, NEW inputs
  PROVE  /\ UsesPool(Len(inputs))' = UsesPool(Len(inputs))
         /\ Workers(inputs)' = Workers(inputs)
         /\ \A w : Covered(inputs, w)' = Covered(inputs, w)
  BY DEF UsesPool, Workers, Covered, InputsPerWorker

LEMMA TakeJobInv ==
  ASSUME EmbedInv, TakeJob
  PROVE  EmbedInv'
  <1>1. PICK b \in Batches : b = jobs[1]
    BY Slots DEF EmbedInv, TakeJob
  <1>2. PICK inputs \in Seq(Indices) : inputs = b.audio
    BY Vectors
  <1>3. /\ EmbedTypeOK /\ Channels /\ Carried /\ Held /\ Blames /\ Closing
        /\ fbank.at = "recv" /\ jobs # << >> /\ Head(jobs) = b /\ jobs' = << >>
        /\ Matched(b) /\ b.fbanks = << >> /\ ~FbankDied /\ ~FbankEnded
        /\ UNCHANGED <<prepared, failed, elsewhereFbank>>
    <2>1. jobs # << >> /\ EmbedTypeOK /\ Channels /\ Carried
      BY DEF EmbedInv, TakeJob
    <2>2. Head(jobs) = b /\ Tail(jobs) = << >> /\ 1 \in DOMAIN jobs
      BY <1>1, <2>1, Slots DEF EmbedTypeOK
    <2>3. Matched(b) /\ b.fbanks = << >>
      BY <1>1, <2>1, <2>2 DEF Carried
    <2>4. QED
      BY <2>1, <2>2, <2>3 DEF EmbedInv, TakeJob, FbankDied, FbankEnded, Ends
  <1>4. fbank.failure = 0 /\ \A w \in Pool : worker[w] # "busy"
    BY <1>3 DEF EmbedInv, PoolInv
  <1>5. "fbank" \notin failed /\ \A w \in Pool : ~Broken(w)
    BY <1>3 DEF Blames
  <1> DEFINE Pooled == /\ UsesPool(Len(inputs))
                       /\ fbank' = [at |-> "pool", batch |-> b, failure |-> 0,
                                    handles |-> [w \in 1..Workers(inputs) |-> w]]
                       /\ worker' = [w \in Pool |-> IF w \in 1..Workers(inputs) THEN "busy" ELSE "none"]
             Alone == /\ fbank' = [at |-> "standard", batch |-> b, handles |-> fbank.handles,
                                   failure |-> 0]
                      /\ worker' = worker
  <1>6. Pooled \/ Alone
    <2>1. CASE UsesPool(Len(inputs))
      BY <1>2, <1>3, <2>1 DEF TakeJob
    <2>2. CASE ~UsesPool(Len(inputs))
      <3>1. fbank' = [fbank EXCEPT !.at = "standard", !.batch = b] /\ worker' = worker
        BY <1>2, <1>3, <2>2 DEF TakeJob
      <3>2. QED
        BY <1>3, <1>4, <3>1, Typed
    <2>3. QED
      BY <2>1, <2>2
  <1>7. /\ fbank'.batch = b /\ fbank'.at \in {"pool", "standard"} /\ fbank'.failure = 0
        /\ ~FbankDied' /\ ~FbankEnded' /\ \A w \in Pool : ~Broken(w)'
    BY <1>3, <1>5, <1>6 DEF FbankDied, FbankEnded, Ends, Broken
  <1>8. EmbedTypeOK' /\ Channels' /\ PoolInv'
    <2>1. CASE Pooled
      <3>1. Workers(inputs) \in Pool /\ Workers(inputs) \in Nat /\ MaxPool \in Nat
        BY <1>3, <2>1, ChunksAreFull, LargestPool DEF Pool
      <3>2. 1..Workers(inputs) \subseteq Pool
        BY <3>1 DEF Pool
      <3>3. /\ fbank'.handles \in Seq(Pool) /\ Len(fbank'.handles) = Workers(inputs)
            /\ \A i \in DOMAIN fbank'.handles : fbank'.handles[i] = i
        BY <2>1, <3>1, <3>2
      <3>4. EmbedTypeOK' /\ Channels'
        <4>1. fbank' \in [at : {"recv", "standard", "pool", "send"} \cup Ends, batch : Batches,
                          handles : Seq(Pool), failure : Pool \cup {0}]
          BY <2>1, <3>3
        <4>2. worker' \in [Pool -> WorkerStates]
          BY <2>1 DEF WorkerStates
        <4>3. jobs' \in Seq(Batches) /\ Len(jobs') <= 1
          BY <1>3
        <4>4. QED
          BY <1>3, <4>1, <4>2, <4>3 DEF elsewhereFbank, EmbedTypeOK, Channels
      <3>5. Joining(inputs, 0)'
        <4>1. /\ UsesPool(Len(inputs))' /\ Workers(inputs)' = Workers(inputs)
              /\ Covered(inputs, 0)' = Covered(inputs, 0)
          BY <1>3, <2>1, ChunksFrame DEF elsewhereFbank
        <4>2. SubSeq(inputs, 1, Covered(inputs, 0)) = << >>
          BY <1>3, <2>1, ChunksJoin
        <4>3. \A w \in 1..Workers(inputs) : worker'[w] = "busy"
          BY <2>1, <3>2
        <4>4. \A w \in Pool : worker'[w] = "busy" => w \in 1..Workers(inputs)
          BY <2>1
        <4>5. /\ 0 \in 0..Workers(inputs) /\ Len(fbank'.handles) = Workers(inputs) - 0
              /\ \A i \in DOMAIN fbank'.handles : fbank'.handles[i] = 0 + i
          BY <3>1, <3>3
        <4>6. \A w \in Pool : /\ worker'[w] = "busy" => w \in (0 + 1)..Workers(inputs)
                              /\ Broken(w)' => w <= Workers(inputs)
          BY <1>7, <3>1, <4>4
        <4>7. fbank'.batch.fbanks = SubSeq(inputs, 1, Covered(inputs, 0))
          BY <1>3, <1>7, <4>2
        <4>8. \A w \in 1..Workers(inputs) : worker'[w] # "none"
          BY <4>3
        <4>9. \A w \in 1..0 : worker'[w] = "ok"
          OBVIOUS
        <4>10. fbank'.failure <= 0
          BY <1>7
        <4>11. QED
          BY <4>1, <4>5, <4>6, <4>7, <4>8, <4>9, <4>10 DEF Joining
      <3>6. PoolInv'
        <4>1. fbank'.batch.audio = inputs /\ fbank'.at = "pool"
          BY <1>2, <2>1
        <4>2. Workers(inputs)' = Workers(inputs) /\ Workers(inputs) - Len(fbank'.handles) = 0
          BY <1>3, <3>1, <3>3, ChunksFrame DEF elsewhereFbank
        <4>3. QED
          BY <3>5, <4>1, <4>2 DEF PoolInv
      <3>7. QED
        BY <3>4, <3>6
    <2>2. CASE Alone
      <3>1. EmbedTypeOK' /\ Channels'
        <4>1. fbank' \in [at : {"recv", "standard", "pool", "send"} \cup Ends, batch : Batches,
                          handles : Seq(Pool), failure : Pool \cup {0}]
          BY <1>3, <2>2 DEF EmbedTypeOK
        <4>2. jobs' \in Seq(Batches) /\ Len(jobs') <= 1
          BY <1>3
        <4>3. QED
          BY <1>3, <2>2, <4>1, <4>2 DEF elsewhereFbank, EmbedTypeOK, Channels
      <3>2. PoolInv'
        BY <1>4, <2>2 DEF PoolInv
      <3>3. QED
        BY <3>1, <3>2
    <2>3. QED
      BY <1>6, <2>1, <2>2
  <1>9. Blames' /\ Closing'
    BY <1>3, <1>5, <1>7 DEF elsewhereFbank, Blames, Closing, GpuDied, GpuEnded
  <1>10. RowsMatch' /\ Coming'
    BY <1>3, FbankFrame DEF EmbedInv
  <1>11. Carried'
    BY <1>3, <1>7 DEF elsewhereFbank, Carried, Matched
  <1>12. Held'
    <2>1. fbank'.at \notin {"recv", "send"} \cup Ends /\ fbank'.batch.fbanks = << >>
      BY <1>3, <1>7 DEF Ends
    <2>2. QED
      BY <1>3, <2>1 DEF elsewhereFbank, Held
  <1>13. FirstFailureIsReported'
    BY <1>7 DEF FirstFailureIsReported
  <1>14. PICK done \in 0..MaxWindows : Line(done)
    BY DEF EmbedInv
  <1>15. Line(done)'
    <2>1. fbank.batch = NoBatch
      BY <1>3 DEF Held
    <2>2. QED
      BY <1>1, <1>3, <1>7, <1>14, <2>1, TakenInLine
  <1>16. QED
    BY <1>8, <1>9, <1>10, <1>11, <1>12, <1>13, <1>14, <1>15 DEF EmbedInv

(* The fbank thread ends for good: because of its own failure, or because  *)
(* the thread behind it has failed.                                        *)
LEMMA EndFbankInv ==
  ASSUME EmbedInv, ~FbankEnded, NEW how \in Ends, EndFbank(how),
         UNCHANGED <<worker, prepared, elsewhereFbank>>,
         failed' = failed \/ failed' = failed \cup {"fbank"},
         how # "ok" <=> "fbank" \in failed',
         how = "ok" => GpuEnded /\ fbank.failure = 0,
         \A w \in Pool : worker[w] # "busy"
  PROVE  EmbedInv'
  <1>1. /\ EmbedTypeOK /\ Channels /\ Carried /\ Held /\ Blames /\ Closing
        /\ ~FbankDied /\ FbankEnded'
        /\ FbankDied' <=> how # "ok"
        /\ fbank' = [at |-> how, batch |-> NoBatch, handles |-> << >>, failure |-> fbank.failure]
        /\ jobs' = << >>
    <2>1. EmbedTypeOK
      BY DEF EmbedInv
    <2>2. fbank' = [at |-> how, batch |-> NoBatch, handles |-> << >>, failure |-> fbank.failure]
      BY <2>1, Typed DEF EndFbank
    <2>3. QED
      BY <2>1, <2>2 DEF EmbedInv, EndFbank, FbankDied, FbankEnded, Ends
  <1>2. how = "ok" => GpuDied
    BY <1>1 DEF Closing, GpuEnded, GpuDied, Ends
  <1>3. EmbedTypeOK' /\ Channels'
    <2>1. fbank' \in [at : {"recv", "standard", "pool", "send"} \cup Ends, batch : Batches,
                      handles : Seq(Pool), failure : Pool \cup {0}]
      BY <1>1, EmptyBatch DEF EmbedTypeOK
    <2>2. failed' \subseteq Stages
      BY <1>1 DEF EmbedTypeOK, Stages
    <2>3. QED
      BY <1>1, <2>1, <2>2 DEF elsewhereFbank, EmbedTypeOK, Channels
  <1>4. Blames'
    <2>1. "fbank" \in failed' <=> FbankDied'
      BY <1>1
    <2>2. (\E w \in Pool : Broken(w)') => "fbank" \in failed'
      BY <1>1 DEF Blames, Broken
    <2>3. answer' = "none"
      BY <1>1 DEF Blames, elsewhereFbank
    <2>4. "gpu" \in failed' <=> GpuDied'
      BY <1>1 DEF Blames, GpuDied, elsewhereFbank
    <2>5. "decode" \in failed' => decode'.at = "join"
      BY <1>1 DEF Blames, elsewhereFbank
    <2>6. QED
      BY <2>1, <2>2, <2>3, <2>4, <2>5 DEF Blames
  <1>5. Closing'
    BY <1>1, <1>2 DEF elsewhereFbank, Closing, GpuDied
  <1>6. RowsMatch' /\ Coming'
    <2>1. failed \subseteq failed' /\ ~FbankDied
      BY <1>1
    <2>2. UNCHANGED elsewhereFbank
      OBVIOUS
    <2>3. QED
      BY <2>1, <2>2, FbankFrame
  <1>7. Carried' /\ Held'
    BY <1>1, EmptyBatch DEF elsewhereFbank, Carried, Held, Matched, Ends
  <1>8. PoolInv' /\ FirstFailureIsReported'
    BY <1>1 DEF EmbedInv, PoolInv, FirstFailureIsReported, Ends
  <1>9. PICK done \in 0..MaxWindows : Line(done)
    BY DEF EmbedInv
  <1>10. Line(done)'
    <2>1. /\ \A i \in Indices : rows'[i] # Blank <=> i <= done
          /\ InLine(gpu.batch, done) /\ InLine(Queued(prepared), AfterGpu(done))
      BY <1>9 DEF Line, elsewhereFbank
    <2>2. InLine(gpu.batch, done)' /\ InLine(Queued(prepared), AfterGpu(done))'
      BY <2>1 DEF elsewhereFbank, InLine, IsWhole, StartsAt, Queued, AfterGpu
    <2>3. InLine(fbank.batch, AfterPrepared(done))'
      BY <1>1, EmptyBatch DEF InLine, IsWhole, StartsAt
    <2>4. GpuDied' \/ FbankDied'
      BY <1>1, <1>2 DEF GpuDied, elsewhereFbank
    <2>5. QED
      BY <2>1, <2>2, <2>3, <2>4 DEF Line
  <1>11. QED
    BY <1>3, <1>4, <1>5, <1>6, <1>7, <1>8, <1>9, <1>10 DEF EmbedInv

LEMMA NoMoreJobsInv ==
  ASSUME EmbedInv, NoMoreJobs
  PROVE  EmbedInv'
  <1>1. /\ EmbedTypeOK /\ Channels /\ Carried /\ Held /\ Blames /\ Closing
        /\ fbank.at = "recv" /\ fbank'.at = "ok" /\ decode.at = "join" /\ jobs = << >>
        /\ fbank'.batch = fbank.batch /\ fbank'.failure = fbank.failure
        /\ fbank.batch = NoBatch /\ FbankEnded' /\ ~FbankDied /\ ~FbankDied' /\ ~FbankEnded
        /\ UNCHANGED <<jobs, worker, prepared, failed, elsewhereFbank>>
    BY Typed DEF EmbedInv, NoMoreJobs, JobsClosed, Held, FbankDied, FbankEnded, Ends
  <1>2. EmbedTypeOK' /\ Channels'
    <2>1. fbank' \in [at : {"recv", "standard", "pool", "send"} \cup Ends, batch : Batches,
                      handles : Seq(Pool), failure : Pool \cup {0}]
      BY <1>1 DEF NoMoreJobs, EmbedTypeOK, Ends
    <2>2. QED
      BY <1>1, <2>1 DEF elsewhereFbank, EmbedTypeOK, Channels
  <1>3. Blames' /\ Closing'
    BY <1>1 DEF elsewhereFbank, Blames, Closing, GpuDied, Broken
  <1>4. RowsMatch' /\ Coming'
    BY <1>1, FbankFrame DEF EmbedInv
  <1>5. Carried' /\ Held'
    BY <1>1, EmptyBatch DEF elsewhereFbank, Carried, Held, Matched
  <1>6. PoolInv' /\ FirstFailureIsReported'
    BY <1>1 DEF EmbedInv, PoolInv, FirstFailureIsReported
  <1>7. PICK done \in 0..MaxWindows : Line(done)
    BY DEF EmbedInv
  <1>8. Line(done)'
    <2>1. /\ AfterGpu(done)' = AfterGpu(done) /\ AfterPrepared(done)' = AfterPrepared(done)
          /\ AfterFbank(done)' = AfterFbank(done) /\ AfterJobs(done)' = AfterJobs(done)
          /\ Received' = Received
      BY <1>1 DEF elsewhereFbank, AfterGpu, AfterPrepared, AfterFbank, AfterJobs, Queued, Received
    <2>2. /\ InLine(gpu.batch, done)' = InLine(gpu.batch, done)
          /\ InLine(Queued(prepared), AfterGpu(done))' = InLine(Queued(prepared), AfterGpu(done))
          /\ InLine(fbank.batch, AfterPrepared(done))' = InLine(fbank.batch, AfterPrepared(done))
          /\ InLine(Queued(jobs), AfterFbank(done))' = InLine(Queued(jobs), AfterFbank(done))
          /\ StartsAt(decode.buffer, AfterJobs(done))' = StartsAt(decode.buffer, AfterJobs(done))
      BY <1>1, <2>1 DEF elsewhereFbank, InLine, IsWhole, StartsAt, Queued
    <2>3. QED
      BY <1>1, <1>7, <2>1, <2>2 DEF elsewhereFbank, Line, GpuDied
  <1>9. QED
    BY <1>2, <1>3, <1>4, <1>5, <1>6, <1>7, <1>8 DEF EmbedInv

(* While the thread works on a batch, the line stays as it is.             *)
LEMMA FbankWorks ==
  ASSUME EmbedInv, ~FbankEnded, ~FbankEnded', fbank'.batch.rows = fbank.batch.rows,
         fbank'.batch.audio = fbank.batch.audio, fbank'.batch.masks = fbank.batch.masks,
         UNCHANGED <<jobs, prepared, elsewhereFbank>>,
         failed' = failed \/ failed' = failed \cup {"fbank"},
         fbank' \in [at : {"recv", "standard", "pool", "send"} \cup Ends, batch : Batches,
                     handles : Seq(Pool), failure : Pool \cup {0}],
         worker' \in [Pool -> WorkerStates]
  PROVE  /\ EmbedTypeOK' /\ Channels' /\ Closing' /\ Coming' /\ Carried' /\ RowsMatch'
         /\ "gpu" \in failed' <=> GpuDied'
         /\ "decode" \in failed' => decode'.at = "join"
         /\ answer' = "none"
         /\ \E done \in 0..MaxWindows : Line(done)'
  <1>1. /\ EmbedTypeOK /\ Channels /\ Carried /\ Held /\ Blames /\ Closing
        /\ ~FbankDied /\ ~FbankDied' /\ fbank.at # "ok" /\ fbank'.at # "ok"
    BY DEF EmbedInv, FbankDied, FbankEnded, Ends
  <1>2. EmbedTypeOK' /\ Channels'
    <2>1. failed' \subseteq Stages
      BY <1>1 DEF EmbedTypeOK, Stages
    <2>2. QED
      BY <1>1, <2>1 DEF elsewhereFbank, EmbedTypeOK, Channels
  <1>3. Closing'
    BY <1>1 DEF elsewhereFbank, Closing, GpuDied
  <1>4. RowsMatch' /\ Coming'
    BY <1>1, FbankFrame DEF EmbedInv
  <1>5. Carried'
    BY <1>1 DEF elsewhereFbank, Carried, Matched
  <1>6. /\ "gpu" \in failed' <=> GpuDied'
        /\ "decode" \in failed' => decode'.at = "join"
        /\ answer' = "none"
    BY <1>1 DEF elsewhereFbank, Blames, GpuDied
  <1>7. PICK done \in 0..MaxWindows : Line(done)
    BY DEF EmbedInv
  <1>8. Line(done)'
    <2>1. "decode" \in failed' <=> "decode" \in failed
      OBVIOUS
    <2>2. /\ AfterGpu(done)' = AfterGpu(done) /\ AfterPrepared(done)' = AfterPrepared(done)
          /\ AfterFbank(done)' = AfterFbank(done) /\ AfterJobs(done)' = AfterJobs(done)
          /\ Received' = Received
      BY DEF elsewhereFbank, AfterGpu, AfterPrepared, AfterFbank, AfterJobs, Queued, Received
    <2>3. /\ InLine(gpu.batch, done)' = InLine(gpu.batch, done)
          /\ InLine(Queued(prepared), AfterGpu(done))' = InLine(Queued(prepared), AfterGpu(done))
          /\ InLine(fbank.batch, AfterPrepared(done))' = InLine(fbank.batch, AfterPrepared(done))
          /\ InLine(Queued(jobs), AfterFbank(done))' = InLine(Queued(jobs), AfterFbank(done))
          /\ StartsAt(decode.buffer, AfterJobs(done))' = StartsAt(decode.buffer, AfterJobs(done))
      BY <2>2 DEF elsewhereFbank, InLine, IsWhole, StartsAt, Queued
    <2>4. QED
      BY <1>1, <1>7, <2>1, <2>2, <2>3 DEF elsewhereFbank, Line, GpuDied
  <1>9. QED
    BY <1>2, <1>3, <1>4, <1>5, <1>6, <1>7, <1>8

LEMMA StandardFbankInv ==
  ASSUME EmbedInv, StandardFbank
  PROVE  EmbedInv'
  <1>1. /\ EmbedTypeOK /\ Held /\ Blames /\ Carried
        /\ fbank.at = "standard" /\ ~FbankEnded /\ "fbank" \notin failed
        /\ fbank.failure = 0 /\ \A w \in Pool : worker[w] # "busy" /\ ~Broken(w)
        /\ UNCHANGED <<worker, prepared, elsewhereFbank>>
    BY DEF EmbedInv, StandardFbank, FbankEnded, Ends, Blames, PoolInv, FbankDied
  <1>2. CASE /\ fbank' = [fbank EXCEPT !.at = "send", !.batch.fbanks = fbank.batch.audio]
             /\ UNCHANGED <<jobs, failed>>
    <2>0. PICK b : b = [fbank.batch EXCEPT !.fbanks = fbank.batch.audio]
      OBVIOUS
    <2>1. fbank' = [at |-> "send", batch |-> b, handles |-> fbank.handles, failure |-> 0]
      BY <1>1, <1>2, <2>0, Typed
    <2>2. /\ b \in Batches /\ b = fbank'.batch /\ fbank'.batch.audio = fbank.batch.audio
          /\ fbank'.batch.masks = fbank.batch.masks /\ fbank'.batch.rows = fbank.batch.rows
          /\ fbank'.batch.fbanks = fbank.batch.audio
      BY <1>1, <2>0, <2>1, Typed, Vectors DEF Batches
    <2>3. fbank' \in [at : {"recv", "standard", "pool", "send"} \cup Ends, batch : Batches,
                      handles : Seq(Pool), failure : Pool \cup {0}]
      BY <1>1, <2>1, <2>2 DEF EmbedTypeOK
    <2>4. worker' \in [Pool -> WorkerStates]
      BY <1>1 DEF EmbedTypeOK
    <2>5. ~FbankEnded' /\ ~FbankDied'
      BY <2>1 DEF FbankEnded, FbankDied, Ends
    <2>6. /\ EmbedTypeOK' /\ Channels' /\ Closing' /\ Coming' /\ Carried' /\ RowsMatch'
          /\ "gpu" \in failed' <=> GpuDied'
          /\ "decode" \in failed' => decode'.at = "join"
          /\ answer' = "none"
          /\ \E done \in 0..MaxWindows : Line(done)'
      BY <1>1, <1>2, <2>2, <2>3, <2>4, <2>5, FbankWorks
    <2>7. Blames'
      BY <1>1, <1>2, <2>5, <2>6 DEF Blames, Broken
    <2>8. Held'
      BY <1>1, <2>1, <2>2 DEF Held, elsewhereFbank, Carried, Matched, Ends
    <2>9. PoolInv' /\ FirstFailureIsReported'
      BY <1>1, <2>1 DEF PoolInv, FirstFailureIsReported
    <2>10. QED
      BY <2>6, <2>7, <2>8, <2>9 DEF EmbedInv
  <1>3. CASE Fails("fbank") /\ \E how \in {"error", "panic"} : EndFbank(how)
    <2>1. PICK how \in {"error", "panic"} : EndFbank(how)
      BY <1>3
    <2>2. failed' = failed \cup {"fbank"} /\ how \in Ends /\ how # "ok"
      BY <1>3 DEF Fails, Ends
    <2>3. QED
      BY <1>1, <2>1, <2>2, EndFbankInv
  <1>4. QED
    BY <1>2, <1>3 DEF StandardFbank

LEMMA WorkerEndsInv ==
  ASSUME EmbedInv, NEW w \in Pool, WorkerEnds(w)
  PROVE  EmbedInv'
  <1>1. PICK inputs : inputs = fbank.batch.audio
    OBVIOUS
  <1>2. PICK joined : joined = Workers(inputs) - Len(fbank.handles)
    OBVIOUS
  <1>3. PICK how \in Ends : /\ worker' = [worker EXCEPT ![w] = how]
                            /\ how = "ok" => failed' = failed
                            /\ how # "ok" => failed' = failed \cup {"fbank"}
    BY DEF WorkerEnds, Ends, Fails
  <1>4. /\ EmbedTypeOK /\ Held /\ Blames /\ worker[w] = "busy" /\ fbank.at = "pool"
        /\ Joining(inputs, joined) /\ FirstFailureIsReported
        /\ UNCHANGED <<jobs, fbank, prepared, elsewhereFbank>>
    BY <1>1, <1>2 DEF EmbedInv, WorkerEnds, PoolInv
  <1>5. /\ w \in (joined + 1)..Workers(inputs) /\ joined \in Nat /\ Workers(inputs) \in Nat
        /\ fbank.failure \in Nat /\ fbank.failure <= joined /\ 1..Workers(inputs) \subseteq Pool
    <2>1. MaxPool \in Nat
      BY LargestPool
    <2>2. inputs \in Seq(Indices) /\ Workers(inputs) \in Pool
      BY <1>1, <1>4, Typed, Vectors, ChunksAreFull DEF Joining
    <2>3. QED
      BY SMTT(30), <1>4, <2>1, <2>2 DEF Joining, Pool, EmbedTypeOK
  <1>6. /\ worker' \in [Pool -> WorkerStates] /\ worker'[w] = how
        /\ \A v \in Pool \ {w} : worker'[v] = worker[v]
    BY <1>3, <1>4 DEF EmbedTypeOK, WorkerStates
  <1>7. /\ EmbedTypeOK' /\ Channels' /\ Closing' /\ Coming' /\ Carried' /\ RowsMatch'
        /\ "gpu" \in failed' <=> GpuDied'
        /\ "decode" \in failed' => decode'.at = "join"
        /\ answer' = "none"
        /\ \E done \in 0..MaxWindows : Line(done)'
    <2>1. ~FbankEnded /\ ~FbankEnded'
      BY <1>4 DEF FbankEnded, Ends
    <2>2. fbank' \in [at : {"recv", "standard", "pool", "send"} \cup Ends, batch : Batches,
                      handles : Seq(Pool), failure : Pool \cup {0}]
      BY <1>4 DEF EmbedTypeOK
    <2>3. QED
      BY <1>3, <1>4, <1>6, <2>1, <2>2, FbankWorks
  <1>8. Blames'
    <2>1. ~FbankDied' /\ fbank'.at = "pool"
      BY <1>4 DEF FbankDied
    <2>2. (\E v \in Pool : Broken(v)') => "fbank" \in failed'
      BY <1>3, <1>4, <1>6 DEF Blames, Broken
    <2>3. "fbank" \in failed' => \E v \in Pool : Broken(v)'
      <3>1. CASE how = "ok"
        BY <1>3, <1>4, <1>6, <3>1 DEF Blames, Broken, FbankDied
      <3>2. CASE how # "ok"
        BY <1>6, <3>2 DEF Broken, Ends
      <3>3. QED
        BY <3>1, <3>2
    <2>4. QED
      BY <1>7, <2>1, <2>2, <2>3 DEF Blames
  <1>9. Held'
    BY <1>4 DEF Held, elsewhereFbank
  <1>10. Joining(inputs, joined)'
    <2>1. /\ UsesPool(Len(inputs))' = UsesPool(Len(inputs)) /\ Workers(inputs)' = Workers(inputs)
          /\ Covered(inputs, joined)' = Covered(inputs, joined)
      BY <1>4, ChunksFrame DEF elsewhereFbank
    <2>2. /\ UsesPool(Len(inputs)) /\ joined \in 0..Workers(inputs)
          /\ Len(fbank.handles) = Workers(inputs) - joined
          /\ \A i \in DOMAIN fbank.handles : fbank.handles[i] = joined + i
          /\ fbank.failure = 0 => fbank.batch.fbanks = SubSeq(inputs, 1, Covered(inputs, joined))
      BY <1>4 DEF Joining
    <2>3. \A v \in Pool : /\ worker'[v] = "busy" => v \in (joined + 1)..Workers(inputs)
                          /\ Broken(v)' => v <= Workers(inputs)
      BY <1>4, <1>5, <1>6 DEF Joining, Broken
    <2>4. \A v \in 1..Workers(inputs) : worker'[v] # "none"
      <3> SUFFICES ASSUME NEW v \in 1..Workers(inputs) PROVE worker'[v] # "none"
        OBVIOUS
      <3>1. v \in Pool /\ worker[v] # "none"
        BY <1>4, <1>5 DEF Joining
      <3>2. QED
        BY <1>6, <3>1 DEF Ends
    <2>5. fbank.failure = 0 => \A v \in 1..joined : worker'[v] = "ok"
      <3> SUFFICES ASSUME fbank.failure = 0, NEW v \in 1..joined PROVE worker'[v] = "ok"
        OBVIOUS
      <3>1. v \in Pool /\ v # w /\ worker[v] = "ok"
        BY <1>4, <1>5 DEF Joining
      <3>2. QED
        BY <1>6, <3>1
    <2>6. QED
      BY <1>4, <1>5, <2>1, <2>2, <2>3, <2>4, <2>5 DEF Joining
  <1>11. PoolInv'
    <2>1. Workers(inputs)' = Workers(inputs)
      BY <1>4, ChunksFrame DEF elsewhereFbank
    <2>2. QED
      BY <1>1, <1>2, <1>4, <1>10, <2>1 DEF PoolInv
  <1>12. FirstFailureIsReported'
    <2> SUFFICES ASSUME fbank.failure # 0
                 PROVE  /\ worker'[fbank.failure] \in {"error", "panic"}
                        /\ \A v \in 1..(fbank.failure - 1) : worker'[v] = "ok"
      BY <1>4 DEF FirstFailureIsReported
    <2>1. /\ worker[fbank.failure] \in {"error", "panic"}
          /\ \A v \in 1..(fbank.failure - 1) : worker[v] = "ok"
      BY <1>4 DEF FirstFailureIsReported
    <2>2. \A v \in 1..fbank.failure : v \in Pool \ {w}
      BY <1>5
    <2>3. fbank.failure \in 1..fbank.failure /\ 1..(fbank.failure - 1) \subseteq 1..fbank.failure
      BY <1>5
    <2>4. QED
      BY <1>6, <2>1, <2>2, <2>3
  <1>13. QED
    BY <1>7, <1>8, <1>9, <1>11, <1>12 DEF EmbedInv

(* One handle is joined: the worker of the chunk next in line.             *)
LEMMA JoinWorkerInv ==
  ASSUME EmbedInv, JoinWorker
  PROVE  EmbedInv'
  <1>1. PICK inputs \in Seq(Indices) : inputs = fbank.batch.audio
    BY Typed, Vectors DEF EmbedInv
  <1>2. PICK joined : joined = Workers(inputs) - Len(fbank.handles)
    OBVIOUS
  <1>3. /\ EmbedTypeOK /\ Held /\ Blames /\ fbank.at = "pool" /\ fbank.handles # << >>
        /\ Joining(inputs, joined) /\ FirstFailureIsReported /\ worker[Head(fbank.handles)] # "busy"
        /\ UNCHANGED <<jobs, worker, prepared, failed, elsewhereFbank>>
    BY <1>1, <1>2 DEF EmbedInv, JoinWorker, PoolInv
  <1>4. /\ joined \in Nat /\ Workers(inputs) \in Nat /\ 1..Workers(inputs) \subseteq Pool
        /\ fbank.failure \in Nat /\ fbank.failure <= joined /\ fbank.handles \in Seq(Pool)
    <2>1. MaxPool \in Nat
      BY LargestPool
    <2>2. Workers(inputs) \in Pool
      BY <1>3, ChunksAreFull DEF Joining
    <2>3. Workers(inputs) \in Nat /\ 1..Workers(inputs) \subseteq Pool
      BY <2>1, <2>2 DEF Pool
    <2>4. joined \in 0..Workers(inputs) /\ fbank.failure <= joined
      BY <1>3 DEF Joining
    <2>5. fbank.failure \in Nat /\ fbank.handles \in Seq(Pool)
      BY <1>3, <2>1 DEF EmbedTypeOK, Pool
    <2>6. QED
      BY <2>3, <2>4, <2>5
  <1>5. PICK w : w = joined + 1
    OBVIOUS
  <1>6. /\ w \in 1..Workers(inputs) /\ Head(fbank.handles) = w /\ w \in Pool
        /\ Tail(fbank.handles) \in Seq(Pool)
        /\ Len(Tail(fbank.handles)) = Workers(inputs) - w
        /\ \A i \in DOMAIN Tail(fbank.handles) : Tail(fbank.handles)[i] = w + i
    <2>1. Len(fbank.handles) \in Nat \ {0}
      <3>1. Len(fbank.handles) \in Nat \ {0}
        BY ONLY <1>4, <1>3, EmptySeq
      <3>2. QED
        BY <3>1
    <2>2. /\ Len(fbank.handles) = Workers(inputs) - joined /\ 1 \in DOMAIN fbank.handles
          /\ \A i \in DOMAIN fbank.handles : fbank.handles[i] = joined + i
      BY <1>3, <1>4, <2>1 DEF Joining
    <2>3. Head(fbank.handles) = fbank.handles[1]
      BY <1>4, <2>1
    <2>4. /\ Tail(fbank.handles) \in Seq(Pool) /\ Len(Tail(fbank.handles)) = Len(fbank.handles) - 1
          /\ \A i \in 1..Len(Tail(fbank.handles)) : Tail(fbank.handles)[i] = fbank.handles[i + 1]
      BY <1>3, <1>4, HeadTailProperties
    <2>5. w \in 1..Workers(inputs) /\ w \in Pool
      BY <1>4, <1>5, <2>1, <2>2
    <2>6. Len(Tail(fbank.handles)) = Workers(inputs) - w
      BY <1>4, <1>5, <2>2, <2>4
    <2>7. \A i \in DOMAIN Tail(fbank.handles) : Tail(fbank.handles)[i] = w + i
      <3> SUFFICES ASSUME NEW i \in 1..Len(Tail(fbank.handles))
                   PROVE  Tail(fbank.handles)[i] = w + i
        BY <2>4
      <3>1. i \in Nat /\ i + 1 \in DOMAIN fbank.handles
        BY <1>4, <2>1, <2>4
      <3>2. Tail(fbank.handles)[i] = joined + (i + 1)
        BY <2>2, <2>4, <3>1
      <3>3. QED
        BY <1>4, <1>5, <3>1, <3>2
    <2>8. QED
      BY <1>5, <2>2, <2>3, <2>4, <2>5, <2>6, <2>7
  <1>7. /\ worker[w] \in Ends
        /\ worker[w] # "ok" <=> Broken(w)
    BY <1>3, <1>6 DEF Joining, EmbedTypeOK, WorkerStates, Broken, Ends
  <1>8. PICK b : b = [fbank.batch EXCEPT !.fbanks = @ \o Chunk(w, inputs)]
    OBVIOUS
  <1> DEFINE After(batch, failure) ==
               fbank' = [at |-> "pool", batch |-> batch, handles |-> Tail(fbank.handles),
                         failure |-> failure]
  <1>9. \/ fbank.failure = 0 /\ worker[w] = "ok" /\ After(b, 0)
        \/ fbank.failure = 0 /\ Broken(w) /\ After(fbank.batch, w)
        \/ fbank.failure # 0 /\ After(fbank.batch, fbank.failure)
    <2>0. PICK j : j = Joined(w)
      OBVIOUS
    <2>1. fbank' = [j EXCEPT !.handles = Tail(@)]
      BY <1>3, <1>6, <2>0 DEF JoinWorker
    <2>2. CASE fbank.failure # 0
      BY <1>3, <2>0, <2>1, <2>2, Typed DEF Joined
    <2>3. CASE fbank.failure = 0 /\ worker[w] # "ok"
      <3>1. j = [at |-> "pool", batch |-> fbank.batch, handles |-> fbank.handles, failure |-> w]
        BY <1>3, <2>0, <2>3, Typed DEF Joined
      <3>2. After(fbank.batch, w)
        BY <2>1, <3>1
      <3>3. QED
        BY <1>7, <2>3, <3>2
    <2>4. CASE fbank.failure = 0 /\ worker[w] = "ok"
      <3>1. j = [at |-> "pool", batch |-> b, handles |-> fbank.handles, failure |-> 0]
        BY <1>1, <1>3, <1>8, <2>0, <2>4, Typed DEF Joined
      <3>2. After(b, 0)
        BY <2>1, <3>1
      <3>3. QED
        BY <2>4, <3>2
    <2>5. QED
      BY <2>2, <2>3, <2>4
  <1>10. /\ b \in Batches /\ b.audio = fbank.batch.audio /\ b.masks = fbank.batch.masks
         /\ b.rows = fbank.batch.rows /\ b.fbanks = fbank.batch.fbanks \o Chunk(w, inputs)
    <2>1. fbank.batch \in Batches /\ fbank.batch.fbanks \in Seq(Indices)
      BY <1>3, Typed, Vectors
    <2>2. Chunk(w, inputs) \in Seq(Indices)
      <3>1. /\ InputsPerWorker(Len(inputs)) \in Nat \ {0} /\ Len(inputs) \in Nat
            /\ (w - 1) * InputsPerWorker(Len(inputs)) \in 0..(Len(inputs) - 1)
        BY <1>3, <1>6, ChunksAreFull DEF Joining
      <3>2. PICK from \in Nat : from = (w - 1) * InputsPerWorker(Len(inputs))
        BY <3>1
      <3>3. PICK end \in Nat : end = Smaller(w * InputsPerWorker(Len(inputs)), Len(inputs))
        BY <3>1, <1>4, <1>6 DEF Smaller
      <3>4. end <= Len(inputs)
        BY <3>1, <3>3, <1>4, <1>6 DEF Smaller
      <3>5. Chunk(w, inputs) = SubSeq(inputs, from + 1, end)
        BY <3>2, <3>3 DEF Chunk
      <3>6. \A i \in (from + 1)..end : inputs[i] \in Indices
        BY <3>1, <3>2, <3>3, <3>4
      <3>7. QED
        BY <3>5, <3>6, <3>2, <3>3, SubSeqProperties
    <2>3. fbank.batch.fbanks \o Chunk(w, inputs) \in Seq(Indices)
      BY <2>1, <2>2
    <2>4. QED
      BY <1>8, <2>1, <2>3, Vectors DEF Batches
  <1>11. /\ fbank'.at = "pool" /\ fbank'.handles = Tail(fbank.handles)
         /\ fbank'.batch.audio = inputs /\ fbank'.batch.masks = fbank.batch.masks
         /\ fbank'.batch.rows = fbank.batch.rows
         /\ fbank' \in [at : {"recv", "standard", "pool", "send"} \cup Ends, batch : Batches,
                        handles : Seq(Pool), failure : Pool \cup {0}]
         /\ ~FbankEnded /\ ~FbankEnded' /\ ~FbankDied'
    <2>1. fbank.batch \in Batches /\ fbank.failure \in Pool \cup {0}
      BY <1>3 DEF EmbedTypeOK
    <2>2. PICK batch \in Batches, failure \in Pool \cup {0} :
            /\ After(batch, failure) /\ batch.audio = inputs
            /\ batch.masks = fbank.batch.masks /\ batch.rows = fbank.batch.rows
      <3>1. CASE After(b, 0)
        BY <1>1, <1>10, <3>1
      <3>2. CASE After(fbank.batch, w)
        BY <1>1, <1>6, <2>1, <3>2
      <3>3. CASE After(fbank.batch, fbank.failure)
        BY <1>1, <2>1, <3>3
      <3>4. QED
        BY <1>9, <3>1, <3>2, <3>3
    <2>3. QED
      BY <1>3, <1>6, <2>2 DEF FbankEnded, FbankDied, Ends
  <1>12. /\ EmbedTypeOK' /\ Channels' /\ Closing' /\ Coming' /\ Carried' /\ RowsMatch'
         /\ "gpu" \in failed' <=> GpuDied'
         /\ "decode" \in failed' => decode'.at = "join"
         /\ answer' = "none"
         /\ \E done \in 0..MaxWindows : Line(done)'
    <2>1. worker' \in [Pool -> WorkerStates]
      BY <1>3 DEF EmbedTypeOK
    <2>2. QED
      BY <1>1, <1>3, <1>11, <2>1, FbankWorks
  <1>13. Blames'
    BY <1>3, <1>11, <1>12 DEF Blames, Broken, FbankDied
  <1>14. Held'
    BY <1>3, <1>11 DEF Held, elsewhereFbank, Ends
  <1>15. fbank'.failure = 0 =>
           /\ \A v \in 1..w : worker[v] = "ok"
           /\ fbank'.batch.fbanks = SubSeq(inputs, 1, Covered(inputs, w))
    <2> SUFFICES ASSUME fbank'.failure = 0
                 PROVE  /\ \A v \in 1..w : worker[v] = "ok"
                        /\ fbank'.batch.fbanks = SubSeq(inputs, 1, Covered(inputs, w))
      OBVIOUS
    <2>1. fbank.failure = 0 /\ worker[w] = "ok" /\ fbank'.batch = b
      BY <1>4, <1>5, <1>9
    <2>2. \A v \in 1..joined : worker[v] = "ok"
      BY <1>3, <2>1 DEF Joining
    <2>3. fbank.batch.fbanks = SubSeq(inputs, 1, Covered(inputs, w - 1))
      <3>1. joined = w - 1
        BY <1>4, <1>5
      <3>2. fbank.batch.fbanks = SubSeq(inputs, 1, Covered(inputs, joined))
        BY <1>3, <2>1 DEF Joining
      <3>3. QED
        BY <3>1, <3>2
    <2>4. fbank.batch.fbanks \o Chunk(w, inputs) = SubSeq(inputs, 1, Covered(inputs, w))
      <3>1. SubSeq(inputs, 1, Covered(inputs, w - 1)) \o Chunk(w, inputs)
              = SubSeq(inputs, 1, Covered(inputs, w))
        BY <1>3, <1>6, ChunksJoin DEF Joining
      <3>2. QED
        BY <2>3, <3>1
    <2>5. \A v \in 1..w : v \in 1..joined \/ v = w
      BY <1>4, <1>5
    <2>6. fbank'.batch.fbanks = SubSeq(inputs, 1, Covered(inputs, w))
      BY <1>10, <2>1, <2>4
    <2>7. QED
      BY <2>1, <2>2, <2>5, <2>6
  <1>16. Joining(inputs, w)'
    <2>1. /\ UsesPool(Len(inputs))' = UsesPool(Len(inputs)) /\ Workers(inputs)' = Workers(inputs)
          /\ Covered(inputs, w)' = Covered(inputs, w) /\ UsesPool(Len(inputs))
      BY <1>3, ChunksFrame DEF elsewhereFbank, Joining
    <2>2. \A v \in Pool : /\ worker[v] = "busy" => v \in (w + 1)..Workers(inputs)
                          /\ Broken(v)' => v <= Workers(inputs)
      <3> SUFFICES ASSUME NEW v \in Pool
                   PROVE  /\ worker[v] = "busy" => v \in (w + 1)..Workers(inputs)
                          /\ Broken(v)' => v <= Workers(inputs)
        OBVIOUS
      <3>1. worker[v] = "busy" => v \in (joined + 1)..Workers(inputs) /\ v # w
        BY <1>3, <1>6 DEF Joining
      <3>2. Broken(v)' => v <= Workers(inputs)
        BY <1>3 DEF Joining, Broken
      <3>3. QED
        BY <1>4, <1>5, <3>1, <3>2
    <2>3. \A v \in 1..Workers(inputs) : worker[v] # "none"
      BY <1>3 DEF Joining
    <2>4. fbank'.failure <= w
      BY <1>4, <1>5, <1>9
    <2>5. w \in 0..Workers(inputs)
      BY <1>4, <1>6
    <2>6. QED
      BY <1>3, <1>6, <1>11, <1>15, <2>1, <2>2, <2>3, <2>4, <2>5 DEF Joining
  <1>17. PoolInv'
    <2>1. Workers(inputs)' = Workers(inputs)
      BY <1>3, ChunksFrame DEF elsewhereFbank
    <2>2. Workers(inputs) - Len(fbank'.handles) = w
      BY <1>4, <1>6, <1>11
    <2>3. QED
      BY <1>11, <1>16, <2>1, <2>2 DEF PoolInv
  <1>18. FirstFailureIsReported'
    <2>1. CASE fbank.failure # 0
      BY <1>3, <1>9, <2>1 DEF FirstFailureIsReported
    <2>2. CASE fbank.failure = 0 /\ fbank'.failure # 0
      <3>1. fbank'.failure = w /\ Broken(w)
        BY <1>9, <2>2
      <3>2. \A v \in 1..joined : worker[v] = "ok"
        BY <1>3, <2>2 DEF Joining
      <3>3. QED
        BY SMTT(30), <1>3, <1>4, <1>5, <3>1, <3>2 DEF FirstFailureIsReported, Broken
    <2>3. QED
      BY <2>1, <2>2 DEF FirstFailureIsReported
  <1>19. QED
    BY <1>12, <1>13, <1>14, <1>17, <1>18 DEF EmbedInv

LEMMA PoolDoneInv ==
  ASSUME EmbedInv, PoolDone
  PROVE  EmbedInv'
  <1>1. PICK inputs \in Seq(Indices) : inputs = fbank.batch.audio
    BY Typed, Vectors DEF EmbedInv
  <1>2. /\ EmbedTypeOK /\ Held /\ Blames /\ Carried /\ fbank.at = "pool"
        /\ fbank.handles = << >> /\ Len(fbank.handles) = 0 /\ ~FbankEnded /\ ~FbankDied
        /\ FirstFailureIsReported
        /\ UNCHANGED <<worker, prepared, failed, elsewhereFbank>>
    BY DEF EmbedInv, PoolDone, FbankEnded, FbankDied, Ends
  <1>3. /\ Workers(inputs) \in Nat /\ 1..Workers(inputs) \subseteq Pool
        /\ UsesPool(Len(inputs)) /\ Joining(inputs, Workers(inputs))
    <2>1. MaxPool \in Nat
      BY LargestPool
    <2>2. Joining(inputs, Workers(inputs) - 0) /\ UsesPool(Len(inputs))
      BY <1>1, <1>2 DEF EmbedInv, PoolInv, Joining
    <2>3. Workers(inputs) \in Pool
      BY <1>2, <2>2, ChunksAreFull
    <2>4. Workers(inputs) - 0 = Workers(inputs) /\ 1..Workers(inputs) \subseteq Pool
      BY <2>1, <2>3 DEF Pool
    <2>5. QED
      BY <2>1, <2>2, <2>3, <2>4 DEF Pool
  <1>4. \A w \in Pool : worker[w] # "busy"
    BY <1>3 DEF Joining
  <1>5. CASE fbank.failure = 0
    <2>1. fbank' = [at |-> "send", batch |-> fbank.batch, handles |-> << >>, failure |-> 0]
          /\ UNCHANGED jobs
      BY <1>2, <1>5, Typed DEF PoolDone
    <2>2. \A w \in Pool : ~Broken(w)
      <3>1. \A w \in 1..Workers(inputs) : worker[w] = "ok"
        BY <1>3, <1>5 DEF Joining
      <3>2. \A w \in Pool : Broken(w) => w \in 1..Workers(inputs)
        BY <1>3, LargestPool DEF Joining, Pool
      <3>3. QED
        BY <3>1, <3>2 DEF Broken
    <2>3. "fbank" \notin failed
      BY <1>2, <2>2 DEF Blames
    <2>4. fbank.batch.fbanks = fbank.batch.rows
      <3>1. fbank.batch.fbanks = SubSeq(inputs, 1, Covered(inputs, Workers(inputs)))
        BY <1>3, <1>5 DEF Joining
      <3>2. SubSeq(inputs, 1, Covered(inputs, Workers(inputs))) = inputs
        BY <1>2, <1>3, ChunksJoin
      <3>3. inputs = fbank.batch.rows
        BY <1>1, <1>2 DEF Carried, Matched
      <3>4. QED
        BY <3>1, <3>2, <3>3
    <2>5. ~FbankEnded' /\ ~FbankDied' /\ worker' \in [Pool -> WorkerStates]
          /\ fbank' \in [at : {"recv", "standard", "pool", "send"} \cup Ends, batch : Batches,
                         handles : Seq(Pool), failure : Pool \cup {0}]
      BY <1>2, <2>1 DEF FbankEnded, FbankDied, Ends, EmbedTypeOK
    <2>6. /\ EmbedTypeOK' /\ Channels' /\ Closing' /\ Coming' /\ Carried' /\ RowsMatch'
          /\ "gpu" \in failed' <=> GpuDied'
          /\ "decode" \in failed' => decode'.at = "join"
          /\ answer' = "none"
          /\ \E done \in 0..MaxWindows : Line(done)'
      BY <1>2, <2>1, <2>5, FbankWorks
    <2>7. Blames'
      BY <1>2, <2>2, <2>3, <2>5, <2>6 DEF Blames, Broken
    <2>8. Held'
      BY <1>2, <2>1, <2>4 DEF Held, elsewhereFbank, Ends
    <2>9. PoolInv' /\ FirstFailureIsReported'
      BY <1>2, <1>4, <2>1 DEF PoolInv, FirstFailureIsReported
    <2>10. QED
      BY <2>6, <2>7, <2>8, <2>9 DEF EmbedInv
  <1>6. CASE fbank.failure # 0
    <2>1. EndFbank("error")
      BY <1>6 DEF PoolDone
    <2>2. fbank.failure \in Pool /\ Broken(fbank.failure)
      BY <1>2, <1>6 DEF EmbedTypeOK, FirstFailureIsReported, Broken
    <2>3. "fbank" \in failed
      BY <1>2, <2>2 DEF Blames
    <2>4. "error" \in Ends /\ failed' = failed
      BY <1>2 DEF Ends
    <2>5. QED
      BY <1>2, <1>4, <2>1, <2>3, <2>4, EndFbankInv
  <1>7. QED
    BY <1>5, <1>6

(* A batch with its filterbanks goes to the embedding thread.              *)
LEMMA PreparedInLine ==
  ASSUME EmbedTypeOK, Channels, prepared = << >>, prepared' = << fbank.batch >>,
         fbank'.batch = NoBatch, ~GpuDied, ~FbankDied, ~FbankDied',
         UNCHANGED <<jobs, failed, elsewhereFbank>>,
         NEW done \in 0..MaxWindows, Line(done)
  PROVE  Line(done)'
  <1>1. /\ Queued(prepared) = NoBatch /\ Queued(prepared)' = fbank.batch
        /\ Queued(jobs)' = Queued(jobs) /\ Len(fbank.batch.rows) \in Nat
    BY Typed, Vectors DEF Queued
  <1>2. AfterGpu(done)' = AfterGpu(done) /\ AfterGpu(done) \in Nat
    BY Places DEF elsewhereFbank, AfterGpu
  <1>3. AfterPrepared(done) = AfterGpu(done)
    BY <1>1, <1>2, EmptyBatch DEF AfterPrepared
  <1>4. AfterPrepared(done)' = AfterGpu(done) + Len(fbank.batch.rows)
    BY <1>1, <1>2 DEF AfterPrepared
  <1>5. /\ AfterFbank(done) = AfterGpu(done) + Len(fbank.batch.rows)
        /\ AfterFbank(done)' = AfterFbank(done)
    BY <1>1, <1>2, <1>3, <1>4, EmptyBatch DEF AfterFbank
  <1>6. AfterJobs(done)' = AfterJobs(done)
    BY <1>1, <1>5 DEF AfterJobs
  <1>7. /\ GpuDied' = GpuDied
        /\ \A i \in Indices : (rows[i] # Blank)' <=> i <= done
        /\ InLine(gpu.batch, done)'
    BY DEF Line, elsewhereFbank, InLine, StartsAt, IsWhole, GpuDied
  <1>8. InLine(Queued(prepared), AfterGpu(done))'
    <2>1. InLine(fbank.batch, AfterGpu(done))
      BY <1>3 DEF Line
    <2>2. QED
      BY <1>1, <1>2, <2>1 DEF InLine, StartsAt, IsWhole, elsewhereFbank
  <1>9. InLine(fbank.batch, AfterPrepared(done))'
    BY EmptyBatch DEF InLine, StartsAt, IsWhole
  <1>10. /\ InLine(Queued(jobs), AfterFbank(done))'
         /\ StartsAt(decode.buffer, AfterJobs(done))'
         /\ "decode" \notin failed =>
              Received' = AfterJobs(done)' + Len(decode'.buffer.rows)
    <2>1. /\ InLine(Queued(jobs), AfterFbank(done)) /\ StartsAt(decode.buffer, AfterJobs(done))
          /\ "decode" \notin failed => Received = AfterJobs(done) + Len(decode.buffer.rows)
      BY DEF Line
    <2>2. InLine(Queued(jobs), AfterFbank(done))'
      BY <1>1, <1>5, <2>1 DEF InLine, StartsAt, IsWhole, elsewhereFbank
    <2>3. StartsAt(decode.buffer, AfterJobs(done))'
      BY <1>6, <2>1 DEF StartsAt, elsewhereFbank
    <2>4. "decode" \notin failed => Received' = AfterJobs(done)' + Len(decode'.buffer.rows)
      BY <1>6, <2>1 DEF Received, elsewhereFbank
    <2>5. QED
      BY <2>2, <2>3, <2>4
  <1>11. QED
    BY <1>7, <1>8, <1>9, <1>10 DEF Line

LEMMA SendPreparedInv ==
  ASSUME EmbedInv, SendPrepared
  PROVE  EmbedInv'
  <1>1. /\ EmbedTypeOK /\ Channels /\ Held /\ Blames /\ Carried /\ Closing
        /\ fbank.at = "send" /\ ~FbankEnded /\ ~FbankDied
        /\ "fbank" \notin failed /\ fbank.failure = 0 /\ \A w \in Pool : worker[w] # "busy"
        /\ UNCHANGED <<worker, failed, elsewhereFbank>>
    BY DEF EmbedInv, SendPrepared, FbankEnded, FbankDied, Ends, Blames, PoolInv
  <1>2. CASE GpuEnded /\ EndFbank("ok") /\ UNCHANGED prepared
    <2>1. "ok" \in Ends /\ failed' = failed /\ "fbank" \notin failed'
      BY <1>1 DEF Ends
    <2>2. QED
      BY <1>1, <1>2, <2>1, EndFbankInv
  <1>3. CASE /\ ~GpuEnded /\ HasRoom(prepared)
             /\ prepared' = Append(prepared, fbank.batch)
             /\ fbank' = [fbank EXCEPT !.at = "recv", !.batch = NoBatch]
             /\ UNCHANGED jobs
    <2>1. fbank' = [at |-> "recv", batch |-> NoBatch, handles |-> fbank.handles, failure |-> 0]
      BY <1>1, <1>3, Typed
    <2>2. prepared = << >> /\ prepared' = << fbank.batch >> /\ fbank.batch \in Batches
      BY <1>1, <1>3, Slots, Typed
    <2>3. ~FbankEnded' /\ ~FbankDied' /\ ~GpuDied
      BY <1>3, <2>1 DEF FbankEnded, FbankDied, GpuEnded, GpuDied, Ends
    <2>4. EmbedTypeOK' /\ Channels'
      <3>1. prepared' \in Seq(Batches) /\ Len(prepared') <= 1
        BY <2>2
      <3>2. fbank' \in [at : {"recv", "standard", "pool", "send"} \cup Ends, batch : Batches,
                        handles : Seq(Pool), failure : Pool \cup {0}]
        BY <1>1, <2>1, EmptyBatch DEF EmbedTypeOK
      <3>3. QED
        BY <1>1, <1>3, <3>1, <3>2 DEF elsewhereFbank, EmbedTypeOK, Channels
    <2>5. Blames'
      BY <1>1, <2>3 DEF elsewhereFbank, Blames, Broken, GpuDied
    <2>6. Closing'
      <3>1. gpu.at # "ok" /\ gpu' = gpu /\ fbank'.at # "ok"
        BY <1>1, <2>1 DEF Closing, elsewhereFbank
      <3>2. QED
        BY <2>3, <3>1 DEF Closing, GpuDied
    <2>7. RowsMatch' /\ Coming'
      BY <1>1, FbankFrame DEF EmbedInv
    <2>8. Carried'
      <3>1. /\ Matched(fbank.batch) /\ fbank.batch.fbanks = fbank.batch.rows
            /\ DOMAIN prepared' = {1} /\ prepared'[1] = fbank.batch
        BY <1>1, <2>2 DEF Carried, Held
      <3>2. QED
        BY <1>1, <1>3, <2>1, <3>1, EmptyBatch DEF elsewhereFbank, Carried, Matched
    <2>9. Held'
      BY <1>1, <2>1 DEF Held, elsewhereFbank
    <2>10. PoolInv' /\ FirstFailureIsReported'
      BY <1>1, <2>1 DEF PoolInv, FirstFailureIsReported
    <2>11. PICK done \in 0..MaxWindows : Line(done)
      BY DEF EmbedInv
    <2>12. Line(done)'
      BY <1>1, <1>3, <2>1, <2>2, <2>3, <2>11, PreparedInLine
    <2>13. QED
      BY <2>4, <2>5, <2>6, <2>7, <2>8, <2>9, <2>10, <2>11, <2>12 DEF EmbedInv
  <1>4. QED
    BY <1>2, <1>3 DEF SendPrepared

-----------------------------------------------------------------------------
(* The embedding thread *)

LEMMA GpuFrame ==
  ASSUME EmbedInv, UNCHANGED elsewhereGpu, failed \subseteq failed', GpuDied => GpuDied'
  PROVE  Coming' /\ PoolInv' /\ FirstFailureIsReported'
  <1>1. Coming'
    BY DEF elsewhereGpu, EmbedInv, Coming, FbankDied
  <1>2. QED
    BY <1>1, PoolFrame DEF elsewhereGpu, EmbedInv

LEMMA TakePreparedInv ==
  ASSUME EmbedInv, TakePrepared
  PROVE  EmbedInv'
  <1>1. PICK b \in Batches : b = prepared[1]
    BY Slots DEF EmbedInv, TakePrepared
  <1>2. /\ EmbedTypeOK /\ Channels /\ Held /\ Blames /\ Carried /\ Closing /\ RowsMatch
        /\ gpu.at = "recv" /\ prepared # << >> /\ prepared' = << >> /\ gpu.batch = NoBatch
        /\ gpu' = [at |-> "predict", batch |-> b]
        /\ Matched(b) /\ b.fbanks = b.rows /\ ~GpuDied /\ ~GpuDied' /\ ~GpuEnded /\ ~GpuEnded'
        /\ UNCHANGED <<rows, failed, elsewhereGpu>>
    <2>1. EmbedTypeOK /\ Channels /\ Carried /\ prepared # << >> /\ gpu.at = "recv"
      BY DEF EmbedInv, TakePrepared
    <2>2. Head(prepared) = b /\ Tail(prepared) = << >> /\ 1 \in DOMAIN prepared
      BY <1>1, <2>1, Slots DEF EmbedTypeOK
    <2>3. Matched(b) /\ b.fbanks = b.rows
      BY <1>1, <2>1, <2>2 DEF Carried
    <2>4. gpu' = [at |-> "predict", batch |-> b] /\ prepared' = << >>
      BY <2>2 DEF TakePrepared
    <2>5. QED
      BY <2>1, <2>3, <2>4 DEF EmbedInv, TakePrepared, Held, GpuDied, GpuEnded, Ends
  <1>3. EmbedTypeOK' /\ Channels'
    <2>1. prepared' \in Seq(Batches) /\ Len(prepared') <= 1
      BY <1>2
    <2>2. QED
      BY <1>2, <2>1 DEF elsewhereGpu, EmbedTypeOK, Channels
  <1>4. Blames'
    BY <1>2 DEF elsewhereGpu, Blames, Broken, FbankDied
  <1>5. Closing'
    BY <1>2 DEF elsewhereGpu, Closing, FbankEnded
  <1>6. Coming' /\ PoolInv' /\ FirstFailureIsReported' /\ RowsMatch'
    BY <1>2, GpuFrame DEF RowsMatch
  <1>7. Carried' /\ Held'
    BY <1>2 DEF elsewhereGpu, Carried, Held, Matched
  <1>8. PICK done \in 0..MaxWindows : Line(done)
    BY DEF EmbedInv
  <1>9. Line(done)'
    <2>1. Queued(prepared) = b /\ Queued(prepared)' = NoBatch /\ Len(b.rows) \in Nat
      BY <1>1, <1>2, Vectors DEF Queued
    <2>2. AfterGpu(done) = done /\ done \in Nat
      BY <1>2, Places, EmptyBatch DEF AfterGpu
    <2>3. AfterGpu(done)' = done + Len(b.rows)
      BY <1>2 DEF AfterGpu
    <2>4. AfterPrepared(done)' = done + Len(b.rows)
      BY <2>1, <2>2, <2>3, EmptyBatch DEF AfterPrepared
    <2>5. AfterPrepared(done) = done + Len(b.rows)
      BY <2>1, <2>2 DEF AfterPrepared
    <2>6. AfterFbank(done)' = AfterFbank(done) /\ AfterJobs(done)' = AfterJobs(done)
      BY <1>2, <2>4, <2>5 DEF AfterFbank, AfterJobs, elsewhereGpu, Queued
    <2>7. InLine(b, done)
      BY <1>8, <2>1, <2>2 DEF Line
    <2>8. InLine(gpu.batch, done)'
      BY <1>2, <2>7 DEF InLine, StartsAt, IsWhole, elsewhereGpu
    <2>9. InLine(Queued(prepared), AfterGpu(done))'
      BY <2>1, EmptyBatch DEF InLine, StartsAt, IsWhole
    <2>10. InLine(fbank.batch, AfterPrepared(done))'
      BY <1>2, <1>8, <2>4, <2>5 DEF Line, InLine, StartsAt, IsWhole, elsewhereGpu
    <2>11. ~FbankDied' =>
             /\ InLine(Queued(jobs), AfterFbank(done))'
             /\ StartsAt(decode.buffer, AfterJobs(done))'
             /\ "decode" \notin failed' => Received' = AfterJobs(done)' + Len(decode'.buffer.rows)
      BY <1>2, <1>8, <2>6
      DEF Line, InLine, StartsAt, IsWhole, elsewhereGpu, FbankDied, Queued, Received
    <2>12. QED
      BY <1>2, <1>8, <2>8, <2>9, <2>10, <2>11 DEF Line
  <1>10. QED
    BY <1>2, <1>3, <1>4, <1>5, <1>6, <1>7, <1>8, <1>9 DEF EmbedInv

LEMMA NoMorePreparedInv ==
  ASSUME EmbedInv, NoMorePrepared
  PROVE  EmbedInv'
  <1>1. /\ EmbedTypeOK /\ Channels /\ Held /\ Blames /\ Carried /\ Closing /\ RowsMatch
        /\ gpu.at = "recv" /\ prepared = << >> /\ FbankEnded
        /\ gpu'.at = "ok" /\ gpu'.batch = gpu.batch /\ gpu.batch = NoBatch
        /\ ~GpuDied /\ ~GpuDied' /\ ~GpuEnded
        /\ UNCHANGED <<prepared, rows, failed, elsewhereGpu>>
        /\ gpu' \in [at : {"recv", "predict"} \cup Ends, batch : Batches]
    BY DEF EmbedInv, NoMorePrepared, Held, GpuDied, GpuEnded, Ends, EmbedTypeOK
  <1>2. EmbedTypeOK' /\ Channels'
    BY <1>1 DEF elsewhereGpu, EmbedTypeOK, Channels
  <1>3. Blames'
    BY <1>1 DEF elsewhereGpu, Blames, Broken, FbankDied
  <1>4. Closing'
    BY <1>1 DEF elsewhereGpu, Closing, FbankEnded
  <1>5. Coming' /\ PoolInv' /\ FirstFailureIsReported' /\ RowsMatch'
    BY <1>1, GpuFrame DEF RowsMatch
  <1>6. Carried' /\ Held'
    BY <1>1 DEF elsewhereGpu, Carried, Held, Matched
  <1>7. PICK done \in 0..MaxWindows : Line(done)
    BY DEF EmbedInv
  <1>8. Line(done)'
    <2>1. /\ AfterGpu(done)' = AfterGpu(done) /\ AfterPrepared(done)' = AfterPrepared(done)
          /\ AfterFbank(done)' = AfterFbank(done) /\ AfterJobs(done)' = AfterJobs(done)
          /\ Received' = Received
      BY <1>1 DEF elsewhereGpu, AfterGpu, AfterPrepared, AfterFbank, AfterJobs, Queued, Received
    <2>2. /\ InLine(gpu.batch, done)' = InLine(gpu.batch, done)
          /\ InLine(Queued(prepared), AfterGpu(done))' = InLine(Queued(prepared), AfterGpu(done))
          /\ InLine(fbank.batch, AfterPrepared(done))' = InLine(fbank.batch, AfterPrepared(done))
          /\ InLine(Queued(jobs), AfterFbank(done))' = InLine(Queued(jobs), AfterFbank(done))
          /\ StartsAt(decode.buffer, AfterJobs(done))' = StartsAt(decode.buffer, AfterJobs(done))
      BY <1>1, <2>1 DEF elsewhereGpu, InLine, IsWhole, StartsAt, Queued
    <2>3. QED
      BY <1>1, <1>7, <2>1, <2>2 DEF elsewhereGpu, Line, FbankDied
  <1>9. QED
    BY <1>1, <1>2, <1>3, <1>4, <1>5, <1>6, <1>7, <1>8 DEF EmbedInv

(* A batch in line is stored behind the rows that are there.               *)
LEMMA StoresItsRows ==
  ASSUME EmbedTypeOK, Carried, NEW done \in 0..MaxWindows, InLine(gpu.batch, done),
         Store(gpu.batch)
  PROVE  /\ done + Len(gpu.batch.rows) \in 0..MaxWindows
         /\ \A i \in Indices :
              rows'[i] = IF i \in (done + 1)..(done + Len(gpu.batch.rows))
                         THEN [fbank |-> i, mask |-> i] ELSE rows[i]
         /\ rows' = [i \in Indices |-> rows'[i]]
  <1>1. PICK s \in Seq(Indices) : s = gpu.batch.rows
    BY Typed, Vectors
  <1>2. /\ gpu.batch.fbanks = s /\ gpu.batch.masks = s /\ done \in Nat /\ Len(s) \in Nat
        /\ DOMAIN s = 1..Len(s) /\ \A i \in 1..Len(s) : s[i] = done + i /\ s[i] \in Indices
    BY <1>1, Typed DEF Carried, Matched, InLine, StartsAt
  <1>3. done + Len(s) \in 0..MaxWindows
    <2>1. CASE Len(s) = 0
      BY <1>2, <2>1
    <2>2. CASE Len(s) # 0
      <3>1. Len(s) \in 1..Len(s)
        BY <1>2, <2>2
      <3>2. done + Len(s) \in Indices
        BY <1>2, <3>1
      <3>3. QED
        BY <1>2, <3>2, Typed DEF Indices
    <2>3. QED
      BY <2>1, <2>2
  <1>4. rows' = [row \in Indices |->
                   IF \E i \in DOMAIN s : s[i] = row /\ i <= Len(s)
                   THEN LET i == CHOOSE i \in DOMAIN s : s[i] = row IN
                        [fbank |-> s[i], mask |-> s[i]]
                   ELSE rows[row]]
    BY <1>1, <1>2 DEF Store
  <1>5. ASSUME NEW row \in Indices
        PROVE  rows'[row] = IF row \in (done + 1)..(done + Len(s))
                            THEN [fbank |-> row, mask |-> row] ELSE rows[row]
    <2>1. CASE row \in (done + 1)..(done + Len(s))
      <3>1. row - done \in DOMAIN s /\ s[row - done] = row /\ row - done <= Len(s)
        BY <1>2, <2>1
      <3>2. PICK k : k = CHOOSE i \in DOMAIN s : s[i] = row
        OBVIOUS
      <3>3. s[k] = row
        BY <3>1, <3>2
      <3>4. rows'[row] = [fbank |-> s[k], mask |-> s[k]]
        BY <1>4, <3>1, <3>2
      <3>5. QED
        BY <2>1, <3>3, <3>4
    <2>2. CASE row \notin (done + 1)..(done + Len(s))
      <3>1. \A i \in DOMAIN s : s[i] # row
        BY <1>2, <2>2
      <3>2. QED
        BY <1>4, <2>2, <3>1
    <2>3. QED
      BY <2>1, <2>2
  <1>6. QED
    BY <1>1, <1>3, <1>4, <1>5

LEMMA PredictInv ==
  ASSUME EmbedInv, Predict
  PROVE  EmbedInv'
  <1>1. /\ EmbedTypeOK /\ Channels /\ Held /\ Blames /\ Carried /\ Closing /\ RowsMatch
        /\ gpu.at = "predict" /\ ~GpuDied /\ ~GpuEnded
        /\ UNCHANGED elsewhereGpu
    BY DEF EmbedInv, Predict, GpuDied, GpuEnded, Ends
  <1>2. PICK done \in 0..MaxWindows : Line(done)
    BY DEF EmbedInv
  <1>3. CASE /\ Store(gpu.batch)
             /\ gpu' = [at |-> "recv", batch |-> NoBatch]
             /\ UNCHANGED <<prepared, failed>>
    <2>1. PICK next \in 0..MaxWindows : next = done + Len(gpu.batch.rows)
      BY <1>1, <1>2, <1>3, StoresItsRows DEF Line
    <2>2. /\ \A i \in Indices : rows'[i] = IF i \in (done + 1)..next
                                           THEN [fbank |-> i, mask |-> i] ELSE rows[i]
          /\ rows' = [i \in Indices |-> rows'[i]]
      BY <1>1, <1>2, <1>3, <2>1, StoresItsRows DEF Line
    <2>3. /\ \A i \in Indices : (rows[i] # Blank)' <=> i <= next
          /\ RowsMatch'
      <3>1. \A i \in Indices : rows[i] # Blank <=> i <= done
        BY <1>2 DEF Line
      <3>2. done \in Nat /\ next \in Nat /\ done <= next
        <4>1. Len(gpu.batch.rows) \in Nat /\ done \in Nat
          BY <1>1, Typed, Vectors
        <4>2. QED
          BY <2>1, <4>1
      <3>3. \A i \in Indices : [fbank |-> i, mask |-> i] # Blank
        BY BlankIsNoRow
      <3>4. \A i \in Indices : (rows[i] # Blank)' <=> i <= next
        BY <2>2, <3>1, <3>2, <3>3 DEF Indices
      <3>5. RowsMatch'
        BY <1>1, <2>2 DEF RowsMatch
      <3>6. QED
        BY <3>4, <3>5
    <2>4. EmbedTypeOK' /\ Channels'
      <3>1. rows' \in [Indices -> [fbank : Indices, mask : Indices] \cup {Blank}]
        BY <1>1, <2>2 DEF EmbedTypeOK
      <3>2. QED
        BY <1>1, <1>3, <3>1, EmptyBatch DEF elsewhereGpu, EmbedTypeOK, Channels
    <2>5. ~GpuDied' /\ ~GpuEnded'
      BY <1>3 DEF GpuDied, GpuEnded, Ends
    <2>6. Blames'
      BY <1>1, <1>3, <2>5 DEF elsewhereGpu, Blames, Broken, FbankDied
    <2>7. Closing'
      BY <1>1, <1>3, <2>5 DEF elsewhereGpu, Closing, FbankEnded
    <2>8. Coming' /\ PoolInv' /\ FirstFailureIsReported'
      BY <1>1, <1>3, GpuFrame
    <2>9. Carried' /\ Held'
      BY <1>1, <1>3, EmptyBatch DEF elsewhereGpu, Carried, Held, Matched
    <2>10. Line(next)'
      <3>a. AfterGpu(done) = next
        BY <2>1 DEF AfterGpu
      <3>b. AfterGpu(next)' = next
        <4>1. Len(gpu'.batch.rows) = 0
          BY <1>3, EmptyBatch
        <4>2. next + 0 = next
          OBVIOUS
        <4>3. QED
          BY <4>1, <4>2 DEF AfterGpu
      <3>1. AfterGpu(done) = next /\ AfterGpu(next)' = next
        BY <3>a, <3>b
      <3>2. Queued(prepared)' = Queued(prepared) /\ Queued(jobs)' = Queued(jobs)
        BY <1>1, <1>3 DEF Queued, elsewhereGpu
      <3>3. AfterPrepared(next)' = AfterPrepared(done)
        BY <3>1, <3>2 DEF AfterPrepared
      <3>4. AfterFbank(next)' = AfterFbank(done)
        BY <1>1, <3>3 DEF AfterFbank, elsewhereGpu
      <3>5. AfterJobs(next)' = AfterJobs(done)
        BY <3>2, <3>4 DEF AfterJobs
      <3>6. InLine(gpu.batch, next)'
        BY <1>3, EmptyBatch DEF InLine, StartsAt, IsWhole
      <3>7. InLine(Queued(prepared), AfterGpu(next))'
        BY <1>1, <1>2, <3>1, <3>2 DEF Line, InLine, StartsAt, IsWhole, elsewhereGpu
      <3>8. InLine(fbank.batch, AfterPrepared(next))'
        BY <1>1, <1>2, <3>3 DEF Line, InLine, StartsAt, IsWhole, elsewhereGpu
      <3>9. ~FbankDied' =>
              /\ InLine(Queued(jobs), AfterFbank(next))'
              /\ StartsAt(decode.buffer, AfterJobs(next))'
              /\ "decode" \notin failed' =>
                   Received' = AfterJobs(next)' + Len(decode'.buffer.rows)
        BY <1>1, <1>2, <1>3, <3>2, <3>4, <3>5
        DEF Line, InLine, StartsAt, IsWhole, elsewhereGpu, FbankDied, Received
      <3>10. QED
        BY <2>3, <2>5, <3>6, <3>7, <3>8, <3>9 DEF Line
    <2>11. QED
      BY <2>3, <2>4, <2>6, <2>7, <2>8, <2>9, <2>10 DEF EmbedInv
  <1>4. CASE /\ Fails("gpu")
             /\ \E how \in {"error", "panic"} : gpu' = [at |-> how, batch |-> NoBatch]
             /\ prepared' = << >>
             /\ UNCHANGED rows
    <2>1. failed' = failed \cup {"gpu"} /\ GpuDied' /\ GpuEnded' /\ gpu'.batch = NoBatch
          /\ gpu'.at \in {"error", "panic"} /\ prepared' = << >> /\ rows' = rows
      BY <1>4 DEF Fails, GpuDied, GpuEnded, Ends
    <2>2. EmbedTypeOK' /\ Channels'
      <3>1. gpu' \in [at : {"recv", "predict"} \cup Ends, batch : Batches]
        BY <1>4, EmptyBatch DEF Ends
      <3>2. failed' \subseteq Stages
        BY <1>1, <2>1 DEF EmbedTypeOK, Stages
      <3>3. prepared' \in Seq(Batches) /\ Len(prepared') <= 1
        BY <2>1
      <3>4. QED
        BY <1>1, <2>1, <3>1, <3>2, <3>3 DEF elsewhereGpu, EmbedTypeOK, Channels
    <2>3. Blames'
      BY <1>1, <2>1 DEF elsewhereGpu, Blames, Broken, FbankDied
    <2>4. Closing'
      BY <1>1, <2>1 DEF elsewhereGpu, Closing, FbankEnded
    <2>5. Coming' /\ PoolInv' /\ FirstFailureIsReported'
      BY <1>1, <2>1, GpuFrame
    <2>6. Carried' /\ Held'
      BY <1>1, <2>1, EmptyBatch DEF elsewhereGpu, Carried, Held, Matched
    <2>7. RowsMatch'
      BY <1>1, <2>1 DEF RowsMatch
    <2>8. Line(done)'
      <3>1. Queued(prepared)' = NoBatch
        BY <2>1 DEF Queued
      <3>2. InLine(gpu.batch, done)' /\ InLine(Queued(prepared), AfterGpu(done))'
        BY <2>1, <3>1, EmptyBatch DEF InLine, StartsAt, IsWhole
      <3>3. QED
        BY <1>2, <2>1, <3>2 DEF Line
    <2>9. QED
      BY <2>2, <2>3, <2>4, <2>5, <2>6, <2>7, <2>8 DEF EmbedInv
  <1>5. QED
    BY <1>3, <1>4 DEF Predict

-----------------------------------------------------------------------------
(* EmbedInv is inductive, and implies the safety properties *)

LEMMA EmbedStutterInv ==
  ASSUME EmbedInv, UNCHANGED embedVars
  PROVE  EmbedInv'
  <1>1. PICK done \in 0..MaxWindows : Line(done)
    BY DEF EmbedInv
  <1>2. Line(done)'
    BY <1>1
    DEF embedVars, Line, InLine, IsWhole, StartsAt, Queued, FbankDied, GpuDied, AfterGpu,
        AfterPrepared, AfterFbank, AfterJobs, Received
  <1>3. PoolInv' /\ FirstFailureIsReported'
    BY PoolFrame DEF EmbedInv, embedVars
  <1>4. (EmbedTypeOK /\ Channels /\ Held /\ RowsMatch)'
    BY DEF EmbedInv, embedVars, EmbedTypeOK, Channels, Held, RowsMatch
  <1>5. (Blames /\ Closing /\ Coming /\ Carried)'
    BY DEF EmbedInv, embedVars, Blames, Closing, Coming, Carried, Matched, FbankDied, GpuDied,
           Broken, FbankEnded, GpuEnded, Verdict
  <1>6. QED
    BY <1>1, <1>2, <1>3, <1>4, <1>5 DEF EmbedInv

LEMMA EmbedNextInv ==
  ASSUME EmbedInv, EmbedNext
  PROVE  EmbedInv'
  <1>1. CASE Segment
    BY <1>1, SegmentInv
  <1>2. CASE DecodeStep
    BY <1>2, DecodeWindowInv, DecodePanicsInv, SendJobInv, NoMoreWindowsInv, SendLastInv, ReturnInv
    DEF DecodeStep
  <1>3. CASE FbankStep
    BY <1>3, TakeJobInv, NoMoreJobsInv, StandardFbankInv, JoinWorkerInv, PoolDoneInv,
       SendPreparedInv
    DEF FbankStep
  <1>4. CASE GpuStep
    BY <1>4, TakePreparedInv, NoMorePreparedInv, PredictInv DEF GpuStep
  <1>5. CASE \E w \in Pool : WorkerEnds(w)
    BY <1>5, WorkerEndsInv
  <1>6. QED
    BY <1>1, <1>2, <1>3, <1>4, <1>5 DEF EmbedNext

(* When the threads have ended and nothing is to be blamed, nothing is left *)
(* of the line: all the windows have their rows.                           *)
LEMMA OkHasThemAll ==
  ASSUME EmbedInv, decode.at = "join", FbankEnded, GpuEnded, Verdict = "ok"
  PROVE  /\ failed = {}
         /\ decode.next = call.windows + 1
         /\ \A i \in Indices : rows[i] # Blank <=> i <= call.windows
  <1>1. EmbedTypeOK /\ Blames /\ Coming /\ Held /\ Closing
    BY DEF EmbedInv
  <1>2. /\ decode.at = "join" /\ FbankEnded /\ GpuEnded
        /\ "decode" \notin failed /\ fbank.at = "ok" /\ gpu.at = "ok"
    BY DEF Verdict
  <1>3. ~FbankDied /\ ~GpuDied /\ failed = {}
    <2>1. ~FbankDied /\ ~GpuDied /\ fbank.at # "pool"
      BY <1>2 DEF FbankDied, GpuDied
    <2>2. "fbank" \notin failed /\ "gpu" \notin failed
      BY <1>1, <2>1 DEF Blames
    <2>3. failed \subseteq Stages
      BY <1>1 DEF EmbedTypeOK
    <2>4. QED
      BY <1>2, <2>1, <2>2, <2>3 DEF Stages
  <1>4. decode.next = call.windows + 1
    BY <1>1, <1>2, <1>3 DEF Coming
  <1>5. PICK done \in 0..MaxWindows : Line(done)
    BY DEF EmbedInv
  <1>6. /\ decode.buffer = NoBatch /\ fbank.batch = NoBatch /\ gpu.batch = NoBatch
        /\ Queued(jobs) = NoBatch /\ Queued(prepared) = NoBatch
    BY <1>1, <1>2 DEF Held, Closing, FbankEnded, Ends, Queued
  <1>7. AfterJobs(done) = done
    BY <1>1, <1>6, EmptyBatch, Typed DEF AfterJobs, AfterFbank, AfterPrepared, AfterGpu
  <1>8. Received = done
    BY <1>1, <1>2, <1>3, <1>5, <1>6, <1>7, EmptyBatch, Typed DEF Line
  <1>9. done = call.windows
    BY <1>1, <1>2, <1>4, <1>8, Typed DEF Received
  <1>10. QED
    BY <1>3, <1>4, <1>5, <1>9 DEF Line

(* What the answer says is so, and a verdict is that of a stage that       *)
(* failed.                                                                 *)
LEMMA AnswerIsRight ==
  ASSUME EmbedInv
  PROVE  OkIsComplete /\ BlameIsDeserved
  <1>1. EmbedTypeOK /\ Blames
    BY DEF EmbedInv
  <1>2. ASSUME answer = "ok" PROVE OkIsComplete
    <2>1. decode.at = "join" /\ FbankEnded /\ GpuEnded /\ Verdict = "ok"
      BY <1>1, <1>2 DEF Blames
    <2>2. QED
      BY <1>1, <2>1, OkHasThemAll, Typed DEF OkIsComplete, Indices
  <1>3. ASSUME answer \in Stages PROVE answer \in failed
    BY <1>1, <1>3 DEF Blames, Verdict, Stages, FbankDied, GpuDied, FbankEnded, GpuEnded, Ends
  <1>4. QED
    BY <1>2, <1>3 DEF OkIsComplete, BlameIsDeserved

-----------------------------------------------------------------------------
(* The steps are steps of EmbedInOrder *)

LEMMA EmbedInitRefines == EmbedInit => Embedding!Init
  <1> SUFFICES ASSUME EmbedInit PROVE Embedding!Init
    OBVIOUS
  <1>1. call.windows \in 0..MaxWindows /\ call.batch \in 1..MaxWindows
    BY EmbedAssumption DEF EmbedInit
  <1>2. [i \in Indices |-> IF rows[i] = Blank THEN Blank ELSE rows[i].fbank]
          = [i \in 1..MaxWindows |-> Blank]
    BY DEF EmbedInit, Indices
  <1>3. QED
    BY <1>1, <1>2 DEF EmbedInit, Embedding!Init

(* The rows that are written are those of the rows the mapping shows.      *)
LEMMA StoredAre ==
  ASSUME EmbedTypeOK, NEW done \in 0..MaxWindows,
         \A i \in Indices : rows[i] # Blank <=> i <= done
  PROVE  Embedding!Stored = 1..done
  <1>1. \A i \in Indices : rows[i] # Blank => rows[i].fbank # Blank
    <2> SUFFICES ASSUME NEW i \in Indices, rows[i] # Blank PROVE rows[i].fbank # Blank
      OBVIOUS
    <2>1. rows[i].fbank \in Indices
      BY DEF EmbedTypeOK
    <2>2. QED
      BY <2>1, BlankIsNoRow
  <1>2. ASSUME NEW i \in Indices
        PROVE  [j \in Indices |-> IF rows[j] = Blank THEN Blank ELSE rows[j].fbank][i] # Blank
                 <=> i \in 1..done
    <2>1. i \in Nat /\ i >= 1 /\ done \in Nat
      BY Typed DEF Indices
    <2>2. [j \in Indices |-> IF rows[j] = Blank THEN Blank ELSE rows[j].fbank][i] # Blank
            <=> rows[i] # Blank
      BY <1>1
    <2>3. rows[i] # Blank <=> i <= done
      OBVIOUS
    <2>4. QED
      BY <2>1, <2>2, <2>3
  <1>3. 1..done \subseteq Indices
    BY Typed DEF Indices
  <1>4. QED
    BY <1>2, <1>3 DEF Embedding!Stored, Indices

LEMMA PredictRefines ==
  ASSUME EmbedInv, Predict
  PROVE  Embedding!Store \/ UNCHANGED Embedding!vars
  <1>1. /\ EmbedTypeOK /\ Carried /\ Blames /\ answer = "none"
        /\ gpu.at = "predict" /\ UNCHANGED <<call, answer>>
    BY DEF EmbedInv, Predict, elsewhereGpu, Blames, GpuEnded, Ends
  <1>2. PICK done \in 0..MaxWindows : Line(done)
    BY DEF EmbedInv
  <1>3. CASE UNCHANGED rows
    BY <1>1, <1>3 DEF Embedding!vars
  <1>4. CASE Store(gpu.batch) /\ gpu.batch.rows = << >>
    <2>1. Len(gpu.batch.rows) = 0 /\ done \in Nat
      BY <1>1, <1>4, Typed, Vectors
    <2>2. \A i \in Indices : rows'[i] = rows[i]
      <3>1. \A i \in Indices : i \notin (done + 1)..(done + Len(gpu.batch.rows))
        BY <2>1 DEF Indices
      <3>2. QED
        BY <1>1, <1>2, <1>4, <3>1, StoresItsRows DEF Line
    <2>3. [i \in Indices |-> IF rows[i] = Blank THEN Blank ELSE rows[i].fbank]'
            = [i \in Indices |-> IF rows[i] = Blank THEN Blank ELSE rows[i].fbank]
      BY <2>2
    <2>4. QED
      BY <1>1, <2>3 DEF Embedding!vars
  <1>5. CASE Store(gpu.batch) /\ gpu.batch.rows # << >>
    <2>1. PICK len \in Nat \ {0} : len = Len(gpu.batch.rows)
      BY <1>1, <1>5, Typed, Vectors
    <2>2. done \in Nat /\ call.windows \in Nat /\ call.batch \in Nat /\ MaxWindows \in Nat
          /\ done + len <= MaxWindows
      BY <1>1, <1>2, <1>5, <2>1, Typed, StoresItsRows DEF Line
    <2>3. done + len <= call.windows
      <3>1. len \in DOMAIN gpu.batch.rows
        <4>1. DOMAIN gpu.batch.rows = 1..len
          BY <1>1, <2>1, Typed, Vectors
        <4>2. QED
          BY <4>1
      <3>2. gpu.batch.rows[len] = done + len /\ gpu.batch.rows[len] <= call.windows
        BY <1>1, <1>2, <3>1 DEF Line, InLine, StartsAt, Carried, Matched
      <3>3. QED
        BY <3>2
    <2>4. len = call.batch \/ (len < call.batch /\ done + len = call.windows)
      BY <1>2, <1>5, <2>1 DEF Line, InLine, IsWhole
    <2>5. \A i \in Indices : i \in (done + 1)..(done + len)
                             <=> i \in (done + 1)..(done + call.batch) /\ i <= call.windows
      BY <2>2, <2>3, <2>4 DEF Indices
    <2>6. \A i \in Indices : rows'[i] = IF i \in (done + 1)..(done + len)
                                        THEN [fbank |-> i, mask |-> i] ELSE rows[i]
      BY <1>1, <1>2, <1>5, <2>1, StoresItsRows DEF Line
    <2>7. [i \in Indices |-> IF rows[i] = Blank THEN Blank ELSE rows[i].fbank]'
            = [i \in 1..MaxWindows |->
                 IF i \in (done + 1)..(done + call.batch) /\ i <= call.windows THEN i
                 ELSE [j \in Indices |-> IF rows[j] = Blank THEN Blank ELSE rows[j].fbank][i]]
      <3> SUFFICES ASSUME NEW i \in Indices
                   PROVE  (IF rows'[i] = Blank THEN Blank ELSE rows'[i].fbank)
                            = IF i \in (done + 1)..(done + call.batch) /\ i <= call.windows THEN i
                              ELSE (IF rows[i] = Blank THEN Blank ELSE rows[i].fbank)
        BY DEF Indices
      <3>1. [fbank |-> i, mask |-> i] # Blank
        BY BlankIsNoRow
      <3>2. CASE i \in (done + 1)..(done + len)
        <4>1. rows'[i] = [fbank |-> i, mask |-> i]
          BY <2>6, <3>2
        <4>2. i \in (done + 1)..(done + call.batch) /\ i <= call.windows
          BY <2>5, <3>2
        <4>3. QED
          BY <3>1, <4>1, <4>2
      <3>3. CASE i \notin (done + 1)..(done + len)
        <4>1. rows'[i] = rows[i]
          BY <2>6, <3>3
        <4>2. ~(i \in (done + 1)..(done + call.batch) /\ i <= call.windows)
          BY <2>5, <3>3
        <4>3. QED
          BY <4>1, <4>2
      <3>4. QED
        BY <3>2, <3>3
    <2>8. Embedding!Stored = 1..done
      BY <1>1, <1>2, StoredAre DEF Line
    <2>9. done \in 0..(call.windows - 1)
      BY <2>2, <2>3
    <2>10. QED
      BY <1>1, <2>7, <2>8, <2>9 DEF Embedding!Store
  <1>6. QED
    BY <1>3, <1>4, <1>5 DEF Predict

LEMMA ReturnRefines ==
  ASSUME EmbedInv, Return
  PROVE  Embedding!Answer
  <1>1. answer = "none" /\ answer' = Verdict /\ UNCHANGED <<call, rows>>
    BY DEF Return
  <1>2. answer' \in Stages \cup {"ok"}
    BY <1>1 DEF Verdict, Stages
  <1>3. answer' = "ok" => Embedding!Stored = 1..call.windows
    <2>1. SUFFICES ASSUME answer' = "ok" PROVE Embedding!Stored = 1..call.windows
      OBVIOUS
    <2>2. decode.at = "join" /\ FbankEnded /\ GpuEnded /\ Verdict = "ok"
      BY <1>1, <2>1 DEF Return
    <2>3. \A i \in Indices : rows[i] # Blank <=> i <= call.windows
      BY <2>2, OkHasThemAll
    <2>4. EmbedTypeOK /\ call.windows \in 0..MaxWindows
      BY Typed DEF EmbedInv
    <2>5. QED
      BY <2>3, <2>4, StoredAre
  <1>4. QED
    BY <1>1, <1>2, <1>3 DEF Embedding!Answer

LEMMA EmbedNextRefines ==
  ASSUME EmbedInv, EmbedNext
  PROVE  [Embedding!Next]_(Embedding!vars)
  <1>1. CASE Return
    BY <1>1, ReturnRefines DEF Embedding!Next
  <1>2. CASE Predict
    BY <1>2, PredictRefines DEF Embedding!Next
  <1>3. CASE UNCHANGED <<call, rows, answer>>
    BY <1>3 DEF Embedding!vars
  <1>4. QED
    BY <1>1, <1>2, <1>3
    DEF EmbedNext, Segment, DecodeStep, DecodeWindow, DecodePanics, SendJob, NoMoreWindows,
        SendLast, FbankStep, TakeJob, NoMoreJobs, StandardFbank, JoinWorker, PoolDone, SendPrepared,
        GpuStep, TakePrepared, NoMorePrepared, WorkerEnds, elsewhereDecode, elsewhereFbank,
        elsewhereGpu

=============================================================================
