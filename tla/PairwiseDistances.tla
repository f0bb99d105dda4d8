-------------------------- MODULE PairwiseDistances --------------------------
(***************************************************************************)
(* condensed_euclidean_with_workers of the speakrs patch set: the          *)
(* distances of all pairs of embeddings, in the order of the loop it       *)
(* replaced (row by row), computed in blocks of rows that worker threads   *)
(* take from a shared stack.  A distance is the pair it belongs to.        *)
(***************************************************************************)
EXTENDS Integers, Sequences, FiniteSets

CONSTANTS
  MaxEmbeddings,
  BLOCK,             \* rows of a block
  PdistWorkers,      \* the threads SPEAKRS_AHC_THREADS or the cores allow
  Unset              \* a cell of the vector nobody has written

ASSUME PdistAssumption ==
  /\ MaxEmbeddings \in Nat
  /\ BLOCK \in Nat \ {0}
  /\ IsFiniteSet(PdistWorkers) /\ PdistWorkers # {}
  /\ Unset \notin Nat \X Nat

VARIABLES
  embeddings,    \* how many there are, once known
  blocks,        \* the stack of blocks nobody has taken
  holding,       \* the block each worker is at
  condensed      \* the vector

pdistVars == <<embeddings, blocks, holding, condensed>>

Idle == [first |-> 0, end |-> 0, from |-> 0, to |-> 0]

(* The cells of the vector, counted from 0. *)
Total(n) == IF n < 2 THEN 0 ELSE (n * (n - 1)) \div 2
Cells(n) == 0..(Total(n) - 1)

(* The pairs of some rows in the order of the nested loops, and how many   *)
(* come before one of them.                                                *)
PairsOf(n, first, end) == {p \in (first..(end - 1)) \X (0..(n - 1)) : p[1] < p[2]}
Rank(pairs, p) ==
  Cardinality({q \in pairs : q[1] < p[1] \/ (q[1] = p[1] /\ q[2] < p[2])})

(* Mutant: a wrong closed form for the start of a row. *)
SegStartOff(n, i) == i * (n - 1) - (i * i) \div 2

(* Where row i starts in the vector. *)
SegStart(n, i) == i * (n - 1) - (i * (IF i = 0 THEN 0 ELSE i - 1)) \div 2

(* Mutant: a block of exactly BLOCK rows at the end is left out. *)
BlocksOfFloor(n) ==
  [k \in 1..((n - 1) \div BLOCK) |->
     [first |-> (k - 1) * BLOCK, end |-> k * BLOCK,
      from |-> SegStart(n, (k - 1) * BLOCK), to |-> SegStart(n, k * BLOCK)]]

(* Every block takes the cells up to the start of the row behind it.       *)
BlockEnd(n, k) == IF k * BLOCK < n - 1 THEN k * BLOCK ELSE n - 1
BlocksOf(n) ==
  IF n < 2 THEN << >>
  ELSE [k \in 1..((n - 1 + BLOCK - 1) \div BLOCK) |->
          [first |-> (k - 1) * BLOCK, end |-> BlockEnd(n, k),
           from |-> SegStart(n, (k - 1) * BLOCK), to |-> SegStart(n, BlockEnd(n, k))]]

PdistInit ==
  /\ embeddings = 0
  /\ blocks = << >>
  /\ holding = [w \in PdistWorkers |-> Idle]
  /\ condensed = [cell \in Cells(0) |-> Unset]

Split(n) ==
  /\ embeddings' = n
  /\ blocks' = BlocksOf(n)
  /\ condensed' = [cell \in Cells(n) |-> Unset]
  /\ UNCHANGED holding

Pop(w) ==
  /\ holding[w] = Idle
  /\ blocks # << >>
  /\ holding' = [holding EXCEPT ![w] = blocks[Len(blocks)]]
  /\ blocks' = SubSeq(blocks, 1, Len(blocks) - 1)
  /\ UNCHANGED <<embeddings, condensed>>

(* The worker writes its own slice, one cell per pair. *)
Compute(w) ==
  /\ holding[w] # Idle
  /\ LET b == holding[w]
         mine == PairsOf(embeddings, b.first, b.end) IN
     condensed' = [cell \in DOMAIN condensed |->
                     IF cell \in b.from..(b.to - 1)
                     THEN CHOOSE p \in mine : Rank(mine, p) = cell - b.from
                     ELSE condensed[cell]]
  /\ holding' = [holding EXCEPT ![w] = Idle]
  /\ UNCHANGED <<embeddings, blocks>>

(* The scope ends when the stack is empty and all workers have left. *)
AllComputed == blocks = << >> /\ \A w \in PdistWorkers : holding[w] = Idle

PdistStep == \E w \in PdistWorkers : Pop(w) \/ Compute(w)

PdistTypeOK ==
  /\ embeddings \in 0..MaxEmbeddings
  /\ \A w \in PdistWorkers : holding[w] = Idle \/ holding[w].end \in 1..embeddings
  /\ DOMAIN condensed = Cells(embeddings)

-----------------------------------------------------------------------------
(* A slice is exactly as long as what is written to it: neither does a     *)
(* worker run over its end, nor are cells left between two blocks.         *)
SlicesFit ==
  \A w \in PdistWorkers : holding[w] # Idle =>
    holding[w].to - holding[w].from
      = Cardinality(PairsOf(embeddings, holding[w].first, holding[w].end))

(* When the workers are done, every cell holds the distance the plain      *)
(* double loop put there: clustering reads the vector by position.         *)
CondensedIsInOrder ==
  AllComputed =>
    LET all == PairsOf(embeddings, 0, embeddings - 1) IN
    \A p \in all : condensed[Rank(all, p)] = p
=============================================================================
