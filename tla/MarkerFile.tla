------------------------------ MODULE MarkerFile ------------------------------
(***************************************************************************)
(* Marker::write and Marker::read (provision/marker.rs) on a file system: *)
(* std::fs::write truncates one fixed sibling temp file and fills it      *)
(* block by block, std::fs::rename replaces the marker with it.  A writer *)
(* may be killed, or fail, between any two system calls; the next one     *)
(* finds its temp file.  Nothing stops two writers at the same time:      *)
(* MaxWriters says how many the operator runs.                            *)
(***************************************************************************)
EXTENDS Naturals, FiniteSets

CONSTANTS
  Writers, Readers,
  MaxWriters,
  Claims,        \* the markers somebody may write
  Inodes,        \* enough of them: one per writer and reader, and two names
  NumBlocks,     \* system calls it takes to write, or to read, one marker
  None,          \* a name without an inode; a process without an open file
  Hole,          \* a block nothing has been written to
  NoClaim,       \* read: there is no marker
  Torn,          \* read: what is there does not parse
  NotReading

ASSUME MarkerFileAssumption ==
  /\ MaxWriters \in Nat
  /\ NumBlocks \in Nat \ {0}
  /\ None \notin Inodes
  /\ Hole \notin Claims
  /\ NoClaim \notin Claims
  /\ Torn \notin Claims \cup {NoClaim}
  /\ NotReading \notin Claims \cup {NoClaim, Torn}
  /\ IsFiniteSet(Writers)

Blocks == 1..NumBlocks

VARIABLES
  data,          \* the blocks of each inode
  tmp,           \* diar-provision.json.tmp
  path,          \* diar-provision.json
  pc,            \* of each writer
  claim,         \* what each writer writes
  fd,            \* the inode each writer has open
  written,       \* how many blocks it has written
  rfd,           \* the inode each reader has open
  got,           \* the blocks it has read
  answer         \* what it last answered

writerVars == <<data, tmp, path, pc, claim, fd, written>>
readerVars == <<rfd, got, answer>>
vars == <<writerVars, readerVars>>

TypeOK ==
  /\ data \in [Inodes -> [Blocks -> Claims \cup {Hole}]]
  /\ tmp \in Inodes \cup {None}
  /\ path \in Inodes \cup {None}
  /\ pc \in [Writers -> {"idle", "write"}]
  /\ claim \in [Writers -> Claims \cup {NoClaim}]
  /\ fd \in [Writers -> Inodes \cup {None}]
  /\ written \in [Writers -> 0..NumBlocks]
  /\ rfd \in [Readers -> Inodes \cup {None}]
  /\ got \in [Readers -> UNION {[1..n -> Claims \cup {Hole}] : n \in 0..NumBlocks}]
  /\ answer \in [Readers -> Claims \cup {NoClaim, Torn}]

-----------------------------------------------------------------------------
Empty == [b \in Blocks |-> Hole]
Whole(c) == [b \in Blocks |-> c]

(* serde_json::from_slice: one whole claim, or a parse error. *)
Parse(blocks) ==
  IF \E c \in Claims : blocks = Whole(c) THEN blocks[1] ELSE Torn

Init ==
  /\ \E c \in Claims \cup {NoClaim}, i \in Inodes :
       /\ path = IF c = NoClaim THEN None ELSE i
       /\ data = [j \in Inodes |-> IF c # NoClaim /\ j = i THEN Whole(c) ELSE Empty]
  /\ tmp = None
  /\ pc = [w \in Writers |-> "idle"]
  /\ claim = [w \in Writers |-> NoClaim]
  /\ fd = [w \in Writers |-> None]
  /\ written = [w \in Writers |-> 0]
  /\ rfd = [r \in Readers |-> None]
  /\ got = [r \in Readers |-> << >>]
  /\ answer = [r \in Readers |-> NoClaim]

Writing == {w \in Writers : pc[w] # "idle"}

Referenced ==
  {tmp, path} \cup {fd[w] : w \in Writers} \cup {rfd[r] : r \in Readers}

(* Mutant: the marker is opened in place, without a temp file. *)
OpenInPlace(w, c) ==
  /\ pc[w] = "idle"
  /\ Cardinality(Writing) < MaxWriters
  /\ \E i \in Inodes :
       /\ i = path \/ (path = None /\ i \notin Referenced)
       /\ data' = [data EXCEPT ![i] = Empty]
       /\ fd' = [fd EXCEPT ![w] = i]
       /\ path' = i
       /\ tmp' = i
  /\ pc' = [pc EXCEPT ![w] = "write"]
  /\ claim' = [claim EXCEPT ![w] = c]
  /\ UNCHANGED <<written, readerVars>>

(* open(tmp, O_CREAT | O_TRUNC): the temp file that is there, or a new one. *)
OpenTmp(w, c) ==
  /\ pc[w] = "idle"
  /\ Cardinality(Writing) < MaxWriters
  /\ \E i \in Inodes :
       /\ i = tmp \/ (tmp = None /\ i \notin Referenced)
       /\ data' = [data EXCEPT ![i] = Empty]
       /\ fd' = [fd EXCEPT ![w] = i]
       /\ tmp' = i
  /\ pc' = [pc EXCEPT ![w] = "write"]
  /\ claim' = [claim EXCEPT ![w] = c]
  /\ UNCHANGED <<path, written, readerVars>>

(* Mutant: one system call too many. *)
WriteBlockPastEnd(w) ==
  /\ pc[w] = "write"
  /\ data' = [data EXCEPT ![fd[w]] =
                [b \in Blocks |-> IF b = written[w] + 1 THEN claim[w] ELSE @[b]]]
  /\ written' = [written EXCEPT ![w] = @ + 1]
  /\ UNCHANGED <<tmp, path, pc, claim, fd, readerVars>>

WriteBlock(w) ==
  /\ pc[w] = "write"
  /\ written[w] < NumBlocks
  /\ data' = [data EXCEPT ![fd[w]] =
                [b \in Blocks |-> IF b = written[w] + 1 THEN claim[w] ELSE @[b]]]
  /\ written' = [written EXCEPT ![w] = @ + 1]
  /\ UNCHANGED <<tmp, path, pc, claim, fd, readerVars>>

Closes(w) ==
  /\ pc' = [pc EXCEPT ![w] = "idle"]
  /\ claim' = [claim EXCEPT ![w] = NoClaim]
  /\ fd' = [fd EXCEPT ![w] = None]
  /\ written' = [written EXCEPT ![w] = 0]

(* Mutant: renamed before the last block. *)
RenameEarly(w) ==
  /\ pc[w] = "write"
  /\ path' = IF tmp = None THEN path ELSE tmp
  /\ tmp' = None
  /\ Closes(w)
  /\ UNCHANGED <<data, readerVars>>

(* rename(tmp, path) moves whatever the name tmp stands for now; without   *)
(* one it fails, and so does the write.                                    *)
Rename(w) ==
  /\ pc[w] = "write"
  /\ written[w] = NumBlocks
  /\ path' = IF tmp = None THEN path ELSE tmp
  /\ tmp' = None
  /\ Closes(w)
  /\ UNCHANGED <<data, readerVars>>

(* Killed, or out of space: the temp file stays as it is. *)
GiveUp(w) ==
  /\ pc[w] = "write"
  /\ Closes(w)
  /\ UNCHANGED <<data, tmp, path, readerVars>>

-----------------------------------------------------------------------------
OpenMarker(r) ==
  /\ rfd[r] = None
  /\ path # None
  /\ rfd' = [rfd EXCEPT ![r] = path]
  /\ UNCHANGED <<writerVars, got, answer>>

(* ErrorKind::NotFound is Ok(None). *)
NoMarkerYet(r) ==
  /\ rfd[r] = None
  /\ path = None
  /\ answer' = [answer EXCEPT ![r] = NoClaim]
  /\ UNCHANGED <<writerVars, rfd, got>>

BlocksRead(r) == Cardinality(DOMAIN got[r])

ReadBlock(r) ==
  /\ rfd[r] # None
  /\ BlocksRead(r) < NumBlocks
  /\ got' = [got EXCEPT ![r] =
               [b \in 1..(BlocksRead(r) + 1) |->
                  IF b <= BlocksRead(r) THEN @[b] ELSE data[rfd[r]][b]]]
  /\ UNCHANGED <<writerVars, rfd, answer>>

AnswerRead(r) ==
  /\ rfd[r] # None
  /\ BlocksRead(r) = NumBlocks
  /\ answer' = [answer EXCEPT ![r] = Parse(got[r])]
  /\ rfd' = [rfd EXCEPT ![r] = None]
  /\ got' = [got EXCEPT ![r] = << >>]
  /\ UNCHANGED writerVars

Next ==
  \/ \E w \in Writers :
       \/ \E c \in Claims : OpenTmp(w, c)
       \/ WriteBlock(w) \/ Rename(w) \/ GiveUp(w)
  \/ \E r \in Readers :
       OpenMarker(r) \/ NoMarkerYet(r) \/ ReadBlock(r) \/ AnswerRead(r)

Spec == Init /\ [][Next]_vars

-----------------------------------------------------------------------------
(* What is under the marker's name parses (marker.rs write: "a torn marker *)
(* would be a claim nobody can evaluate").                                 *)
NeverTorn == path # None => \E c \in Claims : data[path] = Whole(c)

Visible(i) == IF i = None THEN NoClaim ELSE Parse(data[i])

(* To a reader, writing a marker is one step: with one writer at a time    *)
(* write and read implement AtomicMarker, whatever a killed writer left.   *)
Atomic == INSTANCE AtomicMarker WITH
  published <- Visible(path),
  reading <- [r \in Readers |-> IF rfd[r] = None THEN NotReading ELSE Visible(rfd[r])],
  answer <- answer

WriteIsAtomic == Atomic!Spec
=============================================================================
