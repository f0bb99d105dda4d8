-------------------------- MODULE MarkerFile_proofs --------------------------
(***************************************************************************)
(* Theorems of MarkerFile, for any number of writers, readers, blocks and *)
(* claims: with one writer at a time what is under the marker's name      *)
(* always parses, and write and read implement AtomicMarker.              *)
(***************************************************************************)
EXTENDS MarkerFile, FiniteSetTheorems, TLAPS

-----------------------------------------------------------------------------
(* A writer that is writing has a file and a claim.                        *)
FileInv ==
  /\ TypeOK
  /\ \A w \in Writing : fd[w] \in Inodes /\ claim[w] \in Claims

Prefixes == UNION {[1..n -> Claims \cup {Hole}] : n \in 0..NumBlocks}

LEMMA PrefixesAre ==
  ASSUME NEW n \in 0..NumBlocks, NEW f \in [1..n -> Claims \cup {Hole}]
  PROVE  f \in Prefixes
  BY DEF Prefixes

LEMMA NothingIsPrefix == << >> \in Prefixes
  <1>1. << >> \in [1..0 -> Claims \cup {Hole}] /\ 0 \in 0..NumBlocks
    BY MarkerFileAssumption
  <1>2. QED
    BY <1>1, PrefixesAre

LEMMA ReadSoFar ==
  ASSUME TypeOK, NEW r \in Readers
  PROVE  /\ BlocksRead(r) \in 0..NumBlocks
         /\ got[r] \in [1..BlocksRead(r) -> Claims \cup {Hole}]
  <1>0. got[r] \in Prefixes
    BY DEF TypeOK, Prefixes
  <1>1. PICK n \in 0..NumBlocks : got[r] \in [1..n -> Claims \cup {Hole}]
    BY <1>0 DEF Prefixes
  <1>2. Cardinality(1..n) = n
    BY <1>1, FS_Interval, MarkerFileAssumption
  <1>3. QED
    BY <1>1, <1>2 DEF BlocksRead

LEMMA InitFileInv == Init => FileInv
  <1> SUFFICES ASSUME Init PROVE FileInv
    OBVIOUS
  <1>1. got \in [Readers -> Prefixes]
    BY NothingIsPrefix DEF Init
  <1>3. PICK c \in Claims \cup {NoClaim}, i \in Inodes :
          /\ path = IF c = NoClaim THEN None ELSE i
          /\ data = [j \in Inodes |-> IF c # NoClaim /\ j = i THEN Whole(c) ELSE Empty]
    BY DEF Init
  <1>4. data \in [Inodes -> [Blocks -> Claims \cup {Hole}]] /\ path \in Inodes \cup {None}
    BY <1>3 DEF Whole, Empty
  <1>5. Writing = {} /\ 0 \in 0..NumBlocks
    BY MarkerFileAssumption DEF Init, Writing
  <1>6. TypeOK
    BY <1>1, <1>4, <1>5 DEF Init, TypeOK, Prefixes
  <1>7. QED
    BY <1>5, <1>6 DEF FileInv

LEMMA NextFileInv ==
  ASSUME FileInv, [Next]_vars
  PROVE  FileInv'
  <1> USE DEF FileInv
  <1>1. ASSUME NEW w \in Writers, NEW c \in Claims, OpenTmp(w, c)
        PROVE  FileInv'
    <2>1. PICK i \in Inodes :
            /\ data' = [data EXCEPT ![i] = Empty]
            /\ fd' = [fd EXCEPT ![w] = i]
            /\ tmp' = i
      BY <1>1 DEF OpenTmp
    <2>2. data' \in [Inodes -> [Blocks -> Claims \cup {Hole}]]
      BY <2>1 DEF TypeOK, Empty
    <2>3. QED
      BY <1>1, <2>1, <2>2 DEF OpenTmp, TypeOK, Writing, readerVars
  <1>2. ASSUME NEW w \in Writers, WriteBlock(w)
        PROVE  FileInv'
    <2>1. w \in Writing /\ fd[w] \in Inodes /\ claim[w] \in Claims
      BY <1>2 DEF WriteBlock, Writing
    <2>2. data' \in [Inodes -> [Blocks -> Claims \cup {Hole}]]
      BY <1>2, <2>1 DEF WriteBlock, TypeOK
    <2>3. written' \in [Writers -> 0..NumBlocks]
      BY <1>2, MarkerFileAssumption DEF WriteBlock, TypeOK
    <2>4. QED
      BY <1>2, <2>2, <2>3 DEF WriteBlock, TypeOK, Writing, readerVars
  <1>3. ASSUME NEW w \in Writers, Rename(w) \/ GiveUp(w)
        PROVE  FileInv'
    <2>1. 0 \in 0..NumBlocks
      BY MarkerFileAssumption
    <2>2. /\ Closes(w) /\ UNCHANGED <<data, rfd, got, answer>>
          /\ tmp' \in {tmp, None} /\ path' \in {tmp, path}
      BY <1>3 DEF Rename, GiveUp, readerVars
    <2>3. TypeOK'
      BY <2>1, <2>2 DEF Closes, TypeOK
    <2>4. QED
      BY <2>2, <2>3 DEF Closes, TypeOK, Writing
  <1>4. ASSUME NEW r \in Readers, OpenMarker(r) \/ NoMarkerYet(r)
        PROVE  FileInv'
    BY <1>4 DEF OpenMarker, NoMarkerYet, TypeOK, Writing, writerVars
  <1>5. ASSUME NEW r \in Readers, ReadBlock(r)
        PROVE  FileInv'
    <2> DEFINE n == BlocksRead(r)
    <2>1. n \in 0..NumBlocks /\ n + 1 \in 0..NumBlocks /\ got[r] \in [1..n -> Claims \cup {Hole}]
      BY <1>5, ReadSoFar, MarkerFileAssumption DEF ReadBlock
    <2>2. rfd[r] \in Inodes /\ \A b \in 1..(n + 1) : b <= n \/ b \in Blocks
      BY <1>5, <2>1, MarkerFileAssumption DEF ReadBlock, TypeOK, Blocks
    <2>3. [b \in 1..(n + 1) |-> IF b <= n THEN got[r][b] ELSE data[rfd[r]][b]]
             \in [1..(n + 1) -> Claims \cup {Hole}]
      BY <2>1, <2>2, MarkerFileAssumption DEF TypeOK
    <2>4. got' \in [Readers -> Prefixes]
      BY <1>5, <2>1, <2>3, PrefixesAre DEF ReadBlock, TypeOK, Prefixes
    <2>5. QED
      BY <1>5, <2>4 DEF ReadBlock, TypeOK, Writing, writerVars, Prefixes
  <1>6. ASSUME NEW r \in Readers, AnswerRead(r)
        PROVE  FileInv'
    <2>1. got[r] \in [Blocks -> Claims \cup {Hole}] /\ 1 \in Blocks
      BY <1>6, ReadSoFar, MarkerFileAssumption DEF AnswerRead, Blocks
    <2>2. Parse(got[r]) \in Claims \cup {Torn}
      BY <2>1 DEF Parse, Whole
    <2>3. got' \in [Readers -> Prefixes]
      BY <1>6, NothingIsPrefix DEF AnswerRead, TypeOK, Prefixes
    <2>4. QED
      BY <1>6, <2>2, <2>3 DEF AnswerRead, TypeOK, Writing, writerVars, Prefixes
  <1>7. CASE UNCHANGED vars
    BY <1>7 DEF vars, writerVars, readerVars, TypeOK, Writing
  <1>8. QED
    BY <1>1, <1>2, <1>3, <1>4, <1>5, <1>6, <1>7 DEF Next

(* However many writers the operator runs, every variable keeps its type;  *)
(* in particular a read stops at the end of the file (marker.rs write,     *)
(* read).                                                                  *)
THEOREM MarkerTypes == Spec => []TypeOK
  BY InitFileInv, NextFileInv, PTL DEF Spec, FileInv

-----------------------------------------------------------------------------
(* One writer at a time.  The temp file is the writer's alone and carries  *)
(* its claim as far as it has written; the marker and what a reader has    *)
(* open are whole, and neither is the temp file.  Before the first marker  *)
(* nobody has read one.                                                    *)
WholeAt(i) == \E c \in Claims : data[i] = Whole(c)

WriterOK(w) ==
  IF pc[w] = "idle" THEN fd[w] = None /\ written[w] = 0
  ELSE /\ tmp # None /\ fd[w] = tmp
       /\ \A b \in 1..written[w] : data[tmp][b] = claim[w]

ReaderOK(r) ==
  IF rfd[r] = None THEN got[r] = << >>
  ELSE /\ path # None /\ rfd[r] # tmp /\ WholeAt(rfd[r])
       /\ \A b \in DOMAIN got[r] : got[r][b] = data[rfd[r]][b]

MarkerInv ==
  /\ FileInv
  /\ \A v, w \in Writing : v = w
  /\ \A w \in Writers : WriterOK(w)
  /\ path # None => path # tmp /\ WholeAt(path)
  /\ path = None => \A r \in Readers : answer[r] = NoClaim
  /\ \A r \in Readers : ReaderOK(r)

LEMMA ParseWhole ==
  ASSUME NEW c \in Claims
  PROVE  Parse(Whole(c)) = c
  BY MarkerFileAssumption DEF Parse, Whole, Blocks

(* With one writer at a time, who opens the temp file is alone.            *)
LEMMA OpensAlone ==
  ASSUME MaxWriters <= 1, Cardinality(Writing) < MaxWriters
  PROVE  Writing = {}
  <1>1. IsFiniteSet(Writing)
    BY MarkerFileAssumption, FS_Subset DEF Writing
  <1>2. Cardinality(Writing) \in Nat /\ (Cardinality(Writing) = 0 <=> Writing = {})
    BY <1>1, FS_CardinalityType, FS_EmptySet
  <1>3. QED
    BY <1>2, MarkerFileAssumption

LEMMA InitMarkerInv == Init => MarkerInv
  <1> SUFFICES ASSUME Init PROVE MarkerInv
    OBVIOUS
  <1>1. FileInv /\ Writing = {}
    BY InitFileInv DEF Init, Writing
  <1>2. PICK c \in Claims \cup {NoClaim}, i \in Inodes :
          /\ path = IF c = NoClaim THEN None ELSE i
          /\ data = [j \in Inodes |-> IF c # NoClaim /\ j = i THEN Whole(c) ELSE Empty]
    BY DEF Init
  <1>3. path # None => path # tmp /\ WholeAt(path)
    BY <1>2 DEF Init, WholeAt
  <1>4. QED
    BY <1>1, <1>3 DEF Init, MarkerInv, WriterOK, ReaderOK

(* A step of a writer keeps what the readers rely on when it leaves every  *)
(* file but the temp file alone.                                           *)
LEMMA ReadersUndisturbed ==
  ASSUME MarkerInv, NEW r \in Readers, UNCHANGED readerVars,
         \A i \in Inodes : (i = path \/ \E q \in Readers : i = rfd[q]) => data'[i] = data[i],
         path # None => path' # None,
         tmp' \in {tmp, None} \/ tmp' \notin {rfd[q] : q \in Readers}
  PROVE  ReaderOK(r)'
  <1>1. ReaderOK(r) /\ rfd[r] \in Inodes \cup {None}
    BY DEF MarkerInv, FileInv, TypeOK
  <1>2. CASE rfd[r] = None
    BY <1>1, <1>2 DEF ReaderOK, readerVars
  <1>3. CASE rfd[r] # None
    <2>1. data'[rfd[r]] = data[rfd[r]] /\ rfd[r] # tmp' /\ path' # None
      BY <1>1, <1>3 DEF ReaderOK
    <2>2. QED
      BY <1>1, <1>3, <2>1 DEF ReaderOK, readerVars, WholeAt
  <1>4. QED
    BY <1>2, <1>3

LEMMA WriterStepInv ==
  ASSUME MaxWriters <= 1, MarkerInv, NEW w \in Writers,
         (\E c \in Claims : OpenTmp(w, c)) \/ WriteBlock(w) \/ Rename(w) \/ GiveUp(w)
  PROVE  MarkerInv'
  <1>1. FileInv /\ FileInv' /\ TypeOK
    BY NextFileInv DEF MarkerInv, FileInv, Next
  <1>2. \A v \in Writers : pc[v] \in {"idle", "write"}
    BY <1>1 DEF TypeOK
  <1>3. UNCHANGED readerVars
    BY DEF OpenTmp, WriteBlock, Rename, GiveUp
  <1>4. ASSUME NEW c \in Claims, OpenTmp(w, c)
        PROVE  MarkerInv'
    <2>1. PICK i \in Inodes :
            /\ i = tmp \/ (tmp = None /\ i \notin Referenced)
            /\ data' = [data EXCEPT ![i] = Empty]
            /\ fd' = [fd EXCEPT ![w] = i]
            /\ tmp' = i
      BY <1>4 DEF OpenTmp
    <2>2. Writing = {}
      BY <1>4, OpensAlone DEF OpenTmp
    <2>3. i # path /\ i \notin {rfd[q] : q \in Readers} /\ i # None
      BY <2>1, MarkerFileAssumption DEF MarkerInv, ReaderOK, Referenced
    <2>4. \A j \in Inodes : j # i => data'[j] = data[j]
      BY <1>1, <2>1 DEF TypeOK
    <2>5. \A v, u \in Writing' : v = u
      BY <1>1, <1>4, <2>2 DEF OpenTmp, Writing, TypeOK
    <2>6. ASSUME NEW v \in Writers
          PROVE  WriterOK(v)'
      <3>1. pc[v] = "idle" /\ WriterOK(v) /\ WriterOK(w) /\ pc[w] = "idle"
        BY <1>2, <2>2 DEF Writing, MarkerInv
      <3>2. written' = written /\ written[v] = 0 /\ fd[v] = None
            /\ pc' = [pc EXCEPT ![w] = "write"]
        BY <1>4, <3>1 DEF OpenTmp, WriterOK
      <3>3. QED
        BY <1>1, <2>1, <2>3, <3>1, <3>2 DEF WriterOK, TypeOK
    <2>7. path' = path /\ (path # None => path' # tmp' /\ WholeAt(path'))
      <3>1. path # None => path \in Inodes /\ data'[path] = data[path]
        BY <1>1, <2>3, <2>4 DEF TypeOK
      <3>2. QED
        BY <1>4, <2>1, <2>3, <3>1 DEF OpenTmp, MarkerInv, WholeAt
    <2>8. path # None => WholeAt(path)'
      <3>1. path # None => data'[path] = data[path] /\ path' = path
        BY <1>1, <2>3, <2>4, <2>7 DEF TypeOK
      <3>2. QED
        BY <3>1 DEF MarkerInv, WholeAt
    <2>9. \A r \in Readers : ReaderOK(r)'
      BY <1>3, <2>1, <2>3, <2>4, <2>7, ReadersUndisturbed
    <2>10. QED
      BY <1>1, <1>3, <2>5, <2>6, <2>7, <2>8, <2>9 DEF MarkerInv, readerVars
  <1>5. CASE WriteBlock(w)
    <2>1. /\ w \in Writing /\ fd[w] = tmp /\ tmp \in Inodes
          /\ \A b \in 1..written[w] : data[tmp][b] = claim[w]
      BY <1>1, <1>5 DEF WriteBlock, Writing, MarkerInv, WriterOK, FileInv
    <2>2. /\ UNCHANGED <<tmp, path, pc, claim, fd>>
          /\ data' = [data EXCEPT ![tmp] =
                        [b \in Blocks |-> IF b = written[w] + 1 THEN claim[w] ELSE @[b]]]
          /\ written' = [written EXCEPT ![w] = @ + 1] /\ written[w] < NumBlocks
      BY <1>5, <2>1 DEF WriteBlock
    <2>3. \A j \in Inodes : j # tmp => data'[j] = data[j]
      BY <1>1, <2>2 DEF TypeOK
    <2>4. \A b \in 1..(written[w] + 1) : data'[tmp][b] = claim[w]
      <3>1. written[w] \in Nat /\ NumBlocks \in Nat
        BY <1>1, MarkerFileAssumption DEF TypeOK
      <3>2. \A b \in 1..(written[w] + 1) :
              b \in Blocks /\ (b = written[w] + 1 \/ b \in 1..written[w])
        BY <2>2, <3>1 DEF Blocks
      <3>3. \A b \in Blocks :
              data'[tmp][b] = IF b = written[w] + 1 THEN claim[w] ELSE data[tmp][b]
        BY <1>1, <2>1, <2>2 DEF TypeOK
      <3>4. QED
        BY <2>1, <3>2, <3>3
    <2>5. ASSUME NEW v \in Writers
          PROVE  WriterOK(v)'
      <3>1. CASE v = w
        <4>1. written'[w] = written[w] + 1 /\ pc[w] = "write" /\ tmp # None
          BY <1>1, <1>5, <2>1, <2>2, MarkerFileAssumption DEF TypeOK, WriteBlock
        <4>2. QED
          BY <2>1, <2>2, <2>4, <3>1, <4>1 DEF WriterOK
      <3>2. CASE v # w
        <4>1. pc[v] = "idle" /\ written'[v] = written[v] /\ WriterOK(v)
          BY <1>1, <1>2, <2>1, <2>2, <3>2 DEF Writing, MarkerInv, TypeOK
        <4>2. QED
          BY <2>2, <4>1 DEF WriterOK
      <3>3. QED
        BY <3>1, <3>2
    <2>6. path # None => path' # tmp' /\ WholeAt(path)'
      <3>1. path # None => data'[path] = data[path] /\ path # tmp /\ WholeAt(path)
        BY <1>1, <2>3 DEF TypeOK, MarkerInv
      <3>2. QED
        BY <2>2, <3>1 DEF WholeAt
    <2>7. \A r \in Readers : ReaderOK(r)'
      <3>1. \A q \in Readers : rfd[q] # tmp
        BY <2>1, MarkerFileAssumption DEF MarkerInv, ReaderOK
      <3>2. \A i \in Inodes :
              (i = path \/ \E q \in Readers : i = rfd[q]) => data'[i] = data[i]
        BY <1>1, <2>3, <3>1, MarkerFileAssumption DEF MarkerInv, TypeOK
      <3>3. QED
        BY <1>3, <2>2, <3>2, ReadersUndisturbed
    <2>8. QED
      BY <1>1, <1>3, <2>2, <2>5, <2>6, <2>7 DEF MarkerInv, readerVars, Writing
  <1>6. ASSUME Closes(w), w \in Writing
        PROVE  /\ \A v \in Writers : pc'[v] = "idle" /\ WriterOK(v)'
               /\ \A v, u \in Writing' : v = u
    <2>1. \A v \in Writers : v # w => pc[v] = "idle" /\ WriterOK(v)
      BY <1>2, <1>6 DEF MarkerInv, Writing
    <2>2. \A v \in Writers : /\ pc'[v] = "idle" /\ fd'[v] = None /\ written'[v] = 0
      BY <1>1, <1>6, <2>1 DEF Closes, TypeOK, WriterOK
    <2>3. QED
      BY <2>2 DEF WriterOK, Writing
  <1>7. CASE Rename(w)
    <2>1. /\ w \in Writing /\ tmp # None /\ written[w] = NumBlocks
          /\ \A b \in 1..written[w] : data[tmp][b] = claim[w]
          /\ tmp \in Inodes /\ claim[w] \in Claims
      BY <1>1, <1>7 DEF Rename, Writing, MarkerInv, WriterOK, FileInv
    <2>2. path' = tmp /\ tmp' = None /\ Closes(w) /\ data' = data
      BY <1>7, <2>1 DEF Rename
    <2>3. data[tmp] = Whole(claim[w])
      BY <1>1, <2>1 DEF Whole, Blocks, TypeOK
    <2>4. path' # None /\ path' # tmp' /\ WholeAt(path)'
      BY <2>1, <2>2, <2>3 DEF WholeAt
    <2>5. \A r \in Readers : ReaderOK(r)'
      BY <1>3, <2>2, <2>4, ReadersUndisturbed
    <2>6. QED
      BY <1>1, <1>6, <2>1, <2>2, <2>4, <2>5 DEF MarkerInv
  <1>8. CASE GiveUp(w)
    <2>1. w \in Writing /\ Closes(w) /\ UNCHANGED <<data, tmp, path>>
      BY <1>8 DEF GiveUp, Writing
    <2>2. \A r \in Readers : ReaderOK(r)'
      BY <1>3, <2>1, ReadersUndisturbed
    <2>3. path # None => path' # tmp' /\ WholeAt(path)'
      BY <2>1 DEF MarkerInv, WholeAt
    <2>4. QED
      BY <1>1, <1>3, <1>6, <2>1, <2>2, <2>3 DEF MarkerInv, readerVars
  <1>9. QED
    BY <1>4, <1>5, <1>7, <1>8

LEMMA ReaderStepInv ==
  ASSUME MarkerInv, NEW r \in Readers,
         OpenMarker(r) \/ NoMarkerYet(r) \/ ReadBlock(r) \/ AnswerRead(r)
  PROVE  MarkerInv'
  <1>1. FileInv /\ FileInv' /\ TypeOK
    BY NextFileInv DEF MarkerInv, FileInv, Next
  <1>2. UNCHANGED <<data, tmp, path, pc, claim, fd, written>>
    BY DEF OpenMarker, NoMarkerYet, ReadBlock, AnswerRead, writerVars
  <1>3. /\ \A v, u \in Writing' : v = u
        /\ \A w \in Writers : WriterOK(w)'
        /\ path # None => path' # tmp' /\ WholeAt(path)'
    BY <1>2 DEF MarkerInv, Writing, WriterOK, WholeAt
  <1>4. ASSUME NEW q \in Readers
        PROVE  ReaderOK(q)
    BY DEF MarkerInv
  <1>5. path = None => rfd[r] = None /\ \A q \in Readers : answer'[q] = NoClaim
    BY <1>1, <1>4
    DEF MarkerInv, ReaderOK, OpenMarker, NoMarkerYet, ReadBlock, AnswerRead, TypeOK
  <1>6. \A q \in Readers \ {r} : rfd'[q] = rfd[q] /\ got'[q] = got[q]
    BY <1>1 DEF OpenMarker, NoMarkerYet, ReadBlock, AnswerRead, TypeOK
  <1>7. \A q \in Readers \ {r} : ReaderOK(q)'
    BY <1>2, <1>4, <1>6 DEF ReaderOK, WholeAt
  <1>8. ReaderOK(r)'
    <2>1. CASE OpenMarker(r)
      <3>1. rfd'[r] = path /\ path # None /\ got'[r] = << >>
        BY <1>1, <1>4, <2>1 DEF OpenMarker, TypeOK, ReaderOK
      <3>2. path # tmp /\ WholeAt(path) /\ DOMAIN << >> = {}
        BY <3>1 DEF MarkerInv
      <3>3. QED
        BY <1>2, <3>1, <3>2 DEF ReaderOK, WholeAt
    <2>2. CASE NoMarkerYet(r)
      BY <1>2, <1>4, <2>2 DEF NoMarkerYet, ReaderOK, WholeAt
    <2>3. CASE ReadBlock(r)
      <3> DEFINE n == BlocksRead(r)
      <3>1. n \in Nat /\ DOMAIN got[r] = 1..n
        BY <1>1, ReadSoFar, MarkerFileAssumption
      <3>2. got'[r] = [b \in 1..(n + 1) |-> IF b <= n THEN got[r][b] ELSE data[rfd[r]][b]]
        BY <1>1, <2>3 DEF ReadBlock, TypeOK
      <3> HIDE DEF n
      <3>3. rfd' = rfd /\ rfd[r] # None
        BY <2>3 DEF ReadBlock
      <3>4. \A b \in 1..n : got[r][b] = data[rfd[r]][b]
        BY <1>4, <3>1, <3>3 DEF ReaderOK
      <3>5. \A b \in DOMAIN got'[r] : got'[r][b] = data[rfd[r]][b]
        BY <3>1, <3>2, <3>4
      <3>6. QED
        BY <1>2, <1>4, <3>3, <3>5 DEF ReaderOK, WholeAt
    <2>4. CASE AnswerRead(r)
      BY <1>1, <2>4 DEF AnswerRead, ReaderOK, TypeOK
    <2>5. QED
      BY <2>1, <2>2, <2>3, <2>4
  <1>9. QED
    BY <1>1, <1>2, <1>3, <1>5, <1>7, <1>8 DEF MarkerInv

LEMMA NextMarkerInv ==
  ASSUME MaxWriters <= 1, MarkerInv, [Next]_vars
  PROVE  MarkerInv'
  <1>1. CASE UNCHANGED vars
    <2>1. FileInv'
      BY <1>1, NextFileInv DEF MarkerInv
    <2>2. QED
      BY <1>1, <2>1
      DEF vars, writerVars, readerVars, MarkerInv, Writing, WriterOK, ReaderOK, WholeAt
  <1>2. QED
    BY <1>1, WriterStepInv, ReaderStepInv DEF Next

(* With one writer at a time what is under the marker's name parses,       *)
(* whatever was killed, and whenever (marker.rs write).                    *)
THEOREM MarkerNeverTorn ==
  ASSUME MaxWriters <= 1
  PROVE  Spec => []NeverTorn
  <1>1. MarkerInv => NeverTorn
    BY DEF MarkerInv, WholeAt, NeverTorn
  <1>2. MarkerInv /\ [Next]_vars => MarkerInv'
    BY NextMarkerInv
  <1>3. QED
    BY <1>1, <1>2, InitMarkerInv, PTL DEF Spec

-----------------------------------------------------------------------------
(* The refinement: opening, filling and giving up the temp file is nothing *)
(* to a reader, the rename publishes the claim, and a reader's claim is    *)
(* settled when it opens the marker.                                       *)

LEMMA VisibleWhole ==
  ASSUME NEW i \in Inodes, NEW c \in Claims, data[i] = Whole(c)
  PROVE  Visible(i) = c
  BY ParseWhole, MarkerFileAssumption DEF Visible

LEMMA InitRefines == Init => Atomic!Init
  <1> SUFFICES ASSUME Init PROVE Atomic!Init
    OBVIOUS
  <1>1. PICK c \in Claims \cup {NoClaim}, i \in Inodes :
          /\ path = IF c = NoClaim THEN None ELSE i
          /\ data = [j \in Inodes |-> IF c # NoClaim /\ j = i THEN Whole(c) ELSE Empty]
    BY DEF Init
  <1>2. Visible(path) \in Claims \cup {NoClaim}
    <2>1. CASE c = NoClaim
      BY <1>1, <2>1 DEF Visible
    <2>2. CASE c # NoClaim
      BY <1>1, <2>2, VisibleWhole
    <2>3. QED
      BY <2>1, <2>2
  <1>3. \A r \in Readers : rfd[r] = None
    BY DEF Init
  <1>4. QED
    BY <1>2, <1>3 DEF Init, Atomic!Init

(* What a step leaves in the marker and in the readers' files they see.    *)
LEMMA SeenTheSame ==
  ASSUME TypeOK, UNCHANGED readerVars, path' = path,
         \A i \in Inodes : (i = path \/ \E q \in Readers : i = rfd[q]) => data'[i] = data[i]
  PROVE  UNCHANGED Atomic!vars
  <1>1. ASSUME NEW i \in Inodes \cup {None}, i = path \/ \E q \in Readers : i = rfd[q]
        PROVE  Visible(i)' = Visible(i)
    BY <1>1 DEF Visible, Parse
  <1>2. Visible(path)' = Visible(path)
    BY <1>1 DEF TypeOK, Visible
  <1>3. ASSUME NEW r \in Readers
        PROVE  (IF rfd'[r] = None THEN NotReading ELSE Visible(rfd[r])')
                 = (IF rfd[r] = None THEN NotReading ELSE Visible(rfd[r]))
    BY <1>1 DEF TypeOK, readerVars, Visible
  <1>4. QED
    BY <1>2, <1>3 DEF Atomic!vars, readerVars

LEMMA WriterStepRefines ==
  ASSUME MaxWriters <= 1, MarkerInv, NEW w \in Writers,
         (\E c \in Claims : OpenTmp(w, c)) \/ WriteBlock(w) \/ Rename(w) \/ GiveUp(w)
  PROVE  [Atomic!Next]_Atomic!vars
  <1>1. TypeOK /\ UNCHANGED readerVars
    BY DEF MarkerInv, FileInv, OpenTmp, WriteBlock, Rename, GiveUp
  <1>2. \A i \in Inodes : (i = path \/ \E q \in Readers : i = rfd[q]) => i # tmp /\ i # None
    BY MarkerFileAssumption DEF MarkerInv, ReaderOK
  <1>3. ASSUME NEW c \in Claims, OpenTmp(w, c)
        PROVE  UNCHANGED Atomic!vars
    <2>1. PICK i \in Inodes :
            /\ i = tmp \/ (tmp = None /\ i \notin Referenced)
            /\ data' = [data EXCEPT ![i] = Empty]
      BY <1>3 DEF OpenTmp
    <2>2. \A j \in Inodes : (j = path \/ \E q \in Readers : j = rfd[q]) => data'[j] = data[j]
      BY <1>1, <1>2, <2>1 DEF Referenced, TypeOK
    <2>3. QED
      BY <1>1, <1>3, <2>2, SeenTheSame DEF OpenTmp
  <1>4. CASE WriteBlock(w)
    <2>1. fd[w] = tmp
      BY <1>4 DEF WriteBlock, MarkerInv, WriterOK
    <2>2. \A j \in Inodes : j # tmp => data'[j] = data[j]
      BY <1>1, <1>4, <2>1 DEF WriteBlock, TypeOK
    <2>3. QED
      BY <1>1, <1>2, <1>4, <2>2, SeenTheSame DEF WriteBlock
  <1>5. CASE Rename(w)
    <2>1. /\ tmp # None /\ written[w] = NumBlocks
          /\ \A b \in 1..written[w] : data[tmp][b] = claim[w]
          /\ tmp \in Inodes /\ claim[w] \in Claims
      BY <1>5 DEF Rename, Writing, MarkerInv, WriterOK, FileInv
    <2>2. data[tmp] = Whole(claim[w])
      BY <1>1, <2>1 DEF Whole, Blocks, TypeOK
    <2>3. path' = tmp /\ data' = data
      BY <1>5, <2>1 DEF Rename
    <2>4. Visible(tmp) = claim[w]
      BY <2>1, <2>2, VisibleWhole
    <2>5. Visible(path)' = claim[w]
      BY <2>3, <2>4 DEF Visible, Parse
    <2>6. \A r \in Readers :
             (IF rfd'[r] = None THEN NotReading ELSE Visible(rfd[r])')
               = (IF rfd[r] = None THEN NotReading ELSE Visible(rfd[r]))
      BY <1>1, <2>3 DEF readerVars, Visible, Parse
    <2>7. Atomic!Publish(claim[w])
      BY <1>1, <2>5, <2>6 DEF Atomic!Publish, readerVars
    <2>8. QED
      BY <2>1, <2>7 DEF Atomic!Next
  <1>6. CASE GiveUp(w)
    BY <1>1, <1>6, SeenTheSame DEF GiveUp
  <1>7. QED
    BY <1>3, <1>4, <1>5, <1>6

LEMMA ReaderStepRefines ==
  ASSUME MarkerInv, NEW r \in Readers,
         OpenMarker(r) \/ NoMarkerYet(r) \/ ReadBlock(r) \/ AnswerRead(r)
  PROVE  [Atomic!Next]_Atomic!vars
  <1> DEFINE sees(q) == IF rfd[q] = None THEN NotReading ELSE Visible(rfd[q])
  <1>1. TypeOK
    BY DEF MarkerInv, FileInv
  <1>2. UNCHANGED <<data, tmp, path>>
    BY DEF OpenMarker, NoMarkerYet, ReadBlock, AnswerRead, writerVars
  <1>3. Visible(path)' = Visible(path)
    BY <1>2 DEF Visible, Parse
  <1>4. ASSUME NEW q \in Readers, rfd'[q] = rfd[q]
        PROVE  sees(q)' = sees(q)
    BY <1>2, <1>4 DEF Visible, Parse
  <1>5. CASE OpenMarker(r)
    <2>1. sees(r) = NotReading /\ sees(r)' = Visible(path)
      BY <1>1, <1>2, <1>5 DEF OpenMarker, TypeOK, Visible, Parse
    <2>2. \A q \in Readers \ {r} : sees(q)' = sees(q)
      BY <1>1, <1>4, <1>5 DEF OpenMarker, TypeOK
    <2>3. [q \in Readers |-> sees(q)]' = [[q \in Readers |-> sees(q)] EXCEPT ![r] = Visible(path)]
      BY <2>1, <2>2
    <2>4. Atomic!StartReading(r)
      BY <1>3, <1>5, <2>1, <2>3 DEF Atomic!StartReading, OpenMarker
    <2>5. QED
      BY <2>4 DEF Atomic!Next
  <1>6. CASE NoMarkerYet(r)
    <2>1. answer' = answer /\ rfd' = rfd
      BY <1>1, <1>6 DEF NoMarkerYet, MarkerInv, TypeOK
    <2>2. QED
      BY <1>3, <1>4, <2>1 DEF Atomic!vars
  <1>7. CASE ReadBlock(r)
    <2>1. answer' = answer /\ rfd' = rfd
      BY <1>7 DEF ReadBlock
    <2>2. QED
      BY <1>3, <1>4, <2>1 DEF Atomic!vars
  <1>8. CASE AnswerRead(r)
    <2>1. /\ rfd[r] \in Inodes /\ ReaderOK(r)
          /\ got[r] \in [Blocks -> Claims \cup {Hole}]
      BY <1>1, <1>8, ReadSoFar DEF AnswerRead, MarkerInv, TypeOK, Blocks
    <2>2. PICK c \in Claims : data[rfd[r]] = Whole(c)
      BY <1>8, <2>1 DEF ReaderOK, WholeAt, AnswerRead
    <2>3. got[r] = Whole(c)
      BY <1>8, <2>1, <2>2 DEF ReaderOK, AnswerRead, Whole
    <2>4. sees(r) = c /\ answer' = [answer EXCEPT ![r] = c] /\ sees(r) # NotReading
      BY <1>8, <2>1, <2>2, <2>3, ParseWhole, VisibleWhole, MarkerFileAssumption
      DEF AnswerRead
    <2>5. sees(r)' = NotReading /\ \A q \in Readers \ {r} : sees(q)' = sees(q)
      BY <1>1, <1>4, <1>8 DEF AnswerRead, TypeOK
    <2>6. [q \in Readers |-> sees(q)]' = [[q \in Readers |-> sees(q)] EXCEPT ![r] = NotReading]
      BY <2>5
    <2>7. Atomic!Answer(r)
      BY <1>3, <2>4, <2>6 DEF Atomic!Answer
    <2>8. QED
      BY <2>7 DEF Atomic!Next
  <1>9. QED
    BY <1>5, <1>6, <1>7, <1>8

(* With one writer at a time, write and read implement the atomic marker:  *)
(* a read answers with one claim that was published, or with none before   *)
(* the first, never with parts of two (marker.rs write, read).             *)
THEOREM MarkerIsAtomic ==
  ASSUME MaxWriters <= 1
  PROVE  Spec => WriteIsAtomic
  <1>1. MarkerInv /\ [Next]_vars => MarkerInv'
    BY NextMarkerInv
  <1>2. MarkerInv /\ [Next]_vars => [Atomic!Next]_Atomic!vars
    <2>1. CASE UNCHANGED vars
      <3>1. MarkerInv => UNCHANGED Atomic!vars
        BY <2>1, SeenTheSame DEF vars, writerVars, readerVars, MarkerInv, FileInv
      <3>2. QED
        BY <3>1
    <2>2. QED
      BY <2>1, WriterStepRefines, ReaderStepRefines DEF Next
  <1>3. QED
    BY <1>1, <1>2, InitMarkerInv, InitRefines, PTL DEF Spec, WriteIsAtomic, Atomic!Spec
=============================================================================
