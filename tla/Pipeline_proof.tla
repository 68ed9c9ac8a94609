--------------------------- MODULE Pipeline_proof ---------------------------
(***************************************************************************)
(* TypeOK, NoSharing, InputIntact, AlwaysSucceeds and RunComplete of       *)
(* Pipeline, for any number of buffers, blocks and files; and what the     *)
(* passes of a repair promise on top of it, for any pool, blocks, passes,  *)
(* lengths and outputs: the buffer of a write stays as it is until the     *)
(* operating system has carried the write out, no write outlives the run   *)
(* it belongs to, and target files that are said to be written are         *)
(* complete and right.                                                     *)
(*                                                                         *)
(* A buffer that has a user must have a reference count above zero, or     *)
(* try_to_acquire would hand it out again.  The count of a buffer is not   *)
(* the number of its users, because a failed try_to_acquire raises it for  *)
(* a moment and a buffer that the read stage forgets at the end of the     *)
(* input stays counted: Counted says what the count is.                    *)
(*                                                                         *)
(* In a repair, Walk says which copy block goes with a block, WriteOut     *)
(* that a write has its token still before the end of the parallel stage,  *)
(* CopiedRight and WrittenRight what is on disk at any moment of any pass. *)
(***************************************************************************)
EXTENDS RepairPipeline, FiniteSetTheorems, TLAPS

\* Whether a token or the read stage has buffer b.
Used(b) == held = b \/ \E i \in InFlight : bufOf[i] = b

\* The read stage's failed attempt at buffer b, not yet taken back.
Attempt(b) == IF rpc = "backoff" /\ off = b THEN 1 ELSE 0

Counted ==
    \A b \in Buffers :
        /\ rc[b] \in {Attempt(b), 1 + Attempt(b)}
        /\ Used(b) => rc[b] = 1 + Attempt(b)

\* No two tokens have the same buffer, and no token has the read stage's.
Exclusive ==
    /\ \A i, j \in InFlight : bufOf[i] = bufOf[j] => i = j
    /\ \A i \in InFlight : bufOf[i] # held

\* The block that the read stage has fetched is in no other state.
Fetched ==
    /\ \A i \in Blocks : i >= nextblock => stage[i] = "unread"
    /\ rpc = "read" => /\ nextblock > 0
                       /\ stage[nextblock - 1] = "unread"
                       /\ index[held] = nextblock - 1

\* The read stage's locals, and what it does after a failure.
Control ==
    /\ rpc \in {"try", "backoff"} => tries > 0
    /\ rpc \in {"fetch", "read", "xor"} => held \in Buffers
    /\ rpc \in {"idle", "fetch", "read"} => ~ post
    /\ rpc \in {"idle", "search", "try", "backoff", "fetch", "read"} /\ ~ post => ok
    /\ post => InFlight = {}
    /\ ok => \A f \in Files : openfiles[f] # Absent => handles[f] > 0

IInv == TypeOK /\ Counted /\ Exclusive /\ Fetched /\ Control /\ InputIntact

-----------------------------------------------------------------------------

LEMMA U32Type == U32 \in Nat /\ U32 > 0
  BY DEF U32

LEMMA StartReadStep ==
    ASSUME IInv, StartRead
    PROVE  IInv'
<1> USE PipelineAssumption, U32Type DEF PipelineAssumption, Buffers, Blocks, NoBuffer
<1>1. InFlight' = InFlight /\ InFlight \subseteq Blocks
  BY DEF InFlight, StartRead, poolVars, searchVars, readVars
<1>2. TypeOK'
  BY DEF IInv, TypeOK, Control, StartRead, poolVars, searchVars, readVars
<1>3. Counted'
  BY <1>1 DEF IInv, Counted, Used, Attempt, StartRead, poolVars, searchVars, readVars
<1>4. Exclusive'
  BY <1>1 DEF IInv, Exclusive, StartRead, poolVars, searchVars, readVars
<1>5. Fetched'
  BY DEF IInv, Fetched, StartRead, poolVars, searchVars, readVars
<1>6. Control'
  BY <1>1 DEF IInv, Control, StartRead, poolVars, searchVars, readVars
<1>7. InputIntact'
  BY <1>1 DEF IInv, InputIntact, StartRead, poolVars, searchVars, readVars
<1> QED
  BY <1>2, <1>3, <1>4, <1>5, <1>6, <1>7 DEF IInv

LEMMA SearchStep ==
    ASSUME IInv, Search
    PROVE  IInv'
<1> USE PipelineAssumption, U32Type DEF PipelineAssumption, Buffers, Blocks, NoBuffer
<1>1. InFlight' = InFlight
  BY DEF InFlight, Search, poolVars, readVars
<1>2. TypeOK'
  <2>1. off' \in Buffers /\ tries' \in 0 .. NumBuffers
    BY DEF Search
  <2> QED
    BY <2>1 DEF IInv, TypeOK, Search, poolVars, readVars
<1>3. Counted'
  BY <1>1 DEF IInv, Counted, Used, Attempt, Search, poolVars, readVars
<1>4. Exclusive'
  BY <1>1 DEF IInv, Exclusive, Search, poolVars, readVars
<1>5. Fetched'
  BY DEF IInv, Fetched, Search, poolVars, readVars
<1>6. Control'
  BY <1>1 DEF IInv, Control, Search, poolVars, readVars
<1>7. InputIntact'
  BY <1>1 DEF IInv, InputIntact, Search, poolVars, readVars
<1> QED
  BY <1>2, <1>3, <1>4, <1>5, <1>6, <1>7 DEF IInv

\* The heart of the matter: a count of 0 means that nobody has the buffer.
LEMMA TryAcquireStep ==
    ASSUME IInv, TryAcquire
    PROVE  IInv'
<1> USE PipelineAssumption, U32Type DEF PipelineAssumption, Buffers, Blocks, NoBuffer
<1>1. InFlight' = InFlight /\ InFlight \subseteq Blocks
  BY DEF InFlight, TryAcquire, WasFree, searchVars, readVars
<1>2. off \in Buffers /\ rpc = "try"
  BY DEF IInv, TypeOK, TryAcquire
<1>3. ASSUME rc[off] = 0 PROVE \A i \in InFlight : bufOf[i] # off
  BY <1>2, <1>3 DEF IInv, Counted, Used, Attempt
<1>4. Counted'
  BY <1>1, <1>2 DEF IInv, TypeOK, Counted, Used, Attempt, TryAcquire, WasFree,
     searchVars, readVars
<1>5. TypeOK'
  <2>1. rc' \in [Buffers -> 0 .. 2]
    BY <1>2 DEF IInv, TypeOK, Counted, Attempt, TryAcquire, WasFree, searchVars, readVars
  <2>2. off' \in Buffers /\ tries' \in 0 .. NumBuffers /\ held' \in Buffers \cup {NoBuffer}
    BY <1>2, SMTT(30) DEF IInv, TypeOK, TryAcquire, WasFree, searchVars, readVars
  <2> QED
    BY <2>1, <2>2 DEF IInv, TypeOK, TryAcquire, WasFree, searchVars, readVars
<1>6. Exclusive'
  BY <1>1, <1>3 DEF IInv, Exclusive, TryAcquire, WasFree, searchVars, readVars
<1>7. Fetched'
  BY DEF IInv, Fetched, TryAcquire, WasFree, searchVars, readVars
<1>8. Control'
  BY <1>1, <1>2 DEF IInv, Control, TryAcquire, WasFree, searchVars, readVars
<1>9. InputIntact'
  BY <1>1 DEF IInv, InputIntact, TryAcquire, WasFree, searchVars, readVars
<1> QED
  BY <1>4, <1>5, <1>6, <1>7, <1>8, <1>9 DEF IInv

LEMMA BackOffStep ==
    ASSUME IInv, BackOff
    PROVE  IInv'
<1> USE PipelineAssumption, U32Type DEF PipelineAssumption, Buffers, Blocks, NoBuffer
<1>1. InFlight' = InFlight
  BY DEF InFlight, BackOff, ReleaseRef, readVars
<1>2. Counted'
  BY <1>1 DEF IInv, TypeOK, Counted, Used, Attempt, BackOff, ReleaseRef, readVars
<1>3. TypeOK'
  <2>1. rc' \in [Buffers -> 0 .. 2]
    BY DEF IInv, TypeOK, Counted, Attempt, BackOff, ReleaseRef, readVars
  <2>2. off' \in Buffers /\ tries' \in 0 .. NumBuffers
    BY DEF IInv, TypeOK, Control, BackOff, ReleaseRef, readVars
  <2> QED
    BY <2>1, <2>2 DEF IInv, TypeOK, BackOff, ReleaseRef, readVars
<1>4. Exclusive'
  BY <1>1 DEF IInv, Exclusive, BackOff, ReleaseRef, readVars
<1>5. Fetched'
  BY DEF IInv, Fetched, BackOff, ReleaseRef, readVars
<1>6. Control'
  BY <1>1 DEF IInv, TypeOK, Control, BackOff, ReleaseRef, readVars
<1>7. InputIntact'
  BY <1>1 DEF IInv, InputIntact, BackOff, ReleaseRef, readVars
<1> QED
  BY <1>2, <1>3, <1>4, <1>5, <1>6, <1>7 DEF IInv

LEMMA EndOfInputStep ==
    ASSUME IInv, EndOfInput
    PROVE  IInv'
<1> USE PipelineAssumption, U32Type DEF PipelineAssumption, Buffers, Blocks, NoBuffer
<1>1. InFlight' = InFlight /\ InFlight \subseteq Blocks
  BY DEF InFlight, EndOfInput, poolVars, searchVars, readVars
<1>2. TypeOK'
  BY DEF IInv, TypeOK, Control, EndOfInput, poolVars, searchVars, readVars
<1>3. Counted'
  BY <1>1 DEF IInv, Counted, Used, Attempt, EndOfInput, poolVars, searchVars, readVars
<1>4. Exclusive'
  BY <1>1 DEF IInv, Exclusive, EndOfInput, poolVars, searchVars, readVars
<1>5. Fetched'
  BY DEF IInv, Fetched, EndOfInput, poolVars, searchVars, readVars
<1>6. Control'
  BY <1>1 DEF IInv, Control, EndOfInput, poolVars, searchVars, readVars
<1>7. InputIntact'
  BY <1>1 DEF IInv, InputIntact, EndOfInput, poolVars, searchVars, readVars
<1> QED
  BY <1>2, <1>3, <1>4, <1>5, <1>6, <1>7 DEF IInv

LEMMA FetchStep ==
    ASSUME IInv, Fetch
    PROVE  IInv'
<1> USE PipelineAssumption, U32Type DEF PipelineAssumption, Buffers, Blocks, NoBuffer
<1>1. InFlight' = InFlight /\ InFlight \subseteq Blocks
  BY DEF InFlight, Fetch, InputIndex, searchVars
<1>2. held \in Buffers /\ nextblock \in Blocks
  BY DEF IInv, TypeOK, Control, Fetch
<1>3. TypeOK'
  <2>1. nextblock \in Nat /\ nextblock' \in 0 .. NumBlocks
    BY <1>2 DEF Fetch, InputIndex, searchVars
  <2>2. index' \in [Buffers -> Nat]
    BY <2>1 DEF IInv, TypeOK, Fetch, InputIndex, searchVars
  <2> QED
    BY <2>1, <2>2 DEF IInv, TypeOK, Fetch, InputIndex, searchVars
<1>4. Counted'
  BY <1>1 DEF IInv, Counted, Used, Attempt, Fetch, InputIndex, searchVars
<1>5. Exclusive'
  BY <1>1 DEF IInv, Exclusive, Fetch, InputIndex, searchVars
<1>6. Fetched'
  BY <1>2 DEF IInv, TypeOK, Fetched, Fetch, InputIndex, searchVars
<1>7. Control'
  BY <1>1 DEF IInv, Control, Fetch, InputIndex, searchVars
<1>8. InputIntact'
  <2>1. \A i \in InFlight : bufOf[i] \in Buffers /\ bufOf[i] # held
    BY <1>1 DEF IInv, TypeOK, Exclusive
  <2>2. \A b \in Buffers : b # held => index'[b] = index[b]
    BY DEF IInv, TypeOK, Fetch, InputIndex, searchVars
  <2> QED
    BY <1>1, <2>1, <2>2 DEF IInv, InputIntact, Fetch, InputIndex, searchVars
<1> QED
  BY <1>3, <1>4, <1>5, <1>6, <1>7, <1>8 DEF IInv

LEMMA OpenFailsStep ==
    ASSUME IInv, OpenFails
    PROVE  IInv'
<1> USE PipelineAssumption, U32Type DEF PipelineAssumption, Buffers, Blocks, NoBuffer
<1>1. InFlight' = InFlight
  BY DEF InFlight, OpenFails, poolVars, searchVars
<1>2. TypeOK'
  <2>1. 0 \in 0 .. U32 - 1
    OBVIOUS
  <2>2. openfiles' \in [Files -> {Absent} \cup 0 .. U32 - 1]
    BY <2>1 DEF IInv, TypeOK, OpenFails, poolVars, searchVars
  <2> QED
    BY <2>2 DEF IInv, TypeOK, OpenFails, poolVars, searchVars
<1>3. Counted'
  BY <1>1 DEF IInv, Counted, Used, Attempt, OpenFails, poolVars, searchVars
<1>4. Exclusive'
  BY <1>1 DEF IInv, Exclusive, OpenFails, poolVars, searchVars
<1>5. Fetched'
  BY DEF IInv, Fetched, OpenFails, poolVars, searchVars
<1>6. Control'
  BY <1>1 DEF IInv, Control, OpenFails, poolVars, searchVars
<1>7. InputIntact'
  BY <1>1 DEF IInv, InputIntact, OpenFails, poolVars, searchVars
<1> QED
  BY <1>2, <1>3, <1>4, <1>5, <1>6, <1>7 DEF IInv

LEMMA ReadAbortsStep ==
    ASSUME IInv, ReadAborts
    PROVE  IInv'
<1> USE PipelineAssumption, U32Type DEF PipelineAssumption, Buffers, Blocks, NoBuffer
<1>1. InFlight' = InFlight /\ InFlight \subseteq Blocks
  BY DEF InFlight, ReadAborts, ReleaseRef, searchVars
<1>2. held \in Buffers /\ rpc = "read" /\ \A i \in InFlight : bufOf[i] \in Buffers /\ bufOf[i] # held
  BY <1>1 DEF IInv, TypeOK, Control, Exclusive, ReadAborts
<1>3. rc[held] = 1
  BY <1>2 DEF IInv, Counted, Used, Attempt
<1>4. Counted'
  BY <1>1, <1>2, <1>3 DEF IInv, TypeOK, Counted, Used, Attempt, ReadAborts, ReleaseRef,
     searchVars
<1>5. TypeOK'
  <2>1. rc' \in [Buffers -> 0 .. 2] /\ held' \in Buffers \cup {NoBuffer}
    BY <1>2, <1>3 DEF IInv, TypeOK, ReadAborts, ReleaseRef, searchVars
  <2>2. ReadingFile \in Files
    BY <1>2 DEF IInv, TypeOK, Fetched, ReadingFile, Reading
  <2>3. openfiles' \in [Files -> {Absent} \cup 0 .. U32 - 1]
    BY <2>2 DEF IInv, TypeOK, ReadAborts, ReleaseRef, searchVars, IsOpen, BlocksLeft
  <2>4. handles' \in [Files -> Nat]
    BY <2>2 DEF IInv, TypeOK, ReadAborts, ReleaseRef, searchVars, IsOpen, HandlesOnceOpen
  <2> QED
    BY <2>1, <2>3, <2>4 DEF IInv, TypeOK, ReadAborts, ReleaseRef, searchVars
<1>6. Exclusive'
  BY <1>1, <1>2 DEF IInv, Exclusive, ReadAborts, ReleaseRef, searchVars
<1>7. Fetched'
  BY DEF IInv, Fetched, ReadAborts, ReleaseRef, searchVars
<1>8. Control'
  BY <1>1 DEF IInv, Control, ReadAborts, ReleaseRef, searchVars
<1>9. InputIntact'
  BY <1>1 DEF IInv, InputIntact, ReadAborts, ReleaseRef, searchVars
<1> QED
  BY <1>4, <1>5, <1>6, <1>7, <1>8, <1>9 DEF IInv

\* The buffer changes hands, from the read stage to the token of the block.
LEMMA ReadBlockStep ==
    ASSUME IInv, ReadBlock("process")
    PROVE  IInv'
<1> USE PipelineAssumption, U32Type DEF PipelineAssumption, Buffers, Blocks, NoBuffer
<1>1. /\ held \in Buffers /\ rpc = "read" /\ ok /\ ~ post
       /\ Reading \in Blocks /\ stage[Reading] = "unread" /\ index[held] = Reading
  BY DEF IInv, TypeOK, Control, Fetched, ReadBlock, Reading
<1>2. /\ InFlight' = InFlight \cup {Reading}
      /\ InFlight \subseteq Blocks
      /\ Reading \notin InFlight
  BY <1>1 DEF IInv, TypeOK, InFlight, ReadBlock, searchVars
<1>3. /\ bufOf'[Reading] = held
       /\ \A i \in InFlight : bufOf'[i] = bufOf[i] /\ bufOf[i] \in Buffers /\ bufOf[i] # held
  BY <1>1, <1>2 DEF IInv, TypeOK, Exclusive, ReadBlock, searchVars
<1>4. TypeOK'
  <2>1. ReadingFile \in Files
    BY <1>1 DEF ReadingFile
  <2>2. BlocksLeft(ReadingFile) \in 0 .. U32 - 1 \/ BlocksLeft(ReadingFile) \in Nat
    BY <2>1 DEF IInv, TypeOK, IsOpen, BlocksLeft
  <2>3. (BlocksLeft(ReadingFile) - 1) % U32 \in 0 .. U32 - 1
    BY <2>2
  <2>4. openfiles' \in [Files -> {Absent} \cup 0 .. U32 - 1]
    BY <2>1, <2>3 DEF IInv, TypeOK, ReadBlock, searchVars
  <2>5. HandlesOnceOpen(ReadingFile) \in Nat /\ HandlesOnceOpen(ReadingFile) > 0
    <3>1. handles[ReadingFile] \in Nat
      BY <2>1 DEF IInv, TypeOK
    <3>2. IsOpen(ReadingFile) => handles[ReadingFile] > 0
      BY <1>1, <2>1 DEF IInv, Control, IsOpen
    <3> QED
      BY <3>1, <3>2 DEF HandlesOnceOpen
  <2>6. handles' \in [Files -> Nat]
    BY <2>1, <2>5 DEF IInv, TypeOK, ReadBlock, searchVars
  <2>7. content' \in [Buffers -> Nat] /\ bufOf' \in [Blocks -> Buffers] /\ held' = NoBuffer
    BY <1>1 DEF IInv, TypeOK, ReadBlock, searchVars
  <2>8. stage' \in [Blocks -> {"unread", "process", "release", "done"}]
    BY <1>1 DEF IInv, TypeOK, ReadBlock, searchVars
  <2> QED
    BY <2>4, <2>6, <2>7, <2>8 DEF IInv, TypeOK, ReadBlock, searchVars
<1>5. Counted'
  <2> SUFFICES ASSUME NEW b \in Buffers
               PROVE  rc'[b] \in {Attempt(b)', 1 + Attempt(b)'} /\ (Used(b)' => rc'[b] = 1 + Attempt(b)')
    BY DEF Counted
  <2>1. rc' = rc /\ Attempt(b) = 0 /\ Attempt(b)' = 0
    BY <1>1 DEF Attempt, ReadBlock, searchVars
  <2>2. Used(b)' => Used(b)
    BY <1>1, <1>2, <1>3 DEF Used, ReadBlock, searchVars
  <2> QED
    BY <2>1, <2>2 DEF IInv, Counted
<1>6. Exclusive'
  BY <1>1, <1>2, <1>3 DEF IInv, Exclusive, ReadBlock, searchVars
<1>7. Fetched'
  BY <1>1 DEF IInv, TypeOK, Fetched, Reading, ReadBlock, searchVars
<1>8. Control'
  <2>1. \A f \in Files : openfiles'[f] # Absent => handles'[f] > 0
    <3> SUFFICES ASSUME NEW f \in Files, openfiles'[f] # Absent PROVE handles'[f] > 0
      OBVIOUS
    <3>1. CASE f = ReadingFile
      <4>1. openfiles \in [Files -> {Absent} \cup 0 .. U32 - 1] /\ handles \in [Files -> Nat]
        BY DEF IInv, TypeOK
      <4>2. ~ LastBlock(f)
        BY <3>1, <4>1 DEF ReadBlock
      <4>3. handles'[f] = HandlesOnceOpen(f)
        BY <3>1, <4>1, <4>2 DEF ReadBlock
      <4>4. HandlesOnceOpen(f) > 0
        BY <1>1, <4>1 DEF IInv, Control, IsOpen, HandlesOnceOpen
      <4> QED
        BY <4>3, <4>4
    <3>2. CASE f # ReadingFile
      <4>1. openfiles'[f] = openfiles[f] /\ handles'[f] = handles[f]
        BY <3>2 DEF IInv, TypeOK, ReadBlock
      <4> QED
        BY <1>1, <4>1 DEF IInv, Control
    <3> QED
      BY <3>1, <3>2
  <2> QED
    BY <1>1, <2>1 DEF IInv, Control, ReadBlock, searchVars
<1>9. InputIntact'
  <2>1. content'[held] = Reading /\ \A b \in Buffers : b # held => content'[b] = content[b]
    BY <1>1 DEF IInv, TypeOK, ReadBlock, searchVars
  <2> QED
    BY <1>1, <1>2, <1>3, <2>1 DEF IInv, InputIntact, ReadBlock, searchVars
<1> QED
  BY <1>4, <1>5, <1>6, <1>7, <1>8, <1>9 DEF IInv

LEMMA RunReturnsStep ==
    ASSUME IInv, RunReturns
    PROVE  IInv'
<1> USE PipelineAssumption, U32Type DEF PipelineAssumption, Buffers, Blocks, NoBuffer
<1>1. InFlight' = InFlight /\ InFlight \subseteq Blocks
  BY DEF InFlight, RunReturns, poolVars, searchVars, readVars
<1>2. TypeOK'
  BY DEF IInv, TypeOK, Control, RunReturns, poolVars, searchVars, readVars
<1>3. Counted'
  BY <1>1 DEF IInv, Counted, Used, Attempt, RunReturns, poolVars, searchVars, readVars
<1>4. Exclusive'
  BY <1>1 DEF IInv, Exclusive, RunReturns, poolVars, searchVars, readVars
<1>5. Fetched'
  BY DEF IInv, Fetched, RunReturns, poolVars, searchVars, readVars
<1>6. Control'
  BY <1>1 DEF IInv, Control, RunReturns, poolVars, searchVars, readVars
<1>7. InputIntact'
  BY <1>1 DEF IInv, InputIntact, RunReturns, poolVars, searchVars, readVars
<1> QED
  BY <1>2, <1>3, <1>4, <1>5, <1>6, <1>7 DEF IInv

LEMMA GpuXorStep ==
    ASSUME IInv, GpuXor
    PROVE  IInv'
<1> USE PipelineAssumption, U32Type DEF PipelineAssumption, Buffers, Blocks, NoBuffer
<1>1. InFlight' = InFlight /\ InFlight \subseteq Blocks
  BY DEF InFlight, GpuXor, ReleaseRef, searchVars, readVars
<1>2. held \in Buffers /\ rpc = "xor" /\ \A i \in InFlight : bufOf[i] \in Buffers /\ bufOf[i] # held
  BY <1>1 DEF IInv, TypeOK, Control, Exclusive, GpuXor
<1>3. rc[held] = 1
  BY <1>2 DEF IInv, Counted, Used, Attempt
<1>4. Counted'
  BY <1>1, <1>2, <1>3 DEF IInv, TypeOK, Counted, Used, Attempt, GpuXor, ReleaseRef,
     searchVars, readVars
<1>5. TypeOK'
  <2>1. rc' \in [Buffers -> 0 .. 2] /\ held' \in Buffers \cup {NoBuffer}
    BY <1>2, <1>3 DEF IInv, TypeOK, GpuXor, ReleaseRef, searchVars, readVars
  <2> QED
    BY <2>1 DEF IInv, TypeOK, GpuXor, ReleaseRef, searchVars, readVars
<1>6. Exclusive'
  BY <1>1, <1>2 DEF IInv, Exclusive, GpuXor, ReleaseRef, searchVars, readVars
<1>7. Fetched'
  BY DEF IInv, Fetched, GpuXor, ReleaseRef, searchVars, readVars
<1>8. Control'
  BY <1>1 DEF IInv, Control, GpuXor, ReleaseRef, searchVars, readVars
<1>9. InputIntact'
  BY <1>1 DEF IInv, InputIntact, GpuXor, ReleaseRef, searchVars, readVars
<1> QED
  BY <1>4, <1>5, <1>6, <1>7, <1>8, <1>9 DEF IInv

LEMMA GpuFailsStep ==
    ASSUME IInv, GpuFails
    PROVE  IInv'
<1> USE PipelineAssumption, U32Type DEF PipelineAssumption, Buffers, Blocks, NoBuffer
<1>1. InFlight' = InFlight /\ InFlight \subseteq Blocks
  BY DEF InFlight, GpuFails, poolVars, searchVars, readVars
<1>2. TypeOK'
  BY DEF IInv, TypeOK, Control, GpuFails, poolVars, searchVars, readVars
<1>3. Counted'
  BY <1>1 DEF IInv, Counted, Used, Attempt, GpuFails, poolVars, searchVars, readVars
<1>4. Exclusive'
  BY <1>1 DEF IInv, Exclusive, GpuFails, poolVars, searchVars, readVars
<1>5. Fetched'
  BY DEF IInv, Fetched, GpuFails, poolVars, searchVars, readVars
<1>6. Control'
  BY <1>1 DEF IInv, Control, GpuFails, poolVars, searchVars, readVars
<1>7. InputIntact'
  BY <1>1 DEF IInv, InputIntact, GpuFails, poolVars, searchVars, readVars
<1> QED
  BY <1>2, <1>3, <1>4, <1>5, <1>6, <1>7 DEF IInv

LEMMA ProcessStep ==
    ASSUME IInv, NEW i \in Blocks, Process(i, "release")
    PROVE  IInv'
<1> USE PipelineAssumption, U32Type DEF PipelineAssumption, Buffers, Blocks, NoBuffer
<1>1. InFlight' = InFlight /\ i \in InFlight
  BY DEF IInv, TypeOK, InFlight, Process, poolVars, searchVars, readVars
<1>2. TypeOK'
  <2>1. stage' \in [Blocks -> {"unread", "process", "release", "done"}]
    BY DEF IInv, TypeOK, Process, poolVars, searchVars, readVars
  <2>2. <<index[bufOf[i]], content[bufOf[i]]>> \in Nat \X Nat
    BY DEF IInv, TypeOK
  <2>3. folded' \subseteq Nat \X Nat
    BY <2>2 DEF IInv, TypeOK, Process, poolVars, searchVars, readVars
  <2> QED
    BY <2>1, <2>3 DEF IInv, TypeOK, Process, poolVars, searchVars, readVars
<1>3. Counted'
  BY <1>1 DEF IInv, Counted, Used, Attempt, Process, poolVars, searchVars, readVars
<1>4. Exclusive'
  BY <1>1 DEF IInv, Exclusive, Process, poolVars, searchVars, readVars
<1>5. Fetched'
  <2>1. \A j \in Blocks : j # i => stage'[j] = stage[j]
    BY DEF IInv, TypeOK, Process, poolVars, searchVars, readVars
  <2>2. stage[i] # "unread"
    BY DEF Process, poolVars, searchVars, readVars
  <2>3. rpc = "read" => nextblock - 1 \in Blocks
    BY DEF IInv, TypeOK, Fetched
  <2> QED
    BY <2>1, <2>2, <2>3 DEF IInv, Fetched, Process, poolVars, searchVars, readVars
<1>6. Control'
  BY <1>1 DEF IInv, Control, Process, poolVars, searchVars, readVars
<1>7. InputIntact'
  BY <1>1 DEF IInv, InputIntact, Process, poolVars, searchVars, readVars
<1> QED
  BY <1>2, <1>3, <1>4, <1>5, <1>6, <1>7 DEF IInv

\* The token was the only user, so that a count of 0 is right.
LEMMA ReleaseStep ==
    ASSUME IInv, NEW i \in Blocks, Release(i)
    PROVE  IInv'
<1> USE PipelineAssumption, U32Type DEF PipelineAssumption, Buffers, Blocks, NoBuffer
<1>1. stage[i] = "release" /\ bufOf[i] \in Buffers
  BY DEF IInv, TypeOK, Release
<1>2. InFlight' = InFlight \ {i} /\ i \in InFlight
  BY <1>1 DEF IInv, TypeOK, InFlight, Release, ReleaseRef, searchVars, readVars
<1>3. rc[bufOf[i]] = 1 + Attempt(bufOf[i])
  BY <1>1, <1>2 DEF IInv, Counted, Used
<1>4. held # bufOf[i] /\ \A j \in InFlight' : bufOf[j] # bufOf[i]
  BY <1>2 DEF IInv, Exclusive
<1>5. Counted'
  <2> SUFFICES ASSUME NEW b \in Buffers
               PROVE  rc'[b] \in {Attempt(b)', 1 + Attempt(b)'} /\ (Used(b)' => rc'[b] = 1 + Attempt(b)')
    BY DEF Counted
  <2>1. Attempt(b)' = Attempt(b) /\ Attempt(b) \in {0, 1}
    BY DEF Attempt, Release, ReleaseRef, searchVars, readVars
  <2>2. CASE b = bufOf[i]
    <3>1. ~ Used(b)'
      BY <1>4, <2>2 DEF Used, Release, ReleaseRef, searchVars, readVars
    <3>2. rc'[b] = Attempt(b)
      BY <1>1, <1>3, <2>1, <2>2 DEF IInv, TypeOK, Release, ReleaseRef, searchVars, readVars
    <3> QED
      BY <2>1, <3>1, <3>2
  <2>3. CASE b # bufOf[i]
    <3>1. rc'[b] = rc[b]
      BY <2>3 DEF IInv, TypeOK, Release, ReleaseRef, searchVars, readVars
    <3>2. Used(b)' => Used(b)
      BY <1>2 DEF Used, Release, ReleaseRef, searchVars, readVars
    <3> QED
      BY <2>1, <3>1, <3>2 DEF IInv, Counted
  <2> QED
    BY <2>2, <2>3
<1>6. TypeOK'
  <2>1. rc' \in [Buffers -> 0 .. 2]
    BY <1>1, <1>3 DEF IInv, TypeOK, Attempt, Release, ReleaseRef, searchVars, readVars
  <2>2. stage' \in [Blocks -> {"unread", "process", "release", "done"}]
    BY DEF IInv, TypeOK, Release, ReleaseRef, searchVars, readVars
  <2> QED
    BY <2>1, <2>2 DEF IInv, TypeOK, Release, ReleaseRef, searchVars, readVars
<1>7. Exclusive'
  BY <1>2 DEF IInv, Exclusive, Release, ReleaseRef, searchVars, readVars
<1>8. Fetched'
  <2>1. \A j \in Blocks : j # i => stage'[j] = stage[j]
    BY DEF IInv, TypeOK, Release, ReleaseRef, searchVars, readVars
  <2>2. rpc = "read" => nextblock - 1 \in Blocks
    BY DEF IInv, TypeOK, Fetched
  <2> QED
    BY <1>1, <2>1, <2>2 DEF IInv, Fetched, Release, ReleaseRef, searchVars, readVars
<1>9. Control'
  BY <1>2 DEF IInv, Control, Release, ReleaseRef, searchVars, readVars
<1>10. InputIntact'
  BY <1>2 DEF IInv, InputIntact, Release, ReleaseRef, searchVars, readVars
<1> QED
  BY <1>5, <1>6, <1>7, <1>8, <1>9, <1>10 DEF IInv

-----------------------------------------------------------------------------

LEMMA InitIInv == Init => IInv
<1> SUFFICES ASSUME Init PROVE IInv
  OBVIOUS
<1> USE PipelineAssumption, U32Type DEF PipelineAssumption, Buffers, Blocks, NoBuffer
<1>1. InFlight = {}
  BY DEF Init, InFlight
<1>2. TypeOK
  <2>1. /\ rc \in [Buffers -> 0 .. 2] /\ off \in Buffers /\ tries \in 0 .. NumBuffers
        /\ nextblock \in 0 .. NumBlocks
    BY DEF Init
  <2>2. bufOf \in [Blocks -> Buffers]
    BY DEF Init
  <2> QED
    BY <2>1, <2>2 DEF Init, TypeOK
<1>3. Counted
  BY <1>1 DEF Init, Counted, Used, Attempt
<1>4. Exclusive /\ Fetched /\ InputIntact
  BY <1>1 DEF Init, Exclusive, Fetched, InputIntact
<1>5. Control
  BY <1>1 DEF Init, Control, Absent
<1> QED
  BY <1>2, <1>3, <1>4, <1>5 DEF IInv

\* One step per action; ReadFails is ReadAborts with a cause.
LEMMA NextIInv == IInv /\ [Next]_vars => IInv'
<1> SUFFICES ASSUME IInv, [Next]_vars PROVE IInv'
  OBVIOUS
<1>1. CASE ReaderStep
  <2>1. CASE StartRead
    BY <2>1, StartReadStep
  <2>2. CASE Search
    BY <2>2, SearchStep
  <2>3. CASE TryAcquire
    BY <2>3, TryAcquireStep
  <2>4. CASE BackOff
    BY <2>4, BackOffStep
  <2>5. CASE EndOfInput
    BY <2>5, EndOfInputStep
  <2>6. CASE Fetch
    BY <2>6, FetchStep
  <2>7. CASE ReadBlock("process")
    BY <2>7, ReadBlockStep
  <2>8. CASE OpenFails
    BY <2>8, OpenFailsStep
  <2>9. CASE ReadFails
    BY <2>9, ReadAbortsStep DEF ReadFails
  <2>10. CASE RunReturns
    BY <2>10, RunReturnsStep
  <2>11. CASE GpuXor
    BY <2>11, GpuXorStep
  <2>12. CASE GpuFails
    BY <2>12, GpuFailsStep
  <2> QED
    BY <1>1, <2>1, <2>2, <2>3, <2>4, <2>5, <2>6, <2>7, <2>8, <2>9, <2>10, <2>11,
       <2>12
       DEF ReaderStep, Acquire
<1>2. ASSUME NEW i \in Blocks, WorkerStep(i) PROVE IInv'
  BY <1>2, ProcessStep, ReleaseStep DEF WorkerStep
<1>3. CASE UNCHANGED vars
  <2>1. InFlight' = InFlight
    BY <1>3 DEF vars, InFlight
  <2>2. TypeOK' /\ Exclusive' /\ Fetched' /\ Control' /\ InputIntact'
    BY <1>3, <2>1 DEF IInv, vars, TypeOK, Exclusive, Fetched, Control, InputIntact
  <2>3. Counted'
    BY <1>3, <2>1 DEF IInv, vars, Counted, Used, Attempt
  <2> QED
    BY <2>2, <2>3 DEF IInv
<1> QED
  BY <1>1, <1>2, <1>3 DEF Next, Returned

LEMMA AlwaysIInv == Spec => []IInv
BY InitIInv, NextIInv, PTL DEF Spec

\* Every variable keeps its type; in particular no reference count goes below
\* 0 or above 2, so that none is released that was not taken.
THEOREM TypeCorrect == Spec => []TypeOK
<1>1. IInv => TypeOK
  BY DEF IInv
<1> QED
  BY <1>1, AlwaysIInv, PTL

\* No two blocks in flight share a buffer, nor does the read stage fill one that
\* is in use: try_to_acquire and release suffice, for any number of threads.
THEOREM NoSharingHolds == Spec => []NoSharing
<1>1. IInv => NoSharing
  BY DEF IInv, NoSharing, Exclusive
<1> QED
  BY <1>1, AlwaysIInv, PTL

\* A block in flight keeps its data and its column until its token lets go.
THEOREM InputIntactHolds == Spec => []InputIntact
<1>1. IInv => InputIntact
  BY DEF IInv
<1> QED
  BY <1>1, AlwaysIInv, PTL

-----------------------------------------------------------------------------
(* The files that are open.                                                *)

\* FileBlockCount[f] is the number of the blocks that are read from f, as in a
\* creation: no block of a file is left out.
BlocksOf(f) == {i \in Blocks : FileOf[i] = f}
BlocksCounted == \A f \in Files : FileBlockCount[f] = Cardinality(BlocksOf(f))

\* A file is open from its first to its last block, and the entry of
\* openfiles_ counts the blocks that are left.
Unread(f) == {i \in Blocks : FileOf[i] = f /\ stage[i] = "unread"}
FileCounted(f) ==
    \/ openfiles[f] = Absent /\ handles[f] = 0
         /\ Cardinality(Unread(f)) \in {0, FileBlockCount[f]}
    \/ openfiles[f] = Cardinality(Unread(f)) /\ handles[f] = 1
         /\ Cardinality(Unread(f)) > 0

LEMMA UnreadFinite ==
    ASSUME NEW f PROVE IsFiniteSet(Unread(f)) /\ Cardinality(Unread(f)) \in Nat
<1>1. IsFiniteSet(Blocks)
  <2>1. NumBlocks \in Nat
    BY PipelineAssumption DEF PipelineAssumption
  <2> QED
    BY <2>1, FS_Interval DEF Blocks
<1>2. Unread(f) \in SUBSET Blocks
  BY DEF Unread
<1>3. IsFiniteSet(Unread(f))
  BY <1>1, <1>2, FS_Subset
<1> QED
  BY <1>3, FS_CardinalityType

\* Reading a block opens its file at the first and closes it at the last.
LEMMA ReadBlockCounts ==
    ASSUME NEW s, s # "unread", ReadBlock(s),
           NEW T, stage \in [Blocks -> T],
           openfiles \in [Files -> {Absent} \cup 0 .. U32 - 1], handles \in [Files -> Nat],
           Reading \in Blocks, stage[Reading] = "unread",
           NEW g \in Files, FileCounted(g)
    PROVE  FileCounted(g)'
<1>1. stage'[Reading] = s /\ \A i \in Blocks : i # Reading => stage'[i] = stage[i]
  BY DEF ReadBlock
<1> DEFINE f == ReadingFile
           left == IF LastBlock(f) THEN Absent ELSE (BlocksLeft(f) - 1) % U32
           open == IF LastBlock(f) THEN HandlesOnceOpen(f) - 1 ELSE HandlesOnceOpen(f)
<1>2. /\ openfiles' = [openfiles EXCEPT ![f] = left]
      /\ handles' = [handles EXCEPT ![f] = open]
  BY DEF ReadBlock
<1>3. /\ openfiles \in [Files -> {Absent} \cup 0 .. U32 - 1] /\ handles \in [Files -> Nat]
      /\ FileBlockCount[g] \in 0 .. U32 - 1
  BY PipelineAssumption DEF PipelineAssumption
<1>4. CASE g # f
  <2>1. Unread(g)' = Unread(g)
    BY <1>1, <1>4 DEF Unread, ReadingFile
  <2>2. openfiles'[g] = openfiles[g] /\ handles'[g] = handles[g]
    BY <1>2, <1>3, <1>4
  <2> QED
    BY <2>1, <2>2 DEF FileCounted
<1>5. CASE g = f
  <2> DEFINE n == Cardinality(Unread(g))
  <2>1. Reading \in Unread(g) /\ Unread(g)' = Unread(g) \ {Reading}
    BY <1>1, <1>5 DEF Unread, ReadingFile
  <2>2. n \in Nat /\ n > 0 /\ Cardinality(Unread(g)') = n - 1
    <3>1. IsFiniteSet(Unread(g)) /\ n \in Nat
      BY UnreadFinite
    <3>2. Cardinality(Unread(g) \ {Reading}) = n - 1
      BY <2>1, <3>1, FS_RemoveElement
    <3>3. Cardinality(Unread(g) \ {Reading}) \in Nat
      BY <3>1, FS_Subset, FS_CardinalityType
    <3> QED
      BY <2>1, <3>1, <3>2, <3>3
  <2> HIDE DEF n
  <2>3. BlocksLeft(g) = n /\ HandlesOnceOpen(g) = 1 /\ n < U32
    <3>1. \/ openfiles[g] = Absent /\ handles[g] = 0 /\ n \in {0, FileBlockCount[g]}
          \/ openfiles[g] = n /\ handles[g] = 1 /\ n > 0
      BY DEF FileCounted, n
    <3>2. CASE openfiles[g] = Absent
      BY <1>3, <2>2, <3>1, <3>2, U32Type DEF BlocksLeft, HandlesOnceOpen, IsOpen, Absent
    <3>3. CASE openfiles[g] # Absent
      BY <1>3, <2>2, <3>1, <3>3, U32Type DEF BlocksLeft, HandlesOnceOpen, IsOpen, Absent
    <3> QED
      BY <3>2, <3>3
  <2>4. /\ openfiles'[g] = IF n = 1 THEN Absent ELSE (n - 1) % U32
        /\ handles'[g] = IF n = 1 THEN 0 ELSE 1
    BY <1>2, <1>3, <1>5, <2>3 DEF LastBlock
  <2>5. (n - 1) % U32 = n - 1
    BY <2>2, <2>3, U32Type
  <2> QED
    BY <2>2, <2>4, <2>5 DEF FileCounted
<1> QED
  BY <1>4, <1>5

-----------------------------------------------------------------------------
(***************************************************************************)
(* AlwaysSucceeds and RunComplete: what is shown by counting tokens and    *)
(* blocks.  There are as many buffers as tokens.  When the read stage      *)
(* starts, a token is left, so a buffer is free, and only the read stage   *)
(* could take it: it is still free when the search comes to it.  And a     *)
(* file is closed with the last of its blocks because the count of those   *)
(* not yet read tells which one that is.                                   *)
(***************************************************************************)

(***************************************************************************)
(* The buffer that the read stage forgets at the end of the input is       *)
(* missing when the outputs of the video card are fetched, see the run     *)
(* pipeline_serial_gpu.                                                    *)
(***************************************************************************)
EnoughBuffers == HasGpu => NumBuffers > 1

-----------------------------------------------------------------------------
(* AlwaysSucceeds.                                                         *)

\* While the input lasts nothing is forgotten: a buffer without a user is free.
Exact ==
    ~ post => /\ \A b \in Buffers : ~ Used(b) => rc[b] = Attempt(b)
              /\ rpc \in {"idle", "search", "try", "backoff"} => held = NoBuffer

\* How far the search is from buffer b.
Ahead(b) == IF b >= off THEN b - off ELSE b - off + NumBuffers

\* A search meets a free buffer within the number of tries left.
FreeAhead ==
    /\ rpc = "search" => \E b \in Buffers : rc[b] = 0
    /\ rpc \in {"try", "backoff"} => \E b \in Buffers : rc[b] = 0 /\ Ahead(b) < tries

Phases == (rpc = "xor" => post) /\ (rpc = "finished" => ~ post)

SInv == Exact /\ FreeAhead /\ Phases

LEMMA Buffers0 ==
    /\ NumBuffers \in Nat /\ NumBuffers > 0 /\ Buffers \subseteq Int
    /\ NoBuffer \notin Buffers
    /\ IsFiniteSet(Buffers) /\ Cardinality(Buffers) = NumBuffers
    /\ IsFiniteSet(Blocks)
<1>1. NumBuffers \in Nat /\ NumBuffers > 0 /\ NumBlocks \in Nat
  BY PipelineAssumption DEF PipelineAssumption
<1>2. IsFiniteSet(0 .. NumBuffers - 1) /\ Cardinality(0 .. NumBuffers - 1) = NumBuffers
  BY <1>1, FS_Interval
<1>3. IsFiniteSet(0 .. NumBlocks - 1)
  BY <1>1, FS_Interval
<1> QED
  BY <1>1, <1>2, <1>3 DEF Buffers, Blocks, NoBuffer

\* Fewer tokens than buffers leave a buffer that no token has.
LEMMA OneIsLeft ==
    ASSUME IInv, TokenLeft
    PROVE  \E b \in Buffers : \A i \in InFlight : bufOf[i] # b
<1> SUFFICES ASSUME \A b \in Buffers : \E i \in InFlight : bufOf[i] = b PROVE FALSE
  OBVIOUS
<1> DEFINE g == [i \in InFlight |-> bufOf[i]]
<1>1. IsFiniteSet(InFlight) /\ Cardinality(InFlight) \in Nat
  <2>1. InFlight \in SUBSET Blocks
    BY DEF InFlight
  <2>2. IsFiniteSet(InFlight)
    BY <2>1, Buffers0, FS_Subset
  <2> QED
    BY <2>2, FS_CardinalityType
<1>2. g \in Surjection(InFlight, Buffers)
  <2>1. \A i \in InFlight : bufOf[i] \in Buffers
    BY DEF IInv, TypeOK, InFlight
  <2> QED
    BY <2>1 DEF Surjection
<1>3. Cardinality(Buffers) <= Cardinality(InFlight)
  BY <1>1, <1>2, FS_Surjection
<1> QED
  BY <1>1, <1>3, Buffers0 DEF TokenLeft

\* Going on to the next buffer, round the end of the pool.
LEMMA NextOff ==
    ASSUME NEW x \in Buffers
    PROVE  (x + 1) % NumBuffers = IF x + 1 = NumBuffers THEN 0 ELSE x + 1
<1>1. x \in Nat /\ x + 1 <= NumBuffers /\ NumBuffers \in Nat /\ NumBuffers > 0
  BY Buffers0 DEF Buffers
<1>2. CASE x + 1 = NumBuffers
  <2>1. NumBuffers % NumBuffers = 0
    BY <1>1
  <2> QED
    BY <1>2, <2>1
<1>3. CASE x + 1 # NumBuffers
  BY <1>1, <1>3
<1> QED
  BY <1>2, <1>3

LEMMA SearchStarts == ASSUME EnoughBuffers, IInv, SInv, StartRead \/ RunReturns PROVE SInv'
<1>1. /\ InFlight' = InFlight /\ UNCHANGED <<rc, off, tries, held, bufOf>>
      /\ rpc \in {"idle", "finished"} /\ rpc' \in {"search", "finished", "returned"}
  BY DEF StartRead, RunReturns, InFlight, poolVars, searchVars
<1>2. /\ rpc = "idle" => post' = post /\ ~ post /\ TokenLeft /\ held = NoBuffer
      /\ rpc = "finished" => ~ post /\ InFlight = {} /\ (rpc' = "search" => HasGpu)
                             /\ post' = HasGpu /\ rpc' # "finished"
  BY DEF StartRead, RunReturns, IInv, Control, SInv, Exact, Phases
<1>3. Exact'
  <2> SUFFICES ASSUME ~ post' PROVE Exact'
    BY DEF Exact
  <2>1. rpc' = "search" => held = NoBuffer
    BY <1>1, <1>2
  <2>2. \A b \in Buffers : (Used(b)' <=> Used(b)) /\ Attempt(b)' = 0 /\ Attempt(b) = 0
    BY <1>1 DEF Used, Attempt
  <2> QED
    BY <1>1, <1>2, <2>1, <2>2 DEF SInv, Exact
<1>4. FreeAhead'
  <2> SUFFICES ASSUME rpc' = "search" PROVE \E b \in Buffers : rc[b] = 0
    BY <1>1 DEF FreeAhead
  <2>1. CASE rpc = "idle"
    <3>1. PICK b \in Buffers : \A i \in InFlight : bufOf[i] # b
      BY <1>2, <2>1, OneIsLeft
    <3>2. ~ Used(b) /\ Attempt(b) = 0
      BY <1>2, <2>1, <3>1, Buffers0 DEF Used, Attempt
    <3> QED
      BY <1>2, <2>1, <3>2 DEF SInv, Exact
  <2>2. CASE rpc = "finished"
    <3>1. 0 \in Buffers /\ 1 \in Buffers
      BY <1>2, <2>2, Buffers0 DEF EnoughBuffers, Buffers
    <3>2. PICK b \in Buffers : b # held
      BY <3>1
    <3>3. ~ Used(b) /\ Attempt(b) = 0
      BY <1>2, <2>2, <3>2 DEF Used, Attempt
    <3> QED
      BY <1>2, <2>2, <3>3 DEF SInv, Exact
  <2> QED
    BY <1>1, <2>1, <2>2
<1>5. Phases'
  BY <1>1, <1>2 DEF Phases
<1> QED
  BY <1>3, <1>4, <1>5 DEF SInv

\* Nothing is a whole round away.
LEMMA LessThanPool ==
    ASSUME NEW n \in Int, NEW x \in Int, NEW y \in Int, 0 <= y, y < n, x < n
    PROVE  (IF x >= y THEN x - y ELSE x - y + n) < n
<1>1. CASE x >= y
  BY <1>1
<1>2. CASE ~ (x >= y)
  BY <1>2
<1> QED
  BY <1>1, <1>2

LEMMA SearchGoesOn == ASSUME IInv, SInv, Search \/ TryAcquire \/ BackOff PROVE SInv'
<1>1. /\ InFlight' = InFlight /\ UNCHANGED <<post, bufOf>> /\ off \in Buffers
      /\ rc \in [Buffers -> 0 .. 2]
      /\ NumBuffers \in Nat /\ NumBuffers > 0 /\ Buffers \subseteq Int
  BY Buffers0 DEF Search, TryAcquire, BackOff, InFlight, poolVars, IInv, TypeOK
<1>2. CASE Search
  <2>1. rpc = "search" /\ rpc' = "try" /\ rc' = rc /\ held' = held /\ tries' = NumBuffers
        /\ off' \in Buffers
    BY <1>2 DEF Search, poolVars
  <2>2. PICK b \in Buffers : rc[b] = 0
    BY <2>1 DEF SInv, FreeAhead
  <2>3. Ahead(b)' < NumBuffers
    <3>1. /\ b \in Int /\ off' \in Int /\ NumBuffers \in Int
          /\ 0 <= off' /\ off' < NumBuffers /\ b < NumBuffers /\ 0 <= b
      BY <2>1, Buffers0 DEF Buffers
    <3>2. (IF b >= off' THEN b - off' ELSE b - off' + NumBuffers) < NumBuffers
      BY <3>1, LessThanPool
    <3> QED
      BY <3>2 DEF Ahead
  <2>4. FreeAhead'
    BY <2>1, <2>2, <2>3 DEF FreeAhead
  <2>5. Exact'
    BY <1>1, <2>1 DEF SInv, Exact, Used, Attempt
  <2> QED
    BY <2>1, <2>4, <2>5 DEF SInv, Phases
<1>3. CASE TryAcquire
  <2>1. rpc = "try" /\ rc'[off] = rc[off] + 1 /\ \A b \in Buffers : b # off => rc'[b] = rc[b]
    BY <1>1, <1>3 DEF TryAcquire
  <2>2. CASE rc[off] = 0
    <3>1. rpc' = (IF post THEN "xor" ELSE "fetch") /\ held' = off
      BY <1>3, <2>2 DEF TryAcquire, WasFree
    <3>2. Exact'
      <4> SUFFICES ASSUME ~ post PROVE Exact'
        BY <1>1 DEF Exact
      <4>1. \A b \in Buffers : ~ Used(b)' => ~ Used(b) /\ b # off
        <5>1. held = NoBuffer
          BY <2>1 DEF SInv, Exact
        <5> QED
          BY <1>1, <3>1, <5>1, Buffers0 DEF Used
      <4>2. \A b \in Buffers : Attempt(b) = 0 /\ Attempt(b)' = 0
        BY <2>1, <3>1 DEF Attempt
      <4> QED
        BY <2>1, <3>1, <4>1, <4>2 DEF SInv, Exact
    <3> QED
      BY <1>1, <3>1, <3>2 DEF SInv, FreeAhead, Phases
  <2>3. CASE rc[off] # 0
    <3>1. rpc' = "backoff" /\ held' = held /\ off' = off /\ tries' = tries
      BY <1>3, <2>3 DEF TryAcquire, WasFree, searchVars
    <3>2. Exact'
      <4>1. \A b \in Buffers : /\ Used(b)' <=> Used(b)
                               /\ Attempt(b) = 0
                               /\ Attempt(b)' = IF b = off THEN 1 ELSE 0
        BY <1>1, <2>1, <3>1 DEF Used, Attempt
      <4> QED
        BY <1>1, <2>1, <3>1, <4>1 DEF SInv, Exact
    <3>3. FreeAhead'
      <4>1. PICK b \in Buffers : rc[b] = 0 /\ Ahead(b) < tries
        BY <2>1 DEF SInv, FreeAhead
      <4>2. rc'[b] = 0 /\ Ahead(b)' < tries'
        BY <2>1, <2>3, <3>1, <4>1 DEF Ahead
      <4> QED
        BY <3>1, <4>2 DEF FreeAhead
    <3> QED
      BY <3>1, <3>2, <3>3 DEF SInv, Phases
  <2> QED
    BY <2>2, <2>3
<1>4. CASE BackOff
  <2>1. /\ rpc = "backoff" /\ rc'[off] = rc[off] - 1
        /\ \A b \in Buffers : b # off => rc'[b] = rc[b]
        /\ off' = (off + 1) % NumBuffers /\ tries' = tries - 1 /\ held' = held
        /\ rpc' = (IF tries = 1 THEN "search" ELSE "try")
    BY <1>1, <1>4 DEF BackOff, ReleaseRef
  <2>2. rc[off] > 0
    BY <1>1, <2>1 DEF IInv, Counted, Attempt
  <2>3. Exact'
    <3>1. \A b \in Buffers : /\ Used(b)' <=> Used(b)
                             /\ Attempt(b)' = 0
                             /\ Attempt(b) = IF b = off THEN 1 ELSE 0
      BY <1>1, <2>1 DEF Used, Attempt
    <3> QED
      BY <1>1, <2>1, <3>1 DEF SInv, Exact
  <2>4. PICK b \in Buffers : rc[b] = 0 /\ Ahead(b) < tries
    BY <2>1 DEF SInv, FreeAhead
  <2>5. b # off /\ rc'[b] = 0
    BY <2>1, <2>2, <2>4
  <2>6. Ahead(b)' = Ahead(b) - 1 /\ Ahead(b) > 0 /\ Ahead(b) \in Nat
    <3>1. off' = IF off + 1 = NumBuffers THEN 0 ELSE off + 1
      BY <1>1, <2>1, NextOff
    <3>2. b \in 0 .. NumBuffers - 1 /\ off \in 0 .. NumBuffers - 1
      BY <1>1 DEF Buffers
    <3> QED
      BY <1>1, <2>5, <3>1, <3>2 DEF Ahead
  <2>7. FreeAhead'
    <3>1. tries \in Int
      BY <1>1 DEF IInv, TypeOK
    <3>2. tries # 1 /\ Ahead(b)' < tries'
      BY <2>1, <2>4, <2>6, <3>1
    <3> QED
      BY <2>1, <2>5, <3>2 DEF FreeAhead
  <2> QED
    BY <2>1, <2>3, <2>7 DEF SInv, Phases
<1> QED
  BY <1>2, <1>3, <1>4

\* A step of the read stage outside of a search.
LEMMA ReaderKeeps ==
    ASSUME IInv, SInv,
           EndOfInput \/ Fetch \/ ReadBlock("process") \/ OpenFails \/ ReadAborts
             \/ GpuXor \/ GpuFails
    PROVE  SInv'
<1>1. /\ rpc' \in {"read", "idle", "finished", "returned"} /\ post' = post
      /\ rpc \in {"fetch", "read", "xor"} /\ held \in Buffers
      /\ (rpc = "xor" <=> post) /\ (rpc = "xor" => rpc' = "returned")
  BY DEF EndOfInput, Fetch, ReadBlock, OpenFails, ReadAborts, GpuXor, GpuFails, IInv, Control,
     SInv, Phases
<1>2. FreeAhead' /\ Phases'
  BY <1>1 DEF FreeAhead, Phases
<1>3. CASE post
  BY <1>1, <1>2, <1>3 DEF SInv, Exact
<1>4. CASE ~ post
  <2>1. \A b \in Buffers : Attempt(b) = 0 /\ Attempt(b)' = 0
    BY <1>1 DEF Attempt
  <2>2. CASE EndOfInput \/ Fetch \/ OpenFails
    <3>1. UNCHANGED <<rc, held, bufOf>> /\ InFlight' = InFlight /\ rpc' # "idle"
      BY <2>2 DEF EndOfInput, Fetch, OpenFails, InFlight, poolVars
    <3> QED
      BY <1>1, <1>2, <2>1, <3>1 DEF SInv, Exact, Used
  <2>3. CASE ReadBlock("process")
    <3>1. Reading \in Blocks /\ stage[Reading] = "unread"
      <4>1. nextblock > 0 /\ nextblock \in 0 .. NumBlocks /\ stage[Reading] = "unread"
        BY <2>3 DEF IInv, TypeOK, Fetched, ReadBlock, Reading
      <4>2. NumBlocks \in Nat
        BY PipelineAssumption DEF PipelineAssumption
      <4> QED
        BY <4>1, <4>2 DEF Reading, Blocks
    <3>2. /\ rc' = rc /\ held' = NoBuffer
          /\ stage'[Reading] = "process" /\ bufOf'[Reading] = held
          /\ \A i \in Blocks : i # Reading => stage'[i] = stage[i] /\ bufOf'[i] = bufOf[i]
      BY <2>3, <3>1 DEF ReadBlock, IInv, TypeOK
    <3>3. \A b \in Buffers : ~ Used(b)' => ~ Used(b)
      <4>1. Reading \in InFlight' /\ \A i \in InFlight : i \in InFlight' /\ bufOf'[i] = bufOf[i]
        BY <3>1, <3>2 DEF InFlight
      <4> QED
        BY <3>2, <4>1 DEF Used
    <3> QED
      BY <1>1, <1>2, <2>1, <3>2, <3>3 DEF SInv, Exact
  <2>4. CASE ReadAborts
    <3>1. /\ rpc = "read" /\ held' = NoBuffer /\ rc' = [rc EXCEPT ![held] = @ - 1]
          /\ UNCHANGED <<stage, bufOf>> /\ rpc' = "finished"
      BY <2>4 DEF ReadAborts, ReleaseRef
    <3>2. InFlight' = InFlight
      BY <3>1 DEF InFlight
    <3>3. rc \in [Buffers -> 0 .. 2] /\ rc[held] = 1
      BY <1>1, <2>1 DEF IInv, TypeOK, Counted, Used
    <3>4. ASSUME NEW b \in Buffers, ~ Used(b)' PROVE rc'[b] = 0
      <4>1. CASE b = held
        BY <3>1, <3>3, <4>1
      <4>2. CASE b # held
        BY <1>4, <2>1, <3>1, <3>2, <3>3, <3>4, <4>2 DEF SInv, Exact, Used
      <4> QED
        BY <4>1, <4>2
    <3> QED
      BY <1>1, <1>2, <2>1, <3>1, <3>4 DEF SInv, Exact
  <2> QED
    BY <1>1, <1>4, <2>2, <2>3, <2>4 DEF GpuXor, GpuFails
<1> QED
  BY <1>3, <1>4

LEMMA WorkerKeeps ==
    ASSUME IInv, SInv, NEW i \in Blocks, WorkerStep(i)
    PROVE  SInv'
<1>1. UNCHANGED <<rpc, post, held, bufOf, off, tries>> /\ i \in InFlight
  BY DEF WorkerStep, Process, Release, searchVars, InFlight
<1>2. \A b : Attempt(b)' = Attempt(b)
  BY <1>1 DEF Attempt
<1>3. CASE Process(i, "release")
  <2>1. rc' = rc /\ InFlight' = InFlight
    BY <1>3 DEF Process, poolVars, InFlight, IInv, TypeOK
  <2> QED
    BY <1>1, <1>2, <2>1 DEF SInv, Exact, FreeAhead, Phases, Used, Ahead
<1>4. CASE Release(i)
  <2>1. /\ rc \in [Buffers -> 0 .. 2] /\ bufOf[i] \in Buffers
        /\ rc' = [rc EXCEPT ![bufOf[i]] = @ - 1]
        /\ InFlight' = InFlight \ {i}
    BY <1>4 DEF Release, ReleaseRef, InFlight, IInv, TypeOK
  <2>2. rc[bufOf[i]] = 1 + Attempt(bufOf[i]) /\ Attempt(bufOf[i]) \in {0, 1}
    BY <1>1, <2>1 DEF IInv, Counted, Used, Attempt
  <2>3. ASSUME ~ post, NEW b \in Buffers, ~ Used(b)' PROVE rc'[b] = Attempt(b)
    <3>1. CASE b = bufOf[i]
      BY <2>1, <2>2, <3>1
    <3>2. CASE b # bufOf[i]
      <4>1. ~ Used(b)
        BY <1>1, <2>1, <2>3, <3>2 DEF Used
      <4> QED
        BY <2>1, <2>3, <3>2, <4>1 DEF SInv, Exact
    <3> QED
      BY <3>1, <3>2
  <2>4. \A b \in Buffers : rc[b] = 0 => rc'[b] = 0 /\ Ahead(b)' = Ahead(b)
    BY <1>1, <2>1, <2>2 DEF Ahead
  <2> QED
    BY <1>1, <1>2, <2>3, <2>4 DEF SInv, Exact, FreeAhead, Phases
<1> QED
  BY <1>3, <1>4 DEF WorkerStep

LEMMA InitSInv == Init => SInv
<1> SUFFICES ASSUME Init PROVE SInv
  OBVIOUS
<1>1. Exact
  BY DEF Init, Exact, Attempt
<1> QED
  BY <1>1 DEF Init, SInv, FreeAhead, Phases

LEMMA NextSInv == EnoughBuffers /\ IInv /\ SInv /\ [Next]_vars => SInv'
<1> SUFFICES ASSUME EnoughBuffers, IInv, SInv, [Next]_vars PROVE SInv'
  OBVIOUS
<1>1. CASE ReaderStep
  BY <1>1, SearchStarts, SearchGoesOn, ReaderKeeps DEF ReaderStep, Acquire, ReadFails
<1>2. ASSUME NEW i \in Blocks, WorkerStep(i) PROVE SInv'
  BY <1>2, WorkerKeeps
<1>3. CASE UNCHANGED vars
  <2>1. InFlight' = InFlight
    BY <1>3 DEF vars, InFlight
  <2> QED
    BY <1>3, <2>1 DEF vars, SInv, Exact, FreeAhead, Phases, Used, Attempt, Ahead
<1> QED
  BY <1>1, <1>2, <1>3 DEF Next, Returned

\* "Try to acquire a buffer (this should always succeed)": with a buffer to spare
\* for the video card, no search goes once through the pool in vain.
THEOREM AlwaysSucceedsHolds == ASSUME EnoughBuffers PROVE Spec => []AlwaysSucceeds
<1>1. IInv /\ SInv => AlwaysSucceeds
  <2> SUFFICES ASSUME IInv, SInv, rpc = "backoff", tries = 1 PROVE FALSE
    BY DEF AlwaysSucceeds
  <2>1. PICK b \in Buffers : rc[b] = 0 /\ Ahead(b) < 1
    BY DEF SInv, FreeAhead
  <2>2. off \in 0 .. NumBuffers - 1 /\ b \in 0 .. NumBuffers - 1 /\ NumBuffers \in Nat
    BY Buffers0 DEF IInv, TypeOK, Buffers
  <2>3. b = off
    BY <2>1, <2>2 DEF Ahead
  <2> QED
    BY <2>1, <2>3 DEF IInv, Counted, Attempt
<1>2. IInv /\ SInv /\ [Next]_vars => SInv'
  BY NextSInv
<1> QED
  BY <1>1, <1>2, InitSInv, AlwaysIInv, PTL DEF Spec

-----------------------------------------------------------------------------
(* RunComplete.                                                            *)

\* What has been folded in is exactly the blocks that have been processed.
Processed == {i \in Blocks : stage[i] \in {"release", "done"}}
FoldedExact == folded = {<<i, i>> : i \in Processed}

\* Every block fetched was handed on, but the one being read.
PassedOn ==
    ok => /\ \A i \in Blocks : i < nextblock /\ stage[i] = "unread"
                                 => rpc = "read" /\ i = nextblock - 1
          /\ rpc \in {"finished", "returned"} \/ post => nextblock = NumBlocks

\* The files stay counted as long as nothing has failed.
FilesCounted == ok => \A f \in Files : FileCounted(f)

AllThrough == (rpc = "xor" => post) /\ (rpc = "returned" => InFlight = {})

EndInv == FoldedExact /\ PassedOn /\ FilesCounted /\ AllThrough

LEMMA InitEndInv == BlocksCounted /\ Init => EndInv
<1> SUFFICES ASSUME BlocksCounted, Init PROVE EndInv
  OBVIOUS
<1>1. FoldedExact /\ AllThrough
  BY DEF Init, FoldedExact, Processed, AllThrough
<1>2. PassedOn
  BY Buffers0 DEF Init, PassedOn, Blocks
<1>3. ASSUME NEW f \in Files PROVE FileCounted(f)
  <2>1. Unread(f) = BlocksOf(f)
    BY DEF Init, Unread, BlocksOf
  <2>2. Cardinality(Unread(f)) = FileBlockCount[f]
    BY <2>1 DEF BlocksCounted
  <2> QED
    BY <2>2 DEF Init, FileCounted
<1> QED
  BY <1>1, <1>2, <1>3 DEF EndInv, FilesCounted

\* The steps of the read stage that hand no block on.
LEMMA ReaderHandsNothing ==
    ASSUME IInv, EndInv,
           \/ StartRead \/ Search \/ TryAcquire \/ BackOff \/ EndOfInput \/ Fetch
           \/ OpenFails \/ ReadAborts \/ RunReturns \/ GpuXor \/ GpuFails
    PROVE  EndInv'
<1>1. UNCHANGED <<stage, folded>>
  BY DEF StartRead, Search, TryAcquire, BackOff, EndOfInput, Fetch, OpenFails, ReadAborts,
     RunReturns, GpuXor, GpuFails
<1>2. FoldedExact'
  BY <1>1 DEF EndInv, FoldedExact, Processed
<1>3. FilesCounted'
  <2>1. CASE OpenFails \/ ReadAborts \/ GpuFails
    BY <2>1 DEF OpenFails, ReadAborts, GpuFails, FilesCounted
  <2>2. CASE \/ StartRead \/ Search \/ TryAcquire \/ BackOff \/ EndOfInput \/ Fetch
             \/ RunReturns \/ GpuXor
    <3>1. UNCHANGED <<ok, openfiles, handles>>
      BY <2>2 DEF StartRead, Search, TryAcquire, BackOff, EndOfInput, Fetch, RunReturns,
         GpuXor, readVars
    <3> QED
      BY <1>1, <3>1 DEF EndInv, FilesCounted, FileCounted, Unread
  <2> QED
    BY <2>1, <2>2
<1>4. AllThrough'
  <2>1. InFlight' = InFlight
    BY <1>1 DEF InFlight
  <2>2. rpc' = "xor" => post'
    BY DEF StartRead, Search, TryAcquire, BackOff, EndOfInput, Fetch, OpenFails, ReadAborts,
       RunReturns, GpuXor, GpuFails
  <2>3. rpc' = "returned" => InFlight = {}
    BY DEF StartRead, Search, TryAcquire, BackOff, EndOfInput, Fetch, OpenFails, ReadAborts,
       RunReturns, GpuXor, GpuFails, EndInv, AllThrough, IInv, Control
  <2> QED
    BY <2>1, <2>2, <2>3 DEF AllThrough
<1>5. PassedOn'
  <2>1. CASE OpenFails \/ ReadAborts \/ GpuFails
    BY <2>1 DEF OpenFails, ReadAborts, GpuFails, PassedOn
  <2>2. CASE Fetch
    <3> SUFFICES ASSUME ok PROVE PassedOn'
      BY <2>2 DEF Fetch, PassedOn
    <3>1. /\ nextblock' = nextblock + 1 /\ nextblock' - 1 = nextblock
          /\ rpc = "fetch" /\ rpc' = "read" /\ post' = post /\ ~ post
      BY <2>2 DEF Fetch, IInv, TypeOK, Control
    <3>2. ASSUME NEW i \in Blocks, i < nextblock', stage[i] = "unread" PROVE i = nextblock' - 1
      <4>1. ~ (i < nextblock)
        BY <3>1, <3>2 DEF EndInv, PassedOn
      <4>2. i \in Int /\ nextblock \in Int
        BY Buffers0 DEF Blocks, IInv, TypeOK
      <4> QED
        BY <3>1, <3>2, <4>1, <4>2
    <3> QED
      BY <1>1, <3>1, <3>2 DEF PassedOn
  <2>3. CASE EndOfInput
    BY <1>1, <2>3 DEF EndOfInput, EndInv, PassedOn, readVars
  <2>4. CASE \/ StartRead \/ Search \/ TryAcquire \/ BackOff \/ RunReturns \/ GpuXor
    <3>1. /\ ok' = ok /\ nextblock' = nextblock /\ rpc # "read"
          /\ ok /\ (rpc' \in {"finished", "returned"} \/ post')
               => rpc \in {"finished", "returned"} \/ post
      BY <2>4 DEF StartRead, Search, TryAcquire, BackOff, RunReturns, GpuXor, readVars,
         EndInv, AllThrough
    <3> QED
      BY <1>1, <3>1 DEF EndInv, PassedOn
  <2> QED
    BY <2>1, <2>2, <2>3, <2>4
<1> QED
  BY <1>2, <1>3, <1>4, <1>5 DEF EndInv

LEMMA ReadBlockHandsOn == ASSUME IInv, EndInv, ReadBlock("process") PROVE EndInv'
<1>1. /\ Reading \in Blocks /\ stage[Reading] = "unread"
      /\ Reading = nextblock - 1 /\ ReadingFile = FileOf[Reading]
  <2>1. nextblock > 0 /\ nextblock \in 0 .. NumBlocks /\ stage[nextblock - 1] = "unread"
    BY DEF IInv, TypeOK, Fetched, ReadBlock
  <2> QED
    BY <2>1, Buffers0, PipelineAssumption DEF Reading, ReadingFile, Blocks, PipelineAssumption
<1>2. /\ stage' = [stage EXCEPT ![Reading] = "process"] /\ rpc = "read" /\ rpc' = "idle"
      /\ UNCHANGED <<ok, post, nextblock, folded>>
      /\ stage \in [Blocks -> {"unread", "process", "release", "done"}]
  BY DEF ReadBlock, IInv, TypeOK
<1>3. stage'[Reading] = "process" /\ \A i \in Blocks : i # Reading => stage'[i] = stage[i]
  BY <1>1, <1>2
<1>4. FoldedExact'
  <2>1. Processed' = Processed
    BY <1>1, <1>3 DEF Processed
  <2> QED
    BY <1>2, <2>1 DEF EndInv, FoldedExact
<1>5. PassedOn' /\ AllThrough'
  <2>1. ~ post
    BY <1>2 DEF IInv, Control
  <2>2. ok => \A i \in Blocks : i < nextblock => stage'[i] # "unread"
    BY <1>1, <1>2, <1>3 DEF EndInv, PassedOn
  <2> QED
    BY <1>2, <2>1, <2>2 DEF PassedOn, AllThrough
<1>6. ASSUME ok, NEW g \in Files PROVE FileCounted(g)'
  BY <1>1, <1>2, <1>6, ReadBlockCounts DEF EndInv, FilesCounted, IInv, TypeOK
<1> QED
  BY <1>2, <1>4, <1>5, <1>6 DEF EndInv, FilesCounted

LEMMA WorkerFolds ==
    ASSUME IInv, EndInv, NEW i \in Blocks, WorkerStep(i)
    PROVE  EndInv'
<1>1. /\ UNCHANGED <<ok, rpc, post, nextblock, openfiles, handles>>
      /\ i \in InFlight /\ stage[i] \in {"process", "release"}
      /\ stage'[i] \in {"release", "done"}
      /\ \A j \in Blocks : j # i => stage'[j] = stage[j]
  BY DEF WorkerStep, Process, Release, readVars, InFlight, IInv, TypeOK
<1>2. \A j \in Blocks : (stage[j] = "unread" <=> stage'[j] = "unread")
  BY <1>1
<1>3. PassedOn' /\ FilesCounted'
  <2>1. \A f : Unread(f)' = Unread(f)
    BY <1>2 DEF Unread
  <2> QED
    BY <1>1, <1>2, <2>1 DEF EndInv, PassedOn, FilesCounted, FileCounted
<1>4. AllThrough'
  BY <1>1 DEF EndInv, AllThrough
<1>5. FoldedExact'
  <2>1. CASE Process(i, "release")
    <3>1. folded' = folded \cup {<<i, i>>}
      BY <1>1, <2>1 DEF Process, IInv, InputIntact
    <3>2. Processed' = Processed \cup {i}
      BY <1>1, <2>1 DEF Processed, Process
    <3> QED
      BY <3>1, <3>2 DEF EndInv, FoldedExact
  <2>2. CASE Release(i)
    <3>1. folded' = folded /\ Processed' = Processed
      BY <1>1, <2>2 DEF Release, Processed
    <3> QED
      BY <3>1 DEF EndInv, FoldedExact
  <2> QED
    BY <2>1, <2>2 DEF WorkerStep
<1> QED
  BY <1>3, <1>4, <1>5 DEF EndInv

LEMMA NextRInv == IInv /\ EndInv /\ [Next]_vars => EndInv'
<1> SUFFICES ASSUME IInv, EndInv, [Next]_vars PROVE EndInv'
  OBVIOUS
<1>1. CASE ReaderStep
  BY <1>1, ReaderHandsNothing, ReadBlockHandsOn DEF ReaderStep, Acquire, ReadFails
<1>2. ASSUME NEW i \in Blocks, WorkerStep(i) PROVE EndInv'
  BY <1>2, WorkerFolds
<1>3. CASE UNCHANGED vars
  BY <1>3 DEF vars, EndInv, FoldedExact, Processed, PassedOn, FilesCounted, FileCounted, Unread,
     AllThrough, InFlight
<1> QED
  BY <1>1, <1>2, <1>3 DEF Next, Returned

\* A run that reports no failure has folded every block in once, with its own
\* column, and has closed every file it opened.
THEOREM RunCompleteHolds == ASSUME BlocksCounted PROVE Spec => []RunComplete
<1>1. IInv /\ EndInv => RunComplete
  <2> SUFFICES ASSUME IInv, EndInv, rpc = "returned", ok
               PROVE  folded = {<<i, i>> : i \in Blocks} /\ \A f \in Files : handles[f] = 0
    BY DEF RunComplete
  <2>1. \A i \in Blocks : i < nextblock
    <3>1. nextblock = NumBlocks
      BY DEF EndInv, PassedOn
    <3>2. \A i \in Blocks : i < NumBlocks
      BY PipelineAssumption DEF PipelineAssumption, Blocks
    <3> QED
      BY <3>1, <3>2
  <2>2. \A i \in Blocks : stage[i] # "unread"
    BY <2>1 DEF EndInv, PassedOn
  <2>3. Processed = Blocks
    BY <2>2 DEF EndInv, AllThrough, InFlight, Processed
  <2>4. ASSUME NEW f \in Files PROVE handles[f] = 0
    <3>1. Unread(f) = {}
      BY <2>2 DEF Unread
    <3>2. Cardinality(Unread(f)) = 0
      BY <3>1, FS_EmptySet
    <3> QED
      BY <3>2 DEF EndInv, FilesCounted, FileCounted
  <2> QED
    BY <2>3, <2>4 DEF EndInv, FoldedExact
<1>2. IInv /\ EndInv /\ [Next]_vars => EndInv'
  BY NextRInv
<1> QED
  BY <1>1, <1>2, InitEndInv, AlwaysIInv, PTL DEF Spec

-----------------------------------------------------------------------------
(* The passes of a repair *)

Types ==
    /\ rc \in [Buffers -> 0 .. 2]
    /\ index \in [Buffers -> Nat] /\ content \in [Buffers -> Nat]
    /\ rpc \in {"idle", "search", "try", "backoff", "fetch", "read", "xor",
                "finished", "returned"}
    /\ post \in BOOLEAN
    /\ off \in Buffers
    /\ held \in Buffers \cup {NoBuffer}
    /\ nextblock \in 0 .. NumBlocks
    /\ bufOf \in [Blocks -> Buffers]
    /\ RepairTypeOK

\* The read stage's locals, and the end of the run.  Other than in Pipeline,
\* ok_ may become false at any time.
Place ==
    /\ rpc \in {"fetch", "read", "xor"} => held \in Buffers
    /\ rpc \in {"idle", "fetch", "read"} => ~ post
    /\ rpc = "xor" => post
    /\ rpc = "returned" \/ post => InFlight = {}
    /\ ok /\ (rpc \in {"finished", "returned"} \/ post) => nextblock = NumBlocks
    /\ result # "running" => rpc = "returned"

\* While nothing has failed, each block that was fetched was handed on.
HandedOn ==
    ok => \A i \in Blocks :
              i < nextblock /\ stage[i] = "unread" => rpc = "read" /\ i = nextblock - 1

\* The copy block that goes with input block i.
CopyBlockOf(i) == IF i < NumCopyBlocks THEN i ELSE NoCopy

Walk ==
    /\ copyblock = IF nextblock < NumCopyBlocks THEN nextblock ELSE NumCopyBlocks
    /\ rpc = "read" => copyOf[held] = CopyBlockOf(nextblock - 1)
    /\ \A i \in InFlight : copyOf[bufOf[i]] = CopyBlockOf(i)

\* Each write belongs to a block whose token has not waited for it yet.
WriteOut ==
    \A b \in Buffers :
        aio[b] # "none" =>
            \E i \in InFlight : /\ bufOf[i] = b
                                /\ stage[i] \in {"process", "await"}
                                /\ i \in CopyBlocks
                                /\ CopyLength[i] > pass

Columns == {i \in Blocks : stage[i] \in {"await", "release", "done"}}
FoldedRight == folded = {<<i, i>> : i \in Columns}

\* Nothing but right chunks is copied, and those of which the write is through are.
CopiedRight ==
    result # "eFileIOError" =>
        /\ \A t \in copied : t[3] = t[1] /\ CopyLength[t[1]] > t[2]
        /\ ok => \A c \in CopyBlocks :
                     /\ \A p \in 0 .. Passes - 1 :
                            p < pass /\ CopyLength[c] > p => <<c, p, c>> \in copied
                     /\ CopyLength[c] > pass /\ stage[c] # "unread" =>
                            \/ <<c, pass, c>> \in copied
                            \/ /\ stage[c] \in {"process", "await"}
                               /\ aio[bufOf[c]] \in {"pending", "failed"}

AllColumns == {<<i, i>> : i \in Blocks}
WrittenRight ==
    result # "eFileIOError" =>
        written = {w \in Outputs \X (0 .. Passes - 1) \X {AllColumns} :
                      /\ OutputLength[w[1]] > w[2]
                      /\ w[2] < pass \/ (w[2] = pass /\ w[1] < outblock)}

AtEnd == result = "written" => ok /\ outblock = NumOutputs /\ pass = Passes - 1

Pool == Counted /\ Exclusive /\ Fetched /\ InputIntact
Disk == WriteOut /\ FoldedRight /\ CopiedRight /\ WrittenRight /\ AtEnd
RInv == Types /\ Pool /\ Place /\ HandedOn /\ Walk /\ Disk

-----------------------------------------------------------------------------
(* What follows from the invariant.                                        *)

LEMMA Sizes ==
    /\ NumBuffers \in Nat /\ NumBuffers > 0 /\ NumBlocks \in Nat
    /\ NumCopyBlocks \in Nat /\ NumCopyBlocks <= NumBlocks
    /\ CopyBlocks \subseteq Blocks
    /\ Passes \in Nat /\ Passes > 0 /\ NumOutputs \in Nat
    /\ \A c \in CopyBlocks : CopyBlockOf(c) = c /\ CopyLength[c] \in Nat
    /\ \A c : CopyBlockOf(c) # NoCopy => c < NumCopyBlocks
  BY PipelineAssumption, RepairAssumption
     DEF PipelineAssumption, RepairAssumption, CopyBlocks, Blocks, CopyBlockOf

LEMMA TypesFollow == RInv => RepairTypeOK
  BY DEF RInv, Types

LEMMA KeptFollows == RInv => BufferKeptForWrite
<1> SUFFICES ASSUME RInv, NEW b \in Buffers, aio[b] = "pending"
             PROVE  rc[b] > 0 /\ held # b /\ content[b] = copyOf[b]
  BY DEF BufferKeptForWrite
<1>1. PICK i \in InFlight : bufOf[i] = b /\ i \in CopyBlocks
  BY DEF RInv, Disk, WriteOut
<1>2. rc[b] > 0
  <2>1. Used(b)
    BY <1>1 DEF Used
  <2>2. rc[b] = 1 + Attempt(b)
    BY <2>1 DEF RInv, Pool, Counted
  <2>3. Attempt(b) \in {0, 1}
    BY DEF Attempt
  <2> QED
    BY <2>2, <2>3
<1>3. held # b
  BY <1>1 DEF RInv, Pool, Exclusive
<1>4. content[b] = i /\ copyOf[b] = i
  BY <1>1, Sizes DEF RInv, Pool, InputIntact, Walk
<1> QED
  BY <1>2, <1>3, <1>4

LEMMA NoWriteFollows == RInv => NoWriteLeft
  BY DEF RInv, Place, Disk, WriteOut, NoWriteLeft

\* After a run without failure every block is through.
LEMMA RunThrough ==
    ASSUME RInv, rpc = "returned", ok
    PROVE  /\ \A i \in Blocks : stage[i] = "done"
           /\ folded = AllColumns
<1>1. InFlight = {} /\ nextblock = NumBlocks
  BY DEF RInv, Place
<1>2. \A i \in Blocks : stage[i] # "unread"
  BY <1>1, PipelineAssumption DEF RInv, HandedOn, Blocks, PipelineAssumption
<1>3. \A i \in Blocks : stage[i] = "done"
  BY <1>1, <1>2 DEF InFlight
<1>4. Columns = Blocks
  BY <1>3 DEF Columns
<1> QED
  BY <1>3, <1>4 DEF RInv, Disk, FoldedRight, AllColumns

LEMMA CompleteFollows == RInv => TargetsComplete
<1> SUFFICES ASSUME RInv, result = "written"
             PROVE  /\ copied = {<<c, p, c>> : c \in CopyBlocks, p \in 0 .. Passes - 1}
                                   \cap {t \in CopyBlocks \X (0 .. Passes - 1) \X Blocks :
                                            CopyLength[t[1]] > t[2]}
                    /\ {<<w[1], w[2]>> : w \in written} =
                           {w \in Outputs \X (0 .. Passes - 1) : OutputLength[w[1]] > w[2]}
                    /\ \A w \in written : w[3] = {<<i, i>> : i \in Blocks}
  BY DEF TargetsComplete
<1>1. rpc = "returned" /\ ok /\ outblock = NumOutputs /\ pass = Passes - 1
  BY DEF RInv, Place, Disk, AtEnd
<1>2. \A i \in Blocks : stage[i] = "done"
  BY <1>1, RunThrough
<1>3. copied = {<<c, p, c>> : c \in CopyBlocks, p \in 0 .. Passes - 1}
                   \cap {t \in CopyBlocks \X (0 .. Passes - 1) \X Blocks :
                            CopyLength[t[1]] > t[2]}
  <2>1. ASSUME NEW t \in copied
        PROVE  /\ t \in {<<c, p, c>> : c \in CopyBlocks, p \in 0 .. Passes - 1}
               /\ t \in {u \in CopyBlocks \X (0 .. Passes - 1) \X Blocks :
                            CopyLength[u[1]] > u[2]}
    <3>1. t \in CopyBlocks \X (0 .. Passes - 1) \X Blocks
      BY DEF RInv, Types, RepairTypeOK
    <3>2. t[3] = t[1] /\ CopyLength[t[1]] > t[2]
      BY DEF RInv, Disk, CopiedRight
    <3> QED
      BY <3>1, <3>2
  <2>2. ASSUME NEW c \in CopyBlocks, NEW p \in 0 .. Passes - 1, CopyLength[c] > p
        PROVE  <<c, p, c>> \in copied
    <3>1. c \in Blocks
      BY PipelineAssumption, RepairAssumption
         DEF CopyBlocks, Blocks, PipelineAssumption, RepairAssumption
    <3>2. p < pass \/ p = pass
      BY <1>1, RepairAssumption DEF RepairAssumption
    <3> QED
      BY <1>1, <1>2, <2>2, <3>1, <3>2 DEF RInv, Disk, CopiedRight
  <2> QED
    BY <2>1, <2>2
<1>4. written = {w \in Outputs \X (0 .. Passes - 1) \X {AllColumns} : OutputLength[w[1]] > w[2]}
  <2>1. ASSUME NEW w \in Outputs \X (0 .. Passes - 1) \X {AllColumns}
        PROVE  w[2] < pass \/ (w[2] = pass /\ w[1] < outblock)
    BY <1>1, RepairAssumption DEF Outputs, RepairAssumption
  <2> QED
    BY <2>1 DEF RInv, Disk, WrittenRight
<1>5. \A w \in written : w[3] = {<<i, i>> : i \in Blocks}
  BY <1>4 DEF AllColumns
<1>6. {<<w[1], w[2]>> : w \in written} =
          {w \in Outputs \X (0 .. Passes - 1) : OutputLength[w[1]] > w[2]}
  <2>1. ASSUME NEW o \in Outputs, NEW p \in 0 .. Passes - 1, OutputLength[o] > p
        PROVE  \E w \in written : <<o, p>> = <<w[1], w[2]>>
    <3>1. <<o, p, AllColumns>> \in written
      BY <1>4, <2>1
    <3> QED
      BY <3>1
  <2>2. \A w \in written : w[1] \in Outputs /\ w[2] \in 0 .. Passes - 1 /\ OutputLength[w[1]] > w[2]
    BY <1>4
  <2> QED
    BY <2>1, <2>2
<1> QED
  BY <1>3, <1>5, <1>6

-----------------------------------------------------------------------------
(* The read stage.                                                         *)

\* A step of the read stage that hands no block on and fetches none.
Quiet ==
    /\ UNCHANGED <<index, content, stage, bufOf, folded, nextblock, passVars, writeVars, outVars>>
    /\ ok' = ok \/ ok' = FALSE
    /\ rpc # "returned" /\ rpc' # "read"
    /\ rpc = "read" => ok' = FALSE

LEMMA QuietKeeps ==
    ASSUME RInv, Quiet
    PROVE  /\ InFlight' = InFlight
           /\ Fetched' /\ InputIntact' /\ HandedOn' /\ Walk' /\ Disk'
<1>1. InFlight' = InFlight /\ Columns' = Columns
  BY DEF InFlight, Columns, Quiet
<1>2. result = "running"
  BY DEF RInv, Place, Types, RepairTypeOK, Quiet
<1>3. Fetched' /\ InputIntact'
  BY <1>1 DEF RInv, Pool, Fetched, InputIntact, Quiet
<1>4. HandedOn'
  BY DEF RInv, HandedOn, Quiet
<1>5. Walk'
  BY <1>1 DEF RInv, Walk, Quiet, passVars, writeVars
<1>6. WriteOut' /\ FoldedRight'
  BY <1>1 DEF RInv, Disk, WriteOut, FoldedRight, Quiet, passVars, writeVars
<1>7. CopiedRight'
  BY <1>2 DEF RInv, Disk, CopiedRight, Quiet, passVars, writeVars, outVars
<1>8. WrittenRight' /\ AtEnd'
  BY <1>2 DEF RInv, Disk, WrittenRight, AtEnd, Quiet, passVars, outVars
<1> QED
  BY <1>1, <1>3, <1>4, <1>5, <1>6, <1>7, <1>8 DEF Disk

LEMMA PlainStep ==
    ASSUME RInv, StartRead \/ EndOfInput \/ RunReturns, UNCHANGED repairVars
    PROVE  RInv'
<1> USE Sizes DEF Buffers, NoBuffer
<1>1. Quiet
  BY DEF Quiet, StartRead, EndOfInput, RunReturns, repairVars, poolVars, readVars
<1>2. /\ InFlight' = InFlight
      /\ Fetched' /\ InputIntact' /\ HandedOn' /\ Walk' /\ Disk'
  BY <1>1, QuietKeeps
<1>3. Types'
  BY PipelineAssumption DEF PipelineAssumption, RInv, Types, RepairTypeOK, StartRead, EndOfInput,
     RunReturns, repairVars, passVars, writeVars, outVars, poolVars, searchVars, readVars
<1>4. Counted'
  BY <1>2 DEF RInv, Pool, Counted, Used, Attempt, StartRead, EndOfInput, RunReturns, poolVars,
     searchVars, readVars
<1>5. Exclusive'
  BY <1>2 DEF RInv, Pool, Exclusive, StartRead, EndOfInput, RunReturns
<1>6. Place'
  BY <1>2 DEF RInv, Place, StartRead, EndOfInput, RunReturns, readVars, repairVars, outVars
<1> QED
  BY <1>2, <1>3, <1>4, <1>5, <1>6 DEF RInv, Pool

LEMMA RepairSearchStep == ASSUME RInv, Search, UNCHANGED repairVars PROVE RInv'
<1>1. Quiet
  BY DEF Quiet, Search, repairVars, poolVars, readVars
<1>2. /\ InFlight' = InFlight
      /\ Fetched' /\ InputIntact' /\ HandedOn' /\ Walk' /\ Disk'
  BY <1>1, QuietKeeps
<1>3. Types'
  <2>1. off' \in Buffers
    BY DEF Search
  <2> QED
    BY <2>1 DEF RInv, Types, RepairTypeOK, Search, repairVars, passVars, writeVars, outVars,
       poolVars, readVars
<1>4. Counted'
  BY <1>2 DEF RInv, Pool, Counted, Used, Attempt, Search, poolVars
<1>5. Exclusive'
  BY <1>2 DEF RInv, Pool, Exclusive, Search
<1>6. Place'
  BY <1>2 DEF RInv, Place, Search, readVars, repairVars, outVars
<1> QED
  BY <1>2, <1>3, <1>4, <1>5, <1>6 DEF RInv, Pool

\* As in Pipeline: a count of 0 means that nobody has the buffer.
LEMMA RepairTryAcquireStep == ASSUME RInv, TryAcquire, UNCHANGED repairVars PROVE RInv'
<1> USE Sizes DEF Buffers, NoBuffer
<1>1. Quiet
  BY DEF Quiet, TryAcquire, repairVars, readVars
<1>2. /\ InFlight' = InFlight
      /\ Fetched' /\ InputIntact' /\ HandedOn' /\ Walk' /\ Disk'
  BY <1>1, QuietKeeps
<1>3. off \in Buffers /\ rpc = "try"
  BY DEF RInv, Types, TryAcquire
<1>4. ASSUME rc[off] = 0 PROVE \A i \in InFlight : bufOf[i] # off
  BY <1>3, <1>4 DEF RInv, Pool, Counted, Used, Attempt
<1>5. Types'
  <2>1. rc' \in [Buffers -> 0 .. 2]
    BY <1>3 DEF RInv, Types, Pool, Counted, Attempt, TryAcquire, WasFree
  <2>2. rc' \in [Buffers -> 0 .. NumBuffers + 2]
    BY <2>1
  <2>3. off' \in Buffers /\ held' \in Buffers \cup {NoBuffer}
    BY <1>3 DEF RInv, Types, TryAcquire, WasFree, searchVars
  <2> QED
    BY <2>1, <2>2, <2>3 DEF RInv, Types, RepairTypeOK, TryAcquire, WasFree, readVars, repairVars,
       passVars, writeVars, outVars
<1>6. Counted'
  BY <1>2, <1>3 DEF RInv, Types, Pool, Counted, Used, Attempt, TryAcquire, WasFree, searchVars
<1>7. Exclusive'
  BY <1>2, <1>4 DEF RInv, Pool, Exclusive, TryAcquire, WasFree
<1>8. Place'
  BY <1>2, <1>3 DEF RInv, Place, TryAcquire, WasFree, readVars, repairVars, outVars
<1> QED
  BY <1>2, <1>5, <1>6, <1>7, <1>8 DEF RInv, Pool

LEMMA RepairBackOffStep == ASSUME RInv, BackOff, UNCHANGED repairVars PROVE RInv'
<1> USE Sizes DEF Buffers, NoBuffer
<1>1. Quiet
  BY DEF Quiet, BackOff, repairVars, readVars
<1>2. /\ InFlight' = InFlight
      /\ Fetched' /\ InputIntact' /\ HandedOn' /\ Walk' /\ Disk'
  BY <1>1, QuietKeeps
<1>3. off \in Buffers /\ rpc = "backoff" /\ rc[off] \in {1, 2}
  BY DEF RInv, Types, Pool, Counted, Attempt, BackOff
<1>4. Types'
  <2>1. rc' \in [Buffers -> 0 .. 2]
    BY <1>3 DEF RInv, Types, BackOff, ReleaseRef
  <2>2. rc' \in [Buffers -> 0 .. NumBuffers + 2]
    BY <2>1
  <2>3. off' \in Buffers
    BY <1>3 DEF BackOff
  <2> QED
    BY <2>1, <2>2, <2>3 DEF RInv, Types, RepairTypeOK, BackOff, readVars, repairVars,
       passVars, writeVars, outVars
<1>5. Counted'
  BY <1>2, <1>3 DEF RInv, Types, Pool, Counted, Used, Attempt, BackOff, ReleaseRef
<1>6. Exclusive'
  BY <1>2 DEF RInv, Pool, Exclusive, BackOff
<1>7. Place'
  BY <1>2, <1>3 DEF RInv, Place, BackOff, readVars, repairVars, outVars
<1> QED
  BY <1>2, <1>4, <1>5, <1>6, <1>7 DEF RInv, Pool

\* The buffer held is no token's, so that its count is 1 and falls to 0.
LEMMA HeldAlone ==
    ASSUME RInv, rpc \in {"fetch", "read", "xor"}
    PROVE  /\ held \in Buffers /\ held # NoBuffer /\ rc[held] = 1
           /\ \A i \in InFlight : bufOf[i] # held
<1>1. held \in Buffers /\ \A i \in InFlight : bufOf[i] # held
  BY DEF RInv, Pool, Place, Exclusive
<1>2. Used(held) /\ Attempt(held) = 0
  BY DEF Used, Attempt
<1>3. rc[held] = 1
  BY <1>1, <1>2 DEF RInv, Pool, Counted
<1> QED
  BY <1>1, <1>3 DEF Buffers, NoBuffer

\* The buffer is let go, by the end of the run or by a failure.
LetGo ==
    /\ rpc \in {"read", "xor"}
    /\ rc' = ReleaseRef(held)
    /\ held' = NoBuffer
    /\ UNCHANGED <<post, off>>
    /\ rpc' \in {"finished", "returned"}

LEMMA LetGoKeeps ==
    ASSUME RInv, Quiet, LetGo
    PROVE  /\ rc' \in [Buffers -> 0 .. 2] /\ rc' \in [Buffers -> 0 .. NumBuffers + 2]
           /\ Counted' /\ Exclusive'
<1> USE Sizes DEF Buffers, NoBuffer
<1>1. /\ held \in Buffers /\ rc[held] = 1
      /\ \A i \in InFlight : bufOf[i] # held
  BY HeldAlone DEF LetGo
<1>2. InFlight' = InFlight
  BY QuietKeeps
<1>3. bufOf' = bufOf /\ \A i \in InFlight : bufOf[i] \in Buffers
  BY DEF Quiet, RInv, Types, InFlight
<1>4. rc' \in [Buffers -> 0 .. 2]
  BY <1>1 DEF RInv, Types, LetGo, ReleaseRef
<1>5. rc' \in [Buffers -> 0 .. NumBuffers + 2]
  BY <1>4
<1>6. Counted'
  BY <1>1, <1>2, <1>3 DEF RInv, Types, Pool, Counted, Used, Attempt, LetGo, ReleaseRef
<1>7. Exclusive'
  BY <1>2, <1>3 DEF RInv, Pool, Exclusive, LetGo
<1> QED
  BY <1>4, <1>5, <1>6, <1>7

LEMMA RepairGpuXorStep == ASSUME RInv, GpuXor, UNCHANGED repairVars PROVE RInv'
<1>1. Quiet /\ LetGo
  BY DEF Quiet, LetGo, GpuXor, repairVars, readVars, searchVars
<1>2. /\ InFlight' = InFlight
      /\ Fetched' /\ InputIntact' /\ HandedOn' /\ Walk' /\ Disk'
  BY <1>1, QuietKeeps
<1>3. /\ rc' \in [Buffers -> 0 .. 2] /\ rc' \in [Buffers -> 0 .. NumBuffers + 2]
      /\ Counted' /\ Exclusive'
  BY <1>1, LetGoKeeps
<1>4. Types'
  BY <1>3 DEF RInv, Types, RepairTypeOK, GpuXor, searchVars, readVars, repairVars,
     passVars, writeVars, outVars
<1>5. Place'
  BY <1>2 DEF RInv, Place, GpuXor, readVars, repairVars, outVars
<1> QED
  BY <1>2, <1>3, <1>4, <1>5 DEF RInv, Pool

\* ok_ is false from here on, or was so already.
LEMMA ReadOrWriteFailsStep == ASSUME RInv, ReadOrWriteFails PROVE RInv'
<1>1. Quiet /\ LetGo
  BY DEF Quiet, LetGo, ReadOrWriteFails, ReadAborts, repairVars, searchVars
<1>2. /\ InFlight' = InFlight
      /\ Fetched' /\ InputIntact' /\ HandedOn' /\ Walk' /\ Disk'
  BY <1>1, QuietKeeps
<1>3. /\ rc' \in [Buffers -> 0 .. 2] /\ rc' \in [Buffers -> 0 .. NumBuffers + 2]
      /\ Counted' /\ Exclusive'
  BY <1>1, LetGoKeeps
<1>4. Types'
  <2>1. faulted' \in BOOLEAN
    BY DEF RInv, Types, RepairTypeOK, ReadOrWriteFails, ReadAborts
  <2> QED
    BY <1>3, <2>1 DEF RInv, Types, RepairTypeOK, ReadOrWriteFails, ReadAborts, searchVars,
       passVars, writeVars, outVars
<1>5. Place'
  BY <1>2 DEF RInv, Place, ReadOrWriteFails, ReadAborts, outVars
<1> QED
  BY <1>2, <1>3, <1>4, <1>5 DEF RInv, Pool

LEMMA OtherFaultStep == ASSUME RInv, OtherFault PROVE RInv'
<1>1. Quiet
  BY DEF Quiet, OtherFault, OpenFails, GpuFails, poolVars, readVars
<1>2. /\ InFlight' = InFlight
      /\ Fetched' /\ InputIntact' /\ HandedOn' /\ Walk' /\ Disk'
  BY <1>1, QuietKeeps
<1>3. Types'
  BY DEF RInv, Types, RepairTypeOK, OtherFault, OpenFails, GpuFails, poolVars, searchVars,
     readVars, passVars, writeVars, outVars
<1>4. Counted'
  BY <1>2 DEF RInv, Pool, Counted, Used, Attempt, OtherFault, OpenFails, GpuFails, poolVars,
     searchVars
<1>5. Exclusive'
  BY <1>2 DEF RInv, Pool, Exclusive, OtherFault, OpenFails, GpuFails
<1>6. Place'
  BY <1>2 DEF RInv, Place, OtherFault, OpenFails, GpuFails, readVars, outVars
<1> QED
  BY <1>2, <1>3, <1>4, <1>5, <1>6 DEF RInv, Pool

\* The copy block goes with the input block.
LEMMA RepairFetchStep == ASSUME RInv, RepairFetch PROVE RInv'
<1> USE Sizes DEF Blocks
<1>1. /\ rpc = "fetch" /\ nextblock < NumBlocks /\ nextblock' = nextblock + 1 /\ rpc' = "read"
      /\ index' = [index EXCEPT ![held] = nextblock]
      /\ UNCHANGED <<ok, rc, content, post, held, stage, bufOf, folded, off,
                     pass, aio, copied, outVars, faulted>>
  BY DEF RepairFetch, Fetch, InputIndex, searchVars
<1>2. /\ held \in Buffers /\ nextblock \in Nat
      /\ \A i \in InFlight : bufOf[i] # held /\ bufOf[i] \in Buffers
  BY <1>1, HeldAlone DEF RInv, Types, InFlight
<1>3. InFlight' = InFlight /\ Columns' = Columns
  BY <1>1 DEF InFlight, Columns
<1>4. /\ copyOf' = [copyOf EXCEPT ![held] = CopyBlockOf(nextblock)]
      /\ copyblock' = IF nextblock' < NumCopyBlocks THEN nextblock' ELSE NumCopyBlocks
  <2>1. copyblock = IF nextblock < NumCopyBlocks THEN nextblock ELSE NumCopyBlocks
    BY DEF RInv, Walk
  <2>2. /\ copyblock < NumCopyBlocks <=> nextblock < NumCopyBlocks
        /\ nextblock < NumCopyBlocks => copyblock = nextblock
        /\ ~ nextblock < NumCopyBlocks => copyblock = NumCopyBlocks
    BY <1>2, <2>1
  <2>3. CASE nextblock < NumCopyBlocks
    <3>1. copyOf' = [copyOf EXCEPT ![held] = nextblock] /\ copyblock' = nextblock + 1
      BY <2>2, <2>3 DEF RepairFetch, AdvanceCopy
    <3>2. nextblock + 1 = IF nextblock + 1 < NumCopyBlocks THEN nextblock + 1 ELSE NumCopyBlocks
      BY <1>2, <2>3
    <3> QED
      BY <1>1, <2>3, <3>1, <3>2 DEF CopyBlockOf
  <2>4. CASE ~ nextblock < NumCopyBlocks
    <3>1. copyOf' = [copyOf EXCEPT ![held] = NoCopy] /\ copyblock' = NumCopyBlocks
      BY <2>2, <2>4 DEF RepairFetch
    <3>2. ~ nextblock + 1 < NumCopyBlocks
      BY <1>2, <2>4
    <3> QED
      BY <1>1, <2>4, <3>1, <3>2 DEF CopyBlockOf
  <2> QED
    BY <2>3, <2>4
<1>5. Types'
  <2>1. nextblock' \in 0 .. NumBlocks /\ index' \in [Buffers -> Nat]
    BY <1>1, <1>2 DEF RInv, Types
  <2>2. copyblock' \in 0 .. NumCopyBlocks
    BY <1>4, <2>1
  <2>3. CopyBlockOf(nextblock) \in CopyBlocks \cup {NoCopy}
    BY <1>2 DEF CopyBlockOf, CopyBlocks
  <2>4. copyOf' \in [Buffers -> CopyBlocks \cup {NoCopy}]
    BY <1>4, <2>3 DEF RInv, Types, RepairTypeOK
  <2> QED
    BY <1>1, <2>1, <2>2, <2>4 DEF RInv, Types, RepairTypeOK, outVars
<1>6. Counted' /\ Exclusive'
  BY <1>1, <1>3 DEF RInv, Pool, Counted, Exclusive, Used, Attempt
<1>7. Fetched' /\ InputIntact'
  <2>1. index'[held] = nextblock /\ \A b \in Buffers : b # held => index'[b] = index[b]
    BY <1>1, <1>2 DEF RInv, Types
  <2>2. Fetched'
    BY <1>1, <1>2, <2>1 DEF RInv, Pool, Fetched
  <2>3. InputIntact'
    BY <1>1, <1>2, <1>3, <2>1 DEF RInv, Pool, InputIntact
  <2> QED
    BY <2>2, <2>3
<1>8. Place'
  BY <1>1, <1>2, <1>3 DEF RInv, Place, outVars
<1>9. HandedOn'
  BY <1>1, <1>2 DEF RInv, HandedOn
<1>10. Walk'
  <2>1. copyOf'[held] = CopyBlockOf(nextblock' - 1)
    BY <1>1, <1>2, <1>4 DEF RInv, Types, RepairTypeOK
  <2>2. \A i \in InFlight : copyOf'[bufOf[i]] = copyOf[bufOf[i]]
    BY <1>2, <1>4 DEF RInv, Types, RepairTypeOK
  <2> QED
    BY <1>1, <1>3, <1>4, <2>1, <2>2 DEF RInv, Walk
<1>11. Disk'
  BY <1>1, <1>3 DEF RInv, Disk, WriteOut, FoldedRight, CopiedRight, WrittenRight, AtEnd, outVars
<1> QED
  BY <1>5, <1>6, <1>7, <1>8, <1>9, <1>10, <1>11 DEF RInv, Pool

\* The buffer changes hands, from the read stage to the token of the block.
LEMMA HandOver ==
    ASSUME RInv, ReadBlock("process"), UNCHANGED <<passVars, copyOf, outVars>>
    PROVE  /\ held \in Buffers /\ Reading \in Blocks
           /\ stage[Reading] = "unread" /\ stage' = [stage EXCEPT ![Reading] = "process"]
           /\ bufOf'[Reading] = held
           /\ \A i \in Blocks : i # Reading => bufOf'[i] = bufOf[i]
           /\ \A i \in InFlight : i # Reading /\ bufOf[i] # held
           /\ InFlight' = InFlight \cup {Reading} /\ Columns' = Columns
           /\ copyOf[held] = CopyBlockOf(Reading)
           /\ Pool' /\ Place' /\ HandedOn' /\ Walk'
<1> USE Sizes DEF Blocks, Buffers, NoBuffer
<1>1. /\ held \in Buffers /\ rpc = "read" /\ rpc' = "idle" /\ ~ post /\ held' = NoBuffer
      /\ Reading \in Blocks /\ stage[Reading] = "unread" /\ index[held] = Reading
      /\ stage' = [stage EXCEPT ![Reading] = "process"]
      /\ bufOf' = [bufOf EXCEPT ![Reading] = held]
      /\ content' = [content EXCEPT ![held] = Reading]
      /\ UNCHANGED <<ok, rc, index, post, nextblock, folded, off>>
  BY DEF RInv, Types, Pool, Place, Fetched, ReadBlock, Reading, searchVars
<1>2. copyOf[held] = CopyBlockOf(Reading)
  BY <1>1 DEF RInv, Walk, Reading
<1>3. /\ InFlight' = InFlight \cup {Reading} /\ Columns' = Columns
      /\ Reading \notin InFlight
  BY <1>1 DEF RInv, Types, RepairTypeOK, InFlight, Columns
<1>4. /\ bufOf'[Reading] = held
      /\ \A i \in Blocks : i # Reading => bufOf'[i] = bufOf[i]
      /\ \A i \in InFlight : /\ i \in Blocks /\ i # Reading
                             /\ bufOf'[i] = bufOf[i] /\ bufOf[i] \in Buffers /\ bufOf[i] # held
  BY <1>1, <1>3 DEF RInv, Types, Pool, Exclusive, InFlight
<1>5. Counted'
  <2> SUFFICES ASSUME NEW b \in Buffers
               PROVE  /\ rc'[b] \in {Attempt(b)', 1 + Attempt(b)'}
                      /\ Used(b)' => rc'[b] = 1 + Attempt(b)'
    BY DEF Counted
  <2>1. rc' = rc /\ Attempt(b) = 0 /\ Attempt(b)' = 0
    BY <1>1 DEF Attempt
  <2>2. Used(b)' => Used(b)
    BY <1>1, <1>3, <1>4 DEF Used
  <2> QED
    BY <2>1, <2>2 DEF RInv, Pool, Counted
<1>6. Exclusive'
  BY <1>1, <1>3, <1>4 DEF RInv, Pool, Exclusive
<1>7. Fetched'
  BY <1>1 DEF RInv, Types, RepairTypeOK, Pool, Fetched, Reading
<1>8. InputIntact'
  <2>1. content'[held] = Reading /\ \A b \in Buffers : b # held => content'[b] = content[b]
    BY <1>1 DEF RInv, Types
  <2> QED
    BY <1>1, <1>3, <1>4, <2>1 DEF RInv, Pool, InputIntact
<1>9. Place'
  BY <1>1, <1>3 DEF RInv, Place, outVars
<1>10. HandedOn'
  BY <1>1 DEF RInv, Types, RepairTypeOK, HandedOn, Reading
<1>11. Walk'
  BY <1>1, <1>2, <1>3, <1>4 DEF RInv, Walk, passVars
<1> QED
  BY <1>1, <1>2, <1>3, <1>4, <1>5, <1>6, <1>7, <1>8, <1>9, <1>10, <1>11 DEF Pool

LEMMA HandOverTypes ==
    ASSUME RInv, ReadBlock("process"), UNCHANGED <<passVars, copyOf, copied, outVars, faulted>>,
           aio' \in [Buffers -> {"none", "pending", "ok", "failed"}]
    PROVE  Types'
<1> USE Sizes DEF Blocks, Buffers, NoBuffer
<1>1. held \in Buffers /\ Reading \in Blocks
  BY HandOver
<1>2. stage' \in [Blocks -> {"unread", "process", "await", "release", "done"}]
  BY <1>1 DEF RInv, Types, RepairTypeOK, ReadBlock
<1>3. content' \in [Buffers -> Nat] /\ bufOf' \in [Blocks -> Buffers] /\ held' = NoBuffer
  BY <1>1 DEF RInv, Types, ReadBlock
<1> QED
  BY <1>2, <1>3 DEF RInv, Types, RepairTypeOK, ReadBlock, passVars, outVars, searchVars

\* What is written and folded does not change.
LEMMA HandOverDisk ==
    ASSUME RInv, ReadBlock("process"), UNCHANGED <<passVars, copyOf, outVars>>
    PROVE  FoldedRight' /\ WrittenRight' /\ AtEnd'
<1>1. Columns' = Columns
  BY HandOver
<1>2. FoldedRight'
  BY <1>1 DEF RInv, Disk, FoldedRight, ReadBlock
<1>3. WrittenRight' /\ AtEnd'
  BY DEF RInv, Disk, WrittenRight, AtEnd, ReadBlock, passVars, outVars
<1> QED
  BY <1>2, <1>3

LEMMA ReadOnlyStep == ASSUME RInv, ReadOnly PROVE RInv'
<1> USE Sizes
<1>1. ReadBlock("process") /\ UNCHANGED <<passVars, copyOf, aio, copied, outVars, faulted>>
  BY DEF ReadOnly, repairVars, writeVars
<1>2. /\ Reading \in Blocks /\ stage' = [stage EXCEPT ![Reading] = "process"]
      /\ \A i \in Blocks : i # Reading => bufOf'[i] = bufOf[i]
      /\ \A i \in InFlight : i # Reading
      /\ InFlight' = InFlight \cup {Reading}
      /\ copyOf[held] = CopyBlockOf(Reading)
      /\ Pool' /\ Place' /\ HandedOn' /\ Walk'
  BY <1>1, HandOver
<1>3. Types'
  <2>1. aio' \in [Buffers -> {"none", "pending", "ok", "failed"}]
    BY <1>1 DEF RInv, Types, RepairTypeOK
  <2> QED
    BY <1>1, <2>1, HandOverTypes
<1>4. \A i \in Blocks : i # Reading => stage'[i] = stage[i]
  BY <1>2 DEF RInv, Types, RepairTypeOK
<1>5. WriteOut'
  BY <1>1, <1>2, <1>4 DEF RInv, Disk, WriteOut, InFlight, passVars
<1>6. \A c \in CopyBlocks : c = Reading => ~ CopyLength[c] > pass
  <2> SUFFICES ASSUME Reading \in CopyBlocks PROVE ~ CopyLength[Reading] > pass
    OBVIOUS
  <2>1. copyOf[held] = Reading /\ Reading # NoCopy
    BY <1>2 DEF CopyBlocks, NoCopy
  <2>2. pass \in Nat /\ CopyLength[Reading] = 0
    BY <2>1 DEF ReadOnly, ToBeCopied, IsSet, RInv, Types, RepairTypeOK
  <2> QED
    BY <2>2
<1>7. CopiedRight'
  <2>1. UNCHANGED <<ok, result, pass, copied, aio>>
    BY <1>1 DEF ReadBlock, passVars, outVars
  <2> QED
    BY <1>2, <1>4, <1>6, <2>1 DEF RInv, Disk, CopiedRight
<1> QED
  BY <1>1, <1>2, <1>3, <1>5, <1>7, HandOverDisk DEF RInv, Disk

LEMMA ReadAndStartWriteStep == ASSUME RInv, ReadAndStartWrite PROVE RInv'
<1> USE Sizes
<1>1. /\ ReadBlock("process") /\ UNCHANGED <<passVars, copyOf, copied, outVars, faulted>>
      /\ aio' = [aio EXCEPT ![held] = "pending"]
  BY DEF ReadAndStartWrite
<1>2. /\ held \in Buffers /\ Reading \in Blocks /\ stage' = [stage EXCEPT ![Reading] = "process"]
      /\ bufOf'[Reading] = held
      /\ \A i \in Blocks : i # Reading => bufOf'[i] = bufOf[i]
      /\ \A i \in InFlight : i # Reading /\ bufOf[i] # held
      /\ InFlight' = InFlight \cup {Reading}
      /\ copyOf[held] = CopyBlockOf(Reading)
      /\ Pool' /\ Place' /\ HandedOn' /\ Walk'
  BY <1>1, HandOver
<1>3. /\ aio'[held] = "pending" /\ \A b \in Buffers : b # held => aio'[b] = aio[b]
      /\ aio' \in [Buffers -> {"none", "pending", "ok", "failed"}]
  BY <1>1, <1>2 DEF RInv, Types, RepairTypeOK
<1>4. Types'
  BY <1>1, <1>3, HandOverTypes
<1>5. /\ stage'[Reading] = "process"
      /\ \A i \in Blocks : i # Reading => stage'[i] = stage[i]
  BY <1>2 DEF RInv, Types, RepairTypeOK
<1>6. Reading \in CopyBlocks /\ CopyLength[Reading] > pass
  <2>1. copyOf[held] # NoCopy /\ copyOf[held] \in CopyBlocks /\ CopyLength[copyOf[held]] > pass
    BY <1>2 DEF ReadAndStartWrite, ToBeCopied, HasChunk, RInv, Types, RepairTypeOK
  <2> QED
    BY <1>2, <2>1 DEF CopyBlockOf
<1>7. WriteOut'
  <2> SUFFICES ASSUME NEW b \in Buffers, aio'[b] # "none"
               PROVE  \E i \in InFlight' : /\ bufOf'[i] = b
                                          /\ stage'[i] \in {"process", "await"}
                                          /\ i \in CopyBlocks
                                          /\ CopyLength[i] > pass'
    BY DEF WriteOut
  <2>1. pass' = pass
    BY <1>1 DEF passVars
  <2>2. CASE b = held
    BY <1>2, <1>5, <1>6, <2>1, <2>2
  <2>3. CASE b # held
    <3>1. PICK i \in InFlight : /\ bufOf[i] = b
                                /\ stage[i] \in {"process", "await"}
                                /\ i \in CopyBlocks
                                /\ CopyLength[i] > pass
      BY <1>3, <2>3 DEF RInv, Disk, WriteOut
    <3> QED
      BY <1>2, <1>5, <2>1, <3>1 DEF InFlight
  <2> QED
    BY <2>2, <2>3
<1>8. CopiedRight'
  <2>1. UNCHANGED <<ok, result, pass, copied>>
    BY <1>1 DEF ReadBlock, passVars, outVars
  <2>2. ASSUME NEW c \in CopyBlocks, c # Reading
        PROVE  /\ stage'[c] = stage[c]
               /\ stage[c] \in {"process", "await"} => aio'[bufOf'[c]] = aio[bufOf[c]]
    BY <1>2, <1>3, <1>5, <2>2 DEF RInv, Types, InFlight
  <2> QED
    BY <1>2, <1>3, <1>5, <2>1, <2>2 DEF RInv, Disk, CopiedRight
<1> QED
  BY <1>1, <1>2, <1>4, <1>7, <1>8, HandOverDisk DEF RInv, Disk

-----------------------------------------------------------------------------
(* The operating system, and the parallel stage.                           *)

LEMMA WriteCompletesStep == ASSUME RInv, NEW b \in Buffers, WriteCompletes(b) PROVE RInv'
<1> USE Sizes
<1>1. /\ UNCHANGED <<ok, rc, index, content, rpc, post, off, held, nextblock, stage, bufOf, folded,
                     pass, copyblock, copyOf, outblock, written, result>>
      /\ aio[b] = "pending"
  BY DEF WriteCompletes, vars, passVars, outVars
<1>2. PICK i \in InFlight : /\ bufOf[i] = b
                            /\ stage[i] \in {"process", "await"}
                            /\ i \in CopyBlocks
                            /\ CopyLength[i] > pass
  BY <1>1 DEF RInv, Disk, WriteOut
<1>3. content[b] = i /\ copyOf[b] = i /\ result = "running"
  BY <1>2 DEF RInv, Pool, InputIntact, Walk, Place, Types, RepairTypeOK
<1>4. \/ aio' = [aio EXCEPT ![b] = "ok"] /\ copied' = copied \cup {<<i, pass, i>>}
      \/ aio' = [aio EXCEPT ![b] = "failed"] /\ copied' = copied
  BY <1>3 DEF WriteCompletes
<1>5. /\ aio' \in [Buffers -> {"none", "pending", "ok", "failed"}]
      /\ \A d \in Buffers : d # b => aio'[d] = aio[d]
      /\ aio'[b] = "failed" \/ (aio'[b] = "ok" /\ <<i, pass, i>> \in copied')
  BY <1>4 DEF RInv, Types, RepairTypeOK
<1>6. InFlight' = InFlight /\ Columns' = Columns
  BY <1>1 DEF InFlight, Columns
<1>7. Types'
  <2>1. <<i, pass, i>> \in CopyBlocks \X (0 .. Passes - 1) \X Blocks
    BY <1>2 DEF RInv, Types, RepairTypeOK, InFlight
  <2>2. copied' \subseteq CopyBlocks \X (0 .. Passes - 1) \X Blocks
    BY <1>4, <2>1 DEF RInv, Types, RepairTypeOK
  <2>3. faulted' \in BOOLEAN
    BY DEF RInv, Types, RepairTypeOK, WriteCompletes
  <2> QED
    BY <1>1, <1>5, <2>2, <2>3 DEF RInv, Types, RepairTypeOK
<1>8. Pool' /\ Place' /\ HandedOn' /\ Walk'
  BY <1>1, <1>6 DEF RInv, Pool, Counted, Used, Attempt, Exclusive, Fetched, InputIntact, Place,
     HandedOn, Walk
<1>9. WriteOut'
  <2> SUFFICES ASSUME NEW d \in Buffers, aio'[d] # "none"
               PROVE  \E j \in InFlight : /\ bufOf[j] = d
                                         /\ stage[j] \in {"process", "await"}
                                         /\ j \in CopyBlocks
                                         /\ CopyLength[j] > pass
    BY <1>1, <1>6 DEF WriteOut
  <2>1. aio[d] # "none"
    BY <1>1, <1>5
  <2> QED
    BY <2>1 DEF RInv, Disk, WriteOut
<1>10. FoldedRight' /\ WrittenRight' /\ AtEnd'
  BY <1>1, <1>6 DEF RInv, Disk, FoldedRight, WrittenRight, AtEnd
<1>11. CopiedRight'
  <2>1. \A t \in copied' : t[3] = t[1] /\ CopyLength[t[1]] > t[2]
    BY <1>2, <1>3, <1>4 DEF RInv, Disk, CopiedRight
  <2>2. copied \subseteq copied'
    BY <1>4
  <2>3. ASSUME NEW c \in CopyBlocks, ok, CopyLength[c] > pass, stage[c] # "unread",
               <<c, pass, c>> \notin copied'
        PROVE  stage[c] \in {"process", "await"} /\ aio'[bufOf[c]] \in {"pending", "failed"}
    <3>1. stage[c] \in {"process", "await"} /\ aio[bufOf[c]] \in {"pending", "failed"}
      BY <1>3, <2>2, <2>3 DEF RInv, Disk, CopiedRight
    <3>2. c \in InFlight /\ bufOf[c] \in Buffers
      BY <3>1 DEF InFlight, RInv, Types
    <3>3. CASE bufOf[c] = b
      <4>1. c = i
        BY <1>2, <3>2, <3>3 DEF RInv, Pool, Exclusive
      <4> QED
        BY <1>5, <2>3, <3>1, <3>3, <4>1
    <3>4. CASE bufOf[c] # b
      BY <1>5, <3>1, <3>2, <3>4
    <3> QED
      BY <3>3, <3>4
  <2> QED
    BY <1>1, <1>3, <2>1, <2>2, <2>3 DEF RInv, Disk, CopiedRight
<1> QED
  BY <1>7, <1>8, <1>9, <1>10, <1>11 DEF RInv, Disk

\* The token waits for its write: a write that is over needs no token.
LEMMA AwaitStep == ASSUME RInv, NEW i \in Blocks, Await(i) PROVE RInv'
<1> USE Sizes
<1>1. /\ UNCHANGED <<rc, index, content, rpc, post, off, held, nextblock, bufOf, folded,
                     pass, copyblock, copyOf, copied, outblock, written, result, faulted>>
      /\ stage[i] = "await" /\ stage' = [stage EXCEPT ![i] = "release"]
      /\ aio' = [aio EXCEPT ![bufOf[i]] = "none"]
      /\ aio[bufOf[i]] # "pending"
      /\ ok' = (ok /\ aio[bufOf[i]] # "failed")
  BY DEF Await, poolVars, searchVars, readVars, passVars, outVars
<1>2. /\ i \in InFlight /\ InFlight' = InFlight /\ Columns' = Columns
      /\ bufOf[i] \in Buffers /\ result = "running"
      /\ stage'[i] = "release" /\ \A j \in Blocks : j # i => stage'[j] = stage[j]
      /\ stage' \in [Blocks -> {"unread", "process", "await", "release", "done"}]
  BY <1>1 DEF RInv, Types, RepairTypeOK, InFlight, Columns, Place
<1>3. /\ aio'[bufOf[i]] = "none"
      /\ \A d \in Buffers : d # bufOf[i] => aio'[d] = aio[d]
      /\ aio' \in [Buffers -> {"none", "pending", "ok", "failed"}]
  BY <1>1, <1>2 DEF RInv, Types, RepairTypeOK
<1>4. Types'
  BY <1>1, <1>2, <1>3 DEF RInv, Types, RepairTypeOK
<1>5. Counted' /\ Exclusive' /\ InputIntact'
  BY <1>1, <1>2 DEF RInv, Pool, Counted, Used, Attempt, Exclusive, InputIntact
<1>6. Fetched'
  <2>1. rpc = "read" => nextblock - 1 \in Blocks
    BY DEF RInv, Types, Pool, Fetched, Blocks
  <2> QED
    BY <1>1, <1>2, <2>1 DEF RInv, Pool, Fetched
<1>7. Place' /\ HandedOn' /\ Walk'
  BY <1>1, <1>2 DEF RInv, Place, HandedOn, Walk
<1>8. WriteOut'
  <2> SUFFICES ASSUME NEW d \in Buffers, aio'[d] # "none"
               PROVE  \E j \in InFlight : /\ bufOf[j] = d
                                         /\ stage'[j] \in {"process", "await"}
                                         /\ j \in CopyBlocks
                                         /\ CopyLength[j] > pass
    BY <1>1, <1>2 DEF WriteOut
  <2>1. d # bufOf[i] /\ aio[d] # "none"
    BY <1>3
  <2>2. PICK j \in InFlight : /\ bufOf[j] = d
                              /\ stage[j] \in {"process", "await"}
                              /\ j \in CopyBlocks
                              /\ CopyLength[j] > pass
    BY <2>1 DEF RInv, Disk, WriteOut
  <2> QED
    BY <1>2, <2>1, <2>2 DEF InFlight
<1>9. FoldedRight' /\ WrittenRight' /\ AtEnd'
  BY <1>1, <1>2 DEF RInv, Disk, FoldedRight, WrittenRight, AtEnd
<1>10. CopiedRight'
  <2>1. ASSUME NEW c \in CopyBlocks, ok', CopyLength[c] > pass, stage'[c] # "unread",
               <<c, pass, c>> \notin copied
        PROVE  stage'[c] \in {"process", "await"} /\ aio'[bufOf[c]] \in {"pending", "failed"}
    <3>1. ok /\ aio[bufOf[i]] \notin {"pending", "failed"} /\ stage[c] # "unread"
      BY <1>1, <1>2, <2>1
    <3>2. stage[c] \in {"process", "await"} /\ aio[bufOf[c]] \in {"pending", "failed"}
      BY <1>2, <2>1, <3>1 DEF RInv, Disk, CopiedRight
    <3>3. c # i /\ bufOf[c] # bufOf[i] /\ bufOf[c] \in Buffers
      BY <1>2, <3>1, <3>2 DEF RInv, Types, Pool, Exclusive, InFlight
    <3> QED
      BY <1>2, <1>3, <3>2, <3>3
  <2> QED
    BY <1>1, <1>2, <2>1 DEF RInv, Disk, CopiedRight
<1> QED
  BY <1>4, <1>5, <1>6, <1>7, <1>8, <1>9, <1>10 DEF RInv, Pool, Disk

LEMMA RepairProcessStep ==
    ASSUME RInv, NEW i \in Blocks, Process(i, AfterProcess), UNCHANGED repairVars
    PROVE  RInv'
<1> USE Sizes
<1>1. /\ UNCHANGED <<ok, rc, index, content, rpc, post, off, held, nextblock, bufOf,
                     pass, copyblock, copyOf, aio, copied, outblock, written, result, faulted>>
      /\ stage[i] = "process" /\ stage' = [stage EXCEPT ![i] = "await"]
      /\ folded' = folded \cup {<<index[bufOf[i]], content[bufOf[i]]>>}
  BY DEF Process, AfterProcess, poolVars, searchVars, readVars, repairVars, passVars, writeVars,
     outVars
<1>2. /\ i \in InFlight /\ InFlight' = InFlight /\ Columns' = Columns \cup {i}
      /\ result = "running"
      /\ stage'[i] = "await" /\ \A j \in Blocks : j # i => stage'[j] = stage[j]
      /\ stage' \in [Blocks -> {"unread", "process", "await", "release", "done"}]
  BY <1>1 DEF RInv, Types, RepairTypeOK, InFlight, Columns, Place
<1>3. Types'
  BY <1>1, <1>2 DEF RInv, Types, RepairTypeOK
<1>4. Counted' /\ Exclusive' /\ InputIntact'
  BY <1>1, <1>2 DEF RInv, Pool, Counted, Used, Attempt, Exclusive, InputIntact
<1>5. Fetched'
  <2>1. rpc = "read" => nextblock - 1 \in Blocks
    BY DEF RInv, Types, Pool, Fetched, Blocks
  <2> QED
    BY <1>1, <1>2, <2>1 DEF RInv, Pool, Fetched
<1>6. Place' /\ HandedOn' /\ Walk'
  BY <1>1, <1>2 DEF RInv, Place, HandedOn, Walk
<1>7. WriteOut'
  BY <1>1, <1>2 DEF RInv, Disk, WriteOut, InFlight
<1>8. FoldedRight'
  <2>1. folded' = folded \cup {<<i, i>>}
    BY <1>1, <1>2 DEF RInv, Pool, InputIntact
  <2> QED
    BY <1>2, <2>1 DEF RInv, Disk, FoldedRight
<1>9. WrittenRight' /\ AtEnd'
  BY <1>1 DEF RInv, Disk, WrittenRight, AtEnd
<1>10. CopiedRight'
  BY <1>1, <1>2 DEF RInv, Disk, CopiedRight
<1> QED
  BY <1>3, <1>4, <1>5, <1>6, <1>7, <1>8, <1>9, <1>10 DEF RInv, Pool, Disk

\* The token was the only user, so that a count of 0 is right.
LEMMA RepairReleaseStep ==
    ASSUME RInv, NEW i \in Blocks, Release(i), UNCHANGED repairVars
    PROVE  RInv'
<1> USE Sizes
<1>1. /\ UNCHANGED <<ok, index, content, rpc, post, off, held, nextblock, bufOf, folded,
                     pass, copyblock, copyOf, aio, copied, outblock, written, result, faulted>>
      /\ stage[i] = "release" /\ stage' = [stage EXCEPT ![i] = "done"]
      /\ rc' = [rc EXCEPT ![bufOf[i]] = @ - 1]
  BY DEF Release, ReleaseRef, searchVars, readVars, repairVars, passVars, writeVars, outVars
<1>2. /\ i \in InFlight /\ InFlight' = InFlight \ {i} /\ Columns' = Columns
      /\ bufOf[i] \in Buffers /\ result = "running"
      /\ stage'[i] = "done" /\ \A j \in Blocks : j # i => stage'[j] = stage[j]
      /\ stage' \in [Blocks -> {"unread", "process", "await", "release", "done"}]
  BY <1>1 DEF RInv, Types, RepairTypeOK, InFlight, Columns, Place
<1>3. rc[bufOf[i]] = 1 + Attempt(bufOf[i])
  BY <1>2 DEF RInv, Pool, Counted, Used
<1>4. held # bufOf[i] /\ \A j \in InFlight' : bufOf[j] # bufOf[i]
  BY <1>2 DEF RInv, Pool, Exclusive
<1>5. Counted'
  <2> SUFFICES ASSUME NEW b \in Buffers
               PROVE  /\ rc'[b] \in {Attempt(b)', 1 + Attempt(b)'}
                      /\ Used(b)' => rc'[b] = 1 + Attempt(b)'
    BY DEF Counted
  <2>1. Attempt(b)' = Attempt(b) /\ Attempt(b) \in {0, 1}
    BY <1>1 DEF Attempt
  <2>2. CASE b = bufOf[i]
    <3>1. ~ Used(b)'
      BY <1>1, <1>4, <2>2 DEF Used
    <3>2. rc'[b] = Attempt(b)
      BY <1>1, <1>2, <1>3, <2>1, <2>2 DEF RInv, Types
    <3> QED
      BY <2>1, <3>1, <3>2
  <2>3. CASE b # bufOf[i]
    <3>1. rc'[b] = rc[b]
      BY <1>1, <2>3 DEF RInv, Types
    <3>2. Used(b)' => Used(b)
      BY <1>1, <1>2 DEF Used
    <3> QED
      BY <2>1, <3>1, <3>2 DEF RInv, Pool, Counted
  <2> QED
    BY <2>2, <2>3
<1>6. Types'
  <2>1. rc' \in [Buffers -> 0 .. 2]
    BY <1>1, <1>2, <1>3 DEF RInv, Types, Attempt
  <2>2. rc' \in [Buffers -> 0 .. NumBuffers + 2]
    BY <2>1
  <2> QED
    BY <1>1, <1>2, <2>1, <2>2 DEF RInv, Types, RepairTypeOK
<1>7. Exclusive' /\ InputIntact'
  BY <1>1, <1>2 DEF RInv, Pool, Exclusive, InputIntact
<1>8. Fetched'
  <2>1. rpc = "read" => nextblock - 1 \in Blocks
    BY DEF RInv, Types, Pool, Fetched, Blocks
  <2> QED
    BY <1>1, <1>2, <2>1 DEF RInv, Pool, Fetched
<1>9. Place' /\ HandedOn' /\ Walk'
  BY <1>1, <1>2 DEF RInv, Place, HandedOn, Walk
<1>10. WriteOut'
  BY <1>1, <1>2 DEF RInv, Disk, WriteOut, InFlight
<1>11. FoldedRight' /\ WrittenRight' /\ AtEnd'
  BY <1>1, <1>2 DEF RInv, Disk, FoldedRight, WrittenRight, AtEnd
<1>12. CopiedRight'
  BY <1>1, <1>2 DEF RInv, Disk, CopiedRight
<1> QED
  BY <1>5, <1>6, <1>7, <1>8, <1>9, <1>10, <1>11, <1>12 DEF RInv, Pool, Disk

-----------------------------------------------------------------------------
(* After the run.                                                          *)

\* The pipeline stands still; only what is on disk and the result change.
LEMMA Standstill ==
    ASSUME RInv, UNCHANGED <<vars, passVars, copyOf, aio>>, rpc = "returned",
           copied' \subseteq copied, result' \in {"running", "written", "eFileIOError"},
           outblock' \in 0 .. NumOutputs, faulted' \in BOOLEAN
    PROVE  /\ Types' /\ Pool' /\ Place' /\ HandedOn' /\ Walk' /\ WriteOut' /\ FoldedRight'
<1>1. InFlight' = InFlight /\ Columns' = Columns
  BY DEF InFlight, Columns, vars
<1>2. Types'
  BY DEF RInv, Types, RepairTypeOK, vars, passVars
<1>3. Pool'
  BY <1>1 DEF RInv, Pool, Counted, Used, Attempt, Exclusive, Fetched, InputIntact, vars
<1>4. Place' /\ HandedOn' /\ Walk'
  BY <1>1 DEF RInv, Place, HandedOn, Walk, vars, passVars
<1>5. WriteOut' /\ FoldedRight'
  BY <1>1 DEF RInv, Disk, WriteOut, FoldedRight, vars, passVars
<1> QED
  BY <1>2, <1>3, <1>4, <1>5

\* The files are deleted, and what they should hold is of no concern.
LEMMA GiveUpStep == ASSUME RInv, AfterRun, GiveUp, faulted' \in BOOLEAN PROVE RInv'
<1>1. Types' /\ Pool' /\ Place' /\ HandedOn' /\ Walk' /\ WriteOut' /\ FoldedRight'
  <2>1. UNCHANGED <<vars, passVars, copyOf, aio>> /\ rpc = "returned" /\ copied' \subseteq copied
    BY DEF GiveUp, AfterRun
  <2>2. result' \in {"running", "written", "eFileIOError"} /\ outblock' \in 0 .. NumOutputs
    BY DEF GiveUp, RInv, Types, RepairTypeOK
  <2> QED
    BY <2>1, <2>2, Standstill
<1>2. CopiedRight' /\ WrittenRight' /\ AtEnd'
  BY DEF GiveUp, CopiedRight, WrittenRight, AtEnd
<1> QED
  BY <1>1, <1>2 DEF RInv, Disk

LEMMA WriteOutputStep == ASSUME RInv, WriteOutput PROVE RInv'
<1> USE Sizes
<1>1. /\ rpc = "returned" /\ result = "running" /\ ok
      /\ outblock \in Outputs /\ outblock' = outblock + 1
      /\ UNCHANGED <<vars, pass, copyblock, copyOf, aio, copied, result, faulted>>
      /\ pass \in 0 .. Passes - 1
  BY DEF WriteOutput, AfterRun, RInv, Types, RepairTypeOK, Outputs, passVars, writeVars
<1>2. Types' /\ Pool' /\ Place' /\ HandedOn' /\ Walk' /\ WriteOut' /\ FoldedRight'
  <2>1. UNCHANGED <<vars, passVars, copyOf, aio>> /\ copied' \subseteq copied
    BY <1>1 DEF passVars
  <2>2. result' \in {"running", "written", "eFileIOError"} /\ faulted' \in BOOLEAN
    BY <1>1 DEF RInv, Types, RepairTypeOK
  <2>3. outblock' \in 0 .. NumOutputs
    BY <1>1 DEF Outputs
  <2> QED
    BY <1>1, <2>1, <2>2, <2>3, Standstill
<1>3. CopiedRight' /\ AtEnd'
  BY <1>1 DEF RInv, Disk, CopiedRight, AtEnd, vars
<1>4. WrittenRight'
  <2>1. folded = AllColumns
    BY <1>1, RunThrough
  <2>2. written' = IF OutputLength[outblock] > pass
                     THEN written \cup {<<outblock, pass, AllColumns>>} ELSE written
    BY <2>1 DEF WriteOutput
  <2>3. written = {w \in Outputs \X (0 .. Passes - 1) \X {AllColumns} :
                      /\ OutputLength[w[1]] > w[2]
                      /\ w[2] < pass \/ (w[2] = pass /\ w[1] < outblock)}
    BY <1>1 DEF RInv, Disk, WrittenRight
  <2> DEFINE next == {w \in Outputs \X (0 .. Passes - 1) \X {AllColumns} :
                         /\ OutputLength[w[1]] > w[2]
                         /\ w[2] < pass \/ (w[2] = pass /\ w[1] < outblock + 1)}
  <2>4. ASSUME NEW w \in Outputs \X (0 .. Passes - 1) \X {AllColumns}
        PROVE  /\ w[1] < outblock + 1 <=> w[1] < outblock \/ w[1] = outblock
               /\ w = <<w[1], w[2], AllColumns>>
    BY <1>1 DEF Outputs
  <2>5. written' = next
    <3>1. ASSUME NEW w \in written' PROVE w \in next
      <4>1. CASE w \in written
        BY <2>3, <2>4, <4>1
      <4>2. CASE w = <<outblock, pass, AllColumns>> /\ OutputLength[outblock] > pass
        BY <1>1, <2>4, <4>2 DEF Outputs
      <4> QED
        BY <2>2, <3>1, <4>1, <4>2
    <3>2. ASSUME NEW w \in next PROVE w \in written'
      <4>1. CASE w[2] < pass \/ (w[2] = pass /\ w[1] < outblock)
        BY <2>2, <2>3, <4>1
      <4>2. CASE w[2] = pass /\ w[1] = outblock
        BY <2>2, <2>4, <4>2
      <4> QED
        BY <2>4, <4>1, <4>2
    <3> QED
      BY <3>1, <3>2
  <2> QED
    BY <1>1, <2>5 DEF WrittenRight
<1> QED
  BY <1>2, <1>3, <1>4 DEF RInv, Disk

LEMMA LastPassDoneStep == ASSUME RInv, LastPassDone PROVE RInv'
<1> USE Sizes
<1>1. /\ rpc = "returned" /\ result = "running" /\ ok /\ outblock = NumOutputs
      /\ pass + 1 = Passes /\ result' = "written"
      /\ UNCHANGED <<vars, pass, copyblock, copyOf, aio, copied, outblock, written, faulted>>
  BY DEF LastPassDone, PassDone, AfterRun, passVars, writeVars
<1>2. Types' /\ Pool' /\ Place' /\ HandedOn' /\ Walk' /\ WriteOut' /\ FoldedRight'
  <2>1. UNCHANGED <<vars, passVars, copyOf, aio>> /\ copied' \subseteq copied
    BY <1>1 DEF passVars
  <2>2. outblock' \in 0 .. NumOutputs /\ faulted' \in BOOLEAN
    BY <1>1 DEF RInv, Types, RepairTypeOK
  <2> QED
    BY <1>1, <2>1, <2>2, Standstill
<1>3. CopiedRight' /\ WrittenRight'
  BY <1>1 DEF RInv, Disk, CopiedRight, WrittenRight, vars
<1>4. AtEnd'
  BY <1>1 DEF RInv, Types, RepairTypeOK, AtEnd, vars
<1> QED
  BY <1>2, <1>3, <1>4 DEF RInv, Disk

\* All blocks are through, so that what was right up to this pass is right up to the next.
LEMMA NextPassStep == ASSUME RInv, NextPass PROVE RInv'
<1> USE Sizes DEF Buffers, Blocks, NoBuffer, NoCopy
<1>1. /\ rpc = "returned" /\ result = "running" /\ ok /\ outblock = NumOutputs
      /\ pass \in 0 .. Passes - 1 /\ pass + 1 < Passes /\ pass' = pass + 1
      /\ rc' = [b \in Buffers |-> 0] /\ rpc' = "idle" /\ post' = FALSE /\ held' = NoBuffer
      /\ nextblock' = 0 /\ stage' = [i \in Blocks |-> "unread"] /\ folded' = {}
      /\ copyblock' = 0 /\ copyOf' = [b \in Buffers |-> NoCopy] /\ outblock' = 0
      /\ UNCHANGED <<ok, off, index, content, bufOf, aio, copied, written, faulted, result>>
  BY DEF NextPass, PassDone, AfterRun, RInv, Types, RepairTypeOK, searchVars
<1>2. \A i \in Blocks : stage[i] = "done"
  BY <1>1, RunThrough
<1>3. InFlight' = {} /\ Columns' = {}
  BY <1>1 DEF InFlight, Columns
<1>4. Types'
  <2>1. rc' \in [Buffers -> 0 .. 2] /\ rc' \in [Buffers -> 0 .. NumBuffers + 2]
    BY <1>1
  <2>2. copyOf' \in [Buffers -> CopyBlocks \cup {NoCopy}] /\ copyblock' \in 0 .. NumCopyBlocks
    BY <1>1
  <2>3. /\ pass' \in 0 .. Passes - 1 /\ outblock' \in 0 .. NumOutputs
        /\ nextblock' \in 0 .. NumBlocks /\ held' \in Buffers \cup {NoBuffer}
        /\ stage' \in [Blocks -> {"unread", "process", "await", "release", "done"}]
    BY <1>1
  <2> QED
    BY <1>1, <2>1, <2>2, <2>3 DEF RInv, Types, RepairTypeOK
<1>5. Counted'
  BY <1>1, <1>3 DEF Counted, Used, Attempt
<1>6. Exclusive' /\ Fetched' /\ InputIntact'
  BY <1>1, <1>3 DEF Exclusive, Fetched, InputIntact
<1>7. Place' /\ HandedOn' /\ Walk'
  BY <1>1, <1>3 DEF RInv, Place, HandedOn, Walk
<1>8. WriteOut' /\ FoldedRight' /\ AtEnd'
  <2>1. \A b \in Buffers : aio[b] = "none"
    BY <1>1, NoWriteFollows DEF NoWriteLeft
  <2> QED
    BY <1>1, <1>3, <2>1 DEF WriteOut, FoldedRight, AtEnd
<1>9. CopiedRight'
  <2>1. ASSUME NEW c \in CopyBlocks, NEW p \in 0 .. Passes - 1, p < pass + 1, CopyLength[c] > p
        PROVE  <<c, p, c>> \in copied
    <3>1. c \in Blocks /\ (p < pass \/ p = pass)
      BY <1>1, <2>1
    <3> QED
      BY <1>1, <1>2, <2>1, <3>1 DEF RInv, Disk, CopiedRight
  <2>2. \A c \in CopyBlocks : stage'[c] = "unread"
    BY <1>1
  <2> QED
    BY <1>1, <2>1, <2>2 DEF RInv, Disk, CopiedRight
<1>10. WrittenRight'
  <2>1. ASSUME NEW w \in Outputs \X (0 .. Passes - 1) \X {AllColumns}
        PROVE  (w[2] < pass \/ (w[2] = pass /\ w[1] < outblock)) <=>
                   (w[2] < pass' \/ (w[2] = pass' /\ w[1] < outblock'))
    BY <1>1 DEF Outputs
  <2>2. written = {w \in Outputs \X (0 .. Passes - 1) \X {AllColumns} :
                      /\ OutputLength[w[1]] > w[2]
                      /\ w[2] < pass \/ (w[2] = pass /\ w[1] < outblock)}
    BY <1>1 DEF RInv, Disk, WrittenRight
  <2>3. written = {w \in Outputs \X (0 .. Passes - 1) \X {AllColumns} :
                      /\ OutputLength[w[1]] > w[2]
                      /\ w[2] < pass' \/ (w[2] = pass' /\ w[1] < outblock')}
    BY <2>1, <2>2
  <2> QED
    BY <1>1, <2>3 DEF WrittenRight
<1> QED
  BY <1>4, <1>5, <1>6, <1>7, <1>8, <1>9, <1>10 DEF RInv, Pool, Disk

-----------------------------------------------------------------------------

LEMMA RepairInitRInv == RepairInit => RInv
<1> SUFFICES ASSUME RepairInit PROVE RInv
  OBVIOUS
<1> USE Sizes DEF Buffers, Blocks, NoBuffer, NoCopy
<1>1. InFlight = {} /\ Columns = {}
  BY DEF RepairInit, Init, InFlight, Columns
<1>2. Types
  <2>1. /\ rc \in [Buffers -> 0 .. 2] /\ rc \in [Buffers -> 0 .. NumBuffers + 2]
        /\ bufOf \in [Blocks -> Buffers] /\ off \in Buffers
    BY DEF RepairInit, Init
  <2>2. /\ index \in [Buffers -> Nat] /\ content \in [Buffers -> Nat]
        /\ stage \in [Blocks -> {"unread", "process", "await", "release", "done"}]
        /\ copyOf \in [Buffers -> CopyBlocks \cup {NoCopy}]
        /\ aio \in [Buffers -> {"none", "pending", "ok", "failed"}]
    BY DEF RepairInit, Init
  <2>3. /\ nextblock \in 0 .. NumBlocks /\ copyblock \in 0 .. NumCopyBlocks
        /\ pass \in 0 .. Passes - 1 /\ outblock \in 0 .. NumOutputs
        /\ held \in Buffers \cup {NoBuffer}
    BY DEF RepairInit, Init
  <2> QED
    BY <2>1, <2>2, <2>3 DEF RepairInit, Init, Types, RepairTypeOK
<1>3. Counted
  BY <1>1 DEF RepairInit, Init, Counted, Used, Attempt
<1>4. Exclusive /\ Fetched /\ InputIntact
  BY <1>1 DEF RepairInit, Init, Exclusive, Fetched, InputIntact
<1>5. Place /\ HandedOn /\ Walk
  BY <1>1 DEF RepairInit, Init, Place, HandedOn, Walk
<1>6. WriteOut /\ FoldedRight /\ CopiedRight /\ AtEnd
  BY <1>1 DEF RepairInit, Init, WriteOut, FoldedRight, CopiedRight, AtEnd
<1>7. WrittenRight
  <2>1. \A w \in Outputs \X (0 .. Passes - 1) \X {AllColumns} :
            ~ (w[2] < pass \/ (w[2] = pass /\ w[1] < outblock))
    BY DEF RepairInit, Outputs
  <2> QED
    BY <2>1 DEF RepairInit, WrittenRight
<1> QED
  BY <1>2, <1>3, <1>4, <1>5, <1>6, <1>7 DEF RInv, Pool, Disk

\* One step per action.
LEMMA RepairNextRInv == RInv /\ [RepairNext]_allVars => RInv'
<1> SUFFICES ASSUME RInv, [RepairNext]_allVars PROVE RInv'
  OBVIOUS
<1>1. CASE RepairReaderStep
  <2>1. CASE RepairFetch
    BY <2>1, RepairFetchStep
  <2>2. CASE ReadOnly
    BY <2>2, ReadOnlyStep
  <2>3. CASE ReadAndStartWrite
    BY <2>3, ReadAndStartWriteStep
  <2>4. CASE OtherFault
    BY <2>4, OtherFaultStep
  <2>5. CASE ReadOrWriteFails
    BY <2>5, ReadOrWriteFailsStep
  <2>6. CASE (StartRead \/ EndOfInput \/ RunReturns) /\ UNCHANGED repairVars
    BY <2>6, PlainStep
  <2>7. CASE Acquire /\ UNCHANGED repairVars
    BY <2>7, RepairSearchStep, RepairTryAcquireStep, RepairBackOffStep DEF Acquire
  <2>8. CASE GpuXor /\ UNCHANGED repairVars
    BY <2>8, RepairGpuXorStep
  <2>9. CASE RunFailed
    <3>1. faulted' \in BOOLEAN
      BY <2>9 DEF RunFailed, RInv, Types, RepairTypeOK
    <3> QED
      BY <2>9, <3>1, GiveUpStep DEF RunFailed
  <2>10. CASE WriteOutput
    BY <2>10, WriteOutputStep
  <2>11. CASE WriteOutputFails
    BY <2>11, GiveUpStep DEF WriteOutputFails
  <2>12. CASE NextPass
    BY <2>12, NextPassStep
  <2>13. CASE LastPassDone
    BY <2>13, LastPassDoneStep
  <2> QED
    BY <1>1, <2>1, <2>2, <2>3, <2>4, <2>5, <2>6, <2>7, <2>8, <2>9, <2>10, <2>11, <2>12, <2>13
       DEF RepairReaderStep
<1>2. ASSUME NEW i \in Blocks, RepairWorkerStep(i) PROVE RInv'
  BY <1>2, AwaitStep, RepairProcessStep, RepairReleaseStep DEF RepairWorkerStep
<1>3. ASSUME NEW b \in Buffers, WriteCompletes(b) PROVE RInv'
  BY <1>3, WriteCompletesStep
<1>4. CASE UNCHANGED allVars
  <2>1. InFlight' = InFlight /\ Columns' = Columns
    BY <1>4 DEF allVars, vars, InFlight, Columns
  <2>2. Types' /\ Place' /\ HandedOn' /\ Walk'
    BY <1>4, <2>1 DEF RInv, Types, RepairTypeOK, Place, HandedOn, Walk, allVars, vars, repairVars,
       passVars, writeVars, outVars
  <2>3. Pool'
    BY <1>4, <2>1 DEF RInv, Pool, Counted, Used, Attempt, Exclusive, Fetched, InputIntact,
       allVars, vars
  <2>4. Disk'
    BY <1>4, <2>1 DEF RInv, Disk, WriteOut, FoldedRight, CopiedRight, WrittenRight, AtEnd,
       allVars, vars, repairVars, passVars, writeVars, outVars
  <2> QED
    BY <2>2, <2>3, <2>4 DEF RInv
<1> QED
  BY <1>1, <1>2, <1>3, <1>4 DEF RepairNext, RepairOver

LEMMA AlwaysRInv == RepairSpec => []RInv
BY RepairInitRInv, RepairNextRInv, PTL DEF RepairSpec

\* Every variable of the passes keeps its type.
THEOREM RepairTypeCorrect == RepairSpec => []RepairTypeOK
BY AlwaysRInv, TypesFollow, PTL

\* The buffer of an asynchronous write keeps its data, and is handed to nobody
\* else, until the operating system has carried the write out.
THEOREM BufferKeptForWriteHolds == RepairSpec => []BufferKeptForWrite
BY AlwaysRInv, KeptFollows, PTL

\* No write is under way when run() returns and its buffers are freed, whatever
\* has failed.
THEOREM NoWriteLeftHolds == RepairSpec => []NoWriteLeft
BY AlwaysRInv, NoWriteFollows, PTL

\* Passes that end well have put every chunk where it belongs: each copy of its own
\* block, each output made of all the input blocks.
THEOREM TargetsCompleteHolds == RepairSpec => []TargetsComplete
BY AlwaysRInv, CompleteFollows, PTL

-----------------------------------------------------------------------------
(* Without a fault of the operating system, a repair can only fail because *)
(* a block to be copied ends before the last pass.                         *)

WholeCopies == \A c \in CopyBlocks : CopyLength[c] \in {0, Passes}

FaultInv ==
    /\ ok \/ faulted
    /\ \A b \in Buffers : aio[b] = "failed" => faulted
    /\ result = "eFileIOError" => faulted

LEMMA FaultStep ==
    WholeCopies /\ RInv /\ FaultInv /\ [RepairNext]_allVars => FaultInv'
<1> SUFFICES ASSUME WholeCopies, RInv, FaultInv, [RepairNext]_allVars PROVE FaultInv'
  OBVIOUS
<1> USE Sizes
<1>1. CASE RepairReaderStep
  <2>1. CASE RepairFetch
    BY <2>1 DEF FaultInv, RepairFetch, Fetch, outVars
  <2>2. CASE ReadOnly
    BY <2>2 DEF FaultInv, ReadOnly, ReadBlock, repairVars, outVars, writeVars
  <2>3. CASE ReadAndStartWrite
    <3>1. aio' = [aio EXCEPT ![held] = "pending"] /\ UNCHANGED <<ok, result, faulted>>
      BY <2>3 DEF ReadAndStartWrite, ReadBlock, outVars
    <3> QED
      BY <3>1 DEF FaultInv, RInv, Types, RepairTypeOK
  <2>4. CASE OtherFault
    BY <2>4 DEF FaultInv, OtherFault
  <2>5. CASE ReadOrWriteFails
    <3>1. ~ Ended(held)
      <4> SUFFICES ASSUME ToBeCopied(held) PROVE HasChunk(copyOf[held], pass)
        BY DEF Ended
      <4>1. held \in Buffers /\ copyOf[held] \in CopyBlocks
        BY <2>5, HeldAlone DEF ReadOrWriteFails, ToBeCopied, RInv, Types, RepairTypeOK
      <4>2. CopyLength[copyOf[held]] = Passes /\ pass \in 0 .. Passes - 1
        BY <4>1 DEF ToBeCopied, IsSet, WholeCopies, RInv, Types, RepairTypeOK
      <4> QED
        BY <4>2 DEF HasChunk
    <3> QED
      BY <2>5, <3>1 DEF FaultInv, ReadOrWriteFails
  <2>6. CASE (StartRead \/ Acquire \/ EndOfInput \/ RunReturns \/ GpuXor) /\ UNCHANGED repairVars
    BY <2>6 DEF FaultInv, StartRead, Acquire, Search, TryAcquire, BackOff, EndOfInput, RunReturns,
       GpuXor, repairVars, writeVars, outVars
  <2>7. CASE RunFailed
    BY <2>7 DEF FaultInv, RunFailed, GiveUp, vars
  <2>8. CASE WriteOutput
    BY <2>8 DEF FaultInv, WriteOutput, vars, writeVars
  <2>9. CASE WriteOutputFails
    BY <2>9 DEF FaultInv, WriteOutputFails
  <2>10. CASE NextPass
    BY <2>10 DEF FaultInv, NextPass
  <2>11. CASE LastPassDone
    BY <2>11 DEF FaultInv, LastPassDone, vars, writeVars
  <2> QED
    BY <1>1, <2>1, <2>2, <2>3, <2>4, <2>5, <2>6, <2>7, <2>8, <2>9, <2>10, <2>11
       DEF RepairReaderStep
<1>2. ASSUME NEW i \in Blocks, RepairWorkerStep(i) PROVE FaultInv'
  <2>1. CASE Await(i)
    <3>1. bufOf[i] \in Buffers
      BY DEF RInv, Types
    <3> QED
      BY <2>1, <3>1 DEF FaultInv, Await, outVars, RInv, Types, RepairTypeOK
  <2>2. CASE (Process(i, AfterProcess) \/ Release(i)) /\ UNCHANGED repairVars
    BY <2>2 DEF FaultInv, Process, Release, repairVars, writeVars, outVars
  <2> QED
    BY <1>2, <2>1, <2>2 DEF RepairWorkerStep
<1>3. ASSUME NEW b \in Buffers, WriteCompletes(b) PROVE FaultInv'
  BY <1>3 DEF FaultInv, WriteCompletes, vars, outVars, RInv, Types, RepairTypeOK
<1>4. CASE UNCHANGED allVars
  BY <1>4 DEF FaultInv, allVars, vars, repairVars, writeVars, outVars
<1> QED
  BY <1>1, <1>2, <1>3, <1>4 DEF RepairNext, RepairOver

\* When every block to be copied lasts for all the passes, the repair fails only if
\* the operating system has failed it: WriteDataAsync's check is never in the way.
THEOREM OnlyFailOnFaultHolds == ASSUME WholeCopies PROVE RepairSpec => []OnlyFailOnFault
<1>1. RepairInit => FaultInv
  BY DEF RepairInit, Init, FaultInv
<1>2. RInv /\ FaultInv /\ [RepairNext]_allVars => FaultInv'
  BY FaultStep
<1>3. FaultInv => OnlyFailOnFault
  BY DEF FaultInv, OnlyFailOnFault
<1> QED
  BY <1>1, <1>2, <1>3, AlwaysRInv, PTL DEF RepairSpec

-----------------------------------------------------------------------------
(* A DiskFile is opened only while it is closed.  The counts hold until a  *)
(* read has failed, which ends the run with the file open: no pass follows *)
(* that would open it again.                                               *)

\* Whether the read stage may still open a file.
Opening ==
    ok \/ (rpc \in {"idle", "search", "try", "backoff", "fetch", "read"} /\ ~ post)

FilesTyped ==
    /\ openfiles \in [Files -> {Absent} \cup 0 .. U32 - 1]
    /\ handles \in [Files -> Nat]

OpenInv ==
    /\ FilesTyped
    /\ FilesOpenedOnce
    /\ Opening => \A f \in Files : FileCounted(f)

LEMMA CountedOpenOnce == ASSUME NEW f, FileCounted(f) PROVE handles[f] <= 1
  BY DEF FileCounted

\* Steps that open, read and close nothing, and do not begin anew.
LEMMA OpenUnchanged ==
    ASSUME OpenInv, UNCHANGED <<openfiles, handles>>,
           \A i \in Blocks : stage'[i] = "unread" <=> stage[i] = "unread",
           Opening' => Opening
    PROVE  OpenInv'
<1>1. \A f : Unread(f)' = Unread(f)
  BY DEF Unread
<1> QED
  BY <1>1 DEF OpenInv, FilesTyped, FilesOpenedOnce, FileCounted

LEMMA OpenInit == BlocksCounted /\ RepairInit => OpenInv
<1> SUFFICES ASSUME BlocksCounted, RepairInit PROVE OpenInv
  OBVIOUS
<1>1. FilesTyped /\ FilesOpenedOnce
  BY DEF RepairInit, Init, FilesTyped, FilesOpenedOnce
<1>2. ASSUME NEW f \in Files PROVE FileCounted(f)
  <2>1. Unread(f) = BlocksOf(f)
    BY DEF RepairInit, Init, Unread, BlocksOf
  <2>2. Cardinality(Unread(f)) = FileBlockCount[f]
    BY <2>1 DEF BlocksCounted
  <2> QED
    BY <2>2 DEF RepairInit, Init, FileCounted
<1> QED
  BY <1>1, <1>2 DEF OpenInv

\* The block in hand has been handed to nobody.
LEMMA ReadingUnread ==
    ASSUME RInv, rpc = "read"
    PROVE  /\ Reading \in Blocks /\ stage[Reading] = "unread" /\ ReadingFile \in Files
           /\ FileBlockCount[ReadingFile] \in 0 .. U32 - 1
<1>1. nextblock > 0 /\ nextblock \in 0 .. NumBlocks /\ stage[nextblock - 1] = "unread"
  BY DEF RInv, Pool, Fetched, Types
<1>2. NumBlocks \in Nat
  BY Sizes
<1>3. Reading \in Blocks /\ stage[Reading] = "unread"
  BY <1>1, <1>2 DEF Reading, Blocks
<1> QED
  BY <1>3, PipelineAssumption DEF ReadingFile, PipelineAssumption

LEMMA OpenAtRead ==
    ASSUME RInv, OpenInv, NEW s, s # "unread", ReadBlock(s)
    PROVE  OpenInv'
<1>1. /\ rpc = "read" /\ Reading \in Blocks /\ stage[Reading] = "unread"
      /\ ReadingFile \in Files /\ FileBlockCount[ReadingFile] \in 0 .. U32 - 1
  BY ReadingUnread DEF ReadBlock
<1>2. Opening
  BY <1>1 DEF Opening, RInv, Place
<1>3. \A f \in Files : FileCounted(f)'
  <2>1. stage \in [Blocks -> {"unread", "process", "await", "release", "done"}]
    BY DEF RInv, Types, RepairTypeOK
  <2> QED
    BY <1>1, <1>2, <2>1, ReadBlockCounts DEF OpenInv, FilesTyped
<1>4. FilesTyped'
  <2> DEFINE f == ReadingFile
             left == IF LastBlock(f) THEN Absent ELSE (BlocksLeft(f) - 1) % U32
             open == IF LastBlock(f) THEN HandlesOnceOpen(f) - 1 ELSE HandlesOnceOpen(f)
  <2>1. openfiles' = [openfiles EXCEPT ![f] = left] /\ handles' = [handles EXCEPT ![f] = open]
    BY DEF ReadBlock
  <2>2. FileCounted(f)
    BY <1>1, <1>2 DEF OpenInv
  <2>3. BlocksLeft(f) \in Int /\ left \in {Absent} \cup 0 .. U32 - 1
    BY <1>1, U32Type DEF OpenInv, FilesTyped, BlocksLeft, IsOpen, Absent
  <2>4. HandlesOnceOpen(f) = 1
    BY <1>1, <2>2, UnreadFinite DEF FileCounted, HandlesOnceOpen, IsOpen, Absent
  <2>5. open \in Nat
    BY <2>4
  <2> QED
    BY <2>1, <2>3, <2>5 DEF OpenInv, FilesTyped
<1>5. FilesOpenedOnce'
  <2>1. \A f \in Files : (handles[f] <= 1)'
    BY <1>3 DEF FileCounted
  <2> QED
    BY <2>1 DEF FilesOpenedOnce
<1> QED
  BY <1>3, <1>4, <1>5 DEF OpenInv

\* The file of a block that could not be read, or of which the copy could not be
\* started, stays open; so does the entry of one that could not be opened.
LEMMA OpenAtFailure ==
    ASSUME RInv, OpenInv, OpenFails \/ ReadAborts
    PROVE  OpenInv'
<1>1. /\ rpc = "read" /\ ReadingFile \in Files
      /\ FileBlockCount[ReadingFile] \in 0 .. U32 - 1
      /\ ~ ok' /\ rpc' = "finished"
  BY ReadingUnread DEF OpenFails, ReadAborts
<1>2. ~ Opening'
  BY <1>1 DEF Opening
<1>3. FileCounted(ReadingFile)
  BY <1>1 DEF OpenInv, Opening, RInv, Place
<1>4. CASE OpenFails
  <2>1. handles' = handles /\ openfiles' = [openfiles EXCEPT ![ReadingFile] = 0]
    BY <1>4 DEF OpenFails
  <2>2. 0 \in {Absent} \cup 0 .. U32 - 1
    BY U32Type
  <2> QED
    BY <1>1, <1>2, <2>1, <2>2 DEF OpenInv, FilesTyped, FilesOpenedOnce
<1>5. CASE ReadAborts
  <2> DEFINE f == ReadingFile
  <2>1. /\ openfiles' = [openfiles EXCEPT ![f] = BlocksLeft(f)]
        /\ handles' = [handles EXCEPT ![f] = HandlesOnceOpen(f)]
    BY <1>5 DEF ReadAborts
  <2>2. BlocksLeft(f) \in {Absent} \cup 0 .. U32 - 1
    BY <1>1 DEF OpenInv, FilesTyped, BlocksLeft
  <2>3. HandlesOnceOpen(f) = 1
    BY <1>1, <1>3, UnreadFinite DEF FileCounted, HandlesOnceOpen, IsOpen, Absent
  <2> QED
    BY <1>1, <1>2, <2>1, <2>2, <2>3 DEF OpenInv, FilesTyped, FilesOpenedOnce
<1> QED
  BY <1>4, <1>5

\* All the files have been closed when the next pass begins.
LEMMA OpenAtNextPass ==
    ASSUME BlocksCounted, RInv, OpenInv, NextPass
    PROVE  OpenInv'
<1>1. /\ rpc = "returned" /\ ok /\ handles' = handles
      /\ openfiles' = [f \in Files |-> Absent] /\ stage' = [i \in Blocks |-> "unread"]
  BY DEF NextPass, PassDone, AfterRun
<1>2. \A i \in Blocks : stage[i] = "done"
  BY <1>1, RunThrough
<1>3. ASSUME NEW f \in Files PROVE handles[f] = 0 /\ FileCounted(f)'
  <2>1. Unread(f) = {} /\ Unread(f)' = BlocksOf(f)
    BY <1>1, <1>2 DEF Unread, BlocksOf
  <2>2. Cardinality(Unread(f)) = 0
    BY <2>1, FS_EmptySet
  <2>3. handles[f] = 0
    BY <1>1, <2>2 DEF OpenInv, Opening, FileCounted
  <2>4. Cardinality(Unread(f)') = FileBlockCount[f]
    BY <2>1 DEF BlocksCounted
  <2> QED
    BY <1>1, <2>3, <2>4 DEF FileCounted
<1> QED
  BY <1>1, <1>3 DEF OpenInv, FilesTyped, FilesOpenedOnce

LEMMA OpenNext ==
    BlocksCounted /\ RInv /\ OpenInv /\ [RepairNext]_allVars => OpenInv'
<1> SUFFICES ASSUME BlocksCounted, RInv, OpenInv, [RepairNext]_allVars PROVE OpenInv'
  OBVIOUS
<1>1. CASE RepairReaderStep
  <2>1. CASE ReadOnly \/ ReadAndStartWrite
    <3>1. ReadBlock("process")
      BY <2>1 DEF ReadOnly, ReadAndStartWrite
    <3> QED
      BY <3>1, OpenAtRead
  <2>2. CASE OpenFails \/ ReadAborts
    BY <2>2, OpenAtFailure
  <2>3. CASE NextPass
    BY <2>3, OpenAtNextPass
  <2>4. CASE \/ RepairFetch \/ GpuFails
             \/ StartRead \/ Acquire \/ EndOfInput \/ RunReturns \/ GpuXor
             \/ RunFailed \/ WriteOutput \/ WriteOutputFails \/ LastPassDone
    <3>1. UNCHANGED <<openfiles, handles, stage>>
      BY <2>4 DEF RepairFetch, Fetch, GpuFails, StartRead, Acquire, Search, TryAcquire, BackOff,
         EndOfInput, RunReturns, GpuXor, RunFailed, WriteOutput, WriteOutputFails, LastPassDone,
         GiveUp, vars, readVars
    <3>2. Opening' => Opening
      BY <2>4 DEF RepairFetch, Fetch, GpuFails, StartRead, Acquire, Search, TryAcquire, BackOff,
         EndOfInput, RunReturns, GpuXor, RunFailed, WriteOutput, WriteOutputFails, LastPassDone,
         GiveUp, vars, Opening
    <3> QED
      BY <3>1, <3>2, OpenUnchanged
  <2> QED
    BY <1>1, <2>1, <2>2, <2>3, <2>4 DEF RepairReaderStep, OtherFault, ReadOrWriteFails
<1>2. ASSUME NEW i \in Blocks, RepairWorkerStep(i) PROVE OpenInv'
  <2>1. UNCHANGED <<openfiles, handles, rpc, post>>
    BY <1>2 DEF RepairWorkerStep, Await, Process, Release, readVars
  <2>2. ok' => ok
    BY <1>2 DEF RepairWorkerStep, Await, Process, Release
  <2>3. \A j \in Blocks : stage'[j] = "unread" <=> stage[j] = "unread"
    BY <1>2 DEF RepairWorkerStep, Await, Process, Release, AfterProcess, RInv, Types, RepairTypeOK
  <2>4. Opening' => Opening
    BY <2>1, <2>2 DEF Opening
  <2> QED
    BY <2>1, <2>3, <2>4, OpenUnchanged
<1>3. ASSUME NEW b \in Buffers, WriteCompletes(b) PROVE OpenInv'
  <2>1. UNCHANGED <<openfiles, handles, stage>> /\ (Opening' => Opening)
    BY <1>3 DEF WriteCompletes, vars, Opening
  <2> QED
    BY <2>1, OpenUnchanged
<1>4. CASE UNCHANGED allVars
  <2>1. UNCHANGED <<openfiles, handles, stage>> /\ (Opening' => Opening)
    BY <1>4 DEF allVars, vars, Opening
  <2> QED
    BY <2>1, OpenUnchanged
<1> QED
  BY <1>1, <1>2, <1>3, <1>4 DEF RepairNext, RepairOver

\* When DiskFile counts just the blocks that are read, no file is ever opened while
\* it is open, in any pass: each is closed with its last block, and a read that fails
\* ends the repair.
THEOREM FilesOpenedOnceHolds == ASSUME BlocksCounted PROVE RepairSpec => []FilesOpenedOnce
<1>1. RepairInit => OpenInv
  BY OpenInit
<1>2. RInv /\ OpenInv /\ [RepairNext]_allVars => OpenInv'
  BY OpenNext
<1>3. OpenInv => FilesOpenedOnce
  BY DEF OpenInv
<1> QED
  BY <1>1, <1>2, <1>3, AlwaysRInv, PTL DEF RepairSpec
=============================================================================
