--------------------------- MODULE CreatePipeline ---------------------------
(***************************************************************************)
(* The pipeline of Par2Creator when the hashes of the source files are     *)
(* computed during the Reed-Solomon pass (deferhashcomputation).  A file   *)
(* must be hashed in order, but its buffers reach the parallel stage in    *)
(* any order: one that comes early is kept, with a reference of its own,   *)
(* until the blocks before it are hashed.                                  *)
(***************************************************************************)
EXTENDS Pipeline, Sequences

CONSTANT SourceFiles   \* the source files in the order of their blocks

FirstBlock(f) == CHOOSE i \in Blocks : FileOf[i] = f /\ \A j \in Blocks : FileOf[j] = f => i <= j
LastFile == SourceFiles[Len(SourceFiles)]

\* The sourceblocks are those of the first file, then those of the second, and so on.
\* Every file has one at least: files of 0 bytes are skipped by the command line.
ASSUME CreateAssumption ==
    /\ SourceFiles \in Seq(Files) \ {<< >>}
    /\ \A f \in Files :
          /\ FirstBlock(f) \in Blocks
          /\ FileBlockCount[f] \in 1 .. NumBlocks - FirstBlock(f)
          /\ \A i \in Blocks :
                FileOf[i] = f <=> i >= FirstBlock(f) /\ i < FirstBlock(f) + FileBlockCount[f]
    /\ FirstBlock(SourceFiles[1]) = 0
    /\ \A n \in 1 .. Len(SourceFiles) - 1 :
          FirstBlock(SourceFiles[n + 1]) = FirstBlock(SourceFiles[n]) + FileBlockCount[SourceFiles[n]]
    /\ FirstBlock(LastFile) + FileBlockCount[LastFile] = NumBlocks

NoOne == -1
NoEntry == -1

VARIABLES
    sourcefile,   \* sourcefile_: the position in SourceFiles of the next block's file
    sourceindex,  \* sourceindex_: the next block's number in that file
    src,          \* src[b]: <<sourcefile_, sourceindex_>> of buffer b
    next,         \* next[f]: the index to be hashed next (first of shm_[f]), or NoEntry
    deferred,     \* the <<file, index, buffer>> kept for later (second of shm_)
    hasher,       \* hasher[f]: the block whose thread has the accessor to shm_[f]
    cursor,       \* cursor[f]: the buffer that thread hashes next
    hashed        \* hashed[f]: the data the hash of f was fed so far

hashVars == <<next, deferred, hasher, cursor, hashed>>
walkVars == <<sourcefile, sourceindex, src>>
createVars == <<walkVars, hashVars>>
allVars == <<vars, createVars>>

CreateInit ==
    /\ Init
    /\ sourcefile = 1
    /\ sourceindex = 0
    /\ src = [b \in Buffers |-> <<SourceFiles[1], 0>>]
    /\ next = [f \in Files |-> NoEntry]
    /\ deferred = {}
    /\ hasher = [f \in Files |-> NoOne]
    /\ cursor = [f \in Files |-> NoBuffer]
    /\ hashed = [f \in Files |-> << >>]

-----------------------------------------------------------------------------

\* ++sourceindex_ >= BlockCount()
WalkedThroughLate(f) == sourceindex + 1 > FileBlockCount[f]
WalkedThrough(f) == sourceindex + 1 >= FileBlockCount[f]

\* on_mutex_held: the buffer learns which block of which file it is about to hold.
CreateFetch ==
    /\ Fetch
    /\ LET f == SourceFiles[sourcefile]
       IN  /\ src' = [src EXCEPT ![held] = <<f, sourceindex>>]
           /\ IF WalkedThrough(f)
                THEN sourceindex' = 0 /\ sourcefile' = sourcefile + 1
                ELSE sourceindex' = sourceindex + 1 /\ UNCHANGED sourcefile
    /\ UNCHANGED hashVars

HashFile(i) == src[bufOf[i]][1]
HashIndex(i) == src[bufOf[i]][2]

\* The accessor to the file's entry of shm_, made if there is none, is exclusive.
MayHash(i) == stage[i] = "hash" /\ hasher[HashFile(i)] = NoOne
NextIndex(f) == IF next[f] = NoEntry THEN 0 ELSE next[f]

\* The buffer is the one to be hashed next: the thread keeps the entry locked.
HashNow(i) ==
    /\ MayHash(i)
    /\ NextIndex(HashFile(i)) = HashIndex(i)
    /\ next' = [next EXCEPT ![HashFile(i)] = HashIndex(i)]
    /\ hasher' = [hasher EXCEPT ![HashFile(i)] = i]
    /\ cursor' = [cursor EXCEPT ![HashFile(i)] = bufOf[i]]
    /\ stage' = [stage EXCEPT ![i] = "hashing"]
    /\ UNCHANGED <<ok, poolVars, rpc, post, searchVars, held, readVars, bufOf, folded,
                   walkVars, deferred, hashed>>

\* add_ref
RefToKeepForgotten(b) == rc
RefToKeep(b) == [rc EXCEPT ![b] = @ + 1]

\* The buffer is early: keep it.  (One that is late would be ignored.)
KeepForLater(i) ==
    /\ MayHash(i)
    /\ NextIndex(HashFile(i)) # HashIndex(i)
    /\ next' = [next EXCEPT ![HashFile(i)] = NextIndex(HashFile(i))]
    /\ stage' = [stage EXCEPT ![i] = "process"]
    /\ IF NextIndex(HashFile(i)) < HashIndex(i)
         THEN /\ deferred' = deferred \cup {<<HashFile(i), HashIndex(i), bufOf[i]>>}
              /\ rc' = RefToKeep(bufOf[i])
         ELSE UNCHANGED <<deferred, rc>>
    /\ UNCHANGED <<ok, index, content, rpc, post, searchVars, held, readVars, bufOf, folded,
                   walkVars, hasher, cursor, hashed>>

\* The deferred entries that hashing can go on with after index k of file f.
GoOnWithAny(f, k) == {d \in deferred : d[1] = f}
GoOnWith(f, k) == {d \in deferred : d[1] = f /\ d[2] = k}

\* if (ib_needs_releasing) release(ib): all but the buffer the thread came with
DropKeptNever(b, i) == rc
DropKeptAlways(b, i) == ReleaseRef(b)
DropKept(b, i) == IF b = bufOf[i] THEN rc ELSE ReleaseRef(b)

(***************************************************************************)
(* One turn of the hashing loop: hash the buffer at the cursor, drop the   *)
(* reference that kept it if it was a deferred one, advance the index, go  *)
(* on with the deferred buffer of that index if there is one.              *)
(***************************************************************************)
HashOne(i) ==
    /\ stage[i] = "hashing"
    /\ LET f == HashFile(i)
           b == cursor[f]
           k == next[f] + 1
       IN  /\ hashed' = [hashed EXCEPT ![f] = Append(@, content[b])]
           /\ rc' = DropKept(b, i)
           /\ IF k = FileBlockCount[f]                    \* the file is finished
                THEN /\ next' = [next EXCEPT ![f] = NoEntry]
                     /\ UNCHANGED deferred
                ELSE /\ next' = [next EXCEPT ![f] = k]
                     /\ deferred' = deferred \ GoOnWith(f, k)
           /\ IF k # FileBlockCount[f] /\ GoOnWith(f, k) # {}
                THEN /\ \E d \in GoOnWith(f, k) : cursor' = [cursor EXCEPT ![f] = d[3]]
                     /\ UNCHANGED <<hasher, stage>>
                ELSE /\ cursor' = [cursor EXCEPT ![f] = NoBuffer]
                     /\ hasher' = [hasher EXCEPT ![f] = NoOne]
                     /\ stage' = [stage EXCEPT ![i] = "process"]
    /\ UNCHANGED <<ok, index, content, rpc, post, searchVars, held, readVars, bufOf, folded,
                   walkVars>>

CreateReaderStep ==
    \/ CreateFetch
    \/ /\ \/ StartRead \/ Acquire \/ EndOfInput
          \/ ReadBlock("hash") \/ OpenFails \/ ReadFails
          \/ RunReturns \/ GpuXor \/ GpuFails
       /\ UNCHANGED createVars

CreateWorkerStep(i) ==
    \/ HashNow(i) \/ KeepForLater(i) \/ HashOne(i)
    \/ WorkerStep(i) /\ UNCHANGED createVars

CreateReturned == rpc = "returned" /\ UNCHANGED allVars

CreateNext ==
    \/ CreateReaderStep
    \/ \E i \in Blocks : CreateWorkerStep(i)
    \/ CreateReturned

CreateSpec == CreateInit /\ [][CreateNext]_allVars

CreateFairSpec ==
    /\ CreateSpec
    /\ WF_allVars(CreateReaderStep)
    /\ WF_allVars(\E i \in Blocks : CreateWorkerStep(i))

-----------------------------------------------------------------------------

CreateTypeOK ==
    /\ ok \in BOOLEAN
    /\ rc \in [Buffers -> 0 .. NumBuffers + 2]
    /\ stage \in [Blocks -> {"unread", "hash", "hashing", "process", "release", "done"}]
    /\ sourcefile \in 1 .. Len(SourceFiles) + 1
    /\ sourceindex \in Nat
    /\ src \in [Buffers -> Files \X Nat]
    /\ next \in [Files -> {NoEntry} \cup Nat]
    /\ deferred \subseteq Files \X Nat \X Buffers
    /\ hasher \in [Files -> {NoOne} \cup Blocks]
    /\ cursor \in [Files -> {NoBuffer} \cup Buffers]
    /\ hashed \in [Files -> Seq(Blocks)]

\* The blocks of file f in the order of the input.
InputOf(f) == [k \in 1 .. FileBlockCount[f] |-> FirstBlock(f) + k - 1]

FileHash == INSTANCE FileHashing WITH BlocksOf <- [f \in Files |-> InputOf(f)]

(***************************************************************************)
(* The hash of each file is fed the file's own blocks, each once and in    *)
(* file order, however the threads of the parallel stage interleave.       *)
(***************************************************************************)
HashesInFileOrder == FileHash!Spec

(***************************************************************************)
(* A buffer kept for the hash holds the block it was kept for, and is not  *)
(* handed out again, although its token may long have left the pipeline.   *)
(***************************************************************************)
KeptIntact ==
    \A d \in deferred :
        /\ src[d[3]] = <<d[1], d[2]>>
        /\ content[d[3]] = InputOf(d[1])[d[2] + 1]
        /\ held # d[3]
        /\ \A i \in InFlight : bufOf[i] = d[3] => i = content[d[3]]

\* Who refers to buffer b: its token, the reader, the reader's failed attempt,
\* the deferred entry, the hashing loop that took a deferred buffer up.
RefsTo(b) ==
    Cardinality({i \in InFlight : bufOf[i] = b})
    + (IF held = b THEN 1 ELSE 0)
    + (IF rpc = "backoff" /\ off = b THEN 1 ELSE 0)
    + Cardinality({d \in deferred : d[3] = b})
    + Cardinality({f \in Files : hasher[f] # NoOne /\ cursor[f] = b /\ bufOf[hasher[f]] # b})

(***************************************************************************)
(* The reference count of a buffer is the number of its users: none is     *)
(* lost to the failed attempts, none released twice by the hashing loop.   *)
(***************************************************************************)
RefsExact == ~ post => \A b \in Buffers : rc[b] = RefsTo(b)

(***************************************************************************)
(* When run() returns, failed or not, no buffer waits to be hashed, and    *)
(* after a run without failure every file was hashed to its last block.    *)
(***************************************************************************)
NothingLeftToHash ==
    rpc = "returned" =>
        /\ deferred = {}
        /\ ok => \A f \in Files : hashed[f] = InputOf(f) /\ next[f] = NoEntry

(***************************************************************************)
(* The run ends: the read stage may find every buffer kept for the hash    *)
(* and pause, but the thread that will hash them never waits for it.       *)
(***************************************************************************)
CreateRunEnds == <>(rpc = "returned")
=============================================================================
