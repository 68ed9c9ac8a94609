------------------------ MODULE CreatePipeline_proof ------------------------
(***************************************************************************)
(* The invariants of a creation pass that hashes the files while it reads  *)
(* them, and that it implements FileHashing, for any pool and any files.   *)
(*                                                                         *)
(* Two facts carry the proof.  A buffer that is in use holds the block its *)
(* label src[b] names, so that it is in at most one place besides its      *)
(* token's.  And a block that has passed the hashing stage has been        *)
(* hashed, is kept, or is the one at the cursor.                           *)
(***************************************************************************)
EXTENDS CreatePipeline, FiniteSetTheorems, TLAPS

Number(i) == i - FirstBlock(FileOf[i])
Label(i) == <<FileOf[i], Number(i)>>
BlockAt(f, k) == FirstBlock(f) + k
NumberOf(f) == 0 .. FileBlockCount[f] - 1

LEMMA Layout ==
    /\ NumBuffers \in Nat /\ NumBuffers > 0 /\ NumBlocks \in Nat
    /\ \A f \in Files : FirstBlock(f) \in Nat /\ FileBlockCount[f] \in Nat /\ FileBlockCount[f] > 0
    /\ \A i \in Blocks : /\ FileOf[i] \in Files /\ Number(i) \in NumberOf(FileOf[i])
                         /\ BlockAt(FileOf[i], Number(i)) = i
    /\ \A f \in Files : \A k \in NumberOf(f) :
          /\ BlockAt(f, k) \in Blocks
          /\ FileOf[BlockAt(f, k)] = f
          /\ Number(BlockAt(f, k)) = k
<1>1. NumBuffers \in Nat /\ NumBuffers > 0 /\ NumBlocks \in Nat
  BY PipelineAssumption DEF PipelineAssumption
<1>2. ASSUME NEW f \in Files
      PROVE  /\ FirstBlock(f) \in Nat /\ FileBlockCount[f] \in Nat /\ FileBlockCount[f] > 0
             /\ FirstBlock(f) + FileBlockCount[f] <= NumBlocks
             /\ \A i \in Blocks :
                   FileOf[i] = f <=> i >= FirstBlock(f) /\ i < FirstBlock(f) + FileBlockCount[f]
  BY <1>1, CreateAssumption DEF CreateAssumption, Blocks
<1>3. ASSUME NEW i \in Blocks
      PROVE  /\ FileOf[i] \in Files /\ Number(i) \in NumberOf(FileOf[i])
             /\ BlockAt(FileOf[i], Number(i)) = i
  <2>1. FileOf[i] \in Files
    BY PipelineAssumption DEF PipelineAssumption
  <2> DEFINE f == FileOf[i]
  <2>2. /\ FirstBlock(f) \in Nat /\ FileBlockCount[f] \in Nat
        /\ i >= FirstBlock(f) /\ i < FirstBlock(f) + FileBlockCount[f]
    BY <1>2, <2>1
  <2> QED
    BY <1>1, <2>1, <2>2 DEF Number, NumberOf, BlockAt, Blocks
<1>4. ASSUME NEW f \in Files, NEW k \in NumberOf(f)
      PROVE  /\ BlockAt(f, k) \in Blocks
             /\ FileOf[BlockAt(f, k)] = f
             /\ Number(BlockAt(f, k)) = k
  <2>1. BlockAt(f, k) \in Blocks
    BY <1>1, <1>2 DEF NumberOf, BlockAt, Blocks
  <2>2. FileOf[BlockAt(f, k)] = f
    BY <1>2, <2>1 DEF NumberOf, BlockAt
  <2> QED
    BY <1>2, <2>1, <2>2 DEF Number, BlockAt, NumberOf
<1> QED
  BY <1>1, <1>2, <1>3, <1>4

-----------------------------------------------------------------------------
(* The inductive invariant.                                                *)

Types ==
    /\ rc \in [Buffers -> Nat] /\ content \in [Buffers -> Nat]
    /\ ok \in BOOLEAN /\ post \in BOOLEAN
    /\ rpc \in {"idle", "search", "try", "backoff", "fetch", "read", "xor",
                "finished", "returned"}
    /\ off \in Buffers /\ held \in Buffers \cup {NoBuffer}
    /\ nextblock \in 0 .. NumBlocks
    /\ stage \in [Blocks -> {"unread", "hash", "hashing", "process", "release", "done"}]
    /\ bufOf \in [Blocks -> Buffers]
    /\ sourcefile \in 1 .. Len(SourceFiles) + 1
    /\ sourceindex \in Nat
    /\ src \in [Buffers -> Files \X Nat]

HashTypes ==
    /\ next \in [Files -> {NoEntry} \cup Nat]
    /\ deferred \subseteq Files \X Nat \X Buffers
    /\ hasher \in [Files -> {NoOne} \cup Blocks]
    /\ cursor \in [Files -> {NoBuffer} \cup Buffers]
    /\ hashed \in [Files -> Seq(Blocks)]

\* The read stage's locals, what it does after a failure, and the end of the run.
Place ==
    /\ rpc \in {"fetch", "read", "xor"} => held \in Buffers
    /\ rpc \in {"idle", "search", "try", "backoff"} /\ ~ post => held = NoBuffer
    /\ rpc \in {"idle", "fetch", "read", "finished"} => ~ post
    /\ rpc = "xor" => post
    /\ rpc \in {"idle", "search", "try", "backoff", "fetch", "read"} /\ ~ post => ok
    /\ rpc = "returned" \/ post => InFlight = {}
    /\ post => deferred = {}
    /\ ok /\ (rpc \in {"finished", "returned"} \/ post) => nextblock = NumBlocks

\* Blocks are handed on in the order of the input, up to the one that failed.
Order ==
    /\ \A i \in Blocks : i >= nextblock => stage[i] = "unread"
    /\ \A i \in Blocks : i < nextblock /\ stage[i] = "unread" =>
                             i = nextblock - 1 /\ (ok => rpc = "read")
    /\ rpc = "read" => nextblock > 0 /\ stage[nextblock - 1] = "unread"
                       /\ src[held] = Label(nextblock - 1)

\* The walk over the files is at the block to be fetched next.
Walk ==
    \/ /\ sourcefile \in 1 .. Len(SourceFiles)
       /\ nextblock = FirstBlock(SourceFiles[sourcefile]) + sourceindex
       /\ sourceindex < FileBlockCount[SourceFiles[sourcefile]]
    \/ nextblock = NumBlocks

\* A token's buffer holds its block; in particular no two tokens share one.
Tokens ==
    \A i \in InFlight : content[bufOf[i]] = i /\ src[bufOf[i]] = Label(i) /\ bufOf[i] # held

Past == {"process", "release", "done"}

\* A kept buffer holds the block it was kept for, one that is not hashed yet.
Kept ==
    \A d \in deferred :
        /\ d[2] \in NumberOf(d[1])
        /\ src[d[3]] = <<d[1], d[2]>> /\ content[d[3]] = BlockAt(d[1], d[2])
        /\ d[3] # held
        /\ next[d[1]] # NoEntry /\ d[2] > next[d[1]]
        /\ stage[BlockAt(d[1], d[2])] \in Past
KeptOnce == \A d, e \in deferred : d[1] = e[1] /\ d[2] = e[2] => d = e

\* So does the buffer that a thread is about to hash.
AtCursor(f) ==
    /\ hasher[f] \in Blocks /\ stage[hasher[f]] = "hashing" /\ FileOf[hasher[f]] = f
    /\ next[f] \in NumberOf(f) /\ Number(hasher[f]) <= next[f]
    /\ cursor[f] \in Buffers /\ cursor[f] # held
    /\ content[cursor[f]] = BlockAt(f, next[f]) /\ src[cursor[f]] = <<f, next[f]>>
    /\ hasher[f] = BlockAt(f, next[f]) \/ stage[BlockAt(f, next[f])] \in Past
Hashers ==
    /\ \A i \in Blocks : stage[i] = "hashing" => hasher[FileOf[i]] = i
    /\ \A f \in Files : hasher[f] # NoOne => AtCursor(f)

\* The hash was fed the first blocks of its file; next says how many, while there
\* is an entry for the file.
Fed ==
    \A f \in Files :
        /\ \A k \in 1 .. Len(hashed[f]) : hashed[f][k] = BlockAt(f, k - 1)
        /\ next[f] # NoEntry => next[f] = Len(hashed[f]) /\ next[f] < FileBlockCount[f]
        /\ next[f] = NoEntry => Len(hashed[f]) \in {0, FileBlockCount[f]}

IsKept(i) == \E d \in deferred : d[1] = FileOf[i] /\ d[2] = Number(i)
IsNext(i) == hasher[FileOf[i]] # NoOne /\ Number(i) = next[FileOf[i]]
Through ==
    \A i \in Blocks :
        /\ stage[i] \in {"unread", "hash"} => Number(i) >= Len(hashed[FileOf[i]])
        /\ stage[i] \in Past =>
               Number(i) < Len(hashed[FileOf[i]]) \/ IsKept(i) \/ IsNext(i)

\* Who refers to buffer b, one reason for a reference each.
One(P) == IF P THEN 1 ELSE 0
HasToken(b) == \E i \in InFlight : bufOf[i] = b
KeepsIt(b) == \E d \in deferred : d[3] = b
TookIt(b) == \E f \in Files : hasher[f] # NoOne /\ cursor[f] = b /\ bufOf[hasher[f]] # b
Attempt(b) == rpc = "backoff" /\ off = b
Others(b) == One(HasToken(b)) + One(KeepsIt(b)) + One(TookIt(b))
Refs(b) == Others(b) + One(held = b) + One(Attempt(b))

\* A buffer that the read stage forgets when the input ends stays counted.
Counted ==
    \A b \in Buffers :
        IF post THEN /\ rc[b] \in {One(Attempt(b)), 1 + One(Attempt(b))}
                     /\ rpc = "xor" /\ b = held => rc[b] = 1
                ELSE rc[b] = Refs(b)

Hashing == HashTypes /\ Kept /\ KeptOnce /\ Hashers /\ Fed /\ Through
CInv == Types /\ Place /\ Order /\ Walk /\ Tokens /\ Hashing /\ Counted

-----------------------------------------------------------------------------
(* What follows from the invariant.                                        *)

\* Kept and taken buffers are different, since their labels are.
LEMMA KeptNotTaken == ASSUME CInv, NEW b, KeepsIt(b) PROVE ~ TookIt(b)
<1> SUFFICES ASSUME NEW d \in deferred, d[3] = b, NEW f \in Files, hasher[f] # NoOne, cursor[f] = b
             PROVE  FALSE
  BY DEF KeepsIt, TookIt
<1>1. src[b] = <<d[1], d[2]>> /\ d[2] > next[d[1]] /\ d[2] \in Nat
  BY DEF CInv, Hashing, HashTypes, Kept
<1>2. src[b] = <<f, next[f]>> /\ next[f] \in Nat
  BY Layout, SMTT(30) DEF CInv, Hashing, Hashers, AtCursor, NumberOf
<1>3. d[1] = f /\ d[2] = next[f]
  BY <1>1, <1>2
<1> QED
  BY <1>1, <1>2, <1>3

\* A token's buffer is kept only if the token's block has been.
LEMMA TokenOfKept ==
    ASSUME CInv, NEW i \in InFlight, NEW d \in deferred, d[3] = bufOf[i]
    PROVE  i = BlockAt(d[1], d[2]) /\ stage[i] \in Past
  BY DEF CInv, Tokens, Hashing, Kept

LEMMA SmallCount == ASSUME CInv, NEW b \in Buffers PROVE rc[b] \in 0 .. NumBuffers + 2
<1>1. NumBuffers \in Nat /\ NumBuffers > 0
  BY Layout
<1>2. CASE post
  <2>1. rc[b] \in {One(Attempt(b)), 1 + One(Attempt(b))}
    BY <1>2 DEF CInv, Counted
  <2> QED
    BY <1>1, <2>1 DEF One
<1>3. CASE ~ post
  <2>1. rc[b] = Refs(b)
    BY <1>3 DEF CInv, Counted
  <2>2. ~ (HasToken(b) /\ held = b)
    BY DEF HasToken, CInv, Tokens
  <2>3. ~ (KeepsIt(b) /\ TookIt(b))
    BY KeptNotTaken
  <2> QED
    BY <1>1, <2>1, <2>2, <2>3 DEF Refs, Others, One
<1> QED
  BY <1>2, <1>3

LEMMA TypesFollow == CInv => CreateTypeOK
<1> SUFFICES ASSUME CInv PROVE CreateTypeOK
  OBVIOUS
<1>1. rc \in [Buffers -> 0 .. NumBuffers + 2]
  BY SmallCount DEF CInv, Types
<1> QED
  BY <1>1 DEF CInv, Types, Hashing, HashTypes, CreateTypeOK

LEMMA KeptFollows == CInv => KeptIntact
<1> SUFFICES ASSUME CInv, NEW d \in deferred
             PROVE  /\ src[d[3]] = <<d[1], d[2]>>
                    /\ content[d[3]] = InputOf(d[1])[d[2] + 1]
                    /\ held # d[3]
                    /\ \A i \in InFlight : bufOf[i] = d[3] => i = content[d[3]]
  BY DEF KeptIntact
<1>1. d[1] \in Files /\ d[2] \in NumberOf(d[1])
  BY DEF CInv, Hashing, HashTypes, Kept
<1>2. InputOf(d[1])[d[2] + 1] = BlockAt(d[1], d[2])
  BY <1>1, Layout DEF InputOf, NumberOf, BlockAt
<1> QED
  BY <1>2 DEF CInv, Tokens, Hashing, Kept

\* A set with one reason at most has the cardinality of the reason.
LEMMA AtMostOne ==
    ASSUME NEW S, \A x, y \in S : x = y
    PROVE  Cardinality(S) = One(\E x : x \in S)
<1>1. CASE S = {}
  BY <1>1, FS_EmptySet DEF One
<1>2. ASSUME NEW x \in S PROVE Cardinality(S) = One(\E y : y \in S)
  <2>1. S = {x}
    BY <1>2
  <2> QED
    BY <2>1, FS_Singleton DEF One
<1> QED
  BY <1>1, <1>2

LEMMA RefsFollow == CInv => RefsExact
<1> SUFFICES ASSUME CInv, ~ post, NEW b \in Buffers PROVE rc[b] = RefsTo(b)
  BY DEF RefsExact
<1>1. Cardinality({i \in InFlight : bufOf[i] = b}) = One(HasToken(b))
  <2>1. \A i, j \in {k \in InFlight : bufOf[k] = b} : i = j
    BY DEF CInv, Tokens
  <2>2. Cardinality({i \in InFlight : bufOf[i] = b})
            = One(\E i : i \in {k \in InFlight : bufOf[k] = b})
    BY <2>1, AtMostOne
  <2> QED
    BY <2>2 DEF HasToken, One
<1>2. Cardinality({d \in deferred : d[3] = b}) = One(KeepsIt(b))
  <2>1. ASSUME NEW d \in deferred, NEW e \in deferred, d[3] = b, e[3] = b PROVE d = e
    <3>1. src[b] = <<d[1], d[2]>> /\ src[b] = <<e[1], e[2]>>
      BY <2>1 DEF CInv, Hashing, Kept
    <3>2. d[1] = e[1] /\ d[2] = e[2]
      BY <3>1
    <3> QED
      BY <3>2 DEF CInv, Hashing, KeptOnce
  <2>2. Cardinality({d \in deferred : d[3] = b}) = One(\E d : d \in {e \in deferred : e[3] = b})
    BY <2>1, AtMostOne
  <2> QED
    BY <2>2 DEF KeepsIt, One
<1>3. Cardinality({f \in Files : hasher[f] # NoOne /\ cursor[f] = b /\ bufOf[hasher[f]] # b})
          = One(TookIt(b))
  <2> DEFINE T == {f \in Files : hasher[f] # NoOne /\ cursor[f] = b /\ bufOf[hasher[f]] # b}
  <2>1. ASSUME NEW f \in T, NEW g \in T PROVE f = g
    <3>1. src[b] = <<f, next[f]>> /\ src[b] = <<g, next[g]>>
      BY <2>1 DEF CInv, Hashing, Hashers, AtCursor
    <3> QED
      BY <3>1
  <2>2. Cardinality(T) = One(\E f : f \in T)
    BY <2>1, AtMostOne
  <2>3. (\E f : f \in T) <=> TookIt(b)
    BY DEF TookIt
  <2> QED
    BY <2>2, <2>3 DEF One
<1>4. rc[b] = Refs(b)
  BY DEF CInv, Counted
<1> QED
  BY <1>1, <1>2, <1>3, <1>4 DEF Refs, Others, RefsTo, One, Attempt

\* With no token left, the block that hashing would go on with must have come by.
LEMMA NoneKeptAtEnd == ASSUME CInv, InFlight = {} PROVE deferred = {}
<1> SUFFICES ASSUME NEW d \in deferred PROVE FALSE
  OBVIOUS
<1> DEFINE f == d[1]
<1> DEFINE i == BlockAt(f, next[f])
<1>1. /\ f \in Files /\ d[2] \in NumberOf(f) /\ next[f] \in Nat /\ next[f] < d[2]
      /\ stage[BlockAt(f, d[2])] \in Past
  BY DEF CInv, Hashing, HashTypes, Kept
<1>2. next[f] \in NumberOf(f) /\ next[f] = Len(hashed[f])
  BY <1>1, Layout DEF NumberOf, NoEntry, CInv, Hashing, Fed
<1>3. i \in Blocks /\ FileOf[i] = f /\ Number(i) = next[f] /\ BlockAt(f, d[2]) \in Blocks
  BY <1>1, <1>2, Layout
<1>4. \A g \in Files : hasher[g] = NoOne
  BY DEF CInv, Hashing, Hashers, AtCursor, InFlight
<1>5. i < BlockAt(f, d[2]) /\ BlockAt(f, d[2]) < nextblock
  <2>1. i < BlockAt(f, d[2])
    BY <1>1, Layout DEF BlockAt, NumberOf
  <2>2. stage[BlockAt(f, d[2])] # "unread"
    BY <1>1 DEF Past
  <2> QED
    BY <1>3, <2>1, <2>2, Layout DEF CInv, Types, Order, Blocks
<1>6. stage[i] # "unread"
  <2>1. i # nextblock - 1 /\ i < nextblock
    <3>1. i \in Int /\ BlockAt(f, d[2]) \in Int /\ nextblock \in Int
      BY <1>3 DEF Blocks, CInv, Types
    <3> QED
      BY <1>5, <3>1
  <2> QED
    BY <1>3, <2>1 DEF CInv, Order
<1>7. stage[i] \in Past
  BY <1>3, <1>6 DEF InFlight, Past
<1>8. IsKept(i)
  BY <1>1, <1>2, <1>3, <1>4, <1>7 DEF CInv, Hashing, Through, IsNext
<1> QED
  BY <1>1, <1>3, <1>8 DEF IsKept, CInv, Hashing, Kept

LEMMA NothingLeftFollows == CInv => NothingLeftToHash
<1> SUFFICES ASSUME CInv, rpc = "returned"
             PROVE  /\ deferred = {}
                    /\ ok => \A f \in Files : hashed[f] = InputOf(f) /\ next[f] = NoEntry
  BY DEF NothingLeftToHash
<1>1. InFlight = {} /\ deferred = {}
  BY NoneKeptAtEnd DEF CInv, Place
<1>2. ASSUME ok, NEW f \in Files PROVE hashed[f] = InputOf(f) /\ next[f] = NoEntry
  <2>1. FileBlockCount[f] \in Nat /\ FileBlockCount[f] > 0 /\ hashed[f] \in Seq(Blocks)
    BY Layout DEF CInv, Hashing, HashTypes
  <2> DEFINE i == BlockAt(f, FileBlockCount[f] - 1)
  <2>2. i \in Blocks /\ FileOf[i] = f /\ Number(i) = FileBlockCount[f] - 1
    BY <2>1, Layout DEF NumberOf
  <2>3. hasher[f] = NoOne
    BY <1>1 DEF CInv, Hashing, Hashers, AtCursor, InFlight
  <2>4. stage[i] \in Past
    <3>1. nextblock = NumBlocks
      BY <1>2 DEF CInv, Place
    <3>2. stage[i] # "unread"
      BY <1>2, <2>2, <3>1, Layout DEF CInv, Order, Blocks
    <3> QED
      BY <1>1, <2>2, <3>2 DEF InFlight, Past
  <2>5. FileBlockCount[f] - 1 < Len(hashed[f])
    BY <1>1, <2>2, <2>3, <2>4 DEF CInv, Hashing, Through, IsKept, IsNext
  <2>6. next[f] = NoEntry /\ Len(hashed[f]) = FileBlockCount[f]
    BY <2>1, <2>5 DEF CInv, Hashing, HashTypes, Fed
  <2>7. hashed[f] = InputOf(f)
    <3>1. hashed[f] = [k \in 1 .. FileBlockCount[f] |-> hashed[f][k]]
      BY <2>1, <2>6
    <3>2. \A k \in 1 .. FileBlockCount[f] : hashed[f][k] = FirstBlock(f) + k - 1
      BY <2>1, <2>6, Layout DEF CInv, Hashing, Fed, BlockAt
    <3> QED
      BY <3>1, <3>2 DEF InputOf
  <2> QED
    BY <2>6, <2>7
<1> QED
  BY <1>1, <1>2

-----------------------------------------------------------------------------
(* The read stage.                                                         *)

\* A count of 0 means that nobody has the buffer.
LEMMA FreeIsNobodys ==
    ASSUME CInv, NEW b \in Buffers, rc[b] = 0
    PROVE  /\ \A i \in InFlight : bufOf[i] # b
           /\ \A d \in deferred : d[3] # b
           /\ \A f \in Files : hasher[f] # NoOne => cursor[f] # b
<1>1. \A f \in Files : hasher[f] # NoOne => hasher[f] \in InFlight
  BY DEF CInv, Hashing, Hashers, AtCursor, InFlight
<1>2. CASE post
  BY <1>1, <1>2 DEF CInv, Place
<1>3. CASE ~ post
  <2>1. Refs(b) = 0
    BY <1>3 DEF CInv, Counted
  <2>2. ~ HasToken(b) /\ ~ KeepsIt(b) /\ ~ TookIt(b)
    BY <2>1 DEF Refs, Others, One
  <2> QED
    BY <1>1, <2>2 DEF HasToken, KeepsIt, TookIt
<1> QED
  BY <1>2, <1>3

\* A step of the read stage that neither fetches a block nor hands one on.
Quiet ==
    /\ UNCHANGED <<content, stage, bufOf, nextblock, createVars>>
    /\ held' \in {held, NoBuffer} \/ (held' \in Buffers /\ rc[held'] = 0)
    /\ ok' = ok \/ ok' = FALSE
    /\ rpc' # "read"
    /\ rpc = "read" => ok' = FALSE

LEMMA QuietKeeps ==
    ASSUME CInv, Quiet
    PROVE  /\ InFlight' = InFlight
           /\ \A b : Others(b)' = Others(b) /\ Others(b) \in Nat
           /\ Order' /\ Walk' /\ Tokens' /\ Hashing'
<1> USE DEF Quiet, createVars, walkVars, hashVars
<1>1. InFlight' = InFlight
  BY DEF InFlight
<1>2. \A b : Others(b)' = Others(b) /\ Others(b) \in Nat
  BY <1>1 DEF Others, One, HasToken, KeepsIt, TookIt
<1>3. Order' /\ Walk'
  BY DEF CInv, Order, Walk
<1>4. /\ \A i \in InFlight : bufOf[i] # held'
      /\ \A d \in deferred : d[3] # held'
      /\ \A f \in Files : hasher[f] # NoOne => cursor[f] # held'
  <2>1. CASE held' = held
    BY <2>1 DEF CInv, Tokens, Hashing, Kept, Hashers, AtCursor
  <2>2. CASE held' = NoBuffer
    BY <2>2 DEF CInv, Types, Hashing, HashTypes, Hashers, AtCursor, InFlight, Buffers, NoBuffer
  <2>3. CASE held' \in Buffers /\ rc[held'] = 0
    BY <2>3, FreeIsNobodys
  <2> QED
    BY <2>1, <2>2, <2>3
<1>5. Tokens'
  BY <1>1, <1>4 DEF CInv, Tokens
<1>6. Kept' /\ KeptOnce'
  BY <1>4 DEF CInv, Hashing, Kept, KeptOnce
<1>7. Hashers'
  BY <1>4 DEF CInv, Hashing, Hashers, AtCursor
<1>8. HashTypes' /\ Fed' /\ Through'
  BY DEF CInv, Hashing, HashTypes, Fed, Through, IsKept, IsNext
<1> QED
  BY <1>1, <1>2, <1>3, <1>5, <1>6, <1>7, <1>8 DEF Hashing

LEMMA PlainStep ==
    ASSUME CInv, StartRead \/ EndOfInput \/ OpenFails \/ GpuFails, UNCHANGED createVars
    PROVE  CInv'
<1>1. Quiet
  BY DEF Quiet, StartRead, EndOfInput, OpenFails, GpuFails, poolVars, readVars
<1>2. /\ InFlight' = InFlight
      /\ \A b : Others(b)' = Others(b)
      /\ Order' /\ Walk' /\ Tokens' /\ Hashing'
  BY <1>1, QuietKeeps
<1>3. Types'
  BY DEF CInv, Types, StartRead, EndOfInput, OpenFails, GpuFails, createVars, walkVars, poolVars,
     searchVars, readVars
<1>4. Place'
  BY <1>2 DEF CInv, Place, StartRead, EndOfInput, OpenFails, GpuFails, readVars, createVars,
     hashVars
<1>5. Counted'
  <2>1. /\ UNCHANGED <<rc, post, held, off>>
        /\ rpc # "backoff" /\ rpc' \notin {"backoff", "xor"}
    BY DEF StartRead, EndOfInput, OpenFails, GpuFails, poolVars, searchVars
  <2> QED
    BY <1>2, <2>1 DEF CInv, Counted, Refs, One, Attempt
<1> QED
  BY <1>2, <1>3, <1>4, <1>5 DEF CInv

\* With the tokens gone, only the read stage can still have a buffer.
LEMMA RunReturnsStep == ASSUME CInv, RunReturns, UNCHANGED createVars PROVE CInv'
<1>1. Quiet
  BY DEF Quiet, RunReturns, poolVars, readVars
<1>2. /\ InFlight' = InFlight
      /\ \A b : Others(b)' = Others(b)
      /\ Order' /\ Walk' /\ Tokens' /\ Hashing'
  BY <1>1, QuietKeeps
<1>3. Types'
  BY PipelineAssumption DEF PipelineAssumption, CInv, Types, RunReturns, createVars, walkVars,
     poolVars, searchVars, readVars
<1>4. InFlight = {} /\ deferred = {} /\ ~ post
  <2>1. InFlight = {} /\ deferred = {}
    BY NoneKeptAtEnd DEF RunReturns
  <2> QED
    BY <2>1 DEF CInv, Place, RunReturns
<1>5. Place'
  BY <1>2, <1>4 DEF CInv, Place, RunReturns, readVars, createVars, hashVars
<1>6. Counted'
  <2>1. ASSUME NEW b \in Buffers PROVE rc[b] \in {0, 1}
    <3>1. rc[b] = Others(b) + One(held = b) + One(Attempt(b)) /\ ~ Attempt(b)
      BY <1>4 DEF CInv, Counted, Refs, Attempt, RunReturns
    <3>2. Others(b) = 0
      <4>1. \A f \in Files : hasher[f] = NoOne
        BY <1>4 DEF CInv, Hashing, Hashers, AtCursor, InFlight
      <4> QED
        BY <1>4, <4>1 DEF Others, One, HasToken, KeepsIt, TookIt
    <3> QED
      BY <3>1, <3>2 DEF One
  <2>2. UNCHANGED <<rc, held, off>> /\ rpc' \notin {"backoff", "xor"}
    BY DEF RunReturns, poolVars, searchVars
  <2>3. CASE post'
    BY <2>1, <2>2, <2>3 DEF Counted, One, Attempt
  <2>4. CASE ~ post'
    BY <1>2, <1>4, <2>2, <2>4 DEF CInv, Counted, Refs, One, Attempt, RunReturns
  <2> QED
    BY <2>3, <2>4
<1> QED
  BY <1>2, <1>3, <1>5, <1>6 DEF CInv

LEMMA SearchStep == ASSUME CInv, Search, UNCHANGED createVars PROVE CInv'
<1>1. Quiet
  BY DEF Quiet, Search, poolVars, readVars
<1>2. /\ InFlight' = InFlight
      /\ \A b : Others(b)' = Others(b)
      /\ Order' /\ Walk' /\ Tokens' /\ Hashing'
  BY <1>1, QuietKeeps
<1>3. Types'
  <2>1. off' \in Buffers
    BY DEF Search
  <2> QED
    BY <2>1 DEF CInv, Types, Search, createVars, walkVars, poolVars, readVars
<1>4. Place'
  BY <1>2 DEF CInv, Place, Search, readVars, createVars, hashVars
<1>5. Counted'
  BY <1>2 DEF CInv, Counted, Refs, One, Attempt, Search, poolVars
<1> QED
  BY <1>2, <1>3, <1>4, <1>5 DEF CInv

LEMMA TryAcquireStep == ASSUME CInv, TryAcquire, UNCHANGED createVars PROVE CInv'
<1>1. off \in Buffers /\ rpc = "try" /\ rc[off] \in Nat /\ NoBuffer \notin Buffers
  BY DEF CInv, Types, TryAcquire, Buffers, NoBuffer
<1>2. Quiet
  BY <1>1 DEF Quiet, TryAcquire, WasFree, readVars
<1>3. /\ InFlight' = InFlight
      /\ \A b : Others(b)' = Others(b) /\ Others(b) \in Nat
      /\ Order' /\ Walk' /\ Tokens' /\ Hashing'
  BY <1>2, QuietKeeps
<1>4. /\ rc'[off] = rc[off] + 1 /\ \A b \in Buffers : b # off => rc'[b] = rc[b]
      /\ rc' \in [Buffers -> Nat]
  <2>1. rc \in [Buffers -> Nat] /\ rc' = [rc EXCEPT ![off] = @ + 1]
    BY DEF CInv, Types, TryAcquire
  <2> QED
    BY <1>1, <2>1
<1>5. Types'
  <2>1. off' \in Buffers /\ held' \in Buffers \cup {NoBuffer}
    <3>1. 0 \in Buffers
      BY Layout DEF Buffers
    <3>2. off' \in {0, off} /\ held' \in {off, held}
      BY DEF TryAcquire, searchVars
    <3> QED
      BY <1>1, <3>1, <3>2 DEF CInv, Types
  <2> QED
    BY <1>4, <2>1 DEF CInv, Types, TryAcquire, WasFree, readVars, createVars, walkVars
<1>6. Place'
  BY <1>1, <1>3 DEF CInv, Place, TryAcquire, WasFree, readVars, createVars, hashVars
<1>7. Counted'
  <2>1. CASE rc[off] = 0
    <3>1. held' = off /\ rpc' \in {"xor", "fetch"} /\ post' = post /\ (rpc' = "xor" => post)
      BY <2>1 DEF TryAcquire, WasFree
    <3>2. ASSUME ~ post, NEW b \in Buffers PROVE rc'[b] = Refs(b)'
      <4>1. rc[b] = Others(b) + One(held = b) /\ Others(b)' = Others(b) /\ Others(b) \in Nat
        BY <1>1, <1>3, <3>2 DEF CInv, Counted, Refs, One, Attempt
      <4>2. Refs(b)' = Others(b)' + One(held' = b)
        BY <1>3, <3>1 DEF Refs, One, Attempt
      <4>3. CASE b = off
        <5>1. Others(b) = 0
          BY <2>1, <4>1, <4>3 DEF One
        <5> QED
          BY <1>4, <2>1, <3>1, <4>1, <4>2, <4>3, <5>1 DEF One
      <4>4. CASE b # off
        <5>1. held # b
          BY <1>1, <3>2 DEF CInv, Place
        <5> QED
          BY <1>4, <3>1, <4>1, <4>2, <4>4, <5>1 DEF One
      <4> QED
        BY <4>3, <4>4
    <3>3. ASSUME post, NEW b \in Buffers
          PROVE  rc'[b] \in {0, 1} /\ (b = held' => rc'[b] = 1)
      BY <1>1, <1>4, <2>1, <3>1, <3>3 DEF CInv, Counted, One, Attempt
    <3> QED
      BY <3>1, <3>2, <3>3 DEF Counted, One, Attempt
  <2>2. CASE rc[off] # 0
    <3>1. held' = held /\ rpc' = "backoff" /\ off' = off /\ post' = post
      BY <2>2 DEF TryAcquire, WasFree, searchVars
    <3>2. ASSUME ~ post, NEW b \in Buffers PROVE rc'[b] = Refs(b)'
      BY <1>1, <1>3, <1>4, <3>1, <3>2 DEF CInv, Counted, Refs, One, Attempt
    <3>3. ASSUME post, NEW b \in Buffers PROVE rc'[b] \in {One(Attempt(b)'), 1 + One(Attempt(b)')}
      BY <1>1, <1>4, <2>2, <3>1, <3>3 DEF CInv, Counted, One, Attempt
    <3> QED
      BY <3>1, <3>2, <3>3 DEF Counted, One
  <2> QED
    BY <2>1, <2>2
<1> QED
  BY <1>3, <1>5, <1>6, <1>7 DEF CInv

LEMMA BackOffStep == ASSUME CInv, BackOff, UNCHANGED createVars PROVE CInv'
<1>1. off \in Buffers /\ rpc = "backoff" /\ rpc' \in {"search", "try"}
  BY DEF CInv, Types, BackOff
<1>2. Quiet
  BY <1>1 DEF Quiet, BackOff, readVars
<1>3. /\ InFlight' = InFlight
      /\ \A b : Others(b)' = Others(b) /\ Others(b) \in Nat
      /\ Order' /\ Walk' /\ Tokens' /\ Hashing'
  BY <1>2, QuietKeeps
<1>4. rc[off] \in Nat /\ rc[off] >= 1
  <2>1. rc[off] \in Nat
    BY <1>1 DEF CInv, Types
  <2>2. rc[off] = Refs(off) \/ rc[off] \in {One(Attempt(off)), 1 + One(Attempt(off))}
    BY <1>1 DEF CInv, Counted
  <2> QED
    BY <1>1, <1>3, <2>1, <2>2 DEF Refs, One, Attempt
<1>5. /\ rc'[off] = rc[off] - 1 /\ \A b \in Buffers : b # off => rc'[b] = rc[b]
      /\ rc' \in [Buffers -> Nat]
  <2>1. rc \in [Buffers -> Nat] /\ rc' = [rc EXCEPT ![off] = @ - 1]
    BY DEF CInv, Types, BackOff, ReleaseRef
  <2> QED
    BY <1>1, <1>4, <2>1
<1>6. Types'
  <2>1. off' \in Buffers
    BY <1>1, Layout DEF BackOff, Buffers
  <2> QED
    BY <1>1, <1>5, <2>1 DEF CInv, Types, BackOff, readVars, createVars, walkVars
<1>7. Place'
  BY <1>1, <1>3 DEF CInv, Place, BackOff, readVars, createVars, hashVars
<1>8. Counted'
  <2>1. UNCHANGED <<held, post>>
    BY DEF BackOff
  <2>2. ASSUME ~ post, NEW b \in Buffers PROVE rc'[b] = Refs(b)'
    <3>1. rc[b] = Others(b) + One(held = b) + One(Attempt(b))
      BY <2>2 DEF CInv, Counted, Refs
    <3>2. Refs(b)' = Others(b) + One(held = b)
      BY <1>1, <1>3, <2>1 DEF Refs, One, Attempt
    <3> QED
      BY <1>1, <1>3, <1>5, <3>1, <3>2 DEF One, Attempt
  <2>3. ASSUME post, NEW b \in Buffers PROVE rc'[b] \in {0, 1}
    <3>1. rc[b] \in {One(Attempt(b)), 1 + One(Attempt(b))}
      BY <2>3 DEF CInv, Counted
    <3> QED
      BY <1>1, <1>5, <3>1 DEF One, Attempt
  <2> QED
    BY <1>1, <2>1, <2>2, <2>3 DEF Counted, One, Attempt
<1> QED
  BY <1>3, <1>6, <1>7, <1>8 DEF CInv

LEMMA GpuXorStep == ASSUME CInv, GpuXor, UNCHANGED createVars PROVE CInv'
<1>1. /\ rpc = "xor" /\ rpc' = "returned" /\ held \in Buffers /\ post /\ post' = post
      /\ rc[held] = 1 /\ held' = NoBuffer
  BY DEF CInv, Place, Counted, GpuXor
<1>2. Quiet
  BY <1>1 DEF Quiet, GpuXor, readVars
<1>3. /\ InFlight' = InFlight
      /\ Order' /\ Walk' /\ Tokens' /\ Hashing'
  BY <1>2, QuietKeeps
<1>4. /\ rc'[held] = 0 /\ \A b \in Buffers : b # held => rc'[b] = rc[b]
      /\ rc' \in [Buffers -> Nat]
  <2>1. rc \in [Buffers -> Nat] /\ rc' = [rc EXCEPT ![held] = @ - 1]
    BY DEF CInv, Types, GpuXor, ReleaseRef
  <2> QED
    BY <1>1, <2>1
<1>5. Types'
  BY <1>1, <1>4 DEF CInv, Types, GpuXor, searchVars, readVars, createVars, walkVars
<1>6. Place'
  BY <1>1, <1>3 DEF CInv, Place, GpuXor, readVars, createVars, hashVars
<1>7. Counted'
  <2>1. ASSUME NEW b \in Buffers PROVE rc'[b] \in {0, 1}
    BY <1>1, <1>4 DEF CInv, Counted, One, Attempt
  <2> QED
    BY <1>1, <2>1 DEF Counted, One, Attempt
<1> QED
  BY <1>3, <1>5, <1>6, <1>7 DEF CInv

LEMMA ReadAbortsStep == ASSUME CInv, ReadAborts, UNCHANGED createVars PROVE CInv'
<1>1. /\ rpc = "read" /\ rpc' = "finished" /\ held \in Buffers /\ ~ post /\ post' = post
      /\ held' = NoBuffer /\ ok' = FALSE /\ NoBuffer \notin Buffers
  BY DEF CInv, Place, ReadAborts, Buffers, NoBuffer
<1>2. Quiet
  BY <1>1 DEF Quiet, ReadAborts
<1>3. /\ InFlight' = InFlight
      /\ \A b : Others(b)' = Others(b) /\ Others(b) \in Nat
      /\ Order' /\ Walk' /\ Tokens' /\ Hashing'
  BY <1>2, QuietKeeps
<1>4. ASSUME NEW b \in Buffers PROVE rc[b] = Others(b) + One(held = b)
  BY <1>1, <1>3 DEF CInv, Counted, Refs, One, Attempt
<1>5. /\ rc'[held] = rc[held] - 1 /\ \A b \in Buffers : b # held => rc'[b] = rc[b]
      /\ rc' \in [Buffers -> Nat]
  <2>1. rc \in [Buffers -> Nat] /\ rc' = [rc EXCEPT ![held] = @ - 1]
    BY DEF CInv, Types, ReadAborts, ReleaseRef
  <2>2. rc[held] >= 1
    BY <1>1, <1>3, <1>4 DEF One
  <2> QED
    BY <1>1, <2>1, <2>2
<1>6. Types'
  BY <1>1, <1>5 DEF CInv, Types, ReadAborts, searchVars, createVars, walkVars
<1>7. Place'
  BY <1>1, <1>3 DEF CInv, Place, ReadAborts, createVars, hashVars
<1>8. Counted'
  <2>1. ASSUME NEW b \in Buffers PROVE rc'[b] = Refs(b)'
    <3>1. Refs(b)' = Others(b)
      BY <1>1, <1>3, <2>1 DEF Refs, One, Attempt
    <3> QED
      BY <1>1, <1>3, <1>4, <1>5, <3>1 DEF One
  <2> QED
    BY <1>1, <2>1 DEF Counted
<1> QED
  BY <1>3, <1>6, <1>7, <1>8 DEF CInv

\* The buffer held is neither a token's nor kept nor at a cursor.
LEMMA HeldAlone ==
    ASSUME CInv, held \in Buffers
    PROVE  /\ \A i \in InFlight : bufOf[i] \in Buffers /\ bufOf[i] # held
           /\ \A d \in deferred : d[3] \in Buffers /\ d[3] # held
           /\ \A f \in Files : hasher[f] # NoOne => cursor[f] \in Buffers /\ cursor[f] # held
  BY DEF CInv, Types, Tokens, Hashing, HashTypes, Kept, Hashers, AtCursor, InFlight

\* The walk names the block and goes on to the next.
LEMMA WalkGoesOn ==
    ASSUME CInv, CreateFetch
    PROVE  /\ src' = [src EXCEPT ![held] = Label(nextblock)]
           /\ Label(nextblock) \in Files \X Nat
           /\ sourcefile' \in 1 .. Len(SourceFiles) + 1 /\ sourceindex' \in Nat
           /\ Walk'
<1> DEFINE f == SourceFiles[sourcefile]
<1>1. /\ nextblock' = nextblock + 1 /\ nextblock < NumBlocks /\ nextblock \in Nat
  BY DEF CreateFetch, Fetch, CInv, Types
<1>2. /\ sourcefile \in 1 .. Len(SourceFiles)
      /\ nextblock = FirstBlock(f) + sourceindex
      /\ sourceindex < FileBlockCount[f] /\ sourceindex \in Nat
  BY <1>1, Layout DEF CInv, Types, Walk
<1>3. /\ SourceFiles \in Seq(Files) /\ f \in Files /\ Len(SourceFiles) \in Nat
      /\ FirstBlock(f) \in Nat /\ FileBlockCount[f] \in Nat
  <2>1. SourceFiles \in Seq(Files) /\ f \in Files
    BY <1>2, CreateAssumption DEF CreateAssumption
  <2> QED
    BY <2>1, Layout
<1>4. sourceindex \in NumberOf(f) /\ nextblock = BlockAt(f, sourceindex)
  BY <1>2, <1>3 DEF NumberOf, BlockAt
<1>5. Label(nextblock) = <<f, sourceindex>>
  BY <1>3, <1>4, Layout DEF Label
<1>6. /\ src' = [src EXCEPT ![held] = Label(nextblock)]
      /\ Label(nextblock) \in Files \X Nat
  <2>1. src' = [src EXCEPT ![held] = <<f, sourceindex>>]
    BY DEF CreateFetch
  <2>2. <<f, sourceindex>> \in Files \X Nat
    BY <1>2, <1>3
  <2> QED
    BY <1>5, <2>1, <2>2
<1>7. CASE WalkedThrough(f)
  <2>1. sourceindex' = 0 /\ sourcefile' = sourcefile + 1
    BY <1>7 DEF CreateFetch
  <2>2. nextblock' = FirstBlock(f) + FileBlockCount[f]
    BY <1>1, <1>2, <1>3, <1>7 DEF WalkedThrough
  <2>3. CASE sourcefile = Len(SourceFiles)
    <3>1. nextblock' = NumBlocks
      BY <2>2, <2>3, CreateAssumption DEF CreateAssumption, LastFile
    <3>2. Walk'
      BY <3>1 DEF Walk
    <3>3. sourcefile + 1 \in 1 .. Len(SourceFiles) + 1
      BY <1>2, <1>3
    <3> QED
      BY <1>6, <2>1, <3>2, <3>3
  <2>4. CASE sourcefile # Len(SourceFiles)
    <3>1. sourcefile \in 1 .. Len(SourceFiles) - 1 /\ sourcefile + 1 \in 1 .. Len(SourceFiles)
      BY <1>2, <1>3, <2>4
    <3>2. FirstBlock(SourceFiles[sourcefile + 1]) = nextblock'
      BY <2>2, <3>1, CreateAssumption DEF CreateAssumption
    <3>3. SourceFiles[sourcefile + 1] \in Files
      BY <1>3, <3>1
    <3>4. /\ FirstBlock(SourceFiles[sourcefile + 1]) \in Nat
          /\ 0 < FileBlockCount[SourceFiles[sourcefile + 1]]
      BY <3>3, Layout
    <3>5. Walk'
      BY <2>1, <3>1, <3>2, <3>4 DEF Walk
    <3>6. sourcefile + 1 \in 1 .. Len(SourceFiles) + 1
      BY <1>2, <1>3
    <3> QED
      BY <1>6, <2>1, <3>5, <3>6
  <2> QED
    BY <2>3, <2>4
<1>8. CASE ~ WalkedThrough(f)
  <2>1. sourceindex' = sourceindex + 1 /\ sourcefile' = sourcefile
    BY <1>8 DEF CreateFetch
  <2>2. sourceindex + 1 < FileBlockCount[f]
    BY <1>2, <1>3, <1>8 DEF WalkedThrough
  <2>3. nextblock' = FirstBlock(f) + sourceindex'
    BY <1>1, <1>2, <1>3, <2>1
  <2>4. Walk'
    BY <1>2, <2>1, <2>2, <2>3 DEF Walk
  <2>5. sourcefile \in 1 .. Len(SourceFiles) + 1 /\ sourceindex + 1 \in Nat
    BY <1>2, <1>3
  <2> QED
    BY <1>6, <2>1, <2>4, <2>5
<1> QED
  BY <1>7, <1>8

LEMMA CreateFetchStep == ASSUME CInv, CreateFetch PROVE CInv'
<1>1. /\ rpc = "fetch" /\ rpc' = "read" /\ nextblock < NumBlocks /\ nextblock' = nextblock + 1
      /\ UNCHANGED <<ok, rc, content, post, held, stage, bufOf, off,
                     next, deferred, hasher, cursor, hashed>>
      /\ nextblock \in Nat /\ held \in Buffers /\ ~ post /\ ok
  BY DEF CreateFetch, Fetch, searchVars, hashVars, CInv, Types, Place
<1>2. /\ src' = [src EXCEPT ![held] = Label(nextblock)]
      /\ Label(nextblock) \in Files \X Nat
      /\ sourcefile' \in 1 .. Len(SourceFiles) + 1 /\ sourceindex' \in Nat
      /\ Walk'
  BY WalkGoesOn
<1>3. src'[held] = Label(nextblock) /\ \A b \in Buffers : b # held => src'[b] = src[b]
  BY <1>1, <1>2 DEF CInv, Types
<1>4. /\ \A i \in InFlight : src'[bufOf[i]] = src[bufOf[i]]
      /\ \A d \in deferred : src'[d[3]] = src[d[3]]
      /\ \A f \in Files : hasher[f] # NoOne => src'[cursor[f]] = src[cursor[f]]
  BY <1>1, <1>3, HeldAlone
<1>5. InFlight' = InFlight
  BY <1>1 DEF InFlight
<1>6. Types'
  <2>1. src' \in [Buffers -> Files \X Nat]
    BY <1>2 DEF CInv, Types
  <2>2. nextblock' \in 0 .. NumBlocks
    BY <1>1, Layout
  <2> QED
    BY <1>1, <1>2, <2>1, <2>2 DEF CInv, Types
<1>7. Place'
  BY <1>1, <1>5 DEF CInv, Place
<1>8. Order'
  <2>1. \A i \in Blocks : i < nextblock => stage[i] # "unread"
    BY <1>1 DEF CInv, Order
  <2>2. nextblock \in Blocks
    BY <1>1, Layout DEF Blocks
  <2>3. \A i \in Blocks : i \in Int
    BY DEF Blocks
  <2>4. \A i \in Blocks : i >= nextblock => stage[i] = "unread"
    BY DEF CInv, Order
  <2>5. nextblock' - 1 = nextblock /\ nextblock' > 0
    BY <1>1
  <2>6. \A i \in Blocks : i >= nextblock' => stage'[i] = "unread"
    BY <1>1, <2>3, <2>4
  <2>7. \A i \in Blocks : i < nextblock' /\ stage'[i] = "unread" => i = nextblock
    BY <1>1, <2>1, <2>3
  <2>8. stage'[nextblock] = "unread" /\ src'[held] = Label(nextblock)
    BY <1>1, <1>3, <2>2, <2>4
  <2>9. /\ \A i \in Blocks : i >= nextblock' => stage'[i] = "unread"
        /\ \A i \in Blocks : i < nextblock' /\ stage'[i] = "unread" =>
                                 i = nextblock' - 1 /\ (ok' => rpc' = "read")
    BY <1>1, <2>5, <2>6, <2>7
  <2>10. /\ nextblock' > 0 /\ stage'[nextblock' - 1] = "unread"
         /\ src'[held'] = Label(nextblock' - 1)
    BY <1>1, <2>5, <2>8
  <2> QED
    BY <2>9, <2>10 DEF Order, Label, Number
<1>9. Tokens'
  BY <1>1, <1>4, <1>5 DEF CInv, Tokens
<1>10. Hashing'
  <2>1. Kept' /\ KeptOnce'
    BY <1>1, <1>4 DEF CInv, Hashing, Kept, KeptOnce
  <2>2. Hashers'
    BY <1>1, <1>4 DEF CInv, Hashing, Hashers, AtCursor
  <2>3. HashTypes' /\ Fed' /\ Through'
    BY <1>1 DEF CInv, Hashing, HashTypes, Fed, Through, IsKept, IsNext
  <2> QED
    BY <2>1, <2>2, <2>3 DEF Hashing
<1>11. Counted'
  BY <1>1, <1>5 DEF CInv, Counted, Refs, Others, One, HasToken, KeepsIt, TookIt, Attempt
<1> QED
  BY <1>2, <1>6, <1>7, <1>8, <1>9, <1>10, <1>11 DEF CInv

\* The buffer changes hands, from the read stage to the token of the block.
LEMMA ReadBlockStep == ASSUME CInv, ReadBlock("hash"), UNCHANGED createVars PROVE CInv'
<1> DEFINE r == nextblock - 1
<1>1. /\ rpc = "read" /\ rpc' = "idle" /\ held \in Buffers /\ held' = NoBuffer /\ ~ post /\ ok
      /\ NoBuffer \notin Buffers
      /\ UNCHANGED <<ok, rc, post, nextblock, off, sourcefile, sourceindex, src,
                     next, deferred, hasher, cursor, hashed>>
      /\ content' = [content EXCEPT ![held] = r]
      /\ stage' = [stage EXCEPT ![r] = "hash"]
      /\ bufOf' = [bufOf EXCEPT ![r] = held]
  BY DEF ReadBlock, Reading, searchVars, createVars, walkVars, hashVars, CInv, Types, Place,
     Buffers, NoBuffer
<1>2. r \in Blocks /\ stage[r] = "unread" /\ src[held] = Label(r)
  <2>1. nextblock > 0 /\ nextblock \in 0 .. NumBlocks /\ stage[r] = "unread" /\ src[held] = Label(r)
    BY <1>1 DEF CInv, Types, Order
  <2> QED
    BY <2>1, Layout DEF Blocks
<1>3. /\ stage'[r] = "hash" /\ \A i \in Blocks : i # r => stage'[i] = stage[i]
      /\ bufOf'[r] = held /\ \A i \in Blocks : i # r => bufOf'[i] = bufOf[i]
      /\ content'[held] = r /\ \A b \in Buffers : b # held => content'[b] = content[b]
  BY <1>1, <1>2 DEF CInv, Types
<1>4. InFlight' = InFlight \cup {r} /\ r \notin InFlight /\ InFlight \subseteq Blocks
  BY <1>2, <1>3 DEF InFlight
<1>5. Types'
  <2>1. r \in Nat
    BY <1>2 DEF Blocks
  <2> QED
    BY <1>1, <1>2, <2>1 DEF CInv, Types
<1>6. Place'
  BY <1>1, <1>4 DEF CInv, Place
<1>7. Order'
  <2>1. \A i \in Blocks : i >= nextblock => i # r
    BY <1>2 DEF Blocks, CInv, Types
  <2> QED
    BY <1>1, <1>2, <1>3, <2>1 DEF CInv, Order
<1>8. Walk'
  BY <1>1 DEF CInv, Walk
<1>9. Tokens'
  <2>1. ASSUME NEW i \in InFlight
        PROVE  content'[bufOf'[i]] = i /\ src[bufOf'[i]] = Label(i) /\ bufOf'[i] # NoBuffer
    BY <1>1, <1>3, <1>4, HeldAlone DEF CInv, Tokens
  <2> QED
    BY <1>1, <1>2, <1>3, <1>4, <2>1 DEF Tokens
<1>10. Kept' /\ KeptOnce'
  <2>1. ASSUME NEW d \in deferred
        PROVE  /\ content'[d[3]] = content[d[3]] /\ d[3] # NoBuffer
               /\ stage'[BlockAt(d[1], d[2])] = stage[BlockAt(d[1], d[2])]
    <3>1. BlockAt(d[1], d[2]) \in Blocks /\ BlockAt(d[1], d[2]) # r
      BY <1>2, Layout DEF CInv, Hashing, HashTypes, Kept, Past
    <3> QED
      BY <1>1, <1>3, <3>1, HeldAlone
  <2> QED
    BY <1>1, <2>1 DEF CInv, Hashing, Kept, KeptOnce
<1>11. Hashers'
  <2>1. ASSUME NEW f \in Files, hasher[f] # NoOne PROVE AtCursor(f)'
    <3>1. AtCursor(f)
      BY <2>1 DEF CInv, Hashing, Hashers
    <3>2. hasher[f] # r /\ hasher[f] \in Blocks /\ cursor[f] \in Buffers /\ cursor[f] # held
      BY <1>2, <3>1 DEF AtCursor
    <3>3. stage[BlockAt(f, next[f])] \in Past => stage'[BlockAt(f, next[f])] \in Past
      <4>1. BlockAt(f, next[f]) \in Blocks
        BY <3>1, Layout DEF AtCursor
      <4> QED
        BY <1>2, <1>3, <4>1 DEF Past
    <3> QED
      BY <1>1, <1>3, <3>1, <3>2, <3>3 DEF AtCursor
  <2> QED
    BY <1>1, <1>3, <2>1 DEF CInv, Hashing, Hashers
<1>12. HashTypes' /\ Fed'
  BY <1>1 DEF CInv, Hashing, HashTypes, Fed
<1>13. Through'
  BY <1>1, <1>2, <1>3 DEF CInv, Hashing, Through, IsKept, IsNext, Past
<1>14. Counted'
  <2> SUFFICES ASSUME NEW b \in Buffers PROVE rc[b] = Refs(b)'
    BY <1>1 DEF Counted
  <2>1. rc[b] = One(HasToken(b)) + One(KeepsIt(b)) + One(TookIt(b)) + One(held = b)
    <3>1. rc[b] = Refs(b) /\ ~ Attempt(b)
      BY <1>1 DEF CInv, Counted, Attempt
    <3> QED
      BY <3>1 DEF Refs, Others, One
  <2>2. ~ Attempt(b)' /\ held' # b
    BY <1>1 DEF Attempt
  <2>3. HasToken(b)' <=> HasToken(b) \/ held = b
    BY <1>3, <1>4 DEF HasToken
  <2>4. ~ (HasToken(b) /\ held = b)
    BY <1>1, HeldAlone DEF HasToken
  <2>5. KeepsIt(b)' <=> KeepsIt(b)
    BY <1>1 DEF KeepsIt
  <2>6. TookIt(b)' <=> TookIt(b)
    <3>1. \A f \in Files : hasher[f] # NoOne => bufOf'[hasher[f]] = bufOf[hasher[f]]
      BY <1>2, <1>3 DEF CInv, Hashing, Hashers, AtCursor
    <3> QED
      BY <1>1, <3>1 DEF TookIt
  <2> QED
    BY <2>1, <2>2, <2>3, <2>4, <2>5, <2>6 DEF Refs, Others, One
<1> QED
  BY <1>5, <1>6, <1>7, <1>8, <1>9, <1>10, <1>11, <1>12, <1>13, <1>14 DEF CInv, Hashing

-----------------------------------------------------------------------------
(* The parallel stage.                                                     *)

\* What a thread finds when it gets the entry of its block's file.
LEMMA AtHash ==
    ASSUME CInv, NEW i \in Blocks, MayHash(i)
    PROVE  /\ HashFile(i) = FileOf[i] /\ HashIndex(i) = Number(i)
           /\ FileOf[i] \in Files /\ bufOf[i] \in Buffers /\ i \in InFlight /\ ~ post
           /\ stage[i] = "hash" /\ hasher[FileOf[i]] = NoOne
           /\ NextIndex(FileOf[i]) = Len(hashed[FileOf[i]])
           /\ NextIndex(FileOf[i]) \in Nat /\ Number(i) \in NumberOf(FileOf[i])
           /\ NextIndex(FileOf[i]) <= Number(i)
           /\ next[FileOf[i]] # NoEntry => next[FileOf[i]] = NextIndex(FileOf[i])
<1> DEFINE f == FileOf[i]
<1>1. i \in InFlight /\ stage[i] = "hash" /\ ~ post /\ bufOf[i] \in Buffers
  BY DEF MayHash, InFlight, CInv, Types, Place
<1>2. f \in Files /\ Number(i) \in NumberOf(f)
      /\ FileBlockCount[f] \in Nat /\ FileBlockCount[f] > 0
  BY Layout
<1>3. HashFile(i) = f /\ HashIndex(i) = Number(i)
  <2>1. src[bufOf[i]] = <<f, Number(i)>>
    BY <1>1 DEF CInv, Tokens, Label
  <2> QED
    BY <2>1 DEF HashFile, HashIndex
<1>4. hashed[f] \in Seq(Blocks) /\ Len(hashed[f]) \in Nat
  BY <1>2 DEF CInv, Hashing, HashTypes
<1>5. Number(i) \in Nat /\ Number(i) < FileBlockCount[f]
  BY <1>2 DEF NumberOf
<1>6. Number(i) >= Len(hashed[f])
  BY <1>1 DEF CInv, Hashing, Through
<1>7. NextIndex(f) = Len(hashed[f])
  <2>1. CASE next[f] = NoEntry
    <3>1. Len(hashed[f]) \in {0, FileBlockCount[f]}
      BY <1>2, <2>1 DEF CInv, Hashing, Fed
    <3>2. Len(hashed[f]) = 0
      BY <1>2, <1>4, <1>5, <1>6, <3>1
    <3> QED
      BY <2>1, <3>2 DEF NextIndex
  <2>2. CASE next[f] # NoEntry
    BY <1>2, <2>2 DEF CInv, Hashing, Fed, NextIndex
  <2> QED
    BY <2>1, <2>2
<1>8. hasher[f] = NoOne
  BY <1>3 DEF MayHash
<1> QED
  BY <1>1, <1>2, <1>3, <1>4, <1>6, <1>7, <1>8 DEF NextIndex

LEMMA HashNowStep == ASSUME CInv, NEW i \in Blocks, HashNow(i) PROVE CInv'
<1> DEFINE f == FileOf[i]
<1>0. MayHash(i)
  BY DEF HashNow
<1>1. /\ HashFile(i) = f /\ HashIndex(i) = Number(i)
      /\ f \in Files /\ bufOf[i] \in Buffers /\ i \in InFlight /\ ~ post
      /\ stage[i] = "hash" /\ hasher[f] = NoOne
      /\ NextIndex(f) = Len(hashed[f])
      /\ Number(i) \in NumberOf(f)
      /\ next[f] # NoEntry => next[f] = NextIndex(f)
  BY <1>0, AtHash
<1>2. /\ NextIndex(f) = Number(i)
      /\ next' = [next EXCEPT ![f] = Number(i)]
      /\ hasher' = [hasher EXCEPT ![f] = i]
      /\ cursor' = [cursor EXCEPT ![f] = bufOf[i]]
      /\ stage' = [stage EXCEPT ![i] = "hashing"]
      /\ UNCHANGED <<ok, rc, content, rpc, post, off, held, nextblock, bufOf,
                     sourcefile, sourceindex, src, deferred, hashed>>
  BY <1>1 DEF HashNow, poolVars, searchVars, readVars, walkVars
<1>3. /\ stage'[i] = "hashing" /\ \A j \in Blocks : j # i => stage'[j] = stage[j]
      /\ next'[f] = Number(i) /\ \A g \in Files : g # f => next'[g] = next[g]
      /\ hasher'[f] = i /\ \A g \in Files : g # f => hasher'[g] = hasher[g]
      /\ cursor'[f] = bufOf[i] /\ \A g \in Files : g # f => cursor'[g] = cursor[g]
  BY <1>1, <1>2 DEF CInv, Types, Hashing, HashTypes
<1>4. /\ Number(i) \in Nat /\ Number(i) < FileBlockCount[f] /\ BlockAt(f, Number(i)) = i
      /\ NoEntry \notin Nat /\ NoOne \notin Blocks
  BY <1>1, Layout DEF NumberOf, NoEntry, NoOne, Blocks
<1>5. InFlight' = InFlight
  BY <1>1, <1>3 DEF InFlight
<1>6. Types'
  <2>1. stage' \in [Blocks -> {"unread", "hash", "hashing", "process", "release", "done"}]
    BY <1>2 DEF CInv, Types
  <2> QED
    BY <1>2, <2>1 DEF CInv, Types
<1>7. Place' /\ Walk'
  BY <1>2, <1>5 DEF CInv, Place, Walk
<1>8. Order'
  <2>1. \A j \in Blocks : stage'[j] = "unread" <=> stage[j] = "unread"
    BY <1>1, <1>3
  <2>2. rpc = "read" => nextblock - 1 \in Blocks
    BY Layout DEF CInv, Types, Order, Blocks
  <2> QED
    BY <1>2, <2>1, <2>2 DEF CInv, Order, Label, Number
<1>9. Tokens'
  BY <1>2, <1>5 DEF CInv, Tokens, Label, Number
<1>10. Kept' /\ KeptOnce'
  <2>1. ASSUME NEW d \in deferred
        PROVE  next'[d[1]] = next[d[1]] /\ stage'[BlockAt(d[1], d[2])] \in Past
    <3>1. d[1] \in Files /\ next[d[1]] # NoEntry /\ d[2] \in NumberOf(d[1])
          /\ stage[BlockAt(d[1], d[2])] \in Past
      BY DEF CInv, Hashing, HashTypes, Kept
    <3>2. BlockAt(d[1], d[2]) \in Blocks /\ BlockAt(d[1], d[2]) # i
      BY <1>1, <3>1, Layout DEF Past
    <3> QED
      BY <1>1, <1>2, <1>3, <3>1, <3>2
  <2> QED
    BY <1>2, <2>1 DEF CInv, Hashing, Kept, KeptOnce
<1>11. Hashers'
  <2>1. ASSUME NEW j \in Blocks, stage'[j] = "hashing" PROVE hasher'[FileOf[j]] = j
    <3>1. CASE j = i
      BY <1>3, <3>1
    <3>2. CASE j # i
      <4>1. hasher[FileOf[j]] = j /\ FileOf[j] \in Files
        BY <1>3, <2>1, <3>2, Layout DEF CInv, Hashing, Hashers
      <4> QED
        BY <1>1, <1>3, <1>4, <4>1
    <3> QED
      BY <3>1, <3>2
  <2>2. AtCursor(f)'
    <3>1. content[bufOf[i]] = i /\ src[bufOf[i]] = <<f, Number(i)>> /\ bufOf[i] # held
      BY <1>1 DEF CInv, Tokens, Label
    <3>2. /\ hasher'[f] \in Blocks /\ stage'[hasher'[f]] = "hashing"
          /\ Number(hasher'[f]) <= next'[f] /\ hasher'[f] = BlockAt(f, next'[f])
      BY <1>3, <1>4
    <3> QED
      BY <1>1, <1>2, <1>3, <1>4, <3>1, <3>2 DEF AtCursor, BlockAt, Number
  <2>3. ASSUME NEW g \in Files, g # f, hasher[g] # NoOne PROVE AtCursor(g)'
    <3>1. AtCursor(g)
      BY <2>3 DEF CInv, Hashing, Hashers
    <3>2. hasher[g] # i /\ BlockAt(g, next[g]) \in Blocks
      BY <2>3, <3>1, Layout DEF AtCursor
    <3>3. stage[BlockAt(g, next[g])] \in Past => stage'[BlockAt(g, next[g])] \in Past
      BY <1>1, <1>3, <3>2 DEF Past
    <3>4. stage'[hasher[g]] = "hashing"
      BY <1>3, <3>1, <3>2 DEF AtCursor
    <3> QED
      BY <1>2, <1>3, <2>3, <3>1, <3>3, <3>4 DEF AtCursor, BlockAt, Number
  <2> QED
    BY <1>3, <2>1, <2>2, <2>3 DEF Hashers
<1>12. HashTypes'
  BY <1>1, <1>2, <1>4 DEF CInv, Hashing, HashTypes
<1>13. Fed'
  <2>1. ASSUME NEW g \in Files
        PROVE  /\ \A k \in 1 .. Len(hashed[g]) : hashed[g][k] = BlockAt(g, k - 1)
               /\ next'[g] # NoEntry => next'[g] = Len(hashed[g]) /\ next'[g] < FileBlockCount[g]
               /\ next'[g] = NoEntry => Len(hashed[g]) \in {0, FileBlockCount[g]}
    <3>1. /\ \A k \in 1 .. Len(hashed[g]) : hashed[g][k] = BlockAt(g, k - 1)
          /\ next[g] # NoEntry => next[g] = Len(hashed[g]) /\ next[g] < FileBlockCount[g]
          /\ next[g] = NoEntry => Len(hashed[g]) \in {0, FileBlockCount[g]}
      BY DEF CInv, Hashing, Fed
    <3>2. CASE g = f
      <4>1. next'[f] = Len(hashed[f])
        BY <1>1, <1>2, <1>3
      <4>2. next'[f] < FileBlockCount[f] /\ next'[f] # NoEntry
        BY <1>3, <1>4
      <4> QED
        BY <3>1, <3>2, <4>1, <4>2
    <3>3. CASE g # f
      BY <1>3, <3>1, <3>3
    <3> QED
      BY <3>2, <3>3
  <2> QED
    BY <1>2, <2>1 DEF Fed, BlockAt
<1>14. Through'
  <2>1. ASSUME NEW j \in Blocks
        PROVE  /\ stage'[j] \in {"unread", "hash"} => Number(j) >= Len(hashed[FileOf[j]])
               /\ stage'[j] \in Past =>
                      Number(j) < Len(hashed[FileOf[j]]) \/ IsKept(j) \/ IsNext(j)'
    <3>1. IsNext(j) => IsNext(j)'
      BY <1>1, <1>3, Layout DEF IsNext, Number
    <3>2. stage'[j] \in {"unread", "hash"} \cup Past => stage'[j] = stage[j]
      BY <1>3 DEF Past
    <3> QED
      BY <3>1, <3>2 DEF CInv, Hashing, Through
  <2> QED
    BY <1>2, <2>1 DEF Through, IsKept, Number
<1>15. Counted'
  <2>1. \A b : TookIt(b)' <=> TookIt(b)
    BY <1>1, <1>2, <1>3 DEF TookIt
  <2> QED
    BY <1>2, <1>5, <2>1 DEF CInv, Counted, Refs, Others, One, HasToken, KeepsIt, Attempt
<1> QED
  BY <1>6, <1>7, <1>8, <1>9, <1>10, <1>11, <1>12, <1>13, <1>14, <1>15 DEF CInv, Hashing

\* The block is early: what hashing will go on with has not come by.
LEMMA KeepForLaterStep == ASSUME CInv, NEW i \in Blocks, KeepForLater(i) PROVE CInv'
<1> DEFINE f == FileOf[i]
<1> DEFINE n == NextIndex(f)
<1> DEFINE new == <<f, Number(i), bufOf[i]>>
<1>0. MayHash(i)
  BY DEF KeepForLater
<1>1. /\ HashFile(i) = f /\ HashIndex(i) = Number(i)
      /\ f \in Files /\ bufOf[i] \in Buffers /\ i \in InFlight /\ ~ post
      /\ stage[i] = "hash" /\ hasher[f] = NoOne
      /\ n = Len(hashed[f]) /\ n \in Nat
      /\ Number(i) \in NumberOf(f) /\ n <= Number(i)
      /\ next[f] # NoEntry => next[f] = n
  BY <1>0, AtHash
<1>2. /\ Number(i) \in Nat /\ Number(i) < FileBlockCount[f] /\ BlockAt(f, Number(i)) = i
      /\ FileBlockCount[f] \in Nat /\ NoEntry \notin Nat /\ NoOne \notin Blocks
  BY <1>1, Layout DEF NumberOf, NoEntry, NoOne, Blocks
<1>3. n < Number(i)
  <2>1. n # Number(i)
    BY <1>1 DEF KeepForLater
  <2> QED
    BY <1>1, <1>2, <2>1
<1>4. /\ next' = [next EXCEPT ![f] = n]
      /\ stage' = [stage EXCEPT ![i] = "process"]
      /\ deferred' = deferred \cup {new}
      /\ rc' = [rc EXCEPT ![bufOf[i]] = @ + 1]
      /\ UNCHANGED <<ok, content, rpc, post, off, held, nextblock, bufOf,
                     sourcefile, sourceindex, src, hasher, cursor, hashed>>
  BY <1>1, <1>3 DEF KeepForLater, RefToKeep, searchVars, readVars, walkVars
<1>5. /\ stage'[i] = "process" /\ \A j \in Blocks : j # i => stage'[j] = stage[j]
      /\ next'[f] = n /\ \A g \in Files : g # f => next'[g] = next[g]
  BY <1>1, <1>4 DEF CInv, Types, Hashing, HashTypes
<1>6. /\ rc'[bufOf[i]] = rc[bufOf[i]] + 1
      /\ \A b \in Buffers : b # bufOf[i] => rc'[b] = rc[b]
      /\ rc' \in [Buffers -> Nat]
  BY <1>1, <1>4, SMTT(30) DEF CInv, Types
<1>7. InFlight' = InFlight
  BY <1>1, <1>5 DEF InFlight
<1>8. content[bufOf[i]] = i /\ src[bufOf[i]] = <<f, Number(i)>> /\ bufOf[i] # held
  BY <1>1 DEF CInv, Tokens, Label
<1>9. ASSUME NEW d \in deferred
      PROVE  /\ d[1] \in Files /\ next'[d[1]] = next[d[1]]
             /\ BlockAt(d[1], d[2]) \in Blocks /\ BlockAt(d[1], d[2]) # i
             /\ stage'[BlockAt(d[1], d[2])] \in Past
  <2>1. d[1] \in Files /\ next[d[1]] # NoEntry /\ d[2] \in NumberOf(d[1])
        /\ stage[BlockAt(d[1], d[2])] \in Past
    BY DEF CInv, Hashing, HashTypes, Kept
  <2>2. BlockAt(d[1], d[2]) \in Blocks /\ BlockAt(d[1], d[2]) # i
    BY <1>1, <2>1, Layout DEF Past
  <2> QED
    BY <1>1, <1>5, <2>1, <2>2
<1>10. Types'
  <2>1. stage' \in [Blocks -> {"unread", "hash", "hashing", "process", "release", "done"}]
    BY <1>4 DEF CInv, Types
  <2> QED
    BY <1>4, <1>6, <2>1 DEF CInv, Types
<1>11. Place' /\ Walk'
  BY <1>1, <1>4, <1>7 DEF CInv, Place, Walk
<1>12. Order'
  <2>1. \A j \in Blocks : stage'[j] = "unread" <=> stage[j] = "unread"
    BY <1>1, <1>5
  <2>2. rpc = "read" => nextblock - 1 \in Blocks
    BY Layout DEF CInv, Types, Order, Blocks
  <2> QED
    BY <1>4, <2>1, <2>2 DEF CInv, Order, Label, Number
<1>13. Tokens'
  BY <1>4, <1>7 DEF CInv, Tokens, Label, Number
<1>14. Kept'
  <2>1. ASSUME NEW d \in deferred
        PROVE  /\ d[2] \in NumberOf(d[1])
               /\ src[d[3]] = <<d[1], d[2]>> /\ content[d[3]] = BlockAt(d[1], d[2])
               /\ d[3] # held
               /\ next'[d[1]] # NoEntry /\ d[2] > next'[d[1]]
               /\ stage'[BlockAt(d[1], d[2])] \in Past
    BY <1>9 DEF CInv, Hashing, Kept
  <2>2. /\ new[2] \in NumberOf(new[1])
        /\ src[new[3]] = <<new[1], new[2]>> /\ content[new[3]] = BlockAt(new[1], new[2])
        /\ new[3] # held
        /\ next'[new[1]] # NoEntry /\ new[2] > next'[new[1]]
        /\ stage'[BlockAt(new[1], new[2])] \in Past
    BY <1>1, <1>2, <1>3, <1>5, <1>8 DEF Past
  <2>3. \A d \in deferred' : d \in deferred \/ d = new
    BY <1>4
  <2> HIDE DEF new
  <2> QED
    BY <1>4, <2>1, <2>2, <2>3 DEF Kept, NumberOf, BlockAt
<1>15. KeptOnce'
  <2>1. ASSUME NEW d \in deferred PROVE ~ (d[1] = f /\ d[2] = Number(i))
    BY <1>2, <1>9
  <2> QED
    BY <1>4, <2>1 DEF CInv, Hashing, KeptOnce
<1>16. Hashers'
  <2>1. ASSUME NEW g \in Files, hasher[g] # NoOne PROVE AtCursor(g)'
    <3>1. AtCursor(g) /\ g # f
      BY <1>1, <2>1 DEF CInv, Hashing, Hashers
    <3>2. hasher[g] # i /\ BlockAt(g, next[g]) \in Blocks
      BY <1>1, <3>1, Layout DEF AtCursor
    <3>3. stage[BlockAt(g, next[g])] \in Past => stage'[BlockAt(g, next[g])] \in Past
      BY <1>1, <1>5, <3>2 DEF Past
    <3>4. stage'[hasher[g]] = "hashing"
      BY <1>5, <3>1, <3>2 DEF AtCursor
    <3> QED
      BY <1>4, <1>5, <2>1, <3>1, <3>3, <3>4 DEF AtCursor, BlockAt, Number
  <2> QED
    BY <1>4, <1>5, <2>1 DEF CInv, Hashing, Hashers
<1>17. HashTypes'
  <2>1. new \in Files \X Nat \X Buffers
    BY <1>1, <1>2
  <2> QED
    BY <1>1, <1>4, <2>1 DEF CInv, Hashing, HashTypes
<1>18. Fed'
  <2>1. ASSUME NEW g \in Files
        PROVE  /\ \A k \in 1 .. Len(hashed[g]) : hashed[g][k] = BlockAt(g, k - 1)
               /\ next'[g] # NoEntry => next'[g] = Len(hashed[g]) /\ next'[g] < FileBlockCount[g]
               /\ next'[g] = NoEntry => Len(hashed[g]) \in {0, FileBlockCount[g]}
    <3>1. /\ \A k \in 1 .. Len(hashed[g]) : hashed[g][k] = BlockAt(g, k - 1)
          /\ next[g] # NoEntry => next[g] = Len(hashed[g]) /\ next[g] < FileBlockCount[g]
          /\ next[g] = NoEntry => Len(hashed[g]) \in {0, FileBlockCount[g]}
      BY DEF CInv, Hashing, Fed
    <3>2. CASE g = f
      <4>1. n < FileBlockCount[f]
        BY <1>1, <1>2, <1>3
      <4>2. next'[g] = Len(hashed[g]) /\ next'[g] < FileBlockCount[g] /\ next'[g] # NoEntry
        BY <1>1, <1>2, <1>5, <3>2, <4>1
      <4> QED
        BY <3>1, <4>2
    <3>3. CASE g # f
      BY <1>5, <3>1, <3>3
    <3> QED
      BY <3>2, <3>3
  <2> QED
    BY <1>4, <2>1 DEF Fed, BlockAt
<1>19. Through'
  <2>1. ASSUME NEW j \in Blocks
        PROVE  /\ stage'[j] \in {"unread", "hash"} => Number(j) >= Len(hashed[FileOf[j]])
               /\ stage'[j] \in Past =>
                      Number(j) < Len(hashed[FileOf[j]]) \/ IsKept(j)' \/ IsNext(j)'
    <3>1. IsNext(j) => IsNext(j)'
      BY <1>1, <1>4, <1>5, Layout DEF IsNext, Number
    <3>2. IsKept(j) => IsKept(j)'
      BY <1>4 DEF IsKept, Number
    <3>3. CASE j = i
      <4>1. IsKept(j)'
        BY <1>4, <3>3, new \in deferred', new[1] = f, new[2] = Number(i) DEF IsKept, Number
      <4> QED
        BY <1>5, <3>3, <4>1
    <3>4. CASE j # i
      BY <1>5, <3>1, <3>2, <3>4 DEF CInv, Hashing, Through
    <3> QED
      BY <3>3, <3>4
  <2> QED
    BY <1>4, <2>1 DEF Through, Number
<1>20. Counted'
  <2> SUFFICES ASSUME NEW b \in Buffers PROVE rc'[b] = Refs(b)'
    BY <1>1, <1>4 DEF Counted
  <2>1. rc[b] = Refs(b)
    BY <1>1 DEF CInv, Counted
  <2>2. /\ TookIt(b)' <=> TookIt(b)
        /\ HasToken(b)' <=> HasToken(b)
        /\ Attempt(b)' <=> Attempt(b)
        /\ held' = held
    BY <1>4, <1>7 DEF TookIt, HasToken, Attempt
  <2>3. CASE b = bufOf[i]
    <3>1. KeepsIt(b)' /\ ~ KeepsIt(b)
      <4>1. KeepsIt(b)'
        BY <1>4, <2>3, new \in deferred', new[3] = bufOf[i] DEF KeepsIt
      <4>2. ~ KeepsIt(b)
        BY <1>1, <1>9, <2>3, TokenOfKept DEF KeepsIt
      <4> QED
        BY <4>1, <4>2
    <3> QED
      BY <1>6, <2>1, <2>2, <2>3, <3>1 DEF Refs, Others, One
  <2>4. CASE b # bufOf[i]
    <3>1. KeepsIt(b)' <=> KeepsIt(b)
      BY <1>4, <2>4 DEF KeepsIt
    <3> QED
      BY <1>6, <2>1, <2>2, <2>4, <3>1 DEF Refs, Others, One
  <2> QED
    BY <2>3, <2>4
<1> QED
  BY <1>10, <1>11, <1>12, <1>13, <1>14, <1>15, <1>16, <1>17, <1>18, <1>19, <1>20 DEF CInv, Hashing

\* Hashing the buffer of file f at the cursor, whatever comes after it.
FeedsOne(i, f, c, b) ==
    /\ stage[i] = "hashing" /\ i \in InFlight /\ f = FileOf[i] /\ f \in Files
    /\ c = next[f] /\ b = cursor[f]
    /\ hasher[f] = i /\ AtCursor(f) /\ ~ post
    /\ bufOf[i] \in Buffers /\ b \in Buffers
    /\ c = Len(hashed[f]) /\ c \in Nat /\ c < FileBlockCount[f] /\ FileBlockCount[f] \in Nat
    /\ BlockAt(f, c) \in Blocks /\ FileOf[BlockAt(f, c)] = f /\ Number(BlockAt(f, c)) = c
    /\ hashed' = [hashed EXCEPT ![f] = Append(@, BlockAt(f, c))]
    /\ rc' = IF b = bufOf[i] THEN rc ELSE [rc EXCEPT ![b] = @ - 1]
    /\ UNCHANGED <<ok, content, rpc, post, off, held, nextblock, bufOf,
                   sourcefile, sourceindex, src>>
    /\ src[b] = <<f, c>>

LEMMA HashOneFeeds ==
    ASSUME CInv, NEW i \in Blocks, HashOne(i)
    PROVE  /\ FeedsOne(i, FileOf[i], next[FileOf[i]], cursor[FileOf[i]])
           /\ HashFile(i) = FileOf[i]
<1> DEFINE f == FileOf[i]
<1> DEFINE c == next[f]
<1> DEFINE b == cursor[f]
<1>1. stage[i] = "hashing" /\ i \in InFlight
  BY DEF HashOne, InFlight
<1>2. f \in Files /\ FileBlockCount[f] \in Nat
  BY Layout
<1>3. hasher[f] = i /\ AtCursor(f) /\ ~ post /\ bufOf[i] \in Buffers /\ b \in Buffers
  <2>1. hasher[f] = i
    BY <1>1 DEF CInv, Hashing, Hashers
  <2>2. i # NoOne
    BY Layout DEF NoOne, Blocks
  <2> QED
    BY <1>1, <1>2, <2>1, <2>2 DEF CInv, Types, Place, Hashing, Hashers, AtCursor
<1>4. c \in NumberOf(f) /\ src[b] = <<f, c>> /\ content[b] = BlockAt(f, c)
  BY <1>3 DEF AtCursor
<1>5. c \in Nat /\ c < FileBlockCount[f] /\ c # NoEntry
  BY <1>2, <1>4 DEF NumberOf, NoEntry
<1>6. c = Len(hashed[f])
  BY <1>2, <1>5 DEF CInv, Hashing, Fed
<1>7. BlockAt(f, c) \in Blocks /\ FileOf[BlockAt(f, c)] = f /\ Number(BlockAt(f, c)) = c
  BY <1>2, <1>4, Layout
<1>8. HashFile(i) = f
  <2>1. src[bufOf[i]] = <<f, Number(i)>>
    BY <1>1 DEF CInv, Tokens, Label
  <2> QED
    BY <2>1 DEF HashFile
<1>9. /\ hashed' = [hashed EXCEPT ![f] = Append(@, BlockAt(f, c))]
      /\ rc' = IF b = bufOf[i] THEN rc ELSE [rc EXCEPT ![b] = @ - 1]
      /\ UNCHANGED <<ok, content, rpc, post, off, held, nextblock, bufOf,
                     sourcefile, sourceindex, src>>
  BY <1>4, <1>8 DEF HashOne, DropKept, ReleaseRef, searchVars, readVars, walkVars
<1> QED
  BY <1>1, <1>2, <1>3, <1>4, <1>5, <1>6, <1>7, <1>8, <1>9 DEF FeedsOne

\* The hash of f is one block longer, which no block before the hashing stage is.
LEMMA FedOneMore ==
    ASSUME CInv, NEW i \in Blocks, NEW f, NEW c, NEW b, FeedsOne(i, f, c, b)
    PROVE  /\ hashed' \in [Files -> Seq(Blocks)]
           /\ Len(hashed'[f]) = c + 1 /\ \A g \in Files : g # f => hashed'[g] = hashed[g]
           /\ \A g \in Files : \A k \in 1 .. Len(hashed'[g]) : hashed'[g][k] = BlockAt(g, k - 1)
           /\ \A j \in Blocks : stage[j] \in {"unread", "hash"} =>
                                    Number(j) >= Len(hashed'[FileOf[j]])
           /\ \A j \in Blocks : stage[j] \in Past /\ ~ IsKept(j) =>
                                    \/ Number(j) < Len(hashed'[FileOf[j]])
                                    \/ IsNext(j) /\ FileOf[j] # f
           /\ Number(i) < Len(hashed'[f])
<1> USE DEF FeedsOne
<1>1. hashed \in [Files -> Seq(Blocks)]
  BY DEF CInv, Hashing, HashTypes
<1>2. /\ hashed'[f] = Append(hashed[f], BlockAt(f, c))
      /\ \A g \in Files : g # f => hashed'[g] = hashed[g]
      /\ hashed[f] \in Seq(Blocks)
  BY <1>1
<1>3. hashed' \in [Files -> Seq(Blocks)]
  BY <1>1, <1>2
<1>4. Len(hashed'[f]) = c + 1 /\ \A k \in 1 .. c : hashed'[f][k] = hashed[f][k]
      /\ hashed'[f][c + 1] = BlockAt(f, c)
  BY <1>2
<1>5. ASSUME NEW g \in Files, NEW k \in 1 .. Len(hashed'[g]) PROVE hashed'[g][k] = BlockAt(g, k - 1)
  <2>1. CASE g # f
    BY <1>2, <1>5, <2>1 DEF CInv, Hashing, Fed
  <2>2. CASE g = f /\ k \in 1 .. c
    BY <1>4, <2>2 DEF CInv, Hashing, Fed
  <2>3. CASE g = f /\ k = c + 1
    BY <1>4, <2>3
  <2> QED
    BY <1>4, <1>5, <2>1, <2>2, <2>3
<1>6. ASSUME NEW j \in Blocks, stage[j] \in {"unread", "hash"}
      PROVE  Number(j) >= Len(hashed'[FileOf[j]])
  <2>1. Number(j) >= Len(hashed[FileOf[j]]) /\ FileOf[j] \in Files /\ Number(j) \in Int
        /\ BlockAt(FileOf[j], Number(j)) = j
    BY <1>6, Layout DEF CInv, Hashing, Through, NumberOf
  <2>2. CASE FileOf[j] = f
    <3>1. j # BlockAt(f, c)
      BY <1>6 DEF AtCursor, Past
    <3>2. Number(j) # c
      BY <2>1, <2>2, <3>1
    <3> QED
      BY <1>4, <2>1, <2>2, <3>2
  <2> QED
    BY <1>2, <2>1, <2>2
<1>7. ASSUME NEW j \in Blocks, stage[j] \in Past, ~ IsKept(j)
      PROVE  Number(j) < Len(hashed'[FileOf[j]]) \/ (IsNext(j) /\ FileOf[j] # f)
  <2>1. FileOf[j] \in Files /\ Number(j) \in Int
        /\ (Number(j) < Len(hashed[FileOf[j]]) \/ IsNext(j))
    BY <1>7, Layout DEF CInv, Hashing, Through, NumberOf
  <2>2. CASE FileOf[j] = f
    <3>1. Number(j) < c \/ Number(j) = c
      BY <2>1, <2>2 DEF IsNext
    <3> QED
      BY <1>4, <2>1, <2>2, <3>1
  <2> QED
    BY <1>2, <2>1, <2>2
<1>8. Number(i) < Len(hashed'[f])
  <2>1. Number(i) <= c /\ Number(i) \in Int
    BY Layout DEF AtCursor, NumberOf
  <2> QED
    BY <1>4, <2>1
<1> QED
  BY <1>2, <1>3, <1>4, <1>5, <1>6, <1>7, <1>8

\* The reference that kept the buffer goes, if one did.
TookFor(g, b) == hasher[g] # NoOne /\ cursor[g] = b /\ bufOf[hasher[g]] # b

LEMMA CursorDropped ==
    ASSUME CInv, NEW i \in Blocks, NEW f, NEW c, NEW b, FeedsOne(i, f, c, b)
    PROVE  /\ rc' \in [Buffers -> Nat]
           /\ \A x \in Buffers : x # b => rc'[x] = rc[x]
           /\ rc'[b] = rc[b] - One(TookIt(b))
           /\ \A g \in Files : g # f => ~ TookFor(g, b)
           /\ ~ KeepsIt(b)
<1> USE DEF FeedsOne
<1>1. b \in Buffers /\ rc \in [Buffers -> Nat] /\ rc[b] \in Nat /\ ~ post
  BY DEF CInv, Types
<1>2. ASSUME NEW g \in Files, g # f PROVE ~ TookFor(g, b)
  <2>1. SUFFICES ASSUME TookFor(g, b) PROVE FALSE
    OBVIOUS
  <2>2. src[b] = <<g, next[g]>>
    BY <2>1 DEF TookFor, CInv, Hashing, Hashers, AtCursor
  <2> QED
    BY <1>2, <2>2
<1>3. TookIt(b) <=> b # bufOf[i]
  <2>1. i # NoOne
    BY Layout DEF NoOne, Blocks
  <2> QED
    BY <1>2, <2>1 DEF TookIt, TookFor
<1>4. TookIt(b) => rc[b] > 0
  <2>1. rc[b] = Refs(b)
    BY <1>1 DEF CInv, Counted
  <2> QED
    BY <2>1 DEF Refs, Others, One
<1>5. ~ KeepsIt(b)
  <2>1. SUFFICES ASSUME NEW d \in deferred, d[3] = b PROVE FALSE
    BY DEF KeepsIt
  <2>2. src[b] = <<d[1], d[2]>> /\ d[2] > next[d[1]] /\ d[2] \in Nat
    BY <2>1 DEF CInv, Hashing, HashTypes, Kept
  <2>3. c = next[f] /\ c \in Nat /\ src[b] = <<f, c>>
    OBVIOUS
  <2> HIDE DEF FeedsOne
  <2>4. d[1] = f /\ d[2] = c
    BY <2>2, <2>3
  <2>5. d[2] = next[d[1]]
    BY <2>3, <2>4
  <2> QED
    BY <2>2, <2>5
<1>6. CASE b = bufOf[i]
  BY <1>1, <1>2, <1>3, <1>5, <1>6 DEF One
<1>7. CASE b # bufOf[i]
  <2>1. rc' = [rc EXCEPT ![b] = @ - 1] /\ TookIt(b)
    BY <1>3, <1>7
  <2>2. rc'[b] = rc[b] - 1 /\ rc[b] - 1 \in Nat
    BY <1>1, <1>4, <2>1
  <2>3. rc' \in [Buffers -> Nat] /\ \A x \in Buffers : x # b => rc'[x] = rc[x]
    BY <1>1, <2>1, <2>2
  <2> QED
    BY <1>2, <1>5, <2>1, <2>2, <2>3 DEF One
<1> QED
  BY <1>6, <1>7

\* What no turn of the hashing loop touches.
LEMMA LoopKeeps ==
    ASSUME CInv, NEW i \in Blocks, NEW f, NEW c, NEW b, FeedsOne(i, f, c, b),
           stage' = stage \/ stage' = [stage EXCEPT ![i] = "process"]
    PROVE  /\ InFlight' = InFlight
           /\ Types' /\ Place' /\ Order' /\ Walk' /\ Tokens'
           /\ \A j \in Blocks : stage[j] \in Past => stage'[j] \in Past
           /\ \A j \in Blocks : j # i => stage'[j] = stage[j]
           /\ stage'[i] \in {"hashing", "process"}
<1>1. /\ stage[i] = "hashing" /\ i \in InFlight /\ ~ post
      /\ UNCHANGED <<ok, content, rpc, post, off, held, nextblock, bufOf,
                     sourcefile, sourceindex, src>>
  BY DEF FeedsOne
<1>2. stage' \in [Blocks -> {"unread", "hash", "hashing", "process", "release", "done"}]
      /\ stage'[i] \in {"hashing", "process"}
      /\ \A j \in Blocks : j # i => stage'[j] = stage[j]
  BY <1>1 DEF CInv, Types
<1>3. InFlight' = InFlight
  BY <1>1, <1>2 DEF InFlight
<1>4. \A j \in Blocks : stage[j] \in Past => stage'[j] \in Past
  BY <1>1, <1>2 DEF Past
<1>5. Types'
  <2>1. rc' \in [Buffers -> Nat]
    BY CursorDropped
  <2> QED
    BY <1>1, <1>2, <2>1 DEF CInv, Types
<1>6. Place' /\ Walk'
  BY <1>1, <1>3 DEF CInv, Place, Walk
<1>7. Order'
  <2>1. \A j \in Blocks : stage'[j] = "unread" <=> stage[j] = "unread"
    BY <1>1, <1>2
  <2>2. rpc = "read" => nextblock - 1 \in Blocks
    BY Layout DEF CInv, Types, Order, Blocks
  <2> QED
    BY <1>1, <2>1, <2>2 DEF CInv, Order, Label, Number
<1>8. Tokens'
  BY <1>1, <1>3 DEF CInv, Tokens, Label, Number
<1> QED
  BY <1>2, <1>3, <1>4, <1>5, <1>6, <1>7, <1>8

\* The turn is the last: the file is finished, or the next buffer has not come.
LEMMA LoopEnds ==
    ASSUME CInv, NEW i \in Blocks, NEW f, NEW c, NEW b, FeedsOne(i, f, c, b),
           next' = [next EXCEPT ![f] = IF c + 1 = FileBlockCount[f] THEN NoEntry ELSE c + 1],
           c + 1 # FileBlockCount[f] => GoOnWith(f, c + 1) = {},
           deferred' = deferred,
           cursor' = [cursor EXCEPT ![f] = NoBuffer],
           hasher' = [hasher EXCEPT ![f] = NoOne],
           stage' = [stage EXCEPT ![i] = "process"]
    PROVE  CInv'
<1>1. /\ f = FileOf[i] /\ f \in Files /\ hasher[f] = i /\ ~ post /\ stage[i] = "hashing"
      /\ c = next[f] /\ b = cursor[f] /\ b \in Buffers /\ bufOf[i] \in Buffers
      /\ c = Len(hashed[f]) /\ c \in Nat /\ c < FileBlockCount[f] /\ FileBlockCount[f] \in Nat
      /\ UNCHANGED <<ok, content, rpc, post, off, held, nextblock, bufOf,
                     sourcefile, sourceindex, src>>
  BY DEF FeedsOne
<1>2. /\ next'[f] = (IF c + 1 = FileBlockCount[f] THEN NoEntry ELSE c + 1)
      /\ hasher'[f] = NoOne /\ stage'[i] = "process"
      /\ \A g \in Files : g # f =>
            next'[g] = next[g] /\ hasher'[g] = hasher[g] /\ cursor'[g] = cursor[g]
      /\ \A j \in Blocks : j # i => stage'[j] = stage[j]
  BY <1>1 DEF CInv, Types, Hashing, HashTypes
<1>3. /\ InFlight' = InFlight
      /\ Types' /\ Place' /\ Order' /\ Walk' /\ Tokens'
      /\ \A j \in Blocks : stage[j] \in Past => stage'[j] \in Past
  BY LoopKeeps
<1>4. HashTypes'
  <2>1. hashed' \in [Files -> Seq(Blocks)]
    BY FedOneMore
  <2>2. next' \in [Files -> {NoEntry} \cup Nat]
    BY <1>1 DEF CInv, Hashing, HashTypes
  <2> QED
    BY <2>1, <2>2 DEF CInv, Hashing, HashTypes
<1>5. Kept'
  <2> SUFFICES ASSUME NEW d \in deferred
               PROVE  /\ next'[d[1]] # NoEntry /\ d[2] > next'[d[1]]
                      /\ stage'[BlockAt(d[1], d[2])] \in Past
    BY <1>1 DEF CInv, Hashing, Kept, BlockAt, NumberOf
  <2>1. /\ d[1] \in Files /\ d[2] \in NumberOf(d[1]) /\ next[d[1]] # NoEntry /\ d[2] > next[d[1]]
        /\ stage[BlockAt(d[1], d[2])] \in Past
    BY DEF CInv, Hashing, HashTypes, Kept
  <2>2. BlockAt(d[1], d[2]) \in Blocks
    BY <2>1, Layout
  <2>3. CASE d[1] = f
    <3>1. d[2] \in Nat /\ d[2] < FileBlockCount[f] /\ d[2] > c
      <4>1. d[2] \in NumberOf(f) /\ d[2] > c /\ FileBlockCount[f] \in Nat
        BY <1>1, <2>1, <2>3
      <4> QED
        BY <4>1 DEF NumberOf
    <3>2. c + 1 # FileBlockCount[f]
      BY <1>1, <3>1
    <3>3. d[2] # c + 1
      BY <2>3, <3>2 DEF GoOnWith
    <3>4. next'[f] = c + 1 /\ d[2] > c + 1 /\ c + 1 # NoEntry
      BY <1>1, <1>2, <3>1, <3>2, <3>3 DEF NoEntry
    <3> QED
      BY <1>3, <2>1, <2>2, <2>3, <3>4
  <2>4. CASE d[1] # f
    BY <1>2, <1>3, <2>1, <2>2, <2>4
  <2> QED
    BY <2>3, <2>4
<1>6. KeptOnce'
  BY DEF CInv, Hashing, KeptOnce
<1>7. Hashers'
  <2>1. ASSUME NEW j \in Blocks, stage'[j] = "hashing" PROVE hasher'[FileOf[j]] = j
    <3>1. j # i /\ stage[j] = "hashing"
      BY <1>2, <2>1
    <3>2. hasher[FileOf[j]] = j /\ FileOf[j] \in Files /\ FileOf[j] # f
      BY <1>1, <3>1, Layout DEF CInv, Hashing, Hashers
    <3> QED
      BY <1>2, <3>2
  <2>2. ASSUME NEW g \in Files, hasher'[g] # NoOne PROVE AtCursor(g)'
    <3>1. g # f /\ hasher[g] # NoOne
      BY <1>2, <2>2
    <3>2. AtCursor(g)
      BY <3>1 DEF CInv, Hashing, Hashers
    <3>3. hasher[g] # i /\ BlockAt(g, next[g]) \in Blocks
      BY <1>1, <3>1, <3>2, Layout DEF AtCursor
    <3>4. stage'[hasher[g]] = "hashing"
      BY <1>2, <3>2, <3>3 DEF AtCursor
    <3> QED
      BY <1>1, <1>2, <1>3, <3>1, <3>2, <3>3, <3>4 DEF AtCursor, BlockAt, Number, NumberOf
  <2> QED
    BY <2>1, <2>2 DEF Hashers
<1>8. Fed'
  <2>1. Len(hashed'[f]) = c + 1 /\ \A g \in Files : g # f => hashed'[g] = hashed[g]
    BY FedOneMore
  <2>2. \A g \in Files : \A k \in 1 .. Len(hashed'[g]) : hashed'[g][k] = BlockAt(g, k - 1)
    BY FedOneMore
  <2>3. ASSUME NEW g \in Files
        PROVE  /\ next'[g] # NoEntry => next'[g] = Len(hashed'[g]) /\ next'[g] < FileBlockCount[g]
               /\ next'[g] = NoEntry => Len(hashed'[g]) \in {0, FileBlockCount[g]}
    <3>1. CASE g = f
      <4>1. c + 1 # FileBlockCount[f] => c + 1 < FileBlockCount[f]
        BY <1>1
      <4>2. c + 1 # NoEntry
        BY <1>1 DEF NoEntry
      <4> QED
        BY <1>2, <2>1, <3>1, <4>1, <4>2
    <3>2. CASE g # f
      BY <1>2, <2>1, <3>2 DEF CInv, Hashing, Fed
    <3> QED
      BY <3>1, <3>2
  <2> QED
    BY <2>2, <2>3 DEF Fed, BlockAt
<1>9. Through'
  <2>1. ASSUME NEW j \in Blocks
        PROVE  /\ stage'[j] \in {"unread", "hash"} => Number(j) >= Len(hashed'[FileOf[j]])
               /\ stage'[j] \in Past =>
                      Number(j) < Len(hashed'[FileOf[j]]) \/ IsKept(j)' \/ IsNext(j)'
    <3>1. CASE j = i
      BY <1>1, <1>2, <3>1, FedOneMore
    <3>2. CASE j # i
      <4>1. stage'[j] = stage[j]
        BY <1>2, <3>2
      <4>2. stage[j] \in {"unread", "hash"} => Number(j) >= Len(hashed'[FileOf[j]])
        BY FedOneMore
      <4>3. stage[j] \in Past /\ ~ IsKept(j) =>
                Number(j) < Len(hashed'[FileOf[j]]) \/ (IsNext(j) /\ FileOf[j] # f)
        BY FedOneMore
      <4>4. IsKept(j) => IsKept(j)'
        BY DEF IsKept, Number
      <4>5. IsNext(j) /\ FileOf[j] # f => IsNext(j)'
        BY <1>2, Layout DEF IsNext, Number
      <4> QED
        BY <4>1, <4>2, <4>3, <4>4, <4>5
    <3> QED
      BY <3>1, <3>2
  <2> QED
    BY <2>1 DEF Through, Number
<1>10. Counted'
  <2> SUFFICES ASSUME NEW x \in Buffers PROVE rc'[x] = Refs(x)'
    BY <1>1 DEF Counted
  <2>1. rc[x] = Refs(x)
    BY <1>1 DEF CInv, Counted
  <2>2. /\ HasToken(x)' <=> HasToken(x)
        /\ KeepsIt(x)' <=> KeepsIt(x)
        /\ Attempt(x)' <=> Attempt(x)
        /\ held' = held
    BY <1>1, <1>3 DEF HasToken, KeepsIt, Attempt
  <2>3. TookIt(x)' <=> \E g \in Files : g # f /\ TookFor(g, x)
    BY <1>1, <1>2 DEF TookIt, TookFor
  <2>4. /\ \A y \in Buffers : y # b => rc'[y] = rc[y]
        /\ rc'[b] = rc[b] - One(TookIt(b))
        /\ \A g \in Files : g # f => ~ TookFor(g, b)
    BY CursorDropped
  <2>5. CASE x = b
    <3>1. ~ TookIt(x)'
      BY <2>3, <2>4, <2>5
    <3> QED
      BY <2>1, <2>2, <2>4, <2>5, <3>1 DEF Refs, Others, One
  <2>6. CASE x # b
    <3>1. TookIt(x)' <=> TookIt(x)
      BY <1>1, <2>3, <2>6 DEF TookIt, TookFor
    <3> QED
      BY <2>1, <2>2, <2>4, <2>6, <3>1 DEF Refs, Others, One
  <2> QED
    BY <2>5, <2>6
<1> QED
  BY <1>3, <1>4, <1>5, <1>6, <1>7, <1>8, <1>9, <1>10 DEF CInv, Hashing

\* The turn goes on with the buffer kept for the next block of the file.
LEMMA LoopGoesOn ==
    ASSUME CInv, NEW i \in Blocks, NEW f, NEW c, NEW b, FeedsOne(i, f, c, b),
           c + 1 # FileBlockCount[f], NEW e \in GoOnWith(f, c + 1),
           next' = [next EXCEPT ![f] = c + 1],
           deferred' = deferred \ GoOnWith(f, c + 1),
           cursor' = [cursor EXCEPT ![f] = e[3]],
           hasher' = hasher,
           stage' = stage
    PROVE  CInv'
<1>1. /\ f = FileOf[i] /\ f \in Files /\ hasher[f] = i /\ ~ post /\ stage[i] = "hashing"
      /\ c = next[f] /\ b = cursor[f] /\ b \in Buffers /\ bufOf[i] \in Buffers /\ src[b] = <<f, c>>
      /\ c = Len(hashed[f]) /\ c \in Nat /\ c < FileBlockCount[f] /\ FileBlockCount[f] \in Nat
      /\ UNCHANGED <<ok, content, rpc, post, off, held, nextblock, bufOf,
                     sourcefile, sourceindex, src>>
      /\ AtCursor(f)
  BY DEF FeedsOne
<1>2. /\ e \in deferred /\ e[1] = f /\ e[2] = c + 1 /\ e[3] \in Buffers
      /\ \A d \in deferred : d[1] = f /\ d[2] = c + 1 => d = e
      /\ deferred' = deferred \ {e}
  <2>1. e \in deferred /\ e[1] = f /\ e[2] = c + 1 /\ e[3] \in Buffers
    BY DEF GoOnWith, CInv, Hashing, HashTypes
  <2>2. \A d \in deferred : d[1] = f /\ d[2] = c + 1 => d = e
    BY <2>1 DEF CInv, Hashing, KeptOnce
  <2>3. GoOnWith(f, c + 1) = {e}
    BY <2>1, <2>2 DEF GoOnWith
  <2> QED
    BY <2>1, <2>2, <2>3
<1>3. /\ next'[f] = c + 1 /\ cursor'[f] = e[3]
      /\ \A g \in Files : g # f => next'[g] = next[g] /\ cursor'[g] = cursor[g]
  BY <1>1 DEF CInv, Hashing, HashTypes
<1>4. /\ src[e[3]] = <<f, c + 1>> /\ content[e[3]] = BlockAt(f, c + 1) /\ e[3] # held
      /\ stage[BlockAt(f, c + 1)] \in Past
  BY <1>2 DEF CInv, Hashing, Kept
<1>5. c + 1 \in NumberOf(f) /\ c + 1 # NoEntry /\ i # NoOne
  <2>1. c \in Nat /\ c < FileBlockCount[f] /\ FileBlockCount[f] \in Nat
    BY <1>1
  <2>2. c + 1 \in NumberOf(f) /\ c + 1 # NoEntry
    BY <2>1 DEF NumberOf, NoEntry
  <2>3. i # NoOne
    BY Layout DEF NoOne, Blocks
  <2> QED
    BY <2>2, <2>3
<1>6. InFlight' = InFlight /\ Types' /\ Place' /\ Order' /\ Walk' /\ Tokens'
  BY LoopKeeps
<1>7. HashTypes'
  <2>1. hashed' \in [Files -> Seq(Blocks)]
    BY FedOneMore
  <2>2. next' \in [Files -> {NoEntry} \cup Nat] /\ cursor' \in [Files -> {NoBuffer} \cup Buffers]
    BY <1>1, <1>2 DEF CInv, Hashing, HashTypes
  <2> QED
    BY <1>2, <2>1, <2>2 DEF CInv, Hashing, HashTypes
<1>8. Kept'
  <2> SUFFICES ASSUME NEW d \in deferred, d # e
               PROVE  next'[d[1]] # NoEntry /\ d[2] > next'[d[1]]
    BY <1>1, <1>2 DEF CInv, Hashing, Kept, BlockAt, NumberOf
  <2>1. /\ d[1] \in Files /\ d[2] \in NumberOf(d[1]) /\ next[d[1]] # NoEntry /\ d[2] > next[d[1]]
    BY DEF CInv, Hashing, HashTypes, Kept
  <2>2. CASE d[1] = f
    <3>1. d[2] \in NumberOf(f) /\ d[2] > c /\ d[2] # c + 1
      BY <1>1, <1>2, <2>1, <2>2
    <3>2. d[2] > c + 1
      BY <1>1, <3>1 DEF NumberOf
    <3> QED
      BY <1>3, <1>5, <2>2, <3>2
  <2>3. CASE d[1] # f
    BY <1>3, <2>1, <2>3
  <2> QED
    BY <2>2, <2>3
<1>9. KeptOnce'
  BY <1>2 DEF CInv, Hashing, KeptOnce
<1>10. Hashers'
  <2>1. AtCursor(f)'
    <3>1. Number(i) <= c + 1
      <4>1. Number(i) <= c /\ Number(i) \in Int
        BY <1>1, Layout DEF AtCursor, NumberOf
      <4> QED
        BY <1>1, <4>1
    <3> QED
      BY <1>1, <1>2, <1>3, <1>4, <1>5, <3>1 DEF AtCursor, BlockAt, Number, NumberOf
  <2>2. ASSUME NEW g \in Files, g # f, hasher[g] # NoOne PROVE AtCursor(g)'
    <3>1. AtCursor(g)
      BY <2>2 DEF CInv, Hashing, Hashers
    <3> QED
      BY <1>1, <1>3, <2>2, <3>1 DEF AtCursor, BlockAt, Number, NumberOf
  <2> QED
    BY <2>1, <2>2 DEF CInv, Hashing, Hashers
<1>11. Fed'
  <2>1. Len(hashed'[f]) = c + 1 /\ \A g \in Files : g # f => hashed'[g] = hashed[g]
    BY FedOneMore
  <2>2. \A g \in Files : \A k \in 1 .. Len(hashed'[g]) : hashed'[g][k] = BlockAt(g, k - 1)
    BY FedOneMore
  <2>3. ASSUME NEW g \in Files
        PROVE  /\ next'[g] # NoEntry => next'[g] = Len(hashed'[g]) /\ next'[g] < FileBlockCount[g]
               /\ next'[g] = NoEntry => Len(hashed'[g]) \in {0, FileBlockCount[g]}
    <3>1. CASE g = f
      <4>1. c + 1 < FileBlockCount[f]
        BY <1>1
      <4> QED
        BY <1>3, <1>5, <2>1, <3>1, <4>1
    <3>2. CASE g # f
      BY <1>3, <2>1, <3>2 DEF CInv, Hashing, Fed
    <3> QED
      BY <3>1, <3>2
  <2> QED
    BY <2>2, <2>3 DEF Fed, BlockAt
<1>12. Through'
  <2>1. ASSUME NEW j \in Blocks
        PROVE  /\ stage[j] \in {"unread", "hash"} => Number(j) >= Len(hashed'[FileOf[j]])
               /\ stage[j] \in Past =>
                      Number(j) < Len(hashed'[FileOf[j]]) \/ IsKept(j)' \/ IsNext(j)'
    <3>1. stage[j] \in {"unread", "hash"} => Number(j) >= Len(hashed'[FileOf[j]])
      BY FedOneMore
    <3>2. stage[j] \in Past /\ ~ IsKept(j) =>
              Number(j) < Len(hashed'[FileOf[j]]) \/ (IsNext(j) /\ FileOf[j] # f)
      BY FedOneMore
    <3>3. IsKept(j) => IsKept(j)' \/ IsNext(j)'
      <4>1. SUFFICES ASSUME NEW d \in deferred, d[1] = FileOf[j], d[2] = Number(j)
                     PROVE  IsKept(j)' \/ IsNext(j)'
        BY DEF IsKept
      <4>2. CASE d = e
        BY <1>1, <1>2, <1>3, <1>5, <4>1, <4>2 DEF IsNext, Number
      <4>3. CASE d # e
        BY <1>2, <4>1, <4>3 DEF IsKept, Number
      <4> QED
        BY <4>2, <4>3
    <3>4. IsNext(j) /\ FileOf[j] # f => IsNext(j)'
      BY <1>3, Layout DEF IsNext, Number
    <3> QED
      BY <3>1, <3>2, <3>3, <3>4
  <2> QED
    BY <2>1 DEF Through, Number
<1>13. Counted'
  <2> SUFFICES ASSUME NEW x \in Buffers PROVE rc'[x] = Refs(x)'
    BY <1>1 DEF Counted
  <2>1. rc[x] = Refs(x)
    BY <1>1 DEF CInv, Counted
  <2>2. /\ HasToken(x)' <=> HasToken(x)
        /\ Attempt(x)' <=> Attempt(x)
        /\ held' = held
    BY <1>1, <1>6 DEF HasToken, Attempt
  <2>3. TookIt(x)' <=> \/ x = e[3] /\ bufOf[i] # e[3]
                    \/ \E g \in Files : g # f /\ TookFor(g, x)
    BY <1>1, <1>3, <1>5 DEF TookIt, TookFor
  <2>4. /\ \A y \in Buffers : y # b => rc'[y] = rc[y]
        /\ rc'[b] = rc[b] - One(TookIt(b))
        /\ \A g \in Files : g # f => ~ TookFor(g, b)
        /\ ~ KeepsIt(b)
    BY CursorDropped
  <2>5. KeepsIt(x)' <=> KeepsIt(x) /\ x # e[3]
    <3>1. \A d \in deferred : d[3] = e[3] => d = e
      <4>1. ASSUME NEW d \in deferred, d[3] = e[3] PROVE d = e
        <5>1. src[e[3]] = <<d[1], d[2]>>
          BY <4>1 DEF CInv, Hashing, Kept
        <5>2. d[1] = f /\ d[2] = c + 1
          BY <1>4, <5>1
        <5> QED
          BY <1>2, <5>2
      <4> QED
        BY <4>1
    <3> QED
      BY <1>2, <3>1 DEF KeepsIt
  <2>6. KeepsIt(e[3]) /\ e[3] # b
    BY <1>2, <2>4 DEF KeepsIt
  <2>7. CASE x = b
    <3>1. ~ TookIt(x)' /\ ~ KeepsIt(x)' /\ ~ KeepsIt(x)
      BY <2>3, <2>4, <2>5, <2>6, <2>7
    <3> QED
      BY <2>1, <2>2, <2>4, <2>7, <3>1 DEF Refs, Others, One
  <2>8. CASE x = e[3]
    <3>1. ~ TookIt(x)
      BY <2>6, <2>8, KeptNotTaken
    <3>2. bufOf[i] # e[3]
      <4>1. i \in InFlight /\ stage[i] \notin Past
        BY <1>1 DEF InFlight, Past
      <4> QED
        BY <1>2, <4>1, TokenOfKept
    <3>3. TookIt(x)' /\ ~ KeepsIt(x)' /\ KeepsIt(x)
      BY <2>3, <2>5, <2>6, <2>8, <3>2
    <3> QED
      BY <2>1, <2>2, <2>4, <2>6, <2>8, <3>1, <3>3 DEF Refs, Others, One
  <2>9. CASE x # b /\ x # e[3]
    <3>1. TookIt(x)' <=> TookIt(x)
      BY <1>1, <2>3, <2>9 DEF TookIt, TookFor
    <3>2. KeepsIt(x)' <=> KeepsIt(x)
      BY <2>5, <2>9
    <3> QED
      BY <2>1, <2>2, <2>4, <2>9, <3>1, <3>2 DEF Refs, Others, One
  <2> QED
    BY <2>7, <2>8, <2>9
<1> QED
  BY <1>6, <1>7, <1>8, <1>9, <1>10, <1>11, <1>12, <1>13 DEF CInv, Hashing

LEMMA HashOneStep == ASSUME CInv, NEW i \in Blocks, HashOne(i) PROVE CInv'
<1> DEFINE f == FileOf[i]
<1> DEFINE c == next[f]
<1> DEFINE b == cursor[f]
<1>1. FeedsOne(i, f, c, b) /\ HashFile(i) = f
  BY HashOneFeeds
<1>2. CASE c + 1 # FileBlockCount[f] /\ GoOnWith(f, c + 1) # {}
  <2>1. PICK e \in GoOnWith(f, c + 1) : cursor' = [cursor EXCEPT ![f] = e[3]]
    BY <1>1, <1>2 DEF HashOne
  <2>2. /\ next' = [next EXCEPT ![f] = c + 1]
        /\ deferred' = deferred \ GoOnWith(f, c + 1)
        /\ hasher' = hasher
        /\ stage' = stage
    BY <1>1, <1>2 DEF HashOne
  <2> QED
    BY <1>1, <1>2, <2>1, <2>2, LoopGoesOn
<1>3. CASE ~ (c + 1 # FileBlockCount[f] /\ GoOnWith(f, c + 1) # {})
  <2>1. /\ cursor' = [cursor EXCEPT ![f] = NoBuffer]
        /\ hasher' = [hasher EXCEPT ![f] = NoOne]
        /\ stage' = [stage EXCEPT ![i] = "process"]
    BY <1>1, <1>3 DEF HashOne
  <2>2. /\ next' = [next EXCEPT ![f] = IF c + 1 = FileBlockCount[f] THEN NoEntry ELSE c + 1]
        /\ deferred' = deferred
    BY <1>1, <1>3 DEF HashOne
  <2> QED
    BY <1>1, <1>3, <2>1, <2>2, LoopEnds
<1> QED
  BY <1>2, <1>3

LEMMA ProcessStep ==
    ASSUME CInv, NEW i \in Blocks, Process(i, "release"), UNCHANGED createVars
    PROVE  CInv'
<1>1. /\ stage[i] = "process" /\ stage' = [stage EXCEPT ![i] = "release"]
      /\ UNCHANGED <<ok, rc, content, rpc, post, held, off, nextblock, bufOf, sourcefile,
                     sourceindex, src, next, deferred, hasher, cursor, hashed>>
  BY DEF Process, poolVars, searchVars, readVars, createVars, walkVars, hashVars
<1>2. stage'[i] = "release" /\ \A j \in Blocks : j # i => stage'[j] = stage[j]
      /\ stage' \in [Blocks -> {"unread", "hash", "hashing", "process", "release", "done"}]
  BY <1>1 DEF CInv, Types
<1>3. InFlight' = InFlight
  BY <1>1, <1>2 DEF InFlight
<1>4. /\ \A j \in Blocks : stage'[j] \in Past <=> stage[j] \in Past
      /\ \A j \in Blocks : \A p \in {"unread", "hash", "hashing"} : stage'[j] = p <=> stage[j] = p
  BY <1>1, <1>2 DEF Past
<1>5. Types' /\ Place' /\ Walk'
  BY <1>1, <1>2, <1>3 DEF CInv, Types, Place, Walk
<1>6. Order'
  <2>1. rpc = "read" => nextblock - 1 \in Blocks
    BY Layout DEF CInv, Types, Order, Blocks
  <2> QED
    BY <1>1, <1>4, <2>1 DEF CInv, Order, Label, Number
<1>7. Tokens'
  BY <1>1, <1>3 DEF CInv, Tokens, Label, Number
<1>8. Kept' /\ KeptOnce'
  <2>1. \A d \in deferred : BlockAt(d[1], d[2]) \in Blocks
    BY Layout DEF CInv, Hashing, HashTypes, Kept
  <2> QED
    BY <1>1, <1>4, <2>1 DEF CInv, Hashing, Kept, KeptOnce, BlockAt, NumberOf
<1>9. Hashers'
  <2>1. \A f \in Files : hasher[f] # NoOne => hasher[f] \in Blocks /\ BlockAt(f, next[f]) \in Blocks
    BY Layout DEF CInv, Hashing, Hashers, AtCursor
  <2> QED
    BY <1>1, <1>4, <2>1 DEF CInv, Hashing, Hashers, AtCursor, BlockAt, Number, NumberOf
<1>10. HashTypes' /\ Fed'
  BY <1>1 DEF CInv, Hashing, HashTypes, Fed, BlockAt
<1>11. Through'
  BY <1>1, <1>4 DEF CInv, Hashing, Through, IsKept, IsNext, Number
<1>12. Counted'
  BY <1>1, <1>3 DEF CInv, Counted, Refs, Others, One, HasToken, KeepsIt, TookIt, Attempt
<1> QED
  BY <1>5, <1>6, <1>7, <1>8, <1>9, <1>10, <1>11, <1>12 DEF CInv, Hashing

\* The token's own reference goes with it.
LEMMA ReleaseStep ==
    ASSUME CInv, NEW i \in Blocks, Release(i), UNCHANGED createVars
    PROVE  CInv'
<1>1. /\ stage[i] = "release" /\ stage' = [stage EXCEPT ![i] = "done"]
      /\ rc' = [rc EXCEPT ![bufOf[i]] = @ - 1]
      /\ UNCHANGED <<ok, content, rpc, post, held, off, nextblock, bufOf, sourcefile,
                     sourceindex, src, next, deferred, hasher, cursor, hashed>>
  BY DEF Release, ReleaseRef, searchVars, readVars, createVars, walkVars, hashVars
<1>2. stage'[i] = "done" /\ \A j \in Blocks : j # i => stage'[j] = stage[j]
      /\ stage' \in [Blocks -> {"unread", "hash", "hashing", "process", "release", "done"}]
  BY <1>1 DEF CInv, Types
<1>3. InFlight' = InFlight \ {i} /\ i \in InFlight /\ bufOf[i] \in Buffers /\ ~ post
  BY <1>1, <1>2 DEF InFlight, CInv, Types, Place
<1>4. /\ \A j \in Blocks : stage'[j] \in Past <=> stage[j] \in Past
      /\ \A j \in Blocks : \A p \in {"unread", "hash", "hashing"} : stage'[j] = p <=> stage[j] = p
  BY <1>1, <1>2 DEF Past
<1>5. rc[bufOf[i]] = Refs(bufOf[i]) /\ HasToken(bufOf[i]) /\ rc[bufOf[i]] > 0
  <2>1. rc[bufOf[i]] = Refs(bufOf[i]) /\ HasToken(bufOf[i])
    BY <1>3 DEF CInv, Counted, HasToken
  <2> QED
    BY <2>1 DEF Refs, Others, One
<1>6. /\ rc'[bufOf[i]] = rc[bufOf[i]] - 1
      /\ \A b \in Buffers : b # bufOf[i] => rc'[b] = rc[b]
      /\ rc' \in [Buffers -> Nat]
  BY <1>1, <1>3, <1>5, SMTT(30) DEF CInv, Types
<1>7. Types' /\ Place' /\ Walk'
  BY <1>1, <1>2, <1>3, <1>6 DEF CInv, Types, Place, Walk
<1>8. Order'
  <2>1. rpc = "read" => nextblock - 1 \in Blocks
    BY Layout DEF CInv, Types, Order, Blocks
  <2> QED
    BY <1>1, <1>4, <2>1 DEF CInv, Order, Label, Number
<1>9. Tokens'
  BY <1>1, <1>3 DEF CInv, Tokens, Label, Number
<1>10. Kept' /\ KeptOnce'
  <2>1. \A d \in deferred : BlockAt(d[1], d[2]) \in Blocks
    BY Layout DEF CInv, Hashing, HashTypes, Kept
  <2> QED
    BY <1>1, <1>4, <2>1 DEF CInv, Hashing, Kept, KeptOnce, BlockAt, NumberOf
<1>11. Hashers'
  <2>1. \A f \in Files : hasher[f] # NoOne => hasher[f] \in Blocks /\ BlockAt(f, next[f]) \in Blocks
    BY Layout DEF CInv, Hashing, Hashers, AtCursor
  <2> QED
    BY <1>1, <1>4, <2>1 DEF CInv, Hashing, Hashers, AtCursor, BlockAt, Number, NumberOf
<1>12. HashTypes' /\ Fed'
  BY <1>1 DEF CInv, Hashing, HashTypes, Fed, BlockAt
<1>13. Through'
  BY <1>1, <1>4 DEF CInv, Hashing, Through, IsKept, IsNext, Number
<1>14. Counted'
  <2> SUFFICES ASSUME NEW b \in Buffers PROVE rc'[b] = Refs(b)'
    BY <1>1, <1>3 DEF Counted
  <2>1. rc[b] = Refs(b)
    BY <1>3 DEF CInv, Counted
  <2>2. /\ KeepsIt(b)' <=> KeepsIt(b)
        /\ TookIt(b)' <=> TookIt(b)
        /\ Attempt(b)' <=> Attempt(b)
        /\ held' = held
    BY <1>1 DEF KeepsIt, TookIt, Attempt
  <2>3. CASE b = bufOf[i]
    <3>1. ~ HasToken(b)'
      BY <1>1, <1>3, <2>3 DEF HasToken, CInv, Tokens
    <3> QED
      BY <1>5, <1>6, <2>1, <2>2, <2>3, <3>1 DEF Refs, Others, One
  <2>4. CASE b # bufOf[i]
    <3>1. HasToken(b)' <=> HasToken(b)
      BY <1>1, <1>3, <2>4 DEF HasToken
    <3> QED
      BY <1>6, <2>1, <2>2, <2>4, <3>1 DEF Refs, Others, One
  <2> QED
    BY <2>3, <2>4
<1> QED
  BY <1>7, <1>8, <1>9, <1>10, <1>11, <1>12, <1>13, <1>14 DEF CInv, Hashing

-----------------------------------------------------------------------------

LEMMA CInvInit == CreateInit => CInv
<1> SUFFICES ASSUME CreateInit PROVE CInv
  OBVIOUS
<1> USE DEF CreateInit, Init
<1>1. /\ SourceFiles \in Seq(Files) /\ Len(SourceFiles) \in Nat /\ Len(SourceFiles) > 0
      /\ SourceFiles[1] \in Files /\ FirstBlock(SourceFiles[1]) = 0
  BY CreateAssumption DEF CreateAssumption
<1>2. FileBlockCount[SourceFiles[1]] \in Nat /\ FileBlockCount[SourceFiles[1]] > 0
  BY <1>1, Layout
<1>3. NumBlocks \in Nat /\ 0 \in Buffers
  BY Layout DEF Buffers
<1>4. InFlight = {}
  BY DEF InFlight
<1>5. Types
  <2>1. sourcefile \in 1 .. Len(SourceFiles) + 1 /\ nextblock \in 0 .. NumBlocks
    BY <1>1, <1>3
  <2>2. src \in [Buffers -> Files \X Nat]
    BY <1>1
  <2>3. /\ rc \in [Buffers -> Nat] /\ content \in [Buffers -> Nat]
        /\ off \in Buffers /\ held \in Buffers \cup {NoBuffer} /\ bufOf \in [Blocks -> Buffers]
        /\ stage \in [Blocks -> {"unread", "hash", "hashing", "process", "release", "done"}]
    BY <1>3
  <2> QED
    BY <2>1, <2>2, <2>3 DEF Types
<1>6. Place
  BY <1>4 DEF Place
<1>7. Order
  BY Layout DEF Order, Blocks
<1>8. Walk
  BY <1>1, <1>2 DEF Walk
<1>9. Tokens
  BY <1>4 DEF Tokens
<1>10. HashTypes
  BY DEF HashTypes
<1>11. Kept /\ KeptOnce /\ Hashers /\ Fed
  BY Layout DEF Kept, KeptOnce, Hashers, Fed
<1>12. Through
  BY Layout DEF Through, Past, NumberOf
<1>13. Counted
  BY <1>4 DEF Counted, Refs, Others, One, HasToken, KeepsIt, TookIt, Attempt, Buffers, NoBuffer
<1> QED
  BY <1>5, <1>6, <1>7, <1>8, <1>9, <1>10, <1>11, <1>12, <1>13 DEF CInv, Hashing

LEMMA CInvStutter == CInv /\ UNCHANGED allVars => CInv'
<1> SUFFICES ASSUME CInv, UNCHANGED allVars PROVE CInv'
  OBVIOUS
<1> USE DEF allVars, vars, createVars, walkVars, hashVars
<1>1. InFlight' = InFlight
  BY DEF InFlight
<1>2. Types' /\ Place' /\ Walk'
  BY <1>1 DEF CInv, Types, Place, Walk
<1>3. Order' /\ Tokens'
  BY <1>1 DEF CInv, Order, Tokens, Label, Number
<1>4. Hashing'
  BY DEF CInv, Hashing, HashTypes, Kept, KeptOnce, Hashers, AtCursor, Fed, Through, IsKept, IsNext,
     Number, NumberOf, BlockAt
<1>5. Counted'
  BY <1>1 DEF CInv, Counted, Refs, Others, One, HasToken, KeepsIt, TookIt, Attempt
<1> QED
  BY <1>2, <1>3, <1>4, <1>5 DEF CInv

LEMMA CInvStep == CInv /\ [CreateNext]_allVars => CInv'
<1> SUFFICES ASSUME CInv, [CreateNext]_allVars PROVE CInv'
  OBVIOUS
<1>1. CASE CreateReaderStep
  BY <1>1, CreateFetchStep, PlainStep, SearchStep, TryAcquireStep, BackOffStep, ReadBlockStep,
     ReadAbortsStep, RunReturnsStep, GpuXorStep DEF CreateReaderStep, Acquire, ReadFails
<1>2. ASSUME NEW i \in Blocks, CreateWorkerStep(i) PROVE CInv'
  BY <1>2, HashNowStep, KeepForLaterStep, HashOneStep, ProcessStep, ReleaseStep
     DEF CreateWorkerStep, WorkerStep
<1>3. CASE CreateReturned \/ UNCHANGED allVars
  BY <1>3, CInvStutter DEF CreateReturned
<1> QED
  BY <1>1, <1>2, <1>3 DEF CreateNext

LEMMA CInvHolds == CreateSpec => []CInv
<1> QED
  BY CInvInit, CInvStep, PTL DEF CreateSpec

(***************************************************************************)
(* The variables of a creation pass keep their types; in particular no     *)
(* reference count passes NumBuffers + 2, whatever is kept for the hashes. *)
(***************************************************************************)
THEOREM CreateTypeCorrect == CreateSpec => []CreateTypeOK
  BY CInvHolds, TypesFollow, PTL

(***************************************************************************)
(* A kept buffer holds its block until it is hashed: nobody refills it.    *)
(***************************************************************************)
THEOREM KeptIntactHolds == CreateSpec => []KeptIntact
  BY CInvHolds, KeptFollows, PTL

(***************************************************************************)
(* The reference counts are exact, so that every buffer comes back.        *)
(***************************************************************************)
THEOREM RefsExactHolds == CreateSpec => []RefsExact
  BY CInvHolds, RefsFollow, PTL

(***************************************************************************)
(* When run() returns no buffer waits for its turn to be hashed, and after *)
(* a run without failure every file is hashed to its end.                  *)
(***************************************************************************)
THEOREM NothingLeftHolds == CreateSpec => []NothingLeftToHash
  BY CInvHolds, NothingLeftFollows, PTL

-----------------------------------------------------------------------------
(* The refinement: only a turn of the hashing loop feeds a hash.           *)

LEMMA FeedsNext ==
    ASSUME CInv, NEW i \in Blocks, HashOne(i)
    PROVE  FileHash!HashNext(FileOf[i]) /\ FileOf[i] \in Files
<1> DEFINE f == FileOf[i]
<1> DEFINE c == next[f]
<1>1. /\ f \in Files /\ FileBlockCount[f] \in Nat
      /\ c = Len(hashed[f]) /\ c \in Nat /\ c < FileBlockCount[f]
      /\ hashed' = [hashed EXCEPT ![f] = Append(@, BlockAt(f, c))]
  BY HashOneFeeds DEF FeedsOne
<1>2. FirstBlock(f) \in Nat
  BY <1>1, Layout
<1>3. Len(InputOf(f)) = FileBlockCount[f] /\ InputOf(f)[c + 1] = BlockAt(f, c)
  BY <1>1, <1>2 DEF InputOf, BlockAt
<1> QED
  BY <1>1, <1>3 DEF FileHash!HashNext

(***************************************************************************)
(* A creation pass that hashes while it reads implements FileHashing: each *)
(* file's hash is fed the file's blocks, each once and in file order.      *)
(***************************************************************************)
THEOREM HashesInFileOrderHolds == CreateSpec => HashesInFileOrder
<1>1. CreateInit => FileHash!Init
  BY DEF CreateInit, FileHash!Init
<1>2. CInv /\ [CreateNext]_allVars => [FileHash!Next]_hashed
  <2> SUFFICES ASSUME CInv, [CreateNext]_allVars PROVE FileHash!Next \/ UNCHANGED hashed
    OBVIOUS
  <2>1. ASSUME NEW i \in Blocks, HashOne(i) PROVE FileHash!Next
    BY <2>1, FeedsNext DEF FileHash!Next
  <2>2. CASE \E i \in Blocks : HashNow(i) \/ KeepForLater(i)
    BY <2>2 DEF HashNow, KeepForLater
  <2>3. CASE \E i \in Blocks : WorkerStep(i) /\ UNCHANGED createVars
    BY <2>3 DEF createVars, hashVars
  <2>4. CASE CreateReaderStep
    BY <2>4 DEF CreateReaderStep, CreateFetch, createVars, hashVars
  <2>5. CASE CreateReturned \/ UNCHANGED allVars
    BY <2>5 DEF CreateReturned, allVars, createVars, hashVars
  <2> QED
    BY <2>1, <2>2, <2>3, <2>4, <2>5 DEF CreateNext, CreateWorkerStep
<1> QED
  BY <1>1, <1>2, CInvHolds, PTL DEF CreateSpec, HashesInFileOrder, FileHash!Spec
=============================================================================
