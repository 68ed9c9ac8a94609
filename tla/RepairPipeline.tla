--------------------------- MODULE RepairPipeline ---------------------------
(***************************************************************************)
(* The passes of a repair that has blocks to reconstruct.  Each pass runs  *)
(* the pipeline over one chunk of every input block.  An input block that  *)
(* was found in a damaged file is also copied to the new target file: the  *)
(* read stage starts an asynchronous write from the block's buffer and the *)
(* parallel stage waits for it before it lets the buffer go.  After the    *)
(* run, the reconstructed chunks are written.                              *)
(***************************************************************************)
EXTENDS Pipeline

CONSTANTS
    Passes,         \* how many chunks a full block has
    NumCopyBlocks,  \* copyblocks.size(): the input blocks that are source blocks
    CopyLength,     \* CopyLength[c]: the chunks of copy block c; 0 if it is not set
    NumOutputs,     \* missingblockcount
    OutputLength    \* OutputLength[o]: the chunks of output block o

CopyBlocks == 0 .. NumCopyBlocks - 1
Outputs == 0 .. NumOutputs - 1

ASSUME RepairAssumption ==
    /\ Passes \in Nat \ {0}
    /\ NumCopyBlocks \in 0 .. NumBlocks
    /\ CopyLength \in [CopyBlocks -> 0 .. Passes]
    /\ NumOutputs \in Nat \ {0}
    /\ OutputLength \in [Outputs -> 1 .. Passes]

NoCopy == -1

VARIABLES
    pass,       \* the chunk that ProcessData is at (blockoffset / chunksize)
    copyblock,  \* copyblock_ of the pipeline state
    copyOf,     \* copyOf[b]: copyblock_ of buffer b, or NoCopy at the end
    aio,        \* aio[b]: the asynchronous write of buffer b; "none": write_status_ NONE
    copied,     \* the <<copy block, pass, data>> on disk
    outblock,   \* the output block to be written next
    written,    \* the <<output block, pass, what was folded into it>> on disk
    faulted,    \* whether the operating system has failed a call
    result      \* what Process() makes of it

writeVars == <<copyOf, aio, copied>>
outVars == <<outblock, written, result>>
passVars == <<pass, copyblock>>
repairVars == <<passVars, writeVars, outVars, faulted>>
allVars == <<vars, repairVars>>

RepairInit ==
    /\ Init
    /\ copyblock = 0
    /\ copyOf = [b \in Buffers |-> NoCopy]
    /\ aio = [b \in Buffers |-> "none"]
    /\ outblock = 0
    /\ pass = 0
    /\ copied = {}
    /\ written = {}
    /\ faulted = FALSE
    /\ result = "running"

-----------------------------------------------------------------------------
(* The read stage.                                                         *)

IsSet(c) == CopyLength[c] > 0

\* ++copyblock_ for every block that has one, to be copied or not
AdvanceIfSet(c) == IF IsSet(c) THEN c + 1 ELSE c
AdvanceCopy(c) == c + 1

\* on_mutex_held: the copy block goes with the input block.
RepairFetch ==
    /\ Fetch
    /\ LET more == copyblock < NumCopyBlocks
       IN  /\ copyOf' = [copyOf EXCEPT ![held] = IF more THEN copyblock ELSE NoCopy]
           /\ copyblock' = IF more THEN AdvanceCopy(copyblock) ELSE copyblock
    /\ UNCHANGED <<pass, aio, copied, outVars, faulted>>

ToBeCopied(b) == copyOf[b] # NoCopy /\ IsSet(copyOf[b])

\* WriteDataAsync: position >= length
HasMoreThan(c, p) == CopyLength[c] > p + 1
HasChunk(c, p) == CopyLength[c] > p

\* The block ends before this chunk.  There is nothing to write, and that is a failure.
Ended(b) == ToBeCopied(b) /\ ~ HasChunk(copyOf[b], pass)

ReadOnly ==
    /\ rpc = "read"
    /\ ~ ToBeCopied(held)
    /\ ReadBlock("process")
    /\ UNCHANGED repairVars

ReadAndStartWrite ==
    /\ rpc = "read"
    /\ ToBeCopied(held)
    /\ HasChunk(copyOf[held], pass)
    /\ ReadBlock("process")
    /\ aio' = [aio EXCEPT ![held] = "pending"]
    /\ UNCHANGED <<passVars, copyOf, copied, outVars, faulted>>

\* Opening an input file or copying from the video card fails.
OtherFault ==
    /\ OpenFails \/ GpuFails
    /\ faulted' = TRUE
    /\ UNCHANGED <<passVars, writeVars, outVars>>

\* Reading fails, or the system refuses the write, or WriteDataAsync does.
ReadOrWriteFails ==
    /\ rpc = "read"
    /\ IOFaults \/ Ended(held)
    /\ ReadAborts
    /\ faulted' = (faulted \/ ~ Ended(held))
    /\ UNCHANGED <<passVars, writeVars, outVars>>

\* The operating system carries the write out, from the buffer as it is then.
WriteCompletes(b) ==
    /\ aio[b] = "pending"
    /\ \/ /\ aio' = [aio EXCEPT ![b] = "ok"]
          /\ copied' = copied \cup {<<copyOf[b], pass, content[b]>>}
          /\ UNCHANGED faulted
       \/ /\ IOFaults
          /\ aio' = [aio EXCEPT ![b] = "failed"]
          /\ faulted' = TRUE
          /\ UNCHANGED copied
    /\ UNCHANGED <<vars, passVars, copyOf, outVars>>

-----------------------------------------------------------------------------
(* The parallel stage.                                                     *)

AfterProcessNoWait == "release"
AfterProcess == "await"

\* suspend_until_completed, if there is a write at all
Await(i) ==
    /\ stage[i] = "await"
    /\ aio[bufOf[i]] # "pending"
    /\ ok' = (ok /\ aio[bufOf[i]] # "failed")
    /\ aio' = [aio EXCEPT ![bufOf[i]] = "none"]
    /\ stage' = [stage EXCEPT ![i] = "release"]
    /\ UNCHANGED <<rpc, post, held, bufOf, folded, poolVars, searchVars, readVars,
                   passVars, copyOf, copied, outVars, faulted>>

-----------------------------------------------------------------------------
(* ProcessData after the run, and the loop over the passes in Process().   *)

AfterRun == rpc = "returned" /\ result = "running"

\* DeleteIncompleteTargetFiles: nothing that was written is left.
GiveUp ==
    /\ result' = "eFileIOError"
    /\ copied' = {}
    /\ written' = {}
    /\ UNCHANGED <<vars, passVars, copyOf, aio, outblock>>

RunFailed == AfterRun /\ ~ ok /\ GiveUp /\ UNCHANGED faulted

\* WriteData, unlike WriteDataAsync, takes a block that has ended for written.
WriteOutput ==
    /\ AfterRun
    /\ ok
    /\ outblock < NumOutputs
    /\ written' = IF OutputLength[outblock] > pass
                    THEN written \cup {<<outblock, pass, folded>>} ELSE written
    /\ outblock' = outblock + 1
    /\ UNCHANGED <<vars, passVars, writeVars, result, faulted>>

WriteOutputFails ==
    /\ IOFaults
    /\ AfterRun
    /\ ok
    /\ outblock < NumOutputs
    /\ OutputLength[outblock] > pass
    /\ faulted' = TRUE
    /\ GiveUp

PassDone == AfterRun /\ ok /\ outblock = NumOutputs

\* A new pipeline_state: its buffers are new too, the DiskFiles stay as they are.
NextPass ==
    /\ PassDone
    /\ pass + 1 < Passes
    /\ pass' = pass + 1
    /\ rc' = [b \in Buffers |-> 0]
    /\ rpc' = "idle"
    /\ post' = FALSE
    /\ held' = NoBuffer
    /\ nextblock' = 0
    /\ openfiles' = [f \in Files |-> Absent]
    /\ stage' = [i \in Blocks |-> "unread"]
    /\ folded' = {}
    /\ copyblock' = 0
    /\ copyOf' = [b \in Buffers |-> NoCopy]
    /\ outblock' = 0
    /\ UNCHANGED <<ok, searchVars, index, content, bufOf, handles, aio, copied, written,
                   faulted, result>>

LastPassDone ==
    /\ PassDone
    /\ pass + 1 = Passes
    /\ result' = "written"
    /\ UNCHANGED <<vars, passVars, writeVars, outblock, written, faulted>>

-----------------------------------------------------------------------------

RepairReaderStep ==
    \/ RepairFetch \/ ReadOnly \/ ReadAndStartWrite \/ OtherFault \/ ReadOrWriteFails
    \/ /\ StartRead \/ Acquire \/ EndOfInput \/ RunReturns \/ GpuXor
       /\ UNCHANGED repairVars
    \/ RunFailed \/ WriteOutput \/ WriteOutputFails \/ NextPass \/ LastPassDone

RepairWorkerStep(i) ==
    \/ Await(i)
    \/ (Process(i, AfterProcess) \/ Release(i)) /\ UNCHANGED repairVars

RepairOver == result # "running" /\ UNCHANGED allVars

RepairNext ==
    \/ RepairReaderStep
    \/ \E i \in Blocks : RepairWorkerStep(i)
    \/ \E b \in Buffers : WriteCompletes(b)
    \/ RepairOver

RepairSpec == RepairInit /\ [][RepairNext]_allVars

\* The threads of the pool run, and the operating system completes each write.
RepairFairSpec ==
    /\ RepairSpec
    /\ WF_allVars(RepairReaderStep)
    /\ WF_allVars(\E i \in Blocks : RepairWorkerStep(i))
    /\ \A b \in Buffers : WF_allVars(WriteCompletes(b))

-----------------------------------------------------------------------------

RepairTypeOK ==
    /\ ok \in BOOLEAN
    /\ rc \in [Buffers -> 0 .. NumBuffers + 2]
    /\ stage \in [Blocks -> {"unread", "process", "await", "release", "done"}]
    /\ pass \in 0 .. Passes - 1
    /\ copyblock \in 0 .. NumCopyBlocks
    /\ copyOf \in [Buffers -> CopyBlocks \cup {NoCopy}]
    /\ aio \in [Buffers -> {"none", "pending", "ok", "failed"}]
    /\ copied \subseteq CopyBlocks \X (0 .. Passes - 1) \X Blocks
    /\ outblock \in 0 .. NumOutputs
    /\ result \in {"running", "written", "eFileIOError"}
    /\ faulted \in BOOLEAN

(***************************************************************************)
(* When the passes have ended well, every chunk of every block to be       *)
(* copied is in the target files, and it is that block's own data; every   *)
(* chunk of every missing block was made of all the input blocks.          *)
(***************************************************************************)
TargetsComplete ==
    result = "written" =>
        /\ copied = {<<c, p, c>> : c \in CopyBlocks, p \in 0 .. Passes - 1}
                        \cap {t \in CopyBlocks \X (0 .. Passes - 1) \X Blocks :
                                CopyLength[t[1]] > t[2]}
        /\ {<<w[1], w[2]>> : w \in written} =
               {w \in Outputs \X (0 .. Passes - 1) : OutputLength[w[1]] > w[2]}
        /\ \A w \in written : w[3] = {<<i, i>> : i \in Blocks}

(***************************************************************************)
(* Until the operating system has carried a write out, the buffer it       *)
(* writes from keeps its data and is nobody else's.                        *)
(***************************************************************************)
BufferKeptForWrite ==
    \A b \in Buffers :
        aio[b] = "pending" => rc[b] > 0 /\ held # b /\ content[b] = copyOf[b]

(***************************************************************************)
(* When run() returns, failed or not, no write is under way: the buffers   *)
(* are about to be freed and the target files closed, perhaps deleted.     *)
(***************************************************************************)
NoWriteLeft == rpc = "returned" => \A b \in Buffers : aio[b] = "none"

(***************************************************************************)
(* A DiskFile is opened only while it is closed, in later passes as well:  *)
(* assert(file == 0) in DiskFile::Open.                                    *)
(***************************************************************************)
FilesOpenedOnce == \A f \in Files : handles[f] <= 1

(***************************************************************************)
(* A repair fails only if the operating system has failed it.              *)
(***************************************************************************)
OnlyFailOnFault == result = "eFileIOError" => faulted

(***************************************************************************)
(* The passes come to an end, well or not.                                 *)
(***************************************************************************)
RepairEnds == <>(result # "running")
=============================================================================
