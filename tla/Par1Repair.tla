----------------------------- MODULE Par1Repair -----------------------------
(***************************************************************************)
(* Par1Repairer::Process.  A file is one block, and every volume of the    *)
(* set holds the list of files and its own recovery block, as long as the  *)
(* longest file.  The functions are those of Par2Repairer with their own   *)
(* loading, comparison and arithmetic, without blocks to copy.             *)
(***************************************************************************)
EXTENDS RepairProcess

VolumeHeader(volume) == 2 * Count + volume
VolumeOf(cells) == cells[1] - VolumeHeader(0)

\* The control hash covers the whole of the file.
IsVolume(cells) ==
    /\ cells # <<>> /\ cells[1] >= VolumeHeader(0)
    /\ \A k \in 2 .. Len(cells) : cells[k] \in Values
    /\ Len(cells) = 1 + IF VolumeOf(cells) = 0 THEN 0 ELSE set.blocksize

VolumeFiles(lost) ==
    {name \in FindFiles(disk, LAMBDA n : IsPar1(n) /\ Base(n) = Base(repairer.parfile))
                \cup {repairer.parfile} \cup {e \in ToSet(repairer.extrafiles) : IsPar1(e)} :
       FileExists(disk, name) /\ name \notin lost /\ IsVolume(disk[name])}

\* Volume number v holds the recovery block of exponent v - 1.
Volumes(names) ==
    [e \in {VolumeOf(disk[name]) - 1 : name \in names} \ {-1} |->
       Block(CHOOSE name \in names : VolumeOf(disk[name]) = e + 1, 1, set.blocksize)]

\* Without any volume there are no files to be verified.
LoadRecoveryFiles ==
    LET loaded(lost) ==
          LET names == VolumeFiles(lost)
              files == IF names = {} THEN <<>>
                       ELSE [i \in DOMAIN set.files |-> SourceFile(set.files[i], TRUE, TRUE, 1)]
          IN  repairer' = [repairer EXCEPT !.files = files, !.recovery = Volumes(names),
                             !.blocksize = IF names = {} THEN 0 ELSE set.blocksize,
                             !.todo = DOMAIN files]
    IN  /\ at = "load" /\ repairer.version = "par1"
        /\ \/ loaded({}) /\ NoFault
           \/ (\E name \in VolumeFiles({}) : loaded({name})) /\ Fault
        /\ Goto("verify")
        /\ UNCHANGED <<disk, creator, set>>

\* The file that was looked for comes before one not matched before; an empty
\* file matches none.
Match1(r, name) ==
    LET same == {i \in DOMAIN r.files : r.files[i].content = disk[name]}
        own == {i \in same : r.files[i].target = name}
        free == {i \in same : r.files[i].complete = NoName}
    IN  IF disk[name] = <<>> THEN {} ELSE IF own # {} THEN own ELSE free
VerifyDataFile1(r, name) ==
    LET match == Match1(r, name) IN
    {IF match = {} THEN r
     ELSE [r EXCEPT !.files[Min(match)].complete = name,
                    !.files[Min(match)].blocks = <<Block(name, 0, Len(disk[name]))>>]}

\* In the order of the list.
InOrder(files) == IF files = {} THEN {} ELSE {Min(files)}

VerifySourceFiles1 ==
    /\ at = "verify" /\ repairer.version = "par1"
    /\ VerifyTarget(InOrder(repairer.todo), VerifyDataFile1, Updated)
    /\ UNCHANGED <<disk, creator, set, at, result>>

VerifyExtraFiles1 ==
    /\ at = "extras" /\ repairer.version = "par1"
    /\ VerifyExtra(VerifyDataFile1, LAMBDA r, name, k : r, IsPar1)
    /\ UNCHANGED <<disk, creator, set, at, result>>

CheckVerificationResults1 ==
    /\ at = "extras" /\ repairer.version = "par1" /\ ExtrasVerified
    /\ Checked(Cardinality({i \in Files : repairer.files[i].complete = NoName}))
    /\ UNCHANGED <<disk, faults, creator, set>>

RenameTargetFiles1 == at = "rename" /\ repairer.version = "par1" /\ Renaming

\* SetTargetBlock: one block, as long as the file.
CreateTargetFiles1 ==
    /\ at = "targets" /\ repairer.version = "par1"
    /\ Creation(<<Block(NextLacking.name, 0, Len(NextLacking.content))>>)

\* The volumes are taken by their numbers.
ComputeRSmatrix1 ==
    LET exponents == SelectSeq([e \in 1 .. Limit |-> e - 1],
                               LAMBDA e : e \in DOMAIN repairer.recovery)
        blocks == AllBlocks
    IN  /\ at = "targets" /\ repairer.version = "par1" /\ None(Lacking)
        /\ WithMatrix(blocks, SubSeq(exponents, 1, MissingFrom(blocks)), Bases8(Len(blocks)))

AllocateBuffers1 ==
    /\ at = "buffers" /\ repairer.version = "par1" /\ Goto("recover")
    /\ Only2([repairer EXCEPT !.chunksize =
                ChunkSize(repairer.blocksize, Len(repairer.verifylist), repairer.memorylimit)])

ProcessData1 ==
    LET length == ChunkLength(repairer) IN
    /\ at = "recover" /\ repairer.version = "par1"
    /\ Processed(<<>>, OutputWrites(length), CanReadAll(ToSet(repairer.inputblocks), length))

VerifyTargetFiles1 ==
    /\ at = "reverify" /\ repairer.version = "par1"
    /\ \E i \in InOrder(ToSet(repairer.verifylist) \ repairer.todo) : Reverify(VerifyDataFile1, i)

DeleteIncompleteTargetFiles1 == at = "delete" /\ repairer.version = "par1" /\ Deletion

Par1Step ==
    \/ LoadRecoveryFiles \/ VerifySourceFiles1 \/ VerifyExtraFiles1
    \/ CheckVerificationResults1 \/ RenameTargetFiles1 \/ CreateTargetFiles1
    \/ ComputeRSmatrix1 \/ AllocateBuffers1 \/ ProcessData1 \/ VerifyTargetFiles1
    \/ DeleteIncompleteTargetFiles1
=============================================================================
