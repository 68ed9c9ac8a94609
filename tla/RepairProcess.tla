---------------------------- MODULE RepairProcess ----------------------------
(***************************************************************************)
(* Par2Repairer::Process: verification and repair of the files on disk,    *)
(* one action for each of the functions it calls in turn, and for each     *)
(* file where those loop over files.  Loading the packets, scanning the    *)
(* files and the pipeline of ProcessData are in modules of their own       *)
(* (PacketLoading, ScanVerify, RepairPipeline): here they are one step     *)
(* with the outcome those modules show.  A DiskFile is known by the name   *)
(* it has at the moment.                                                   *)
(***************************************************************************)
EXTENDS CreateProcess

CONSTANT Breaks  \* where the reading of a file with packets may break off

ASSUME RepairAssumption == Breaks \subseteq Nat

VARIABLE repairer  \* the Par2Repairer, or the Par1Repairer

NewRepairer(c) ==
    [version |-> c.version, dorepair |-> c.operation = "repair", parfile |-> c.parfile,
     extrafiles |-> Names(c.extrafiles), memorylimit |-> c.memorylimit, blocksize |-> 0,
     files |-> <<>>, recovery |-> <<>>, completefilecount |-> 0, todo |-> {},
     finalresult |-> TRUE, unopened |-> {}, possible |-> FALSE, verifylist |-> <<>>,
     inputblocks |-> <<>>, copyblocks |-> <<>>, outputblocks |-> <<>>,
     matrix |-> NoMatrix, chunksize |-> 0, blockoffset |-> 0]

Nothing == NewRepairer(Settings0("verify"))
Files == DOMAIN repairer.files
Only2(r) == repairer' = r /\ UNCHANGED <<disk, faults, creator, set>>

-----------------------------------------------------------------------------
(* Loading (module PacketLoading) *)

PacketFiles ==
    {name \in FindFiles(disk, LAMBDA n : IsPar2(n) /\ Base(n) = Base(repairer.parfile))
                \cup {repairer.parfile}
                \cup {e \in ToSet(repairer.extrafiles) : HasPar2(e)} : FileExists(disk, name)}

IsWhole(cells, k) ==
    /\ IsRecovery(cells[k]) /\ k + set.blocksize <= Len(cells)
    /\ \A i \in k + 1 .. k + set.blocksize : cells[i] \in Values
RecoveryPackets(d) ==
    {p \in UNION {{name} \X DOMAIN d[name] : name \in PacketFiles} : IsWhole(d[p[1]], p[2])}
RecoveryMap(d) ==
    LET packets == RecoveryPackets(d)
        exponent(p) == d[p[1]][p[2]] - RecoveryHeader(0)
        last(e) == CHOOSE p \in packets : exponent(p) = e
    IN  [e \in {exponent(p) : p \in packets} |-> Block(last(e)[1], last(e)[2], set.blocksize)]

\* A file of the set, and what is known of it.
SourceFile(file, described, verifiable, count) ==
    [name |-> file.name, content |-> file.content, described |-> described,
     verifiable |-> verifiable, target |-> NoName, complete |-> NoName,
     blocks |-> [k \in 1 .. count |-> NoBlock], targets |-> [k \in 1 .. count |-> NoBlock]]

Loaded(d) ==
    LET packets == UNION {ToSet(d[name]) : name \in PacketFiles} IN
    IF MainPacket \notin packets THEN End("InsufficientCriticalData") /\ UNCHANGED repairer
    ELSE LET files == [i \in DOMAIN set.files |->
                LET file == set.files[i] IN
                SourceFile(file, DescriptionPacket(file.name) \in packets,
                           VerificationPacket(file.name) \in packets,
                           CeilDiv(Len(file.content), set.blocksize))]
         IN  /\ repairer' = [repairer EXCEPT
                   !.blocksize = set.blocksize, !.files = files, !.recovery = RecoveryMap(d),
                   !.todo = {i \in DOMAIN files : files[i].described},
                   !.finalresult = \A i \in DOMAIN files : files[i].described]
             /\ Goto("verify")

\* A file cannot be read, or not to its end.
Truncated ==
    UNION {{Put(disk, name, SubSeq(disk[name], 1, k)) : k \in {b \in Breaks : b < Len(disk[name])}} :
             name \in PacketFiles}
LoadPackets ==
    /\ at = "load" /\ repairer.version = "par2"
    /\ \/ Loaded(disk) /\ NoFault
       \/ (\E d \in Truncated : Loaded(d)) /\ Fault
    /\ UNCHANGED <<disk, creator, set>>

-----------------------------------------------------------------------------
(* Verification (module ScanVerify).  No two blocks of the files are equal. *)

DataOf(r, i, k) ==
    LET size == Len(r.files[i].content)
    IN  SubSeq(r.files[i].content, (k - 1) * r.blocksize + 1, Min2(k * r.blocksize, size))
IsAt(cells, offset, data) ==
    offset >= 0 /\ offset + Len(data) <= Len(cells)
      /\ SubSeq(cells, offset + 1, offset + Len(data)) = data

\* A short block is found at the end of a file or behind the block before it.
Offsets(r, cells, i, k) ==
    LET data == DataOf(r, i, k)
    IN  {o \in 0 .. Len(cells) :
           /\ IsAt(cells, o, data)
           /\ \/ Len(data) = r.blocksize \/ o + Len(data) = Len(cells)
              \/ k > 1 /\ IsAt(cells, o - r.blocksize, DataOf(r, i, k - 1))}

\* The blocks of the disk's file that are found up to there.
WithBlocks(r, name, upto) ==
    LET where(i, k) == {o \in Offsets(r, disk[name], i, k) : o + Len(DataOf(r, i, k)) <= upto}
        found(i, k) ==
          LET b == r.files[i].blocks[k] IN
          IF IsSet(b) \/ ~r.files[i].verifiable \/ where(i, k) = {} THEN b
          ELSE Block(name, Min(where(i, k)), Len(DataOf(r, i, k)))
    IN  [r EXCEPT !.files = [i \in DOMAIN r.files |->
           [r.files[i] EXCEPT !.blocks = [k \in DOMAIN r.files[i].blocks |-> found(i, k)]]]]
WithComplete(r, name, i) ==
    [r EXCEPT !.files[i].complete = name,
              !.files[i].blocks = [k \in DOMAIN @ |->
                  Block(name, (k - 1) * r.blocksize, Len(DataOf(r, i, k)))]]

\* The files that this one is a complete copy of, none having been found before.
CopyOfBySize(r, name) ==
    {i \in DOMAIN r.files : /\ Len(r.files[i].content) = Len(disk[name])
                            /\ r.files[i].complete = NoName /\ r.files[i].described}
CopyOf(r, name) ==
    {i \in DOMAIN r.files : /\ r.files[i].content = disk[name]
                            /\ r.files[i].complete = NoName /\ r.files[i].described}

\* What VerifyDataFile makes of the file.  If no file at all has a verification
\* packet the hashes that are compared were not computed: any outcome.
Verified(r, name) ==
    IF CopyOf(r, name) = {} THEN {WithBlocks(r, name, Len(disk[name]))}
    ELSE {WithComplete(r, name, i) : i \in CopyOf(r, name)}
           \cup IF \E i \in DOMAIN r.files : r.files[i].verifiable THEN {} ELSE {r}

IsComplete(file) == file.target # NoName /\ file.complete = file.target
CompleteCount(r) == Cardinality({i \in DOMAIN r.files : IsComplete(r.files[i])})
Updated(r) == [r EXCEPT !.completefilecount = CompleteCount(r)]

\* One of the target files, which if it cannot be opened is taken for missing.
VerifyTarget(candidates, Verify(_, _), Tally(_)) ==
    \E i \in candidates :
      LET name == repairer.files[i].name
          done == [repairer EXCEPT !.todo = @ \ {i}]
          opened == [done EXCEPT !.files[i].target = name]
      IN  \/ /\ FileExists(disk, name) /\ NoFault
             /\ \E r \in Verify(opened, name) : repairer' = Tally(r)
          \/ /\ FileExists(disk, name) /\ Fault
             /\ repairer' \in {[opened EXCEPT !.finalresult = FALSE],
                               [done EXCEPT !.unopened = @ \cup {name}]}
          \/ ~FileExists(disk, name) /\ NoFault /\ repairer' = done

\* The target files are sorted by name, or taken by several threads: any order.
\* VerifyOneSourceFile leaves the counting to its caller.
VerifyOneSourceFile ==
    /\ at = "verify" /\ repairer.version = "par2"
    /\ VerifyTarget(repairer.todo, Verified, LAMBDA r : r)
    /\ UNCHANGED <<disk, creator, set, at, result>>

SourceFilesVerified ==
    /\ at = "verify" /\ repairer.todo = {}
    /\ IF repairer.finalresult THEN Goto("extras") ELSE End("FileIOError")
    /\ UNCHANGED <<disk, faults, creator, set, repairer>>

\* The next extra file, unless everything is complete.
VerifyExtra(Verify(_, _), Partly(_, _, _), Skip(_)) ==
    LET name == Head(repairer.extrafiles)
        rest == [repairer EXCEPT !.extrafiles = Tail(@)]
    IN  /\ repairer.extrafiles # <<>> /\ repairer.completefilecount < Len(repairer.files)
        /\ IF Skip(name) \/ ~FileExists(disk, name)
                \/ \E i \in Files : repairer.files[i].target = name
           THEN repairer' = rest /\ NoFault
           ELSE \/ \E r \in Verify(rest, name) : repairer' = Updated(r) /\ NoFault
                \/ \E k \in 0 .. Len(disk[name]) - 1 :
                     repairer' = Updated(Partly(rest, name, k)) /\ Fault
VerifyExtraFiles ==
    /\ at = "extras" /\ repairer.version = "par2"
    /\ VerifyExtra(Verified, WithBlocks, HasPar2)
    /\ UNCHANGED <<disk, creator, set, at, result>>

MissingFrom(blocks) == Len(SelectSeq(blocks, LAMBDA b : ~IsSet(b)))
MissingCount(r) ==
    Total([i \in DOMAIN r.files |->
             IF r.files[i].complete # NoName THEN 0 ELSE MissingFrom(r.files[i].blocks)])

\* UpdateVerificationResults, then CheckVerificationResults.
Checked(missing) ==
    LET r == Updated(repairer)
        complete == r.completefilecount = Len(r.files)
        possible == Cardinality(DOMAIN r.recovery) >= missing
    IN  /\ repairer' = [r EXCEPT !.possible = ~complete /\ possible]
        /\ IF complete THEN End("Success")
           ELSE IF ~possible THEN End("RepairNotPossible")
           ELSE IF ~r.dorepair THEN End("RepairPossible")
           ELSE Goto("rename")
ExtrasVerified ==
    repairer.extrafiles = <<>> \/ repairer.completefilecount >= Len(repairer.files)
CheckVerificationResults ==
    /\ at = "extras" /\ repairer.version = "par2" /\ ExtrasVerified
    /\ Checked(MissingCount(repairer))
    /\ UNCHANGED <<disk, faults, creator, set>>

-----------------------------------------------------------------------------
(* The target files *)

RenamedFilesOnly(r, from, to) ==
    LET now(name) == IF name = from THEN to ELSE name
    IN  [r EXCEPT !.files = [i \in DOMAIN r.files |->
           [r.files[i] EXCEPT !.target = now(@), !.complete = now(@)]]]
\* Whoever refers to the DiskFile finds it under its new name.
Renamed(r, from, to) ==
    LET now(name) == IF name = from THEN to ELSE name
    IN  [r EXCEPT !.files = [i \in DOMAIN r.files |->
           [r.files[i] EXCEPT !.target = now(@), !.complete = now(@),
              !.blocks = [k \in DOMAIN r.files[i].blocks |->
                            [r.files[i].blocks[k] EXCEPT !.file = now(@)]]]]]

Damaged(file) == file.target # NoName /\ file.target # file.complete
Misnamed(file) == file.target = NoName /\ file.complete # NoName
First(Like(_)) == Min({i \in Files : Like(repairer.files[i])})
None(Like(_)) == \A i \in Files : ~Like(repairer.files[i])

RenameDamaged ==
    LET i == First(Damaged)
        from == repairer.files[i].target
        to == NewName(disk, from)
    IN  \/ /\ disk' = Rename(disk, from, to)
           /\ repairer' = [Renamed(repairer, from, to) EXCEPT !.files[i].target = NoName]
           /\ NoFault /\ UNCHANGED <<at, result>>
        \/ Fault /\ End("FileIOError") /\ UNCHANGED <<disk, repairer>>
RenameMisnamed ==
    LET i == First(Misnamed)
        from == repairer.files[i].complete
        to == repairer.files[i].name
    IN  \/ /\ disk' = Rename(disk, from, to)
           /\ repairer' = [Renamed(repairer, from, to) EXCEPT !.files[i].target = to,
                             !.completefilecount = @ + 1]
           /\ NoFault /\ UNCHANGED <<at, result>>
        \/ Fault /\ End("FileIOError") /\ UNCHANGED <<disk, repairer>>
\* "Are we still missing any files"
AllRenamed ==
    /\ IF repairer.completefilecount = Len(repairer.files) THEN End("Success") ELSE Goto("targets")
    /\ UNCHANGED <<disk, faults, repairer>>
Renaming ==
    /\ IF ~None(Damaged) THEN RenameDamaged
       ELSE IF ~None(Misnamed) THEN RenameMisnamed ELSE AllRenamed
    /\ UNCHANGED <<creator, set>>

RenameTargetFiles == at = "rename" /\ repairer.version = "par2" /\ Renaming

\* The next target file is created, with room for the blocks it is to have.
Lacking(file) == file.target = NoName
NextLacking == repairer.files[First(Lacking)]
Creation(targets) ==
    LET i == First(Lacking)
        file == repairer.files[i]
    IN  /\ ~None(Lacking)
        /\ \/ /\ disk' = Create(disk, file.name, Len(file.content))
              /\ repairer' = [repairer EXCEPT !.files[i].target = file.name,
                                !.files[i].targets = targets,
                                !.verifylist = Append(@, i)]
              /\ NoFault /\ UNCHANGED <<at, result>>
           \/ /\ disk' \in CreateFailures(disk, file.name)
              /\ Fault /\ End("FileIOError") /\ UNCHANGED repairer
        /\ UNCHANGED <<creator, set>>
CreateTargetFiles ==
    /\ at = "targets" /\ repairer.version = "par2"
    /\ Creation(BlocksOf(NextLacking.name, Len(NextLacking.content), repairer.blocksize))

-----------------------------------------------------------------------------
(* The data *)

\* The blocks of all files, numbered: <<i, k>> is block k of file i.
Slots ==
    LET pairs == UNION {{<<i, k>> : k \in DOMAIN repairer.files[i].blocks} : i \in Files}
        number(p) == Cardinality({q \in pairs : q[1] < p[1]}) + p[2]
    IN  [n \in {number(p) : p \in pairs} |-> CHOOSE p \in pairs : number(p) = n]
AllBlocks ==
    LET slots == Slots IN [n \in DOMAIN slots |-> repairer.files[slots[n][1]].blocks[slots[n][2]]]

\* Which blocks are read, copied to the file they belong into, if that was
\* created, and computed: of the recovery blocks these, in this order.
WithMatrix(blocks, exponents, base) ==
    LET slots == Slots
        target(n) == repairer.files[slots[n][1]].targets[slots[n][2]]
        present == [n \in DOMAIN slots |-> IsSet(blocks[n])]
        missing == {n \in DOMAIN slots : ~present[n]}
        copied == {n \in DOMAIN slots \ missing : IsSet(target(n))}
        matrix == Compute(base, present,
                          [k \in DOMAIN exponents |-> OutputRow(TRUE, exponents[k])])
    IN  /\ repairer' = [repairer EXCEPT !.matrix = matrix,
              !.inputblocks = SelectSeq(blocks, IsSet)
                                \o [k \in DOMAIN exponents |-> repairer.recovery[exponents[k]]],
              !.copyblocks = [n \in copied |-> <<blocks[n], target(n)>>],
              !.outputblocks = [n \in missing |-> target(n)]]
        /\ Goto(IF missing # {} /\ matrix = NoMatrix THEN "delete" ELSE "buffers")
        /\ UNCHANGED <<disk, faults, creator, set>>

\* The order of the map's entries is that of their hashes: any.
ComputeRSmatrix ==
    LET blocks == AllBlocks IN
    /\ at = "targets" /\ repairer.version = "par2" /\ None(Lacking)
    /\ \E used \in kSubset(MissingFrom(blocks), DOMAIN repairer.recovery) :
         \E exponents \in SetToSeqs(used) : WithMatrix(blocks, exponents, Bases16(Len(blocks)))

AllocateBuffers ==
    /\ at = "buffers" /\ repairer.version = "par2" /\ Goto("recover")
    /\ Only2([repairer EXCEPT !.chunksize =
                ChunkSize(repairer.blocksize, Cardinality(DOMAIN repairer.outputblocks), repairer.memorylimit)])

\* One chunk: what is written where.
CopyWrites(length) ==
    [n \in DOMAIN repairer.copyblocks |->
       <<repairer.copyblocks[n][2], repairer.blockoffset,
         ReadData(disk, repairer.copyblocks[n][1], repairer.blockoffset, length)>>]
OutputWrites(length) ==
    LET inputs == [k \in DOMAIN repairer.inputblocks |->
                     AsValues(ReadData(disk, repairer.inputblocks[k], repairer.blockoffset, length))]
        outputs == Outputs(repairer.matrix, inputs, length)
        row(n) == Cardinality({m \in DOMAIN repairer.outputblocks : m <= n})
    IN  [n \in DOMAIN repairer.outputblocks |->
           <<repairer.outputblocks[n], repairer.blockoffset, outputs[row(n)]>>]

\* All are read if something is computed, else those that are copied.
BlocksRead ==
    IF repairer.outputblocks # <<>> THEN ToSet(repairer.inputblocks)
    ELSE {c[1] : c \in ToSet(repairer.copyblocks)}
CanReadAll(blocks, length) ==
    \A b \in blocks : CanReadData(disk, b, repairer.blockoffset, length)

\* An asynchronous write of nothing fails: the end of a short block.
CanCopy ==
    repairer.outputblocks = <<>>
    \/ \A c \in ToSet(repairer.copyblocks) : repairer.blockoffset < c[2].length

\* The chunk is written and the next one begins; or some of it is written.
Processed(copies, outputs, able) ==
    LET copied == AllWrites(disk, copies)
        after == repairer.blockoffset + ChunkLength(repairer)
    IN  /\ \/ /\ able
              /\ disk' = AllWrites(copied, outputs)
              /\ repairer' = [repairer EXCEPT !.blockoffset = after]
              /\ Goto(IF after < repairer.blocksize THEN "recover" ELSE "reverify")
              /\ NoFault
           \/ ~able /\ Goto("delete") /\ UNCHANGED <<disk, repairer, faults>>
           \/ /\ able
              /\ disk' \in SomeWrites(disk, copies) \cup SomeWrites(copied, outputs)
              /\ Goto("delete") /\ Fault /\ UNCHANGED repairer
        /\ UNCHANGED <<creator, set>>
ProcessData ==
    LET length == ChunkLength(repairer) IN
    /\ at = "recover" /\ repairer.version = "par2"
    /\ Processed(CopyWrites(length), OutputWrites(length),
                 CanReadAll(BlocksRead, length) /\ CanCopy)

\* The next of the files that were created; what was found of it is forgotten.
Reverify(Verify(_, _), i) ==
    LET name == repairer.files[i].target
        forgotten == [repairer EXCEPT !.files[i].complete = NoName, !.todo = @ \cup {i},
                        !.files[i].blocks = [k \in DOMAIN @ |-> NoBlock]]
    IN  /\ \/ \E r \in Verify(forgotten, name) : repairer' = Updated(r) /\ NoFault
           \/ repairer' = [forgotten EXCEPT !.finalresult = FALSE] /\ Fault
        /\ UNCHANGED <<disk, creator, set, at, result>>
VerifyTargetFiles ==
    /\ at = "reverify" /\ repairer.version = "par2"
    /\ \E i \in ToSet(repairer.verifylist) \ repairer.todo : Reverify(Verified, i)

TargetFilesVerified ==
    /\ at = "reverify" /\ repairer.todo = ToSet(repairer.verifylist)
    /\ IF ~repairer.finalresult THEN Goto("delete")
       ELSE IF repairer.completefilecount < Len(repairer.files) THEN End("RepairFailed")
       ELSE End("Success")
    /\ UNCHANGED <<disk, faults, creator, set, repairer>>

DeletionOfAll ==
    /\ disk' = DeleteAll(disk, {repairer.files[i].target : i \in Files})
    /\ repairer' = [repairer EXCEPT !.files = [i \in Files |->
                      [repairer.files[i] EXCEPT !.target = NoName]]]
    /\ End("FileIOError") /\ UNCHANGED <<faults, creator, set>>
Deletion ==
    /\ disk' = DeleteAll(disk, {repairer.files[i].target : i \in ToSet(repairer.verifylist)})
    /\ repairer' = [repairer EXCEPT !.files = [i \in Files |->
                      IF Contains(repairer.verifylist, i)
                      THEN [repairer.files[i] EXCEPT !.target = NoName] ELSE repairer.files[i]]]
    /\ End("FileIOError") /\ UNCHANGED <<faults, creator, set>>
DeleteIncompleteTargetFiles == at = "delete" /\ repairer.version = "par2" /\ Deletion

RepairStep ==
    \/ LoadPackets \/ VerifyOneSourceFile \/ SourceFilesVerified \/ VerifyExtraFiles
    \/ CheckVerificationResults \/ RenameTargetFiles \/ CreateTargetFiles
    \/ ComputeRSmatrix \/ AllocateBuffers \/ ProcessData \/ VerifyTargetFiles
    \/ TargetFilesVerified \/ DeleteIncompleteTargetFiles
=============================================================================
