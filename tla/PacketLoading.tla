--------------------------- MODULE PacketLoading ---------------------------
(***************************************************************************)
(* The first half of Par2Repairer::Process: which PAR2 files are opened,   *)
(* what their packets add to the tables, and what the tables are then made *)
(* into.  The file named on the command line is loaded first; the others   *)
(* of its set go through a tbb::pipeline whose only stage is parallel, so  *)
(* several threads fill the same tables.                                   *)
(*                                                                         *)
(* recoverypacketmap, diskFileMap, mainpacket and creatorpacket have their *)
(* locks or atomics: one step each.  sourcefilemap is a std::map and setid *)
(* a plain 16-byte value: looking up, inserting and copying take steps of  *)
(* their own, and what two inserts at once may leave behind is a choice.   *)
(* A crash, the other outcome of that race, is not modelled.               *)
(***************************************************************************)
EXTENDS Naturals, FiniteSets, SequencesExt

CONSTANTS
    Directory,   \* the files there are; a name is the sequence of its dot-separated parts
    ParFile,     \* the name given on the command line
    ExtraFiles,  \* the further names given there, in order
    Threads,     \* the threads of the pipeline
    SetIds,      \* recovery sets that the files' packets may belong to
    FileIds,     \* the fileids that packets may name
    Exponents,   \* the exponents of recovery packets
    Layouts,     \* what the files may hold: functions from Directory to sequences of pieces
    Levels       \* concurrent_processing_level: {TRUE} for ALL_CONCURRENT, {FALSE} below

None == [type |-> "none"]
Callers == CHOOSE t \in Threads : TRUE

\* A piece of a file is a packet, whole or not, or something that cannot be
\* read.  Anything else between the packets only moves the search on.
\* fits: its length is one that its type may have, and all of it can be read.
Packet ==
    [type : {"main"}, set : SetIds, fits : BOOLEAN, blocksize : Nat, ids : Seq(FileIds),
     recoverable : Nat]
      \cup [type : {"description"}, set : SetIds, fits : BOOLEAN, id : FileIds, size : Nat,
            hashesAgree : BOOLEAN]
      \cup [type : {"verification"}, set : SetIds, fits : BOOLEAN, id : FileIds, blocks : Nat]
      \cup [type : {"recovery"}, set : SetIds, fits : BOOLEAN, exponent : Exponents, size : Nat]
      \cup [type : {"creator"}, set : SetIds, fits : BOOLEAN]
Piece == Packet \cup [type : {"damaged", "unreadable"}]

ASSUME LoadingAssumption ==
    /\ Threads # {} /\ IsFiniteSet(Threads)
    /\ IsFiniteSet(Directory) /\ IsFiniteSet(Exponents)
    /\ Levels \subseteq BOOLEAN
    /\ \A layout \in Layouts : layout \in [Directory -> Seq(Piece)]

VARIABLES
    disk,             \* disk[f]: the pieces of file f
    concurrent,       \* whether the pipeline is used
    phase,            \* how far Process has got
    next,             \* idx_: the next name on the current list
    task,             \* task[t]: the file thread t loads, and how far it is
    firstpacket, setid,
    mainpacket, creatorpacket,
    recoverypacketmap,\* recoverypacketmap[e]: <<file, position>> of a packet, or <<>>
    sourcefilemap,    \* sourcefilemap[id]: its two packets, or None
    loaded,           \* the files in diskFileMap
    blockcount,       \* blockcount[f]: GetBlockCount() of the DiskFile
    sourcefiles,      \* the entries of the main packet, in order, None where nothing is known
    sourceblocks,     \* sourceblocks[i]: first block and number of blocks given to sourcefiles[i]
    verifiable        \* which of sourcefiles are block verifiable

tables == <<mainpacket, creatorpacket, recoverypacketmap>>
idVars == <<firstpacket, setid>>
results == <<sourcefiles, sourceblocks, verifiable>>
vars == <<disk, concurrent, phase, next, task, idVars, tables, sourcefilemap,
          loaded, blockcount, results>>

Idle == [pc |-> "idle", file |-> <<>>, pos |-> 0, packets |-> 0, recovery |-> 0, seen |-> <<>>]
Started(f) == [pc |-> "scan", file |-> f, pos |-> 1, packets |-> 0, recovery |-> 0, seen |-> <<>>]

Init ==
    /\ disk \in Layouts
    /\ concurrent \in Levels
    /\ phase = "par"
    /\ next = 1
    /\ task = [t \in Threads |-> Idle]
    /\ firstpacket = TRUE
    /\ setid = <<"none", "none">>
    /\ mainpacket = None /\ creatorpacket = None
    /\ recoverypacketmap = [e \in Exponents |-> <<>>]
    /\ sourcefilemap = [id \in FileIds |-> None]
    /\ loaded = {}
    /\ blockcount = [f \in Directory |-> 0]
    /\ sourcefiles = <<>> /\ sourceblocks = <<>> /\ verifiable = {}

(* The names of the files to load *)

HasPar2(name) == \E i \in 2 .. Len(name) : name[i] = "par2"

\* What follows the last ".par2" goes, and that too; without one everything
\* after the first dot goes.  Then one part like vol123+456 goes.
BaseName(name) ==
    LET stems == {i \in 1 .. Len(name) - 1 : name[i + 1] = "par2"}
        stem  == IF stems = {} THEN 1 ELSE CHOOSE i \in stems : \A j \in stems : j <= i
    IN  SubSeq(name, 1, IF stem > 1 /\ name[stem] = "vol" THEN stem - 1 ELSE stem)

\* base.*.par2
Matches(name, base) ==
    /\ Len(name) >= Len(base) + 2
    /\ IsPrefix(base, name)
    /\ Last(name) = "par2"

OtherFiles == SetToSeq({f \in Directory : Matches(f, BaseName(ParFile))})

Names == CASE phase = "par"    -> <<ParFile>>
           [] phase = "others" -> OtherFiles
           [] phase = "extra"  -> SelectSeq(ExtraFiles, HasPar2)
           [] OTHER            -> <<>>

MayTake(t) ==
    \/ concurrent /\ phase = "others"
    \/ t = Callers /\ \A u \in Threads : task[u] = Idle

\* The next name is taken.  A file that packets were loaded from before is
\* skipped, as is one that cannot be opened.
Take(t) ==
    /\ task[t].pc = "idle" /\ next <= Len(Names) /\ MayTake(t)
    /\ LET f == Names[next] IN
         task' = IF f \in loaded \/ f \notin Directory THEN task
                 ELSE [task EXCEPT ![t] = Started(f)]
    /\ next' = next + 1
    /\ UNCHANGED <<disk, concurrent, phase, idVars, tables, sourcefilemap, loaded,
                   blockcount, results>>

AfterLoading == [par |-> "others", others |-> "extra", extra |-> "check"]

NextList ==
    /\ phase \in DOMAIN AfterLoading
    /\ next > Len(Names) /\ \A t \in Threads : task[t] = Idle
    /\ phase' = AfterLoading[phase] /\ next' = 1
    /\ UNCHANGED <<disk, concurrent, task, idVars, tables, sourcefilemap, loaded,
                   blockcount, results>>

(* The packets of one file *)

WholeUnlessUnreadable(p) == p.type # "unreadable"
Whole(p) == p.type \notin {"damaged", "unreadable"}

\* The search stops at what cannot be read and passes by what is damaged.
Stops(f, i) == disk[f][i].type = "unreadable" \/ Whole(disk[f][i])
NextPacket(f, i) ==
    LET ahead == {j \in i .. Len(disk[f]) : Stops(f, j)}
    IN  IF ahead = {} THEN Len(disk[f]) + 1 ELSE CHOOSE j \in ahead : \A k \in ahead : j <= k

Current(t) == disk[task[t].file][task[t].pos]
Scanning(t, pc) == task[t].pc = pc

\* The next packet whose hash is right; the first of all decides about the set.
FindPacket(t) ==
    /\ Scanning(t, "scan")
    /\ LET f == task[t].file
           i == NextPacket(f, task[t].pos)
       IN  task' = [task EXCEPT ![t].pos = i,
                      ![t].pc = IF i > Len(disk[f]) \/ ~Whole(disk[f][i]) THEN "close"
                                ELSE IF firstpacket THEN "claim" ELSE "load"]
    /\ UNCHANGED <<disk, concurrent, phase, next, idVars, tables, sourcefilemap, loaded,
                   blockcount, results>>

\* setid is copied in two halves, then firstpacket is cleared.
ClaimSet(t) ==
    /\ Scanning(t, "claim")
    /\ setid' = <<Current(t).set, setid[2]>>
    /\ task' = [task EXCEPT ![t].pc = "claiming"]
    /\ UNCHANGED <<disk, concurrent, phase, next, firstpacket, tables, sourcefilemap,
                   loaded, blockcount, results>>
SetClaimed(t) ==
    /\ Scanning(t, "claiming")
    /\ setid' = <<setid[1], Current(t).set>>
    /\ firstpacket' = FALSE
    /\ task' = [task EXCEPT ![t].pc = "load"]
    /\ UNCHANGED <<disk, concurrent, phase, next, tables, sourcefilemap, loaded,
                   blockcount, results>>

AnySet(p) == TRUE
SameSet(p) == setid = <<p.set, p.set>>

\* What the Load functions of the packets accept.
MainLoads(p) ==
    p.fits /\ p.recoverable <= Len(p.ids) /\ p.blocksize # 0 /\ p.blocksize % 4 = 0
DescriptionLoads(p) == p.fits /\ (p.size <= 16384 => p.hashesAgree)
VerificationLoads(p) == p.fits /\ p.blocks > 0
RecoveryLoads(p) == p.fits /\ p.size > 0
CreatorLoads(p) == p.fits

Loads(p) ==
    CASE p.type = "main"         -> MainLoads(p)
      [] p.type = "description"  -> DescriptionLoads(p)
      [] p.type = "verification" -> VerificationLoads(p)
      [] p.type = "recovery"     -> RecoveryLoads(p)
      [] p.type = "creator"      -> CreatorLoads(p)

Interesting(p) == SameSet(p) /\ Loads(p)

\* Thread t goes on behind the packet, having used or dropped it.
Onwards(t, used) ==
    task' = [task EXCEPT ![t].pc = "scan", ![t].pos = @ + 1, ![t].seen = <<>>,
               ![t].packets = IF used THEN @ + 1 ELSE @]

SkipPacket(t) ==
    /\ Scanning(t, "load") /\ ~Interesting(Current(t))
    /\ Onwards(t, FALSE)
    /\ UNCHANGED <<disk, concurrent, phase, next, idVars, tables, sourcefilemap, loaded,
                   blockcount, results>>

\* Every recovery packet counts, whether its exponent is new or not; the map
\* keeps the last.
CountedIfNew(exponent) == recoverypacketmap[exponent] = <<>>
Counted(exponent) == TRUE
LoadRecoveryPacket(t) ==
    /\ Scanning(t, "load") /\ Interesting(Current(t)) /\ Current(t).type = "recovery"
    /\ recoverypacketmap' = [recoverypacketmap EXCEPT
                               ![Current(t).exponent] = <<task[t].file, task[t].pos>>]
    /\ task' = [task EXCEPT ![t].pc = "scan", ![t].pos = @ + 1, ![t].packets = @ + 1,
                  ![t].recovery = IF Counted(Current(t).exponent) THEN @ + 1 ELSE @]
    /\ UNCHANGED <<disk, concurrent, phase, next, idVars, mainpacket, creatorpacket,
                   sourcefilemap, loaded, blockcount, results>>

\* Test and compare_and_swap come to one atomic step.
LoadMainPacket(t) ==
    /\ Scanning(t, "load") /\ Interesting(Current(t)) /\ Current(t).type = "main"
    /\ mainpacket' = IF mainpacket = None THEN Current(t) ELSE mainpacket
    /\ Onwards(t, mainpacket = None)
    /\ UNCHANGED <<disk, concurrent, phase, next, idVars, creatorpacket, recoverypacketmap,
                   sourcefilemap, loaded, blockcount, results>>

LoadCreatorPacket(t) ==
    /\ Scanning(t, "load") /\ Interesting(Current(t)) /\ Current(t).type = "creator"
    /\ creatorpacket' = IF creatorpacket = None THEN Current(t) ELSE creatorpacket
    /\ Onwards(t, creatorpacket = None)
    /\ UNCHANGED <<disk, concurrent, phase, next, idVars, mainpacket, recoverypacketmap,
                   sourcefilemap, loaded, blockcount, results>>

(* Description and verification packets: look up, then attach or insert *)

OfFile(p) == p.type \in {"description", "verification"}
NewEntry(p) == [[description |-> None, verification |-> None] EXCEPT ![p.type] = p]
Known(id) == sourcefilemap[id] # None
HasAnyPacket(entry, type) == entry # None
HasPacket(entry, type) == entry[type] # None

LookUpFile(t) ==
    /\ Scanning(t, "load") /\ Interesting(Current(t)) /\ OfFile(Current(t))
    /\ LET p == Current(t) IN
         IF ~Known(p.id) THEN task' = [task EXCEPT ![t].pc = "insert"]
         ELSE IF HasPacket(sourcefilemap[p.id], p.type) THEN Onwards(t, FALSE)
         ELSE task' = [task EXCEPT ![t].pc = "attach"]
    /\ UNCHANGED <<disk, concurrent, phase, next, idVars, tables, sourcefilemap, loaded,
                   blockcount, results>>

\* The entry found may meanwhile have been lost from the map.
AttachPacket(t) ==
    /\ Scanning(t, "attach")
    /\ LET p == Current(t) IN
         sourcefilemap' = IF Known(p.id) THEN [sourcefilemap EXCEPT ![p.id][p.type] = p]
                          ELSE sourcefilemap
    /\ Onwards(t, TRUE)
    /\ UNCHANGED <<disk, concurrent, phase, next, idVars, tables, loaded, blockcount, results>>

\* insert walks the tree; if the id is there by now the new entry is dropped,
\* though LoadPacketsFromFile counts it.
BeginInsert(t) ==
    /\ Scanning(t, "insert")
    /\ IF Known(Current(t).id) THEN Onwards(t, TRUE)
       ELSE task' = [task EXCEPT ![t].pc = "link", ![t].seen = sourcefilemap]
    /\ UNCHANGED <<disk, concurrent, phase, next, idVars, tables, sourcefilemap, loaded,
                   blockcount, results>>

\* insert links the new node where the walk ended: next to what was linked
\* since, or in its place.
LinkEntry(t) ==
    /\ Scanning(t, "link")
    /\ LET p == Current(t) IN
         \E base \in {sourcefilemap,
                      [id \in FileIds |-> IF task[t].seen[id] = None THEN None
                                          ELSE sourcefilemap[id]]} :
           sourcefilemap' = [base EXCEPT ![p.id] = NewEntry(p)]
    /\ Onwards(t, TRUE)
    /\ UNCHANGED <<disk, concurrent, phase, next, idVars, tables, loaded, blockcount, results>>

\* A file that gave packets is remembered, with the number of its recovery packets.
CloseFile(t) ==
    /\ Scanning(t, "close")
    /\ IF task[t].packets > 0
       THEN /\ loaded' = loaded \cup {task[t].file}
            /\ blockcount' = [blockcount EXCEPT ![task[t].file] = task[t].recovery]
       ELSE UNCHANGED <<loaded, blockcount>>
    /\ task' = [task EXCEPT ![t] = Idle]
    /\ UNCHANGED <<disk, concurrent, phase, next, idVars, tables, sourcefilemap, results>>

(* From the tables to the source files, by one thread *)

Blocks(size) == (size + mainpacket.blocksize - 1) \div mainpacket.blocksize
At(loc) == disk[loc[1]][loc[2]]

RightSize(loc) == loc # <<>> /\ At(loc).size = mainpacket.blocksize
DescribedIsEnough(entry) == entry # None /\ entry.description # None
Consistent(entry) ==
    /\ entry # None /\ entry.description # None
    /\ entry.verification # None =>
         Blocks(entry.description.size) = entry.verification.blocks

CheckPacketConsistency ==
    /\ phase = "check"
    /\ IF mainpacket = None
       THEN phase' = "insufficient" /\ UNCHANGED <<recoverypacketmap, sourcefilemap>>
       ELSE /\ phase' = "arrange"
            /\ recoverypacketmap' = [e \in Exponents |->
                 IF RightSize(recoverypacketmap[e]) THEN recoverypacketmap[e] ELSE <<>>]
            /\ sourcefilemap' = [id \in FileIds |->
                 IF Consistent(sourcefilemap[id]) THEN sourcefilemap[id] ELSE None]
    /\ UNCHANGED <<disk, concurrent, next, task, idVars, mainpacket, creatorpacket, loaded,
                   blockcount, results>>

CreateSourceFileList ==
    /\ phase = "arrange"
    /\ sourcefiles' = [i \in DOMAIN mainpacket.ids |-> sourcefilemap[mainpacket.ids[i]]]
    /\ phase' = "allocate"
    /\ UNCHANGED <<disk, concurrent, next, task, idVars, tables, sourcefilemap, loaded,
                   blockcount, sourceblocks, verifiable>>

\* Blocks are dealt out to the recoverable files that something is known of.
BlockCount(file) == IF file = None THEN 0 ELSE Blocks(file.description.size)
FirstBlock[i \in Nat] ==
    IF i <= 1 THEN 0 ELSE FirstBlock[i - 1] + BlockCount(sourcefiles[i - 1])

AllocateSourceBlocks ==
    /\ phase = "allocate"
    /\ sourceblocks' = [i \in 1 .. mainpacket.recoverable |->
                          [first |-> FirstBlock[i], count |-> BlockCount(sourcefiles[i])]]
    /\ phase' = "prepare"
    /\ UNCHANGED <<disk, concurrent, next, task, idVars, tables, sourcefilemap, loaded,
                   blockcount, sourcefiles, verifiable>>

PrepareVerificationHashTable ==
    /\ phase = "prepare"
    /\ verifiable' = {i \in DOMAIN sourcefiles :
                        sourcefiles[i] # None /\ sourcefiles[i].verification # None}
    /\ phase' = "details"
    /\ UNCHANGED <<disk, concurrent, next, task, idVars, tables, sourcefilemap, loaded,
                   blockcount, sourcefiles, sourceblocks>>

\* VerifySourceFiles fails if nothing is known of a file.  Its count of the
\* files stays 0, so that every file passes for a recoverable one.
Recoverable(i) == mainpacket.recoverable > 0
CheckDetails ==
    /\ phase = "details"
    /\ phase' = IF \E i \in DOMAIN sourcefiles : sourcefiles[i] = None /\ Recoverable(i)
                THEN "refused" ELSE "ready"
    /\ UNCHANGED <<disk, concurrent, next, task, idVars, tables, sourcefilemap, loaded,
                   blockcount, results>>

ThreadStep(t) ==
    \/ Take(t) \/ FindPacket(t) \/ ClaimSet(t) \/ SetClaimed(t) \/ SkipPacket(t)
    \/ LoadRecoveryPacket(t) \/ LoadMainPacket(t) \/ LoadCreatorPacket(t)
    \/ LookUpFile(t) \/ AttachPacket(t) \/ BeginInsert(t) \/ LinkEntry(t) \/ CloseFile(t)

Ended == phase \in {"insufficient", "refused", "ready"}
Finished == Ended /\ UNCHANGED vars

Next ==
    \/ \E t \in Threads : ThreadStep(t)
    \/ NextList
    \/ CheckPacketConsistency \/ CreateSourceFileList \/ AllocateSourceBlocks
    \/ PrepareVerificationHashTable \/ CheckDetails
    \/ Finished

Spec == Init /\ [][Next]_vars

-----------------------------------------------------------------------------
(* Properties *)

TypeOK ==
    /\ phase \in {"par", "others", "extra", "check", "arrange", "allocate", "prepare",
                  "details", "insufficient", "refused", "ready"}
    /\ next \in Nat
    /\ \A t \in Threads :
         /\ task[t].pc \in {"idle", "scan", "claim", "claiming", "load", "attach", "insert",
                            "link", "close"}
         /\ task[t] # Idle => task[t].file \in Directory
         /\ task[t].pc \in {"claim", "claiming", "load", "attach", "insert", "link"} =>
              Current(t) \in Packet
    /\ firstpacket \in BOOLEAN /\ setid \in (SetIds \cup {"none"}) \X (SetIds \cup {"none"})
    /\ mainpacket \in Packet \cup {None} /\ creatorpacket \in Packet \cup {None}
    /\ loaded \subseteq Directory /\ blockcount \in [Directory -> Nat]

\* The packets of file f that a reader meets before it has to give up.
Met(f) == {i \in DOMAIN disk[f] : Whole(disk[f][i]) /\
                                  \A j \in 1 .. i : disk[f][j].type # "unreadable"}
LoadedPackets ==
    {mainpacket, creatorpacket}
      \cup {At(recoverypacketmap[e]) : e \in {x \in Exponents : recoverypacketmap[x] # <<>>}}
      \cup UNION {{sourcefilemap[id][type] : type \in {"description", "verification"}} :
                     id \in {x \in FileIds : Known(x)}}

\* par2repairer.cpp:594-601.  If the file named on the command line has a whole
\* packet, only packets of that packet's set are ever used, however many
\* threads load the files of other sets that happen to match the name.
OneSet ==
    LET own == Met(ParFile) IN
      ParFile \in Directory /\ own # {} =>
        LET first == disk[ParFile][CHOOSE i \in own : \A j \in own : i <= j]
        IN  \A p \in LoadedPackets \ {None} : p.set = first.set

\* par2repairer.cpp:658-683 with 700-724.  A recovery packet in the map is in a
\* file whose DiskFile lives on, and the block count of that DiskFile, which
\* the read stage of a repair counts down from, is never below the number of
\* packets the repair may read from it, though duplicates move between files.
BlockCountCovers ==
    \A f \in Directory :
      LET here == {e \in Exponents : recoverypacketmap[e] # <<>> /\ recoverypacketmap[e][1] = f}
          loading == {t \in Threads : task[t].file = f}
      IN  IF f \in loaded THEN Cardinality(here) <= blockcount[f]
          ELSE here # {} => \E t \in loading : Cardinality(here) <= task[t].recovery

\* README_FIRST.txt:496-502.  Every whole packet of the set that a file
\* offered is known once loading is over.
Offered(p) == \E f \in loaded : \E i \in Met(f) : disk[f][i] = p
NothingLost ==
    phase = "check" =>
      \A p \in UNION {Range(disk[f]) : f \in Directory} :
        p \in Packet /\ Offered(p) /\ Interesting(p) =>
          CASE OfFile(p)              -> Known(p.id) /\ sourcefilemap[p.id][p.type] # None
            [] p.type = "recovery"    -> recoverypacketmap[p.exponent] # <<>>
            [] p.type = "main"        -> mainpacket # None
            [] OTHER                  -> creatorpacket # None

\* The same where the files are loaded one after the other, from any damage.
SerialLosesNothing == ~concurrent => NothingLost

\* par2repairer.cpp:1106-1352, 1543-1577.  Verification begins only when
\* everything fits: each file is known, its verification entries are as many
\* as its blocks, the files' blocks follow each other without gap or overlap,
\* and each recovery packet has the size of a block.
DetailsFit ==
    phase = "ready" =>
      /\ \A i \in DOMAIN sourcefiles :
           mainpacket.recoverable > 0 => /\ sourcefiles[i] # None
                                         /\ sourcefiles[i].description # None
      /\ \A i \in verifiable :
           sourcefiles[i].verification.blocks = Blocks(sourcefiles[i].description.size)
      /\ \A i \in DOMAIN sourceblocks :
           sourceblocks[i].first = IF i = 1 THEN 0
                                   ELSE sourceblocks[i - 1].first + sourceblocks[i - 1].count
      /\ \A e \in Exponents : recoverypacketmap[e] # <<>> =>
           At(recoverypacketmap[e]).size = mainpacket.blocksize

=============================================================================
