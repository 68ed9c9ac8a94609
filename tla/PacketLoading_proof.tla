------------------------ MODULE PacketLoading_proof ------------------------
(***************************************************************************)
(* The invariants of the loading of packets, for any directory, files,     *)
(* threads and levels.  Types says what each table and task may hold: it   *)
(* ties a thread's place to the packet it is at, since most handlers take  *)
(* the packet for granted.  OneSetInv follows the first whole packet of    *)
(* the file named on the command line: until its set is decided only the   *)
(* caller is at work, somewhere on the way to that packet, and the tables  *)
(* are empty; from then on setid does not change, and what a thread has in *)
(* hand for the source file map was of that set when it was looked up.     *)
(* CountInv counts for each file what the map has from it: against the     *)
(* loading thread's own count while there is one, then against the count   *)
(* that is left in the DiskFile; no file has two loading threads.          *)
(* SerialInv follows the only thread of a serial load through its file:    *)
(* what is behind it is in the tables, and what it looked up in the source *)
(* file map is still so when it inserts.  DetailInv says what each step    *)
(* from the tables to the source files has left; FirstBlockIs, by          *)
(* induction, that the sums of the block counts exist.                     *)
(***************************************************************************)
EXTENDS PacketLoading, TLAPS, WellFoundedInduction, FiniteSetTheorems

-----------------------------------------------------------------------------
(* Types *)

Entry == [description : Packet \cup {None}, verification : Packet \cup {None}]
Entries == Entry \cup {None}
Places == {"idle", "scan", "claim", "claiming", "load", "attach", "insert", "link", "close"}
AtPacket == {"claim", "claiming", "load", "attach", "insert", "link"}
Task == [pc : Places, file : Directory \cup {<<>>}, pos : Nat, packets : Nat, recovery : Nat,
         seen : [FileIds -> Entries] \cup {<<>>}]
Phases == {"par", "others", "extra", "check", "arrange", "allocate", "prepare",
           "details", "insufficient", "refused", "ready"}

\* A thread that is not idle is in a file, where it says.
Placed(t) ==
    /\ task[t].pc = "idle" => task[t] = Idle
    /\ task[t].pc # "idle" => task[t].file \in Directory /\ task[t].pos # 0
    /\ task[t].pc \in AtPacket => Current(t) \in Packet
    /\ task[t].pc \in {"attach", "insert", "link"} => OfFile(Current(t))

TaskTypes == task \in [Threads -> Task] /\ \A t \in Threads : Placed(t)
TableTypes ==
    /\ mainpacket \in Packet \cup {None} /\ creatorpacket \in Packet \cup {None}
    /\ recoverypacketmap \in [Exponents -> {<<>>} \cup (Directory \X Nat)]
    /\ \A e \in Exponents : recoverypacketmap[e] # <<>> => At(recoverypacketmap[e]) \in Packet
    /\ sourcefilemap \in [FileIds -> Entries]
Types ==
    /\ disk \in [Directory -> Seq(Piece)]
    /\ phase \in Phases /\ next \in Nat \ {0}
    /\ firstpacket \in BOOLEAN
    /\ setid \in (SetIds \cup {"none"}) \X (SetIds \cup {"none"})
    /\ loaded \subseteq Directory /\ blockcount \in [Directory -> Nat]
    /\ TaskTypes
    /\ TableTypes

\* A set of natural numbers has a least one.
LEMMA Least ==
    ASSUME NEW T \in SUBSET Nat, T # {}
    PROVE  \E x \in T : \A y \in T : x <= y
<1>1. PICK R : /\ IsWellFoundedOn(R, Nat)
               /\ \A x, y \in Nat : y < x => <<y, x>> \in R
  <2> DEFINE less == OpToRel(<, Nat)
  <2>1. IsWellFoundedOn(less, Nat)
    BY NatLessThanWellFounded
  <2>2. \A x, y \in Nat : y < x => <<y, x>> \in less
    BY DEF OpToRel
  <2> HIDE DEF less
  <2> QED
    BY <2>1, <2>2
<1>2. \E x \in T : \A y \in T : ~(<<y, x>> \in R)
  BY <1>1, WFMin
<1>3. \A x \in T, y \in T : ~(<<y, x>> \in R) => x <= y
  BY <1>1
<1> QED
  BY <1>2, <1>3

\* NextPacket is behind the file or at its first stop from there on.
LEMMA NextPacketStops ==
    ASSUME Types, NEW f \in Directory, NEW i \in Nat
    PROVE  LET n == NextPacket(f, i) IN
           /\ n \in Nat
           /\ n <= Len(disk[f]) => n \in i .. Len(disk[f]) /\ Stops(f, n)
           /\ \A j \in i .. Len(disk[f]) : Stops(f, j) => n <= j
<1> DEFINE ahead == {j \in i .. Len(disk[f]) : Stops(f, j)}
           least == CHOOSE j \in ahead : \A k \in ahead : j <= k
<1>1. Len(disk[f]) \in Nat
  BY DEF Types
<1>2. CASE ahead = {}
  BY <1>1, <1>2 DEF NextPacket
<1>3. CASE ahead # {}
  <2>1. ahead \in SUBSET Nat
    BY <1>1
  <2>2. \E j \in ahead : \A k \in ahead : j <= k
    <3> HIDE DEF ahead
    <3> QED BY <2>1, <1>3, Least
  <2>3. least \in ahead /\ \A k \in ahead : least <= k
    BY <2>2
  <2>4. NextPacket(f, i) = least
    BY <1>3 DEF NextPacket
  <2> HIDE DEF least
  <2> QED BY <2>3, <2>4, <1>1
<1> QED BY <1>2, <1>3

\* The thread that runs the serial parts is one of the threads.
LEMMA CallersIsThread == Callers \in Threads
  BY LoadingAssumption DEF LoadingAssumption, Callers

\* What Process finds in its members to begin with has the right types.
LEMMA InitTypes == Init => Types
<1> SUFFICES ASSUME Init PROVE Types
  OBVIOUS
<1>1. disk \in [Directory -> Seq(Piece)]
  BY LoadingAssumption DEF Init, LoadingAssumption
<1>2. TaskTypes
  <2>1. Idle \in Task /\ Idle.pc = "idle"
    BY DEF Idle, Task, Places
  <2> QED BY <2>1 DEF Init, TaskTypes, Placed, AtPacket
<1>3. TableTypes
  BY DEF Init, TableTypes, Entries
<1> QED BY <1>1, <1>2, <1>3 DEF Init, Types, Phases

\* One thread's task changes, to one that fits the disk.
LEMMA OneTask ==
    ASSUME Types, NEW t \in Threads, disk' = disk,
           task' \in [Threads -> Task], \A u \in Threads \ {t} : task'[u] = task[u],
           Placed(t)'
    PROVE  TaskTypes'
<1>1. \A u \in Threads \ {t} : Placed(u)'
  BY DEF Types, TaskTypes, Placed, Current
<1> QED BY <1>1 DEF TaskTypes

\* What Onwards makes of a task.
LEMMA OnwardsGoes ==
    ASSUME Types, NEW t \in Threads, NEW used \in BOOLEAN, Onwards(t, used)
    PROVE  /\ task' \in [Threads -> Task] /\ task'[t].pc = "scan"
           /\ task'[t].file = task[t].file /\ task'[t].pos = task[t].pos + 1
           /\ \A u \in Threads \ {t} : task'[u] = task[u]
<1> DEFINE c == task[t]
           n == IF used THEN c.packets + 1 ELSE c.packets
           new == [pc |-> "scan", file |-> c.file, pos |-> c.pos + 1, packets |-> n,
                   recovery |-> c.recovery, seen |-> <<>>]
<1>1. task \in [Threads -> Task] /\ c \in Task
  BY DEF Types, TaskTypes
<1>2. new \in Task
  BY <1>1 DEF Task, Places
<1>3. task' = [task EXCEPT ![t] = new]
  BY <1>1 DEF Onwards, Task
<1> HIDE DEF new
<1>4. new.pc = "scan" /\ new.file = c.file /\ new.pos = c.pos + 1
  BY DEF new
<1> QED BY <1>1, <1>2, <1>3, <1>4

\* One lemma for each action: it keeps the types.
LEMMA TakeTypes == ASSUME Types, NEW t \in Threads, Take(t) PROVE Types'
<1> DEFINE f == Names[next]
<1>0. TableTypes'
  BY DEF Types, Take, TableTypes, tables, At
<1>1. CASE f \in loaded \/ f \notin Directory
  <2>1. TaskTypes'
    BY <1>1 DEF Take, Types, TaskTypes, Placed, Current
  <2> QED BY <1>0, <2>1 DEF Types, Take, idVars
<1>2. CASE ~(f \in loaded \/ f \notin Directory)
  <2>1. task' = [task EXCEPT ![t] = Started(f)]
    BY <1>2 DEF Take
  <2>2. Started(f) \in Task /\ Started(f).pc = "scan" /\ Started(f).file = f /\ Started(f).pos # 0
    BY <1>2 DEF Started, Task, Places
  <2>3. TaskTypes'
    <3>1. Placed(t)'
      BY <1>2, <2>1, <2>2 DEF Types, TaskTypes, Placed, AtPacket
    <3> QED BY <2>1, <2>2, <3>1, OneTask DEF Take, Types, TaskTypes
  <2> QED BY <1>0, <2>3 DEF Types, Take, idVars
<1> QED BY <1>1, <1>2

\* Only packets pass the test of the hash.
LEMMA WholePieceIsPacket == ASSUME NEW p \in Piece, Whole(p) PROVE p \in Packet
  BY DEF Piece, Whole

\* A thread that has got on, with the disk as it was, is well typed.
LEMMA OnwardsTypes ==
    ASSUME Types, NEW t \in Threads, task[t].pc # "idle", NEW used \in BOOLEAN,
           Onwards(t, used), disk' = disk
    PROVE  TaskTypes'
<1>1. task'[t].pc = "scan" /\ task'[t].file \in Directory /\ task'[t].pos # 0
  BY OnwardsGoes DEF Types, TaskTypes, Placed, Task
<1>2. Placed(t)'
  BY <1>1 DEF Placed, AtPacket
<1> QED BY <1>2, OnwardsGoes, OneTask

LEMMA FindPacketTypes == ASSUME Types, NEW t \in Threads, FindPacket(t) PROVE Types'
<1> DEFINE c == task[t]
           f == c.file
           i == NextPacket(f, c.pos)
           here == IF i > Len(disk[f]) \/ ~Whole(disk[f][i]) THEN "close"
                   ELSE IF firstpacket THEN "claim" ELSE "load"
           new == [c EXCEPT !.pos = i, !.pc = here]
<1>1. c \in Task /\ f \in Directory /\ c.pos # 0 /\ task \in [Threads -> Task]
  BY DEF Types, TaskTypes, Placed, FindPacket, Scanning
<1>2. Len(disk[f]) \in Nat /\ DOMAIN disk[f] = 1 .. Len(disk[f]) /\ disk[f] \in Seq(Piece)
  BY <1>1 DEF Types
<1>3. i \in Nat \ {0} /\ (i <= Len(disk[f]) => disk[f][i] \in Piece)
  <2>1. c.pos \in Nat
    BY <1>1 DEF Task
  <2> HIDE DEF c, f
  <2>2. i \in Nat /\ (i <= Len(disk[f]) => i \in c.pos .. Len(disk[f]))
          /\ \A j \in c.pos .. Len(disk[f]) : Stops(f, j) => i <= j
    BY <2>1, <1>1, NextPacketStops
  <2>3. i > Len(disk[f]) => i # 0
    BY <2>2, <1>2
  <2> QED BY <2>1, <2>2, <2>3, <1>1, <1>2
<1>4. task' = [task EXCEPT ![t] = new]
  <2>1. task' = [task EXCEPT ![t].pos = i, ![t].pc = here]
    BY DEF FindPacket
  <2> HIDE DEF i, here
  <2> QED BY <1>1, <2>1
<1>5. here \in {"close", "claim", "load"} /\ (here # "close" => disk[f][i] \in Packet)
  BY <1>2, <1>3, WholePieceIsPacket
<1> HIDE DEF i, here
<1>6. new \in Task /\ new.pc = here /\ new.file = f /\ new.pos = i
  BY <1>1, <1>3, <1>5 DEF Task, Places
<1> HIDE DEF new
<1>7. Placed(t)'
  <2>1. task'[t] = new
    BY <1>1, <1>4
  <2>2. Current(t)' = disk[f][i]
    BY <2>1, <1>6 DEF FindPacket, Current
  <2> QED BY <2>1, <2>2, <1>1, <1>3, <1>5, <1>6 DEF Placed, AtPacket
<1>8. TaskTypes'
  BY <1>1, <1>4, <1>6, <1>7, OneTask, ZenonT(60) DEF FindPacket
<1> QED BY <1>8 DEF FindPacket, Types, TableTypes, tables, At, idVars

\* A thread at a packet that goes to another place at the same packet.
LEMMA AtPacketTypes ==
    ASSUME Types, NEW t \in Threads, task[t].pc \in AtPacket, disk' = disk,
           NEW here \in AtPacket, task' = [task EXCEPT ![t].pc = here],
           here \in {"attach", "insert", "link"} => OfFile(Current(t))
    PROVE  TaskTypes'
<1> DEFINE c == task[t]
           new == [c EXCEPT !.pc = here]
<1>1. c \in Task /\ task \in [Threads -> Task] /\ task' = [task EXCEPT ![t] = new]
  BY DEF Types, TaskTypes
<1>2. new \in Task /\ new.pc = here /\ new.file = c.file /\ new.pos = c.pos
  BY <1>1 DEF Task, Places, AtPacket
<1> HIDE DEF new
<1>3. Placed(t)'
  <2>1. task'[t] = new /\ Current(t)' = Current(t)
    BY <1>1, <1>2 DEF Current
  <2> QED BY <2>1, <1>1, <1>2 DEF Types, TaskTypes, Placed, AtPacket
<1> QED BY <1>1, <1>2, <1>3, OneTask

LEMMA ClaimSetTypes == ASSUME Types, NEW t \in Threads, ClaimSet(t) PROVE Types'
<1>1. Current(t) \in Packet
  BY DEF Types, TaskTypes, Placed, ClaimSet, Scanning, AtPacket
<1>2. Current(t).set \in SetIds
  BY <1>1 DEF Packet
<1>3. TaskTypes'
  BY AtPacketTypes DEF ClaimSet, Scanning, AtPacket
<1> QED BY <1>2, <1>3 DEF ClaimSet, Types, TableTypes, tables, At

LEMMA SetClaimedTypes == ASSUME Types, NEW t \in Threads, SetClaimed(t) PROVE Types'
<1>1. Current(t) \in Packet
  BY DEF Types, TaskTypes, Placed, SetClaimed, Scanning, AtPacket
<1>2. Current(t).set \in SetIds
  BY <1>1 DEF Packet
<1>3. TaskTypes'
  BY AtPacketTypes DEF SetClaimed, Scanning, AtPacket
<1> QED BY <1>2, <1>3 DEF SetClaimed, Types, TableTypes, tables, At

LEMMA SkipPacketTypes == ASSUME Types, NEW t \in Threads, SkipPacket(t) PROVE Types'
<1>1. TaskTypes'
  BY OnwardsTypes DEF SkipPacket, Scanning
<1> QED BY <1>1 DEF SkipPacket, Types, TableTypes, tables, At, idVars

LEMMA LoadMainPacketTypes == ASSUME Types, NEW t \in Threads, LoadMainPacket(t) PROVE Types'
<1>1. Current(t) \in Packet
  BY DEF Types, TaskTypes, Placed, LoadMainPacket, Scanning, AtPacket
<1>2. TaskTypes'
  BY OnwardsTypes DEF LoadMainPacket, Scanning
<1> QED BY <1>1, <1>2 DEF LoadMainPacket, Types, TableTypes, At, idVars

LEMMA LoadCreatorPacketTypes == ASSUME Types, NEW t \in Threads, LoadCreatorPacket(t) PROVE Types'
<1>1. Current(t) \in Packet
  BY DEF Types, TaskTypes, Placed, LoadCreatorPacket, Scanning, AtPacket
<1>2. TaskTypes'
  BY OnwardsTypes DEF LoadCreatorPacket, Scanning
<1> QED BY <1>1, <1>2 DEF LoadCreatorPacket, Types, TableTypes, At, idVars

LEMMA LoadRecoveryPacketTypes ==
    ASSUME Types, NEW t \in Threads, LoadRecoveryPacket(t) PROVE Types'
<1> DEFINE c == task[t]
           p == Current(t)
           r == IF Counted(p.exponent) THEN c.recovery + 1 ELSE c.recovery
           new == [pc |-> "scan", file |-> c.file, pos |-> c.pos + 1,
                   packets |-> c.packets + 1, recovery |-> r, seen |-> c.seen]
<1>1. p \in Packet /\ p.type = "recovery" /\ c \in Task /\ c.file \in Directory
        /\ task \in [Threads -> Task]
  BY DEF Types, TaskTypes, Placed, LoadRecoveryPacket, Scanning, AtPacket
<1>2. p.exponent \in Exponents
  BY <1>1 DEF Packet
<1>3. task' = [task EXCEPT ![t] = new]
  BY <1>1 DEF LoadRecoveryPacket, Task
<1>4. new \in Task /\ new.pc = "scan" /\ new.file = c.file /\ new.pos # 0
  <2>1. r \in Nat
    BY <1>1 DEF Task
  <2> HIDE DEF r
  <2> QED BY <1>1, <2>1 DEF Task, Places
<1> HIDE DEF new
<1>5. TaskTypes'
  <2>1. Placed(t)'
    BY <1>1, <1>3, <1>4 DEF Placed, AtPacket
  <2>2. disk' = disk
    BY DEF LoadRecoveryPacket
  <2> QED BY <1>1, <1>3, <1>4, <2>1, <2>2, OneTask
<1>6. TableTypes'
  <2>1. recoverypacketmap' = [recoverypacketmap EXCEPT ![p.exponent] = <<c.file, c.pos>>]
    BY DEF LoadRecoveryPacket
  <2>2. <<c.file, c.pos>> \in Directory \X Nat /\ At(<<c.file, c.pos>>) = p
    BY <1>1 DEF Task, At, Current
  <2>3. recoverypacketmap' \in [Exponents -> {<<>>} \cup (Directory \X Nat)]
    BY <2>1, <2>2 DEF Types, TableTypes
  <2>4. \A e \in Exponents : recoverypacketmap'[e] # <<>> => At(recoverypacketmap[e])' \in Packet
    BY <2>1, <2>2, <1>1, <1>2 DEF Types, TableTypes, At, LoadRecoveryPacket
  <2> QED BY <2>3, <2>4 DEF Types, TableTypes, LoadRecoveryPacket
<1> QED BY <1>5, <1>6 DEF LoadRecoveryPacket, Types, idVars

LEMMA LookUpFileTypes == ASSUME Types, NEW t \in Threads, LookUpFile(t) PROVE Types'
<1> DEFINE p == Current(t)
<1>1. CASE ~Known(p.id)
  <2>1. task' = [task EXCEPT ![t].pc = "insert"]
    BY <1>1 DEF LookUpFile
  <2> QED BY <2>1, AtPacketTypes
       DEF LookUpFile, Scanning, AtPacket, Types, TableTypes, tables, At, idVars
<1>2. CASE Known(p.id) /\ HasPacket(sourcefilemap[p.id], p.type)
  <2>1. Onwards(t, FALSE)
    BY <1>2 DEF LookUpFile
  <2> QED BY <2>1, OnwardsTypes DEF LookUpFile, Scanning, Types, TableTypes, tables, At, idVars
<1>3. CASE Known(p.id) /\ ~HasPacket(sourcefilemap[p.id], p.type)
  <2>1. task' = [task EXCEPT ![t].pc = "attach"]
    BY <1>3 DEF LookUpFile
  <2> QED BY <2>1, AtPacketTypes
       DEF LookUpFile, Scanning, AtPacket, Types, TableTypes, tables, At, idVars
<1> QED BY <1>1, <1>2, <1>3

\* An entry for a file keeps its type when a packet of the file is put in.
LEMMA EntryTypes ==
    ASSUME NEW p \in Packet, OfFile(p)
    PROVE  /\ p.id \in FileIds
           /\ NewEntry(p) \in Entry
           /\ \A entry \in Entry : [entry EXCEPT ![p.type] = p] \in Entry
<1>1. p.id \in FileIds
  BY DEF Packet, OfFile
<1>2. CASE p.type = "description"
  <2>1. \A entry \in Entry : [entry EXCEPT ![p.type] = p] = [entry EXCEPT !.description = p]
    BY <1>2
  <2>2. \A entry \in Entry : [entry EXCEPT !.description = p] \in Entry
    BY DEF Entry
  <2>3. [description |-> None, verification |-> None] \in Entry
    BY DEF Entry
  <2> QED BY <1>1, <2>1, <2>2, <2>3 DEF NewEntry
<1>3. CASE p.type = "verification"
  <2>1. \A entry \in Entry : [entry EXCEPT ![p.type] = p] = [entry EXCEPT !.verification = p]
    BY <1>3
  <2>2. \A entry \in Entry : [entry EXCEPT !.verification = p] \in Entry
    BY DEF Entry
  <2>3. [description |-> None, verification |-> None] \in Entry
    BY DEF Entry
  <2> QED BY <1>1, <2>1, <2>2, <2>3 DEF NewEntry
<1> QED BY <1>2, <1>3 DEF OfFile

LEMMA AttachPacketTypes == ASSUME Types, NEW t \in Threads, AttachPacket(t) PROVE Types'
<1> DEFINE p == Current(t)
<1>1. p \in Packet /\ OfFile(p)
  BY DEF Types, TaskTypes, Placed, AttachPacket, Scanning, AtPacket
<1>2. TaskTypes'
  BY OnwardsTypes DEF AttachPacket, Scanning
<1>3. sourcefilemap' \in [FileIds -> Entries]
  <2>1. CASE ~Known(p.id)
    BY <2>1 DEF AttachPacket, Types, TableTypes
  <2>2. CASE Known(p.id)
    <3>1. sourcefilemap[p.id] \in Entry
      BY <1>1, <2>2, EntryTypes DEF Types, TableTypes, Entries, Known
    <3>2. [sourcefilemap[p.id] EXCEPT ![p.type] = p] \in Entries
      BY <1>1, <3>1, EntryTypes DEF Entries
    <3>3. sourcefilemap' = [sourcefilemap EXCEPT ![p.id] = [sourcefilemap[p.id] EXCEPT ![p.type] = p]]
      BY <2>2 DEF AttachPacket
    <3> QED BY <3>2, <3>3 DEF Types, TableTypes
  <2> QED BY <2>1, <2>2
<1> QED BY <1>2, <1>3 DEF AttachPacket, Types, TableTypes, tables, At, idVars

LEMMA BeginInsertTypes == ASSUME Types, NEW t \in Threads, BeginInsert(t) PROVE Types'
<1> DEFINE c == task[t]
           new == [c EXCEPT !.pc = "link", !.seen = sourcefilemap]
<1>1. CASE Known(Current(t).id)
  <2>1. Onwards(t, TRUE)
    BY <1>1 DEF BeginInsert
  <2> QED BY <2>1, OnwardsTypes DEF BeginInsert, Scanning, Types, TableTypes, tables, At, idVars
<1>2. CASE ~Known(Current(t).id)
  <2>1. c \in Task /\ task \in [Threads -> Task] /\ sourcefilemap \in [FileIds -> Entries]
    BY DEF Types, TaskTypes, TableTypes
  <2>2. task' = [task EXCEPT ![t] = new]
    BY <1>2, <2>1 DEF BeginInsert
  <2>3. new \in Task /\ new.pc = "link" /\ new.file = c.file /\ new.pos = c.pos
    BY <2>1 DEF Task, Places
  <2> HIDE DEF new
  <2>4. Placed(t)'
    <3>1. task'[t] = new /\ Current(t)' = Current(t)
      BY <2>1, <2>2, <2>3 DEF Current, BeginInsert
    <3>2. c.pc = "insert" /\ Placed(t)
      BY DEF BeginInsert, Scanning, Types, TaskTypes
    <3> QED BY <3>1, <3>2, <2>3 DEF Placed, AtPacket, OfFile
  <2>5. TaskTypes'
    BY <2>1, <2>2, <2>3, <2>4, OneTask DEF BeginInsert
  <2> QED BY <2>5 DEF BeginInsert, Types, TableTypes, tables, At, idVars
<1> QED BY <1>1, <1>2

LEMMA LinkEntryTypes == ASSUME Types, NEW t \in Threads, LinkEntry(t) PROVE Types'
<1> DEFINE p == Current(t)
<1>1. p \in Packet /\ OfFile(p)
  BY DEF Types, TaskTypes, Placed, LinkEntry, Scanning, AtPacket
<1>2. TaskTypes'
  BY OnwardsTypes DEF LinkEntry, Scanning
<1>3. PICK base \in {sourcefilemap, [id \in FileIds |-> IF task[t].seen[id] = None THEN None
                                                   ELSE sourcefilemap[id]]} :
        sourcefilemap' = [base EXCEPT ![p.id] = NewEntry(p)]
  BY DEF LinkEntry
<1>4. base \in [FileIds -> Entries]
  BY DEF Types, TableTypes, Entries
<1>5. sourcefilemap' \in [FileIds -> Entries]
  BY <1>1, <1>3, <1>4, EntryTypes DEF Entries
<1> QED BY <1>2, <1>5 DEF LinkEntry, Types, TableTypes, tables, At, idVars

LEMMA CloseFileTypes == ASSUME Types, NEW t \in Threads, CloseFile(t) PROVE Types'
<1> DEFINE c == task[t]
<1>1. c \in Task /\ c.file \in Directory /\ c.recovery \in Nat /\ task \in [Threads -> Task]
  BY DEF Types, TaskTypes, Placed, CloseFile, Scanning, Task
<1>2. Idle \in Task /\ Idle.pc = "idle"
  BY DEF Idle, Task, Places
<1>3. TaskTypes'
  <2>1. task' = [task EXCEPT ![t] = Idle] /\ disk' = disk
    BY DEF CloseFile
  <2>2. Placed(t)'
    BY <1>1, <1>2, <2>1 DEF Placed, AtPacket
  <2> QED BY <1>1, <1>2, <2>1, <2>2, OneTask
<1>4. loaded' \subseteq Directory /\ blockcount' \in [Directory -> Nat]
  BY <1>1 DEF CloseFile, Types
<1> QED BY <1>3, <1>4 DEF CloseFile, Types, TableTypes, tables, At, idVars

LEMMA NextListTypes == ASSUME Types, NextList PROVE Types'
<1>1. phase' \in Phases
  BY DEF NextList, AfterLoading, Phases
<1>2. TaskTypes'
  BY DEF NextList, Types, TaskTypes, Placed, Current
<1> QED BY <1>1, <1>2 DEF NextList, Types, TableTypes, tables, At, idVars

LEMMA CheckPacketConsistencyTypes == ASSUME Types, CheckPacketConsistency PROVE Types'
<1>1. TaskTypes'
  BY DEF CheckPacketConsistency, Types, TaskTypes, Placed, Current
<1>2. TableTypes'
  <2>1. CASE mainpacket = None
    BY <2>1 DEF CheckPacketConsistency, Types, TableTypes, At
  <2>2. CASE mainpacket # None
    <3>1. recoverypacketmap' = [e \in Exponents |->
            IF RightSize(recoverypacketmap[e]) THEN recoverypacketmap[e] ELSE <<>>]
      BY <2>2 DEF CheckPacketConsistency
    <3>2. sourcefilemap' = [id \in FileIds |->
            IF Consistent(sourcefilemap[id]) THEN sourcefilemap[id] ELSE None]
      BY <2>2 DEF CheckPacketConsistency
    <3>3. \A e \in Exponents : recoverypacketmap'[e] \in {recoverypacketmap[e], <<>>}
      BY <3>1
    <3> QED BY <3>1, <3>2, <3>3 DEF CheckPacketConsistency, Types, TableTypes, At, Entries
  <2> QED BY <2>1, <2>2
<1> QED BY <1>1, <1>2 DEF CheckPacketConsistency, Types, Phases, idVars

LEMMA ArrangeTypes ==
    ASSUME Types, CreateSourceFileList \/ AllocateSourceBlocks
                    \/ PrepareVerificationHashTable \/ CheckDetails
    PROVE  Types'
<1>1. /\ phase' \in Phases /\ disk' = disk /\ next' = next /\ task' = task
      /\ UNCHANGED <<idVars, tables, sourcefilemap, loaded, blockcount>>
  BY DEF CreateSourceFileList, AllocateSourceBlocks, PrepareVerificationHashTable,
         CheckDetails, Phases
<1>2. TaskTypes'
  BY <1>1 DEF Types, TaskTypes, Placed, Current
<1> QED BY <1>1, <1>2 DEF Types, TableTypes, tables, At, idVars

\* Types is inductive.
LEMMA TypesStep == Types /\ [Next]_vars => Types'
<1> SUFFICES ASSUME Types, [Next]_vars PROVE Types'
  OBVIOUS
<1>1. CASE \E t \in Threads : ThreadStep(t)
  BY <1>1, TakeTypes, FindPacketTypes, ClaimSetTypes, SetClaimedTypes, SkipPacketTypes,
     LoadRecoveryPacketTypes, LoadMainPacketTypes, LoadCreatorPacketTypes, LookUpFileTypes,
     AttachPacketTypes, BeginInsertTypes, LinkEntryTypes, CloseFileTypes DEF ThreadStep
<1>2. CASE UNCHANGED vars
  BY <1>2 DEF vars, Types, TaskTypes, Placed, Current, TableTypes, tables, At, idVars
<1> QED
  BY <1>1, <1>2, NextListTypes, CheckPacketConsistencyTypes, ArrangeTypes DEF Next, Finished

\* par2repairer.cpp:422-1105.  Every table, entry and task keeps its type, and a
\* handler is only ever called with a packet that is whole.
THEOREM TypeCorrect == Spec => []TypeOK
<1>1. Types => TypeOK
  BY DEF Types, TaskTypes, Placed, TableTypes, TypeOK, Phases, Task, Places, AtPacket
<1> QED BY <1>1, InitTypes, TypesStep, PTL DEF Spec

-----------------------------------------------------------------------------
(* One set *)

HasOwn == ParFile \in Directory /\ Met(ParFile) # {}
OwnPos == CHOOSE i \in Met(ParFile) : \A j \in Met(ParFile) : i <= j
FirstSet == disk[ParFile][OwnPos].set

OfSet(p) == p # None => p.set = FirstSet
EntryOfSet(entry) == entry # None => OfSet(entry.description) /\ OfSet(entry.verification)
TablesOfSet ==
    /\ OfSet(mainpacket) /\ OfSet(creatorpacket)
    /\ \A e \in Exponents : recoverypacketmap[e] # <<>> => OfSet(At(recoverypacketmap[e]))
    /\ \A id \in FileIds : EntryOfSet(sourcefilemap[id])

\* Only the caller is there, on its way to the first packet of ParFile.
OnTheWay(t) ==
    /\ task[t].file = ParFile
    /\ \/ task[t].pc = "scan" /\ task[t].pos \in 1 .. OwnPos
       \/ task[t].pc = "claim" /\ task[t].pos = OwnPos
       \/ task[t].pc = "claiming" /\ task[t].pos = OwnPos /\ setid[1] = FirstSet
Unclaimed ==
    /\ phase = "par" /\ loaded = {} /\ TablesOfSet
    /\ \A t \in Threads \ {Callers} : task[t] = Idle
    /\ IF next = 1 THEN task[Callers] = Idle ELSE OnTheWay(Callers)

\* A thread that will put a packet into the source file map, whatever it is then.
InSet(t) ==
    /\ task[t].pc \notin {"claim", "claiming"}
    /\ task[t].pc \in {"attach", "insert", "link"} => OfSet(Current(t))
Claimed ==
    /\ setid = <<FirstSet, FirstSet>> /\ TablesOfSet
    /\ \A t \in Threads : InSet(t)

OneSetInv == HasOwn => IF firstpacket THEN Unclaimed ELSE Claimed

\* The first whole packet of ParFile exists if there is one at all.
LEMMA OwnPosFirst ==
    ASSUME Types, HasOwn
    PROVE  /\ OwnPos \in Nat \ {0} /\ OwnPos \in Met(ParFile)
           /\ \A j \in Met(ParFile) : OwnPos <= j
<1>1. Met(ParFile) \in SUBSET (Nat \ {0})
  BY DEF Met, Types, HasOwn
<1>2. \E i \in Met(ParFile) : \A j \in Met(ParFile) : i <= j
  BY <1>1, Least DEF HasOwn
<1> QED BY <1>1, <1>2 DEF OwnPos

\* Loading does not change the files.
LEMMA FirstSetStays ==
    ASSUME disk' = disk
    PROVE  /\ HasOwn' = HasOwn /\ OwnPos' = OwnPos /\ FirstSet' = FirstSet
  BY DEF HasOwn, OwnPos, FirstSet, Met

\* OneSetInv holds at the beginning, and implies OneSet.
LEMMA InitOneSet == Init => OneSetInv
  BY CallersIsThread DEF Init, OneSetInv, Unclaimed, TablesOfSet, OfSet, EntryOfSet

LEMMA OneSetFollows == OneSetInv /\ Types => OneSet
<1> SUFFICES ASSUME OneSetInv, Types, HasOwn,
                    NEW p \in LoadedPackets \ {None}
             PROVE  p.set = FirstSet
  BY DEF OneSet, HasOwn, FirstSet, OwnPos
<1>1. TablesOfSet
  BY DEF OneSetInv, Unclaimed, Claimed
<1>2. CASE p \in {mainpacket, creatorpacket}
  BY <1>1, <1>2 DEF TablesOfSet, OfSet
<1>3. CASE \E e \in Exponents : recoverypacketmap[e] # <<>> /\ p = At(recoverypacketmap[e])
  BY <1>1, <1>3 DEF TablesOfSet, OfSet
<1>4. CASE \E id \in FileIds : Known(id) /\ \E type \in {"description", "verification"} :
             p = sourcefilemap[id][type]
  BY <1>1, <1>4 DEF TablesOfSet, OfSet, EntryOfSet, Known
<1> QED BY <1>2, <1>3, <1>4 DEF LoadedPackets

\* As long as the set is not decided nothing but the way to its packet is gone.
LEMMA UnclaimedPlaces ==
    ASSUME Types, HasOwn, Unclaimed, NEW t \in Threads
    PROVE  /\ task[t].pc \in {"idle", "scan", "claim", "claiming"}
           /\ task[t].pc # "idle" => t = Callers /\ next # 1 /\ OnTheWay(t)
  BY DEF Unclaimed, OnTheWay, Idle

\* The steps before the set is decided: the file is taken, its first packet is
\* found, and the claim for it is made in two steps.
LEMMA UnclaimedTake ==
    ASSUME Types, HasOwn, firstpacket, Unclaimed, NEW t \in Threads, Take(t)
    PROVE  OneSetInv'
<1>1. t = Callers /\ task[Callers] = Idle
  BY DEF Take, MayTake, Unclaimed
<1>2. next = 1
  BY <1>1 DEF Unclaimed, OnTheWay, Idle
<1>3. Names = <<ParFile>>
  BY DEF Names, Unclaimed
<1>4. Names[next] = ParFile /\ ParFile \notin loaded /\ ParFile \in Directory
  BY <1>2, <1>3 DEF Unclaimed, HasOwn
<1>5. task' = [task EXCEPT ![t] = Started(ParFile)] /\ next' = 2
  BY <1>2, <1>4 DEF Take
<1>6. disk' = disk
  BY DEF Take
<1>7. task \in [Threads -> Task]
  BY DEF Types, TaskTypes
<1>8. OnTheWay(Callers)'
  <2>1. task'[Callers] = Started(ParFile)
    BY <1>1, <1>5, <1>7
  <2>2. 1 \in 1 .. OwnPos
    BY OwnPosFirst
  <2> QED BY <2>1, <2>2, <1>6, FirstSetStays DEF OnTheWay, Started
<1>9. Unclaimed'
  <2>1. \A u \in Threads \ {Callers} : task'[u] = Idle
    BY <1>1, <1>5, <1>7 DEF Unclaimed
  <2> QED BY <2>1, <1>5, <1>6, <1>8, FirstSetStays
       DEF Take, Unclaimed, TablesOfSet, OfSet, EntryOfSet, tables, At
<1> QED BY <1>9 DEF OneSetInv, Take, idVars

LEMMA UnclaimedFindPacket ==
    ASSUME Types, HasOwn, firstpacket, Unclaimed, NEW t \in Threads, FindPacket(t)
    PROVE  OneSetInv'
<1> DEFINE i == NextPacket(ParFile, task[t].pos)
           new == [task[t] EXCEPT !.pos = OwnPos, !.pc = "claim"]
<1>1. t = Callers /\ next # 1 /\ OnTheWay(t) /\ task[t].pc = "scan"
  BY UnclaimedPlaces DEF FindPacket, Scanning
<1>2. task[t].file = ParFile /\ task[t].pos \in 1 .. OwnPos
  BY <1>1 DEF OnTheWay
<1>3. /\ OwnPos \in DOMAIN disk[ParFile] /\ Whole(disk[ParFile][OwnPos])
      /\ \A j \in 1 .. OwnPos : disk[ParFile][j].type # "unreadable"
  BY OwnPosFirst DEF Met
<1>4. DOMAIN disk[ParFile] = 1 .. Len(disk[ParFile]) /\ Len(disk[ParFile]) \in Nat
  BY DEF Types, HasOwn
<1>5. i = OwnPos
  <2>0. task[t].pos \in Nat /\ OwnPos \in Nat
    BY <1>2, OwnPosFirst
  <2>1. /\ i \in Nat
        /\ i <= Len(disk[ParFile]) => i \in task[t].pos .. Len(disk[ParFile]) /\ Stops(ParFile, i)
        /\ \A j \in task[t].pos .. Len(disk[ParFile]) : Stops(ParFile, j) => i <= j
    BY <2>0, NextPacketStops DEF HasOwn
  <2> HIDE DEF i
  <2>2. i <= OwnPos
    BY <2>0, <2>1, <1>2, <1>3, <1>4 DEF Stops
  <2>3. i \in 1 .. OwnPos /\ i \in DOMAIN disk[ParFile] /\ Stops(ParFile, i)
    BY <2>0, <2>1, <2>2, <1>2, <1>3, <1>4
  <2>4. Whole(disk[ParFile][i])
    BY <2>3, <1>3 DEF Stops
  <2>5. i \in Met(ParFile)
    BY <2>0, <2>3, <2>4, <1>3 DEF Met
  <2> QED BY <2>0, <2>1, <2>2, <2>5, OwnPosFirst
<1>6. task' = [task EXCEPT ![t] = new]
  <2>1. task' = [task EXCEPT ![t].pos = i,
                   ![t].pc = IF i > Len(disk[ParFile]) \/ ~Whole(disk[ParFile][i]) THEN "close"
                             ELSE IF firstpacket THEN "claim" ELSE "load"]
    BY <1>2 DEF FindPacket
  <2>2. ~(i > Len(disk[ParFile]) \/ ~Whole(disk[ParFile][i]))
    BY <1>3, <1>4, <1>5
  <2>3. task' = [task EXCEPT ![t].pos = OwnPos, ![t].pc = "claim"]
    BY <2>1, <2>2, <1>5
  <2> QED BY <2>3 DEF Types, TaskTypes
<1>7. task \in [Threads -> Task] /\ disk' = disk
  BY DEF Types, TaskTypes, FindPacket
<1>8. new.file = ParFile /\ new.pc = "claim" /\ new.pos = OwnPos
  BY <1>2, <1>7 DEF Task
<1> HIDE DEF new
<1>9. OnTheWay(Callers)'
  BY <1>1, <1>6, <1>7, <1>8, FirstSetStays DEF OnTheWay
<1>10. \A u \in Threads \ {Callers} : task'[u] = Idle
  BY <1>1, <1>6, <1>7 DEF Unclaimed
<1>11. Unclaimed'
  BY <1>1, <1>7, <1>9, <1>10, FirstSetStays
     DEF FindPacket, Unclaimed, TablesOfSet, OfSet, EntryOfSet, tables, At
<1> QED BY <1>11 DEF OneSetInv, FindPacket, idVars

\* The packet the claim is made for is the first.
LEMMA ClaimIsFirst ==
    ASSUME OnTheWay(Callers), task[Callers].pc \in {"claim", "claiming"}
    PROVE  Current(Callers).set = FirstSet
  BY DEF OnTheWay, Current, FirstSet

LEMMA UnclaimedClaimSet ==
    ASSUME Types, HasOwn, firstpacket, Unclaimed, NEW t \in Threads, ClaimSet(t)
    PROVE  OneSetInv'
<1> DEFINE new == [task[t] EXCEPT !.pc = "claiming"]
<1>1. t = Callers /\ next # 1 /\ OnTheWay(t) /\ task[t].pc = "claim"
  BY UnclaimedPlaces DEF ClaimSet, Scanning
<1>2. task \in [Threads -> Task] /\ disk' = disk /\ task' = [task EXCEPT ![t] = new]
  BY DEF Types, TaskTypes, ClaimSet
<1>3. new.file = ParFile /\ new.pc = "claiming" /\ new.pos = OwnPos
  BY <1>1, <1>2 DEF Task, OnTheWay
<1> HIDE DEF new
<1>4. setid'[1] = FirstSet
  BY <1>1, ClaimIsFirst DEF ClaimSet
<1>5. OnTheWay(Callers)'
  BY <1>1, <1>2, <1>3, <1>4, FirstSetStays DEF OnTheWay
<1>6. \A u \in Threads \ {Callers} : task'[u] = Idle
  BY <1>1, <1>2 DEF Unclaimed
<1>7. Unclaimed'
  BY <1>1, <1>2, <1>5, <1>6, FirstSetStays
     DEF ClaimSet, Unclaimed, TablesOfSet, OfSet, EntryOfSet, tables, At
<1> QED BY <1>7 DEF OneSetInv, ClaimSet

LEMMA UnclaimedSetClaimed ==
    ASSUME Types, HasOwn, firstpacket, Unclaimed, NEW t \in Threads, SetClaimed(t)
    PROVE  OneSetInv'
<1>1. t = Callers /\ OnTheWay(t) /\ task[t].pc = "claiming"
  BY UnclaimedPlaces DEF SetClaimed, Scanning
<1>2. task \in [Threads -> Task] /\ disk' = disk /\ task' = [task EXCEPT ![t].pc = "load"]
  BY DEF Types, TaskTypes, SetClaimed
<1>3. setid' = <<FirstSet, FirstSet>>
  BY <1>1, ClaimIsFirst DEF SetClaimed, OnTheWay
<1>4. \A u \in Threads : InSet(u)'
  <2>1. task'[t].pc = "load"
    BY <1>2 DEF Task
  <2>2. \A u \in Threads \ {t} : task'[u].pc = "idle"
    BY <1>1, <1>2 DEF Unclaimed, Idle
  <2> QED BY <2>1, <2>2 DEF InSet
<1>5. Claimed'
  BY <1>2, <1>3, <1>4, FirstSetStays
     DEF SetClaimed, Unclaimed, Claimed, TablesOfSet, OfSet, EntryOfSet, tables, At
<1> QED BY <1>5 DEF OneSetInv, SetClaimed

\* No other step is possible before the set is decided.
LEMMA UnclaimedStep ==
    ASSUME Types, HasOwn, firstpacket, Unclaimed, Next
    PROVE  OneSetInv'
<1>1. ASSUME NEW t \in Threads, ThreadStep(t) PROVE OneSetInv'
  <2>1. task[t].pc \in {"idle", "scan", "claim", "claiming"}
    BY UnclaimedPlaces
  <2>2. Take(t) \/ FindPacket(t) \/ ClaimSet(t) \/ SetClaimed(t)
    BY <2>1, <1>1 DEF ThreadStep, SkipPacket, LoadRecoveryPacket, LoadMainPacket,
       LoadCreatorPacket, LookUpFile, AttachPacket, BeginInsert, LinkEntry, CloseFile, Scanning
  <2> QED BY <2>2, UnclaimedTake, UnclaimedFindPacket, UnclaimedClaimSet, UnclaimedSetClaimed
<1>2. ~NextList
  <2>1. NextList => next > 1
    BY DEF NextList, Names, Unclaimed
  <2>2. NextList => task[Callers] = Idle
    BY CallersIsThread DEF NextList
  <2> QED BY <2>1, <2>2 DEF Types, Unclaimed, OnTheWay, Idle
<1>3. ~(CheckPacketConsistency \/ CreateSourceFileList \/ AllocateSourceBlocks
          \/ PrepareVerificationHashTable \/ CheckDetails \/ Finished)
  BY DEF Unclaimed, CheckPacketConsistency, CreateSourceFileList, AllocateSourceBlocks,
     PrepareVerificationHashTable, CheckDetails, Finished, Ended
<1> QED BY <1>1, <1>2, <1>3 DEF Next

\* Once the set is decided: one thread goes on, the others stay what they are.
LEMMA OneInSet ==
    ASSUME Types, Claimed, NEW t \in Threads, disk' = disk,
           \A u \in Threads \ {t} : task'[u] = task[u], InSet(t)'
    PROVE  \A u \in Threads : InSet(u)'
<1> SUFFICES ASSUME NEW u \in Threads \ {t} PROVE InSet(u)'
  OBVIOUS
<1>1. InSet(u) /\ task'[u] = task[u] /\ Current(u)' = Current(u)
  BY DEF Claimed, Current
<1> QED BY <1>1, FirstSetStays DEF InSet, OfSet

LEMMA OnwardsInSet ==
    ASSUME Types, Claimed, NEW t \in Threads, disk' = disk, NEW used \in BOOLEAN, Onwards(t, used)
    PROVE  \A u \in Threads : InSet(u)'
<1>1. InSet(t)'
  BY OnwardsGoes DEF InSet
<1> QED BY <1>1, OnwardsGoes, OneInSet

\* What is interesting is of the set that was decided.
LEMMA InterestingOfSet ==
    ASSUME Claimed, NEW p, Interesting(p)
    PROVE  OfSet(p)
  BY DEF Claimed, Interesting, SameSet, OfSet

\* Tables that are not touched stay of the set.
LEMMA TablesStay ==
    ASSUME TablesOfSet, disk' = disk, UNCHANGED <<tables, sourcefilemap>>
    PROVE  TablesOfSet'
  BY FirstSetStays DEF TablesOfSet, OfSet, EntryOfSet, tables, At

\* The steps after it is decided, one lemma for each action.
LEMMA ClaimedTake ==
    ASSUME Types, ~firstpacket, Claimed, NEW t \in Threads, Take(t)
    PROVE  Claimed'
<1>1. disk' = disk /\ setid' = setid /\ UNCHANGED <<tables, sourcefilemap>>
  BY DEF Take, idVars
<1>2. \A u \in Threads : InSet(u)'
  <2>1. CASE task' = task
    BY <1>1, <2>1, FirstSetStays DEF Claimed, InSet, OfSet, Current
  <2>2. CASE task' = [task EXCEPT ![t] = Started(Names[next])]
    <3>1. task'[t].pc = "scan" /\ \A u \in Threads \ {t} : task'[u] = task[u]
      BY <2>2 DEF Types, TaskTypes, Started
    <3> QED BY <1>1, <3>1, OneInSet DEF InSet
  <2> QED BY <2>1, <2>2 DEF Take
<1> QED BY <1>1, <1>2, TablesStay, FirstSetStays DEF Claimed

LEMMA ClaimedFindPacket ==
    ASSUME Types, ~firstpacket, Claimed, NEW t \in Threads, FindPacket(t)
    PROVE  Claimed'
<1> DEFINE i == NextPacket(task[t].file, task[t].pos)
           here == IF i > Len(disk[task[t].file]) \/ ~Whole(disk[task[t].file][i])
                   THEN "close" ELSE "load"
<1>1. disk' = disk /\ setid' = setid /\ UNCHANGED <<tables, sourcefilemap>>
  BY DEF FindPacket, idVars
<1>2. task' = [task EXCEPT ![t].pos = i, ![t].pc = here]
  BY DEF FindPacket
<1>3. here \in {"close", "load"}
  OBVIOUS
<1> HIDE DEF i, here
<1>4. task'[t].pc = here /\ \A u \in Threads \ {t} : task'[u] = task[u]
  BY <1>2 DEF Types, TaskTypes, Task
<1>5. \A u \in Threads : InSet(u)'
  BY <1>1, <1>3, <1>4, OneInSet DEF InSet
<1> QED BY <1>1, <1>5, TablesStay, FirstSetStays DEF Claimed

\* Handlers that go on behind the packet.
LEMMA ClaimedHandlers ==
    ASSUME Types, ~firstpacket, Claimed, NEW t \in Threads,
           SkipPacket(t) \/ LoadMainPacket(t) \/ LoadCreatorPacket(t) \/ LoadRecoveryPacket(t)
    PROVE  Claimed'
<1>1. disk' = disk /\ setid' = setid /\ sourcefilemap' = sourcefilemap
  BY DEF SkipPacket, LoadMainPacket, LoadCreatorPacket, LoadRecoveryPacket, idVars
<1>2. \A u \in Threads : InSet(u)'
  <2>1. CASE LoadRecoveryPacket(t)
    <3>1. task'[t].pc = "scan" /\ \A u \in Threads \ {t} : task'[u] = task[u]
      BY <2>1 DEF LoadRecoveryPacket, Types, TaskTypes, Task
    <3> QED BY <1>1, <3>1, OneInSet DEF InSet
  <2>2. CASE ~LoadRecoveryPacket(t)
    BY <1>1, <2>2, OnwardsInSet DEF SkipPacket, LoadMainPacket, LoadCreatorPacket
  <2> QED BY <2>1, <2>2
<1>3. TablesOfSet'
  <2>1. CASE SkipPacket(t)
    BY <1>1, <2>1, TablesStay DEF Claimed, SkipPacket
  <2>2. CASE LoadMainPacket(t) \/ LoadCreatorPacket(t)
    BY <1>1, <2>2, InterestingOfSet, FirstSetStays
       DEF Claimed, LoadMainPacket, LoadCreatorPacket, TablesOfSet, OfSet, EntryOfSet, At
  <2>3. CASE LoadRecoveryPacket(t)
    <3> DEFINE e == Current(t).exponent
               loc == <<task[t].file, task[t].pos>>
    <3>1. recoverypacketmap' = [recoverypacketmap EXCEPT ![e] = loc] /\ OfSet(Current(t))
      BY <2>3, InterestingOfSet DEF LoadRecoveryPacket
    <3>2. At(loc) = Current(t)
      BY DEF At, Current
    <3>3. \A x \in Exponents : recoverypacketmap'[x] # <<>> => OfSet(At(recoverypacketmap'[x]))
      BY <3>1, <3>2 DEF Types, TableTypes, Claimed, TablesOfSet
    <3>4. \A x \in Exponents : recoverypacketmap'[x] # <<>> => OfSet(At(recoverypacketmap[x]))'
      BY <3>3, <1>1, FirstSetStays DEF OfSet, At
    <3> QED BY <2>3, <3>4, <1>1, FirstSetStays
         DEF Claimed, LoadRecoveryPacket, TablesOfSet, OfSet, EntryOfSet
  <2> QED BY <2>1, <2>2, <2>3
<1> QED BY <1>1, <1>2, <1>3, FirstSetStays DEF Claimed

LEMMA ClaimedLookUpFile ==
    ASSUME Types, ~firstpacket, Claimed, NEW t \in Threads, LookUpFile(t)
    PROVE  Claimed'
<1> DEFINE p == Current(t)
<1>1. disk' = disk /\ setid' = setid /\ UNCHANGED <<tables, sourcefilemap>>
  BY DEF LookUpFile, idVars
<1>2. OfSet(p)
  BY InterestingOfSet DEF LookUpFile
<1>3. \A u \in Threads : InSet(u)'
  <2>1. CASE Onwards(t, FALSE)
    BY <1>1, <2>1, OnwardsInSet
  <2>2. ASSUME NEW here \in {"insert", "attach"}, task' = [task EXCEPT ![t].pc = here]
        PROVE  \A u \in Threads : InSet(u)'
    <3>1. /\ task'[t].pc = here /\ task'[t].file = task[t].file /\ task'[t].pos = task[t].pos
          /\ \A u \in Threads \ {t} : task'[u] = task[u]
      BY <2>2 DEF Types, TaskTypes, Task
    <3>2. InSet(t)'
      BY <1>1, <1>2, <3>1, FirstSetStays DEF InSet, OfSet, Current
    <3> QED BY <1>1, <3>1, <3>2, OneInSet
  <2> QED BY <2>1, <2>2 DEF LookUpFile
<1> QED BY <1>1, <1>3, TablesStay, FirstSetStays DEF Claimed

\* An entry stays of the set when a packet of the set is put in.
LEMMA EntryStaysOfSet ==
    ASSUME NEW p \in Packet, OfFile(p), OfSet(p)
    PROVE  /\ EntryOfSet(NewEntry(p))
           /\ \A entry \in Entry : EntryOfSet(entry) => EntryOfSet([entry EXCEPT ![p.type] = p])
<1> DEFINE empty == [description |-> None, verification |-> None]
<1>1. empty \in Entry /\ EntryOfSet(empty)
  BY DEF Entry, EntryOfSet, OfSet
<1>2. \A entry \in Entry : EntryOfSet(entry) => EntryOfSet([entry EXCEPT ![p.type] = p])
  <2> SUFFICES ASSUME NEW entry \in Entry, EntryOfSet(entry)
               PROVE  EntryOfSet([entry EXCEPT ![p.type] = p])
    OBVIOUS
  <2>1. OfSet(entry.description) /\ OfSet(entry.verification)
    <3>1. entry # None
      BY DEF Entry, None
    <3> QED BY <3>1 DEF EntryOfSet
  <2>2. CASE p.type = "description"
    <3>1. [entry EXCEPT ![p.type] = p] = [entry EXCEPT !.description = p]
      BY <2>2
    <3>2. [entry EXCEPT !.description = p].description = p
            /\ [entry EXCEPT !.description = p].verification = entry.verification
      BY DEF Entry
    <3> QED BY <2>1, <3>1, <3>2 DEF EntryOfSet
  <2>3. CASE p.type = "verification"
    <3>1. [entry EXCEPT ![p.type] = p] = [entry EXCEPT !.verification = p]
      BY <2>3
    <3>2. [entry EXCEPT !.verification = p].verification = p
            /\ [entry EXCEPT !.verification = p].description = entry.description
      BY DEF Entry
    <3> QED BY <2>1, <3>1, <3>2 DEF EntryOfSet
  <2> QED BY <2>2, <2>3 DEF OfFile
<1> QED BY <1>1, <1>2 DEF NewEntry

LEMMA ClaimedAttachPacket ==
    ASSUME Types, ~firstpacket, Claimed, NEW t \in Threads, AttachPacket(t)
    PROVE  Claimed'
<1> DEFINE p == Current(t)
<1>1. disk' = disk /\ setid' = setid /\ UNCHANGED tables
  BY DEF AttachPacket, idVars
<1>2. p \in Packet /\ OfFile(p) /\ OfSet(p)
  BY DEF AttachPacket, Scanning, Types, TaskTypes, Placed, AtPacket, Claimed, InSet
<1>3. \A u \in Threads : InSet(u)'
  BY <1>1, OnwardsInSet DEF AttachPacket
<1>4. \A id \in FileIds : EntryOfSet(sourcefilemap'[id])
  <2>1. CASE ~Known(p.id)
    BY <2>1 DEF AttachPacket, Claimed, TablesOfSet
  <2>2. CASE Known(p.id)
    <3>1. p.id \in FileIds /\ sourcefilemap \in [FileIds -> Entries]
      BY <1>2, EntryTypes DEF Types, TableTypes
    <3>2. sourcefilemap[p.id] \in Entry
      BY <2>2, <3>1 DEF Entries, Known
    <3>3. EntryOfSet([sourcefilemap[p.id] EXCEPT ![p.type] = p])
      BY <1>2, <3>1, <3>2, EntryStaysOfSet DEF Claimed, TablesOfSet
    <3>4. sourcefilemap' = [sourcefilemap EXCEPT ![p.id] = [sourcefilemap[p.id] EXCEPT ![p.type] = p]]
      BY <2>2 DEF AttachPacket
    <3> QED BY <3>1, <3>3, <3>4 DEF Claimed, TablesOfSet
  <2> QED BY <2>1, <2>2
<1>5. TablesOfSet'
  BY <1>1, <1>4, FirstSetStays DEF Claimed, TablesOfSet, OfSet, EntryOfSet, tables, At
<1> QED BY <1>1, <1>3, <1>5, FirstSetStays DEF Claimed

LEMMA ClaimedBeginInsert ==
    ASSUME Types, ~firstpacket, Claimed, NEW t \in Threads, BeginInsert(t)
    PROVE  Claimed'
<1>1. disk' = disk /\ setid' = setid /\ UNCHANGED <<tables, sourcefilemap>>
  BY DEF BeginInsert, idVars
<1>2. OfSet(Current(t))
  BY DEF BeginInsert, Scanning, Claimed, InSet
<1>3. \A u \in Threads : InSet(u)'
  <2>1. CASE Onwards(t, TRUE)
    BY <1>1, <2>1, OnwardsInSet
  <2>2. CASE task' = [task EXCEPT ![t].pc = "link", ![t].seen = sourcefilemap]
    <3>1. /\ task'[t].pc = "link" /\ task'[t].file = task[t].file /\ task'[t].pos = task[t].pos
          /\ \A u \in Threads \ {t} : task'[u] = task[u]
      BY <2>2 DEF Types, TaskTypes, Task
    <3>2. InSet(t)'
      BY <1>1, <1>2, <3>1, FirstSetStays DEF InSet, OfSet, Current
    <3> QED BY <1>1, <3>1, <3>2, OneInSet
  <2> QED BY <2>1, <2>2 DEF BeginInsert
<1> QED BY <1>1, <1>3, TablesStay, FirstSetStays DEF Claimed

LEMMA ClaimedLinkEntry ==
    ASSUME Types, ~firstpacket, Claimed, NEW t \in Threads, LinkEntry(t)
    PROVE  Claimed'
<1> DEFINE p == Current(t)
<1>1. disk' = disk /\ setid' = setid /\ UNCHANGED tables
  BY DEF LinkEntry, idVars
<1>2. p \in Packet /\ OfFile(p) /\ OfSet(p)
  BY DEF LinkEntry, Scanning, Types, TaskTypes, Placed, AtPacket, Claimed, InSet
<1>3. \A u \in Threads : InSet(u)'
  BY <1>1, OnwardsInSet DEF LinkEntry
<1>4. PICK base \in {sourcefilemap, [id \in FileIds |-> IF task[t].seen[id] = None THEN None
                                                   ELSE sourcefilemap[id]]} :
        sourcefilemap' = [base EXCEPT ![p.id] = NewEntry(p)]
  BY DEF LinkEntry
<1>5. base \in [FileIds -> Entries] /\ \A id \in FileIds : EntryOfSet(base[id])
  BY DEF Types, TableTypes, Entries, Claimed, TablesOfSet, EntryOfSet
<1>6. \A id \in FileIds : EntryOfSet(sourcefilemap'[id])
  BY <1>2, <1>4, <1>5, EntryStaysOfSet
<1>7. TablesOfSet'
  BY <1>1, <1>6, FirstSetStays DEF Claimed, TablesOfSet, OfSet, EntryOfSet, tables, At
<1> QED BY <1>1, <1>3, <1>7, FirstSetStays DEF Claimed

LEMMA ClaimedCloseFile ==
    ASSUME Types, ~firstpacket, Claimed, NEW t \in Threads, CloseFile(t)
    PROVE  Claimed'
<1>1. disk' = disk /\ setid' = setid /\ UNCHANGED <<tables, sourcefilemap>>
  BY DEF CloseFile, idVars
<1>2. task'[t].pc = "idle" /\ \A u \in Threads \ {t} : task'[u] = task[u]
  BY DEF CloseFile, Types, TaskTypes, Idle
<1>3. \A u \in Threads : InSet(u)'
  BY <1>1, <1>2, OneInSet DEF InSet
<1> QED BY <1>1, <1>3, TablesStay, FirstSetStays DEF Claimed

LEMMA ClaimedCheckPacketConsistency ==
    ASSUME Types, ~firstpacket, Claimed, CheckPacketConsistency
    PROVE  Claimed'
<1>1. disk' = disk /\ setid' = setid /\ task' = task
  BY DEF CheckPacketConsistency, idVars
<1>2. \A u \in Threads : InSet(u)'
  BY <1>1, FirstSetStays DEF Claimed, InSet, OfSet, Current
<1>3. TablesOfSet'
  <2>1. CASE mainpacket = None
    BY <2>1, <1>1, FirstSetStays
       DEF CheckPacketConsistency, Claimed, TablesOfSet, OfSet, EntryOfSet, At
  <2>2. CASE mainpacket # None
    <3>1. recoverypacketmap' = [e \in Exponents |->
            IF RightSize(recoverypacketmap[e]) THEN recoverypacketmap[e] ELSE <<>>]
      BY <2>2 DEF CheckPacketConsistency
    <3>2. sourcefilemap' = [id \in FileIds |->
            IF Consistent(sourcefilemap[id]) THEN sourcefilemap[id] ELSE None]
      BY <2>2 DEF CheckPacketConsistency
    <3>3. \A e \in Exponents : recoverypacketmap'[e] # <<>> => OfSet(At(recoverypacketmap'[e]))
      BY <3>1 DEF Claimed, TablesOfSet
    <3>4. \A id \in FileIds : EntryOfSet(sourcefilemap'[id])
      BY <3>2 DEF Claimed, TablesOfSet, EntryOfSet
    <3>5. mainpacket' = mainpacket /\ creatorpacket' = creatorpacket
      BY DEF CheckPacketConsistency
    <3> QED BY <3>3, <3>4, <3>5, <1>1, FirstSetStays
         DEF Claimed, TablesOfSet, OfSet, EntryOfSet, At
  <2> QED BY <2>1, <2>2
<1> QED BY <1>1, <1>2, <1>3, FirstSetStays DEF Claimed

LEMMA ClaimedElse ==
    ASSUME Types, ~firstpacket, Claimed,
           \/ NextList \/ CreateSourceFileList \/ AllocateSourceBlocks
           \/ PrepareVerificationHashTable \/ CheckDetails \/ UNCHANGED vars
    PROVE  Claimed'
<1>1. disk' = disk /\ task' = task /\ UNCHANGED <<idVars, tables, sourcefilemap>>
  BY DEF NextList, CreateSourceFileList, AllocateSourceBlocks,
     PrepareVerificationHashTable, CheckDetails, vars
<1>2. \A u \in Threads : InSet(u)'
  BY <1>1, FirstSetStays DEF Claimed, InSet, OfSet, Current
<1> QED BY <1>1, <1>2, TablesStay, FirstSetStays DEF Claimed, idVars

\* setid and firstpacket never change again.
LEMMA ClaimedStep ==
    ASSUME Types, HasOwn, ~firstpacket, Claimed, [Next]_vars
    PROVE  OneSetInv'
<1>1. ASSUME NEW t \in Threads, ThreadStep(t) PROVE Claimed'
  <2>1. ~ClaimSet(t) /\ ~SetClaimed(t)
    BY DEF Claimed, InSet, ClaimSet, SetClaimed, Scanning
  <2> QED BY <1>1, <2>1, ClaimedTake, ClaimedFindPacket, ClaimedHandlers, ClaimedLookUpFile,
       ClaimedAttachPacket, ClaimedBeginInsert, ClaimedLinkEntry, ClaimedCloseFile DEF ThreadStep
<1>2. Claimed'
  BY <1>1, ClaimedCheckPacketConsistency, ClaimedElse DEF Next, Finished
<1>3. ASSUME NEW t \in Threads, ThreadStep(t) PROVE firstpacket' = firstpacket
  BY <1>3 DEF ThreadStep, Take, FindPacket, ClaimSet, SetClaimed, SkipPacket,
     LoadRecoveryPacket, LoadMainPacket, LoadCreatorPacket, LookUpFile, AttachPacket,
     BeginInsert, LinkEntry, CloseFile, idVars, Claimed, InSet, Scanning
<1>4. firstpacket' = firstpacket
  BY <1>3 DEF Next, NextList, CheckPacketConsistency, CreateSourceFileList, AllocateSourceBlocks,
     PrepareVerificationHashTable, CheckDetails, Finished, idVars, vars
<1> QED BY <1>2, <1>4 DEF OneSetInv

\* OneSetInv is inductive relative to Types.
LEMMA OneSetStep == Types /\ OneSetInv /\ [Next]_vars => OneSetInv'
<1> SUFFICES ASSUME Types, OneSetInv, [Next]_vars PROVE OneSetInv'
  OBVIOUS
<1>1. disk' = disk
  BY DEF Next, ThreadStep, Take, FindPacket, ClaimSet, SetClaimed, SkipPacket,
     LoadRecoveryPacket, LoadMainPacket, LoadCreatorPacket, LookUpFile, AttachPacket,
     BeginInsert, LinkEntry, CloseFile, NextList, CheckPacketConsistency, CreateSourceFileList,
     AllocateSourceBlocks, PrepareVerificationHashTable, CheckDetails, Finished, vars
<1>2. CASE ~HasOwn
  BY <1>1, <1>2, FirstSetStays DEF OneSetInv
<1>3. CASE HasOwn /\ ~firstpacket
  BY <1>3, ClaimedStep DEF OneSetInv
<1>4. CASE HasOwn /\ firstpacket /\ Next
  BY <1>4, UnclaimedStep DEF OneSetInv
<1>5. CASE HasOwn /\ firstpacket /\ UNCHANGED vars
  BY <1>5, FirstSetStays DEF OneSetInv, Unclaimed, OnTheWay, TablesOfSet, OfSet, EntryOfSet,
     At, vars, tables, idVars
<1> QED BY <1>2, <1>3, <1>4, <1>5

\* par2repairer.cpp:594-601.  However many threads load the other files, and
\* whatever sets these belong to, only packets of the set of the first whole
\* packet of the file named on the command line are ever used.
THEOREM OneSetHolds == Spec => []OneSet
  BY InitTypes, TypesStep, InitOneSet, OneSetStep, OneSetFollows, PTL DEF Spec

-----------------------------------------------------------------------------
(* Block counts *)

HereOf(f) == {e \in Exponents : recoverypacketmap[e] # <<>> /\ recoverypacketmap[e][1] = f}
Busy(t) == task[t].pc # "idle"

\* No file is loaded by two threads, or again once its packets were counted;
\* the files under way are earlier on the list than the next one.
Distinct == \A t, u \in Threads : Busy(t) /\ Busy(u) /\ task[t].file = task[u].file => t = u
OnList ==
    phase = "others" =>
      \A t \in Threads : Busy(t) =>
        \E k \in 1 .. Len(OtherFiles) : k < next /\ task[t].file = OtherFiles[k]
Counting ==
    \A t \in Threads : Busy(t) =>
      /\ task[t].file \notin loaded
      /\ Cardinality(HereOf(task[t].file)) <= task[t].recovery
      /\ task[t].recovery <= task[t].packets
CountedOrBusy ==
    \A f \in Directory :
      IF f \in loaded THEN Cardinality(HereOf(f)) <= blockcount[f]
      ELSE HereOf(f) # {} => \E t \in Threads : Busy(t) /\ task[t].file = f
CountInv == Distinct /\ OnList /\ Counting /\ CountedOrBusy

\* There are finitely many exponents.
LEMMA HereFinite == \A f : IsFiniteSet(HereOf(f)) /\ Cardinality(HereOf(f)) \in Nat
<1>1. \A f : HereOf(f) \subseteq Exponents
  BY DEF HereOf
<1> QED BY <1>1, LoadingAssumption, FS_Subset, FS_CardinalityType DEF LoadingAssumption

\* No name is twice on the list of the other files.
LEMMA OtherFilesDistinct ==
    /\ OtherFiles \in Seq(Directory)
    /\ \A i, j \in 1 .. Len(OtherFiles) : OtherFiles[i] = OtherFiles[j] => i = j
<1> DEFINE S == {f \in Directory : Matches(f, BaseName(ParFile))}
           n == Cardinality(S)
           injections == {f \in [1 .. n -> S] : IsInjective(f)}
<1>1. IsFiniteSet(S)
  BY LoadingAssumption, FS_Subset DEF LoadingAssumption
<1> HIDE DEF S
<1>2. n \in Nat /\ ExistsBijection(1 .. n, S)
  BY <1>1, FS_CardinalityType
<1>3. \E f \in [1 .. n -> S] : IsInjective(f)
  BY <1>2 DEF ExistsBijection, Bijection, Injection
<1>4. SetToSeq(S) \in [1 .. n -> S] /\ IsInjective(SetToSeq(S))
  BY <1>3 DEF SetToSeq
<1>5. OtherFiles = SetToSeq(S) /\ S \subseteq Directory
  BY DEF OtherFiles, S
<1>6. OtherFiles \in [1 .. n -> S] /\ IsInjective(OtherFiles)
  BY <1>4, <1>5
<1>7. OtherFiles \in Seq(S) /\ Len(OtherFiles) = n /\ DOMAIN OtherFiles = 1 .. n
  BY <1>2, <1>6
<1> QED BY <1>5, <1>6, <1>7 DEF IsInjective

\* CountInv holds at the beginning, and implies BlockCountCovers.
LEMMA InitCount == Init => CountInv
<1> SUFFICES ASSUME Init PROVE CountInv
  OBVIOUS
<1>1. \A t \in Threads : ~Busy(t)
  BY DEF Init, Busy, Idle
<1>2. \A f : HereOf(f) = {}
  BY DEF Init, HereOf
<1> QED BY <1>1, <1>2 DEF Init, CountInv, Distinct, OnList, Counting, CountedOrBusy

LEMMA CountFollows == CountInv /\ Types => BlockCountCovers
<1> SUFFICES ASSUME CountInv, Types, NEW f \in Directory
             PROVE  IF f \in loaded THEN Cardinality(HereOf(f)) <= blockcount[f]
                    ELSE HereOf(f) # {} =>
                      \E t \in {t \in Threads : task[t].file = f} :
                        Cardinality(HereOf(f)) <= task[t].recovery
  BY DEF BlockCountCovers, HereOf
<1> QED BY DEF CountInv, CountedOrBusy, Counting

\* Thread t has got on with its file, and counted no recovery packet.
GotOn(t) ==
    /\ Busy(t) /\ Busy(t)'
    /\ task'[t].file = task[t].file /\ task'[t].recovery = task[t].recovery
    /\ task'[t].packets \in {task[t].packets, task[t].packets + 1}
    /\ \A u \in Threads \ {t} : task'[u] = task[u]

\* Steps that count no recovery packet change nothing that CountInv is about.
LEMMA GotOnCounts ==
    ASSUME Types, CountInv, NEW t \in Threads, GotOn(t),
           UNCHANGED <<phase, next, loaded, blockcount, recoverypacketmap>>
    PROVE  CountInv'
<1>1. \A u \in Threads : /\ Busy(u)' = Busy(u) /\ task'[u].file = task[u].file
                         /\ task'[u].recovery = task[u].recovery
                         /\ task'[u].packets \in {task[u].packets, task[u].packets + 1}
  <2> SUFFICES ASSUME NEW u \in Threads
               PROVE  /\ Busy(u)' = Busy(u) /\ task'[u].file = task[u].file
                      /\ task'[u].recovery = task[u].recovery
                      /\ task'[u].packets \in {task[u].packets, task[u].packets + 1}
    OBVIOUS
  <2>1. CASE u = t
    BY <2>1, Zenon DEF GotOn
  <2>2. CASE u # t
    BY <2>2 DEF GotOn, Busy
  <2> QED BY <2>1, <2>2
<1>2. \A f : HereOf(f)' = HereOf(f)
  BY DEF HereOf
<1>3. Distinct'
  BY <1>1 DEF CountInv, Distinct
<1>4. OnList'
  BY <1>1 DEF CountInv, OnList
<1>5. CountedOrBusy'
  BY <1>1, <1>2 DEF CountInv, CountedOrBusy
<1>6. Counting'
  <2> SUFFICES ASSUME NEW u \in Threads, Busy(u)'
               PROVE  /\ task'[u].file \notin loaded'
                      /\ Cardinality(HereOf(task[u].file)') <= task'[u].recovery
                      /\ task'[u].recovery <= task'[u].packets
    BY DEF Counting
  <2>1. HereOf(task[u].file)' = HereOf(task[u].file)
    BY <1>1 DEF HereOf
  <2>2. /\ task[u].file \notin loaded /\ Cardinality(HereOf(task[u].file)) <= task[u].recovery
        /\ task[u].recovery <= task[u].packets
    BY <1>1 DEF CountInv, Counting
  <2>3. task[u].packets \in Nat /\ task[u].recovery \in Nat
    BY DEF Types, TaskTypes, Task
  <2>4. task'[u].recovery <= task'[u].packets
    BY <1>1, <2>2, <2>3
  <2> QED BY <1>1, <2>1, <2>2, <2>4
<1> QED BY <1>3, <1>4, <1>5, <1>6 DEF CountInv

\* Going on behind a packet is such a step.
LEMMA OnwardsGotOn ==
    ASSUME Types, NEW t \in Threads, Busy(t), NEW used \in BOOLEAN, Onwards(t, used)
    PROVE  GotOn(t)
<1> DEFINE c == task[t]
           n == IF used THEN c.packets + 1 ELSE c.packets
           new == [pc |-> "scan", file |-> c.file, pos |-> c.pos + 1, packets |-> n,
                   recovery |-> c.recovery, seen |-> <<>>]
<1>1. task \in [Threads -> Task] /\ c \in Task
  BY DEF Types, TaskTypes
<1>2. task' = [task EXCEPT ![t] = new]
  BY <1>1 DEF Onwards, Task
<1>3. new.pc = "scan" /\ new.file = c.file /\ new.recovery = c.recovery
        /\ new.packets \in {c.packets, c.packets + 1}
  OBVIOUS
<1> HIDE DEF new
<1>4. task'[t] = new /\ \A u \in Threads \ {t} : task'[u] = task[u]
  BY <1>1, <1>2
<1> QED BY <1>3, <1>4 DEF GotOn, Busy

\* Only the place within the file changes.
LEMMA PlaceGotOn ==
    ASSUME Types, NEW t \in Threads, Busy(t), NEW here \in Places \ {"idle"},
           \/ task' = [task EXCEPT ![t].pc = here]
           \/ \E i : task' = [task EXCEPT ![t].pos = i, ![t].pc = here]
           \/ \E m : task' = [task EXCEPT ![t].pc = here, ![t].seen = m]
    PROVE  GotOn(t)
<1> DEFINE c == task[t]
<1>1. task \in [Threads -> Task] /\ c \in Task
  BY DEF Types, TaskTypes
<1>2. /\ task'[t].pc = here /\ task'[t].file = c.file
      /\ task'[t].recovery = c.recovery /\ task'[t].packets = c.packets
      /\ \A u \in Threads \ {t} : task'[u] = task[u]
  <2>1. CASE task' = [task EXCEPT ![t].pc = here]
    BY <1>1, <2>1 DEF Task
  <2>2. CASE \E i : task' = [task EXCEPT ![t].pos = i, ![t].pc = here]
    BY <1>1, <2>2, ZenonT(60) DEF Task
  <2>3. CASE \E m : task' = [task EXCEPT ![t].pc = here, ![t].seen = m]
    <3>1. PICK m : task' = [task EXCEPT ![t].pc = here, ![t].seen = m]
      BY <2>3
    <3> DEFINE new == [c EXCEPT !.pc = here, !.seen = m]
    <3>2. task'[t] = new /\ \A u \in Threads \ {t} : task'[u] = task[u]
      BY <1>1, <3>1
    <3>3. /\ new.pc = here /\ new.file = c.file
          /\ new.recovery = c.recovery /\ new.packets = c.packets
      BY <1>1 DEF Task
    <3> HIDE DEF new
    <3> QED BY <3>2, <3>3
  <2> QED BY <2>1, <2>2, <2>3
<1> QED BY <1>2 DEF GotOn, Busy

\* A file that is taken is nobody else's: it is next on the list.
LEMMA TakeCounts == ASSUME Types, CountInv, NEW t \in Threads, Take(t) PROVE CountInv'
<1> DEFINE f == Names[next]
<1>1. /\ phase' = phase /\ next' = next + 1 /\ next \in Nat \ {0} /\ next <= Len(Names)
      /\ UNCHANGED <<loaded, blockcount, recoverypacketmap>> /\ task[t].pc = "idle"
      /\ task \in [Threads -> Task]
  BY DEF Take, tables, Types, TaskTypes
<1>2. \A g : HereOf(g)' = HereOf(g)
  BY <1>1 DEF HereOf
<1>3. CASE task' = task
  <2>1. OnList'
    BY <1>1, <1>3 DEF CountInv, OnList, Busy
  <2>2. Counting'
    BY <1>1, <1>3 DEF CountInv, Counting, Busy, HereOf
  <2> QED BY <1>1, <1>2, <1>3, <2>1, <2>2 DEF CountInv, Distinct, CountedOrBusy, Busy
<1>4. CASE f \notin loaded /\ f \in Directory /\ task' = [task EXCEPT ![t] = Started(f)]
  <2>1. \A u \in Threads : Busy(u) => task[u].file # f
    <3>1. CASE \A u \in Threads : task[u] = Idle
      BY <3>1 DEF Busy, Idle
    <3>2. CASE phase = "others"
      <4>1. f = OtherFiles[next] /\ next \in 1 .. Len(OtherFiles)
        BY <1>1, <3>2 DEF Names
      <4> HIDE DEF f
      <4> QED BY <3>2, <4>1, <1>1, OtherFilesDistinct DEF CountInv, OnList
    <3> QED BY <3>1, <3>2 DEF Take, MayTake
  <2>2. HereOf(f) = {}
    BY <1>4, <2>1 DEF CountInv, CountedOrBusy
  <2> HIDE DEF f
  <2>3. /\ task'[t].pc = "scan" /\ task'[t].file = f
        /\ task'[t].recovery = 0 /\ task'[t].packets = 0
        /\ \A u \in Threads \ {t} : task'[u] = task[u]
    BY <1>1, <1>4 DEF Started
  <2>4. Distinct'
    BY <2>1, <2>3 DEF CountInv, Distinct, Busy
  <2>5. OnList'
    <3> SUFFICES ASSUME phase = "others", NEW u \in Threads, Busy(u)'
                 PROVE  \E k \in 1 .. Len(OtherFiles) : k < next' /\ task'[u].file = OtherFiles[k]
      BY <1>1 DEF OnList
    <3>1. CASE u = t
      <4>1. f = OtherFiles[next] /\ next \in 1 .. Len(OtherFiles) /\ next < next'
        BY <1>1 DEF Names, f
      <4> QED BY <2>3, <3>1, <4>1
    <3>2. CASE u # t
      <4>1. Busy(u) /\ task'[u].file = task[u].file
        BY <2>3, <3>2 DEF Busy
      <4>2. PICK k \in 1 .. Len(OtherFiles) : k < next /\ task[u].file = OtherFiles[k]
        BY <4>1 DEF CountInv, OnList
      <4>3. k < next'
        BY <4>2, <1>1, OtherFilesDistinct
      <4> QED BY <4>1, <4>2, <4>3
    <3> QED BY <3>1, <3>2
  <2>6. Counting'
    <3> SUFFICES ASSUME NEW u \in Threads, Busy(u)'
                 PROVE  /\ task'[u].file \notin loaded
                        /\ Cardinality(HereOf(task[u].file)') <= task'[u].recovery
                        /\ task'[u].recovery <= task'[u].packets
      BY <1>1 DEF Counting
    <3>1. CASE u = t
      <4>1. HereOf(task[u].file)' = HereOf(f)
        BY <1>1, <2>3, <3>1 DEF HereOf
      <4> QED BY <1>4, <2>2, <2>3, <3>1, <4>1, FS_EmptySet
    <3>2. CASE u # t
      <4>1. HereOf(task[u].file)' = HereOf(task[u].file)
        BY <1>1, <2>3, <3>2 DEF HereOf
      <4> QED BY <2>3, <3>2, <4>1 DEF CountInv, Counting, Busy
    <3> QED BY <3>1, <3>2
  <2>7. CountedOrBusy'
    <3>1. \A u \in Threads : Busy(u) => Busy(u)' /\ task'[u].file = task[u].file
      BY <1>1, <2>3 DEF Busy
    <3> QED BY <1>1, <1>2, <3>1 DEF CountInv, CountedOrBusy
  <2> QED BY <2>4, <2>5, <2>6, <2>7 DEF CountInv
<1> QED BY <1>3, <1>4 DEF Take

\* The handlers that count no recovery packet.
LEMMA PlainCounts ==
    ASSUME Types, CountInv, NEW t \in Threads,
           \/ FindPacket(t) \/ ClaimSet(t) \/ SetClaimed(t) \/ SkipPacket(t)
           \/ LoadMainPacket(t) \/ LoadCreatorPacket(t) \/ LookUpFile(t)
           \/ AttachPacket(t) \/ BeginInsert(t) \/ LinkEntry(t)
    PROVE  CountInv'
<1>1. UNCHANGED <<phase, next, loaded, blockcount, recoverypacketmap>>
  BY DEF FindPacket, ClaimSet, SetClaimed, SkipPacket, LoadMainPacket, LoadCreatorPacket,
     LookUpFile, AttachPacket, BeginInsert, LinkEntry, tables
<1>2. Busy(t)
  BY DEF FindPacket, ClaimSet, SetClaimed, SkipPacket, LoadMainPacket, LoadCreatorPacket,
     LookUpFile, AttachPacket, BeginInsert, LinkEntry, Scanning, Busy
<1>3. GotOn(t)
  <2>1. CASE FindPacket(t)
    <3> DEFINE i == NextPacket(task[t].file, task[t].pos)
               here == IF i > Len(disk[task[t].file]) \/ ~Whole(disk[task[t].file][i])
                       THEN "close" ELSE IF firstpacket THEN "claim" ELSE "load"
    <3>1. task' = [task EXCEPT ![t].pos = i, ![t].pc = here]
      BY <2>1 DEF FindPacket
    <3>2. here \in Places \ {"idle"}
      BY DEF Places
    <3> HIDE DEF i, here
    <3> QED BY <1>2, <3>1, <3>2, PlaceGotOn
  <2>2. CASE ClaimSet(t) \/ SetClaimed(t)
    <3>1. PICK here \in {"claiming", "load"} : task' = [task EXCEPT ![t].pc = here]
      BY <2>2 DEF ClaimSet, SetClaimed
    <3>2. here \in Places \ {"idle"}
      BY DEF Places
    <3> QED BY <1>2, <3>1, <3>2, PlaceGotOn
  <2>3. CASE LookUpFile(t)
    <3>1. CASE Onwards(t, FALSE)
      BY <1>2, <3>1, OnwardsGotOn
    <3>2. CASE \E here \in {"insert", "attach"} : task' = [task EXCEPT ![t].pc = here]
      <4>1. PICK here \in {"insert", "attach"} : task' = [task EXCEPT ![t].pc = here]
        BY <3>2
      <4>2. here \in Places \ {"idle"}
        BY DEF Places
      <4> QED BY <1>2, <4>1, <4>2, PlaceGotOn
    <3> QED BY <2>3, <3>1, <3>2 DEF LookUpFile
  <2>4. CASE BeginInsert(t)
    <3>1. CASE Onwards(t, TRUE)
      BY <1>2, <3>1, OnwardsGotOn
    <3>2. CASE \E m : task' = [task EXCEPT ![t].pc = "link", ![t].seen = m]
      <4>1. "link" \in Places \ {"idle"}
        BY DEF Places
      <4> QED BY <1>2, <3>2, <4>1, PlaceGotOn
    <3> QED BY <2>4, <3>1, <3>2 DEF BeginInsert
  <2>5. CASE SkipPacket(t) \/ LoadMainPacket(t) \/ LoadCreatorPacket(t) \/ AttachPacket(t)
               \/ LinkEntry(t)
    BY <1>2, <2>5, OnwardsGotOn
       DEF SkipPacket, LoadMainPacket, LoadCreatorPacket, AttachPacket, LinkEntry
  <2> QED BY <2>1, <2>2, <2>3, <2>4, <2>5
<1> QED BY <1>1, <1>3, GotOnCounts

\* One more packet in the map, one more counted; other files may lose theirs.
LEMMA LoadRecoveryPacketCounts ==
    ASSUME Types, CountInv, NEW t \in Threads, LoadRecoveryPacket(t)
    PROVE  CountInv'
<1> DEFINE c == task[t]
           e == Current(t).exponent
<1>1. /\ UNCHANGED <<phase, next, loaded, blockcount>> /\ Busy(t)
      /\ task \in [Threads -> Task] /\ c \in Task /\ e \in Exponents
      /\ recoverypacketmap \in [Exponents -> {<<>>} \cup (Directory \X Nat)]
  <2>1. Current(t) \in Packet /\ Current(t).type = "recovery"
    BY DEF LoadRecoveryPacket, Types, TaskTypes, Placed, Scanning, AtPacket
  <2>2. e \in Exponents
    BY <2>1 DEF Packet
  <2> QED BY <2>2 DEF LoadRecoveryPacket, Scanning, Busy, Types, TaskTypes, TableTypes
<1>2. /\ Busy(t)' /\ task'[t].file = c.file /\ task'[t].recovery = c.recovery + 1
      /\ task'[t].packets = c.packets + 1
      /\ \A u \in Threads \ {t} : task'[u] = task[u]
  <2> DEFINE r == IF Counted(e) THEN c.recovery + 1 ELSE c.recovery
             new == [pc |-> "scan", file |-> c.file, pos |-> c.pos + 1,
                     packets |-> c.packets + 1, recovery |-> r, seen |-> c.seen]
  <2>0. c \in Task /\ task \in [Threads -> Task]
    BY <1>1
  <2>1. task' = [task EXCEPT ![t] = new]
    BY <2>0 DEF LoadRecoveryPacket, Task
  <2>2. /\ new.pc = "scan" /\ new.file = c.file /\ new.recovery = c.recovery + 1
        /\ new.packets = c.packets + 1
    BY DEF Counted
  <2> HIDE DEF new
  <2> QED BY <1>1, <2>1, <2>2 DEF Busy
<1>3. HereOf(c.file)' \subseteq HereOf(c.file) \cup {e}
        /\ \A g : g # c.file => HereOf(g)' \subseteq HereOf(g)
  <2>1. recoverypacketmap' = [recoverypacketmap EXCEPT ![e] = <<c.file, c.pos>>]
    BY DEF LoadRecoveryPacket
  <2>2. recoverypacketmap'[e][1] = c.file /\ \A x \in Exponents \ {e} : recoverypacketmap'[x] = recoverypacketmap[x]
    BY <1>1, <2>1
  <2> QED BY <1>2, <2>2 DEF HereOf
<1>4. Cardinality(HereOf(c.file)') <= Cardinality(HereOf(c.file)) + 1
  <2> DEFINE h == HereOf(c.file)
             more == h \cup {e}
             now == HereOf(c.file)'
  <2>1. IsFiniteSet(h) /\ Cardinality(h) \in Nat
    BY HereFinite
  <2>2. now \subseteq more
    BY <1>3
  <2> HIDE DEF h, now
  <2>3. IsFiniteSet(more) /\ Cardinality(more) <= Cardinality(h) + 1
    BY <2>1, FS_AddElement
  <2>4. IsFiniteSet(now) /\ Cardinality(now) <= Cardinality(more)
    BY <2>2, <2>3, FS_Subset
  <2>5. Cardinality(now) \in Nat /\ Cardinality(more) \in Nat
    BY <2>3, <2>4, FS_CardinalityType
  <2> QED BY <2>1, <2>3, <2>4, <2>5 DEF h, now
<1>5. \A g : g # c.file => Cardinality(HereOf(g)') <= Cardinality(HereOf(g))
  <2> SUFFICES ASSUME NEW g, g # c.file
               PROVE  Cardinality(HereOf(g)') <= Cardinality(HereOf(g))
    OBVIOUS
  <2>1. IsFiniteSet(HereOf(g)) /\ HereOf(g)' \subseteq HereOf(g)
    BY <1>3, HereFinite
  <2> QED BY <2>1, FS_Subset
<1>6. Distinct'
  <2>1. \A u \in Threads : Busy(u)' = Busy(u) /\ task'[u].file = task[u].file
    BY <1>1, <1>2 DEF Busy
  <2> QED BY <2>1 DEF CountInv, Distinct
<1>7. OnList'
  <2>1. \A u \in Threads : Busy(u)' = Busy(u) /\ task'[u].file = task[u].file
    BY <1>1, <1>2 DEF Busy
  <2> QED BY <1>1, <2>1 DEF CountInv, OnList
<1>8. Counting'
  <2> SUFFICES ASSUME NEW u \in Threads, Busy(u)'
               PROVE  /\ task'[u].file \notin loaded
                      /\ Cardinality(HereOf(task[u].file)') <= task'[u].recovery
                      /\ task'[u].recovery <= task'[u].packets
    BY <1>1 DEF Counting
  <2>1. Busy(u) /\ task'[u].file = task[u].file
    BY <1>1, <1>2 DEF Busy
  <2>2. HereOf(task[u].file)' = {x \in Exponents : recoverypacketmap'[x] # <<>>
                                   /\ recoverypacketmap'[x][1] = task[u].file}
    BY <2>1 DEF HereOf
  <2>3. /\ task[u].file \notin loaded /\ Cardinality(HereOf(task[u].file)) <= task[u].recovery
        /\ task[u].recovery <= task[u].packets
        /\ task[u].recovery \in Nat /\ task[u].packets \in Nat
    BY <2>1 DEF CountInv, Counting, Types, TaskTypes, Task
  <2>4. Cardinality(HereOf(task[u].file)) \in Nat
    BY HereFinite
  <2>5. CASE u = t
    <3>1. Cardinality(HereOf(task[u].file)') <= Cardinality(HereOf(task[u].file)) + 1
      BY <1>4, <2>2, <2>5 DEF HereOf
    <3>2. Cardinality(HereOf(task[u].file)') \in Nat
      BY HereFinite, FS_Subset, FS_CardinalityType, LoadingAssumption, <2>2 DEF LoadingAssumption
    <3> QED BY <1>2, <2>1, <2>3, <2>4, <2>5, <3>1, <3>2
  <2>6. CASE u # t
    <3>1. task[u].file # c.file
      BY <1>1, <2>1, <2>6 DEF CountInv, Distinct
    <3>2. Cardinality(HereOf(task[u].file)') <= Cardinality(HereOf(task[u].file))
      BY <1>5, <2>2, <3>1 DEF HereOf
    <3>3. Cardinality(HereOf(task[u].file)') \in Nat
      BY HereFinite, FS_Subset, FS_CardinalityType, LoadingAssumption, <2>2 DEF LoadingAssumption
    <3> QED BY <1>2, <2>1, <2>3, <2>4, <2>6, <3>2, <3>3
  <2> QED BY <2>5, <2>6
<1>9. CountedOrBusy'
  <2> SUFFICES ASSUME NEW f \in Directory
               PROVE  IF f \in loaded THEN Cardinality(HereOf(f)') <= blockcount[f]
                      ELSE HereOf(f)' # {} => \E u \in Threads : Busy(u)' /\ task'[u].file = f
    BY <1>1 DEF CountedOrBusy
  <2>1. CASE f \in loaded
    <3>1. f # c.file
      BY <1>1, <2>1 DEF CountInv, Counting
    <3>2. Cardinality(HereOf(f)') <= Cardinality(HereOf(f))
      BY <1>5, <3>1
    <3>3. Cardinality(HereOf(f)') \in Nat /\ Cardinality(HereOf(f)) \in Nat /\ blockcount[f] \in Nat
      <4>1. HereOf(f)' \subseteq Exponents
        BY DEF HereOf
      <4> QED BY <4>1, HereFinite, FS_Subset, FS_CardinalityType, LoadingAssumption
           DEF LoadingAssumption, Types
    <3> QED BY <2>1, <3>2, <3>3 DEF CountInv, CountedOrBusy
  <2>2. CASE f \notin loaded /\ f = c.file
    BY <1>2, <2>2
  <2>3. CASE f \notin loaded /\ f # c.file
    <3> SUFFICES ASSUME HereOf(f)' # {}
                 PROVE  \E u \in Threads : Busy(u)' /\ task'[u].file = f
      BY <2>3
    <3>1. HereOf(f) # {}
      BY <1>3, <2>3
    <3>2. PICK u \in Threads : Busy(u) /\ task[u].file = f
      BY <2>3, <3>1 DEF CountInv, CountedOrBusy
    <3> QED BY <1>1, <1>2, <3>2 DEF Busy
  <2> QED BY <2>1, <2>2, <2>3
<1> QED BY <1>6, <1>7, <1>8, <1>9 DEF CountInv

\* The count moves from the thread to the DiskFile.
LEMMA CloseFileCounts ==
    ASSUME Types, CountInv, NEW t \in Threads, CloseFile(t)
    PROVE  CountInv'
<1> DEFINE c == task[t]
<1>1. /\ UNCHANGED <<phase, next, recoverypacketmap>> /\ Busy(t)
      /\ task \in [Threads -> Task] /\ c \in Task /\ c.file \in Directory
      /\ blockcount \in [Directory -> Nat]
  BY DEF CloseFile, Scanning, Busy, Types, TaskTypes, Placed, tables
<1>2. task'[t].pc = "idle" /\ \A u \in Threads \ {t} : task'[u] = task[u]
  BY <1>1 DEF CloseFile, Idle
<1>3. \A u \in Threads : Busy(u)' => u # t /\ Busy(u) /\ task'[u] = task[u]
  BY <1>2 DEF Busy
<1>4. \A g : HereOf(g)' = HereOf(g)
  BY <1>1 DEF HereOf
<1>5. /\ c.file \notin loaded /\ Cardinality(HereOf(c.file)) <= c.recovery
      /\ c.recovery <= c.packets /\ c.recovery \in Nat /\ c.packets \in Nat
  BY <1>1 DEF CountInv, Counting, Task
<1>6. \A u \in Threads : Busy(u)' => task[u].file # c.file
  BY <1>1, <1>3 DEF CountInv, Distinct
<1>7. Distinct' /\ OnList'
  BY <1>1, <1>3 DEF CountInv, Distinct, OnList
<1>8. Counting'
  <2> SUFFICES ASSUME NEW u \in Threads, Busy(u)'
               PROVE  /\ task'[u].file \notin loaded'
                      /\ Cardinality(HereOf(task[u].file)') <= task'[u].recovery
                      /\ task'[u].recovery <= task'[u].packets
    BY DEF Counting
  <2>1. HereOf(task[u].file)' = HereOf(task[u].file)
    BY <1>1, <1>3 DEF HereOf
  <2>2. task'[u].file \notin loaded'
    BY <1>3, <1>6 DEF CloseFile, CountInv, Counting
  <2> QED BY <1>3, <2>1, <2>2 DEF CountInv, Counting
<1>9. CountedOrBusy'
  <2> SUFFICES ASSUME NEW f \in Directory
               PROVE  IF f \in loaded' THEN Cardinality(HereOf(f)) <= blockcount'[f]
                      ELSE HereOf(f) # {} => \E u \in Threads : Busy(u)' /\ task'[u].file = f
    BY <1>4 DEF CountedOrBusy
  <2>1. CASE f = c.file /\ c.packets > 0
    <3>1. f \in loaded' /\ blockcount'[f] = c.recovery
      BY <1>1, <2>1 DEF CloseFile
    <3> QED BY <1>5, <2>1, <3>1
  <2>2. CASE f = c.file /\ ~(c.packets > 0)
    <3>1. Cardinality(HereOf(f)) = 0
      <4>1. Cardinality(HereOf(f)) \in Nat
        BY HereFinite
      <4> QED BY <1>5, <2>2, <4>1
    <3>2. HereOf(f) = {} /\ f \notin loaded'
      BY <1>5, <2>2, <3>1, HereFinite, FS_EmptySet DEF CloseFile
    <3> QED BY <3>2
  <2>3. CASE f # c.file
    <3>1. (f \in loaded') = (f \in loaded) /\ blockcount'[f] = blockcount[f]
      BY <1>1, <2>3 DEF CloseFile
    <3>2. \A u \in Threads : Busy(u) /\ task[u].file = f => Busy(u)' /\ task'[u].file = f
      BY <1>2, <2>3 DEF Busy
    <3> QED BY <3>1, <3>2 DEF CountInv, CountedOrBusy
  <2> QED BY <2>1, <2>2, <2>3
<1> QED BY <1>7, <1>8, <1>9 DEF CountInv

\* CheckPacketConsistency may only take packets out of the map.
LEMMA AfterwardsCounts ==
    ASSUME Types, CountInv,
           \/ NextList \/ CheckPacketConsistency \/ CreateSourceFileList \/ AllocateSourceBlocks
           \/ PrepareVerificationHashTable \/ CheckDetails \/ UNCHANGED vars
    PROVE  CountInv'
<1>1. task' = task /\ loaded' = loaded /\ blockcount' = blockcount
  BY DEF NextList, CheckPacketConsistency, CreateSourceFileList, AllocateSourceBlocks,
     PrepareVerificationHashTable, CheckDetails, vars
<1>2. \A g : HereOf(g)' \subseteq HereOf(g)
  <2>1. CASE recoverypacketmap' = recoverypacketmap
    BY <2>1 DEF HereOf
  <2>2. CASE recoverypacketmap' = [e \in Exponents |->
               IF RightSize(recoverypacketmap[e]) THEN recoverypacketmap[e] ELSE <<>>]
    BY <2>2 DEF HereOf
  <2> QED BY <2>1, <2>2
       DEF NextList, CheckPacketConsistency, CreateSourceFileList, AllocateSourceBlocks,
           PrepareVerificationHashTable, CheckDetails, vars, tables
<1>3. \A g : Cardinality(HereOf(g)') <= Cardinality(HereOf(g)) /\ Cardinality(HereOf(g)') \in Nat
  <2> SUFFICES ASSUME NEW g PROVE Cardinality(HereOf(g)') <= Cardinality(HereOf(g))
                                    /\ Cardinality(HereOf(g)') \in Nat
    OBVIOUS
  <2>1. IsFiniteSet(HereOf(g)) /\ HereOf(g)' \subseteq HereOf(g)
    BY <1>2, HereFinite
  <2> QED BY <2>1, FS_Subset, FS_CardinalityType
<1>4. OnList'
  <2>1. CASE NextList
    BY <1>1, <2>1 DEF NextList, OnList, Busy, Idle
  <2>2. CASE phase' = phase /\ next' = next
    BY <1>1, <2>2 DEF CountInv, OnList, Busy
  <2>3. CASE phase' # "others"
    BY <2>3 DEF OnList
  <2>4. NextList \/ (phase' = phase /\ next' = next) \/ phase' # "others"
    BY DEF CheckPacketConsistency, CreateSourceFileList, AllocateSourceBlocks,
       PrepareVerificationHashTable, CheckDetails, vars
  <2> QED BY <2>1, <2>2, <2>3, <2>4
<1>5. Distinct'
  BY <1>1 DEF CountInv, Distinct, Busy
<1>6. Counting'
  <2> SUFFICES ASSUME NEW u \in Threads, Busy(u)
               PROVE  /\ task[u].file \notin loaded
                      /\ Cardinality(HereOf(task[u].file)') <= task[u].recovery
                      /\ task[u].recovery <= task[u].packets
    BY <1>1 DEF Counting, Busy
  <2>1. HereOf(task[u].file)' \subseteq HereOf(task[u].file)
    <3>1. HereOf(task[u].file)' = {e \in Exponents : recoverypacketmap'[e] # <<>>
                                     /\ recoverypacketmap'[e][1] = task[u].file}
      BY <1>1 DEF HereOf
    <3> QED BY <1>2, <3>1 DEF HereOf
  <2>2. /\ Cardinality(HereOf(task[u].file)') <= Cardinality(HereOf(task[u].file))
        /\ Cardinality(HereOf(task[u].file)') \in Nat
    BY <2>1, HereFinite, FS_Subset, FS_CardinalityType
  <2>3. /\ task[u].file \notin loaded /\ Cardinality(HereOf(task[u].file)) <= task[u].recovery
        /\ task[u].recovery <= task[u].packets /\ task[u].recovery \in Nat
    BY DEF CountInv, Counting, Types, TaskTypes, Task
  <2> QED BY <2>2, <2>3, HereFinite
<1>7. CountedOrBusy'
  <2> SUFFICES ASSUME NEW f \in Directory
               PROVE  IF f \in loaded THEN Cardinality(HereOf(f)') <= blockcount[f]
                      ELSE HereOf(f)' # {} => \E u \in Threads : Busy(u) /\ task[u].file = f
    BY <1>1 DEF CountedOrBusy, Busy
  <2>1. blockcount[f] \in Nat
    BY DEF Types
  <2> QED BY <1>2, <1>3, <2>1, HereFinite DEF CountInv, CountedOrBusy
<1> QED BY <1>4, <1>5, <1>6, <1>7 DEF CountInv

\* CountInv is inductive relative to Types.
LEMMA CountStep == Types /\ CountInv /\ [Next]_vars => CountInv'
<1> SUFFICES ASSUME Types, CountInv, [Next]_vars PROVE CountInv'
  OBVIOUS
<1>1. ASSUME NEW t \in Threads, ThreadStep(t) PROVE CountInv'
  BY <1>1, TakeCounts, PlainCounts, LoadRecoveryPacketCounts, CloseFileCounts DEF ThreadStep
<1> QED BY <1>1, AfterwardsCounts DEF Next, Finished

\* par2repairer.cpp:658-683 with 700-724.  Duplicates of recovery packets may move
\* from file to file while they are loaded, in any order and by any number of
\* threads: the block count of a file, by which the repair closes it, is never
\* below the number of recovery packets that may be read from it.
THEOREM BlockCountCoversHolds == Spec => []BlockCountCovers
  BY InitTypes, TypesStep, InitCount, CountStep, CountFollows, PTL DEF Spec

-----------------------------------------------------------------------------
(* Nothing lost where the files are loaded one after the other             *)

\* A packet that is in the tables, or another one in its place.
Has(p) ==
    CASE OfFile(p)              -> Known(p.id) /\ sourcefilemap[p.id][p.type] # None
      [] p.type = "recovery"    -> recoverypacketmap[p.exponent] # <<>>
      [] p.type = "main"        -> mainpacket # None
      [] OTHER                  -> creatorpacket # None

\* What file f offered before place n.
SeenTo(f, n) == \A i \in Met(f) : i < n /\ Interesting(disk[f][i]) => Has(disk[f][i])
SeenAll(f) == \A i \in Met(f) : Interesting(disk[f][i]) => Has(disk[f][i])

Loading == phase \in {"par", "others", "extra", "check"}

\* How far the one thread has come.  Until the set is decided nothing has been
\* passed by that could turn out to be of it; what was looked up stays so.
Passed(c) ==
    /\ c.pc \in AtPacket \cup {"scan"} => SeenTo(c.file, c.pos)
    /\ c.pc = "close" => SeenAll(c.file)
Undecided(c) ==
    /\ loaded = {}
    /\ c.pc \in {"idle", "scan", "claim", "claiming", "close"}
    /\ c.pc # "idle" => c.packets = 0
    /\ c.pc \in {"scan", "claim", "claiming"} => \A i \in Met(c.file) : c.pos <= i
    /\ c.pc = "close" => Met(c.file) = {}
LookedUp(c) ==
    LET p == disk[c.file][c.pos] IN
    /\ c.pc = "attach" => Known(p.id)
    /\ c.pc \in {"insert", "link"} => ~Known(p.id)
    /\ c.pc = "link" => c.seen = sourcefilemap
Serial ==
    /\ \A t \in Threads \ {Callers} : task[t] = Idle
    /\ firstpacket => Undecided(task[Callers])
    /\ ~firstpacket => task[Callers].pc \notin {"claim", "claiming"}
    /\ Passed(task[Callers]) /\ LookedUp(task[Callers])
    /\ \A f \in loaded : SeenAll(f)
SerialInv == ~concurrent /\ Loading => Serial

\* Only a piece that is whole can be met.
LEMMA MetIsPacket ==
    ASSUME Types, NEW f \in Directory, NEW i \in Met(f)
    PROVE  /\ disk[f][i] \in Packet /\ i \in 1 .. Len(disk[f]) /\ Len(disk[f]) \in Nat
           /\ \A j \in 1 .. i : disk[f][j].type # "unreadable"
<1>1. disk[f] \in Seq(Piece) /\ i \in DOMAIN disk[f] /\ Whole(disk[f][i])
  BY DEF Types, Met
<1>2. Len(disk[f]) \in Nat /\ i \in 1 .. Len(disk[f]) /\ disk[f][i] \in Piece
  BY <1>1
<1> QED BY <1>1, <1>2, WholePieceIsPacket DEF Met

LEMMA PacketIsThere == None \notin Packet
  BY DEF None, Packet

LEMMA SerialFollows == Types /\ SerialInv => SerialLosesNothing
<1> SUFFICES ASSUME Types, SerialInv, ~concurrent, phase = "check",
                    NEW p, p \in Packet, Offered(p), Interesting(p)
             PROVE  Has(p)
  BY DEF SerialLosesNothing, NothingLost, Has
<1>1. PICK f \in loaded : \E i \in Met(f) : disk[f][i] = p
  BY DEF Offered
<1>2. SeenAll(f)
  BY <1>1 DEF SerialInv, Loading, Serial
<1> QED BY <1>1, <1>2 DEF SeenAll

LEMMA InitSerial == Init => SerialInv
<1> SUFFICES ASSUME Init PROVE Serial
  BY DEF SerialInv
<1>1. \A t \in Threads : task[t] = Idle
  BY DEF Init
<1>2. Idle.pc = "idle"
  BY DEF Idle
<1> QED BY <1>1, <1>2, CallersIsThread DEF Init, Serial, Undecided, Passed, LookedUp, AtPacket

\* What is in the tables stays there while the files are loaded.
TablesGrow ==
    /\ \A id \in FileIds : Known(id) =>
          /\ Known(id)'
          /\ \A type \in {"description", "verification"} :
                sourcefilemap[id][type] # None => sourcefilemap'[id][type] # None
    /\ \A e \in Exponents : recoverypacketmap[e] # <<>> => recoverypacketmap'[e] # <<>>
    /\ mainpacket # None => mainpacket' # None
    /\ creatorpacket # None => creatorpacket' # None

LEMMA HasGrows == ASSUME TablesGrow, NEW p \in Packet, Has(p) PROVE Has(p)'
<1>1. CASE OfFile(p)
  <2>1. p.id \in FileIds /\ p.type \in {"description", "verification"}
    BY <1>1 DEF OfFile, Packet
  <2> QED BY <1>1, <2>1 DEF TablesGrow, Has
<1>2. CASE p.type = "recovery"
  <2>1. p.exponent \in Exponents /\ ~ OfFile(p)
    BY <1>2 DEF OfFile, Packet
  <2> QED BY <1>2, <2>1 DEF TablesGrow, Has
<1>3. CASE ~ OfFile(p) /\ p.type # "recovery"
  BY <1>3 DEF TablesGrow, Has
<1> QED BY <1>1, <1>2, <1>3

\* With the set decided, what was seen stays seen.
LEMMA SeenStays ==
    ASSUME Types, TablesGrow, UNCHANGED <<disk, setid>>, NEW f \in Directory
    PROVE  /\ Met(f)' = Met(f)
           /\ SeenAll(f) => SeenAll(f)'
           /\ \A n : SeenTo(f, n) => SeenTo(f, n)'
<1>1. Met(f)' = Met(f)
  BY DEF Met
<1>2. ASSUME NEW i \in Met(f), Has(disk[f][i]) PROVE Has(disk[f][i])'
  <2> DEFINE p == disk[f][i]
  <2>1. p \in Packet /\ p' = p
    BY MetIsPacket
  <2> HIDE DEF p
  <2>2. Has(p)'
    BY <1>2, <2>1, HasGrows DEF p
  <2> QED BY <2>1, <2>2 DEF p
<1>3. \A i \in Met(f) : Interesting(disk[f][i])' = Interesting(disk[f][i])
  BY DEF Interesting, SameSet, Loads, MainLoads, DescriptionLoads, VerificationLoads,
     RecoveryLoads, CreatorLoads
<1> QED BY <1>1, <1>2, <1>3 DEF SeenAll, SeenTo

\* Only the one thread is ever under way.
LEMMA BusyIsCallers ==
    ASSUME Serial, NEW t \in Threads, task[t].pc # "idle"
    PROVE  t = Callers
  BY DEF Serial, Idle

\* The thread has done with its packet.
LEMMA SerialGoesOn ==
    ASSUME Types, Serial, NEW t \in Threads, task[t].pc \in AtPacket,
           task[t].pc \in {"load", "attach", "insert", "link"},
           UNCHANGED <<disk, setid, firstpacket, loaded>>, TablesGrow,
           NEW p, p = Current(t), Interesting(p) => Has(p)',
           task'[t].pc = "scan", task'[t].file = task[t].file,
           task'[t].pos = task[t].pos + 1,
           \A u \in Threads \ {t} : task'[u] = task[u]
    PROVE  Serial'
<1>0. PICK f \in Directory, n \in Nat : task[t].file = f /\ task[t].pos = n
  BY DEF Types, TaskTypes, Placed, Task, AtPacket
<1>1. t = Callers /\ Current(t) = disk[f][n]
  BY <1>0, BusyIsCallers DEF AtPacket, Current
<1>2. ~firstpacket
  BY <1>1 DEF Serial, Undecided
<1>3. SeenTo(f, n)' /\ Met(f)' = Met(f)
  <2>1. SeenTo(f, n)
    BY <1>0, <1>1 DEF Serial, Passed
  <2> QED BY <2>1, SeenStays
<1>4. task'[t].file = f /\ task'[t].pos = n + 1
  BY <1>0
<1>5. SeenTo(f, n + 1)'
  <2> SUFFICES ASSUME NEW i \in Met(f), i < n + 1, Interesting(disk[f][i])'
               PROVE  Has(disk[f][i])'
    BY <1>3 DEF SeenTo
  <2>1. i \in Nat
    BY <1>1, MetIsPacket
  <2>2. CASE i < n
    BY <1>3, <2>2 DEF SeenTo
  <2>3. CASE i = n
    <3>1. Interesting(disk[f][i])' = Interesting(disk[f][i])
      BY DEF Interesting, SameSet, Loads, MainLoads, DescriptionLoads, VerificationLoads,
         RecoveryLoads, CreatorLoads
    <3>2. Interesting(disk[f][n]) => Has(disk[f][n])'
      BY <1>1 DEF Has
    <3> QED BY <2>3, <3>1, <3>2
  <2> QED BY <1>1, <2>1, <2>2, <2>3
<1>6. Passed(task[Callers])' /\ LookedUp(task[Callers])'
  BY <1>1, <1>4, <1>5 DEF Passed, LookedUp, AtPacket
<1>7. \A g \in loaded' : SeenAll(g)'
  BY SeenStays DEF Serial, Types
<1> QED BY <1>1, <1>2, <1>4, <1>6, <1>7 DEF Serial

\* The thread stays at its packet.
LEMMA SerialStays ==
    ASSUME Types, Serial, ~firstpacket, NEW t \in Threads,
           task[t].pc \in {"load", "attach", "insert", "link"},
           UNCHANGED <<disk, setid, firstpacket, loaded, tables, sourcefilemap>>,
           task'[t].pc \in {"load", "attach", "insert", "link"},
           task'[t].file = task[t].file, task'[t].pos = task[t].pos,
           \A u \in Threads \ {t} : task'[u] = task[u],
           LookedUp(task[t])'
    PROVE  Serial'
<1>1. t = Callers /\ task[t].file \in Directory
  BY BusyIsCallers DEF Types, TaskTypes, Placed
<1>2. TablesGrow
  BY DEF TablesGrow, tables, Known
<1>3. SeenTo(task[t].file, task[t].pos)'
  <2>1. SeenTo(task[t].file, task[t].pos)
    BY <1>1 DEF Serial, Passed, AtPacket
  <2> QED BY <1>1, <1>2, <2>1, SeenStays DEF SeenTo
<1>4. Passed(task[Callers])' /\ LookedUp(task[Callers])'
  BY <1>1, <1>3 DEF Passed, SeenTo
<1>5. \A g \in loaded' : SeenAll(g)'
  BY <1>2, SeenStays DEF Serial, Types
<1> QED BY <1>1, <1>4, <1>5 DEF Serial

LEMMA SerialTake ==
    ASSUME Types, ~concurrent, Serial, NEW t \in Threads, Take(t)
    PROVE  Serial'
<1>0. PICK f : f = Names[next]
  OBVIOUS
<1>1. t = Callers /\ \A u \in Threads : task[u] = Idle
  BY DEF Take, MayTake
<1>2. UNCHANGED <<disk, setid, firstpacket, loaded, tables, sourcefilemap>>
  BY DEF Take, idVars
<1>3. TablesGrow
  BY <1>2 DEF TablesGrow, tables, Known
<1>4. \A g \in loaded' : SeenAll(g)'
  BY <1>2, <1>3, SeenStays DEF Serial, Types
<1>5. CASE task' = task
  <2>1. task'[Callers].pc = "idle"
    BY <1>1, <1>5 DEF Idle
  <2> QED BY <1>1, <1>2, <1>4, <1>5, <2>1 DEF Serial, Passed, LookedUp, Undecided, AtPacket
<1>6. CASE f \in Directory /\ task' = [task EXCEPT ![t] = Started(f)]
  <2>1. task'[t] = Started(f) /\ \A u \in Threads \ {t} : task'[u] = task[u]
    BY <1>6 DEF Types, TaskTypes
  <2>2. /\ Started(f).pc = "scan" /\ Started(f).file = f /\ Started(f).pos = 1
        /\ Started(f).packets = 0
    BY DEF Started
  <2>3. \A i \in Met(f)' : i \in Nat /\ 1 <= i
    <3>1. Met(f)' = Met(f)
      BY <1>2 DEF Met
    <3>2. \A i \in Met(f) : i \in Nat /\ 1 <= i
      BY <1>6, MetIsPacket
    <3> QED BY <3>1, <3>2
  <2>4. SeenTo(f, 1)'
    BY <2>3 DEF SeenTo
  <2>5. Passed(task[Callers])' /\ LookedUp(task[Callers])'
    BY <1>1, <2>1, <2>2, <2>4 DEF Passed, LookedUp, AtPacket
  <2>6. firstpacket' => Undecided(task[Callers])'
    BY <1>1, <1>2, <2>1, <2>2, <2>3 DEF Serial, Undecided
  <2> QED BY <1>1, <1>4, <2>1, <2>2, <2>5, <2>6 DEF Serial
<1> QED BY <1>0, <1>5, <1>6 DEF Take

LEMMA SerialFindPacket ==
    ASSUME Types, Serial, NEW t \in Threads, FindPacket(t)
    PROVE  Serial'
<1> DEFINE c == task[t]
<1>0. PICK f, n, i, here :
        /\ f \in Directory /\ n \in Nat /\ c.file = f /\ c.pos = n /\ i = NextPacket(f, n)
        /\ here = IF i > Len(disk[f]) \/ ~Whole(disk[f][i]) THEN "close"
                  ELSE IF firstpacket THEN "claim" ELSE "load"
  BY DEF FindPacket, Scanning, Types, TaskTypes, Placed, Task
<1>1. t = Callers /\ c \in Task /\ c.pc = "scan" /\ n # 0
      /\ task \in [Threads -> Task]
  BY <1>0, BusyIsCallers DEF FindPacket, Scanning, Types, TaskTypes, Placed
<1>2. UNCHANGED <<disk, setid, firstpacket, loaded, tables, sourcefilemap>>
  BY DEF FindPacket, idVars
<1>3. TablesGrow
  BY <1>2 DEF TablesGrow, tables, Known
<1>4. \A g \in loaded' : SeenAll(g)'
  BY <1>2, <1>3, SeenStays DEF Serial, Types
<1>5. task' = [task EXCEPT ![t].pos = i, ![t].pc = here]
  BY <1>0 DEF FindPacket
<1>6. /\ i \in Nat /\ (i <= Len(disk[f]) => i \in n .. Len(disk[f]) /\ Stops(f, i))
      /\ \A j \in n .. Len(disk[f]) : Stops(f, j) => i <= j
  BY <1>0, NextPacketStops
<1>7. \A j \in Met(f) : j \in Nat /\ (j >= n => i <= j /\ i <= Len(disk[f]))
  <2> SUFFICES ASSUME NEW j \in Met(f) PROVE j \in Nat /\ (j >= n => i <= j /\ i <= Len(disk[f]))
    OBVIOUS
  <2>1. j \in 1 .. Len(disk[f]) /\ Len(disk[f]) \in Nat /\ Stops(f, j)
    BY <1>0, <1>1, MetIsPacket DEF Met, Stops
  <2> QED BY <1>0, <1>1, <1>6, <2>1
<1>8. SeenTo(f, n) /\ (firstpacket => \A j \in Met(f) : n <= j)
  BY <1>0, <1>1 DEF Serial, Passed, Undecided
<1>9. here = "close" => \A j \in Met(f) : j < n
  <2> SUFFICES ASSUME here = "close", NEW j \in Met(f), j >= n PROVE FALSE
    BY <1>0, <1>1, <1>7
  <2>1. i <= j /\ i <= Len(disk[f]) /\ i \in n .. Len(disk[f])
    BY <1>6, <1>7
  <2>2. Len(disk[f]) \in Nat
    BY <1>0, <1>1, MetIsPacket
  <2>3. ~(i > Len(disk[f]))
    BY <2>1, <2>2, <1>6
  <2>4. disk[f][i].type = "unreadable"
    BY <1>0, <1>6, <2>1, <2>3 DEF Stops
  <2>5. i # 0
    BY <1>0, <1>1, <2>1
  <2>6. i \in 1 .. j
    BY <1>6, <1>7, <2>1, <2>5
  <2> QED BY <1>0, <1>1, <2>4, <2>6, MetIsPacket
<1>10. SeenTo(f, i)
  <2> SUFFICES ASSUME NEW j \in Met(f), j < i PROVE j < n
    BY <1>8 DEF SeenTo
  <2> QED BY <1>0, <1>1, <1>6, <1>7
<1>11. here = "close" => SeenAll(f)
  BY <1>8, <1>9 DEF SeenTo, SeenAll
<1>12. here \in {"close", "claim", "load"} /\ (here = "claim" => firstpacket)
       /\ (here = "load" => ~firstpacket)
  BY <1>0
<1>13. /\ task'[t].pc = here /\ task'[t].pos = i /\ task'[t].file = f
       /\ task'[t].packets = c.packets /\ \A u \in Threads \ {t} : task'[u] = task[u]
  BY <1>0, <1>1, <1>5 DEF Task
<1>14. SeenTo(f, i)' /\ (here = "close" => SeenAll(f)') /\ Met(f)' = Met(f)
  <2>1. /\ Met(f)' = Met(f) /\ (SeenAll(f) => SeenAll(f)')
        /\ \A k : SeenTo(f, k) => SeenTo(f, k)'
    BY <1>0, <1>2, <1>3, SeenStays
  <2> QED BY <1>10, <1>11, <2>1
<1>15. Passed(task[Callers])' /\ LookedUp(task[Callers])'
  BY <1>0, <1>1, <1>12, <1>13, <1>14 DEF Passed, LookedUp, AtPacket, SeenTo, SeenAll
<1>16. firstpacket' => Undecided(task[Callers])'
  <2> SUFFICES ASSUME firstpacket PROVE Undecided(task[Callers])'
    BY <1>2
  <2>1. loaded = {} /\ c.packets = 0
    BY <1>1 DEF Serial, Undecided
  <2>2. \A j \in Met(f) : i <= j
    BY <1>7, <1>8
  <2>3. here = "close" => Met(f) = {}
    BY <1>0, <1>1, <1>7, <1>8, <1>9
  <2> QED BY <1>0, <1>1, <1>2, <1>12, <1>13, <1>14, <2>1, <2>2, <2>3 DEF Undecided
<1> QED BY <1>0, <1>1, <1>2, <1>4, <1>12, <1>13, <1>15, <1>16 DEF Serial

\* Once the set is decided, it is not decided again.
LEMMA DecidedAtPacket ==
    ASSUME Serial, NEW t \in Threads, task[t].pc \in {"load", "attach", "insert", "link"}
    PROVE  ~firstpacket
<1>1. t = Callers
  BY BusyIsCallers
<1> QED BY <1>1 DEF Serial, Undecided

LEMMA SerialSkipPacket ==
    ASSUME Types, Serial, NEW t \in Threads, SkipPacket(t)
    PROVE  Serial'
<1>1. TablesGrow
  BY DEF SkipPacket, TablesGrow, tables, Known
<1>2. task[t].pc = "load" /\ UNCHANGED <<disk, setid, firstpacket, loaded>> /\ Onwards(t, FALSE)
  BY DEF SkipPacket, Scanning, idVars
<1>3. PICK p : p = Current(t)
  OBVIOUS
<1>4. Interesting(p) => Has(p)'
  BY <1>3 DEF SkipPacket
<1> QED BY <1>1, <1>2, <1>3, <1>4, OnwardsGoes, SerialGoesOn DEF AtPacket

LEMMA SerialLoadMainOrCreator ==
    ASSUME Types, Serial, NEW t \in Threads, LoadMainPacket(t) \/ LoadCreatorPacket(t)
    PROVE  Serial'
<1>1. PICK p : p = Current(t)
  OBVIOUS
<1>2. p \in Packet /\ task[t].pc = "load"
  BY <1>1 DEF LoadMainPacket, LoadCreatorPacket, Scanning, Types, TaskTypes, Placed, AtPacket
<1>3. TablesGrow
  BY <1>1, <1>2, PacketIsThere DEF LoadMainPacket, LoadCreatorPacket, TablesGrow, Known
<1>4. Has(p)'
  BY <1>1, <1>2, PacketIsThere DEF LoadMainPacket, LoadCreatorPacket, Has, OfFile
<1>5. UNCHANGED <<disk, setid, firstpacket, loaded>> /\ \E used \in BOOLEAN : Onwards(t, used)
  BY DEF LoadMainPacket, LoadCreatorPacket, idVars
<1> QED BY <1>1, <1>2, <1>3, <1>4, <1>5, OnwardsGoes, SerialGoesOn DEF AtPacket

LEMMA SerialLoadRecoveryPacket ==
    ASSUME Types, Serial, NEW t \in Threads, LoadRecoveryPacket(t)
    PROVE  Serial'
<1>1. PICK p : p = Current(t)
  OBVIOUS
<1>2. p \in Packet /\ p.type = "recovery" /\ task[t].pc = "load" /\ task[t] \in Task
      /\ p.exponent \in Exponents /\ task \in [Threads -> Task]
  BY <1>1 DEF LoadRecoveryPacket, Scanning, Types, TaskTypes, Placed, AtPacket, Packet
<1>3. /\ recoverypacketmap \in [Exponents -> {<<>>} \cup (Directory \X Nat)]
      /\ recoverypacketmap' = [recoverypacketmap EXCEPT
                                 ![p.exponent] = <<task[t].file, task[t].pos>>]
  BY <1>1 DEF LoadRecoveryPacket, Types, TableTypes
<1>4. <<task[t].file, task[t].pos>> # <<>>
  OBVIOUS
<1>5. TablesGrow
  <2>1. UNCHANGED <<mainpacket, creatorpacket, sourcefilemap>>
    BY DEF LoadRecoveryPacket
  <2>2. \A e \in Exponents : recoverypacketmap[e] # <<>> => recoverypacketmap'[e] # <<>>
    BY <1>2, <1>3, <1>4
  <2> QED BY <2>1, <2>2 DEF TablesGrow, Known
<1>6. Has(p)'
  BY <1>2, <1>3, <1>4 DEF Has, OfFile
<1>7. UNCHANGED <<disk, setid, firstpacket, loaded>>
  BY DEF LoadRecoveryPacket, idVars
<1>8. /\ task'[t].pc = "scan" /\ task'[t].file = task[t].file
      /\ task'[t].pos = task[t].pos + 1
      /\ \A u \in Threads \ {t} : task'[u] = task[u]
  BY <1>2 DEF LoadRecoveryPacket, Task
<1> QED BY <1>1, <1>2, <1>5, <1>6, <1>7, <1>8, SerialGoesOn DEF AtPacket

LEMMA SerialLookUpFile ==
    ASSUME Types, Serial, NEW t \in Threads, LookUpFile(t)
    PROVE  Serial'
<1>1. PICK p, f, n : p = Current(t) /\ f = task[t].file /\ n = task[t].pos
  OBVIOUS
<1>2. p \in Packet /\ OfFile(p) /\ task[t].pc = "load" /\ p = disk[f][n] /\ ~firstpacket
  BY <1>1, DecidedAtPacket
     DEF LookUpFile, Scanning, Types, TaskTypes, Placed, AtPacket, Current
<1>3. UNCHANGED <<disk, setid, firstpacket, loaded, tables, sourcefilemap>>
  BY DEF LookUpFile, idVars
<1>4. CASE Known(p.id) /\ HasPacket(sourcefilemap[p.id], p.type)
  <2>1. Onwards(t, FALSE)
    BY <1>1, <1>4 DEF LookUpFile
  <2>2. TablesGrow
    BY <1>3 DEF TablesGrow, tables, Known
  <2>3. Has(p)'
    BY <1>2, <1>3, <1>4 DEF Has, HasPacket, Known, OfFile
  <2> QED BY <1>1, <1>2, <1>3, <2>1, <2>2, <2>3, OnwardsGoes, SerialGoesOn DEF AtPacket
<1>5. CASE ~(Known(p.id) /\ HasPacket(sourcefilemap[p.id], p.type))
  <2>1. PICK here : /\ here = IF Known(p.id) THEN "attach" ELSE "insert"
                    /\ task' = [task EXCEPT ![t].pc = here]
    BY <1>1, <1>5 DEF LookUpFile
  <2>2. /\ task'[t].pc = here /\ task'[t].file = task[t].file /\ task'[t].pos = task[t].pos
        /\ \A u \in Threads \ {t} : task'[u] = task[u]
    <3>1. task \in [Threads -> Task] /\ task[t] \in Task
      BY DEF Types, TaskTypes
    <3> QED BY <2>1, <3>1 DEF Task
  <2>3. LookedUp(task[t])'
    <3>1. disk'[task'[t].file][task'[t].pos] = p /\ sourcefilemap' = sourcefilemap
      BY <1>1, <1>2, <1>3, <2>2
    <3>2. here = (IF sourcefilemap[p.id] # None THEN "attach" ELSE "insert") /\ task'[t].pc = here
      BY <2>1, <2>2 DEF Known
    <3>3. CASE sourcefilemap[p.id] # None
      BY <3>1, <3>2, <3>3 DEF LookedUp, Known
    <3>4. CASE sourcefilemap[p.id] = None
      BY <3>1, <3>2, <3>4 DEF LookedUp, Known
    <3> QED BY <3>3, <3>4
  <2> QED BY <1>2, <1>3, <2>1, <2>2, <2>3, SerialStays
<1> QED BY <1>4, <1>5

LEMMA SerialBeginInsert ==
    ASSUME Types, Serial, NEW t \in Threads, BeginInsert(t)
    PROVE  Serial'
<1>1. PICK f, n, m : f = task[t].file /\ n = task[t].pos /\ m = sourcefilemap
  OBVIOUS
<1>2. task[t].pc = "insert" /\ t = Callers /\ ~firstpacket /\ Current(t) = disk[f][n]
  BY <1>1, BusyIsCallers, DecidedAtPacket DEF BeginInsert, Scanning, Current
<1>3. ~Known(disk[f][n].id)
  BY <1>1, <1>2 DEF Serial, LookedUp
<1>4. UNCHANGED <<disk, setid, firstpacket, loaded, tables, sourcefilemap>>
  BY DEF BeginInsert, idVars
<1>5. task' = [task EXCEPT ![t].pc = "link", ![t].seen = m]
  BY <1>1, <1>2, <1>3 DEF BeginInsert
<1>6. /\ task'[t].pc = "link" /\ task'[t].file = f /\ task'[t].pos = n /\ task'[t].seen = m
      /\ \A u \in Threads \ {t} : task'[u] = task[u]
  <2>1. task \in [Threads -> Task] /\ task[t] \in Task
    BY DEF Types, TaskTypes
  <2> DEFINE new == [task[t] EXCEPT !.pc = "link", !.seen = m]
  <2>2. task'[t] = new /\ \A u \in Threads \ {t} : task'[u] = task[u]
    BY <1>5, <2>1
  <2>3. new.pc = "link" /\ new.file = f /\ new.pos = n /\ new.seen = m
    BY <1>1, <2>1 DEF Task
  <2> HIDE DEF new
  <2> QED BY <2>2, <2>3
<1>7. LookedUp(task[t])'
  BY <1>1, <1>3, <1>4, <1>6 DEF LookedUp, Known
<1> QED BY <1>1, <1>2, <1>4, <1>6, <1>7, SerialStays

\* A packet put into the map is found there, and takes no other's place.
LEMMA SerialAttachPacket ==
    ASSUME Types, Serial, NEW t \in Threads, AttachPacket(t)
    PROVE  Serial'
<1>1. PICK p : p = Current(t)
  OBVIOUS
<1>2. /\ p \in Packet /\ OfFile(p) /\ task[t].pc = "attach" /\ t = Callers
      /\ p = disk[task[t].file][task[t].pos] /\ p.id \in FileIds
  BY <1>1, BusyIsCallers
     DEF AttachPacket, Scanning, Types, TaskTypes, Placed, AtPacket, Current, OfFile, Packet
<1>3. Known(p.id)
  BY <1>2 DEF Serial, LookedUp
<1>4. UNCHANGED <<disk, setid, firstpacket, loaded, tables>> /\ Onwards(t, TRUE)
  BY DEF AttachPacket, idVars
<1>5. /\ sourcefilemap \in [FileIds -> Entries]
      /\ sourcefilemap[p.id] \in Entry
      /\ sourcefilemap' = [sourcefilemap EXCEPT ![p.id] = [sourcefilemap[p.id] EXCEPT ![p.type] = p]]
  BY <1>1, <1>2, <1>3 DEF AttachPacket, Known, Types, TableTypes, Entries
<1> DEFINE new == [sourcefilemap[p.id] EXCEPT ![p.type] = p]
<1>6. /\ new[p.type] = p /\ new # None
      /\ \A type \in {"description", "verification"} :
            sourcefilemap[p.id][type] # None => new[type] # None
  <2>1. p.type \in {"description", "verification"} /\ p # None
    BY <1>2, PacketIsThere DEF OfFile
  <2>2. DOMAIN sourcefilemap[p.id] = {"description", "verification"}
    BY <1>5 DEF Entry
  <2>3. new[p.type] = p /\ DOMAIN new = {"description", "verification"}
    BY <2>1, <2>2
  <2>4. DOMAIN None = {"type"}
    BY DEF None
  <2>5. new # None
    BY <2>3, <2>4
  <2>6. \A type \in {"description", "verification"} :
            sourcefilemap[p.id][type] # None => new[type] # None
    BY <2>1, <2>2
  <2> QED BY <2>3, <2>5, <2>6
<1>7. sourcefilemap'[p.id] = new /\ \A id \in FileIds \ {p.id} : sourcefilemap'[id] = sourcefilemap[id]
  BY <1>2, <1>5
<1> HIDE DEF new
<1>8. TablesGrow
  <2>1. \A id \in FileIds : Known(id) =>
          /\ Known(id)'
          /\ \A type \in {"description", "verification"} :
                sourcefilemap[id][type] # None => sourcefilemap'[id][type] # None
    BY <1>6, <1>7 DEF Known
  <2> QED BY <1>4, <2>1 DEF TablesGrow, tables
<1>9. Has(p)'
  BY <1>2, <1>6, <1>7, PacketIsThere DEF Has, Known, OfFile
<1> QED BY <1>1, <1>2, <1>4, <1>8, <1>9, OnwardsGoes, SerialGoesOn DEF AtPacket

LEMMA SerialLinkEntry ==
    ASSUME Types, Serial, NEW t \in Threads, LinkEntry(t)
    PROVE  Serial'
<1>1. PICK p : p = Current(t)
  OBVIOUS
<1>2. /\ p \in Packet /\ OfFile(p) /\ task[t].pc = "link" /\ t = Callers
      /\ p = disk[task[t].file][task[t].pos] /\ p.id \in FileIds
  BY <1>1, BusyIsCallers
     DEF LinkEntry, Scanning, Types, TaskTypes, Placed, AtPacket, Current, OfFile, Packet
<1>3. ~Known(p.id) /\ task[t].seen = sourcefilemap
  BY <1>2 DEF Serial, LookedUp
<1>4. UNCHANGED <<disk, setid, firstpacket, loaded, tables>> /\ Onwards(t, TRUE)
  BY DEF LinkEntry, idVars
<1>5. sourcefilemap \in [FileIds -> Entries]
  BY DEF Types, TableTypes
<1>6. sourcefilemap' = [sourcefilemap EXCEPT ![p.id] = NewEntry(p)]
  <2>1. [id \in FileIds |-> IF task[t].seen[id] = None THEN None ELSE sourcefilemap[id]]
          = sourcefilemap
    BY <1>3, <1>5
  <2> QED BY <1>1, <2>1 DEF LinkEntry
<1>7. NewEntry(p)[p.type] = p /\ NewEntry(p) # None
  <2>1. p.type \in {"description", "verification"}
    BY <1>2 DEF OfFile
  <2>2. NewEntry(p)[p.type] = p /\ DOMAIN NewEntry(p) = {"description", "verification"}
    BY <2>1 DEF NewEntry
  <2>3. DOMAIN None = {"type"}
    BY DEF None
  <2> QED BY <2>2, <2>3
<1>8. /\ sourcefilemap'[p.id] = NewEntry(p)
      /\ \A id \in FileIds \ {p.id} : sourcefilemap'[id] = sourcefilemap[id]
  BY <1>2, <1>5, <1>6
<1>9. TablesGrow
  <2>1. \A id \in FileIds : Known(id) => id # p.id /\ sourcefilemap'[id] = sourcefilemap[id]
    BY <1>3, <1>8
  <2> QED BY <1>4, <2>1 DEF TablesGrow, tables, Known
<1>10. Has(p)'
  BY <1>2, <1>7, <1>8, PacketIsThere, ZenonT(60) DEF Has, Known, OfFile
<1> QED BY <1>1, <1>2, <1>4, <1>9, <1>10, OnwardsGoes, SerialGoesOn DEF AtPacket

LEMMA SerialClaims ==
    ASSUME Types, Serial, NEW t \in Threads, ClaimSet(t) \/ SetClaimed(t)
    PROVE  Serial'
<1>1. PICK f, n, here : /\ f = task[t].file /\ n = task[t].pos
                        /\ here = IF task[t].pc = "claim" THEN "claiming" ELSE "load"
  OBVIOUS
<1>2. /\ task[t].pc \in {"claim", "claiming"} /\ t = Callers
      /\ UNCHANGED <<disk, loaded, tables, sourcefilemap>>
      /\ task' = [task EXCEPT ![t].pc = here]
      /\ firstpacket' = IF task[t].pc = "claim" THEN firstpacket ELSE FALSE
  BY <1>1, BusyIsCallers DEF ClaimSet, SetClaimed, Scanning
<1>3. /\ firstpacket /\ loaded = {} /\ task[t].packets = 0
      /\ \A i \in Met(f) : n <= i
  BY <1>1, <1>2 DEF Serial, Undecided
<1>4. /\ task'[t].pc = here /\ task'[t].file = f /\ task'[t].pos = n
      /\ task'[t].packets = task[t].packets
      /\ \A u \in Threads \ {t} : task'[u] = task[u]
  <2>1. task \in [Threads -> Task] /\ task[t] \in Task
    BY DEF Types, TaskTypes
  <2> QED BY <1>1, <1>2, <2>1 DEF Task
<1>5. Met(f)' = Met(f)
  BY <1>2 DEF Met
<1>6. SeenTo(f, n)'
  <2>1. f \in Directory /\ n \in Nat
    BY <1>1, <1>2 DEF Types, TaskTypes, Placed, Task
  <2>2. \A i \in Met(f) : i \in Nat
    BY <2>1, MetIsPacket
  <2> QED BY <1>3, <1>5, <2>1, <2>2 DEF SeenTo
<1>7. Passed(task[Callers])' /\ LookedUp(task[Callers])'
  BY <1>1, <1>2, <1>4, <1>6 DEF Passed, LookedUp, SeenTo
<1>8. firstpacket' => Undecided(task[Callers])'
  BY <1>1, <1>2, <1>3, <1>4, <1>5 DEF Undecided
<1> QED BY <1>1, <1>2, <1>3, <1>4, <1>7, <1>8 DEF Serial

LEMMA SerialCloseFile ==
    ASSUME Types, Serial, NEW t \in Threads, CloseFile(t)
    PROVE  Serial'
<1>1. PICK f : f = task[t].file
  OBVIOUS
<1>2. /\ task[t].pc = "close" /\ t = Callers /\ f \in Directory
      /\ UNCHANGED <<disk, setid, firstpacket, tables, sourcefilemap>>
      /\ loaded' \in {loaded, loaded \cup {f}}
      /\ task[t].packets = 0 => loaded' = loaded
      /\ task'[t] = Idle /\ \A u \in Threads \ {t} : task'[u] = task[u]
  BY <1>1, BusyIsCallers DEF CloseFile, Scanning, Types, TaskTypes, Placed, idVars
<1>3. TablesGrow
  BY <1>2 DEF TablesGrow, tables, Known
<1>4. SeenAll(f) /\ \A g \in loaded : SeenAll(g)
  BY <1>1, <1>2 DEF Serial, Passed
<1>5. \A g \in loaded' : SeenAll(g)'
  <2>1. \A g \in loaded' : g \in Directory /\ SeenAll(g)
    BY <1>2, <1>4 DEF Types
  <2> QED BY <1>2, <1>3, <2>1, SeenStays
<1>6. firstpacket' => Undecided(task[Callers])'
  BY <1>2 DEF Serial, Undecided, Idle
<1> QED BY <1>2, <1>5, <1>6 DEF Serial, Passed, LookedUp, AtPacket, Idle

LEMMA SerialStep == Types /\ SerialInv /\ [Next]_vars => SerialInv'
<1> SUFFICES ASSUME Types, SerialInv, [Next]_vars, ~concurrent', Loading' PROVE Serial'
  BY DEF SerialInv
<1>1. ~concurrent
  BY DEF Next, ThreadStep, Take, FindPacket, ClaimSet, SetClaimed, SkipPacket, LoadRecoveryPacket,
     LoadMainPacket, LoadCreatorPacket, LookUpFile, AttachPacket, BeginInsert, LinkEntry,
     CloseFile, NextList, CheckPacketConsistency, CreateSourceFileList, AllocateSourceBlocks,
     PrepareVerificationHashTable, CheckDetails, Finished, vars
<1>2. ASSUME NEW t \in Threads, ThreadStep(t) PROVE Serial'
  <2>1. phase' = phase
    BY <1>2 DEF ThreadStep, Take, FindPacket, ClaimSet, SetClaimed, SkipPacket,
       LoadRecoveryPacket, LoadMainPacket, LoadCreatorPacket, LookUpFile, AttachPacket,
       BeginInsert, LinkEntry, CloseFile
  <2>2. Serial
    BY <1>1, <2>1 DEF SerialInv, Loading
  <2> QED
    BY <1>1, <1>2, <2>2, SerialTake, SerialFindPacket, SerialClaims, SerialSkipPacket,
       SerialLoadMainOrCreator, SerialLoadRecoveryPacket, SerialLookUpFile, SerialAttachPacket,
       SerialBeginInsert, SerialLinkEntry, SerialCloseFile DEF ThreadStep
<1>3. CASE NextList \/ UNCHANGED vars
  <2>1. /\ Loading
        /\ UNCHANGED <<disk, task, setid, firstpacket, loaded, tables, sourcefilemap>>
    BY <1>3 DEF NextList, AfterLoading, Loading, vars, idVars
  <2>2. Serial
    BY <1>1, <2>1 DEF SerialInv
  <2>3. TablesGrow
    BY <2>1 DEF TablesGrow, tables, Known
  <2>4. \A g \in loaded' : SeenAll(g)'
    BY <2>1, <2>2, <2>3, SeenStays DEF Serial, Types
  <2>5. Passed(task[Callers])' /\ LookedUp(task[Callers])' /\ (firstpacket => Undecided(task[Callers])')
    <3>1. PICK c : c = task[Callers]
      OBVIOUS
    <3>2. c' = c /\ task[Callers]' = c
      BY <2>1, <3>1
    <3>3. c.pc # "idle" => c.file \in Directory
      BY <3>1, CallersIsThread DEF Types, TaskTypes, Placed
    <3>4. Passed(c)'
      BY <2>1, <2>2, <2>3, <3>1, <3>3, SeenStays DEF Serial, Passed, AtPacket
    <3>5. LookedUp(c)' /\ (firstpacket => Undecided(c)')
      BY <2>1, <2>2, <3>1 DEF Serial, LookedUp, Known, Undecided, Met
    <3> QED BY <2>1, <3>1, <3>4, <3>5
  <2> QED BY <2>1, <2>2, <2>4, <2>5 DEF Serial
<1>4. CASE CheckPacketConsistency \/ CreateSourceFileList \/ AllocateSourceBlocks
             \/ PrepareVerificationHashTable \/ CheckDetails
  BY <1>4 DEF CheckPacketConsistency, CreateSourceFileList, AllocateSourceBlocks,
     PrepareVerificationHashTable, CheckDetails, Loading
<1> QED BY <1>2, <1>3, <1>4 DEF Next, Finished

\* README_FIRST.txt:496-502.  Loaded one file after the other, the packets of the set
\* lose nothing: whatever is damaged, missing or of another set, every whole packet of
\* the set that a file offered, or one of the same kind and key, is in the tables.
THEOREM SerialLosesNothingHolds == Spec => []SerialLosesNothing
  BY InitTypes, TypesStep, InitSerial, SerialStep, SerialFollows, PTL DEF Spec

-----------------------------------------------------------------------------
(* What verification starts from                                           *)

\* Induction over a set of natural numbers.
LEMMA Induct ==
    ASSUME NEW T, 0 \in T, \A n \in Nat : n \in T => n + 1 \in T
    PROVE  Nat \subseteq T
<1> SUFFICES ASSUME Nat \ T # {} PROVE FALSE
  OBVIOUS
<1>1. Nat \ T \in SUBSET Nat
  OBVIOUS
<1>2. PICK m \in Nat \ T : \A n \in Nat \ T : m <= n
  BY <1>1, Least
<1>3. m \in Nat /\ m # 0 /\ m - 1 \in Nat
  BY <1>2
<1>4. m - 1 \in T
  BY <1>2, <1>3
<1>5. (m - 1) + 1 \in T
  BY <1>3, <1>4
<1> QED BY <1>2, <1>3, <1>5

\* The sums of the first terms of d, as far as k.
SumsTo(f, d, k) == f = [i \in 0 .. k |-> IF i <= 1 THEN 0 ELSE f[i - 1] + d[i - 1]]

LEMMA SumsExist == ASSUME NEW d, NEW k \in Nat PROVE \E f : SumsTo(f, d, k)
<1> DEFINE T == {n \in Nat : \E f : SumsTo(f, d, n)}
<1>1. 0 \in T
  <2> DEFINE f == [i \in 0 .. 0 |-> 0]
  <2>1. \A i \in 0 .. 0 : i <= 1
    OBVIOUS
  <2>2. SumsTo(f, d, 0)
    BY <2>1 DEF SumsTo
  <2> QED BY <2>2
<1>2. ASSUME NEW n \in Nat, n \in T PROVE n + 1 \in T
  <2>1. PICK f : SumsTo(f, d, n)
    BY <1>2
  <2> DEFINE g == [i \in 0 .. n + 1 |-> IF i <= 1 THEN 0 ELSE f[i - 1] + d[i - 1]]
  <2>2. ASSUME NEW i \in 0 .. n PROVE g[i] = f[i]
    <3>1. i \in 0 .. n + 1
      OBVIOUS
    <3>2. g[i] = IF i <= 1 THEN 0 ELSE f[i - 1] + d[i - 1]
      BY <3>1
    <3>3. f[i] = IF i <= 1 THEN 0 ELSE f[i - 1] + d[i - 1]
      BY <2>1 DEF SumsTo
    <3> QED BY <3>2, <3>3
  <2>3. \A i \in 0 .. n + 1 : i > 1 => g[i - 1] = f[i - 1]
    <3> HIDE DEF g
    <3> QED BY <2>2
  <2>4. g = [i \in 0 .. n + 1 |-> IF i <= 1 THEN 0 ELSE g[i - 1] + d[i - 1]]
    <3>1. \A i \in 0 .. n + 1 : (IF i <= 1 THEN 0 ELSE f[i - 1] + d[i - 1])
                                   = (IF i <= 1 THEN 0 ELSE g[i - 1] + d[i - 1])
      <4> HIDE DEF g
      <4> QED BY <2>3
    <3>2. [i \in 0 .. n + 1 |-> IF i <= 1 THEN 0 ELSE f[i - 1] + d[i - 1]]
            = [i \in 0 .. n + 1 |-> IF i <= 1 THEN 0 ELSE g[i - 1] + d[i - 1]]
      <4> HIDE DEF g
      <4> QED BY <3>1
    <3> QED BY <3>2
  <2> HIDE DEF g
  <2> QED BY <2>4 DEF SumsTo
<1> HIDE DEF T
<1>3. k \in T
  BY <1>1, <1>2, Induct
<1> QED BY <1>3 DEF T

LEMMA SumsAgree ==
    ASSUME NEW d, NEW k \in Nat, NEW m \in Nat, NEW f, NEW g, SumsTo(f, d, k), SumsTo(g, d, m)
    PROVE  \A i \in Nat : i <= k /\ i <= m => f[i] = g[i]
<1> DEFINE T == {i \in Nat : i <= k /\ i <= m => f[i] = g[i]}
<1>0. \A i \in 0 .. k : f[i] = IF i <= 1 THEN 0 ELSE f[i - 1] + d[i - 1]
  BY DEF SumsTo
<1>00. \A i \in 0 .. m : g[i] = IF i <= 1 THEN 0 ELSE g[i - 1] + d[i - 1]
  BY DEF SumsTo
<1>1. 0 \in T
  BY <1>0, <1>00
<1>2. ASSUME NEW n \in Nat, n \in T PROVE n + 1 \in T
  <2> SUFFICES ASSUME n + 1 <= k, n + 1 <= m PROVE f[n + 1] = g[n + 1]
    OBVIOUS
  <2>1. n + 1 \in 0 .. k /\ n + 1 \in 0 .. m /\ n <= k /\ n <= m /\ (n + 1) - 1 = n
    OBVIOUS
  <2>2. f[n] = g[n]
    BY <1>2, <2>1
  <2>3. f[n + 1] = IF n + 1 <= 1 THEN 0 ELSE f[n] + d[n]
    BY <1>0, <2>1
  <2>4. g[n + 1] = IF n + 1 <= 1 THEN 0 ELSE g[n] + d[n]
    BY <1>00, <2>1
  <2> QED BY <2>2, <2>3, <2>4
<1> HIDE DEF T
<1>3. Nat \subseteq T
  BY <1>1, <1>2, Induct
<1> QED BY <1>3 DEF T

\* FirstBlock is the function that its recursive definition describes.
LEMMA FirstBlockIs ==
    \A i \in Nat : FirstBlock[i] = IF i <= 1 THEN 0
                                   ELSE FirstBlock[i - 1] + BlockCount(sourcefiles[i - 1])
<1> DEFINE d == [i \in Nat |-> BlockCount(sourcefiles[i])]
           F(k) == CHOOSE f : SumsTo(f, d, k)
           g == [i \in Nat |-> F(i)[i]]
<1>1. \A i \in Nat : i > 1 => d[i - 1] = BlockCount(sourcefiles[i - 1])
  OBVIOUS
<1> HIDE DEF d
<1>2. \A k \in Nat : SumsTo(F(k), d, k)
  BY SumsExist
<1>3. ASSUME NEW i \in Nat PROVE g[i] = IF i <= 1 THEN 0 ELSE g[i - 1] + d[i - 1]
  <2>1. F(i)[i] = IF i <= 1 THEN 0 ELSE F(i)[i - 1] + d[i - 1]
    <3>1. SumsTo(F(i), d, i) /\ i \in 0 .. i
      BY <1>2
    <3> HIDE DEF F
    <3> QED BY <3>1 DEF SumsTo
  <2>2. CASE i <= 1
    BY <2>1, <2>2
  <2>3. CASE ~(i <= 1)
    <3>1. i - 1 \in Nat /\ i - 1 <= i
      BY <2>3
    <3>2. SumsTo(F(i), d, i) /\ SumsTo(F(i - 1), d, i - 1)
      BY <1>2, <3>1
    <3>3. F(i)[i - 1] = F(i - 1)[i - 1]
      <4> HIDE DEF F
      <4> QED BY <3>1, <3>2, SumsAgree
    <3>4. g[i] = F(i)[i] /\ g[i - 1] = F(i - 1)[i - 1]
      BY <3>1
    <3> HIDE DEF F, g
    <3> QED BY <2>1, <2>3, <3>3, <3>4
  <2> QED BY <2>2, <2>3
<1>4. g = [i \in Nat |-> IF i <= 1 THEN 0 ELSE g[i - 1] + BlockCount(sourcefiles[i - 1])]
  <2>1. g = [i \in Nat |-> g[i]]
    OBVIOUS
  <2> HIDE DEF g
  <2>2. \A i \in Nat : g[i] = IF i <= 1 THEN 0 ELSE g[i - 1] + BlockCount(sourcefiles[i - 1])
    BY <1>1, <1>3
  <2> QED BY <2>1, <2>2
<1> HIDE DEF g
<1>5. FirstBlock = [i \in Nat |-> IF i <= 1 THEN 0
                                  ELSE FirstBlock[i - 1] + BlockCount(sourcefiles[i - 1])]
  BY <1>4 DEF FirstBlock
<1> QED BY <1>5

Reading == phase \in {"par", "others", "extra"}
Checked == phase \in {"arrange", "allocate", "prepare", "details", "refused", "ready"}
Listed == phase \in {"allocate", "prepare", "details", "refused", "ready"}
Allocated == phase \in {"prepare", "details", "refused", "ready"}
Prepared == phase \in {"details", "refused", "ready"}

\* What each step has made of the tables stays: no file is read any more.
NobodyReads == ~Reading => \A t \in Threads : task[t] = Idle
MainIsMain == mainpacket # None => mainpacket.type = "main"
TablesFit ==
    Checked =>
        /\ mainpacket # None
        /\ \A e \in Exponents : recoverypacketmap[e] # <<>> => RightSize(recoverypacketmap[e])
        /\ \A id \in FileIds : sourcefilemap[id] # None => Consistent(sourcefilemap[id])
FilesListed ==
    Listed => sourcefiles = [i \in DOMAIN mainpacket.ids |-> sourcefilemap[mainpacket.ids[i]]]
BlocksAllocated ==
    Allocated => sourceblocks = [i \in 1 .. mainpacket.recoverable |->
                                   [first |-> FirstBlock[i], count |-> BlockCount(sourcefiles[i])]]
VerifiableFound ==
    Prepared => verifiable = {i \in DOMAIN sourcefiles :
                                sourcefiles[i] # None /\ sourcefiles[i].verification # None}
FilesKnown ==
    phase = "ready" => \A i \in DOMAIN sourcefiles : sourcefiles[i] = None => ~Recoverable(i)
DetailInv ==
    NobodyReads /\ MainIsMain /\ TablesFit /\ FilesListed /\ BlocksAllocated
      /\ VerifiableFound /\ FilesKnown

LEMMA InitDetails == Init => DetailInv
  BY DEF Init, DetailInv, NobodyReads, Reading, MainIsMain, TablesFit, Checked, FilesListed, Listed,
     BlocksAllocated, Allocated, VerifiableFound, Prepared, FilesKnown

\* What holds while the files are read.
LEMMA EarlyDetails ==
    ASSUME NobodyReads, MainIsMain, ~Checked
    PROVE  DetailInv
  BY DEF DetailInv, TablesFit, Checked, FilesListed, Listed, BlocksAllocated, Allocated,
     VerifiableFound, Prepared, FilesKnown

LEMMA DetailsReading ==
    ASSUME Types, DetailInv, (\E t \in Threads : ThreadStep(t)) \/ NextList
    PROVE  DetailInv'
<1>1. CASE NextList
  <2>1. Reading /\ ~Checked' /\ task' = task /\ mainpacket' = mainpacket
        /\ \A t \in Threads : task[t] = Idle
    BY <1>1 DEF NextList, AfterLoading, Reading, Checked, tables
  <2>2. NobodyReads' /\ MainIsMain'
    BY <2>1 DEF DetailInv, NobodyReads, MainIsMain
  <2> QED BY <2>1, <2>2, EarlyDetails, PTL
<1>2. ASSUME NEW t \in Threads, ThreadStep(t) PROVE DetailInv'
  <2>1. phase' = phase
    BY <1>2 DEF ThreadStep, Take, FindPacket, ClaimSet, SetClaimed, SkipPacket,
       LoadRecoveryPacket, LoadMainPacket, LoadCreatorPacket, LookUpFile, AttachPacket,
       BeginInsert, LinkEntry, CloseFile
  <2>2. Reading
    <3>1. CASE Take(t)
      <4>1. next <= Len(Names) /\ next \in Nat \ {0}
        BY <3>1 DEF Take, Types
      <4>2. ~Reading => Names = <<>>
        BY DEF Reading, Names
      <4> QED BY <4>1, <4>2
    <3>2. CASE ~Take(t)
      <4>1. task[t].pc # "idle"
        BY <1>2, <3>2 DEF ThreadStep, FindPacket, ClaimSet, SetClaimed, SkipPacket,
           LoadRecoveryPacket, LoadMainPacket, LoadCreatorPacket, LookUpFile, AttachPacket,
           BeginInsert, LinkEntry, CloseFile, Scanning
      <4> QED BY <4>1 DEF DetailInv, NobodyReads, Idle
    <3> QED BY <3>1, <3>2
  <2>3. NobodyReads' /\ ~Checked'
    BY <2>1, <2>2 DEF NobodyReads, Reading, Checked
  <2>4. mainpacket' \in {mainpacket, Current(t)} /\ (mainpacket' # mainpacket => Current(t).type = "main")
    BY <1>2 DEF ThreadStep, Take, FindPacket, ClaimSet, SetClaimed, SkipPacket,
       LoadRecoveryPacket, LoadMainPacket, LoadCreatorPacket, LookUpFile, AttachPacket,
       BeginInsert, LinkEntry, CloseFile, tables
  <2>5. MainIsMain'
    BY <2>4 DEF DetailInv, MainIsMain
  <2> QED BY <2>3, <2>5, EarlyDetails, PTL
<1> QED BY <1>1, <1>2

\* The steps from the tables to the source files.
LEMMA DetailsArranging ==
    ASSUME Types, DetailInv,
           CheckPacketConsistency \/ CreateSourceFileList \/ AllocateSourceBlocks
             \/ PrepareVerificationHashTable \/ CheckDetails
    PROVE  DetailInv'
<1>1. /\ UNCHANGED <<disk, task, mainpacket>> /\ ~Reading /\ ~Reading'
  BY DEF CheckPacketConsistency, CreateSourceFileList, AllocateSourceBlocks,
     PrepareVerificationHashTable, CheckDetails, tables, Reading
<1>2. NobodyReads' /\ MainIsMain'
  BY <1>1 DEF DetailInv, NobodyReads, MainIsMain
<1>3. TablesFit'
  <2>1. CASE CheckPacketConsistency
    <3> SUFFICES ASSUME Checked' PROVE TablesFit'
      BY DEF TablesFit
    <3>1. /\ mainpacket # None
          /\ recoverypacketmap' = [e \in Exponents |->
                IF RightSize(recoverypacketmap[e]) THEN recoverypacketmap[e] ELSE <<>>]
          /\ sourcefilemap' = [id \in FileIds |->
                IF Consistent(sourcefilemap[id]) THEN sourcefilemap[id] ELSE None]
      BY <2>1 DEF CheckPacketConsistency, Checked
    <3>2. ASSUME NEW e \in Exponents, recoverypacketmap'[e] # <<>>
          PROVE  RightSize(recoverypacketmap[e])'
      BY <1>1, <3>1, <3>2 DEF RightSize, At
    <3>3. ASSUME NEW id \in FileIds, sourcefilemap'[id] # None
          PROVE  Consistent(sourcefilemap[id])'
      BY <1>1, <3>1, <3>3 DEF Consistent, Blocks
    <3> QED BY <1>1, <3>1, <3>2, <3>3 DEF TablesFit
  <2>2. CASE ~CheckPacketConsistency
    <3>1. UNCHANGED <<recoverypacketmap, sourcefilemap>> /\ Checked
      BY <2>2 DEF CreateSourceFileList, AllocateSourceBlocks,
         PrepareVerificationHashTable, CheckDetails, tables, Checked
    <3> QED BY <1>1, <3>1 DEF DetailInv, TablesFit, RightSize, At, Consistent, Blocks
  <2> QED BY <2>1, <2>2
<1>4. FilesListed'
  <2>1. CASE CheckPacketConsistency
    BY <2>1 DEF CheckPacketConsistency, FilesListed, Listed
  <2>2. CASE CreateSourceFileList
    BY <2>2 DEF CreateSourceFileList, FilesListed, tables
  <2>3. CASE AllocateSourceBlocks \/ PrepareVerificationHashTable \/ CheckDetails
    BY <1>1, <2>3 DEF AllocateSourceBlocks, PrepareVerificationHashTable, CheckDetails,
       DetailInv, FilesListed, Listed, results
  <2> QED BY <2>1, <2>2, <2>3
<1>5. BlocksAllocated'
  <2>1. CASE CheckPacketConsistency \/ CreateSourceFileList
    BY <2>1 DEF CheckPacketConsistency, CreateSourceFileList, BlocksAllocated, Allocated
  <2>2. CASE AllocateSourceBlocks \/ PrepareVerificationHashTable \/ CheckDetails
    <3>1. UNCHANGED <<mainpacket, sourcefiles>>
      BY <1>1, <2>2 DEF AllocateSourceBlocks, PrepareVerificationHashTable, CheckDetails, results
    <3>2. FirstBlock' = FirstBlock
      BY <3>1 DEF FirstBlock, BlockCount, Blocks
    <3>3. \A i : BlockCount(sourcefiles[i])' = BlockCount(sourcefiles[i])
      BY <3>1 DEF BlockCount, Blocks
    <3>4. [i \in 1 .. mainpacket.recoverable |->
             [first |-> FirstBlock[i], count |-> BlockCount(sourcefiles[i])]]'
          = [i \in 1 .. mainpacket.recoverable |->
               [first |-> FirstBlock[i], count |-> BlockCount(sourcefiles[i])]]
      BY <3>1, <3>2, <3>3
    <3>5. CASE AllocateSourceBlocks
      BY <3>4, <3>5 DEF AllocateSourceBlocks, BlocksAllocated
    <3>6. CASE PrepareVerificationHashTable \/ CheckDetails
      BY <3>4, <3>6 DEF PrepareVerificationHashTable, CheckDetails, DetailInv, BlocksAllocated,
         Allocated, results
    <3> QED BY <2>2, <3>5, <3>6
  <2> QED BY <2>1, <2>2
<1>6. VerifiableFound'
  <2>1. CASE CheckPacketConsistency \/ CreateSourceFileList \/ AllocateSourceBlocks
    BY <2>1 DEF CheckPacketConsistency, CreateSourceFileList, AllocateSourceBlocks,
       VerifiableFound, Prepared
  <2>2. CASE PrepareVerificationHashTable
    BY <2>2 DEF PrepareVerificationHashTable, VerifiableFound
  <2>3. CASE CheckDetails
    BY <2>3 DEF CheckDetails, DetailInv, VerifiableFound, Prepared, results
  <2> QED BY <2>1, <2>2, <2>3
<1>7. FilesKnown'
  <2>1. CASE CheckDetails
    BY <1>1, <2>1 DEF CheckDetails, FilesKnown, Recoverable, results
  <2>2. CASE ~CheckDetails
    BY <2>2 DEF CheckPacketConsistency, CreateSourceFileList, AllocateSourceBlocks,
       PrepareVerificationHashTable, FilesKnown
  <2> QED BY <2>1, <2>2
<1> QED BY <1>2, <1>3, <1>4, <1>5, <1>6, <1>7 DEF DetailInv

LEMMA DetailsStep == Types /\ DetailInv /\ [Next]_vars => DetailInv'
<1> SUFFICES ASSUME Types, DetailInv, [Next]_vars PROVE DetailInv'
  OBVIOUS
<1>1. CASE UNCHANGED vars
  <2>1. /\ UNCHANGED <<disk, phase, task, mainpacket, recoverypacketmap, sourcefilemap,
                       sourcefiles, sourceblocks, verifiable>>
    BY <1>1 DEF vars, tables, results
  <2>2. FirstBlock' = FirstBlock
    BY <2>1 DEF FirstBlock, BlockCount, Blocks
  <2>3. NobodyReads' /\ MainIsMain' /\ FilesListed' /\ VerifiableFound' /\ FilesKnown'
    BY <2>1 DEF DetailInv, NobodyReads, Reading, MainIsMain, FilesListed, Listed,
       VerifiableFound, Prepared, FilesKnown, Recoverable
  <2>4. TablesFit'
    BY <2>1 DEF DetailInv, TablesFit, Checked, RightSize, At, Consistent, Blocks
  <2>5. BlocksAllocated'
    BY <2>1, <2>2 DEF DetailInv, BlocksAllocated, Allocated, BlockCount, Blocks
  <2> QED BY <2>3, <2>4, <2>5 DEF DetailInv
<1> QED BY <1>1, DetailsReading, DetailsArranging DEF Next, Finished

LEMMA DetailsFollow == Types /\ DetailInv => DetailsFit
<1> SUFFICES ASSUME Types, DetailInv, phase = "ready" PROVE DetailsFit
  BY DEF DetailsFit
<1>1. mainpacket \in Packet /\ mainpacket.type = "main"
  BY DEF Types, TableTypes, DetailInv, TablesFit, Checked, MainIsMain
<1>2. mainpacket.ids \in Seq(FileIds) /\ mainpacket.recoverable \in Nat
  BY <1>1 DEF Packet
<1>3. ASSUME NEW i \in DOMAIN sourcefiles, sourcefiles[i] # None
      PROVE  Consistent(sourcefiles[i])
  <2>1. sourcefiles[i] = sourcefilemap[mainpacket.ids[i]] /\ mainpacket.ids[i] \in FileIds
    BY <1>2 DEF DetailInv, FilesListed, Listed
  <2> QED BY <1>3, <2>1 DEF DetailInv, TablesFit, Checked
<1>4. \A i \in DOMAIN sourcefiles :
         mainpacket.recoverable > 0 => /\ sourcefiles[i] # None
                                       /\ sourcefiles[i].description # None
  BY <1>3 DEF DetailInv, FilesKnown, Recoverable, Consistent
<1>5. \A i \in verifiable :
         sourcefiles[i].verification.blocks = Blocks(sourcefiles[i].description.size)
  BY <1>3 DEF DetailInv, VerifiableFound, Prepared, Consistent
<1>6. ASSUME NEW i \in DOMAIN sourceblocks
      PROVE  sourceblocks[i].first = IF i = 1 THEN 0
                                     ELSE sourceblocks[i - 1].first + sourceblocks[i - 1].count
  <2>1. sourceblocks = [j \in 1 .. mainpacket.recoverable |->
                          [first |-> FirstBlock[j], count |-> BlockCount(sourcefiles[j])]]
    BY DEF DetailInv, BlocksAllocated, Allocated
  <2>2. i \in 1 .. mainpacket.recoverable
    BY <2>1
  <2>3. sourceblocks[i].first = FirstBlock[i]
    BY <2>1, <2>2
  <2>4. CASE i = 1
    BY <2>3, <2>4, FirstBlockIs
  <2>5. CASE i # 1
    <3>1. i - 1 \in 1 .. mainpacket.recoverable /\ i \in Nat /\ ~(i <= 1)
      BY <1>2, <2>2, <2>5
    <3>2. /\ sourceblocks[i - 1].first = FirstBlock[i - 1]
          /\ sourceblocks[i - 1].count = BlockCount(sourcefiles[i - 1])
      BY <2>1, <3>1
    <3>3. FirstBlock[i] = FirstBlock[i - 1] + BlockCount(sourcefiles[i - 1])
      BY <3>1, FirstBlockIs
    <3> QED BY <2>3, <2>5, <3>2, <3>3
  <2> QED BY <2>4, <2>5
<1>7. \A e \in Exponents : recoverypacketmap[e] # <<>> =>
         At(recoverypacketmap[e]).size = mainpacket.blocksize
  BY DEF DetailInv, TablesFit, Checked, RightSize
<1> QED BY <1>4, <1>5, <1>6, <1>7 DEF DetailsFit

\* par2repairer.cpp:1106-1352, 1543-1577.  Whatever the packets were and however their
\* threads fell over each other, what verification starts from is consistent: files,
\* verification entries, blocks and recovery packets fit each other.
THEOREM DetailsFitHolds == Spec => []DetailsFit
  BY InitTypes, TypesStep, InitDetails, DetailsStep, DetailsFollow, PTL DEF Spec

=============================================================================
