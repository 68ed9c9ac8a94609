----------------------------- MODULE Par2CmdLine -----------------------------
(***************************************************************************)
(* The program par2, run several times in one folder: main reads the       *)
(* command line and has it carried out by Par2Creator, Par2Repairer or     *)
(* Par1Repairer.  Between the runs something happens to the files.         *)
(***************************************************************************)
EXTENDS Par1Repair

CONSTANTS
    Scenarios,   \* what is in the folder, the command lines that follow each other, how often
                 \* something happens to a file in between, and how many calls may fail
    Spots,       \* where a file may be damaged, or cut off
    MoveNames    \* what else a file may be called

ASSUME MainAssumption ==
    /\ Spots \subseteq Nat
    /\ \A s \in Scenarios : /\ DOMAIN s = {"disk", "set", "lines", "damages", "faults"}
                            /\ s.lines # <<>> /\ s.damages \in Nat /\ s.faults \in Nat
                            /\ IsFiniteSet(DOMAIN s.disk) /\ s.lines \in Seq(ToSet(s.lines))
                            /\ \A name \in DOMAIN s.disk : s.disk[name] \in Seq(Int)
                            /\ s.set.blocksize \in Nat /\ s.set.files \in Seq(ToSet(s.set.files))
                            /\ \A file \in ToSet(s.set.files) : file.name # NoName /\ file.content \in Seq(Int)
                            /\ \A line \in ToSet(s.lines) :
                                 /\ line.args \in Seq(ToSet(line.args))
                                 /\ \A a \in ToSet(line.args) :
                                      /\ a.num \in Int /\ a.names \in Seq(ToSet(a.names))
                                      /\ line.operation = "create" => ToSet(a.names) \subseteq DOMAIN FileId

VARIABLES
    lines,    \* the command lines to come
    damages,  \* how many there may still be
    allowed,  \* how many calls may fail in all the runs
    before    \* the files there were when the repair began

vars == <<disk, faults, args, commandline, at, result, creator, set, repairer, lines, damages,
          allowed, before>>

\* Main sets the result to what it is if the command line is wrong.
Begin(line) ==
    /\ args' = line.args /\ commandline' = Settings0(line.operation)
    /\ at' = "parse" /\ result' = "InvalidCommandLineArguments"

Init ==
    /\ \E s \in Scenarios :
         /\ disk = s.disk /\ set = s.set /\ lines = Tail(s.lines) /\ damages = s.damages
         /\ faults = s.faults /\ allowed = s.faults
         /\ args = Head(s.lines).args /\ commandline = Settings0(Head(s.lines).operation)
    /\ at = "parse" /\ result = "InvalidCommandLineArguments"
    /\ creator = Nobody /\ repairer = Nothing /\ before = disk

ParseArgument ==
    at = "parse" /\ Parse
      /\ UNCHANGED <<at, result, creator, set, repairer, lines, damages, allowed, before>>

\* The command line has been read: one of the three classes takes over.
Dispatch ==
    LET c == IF commandline.ok THEN Defaults(commandline) ELSE commandline IN
    /\ at = "parse" /\ ~Parsing
    /\ commandline' = c
    /\ IF ~c.ok THEN End("InvalidCommandLineArguments") /\ UNCHANGED <<creator, repairer>>
       ELSE IF Creating(c) THEN Goto("sizes") /\ creator' = NewCreator(c) /\ UNCHANGED repairer
       ELSE Goto("load") /\ repairer' = NewRepairer(c) /\ UNCHANGED creator
    /\ before' = disk
    /\ UNCHANGED <<disk, faults, args, set, lines, damages, allowed>>

Run ==
    \/ CreateStep /\ UNCHANGED <<args, commandline, repairer, lines, damages, allowed, before>>
    \/ RepairStep /\ UNCHANGED <<args, commandline, lines, damages, allowed, before>>
    \/ Par1Step /\ UNCHANGED <<args, commandline, lines, damages, allowed, before>>

Ended == at \in {"end", "damaged"}

\* The world: a file is lost, cut off, overwritten somewhere, or renamed.
Damage ==
    /\ Ended /\ lines # <<>> /\ damages > 0
    /\ \E name \in DOMAIN disk :
         \/ disk' = Delete(disk, name)
         \/ \E k \in Spots : /\ k < Len(disk[name])
                             /\ disk' = Put(disk, name, SubSeq(disk[name], 1, k))
         \/ \E k \in Spots : /\ k \in DOMAIN disk[name]
                             /\ disk' = Put(disk, name, [disk[name] EXCEPT ![k] = Garbage])
         \/ \E other \in MoveNames : /\ ~FileExists(disk, other) /\ name[2] = ""
                                     /\ disk' = Rename(disk, name, other)
    /\ damages' = damages - 1 /\ at' = "damaged"
    /\ UNCHANGED <<faults, args, commandline, result, creator, set, repairer, lines, allowed, before>>

NextRun ==
    /\ Ended /\ lines # <<>>
    /\ Begin(Head(lines)) /\ lines' = Tail(lines)
    /\ repairer' = Nothing
    /\ UNCHANGED <<disk, faults, creator, set, damages, allowed, before>>

\* No more to be done, or the loop that has no end.
Finished == (at = "hung" \/ (at = "end" /\ lines = <<>>)) /\ UNCHANGED vars

Next == ParseArgument \/ Dispatch \/ Run \/ Damage \/ NextRun \/ Finished

Spec == Init /\ [][Next]_vars

-----------------------------------------------------------------------------
(* Properties *)

Places == {"parse", "end", "damaged", "hung", "sizes", "redundancy", "chunks", "files", "open", "main",
           "blocks", "layout", "outputs", "process", "recover", "headers", "criticals", "close", "load",
           "verify", "extras", "rename", "targets", "buffers", "reverify", "delete"}
Results == {"Success", "RepairPossible", "RepairNotPossible", "InvalidCommandLineArguments",
            "InsufficientCriticalData", "RepairFailed", "FileIOError"}
Creators == creator # Nobody /\ Creating(commandline)
Repairing == ~Creating(commandline) /\ repairer.files # <<>>

TypeOK ==
    /\ at \in Places /\ result \in Results
    /\ faults \in 0 .. allowed /\ damages \in Nat
    /\ \A name \in DOMAIN disk : \A k \in DOMAIN disk[name] : disk[name][k] \in Int
    /\ \A i \in DOMAIN repairer.files :
         LET file == repairer.files[i] IN
         ~Ended => /\ file.target \in DOMAIN disk \cup {NoName}
                   /\ \A k \in DOMAIN file.blocks : file.blocks[k].file \in DOMAIN disk \cup {NoName}
    /\ repairer.blockoffset \in 0 .. repairer.blocksize
    /\ repairer.completefilecount \in 0 .. Len(repairer.files)

\* What the repair relies on and does not check: the files of the set have names,
\* all of them different, and none is called what a damaged file is renamed to.
Ordinary(files) ==
    /\ \A i, j \in DOMAIN files : files[i].name = files[j].name => i = j
    /\ \A i \in DOMAIN files : files[i].name # NoName /\ files[i].name[5] = <<>>
\* A file that could not be opened for the moment is taken for missing: another
\* is renamed to its name, or it is created anew.
Regular(r) == Ordinary(r.files) /\ r.unopened = {}

\* par2cmdline.h:394-421.  If the program says of a set that it knows that all
\* is well, each of its files is on disk as it was when the set was made.
SuccessMeansRestored ==
    at = "end" /\ Repairing /\ result = "Success" /\ Regular(repairer) =>
      \A i \in Files : /\ FileExists(disk, repairer.files[i].name)
                       /\ disk[repairer.files[i].name] = repairer.files[i].content

\* par2repairer.cpp:2378-2525, 3191-3221.  A repair, whether it succeeds, fails or
\* is still going on, never destroys what there was: the contents of every file
\* that was on disk when it began are there under some name.  (Run
\* repair_rename_collision: sets in which one file is named f and another f.1.)
NothingDestroyed ==
    ~Creating(commandline) /\ at \notin {"parse", "damaged"} /\ Regular(repairer) =>
      \A name \in DOMAIN before : \E now \in DOMAIN disk : disk[now] = before[name]

\* README:218-222.  If repair was said to be possible and no call of the system
\* failed, it succeeds.  There are three exceptions: a matrix that cannot be solved;
\* the end of a short block that is copied in several passes (RepairPipeline); and a
\* set none of whose files has a verification packet, since the hash that its files
\* are compared by is then never set: the one that is computed belongs to another
\* variable of the same name (par2repairer.cpp:1716, 1818).
Unsolved == repairer.outputblocks # <<>> /\ repairer.matrix = NoMatrix
ShortCopy == \E i \in Files : \E k \in DOMAIN repairer.files[i].targets :
                /\ repairer.chunksize < repairer.blocksize
                /\ IsSet(repairer.files[i].targets[k])
                /\ repairer.files[i].targets[k].length < repairer.blocksize
AnyVerifiable == \E i \in Files : repairer.files[i].verifiable
PossibleMeansRepaired ==
    at = "end" /\ Repairing /\ repairer.possible /\ repairer.dorepair /\ faults = allowed
      /\ ~Unsolved /\ ~ShortCopy /\ AnyVerifiable
      => result = "Success"

\* par2creator.cpp:997-1247, 1681-1697.  After a creation that succeeded every
\* recovery block is in one file, once, with the exponent and the data that are
\* due; every file holds every critical packet that was recorded, and these are all
\* there are unless threads recorded them, which may lose one (AtOnce); and no file
\* has a gap.  Excepted are sets with file names or contents that a creation relies
\* on not to meet (Separate).
RecoveryIn(name) == {k \in DOMAIN disk[name] : IsRecovery(disk[name][k])}
Gapless(name) ==
    \A k \in DOMAIN disk[name] :
      disk[name][k] \in Values =>
        \E h \in RecoveryIn(name) : k \in h + 1 .. h + creator.blocksize
Due(exponent) ==
    LET n == Len(creator.blocks)
        factor(i) == Power(Bases16(n)[i], exponent)
        padded(i) == ReadData(before, creator.blocks[i], 0, creator.blocksize)
        sum(p) ==
          LET terms == [i \in 1 .. n |-> Times(factor(i), padded(i)[p])]
              upto[i \in 0 .. n] == IF i = 0 THEN 0 ELSE Plus(upto[i - 1], terms[i])
          IN  upto[n]
    IN  [p \in 1 .. creator.blocksize |-> sum(p)]
FilesMade == {creator.allocations[a].file : a \in DOMAIN creator.allocations}
\* What a creation relies on and does not check: no source file is called what a file
\* that is made is called, and would be lost, nor holds packets itself.
Separate ==
    \A name \in ToSet(creator.sources) :
      name \notin FilesMade /\ \A k \in DOMAIN before[name] : before[name][k] \in Values
CreatedWhole ==
    at = "end" /\ Creators /\ result = "Success" /\ ~creator.dummy /\ Separate =>
      LET made == FilesMade
          all == UNION {{<<name, k>> : k \in RecoveryIn(name)} : name \in made}
          packet(p) == disk[p[1]][p[2]]
      IN  /\ Cardinality(all) = creator.recoveryblockcount
          /\ {packet(p) : p \in all} =
               {RecoveryHeader(creator.firstblock + e) : e \in 0 .. creator.recoveryblockcount - 1}
          /\ \A p \in all : SubSeq(disk[p[1]], p[2] + 1, p[2] + creator.blocksize)
                              = Due(packet(p) - RecoveryHeader(0))
          /\ \A name \in made : Gapless(name) /\ ToSet(creator.criticals) \subseteq ToSet(disk[name])
          /\ ~creator.concurrent =>
               ToSet(creator.criticals) =
                 {MainPacket} \cup UNION {ToSet(PacketsOf(n)) : n \in ToSet(creator.sources)}

\* par2creator.cpp:454-613, 961-980.  The number of blocks that is computed before
\* the files are opened is the number of blocks the files then get, and the
\* exponents of the recovery blocks fit the field.
SizesAgree ==
    Creators /\ creator.blocks # <<>> =>
      /\ Len(creator.blocks) = creator.sourceblockcount /\ creator.sourceblockcount <= Half
      /\ creator.redundancy > 0 => creator.firstblock + creator.recoveryblockcount < Count
=============================================================================
