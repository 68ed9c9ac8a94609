----------------------------- MODULE CommandLine -----------------------------
(***************************************************************************)
(* CommandLine::Parse: one argument after the other changes the settings   *)
(* or refuses the command line, then the defaults are filled in.  An       *)
(* argument is an option with the number or the text after it, or a file   *)
(* name, which may stand for several files (a wildcard, a folder).  The    *)
(* number is what its digits come to in the type they are read into, which *)
(* only the two whose digits are not limited (-n and -m) may overflow;     *)
(* that is not modelled.                                                   *)
(***************************************************************************)
EXTENDS DiskFiles, Galois

CONSTANTS
    DefaultBlocks,  \* 2000
    Megabyte        \* 1048576, in cells

\* 32768: what most options are limited to, and how many blocks there may be.
Half == Count \div 2

VARIABLES args, commandline

Settings0(operation) ==
    [ok |-> TRUE, options |-> TRUE, operation |-> operation, version |-> "unknown",
     blockcount |-> 0, blocksize |-> 0, firstblock |-> 0, scheme |-> "unknown", filecount |-> 0,
     recoveryblockcount |-> 0, recoveryblockcountset |-> FALSE,
     redundancy |-> 0, redundancyset |-> FALSE, memorylimit |-> 0, noise |-> "unknown",
     level |-> "+", threads |-> 0, base |-> "", dummy |-> FALSE,
     parfile |-> NoName, extrafiles |-> <<>>]

Refused(c) == [c EXCEPT !.ok = FALSE]
Provided(condition, c) == IF condition THEN c ELSE Refused(c)

\* The number has no other characters after it.
Limited(a, low, high) == ~a.junk /\ a.num \in low .. high
Creating(c) == c.operation = "create"

BlockCountOption(c, a) ==
    Provided(/\ Creating(c) /\ c.blockcount = 0 /\ c.blocksize = 0
             /\ Limited(a, 1, Half), [c EXCEPT !.blockcount = a.num])
BlockSizeOption(c, a) ==
    Provided(/\ Creating(c) /\ c.blockcount = 0 /\ c.blocksize = 0
             /\ ~a.junk /\ a.num > 0 /\ a.num % 4 = 0, [c EXCEPT !.blocksize = a.num])
RedundancyOption(c, a) ==
    Provided(/\ Creating(c) /\ ~c.redundancyset /\ ~c.recoveryblockcountset
             /\ ~a.junk /\ a.num <= 100 /\ (a.num = 0 => c.filecount = 0),
             [c EXCEPT !.redundancy = a.num, !.redundancyset = TRUE])
RecoveryBlockCountOption(c, a) ==
    Provided(/\ Creating(c) /\ ~c.redundancyset /\ ~c.recoveryblockcountset
             /\ Limited(a, 0, Half) /\ (a.num = 0 => c.filecount = 0),
             [c EXCEPT !.recoveryblockcount = a.num, !.recoveryblockcountset = TRUE])
\* -f0 may be followed by another -f.
FirstBlockOption(c, a) ==
    Provided(Creating(c) /\ c.firstblock = 0 /\ Limited(a, 0, Half),
             [c EXCEPT !.firstblock = a.num])
UniformOption(c, a) ==
    Provided(Creating(c) /\ ~a.junk /\ c.scheme = "unknown", [c EXCEPT !.scheme = "uniform"])
LimitOption(c, a) ==
    Provided(Creating(c) /\ ~a.junk /\ c.scheme = "unknown" /\ c.filecount = 0,
             [c EXCEPT !.scheme = "limited"])
FileCountOption(c, a) ==
    Provided(/\ Creating(c) /\ c.filecount = 0 /\ c.scheme # "limited"
             /\ ~(c.redundancyset /\ c.redundancy = 0)
             /\ ~(c.recoveryblockcountset /\ c.recoveryblockcount = 0)
             /\ ~a.junk /\ a.num > 0, [c EXCEPT !.filecount = a.num])
MemoryOption(c, a) ==
    Provided(c.memorylimit = 0 /\ ~a.junk /\ a.num > 0, [c EXCEPT !.memorylimit = a.num])
\* -v or -vv, and -q or -qq; a second one adds to the first.
NoiseOption(c, a, once, twice) ==
    Provided(c.noise \in {"unknown", once, twice},
             [c EXCEPT !.noise = IF c.noise = "unknown" /\ a.text = "" THEN once ELSE twice])
LevelOption(c, a) == Provided(a.text \in {"+", "0", "-"}, [c EXCEPT !.level = a.text])
\* The digits of a second -p follow those of the first.
Digits(n) == CHOOSE d \in 1 .. 10 : 10 ^ (d - 1) <= n /\ n < 10 ^ d
ThreadsOption(c, a) ==
    LET n == IF a.num = 0 THEN 10 * c.threads ELSE c.threads * 10 ^ Digits(a.num) + a.num
    IN  Provided(~a.junk /\ n <= Half, [c EXCEPT !.threads = n])
\* text is where the folder is: with the files, elsewhere, or not there.
BaseDirectoryOption(c, a) ==
    Provided(a.text # "" /\ (Creating(c) => a.text # "missing"), [c EXCEPT !.base = a.text])

Option(c, a) ==
    CASE a.opt = "b" -> BlockCountOption(c, a)
      [] a.opt = "s" -> BlockSizeOption(c, a)
      [] a.opt = "r" -> RedundancyOption(c, a)
      [] a.opt = "c" -> RecoveryBlockCountOption(c, a)
      [] a.opt = "f" -> FirstBlockOption(c, a)
      [] a.opt = "u" -> UniformOption(c, a)
      [] a.opt = "l" -> LimitOption(c, a)
      [] a.opt = "n" -> FileCountOption(c, a)
      [] a.opt = "m" -> MemoryOption(c, a)
      [] a.opt = "v" -> NoiseOption(c, a, "noisy", "debug")
      [] a.opt = "q" -> NoiseOption(c, a, "quiet", "silent")
      [] a.opt = "t" -> LevelOption(c, a)
      [] a.opt = "p" -> ThreadsOption(c, a)
      [] a.opt = "d" -> BaseDirectoryOption(c, a)
      [] a.opt = "0" -> [c EXCEPT !.dummy = TRUE]
      [] a.opt = "-" -> [c EXCEPT !.options = FALSE]
      [] OTHER       -> Refused(c)

\* The first name is the recovery file's; a source file's name will do if a
\* recovery file is there that is named after it.
RecoveryFile(c, name) ==
    LET found(version, file) == [c EXCEPT !.version = version, !.parfile = file]
        plain == name[2] = "" /\ name[5] = <<>>
    IN  IF Creating(c) THEN found("par2", name)
        ELSE IF IsPar2(name) THEN Provided(FileExists(disk, name), found("par2", name))
        ELSE IF IsPar1(name) THEN Provided(FileExists(disk, name), found("par1", name))
        ELSE IF plain /\ FileExists(disk, WithPar2(name)) THEN found("par2", WithPar2(name))
        ELSE IF plain /\ FileExists(disk, WithPar(name)) THEN found("par1", WithPar(name))
        ELSE Refused(c)

\* Files that are missing, empty or named before are skipped.
ExtraFile(name) == [name |-> name, size |-> GetFileSize(disk, name)]
FileName(c, name) ==
    IF ~c.ok THEN c
    ELSE IF c.parfile = NoName THEN RecoveryFile(c, name)
    ELSE IF GetFileSize(disk, name) = 0 \/ Contains(c.extrafiles, ExtraFile(name)) THEN c
    ELSE [c EXCEPT !.extrafiles = Append(@, ExtraFile(name))]

\* After the first file name every argument is one (a.names: none for an option).
Argument(c, a) ==
    LET after[k \in 0 .. Len(a.names)] ==
          IF k = 0 THEN [c EXCEPT !.options = FALSE] ELSE FileName(after[k - 1], a.names[k])
    IN  IF c.options /\ a.opt # "file" THEN Option(c, a) ELSE after[Len(a.names)]

\* A sole source file may stand for the recovery file's name.
SourcesGiven(c) ==
    IF c.extrafiles # <<>> THEN c
    ELSE Provided(~IsPar2(c.parfile) /\ GetFileSize(disk, c.parfile) > 0,
                  [c EXCEPT !.extrafiles = <<ExtraFile(c.parfile)>>])

CreateDefaults(c) ==
    [SourcesGiven(c) EXCEPT
       !.scheme = IF @ = "unknown" THEN "variable" ELSE @,
       !.blockcount = IF @ = 0 /\ c.blocksize = 0 THEN DefaultBlocks ELSE @,
       !.parfile = IF IsPar2(@) THEN Name(Base(@), "", 0, 0) ELSE @,
       !.redundancy = IF c.redundancyset \/ c.recoveryblockcountset THEN @ ELSE 5]

Defaults(c) ==
    IF c.parfile = NoName THEN Refused(c)
    ELSE [(IF Creating(c) THEN CreateDefaults(c) ELSE c) EXCEPT
            !.noise = IF @ = "unknown" THEN "normal" ELSE @,
            !.memorylimit = Megabyte * (IF @ = 0 THEN 64 ELSE @)]

LargestSourceSize(c) == Max({c.extrafiles[i].size : i \in DOMAIN c.extrafiles})

-----------------------------------------------------------------------------

\* Main begins with the operation, which the program's name or the first
\* argument gives.
Parsing == commandline.ok /\ args # <<>>

Parse ==
    /\ Parsing
    /\ commandline' = Argument(commandline, Head(args))
    /\ args' = Tail(args)
    /\ UNCHANGED <<disk, faults>>
=============================================================================
