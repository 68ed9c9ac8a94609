------------------------- MODULE Par2CmdLine_proof -------------------------
(***************************************************************************)
(* What holds of the program for any files, set, command lines, damages    *)
(* and failing calls: a repair that reports success has restored every     *)
(* file, and no repair destroys what it found; and the number of blocks    *)
(* that a creation computes from the sizes of the files before they are    *)
(* opened is the number of blocks they are cut into, whichever way the     *)
(* block size was chosen.                                                  *)
(*                                                                         *)
(* RepairInv says for each stage of a repair what its files, the disk and  *)
(* the lists of what is to be done have to do with each other.  An         *)
(* operation's effect on the Par2Repairer is stated first (Kin, Outcome),  *)
(* then what it leaves of the invariant, for any repairer and disk.        *)
(*                                                                         *)
(* The second half is about creations.  Solid (whatever is on disk is a    *)
(* list of cells) is needed of the repairs too, as a creation may follow   *)
(* one.  PlanInv says for each stage of a creation what has been decided   *)
(* of it.                                                                  *)
(***************************************************************************)
EXTENDS Par2CmdLine, CreateProcess_proof

-----------------------------------------------------------------------------
(* The inductive invariant *)

Once(list) == IsList(list) /\ \A i, j \in DOMAIN list : list[i] = list[j] => i = j
Fields == {"version", "extrafiles", "blocksize", "files", "completefilecount", "todo", "finalresult",
           "unopened", "verifylist", "copyblocks", "outputblocks"}
FileFields == {"name", "content", "described", "target", "complete", "blocks", "targets"}
CreatePlaces == {"sizes", "redundancy", "chunks", "files", "open", "main", "blocks", "layout", "outputs",
                 "process", "headers", "criticals", "close", "hung"}
RepairPlaces == {"load", "verify", "extras", "rename", "targets", "buffers", "recover", "reverify",
                 "delete"}

\* The extra files on the command line: none is named twice, and while it is
\* read each entry is what its name gives.
Extras ==
    /\ {"extrafiles"} \subseteq DOMAIN commandline
    /\ Once(Names(commandline.extrafiles))
    /\ IsList(commandline.extrafiles)
    /\ at = "parse" => \A i \in DOMAIN commandline.extrafiles :
                         commandline.extrafiles[i] = ExtraFile(commandline.extrafiles[i].name)
Wording(words) == IsList(words) /\ \A a \in ToSet(words) : IsList(a.names)
Worded == /\ Extras /\ Wording(args) /\ IsList(lines)
          /\ \A line \in ToSet(lines) : Wording(line.args)

\* Which of the classes has taken over.
Placed ==
    /\ at \in {"parse", "end", "damaged"} \cup CreatePlaces \cup RepairPlaces
    /\ at \in CreatePlaces => Creating(commandline)
    /\ at \in RepairPlaces => ~Creating(commandline)
    /\ at = "parse" => repairer = Nothing
    /\ at = "load" => repairer = NewRepairer(commandline)

\* The files of the set are a list, from the command line on.
Sets ==
    /\ IsList(set.files)
    /\ at \in CreatePlaces => /\ {"extrafiles", "sources"} \subseteq DOMAIN creator
                              /\ IsList(creator.extrafiles) /\ IsList(creator.sources)

\* A block of the file for every one that it is to have.
BlockCount(r, i) ==
    IF r.version = "par1" THEN 1 ELSE CeilDiv(Len(r.files[i].content), r.blocksize)
Shaped(r) ==
    /\ Fields \subseteq DOMAIN r
    /\ IsList(r.files) /\ IsList(r.extrafiles) /\ IsList(r.verifylist)
    /\ r.todo \subseteq DOMAIN r.files /\ ToSet(r.verifylist) \subseteq DOMAIN r.files
    /\ \A i \in DOMAIN r.files :
         LET file == r.files[i] IN
         /\ FileFields \subseteq DOMAIN file
         /\ DOMAIN file.blocks = 1 .. BlockCount(r, i) /\ DOMAIN file.targets = 1 .. BlockCount(r, i)

\* A file's target is on disk under its name, and a copy of it that was found
\* complete is on disk.
OnDisk(r, d) ==
    \A i \in DOMAIN r.files :
      LET file == r.files[i] IN
      /\ file.target \in {NoName, file.name}
      /\ file.target # NoName => file.target \in DOMAIN d
      /\ file.complete # NoName => file.complete \in DOMAIN d /\ d[file.complete] = file.content

\* Those of the files that have no target are not there.
Absent(r, d, files) == \A i \in files : r.files[i].target = NoName => r.files[i].name \notin DOMAIN d

\* No file on disk counts as the copy of two files.
Apart(r) ==
    \A i, j \in DOMAIN r.files :
      r.files[i].complete = r.files[j].complete /\ r.files[i].complete # NoName => i = j
Targets(r, files) == {r.files[i].target : i \in files}
Completes(r) == {r.files[i].complete : i \in DOMAIN r.files} \ {NoName}

\* What is created, and what is written to.
Made(r) == {r.files[i].name : i \in ToSet(r.verifylist)}
AimedAt(b, r) == IsSet(b) => b.file \in Made(r)
Aimed(r) ==
    /\ \A i \in ToSet(r.verifylist) : r.files[i].target # NoName
    /\ \A i \in DOMAIN r.files : \A k \in DOMAIN r.files[i].targets : AimedAt(r.files[i].targets[k], r)
    /\ \A n \in DOMAIN r.copyblocks : AimedAt(r.copyblocks[n][2], r)
    /\ \A n \in DOMAIN r.outputblocks : AimedAt(r.outputblocks[n], r)

\* What there was is there, and nothing is going to write to it.
Kept(old, r, d) == \A name \in DOMAIN old : \E now \in DOMAIN d \ Made(r) : d[now] = old[name]

\* The stages of a repair.
Verifying(r, d) ==
    /\ r.verifylist = <<>> /\ Apart(r) /\ Once(r.extrafiles)
    /\ Completes(r) \subseteq Targets(r, DOMAIN r.files \ r.todo)
    /\ Absent(r, d, {i \in DOMAIN r.files \ r.todo : r.files[i].described})
    /\ \A i \in r.todo : r.files[i].target = NoName
    /\ r.finalresult => \A i \in DOMAIN r.files : r.files[i].described
Searching(r, d) ==
    /\ r.verifylist = <<>> /\ Apart(r) /\ Once(r.extrafiles)
    /\ Completes(r) \cap ToSet(r.extrafiles) \subseteq Targets(r, DOMAIN r.files)
    /\ Absent(r, d, DOMAIN r.files)
Moving(r, d) ==
    /\ r.verifylist = <<>> /\ Apart(r) /\ Absent(r, d, DOMAIN r.files)
    /\ r.completefilecount = CompleteCount(r)
\* All that was found complete is in its place, and nothing else counts.
Making(r) ==
    /\ \A i \in DOMAIN r.files : r.files[i].complete \in {NoName, r.files[i].target}
    /\ \A i \in ToSet(r.verifylist) : r.files[i].complete = NoName
    /\ r.completefilecount = CompleteCount(r)
Rechecking(r) == r.finalresult => r.completefilecount = CompleteCount(r)

RepairInv(place, old, r, d) ==
    /\ OnDisk(r, d) /\ Kept(old, r, d) /\ Aimed(r)
    /\ place = "verify" => Verifying(r, d)
    /\ place = "extras" => Searching(r, d)
    /\ place = "rename" => Moving(r, d)
    /\ place \in {"targets", "buffers", "recover"} => Making(r)
    /\ place = "targets" => Absent(r, d, DOMAIN r.files)
    /\ place = "reverify" => Rechecking(r)

IInv ==
    /\ IsFiniteSet(DOMAIN disk) /\ Worded /\ Placed /\ Sets /\ Shaped(repairer)
    /\ at \in RepairPlaces /\ Regular(repairer) => RepairInv(at, before, repairer, disk)
    /\ at = "end" /\ ~Creating(commandline) /\ Regular(repairer) => Kept(before, repairer, disk)
    /\ SuccessMeansRestored

-----------------------------------------------------------------------------
(* Numbers, lists and records *)

\* FiniteSetsExt's Min is in the set.
LEMMA MinIsIn == ASSUME NEW T \in SUBSET Nat, T # {} PROVE Min(T) \in T
<1>1. \E x \in T : \A y \in T : x <= y
  BY Least
<1> QED BY <1>1 DEF Min

\* A list with other entries.
LEMMA ListLike ==
    ASSUME NEW l, IsList(l), NEW m, m = [i \in DOMAIN l |-> m[i]]
    PROVE  IsList(m) /\ Len(m) = Len(l) /\ DOMAIN m = DOMAIN l
<1>1. Len(l) \in Nat /\ DOMAIN l = 1 .. Len(l)
  BY ListFacts
<1>2. m = [i \in 1 .. Len(l) |-> m[i]]
  BY <1>1
<1> HIDE DEF IsList
<1>3. IsList(m) /\ Len(m) = Len(l) /\ DOMAIN m = 1 .. Len(l)
  BY <1>1, <1>2, ListOf
<1> QED BY <1>1, <1>3

LEMMA ListAppend ==
    ASSUME NEW l, IsList(l), NEW e
    PROVE  /\ IsList(Append(l, e)) /\ ToSet(Append(l, e)) = ToSet(l) \cup {e}
           /\ DOMAIN Append(l, e) = 1 .. Len(l) + 1
           /\ \A i \in DOMAIN l : Append(l, e)[i] = l[i]
           /\ Append(l, e)[Len(l) + 1] = e
<1> DEFINE T == ToSet(l) \cup {e}
           m == Append(l, e)
<1>1. Len(l) \in Nat /\ DOMAIN l = 1 .. Len(l) /\ \A i \in DOMAIN l : l[i] \in ToSet(l)
  BY ListFacts
<1>2. l \in Seq(T)
  <2>1. l \in Seq(ToSet(l)) /\ ToSet(l) \subseteq T
    BY DEF IsList
  <2> HIDE DEF T
  <2> QED BY <2>1
<1>3. /\ m \in Seq(T) /\ Len(m) = Len(l) + 1
      /\ \A i \in 1 .. Len(l) : m[i] = l[i]
      /\ m[Len(l) + 1] = e
  <2>1. e \in T
    OBVIOUS
  <2> HIDE DEF T
  <2> QED BY <1>2, <2>1, AppendProperties
<1> HIDE DEF m
<1>4. DOMAIN m = 1 .. Len(l) + 1
  BY <1>3, LenProperties
<1>5. ToSet(m) = T
  <2>1. \A i \in DOMAIN m : i \in DOMAIN l \/ i = Len(l) + 1
    BY <1>1, <1>4
  <2>2. DOMAIN l \subseteq DOMAIN m /\ Len(l) + 1 \in DOMAIN m
    BY <1>1, <1>4
  <2>3. \A x \in ToSet(m) : x \in T
    BY <2>1, <1>1, <1>3 DEF ToSet
  <2>4. \A x \in T : x \in ToSet(m)
    BY <2>2, <1>1, <1>3 DEF ToSet
  <2> QED BY <2>3, <2>4
<1>6. m = [i \in 1 .. Len(l) + 1 |-> m[i]]
  BY <1>3, <1>4, LenProperties
<1>7. IsList(m)
  BY <1>1, <1>6, ListOf
<1> QED BY <1>1, <1>3, <1>4, <1>5, <1>7 DEF m

\* Its tail is one.
LEMMA TailIsList == ASSUME NEW l, IsList(l), l # <<>> PROVE IsList(Tail(l)) /\ ToSet(Tail(l)) \subseteq ToSet(l)
<1> DEFINE m == Tail(l)
<1>1. l \in Seq(ToSet(l))
  BY DEF IsList
<1>2. m \in Seq(ToSet(l))
  BY <1>1, HeadTailProperties
<1> HIDE DEF m
<1>3. Len(m) \in Nat /\ DOMAIN m = 1 .. Len(m) /\ m = [i \in 1 .. Len(m) |-> m[i]]
      /\ \A i \in 1 .. Len(m) : m[i] \in ToSet(l)
  BY <1>2, LenProperties, ElementOfSeq
<1>4. IsList(m)
  BY <1>3, ListOf
<1>5. ToSet(m) \subseteq ToSet(l)
  <2> DEFINE T == ToSet(l)
  <2>1. \A i \in DOMAIN m : m[i] \in T
    BY <1>3
  <2> HIDE DEF T
  <2>2. ToSet(m) \subseteq T
    BY <2>1 DEF ToSet
  <2> QED BY <2>2 DEF T
<1> QED BY <1>4, <1>5 DEF m

\* What is left when the first entry is taken.
LEMMA ListTail ==
    ASSUME NEW l, Once(l), l # <<>>
    PROVE  /\ Once(Tail(l)) /\ Head(l) \in ToSet(l) /\ ToSet(Tail(l)) = ToSet(l) \ {Head(l)}
<1>1. IsList(l) /\ \A i, j \in DOMAIN l : l[i] = l[j] => i = j
  BY DEF Once
<1>2. l \in Seq(ToSet(l)) /\ DOMAIN l = 1 .. Len(l) /\ Len(l) \in Nat
  BY <1>1, ListFacts DEF IsList
<1>3. /\ Head(l) = l[1] /\ Head(l) \in ToSet(l) /\ Tail(l) \in Seq(ToSet(l)) /\ Len(l) # 0
      /\ Len(Tail(l)) = Len(l) - 1 /\ \A i \in 1 .. Len(Tail(l)) : Tail(l)[i] = l[i + 1]
  BY <1>2, HeadTailProperties, EmptySeq
<1> DEFINE m == Tail(l)
<1>4. m = [i \in 1 .. Len(m) |-> m[i]] /\ Len(m) \in Nat
  BY <1>3, LenProperties
<1>5. IsList(m) /\ DOMAIN m = 1 .. Len(m)
  <2> HIDE DEF m
  <2> QED BY <1>4, ListOf
<1>6. \A i \in DOMAIN m : i + 1 \in DOMAIN l /\ i + 1 # 1 /\ m[i] = l[i + 1]
  BY <1>2, <1>3, <1>5
<1>7. \A i, j \in DOMAIN m : m[i] = m[j] => i = j
  <2>1. \A i, j \in Nat : i + 1 = j + 1 => i = j
    OBVIOUS
  <2>2. DOMAIN m \subseteq Nat
    BY <1>5
  <2> QED BY <2>1, <2>2, <1>1, <1>6
<1>8. 1 \in DOMAIN l
  BY <1>2, <1>3
<1>9. ToSet(m) \subseteq ToSet(l) \ {Head(l)}
  BY <1>1, <1>3, <1>6, <1>8 DEF ToSet
<1>10. ToSet(l) \ {Head(l)} \subseteq ToSet(m)
  <2> SUFFICES ASSUME NEW i \in DOMAIN l, i # 1 PROVE l[i] \in ToSet(m)
    BY <1>3 DEF ToSet
  <2>1. i - 1 \in DOMAIN m /\ (i - 1) + 1 = i
    BY <1>2, <1>3, <1>5
  <2> QED BY <2>1, <1>6 DEF ToSet
<1> HIDE DEF m
<1> QED BY <1>3, <1>5, <1>7, <1>9, <1>10 DEF Once, m

-----------------------------------------------------------------------------
(* What an operation leaves of the Par2Repairer *)

\* All of a file but the fields of G is the same.
FileKin(file, new, G) ==
    /\ FileFields \subseteq DOMAIN new
    /\ \A x \in FileFields \ G : new[x] = file[x]
    /\ DOMAIN new.blocks = DOMAIN file.blocks /\ DOMAIN new.targets = DOMAIN file.targets
\* All but the fields of F, and those of each file, is the same.
Rest(r, q, F) == Fields \subseteq DOMAIN q /\ \A x \in Fields \ F : x # "files" => q[x] = r[x]
Kin(r, q, F, G) ==
    /\ Rest(r, q, F)
    /\ IsList(q.files) /\ Len(q.files) = Len(r.files) /\ DOMAIN q.files = DOMAIN r.files
    /\ \A i \in DOMAIN r.files : FileKin(r.files[i], q.files[i], G)

\* The fields are those of the record, the files a function on the same list.
LEMMA KinIs ==
    ASSUME NEW r, NEW q, NEW F, NEW G, Shaped(r), Rest(r, q, F),
           q.files = [i \in DOMAIN r.files |-> q.files[i]],
           \A i \in DOMAIN r.files : FileKin(r.files[i], q.files[i], G)
    PROVE  Kin(r, q, F, G)
<1>1. IsList(r.files)
  BY DEF Shaped
<1>2. IsList(q.files) /\ Len(q.files) = Len(r.files) /\ DOMAIN q.files = DOMAIN r.files
  BY <1>1, ListLike
<1> QED BY <1>1, <1>2 DEF Kin

LEMMA KinTrans ==
    ASSUME NEW r, NEW p, NEW q, NEW F1, NEW F2, NEW G1, NEW G2,
           Kin(r, p, F1, G1), Kin(p, q, F2, G2)
    PROVE  Kin(r, q, F1 \cup F2, G1 \cup G2)
<1>1. ASSUME NEW i \in DOMAIN r.files PROVE FileKin(r.files[i], q.files[i], G1 \cup G2)
  BY DEF Kin, FileKin
<1> QED BY <1>1 DEF Kin, Rest

LEMMA KinShaped ==
    ASSUME NEW r, NEW q, NEW F, NEW G, Shaped(r), Kin(r, q, F, G),
           "version" \notin F, "blocksize" \notin F, "name" \notin G, "content" \notin G,
           IsList(q.extrafiles), IsList(q.verifylist),
           q.todo \subseteq DOMAIN q.files, ToSet(q.verifylist) \subseteq DOMAIN q.files
    PROVE  Shaped(q)
<1>1. q.version = r.version /\ q.blocksize = r.blocksize
  BY DEF Kin, Rest, Fields
<1>2. ASSUME NEW i \in DOMAIN r.files PROVE q.files[i].content = r.files[i].content
  BY <1>2 DEF Kin, FileKin, FileFields
<1>3. ASSUME NEW i \in DOMAIN r.files PROVE BlockCount(q, i) = BlockCount(r, i)
  BY <1>1, <1>2, <1>3 DEF BlockCount
<1>4. ASSUME NEW i \in DOMAIN r.files
      PROVE  /\ FileFields \subseteq DOMAIN q.files[i]
             /\ DOMAIN q.files[i].blocks = 1 .. BlockCount(q, i)
             /\ DOMAIN q.files[i].targets = 1 .. BlockCount(q, i)
  BY <1>3, <1>4 DEF Kin, FileKin, Shaped
<1> QED BY <1>4 DEF Kin, Rest, Shaped

\* Nor are the lists.
LEMMA KinSame ==
    ASSUME NEW r, NEW q, NEW F, NEW G, Shaped(r), Kin(r, q, F, G),
           {"version", "blocksize", "extrafiles", "todo", "verifylist"} \cap F = {},
           {"name", "content"} \cap G = {}
    PROVE  Shaped(q)
<1>1. /\ q.extrafiles = r.extrafiles /\ q.verifylist = r.verifylist /\ q.todo = r.todo
      /\ DOMAIN q.files = DOMAIN r.files
  BY DEF Kin, Rest, Fields
<1>2. /\ IsList(q.extrafiles) /\ IsList(q.verifylist)
      /\ q.todo \subseteq DOMAIN q.files /\ ToSet(q.verifylist) \subseteq DOMAIN q.files
  BY <1>1 DEF Shaped
<1>3. "version" \notin F /\ "blocksize" \notin F /\ "name" \notin G /\ "content" \notin G
  OBVIOUS
<1> QED BY <1>2, <1>3, KinShaped

\* Names and contents are never changed.
LEMMA KinNames ==
    ASSUME NEW r, NEW q, NEW F, NEW G, Kin(r, q, F, G), "name" \notin G, "content" \notin G
    PROVE  /\ DOMAIN q.files = DOMAIN r.files /\ Len(q.files) = Len(r.files)
           /\ \A i \in DOMAIN r.files : /\ q.files[i].name = r.files[i].name
                                        /\ q.files[i].content = r.files[i].content
           /\ Ordinary(q.files) <=> Ordinary(r.files)
           /\ "unopened" \notin F => (Regular(q) <=> Regular(r))
<1>1. \A i \in DOMAIN r.files : /\ q.files[i].name = r.files[i].name
                                /\ q.files[i].content = r.files[i].content
  BY DEF Kin, FileKin, FileFields
<1>2. Ordinary(q.files) <=> Ordinary(r.files)
  BY <1>1 DEF Ordinary, Kin
<1> QED BY <1>1, <1>2 DEF Regular, Kin, Rest, Fields

\* One file is changed.
OneFile(r, q, i, new) == q.files = [r.files EXCEPT ![i] = new]
LEMMA KinOne ==
    ASSUME NEW r, NEW q, NEW F, NEW G, NEW i \in DOMAIN r.files, NEW new, Shaped(r), Rest(r, q, F),
           OneFile(r, q, i, new), FileKin(r.files[i], new, G)
    PROVE  Kin(r, q, F, G)
<1>1. q.files = [k \in DOMAIN r.files |-> q.files[k]] /\ q.files[i] = new
      /\ \A j \in DOMAIN r.files : j # i => q.files[j] = r.files[j]
  BY DEF OneFile
<1>2. ASSUME NEW j \in DOMAIN r.files, j # i PROVE FileKin(r.files[j], q.files[j], G)
  BY <1>1, <1>2 DEF Shaped, FileKin
<1>3. \A j \in DOMAIN r.files : FileKin(r.files[j], q.files[j], G)
  BY <1>1, <1>2
<1> QED BY <1>1, <1>3, KinIs

\* None is.
LEMMA KinNone ==
    ASSUME NEW r, NEW q, NEW F, Shaped(r), Rest(r, q, F), q.files = r.files
    PROVE  Kin(r, q, F, {})
<1>1. \A j \in DOMAIN r.files : FileKin(r.files[j], q.files[j], {})
  BY DEF Shaped, FileKin
<1>2. q.files = [k \in DOMAIN r.files |-> q.files[k]]
  <2>1. IsList(r.files)
    BY DEF Shaped
  <2>2. r.files = [k \in DOMAIN r.files |-> r.files[k]]
    BY <2>1, ListFacts
  <2> QED BY <2>2
<1> QED BY <1>1, <1>2, KinIs

-----------------------------------------------------------------------------
(* What is found in a file *)

\* Blocks, and one complete copy at most.
Outcome(r, q, d, name) ==
    /\ Kin(r, q, {}, {"complete", "blocks"})
    /\ \/ \A i \in DOMAIN r.files : q.files[i].complete = r.files[i].complete
       \/ \E j \in DOMAIN r.files :
            /\ r.files[j].content = d[name] /\ q.files[j].complete = name
            /\ \A i \in DOMAIN r.files : i # j => q.files[i].complete = r.files[i].complete

LEMMA NothingFound == ASSUME NEW r, NEW d, NEW name, Shaped(r) PROVE Outcome(r, r, d, name)
<1>1. Kin(r, r, {}, {})
  <2>1. Rest(r, r, {})
    BY DEF Rest, Shaped
  <2> QED BY <2>1, KinNone
<1>2. Kin(r, r, {}, {"complete", "blocks"})
  BY <1>1 DEF Kin, FileKin
<1> QED BY <1>2 DEF Outcome

LEMMA BlocksFound ==
    ASSUME NEW r, NEW name, NEW upto, Shaped(r)
    PROVE  Outcome(r, WithBlocks(r, name, upto), disk, name)
<1> DEFINE q == WithBlocks(r, name, upto)
           where(i, k) == {o \in Offsets(r, disk[name], i, k) : o + Len(DataOf(r, i, k)) <= upto}
           block(i, k) == IF \/ IsSet(r.files[i].blocks[k])
                             \/ ~r.files[i].verifiable \/ where(i, k) = {} THEN r.files[i].blocks[k]
                          ELSE Block(name, Min(where(i, k)), Len(DataOf(r, i, k)))
           new(i) == [r.files[i] EXCEPT !.blocks = [k \in DOMAIN r.files[i].blocks |-> block(i, k)]]
<1>1. q = [r EXCEPT !.files = [i \in DOMAIN r.files |-> new(i)]]
  BY DEF WithBlocks
<1> HIDE DEF q, block
<1>2. /\ Rest(r, q, {})
      /\ q.files = [i \in DOMAIN r.files |-> new(i)]
  <2> HIDE DEF new
  <2> QED BY <1>1 DEF Shaped, Fields, Rest
<1>3. ASSUME NEW i \in DOMAIN r.files
      PROVE  FileKin(r.files[i], new(i), {"blocks"}) /\ new(i).complete = r.files[i].complete
  BY <1>3 DEF Shaped, FileFields, FileKin
<1> HIDE DEF new
<1>4. ASSUME NEW i \in DOMAIN r.files PROVE q.files[i] = new(i)
  BY <1>2, <1>4
<1>5. q.files = [i \in DOMAIN r.files |-> q.files[i]]
  BY <1>2
<1>6. Kin(r, q, {}, {"blocks"})
  BY <1>2, <1>3, <1>4, <1>5, KinIs
<1>7. Kin(r, q, {}, {"complete", "blocks"})
  BY <1>6 DEF Kin, FileKin
<1> QED BY <1>7, <1>3, <1>4 DEF Outcome, q

\* Its last conjunct: file j is found complete.
LEMMA CompleteFound ==
    ASSUME NEW r, NEW q, NEW d, NEW name, Shaped(r), NEW j \in DOMAIN r.files, NEW blocks,
           r.files[j].content = d[name], DOMAIN blocks = DOMAIN r.files[j].blocks,
           q = [r EXCEPT !.files = [r.files EXCEPT ![j] =
                  [r.files[j] EXCEPT !.complete = name, !.blocks = blocks]]]
    PROVE  Outcome(r, q, d, name)
<1> DEFINE new == [r.files[j] EXCEPT !.complete = name, !.blocks = blocks]
<1>1. FileKin(r.files[j], new, {"complete", "blocks"}) /\ new.complete = name
  BY DEF Shaped, FileFields, FileKin
<1> HIDE DEF new
<1>2. q = [r EXCEPT !.files = [r.files EXCEPT ![j] = new]]
  BY DEF new
<1>3. Rest(r, q, {}) /\ OneFile(r, q, j, new)
  BY <1>2 DEF Shaped, Fields, Rest, OneFile
<1>4. /\ Kin(r, q, {}, {"complete", "blocks"}) /\ q.files[j] = new
      /\ \A i \in DOMAIN r.files : i # j => q.files[i] = r.files[i]
  <2>1. Kin(r, q, {}, {"complete", "blocks"})
    BY <1>1, <1>3, KinOne
  <2> QED BY <2>1, <1>3 DEF OneFile
<1> QED BY <1>1, <1>4 DEF Outcome

LEMMA WithCompleteIs ==
    ASSUME NEW r, NEW name, NEW j \in DOMAIN r.files, Shaped(r), r.files[j].content = disk[name]
    PROVE  Outcome(r, WithComplete(r, name, j), disk, name)
<1> DEFINE blocks == [k \in DOMAIN r.files[j].blocks |->
                        Block(name, (k - 1) * r.blocksize, Len(DataOf(r, j, k)))]
           q == WithComplete(r, name, j)
<1>1. DOMAIN blocks = DOMAIN r.files[j].blocks
  OBVIOUS
<1>2. q = [r EXCEPT !.files[j].complete = name, !.files[j].blocks = blocks]
  BY DEF WithComplete
<1> HIDE DEF blocks, q
<1>3. q = [r EXCEPT !.files = [r.files EXCEPT ![j] =
             [r.files[j] EXCEPT !.complete = name, !.blocks = blocks]]]
  BY <1>2 DEF Shaped, Fields, FileFields
<1>4. Outcome(r, q, disk, name)
  BY <1>1, <1>3, CompleteFound, Zenon
<1> QED BY <1>4 DEF q

LEMMA VerifiedIs ==
    ASSUME NEW r, NEW name, Shaped(r), NEW q \in Verified(r, name)
    PROVE  Outcome(r, q, disk, name)
<1>1. CASE q = WithBlocks(r, name, Len(disk[name]))
  BY <1>1, BlocksFound
<1>2. CASE q = r
  BY <1>2, NothingFound
<1>3. CASE \E i \in CopyOf(r, name) : q = WithComplete(r, name, i)
  <2>1. PICK i \in DOMAIN r.files : r.files[i].content = disk[name] /\ q = WithComplete(r, name, i)
    BY <1>3 DEF CopyOf
  <2> QED BY <2>1, WithCompleteIs
<1> QED BY <1>1, <1>2, <1>3 DEF Verified

LEMMA Verified1Is ==
    ASSUME NEW r, NEW name, Shaped(r), r.version = "par1", NEW q \in VerifyDataFile1(r, name)
    PROVE  Outcome(r, q, disk, name)
<1> DEFINE match == Match1(r, name)
           j == Min(match)
           blocks == <<Block(name, 0, Len(disk[name]))>>
<1>1. CASE match = {}
  <2>1. q = r
    BY <1>1 DEF VerifyDataFile1
  <2> QED BY <2>1, NothingFound
<1>2. CASE match # {}
  <2>1. match \subseteq {i \in DOMAIN r.files : r.files[i].content = disk[name]}
    BY DEF Match1
  <2>2. match \in SUBSET Nat
    <3>1. IsList(r.files)
      BY DEF Shaped
    <3>2. DOMAIN r.files \subseteq Nat
      BY <3>1, ListFacts
    <3> QED BY <2>1, <3>2
  <2>3. j \in DOMAIN r.files /\ r.files[j].content = disk[name]
    <3> HIDE DEF match
    <3>1. j \in match
      BY <1>2, <2>2, MinIsIn
    <3> HIDE DEF j
    <3> QED BY <2>1, <3>1
  <2>4. q = [r EXCEPT !.files[j].complete = name, !.files[j].blocks = blocks]
    BY <1>2 DEF VerifyDataFile1
  <2>5. DOMAIN blocks = DOMAIN r.files[j].blocks
    <3>1. DOMAIN blocks = 1 .. 1
      OBVIOUS
    <3> HIDE DEF blocks, j
    <3> QED BY <3>1, <2>3 DEF Shaped, BlockCount
  <2> HIDE DEF blocks, j
  <2>6. q = [r EXCEPT !.files = [r.files EXCEPT ![j] =
               [r.files[j] EXCEPT !.complete = name, !.blocks = blocks]]]
    BY <2>3, <2>4 DEF Shaped, Fields, FileFields
  <2> QED BY <2>3, <2>5, <2>6, CompleteFound, Zenon
<1> QED BY <1>1, <1>2

-----------------------------------------------------------------------------
(* The stages of a repair *)

\* What was there stays there, and what is to be made the same.
LEMMA MadeSame ==
    ASSUME NEW r, NEW q, NEW F, NEW G, Shaped(r), Kin(r, q, F, G),
           "verifylist" \notin F, "name" \notin G, "content" \notin G
    PROVE  q.verifylist = r.verifylist /\ Made(q) = Made(r) /\ \A old, d : Kept(old, r, d) <=> Kept(old, q, d)
<1>1. q.verifylist = r.verifylist
  BY DEF Kin, Rest, Fields
<1>2. \A i \in ToSet(r.verifylist) : q.files[i].name = r.files[i].name
  BY KinNames DEF Shaped
<1>3. Made(q) = Made(r)
  BY <1>1, <1>2 DEF Made
<1> QED BY <1>1, <1>3 DEF Kept

LEMMA AimedSame ==
    ASSUME NEW r, NEW q, NEW F, NEW G, Shaped(r), Aimed(r), Kin(r, q, F, G),
           {"verifylist", "copyblocks", "outputblocks"} \cap F = {},
           {"name", "content", "targets"} \cap G = {},
           \A i \in ToSet(r.verifylist) : q.files[i].target # NoName
    PROVE  Aimed(q)
<1>1. Made(q) = Made(r)
  BY MadeSame
<1>2. \A b : AimedAt(b, q) <=> AimedAt(b, r)
  BY <1>1 DEF AimedAt
<1>3. /\ q.verifylist = r.verifylist /\ q.copyblocks = r.copyblocks /\ q.outputblocks = r.outputblocks
      /\ DOMAIN q.files = DOMAIN r.files
  BY DEF Kin, Rest, Fields
<1>4. \A i \in DOMAIN r.files : q.files[i].targets = r.files[i].targets
  BY DEF Kin, FileKin, FileFields
<1> QED BY <1>2, <1>3, <1>4 DEF Aimed

\* One of the target files was looked for.
LEMMA TargetVerified ==
    ASSUME NEW old, NEW r, NEW d, NEW q, NEW i \in r.todo, Shaped(r), Regular(r),
           RepairInv("verify", old, r, d),
           Kin(r, q, {"todo", "completefilecount", "finalresult"}, {"target", "complete", "blocks"}),
           q.todo = r.todo \ {i}, q.finalresult = r.finalresult \/ q.finalresult = FALSE,
           q.files[i].target = IF r.files[i].name \in DOMAIN d THEN r.files[i].name ELSE NoName,
           \A j \in DOMAIN r.files : j # i => q.files[j].target = r.files[j].target,
           \/ \A j \in DOMAIN r.files : q.files[j].complete = r.files[j].complete
           \/ \E j \in DOMAIN r.files :
                /\ r.files[i].name \in DOMAIN d
                /\ r.files[j].content = d[r.files[i].name] /\ q.files[j].complete = r.files[i].name
                /\ \A k \in DOMAIN r.files : j # k => q.files[k].complete = r.files[k].complete
    PROVE  RepairInv("verify", old, q, d)
<1> DEFINE name == r.files[i].name
           D == DOMAIN r.files
<1>1. /\ DOMAIN q.files = D /\ q.verifylist = r.verifylist /\ q.extrafiles = r.extrafiles
      /\ i \in D /\ r.todo \subseteq D
  BY DEF Kin, Rest, Fields, Shaped
<1>2. \A j \in D : /\ q.files[j].name = r.files[j].name /\ q.files[j].content = r.files[j].content
                   /\ q.files[j].described = r.files[j].described
  BY DEF Kin, FileKin, FileFields
<1>3. Verifying(r, d) /\ OnDisk(r, d) /\ Kept(old, r, d) /\ Aimed(r)
  BY DEF RepairInv
<1>4. /\ \A j \in D : r.files[j].name # NoName
      /\ \A j, k \in D : r.files[j].name = r.files[k].name => j = k
  BY DEF Regular, Ordinary
<1>5. r.verifylist = <<>> /\ ToSet(r.verifylist) = {}
  BY <1>3 DEF Verifying, ToSet
<1>6. Kept(old, q, d)
  BY <1>3, MadeSame
<1>7. Aimed(q)
  BY <1>3, <1>5, AimedSame
<1>8. \A j \in D : /\ q.files[j].target \in {NoName, r.files[j].name}
                   /\ q.files[j].target # NoName => q.files[j].target \in DOMAIN d
  BY <1>3 DEF OnDisk
<1>9. \A j \in D : q.files[j].complete # NoName =>
        q.files[j].complete \in DOMAIN d /\ d[q.files[j].complete] = r.files[j].content
  BY <1>3 DEF OnDisk
<1>10. OnDisk(q, d)
  BY <1>1, <1>2, <1>8, <1>9 DEF OnDisk
\* Nothing was known to be complete under the name that was still to be looked for.
<1>11. \A j \in D : r.files[j].complete # name
  <2> SUFFICES ASSUME NEW j \in D, r.files[j].complete = name PROVE FALSE
    OBVIOUS
  <2>1. name # NoName
    BY <1>1, <1>4
  <2>2. name \in Completes(r)
    BY <2>1 DEF Completes
  <2>3. PICK k \in D \ r.todo : r.files[k].target = name
    BY <2>2, <1>3 DEF Verifying, Targets
  <2>4. r.files[k].name = name
    BY <2>1, <2>3, <1>3 DEF OnDisk
  <2> QED BY <2>3, <2>4, <1>1, <1>4
<1>12. Apart(q)
  BY <1>1, <1>3, <1>11 DEF Verifying, Apart
<1>13. Completes(q) \subseteq Targets(q, D \ q.todo)
  <2> SUFFICES ASSUME NEW j \in D, q.files[j].complete # NoName
               PROVE  \E k \in D \ q.todo : q.files[k].target = q.files[j].complete
    BY <1>1 DEF Completes, Targets
  <2>1. CASE q.files[j].complete = r.files[j].complete
    <3>1. PICK k \in D \ r.todo : r.files[k].target = r.files[j].complete
      <4>1. r.files[j].complete \in Completes(r)
        BY <2>1 DEF Completes
      <4>2. r.files[j].complete \in Targets(r, D \ r.todo)
        BY <4>1, <1>3 DEF Verifying
      <4> QED BY <4>2 DEF Targets
    <3>2. k # i /\ q.files[k].target = r.files[k].target
      BY <3>1
    <3> QED BY <3>1, <3>2, <2>1
  <2>2. CASE q.files[j].complete # r.files[j].complete
    <3>1. q.files[j].complete = name /\ name \in DOMAIN d
      BY <2>2
    <3> QED BY <3>1, <1>1
  <2> QED BY <2>1, <2>2
<1>14. Absent(q, d, {j \in D \ q.todo : q.files[j].described})
  <2> SUFFICES ASSUME NEW j \in D \ q.todo, r.files[j].described, q.files[j].target = NoName
               PROVE  r.files[j].name \notin DOMAIN d
    BY <1>2 DEF Absent
  <2>1. CASE j = i
    BY <2>1, <1>4, <1>1
  <2>2. CASE j # i
    BY <2>2, <1>3 DEF Verifying, Absent
  <2> QED BY <2>1, <2>2
<1>15. \A j \in q.todo : q.files[j].target = NoName
  BY <1>1, <1>3 DEF Verifying
<1>16. q.finalresult => \A j \in D : q.files[j].described
  BY <1>2, <1>3 DEF Verifying
<1>17. Verifying(q, d)
  BY <1>1, <1>3, <1>12, <1>13, <1>14, <1>15, <1>16 DEF Verifying
<1> QED BY <1>6, <1>7, <1>10, <1>17 DEF RepairInv

\* An extra file was looked at.
LEMMA ExtraVerified ==
    ASSUME NEW old, NEW r, NEW d, NEW q, Shaped(r), RepairInv("extras", old, r, d),
           r.extrafiles # <<>>, q.extrafiles = Tail(r.extrafiles),
           Kin(r, q, {"extrafiles", "completefilecount"}, {"complete", "blocks"}),
           \/ \A j \in DOMAIN r.files : q.files[j].complete = r.files[j].complete
           \/ \E j \in DOMAIN r.files :
                /\ Head(r.extrafiles) \in DOMAIN d
                /\ \A k \in DOMAIN r.files : r.files[k].target # Head(r.extrafiles)
                /\ r.files[j].content = d[Head(r.extrafiles)]
                /\ q.files[j].complete = Head(r.extrafiles)
                /\ \A k \in DOMAIN r.files : j # k => q.files[k].complete = r.files[k].complete
    PROVE  RepairInv("extras", old, q, d)
<1> DEFINE name == Head(r.extrafiles)
           D == DOMAIN r.files
<1>1. DOMAIN q.files = D /\ q.verifylist = r.verifylist
  BY DEF Kin, Rest, Fields
<1>2. \A j \in D : /\ q.files[j].name = r.files[j].name /\ q.files[j].content = r.files[j].content
                   /\ q.files[j].target = r.files[j].target
  BY DEF Kin, FileKin, FileFields
<1>3. Searching(r, d) /\ OnDisk(r, d) /\ Kept(old, r, d) /\ Aimed(r)
  BY DEF RepairInv
<1>4. r.verifylist = <<>> /\ ToSet(r.verifylist) = {}
  BY <1>3 DEF Searching, ToSet
<1>5. Kept(old, q, d) /\ Aimed(q)
  BY <1>3, <1>4, MadeSame, AimedSame
<1>6. OnDisk(q, d)
  BY <1>1, <1>2, <1>3 DEF OnDisk
<1>7. Once(r.extrafiles)
  BY <1>3 DEF Searching
<1>8. Once(q.extrafiles) /\ name \in ToSet(r.extrafiles) /\ ToSet(q.extrafiles) = ToSet(r.extrafiles) \ {name}
  BY <1>7, ListTail
<1>9. Completes(r) \cap ToSet(r.extrafiles) \subseteq Targets(r, D)
  BY <1>3 DEF Searching
<1>10. Targets(q, DOMAIN q.files) = Targets(r, D)
  BY <1>1, <1>2 DEF Targets
<1>11. Completes(q) \subseteq Completes(r) \cup {name}
  BY <1>1 DEF Completes
<1>12. Completes(q) \cap ToSet(q.extrafiles) \subseteq Targets(q, DOMAIN q.files)
  BY <1>8, <1>9, <1>10, <1>11
<1>13. Apart(q)
  <2>1. Apart(r)
    BY <1>3 DEF Searching
  <2>2. CASE \A j \in D : q.files[j].complete = r.files[j].complete
    BY <2>1, <2>2, <1>1 DEF Apart
  <2>3. CASE /\ \A k \in D : r.files[k].target # name
             /\ \E j \in D : /\ q.files[j].complete = name
                             /\ \A k \in D : j # k => q.files[k].complete = r.files[k].complete
    <3>1. name \notin Targets(r, D)
      BY <2>3 DEF Targets
    <3>2. name \notin Completes(r)
      BY <3>1, <1>8, <1>9
    <3>3. name = NoName \/ \A j \in D : r.files[j].complete # name
      BY <3>2 DEF Completes
    <3> QED BY <2>1, <2>3, <3>3, <1>1 DEF Apart
  <2> QED BY <2>2, <2>3
<1>14. Absent(q, d, DOMAIN q.files)
  BY <1>1, <1>2, <1>3 DEF Searching, Absent
<1>15. Searching(q, d)
  BY <1>1, <1>4, <1>8, <1>12, <1>13, <1>14 DEF Searching
<1> QED BY <1>5, <1>6, <1>15 DEF RepairInv

\* How many files are complete.
LEMMA CompleteCountIs ==
    ASSUME NEW r, IsList(r.files)
    PROVE  /\ CompleteCount(r) \in Nat /\ CompleteCount(r) <= Len(r.files)
           /\ IsFiniteSet({i \in DOMAIN r.files : IsComplete(r.files[i])})
           /\ CompleteCount(r) = Len(r.files) => \A i \in DOMAIN r.files : IsComplete(r.files[i])
<1> DEFINE all == {i \in DOMAIN r.files : IsComplete(r.files[i])}
           D == DOMAIN r.files
<1>1. IsFiniteSet(D) /\ Cardinality(D) = Len(r.files) /\ all \in SUBSET D
  BY ListFacts
<1>2. CompleteCount(r) = Cardinality(all)
  BY DEF CompleteCount
<1> HIDE DEF all
<1>3. /\ IsFiniteSet(all) /\ Cardinality(all) <= Cardinality(D)
      /\ Cardinality(D) = Cardinality(all) => D = all
  BY <1>1, FS_Subset
<1>4. Cardinality(all) \in Nat
  BY <1>3, FS_CardinalityType
<1>5. D = all => \A i \in D : IsComplete(r.files[i])
  BY DEF all
<1> QED BY <1>1, <1>2, <1>3, <1>4, <1>5 DEF all

LEMMA CompleteCountSame ==
    ASSUME NEW r, NEW q, DOMAIN q.files = DOMAIN r.files,
           \A i \in DOMAIN r.files : IsComplete(q.files[i]) <=> IsComplete(r.files[i])
    PROVE  CompleteCount(q) = CompleteCount(r)
<1>1. {i \in DOMAIN q.files : IsComplete(q.files[i])} = {i \in DOMAIN r.files : IsComplete(r.files[i])}
  OBVIOUS
<1> QED BY <1>1 DEF CompleteCount

\* Every file that is complete is on disk as it was.
Restored(r, d) ==
    \A i \in DOMAIN r.files : /\ r.files[i].name \in DOMAIN d
                              /\ d[r.files[i].name] = r.files[i].content
LEMMA AllComplete ==
    ASSUME NEW r, NEW d, Shaped(r), OnDisk(r, d), CompleteCount(r) = Len(r.files)
    PROVE  Restored(r, d)
<1>1. IsList(r.files)
  BY DEF Shaped
<1>2. \A i \in DOMAIN r.files : IsComplete(r.files[i])
  BY <1>1, CompleteCountIs
<1> QED BY <1>2 DEF IsComplete, OnDisk, Restored

-----------------------------------------------------------------------------
(* Files get other names *)

\* What is at from in d is at to in e.
Passed(d, e, from, to) ==
    /\ DOMAIN e = (DOMAIN d \ {from}) \cup {to} /\ e[to] = d[from]
    /\ \A name \in DOMAIN d \ {from} : e[name] = d[name]
LEMMA RenameIs ==
    ASSUME NEW d, NEW from, NEW to, from \in DOMAIN d, to \notin DOMAIN d
    PROVE  Passed(d, Rename(d, from, to), from, to)
BY DEF Passed, Rename, Put, Delete, DeleteAll

Now(name, from, to) == IF name = from THEN to ELSE name
\* The DiskFile's new name, and the target of a file.
Moved(r, from, to, i, t) == [Renamed(r, from, to) EXCEPT !.files[i].target = t]
Renames(r, q, from, to, i, t) ==
    \A j \in DOMAIN r.files :
      /\ q.files[j].complete = Now(r.files[j].complete, from, to)
      /\ q.files[j].target = IF j = i THEN t ELSE Now(r.files[j].target, from, to)
LEMMA MovedIs ==
    ASSUME NEW r, NEW from, NEW to, NEW i \in DOMAIN r.files, NEW t, Shaped(r)
    PROVE  /\ Kin(r, Moved(r, from, to, i, t), {}, {"target", "complete", "blocks"})
           /\ Renames(r, Moved(r, from, to, i, t), from, to, i, t)
<1> DEFINE q == Moved(r, from, to, i, t)
           D == DOMAIN r.files
           p == Renamed(r, from, to)
           blocks(j) == [k \in DOMAIN r.files[j].blocks |->
                           [r.files[j].blocks[k] EXCEPT !.file = Now(@, from, to)]]
           old(j) == [r.files[j] EXCEPT !.target = Now(@, from, to), !.complete = Now(@, from, to),
                                        !.blocks = blocks(j)]
           new(j) == IF j = i THEN [old(j) EXCEPT !.target = t] ELSE old(j)
<1>1. p = [r EXCEPT !.files = [j \in D |-> old(j)]]
  BY DEF Renamed, Now
<1>2. \A j \in D : DOMAIN blocks(j) = DOMAIN r.files[j].blocks
  OBVIOUS
<1> HIDE DEF blocks
<1>3. ASSUME NEW j \in D
      PROVE  /\ FileKin(r.files[j], new(j), {"target", "complete", "blocks"})
             /\ new(j).complete = Now(r.files[j].complete, from, to)
             /\ new(j).target = IF j = i THEN t ELSE Now(r.files[j].target, from, to)
  BY <1>2, <1>3 DEF Shaped, FileFields, FileKin
<1>4. q.files = [j \in D |-> new(j)] /\ Rest(r, q, {})
  <2>1. p.files = [j \in D |-> old(j)] /\ Rest(r, p, {}) /\ DOMAIN p = DOMAIN r
    <3> HIDE DEF p, old
    <3> QED BY <1>1 DEF Shaped, Fields, Rest
  <2>2. q = [p EXCEPT !.files[i].target = t]
    BY DEF Moved
  <2> HIDE DEF p, old, q
  <2>3. q.files = [p.files EXCEPT ![i] = [p.files[i] EXCEPT !.target = t]]
    BY <2>1, <2>2 DEF Shaped, Fields
  <2>4. Rest(r, q, {})
    BY <2>1, <2>2 DEF Shaped, Fields, Rest
  <2>5. \A j \in D : q.files[j] = new(j)
    BY <2>1, <2>3
  <2> HIDE DEF new
  <2> QED BY <2>1, <2>3, <2>4, <2>5
<1> HIDE DEF new, q
<1>5. ASSUME NEW j \in D PROVE q.files[j] = new(j)
  BY <1>4, <1>5
<1>6. q.files = [j \in D |-> q.files[j]]
  BY <1>4
<1>7. Kin(r, q, {}, {"target", "complete", "blocks"})
  BY <1>3, <1>4, <1>5, <1>6, KinIs
<1> QED BY <1>3, <1>4, <1>5, <1>7 DEF q, Renames

\* The name that is free for a damaged file is none that a file of a set has.
LEMMA NewNameIs ==
    ASSUME NEW d, NEW name, IsFiniteSet(DOMAIN d), name[5] = <<>>
    PROVE  NewName(d, name) \notin DOMAIN d /\ NewName(d, name)[5] # <<>> /\ NewName(d, name) # NoName
<1> DEFINE c == Cardinality(DOMAIN d)
           free == {n \in 1 .. c + 1 : ~FileExists(d, Numbered(name, n))}
           number == CHOOSE n \in free : \A m \in free : n <= m
<1>1. c \in Nat
  BY FS_CardinalityType
<1>2. \A n : Numbered(name, n)[5] = <<n>> /\ Numbered(name, n)[5] # <<>>
  BY DEF Numbered
<1>3. free # {}
  <2> SUFFICES ASSUME free = {} PROVE FALSE
    OBVIOUS
  <2> DEFINE Label == [n \in 1 .. c + 1 |-> Numbered(name, n)]
  <2>1. Label \in [1 .. c + 1 -> DOMAIN d]
    BY DEF FileExists
  <2>2. IsFiniteSet(1 .. c + 1) /\ Cardinality(1 .. c + 1) = c + 1
    <3>1. \A n \in Nat : IsFiniteSet(1 .. n) /\ Cardinality(1 .. n) = n
      <4> TAKE n \in Nat
      <4>1. 1 \in Int /\ n \in Int
        OBVIOUS
      <4>2. IsFiniteSet(1 .. n) /\ Cardinality(1 .. n) = IF 1 > n THEN 0 ELSE n - 1 + 1
        BY ONLY <4>1, FS_Interval
      <4> QED BY <4>2
    <3>2. c + 1 \in Nat
      BY <1>1
    <3> QED BY <3>1, <3>2
  <2>3. Cardinality(DOMAIN d) < Cardinality(1 .. c + 1)
    BY <1>1, <2>2
  <2>4. PICK x, y \in 1 .. c + 1 : x # y /\ Label[x] = Label[y]
    <3> DEFINE S == 1 .. c + 1
               T == DOMAIN d
    <3>1. IsFiniteSet(S) /\ IsFiniteSet(T) /\ Cardinality(T) < Cardinality(S) /\ Label \in [S -> T]
      BY <2>1, <2>2, <2>3
    <3> HIDE DEF S, T, Label
    <3>2. \E x, y \in S : x # y /\ Label[x] = Label[y]
      BY ONLY <3>1, FS_PigeonHole
    <3> QED BY <3>2 DEF S
  <2>5. Numbered(name, x)[5] = Numbered(name, y)[5]
    BY <2>4
  <2> QED BY <1>2, <2>4, <2>5
<1>4. free \in SUBSET Nat
  BY <1>1
<1>5. number \in free
  <2>1. \E n \in free : \A m \in free : n <= m
    BY <1>3, <1>4, Least
  <2> HIDE DEF free
  <2> QED BY <2>1
<1>6. NewName(d, name) = Numbered(name, number)
  BY DEF NewName
<1>7. NewName(d, name) \notin DOMAIN d
  BY <1>5, <1>6 DEF FileExists
<1>8. NoName[5] = <<>>
  BY DEF NoName, Name
<1> QED BY <1>2, <1>6, <1>7, <1>8

\* A damaged file is called what no file is, and what no file of the set can be.
LEMMA RenamedAway ==
    ASSUME NEW old, NEW r, NEW d, NEW i \in DOMAIN r.files, Shaped(r), Regular(r),
           RepairInv("rename", old, r, d), IsFiniteSet(DOMAIN d), Damaged(r.files[i]),
           NEW from, from = r.files[i].target,
           NEW to, to \notin DOMAIN d, to[5] # <<>>, to # NoName,
           NEW e, Passed(d, e, from, to),
           NEW q, Kin(r, q, {}, {"target", "complete", "blocks"}), Renames(r, q, from, to, i, NoName)
    PROVE  Shaped(q) /\ (Regular(q) <=> Regular(r)) /\ IsFiniteSet(DOMAIN e) /\ RepairInv("rename", old, q, e)
<1> DEFINE D == DOMAIN r.files
<1>1. Moving(r, d) /\ OnDisk(r, d) /\ Kept(old, r, d) /\ Aimed(r)
  BY DEF RepairInv
<1>2. from # NoName /\ from = r.files[i].name /\ from \in DOMAIN d /\ r.files[i].complete # from
  BY <1>1 DEF Damaged, OnDisk
<1>3. \A j \in D : r.files[j].name # NoName /\ r.files[j].name[5] = <<>>
  BY DEF Regular, Ordinary
<1>4. \A j, k \in D : r.files[j].name = r.files[k].name => j = k
  BY DEF Regular, Ordinary
<1>5. \A j \in D : r.files[j].name # to
  BY <1>3
<1>6. /\ DOMAIN e = (DOMAIN d \ {from}) \cup {to} /\ e[to] = d[from]
      /\ \A name \in DOMAIN d \ {from} : e[name] = d[name]
  BY DEF Passed
<1>7. IsFiniteSet(DOMAIN e)
  <2>1. IsFiniteSet(DOMAIN d \ {from})
    BY FS_RemoveElement
  <2>2. IsFiniteSet((DOMAIN d \ {from}) \cup {to})
    BY <2>1, FS_AddElement
  <2> QED BY <2>2, <1>6
<1>8. /\ q.files[i].target = NoName
      /\ \A j \in D : /\ q.files[j].complete = Now(r.files[j].complete, from, to)
                      /\ j # i => q.files[j].target = Now(r.files[j].target, from, to)
  BY DEF Renames
<1>9. Shaped(q) /\ (Regular(q) <=> Regular(r)) /\ DOMAIN q.files = D
  BY KinSame, KinNames
<1>10. \A j \in D : /\ q.files[j].name = r.files[j].name /\ q.files[j].content = r.files[j].content
                    /\ q.files[j].target = IF j = i THEN NoName ELSE r.files[j].target
                    /\ j # i => r.files[j].target # from
  <2> TAKE j \in D
  <2>1. q.files[j].name = r.files[j].name /\ q.files[j].content = r.files[j].content
    BY KinNames
  <2>2. j # i => r.files[j].target # from
    BY <1>1, <1>2, <1>4 DEF OnDisk
  <2> QED BY <2>1, <2>2, <1>8 DEF Now
<1>11. q.verifylist = <<>> /\ ToSet(r.verifylist) = {} /\ Made(r) = {} /\ Made(q) = {}
       /\ q.completefilecount = r.completefilecount
  <2>1. r.verifylist = <<>> /\ ToSet(r.verifylist) = {}
    BY <1>1 DEF Moving, ToSet
  <2>2. q.verifylist = r.verifylist /\ q.completefilecount = r.completefilecount
    BY DEF Kin, Rest, Fields
  <2> QED BY <2>1, <2>2 DEF Made
<1>12. Aimed(q)
  BY <1>1, <1>11, AimedSame
<1>13. Kept(old, q, e)
  <2> SUFFICES ASSUME NEW name \in DOMAIN old PROVE \E now \in DOMAIN e : e[now] = old[name]
    BY <1>11 DEF Kept
  <2>1. PICK now \in DOMAIN d : d[now] = old[name]
    BY <1>1, <1>11 DEF Kept
  <2>2. CASE now = from
    BY <2>1, <2>2, <1>6
  <2>3. CASE now # from
    BY <2>1, <2>3, <1>6
  <2> QED BY <2>2, <2>3
<1>14. ASSUME NEW j \in D
       PROVE  /\ q.files[j].target \in {NoName, q.files[j].name}
              /\ q.files[j].target # NoName => q.files[j].target \in DOMAIN e
              /\ q.files[j].complete # NoName =>
                   q.files[j].complete \in DOMAIN e /\ e[q.files[j].complete] = q.files[j].content
  <2>1. /\ r.files[j].target \in {NoName, r.files[j].name}
        /\ r.files[j].target # NoName => r.files[j].target \in DOMAIN d
        /\ r.files[j].complete # NoName =>
             r.files[j].complete \in DOMAIN d /\ d[r.files[j].complete] = r.files[j].content
    BY <1>1 DEF OnDisk
  <2>2. /\ q.files[j].target \in {NoName, q.files[j].name}
        /\ q.files[j].target # NoName => q.files[j].target \in DOMAIN e
    BY <2>1, <1>6, <1>10
  <2>3. CASE r.files[j].complete = from
    <3>1. q.files[j].complete = to
      BY <2>3, <1>8 DEF Now
    <3> QED BY <3>1, <2>1, <2>2, <2>3, <1>2, <1>6, <1>10
  <2>4. CASE r.files[j].complete # from
    <3>1. q.files[j].complete = r.files[j].complete
      BY <2>4, <1>8 DEF Now
    <3>2. r.files[j].complete # NoName =>
            r.files[j].complete \in DOMAIN e /\ e[r.files[j].complete] = r.files[j].content
      BY <2>1, <2>4, <1>6
    <3>3. q.files[j].content = r.files[j].content
      BY <1>10
    <3> QED BY <3>1, <3>2, <3>3, <2>2
  <2> QED BY <2>3, <2>4
<1>15. Apart(q)
  <2> SUFFICES ASSUME NEW j \in D, NEW k \in D, q.files[j].complete = q.files[k].complete,
                      q.files[j].complete # NoName
               PROVE  j = k
    BY <1>9 DEF Apart
  <2>1. \A m \in D : r.files[m].complete # to
    BY <1>1 DEF OnDisk
  <2>2. r.files[j].complete = r.files[k].complete /\ r.files[j].complete # NoName
    BY <2>1, <1>2, <1>8 DEF Now
  <2> QED BY <2>2, <1>1 DEF Moving, Apart
<1>16. Absent(q, e, D)
  BY <1>1, <1>2, <1>4, <1>5, <1>6, <1>10 DEF Moving, Absent
<1>17. CompleteCount(q) = CompleteCount(r)
  <2>1. ASSUME NEW j \in D PROVE IsComplete(q.files[j]) <=> IsComplete(r.files[j])
    <3>1. CASE j = i
      BY <3>1, <1>2, <1>10 DEF IsComplete
    <3>2. CASE j # i
      <4>1. r.files[j].target # NoName => r.files[j].target # from /\ r.files[j].target # to
        BY <3>2, <1>1, <1>10 DEF OnDisk
      <4> QED BY <3>2, <4>1, <1>8, <1>10 DEF IsComplete, Now
    <3> QED BY <3>1, <3>2
  <2> QED BY <2>1, <1>9, CompleteCountSame
<1>18. Moving(q, e)
  BY <1>1, <1>9, <1>11, <1>15, <1>16, <1>17 DEF Moving
<1>19. OnDisk(q, e)
  BY <1>9, <1>14 DEF OnDisk
<1> QED BY <1>7, <1>9, <1>12, <1>13, <1>18, <1>19 DEF RepairInv

LEMMA DamagedRenamed ==
    ASSUME NEW old, NEW r, NEW d, NEW i \in DOMAIN r.files, Shaped(r), Regular(r),
           RepairInv("rename", old, r, d), IsFiniteSet(DOMAIN d), Damaged(r.files[i]),
           NEW from, from = r.files[i].target, NEW to, to = NewName(d, from),
           NEW e, e = Rename(d, from, to),
           NEW q, q = Moved(r, from, to, i, NoName)
    PROVE  Shaped(q) /\ (Regular(q) <=> Regular(r)) /\ IsFiniteSet(DOMAIN e) /\ RepairInv("rename", old, q, e)
<1>1. from \in DOMAIN d /\ from[5] = <<>>
  BY DEF RepairInv, OnDisk, Damaged, Regular, Ordinary
<1>2. to \notin DOMAIN d /\ to[5] # <<>> /\ to # NoName
  BY <1>1, NewNameIs
<1>3. Passed(d, e, from, to)
  BY <1>1, <1>2, RenameIs
<1>4. Kin(r, q, {}, {"target", "complete", "blocks"}) /\ Renames(r, q, from, to, i, NoName)
  BY MovedIs
<1> QED BY <1>2, <1>3, <1>4, RenamedAway

\* A misnamed file gets its name.
LEMMA MisnamedRenamed ==
    ASSUME NEW old, NEW r, NEW d, NEW i \in DOMAIN r.files, Shaped(r), Regular(r),
           RepairInv("rename", old, r, d), IsFiniteSet(DOMAIN d), Misnamed(r.files[i]),
           \A j \in DOMAIN r.files : ~Damaged(r.files[j]),
           NEW from, from = r.files[i].complete, NEW to, to = r.files[i].name,
           NEW e, e = Rename(d, from, to), NEW p, p = Moved(r, from, to, i, to),
           NEW q, Kin(p, q, {"completefilecount"}, {}), q.completefilecount = r.completefilecount + 1
    PROVE  Shaped(q) /\ (Regular(q) <=> Regular(r)) /\ IsFiniteSet(DOMAIN e) /\ RepairInv("rename", old, q, e)
<1> DEFINE D == DOMAIN r.files
<1>1. Moving(r, d) /\ OnDisk(r, d) /\ Kept(old, r, d) /\ Aimed(r) /\ Apart(r) /\ Absent(r, d, D)
  BY DEF RepairInv, Moving
<1>2. r.files[i].target = NoName /\ from # NoName /\ from \in DOMAIN d /\ d[from] = r.files[i].content
  BY <1>1 DEF Misnamed, OnDisk
<1>3. \A j, k \in D : r.files[j].name = r.files[k].name => j = k
  BY DEF Regular, Ordinary
<1>4. to \notin DOMAIN d /\ to # NoName
  <2>1. to \notin DOMAIN d
    BY <1>1, <1>2 DEF Absent
  <2> QED BY <2>1 DEF Regular, Ordinary
<1>5. /\ DOMAIN e = (DOMAIN d \ {from}) \cup {to} /\ e[to] = d[from]
      /\ \A name \in DOMAIN d \ {from} : e[name] = d[name]
  <2>1. from \in DOMAIN d /\ to \notin DOMAIN d /\ e = Rename(d, from, to)
    BY <1>2, <1>4
  <2>2. Passed(d, e, from, to)
    BY <2>1, RenameIs
  <2> QED BY <2>2 DEF Passed
<1>6. IsFiniteSet(DOMAIN e)
  <2>1. IsFiniteSet(DOMAIN d \ {from})
    BY FS_RemoveElement
  <2>2. IsFiniteSet((DOMAIN d \ {from}) \cup {to})
    BY <2>1, FS_AddElement
  <2> QED BY <2>2, <1>5
<1>7. /\ Kin(r, q, {"completefilecount"}, {"target", "complete", "blocks"})
      /\ \A j \in D : /\ q.files[j].complete = Now(r.files[j].complete, from, to)
                      /\ q.files[j].target = IF j = i THEN to ELSE Now(r.files[j].target, from, to)
  <2>1. Kin(r, p, {}, {"target", "complete", "blocks"}) /\ Renames(r, p, from, to, i, to)
    BY MovedIs
  <2>2. Kin(r, q, {} \cup {"completefilecount"}, {"target", "complete", "blocks"} \cup {})
    BY <2>1, KinTrans
  <2>3. {} \cup {"completefilecount"} = {"completefilecount"}
    OBVIOUS
  <2>4. {"target", "complete", "blocks"} \cup {} = {"target", "complete", "blocks"}
    OBVIOUS
  <2>5. Kin(r, q, {"completefilecount"}, {"target", "complete", "blocks"})
    BY <2>2, <2>3, <2>4
  <2>6. DOMAIN p.files = D
    BY <2>1 DEF Kin
  <2>7. \A j \in D : q.files[j].complete = p.files[j].complete /\ q.files[j].target = p.files[j].target
    <3> TAKE j \in D
    <3>1. FileKin(p.files[j], q.files[j], {})
      BY <2>6 DEF Kin
    <3> QED BY <3>1, Zenon DEF FileKin, FileFields
  <2> QED BY <2>1, <2>5, <2>7, ZenonT(30) DEF Renames
<1>8. Shaped(q) /\ (Regular(q) <=> Regular(r)) /\ DOMAIN q.files = D
  BY <1>7, KinSame, KinNames
\* What another file has is neither of the names.
<1>9. \A j \in D : j # i => r.files[j].target # from /\ r.files[j].complete # from
  <2> SUFFICES ASSUME NEW j \in D, j # i PROVE r.files[j].target # from /\ r.files[j].complete # from
    OBVIOUS
  <2>1. r.files[j].complete # from
    BY <1>1, <1>2 DEF Apart
  <2>2. ~Damaged(r.files[j])
    OBVIOUS
  <2> QED BY <2>1, <2>2, <1>2 DEF Damaged
<1>10. \A j \in D : /\ q.files[j].name = r.files[j].name /\ q.files[j].content = r.files[j].content
                    /\ q.files[j].target = IF j = i THEN to ELSE r.files[j].target
                    /\ q.files[j].complete = IF j = i THEN to ELSE r.files[j].complete
  <2> TAKE j \in D
  <2>1. q.files[j].name = r.files[j].name /\ q.files[j].content = r.files[j].content
    BY <1>7, KinNames
  <2> QED BY <2>1, <1>7, <1>9 DEF Now
<1>11. /\ q.verifylist = <<>> /\ ToSet(r.verifylist) = {} /\ Made(r) = {} /\ Made(q) = {}
  <2>1. r.verifylist = <<>> /\ ToSet(r.verifylist) = {}
    BY <1>1 DEF Moving, ToSet
  <2>2. q.verifylist = r.verifylist
    BY <1>7 DEF Kin, Rest, Fields
  <2> QED BY <2>1, <2>2 DEF Made
<1>12. Aimed(q)
  BY <1>1, <1>7, <1>11, AimedSame
<1>13. Kept(old, q, e)
  <2> SUFFICES ASSUME NEW name \in DOMAIN old PROVE \E now \in DOMAIN e : e[now] = old[name]
    BY <1>11 DEF Kept
  <2>1. PICK now \in DOMAIN d : d[now] = old[name]
    BY <1>1, <1>11 DEF Kept
  <2>2. CASE now = from
    BY <2>1, <2>2, <1>5
  <2>3. CASE now # from
    BY <2>1, <2>3, <1>5
  <2> QED BY <2>2, <2>3
<1>14. ASSUME NEW j \in D
       PROVE  /\ q.files[j].target \in {NoName, q.files[j].name}
              /\ q.files[j].target # NoName => q.files[j].target \in DOMAIN e
              /\ q.files[j].complete # NoName =>
                   q.files[j].complete \in DOMAIN e /\ e[q.files[j].complete] = q.files[j].content
  <2>1. CASE j = i
    BY <2>1, <1>2, <1>5, <1>10
  <2>2. CASE j # i
    <3>1. /\ r.files[j].target \in {NoName, r.files[j].name}
          /\ r.files[j].target # NoName => r.files[j].target \in DOMAIN d
          /\ r.files[j].complete # NoName =>
               r.files[j].complete \in DOMAIN d /\ d[r.files[j].complete] = r.files[j].content
      BY <1>1 DEF OnDisk
    <3>2. /\ q.files[j].target = r.files[j].target /\ q.files[j].complete = r.files[j].complete
          /\ q.files[j].name = r.files[j].name /\ q.files[j].content = r.files[j].content
      BY <2>2, <1>10
    <3>3. /\ q.files[j].target \in {NoName, q.files[j].name}
          /\ q.files[j].target # NoName => q.files[j].target \in DOMAIN e
      BY <3>1, <3>2, <2>2, <1>5, <1>9
    <3>4. r.files[j].complete # NoName =>
            r.files[j].complete \in DOMAIN e /\ e[r.files[j].complete] = r.files[j].content
      BY <3>1, <2>2, <1>5, <1>9
    <3> QED BY <3>2, <3>3, <3>4
  <2> QED BY <2>1, <2>2, SMTT(30)
<1>15. OnDisk(q, e)
  BY <1>8, <1>14 DEF OnDisk
<1>16. Apart(q)
  <2>1. \A m \in D : r.files[m].complete # to
    BY <1>1, <1>4, SMTT(30) DEF OnDisk
  <2> QED BY <2>1, <1>1, <1>8, <1>10 DEF Apart
<1>17. Absent(q, e, D)
  BY <1>1, <1>3, <1>4, <1>5, <1>10 DEF Absent
<1>18. CompleteCount(q) = CompleteCount(r) + 1
  <2> DEFINE all == {j \in D : IsComplete(r.files[j])}
  <2>1. IsList(r.files)
    BY DEF Shaped
  <2>2. IsFiniteSet(all)
    BY <2>1, CompleteCountIs
  <2>3. i \notin all
    BY <1>2 DEF IsComplete
  <2>4. {j \in D : IsComplete(q.files[j])} = all \cup {i}
    BY <1>4, <1>10 DEF IsComplete
  <2>5. Cardinality(all \cup {i}) = Cardinality(all) + 1
    <3> HIDE DEF all
    <3> QED BY <2>2, <2>3, FS_AddElement
  <2> QED BY <2>4, <2>5, <1>8 DEF CompleteCount
<1>19. Moving(q, e)
  BY <1>1, <1>8, <1>11, <1>16, <1>17, <1>18 DEF Moving
<1> QED BY <1>6, <1>8, <1>12, <1>13, <1>15, <1>19 DEF RepairInv

\* None is damaged or misnamed: what is complete is where it belongs.
LEMMA RenamingDone ==
    ASSUME NEW old, NEW r, NEW d, RepairInv("rename", old, r, d),
           \A i \in DOMAIN r.files : ~Damaged(r.files[i]) /\ ~Misnamed(r.files[i])
    PROVE  RepairInv("targets", old, r, d)
<1>1. Moving(r, d) /\ OnDisk(r, d) /\ Kept(old, r, d) /\ Aimed(r)
  BY DEF RepairInv
<1>2. \A i \in DOMAIN r.files : r.files[i].complete \in {NoName, r.files[i].target}
  BY DEF Damaged, Misnamed
<1>3. ToSet(r.verifylist) = {}
  BY <1>1 DEF Moving, ToSet
<1>4. Making(r)
  BY <1>1, <1>2, <1>3 DEF Moving, Making
<1> QED BY <1>1, <1>4 DEF RepairInv, Moving

-----------------------------------------------------------------------------
(* Files are made *)

\* What is at name is new.
Added(d, e, name) ==
    /\ DOMAIN e = DOMAIN d \cup {name}
    /\ \A other \in DOMAIN d \ {name} : e[other] = d[other]
LEMMA CreateIs == ASSUME NEW d, NEW name, NEW size PROVE Added(d, Create(d, name, size), name)
<1>1. \A cells : Added(d, Put(d, name, cells), name)
  BY DEF Added, Put
<1> QED BY <1>1 DEF Create

\* No file is there, and nothing else is lost.
LEMMA CreateFails ==
    ASSUME NEW d, NEW name, name \notin DOMAIN d, NEW e \in CreateFailures(d, name)
    PROVE  DOMAIN e = DOMAIN d /\ \A other \in DOMAIN d : e[other] = d[other]
BY DEF CreateFailures, Delete, DeleteAll

\* The invariant depends on the disk's files alone.
SameDisk(d, e) == DOMAIN e = DOMAIN d /\ \A name \in DOMAIN d : e[name] = d[name]
LEMMA KeptSame ==
    ASSUME NEW old, NEW r, NEW d, NEW e, Kept(old, r, d), SameDisk(d, e)
    PROVE  Kept(old, r, e)
BY DEF Kept, SameDisk

\* File i is created, to have these blocks.
Begun(r, q, i, targets) ==
    /\ Rest(r, q, {"verifylist"}) /\ q.verifylist = Append(r.verifylist, i)
    /\ OneFile(r, q, i, [r.files[i] EXCEPT !.target = r.files[i].name, !.targets = targets])
LEMMA TargetShaped ==
    ASSUME NEW r, NEW i \in DOMAIN r.files, Shaped(r),
           NEW targets, DOMAIN targets = DOMAIN r.files[i].targets, NEW q, Begun(r, q, i, targets)
    PROVE  /\ Kin(r, q, {"verifylist"}, {"target", "targets"})
           /\ Shaped(q) /\ (Regular(q) <=> Regular(r)) /\ DOMAIN q.files = DOMAIN r.files
           /\ ToSet(q.verifylist) = ToSet(r.verifylist) \cup {i}
<1> DEFINE D == DOMAIN r.files
           new == [r.files[i] EXCEPT !.target = r.files[i].name, !.targets = targets]
<1>1. FileKin(r.files[i], new, {"target", "targets"})
  BY DEF Shaped, FileFields, FileKin
<1>2. Rest(r, q, {"verifylist"}) /\ q.verifylist = Append(r.verifylist, i) /\ OneFile(r, q, i, new)
  BY DEF Begun
<1> HIDE DEF new
<1>3. Kin(r, q, {"verifylist"}, {"target", "targets"})
  BY <1>1, <1>2, KinOne
<1>4. IsList(r.verifylist) /\ ToSet(r.verifylist) \subseteq D
  BY DEF Shaped
<1>5. IsList(q.verifylist) /\ ToSet(q.verifylist) = ToSet(r.verifylist) \cup {i}
  BY <1>2, <1>4, ListAppend
<1>6. q.extrafiles = r.extrafiles /\ q.todo = r.todo /\ DOMAIN q.files = D
  BY <1>3 DEF Kin, Rest, Fields
<1>7. /\ IsList(q.extrafiles) /\ q.todo \subseteq DOMAIN q.files
      /\ ToSet(q.verifylist) \subseteq DOMAIN q.files
  BY <1>4, <1>5, <1>6 DEF Shaped
<1>8. Shaped(q)
  BY <1>3, <1>5, <1>7, KinShaped
<1>9. Regular(q) <=> Regular(r)
  BY <1>3, KinNames
<1> QED BY <1>3, <1>5, <1>6, <1>8, <1>9

LEMMA TargetCreated ==
    ASSUME NEW old, NEW r, NEW d, NEW i \in DOMAIN r.files, Shaped(r), Regular(r),
           RepairInv("targets", old, r, d), r.files[i].target = NoName,
           NEW e, Added(d, e, r.files[i].name),
           NEW targets, DOMAIN targets = DOMAIN r.files[i].targets,
           \A k \in DOMAIN targets : IsSet(targets[k]) => targets[k].file = r.files[i].name,
           NEW q, Begun(r, q, i, targets)
    PROVE  RepairInv("targets", old, q, e)
<1> DEFINE D == DOMAIN r.files
           name == r.files[i].name
<1>1. Making(r) /\ OnDisk(r, d) /\ Kept(old, r, d) /\ Aimed(r) /\ Absent(r, d, D)
  BY DEF RepairInv
<1>2. /\ name \notin DOMAIN d /\ name # NoName
      /\ \A j, k \in D : r.files[j].name = r.files[k].name => j = k
  BY <1>1 DEF Absent, Regular, Ordinary
<1>3. /\ Kin(r, q, {"verifylist"}, {"target", "targets"}) /\ DOMAIN q.files = D
      /\ ToSet(q.verifylist) = ToSet(r.verifylist) \cup {i}
  BY TargetShaped
<1>4. /\ q.files[i].target = name /\ q.files[i].targets = targets
      /\ q.files[i].complete = r.files[i].complete
      /\ \A j \in D : j # i => q.files[j] = r.files[j]
  BY DEF Begun, OneFile, Shaped, FileFields
<1>5. ToSet(r.verifylist) \subseteq D
  BY DEF Shaped
<1>6. \A j \in D : /\ q.files[j].name = r.files[j].name /\ q.files[j].content = r.files[j].content
                   /\ q.files[j].complete = r.files[j].complete
                   /\ q.files[j].target = IF j = i THEN name ELSE r.files[j].target
  <2> TAKE j \in D
  <2>1. q.files[j].name = r.files[j].name /\ q.files[j].content = r.files[j].content
    BY <1>3, KinNames
  <2> QED BY <2>1, <1>4
<1>7. r.files[i].complete = NoName
  BY <1>1 DEF Making
<1>8. OnDisk(q, e)
  <2>1. ASSUME NEW j \in D
        PROVE  /\ q.files[j].target \in {NoName, q.files[j].name}
               /\ q.files[j].target # NoName => q.files[j].target \in DOMAIN e
               /\ q.files[j].complete # NoName =>
                    q.files[j].complete \in DOMAIN e /\ e[q.files[j].complete] = q.files[j].content
    <3>1. CASE j = i
      BY <3>1, <1>6, <1>7 DEF Added
    <3>2. CASE j # i
      <4>1. /\ r.files[j].target \in {NoName, r.files[j].name}
            /\ r.files[j].target # NoName => r.files[j].target \in DOMAIN d
            /\ r.files[j].complete # NoName =>
                 r.files[j].complete \in DOMAIN d /\ d[r.files[j].complete] = r.files[j].content
        BY <1>1 DEF OnDisk
      <4>2. r.files[j].complete # NoName =>
              r.files[j].complete \in DOMAIN e /\ e[r.files[j].complete] = r.files[j].content
        BY <4>1, <1>2 DEF Added
      <4>3. r.files[j].target # NoName => r.files[j].target \in DOMAIN e
        BY <4>1 DEF Added
      <4> QED BY <4>1, <4>2, <4>3, <3>2, <1>6
    <3> QED BY <3>1, <3>2
  <2> QED BY <2>1, <1>3 DEF OnDisk
<1>9. Made(q) = Made(r) \cup {name}
  <2>1. Made(q) = {r.files[j].name : j \in ToSet(r.verifylist) \cup {i}}
    BY <1>3, <1>5, <1>6 DEF Made
  <2> QED BY <2>1 DEF Made
<1>10. Kept(old, q, e)
  <2> SUFFICES ASSUME NEW n \in DOMAIN old PROVE \E now \in DOMAIN e \ Made(q) : e[now] = old[n]
    BY DEF Kept
  <2>1. PICK now \in DOMAIN d \ Made(r) : d[now] = old[n]
    BY <1>1 DEF Kept
  <2>2. now # name /\ now \in DOMAIN e \ Made(q) /\ e[now] = d[now]
    BY <2>1, <1>2, <1>9 DEF Added
  <2> QED BY <2>1, <2>2
<1>11. Aimed(q)
  <2>1. \A b : AimedAt(b, r) => AimedAt(b, q)
    BY <1>9 DEF AimedAt
  <2>2. \A j \in ToSet(q.verifylist) : q.files[j].target # NoName
    BY <1>1, <1>2, <1>3, <1>5, <1>6 DEF Aimed
  <2>3. ASSUME NEW j \in D, NEW k \in DOMAIN q.files[j].targets PROVE AimedAt(q.files[j].targets[k], q)
    <3>1. CASE j = i
      BY <3>1, <1>4, <1>9 DEF AimedAt
    <3>2. CASE j # i
      BY <2>1, <3>2, <1>1, <1>4 DEF Aimed
    <3> QED BY <3>1, <3>2
  <2>4. q.copyblocks = r.copyblocks /\ q.outputblocks = r.outputblocks
    BY <1>3 DEF Kin, Rest, Fields
  <2> QED BY <2>1, <2>2, <2>3, <2>4, <1>1, <1>3 DEF Aimed
<1>12. Making(q)
  <2>1. \A j \in D : q.files[j].complete \in {NoName, q.files[j].target}
    BY <1>1, <1>6, <1>7 DEF Making
  <2>2. \A j \in ToSet(q.verifylist) : q.files[j].complete = NoName
    BY <1>1, <1>3, <1>5, <1>6, <1>7 DEF Making
  <2>3. ASSUME NEW j \in D PROVE IsComplete(q.files[j]) <=> IsComplete(r.files[j])
    BY <1>2, <1>6, <1>7 DEF IsComplete
  <2>4. CompleteCount(q) = CompleteCount(r)
    BY <2>3, <1>3, CompleteCountSame
  <2>5. q.completefilecount = r.completefilecount
    BY <1>3 DEF Kin, Rest, Fields
  <2> QED BY <2>1, <2>2, <2>4, <2>5, <1>1, <1>3 DEF Making
<1>13. Absent(q, e, D)
  <2> SUFFICES ASSUME NEW j \in D, q.files[j].target = NoName PROVE q.files[j].name \notin DOMAIN e
    BY DEF Absent
  <2>1. j # i /\ r.files[j].target = NoName /\ q.files[j].name = r.files[j].name
    BY <1>2, <1>6
  <2>2. r.files[j].name \notin DOMAIN d /\ r.files[j].name # name
    BY <2>1, <1>1, <1>2 DEF Absent
  <2>3. DOMAIN e = DOMAIN d \cup {name}
    BY DEF Added
  <2> QED BY <2>1, <2>2, <2>3
<1> QED BY <1>3, <1>8, <1>10, <1>11, <1>12, <1>13 DEF RepairInv

-----------------------------------------------------------------------------
(* Files are written *)

\* Every slot is a block of a file.
LEMMA SlotsAre ==
    ASSUME NEW n \in DOMAIN Slots
    PROVE  Slots[n][1] \in Files /\ Slots[n][2] \in DOMAIN repairer.files[Slots[n][1]].blocks
<1> DEFINE pairs == UNION {{<<i, k>> : k \in DOMAIN repairer.files[i].blocks} : i \in Files}
           number(p) == Cardinality({q \in pairs : q[1] < p[1]}) + p[2]
<1>1. Slots = [m \in {number(p) : p \in pairs} |-> CHOOSE p \in pairs : number(p) = m]
  BY DEF Slots
<1>2. \A p \in pairs : p[1] \in Files /\ p[2] \in DOMAIN repairer.files[p[1]].blocks
  OBVIOUS
<1> HIDE DEF pairs, number
<1>3. PICK p \in pairs : n = number(p)
  BY <1>1
<1>4. Slots[n] \in pairs
  BY <1>1, <1>3
<1> QED BY <1>2, <1>4

\* Writes keep the names of the files, and all of those that they do not write to.
Spared(d, e, names) == DOMAIN e = DOMAIN d /\ \A name \in DOMAIN d \ names : e[name] = d[name]
Into(writes, names) == \A n \in DOMAIN writes : IsSet(writes[n][1]) => writes[n][1].file \in names

LEMMA WritesSpare ==
    ASSUME NEW d, NEW writes, NEW names, Into(writes, names), NEW done, done \subseteq DOMAIN writes
    PROVE  Spared(d, AfterWrites(d, writes, done), names)
<1> DEFINE into(name) == {n \in done : IsSet(writes[n][1]) /\ writes[n][1].file = name}
           upon(name, p) == {n \in into(name) : p \in WriteData(writes[n])}
           cell(w, p) == w[3][p - (w[1].offset + w[2])]
           written(name) == [p \in DOMAIN d[name] |-> IF upon(name, p) = {} THEN d[name][p]
                                                      ELSE cell(writes[Max(upon(name, p))], p)]
           e == AfterWrites(d, writes, done)
<1>1. e = [name \in DOMAIN d |-> IF into(name) = {} THEN d[name] ELSE written(name)]
  BY DEF AfterWrites
<1>2. \A name \in DOMAIN d \ names : into(name) = {}
  BY DEF Into
<1> HIDE DEF into, written, e
<1>3. DOMAIN e = DOMAIN d /\ \A name \in DOMAIN d \ names : e[name] = d[name]
  BY <1>1, <1>2
<1> QED BY <1>3 DEF e, Spared

LEMMA AllAndSome ==
    ASSUME NEW d, NEW writes, NEW names, Into(writes, names)
    PROVE  /\ Spared(d, AllWrites(d, writes), names)
           /\ \A e \in SomeWrites(d, writes) : Spared(d, e, names)
<1>1. Spared(d, AllWrites(d, writes), names)
  BY WritesSpare DEF AllWrites
<1>2. ASSUME NEW e \in SomeWrites(d, writes) PROVE Spared(d, e, names)
  <2>1. PICK n \in DOMAIN writes : e = AfterWrites(d, writes, {m \in DOMAIN writes : m < n})
    BY DEF SomeWrites
  <2>2. {m \in DOMAIN writes : m < n} \subseteq DOMAIN writes
    OBVIOUS
  <2> QED BY <2>1, <2>2, WritesSpare
<1> QED BY <1>1, <1>2

\* Writes create no files.
LEMMA WritesFit ==
    ASSUME NEW d, NEW writes, NEW e, e = AllWrites(d, writes) \/ e \in SomeWrites(d, writes)
    PROVE  DOMAIN e = DOMAIN d
<1>1. PICK names : names = {writes[n][1].file : n \in DOMAIN writes}
  OBVIOUS
<1>2. Into(writes, names)
  BY <1>1 DEF Into
<1> QED BY <1>2, AllAndSome DEF Spared

LEMMA SparedTwice ==
    ASSUME NEW d, NEW e, NEW c, NEW names, Spared(d, c, names), Spared(c, e, names)
    PROVE  Spared(d, e, names)
BY DEF Spared

\* What was there is not written to, and nothing that is complete.
LEMMA WritingSpares ==
    ASSUME NEW old, NEW r, NEW d, NEW e, Shaped(r), Ordinary(r.files), Kept(old, r, d), OnDisk(r, d),
           Spared(d, e, Made(r))
    PROVE  /\ Kept(old, r, e)
           /\ Making(r) => OnDisk(r, e)
<1>1. Kept(old, r, e)
  BY DEF Kept, Spared
<1>2. ASSUME Making(r), NEW j \in DOMAIN r.files
      PROVE  /\ r.files[j].target \in {NoName, r.files[j].name}
             /\ r.files[j].target # NoName => r.files[j].target \in DOMAIN e
             /\ r.files[j].complete # NoName =>
                  r.files[j].complete \in DOMAIN e /\ e[r.files[j].complete] = r.files[j].content
  <2>1. /\ r.files[j].target \in {NoName, r.files[j].name}
        /\ r.files[j].target # NoName => r.files[j].target \in DOMAIN d
        /\ r.files[j].complete # NoName =>
             r.files[j].complete \in DOMAIN d /\ d[r.files[j].complete] = r.files[j].content
    BY DEF OnDisk
  <2>2. r.files[j].target # NoName => r.files[j].target \in DOMAIN e
    BY <2>1 DEF Spared
  <2>3. ASSUME r.files[j].complete # NoName PROVE r.files[j].complete \notin Made(r)
    <3>1. r.files[j].complete = r.files[j].name
      BY <1>2, <2>1, <2>3 DEF Making
    <3>2. j \notin ToSet(r.verifylist)
      BY <1>2, <2>3 DEF Making
    <3>3. ToSet(r.verifylist) \subseteq DOMAIN r.files
      BY DEF Shaped
    <3> QED BY <3>1, <3>2, <3>3 DEF Made, Ordinary
  <2> QED BY <2>1, <2>2, <2>3 DEF Spared
<1>3. Making(r) => OnDisk(r, e)
  BY <1>2 DEF OnDisk
<1> QED BY <1>1, <1>3

-----------------------------------------------------------------------------
(* The operations, on any Par2Repairer *)

\* What a stage begins with.
Stage(place, old, r, d) ==
    Shaped(r) /\ IsFiniteSet(DOMAIN d) /\ (Regular(r) => RepairInv(place, old, r, d))

LEMMA KinWider ==
    ASSUME NEW r, NEW q, NEW F1, NEW F2, NEW G1, NEW G2, Kin(r, q, F1, G1), F1 \subseteq F2, G1 \subseteq G2
    PROVE  Kin(r, q, F2, G2)
<1>1. Rest(r, q, F2)
  BY DEF Kin, Rest
<1>2. \A i \in DOMAIN r.files : FileKin(r.files[i], q.files[i], G2)
  BY DEF Kin, FileKin
<1> QED BY <1>1, <1>2 DEF Kin

LEMMA UpdatedIs ==
    ASSUME NEW r, Shaped(r)
    PROVE  /\ Kin(r, Updated(r), {"completefilecount"}, {}) /\ Shaped(Updated(r))
           /\ Updated(r).files = r.files
           /\ Updated(r).completefilecount = CompleteCount(Updated(r))
           /\ (Regular(Updated(r)) <=> Regular(r))
<1> DEFINE q == Updated(r)
           n == CompleteCount(r)
<1>1. q = [r EXCEPT !.completefilecount = n]
  BY DEF Updated
<1> HIDE DEF q, n
<1>2. Rest(r, q, {"completefilecount"}) /\ q.files = r.files /\ q.completefilecount = n
  BY <1>1 DEF Rest, Shaped, Fields
<1>3. Kin(r, q, {"completefilecount"}, {})
  BY <1>2, KinNone
<1>4. Shaped(q)
  BY <1>3, KinSame
<1>5. CompleteCount(q) = n
  BY <1>2 DEF CompleteCount, n
<1>6. Regular(q) <=> Regular(r)
  BY <1>3, KinNames
<1> QED BY <1>2, <1>3, <1>4, <1>5, <1>6 DEF q

\* VerifyTarget: the file is struck off the list, and opened.
Done(r, i) == [r EXCEPT !.todo = @ \ {i}]
Opened(r, i) == [Done(r, i) EXCEPT !.files[i].target = r.files[i].name]

LEMMA DoneIs ==
    ASSUME NEW r, NEW i \in r.todo, Shaped(r)
    PROVE  /\ Kin(r, Done(r, i), {"todo"}, {}) /\ Done(r, i).todo = r.todo \ {i}
           /\ Shaped(Done(r, i)) /\ Done(r, i).files = r.files
<1> DEFINE q == Done(r, i)
<1>1. Rest(r, q, {"todo"}) /\ q.files = r.files /\ q.todo = r.todo \ {i}
  BY DEF Done, Rest, Shaped, Fields
<1> HIDE DEF q
<1>2. Kin(r, q, {"todo"}, {})
  BY <1>1, KinNone
<1>3. q.extrafiles = r.extrafiles /\ q.verifylist = r.verifylist
  BY <1>1 DEF Rest, Fields
<1>4. /\ IsList(q.extrafiles) /\ IsList(q.verifylist)
      /\ q.todo \subseteq DOMAIN q.files /\ ToSet(q.verifylist) \subseteq DOMAIN q.files
  BY <1>1, <1>3 DEF Shaped
<1>5. Shaped(q)
  BY <1>2, <1>4, KinShaped
<1> QED BY <1>1, <1>2, <1>5 DEF q

LEMMA OpenedIs ==
    ASSUME NEW r, NEW i \in r.todo, Shaped(r)
    PROVE  /\ Kin(r, Opened(r, i), {"todo"}, {"target"}) /\ Shaped(Opened(r, i))
           /\ Opened(r, i).todo = r.todo \ {i}
           /\ OneFile(r, Opened(r, i), i, [r.files[i] EXCEPT !.target = r.files[i].name])
<1> DEFINE p == Done(r, i)
           new == [r.files[i] EXCEPT !.target = r.files[i].name]
           q == Opened(r, i)
<1>1. Kin(r, p, {"todo"}, {}) /\ p.todo = r.todo \ {i} /\ Shaped(p) /\ p.files = r.files /\ i \in DOMAIN r.files
  BY DoneIs DEF Shaped
<1>2. q = [p EXCEPT !.files[i].target = r.files[i].name]
  BY DEF Opened
<1> HIDE DEF p, q
<1>3. OneFile(p, q, i, new) /\ Rest(p, q, {}) /\ q.todo = p.todo
  BY <1>1, <1>2 DEF OneFile, Shaped, Fields, Rest
<1>4. FileKin(p.files[i], new, {"target"})
  BY <1>1 DEF Shaped, FileFields, FileKin
<1> HIDE DEF new
<1>5. Kin(p, q, {}, {"target"}) /\ i \in DOMAIN p.files
  BY <1>1, <1>3, <1>4, KinOne
<1>6. Shaped(q)
  BY <1>1, <1>5, KinSame
<1>7. Kin(r, q, {"todo"} \cup {}, {} \cup {"target"})
  BY <1>1, <1>5, KinTrans
<1>8. Kin(r, q, {"todo"}, {"target"})
  BY <1>7, KinWider
<1> QED BY <1>1, <1>3, <1>6, <1>8 DEF OneFile, q, new

\* The file is there and was read: whatever was found, with or without the count.
LEMMA LookedAt ==
    ASSUME NEW old, NEW r, NEW d, NEW i \in r.todo, Stage("verify", old, r, d), r.files[i].name \in DOMAIN d,
           NEW p, Outcome(Opened(r, i), p, d, r.files[i].name),
           NEW q, q = p \/ q = Updated(p)
    PROVE  Stage("verify", old, q, d)
<1> DEFINE o == Opened(r, i)
           D == DOMAIN r.files
           name == r.files[i].name
<1>1. /\ Kin(r, o, {"todo"}, {"target"}) /\ Shaped(o) /\ o.todo = r.todo \ {i} /\ Shaped(r)
      /\ o.files = [r.files EXCEPT ![i] = [r.files[i] EXCEPT !.target = name]] /\ i \in D
  BY OpenedIs DEF OneFile, Stage, Shaped
<1>2. Outcome(o, p, d, name)
  OBVIOUS
<1> HIDE DEF o
<1>3. Kin(o, p, {}, {"complete", "blocks"}) /\ Shaped(p)
  BY <1>1, <1>2, KinSame DEF Outcome
<1>4. Kin(p, q, {"completefilecount"}, {}) /\ Shaped(q) /\ q.files = p.files
  <2>1. CASE q = Updated(p)
    BY <2>1, <1>3, UpdatedIs
  <2>2. CASE q = p
    <3>1. Rest(p, p, {"completefilecount"})
      BY <1>3 DEF Rest, Shaped
    <3> QED BY <2>2, <3>1, <1>3, KinNone
  <2> QED BY <2>1, <2>2
<1>5. Kin(r, q, {"todo", "completefilecount", "finalresult"}, {"target", "complete", "blocks"})
  <2>1. Kin(r, p, {"todo"} \cup {}, {"target"} \cup {"complete", "blocks"})
    BY <1>1, <1>3, KinTrans
  <2>2. Kin(r, q, ({"todo"} \cup {}) \cup {"completefilecount"}, ({"target"} \cup {"complete", "blocks"}) \cup {})
    BY <2>1, <1>4, KinTrans
  <2> QED BY <2>2, KinWider
<1>6. q.todo = r.todo \ {i} /\ q.finalresult = r.finalresult /\ DOMAIN p.files = D /\ DOMAIN o.files = D
  BY <1>1, <1>3, <1>4 DEF Kin, Rest, Fields
<1>7. \A j \in D : q.files[j].target = o.files[j].target
  <2> TAKE j \in D
  <2>1. FileKin(o.files[j], p.files[j], {"complete", "blocks"})
    BY <1>3, <1>6 DEF Kin
  <2> QED BY <2>1, <1>4 DEF FileKin, FileFields
<1>8. /\ o.files[i].target = name
      /\ \A j \in D : j # i => o.files[j].target = r.files[j].target
      /\ \A j \in D : o.files[j].complete = r.files[j].complete /\ o.files[j].content = r.files[j].content
  BY <1>1 DEF Shaped, FileFields
<1>9. \/ \A j \in D : q.files[j].complete = r.files[j].complete
      \/ \E j \in D : /\ r.files[j].content = d[name] /\ q.files[j].complete = name
                      /\ \A k \in D : j # k => q.files[k].complete = r.files[k].complete
  BY <1>2, <1>4, <1>6, <1>8 DEF Outcome
<1>10. ASSUME Regular(q) PROVE RepairInv("verify", old, q, d)
  <2>1. Regular(r)
    BY <1>5, <1>10, KinNames
  <2>2. RepairInv("verify", old, r, d)
    BY <2>1 DEF Stage
  <2>3. q.files[i].target = IF name \in DOMAIN d THEN name ELSE NoName
    BY <1>7, <1>8, <1>1
  <2>4. \A j \in D : j # i => q.files[j].target = r.files[j].target
    BY <1>7, <1>8
  <2>5. \/ \A j \in D : q.files[j].complete = r.files[j].complete
        \/ \E j \in D : /\ name \in DOMAIN d
                        /\ r.files[j].content = d[name] /\ q.files[j].complete = name
                        /\ \A k \in D : j # k => q.files[k].complete = r.files[k].complete
    BY <1>9
  <2> QED BY <1>1, <1>5, <1>6, <2>1, <2>2, <2>3, <2>4, <2>5, TargetVerified
<1> QED BY <1>4, <1>10 DEF Stage

\* The file is not there, or cannot be read, or not be opened.
LEMMA NotLookedAt ==
    ASSUME NEW old, NEW r, NEW d, NEW i \in r.todo, Stage("verify", old, r, d), NEW q,
           \/ q = Done(r, i) /\ r.files[i].name \notin DOMAIN d
           \/ q = [Opened(r, i) EXCEPT !.finalresult = FALSE] /\ r.files[i].name \in DOMAIN d
           \/ q = [Done(r, i) EXCEPT !.unopened = @ \cup {r.files[i].name}]
    PROVE  Stage("verify", old, q, d)
<1> DEFINE o == Opened(r, i)
           p == Done(r, i)
           D == DOMAIN r.files
           name == r.files[i].name
<1>1. Shaped(r) /\ i \in D
  BY DEF Stage, Shaped
<1>2. Kin(r, p, {"todo"}, {}) /\ p.todo = r.todo \ {i} /\ Shaped(p) /\ p.files = r.files
  BY <1>1, DoneIs
<1>3. /\ Kin(r, o, {"todo"}, {"target"}) /\ Shaped(o) /\ o.todo = r.todo \ {i}
      /\ o.files = [r.files EXCEPT ![i] = [r.files[i] EXCEPT !.target = name]]
  BY <1>1, OpenedIs DEF OneFile
<1> HIDE DEF o, p
<1>4. CASE q = [p EXCEPT !.unopened = @ \cup {name}]
  <2>1. Rest(p, q, {"unopened"}) /\ q.files = p.files /\ q.unopened = p.unopened \cup {name}
    BY <1>2, <1>4 DEF Shaped, Rest, Fields
  <2>2. Kin(p, q, {"unopened"}, {})
    BY <2>1, <1>2, KinNone
  <2>3. Shaped(q)
    BY <2>2, <1>2, KinSame
  <2>4. ~Regular(q)
    BY <2>1 DEF Regular
  <2> QED BY <2>3, <2>4 DEF Stage
<1>5. CASE q = p /\ name \notin DOMAIN d
  <2>1. Kin(r, q, {"todo", "completefilecount", "finalresult"}, {"target", "complete", "blocks"})
    BY <1>2, <1>5, KinWider
  <2>2. q.todo = r.todo \ {i} /\ q.finalresult = r.finalresult /\ q.files = r.files
    BY <1>2, <1>5 DEF Kin, Rest, Fields
  <2>3. ASSUME Regular(q) PROVE RepairInv("verify", old, q, d)
    <3>1. Regular(r)
      BY <2>1, <2>3, KinNames
    <3>2. RepairInv("verify", old, r, d)
      BY <3>1 DEF Stage
    <3>3. q.files[i].target = IF name \in DOMAIN d THEN name ELSE NoName
      BY <3>2, <2>2, <1>5 DEF RepairInv, Verifying
    <3> QED BY <1>1, <2>1, <2>2, <3>1, <3>2, <3>3, TargetVerified
  <2> QED BY <2>3, <1>2, <1>5 DEF Stage
<1>6. CASE q = [o EXCEPT !.finalresult = FALSE] /\ name \in DOMAIN d
  <2>1. Rest(o, q, {"finalresult"}) /\ q.files = o.files /\ q.finalresult = FALSE /\ q.todo = o.todo
    BY <1>3, <1>6 DEF Shaped, Rest, Fields
  <2>2. Kin(o, q, {"finalresult"}, {})
    BY <2>1, <1>3, KinNone
  <2>3. Shaped(q)
    BY <2>2, <1>3, KinSame
  <2>4. Kin(r, q, {"todo"} \cup {"finalresult"}, {"target"} \cup {})
    BY <2>2, <1>3, KinTrans
  <2>5. Kin(r, q, {"todo", "completefilecount", "finalresult"}, {"target", "complete", "blocks"})
    BY <2>4, KinWider
  <2>6. /\ q.files[i].target = name
        /\ \A j \in D : j # i => q.files[j].target = r.files[j].target
        /\ \A j \in D : q.files[j].complete = r.files[j].complete
    BY <1>1, <1>3, <2>1 DEF Shaped, FileFields
  <2>7. ASSUME Regular(q) PROVE RepairInv("verify", old, q, d)
    <3>1. Regular(r)
      BY <2>5, <2>7, KinNames
    <3>2. RepairInv("verify", old, r, d)
      BY <3>1 DEF Stage
    <3>3. q.files[i].target = IF name \in DOMAIN d THEN name ELSE NoName
      BY <2>6, <1>6
    <3>4. q.todo = r.todo \ {i}
      BY <2>1, <1>3
    <3> QED BY <1>1, <2>1, <2>5, <2>6, <3>1, <3>2, <3>3, <3>4, TargetVerified
  <2> QED BY <2>3, <2>7, <1>6 DEF Stage
<1> QED BY <1>4, <1>5, <1>6 DEF o, p

\* Every file was looked for, and there were no failures.
LEMMA AllLookedFor ==
    ASSUME NEW old, NEW r, NEW d, Stage("verify", old, r, d), r.todo = {}, r.finalresult
    PROVE  Stage("extras", old, r, d)
<1>1. ASSUME Regular(r) PROVE RepairInv("extras", old, r, d)
  <2>1. RepairInv("verify", old, r, d)
    BY <1>1 DEF Stage
  <2>2. Verifying(r, d) /\ OnDisk(r, d) /\ Kept(old, r, d) /\ Aimed(r)
    BY <2>1 DEF RepairInv
  <2>3. DOMAIN r.files \ r.todo = DOMAIN r.files
    OBVIOUS
  <2>4. {i \in DOMAIN r.files \ r.todo : r.files[i].described} = DOMAIN r.files
    BY <2>2 DEF Verifying
  <2>5. Searching(r, d)
    BY <2>2, <2>3, <2>4 DEF Verifying, Searching
  <2> QED BY <2>2, <2>5 DEF RepairInv
<1> QED BY <1>1 DEF Stage

\* VerifyExtra: the next file is taken.
Taken(r) == [r EXCEPT !.extrafiles = Tail(@)]
LEMMA TakenIs ==
    ASSUME NEW r, Shaped(r), r.extrafiles # <<>>
    PROVE  /\ Kin(r, Taken(r), {"extrafiles"}, {}) /\ Shaped(Taken(r))
           /\ Taken(r).extrafiles = Tail(r.extrafiles) /\ Taken(r).files = r.files
<1> DEFINE q == Taken(r)
<1>1. Rest(r, q, {"extrafiles"}) /\ q.files = r.files /\ q.extrafiles = Tail(r.extrafiles)
  BY DEF Taken, Rest, Shaped, Fields
<1> HIDE DEF q
<1>2. Kin(r, q, {"extrafiles"}, {})
  BY <1>1, KinNone
<1>3. q.todo = r.todo /\ q.verifylist = r.verifylist
  BY <1>1 DEF Rest, Fields
<1>4. IsList(q.extrafiles)
  <2>1. IsList(r.extrafiles)
    BY DEF Shaped
  <2> QED BY <2>1, <1>1, TailIsList
<1>5. /\ IsList(q.verifylist)
      /\ q.todo \subseteq DOMAIN q.files /\ ToSet(q.verifylist) \subseteq DOMAIN q.files
  BY <1>1, <1>3 DEF Shaped
<1>6. Shaped(q)
  BY <1>2, <1>4, <1>5, KinShaped
<1> QED BY <1>1, <1>2, <1>6 DEF q

LEMMA ExtraTaken ==
    ASSUME NEW old, NEW r, NEW d, Stage("extras", old, r, d), r.extrafiles # <<>>, NEW q,
           \/ q = Taken(r)
           \/ \E p : /\ Head(r.extrafiles) \in DOMAIN d
                     /\ \A k \in DOMAIN r.files : r.files[k].target # Head(r.extrafiles)
                     /\ Outcome(Taken(r), p, d, Head(r.extrafiles)) /\ q = Updated(p)
    PROVE  Stage("extras", old, q, d)
<1> DEFINE o == Taken(r)
           D == DOMAIN r.files
           name == Head(r.extrafiles)
<1>1. Shaped(r)
  BY DEF Stage
<1>2. Kin(r, o, {"extrafiles"}, {}) /\ Shaped(o) /\ o.extrafiles = Tail(r.extrafiles) /\ o.files = r.files
  BY <1>1, TakenIs
<1> HIDE DEF o
<1>3. CASE q = o
  <2>1. Kin(r, q, {"extrafiles", "completefilecount"}, {"complete", "blocks"})
    BY <1>2, <1>3, KinWider
  <2>2. ASSUME Regular(q) PROVE RepairInv("extras", old, q, d)
    <3>1. Regular(r)
      BY <2>1, <2>2, KinNames
    <3>2. RepairInv("extras", old, r, d)
      BY <3>1 DEF Stage
    <3>3. q.extrafiles = Tail(r.extrafiles) /\ \A j \in D : q.files[j].complete = r.files[j].complete
      BY <1>2, <1>3
    <3> QED BY <1>1, <2>1, <3>2, <3>3, ExtraVerified
  <2> QED BY <2>2, <1>2, <1>3 DEF Stage
<1>4. ASSUME NEW p, name \in DOMAIN d, \A k \in D : r.files[k].target # name,
             Outcome(o, p, d, name), q = Updated(p)
      PROVE  Stage("extras", old, q, d)
  <2>1. Kin(o, p, {}, {"complete", "blocks"}) /\ Shaped(p)
    BY <1>2, <1>4, KinSame DEF Outcome
  <2>2. Kin(p, q, {"completefilecount"}, {}) /\ Shaped(q) /\ q.files = p.files
    BY <2>1, <1>4, UpdatedIs
  <2>3. Kin(r, p, {"extrafiles"} \cup {}, {} \cup {"complete", "blocks"})
    BY <1>2, <2>1, KinTrans
  <2>4. Kin(r, q, ({"extrafiles"} \cup {}) \cup {"completefilecount"}, ({} \cup {"complete", "blocks"}) \cup {})
    BY <2>3, <2>2, KinTrans
  <2>5. Kin(r, q, {"extrafiles", "completefilecount"}, {"complete", "blocks"})
    BY <2>4, KinWider
  <2>6. q.extrafiles = Tail(r.extrafiles)
    BY <1>2, <2>1, <2>2 DEF Kin, Rest, Fields
  <2>7. \/ \A j \in D : q.files[j].complete = r.files[j].complete
        \/ \E j \in D : /\ name \in DOMAIN d /\ \A k \in D : r.files[k].target # name
                        /\ r.files[j].content = d[name] /\ q.files[j].complete = name
                        /\ \A k \in D : j # k => q.files[k].complete = r.files[k].complete
    BY <1>2, <1>4, <2>2 DEF Outcome
  <2>8. ASSUME Regular(q) PROVE RepairInv("extras", old, q, d)
    <3>1. Regular(r)
      BY <2>5, <2>8, KinNames
    <3>2. RepairInv("extras", old, r, d)
      BY <3>1 DEF Stage
    <3> QED BY <1>1, <2>5, <2>6, <2>7, <3>2, ExtraVerified
  <2> QED BY <2>2, <2>8 DEF Stage
<1> QED BY <1>3, <1>4 DEF o

\* What a repair ends with.
Ending(old, r, d, outcome) ==
    /\ Shaped(r) /\ IsFiniteSet(DOMAIN d)
    /\ Regular(r) => Kept(old, r, d) /\ (outcome = "Success" => Restored(r, d))
LEMMA StageEnds ==
    ASSUME NEW place, NEW old, NEW r, NEW d, NEW outcome, Stage(place, old, r, d), outcome # "Success"
    PROVE  Ending(old, r, d, outcome)
BY DEF Stage, RepairInv, Ending

\* The files are counted.
LEMMA Counted ==
    ASSUME NEW old, NEW r, NEW d, Stage("extras", old, r, d),
           NEW q, Rest(Updated(r), q, {}), q.files = Updated(r).files
    PROVE  /\ Stage("rename", old, q, d)
           /\ q.completefilecount = Len(q.files) => Ending(old, q, d, "Success")
<1> DEFINE p == Updated(r)
<1>1. /\ Kin(r, p, {"completefilecount"}, {}) /\ Shaped(p) /\ p.files = r.files
      /\ p.completefilecount = CompleteCount(p) /\ Shaped(r)
  BY UpdatedIs DEF Stage
<1> HIDE DEF p
<1>2. Kin(p, q, {}, {})
  BY <1>1, KinNone DEF p
<1>3. Shaped(q)
  BY <1>1, <1>2, KinSame
<1>4. Kin(r, q, {"completefilecount"} \cup {}, {} \cup {})
  BY <1>1, <1>2, KinTrans
<1>5. Kin(r, q, {"completefilecount"}, {})
  BY <1>4, KinWider
<1>6. /\ q.files = r.files /\ q.verifylist = r.verifylist /\ q.copyblocks = r.copyblocks
      /\ q.outputblocks = r.outputblocks /\ q.completefilecount = p.completefilecount
  BY <1>1, <1>2, <1>5 DEF Kin, Rest, Fields, p
<1>7. q.completefilecount = CompleteCount(q)
  BY <1>1, <1>6 DEF CompleteCount
<1>8. ASSUME Regular(q) PROVE RepairInv("rename", old, q, d)
  <2>1. Regular(r)
    BY <1>5, <1>8, KinNames
  <2>2. Searching(r, d) /\ OnDisk(r, d) /\ Kept(old, r, d) /\ Aimed(r)
    BY <2>1 DEF Stage, RepairInv
  <2>3. OnDisk(q, d)
    BY <2>2, <1>6 DEF OnDisk
  <2>4. Made(q) = Made(r)
    BY <1>6 DEF Made
  <2>5. Kept(old, q, d)
    BY <2>2, <2>4 DEF Kept
  <2>6. Aimed(q)
    BY <2>2, <2>4, <1>6 DEF Aimed, AimedAt
  <2>7. Moving(q, d)
    BY <2>2, <1>6, <1>7 DEF Searching, Moving, Apart, Absent
  <2> QED BY <2>3, <2>5, <2>6, <2>7 DEF RepairInv
<1>9. Stage("rename", old, q, d)
  BY <1>3, <1>8 DEF Stage
<1>10. ASSUME q.completefilecount = Len(q.files) PROVE Ending(old, q, d, "Success")
  <2>1. ASSUME Regular(q) PROVE Kept(old, q, d) /\ Restored(q, d)
    <3>1. OnDisk(q, d) /\ Kept(old, q, d)
      BY <2>1, <1>8 DEF RepairInv
    <3> QED BY <3>1, <1>3, <1>7, <1>10, AllComplete
  <2> QED BY <2>1, <1>9 DEF Stage, Ending
<1> QED BY <1>9, <1>10

\* The first of some files is one of them.
LEMMA FirstIs ==
    ASSUME NEW r, Shaped(r), NEW likes, likes \subseteq DOMAIN r.files, likes # {}
    PROVE  Min(likes) \in likes
<1>1. IsList(r.files)
  BY DEF Shaped
<1>2. likes \in SUBSET Nat
  BY <1>1, ListFacts
<1> QED BY <1>2, MinIsIn

LEMMA FiniteRename ==
    ASSUME NEW d, NEW from, NEW to, IsFiniteSet(DOMAIN d)
    PROVE  IsFiniteSet(DOMAIN Rename(d, from, to))
<1>1. DOMAIN Rename(d, from, to) = (DOMAIN d \ {from}) \cup {to}
  BY DEF Rename, Put, Delete, DeleteAll
<1>2. IsFiniteSet(DOMAIN d \ {from})
  BY FS_RemoveElement
<1>3. IsFiniteSet((DOMAIN d \ {from}) \cup {to})
  BY <1>2, FS_AddElement
<1> QED BY <1>1, <1>3

LEMMA DamagedStage ==
    ASSUME NEW old, NEW r, NEW d, NEW i \in DOMAIN r.files, Stage("rename", old, r, d), Damaged(r.files[i])
    PROVE  LET from == r.files[i].target
               to == NewName(d, from)
           IN  Stage("rename", old, Moved(r, from, to, i, NoName), Rename(d, from, to))
<1> DEFINE from == r.files[i].target
           to == NewName(d, from)
           e == Rename(d, from, to)
           q == Moved(r, from, to, i, NoName)
<1>1. Shaped(r) /\ IsFiniteSet(DOMAIN d)
  BY DEF Stage
<1>2. IsFiniteSet(DOMAIN e)
  BY <1>1, FiniteRename
<1>3. Kin(r, q, {}, {"target", "complete", "blocks"})
  BY <1>1, MovedIs
<1> SUFFICES Stage("rename", old, q, e)
  OBVIOUS
<1>4. ASSUME Regular(r) PROVE RepairInv("rename", old, q, e)
  <2>1. RepairInv("rename", old, r, d)
    BY <1>4 DEF Stage
  <2> PICK f : f = from
    OBVIOUS
  <2> PICK t : t = to
    OBVIOUS
  <2> PICK e1 : e1 = e
    OBVIOUS
  <2> PICK q1 : q1 = q
    OBVIOUS
  <2>2. f = r.files[i].target /\ t = NewName(d, f) /\ e1 = Rename(d, f, t) /\ q1 = Moved(r, f, t, i, NoName)
    OBVIOUS
  <2> HIDE DEF from, to, e, q
  <2>3. RepairInv("rename", old, q1, e1)
    BY <1>1, <1>4, <2>1, <2>2, DamagedRenamed
  <2> QED BY <2>3
<1> HIDE DEF e, q
<1>5. Shaped(q) /\ (Regular(q) <=> Regular(r))
  BY <1>1, <1>3, KinSame, KinNames
<1> QED BY <1>2, <1>4, <1>5 DEF Stage

LEMMA MisnamedStage ==
    ASSUME NEW old, NEW r, NEW d, NEW i \in DOMAIN r.files, Stage("rename", old, r, d), Misnamed(r.files[i]),
           \A j \in DOMAIN r.files : ~Damaged(r.files[j])
    PROVE  LET from == r.files[i].complete
               to == r.files[i].name
           IN  \A q : /\ Rest(Moved(r, from, to, i, to), q, {"completefilecount"})
                      /\ q.files = Moved(r, from, to, i, to).files
                      /\ q.completefilecount = r.completefilecount + 1
                      => Stage("rename", old, q, Rename(d, from, to))
<1> PICK from : from = r.files[i].complete
  OBVIOUS
<1> PICK to : to = r.files[i].name
  OBVIOUS
<1> PICK e : e = Rename(d, from, to)
  OBVIOUS
<1> PICK p : p = Moved(r, from, to, i, to)
  OBVIOUS
<1> SUFFICES ASSUME NEW q, Rest(p, q, {"completefilecount"}), q.files = p.files,
                    q.completefilecount = r.completefilecount + 1
             PROVE  Stage("rename", old, q, e)
  OBVIOUS
<1>1. Shaped(r) /\ IsFiniteSet(DOMAIN d)
  BY DEF Stage
<1>2. IsFiniteSet(DOMAIN e)
  BY <1>1, FiniteRename
<1>3. Kin(r, p, {}, {"target", "complete", "blocks"})
  BY <1>1, MovedIs
<1>4. Shaped(p) /\ (Regular(p) <=> Regular(r))
  BY <1>1, <1>3, KinSame, KinNames
<1>5. Kin(p, q, {"completefilecount"}, {})
  BY <1>4, KinNone
<1>6. Shaped(q) /\ (Regular(q) <=> Regular(p))
  BY <1>4, <1>5, KinSame, KinNames
<1>7. ASSUME Regular(r) PROVE RepairInv("rename", old, q, e)
  <2>1. RepairInv("rename", old, r, d)
    BY <1>7 DEF Stage
  <2> QED BY <1>1, <1>5, <1>7, <2>1, MisnamedRenamed
<1> QED BY <1>2, <1>4, <1>6, <1>7 DEF Stage

LEMMA RenamedStage ==
    ASSUME NEW old, NEW r, NEW d, Stage("rename", old, r, d),
           \A i \in DOMAIN r.files : ~Damaged(r.files[i]) /\ ~Misnamed(r.files[i])
    PROVE  /\ Stage("targets", old, r, d)
           /\ r.completefilecount = Len(r.files) => Ending(old, r, d, "Success")
<1>1. ASSUME Regular(r) PROVE RepairInv("rename", old, r, d) /\ RepairInv("targets", old, r, d)
  <2>1. RepairInv("rename", old, r, d)
    BY <1>1 DEF Stage
  <2> QED BY <2>1, RenamingDone
<1>2. ASSUME r.completefilecount = Len(r.files), Regular(r) PROVE Kept(old, r, d) /\ Restored(r, d)
  <2>1. OnDisk(r, d) /\ Kept(old, r, d) /\ CompleteCount(r) = Len(r.files)
    BY <1>1, <1>2 DEF RepairInv, Moving
  <2>2. Shaped(r)
    BY DEF Stage
  <2> QED BY <2>1, <2>2, AllComplete
<1> QED BY <1>1, <1>2 DEF Stage, Ending

LEMMA CreatedStage ==
    ASSUME NEW old, NEW r, NEW d, NEW i \in DOMAIN r.files, Stage("targets", old, r, d),
           r.files[i].target = NoName,
           NEW e, Added(d, e, r.files[i].name),
           NEW targets, DOMAIN targets = 1 .. BlockCount(r, i),
           \A k \in DOMAIN targets : IsSet(targets[k]) => targets[k].file = r.files[i].name,
           NEW q, Begun(r, q, i, targets)
    PROVE  Stage("targets", old, q, e)
<1>1. Shaped(r) /\ IsFiniteSet(DOMAIN d) /\ DOMAIN targets = DOMAIN r.files[i].targets
  BY DEF Stage, Shaped
<1>2. IsFiniteSet(DOMAIN e)
  <2>1. IsFiniteSet(DOMAIN d \cup {r.files[i].name})
    BY <1>1, FS_AddElement
  <2> QED BY <2>1 DEF Added
<1>3. Shaped(q) /\ (Regular(q) <=> Regular(r))
  BY <1>1, TargetShaped
<1>4. ASSUME Regular(r) PROVE RepairInv("targets", old, q, e)
  <2>1. RepairInv("targets", old, r, d)
    BY <1>4 DEF Stage
  <2> QED BY <1>1, <1>4, <2>1, TargetCreated
<1> QED BY <1>2, <1>3, <1>4 DEF Stage

\* It was not created.
LEMMA CreationEnds ==
    ASSUME NEW old, NEW r, NEW d, NEW i \in DOMAIN r.files, Stage("targets", old, r, d),
           r.files[i].target = NoName,
           NEW e \in CreateFailures(d, r.files[i].name), NEW outcome, outcome # "Success"
    PROVE  Ending(old, r, e, outcome)
<1>1. Shaped(r) /\ IsFiniteSet(DOMAIN d)
  BY DEF Stage
<1>2. IsFiniteSet(DOMAIN e)
  <2>1. IsFiniteSet(DOMAIN d \ {r.files[i].name})
    BY <1>1, FS_RemoveElement
  <2>2. DOMAIN e = DOMAIN d \/ DOMAIN e = DOMAIN d \ {r.files[i].name}
    BY DEF CreateFailures, Delete, DeleteAll
  <2> QED BY <1>1, <2>1, <2>2
<1>3. ASSUME Regular(r) PROVE Kept(old, r, e)
  <2>1. RepairInv("targets", old, r, d)
    BY <1>3 DEF Stage
  <2>2. r.files[i].name \notin DOMAIN d /\ Kept(old, r, d)
    BY <2>1 DEF RepairInv, Absent
  <2>3. SameDisk(d, e)
    BY <2>2, CreateFails DEF SameDisk
  <2> QED BY <2>2, <2>3, KeptSame
<1> QED BY <1>1, <1>2, <1>3 DEF Ending

\* What is to be copied and computed is known.
Planned(r, q, slots) ==
    /\ Rest(r, q, {"copyblocks", "outputblocks"}) /\ q.files = r.files
    /\ \A n \in DOMAIN slots : /\ slots[n][1] \in DOMAIN r.files
                              /\ slots[n][2] \in DOMAIN r.files[slots[n][1]].blocks
    /\ \A n \in DOMAIN q.copyblocks :
         n \in DOMAIN slots /\ q.copyblocks[n][2] = r.files[slots[n][1]].targets[slots[n][2]]
    /\ \A n \in DOMAIN q.outputblocks :
         n \in DOMAIN slots /\ q.outputblocks[n] = r.files[slots[n][1]].targets[slots[n][2]]
LEMMA PlannedStage ==
    ASSUME NEW old, NEW r, NEW d, Stage("targets", old, r, d), NEW q, NEW slots, Planned(r, q, slots)
    PROVE  Stage("buffers", old, q, d) /\ Stage("delete", old, q, d)
<1>1. Shaped(r) /\ IsFiniteSet(DOMAIN d)
  BY DEF Stage
<1>2. Kin(r, q, {"copyblocks", "outputblocks"}, {}) /\ q.files = r.files
  BY <1>1, KinNone DEF Planned
<1>3. Shaped(q) /\ (Regular(q) <=> Regular(r))
  BY <1>1, <1>2, KinSame, KinNames
<1>4. ASSUME Regular(r) PROVE RepairInv("buffers", old, q, d) /\ RepairInv("delete", old, q, d)
  <2>1. Making(r) /\ OnDisk(r, d) /\ Kept(old, r, d) /\ Aimed(r)
    BY <1>4 DEF Stage, RepairInv
  <2>2. q.verifylist = r.verifylist /\ q.completefilecount = r.completefilecount
    BY <1>2 DEF Kin, Rest, Fields
  <2>3. Made(q) = Made(r) /\ \A b : AimedAt(b, q) <=> AimedAt(b, r)
    BY <1>2, <2>2 DEF Made, AimedAt
  <2>4. \A n \in DOMAIN slots : AimedAt(r.files[slots[n][1]].targets[slots[n][2]], r)
    BY <1>1, <2>1 DEF Shaped, Aimed, Planned
  <2>5. /\ \A n \in DOMAIN q.copyblocks : AimedAt(q.copyblocks[n][2], q)
        /\ \A n \in DOMAIN q.outputblocks : AimedAt(q.outputblocks[n], q)
    BY <2>3, <2>4 DEF Planned
  <2>6. Aimed(q)
    BY <1>2, <2>1, <2>2, <2>3, <2>5 DEF Aimed
  <2>7. OnDisk(q, d)
    BY <1>2, <2>1 DEF OnDisk
  <2>8. Kept(old, q, d)
    BY <2>1, <2>3 DEF Kept
  <2>9. Making(q)
    BY <1>2, <2>1, <2>2 DEF Making, CompleteCount
  <2> QED BY <2>6, <2>7, <2>8, <2>9 DEF RepairInv
<1> QED BY <1>1, <1>3, <1>4 DEF Stage

\* Something that the invariant does not tell apart is set.
LEMMA SetStage ==
    ASSUME NEW old, NEW r, NEW d, NEW q, Rest(r, q, {}), q.files = r.files
    PROVE  /\ Stage("buffers", old, r, d) => Stage("recover", old, q, d)
           /\ Stage("recover", old, r, d) => Stage("recover", old, q, d)
<1> SUFFICES ASSUME Stage("recover", old, r, d) PROVE Stage("recover", old, q, d)
  BY DEF Stage, RepairInv
<1>1. Shaped(r) /\ IsFiniteSet(DOMAIN d)
  BY DEF Stage
<1>2. Kin(r, q, {}, {})
  BY <1>1, KinNone
<1>3. Shaped(q) /\ (Regular(q) <=> Regular(r))
  BY <1>1, <1>2, KinSame, KinNames
<1>4. ASSUME Regular(r) PROVE RepairInv("recover", old, q, d)
  <2>1. Making(r) /\ OnDisk(r, d) /\ Kept(old, r, d) /\ Aimed(r)
    BY <1>4 DEF Stage, RepairInv
  <2>2. /\ q.verifylist = r.verifylist /\ q.completefilecount = r.completefilecount
        /\ q.copyblocks = r.copyblocks /\ q.outputblocks = r.outputblocks
    BY <1>2 DEF Kin, Rest, Fields
  <2>3. Made(q) = Made(r) /\ \A b : AimedAt(b, q) <=> AimedAt(b, r)
    BY <2>2 DEF Made, AimedAt
  <2>4. Aimed(q)
    BY <2>1, <2>2, <2>3 DEF Aimed
  <2>5. OnDisk(q, d)
    BY <2>1 DEF OnDisk
  <2>6. Kept(old, q, d)
    BY <2>1, <2>3 DEF Kept
  <2>7. Making(q)
    BY <2>1, <2>2 DEF Making, CompleteCount
  <2> QED BY <2>4, <2>5, <2>6, <2>7 DEF RepairInv
<1> QED BY <1>1, <1>3, <1>4 DEF Stage

\* A chunk is written, or some of it, or nothing.
LEMMA WrittenStage ==
    ASSUME NEW old, NEW r, NEW d, Stage("recover", old, r, d), NEW e,
           DOMAIN e = DOMAIN d, Regular(r) => Spared(d, e, Made(r))
    PROVE  Stage("recover", old, r, e) /\ Stage("delete", old, r, e) /\ Stage("reverify", old, r, e)
<1>1. ASSUME Regular(r) PROVE RepairInv("recover", old, r, e)
  <2>1. Shaped(r) /\ Ordinary(r.files) /\ RepairInv("recover", old, r, d) /\ Spared(d, e, Made(r))
    BY <1>1 DEF Stage, Regular
  <2>2. Making(r) /\ OnDisk(r, d) /\ Kept(old, r, d) /\ Aimed(r)
    BY <2>1 DEF RepairInv
  <2>3. Kept(old, r, e) /\ OnDisk(r, e)
    BY <2>1, <2>2, WritingSpares
  <2> QED BY <2>2, <2>3 DEF RepairInv
<1>2. RepairInv("recover", old, r, e) => RepairInv("delete", old, r, e) /\ RepairInv("reverify", old, r, e)
  BY DEF RepairInv, Making, Rechecking
<1> QED BY <1>1, <1>2 DEF Stage

\* VerifyTargetFiles: what was known of the file is forgotten.
Forgotten(r, i) == [r EXCEPT !.files[i].complete = NoName, !.todo = @ \cup {i},
                       !.files[i].blocks = [k \in DOMAIN @ |-> NoBlock]]
LEMMA ForgottenIs ==
    ASSUME NEW r, NEW i \in DOMAIN r.files, Shaped(r)
    PROVE  /\ Kin(r, Forgotten(r, i), {"todo"}, {"complete", "blocks"}) /\ Shaped(Forgotten(r, i))
           /\ \A j \in DOMAIN r.files :
                Forgotten(r, i).files[j].complete = IF j = i THEN NoName ELSE r.files[j].complete
<1> DEFINE q == Forgotten(r, i)
           blocks == [k \in DOMAIN r.files[i].blocks |-> NoBlock]
           new == [r.files[i] EXCEPT !.complete = NoName, !.blocks = blocks]
<1>1. /\ FileFields \subseteq DOMAIN r.files[i] /\ DOMAIN blocks = DOMAIN r.files[i].blocks
      /\ Fields \subseteq DOMAIN r
  BY DEF Shaped
<1>2. q = [r EXCEPT !.files[i].complete = NoName, !.todo = @ \cup {i}, !.files[i].blocks = blocks]
  BY <1>1 DEF Forgotten, FileFields, Fields
<1> HIDE DEF q, blocks
<1>3. FileKin(r.files[i], new, {"complete", "blocks"}) /\ new.complete = NoName
  BY <1>1 DEF Shaped, FileFields, FileKin
<1>4. Rest(r, q, {"todo"}) /\ q.todo = r.todo \cup {i} /\ OneFile(r, q, i, new)
  BY <1>1, <1>2 DEF Fields, FileFields, Rest, OneFile
<1> HIDE DEF new
<1>5. Kin(r, q, {"todo"}, {"complete", "blocks"})
  BY <1>3, <1>4, KinOne
<1>6. /\ q.extrafiles = r.extrafiles /\ q.verifylist = r.verifylist /\ DOMAIN q.files = DOMAIN r.files
      /\ q.files[i] = new /\ \A j \in DOMAIN r.files : j # i => q.files[j] = r.files[j]
  BY <1>4 DEF Rest, Fields, OneFile
<1>7. /\ IsList(q.extrafiles) /\ IsList(q.verifylist)
      /\ q.todo \subseteq DOMAIN q.files /\ ToSet(q.verifylist) \subseteq DOMAIN q.files
  BY <1>4, <1>6 DEF Shaped
<1>8. Shaped(q)
  BY <1>5, <1>7, KinShaped
<1> QED BY <1>3, <1>5, <1>6, <1>8 DEF q

\* One of the files that were created was looked at again.
LEMMA FileRechecked ==
    ASSUME NEW old, NEW r, NEW d, NEW q, Shaped(r), RepairInv("reverify", old, r, d),
           Kin(r, q, {"todo", "completefilecount", "finalresult"}, {"complete", "blocks"}),
           \A j \in DOMAIN r.files :
             \/ q.files[j].complete \in {NoName, r.files[j].complete}
             \/ q.files[j].complete \in DOMAIN d /\ d[q.files[j].complete] = r.files[j].content,
           Rechecking(q)
    PROVE  RepairInv("reverify", old, q, d)
<1> DEFINE D == DOMAIN r.files
<1>1. OnDisk(r, d) /\ Kept(old, r, d) /\ Aimed(r)
  BY DEF RepairInv
<1>2. DOMAIN q.files = D /\ ToSet(r.verifylist) \subseteq D
  BY DEF Kin, Rest, Fields, Shaped
<1>3. \A j \in D : /\ q.files[j].name = r.files[j].name /\ q.files[j].content = r.files[j].content
                   /\ q.files[j].target = r.files[j].target
  BY DEF Kin, FileKin, FileFields
<1>4. OnDisk(q, d)
  BY <1>1, <1>2, <1>3 DEF OnDisk
<1>5. Kept(old, q, d)
  BY <1>1, MadeSame
<1>6. Aimed(q)
  <2>1. \A j \in ToSet(r.verifylist) : q.files[j].target # NoName
    BY <1>1, <1>2, <1>3 DEF Aimed
  <2> QED BY <2>1, <1>1, AimedSame
<1> QED BY <1>4, <1>5, <1>6 DEF RepairInv

LEMMA RecheckedStage ==
    ASSUME NEW old, NEW r, NEW d, Stage("reverify", old, r, d), NEW i \in ToSet(r.verifylist), NEW q,
           \/ q = [Forgotten(r, i) EXCEPT !.finalresult = FALSE]
           \/ \E p : Outcome(Forgotten(r, i), p, d, r.files[i].target) /\ q = Updated(p)
    PROVE  Stage("reverify", old, q, d)
<1> DEFINE o == Forgotten(r, i)
           D == DOMAIN r.files
<1>1. Shaped(r) /\ IsFiniteSet(DOMAIN d) /\ i \in D
  BY DEF Stage, Shaped
<1>2. /\ Kin(r, o, {"todo"}, {"complete", "blocks"}) /\ Shaped(o)
      /\ \A j \in D : o.files[j].complete = IF j = i THEN NoName ELSE r.files[j].complete
  BY <1>1, ForgottenIs
<1> HIDE DEF o
<1>3. DOMAIN o.files = D /\ \A j \in D : o.files[j].content = r.files[j].content
  BY <1>2, KinNames
<1>4. CASE q = [o EXCEPT !.finalresult = FALSE]
  <2>1. Rest(o, q, {"finalresult"}) /\ q.files = o.files /\ q.finalresult = FALSE
    BY <1>2, <1>4 DEF Shaped, Rest, Fields
  <2>2. Kin(o, q, {"finalresult"}, {})
    BY <2>1, <1>2, KinNone
  <2>3. Shaped(q)
    BY <2>2, <1>2, KinSame
  <2>4. Kin(r, q, {"todo"} \cup {"finalresult"}, {"complete", "blocks"} \cup {})
    BY <2>2, <1>2, KinTrans
  <2>5. Kin(r, q, {"todo", "completefilecount", "finalresult"}, {"complete", "blocks"})
    BY <2>4, KinWider
  <2>6. Rechecking(q)
    BY <2>1 DEF Rechecking
  <2>7. ASSUME Regular(q) PROVE RepairInv("reverify", old, q, d)
    <3>1. Regular(r)
      BY <2>5, <2>7, KinNames
    <3>2. RepairInv("reverify", old, r, d)
      BY <3>1 DEF Stage
    <3>3. \A j \in D : q.files[j].complete \in {NoName, r.files[j].complete}
      BY <1>2, <2>1
    <3> QED BY <1>1, <2>5, <2>6, <3>2, <3>3, FileRechecked
  <2> QED BY <2>3, <2>7, <1>1 DEF Stage
<1>5. ASSUME NEW p, Outcome(o, p, d, r.files[i].target), q = Updated(p)
      PROVE  Stage("reverify", old, q, d)
  <2>1. Kin(o, p, {}, {"complete", "blocks"}) /\ Shaped(p)
    BY <1>2, <1>5, KinSame DEF Outcome
  <2>2. /\ Kin(p, q, {"completefilecount"}, {}) /\ Shaped(q) /\ q.files = p.files
        /\ q.completefilecount = CompleteCount(q)
    BY <2>1, <1>5, UpdatedIs
  <2>3. Kin(r, p, {"todo"} \cup {}, {"complete", "blocks"} \cup {"complete", "blocks"})
    BY <1>2, <2>1, KinTrans
  <2>4. Kin(r, q, ({"todo"} \cup {}) \cup {"completefilecount"},
                  ({"complete", "blocks"} \cup {"complete", "blocks"}) \cup {})
    BY <2>3, <2>2, KinTrans
  <2>5. Kin(r, q, {"todo", "completefilecount", "finalresult"}, {"complete", "blocks"})
    BY <2>4, KinWider
  <2>6. Rechecking(q)
    BY <2>2 DEF Rechecking
  <2>7. ASSUME Regular(q) PROVE RepairInv("reverify", old, q, d)
    <3>1. Regular(r)
      BY <2>5, <2>7, KinNames
    <3>2. RepairInv("reverify", old, r, d)
      BY <3>1 DEF Stage
    <3>3. r.files[i].target \in DOMAIN d
      BY <3>2, <1>1 DEF RepairInv, Aimed, OnDisk
    <3>4. ASSUME NEW j \in D
          PROVE  \/ q.files[j].complete \in {NoName, r.files[j].complete}
                 \/ q.files[j].complete \in DOMAIN d /\ d[q.files[j].complete] = r.files[j].content
      <4>1. \/ p.files[j].complete = o.files[j].complete
            \/ p.files[j].complete = r.files[i].target /\ o.files[j].content = d[r.files[i].target]
        BY <1>3, <1>5, <3>4 DEF Outcome
      <4> QED BY <4>1, <3>3, <1>2, <1>3, <2>2
    <3> QED BY <1>1, <2>5, <2>6, <3>2, <3>4, FileRechecked
  <2> QED BY <2>2, <2>7, <1>1 DEF Stage
<1> QED BY <1>4, <1>5 DEF o

\* All of them were: the result is that of the count.
LEMMA RecheckedEnds ==
    ASSUME NEW old, NEW r, NEW d, Stage("reverify", old, r, d), NEW outcome,
           outcome = "Success" => r.finalresult /\ ~(r.completefilecount < Len(r.files))
    PROVE  Ending(old, r, d, outcome)
<1>1. Shaped(r) /\ IsFiniteSet(DOMAIN d)
  BY DEF Stage
<1>2. ASSUME Regular(r) PROVE Kept(old, r, d) /\ (outcome = "Success" => Restored(r, d))
  <2>1. RepairInv("reverify", old, r, d)
    BY <1>2 DEF Stage
  <2>2. OnDisk(r, d) /\ Kept(old, r, d) /\ Rechecking(r)
    BY <2>1 DEF RepairInv
  <2>3. ASSUME outcome = "Success" PROVE Restored(r, d)
    <3>1. ~(CompleteCount(r) < Len(r.files))
      BY <2>2, <2>3 DEF Rechecking
    <3>2. IsList(r.files)
      BY <1>1 DEF Shaped
    <3>3. CompleteCount(r) \in Nat /\ CompleteCount(r) <= Len(r.files) /\ Len(r.files) \in Nat
      BY <3>2, CompleteCountIs, ListFacts
    <3>4. CompleteCount(r) = Len(r.files)
      BY <3>1, <3>3
    <3> QED BY <1>1, <2>2, <3>4, AllComplete
  <2> QED BY <2>2, <2>3
<1> QED BY <1>1, <1>2 DEF Ending

\* The files that were created are deleted.
LEMMA DeletionEnds ==
    ASSUME NEW old, NEW r, NEW d, Stage("delete", old, r, d), NEW outcome, outcome # "Success",
           NEW q, Rest(r, q, {}),
           q.files = [i \in DOMAIN r.files |-> IF Contains(r.verifylist, i)
                        THEN [r.files[i] EXCEPT !.target = NoName] ELSE r.files[i]]
    PROVE  Ending(old, q, DeleteAll(d, Targets(r, ToSet(r.verifylist))), outcome)
<1> DEFINE e == DeleteAll(d, Targets(r, ToSet(r.verifylist)))
           D == DOMAIN r.files
<1>1. Shaped(r) /\ IsFiniteSet(DOMAIN d) /\ ToSet(r.verifylist) \subseteq D
  BY DEF Stage, Shaped
<1>2. DOMAIN e = DOMAIN d \ Targets(r, ToSet(r.verifylist)) /\ \A name \in DOMAIN e : e[name] = d[name]
  BY DEF DeleteAll
<1> HIDE DEF e
<1>3. IsFiniteSet(DOMAIN e)
  <2>1. DOMAIN e \subseteq DOMAIN d
    BY <1>2
  <2> QED BY <2>1, <1>1, FS_Subset
<1>4. q.files = [i \in D |-> q.files[i]]
  OBVIOUS
<1>5. ASSUME NEW i \in D PROVE FileKin(r.files[i], q.files[i], {"target"})
  <2>1. FileFields \subseteq DOMAIN r.files[i]
    BY <1>1 DEF Shaped
  <2>2. q.files[i] = r.files[i] \/ q.files[i] = [r.files[i] EXCEPT !.target = NoName]
    OBVIOUS
  <2> QED BY <2>1, <2>2 DEF FileKin, FileFields
<1>6. Kin(r, q, {}, {"target"})
  BY <1>1, <1>4, <1>5, KinIs
<1>7. Shaped(q) /\ (Regular(q) <=> Regular(r))
  BY <1>1, <1>6, KinSame, KinNames
<1>8. Made(q) = Made(r)
  BY <1>1, <1>6, MadeSame
<1>9. ASSUME Regular(r) PROVE Kept(old, q, e)
  <2>1. RepairInv("delete", old, r, d)
    BY <1>9 DEF Stage
  <2>2. OnDisk(r, d) /\ Kept(old, r, d) /\ Aimed(r)
    BY <2>1 DEF RepairInv
  <2>3. \A i \in ToSet(r.verifylist) : r.files[i].target = r.files[i].name
    BY <1>1, <2>2 DEF OnDisk, Aimed
  <2>4. Targets(r, ToSet(r.verifylist)) \subseteq Made(r)
    BY <2>3 DEF Targets, Made
  <2> QED BY <1>2, <1>8, <2>2, <2>4 DEF Kept
<1> QED BY <1>3, <1>7, <1>9 DEF Ending, e

\* The files of the set as they are before any is looked at.
Fresh(r, i) ==
    LET file == r.files[i] IN
    /\ FileFields \subseteq DOMAIN file /\ file.target = NoName /\ file.complete = NoName
    /\ DOMAIN file.blocks = 1 .. BlockCount(r, i)
    /\ file.targets = [k \in 1 .. BlockCount(r, i) |-> NoBlock]
LEMMA LoadedStage ==
    ASSUME NEW old, NEW r, NEW d, Stage("load", old, r, d), Once(r.extrafiles),
           r.files = <<>>, r.verifylist = <<>>, r.copyblocks = <<>>, r.outputblocks = <<>>,
           NEW q, Rest(r, q, {"blocksize", "todo", "finalresult"}),
           IsList(q.files), \A i \in DOMAIN q.files : Fresh(q, i), q.todo \subseteq DOMAIN q.files,
           \A i \in DOMAIN q.files \ q.todo : ~q.files[i].described,
           q.finalresult => \A i \in DOMAIN q.files : q.files[i].described
    PROVE  Stage("verify", old, q, d)
<1> DEFINE D == DOMAIN q.files
<1>1. /\ q.verifylist = <<>> /\ q.copyblocks = <<>> /\ q.outputblocks = <<>>
      /\ q.extrafiles = r.extrafiles /\ q.unopened = r.unopened /\ Fields \subseteq DOMAIN q
  BY DEF Rest, Fields
<1>2. /\ Shaped(r) /\ IsFiniteSet(DOMAIN d) /\ IsList(q.extrafiles)
      /\ DOMAIN q.verifylist = {} /\ ToSet(q.verifylist) = {}
  BY <1>1 DEF Stage, Shaped, ToSet
<1>3. \A i \in D : /\ FileFields \subseteq DOMAIN q.files[i]
                   /\ q.files[i].target = NoName /\ q.files[i].complete = NoName
                   /\ DOMAIN q.files[i].blocks = 1 .. BlockCount(q, i)
                   /\ DOMAIN q.files[i].targets = 1 .. BlockCount(q, i)
                   /\ \A k \in DOMAIN q.files[i].targets : ~IsSet(q.files[i].targets[k])
  <2> TAKE i \in D
  <2>1. Fresh(q, i)
    OBVIOUS
  <2>2. q.files[i].targets = [k \in 1 .. BlockCount(q, i) |-> NoBlock]
    BY <2>1 DEF Fresh
  <2>3. /\ DOMAIN q.files[i].targets = 1 .. BlockCount(q, i)
        /\ \A k \in DOMAIN q.files[i].targets : q.files[i].targets[k] = NoBlock
    BY ONLY <2>2
  <2>4. ~IsSet(NoBlock)
    BY DEF IsSet, NoBlock
  <2> QED BY <2>1, <2>3, <2>4 DEF Fresh
<1>4. IsList(q.verifylist)
  BY <1>1, <1>2 DEF Shaped
<1>5. Shaped(q)
  BY <1>1, <1>2, <1>3, <1>4 DEF Shaped
<1>6. ASSUME Regular(q) PROVE RepairInv("verify", old, q, d)
  <2>1. Regular(r)
    BY <1>1, <1>6 DEF Regular, Ordinary
  <2>2. Kept(old, r, d)
    BY <2>1 DEF Stage, RepairInv
  <2>3. Kept(old, q, d)
    BY <2>2, <1>1, <1>2 DEF Kept, Made
  <2>4. OnDisk(q, d)
    BY <1>3 DEF OnDisk
  <2>5. Aimed(q)
    BY <1>1, <1>2, <1>3 DEF Aimed, AimedAt
  <2>6. Apart(q) /\ Completes(q) = {}
    BY <1>3 DEF Apart, Completes
  <2>7. Absent(q, d, {i \in D \ q.todo : q.files[i].described})
    BY DEF Absent
  <2>8. Verifying(q, d)
    BY <1>1, <1>3, <2>6, <2>7 DEF Verifying
  <2> QED BY <2>3, <2>4, <2>5, <2>8 DEF RepairInv
<1> QED BY <1>2, <1>5, <1>6 DEF Stage

-----------------------------------------------------------------------------
(* The actions of a repair *)

\* A step of a repair leads to a stage, or to the end.
Onward ==
    \/ at' \in RepairPlaces \ {"load"} /\ Stage(at', before, repairer', disk')
    \/ at' = "end" /\ Ending(before, repairer', disk', result')

LEMMA StageNow ==
    ASSUME IInv, at \in RepairPlaces
    PROVE  /\ Stage(at, before, repairer, disk) /\ Shaped(repairer) /\ IsList(repairer.files)
           /\ ~Creating(commandline)
BY DEF IInv, Stage, Placed, Shaped

LEMMA OnwardKeeps ==
    ASSUME IInv, at \in RepairPlaces, Onward,
           UNCHANGED <<args, commandline, lines, before, creator, set>>
    PROVE  IInv'
<1>1. ~Creating(commandline) /\ Worded /\ Sets
  BY StageNow DEF IInv
<1>2. at' \in (RepairPlaces \ {"load"}) \cup {"end"}
  BY DEF Onward
<1>3. at' \notin CreatePlaces \cup {"parse", "load"}
  BY <1>2 DEF RepairPlaces, CreatePlaces
<1>4. Shaped(repairer') /\ IsFiniteSet(DOMAIN disk')
  BY DEF Onward, Stage, Ending
<1>5. Worded'
  BY <1>1, <1>3 DEF Worded, Extras
<1>6. Placed'
  BY <1>1, <1>2, <1>3 DEF Placed, Creating
<1>7. Sets'
  BY <1>1, <1>3 DEF Sets
<1>8. at' \in RepairPlaces /\ Regular(repairer') => RepairInv(at', before', repairer', disk')
  <2>1. at' \in RepairPlaces => at' # "end"
    BY DEF RepairPlaces
  <2> QED BY <2>1 DEF Onward, Stage
<1>9. ASSUME at' = "end", Regular(repairer')
      PROVE  Kept(before', repairer', disk') /\ (result' = "Success" => Restored(repairer', disk'))
  <2>1. at' \notin RepairPlaces
    BY <1>9 DEF RepairPlaces
  <2> QED BY <2>1, <1>9 DEF Onward, Ending
<1>10. SuccessMeansRestored'
  BY <1>9 DEF SuccessMeansRestored, Restored, Files, FileExists
<1> QED BY <1>4, <1>5, <1>6, <1>7, <1>8, <1>9, <1>10 DEF IInv

\* VerifyOneSourceFile and VerifySourceFiles1: one of the candidates was looked for.
LEMMA TargetStage ==
    ASSUME NEW old, NEW r, NEW d, NEW i \in r.todo, Stage("verify", old, r, d), NEW q, NEW name,
           name = r.files[i].name,
           \/ name \in DOMAIN d /\ \E p : Outcome(Opened(r, i), p, d, name) /\ (q = p \/ q = Updated(p))
           \/ name \in DOMAIN d /\ q = [Opened(r, i) EXCEPT !.finalresult = FALSE]
           \/ q = [Done(r, i) EXCEPT !.unopened = @ \cup {name}]
           \/ q = Done(r, i) /\ name \notin DOMAIN d
    PROVE  Stage("verify", old, q, d)
<1>1. ASSUME name \in DOMAIN d, NEW p, Outcome(Opened(r, i), p, d, name), q = p \/ q = Updated(p)
      PROVE  Stage("verify", old, q, d)
  BY <1>1, LookedAt
<1>2. CASE name \in DOMAIN d /\ q = [Opened(r, i) EXCEPT !.finalresult = FALSE]
  BY <1>2, NotLookedAt
<1>3. CASE q = [Done(r, i) EXCEPT !.unopened = @ \cup {name}]
  BY <1>3, NotLookedAt
<1>4. CASE q = Done(r, i) /\ name \notin DOMAIN d
  BY <1>4, NotLookedAt
<1> QED BY <1>1, <1>2, <1>3, <1>4

LEMMA OneSourceFile ==
    ASSUME IInv, VerifyOneSourceFile
    PROVE  at \in RepairPlaces /\ Onward
<1>1. at = "verify" /\ at \in RepairPlaces /\ at' = at /\ disk' = disk
  BY DEF VerifyOneSourceFile, RepairPlaces
<1>2. Stage("verify", before, repairer, disk) /\ Shaped(repairer)
  BY <1>1, StageNow
<1>3. PICK i \in repairer.todo :
        LET name == repairer.files[i].name IN
        \/ name \in DOMAIN disk /\ repairer' \in Verified(Opened(repairer, i), name)
        \/ name \in DOMAIN disk /\ repairer' = [Opened(repairer, i) EXCEPT !.finalresult = FALSE]
        \/ repairer' = [Done(repairer, i) EXCEPT !.unopened = @ \cup {name}]
        \/ repairer' = Done(repairer, i) /\ name \notin DOMAIN disk
  BY Zenon DEF VerifyOneSourceFile, VerifyTarget, Done, Opened, FileExists
<1>4. PICK name : name = repairer.files[i].name
  OBVIOUS
<1>5. ASSUME repairer' \in Verified(Opened(repairer, i), name)
      PROVE  Outcome(Opened(repairer, i), repairer', disk, name)
  <2>1. Shaped(Opened(repairer, i))
    BY <1>2, OpenedIs
  <2> QED BY <2>1, <1>5, VerifiedIs
<1>6. Stage("verify", before, repairer', disk)
  BY <1>2, <1>3, <1>4, <1>5, TargetStage
<1> QED BY <1>1, <1>6 DEF Onward, RepairPlaces

\* The first in order is one of them.
LEMMA InOrderIs ==
    ASSUME NEW r, Shaped(r), NEW some, some \subseteq DOMAIN r.files, NEW i \in InOrder(some)
    PROVE  i \in some
BY FirstIs DEF InOrder

LEMMA SourceFiles1 ==
    ASSUME IInv, VerifySourceFiles1
    PROVE  at \in RepairPlaces /\ Onward
<1>1. /\ at = "verify" /\ at \in RepairPlaces /\ at' = at /\ disk' = disk
      /\ repairer.version = "par1"
  BY DEF VerifySourceFiles1, RepairPlaces
<1>2. Stage("verify", before, repairer, disk) /\ Shaped(repairer) /\ repairer.todo \subseteq DOMAIN repairer.files
  BY <1>1, StageNow DEF Shaped
<1>3. PICK i \in InOrder(repairer.todo) :
        LET name == repairer.files[i].name IN
        \/ /\ name \in DOMAIN disk
           /\ \E p \in VerifyDataFile1(Opened(repairer, i), name) : repairer' = Updated(p)
        \/ name \in DOMAIN disk /\ repairer' = [Opened(repairer, i) EXCEPT !.finalresult = FALSE]
        \/ repairer' = [Done(repairer, i) EXCEPT !.unopened = @ \cup {name}]
        \/ repairer' = Done(repairer, i) /\ name \notin DOMAIN disk
  BY Zenon DEF VerifySourceFiles1, VerifyTarget, Done, Opened, FileExists
<1>4. PICK name : name = repairer.files[i].name
  OBVIOUS
<1>5. i \in repairer.todo
  BY <1>2, InOrderIs
<1>6. ASSUME NEW p \in VerifyDataFile1(Opened(repairer, i), name)
      PROVE  Outcome(Opened(repairer, i), p, disk, name)
  <2>1. Shaped(Opened(repairer, i)) /\ Kin(repairer, Opened(repairer, i), {"todo"}, {"target"})
    BY <1>2, <1>5, OpenedIs
  <2>2. Opened(repairer, i).version = "par1"
    BY <2>1, <1>1 DEF Kin, Rest, Fields
  <2> QED BY <2>1, <2>2, Verified1Is
<1>7. Stage("verify", before, repairer', disk)
  BY <1>2, <1>3, <1>4, <1>5, <1>6, TargetStage
<1> QED BY <1>1, <1>7 DEF Onward, RepairPlaces

LEMMA SourceFilesDone ==
    ASSUME IInv, SourceFilesVerified
    PROVE  at \in RepairPlaces /\ Onward
<1>1. at = "verify" /\ at \in RepairPlaces /\ repairer.todo = {} /\ disk' = disk /\ repairer' = repairer
  BY DEF SourceFilesVerified, RepairPlaces
<1>2. Stage("verify", before, repairer, disk)
  BY <1>1, StageNow
<1>3. CASE repairer.finalresult
  <2>1. at' = "extras"
    BY <1>3 DEF SourceFilesVerified, Goto
  <2> QED BY <2>1, <1>1, <1>2, <1>3, AllLookedFor DEF Onward, RepairPlaces
<1>4. CASE ~repairer.finalresult
  <2>1. at' = "end" /\ result' # "Success"
    BY <1>4 DEF SourceFilesVerified, End
  <2> QED BY <2>1, <1>1, <1>2, StageEnds DEF Onward
<1> QED BY <1>3, <1>4

\* VerifyExtraFiles: the next extra file was looked at, or skipped.
LEMMA ExtraFiles ==
    ASSUME IInv, VerifyExtraFiles
    PROVE  at \in RepairPlaces /\ Onward
<1> DEFINE name == Head(repairer.extrafiles)
<1>1. /\ at = "extras" /\ at \in RepairPlaces /\ at' = at /\ disk' = disk
      /\ repairer.extrafiles # <<>>
  BY DEF VerifyExtraFiles, VerifyExtra, RepairPlaces
<1>2. Stage("extras", before, repairer, disk) /\ Shaped(repairer)
  BY <1>1, StageNow
<1>3. \/ repairer' = Taken(repairer)
      \/ /\ name \in DOMAIN disk /\ \A k \in Files : repairer.files[k].target # name
         /\ \/ \E p \in Verified(Taken(repairer), name) : repairer' = Updated(p)
            \/ \E upto : repairer' = Updated(WithBlocks(Taken(repairer), name, upto))
  BY DEF VerifyExtraFiles, VerifyExtra, Taken, FileExists
<1>4. Shaped(Taken(repairer))
  BY <1>1, <1>2, TakenIs
<1> HIDE DEF name
<1>5. \A p \in Verified(Taken(repairer), name) : Outcome(Taken(repairer), p, disk, name)
  BY <1>4, VerifiedIs
<1>6. \A upto : Outcome(Taken(repairer), WithBlocks(Taken(repairer), name, upto), disk, name)
  BY <1>4, BlocksFound
<1>7. Stage("extras", before, repairer', disk)
  BY <1>1, <1>2, <1>3, <1>5, <1>6, ExtraTaken DEF name, Files
<1> QED BY <1>1, <1>7 DEF Onward, RepairPlaces

LEMMA ExtraFiles1 ==
    ASSUME IInv, VerifyExtraFiles1
    PROVE  at \in RepairPlaces /\ Onward
<1> DEFINE name == Head(repairer.extrafiles)
<1>1. /\ at = "extras" /\ at \in RepairPlaces /\ at' = at /\ disk' = disk
      /\ repairer.extrafiles # <<>> /\ repairer.version = "par1"
  BY DEF VerifyExtraFiles1, VerifyExtra, RepairPlaces
<1>2. Stage("extras", before, repairer, disk) /\ Shaped(repairer)
  BY <1>1, StageNow
<1>3. \/ repairer' = Taken(repairer)
      \/ /\ name \in DOMAIN disk /\ \A k \in Files : repairer.files[k].target # name
         /\ \/ \E p \in VerifyDataFile1(Taken(repairer), name) : repairer' = Updated(p)
            \/ repairer' = Updated(Taken(repairer))
  BY DEF VerifyExtraFiles1, VerifyExtra, Taken, FileExists
<1>4. Shaped(Taken(repairer)) /\ Kin(repairer, Taken(repairer), {"extrafiles"}, {})
  BY <1>1, <1>2, TakenIs
<1>5. Taken(repairer).version = "par1"
  BY <1>1, <1>4 DEF Kin, Rest, Fields
<1> HIDE DEF name
<1>6. \A p \in VerifyDataFile1(Taken(repairer), name) : Outcome(Taken(repairer), p, disk, name)
  BY <1>4, <1>5, Verified1Is
<1>7. Outcome(Taken(repairer), Taken(repairer), disk, name)
  BY <1>4, NothingFound
<1>8. Stage("extras", before, repairer', disk)
  BY <1>1, <1>2, <1>3, <1>6, <1>7, ExtraTaken DEF name, Files
<1> QED BY <1>1, <1>8 DEF Onward, RepairPlaces

\* CheckVerificationResults, for any number of missing blocks.
LEMMA CheckedIs ==
    ASSUME IInv, at = "extras", NEW missing, Checked(missing), disk' = disk
    PROVE  Onward
<1> DEFINE r == Updated(repairer)
           complete == r.completefilecount = Len(r.files)
           possible == Cardinality(DOMAIN r.recovery) >= missing
<1>1. Stage("extras", before, repairer, disk) /\ Shaped(repairer)
  BY StageNow DEF RepairPlaces
<1>2. Shaped(r)
  BY <1>1, UpdatedIs
<1>3. repairer' = [r EXCEPT !.possible = ~complete /\ possible]
  BY DEF Checked
<1>4. /\ complete => at' = "end" /\ result' = "Success"
      /\ ~complete => \/ at' = "end" /\ result' # "Success"
                      \/ at' = "rename"
  BY DEF Checked, End, Goto
<1> HIDE DEF r, possible
<1>5. Rest(r, repairer', {}) /\ repairer'.files = r.files
  BY <1>2, <1>3 DEF Rest, Shaped, Fields
<1>6. /\ Stage("rename", before, repairer', disk)
      /\ repairer'.completefilecount = Len(repairer'.files) => Ending(before, repairer', disk, "Success")
  BY <1>1, <1>5, Counted DEF r
<1>7. repairer'.completefilecount = r.completefilecount
  BY <1>5 DEF Rest, Fields
<1>8. CASE complete
  BY <1>4, <1>5, <1>6, <1>7, <1>8 DEF Onward
<1>9. CASE ~complete
  <2>1. CASE at' = "end" /\ result' # "Success"
    BY <2>1, <1>6, StageEnds DEF Onward
  <2>2. CASE at' = "rename"
    BY <2>2, <1>6 DEF Onward, RepairPlaces
  <2> QED BY <2>1, <2>2, <1>4, <1>9
<1> QED BY <1>8, <1>9

LEMMA ResultsChecked ==
    ASSUME IInv, CheckVerificationResults \/ CheckVerificationResults1
    PROVE  at \in RepairPlaces /\ Onward
<1>1. at = "extras" /\ disk' = disk /\ \E missing : Checked(missing)
  BY DEF CheckVerificationResults, CheckVerificationResults1
<1> QED BY <1>1, CheckedIs DEF RepairPlaces

\* RenameTargetFiles: the next file is renamed, or all have been.
LEMMA RenamingIs ==
    ASSUME IInv, at = "rename", Renaming
    PROVE  Onward
<1> DEFINE damaged == {i \in Files : Damaged(repairer.files[i])}
           misnamed == {i \in Files : Misnamed(repairer.files[i])}
<1>1. Stage("rename", before, repairer, disk) /\ Shaped(repairer)
  BY StageNow DEF RepairPlaces
<1>2. CASE UNCHANGED <<disk, repairer>> /\ End("FileIOError")
  BY <1>1, <1>2, StageEnds DEF End, Onward
<1>3. CASE damaged # {}
  <2>1. RenameDamaged
    BY <1>3 DEF Renaming, None
  <2>2. PICK i : i = Min(damaged)
    OBVIOUS
  <2>3. i \in Files /\ Damaged(repairer.files[i])
    <3>1. damaged \subseteq Files
      OBVIOUS
    <3>2. i \in damaged
      BY <2>2, <3>1, <1>1, <1>3, FirstIs DEF Files
    <3> QED BY <3>2
  <2>4. CASE /\ disk' = Rename(disk, repairer.files[i].target, NewName(disk, repairer.files[i].target))
             /\ repairer' = Moved(repairer, repairer.files[i].target,
                                  NewName(disk, repairer.files[i].target), i, NoName)
             /\ at' = at
    BY <1>1, <2>3, <2>4, DamagedStage DEF Onward, RepairPlaces, Files
  <2> QED BY <1>2, <2>1, <2>2, <2>4, Zenon DEF RenameDamaged, First, Moved
<1>4. CASE damaged = {} /\ misnamed # {}
  <2>1. RenameMisnamed
    BY <1>4 DEF Renaming, None
  <2>2. PICK i : i = Min(misnamed)
    OBVIOUS
  <2>3. i \in Files /\ Misnamed(repairer.files[i]) /\ \A j \in Files : ~Damaged(repairer.files[j])
    <3>1. misnamed \subseteq Files
      OBVIOUS
    <3>2. i \in misnamed
      BY <2>2, <3>1, <1>1, <1>4, FirstIs DEF Files
    <3> QED BY <3>2, <1>4
  <2>4. PICK from : from = repairer.files[i].complete
    OBVIOUS
  <2>5. PICK to : to = repairer.files[i].name
    OBVIOUS
  <2>6. CASE /\ disk' = Rename(disk, from, to)
             /\ repairer' = [Renamed(repairer, from, to) EXCEPT !.files[i].target = to,
                               !.completefilecount = @ + 1]
             /\ at' = at
    <3>1. PICK p : p = Moved(repairer, from, to, i, to)
      OBVIOUS
    <3>2. Fields \subseteq DOMAIN p
      <4>1. Kin(repairer, p, {}, {"target", "complete", "blocks"})
        BY <1>1, <2>3, <3>1, MovedIs DEF Files
      <4> QED BY <4>1 DEF Kin, Rest
    <3>3. p = [Renamed(repairer, from, to) EXCEPT !.files[i].target = to]
      BY <3>1 DEF Moved
    <3>4. /\ repairer'.files = p.files
          /\ Rest(p, repairer', {"completefilecount"})
          /\ repairer'.completefilecount = repairer.completefilecount + 1
      <4>1. PICK o : o = Renamed(repairer, from, to)
        OBVIOUS
      <4>2. /\ DOMAIN o = DOMAIN repairer /\ o.completefilecount = repairer.completefilecount
            /\ Fields \subseteq DOMAIN repairer
        BY <1>1, <4>1, Zenon DEF Renamed, Shaped, Fields
      <4>3. /\ repairer' = [o EXCEPT !.files[i].target = to, !.completefilecount = @ + 1]
            /\ p = [o EXCEPT !.files[i].target = to]
        BY <2>6, <3>3, <4>1
      <4> QED BY <4>2, <4>3 DEF Rest, Fields
    <3>5. Stage("rename", before, repairer', disk')
      BY <1>1, <2>3, <2>4, <2>5, <2>6, <3>1, <3>4, MisnamedStage, Zenon DEF Files
    <3> QED BY <3>5, <2>6 DEF Onward, RepairPlaces
  <2> QED BY <1>2, <2>1, <2>2, <2>4, <2>5, <2>6, Zenon DEF RenameMisnamed, First
<1>5. CASE damaged = {} /\ misnamed = {}
  <2>1. AllRenamed /\ \A i \in Files : ~Damaged(repairer.files[i]) /\ ~Misnamed(repairer.files[i])
    BY <1>5 DEF Renaming, None
  <2>2. /\ Stage("targets", before, repairer, disk)
        /\ repairer.completefilecount = Len(repairer.files) => Ending(before, repairer, disk, "Success")
    BY <1>1, <2>1, RenamedStage DEF Files
  <2> QED BY <2>1, <2>2 DEF AllRenamed, End, Goto, Onward, RepairPlaces
<1> QED BY <1>3, <1>4, <1>5

LEMMA TargetsRenamed ==
    ASSUME IInv, RenameTargetFiles \/ RenameTargetFiles1
    PROVE  at \in RepairPlaces /\ Onward
BY RenamingIs DEF RenameTargetFiles, RenameTargetFiles1, RepairPlaces

\* CreateTargetFiles: the next of the files that are lacking.
LEMMA CreationIs ==
    ASSUME IInv, at = "targets", NEW i \in Files, repairer.files[i].target = NoName,
           NEW targets, DOMAIN targets = 1 .. BlockCount(repairer, i),
           \A k \in DOMAIN targets : targets[k].file = repairer.files[i].name,
           \/ /\ disk' = Create(disk, repairer.files[i].name, Len(repairer.files[i].content))
              /\ repairer' = [repairer EXCEPT !.files[i].target = repairer.files[i].name,
                                !.files[i].targets = targets, !.verifylist = Append(@, i)]
              /\ at' = at
           \/ /\ disk' \in CreateFailures(disk, repairer.files[i].name)
              /\ End("FileIOError") /\ UNCHANGED repairer
    PROVE  Onward
<1>1. Stage("targets", before, repairer, disk) /\ Shaped(repairer)
  BY StageNow DEF RepairPlaces
<1>2. CASE /\ disk' = Create(disk, repairer.files[i].name, Len(repairer.files[i].content))
           /\ repairer' = [repairer EXCEPT !.files[i].target = repairer.files[i].name,
                             !.files[i].targets = targets, !.verifylist = Append(@, i)]
           /\ at' = at
  <2>1. Added(disk, disk', repairer.files[i].name)
    BY <1>2, CreateIs
  <2>2. Begun(repairer, repairer', i, targets)
    BY <1>1, <1>2 DEF Begun, Rest, OneFile, Shaped, Fields, FileFields, Files
  <2>3. Stage("targets", before, repairer', disk')
    BY <1>1, <2>1, <2>2, CreatedStage DEF Files
  <2> QED BY <2>3, <1>2 DEF Onward, RepairPlaces
<1>3. CASE disk' \in CreateFailures(disk, repairer.files[i].name) /\ End("FileIOError") /\ UNCHANGED repairer
  BY <1>1, <1>3, CreationEnds DEF End, Onward, Files
<1> QED BY <1>2, <1>3

\* The first that lacks a target.
LEMMA LackingIs ==
    ASSUME IInv, at = "targets", ~None(Lacking)
    PROVE  First(Lacking) \in Files /\ repairer.files[First(Lacking)].target = NoName
<1> DEFINE lacking == {i \in Files : Lacking(repairer.files[i])}
<1>1. Shaped(repairer) /\ lacking \subseteq DOMAIN repairer.files /\ lacking # {}
  BY StageNow DEF RepairPlaces, Files, None
<1>2. Min(lacking) \in lacking
  <2> HIDE DEF lacking
  <2> QED BY <1>1, FirstIs
<1> QED BY <1>2 DEF First, Lacking

LEMMA TargetFiles ==
    ASSUME IInv, CreateTargetFiles
    PROVE  at \in RepairPlaces /\ Onward
<1>1. at = "targets" /\ at \in RepairPlaces /\ repairer.version = "par2" /\ ~None(Lacking)
  BY DEF CreateTargetFiles, Creation, RepairPlaces
<1>2. PICK i : i = First(Lacking)
  OBVIOUS
<1>3. i \in Files /\ repairer.files[i].target = NoName
  BY <1>1, <1>2, LackingIs
<1>4. PICK targets : targets = BlocksOf(repairer.files[i].name, Len(repairer.files[i].content), repairer.blocksize)
  OBVIOUS
<1>5. DOMAIN targets = 1 .. BlockCount(repairer, i) /\ \A k \in DOMAIN targets : targets[k].file = repairer.files[i].name
  BY <1>1, <1>4 DEF BlocksOf, Block, BlockCount
<1>6. \/ /\ disk' = Create(disk, repairer.files[i].name, Len(repairer.files[i].content))
         /\ repairer' = [repairer EXCEPT !.files[i].target = repairer.files[i].name,
                           !.files[i].targets = targets, !.verifylist = Append(@, i)]
         /\ at' = at
      \/ /\ disk' \in CreateFailures(disk, repairer.files[i].name)
         /\ End("FileIOError") /\ UNCHANGED repairer
  BY <1>2, <1>4 DEF CreateTargetFiles, Creation, NextLacking
<1> QED BY <1>1, <1>3, <1>5, <1>6, CreationIs, Zenon

LEMMA TargetFiles1 ==
    ASSUME IInv, CreateTargetFiles1
    PROVE  at \in RepairPlaces /\ Onward
<1>1. at = "targets" /\ at \in RepairPlaces /\ repairer.version = "par1" /\ ~None(Lacking)
  BY DEF CreateTargetFiles1, Creation, RepairPlaces
<1>2. PICK i : i = First(Lacking)
  OBVIOUS
<1>3. i \in Files /\ repairer.files[i].target = NoName
  BY <1>1, <1>2, LackingIs
<1>4. PICK targets : targets = <<Block(repairer.files[i].name, 0, Len(repairer.files[i].content))>>
  OBVIOUS
<1>5. DOMAIN targets = 1 .. BlockCount(repairer, i) /\ \A k \in DOMAIN targets : targets[k].file = repairer.files[i].name
  BY <1>1, <1>4 DEF Block, BlockCount
<1>6. \/ /\ disk' = Create(disk, repairer.files[i].name, Len(repairer.files[i].content))
         /\ repairer' = [repairer EXCEPT !.files[i].target = repairer.files[i].name,
                           !.files[i].targets = targets, !.verifylist = Append(@, i)]
         /\ at' = at
      \/ /\ disk' \in CreateFailures(disk, repairer.files[i].name)
         /\ End("FileIOError") /\ UNCHANGED repairer
  BY <1>2, <1>4 DEF CreateTargetFiles1, Creation, NextLacking
<1> QED BY <1>1, <1>3, <1>5, <1>6, CreationIs, Zenon

\* ComputeRSmatrix: what is copied and what is computed goes to targets.
LEMMA MatrixComputed ==
    ASSUME IInv, at = "targets", NEW blocks, NEW exponents, NEW base, WithMatrix(blocks, exponents, base)
    PROVE  Onward
<1>1. Stage("targets", before, repairer, disk) /\ Shaped(repairer)
  BY StageNow DEF RepairPlaces
<1>2. PICK slots : slots = Slots
  OBVIOUS
<1>3. \A n \in DOMAIN slots : /\ slots[n][1] \in DOMAIN repairer.files
                              /\ slots[n][2] \in DOMAIN repairer.files[slots[n][1]].blocks
  BY <1>2, SlotsAre, SMTT(30) DEF Files
<1> DEFINE target(n) == repairer.files[slots[n][1]].targets[slots[n][2]]
           present == [n \in DOMAIN slots |-> IsSet(blocks[n])]
           missing == {n \in DOMAIN slots : ~present[n]}
           copied == {n \in DOMAIN slots \ missing : IsSet(target(n))}
           matrix == Compute(base, present,
                             [k \in DOMAIN exponents |-> OutputRow(TRUE, exponents[k])])
           inputblocks == SelectSeq(blocks, IsSet)
                            \o [k \in DOMAIN exponents |-> repairer.recovery[exponents[k]]]
           copyblocks == [n \in copied |-> <<blocks[n], target(n)>>]
           outputblocks == [n \in missing |-> target(n)]
<1>4. /\ repairer' = [repairer EXCEPT !.matrix = matrix, !.inputblocks = inputblocks,
                        !.copyblocks = copyblocks, !.outputblocks = outputblocks]
      /\ at' \in {"delete", "buffers"} /\ disk' = disk
  BY <1>2, SMTT(30) DEF WithMatrix, Goto
<1>5. /\ \A n \in DOMAIN copyblocks : n \in DOMAIN slots /\ copyblocks[n][2] = target(n)
      /\ \A n \in DOMAIN outputblocks : n \in DOMAIN slots /\ outputblocks[n] = target(n)
  OBVIOUS
<1> HIDE DEF matrix, inputblocks, copyblocks, outputblocks
<1>6. /\ Rest(repairer, repairer', {"copyblocks", "outputblocks"}) /\ repairer'.files = repairer.files
      /\ repairer'.copyblocks = copyblocks /\ repairer'.outputblocks = outputblocks
  BY <1>1, <1>4 DEF Rest, Shaped, Fields
<1>7. Stage("buffers", before, repairer', disk) /\ Stage("delete", before, repairer', disk)
  <2>1. Planned(repairer, repairer', slots)
    BY <1>3, <1>5, <1>6 DEF Planned
  <2> QED BY <2>1, <1>1, PlannedStage
<1> QED BY <1>4, <1>7 DEF Onward, RepairPlaces

LEMMA MatrixIs ==
    ASSUME IInv, ComputeRSmatrix \/ ComputeRSmatrix1
    PROVE  at \in RepairPlaces /\ Onward
<1>1. at = "targets" /\ at \in RepairPlaces
  BY DEF ComputeRSmatrix, ComputeRSmatrix1, RepairPlaces
<1>2. \E blocks, exponents, base : WithMatrix(blocks, exponents, base)
  BY DEF ComputeRSmatrix, ComputeRSmatrix1
<1> QED BY <1>1, <1>2, MatrixComputed

LEMMA Buffers ==
    ASSUME IInv, AllocateBuffers \/ AllocateBuffers1
    PROVE  at \in RepairPlaces /\ Onward
<1>1. at = "buffers" /\ at \in RepairPlaces /\ at' = "recover" /\ disk' = disk
  BY DEF AllocateBuffers, AllocateBuffers1, Goto, Only2, RepairPlaces
<1>2. Stage("buffers", before, repairer, disk) /\ Shaped(repairer)
  BY <1>1, StageNow
<1>3. PICK size : repairer' = [repairer EXCEPT !.chunksize = size]
  BY DEF AllocateBuffers, AllocateBuffers1, Only2
<1>4. Rest(repairer, repairer', {}) /\ repairer'.files = repairer.files
  BY <1>2, <1>3 DEF Rest, Shaped, Fields
<1> QED BY <1>1, <1>2, <1>4, SetStage DEF Onward, RepairPlaces

\* ProcessData: what is written goes to files that were made.
LEMMA ProcessedIs ==
    ASSUME IInv, at = "recover", NEW copies, NEW outputs, NEW able, Processed(copies, outputs, able),
           Regular(repairer) => Into(copies, Made(repairer)) /\ Into(outputs, Made(repairer))
    PROVE  Onward
<1> DEFINE copied == AllWrites(disk, copies)
           length == repairer.blockoffset + ChunkLength(repairer)
<1>1. Stage("recover", before, repairer, disk) /\ Shaped(repairer)
  BY StageNow DEF RepairPlaces
<1>2. ASSUME NEW e, \/ e = AllWrites(copied, outputs)
                    \/ e \in SomeWrites(disk, copies) \cup SomeWrites(copied, outputs)
      PROVE  /\ Stage("recover", before, repairer, e) /\ Stage("delete", before, repairer, e)
             /\ Stage("reverify", before, repairer, e)
  <2>1. DOMAIN e = DOMAIN disk
    BY <1>2, WritesFit
  <2>2. ASSUME Regular(repairer) PROVE Spared(disk, e, Made(repairer))
    <3>1. Spared(disk, copied, Made(repairer))
      BY <2>2, AllAndSome
    <3>2. CASE e \in SomeWrites(disk, copies)
      BY <2>2, <3>2, AllAndSome
    <3>3. CASE e = AllWrites(copied, outputs) \/ e \in SomeWrites(copied, outputs)
      <4> HIDE DEF copied
      <4>1. Spared(copied, e, Made(repairer))
        BY <2>2, <3>3, AllAndSome
      <4> QED BY <3>1, <4>1, SparedTwice
    <3> QED BY <3>2, <3>3, <1>2
  <2> QED BY <1>1, <2>1, <2>2, WrittenStage
<1>3. CASE /\ disk' = AllWrites(copied, outputs)
           /\ repairer' = [repairer EXCEPT !.blockoffset = length]
           /\ at' \in {"recover", "reverify"}
  <2>1. PICK n : n = length
    OBVIOUS
  <2>2. repairer' = [repairer EXCEPT !.blockoffset = n]
    BY <1>3, <2>1
  <2>3. Rest(repairer, repairer', {}) /\ repairer'.files = repairer.files
    BY <1>1, <2>2 DEF Rest, Shaped, Fields
  <2>4. Stage("recover", before, repairer, disk')
    BY <1>2, <1>3
  <2>5. Stage("recover", before, repairer', disk')
    BY <2>3, <2>4, SetStage
  <2>6. Stage("reverify", before, repairer', disk')
    BY <2>5, WrittenStage DEF Spared
  <2> QED BY <1>3, <2>5, <2>6 DEF Onward, RepairPlaces
<1>4. CASE /\ disk' \in {disk} \cup SomeWrites(disk, copies) \cup SomeWrites(copied, outputs)
           /\ at' = "delete" /\ repairer' = repairer
  <2>1. Stage("delete", before, repairer, disk)
    BY <1>1, WrittenStage DEF Spared
  <2>2. Stage("delete", before, repairer, disk')
    BY <2>1, <1>2, <1>4
  <2> QED BY <2>2, <1>4 DEF Onward, RepairPlaces
<1> QED BY <1>3, <1>4 DEF Processed, Goto

LEMMA DataProcessed ==
    ASSUME IInv, ProcessData \/ ProcessData1
    PROVE  at \in RepairPlaces /\ Onward
<1>1. at = "recover" /\ at \in RepairPlaces
  BY DEF ProcessData, ProcessData1, RepairPlaces
<1>2. ASSUME Regular(repairer) PROVE Aimed(repairer)
  BY <1>1, <1>2, StageNow DEF Stage, RepairInv
<1>3. \A length : Regular(repairer) => Into(CopyWrites(length), Made(repairer))
  BY <1>2 DEF Into, CopyWrites, Aimed, AimedAt
<1>4. \A length : Regular(repairer) => Into(OutputWrites(length), Made(repairer))
  BY <1>2 DEF Into, OutputWrites, Aimed, AimedAt
<1>5. Into(<<>>, Made(repairer))
  BY DEF Into
<1>6. \E copies, outputs, able : /\ Processed(copies, outputs, able)
                                 /\ copies = <<>> \/ \E length : copies = CopyWrites(length)
                                 /\ \E length : outputs = OutputWrites(length)
  BY DEF ProcessData, ProcessData1
<1> QED BY <1>1, <1>3, <1>4, <1>5, <1>6, ProcessedIs

\* VerifyTargetFiles: one of the files that were made was looked at again.
LEMMA OneTargetFile ==
    ASSUME IInv, VerifyTargetFiles
    PROVE  at \in RepairPlaces /\ Onward
<1>1. at = "reverify" /\ at \in RepairPlaces /\ at' = at /\ disk' = disk
  BY DEF VerifyTargetFiles, Reverify, RepairPlaces
<1>2. Stage("reverify", before, repairer, disk) /\ Shaped(repairer)
  BY <1>1, StageNow
<1>3. PICK i \in ToSet(repairer.verifylist) :
        \/ \E p \in Verified(Forgotten(repairer, i), repairer.files[i].target) : repairer' = Updated(p)
        \/ repairer' = [Forgotten(repairer, i) EXCEPT !.finalresult = FALSE]
  BY Zenon DEF VerifyTargetFiles, Reverify, Forgotten
<1>4. Shaped(Forgotten(repairer, i))
  BY <1>2, ForgottenIs DEF Shaped
<1>5. \A p \in Verified(Forgotten(repairer, i), repairer.files[i].target) :
        Outcome(Forgotten(repairer, i), p, disk, repairer.files[i].target)
  BY <1>4, VerifiedIs
<1>6. Stage("reverify", before, repairer', disk)
  BY <1>2, <1>3, <1>5, RecheckedStage
<1> QED BY <1>1, <1>6 DEF Onward, RepairPlaces

LEMMA OneTargetFile1 ==
    ASSUME IInv, VerifyTargetFiles1
    PROVE  at \in RepairPlaces /\ Onward
<1>1. at = "reverify" /\ at \in RepairPlaces /\ at' = at /\ disk' = disk /\ repairer.version = "par1"
  BY DEF VerifyTargetFiles1, Reverify, RepairPlaces
<1>2. /\ Stage("reverify", before, repairer, disk) /\ Shaped(repairer)
      /\ ToSet(repairer.verifylist) \subseteq DOMAIN repairer.files
  BY <1>1, StageNow DEF Shaped
<1>3. PICK i \in InOrder(ToSet(repairer.verifylist) \ repairer.todo) :
        \/ \E p \in VerifyDataFile1(Forgotten(repairer, i), repairer.files[i].target) : repairer' = Updated(p)
        \/ repairer' = [Forgotten(repairer, i) EXCEPT !.finalresult = FALSE]
  BY DEF VerifyTargetFiles1, Reverify, Forgotten
<1>4. i \in ToSet(repairer.verifylist)
  <2>1. i \in ToSet(repairer.verifylist) \ repairer.todo
    BY <1>2, InOrderIs
  <2> QED BY <2>1
<1>5. Shaped(Forgotten(repairer, i)) /\ Kin(repairer, Forgotten(repairer, i), {"todo"}, {"complete", "blocks"})
  BY <1>2, <1>4, ForgottenIs
<1>6. Forgotten(repairer, i).version = "par1"
  BY <1>1, <1>5 DEF Kin, Rest, Fields
<1>7. \A p \in VerifyDataFile1(Forgotten(repairer, i), repairer.files[i].target) :
        Outcome(Forgotten(repairer, i), p, disk, repairer.files[i].target)
  BY <1>5, <1>6, Verified1Is
<1>8. Stage("reverify", before, repairer', disk)
  BY <1>2, <1>3, <1>4, <1>7, RecheckedStage
<1> QED BY <1>1, <1>8 DEF Onward, RepairPlaces

LEMMA TargetFilesDone ==
    ASSUME IInv, TargetFilesVerified
    PROVE  at \in RepairPlaces /\ Onward
<1>1. at = "reverify" /\ at \in RepairPlaces /\ disk' = disk /\ repairer' = repairer
  BY DEF TargetFilesVerified, RepairPlaces
<1>2. Stage("reverify", before, repairer, disk)
  BY <1>1, StageNow
<1>3. \/ at' = "delete"
      \/ /\ at' = "end"
         /\ result' = "Success" => repairer.finalresult /\ ~(repairer.completefilecount < Len(repairer.files))
  BY DEF TargetFilesVerified, Goto, End
<1>4. Stage("delete", before, repairer, disk)
  BY <1>2 DEF Stage, RepairInv
<1> QED BY <1>1, <1>2, <1>3, <1>4, RecheckedEnds DEF Onward, RepairPlaces

LEMMA TargetsDeleted ==
    ASSUME IInv, DeleteIncompleteTargetFiles \/ DeleteIncompleteTargetFiles1
    PROVE  at \in RepairPlaces /\ Onward
<1>1. at = "delete" /\ at \in RepairPlaces /\ at' = "end" /\ result' # "Success" /\ Deletion
  BY DEF DeleteIncompleteTargetFiles, DeleteIncompleteTargetFiles1, Deletion, End, RepairPlaces
<1>2. Stage("delete", before, repairer, disk) /\ Shaped(repairer)
  BY <1>1, StageNow
<1> DEFINE files == [i \in Files |-> IF Contains(repairer.verifylist, i)
                       THEN [repairer.files[i] EXCEPT !.target = NoName] ELSE repairer.files[i]]
<1>3. /\ disk' = DeleteAll(disk, Targets(repairer, ToSet(repairer.verifylist)))
      /\ repairer' = [repairer EXCEPT !.files = files]
  BY <1>1 DEF Deletion, Targets
<1>4. Rest(repairer, repairer', {}) /\ repairer'.files = files
  <2> HIDE DEF files
  <2> QED BY <1>2, <1>3 DEF Rest, Shaped, Fields
<1>5. Ending(before, repairer', disk', result')
  BY <1>1, <1>2, <1>3, <1>4, DeletionEnds DEF Files
<1> QED BY <1>1, <1>5 DEF Onward

\* LoadPackets and LoadRecoveryFiles: the files of the set, with nothing known of them.
LEMMA LoadBegins ==
    ASSUME IInv, at = "load"
    PROVE  /\ Stage("load", before, repairer, disk) /\ Shaped(repairer) /\ Once(repairer.extrafiles)
           /\ repairer.files = <<>> /\ repairer.verifylist = <<>> /\ repairer.unopened = {}
           /\ repairer.copyblocks = <<>> /\ repairer.outputblocks = <<>>
           /\ IsList(set.files)
<1>1. repairer = NewRepairer(commandline) /\ Once(Names(commandline.extrafiles)) /\ IsList(set.files)
  BY DEF IInv, Placed, Worded, Extras, Sets
<1> QED BY <1>1, StageNow DEF NewRepairer, RepairPlaces

LEMMA SourceFileIs ==
    ASSUME NEW file, NEW described, NEW verifiable, NEW count, NEW r, NEW i,
           r.files[i] = SourceFile(file, described, verifiable, count),
           count = BlockCount(r, i)
    PROVE  Fresh(r, i) /\ r.files[i].described = described
BY DEF SourceFile, Fresh, FileFields

LEMMA PacketsLoaded ==
    ASSUME IInv, LoadPackets
    PROVE  at \in RepairPlaces /\ Onward
<1>1. at = "load" /\ at \in RepairPlaces /\ repairer.version = "par2" /\ disk' = disk /\ \E d : Loaded(d)
  BY DEF LoadPackets, RepairPlaces
<1>2. PICK d : Loaded(d)
  BY <1>1
<1>3. CASE End("InsufficientCriticalData") /\ UNCHANGED repairer
  <2>1. Stage("load", before, repairer, disk)
    BY <1>1, LoadBegins
  <2> QED BY <1>1, <1>3, <2>1, StageEnds DEF End, Onward
<1>4. CASE ~UNCHANGED repairer \/ at' # "end"
  <2> DEFINE packets == UNION {ToSet(d[name]) : name \in PacketFiles}
             described(i) == DescriptionPacket(set.files[i].name) \in packets
             verifiable(i) == VerificationPacket(set.files[i].name) \in packets
             count(i) == CeilDiv(Len(set.files[i].content), set.blocksize)
             files == [i \in DOMAIN set.files |->
                         SourceFile(set.files[i], described(i), verifiable(i), count(i))]
             todo == {i \in DOMAIN files : files[i].described}
             final == \A i \in DOMAIN files : files[i].described
             recovery == RecoveryMap(d)
  <2>1. /\ repairer' = [repairer EXCEPT !.blocksize = set.blocksize, !.files = files,
                          !.recovery = recovery, !.todo = todo, !.finalresult = final]
        /\ at' = "verify"
    BY <1>2, <1>4 DEF Loaded, End, Goto
  <2> HIDE DEF recovery, described, verifiable
  <2>2. Shaped(repairer) /\ IsList(set.files)
    BY <1>1, LoadBegins
  <2>3. files = [i \in DOMAIN set.files |-> files[i]]
    OBVIOUS
  <2>4. IsList(files) /\ DOMAIN files = DOMAIN set.files
    <3> HIDE DEF files
    <3> QED BY <2>2, <2>3, ListLike
  <2>5. \A i \in DOMAIN set.files :
          files[i] = SourceFile(set.files[i], described(i), verifiable(i), count(i))
    OBVIOUS
  <2>6. \A i \in DOMAIN set.files : files[i].content = set.files[i].content
    BY DEF SourceFile
  <2> HIDE DEF files, todo, final
  <2>7. /\ Rest(repairer, repairer', {"blocksize", "todo", "finalresult"})
        /\ repairer'.files = files /\ repairer'.todo = todo /\ repairer'.finalresult = final
        /\ repairer'.blocksize = set.blocksize /\ repairer'.version = "par2"
    BY <1>1, <2>1, <2>2 DEF Rest, Shaped, Fields
  <2>8. \A i \in DOMAIN files : count(i) = BlockCount(repairer', i)
    BY <2>4, <2>6, <2>7 DEF BlockCount
  <2> HIDE DEF count
  <2>9. \A i \in DOMAIN files : Fresh(repairer', i)
    BY <2>4, <2>5, <2>7, <2>8, SourceFileIs
  <2>10. /\ IsList(repairer'.files) /\ \A i \in DOMAIN repairer'.files : Fresh(repairer', i)
         /\ repairer'.todo \subseteq DOMAIN repairer'.files
         /\ \A i \in DOMAIN repairer'.files \ repairer'.todo : ~repairer'.files[i].described
         /\ repairer'.finalresult => \A i \in DOMAIN repairer'.files : repairer'.files[i].described
    BY <2>4, <2>7, <2>9 DEF todo, final
  <2>11. Stage("verify", before, repairer', disk)
    BY <1>1, <2>7, <2>10, LoadBegins, LoadedStage
  <2> QED BY <1>1, <2>1, <2>11 DEF Onward, RepairPlaces
<1> QED BY <1>2, <1>3, <1>4 DEF Loaded, Goto

LEMMA RecoveryFilesLoaded ==
    ASSUME IInv, LoadRecoveryFiles
    PROVE  at \in RepairPlaces /\ Onward
<1>1. /\ at = "load" /\ at \in RepairPlaces /\ repairer.version = "par1" /\ disk' = disk /\ at' = "verify"
  BY DEF LoadRecoveryFiles, Goto, RepairPlaces
<1>2. Shaped(repairer) /\ IsList(set.files)
  BY <1>1, LoadBegins
<1> DEFINE files(names) == IF names = {} THEN <<>>
                           ELSE [i \in DOMAIN set.files |-> SourceFile(set.files[i], TRUE, TRUE, 1)]
<1>3. PICK names :
        repairer' = [repairer EXCEPT !.files = files(names), !.recovery = Volumes(names),
                       !.blocksize = IF names = {} THEN 0 ELSE set.blocksize, !.todo = DOMAIN files(names)]
  BY DEF LoadRecoveryFiles
<1> HIDE DEF files
<1>4. /\ Rest(repairer, repairer', {"blocksize", "todo", "finalresult"})
      /\ repairer'.files = files(names) /\ repairer'.todo = DOMAIN repairer'.files
      /\ repairer'.version = "par1"
  BY <1>1, <1>2, <1>3 DEF Rest, Shaped, Fields
<1>5. IsList(repairer'.files) /\ \A i \in DOMAIN repairer'.files : repairer'.files[i] = SourceFile(set.files[i], TRUE, TRUE, 1)
  <2>1. CASE names = {}
    <3>1. repairer'.files = <<>> /\ IsList(<<>>)
      BY <1>1, <1>4, <2>1, LoadBegins DEF files, Shaped
    <3> QED BY <3>1
  <2>2. CASE names # {}
    <3>1. PICK l : l = [i \in DOMAIN set.files |-> SourceFile(set.files[i], TRUE, TRUE, 1)]
      OBVIOUS
    <3>2. IsList(l) /\ DOMAIN l = DOMAIN set.files
      <4>1. l = [i \in DOMAIN set.files |-> l[i]]
        BY <3>1
      <4> QED BY <4>1, <1>2, ListLike
    <3> QED BY <1>4, <2>2, <3>1, <3>2 DEF files
  <2> QED BY <2>1, <2>2
<1>6. \A i \in DOMAIN repairer'.files : Fresh(repairer', i) /\ repairer'.files[i].described
  <2> TAKE i \in DOMAIN repairer'.files
  <2>1. PICK all : all = TRUE
    OBVIOUS
  <2>2. repairer'.files[i] = SourceFile(set.files[i], all, all, 1)
    BY <1>5, <2>1
  <2>3. 1 = BlockCount(repairer', i)
    BY <1>4 DEF BlockCount
  <2>4. Fresh(repairer', i) /\ repairer'.files[i].described = all
    BY <2>2, <2>3, SourceFileIs
  <2> QED BY <2>1, <2>4
<1>7. Stage("verify", before, repairer', disk)
  BY <1>1, <1>4, <1>5, <1>6, LoadBegins, LoadedStage
<1> QED BY <1>1, <1>7 DEF Onward, RepairPlaces

LEMMA RepairKeeps ==
    ASSUME IInv, RepairStep \/ Par1Step,
           UNCHANGED <<args, commandline, lines, damages, allowed, before>>
    PROVE  IInv'
<1>1. at \in RepairPlaces /\ Onward
  BY PacketsLoaded, OneSourceFile, SourceFilesDone, ExtraFiles, ResultsChecked, TargetsRenamed, TargetFiles,
     MatrixIs, Buffers, DataProcessed, OneTargetFile, TargetFilesDone, TargetsDeleted, RecoveryFilesLoaded,
     SourceFiles1, ExtraFiles1, TargetFiles1, OneTargetFile1 DEF RepairStep, Par1Step
<1>2. UNCHANGED <<creator, set>>
  BY Zenon DEF RepairStep, LoadPackets, VerifyOneSourceFile, SourceFilesVerified, VerifyExtraFiles,
     CheckVerificationResults, RenameTargetFiles, Renaming, CreateTargetFiles, Creation, ComputeRSmatrix,
     WithMatrix, AllocateBuffers, Only2, ProcessData, Processed, VerifyTargetFiles, Reverify,
     TargetFilesVerified, DeleteIncompleteTargetFiles, Deletion,
     Par1Step, LoadRecoveryFiles, VerifySourceFiles1, VerifyExtraFiles1, CheckVerificationResults1,
     RenameTargetFiles1, CreateTargetFiles1, ComputeRSmatrix1, AllocateBuffers1, ProcessData1,
     VerifyTargetFiles1, DeleteIncompleteTargetFiles1
<1> QED BY <1>1, <1>2, OnwardKeeps

-----------------------------------------------------------------------------
(* The command line, creation, and what is between the runs *)

\* Whoever is not repairing only has to keep to the shape of things.
LEMMA OthersKeep ==
    ASSUME IsFiniteSet(DOMAIN disk'), Worded', Placed', Sets', Shaped(repairer'),
           at' \notin RepairPlaces, at' = "end" => Creating(commandline')
    PROVE  IInv'
<1>1. SuccessMeansRestored'
  BY DEF SuccessMeansRestored, Repairing, Creating
<1> QED BY <1>1 DEF IInv, Creating

\* An option leaves the files that were named before.
Alike(c, e) == DOMAIN e = DOMAIN c /\ e.extrafiles = c.extrafiles
LEMMA OptionKeeps == ASSUME NEW c, NEW a, "extrafiles" \in DOMAIN c PROVE Alike(c, Option(c, a))
BY DEF Option, Alike, Provided, Refused, BlockCountOption, BlockSizeOption, RedundancyOption,
       RecoveryBlockCountOption, FirstBlockOption, UniformOption, LimitOption, FileCountOption,
       MemoryOption, NoiseOption, LevelOption, ThreadsOption, BaseDirectoryOption
LEMMA RecoveryFileKeeps == ASSUME NEW c, NEW name, "extrafiles" \in DOMAIN c PROVE Alike(c, RecoveryFile(c, name))
BY DEF RecoveryFile, Alike, Provided, Refused

\* The extra files of the command line, while it is read.
Listed(c) ==
    /\ "extrafiles" \in DOMAIN c /\ IsList(c.extrafiles) /\ Once(Names(c.extrafiles))
    /\ \A i \in DOMAIN c.extrafiles : c.extrafiles[i] = ExtraFile(c.extrafiles[i].name)
LEMMA AlikeListed == ASSUME NEW c, NEW e, Listed(c), Alike(c, e) PROVE Listed(e)
BY DEF Listed, Alike

\* The names of a list of files.
LEMMA NamesAre ==
    ASSUME NEW files, IsList(files)
    PROVE  /\ IsList(Names(files)) /\ DOMAIN Names(files) = DOMAIN files
           /\ \A i \in DOMAIN files : Names(files)[i] = files[i].name
<1> DEFINE names == Names(files)
<1>1. names = [i \in DOMAIN files |-> files[i].name]
  BY DEF Names
<1> HIDE DEF names
<1>2. names = [i \in DOMAIN files |-> names[i]]
  BY <1>1
<1>3. IsList(names) /\ DOMAIN names = DOMAIN files
  BY <1>2, ListLike
<1> QED BY <1>1, <1>3 DEF names

\* A file that was not named before is added to the list.
LEMMA ExtraAdded ==
    ASSUME NEW c, NEW name, Listed(c), ~Contains(c.extrafiles, ExtraFile(name)),
           NEW e, e = [c EXCEPT !.extrafiles = Append(@, ExtraFile(name))]
    PROVE  Listed(e)
<1> DEFINE old == c.extrafiles
           n == Len(old)
           new == Append(old, ExtraFile(name))
<1>1. /\ IsList(old) /\ DOMAIN old = 1 .. n /\ n \in Nat /\ "extrafiles" \in DOMAIN c
      /\ \A i \in DOMAIN old : old[i] = ExtraFile(old[i].name)
  BY ListFacts DEF Listed
<1>2. /\ IsList(new) /\ DOMAIN new = 1 .. n + 1 /\ \A i \in DOMAIN old : new[i] = old[i]
      /\ new[n + 1] = ExtraFile(name)
  BY <1>1, ListAppend
<1>3. ExtraFile(name).name = name
  BY DEF ExtraFile
<1> HIDE DEF new
<1>4. e.extrafiles = new /\ "extrafiles" \in DOMAIN e
  BY <1>1 DEF new
<1>5. \A i \in 1 .. n + 1 : i \in DOMAIN old \/ i = n + 1
  BY <1>1
<1>6. \A i \in DOMAIN new : new[i] = ExtraFile(new[i].name)
  BY <1>1, <1>2, <1>3, <1>5
<1>7. \A i \in DOMAIN old : old[i].name # name
  BY <1>1 DEF Contains
<1>8. \A i, j \in DOMAIN old : old[i].name = old[j].name => i = j
  <2>1. \A i, j \in DOMAIN old : Names(old)[i] = Names(old)[j] => i = j
    BY <1>1, NamesAre DEF Listed, Once
  <2> QED BY <2>1, <1>1, NamesAre
<1>9. \A i, j \in DOMAIN new : new[i].name = new[j].name => i = j
  BY <1>2, <1>3, <1>5, <1>7, <1>8
<1>10. Once(Names(new))
  BY <1>2, <1>9, NamesAre DEF Once
<1> QED BY <1>2, <1>4, <1>6, <1>10 DEF Listed

LEMMA FileNameKeeps == ASSUME NEW c, NEW name, Listed(c) PROVE Listed(FileName(c, name))
<1>1. Listed(RecoveryFile(c, name))
  BY RecoveryFileKeeps, AlikeListed DEF Listed
<1>2. ASSUME ~Contains(c.extrafiles, ExtraFile(name))
      PROVE  Listed([c EXCEPT !.extrafiles = Append(@, ExtraFile(name))])
  BY <1>2, ExtraAdded
<1> QED BY <1>1, <1>2 DEF FileName

\* After each of the names.
After(g, c, names, n) ==
    g = [k \in 0 .. n |-> IF k = 0 THEN [c EXCEPT !.options = FALSE] ELSE FileName(g[k - 1], names[k])]
LEMMA AfterExists == ASSUME NEW c, NEW names, NEW n \in Nat PROVE \E g : After(g, c, names, n)
<1> DEFINE T == {k \in Nat : \E g : After(g, c, names, k)}
           first == [c EXCEPT !.options = FALSE]
<1>1. 0 \in T
  <2> DEFINE g == [k \in 0 .. 0 |-> first]
  <2>1. \A k \in 0 .. 0 : k = 0
    OBVIOUS
  <2>2. After(g, c, names, 0)
    BY <2>1 DEF After
  <2> QED BY <2>2
<1>2. ASSUME NEW m \in Nat, m \in T PROVE m + 1 \in T
  <2>1. PICK g : After(g, c, names, m)
    BY <1>2
  <2> DEFINE Goal(q, k) == IF k = 0 THEN first ELSE FileName(q[k - 1], names[k])
             h == [k \in 0 .. m + 1 |-> Goal(g, k)]
  <2>2. ASSUME NEW k \in 0 .. m PROVE h[k] = g[k]
    <3>1. k \in 0 .. m + 1
      OBVIOUS
    <3>2. h[k] = Goal(g, k)
      BY <3>1
    <3>3. g[k] = Goal(g, k)
      BY <2>1 DEF After
    <3> QED BY <3>2, <3>3
  <2>3. \A k \in 0 .. m + 1 : k # 0 => k - 1 \in 0 .. m
    OBVIOUS
  <2>4. \A k \in 0 .. m + 1 : k # 0 => h[k - 1] = g[k - 1]
    <3> HIDE DEF h
    <3> QED BY <2>2, <2>3
  <2>5. h = [k \in 0 .. m + 1 |-> Goal(h, k)]
    <3>1. \A k \in 0 .. m + 1 : Goal(g, k) = Goal(h, k)
      <4> HIDE DEF h, first
      <4> QED BY <2>4
    <3>2. [k \in 0 .. m + 1 |-> Goal(g, k)] = [k \in 0 .. m + 1 |-> Goal(h, k)]
      <4> HIDE DEF h, Goal
      <4> QED BY <3>1
    <3> QED BY <3>2
  <2> HIDE DEF h
  <2> QED BY <2>5 DEF After
<1> HIDE DEF T
<1>3. n \in T
  BY <1>1, <1>2, Induct
<1> QED BY <1>3 DEF T

LEMMA AfterListed ==
    ASSUME NEW c, NEW names, NEW n \in Nat, Listed(c), NEW g, After(g, c, names, n)
    PROVE  Listed(g[n])
<1> DEFINE T == {k \in Nat : k <= n => Listed(g[k])}
<1>1. g[0] = [c EXCEPT !.options = FALSE] /\ \A k \in 1 .. n : g[k] = FileName(g[k - 1], names[k])
  <2>1. \A k \in 0 .. n :
          g[k] = IF k = 0 THEN [c EXCEPT !.options = FALSE] ELSE FileName(g[k - 1], names[k])
    BY DEF After
  <2>2. 0 \in 0 .. n /\ \A k \in 1 .. n : k \in 0 .. n /\ k # 0
    OBVIOUS
  <2> QED BY <2>1, <2>2
<1>2. 0 \in T
  <2>1. Listed(g[0])
    BY <1>1 DEF Listed
  <2> QED BY <2>1
<1>3. ASSUME NEW k \in Nat, k \in T PROVE k + 1 \in T
  <2> SUFFICES ASSUME k + 1 <= n PROVE Listed(g[k + 1])
    OBVIOUS
  <2>1. k + 1 \in 1 .. n /\ (k + 1) - 1 = k /\ k <= n
    OBVIOUS
  <2>2. g[k + 1] = FileName(g[k], names[k + 1])
    BY <1>1, <2>1
  <2>3. Listed(g[k])
    BY <1>3, <2>1
  <2> QED BY <2>2, <2>3, FileNameKeeps
<1> HIDE DEF T
<1>4. n \in T
  BY <1>2, <1>3, Induct
<1> QED BY <1>4 DEF T

LEMMA ArgumentKeeps ==
    ASSUME NEW c, NEW a, Listed(c), IsList(a.names)
    PROVE  Listed(Argument(c, a))
<1> DEFINE n == Len(a.names)
           after == CHOOSE g : After(g, c, a.names, n)
<1>1. n \in Nat
  BY ListFacts
<1>2. After(after, c, a.names, n)
  BY <1>1, AfterExists
<1>3. Listed(after[n])
  <2> HIDE DEF after
  <2> QED BY <1>1, <1>2, AfterListed
<1>4. Listed(Option(c, a))
  BY OptionKeeps, AlikeListed DEF Listed
<1>5. Argument(c, a) = IF c.options /\ a.opt # "file" THEN Option(c, a) ELSE after[n]
  BY DEF Argument, After
<1> QED BY <1>3, <1>4, <1>5

LEMMA ParseKeeps ==
    ASSUME IInv, ParseArgument
    PROVE  IInv'
<1>1. /\ at = "parse" /\ at' = at /\ commandline' = Argument(commandline, Head(args)) /\ args' = Tail(args)
      /\ args # <<>> /\ UNCHANGED <<disk, creator, set, repairer, lines>>
  BY DEF ParseArgument, Parse, Parsing
<1>2. Listed(commandline) /\ Wording(args) /\ repairer = Nothing /\ IsFiniteSet(DOMAIN disk) /\ Shaped(repairer)
      /\ IsList(lines) /\ \A line \in ToSet(lines) : Wording(line.args)
  BY <1>1 DEF IInv, Worded, Extras, Listed, Placed
<1>3. IsList(args) /\ IsList(Tail(args)) /\ ToSet(Tail(args)) \subseteq ToSet(args) /\ Head(args) \in ToSet(args)
  <2>1. IsList(args)
    BY <1>2 DEF Wording
  <2>2. args \in Seq(ToSet(args))
    BY <2>1 DEF IsList
  <2>3. Head(args) \in ToSet(args)
    BY <1>1, <2>2, HeadTailProperties
  <2> QED BY <1>1, <2>1, <2>3, TailIsList
<1>4. Listed(commandline')
  BY <1>1, <1>2, <1>3, ArgumentKeeps DEF Wording
<1>5. Wording(args')
  BY <1>1, <1>2, <1>3 DEF Wording
<1>6. \A name : ExtraFile(name)' = ExtraFile(name)
  BY <1>1 DEF ExtraFile, GetFileSize, FileExists
<1>7. Worded'
  BY <1>1, <1>2, <1>4, <1>5, <1>6 DEF Worded, Extras, Listed
<1>8. Placed'
  BY <1>1, <1>2 DEF Placed, CreatePlaces, RepairPlaces, Nothing, Creating
<1>9. Sets'
  BY <1>1 DEF IInv, Sets
<1> QED BY <1>1, <1>2, <1>7, <1>8, <1>9, OthersKeep DEF RepairPlaces

\* The defaults: a sole source file may be the one that the recovery file is named after.
LEMMA DefaultsAre ==
    ASSUME NEW c, Listed(c)
    PROVE  /\ "extrafiles" \in DOMAIN Defaults(c) /\ IsList(Defaults(c).extrafiles)
           /\ Once(Names(Defaults(c).extrafiles))
<1>1. IsList(<<ExtraFile(c.parfile)>>) /\ Once(Names(<<ExtraFile(c.parfile)>>))
  <2>1. PICK l : l = <<ExtraFile(c.parfile)>>
    OBVIOUS
  <2>2. DOMAIN l = 1 .. 1 /\ l = [i \in 1 .. 1 |-> l[i]] /\ 1 \in Nat
    BY <2>1
  <2>3. IsList(l)
    BY <2>2, ListOf
  <2>4. \A i, j \in 1 .. 1 : i = j
    OBVIOUS
  <2>5. Once(Names(l))
    BY <2>2, <2>3, <2>4, NamesAre DEF Once
  <2> QED BY <2>1, <2>3, <2>5
<1>2. /\ "extrafiles" \in DOMAIN SourcesGiven(c)
      /\ SourcesGiven(c).extrafiles \in {c.extrafiles, <<ExtraFile(c.parfile)>>}
  BY DEF SourcesGiven, Provided, Refused, Listed
<1>3. DOMAIN CreateDefaults(c) = DOMAIN SourcesGiven(c) /\ CreateDefaults(c).extrafiles = SourcesGiven(c).extrafiles
  BY <1>2 DEF CreateDefaults
<1>4. /\ "extrafiles" \in DOMAIN Defaults(c)
      /\ Defaults(c).extrafiles \in {c.extrafiles, <<ExtraFile(c.parfile)>>}
  BY <1>2, <1>3 DEF Defaults, Refused, Listed
<1> QED BY <1>1, <1>4 DEF Listed

\* A repairer with nothing loaded.
LEMMA NewRepairerIs ==
    ASSUME NEW c, IsList(c.extrafiles), NEW r, r = NewRepairer(c)
    PROVE  /\ Shaped(r)
           /\ \A d : RepairInv("load", d, r, d) /\ Kept(d, r, d)
<1>1. /\ r.files = <<>> /\ r.verifylist = <<>> /\ r.copyblocks = <<>> /\ r.outputblocks = <<>>
      /\ r.todo = {} /\ r.extrafiles = Names(c.extrafiles)
      /\ Fields \subseteq DOMAIN r
  BY DEF NewRepairer, Fields
<1>2. IsList(<<>>) /\ DOMAIN <<>> = {} /\ ToSet(<<>>) = {}
  BY DEF IsList, ToSet
<1>3. IsList(Names(c.extrafiles))
  BY NamesAre
<1>4. Shaped(r)
  BY <1>1, <1>2, <1>3 DEF Shaped
<1>5. Made(r) = {}
  BY <1>1, <1>2 DEF Made
<1>6. \A d : Kept(d, r, d)
  BY <1>5 DEF Kept
<1>7. \A d : OnDisk(r, d)
  BY <1>1, <1>2 DEF OnDisk
<1>8. Aimed(r)
  BY <1>1, <1>2 DEF Aimed
<1> QED BY <1>4, <1>6, <1>7, <1>8 DEF RepairInv

LEMMA NothingIs == Shaped(Nothing)
<1>1. IsList(<<>>)
  BY DEF IsList
<1>2. IsList(Settings0("verify").extrafiles)
  BY <1>1 DEF Settings0
<1> QED BY <1>2, NewRepairerIs DEF Nothing

LEMMA DispatchKeeps ==
    ASSUME IInv, Dispatch
    PROVE  IInv'
<1> DEFINE full == IF commandline.ok THEN Defaults(commandline) ELSE commandline
<1>1. PICK c : c = full
  OBVIOUS
<1>2. /\ at = "parse" /\ commandline' = c /\ before' = disk
      /\ UNCHANGED <<disk, args, set, lines>>
  BY <1>1 DEF Dispatch
<1>3. \/ at' = "end" /\ result' # "Success" /\ UNCHANGED <<creator, repairer>>
      \/ at' = "sizes" /\ Creating(c) /\ creator' = NewCreator(c) /\ UNCHANGED repairer
      \/ at' = "load" /\ ~Creating(c) /\ repairer' = NewRepairer(c) /\ UNCHANGED creator
  BY <1>1 DEF Dispatch, End, Goto
<1>4. Listed(commandline)
  BY <1>2 DEF IInv, Worded, Extras, Listed
<1>5. "extrafiles" \in DOMAIN c /\ IsList(c.extrafiles) /\ Once(Names(c.extrafiles))
  BY <1>1, <1>4, DefaultsAre DEF Listed
<1> HIDE DEF full
<1>6. /\ repairer = Nothing /\ IsFiniteSet(DOMAIN disk) /\ Wording(args) /\ IsList(lines)
      /\ \A line \in ToSet(lines) : Wording(line.args)
      /\ IsList(set.files)
  BY <1>2 DEF IInv, Placed, Worded, Sets
<1>7. Worded'
  BY <1>2, <1>3, <1>5, <1>6 DEF Worded, Extras
<1>8. Placed'
  BY <1>2, <1>3 DEF Placed, CreatePlaces, RepairPlaces, Creating
<1>9. Sets'
  <2>1. CASE at' = "sizes" /\ creator' = NewCreator(c)
    <3>1. IsList(<<>>)
      BY DEF IsList
    <3>2. {"extrafiles", "sources"} \subseteq DOMAIN creator' /\ creator'.extrafiles = c.extrafiles /\ creator'.sources = <<>>
      BY <2>1 DEF NewCreator
    <3> QED BY <1>2, <1>5, <1>6, <3>1, <3>2 DEF Sets
  <2>2. CASE at' \in {"end", "load"}
    BY <1>2, <1>6, <2>2 DEF Sets, CreatePlaces
  <2> QED BY <2>1, <2>2, <1>3
<1>10. CASE at' = "sizes" /\ UNCHANGED repairer
  BY <1>2, <1>6, <1>7, <1>8, <1>9, <1>10, NothingIs, OthersKeep DEF RepairPlaces
<1>11. CASE at' = "load" /\ repairer' = NewRepairer(c)
  <2>1. Shaped(repairer') /\ RepairInv("load", disk, repairer', disk)
    BY <1>5, <1>11, NewRepairerIs
  <2>2. SuccessMeansRestored'
    BY <1>11 DEF SuccessMeansRestored
  <2> QED BY <1>2, <1>6, <1>7, <1>8, <1>9, <1>11, <2>1, <2>2 DEF IInv
<1>12. CASE at' = "end" /\ result' # "Success" /\ UNCHANGED repairer
  <2>1. PICK r : r = Nothing
    OBVIOUS
  <2>2. Kept(disk, r, disk)
    <3>1. IsList(Settings0("verify").extrafiles)
      BY DEF Settings0, IsList
    <3> QED BY <2>1, <3>1, NewRepairerIs DEF Nothing
  <2>3. Kept(before', repairer', disk')
    BY <1>2, <1>6, <1>12, <2>1, <2>2
  <2>4. SuccessMeansRestored'
    BY <1>12 DEF SuccessMeansRestored
  <2>5. Shaped(repairer')
    BY <1>6, <1>12, NothingIs
  <2>6. at' \notin RepairPlaces
    BY <1>12 DEF RepairPlaces
  <2> QED BY <1>2, <1>6, <1>7, <1>8, <1>9, <2>3, <2>4, <2>5, <2>6 DEF IInv
<1> QED BY <1>3, <1>10, <1>11, <1>12

\* What happens between the runs.
LEMMA DamageKeeps ==
    ASSUME IInv, Damage
    PROVE  IInv'
<1>1. /\ at' = "damaged"
      /\ UNCHANGED <<args, commandline, creator, set, repairer, lines>>
      /\ \/ \E name : disk' = Delete(disk, name)
         \/ \E name, cells : name \in DOMAIN disk /\ disk' = Put(disk, name, cells)
         \/ \E name, other : disk' = Rename(disk, name, other)
  BY DEF Damage
<1>2. IsFiniteSet(DOMAIN disk) /\ Shaped(repairer) /\ Worded /\ Sets
  BY DEF IInv
<1>3. IsFiniteSet(DOMAIN disk')
  <2>1. ASSUME NEW name, disk' = Delete(disk, name) PROVE IsFiniteSet(DOMAIN disk')
    <3>1. IsFiniteSet(DOMAIN disk \ {name})
      BY <1>2, FS_RemoveElement
    <3>2. DOMAIN Delete(disk, name) = DOMAIN disk \ {name}
      BY DEF Delete, DeleteAll
    <3> QED BY <2>1, <3>1, <3>2
  <2>2. ASSUME NEW name \in DOMAIN disk, NEW cells, disk' = Put(disk, name, cells) PROVE IsFiniteSet(DOMAIN disk')
    <3>1. DOMAIN Put(disk, name, cells) = DOMAIN disk
      BY DEF Put
    <3> QED BY <1>2, <2>2, <3>1
  <2>3. ASSUME NEW name, NEW other, disk' = Rename(disk, name, other) PROVE IsFiniteSet(DOMAIN disk')
    BY <1>2, <2>3, FiniteRename
  <2> QED BY <1>1, <2>1, <2>2, <2>3
<1>4. Worded'
  BY <1>1, <1>2 DEF Worded, Extras
<1>5. Placed'
  BY <1>1 DEF Placed, CreatePlaces, RepairPlaces
<1>6. Sets'
  BY <1>1, <1>2 DEF Sets, CreatePlaces
<1> QED BY <1>1, <1>2, <1>3, <1>4, <1>5, <1>6, OthersKeep DEF RepairPlaces

LEMMA NextRunKeeps ==
    ASSUME IInv, NextRun
    PROVE  IInv'
<1>1. /\ at' = "parse" /\ args' = Head(lines).args /\ lines' = Tail(lines) /\ lines # <<>>
      /\ repairer' = Nothing /\ UNCHANGED <<disk, creator, set>>
      /\ commandline' = Settings0(Head(lines).operation)
  BY DEF NextRun, Begin
<1>2. IsFiniteSet(DOMAIN disk) /\ Worded /\ Sets
  BY DEF IInv
<1>3. IsList(Tail(lines)) /\ ToSet(Tail(lines)) \subseteq ToSet(lines) /\ Head(lines) \in ToSet(lines)
  <2>1. IsList(lines) /\ lines \in Seq(ToSet(lines))
    BY <1>2 DEF Worded, IsList
  <2>2. Head(lines) \in ToSet(lines)
    BY <1>1, <2>1, HeadTailProperties
  <2> QED BY <1>1, <2>1, <2>2, TailIsList
<1>4. Wording(args') /\ IsList(lines') /\ \A line \in ToSet(lines') : Wording(line.args)
  BY <1>1, <1>2, <1>3 DEF Worded
<1>5. Extras'
  <2>1. IsList(<<>>) /\ DOMAIN <<>> = {}
    BY DEF IsList
  <2>2. DOMAIN Names(<<>>) = {} /\ IsList(Names(<<>>))
    BY <2>1, NamesAre
  <2>3. "extrafiles" \in DOMAIN commandline' /\ commandline'.extrafiles = <<>>
    BY <1>1 DEF Settings0
  <2> QED BY <2>1, <2>2, <2>3 DEF Extras, Once
<1>6. Worded'
  BY <1>4, <1>5 DEF Worded
<1>7. Placed'
  BY <1>1 DEF Placed, CreatePlaces, RepairPlaces, Nothing
<1>8. Sets'
  BY <1>1, <1>2 DEF Sets, CreatePlaces
<1> QED BY <1>1, <1>2, <1>6, <1>7, <1>8, NothingIs, OthersKeep DEF RepairPlaces

\* A creation: the disk stays finite, and the files of the set a list.
Creation0 ==
    /\ at' \in CreatePlaces \cup {"end"} /\ IsFiniteSet(DOMAIN disk')
    /\ IsList(set'.files)
    /\ {"extrafiles", "sources"} \subseteq DOMAIN creator'
    /\ IsList(creator'.extrafiles) /\ IsList(creator'.sources)

\* Most of it leaves the two lists of files alone.
SameSources ==
    /\ {"extrafiles", "sources"} \subseteq DOMAIN creator'
    /\ creator'.extrafiles = creator.extrafiles /\ creator'.sources = creator.sources

LEMMA CreateBegins ==
    ASSUME IInv, at \in CreatePlaces
    PROVE  /\ IsFiniteSet(DOMAIN disk) /\ IsList(set.files)
           /\ {"extrafiles", "sources"} \subseteq DOMAIN creator
           /\ IsList(creator.extrafiles) /\ IsList(creator.sources)
BY DEF IInv, Sets

LEMMA PlanMade ==
    ASSUME IInv, \/ ComputeBlockSizeAndBlockCount \/ ComputeRecoveryBlockCount \/ CalculateProcessBlockSize
                 \/ ComputeRecoveryFileCount \/ CreateSourceBlocks \/ AllocateFiles \/ CloseFiles
    PROVE  at \in CreatePlaces /\ Creation0
<1>1. at \in CreatePlaces /\ at' \in CreatePlaces \cup {"end"} /\ UNCHANGED <<disk, set>>
  BY DEF ComputeBlockSizeAndBlockCount, ComputeRecoveryBlockCount, CalculateProcessBlockSize,
         ComputeRecoveryFileCount, CreateSourceBlocks, AllocateFiles, CloseFiles, Only, Goto, End, CreatePlaces
<1>2. \/ UNCHANGED creator
      \/ \E x, y : creator' = [creator EXCEPT !.blocksize = x, !.sourceblockcount = y]
      \/ \E x : creator' = [creator EXCEPT !.recoveryblockcount = x]
      \/ \E x : creator' = [creator EXCEPT !.chunksize = x]
      \/ \E x : creator' = [creator EXCEPT !.filecount = x]
      \/ \E x : creator' = [creator EXCEPT !.blocks = x]
      \/ \E x : creator' = [creator EXCEPT !.allocations = x]
  BY DEF ComputeBlockSizeAndBlockCount, ComputeRecoveryBlockCount, CalculateProcessBlockSize,
         ComputeRecoveryFileCount, CreateSourceBlocks, AllocateFiles, CloseFiles, Only
<1>3. SameSources
  BY <1>1, <1>2, CreateBegins DEF SameSources
<1> QED BY <1>1, <1>3, CreateBegins DEF SameSources, Creation0

LEMMA SourcesOpened ==
    ASSUME IInv, OpenSourceFiles
    PROVE  at \in CreatePlaces /\ Creation0
<1>1. at \in CreatePlaces /\ at' \in CreatePlaces \cup {"end"} /\ UNCHANGED <<disk, set>>
  BY DEF OpenSourceFiles, Goto, End, CreatePlaces
<1>2. UNCHANGED creator \/ \E list : creator' = [creator EXCEPT !.sources = Names(creator.extrafiles), !.criticals = list]
  BY DEF OpenSourceFiles
<1>3. IsList(Names(creator.extrafiles))
  BY <1>1, CreateBegins, NamesAre
<1> QED BY <1>1, <1>2, <1>3, CreateBegins DEF Creation0

LEMMA MainPacketCreated ==
    ASSUME IInv, CreateMainPacket
    PROVE  at \in CreatePlaces /\ Creation0
<1> DEFINE names == ToSet(creator.sources)
           rank(name) == Cardinality({n \in names : FileId[n] <= FileId[name]})
           place(k) == CHOOSE name \in names : rank(name) = k
           sorted == [k \in DOMAIN creator.sources |-> place(k)]
           files == [i \in DOMAIN sorted |-> [name |-> sorted[i], content |-> disk[sorted[i]]]]
<1>1. /\ at \in CreatePlaces /\ at' \in CreatePlaces /\ UNCHANGED disk
      /\ creator' = [creator EXCEPT !.sources = sorted, !.criticals = Append(@, MainPacket)]
      /\ set' = [blocksize |-> creator.blocksize, files |-> files]
  BY DEF CreateMainPacket, Goto, CreatePlaces
<1> HIDE DEF place
<1>2. sorted = [k \in DOMAIN creator.sources |-> sorted[k]]
  OBVIOUS
<1>3. files = [i \in DOMAIN sorted |-> files[i]]
  OBVIOUS
<1> HIDE DEF sorted, files
<1>4. IsList(sorted)
  BY <1>1, <1>2, CreateBegins, ListLike
<1>5. IsList(files)
  BY <1>3, <1>4, ListLike
<1> QED BY <1>1, <1>4, <1>5, CreateBegins DEF Creation0

\* What writing leaves is finite.
LEMMA StaysFinite ==
    ASSUME NEW d, IsFiniteSet(DOMAIN d), NEW e,
           \/ \E name, size : e = Create(d, name, size) \/ e \in CreateFailures(d, name)
           \/ \E writes : e = AllWrites(d, writes) \/ e \in SomeWrites(d, writes)
    PROVE  IsFiniteSet(DOMAIN e)
<1>1. ASSUME NEW name, NEW size, e = Create(d, name, size) PROVE IsFiniteSet(DOMAIN e)
  <2>1. IsFiniteSet(DOMAIN d \cup {name})
    BY FS_AddElement
  <2> QED BY <1>1, <2>1, CreateIs DEF Added
<1>2. ASSUME NEW name, e \in CreateFailures(d, name) PROVE IsFiniteSet(DOMAIN e)
  <2>1. IsFiniteSet(DOMAIN d \ {name})
    BY FS_RemoveElement
  <2>2. DOMAIN e = DOMAIN d \/ DOMAIN e = DOMAIN d \ {name}
    BY <1>2 DEF CreateFailures, Delete, DeleteAll
  <2> QED BY <2>1, <2>2
<1>3. ASSUME NEW writes, e = AllWrites(d, writes) \/ e \in SomeWrites(d, writes) PROVE IsFiniteSet(DOMAIN e)
  BY <1>3, WritesFit
<1> QED BY <1>1, <1>2, <1>3

LEMMA OutputCreated ==
    ASSUME IInv, InitialiseOutputFiles
    PROVE  at \in CreatePlaces /\ Creation0
<1>1. /\ at \in CreatePlaces /\ at' \in CreatePlaces \cup {"end"} /\ UNCHANGED set
      /\ \E name, size : disk' = Create(disk, name, size) \/ disk' \in CreateFailures(disk, name)
  BY DEF InitialiseOutputFiles, Goto, End, CreatePlaces
<1>2. UNCHANGED creator \/ \E x, y : creator' = [creator EXCEPT !.items = x, !.next = y]
  BY DEF InitialiseOutputFiles
<1>3. SameSources
  BY <1>1, <1>2, CreateBegins DEF SameSources
<1>4. IsFiniteSet(DOMAIN disk')
  BY <1>1, CreateBegins, StaysFinite
<1> QED BY <1>1, <1>3, <1>4, CreateBegins DEF SameSources, Creation0

LEMMA OutputWritten ==
    ASSUME IInv, CreateProcessData \/ WriteRecoveryPacketHeaders \/ WriteCriticalPackets
    PROVE  at \in CreatePlaces /\ Creation0
<1>1. /\ at \in CreatePlaces /\ at' \in CreatePlaces \cup {"end"} /\ UNCHANGED set
      /\ \/ disk' = disk
         \/ \E writes : disk' = AllWrites(disk, writes) \/ disk' \in SomeWrites(disk, writes)
  BY DEF CreateProcessData, WriteRecoveryPacketHeaders, WriteCriticalPackets, WritePackets, Goto, End, CreatePlaces
<1>2. UNCHANGED creator \/ \E x : creator' = [creator EXCEPT !.blockoffset = x]
  BY DEF CreateProcessData, WriteRecoveryPacketHeaders, WriteCriticalPackets, WritePackets
<1>3. SameSources
  BY <1>1, <1>2, CreateBegins DEF SameSources
<1>4. IsFiniteSet(DOMAIN disk')
  <2>1. IsFiniteSet(DOMAIN disk)
    BY <1>1, CreateBegins
  <2> QED BY <1>1, <2>1, StaysFinite
<1> QED BY <1>1, <1>3, <1>4, CreateBegins DEF SameSources, Creation0

LEMMA CreateKeeps ==
    ASSUME IInv, CreateStep, UNCHANGED <<args, commandline, repairer, lines, damages, allowed, before>>
    PROVE  IInv'
<1>1. at \in CreatePlaces /\ Creation0
  BY PlanMade, SourcesOpened, MainPacketCreated, OutputCreated, OutputWritten DEF CreateStep
<1>2. Creating(commandline) /\ Worded /\ Shaped(repairer)
  BY <1>1 DEF IInv, Placed
<1>3. at' \notin RepairPlaces \cup {"parse"}
  BY <1>1 DEF Creation0, CreatePlaces, RepairPlaces
<1>4. Worded'
  BY <1>2, <1>3 DEF Worded, Extras
<1>5. Placed'
  BY <1>1, <1>2, <1>3 DEF Creation0, Placed, Creating, RepairPlaces
<1>6. Sets'
  BY <1>1 DEF Creation0, Sets
<1> QED BY <1>1, <1>2, <1>3, <1>4, <1>5, <1>6, OthersKeep DEF Creation0, Creating

-----------------------------------------------------------------------------
(* The theorems *)

LEMMA InitKeeps == Init => IInv
<1> SUFFICES ASSUME Init PROVE IInv
  OBVIOUS
<1>1. PICK s \in Scenarios : /\ disk = s.disk /\ set = s.set /\ lines = Tail(s.lines)
                             /\ args = Head(s.lines).args /\ commandline = Settings0(Head(s.lines).operation)
  BY DEF Init
<1>2. at = "parse" /\ repairer = Nothing
  BY DEF Init
<1>3. /\ s.lines # <<>> /\ IsFiniteSet(DOMAIN s.disk) /\ IsList(s.lines) /\ IsList(s.set.files)
      /\ \A line \in ToSet(s.lines) : Wording(line.args)
  BY MainAssumption DEF IsList, Wording
<1>4. IsList(Tail(s.lines)) /\ ToSet(Tail(s.lines)) \subseteq ToSet(s.lines) /\ Head(s.lines) \in ToSet(s.lines)
  <2>1. s.lines \in Seq(ToSet(s.lines))
    BY <1>3 DEF IsList
  <2>2. Head(s.lines) \in ToSet(s.lines)
    BY <1>3, <2>1, HeadTailProperties
  <2> QED BY <1>3, <2>2, TailIsList
<1>5. Wording(args) /\ IsList(lines) /\ \A line \in ToSet(lines) : Wording(line.args)
  BY <1>1, <1>3, <1>4
<1>6. Extras
  <2>1. IsList(<<>>) /\ DOMAIN <<>> = {}
    BY DEF IsList
  <2>2. DOMAIN Names(<<>>) = {} /\ IsList(Names(<<>>))
    BY <2>1, NamesAre
  <2>3. "extrafiles" \in DOMAIN commandline /\ commandline.extrafiles = <<>>
    BY <1>1 DEF Settings0
  <2> QED BY <2>1, <2>2, <2>3 DEF Extras, Once
<1>7. Placed
  BY <1>2 DEF Placed, CreatePlaces, RepairPlaces
<1>8. Sets
  BY <1>1, <1>2, <1>3 DEF Sets, CreatePlaces
<1>9. SuccessMeansRestored
  BY <1>2 DEF SuccessMeansRestored
<1>10. at \notin RepairPlaces \cup {"end"}
  BY <1>2 DEF RepairPlaces
<1> QED BY <1>1, <1>2, <1>3, <1>5, <1>6, <1>7, <1>8, <1>9, <1>10, NothingIs DEF IInv, Worded

LEMMA StepKeeps == IInv /\ [Next]_vars => IInv'
<1> SUFFICES ASSUME IInv, [Next]_vars PROVE IInv'
  OBVIOUS
<1>1. CASE ParseArgument
  BY <1>1, ParseKeeps
<1>2. CASE Dispatch
  BY <1>2, DispatchKeeps
<1>3. CASE Run
  BY <1>3, CreateKeeps, RepairKeeps DEF Run
<1>4. CASE Damage
  BY <1>4, DamageKeeps
<1>5. CASE NextRun
  BY <1>5, NextRunKeeps
<1>6. CASE UNCHANGED vars
  BY <1>6 DEF vars, IInv, Worded, Extras, ExtraFile, GetFileSize, FileExists, Placed, Sets,
              SuccessMeansRestored, Repairing, Files, Creating, NewRepairer
<1> QED BY <1>1, <1>2, <1>3, <1>4, <1>5, <1>6 DEF Next, Finished

\* The strengthened invariant holds in every state of the program.
THEOREM Inductive == Spec => []IInv
BY InitKeeps, StepKeeps, PTL DEF Spec

\* par2cmdline.h:394-421.  If the program says "Success" of a set whose files
\* have ordinary names, all of which could be opened, each is on disk as it was.
THEOREM SuccessMeansRestoredHolds == Spec => []SuccessMeansRestored
<1>1. IInv => SuccessMeansRestored
  BY DEF IInv
<1> QED BY <1>1, Inductive, PTL

\* par2repairer.cpp:2378-2525, 3191-3221.  While a repair goes on and when it
\* has ended, whatever its result, the contents of every file that was there when
\* it began are there under some name.
THEOREM NothingDestroyedHolds == Spec => []NothingDestroyed
<1>1. IInv => NothingDestroyed
  <2> SUFFICES ASSUME IInv, ~Creating(commandline), at \notin {"parse", "damaged"}, Regular(repairer)
               PROVE  Kept(before, repairer, disk)
    BY DEF NothingDestroyed, Kept
  <2>1. at \in RepairPlaces \cup {"end"}
    BY DEF IInv, Placed
  <2> QED BY <2>1 DEF IInv, RepairInv
<1> QED BY <1>1, Inductive, PTL

-----------------------------------------------------------------------------
(* The files on disk are lists *)

Solid(d) == \A name \in DOMAIN d : IsList(d[name])

\* A list as long as it says, if that is a number at all.
LEMMA ListUpTo ==
    ASSUME NEW n \in Int, NEW l, l = [k \in 1 .. n |-> l[k]]
    PROVE  IsList(l) /\ DOMAIN l = 1 .. n
<1>1. CASE n \in Nat
  BY <1>1, ListOf
<1>2. CASE n \notin Nat
  <2>1. 1 .. n = 1 .. 0 /\ 0 \in Nat
    BY <1>2
  <2>2. l = [k \in 1 .. 0 |-> l[k]]
    BY <2>1
  <2>3. IsList(l) /\ DOMAIN l = 1 .. 0
    BY ONLY <2>1, <2>2, ListOf
  <2> QED BY <2>1, <2>3
<1> QED BY <1>1, <1>2

LEMMA SubSeqIs ==
    ASSUME NEW s, NEW m \in Int, NEW n \in Int
    PROVE  IsList(SubSeq(s, m, n)) /\ Len(SubSeq(s, m, n)) \in Nat
<1> DEFINE l == SubSeq(s, m, n)
<1>1. l = [i \in 1 .. 1 + n - m |-> s[i + m - 1]]
  BY DEF SubSeq
<1>2. l = [i \in 1 .. 1 + n - m |-> l[i]] /\ 1 + n - m \in Int
  BY <1>1
<1> HIDE DEF l
<1>3. IsList(l)
  BY <1>2, ListUpTo
<1>4. Len(l) \in Nat
  BY <1>3, ListFacts
<1> QED BY <1>3, <1>4 DEF l

LEMMA SeqIsList == ASSUME NEW T, NEW s \in Seq(T) PROVE IsList(s)
<1>1. Len(s) \in Nat /\ s = [i \in 1 .. Len(s) |-> s[i]]
  OBVIOUS
<1>2. PICK n \in Nat : n = Len(s)
  BY <1>1
<1>3. s = [i \in 1 .. n |-> s[i]]
  BY <1>1, <1>2
<1> QED BY <1>3, ListOf

\* What may be done to the disk.
LEMMA SolidPut == ASSUME NEW d, Solid(d), NEW name, NEW cells, IsList(cells) PROVE Solid(Put(d, name, cells))
BY DEF Solid, Put
LEMMA SolidDelete == ASSUME NEW d, Solid(d), NEW names PROVE Solid(DeleteAll(d, names))
BY DEF Solid, DeleteAll
LEMMA SolidRename ==
    ASSUME NEW d, Solid(d), NEW from \in DOMAIN d, NEW to
    PROVE  Solid(Rename(d, from, to))
<1>1. IsList(d[from])
  BY DEF Solid
<1>2. Solid(Delete(d, from))
  BY SolidDelete DEF Delete
<1> QED BY <1>1, <1>2, SolidPut DEF Rename
LEMMA SolidCreate ==
    ASSUME NEW d, Solid(d), NEW name, NEW size \in Int
    PROVE  Solid(Create(d, name, size))
<1> DEFINE cells == [k \in 1 .. size |-> IF k = size THEN Garbage ELSE 0]
<1>1. cells = [k \in 1 .. size |-> cells[k]]
  OBVIOUS
<1>2. Create(d, name, size) = Put(d, name, cells)
  BY DEF Create
<1> HIDE DEF cells
<1> QED BY <1>1, <1>2, ListUpTo, SolidPut
LEMMA SolidFailure ==
    ASSUME NEW d, Solid(d), NEW name, NEW e \in CreateFailures(d, name)
    PROVE  Solid(e)
BY SolidDelete DEF CreateFailures, Delete
LEMMA SolidAfter ==
    ASSUME NEW d, Solid(d), NEW writes, NEW done
    PROVE  Solid(AfterWrites(d, writes, done))
<1> DEFINE into(name) == {n \in done : IsSet(writes[n][1]) /\ writes[n][1].file = name}
           upon(name, p) == {n \in into(name) : p \in WriteData(writes[n])}
           cell(w, p) == w[3][p - (w[1].offset + w[2])]
           written(name) == [p \in DOMAIN d[name] |-> IF upon(name, p) = {} THEN d[name][p]
                                                      ELSE cell(writes[Max(upon(name, p))], p)]
           e == AfterWrites(d, writes, done)
<1>1. e = [name \in DOMAIN d |-> IF into(name) = {} THEN d[name] ELSE written(name)]
  BY DEF AfterWrites
<1>2. ASSUME NEW name \in DOMAIN d PROVE IsList(written(name)) /\ IsList(d[name])
  <2>1. IsList(d[name])
    BY DEF Solid
  <2> DEFINE w == written(name)
  <2>2. w = [p \in DOMAIN d[name] |-> w[p]]
    OBVIOUS
  <2> HIDE DEF w
  <2>3. IsList(w)
    BY <2>1, <2>2, ListLike
  <2> QED BY <2>1, <2>3, ZenonT(30) DEF w
<1> HIDE DEF e, into, written
<1> QED BY <1>1, <1>2 DEF Solid, e
LEMMA SolidWrites ==
    ASSUME NEW d, Solid(d), NEW writes, NEW e, e = AllWrites(d, writes) \/ e \in SomeWrites(d, writes)
    PROVE  Solid(e)
BY SolidAfter DEF AllWrites, SomeWrites

-----------------------------------------------------------------------------
(* What the command line says *)

\* The numbers and the names in the words.
Told(words, operation) ==
    \A a \in ToSet(words) :
      a.num \in Int /\ (operation = "create" => ToSet(a.names) \subseteq DOMAIN FileId)

\* The settings, while the command line is read.
SettingFields == {"ok", "operation", "blockcount", "blocksize", "firstblock", "scheme", "filecount",
                  "recoveryblockcount", "redundancy", "memorylimit", "parfile", "extrafiles"}
Figures(c) ==
  c.ok =>
    /\ c.blocksize \in Nat /\ c.blockcount \in Nat /\ c.blockcount <= Half
    /\ c.firstblock \in Nat /\ c.firstblock <= Half
    /\ c.recoveryblockcount \in Nat /\ c.recoveryblockcount <= Half
    /\ c.filecount \in Nat /\ c.redundancy \in Int /\ c.memorylimit \in Nat
Setting(c) ==
    /\ SettingFields \subseteq DOMAIN c /\ Figures(c)
    /\ c.scheme \in {"unknown", "uniform", "limited"}
    /\ Creating(c) => /\ c.parfile \in DOMAIN FileId \cup {NoName}
                      /\ \A i \in DOMAIN c.extrafiles : c.extrafiles[i].name \in DOMAIN FileId
    /\ \A i \in DOMAIN c.extrafiles : c.extrafiles[i].size # 0

\* A number, or the scheme, is set to what is allowed.
LEMMA SettingSame ==
    ASSUME NEW c, Setting(c), NEW e, DOMAIN e = DOMAIN c, Figures(e),
           e.scheme \in {"unknown", "uniform", "limited"},
           e.operation = c.operation, e.parfile = c.parfile, e.extrafiles = c.extrafiles
    PROVE  Setting(e)
BY DEF Setting, Creating

LEMMA OptionSettings ==
    ASSUME NEW c, Setting(c), NEW a, a.num \in Int
    PROVE  Setting(Option(c, a))
<1> DEFINE e == Option(c, a)
           Allowed(q) == /\ DOMAIN q = DOMAIN c /\ Figures(q) /\ q.scheme \in {"unknown", "uniform", "limited"}
                         /\ q.operation = c.operation /\ q.parfile = c.parfile /\ q.extrafiles = c.extrafiles
<1>1. /\ SettingFields \subseteq DOMAIN c /\ Figures(c) /\ c.scheme \in {"unknown", "uniform", "limited"}
      /\ Half \in Int
  BY CountIs DEF Setting
<1>2. Allowed(Refused(c)) /\ Allowed([c EXCEPT !.dummy = TRUE]) /\ Allowed([c EXCEPT !.options = FALSE])
  BY <1>1 DEF Refused, Figures, SettingFields
<1>3. Allowed(BlockCountOption(c, a))
  <2> DEFINE q == [c EXCEPT !.blockcount = a.num]
  <2>1. q.blockcount = a.num /\ DOMAIN q = DOMAIN c /\ q.ok = c.ok
        /\ \A x \in SettingFields \ {"blockcount"} : q[x] = c[x]
    BY <1>1 DEF SettingFields
  <2>2. Allowed(Refused(q))
    BY <1>1 DEF Refused, Figures, SettingFields
  <2>3. a.num \in 0 .. Half => Allowed(q)
    <3> HIDE DEF q
    <3> QED BY <1>1, <2>1 DEF Figures, SettingFields
  <2>4. \/ BlockCountOption(c, a) = Refused(q)
        \/ a.num \in 0 .. Half /\ BlockCountOption(c, a) = q
    <3> HIDE DEF Allowed
    <3> QED BY <1>1 DEF BlockCountOption, Provided, Limited
  <2> HIDE DEF Allowed, q
  <2> QED BY <2>2, <2>3, <2>4
<1>4. Allowed(BlockSizeOption(c, a))
  <2> DEFINE q == [c EXCEPT !.blocksize = a.num]
  <2>1. q.blocksize = a.num /\ DOMAIN q = DOMAIN c /\ q.ok = c.ok
        /\ \A x \in SettingFields \ {"blocksize"} : q[x] = c[x]
    BY <1>1 DEF SettingFields
  <2>2. Allowed(Refused(q))
    BY <1>1 DEF Refused, Figures, SettingFields
  <2>3. a.num \in Nat => Allowed(q)
    <3> HIDE DEF q
    <3> QED BY <1>1, <2>1 DEF Figures, SettingFields
  <2>4. \/ BlockSizeOption(c, a) = Refused(q)
        \/ a.num \in Nat /\ BlockSizeOption(c, a) = q
    <3> HIDE DEF Allowed
    <3> QED BY <1>1 DEF BlockSizeOption, Provided, Limited
  <2> HIDE DEF Allowed, q
  <2> QED BY <2>2, <2>3, <2>4
<1>5. Allowed(RedundancyOption(c, a))
  BY <1>1 DEF RedundancyOption, Provided, Refused, Limited, Figures, SettingFields
<1>6. Allowed(RecoveryBlockCountOption(c, a))
  <2> DEFINE q == [c EXCEPT !.recoveryblockcount = a.num, !.recoveryblockcountset = TRUE]
  <2>1. q.recoveryblockcount = a.num /\ DOMAIN q = DOMAIN c /\ q.ok = c.ok
        /\ \A x \in SettingFields \ {"recoveryblockcount"} : q[x] = c[x]
    BY <1>1 DEF SettingFields
  <2>2. Allowed(Refused(q))
    BY <1>1 DEF Refused, Figures, SettingFields
  <2>3. a.num \in 0 .. Half => Allowed(q)
    <3> HIDE DEF q
    <3> QED BY <1>1, <2>1 DEF Figures, SettingFields
  <2>4. \/ RecoveryBlockCountOption(c, a) = Refused(q)
        \/ a.num \in 0 .. Half /\ RecoveryBlockCountOption(c, a) = q
    <3> HIDE DEF Allowed
    <3> QED BY <1>1 DEF RecoveryBlockCountOption, Provided, Limited
  <2> HIDE DEF Allowed, q
  <2> QED BY <2>2, <2>3, <2>4
<1>7. Allowed(FirstBlockOption(c, a))
  BY <1>1 DEF FirstBlockOption, Provided, Refused, Limited, Figures, SettingFields
<1>8. Allowed(UniformOption(c, a))
  BY <1>1 DEF UniformOption, Provided, Refused, Limited, Figures, SettingFields
<1>9. Allowed(LimitOption(c, a))
  BY <1>1 DEF LimitOption, Provided, Refused, Limited, Figures, SettingFields
<1>10. Allowed(FileCountOption(c, a))
  <2> DEFINE q == [c EXCEPT !.filecount = a.num]
  <2>1. q.filecount = a.num /\ DOMAIN q = DOMAIN c /\ q.ok = c.ok
        /\ \A x \in SettingFields \ {"filecount"} : q[x] = c[x]
    BY <1>1 DEF SettingFields
  <2>2. Allowed(Refused(q))
    BY <1>1 DEF Refused, Figures, SettingFields
  <2>3. a.num \in Nat => Allowed(q)
    <3> HIDE DEF q
    <3> QED BY <1>1, <2>1 DEF Figures, SettingFields
  <2>4. \/ FileCountOption(c, a) = Refused(q)
        \/ a.num \in Nat /\ FileCountOption(c, a) = q
    <3> HIDE DEF Allowed
    <3> QED BY <1>1 DEF FileCountOption, Provided, Limited
  <2> HIDE DEF Allowed, q
  <2> QED BY <2>2, <2>3, <2>4
<1>11. Allowed(MemoryOption(c, a))
  <2> DEFINE q == [c EXCEPT !.memorylimit = a.num]
  <2>1. q.memorylimit = a.num /\ DOMAIN q = DOMAIN c /\ q.ok = c.ok
        /\ \A x \in SettingFields \ {"memorylimit"} : q[x] = c[x]
    BY <1>1 DEF SettingFields
  <2>2. Allowed(Refused(q))
    BY <1>1 DEF Refused, Figures, SettingFields
  <2>3. a.num \in Nat => Allowed(q)
    <3> HIDE DEF q
    <3> QED BY <1>1, <2>1 DEF Figures, SettingFields
  <2>4. \/ MemoryOption(c, a) = Refused(q)
        \/ a.num \in Nat /\ MemoryOption(c, a) = q
    <3> HIDE DEF Allowed
    <3> QED BY <1>1 DEF MemoryOption, Provided, Limited
  <2> HIDE DEF Allowed, q
  <2> QED BY <2>2, <2>3, <2>4
<1>12. Allowed(NoiseOption(c, a, "noisy", "debug"))
  BY <1>1 DEF NoiseOption, Provided, Refused, Limited, Figures, SettingFields
<1>13. Allowed(NoiseOption(c, a, "quiet", "silent"))
  BY <1>1 DEF NoiseOption, Provided, Refused, Limited, Figures, SettingFields
<1>14. Allowed(LevelOption(c, a))
  BY <1>1 DEF LevelOption, Provided, Refused, Limited, Figures, SettingFields
<1>15. Allowed(ThreadsOption(c, a))
  BY <1>1 DEF ThreadsOption, Provided, Refused, Limited, Figures, SettingFields
<1>16. Allowed(BaseDirectoryOption(c, a))
  BY <1>1 DEF BaseDirectoryOption, Provided, Refused, Limited, Figures, SettingFields
<1> HIDE DEF Allowed
<1>17. Allowed(e)
  BY <1>2, <1>3, <1>4, <1>5, <1>6, <1>7, <1>8, <1>9, <1>10, <1>11, <1>12, <1>13, <1>14, <1>15, <1>16 DEF Option
<1> HIDE DEF e
<1>18. Setting(e)
  BY <1>17, SettingSame DEF Allowed
<1> QED BY <1>18 DEF e

LEMMA FileNameSettings ==
    ASSUME NEW c, Setting(c), NEW name, Creating(c) => name \in DOMAIN FileId, IsList(c.extrafiles)
    PROVE  /\ Setting(FileName(c, name)) /\ FileName(c, name).operation = c.operation
<1>1. SettingFields \subseteq DOMAIN c
  BY DEF Setting
<1>2. ASSUME NEW q, DOMAIN q = DOMAIN c, \A x \in SettingFields \ {"parfile", "ok"} : q[x] = c[x],
             q.ok => c.ok, Creating(c) => q.parfile \in DOMAIN FileId \cup {NoName}
      PROVE  Setting(q) /\ q.operation = c.operation
  BY <1>2 DEF Setting, Figures, Creating, SettingFields
<1>3. Setting(RecoveryFile(c, name)) /\ RecoveryFile(c, name).operation = c.operation
  <2> DEFINE q == RecoveryFile(c, name)
             Alone(p) == DOMAIN p = DOMAIN c /\ \A x \in SettingFields \ {"parfile", "ok"} : p[x] = c[x]
  <2>a. ASSUME NEW p, Alone(p), p.ok => c.ok PROVE Alone(Refused(p)) /\ ~Refused(p).ok
    BY <1>1, <2>a DEF Refused, SettingFields
  <2>b. ASSUME NEW v, NEW f PROVE /\ Alone([c EXCEPT !.version = v, !.parfile = f])
                                  /\ [c EXCEPT !.version = v, !.parfile = f].ok = c.ok
    BY <1>1 DEF SettingFields
  <2>c. Alone(c)
    OBVIOUS
  <2>1. Alone(q) /\ (q.ok => c.ok)
    <3> HIDE DEF Alone
    <3> QED BY <2>a, <2>b, <2>c DEF RecoveryFile, Provided
  <2>2. Creating(c) => q.parfile = name
    BY <1>1 DEF RecoveryFile, SettingFields
  <2> HIDE DEF q
  <2>3. Setting(q) /\ q.operation = c.operation
    BY <1>2, <2>1, <2>2
  <2> QED BY <2>3 DEF q
<1>4. ASSUME GetFileSize(disk, name) # 0
      PROVE  /\ Setting([c EXCEPT !.extrafiles = Append(@, ExtraFile(name))])
             /\ [c EXCEPT !.extrafiles = Append(@, ExtraFile(name))].operation = c.operation
  <2> DEFINE l == Append(c.extrafiles, ExtraFile(name))
  <2>1. /\ DOMAIN l = 1 .. Len(c.extrafiles) + 1 /\ \A i \in DOMAIN c.extrafiles : l[i] = c.extrafiles[i]
        /\ l[Len(c.extrafiles) + 1] = ExtraFile(name)
    BY ListAppend
  <2>2. DOMAIN c.extrafiles = 1 .. Len(c.extrafiles) /\ Len(c.extrafiles) \in Nat
    BY ListFacts
  <2> HIDE DEF l
  <2>3. \A i \in DOMAIN l : l[i] = ExtraFile(name) \/ i \in DOMAIN c.extrafiles
    BY <2>1, <2>2
  <2>4. \A i \in DOMAIN l : l[i].size # 0 /\ (Creating(c) => l[i].name \in DOMAIN FileId)
    BY <1>4, <2>1, <2>3 DEF ExtraFile, Setting
  <2>5. PICK q : q = [c EXCEPT !.extrafiles = l]
    OBVIOUS
  <2>6. DOMAIN q = DOMAIN c /\ q.extrafiles = l /\ \A x \in SettingFields \ {"extrafiles"} : q[x] = c[x]
    BY <1>1, <2>5 DEF SettingFields
  <2>7. Setting(q) /\ q.operation = c.operation
    BY <2>4, <2>6 DEF Setting, Figures, Creating, SettingFields
  <2> QED BY <2>5, <2>7 DEF l
<1> QED BY <1>3, <1>4 DEF FileName

\* After each of the names that an argument stands for.
LEMMA AfterSettings ==
    ASSUME NEW c, NEW names, NEW n \in Nat, Listed(c), Setting(c), NEW g, After(g, c, names, n),
           Creating(c) => \A k \in 1 .. n : names[k] \in DOMAIN FileId
    PROVE  Setting(g[n]) /\ g[n].operation = c.operation
<1> DEFINE T == {k \in Nat : k <= n => Listed(g[k]) /\ Setting(g[k]) /\ g[k].operation = c.operation}
           first == [c EXCEPT !.options = FALSE]
<1>1. g[0] = first /\ \A k \in 1 .. n : g[k] = FileName(g[k - 1], names[k])
  <2>1. \A k \in 0 .. n : g[k] = IF k = 0 THEN first ELSE FileName(g[k - 1], names[k])
    BY DEF After
  <2>2. 0 \in 0 .. n /\ \A k \in 1 .. n : k \in 0 .. n /\ k # 0
    OBVIOUS
  <2> HIDE DEF first
  <2> QED BY <2>1, <2>2
<1>2. 0 \in T
  <2>1. Listed(first) /\ first.operation = c.operation
    BY DEF Listed, Setting, SettingFields
  <2>2. DOMAIN first = DOMAIN c /\ \A x \in SettingFields : first[x] = c[x]
    BY DEF SettingFields
  <2> HIDE DEF first
  <2>3. Setting(first)
    BY <2>2 DEF Setting, Figures, Creating, SettingFields
  <2> QED BY <1>1, <2>1, <2>3
<1> HIDE DEF first
<1>3. ASSUME NEW k \in Nat, k \in T PROVE k + 1 \in T
  <2> SUFFICES ASSUME k + 1 <= n PROVE Listed(g[k + 1]) /\ Setting(g[k + 1]) /\ g[k + 1].operation = c.operation
    OBVIOUS
  <2>1. k + 1 \in 1 .. n /\ (k + 1) - 1 = k /\ k <= n
    OBVIOUS
  <2>2. g[k + 1] = FileName(g[k], names[k + 1])
    BY <1>1, <2>1
  <2>3. Listed(g[k]) /\ Setting(g[k]) /\ g[k].operation = c.operation
    BY <1>3, <2>1
  <2>4. Listed(g[k + 1])
    BY <2>2, <2>3, FileNameKeeps
  <2>5. IsList(g[k].extrafiles) /\ (Creating(g[k]) => names[k + 1] \in DOMAIN FileId)
    BY <2>1, <2>3 DEF Listed, Creating
  <2>6. Setting(FileName(g[k], names[k + 1])) /\ FileName(g[k], names[k + 1]).operation = g[k].operation
    BY <2>3, <2>5, FileNameSettings
  <2> QED BY <2>2, <2>3, <2>4, <2>6
<1> HIDE DEF T
<1>4. n \in T
  BY <1>2, <1>3, Induct
<1> QED BY <1>4 DEF T

LEMMA ArgumentSettings ==
    ASSUME NEW c, NEW a, Listed(c), Setting(c), IsList(a.names), a.num \in Int,
           Creating(c) => ToSet(a.names) \subseteq DOMAIN FileId
    PROVE  Setting(Argument(c, a)) /\ Argument(c, a).operation = c.operation
<1> DEFINE n == Len(a.names)
           after == CHOOSE g : After(g, c, a.names, n)
<1>1. n \in Nat /\ \A k \in 1 .. n : a.names[k] \in ToSet(a.names)
  BY ListFacts
<1>2. After(after, c, a.names, n)
  BY <1>1, AfterExists
<1>3. Setting(after[n]) /\ after[n].operation = c.operation
  <2> HIDE DEF after
  <2> QED BY <1>1, <1>2, AfterSettings
<1>4. Setting(Option(c, a))
  BY OptionSettings
<1>5. Option(c, a).operation = c.operation
  BY DEF Option, Provided, Refused, BlockCountOption, BlockSizeOption, RedundancyOption,
       RecoveryBlockCountOption, FirstBlockOption, UniformOption, LimitOption, FileCountOption,
       MemoryOption, NoiseOption, LevelOption, ThreadsOption, BaseDirectoryOption, Setting, SettingFields
<1>6. Argument(c, a) = IF c.options /\ a.opt # "file" THEN Option(c, a) ELSE after[n]
  BY DEF Argument, After
<1> QED BY <1>3, <1>4, <1>5, <1>6

-----------------------------------------------------------------------------
(* What a repair leaves on disk *)

\* The files of the set, and where they were found, whatever their names are.
Known(r, d) ==
    \A i \in DOMAIN r.files :
      LET file == r.files[i] IN
      IsList(file.content) /\ file.target \in DOMAIN d \cup {NoName} /\ file.complete \in DOMAIN d \cup {NoName}
\* A step of a repair, which may be its last.
Upheld == Solid(disk') /\ (at' \in RepairPlaces => Known(repairer', disk'))

LEMMA KnownKin ==
    ASSUME NEW r, NEW d, Known(r, d), NEW q, NEW F, NEW G, Kin(r, q, F, G), "name" \notin G, "content" \notin G,
           NEW e, \A i \in DOMAIN r.files : /\ q.files[i].target \in DOMAIN e \cup {NoName}
                                            /\ q.files[i].complete \in DOMAIN e \cup {NoName}
    PROVE  Known(q, e)
<1>1. /\ DOMAIN q.files = DOMAIN r.files
      /\ \A i \in DOMAIN r.files : q.files[i].content = r.files[i].content
  BY KinNames
<1> QED BY <1>1 DEF Known

LEMMA KnownSame ==
    ASSUME NEW r, NEW d, Known(r, d), NEW q, q.files = r.files, NEW e, DOMAIN e = DOMAIN d
    PROVE  Known(q, e)
BY DEF Known

LEMMA KnownOutcome ==
    ASSUME NEW r, NEW d, Known(r, d), NEW q, NEW name \in DOMAIN d \cup {NoName}, Outcome(r, q, d, name)
    PROVE  Known(q, d)
<1>1. Kin(r, q, {}, {"complete", "blocks"})
  BY DEF Outcome
<1>2. \A i \in DOMAIN r.files : q.files[i].target = r.files[i].target
  BY <1>1 DEF Kin, FileKin, FileFields
<1>3. \A i \in DOMAIN r.files : q.files[i].complete \in {r.files[i].complete, name}
  BY DEF Outcome
<1>4. \A i \in DOMAIN r.files : /\ q.files[i].target \in DOMAIN d \cup {NoName}
                                /\ q.files[i].complete \in DOMAIN d \cup {NoName}
  BY <1>2, <1>3 DEF Known
<1> QED BY <1>1, <1>4, KnownKin

LEMMA KnownUpdated ==
    ASSUME NEW r, NEW d, Known(r, d)
    PROVE  Known(Updated(r), d)
<1>1. Updated(r).files = r.files
  BY DEF Updated
<1> QED BY <1>1, KnownSame

\* VerifyTarget and VerifyExtra: a file was looked for.
LEMMA KnownOpened ==
    ASSUME NEW r, Shaped(r), NEW d, Known(r, d), NEW i \in r.todo
    PROVE  /\ Known(Done(r, i), d)
           /\ r.files[i].name \in DOMAIN d => Known(Opened(r, i), d)
<1>1. Done(r, i).files = r.files
  BY DoneIs
<1>2. Known(Done(r, i), d)
  BY <1>1, KnownSame
<1>3. ASSUME r.files[i].name \in DOMAIN d PROVE Known(Opened(r, i), d)
  <2> DEFINE q == Opened(r, i)
  <2>1. Kin(r, q, {"todo"}, {"target"}) /\ OneFile(r, q, i, [r.files[i] EXCEPT !.target = r.files[i].name])
    BY OpenedIs
  <2>2. i \in DOMAIN r.files /\ FileFields \subseteq DOMAIN r.files[i]
    BY DEF Shaped
  <2> HIDE DEF q
  <2>3. \A j \in DOMAIN r.files : /\ q.files[j].target \in {r.files[j].target, r.files[i].name}
                                  /\ q.files[j].complete = r.files[j].complete
    BY <2>1, <2>2 DEF OneFile, FileFields
  <2>4. \A j \in DOMAIN r.files : /\ q.files[j].target \in DOMAIN d \cup {NoName}
                                  /\ q.files[j].complete \in DOMAIN d \cup {NoName}
    BY <1>3, <2>3 DEF Known
  <2>5. Known(q, d)
    BY <2>1, <2>4, KnownKin
  <2> QED BY <2>5 DEF q
<1> QED BY <1>2, <1>3

LEMMA TargetUpheld ==
    ASSUME NEW r, Shaped(r), NEW d, Known(r, d), NEW i \in r.todo, NEW q, NEW name, name = r.files[i].name,
           \/ name \in DOMAIN d /\ \E p : Outcome(Opened(r, i), p, d, name) /\ (q = p \/ q = Updated(p))
           \/ name \in DOMAIN d /\ q = [Opened(r, i) EXCEPT !.finalresult = FALSE]
           \/ q = [Done(r, i) EXCEPT !.unopened = @ \cup {name}]
           \/ q = Done(r, i) /\ name \notin DOMAIN d
    PROVE  Known(q, d)
<1>1. ASSUME name \in DOMAIN d, NEW p, Outcome(Opened(r, i), p, d, name), q = p \/ q = Updated(p)
      PROVE  Known(q, d)
  <2>1. Known(Opened(r, i), d)
    BY <1>1, KnownOpened
  <2>2. Known(p, d)
    BY <2>1, <1>1, KnownOutcome
  <2> QED BY <1>1, <2>2, KnownUpdated
<1>2. CASE name \in DOMAIN d /\ q = [Opened(r, i) EXCEPT !.finalresult = FALSE]
  <2>1. PICK o : o = Opened(r, i)
    OBVIOUS
  <2>2. Known(o, d)
    BY <1>2, <2>1, KnownOpened
  <2>3. q.files = o.files
    BY <1>2, <2>1
  <2> QED BY <2>2, <2>3, KnownSame
<1>3. CASE q = [Done(r, i) EXCEPT !.unopened = @ \cup {name}]
  <2>1. PICK o : o = Done(r, i)
    OBVIOUS
  <2>2. Known(o, d)
    BY <2>1, KnownOpened
  <2>3. q.files = o.files
    BY <1>3, <2>1
  <2> QED BY <2>2, <2>3, KnownSame
<1>4. CASE q = Done(r, i)
  BY <1>4, KnownOpened
<1> QED BY <1>1, <1>2, <1>3, <1>4

LEMMA LookedUpheld ==
    ASSUME IInv, Known(repairer, disk), Solid(disk), VerifyOneSourceFile \/ VerifySourceFiles1
    PROVE  Upheld
<1>1. at = "verify" /\ at \in RepairPlaces /\ disk' = disk
  BY DEF VerifyOneSourceFile, VerifySourceFiles1, RepairPlaces
<1>2. Shaped(repairer)
  BY <1>1, StageNow
<1>3. ASSUME VerifyOneSourceFile PROVE Known(repairer', disk)
  <2>1. PICK i \in repairer.todo :
          LET name == repairer.files[i].name IN
          \/ name \in DOMAIN disk /\ repairer' \in Verified(Opened(repairer, i), name)
          \/ name \in DOMAIN disk /\ repairer' = [Opened(repairer, i) EXCEPT !.finalresult = FALSE]
          \/ repairer' = [Done(repairer, i) EXCEPT !.unopened = @ \cup {name}]
          \/ repairer' = Done(repairer, i) /\ name \notin DOMAIN disk
    BY <1>3, Zenon DEF VerifyOneSourceFile, VerifyTarget, Done, Opened, FileExists
  <2>2. PICK name : name = repairer.files[i].name
    OBVIOUS
  <2>3. Shaped(Opened(repairer, i))
    BY <1>2, OpenedIs
  <2>4. ASSUME repairer' \in Verified(Opened(repairer, i), name)
        PROVE  Outcome(Opened(repairer, i), repairer', disk, name)
    BY <2>3, <2>4, VerifiedIs
  <2> QED BY <1>2, <2>1, <2>2, <2>4, TargetUpheld
<1>4. ASSUME VerifySourceFiles1 PROVE Known(repairer', disk)
  <2>1. PICK i \in InOrder(repairer.todo) :
          LET name == repairer.files[i].name IN
          \/ /\ name \in DOMAIN disk
             /\ \E p \in VerifyDataFile1(Opened(repairer, i), name) : repairer' = Updated(p)
          \/ name \in DOMAIN disk /\ repairer' = [Opened(repairer, i) EXCEPT !.finalresult = FALSE]
          \/ repairer' = [Done(repairer, i) EXCEPT !.unopened = @ \cup {name}]
          \/ repairer' = Done(repairer, i) /\ name \notin DOMAIN disk
    BY <1>4, Zenon DEF VerifySourceFiles1, VerifyTarget, Done, Opened, FileExists
  <2>2. PICK name : name = repairer.files[i].name
    OBVIOUS
  <2>3. i \in repairer.todo
    BY <1>2, InOrderIs DEF Shaped
  <2>4. Shaped(Opened(repairer, i)) /\ Kin(repairer, Opened(repairer, i), {"todo"}, {"target"})
    BY <1>2, <2>3, OpenedIs
  <2>5. Opened(repairer, i).version = "par1"
    BY <1>4, <2>4 DEF Kin, Rest, Fields, VerifySourceFiles1
  <2>6. ASSUME NEW p \in VerifyDataFile1(Opened(repairer, i), name)
        PROVE  Outcome(Opened(repairer, i), p, disk, name)
    BY <2>4, <2>5, Verified1Is
  <2> QED BY <1>2, <2>1, <2>2, <2>3, <2>6, TargetUpheld
<1> QED BY <1>1, <1>3, <1>4 DEF Upheld

LEMMA ExtraUpheld ==
    ASSUME IInv, Known(repairer, disk), Solid(disk), VerifyExtraFiles \/ VerifyExtraFiles1
    PROVE  Upheld
<1> DEFINE name == Head(repairer.extrafiles)
<1>1. at = "extras" /\ at \in RepairPlaces /\ disk' = disk /\ repairer.extrafiles # <<>>
  BY DEF VerifyExtraFiles, VerifyExtraFiles1, VerifyExtra, RepairPlaces
<1>2. Shaped(repairer)
  BY <1>1, StageNow
<1>3. /\ Shaped(Taken(repairer)) /\ Kin(repairer, Taken(repairer), {"extrafiles"}, {})
      /\ Taken(repairer).files = repairer.files
  BY <1>1, <1>2, TakenIs
<1>4. Known(Taken(repairer), disk)
  BY <1>3, KnownSame
<1>5. ASSUME name \in DOMAIN disk, NEW p, Outcome(Taken(repairer), p, disk, name) PROVE Known(Updated(p), disk)
  BY <1>4, <1>5, KnownOutcome, KnownUpdated
<1>6. ASSUME VerifyExtraFiles PROVE Known(repairer', disk)
  <2>1. \/ repairer' = Taken(repairer)
        \/ /\ name \in DOMAIN disk
           /\ \/ \E p \in Verified(Taken(repairer), name) : repairer' = Updated(p)
              \/ \E upto : repairer' = Updated(WithBlocks(Taken(repairer), name, upto))
    BY <1>6 DEF VerifyExtraFiles, VerifyExtra, Taken, FileExists
  <2> HIDE DEF name
  <2>2. /\ \A p \in Verified(Taken(repairer), name) : Outcome(Taken(repairer), p, disk, name)
        /\ \A upto : Outcome(Taken(repairer), WithBlocks(Taken(repairer), name, upto), disk, name)
    BY <1>3, VerifiedIs, BlocksFound
  <2> QED BY <1>4, <1>5, <2>1, <2>2
<1>7. ASSUME VerifyExtraFiles1 PROVE Known(repairer', disk)
  <2>1. \/ repairer' = Taken(repairer)
        \/ /\ name \in DOMAIN disk
           /\ \/ \E p \in VerifyDataFile1(Taken(repairer), name) : repairer' = Updated(p)
              \/ repairer' = Updated(Taken(repairer))
    BY <1>7 DEF VerifyExtraFiles1, VerifyExtra, Taken, FileExists
  <2>2. Taken(repairer).version = "par1"
    BY <1>3, <1>7 DEF Kin, Rest, Fields, VerifyExtraFiles1
  <2> HIDE DEF name
  <2>3. \A p \in VerifyDataFile1(Taken(repairer), name) : Outcome(Taken(repairer), p, disk, name)
    BY <1>3, <2>2, Verified1Is
  <2> QED BY <1>4, <1>5, <2>1, <2>3, KnownUpdated
<1> QED BY <1>1, <1>6, <1>7 DEF Upheld

\* The steps that leave the disk and the files as they are.
LEMMA RestUpheld ==
    ASSUME IInv, Known(repairer, disk), Solid(disk), at \in RepairPlaces,
           \/ SourceFilesVerified \/ CheckVerificationResults \/ CheckVerificationResults1
           \/ ComputeRSmatrix \/ ComputeRSmatrix1 \/ AllocateBuffers \/ AllocateBuffers1 \/ TargetFilesVerified
    PROVE  Upheld
<1>1. disk' = disk
  BY Zenon DEF SourceFilesVerified, CheckVerificationResults, CheckVerificationResults1, ComputeRSmatrix,
         ComputeRSmatrix1, WithMatrix, AllocateBuffers, AllocateBuffers1, Only2, TargetFilesVerified
<1>2. "files" \in DOMAIN repairer
  BY StageNow DEF Shaped, Fields
<1>3. CASE SourceFilesVerified \/ TargetFilesVerified
  BY <1>3, <1>1 DEF SourceFilesVerified, TargetFilesVerified, Upheld
<1>4. CASE CheckVerificationResults \/ CheckVerificationResults1
  <2>1. \E p : repairer' = [Updated(repairer) EXCEPT !.possible = p]
    BY <1>4 DEF CheckVerificationResults, CheckVerificationResults1, Checked
  <2>2. repairer'.files = repairer.files
    BY <1>2, <2>1 DEF Updated
  <2> QED BY <1>1, <2>2, KnownSame DEF Upheld
<1>5. CASE ComputeRSmatrix \/ ComputeRSmatrix1
  <2>1. PICK blocks, exponents, base : WithMatrix(blocks, exponents, base)
    BY <1>5, SMTT(30) DEF ComputeRSmatrix, ComputeRSmatrix1
  <2> DEFINE slots == Slots
             target(n) == repairer.files[slots[n][1]].targets[slots[n][2]]
             present == [n \in DOMAIN slots |-> IsSet(blocks[n])]
             missing == {n \in DOMAIN slots : ~present[n]}
             copied == {n \in DOMAIN slots \ missing : IsSet(target(n))}
             matrix == Compute(base, present,
                               [k \in DOMAIN exponents |-> OutputRow(TRUE, exponents[k])])
             inputblocks == SelectSeq(blocks, IsSet)
                              \o [k \in DOMAIN exponents |-> repairer.recovery[exponents[k]]]
             copyblocks == [n \in copied |-> <<blocks[n], target(n)>>]
             outputblocks == [n \in missing |-> target(n)]
  <2>2. repairer' = [repairer EXCEPT !.matrix = matrix, !.inputblocks = inputblocks,
                       !.copyblocks = copyblocks, !.outputblocks = outputblocks]
    BY <2>1 DEF WithMatrix
  <2> HIDE DEF matrix, inputblocks, copyblocks, outputblocks
  <2>3. repairer'.files = repairer.files
    BY <1>2, <2>2
  <2> QED BY <1>1, <2>3, KnownSame DEF Upheld
<1>6. CASE AllocateBuffers \/ AllocateBuffers1
  <2>1. \E n : repairer' = [repairer EXCEPT !.chunksize = n]
    BY <1>6 DEF AllocateBuffers, AllocateBuffers1, Only2
  <2>2. repairer'.files = repairer.files
    BY <1>2, <2>1
  <2> QED BY <1>1, <2>2, KnownSame DEF Upheld
<1> QED BY <1>3, <1>4, <1>5, <1>6

\* RenameTargetFiles: whatever the file is now called.
LEMMA KnownMoved ==
    ASSUME NEW r, Shaped(r), NEW d, Solid(d), Known(r, d), NEW from \in DOMAIN d, NEW to, NEW i \in DOMAIN r.files,
           NEW t \in {NoName, to}, NEW q, q.files = Moved(r, from, to, i, t).files
    PROVE  Solid(Rename(d, from, to)) /\ Known(q, Rename(d, from, to))
<1>1. DOMAIN Rename(d, from, to) = (DOMAIN d \ {from}) \cup {to}
  BY DEF Rename, Put, Delete, DeleteAll
<1>2. PICK p : p = Moved(r, from, to, i, t)
  OBVIOUS
<1>3. Kin(r, p, {}, {"target", "complete", "blocks"}) /\ Renames(r, p, from, to, i, t)
  BY <1>2, MovedIs
<1>4. \A j \in DOMAIN r.files :
        /\ p.files[j].target \in DOMAIN Rename(d, from, to) \cup {NoName}
        /\ p.files[j].complete \in DOMAIN Rename(d, from, to) \cup {NoName}
  BY <1>1, <1>3 DEF Renames, Now, Known
<1>5. Known(p, Rename(d, from, to))
  BY <1>3, <1>4, KnownKin
<1> QED BY <1>2, <1>5, KnownSame, SolidRename

LEMMA RenamingUpheld ==
    ASSUME IInv, Known(repairer, disk), Solid(disk), RenameTargetFiles \/ RenameTargetFiles1
    PROVE  Upheld
<1> DEFINE damaged == {i \in Files : Damaged(repairer.files[i])}
           misnamed == {i \in Files : Misnamed(repairer.files[i])}
<1>1. at = "rename" /\ at \in RepairPlaces /\ Renaming
  BY DEF RenameTargetFiles, RenameTargetFiles1, RepairPlaces
<1>2. Shaped(repairer)
  BY <1>1, StageNow
<1>3. CASE UNCHANGED <<disk, repairer>>
  BY <1>3 DEF Upheld
<1>4. CASE damaged # {}
  <2>1. RenameDamaged
    BY <1>1, <1>4 DEF Renaming, None
  <2>2. PICK i : i = Min(damaged)
    OBVIOUS
  <2>3. i \in Files /\ Damaged(repairer.files[i])
    <3>1. damaged \subseteq Files
      OBVIOUS
    <3>2. i \in damaged
      BY <2>2, <3>1, <1>2, <1>4, FirstIs DEF Files
    <3> QED BY <3>2
  <2>4. PICK from : from = repairer.files[i].target
    OBVIOUS
  <2>5. PICK to : to = NewName(disk, from)
    OBVIOUS
  <2>6. from \in DOMAIN disk
    BY <2>3, <2>4 DEF Damaged, Known, Files
  <2>7. CASE disk' = Rename(disk, from, to) /\ repairer' = Moved(repairer, from, to, i, NoName)
    BY <1>2, <2>3, <2>6, <2>7, KnownMoved DEF Files, Upheld
  <2> QED BY <1>3, <2>1, <2>2, <2>4, <2>5, <2>7, Zenon DEF RenameDamaged, First, Moved
<1>5. CASE damaged = {} /\ misnamed # {}
  <2>1. RenameMisnamed
    BY <1>1, <1>5 DEF Renaming, None
  <2>2. PICK i : i = Min(misnamed)
    OBVIOUS
  <2>3. i \in Files /\ Misnamed(repairer.files[i])
    <3>1. misnamed \subseteq Files
      OBVIOUS
    <3>2. i \in misnamed
      BY <2>2, <3>1, <1>2, <1>5, FirstIs DEF Files
    <3> QED BY <3>2
  <2>4. PICK from : from = repairer.files[i].complete
    OBVIOUS
  <2>5. PICK to : to = repairer.files[i].name
    OBVIOUS
  <2>6. from \in DOMAIN disk
    BY <2>3, <2>4 DEF Misnamed, Known, Files
  <2>7. CASE /\ disk' = Rename(disk, from, to)
             /\ repairer' = [Renamed(repairer, from, to) EXCEPT !.files[i].target = to,
                               !.completefilecount = @ + 1]
    <3>1. PICK o : o = Renamed(repairer, from, to)
      OBVIOUS
    <3>2. DOMAIN o = DOMAIN repairer /\ Fields \subseteq DOMAIN repairer
      BY <1>2, <3>1, Zenon DEF Renamed, Shaped
    <3>3. repairer' = [o EXCEPT !.files[i].target = to, !.completefilecount = @ + 1]
      BY <2>7, <3>1
    <3>4. repairer'.files = [o EXCEPT !.files[i].target = to].files
      BY <3>2, <3>3 DEF Fields
    <3>5. repairer'.files = Moved(repairer, from, to, i, to).files
      BY <3>1, <3>4 DEF Moved
    <3> QED BY <1>2, <2>3, <2>6, <2>7, <3>5, KnownMoved DEF Files, Upheld
  <2> QED BY <1>3, <2>1, <2>2, <2>4, <2>5, <2>7, Zenon DEF RenameMisnamed, First
<1>6. CASE damaged = {} /\ misnamed = {}
  BY <1>1, <1>3, <1>6 DEF Renaming, None, AllRenamed
<1> QED BY <1>4, <1>5, <1>6

\* CreateTargetFiles: the next of those that are lacking.
LEMMA CreationUpheld ==
    ASSUME IInv, Known(repairer, disk), Solid(disk), CreateTargetFiles \/ CreateTargetFiles1
    PROVE  Upheld
<1>1. at = "targets" /\ at \in RepairPlaces /\ ~None(Lacking) /\ \E targets : Creation(targets)
  BY Zenon DEF CreateTargetFiles, CreateTargetFiles1, Creation, RepairPlaces
<1>2. Shaped(repairer)
  BY <1>1, StageNow
<1>3. PICK i : i = First(Lacking)
  OBVIOUS
<1>4. i \in Files /\ repairer.files[i].target = NoName
  BY <1>1, <1>3, LackingIs
<1>5. PICK targets : Creation(targets)
  BY <1>1
<1>6. PICK name : name = repairer.files[i].name
  OBVIOUS
<1>7. PICK n : n = Len(repairer.files[i].content)
  OBVIOUS
<1>8. n \in Int
  <2>1. IsList(repairer.files[i].content)
    BY <1>4 DEF Known, Files
  <2>2. n \in Nat
    BY <1>7, <2>1, ListFacts
  <2> QED BY <2>2
<1>9. CASE disk' \in CreateFailures(disk, name) /\ at' = "end"
  BY <1>9, SolidFailure DEF Upheld, RepairPlaces
<1>10. CASE /\ disk' = Create(disk, name, n)
            /\ repairer' = [repairer EXCEPT !.files[i].target = name,
                              !.files[i].targets = targets, !.verifylist = Append(@, i)]
  <2>1. Solid(disk') /\ DOMAIN disk' = DOMAIN disk \cup {name}
    BY <1>8, <1>10, SolidCreate, CreateIs DEF Added
  <2>2. repairer'.files = [repairer.files EXCEPT ![i] =
                             [repairer.files[i] EXCEPT !.target = name, !.targets = targets]]
    BY <1>2, <1>4, <1>10 DEF Shaped, Fields, FileFields, Files
  <2>3. /\ DOMAIN repairer'.files = DOMAIN repairer.files
        /\ \A j \in DOMAIN repairer.files :
             /\ repairer'.files[j].content = repairer.files[j].content
             /\ repairer'.files[j].complete = repairer.files[j].complete
             /\ repairer'.files[j].target \in {repairer.files[j].target, name}
    BY <1>2, <2>2 DEF Shaped, FileFields
  <2>4. Known(repairer', disk')
    BY <2>1, <2>3 DEF Known
  <2> QED BY <2>1, <2>4 DEF Upheld
<1> QED BY <1>3, <1>5, <1>6, <1>7, <1>9, <1>10 DEF Creation, End

\* ProcessData.
LEMMA ProcessUpheld ==
    ASSUME IInv, Known(repairer, disk), Solid(disk), ProcessData \/ ProcessData1
    PROVE  Upheld
<1>1. PICK copies, outputs : \E able : Processed(copies, outputs, able)
  BY DEF ProcessData, ProcessData1
<1>2. PICK copied : copied = AllWrites(disk, copies)
  OBVIOUS
<1>3. \/ disk' = AllWrites(copied, outputs) \/ disk' = disk
      \/ disk' \in SomeWrites(disk, copies) \/ disk' \in SomeWrites(copied, outputs)
  BY <1>1, <1>2 DEF Processed
<1>4. repairer' = repairer \/ \E n : repairer' = [repairer EXCEPT !.blockoffset = n]
  BY <1>1 DEF Processed
<1>5. repairer'.files = repairer.files
  <2>1. at \in RepairPlaces
    BY DEF ProcessData, ProcessData1, RepairPlaces
  <2>2. "files" \in DOMAIN repairer
    BY <2>1, StageNow DEF Shaped, Fields
  <2> QED BY <1>4, <2>2
<1>6. Solid(copied) /\ DOMAIN copied = DOMAIN disk
  BY <1>2, SolidWrites, WritesFit
<1>7. Solid(disk') /\ DOMAIN disk' = DOMAIN disk
  <2>1. Solid(disk')
    BY <1>3, <1>6, SolidWrites
  <2>2. DOMAIN disk' = DOMAIN disk
    BY <1>3, <1>6, WritesFit
  <2> QED BY <2>1, <2>2
<1> QED BY <1>5, <1>7, KnownSame DEF Upheld

\* VerifyTargetFiles: one of the files that were made was looked at again.
LEMMA RecheckUpheld ==
    ASSUME IInv, Known(repairer, disk), Solid(disk), VerifyTargetFiles \/ VerifyTargetFiles1
    PROVE  Upheld
<1>1. at = "reverify" /\ at \in RepairPlaces /\ disk' = disk
  BY Zenon DEF VerifyTargetFiles, VerifyTargetFiles1, Reverify, RepairPlaces
<1>2. Shaped(repairer) /\ ToSet(repairer.verifylist) \subseteq DOMAIN repairer.files
  BY <1>1, StageNow DEF Shaped
<1>3. ASSUME NEW i \in DOMAIN repairer.files
      PROVE  /\ Known(Forgotten(repairer, i), disk) /\ Shaped(Forgotten(repairer, i))
             /\ Forgotten(repairer, i).version = repairer.version
             /\ repairer.files[i].target \in DOMAIN disk \cup {NoName}
  <2>1. PICK q : q = Forgotten(repairer, i)
    OBVIOUS
  <2>2. /\ Kin(repairer, q, {"todo"}, {"complete", "blocks"}) /\ Shaped(q)
        /\ \A j \in DOMAIN repairer.files : q.files[j].complete \in {NoName, repairer.files[j].complete}
    BY <1>2, <2>1, ForgottenIs
  <2>3. q.version = repairer.version /\ \A j \in DOMAIN repairer.files : q.files[j].target = repairer.files[j].target
    BY <2>2 DEF Kin, Rest, Fields, FileKin, FileFields
  <2>4. \A j \in DOMAIN repairer.files : /\ q.files[j].target \in DOMAIN disk \cup {NoName}
                                         /\ q.files[j].complete \in DOMAIN disk \cup {NoName}
    BY <2>2, <2>3 DEF Known
  <2>5. Known(q, disk)
    BY <2>2, <2>4, KnownKin
  <2> QED BY <2>1, <2>2, <2>3, <2>5 DEF Known
<1>4. PICK i \in ToSet(repairer.verifylist) :
        \/ \E p \in Verified(Forgotten(repairer, i), repairer.files[i].target) : repairer' = Updated(p)
        \/ /\ repairer.version = "par1"
           /\ \E p \in VerifyDataFile1(Forgotten(repairer, i), repairer.files[i].target) : repairer' = Updated(p)
        \/ repairer' = [Forgotten(repairer, i) EXCEPT !.finalresult = FALSE]
  <2>1. CASE VerifyTargetFiles
    BY <2>1, Zenon DEF VerifyTargetFiles, Reverify, Forgotten
  <2>2. CASE VerifyTargetFiles1
    <3>1. PICK i \in InOrder(ToSet(repairer.verifylist) \ repairer.todo) :
            \/ \E p \in VerifyDataFile1(Forgotten(repairer, i), repairer.files[i].target) : repairer' = Updated(p)
            \/ repairer' = [Forgotten(repairer, i) EXCEPT !.finalresult = FALSE]
      BY <2>2, Zenon DEF VerifyTargetFiles1, Reverify, Forgotten
    <3>2. i \in ToSet(repairer.verifylist) \ repairer.todo
      BY <1>2, InOrderIs
    <3>3. repairer.version = "par1"
      BY <2>2 DEF VerifyTargetFiles1
    <3> QED BY <3>1, <3>2, <3>3
  <2> QED BY <2>1, <2>2
<1>5. PICK f : f = Forgotten(repairer, i)
  OBVIOUS
<1>6. PICK name : name = repairer.files[i].target
  OBVIOUS
<1>7. Known(f, disk) /\ Shaped(f) /\ f.version = repairer.version /\ name \in DOMAIN disk \cup {NoName}
  BY <1>2, <1>3, <1>4, <1>5, <1>6
<1>8. ASSUME NEW p, Outcome(f, p, disk, name), repairer' = Updated(p) PROVE Upheld
  <2>1. Known(Updated(p), disk)
    BY <1>7, <1>8, KnownOutcome, KnownUpdated
  <2> QED BY <1>1, <1>8, <2>1 DEF Upheld
<1>9. CASE repairer' = [f EXCEPT !.finalresult = FALSE]
  <2>1. repairer'.files = f.files
    BY <1>7, <1>9 DEF Shaped, Fields
  <2> QED BY <1>1, <1>7, <2>1, KnownSame DEF Upheld
<1>10. /\ \A p \in Verified(f, name) : Outcome(f, p, disk, name)
       /\ f.version = "par1" => \A p \in VerifyDataFile1(f, name) : Outcome(f, p, disk, name)
  BY <1>7, VerifiedIs, Verified1Is
<1>11. \/ \E p \in Verified(f, name) : repairer' = Updated(p)
       \/ f.version = "par1" /\ \E p \in VerifyDataFile1(f, name) : repairer' = Updated(p)
       \/ repairer' = [f EXCEPT !.finalresult = FALSE]
  BY <1>4, <1>5, <1>6, <1>7
<1> QED BY <1>8, <1>9, <1>10, <1>11

LEMMA DeletionUpheld ==
    ASSUME Solid(disk), DeleteIncompleteTargetFiles \/ DeleteIncompleteTargetFiles1
    PROVE  Upheld
<1>1. at' = "end" /\ \E names : disk' = DeleteAll(disk, names)
  BY DEF DeleteIncompleteTargetFiles, DeleteIncompleteTargetFiles1, Deletion, End
<1> QED BY <1>1, SolidDelete DEF Upheld, RepairPlaces

\* LoadPackets and LoadRecoveryFiles: the files are those of the set.
Contents == \A i \in DOMAIN set.files : IsList(set.files[i].content)
LEMMA LoadUpheld ==
    ASSUME IInv, Contents, Known(repairer, disk), Solid(disk), LoadPackets \/ LoadRecoveryFiles
    PROVE  Upheld
<1>1. at = "load" /\ at \in RepairPlaces /\ disk' = disk
  BY DEF LoadPackets, LoadRecoveryFiles, RepairPlaces
<1>2. "files" \in DOMAIN repairer
  BY <1>1, StageNow DEF Shaped, Fields
<1>3. ASSUME NEW described, NEW verifiable, NEW count,
             repairer'.files = [i \in DOMAIN set.files |->
               SourceFile(set.files[i], described[i], verifiable[i], count[i])]
      PROVE  Known(repairer', disk)
  BY <1>3 DEF Known, SourceFile, Contents
<1>4. CASE UNCHANGED repairer
  BY <1>1, <1>4 DEF Upheld
<1>5. ASSUME LoadPackets, ~UNCHANGED repairer PROVE Known(repairer', disk)
  <2>1. PICK d : Loaded(d)
    BY <1>5 DEF LoadPackets
  <2> DEFINE packets == UNION {ToSet(d[name]) : name \in PacketFiles}
             described == [i \in DOMAIN set.files |-> DescriptionPacket(set.files[i].name) \in packets]
             verifiable == [i \in DOMAIN set.files |-> VerificationPacket(set.files[i].name) \in packets]
             count == [i \in DOMAIN set.files |-> CeilDiv(Len(set.files[i].content), set.blocksize)]
             files == [i \in DOMAIN set.files |->
                         SourceFile(set.files[i], DescriptionPacket(set.files[i].name) \in packets,
                                    VerificationPacket(set.files[i].name) \in packets,
                                    CeilDiv(Len(set.files[i].content), set.blocksize))]
             todo == {i \in DOMAIN files : files[i].described}
             final == \A i \in DOMAIN files : files[i].described
             recovery == RecoveryMap(d)
  <2>2. repairer' = [repairer EXCEPT !.blocksize = set.blocksize, !.files = files,
                       !.recovery = recovery, !.todo = todo, !.finalresult = final]
    BY <1>5, <2>1 DEF Loaded
  <2>3. files = [i \in DOMAIN set.files |-> SourceFile(set.files[i], described[i], verifiable[i], count[i])]
    OBVIOUS
  <2> HIDE DEF files, todo, final, recovery, described, verifiable, count
  <2>4. repairer'.files = files
    BY <1>2, <2>2
  <2> QED BY <1>3, <2>3, <2>4
<1>6. ASSUME LoadRecoveryFiles PROVE Known(repairer', disk)
  <2> DEFINE files == [i \in DOMAIN set.files |-> SourceFile(set.files[i], TRUE, TRUE, 1)]
  <2>1. PICK names :
          repairer' = [repairer EXCEPT !.files = IF names = {} THEN <<>> ELSE files, !.recovery = Volumes(names),
                         !.blocksize = IF names = {} THEN 0 ELSE set.blocksize,
                         !.todo = DOMAIN IF names = {} THEN <<>> ELSE files]
    BY <1>6, Zenon DEF LoadRecoveryFiles
  <2> HIDE DEF files
  <2>2. repairer'.files = <<>> \/ repairer'.files = files
    BY <1>2, <2>1
  <2>3. CASE repairer'.files = <<>>
    BY <2>3 DEF Known
  <2>4. CASE repairer'.files = files
    <3> DEFINE all == [i \in DOMAIN set.files |-> TRUE]
               ones == [i \in DOMAIN set.files |-> 1]
    <3>1. files = [i \in DOMAIN set.files |-> SourceFile(set.files[i], all[i], all[i], ones[i])]
      BY DEF files
    <3> HIDE DEF all, ones
    <3> QED BY <1>3, <2>4, <3>1
  <2> QED BY <2>2, <2>3, <2>4
<1> QED BY <1>1, <1>4, <1>5, <1>6 DEF Upheld

LEMMA RepairUpheld ==
    ASSUME IInv, Contents, at \in RepairPlaces => Known(repairer, disk), Solid(disk), RepairStep \/ Par1Step
    PROVE  at \in RepairPlaces /\ Upheld
<1>1. at \in RepairPlaces
  BY PacketsLoaded, OneSourceFile, SourceFilesDone, ExtraFiles, ResultsChecked, TargetsRenamed, TargetFiles,
     MatrixIs, Buffers, DataProcessed, OneTargetFile, TargetFilesDone, TargetsDeleted, RecoveryFilesLoaded,
     SourceFiles1, ExtraFiles1, TargetFiles1, OneTargetFile1 DEF RepairStep, Par1Step
<1> QED BY <1>1, LoadUpheld, LookedUpheld, ExtraUpheld, RestUpheld, RenamingUpheld, CreationUpheld,
           ProcessUpheld, RecheckUpheld, DeletionUpheld DEF RepairStep, Par1Step

-----------------------------------------------------------------------------
(* What has been decided when the blocks of the files are made *)

Deciding == {"sizes", "redundancy", "chunks", "files", "open", "main", "blocks"}
CreatorFields == {"blocksize", "sourceblockcount", "extrafiles", "redundancy", "recoveryblockcount",
                  "filecount", "firstblock", "scheme", "largest", "sources", "criticals", "blocks",
                  "allocations", "next"}
Alters(c, q, F) == CreatorFields \subseteq DOMAIN q /\ \A x \in CreatorFields \ F : q[x] = c[x]
FileSizes(c) == [i \in DOMAIN c.extrafiles |-> c.extrafiles[i].size]

\* What the command line gave.
Given(c) ==
    /\ CreatorFields \subseteq DOMAIN c
    /\ IsList(c.extrafiles) /\ c.extrafiles # <<>> /\ Once(Names(c.extrafiles))
    /\ ToSet(Names(c.extrafiles)) \subseteq DOMAIN FileId
    /\ \A i \in DOMAIN c.extrafiles : c.extrafiles[i].size \in Nat \ {0}
    /\ c.recoveryblockcount \in Nat /\ c.filecount \in Nat /\ c.firstblock \in Int /\ c.redundancy \in Int
    /\ c.largest \in Nat \ {0} /\ c.scheme \in {"uniform", "variable", "limited"}
\* The files are as long as they were.
Same(c, d) == \A i \in DOMAIN c.extrafiles : c.extrafiles[i].size = GetFileSize(d, c.extrafiles[i].name)
Decided(c) ==
    /\ c.blocksize \in Nat \ {0} /\ c.sourceblockcount <= Half
    /\ c.sourceblockcount = CountOf(FileSizes(c), c.blocksize)
Fit(c) == c.redundancy > 0 => c.firstblock + c.recoveryblockcount < Count
LaidOut(c) ==
    /\ IsList(c.allocations) /\ \A i \in DOMAIN c.allocations : c.allocations[i].count \in Int
    /\ c.next \in DOMAIN c.allocations
CreationInv(place, c, d) ==
    /\ Given(c)
    /\ place \in Deciding => Same(c, d) /\ c.blocks = <<>>
    /\ IF place = "sizes"
       THEN c.blocksize \in Nat /\ c.sourceblockcount \in Nat /\ c.sourceblockcount <= Half
       ELSE Decided(c)
    /\ place \in {"sizes", "redundancy"} \/ Fit(c)
    /\ place = "main" => c.sources = Names(c.extrafiles)
    /\ place = "blocks" => Once(c.sources) /\ ToSet(c.sources) = ToSet(Names(c.extrafiles))
    /\ place \in {"main", "blocks", "layout", "outputs"} => IsList(c.criticals)
    /\ IF place = "outputs" THEN LaidOut(c) ELSE c.next = 1

\* Numbers that are not 0 have a greatest one among them.
LEMMA LargestIs ==
    ASSUME NEW l, IsList(l), l # <<>>, \A i \in DOMAIN l : l[i].size \in Nat \ {0}
    PROVE  Max({l[i].size : i \in DOMAIN l}) \in Nat \ {0}
<1> DEFINE s == [i \in DOMAIN l |-> l[i].size]
           S == {l[i].size : i \in DOMAIN l}
<1>1. s = [i \in DOMAIN l |-> s[i]] /\ ToSet(s) = S
  BY DEF ToSet
<1>2. IsList(s)
  <2> HIDE DEF s
  <2> QED BY <1>1, ListLike
<1> HIDE DEF s
<1>3. IsFiniteSet(S)
  <2> HIDE DEF S
  <2> QED BY <1>1, <1>2, SetIsFinite
<1>4. S # {}
  <2>1. l \in Seq(ToSet(l))
    BY DEF IsList
  <2>2. 1 \in DOMAIN l
    BY <2>1, EmptySeq, ListFacts
  <2> QED BY <2>2
<1>5. S \in SUBSET Nat /\ 0 \notin S
  OBVIOUS
<1> HIDE DEF S
<1>6. \E x \in S : \A y \in S : y <= x
  BY <1>3, <1>4, <1>5, Greatest
<1>7. \E x \in S : \A y \in S : x >= y
  BY <1>5, <1>6
<1>8. Max(S) \in S
  BY <1>7 DEF Max
<1> QED BY <1>5, <1>8 DEF S

\* Dispatch: the settings and the defaults are in order.
LEMMA CreationBegins ==
    ASSUME Solid(disk), NEW s, s.ok, Listed(s), Setting(s), NEW c, c = Defaults(s), c.ok, Creating(c)
    PROVE  CreationInv("sizes", NewCreator(c), disk)
<1> DEFINE sole == <<ExtraFile(s.parfile)>>
<1>1. SettingFields \subseteq DOMAIN s /\ Figures(s) /\ s.scheme \in {"unknown", "uniform", "limited"}
  BY DEF Setting
<1>2. s.parfile # NoName
  BY <1>1 DEF Defaults, Refused, SettingFields
<1>3. Creating(s)
  <2> SUFFICES ASSUME ~Creating(s) PROVE FALSE
    OBVIOUS
  <2>1. c.operation = s.operation
    BY <1>1, <1>2 DEF Defaults, SettingFields
  <2> QED BY <2>1 DEF Creating
<1>4. s.parfile \in DOMAIN FileId /\ \A i \in DOMAIN s.extrafiles : s.extrafiles[i].name \in DOMAIN FileId
      /\ s.extrafiles[i].size # 0
  BY <1>2, <1>3 DEF Setting
<1>5. PICK g : g = SourcesGiven(s)
  OBVIOUS
<1>6. PICK e : e = CreateDefaults(s)
  OBVIOUS
<1>7. /\ DOMAIN g = DOMAIN s /\ \A x \in SettingFields \ {"ok", "extrafiles"} : g[x] = s[x]
      /\ \/ s.extrafiles # <<>> /\ g.extrafiles = s.extrafiles
         \/ g.extrafiles = sole /\ GetFileSize(disk, s.parfile) > 0
         \/ ~g.ok
  BY <1>1, <1>5 DEF SourcesGiven, Provided, Refused, SettingFields
<1>8. /\ DOMAIN e = DOMAIN s /\ e.extrafiles = g.extrafiles /\ e.ok = g.ok
      /\ \A x \in {"blocksize", "firstblock", "filecount", "recoveryblockcount"} : e[x] = s[x]
      /\ e.scheme = IF s.scheme = "unknown" THEN "variable" ELSE s.scheme
      /\ e.blockcount = IF s.blockcount = 0 /\ s.blocksize = 0 THEN DefaultBlocks ELSE s.blockcount
      /\ e.redundancy \in {s.redundancy, 5}
  BY <1>1, <1>5, <1>6, <1>7 DEF CreateDefaults, SettingFields
<1>9. /\ \A x \in {"ok", "blocksize", "blockcount", "firstblock", "filecount", "recoveryblockcount", "scheme",
                   "redundancy", "extrafiles"} : c[x] = e[x]
  BY <1>1, <1>2, <1>3, <1>6, <1>8 DEF Defaults, SettingFields
<1>10. ASSUME NEW name \in DOMAIN FileId PROVE GetFileSize(disk, name) \in Nat
  <2>1. \A l : IsList(l) => Len(l) \in Nat
    BY ListFacts
  <2> QED BY <2>1 DEF GetFileSize, FileExists, Solid
<1> DEFINE l == c.extrafiles
<1>11. /\ IsList(l) /\ l # <<>> /\ Once(Names(l))
       /\ \A i \in DOMAIN l : l[i].name \in DOMAIN FileId /\ l[i] = ExtraFile(l[i].name) /\ l[i].size # 0
  <2>1. CASE s.extrafiles # <<>> /\ l = s.extrafiles
    BY <1>4, <2>1 DEF Listed
  <2>2. CASE l = sole /\ GetFileSize(disk, s.parfile) > 0
    <3>1. PICK file : file = ExtraFile(s.parfile)
      OBVIOUS
    <3>2. file.name = s.parfile /\ file.size = GetFileSize(disk, s.parfile)
      BY <3>1 DEF ExtraFile
    <3>3. DOMAIN l = 1 .. 1 /\ l = [i \in 1 .. 1 |-> l[i]] /\ 1 \in Nat /\ l[1] = file /\ l # <<>>
      BY <2>2, <3>1
    <3> HIDE DEF l
    <3>4. IsList(l)
      BY <3>3, ListOf
    <3>5. \A i \in 1 .. 1 : i = 1
      OBVIOUS
    <3>6. Once(Names(l))
      BY <3>3, <3>4, <3>5, NamesAre DEF Once
    <3>7. GetFileSize(disk, s.parfile) # 0
      BY <1>4, <1>10, <2>2
    <3> QED BY <1>4, <3>1, <3>2, <3>3, <3>4, <3>5, <3>6, <3>7
  <2> QED BY <1>7, <1>8, <1>9, <2>1, <2>2
<1>12. \A i \in DOMAIN l : l[i].size \in Nat \ {0} /\ l[i].size = GetFileSize(disk, l[i].name)
  <2> TAKE i \in DOMAIN l
  <2>1. PICK name : name = l[i].name
    OBVIOUS
  <2>2. name \in DOMAIN FileId /\ l[i] = ExtraFile(name) /\ l[i].size # 0
    BY <1>11, <2>1
  <2>3. l[i].size = GetFileSize(disk, name)
    BY <2>2 DEF ExtraFile
  <2> QED BY <1>10, <2>1, <2>2, <2>3
<1>13. ToSet(Names(l)) \subseteq DOMAIN FileId
  BY <1>11, NamesAre DEF ToSet
<1>14. LargestSourceSize(c) \in Nat \ {0}
  <2> HIDE DEF l
  <2>1. Max({l[i].size : i \in DOMAIN l}) \in Nat \ {0}
    BY <1>11, <1>12, LargestIs
  <2> QED BY <2>1 DEF LargestSourceSize, l
<1>15. PICK q : q = NewCreator(c)
  OBVIOUS
<1>16. /\ CreatorFields \subseteq DOMAIN q /\ q.extrafiles = l /\ q.blocksize = c.blocksize
       /\ q.sourceblockcount = c.blockcount /\ q.redundancy = c.redundancy
       /\ q.recoveryblockcount = c.recoveryblockcount /\ q.filecount = c.filecount
       /\ q.firstblock = c.firstblock /\ q.scheme = c.scheme /\ q.largest = LargestSourceSize(c)
       /\ q.blocks = <<>> /\ q.next = 1
  BY <1>15 DEF NewCreator, CreatorFields
<1> HIDE DEF l
<1>17. /\ c.blocksize \in Nat /\ c.blockcount \in Nat /\ c.blockcount <= Half /\ c.firstblock \in Int
       /\ c.recoveryblockcount \in Nat /\ c.filecount \in Nat /\ c.redundancy \in Int
       /\ c.scheme \in {"uniform", "variable", "limited"}
  <2>1. DefaultBlocks \in Nat /\ DefaultBlocks <= Half
    <3>1. DefaultBlocks \in 1 .. Half /\ Half \in Int
      BY CreateAssumption, CountIs
    <3> QED BY <3>1
  <2>2. /\ s.blocksize \in Nat /\ s.blockcount \in Nat /\ s.blockcount <= Half /\ s.firstblock \in Nat
        /\ s.recoveryblockcount \in Nat /\ s.filecount \in Nat /\ s.redundancy \in Int
    BY <1>1 DEF Figures
  <2> QED BY <1>1, <1>8, <1>9, <2>1, <2>2
<1>18. Given(q)
  BY <1>11, <1>12, <1>13, <1>14, <1>16, <1>17 DEF Given
<1>19. Same(q, disk)
  BY <1>12, <1>16 DEF Same
<1> QED BY <1>15, <1>16, <1>17, <1>18, <1>19 DEF CreationInv

\* What a step of the creation has to show.
Agreed(c) ==
    c # Nobody /\ c.blocks # <<>> =>
      /\ Len(c.blocks) = c.sourceblockcount /\ c.sourceblockcount <= Half
      /\ c.redundancy > 0 => c.firstblock + c.recoveryblockcount < Count
Advancing == Deciding \cup {"layout", "outputs"}
Advances ==
    /\ Solid(disk') /\ Contents' /\ Agreed(creator') /\ at' \in CreatePlaces \cup {"end"}
    /\ at' \in Advancing => CreationInv(at', creator', disk')
    /\ at' \in CreatePlaces \ Advancing => CreatorFields \subseteq DOMAIN creator'

LEMMA GivenSame ==
    ASSUME NEW c, Given(c), NEW q, NEW F, Alters(c, q, F),
           F \cap {"extrafiles", "firstblock", "redundancy", "largest", "scheme"} = {},
           q.recoveryblockcount \in Nat, q.filecount \in Nat
    PROVE  Given(q)
<1>1. /\ q.extrafiles = c.extrafiles /\ q.firstblock = c.firstblock /\ q.redundancy = c.redundancy
      /\ q.largest = c.largest /\ q.scheme = c.scheme /\ CreatorFields \subseteq DOMAIN q
  BY DEF Alters, CreatorFields
<1> QED BY <1>1 DEF Given
LEMMA DecidedSame ==
    ASSUME NEW c, Decided(c), NEW q, NEW F, Alters(c, q, F),
           F \cap {"extrafiles", "blocksize", "sourceblockcount"} = {}
    PROVE  Decided(q)
<1>1. q.extrafiles = c.extrafiles /\ q.blocksize = c.blocksize /\ q.sourceblockcount = c.sourceblockcount
  BY DEF Alters, CreatorFields
<1> QED BY <1>1 DEF Decided, FileSizes
LEMMA FitSame ==
    ASSUME NEW c, Fit(c), NEW q, NEW F, Alters(c, q, F),
           F \cap {"redundancy", "firstblock", "recoveryblockcount"} = {}
    PROVE  Fit(q)
<1>1. q.redundancy = c.redundancy /\ q.firstblock = c.firstblock /\ q.recoveryblockcount = c.recoveryblockcount
  BY DEF Alters, CreatorFields
<1> QED BY <1>1 DEF Fit

\* How many files there are, and how long they are.
LEMMA SizesGiven ==
    ASSUME NEW c, Given(c)
    PROVE  \E n \in Nat : /\ n > 0 /\ DOMAIN c.extrafiles = 1 .. n /\ FileSizes(c) \in [1 .. n -> Nat]
                          /\ \A i \in 1 .. n : FileSizes(c)[i] > 0
<1> DEFINE l == c.extrafiles
           n == Len(l)
<1>1. IsList(l) /\ l # <<>> /\ \A i \in DOMAIN l : l[i].size \in Nat \ {0}
  BY DEF Given
<1>2. n \in Nat /\ DOMAIN l = 1 .. n
  BY <1>1, ListFacts
<1>3. n > 0
  <2>1. l \in Seq(ToSet(l))
    BY <1>1 DEF IsList
  <2>2. n # 0
    BY <1>1, <2>1, EmptySeq
  <2> QED BY <1>2, <2>2
<1>4. FileSizes(c) \in [1 .. n -> Nat] /\ \A i \in 1 .. n : FileSizes(c)[i] > 0
  BY <1>1, <1>2 DEF FileSizes
<1> HIDE DEF n
<1> QED BY <1>2, <1>3, <1>4

\* ComputeBlockSizeAndBlockCount.
LEMMA SizesComputed ==
    ASSUME Solid(disk), Contents, Agreed(creator), CreationInv(at, creator, disk), ComputeBlockSizeAndBlockCount
    PROVE  Advances
<1>1. PICK sizes : sizes = Sizes(creator.blocksize, creator.sourceblockcount, FileSizes(creator))
  OBVIOUS
<1>2. /\ at = "sizes" /\ UNCHANGED <<disk, set>>
      /\ \/ at' = "end" /\ UNCHANGED creator
         \/ /\ sizes # <<>> /\ at' = "redundancy"
            /\ creator' = [creator EXCEPT !.blocksize = sizes[1], !.sourceblockcount = sizes[2]]
  BY <1>1 DEF ComputeBlockSizeAndBlockCount, End, Goto, FileSizes
<1>3. /\ Given(creator) /\ Same(creator, disk) /\ creator.blocks = <<>> /\ creator.next = 1
      /\ creator.blocksize \in Nat /\ creator.sourceblockcount \in Nat /\ creator.sourceblockcount <= Half
  BY <1>2 DEF CreationInv, Deciding
<1>4. CASE at' = "end" /\ UNCHANGED creator
  BY <1>2, <1>4 DEF Advances, Advancing, Deciding, Contents, CreatePlaces
<1>5. CASE /\ sizes # <<>> /\ at' = "redundancy"
           /\ creator' = [creator EXCEPT !.blocksize = sizes[1], !.sourceblockcount = sizes[2]]
  <2>1. PICK n \in Nat : /\ n > 0 /\ FileSizes(creator) \in [1 .. n -> Nat]
                         /\ \A i \in 1 .. n : FileSizes(creator)[i] > 0
    BY <1>3, SizesGiven
  <2>2. PICK f : f = FileSizes(creator)
    OBVIOUS
  <2>3. PICK b \in Nat : b = creator.blocksize
    BY <1>3
  <2>4. PICK m \in Nat : m = creator.sourceblockcount /\ m <= Half
    BY <1>3
  <2>5. sizes[1] \in Nat \ {0} /\ sizes[2] = CountOf(f, sizes[1]) /\ sizes[2] <= Half
    <3>1. f \in [1 .. n -> Nat] /\ \A i \in 1 .. n : f[i] > 0
      BY <2>1, <2>2
    <3>2. sizes = Sizes(b, m, f)
      BY <1>1, <2>2, <2>3, <2>4
    <3> QED BY <1>5, <2>1, <2>4, <3>1, <3>2, SizesAre
  <2>6. /\ Alters(creator, creator', {"blocksize", "sourceblockcount"})
        /\ creator'.blocksize = sizes[1] /\ creator'.sourceblockcount = sizes[2]
    BY <1>3, <1>5 DEF Alters, Given, CreatorFields
  <2>7. /\ creator'.extrafiles = creator.extrafiles /\ creator'.blocks = <<>> /\ creator'.next = 1
        /\ creator'.recoveryblockcount = creator.recoveryblockcount /\ creator'.filecount = creator.filecount
    BY <1>3, <2>6 DEF Alters, CreatorFields
  <2>8. Given(creator')
    BY <1>3, <2>6, <2>7, GivenSame DEF Given
  <2>9. Decided(creator')
    BY <2>2, <2>5, <2>6, <2>7 DEF Decided, FileSizes
  <2>10. CreationInv("redundancy", creator', disk)
    BY <1>3, <2>7, <2>8, <2>9 DEF CreationInv, Same
  <2>11. Agreed(creator')
    BY <2>7 DEF Agreed
  <2> QED BY <1>2, <1>5, <2>10, <2>11 DEF Advances, Advancing, Deciding, Contents, CreatePlaces
<1> QED BY <1>2, <1>4, <1>5

\* ComputeRecoveryBlockCount: a redundancy that does not fit the field is refused.
LEMMA RecoveryCounted ==
    ASSUME Solid(disk), Contents, Agreed(creator), CreationInv(at, creator, disk), ComputeRecoveryBlockCount
    PROVE  Advances
<1> DEFINE n == (creator.sourceblockcount * creator.redundancy + 50) \div 100
<1>1. PICK count : count = IF n = 0 THEN 1 ELSE n
  OBVIOUS
<1>2. /\ at = "redundancy" /\ UNCHANGED <<disk, set>>
      /\ \/ at' = "end" /\ UNCHANGED creator
         \/ at' = "chunks" /\ creator.redundancy <= 0 /\ UNCHANGED creator
         \/ /\ at' = "chunks" /\ ~(creator.redundancy <= 0) /\ ~(creator.firstblock + count >= Count)
            /\ creator' = [creator EXCEPT !.recoveryblockcount = count]
  BY <1>1 DEF ComputeRecoveryBlockCount, End, Goto
<1>3. /\ Given(creator) /\ Same(creator, disk) /\ creator.blocks = <<>> /\ creator.next = 1 /\ Decided(creator)
      /\ creator.redundancy \in Int /\ creator.firstblock \in Int
  BY <1>2 DEF CreationInv, Deciding, Given
<1>4. CASE at' = "end" /\ UNCHANGED creator
  BY <1>2, <1>4 DEF Advances, Advancing, Deciding, Contents, CreatePlaces
<1>5. CASE at' = "chunks" /\ creator.redundancy <= 0 /\ UNCHANGED creator
  <2>1. Fit(creator)
    BY <1>3, <1>5 DEF Fit
  <2>2. CreationInv("chunks", creator, disk)
    BY <1>3, <2>1 DEF CreationInv
  <2> QED BY <1>2, <1>5, <2>2 DEF Advances, Advancing, Deciding, Contents, CreatePlaces
<1>6. CASE /\ at' = "chunks" /\ ~(creator.redundancy <= 0) /\ ~(creator.firstblock + count >= Count)
           /\ creator' = [creator EXCEPT !.recoveryblockcount = count]
  <2>1. count \in Nat
    <3>1. PICK s \in Nat : s = creator.sourceblockcount
      <4>1. PICK m \in Nat : FileSizes(creator) \in [1 .. m -> Nat]
        BY <1>3, SizesGiven
      <4>2. PICK f : f = FileSizes(creator)
        OBVIOUS
      <4>3. PICK b \in Nat : b = creator.blocksize /\ b > 0
        BY <1>3 DEF Decided
      <4>4. CountOf(f, b) \in Nat
        BY <4>1, <4>2, <4>3, CountsAre
      <4> QED BY <1>3, <4>2, <4>3, <4>4 DEF Decided
    <3>2. PICK r \in Nat : r = creator.redundancy
      BY <1>3, <1>6
    <3>3. \A x, y \in Nat : x * y \in Nat
      OBVIOUS
    <3>4. PICK p \in Nat : p = s * r
      BY <3>3
    <3>5. (p + 50) \div 100 \in Nat
      OBVIOUS
    <3>6. n = (p + 50) \div 100
      BY <3>1, <3>2, <3>4
    <3> QED BY <1>1, <3>5, <3>6
  <2>2. Alters(creator, creator', {"recoveryblockcount"}) /\ creator'.recoveryblockcount = count
    BY <1>3, <1>6 DEF Alters, Given, CreatorFields
  <2>3. /\ creator'.extrafiles = creator.extrafiles /\ creator'.blocks = <<>> /\ creator'.next = 1
        /\ creator'.firstblock = creator.firstblock /\ creator'.filecount = creator.filecount
    BY <1>3, <2>2 DEF Alters, CreatorFields
  <2>4. Given(creator') /\ Decided(creator')
    BY <1>3, <2>1, <2>2, <2>3, GivenSame, DecidedSame DEF Given
  <2>5. Fit(creator')
    <3>1. Count \in Int
      BY CountIs
    <3> QED BY <1>3, <1>6, <2>1, <2>2, <2>3, <3>1 DEF Fit
  <2>6. CreationInv("chunks", creator', disk)
    BY <1>3, <2>3, <2>4, <2>5 DEF CreationInv, Same
  <2>7. Agreed(creator')
    BY <2>3 DEF Agreed
  <2> QED BY <1>2, <1>6, <2>6, <2>7 DEF Advances, Advancing, Deciding, Contents, CreatePlaces
<1> QED BY <1>2, <1>4, <1>5, <1>6

\* CalculateProcessBlockSize.
LEMMA ChunksComputed ==
    ASSUME Solid(disk), Contents, Agreed(creator), CreationInv(at, creator, disk), CalculateProcessBlockSize
    PROVE  Advances
<1>1. /\ at = "chunks" /\ at' = "files" /\ UNCHANGED <<disk, set>>
      /\ \E x : creator' = [creator EXCEPT !.chunksize = x]
  BY DEF CalculateProcessBlockSize, Goto, Only
<1>2. /\ Given(creator) /\ Same(creator, disk) /\ creator.blocks = <<>> /\ creator.next = 1 /\ Decided(creator)
      /\ Fit(creator)
  BY <1>1 DEF CreationInv, Deciding
<1>3. Alters(creator, creator', {})
  BY <1>1, <1>2 DEF Alters, Given, CreatorFields
<1>4. /\ creator'.extrafiles = creator.extrafiles /\ creator'.blocks = <<>> /\ creator'.next = 1
      /\ creator'.recoveryblockcount = creator.recoveryblockcount /\ creator'.filecount = creator.filecount
  BY <1>2, <1>3 DEF Alters, CreatorFields
<1>5. Given(creator') /\ Decided(creator') /\ Fit(creator')
  BY <1>2, <1>3, <1>4, GivenSame, DecidedSame, FitSame DEF Given
<1>6. CreationInv("files", creator', disk)
  BY <1>2, <1>4, <1>5 DEF CreationInv, Same
<1>7. Agreed(creator')
  BY <1>4 DEF Agreed
<1> QED BY <1>1, <1>6, <1>7 DEF Advances, Advancing, Deciding, Contents, CreatePlaces

\* Numbers up to a number that may be negative.
NumberList(l, n) == n \in Int /\ l = [k \in 1 .. n |-> l[k]] /\ \A k \in 1 .. n : l[k] \in Int
LEMMA NumbersUpTo ==
    ASSUME NEW l, NEW n, NumberList(l, n)
    PROVE  l \in Seq(Int) /\ DOMAIN l = 1 .. n
<1>1. n \in Int /\ l = [k \in 1 .. n |-> l[k]] /\ \A k \in 1 .. n : l[k] \in Int
  BY DEF NumberList
<1>2. CASE n \in Nat
  <2>1. l \in [1 .. n -> Int]
    BY <1>1
  <2> QED BY <1>2, <2>1
<1>3. CASE n \notin Nat
  <2>1. 1 .. n = {} /\ 1 .. n = 1 .. 0
    BY <1>1, <1>3
  <2>2. l \in [1 .. 0 -> Int]
    BY <1>1, <2>1
  <2> QED BY <2>1, <2>2
<1> QED BY <1>2, <1>3

\* The powers of two.
Doubles(f, n) == f[0] = 1 /\ \A k \in 1 .. n : f[k] = 2 * f[k - 1]
LEMMA DoublesIs ==
    ASSUME NEW n \in Nat
    PROVE  \E f \in [0 .. n -> Nat] : Doubles(f, n) /\ PowerOf2(n) = f[n]
<1> DEFINE F == [p \in (1 .. n) \X Nat |-> 2 * p[2]]
           Body(g) == [k \in 0 .. n |-> IF k = 0 THEN 1 ELSE 2 * g[k - 1]]
           power == CHOOSE g : g = Body(g)
<1>1. Steps(F, Nat, n)
  BY DEF Steps
<1>2. PICK f : Follows(f, F, Nat, 1, n)
  <2> HIDE DEF F
  <2>1. 1 \in Nat
    OBVIOUS
  <2> QED BY <1>1, <2>1, Recursion
<1>3. f \in [0 .. n -> Nat] /\ f[0] = 1 /\ \A k \in 1 .. n : f[k] = F[<<k, f[k - 1]>>]
  BY <1>2 DEF Follows
<1>4. \A k \in 1 .. n : k - 1 \in 0 .. n /\ k \in 0 .. n /\ k # 0
  OBVIOUS
<1>5. \A k \in 1 .. n : f[k] = 2 * f[k - 1]
  BY <1>3, <1>4
<1>6. f = Body(f)
  <2>1. \A k \in 0 .. n : f[k] = IF k = 0 THEN 1 ELSE 2 * f[k - 1]
    <3> TAKE k \in 0 .. n
    <3>1. k = 0 \/ k \in 1 .. n
      OBVIOUS
    <3> QED BY <3>1, <1>3, <1>5
  <2> QED BY <1>3, <2>1
<1>7. power = Body(power)
  <2> HIDE DEF Body
  <2> QED BY <1>6
<1>8. power = [k \in 0 .. n |-> power[k]] /\ \A k \in 0 .. n : power[k] = IF k = 0 THEN 1 ELSE 2 * power[k - 1]
  <2> HIDE DEF power
  <2> QED BY <1>7
<1>9. PowerOf2(n) = power[n]
  BY DEF PowerOf2
<1> HIDE DEF power
<1>10. power[0] = 1
  <2>1. 0 \in 0 .. n
    OBVIOUS
  <2> QED BY <1>8, <2>1
<1>11. \A k \in 1 .. n : power[k] = 2 * power[k - 1]
  BY <1>4, <1>8
<1> DEFINE T == {k \in Nat : k <= n => power[k] \in Nat}
<1>12. 0 \in T
  BY <1>10
<1>13. ASSUME NEW k \in Nat, k \in T PROVE k + 1 \in T
  <2> SUFFICES ASSUME k + 1 <= n PROVE power[k + 1] \in Nat
    OBVIOUS
  <2>1. k + 1 \in 1 .. n /\ (k + 1) - 1 = k /\ k <= n
    OBVIOUS
  <2>2. power[k + 1] = 2 * power[k] /\ power[k] \in Nat
    BY <1>11, <1>13, <2>1
  <2> QED BY <2>2
<1> HIDE DEF T
<1>14. Nat \subseteq T
  BY <1>12, <1>13, Induct
<1>15. \A k \in 0 .. n : power[k] \in Nat
  BY <1>14 DEF T
<1>16. power \in [0 .. n -> Nat]
  BY <1>8, <1>15
<1> QED BY <1>9, <1>10, <1>11, <1>16 DEF Doubles

LEMMA Doubled ==
    /\ PowerOf2(0) = 1
    /\ \A n \in Nat : PowerOf2(n) \in Nat /\ PowerOf2(n) > 0 /\ PowerOf2(n + 1) = 2 * PowerOf2(n)
<1>1. ASSUME NEW n \in Nat PROVE PowerOf2(n) \in Nat /\ PowerOf2(n + 1) = 2 * PowerOf2(n)
  <2>1. PICK f \in [0 .. n -> Nat] : Doubles(f, n) /\ PowerOf2(n) = f[n]
    BY DoublesIs
  <2>2. n + 1 \in Nat
    OBVIOUS
  <2>3. PICK g \in [0 .. n + 1 -> Nat] : Doubles(g, n + 1) /\ PowerOf2(n + 1) = g[n + 1]
    BY <2>2, DoublesIs
  <2> DEFINE T == {k \in Nat : k <= n => f[k] = g[k]}
  <2>4. 0 \in T
    BY <2>1, <2>3 DEF Doubles
  <2>5. ASSUME NEW k \in Nat, k \in T PROVE k + 1 \in T
    <3> SUFFICES ASSUME k + 1 <= n PROVE f[k + 1] = g[k + 1]
      OBVIOUS
    <3>1. k + 1 \in 1 .. n /\ k + 1 \in 1 .. n + 1 /\ (k + 1) - 1 = k /\ k <= n
      OBVIOUS
    <3>2. f[k + 1] = 2 * f[k] /\ g[k + 1] = 2 * g[k]
      BY <2>1, <2>3, <3>1 DEF Doubles
    <3> QED BY <2>5, <3>1, <3>2
  <2> HIDE DEF T
  <2>6. n \in T
    BY <2>4, <2>5, Induct
  <2>7. f[n] = g[n]
    BY <2>6 DEF T
  <2>8. n + 1 \in 1 .. n + 1 /\ (n + 1) - 1 = n /\ n \in 0 .. n
    OBVIOUS
  <2>9. g[n + 1] = 2 * g[n]
    BY <2>3, <2>8 DEF Doubles
  <2> QED BY <2>1, <2>3, <2>7, <2>8, <2>9
<1>2. PowerOf2(0) = 1
  <2>1. 0 \in Nat
    OBVIOUS
  <2>2. PICK f \in [0 .. 0 -> Nat] : Doubles(f, 0) /\ PowerOf2(0) = f[0]
    BY <2>1, DoublesIs
  <2> QED BY <2>2 DEF Doubles
<1> DEFINE T == {n \in Nat : PowerOf2(n) > 0}
<1>3. 0 \in T
  BY <1>2
<1>4. ASSUME NEW n \in Nat, n \in T PROVE n + 1 \in T
  BY <1>1, <1>4
<1> HIDE DEF T
<1>5. Nat \subseteq T
  BY <1>3, <1>4, Induct
<1> QED BY <1>1, <1>2, <1>5 DEF T

\* They grow, and beyond every number.
LEMMA PowersGrow ==
    /\ \A n \in Nat : PowerOf2(n) > n
    /\ \A n \in Nat : \A d \in Nat : PowerOf2(n) <= PowerOf2(n + d)
<1> DEFINE T == {n \in Nat : PowerOf2(n) > n}
<1>1. 0 \in T
  BY Doubled
<1>2. ASSUME NEW n \in Nat, n \in T PROVE n + 1 \in T
  <2>1. PICK p \in Nat : p = PowerOf2(n) /\ p > 0
    BY Doubled
  <2>2. PowerOf2(n + 1) = 2 * p /\ p > n
    BY <1>2, <2>1, Doubled
  <2> QED BY <2>1, <2>2
<1> HIDE DEF T
<1>3. Nat \subseteq T
  BY <1>1, <1>2, Induct
<1>4. ASSUME NEW n \in Nat PROVE \A d \in Nat : PowerOf2(n) <= PowerOf2(n + d)
  <2> DEFINE U == {d \in Nat : PowerOf2(n) <= PowerOf2(n + d)}
  <2>0. PICK p \in Nat : p = PowerOf2(n)
    BY Doubled
  <2>1. 0 \in U
    <3>1. n + 0 = n
      OBVIOUS
    <3> QED BY <2>0, <3>1
  <2>2. ASSUME NEW d \in Nat, d \in U PROVE d + 1 \in U
    <3>1. n + d \in Nat /\ (n + d) + 1 = n + (d + 1)
      OBVIOUS
    <3>2. PICK q \in Nat : q = PowerOf2(n + d)
      BY <3>1, Doubled
    <3>3. PowerOf2(n + (d + 1)) = 2 * q
      BY <3>1, <3>2, Doubled
    <3>4. p <= q
      BY <2>0, <2>2, <3>2
    <3> QED BY <2>0, <3>3, <3>4
  <2> HIDE DEF U
  <2>3. Nat \subseteq U
    BY <2>1, <2>2, Induct
  <2> QED BY <2>3 DEF U
<1> QED BY <1>3, <1>4 DEF T

\* The field has as many values as a number of its width.
LEMMA CountIsPower == Count \in Nat /\ Count = PowerOf2(Bits) /\ 2 * Half = Count /\ Half \in Nat
<1>0. Bits \in Nat /\ Bits >= 2
  BY GaloisAssumption
<1> DEFINE T == {k \in Nat : k <= Bits => shift[k] = PowerOf2(k)}
<1>1. 0 \in T
  BY ShiftsAre, Doubled
<1>2. ASSUME NEW k \in Nat, k \in T PROVE k + 1 \in T
  <2> SUFFICES ASSUME k + 1 <= Bits PROVE shift[k + 1] = PowerOf2(k + 1)
    OBVIOUS
  <2>1. k + 1 \in 1 .. Bits /\ (k + 1) - 1 = k /\ k <= Bits
    BY <1>0
  <2>2. shift[k + 1] = 2 * shift[k] /\ shift[k] = PowerOf2(k)
    BY <1>2, <2>1, ShiftsAre
  <2>3. PowerOf2(k + 1) = 2 * PowerOf2(k)
    BY Doubled
  <2> QED BY <2>2, <2>3
<1> HIDE DEF T
<1>3. Bits \in T
  BY <1>0, <1>1, <1>2, Induct
<1>4. Count = PowerOf2(Bits)
  BY <1>0, <1>3 DEF T, Count
<1>5. Bits \in 1 .. Bits /\ Bits - 1 \in 0 .. Bits
  BY <1>0
<1>6. PICK m \in Nat : m = shift[Bits - 1]
  BY <1>5, ShiftsAre
<1>7. shift[Bits] = 2 * shift[Bits - 1]
  BY <1>5, ShiftsAre
<1>8. Count = 2 * m
  BY <1>6, <1>7 DEF Count
<1>9. \A x \in Nat : (2 * x) \div 2 = x
  OBVIOUS
<1>10. Half = m
  BY <1>6, <1>8, <1>9 DEF Half
<1>11. 2 * m \in Nat
  OBVIOUS
<1> QED BY <1>4, <1>6, <1>8, <1>10, <1>11
Matching(a, b, n) == \A k \in 1 .. n : a[k] = b[k]
LEMMA SumsAlike ==
    ASSUME NEW n \in Nat, NEW a, NEW b, Matching(a, b, n), NEW f, Sums(f, a, n), NEW g, Sums(g, b, n)
    PROVE  \A k \in 0 .. n : f[k] = g[k]
<1> TAKE k \in 0 .. n
<1> QED BY SumsSame DEF Matching

\* The sum of the first few numbers.
LEMMA PrefixIs ==
    ASSUME NEW n \in Nat, NEW numbers \in [1 .. n -> Int], NEW f, Sums(f, numbers, n)
    PROVE  \A k \in 0 .. n : Total(SubSeq(numbers, 1, k)) = f[k]
<1> TAKE k \in 0 .. n
<1>1. PICK m : m = SubSeq(numbers, 1, k)
  OBVIOUS
<1>2. m \in [1 .. k -> Int] /\ \A i \in 1 .. k : m[i] = numbers[i]
  <2>1. 1 + k - 1 = k /\ \A i \in 1 .. k : i + 1 - 1 = i /\ i \in 1 .. n
    OBVIOUS
  <2>2. m = [i \in 1 .. (1 + k - 1) |-> numbers[i + 1 - 1]]
    BY <1>1 DEF SubSeq
  <2>3. m = [i \in 1 .. k |-> m[i]] /\ \A i \in 1 .. k : m[i] = numbers[i]
    BY <2>1, <2>2
  <2> QED BY <2>1, <2>3
<1>3. k \in Nat /\ \A i \in 1 .. k : i \in 1 .. n
  OBVIOUS
<1>4. PICK g \in [0 .. k -> Int] : Sums(g, m, k) /\ Total(m) = g[k]
  BY <1>2, <1>3, TotalIs
<1>5. Sums(f, numbers, k)
  BY <1>3 DEF Sums
<1>6. k \in 0 .. k
  BY <1>3
<1>7. f[k] = g[k]
  <2>1. Matching(numbers, m, k)
    BY <1>2 DEF Matching
  <2>2. \A i \in 0 .. k : f[i] = g[i]
    BY ONLY <1>3, <1>4, <1>5, <2>1, SumsAlike
  <2> QED BY <1>6, <2>2
<1> QED BY <1>1, <1>4, <1>7

LEMMA TotalConcat ==
    ASSUME NEW m \in Nat, NEW n \in Nat, NEW a \in [1 .. m -> Int], NEW b \in [1 .. n -> Int]
    PROVE  Total(a \o b) = Total(a) + Total(b)
<1>1. PICK f \in [0 .. m -> Int] : Sums(f, a, m) /\ Total(a) = f[m]
  BY TotalIs
<1>2. PICK g \in [0 .. n -> Int] : Sums(g, b, n) /\ Total(b) = g[n]
  BY TotalIs
<1>3. PICK c : c = a \o b
  OBVIOUS
<1>4. a \in Seq(Int) /\ b \in Seq(Int) /\ Len(a) = m /\ Len(b) = n
  <2>1. a = [i \in 1 .. m |-> a[i]] /\ b = [i \in 1 .. n |-> b[i]]
    OBVIOUS
  <2>2. \A i \in 1 .. m : a[i] \in Int
    OBVIOUS
  <2>3. \A i \in 1 .. n : b[i] \in Int
    OBVIOUS
  <2> QED BY <2>1, <2>2, <2>3, NumbersUpTo, ListOf DEF NumberList
<1>5. c \in Seq(Int) /\ Len(c) = m + n /\ \A i \in 1 .. m + n : c[i] = IF i <= m THEN a[i] ELSE b[i - m]
  BY <1>3, <1>4, ConcatProperties, Zenon
<1>6. m + n \in Nat /\ c \in [1 .. m + n -> Int]
  BY <1>5, ElementOfSeq, LenProperties
<1>7. PICK h : h = [k \in 0 .. m + n |-> IF k <= m THEN f[k] ELSE f[m] + g[k - m]]
  OBVIOUS
<1>8. Sums(h, c, m + n)
  <2>1. h[0] = 0
    BY <1>1, <1>7 DEF Sums
  <2>2. ASSUME NEW k \in 1 .. m + n PROVE h[k - 1] \in Int /\ h[k] \in Int /\ h[k] = h[k - 1] + c[k]
    <3>0. k \in 0 .. m + n /\ k - 1 \in 0 .. m + n
      OBVIOUS
    <3>1. CASE k <= m
      <4>1. k \in 1 .. m /\ k - 1 <= m
        BY <3>1
      <4>2. h[k] = f[k] /\ h[k - 1] = f[k - 1] /\ c[k] = a[k]
        BY <1>5, <1>7, <3>0, <3>1, <4>1
      <4> QED BY <1>1, <4>1, <4>2 DEF Sums
    <3>2. CASE k > m
      <4>1. k - m \in 1 .. n /\ ~(k <= m) /\ (k - m) - 1 = (k - 1) - m /\ m \in 0 .. m /\ f[m] \in Int
        BY <3>2
      <4>2. h[k] = f[m] + g[k - m] /\ c[k] = b[k - m]
        BY <1>5, <1>7, <3>0, <4>1
      <4>3. h[k - 1] = f[m] + g[(k - m) - 1]
        <5>1. CASE k - 1 <= m
          <6>1. k - 1 = m /\ (k - m) - 1 = 0
            BY <3>2, <5>1
          <6>2. g[0] = 0
            BY <1>2 DEF Sums
          <6>3. h[k - 1] = f[m]
            BY <1>7, <3>0, <6>1
          <6> QED BY <4>1, <6>1, <6>2, <6>3
        <5>2. CASE ~(k - 1 <= m)
          BY <1>7, <3>0, <4>1, <5>2
        <5> QED BY <5>1, <5>2
      <4>4. g[(k - m) - 1] \in Int /\ g[k - m] \in Int /\ g[k - m] = g[(k - m) - 1] + b[k - m]
        BY <1>2, <4>1 DEF Sums
      <4>5. b[k - m] \in Int
        BY <4>1
      <4> QED BY <4>1, <4>2, <4>3, <4>4, <4>5
    <3> QED BY <3>1, <3>2
  <2> QED BY <2>1, <2>2 DEF Sums
<1>9. PICK e \in [0 .. m + n -> Int] : Sums(e, c, m + n) /\ Total(c) = e[m + n]
  BY <1>6, TotalIs
<1>10. m + n \in 0 .. m + n
  BY <1>6
<1>11. e[m + n] = h[m + n]
  BY <1>6, <1>8, <1>9, <1>10, SumsSame
<1>12. h[m + n] = f[m] + g[n]
  <2>1. CASE n = 0
    <3>1. g[0] = 0 /\ m + n = m /\ f[m] \in Int
      BY <1>2, <2>1 DEF Sums
    <3>2. h[m] = f[m]
      BY <1>7, <3>1
    <3> QED BY <2>1, <3>1, <3>2
  <2>2. CASE n # 0
    <3>1. ~(m + n <= m) /\ (m + n) - m = n
      BY <2>2
    <3> QED BY <1>7, <1>10, <3>1
  <2> QED BY <2>1, <2>2
<1> QED BY <1>1, <1>2, <1>3, <1>9, <1>11, <1>12

\* As many for each, and one more for the first few.
Even(numbers, n, q, r) == numbers = [i \in 1 .. n |-> q + IF i - 1 < r THEN 1 ELSE 0]
LEMMA TotalEven ==
    ASSUME NEW n \in Nat, NEW q \in Nat, NEW r \in Nat, r <= n, NEW numbers, Even(numbers, n, q, r)
    PROVE  numbers \in [1 .. n -> Nat] /\ Total(numbers) = n * q + r
<1>1. \A i \in 1 .. n : numbers[i] \in Nat /\ numbers[i] = IF i - 1 < r THEN q + 1 ELSE q
  BY DEF Even
<1>2. numbers \in [1 .. n -> Nat] /\ numbers \in [1 .. n -> Int]
  <2>1. numbers = [i \in 1 .. n |-> numbers[i]]
    BY DEF Even
  <2> QED BY <1>1, <2>1
<1>3. PICK f \in [0 .. n -> Int] : Sums(f, numbers, n) /\ Total(numbers) = f[n]
  BY <1>2, TotalIs
<1> DEFINE T == {k \in Nat : k <= n => f[k] = k * q + IF k < r THEN k ELSE r}
<1>4. 0 \in T
  <2>1. f[0] = 0 /\ 0 * q = 0
    BY <1>3 DEF Sums
  <2> QED BY <2>1
<1>5. ASSUME NEW k \in Nat, k \in T PROVE k + 1 \in T
  <2> SUFFICES ASSUME k + 1 <= n PROVE f[k + 1] = (k + 1) * q + IF k + 1 < r THEN k + 1 ELSE r
    OBVIOUS
  <2>1. k + 1 \in 1 .. n /\ (k + 1) - 1 = k /\ k <= n
    OBVIOUS
  <2>2. f[k + 1] = f[k] + numbers[k + 1]
    BY <1>3, <2>1 DEF Sums
  <2>3. f[k] = k * q + IF k < r THEN k ELSE r
    BY <1>5, <2>1
  <2>4. numbers[k + 1] = IF k < r THEN q + 1 ELSE q
    BY <1>1, <2>1
  <2>5. (k + 1) * q = k * q + q
    OBVIOUS
  <2>6. PICK p \in Int : p = k * q
    OBVIOUS
  <2>7. f[k] = p + IF k < r THEN k ELSE r
    BY <2>3, <2>6
  <2>8. PICK x \in Int : x = f[k]
    BY <2>6, <2>7
  <2>9. (k + 1) * q = p + q
    BY <2>5, <2>6
  <2>10. f[k + 1] = x + IF k < r THEN q + 1 ELSE q
    BY <2>2, <2>4, <2>8
  <2>11. x = p + IF k < r THEN k ELSE r
    BY <2>7, <2>8
  <2> QED BY ONLY k \in Nat, q \in Nat, r \in Nat, x \in Int, p \in Int, <2>9, <2>10, <2>11
<1> HIDE DEF T
<1>6. n \in T
  BY <1>4, <1>5, Induct
<1>7. f[n] = n * q + r
  <2>1. f[n] = n * q + IF n < r THEN n ELSE r
    BY <1>6 DEF T
  <2> QED BY <2>1
<1> QED BY <1>2, <1>3, <1>7

\* How many bits a number has.
LEMMA BitLengthIs ==
    ASSUME NEW n \in Nat
    PROVE  BitLength(n) \in Nat /\ PowerOf2(BitLength(n)) > n /\ (n > 0 => BitLength(n) > 0)
<1> DEFINE S == {k \in 0 .. n : PowerOf2(k) <= n}
           T == {k \in Nat : PowerOf2(k) > n}
<1>1. n \in T
  BY PowersGrow
<1>2. PICK b \in T : \A k \in T : b <= k
  <2>1. T \in SUBSET Nat /\ T # {}
    BY <1>1
  <2> HIDE DEF T
  <2> QED BY <2>1, Least
<1>3. b \in Nat /\ PowerOf2(b) > n
  OBVIOUS
<1>4. ASSUME NEW k \in S PROVE k \in 0 .. b - 1
  <2>1. k \in Nat /\ PowerOf2(k) <= n /\ PowerOf2(k) \in Nat
    BY Doubled
  <2>2. ~(b <= k)
    <3> SUFFICES ASSUME b <= k PROVE FALSE
      OBVIOUS
    <3>1. k - b \in Nat /\ b + (k - b) = k
      BY <1>3, <2>1
    <3>2. PowerOf2(b) <= PowerOf2(b + (k - b))
      BY <1>3, <3>1, PowersGrow
    <3>3. PowerOf2(b) \in Nat
      BY <1>3, Doubled
    <3> QED BY <1>3, <2>1, <3>1, <3>2, <3>3
  <2> QED BY <1>3, <2>1, <2>2
<1>5. ASSUME NEW k \in 0 .. b - 1 PROVE k \in S
  <2>1. k \in Nat /\ ~(b <= k) /\ PowerOf2(k) \in Nat
    BY <1>3, Doubled
  <2>2. k \notin T
    BY <1>2, <2>1
  <2>3. PowerOf2(k) <= n
    BY <2>1, <2>2
  <2>4. PowerOf2(k) > k
    BY <2>1, PowersGrow
  <2> QED BY <2>1, <2>3, <2>4
<1>6. S = 0 .. b - 1
  <2> HIDE DEF S
  <2> QED BY <1>4, <1>5
<1> HIDE DEF S, T
<1>7. Cardinality(0 .. b - 1) = b
  <2>1. 0 \in Int /\ b - 1 \in Int
    BY <1>3
  <2>2. Cardinality(0 .. b - 1) = IF 0 > b - 1 THEN 0 ELSE (b - 1) - 0 + 1
    BY <2>1, FS_Interval
  <2> QED BY <1>3, <2>2
<1>8. BitLength(n) = b
  BY <1>6, <1>7 DEF BitLength, S
<1>9. b = 0 => n = 0
  BY <1>3, Doubled
<1> QED BY <1>3, <1>8, <1>9

\* What ComputeRecoveryFileCount leaves: no files just when there are no recovery
\* blocks, and, with a limited size, one file for every whole file's worth of blocks
\* and one for every bit of the number that is left.
Filed ==
    /\ creator.recoveryblockcount = 0 <=> creator.filecount = 0
    /\ creator.scheme = "limited" /\ creator.recoveryblockcount > 0 =>
         creator.filecount = WholeFiles + BitLength(creator.recoveryblockcount - WholeFiles * LargestBlocks)
LEMMA FileCountIs ==
    ASSUME Given(creator), Decided(creator)
    PROVE  /\ FileCount \in Nat /\ LargestBlocks \in Nat \ {0} /\ WholeFiles \in Nat
           /\ creator.recoveryblockcount - WholeFiles * LargestBlocks \in Nat
           /\ creator.recoveryblockcount = 0 <=> FileCount = 0
<1>1. /\ creator.recoveryblockcount \in Nat /\ creator.filecount \in Nat
      /\ creator.largest \in Nat /\ creator.largest > 0 /\ creator.blocksize \in Nat /\ creator.blocksize > 0
  BY DEF Given, Decided
<1>2. LargestBlocks \in Nat /\ LargestBlocks > 0
  <2>1. PICK l \in Nat : l = creator.largest /\ l > 0
    BY <1>1
  <2>2. PICK b \in Nat : b = creator.blocksize /\ b > 0
    BY <1>1
  <2>3. CeilDiv(l, b) \in Nat /\ l <= b * CeilDiv(l, b)
    BY <2>2, CeilIs
  <2>4. b * 0 = 0
    OBVIOUS
  <2>5. CeilDiv(l, b) # 0
    BY <2>1, <2>3, <2>4
  <2> QED BY <2>1, <2>2, <2>3, <2>5 DEF LargestBlocks
<1>3. PICK r \in Nat : r = creator.recoveryblockcount
  BY <1>1
<1>4. PICK l \in Nat : l = LargestBlocks /\ l > 0
  BY <1>2
<1>5. WholeFiles \in Nat /\ r - WholeFiles * l \in Nat
  <2>1. PICK w \in Nat : w = r \div l /\ l * w <= r
    <3>1. \A x, y \in Nat : y > 0 => x \div y \in Nat /\ y * (x \div y) <= x
      OBVIOUS
    <3> QED BY <1>4, <3>1
  <2>2. WholeFiles = IF w >= 1 THEN w - 1 ELSE 0
    BY <1>3, <1>4, <2>1 DEF WholeFiles
  <2>3. CASE w >= 1
    <3>1. (w - 1) * l = l * w - l
      OBVIOUS
    <3>2. l * w \in Nat
      OBVIOUS
    <3> QED BY <1>4, <2>1, <2>2, <2>3, <3>1, <3>2
  <2>4. CASE ~(w >= 1)
    <3>1. 0 * l = 0
      OBVIOUS
    <3> QED BY <2>2, <2>4, <3>1
  <2> QED BY <2>3, <2>4
<1>6. BitLength(r) \in Nat /\ BitLength(r - WholeFiles * l) \in Nat
  BY <1>5, BitLengthIs
<1>7. FileCount \in Nat
  BY <1>1, <1>3, <1>4, <1>5, <1>6 DEF FileCount
<1>8. ASSUME r > 0 PROVE BitLength(r) > 0 /\ WholeFiles + BitLength(r - WholeFiles * l) > 0
  <2>1. BitLength(r) > 0
    BY <1>8, BitLengthIs
  <2>2. ASSUME WholeFiles = 0 PROVE BitLength(r - WholeFiles * l) > 0
    <3>1. r - WholeFiles * l = r
      <4>1. 0 * l = 0
        OBVIOUS
      <4> QED BY <2>2, <4>1
    <3> QED BY <2>1, <3>1
  <2>3. PICK b \in Nat : b = BitLength(r - WholeFiles * l)
    BY <1>6
  <2> QED BY <1>5, <2>1, <2>2, <2>3
<1>9. r = 0 <=> FileCount = 0
  <2>1. PICK x \in Nat : x = BitLength(r) /\ (r > 0 => x > 0)
    BY <1>6, <1>8
  <2>2. PICK y \in Nat : y = WholeFiles + BitLength(r - WholeFiles * l) /\ (r > 0 => y > 0)
    BY <1>5, <1>6, <1>8
  <2>3. PICK f \in Nat : f = creator.filecount
    BY <1>1
  <2>4. FileCount = IF r = 0 THEN 0 ELSE IF creator.scheme = "limited" THEN y ELSE IF f = 0 THEN x ELSE f
    BY <1>3, <1>4, <2>1, <2>2, <2>3 DEF FileCount
  <2> QED BY <2>1, <2>2, <2>3, <2>4
<1> QED BY <1>2, <1>3, <1>4, <1>5, <1>7, <1>9

LEMMA FilesCounted ==
    ASSUME Solid(disk), Contents, Agreed(creator), CreationInv(at, creator, disk), ComputeRecoveryFileCount
    PROVE  Advances
<1>1. /\ at = "files" /\ UNCHANGED <<disk, set>>
      /\ \/ at' = "end" /\ UNCHANGED creator
         \/ at' = "open" /\ creator' = [creator EXCEPT !.filecount = FileCount]
  BY DEF ComputeRecoveryFileCount, Goto, End
<1>2. /\ Given(creator) /\ Same(creator, disk) /\ creator.blocks = <<>> /\ creator.next = 1 /\ Decided(creator)
      /\ Fit(creator)
  BY <1>1 DEF CreationInv, Deciding
<1>3. CASE at' = "end" /\ UNCHANGED creator
  BY <1>1, <1>3 DEF Advances, Advancing, Deciding, Contents, CreatePlaces
<1>4. CASE at' = "open" /\ creator' = [creator EXCEPT !.filecount = FileCount]
  <2>1. PICK n \in Nat : n = FileCount
    BY <1>2, FileCountIs
  <2>2. creator' = [creator EXCEPT !.filecount = n]
    BY <1>4, <2>1
  <2>3. Alters(creator, creator', {"filecount"}) /\ creator'.filecount = n
    BY <1>2, <2>2 DEF Alters, Given, CreatorFields
  <2>4. /\ creator'.extrafiles = creator.extrafiles /\ creator'.blocks = <<>> /\ creator'.next = 1
        /\ creator'.recoveryblockcount = creator.recoveryblockcount
    BY <1>2, <2>3 DEF Alters, CreatorFields
  <2>5. Given(creator') /\ Decided(creator') /\ Fit(creator')
    BY <1>2, <2>3, <2>4, GivenSame, DecidedSame, FitSame DEF Given
  <2>6. CreationInv("open", creator', disk)
    BY <1>2, <2>4, <2>5 DEF CreationInv, Same
  <2>7. Agreed(creator')
    BY <2>4 DEF Agreed
  <2> QED BY <1>1, <1>4, <2>6, <2>7 DEF Advances, Advancing, Deciding, Contents, CreatePlaces
<1> QED BY <1>1, <1>3, <1>4

-----------------------------------------------------------------------------
(* The source files are opened, sorted and cut into blocks *)

\* Lists that are joined are a list.
Lists(seqs, lengths, n) ==
    /\ n \in Nat /\ seqs = [i \in 1 .. n |-> seqs[i]] /\ lengths \in [1 .. n -> Int]
    /\ \A i \in 1 .. n : IsList(seqs[i]) /\ lengths[i] = Len(seqs[i])
LEMMA FlattenLists ==
    ASSUME NEW n, NEW seqs, NEW lengths, Lists(seqs, lengths, n)
    PROVE  IsList(FlattenSeq(seqs)) /\ Len(FlattenSeq(seqs)) = Total(lengths)
<1>0. /\ n \in Nat /\ seqs = [i \in 1 .. n |-> seqs[i]] /\ lengths \in [1 .. n -> Int]
      /\ \A i \in 1 .. n : IsList(seqs[i]) /\ lengths[i] = Len(seqs[i])
  BY DEF Lists
<1> DEFINE T == UNION {ToSet(seqs[i]) : i \in 1 .. n}
<1>1. \A i \in 1 .. n : seqs[i] \in Seq(T)
  <2> TAKE i \in 1 .. n
  <2> DEFINE S == ToSet(seqs[i])
  <2>1. seqs[i] \in Seq(S) /\ S \subseteq T
    BY <1>0 DEF IsList
  <2> HIDE DEF S, T
  <2> QED BY <2>1
<1> HIDE DEF T
<1>2. Parts(seqs, lengths, T, n)
  BY <1>0, <1>1 DEF Parts
<1>3. PICK s : s = FlattenSeq(seqs)
  OBVIOUS
<1>4. s \in Seq(T) /\ Len(s) = Total(lengths)
  BY <1>2, <1>3, FlattenLength
<1>5. IsList(s)
  BY <1>4, SeqIsList
<1> QED BY <1>3, <1>4, <1>5

LEMMA JoinedLists ==
    ASSUME NEW n \in Nat, NEW seqs, seqs = [i \in 1 .. n |-> seqs[i]], \A i \in 1 .. n : IsList(seqs[i])
    PROVE  IsList(FlattenSeq(seqs))
<1> DEFINE lengths == [i \in 1 .. n |-> Len(seqs[i])]
<1>0. \A i \in 1 .. n : Len(seqs[i]) \in Int
  BY ListFacts
<1>1. Lists(seqs, lengths, n)
  BY <1>0 DEF Lists
<1> HIDE DEF lengths
<1> QED BY <1>1, FlattenLists

\* As many names as places, if none is there twice.
LEMMA OnceIs ==
    ASSUME NEW l, Once(l)
    PROVE  IsFiniteSet(ToSet(l)) /\ Cardinality(ToSet(l)) = Len(l)
<1> DEFINE S == DOMAIN l
           T == ToSet(l)
<1>1. IsList(l) /\ IsFiniteSet(S) /\ Cardinality(S) = Len(l) /\ Len(l) \in Nat
  BY ListFacts DEF Once
<1>2. IsFiniteSet(T) /\ Cardinality(T) <= Len(l)
  BY <1>1, SetIsFinite
<1>3. PICK f : f = [i \in S |-> l[i]]
  OBVIOUS
<1>4. f \in [S -> T] /\ \A i, j \in S : f[i] = f[j] => i = j
  BY <1>3 DEF ToSet, Once
<1> HIDE DEF S, T
<1>5. f \in Injection(S, T)
  BY <1>4 DEF Injection, IsInjective
<1>6. Cardinality(S) <= Cardinality(T)
  BY <1>2, <1>5, FS_Injection
<1>7. Cardinality(T) \in Nat
  BY <1>2, FS_CardinalityType
<1> QED BY <1>1, <1>2, <1>6, <1>7 DEF T

\* OpenSourceFiles: whatever the threads make of the list of packets, it is one.
LEMMA PacketsListed ==
    ASSUME NEW names, IsList(names)
    PROVE  IsList(InTurn(names)) /\ \A list \in AtOnce(names) : IsList(list)
<1> DEFINE n == Len(names)
           seqs == [i \in DOMAIN names |-> PacketsOf(names[i])]
           all == ToSet(InTurn(names))
<1>1. n \in Nat /\ DOMAIN names = 1 .. n
  BY ListFacts
<1>2. \A i \in 1 .. n : IsList(seqs[i])
  <2>1. \A x, y : <<x, y>> \in Seq({x, y})
    OBVIOUS
  <2>2. \A x, y : IsList(<<x, y>>)
    BY <2>1, SeqIsList
  <2> QED BY <1>1, <2>2 DEF PacketsOf
<1>3. seqs = [i \in 1 .. n |-> seqs[i]]
  BY <1>1
<1> HIDE DEF seqs, n
<1>4. IsList(InTurn(names))
  BY <1>1, <1>2, <1>3, JoinedLists DEF InTurn, seqs
<1>5. IsFiniteSet(all)
  BY <1>4, SetIsFinite
<1> HIDE DEF all
<1>6. ASSUME NEW packets, IsFiniteSet(packets), NEW list \in SetToSeqs(packets) PROVE IsList(list)
  <2>1. Cardinality(packets) \in Nat /\ list \in [1 .. Cardinality(packets) -> packets]
    BY <1>6, FS_CardinalityType DEF SetToSeqs
  <2>2. PICK m \in Nat : list \in [1 .. m -> packets]
    BY <2>1
  <2>3. list = [i \in 1 .. m |-> list[i]]
    BY <2>2
  <2> QED BY <2>3, ListOf
<1>7. ASSUME NEW list \in AtOnce(names) PROVE IsList(list)
  <2>1. \E packets \in {all} \cup {all \ {p} : p \in all} : list \in SetToSeqs(packets)
    BY <1>7 DEF AtOnce, all
  <2>2. PICK packets : list \in SetToSeqs(packets) /\ (packets = all \/ \E p : packets = all \ {p})
    BY <2>1
  <2>3. IsFiniteSet(packets)
    BY <1>5, <2>2, FS_RemoveElement
  <2> QED BY <1>6, <2>2, <2>3
<1> QED BY <1>4, <1>7

LEMMA FilesOpened ==
    ASSUME Solid(disk), Contents, Agreed(creator), CreationInv(at, creator, disk), OpenSourceFiles
    PROVE  Advances
<1> DEFINE names == Names(creator.extrafiles)
<1>1. /\ at = "open" /\ UNCHANGED <<disk, set>>
      /\ \/ at' = "end" /\ UNCHANGED creator
         \/ /\ at' = "main"
            /\ \E list : /\ list \in AtOnce(names) \/ list = InTurn(names)
                         /\ creator' = [creator EXCEPT !.sources = names, !.criticals = list]
  BY DEF OpenSourceFiles, Goto, End
<1>2. /\ Given(creator) /\ Same(creator, disk) /\ creator.blocks = <<>> /\ creator.next = 1 /\ Decided(creator)
      /\ Fit(creator)
  BY <1>1 DEF CreationInv, Deciding
<1>3. IsList(names)
  BY <1>2, NamesAre DEF Given
<1>4. CASE at' = "end" /\ UNCHANGED creator
  BY <1>1, <1>4 DEF Advances, Advancing, Deciding, Contents, CreatePlaces
<1>5. ASSUME NEW list, list \in AtOnce(names) \/ list = InTurn(names), at' = "main",
             creator' = [creator EXCEPT !.sources = names, !.criticals = list]
      PROVE  Advances
  <2>1. IsList(list)
    BY <1>3, <1>5, PacketsListed
  <2> HIDE DEF names
  <2>2. /\ Alters(creator, creator', {"sources", "criticals"})
        /\ creator'.sources = names /\ creator'.criticals = list
    BY <1>2, <1>5 DEF Alters, Given, CreatorFields
  <2>3. /\ creator'.extrafiles = creator.extrafiles /\ creator'.blocks = <<>> /\ creator'.next = 1
        /\ creator'.recoveryblockcount = creator.recoveryblockcount /\ creator'.filecount = creator.filecount
    BY <1>2, <2>2 DEF Alters, CreatorFields
  <2>4. Given(creator') /\ Decided(creator') /\ Fit(creator')
    BY <1>2, <2>2, <2>3, GivenSame, DecidedSame, FitSame DEF Given
  <2>5. CreationInv("main", creator', disk)
    BY <1>2, <2>1, <2>2, <2>3, <2>4 DEF CreationInv, Same, names
  <2>6. Agreed(creator')
    BY <2>3 DEF Agreed
  <2> QED BY <1>1, <1>5, <2>5, <2>6 DEF Advances, Advancing, Deciding, Contents, CreatePlaces
<1> QED BY <1>1, <1>4, <1>5

\* CreateMainPacket: the names are the same, in the order of the ids.
Sorted(l, s) == s = [k \in DOMAIN l |-> CHOOSE name \in ToSet(l) : Rank(ToSet(l), name) = k]
LEMMA SortedIs ==
    ASSUME NEW l, Once(l), ToSet(l) \subseteq DOMAIN FileId, NEW s, Sorted(l, s)
    PROVE  Once(s) /\ ToSet(s) = ToSet(l) /\ DOMAIN s = DOMAIN l
<1> DEFINE names == ToSet(l)
           place(k) == CHOOSE name \in names : Rank(names, name) = k
           n == Len(l)
<1>1. IsList(l) /\ n \in Nat /\ DOMAIN l = 1 .. n
  BY ListFacts DEF Once
<1>2. IsFiniteSet(names) /\ Cardinality(names) = n
  BY OnceIs
<1>3. s = [k \in DOMAIN l |-> place(k)]
  BY DEF Sorted
<1>4. ASSUME NEW k \in DOMAIN l PROVE s[k] \in names /\ Rank(names, s[k]) = k
  <2>1. k \in 1 .. Cardinality(names) /\ names \subseteq DOMAIN FileId
    BY <1>1, <1>2
  <2> HIDE DEF names
  <2>2. \E name \in names : Rank(names, name) = k
    BY <1>2, <2>1, Ranked
  <2>3. place(k) \in names /\ Rank(names, place(k)) = k
    BY <2>2
  <2> HIDE DEF place
  <2> QED BY <1>3, <2>3
<1> HIDE DEF place
<1>5. s = [k \in DOMAIN l |-> s[k]]
  BY <1>3
<1>6. IsList(s) /\ Len(s) = n /\ DOMAIN s = DOMAIN l
  BY <1>1, <1>5, ListLike
<1>7. Once(s)
  BY <1>4, <1>6 DEF Once
<1>8. ToSet(s) \subseteq names
  BY <1>4, <1>6 DEF ToSet
<1>9. IsFiniteSet(ToSet(s)) /\ Cardinality(ToSet(s)) = n
  BY <1>6, <1>7, OnceIs
<1>10. ToSet(s) = names
  <2> DEFINE S == ToSet(s)
  <2>1. S \in SUBSET names /\ Cardinality(S) = Cardinality(names)
    BY <1>2, <1>8, <1>9
  <2> HIDE DEF S, names
  <2>2. S = names
    BY <1>2, <2>1, FS_Subset
  <2> QED BY <2>2 DEF S
<1> QED BY <1>6, <1>7, <1>10

LEMMA MainMade ==
    ASSUME Solid(disk), Contents, Agreed(creator), CreationInv(at, creator, disk), CreateMainPacket
    PROVE  Advances
<1> DEFINE names == ToSet(creator.sources)
           sorted == [k \in DOMAIN creator.sources |-> CHOOSE name \in names : Rank(names, name) = k]
<1>1. PICK s : s = sorted
  OBVIOUS
<1>2. /\ at = "main" /\ at' = "blocks" /\ UNCHANGED disk
      /\ creator' = [creator EXCEPT !.sources = s, !.criticals = Append(@, MainPacket)]
      /\ set' = [blocksize |-> creator.blocksize,
                 files |-> [i \in DOMAIN s |-> [name |-> s[i], content |-> disk[s[i]]]]]
  BY <1>1 DEF CreateMainPacket, Goto, Rank
<1>3. Sorted(creator.sources, s)
  BY <1>1 DEF Sorted
<1>4. /\ Given(creator) /\ Same(creator, disk) /\ creator.blocks = <<>> /\ creator.next = 1 /\ Decided(creator)
      /\ Fit(creator) /\ IsList(creator.criticals) /\ creator.sources = Names(creator.extrafiles)
  BY <1>2 DEF CreationInv, Deciding
<1> HIDE DEF sorted
<1>5. Once(s) /\ ToSet(s) = ToSet(Names(creator.extrafiles))
  BY <1>3, <1>4, SortedIs DEF Given
<1>6. \A i \in DOMAIN s : s[i] \in DOMAIN disk
  <2> TAKE i \in DOMAIN s
  <2>1. s[i] \in ToSet(Names(creator.extrafiles))
    BY <1>5 DEF ToSet
  <2>2. PICK j \in DOMAIN creator.extrafiles : s[i] = creator.extrafiles[j].name
    BY <1>4, <2>1, NamesAre DEF ToSet, Given
  <2>3. GetFileSize(disk, s[i]) # 0
    BY <1>4, <2>2 DEF Given, Same
  <2> QED BY <2>3 DEF GetFileSize, FileExists
<1>7. Contents'
  <2>1. DOMAIN set'.files = DOMAIN s /\ \A i \in DOMAIN s : set'.files[i].content = disk[s[i]]
    BY <1>2
  <2> QED BY <1>6, <2>1 DEF Contents, Solid
<1> DEFINE list == Append(creator.criticals, MainPacket)
<1>8. IsList(list)
  BY <1>4, ListAppend
<1>9. /\ Alters(creator, creator', {"sources", "criticals"})
      /\ creator'.sources = s /\ creator'.criticals = list
  <2>1. CreatorFields \subseteq DOMAIN creator
    BY <1>4 DEF Given
  <2> HIDE DEF list
  <2>2. creator' = [creator EXCEPT !.sources = s, !.criticals = list]
    BY <1>2, <2>1 DEF list, CreatorFields
  <2> QED BY <2>1, <2>2 DEF Alters, CreatorFields
<1> HIDE DEF list
<1>10. /\ creator'.extrafiles = creator.extrafiles /\ creator'.blocks = <<>> /\ creator'.next = 1
       /\ creator'.recoveryblockcount = creator.recoveryblockcount /\ creator'.filecount = creator.filecount
  BY <1>4, <1>9 DEF Alters, CreatorFields
<1>11. Given(creator') /\ Decided(creator') /\ Fit(creator')
  BY <1>4, <1>9, <1>10, GivenSame, DecidedSame, FitSame DEF Given
<1>12. CreationInv("blocks", creator', disk)
  BY <1>4, <1>5, <1>8, <1>9, <1>10, <1>11 DEF CreationInv, Same
<1>13. Agreed(creator')
  BY <1>10 DEF Agreed
<1> QED BY <1>2, <1>7, <1>12, <1>13 DEF Advances, Advancing, Deciding, CreatePlaces

\* CreateSourceBlocks: as many blocks as were counted.
LEMMA BlocksCounted ==
    ASSUME NEW c, Given(c), Decided(c), Once(c.sources), ToSet(c.sources) = ToSet(Names(c.extrafiles)),
           NEW d, Same(c, d),
           NEW blocks, blocks = FlattenSeq([i \in DOMAIN c.sources |->
                                  BlocksOf(c.sources[i], GetFileSize(d, c.sources[i]), c.blocksize)])
    PROVE  IsList(blocks) /\ Len(blocks) = c.sourceblockcount
<1> DEFINE names == Names(c.extrafiles)
           seqs == [i \in DOMAIN c.sources |-> BlocksOf(c.sources[i], GetFileSize(d, c.sources[i]), c.blocksize)]
<1>1. PICK n \in Nat : DOMAIN c.extrafiles = 1 .. n /\ FileSizes(c) \in [1 .. n -> Nat]
  BY SizesGiven
<1>2. PICK b \in Nat : b = c.blocksize /\ b > 0
  BY DEF Decided
<1>3. PICK f : f = FileSizes(c)
  OBVIOUS
<1>a. PICK a : a = Counts(f, b)
  OBVIOUS
<1>4. a \in [1 .. n -> Nat] /\ CountOf(f, b) = Total(a)
      /\ \A i \in 1 .. n : a[i] = CeilDiv(f[i], b)
  BY <1>1, <1>2, <1>3, <1>a, CountsAre
<1>5. Once(names) /\ DOMAIN names = 1 .. n /\ \A i \in 1 .. n : names[i] = c.extrafiles[i].name
  BY <1>1, NamesAre DEF Given
<1>6. DOMAIN c.sources = 1 .. n
  <2>1. Len(names) = n
    <3>1. Len(names) \in Nat /\ DOMAIN names = 1 .. Len(names)
      BY <1>5, ListFacts DEF Once
    <3> QED BY <1>5, <3>1
  <2>2. Len(c.sources) = n
    BY <1>5, <2>1, OnceIs
  <2> QED BY <2>2, ListFacts DEF Once
<1>7. \A i \in 1 .. n : \E j \in 1 .. n : c.sources[i] = names[j]
  <2> TAKE i \in 1 .. n
  <2>1. c.sources[i] \in ToSet(names)
    BY <1>6 DEF ToSet
  <2> QED BY <2>1, <1>5 DEF ToSet
<1> HIDE DEF names
<1> DEFINE p == [i \in 1 .. n |-> CHOOSE j \in 1 .. n : c.sources[i] = names[j]]
<1>8. p \in [1 .. n -> 1 .. n] /\ \A i \in 1 .. n : c.sources[i] = names[p[i]]
  <2>1. \A i \in 1 .. n : p[i] \in 1 .. n /\ c.sources[i] = names[p[i]]
    <3> TAKE i \in 1 .. n
    <3>1. \E j \in 1 .. n : c.sources[i] = names[j]
      BY <1>7
    <3> QED BY <3>1
  <2>2. p = [i \in 1 .. n |-> p[i]]
    OBVIOUS
  <2> HIDE DEF p
  <2> QED BY <2>1, <2>2
<1> HIDE DEF p
<1>9. \A i, j \in 1 .. n : p[i] = p[j] => i = j
  <2> TAKE i, j \in 1 .. n
  <2>1. p[i] = p[j] => c.sources[i] = c.sources[j]
    BY <1>8
  <2>2. c.sources[i] = c.sources[j] => i = j
    BY <1>6 DEF Once
  <2> QED BY <2>1, <2>2
<1> DEFINE lengths == [i \in 1 .. n |-> a[p[i]]]
<1>10. lengths \in [1 .. n -> Int] /\ \A i \in 1 .. n : lengths[i] = a[p[i]]
  BY <1>4, <1>8
<1> HIDE DEF lengths
<1>11. ASSUME NEW i \in 1 .. n PROVE IsList(seqs[i]) /\ lengths[i] = Len(seqs[i])
  <2>0. PICK j \in 1 .. n : j = p[i]
    BY <1>8
  <2>1. PICK s \in Nat : s = f[j]
    BY <1>1, <1>3
  <2>2. s = GetFileSize(d, c.sources[i])
    <3>1. s = c.extrafiles[j].size
      BY <1>1, <1>3, <2>1 DEF FileSizes
    <3>2. c.sources[i] = c.extrafiles[j].name
      BY <1>5, <1>8, <2>0
    <3> QED BY <1>1, <3>1, <3>2 DEF Same
  <2>3. PICK m \in Nat : m = CeilDiv(s, b)
    BY <1>2, CeilIs
  <2> DEFINE blocksOf == BlocksOf(c.sources[i], s, b)
  <2>4. blocksOf = [k \in 1 .. m |-> blocksOf[k]]
    BY <2>3 DEF BlocksOf
  <2>5. seqs[i] = blocksOf
    BY <1>2, <1>6, <2>2
  <2> HIDE DEF blocksOf, seqs
  <2>6. IsList(blocksOf) /\ Len(blocksOf) = m
    BY <2>4, ListOf
  <2>7. lengths[i] = m
    BY <1>4, <1>8, <1>10, <2>0, <2>1, <2>3
  <2> QED BY <2>5, <2>6, <2>7
<1>12. seqs = [i \in 1 .. n |-> seqs[i]]
  BY <1>6
<1>13. blocks = FlattenSeq(seqs)
  OBVIOUS
<1> HIDE DEF seqs
<1>14. IsList(blocks) /\ Len(blocks) = Total(lengths)
  <2>1. PICK q : q = seqs
    OBVIOUS
  <2>2. q = [i \in 1 .. n |-> q[i]] /\ \A i \in 1 .. n : IsList(q[i]) /\ lengths[i] = Len(q[i])
    BY <1>11, <1>12, <2>1
  <2>3. Lists(q, lengths, n)
    BY <1>10, <2>2 DEF Lists
  <2>4. IsList(FlattenSeq(q)) /\ Len(FlattenSeq(q)) = Total(lengths)
    BY <2>3, FlattenLists
  <2> QED BY <1>13, <2>1, <2>4
<1>15. Shuffled(a, lengths, p, n)
  <2>1. a \in [1 .. n -> Int]
    <3>1. a = [i \in 1 .. n |-> a[i]] /\ \A i \in 1 .. n : a[i] \in Int
      BY ONLY <1>4
    <3> QED BY ONLY <3>1
  <2>2. lengths \in [1 .. n -> Int] /\ \A i \in 1 .. n : lengths[i] = a[p[i]]
    BY ONLY <1>10
  <2>3. p \in [1 .. n -> 1 .. n] /\ \A i, j \in 1 .. n : p[i] = p[j] => i = j
    BY ONLY <1>8, <1>9
  <2> QED BY ONLY <2>1, <2>2, <2>3 DEF Shuffled
<1>16. Total(a) = Total(lengths)
  BY <1>15, TotalShuffled
<1> QED BY <1>2, <1>3, <1>4, <1>14, <1>16 DEF Decided

LEMMA BlocksMade ==
    ASSUME Solid(disk), Contents, Agreed(creator), CreationInv(at, creator, disk), CreateSourceBlocks
    PROVE  Advances
<1>1. PICK blocks : blocks = FlattenSeq([i \in DOMAIN creator.sources |->
                               BlocksOf(creator.sources[i], GetFileSize(disk, creator.sources[i]),
                                        creator.blocksize)])
  OBVIOUS
<1>2. /\ at = "blocks" /\ at' = "layout" /\ UNCHANGED <<disk, set>>
      /\ creator' = [creator EXCEPT !.blocks = blocks]
  BY <1>1 DEF CreateSourceBlocks, Goto, Only
<1>3. /\ Given(creator) /\ Same(creator, disk) /\ creator.next = 1 /\ Decided(creator)
      /\ Fit(creator) /\ IsList(creator.criticals) /\ Once(creator.sources)
      /\ ToSet(creator.sources) = ToSet(Names(creator.extrafiles))
  BY <1>2 DEF CreationInv, Deciding
<1>4. Len(blocks) = creator.sourceblockcount
  BY <1>1, <1>3, BlocksCounted
<1>5. Alters(creator, creator', {"blocks"}) /\ creator'.blocks = blocks
  BY <1>2, <1>3 DEF Alters, Given, CreatorFields
<1>6. /\ creator'.next = 1 /\ creator'.criticals = creator.criticals
      /\ creator'.sourceblockcount = creator.sourceblockcount
      /\ creator'.recoveryblockcount = creator.recoveryblockcount /\ creator'.filecount = creator.filecount
  BY <1>3, <1>5 DEF Alters, CreatorFields
<1>7. Given(creator') /\ Decided(creator') /\ Fit(creator')
  BY <1>3, <1>5, <1>6, GivenSame, DecidedSame, FitSame DEF Given
<1>8. CreationInv("layout", creator', disk)
  BY <1>3, <1>6, <1>7 DEF CreationInv, Deciding
<1>9. Agreed(creator')
  BY <1>4, <1>5, <1>6, <1>7 DEF Agreed, Decided, Fit
<1> QED BY <1>2, <1>8, <1>9 DEF Advances, Advancing, Deciding, Contents, CreatePlaces

-----------------------------------------------------------------------------
(* The recovery files are laid out and written *)

\* Two lists after each other.
LEMMA ConcatLists ==
    ASSUME NEW l, IsList(l), NEW m, IsList(m)
    PROVE  /\ IsList(l \o m) /\ Len(l \o m) = Len(l) + Len(m)
           /\ \A i \in DOMAIN (l \o m) : (l \o m)[i] \in ToSet(l) \cup ToSet(m)
<1> DEFINE S == ToSet(l)
           T == ToSet(m)
           U == S \cup T
<1>1. l \in Seq(S) /\ m \in Seq(T)
  BY DEF IsList
<1>2. S \subseteq U /\ T \subseteq U
  OBVIOUS
<1> HIDE DEF S, T, U
<1>3. l \in Seq(U) /\ m \in Seq(U)
  BY <1>1, <1>2
<1>4. l \o m \in Seq(U) /\ Len(l \o m) = Len(l) + Len(m)
  BY <1>3, ConcatProperties
<1>5. PICK j : j = l \o m
  OBVIOUS
<1>6. IsList(j) /\ \A i \in DOMAIN j : j[i] \in U
  BY <1>4, <1>5, SeqIsList, ElementOfSeq, LenProperties
<1> QED BY <1>4, <1>5, <1>6 DEF S, T, U

\* Where the doubling begins, and that it goes far enough.
LEMMA LowIs ==
    ASSUME creator.filecount \in Nat, creator.recoveryblockcount \in Nat
    PROVE  /\ LowBlockCount \in Nat /\ Shifted \in Nat
           /\ Shifted > 0 /\ creator.recoveryblockcount <= Count =>
                LowBlockCount * Shifted >= creator.recoveryblockcount
<1>0. PICK r \in Nat : r = creator.recoveryblockcount
  OBVIOUS
<1>1. Width \in Nat /\ Width > 0 /\ Bits \in Nat /\ Width >= Bits
  BY CreateAssumption, GaloisAssumption
<1>2. PICK s \in Nat : s = Shifted
  <2>1. \A x, y \in Nat : y > 0 => x % y \in Nat
    OBVIOUS
  <2>2. PICK x \in Nat : x = creator.filecount % Width
    BY <1>1, <2>1
  <2>3. PICK p \in Nat : p = PowerOf2(x) /\ p > 0
    BY Doubled
  <2> QED BY <2>2, <2>3 DEF Shifted
<1> DEFINE Next1(x) == IF s * x < r THEN 2 * x ELSE x
           Eq(g) == [k \in 0 .. Width |-> IF k = 0 THEN 1
                                          ELSE IF Shifted * g[k - 1] < creator.recoveryblockcount
                                               THEN 2 * g[k - 1] ELSE g[k - 1]]
           low == CHOOSE g : g = Eq(g)
           F == [p \in (1 .. Width) \X Nat |-> Next1(p[2])]
<1>3. \A x \in Nat : Next1(x) \in Nat
  OBVIOUS
<1>4. Steps(F, Nat, Width) /\ 1 \in Nat
  <2> HIDE DEF Next1
  <2> QED BY <1>3 DEF Steps
<1>5. PICK f : Follows(f, F, Nat, 1, Width)
  <2> HIDE DEF F
  <2> QED BY <1>1, <1>4, Recursion
<1>6. f \in [0 .. Width -> Nat] /\ f[0] = 1 /\ \A k \in 1 .. Width : f[k] = F[<<k, f[k - 1]>>]
  BY <1>5 DEF Follows
<1>7. \A k \in 0 .. Width : f[k] = IF k = 0 THEN 1 ELSE Next1(f[k - 1])
  <2> TAKE k \in 0 .. Width
  <2>1. CASE k = 0
    BY <1>6, <2>1
  <2>2. CASE k # 0
    <3>1. k \in 1 .. Width /\ k - 1 \in 0 .. Width
      BY <1>1, <2>2
    <3>2. f[k - 1] \in Nat
      BY <1>6, <3>1
    <3> HIDE DEF Next1
    <3>3. F[<<k, f[k - 1]>>] = Next1(f[k - 1])
      BY <3>1, <3>2
    <3> HIDE DEF F
    <3> QED BY <1>6, <2>2, <3>1, <3>3
  <2> QED BY <2>1, <2>2
<1>8. f = Eq(f)
  <2>1. f = [k \in 0 .. Width |-> IF k = 0 THEN 1 ELSE Next1(f[k - 1])]
    <3> HIDE DEF Next1
    <3> QED BY <1>6, <1>7
  <2> QED BY <1>0, <1>2, <2>1
<1>9. low = Eq(low)
  <2> HIDE DEF Eq
  <2> QED BY <1>8
<1>10. \A k \in 0 .. Width : low[k] = IF k = 0 THEN 1 ELSE Next1(low[k - 1])
  <2> HIDE DEF low
  <2> QED BY <1>0, <1>2, <1>9
<1> HIDE DEF low
<1> DEFINE T == {k \in Nat : k <= Width => low[k] \in Nat /\ (low[k] = PowerOf2(k) \/ low[k] * s >= r)}
<1>11. 0 \in T
  BY <1>1, <1>10, Doubled
<1>12. ASSUME NEW k \in Nat, k \in T PROVE k + 1 \in T
  <2> SUFFICES ASSUME k + 1 <= Width
               PROVE  low[k + 1] \in Nat /\ (low[k + 1] = PowerOf2(k + 1) \/ low[k + 1] * s >= r)
    OBVIOUS
  <2>1. k + 1 \in 0 .. Width /\ k + 1 # 0 /\ (k + 1) - 1 = k /\ k <= Width
    BY <1>1
  <2>2. PICK x \in Nat : x = low[k] /\ (x = PowerOf2(k) \/ x * s >= r)
    BY <1>12, <2>1
  <2>3. low[k + 1] = IF s * x < r THEN 2 * x ELSE x
    BY <1>10, <2>1, <2>2
  <2>4. PowerOf2(k + 1) = 2 * PowerOf2(k)
    BY Doubled
  <2>5. s * x = x * s /\ s * x \in Nat
    OBVIOUS
  <2>6. CASE s * x < r
    <3>1. x = PowerOf2(k)
      BY <2>2, <2>5, <2>6
    <3> QED BY <2>3, <2>4, <2>6, <3>1
  <2>7. CASE ~(s * x < r)
    BY <2>3, <2>5, <2>7
  <2> QED BY <2>6, <2>7
<1> HIDE DEF T
<1>13. Width \in T
  BY <1>1, <1>11, <1>12, Induct
<1>14. PICK x \in Nat : x = low[Width] /\ (x = PowerOf2(Width) \/ x * s >= r)
  BY <1>1, <1>13 DEF T
<1>15. LowBlockCount = x
  BY <1>14 DEF LowBlockCount, low
<1>16. ASSUME s > 0, r <= Count PROVE x * s >= r
  <2> SUFFICES ASSUME x = PowerOf2(Width) PROVE x * s >= r
    BY <1>14
  <2>1. PICK d \in Nat : Bits + d = Width
    <3>1. Width - Bits \in Nat /\ Bits + (Width - Bits) = Width
      BY <1>1
    <3> QED BY <3>1
  <2>2. PowerOf2(Bits) <= x
    BY <1>1, <2>1, PowersGrow
  <2>3. PICK n \in Nat : n = Count /\ n <= x
    BY <2>2, CountIsPower
  <2>4. x * s >= x
    <3>1. x * s = x * (s - 1) + x /\ s - 1 \in Nat
      BY <1>16
    <3>2. x * (s - 1) \in Nat
      BY <3>1
    <3> QED BY <3>1, <3>2
  <2>5. x * s \in Nat
    OBVIOUS
  <2> QED BY <1>16, <2>3, <2>4, <2>5
<1> QED BY <1>0, <1>2, <1>15, <1>16

\* What is left of the blocks after each file.
Left(left, low, files, blocks) ==
    /\ left \in [0 .. files -> Nat] /\ left[0] = blocks
    /\ \A k \in 1 .. files : left[k] = left[k - 1] - Min2(low * PowerOf2(k - 1), left[k - 1])
LEMMA LeftIs ==
    ASSUME NEW low \in Nat, NEW files \in Nat, NEW blocks \in Nat
    PROVE  \E left : /\ Left(left, low, files, blocks)
                     /\ Doubling(low, files, blocks) =
                          [i \in 1 .. files |-> Min2(low * PowerOf2(i - 1), left[i - 1])]
<1> DEFINE Next1(i, x) == x - Min2(low * PowerOf2(i - 1), x)
           Eq(g) == [i \in 0 .. files |-> IF i = 0 THEN blocks
                                          ELSE g[i - 1] - Min2(low * PowerOf2(i - 1), g[i - 1])]
           left == CHOOSE g : g = Eq(g)
           F == [p \in (1 .. files) \X Nat |-> Next1(p[1], p[2])]
<1>1. \A i \in 1 .. files : \A x \in Nat : Next1(i, x) \in Nat
  <2> TAKE i \in 1 .. files
  <2> TAKE x \in Nat
  <2>1. i - 1 \in Nat
    OBVIOUS
  <2>2. PICK p \in Nat : p = PowerOf2(i - 1)
    BY <2>1, Doubled
  <2>3. PICK y \in Nat : y = low * p
    OBVIOUS
  <2> QED BY <2>2, <2>3 DEF Min2
<1>2. Steps(F, Nat, files)
  <2> HIDE DEF Next1
  <2> QED BY <1>1 DEF Steps
<1>3. PICK f : Follows(f, F, Nat, blocks, files)
  <2> HIDE DEF F
  <2> QED BY <1>2, Recursion
<1>4. f \in [0 .. files -> Nat] /\ f[0] = blocks /\ \A k \in 1 .. files : f[k] = F[<<k, f[k - 1]>>]
  BY <1>3 DEF Follows
<1>5. \A i \in 1 .. files : f[i] = Next1(i, f[i - 1])
  <2> TAKE i \in 1 .. files
  <2>1. i - 1 \in 0 .. files
    OBVIOUS
  <2>2. f[i - 1] \in Nat
    BY <1>4, <2>1
  <2> HIDE DEF Next1
  <2>3. F[<<i, f[i - 1]>>] = Next1(i, f[i - 1])
    BY <2>2
  <2> HIDE DEF F
  <2> QED BY <1>4, <2>3
<1>6. f = Eq(f)
  <2>1. \A i \in 0 .. files : f[i] = IF i = 0 THEN blocks ELSE Next1(i, f[i - 1])
    <3> TAKE i \in 0 .. files
    <3>1. i = 0 \/ (i # 0 /\ i \in 1 .. files)
      OBVIOUS
    <3> HIDE DEF Next1
    <3> QED BY <1>4, <1>5, <3>1
  <2>2. f = [i \in 0 .. files |-> IF i = 0 THEN blocks ELSE Next1(i, f[i - 1])]
    <3> HIDE DEF Next1
    <3> QED BY <1>4, <2>1
  <2> QED BY <2>2
<1>7. left = Eq(left)
  <2> HIDE DEF Eq
  <2> QED BY <1>6
<1>8. Doubling(low, files, blocks) = [i \in 1 .. files |-> Min2(low * PowerOf2(i - 1), left[i - 1])]
  BY DEF Doubling
<1>9. left = [i \in 0 .. files |-> left[i]] /\ left[0] = blocks
      /\ \A i \in 1 .. files : left[i] = Next1(i, left[i - 1])
  <2> HIDE DEF left
  <2>1. 0 \in 0 .. files /\ \A i \in 1 .. files : i \in 0 .. files /\ i # 0
    OBVIOUS
  <2>2. left = [i \in 0 .. files |-> left[i]]
    BY <1>7
  <2>3. \A i \in 0 .. files : left[i] = IF i = 0 THEN blocks ELSE Next1(i, left[i - 1])
    BY <1>7
  <2> HIDE DEF Next1
  <2> QED BY <2>1, <2>2, <2>3
<1> HIDE DEF left
<1> DEFINE T == {k \in Nat : k <= files => left[k] \in Nat}
<1>10. 0 \in T
  BY <1>9
<1>11. ASSUME NEW k \in Nat, k \in T PROVE k + 1 \in T
  <2> SUFFICES ASSUME k + 1 <= files PROVE left[k + 1] \in Nat
    OBVIOUS
  <2>1. k + 1 \in 1 .. files /\ (k + 1) - 1 = k /\ left[k] \in Nat
    BY <1>11
  <2>2. left[k + 1] = Next1(k + 1, left[k])
    BY <1>9, <2>1
  <2> HIDE DEF Next1
  <2> QED BY <1>1, <2>1, <2>2
<1> HIDE DEF T
<1>12. \A k \in 0 .. files : left[k] \in Nat
  <2>1. Nat \subseteq T
    BY <1>10, <1>11, Induct
  <2> QED BY <2>1 DEF T
<1>13. Left(left, low, files, blocks)
  BY <1>9, <1>12 DEF Left
<1> QED BY <1>8, <1>13

\* Nothing is left, if the files can have that many.
LEMMA LeftEnds ==
    ASSUME NEW low \in Nat, NEW files \in Nat, NEW blocks \in Nat, NEW left, Left(left, low, files, blocks),
           low * (PowerOf2(files) - 1) >= blocks
    PROVE  left[files] = 0
<1> DEFINE T == {k \in Nat : k <= files => left[k] = 0 \/ left[k] = blocks - low * (PowerOf2(k) - 1)}
<1>1. 0 \in T
  <2>1. PICK p \in Nat : p = PowerOf2(0) /\ p = 1
    BY Doubled
  <2>2. left[0] = blocks
    BY DEF Left
  <2>3. low * (p - 1) = 0 /\ blocks - 0 = blocks
    BY <2>1
  <2>4. left[0] = blocks - low * (PowerOf2(0) - 1)
    BY <2>1, <2>2, <2>3
  <2> QED BY <2>4
<1>2. ASSUME NEW k \in Nat, k \in T PROVE k + 1 \in T
  <2> SUFFICES ASSUME k + 1 <= files
               PROVE  left[k + 1] = 0 \/ left[k + 1] = blocks - low * (PowerOf2(k + 1) - 1)
    OBVIOUS
  <2>1. k + 1 \in 1 .. files /\ (k + 1) - 1 = k /\ k \in 0 .. files /\ k <= files
    OBVIOUS
  <2>2. PICK p \in Nat : p = PowerOf2(k) /\ PowerOf2(k + 1) = 2 * p
    BY Doubled
  <2>3. PICK x \in Nat : x = left[k]
    BY <2>1 DEF Left
  <2>4. left[k + 1] = left[(k + 1) - 1] - Min2(low * PowerOf2((k + 1) - 1), left[(k + 1) - 1])
    BY <2>1 DEF Left
  <2>5. PICK y \in Nat : y = low * p
    OBVIOUS
  <2>6. left[k + 1] = x - Min2(y, x)
    BY <2>1, <2>2, <2>3, <2>4, <2>5
  <2>7. x = 0 \/ x = blocks - low * (p - 1)
    BY <1>2, <2>1, <2>2, <2>3
  <2>8. low * (p - 1) = y - low /\ low * (2 * p - 1) = 2 * y - low
    BY <2>5
  <2>9. left[k + 1] = 0 \/ left[k + 1] = blocks - (2 * y - low)
    BY <2>6, <2>7, <2>8 DEF Min2
  <2> QED BY <2>2, <2>8, <2>9
<1> HIDE DEF T
<1>3. files \in T
  BY <1>1, <1>2, Induct
<1>4. left[files] = 0 \/ left[files] = blocks - low * (PowerOf2(files) - 1)
  BY <1>3 DEF T
<1>5. left[files] \in Nat
  BY DEF Left
<1>6. PICK z \in Int : z = low * (PowerOf2(files) - 1)
  <2>1. PICK p \in Nat : p = PowerOf2(files)
    BY Doubled
  <2> QED BY <2>1
<1> QED BY <1>4, <1>5, <1>6

\* As many as are not left are in the files.
Enough(low, files, blocks) == low * (PowerOf2(files) - 1) >= blocks
LEMMA DoublingIs ==
    ASSUME NEW low \in Nat, NEW files \in Int, NEW blocks \in Nat
    PROVE  /\ Doubling(low, files, blocks) \in Seq(Nat)
           /\ files \in Nat =>
                /\ DOMAIN Doubling(low, files, blocks) = 1 .. files
                /\ Enough(low, files, blocks) => Total(Doubling(low, files, blocks)) = blocks
<1>1. PICK l : l = Doubling(low, files, blocks)
  OBVIOUS
<1>2. CASE files \notin Nat
  <2>1. 1 .. files = {}
    BY <1>2
  <2>2. l = <<>>
    BY <1>1, <2>1 DEF Doubling
  <2> QED BY <1>1, <1>2, <2>2
<1>3. CASE files \in Nat
  <2>1. PICK left : Left(left, low, files, blocks)
                    /\ l = [i \in 1 .. files |-> Min2(low * PowerOf2(i - 1), left[i - 1])]
    BY <1>1, <1>3, LeftIs
  <2>2. \A i \in 1 .. files : l[i] \in Nat /\ left[i] \in Nat /\ left[i - 1] \in Nat /\ left[i] = left[i - 1] - l[i]
    <3> TAKE i \in 1 .. files
    <3>1. i - 1 \in Nat /\ i - 1 \in 0 .. files /\ i \in 0 .. files
      BY <1>3
    <3>2. PICK p \in Nat : p = PowerOf2(i - 1)
      BY <3>1, Doubled
    <3>3. PICK y \in Nat : y = low * p
      OBVIOUS
    <3>4. l[i] = Min2(y, left[i - 1])
      BY <2>1, <3>2, <3>3
    <3>5. left[i - 1] \in Nat /\ left[i] \in Nat /\ left[i] = left[i - 1] - Min2(low * PowerOf2(i - 1), left[i - 1])
      BY <2>1, <3>1 DEF Left
    <3>6. left[i] = left[i - 1] - l[i]
      BY <3>2, <3>3, <3>4, <3>5
    <3> QED BY <3>3, <3>4, <3>5, <3>6 DEF Min2
  <2>3. l = [i \in 1 .. files |-> l[i]]
    BY <2>1
  <2>4. l \in [1 .. files -> Nat] /\ l \in [1 .. files -> Int] /\ IsList(l) /\ Len(l) = files
    BY <1>3, <2>2, <2>3, ListOf
  <2>5. l \in Seq(Nat)
    BY <1>3, <2>4
  <2>6. PICK f \in [0 .. files -> Int] : Sums(f, l, files) /\ Total(l) = f[files]
    BY <1>3, <2>4, TotalIs
  <2> DEFINE T == {k \in Nat : k <= files => f[k] = blocks - left[k]}
  <2>7. 0 \in T
    <3>1. f[0] = 0 /\ left[0] = blocks
      BY <2>1, <2>6 DEF Sums, Left
    <3> QED BY <3>1
  <2>8. ASSUME NEW k \in Nat, k \in T PROVE k + 1 \in T
    <3> SUFFICES ASSUME k + 1 <= files PROVE f[k + 1] = blocks - left[k + 1]
      OBVIOUS
    <3>1. k + 1 \in 1 .. files /\ (k + 1) - 1 = k /\ k <= files
      OBVIOUS
    <3>2. f[k + 1] = f[k] + l[k + 1] /\ f[k] \in Int
      BY <2>6, <3>1 DEF Sums
    <3>3. l[k + 1] \in Nat /\ left[k + 1] \in Nat /\ left[k] \in Nat /\ left[k + 1] = left[k] - l[k + 1]
      BY <2>2, <3>1
    <3>4. f[k] = blocks - left[k]
      BY <2>8, <3>1
    <3> HIDE DEF T
    <3> QED BY <3>2, <3>3, <3>4
  <2> HIDE DEF T
  <2>9. files \in T
    BY <1>3, <2>7, <2>8, Induct
  <2>10. Total(l) = blocks - left[files]
    BY <2>6, <2>9 DEF T
  <2>11. ASSUME Enough(low, files, blocks) PROVE Total(l) = blocks
    <3>1. left[files] = 0
      BY <1>3, <2>1, <2>11, LeftEnds DEF Enough
    <3> QED BY <2>10, <3>1
  <2> QED BY <1>1, <2>4, <2>5, <2>11
<1> QED BY <1>2, <1>3

\* How many blocks each file has, and that these are all the blocks.
LEMMA BlockCountsAre ==
    ASSUME Given(creator), Decided(creator)
    PROVE  /\ BlockCounts \in Seq(Nat)
           /\ Filed /\ ~Hangs /\ creator.recoveryblockcount <= Count =>
                Total(BlockCounts) = creator.recoveryblockcount
<1>1. PICK n \in Nat : n = creator.filecount
  BY DEF Given
<1>2. PICK blocks \in Nat : blocks = creator.recoveryblockcount
  BY DEF Given
<1>3. PICK l \in Nat : l = LargestBlocks /\ l > 0
  BY FileCountIs
<1>4. PICK top : top = IF blocks < 2 * l THEN 0 ELSE blocks \div l - 1
  OBVIOUS
<1>5. top \in Nat /\ n - top \in Int /\ blocks - top * l \in Nat /\ top = WholeFiles
  <2>1. PICK w \in Nat : w = blocks \div l /\ l * w <= blocks /\ blocks < l * (w + 1)
    <3>1. \A x, y \in Nat : y > 0 => x \div y \in Nat /\ y * (x \div y) <= x /\ x < y * (x \div y + 1)
      OBVIOUS
    <3> QED BY <1>3, <3>1
  <2>2. WholeFiles = IF w >= 1 THEN w - 1 ELSE 0
    BY <1>2, <1>3, <2>1 DEF WholeFiles
  <2>3. blocks < 2 * l => w < 2
    <3>0. SUFFICES ASSUME w >= 2 PROVE ~(blocks < 2 * l)
      BY <2>1
    <3>1. l * w = l * (w - 2) + 2 * l /\ w - 2 \in Nat
      BY <3>0
    <3>2. l * (w - 2) \in Nat
      BY <3>1
    <3> QED BY <2>1, <3>1, <3>2
  <2>4. ~(blocks < 2 * l) => w >= 2
    <3> SUFFICES ASSUME ~(w >= 2) PROVE blocks < 2 * l
      OBVIOUS
    <3>1. w = 0 \/ w = 1
      BY <2>1
    <3> QED BY <2>1, <3>1
  <2>5. top = WholeFiles
    BY <1>4, <2>1, <2>2, <2>3, <2>4
  <2>6. WholeFiles \in Nat /\ blocks - WholeFiles * l \in Nat
    BY <1>2, <1>3, FileCountIs
  <2> QED BY <2>5, <2>6
<1> DEFINE uniform == [i \in 1 .. n |-> blocks \div n + IF i - 1 < blocks % n THEN 1 ELSE 0]
           large == [i \in 1 .. top |-> l]
<1>6. ASSUME n # 0 PROVE uniform \in Seq(Nat) /\ Total(uniform) = blocks
  <2>1. /\ blocks \div n \in Nat /\ blocks % n \in Nat /\ blocks % n < n
        /\ blocks = n * (blocks \div n) + (blocks % n)
    <3>1. n > 0
      BY <1>6
    <3> QED BY <3>1, QuotientAndRest
  <2>2. PICK q \in Nat : q = blocks \div n
    BY <2>1
  <2>3. PICK r \in Nat : r = blocks % n /\ r <= n /\ blocks = n * q + r
    BY <2>1, <2>2
  <2>4. PICK u : u = uniform
    OBVIOUS
  <2>5. Even(u, n, q, r)
    BY <2>2, <2>3, <2>4 DEF Even
  <2> HIDE DEF uniform
  <2>6. u \in [1 .. n -> Nat] /\ Total(u) = n * q + r
    BY <2>3, <2>5, TotalEven
  <2> QED BY <2>3, <2>4, <2>6
<1>7. large \in [1 .. top -> Nat] /\ large \in Seq(Nat) /\ Total(large) = top * l
  <2>1. PICK u : u = large
    OBVIOUS
  <2>2. Even(u, top, l, 0)
    <3>1. \A i \in 1 .. top : l + (IF i - 1 < 0 THEN 1 ELSE 0) = l
      BY <1>5
    <3> QED BY <2>1, <3>1 DEF Even
  <2>3. 0 \in Nat /\ 0 <= top
    BY <1>5
  <2> HIDE DEF large
  <2>4. u \in [1 .. top -> Nat] /\ Total(u) = top * l + 0
    BY <1>5, <2>2, <2>3, TotalEven
  <2>5. u \in Seq(Nat)
    BY <1>5, <2>4
  <2>6. top * l \in Nat
    BY <1>5
  <2> QED BY <2>1, <2>4, <2>5, <2>6
<1>8. /\ Doubling(LowBlockCount, n, blocks) \in Seq(Nat)
      /\ Filed /\ creator.scheme = "variable" /\ ~Hangs /\ blocks <= Count /\ n # 0 =>
           Total(Doubling(LowBlockCount, n, blocks)) = blocks
  <2>1. PICK low \in Nat : low = LowBlockCount
    BY <1>1, <1>2, LowIs
  <2>2. PICK s \in Nat : s = Shifted /\ (s > 0 /\ blocks <= Count => low * s >= blocks)
    BY <1>1, <1>2, <2>1, LowIs
  <2>3. ASSUME creator.scheme = "variable", ~Hangs, blocks <= Count, n # 0
        PROVE  Enough(low, n, blocks)
    <3>1. s > 0
      BY <1>1, <2>2, <2>3 DEF Hangs
    <3>2. PICK m \in Nat : m = n % Width /\ m <= n
      <4>1. \A x, y \in Nat : y > 0 => x % y \in Nat /\ x % y <= x
        OBVIOUS
      <4>2. Width \in Nat /\ Width > 0
        BY CreateAssumption
      <4> QED BY <4>1, <4>2
    <3>3. s = PowerOf2(m) - 1
      BY <1>1, <2>2, <3>2 DEF Shifted
    <3>4. n - m \in Nat /\ m + (n - m) = n
      BY <3>2
    <3>5. PICK p \in Nat : p = PowerOf2(n)
      BY Doubled
    <3>6. PICK p0 \in Nat : p0 = PowerOf2(m)
      BY Doubled
    <3>7. p0 <= p
      BY <3>2, <3>4, <3>5, <3>6, PowersGrow
    <3>8. low * s >= blocks
      BY <2>2, <2>3, <3>1
    <3>9. low * (p - 1) = low * s + low * (p - p0)
      BY <3>3, <3>6
    <3>10. low * (p - p0) \in Nat
      BY <3>7
    <3>11. low * s \in Nat
      OBVIOUS
    <3>12. low * (p - 1) >= blocks
      BY <3>8, <3>9, <3>10, <3>11
    <3> QED BY <3>5, <3>12 DEF Enough
  <2>4. n \in Int /\ Doubling(low, n, blocks) \in Seq(Nat)
    <3>1. n \in Int
      OBVIOUS
    <3> QED BY <3>1, DoublingIs
  <2>5. ASSUME creator.scheme = "variable", ~Hangs, blocks <= Count, n # 0
        PROVE  Total(Doubling(low, n, blocks)) = blocks
    BY <2>3, <2>4, <2>5, DoublingIs DEF Enough
  <2> QED BY <2>1, <2>4, <2>5
<1> DEFINE small == Doubling(1, n - top, blocks - top * l)
<1>9. /\ small \in Seq(Nat)
      /\ Filed /\ creator.scheme = "limited" /\ n # 0 =>
           /\ n - top \in Nat /\ DOMAIN small = 1 .. n - top /\ Total(small) = blocks - top * l
  <2>1. PICK rest \in Nat : rest = blocks - top * l
    BY <1>5
  <2>2. PICK files \in Int : files = n - top
    BY <1>5
  <2>3. 1 \in Nat
    OBVIOUS
  <2>4. ASSUME Filed, creator.scheme = "limited", n # 0
        PROVE  files \in Nat /\ Enough(1, files, rest)
    <3>1. n = top + BitLength(rest)
      BY <1>1, <1>2, <1>3, <1>5, <2>1, <2>4 DEF Filed
    <3>2. BitLength(rest) \in Nat /\ PowerOf2(BitLength(rest)) > rest
      BY BitLengthIs
    <3>3. files = BitLength(rest)
      BY <1>5, <2>2, <3>1, <3>2
    <3>4. PICK p \in Nat : p = PowerOf2(files)
      BY <3>2, <3>3, Doubled
    <3> QED BY <3>2, <3>3, <3>4 DEF Enough
  <2>5. Doubling(1, files, rest) \in Seq(Nat)
    BY <2>3, DoublingIs
  <2>6. ASSUME Filed, creator.scheme = "limited", n # 0
        PROVE  DOMAIN Doubling(1, files, rest) = 1 .. files /\ Total(Doubling(1, files, rest)) = rest
    BY <2>3, <2>4, <2>6, DoublingIs
  <2> QED BY <2>1, <2>2, <2>4, <2>5, <2>6
<1>10. BlockCounts = IF n = 0 THEN <<>>
                     ELSE CASE creator.scheme = "uniform"  -> uniform
                            [] creator.scheme = "variable" -> Doubling(LowBlockCount, n, blocks)
                            [] creator.scheme = "limited"  -> small \o large
  BY <1>1, <1>2, <1>3, <1>4 DEF BlockCounts
<1> HIDE DEF uniform, small, large
<1>11. small \o large \in Seq(Nat)
  BY <1>7, <1>9, ConcatProperties
<1>12. creator.scheme \in {"uniform", "variable", "limited"}
  BY DEF Given
<1>13. <<>> \in Seq(Nat)
  OBVIOUS
<1>14. ASSUME Filed, creator.scheme = "limited", n # 0 PROVE Total(small \o large) = blocks
  <2>1. PICK m \in Nat : m = n - top /\ DOMAIN small = 1 .. m /\ Total(small) = blocks - top * l
    BY <1>9, <1>14
  <2>2. small \in [1 .. m -> Int] /\ large \in [1 .. top -> Int]
    BY <1>7, <1>9, <2>1, ElementOfSeq, LenProperties
  <2>3. Total(small \o large) = Total(small) + Total(large)
    BY <1>5, <2>2, TotalConcat
  <2>4. PICK x \in Nat : x = top * l
    BY <1>5
  <2> QED BY <1>7, <2>1, <2>3, <2>4
<1>15. ASSUME n = 0, Filed PROVE Total(BlockCounts) = blocks
  <2>1. blocks = 0 /\ BlockCounts = <<>>
    BY <1>1, <1>2, <1>10, <1>15 DEF Filed
  <2>2. <<>> \in [1 .. 0 -> Int] /\ 0 \in Nat
    OBVIOUS
  <2>3. PICK f \in [0 .. 0 -> Int] : Sums(f, <<>>, 0) /\ Total(<<>>) = f[0]
    BY <2>2, TotalIs
  <2>4. f[0] = 0
    BY <2>3 DEF Sums
  <2> QED BY <2>1, <2>3, <2>4
<1>16. ASSUME Filed, ~Hangs, blocks <= Count, n # 0 PROVE Total(BlockCounts) = blocks
  <2>1. CASE creator.scheme = "uniform"
    BY <1>6, <1>10, <1>16, <2>1
  <2>2. CASE creator.scheme = "variable"
    BY <1>8, <1>10, <1>16, <2>2
  <2>3. CASE creator.scheme = "limited"
    BY <1>10, <1>14, <1>16, <2>3
  <2> QED BY <1>12, <2>1, <2>2, <2>3
<1> QED BY <1>2, <1>6, <1>8, <1>10, <1>11, <1>12, <1>13, <1>15, <1>16

\* AllocateFiles.
LEMMA AllocationsAre ==
    ASSUME Given(creator), Decided(creator)
    PROVE  /\ IsList(Allocations) /\ 1 \in DOMAIN Allocations
           /\ \A i \in DOMAIN Allocations : Allocations[i].count \in Int
<1>1. PICK counts \in Seq(Nat) : counts = BlockCounts
  BY BlockCountsAre
<1>2. PICK exponents : exponents = FirstExponents(counts)
  OBVIOUS
<1> DEFINE l == [i \in DOMAIN counts |->
                   [file |-> Name(Base(creator.parfile), "vol", exponents[i], counts[i]),
                    exponent |-> exponents[i], count |-> counts[i]]]
           m == <<[file |-> WithPar2(creator.parfile), exponent |-> 0, count |-> 0]>>
<1>3. Allocations = l \o m
  BY <1>1, <1>2 DEF Allocations
<1>4. IsList(counts) /\ \A i \in DOMAIN counts : counts[i] \in Int
  BY <1>1, SeqIsList, ElementOfSeq, LenProperties
<1>5. l = [i \in DOMAIN counts |-> l[i]] /\ DOMAIN l = DOMAIN counts /\ \A i \in DOMAIN l : l[i].count \in Int
  BY <1>4
<1>6. IsList(m) /\ Len(m) = 1 /\ \A x \in ToSet(m) : x.count \in Int
  <2>1. PICK x : x = [file |-> WithPar2(creator.parfile), exponent |-> 0, count |-> 0]
    OBVIOUS
  <2>2. x.count = 0 /\ m = <<x>>
    BY <2>1
  <2> HIDE DEF m
  <2>3. m = [i \in 1 .. 1 |-> m[i]] /\ 1 \in Nat /\ \A i \in 1 .. 1 : m[i] = x
    BY <2>2
  <2>4. IsList(m) /\ Len(m) = 1 /\ DOMAIN m = 1 .. 1
    BY <2>3, ListOf
  <2> QED BY <2>2, <2>3, <2>4 DEF ToSet
<1> HIDE DEF l, m
<1>7. IsList(l)
  BY <1>4, <1>5, ListLike
<1>8. PICK all : all = l \o m
  OBVIOUS
<1>9. IsList(all) /\ Len(all) = Len(l) + 1 /\ \A i \in DOMAIN all : all[i] \in ToSet(l) \cup ToSet(m)
  BY <1>6, <1>7, <1>8, ConcatLists
<1>10. \A x \in ToSet(l) : x.count \in Int
  BY <1>5 DEF ToSet
<1>11. \A i \in DOMAIN all : all[i].count \in Int
  BY <1>6, <1>9, <1>10
<1>12. 1 \in DOMAIN all
  <2>1. Len(l) \in Nat
    BY <1>7, ListFacts
  <2>2. DOMAIN all = 1 .. Len(l) + 1
    BY <1>9, ListFacts
  <2> QED BY <2>1, <2>2
<1> QED BY <1>3, <1>8, <1>9, <1>11, <1>12

LEMMA FilesAllocated ==
    ASSUME Solid(disk), Contents, Agreed(creator), CreationInv(at, creator, disk), AllocateFiles
    PROVE  Advances
<1>1. /\ at = "layout" /\ UNCHANGED <<disk, set>>
      /\ \/ at' = "hung" /\ UNCHANGED creator
         \/ at' = "outputs" /\ creator' = [creator EXCEPT !.allocations = Allocations]
  BY DEF AllocateFiles, Goto
<1>2. /\ Given(creator) /\ creator.next = 1 /\ Decided(creator) /\ Fit(creator) /\ IsList(creator.criticals)
  BY <1>1 DEF CreationInv
<1>3. CASE at' = "hung" /\ UNCHANGED creator
  BY <1>1, <1>2, <1>3 DEF Advances, Advancing, Deciding, Contents, CreatePlaces, Given
<1>4. CASE at' = "outputs" /\ creator' = [creator EXCEPT !.allocations = Allocations]
  <2>1. PICK l : l = Allocations
    OBVIOUS
  <2>2. IsList(l) /\ 1 \in DOMAIN l /\ \A i \in DOMAIN l : l[i].count \in Int
    BY <1>2, <2>1, AllocationsAre
  <2>3. creator' = [creator EXCEPT !.allocations = l]
    BY <1>4, <2>1
  <2>4. Alters(creator, creator', {"allocations"}) /\ creator'.allocations = l
    BY <1>2, <2>3 DEF Alters, Given, CreatorFields
  <2>5. /\ creator'.next = 1 /\ creator'.criticals = creator.criticals /\ creator'.blocks = creator.blocks
        /\ creator'.sourceblockcount = creator.sourceblockcount
        /\ creator'.recoveryblockcount = creator.recoveryblockcount /\ creator'.filecount = creator.filecount
        /\ creator'.redundancy = creator.redundancy /\ creator'.firstblock = creator.firstblock
    BY <1>2, <2>4 DEF Alters, CreatorFields
  <2>6. Given(creator') /\ Decided(creator') /\ Fit(creator')
    BY <1>2, <2>4, <2>5, GivenSame, DecidedSame, FitSame DEF Given
  <2>7. LaidOut(creator')
    BY <2>2, <2>4, <2>5 DEF LaidOut
  <2>8. CreationInv("outputs", creator', disk)
    BY <1>2, <2>5, <2>6, <2>7 DEF CreationInv, Deciding
  <2>9. creator # Nobody
    BY <1>2 DEF Given, CreatorFields, Nobody
  <2>10. Agreed(creator')
    BY <2>5, <2>9 DEF Agreed
  <2> QED BY <1>1, <1>4, <2>8, <2>10 DEF Advances, Advancing, Deciding, Contents, CreatePlaces
<1> QED BY <1>1, <1>3, <1>4

\* What a file is to hold is a list of packets, the last of which is at some place.
LEMMA PacketsAre ==
    ASSUME NEW a, a.count \in Int, IsList(creator.criticals)
    PROVE  \E n \in Nat : n > 0 /\ Packets(a) = [i \in 1 .. n |-> Packets(a)[i]]
<1> DEFINE criticals == creator.criticals
           n == Len(criticals)
           copies == BitLength(a.count)
           upto(k) == Spread(k, copies, n, a.count)
           share(k) == [j \in 1 .. upto(k) - upto(k - 1) |-> criticals[((upto(k - 1) + j - 1) % n) + 1]]
           with(k) == <<RecoveryHeader(a.exponent + k - 1)>> \o share(k)
           seqs == [k \in 1 .. a.count |-> with(k)]
           main == IF a.count = 0 THEN criticals ELSE FlattenSeq(seqs)
           last == <<CreatorPacket>>
<1>1. Packets(a) = main \o last
  BY DEF Packets
<1>2. PICK m \in Nat : m = n
  BY ListFacts
<1>3. \A x : <<x>> \in Seq({x}) /\ Len(<<x>>) = 1
  OBVIOUS
<1>4. \A x : IsList(<<x>>)
  BY <1>3, SeqIsList
<1>5. ASSUME NEW k \in 1 .. a.count PROVE IsList(seqs[k])
  <2>1. \A i \in Int : upto(i) \in Int
    <3> TAKE i \in Int
    <3>1. PICK c \in Nat : c = copies
      BY BitLengthIs
    <3>2. PICK d \in Nat : d = a.count /\ d > 0
      OBVIOUS
    <3>3. i * c * m \in Int
      OBVIOUS
    <3>4. \A x \in Int : \A y \in Nat : y > 0 => x \div y \in Int
      OBVIOUS
    <3>5. (i * c * m) \div d \in Int
      BY <3>2, <3>3, <3>4
    <3> QED BY <1>2, <3>1, <3>2, <3>5 DEF Spread
  <2>2. upto(k) - upto(k - 1) \in Int
    <3>1. k \in Int /\ k - 1 \in Int
      OBVIOUS
    <3> HIDE DEF upto
    <3>2. upto(k) \in Int /\ upto(k - 1) \in Int
      BY <2>1, <3>1
    <3> QED BY <3>2
  <2>3. PICK d \in Int : d = upto(k) - upto(k - 1)
    BY <2>2
  <2>4. share(k) = [j \in 1 .. d |-> share(k)[j]]
    BY <2>3
  <2> HIDE DEF share
  <2>5. PICK s : s = share(k)
    OBVIOUS
  <2>6. IsList(s)
    BY <2>4, <2>5, ListUpTo
  <2>7. PICK h : h = <<RecoveryHeader(a.exponent + k - 1)>> /\ IsList(h)
    BY <1>4
  <2>8. IsList(h \o s)
    BY <2>6, <2>7, ConcatLists
  <2> QED BY <2>5, <2>7, <2>8
<1>6. IsList(main)
  <2>1. CASE a.count = 0
    BY <2>1
  <2>2. CASE a.count # 0
    <3>1. PICK q : q = seqs
      OBVIOUS
    <3>2. PICK c \in Nat : 1 .. c = 1 .. a.count
      <4>1. CASE a.count \in Nat
        BY <4>1
      <4>2. CASE a.count \notin Nat
        <5>1. 1 .. a.count = 1 .. 0 /\ 0 \in Nat
          BY <4>2
        <5> QED BY <5>1
      <4> QED BY <4>1, <4>2
    <3> HIDE DEF with
    <3>3. q = [k \in 1 .. c |-> q[k]] /\ \A k \in 1 .. c : IsList(q[k])
      BY <1>5, <3>1, <3>2
    <3>4. IsList(FlattenSeq(q))
      BY <3>3, JoinedLists
    <3> QED BY <2>2, <3>1, <3>4
  <2> QED BY <2>1, <2>2
<1> HIDE DEF main
<1>7. IsList(last) /\ Len(last) = 1
  BY <1>3, <1>4
<1> HIDE DEF last
<1>8. IsList(main \o last) /\ Len(main \o last) = Len(main) + 1
  BY <1>6, <1>7, ConcatLists
<1>9. PICK p : p = Packets(a)
  OBVIOUS
<1>10. IsList(p) /\ Len(p) = Len(main) + 1 /\ Len(main) \in Nat
  BY <1>1, <1>6, <1>8, <1>9, ListFacts
<1>11. p = [i \in 1 .. Len(p) |-> p[i]]
  BY <1>10, ListFacts
<1>12. Len(p) \in Nat /\ Len(p) > 0
  BY <1>10
<1> QED BY <1>9, <1>11, <1>12

LEMMA FileSizeIs ==
    ASSUME NEW a, a.count \in Int, IsList(creator.criticals), creator.blocksize \in Nat
    PROVE  FileSize(a) \in Int
<1>1. PICK n \in Nat : n > 0 /\ Packets(a) = [i \in 1 .. n |-> Packets(a)[i]]
  BY PacketsAre
<1>2. PICK p : p = Packets(a)
  OBVIOUS
<1>3. DOMAIN p = 1 .. n
  BY <1>1, <1>2
<1> DEFINE lengths == [i \in DOMAIN p |-> PacketLength(p[i])]
           items == [i \in DOMAIN p |-> [packet |-> p[i], file |-> a.file,
                                         offset |-> Total(SubSeq(lengths, 1, i - 1))]]
<1>4. \A x : PacketLength(x) \in Int
  BY DEF PacketLength
<1>5. \A i \in 1 .. n : lengths[i] \in Int
  BY <1>3, <1>4
<1>6. Items(a) = items
  BY <1>2 DEF Items
<1> HIDE DEF lengths
<1>7. items = [i \in 1 .. n |-> items[i]] /\ items[n].offset = Total(SubSeq(lengths, 1, n - 1))
      /\ items[n].packet = p[n]
  BY <1>1, <1>3
<1> HIDE DEF items
<1>8. Len(items) = n
  BY <1>7, ListOf
<1>9. Total(SubSeq(lengths, 1, n - 1)) \in Int
  <2>1. PICK m \in Nat : m = n - 1
    BY <1>1
  <2>2. PICK s : s = SubSeq(lengths, 1, m)
    OBVIOUS
  <2>3. s = [i \in 1 .. m |-> lengths[i]]
    <3>1. s = [i \in 1 .. 1 + m - 1 |-> lengths[i + 1 - 1]]
      BY <2>2 DEF SubSeq
    <3>2. 1 .. 1 + m - 1 = 1 .. m /\ \A i \in 1 .. m : i + 1 - 1 = i
      OBVIOUS
    <3> QED BY <3>1, <3>2
  <2>4. s \in [1 .. m -> Int]
    <3>1. \A i \in 1 .. m : i \in 1 .. n
      BY <2>1
    <3> QED BY <1>5, <2>3, <3>1
  <2>5. \E f \in [0 .. m -> Int] : Sums(f, s, m) /\ Total(s) = f[m]
    BY <2>4, TotalIs
  <2>6. Total(s) \in Int
    <3>1. m \in 0 .. m
      OBVIOUS
    <3> QED BY <2>5, <3>1
  <2> QED BY <2>1, <2>2, <2>6
<1>10. FileSize(a) = items[n].offset + PacketLength(items[n].packet)
  BY <1>6, <1>8 DEF FileSize, Last
<1> QED BY <1>4, <1>7, <1>9, <1>10

\* InitialiseOutputFiles.
LEMMA OutputsMade ==
    ASSUME Solid(disk), Contents, Agreed(creator), CreationInv(at, creator, disk), InitialiseOutputFiles
    PROVE  Advances
<1> DEFINE n == Len(creator.allocations)
<1>1. PICK a : a = creator.allocations[creator.next]
  OBVIOUS
<1>2. /\ at = "outputs" /\ UNCHANGED set
      /\ \/ /\ disk' = Create(disk, a.file, FileSize(a))
            /\ \E items : creator' = [creator EXCEPT !.items = items,
                                        !.next = IF creator.next = n THEN 1 ELSE creator.next + 1]
            /\ \/ at' = "outputs" /\ creator.next # n
               \/ at' \in {"close", "process", "criticals"}
         \/ disk' \in CreateFailures(disk, a.file) /\ at' = "end" /\ UNCHANGED creator
  <2>1. CreatorFields \subseteq DOMAIN creator
    BY DEF InitialiseOutputFiles, CreationInv, Given
  <2>2. "next" \in DOMAIN creator
    BY <2>1 DEF CreatorFields
  <2> QED BY <1>1, <2>2 DEF InitialiseOutputFiles, Goto, End
<1>3. /\ Given(creator) /\ Decided(creator) /\ Fit(creator) /\ IsList(creator.criticals) /\ LaidOut(creator)
  BY <1>2 DEF CreationInv
<1>4. a.count \in Int /\ creator.blocksize \in Nat
  BY <1>1, <1>3 DEF LaidOut, Decided
<1>5. Solid(disk')
  <2>0. FileSize(a) \in Int
    <3>1. IsList(creator.criticals)
      BY <1>3
    <3> QED BY ONLY <1>4, <3>1, FileSizeIs
  <2>1. PICK size \in Int : size = FileSize(a)
    BY <2>0
  <2>2. PICK name : name = a.file
    OBVIOUS
  <2>3. Solid(Create(disk, name, size))
    BY <2>1, SolidCreate
  <2>4. \A e \in CreateFailures(disk, name) : Solid(e)
    BY SolidFailure
  <2> QED BY <1>2, <2>1, <2>2, <2>3, <2>4
<1>6. CASE at' = "end" /\ UNCHANGED creator
  BY <1>2, <1>5, <1>6 DEF Advances, Advancing, Deciding, Contents, CreatePlaces
<1>7. ASSUME NEW items, creator' = [creator EXCEPT !.items = items,
                                      !.next = IF creator.next = n THEN 1 ELSE creator.next + 1],
             \/ at' = "outputs" /\ creator.next # n
             \/ at' \in {"close", "process", "criticals"}
      PROVE  Advances
  <2>1. /\ Alters(creator, creator', {"next"})
        /\ creator'.next = IF creator.next = n THEN 1 ELSE creator.next + 1
    BY <1>3, <1>7 DEF Alters, Given, CreatorFields
  <2>2. /\ creator'.criticals = creator.criticals /\ creator'.blocks = creator.blocks
        /\ creator'.sourceblockcount = creator.sourceblockcount /\ creator'.allocations = creator.allocations
        /\ creator'.recoveryblockcount = creator.recoveryblockcount /\ creator'.filecount = creator.filecount
        /\ creator'.redundancy = creator.redundancy /\ creator'.firstblock = creator.firstblock
    BY <1>3, <2>1 DEF Alters, CreatorFields
  <2>3. Given(creator') /\ Decided(creator') /\ Fit(creator')
    BY <1>3, <2>1, <2>2, GivenSame, DecidedSame, FitSame DEF Given
  <2>4. creator # Nobody
    BY <1>3 DEF Given, CreatorFields, Nobody
  <2>5. Agreed(creator')
    BY <2>2, <2>4 DEF Agreed
  <2>6. CASE at' = "outputs" /\ creator.next # n
    <3>1. creator'.next \in DOMAIN creator.allocations
      <4>1. IsList(creator.allocations) /\ creator.next \in DOMAIN creator.allocations
        BY <1>3 DEF LaidOut
      <4>2. n \in Nat /\ DOMAIN creator.allocations = 1 .. n
        BY <4>1, ListFacts
      <4>3. creator'.next = creator.next + 1
        BY <2>1, <2>6
      <4> QED BY <2>6, <4>1, <4>2, <4>3
    <3>2. LaidOut(creator')
      BY <1>3, <2>2, <3>1 DEF LaidOut
    <3>3. CreationInv("outputs", creator', disk')
      BY <1>3, <2>2, <2>3, <3>2 DEF CreationInv, Deciding
    <3> QED BY <1>2, <1>5, <2>5, <2>6, <3>3 DEF Advances, Advancing, Deciding, Contents, CreatePlaces
  <2>7. CASE at' \in {"close", "process", "criticals"}
    BY <1>2, <1>5, <2>1, <2>5, <2>7 DEF Advances, Advancing, Deciding, Contents, CreatePlaces, Alters
  <2> QED BY <1>7, <2>6, <2>7
<1> QED BY <1>2, <1>6, <1>7

\* What comes after it leaves the plan alone.
LEMMA OutputsFilled ==
    ASSUME Solid(disk), Contents, Agreed(creator), CreatorFields \subseteq DOMAIN creator,
           CreateProcessData \/ WriteRecoveryPacketHeaders \/ WriteCriticalPackets \/ CloseFiles
    PROVE  Advances
<1>1. /\ at' \in {"process", "headers", "criticals", "close", "end"} /\ UNCHANGED set
      /\ UNCHANGED creator \/ \E x : creator' = [creator EXCEPT !.blockoffset = x]
  BY DEF CreateProcessData, WriteRecoveryPacketHeaders, WriteCriticalPackets, WritePackets, CloseFiles, Goto, End
<1>2. UNCHANGED disk \/ \E writes : disk' = AllWrites(disk, writes) \/ disk' \in SomeWrites(disk, writes)
  BY DEF CreateProcessData, WriteRecoveryPacketHeaders, WriteCriticalPackets, WritePackets, CloseFiles
<1>3. Solid(disk')
  BY <1>2, SolidWrites
<1>4. Alters(creator, creator', {})
  BY <1>1 DEF Alters, CreatorFields
<1>5. /\ creator'.blocks = creator.blocks /\ creator'.sourceblockcount = creator.sourceblockcount
      /\ creator'.recoveryblockcount = creator.recoveryblockcount
      /\ creator'.redundancy = creator.redundancy /\ creator'.firstblock = creator.firstblock
  BY <1>4 DEF Alters, CreatorFields
<1>6. creator # Nobody
  BY DEF CreatorFields, Nobody
<1>7. Agreed(creator')
  BY <1>5, <1>6 DEF Agreed
<1> QED BY <1>1, <1>3, <1>4, <1>7 DEF Advances, Advancing, Deciding, Contents, CreatePlaces, Alters

-----------------------------------------------------------------------------
(* The invariant of the whole program, and the theorem *)

\* The words that are left, and the settings so far.
Reading ==
    /\ \A line \in ToSet(lines) : Told(line.args, line.operation)
    /\ at = "parse" => Setting(commandline) /\ Told(args, commandline.operation)
PlanInv ==
    /\ Solid(disk) /\ Contents /\ Reading
    /\ at \in RepairPlaces => Known(repairer, disk)
    /\ at \in CreatePlaces => CreatorFields \subseteq DOMAIN creator
    /\ at \in Advancing => CreationInv(at, creator, disk)
    /\ Agreed(creator)

\* With nothing read yet, the settings are in order.
LEMMA Settings0Is == ASSUME NEW operation PROVE Setting(Settings0(operation)) /\ Settings0(operation).operation = operation
<1>1. PICK c : c = Settings0(operation)
  OBVIOUS
<1>2. SettingFields \subseteq DOMAIN c
  BY <1>1 DEF Settings0, SettingFields
<1>3. /\ c.blocksize = 0 /\ c.blockcount = 0 /\ c.firstblock = 0 /\ c.recoveryblockcount = 0 /\ c.filecount = 0
      /\ c.redundancy = 0 /\ c.memorylimit = 0 /\ c.scheme = "unknown" /\ c.parfile = NoName
      /\ c.extrafiles = <<>> /\ c.operation = operation
  BY <1>1 DEF Settings0
<1>4. Figures(c)
  <2>1. 0 \in Nat /\ 0 \in Int /\ 0 <= Half
    BY CountIs, CreateAssumption
  <2> QED BY <1>3, <2>1 DEF Figures
<1>5. DOMAIN c.extrafiles = {}
  BY <1>3
<1> QED BY <1>1, <1>2, <1>3, <1>4, <1>5 DEF Setting

\* The first of some lines is one of them, the others are too.
LEMMA LinesLeft ==
    ASSUME NEW l, IsList(l), l # <<>>
    PROVE  Head(l) \in ToSet(l) /\ ToSet(Tail(l)) \subseteq ToSet(l)
<1>1. l \in Seq(ToSet(l))
  BY DEF IsList
<1>2. Head(l) \in ToSet(l)
  BY <1>1, HeadTailProperties
<1> QED BY <1>2, TailIsList

LEMMA InitPlan == Init => PlanInv
<1> SUFFICES ASSUME Init PROVE PlanInv
  OBVIOUS
<1>1. PICK s \in Scenarios : /\ disk = s.disk /\ set = s.set /\ lines = Tail(s.lines)
                             /\ args = Head(s.lines).args /\ commandline = Settings0(Head(s.lines).operation)
  BY DEF Init
<1>2. at = "parse" /\ creator = Nobody
  BY DEF Init
<1>3. /\ s.lines # <<>> /\ IsList(s.lines) /\ \A name \in DOMAIN s.disk : s.disk[name] \in Seq(Int)
      /\ IsList(s.set.files) /\ \A file \in ToSet(s.set.files) : file.content \in Seq(Int)
      /\ \A line \in ToSet(s.lines) : \A a \in ToSet(line.args) :
           a.num \in Int /\ (line.operation = "create" => ToSet(a.names) \subseteq DOMAIN FileId)
  BY MainAssumption DEF IsList
<1>4. Head(s.lines) \in ToSet(s.lines) /\ ToSet(Tail(s.lines)) \subseteq ToSet(s.lines)
  BY <1>3, LinesLeft
<1>5. Solid(disk)
  BY <1>1, <1>3, SeqIsList DEF Solid
<1>6. Contents
  BY <1>1, <1>3, SeqIsList, ListFacts DEF Contents
<1>7. \A line \in ToSet(s.lines) : Told(line.args, line.operation)
  BY <1>3 DEF Told
<1>8. Setting(commandline) /\ Told(args, commandline.operation)
  BY <1>1, <1>4, <1>7, Settings0Is
<1>9. Reading
  BY <1>1, <1>4, <1>7, <1>8 DEF Reading
<1>10. Agreed(creator)
  BY <1>2 DEF Agreed
<1> QED BY <1>2, <1>5, <1>6, <1>9, <1>10 DEF PlanInv, RepairPlaces, CreatePlaces, Advancing, Deciding

LEMMA ParsePlan ==
    ASSUME IInv, PlanInv, ParseArgument
    PROVE  PlanInv'
<1>1. /\ at = "parse" /\ at' = at /\ commandline' = Argument(commandline, Head(args)) /\ args' = Tail(args)
      /\ args # <<>> /\ UNCHANGED <<disk, creator, set, lines>>
  BY DEF ParseArgument, Parse, Parsing
<1>2. Listed(commandline) /\ IsList(args) /\ \A a \in ToSet(args) : IsList(a.names)
  BY <1>1 DEF IInv, Worded, Extras, Listed, Wording
<1>3. Head(args) \in ToSet(args) /\ ToSet(Tail(args)) \subseteq ToSet(args)
  BY <1>1, <1>2, LinesLeft
<1>4. Setting(commandline) /\ Told(args, commandline.operation)
  BY <1>1 DEF PlanInv, Reading
<1>5. PICK a : a = Head(args)
  OBVIOUS
<1>6. IsList(a.names) /\ a.num \in Int /\ (Creating(commandline) => ToSet(a.names) \subseteq DOMAIN FileId)
  BY <1>2, <1>3, <1>4, <1>5 DEF Told, Creating
<1>7. Setting(commandline') /\ commandline'.operation = commandline.operation
  BY <1>1, <1>2, <1>4, <1>5, <1>6, ArgumentSettings
<1>8. Told(args', commandline'.operation)
  BY <1>1, <1>3, <1>4, <1>7 DEF Told
<1>9. Reading'
  BY <1>1, <1>7, <1>8 DEF PlanInv, Reading
<1> QED BY <1>1, <1>9 DEF PlanInv, RepairPlaces, CreatePlaces, Advancing, Deciding, Contents

LEMMA DispatchPlan ==
    ASSUME IInv, PlanInv, Dispatch
    PROVE  PlanInv'
<1>1. PICK c : c = IF commandline.ok THEN Defaults(commandline) ELSE commandline
  OBVIOUS
<1>2. /\ at = "parse" /\ UNCHANGED <<disk, set, lines>>
      /\ \/ at' = "end" /\ UNCHANGED creator
         \/ at' = "sizes" /\ c.ok /\ Creating(c) /\ creator' = NewCreator(c)
         \/ at' = "load" /\ repairer' = NewRepairer(c) /\ UNCHANGED creator
  BY <1>1 DEF Dispatch, End, Goto
<1>3. Listed(commandline) /\ Setting(commandline)
  BY <1>2 DEF IInv, Worded, Extras, Listed, PlanInv, Reading
<1>4. Solid(disk') /\ Contents' /\ Reading'
  BY <1>2 DEF PlanInv, Contents, Reading
<1>5. CASE at' = "end" /\ UNCHANGED creator
  BY <1>4, <1>5 DEF PlanInv, RepairPlaces, CreatePlaces, Advancing, Deciding
<1>6. CASE at' = "load" /\ repairer' = NewRepairer(c) /\ UNCHANGED creator
  <2>1. repairer'.files = <<>>
    BY <1>6 DEF NewRepairer
  <2>2. Known(repairer', disk')
    BY <2>1 DEF Known
  <2> QED BY <1>4, <1>6, <2>2 DEF PlanInv, CreatePlaces, Advancing, Deciding
<1>7. CASE at' = "sizes" /\ c.ok /\ Creating(c) /\ creator' = NewCreator(c)
  <2>1. commandline.ok /\ c = Defaults(commandline)
    BY <1>1, <1>7
  <2>2. Solid(disk)
    BY DEF PlanInv
  <2>3. CreationInv("sizes", NewCreator(c), disk)
    BY <1>3, <1>7, <2>1, <2>2, CreationBegins
  <2>4. CreationInv("sizes", creator', disk')
    BY <1>2, <1>7, <2>3
  <2>5. CreatorFields \subseteq DOMAIN creator' /\ creator'.blocks = <<>>
    BY <1>7 DEF NewCreator, CreatorFields
  <2>6. Agreed(creator')
    BY <2>5 DEF Agreed
  <2> QED BY <1>4, <1>7, <2>4, <2>5, <2>6 DEF PlanInv, RepairPlaces
<1> QED BY <1>2, <1>5, <1>6, <1>7

LEMMA CreatePlan ==
    ASSUME IInv, PlanInv, CreateStep, UNCHANGED lines
    PROVE  PlanInv'
<1>1. at \in CreatePlaces
  BY PlanMade, SourcesOpened, MainPacketCreated, OutputCreated, OutputWritten DEF CreateStep
<1>2. Solid(disk) /\ Contents /\ Agreed(creator) /\ CreatorFields \subseteq DOMAIN creator
  BY <1>1 DEF PlanInv
<1>3. at \in Advancing => CreationInv(at, creator, disk)
  BY DEF PlanInv
<1>4. ASSUME \/ ComputeBlockSizeAndBlockCount \/ ComputeRecoveryBlockCount \/ CalculateProcessBlockSize
             \/ ComputeRecoveryFileCount \/ OpenSourceFiles \/ CreateMainPacket \/ CreateSourceBlocks
             \/ AllocateFiles \/ InitialiseOutputFiles
      PROVE  Advances
  <2>1. at \in Advancing
    BY <1>4, Zenon DEF ComputeBlockSizeAndBlockCount, ComputeRecoveryBlockCount, CalculateProcessBlockSize,
           ComputeRecoveryFileCount, OpenSourceFiles, CreateMainPacket, CreateSourceBlocks,
           AllocateFiles, InitialiseOutputFiles, Advancing, Deciding
  <2>2. CreationInv(at, creator, disk)
    BY <1>3, <2>1
  <2>3. CASE ComputeBlockSizeAndBlockCount
    BY <1>2, <2>2, <2>3, SizesComputed
  <2>4. CASE ComputeRecoveryBlockCount
    BY <1>2, <2>2, <2>4, RecoveryCounted
  <2>5. CASE CalculateProcessBlockSize
    BY <1>2, <2>2, <2>5, ChunksComputed
  <2>6. CASE ComputeRecoveryFileCount
    BY <1>2, <2>2, <2>6, FilesCounted
  <2>7. CASE OpenSourceFiles
    BY <1>2, <2>2, <2>7, FilesOpened
  <2>8. CASE CreateMainPacket
    BY <1>2, <2>2, <2>8, MainMade
  <2>9. CASE CreateSourceBlocks
    BY <1>2, <2>2, <2>9, BlocksMade
  <2>10. CASE AllocateFiles
    BY <1>2, <2>2, <2>10, FilesAllocated
  <2>11. CASE InitialiseOutputFiles
    BY <1>2, <2>2, <2>11, OutputsMade
  <2> QED BY <1>4, <2>3, <2>4, <2>5, <2>6, <2>7, <2>8, <2>9, <2>10, <2>11
<1>5. ASSUME CreateProcessData \/ WriteRecoveryPacketHeaders \/ WriteCriticalPackets \/ CloseFiles
      PROVE  Advances
  BY <1>2, <1>5, OutputsFilled
<1>6. Advances
  BY <1>4, <1>5 DEF CreateStep
<1>7. at' \notin RepairPlaces \cup {"parse"}
  BY <1>6 DEF Advances, RepairPlaces, CreatePlaces
<1>8. CreationInv(at', creator', disk') => CreatorFields \subseteq DOMAIN creator'
  BY DEF CreationInv, Given
<1>9. Reading'
  BY <1>7 DEF PlanInv, Reading
<1> QED BY <1>6, <1>7, <1>8, <1>9 DEF Advances, PlanInv

LEMMA RepairPlan ==
    ASSUME IInv, PlanInv, RepairStep \/ Par1Step, UNCHANGED lines
    PROVE  PlanInv'
<1>1. Solid(disk) /\ Contents /\ (at \in RepairPlaces => Known(repairer, disk))
  BY DEF PlanInv
<1>2. at \in RepairPlaces /\ Upheld
  BY <1>1, RepairUpheld
<1>3. Onward
  BY PacketsLoaded, OneSourceFile, SourceFilesDone, ExtraFiles, ResultsChecked, TargetsRenamed, TargetFiles,
     MatrixIs, Buffers, DataProcessed, OneTargetFile, TargetFilesDone, TargetsDeleted, RecoveryFilesLoaded,
     SourceFiles1, ExtraFiles1, TargetFiles1, OneTargetFile1 DEF RepairStep, Par1Step
<1>4. UNCHANGED <<creator, set>>
  BY Zenon DEF RepairStep, LoadPackets, VerifyOneSourceFile, SourceFilesVerified, VerifyExtraFiles,
     CheckVerificationResults, RenameTargetFiles, Renaming, CreateTargetFiles, Creation, ComputeRSmatrix,
     WithMatrix, AllocateBuffers, Only2, ProcessData, Processed, VerifyTargetFiles, Reverify,
     TargetFilesVerified, DeleteIncompleteTargetFiles, Deletion,
     Par1Step, LoadRecoveryFiles, VerifySourceFiles1, VerifyExtraFiles1, CheckVerificationResults1,
     RenameTargetFiles1, CreateTargetFiles1, ComputeRSmatrix1, AllocateBuffers1, ProcessData1,
     VerifyTargetFiles1, DeleteIncompleteTargetFiles1
<1>5. at' \in RepairPlaces \cup {"end"}
  BY <1>3 DEF Onward
<1>6. Contents' /\ Agreed(creator') /\ Reading'
  BY <1>4, <1>5 DEF PlanInv, Contents, Reading, RepairPlaces
<1>7. at' \notin CreatePlaces \cup Advancing
  BY <1>5 DEF RepairPlaces, CreatePlaces, Advancing, Deciding
<1> QED BY <1>2, <1>6, <1>7 DEF Upheld, PlanInv

LEMMA DamagePlan ==
    ASSUME PlanInv, Damage
    PROVE  PlanInv'
<1>1. at' = "damaged" /\ UNCHANGED <<creator, set, lines>>
  BY DEF Damage
<1>2. Solid(disk)
  BY DEF PlanInv
<1>3. PICK name \in DOMAIN disk :
         \/ disk' = Delete(disk, name)
         \/ \E k \in Spots : disk' = Put(disk, name, SubSeq(disk[name], 1, k))
         \/ \E k \in Spots : disk' = Put(disk, name, [disk[name] EXCEPT ![k] = Garbage])
         \/ \E other \in MoveNames : disk' = Rename(disk, name, other)
  BY DEF Damage
<1>4. ASSUME disk' = Delete(disk, name) PROVE Solid(disk')
  <2>1. Solid(DeleteAll(disk, {name}))
    BY <1>2, SolidDelete
  <2> QED BY <1>4, <2>1 DEF Delete
<1>5. ASSUME NEW k \in Spots, disk' = Put(disk, name, SubSeq(disk[name], 1, k)) PROVE Solid(disk')
  <2>1. 1 \in Int /\ k \in Int
    BY MainAssumption
  <2>2. PICK cells : cells = SubSeq(disk[name], 1, k)
    OBVIOUS
  <2>3. IsList(cells)
    BY <2>1, <2>2, SubSeqIs
  <2> QED BY <1>2, <1>5, <2>2, <2>3, SolidPut
<1>6. ASSUME NEW k \in Spots, disk' = Put(disk, name, [disk[name] EXCEPT ![k] = Garbage]) PROVE Solid(disk')
  <2>1. PICK cells : cells = [disk[name] EXCEPT ![k] = Garbage]
    OBVIOUS
  <2>2. cells = [i \in DOMAIN disk[name] |-> cells[i]]
    BY <2>1
  <2>3. IsList(disk[name])
    BY <1>2 DEF Solid
  <2>4. IsList(cells)
    BY <2>2, <2>3, ListLike
  <2> QED BY <1>2, <1>6, <2>1, <2>4, SolidPut
<1>7. ASSUME NEW other \in MoveNames, disk' = Rename(disk, name, other) PROVE Solid(disk')
  BY <1>2, <1>7, SolidRename
<1>8. Solid(disk')
  <2>1. (\E k \in Spots : disk' = Put(disk, name, SubSeq(disk[name], 1, k))) => Solid(disk')
    BY <1>5
  <2>2. (\E k \in Spots : disk' = Put(disk, name, [disk[name] EXCEPT ![k] = Garbage])) => Solid(disk')
    BY <1>6
  <2>3. (\E other \in MoveNames : disk' = Rename(disk, name, other)) => Solid(disk')
    BY <1>7
  <2> QED BY <1>3, <1>4, <2>1, <2>2, <2>3
<1>9. Contents' /\ Reading' /\ Agreed(creator')
  BY <1>1 DEF PlanInv, Contents, Reading
<1> QED BY <1>1, <1>8, <1>9 DEF PlanInv, RepairPlaces, CreatePlaces, Advancing, Deciding

LEMMA NextRunPlan ==
    ASSUME IInv, PlanInv, NextRun
    PROVE  PlanInv'
<1>1. /\ at' = "parse" /\ args' = Head(lines).args /\ lines' = Tail(lines) /\ lines # <<>>
      /\ UNCHANGED <<disk, creator, set>> /\ commandline' = Settings0(Head(lines).operation)
  BY DEF NextRun, Begin
<1>2. IsList(lines)
  BY DEF IInv, Worded
<1>3. Head(lines) \in ToSet(lines) /\ ToSet(Tail(lines)) \subseteq ToSet(lines)
  BY <1>1, <1>2, LinesLeft
<1>4. \A line \in ToSet(lines) : Told(line.args, line.operation)
  BY DEF PlanInv, Reading
<1>5. Setting(commandline') /\ commandline'.operation = Head(lines).operation
  BY <1>1, Settings0Is
<1>6. Told(args', commandline'.operation)
  BY <1>1, <1>3, <1>4, <1>5
<1>7. Reading'
  BY <1>1, <1>3, <1>4, <1>5, <1>6 DEF Reading
<1> QED BY <1>1, <1>7 DEF PlanInv, Contents, RepairPlaces, CreatePlaces, Advancing, Deciding

LEMMA StepPlan == IInv /\ PlanInv /\ [Next]_vars => PlanInv'
<1> SUFFICES ASSUME IInv, PlanInv, [Next]_vars PROVE PlanInv'
  OBVIOUS
<1>1. CASE ParseArgument
  BY <1>1, ParsePlan
<1>2. CASE Dispatch
  BY <1>2, DispatchPlan
<1>3. CASE Run
  BY <1>3, CreatePlan, RepairPlan DEF Run
<1>4. CASE Damage
  BY <1>4, DamagePlan
<1>5. CASE NextRun
  BY <1>5, NextRunPlan
<1>6. CASE UNCHANGED vars
  BY <1>6 DEF vars, PlanInv, Contents, Reading
<1> QED BY <1>1, <1>2, <1>3, <1>4, <1>5, <1>6 DEF Next, Finished

\* What is planned of a creation, in every state of the program.
THEOREM PlanHolds == Spec => []PlanInv
BY InitPlan, StepPlan, Inductive, PTL DEF Spec

\* par2creator.cpp:454-613, 961-980.  The number of blocks that is computed before
\* the files are opened, from their sizes, is the number of blocks they get when
\* they are cut up; it fits the field; and so do the exponents of the recovery
\* blocks that a redundancy asks for.
THEOREM SizesAgreeHolds == Spec => []SizesAgree
<1>1. PlanInv => SizesAgree
  BY DEF PlanInv, Agreed, SizesAgree, Creators
<1> QED BY <1>1, PlanHolds, PTL
=============================================================================
