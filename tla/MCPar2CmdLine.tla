---------------------------- MODULE MCPar2CmdLine ----------------------------
(* Two source files of 10 and 5 cells, whose blocks all differ.  GF(16) in  *)
(* place of GF(65536) and GF(256), so that there are at most 8 blocks.      *)
EXTENDS Par2CmdLine

f == Name("f", "", 0, 0)
g == Name("g", "", 0, 0)
h == Name("h", "", 0, 0)
f1 == <<"f", "", 0, 0, <<1>>>>
s == Name("s", "", 0, 0)
MCFileId == f :> 2 @@ g :> 1 @@ h :> 3 @@ f1 :> 4 @@ s :> 5 @@ WithPar2(s) :> 6
MCMoveNames == {h}

Long10 == <<1, 2, 3, 4, 5, 6, 7, 8, 9, 10>>
Short5 == <<11, 12, 13, 14, 15>>
Other12 == <<15, 14, 13, 12, 11, 10, 9, 8, 7, 6, 5, 4>>
Folder == f :> Long10 @@ g :> Short5

Opt(o, n) == [opt |-> o, num |-> n, junk |-> FALSE, text |-> "", names |-> <<>>]
Text(o, t) == [Opt(o, 0) EXCEPT !.text = t]
File(names) == [Opt("file", 0) EXCEPT !.names = names]

Serially == Text("t", "-")
Create1(options) == [operation |-> "create", args |-> options \o <<File(<<s>>), File(<<f, g>>)>>]
Repair1(options, names) ==
    [operation |-> "repair", args |-> options \o <<File(<<WithPar2(s)>>), File(names)>>]
Verify1 == [Repair1(<<>>, <<>>) EXCEPT !.operation = "verify"]

NoSet == [blocksize |-> 0, files |-> <<>>]
Scenario(files, runs, n, m) ==
    [disk |-> files, set |-> NoSet, lines |-> runs, damages |-> n, faults |-> m]
Scene(create, repair, n, m) ==
    Scenario(Folder, <<Create1(<<Serially>> \o create), repair>>, n, m)

\* Created, damaged and repaired.
Repaired ==
    {Scene(<<Opt("s", 4), Opt("c", 3), Opt("n", 2)>>, Repair1(<<>>, <<g, h, f>>), 2, 0),
     Scene(<<Opt("s", 8), Opt("c", 2), Opt("u", 0), Opt("m", 1)>>, Repair1(<<Opt("m", 1)>>, <<h>>), 2, 0),
     Scene(<<Opt("s", 8), Opt("c", 1)>>, Repair1(<<>>, <<h>>), 1, 1),
     Scene(<<Opt("b", 3), Opt("r", 50), Opt("f", 2), Opt("l", 0)>>, Repair1(<<>>, <<>>), 1, 0),
     Scene(<<Opt("s", 4), Opt("c", 1)>>, Verify1, 1, 0)}

\* Created with what the creation may do differently.
Created ==
    {Scenario(Folder, <<Create1(<<Serially>> \o options)>>, 0, 1) : options \in
       {<<>>, <<Opt("c", 0)>>, <<Opt("0", 0), Opt("b", 2)>>, <<Text("d", "here"), Opt("b", 4)>>,
        <<Text("d", "elsewhere")>>, <<Opt("s", 16), Opt("c", 4), Opt("n", 4)>>,
        <<Opt("s", 8), Opt("c", 4), Opt("l", 0)>>, <<Opt("c", 5), Opt("n", 3), Opt("u", 0)>>,
        <<Opt("b", 1)>>, <<Opt("s", 4), Opt("r", 100), Opt("f", 5)>>,
        <<Opt("b", 5), Opt("r", 100), Opt("f", 8)>>, <<Opt("c", 1), Opt("n", 2)>>}}
      \cup {Scenario(Folder, <<Create1(<<Opt("s", 16), Opt("c", 1)>>)>>, 0, 0),
             Scenario(h :> Other12 @@ Folder, <<[operation |-> "create", args |->
                        <<Opt("s", 4), Opt("r", 100), Opt("f", 8), File(<<s>>), File(<<f, g, h>>)>>]>>, 0, 0),
             Scenario(f :> Short5 @@ WithPar2(s) :> Other12, <<[operation |-> "create", args |->
                        <<Serially, Opt("s", 4), Opt("c", 2), File(<<s>>), File(<<f, WithPar2(s)>>)>>]>>, 0, 0)}

\* Command lines of all kinds.
Words == {Opt(o, n) : o \in {"b", "s", "r", "c", "f", "n", "m", "p", "v", "q", "u", "l", "x"}, n \in {0, 4}}
           \cup {Text("t", "0"), Text("q", "q"), Text("d", "missing"), Opt("-", 0),
                 [Opt("c", 4) EXCEPT !.junk = TRUE]}
Typed == {Scenario(Folder, <<[operation |-> "create", args |-> <<a, b, File(<<f>>), File(<<f, g, h>>)>>]>>, 0, 0) :
            a, b \in Words}

-----------------------------------------------------------------------------
(* A PAR 1.0 set *)

Set1 == [blocksize |-> 10, files |-> <<[name |-> f, content |-> Long10], [name |-> g, content |-> Short5]>>]
Volume(v) == Name("s", IF v = 0 THEN "par" ELSE "p", v, 0)
Recovery(e) ==
    Outputs(Compute(Bases8(2), <<TRUE, TRUE>>, <<OutputRow(FALSE, e)>>),
            <<Long10, Short5 \o <<0, 0, 0, 0, 0>>>>, 10)[1]
Par1Folder ==
    Folder @@ [n \in {Volume(v) : v \in 0 .. 2} |->
                 <<VolumeHeader(n[3])>> \o IF n[3] = 0 THEN <<>> ELSE Recovery(n[3] - 1)]
Par1Line(operation, options, names) ==
    [operation |-> operation, args |-> options \o <<File(<<s>>), File(names)>>]
NoCommand == [operation |-> "create", args |-> <<>>]
Par1Scenario(files, line, n, m) ==
    [disk |-> files, set |-> Set1, damages |-> n, faults |-> m, lines |-> <<NoCommand, line>>]
Par1Set(operation, options, n, m) ==
    Par1Scenario(Par1Folder, Par1Line(operation, options, <<h, g>>), n, m)
\* The two files have each other's name.
Swapped == Par1Scenario(f :> Short5 @@ g :> Long10 @@ Par1Folder,
                        Par1Line("repair", <<>>, <<g, f, f, h>>), 1, 1)
Par1Sets ==
    {Par1Set("repair", <<>>, 2, 0), Par1Set("repair", <<Opt("m", 1)>>, 1, 1),
     Par1Set("verify", <<>>, 1, 0), Swapped}

-----------------------------------------------------------------------------
(* A set with a file that is called what a damaged one is renamed to *)

MCCollision ==
    {Scenario(f :> Long10 @@ f1 :> <<11, 12, 13>>,
              <<[operation |-> "create", args |->
                   <<Serially, Opt("s", 4), Opt("c", 2), File(<<s>>), File(<<f, f1>>)>>],
                Repair1(<<>>, <<>>)>>, 2, 0)}

MCScenarios == Repaired \cup Created \cup Typed \cup Par1Sets
=============================================================================
