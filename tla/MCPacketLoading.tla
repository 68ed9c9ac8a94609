-------------------------- MODULE MCPacketLoading --------------------------
(* Four files: the one named on the command line, which may be damaged, of *)
(* another set or empty; two more of the set, loaded at the same time; and *)
(* one given as an extra file.                                             *)
EXTENDS PacketLoading

main == <<"x", "vol", "par2">>
one == <<"x", "a", "par2">>
two == <<"x", "b", "par2">>
more == <<"y", "par2", "old">>

MCDirectory == {main, one, two, more, <<"x", "par2">>, <<"x", "txt">>}
MCExtraFiles == <<<<"z", "par2">>, <<"x", "txt">>, more, one>>

M == [type |-> "main", set |-> "s", fits |-> TRUE, blocksize |-> 4, ids |-> <<1, 2>>, recoverable |-> 1]
D(i, size) == [type |-> "description", set |-> "s", fits |-> TRUE, id |-> i, size |-> size,
           hashesAgree |-> TRUE]
V(i, n) == [type |-> "verification", set |-> "s", fits |-> TRUE, id |-> i, blocks |-> n]
R(e, size) == [type |-> "recovery", set |-> "s", fits |-> TRUE, exponent |-> e, size |-> size]
C == [type |-> "creator", set |-> "s", fits |-> TRUE]
Foreign == [type |-> "recovery", set |-> "other", fits |-> TRUE, exponent |-> 0, size |-> 4]
Damaged == [type |-> "damaged"]
Unreadable == [type |-> "unreadable"]

MCLayouts ==
    {[f \in MCDirectory |->
        CASE f = main -> a [] f = one -> b [] f = two -> c [] f = more -> d
          [] OTHER -> <<D(1, 8)>>] :
       a \in {<<>>, <<M, Damaged, R(0, 4)>>, <<D(2, 0), [M EXCEPT !.recoverable = 3]>>},
       b \in {<<D(1, 8), V(1, 2), R(0, 4)>>, <<Foreign, [R(1, 4) EXCEPT !.fits = FALSE], M>>, <<V(1, 1), R(1, 8)>>},
       c \in {<<D(1, 8), D(2, 0), R(0, 4), M>>, <<V(1, 2), Damaged, D(2, 0), Unreadable, M>>,
              <<V(2, 0), R(1, 4), D(1, 8)>>},
       d \in {<<>>, <<C, [D(2, 0) EXCEPT !.hashesAgree = FALSE], V(1, 2)>>, <<R(0, 4), Foreign, C>>}}
=============================================================================
