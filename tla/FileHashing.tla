---------------------------- MODULE FileHashing ----------------------------
(***************************************************************************)
(* What MD5 asks of the creator: a file's hash is fed the file's blocks,   *)
(* each once, in file order, whatever happens to the other files.          *)
(***************************************************************************)
EXTENDS Naturals, Sequences

CONSTANT BlocksOf   \* BlocksOf[f]: the blocks of file f, in file order

VARIABLE hashed     \* hashed[f]: the blocks that the hash of f was fed, in order

Init == hashed = [f \in DOMAIN BlocksOf |-> << >>]

HashNext(f) ==
    /\ Len(hashed[f]) < Len(BlocksOf[f])
    /\ hashed' = [hashed EXCEPT ![f] = Append(@, BlocksOf[f][Len(@) + 1])]

Next == \E f \in DOMAIN BlocksOf : HashNext(f)

Spec == Init /\ [][Next]_hashed
=============================================================================
