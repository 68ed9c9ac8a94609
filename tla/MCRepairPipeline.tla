-------------------------- MODULE MCRepairPipeline --------------------------
(***************************************************************************)
(* Two passes over three input blocks: a block of an intact file "g" that  *)
(* need not be copied, a block of a damaged file "f" that must be, and a   *)
(* recovery block in the file "v".                                         *)
(***************************************************************************)
EXTENDS RepairPipeline

MCFileOf == [i \in 0 .. 2 |-> <<"g", "f", "v">>[i + 1]]
ExactCounts == [f \in {"f", "g", "v"} |-> 1]
WholeBlocks == [c \in 0 .. 1 |-> IF c = 0 THEN 0 ELSE 2]
MCOutputLength == [o \in 0 .. 1 |-> IF o = 0 THEN 2 ELSE 1]

\* The block to be copied is the last of its file and has less than one chunk.
ShortBlock == [c \in 0 .. 1 |-> IF c = 0 THEN 0 ELSE 1]

\* The recovery file holds one recovery packet more than the repair needs.
SpareRecoveryPacket == [f \in {"f", "g", "v"} |-> IF f = "v" THEN 2 ELSE 1]
=============================================================================
