--------------------------- MODULE MCOutputSlots ---------------------------
(***************************************************************************)
(* Three input blocks, two outputs.  The first block's parallel_for is cut *)
(* into two ranges, the other blocks run as one range each: every output   *)
(* has three contenders, one for each block.                               *)
(***************************************************************************)
EXTENDS OutputSlots

MCSlots == 0..1
MCInputs == 1..3
MCCalls == {"1a", "1b", "2", "3"}
MCRangeOf == [c \in MCCalls |-> CASE c = "1a" -> {0} [] c = "1b" -> {1} [] OTHER -> MCSlots]
MCInputOf == [c \in MCCalls |-> CASE c = "2" -> 2 [] c = "3" -> 3 [] OTHER -> 1]

\* cur before a call's first TryLock is an unused local: one value stands for all.
MCInit == Init /\ cur = [c \in Calls |-> 0]
MCSpec == MCInit /\ [][Next]_vars

============================================================================
