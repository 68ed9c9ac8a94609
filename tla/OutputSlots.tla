---------------------------- MODULE OutputSlots ----------------------------
(***************************************************************************)
(* The output buffer of a Reed-Solomon pass, shared by every task of the   *)
(* process stage.  tbb::parallel_for cuts the outputs of one input block   *)
(* into ranges and calls ProcessDataForOutputIndex(begin, end, ...,        *)
(* inputindex, buffer) on each; the calls of several input blocks run at   *)
(* the same time.  One output is guarded by one integer of                 *)
(* outputbuffer_element_state_: a call takes the output by subtracting 2,  *)
(* and gives up (defers the output) when the result says that another call *)
(* has subtracted before it.  Par2Creator and Par2Repairer hold the same   *)
(* code; the lines mapped are the repairer's.                              *)
(***************************************************************************)
EXTENDS Integers, FiniteSets

CONSTANTS
    Slots,     \* the indexes of the outputs: 0 .. missingblockcount-1
    Inputs,    \* the input blocks of the pass
    Calls,     \* the calls of ProcessDataForOutputIndex, each a task of its own
    RangeOf,   \* RangeOf[c]: the outputs of call c, [outputindex, outputendindex)
    InputOf    \* InputOf[c]: the input block that call c folds in

\* parallel_for gives every output of one input block to one call only.
ASSUME CallAssumption ==
    /\ Slots \subseteq Nat
    /\ IsFiniteSet(Calls)
    /\ RangeOf \in [Calls -> SUBSET Slots]
    /\ InputOf \in [Calls -> Inputs]
    /\ \A c, d \in Calls :
          c # d /\ InputOf[c] = InputOf[d] => RangeOf[c] \cap RangeOf[d] = {}

VARIABLES
    state,     \* outputbuffer_element_state_: 0, minus 2 for each decrement not undone
    out,       \* out[s]: the inputs whose product is XORed into output s
    pc,        \* where each call is
    cur,       \* cur[c]: the output that call c is at
    todo,      \* outputs call c has still to try in this round (the range, then v)
    deferred,  \* outputs call c failed to take in this round (v, then d)
    tmp        \* what call c read from the output it is updating

vars == <<state, out, pc, cur, todo, deferred, tmp>>

PcValues == {"next", "undo", "read", "write", "unlock", "done"}

\* The output buffer is cleared and its states are set to 0 before the pipeline starts.
Init ==
    /\ state = [s \in Slots |-> 0]
    /\ out = [s \in Slots |-> {}]
    /\ pc = [c \in Calls |-> "next"]
    /\ cur \in [Calls -> Slots]
    /\ todo = RangeOf
    /\ deferred = [c \in Calls |-> {}]
    /\ tmp = [c \in Calls |-> {}]

Goto(c, l) == pc' = [pc EXCEPT ![c] = l]

\* A round goes through the range, later through v, in ascending order.
IsNext(c, s) == s \in todo[c] /\ \A t \in todo[c] : s <= t

\* XOR of one product into a sum of products: a second time takes it out again.
Xor(S, i) == (S \ {i}) \cup ({i} \ S)

\* if (val < -2): another call has decremented before this one.
InUseLax(val) == val < -4
InUse(val) == val < -2

\* ++outputblock, or ++vit
AdvanceOnlyIfTaken(c, s) == IF state[s] = 0 THEN todo[c] ELSE todo[c] \ {s}
Advance(c, s) == todo[c] \ {s}

\* int val = (state -= 2), one atomic step, and the test of val.
TryLock(c) ==
    /\ pc[c] = "next"
    /\ \E s \in Slots :
          /\ IsNext(c, s)
          /\ state' = [state EXCEPT ![s] = @ - 2]
          /\ cur' = [cur EXCEPT ![c] = s]
          /\ todo' = [todo EXCEPT ![c] = Advance(c, s)]
          /\ Goto(c, IF InUse(state[s] - 2) THEN "undo" ELSE "read")
    /\ UNCHANGED <<out, deferred, tmp>>

\* state += 2
ReleasedTooFar(val) == val + 3
Released(val) == val + 2

\* The output is in use: undo the decrement and try again in the next round.
Undo(c) ==
    /\ pc[c] = "undo"
    /\ state' = [state EXCEPT ![cur[c]] = Released(@)]
    /\ deferred' = [deferred EXCEPT ![c] = @ \cup {cur[c]}]
    /\ Goto(c, "next")
    /\ UNCHANGED <<out, cur, todo, tmp>>

\* rs.Process reads, multiplies and writes word by word: here one read, one write.
ReadOutput(c) ==
    /\ pc[c] = "read"
    /\ tmp' = [tmp EXCEPT ![c] = out[cur[c]]]
    /\ Goto(c, "write")
    /\ UNCHANGED <<state, out, cur, todo, deferred>>

WriteOutput(c) ==
    /\ pc[c] = "write"
    /\ out' = [out EXCEPT ![cur[c]] = Xor(tmp[c], InputOf[c])]
    /\ Goto(c, "unlock")
    /\ UNCHANGED <<state, cur, todo, deferred, tmp>>

Unlock(c) ==
    /\ pc[c] = "unlock"
    /\ state' = [state EXCEPT ![cur[c]] = Released(@)]
    /\ Goto(c, "next")
    /\ UNCHANGED <<out, cur, todo, deferred, tmp>>

\* v = d; d.clear(); while (!v.empty())
DropDeferred(c) == {}
Retry(c) == deferred[c]

EndRound(c) ==
    /\ pc[c] = "next"
    /\ todo[c] = {}
    /\ todo' = [todo EXCEPT ![c] = Retry(c)]
    /\ deferred' = [deferred EXCEPT ![c] = {}]
    /\ Goto(c, IF Retry(c) = {} THEN "done" ELSE "next")
    /\ UNCHANGED <<state, out, cur, tmp>>

Step(c) ==
    \/ TryLock(c) \/ Undo(c)
    \/ ReadOutput(c) \/ WriteOutput(c) \/ Unlock(c)
    \/ EndRound(c)

AllDone == \A c \in Calls : pc[c] = "done"

\* parallel_for returns when all its calls have returned.
Finished == AllDone /\ UNCHANGED vars

Next == (\E c \in Calls : Step(c)) \/ Finished

Spec == Init /\ [][Next]_vars

-----------------------------------------------------------------------------

\* The calls that hold output s: theirs is the decrement that found it at 0.
Holders(s) == {c \in Calls : pc[c] \in {"read", "write", "unlock"} /\ cur[c] = s}

\* The calls whose decrement of s is not undone yet, holding it or not.
Decremented(s) == Holders(s) \cup {c \in Calls : pc[c] = "undo" /\ cur[c] = s}

\* The output that call c has taken from its round and not yet written or deferred.
AtWork(c) == IF pc[c] \in {"undo", "read", "write"} THEN {cur[c]} ELSE {}

\* The outputs that call c has folded its input into.
Folded(c) == RangeOf[c] \ (todo[c] \cup deferred[c] \cup AtWork(c))

\* Type invariant.  A state only ever counts the calls that contend for it.
TypeOK ==
    /\ state \in [Slots -> {-2 * n : n \in 0 .. Cardinality(Calls)}]
    /\ out \in [Slots -> SUBSET Inputs]
    /\ pc \in [Calls -> PcValues]
    /\ cur \in [Calls -> Slots]
    /\ todo \in [Calls -> SUBSET Slots]
    /\ deferred \in [Calls -> SUBSET Slots]
    /\ tmp \in [Calls -> SUBSET Inputs]

(***************************************************************************)
(* Two calls never update the same output at once, although the "lock" is  *)
(* nothing but a counter that every contender decrements.                  *)
(***************************************************************************)
MutualExclusion == \A s \in Slots : \A c, d \in Holders(s) : c = d

(***************************************************************************)
(* Each output is at all times the XOR of the products of exactly the      *)
(* inputs whose calls are through with it: no update is lost to another    *)
(* call, and deferring an output neither drops nor doubles an input.       *)
(***************************************************************************)
OutputIsExact ==
    \A s \in Slots : out[s] = {InputOf[c] : c \in {d \in Calls : s \in Folded(d)}}

(***************************************************************************)
(* An output changes only by one more input being folded in: nothing that  *)
(* was folded in is ever taken out again.                                  *)
(***************************************************************************)
OneInputAtATime ==
    [][\A s \in Slots : out'[s] # out[s] =>
          \E i \in Inputs \ out[s] : out'[s] = out[s] \cup {i}]_out

(***************************************************************************)
(* When every call has returned, each output holds the product of every    *)
(* input that has a call for it, and every state is back at 0, so that the *)
(* next ProcessDataConcurrently can take every output.                     *)
(***************************************************************************)
CompleteAtEnd ==
    AllDone => \A s \in Slots :
        /\ out[s] = {InputOf[c] : c \in {d \in Calls : s \in RangeOf[d]}}
        /\ state[s] = 0
=============================================================================
