------------------------- MODULE OutputSlots_proof -------------------------
(***************************************************************************)
(* Mutual exclusion and exactness of the output buffer, for any number of  *)
(* outputs, input blocks and concurrent calls.                             *)
(***************************************************************************)
EXTENDS OutputSlots, FiniteSetTheorems, TLAPS

Busy == {"undo", "read", "write"}

Types ==
    /\ state \in [Slots -> Int]
    /\ out \in [Slots -> SUBSET Inputs]
    /\ pc \in [Calls -> PcValues]
    /\ cur \in [Calls -> Slots]
    /\ todo \in [Calls -> SUBSET Slots]
    /\ deferred \in [Calls -> SUBSET Slots]
    /\ tmp \in [Calls -> SUBSET Inputs]

\* A state counts the decrements that stand, and nothing else.
StateCounts == \A s \in Slots : state[s] = -2 * Cardinality(Decremented(s))

\* A call's outputs are in one place each: to be tried, deferred, at work or folded.
Bookkeeping ==
    \A c \in Calls :
        /\ todo[c] \subseteq RangeOf[c]
        /\ deferred[c] \subseteq RangeOf[c]
        /\ todo[c] \cap deferred[c] = {}
        /\ pc[c] \in Busy \cup {"unlock"} => cur[c] \in RangeOf[c] \ (todo[c] \cup deferred[c])
        /\ pc[c] = "done" => todo[c] = {} /\ deferred[c] = {}

\* Between its read and its write nobody else writes the output.
ReadIsCurrent == \A c \in Calls : pc[c] = "write" => tmp[c] = out[cur[c]]

IInv ==
    /\ Types
    /\ StateCounts
    /\ MutualExclusion
    /\ Bookkeeping
    /\ ReadIsCurrent
    /\ OutputIsExact

-----------------------------------------------------------------------------

\* Contenders are finitely many, so that counting them makes sense.
LEMMA DecrementedFinite ==
    ASSUME NEW s
    PROVE  /\ Decremented(s) \subseteq Calls
           /\ IsFiniteSet(Decremented(s))
           /\ Cardinality(Decremented(s)) \in 0 .. Cardinality(Calls)
<1>1. Decremented(s) \subseteq Calls
  BY DEF Decremented, Holders
<1>2. /\ IsFiniteSet(Decremented(s))
      /\ Cardinality(Decremented(s)) <= Cardinality(Calls)
  BY <1>1, FS_Subset, CallAssumption
<1>3. Cardinality(Decremented(s)) \in Nat /\ Cardinality(Calls) \in Nat
  BY <1>2, FS_CardinalityType, CallAssumption
<1> QED
  BY <1>1, <1>2, <1>3

\* The count is 0 exactly when nobody contends for the output.
LEMMA FreeIffNobody ==
    ASSUME NEW s \in Slots, StateCounts
    PROVE  /\ state[s] <= 0
           /\ ~ InUse(state[s] - 2) => Decremented(s) = {} /\ state[s] = 0
<1>1. Cardinality(Decremented(s)) \in Nat /\ IsFiniteSet(Decremented(s))
  BY DecrementedFinite
<1>2. state[s] = -2 * Cardinality(Decremented(s))
  BY DEF StateCounts
<1>3. ASSUME ~ InUse(state[s] - 2)
      PROVE  Cardinality(Decremented(s)) = 0
  BY <1>1, <1>2, <1>3 DEF InUse
<1>4. ~ InUse(state[s] - 2) => Decremented(s) = {}
  BY <1>1, <1>3, FS_EmptySet
<1> QED
  BY <1>1, <1>2, <1>3, <1>4

THEOREM InitIInv == Init => IInv
<1> SUFFICES ASSUME Init PROVE IInv
  OBVIOUS
<1> USE CallAssumption DEF Init
<1>1. Types
  BY DEF Types, PcValues
<1>2. StateCounts
  <2>1. \A s \in Slots : Decremented(s) = {}
    BY DEF Decremented, Holders
  <2>2. \A s \in Slots : state[s] = 0 /\ Cardinality(Decremented(s)) = 0
    BY <2>1, FS_EmptySet
  <2> QED
    BY <2>2 DEF StateCounts
<1>3. MutualExclusion
  BY DEF MutualExclusion, Holders
<1>4. Bookkeeping /\ ReadIsCurrent
  BY DEF Bookkeeping, ReadIsCurrent, Busy
<1>5. OutputIsExact
  <2>1. \A c \in Calls : Folded(c) = {}
    BY DEF Folded, AtWork
  <2> QED
    BY <2>1 DEF OutputIsExact
<1> QED
  BY <1>1, <1>2, <1>3, <1>4, <1>5 DEF IInv

-----------------------------------------------------------------------------

\* Only these steps of a call change who contends for which output.
LEMMA StateCountsStep ==
    ASSUME NEW c \in Calls, Types, StateCounts, Step(c)
    PROVE  StateCounts'
<1> USE CallAssumption
<1>1. ASSUME TryLock(c) PROVE StateCounts'
  <2>1. PICK s \in Slots :
           /\ state' = [state EXCEPT ![s] = @ - 2]
           /\ cur' = [cur EXCEPT ![c] = s]
           /\ pc' = [pc EXCEPT ![c] = IF InUse(state[s] - 2) THEN "undo" ELSE "read"]
    BY <1>1 DEF TryLock, Goto
  <2>2. pc[c] = "next"
    BY <1>1 DEF TryLock
  <2>3. Decremented(s)' = Decremented(s) \cup {c} /\ c \notin Decremented(s)
    BY <2>1, <2>2 DEF Decremented, Holders, Types
  <2>4. \A t \in Slots \ {s} : Decremented(t)' = Decremented(t) /\ state'[t] = state[t]
    BY <2>1, <2>2 DEF Decremented, Holders, Types
  <2>5. Cardinality(Decremented(s)') = Cardinality(Decremented(s)) + 1
    BY <2>3, DecrementedFinite, FS_AddElement
  <2>6. state'[s] = state[s] - 2
    BY <2>1 DEF Types
  <2>7. state'[s] = -2 * Cardinality(Decremented(s)')
    BY <2>5, <2>6, DecrementedFinite DEF StateCounts
  <2> QED
    BY <2>4, <2>7 DEF StateCounts
<1>2. ASSUME Undo(c) \/ Unlock(c) PROVE StateCounts'
  <2> PICK s \in Slots : s = cur[c]
    BY DEF Types
  <2>1. /\ pc[c] \in {"undo", "unlock"}
        /\ state' = [state EXCEPT ![s] = Released(@)]
        /\ pc' = [pc EXCEPT ![c] = "next"]
        /\ cur' = cur
        /\ s \in Slots
    BY <1>2 DEF Undo, Unlock, Goto, Types
  <2>2. Decremented(s)' = Decremented(s) \ {c} /\ c \in Decremented(s)
    BY <2>1 DEF Decremented, Holders, Types
  <2>3. \A t \in Slots \ {s} : Decremented(t)' = Decremented(t) /\ state'[t] = state[t]
    BY <2>1 DEF Decremented, Holders, Types
  <2>4. Cardinality(Decremented(s)') = Cardinality(Decremented(s)) - 1
    BY <2>2, DecrementedFinite, FS_RemoveElement, ZenonT(60)
  <2>5. state'[s] = state[s] + 2
    BY <2>1 DEF Types, Released
  <2>6. state'[s] = -2 * Cardinality(Decremented(s)')
    BY <2>1, <2>4, <2>5, DecrementedFinite DEF StateCounts
  <2> QED
    BY <2>3, <2>6 DEF StateCounts
<1>3. ASSUME ReadOutput(c) \/ WriteOutput(c) \/ EndRound(c) PROVE StateCounts'
  <2>1. \A s \in Slots : Decremented(s)' = Decremented(s) /\ state'[s] = state[s]
    BY <1>3 DEF ReadOutput, WriteOutput, EndRound, Goto, Decremented, Holders, Types
  <2> QED
    BY <2>1 DEF StateCounts
<1> QED
  BY <1>1, <1>2, <1>3 DEF Step

\* Who takes an output has found nobody there.
LEMMA MutualExclusionStep ==
    ASSUME NEW c \in Calls, Types, StateCounts, MutualExclusion, Step(c)
    PROVE  MutualExclusion'
<1>1. ASSUME TryLock(c) PROVE MutualExclusion'
  <2>1. PICK s \in Slots :
           /\ cur' = [cur EXCEPT ![c] = s]
           /\ pc' = [pc EXCEPT ![c] = IF InUse(state[s] - 2) THEN "undo" ELSE "read"]
    BY <1>1 DEF TryLock, Goto
  <2>2. pc[c] = "next"
    BY <1>1 DEF TryLock
  <2>3. \A t \in Slots \ {s} : Holders(t)' \subseteq Holders(t)
    BY <2>1, <2>2 DEF Holders, Types
  <2>4. Holders(s)' \subseteq Holders(s) \cup {c}
    BY <2>1, <2>2 DEF Holders, Types
  <2>5. CASE InUse(state[s] - 2)
    <3>1. Holders(s)' \subseteq Holders(s)
      BY <2>1, <2>2, <2>5 DEF Holders, Types
    <3> QED
      BY <2>3, <3>1 DEF MutualExclusion
  <2>6. CASE ~ InUse(state[s] - 2)
    <3>1. Holders(s) = {}
      BY <2>6, FreeIffNobody DEF Decremented
    <3> QED
      BY <2>3, <2>4, <3>1 DEF MutualExclusion
  <2> QED
    BY <2>5, <2>6
<1>2. ASSUME Undo(c) \/ ReadOutput(c) \/ WriteOutput(c) \/ Unlock(c) \/ EndRound(c)
      PROVE  MutualExclusion'
  <2>1. \A s \in Slots : Holders(s)' \subseteq Holders(s)
    BY <1>2 DEF Undo, ReadOutput, WriteOutput, Unlock, EndRound, Goto, Holders, Types
  <2> QED
    BY <2>1 DEF MutualExclusion
<1> QED
  BY <1>1, <1>2 DEF Step

LEMMA TypesStep ==
    ASSUME NEW c \in Calls, Types, Step(c)
    PROVE  Types'
<1> USE CallAssumption DEF Types, Goto
<1>1. PcValues = {"next", "undo", "read", "write", "unlock", "done"}
  BY DEF PcValues
<1>2. ASSUME TryLock(c) PROVE Types'
  <2>1. PICK s \in Slots :
           /\ state' = [state EXCEPT ![s] = @ - 2]
           /\ cur' = [cur EXCEPT ![c] = s]
           /\ todo' = [todo EXCEPT ![c] = Advance(c, s)]
           /\ pc' = [pc EXCEPT ![c] = IF InUse(state[s] - 2) THEN "undo" ELSE "read"]
           /\ UNCHANGED <<out, deferred, tmp>>
    BY <1>2 DEF TryLock
  <2>2. Advance(c, s) \in SUBSET Slots
    BY DEF Advance
  <2>3. pc' \in [Calls -> PcValues]
    BY <1>1, <2>1
  <2>4. state' \in [Slots -> Int]
    BY <2>1
  <2>5. cur' \in [Calls -> Slots]
    BY <2>1
  <2>6. todo' \in [Calls -> SUBSET Slots]
    BY <2>1, <2>2
  <2>7. out' = out /\ deferred' = deferred /\ tmp' = tmp
    BY <2>1
  <2> QED
    BY <2>3, <2>4, <2>5, <2>6, <2>7
<1>3. ASSUME Undo(c) PROVE Types'
  <2>0. cur[c] \in Slots /\ state[cur[c]] \in Int
    OBVIOUS
  <2>1. Released(state[cur[c]]) \in Int
    BY <2>0 DEF Released
  <2>2. state' \in [Slots -> Int]
    BY <1>3, <2>0, <2>1 DEF Undo
  <2>3. pc' \in [Calls -> PcValues] /\ deferred' \in [Calls -> SUBSET Slots]
    BY <1>1, <1>3, <2>0 DEF Undo
  <2>4. out' = out /\ cur' = cur /\ todo' = todo /\ tmp' = tmp
    BY <1>3 DEF Undo
  <2> QED
    BY <2>2, <2>3, <2>4
<1>4. ASSUME ReadOutput(c) PROVE Types'
  BY <1>1, <1>4 DEF ReadOutput
<1>5. ASSUME WriteOutput(c) PROVE Types'
  <2>1. tmp[c] \in SUBSET Inputs /\ InputOf[c] \in Inputs
    OBVIOUS
  <2>2. Xor(tmp[c], InputOf[c]) \in SUBSET Inputs
    BY <2>1 DEF Xor
  <2>3. out' \in [Slots -> SUBSET Inputs]
    BY <1>5, <2>2 DEF WriteOutput
  <2>4. pc' \in [Calls -> PcValues]
    BY <1>1, <1>5 DEF WriteOutput
  <2>5. /\ state' = state /\ cur' = cur /\ todo' = todo
        /\ deferred' = deferred /\ tmp' = tmp
    BY <1>5 DEF WriteOutput
  <2> QED
    BY <2>3, <2>4, <2>5
<1>6. ASSUME Unlock(c) PROVE Types'
  <2>0. cur[c] \in Slots /\ state[cur[c]] \in Int
    OBVIOUS
  <2>1. Released(state[cur[c]]) \in Int
    BY <2>0 DEF Released
  <2>2. state' \in [Slots -> Int]
    BY <1>6, <2>0, <2>1 DEF Unlock
  <2>3. pc' \in [Calls -> PcValues]
    BY <1>1, <1>6 DEF Unlock
  <2>4. /\ out' = out /\ cur' = cur /\ todo' = todo
        /\ deferred' = deferred /\ tmp' = tmp
    BY <1>6 DEF Unlock
  <2> QED
    BY <2>2, <2>3, <2>4
<1>7. ASSUME EndRound(c) PROVE Types'
  BY <1>1, <1>7 DEF EndRound, Retry
<1> QED
  BY <1>2, <1>3, <1>4, <1>5, <1>6, <1>7 DEF Step

LEMMA BookkeepingStep ==
    ASSUME NEW c \in Calls, Types, Bookkeeping, Step(c)
    PROVE  Bookkeeping'
<1> USE DEF Types, Goto, Bookkeeping, Busy
<1>1. ASSUME TryLock(c) PROVE Bookkeeping'
  BY <1>1 DEF TryLock, Advance, IsNext
<1>2. ASSUME Undo(c) PROVE Bookkeeping'
  BY <1>2 DEF Undo
<1>3. ASSUME ReadOutput(c) PROVE Bookkeeping'
  BY <1>3 DEF ReadOutput
<1>4. ASSUME WriteOutput(c) PROVE Bookkeeping'
  BY <1>4 DEF WriteOutput
<1>5. ASSUME Unlock(c) PROVE Bookkeeping'
  BY <1>5 DEF Unlock
<1>6. ASSUME EndRound(c) PROVE Bookkeeping'
  BY <1>6 DEF EndRound, Retry
<1> QED
  BY <1>1, <1>2, <1>3, <1>4, <1>5, <1>6 DEF Step

\* Only a holder writes, and there is one holder at most.
LEMMA ReadIsCurrentStep ==
    ASSUME NEW c \in Calls, Types, MutualExclusion, ReadIsCurrent, Step(c)
    PROVE  ReadIsCurrent'
<1> SUFFICES ASSUME NEW d \in Calls, pc'[d] = "write"
             PROVE  tmp'[d] = out'[cur'[d]]
  BY DEF ReadIsCurrent
<1>1. CASE TryLock(c) \/ Undo(c) \/ Unlock(c) \/ EndRound(c)
  BY <1>1 DEF TryLock, Undo, Unlock, EndRound, Goto, Types, ReadIsCurrent
<1>2. CASE ReadOutput(c)
  BY <1>2 DEF ReadOutput, Goto, Types, ReadIsCurrent
<1>3. CASE WriteOutput(c)
  <2>1. d # c /\ pc[d] = "write" /\ tmp'[d] = tmp[d] /\ cur'[d] = cur[d]
    BY <1>3 DEF WriteOutput, Goto, Types
  <2>2. cur[d] # cur[c]
    BY <1>3, <2>1 DEF WriteOutput, MutualExclusion, Holders, Types
  <2> QED
    BY <1>3, <2>1, <2>2 DEF WriteOutput, Types, ReadIsCurrent
<1> QED
  BY <1>1, <1>2, <1>3 DEF Step

\* A write adds one input, and it is one that was not there: XOR cannot cancel it.
LEMMA WriteFoldsNewInput ==
    ASSUME NEW c \in Calls, IInv, WriteOutput(c),
           NEW s \in Slots, s = cur[c]
    PROVE  /\ InputOf[c] \in Inputs \ out[s]
           /\ out'[s] = out[s] \cup {InputOf[c]}
           /\ \A t \in Slots \ {s} : out'[t] = out[t]
           /\ \A d \in Calls \ {c} : Folded(d)' = Folded(d)
           /\ Folded(c)' = Folded(c) \cup {s}
<1> USE CallAssumption DEF IInv
<1>1. /\ pc[c] = "write" /\ tmp[c] = out[s]
      /\ s \in RangeOf[c] \ (todo[c] \cup deferred[c])
  BY DEF WriteOutput, ReadIsCurrent, Bookkeeping, Busy
<1>2. \A t \in Slots : out'[t] = IF t = s THEN Xor(out[s], InputOf[c]) ELSE out[t]
  BY <1>1 DEF WriteOutput, Types
<1>3. /\ \A d \in Calls \ {c} : Folded(d)' = Folded(d)
      /\ Folded(c)' = Folded(c) \cup {s}
      /\ s \notin Folded(c)
  BY <1>1 DEF WriteOutput, Goto, Folded, AtWork, Types
<1>4. \A d \in Calls : s \in Folded(d) => InputOf[d] # InputOf[c]
  BY <1>1, <1>3 DEF Folded
<1>5. InputOf[c] \notin out[s]
  <2>1. out[s] = {InputOf[d] : d \in {e \in Calls : s \in Folded(e)}}
    BY DEF OutputIsExact
  <2> QED
    BY <1>4, <2>1
<1>6. out'[s] = out[s] \cup {InputOf[c]}
  BY <1>2, <1>5 DEF Xor
<1> QED
  BY <1>2, <1>3, <1>5, <1>6

\* What a step adds to Folded is what it writes.
LEMMA OutputIsExactStep ==
    ASSUME NEW c \in Calls, IInv, Step(c)
    PROVE  OutputIsExact'
<1>0. Types /\ Bookkeeping /\ OutputIsExact
  BY DEF IInv
<1>1. CASE WriteOutput(c)
  <2> PICK s \in Slots : s = cur[c]
    BY <1>0 DEF Types
  <2>1. ASSUME NEW t \in Slots
        PROVE  out'[t] = {InputOf[d] : d \in {e \in Calls : t \in Folded(e)'}}
    <3>1. out[t] = {InputOf[d] : d \in {e \in Calls : t \in Folded(e)}}
      BY <1>0 DEF OutputIsExact
    <3>2. /\ out'[t] = IF t = s THEN out[t] \cup {InputOf[c]} ELSE out[t]
          /\ \A d \in Calls \ {c} : Folded(d)' = Folded(d)
          /\ Folded(c)' = Folded(c) \cup {s}
      BY <1>1, WriteFoldsNewInput
    <3>3. CASE t = s
      BY <3>1, <3>2, <3>3
    <3>4. CASE t # s
      BY <3>1, <3>2, <3>4
    <3> QED
      BY <3>3, <3>4
  <2> QED
    BY <2>1 DEF OutputIsExact
<1>2. CASE TryLock(c) \/ Undo(c) \/ ReadOutput(c) \/ Unlock(c) \/ EndRound(c)
  <2>1. out' = out
    BY <1>2 DEF TryLock, Undo, ReadOutput, Unlock, EndRound
  <2>2. \A d \in Calls \ {c} : Folded(d)' = Folded(d)
    BY <1>0, <1>2 DEF TryLock, Undo, ReadOutput, Unlock, EndRound, Goto, Folded, AtWork, Types
  <2>3. Folded(c)' = Folded(c)
    <3>1. CASE TryLock(c)
      BY <1>0, <3>1 DEF TryLock, Advance, IsNext, Goto, Folded, AtWork, Types
    <3>2. CASE Undo(c)
      BY <1>0, <3>2 DEF Undo, Goto, Folded, AtWork, Types
    <3>3. CASE ReadOutput(c) \/ Unlock(c)
      BY <1>0, <3>3 DEF ReadOutput, Unlock, Goto, Folded, AtWork, Types
    <3>4. CASE EndRound(c)
      BY <1>0, <3>4 DEF EndRound, Retry, Goto, Folded, AtWork, Types
    <3> QED
      BY <1>2, <3>1, <3>2, <3>3, <3>4
  <2>4. \A d \in Calls : Folded(d)' = Folded(d)
    BY <2>2, <2>3
  <2> QED
    BY <1>0, <2>1, <2>4 DEF OutputIsExact
<1> QED
  BY <1>1, <1>2 DEF Step

(***************************************************************************)
(* The invariant is inductive.                                             *)
(***************************************************************************)
THEOREM NextIInv == IInv /\ [Next]_vars => IInv'
<1> SUFFICES ASSUME IInv, [Next]_vars PROVE IInv'
  OBVIOUS
<1>1. ASSUME NEW c \in Calls, Step(c) PROVE IInv'
  BY <1>1, TypesStep, StateCountsStep, MutualExclusionStep, BookkeepingStep,
     ReadIsCurrentStep, OutputIsExactStep DEF IInv
<1>2. CASE UNCHANGED vars
  BY <1>2 DEF vars, IInv, Types, StateCounts, MutualExclusion, Bookkeeping,
     ReadIsCurrent, OutputIsExact, Decremented, Holders, Folded, AtWork
<1> QED
  BY <1>1, <1>2 DEF Next, Finished

\* The typing that the run checks follows: a state counts at most every call.
LEMMA IInvTypeOK == IInv => TypeOK
<1> SUFFICES ASSUME IInv PROVE TypeOK
  OBVIOUS
<1>1. \A s \in Slots : state[s] \in {-2 * n : n \in 0 .. Cardinality(Calls)}
  BY DecrementedFinite DEF IInv, StateCounts
<1> QED
  BY <1>1 DEF IInv, Types, TypeOK

\* When all calls are done nothing is left to do, deferred or decremented.
LEMMA IInvCompleteAtEnd == IInv => CompleteAtEnd
<1> SUFFICES ASSUME IInv, AllDone, NEW s \in Slots
             PROVE  /\ out[s] = {InputOf[c] : c \in {d \in Calls : s \in RangeOf[d]}}
                    /\ state[s] = 0
  BY DEF CompleteAtEnd
<1>1. \A d \in Calls : Folded(d) = RangeOf[d]
  BY DEF AllDone, IInv, Bookkeeping, Folded, AtWork
<1>2. out[s] = {InputOf[c] : c \in {d \in Calls : s \in RangeOf[d]}}
  <2>1. out[s] = {InputOf[c] : c \in {d \in Calls : s \in Folded(d)}}
    BY DEF IInv, OutputIsExact
  <2> QED
    BY <1>1, <2>1
<1>3. Decremented(s) = {}
  BY DEF AllDone, Decremented, Holders
<1>4. Cardinality(Decremented(s)) = 0
  BY <1>3, FS_EmptySet
<1>5. state[s] = 0
  BY <1>4 DEF IInv, StateCounts
<1> QED
  BY <1>2, <1>5

(***************************************************************************)
(* A state of the output buffer counts the calls contending for an output. *)
(***************************************************************************)
THEOREM TypeCorrect == Spec => []TypeOK
BY InitIInv, NextIInv, IInvTypeOK, PTL DEF Spec

(***************************************************************************)
(* However many calls contend, one output is updated by one call at a      *)
(* time.                                                                   *)
(***************************************************************************)
THEOREM MutualExclusionHolds == Spec => []MutualExclusion
<1>1. IInv => MutualExclusion
  BY DEF IInv
<1> QED
  BY <1>1, InitIInv, NextIInv, PTL DEF Spec

(***************************************************************************)
(* No update of the output buffer is lost or done twice.                   *)
(***************************************************************************)
THEOREM OutputIsExactHolds == Spec => []OutputIsExact
<1>1. IInv => OutputIsExact
  BY DEF IInv
<1> QED
  BY <1>1, InitIInv, NextIInv, PTL DEF Spec

(***************************************************************************)
(* Folding is monotonic: no step takes an input out of an output again.    *)
(***************************************************************************)
THEOREM OneInputAtATimeHolds == Spec => OneInputAtATime
<1> DEFINE OneInput ==
      \A s \in Slots : out'[s] # out[s] =>
         \E i \in Inputs \ out[s] : out'[s] = out[s] \cup {i}
<1>1. IInv /\ [Next]_vars => [OneInput]_out
  <2> SUFFICES ASSUME IInv, [Next]_vars, out' # out PROVE OneInput
    OBVIOUS
  <2>1. PICK c \in Calls : WriteOutput(c)
    BY DEF Next, Finished, Step, vars, TryLock, Undo, ReadOutput, Unlock, EndRound
  <2>2. PICK s \in Slots : s = cur[c]
    BY DEF IInv, Types
  <2> QED
    BY <2>1, <2>2, WriteFoldsNewInput
<1> QED
  BY <1>1, InitIInv, NextIInv, PTL DEF Spec, OneInputAtATime

(***************************************************************************)
(* Once all calls have returned every output has every input, and every    *)
(* output can be taken again.                                              *)
(***************************************************************************)
THEOREM CompleteAtEndHolds == Spec => []CompleteAtEnd
BY InitIInv, NextIInv, IInvCompleteAtEnd, PTL DEF Spec
=============================================================================
