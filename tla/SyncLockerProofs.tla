-------------------------- MODULE SyncLockerProofs --------------------------
(***************************************************************************)
(* TSyncLocker for any finite set of threads: the word accounts for every  *)
(* reader and the writer, a writer is alone, and the locker implements the *)
(* abstract readers-writer lock.                                           *)
(***************************************************************************)
EXTENDS SyncLocker, FiniteSetTheorems, TLAPS

USE ThreadsAssumption

-----------------------------------------------------------------------------
(* Counting.  A step of one thread adds it to, removes it from, or leaves  *)
(* alone each of the counted sets.                                         *)
LEMMA AtFinite ==
  ASSUME NEW P
  PROVE  IsFiniteSet(At(P)) /\ Cardinality(At(P)) \in Nat
<1>1. At(P) \in SUBSET Threads
  BY DEF At
<1>2. QED
  BY <1>1, FS_Subset, FS_CardinalityType

LEMMA CountedFinite ==
  /\ IsFiniteSet(Counted) /\ Cardinality(Counted) \in Nat
  /\ IsFiniteSet(Marked)  /\ Cardinality(Marked) \in Nat
BY AtFinite DEF Counted, Marked

LEMMA Joins ==
  ASSUME NEW S, NEW T, NEW t, IsFiniteSet(S), t \notin S, T = S \cup {t}
  PROVE  Cardinality(T) = Cardinality(S) + 1
BY FS_AddElement

LEMMA Leaves ==
  ASSUME NEW S, NEW T, NEW t, IsFiniteSet(S), t \in S, T = S \ {t}
  PROVE  Cardinality(T) = Cardinality(S) - 1
BY FS_RemoveElement

LEMMA NobodyCounted ==
  ASSUME NEW S, IsFiniteSet(S), Cardinality(S) = 0
  PROVE  S = {}
BY FS_EmptySet

-----------------------------------------------------------------------------
(* The inductive invariant.  Exclusivity holds because a writer entered    *)
(* when the count was drained and no reader gets in while the bit is set;  *)
(* that the bit and the count can be read off FValue is Accounting, and    *)
(* that there is one bit only follows from the writers' compare-and-swap   *)
(* of an even value (SeenEven).                                            *)
OneMarked == \A t, u \in Marked : t = u
SeenEven  == \A t \in Threads : ~ Odd(seen[t])
IInv == TypeOK /\ Accounting /\ OneMarked /\ SeenEven /\ Exclusivity

LEMMA InitIInv == Init => IInv
<1> SUFFICES ASSUME Init PROVE IInv
  OBVIOUS
<1>1. Counted = {} /\ Marked = {} /\ Writers = {}
  BY DEF Init, Counted, Marked, Writers, At
<1>2. Accounting
  BY <1>1, FS_EmptySet DEF Init, Accounting
<1>3. QED
  BY <1>1, <1>2 DEF Init, IInv, TypeOK, Places, Calls, OneMarked, SeenEven, Odd, Exclusivity

(* With the bit set FValue is odd, without it even.                        *)
LEMMA BitIsMarked ==
  ASSUME IInv
  PROVE  Odd(value) <=> Marked # {}
<1>1. CASE Marked = {}
  <2>1. Cardinality(Marked) = 0
    BY <1>1, FS_EmptySet
  <2>2. QED
    BY <1>1, <2>1, CountedFinite DEF IInv, TypeOK, Accounting, Odd
<1>2. ASSUME NEW w \in Marked
      PROVE  Odd(value)
  <2>1. Marked = {w}
    BY DEF IInv, OneMarked
  <2>2. Cardinality(Marked) = 1
    BY <2>1, FS_Singleton
  <2>3. QED
    BY <2>2, CountedFinite DEF IInv, TypeOK, Accounting, Odd
<1>3. QED
  BY <1>1, <1>2

LEMMA TypeStep == TypeOK /\ Accounting /\ [Next]_vars => TypeOK'
<1> SUFFICES ASSUME TypeOK, Accounting, [Next]_vars
             PROVE  TypeOK'
  OBVIOUS
<1> USE DEF TypeOK, Places, Calls, Goto, Return
<1>1. CASE UNCHANGED vars
  BY <1>1 DEF vars
<1>2. ASSUME NEW t \in Threads, CallRead(t) \/ CallExclusive(t) \/ CallWait(t)
      PROVE  TypeOK'
  BY <1>2 DEF CallRead, CallExclusive, CallWait, Start, ReadCalls, ExclusiveCalls, WaitCalls
<1>3. ASSUME NEW t \in Threads,
             \/ ReadTest(t) \/ ReadAdd(t) \/ ExclusiveTest(t) \/ ExclusiveSwap(t) \/ Drain(t)
             \/ Retry(t) \/ GiveUp(t) \/ Look(t) \/ LookAgain(t) \/ WaitGivesUp(t)
      PROVE  TypeOK'
  BY <1>3 DEF ReadTest, ReadAdd, ExclusiveTest, ExclusiveSwap, Drain,
              Retry, GiveUp, Look, LookAgain, WaitGivesUp
<1>4. ASSUME NEW t \in Threads, ReadUndo(t) \/ LeaveRead(t)
      PROVE  TypeOK'
  <2>1. t \in Counted
    BY <1>4 DEF ReadUndo, LeaveRead, Counted, At
  <2>2. Cardinality(Counted) # 0
    BY <2>1, CountedFinite, NobodyCounted
  <2>3. value >= 2
    BY <2>2, CountedFinite DEF Accounting
  <2>4. QED
    BY <1>4, <2>3 DEF ReadUndo, LeaveRead
<1>5. ASSUME NEW t \in Threads, LeaveExclusive(t)
      PROVE  TypeOK'
  <2>1. t \in Marked
    BY <1>5 DEF LeaveExclusive, Marked, At
  <2>2. Cardinality(Marked) # 0
    BY <2>1, CountedFinite, NobodyCounted
  <2>3. value >= 1
    BY <2>2, CountedFinite DEF Accounting
  <2>4. QED
    BY <1>5, <2>3 DEF LeaveExclusive
<1>6. QED
  BY <1>1, <1>2, <1>3, <1>4, <1>5 DEF Next, CallStep, Leave

(* A step that leaves FValue and the four sets of threads alone.           *)
LEMMA QuietStep ==
  ASSUME IInv, TypeOK', SeenEven', UNCHANGED <<value, Counted, Marked, Readers, Writers>>
  PROVE  IInv'
BY DEF IInv, Accounting, OneMarked, Exclusivity

LEMMA StepIInv ==
  ASSUME IInv, [Next]_vars
  PROVE  IInv'
<1>t. TypeOK'
  BY TypeStep DEF IInv
<1> USE DEF IInv, Goto, Return
<1> DEFINE Sets == <<Counted, Marked, Readers, Writers>>
<1>1. CASE UNCHANGED vars
  <2>1. UNCHANGED Sets /\ SeenEven' /\ UNCHANGED value
    BY <1>1 DEF vars, Counted, Marked, Readers, Writers, At, SeenEven
  <2>2. QED
    BY <1>t, <2>1, QuietStep
<1>2. ASSUME NEW t \in Threads,
             \/ CallRead(t) \/ CallExclusive(t) \/ CallWait(t)
             \/ ReadTest(t) \/ Retry(t) \/ GiveUp(t)
             \/ Look(t) \/ LookAgain(t) \/ WaitGivesUp(t)
      PROVE  IInv'
  <2> USE DEF CallRead, CallExclusive, CallWait, Start, ReadTest, Retry, GiveUp,
              Look, LookAgain, WaitGivesUp, TypeOK
  <2>1. pc[t] \notin {"reading", "readUndo", "drain", "writing"}
    BY <1>2
  <2>2. pc'[t] \notin {"reading", "readUndo", "drain", "writing"}
    BY <1>2
  <2>3. \A u \in Threads \ {t} : pc'[u] = pc[u]
    BY <1>2
  <2>4. UNCHANGED Sets
    BY <2>1, <2>2, <2>3 DEF Counted, Marked, Readers, Writers, At
  <2>5. SeenEven' /\ UNCHANGED value
    BY <1>2 DEF SeenEven
  <2>6. QED
    BY <1>t, <2>4, <2>5, QuietStep
<1>3. ASSUME NEW t \in Threads, ExclusiveTest(t)
      PROVE  IInv'
  <2>1. UNCHANGED Sets
    BY <1>3 DEF ExclusiveTest, TypeOK, Counted, Marked, Readers, Writers, At
  <2>2. SeenEven' /\ UNCHANGED value
    BY <1>3 DEF ExclusiveTest, SeenEven, TypeOK
  <2>3. QED
    BY <1>t, <2>1, <2>2, QuietStep
<1>4. ASSUME NEW t \in Threads, ReadAdd(t)
      PROVE  IInv'
  <2>1. t \notin Counted /\ Counted' = Counted \cup {t}
    BY <1>4 DEF ReadAdd, TypeOK, Counted, At
  <2>2. UNCHANGED <<Marked, Writers>> /\ SeenEven'
    BY <1>4 DEF ReadAdd, TypeOK, Marked, Writers, At, SeenEven
  <2>3. Accounting'
    <3>1. Cardinality(Counted') = Cardinality(Counted) + 1
      BY <2>1, CountedFinite, Joins
    <3>2. QED
      BY <1>4, <2>2, <3>1, CountedFinite DEF ReadAdd, Accounting, TypeOK
  <2>4. Exclusivity'
    <3>1. CASE Odd(value')
      <4>1. UNCHANGED Readers
        BY <1>4, <3>1 DEF ReadAdd, TypeOK, Readers, At
      <4>2. QED
        BY <2>2, <4>1 DEF Exclusivity
    <3>2. CASE ~ Odd(value')
      <4>1. ~ Odd(value)
        BY <1>4, <3>2 DEF ReadAdd, Odd, TypeOK
      <4>2. Writers = {}
        BY <4>1, BitIsMarked DEF Writers, Marked, At
      <4>3. QED
        BY <2>2, <4>2 DEF Exclusivity
    <3>3. QED
      BY <3>1, <3>2
  <2>5. QED
    BY <1>t, <2>2, <2>3, <2>4 DEF OneMarked
<1>5. ASSUME NEW t \in Threads, ReadUndo(t) \/ LeaveRead(t)
      PROVE  IInv'
  <2>1. t \in Counted /\ Counted' = Counted \ {t}
    BY <1>5 DEF ReadUndo, LeaveRead, TypeOK, Counted, At
  <2>2. UNCHANGED <<Marked, Writers>> /\ SeenEven'
    BY <1>5 DEF ReadUndo, LeaveRead, TypeOK, Marked, Writers, At, SeenEven
  <2>3. Readers' \subseteq Readers
    BY <1>5 DEF ReadUndo, LeaveRead, TypeOK, Readers, At
  <2>4. Accounting'
    <3>1. Cardinality(Counted') = Cardinality(Counted) - 1
      BY <2>1, CountedFinite, Leaves
    <3>2. QED
      BY <1>5, <2>2, <3>1, CountedFinite DEF ReadUndo, LeaveRead, Accounting, TypeOK
  <2>5. QED
    BY <1>t, <2>2, <2>3, <2>4 DEF OneMarked, Exclusivity
<1>6. ASSUME NEW t \in Threads, ExclusiveSwap(t)
      PROVE  IInv'
  <2>1. UNCHANGED <<Counted, Readers, Writers>> /\ SeenEven'
    BY <1>6 DEF ExclusiveSwap, TypeOK, Counted, Readers, Writers, At, SeenEven, Odd
  <2>2. CASE value = seen[t]
    <3>1. Marked = {}
      BY <2>2, BitIsMarked DEF SeenEven
    <3>2. Marked' = {t}
      BY <1>6, <2>2, <3>1 DEF ExclusiveSwap, TypeOK, Marked, At
    <3>3. Cardinality(Marked) = 0 /\ Cardinality(Marked') = 1
      BY <3>1, <3>2, FS_EmptySet, FS_Singleton
    <3>4. Accounting'
      BY <1>6, <2>1, <2>2, <3>3, CountedFinite DEF ExclusiveSwap, Accounting, TypeOK
    <3>5. QED
      BY <1>t, <2>1, <3>2, <3>4 DEF OneMarked, Exclusivity
  <2>3. CASE value # seen[t]
    <3>1. UNCHANGED <<Marked, value>>
      BY <1>6, <2>3 DEF ExclusiveSwap, TypeOK, Marked, At
    <3>2. QED
      BY <1>t, <2>1, <3>1, QuietStep
  <2>4. QED
    BY <2>2, <2>3
<1>7. ASSUME NEW t \in Threads, Drain(t)
      PROVE  IInv'
  <2>1. UNCHANGED <<Counted, Marked, Readers, value>> /\ SeenEven'
    BY <1>7 DEF Drain, TypeOK, Counted, Marked, Readers, At, SeenEven
  <2>2. t \in Marked
    BY <1>7 DEF Drain, Marked, At
  <2>3. Marked = {t}
    BY <2>2 DEF OneMarked
  <2>4. Writers' = {t}
    BY <1>7, <2>3 DEF Drain, TypeOK, Marked, Writers, At
  <2>5. Cardinality(Marked) = 1
    BY <2>3, FS_Singleton
  <2>6. Cardinality(Counted) = 0
    BY <1>7, <2>5, CountedFinite DEF Drain, Accounting, TypeOK
  <2>7. Readers = {}
    BY <2>6, CountedFinite, NobodyCounted DEF Counted, Readers, At
  <2>8. QED
    BY <1>t, <2>1, <2>4, <2>7 DEF Accounting, OneMarked, Exclusivity
<1>8. ASSUME NEW t \in Threads, LeaveExclusive(t)
      PROVE  IInv'
  <2>1. UNCHANGED <<Counted, Readers>> /\ SeenEven'
    BY <1>8 DEF LeaveExclusive, TypeOK, Counted, Readers, At, SeenEven
  <2>2. Marked = {t}
    BY <1>8 DEF LeaveExclusive, OneMarked, Marked, At
  <2>3. Marked' = {} /\ Writers' = {}
    BY <1>8, <2>2 DEF LeaveExclusive, TypeOK, Marked, Writers, At
  <2>4. Cardinality(Marked) = 1 /\ Cardinality(Marked') = 0
    BY <2>2, <2>3, FS_EmptySet, FS_Singleton
  <2>5. Accounting'
    BY <1>8, <2>1, <2>4, CountedFinite DEF LeaveExclusive, Accounting, TypeOK
  <2>6. QED
    BY <1>t, <2>1, <2>3, <2>5 DEF OneMarked, Exclusivity
<1>9. QED
  BY <1>1, <1>2, <1>3, <1>4, <1>5, <1>6, <1>7, <1>8 DEF Next, CallStep, Leave

LEMMA Inductive == Spec => []IInv
<1>1. IInv /\ [Next]_vars => IInv'
  BY StepIInv
<1>2. QED
  BY InitIInv, <1>1, PTL DEF Spec

-----------------------------------------------------------------------------
(* The word is a natural number and every thread is at a known place.      *)
THEOREM LockerTypeCorrect == Spec => []TypeOK
<1>1. IInv => TypeOK
  BY DEF IInv
<1>2. QED
  BY Inductive, <1>1, PTL

(* A writer inside the lock is alone, whatever the number of threads.      *)
THEOREM LockerExclusivity == Spec => []Exclusivity
<1>1. IInv => Exclusivity
  BY DEF IInv
<1>2. QED
  BY Inductive, <1>1, PTL

(* FValue counts exactly the readers, also the refused ones that have not  *)
(* yet taken their 2 back, and the one writer.                             *)
THEOREM LockerAccounting == Spec => []Accounting
<1>1. IInv => Accounting
  BY DEF IInv
<1>2. QED
  BY Inductive, <1>1, PTL

(* A reader never overtakes a writer that has set its bit.                 *)
THEOREM LockerWriterStopsReaders == Spec => WriterStopsReaders
<1>1. ASSUME IInv, [Next]_vars, Marked # {}
      PROVE  Readers' \subseteq Readers
  <2> USE DEF Goto, Return, IInv, TypeOK
  <2>1. CASE UNCHANGED vars
    BY <2>1 DEF vars, Readers, At
  <2>2. ASSUME NEW t \in Threads, ReadAdd(t)
        PROVE  Readers' \subseteq Readers
    <3>1. Odd(value)
      BY <1>1, BitIsMarked
    <3>2. Odd(value')
      BY <2>2, <1>1, <3>1 DEF ReadAdd, Odd
    <3>3. QED
      BY <1>1, <2>2, <3>2 DEF ReadAdd, Readers, At
  <2>3. ASSUME NEW t \in Threads,
               \/ CallRead(t) \/ CallExclusive(t) \/ CallWait(t) \/ ReadTest(t) \/ ReadUndo(t)
               \/ ExclusiveTest(t) \/ ExclusiveSwap(t) \/ Drain(t) \/ Retry(t) \/ GiveUp(t)
               \/ Look(t) \/ LookAgain(t) \/ WaitGivesUp(t) \/ LeaveRead(t) \/ LeaveExclusive(t)
        PROVE  Readers' \subseteq Readers
    BY <1>1, <2>3 DEF CallRead, CallExclusive, CallWait, Start, ReadTest, ReadUndo, ExclusiveTest,
       ExclusiveSwap, Drain, Retry, GiveUp, Look, LookAgain, WaitGivesUp, LeaveRead,
       LeaveExclusive, Readers, At
  <2>4. QED
    BY <1>1, <2>1, <2>2, <2>3 DEF Next, CallStep, Leave
<1>2. IInv /\ [Next]_vars => [Marked # {} => Readers' \subseteq Readers]_vars
  BY <1>1
<1>3. QED
  BY Inductive, <1>2, PTL DEF Spec, WriterStopsReaders

-----------------------------------------------------------------------------
(* Every step of the locker is a step of the abstract lock or leaves its   *)
(* readers and writer alone.                                               *)
LEMMA RWStep ==
  ASSUME IInv, [Next]_vars
  PROVE  [RW!RWNext]_<<Readers, Writers>>
<1> USE DEF Goto, Return, IInv, TypeOK, Readers, Writers, At
<1>1. CASE UNCHANGED vars
  BY <1>1 DEF vars
<1>2. ASSUME NEW t \in Threads, ReadAdd(t)
      PROVE  [RW!RWNext]_<<Readers, Writers>>
  <2>1. CASE Odd(value')
    BY <1>2, <2>1 DEF ReadAdd
  <2>2. CASE ~ Odd(value')
    <3>1. ~ Odd(value)
      BY <1>2, <2>2 DEF ReadAdd, Odd
    <3>2. Writers = {}
      BY <3>1, BitIsMarked DEF Marked
    <3>3. Readers' = Readers \cup {t} /\ UNCHANGED Writers
      BY <1>2, <2>2 DEF ReadAdd
    <3>4. RW!AcquireRead(t)
      BY <3>2, <3>3 DEF RW!AcquireRead
    <3>5. QED
      BY <3>4 DEF RW!RWNext
  <2>3. QED
    BY <2>1, <2>2
<1>3. ASSUME NEW t \in Threads, Drain(t)
      PROVE  [RW!RWNext]_<<Readers, Writers>>
  <2>1. Writers' = {t} /\ Exclusivity'
    <3>1. IInv' /\ t \in Writers'
      BY <1>3, StepIInv DEF Drain
    <3>2. QED
      BY <3>1 DEF Exclusivity
  <2>2. Readers' = {} /\ UNCHANGED Readers
    BY <1>3, <2>1 DEF Drain, Exclusivity
  <2>3. Writers = {}
    BY <1>3 DEF Drain, OneMarked, Marked
  <2>4. RW!AcquireExclusive(t)
    BY <2>1, <2>2, <2>3 DEF RW!AcquireExclusive
  <2>5. QED
    BY <2>4 DEF RW!RWNext
<1>4. ASSUME NEW t \in Threads, LeaveRead(t)
      PROVE  [RW!RWNext]_<<Readers, Writers>>
  <2>1. RW!ReleaseRead(t)
    BY <1>4 DEF LeaveRead, RW!ReleaseRead
  <2>2. QED
    BY <2>1 DEF RW!RWNext
<1>5. ASSUME NEW t \in Threads, LeaveExclusive(t)
      PROVE  [RW!RWNext]_<<Readers, Writers>>
  <2>1. Writers = {t}
    BY <1>5 DEF LeaveExclusive, Exclusivity
  <2>2. Writers' = {} /\ UNCHANGED Readers
    BY <1>5, <2>1 DEF LeaveExclusive
  <2>3. RW!ReleaseExclusive(t)
    BY <2>1, <2>2 DEF RW!ReleaseExclusive
  <2>4. QED
    BY <2>3 DEF RW!RWNext
<1>6. ASSUME NEW t \in Threads,
             \/ CallRead(t) \/ CallExclusive(t) \/ CallWait(t) \/ ReadTest(t) \/ ReadUndo(t)
             \/ ExclusiveTest(t) \/ ExclusiveSwap(t) \/ Retry(t) \/ GiveUp(t)
             \/ Look(t) \/ LookAgain(t) \/ WaitGivesUp(t)
      PROVE  UNCHANGED <<Readers, Writers>>
  BY <1>6 DEF CallRead, CallExclusive, CallWait, Start, ReadTest, ReadUndo, ExclusiveTest,
     ExclusiveSwap, Retry, GiveUp, Look, LookAgain, WaitGivesUp
<1>7. QED
  BY <1>1, <1>2, <1>3, <1>4, <1>5, <1>6 DEF Next, CallStep, Leave

(* The locker implements the abstract readers-writer lock.                 *)
THEOREM LockerImplementsRWLock == Spec => ImplementsRWLock
<1>1. Init => RW!RWInit
  BY DEF Init, RW!RWInit, Readers, Writers, At
<1>2. IInv /\ [Next]_vars => [RW!RWNext]_<<Readers, Writers>>
  BY RWStep
<1>3. QED
  BY Inductive, <1>1, <1>2, PTL DEF Spec, ImplementsRWLock, RW!RWSpec
=============================================================================
