-------------------------- MODULE SyncSmallLockerProofs --------------------------
(***************************************************************************)
(* TSyncSmallLocker for any finite set of threads and any even limit, in   *)
(* the builds whose SmallLockerCAS compares and swaps atomically: the byte *)
(* never overflows and accounts for every reader and the writer, and a     *)
(* writer is alone.                                                        *)
(***************************************************************************)
EXTENDS SyncSmallLocker, FiniteSetTheorems, TLAPS

USE ThreadsAssumption, FullAssumption

-----------------------------------------------------------------------------
(* Counting.  A step of one thread adds it to, removes it from, or leaves  *)
(* alone each of the counted sets.                                         *)
LEMMA AtFinite ==
  ASSUME NEW P
  PROVE  IsFiniteSet(At(P)) /\ Cardinality(At(P)) \in Nat
<1>1. At(P) \in SUBSET Threads
  BY DEF At
<1>2. QED
  BY <1>1, FS_Subset, FS_CardinalityType

LEMMA CountsFinite ==
  /\ IsFiniteSet(Readers) /\ Cardinality(Readers) \in Nat
  /\ IsFiniteSet(Marked)  /\ Cardinality(Marked) \in Nat
BY AtFinite DEF Readers, Marked

LEMMA Joins ==
  ASSUME NEW S, NEW T, NEW t, IsFiniteSet(S), t \notin S, T = S \cup {t}
  PROVE  Cardinality(T) = Cardinality(S) + 1
BY FS_AddElement

LEMMA Leaves ==
  ASSUME NEW S, NEW T, NEW t, IsFiniteSet(S), t \in S, T = S \ {t}
  PROVE  Cardinality(T) = Cardinality(S) - 1
BY FS_RemoveElement

LEMMA NobodyCounted ==
  ASSUME NEW S, IsFiniteSet(S), Cardinality(S) = 0
  PROVE  S = {}
BY FS_EmptySet

-----------------------------------------------------------------------------
(* The inductive invariant.  The swap succeeds only on the value that was  *)
(* tested, so what the test established still holds of FValue: no writer   *)
(* bit (SeenEven) and, for a reader, a free place (SeenRoom).              *)
OneMarked == \A t, u \in Marked : t = u
SeenEven  == \A t \in Threads : ~ Odd(seen[t])
SeenRoom  == \A t \in Threads :
               pc[t] \in {"compare", "swap"} /\ Reads(t) => seen[t] # Full
IInv == TypeOK /\ Accounting /\ OneMarked /\ SeenEven /\ SeenRoom /\ Exclusivity

LEMMA InitIInv == Init => IInv
<1> SUFFICES ASSUME Init PROVE IInv
  OBVIOUS
<1>1. Readers = {} /\ Marked = {} /\ Writers = {}
  BY DEF Init, Readers, Marked, Writers, At
<1>2. Accounting
  BY <1>1, FS_EmptySet DEF Init, Accounting
<1>3. QED
  BY <1>1, <1>2 DEF Init, IInv, TypeOK, Places, Calls, OneMarked, SeenEven, SeenRoom, Odd, Exclusivity

(* With the bit set FValue is odd, without it even.                        *)
LEMMA BitIsMarked ==
  ASSUME IInv
  PROVE  Odd(value) <=> Marked # {}
<1>1. CASE Marked = {}
  <2>1. Cardinality(Marked) = 0
    BY <1>1, FS_EmptySet
  <2>2. QED
    BY <1>1, <2>1, CountsFinite DEF IInv, TypeOK, Accounting, Odd
<1>2. ASSUME NEW w \in Marked
      PROVE  Odd(value)
  <2>1. Marked = {w}
    BY DEF IInv, OneMarked
  <2>2. Cardinality(Marked) = 1
    BY <2>1, FS_Singleton
  <2>3. QED
    BY <2>2, CountsFinite DEF IInv, TypeOK, Accounting, Odd
<1>3. QED
  BY <1>1, <1>2

(* A step that leaves FValue and the sets of threads alone.                *)
LEMMA QuietStep ==
  ASSUME IInv, TypeOK', SeenEven', SeenRoom', UNCHANGED <<value, Marked, Readers, Writers>>
  PROVE  IInv'
BY DEF IInv, Accounting, OneMarked, Exclusivity

LEMMA StepIInv ==
  ASSUME CompareAndSwap, IInv, [Next]_vars
  PROVE  IInv'
<1> USE DEF IInv, TypeOK, Goto, Return
<1> DEFINE Sets == <<Marked, Readers, Writers>>
<1>1. CASE UNCHANGED vars
  <2>1. UNCHANGED Sets /\ SeenEven' /\ SeenRoom' /\ UNCHANGED value /\ TypeOK'
    BY <1>1 DEF vars, Marked, Readers, Writers, At, SeenEven, SeenRoom, Reads
  <2>2. QED
    BY <2>1, QuietStep
<1>2. ASSUME NEW t \in Threads,
             \/ CallEnter(t) \/ CallWait(t) \/ Retry(t) \/ GiveUp(t)
             \/ Look(t) \/ LookAgain(t) \/ WaitGivesUp(t)
      PROVE  IInv'
  <2> USE DEF CallEnter, CallWait, Start, Retry, GiveUp, Look, LookAgain, WaitGivesUp
  <2>1. TypeOK'
    BY <1>2 DEF Places, Calls, ReadCalls, ExclusiveCalls, WaitCalls
  <2>2. /\ {pc[t], pc'[t]} \cap {"reading", "drain", "writing", "compare", "swap"} = {}
        /\ \A u \in Threads \ {t} : pc'[u] = pc[u] /\ call'[u] = call[u]
        /\ UNCHANGED <<value, seen>>
    BY <1>2
  <2>3. UNCHANGED Sets
    BY <2>2 DEF Readers, Marked, Writers, At
  <2>4. SeenEven' /\ SeenRoom'
    BY <2>2 DEF SeenEven, SeenRoom, Reads
  <2>5. QED
    BY <2>1, <2>2, <2>3, <2>4, QuietStep
<1>3. ASSUME NEW t \in Threads, Test(t) \/ Compare(t)
      PROVE  IInv'
  <2> USE DEF Test, Compare
  <2>1. TypeOK'
    BY <1>3 DEF Places, Odd
  <2>2. UNCHANGED Sets /\ UNCHANGED value
    BY <1>3 DEF Readers, Marked, Writers, At
  <2>3. SeenEven' /\ SeenRoom'
    BY <1>3 DEF SeenEven, SeenRoom, Reads, Odd
  <2>4. QED
    BY <2>1, <2>2, <2>3, QuietStep
<1>4. ASSUME NEW t \in Threads, Swap(t), value # seen[t]
      PROVE  IInv'
  <2>1. TypeOK'
    BY <1>4 DEF Swap, Places, Odd
  <2>2. UNCHANGED Sets /\ UNCHANGED value
    BY <1>4 DEF Swap, Readers, Marked, Writers, At
  <2>3. SeenEven' /\ SeenRoom'
    BY <1>4 DEF Swap, SeenEven, SeenRoom, Reads, Odd
  <2>4. QED
    BY <2>1, <2>2, <2>3, QuietStep
<1>5. ASSUME NEW t \in Threads, Swap(t), value = seen[t]
      PROVE  IInv'
  <2>1. Marked = {} /\ Writers = {}
    BY <1>5, BitIsMarked DEF SeenEven, Marked, Writers, At
  <2>2. SeenEven' /\ SeenRoom'
    BY <1>5 DEF Swap, SeenEven, SeenRoom, Reads, Odd
  <2>3. CASE Reads(t)
    <3>1. value + 2 <= Full
      BY <1>5, <2>3 DEF Swap, SeenRoom, SeenEven, Odd
    <3>2. value' = value + 2
      BY <1>5, <2>3, <3>1 DEF Swap, Addend, Byte
    <3>3. TypeOK'
      BY <1>5, <2>3, <3>1, <3>2 DEF Swap, Places, Calls, Odd
    <3>4. t \notin Readers /\ Readers' = Readers \cup {t} /\ Marked' = {} /\ Writers' = {}
      BY <1>5, <2>1, <2>3 DEF Swap, Readers, Marked, Writers, At
    <3>5. Cardinality(Readers') = Cardinality(Readers) + 1
      BY <3>4, CountsFinite, Joins
    <3>6. Accounting'
      <4>1. UNCHANGED Marked
        BY <2>1, <3>4
      <4>2. QED
        BY <3>2, <3>5, <4>1, CountsFinite DEF Accounting
    <3>7. QED
      BY <2>2, <3>3, <3>4, <3>6 DEF OneMarked, Exclusivity
  <2>4. CASE ~ Reads(t)
    <3>1. value' = value + 1
      BY <1>5, <2>4 DEF Swap, Addend, Byte
    <3>2. TypeOK'
      BY <1>5, <2>4, <3>1 DEF Swap, Places, Odd
    <3>3. Readers' = Readers /\ Marked' = {t} /\ Writers' = {}
      BY <1>5, <2>1, <2>4 DEF Swap, Readers, Marked, Writers, At
    <3>4. Cardinality(Marked) = 0 /\ Cardinality(Marked') = 1
      BY <2>1, <3>3, FS_EmptySet, FS_Singleton
    <3>5. Accounting'
      BY <3>1, <3>3, <3>4, CountsFinite DEF Accounting
    <3>6. QED
      BY <2>2, <3>2, <3>3, <3>5 DEF OneMarked, Exclusivity
  <2>5. QED
    BY <2>3, <2>4
<1>6. ASSUME NEW t \in Threads, Drain(t)
      PROVE  IInv'
  <2>1. UNCHANGED <<Marked, Readers, value>> /\ SeenEven' /\ SeenRoom' /\ TypeOK'
    BY <1>6 DEF Drain, Marked, Readers, At, SeenEven, SeenRoom, Reads, Places, Calls
  <2>2. Marked = {t}
    BY <1>6 DEF Drain, OneMarked, Marked, At
  <2>3. Writers' = {t}
    BY <1>6, <2>2 DEF Drain, Marked, Writers, At
  <2>4. Cardinality(Marked) = 1
    BY <2>2, FS_Singleton
  <2>5. Cardinality(Readers) = 0
    BY <1>6, <2>4, CountsFinite DEF Drain, Accounting
  <2>6. Readers = {}
    BY <2>5, CountsFinite, NobodyCounted
  <2>7. QED
    BY <2>1, <2>3, <2>6 DEF Accounting, OneMarked, Exclusivity
<1>7. ASSUME NEW t \in Threads, LeaveRead(t)
      PROVE  IInv'
  <2>1. t \in Readers /\ Readers' = Readers \ {t} /\ UNCHANGED <<Marked, Writers>>
    BY <1>7 DEF LeaveRead, Readers, Marked, Writers, At
  <2>2. SeenEven' /\ SeenRoom'
    BY <1>7 DEF LeaveRead, SeenEven, SeenRoom, Reads
  <2>3. Cardinality(Readers') = Cardinality(Readers) - 1 /\ Cardinality(Readers) # 0
    BY <2>1, CountsFinite, Leaves, NobodyCounted
  <2>4. value >= 2
    BY <2>3, CountsFinite DEF Accounting
  <2>5. value' = value - 2
    BY <1>7, <2>4 DEF LeaveRead, Byte
  <2>6. TypeOK'
    BY <1>7, <2>4, <2>5 DEF LeaveRead, Places
  <2>7. Accounting'
    BY <2>1, <2>3, <2>5, CountsFinite DEF Accounting
  <2>8. QED
    BY <2>1, <2>2, <2>6, <2>7 DEF OneMarked, Exclusivity
<1>8. ASSUME NEW t \in Threads, LeaveExclusive(t)
      PROVE  IInv'
  <2>1. Marked = {t}
    BY <1>8 DEF LeaveExclusive, OneMarked, Marked, At
  <2>2. Marked' = {} /\ Writers' = {} /\ UNCHANGED Readers
    BY <1>8, <2>1 DEF LeaveExclusive, Readers, Marked, Writers, At
  <2>3. SeenEven' /\ SeenRoom'
    BY <1>8 DEF LeaveExclusive, SeenEven, SeenRoom, Reads
  <2>4. Cardinality(Marked) = 1 /\ Cardinality(Marked') = 0
    BY <2>1, <2>2, FS_EmptySet, FS_Singleton
  <2>5. value >= 1
    BY <2>4, CountsFinite DEF Accounting
  <2>6. value' = value - 1
    BY <1>8, <2>5 DEF LeaveExclusive, Byte
  <2>7. TypeOK'
    BY <1>8, <2>5, <2>6 DEF LeaveExclusive, Places
  <2>8. Accounting'
    BY <2>2, <2>4, <2>6, CountsFinite DEF Accounting
  <2>9. QED
    BY <2>2, <2>3, <2>7, <2>8 DEF OneMarked, Exclusivity
<1>9. QED
  BY <1>1, <1>2, <1>3, <1>4, <1>5, <1>6, <1>7, <1>8 DEF Next, CallStep, Leave

LEMMA Inductive ==
  ASSUME CompareAndSwap
  PROVE  Spec => []IInv
<1>1. IInv /\ [Next]_vars => IInv'
  BY StepIInv
<1>2. QED
  BY InitIInv, <1>1, PTL DEF Spec

-----------------------------------------------------------------------------
(* The byte stays within its eight bits and every thread is at a known     *)
(* place.                                                                  *)
THEOREM SmallLockerTypeCorrect ==
  ASSUME CompareAndSwap
  PROVE  Spec => []TypeOK
<1>1. IInv => TypeOK
  BY DEF IInv
<1>2. QED
  BY Inductive, <1>1, PTL

(* A writer inside the one-byte lock is alone, whatever the number of      *)
(* threads.                                                                *)
THEOREM SmallLockerExclusivity ==
  ASSUME CompareAndSwap
  PROVE  Spec => []Exclusivity
<1>1. IInv => Exclusivity
  BY DEF IInv
<1>2. QED
  BY Inductive, <1>1, PTL

(* The byte counts exactly the readers and the writer: it never wraps,     *)
(* though more threads than it has room for may call.                      *)
THEOREM SmallLockerAccounting ==
  ASSUME CompareAndSwap
  PROVE  Spec => []Accounting
<1>1. IInv => Accounting
  BY DEF IInv
<1>2. QED
  BY Inductive, <1>1, PTL

-----------------------------------------------------------------------------
(* A refusal has a cause: the test that refuses has seen the writer's bit  *)
(* or, from a reader, a full byte, and FValue accounts for both.           *)
THEOREM SmallLockerRefusedForCause ==
  ASSUME CompareAndSwap
  PROVE  Spec => RefusedForCause
<1> DEFINE Cause(t) == Marked # {} \/ (Reads(t) /\ 2 * Cardinality(Readers) = Full)
<1>1. ASSUME IInv, [Next]_vars, NEW t \in Threads, pc[t] # "refused", pc'[t] = "refused"
      PROVE  Cause(t)
  <2>1. Test(t)
    BY <1>1 DEF Next, CallStep, Leave, CallEnter, CallWait, Start, Test, Compare, Swap, Drain,
       Retry, GiveUp, LeaveRead, LeaveExclusive, Look, LookAgain, WaitGivesUp, Goto, Return,
       vars, IInv, TypeOK
  <2>2. CASE Odd(value)
    BY <1>1, <2>2, BitIsMarked
  <2>3. CASE ~ Odd(value)
    <3>1. Reads(t) /\ value = Full
      BY <1>1, <2>1, <2>3 DEF Test, Goto, IInv, TypeOK
    <3>2. Marked = {} /\ Cardinality(Marked) = 0
      BY <1>1, <2>3, BitIsMarked, FS_EmptySet
    <3>3. QED
      BY <1>1, <3>1, <3>2, CountsFinite DEF IInv, Accounting
  <2>4. QED
    BY <2>2, <2>3
<1>2. IInv /\ [Next]_vars =>
        [\A t \in Threads :
           pc[t] # "refused" /\ pc'[t] = "refused" =>
             \/ Marked # {}
             \/ Reads(t) /\ 2 * Cardinality(Readers) = Full]_vars
  BY <1>1
<1>3. QED
  BY Inductive, <1>2, PTL DEF Spec, RefusedForCause

-----------------------------------------------------------------------------
(* Every step of the one-byte lock is a step of the abstract lock or       *)
(* leaves its readers and writer alone.                                    *)
LEMMA RWStep ==
  ASSUME CompareAndSwap, IInv, [Next]_vars
  PROVE  [RW!RWNext]_<<Readers, Writers>>
<1> USE DEF Goto, Return, IInv, TypeOK, Readers, Writers, At
<1>1. CASE UNCHANGED vars
  BY <1>1 DEF vars
<1>2. ASSUME NEW t \in Threads, Swap(t)
      PROVE  [RW!RWNext]_<<Readers, Writers>>
  <2>1. CASE value # seen[t] \/ ~ Reads(t)
    BY <1>2, <2>1 DEF Swap
  <2>2. CASE value = seen[t] /\ Reads(t)
    <3>1. Writers = {}
      BY <2>2, BitIsMarked DEF SeenEven, Marked
    <3>2. Readers' = Readers \cup {t} /\ UNCHANGED Writers
      BY <1>2, <2>2 DEF Swap
    <3>3. RW!AcquireRead(t)
      BY <3>1, <3>2 DEF RW!AcquireRead
    <3>4. QED
      BY <3>3 DEF RW!RWNext
  <2>3. QED
    BY <2>1, <2>2
<1>3. ASSUME NEW t \in Threads, Drain(t)
      PROVE  [RW!RWNext]_<<Readers, Writers>>
  <2>1. Writers' = {t} /\ Exclusivity'
    <3>1. IInv' /\ t \in Writers'
      BY <1>3, StepIInv DEF Drain
    <3>2. QED
      BY <3>1 DEF Exclusivity
  <2>2. Readers' = {} /\ UNCHANGED Readers
    BY <1>3, <2>1 DEF Drain, Exclusivity
  <2>3. Writers = {}
    BY <1>3 DEF Drain, OneMarked, Marked
  <2>4. RW!AcquireExclusive(t)
    BY <2>1, <2>2, <2>3 DEF RW!AcquireExclusive
  <2>5. QED
    BY <2>4 DEF RW!RWNext
<1>4. ASSUME NEW t \in Threads, LeaveRead(t)
      PROVE  [RW!RWNext]_<<Readers, Writers>>
  <2>1. RW!ReleaseRead(t)
    BY <1>4 DEF LeaveRead, RW!ReleaseRead
  <2>2. QED
    BY <2>1 DEF RW!RWNext
<1>5. ASSUME NEW t \in Threads, LeaveExclusive(t)
      PROVE  [RW!RWNext]_<<Readers, Writers>>
  <2>1. Writers = {t}
    BY <1>5 DEF LeaveExclusive, Exclusivity
  <2>2. Writers' = {} /\ UNCHANGED Readers
    BY <1>5, <2>1 DEF LeaveExclusive
  <2>3. RW!ReleaseExclusive(t)
    BY <2>1, <2>2 DEF RW!ReleaseExclusive
  <2>4. QED
    BY <2>3 DEF RW!RWNext
<1>6. ASSUME NEW t \in Threads,
             \/ CallEnter(t) \/ CallWait(t) \/ Test(t) \/ Compare(t) \/ Retry(t)
             \/ GiveUp(t) \/ Look(t) \/ LookAgain(t) \/ WaitGivesUp(t)
      PROVE  UNCHANGED <<Readers, Writers>>
  BY <1>6 DEF CallEnter, CallWait, Start, Test, Compare, Retry, GiveUp, Look, LookAgain,
     WaitGivesUp
<1>7. QED
  BY <1>1, <1>2, <1>3, <1>4, <1>5, <1>6 DEF Next, CallStep, Leave

(* The one-byte lock implements the abstract readers-writer lock.          *)
THEOREM SmallLockerImplementsRWLock ==
  ASSUME CompareAndSwap
  PROVE  Spec => ImplementsRWLock
<1>1. Init => RW!RWInit
  BY DEF Init, RW!RWInit, Readers, Writers, At
<1>2. IInv /\ [Next]_vars => [RW!RWNext]_<<Readers, Writers>>
  BY RWStep
<1>3. QED
  BY Inductive, <1>1, <1>2, PTL DEF Spec, ImplementsRWLock, RW!RWSpec
=============================================================================
