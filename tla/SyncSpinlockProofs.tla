------------------------- MODULE SyncSpinlockProofs -------------------------
(***************************************************************************)
(* TSyncSpinlock, for any set of threads.  The type invariant holds in both*)
(* builds; mutual exclusion, the meaning of the byte and the refinement of *)
(* Mutex are proved for the compare-and-swap build (the Intel build does   *)
(* not have them, see run spinlock_intel).                                 *)
(***************************************************************************)
EXTENDS SyncSpinlock, TLAPS

(* The byte is 0 or 1 and every thread is at a known place, in every       *)
(* reachable state of either build.                                        *)
THEOREM TypeCorrect == Spec => []TypeOK
<1>1. Init => TypeOK
  BY DEF Init, TypeOK, Places, Calls
<1>2. TypeOK /\ [Next]_vars => TypeOK'
  <2> SUFFICES ASSUME TypeOK, [Next]_vars
               PROVE  TypeOK'
    OBVIOUS
  <2> USE DEF TypeOK, Places, Calls, Goto, Return
  <2>1. CASE UNCHANGED vars
    BY <2>1 DEF vars
  <2>2. ASSUME NEW t \in Threads, CallEnter(t)
        PROVE  TypeOK'
    BY <2>2 DEF CallEnter, EnterCalls
  <2>3. ASSUME NEW t \in Threads, CallWait(t)
        PROVE  TypeOK'
    BY <2>3 DEF CallWait, WaitCalls
  <2>4. ASSUME NEW t \in Threads, CallStep(t)
        PROVE  TypeOK'
    BY <2>4 DEF CallStep, Test, Swap, Retry, GiveUp, Look, LookAgain, WaitGivesUp
  <2>5. ASSUME NEW t \in Threads, Leave(t)
        PROVE  TypeOK'
    BY <2>5 DEF Leave
  <2>6. QED
    BY <2>1, <2>2, <2>3, <2>4, <2>5 DEF Next
<1>3. QED
  BY <1>1, <1>2, PTL DEF Spec

-----------------------------------------------------------------------------
(* Mutual exclusion alone is not inductive: a state with the byte at 0 and *)
(* a thread inside satisfies it, and the next swap breaks it.  Together    *)
(* with the meaning of the byte it is.                                     *)
IInv == TypeOK /\ MutualExclusion /\ LockedIffHeld

LEMMA InitIInv == Init => IInv
BY DEF Init, IInv, TypeOK, Places, Calls, MutualExclusion, LockedIffHeld, Holders

(* A step that moves no thread into or out of the lock and leaves the byte *)
(* alone keeps the two parts.                                              *)
LEMMA QuietStep ==
  ASSUME IInv, Holders' = Holders, UNCHANGED value
  PROVE  MutualExclusion' /\ LockedIffHeld'
BY DEF IInv, MutualExclusion, LockedIffHeld

LEMMA StepIInv ==
  ASSUME CompareAndSwap, IInv, [Next]_vars, TypeOK'
  PROVE  IInv'
<1> USE DEF IInv, TypeOK, Goto, Return, Holders
<1>1. CASE UNCHANGED vars
  BY <1>1, QuietStep DEF vars
<1>2. ASSUME NEW t \in Threads, CallEnter(t)
      PROVE  IInv'
  BY <1>2, QuietStep DEF CallEnter
<1>3. ASSUME NEW t \in Threads, CallWait(t)
      PROVE  IInv'
  BY <1>3, QuietStep DEF CallWait
<1>4. ASSUME NEW t \in Threads, Swap(t)
      PROVE  IInv'
  <2>1. CASE value = 0
    \* nobody is inside, so t becomes the only holder
    <3>1. Holders' = {t}
      BY <1>4, <2>1 DEF Swap, LockedIffHeld
    <3>2. QED
      BY <1>4, <3>1 DEF Swap, MutualExclusion, LockedIffHeld
  <2>2. CASE value = 1
    BY <1>4, <2>2, QuietStep DEF Swap
  <2>3. QED
    BY <2>1, <2>2
<1>5. ASSUME NEW t \in Threads, Leave(t)
      PROVE  IInv'
  <2>1. Holders' = {}
    BY <1>5 DEF Leave, MutualExclusion
  <2>2. QED
    BY <1>5, <2>1 DEF Leave, MutualExclusion, LockedIffHeld
<1>6. ASSUME NEW t \in Threads,
             Test(t) \/ Retry(t) \/ GiveUp(t) \/ Look(t) \/ LookAgain(t) \/ WaitGivesUp(t)
      PROVE  IInv'
  BY <1>6, QuietStep DEF Test, Retry, GiveUp, Look, LookAgain, WaitGivesUp
<1>7. QED
  BY <1>1, <1>2, <1>3, <1>4, <1>5, <1>6 DEF Next, CallStep

(* Two callers are never granted the lock at once, for any number of       *)
(* threads, in a build whose TryEnter is a compare-and-swap.               *)
THEOREM SpinlockMutualExclusion ==
  ASSUME CompareAndSwap
  PROVE  Spec => []MutualExclusion
<1>1. IInv /\ [Next]_vars /\ TypeOK' => IInv'
  BY StepIInv
<1>2. IInv => MutualExclusion
  BY DEF IInv
<1>3. QED
  BY InitIInv, TypeCorrect, <1>1, <1>2, PTL DEF Spec

(* FValue is 1 exactly while a caller holds the lock.                      *)
THEOREM SpinlockByteMeaning ==
  ASSUME CompareAndSwap
  PROVE  Spec => []LockedIffHeld
<1>1. IInv /\ [Next]_vars /\ TypeOK' => IInv'
  BY StepIInv
<1>2. IInv => LockedIffHeld
  BY DEF IInv
<1>3. QED
  BY InitIInv, TypeCorrect, <1>1, <1>2, PTL DEF Spec

-----------------------------------------------------------------------------
LEMMA HolderIsOwner ==
  ASSUME MutualExclusion, NEW t \in Holders
  PROVE  holder = t
BY DEF MutualExclusion, Holders, holder

LEMMA MutexStep ==
  ASSUME CompareAndSwap, IInv, IInv', [Next]_vars
  PROVE  [M!MutexNext]_holder
<1> USE DEF IInv, TypeOK, Goto, Return
<1> DEFINE Quiet == Holders' = Holders
<1>1. Quiet => UNCHANGED holder
  <2>1. CASE Holders = {}
    BY <2>1 DEF holder
  <2>2. ASSUME NEW t \in Holders, Quiet
        PROVE  holder' = t /\ holder = t
    <3>1. t \in Holders'
      BY <2>2
    <3>2. holder = t
      BY HolderIsOwner
    <3>3. holder' = t
      BY <3>1 DEF MutualExclusion, Holders, holder
    <3>4. QED
      BY <3>2, <3>3
  <2>3. QED
    BY <2>1, <2>2
<1>2. CASE UNCHANGED vars
  BY <1>1, <1>2 DEF vars, Holders
<1>3. ASSUME NEW t \in Threads, Swap(t)
      PROVE  [M!MutexNext]_holder
  <2>1. CASE value = 0
    <3>1. Holders = {} /\ Holders' = {t}
      BY <1>3, <2>1 DEF Swap, LockedIffHeld, Holders
    <3>2. holder = NoThread
      BY <3>1 DEF holder
    <3>3. holder' = t
      BY <3>1 DEF holder, Holders
    <3>4. QED
      BY <3>2, <3>3 DEF M!MutexNext, M!Acquire
  <2>2. CASE value = 1
    BY <1>1, <1>3, <2>2 DEF Swap, Holders
  <2>3. QED
    BY <2>1, <2>2
<1>4. ASSUME NEW t \in Threads, Leave(t)
      PROVE  [M!MutexNext]_holder
  <2>1. t \in Holders
    BY <1>4 DEF Leave, Holders
  <2>2. holder = t
    BY <2>1, HolderIsOwner
  <2>3. Holders' = {}
    BY <1>4 DEF Leave, MutualExclusion, Holders
  <2>4. holder' = NoThread
    BY <2>3 DEF holder
  <2>5. QED
    BY <2>2, <2>4 DEF M!MutexNext, M!Release
<1>5. ASSUME NEW t \in Threads,
             \/ CallEnter(t) \/ CallWait(t) \/ Test(t) \/ Retry(t) \/ GiveUp(t)
             \/ Look(t) \/ LookAgain(t) \/ WaitGivesUp(t)
      PROVE  [M!MutexNext]_holder
  <2>1. Quiet
    BY <1>5 DEF Holders, CallEnter, CallWait, Test, Retry, GiveUp, Look, LookAgain, WaitGivesUp
  <2>2. QED
    BY <1>1, <2>1
<1>6. QED
  BY <1>2, <1>3, <1>4, <1>5 DEF Next, CallStep

(* The spinlock implements the abstract mutex: a caller is granted it only *)
(* while nobody owns it, and only the owner makes it free again.           *)
THEOREM SpinlockImplementsMutex ==
  ASSUME CompareAndSwap
  PROVE  Spec => ImplementsMutex
<1>1. Init => M!MutexInit
  BY DEF Init, M!MutexInit, holder, Holders
<1>2. IInv /\ IInv' /\ [Next]_vars => [M!MutexNext]_holder
  BY MutexStep
<1>3. IInv /\ [Next]_vars /\ TypeOK' => IInv'
  BY StepIInv
<1>4. QED
  BY InitIInv, TypeCorrect, <1>1, <1>2, <1>3, PTL DEF Spec, ImplementsMutex, M!MutexSpec

-----------------------------------------------------------------------------
(* What t answers in a step of its own is justified by the byte it read.   *)
LEMMA AnswersOwnStep ==
  ASSUME CompareAndSwap, IInv, NEW t \in Threads,
         CallEnter(t) \/ CallWait(t) \/ CallStep(t) \/ Leave(t)
  PROVE  /\ pc[t] # "refused" /\ pc'[t] = "refused" => Holders # {}
         /\ pc[t] = "look" /\ pc'[t] = "idle" => Holders = {}
<1> USE DEF IInv, TypeOK, Goto, Return
<1>1. ASSUME pc[t] # "refused", pc'[t] = "refused"
      PROVE  value = 1
  BY <1>1 DEF CallEnter, CallWait, CallStep, Test, Swap, Retry, GiveUp, Leave, Look,
              LookAgain, WaitGivesUp
<1>2. ASSUME pc[t] = "look", pc'[t] = "idle"
      PROVE  value = 0
  BY <1>2 DEF CallEnter, CallWait, CallStep, Test, Swap, Retry, GiveUp, Leave, Look,
              LookAgain, WaitGivesUp
<1>3. QED
  BY <1>1, <1>2 DEF LockedIffHeld

(* The other threads answer nothing in a step of t.                        *)
LEMMA OthersStay ==
  ASSUME TypeOK, NEW t \in Threads, NEW u \in Threads, u # t,
         CallEnter(t) \/ CallWait(t) \/ CallStep(t) \/ Leave(t)
  PROVE  pc'[u] = pc[u]
BY DEF TypeOK, Goto, Return, CallEnter, CallWait, CallStep, Test, Swap, Retry, GiveUp, Leave,
       Look, LookAgain, WaitGivesUp

(* TryEnter refuses only while somebody holds the lock, and a Wait that    *)
(* ends otherwise than by its timeout ends while nobody does.              *)
THEOREM SpinlockAnswersAreTrue ==
  ASSUME CompareAndSwap
  PROVE  Spec => AnswersAreTrue
<1> DEFINE Answers == \A t \in Threads :
       /\ pc[t] # "refused" /\ pc'[t] = "refused" => Holders # {}
       /\ pc[t] = "look" /\ pc'[t] = "idle" => Holders = {}
<1>1. IInv /\ [Next]_vars => [Answers]_vars
  <2> SUFFICES ASSUME IInv, Next, NEW u \in Threads
               PROVE  /\ pc[u] # "refused" /\ pc'[u] = "refused" => Holders # {}
                      /\ pc[u] = "look" /\ pc'[u] = "idle" => Holders = {}
    OBVIOUS
  <2>1. PICK t \in Threads : CallEnter(t) \/ CallWait(t) \/ CallStep(t) \/ Leave(t)
    BY DEF Next
  <2>2. CASE u = t
    BY <2>1, <2>2, AnswersOwnStep
  <2>3. CASE u # t
    <3>1. pc'[u] = pc[u]
      BY <2>1, <2>3, OthersStay DEF IInv
    <3>2. QED
      BY <3>1
  <2>4. QED
    BY <2>2, <2>3
<1>2. IInv /\ [Next]_vars /\ TypeOK' => IInv'
  BY StepIInv
<1>3. QED
  BY InitIInv, TypeCorrect, <1>1, <1>2, PTL DEF Spec, AnswersAreTrue
=============================================================================
