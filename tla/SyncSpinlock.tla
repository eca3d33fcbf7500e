---------------------------- MODULE SyncSpinlock ----------------------------
(***************************************************************************)
(* TSyncSpinlock (Tiny.Types.pas): one byte, 0 = unlocked, 1 = locked.     *)
(*                                                                         *)
(* TryEnter reads the byte and, when it is 0, swaps a 1 into it: two       *)
(* memory accesses, so two steps here.  The two builds differ in the       *)
(* second one.  Non-Intel builds use AtomicCmpExchange and take the lock   *)
(* only if the byte was still 0.  Intel builds (CPUINTELASM) execute       *)
(* "lock xchg", which stores unconditionally and leaves the flags of the   *)
(* preceding "cmp" alone, so the "sete al" that forms the result reports   *)
(* the outcome of the first read.  CONSTANT CompareAndSwap picks the build.*)
(*                                                                         *)
(* A thread is a client of the lock: it calls one entry point after the    *)
(* other and leaves a lock it was granted.  Whether a timed call gives up  *)
(* after a failed attempt depends on the clock and is a choice here.       *)
(***************************************************************************)
EXTENDS Naturals

CONSTANTS Threads,        (* the threads that share the lock               *)
          NoThread,       (* "nobody", for the abstract owner              *)
          CompareAndSwap  (* TRUE: AtomicCmpExchange, FALSE: Intel asm     *)

ASSUME BuildAssumption  == CompareAndSwap \in BOOLEAN
ASSUME ThreadAssumption == NoThread \notin Threads

VARIABLES
  value,  (* FValue                                                        *)
  pc,     (* where each thread is                                          *)
  call    (* the entry point a thread is in                                *)

vars == <<value, pc, call>>

(* Enter(0) is TryEnter, Enter(INFINITE) is Enter; Wait likewise.          *)
EnterCalls == {"TryEnter", "EnterTimed", "Enter"}
WaitCalls  == {"WaitOnce", "WaitTimed", "Wait"}
Blocking   == {"Enter", "Wait"}
Immediate  == {"TryEnter", "WaitOnce"}

Places == {"idle",     (* outside the lock's code                          *)
           "test",     (* TryEnter is about to read FValue                 *)
           "swap",     (* it read 0 and is about to swap                   *)
           "refused",  (* TryEnter returned False to its caller            *)
           "inside",   (* the caller was granted the lock                  *)
           "look",     (* Wait is about to read FValue                     *)
           "busy"}     (* Wait read a locked FValue                        *)

Calls == EnterCalls \cup WaitCalls \cup {"none"}

Goto(t, place) == pc' = [pc EXCEPT ![t] = place]

(* The call ends and leaves the thread at place.                           *)
Return(t, place) ==
  /\ Goto(t, place)
  /\ call' = [call EXCEPT ![t] = "none"]

(* Bug variants of the actions below, each one plausible slip in the code. *)
(* A weak compare-and-swap, which may fail for no reason.                  *)
Swap_Weak(t) ==
  /\ pc[t] = "swap"
  /\ \/ value = 0 /\ value' = 1 /\ Return(t, "inside")
     \/ Goto(t, "refused") /\ UNCHANGED <<value, call>>

(* The caller that gave up leaves all the same, as a misplaced finally.    *)
GiveUp_Leaves(t) ==
  /\ pc[t] = "refused"
  /\ call[t] \notin Blocking
  /\ value' = 0
  /\ Return(t, "idle")

(* Leave forgets the store.                                                *)
Leave_NoStore(t) ==
  /\ pc[t] = "inside"
  /\ Goto(t, "idle")
  /\ UNCHANGED <<value, call>>

Init ==
  /\ value = 0
  /\ pc    = [t \in Threads |-> "idle"]
  /\ call  = [t \in Threads |-> "none"]

CallEnter(t) ==
  /\ pc[t] = "idle"
  /\ \E c \in EnterCalls : call' = [call EXCEPT ![t] = c]
  /\ Goto(t, "test")
  /\ UNCHANGED value

CallWait(t) ==
  /\ pc[t] = "idle"
  /\ \E c \in WaitCalls : call' = [call EXCEPT ![t] = c]
  /\ Goto(t, "look")
  /\ UNCHANGED value

(* TryEnter, first access: the test of FValue.                             *)
Test(t) ==
  /\ pc[t] = "test"
  /\ Goto(t, IF value = 0 THEN "swap" ELSE "refused")
  /\ UNCHANGED <<value, call>>

(* TryEnter, second access.  Either way FValue is 1 afterwards.            *)
Swap(t) ==
  /\ pc[t] = "swap"
  /\ value' = 1
  /\ IF CompareAndSwap /\ value # 0
     THEN Goto(t, "refused") /\ UNCHANGED call
     ELSE Return(t, "inside")

(* InternalEnter and the timed loop yield and try again.                   *)
Retry(t) ==
  /\ pc[t] = "refused"
  /\ call[t] \notin Immediate
  /\ Goto(t, "test")
  /\ UNCHANGED <<value, call>>

(* TryEnter, or a timed Enter whose time is up, returns False.             *)
GiveUp(t) ==
  /\ pc[t] = "refused"
  /\ call[t] \notin Blocking
  /\ Return(t, "idle")
  /\ UNCHANGED value

Leave(t) ==
  /\ pc[t] = "inside"
  /\ value' = 0
  /\ Goto(t, "idle")
  /\ UNCHANGED call

(* Wait reads FValue and returns True as soon as it reads 0.               *)
Look(t) ==
  /\ pc[t] = "look"
  /\ IF value = 0 THEN Return(t, "idle") ELSE Goto(t, "busy") /\ UNCHANGED call
  /\ UNCHANGED value

LookAgain(t) ==
  /\ pc[t] = "busy"
  /\ call[t] \notin Immediate
  /\ Goto(t, "look")
  /\ UNCHANGED <<value, call>>

WaitGivesUp(t) ==
  /\ pc[t] = "busy"
  /\ call[t] \notin Blocking
  /\ Return(t, "idle")
  /\ UNCHANGED value

(* The steps of a call in progress, Leave apart.                           *)
CallStep(t) ==
  \/ Test(t) \/ Swap(t) \/ Retry(t) \/ GiveUp(t)
  \/ Look(t) \/ LookAgain(t) \/ WaitGivesUp(t)

Next == \E t \in Threads : CallEnter(t) \/ CallWait(t) \/ CallStep(t) \/ Leave(t)

Spec == Init /\ [][Next]_vars

(* The scheduler runs every thread that is inside the lock's code, and a   *)
(* caller that was granted the lock leaves it; nobody has to call.         *)
FairSpec == Spec /\ \A t \in Threads : WF_vars(CallStep(t)) /\ WF_vars(Leave(t))
-----------------------------------------------------------------------------
TypeOK ==
  /\ value \in {0, 1}
  /\ pc \in [Threads -> Places]
  /\ call \in [Threads -> Calls]

Holders == {t \in Threads : pc[t] = "inside"}

(* Two callers are never granted the lock at once: the swap of TryEnter    *)
(* must not be won by two threads that both read 0.                        *)
MutualExclusion == \A t, u \in Holders : t = u

(* The byte tells the truth: FValue is 1 exactly while a caller holds the  *)
(* lock, so a refused TryEnter leaves no trace and Locked can be trusted.  *)
LockedIffHeld == (value = 1) <=> (Holders # {})

(* The lock implements the abstract mutex with the holder as the owner:    *)
(* it is granted only while free, and released only by its owner.          *)
holder == IF Holders = {} THEN NoThread ELSE CHOOSE t \in Threads : pc[t] = "inside"
M == INSTANCE Mutex WITH owner <- holder
ImplementsMutex == M!MutexSpec

(* Deadlock freedom: when a thread is in an Enter that may not give up,    *)
(* somebody is granted the lock.  (Not every thread: the spin loop has no  *)
(* queue, so one thread may lose every race.)                              *)
Entering(t) == call[t] = "Enter"
SomebodyEnters == (\E t \in Threads : Entering(t)) ~> (Holders # {})

(* The answers are true at the instant they are formed: TryEnter refuses    *)
(* only while somebody holds the lock, and a Wait that ends otherwise than  *)
(* by its timeout ends while nobody does.                                   *)
AnswersAreTrue ==
  [][\A t \in Threads :
       /\ pc[t] # "refused" /\ pc'[t] = "refused" => Holders # {}
       /\ pc[t] = "look" /\ pc'[t] = "idle" => Holders = {}]_vars
=============================================================================
