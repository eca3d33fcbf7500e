----------------------------- MODULE SyncLocker -----------------------------
(***************************************************************************)
(* TSyncLocker (Tiny.Types.pas): a readers-writer spin lock in one         *)
(* Integer.  Bit 0 is the writer, the rest counts readers: each adds 2.    *)
(*                                                                         *)
(* A reader tests bit 0, adds 2 atomically, looks at bit 0 of the sum and  *)
(* takes its 2 back when a writer came in between: until it does, it is    *)
(* counted though it has no access.  A writer sets bit 0 by                *)
(* AtomicCmpExchange and then spins until the count has drained.  Every    *)
(* access to FValue is a step of its own here.                             *)
(*                                                                         *)
(* A thread is a client: it calls an entry point while it holds nothing    *)
(* (the lock is not reentrant) and leaves what it was granted.  When a     *)
(* timed call gives up depends on the clock and is a choice here.  The     *)
(* Integer's width is left out: it would take 2^30 readers to fill it.     *)
(***************************************************************************)
EXTENDS Integers, FiniteSets

CONSTANT Threads  (* the threads that share the lock                       *)

ASSUME ThreadsAssumption == IsFiniteSet(Threads)

VARIABLES
  value,  (* FValue                                                        *)
  pc,     (* where each thread is                                          *)
  call,   (* the entry point a thread is in                                *)
  seen    (* LValue of a thread inside TryEnterExclusive                   *)

vars == <<value, pc, call, seen>>

ReadCalls      == {"TryEnterRead", "EnterReadTimed", "EnterRead"}
ExclusiveCalls == {"TryEnterExclusive", "EnterExclusiveTimed", "EnterExclusive"}
WaitCalls      == {"WaitOnce", "WaitTimed", "Wait"}
Calls          == ReadCalls \cup ExclusiveCalls \cup WaitCalls \cup {"none"}
Immediate      == {"TryEnterRead", "TryEnterExclusive", "WaitOnce"}
Blocking       == {"EnterRead", "EnterExclusive", "Wait"}

Places == {"idle",
           "readTest", "readAdd", "readUndo", "reading",
           "exclusiveTest", "exclusiveSwap", "drain", "writing",
           "refused",        (* the attempt failed                         *)
           "look", "busy"}   (* Wait is about to read, or read a non-zero  *)

Odd(n) == n % 2 = 1

Goto(t, place) == pc' = [pc EXCEPT ![t] = place]

(* The call ends and leaves the thread at place.                           *)
Return(t, place) ==
  /\ Goto(t, place)
  /\ call' = [call EXCEPT ![t] = "none"]

-----------------------------------------------------------------------------
(* Bug variants of the actions below, each one plausible slip in the code. *)
(* The reader trusts its first test and not the sum.                       *)
ReadAdd_NoRecheck(t) ==
  /\ pc[t] = "readAdd"
  /\ value' = value + 2
  /\ Return(t, "reading")
  /\ UNCHANGED seen

(* The reader adds its 2 without a first test of the writer bit.           *)
ReadTest_Skipped(t) ==
  /\ pc[t] = "readTest"
  /\ Goto(t, "readAdd")
  /\ UNCHANGED <<value, call, seen>>

(* The writer sets its bit without comparing.                              *)
ExclusiveSwap_Blind(t) ==
  /\ pc[t] = "exclusiveSwap"
  /\ value' = seen[t] + 1
  /\ Goto(t, "drain")
  /\ seen' = [seen EXCEPT ![t] = 0]
  /\ UNCHANGED call

(* The leaving writer forgets its bit.                                     *)
LeaveExclusive_Kept(t) ==
  /\ pc[t] = "writing"
  /\ Goto(t, "idle")
  /\ UNCHANGED <<value, call, seen>>

-----------------------------------------------------------------------------
Init ==
  /\ value = 0
  /\ pc    = [t \in Threads |-> "idle"]
  /\ call  = [t \in Threads |-> "none"]
  /\ seen  = [t \in Threads |-> 0]

Start(t, calls, place) ==
  /\ pc[t] = "idle"
  /\ \E c \in calls : call' = [call EXCEPT ![t] = c]
  /\ Goto(t, place)
  /\ UNCHANGED <<value, seen>>

CallRead(t)      == Start(t, ReadCalls, "readTest")
CallExclusive(t) == Start(t, ExclusiveCalls, "exclusiveTest")
CallWait(t)      == Start(t, WaitCalls, "look")

(* TryEnterRead (EnterRead holds an inlined copy of it).                   *)
ReadTest(t) ==
  /\ pc[t] = "readTest"
  /\ Goto(t, IF Odd(value) THEN "refused" ELSE "readAdd")
  /\ UNCHANGED <<value, call, seen>>

ReadAdd(t) ==
  /\ pc[t] = "readAdd"
  /\ value' = value + 2
  /\ IF Odd(value') THEN Goto(t, "readUndo") /\ UNCHANGED call ELSE Return(t, "reading")
  /\ UNCHANGED seen

ReadUndo(t) ==
  /\ pc[t] = "readUndo"
  /\ value' = value - 2
  /\ Goto(t, "refused")
  /\ UNCHANGED <<call, seen>>

(* TryEnterExclusive: read, compare-and-swap, drain.                       *)
ExclusiveTest(t) ==
  /\ pc[t] = "exclusiveTest"
  /\ IF Odd(value)
     THEN Goto(t, "refused") /\ UNCHANGED seen
     ELSE Goto(t, "exclusiveSwap") /\ seen' = [seen EXCEPT ![t] = value]
  /\ UNCHANGED <<value, call>>

ExclusiveSwap(t) ==
  /\ pc[t] = "exclusiveSwap"
  /\ IF value = seen[t]
     THEN value' = value + 1 /\ Goto(t, "drain")
     ELSE UNCHANGED value /\ Goto(t, "exclusiveTest")
  /\ seen' = [seen EXCEPT ![t] = 0]
  /\ UNCHANGED call

(* Until FValue and -2 is 0 the writer yields, which changes nothing.      *)
Drain(t) ==
  /\ pc[t] = "drain"
  /\ value \div 2 = 0
  /\ Return(t, "writing")
  /\ UNCHANGED <<value, seen>>

(* InternalEnter.. and the timed loops yield and try again.                *)
Retry(t) ==
  /\ pc[t] = "refused"
  /\ call[t] \notin Immediate
  /\ Goto(t, IF call[t] \in ReadCalls THEN "readTest" ELSE "exclusiveTest")
  /\ UNCHANGED <<value, call, seen>>

GiveUp(t) ==
  /\ pc[t] = "refused"
  /\ call[t] \notin Blocking
  /\ Return(t, "idle")
  /\ UNCHANGED <<value, seen>>

LeaveRead(t) ==
  /\ pc[t] = "reading"
  /\ value' = value - 2
  /\ Goto(t, "idle")
  /\ UNCHANGED <<call, seen>>

LeaveExclusive(t) ==
  /\ pc[t] = "writing"
  /\ value' = value - 1
  /\ Goto(t, "idle")
  /\ UNCHANGED <<call, seen>>

Look(t) ==
  /\ pc[t] = "look"
  /\ IF value = 0 THEN Return(t, "idle") ELSE Goto(t, "busy") /\ UNCHANGED call
  /\ UNCHANGED <<value, seen>>

LookAgain(t) ==
  /\ pc[t] = "busy"
  /\ call[t] \notin Immediate
  /\ Goto(t, "look")
  /\ UNCHANGED <<value, call, seen>>

WaitGivesUp(t) ==
  /\ pc[t] = "busy"
  /\ call[t] \notin Blocking
  /\ Return(t, "idle")
  /\ UNCHANGED <<value, seen>>

CallStep(t) ==
  \/ ReadTest(t) \/ ReadAdd(t) \/ ReadUndo(t)
  \/ ExclusiveTest(t) \/ ExclusiveSwap(t) \/ Drain(t)
  \/ Retry(t) \/ GiveUp(t)
  \/ Look(t) \/ LookAgain(t) \/ WaitGivesUp(t)

Leave(t) == LeaveRead(t) \/ LeaveExclusive(t)

Next ==
  \E t \in Threads :
    CallRead(t) \/ CallExclusive(t) \/ CallWait(t) \/ CallStep(t) \/ Leave(t)

Spec == Init /\ [][Next]_vars

(* Threads inside the lock's code are scheduled, and a caller that was     *)
(* granted access leaves; nobody has to call.                              *)
FairSpec == Spec /\ \A t \in Threads : WF_vars(CallStep(t)) /\ WF_vars(Leave(t))
-----------------------------------------------------------------------------
TypeOK ==
  /\ value \in Nat
  /\ pc \in [Threads -> Places]
  /\ call \in [Threads -> Calls]
  /\ seen \in [Threads -> Nat]

At(places) == {t \in Threads : pc[t] \in places}
Readers == At({"reading"})
Writers == At({"writing"})
Counted == At({"reading", "readUndo"})  (* threads whose 2 is in FValue    *)
Marked  == At({"drain", "writing"})     (* threads whose bit is in FValue  *)

(* "Complete exclusivity to callers needing write access": a writer is     *)
(* alone, however readers that are taking their 2 back, draining writers   *)
(* and new callers interleave.                                             *)
Exclusivity == \A w \in Writers : Readers = {} /\ Writers = {w}

(* No count is ever lost or left behind: FValue is exactly twice the       *)
(* readers counted, refused ones on their way out included, plus one for   *)
(* the writer, draining or inside.                                         *)
Accounting == value = 2 * Cardinality(Counted) + Cardinality(Marked)

(* The locker implements the abstract readers-writer lock.                 *)
RW == INSTANCE RWLock WITH readers <- Readers, writers <- Writers
ImplementsRWLock == RW!RWSpec

(* Writers are not overtaken: from the moment a writer has set its bit,    *)
(* also while it still drains, no further reader gets in.                  *)
WriterStopsReaders == [][Marked # {} => Readers' \subseteq Readers]_vars

(* Once its bit is set a writer gets in: refused readers that keep coming  *)
(* back cannot hold the count up for ever.                                 *)
DrainEnds == \A t \in Threads : (pc[t] = "drain") ~> (pc[t] = "writing")

(* Whoever calls a blocking entry, somebody gets access.                   *)
Entering(t) == call[t] \in {"EnterRead", "EnterExclusive"}
SomebodyEnters == (\E t \in Threads : Entering(t)) ~> (Readers \cup Writers # {})
=============================================================================
