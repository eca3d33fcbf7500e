--------------------------- MODULE SyncSmallLocker ---------------------------
(***************************************************************************)
(* TSyncSmallLocker (Tiny.Types.pas), the "one-byte implementation of      *)
(* TSyncLocker": bit 0 is the writer, the other seven bits count readers,  *)
(* up to the value 254.                                                    *)
(*                                                                         *)
(* Readers and writers both change the byte through SmallLockerCAS, which  *)
(* compares first and swaps second, two accesses.  Non-Intel builds swap   *)
(* with AtomicCmpExchange; Intel builds execute "lock xchg", which stores  *)
(* unconditionally, and report the flags of the first comparison.          *)
(* CONSTANT CompareAndSwap picks the build.                                *)
(*                                                                         *)
(* Clients are as in SyncLocker: not reentrant, leaving what they got.     *)
(***************************************************************************)
EXTENDS Integers, FiniteSets

CONSTANTS Threads,         (* the threads that share the lock              *)
          Full,            (* the count that admits no reader: 254         *)
          CompareAndSwap   (* TRUE: AtomicCmpExchange, FALSE: Intel asm    *)

ASSUME ThreadsAssumption == IsFiniteSet(Threads)
ASSUME FullAssumption    == Full \in Nat /\ Full % 2 = 0
ASSUME BuildAssumption   == CompareAndSwap \in BOOLEAN

VARIABLES
  value,  (* FValue, a byte: 0 .. Full + 1                                 *)
  pc,     (* where each thread is                                          *)
  call,   (* the entry point a thread is in                                *)
  seen    (* LValue of a thread inside TryEnterRead or TryEnterExclusive   *)

vars == <<value, pc, call, seen>>

ReadCalls      == {"TryEnterRead", "EnterReadTimed", "EnterRead"}
ExclusiveCalls == {"TryEnterExclusive", "EnterExclusiveTimed", "EnterExclusive"}
WaitCalls      == {"WaitOnce", "WaitTimed", "Wait"}
Calls          == ReadCalls \cup ExclusiveCalls \cup WaitCalls \cup {"none"}
Immediate      == {"TryEnterRead", "TryEnterExclusive", "WaitOnce"}
Blocking       == {"EnterRead", "EnterExclusive", "Wait"}

Places == {"idle",
           "test",           (* TryEnter.. is about to read FValue         *)
           "compare",        (* SmallLockerCAS is about to compare         *)
           "swap",           (* it compared equal and is about to swap     *)
           "drain",          (* the writer bit is set, readers remain      *)
           "reading", "writing",
           "refused",        (* the attempt failed                         *)
           "look", "busy"}   (* Wait is about to read, or read a non-zero  *)

Odd(n)  == n % 2 = 1
Byte(n) == n % (Full + 2)

Goto(t, place) == pc' = [pc EXCEPT ![t] = place]

(* The call ends and leaves the thread at place.                           *)
Return(t, place) ==
  /\ Goto(t, place)
  /\ call' = [call EXCEPT ![t] = "none"]

Reads(t) == call[t] \in ReadCalls
Addend(t) == IF Reads(t) THEN 2 ELSE 1

-----------------------------------------------------------------------------
(* Bug variants of the actions below, each one plausible slip in the code. *)
(* The read limit is forgotten.                                            *)
Test_NoLimit(t) ==
  /\ pc[t] = "test"
  /\ IF Odd(value)
     THEN Goto(t, "refused") /\ UNCHANGED seen
     ELSE Goto(t, "compare") /\ seen' = [seen EXCEPT ![t] = value]
  /\ UNCHANGED <<value, call>>

(* A failed swap is not tried again.                                       *)
Swap_NoLoop(t) ==
  /\ pc[t] = "swap"
  /\ IF value # seen[t]
     THEN Goto(t, "refused") /\ UNCHANGED <<value, call>>
     ELSE /\ value' = Byte(seen[t] + Addend(t))
          /\ IF Reads(t) THEN Return(t, "reading") ELSE Goto(t, "drain") /\ UNCHANGED call
  /\ seen' = [seen EXCEPT ![t] = 0]

(* The writer does not wait for the readers.                               *)
Drain_Skipped(t) ==
  /\ pc[t] = "drain"
  /\ Return(t, "writing")
  /\ UNCHANGED <<value, seen>>

-----------------------------------------------------------------------------
Init ==
  /\ value = 0
  /\ pc    = [t \in Threads |-> "idle"]
  /\ call  = [t \in Threads |-> "none"]
  /\ seen  = [t \in Threads |-> 0]

Start(t, calls, place) ==
  /\ pc[t] = "idle"
  /\ \E c \in calls : call' = [call EXCEPT ![t] = c]
  /\ Goto(t, place)
  /\ UNCHANGED <<value, seen>>

CallEnter(t) == Start(t, ReadCalls, "test") \/ Start(t, ExclusiveCalls, "test")
CallWait(t)  == Start(t, WaitCalls, "look")

(* TryEnterRead refuses at the limit; a writer may still add its bit there.*)
Test(t) ==
  /\ pc[t] = "test"
  /\ IF Odd(value) \/ (Reads(t) /\ value = Full)
     THEN Goto(t, "refused") /\ UNCHANGED seen
     ELSE Goto(t, "compare") /\ seen' = [seen EXCEPT ![t] = value]
  /\ UNCHANGED <<value, call>>

(* SmallLockerCAS, first access; when it fails the loop reads anew.        *)
Compare(t) ==
  /\ pc[t] = "compare"
  /\ IF value = seen[t]
     THEN Goto(t, "swap") /\ UNCHANGED seen
     ELSE Goto(t, "test") /\ seen' = [seen EXCEPT ![t] = 0]
  /\ UNCHANGED <<value, call>>

(* SmallLockerCAS, second access: only the non-Intel build compares again. *)
Swap(t) ==
  /\ pc[t] = "swap"
  /\ IF CompareAndSwap /\ value # seen[t]
     THEN Goto(t, "test") /\ UNCHANGED <<value, call>>
     ELSE /\ value' = Byte(seen[t] + Addend(t))
          /\ IF Reads(t) THEN Return(t, "reading") ELSE Goto(t, "drain") /\ UNCHANGED call
  /\ seen' = [seen EXCEPT ![t] = 0]

(* Until FValue and -2 is 0 the writer yields, which changes nothing.      *)
Drain(t) ==
  /\ pc[t] = "drain"
  /\ value \div 2 = 0
  /\ Return(t, "writing")
  /\ UNCHANGED <<value, seen>>

(* InternalEnter.. and the timed loops yield and try again.                *)
Retry(t) ==
  /\ pc[t] = "refused"
  /\ call[t] \notin Immediate
  /\ Goto(t, "test")
  /\ UNCHANGED <<value, call, seen>>

GiveUp(t) ==
  /\ pc[t] = "refused"
  /\ call[t] \notin Blocking
  /\ Return(t, "idle")
  /\ UNCHANGED <<value, seen>>

LeaveRead(t) ==
  /\ pc[t] = "reading"
  /\ value' = Byte(value - 2)
  /\ Goto(t, "idle")
  /\ UNCHANGED <<call, seen>>

LeaveExclusive(t) ==
  /\ pc[t] = "writing"
  /\ value' = Byte(value - 1)
  /\ Goto(t, "idle")
  /\ UNCHANGED <<call, seen>>

Look(t) ==
  /\ pc[t] = "look"
  /\ IF value = 0 THEN Return(t, "idle") ELSE Goto(t, "busy") /\ UNCHANGED call
  /\ UNCHANGED <<value, seen>>

LookAgain(t) ==
  /\ pc[t] = "busy"
  /\ call[t] \notin Immediate
  /\ Goto(t, "look")
  /\ UNCHANGED <<value, call, seen>>

WaitGivesUp(t) ==
  /\ pc[t] = "busy"
  /\ call[t] \notin Blocking
  /\ Return(t, "idle")
  /\ UNCHANGED <<value, seen>>

CallStep(t) ==
  \/ Test(t) \/ Compare(t) \/ Swap(t) \/ Drain(t)
  \/ Retry(t) \/ GiveUp(t)
  \/ Look(t) \/ LookAgain(t) \/ WaitGivesUp(t)

Leave(t) == LeaveRead(t) \/ LeaveExclusive(t)

Next == \E t \in Threads : CallEnter(t) \/ CallWait(t) \/ CallStep(t) \/ Leave(t)

Spec == Init /\ [][Next]_vars
-----------------------------------------------------------------------------
TypeOK ==
  /\ value \in 0 .. Full + 1
  /\ pc \in [Threads -> Places]
  /\ call \in [Threads -> Calls]
  /\ seen \in [Threads -> {n \in 0 .. Full : ~ Odd(n)}]

At(places) == {t \in Threads : pc[t] \in places}
Readers == At({"reading"})
Writers == At({"writing"})
Marked  == At({"drain", "writing"})     (* threads whose bit is in FValue  *)

(* A writer is alone, as for TSyncLocker.                                  *)
Exclusivity == \A w \in Writers : Readers = {} /\ Writers = {w}

(* The byte neither overflows at the reader limit, with or without the     *)
(* writer's bit on top, nor loses a concurrent update.                     *)
Accounting == value = 2 * Cardinality(Readers) + Cardinality(Marked)

(* The one-byte locker implements the same abstract lock as TSyncLocker.   *)
RW == INSTANCE RWLock WITH readers <- Readers, writers <- Writers
ImplementsRWLock == RW!RWSpec

(* An attempt fails only for a reason that exists at that instant: a       *)
(* writer has set its bit or, for a reader, all places are taken.  A swap  *)
(* lost to another thread is not a reason.                                 *)
RefusedForCause ==
  [][\A t \in Threads :
       pc[t] # "refused" /\ pc'[t] = "refused" =>
         \/ Marked # {}
         \/ Reads(t) /\ 2 * Cardinality(Readers) = Full]_vars
=============================================================================
