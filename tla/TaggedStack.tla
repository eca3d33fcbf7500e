---------------------------- MODULE TaggedStack ----------------------------
(***************************************************************************)
(* The TaggedPtr routines (c/tiny.types.taggedimpl.inc): a lock-free stack *)
(* of intrusively linked items whose head is a pointer and a counter.      *)
(*                                                                         *)
(* Every routine reads the head, prepares a new one and installs it by     *)
(* compare-and-swap, or starts over.  On Intel (CONSTANT Counted = TRUE)   *)
(* the swap compares pointer and counter and increments the counter; the   *)
(* head is first read by two separate loads, pointer then counter.  On ARM *)
(* (Counted = FALSE) only the pointer is read, compared and replaced.      *)
(* Loads, the store into the last pushed item, and the swap are one step   *)
(* each.                                                                   *)
(*                                                                         *)
(* Clients pass lists of one or two items they own to Push.., Change and   *)
(* Validate, own what they get back, and never unmap an item: a thread     *)
(* that was overtaken may still read the link of an item it saw.  The      *)
(* counter is unbounded here; MaxCounter stops new calls, for TLC.         *)
(***************************************************************************)
EXTENDS Naturals, Sequences, FiniteSets

CONSTANTS Threads, Items,
          NIL, INVALID,  (* the pointers 0 and 1                           *)
          Counted,       (* TRUE: pointer and counter, FALSE: pointer only *)
          Calls,         (* the routines the threads call                  *)
          MaxCounter     (* no call starts once the counter is there       *)

Routines == {"PushList", "PushCalcList", "Pop", "PopList", "PopReversed",
             "Change", "Invalidate", "Validate"}

ASSUME PointerAssumption == NIL \notin Items /\ INVALID \notin Items /\ NIL # INVALID
ASSUME BuildAssumption   == Counted \in BOOLEAN
ASSUME ItemsAssumption   == IsFiniteSet(Items)
ASSUME CallsAssumption   == Calls \subseteq Routines /\ MaxCounter \in Nat

VARIABLES
  head,   (* *target: [value, counter]                                     *)
  next,   (* the link in the first word of each item                       *)
  owned,  (* the items each thread holds; the others are in the stack      *)
  pc,     (* where each thread is                                          *)
  op,     (* the routine a thread is in                                    *)
  arg,    (* [first, last], the list passed in                             *)
  seen,   (* the head as the thread read it                                *)
  fresh,  (* the pointer it is about to install                            *)
  rev     (* [ret, current] of TaggedPtrReverse                            *)

vars == <<head, next, owned, pc, op, arg, seen, fresh, rev>>
locals == <<op, arg, seen, fresh, rev>>

Pointers == Items \cup {NIL, INVALID}
Links    == Items \cup {NIL}
Places   == {"idle", "walk", "value", "counter", "prepare", "swap", "first", "reverse"}

NoList == [first |-> NIL, last |-> NIL]
NoHead == [value |-> NIL, counter |-> 0]
NoRev  == [ret |-> NIL, current |-> NIL]

Giving == {"PushList", "PushCalcList", "Change", "Validate"}
Taking == {"PopList", "PopReversed", "Change", "Invalidate"}
InAsm  == {"PushList", "PushCalcList", "Pop", "PopList", "PopReversed"}

Owned    == UNION {owned[t] : t \in Threads}
InStack  == Items \ Owned
Given(t) == IF op[t] \in Giving THEN {arg[t].first, arg[t].last} \ {NIL} ELSE {}
Taken(t) == IF op[t] = "Pop" THEN {seen[t].value}
            ELSE IF op[t] \in Taking THEN InStack ELSE {}

(* The pointer to install; the other routines, which pop a list, leave NIL. *)
NewHead(t) == IF op[t] = "Pop" THEN next[seen[t].value]
              ELSE IF op[t] = "Invalidate" THEN INVALID
              ELSE IF op[t] \in Giving THEN arg[t].first ELSE NIL

Goto(t, place) == pc' = [pc EXCEPT ![t] = place]

(* The routine returns; what it held in registers is gone.                 *)
Return(t) ==
  /\ Goto(t, "idle")
  /\ op'    = [op EXCEPT ![t] = "none"]
  /\ arg'   = [arg EXCEPT ![t] = NoList]
  /\ seen'  = [seen EXCEPT ![t] = NoHead]
  /\ fresh' = [fresh EXCEPT ![t] = NIL]
  /\ rev'   = [rev EXCEPT ![t] = NoRev]
-----------------------------------------------------------------------------
(* The routines that refuse the pointer they saw: the pops return a null   *)
(* or invalid head, Validate wants an invalid one, the others a valid one. *)
Refuses(t) ==
  \/ op[t] \in {"Pop", "PopList", "PopReversed"} /\ seen[t].value \in {NIL, INVALID}
  \/ op[t] = "Validate" /\ seen[t].value # INVALID
  \/ op[t] \in {"PushList", "PushCalcList", "Change", "Invalidate"} /\ seen[t].value = INVALID

(* What the swap compares.                                                 *)
Unchanged(t) == head.value = seen[t].value /\ (Counted => head.counter = seen[t].counter)

(* Bug variants of the steps, each a plausible slip in the code.           *)
(* The last pushed item keeps the link it had.                             *)
Prepare_NoStore(t) ==
  /\ pc[t] = "prepare"
  /\ ~ Refuses(t)
  /\ Goto(t, "swap")
  /\ fresh' = [fresh EXCEPT ![t] = NewHead(t)]
  /\ UNCHANGED <<head, next, owned, op, arg, seen, rev>>

(* The new head keeps the old counter.                                     *)
Swap_NoIncrement(t) ==
  /\ pc[t] = "swap"
  /\ Unchanged(t)
  /\ head' = [head EXCEPT !.value = fresh[t]]
  /\ owned' = [owned EXCEPT ![t] = (@ \ Given(t)) \cup Taken(t)]
  /\ IF op[t] = "PopReversed"
     THEN Goto(t, "first") /\ UNCHANGED locals
     ELSE Return(t)
  /\ UNCHANGED next

(* A failed swap is tried again with the new head and the old link.        *)
SwapFails_OldLink(t) ==
  /\ pc[t] = "swap"
  /\ ~ Unchanged(t)
  /\ head.value \in Items
  /\ seen' = [seen EXCEPT ![t] = head]
  /\ UNCHANGED <<head, next, owned, pc, op, arg, fresh, rev>>

(* A failed swap is tried again with the head that was read before.        *)
SwapFails_NoReload(t) ==
  /\ pc[t] = "swap"
  /\ ~ Unchanged(t)
  /\ Goto(t, "prepare")
  /\ UNCHANGED <<head, next, owned, op, arg, seen, fresh, rev>>

(* The first item of the reversed list keeps its link.                     *)
ReverseFirst_NoEnd(t) ==
  /\ pc[t] = "first"
  /\ LET item == seen[t].value
     IN  IF next[item] = NIL
         THEN Return(t)
         ELSE /\ rev'  = [rev EXCEPT ![t] = [ret |-> item, current |-> next[item]]]
              /\ Goto(t, "reverse")
              /\ UNCHANGED <<op, arg, seen, fresh>>
  /\ UNCHANGED <<head, next, owned>>
-----------------------------------------------------------------------------
Init ==
  /\ head = NoHead
  /\ next = [i \in Items |-> NIL]
  /\ owned \in [Threads -> SUBSET Items]
  /\ \A t, u \in Threads : t # u => owned[t] \cap owned[u] = {}
  /\ Owned = Items
  /\ pc    = [t \in Threads |-> "idle"]
  /\ op    = [t \in Threads |-> "none"]
  /\ arg   = [t \in Threads |-> NoList]
  /\ seen  = [t \in Threads |-> NoHead]
  /\ fresh = [t \in Threads |-> NIL]
  /\ rev   = [t \in Threads |-> NoRev]

(* A call with a list of the caller's own items, linked by the caller.     *)
CallGiving(t) ==
  /\ pc[t] = "idle" /\ head.counter < MaxCounter
  /\ \E o \in Calls \cap Giving, first, last \in owned[t] :
       /\ op'   = [op EXCEPT ![t] = o]
       /\ next' = [next EXCEPT ![first] = last, ![last] = NIL]
       /\ IF o = "PushCalcList"
          THEN Goto(t, "walk")  /\ arg' = [arg EXCEPT ![t] = [first |-> first, last |-> first]]
          ELSE Goto(t, "value") /\ arg' = [arg EXCEPT ![t] = [first |-> first, last |-> last]]
  /\ UNCHANGED <<head, owned, seen, fresh, rev>>

(* A call without a list: Change and Validate may install a null pointer.  *)
CallPlain(t) ==
  /\ pc[t] = "idle" /\ head.counter < MaxCounter
  /\ \E o \in Calls \ {"PushList", "PushCalcList"} : op' = [op EXCEPT ![t] = o]
  /\ Goto(t, "value")
  /\ UNCHANGED <<head, next, owned, arg, seen, fresh, rev>>

(* TaggedPtrPushCalcList looks for the last item.                          *)
Walk(t) ==
  /\ pc[t] = "walk"
  /\ LET link == next[arg[t].last]
     IN  IF link = NIL
         THEN Goto(t, "value") /\ UNCHANGED arg
         ELSE arg' = [arg EXCEPT ![t] = [first |-> @.first, last |-> link]] /\ UNCHANGED pc
  /\ UNCHANGED <<head, next, owned, op, seen, fresh, rev>>

ReadValue(t) ==
  /\ pc[t] = "value"
  /\ seen' = [seen EXCEPT ![t] = [value |-> head.value, counter |-> @.counter]]
  /\ Goto(t, IF Counted THEN "counter" ELSE "prepare")
  /\ UNCHANGED <<head, next, owned, op, arg, fresh, rev>>

ReadCounter(t) ==
  /\ pc[t] = "counter"
  /\ seen' = [seen EXCEPT ![t] = [value |-> @.value, counter |-> head.counter]]
  /\ Goto(t, "prepare")
  /\ UNCHANGED <<head, next, owned, op, arg, fresh, rev>>

Refuse(t) ==
  /\ pc[t] = "prepare"
  /\ Refuses(t)
  /\ Return(t)
  /\ UNCHANGED <<head, next, owned>>

(* The new head: Pop reads the link of the item it saw, the pushes store   *)
(* the pointer they saw into their last item.                              *)
Prepare(t) ==
  /\ pc[t] = "prepare"
  /\ ~ Refuses(t)
  /\ Goto(t, "swap")
  /\ fresh' = [fresh EXCEPT ![t] = NewHead(t)]
  /\ next' = IF op[t] \in {"PushList", "PushCalcList"}
             THEN [next EXCEPT ![arg[t].last] = seen[t].value] ELSE next
  /\ UNCHANGED <<head, owned, op, arg, seen, rev>>

Swap(t) ==
  /\ pc[t] = "swap"
  /\ Unchanged(t)
  /\ head' = [value   |-> fresh[t],
              counter |-> IF Counted THEN head.counter + 1 ELSE head.counter]
  /\ owned' = [owned EXCEPT ![t] = (@ \ Given(t)) \cup Taken(t)]
  /\ IF op[t] = "PopReversed"
     THEN Goto(t, "first") /\ UNCHANGED locals
     ELSE Return(t)
  /\ UNCHANGED next

(* A failed swap: the Intel assembler gets the current head with it, the   *)
(* other routines read again.                                              *)
SwapFails(t) ==
  /\ pc[t] = "swap"
  /\ ~ Unchanged(t)
  /\ IF Counted /\ op[t] \in InAsm
     THEN seen' = [seen EXCEPT ![t] = head] /\ Goto(t, "prepare")
     ELSE Goto(t, "value") /\ UNCHANGED seen
  /\ UNCHANGED <<head, next, owned, op, arg, fresh, rev>>

(* TaggedPtrPopReversed with the detached list, first and other items.     *)
ReverseFirst(t) ==
  /\ pc[t] = "first"
  /\ LET item == seen[t].value
     IN  IF next[item] = NIL
         THEN Return(t) /\ UNCHANGED next
         ELSE /\ rev'  = [rev EXCEPT ![t] = [ret |-> item, current |-> next[item]]]
              /\ next' = [next EXCEPT ![item] = NIL]
              /\ Goto(t, "reverse")
              /\ UNCHANGED <<op, arg, seen, fresh>>
  /\ UNCHANGED <<head, owned>>

ReverseNext(t) ==
  /\ pc[t] = "reverse"
  /\ LET current == rev[t].current
     IN  /\ next' = [next EXCEPT ![current] = rev[t].ret]
         /\ IF next[current] = NIL
            THEN Return(t)
            ELSE /\ rev' = [rev EXCEPT ![t] = [ret |-> current, current |-> next[current]]]
                 /\ UNCHANGED <<pc, op, arg, seen, fresh>>
  /\ UNCHANGED <<head, owned>>

RoutineStep(t) ==
  \/ Walk(t) \/ ReadValue(t) \/ ReadCounter(t) \/ Refuse(t) \/ Prepare(t)
  \/ Swap(t) \/ SwapFails(t) \/ ReverseFirst(t) \/ ReverseNext(t)

Next == \E t \in Threads : CallGiving(t) \/ CallPlain(t) \/ RoutineStep(t)

Spec == Init /\ [][Next]_vars

(* Threads inside a routine are scheduled; nobody has to call.             *)
FairSpec == Spec /\ \A t \in Threads : WF_vars(RoutineStep(t))
-----------------------------------------------------------------------------
TypeOK ==
  /\ head \in [value : Pointers, counter : Nat]
  /\ next \in [Items -> Links]
  /\ owned \in [Threads -> SUBSET Items]
  /\ pc \in [Threads -> Places]
  /\ op \in [Threads -> Routines \cup {"none"}]
  /\ arg \in [Threads -> [first : Links, last : Links]]
  /\ seen \in [Threads -> [value : Pointers, counter : Nat]]
  /\ fresh \in [Threads -> Pointers]
  /\ rev \in [Threads -> [ret : Links, current : Links]]

(* An item is never given to two threads.                                  *)
OneOwner == \A t, u \in Threads : t # u => owned[t] \cap owned[u] = {}

(* No ABA: when the swap of a Pop is about to succeed, the link read       *)
(* earlier is still the link of the item on top, though the item may have  *)
(* been popped and pushed back in between.                                 *)
PopInstallsTheLink ==
  \A t \in Threads :
    pc[t] = "swap" /\ op[t] = "Pop" /\ Unchanged(t) => fresh[t] = next[head.value]

(* Nothing is lost: the items nobody owns, each once, are the list from    *)
(* the head: the links lead from one to the next and end with NIL.         *)
Lists(n, s) ==
  /\ {s[k] : k \in 1 .. n} = InStack
  /\ \A j, k \in 1 .. n : s[j] = s[k] => j = k
  /\ IF n = 0 THEN head.value \notin Items ELSE head.value = s[1]
  /\ \A k \in 1 .. n : next[s[k]] = IF k = n THEN NIL ELSE s[k + 1]

NothingLost == \E n \in 0 .. Cardinality(Items) : \E s \in [1 .. n -> Items] : Lists(n, s)

(* The list from i on, cut off after one step too many.                    *)
Chain(i) ==
  LET walk[n \in 0 .. Cardinality(Items) + 1] ==
        IF n = 0 THEN <<>>
        ELSE LET s == walk[n - 1]
                 j == IF s = <<>> THEN i ELSE next[s[Len(s)]]
             IN  IF Len(s) = n - 1 /\ j \in Items THEN Append(s, j) ELSE s
  IN  walk[Cardinality(Items) + 1]

(* The routines implement the atomic stack.                                *)
A == INSTANCE AtomicStack WITH
       list <- Chain(head.value), valid <- head.value # INVALID
ImplementsAtomicStack == A!StackSpec

(* Lock freedom: a call is held up only by the successes of others, and    *)
(* with MaxCounter there are finitely many, so every call returns.         *)
EveryCallReturns == \A t \in Threads : (pc[t] # "idle") ~> (pc[t] = "idle")
=============================================================================
