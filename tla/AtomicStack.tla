---------------------------- MODULE AtomicStack ----------------------------
(***************************************************************************)
(* What the TaggedPtr routines promise together: a stack of items that     *)
(* threads pass to each other, every operation happening at one instant.   *)
(* An item is in the stack or owned by the thread that took it out, never  *)
(* both and never by two threads.  An invalidated stack is empty and       *)
(* accepts nothing until it is validated again.                            *)
(***************************************************************************)
EXTENDS Naturals, Sequences

CONSTANTS Threads, Items

VARIABLES list,   (* the items in the stack, top first                     *)
          valid,  (* FALSE between Invalidate and Validate                 *)
          owned   (* the items each thread holds                           *)

ItemsOf(s) == {s[i] : i \in 1 .. Len(s)}

(* The lists of one or two items a thread can make of what it owns.        *)
Lists(t) == {<<a>> : a \in owned[t]} \cup
            ({<<a, b>> : a \in owned[t], b \in owned[t]} \ {<<a, a>> : a \in owned[t]})

Take(t, taken, given) == owned' = [owned EXCEPT ![t] = (@ \ given) \cup taken]

StackInit ==
  /\ list = <<>>
  /\ valid = TRUE
  /\ \A t, u \in Threads : t # u => owned[t] \cap owned[u] = {}
  /\ UNION {owned[t] : t \in Threads} = Items

Push(t) ==
  /\ valid
  /\ \E s \in Lists(t) : list' = s \o list /\ Take(t, {}, ItemsOf(s))
  /\ UNCHANGED valid

Pop(t) ==
  /\ list # <<>>
  /\ list' = Tail(list)
  /\ Take(t, {Head(list)}, {})
  /\ UNCHANGED valid

PopAll(t) ==
  /\ list' = <<>>
  /\ Take(t, ItemsOf(list), {})
  /\ UNCHANGED valid

Change(t) ==
  /\ valid
  /\ \E s \in Lists(t) \cup {<<>>} : list' = s /\ Take(t, ItemsOf(list), ItemsOf(s))
  /\ UNCHANGED valid

Invalidate(t) ==
  /\ valid
  /\ valid' = FALSE
  /\ list' = <<>>
  /\ Take(t, ItemsOf(list), {})

Validate(t) ==
  /\ ~ valid
  /\ valid' = TRUE
  /\ \E s \in Lists(t) \cup {<<>>} : list' = s /\ Take(t, {}, ItemsOf(s))

StackNext ==
  \E t \in Threads :
    \/ Push(t) \/ Pop(t) \/ PopAll(t)
    \/ Change(t) \/ Invalidate(t) \/ Validate(t)

StackSpec == StackInit /\ [][StackNext]_<<list, valid, owned>>
=============================================================================
