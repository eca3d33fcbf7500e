-------------------------- MODULE TaggedStackHistory --------------------------
(***************************************************************************)
(* The TaggedPtr routines with a history variable: what each PopReversed   *)
(* detached.  It is read by no step; it says what the list was that the    *)
(* routine turns around while other threads go on with the stack.          *)
(***************************************************************************)
EXTENDS TaggedStack

(* Sequences, for Reverse; its other names are not needed here.            *)
Seqs == INSTANCE SequencesExt

VARIABLE taken  (* the list a thread detached and has not yet returned     *)

historyVars == <<vars, taken>>

HistoryInit == Init /\ taken = [t \in Threads |-> <<>>]

HistoryNext ==
  /\ Next
  /\ taken' = [t \in Threads |->
       IF pc[t] = "swap" /\ pc'[t] = "first" THEN Chain(head.value)
       ELSE IF pc'[t] = "idle" THEN <<>> ELSE taken[t]]

HistorySpec == HistoryInit /\ [][HistoryNext]_historyVars

(* What PopReversed returns: the item it turned around last.               *)
Returned(t) == IF pc[t] = "first" THEN seen[t].value ELSE rev[t].current

(* TaggedPtrPopReversed hands out the list in the order it was pushed:     *)
(* when it returns, the list from the item it returns is the detached one, *)
(* reversed.                                                               *)
ReversedInOrder ==
  [][\A t \in Threads :
       pc[t] \in {"first", "reverse"} /\ pc'[t] = "idle" =>
         \A item \in {Returned(t)} : Chain(item)' = Seqs!Reverse(taken[t])]_historyVars
=============================================================================
