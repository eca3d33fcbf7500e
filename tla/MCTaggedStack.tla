---------------------------- MODULE MCTaggedStack ----------------------------
(* Model checking of the TaggedPtr routines, with the history variable     *)
(* that remembers the list a PopReversed detached.                         *)
EXTENDS TaggedStackHistory

MCFairSpec == HistorySpec /\ \A t \in Threads : WF_vars(RoutineStep(t))
=============================================================================
