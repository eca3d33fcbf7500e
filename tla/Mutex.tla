------------------------------- MODULE Mutex -------------------------------
(***************************************************************************)
(* What a mutual-exclusion lock promises its callers: at most one owner,   *)
(* ownership taken only while the lock is free and given up only by the    *)
(* owner.  TSyncSpinlock is shown to implement it (module SyncSpinlock).   *)
(***************************************************************************)
CONSTANTS Threads,  (* the threads that share the lock                     *)
          NoThread  (* "nobody owns it"                                    *)

VARIABLE owner

MutexInit == owner = NoThread

Acquire(t) ==
  /\ owner = NoThread
  /\ owner' = t

Release(t) ==
  /\ owner = t
  /\ owner' = NoThread

MutexNext == \E t \in Threads : Acquire(t) \/ Release(t)

MutexSpec == MutexInit /\ [][MutexNext]_owner
=============================================================================
