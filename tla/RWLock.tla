------------------------------- MODULE RWLock -------------------------------
(***************************************************************************)
(* What the readers-writer locks of Tiny.Types.pas promise: any number of  *)
(* readers at a time or one writer alone ("complete exclusivity to callers *)
(* needing write access").  TSyncLocker and TSyncSmallLocker are shown to  *)
(* implement it.                                                           *)
(***************************************************************************)
CONSTANTS Threads   (* the threads that share the lock                     *)

VARIABLES readers,  (* the threads with read access                        *)
          writers   (* the thread with write access, as a set              *)

RWInit ==
  /\ readers = {}
  /\ writers = {}

AcquireRead(t) ==
  /\ writers = {}
  /\ readers' = readers \cup {t}
  /\ UNCHANGED writers

AcquireExclusive(t) ==
  /\ writers = {}
  /\ readers = {}
  /\ writers' = {t}
  /\ UNCHANGED readers

ReleaseRead(t) ==
  /\ t \in readers
  /\ readers' = readers \ {t}
  /\ UNCHANGED writers

ReleaseExclusive(t) ==
  /\ writers = {t}
  /\ writers' = {}
  /\ UNCHANGED readers

RWNext ==
  \E t \in Threads :
    \/ AcquireRead(t) \/ AcquireExclusive(t)
    \/ ReleaseRead(t) \/ ReleaseExclusive(t)

RWSpec == RWInit /\ [][RWNext]_<<readers, writers>>
=============================================================================
