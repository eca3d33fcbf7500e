------------------------------ MODULE MCLocker ------------------------------
(* Model checking of TSyncLocker: every entry point in every order.        *)
EXTENDS SyncLocker
=============================================================================
