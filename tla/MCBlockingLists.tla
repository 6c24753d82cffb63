-------------------------- MODULE MCBlockingLists ---------------------------
(* Instances of BlockingLists for TLC.  No action looks at the session of  *)
(* a waiter, so the waiters of one client stand for those of several.      *)
EXTENDS BlockingLists
=============================================================================
