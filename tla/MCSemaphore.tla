---------------------------- MODULE MCSemaphore ----------------------------
(* Semaphore for TLC: three goroutines, all of them cancellable, and the    *)
(* limits 0 (closed), 1 and 2, so that Resize can shrink the semaphore      *)
(* below the number of active goroutines and reopen it for several waiters. *)
EXTENDS Semaphore, TLC

MCLimits == 0..2
=============================================================================
