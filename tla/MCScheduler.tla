--------------------------- MODULE MCScheduler ----------------------------
(* Two futures, two waker threads with two wakes between them or each, two   *)
(* timers and batches of one or two.                                         *)
EXTENDS Scheduler
===========================================================================
