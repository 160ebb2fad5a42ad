------------------------------- MODULE MCCron -------------------------------
(* Small instances of Cron for TLC: two queues, the second for item 3. *)
EXTENDS Cron

MCQueueOf == [i \in Items |-> IF i = 3 THEN 2 ELSE 1]
=============================================================================
