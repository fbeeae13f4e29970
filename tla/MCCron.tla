------------------------------- MODULE MCCron -------------------------------
(***************************************************************************)
(* Cron on small instances.                                                *)
(***************************************************************************)
EXTENDS Cron, TLC

(* Run slots are interchangeable, and so are the queues.                   *)
Symmetry == Permutations(Run) \union Permutations(Queue)

=============================================================================
