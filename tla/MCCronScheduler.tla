--------------------------- MODULE MCCronScheduler ---------------------------
(***************************************************************************)
(* Services are interchangeable.                                           *)
(***************************************************************************)
EXTENDS CronScheduler, TLC

Symmetry == Permutations(Service)

=============================================================================
