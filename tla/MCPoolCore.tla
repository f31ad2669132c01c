------------------------------ MODULE MCPoolCore ------------------------------
(***************************************************************************)
(* PoolCore for TLC.                                                       *)
(***************************************************************************)
EXTENDS PoolCore

(* Every call spawns at most one worker, so that with as many worker       *)
(* objects as calls the model never runs out of them.                      *)
ASSUME EnoughWorkers == Cardinality(Workers) >= Cardinality(Tasks)

=============================================================================
