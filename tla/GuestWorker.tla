---------------------------- MODULE GuestWorker ----------------------------
(***************************************************************************)
(* The Windows service and the estimator its worker owns: GuestService is  *)
(* the process and its threads, TargetEstimator what a poll remembers from *)
(* the polls before it.                                                    *)
(*                                                                         *)
(* The estimator is used by the worker thread alone and lives as long as   *)
(* its process; GuestService's polls and restarts are TargetEstimator's    *)
(* samples and restarts, taken there at any time.  No property speaks of   *)
(* both, so one of them runs while the other stays as it was created.      *)
(***************************************************************************)
EXTENDS GuestService, TargetEstimator

VARIABLE part  \* the part that runs

guestVars == <<vars, estimatorVars, part>>

GuestInit ==
  /\ Init /\ EstimatorInit
  /\ \/ part = "service" /\ limits = CHOOSE l \in Limits : TRUE
     \/ part = "estimator"

GuestNext ==
  /\ UNCHANGED part
  /\ \/ part = "service" /\ Next /\ UNCHANGED estimatorVars
     \/ part = "estimator" /\ EstimatorNext /\ UNCHANGED vars

GuestSpec == GuestInit /\ [][GuestNext]_guestVars /\ Fairness
=============================================================================
