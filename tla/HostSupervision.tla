-------------------------- MODULE HostSupervision --------------------------
(***************************************************************************)
(* Who keeps the host daemon running and who ends it: the daemon's own     *)
(* loop and host-run (HostWake), and the qualification of a deployed       *)
(* controller (Qualification), in which the daemon is a systemd unit.      *)
(*                                                                         *)
(* The two share no state that these modules describe and no property      *)
(* speaks of both: every behaviour of the whole is a shuffle of one of     *)
(* each.  So one of them runs while the other has ended or not begun.      *)
(***************************************************************************)
EXTENDS HostWake, Qualification

supervisionVars == <<vars, runVars>>

\* A daemon that has exited, and no qualification, take no further step.
DaemonOver ==
  /\ pc = "exited" /\ stop = TRUE /\ process = {} /\ runner = "none" /\ child = "none"
  /\ stream = [p \in Peers |-> "none"] /\ retry = {} /\ hints = {} /\ ends = 0
  /\ events = "none" /\ news = FALSE /\ unanswered = {} /\ endings = 0

NoQualification ==
  /\ QualificationInit /\ starter = "gone" /\ unit = "inactive"
  /\ expect = CHOOSE e \in Expectations : TRUE

SupervisionInit ==
  \/ Init /\ NoQualification
  \/ DaemonOver /\ QualificationInit

SupervisionNext ==
  \/ Next /\ UNCHANGED runVars
  \/ QualificationNext /\ UNCHANGED vars

SupervisionSpec ==
  /\ SupervisionInit /\ [][SupervisionNext]_supervisionVars
  /\ Fairness /\ QualificationFairness
=============================================================================
