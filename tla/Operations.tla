----------------------------- MODULE Operations -----------------------------
(***************************************************************************)
(* The operator's side of the system: the processes that act on a device   *)
(* (HostOperations), and the two deployments that put their files in place *)
(* (HostDeploy on the host, GuestDeploy in the guest).                     *)
(*                                                                         *)
(* The three share no state that these modules describe (a deployment's    *)
(* attestation is one of HostOperations' attestations, its unit one of its *)
(* daemons), and no property speaks of two of them: every behaviour of the *)
(* whole is a shuffle of one of each, so it is enough to let any one run,  *)
(* the others staying in some initial state.                               *)
(***************************************************************************)
EXTENDS HostOperations, HostDeploy, GuestDeploy

VARIABLE running  \* the part that runs

allVars == <<vars, deployVars, guestDeployVars, running>>

OperationsInit ==
  /\ Init /\ DeployInit /\ GuestDeployInit
  /\ running \in {"processes", "host deployment", "guest deployment"}
  /\ running # "processes" =>
       \A p \in Procs : name[p] = domain.name
  /\ running # "host deployment" =>
       ~unit.enabled /\ \A f \in Installed \cup Moved : target[f] = Absent
  /\ running # "guest deployment" => guest = Empty

OperationsNext ==
  /\ UNCHANGED running
  /\ \/ running = "processes" /\ Next /\ UNCHANGED <<deployVars, guestDeployVars>>
     \/ running = "host deployment" /\ HostDeployNext /\ UNCHANGED <<vars, guestDeployVars>>
     \/ running = "guest deployment" /\ GuestDeployNext /\ UNCHANGED <<vars, deployVars>>

OperationsSpec == OperationsInit /\ [][OperationsNext]_allVars

\* No deployment loses a file: what host-deploy replaced or moved away, and every
\* executable and configuration of a service that was deployed in the guest, is in its
\* place or in a backup, wherever a deployment, a rollback or an uninstallation ended and
\* however often it was repeated.
FilesKept == NothingLost /\ GuestNothingLost
=============================================================================
