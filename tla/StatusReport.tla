---------------------------- MODULE StatusReport ----------------------------
(***************************************************************************)
(* `virtio-mem-host status`: a read-only view that joins the checkpoint    *)
(* with the live device (checkpoint.rs, read_controller_status), written   *)
(* only if it satisfies the contract of controller_status.rs, and checked  *)
(* against it again by whoever reads it.  The device is read before the    *)
(* checkpoint and the daemon does not wait: the two need not be of the     *)
(* same moment.                                                            *)
(***************************************************************************)
EXTENDS VmController

\* Faulty variant: what converged without being resolved needs no review.
reason_if_diverged(c, changed, ownership) ==
  c.latched \/ ownership \in {"UnownedPending", "Conflict"}
\* Whether there is a reason for a review; an attestation that changed is one if the
\* control state is pending.
recovery_reason(c, changed, ownership) ==
  \/ c.latched
  \/ changed /\ (c.intent # None \/ (c.request # None /\ ~Terminal(c.result)))
  \/ ownership \notin {"None", "OwnedPending"}

control_health(c, review, ownership) ==
  IF c.latched THEN "Latched"
  ELSE IF review THEN "RecoveryRequired"
  ELSE IF ownership = "OwnedPending"
    THEN IF c.intent.direction \in {"Grow", "SettleGrow"} THEN "Growing" ELSE "Shrinking"
  ELSE "Converged"

shown_command(c, ownership) == c.intent

read_controller_status(c, live, changed) ==
  LET ownership == command_ownership(c.intent, live)
      review == recovery_reason(c, changed, ownership)
  IN [live |-> live, request |-> c.request, result |-> c.result,
      ownership |-> ownership, command |-> shown_command(c, ownership),
      review |-> review, latched |-> c.latched,
      health |-> control_health(c, review, ownership)]

\* MemoryResult::validate_for
ValidResult(result, request) ==
  /\ result.actual <= request.bytes
  /\ CASE result.outcome = "Completed" -> result.actual = request.bytes
       [] result.outcome = "Partial" -> result.actual < request.bytes
       [] result.outcome = "PoolEmpty" -> request.op = "Add" /\ result.actual = 0
       [] result.outcome = "Rejected" -> result.actual = 0
       [] OTHER -> TRUE

\* ControllerStatusSnapshot::validate
Valid(s) ==
  /\ s.result # None => s.request # None /\ ValidResult(s.result, s.request)
  /\ s.command # None <=> s.ownership \in {"OwnedPending", "OwnedConvergedUnresolved",
                                           "RecordedNotApplied", "Conflict"}
  /\ s.ownership = "None" => s.live.requested = s.live.current
  /\ s.ownership = "UnownedPending" => s.live.requested # s.live.current

\* The operator can always read the status: whatever the daemon has written, and whatever
\* the device was when it was read before that, the snapshot satisfies its contract.  And
\* a status that asks for no review is right about it: a daemon that polls now neither
\* latches on what it finds nor leaves a divergence alone.
StatusTruthful ==
  LET shown == read_controller_status(saved, Live, FALSE)
  IN /\ \A live \in States, changed \in BOOLEAN :
          Valid(read_controller_status(saved, live, changed))
     /\ ~shown.review =>
          /\ ~resolve_intent(saved, Live).latched
          /\ requested # current => saved.intent # None /\ shown.health # "Converged"
=============================================================================
