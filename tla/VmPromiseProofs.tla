-------------------------- MODULE VmPromiseProofs --------------------------
(***************************************************************************)
(* Proofs, for every size of the device, about what the controller's       *)
(* checkpoint tells: results measure the device's movement, the status an  *)
(* operator reads is valid and right, commands respect the VM's limits, a  *)
(* divergent device is owned, and the whole controller implements the      *)
(* promise of RequestHost.                                                 *)
(***************************************************************************)
EXTENDS StatusReport, VmControllerProofs

USE ConstantsAssumption, NoneAssumption

-----------------------------------------------------------------------------
\* What a step may write into the checkpoint

\* The journal stays; a command that stays keeps where its movement is measured
\* from.
JournalKept ==
  /\ saved'.request = saved.request /\ saved'.result = saved.result
  /\ saved'.intent # None =>
       saved.intent # None /\ saved'.intent.prior_current = saved.intent.prior_current
  /\ origin' = origin

\* A latch gives a request without a result an uncertain one.
JournalLatched ==
  /\ saved'.request = saved.request /\ saved'.intent = saved.intent
  /\ \/ saved'.result = saved.result
     \/ /\ saved.request # None
        /\ saved'.result = [outcome |-> "Uncertain", actual |-> 0]
  /\ origin' = origin

\* The command ended: its request is answered with what the device moved.
JournalMeasured ==
  LET moved == Moved(saved.request, saved.intent.prior_current, current)
  IN /\ saved.intent # None /\ saved.request # None
     /\ saved'.request = saved.request /\ saved'.intent = None
     /\ saved'.result =
          [outcome |-> IF moved = saved.request.bytes THEN "Completed" ELSE "Partial",
           actual |-> moved]

\* A request, old or new, is answered without any movement.
JournalUnmoved ==
  /\ saved'.request # None /\ saved'.intent = None
  /\ \/ saved'.result = [outcome |-> "Rejected", actual |-> 0]
     \/ /\ saved'.request.op = "Add"
        /\ saved'.result = [outcome |-> "PoolEmpty", actual |-> 0]

\* A request is admitted with its command.
JournalBegun ==
  /\ saved'.request # None /\ saved'.result = None
  /\ saved'.intent # None => saved'.intent.prior_current = origin'

JournalStepCases ==
  JournalKept \/ JournalLatched \/ JournalMeasured \/ JournalUnmoved \/ JournalBegun

\* A latch as one of the five.
LEMMA LatchCase ==
  ASSUME control \in Controls, control = saved,
         control' = latch(control), saved' = control', origin' = origin
  PROVE  JournalLatched
  BY DEF latch, Controls, JournalLatched

\* A measured result, and then the command forgotten.
LEMMA MeasuredCase ==
  ASSUME saved \in Controls, saved.intent # None, saved.request # None,
         \/ saved' = [movement_result(saved, Live) EXCEPT !.intent = None]
         \/ saved' = [movement_result(saved, Live) EXCEPT !.latched = FALSE, !.intent = None]
  PROVE  JournalMeasured
  BY DEF movement_result, record_result, Live, Controls, JournalMeasured

\* observe's resolution of the recorded command.
LEMMA ResolveCase ==
  ASSUME control \in Controls, control = saved, OwnedIn(control), origin' = origin,
         control' = resolve_intent(control, Live), saved' = control'
  PROVE  JournalStepCases
<1>1. CASE control' = control
  BY <1>1 DEF JournalKept, JournalStepCases
<1>2. CASE control' = latch(control)
  BY <1>2, LatchCase DEF JournalStepCases
<1>3. CASE command_ownership(control.intent, Live) = "OwnedConvergedUnresolved"
  <2>1. control.intent # None
    BY <1>3 DEF command_ownership
  <2>2. control.request # None
    BY <2>1 DEF OwnedIn
  <2>3. saved' = [movement_result(saved, Live) EXCEPT !.intent = None]
    BY <1>3, <2>2 DEF resolve_intent
  <2> QED
    BY <2>1, <2>2, <2>3, MeasuredCase DEF JournalStepCases
<1> QED
  BY <1>1, <1>2, <1>3 DEF resolve_intent

\* The operator's clear-latch.
LEMMA ClearCase ==
  ASSUME saved \in Controls, OwnedIn(saved), origin' = origin,
         saved' = clear_actuation_latch(saved, Live)
  PROVE  JournalStepCases
<1>1. CASE saved.request = None \/ Terminal(saved.result)
  BY <1>1 DEF clear_actuation_latch, Controls, JournalKept, JournalStepCases
<1>2. CASE saved.request # None /\ ~Terminal(saved.result) /\ saved.intent # None
  <2>1. saved' = [movement_result(saved, Live) EXCEPT !.latched = FALSE, !.intent = None]
    BY <1>2 DEF clear_actuation_latch
  <2> QED
    BY <1>2, <2>1, MeasuredCase DEF JournalStepCases
<1>3. CASE saved.request # None /\ ~Terminal(saved.result) /\ saved.intent = None
  BY <1>3 DEF clear_actuation_latch, record_result, Controls, JournalUnmoved,
     JournalStepCases
<1> QED
  BY <1>1, <1>2, <1>3

\* act answers the new request, or admits it with its command.
LEMMA ActCase ==
  ASSUME IInv, ActRefuse \/ ActEmpty \/ ActCommand
  PROVE  JournalStepCases
<1>0. control = saved /\ control \in Controls
  BY DEF IInv, Synced, TypeOK
<1>1. /\ ready \in Readies /\ ~ready.replay
  BY DEF ActRefuse, ActEmpty, ActCommand, IInv, AtAct, TypeOK
<1>2. ready.request # None /\ ready.request \in Requests
  BY <1>1 DEF Readies
<1>3. AtBoundary = Admitted(control, ready.request)
  BY <1>1 DEF AtBoundary
<1>4. CASE ActRefuse
  BY <1>1, <1>4 DEF ActRefuse, controlVars, historyVars, JournalKept, JournalStepCases
<1>5. CASE ActEmpty
  <2> DEFINE o == IF ready.request.op = "Add" THEN "PoolEmpty" ELSE "Rejected"
             d == record_result(Admitted(control, ready.request), o, 0)
  <2>1. saved' = d
    BY <1>3, <1>5 DEF ActEmpty, record_unexecuted, save
  <2>2. d.request = ready.request /\ d.intent = control.intent
        /\ d.result = [outcome |-> o, actual |-> 0]
    BY <1>0, <1>2 DEF record_result, Admitted, Controls
  <2>3. control.intent = None
    BY <1>5 DEF ActEmpty, IInv, AtAct
  <2> QED
    BY <1>2, <2>1, <2>2, <2>3 DEF JournalUnmoved, JournalStepCases
<1>6. CASE ActCommand
  <2>1. PICK i : saved' = [Admitted(control, ready.request) EXCEPT !.intent = i]
                 /\ i.prior_current = seen.current
    <3>1. PICK room \in Blocks :
            saved' = [AtBoundary EXCEPT !.intent =
                       [direction |-> IF ready.request.op = "Add" THEN "Grow" ELSE "Shrink",
                        prior_requested |-> seen.requested,
                        prior_current |-> seen.current,
                        target |-> IF ready.request.op = "Add" THEN seen.current + Grant(room)
                                                  ELSE seen.current - Grant(room)]]
      BY <1>6 DEF ActCommand, save
    <3> DEFINE i == [direction |-> IF ready.request.op = "Add" THEN "Grow" ELSE "Shrink",
                     prior_requested |-> seen.requested,
                     prior_current |-> seen.current,
                     target |-> IF ready.request.op = "Add" THEN seen.current + Grant(room)
                                                            ELSE seen.current - Grant(room)]
    <3>2. saved' = [Admitted(control, ready.request) EXCEPT !.intent = i]
      BY <1>3, <3>1
    <3>3. i.prior_current = seen.current
      OBVIOUS
    <3> QED
      BY <3>2, <3>3
  <2>2. saved'.request = ready.request /\ saved'.result = None /\ saved'.intent = i
    BY <1>0, <2>1 DEF Admitted, Controls
  <2>3. origin' = seen.current
    BY <1>6 DEF ActCommand
  <2> QED
    BY <1>2, <2>1, <2>2, <2>3 DEF JournalBegun, JournalStepCases
<1> QED
  BY <1>4, <1>5, <1>6

\* Every step of the system treats the journal in one of these ways.
LEMMA StepCases ==
  ASSUME IInv, [Next]_vars
  PROVE  JournalStepCases
<1> USE DEF controlVars, historyVars
<1>0. control = saved /\ OwnedIn(control) /\ control \in Controls
  BY DEF IInv, Synced, UnresolvedOwned, TypeOK
<1>1. CASE saved' = saved /\ origin' = origin
  BY <1>1 DEF JournalKept, JournalStepCases
<1>2. CASE ObserveUnreadable
  <2>1. CASE control.intent = None
    BY <1>0, <1>1, <1>2, <2>1 DEF ObserveUnreadable, save
  <2>2. CASE control.intent # None
    BY <1>0, <1>2, <2>2, LatchCase DEF ObserveUnreadable, save, JournalStepCases
  <2> QED
    BY <2>1, <2>2
<1>3. CASE ObserveLive
  BY <1>0, <1>3, ResolveCase DEF ObserveLive, save
<1>4. CASE settle_short /\ Owned
  <2>1. /\ control' = [control EXCEPT !.intent = SettleIntent(control.intent)]
        /\ saved' = control' /\ origin' = origin /\ control.intent # None
    BY <1>4 DEF settle_short, save, Owned
  <2>2. SettleIntent(control.intent).prior_current = control.intent.prior_current
    BY DEF SettleIntent
  <2>3. saved'.request = saved.request /\ saved'.result = saved.result
        /\ saved'.intent = SettleIntent(control.intent)
    BY <1>0, <2>1 DEF Controls
  <2> QED
    BY <1>0, <2>1, <2>2, <2>3 DEF JournalKept, JournalStepCases
<1>5. CASE ExtendShrink \/ RejectExtend
  <2>1. PICK t : saved' = [control EXCEPT !.intent.target = t] /\ origin' = origin
    BY <1>5 DEF ExtendShrink, RejectExtend, save
  <2>2. control.intent # None
    BY <1>5 DEF ExtendShrink, WatchedShrink, HeldShrink, OwnedBy, Owned, RejectExtend,
       IInv, InCommand
  <2>3. control.intent \in Intents
    BY <1>0, <2>2 DEF Controls
  <2> QED
    BY <1>0, <2>1, <2>2, <2>3 DEF Controls, Intents, JournalKept, JournalStepCases
<1>6. CASE SettleTimeout \/ RejectSettle \/ HandleUnknown
  BY <1>0, <1>6, LatchCase
     DEF SettleTimeout, RejectSettle, HandleUnknown, save, JournalStepCases
<1>7. CASE ActRefuse \/ ActEmpty \/ ActCommand
  BY <1>7, ActCase
<1>8. CASE RejectResize
  <2>1. control.intent # None
    BY <1>8 DEF RejectResize, IInv, InCommand
  <2>2. control.request # None
    BY <1>0, <2>1 DEF OwnedIn
  <2> QED
    BY <1>0, <1>8, <2>2 DEF RejectResize, record_result, save, Controls, JournalUnmoved,
       JournalStepCases
<1>9. CASE ClearLatch
  BY <1>0, <1>9, ClearCase DEF ClearLatch, save
<1>10. CASE Start \/ Crash \/ World \/ (Operator /\ ~ClearLatch) \/ UNCHANGED vars
  <2>1. saved' = saved /\ origin' = origin
    BY <1>10 DEF Start, Crash, World, Operator, GuestPlug, GuestUnplug, DeviceReset,
       GuestPublish, LateApply, StallTick, Deadline, CliSettle, CliRetarget,
       ExternalResize, OperatorResume, vars
  <2> QED
    BY <1>1, <2>1
<1>11. CASE Pending
  BY <1>1, <1>4, <1>5, <1>6, <1>11 DEF Pending, PendingHold, PendingWatch,
     HoldFloorShrink, SettleStuckGrow, SettleLowShrink, SettleReachedShrink,
     SettleFloorShrink, StuckGrow, WatchedShrink, HeldShrink, OwnedBy
<1>12. CASE Sink
  BY <1>1, <1>5, <1>6, <1>8, <1>12 DEF Sink, SinkPass, RejectWiden, ApplyCommand,
     ApplyUnknown, WidenSuspend, WidenApply, WidenRestore, WidenResume, widenVars
<1>13. CASE SkipWiden \/ StartWiden \/ ReadNothing \/ ReadRequest
  BY <1>1, <1>13 DEF SkipWiden, StartWiden, ReadNothing, ReadRequest
<1> QED
  BY <1>2, <1>3, <1>7, <1>9, <1>10, <1>11, <1>12, <1>13 DEF Next, Daemon, Operator

-----------------------------------------------------------------------------
\* Results

\* A recorded command remembers the allocation its request was admitted at.
MeasuredFromOrigin == saved.intent # None => saved.intent.prior_current = origin

\* What ResultMeasuresMovement says of one step.
Measured ==
  /\ saved'.result # saved.result
  /\ saved'.result # None
  /\ saved'.result.outcome \in {"Completed", "Partial"}
  => saved'.result.actual = Moved(saved'.request, origin, current)

\* Extensions and settlements keep the start of the movement, so that whoever
\* ends the command measures from the admission.
LEMMA MeasuredStep ==
  ASSUME MeasuredFromOrigin, JournalStepCases
  PROVE  MeasuredFromOrigin' /\ Measured
<1>1. CASE JournalKept
  BY <1>1 DEF JournalKept, MeasuredFromOrigin, Measured
<1>2. CASE JournalLatched
  BY <1>2 DEF JournalLatched, MeasuredFromOrigin, Measured
<1>3. CASE JournalMeasured
  BY <1>3 DEF JournalMeasured, MeasuredFromOrigin, Measured
<1>4. CASE JournalUnmoved
  BY <1>4 DEF JournalUnmoved, MeasuredFromOrigin, Measured
<1>5. CASE JournalBegun
  BY <1>5 DEF JournalBegun, MeasuredFromOrigin, Measured
<1> QED
  BY <1>1, <1>2, <1>3, <1>4, <1>5 DEF JournalStepCases

\* A result that says a request ran measures the device's movement since that
\* request was admitted, whatever extensions, settlements, crashes, latches and
\* operator commands came between, under every fault.
THEOREM MovementMeasured == Spec => ResultMeasuresMovement
<1>1. Init => MeasuredFromOrigin
  BY DEF Init, MeasuredFromOrigin
<1>2. IInv /\ MeasuredFromOrigin /\ [Next]_vars => MeasuredFromOrigin'
  BY StepCases, MeasuredStep
<1>3. IInv /\ MeasuredFromOrigin /\ [Next]_vars =>
        [/\ saved'.result # saved.result
         /\ saved'.result # None
         /\ saved'.result.outcome \in {"Completed", "Partial"}
         => saved'.result.actual = Moved(saved'.request, origin, current)]_vars
  BY StepCases, MeasuredStep DEF Measured
<1> QED
  BY Invariant, <1>1, <1>2, <1>3, PTL DEF Spec, ResultMeasuresMovement

\* The result in the checkpoint satisfies the contract its readers check.
ResultValid ==
  saved.result # None => saved.request # None /\ ValidResult(saved.result, saved.request)

\* What was moved never exceeds what was asked.
LEMMA MovedBound ==
  ASSUME NEW r \in Requests, NEW from \in Blocks, NEW to \in Blocks
  PROVE  Moved(r, from, to) <= r.bytes
  BY DEF Moved, least, saturating_sub, Requests, Blocks

\* Each way of writing the journal writes a valid result.
LEMMA ResultStep ==
  ASSUME TypeOK, TypeOK', ResultValid, JournalStepCases
  PROVE  ResultValid'
<1>1. CASE JournalKept
  BY <1>1 DEF JournalKept, ResultValid
<1>2. saved'.request # None => saved'.request.bytes \in Nat \ {0}
  BY DEF TypeOK, Controls, Requests
<1>3. CASE JournalLatched
  <2>1. CASE saved'.result = saved.result
    BY <1>3, <2>1 DEF JournalLatched, ResultValid
  <2>2. CASE saved'.result # saved.result
    <3>1. /\ saved'.result = [outcome |-> "Uncertain", actual |-> 0]
          /\ saved'.request # None
      BY <1>3, <2>2 DEF JournalLatched
    <3> QED
      BY <1>2, <3>1 DEF ResultValid, ValidResult
  <2> QED
    BY <2>1, <2>2
<1>4. CASE JournalMeasured
  <2> DEFINE moved == Moved(saved.request, saved.intent.prior_current, current)
  <2>1. /\ saved.request \in Requests /\ saved.intent.prior_current \in Blocks
        /\ current \in Blocks
    BY <1>4 DEF JournalMeasured, TypeOK, Controls, Intents
  <2>2. moved <= saved.request.bytes /\ moved \in Blocks
    BY <2>1, MovedBound, MovedType
  <2>3. /\ saved'.request = saved.request /\ saved.request # None
        /\ saved'.result =
             [outcome |-> IF moved = saved.request.bytes THEN "Completed" ELSE "Partial",
              actual |-> moved]
    BY <1>4 DEF JournalMeasured
  <2> HIDE DEF moved
  <2>4. ValidResult(saved'.result, saved'.request)
    BY <1>2, <2>2, <2>3 DEF ValidResult, Blocks
  <2> QED
    BY <2>3, <2>4 DEF ResultValid
<1>5. CASE JournalUnmoved
  <2>1. ValidResult(saved'.result, saved'.request)
    BY <1>2, <1>5 DEF JournalUnmoved, ValidResult
  <2> QED
    BY <1>5, <2>1 DEF JournalUnmoved, ResultValid
<1>6. CASE JournalBegun
  BY <1>6 DEF JournalBegun, ResultValid
<1> QED
  BY <1>1, <1>3, <1>4, <1>5, <1>6 DEF JournalStepCases

\* With a valid journal the status joined with any live state is valid.
LEMMA SnapshotValid ==
  ASSUME TypeOK, ResultValid, NEW live \in States, NEW changed \in BOOLEAN
  PROVE  Valid(read_controller_status(saved, live, changed))
<1> DEFINE own == command_ownership(saved.intent, live)
           s == read_controller_status(saved, live, changed)
<1>1. /\ s.live = live /\ s.request = saved.request /\ s.result = saved.result
      /\ s.ownership = own /\ s.command = saved.intent
  BY DEF read_controller_status, shown_command
<1>2. /\ saved.intent # None <=> own \in {"OwnedPending", "OwnedConvergedUnresolved",
                                          "RecordedNotApplied", "Conflict"}
      /\ own = "None" => live.requested = live.current
      /\ own = "UnownedPending" => live.requested # live.current
  BY DEF command_ownership
<1> HIDE DEF own, s
<1> QED
  BY <1>1, <1>2 DEF Valid, ResultValid, s

\* A status that asks for no review is right: the next poll will not latch, and a
\* divergence it finds is one it follows.
LEMMA SnapshotRight ==
  ASSUME TypeOK, ~read_controller_status(saved, Live, FALSE).review
  PROVE  /\ ~resolve_intent(saved, Live).latched
         /\ requested # current =>
              /\ saved.intent # None
              /\ read_controller_status(saved, Live, FALSE).health # "Converged"
<1> DEFINE own == command_ownership(saved.intent, Live)
           review == recovery_reason(saved, FALSE, own)
           s == read_controller_status(saved, Live, FALSE)
<1>1. s.review = review /\ s.health = control_health(saved, review, own)
  BY DEF read_controller_status
<1>2. ~review
  BY <1>1
<1>3. ~saved.latched /\ own \in {"None", "OwnedPending"}
  BY <1>2 DEF recovery_reason
<1>4. resolve_intent(saved, Live) = saved
  BY <1>3 DEF resolve_intent
<1>5. requested # current => saved.intent # None /\ own = "OwnedPending"
  BY <1>3 DEF command_ownership, Live
<1> HIDE DEF own, review, s
<1>6. own = "OwnedPending" => control_health(saved, review, own) # "Converged"
  BY <1>2, <1>3 DEF control_health
<1> QED
  BY <1>1, <1>3, <1>4, <1>5, <1>6 DEF s

\* The operator can always read a valid status, under every fault and with a device
\* read at another moment than the checkpoint; and one that asks for no review means
\* that the daemon's next poll follows the device without latching.
THEOREM StatusAlwaysTruthful == Spec => []StatusTruthful
<1>1. Init => ResultValid
  BY DEF Init, ResultValid
<1>2. IInv /\ ResultValid /\ [Next]_vars => ResultValid'
  BY NextInvariant, StepCases, ResultStep DEF IInv
<1>3. IInv /\ ResultValid => StatusTruthful
  BY SnapshotValid, SnapshotRight DEF IInv, StatusTruthful
<1> QED
  BY Invariant, <1>1, <1>2, <1>3, PTL DEF Spec

-----------------------------------------------------------------------------
\* The device while the controller works

\* Nobody but the daemon and clear-latch retargets the device, a timed-out command
\* is applied at once or never, and the VM is not reset.
Undisturbed == Faults \cap {"external", "late", "reset"} = {}

\* Between the live read and the sink's guard the device's request is the one read,
\* and the allocation moves from what was read towards it; a poll that found the
\* device at rest still finds it so.
SameTarget ==
  pc \in {"pending", "converged", "act", "check", "suspend", "resume"} =>
    requested = seen.requested
Towards ==
  pc = "pending" \/ (pc = "check" /\ cmd.kind \in {"settle", "extend"}) =>
    \/ seen.current <= current /\ current <= seen.requested
    \/ seen.requested <= current /\ current <= seen.current
AtRest ==
  \/ pc \in {"converged", "act", "suspend", "widen", "restore", "resume"}
  \/ pc = "check" /\ cmd.kind \in {"resize", "widen"}
  => seen.requested = seen.current /\ current = seen.current

\* The request is away from its place only while the guest cannot follow it.
PausedWidening == pc \in {"widen", "restore"} => paused
LatchedCli == pc = "cli" => saved.latched
Steady ==
  inflight = None /\ SameTarget /\ Towards /\ AtRest /\ PausedWidening /\ LatchedCli

Owner(c) == c.intent # None \/ c.latched
OwnedDivergence == requested # current => Owner(saved) \/ paused

\* The poll's and the operator's places at which nothing is claimed of what was seen.
Restful == {"down", "poll", "stopped", "apply", "unknown"}

\* The guest moves towards the request, and only if it runs.
LEMMA SteadyWorld ==
  ASSUME Undisturbed, TypeOK, Steady, World \/ UNCHANGED vars
  PROVE  Steady'
<1> USE DEF Steady, SameTarget, Towards, AtRest, PausedWidening, LatchedCli,
            controlVars, frameVars, deviceVars
<1>1. /\ requested \in Int /\ current \in Int
      /\ seen.requested \in Int /\ seen.current \in Int
  BY DEF TypeOK, States, Blocks
<1>2. CASE GuestPlug
  BY <1>1, <1>2 DEF GuestPlug
<1>3. CASE GuestUnplug
  BY <1>1, <1>3 DEF GuestUnplug
<1>4. ~DeviceReset /\ ~LateApply
  BY DEF DeviceReset, LateApply, Undisturbed
<1>5. CASE GuestPublish \/ StallTick \/ Deadline \/ UNCHANGED vars
  BY <1>5 DEF GuestPublish, StallTick, Deadline, vars
<1> QED
  BY <1>2, <1>3, <1>4, <1>5 DEF World

\* The process, the operator and the polls.
LEMMA SteadyProcess ==
  ASSUME Undisturbed, TypeOK, Steady, Start \/ Crash \/ Operator
  PROVE  Steady'
<1> USE DEF Steady, SameTarget, Towards, AtRest, PausedWidening, LatchedCli,
            controlVars, frameVars, deviceVars
<1>1. CASE Start \/ Crash \/ CliRetarget \/ ClearLatch
  BY <1>1 DEF Start, Crash, CliRetarget, ClearLatch, Return
<1>2. CASE CliSettle
  BY <1>2 DEF CliSettle
<1>3. ~ExternalResize /\ ~OperatorResume
  BY DEF ExternalResize, OperatorResume, Undisturbed
<1> QED
  BY <1>1, <1>2, <1>3 DEF Operator

\* A poll that ends claims nothing any more.
LEMMA SteadyReturn ==
  ASSUME Steady, pc' \in Restful, inflight' = inflight
  PROVE  Steady'
  BY DEF Steady, SameTarget, Towards, AtRest, PausedWidening, LatchedCli, Restful

\* The daemon up to the sink.
LEMMA SteadyPoll ==
  ASSUME TypeOK, Steady,
         \/ ObserveUnreadable \/ ObserveLive \/ Pending
         \/ SkipWiden \/ StartWiden \/ ReadNothing \/ ReadRequest
         \/ ActRefuse \/ ActEmpty \/ ActCommand
  PROVE  Steady'
<1> USE DEF deviceVars, frameVars
<1>1. CASE ObserveUnreadable \/ PendingHold \/ PendingWatch \/ HoldFloorShrink
           \/ SettleTimeout \/ ReadNothing \/ ActRefuse \/ ActEmpty
  <2>1. pc' \in Restful /\ inflight' = inflight
    BY <1>1 DEF ObserveUnreadable, PendingHold, PendingWatch, HoldFloorShrink,
       SettleTimeout, ReadNothing, ActRefuse, ActEmpty, Return, Restful
  <2> QED
    BY <2>1, SteadyReturn
<1> USE DEF Steady, SameTarget, Towards, AtRest, PausedWidening, LatchedCli
<1>2. CASE ObserveLive
  <2>1. /\ seen' = [requested |-> requested, current |-> current]
        /\ pc' = IF requested = current THEN "converged" ELSE "pending"
        /\ requested' = requested /\ current' = current /\ inflight' = inflight
    BY <1>2 DEF ObserveLive, Live
  <2>2. requested \in Int /\ current \in Int
    BY DEF TypeOK, Blocks
  <2> QED
    BY <2>1, <2>2
<1>3. CASE pc = "pending" /\ settle_short
  BY <1>3 DEF settle_short, Command
<1>4. CASE ExtendShrink
  BY <1>4 DEF ExtendShrink, Command
<1>5. CASE SkipWiden \/ StartWiden
  BY <1>5 DEF SkipWiden, StartWiden, Command
<1>6. CASE ReadRequest
  <2>1. pc = "converged" /\ requested' = requested /\ current' = current
        /\ inflight' = inflight
    BY <1>6 DEF ReadRequest, Converged
  <2>2. pc' = "poll" \/ (pc' = "act" /\ seen' = seen)
    BY <1>6 DEF ReadRequest, Return
  <2> QED
    BY <2>1, <2>2
<1>7. CASE ActCommand
  BY <1>7 DEF ActCommand, Command
<1> QED
  BY <1>1, <1>2, <1>3, <1>4, <1>5, <1>6, <1>7
     DEF Pending, SettleStuckGrow, SettleLowShrink, SettleReachedShrink,
         SettleFloorShrink

\* The sink and the widening.
LEMMA SteadySink ==
  ASSUME Undisturbed, TypeOK, Steady, Sink
  PROVE  Steady'
<1> USE DEF deviceVars, widenVars
<1>1. CASE RejectResize \/ RejectSettle \/ RejectExtend \/ ApplyCommand \/ HandleUnknown
  <2>1. pc' \in Restful /\ inflight' = inflight
    BY <1>1 DEF RejectResize, RejectSettle, RejectExtend, ApplyCommand, HandleUnknown,
       Return, Restful
  <2> QED
    BY <2>1, SteadyReturn
<1>2. CASE ApplyUnknown
  <2>1. pc' \in Restful /\ inflight' = inflight
    BY <1>2 DEF ApplyUnknown, Undisturbed, Restful
  <2> QED
    BY <2>1, SteadyReturn
<1> USE DEF Steady, SameTarget, Towards, AtRest, PausedWidening, LatchedCli
<1>3. CASE SinkPass
  BY <1>3 DEF SinkPass, Live
<1>4. CASE RejectWiden
  BY <1>4 DEF RejectWiden
<1>5. CASE WidenSuspend
  <2>1. (pc' = "converged" \/ (pc' = "widen" /\ paused')) /\ pc = "suspend"
    BY <1>5, Zenon DEF WidenSuspend
  <2> QED
    BY <1>5, <2>1 DEF WidenSuspend
<1>6. CASE WidenApply
  BY <1>6 DEF WidenApply
<1>7. CASE WidenRestore
  <2>1. pc' = "unknown" \/ (pc' = "resume" /\ requested' = seen.requested)
    BY <1>7 DEF WidenRestore
  <2> QED
    BY <1>7, <2>1 DEF WidenRestore
<1>8. CASE WidenResume
  <2>1. pc' \in {"unknown", "converged"}
    BY <1>8 DEF WidenResume
  <2> QED
    BY <1>8, <2>1 DEF WidenResume
<1> QED
  BY <1>1, <1>2, <1>3, <1>4, <1>5, <1>6, <1>7, <1>8 DEF Sink

\* Every step keeps what the poll knows of the device.
LEMMA SteadyStep ==
  ASSUME Undisturbed, TypeOK, Steady, [Next]_vars
  PROVE  Steady'
  BY SteadyWorld, SteadyProcess, SteadyPoll, SteadySink DEF Next, Daemon

\* A command or a latch is forgotten only when the device is where it was asked to be.
LEMMA OwnerStep ==
  ASSUME IInv, Steady, [Next]_vars, Owner(saved), requested # current
  PROVE  Owner(saved')
<1> USE DEF controlVars
<1>0. control = saved /\ control \in Controls
  BY DEF IInv, Synced, TypeOK
<1>1. CASE saved' = saved
  BY <1>1
<1>2. CASE saved' = latch(control)
  BY <1>0, <1>2, LatchFacts DEF Owner
<1>3. CASE ObserveLive
  <2>1. saved' = resolve_intent(control, Live)
    BY <1>3 DEF ObserveLive, save
  <2>2. command_ownership(control.intent, Live) # "OwnedConvergedUnresolved"
    BY DEF command_ownership, Live
  <2>3. saved' = latch(control) \/ saved' = saved
    BY <1>0, <2>1, <2>2 DEF resolve_intent
  <2> QED
    BY <1>1, <1>2, <2>3
<1>4. CASE settle_short \/ ExtendShrink \/ RejectExtend
  <2>1. PICK i : saved' = [control EXCEPT !.intent = i] /\ (control.intent # None => i # None)
    <3>1. CASE settle_short
      <4>1. saved' = [control EXCEPT !.intent = SettleIntent(control.intent)]
        BY <3>1 DEF settle_short, save
      <4>2. control.intent # None => SettleIntent(control.intent) # None
        <5>1. control.intent # None => control.intent \in Intents
          BY <1>0 DEF Controls
        <5>2. seen \in States
          BY DEF IInv, TypeOK
        <5> QED
          BY <5>1, <5>2 DEF SettleIntent, SettleDirection, Intents, States, Directions
      <4> QED
        BY <4>1, <4>2
    <3>2. CASE ExtendShrink \/ RejectExtend
      <4>1. PICK t \in Blocks : saved' = [control EXCEPT !.intent.target = t]
        <5>1. CASE ExtendShrink
          <6>1. ExtensionTarget \in Blocks
            BY <5>1, ExtensionType DEF IInv, ExtendShrink, WatchedShrink, HeldShrink,
               OwnedBy
          <6> QED
            BY <5>1, <6>1 DEF ExtendShrink, save
        <5>2. CASE RejectExtend
          BY <5>2 DEF RejectExtend, save, IInv, TypeOK, States
        <5> QED
          BY <3>2, <5>1, <5>2
      <4>2. control.intent # None => [control.intent EXCEPT !.target = t] \in Intents
        BY <1>0 DEF Controls, Intents
      <4> QED
        BY <4>1, <4>2
    <3> QED
      BY <1>4, <3>1, <3>2
  <2>2. saved'.intent = i /\ saved'.latched = saved.latched
    BY <1>0, <2>1 DEF Controls
  <2> QED
    BY <1>0, <2>1, <2>2 DEF Owner
<1>5. ~ActRefuse /\ ~ActEmpty /\ ~ActCommand /\ ~RejectResize
  BY DEF ActRefuse, ActEmpty, ActCommand, RejectResize, Steady, AtRest, SameTarget
<1>6. ~ClearLatch
  BY DEF ClearLatch
<1>7. CASE ObserveUnreadable \/ SettleTimeout \/ RejectSettle \/ HandleUnknown
  BY <1>0, <1>1, <1>2, <1>7 DEF ObserveUnreadable, SettleTimeout, RejectSettle,
     HandleUnknown, save
<1>8. CASE Start \/ Crash \/ World \/ Operator \/ UNCHANGED vars
  BY <1>1, <1>6, <1>8 DEF Start, Crash, World, Operator, GuestPlug, GuestUnplug,
     DeviceReset, GuestPublish, LateApply, StallTick, Deadline, CliSettle, CliRetarget,
     ExternalResize, OperatorResume, vars
<1>9. CASE Pending
  BY <1>1, <1>4, <1>7, <1>9 DEF Pending, PendingHold, PendingWatch, HoldFloorShrink,
     SettleStuckGrow, SettleLowShrink, SettleReachedShrink, SettleFloorShrink
<1>10. CASE Sink
  BY <1>1, <1>4, <1>5, <1>7, <1>10 DEF Sink, SinkPass, RejectWiden, ApplyCommand,
     ApplyUnknown, WidenSuspend, WidenApply, WidenRestore, WidenResume, widenVars
<1>11. CASE SkipWiden \/ StartWiden \/ ReadNothing \/ ReadRequest
  BY <1>1, <1>11 DEF SkipWiden, StartWiden, ReadNothing, ReadRequest
<1> QED
  BY <1>3, <1>5, <1>7, <1>8, <1>9, <1>10, <1>11 DEF Next, Daemon

\* A device at rest is only disturbed by a recorded command, by the operator's retarget
\* under a latch, or by the widening of a paused domain.
LEMMA DisturbStep ==
  ASSUME Undisturbed, IInv, Steady, [Next]_vars, requested = current,
         requested' # current'
  PROVE  Owner(saved') \/ paused'
<1> USE DEF controlVars, deviceVars
<1>1. CASE ApplyCommand \/ ApplyUnknown
  <2>1. pc = "apply" /\ saved' = saved
    BY <1>1 DEF ApplyCommand, ApplyUnknown
  <2>2. saved.intent # None
    BY <2>1 DEF IInv, Synced, InCommand
  <2> QED
    BY <2>1, <2>2 DEF Owner
<1>2. CASE CliRetarget
  BY <1>2 DEF CliRetarget, Steady, LatchedCli, Owner
<1>3. CASE WidenApply \/ WidenRestore
  BY <1>3 DEF WidenApply, WidenRestore, Steady, PausedWidening
<1>4. CASE World
  BY <1>4, SteadyWorld DEF World, GuestPlug, GuestUnplug, DeviceReset, GuestPublish,
     LateApply, StallTick, Deadline, Undisturbed, Steady, IInv, TypeOK, Blocks
<1>5. CASE UNCHANGED <<requested, current>>
  BY <1>5
<1>6. CASE Operator
  BY <1>2, <1>5, <1>6 DEF Operator, CliSettle, ClearLatch, OperatorResume,
     ExternalResize, Undisturbed
<1>7. CASE Pending
  BY <1>5, <1>7 DEF Pending, PendingHold, PendingWatch, HoldFloorShrink,
     SettleStuckGrow, SettleLowShrink, SettleReachedShrink, SettleFloorShrink,
     settle_short, ExtendShrink, SettleTimeout
<1>8. CASE Sink
  BY <1>1, <1>3, <1>5, <1>8 DEF Sink, SinkPass, RejectResize, RejectSettle, RejectExtend,
     RejectWiden, HandleUnknown, WidenSuspend, WidenResume, widenVars
<1> QED
  BY <1>4, <1>5, <1>6, <1>7, <1>8 DEF Next, Daemon, Start, Crash, ObserveUnreadable,
     ObserveLive, SkipWiden, StartWiden, ReadNothing, ReadRequest, ActRefuse, ActEmpty,
     ActCommand, vars

\* The domain is resumed only when the widening has restored the request.
LEMMA ResumeStep ==
  ASSUME Undisturbed, Steady, [Next]_vars, paused, requested # current
  PROVE  paused'
<1> USE DEF deviceVars
<1>1. ~WidenResume /\ ~OperatorResume
  BY DEF WidenResume, Steady, AtRest, SameTarget, OperatorResume, Undisturbed
<1>2. CASE WidenSuspend
  BY <1>2, Zenon DEF WidenSuspend
<1>3. CASE paused' = paused
  BY <1>3
<1>4. CASE Operator
  BY <1>1, <1>3, <1>4 DEF Operator, CliSettle, CliRetarget, ClearLatch, ExternalResize
<1>5. CASE World
  BY <1>3, <1>5 DEF World, GuestPlug, GuestUnplug, DeviceReset, GuestPublish, LateApply,
     StallTick, Deadline
<1>6. CASE Pending
  BY <1>3, <1>6 DEF Pending, PendingHold, PendingWatch, HoldFloorShrink,
     SettleStuckGrow, SettleLowShrink, SettleReachedShrink, SettleFloorShrink,
     settle_short, ExtendShrink, SettleTimeout
<1>7. CASE Sink
  BY <1>1, <1>2, <1>3, <1>7 DEF Sink, SinkPass, RejectResize, RejectSettle, RejectExtend,
     RejectWiden, HandleUnknown, ApplyCommand, ApplyUnknown, WidenApply, WidenRestore
<1> QED
  BY <1>3, <1>4, <1>5, <1>6, <1>7 DEF Next, Daemon, Start, Crash, ObserveUnreadable,
     ObserveLive, SkipWiden, StartWiden, ReadNothing, ReadRequest, ActRefuse, ActEmpty,
     ActCommand, vars

\* A device that nobody but the controller and its operator command retargets is never
\* left away from its request without an owner: a recorded command, a latch, or a
\* widening cut short with the domain still paused.  It holds at every moment, and so
\* wherever a poll ends, a process dies or one starts.
THEOREM DivergenceAlwaysOwned == Undisturbed /\ Spec => []DivergenceOwned
<1>1. Init => Steady /\ OwnedDivergence
  BY DEF Init, Steady, SameTarget, Towards, AtRest, PausedWidening, LatchedCli,
     OwnedDivergence, NoCommand
<1>2. IInv /\ Steady /\ Undisturbed /\ [Next]_vars => Steady'
  BY SteadyStep DEF IInv
<1>3. IInv /\ Steady /\ OwnedDivergence /\ Undisturbed /\ [Next]_vars => OwnedDivergence'
  BY OwnerStep, DisturbStep, ResumeStep DEF OwnedDivergence
<1>4. OwnedDivergence => DivergenceOwned
  BY DEF OwnedDivergence, Owner, DivergenceOwned
<1> SUFFICES ASSUME Undisturbed PROVE Spec => []DivergenceOwned
  OBVIOUS
<1>5. IInv /\ Steady /\ [Next]_vars => Steady'
  BY <1>2
<1>6. IInv /\ Steady /\ OwnedDivergence /\ [Next]_vars => OwnedDivergence'
  BY <1>3
<1> QED
  BY Invariant, <1>1, <1>4, <1>5, <1>6, PTL DEF Spec

-----------------------------------------------------------------------------
\* The VM's limits

\* The guest publishes its RAM when the device's allocation changes.
Prompt == "stale" \notin Faults

\* What the guest publishes is the RAM it has.
Fresh == total = BaseRam + current

\* The recorded command asks for a size within the VM's limits.
WithinLimit(target) ==
  IF saved.intent.direction = "Shrink" THEN target >= saturating_sub(MinRam, BaseRam)
                                       ELSE target <= saturating_sub(MaxRam, BaseRam)

\* A poll that acts knows the RAM outside the device; a command at the sink's guard is
\* within the limits, or the device has moved and the guard will refuse it.
Bounded ==
  /\ pc = "act" => ready.base = BaseRam
  /\ cmd.kind \in {"resize", "extend"} =>
       /\ pc = "check" => WithinLimit(cmd.target) \/ current # seen.current
       /\ pc = "apply" => WithinLimit(cmd.target)

\* The guest's figure follows the device.
LEMMA FreshStep ==
  ASSUME Prompt, TypeOK, Fresh, [Next]_vars
  PROVE  Fresh'
<1> USE DEF deviceVars, guestVars, Fresh
<1>1. CASE UNCHANGED <<total, current>>
  BY <1>1
<1>2. CASE World
  BY <1>2 DEF World, GuestPlug, GuestUnplug, DeviceReset, GuestPublish, LateApply,
     StallTick, Deadline, Telemetry, Prompt
<1>3. CASE Pending
  BY <1>1, <1>3 DEF Pending, PendingHold, PendingWatch, HoldFloorShrink,
     SettleStuckGrow, SettleLowShrink, SettleReachedShrink, SettleFloorShrink,
     settle_short, ExtendShrink, SettleTimeout
<1>4. CASE Sink
  BY <1>1, <1>4 DEF Sink, SinkPass, RejectResize, RejectSettle, RejectExtend,
     RejectWiden, HandleUnknown, ApplyCommand, ApplyUnknown, WidenSuspend, WidenApply,
     WidenRestore, WidenResume, widenVars
<1>5. CASE Operator
  BY <1>1, <1>5 DEF Operator, CliSettle, CliRetarget, ClearLatch, ExternalResize,
     OperatorResume
<1> QED
  BY <1>1, <1>2, <1>3, <1>4, <1>5 DEF Next, Daemon, Start, Crash, ObserveUnreadable,
     ObserveLive, SkipWiden, StartWiden, ReadNothing, ReadRequest, ActRefuse, ActEmpty,
     ActCommand, vars

\* A grant keeps the VM's RAM within its limits.
LEMMA GrantWithin ==
  ASSUME TypeOK, ready # None, ready.base = BaseRam, NEW room \in Blocks,
         Grant(room) > 0
  PROVE  /\ ready.request.op = "Add" =>
              seen.current + Grant(room) <= saturating_sub(MaxRam, BaseRam)
         /\ ready.request.op # "Add" =>
              seen.current - Grant(room) >= saturating_sub(MinRam, BaseRam)
  BY DEF TypeOK, Readies, Requests, States, Blocks, Grant, least, saturating_sub

\* act's command.
LEMMA BoundedCommand ==
  ASSUME IInv, Bounded, ActCommand
  PROVE  Bounded'
<1>1. /\ ready # None /\ ready.base = BaseRam /\ pc' = "check"
      /\ control \in Controls /\ ~ready.replay
  BY DEF ActCommand, IInv, AtAct, Bounded, TypeOK
<1> DEFINE add == ready.request.op = "Add"
           Target(g) == IF add THEN seen.current + g ELSE seen.current - g
           Recorded(t) == [direction |-> IF add THEN "Grow" ELSE "Shrink",
                           prior_requested |-> seen.requested,
                           prior_current |-> seen.current,
                           target |-> t]
<1>2. PICK room \in Blocks :
        /\ Grant(room) > 0
        /\ saved' = [AtBoundary EXCEPT !.intent = Recorded(Target(Grant(room)))]
        /\ cmd' = Command("resize", Target(Grant(room)))
  BY DEF ActCommand, save
<1>3. AtBoundary \in Controls
  BY <1>1 DEF AtBoundary, Admitted, Controls, Readies, IInv, TypeOK
<1> DEFINE t == Target(Grant(room))
<1>4. IF add THEN t <= saturating_sub(MaxRam, BaseRam)
             ELSE t >= saturating_sub(MinRam, BaseRam)
  BY <1>1, <1>2, GrantWithin DEF IInv
<1>5. cmd'.kind = "resize" /\ cmd'.target = t /\ saved'.intent = Recorded(t)
  BY <1>2, <1>3 DEF Command, Controls
<1>6. saved'.intent.direction = IF add THEN "Grow" ELSE "Shrink"
  BY <1>5
<1> HIDE DEF t
<1> QED
  BY <1>1, <1>4, <1>5, <1>6 DEF Bounded, WithinLimit

\* An extension's target never leaves the guest less than min_ram, unless the device
\* grew after it was read.
LEMMA BoundedExtension ==
  ASSUME IInv, Steady, Fresh, ExtendShrink
  PROVE  Bounded'
<1>1. /\ pc = "pending" /\ pc' = "check" /\ seen' = seen /\ current' = current
      /\ Owned /\ control.intent.direction = "Shrink" /\ total >= seen.current
      /\ seen.current > Goal /\ CanExtend
      /\ saved' = [control EXCEPT !.intent.target = ExtensionTarget]
      /\ cmd' = Command("extend", ExtensionTarget)
  BY DEF ExtendShrink, WatchedShrink, HeldShrink, OwnedBy, deviceVars, save
<1>2. /\ current \in Blocks /\ seen \in States /\ control \in Controls
      /\ control.intent \in Intents
  BY <1>1 DEF IInv, TypeOK, Owned, Controls
<1>3. ExtensionStep \in Nat
  BY <1>1, ExtensionType DEF IInv
<1>4. current <= seen.current \/ current # seen.current
  BY <1>2 DEF States, Blocks
<1>5. current <= seen.current => Floor >= saturating_sub(MinRam, BaseRam)
  BY <1>2 DEF Fresh, Floor, SeenBase, saturating_sub, States, Blocks
<1>6. SeenBase \in Nat /\ Floor \in Nat
  BY <1>1, <1>2 DEF Fresh, SeenBase, Floor, saturating_sub, States, Blocks
<1> HIDE DEF Floor, ExtensionStep
<1>7. ExtensionTarget >= Floor /\ ExtensionTarget \in Nat
  BY <1>2, <1>3, <1>6 DEF ExtensionTarget, greatest, saturating_sub, States, Blocks
<1> DEFINE t == ExtensionTarget
<1>8. current # seen.current \/ t >= saturating_sub(MinRam, BaseRam)
  BY <1>4, <1>5, <1>6, <1>7 DEF saturating_sub
<1>9. saved' = [control EXCEPT !.intent.target = t] /\ cmd' = Command("extend", t)
  BY <1>1
<1> HIDE DEF t
<1>10. /\ saved'.intent.direction = "Shrink" /\ cmd'.kind = "extend" /\ cmd'.target = t
  BY <1>1, <1>2, <1>9 DEF Command, Controls, Intents
<1> QED
  BY <1>1, <1>8, <1>10 DEF Bounded, WithinLimit

\* A command the device has moved away from is never within reach again.
LEMMA BoundedWorld ==
  ASSUME Undisturbed, TypeOK, Steady, Bounded, World \/ UNCHANGED vars
  PROVE  Bounded'
<1> USE DEF controlVars, frameVars, deviceVars
<1>1. /\ requested \in Int /\ current \in Int
      /\ seen.requested \in Int /\ seen.current \in Int /\ cmd \in Commands
  BY DEF TypeOK, States, Blocks
<1>2. pc' = pc /\ ready' = ready /\ cmd' = cmd /\ saved' = saved /\ seen' = seen
  BY DEF World, GuestPlug, GuestUnplug, DeviceReset, GuestPublish, LateApply, StallTick,
     Deadline, vars
<1>3. CASE current' = current
  BY <1>2, <1>3 DEF Bounded, WithinLimit
<1>4. CASE GuestPlug \/ GuestUnplug
  <2>1. pc = "check" /\ cmd.kind \in {"resize", "extend"} => current' # seen.current
    BY <1>1, <1>4 DEF GuestPlug, GuestUnplug, Steady, SameTarget, Towards, AtRest
  <2> QED
    BY <1>2, <2>1 DEF Bounded, WithinLimit
<1> QED
  BY <1>3, <1>4 DEF World, DeviceReset, GuestPublish, LateApply, StallTick, Deadline, vars,
     Undisturbed

\* Every step keeps the commands within the limits.
LEMMA BoundedStep ==
  ASSUME Undisturbed, IInv, Steady, Fresh, Bounded, [Next]_vars
  PROVE  Bounded'
<1> USE DEF controlVars, frameVars, deviceVars
<1>1. CASE pc' \notin {"act", "check", "apply"}
  BY <1>1 DEF Bounded
<1>2. CASE World \/ UNCHANGED vars
  BY <1>2, BoundedWorld DEF IInv
<1>3. CASE ReadRequest
  <2>1. total - seen.current = BaseRam
    BY <1>3 DEF ReadRequest, Converged, Steady, AtRest, Fresh, IInv, TypeOK, Blocks
  <2>2. pc' = "poll" \/ (pc' = "act" /\ ready'.base = SeenBase)
    BY <1>3 DEF ReadRequest, Return
  <2> QED
    BY <1>1, <2>1, <2>2 DEF Bounded, SeenBase
<1>4. CASE ActCommand
  BY <1>4, BoundedCommand
<1>5. CASE ExtendShrink
  BY <1>5, BoundedExtension
<1>6. CASE settle_short \/ StartWiden
  BY <1>6 DEF settle_short, StartWiden, Command, Bounded
<1>7. CASE SinkPass
  BY <1>7 DEF SinkPass, Live, Bounded, WithinLimit
<1>8. CASE ExternalResize \/ OperatorResume
  BY <1>8 DEF ExternalResize, OperatorResume, Undisturbed
<1>9. CASE ObserveUnreadable \/ ObserveLive \/ SkipWiden
  BY <1>1, <1>9 DEF ObserveUnreadable, ObserveLive, SkipWiden, Converged
<1>10. CASE ClearLatch
  BY <1>1, <1>10 DEF ClearLatch
<1>11. CASE Pending
  BY <1>1, <1>5, <1>6, <1>11 DEF Pending, PendingHold, PendingWatch, HoldFloorShrink,
     SettleStuckGrow, SettleLowShrink, SettleReachedShrink, SettleFloorShrink,
     SettleTimeout, Return
<1>12. CASE Sink
  BY <1>1, <1>7, <1>12 DEF Sink, RejectResize, RejectSettle, RejectExtend, RejectWiden,
     HandleUnknown, ApplyCommand, ApplyUnknown, WidenSuspend, WidenApply, WidenRestore,
     WidenResume, Return
<1> QED
  BY <1>1, <1>2, <1>3, <1>4, <1>6, <1>8, <1>9, <1>10, <1>11, <1>12
     DEF Next, Daemon, Operator, Start, Crash, CliSettle, CliRetarget, ReadNothing,
         ActRefuse, ActEmpty, Return

\* A resize or an extension that reaches libvirt keeps the guest between min_ram and
\* max_ram of the RAM it really has, although the figure was read two steps earlier: the
\* sink's guard refuses whatever the device moved away from meanwhile.
THEOREM LimitsRespected == Undisturbed /\ Prompt /\ Spec => []WithinLimits
<1> SUFFICES ASSUME Undisturbed, Prompt PROVE Spec => []WithinLimits
  OBVIOUS
<1>1. Init => Steady /\ Fresh /\ Bounded
  BY DEF Init, Steady, SameTarget, Towards, AtRest, PausedWidening, LatchedCli, Fresh,
     Bounded, NoCommand
<1>2. IInv /\ Steady /\ [Next]_vars => Steady'
  BY SteadyStep DEF IInv
<1>3. IInv /\ Fresh /\ [Next]_vars => Fresh'
  BY FreshStep DEF IInv
<1>4. IInv /\ Steady /\ Fresh /\ Bounded /\ [Next]_vars => Bounded'
  BY BoundedStep
<1>5. Bounded => WithinLimits
  BY DEF Bounded, WithinLimits, WithinLimit
<1> QED
  BY Invariant, <1>1, <1>2, <1>3, <1>4, <1>5, PTL DEF Spec

-----------------------------------------------------------------------------
\* The refinement of RequestHost

USE NoOutcomeAssumption

Outcome(c) == IF c.result = None THEN None ELSE c.result.outcome
Shown(s) == IF s = None THEN None ELSE [request |-> s.request, outcome |-> s.outcome]
Hand == IF pc = "act" THEN ready.request ELSE None

\* The journal, the command and the latch stay.
Unrecorded ==
  /\ saved'.request = saved.request /\ Outcome(saved') = Outcome(saved)
  /\ (saved'.intent # None) = (saved.intent # None)
  /\ saved'.latched = saved.latched
  /\ slot' = slot

\* A step of the abstract host or of its guest, or none.
Mapped == [Promise!Next]_<<slot, Promise!hostVars>>

\* What publish writes is what the abstract host reports.
LEMMA ReportShown ==
  ASSUME NEW c \in Controls
  PROVE  Shown(JournalReport(c)) = Promise!Reported(c.request, Outcome(c))
<1>1. c.result # None => c.result.outcome # None
  BY DEF Controls, Results
<1> QED
  BY <1>1 DEF JournalReport, Shown, Promise!Reported, Outcome, Controls, Reports, Results

\* The same of a refusal.
LEMMA RefusalShown ==
  ASSUME NEW r \in Requests
  PROVE  Shown(Refusal(r)) = Promise!Reported(r, "Rejected")
<1>1. Refusal(r) \in Reports /\ Refusal(r) # None
  BY DEF Refusal, Reports, Outcomes, Blocks
<1>2. r # None /\ "Rejected" # None
  BY DEF Outcomes
<1> QED
  BY <1>1, <1>2 DEF Refusal, Shown, Promise!Reported

\* publish writes its report or leaves the old one.
LEMMA PublishShown ==
  ASSUME NEW r, publish(r)
  PROVE  Shown(status') \in {Shown(status), Shown(r)}
  BY DEF publish, Shown

\* Nothing the guest can see happens.
LEMMA MapQuiet ==
  ASSUME Unrecorded, Hand' = None \/ Hand' = Hand, status' = status
  PROVE  Mapped
<1>1. CASE Hand' = None
  <2>1. Promise!Drop
    BY <1>1 DEF Unrecorded, Outcome, Hand, Promise!Drop
  <2> QED
    BY <2>1 DEF Mapped, Promise!Next, Promise!Host
<1>2. CASE Hand' = Hand
  BY <1>2 DEF Mapped, Promise!hostVars, Unrecorded, Outcome, Hand
<1> QED
  BY <1>1, <1>2

\* The journal is published again.
LEMMA MapReport ==
  ASSUME Unrecorded, Hand' = None, control = saved, control \in Controls,
         publish(JournalReport(control))
  PROVE  Mapped
<1>1. CASE Shown(status') = Shown(status)
  <2>1. Promise!Drop
    BY <1>1 DEF Unrecorded, Outcome, Hand, Shown, Promise!Drop
  <2> QED
    BY <2>1 DEF Mapped, Promise!Next, Promise!Host
<1>2. CASE Shown(status') = Promise!Reported(saved.request, Outcome(saved))
  <2>1. Promise!Report
    BY <1>2 DEF Unrecorded, Outcome, Hand, Shown, Promise!Report
  <2> QED
    BY <2>1 DEF Mapped, Promise!Next, Promise!Host
<1> QED
  BY <1>1, <1>2, PublishShown, ReportShown

\* A refusal that is not journalled, of the request in the slot or in hand.
LEMMA MapRefuse ==
  ASSUME Unrecorded, Hand' = None, NEW r \in Requests, publish(Refusal(r)),
         (r = slot /\ saved.request # slot) \/ r = Hand
  PROVE  Mapped
<1>0. r # None
  OBVIOUS
<1>1. CASE Shown(status') = Shown(status)
  <2>1. Promise!Drop
    BY <1>1 DEF Unrecorded, Outcome, Hand, Shown, Promise!Drop
  <2> QED
    BY <2>1 DEF Mapped, Promise!Next, Promise!Host
<1>2. CASE Shown(status') = Promise!Reported(r, "Rejected")
  <2>1. Promise!Refuse
    BY <1>0, <1>2 DEF Unrecorded, Outcome, Hand, Shown, Promise!Refuse
  <2> QED
    BY <2>1 DEF Mapped, Promise!Next, Promise!Host
<1> QED
  BY <1>1, <1>2, PublishShown, RefusalShown

\* Latching, whether or not the result it leaves is published.
LEMMA MapLatch ==
  ASSUME control = saved, control \in Controls, OwnedIn(control), saved' = latch(control),
         Hand' = None, slot' = slot,
         status' = status \/ publish(JournalReport(latch(control)))
  PROVE  Mapped
<1> DEFINE o == IF saved.request # None /\ Outcome(saved) = None THEN "Uncertain"
                ELSE Outcome(saved)
<1>1. saved.result # None => saved.result.outcome # None
  BY DEF Controls, Results
<1>2. /\ saved' \in Controls /\ saved'.latched
      /\ saved'.request = saved.request /\ saved'.intent = saved.intent
  BY LatchFacts
<1>3. Outcome(saved') = o
  <2>1. CASE saved.latched
    BY <1>1, <2>1 DEF latch, Outcome, OwnedIn
  <2>2. CASE ~saved.latched
    <3>1. saved'.result = IF saved.request # None /\ saved.result = None
                            THEN [outcome |-> "Uncertain", actual |-> 0] ELSE saved.result
      BY <2>2 DEF latch, Controls
    <3>2. [outcome |-> "Uncertain", actual |-> 0] # None
      BY DEF Results, Outcomes, Blocks
    <3> QED
      BY <1>1, <3>1, <3>2 DEF Outcome
  <2> QED
    BY <2>1, <2>2
<1>4. Shown(status') \in {Shown(status), Promise!Reported(saved.request, o)}
  <2>1. CASE status' = status
    BY <2>1
  <2>2. CASE publish(JournalReport(latch(control)))
    <3>1. Shown(JournalReport(latch(control))) = Promise!Reported(saved.request, o)
      BY <1>2, <1>3, ReportShown
    <3> QED
      BY <2>2, <3>1, PublishShown
  <2> QED
    BY <2>1, <2>2
<1>5. Promise!Latch
  <2>1. Promise!Record(saved.request, o)
    BY <1>2, <1>3, <1>4 DEF Promise!Record, Outcome, Shown
  <2>2. saved'.latched = TRUE
    BY <1>2 DEF Controls
  <2> HIDE DEF o
  <2>3. o = IF saved.request # None /\ Outcome(saved) = None THEN "Uncertain"
            ELSE Outcome(saved)
    BY DEF o
  <2> QED
    BY <1>2, <2>1, <2>2, <2>3 DEF Promise!Latch, Outcome, Hand
<1> QED
  BY <1>5 DEF Mapped, Promise!Next, Promise!Host

\* A command ends with a result.
LEMMA MapFinish ==
  ASSUME saved.intent # None, saved'.intent = None, saved'.request = saved.request,
         saved'.latched = saved.latched, saved' \in Controls,
         Outcome(saved') \in {"Completed", "Partial", "Rejected"},
         Hand' = Hand, slot' = slot,
         status' = status \/ publish(JournalReport(saved'))
  PROVE  Mapped
<1> DEFINE o == Outcome(saved')
<1>1. Shown(status') \in {Shown(status), Promise!Reported(saved.request, o)}
  BY PublishShown, ReportShown
<1>2. Promise!Record(saved.request, o)
  BY <1>1 DEF Promise!Record, Outcome, Shown
<1>3. Promise!Finish
  BY <1>2 DEF Promise!Finish, Hand
<1> QED
  BY <1>3 DEF Mapped, Promise!Next, Promise!Host

\* The poll admits what the slot holds.
LEMMA MapTake ==
  ASSUME Unrecorded, status' = status, slot \in Requests, Hand' = slot,
         ~saved.latched, saved.intent = None,
         saved.request # None =>
           Outcome(saved) \in Promise!Final /\ saved.request.id < slot.id,
         saved \in Controls
  PROVE  Mapped
<1>1. saved.request # None =>
        slot.id # saved.request.id /\ slot.id > saved.request.id
  BY DEF Controls, Requests, Ids
<1>2. slot # None
  OBVIOUS
<1>3. Promise!Admissible(slot)
  BY <1>1 DEF Promise!Admissible, Promise!Unresolved, Outcome
<1>4. Promise!Take
  BY <1>2, <1>3 DEF Promise!Take, Unrecorded, Outcome, Hand
<1> QED
  BY <1>4 DEF Mapped, Promise!Next, Promise!Host

\* The request in hand is answered without a command.
LEMMA MapDecline ==
  ASSUME Hand # None, Hand' = None, slot' = slot, saved'.request = Hand,
         saved.intent = None, saved'.intent = None, saved'.latched = saved.latched,
         Outcome(saved') \in {"PoolEmpty", "Rejected"}, saved' \in Controls,
         publish(JournalReport(saved'))
  PROVE  Mapped
<1> DEFINE o == Outcome(saved')
<1>1. Shown(status') \in {Shown(status), Promise!Reported(Hand, o)}
  BY PublishShown, ReportShown
<1>2. Promise!Record(Hand, o)
  BY <1>1 DEF Promise!Record, Outcome, Shown
<1>3. Promise!Decline
  BY <1>2 DEF Promise!Decline, Hand
<1> QED
  BY <1>3 DEF Mapped, Promise!Next, Promise!Host

\* The request in hand is recorded with its command.
LEMMA MapBegin ==
  ASSUME Hand # None, Hand' = None, slot' = slot, saved'.request = Hand,
         saved'.result = None, saved'.intent # None, saved'.latched = saved.latched,
         status' = status
  PROVE  Mapped
<1>1. Promise!Begin
  BY DEF Promise!Begin, Hand
<1> QED
  BY <1>1 DEF Mapped, Promise!Next, Promise!Host

\* The operator clears the latch.
LEMMA MapClear ==
  ASSUME saved \in Controls, OwnedIn(saved), saved.latched,
         saved' = clear_actuation_latch(saved, Live), TypeOK,
         slot' = slot, Hand' = Hand, status' = status
  PROVE  Mapped
<1>1. Live \in States
  BY DEF Live, States, TypeOK
<1>2. saved' \in Controls /\ saved'.request = saved.request
  BY <1>1, ClearFacts
<1>3. saved'.latched = FALSE /\ saved'.intent = None
  <2> DEFINE d == IF ~(saved.request # None /\ ~Terminal(saved.result)) THEN saved
                  ELSE IF saved.intent # None THEN movement_result(saved, Live)
                  ELSE record_result(saved, "Rejected", 0)
  <2>1. d \in Controls
    <3>1. "Rejected" \in Outcomes /\ 0 \in Blocks
      BY DEF Outcomes, Blocks
    <3> QED
      BY <1>1, <3>1, MovementFacts, RecordFacts
  <2>2. saved' = [d EXCEPT !.latched = FALSE, !.intent = None]
    BY DEF clear_actuation_latch
  <2> HIDE DEF d
  <2> QED
    BY <2>1, <2>2 DEF Controls
<1>4. CASE saved.request = None \/ Terminal(saved.result)
  <2>1. saved'.result = saved.result
    BY <1>4 DEF clear_actuation_latch, Controls
  <2>2. ~Promise!Unresolved
    BY <1>4 DEF Promise!Unresolved, Promise!Final, Terminal, Controls, Results, Outcomes
  <2>3. Promise!Clear
    BY <1>2, <1>3, <2>1, <2>2 DEF Promise!Clear, Outcome, Hand
  <2> QED
    BY <2>3 DEF Mapped, Promise!Next, Promise!Host
<1>5. CASE saved.request # None /\ ~Terminal(saved.result)
  <2>1. Outcome(saved') \in {"Completed", "Partial", "Rejected"}
    <3>1. PICK o \in {"Completed", "Partial", "Rejected"} :
            \E n : saved'.result = [outcome |-> o, actual |-> n]
      BY <1>5 DEF clear_actuation_latch, movement_result, record_result, Controls
    <3>2. saved'.result # None
      BY <1>1, <1>2, <1>3, <1>5, ClearFacts DEF OwnedIn
    <3> QED
      BY <3>1, <3>2 DEF Outcome
  <2>2. Promise!Unresolved
    BY <1>5, NoOutcomeAssumption
       DEF Promise!Unresolved, Promise!Final, Terminal, Controls, Results, Outcomes
  <2> DEFINE o == Outcome(saved')
  <2>3. Promise!Record(saved.request, o)
    BY <1>2 DEF Promise!Record, Outcome
  <2>4. Promise!Clear
    BY <1>2, <1>3, <2>1, <2>2, <2>3 DEF Promise!Clear, Outcome, Hand
  <2> QED
    BY <2>4 DEF Mapped, Promise!Next, Promise!Host
<1> QED
  BY <1>4, <1>5

\* What the invariant says of the control state, for the steps below.
LEMMA Known ==
  ASSUME IInv
  PROVE  /\ control = saved /\ OwnedIn(control) /\ control \in Controls /\ saved \in Controls
         /\ slot \in Requests \cup {None}
  BY DEF IInv, Synced, UnresolvedOwned, TypeOK

\* A step that leaves the checkpoint and the slot alone records nothing.
LEMMA QuietStep ==
  ASSUME saved' = saved, slot' = slot, status' = status,
         pc' # "act" \/ (pc' = pc /\ ready' = ready)
  PROVE  Mapped
<1>1. Hand' = None \/ Hand' = Hand
  BY DEF Hand
<1>2. Unrecorded
  BY DEF Unrecorded, Outcome
<1> QED
  BY <1>1, <1>2, MapQuiet

\* observe's live read.
LEMMA RefineObserve ==
  ASSUME IInv, ObserveUnreadable \/ ObserveLive
  PROVE  Mapped
<1> USE DEF guestVars, frameVars
<1>0. /\ control = saved /\ OwnedIn(control) /\ control \in Controls
      /\ slot' = slot /\ status' = status /\ pc = "poll" /\ pc' # "act"
  BY Known DEF ObserveUnreadable, ObserveLive
<1>1. Hand' = None /\ Hand = None
  BY <1>0 DEF Hand
<1>2. CASE saved' = saved
  BY <1>0, <1>2, QuietStep
<1>3. CASE saved' = latch(control)
  BY <1>0, <1>1, <1>3, MapLatch
<1>4. CASE ObserveLive /\ command_ownership(control.intent, Live) = "OwnedConvergedUnresolved"
  <2>1. saved' = resolve_intent(control, Live)
    BY <1>4 DEF ObserveLive, save
  <2>2. control.intent # None
    BY <1>4 DEF command_ownership
  <2>3. control.request # None
    BY <1>0, <2>2 DEF OwnedIn
  <2>4. saved' = [movement_result(control, Live) EXCEPT !.intent = None]
    BY <1>4, <2>1, <2>3 DEF resolve_intent
  <2>5. Live \in States
    BY DEF Live, States, IInv, TypeOK
  <2> DEFINE m == movement_result(control, Live)
  <2>6. /\ m \in Controls /\ m.request = control.request /\ m.latched = control.latched
        /\ Terminal(m.result)
    BY <1>0, <2>2, <2>3, <2>5, MovementFacts
  <2>7. PICK o \in {"Completed", "Partial"} : \E n : m.result = [outcome |-> o, actual |-> n]
    BY <1>0 DEF movement_result, record_result, Controls
  <2> HIDE DEF m
  <2>8. /\ saved' \in Controls /\ saved'.intent = None
        /\ saved'.request = saved.request /\ saved'.latched = saved.latched
        /\ saved'.result = m.result
    BY <1>0, <2>4, <2>6 DEF m, Controls
  <2>9. Outcome(saved') \in {"Completed", "Partial", "Rejected"}
    BY <2>6, <2>7, <2>8 DEF Outcome, Terminal
  <2> QED
    BY <1>0, <1>1, <2>2, <2>8, <2>9, MapFinish
<1> QED
  BY <1>0, <1>2, <1>3, <1>4 DEF ObserveUnreadable, ObserveLive, save, resolve_intent

\* A settlement or an extension replaces the recorded command by another one.
LEMMA Retarget ==
  ASSUME IInv, control.intent # None, pc # "act", pc' # "act", slot' = slot,
         NEW i \in Intents, saved' = [control EXCEPT !.intent = i]
  PROVE  Unrecorded /\ Hand' = None /\ Hand = None
<1>1. /\ saved'.intent = i /\ saved'.request = saved.request
      /\ saved'.result = saved.result /\ saved'.latched = saved.latched
  BY Known DEF Controls
<1>2. i # None
  OBVIOUS
<1> QED
  BY <1>1, <1>2, Known DEF Unrecorded, Outcome, Hand

\* observe_pending.
LEMMA RefinePending ==
  ASSUME IInv, Pending
  PROVE  Mapped
<1> USE DEF guestVars, frameVars, controlVars
<1>0. /\ control = saved /\ OwnedIn(control) /\ control \in Controls
      /\ pc = "pending" /\ slot' = slot
  BY Known DEF Pending, PendingHold, PendingWatch, HoldFloorShrink, SettleStuckGrow,
     SettleLowShrink, SettleReachedShrink, SettleFloorShrink, settle_short, ExtendShrink,
     SettleTimeout
<1>1. CASE PendingHold \/ PendingWatch \/ HoldFloorShrink
  <2>1. saved' = saved /\ pc' = "poll" /\ publish(JournalReport(control))
    BY <1>1 DEF PendingHold, PendingWatch, HoldFloorShrink, Return
  <2> QED
    BY <1>0, <2>1, MapReport DEF Unrecorded, Outcome, Hand
<1>2. CASE settle_short /\ Owned
  <2>1. /\ saved' = [control EXCEPT !.intent = SettleIntent(control.intent)]
        /\ control.intent # None /\ pc' = "check" /\ status' = status
    BY <1>2 DEF settle_short, save, Owned
  <2>2. SettleIntent(control.intent) \in Intents
    BY <1>0, <2>1 DEF SettleIntent, SettleDirection, Intents, States, Directions, Controls,
       IInv, TypeOK
  <2> QED
    BY <1>0, <2>1, <2>2, Retarget, MapQuiet
<1>3. CASE ExtendShrink
  <2>1. /\ saved' = [control EXCEPT !.intent.target = ExtensionTarget] /\ Owned
        /\ pc' = "check" /\ status' = status /\ total >= seen.current
        /\ seen.current > Goal /\ CanExtend
    BY <1>3 DEF ExtendShrink, save, WatchedShrink, HeldShrink, OwnedBy
  <2>2. ExtensionTarget \in Blocks
    BY <2>1, ExtensionType DEF IInv
  <2>3. control.intent # None /\ control.intent \in Intents
    BY <1>0, <2>1 DEF Owned, Controls
  <2> DEFINE i == [control.intent EXCEPT !.target = ExtensionTarget]
  <2>4. i \in Intents
    BY <2>2, <2>3 DEF Intents
  <2>5. saved' = [control EXCEPT !.intent = i]
    BY <1>0, <2>1 DEF Controls
  <2> HIDE DEF i
  <2> QED
    BY <1>0, <2>1, <2>3, <2>4, <2>5, Retarget, MapQuiet
<1>4. CASE SettleTimeout
  BY <1>0, <1>4, MapLatch DEF SettleTimeout, save, Return, Hand
<1> QED
  BY <1>1, <1>2, <1>3, <1>4 DEF Pending, SettleStuckGrow, SettleLowShrink,
     SettleReachedShrink, SettleFloorShrink, StuckGrow, WatchedShrink, HeldShrink, OwnedBy

\* The converged poll reads the guest.
LEMMA RefineRead ==
  ASSUME IInv, SkipWiden \/ StartWiden \/ ReadNothing \/ ReadRequest
  PROVE  Mapped
<1> USE DEF guestVars, frameVars, controlVars
<1>0. /\ control = saved /\ OwnedIn(control) /\ control \in Controls /\ saved \in Controls
      /\ slot \in Requests \cup {None} /\ pc = "converged" /\ slot' = slot /\ saved' = saved
      /\ control.intent # None => control.latched
  BY Known DEF IInv, Settled, SkipWiden, StartWiden, ReadNothing, ReadRequest, Converged
<1>1. CASE SkipWiden \/ StartWiden
  BY <1>0, <1>1, QuietStep DEF SkipWiden, StartWiden
<1>2. Unrecorded
  BY <1>0 DEF Unrecorded, Outcome
<1>3. CASE ReadNothing
  BY <1>0, <1>2, <1>3, MapReport DEF ReadNothing, Return, Hand
<1>4. CASE ReadRequest
  <2>1. PICK valid \in ValidNow :
          LET admission == admit(control, slot, valid)
              answered == admission = "Replay" /\ control.result # None
              refused == admission = "Err" \/ (admission = "New" /\ control.latched)
          IN IF answered \/ refused
             THEN /\ publish(IF answered THEN JournalReport(control)
                                         ELSE Refusal(slot))
                  /\ Return("poll")
             ELSE /\ ready' = [request |-> slot, base |-> SeenBase,
                               replay |-> admission = "Replay"]
                  /\ pc' = "act"
                  /\ UNCHANGED <<seen, cmd, status>>
    BY <1>4 DEF ReadRequest
  <2> DEFINE admission == admit(control, slot, valid)
             answered == admission = "Replay" /\ control.result # None
             refused == admission = "Err" \/ (admission = "New" /\ control.latched)
  <2>2. slot \in Requests
    BY <1>0, <1>4 DEF ReadRequest
  <2>3. admission \in {"Replay", "Err", "New"}
    BY DEF admit
  <2>4. CASE answered
    <3>1. publish(JournalReport(control)) /\ pc' = "poll"
      BY <2>1, <2>4 DEF Return
    <3> QED
      BY <1>0, <1>2, <3>1, MapReport DEF Hand
  <2>5. CASE ~answered /\ refused
    <3>1. publish(Refusal(slot)) /\ pc' = "poll"
      BY <2>1, <2>5 DEF Return
    <3>2. saved.request # slot
      BY <1>0, <2>2, <2>5 DEF admit
    <3> QED
      BY <1>2, <2>2, <3>1, <3>2, MapRefuse DEF Hand
  <2>6. CASE ~answered /\ ~refused
    <3>1. ready'.request = slot /\ pc' = "act" /\ status' = status
      BY <2>1, <2>6
    <3>2. admission = "New" /\ ~control.latched
      <4>1. CASE admission = "Replay"
        <5>1. control.request # None /\ control.result = None
          BY <2>6, <4>1 DEF admit
        <5> QED
          BY <1>0, <5>1 DEF OwnedIn
      <4> QED
        BY <2>3, <2>6, <4>1
    <3>3. control.request # None =>
            Terminal(control.result) /\ control.request.id < slot.id
      BY <1>0, <2>2, <3>2 DEF admit, Controls, Requests, Ids
    <3>4. control.request # None => Outcome(saved) \in Promise!Final
      BY <1>0, <3>3 DEF Outcome, Promise!Final, Terminal, Controls, Results, Outcomes
    <3> HIDE DEF admission, answered, refused
    <3>5. Hand' = slot
      BY <3>1 DEF Hand
    <3> QED
      BY <1>0, <1>2, <2>2, <3>1, <3>2, <3>3, <3>4, <3>5, MapTake
  <2> QED
    BY <2>4, <2>5, <2>6
<1> QED
  BY <1>1, <1>3, <1>4

\* act.
LEMMA RefineAct ==
  ASSUME IInv, ActRefuse \/ ActEmpty \/ ActCommand
  PROVE  Mapped
<1> USE DEF guestVars, controlVars
<1>0. /\ control = saved /\ control \in Controls /\ pc = "act" /\ pc' # "act"
      /\ slot' = slot /\ ready \in Readies /\ ~ready.replay /\ control.intent = None
      /\ control.latched = FALSE
  BY Known DEF IInv, AtAct, TypeOK, Controls, ActRefuse, ActEmpty, ActCommand, Return
<1>1. /\ Hand = ready.request /\ Hand \in Requests /\ Hand # None /\ Hand' = None
      /\ AtBoundary = Admitted(control, ready.request)
  BY <1>0 DEF Hand, Readies, AtBoundary
<1>2. CASE ActRefuse
  <2>1. saved' = saved /\ publish(Refusal(ready.request))
    BY <1>0, <1>2 DEF ActRefuse
  <2> QED
    BY <1>0, <1>1, <2>1, MapRefuse DEF Unrecorded, Outcome
<1> DEFINE a == Admitted(control, ready.request)
<1>3. /\ a \in Controls /\ a.request = Hand /\ a.intent = None /\ a.latched = control.latched
      /\ a.result = None
  BY <1>0, <1>1 DEF Admitted, Controls
<1>4. CASE ActEmpty
  <2> DEFINE o == IF ready.request.op = "Add" THEN "PoolEmpty" ELSE "Rejected"
  <2>1. saved' = record_result(a, o, 0) /\ publish(JournalReport(record_result(a, o, 0)))
    BY <1>1, <1>4 DEF ActEmpty, record_unexecuted, save
  <2>2. o \in Outcomes /\ o \in {"PoolEmpty", "Rejected"} /\ 0 \in Blocks
    BY DEF Outcomes, Blocks
  <2> HIDE DEF a, o
  <2>3. /\ saved' \in Controls /\ saved'.request = Hand /\ saved'.intent = None
        /\ saved'.latched = saved.latched /\ saved'.result # None
        /\ saved'.result = [outcome |-> o, actual |-> 0]
    BY <1>0, <1>3, <2>1, <2>2, RecordFacts
  <2>4. Outcome(saved') \in {"PoolEmpty", "Rejected"}
    BY <2>2, <2>3 DEF Outcome
  <2> QED
    BY <1>0, <1>1, <2>1, <2>3, <2>4, MapDecline
<1>5. CASE ActCommand
  <2> DEFINE Recorded(t) == [direction |-> IF ready.request.op = "Add" THEN "Grow"
                                                                       ELSE "Shrink",
                             prior_requested |-> seen.requested,
                             prior_current |-> seen.current,
                             target |-> t]
             Target(g) == IF ready.request.op = "Add" THEN seen.current + g
                                                      ELSE seen.current - g
  <2>1. PICK room \in Blocks :
          Grant(room) > 0 /\ saved' = [a EXCEPT !.intent = Recorded(Target(Grant(room)))]
    BY <1>1, <1>5 DEF ActCommand, save
  <2> DEFINE t == Target(Grant(room))
  <2>2. t \in Blocks /\ seen \in States
    <3>1. ready # None /\ seen \in States
      BY <1>5 DEF IInv, TypeOK, AtAct, ActCommand
    <3> QED
      BY <2>1, <3>1, GrantType DEF IInv, Blocks, States
  <2> HIDE DEF t, a
  <2>3. Recorded(t) \in Intents
    BY <2>2 DEF Intents, Directions, States
  <2>4. saved' = [a EXCEPT !.intent = Recorded(t)]
    BY <2>1 DEF t
  <2> DEFINE i == Recorded(t)
  <2> HIDE DEF i
  <2>5. /\ saved'.request = Hand /\ saved'.intent = i /\ saved'.result = None
        /\ saved'.latched = saved.latched
    BY <1>0, <1>3, <2>4 DEF i, Controls
  <2>6. i # None
    BY <2>3 DEF i
  <2> QED
    BY <1>0, <1>1, <1>5, <2>5, <2>6, MapBegin DEF ActCommand
<1> QED
  BY <1>2, <1>4, <1>5

\* The resize sink's refusals.
LEMMA RefineReject ==
  ASSUME IInv, RejectResize \/ RejectSettle \/ RejectExtend
  PROVE  Mapped
<1> USE DEF guestVars
<1>0. /\ control = saved /\ OwnedIn(control) /\ control \in Controls
      /\ pc = "check" /\ pc' = "poll" /\ slot' = slot /\ control.intent # None
  BY Known DEF RejectResize, RejectSettle, RejectExtend, Return, IInv, InCommand
<1>1. Hand = None /\ Hand' = None
  BY <1>0 DEF Hand
<1>2. CASE RejectResize
  <2> DEFINE e == [control EXCEPT !.intent = None]
             d == record_result(e, "Rejected", 0)
  <2>1. /\ e \in Controls /\ e.request = control.request /\ e.intent = None
        /\ e.latched = control.latched
    BY <1>0 DEF Controls
  <2>2. saved' = d /\ publish(JournalReport(d))
    BY <1>2 DEF RejectResize, save
  <2>3. "Rejected" \in Outcomes /\ 0 \in Blocks
    BY DEF Outcomes, Blocks
  <2> HIDE DEF e
  <2>4. /\ saved' \in Controls /\ saved'.request = saved.request /\ saved'.intent = None
        /\ saved'.latched = saved.latched /\ saved'.result # None
        /\ saved'.result = [outcome |-> "Rejected", actual |-> 0]
    BY <1>0, <2>1, <2>2, <2>3, RecordFacts
  <2>5. Outcome(saved') = "Rejected"
    BY <2>4 DEF Outcome
  <2> QED
    BY <1>0, <1>1, <2>2, <2>4, <2>5, MapFinish
<1>3. CASE RejectSettle
  BY <1>0, <1>1, <1>3, MapLatch DEF RejectSettle, save
<1>4. CASE RejectExtend
  <2> DEFINE i == [control.intent EXCEPT !.target = seen.requested]
  <2>1. control.intent \in Intents /\ seen.requested \in Blocks
    BY <1>0 DEF Controls, IInv, TypeOK, States
  <2>2. i \in Intents
    BY <2>1 DEF Intents
  <2>3. saved' = [control EXCEPT !.intent = i] /\ publish(JournalReport(control))
    BY <1>0, <1>4 DEF RejectExtend, save, Controls
  <2> HIDE DEF i
  <2>4. Unrecorded
    BY <1>0, <2>2, <2>3, Retarget
  <2> QED
    BY <1>0, <1>1, <2>3, <2>4, MapReport
<1> QED
  BY <1>2, <1>3, <1>4

\* The resize sink.
LEMMA RefineSink ==
  ASSUME IInv, Sink
  PROVE  Mapped
<1> USE DEF guestVars, controlVars, widenVars
<1>0. control = saved /\ OwnedIn(control) /\ control \in Controls
  BY Known
<1>1. CASE RejectResize \/ RejectSettle \/ RejectExtend
  BY <1>1, RefineReject
<1>2. CASE SinkPass \/ RejectWiden \/ ApplyUnknown
           \/ WidenSuspend \/ WidenApply \/ WidenRestore \/ WidenResume
  <2>1. pc' # "act" /\ saved' = saved /\ slot' = slot /\ status' = status
    BY <1>2 DEF SinkPass, RejectWiden, ApplyUnknown, WidenSuspend, WidenApply,
       WidenRestore, WidenResume
  <2> QED
    BY <2>1, QuietStep
<1>3. CASE ApplyCommand
  BY <1>0, <1>3, MapReport DEF ApplyCommand, Return, Unrecorded, Outcome, Hand
<1>4. CASE HandleUnknown
  <2>1. /\ saved' = latch(control) /\ slot' = slot
        /\ status' = status \/ publish(JournalReport(latch(control)))
    BY <1>4 DEF HandleUnknown, save
  <2>2. pc' # "act"
    BY <1>4 DEF HandleUnknown, Return
  <2> QED
    BY <1>0, <2>1, <2>2, MapLatch DEF Hand
<1> QED
  BY <1>1, <1>2, <1>3, <1>4 DEF Sink

\* The process, the operator and the world.
LEMMA RefineOthers ==
  ASSUME IInv, Start \/ Crash \/ Operator \/ World \/ UNCHANGED vars
  PROVE  Mapped
<1> USE DEF guestVars, controlVars, frameVars
<1>1. CASE Start \/ Crash \/ CliSettle \/ CliRetarget
  BY <1>1, QuietStep DEF Start, Crash, CliSettle, CliRetarget, Return
<1>2. CASE ClearLatch
  <2>1. /\ saved' = clear_actuation_latch(saved, Live) /\ saved.latched
        /\ slot' = slot /\ status' = status /\ Hand' = Hand
    BY <1>2 DEF ClearLatch, save, Hand
  <2> QED
    BY <2>1, Known, MapClear DEF IInv
<1>3. CASE GuestPublish
  <2>1. Promise!Guest
    BY <1>3 DEF GuestPublish, Promise!Guest, Promise!hostVars
  <2> QED
    BY <2>1 DEF Mapped, Promise!Next
<1>4. CASE OperatorResume \/ ExternalResize \/ GuestPlug \/ GuestUnplug \/ DeviceReset
           \/ LateApply \/ StallTick \/ Deadline \/ UNCHANGED vars
  BY <1>4, QuietStep DEF OperatorResume, ExternalResize, GuestPlug, GuestUnplug,
     DeviceReset, LateApply, StallTick, Deadline, vars
<1> QED
  BY <1>1, <1>2, <1>3, <1>4 DEF Operator, World

\* Every step of the controller is a step of the abstract host, or none.
LEMMA RefineNext ==
  ASSUME IInv, [Next]_vars
  PROVE  Mapped
  BY RefineObserve, RefinePending, RefineRead, RefineAct, RefineSink, RefineOthers
     DEF Next, Daemon

\* At the start nothing is journalled, in hand or reported.
LEMMA RefineInit == Init => Promise!Init
  BY DEF Init, Promise!Init

\* The controller, with its polls, extensions, settlements, widenings, latches, crashes
\* and operator commands, is a host that admits requests in order and one at a time,
\* records each before its command, and answers each with one final result.
THEOREM PromiseKept == Spec => KeepsPromise
<1>1. IInv /\ [Next]_vars => [Promise!Next]_<<slot, Promise!hostVars>>
  BY RefineNext DEF Mapped
<1> QED
  BY Invariant, RefineInit, <1>1, PTL DEF Spec, KeepsPromise, Promise!Spec
=============================================================================
