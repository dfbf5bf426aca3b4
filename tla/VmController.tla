--------------------------- MODULE VmController ---------------------------
(***************************************************************************)
(* One VM of the host daemon: host/src/runtime.rs (VmController), its      *)
(* durable checkpoint (host/src/checkpoint.rs), the request journal        *)
(* (virtio-mem-core/src/memory_request.rs), the guarded virsh commands     *)
(* (host/src/resize_sink.rs) and the operator's clear-latch command        *)
(* (host/src/cli.rs), together with the parts of the world they race with: *)
(* the guest's memory driver, the guest's publication, the wall clock, an  *)
(* operator and the death of the process.                                  *)
(*                                                                         *)
(* Sizes are counted in device blocks.  The pool ceiling and the host      *)
(* reserve enter a grant as one free number, "room": HostRound models      *)
(* where it comes from.                                                    *)
(*                                                                         *)
(* One poll is a walk of pc from "poll" back to "poll".  It pauses exactly *)
(* where the world can change under the code: after the live read, before  *)
(* the guest file is read, before act, and around every virsh command.     *)
(***************************************************************************)
EXTENDS Integers, FiniteSets

CONSTANTS
  DeviceBlocks,   \* the device's maximum target (VirtioMemState)
  BaseRam,        \* guest RAM outside the device
  MinRam, MaxRam, \* HostConfig.min_ram and max_ram
  MaxExtension,   \* MAX_EXTENSION_BYTES / block
  MaxId,          \* bound: how many request identities the guest uses
  ObserveOnly,    \* HostConfig.observe_only
  Faults,         \* which faults of the world a run allows
  None            \* Option::None

FaultKinds == {"crash", "unreadable", "guest_unreadable", "expire", "publish",
               "reject", "unknown", "late", "external", "reset", "stale"}

ASSUME ConstantsAssumption ==
  /\ DeviceBlocks \in Nat \ {0}
  /\ BaseRam \in Nat /\ MinRam \in Nat /\ MaxRam \in Nat
  /\ MaxExtension \in Nat \ {0}
  /\ MaxId \in Nat \ {0}
  /\ ObserveOnly \in BOOLEAN
  /\ Faults \subseteq FaultKinds

Blocks == 0 .. DeviceBlocks
Ids == 1 .. MaxId

\* A request's identity and its issue time are one number: the guest's issue
\* times strictly increase, and the journal orders requests by them.
Requests == [id : Ids, op : {"Add", "Remove"}, bytes : 1 .. DeviceBlocks]
Outcomes == {"Completed", "Partial", "PoolEmpty", "Rejected", "Uncertain"}
Results == [outcome : Outcomes, actual : Blocks]
Directions == {"Grow", "Shrink", "SettleGrow", "SettleShrink"}
Intents == [direction : Directions, prior_requested : Blocks,
            prior_current : Blocks, target : Blocks]
Controls == [latched : BOOLEAN, intent : Intents \cup {None},
             request : Requests \cup {None}, result : Results \cup {None}]
States == [requested : Blocks, current : Blocks]
Commands == [kind : {"none", "resize", "settle", "extend", "widen"},
             target : Blocks, failed : BOOLEAN]
Reports == [request : Requests, outcome : Outcomes, actual : Blocks]
Readies == [request : Requests, base : Nat, replay : BOOLEAN]
Totals == BaseRam .. (BaseRam + DeviceBlocks)

\* The symbols that stand for "no value" are none of the values.
ASSUME NoneAssumption ==
  None \notin Requests \cup Results \cup Intents \cup Reports \cup Readies
ASSUME NoOutcomeAssumption == None \notin Outcomes

VARIABLES
  requested, current,  \* the device, as the live XML reports it
  paused,              \* the domain is suspended
  inflight,            \* a timed-out virsh command libvirt may still apply
  control,             \* VmController.control, in memory
  saved,               \* the checkpoint file
  pc,                  \* where the process is
  seen,                \* the VirtioMemState this poll read
  ready,               \* Observed::Ready
  cmd,                 \* the command being sent to libvirt
  widen_due, widened, progress, extension, \* process-local bookkeeping
  elapsed,             \* the settlement's deadline has passed
  slot, low, total,    \* the guest's publication: request, pressure, RAM
  status,              \* the result in the status file the guest reads
  executed,            \* history: identities whose resize reached libvirt
  origin               \* history: allocation when the request was admitted

deviceVars == <<requested, current, paused, inflight>>
controlVars == <<control, saved>>
frameVars == <<pc, seen, ready, cmd>>
localVars == <<widen_due, widened, progress, extension>>
guestVars == <<slot, low, total>>
historyVars == <<executed, origin>>
vars == <<deviceVars, controlVars, frameVars, localVars, elapsed, guestVars,
          status, historyVars>>

-----------------------------------------------------------------------------
\* Arithmetic

\* Faulty variant: plain subtraction.
plain_sub(a, b) == a - b
saturating_sub(a, b) == IF a > b THEN a - b ELSE 0
least(a, b) == IF a <= b THEN a ELSE b
greatest(a, b) == IF a >= b THEN a ELSE b

-----------------------------------------------------------------------------
\* The journal

Terminal(result) == result # None /\ result.outcome # "Uncertain"

\* Faulty variant: no replay watermark.
admit_unordered(journal, r, valid) ==
  LET previous == journal.request
      known == previous # None /\ previous.id = r.id
      barred == previous # None /\ ~Terminal(journal.result)
  IN IF known THEN IF previous = r THEN "Replay" ELSE "Err"
     ELSE IF barred \/ ~valid THEN "Err" ELSE "New"

\* MemoryRequestJournal::admit: a known identity is a replay, an unresolved
\* predecessor or a passed watermark refuses, an expired request refuses.
admit(journal, r, valid) ==
  LET previous == journal.request
      known == previous # None /\ previous.id = r.id
      barred == previous # None
                  /\ (~Terminal(journal.result) \/ r.id <= previous.id)
  IN IF known THEN IF previous = r THEN "Replay" ELSE "Err"
     ELSE IF barred \/ ~valid THEN "Err" ELSE "New"

\* Faulty variant: the previous request's result stays.
AdmittedKeeping(c, r) == [c EXCEPT !.request = r]
Admitted(c, r) == [c EXCEPT !.request = r, !.result = None]

record_result(c, outcome, actual) ==
  [c EXCEPT !.result = [outcome |-> outcome, actual |-> actual]]

-----------------------------------------------------------------------------
\* The checkpoint

\* Faulty variant: a matching request counts as a finished one.
ownership_by_request(intent, live) ==
  IF intent = None
    THEN IF live.requested = live.current THEN "None" ELSE "UnownedPending"
  ELSE IF live.requested = intent.target THEN "OwnedConvergedUnresolved"
  ELSE "Conflict"

\* checkpoint.rs: how live state relates to the recorded command.
command_ownership(intent, live) ==
  IF intent = None
    THEN IF live.requested = live.current THEN "None" ELSE "UnownedPending"
  ELSE IF live.requested = intent.target
    THEN IF live.current = intent.target THEN "OwnedConvergedUnresolved"
                                         ELSE "OwnedPending"
  ELSE IF /\ live.requested = intent.prior_requested
          /\ live.current = intent.prior_current
    THEN "RecordedNotApplied" ELSE "Conflict"

\* The blocks a request has moved, at most what it asked for.
Moved(r, from, to) ==
  least(r.bytes, IF r.op = "Add" THEN saturating_sub(to, from)
                                 ELSE saturating_sub(from, to))

movement_result(c, live) ==
  LET moved == Moved(c.request, c.intent.prior_current, live.current)
  IN record_result(c, IF moved = c.request.bytes THEN "Completed" ELSE "Partial",
                   moved)

\* Faulty variant: the unresolved request gets no uncertain result.
latch_silent(c) == [c EXCEPT !.latched = TRUE]

latch(c) ==
  IF c.latched THEN c
  ELSE [c EXCEPT !.latched = TRUE,
                 !.result = IF c.request # None /\ @ = None
                              THEN [outcome |-> "Uncertain", actual |-> 0]
                              ELSE @]

resolve_intent(c, live) ==
  LET ownership == command_ownership(c.intent, live)
      result == IF c.request = None THEN c ELSE movement_result(c, live)
  IN IF ownership = "OwnedConvergedUnresolved" THEN [result EXCEPT !.intent = None]
     ELSE IF ownership \in {"RecordedNotApplied", "Conflict"} THEN latch(c)
     ELSE c

\* Faulty variant: a result that is already final is written again.
clear_and_overwrite(c, live) ==
  LET result == IF c.request = None THEN c
                ELSE IF c.intent # None THEN movement_result(c, live)
                ELSE record_result(c, "Rejected", 0)
  IN [result EXCEPT !.latched = FALSE, !.intent = None]

clear_actuation_latch(c, live) ==
  LET unresolved == c.request # None /\ ~Terminal(c.result)
      result == IF ~unresolved THEN c
                ELSE IF c.intent # None THEN movement_result(c, live)
                ELSE record_result(c, "Rejected", 0)
  IN [result EXCEPT !.latched = FALSE, !.intent = None]

-----------------------------------------------------------------------------
\* Steps shared by the actions

Live == [requested |-> requested, current |-> current]
Unread == [requested |-> 0, current |-> 0]
NoCommand == [kind |-> "none", target |-> 0, failed |-> FALSE]
Command(kind, target) == [kind |-> kind, target |-> target, failed |-> FALSE]

\* Faulty variant: the file is not written.
save_in_memory(c) == control' = c /\ saved' = saved

\* Every change of the control state is followed by Checkpoint::save.
save(c) == control' = c /\ saved' = c

\* The poll ends: its locals die.
Return(where) ==
  /\ pc' = where
  /\ seen' = Unread /\ ready' = None /\ cmd' = NoCommand

\* The journal's result as publish reports it, and a refusal's.
JournalReport(c) ==
  IF c.request = None \/ c.result = None THEN None
  ELSE [request |-> c.request, outcome |-> c.result.outcome,
        actual |-> c.result.actual]
Refusal(r) == [request |-> r, outcome |-> "Rejected", actual |-> 0]

\* A failed write leaves the file as it was.
publish(report) ==
  status' \in {report} \cup (IF "publish" \in Faults THEN {status} ELSE {})

Forget ==
  /\ widen_due' = FALSE /\ widened' = FALSE
  /\ progress' = None /\ extension' = None

Init ==
  /\ requested \in Blocks /\ current = requested
  /\ paused = FALSE /\ inflight = None
  /\ control = [latched |-> FALSE, intent |-> None, request |-> None,
                result |-> None]
  /\ saved = control
  /\ pc = "down" /\ seen = Unread /\ ready = None /\ cmd = NoCommand
  /\ widen_due = FALSE /\ widened = FALSE
  /\ progress = None /\ extension = None
  /\ elapsed = FALSE
  /\ slot = None /\ low = FALSE /\ total = BaseRam + current
  /\ status = None
  /\ executed = {} /\ origin = 0

-----------------------------------------------------------------------------
\* The process

Start ==
  /\ pc = "down"
  /\ control' = saved
  /\ Return("poll")
  /\ UNCHANGED <<deviceVars, saved, localVars, elapsed, guestVars, status,
                 historyVars>>

\* A crash, a shutdown between two commands, or an error that ends the
\* daemon: whatever was in memory is gone.
Crash ==
  /\ pc # "down"
  /\ "crash" \in Faults \/ pc = "stopped"
  /\ Forget
  /\ Return("down")
  /\ UNCHANGED <<deviceVars, controlVars, elapsed, guestVars, status,
                 historyVars>>

-----------------------------------------------------------------------------
\* observe: the live read and the recorded intent

ObserveUnreadable ==
  /\ pc = "poll"
  /\ "unreadable" \in Faults
  /\ save(IF control.intent # None THEN latch(control) ELSE control)
  /\ UNCHANGED <<deviceVars, frameVars, localVars, elapsed, guestVars, status,
                 historyVars>>

ObserveLive ==
  LET next == resolve_intent(control, Live)
      settledGrow == control.intent # None /\ control.intent.direction = "SettleGrow"
      unplugged == next.intent = None /\ next.result # None /\ next.result.actual = 0
      converged == requested = current
  IN /\ pc = "poll"
     /\ save(next)
     /\ seen' = Live
     /\ widen_due' = (widen_due \/ (settledGrow /\ unplugged /\ ~widened))
     /\ widened' = (widened /\ ~(converged /\ current = 0))
     /\ progress' = IF converged THEN None ELSE progress
     /\ pc' = IF converged THEN "converged" ELSE "pending"
     /\ UNCHANGED <<deviceVars, ready, cmd, extension, elapsed, guestVars,
                    status, historyVars>>

-----------------------------------------------------------------------------
\* observe_pending: the device has not reached its request

Owned == control.intent # None /\ control.intent.target = seen.requested
OwnedBy(directions) == Owned /\ control.intent.direction \in directions
CanSettle == ~control.latched /\ ~ObserveOnly

\* command_stalled: the allocation has not moved for a poll.
SameAllocation == progress # None /\ progress.at = seen.current
Stalled == SameAllocation /\ progress.age >= 1
Watch == IF SameAllocation THEN progress ELSE [at |-> seen.current, age |-> 0]

StuckGrow ==
  /\ OwnedBy({"Grow"})
  /\ CanSettle
  /\ ~widened
  /\ control.intent.prior_current = seen.current

HeldShrink == OwnedBy({"Shrink"}) /\ CanSettle
Settling == OwnedBy({"SettleGrow", "SettleShrink"})
WatchedShrink == HeldShrink /\ ~low /\ total >= seen.current

\* The poll has nothing to send: publish and wait.
PendingHold ==
  /\ pc = "pending"
  /\ \/ ~Owned
     \/ OwnedBy({"Grow"}) /\ ~StuckGrow
     \/ OwnedBy({"Shrink"}) /\ ~CanSettle
     \/ HeldShrink /\ "guest_unreadable" \in Faults
     \/ HeldShrink /\ ~low /\ total < seen.current
     \/ Settling /\ ~elapsed
  /\ publish(JournalReport(control))
  /\ Return("poll")
  /\ UNCHANGED <<deviceVars, controlVars, localVars, elapsed, guestVars,
                 historyVars>>

\* A resize that may have stopped moving: start or keep its stall clock.
PendingWatch ==
  /\ pc = "pending"
  /\ StuckGrow \/ WatchedShrink
  /\ ~Stalled
  /\ progress' = Watch
  /\ publish(JournalReport(control))
  /\ Return("poll")
  /\ UNCHANGED <<deviceVars, controlVars, widen_due, widened, extension,
                 elapsed, guestVars, historyVars>>

SettleDirection(direction) ==
  IF direction = "Grow" THEN "SettleGrow" ELSE "SettleShrink"

\* Faulty variant: movement is measured from the settlement.
RestartedIntent(intent) ==
  [direction |-> SettleDirection(intent.direction),
   prior_requested |-> seen.requested,
   prior_current |-> seen.current,
   target |-> seen.current]

\* The settlement keeps the allocation the original command started from.
SettleIntent(intent) ==
  [direction |-> SettleDirection(intent.direction),
   prior_requested |-> seen.requested,
   prior_current |-> intent.prior_current,
   target |-> seen.current]

\* settle_short: request the current allocation; a new operation, so the
\* extension bookkeeping of the old one no longer matches.
settle_short ==
  /\ save([control EXCEPT !.intent = SettleIntent(@)])
  /\ cmd' = Command("settle", seen.current)
  /\ pc' = "check"
  /\ elapsed' = FALSE
  /\ extension' = None
  /\ UNCHANGED <<deviceVars, seen, ready, widen_due, widened, progress,
                 guestVars, status, historyVars>>

SettleStuckGrow == pc = "pending" /\ StuckGrow /\ Stalled /\ settle_short

SettleLowShrink == pc = "pending" /\ HeldShrink /\ low /\ settle_short

\* extend_shrink (the viomem workaround).
SeenBase == total - seen.current
Floor == saturating_sub(MinRam, SeenBase)
Asked == IF control.request # None /\ control.request.op = "Remove"
           THEN control.request.bytes ELSE 0
Goal == greatest(saturating_sub(control.intent.prior_current, Asked), Floor)
ExtensionStep ==
  LET grown == /\ extension # None
               /\ saturating_sub(extension.from, seen.current) >= extension.step
      step == IF grown THEN least(2 * extension.step, MaxExtension) ELSE 1
  IN least(step, seen.current - Goal)

\* Faulty variant: the target ignores min_ram.
UnflooredTarget == saturating_sub(seen.requested, ExtensionStep)

ExtensionTarget == greatest(saturating_sub(seen.requested, ExtensionStep), Floor)
CanExtend == seen.requested >= ExtensionStep /\ ExtensionTarget < seen.requested

SettleReachedShrink ==
  /\ pc = "pending" /\ WatchedShrink /\ Stalled
  /\ seen.current <= Goal
  /\ settle_short

SettleFloorShrink ==
  /\ pc = "pending" /\ WatchedShrink /\ Stalled
  /\ seen.current > Goal
  /\ ~CanExtend
  /\ progress.age >= 2
  /\ settle_short

HoldFloorShrink ==
  /\ pc = "pending" /\ WatchedShrink /\ Stalled
  /\ seen.current > Goal
  /\ ~CanExtend
  /\ progress.age < 2
  /\ extension' = None
  /\ publish(JournalReport(control))
  /\ Return("poll")
  /\ UNCHANGED <<deviceVars, controlVars, widen_due, widened, progress,
                 elapsed, guestVars, historyVars>>

ExtendShrink ==
  /\ pc = "pending" /\ WatchedShrink /\ Stalled
  /\ seen.current > Goal
  /\ CanExtend
  /\ save([control EXCEPT !.intent.target = ExtensionTarget])
  /\ progress' = None
  /\ extension' = [from |-> seen.current, step |-> ExtensionStep]
  /\ cmd' = Command("extend", ExtensionTarget)
  /\ pc' = "check"
  /\ UNCHANGED <<deviceVars, seen, ready, widen_due, widened, elapsed,
                 guestVars, status, historyVars>>

\* convergence_timeout: a settlement that misses its deadline latches and
\* stops the VM.
SettleTimeout ==
  /\ pc = "pending" /\ Settling /\ elapsed
  /\ save(latch(control))
  /\ publish(JournalReport(latch(control)))
  /\ Return("stopped")
  /\ UNCHANGED <<deviceVars, localVars, elapsed, guestVars, historyVars>>

-----------------------------------------------------------------------------
\* observe, on a converged device: the one-time widening, then the guest

SkipWiden ==
  /\ pc = "converged" /\ widen_due
  /\ control.latched \/ ObserveOnly
  /\ widen_due' = FALSE
  /\ UNCHANGED <<deviceVars, controlVars, frameVars, widened, progress,
                 extension, elapsed, guestVars, status, historyVars>>

StartWiden ==
  /\ pc = "converged" /\ widen_due
  /\ ~control.latched /\ ~ObserveOnly
  /\ widen_due' = FALSE /\ widened' = TRUE
  /\ cmd' = Command("widen", DeviceBlocks)
  /\ pc' = "check"
  /\ UNCHANGED <<deviceVars, controlVars, seen, ready, progress, extension,
                 elapsed, guestVars, status, historyVars>>

Converged == pc = "converged" /\ ~widen_due

\* No guest, no request, or guest RAM below the plugged allocation.
ReadNothing ==
  /\ Converged
  /\ slot = None \/ total < seen.current \/ "guest_unreadable" \in Faults
  /\ publish(JournalReport(control))
  /\ Return("poll")
  /\ UNCHANGED <<deviceVars, controlVars, localVars, elapsed, guestVars,
                 historyVars>>

\* MemoryRequest::validate_at at this instant.
ValidNow == IF "expire" \in Faults THEN BOOLEAN ELSE {TRUE}

ReadRequest ==
  /\ Converged
  /\ slot # None /\ total >= seen.current
  /\ \E valid \in ValidNow :
       LET admission == admit(control, slot, valid)
           answered == admission = "Replay" /\ control.result # None
           refused == admission = "Err" \/ (admission = "New" /\ control.latched)
       IN IF answered \/ refused
          THEN /\ publish(IF answered THEN JournalReport(control)
                                      ELSE Refusal(slot))
               /\ Return("poll")
          ELSE /\ ready' = [request |-> slot, base |-> SeenBase,
                            replay |-> admission = "Replay"]
               /\ pc' = "act"
               /\ UNCHANGED <<seen, cmd, status>>
  /\ UNCHANGED <<deviceVars, controlVars, localVars, elapsed, guestVars,
                 historyVars>>

-----------------------------------------------------------------------------
\* act: the effect boundary

\* The blocks granted when the pool and the host reserve leave "room".
Grant(room) ==
  LET r == ready.request
      underMaximum == saturating_sub(saturating_sub(MaxRam, ready.base), seen.current)
      onDevice == DeviceBlocks - seen.current
      removable == saturating_sub(seen.current, saturating_sub(MinRam, ready.base))
  IN IF r.op = "Add"
       THEN least(least(r.bytes, underMaximum), least(onDevice, room))
       ELSE least(r.bytes, removable)

\* The request as journalled before its result: a replay already is.
AtBoundary == IF ready.replay THEN control ELSE Admitted(control, ready.request)

record_unexecuted(outcome) ==
  LET next == record_result(AtBoundary, outcome, 0)
  IN save(next) /\ publish(JournalReport(next))

\* refuse: the request expired, is not a multiple of the block size, or the
\* controller only observes.  A new request's refusal is not journalled.
ActRefuse ==
  /\ pc = "act"
  /\ "expire" \in Faults \/ ObserveOnly
  /\ IF ready.replay THEN record_unexecuted("Rejected")
     ELSE publish(Refusal(ready.request)) /\ UNCHANGED controlVars
  /\ Return("poll")
  /\ UNCHANGED <<deviceVars, localVars, elapsed, guestVars, historyVars>>

ActEmpty ==
  /\ pc = "act" /\ ~ObserveOnly
  /\ \E room \in Blocks : Grant(room) = 0
  /\ record_unexecuted(IF ready.request.op = "Add" THEN "PoolEmpty"
                                                   ELSE "Rejected")
  /\ Return("poll")
  /\ UNCHANGED <<deviceVars, localVars, elapsed, guestVars, historyVars>>

\* Admission and intent are saved together, before the command.
ActCommand ==
  /\ pc = "act" /\ ~ObserveOnly
  /\ \E room \in Blocks :
       LET grant == Grant(room)
           add == ready.request.op = "Add"
           target == IF add THEN seen.current + grant ELSE seen.current - grant
       IN /\ grant > 0
          /\ save([AtBoundary EXCEPT !.intent =
                     [direction |-> IF add THEN "Grow" ELSE "Shrink",
                      prior_requested |-> seen.requested,
                      prior_current |-> seen.current,
                      target |-> target]])
          /\ cmd' = Command("resize", target)
  /\ pc' = "check"
  /\ elapsed' = FALSE
  /\ extension' = None
  /\ origin' = seen.current
  /\ UNCHANGED <<deviceVars, seen, ready, widen_due, widened, progress,
                 guestVars, status, executed>>

-----------------------------------------------------------------------------
\* The resize sink.  "check" re-reads live state; after "apply" is reached
\* nothing is read again.

SinkPass ==
  /\ pc = "check"
  /\ Live = seen
  /\ pc' = IF cmd.kind = "widen" THEN "suspend" ELSE "apply"
  /\ UNCHANGED <<deviceVars, controlVars, seen, ready, cmd, localVars, elapsed,
                 guestVars, status, historyVars>>

\* ResizeSinkError::Rejected: the state changed, the evidence or the host
\* headroom fails, live XML is unreadable, or a shutdown was requested.
Rejectable == Live # seen \/ "reject" \in Faults

RejectResize ==
  /\ pc = "check" /\ cmd.kind = "resize" /\ Rejectable
  /\ LET next == record_result([control EXCEPT !.intent = None], "Rejected", 0)
     IN save(next) /\ publish(JournalReport(next))
  /\ Return("poll")
  /\ UNCHANGED <<deviceVars, localVars, elapsed, guestVars, historyVars>>

RejectSettle ==
  /\ pc = "check" /\ cmd.kind = "settle" /\ Rejectable
  /\ save(latch(control))
  /\ publish(JournalReport(latch(control)))
  /\ Return("poll")
  /\ UNCHANGED <<deviceVars, localVars, elapsed, guestVars, historyVars>>

RejectExtend ==
  /\ pc = "check" /\ cmd.kind = "extend" /\ Rejectable
  /\ save([control EXCEPT !.intent.target = seen.requested])
  /\ publish(JournalReport(control))
  /\ Return("poll")
  /\ UNCHANGED <<deviceVars, localVars, elapsed, guestVars, historyVars>>

RejectWiden ==
  /\ pc = "check" /\ cmd.kind = "widen" /\ Rejectable
  /\ cmd' = NoCommand
  /\ pc' = "converged"
  /\ UNCHANGED <<deviceVars, controlVars, seen, ready, localVars, elapsed,
                 guestVars, status, historyVars>>

Reached == IF cmd.kind = "resize" THEN executed \cup {control.request.id}
                                  ELSE executed

ApplyCommand ==
  /\ pc = "apply"
  /\ requested' = cmd.target
  /\ executed' = Reached
  /\ publish(JournalReport(control))
  /\ Return("poll")
  /\ UNCHANGED <<current, paused, inflight, controlVars, localVars, elapsed,
                 guestVars, origin>>

\* virsh failed or timed out: libvirt has applied the command, never will,
\* or will later.
ApplyUnknown ==
  /\ pc = "apply"
  /\ "unknown" \in Faults
  /\ \/ requested' = cmd.target /\ inflight' = inflight
     \/ requested' = requested /\ inflight' = inflight
     \/ "late" \in Faults /\ requested' = requested /\ inflight' = cmd.target
  /\ executed' = Reached
  /\ pc' = "unknown"
  /\ UNCHANGED <<current, paused, controlVars, seen, ready, cmd, localVars,
                 elapsed, guestVars, status, origin>>

\* ResizeSinkError::CommandUnknown latches; an unknown growth or widening
\* also stops the VM.
HandleUnknown ==
  /\ pc = "unknown"
  /\ save(latch(control))
  /\ IF cmd.kind = "widen" THEN status' = status
     ELSE publish(JournalReport(latch(control)))
  /\ LET grow == cmd.kind = "resize" /\ control.intent.direction = "Grow"
     IN Return(IF grow \/ cmd.kind = "widen" THEN "stopped" ELSE "poll")
  /\ UNCHANGED <<deviceVars, localVars, elapsed, guestVars, historyVars>>

\* widen_usable_region_guarded: suspend, request the whole device, restore
\* the request, resume.  Each is a virsh call that may fail or time out.
Fails == IF "unknown" \in Faults THEN BOOLEAN ELSE {FALSE}
widenVars == <<current, inflight, controlVars, seen, ready, localVars, elapsed,
               guestVars, status, historyVars>>

\* A suspend that reports an error is taken for "nothing changed".
WidenSuspend ==
  /\ pc = "suspend"
  /\ \E failed \in Fails :
       /\ paused' \in IF failed THEN {paused, TRUE} ELSE {TRUE}
       /\ pc' = IF failed THEN "converged" ELSE "widen"
       /\ cmd' = IF failed THEN NoCommand ELSE cmd
  /\ UNCHANGED <<requested, widenVars>>

WidenApply ==
  /\ pc = "widen"
  /\ \E failed \in Fails :
       /\ requested' \in IF failed THEN {requested, cmd.target} ELSE {cmd.target}
       /\ cmd' = [cmd EXCEPT !.failed = failed]
  /\ pc' = "restore"
  /\ UNCHANGED <<paused, widenVars>>

\* Tried twice; failing leaves the domain paused.
WidenRestore ==
  /\ pc = "restore"
  /\ \E failed \in Fails :
       /\ requested' \in IF failed THEN {requested, seen.requested}
                                   ELSE {seen.requested}
       /\ pc' = IF failed THEN "unknown" ELSE "resume"
  /\ UNCHANGED <<paused, cmd, widenVars>>

WidenResume ==
  /\ pc = "resume"
  /\ \E failed \in Fails :
       /\ paused' \in IF failed THEN {paused, FALSE} ELSE {FALSE}
       /\ pc' = IF failed \/ cmd.failed THEN "unknown" ELSE "converged"
       /\ cmd' = IF failed \/ cmd.failed THEN cmd ELSE NoCommand
  /\ UNCHANGED <<requested, widenVars>>

-----------------------------------------------------------------------------
\* clear-latch: it holds the device owner, so the daemon is down

\* settle_stuck_shrink: the live read that passes its guard ...
CliSettle ==
  /\ pc = "down"
  /\ saved.latched
  /\ requested < current
  /\ seen' = Live
  /\ pc' = "cli"
  /\ UNCHANGED <<deviceVars, controlVars, ready, cmd, localVars, elapsed,
                 guestVars, status, historyVars>>

\* ... and the retarget it sends, which may fail without an effect.
CliRetarget ==
  /\ pc = "cli"
  /\ requested' \in {seen.current} \cup (IF "unknown" \in Faults THEN {requested}
                                                             ELSE {})
  /\ Return("down")
  /\ UNCHANGED <<current, paused, inflight, controlVars, localVars, elapsed,
                 guestVars, status, historyVars>>

ClearLatch ==
  /\ pc = "down"
  /\ saved.latched
  /\ requested = current
  /\ save(clear_actuation_latch(saved, Live))
  /\ UNCHANGED <<deviceVars, frameVars, localVars, elapsed, guestVars, status,
                 historyVars>>

-----------------------------------------------------------------------------
\* The world

\* The guest's RAM figure follows the device, unless the guest may be late
\* in publishing it.
Telemetry(blocks) ==
  total' = IF "stale" \in Faults THEN total ELSE BaseRam + blocks

GuestPlug ==
  /\ ~paused /\ current < requested
  /\ current' = current + 1
  /\ Telemetry(current + 1)
  /\ UNCHANGED <<requested, paused, inflight, controlVars, frameVars,
                 localVars, elapsed, slot, low, status, historyVars>>

GuestUnplug ==
  /\ ~paused /\ current > requested
  /\ current' = current - 1
  /\ Telemetry(current - 1)
  /\ UNCHANGED <<requested, paused, inflight, controlVars, frameVars,
                 localVars, elapsed, slot, low, status, historyVars>>

\* A VM reset unplugs everything; the request survives it.
DeviceReset ==
  /\ "reset" \in Faults
  /\ current # 0
  /\ current' = 0
  /\ Telemetry(0)
  /\ UNCHANGED <<requested, paused, inflight, controlVars, frameVars,
                 localVars, elapsed, slot, low, status, historyVars>>

\* The guest writes its publication: a request (an older one again after a
\* snapshot revert, or one reusing an identity), its pressure and its RAM.
GuestPublish ==
  /\ slot' \in Requests \cup {None}
  /\ low' \in BOOLEAN
  /\ total' = BaseRam + current
  /\ UNCHANGED <<deviceVars, controlVars, frameVars, localVars, elapsed,
                 status, historyVars>>

ExternalResize ==
  /\ "external" \in Faults
  /\ requested' \in Blocks \ {requested}
  /\ UNCHANGED <<current, paused, inflight, controlVars, frameVars, localVars,
                 elapsed, guestVars, status, historyVars>>

\* An operator resumes a domain nobody is working on.
OperatorResume ==
  /\ "external" \in Faults
  /\ paused /\ pc \in {"down", "stopped"}
  /\ paused' = FALSE
  /\ UNCHANGED <<requested, current, inflight, controlVars, frameVars,
                 localVars, elapsed, guestVars, status, historyVars>>

LateApply ==
  /\ inflight # None
  /\ requested' = inflight /\ inflight' = None
  /\ UNCHANGED <<current, paused, controlVars, frameVars, localVars, elapsed,
                 guestVars, status, historyVars>>

\* Time: a poll interval, then the convergence timeout, without progress ...
StallTick ==
  /\ progress # None /\ progress.age < 2
  /\ progress' = [progress EXCEPT !.age = @ + 1]
  /\ UNCHANGED <<deviceVars, controlVars, frameVars, widen_due, widened,
                 extension, elapsed, guestVars, status, historyVars>>

\* ... and the settlement's own deadline, which a restart does not extend.
Deadline ==
  /\ saved.intent # None
  /\ saved.intent.direction \in {"SettleGrow", "SettleShrink"}
  /\ ~elapsed
  /\ elapsed' = TRUE
  /\ UNCHANGED <<deviceVars, controlVars, frameVars, localVars, guestVars,
                 status, historyVars>>

-----------------------------------------------------------------------------
Pending ==
  \/ PendingHold \/ PendingWatch
  \/ SettleStuckGrow \/ SettleLowShrink \/ SettleReachedShrink
  \/ SettleFloorShrink \/ HoldFloorShrink \/ ExtendShrink \/ SettleTimeout
Sink ==
  \/ SinkPass \/ RejectResize \/ RejectSettle \/ RejectExtend \/ RejectWiden
  \/ ApplyCommand \/ ApplyUnknown \/ HandleUnknown
  \/ WidenSuspend \/ WidenApply \/ WidenRestore \/ WidenResume
Daemon ==
  \/ ObserveUnreadable \/ ObserveLive
  \/ Pending
  \/ SkipWiden \/ StartWiden \/ ReadNothing \/ ReadRequest
  \/ ActRefuse \/ ActEmpty \/ ActCommand
  \/ Sink
Operator == CliSettle \/ CliRetarget \/ ClearLatch \/ OperatorResume
            \/ ExternalResize
World == GuestPlug \/ GuestUnplug \/ DeviceReset \/ GuestPublish \/ LateApply
         \/ StallTick \/ Deadline

Next == Start \/ Crash \/ Daemon \/ Operator \/ World

Spec == Init /\ [][Next]_vars

\* The daemon keeps polling, time passes, and a guest that can plug memory
\* eventually does.  Nothing says that the guest ever unplugs a block.
Fairness ==
  /\ WF_vars(Start)
  /\ WF_vars(Daemon)
  /\ WF_vars(StallTick)
  /\ WF_vars(Deadline)
  /\ WF_vars(GuestPlug)

FairSpec == Spec /\ Fairness

-----------------------------------------------------------------------------
\* Properties

Pcs == {"down", "cli", "poll", "pending", "converged", "act", "check", "apply",
        "unknown", "suspend", "widen", "restore", "resume", "stopped"}

\* Every variable has its type.  In particular all the saturating arithmetic of
\* grants, extensions and results stays within the device.
TypeOK ==
  /\ requested \in Blocks /\ current \in Blocks
  /\ paused \in BOOLEAN /\ inflight \in Blocks \cup {None}
  /\ control \in Controls /\ saved \in Controls
  /\ pc \in Pcs /\ seen \in States /\ cmd \in Commands
  /\ ready \in Readies \cup {None}
  /\ widen_due \in BOOLEAN /\ widened \in BOOLEAN
  /\ progress \in [at : Blocks, age : 0 .. 2] \cup {None}
  /\ extension \in [from : Blocks, step : 1 .. DeviceBlocks] \cup {None}
  /\ elapsed \in BOOLEAN
  /\ slot \in Requests \cup {None} /\ low \in BOOLEAN /\ total \in Totals
  /\ status \in Reports \cup {None}
  /\ executed \subseteq Ids /\ origin \in Blocks

OwnedIn(c) ==
  /\ c.request # None /\ c.result = None => c.intent # None /\ ~c.latched
  /\ c.intent # None => c.request # None /\ ~Terminal(c.result)

\* An admitted request without a result always has its command recorded and is
\* not latched, and a recorded command always has its request, still without a
\* final result.  This is what lets observe treat a replay with a result as
\* answered: after a crash at any point nothing admitted is without an owner.
UnresolvedOwned == OwnedIn(saved)

\* A request's resize is sent to libvirt at most once, across retransmissions,
\* refused commands, crashes, latches and cleared latches.
NeverTwice ==
  pc \in {"check", "apply"} /\ cmd.kind = "resize" =>
    control.request.id \notin executed

\* A command about to be sent is already in the checkpoint, with the very
\* target it requests, and actuation is not latched.
DurableBeforeCommand ==
  pc = "apply" => /\ saved.intent # None
                  /\ saved.intent.target = cmd.target
                  /\ ~saved.latched

\* A resize or an extension never asks the guest to go below min_ram or above
\* max_ram of the RAM it really has.
WithinLimits ==
  pc = "apply" /\ cmd.kind \in {"resize", "extend"} =>
    IF saved.intent.direction = "Shrink"
      THEN cmd.target >= saturating_sub(MinRam, BaseRam)
      ELSE cmd.target <= saturating_sub(MaxRam, BaseRam)

\* Between two polls, or with the daemon dead, a device that is not where it was
\* asked to be has an owner: a recorded command or a latch.  The exception is a
\* widening that was cut short with the domain still paused.
DivergenceOwned ==
  pc \in {"poll", "down", "stopped"} /\ requested # current =>
    saved.intent # None \/ saved.latched \/ paused

\* A final result in the checkpoint is only ever displaced by a newer request.
TerminalFinal ==
  [][Terminal(saved.result) /\ saved'.result # saved.result =>
       saved'.request.id > saved.request.id]_vars

\* The result of a request that ran measures the device's movement since that
\* request was admitted, whatever extensions, settlements, crashes and operator
\* commands came between.
ResultMeasuresMovement ==
  [][/\ saved'.result # saved.result
     /\ saved'.result # None
     /\ saved'.result.outcome \in {"Completed", "Partial"}
     => saved'.result.actual = Moved(saved'.request, origin, current)]_vars

\* What a guest may rely on: the controller, with its polls, settlements, latches
\* and crashes, is a host that admits requests in order, one at a time, records
\* each before its command and gives each one final result.
Promise ==
  INSTANCE RequestHost WITH
    SameId <- LAMBDA r, s : r.id = s.id,
    After <- LAMBDA r, s : r.id > s.id,
    journal <- [request |-> saved.request,
                outcome |-> IF saved.result = None THEN None ELSE saved.result.outcome],
    command <- saved.intent # None,
    latched <- saved.latched,
    hand <- IF pc = "act" THEN ready.request ELSE None,
    report <- IF status = None THEN None
              ELSE [request |-> status.request, outcome |-> status.outcome]
KeepsPromise == Promise!Spec

\* Every admitted request is eventually answered, even by a guest that never
\* unplugs a single block: held removals are extended and in the end settled.
Answered ==
  (saved.request # None /\ saved.result = None) ~> (saved.result # None)

-----------------------------------------------------------------------------
\* The inductive invariant behind UnresolvedOwned, NeverTwice,
\* DurableBeforeCommand and TerminalFinal: what the code relies on at each
\* place where it can be interrupted.

\* Whatever is in memory between two steps is on disk.
Synced == control = saved

\* A poll that found the device converged has no live command left.
Settled ==
  \/ pc \in {"converged", "suspend", "widen", "restore", "resume"}
  \/ pc \in {"check", "unknown"} /\ cmd.kind = "widen"
  => (control.intent # None => control.latched)

\* Only a request newer than everything journalled reaches act.
AtAct ==
  pc = "act" =>
    /\ ready # None /\ ~ready.replay
    /\ ~control.latched /\ control.intent = None
    /\ control.request # None => control.request.id < ready.request.id

\* A command on its way is the recorded one.
InCommand ==
  /\ pc \in {"check", "apply"} =>
       /\ cmd.kind # "none"
       /\ ~control.latched
       /\ cmd.kind # "widen" => /\ control.intent # None
                               /\ control.intent.target = cmd.target
  /\ pc = "apply" => cmd.kind # "widen"

\* Nothing newer than the journalled request was ever executed.
Watermark ==
  \A i \in executed : control.request # None /\ i <= control.request.id

IInv ==
  /\ TypeOK /\ UnresolvedOwned /\ Synced /\ Settled /\ AtAct /\ InCommand
  /\ Watermark /\ NeverTwice
============================================================================
