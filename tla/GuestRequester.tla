--------------------------- MODULE GuestRequester ---------------------------
(***************************************************************************)
(* The guest's half of the request protocol: the one-slot requester        *)
(* (virtio-mem-core/src/guest_policy.rs), its durable state                *)
(* (windows/src/requests.rs), the worker that polls and publishes          *)
(* (windows/src/runtime.rs) and the replacement of its two files           *)
(* (windows/src/demand.rs).                                                *)
(*                                                                         *)
(* Whatever the host writes into the status file is the environment's      *)
(* choice; RequestProtocol puts the host there.  The estimate of demand is *)
(* a free choice per poll.  Sizes are counted in device blocks, time in    *)
(* ticks of both the wall clock and the monotonic clock.                   *)
(*                                                                         *)
(* One poll is a walk of pc from "idle" back to "idle".  It pauses before  *)
(* the state file is replaced and before the publication is: a stop, a     *)
(* crash or a full disk may come between.                                  *)
(***************************************************************************)
EXTENDS Integers

CONSTANTS
  DeviceBlocks,         \* the device's maximum size
  GrowStep, ShrinkStep, \* GuestMemoryPolicy.grow_step and shrink_step
  MinDelay, MaxDelay,   \* bounds of the retry delay
  MaxTime,              \* bound: how far the wall clock runs
  MaxStarts,            \* bound: how often the service starts
  GuestFaults,          \* which faults of the world a run allows
  Conditions,           \* what the samples and the device of a run may show
  None                  \* Option::None

GuestFaultKinds == {"crash", "power", "io", "partial", "stale", "rollback"}

\* Windows' Low, the critical line, a surplus over the whole history, and a device
\* that has not reached what was requested.
ConditionKinds == {"low", "critical", "surplus", "diverged"}

ASSUME GuestAssumption ==
  /\ DeviceBlocks \in Nat \ {0}
  /\ GrowStep \in Nat \ {0} /\ ShrinkStep \in Nat \ {0}
  /\ MinDelay \in Nat \ {0} /\ MaxDelay \in Nat /\ MinDelay <= MaxDelay
  /\ MaxTime \in Nat \ {0} /\ MaxStarts \in Nat
  /\ GuestFaults \subseteq GuestFaultKinds
  /\ Conditions \subseteq ConditionKinds

Blocks == 0 .. DeviceBlocks
Times == 0 .. MaxTime
Operations == {"Add", "Remove"}

\* session and sequence are the identity; issued is the wall clock.
Requests == [session : Nat, sequence : Nat, issued : Times,
             operation : Operations, bytes : 1 .. DeviceBlocks]
Outcomes == {"Completed", "Partial", "PoolEmpty", "Rejected", "Uncertain"}
Results == [request : Requests, outcome : Outcomes]
Statuses == [requested : Blocks, current : Blocks, result : Results \cup {None}]
RequestStates == [pending : Requests \cup {None}, watermark : Times]
Estimates == [desired : Blocks, safe_floor : Blocks, maximum : Blocks,
              history_ready : BOOLEAN]

ASSUME GuestNoneAssumption == None \notin Requests \cup Results \cup Statuses

VARIABLES
  now,                     \* the wall clock
  starts,                  \* how often the service has started: its session
  pc,                      \* where the worker is
  stop,                    \* the stop signal
  state,                   \* GuestRequester.state, in memory
  disk,                    \* the request-state file
  next_sequence, retry, retry_delay, native_low, numeric_critical,
  decision,                \* the request this poll publishes
  publication,             \* the request in the file the host reads
  status,                  \* the host's status file
  sent,                    \* history: requests that were ever published
  answered                 \* history: requests whose result was consumed

clockVars == <<now, starts>>
policyVars == <<next_sequence, retry, retry_delay, native_low, numeric_critical>>
historyVars == <<sent, answered>>
guestVars == <<clockVars, pc, stop, state, disk, policyVars, decision,
               publication, historyVars>>

least(a, b) == IF a <= b THEN a ELSE b
greatest(a, b) == IF a >= b THEN a ELSE b
saturating_sub(a, b) == IF a > b THEN a - b ELSE 0

-----------------------------------------------------------------------------
\* The policy

\* plan_request: the delta for a converged device, or None to hold.
plan_request(estimate, current) ==
  LET target == greatest(greatest(saturating_sub(current, ShrinkStep),
                                  estimate.desired), estimate.safe_floor)
  IN IF current < estimate.desired
       THEN [operation |-> "Add", bytes |-> estimate.desired - current]
     ELSE IF /\ current > estimate.desired
             /\ estimate.history_ready
             /\ target < current
       THEN [operation |-> "Remove", bytes |-> current - target]
     ELSE None

\* Windows' Low asks for at least one step, up to the effective maximum.
Urged(estimate, current, low) ==
  IF low THEN [estimate EXCEPT !.desired =
                 greatest(@, least(current + GrowStep, estimate.maximum))]
         ELSE estimate

\* Faulty variant: an uncertain result frees the slot, too.
AnyAnswer(result) == result # None /\ result.request = state.pending

\* Only the final result of the retained request frees the slot.
Resolves(result) ==
  /\ result # None
  /\ result.request = state.pending
  /\ result.outcome # "Uncertain"

\* Faulty variant: the watermark is not consulted.
AnyTime == TRUE

\* After a wall clock rollback, wait until it passes the watermark.
ClockPassed == now > state.watermark

\* A failed operation is not repeated before its delay, unless a growth has
\* just become urgent.
BackedOff(operation, urgent) ==
  /\ retry # None /\ retry.operation = operation /\ retry.left > 0
  /\ ~(operation = "Add" /\ urgent)

NextDelay == least(greatest(2 * retry_delay, MinDelay), MaxDelay)

\* Faulty variant: the watermark stays where it was.
IssuedUnmarked(request) == [pending |-> request, watermark |-> state.watermark]
Issued(request) == [pending |-> request, watermark |-> now]

-----------------------------------------------------------------------------
\* The service

NoState == [pending |-> None, watermark |-> 0]

\* A new process knows what the state file holds.
Fresh ==
  /\ next_sequence' = 0
  /\ retry' = None /\ retry_delay' = 0
  /\ native_low' = FALSE /\ numeric_critical' = FALSE
  /\ decision' = None
  /\ stop' = FALSE

Init ==
  /\ now = 1 /\ starts = 0
  /\ pc = "down" /\ stop = FALSE
  /\ state = NoState /\ disk = NoState
  /\ next_sequence = 0 /\ retry = None /\ retry_delay = 0
  /\ native_low = FALSE /\ numeric_critical = FALSE
  /\ decision = None /\ publication = None /\ status = None
  /\ sent = {} /\ answered = {}

\* Of the checks GuestRequester::new makes of a retained request, the one that compares
\* it with the watermark.  The others have nothing to refuse here: the states are those
\* of one VM and one service, and a request of Requests is well-formed.
Restorable(s) == s.pending # None => s.pending.issued <= s.watermark

Start ==
  /\ pc = "down" /\ starts < MaxStarts
  /\ Restorable(disk)
  /\ pc' = "idle"
  /\ starts' = starts + 1
  /\ state' = disk
  /\ Fresh
  /\ UNCHANGED <<now, disk, publication, status, historyVars>>

Stop ==
  /\ pc # "down" /\ ~stop
  /\ stop' = TRUE
  /\ UNCHANGED <<clockVars, pc, state, disk, policyVars, decision, publication,
                 status, historyVars>>

\* The process ends: whatever was in memory is gone.
End ==
  /\ pc' = "down"
  /\ state' = NoState
  /\ Fresh
  /\ UNCHANGED <<clockVars, disk, status, historyVars>>

\* The loop ends at a stop; a crash or an error ends it anywhere.
Exit ==
  /\ \/ pc = "idle" /\ stop
     \/ pc # "down" /\ "crash" \in GuestFaults
     \/ pc \in {"idle", "persist", "publish"} /\ "io" \in GuestFaults /\ ~stop
  /\ End
  /\ UNCHANGED publication

\* The publication is not flushed: an earlier one may be back.
PowerLoss ==
  /\ "power" \in GuestFaults /\ pc # "down"
  /\ publication' \in sent \cup {None}
  /\ End

-----------------------------------------------------------------------------
\* One poll

Polling == pc = "idle" /\ ~stop

\* read_status: nothing while the file is missing or half written.
Read == {status} \cup (IF "partial" \in GuestFaults THEN {None} ELSE {})
ResultIn(seen) == IF seen = None THEN None ELSE seen.result

Lows == IF "low" \in Conditions THEN BOOLEAN ELSE {FALSE}
Criticals == IF "critical" \in Conditions THEN BOOLEAN ELSE {FALSE}
Sample(low, critical) == native_low' = low /\ numeric_critical' = critical

\* Retransmit the retained request unchanged.
Await ==
  /\ Polling /\ state.pending # None
  /\ \E seen \in Read : ~Resolves(ResultIn(seen))
  /\ \E low \in Lows, critical \in Criticals : Sample(low, critical)
  /\ decision' = state.pending
  /\ pc' = "publish"
  /\ UNCHANGED <<clockVars, stop, state, disk, next_sequence, retry, retry_delay,
                 publication, status, historyVars>>

\* The result arrived; the next sample decides what follows.
Consume ==
  /\ Polling /\ state.pending # None
  /\ \E seen \in Read :
       LET result == ResultIn(seen)
           completed == result.outcome = "Completed"
       IN /\ Resolves(result)
          /\ answered' = answered \cup {result.request}
          /\ retry_delay' = IF completed THEN 0 ELSE NextDelay
          /\ retry' = IF completed THEN None
                      ELSE [operation |-> result.request.operation, left |-> NextDelay]
  /\ \E low \in Lows, critical \in Criticals : Sample(low, critical)
  /\ state' = [state EXCEPT !.pending = None]
  /\ decision' = None
  /\ pc' = "persist"
  /\ UNCHANGED <<clockVars, stop, disk, next_sequence, publication, status, sent>>

\* What this poll would ask for, given a fresh status of a converged device.
FreshNow == IF "stale" \in GuestFaults THEN BOOLEAN ELSE {TRUE}
Plan(seen, fresh, estimate, low) ==
  IF seen # None /\ fresh /\ seen.requested = seen.current
    THEN plan_request(Urged(estimate, seen.current, low), seen.current)
    ELSE None
Urgent(low, critical) == (low /\ ~native_low) \/ (critical /\ ~numeric_critical)
Permitted(plan, low, critical) ==
  /\ plan # None
  /\ ClockPassed
  /\ ~BackedOff(plan.operation, Urgent(low, critical))
Reachable(estimate) ==
  /\ estimate.desired <= estimate.maximum
  /\ estimate.history_ready => "surplus" \in Conditions

Hold ==
  /\ Polling /\ state.pending = None
  /\ \E seen \in Read, fresh \in FreshNow, estimate \in Estimates,
        low \in Lows, critical \in Criticals :
       /\ Reachable(estimate)
       /\ ~Permitted(Plan(seen, fresh, estimate, low), low, critical)
       /\ Sample(low, critical)
  /\ decision' = None
  /\ pc' = "publish"
  /\ UNCHANGED <<clockVars, stop, state, disk, next_sequence, retry, retry_delay,
                 publication, status, historyVars>>

Issue ==
  /\ Polling /\ state.pending = None
  /\ \E seen \in Read, fresh \in FreshNow, estimate \in Estimates,
        low \in Lows, critical \in Criticals :
       LET plan == Plan(seen, fresh, estimate, low)
       IN /\ Reachable(estimate)
          /\ Permitted(plan, low, critical)
          /\ Sample(low, critical)
          /\ decision' = [session |-> starts, sequence |-> next_sequence,
                          issued |-> now, operation |-> plan.operation,
                          bytes |-> plan.bytes]
  /\ state' = Issued(decision')
  /\ next_sequence' = next_sequence + 1
  /\ pc' = "persist"
  /\ UNCHANGED <<clockVars, stop, disk, retry, retry_delay, publication, status,
                 historyVars>>

\* Faulty variant: a stop does not keep the publication from being written.
UnlessLate == TRUE
UnlessStopped == ~stop

\* replace_file on the state file ...
Persist ==
  /\ pc = "persist"
  /\ disk' = state
  /\ pc' = "publish"
  /\ UNCHANGED <<clockVars, stop, state, policyVars, decision, publication, status,
                 historyVars>>

\* ... which a stop abandons, reporting success.
PersistAbandoned ==
  /\ pc = "persist" /\ stop
  /\ pc' = "publish"
  /\ UNCHANGED <<clockVars, stop, state, disk, policyVars, decision, publication,
                 status, historyVars>>

Publish ==
  /\ pc = "publish" /\ UnlessStopped
  /\ publication' = decision
  /\ sent' = IF decision = None THEN sent ELSE sent \cup {decision}
  /\ pc' = "idle"
  /\ UNCHANGED <<clockVars, stop, state, disk, policyVars, decision, status,
                 answered>>

PublishAbandoned ==
  /\ pc = "publish" /\ stop
  /\ pc' = "idle"
  /\ UNCHANGED <<clockVars, stop, state, disk, policyVars, decision, publication,
                 status, historyVars>>

-----------------------------------------------------------------------------
\* The world

\* Both clocks advance.
Tick ==
  /\ now' = least(now + 1, MaxTime)
  /\ retry' = IF retry # None /\ retry.left > 0 THEN [retry EXCEPT !.left = @ - 1]
              ELSE retry
  /\ UNCHANGED <<starts, pc, stop, state, disk, next_sequence, retry_delay,
                 native_low, numeric_critical, decision, publication, status,
                 historyVars>>

Rollback ==
  /\ "rollback" \in GuestFaults
  /\ now' \in 1 .. now
  /\ UNCHANGED <<starts, pc, stop, state, disk, policyVars, decision, publication,
                 status, historyVars>>

\* The host may write anything about the requests it has seen.
Environment ==
  /\ \E requested, current \in Blocks,
        result \in [request : sent, outcome : Outcomes] \cup {None} :
       status' = [requested |-> requested, current |-> current, result |-> result]
  /\ UNCHANGED guestVars

Poll == Await \/ Consume \/ Hold \/ Issue \/ Persist \/ PersistAbandoned
        \/ Publish \/ PublishAbandoned
Guest == Start \/ Stop \/ Exit \/ PowerLoss \/ Poll \/ Tick \/ Rollback

Next == Guest \/ Environment

vars == <<guestVars, status>>
Spec == Init /\ [][Next]_vars

-----------------------------------------------------------------------------
\* Properties

Pcs == {"down", "idle", "persist", "publish"}
Retries == [operation : Operations, left : 0 .. MaxDelay]

\* Every variable has its type: in particular plan_request never asks for nothing
\* or for more than the device, and delays stay within their bounds.
TypeOK ==
  /\ now \in Times /\ starts \in Nat
  /\ pc \in Pcs /\ stop \in BOOLEAN
  /\ state \in RequestStates /\ disk \in RequestStates
  /\ next_sequence \in Nat
  /\ retry \in Retries \cup {None} /\ retry_delay \in 0 .. MaxDelay
  /\ native_low \in BOOLEAN /\ numeric_critical \in BOOLEAN
  /\ decision \in Requests \cup {None}
  /\ publication \in Requests \cup {None}
  /\ status \in Statuses \cup {None}
  /\ sent \subseteq Requests /\ answered \subseteq Requests

\* "A published request is always retained": whatever the host may have read is
\* in the state file, until its own final result was consumed.  A crash, a full
\* disk or a stop between the two files never makes the guest forget a request
\* the host may have admitted.
PublishedRetained == \A r \in sent : r = disk.pending \/ r \in answered

\* Each newly published request was issued later than all published before it,
\* across restarts and clock rollbacks: the host's watermark never refuses it.
IssuedInOrder == [][\A r \in sent' \ sent, s \in sent : s.issued < r.issued]_vars

-----------------------------------------------------------------------------
\* The inductive invariant

\* The worker's memory is on disk wherever it may still publish.
Synced == pc \in {"idle", "publish"} /\ ~stop => state = disk

\* A state file about to be replaced holds nothing that is still unanswered.
Replaceable ==
  pc = "persist" /\ disk.pending # None => disk.pending \in answered

\* What is to be published is the slot's contents.
Decided == pc \in {"persist", "publish"} => decision = state.pending

\* The file on disk and the one being written are issued at their watermark,
\* later than everything published before.
Ahead(s) ==
  /\ s.pending # None => s.pending.issued = s.watermark
  /\ \A r \in sent :
       /\ r.issued <= s.watermark
       /\ s.pending # None /\ r # s.pending => r.issued < s.watermark

IInv ==
  /\ TypeOK /\ PublishedRetained /\ Synced /\ Replaceable /\ Decided
  /\ Ahead(disk)
  /\ pc # "down" => Ahead(state)
  /\ publication # None => publication \in sent
=============================================================================
