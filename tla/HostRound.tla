----------------------------- MODULE HostRound -----------------------------
(***************************************************************************)
(* The rounds of the host daemon over all its VMs: HostRuntime in          *)
(* host/src/runtime.rs, the shared pool (virtio-mem-core/src/pool.rs) and  *)
(* the host memory reserve (host/src/host_memory.rs).                      *)
(*                                                                         *)
(* A round observes every VM in configuration order, allocates the pool    *)
(* from what was observed, and executes the ready requests in priority     *)
(* order.  Nothing is locked meanwhile: the guests go on plugging and      *)
(* unplugging between a VM's observation and the commands that rely on it, *)
(* and a command nobody answered may take effect rounds later.             *)
(* A VM is reduced to what the pool and the reserve depend on: its device, *)
(* its recorded command and its latch (VmController has the rest).         *)
(***************************************************************************)
EXTENDS Integers

CONSTANTS
  N,            \* the number of VMs
  Priority,     \* larger is served first
  Device,       \* each device's maximum target
  Block,        \* each device's block size
  Minimum,      \* min_ram and max_ram less the guest's base RAM
  Maximum,
  Pool,         \* pool_bytes
  HostTotal,    \* host RAM that plugged memory is taken from
  Reserve,      \* host_min_headroom_bytes
  Margin,       \* GROW_ADMISSION_MARGIN_BYTES
  Faults,       \* which faults of the world a run allows
  None

FaultKinds == {"crash", "unreadable", "unread_start", "reject", "unknown", "late",
               "hasty", "reset", "race"}

\* The VMs, in configuration order.
VMs == 1 .. N

\* The settings files, as their validation leaves them.  Names, aliases and paths are
\* left out.
valid_globals == Pool > 0 /\ Reserve > 0
valid_list == VMs # {} /\ \A v \in VMs : Priority[v] > 0
validate_ram_limits(minimum, maximum) == minimum <= maximum

\* All of them are validated before the daemon starts; several VMs need a pool.
load_configuration ==
  valid_globals /\ valid_list /\ \A v \in VMs : validate_ram_limits(Minimum[v], Maximum[v])

ASSUME RoundAssumption ==
  /\ N \in Nat \ {0}
  /\ Priority \in [VMs -> Nat]
  /\ Device \in [VMs -> Nat] /\ Block \in [VMs -> Nat \ {0}]
  /\ \A v \in VMs : Device[v] % Block[v] = 0
  /\ Minimum \in [VMs -> Nat] /\ Maximum \in [VMs -> Nat]
  /\ {Pool, HostTotal, Reserve, Margin} \subseteq Nat
  /\ load_configuration
  /\ Faults \subseteq FaultKinds

\* Which way a command goes.
Directions == {"Grow", "Shrink", "SettleGrow", "SettleShrink"}
Intents == [direction : Directions, target : Nat]

ASSUME RoundNoneAssumption == None \notin Nat \cup Intents

VARIABLES
  requested, current,     \* the devices
  whole,                  \* a widening has the whole device requested for now
  paused,                 \* the domains that are suspended
  late,                   \* a target libvirt may still be about to request
  intent, latched,        \* the checkpoints
  stopped, last_charge, outstanding_growth,  \* VmController, process-local
  phase, turn,            \* where the round is
  observed,               \* what this round observed
  ceilings, committed,    \* the allocation and the HostBudget
  cmd                     \* the command being sent to libvirt

deviceVars == <<requested, current, whole, paused, late>>
checkpointVars == <<intent, latched>>
processVars == <<stopped, last_charge, outstanding_growth>>
roundVars == <<turn, observed, ceilings, committed>>
vars == <<deviceVars, checkpointVars, processVars, phase, roundVars, cmd>>

-----------------------------------------------------------------------------
\* Arithmetic and orders

saturating_sub(a, b) == IF a > b THEN a - b ELSE 0
least(a, b) == IF a <= b THEN a ELSE b
greatest(a, b) == IF a >= b THEN a ELSE b
align_down(value, alignment) == value - (value % alignment)

\* The sum of a quantity over the first VMs, and over all of them.
SumsOf(f) == LET sum[k \in 0 .. N] == IF k = 0 THEN 0 ELSE sum[k - 1] + f[k] IN sum
Total(f) == SumsOf(f)[N]

\* No amount exceeds the host's RAM, so it stands for u64::MAX.
Unbounded == HostTotal
saturating_add(a, b) == least(a + b, Unbounded)

\* Highest priority first, configuration order breaking ties.
Before(v, w) == Priority[v] > Priority[w] \/ (Priority[v] = Priority[w] /\ v < w)

\* Faulty variant: configuration order only.
ConfigOrder == [k \in VMs |-> k]

\* The VMs sorted.
PriorityOrder ==
  CHOOSE order \in [VMs -> VMs] :
    /\ \A v \in VMs : \E k \in VMs : order[k] = v
    /\ \A j, k \in VMs : j < k => Before(order[j], order[k])

-----------------------------------------------------------------------------
\* The pool

\* Faulty variant: a grant does not use up the free bytes.
serve_undiminished(acc, v, member) ==
  LET wanted == saturating_sub(member.desired, member.charged)
      granted == align_down(least(wanted, acc.free), member.block)
  IN [free |-> acc.free, ceiling |-> [acc.ceiling EXCEPT ![v] = member.charged + granted]]

\* One turn of allocate_pool's loop.
serve(acc, v, member) ==
  LET wanted == saturating_sub(member.desired, member.charged)
      granted == align_down(least(wanted, acc.free), member.block)
  IN [free |-> acc.free - granted,
      ceiling |-> [acc.ceiling EXCEPT ![v] = member.charged + granted]]

\* The loop: what is free, and the ceilings set, after its first turns.
turns_of(members) ==
  LET start == [free |-> saturating_sub(Pool, Total([v \in VMs |-> members[v].charged])),
                ceiling |-> [v \in VMs |-> 0]]
      after[k \in 0 .. N] ==
        IF k = 0 THEN start
        ELSE serve(after[k - 1], PriorityOrder[k], members[PriorityOrder[k]])
  IN after
allocate_pool(members) == turns_of(members)[N].ceiling

\* The growth a ready VM asks for, under its guest's maximum.
Wanted(v) == least(observed[v].bytes, saturating_sub(Maximum[v], observed[v].charge))

\* pool_member: what a VM holds and wants.  A VM never read since the daemon
\* started is charged the whole pool.
pool_member(v) ==
  LET seen == observed[v]
      charged == IF seen.charge = None THEN Pool ELSE seen.charge
  IN [charged |-> charged,
      desired |-> charged + (IF seen.op = "Add" THEN Wanted(v) ELSE 0),
      block |-> IF seen.charge = None THEN 1 ELSE Block[v]]

-----------------------------------------------------------------------------
\* State

Ops == {"Held", "Add", "Remove"}
Held(charge) == [op |-> "Held", bytes |-> 0, charge |-> charge]
NoCommand == [kind |-> "none", vm |-> 0, target |-> 0, seen |-> <<0, 0>>, prior |-> 0]

Available == HostTotal - Total(current)

\* The requested size that libvirt shows; requested[v] is what a widening restores.
Request(v) == IF whole[v] THEN Device[v] ELSE requested[v]
Holding(v) == greatest(Request(v), current[v])
Target(v) == IF intent[v] = None THEN 0 ELSE intent[v].target
First == 1

\* The process starts with nothing known and nothing stopped.
Forget ==
  /\ stopped' = [v \in VMs |-> FALSE]
  /\ last_charge' = [v \in VMs |-> None]
  /\ outstanding_growth' = [v \in VMs |-> None]
NewRound ==
  /\ turn' = First
  /\ observed' = [v \in VMs |-> Held(None)]
  /\ ceilings' = [v \in VMs |-> 0] /\ committed' = 0
  /\ cmd' = NoCommand

Init ==
  /\ requested \in [VMs -> 0 .. Pool]
  /\ \A v \in VMs : requested[v] <= Device[v] /\ requested[v] % Block[v] = 0
  /\ Total(requested) <= Pool /\ Total(requested) <= HostTotal - Reserve
  /\ current = requested
  /\ whole = [v \in VMs |-> FALSE] /\ paused = [v \in VMs |-> FALSE]
  /\ late = [v \in VMs |-> None]
  /\ intent = [v \in VMs |-> None] /\ latched = [v \in VMs |-> FALSE]
  /\ stopped = [v \in VMs |-> FALSE]
  /\ last_charge = [v \in VMs |-> None]
  /\ outstanding_growth = [v \in VMs |-> None]
  /\ phase = "observe" /\ turn = First
  /\ observed = [v \in VMs |-> Held(None)]
  /\ ceilings = [v \in VMs |-> 0] /\ committed = 0
  /\ cmd = NoCommand

-----------------------------------------------------------------------------
\* Phase one: observe

\* The loop moves to the next VM, or to the allocation.
Advance ==
  /\ phase' = IF turn + 1 \in VMs THEN "observe" ELSE "allocate"
  /\ turn' = IF turn + 1 \in VMs THEN turn + 1 ELSE turn
Observe(charge) ==
  observed' = [observed EXCEPT ![turn] = Held(charge)]
Latch(v) == latched' = [latched EXCEPT ![v] = TRUE]

\* The live read fails.  An owned operation is latched; the pool keeps the last
\* known charge.
ObserveUnreadable ==
  /\ phase = "observe"
  /\ \/ "unreadable" \in Faults
     \/ "unread_start" \in Faults /\ last_charge[turn] = None
  /\ latched' = [latched EXCEPT ![turn] =
                   @ \/ (~stopped[turn] /\ intent[turn] # None)]
  /\ Observe(last_charge[turn])
  /\ Advance
  /\ UNCHANGED <<deviceVars, intent, processVars, ceilings, committed, cmd>>

\* Both observe and observe_stopped charge the larger of the request, the
\* allocation and the recorded target, and count what is still to be plugged.
Charge == greatest(Holding(turn), Target(turn))
Account ==
  /\ last_charge' = [last_charge EXCEPT ![turn] = Charge]
  /\ outstanding_growth' = [outstanding_growth EXCEPT ![turn] =
       saturating_sub(greatest(Request(turn), Target(turn)), current[turn])]

ObserveStopped ==
  /\ phase = "observe" /\ stopped[turn]
  /\ Account
  /\ Observe(Charge)
  /\ Advance
  /\ UNCHANGED <<deviceVars, checkpointVars, stopped, ceilings, committed, cmd>>

\* resolve_intent, as far as ownership goes.
Reached == intent[turn] # None /\ {Request(turn), current[turn]} = {Target(turn)}
Contradicted == intent[turn] # None /\ Request(turn) # Target(turn)
Resolve ==
  /\ intent' = [intent EXCEPT ![turn] = IF Reached THEN None ELSE @]
  /\ latched' = [latched EXCEPT ![turn] = @ \/ Contradicted]
Diverged == Request(turn) # current[turn]
Owned == intent[turn] # None /\ ~Contradicted

ObserveHeld ==
  /\ phase = "observe" /\ ~stopped[turn]
  /\ Account /\ Resolve
  /\ Observe(Charge)
  /\ Advance
  /\ UNCHANGED <<deviceVars, stopped, ceilings, committed, cmd>>

\* A converged, unlatched VM ...
AtRest == ~Diverged /\ ~latched[turn] /\ (intent[turn] = None \/ Reached)

\* ... whose guest asks for something.
GuestAsks(charge) ==
  \E op \in {"Add", "Remove"}, bytes \in 1 .. Device[turn] :
    observed' = [observed EXCEPT ![turn] =
                   [op |-> op, bytes |-> bytes, charge |-> charge]]

ObserveReady ==
  /\ phase = "observe" /\ ~stopped[turn]
  /\ AtRest
  /\ Account /\ Resolve
  /\ GuestAsks(current[turn])
  /\ Advance
  /\ UNCHANGED <<deviceVars, stopped, ceilings, committed, cmd>>

Send(kind, target) ==
  cmd' = [kind |-> kind, vm |-> turn, target |-> target,
          seen |-> <<Request(turn), current[turn]>>, prior |-> committed]

Settling(direction) == IF direction = "Grow" THEN "SettleGrow" ELSE "SettleShrink"

\* observe_pending sends a command of its own: settle at the current allocation
\* or extend a removal.  Neither needs pool bytes.
ObservePending(kind, target) ==
  /\ phase = "observe" /\ ~stopped[turn]
  /\ Diverged /\ Owned /\ ~latched[turn]
  /\ intent[turn].direction \in {"Grow", "Shrink"}
  /\ Account
  /\ intent' = [intent EXCEPT ![turn] =
       [direction |-> IF kind = "settle" THEN Settling(@.direction) ELSE @.direction,
        target |-> target]]
  /\ Observe(Charge)
  /\ Send(kind, target)
  /\ phase' = "check"
  /\ UNCHANGED <<deviceVars, latched, stopped, turn, ceilings, committed>>

ObserveSettle == ObservePending("settle", current[turn])
ObserveExtend ==
  /\ intent[turn] # None /\ intent[turn].direction = "Shrink"
  /\ \E target \in 0 .. Device[turn] :
       /\ target < Request(turn) /\ target % Block[turn] = 0
       /\ ObservePending("extend", target)

\* A settlement misses its deadline: the VM is latched, stopped and observed
\* again as a stopped one.
ObserveTimeout ==
  /\ phase = "observe" /\ ~stopped[turn]
  /\ Diverged /\ Owned /\ intent[turn].direction \in {"SettleGrow", "SettleShrink"}
  /\ Account
  /\ Latch(turn)
  /\ stopped' = [stopped EXCEPT ![turn] = TRUE]
  /\ Observe(Charge)
  /\ Advance
  /\ UNCHANGED <<deviceVars, intent, ceilings, committed, cmd>>

-----------------------------------------------------------------------------
\* What a virsh command does

\* The command of this phase takes effect.
Perform ==
  /\ \/ /\ phase = "apply"
        /\ requested' = [requested EXCEPT ![cmd.vm] = cmd.target]
        /\ whole' = [whole EXCEPT ![cmd.vm] = FALSE]
        /\ paused' = paused
     \/ /\ phase = "suspend" /\ paused' = [paused EXCEPT ![cmd.vm] = TRUE]
        /\ UNCHANGED <<requested, whole>>
     \/ /\ phase = "widen" /\ whole' = [whole EXCEPT ![cmd.vm] = TRUE]
        /\ UNCHANGED <<requested, paused>>
     \/ /\ phase = "restore" /\ whole' = [whole EXCEPT ![cmd.vm] = FALSE]
        /\ UNCHANGED <<requested, paused>>
     \/ /\ phase = "resume" /\ paused' = [paused EXCEPT ![cmd.vm] = FALSE]
        /\ UNCHANGED <<requested, whole>>
  /\ UNCHANGED <<current, late>>

\* Nobody answers it: it had its effect, will never have it, or, a resize, will have
\* it later.  libvirt runs a domain's commands in their order, so a request for the
\* whole device that was not answered either is overtaken by nothing but its restore.
Unanswered ==
  \/ UNCHANGED deviceVars
  \/ Perform
  \/ /\ phase = "apply" /\ "late" \in Faults
     /\ late' = [late EXCEPT ![cmd.vm] = cmd.target]
     /\ UNCHANGED <<requested, current, whole, paused>>
  \/ /\ phase = "restore" /\ whole' = [whole EXCEPT ![cmd.vm] = TRUE]
     /\ UNCHANGED <<requested, current, paused, late>>
Unknown == "unknown" \in Faults /\ Unanswered

-----------------------------------------------------------------------------
\* The widening: outside the pool and the reserve, the whole device is requested for
\* a moment, while the guest is suspended.

Live(v) == <<Request(v), current[v]>>
widenVars == <<intent, last_charge, outstanding_growth, roundVars>>

\* A growth has settled short, so part of the device is left.  Whether nothing of it
\* was plugged, and this is the first time, is left open.
WidenStart ==
  /\ phase = "observe" /\ ~stopped[turn]
  /\ AtRest /\ Reached
  /\ intent[turn].direction = "SettleGrow" /\ Request(turn) < Device[turn]
  /\ Account /\ Resolve
  /\ Observe(Charge)
  /\ Send("widen", Device[turn])
  /\ phase' = "suspend"
  /\ UNCHANGED <<deviceVars, stopped, turn, ceilings, committed>>

\* Rejected before anything was asked for, or the suspension reports a failure.
WidenReject ==
  /\ phase = "suspend"
  /\ \/ (Live(turn) # cmd.seen \/ "reject" \in Faults) /\ UNCHANGED deviceVars
     \/ Unknown
  /\ phase' = "read"
  /\ UNCHANGED <<latched, stopped, widenVars, cmd>>

WidenSuspend ==
  /\ phase = "suspend"
  /\ Live(turn) = cmd.seen
  /\ Perform
  /\ phase' = "widen"
  /\ UNCHANGED <<latched, stopped, widenVars, cmd>>

\* A failed request may have been carried out all the same: the restore always runs.
WidenApply ==
  /\ phase = "widen"
  /\ \/ Perform /\ cmd' = cmd
     \/ Unknown /\ cmd' = [cmd EXCEPT !.kind = "failed"]
  /\ phase' = "restore"
  /\ UNCHANGED <<latched, stopped, widenVars>>

WidenRestore ==
  /\ phase = "restore"
  /\ Perform
  /\ phase' = "resume"
  /\ UNCHANGED <<latched, stopped, widenVars, cmd>>

WidenResume ==
  /\ phase = "resume" /\ cmd.kind = "widen"
  /\ Perform
  /\ phase' = "read"
  /\ UNCHANGED <<latched, stopped, widenVars, cmd>>

\* The restore failed twice and the domain is left paused, the resume failed, or the
\* request for the whole device had: the VM is latched, stopped and observed as such.
WidenUnknown ==
  /\ \/ phase \in {"restore", "resume"} /\ Unknown
     \/ phase = "resume" /\ cmd.kind = "failed" /\ Perform
  /\ Latch(turn)
  /\ stopped' = [stopped EXCEPT ![turn] = TRUE]
  /\ phase' = "observe"
  /\ cmd' = NoCommand
  /\ UNCHANGED widenVars

\* The observation goes on with the state read before the widening.
ReadGuest ==
  /\ phase = "read"
  /\ observed' = observed \/ GuestAsks(observed[turn].charge)
  /\ Advance
  /\ cmd' = NoCommand
  /\ UNCHANGED <<deviceVars, checkpointVars, processVars, ceilings, committed>>

-----------------------------------------------------------------------------
\* Allocation, and phase two: act

Allocate ==
  /\ phase = "allocate"
  /\ ceilings' = allocate_pool([v \in VMs |-> pool_member(v)])
  /\ committed' = LET owed(v) == IF outstanding_growth[v] = None THEN Unbounded
                                 ELSE outstanding_growth[v]
                  IN least(Total([v \in VMs |-> owed(v)]), Unbounded)
  /\ phase' = "act"
  /\ UNCHANGED <<deviceVars, checkpointVars, processVars, turn, observed, cmd>>

ReadyVMs == {v \in VMs : observed[v].op # "Held"}
Chosen ==
  PriorityOrder[CHOOSE k \in VMs : /\ PriorityOrder[k] \in ReadyVMs
                                   /\ \A j \in 1 .. k - 1 : PriorityOrder[j] \notin ReadyVMs]
Acting == phase = "act" /\ ReadyVMs # {}
Take(v) == observed' = [observed EXCEPT ![v] = Held(None)]

\* What act grants.
Grant(v) ==
  LET seen == observed[v]
      at == seen.charge
      host == saturating_sub(saturating_sub(
                saturating_sub(Available, committed), Reserve), Margin)
      free == least(least(Wanted(v), Device[v] - at),
                    least(saturating_sub(ceilings[v], at), host))
  IN IF seen.op = "Add" THEN align_down(free, Block[v])
     ELSE align_down(least(seen.bytes, saturating_sub(at, Minimum[v])), Block[v])

\* The request expired, is misaligned, is only observed, or nothing is granted.
ActNothing ==
  /\ Acting
  /\ Take(Chosen)
  /\ UNCHANGED <<deviceVars, checkpointVars, processVars, phase, turn, ceilings,
                 committed, cmd>>

\* Faulty variant: the round's budget does not remember a grant.
Forgotten(growth) == committed
\* Growth is reserved before the command is sent.
Commit(growth) == saturating_add(committed, growth)

ActCommand ==
  /\ Acting
  /\ LET v == Chosen
         add == observed[v].op = "Add"
         at == observed[v].charge
         grant == Grant(v)
         target == IF add THEN at + grant ELSE at - grant
         growth == saturating_sub(target, at)
     IN /\ observed[v].bytes % Block[v] = 0 /\ grant > 0
        /\ intent' = [intent EXCEPT ![v] =
             [direction |-> IF add THEN "Grow" ELSE "Shrink", target |-> target]]
        /\ committed' = Commit(growth)
        /\ outstanding_growth' = [outstanding_growth EXCEPT ![v] = growth]
        /\ cmd' = [kind |-> "resize", vm |-> v, target |-> target,
                   seen |-> <<at, at>>, prior |-> committed]
        /\ Take(v)
  /\ phase' = "check"
  /\ UNCHANGED <<deviceVars, latched, stopped, last_charge, turn, ceilings>>

\* The daemon ends once every VM has stopped.
EndRound ==
  /\ phase = "act" /\ ReadyVMs = {}
  /\ NewRound
  /\ IF \A v \in VMs : stopped[v] THEN phase' = "down" /\ Forget
     ELSE phase' = "observe" /\ UNCHANGED processVars
  /\ UNCHANGED <<deviceVars, checkpointVars>>

-----------------------------------------------------------------------------
\* The resize sink: re-read live state and the host's memory, then send

\* After a command of phase one the loop goes on; after one of phase two the
\* next ready VM is served.
Continue ==
  /\ cmd' = NoCommand
  /\ IF cmd.kind = "resize" THEN phase' = "act" /\ turn' = turn ELSE Advance

\* validate_grow_headroom, against what the round had committed before.
Authorized ==
  LET grow == cmd.target - cmd.seen[2]
      available == saturating_sub(Available, cmd.prior)
  IN cmd.kind = "resize" /\ grow > 0 =>
       grow <= available /\ available - grow >= Reserve

SinkPass ==
  /\ phase = "check"
  /\ Live(cmd.vm) = cmd.seen /\ Authorized
  /\ phase' = "apply"
  /\ UNCHANGED <<deviceVars, checkpointVars, processVars, roundVars, cmd>>

\* A rejected resize releases its intent, a rejected extension restores its
\* target, a rejected settlement latches.
SinkReject ==
  /\ phase = "check"
  /\ Live(cmd.vm) # cmd.seen \/ ~Authorized \/ "reject" \in Faults
  /\ LET v == cmd.vm
     IN /\ intent' = [intent EXCEPT ![v] =
             IF cmd.kind = "resize" THEN None
             ELSE IF cmd.kind = "extend" THEN [@ EXCEPT !.target = cmd.seen[1]]
             ELSE @]
        /\ latched' = [latched EXCEPT ![v] = @ \/ cmd.kind = "settle"]
        /\ outstanding_growth' = [outstanding_growth EXCEPT ![v] =
             IF cmd.kind = "resize" THEN 0 ELSE @]
  /\ Continue
  /\ UNCHANGED <<deviceVars, stopped, last_charge, observed, ceilings, committed>>

SinkApply ==
  /\ phase = "apply"
  /\ Perform
  /\ Continue
  /\ UNCHANGED <<checkpointVars, processVars, observed, ceilings, committed>>

\* The outcome is unknown: latch, and stop a VM that may be growing.
SinkUnknown ==
  /\ phase = "apply"
  /\ Unknown
  /\ Latch(cmd.vm)
  /\ stopped' = [stopped EXCEPT ![cmd.vm] =
       @ \/ (cmd.kind = "resize" /\ intent[cmd.vm].direction = "Grow")]
  /\ Continue
  /\ UNCHANGED <<intent, last_charge, outstanding_growth, observed, ceilings, committed>>

-----------------------------------------------------------------------------
\* The process and the world

Start ==
  /\ phase = "down"
  /\ phase' = "observe"
  /\ UNCHANGED <<deviceVars, checkpointVars, processVars, roundVars, cmd>>

\* The command that was being sent is not answered to anybody.
Crash ==
  /\ "crash" \in Faults /\ phase # "down"
  /\ Unanswered
  /\ phase' = "down" /\ Forget /\ NewRound
  /\ UNCHANGED checkpointVars

LateApply ==
  /\ \E v \in VMs :
       /\ late[v] # None
       /\ requested' = [requested EXCEPT ![v] = late[v]]
       /\ whole' = [whole EXCEPT ![v] = FALSE]
       /\ late' = [late EXCEPT ![v] = None]
  /\ UNCHANGED <<current, paused, checkpointVars, processVars, phase, roundVars, cmd>>

\* clear-latch.  Unless "hasty", the operator waits for a command nobody answered.
ClearLatch ==
  /\ phase = "down"
  /\ \E v \in VMs :
       /\ latched[v] /\ Request(v) = current[v]
       /\ late[v] = None \/ "hasty" \in Faults
       /\ latched' = [latched EXCEPT ![v] = FALSE]
       /\ intent' = [intent EXCEPT ![v] = None]
  /\ UNCHANGED <<deviceVars, processVars, phase, roundVars, cmd>>

\* The operator puts a domain left paused back: its request first, then it runs.
Recover ==
  /\ \E v \in VMs :
       /\ paused[v]
       /\ phase \in {"suspend", "widen", "restore", "resume"} => cmd.vm # v
       /\ whole' = [whole EXCEPT ![v] = FALSE]
       /\ paused' = [paused EXCEPT ![v] = FALSE]
  /\ UNCHANGED <<requested, current, late, checkpointVars, processVars, phase, roundVars, cmd>>

Move(v, size) ==
  /\ current' = [current EXCEPT ![v] = size]
  /\ UNCHANGED <<requested, whole, paused, late, checkpointVars, processVars, phase,
                 roundVars, cmd>>

\* A suspended guest moves nothing.
GuestPlug ==
  \E v \in VMs :
    /\ ~paused[v] /\ current[v] < Request(v)
    /\ Move(v, current[v] + Block[v])

\* With "race" the guest may unplug between a command's last live read and its
\* effect, at once or late.
Racing(v) == (phase = "apply" /\ cmd.vm = v) \/ (late[v] # None /\ late[v] > Request(v))
GuestUnplug ==
  \E v \in VMs :
    /\ ~paused[v] /\ current[v] > Request(v)
    /\ Racing(v) => "race" \in Faults
    /\ Move(v, current[v] - Block[v])

DeviceReset == "reset" \in Faults /\ \E v \in VMs : current[v] # 0 /\ Move(v, 0)

Next ==
  \/ ObserveUnreadable \/ ObserveStopped \/ ObserveHeld \/ ObserveReady
  \/ ObserveSettle \/ ObserveExtend \/ ObserveTimeout
  \/ WidenStart \/ WidenReject \/ WidenSuspend \/ WidenApply
  \/ WidenRestore \/ WidenResume \/ WidenUnknown \/ ReadGuest
  \/ Allocate \/ ActNothing \/ ActCommand \/ EndRound
  \/ SinkPass \/ SinkReject \/ SinkApply \/ SinkUnknown
  \/ Start \/ Crash \/ LateApply \/ ClearLatch \/ Recover
  \/ GuestPlug \/ GuestUnplug \/ DeviceReset

Spec == Init /\ [][Next]_vars

-----------------------------------------------------------------------------
\* Properties

\* A VM may come to hold what it was asked for, unless it is suspended.
Occupied(v) == IF paused[v] THEN current[v] ELSE Holding(v)

\* The VMs together never occupy more than the pool, each occupying the larger of
\* what it was asked to hold and what it holds: no guest ever runs with a request
\* outside the pool, that of a widening included, and no command that comes late
\* takes what was given away.
PoolRespected == Total([v \in VMs |-> Occupied(v)]) <= Pool

\* The RAM promised to guests never eats into the host's reserve, however growth
\* of several VMs, in one round or in successive ones, widenings and commands that
\* come late overlap.
ReserveKept == Total([v \in VMs |-> Occupied(v)]) <= HostTotal - Reserve

\* A VM's growth is not held back by the pool for one of lower priority: what the
\* VMs after it get in the same round is less than a block it could still use.
PriorityServed ==
  phase = "act" =>
    \A v, w \in VMs :
      LET given(x) == ceilings[x] - observed[x].charge
      IN /\ Before(v, w) /\ observed[v].op = "Add" /\ observed[w].op = "Add"
         /\ Wanted(v) - given(v) >= Block[v]
         => given(w) < Block[v]
=============================================================================
