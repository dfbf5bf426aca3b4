# A verification project for the virtio-mem controller

The repository lets a Windows guest ask for memory, and lets a daemon on the
KVM host give it or take it back by changing the requested size of the guest's
virtio-mem device through libvirt. This directory holds TLA+ models of that
system, the TLC configurations that check them on small instances, and proofs,
checked by TLAPS, that hold for every instance.

Contents: [the system](#the-system) · [the modules](#the-modules) ·
[the runs](#the-runs) · [what is proved](#what-is-proved) ·
[findings](#findings-and-known-disagreements) · [what is not modelled](#what-is-not-modelled) ·
[the plan](#the-plan) · [how to run it](#how-to-run-it)

## The system

| component | state it keeps | operations | what makes it correct |
|---|---|---|---|
| per-VM controller (`host/src/runtime.rs`, `VmController`) | control state (latch, command intent, request journal), process-local bookkeeping (widening, stall clock, extension step, last charge, outstanding growth) | `observe`, `observe_pending`, `extend_shrink`, `settle_short`, `act`, `refuse`, `latch`, `widen_usable_region`, `publish` | a request runs at most once, is never forgotten, and its result is the real movement |
| request journal (`core/memory_request.rs`) | last admitted request, its result | `admit`, `record_result` | a final result never changes; older requests never come back |
| checkpoint (`host/src/checkpoint.rs`) | one file: latch, intent, journal, attestation fingerprint | `load`, `save`, `command_ownership`, `movement_result`, `clear_actuation_latch` | what is on disk explains every divergence of the device |
| resize sink (`host/src/resize_sink.rs`) | none | guarded resize, widening (suspend, request all, restore, resume) | a command is sent only over the state it was computed from |
| host rounds, pool, reserve (`host/src/runtime.rs`, `core/pool.rs`, `host/src/host_memory.rs`) | per round: observations, ceilings, budget | `round`, `allocate`, `pool_member`, `allocate_pool`, `validate_grow_headroom` | the VMs together stay in the pool and leave the host its reserve; priority is respected |
| operator commands (`host/src/cli.rs`) | none | `clear-latch` (with the settlement of a stuck removal), `status` | recovery forgets nothing and reruns nothing |
| controller status (`core/controller_status.rs`, `checkpoint.rs`) | none | `read_controller_status` | a snapshot of two moments is consistent, and says when a review is due |
| ownership (`host/src/ownership.rs`) | a lock per device and per checkpoint | acquire, release on exit | one process per device, under whatever name |
| attestation (`host/src/attestation.rs`, `core/compatibility.rs`, `xtask/src/attestation.rs`) | a document per VM | collect, compare, write | no command without evidence that was seen whole; a restart is not drift |
| guest channel (`host/src/guest_channel.rs`, `qga.rs`) | last status written, and when | read the publication in chunks, truncate and write the status | never acts on half a file; leaks no handle; the status repairs itself |
| libvirt session (`host/src/libvirt.rs`) | a worker thread and its connection | call with a timeout, abandon, reconnect | a call that hangs spoils no later one |
| virsh runner (`host/src/virsh.rs`) | a process group | run with timeout and shutdown | bounded time, nothing left behind |
| host wake-ups (`host/src/wake.rs`) | channels, retry times, event subscription | connect, wait, drain | a hint is never lost, a closed source never spins |
| daemon entry and settings (`host/src/main.rs`, `config.rs`, `core/settings.rs`) | none | own the device, read evidence, open the checkpoint; validate | start-up in that order |
| guest request policy (`core/guest_policy.rs`) | pending request, retry delay, reclaim state | `plan_request`, `poll` | one request at a time; the slot is freed by its own result only |
| target estimator (`core/target_controller.rs`) | bucketed window of samples, target, floor | `estimate`, `invalidate_history` | growth at once, reclaim only on a full window, limits kept |
| Windows worker (`windows/src/runtime.rs`, `requests.rs`, `demand.rs`) | persisted request state, publication | `poll`, atomic publish, wait | a request is persisted before it is published |
| Windows service (`windows/src/service_host.rs`, `service_scm.rs`, `wake.rs`, `main.rs`) | SCM state, stop signal, event channel, doorbell | install, start, stop, report, wait | a stop is never lost; SCM is told what is so; failures are recovered |
| qualification (`xtask/src/qualification.rs`, `virtio-mem-workload.rs`) | status, release, guard and sample files | start, launch, guard, supervise, judge | a pass means what it says, and the controller is always stopped again |
| host runner (`xtask/src/host_run.rs`) | a child daemon | run, stop, join | leaves nothing running |
| deployment (`xtask/src/host_deploy.rs`, `windows.rs`, `build_identity.rs`) | files, backups, build record | snapshot, back up, install, roll back | nothing is lost, and what is reported is installed |
| measurement and developer tools (rest of `tools/xtask`) | none | read, render | not modelled |

How they interact. The guest writes one file with its pressure, its RAM total
and at most one request; the host's guest channel reads it through the QEMU
guest agent. A round of the host daemon observes every VM (live XML, then the
guest's file), allocates the pool, and lets the ready VMs act in priority order.
Acting records the admission and the intended command in the checkpoint, and
then sends the command with `virsh`. The guest's memory driver plugs or unplugs
blocks in its own time; later polls find the device converged, stuck or
contradicted, and write the result into a status file in the guest. A
contradiction latches the VM: it sends no more commands until an operator clears
the latch with the daemon stopped.

What is hard about it:

- nothing is locked: the guest moves blocks, an operator and other tools resize
  the device, between the daemon's read and its command;
- a `virsh` command may fail, time out, or take effect after its timeout;
- the daemon may die anywhere, in particular between the save and the command
  or inside the four commands of the widening;
- requests are retransmitted, restored from snapshots, and time out;
- several VMs draw on one pool and on host RAM that shows a promise only once
  the guest has plugged it;
- a removal may never make progress, and it occupies the only request slot;
- the guest's service replaces two files per poll, its state and its publication:
  a stop, a crash, a full disk or a power loss may come between them, and the host
  may read either side of it.
- the guest agent may hang, answer late or fail between two chunks; its status
  write truncates first, and an abandoned call may still take effect;
- the Windows service has four threads, and a stop may meet any of them anywhere;
- deployments and qualification runs are long sequences of fallible commands on
  two machines, cut off by timeouts and interrupts.

`PROJECT.json` lists these as hazards, each at its line.

## The modules

### `VmController`

One VM and everything that races with it. Sizes are counted in device blocks.

State. `requested` and `current` are the device, `paused` the domain,
`inflight` a timed-out command that libvirt may still apply. `control` is the
controller's control state in memory and `saved` the checkpoint file.
`pc`, `seen`, `ready` and `cmd` are the frame of the poll in progress (the
`VirtioMemState` it read, the `Observed::Ready` it carries, the command it is
sending). `widen_due`, `widened`, `progress` and `extension` are the
process-local fields that a restart loses. `slot`, `low` and `total` are the
guest's publication, `status` the file the guest reads. `executed` and `origin`
are history variables that no action reads.

Granularity. A poll is a walk of `pc` from `"poll"` back to `"poll"`. It pauses
where the world can change under the code and where a crash makes a difference:
after the live read, before the guest's file is read, before `act`, before and
after every `virsh` command. Between two pauses the code touches only its own
memory and one file, so one action stands for all of it, the trailing `save` and
`publish` included. Saving is a write to a temporary file and a rename, hence
atomic.

| actions | code |
|---|---|
| `Start`, `Crash` | `VmController::new`, end of the process (also the orderly end of a stopped VM) |
| `ObserveUnreadable`, `ObserveLive` | `observe`, up to `resolve_intent` and the convergence test |
| `PendingHold`, `PendingWatch`, `SettleStuckGrow`, `SettleLowShrink`, `SettleTimeout` | `observe_pending`, `settle_short`, `convergence_timeout` |
| `SettleReachedShrink`, `SettleFloorShrink`, `HoldFloorShrink`, `ExtendShrink` | `extend_shrink` |
| `SkipWiden`, `StartWiden`, `ReadNothing`, `ReadRequest` | `observe` on a converged device, up to the admission |
| `ActRefuse`, `ActEmpty`, `ActCommand` | `act`, `refuse`, `record_unexecuted` |
| `SinkPass`, `Reject*`, `ApplyCommand`, `ApplyUnknown`, `HandleUnknown` | `resize_sink.rs` and its callers' error paths |
| `WidenSuspend`, `WidenApply`, `WidenRestore`, `WidenResume` | `widen_usable_region_guarded` |
| `CliSettle`, `CliRetarget`, `ClearLatch` | `cli.rs` |
| `GuestPlug`, `GuestUnplug`, `DeviceReset`, `GuestPublish`, `ExternalResize`, `OperatorResume`, `LateApply`, `StallTick`, `Deadline` | the world |

Abstractions. A request's identity, sequence and issue time are one increasing
number (the guest's issue times strictly increase and the journal orders
requests by them). Its validity at an instant is a free choice when `"expire"`
is allowed. The compatibility evidence, an unreadable second read and a shutdown
request are one free `"reject"`. The pool ceiling and the host reserve enter a
grant as one free number `room`; `HostRound` models where it comes from. The two
time thresholds of a stalled resize (a poll interval, the convergence timeout)
are the ages 1 and 2 of `progress`. `MaxId` bounds the identities a guest uses.
`record_result`'s refusal to replace a final result is not part of the model:
`TerminalFinal` shows that no caller ever needs it.

### `HostRound`

All VMs of a daemon: a round observes each one in configuration order, allocates
the pool from the observations, then serves the ready VMs by priority. Each VM is
reduced to what the pool and the reserve depend on: its device, its recorded command
(direction and target), its latch, its widening, and a command that may still land. The
host's available RAM is the total less what is plugged: it does not show what was
promised, which is why the code keeps `outstanding_growth` and `committed`.

The widening (`WidenStart`, `WidenReject`, `WidenSuspend`, `WidenApply`, `WidenRestore`,
`WidenResume`, `WidenUnknown`) requests the whole device for a moment, outside pool and
reserve, while the guest is `paused`. `whole` says that libvirt shows that request, and
`requested` keeps what the restore asks for. Each command may fail, time out or be the
daemon's last (`Unknown`, `Crash`), and the domain may be left paused with the whole
device requested until an operator puts its request back and resumes it (`Recover`). The
properties count what a VM may come to hold (`Occupied`): its request, unless it is
suspended. Whether a widening is due (nothing plugged, the first time) is left open. A
command nobody answered took effect, never will, or is `late` and lands in any later
round (`LateApply`); libvirt runs the commands for one domain in their order. A
suspension or a resumption is not made to land late: by then the request is the VM's own
again, and the domain stays paused or runs on. `ClearLatch` waits for a late command
unless `"hasty"` is among the faults (disagreement 7).

`phase` and `turn` say where the round is; `observed`, `ceilings`, `committed`
are the round's locals, `last_charge`, `outstanding_growth` and `stopped` the
controllers' fields, lost by a crash. `allocate_pool` is the algorithm of
`pool.rs`, turn by turn (`serve`) in priority order: `turns_of` is what is free, and
the ceilings set, after each turn. Amounts are in
units of the smallest block; VMs have different block sizes. `Unbounded` (no
amount exceeds the host's RAM) stands for `u64::MAX`. `RoundAssumption` is what
`settings.rs` guarantees of a configuration that loads (`valid_globals`,
`valid_list`, `validate_ram_limits`); `RoundNoneAssumption` says that `None` is no
size and no command.

### `RequestHost`

What the host promises to a guest that sends it requests through one slot, without
polls, devices, files or memory: take a request that is newer than the journalled
one while nothing stands unresolved, decline it or begin its command, write one
final result, latch, be cleared, report. It is used twice. `VmController`
implements it: `KeepsPromise` is its specification under the refinement mapping
that takes the journal, the intent and the latch from the checkpoint, the request
in hand from a poll that has reached `act`, and the report from the status file.
`RequestProtocol` composes it with the guest, so what is checked there holds of
anything that keeps the promise.

### `GuestRequester`

The guest's half: `GuestRequester` of `guest_policy.rs`, its state file
(`windows/src/requests.rs`), the worker (`windows/src/runtime.rs`) and the
replacement of the two files (`windows/src/demand.rs`).

State. `state` is the requester's slot and issue watermark in memory, `disk` the
same in its file; `next_sequence`, `retry`, `retry_delay`, `native_low` and
`numeric_critical` are lost by a restart. `decision` is the request this poll will
publish, `publication` the one in the file the host reads, `status` the file the
host writes. `now` is the wall clock; `starts` counts the starts of the service
and stands for the random session part of an identity. `sent` (requests ever
published) and `answered` (requests whose result was consumed) are histories;
only `PowerLoss` reads `sent`, to bring an old publication back.

Granularity. A poll pauses before the state file is replaced and before the
publication is. A replacement is a rename, so it happens or not.

| actions | code |
|---|---|
| `Start` | `GuestRequests::open`, `GuestRequester::new` with the check of a retained request against its watermark (`Restorable`); its other checks, of form and identity, have nothing to refuse in the states of one VM and one service |
| `Await`, `Consume`, `Hold`, `Issue` | `GuestRequester::poll`: retransmit, resolve, plan nothing, issue |
| `Persist`, `PersistAbandoned`, `Publish`, `PublishAbandoned` | `replace_file`, and its early return when the service is stopping |
| `Stop`, `Exit`, `PowerLoss` | the stop signal, the loop's end (stop, error, crash), a power loss that takes the unflushed publication |
| `Tick`, `Rollback`, `Environment` | clocks; the host, free to write anything about requests it has seen |

Abstractions. `Conditions` bounds what the samples and the device may show (low memory,
the critical line, a full history, a device away from its request); a run that leaves one
out has fewer reasons to issue, hold or hurry. The estimate (desired size, safe floor,
maximum, whether the history is long enough) is a free choice at each poll, constrained
only by desired <= maximum and by `Conditions`: `target_controller.rs` is a component of its own. Both clocks
move in the same ticks. A sample that cannot be taken skips the poll and changes
nothing. A status file that is missing or half written reads as no status, one that
is too old plans nothing (`"stale"`). The state file is flushed and survives a power loss, the publication is
not; a revert of the guest's disk to a snapshot is left out here and is part of
`VmController`'s `GuestPublish`.

### `RequestProtocol`

`GuestRequester` with `RequestHost` in place of its environment, sharing the
publication and the status file. The host reads and writes them in its own time.
A refusal is of two kinds: `"expire"` is final, `"transient"` (a latch, clocks
that disagree) may be followed by an admission of the same request.

### `StatusReport`

`virtio-mem-host status` over `VmController`'s state: `read_controller_status`
joins the checkpoint with a live device read before it, and `Valid` is the contract
of `controller_status.rs`. `StatusTruthful` quantifies over what the device may have
been when it was read, so no action is needed for the reader.

### `GuestService`

The Windows service as a process: installation, `service_main`, the hosting thread's
event loop, the worker thread, SCM's control handler, the doorbell.

State. `registration`, `acl` and `installer` are the service database and an
installation in progress; `scm` is what SCM was last told. `cancelled`, `callback` and
`native` are the stop signal's three parts, and `cancelling` says who is inside
`StopSignal::cancel` and how far. `events` is the channel to the hosting thread, whose
locals follow. `channel`, `read`, `event` and `port` are the serial doorbell. `rung`
and `roused` are histories.

| actions | code |
|---|---|
| `provision_program_data_acl`, `create_service`, `configure_service`, `remove_service` | `service_scm.rs`, install and its undoing |
| `start_service`, `Recover`, `service_control_handler`, `Crash` | SCM |
| `CancelFlag`, `CancelDrain`, `CancelEvent` | `StopSignal::cancel`, in its order |
| `MainRegister`, `MainConfigure`, `MainAlreadyStopped`, `MainHost`, `MainSpawn` | `service_main`, `run_with_status` up to the loop |
| `MainStop`, `MainInitialized`, `MainRunning`, `MainFinished`, `DeadlinePasses`, `MainTimeout`, `MainFinish`, `MainReturn` | the loop, the shutdown deadline, the final report |
| `WorkerStart` ... `WorkerEnd`, `PollArm`, `PollSample` | `run_worker`, its waits, a panic |
| `arm`, `open`, `refresh`, `notify`, `Ring` | `wake.rs` |
| `LowMemory` | Windows' low-memory notification |

What a poll decides is `GuestRequester`'s and the estimator's; here it succeeds, is
skipped, fails or never ends.

### `TargetEstimator`

`estimate` with its history. `calculate_instantaneous` and the rounding are
translated; sizes are small numbers with a block of more than one unit. Times are
ages counted back from the last sample, since the code only subtracts them.
`Evidence` is the reference definition: the samples of the last window themselves
(`window`, `since`, histories), which the code has only in buckets. Actions:
`Estimate` (a sample accepted), `EstimateFails`, `InvalidateHistory`, `Restart`.

### `GuestWorker`

`GuestService` and `TargetEstimator` side by side. They share no variable, so one of
them runs (`part`) and the other stays as it was created.

### `HostLink`

One guest's files through the guest agent over the shared libvirt session. A round is
a walk of `pc` through the agent's commands: `ReadXml`, `OpenRead`, `ReadChunk`,
`CloseRead`, `Act`, `Report`, `OpenWrite`, `Write`, `CloseWrite`. Every call may be
answered, refused, answered with garbage, or time out: then the session's worker is
abandoned (`abandon`) and its command joins `late`, from where `LateCommand` may
execute it at any later time. `Publish` replaces the guest's file between chunks.
A publication is its size in chunks and whether it validates; a status is whole, torn
or empty.

### `HostWake`

The daemon between its rounds. `Enter` ... `Leave` is a round with its `virsh`
commands (`VirshEnds`, `VirshKilled`, over a process group), `Notify` and `Connect`
handle the wake channels, `PollReturns`, `Drain`, `PollTimeout` and `PollStop` the
wait, `EventsEnd` the subscription. `RunnerStops`, `RunnerWaits` and `RunnerReturns`
are `host_run.rs`. `unanswered` and `endings` are histories.

### `Qualification`

One qualification run: `start` (`Start*`), the root launcher (`Root*`), the guard
(`Guard*`), the supervisor (`Sup*`) and the workload (`Load*`), which meet in files.
Each step may fail, `StarterDies` and `SupDies` kill the two unprivileged processes,
the controller may fail and the device may move at any time. `analyze` and `classify`
are the judgement over the `observations` that `counted` collects.

### `HostSupervision`

`HostWake` and `Qualification`: either runs while the other is over or not begun.

### `HostOperations`

Everything that may act on one device: two daemons and `clear-latch`, over a domain
that is renamed, redefined and restarted (`Change`) and attested (`CollectXml`,
`CollectArgv`: evidence in two reads). A daemon takes the device, reads its
fingerprint and opens the checkpoint, then records, authorises, sends and resolves or
latches a command. A lock is gone with its process. Live evidence is modelled with what it
contains of allocation state and of run-time identifiers, so that the scrubbing has
something to do; the live side's six calls (`attestation.rs:264-292`) are one step
(`Compatible`), an attestation's two.

A command succeeds (`Succeeds`), or its client fails (`Fails`) and it took effect, never
will, or is under way: `command` is then `"late"`, and `Land` lets it take effect or be
lost at any later time, whoever runs by then. `clear-latch` reads the device (`Settle`),
requests what the guest has kept (`Retarget`), reads again and accepts only a device at
rest (`Resettle`), and clears (`Clear`). `authorised`, `refused` and `landed` (a late
command took effect after `clear-latch`'s last look) are histories.

### `HostDeploy`, `GuestDeploy`

`xtask host-deploy` as `Snapshot`, `Validate`, `Hash`, `Backup`, `MoveDropin`,
`InstallFile` per file, `ArchiveLegacy`, `Disable`, `Conclude`, `WriteEvidence`; `Fail`
and `TearFile` may end it at every step, `Edit`, `StartUnit` and `StopUnit` go on
around it.

`xtask windows` as sync (`Identify`, `Archive`, `Extract`), build, fetch,
deploy with its PowerShell script and rollback (`Throw`, `Undo*`), uninstall and
service-cycle; `GiveUp` and `Die` end a command, `LateBuild` is a build that outlived
its command. With `"unchecked"`, each command whose exit code or error the script does
not look at may fail, and the script goes on: `reg.exe export` (1273), `sc.exe delete`
before the installation (1292), and in the rollback `Stop-Service` and `sc.exe delete`
(1332), `Remove-Item` (1334) and `reg.exe import` (1335); `held.silent` remembers which of
those a rollback rests on. An executable that still runs cannot be replaced
(`UndoRefused`), a service that is not there cannot be started (`UndoStart`): both end the
rollback with an error of their own. An executable is the identity compiled into it and the sources it was
compiled from.

### `Operations`

The three modules above side by side; one of them runs.

### `MCVmController`, `MCHostRound`, `MCRequestProtocol`, `MCGuestService`, `MCHostLink`, `MCHostWake`, `MCOperations`

The instances TLC checks. No definition is overridden; `MCHostRound` gives the
per-VM constants as tuples, `MCGuestService` the estimator's limits and loads.

### The proofs

`VmControllerProofs` and `VmPromiseProofs` (about `VmController`, `StatusReport` and the
refinement of `RequestHost`), `HostRoundProofs`, `RequestProtocolProofs` (about
`GuestRequester` and about `RequestProtocol`), `OperationsProofs` (about `HostOperations`, `HostDeploy`, `GuestDeploy` and their
composition), `GuestServiceProofs` (about `GuestService`, `TargetEstimator` and
`GuestWorker`), `HostSupervisionProofs` (about `HostWake` and `Qualification`) and
`HostLinkProofs` hold the theorems of "What is proved".

## The runs

| run | instance | checks |
|---|---|---|
| `vm_faults` | 1 block, 2 identities, 8 fault kinds | `TypeOK`, `UnresolvedOwned`, `NeverTwice`, `TerminalFinal`, `KeepsPromise` |
| `vm_limits` | 4 blocks, 1 identity, min_ram and max_ram that bite, crashes, rejected and unknown commands, unreadable guest | `DurableBeforeCommand`, `WithinLimits`, `DivergenceOwned`, `StatusTruthful`, `ResultMeasuresMovement` |
| `vm_live` | 3 blocks, fairness, unknown and late commands, unreadable live state | `Answered` |
| `round_pool` | 2 VMs with block sizes 1 and 2, pool of 4, 7 fault kinds (all but a VM unreadable after it was read, and a hasty clear) | `PoolRespected`, `PriorityServed` |
| `round_reserve` | the same VMs, host RAM the scarce resource; crashes, VMs not yet read, rejected, unknown and late commands | `ReserveKept` |
| `protocol_slot` | 1 block, 2 starts, 3 ticks; crashes, power loss, failed writes, clock rollback; a host that latches and refuses; no conditions | `PublishedRetained`, `RetainedAdmissible`, `SlotAgreed`, `FaithfulAnswer`, `IssuedInOrder` |
| `protocol_live` | 1 tick, 2 starts, fairness, stale status, a host that latches, all conditions | `Served` |
| `service_life` | 2 starts, 1 bell, all 7 fault kinds; estimator with device 7, blocks of 2, window 4 in at most 4 entries | `WaitsForNews`, `ScmTruthful`, `StopsAndRecovers`; `TargetFits`, `ReclaimOnEvidence` |
| `host_link` | 2 statuses, 1 fault, 1 replacement of the publication, a limit of 2 chunks | `ReadsCleanly`, `LinkHeals`, `StatusHeals` |
| `host_wake` | 2 peers, 3 lost channels; qualification with 1 block, 1 line of lag | `WokenByNews`, `NothingLeft`, `RoundsUntilStop`; `PassTruthful`, `OwnershipBounded` |
| `operations` | 2 daemons, `clear-latch`, 2 names (daemons and names symmetric), 2 changes, 2 attestations, 3 starts; 1 edit, 2 host deployments; 2 trees, 8 guest commands, all 5 fault kinds | `OneActuator`, `ResumedUnderEvidence`, `EvidenceExact`, `ClearedQuiet`; `EvidenceHolds`; `ReportsTruthful`; `FilesKept` (of both deployments) |
| `round_stale_charge` | small | the finding |

What they show.

- `vm_faults`: whatever the order of crashes, unreadable live state, expired
  requests, rejected and unknown commands, foreign resizes, device resets, lost
  status writes and cleared latches, an admitted request always has an owner, is
  sent at most once, and keeps its final result until a newer request displaces
  it; and every behaviour of the controller is one of `RequestHost`. (A late
  command is a foreign resize at the moment it lands, so nothing is lost by
  leaving `"late"` to `vm_live`.)
- `vm_limits`: a command is on disk before it is sent. Grants and extensions
  respect `min_ram` and `max_ram`. Between polls a diverged device has an owner,
  except inside a cut-short widening. A result measures the movement since
  admission, whatever extensions and settlements came between. A status read at any
  moment is consistent, and one that asks for no review is right about it.
- `vm_live`: every admitted request gets a result, even from a guest that never
  unplugs a block, and when commands fail, time out or land late, or the device
  cannot be read: then the result is "uncertain", and the latch waits for an
  operator.
- `round_pool`: with crashes, VMs not yet read, rejected, unknown and late commands,
  widenings that fail or are cut off anywhere, resets and racing guests, the VMs together
  stay within the pool; no bytes go to a lower priority that a higher one could have used.
  A request for a whole device passes the pool, but no guest runs under it: it is restored
  before the domain is resumed, or the domain stays paused.
- `round_reserve`: growth of two VMs, in one round or overlapping over rounds, does not
  eat the host's reserve, although a growth nobody answered may land rounds later and a
  widening asks for a whole device without consulting the reserve. Device resets and a guest that unplugs under a
  settlement are excluded: with either the property fails, for one round, because
  `outstanding_growth` was computed before. Nothing in the repository claims
  otherwise; the first is listed as a hazard.
- `protocol_slot`: whatever the host may have read is in the guest's state file until
  its own final result was consumed, and what the guest retains is always a request the
  host will take: of an identity not used before and issued after the last one, although
  the clock is set back, the service restarted in between or an old publication brought
  back. The guest never moves on from a request that the host holds unresolved, and what
  it acts on is the answer in the host's journal.
- `protocol_live`: a request in the guest's state file is eventually resolved,
  through stops, restarts, latches and late status files.
- `service_life`: a stop ends the worker or the process, wherever it meets them, even
  if the worker hangs. SCM hears of states in a legal order, hears "stopped" only from a
  service that can no longer publish, and "stopped cleanly" only after it asked. A
  failed worker is started again. A bell is heard by a poll that starts after it, and a
  standing low-memory signal wakes the worker once. The estimator lowers its target or
  its floor only on a full, unbroken window, keeps the window through bucketing, covers
  the need of the moment and stays within the RAM limits.
- `host_link`: what the daemon accepts is one whole, valid file within the limit. As
  long as calls are answered no handle is left open. After a hang, a failed or garbled
  call or a lost connection, reading resumes, and the status file in the guest says what
  it should for good, even if an abandoned command overwrote it.
- `host_wake`: no hint is lost while its channel lives, the end of the subscription
  cuts one wait short, rounds go on, a stop ends everything, and `host-run` returns
  with nothing left. A passing qualification has restored the unit, counted no sample of
  a dead controller, and has seen the device grow and shrink; the unit it started does
  not stay active for good, whichever of the unprivileged processes dies.
- `operations`: under renames, redefinitions, restarts and crashes one process acts on
  the device; what it resumes was recorded under its own evidence, what it sends is
  attested as a whole; a restart is never refused as drift; a latch goes only from a
  device at rest, and only a restart of the guest, or a command that lands after
  `clear-latch`'s last look, may have moved it since. Deployments on host and guest, cut short anywhere and repeated,
  lose no file; the configuration installed is the one validated, a daemon running when
  the evidence is written runs what was deployed, a successful guest deployment
  installed the recorded build, and a rolled back one has put back every file it found,
  and everything else too unless a command failed that the script does not check.

Bounds, and why they are enough. In `vm_faults` two identities give a newer and
an older request, a replay and a reused identity with other contents; one block
gives a growth and a removal, and "moved" and "not moved". Larger devices only add
partial movement, which is what `vm_limits` is about: four blocks let an extension
double once (1, then 2, `MaxExtension`), meet the floor, and pass it by one if the
arithmetic is wrong; one identity suffices since its properties concern one
request's life. In `HostRound` two VMs with different blocks already have every
relation the allocation distinguishes: a higher and a lower priority, one served
in full, in part, or not at all, and a remainder smaller than the larger block.
Ages stop at 2, the larger threshold.

In `protocol_slot` three ticks give two requests, the second issued after the first was
answered, and a clock that was set back meanwhile and has to pass the watermark again;
two starts give a restart in every state of the first request, with an old
publication around. `plan_request` has growth, removal and hold with one block; the
conditions that only make it hurry or hold are left to `protocol_live`.
`protocol_live` follows one request (one tick, so a rollback would change nothing there):
that a second one cannot be mistaken for it is `SlotAgreed`. `MaxStarts` ends the guest's life in the
model, so `Served` excludes a guest that is never started again.

`service_life`: two starts are a failure and its recovery, or a stop and a new start;
one byte in the port is a bell that arrives while the previous one is handled. The
device of 7 is no multiple of its block of 2, the bases 2 and 3 are one with and one
without a remainder, and the window of 4 in at most 4 entries makes buckets of two
samples. `host_link`: one fault, but its late command, its lost handle and the recovery
all follow from it; a publication of up to three chunks passes the limit of two.
`host_wake`: two peers, one lost while the other rings, and three losses, so that one
can be lost again after its retry; one block is the growth and the reclaim a
qualification looks for. `operations`: two names and three starts are a daemon per name
and a `clear-latch`; two changes are a redefinition and a restart or a rename between
any two steps; two host deployments are one cut short and its repetition, and eight
guest commands are a sync, build, fetch and deploy, an edit, and the same again or an
uninstallation. Its daemons and its names are interchangeable and all its properties are
invariants and action properties, so the symmetry is sound. Deadlock is not checked in the last four runs: a stopped service, an
exited daemon, a judged qualification and an operator at the end of the bounds take no
further step.

Fairness of `vm_live`. The daemon's loop has no exit but a stop (`HostRuntime::run`
polls for ever, and every `virsh` call is bounded by a timeout), hence weak
fairness of `Start` and `Daemon`. Time passes: `StallTick`, `Deadline`. A guest
with memory to plug plugs it: `GuestPlug` - the code itself depends on it only to
leave a growth that moves now and then. Nothing is assumed of unplugging. The run
has no crashes, since a daemon that is killed at every poll answers nobody.

Fairness of `protocol_live`. The worker polls until it is stopped, and is started
again (weak fairness). The host takes and acts on a request that is there at poll
after poll even if some polls end early: it does not die or latch at every single
one (strong fairness of `HostTake` and `HostAct`). It finishes its commands, which
is what `Answered` shows of `VmController`, writes its status file, and an operator
clears a latch (weak fairness). Refusals are excluded: a host that refuses for ever
answers, but a fair admission could not be asked of it.

Fairness of the others, weak in every case. `service_life`: the hosting thread and a
thread inside `cancel` run on, the shutdown deadline passes, SCM carries out the
recovery it was configured for; nothing is assumed of the worker, which may hang
anywhere. `host_link`: the daemon goes on (every call has a timeout), and the refresh
interval of the status passes. `host_wake`: the daemon and `host-run` go on, since
every wait and every command in them is bounded; of the qualification only root's
launcher and guard, which nobody interrupts.

Every property has a mutant in `PROJECT.json`: a definition of the model changed
the way a plausible bug would change the code. The changed forms stand in the
modules next to the originals, marked "Faulty variant".

## What is proved

`VmControllerProofs` proves, for every device size, limit, number of identities
and set of faults (the assumptions are `ConstantsAssumption` and
`NoneAssumption`, which only type the constants):

| theorem | statement |
|---|---|
| `Invariant` | `Spec => []IInv` |
| `TypeCorrect` | `Spec => []TypeOK` |
| `RequestsOwned` | `Spec => []UnresolvedOwned` |
| `ExecutedOnce` | `Spec => []NeverTwice` |
| `RecordedBeforeSent` | `Spec => []DurableBeforeCommand` |
| `FinalResultStays` | `Spec => TerminalFinal` |

The argument. None of the properties is inductive. `IInv` adds what the code
relies on at each place where it can be interrupted:

- `Synced`: memory and file agree between steps, because each change of the
  control state ends in `save`. It carries everything known about `control` over
  a crash;
- `Settled`: a poll that found the device converged has no live command left, or
  is latched - otherwise `act` could overwrite the intent of an unfinished
  request;
- `AtAct`: only a request newer than the journalled one reaches `act`, with
  nothing recorded and no latch. With `UnresolvedOwned` it rules out a replay at
  `act`: a replayed request without a result still has its intent, and the device
  would not be converged;
- `InCommand`: a command on its way is the recorded one;
- `Watermark`: nothing newer than the journalled request was ever executed. With
  `AtAct`, it gives `NeverTwice`.

The step proof has a lemma per group of actions (`ProcessStep`, `WorldStep`,
`ObserveStep`, `PendingStep`, ..., `WidenStep`) and lemmas on the operators they
use (`LatchFacts`, `ResolveFacts`, `ClearFacts`, `ExtensionType`, `GrantType`).
`FinalResultStays` needs one fact more, `Journalled`: a result always has its
request. `JournalStep` then shows that a step leaves the journal alone, or writes
a result where none was final, or admits a newer request.

`HostRoundProofs` proves, for any number of VMs, any priorities, devices, blocks, limits,
pool, reserve and host memory (from `RoundAssumption` and `RoundNoneAssumption`):

| theorem | statement |
|---|---|
| `TypesHold` | `Spec => []Types` |
| `PoolNeverOverdrawn` | `{"unreadable", "hasty"} \cap Faults = {} => (Spec => []PoolRespected)` |
| `ReserveAlwaysKept` | `Faults \cap {"reset", "race", "hasty"} = {} => (Spec => []ReserveKept)` |
| `PriorityAlwaysServed` | `Spec => []PriorityServed` |

The hypotheses are those of the runs. Without the first, `round_stale_charge` is a
counterexample; `"unread_start"`, a VM that was never read since the daemon started, is
not excluded. Without the second, growth that no round asked for is in no round's budget
(see `round_reserve` above). `"hasty"` is a latch cleared while a command nobody answered
may still land: then nothing records that command, and both properties fail
(disagreement 7).

Neither property is inductive. Both rest on `Recorded`, what the code relies on between
two steps: a VM ready to act is still requested what it was charged (`ReadyUnchanged`), a
command on its way is the recorded one (`CommandRecorded`), so is a command that may
still land (`LateRecorded`, which `"hasty"` would break), a VM inside a widening is held, suspended from the second command
on, and has no intent and nothing late (`WideningHeld`), and a device that is requested
whole outside a widening is suspended (`WholeApart`). So what a guest may come to hold
(`Occupied`) is never more than its `Kept`: its allocation, or its request without the
widening.

For the pool, what a VM may come to hold is its `Claim`: what it keeps or the target of
its recorded command, whichever is larger, so that a command that lands late changes no
claim. In a round it is what the ceiling promises as well (`Promised`). `PoolInv` says
that both add up to no more than the pool (`PoolShared`) and that a VM already observed in
this round was charged at least its claim (`ChargedFirst`: what moves afterwards only
falls). The allocation turns charges into ceilings whose sum is within the pool if the
charges were (`AllocateBounds`, `AllocateShares`): the invariant of its loop is that what
is free and what the VMs served so far got is what was free before. If the charges exceed
the pool, nothing is granted.

`ReserveInv` follows a VM's `Reach`: what it keeps, and the target of a resize on its way
or still to land. A VM's reach is within its allocation and the growth the controller
counts as outstanding (`GrowthCounted`), and while VMs are served, the budget contains all
outstanding growth or nothing may grow (`GrowthCommitted`). What the host shows as
available is the total less what is plugged, so the growth that `validate_grow_headroom`
admits fits beside all of it (`CommandGrowth`).

Sums are recursive functions over `1 .. N`. Their lemmas (`TotalUpdate`, `TotalOrder`,
`TotalSum`) and those on the allocation's loop go by least counterexample (`UpTo`,
`ByVM`), because the naturals are well-founded; the induction theorems themselves cannot
be used. That the VMs can be sorted is a lemma too (`OrderExists`, by `Insertion`): without
it `PriorityOrder` would be an arbitrary value. `AllocatePriority` is what sorting is for:
a VM that could still use a block left less than that block free, and so less for
everyone after it; ceilings and observations stay until the round ends (`PriorityKept`).

`OperationsProofs` proves, for every set of daemons, `clear-latch` processes and
names, any number of starts, attestations and changes of the domain, any number of
deployments, edits and commands, and every set of faults (from `OperationsAssumption`,
`HostDeployAssumption` and `GuestDeployAssumption`, which type the bounds and keep the
process names apart):

| theorem | statement |
|---|---|
| `Invariant` | `Spec => []IInv` |
| `OneOwner` | `Spec => []OneActuator` |
| `EvidenceKept` | `Spec => []ResumedUnderEvidence` |
| `ClearedWhenQuiet` | `Spec => ClearedQuiet` |
| `EvidenceAlwaysExact` | `Spec => []EvidenceExact` |
| `EvidenceTrue` | `HostDeploySpec => EvidenceHolds` |
| `ReportsAlwaysTruthful` | `GuestDeploySpec => ReportsTruthful` |
| `PartsWithin` | `OperationsSpec => Spec /\ HostDeploySpec /\ GuestDeploySpec` |
| `FilesAlwaysKept` | `OperationsSpec => []FilesKept` |

The argument. A process past the lock is the one that the lock of the device's UUID
names (`Locked`), whatever name it was given, so there is at most one. Each process reads
and writes its checkpoint only there: what it loaded and what it wrote stays as it is
until it ends. Hence a command that was recorded is still unlatched and still under the
process's own fingerprint when it is authorised and sent (`Unlatched`,
`ResumedUnderEvidence`), and a device that `clear-latch` saw at rest is so when it removes
the latch, since nobody else may send a command, unless the guest restarted or a command
of before landed (`Settled`). `EvidenceExact` rests on what the
scrubbing leaves (`Scrubbed`: exactly the definition) and on `Evidence`: every document,
and every collection under way, names the definitions it saw, which may be two.

The host's deployment keeps `DeployInv`: a file that is still to be replaced is in a
backup (`RetainedFirst`), the hashes and the installed configuration are those of the
snapshot that was validated (`Consistent`), and a unit that runs when the evidence is due
was started after the last file (`FreshUnit`). The guest's keeps `GuestInv`: files in
place or in the backup (`GuestRetained`); what was built, copied or fetched comes from the
sources of its identity unless those changed meanwhile (`Built`); identities only
increase, so that an executable under an identity is from that identity's build
(`Ordered`, `Remembers`); what runs is the registered executable, or nothing while
files are replaced (`Service`); and how far a rollback has come: what was stopped,
deleted and copied back by each of its steps, and what is not known if one of its
unchecked commands failed (`RolledFar`).

`VmPromiseProofs` goes on from `VmControllerProofs`, for every size again, from
`NoOutcomeAssumption` in addition (no outcome is the value that stands for "no result"):

| theorem | statement |
|---|---|
| `MovementMeasured` | `Spec => ResultMeasuresMovement` |
| `StatusAlwaysTruthful` | `Spec => []StatusTruthful` |
| `DivergenceAlwaysOwned` | `Undisturbed /\ Spec => []DivergenceOwned` |
| `LimitsRespected` | `Undisturbed /\ Prompt /\ Spec => []WithinLimits` |
| `PromiseKept` | `Spec => KeepsPromise` |

Every step that writes the checkpoint does one of five things to the journal
(`JournalStepCases`: leave it, latch, measure the end of a command, answer without
movement, begin), which is proved once (`StepCases`) and gives the first two.
`MeasuredFromOrigin` says that extensions and settlements keep the place from which the
movement is measured. `Undisturbed` (nobody else retargets the device, no late command,
no reset) is what `DivergenceOwned` is about: another actor's resize has no owner until
the next poll sees it. Under it `Steady` holds: between the live read and the guard of the
resize sink the request is the one that was read and the allocation moves only towards
it. `Prompt` (no stale RAM figure) is disagreement 2 below; with it, and with
`Steady`, a command that is out of the limits by the time it reaches the guard meets a
device that moved, and is refused (`Bounded`). `PromiseKept` is the refinement: the
initial states map to initial states and each action, group by group, to a step of
`RequestHost` or a stutter (`Map...` lemmas, `RefineNext`).

`RequestProtocolProofs` first proves of the guest alone, whatever the host writes, for
every device size, step, delay, number of starts, length of time and set of faults (from
`GuestAssumption` and `GuestNoneAssumption`, which type the constants):

| theorem | statement |
|---|---|
| `Invariant` | `Spec => []IInv` |
| `TypeCorrect` | `Spec => []TypeOK` |
| `RequestsRetained` | `Spec => []PublishedRetained` |
| `PublishedInOrder` | `Spec => IssuedInOrder` |

`PublishedRetained` is not inductive: it breaks if the worker publishes what it
failed to persist, or persists over a request nobody answered. `IInv` adds that
memory and file agree wherever the worker may still publish (`Synced`: an abandoned
write is followed by an abandoned publication, because both look at the same stop
signal, which is never withdrawn), that a file about to be replaced holds nothing
unanswered (`Replaceable`), that the decision is the slot's content (`Decided`),
and that the slot, on disk and in memory, is issued at its watermark and after
everything published (`Ahead`). The last gives the order of publication across restarts,
whatever the clock does. `AlwaysAdmissible` needs more: the file may hold a request nobody
has seen, so that its identity must be new as well as its time. `Numbered` says that every
request that exists anywhere (in memory, on disk or published) is of a session
that was started and, in the present one, of a sequence number already given out; so no
two of them share an identity.

Then it proves of the composition, for every device, clock, number of restarts and set of
the guest's faults (from `HostFaultsAssumption` and `NoOutcomeAssumption` in addition):

| theorem | statement |
|---|---|
| `GuestWithinProtocol` | `ProtocolSpec => Spec /\ [](IInv /\ Seen)` (`Spec` of `GuestRequester`) |
| `HostWithinProtocol` | `ProtocolSpec => Host!Spec` |
| `RetainedWithHost` | `ProtocolSpec => []PublishedRetained` |
| `AlwaysAdmissible` | `ProtocolSpec => []RetainedAdmissible` |
| `SlotAlwaysAgreed` | `FinalRefusals /\ ProtocolSpec => []SlotAgreed` |
| `AlwaysFaithful` | `FinalRefusals /\ ProtocolSpec => FaithfulAnswer` |

The first two say that each side takes only steps of its own specification: the host is
an environment `GuestRequester` allows, and it is the host `VmController` implements.
`FinalRefusals` is disagreement 3 below. The invariant `HostInv`: a request is `Done` if
the journal has its result, or has moved on, or it was refused; what the guest can read
as a final result is about a request that is done and is the journal's own if it is about
the journalled one (`StatusDone`), everything the guest has consumed is done
(`AnsweredDone`), and the host takes in hand only what is newer than a resolved journal
(`InHand`).

`GuestServiceProofs` proves, for every number of starts and bells and every set of faults,
and for every device geometry, memory load, policy, window and bound on the history
(from `ServiceAssumption`, `InputsAssumption`, `EstimatorAssumption`):

| theorem | statement |
|---|---|
| `ScmAlwaysTruthful` | `Spec => ScmTruthful` |
| `AlwaysWaitsForNews` | `Spec => []WaitsForNews` |
| `TargetAlwaysFits` | `EstimatorInit /\ [][EstimatorNext]_estimatorVars => []TargetFits` |
| `ReclaimsOnEvidence` | `EstimatorInit /\ [][EstimatorNext]_estimatorVars => ReclaimOnEvidence` |
| `GuestPartsWithin` | `GuestWorker` implements both specifications |

`ScmInv` relates the hosting thread, the worker, the two who may cancel and the messages
under way to what SCM was told: a worker exists only between its spawn and its join
(`Threads`), a stop pending was asked for by the handler or by the hosting thread that
failed to report (`Cancellation`, `Announced`). `Bell` says that a bell signals the event of
an open channel, `Roused` that after low memory has ended a wait a sample comes before
the next wait. For the estimator, `Estimated` keeps the target, the floor and every
entry of the history whole blocks and within the limits of the base RAM; the maxima over the
history exist because the naturals are well-founded (`LeastOf`, from the library's
`WellFoundedInduction`). `Recorded` says why the bounded history is evidence. Entries are a
bucket apart (`Spaced`), so when there is one too many, the second is already as old as
the window (`BucketsSpan`) and the first may go. Every sample of the window is counted in
an entry after which all entries are younger than the sample (`Covers`), so that entry
stays as long as the sample is in the window (`DroppedEvidence`). And the history's first
entry is as old as the unbroken samples reach back, up to the window.

`HostSupervisionProofs` proves, for any number of peers and losses (`WakeAssumption`) and
for every device size and lag of the log (`QualificationAssumption`):

| theorem | statement |
|---|---|
| `AlwaysWokenByNews` | `SupervisionSpec => []WokenByNews` |
| `NeverLeft` | `SupervisionSpec => []NothingLeft` |
| `PassAlwaysTruthful` | `SupervisionSpec => []PassTruthful` |

The wait's invariants are `Rings` (between rounds, who rang has its hint), `Subscription`
(its end is met once) and `Owned` (a process belongs to the step that ends it).
`PassTruthful` needs the order in which starter, root, guard and supervisor come to life
(`Order`), what the guard's report stands for (`Guarded`, `Judged`), that a unit seen down
stays down (`Seen`), and that the sizes in the samples follow the device's turns (`Sized`,
`Before`, `Turns`, `Turned`): until it has grown nothing above the first sample is
counted, and until it has shrunk again nothing below the peak, so a verdict that found
both has seen both.

`HostLinkProofs` proves, for every limit, number of faults, statuses and replacements
(`LinkAssumption`):

| theorem | statement |
|---|---|
| `AlwaysReadsCleanly` | `Spec => []ReadsCleanly` |
| `StatusAlwaysConfirmed` | `Spec => []StatusConfirmed` |

`Pieces` says that what was read so far is a prefix of one file, the one the handle was
opened on, `Tidy` that a handle is open only inside the call sequence that closes it or
after an unanswered call, and `Confirming` that a status counts as published only once
all of it was written. `StatusConfirmed`, defined next to its proof, is what
`StatusHeals` needs of safety.

Only model-checked. Every liveness property (`Answered`, `Served`, `StopsAndRecovers`,
`LinkHeals`, `StatusHeals`, `RoundsUntilStop`, `OwnershipBounded`): liveness under
fairness is outside the prover's reach.

## Findings and known disagreements

`round_stale_charge` is expected to fail: a VM that becomes unreadable right after its
growth was sent is charged what it held before, and the pool is given out twice.
`PROJECT.json` quotes the lines.

Further places where the code and what is written about it disagree, each met while
modelling. The runs exclude them; the first three and the seventh can be
reproduced with a configuration of the modules as they are.

1. The widening is not recorded. A daemon that dies inside it leaves the whole device
   requested and the domain paused, without the latch that "a request left at the whole
   device latches and stops" (`runtime.rs:1188`) promises. `VmController` with
   `DeviceBlocks = 2`, `BaseRam = 1`, `MinRam = 1`, `MaxRam = 3`, `MaxExtension = 1`,
   `Faults = {"crash"}` violates
   `pc = "down" /\ paused /\ requested # current => saved.latched`.
2. `min_ram` is enforced with the RAM total the guest last published ("never below
   `min_ram`", `runtime.rs:707`). If blocks moved since, an extension may pass below it:
   `WithinLimits` fails with `DeviceBlocks = 3`, `BaseRam = 1`, `MinRam = 2`,
   `MaxRam = 4`, `MaxExtension = 2`, `Faults = {"stale"}`. `vm_limits` has a guest whose
   figure is current.
3. A refusal is final for the guest and leaves no trace at the host ("no effect, and not
   journalled", `memory_request.rs:168`). A request refused for the time being can be
   admitted by a later poll, after the guest has consumed the refusal and before its
   publication is replaced: `SlotAgreed` fails with `HostFaults = {"transient"}`.
4. The guest deployment's comment "Original config, binary and registry have already
   been retained above" (`windows.rs:1275`) is not checked for the registry: the exit
   code of `reg.exe export` is ignored. Nor are those of `sc.exe delete` (1332) and
   `reg.exe import` (1335) in the rollback, where `Stop-Service` (1332) and `Remove-Item`
   (1334) are silenced. So a deployment that reports only its own error may have left no
   registration, the candidate's, or a configuration where there was none.
   `ReportsTruthful` asks of such a rollback what the script does check: the files, and
   that the earlier executable runs again after a good export; it asks for everything
   if none of these commands failed.
5. The build stamp does not land "atomically with the files it describes"
   (`windows.rs:506`): an extraction that is cut short leaves an old stamp beside new
   files, and a build that outlives its command compiles whatever is there.
   `ReportsTruthful` leaves out the identities this happened to (`disturbed`).
6. `xtask controller-status` reads `/etc/virtio-mem-host/{instance}.toml`, which
   `host-deploy` archives (`host_deploy.rs:550`).
7. `clear-latch` looks at the device, and cannot know that a command whose client was
   killed at its timeout (`virsh.rs:358`) is still under way. If it is, the device is at
   rest, the latch and the intent go, and the command lands without an owner: unowned
   until the next poll sees a foreign resize, and in no VM's charge and no round's budget.
   `ClearedQuiet` has it as its exception (`landed`); `PoolRespected` and `ReserveKept`
   fail when `"hasty"` is added to the faults of `round_pool` and `round_reserve`.
8. The comment on `host-run`'s grace period, "How long the daemon may take to stop after
   SIGTERM before this runner gives up waiting and reports it" (`host_run.rs:20`), is not
   the whole of it: the readers of the daemon's output are joined before anything is
   reported (160-162), so `host-run` waits for a daemon that does not stop. The model
   follows the code (`RunnerReturns`).

## What is not modelled

- Measurement tools (`metrics.rs`, `health.rs`, `ui.rs`, `watch.rs`,
  `controller_status.rs` of xtask): they read what the other components write, compute
  and render; nothing depends on them. Developer commands: cargo invocations and checks
  of the host.
- Parsing: arguments, TOML, JSON, XML, base64, unit suffixes. Outcomes are modelled
  where something depends on them (a publication that does not validate, a
  configuration that does not load), contents are not.
- Log, event-log and diagnostics records.
- The wall clock of the host: a rollback makes `record_result` fail and ends the daemon;
  in the model the daemon's end is `Crash`, at any step, and says nothing of its cause.
- The guest driver's patch, and the shell scripts around the commands.
- Of the qualification: the dry run, the listing commands, the checks on the order of
  requests between samples, and log contents. Of the Windows deployment: the remote
  lint, test and diagnose commands.

The compositions `GuestWorker`, `HostSupervision` and `Operations` put components side
by side that share no state; the compositions in which components interact are
`RequestProtocol` (guest and host) and the refinement of `RequestHost`.

## The plan

Done: all modules and runs above, and the proofs listed.

Left: the per-VM controller over `HostLink` instead of a channel that delivers a
publication or nothing.

## How to run it

    tlc -workers 2 -config vm_faults.cfg MCVmController
    tlc -workers 2 -config round_pool.cfg MCHostRound
    tlc -workers 2 -config protocol_slot.cfg MCRequestProtocol
    tlc -workers 2 -config service_life.cfg MCGuestService
    tlc -workers 2 -config host_link.cfg MCHostLink
    tlc -workers 2 -config host_wake.cfg MCHostWake
    tlc -workers 2 -config operations.cfg MCOperations
    tlapm VmControllerProofs.tla        (and likewise every other module named ...Proofs)

`PROJECT.json` names the module, the configuration and the expected outcome of
every run.
