---------------------------- MODULE Qualification ----------------------------
(***************************************************************************)
(* `cargo xtask qualification start` (qualification.rs): an unattended run *)
(* of the real controller against a workload in the guest                  *)
(* (virtio-mem-workload.rs).  Four processes take part.  `start` prepares  *)
(* and leaves; a root launcher starts the controller's unit and a detached *)
(* guard; the guard samples, and stops the unit when it is released or its *)
(* time is over; a detached supervisor drives the workload and judges.     *)
(* They meet in files only: status.json, controller-release, and root's    *)
(* guard status, samples, initial and final state.  Each may fail at every *)
(* step, and the two unprivileged ones may die.                            *)
(*                                                                         *)
(* One run; the dry run and the optional restart of the guest's service    *)
(* before it are left out.  Of the device its current size is kept: what   *)
(* the judgement asks of its requests (none is lowered while one is        *)
(* pending, and so on) only fails more runs, and is left to choice.        *)
(***************************************************************************)
EXTENDS Integers, Sequences

CONSTANTS
  MaxBlocks,     \* the device's size
  MaxLag,        \* bound: lines of the workload on their way to the supervisor
  Expectations   \* what a run may be asked to expect

ASSUME QualificationAssumption ==
  /\ MaxBlocks \in Nat \ {0} /\ MaxLag \in Nat \ {0}
  /\ Expectations \subseteq {"resize", "no_reclaim", "no_resize"}

Phases == <<"baseline", "peak", "settled", "renewed", "complete">>
Blocks == 0 .. MaxBlocks
NoBlocks == -1

VARIABLES
  expect,        \* the options --expect-..., --require-...
  starter, root, guard, supervisor,  \* where each process is; "none" before, "gone" after
  unit,          \* the controller's systemd unit
  status,        \* status.json: its state, or final result
  release,       \* controller-release exists
  guard_status,  \* root's status file
  initial_state, final_state,  \* root's records of the device
  sample,        \* root's sample: the device, the unit, and whether it was counted yet
  memory,        \* the device: its current size
  load,          \* the workload's process
  emitted, seen, \* phases the workload has reported, and those the supervisor knows of
  observations, verdict,     \* the supervisor's
  errors,        \* what the guard has to report
  moves,         \* history: turns of the device between growing and shrinking
  alive,         \* history: the unit was active in every sample that was counted
  stop_refused   \* history: systemd has refused to stop the unit

guardVars == <<guard_status, initial_state, final_state, sample, errors>>
loadVars == <<load, emitted, seen>>
judgeVars == <<observations, verdict, alive>>
worldVars == <<unit, memory, moves, stop_refused>>
runVars == <<expect, starter, root, guard, supervisor, status, release, guardVars, loadVars,
             judgeVars, worldVars>>

NoObservations ==
  [initial |-> NoBlocks, peak |-> 0, low |-> NoBlocks, settled |-> NoBlocks,
   renewed |-> NoBlocks, changed |-> FALSE]

\* The supervisor reads no sample any more.
Returned == {"release", "cleanup", "final", "gone"}

NoSample == [of |-> NoBlocks, unit |-> "inactive", new |-> FALSE]

QualificationInit ==
  /\ expect \in Expectations
  /\ starter \in {"begin", "gone"} /\ root = "none" /\ guard = "none" /\ supervisor = "none"
  /\ unit \in {"inactive", "active"} /\ status = "none" /\ release = FALSE
  /\ guard_status = "none" /\ initial_state = NoBlocks /\ final_state = NoBlocks
  /\ sample = NoSample
  /\ memory = 0
  /\ load = "none" /\ emitted = 0 /\ seen = 0
  /\ observations = NoObservations /\ verdict = "ok" /\ errors = FALSE
  /\ moves = 0 /\ alive = TRUE /\ stop_refused = FALSE

-----------------------------------------------------------------------------
\* systemd

\* A unit that has failed stays so; stopping may fail, and so may the unit while it stops.
Stops(refused) ==
  /\ stop_refused' = (stop_refused \/ refused)
  /\ IF refused \/ unit # "active" THEN unit' = unit ELSE unit' \in {"inactive", "failed"}

-----------------------------------------------------------------------------
\* start

finish_start_failure == status' = "fail"

\* The configuration and the first status; then the guest must be in order.
StartRun ==
  /\ starter = "begin"
  /\ \/ starter' = "sudo" /\ root' = "check" /\ status' = "starting"
     \/ starter' = "gone" /\ finish_start_failure /\ UNCHANGED root
  /\ UNCHANGED <<expect, guard, supervisor, release, guardVars, loadVars, judgeVars, worldVars>>

\* sudo returns; a timeout cannot kill root's process, but it is an error all the same,
\* and the guard, if there is one, keeps the unit until its own deadline.
StartGuarded ==
  /\ starter = "sudo" /\ root \in {"done", "gone"}
  /\ \/ root = "done" /\ starter' = "initial" /\ UNCHANGED status
     \/ starter' = "gone" /\ finish_start_failure
  /\ UNCHANGED <<expect, root, guard, supervisor, release, guardVars, loadVars, judgeVars,
                 worldVars>>

\* The initial state is copied, the guest checked again, the supervisor spawned.
StartSupervisor ==
  /\ starter = "initial"
  /\ \/ starter' = "publish" /\ supervisor' = "wait"
     \/ starter' = "release" /\ UNCHANGED supervisor
  /\ UNCHANGED <<expect, root, guard, status, release, guardVars, loadVars, judgeVars, worldVars>>

\* The supervisor's pid, which it waits for; failing here leaves everything to others.
StartPublish ==
  /\ starter = "publish"
  /\ status' \in {"launched", status}
  /\ starter' = "gone"
  /\ UNCHANGED <<expect, root, guard, supervisor, release, guardVars, loadVars, judgeVars,
                 worldVars>>

\* write_release: when it fails the file may have been created.
Release(failed) == release' \in IF failed THEN {release, TRUE} ELSE {TRUE}

StartRelease ==
  /\ starter = "release"
  /\ \E failed \in BOOLEAN : Release(failed)
  /\ starter' = "cleanup"
  /\ UNCHANGED <<expect, root, guard, supervisor, status, guardVars, loadVars, judgeVars,
                 worldVars>>

\* wait_for_guard_stopped has a result, or not in time.
StartCleanup ==
  /\ starter = "cleanup"
  /\ starter' = "gone" /\ finish_start_failure
  /\ UNCHANGED <<expect, root, guard, supervisor, release, guardVars, loadVars, judgeVars,
                 worldVars>>

StarterDies ==
  /\ starter \notin {"begin", "gone"}
  /\ starter' = "gone"
  /\ UNCHANGED <<expect, root, guard, supervisor, status, release, guardVars, loadVars,
                 judgeVars, worldVars>>

-----------------------------------------------------------------------------
\* guard --launch, as root

write_root_guard_status(state, written) ==
  guard_status' = IF written THEN state ELSE guard_status

\* Only an inactive unit is taken, and only a device at rest.
RootCheck ==
  /\ root = "check"
  /\ \/ /\ unit = "inactive"
        /\ initial_state' = memory /\ write_root_guard_status("starting", TRUE)
        /\ root' = "start"
     \/ /\ root' = "gone" /\ UNCHANGED guard_status
        /\ initial_state' \in IF unit = "inactive" THEN {NoBlocks, memory} ELSE {NoBlocks}
  /\ UNCHANGED <<expect, starter, guard, supervisor, status, release, final_state, sample,
                 errors, loadVars, judgeVars, worldVars>>

\* systemctl start; when it fails or times out the unit may have started.
RootStart ==
  /\ root = "start"
  /\ unit' \in {"active", "inactive", "failed"}
  /\ root' \in IF unit' = "active" THEN {"verify", "undo"} ELSE {"undo"}
  /\ UNCHANGED <<expect, starter, guard, supervisor, status, release, guardVars, loadVars,
                 judgeVars, memory, moves, stop_refused>>

\* require_controller_active_and_shrink: active, with this VM, and observing only if no
\* resize is expected.
RootVerify ==
  /\ root = "verify"
  /\ \/ unit = "active" /\ root' = "spawn"
     \/ root' = "undo"
  /\ UNCHANGED <<expect, starter, guard, supervisor, status, release, guardVars, loadVars,
                 judgeVars, worldVars>>

RootUndo ==
  /\ root = "undo"
  /\ \E refused \in BOOLEAN : Stops(refused)
  /\ \E written \in BOOLEAN : write_root_guard_status("failed", written)
  /\ root' = "gone"
  /\ UNCHANGED <<expect, starter, guard, supervisor, status, release, initial_state,
                 final_state, sample, errors, loadVars, judgeVars, memory, moves>>

\* The guard is spawned first and announced afterwards.
RootSpawn ==
  /\ root = "spawn"
  /\ \/ guard' = "serve" /\ root' = "announce" /\ UNCHANGED <<unit, stop_refused>>
     \/ /\ \E refused \in BOOLEAN : Stops(refused)
        /\ root' = "gone" /\ UNCHANGED guard
  /\ UNCHANGED <<expect, starter, supervisor, status, release, guardVars, loadVars, judgeVars,
                 memory, moves>>

RootAnnounce ==
  /\ root = "announce"
  /\ \E written \in BOOLEAN :
       /\ write_root_guard_status("running", written)
       /\ root' = IF written THEN "done" ELSE "gone"
  /\ UNCHANGED <<expect, starter, guard, supervisor, status, release, initial_state,
                 final_state, sample, errors, loadVars, judgeVars, worldVars>>

Root == RootCheck \/ RootStart \/ RootVerify \/ RootUndo \/ RootSpawn \/ RootAnnounce

-----------------------------------------------------------------------------
\* guard --serve, as root

\* capture_privileged_sample replaces the sample, as long as somebody will read it.
GuardSample ==
  /\ guard = "serve" /\ ~release /\ supervisor \notin Returned
  /\ sample' = [of |-> memory, unit |-> unit, new |-> TRUE]
  /\ moves' = IF observations.initial = NoBlocks THEN 0 ELSE moves
  /\ UNCHANGED <<expect, starter, root, guard, supervisor, status, release, guard_status,
                 initial_state, final_state, errors, loadVars, judgeVars, unit, memory,
                 stop_refused>>

\* Faulty variant: only the release is waited for.
until_released == release

\* Released; or controller_timeout_seconds have passed, or sampling has failed for long.
serving_ends == TRUE

GuardEnds ==
  /\ guard = "serve" /\ serving_ends
  /\ guard' = "stop"
  /\ errors' \in {~release, TRUE}
  /\ UNCHANGED <<expect, starter, root, supervisor, status, release, guard_status,
                 initial_state, final_state, sample, loadVars, judgeVars, worldVars>>

\* systemctl stop, and reset-failed for a unit that failed before or while it stopped;
\* afterwards it must be inactive.
GuardStop ==
  /\ guard = "stop"
  /\ guard' = "report"
  /\ \E refused, kept \in BOOLEAN :
       /\ stop_refused' = (stop_refused \/ refused)
       /\ unit' = IF unit = "active" /\ refused THEN "active"
                  ELSE IF kept THEN "failed" ELSE "inactive"
       /\ kept => unit \in {"active", "failed"}
       /\ errors' = (errors \/ refused \/ unit' # "inactive")
  /\ UNCHANGED <<expect, starter, root, supervisor, status, release, guard_status,
                 initial_state, final_state, sample, loadVars, judgeVars, memory, moves>>

\* The final state, which only matters of a guard that was released, and then the status
\* file.
GuardReport ==
  /\ guard = "report"
  /\ guard' = "gone"
  /\ final_state' \in IF release THEN {memory, NoBlocks} ELSE {NoBlocks}
  /\ \E written \in BOOLEAN :
       write_root_guard_status(IF errors \/ final_state' = NoBlocks THEN "failed" ELSE "stopped",
                               written)
  /\ UNCHANGED <<expect, starter, root, supervisor, status, release, initial_state, sample,
                 errors, loadVars, judgeVars, worldVars>>

Guard == GuardEnds \/ GuardStop \/ GuardReport

-----------------------------------------------------------------------------
\* run: the supervisor

\* wait_for_launcher_status: the launcher has published the supervisor's pid.
launched == status = "launched"

\* Failing here, the supervisor leaves no release: the guard's deadline remains.
SupWait ==
  /\ supervisor = "wait"
  /\ \/ launched /\ status' = "running" /\ supervisor' = "before"
     \/ supervisor' = "gone" /\ UNCHANGED status
  /\ UNCHANGED <<expect, starter, root, guard, release, guardVars, loadVars, judgeVars, worldVars>>

\* supervise_inner has returned: what it has observed is dropped, and nobody looks at the
\* samples any more, nor at the workload, which may still be running in the guest.
Forget ==
  /\ observations' = NoObservations /\ load' = "none" /\ emitted' = 0 /\ seen' = 0
  /\ sample' = NoSample

\* Every error ends in supervise's cleanup; the histories are for runs that may pass.
GiveUp ==
  /\ supervisor' = "release" /\ verdict' = "error" /\ Forget
  /\ alive' = TRUE /\ moves' = 0

\* read_privileged_sample: the guard is running and has published, since the last sample
\* that was counted if one was.
Published(newer) == guard_status = "running" /\ sample.of # NoBlocks /\ (newer => sample.new)

\* Faulty variant: the controller's state is recorded, not required.
any_state(s) == TRUE
controller_active(s) == s.unit = "active"

\* preflight_health, which takes any sample; then the guest is asked.
Preflight(to) ==
  \/ /\ Published(FALSE) /\ controller_active(sample)
     /\ supervisor' = to /\ UNCHANGED <<judgeVars, sample, loadVars, moves>>
  \/ GiveUp

SupBefore ==
  /\ supervisor = "before" /\ Preflight("baseline")
  /\ UNCHANGED <<expect, starter, root, guard, status, release, guard_status, initial_state,
                 final_state, errors, unit, memory, stop_refused>>

SupAfter ==
  /\ supervisor = "after" /\ Preflight("judge")
  /\ UNCHANGED <<expect, starter, root, guard, status, release, guard_status, initial_state,
                 final_state, errors, unit, memory, stop_refused>>

Larger(a, b) == IF a > b THEN a ELSE b
Smaller(a, b) == IF a = NoBlocks \/ b < a THEN b ELSE a

counts_as_low(label) == label \in {"settled", "post_workload", "complete"}

\* sample_host's observations.
counted(o, s, label) ==
  LET first == IF o.initial = NoBlocks THEN s ELSE o.initial
  IN [initial |-> first,
      peak    |-> IF label = "peak" THEN Larger(o.peak, s) ELSE o.peak,
      low     |-> IF counts_as_low(label) THEN Smaller(o.low, s) ELSE o.low,
      settled |-> IF label = "settled" THEN Smaller(o.settled, s) ELSE o.settled,
      renewed |-> IF label = "renewed" THEN Larger(o.renewed, s) ELSE o.renewed,
      changed |-> o.changed \/ s # first]

\* A sample that is read is counted, if the VM runs and its telemetry is valid.
Count(label) ==
  /\ Published(TRUE)
  /\ sample' = [sample EXCEPT !.new = FALSE]
  /\ observations' = counted(observations, sample.of, label)
  /\ alive' = (alive /\ sample.unit = "active")
  /\ UNCHANGED verdict

SupBaseline ==
  /\ supervisor = "baseline"
  /\ \/ /\ Count("baseline") /\ supervisor' = "watch" /\ load' = "running"
        /\ UNCHANGED <<emitted, seen, moves>>
     \/ GiveUp
  /\ UNCHANGED <<expect, starter, root, guard, status, release, guard_status, initial_state,
                 final_state, errors, unit, memory, stop_refused>>

\* spawn_reader's thread has forwarded a line.
line_waiting == seen < emitted

\* The loop: lines of the workload are taken as they come, ...
SupTakes ==
  /\ supervisor = "watch" /\ line_waiting
  /\ seen' = seen + 1
  /\ UNCHANGED <<expect, starter, root, guard, supervisor, status, release, guardVars, load,
                 emitted, judgeVars, worldVars>>

\* ... samples are counted for the phase of the last line, and missed with a warning, ...
SupSamples ==
  /\ supervisor = "watch" /\ Count(IF seen = 0 THEN "baseline" ELSE Phases[seen])
  /\ UNCHANGED <<expect, starter, root, guard, supervisor, status, release, guard_status,
                 initial_state, final_state, errors, loadVars, worldVars>>

\* ... until ssh exits, when the lines that were forwarded by then are taken; ...
SupExit ==
  /\ supervisor = "watch" /\ load \in {"ok", "error"}
  /\ \/ /\ load = "ok" /\ supervisor' = "post"
        /\ seen' \in seen .. emitted
        /\ UNCHANGED <<judgeVars, sample, load, emitted, moves>>
     \/ load = "error" /\ GiveUp
  /\ UNCHANGED <<expect, starter, root, guard, status, release, guard_status, initial_state,
                 final_state, errors, unit, memory, stop_refused>>

\* ... or the deadline passes, a line is no JSON, a sample is refused after the workload,
\* a file cannot be written.
SupGivesUp ==
  /\ supervisor \in {"watch", "post"} /\ GiveUp
  /\ UNCHANGED <<expect, starter, root, guard, status, release, guard_status, initial_state,
                 final_state, errors, unit, memory, stop_refused>>

\* The device is watched for post_hold_seconds.
SupPost ==
  /\ supervisor = "post"
  /\ \/ Count("post_workload") /\ UNCHANGED supervisor
     \/ supervisor' = "after" /\ UNCHANGED <<judgeVars, sample>>
  /\ UNCHANGED <<expect, starter, root, guard, status, release, guard_status, initial_state,
                 final_state, errors, loadVars, worldVars>>

\* parse_start: which amounts an expectation requires, at least one block of each.
Required(kind) == CASE kind = "no_resize"  -> {}
                    [] kind = "no_reclaim" -> {"growth", "renewed"}
                    [] OTHER               -> {"growth", "reclaim", "renewed"}

\* analyze: which of the three were observed.
analyze(o) ==
  {k \in {"growth", "reclaim", "renewed"} :
     CASE k = "growth"  -> o.peak > o.initial
       [] k = "reclaim" -> o.low # NoBlocks /\ o.peak > o.low
       [] k = "renewed" -> o.settled # NoBlocks /\ o.renewed > o.settled}

\* classify, but for the requests and the continuity of the telemetry.
classify(kind, phases, o) ==
  /\ phases = Len(Phases)
  /\ kind = "no_resize" => ~o.changed
  /\ Required(kind) \subseteq analyze(o)

SupJudge ==
  /\ supervisor = "judge"
  /\ \/ /\ classify(expect, seen, observations)
        /\ supervisor' = "release" /\ Forget /\ UNCHANGED <<alive, verdict, moves>>
     \/ GiveUp
  /\ UNCHANGED <<expect, starter, root, guard, status, release, guard_status, initial_state,
                 final_state, errors, unit, memory, stop_refused>>

\* supervise, in any case: the guard is released ...
SupRelease ==
  /\ supervisor = "release" /\ supervisor' = "cleanup"
  /\ \E failed \in BOOLEAN :
       Release(failed) /\ verdict' = IF failed THEN "error" ELSE verdict
  /\ UNCHANGED <<expect, starter, root, guard, status, guardVars, loadVars, observations, alive,
                 worldVars>>

\* guard_status_result
guard_stopped == guard_status = "stopped"

\* ... must report that it has stopped the unit, in time, ...
SupCleanup ==
  /\ supervisor = "cleanup" /\ supervisor' = "final"
  /\ \/ guard_stopped /\ UNCHANGED verdict
     \/ verdict' = "error"
  /\ UNCHANGED <<expect, starter, root, guard, status, release, guardVars, loadVars,
                 observations, alive, worldVars>>

persist_guard_final_state == final_state # NoBlocks

\* validate_final_no_resize
same_memory == final_state = initial_state

\* ... and its final state is copied; the last status has the result.
SupFinal ==
  /\ supervisor = "final" /\ supervisor' = "gone"
  /\ \/ /\ verdict = "ok" /\ persist_guard_final_state /\ (expect = "no_resize" => same_memory)
        /\ status' = "pass"
     \/ status' \in {"fail", status}
  /\ UNCHANGED <<expect, starter, root, guard, release, guardVars, loadVars, judgeVars, worldVars>>

SupDies ==
  /\ supervisor \notin {"none", "gone"} /\ supervisor' = "gone"
  /\ Forget /\ alive' = TRUE /\ moves' = 0
  /\ UNCHANGED <<expect, starter, root, guard, status, release, guard_status, initial_state,
                 final_state, errors, verdict, unit, memory, stop_refused>>

Supervisor == SupWait \/ SupBefore \/ SupAfter \/ SupBaseline \/ SupTakes \/ SupSamples \/ SupExit
              \/ SupGivesUp \/ SupPost \/ SupJudge \/ SupRelease \/ SupCleanup \/ SupFinal \/ SupDies

-----------------------------------------------------------------------------
\* The workload, watched over ssh

\* virtio-mem-workload: one flushed record as each phase begins.
LoadPhase ==
  /\ supervisor = "watch" /\ load = "running" /\ emitted < Len(Phases) /\ emitted < seen + MaxLag
  /\ \/ emitted' = emitted + 1 /\ UNCHANGED load
     \/ load' = "error" /\ UNCHANGED emitted
  /\ UNCHANGED <<expect, starter, root, guard, supervisor, status, release, guardVars, seen,
                 judgeVars, worldVars>>

LoadEnds ==
  /\ supervisor = "watch" /\ load = "running" /\ emitted = Len(Phases)
  /\ load' \in {"ok", "error"}
  /\ UNCHANGED <<expect, starter, root, guard, supervisor, status, release, guardVars, emitted,
                 seen, judgeVars, worldVars>>

-----------------------------------------------------------------------------
\* The controller and the device (VmController has the details)

\* A controller that does not only observe.
Resize ==
  /\ unit = "active" /\ expect # "no_resize"
  /\ \E b \in Blocks \ {memory} :
       /\ memory' = b
       /\ moves' = CASE supervisor \in Returned    -> moves
                     [] moves = 0 /\ b > memory -> 1
                     [] moves = 1 /\ b < memory -> 2
                     [] OTHER                   -> moves
  /\ UNCHANGED <<expect, starter, root, guard, supervisor, status, release, guardVars, loadVars,
                 judgeVars, unit, stop_refused>>

\* Restart=no: a controller that fails stays down.
ControllerFails ==
  /\ unit = "active"
  /\ unit' = "failed"
  /\ UNCHANGED <<expect, starter, root, guard, supervisor, status, release, guardVars, loadVars,
                 judgeVars, memory, moves, stop_refused>>

QualificationNext ==
  \/ StartRun \/ StartGuarded \/ StartSupervisor \/ StartPublish \/ StartRelease
  \/ StartCleanup \/ StarterDies \/ Root \/ GuardSample \/ Guard \/ Supervisor
  \/ LoadPhase \/ LoadEnds
  \/ Resize \/ ControllerFails

\* Root's two processes are not killed, and every command of theirs is bounded.  Nothing is
\* assumed of the two unprivileged ones.
QualificationFairness == WF_runVars(Root) /\ WF_runVars(Guard)

-----------------------------------------------------------------------------
\* Properties

\* A pass means what it says, whoever failed or died on the way.  "controller stopped and
\* the pre-run inactive state was restored" (serve_controller_guard): the unit is as it was
\* found.  The controller was running in every sample that was counted, although samples
\* are counted without a look at it.  And where growth and reclaim are required the device
\* has really grown and shrunk again since the first sample, although a sample may be older
\* than the phase it is counted for.
PassTruthful ==
  status = "pass" =>
    /\ unit = "inactive" /\ guard = "gone"
    /\ alive
    /\ "reclaim" \in Required(expect) => moves = 2

\* The guard's deadline: a unit that root has started does not stay active for good, even
\* when the launcher or the supervisor dies or never releases it; unless systemd refuses.
OwnershipBounded == unit = "active" /\ initial_state # NoBlocks ~> unit # "active" \/ stop_refused
=============================================================================
