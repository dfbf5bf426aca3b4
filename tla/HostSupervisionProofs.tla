----------------------- MODULE HostSupervisionProofs -----------------------
(***************************************************************************)
(* Proofs about HostSupervision: that the daemon's wait loses no news,     *)
(* that nothing it started outlives it, and that a qualification that      *)
(* passes has seen what it reports.                                        *)
(***************************************************************************)
EXTENDS HostSupervision, TLAPS

-----------------------------------------------------------------------------
\* The wait

\* Between two rounds a peer that rang has its hint.
Rings == pc \in {"round", "exited"} \/ unanswered \subseteq hints

\* The subscription's end is met at most once: it is read at the drain that follows.
Subscription ==
  /\ child = "running" => events = "open"
  /\ \/ endings = 0
     \/ /\ endings = 1 /\ news = FALSE /\ child # "running"
        /\ events = "closed" \/ (events = "ended" /\ pc = "drain")

\* What runs belongs to a step that ends it.
Owned ==
  /\ pc # "virsh" => process = {}
  /\ pc = "exited" => child = "none"
  /\ runner = "returned" => pc = "exited"

\* No step between two rounds takes a hint from a peer that waits for a round.
LEMMA RingsStep == Rings /\ [Next]_vars => Rings'
<1> SUFFICES ASSUME Rings, [Next]_vars PROVE Rings'
  OBVIOUS
<1> USE DEF Rings
<1>1. CASE UNCHANGED vars
  BY <1>1 DEF vars, wakeVars
<1>2. CASE Daemon
  BY <1>2 DEF Daemon, Enter, Leave, Act, VirshEnds, VirshKilled, Notify, Connect, PollReturns,
     Drain, PollTimeout, PollStop, keep_hints, hints_without, wakeVars
<1>3. CASE Runner
  BY <1>3 DEF Runner, RunnerStops, RunnerWaits, RunnerReturns, wakeVars
<1>4. CASE World
  BY <1>4 DEF World, ProcessExits, Signal, RetryPasses, MemoryEvent, EventsEnd, GuestHint, PeerGone,
     wakeVars
<1> QED
  BY <1>1, <1>2, <1>3, <1>4 DEF Next

\* An ended subscription is met once.
LEMMA SubscriptionStep == Subscription /\ [Next]_vars => Subscription'
<1> SUFFICES ASSUME Subscription, [Next]_vars PROVE Subscription'
  OBVIOUS
<1> USE DEF Subscription
<1>1. CASE UNCHANGED eventVars /\ (pc = "drain" => pc' = "drain")
  BY <1>1 DEF eventVars
<1>2. CASE Leave
  BY <1>2 DEF Leave, drop_events
<1>3. CASE PollReturns
  BY <1>3 DEF PollReturns, Readable
<1>4. CASE Drain
  BY <1>4 DEF Drain, closed_at_end
<1>5. CASE MemoryEvent
  BY <1>5 DEF MemoryEvent
<1>6. CASE EventsEnd
  BY <1>6 DEF EventsEnd
<1> QED
  BY <1>1, <1>2, <1>3, <1>4, <1>5, <1>6
     DEF Next, Daemon, Runner, World, Enter, Act, VirshEnds, VirshKilled, Notify, Connect,
     PollTimeout, PollStop, RunnerStops, RunnerWaits, RunnerReturns, ProcessExits, Signal,
     RetryPasses, GuestHint, PeerGone, vars

\* Every step ends what it leaves without an owner.
LEMMA OwnedStep == Owned /\ [Next]_vars => Owned'
<1> SUFFICES ASSUME Owned, [Next]_vars PROVE Owned'
  OBVIOUS
<1> USE DEF Owned
<1>1. CASE UNCHANGED vars
  BY <1>1 DEF vars, eventVars
<1>2. CASE Daemon
  BY <1>2 DEF Daemon, Enter, Leave, Act, VirshEnds, VirshKilled, Notify, Connect, PollReturns,
     Drain, PollTimeout, PollStop, kill_group, drop_events, eventVars
<1>3. CASE Runner
  BY <1>3 DEF Runner, RunnerStops, RunnerWaits, RunnerReturns, joined, eventVars
<1>4. CASE World
  BY <1>4 DEF World, ProcessExits, Signal, RetryPasses, MemoryEvent, EventsEnd, GuestHint, PeerGone,
     eventVars
<1> QED
  BY <1>1, <1>2, <1>3, <1>4 DEF Next

\* A daemon that starts, and one that is over, own nothing yet or any more.
LEMMA WakeInit == Init \/ DaemonOver => Rings /\ Subscription /\ Owned
BY DEF Init, DaemonOver, Rings, Subscription, Owned

\* The daemon, together with a qualification or alone, takes HostWake's steps.
LEMMA DaemonWithin == [SupervisionNext]_supervisionVars => [Next]_vars
BY DEF SupervisionNext, supervisionVars

\* While the daemon waits, a peer that rang and saw no round since has its hint to be read,
\* and the subscription's end cuts one wait short at most (run in runtime.rs, wake.rs).
THEOREM AlwaysWokenByNews == SupervisionSpec => []WokenByNews
<1>1. SupervisionInit => Rings /\ Subscription
  BY WakeInit DEF SupervisionInit
<1>2. Rings /\ Subscription => WokenByNews
  BY DEF Rings, Subscription, WokenByNews
<1> QED
  BY RingsStep, SubscriptionStep, DaemonWithin, <1>1, <1>2, PTL DEF SupervisionSpec

\* No process outlives the step that owns it: not a virsh command's (capture_output in
\* virsh.rs), not the event process (MemoryEvents::drop), not the daemon that host-run
\* started (host_run.rs).
THEOREM NeverLeft == SupervisionSpec => []NothingLeft
<1>1. SupervisionInit => Owned
  BY WakeInit DEF SupervisionInit
<1>2. Owned => NothingLeft
  BY DEF Owned, NothingLeft
<1> QED
  BY OwnedStep, DaemonWithin, <1>1, <1>2, PTL DEF SupervisionSpec

-----------------------------------------------------------------------------
\* A qualification that passes: who has done what

USE QualificationAssumption

\* The order in which the processes begin and end.
Order ==
  /\ starter \in {"begin", "sudo", "initial", "publish", "release", "cleanup", "gone"}
  /\ root \in {"none", "check", "start", "verify", "undo", "spawn", "announce", "done", "gone"}
  /\ starter = "begin" => root = "none"
  /\ guard # "none" => root \in {"announce", "done", "gone"}
  /\ starter \in {"initial", "publish", "release", "cleanup"} => root = "done"
  /\ supervisor # "none" => root = "done" /\ starter \in {"publish", "gone"}
  /\ supervisor \notin {"none", "wait", "gone"} => starter = "gone"
  /\ status \in {"launched", "running", "pass"} => starter = "gone"

\* What the guard reports it has done.
Guarded ==
  /\ guard = "report" /\ ~errors => unit = "inactive"
  /\ guard_status = "stopped" => guard = "gone" /\ unit = "inactive"

\* What the verdict stands for on the way to the status.
Judged ==
  /\ supervisor = "final" /\ verdict = "ok" => guard_status = "stopped"
  /\ status = "pass" => supervisor = "gone" /\ guard_status = "stopped"

\* A unit that was seen down stays down.
Seen ==
  /\ ~alive => root \in {"announce", "done", "gone"} /\ unit # "active" /\ sample.unit # "active"
  /\ sample.of # NoBlocks /\ sample.unit # "active" =>
       root \in {"announce", "done", "gone"} /\ unit # "active"
  /\ supervisor \notin {"watch", "post", "after"} => alive

\* Sizes and counters.
Sized ==
  /\ alive \in BOOLEAN /\ memory \in Blocks /\ moves \in 0 .. 2
  /\ seen \in 0 .. 5 /\ emitted \in 0 .. 5 /\ seen <= emitted
  /\ sample \in [of : Blocks \cup {NoBlocks}, unit : {"inactive", "active", "failed"}, new : BOOLEAN]
  /\ unit \in {"inactive", "active", "failed"}
  /\ observations \in [initial : Blocks \cup {NoBlocks}, peak : Blocks, low : Blocks \cup {NoBlocks},
                       settled : Blocks \cup {NoBlocks}, renewed : Blocks \cup {NoBlocks},
                       changed : BOOLEAN]

\* Before the first sample is counted the device's turns are counted from the last one.
Before ==
  observations.initial = NoBlocks =>
    /\ observations = NoObservations
    /\ supervisor \notin {"watch", "post", "after", "judge"}
    /\ supervisor \notin Returned /\ sample.of # NoBlocks /\ moves = 0 => memory <= sample.of

\* Until it has grown, nothing above the first sample is seen; until it has shrunk again,
\* nothing below what was seen above it.
Turns ==
  /\ observations.initial # NoBlocks =>
       /\ supervisor \in {"watch", "post", "after", "judge"} /\ sample.of # NoBlocks
       /\ moves = 0 => /\ memory <= observations.initial /\ sample.of <= observations.initial
                       /\ observations.peak <= observations.initial
       /\ moves = 1 /\ sample.of > observations.initial => sample.of <= memory
       /\ moves = 1 /\ observations.peak > observations.initial =>
            /\ observations.peak <= sample.of
            /\ observations.low = NoBlocks \/ observations.peak <= observations.low
  /\ observations.low # NoBlocks => supervisor \in {"post", "after", "judge"} \/ seen > 2

\* What a favourable verdict rests on.
Turned ==
  "reclaim" \in Required(expect) =>
    /\ supervisor \in {"release", "cleanup", "final"} /\ verdict = "ok" => moves = 2
    /\ status = "pass" => moves = 2

\* The processes begin one after the other.
LEMMA OrderStep == Order /\ [QualificationNext]_runVars => Order'
<1> SUFFICES ASSUME Order, [QualificationNext]_runVars PROVE Order'
  OBVIOUS
<1> USE DEF Order
<1>1. CASE StartRun \/ StartGuarded \/ StartSupervisor \/ StartPublish \/ StartRelease
           \/ StartCleanup \/ StarterDies
  BY <1>1 DEF StartRun, StartGuarded, StartSupervisor, StartPublish, StartRelease, StartCleanup,
     StarterDies, finish_start_failure, Release, runVars, guardVars, loadVars, judgeVars,
     worldVars
<1>2. CASE Root
  BY <1>2 DEF Root, RootCheck, RootStart, RootVerify, RootUndo, RootSpawn, RootAnnounce, Stops,
     write_root_guard_status, runVars, guardVars, loadVars, judgeVars, worldVars
<1>3. CASE GuardSample \/ Guard
  BY <1>3 DEF Guard, GuardEnds, GuardStop, GuardReport, GuardSample, write_root_guard_status,
     runVars, guardVars, loadVars, judgeVars, worldVars
<1>4. CASE Supervisor
  BY <1>4 DEF Supervisor, SupWait, SupBefore, SupAfter, SupBaseline, SupTakes, SupSamples, SupExit,
     SupGivesUp, SupPost, SupJudge, SupRelease, SupCleanup, SupFinal, SupDies, Preflight,
     GiveUp, Forget, Count, Release, runVars, guardVars, loadVars, judgeVars, worldVars,
     launched
<1>5. CASE LoadPhase \/ LoadEnds \/ Resize \/ ControllerFails
  BY <1>5 DEF LoadPhase, LoadEnds, Resize, ControllerFails, runVars, guardVars, loadVars, judgeVars,
     worldVars
<1>6. CASE UNCHANGED runVars
  BY <1>6 DEF runVars, guardVars, loadVars, judgeVars, worldVars
<1> QED
  BY <1>1, <1>2, <1>3, <1>4, <1>5, <1>6 DEF QualificationNext

\* The guard reports only what it has done.
LEMMA GuardedStep == Guarded /\ Order /\ [QualificationNext]_runVars => Guarded'
<1> SUFFICES ASSUME Guarded /\ Order, [QualificationNext]_runVars PROVE Guarded'
  OBVIOUS
<1> USE DEF Guarded
<1>1. CASE StartRun \/ StartGuarded \/ StartSupervisor \/ StartPublish \/ StartRelease
           \/ StartCleanup \/ StarterDies
  BY <1>1 DEF StartRun, StartGuarded, StartSupervisor, StartPublish, StartRelease, StartCleanup,
     StarterDies, finish_start_failure, Release, runVars, guardVars, loadVars, judgeVars,
     worldVars
<1>2. CASE Root
  BY <1>2 DEF Root, RootCheck, RootStart, RootVerify, RootUndo, RootSpawn, RootAnnounce, Stops,
     write_root_guard_status, runVars, guardVars, loadVars, judgeVars, worldVars, Order
<1>3. CASE GuardSample \/ Guard
  BY <1>3 DEF Guard, GuardEnds, GuardStop, GuardReport, GuardSample, write_root_guard_status,
     runVars, guardVars, loadVars, judgeVars, worldVars, Order
<1>4. CASE Supervisor
  BY <1>4 DEF Supervisor, SupWait, SupBefore, SupAfter, SupBaseline, SupTakes, SupSamples, SupExit,
     SupGivesUp, SupPost, SupJudge, SupRelease, SupCleanup, SupFinal, SupDies, Preflight,
     GiveUp, Forget, Count, Release, runVars, guardVars, loadVars, judgeVars, worldVars
<1>5. CASE LoadPhase \/ LoadEnds \/ Resize \/ ControllerFails
  BY <1>5 DEF LoadPhase, LoadEnds, Resize, ControllerFails, runVars, guardVars, loadVars, judgeVars,
     worldVars
<1>6. CASE UNCHANGED runVars
  BY <1>6 DEF runVars, guardVars, loadVars, judgeVars, worldVars
<1> QED
  BY <1>1, <1>2, <1>3, <1>4, <1>5, <1>6 DEF QualificationNext

\* A favourable verdict outlives the guard.
LEMMA JudgedStep == Judged /\ Order /\ Guarded /\ [QualificationNext]_runVars => Judged'
<1> SUFFICES ASSUME Judged /\ Order /\ Guarded, [QualificationNext]_runVars PROVE Judged'
  OBVIOUS
<1> USE DEF Judged
<1>1. CASE StartRun \/ StartGuarded \/ StartSupervisor \/ StartPublish \/ StartRelease
           \/ StartCleanup \/ StarterDies
  BY <1>1 DEF StartRun, StartGuarded, StartSupervisor, StartPublish, StartRelease, StartCleanup,
     StarterDies, finish_start_failure, Release, runVars, guardVars, loadVars, judgeVars,
     worldVars, Order
<1>2. CASE Root
  BY <1>2 DEF Root, RootCheck, RootStart, RootVerify, RootUndo, RootSpawn, RootAnnounce, Stops,
     write_root_guard_status, runVars, guardVars, loadVars, judgeVars, worldVars, Order
<1>3. CASE GuardSample \/ Guard
  BY <1>3 DEF Guard, GuardEnds, GuardStop, GuardReport, GuardSample, write_root_guard_status,
     runVars, guardVars, loadVars, judgeVars, worldVars, Guarded
<1>4. CASE Supervisor
  BY <1>4 DEF Supervisor, SupWait, SupBefore, SupAfter, SupBaseline, SupTakes, SupSamples, SupExit,
     SupGivesUp, SupPost, SupJudge, SupRelease, SupCleanup, SupFinal, SupDies, Preflight,
     GiveUp, Forget, Count, Release, runVars, guardVars, loadVars, judgeVars, worldVars,
     guard_stopped
<1>5. CASE LoadPhase \/ LoadEnds \/ Resize \/ ControllerFails
  BY <1>5 DEF LoadPhase, LoadEnds, Resize, ControllerFails, runVars, guardVars, loadVars, judgeVars,
     worldVars
<1>6. CASE UNCHANGED runVars
  BY <1>6 DEF runVars, guardVars, loadVars, judgeVars, worldVars
<1> QED
  BY <1>1, <1>2, <1>3, <1>4, <1>5, <1>6 DEF QualificationNext

-----------------------------------------------------------------------------
\* What a step does to what the supervisor has seen

Watching == {"watch", "post", "after", "judge"}

\* It stops looking: an error, or its death.
Drops == supervisor' \in Returned /\ Forget /\ alive' = TRUE /\ moves' = 0

\* It has found what was required.
Passes ==
  /\ supervisor = "judge" /\ supervisor' = "release" /\ Forget
  /\ classify(expect, seen, observations) /\ UNCHANGED <<alive, moves>>

\* It counts a sample, for a peak only while it knows of that phase and no later one.
Counts ==
  /\ supervisor \in {"baseline", "watch", "post"} /\ supervisor' \in {"watch", "post"}
  /\ supervisor = "post" => supervisor' = "post"
  /\ \E label \in {"baseline", "peak", "settled", "renewed", "complete", "post_workload"} :
       /\ Count(label)
       /\ label = "peak" => supervisor = "watch" /\ seen = 2
       /\ label \in {"settled", "post_workload", "complete"} =>
            supervisor' = "post" \/ seen > 2
  /\ UNCHANGED <<moves, emitted, seen>>

\* It goes on, and may have taken lines.
Walks ==
  /\ \/ /\ supervisor \in Watching /\ supervisor' \in Watching
        /\ supervisor # "watch" => supervisor' # "watch"
     \/ /\ supervisor \notin Watching /\ supervisor' \notin Watching
        /\ supervisor \in Returned => supervisor' \in Returned
  /\ emitted' = emitted /\ seen' \in seen .. emitted
  /\ supervisor' = "judge" => sample.unit = "active"
  /\ UNCHANGED <<observations, alive, sample, moves>>

\* Every step of the supervisor is one of the four.
LEMMA SupervisorSteps ==
  Sized /\ Supervisor =>
    /\ UNCHANGED <<memory, unit, root, expect>>
    /\ Drops \/ Passes \/ Counts \/ Walks
<1> SUFFICES ASSUME Sized, Supervisor
             PROVE  /\ UNCHANGED <<memory, unit, root, expect>>
                    /\ Drops \/ Passes \/ Counts \/ Walks
  OBVIOUS
<1>0. seen \in 0 .. 5 /\ emitted \in 0 .. 5 /\ seen <= emitted
  BY DEF Sized
<1> USE DEF Returned, Watching, guardVars, loadVars, judgeVars, worldVars
<1>1. CASE SupWait \/ SupTakes \/ SupRelease \/ SupCleanup \/ SupFinal
  BY <1>0, <1>1 DEF SupWait, SupTakes, SupRelease, SupCleanup, SupFinal, Walks, line_waiting
<1>2. CASE SupBefore \/ SupAfter
  <2>1. CASE GiveUp
    BY <1>2, <2>1 DEF SupBefore, SupAfter, GiveUp, Drops
  <2>2. CASE ~GiveUp
    <3>1. /\ \/ supervisor = "before" /\ supervisor' = "baseline"
             \/ supervisor = "after" /\ supervisor' = "judge"
          /\ sample.unit = "active"
          /\ UNCHANGED <<judgeVars, sample, loadVars, moves, memory, unit, root, expect>>
      BY <1>2, <2>2 DEF SupBefore, SupAfter, Preflight, controller_active
    <3>2. seen' \in seen .. emitted
      BY <1>0, <3>1
    <3> QED
      BY <3>1, <3>2 DEF Walks
  <2> QED
    BY <2>1, <2>2
<1>3. CASE SupBaseline
  BY <1>3 DEF SupBaseline, GiveUp, Drops, Counts
<1>4. CASE SupSamples
  <2> DEFINE label == IF seen = 0 THEN "baseline" ELSE Phases[seen]
  <2>1. /\ label \in {"baseline", "peak", "settled", "renewed", "complete"}
        /\ label = "peak" => seen = 2
        /\ label \in {"settled", "complete"} => seen > 2
    BY <1>0 DEF Phases
  <2>2. Count(label) /\ supervisor = "watch" /\ UNCHANGED <<supervisor, moves, emitted, seen>>
    BY <1>4 DEF SupSamples
  <2> HIDE DEF label
  <2>3. label # "post_workload"
    BY <2>1
  <2> QED
    BY <1>4, <2>1, <2>2, <2>3 DEF SupSamples, Counts
<1>5. CASE SupExit
  BY <1>0, <1>5 DEF SupExit, GiveUp, Drops, Walks
<1>6. CASE SupPost
  <2>1. CASE Count("post_workload") /\ UNCHANGED supervisor
    BY <1>6, <2>1 DEF SupPost, Counts
  <2>2. CASE supervisor' = "after" /\ UNCHANGED <<judgeVars, sample>>
    BY <1>0, <1>6, <2>2 DEF SupPost, Walks
  <2> QED
    BY <1>6, <2>1, <2>2 DEF SupPost
<1>7. CASE SupGivesUp \/ SupDies
  BY <1>7 DEF SupGivesUp, SupDies, GiveUp, Drops
<1>8. CASE SupJudge
  BY <1>8 DEF SupJudge, GiveUp, Drops, Passes
<1> QED
  BY <1>1, <1>2, <1>3, <1>4, <1>5, <1>6, <1>7, <1>8 DEF Supervisor

\* A sample that is counted stays what it was.
LEMMA CountKeeps ==
  ASSUME NEW label, Sized, Count(label)
  PROVE  /\ sample.of # NoBlocks /\ sample.of \in Blocks
         /\ sample'.of = sample.of /\ sample'.unit = sample.unit
         /\ alive' = (alive /\ sample.unit = "active")
         /\ observations' = counted(observations, sample.of, label)
<1>1. sample \in [of : Blocks \cup {NoBlocks}, unit : {"inactive", "active", "failed"}, new : BOOLEAN]
  BY DEF Sized
<1> QED
  BY <1>1 DEF Count, Published

\* The observations after a sample of size s.
LEMMA CountedFields ==
  ASSUME NEW o, NEW s, NEW label
  PROVE  LET c == counted(o, s, label) IN
         /\ c.initial = IF o.initial = NoBlocks THEN s ELSE o.initial
         /\ c.peak = IF label = "peak" THEN Larger(o.peak, s) ELSE o.peak
         /\ c.low = IF label \in {"settled", "post_workload", "complete"} THEN Smaller(o.low, s) ELSE o.low
BY DEF counted, counts_as_low

\* The guard's sample is the device and the unit as they are.
LEMMA SampleTaken ==
  GuardSample => /\ sample'.of = memory /\ sample'.unit = unit
                 /\ guard = "serve" /\ supervisor \notin Returned
                 /\ moves' = IF observations.initial = NoBlocks THEN 0 ELSE moves
                 /\ UNCHANGED <<root, supervisor, memory, unit, observations, alive, seen, emitted, expect, status, verdict>>
BY DEF GuardSample, loadVars, judgeVars

\* Every step keeps sizes and counters in their ranges.
LEMMA SizedStep == Sized /\ [QualificationNext]_runVars => Sized'
<1> SUFFICES ASSUME Sized, [QualificationNext]_runVars PROVE Sized'
  OBVIOUS
<1> USE DEF Sized
<1>1. CASE StartRun \/ StartGuarded \/ StartSupervisor \/ StartPublish \/ StartRelease
           \/ StartCleanup \/ StarterDies
  BY <1>1 DEF StartRun, StartGuarded, StartSupervisor, StartPublish, StartRelease, StartCleanup,
     StarterDies, finish_start_failure, Release, runVars, guardVars, loadVars, judgeVars,
     worldVars
<1>2. CASE Root
  BY <1>2 DEF Root, RootCheck, RootStart, RootVerify, RootUndo, RootSpawn, RootAnnounce, Stops,
     write_root_guard_status, runVars, guardVars, loadVars, judgeVars, worldVars
<1>3. CASE GuardSample \/ Guard
  <2>1. CASE GuardSample
    <3>1. sample' \in [of : Blocks \cup {NoBlocks}, unit : {"inactive", "active", "failed"}, new : BOOLEAN]
      BY <2>1 DEF GuardSample
    <3>2. moves' \in 0 .. 2
      BY <2>1, SampleTaken
    <3> QED
      BY <2>1, <3>1, <3>2, SampleTaken
  <2>2. CASE Guard
    BY <2>2 DEF Guard, GuardEnds, GuardStop, GuardReport, guardVars, loadVars, judgeVars, worldVars
  <2> QED
    BY <1>3, <2>1, <2>2
<1>4. CASE Supervisor
  <2>0. UNCHANGED <<memory, unit, root, expect>> /\ (Drops \/ Passes \/ Counts \/ Walks)
    BY <1>4, SupervisorSteps
  <2>1. CASE Drops \/ Passes
    <3>1. NoObservations \in [initial : Blocks \cup {NoBlocks}, peak : Blocks, low : Blocks \cup {NoBlocks},
             settled : Blocks \cup {NoBlocks}, renewed : Blocks \cup {NoBlocks}, changed : BOOLEAN]
      BY DEF NoObservations, Blocks
    <3>2. NoSample \in [of : Blocks \cup {NoBlocks}, unit : {"inactive", "active", "failed"}, new : BOOLEAN]
      BY DEF NoSample
    <3>3. /\ moves' = 0 \/ moves' = moves
          /\ seen' = 0 /\ emitted' = 0
          /\ observations' = NoObservations /\ sample' = NoSample
      BY <2>1 DEF Drops, Passes, Forget
    <3>4. alive' \in BOOLEAN
      BY <2>1 DEF Drops, Passes
    <3> QED
      BY <2>0, <3>1, <3>2, <3>3, <3>4
  <2>2. CASE Counts
    <3>1. PICK label : Count(label)
      BY <2>2 DEF Counts
    <3>2. sample.of \in Blocks /\ observations' = counted(observations, sample.of, label)
      BY <3>1, CountKeeps
    <3>3. counted(observations, sample.of, label)
            \in [initial : Blocks \cup {NoBlocks}, peak : Blocks, low : Blocks \cup {NoBlocks},
                settled : Blocks \cup {NoBlocks}, renewed : Blocks \cup {NoBlocks}, changed : BOOLEAN]
      BY <3>2 DEF counted, Larger, Smaller
    <3>4. sample' \in [of : Blocks \cup {NoBlocks}, unit : {"inactive", "active", "failed"}, new : BOOLEAN]
      BY <3>1 DEF Count
    <3>5. alive' \in BOOLEAN /\ UNCHANGED <<moves, emitted, seen>>
      BY <2>2, <3>1 DEF Count, Counts
    <3> QED
      BY <2>0, <3>2, <3>3, <3>4, <3>5
  <2>3. CASE Walks
    BY <2>0, <2>3 DEF Walks
  <2> QED
    BY <2>0, <2>1, <2>2, <2>3
<1>5. CASE LoadPhase \/ LoadEnds \/ Resize \/ ControllerFails
  BY <1>5 DEF LoadPhase, LoadEnds, Resize, ControllerFails, runVars, guardVars, loadVars, judgeVars,
     worldVars, Phases
<1>6. CASE UNCHANGED runVars
  BY <1>6 DEF runVars, guardVars, loadVars, judgeVars, worldVars
<1> QED
  BY <1>1, <1>2, <1>3, <1>4, <1>5, <1>6 DEF QualificationNext

\* Nothing starts the unit again once it was seen down.
LEMMA SeenStep == Seen /\ Order /\ Sized /\ [QualificationNext]_runVars => Seen'
<1> SUFFICES ASSUME Seen /\ Order /\ Sized, [QualificationNext]_runVars PROVE Seen'
  OBVIOUS
<1> USE DEF Seen
<1>1. CASE StartRun \/ StartGuarded \/ StartSupervisor \/ StartPublish \/ StartRelease
           \/ StartCleanup \/ StarterDies
  BY <1>1 DEF StartRun, StartGuarded, StartSupervisor, StartPublish, StartRelease, StartCleanup,
     StarterDies, finish_start_failure, Release, runVars, guardVars, loadVars, judgeVars,
     worldVars, Order
<1>2. CASE Root
  BY <1>2 DEF Root, RootCheck, RootStart, RootVerify, RootUndo, RootSpawn, RootAnnounce, Stops,
     write_root_guard_status, runVars, guardVars, loadVars, judgeVars, worldVars, Order
<1>3. CASE GuardSample \/ Guard
  <2>1. CASE GuardSample
    BY <2>1, SampleTaken DEF Order
  <2>2. CASE Guard
    BY <2>2 DEF Guard, GuardEnds, GuardStop, GuardReport, write_root_guard_status, runVars,
       guardVars, loadVars, judgeVars, worldVars
  <2> QED
    BY <1>3, <2>1, <2>2
<1>4. CASE Supervisor
  <2>0. UNCHANGED <<memory, unit, root, expect>> /\ (Drops \/ Passes \/ Counts \/ Walks)
    BY <1>4, SupervisorSteps
  <2>1. CASE Drops
    BY <2>0, <2>1 DEF Drops, Forget, NoSample
  <2>2. CASE Passes
    BY <2>0, <2>2 DEF Passes, Forget, NoSample
  <2>3. CASE Counts
    <3>1. PICK label : Count(label)
      BY <2>3 DEF Counts
    <3>2. sample.of # NoBlocks /\ sample'.of = sample.of /\ sample'.unit = sample.unit
          /\ alive' = (alive /\ sample.unit = "active")
      BY <3>1, CountKeeps
    <3> QED
      BY <2>0, <2>3, <3>2 DEF Counts, Sized
  <2>4. CASE Walks
    BY <2>0, <2>4 DEF Walks, Watching, Sized
  <2> QED
    BY <2>0, <2>1, <2>2, <2>3, <2>4
<1>5. CASE LoadPhase \/ LoadEnds \/ Resize \/ ControllerFails
  BY <1>5 DEF LoadPhase, LoadEnds, Resize, ControllerFails, runVars, guardVars, loadVars, judgeVars,
     worldVars
<1>6. CASE UNCHANGED runVars
  BY <1>6 DEF runVars, guardVars, loadVars, judgeVars, worldVars
<1> QED
  BY <1>1, <1>2, <1>3, <1>4, <1>5, <1>6 DEF QualificationNext

\* Every step counts the turns from the last sample, until one is counted.
LEMMA BeforeStep == Before /\ Order /\ Sized /\ [QualificationNext]_runVars => Before'
<1> SUFFICES ASSUME Before /\ Order /\ Sized, [QualificationNext]_runVars PROVE Before'
  OBVIOUS
<1> USE DEF Before
<1>1. CASE StartRun \/ StartGuarded \/ StartSupervisor \/ StartPublish \/ StartRelease
           \/ StartCleanup \/ StarterDies
  BY <1>1 DEF StartRun, StartGuarded, StartSupervisor, StartPublish, StartRelease, StartCleanup,
     StarterDies, finish_start_failure, Release, runVars, guardVars, loadVars, judgeVars,
     worldVars, Order, Returned
<1>2. CASE Root
  BY <1>2 DEF Root, RootCheck, RootStart, RootVerify, RootUndo, RootSpawn, RootAnnounce, Stops,
     write_root_guard_status, runVars, guardVars, loadVars, judgeVars, worldVars
<1>3. CASE GuardSample \/ Guard
  <2>1. CASE GuardSample
    BY <2>1, SampleTaken DEF Sized, Blocks
  <2>2. CASE Guard
    BY <2>2 DEF Guard, GuardEnds, GuardStop, GuardReport, write_root_guard_status, runVars,
       guardVars, loadVars, judgeVars, worldVars
  <2> QED
    BY <1>3, <2>1, <2>2
<1>4. CASE Supervisor
  <2>0. UNCHANGED <<memory, unit, root, expect>> /\ (Drops \/ Passes \/ Counts \/ Walks)
    BY <1>4, SupervisorSteps
  <2>1. CASE Drops
    BY <2>0, <2>1 DEF Drops, Forget, NoSample, NoObservations, Returned
  <2>2. CASE Passes
    BY <2>0, <2>2 DEF Passes, Forget, NoSample, NoObservations, Returned
  <2>3. CASE Counts
    <3>1. PICK label : /\ Count(label)
                       /\ label = "peak" => supervisor = "watch" /\ seen = 2
                       /\ label \in {"settled", "post_workload", "complete"} =>
                            supervisor' = "post" \/ seen > 2
      BY <2>3 DEF Counts
    <3> DEFINE s == sample.of
    <3>2. /\ s # NoBlocks /\ s \in Blocks /\ sample'.of = s /\ sample'.unit = sample.unit
          /\ alive' = (alive /\ sample.unit = "active")
          /\ observations' = counted(observations, s, label)
      BY <3>1, CountKeeps
    <3>3. /\ observations'.initial = IF observations.initial = NoBlocks THEN s ELSE observations.initial
          /\ observations'.peak = IF label = "peak" THEN Larger(observations.peak, s) ELSE observations.peak
          /\ observations'.low = IF label \in {"settled", "post_workload", "complete"}
                                THEN Smaller(observations.low, s) ELSE observations.low
      BY <3>2, CountedFields
    <3> HIDE DEF s
    <3> QED
      BY <2>0, <2>3, <3>1, <3>2, <3>3 DEF Counts, NoBlocks, Blocks, Sized
  <2>4. CASE Walks
    BY <2>0, <2>4 DEF Walks, Watching, Returned
  <2> QED
    BY <2>0, <2>1, <2>2, <2>3, <2>4
<1>5. CASE LoadPhase \/ LoadEnds \/ Resize \/ ControllerFails
  <2>1. CASE Resize
    <3>1. PICK b \in Blocks \ {memory} :
            /\ memory' = b
            /\ moves' = CASE supervisor \in Returned    -> moves
                          [] moves = 0 /\ b > memory -> 1
                          [] moves = 1 /\ b < memory -> 2
                          [] OTHER                   -> moves
      BY <2>1 DEF Resize
    <3>2. UNCHANGED <<supervisor, observations, sample, seen>>
      BY <2>1 DEF Resize, guardVars, loadVars, judgeVars
    <3>3. CASE supervisor \in Returned
      BY <3>1, <3>2, <3>3 DEF Sized, Blocks, NoBlocks
    <3>4. CASE supervisor \notin Returned
      <4>1. \/ moves = 0 /\ b > memory /\ moves' = 1
            \/ moves = 1 /\ b < memory /\ moves' = 2
            \/ moves' = moves /\ (moves = 0 => b <= memory) /\ (moves = 1 => b >= memory)
        BY <3>1, <3>4 DEF Sized, Blocks
      <4> QED
        BY <3>1, <3>2, <3>4, <4>1 DEF Sized, Blocks, NoBlocks
    <3> QED
      BY <3>3, <3>4
  <2>2. CASE LoadPhase \/ LoadEnds \/ ControllerFails
    BY <2>2 DEF LoadPhase, LoadEnds, ControllerFails, guardVars, loadVars, judgeVars, worldVars
  <2> QED
    BY <1>5, <2>1, <2>2
<1>6. CASE UNCHANGED runVars
  BY <1>6 DEF runVars, guardVars, loadVars, judgeVars, worldVars
<1> QED
  BY <1>1, <1>2, <1>3, <1>4, <1>5, <1>6 DEF QualificationNext

\* Every step keeps to what the device has done since the first sample.
LEMMA TurnsStep == Turns /\ Before /\ Order /\ Sized /\ [QualificationNext]_runVars => Turns'
<1> SUFFICES ASSUME Turns /\ Before /\ Order /\ Sized, [QualificationNext]_runVars PROVE Turns'
  OBVIOUS
<1> USE DEF Turns
<1>1. CASE StartRun \/ StartGuarded \/ StartSupervisor \/ StartPublish \/ StartRelease
           \/ StartCleanup \/ StarterDies
  BY <1>1 DEF StartRun, StartGuarded, StartSupervisor, StartPublish, StartRelease, StartCleanup,
     StarterDies, finish_start_failure, Release, runVars, guardVars, loadVars, judgeVars,
     worldVars, Order
<1>2. CASE Root
  BY <1>2 DEF Root, RootCheck, RootStart, RootVerify, RootUndo, RootSpawn, RootAnnounce, Stops,
     write_root_guard_status, runVars, guardVars, loadVars, judgeVars, worldVars
<1>3. CASE GuardSample \/ Guard
  <2>1. CASE GuardSample
    BY <2>1, SampleTaken DEF Sized, Blocks, NoBlocks
  <2>2. CASE Guard
    BY <2>2 DEF Guard, GuardEnds, GuardStop, GuardReport, write_root_guard_status, runVars,
       guardVars, loadVars, judgeVars, worldVars
  <2> QED
    BY <1>3, <2>1, <2>2
<1>4. CASE Supervisor
  <2>0. UNCHANGED <<memory, unit, root, expect>> /\ (Drops \/ Passes \/ Counts \/ Walks)
    BY <1>4, SupervisorSteps
  <2>1. CASE Drops
    BY <2>0, <2>1 DEF Drops, Forget, NoSample, NoObservations, Returned
  <2>2. CASE Passes
    BY <2>0, <2>2 DEF Passes, Forget, NoSample, NoObservations, Returned
  <2>3. CASE Counts
    <3>1. PICK label : /\ Count(label)
                       /\ label = "peak" => supervisor = "watch" /\ seen = 2
                       /\ label \in {"settled", "post_workload", "complete"} =>
                            supervisor' = "post" \/ seen > 2
      BY <2>3 DEF Counts
    <3> DEFINE s == sample.of
    <3>2. /\ s # NoBlocks /\ s \in Blocks /\ sample'.of = s /\ sample'.unit = sample.unit
          /\ alive' = (alive /\ sample.unit = "active")
          /\ observations' = counted(observations, s, label)
      BY <3>1, CountKeeps
    <3>3. /\ observations'.initial = IF observations.initial = NoBlocks THEN s ELSE observations.initial
          /\ observations'.peak = IF label = "peak" THEN Larger(observations.peak, s) ELSE observations.peak
          /\ observations'.low = IF label \in {"settled", "post_workload", "complete"}
                                THEN Smaller(observations.low, s) ELSE observations.low
      BY <3>2, CountedFields
    <3> HIDE DEF s
    <3>4. UNCHANGED <<moves, memory, seen>> /\ supervisor' \in {"watch", "post"}
          /\ (supervisor = "post" => supervisor' = "post")
      BY <2>0, <2>3 DEF Counts
    <3>5. observations.peak \in Nat /\ observations.low \in Int /\ observations.initial \in Int
          /\ s \in Nat /\ memory \in Nat /\ NoBlocks = -1 /\ seen \in Int
      BY <3>2 DEF Sized, Blocks, NoBlocks
    <3>6. CASE observations.initial = NoBlocks
      <4>1. observations.peak = 0 /\ observations.low = NoBlocks /\ (moves = 0 => memory <= s)
            /\ supervisor # "watch"
        BY <2>3, <3>2, <3>6 DEF Before, NoObservations, Counts, Returned, s
      <4>2. observations'.initial = s /\ observations'.peak = 0
        BY <3>1, <3>3, <3>6, <4>1
      <4> QED
        BY <3>1, <3>2, <3>3, <3>4, <3>5, <4>1, <4>2 DEF Smaller
    <3>7. CASE observations.initial # NoBlocks
      <4>1. observations'.initial = observations.initial
        BY <3>3, <3>7
      <4>2. moves = 0 => observations'.peak <= observations'.initial
        BY <3>3, <3>5, <3>7, <4>1 DEF Larger, s
      <4>3. label = "peak" => observations'.low = NoBlocks
        BY <3>1, <3>3, <3>4
      <4>4. moves = 1 /\ observations'.peak > observations'.initial =>
              /\ observations'.peak <= s
              /\ observations'.low = NoBlocks \/ observations'.peak <= observations'.low
        BY <3>3, <3>5, <3>7, <4>1, <4>3 DEF Larger, Smaller, s
      <4>5. observations'.low # NoBlocks => supervisor' = "post" \/ seen' > 2
        BY <2>3, <3>1, <3>3, <3>4 DEF Counts
      <4> QED
        BY <3>2, <3>4, <3>7, <4>1, <4>2, <4>4, <4>5 DEF s
    <3> QED
      BY <3>6, <3>7
  <2>4. CASE Walks
    BY <2>0, <2>4 DEF Walks, Watching, Returned, Sized
  <2> QED
    BY <2>0, <2>1, <2>2, <2>3, <2>4
<1>5. CASE LoadPhase \/ LoadEnds \/ Resize \/ ControllerFails
  <2>1. CASE Resize
    <3>1. PICK b \in Blocks \ {memory} :
            /\ memory' = b
            /\ moves' = CASE supervisor \in Returned    -> moves
                          [] moves = 0 /\ b > memory -> 1
                          [] moves = 1 /\ b < memory -> 2
                          [] OTHER                   -> moves
      BY <2>1 DEF Resize
    <3>2. UNCHANGED <<supervisor, observations, sample, seen>>
      BY <2>1 DEF Resize, guardVars, loadVars, judgeVars
    <3>3. CASE supervisor \in Returned
      BY <3>1, <3>2, <3>3 DEF Sized, Blocks, NoBlocks, Returned
    <3>4. CASE supervisor \notin Returned
      <4>1. \/ moves = 0 /\ b > memory /\ moves' = 1
            \/ moves = 1 /\ b < memory /\ moves' = 2
            \/ moves' = moves /\ (moves = 0 => b <= memory) /\ (moves = 1 => b >= memory)
        BY <3>1, <3>4 DEF Sized, Blocks
      <4> QED
        BY <3>1, <3>2, <3>4, <4>1 DEF Sized, Blocks, NoBlocks, Returned
    <3> QED
      BY <3>3, <3>4
  <2>2. CASE LoadPhase \/ LoadEnds \/ ControllerFails
    BY <2>2 DEF LoadPhase, LoadEnds, ControllerFails, guardVars, loadVars, judgeVars, worldVars
  <2> QED
    BY <1>5, <2>1, <2>2
<1>6. CASE UNCHANGED runVars
  BY <1>6 DEF runVars, guardVars, loadVars, judgeVars, worldVars
<1> QED
  BY <1>1, <1>2, <1>3, <1>4, <1>5, <1>6 DEF QualificationNext

\* A run that has found growth and reclaim: the device has turned twice.
LEMMA FoundTurns ==
  ASSUME Sized, Before, Turns, supervisor = "judge", classify(expect, seen, observations),
         "reclaim" \in Required(expect)
  PROVE  moves = 2
<1>1. observations.peak > observations.initial /\ observations.low # NoBlocks
      /\ observations.peak > observations.low
  <2>1. expect = "resize" \/ expect \notin {"no_resize", "no_reclaim"}
    BY DEF Required
  <2>2. {"growth", "reclaim"} \subseteq analyze(observations)
    BY <2>1 DEF classify, Required
  <2>3. /\ "growth" \in analyze(observations) => observations.peak > observations.initial
        /\ "reclaim" \in analyze(observations) =>
             observations.low # NoBlocks /\ observations.peak > observations.low
    BY DEF analyze
  <2> QED
    BY <2>2, <2>3
<1>2. observations.initial # NoBlocks
  BY DEF Before
<1>3. /\ observations.peak \in Int /\ observations.low \in Int /\ observations.initial \in Int
      /\ moves \in 0 .. 2
  BY DEF Sized, Blocks, NoBlocks
<1> QED
  BY <1>1, <1>2, <1>3 DEF Turns

\* Every step of a run that may still pass keeps the turns it rests on.
LEMMA TurnedStep ==
  Turned /\ Turns /\ Before /\ Sized /\ Order /\ Judged /\ [QualificationNext]_runVars => Turned'
<1> SUFFICES ASSUME Turned, Turns, Before, Sized, Order, Judged, [QualificationNext]_runVars,
                    "reclaim" \in Required(expect)'
             PROVE  /\ supervisor' \in {"release", "cleanup", "final"} /\ verdict' = "ok" => moves' = 2
                    /\ status' = "pass" => moves' = 2
  BY DEF Turned
<1>0. expect' = expect /\ "reclaim" \in Required(expect)
  <2>1. expect' = expect
    BY DEF QualificationNext, StartRun, StartGuarded, StartSupervisor, StartPublish, StartRelease,
       StartCleanup, StarterDies, Root, RootCheck, RootStart, RootVerify, RootUndo, RootSpawn,
       RootAnnounce, GuardSample, Guard, GuardEnds, GuardStop, GuardReport, Supervisor, SupWait,
       SupBefore, SupAfter, SupBaseline, SupTakes, SupSamples, SupExit, SupGivesUp, SupPost,
       SupJudge, SupRelease, SupCleanup, SupFinal, SupDies, LoadPhase, LoadEnds, Resize,
       ControllerFails, runVars
  <2> QED
    BY <2>1 DEF Required
<1>1. CASE StartRun \/ StartGuarded \/ StartSupervisor \/ StartPublish \/ StartRelease
           \/ StartCleanup \/ StarterDies
  BY <1>0, <1>1 DEF StartRun, StartGuarded, StartSupervisor, StartPublish, StartRelease,
     StartCleanup, StarterDies, finish_start_failure, judgeVars, worldVars, Turned, Order
<1>2. CASE Root
  BY <1>0, <1>2 DEF Root, RootCheck, RootStart, RootVerify, RootUndo, RootSpawn, RootAnnounce,
     judgeVars, worldVars, Turned
<1>3. CASE GuardSample
  BY <1>0, <1>3, SampleTaken DEF Turned, Judged, Returned
<1>4. CASE Guard
  BY <1>0, <1>4 DEF Guard, GuardEnds, GuardStop, GuardReport, judgeVars, worldVars, Turned
<1>5. CASE SupJudge
  <2>1. CASE classify(expect, seen, observations) /\ UNCHANGED moves
    BY <1>0, <1>5, <2>1, FoundTurns DEF SupJudge
  <2>2. CASE GiveUp
    BY <1>5, <2>2 DEF SupJudge, GiveUp, Judged
  <2> QED
    BY <1>5, <2>1, <2>2 DEF SupJudge
<1>6. CASE SupRelease \/ SupCleanup \/ SupFinal
  BY <1>0, <1>6 DEF SupRelease, SupCleanup, SupFinal, worldVars, Turned, Judged
<1>7. CASE Supervisor /\ ~SupJudge /\ ~SupRelease /\ ~SupCleanup /\ ~SupFinal
  BY <1>7 DEF Supervisor, SupWait, SupBefore, SupAfter, SupBaseline, SupTakes, SupSamples, SupExit,
     SupGivesUp, SupPost, SupDies, Preflight, GiveUp, Judged
<1>8. CASE LoadPhase \/ LoadEnds \/ Resize \/ ControllerFails
  BY <1>0, <1>8 DEF LoadPhase, LoadEnds, Resize, ControllerFails, judgeVars, worldVars, Turned, Judged,
     Returned
<1>9. CASE UNCHANGED runVars
  BY <1>0, <1>9 DEF runVars, judgeVars, worldVars, Turned
<1> QED
  BY <1>1, <1>2, <1>3, <1>4, <1>5, <1>6, <1>7, <1>8, <1>9 DEF QualificationNext, Supervisor

\* A run begins with nothing seen.
LEMMA QualificationStart ==
  QualificationInit =>
    Order /\ Guarded /\ Judged /\ Seen /\ Sized /\ Before /\ Turns /\ Turned
BY DEF QualificationInit, Order, Guarded, Judged, Seen, Sized, Before, Turns, Turned, NoSample,
   NoObservations, NoBlocks, Blocks

\* The qualification, together with a daemon or alone, takes Qualification's steps.
LEMMA RunWithin == [SupervisionNext]_supervisionVars => [QualificationNext]_runVars
BY DEF SupervisionNext, supervisionVars

\* A run that passes has left the unit as it found it, has seen the controller active in
\* every sample it counted, and, where it requires a reclaim, the device has really grown
\* and shrunk since the first sample (supervise, serve_controller_guard, analyze in
\* qualification.rs).
THEOREM PassAlwaysTruthful == SupervisionSpec => []PassTruthful
<1> DEFINE I == Order /\ Guarded /\ Judged /\ Seen /\ Sized /\ Before /\ Turns /\ Turned
<1>1. SupervisionInit => I
  BY QualificationStart DEF SupervisionInit, NoQualification
<1>2. I /\ [SupervisionNext]_supervisionVars => I'
  BY RunWithin, OrderStep, GuardedStep, JudgedStep, SeenStep, SizedStep, BeforeStep, TurnsStep,
     TurnedStep
<1>3. I => PassTruthful
  BY DEF Order, Guarded, Judged, Seen, Turned, PassTruthful
<1> HIDE DEF I
<1> QED
  BY <1>1, <1>2, <1>3, PTL DEF SupervisionSpec
=============================================================================
