------------------------------ MODULE HostWake ------------------------------
(***************************************************************************)
(* The loop of the host daemon between its rounds (HostRuntime::run in     *)
(* host/src/runtime.rs): the wake channels of the VMs and the libvirt      *)
(* event subscription that may end a wait early (wake.rs), the virsh       *)
(* processes a round runs (capture_output in virsh.rs), and the runner     *)
(* that stands in for systemd in tests (xtask host_run.rs).                *)
(*                                                                         *)
(* What a round decides is VmController's and HostRound's; how it reads    *)
(* the guest is HostLink's.  A hint carries no authority: it only shortens *)
(* the wait before a round that looks at every VM.                         *)
(***************************************************************************)
EXTENDS Naturals, FiniteSets

CONSTANTS
  Peers,        \* the VMs with a wake channel
  MaxEnds       \* bound: lost wake channels and refused lookups

ASSUME WakeAssumption == Peers # {} /\ MaxEnds \in Nat

VARIABLES
  pc,           \* where the daemon's thread is
  stop,         \* SIGTERM or SIGINT arrived
  process,      \* the process group of the running virsh command
  stream,       \* WakePeer.stream
  retry,        \* the peers whose retry_after is in the future
  hints,        \* the peers with bytes to read
  child,        \* the virsh event process
  events,       \* MemoryEvents.output: none, open, ended (readable) or closed
  news,         \* event output to read
  runner,       \* host-run, if it started the daemon
  ends,         \* how many channels were lost so far
  unanswered,   \* history: peers that rang and saw no round start since
  endings       \* history: waits that the subscription's end has cut short

wakeVars == <<stream, retry, hints, ends, unanswered>>
eventVars == <<child, events, news, endings>>
vars == <<pc, stop, process, runner, wakeVars, eventVars>>

Lost == ends < MaxEnds

\* MemoryEvents::start; without a subscription the daemon polls.
Init ==
  /\ pc = "round" /\ stop = FALSE /\ process = {} /\ runner \in {"none", "watch"}
  /\ stream = [p \in Peers |-> "none"] /\ retry = {} /\ hints = {}
  /\ \/ child = "running" /\ events = "open"
     \/ child = "none" /\ events = "none"
  /\ news = FALSE /\ ends = 0 /\ unanswered = {} /\ endings = 0

-----------------------------------------------------------------------------
\* Rounds

Enter ==
  /\ pc = "round" /\ ~stop
  /\ pc' = "act" /\ unanswered' = {}
  /\ UNCHANGED <<stop, process, runner, stream, retry, hints, ends, eventVars>>

\* MemoryEvents::drop: a child that still runs is killed and reaped.
drop_events == "none"

Leave ==
  /\ pc = "round" /\ stop
  /\ pc' = "exited" /\ child' = drop_events
  /\ UNCHANGED <<stop, process, runner, wakeVars, events, news, endings>>

\* The round runs virsh, in a process group of its own together with whatever that
\* starts, a process that has let go of the pipes included; or it needs none.
Act ==
  /\ pc = "act"
  /\ \/ pc' = "virsh" /\ process' \in {{"child"}, {"child", "holder"}, {"child", "detached"}}
     \/ pc' \in {"notify", "wait"} /\ UNCHANGED process
  /\ UNCHANGED <<stop, runner, wakeVars, eventVars>>

ProcessExits ==
  /\ \E p \in process : process' = process \ {p}
  /\ UNCHANGED <<pc, stop, runner, wakeVars, eventVars>>

\* Faulty variant: only the direct child is killed.
kill_child(group) == group \ {"child"}

\* kill(-pid, SIGKILL): the group, whether the command succeeded or not.
kill_group(group) == {}

\* capture_output: the child is reaped and both pipes are at their end, or the deadline
\* or the output limit is reached.
VirshEnds ==
  /\ pc = "virsh" /\ process \subseteq {"detached"}
  /\ process' = kill_group(process) /\ pc' = "notify"
  /\ UNCHANGED <<stop, runner, wakeVars, eventVars>>

VirshKilled ==
  /\ pc = "virsh"
  /\ process' = kill_group(process) /\ pc' = "wait"
  /\ UNCHANGED <<stop, runner, wakeVars, eventVars>>

hints_without(p) == hints \ {p}

\* WakePeer::notify after a changed status; a stream that cannot be written is dropped,
\* with the hints it holds.
Notify ==
  /\ pc = "notify"
  /\ \/ UNCHANGED wakeVars
     \/ \E p \in Peers :
          /\ Lost /\ stream[p] # "none"
          /\ stream' = [stream EXCEPT ![p] = "none"] /\ ends' = ends + 1
          /\ hints' = hints_without(p) /\ unanswered' = unanswered \ {p}
          /\ UNCHANGED retry
  /\ pc' = "wait"
  /\ UNCHANGED <<stop, process, runner, eventVars>>

-----------------------------------------------------------------------------
\* The wait

\* Faulty variant: what the streams hold is discarded when the wait starts.
fresh_start(found) == {}
keep_hints(found) == found

\* channel_path: the lookups that find no channel in the live XML, or no socket at it.
channel_path(due) == {absent \in SUBSET due : Cardinality(absent) + ends <= MaxEnds}

\* WakePeer::connect for every peer without a stream whose retry_after has passed: a
\* channel that is absent is looked up again after RECONNECT_INTERVAL.
Connect ==
  /\ pc = "wait"
  /\ LET due == {p \in Peers : stream[p] = "none" /\ p \notin retry}
     IN \E absent \in channel_path(due) :
          /\ ends' = ends + Cardinality(absent)
          /\ retry' = retry \cup absent
          /\ stream' = [p \in Peers |-> IF p \in due \ absent THEN "open" ELSE stream[p]]
  /\ hints' = keep_hints(hints)
  /\ pc' = "poll"
  /\ UNCHANGED <<stop, process, runner, unanswered, eventVars>>

\* poll(2): input, or an end of file; a subscription that has closed is not polled.
Readable == hints # {} \/ (\E p \in Peers : stream[p] = "eof") \/ news \/ events = "ended"

PollReturns ==
  /\ pc = "poll" /\ ~stop /\ Readable
  /\ pc' = "drain"
  /\ endings' = IF events \in {"ended", "closed"} /\ ~news /\ hints = {}
                     /\ \A p \in Peers : stream[p] # "eof"
                THEN endings + 1 ELSE endings
  /\ UNCHANGED <<stop, process, runner, wakeVars, child, events, news>>

\* MemoryEvents::drain: an end of file closes the subscription.
closed_at_end == IF events = "ended" /\ ~news THEN "closed" ELSE events

\* One read of every stream, ready or not; hints that came since poll are read, too.
Drain ==
  /\ pc = "drain"
  /\ hints' = {} /\ news' = FALSE
  /\ stream' = [p \in Peers |-> IF stream[p] = "eof" /\ p \notin hints
                                THEN "none" ELSE stream[p]]
  /\ events' = closed_at_end
  /\ pc' = "round"
  /\ UNCHANGED <<stop, process, runner, retry, ends, unanswered, child, endings>>

\* Faulty variant: the interval counts from the last hint.
interval_renewed == Readable
IntervalOver == TRUE

\* The poll interval is over.
PollTimeout ==
  /\ pc = "poll" /\ ~stop /\ IntervalOver
  /\ pc' = "round"
  /\ UNCHANGED <<stop, process, runner, wakeVars, eventVars>>

\* The flag is looked at every 100 ms.
Attentive == stop

PollStop ==
  /\ pc = "poll" /\ Attentive
  /\ pc' = "round"
  /\ UNCHANGED <<stop, process, runner, wakeVars, eventVars>>

-----------------------------------------------------------------------------
\* The world (external)

Signal ==
  /\ ~stop
  /\ stop' = TRUE
  /\ UNCHANGED <<pc, process, runner, wakeVars, eventVars>>

GuestHint(p) ==
  /\ stream[p] = "open"
  /\ hints' = hints \cup {p} /\ unanswered' = unanswered \cup {p}
  /\ UNCHANGED <<pc, stop, process, runner, stream, retry, ends, eventVars>>

PeerGone(p) ==
  /\ Lost /\ stream[p] = "open"
  /\ stream' = [stream EXCEPT ![p] = "eof"] /\ ends' = ends + 1
  /\ UNCHANGED <<pc, stop, process, runner, retry, hints, unanswered, eventVars>>

RetryPasses ==
  /\ \E p \in retry : retry' = retry \ {p}
  /\ UNCHANGED <<pc, stop, process, runner, stream, hints, ends, unanswered, eventVars>>

MemoryEvent ==
  /\ events = "open" /\ ~news
  /\ news' = TRUE
  /\ UNCHANGED <<pc, stop, process, runner, wakeVars, child, events, endings>>

EventsEnd ==
  /\ child = "running" /\ pc # "exited"
  /\ child' = "zombie" /\ events' = "ended"
  /\ UNCHANGED <<pc, stop, process, runner, wakeVars, news, endings>>

-----------------------------------------------------------------------------
\* host-run

stop_due == TRUE

\* supervise: the daemon has exited; or it is time to stop it (an interrupt, the maximum
\* run time, too little host memory), and it gets SIGTERM.
RunnerStops ==
  /\ runner = "watch" /\ (pc = "exited" \/ stop_due)
  /\ IF pc = "exited" THEN runner' = "join" /\ UNCHANGED stop
                      ELSE runner' = "grace" /\ stop' = TRUE
  /\ UNCHANGED <<pc, process, wakeVars, eventVars>>

\* It exits within STOP_GRACE, or the outcome is StillRunning.
RunnerWaits ==
  /\ runner = "grace"
  /\ runner' = "join"
  /\ UNCHANGED <<pc, stop, process, wakeVars, eventVars>>

\* Either way run joins the readers of the daemon's output, which end with the daemon.
joined == pc = "exited"

RunnerReturns ==
  /\ runner = "join" /\ joined
  /\ runner' = "returned"
  /\ UNCHANGED <<pc, stop, process, wakeVars, eventVars>>

Runner == RunnerStops \/ RunnerWaits \/ RunnerReturns
Daemon == Enter \/ Leave \/ Act \/ VirshEnds \/ VirshKilled \/ Notify \/ Connect
          \/ PollReturns \/ Drain \/ PollTimeout \/ PollStop
World == ProcessExits \/ Signal \/ RetryPasses \/ MemoryEvent \/ EventsEnd
         \/ \E p \in Peers : GuestHint(p) \/ PeerGone(p)
Next == Daemon \/ Runner \/ World

Spec == Init /\ [][Next]_vars

\* The daemon's thread runs, the deadline of a virsh command passes, and so does the time
\* host-run allows.  Nothing is assumed of processes, peers or the subscription.
Fairness == WF_vars(Daemon) /\ WF_vars(Runner)
FairSpec == Spec /\ Fairness

-----------------------------------------------------------------------------
\* Properties

\* "Hints only accelerate a complete, guarded controller round" (wake.rs): but none is
\* lost while its stream lives.  While the daemon waits, a peer that rang and saw no
\* round since still has its hint to be read.  And "libvirt event subscription ended;
\* polling continues": the end of the subscription cuts one wait short and never makes
\* the daemon spin.
WokenByNews ==
  /\ pc = "poll" => unanswered \subseteq hints
  /\ endings <= 1

\* No process of a virsh command survives it (capture_output), not even one that let go
\* of the pipes and outlived the child; no event process survives the daemon; and
\* "Nothing is ... left running after this command returns" (host_run.rs), not even when
\* the daemon outstays the grace period.
NothingLeft ==
  /\ pc # "virsh" => process = {}
  /\ pc = "exited" => child = "none"
  /\ runner = "returned" => pc = "exited"

\* Rounds go on, with or without channels and subscription, until a stop ends the daemon,
\* whatever hangs; host-run's deadline ends the daemon and then host-run itself.
RoundsUntilStop ==
  /\ []<>(pc = "act" \/ stop)
  /\ stop ~> pc = "exited"
  /\ runner = "watch" ~> runner = "returned"
=============================================================================
