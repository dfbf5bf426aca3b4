---------------------------- MODULE GuestService ----------------------------
(***************************************************************************)
(* The life of the Windows service: the hosting thread and its worker      *)
(* (windows/src/service_host.rs), their dealings with the service control  *)
(* manager (windows/src/service_scm.rs, main.rs), the worker's loop        *)
(* (windows/src/runtime.rs) with what it waits for (windows/src/demand.rs) *)
(* and the virtio-serial doorbell (windows/src/wake.rs).                   *)
(*                                                                         *)
(* Four threads run here: service_main, the worker, SCM's control handler  *)
(* and an operator's install command.  What a poll decides and writes is   *)
(* GuestRequester's; here it succeeds, is skipped, fails, or never ends.   *)
(***************************************************************************)
EXTENDS Integers, Sequences

CONSTANTS
  MaxStarts,      \* bound: how often the service starts
  MaxBells,       \* bound: bytes waiting in the serial port
  ServiceFaults   \* which faults of the world a run allows

ServiceFaultKinds == {"crash", "status", "config", "worker", "early", "wake", "install"}

ASSUME ServiceAssumption ==
  /\ MaxStarts \in Nat \ {0} /\ MaxBells \in Nat \ {0}
  /\ ServiceFaults \subseteq ServiceFaultKinds

Fault(kind) == kind \in ServiceFaults
May(kind) == IF Fault(kind) THEN BOOLEAN ELSE {FALSE}

VARIABLES
  registration, acl, installer, \* the service database, the data directory, install
  scm,             \* what SCM was last told: state and exit code
  starts,          \* how often the service was started
  main,            \* where service_main is; "none" without a process
  cancelled, callback, native, \* StopSignal: flag, registered callback, event
  cancelling,      \* who is inside StopSignal::cancel, and where
  events,          \* the channel from worker and callback to the hosting thread
  deadline, status_error, outcome, \* locals of run_with_status
  worker, initialized, last_native_low, \* the worker thread
  low,             \* Windows signals low memory
  channel, read, event, port, \* the doorbell: its handle, read, event, bytes
  rung,            \* history: a bell that no poll has started after
  roused           \* history: this low-memory signal has woken the worker

setupVars == <<registration, acl, installer>>
stopVars == <<cancelled, callback, native, cancelling>>
hostVars == <<main, events, deadline, status_error, outcome>>
workerVars == <<worker, initialized, last_native_low>>
bellVars == <<channel, read, event, port, rung>>
lowVars == <<low, roused>>
vars == <<setupVars, scm, starts, stopVars, hostVars, workerVars, lowVars, bellVars>>

-----------------------------------------------------------------------------
\* ScmServiceStatus::from_state; SCM sends a stop only to a running service.
from_state(state) ==
  [state |-> IF state = "Failed" THEN "Stopped" ELSE state,
   exit |-> IF state = "Failed" THEN 1 ELSE 0]
Accepts(status) == status.state = "Running"

\* SetServiceStatus, which may fail.
publish_status(state, failed) ==
  scm' = IF failed THEN scm ELSE from_state(state)

Alive == main # "none"

\* A process has nothing of the previous one.
Fresh ==
  /\ cancelled' = FALSE /\ callback' = FALSE /\ native' = FALSE
  /\ cancelling' = [handler |-> "no", main |-> "no"]
  /\ events' = <<>> /\ deadline' = "none"
  /\ status_error' = FALSE /\ outcome' = "ok"
  /\ worker' = "none" /\ initialized' = FALSE
  /\ last_native_low' = FALSE
  /\ channel' = "closed" /\ read' = "idle" /\ event' = FALSE

Init ==
  /\ registration = "absent" /\ acl = "none" /\ installer = "idle"
  /\ scm = from_state("Stopped") /\ starts = 0
  /\ main = "none"
  /\ cancelled = FALSE /\ callback = FALSE /\ native = FALSE
  /\ cancelling = [handler |-> "no", main |-> "no"]
  /\ events = <<>> /\ deadline = "none" /\ status_error = FALSE /\ outcome = "ok"
  /\ worker = "none" /\ initialized = FALSE
  /\ last_native_low = FALSE
  /\ low = FALSE /\ roused = FALSE
  /\ channel = "closed" /\ read = "idle" /\ event = FALSE /\ port = 0
  /\ rung = FALSE

\* The process ends.  SCM takes it for a failure unless it was told Stopped.
Exit ==
  /\ main' = "none"
  /\ Fresh
  /\ scm' = IF scm.state = "Stopped" THEN scm ELSE from_state("Failed")
  /\ rung' = FALSE /\ roused' = FALSE
  /\ UNCHANGED <<setupVars, starts, low, port>>

-----------------------------------------------------------------------------
\* install, remove

\* The access lists come first; any of them may be refused.  (Bound: no second
\* installation once the service has run.)
provision_program_data_acl ==
  /\ installer = "idle" /\ registration = "absent" /\ starts = 0
  /\ \/ acl' = "set" /\ installer' = "create"
     \/ Fault("install") /\ acl' = "partial" /\ UNCHANGED installer
  /\ UNCHANGED <<registration, scm, starts, stopVars, hostVars, workerVars, lowVars, bellVars>>

create_service ==
  /\ installer = "create"
  /\ \/ registration' = "bare" /\ installer' = "configure"
     \/ Fault("install") /\ installer' = "idle" /\ UNCHANGED registration
  /\ UNCHANGED <<acl, scm, starts, stopVars, hostVars, workerVars, lowVars, bellVars>>

\* Description, recovery actions and the flag that makes a failed exit count;
\* when one is refused the service is deleted again, which may fail too.
configure_service ==
  /\ installer = "configure"
  /\ \/ registration' = "recovering" /\ installer' = "done"
     \/ Fault("install") /\ registration' \in {"absent", "bare"} /\ installer' = "idle"
  /\ UNCHANGED <<acl, scm, starts, stopVars, hostVars, workerVars, lowVars, bellVars>>

remove_service ==
  /\ registration # "absent" /\ installer \in {"idle", "done"}
  /\ registration' = "absent" /\ installer' = "idle"
  /\ UNCHANGED <<acl, scm, starts, stopVars, hostVars, workerVars, lowVars, bellVars>>

-----------------------------------------------------------------------------
\* SCM

StartProcess ==
  /\ ~Alive /\ scm.state = "Stopped" /\ starts < MaxStarts
  /\ starts' = starts + 1
  /\ scm' = from_state("StartPending")
  /\ main' = "register"
  /\ UNCHANGED <<setupVars, stopVars, events, deadline, status_error, outcome,
                 workerVars, lowVars, bellVars>>

\* start_service, or the start at boot.
start_service == registration # "absent" /\ StartProcess

\* The failure actions that configure_service has set.
Recover == registration = "recovering" /\ scm.exit = 1 /\ StartProcess

\* ControlService, or a shutdown: SCM sends a stop to a process that has registered its
\* handler and accepts it.  The code also takes one that comes before ("early").
stop_service == Alive /\ main # "register" /\ (Accepts(scm) \/ Fault("early"))

\* The control handler starts to cancel.
service_control_handler ==
  /\ stop_service
  /\ cancelling["handler"] = "no"
  /\ cancelling' = [cancelling EXCEPT !["handler"] = "flag"]
  /\ UNCHANGED <<setupVars, scm, starts, cancelled, callback, native, hostVars,
                 workerVars, lowVars, bellVars>>

\* StopSignal::cancel: the flag, then the callbacks, then the native event.
CancelFlag(who) ==
  /\ cancelling[who] = "flag"
  /\ cancelled' = TRUE
  /\ cancelling' = [cancelling EXCEPT ![who] = "drain"]
  /\ UNCHANGED <<setupVars, scm, starts, callback, native, hostVars, workerVars,
                 lowVars, bellVars>>

\* Callbacks run once: whoever drains them removes them.
drain == callback' = FALSE

CancelDrain(who) ==
  /\ cancelling[who] = "drain"
  /\ drain
  /\ events' = IF callback THEN Append(events, "Stop") ELSE events
  /\ cancelling' = [cancelling EXCEPT ![who] = "event"]
  /\ UNCHANGED <<setupVars, scm, starts, cancelled, native, main, deadline,
                 status_error, outcome, workerVars, lowVars, bellVars>>

CancelEvent(who) ==
  /\ cancelling[who] = "event"
  /\ native' = TRUE
  /\ cancelling' = [cancelling EXCEPT ![who] = "done"]
  /\ UNCHANGED <<setupVars, scm, starts, cancelled, callback, hostVars, workerVars,
                 lowVars, bellVars>>

Cancel == \E who \in {"handler", "main"} :
            CancelFlag(who) \/ CancelDrain(who) \/ CancelEvent(who)

\* Killed from outside.
Crash == Alive /\ Fault("crash") /\ Exit

-----------------------------------------------------------------------------
\* service_main

mainVars == <<setupVars, starts, stopVars, workerVars, lowVars, bellVars>>

\* Registering the handler and the first status; failing leaves SCM waiting.
MainRegister ==
  /\ main = "register"
  /\ \E failed \in May("status") :
       /\ publish_status("StartPending", failed)
       /\ main' = IF failed THEN "returned" ELSE "config"
  /\ UNCHANGED <<mainVars, events, deadline, status_error, outcome>>

\* Whether the configuration is missing, too large, not one of this schema, or invalid;
\* whether it names another service than SCM started; whether the worker cannot be built,
\* the request state it resumes from being unreadable.
load_from_path == May("config")
validate_configured_service_identity == May("config")
native_worker == May("config")

MainConfigure ==
  /\ main = "config"
  /\ \E unloaded \in load_from_path, foreign \in validate_configured_service_identity,
        unbuilt \in native_worker :
       IF unloaded \/ foreign \/ unbuilt
         THEN /\ \E failed \in May("status") : publish_status("Failed", failed)
              /\ main' = "returned"
         ELSE main' = "host" /\ UNCHANGED scm
  /\ UNCHANGED <<mainVars, events, deadline, status_error, outcome>>

\* run_with_status, when the stop came before the worker.
MainAlreadyStopped ==
  /\ main = "host" /\ cancelled
  /\ main' = "finish"
  /\ UNCHANGED <<mainVars, scm, events, deadline, status_error, outcome>>

MainHost ==
  /\ main = "host" /\ ~cancelled
  /\ main' = "spawn"
  /\ UNCHANGED <<mainVars, scm, events, deadline, status_error, outcome>>

\* Faulty variant: a stop that came before the registration is not looked at.
register_only == callback' = TRUE /\ events' = events

\* StopSignal::on_cancel: called back later, or now if already cancelled.
on_cancel ==
  IF cancelled THEN callback' = callback /\ events' = Append(events, "Stop")
               ELSE callback' = TRUE /\ events' = events

MainSpawn ==
  /\ main = "spawn"
  /\ on_cancel
  /\ worker' = "start"
  /\ main' = "receive"
  /\ UNCHANGED <<setupVars, scm, starts, cancelled, native, cancelling, deadline,
                 status_error, outcome, initialized, last_native_low, lowVars,
                 bellVars>>

Received(kind) == main = "receive" /\ events # <<>> /\ Head(events) = kind

MainStop ==
  /\ Received("Stop")
  /\ events' = Tail(events)
  /\ deadline' = "set"
  /\ \E failed \in May("status") :
       /\ publish_status("StopPending", failed)
       /\ status_error' = (status_error \/ failed)
  /\ UNCHANGED <<mainVars, main, outcome>>

StillWanted == ~cancelled

MainInitialized ==
  /\ Received("Initialized")
  /\ events' = Tail(events)
  /\ main' = IF StillWanted THEN "running" ELSE main
  /\ UNCHANGED <<mainVars, scm, deadline, status_error, outcome>>

\* A status that SCM refuses stops the service.
MainRunning ==
  /\ main = "running"
  /\ main' = "receive"
  /\ \E failed \in May("status") :
       /\ publish_status("Running", failed)
       /\ status_error' = (status_error \/ failed)
       /\ cancelling' = IF failed THEN [cancelling EXCEPT !["main"] = "flag"]
                                  ELSE cancelling
  /\ UNCHANGED <<setupVars, starts, cancelled, callback, native, workerVars, lowVars,
                 bellVars, events, deadline, outcome>>

\* Faulty variant: a status that could not be published is forgotten.
worker_result(sent) == IF sent = "Ok" THEN "ok" ELSE "err"
joined_result(sent) == IF sent = "Ok" /\ ~status_error THEN "ok" ELSE "err"

\* The result counts once the thread is joined.
MainFinished ==
  /\ Received("Ok") \/ Received("Err")
  /\ worker = "gone"
  /\ events' = Tail(events)
  /\ outcome' = joined_result(Head(events))
  /\ main' = "finish"
  /\ UNCHANGED <<mainVars, scm, deadline, status_error>>

DeadlinePasses ==
  /\ deadline = "set"
  /\ deadline' = "passed"
  /\ UNCHANGED <<setupVars, scm, starts, stopVars, main, events, status_error,
                 outcome, workerVars, lowVars, bellVars>>

\* The worker outlived the deadline: the whole process ends, unreported.
MainTimeout ==
  /\ main = "receive" /\ deadline = "passed" /\ events = <<>>
  /\ Exit

classify_service_exit(result, stop_requested) ==
  IF result = "ok" /\ stop_requested THEN "Stopped" ELSE "Failed"

MainFinish ==
  /\ main = "finish"
  /\ \E failed \in May("status") :
       publish_status(classify_service_exit(outcome, cancelled), failed)
  /\ main' = "returned"
  /\ UNCHANGED <<mainVars, events, deadline, status_error, outcome>>

\* The dispatcher returns once Stopped was reported; otherwise it waits.
MainReturn ==
  /\ main = "returned" /\ scm.state = "Stopped"
  /\ Exit

MainStep == MainRegister \/ MainConfigure \/ MainAlreadyStopped \/ MainHost
            \/ MainSpawn \/ MainStop \/ MainInitialized \/ MainRunning
            \/ MainFinished \/ MainTimeout \/ MainFinish \/ MainReturn

-----------------------------------------------------------------------------
\* The doorbell

\* Faulty variant: the event of a read that is still out is reset.
arm_resetting ==
  /\ event' = FALSE
  /\ IF read = "idle" /\ port > 0 THEN read' = "done" /\ port' = port - 1
                      ELSE read' = "pending" /\ port' = port

\* Channel::arm: a pending read stays; a completed one is reaped, its event
\* reset, and the next read issued, which a waiting byte completes at once.
arm ==
  IF read = "pending" THEN UNCHANGED <<read, event, port>>
  ELSE IF port > 0 THEN read' = "done" /\ event' = TRUE /\ port' = port - 1
                   ELSE read' = "pending" /\ event' = FALSE /\ port' = port

\* Channel::drop cancels the read; what it had received is lost with it.
CloseChannel == channel' = "closed" /\ read' = "idle" /\ event' = FALSE

\* Channel::open, exclusively; a channel that is open stays so.
open == channel' = "open"

\* WakeChannel::refresh at the start of a poll: open, arm; errors close it.
refresh ==
  \/ open /\ arm
  \/ Fault("wake") /\ CloseChannel /\ port' = port

\* WakeChannel::notify: a byte to the host, waited for and cancelled after a while;
\* if it is not written the channel is closed.
notify ==
  \/ UNCHANGED <<channel, read, event>>
  \/ Fault("wake") /\ CloseChannel

Ring ==
  /\ \/ channel = "open" /\ read = "pending"
        /\ read' = "done" /\ event' = TRUE /\ port' = port
     \/ ~(channel = "open" /\ read = "pending") /\ port < MaxBells
        /\ port' = port + 1 /\ UNCHANGED <<read, event>>
  /\ rung' = Alive
  /\ UNCHANGED <<setupVars, scm, starts, stopVars, hostVars, workerVars, lowVars, channel>>

-----------------------------------------------------------------------------
\* The worker

threadVars == <<setupVars, scm, starts, stopVars, main, deadline, status_error, outcome>>

Quiet == UNCHANGED <<events, initialized, last_native_low, bellVars>>

WorkerStart ==
  /\ worker = "start"
  /\ worker' = IF cancelled THEN "ok" ELSE "arm"
  /\ Quiet /\ UNCHANGED <<threadVars, lowVars>>

\* The first half of a poll; what it reads afterwards is newer than any bell
\* before it.
PollArm ==
  /\ worker = "arm"
  /\ refresh
  /\ rung' = FALSE
  /\ worker' = "sample"
  /\ UNCHANGED <<threadVars, events, initialized, last_native_low, lowVars>>

\* What Windows signals, if both objects exist and do not contradict each other;
\* otherwise, and without a sample, Low is presumed.
collect(unreadable) == unreadable \/ low

\* The rest: a sample (or none), the request, the publication, the host's bell.
PollSample ==
  /\ worker = "sample"
  /\ \E unreadable \in BOOLEAN, failed \in May("worker") :
       /\ worker' = IF failed THEN "err" ELSE IF initialized THEN "check" ELSE "ready"
       /\ last_native_low' = collect(unreadable)
  /\ notify
  /\ UNCHANGED <<threadVars, events, initialized, lowVars, port, rung>>

\* Initialised: a last look at the stop flag, then the announcement.
WorkerReady ==
  /\ worker = "ready"
  /\ worker' = IF cancelled THEN "ok" ELSE "announce"
  /\ Quiet /\ UNCHANGED <<threadVars, lowVars>>

WorkerAnnounce ==
  /\ worker = "announce"
  /\ initialized' = TRUE
  /\ worker' = "check"
  /\ events' = Append(events, "Initialized")
  /\ UNCHANGED <<threadVars, last_native_low, lowVars, bellVars>>

\* The loop: no wait right after a result (resolved_last_poll).
WorkerCheck ==
  /\ worker = "check"
  /\ worker' \in IF cancelled THEN {"ok"} ELSE {"wait", "pause"}
  /\ Quiet /\ UNCHANGED <<threadVars, lowVars>>

\* Low memory is watched only while the last poll read that there is none: the
\* object is level-triggered, and without handles nothing could be read.
watch_low == ~last_native_low

\* WaitForMultipleObjects on the stop event, the low-memory object, the doorbell.
WorkerWoken ==
  /\ worker = "wait"
  /\ \/ (native \/ (channel = "open" /\ event)) /\ UNCHANGED roused
     \/ watch_low /\ low /\ roused' = TRUE
  /\ worker' = "pause"
  /\ Quiet /\ UNCHANGED <<threadVars, low>>

WorkerTimer ==
  /\ worker = "wait"
  /\ worker' = "pause"
  /\ roused' = FALSE
  /\ Quiet /\ UNCHANGED <<threadVars, low>>

WorkerPause ==
  /\ worker = "pause"
  /\ worker' = IF cancelled THEN "check" ELSE "arm"
  /\ Quiet /\ UNCHANGED <<threadVars, lowVars>>

\* A panic is caught; the worker's resources go before its result is sent.
WorkerPanic ==
  /\ Fault("worker") /\ worker \in {"arm", "sample", "check", "wait"}
  /\ worker' = "err"
  /\ Quiet /\ UNCHANGED <<threadVars, lowVars>>

WorkerEnd ==
  /\ worker \in {"ok", "err"}
  /\ events' = Append(events, IF worker = "ok" THEN "Ok" ELSE "Err")
  /\ worker' = "gone"
  /\ CloseChannel
  /\ UNCHANGED <<threadVars, initialized, last_native_low, lowVars, port, rung>>

WorkerStep == WorkerStart \/ PollArm \/ PollSample \/ WorkerReady \/ WorkerAnnounce
              \/ WorkerCheck \/ WorkerWoken \/ WorkerTimer \/ WorkerPause \/ WorkerPanic
              \/ WorkerEnd

LowMemory ==
  /\ low' = ~low /\ roused' = FALSE
  /\ UNCHANGED <<setupVars, scm, starts, stopVars, hostVars, workerVars, bellVars>>

-----------------------------------------------------------------------------
Install == provision_program_data_acl \/ create_service \/ configure_service
           \/ remove_service
Next == Install \/ start_service \/ Recover \/ service_control_handler \/ Cancel
        \/ Crash \/ MainStep \/ DeadlinePasses \/ WorkerStep \/ Ring \/ LowMemory

Spec == Init /\ [][Next]_vars

\* Threads that are not the worker run, time passes, SCM carries out the recovery
\* it was asked for.  Nothing is assumed of the worker: it may hang anywhere.
Fairness ==
  /\ WF_vars(MainStep) /\ WF_vars(Cancel) /\ WF_vars(DeadlinePasses)
  /\ WF_vars(Recover)
FairSpec == Spec /\ Fairness

-----------------------------------------------------------------------------
\* Properties

\* What SCM is told is so.  There is no "final Stopped report from a live worker"
\* (service_host.rs): what it takes for stopped can publish nothing any more.  The worker,
\* or a hosting thread that had to stop itself, "never impersonates an operator stop": a
\* clean exit was asked for, everything else reaches the recovery.  And the service never
\* comes back from a stop, whatever order the worker's and the handler's messages have.
ScmTruthful ==
  /\ [](scm.state = "Stopped" => worker \in {"none", "gone"})
  /\ [](Alive /\ scm.state = "Stopped" /\ scm.exit = 0 => cancelling["handler"] # "no")
  /\ [][/\ scm.state = "StopPending" => scm'.state \in {"StopPending", "Stopped"}
        /\ scm.state = "Running" => scm'.state # "StartPending"]_vars

\* A worker that waits hears what is new, and only that.  A bell that no poll has started
\* after has signalled its event, if the channel is open at all; and "a signalled Low
\* handle must not spin": one low-memory signal ends one wait, and until the timer or the
\* end of the signal the next wait ignores it.
WaitsForNews ==
  /\ worker = "wait" /\ channel = "open" /\ rung => event
  /\ worker = "wait" /\ roused /\ low => ~watch_low

\* A stop is never lost and never waits for the worker: whether it arrives before,
\* during or after start-up, and even if the worker hangs, the worker ends or the
\* process does.  A worker that failed is followed by a new process, through the report
\* of the failure and SCM's recovery.
StopsAndRecovers ==
  /\ cancelled ~> (~cancelled \/ worker \in {"none", "gone"})
  /\ worker = "gone" /\ outcome = "err" /\ registration = "recovering" ~>
       \/ worker = "none" /\ Alive
       \/ starts = MaxStarts
       \/ registration # "recovering"
       \/ main = "returned" /\ scm.state # "Stopped"
=============================================================================
