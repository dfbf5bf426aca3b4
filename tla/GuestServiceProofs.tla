------------------------- MODULE GuestServiceProofs -------------------------
(***************************************************************************)
(* Theorems about the Windows service, for any number of starts and bells  *)
(* and every set of faults, and about its target estimator, for every      *)
(* device, policy, history and memory load.                                *)
(***************************************************************************)
EXTENDS GuestWorker, WellFoundedInduction, TLAPS

USE ServiceAssumption

-----------------------------------------------------------------------------
\* What the service control manager is told

Messages == {"Initialized", "Ok", "Err"} \cup (IF cancelled THEN {"Stop"} ELSE {})
Stages == {"no", "flag", "drain", "event", "done"}
Starting == {"register", "config", "host", "spawn"}

\* A worker exists from the moment it is spawned until it is joined.
Threads ==
  /\ scm.state = "Stopped" => main \in {"none", "returned"}
  /\ main \in Starting \cup {"none"} => worker = "none" /\ ~status_error
  /\ main \in {"finish", "returned"} => worker \in {"none", "gone"}
  /\ main = "register" => scm.state = "StartPending"

\* Who cancelled: the handler, or the hosting thread because it could not report.
Cancellation ==
  /\ cancelling \in [{"handler", "main"} -> Stages]
  /\ \A who \in {"handler", "main"} : cancelling[who] \in {"drain", "event", "done"} => cancelled
  /\ cancelled => cancelling["handler"] # "no" \/ cancelling["main"] # "no"
  /\ cancelling["main"] # "no" => status_error
  /\ main = "finish" /\ outcome = "ok" => ~status_error

\* A stop is announced to the hosting thread, and to SCM, only when there is one.
Announced ==
  /\ events \in Seq(Messages)
  /\ scm.state = "StopPending" => cancelled /\ main # "running"

\* A clean exit that SCM can see was asked for.
CleanExit == Alive /\ scm.state = "Stopped" /\ scm.exit = 0 => cancelling["handler"] # "no"

ScmInv == Threads /\ Cancellation /\ Announced /\ CleanExit

\* Faults are possible or not.
LEMMA MayBe == ASSUME NEW kind, NEW failed \in May(kind) PROVE failed \in BOOLEAN
BY DEF May

\* What remains of a service whose process has ended.
LEMMA ExitKeeps ==
  ASSUME ScmInv, Exit
  PROVE  ScmInv'
<1>1. \/ scm' = scm /\ scm.state = "Stopped"
      \/ scm' = [state |-> "Stopped", exit |-> 1]
  BY DEF Exit, from_state
<1>2. /\ main' = "none" /\ cancelled' = FALSE /\ events' = <<>> /\ worker' = "none"
      /\ status_error' = FALSE /\ cancelling' = [handler |-> "no", main |-> "no"]
  BY DEF Exit, Fresh
<1>3. Threads' /\ CleanExit'
  BY <1>1, <1>2 DEF Threads, CleanExit, Alive, Starting
<1>4. Cancellation'
  BY <1>2 DEF Cancellation, Stages
<1>5. Announced'
  BY <1>1, <1>2 DEF Announced
<1> QED
  BY <1>3, <1>4, <1>5 DEF ScmInv

\* Steps of the worker, and of the world around the service.
LEMMA WorldKeeps ==
  ASSUME ScmInv, Install \/ DeadlinePasses \/ WorkerStep \/ Ring \/ LowMemory \/ UNCHANGED vars
  PROVE  ScmInv'
<1>1. UNCHANGED <<scm, main, cancelled, cancelling, status_error, outcome>>
  BY DEF Install, provision_program_data_acl, create_service, configure_service, remove_service,
     DeadlinePasses, WorkerStep, WorkerStart, PollArm, PollSample, WorkerReady, WorkerAnnounce,
     WorkerCheck, WorkerWoken, WorkerTimer, WorkerPause, WorkerPanic, WorkerEnd, Ring, LowMemory,
     vars, stopVars, hostVars, threadVars
<1>2. worker' = worker \/ worker \notin {"none", "gone"}
  BY DEF Install, provision_program_data_acl, create_service, configure_service, remove_service,
     DeadlinePasses, WorkerStep, WorkerStart, PollArm, PollSample, WorkerReady, WorkerAnnounce,
     WorkerCheck, WorkerWoken, WorkerTimer, WorkerPause, WorkerPanic, WorkerEnd, Ring, LowMemory,
     vars, workerVars
<1>3. events' = events \/ \E m \in {"Initialized", "Ok", "Err"} : events' = Append(events, m)
  BY DEF Install, provision_program_data_acl, create_service, configure_service, remove_service,
     DeadlinePasses, WorkerStep, WorkerStart, PollArm, PollSample, WorkerReady, WorkerAnnounce,
     WorkerCheck, WorkerWoken, WorkerTimer, WorkerPause, WorkerPanic, WorkerEnd, Ring, LowMemory,
     vars, hostVars, Quiet
<1>4. Threads'
  BY <1>1, <1>2 DEF ScmInv, Threads, Starting
<1>5. Cancellation' /\ CleanExit'
  BY <1>1 DEF ScmInv, Cancellation, CleanExit, Alive
<1>6. Announced'
  BY <1>1, <1>3 DEF ScmInv, Announced, Messages
<1> QED
  BY <1>4, <1>5, <1>6 DEF ScmInv

\* SCM starts a process.
LEMMA StartKeeps ==
  ASSUME ScmInv, StartProcess
  PROVE  ScmInv'
<1>1. /\ main = "none" /\ main' = "register" /\ scm' = [state |-> "StartPending", exit |-> 0]
      /\ UNCHANGED <<stopVars, events, status_error, outcome, workerVars>>
  BY DEF StartProcess, from_state, Alive
<1> QED
  BY <1>1 DEF ScmInv, Threads, Cancellation, Announced, CleanExit, Starting, Messages, stopVars,
     workerVars

\* A stop arrives and is carried to the worker and the hosting thread.
LEMMA CancelKeeps ==
  ASSUME ScmInv, service_control_handler \/ Cancel
  PROVE  ScmInv'
<1>1. UNCHANGED <<scm, main, status_error, outcome, worker>>
  BY DEF service_control_handler, Cancel, CancelFlag, CancelDrain, CancelEvent, hostVars, workerVars
<1>2. PICK who \in {"handler", "main"}, stage \in Stages \ {"no"} :
        /\ cancelling' = [cancelling EXCEPT ![who] = stage]
        /\ cancelling[who] = "no" => who = "handler"
        /\ stage \in {"drain", "event", "done"} => cancelled'
        /\ cancelled => cancelled'
        /\ cancelled' => cancelled \/ cancelling[who] # "no"
        /\ events' = events \/ (events' = Append(events, "Stop") /\ cancelled)
  BY DEF service_control_handler, Cancel, CancelFlag, CancelDrain, CancelEvent, hostVars, Stages,
     ScmInv, Cancellation
<1>3. Threads' /\ CleanExit'
  BY <1>1, <1>2 DEF ScmInv, Threads, CleanExit, Cancellation, Alive, Starting, Stages
<1>4. Cancellation'
  BY <1>1, <1>2 DEF ScmInv, Cancellation, Stages
<1>5. Announced'
  BY <1>1, <1>2 DEF ScmInv, Announced, Messages
<1> QED
  BY <1>3, <1>4, <1>5 DEF ScmInv

\* The hosting thread, up to the worker's start.
LEMMA StartingKeeps ==
  ASSUME ScmInv, MainRegister \/ MainConfigure \/ MainAlreadyStopped \/ MainHost \/ MainSpawn
  PROVE  ScmInv'
<1>1. UNCHANGED <<cancelled, cancelling, status_error, outcome>> /\ main \in Starting
  BY DEF MainRegister, MainConfigure, MainAlreadyStopped, MainHost, MainSpawn, mainVars, stopVars,
     Starting
<1>2. events' = events \/ (events' = Append(events, "Stop") /\ cancelled)
  BY DEF MainRegister, MainConfigure, MainAlreadyStopped, MainHost, MainSpawn, on_cancel
<1>3. scm' = scm \/ (scm'.state = "StartPending" /\ main = "register")
      \/ (scm' = [state |-> "Stopped", exit |-> 1] /\ main' = "returned")
  BY DEF MainRegister, MainConfigure, MainAlreadyStopped, MainHost, MainSpawn, publish_status,
     from_state
<1>4. \/ main' \in {"config", "host", "spawn", "returned", "finish"} /\ worker' = worker
      \/ main' = "receive"
  <2>1. CASE MainRegister
    BY <2>1 DEF MainRegister, mainVars, workerVars
  <2>2. CASE MainConfigure
    <3>1. main' \in {"host", "returned"}
      BY <2>2 DEF MainConfigure
    <3> QED
      BY <2>2, <3>1 DEF MainConfigure, mainVars, workerVars
  <2> QED
    BY <2>1, <2>2 DEF MainAlreadyStopped, MainHost, MainSpawn, mainVars, workerVars
<1>5. Threads'
  BY <1>1, <1>3, <1>4 DEF ScmInv, Threads, Starting
<1>6. Cancellation'
  BY <1>1 DEF ScmInv, Cancellation, Threads
<1>7. Announced'
  BY <1>1, <1>2, <1>3, <1>4 DEF ScmInv, Announced, Messages, Starting
<1>8. CleanExit'
  BY <1>1, <1>3 DEF ScmInv, CleanExit, Threads, Alive, Starting
<1> QED
  BY <1>5, <1>6, <1>7, <1>8 DEF ScmInv

\* The hosting thread, once it receives.
LEMMA ReceivingKeeps ==
  ASSUME ScmInv, MainStop \/ MainInitialized \/ MainRunning \/ MainFinished \/ MainFinish
  PROVE  ScmInv'
<1>1. CASE MainStop
  <2>1. PICK failed \in May("status") :
          /\ scm' = IF failed THEN scm ELSE from_state("StopPending")
          /\ status_error' = (status_error \/ failed)
    BY <1>1 DEF MainStop, publish_status
  <2>2. /\ main = "receive" /\ main' = "receive" /\ events # <<>> /\ Head(events) = "Stop"
        /\ events' = Tail(events)
        /\ UNCHANGED <<cancelled, cancelling, outcome, worker>>
    BY <1>1 DEF MainStop, Received, mainVars, stopVars, workerVars
  <2>3. cancelled /\ events' \in Seq(Messages)
    BY <2>2 DEF ScmInv, Announced, Messages
  <2>4. scm' = scm \/ scm'.state = "StopPending"
    BY <2>1 DEF from_state
  <2> QED
    BY <2>1, <2>2, <2>3, <2>4 DEF ScmInv, Threads, Cancellation, Announced, CleanExit, Messages,
       Starting
<1>2. CASE MainInitialized
  <2>1. /\ main = "receive" /\ events # <<>> /\ events' = Tail(events)
        /\ main' = IF cancelled THEN main ELSE "running"
        /\ UNCHANGED <<scm, cancelled, cancelling, outcome, status_error, worker>>
    BY <1>2 DEF MainInitialized, Received, StillWanted, mainVars, stopVars, workerVars
  <2>2. events' \in Seq(Messages)
    BY <2>1 DEF ScmInv, Announced
  <2> QED
    BY <2>1, <2>2 DEF ScmInv, Threads, Cancellation, Announced, CleanExit, Messages, Starting, Alive
<1>3. CASE MainRunning
  <2>1. PICK failed \in May("status") :
          /\ scm' = IF failed THEN scm ELSE from_state("Running")
          /\ status_error' = (status_error \/ failed)
          /\ cancelling' = IF failed THEN [cancelling EXCEPT !["main"] = "flag"] ELSE cancelling
    BY <1>3 DEF MainRunning, publish_status
  <2>2. /\ main = "running" /\ main' = "receive"
        /\ UNCHANGED <<cancelled, outcome, worker, events>>
    BY <1>3 DEF MainRunning, workerVars
  <2>3. scm' = scm \/ scm'.state = "Running"
    BY <2>1 DEF from_state
  <2>4. Threads' /\ Announced' /\ CleanExit'
    BY <2>1, <2>2, <2>3 DEF ScmInv, Threads, Announced, CleanExit, Messages, Starting, Alive
  <2>5. Cancellation'
    BY <2>1, <2>2 DEF ScmInv, Cancellation, Stages
  <2> QED
    BY <2>4, <2>5 DEF ScmInv
<1>4. CASE MainFinished
  <2>1. /\ main = "receive" /\ main' = "finish" /\ worker = "gone"
        /\ events # <<>> /\ events' = Tail(events)
        /\ status_error => outcome' = "err"
        /\ UNCHANGED <<scm, cancelled, cancelling, status_error, worker>>
    BY <1>4 DEF MainFinished, Received, joined_result, mainVars, stopVars, workerVars
  <2>2. events' \in Seq(Messages)
    BY <2>1 DEF ScmInv, Announced
  <2> QED
    BY <2>1, <2>2 DEF ScmInv, Threads, Cancellation, Announced, CleanExit, Messages, Starting, Alive
<1>5. CASE MainFinish
  <2>1. /\ main = "finish" /\ main' = "returned"
        /\ scm' = scm \/ scm' = from_state(classify_service_exit(outcome, cancelled))
        /\ UNCHANGED <<cancelled, cancelling, status_error, outcome, worker, events>>
    BY <1>5 DEF MainFinish, publish_status, mainVars, stopVars, workerVars
  <2>2. scm' = scm \/ /\ scm'.state = "Stopped"
                      /\ scm'.exit = 0 => outcome = "ok" /\ cancelled
    BY <2>1 DEF from_state, classify_service_exit
  <2> QED
    BY <2>1, <2>2 DEF ScmInv, Threads, Cancellation, Announced, CleanExit, Messages, Starting, Alive
<1> QED
  BY <1>1, <1>2, <1>3, <1>4, <1>5

\* The service starts within the invariant.
LEMMA ScmInit == Init => ScmInv
<1> SUFFICES ASSUME Init PROVE ScmInv
  OBVIOUS
<1>1. Threads /\ CleanExit
  BY DEF Init, Threads, CleanExit, Alive, from_state
<1>2. Cancellation
  BY DEF Init, Cancellation, Stages
<1>3. Announced
  BY DEF Init, Announced, from_state
<1> QED
  BY <1>1, <1>2, <1>3 DEF ScmInv

\* Every step of SCM, the process and its threads keeps it.
LEMMA ScmStep == ScmInv /\ [Next]_vars => ScmInv'
BY ExitKeeps, WorldKeeps, StartKeeps, CancelKeeps, StartingKeeps, ReceivingKeeps
   DEF Next, start_service, Recover, Crash, MainStep, MainTimeout, MainReturn

\* What SCM is told is so (service_host.rs, service_scm.rs): it takes no live worker for
\* stopped, a clean exit was asked for, and the service never comes back from a stop.
THEOREM ScmAlwaysTruthful == Spec => ScmTruthful
<1>1. ScmInv => (scm.state = "Stopped" => worker \in {"none", "gone"})
  BY DEF ScmInv, Threads
<1>2. ScmInv => (Alive /\ scm.state = "Stopped" /\ scm.exit = 0 => cancelling["handler"] # "no")
  BY DEF ScmInv, CleanExit
<1>3. ScmInv /\ [Next]_vars =>
        [/\ scm.state = "StopPending" => scm'.state \in {"StopPending", "Stopped"}
         /\ scm.state = "Running" => scm'.state # "StartPending"]_vars
  <2> SUFFICES ASSUME ScmInv, Next
               PROVE  /\ scm.state = "StopPending" => scm'.state \in {"StopPending", "Stopped"}
                      /\ scm.state = "Running" => scm'.state # "StartPending"
    OBVIOUS
  <2>1. CASE scm' = scm
    BY <2>1
  <2>2. CASE StartProcess
    BY <2>2 DEF StartProcess
  <2>3. CASE Exit
    BY <2>3 DEF Exit, from_state
  <2>4. CASE MainRegister
    BY <2>4 DEF MainRegister, ScmInv, Threads
  <2>5. CASE MainConfigure
    BY <2>5 DEF MainConfigure, publish_status, from_state
  <2>6. CASE MainStop
    BY <2>6 DEF MainStop, publish_status, from_state
  <2>7. CASE MainRunning
    BY <2>7 DEF MainRunning, publish_status, from_state, ScmInv, Announced
  <2>8. CASE MainFinish
    BY <2>8 DEF MainFinish, publish_status, from_state, classify_service_exit
  <2> QED
    BY <2>1, <2>2, <2>3, <2>4, <2>5, <2>6, <2>7, <2>8
       DEF Next, Install, provision_program_data_acl, create_service, configure_service,
       remove_service, start_service, Recover, service_control_handler, Cancel, CancelFlag,
       CancelDrain, CancelEvent, Crash, MainStep, MainAlreadyStopped, MainHost, MainSpawn,
       MainInitialized, MainFinished, MainTimeout, MainReturn, DeadlinePasses, WorkerStep,
       WorkerStart, PollArm, PollSample, WorkerReady, WorkerAnnounce, WorkerCheck, WorkerWoken,
       WorkerTimer, WorkerPause, WorkerPanic, WorkerEnd, Ring, LowMemory, threadVars, mainVars
<1> QED
  BY ScmInit, ScmStep, <1>1, <1>2, <1>3, PTL DEF Spec, ScmTruthful

-----------------------------------------------------------------------------
\* What the worker waits for

\* A bell signals the event of an open channel: its read is out, or has completed.
Bell == channel = "open" => (rung => event) /\ (read # "pending" => event)

\* Once low memory has ended a wait, the worker samples before it waits again.
Roused ==
  roused /\ low /\ worker \in {"ready", "announce", "check", "wait"} =>
    last_native_low \/ (worker = "check" /\ cancelled)

\* A bell that rang stays heard until a poll starts after it.
LEMMA BellStep == Bell /\ [Next]_vars => Bell'
<1> SUFFICES ASSUME Bell, [Next]_vars PROVE Bell'
  OBVIOUS
<1> USE DEF Bell
<1>1. CASE UNCHANGED bellVars
  BY <1>1 DEF bellVars
<1>2. CASE Exit
  BY <1>2 DEF Exit, Fresh
<1>3. CASE Ring
  BY <1>3 DEF Ring
<1>4. CASE PollArm
  <2>1. CASE open /\ arm
    BY <1>4, <2>1 DEF PollArm, arm
  <2>2. CASE CloseChannel
    BY <2>2 DEF CloseChannel
  <2> QED
    BY <1>4, <2>1, <2>2 DEF PollArm, refresh
<1>5. CASE PollSample
  BY <1>5 DEF PollSample, notify, CloseChannel
<1>6. CASE WorkerEnd
  BY <1>6 DEF WorkerEnd, CloseChannel
<1> QED
  BY <1>1, <1>2, <1>3, <1>4, <1>5, <1>6
     DEF Next, Install, provision_program_data_acl, create_service, configure_service,
     remove_service, start_service, StartProcess, Recover, service_control_handler, Cancel,
     CancelFlag, CancelDrain, CancelEvent, Crash, MainStep, MainRegister, MainConfigure,
     MainAlreadyStopped, MainHost, MainSpawn, MainStop, MainInitialized, MainRunning, MainFinished,
     MainFinish, MainTimeout, MainReturn, DeadlinePasses, WorkerStep, WorkerStart, WorkerReady,
     WorkerAnnounce, WorkerCheck, WorkerWoken, WorkerTimer, WorkerPause, WorkerPanic, LowMemory,
     Quiet, mainVars, vars

\* A wait that low memory has ended is not ended by it again.
LEMMA RousedStep == Roused /\ [Next]_vars => Roused'
<1> SUFFICES ASSUME Roused, [Next]_vars PROVE Roused'
  OBVIOUS
<1> USE DEF Roused
<1>1. CASE UNCHANGED <<lowVars, workerVars>> /\ (cancelled => cancelled')
  BY <1>1 DEF lowVars, workerVars
<1>2. CASE Exit
  BY <1>2 DEF Exit
<1>3. CASE LowMemory
  BY <1>3 DEF LowMemory
<1>4. CASE MainSpawn
  BY <1>4 DEF MainSpawn, lowVars
<1>5. CASE WorkerStart \/ PollArm \/ WorkerReady \/ WorkerAnnounce \/ WorkerCheck
  BY <1>5 DEF WorkerStart, PollArm, WorkerReady, WorkerAnnounce, WorkerCheck, Quiet, lowVars,
     threadVars, stopVars
<1>6. CASE PollSample
  BY <1>6 DEF PollSample, collect, lowVars, threadVars, stopVars
<1>7. CASE WorkerWoken \/ WorkerTimer \/ WorkerPause \/ WorkerPanic \/ WorkerEnd
  <2>1. \/ worker' \in {"pause", "arm", "err", "gone"}
        \/ worker' = "check" /\ cancelled /\ cancelled' = cancelled
    BY <1>7 DEF WorkerWoken, WorkerTimer, WorkerPause, WorkerPanic, WorkerEnd, threadVars, stopVars
  <2> QED
    BY <2>1
<1> QED
  BY <1>1, <1>2, <1>3, <1>4, <1>5, <1>6, <1>7
     DEF Next, Install, provision_program_data_acl, create_service, configure_service,
     remove_service, start_service, StartProcess, Recover, service_control_handler, Cancel,
     CancelFlag, CancelDrain, CancelEvent, Crash, MainStep, MainRegister, MainConfigure,
     MainAlreadyStopped, MainHost, MainStop, MainInitialized, MainRunning, MainFinished,
     MainFinish, MainTimeout, MainReturn, DeadlinePasses, WorkerStep, Ring, mainVars, stopVars, vars

\* A worker that waits hears every bell that no poll has started after, and is not ended
\* again by the low memory that has ended a wait before (runtime.rs, wake.rs, demand.rs).
THEOREM AlwaysWaitsForNews == Spec => []WaitsForNews
<1>1. Init => Bell /\ Roused
  BY DEF Init, Bell, Roused
<1>2. Bell /\ Roused => WaitsForNews
  BY DEF Bell, Roused, WaitsForNews, watch_low
<1> QED
  BY BellStep, RousedStep, <1>1, <1>2, PTL DEF Spec

-----------------------------------------------------------------------------
\* Greatest elements.  The maximum of a set exists if the set is bounded, by the
\* well-foundedness of the natural numbers.

NatLess == {pair \in Nat \X Nat : pair[1] < pair[2]}

\* Every non-empty set of natural numbers has a minimal element, ...
LEMMA NatLessWellFounded == IsWellFoundedOn(NatLess, Nat)
BY NatLessThanWellFounded DEF OpToRel, NatLess

\* ... which is its least.
LEMMA LeastOf ==
  ASSUME NEW T, T \subseteq Nat, T # {}
  PROVE  \E x \in T : \A y \in T : x <= y
<1>1. PICK x \in T : \A y \in T : ~(<<y, x>> \in NatLess)
  BY NatLessWellFounded, WFMin
<1>2. ASSUME NEW y \in T, y < x PROVE FALSE
  <2>1. <<y, x>> \in Nat \X Nat /\ <<y, x>>[1] < <<y, x>>[2]
    BY <1>2
  <2>2. <<y, x>> \in NatLess
    BY <2>1 DEF NatLess
  <2> QED
    BY <1>1, <2>2
<1> QED
  BY <1>2

\* Max of a bounded set is its greatest element.
LEMMA MaxOf ==
  ASSUME NEW m \in Nat, NEW T, T \subseteq 0 .. m, T # {}
  PROVE  Max(T) \in T /\ \A y \in T : Max(T) >= y
<1> DEFINE U == {m - y : y \in T}
<1>1. U \subseteq Nat
  OBVIOUS
<1>2. U # {}
  <2>1. PICK y \in T : TRUE
    OBVIOUS
  <2>2. m - y \in U
    OBVIOUS
  <2> QED
    BY <2>2
<1>3. PICK x \in U : \A y \in U : x <= y
  <2> HIDE DEF U
  <2> QED
    BY <1>1, <1>2, LeastOf
<1>4. PICK a \in T : x = m - a
  OBVIOUS
<1>5. \A y \in T : m - a <= m - y
  BY <1>3, <1>4
<1>6. \A y \in T : a >= y
  BY <1>5
<1> QED
  BY <1>6 DEF Max

-----------------------------------------------------------------------------
\* The target estimator

USE EstimatorAssumption, InputsAssumption

Aligned(v) == v \in Nat /\ v % Block = 0

\* What a rounded size is.
LEMMA BlockMultiple == \A k \in Nat : Aligned(k * Block)
BY DEF Aligned

\* Rounding up gives a multiple of the block, no smaller.
LEMMA AlignedUp == \A v \in Nat : Aligned(align_up(v)) /\ align_up(v) >= v
<1> SUFFICES ASSUME NEW v \in Nat PROVE Aligned(align_up(v)) /\ align_up(v) >= v
  OBVIOUS
<1> DEFINE w == v + Block - 1
           k == w \div Block
<1>1. Block \in Nat \ {0} /\ w \in Nat
  OBVIOUS
<1> HIDE DEF w
<1>2. k \in Nat /\ w < k * Block + Block
  BY <1>1
<1> HIDE DEF k
<1>3. k * Block \in Nat
  BY <1>1, <1>2
<1>4. align_up(v) = k * Block
  BY DEF align_up, k, w
<1>5. k * Block >= v
  BY <1>1, <1>2, <1>3 DEF w
<1> QED
  BY <1>2, <1>4, <1>5, BlockMultiple

\* Rounding down gives a multiple of the block, no larger.
LEMMA AlignedDown == \A v \in Nat : Aligned(align_down(v)) /\ align_down(v) <= v
<1> SUFFICES ASSUME NEW v \in Nat PROVE Aligned(align_down(v)) /\ align_down(v) <= v
  OBVIOUS
<1>1. v \div Block \in Nat /\ (v \div Block) * Block <= v
  OBVIOUS
<1> QED
  BY <1>1, BlockMultiple DEF align_down

\* The smaller and the larger of two sizes are sizes.
LEMMA AlignedChoice ==
  \A a, b : Aligned(a) /\ Aligned(b) => Aligned(Least(a, b)) /\ Aligned(Greatest(a, b))
BY DEF Least, Greatest

\* A difference that saturates is a size.
LEMMA Saturated == \A a, b \in Nat : saturating_sub(a, b) \in Nat
BY DEF saturating_sub

\* The device ends at a block.
LEMMA MaximumAligned == Aligned(effective_maximum)
BY AlignedDown DEF effective_maximum

\* What the administrator's limits leave to the device.
LEMMA RamLimits ==
  ASSUME limits \in Limits, NEW base \in Nat
  PROVE  /\ Aligned(ram_minimum(base)) /\ Aligned(ram_maximum(base))
         /\ ram_maximum(base) <= effective_maximum
         /\ ram_minimum(base) + base >= limits.min
         /\ limits.max >= base => ram_maximum(base) + base <= limits.max
<1>1. limits.min \in Nat /\ limits.max \in Nat
  OBVIOUS
<1>2. /\ saturating_sub(limits.min, base) \in Nat /\ saturating_sub(limits.max, base) \in Nat
      /\ saturating_sub(limits.min, base) + base >= limits.min
      /\ limits.max >= base => saturating_sub(limits.max, base) + base = limits.max
  BY <1>1 DEF saturating_sub
<1>3. Aligned(ram_minimum(base)) /\ ram_minimum(base) >= saturating_sub(limits.min, base)
  BY <1>2, AlignedUp DEF ram_minimum
<1>4. /\ Aligned(align_down(saturating_sub(limits.max, base)))
      /\ align_down(saturating_sub(limits.max, base)) <= saturating_sub(limits.max, base)
  BY <1>2, AlignedDown
<1>5. Aligned(ram_maximum(base))
  BY <1>4, MaximumAligned, AlignedChoice DEF ram_maximum
<1>6. /\ ram_maximum(base) <= effective_maximum
      /\ ram_maximum(base) <= align_down(saturating_sub(limits.max, base))
  BY <1>4, MaximumAligned DEF ram_maximum, Least, Aligned
<1> QED
  BY <1>1, <1>2, <1>3, <1>4, <1>5, <1>6 DEF Aligned

\* The need of the moment is a size of the device.
LEMMA NeedAligned ==
  ASSUME NEW m \in Loads, NEW current \in Nat, NEW base \in Nat
  PROVE  LET raw == calculate_instantaneous(m, current, base)
         IN Aligned(raw.desired) /\ Aligned(raw.floor)
<1>1. \A p, c \in Nat : candidate(m, current, base, p, c) \in Nat
  <2> SUFFICES ASSUME NEW p \in Nat, NEW c \in Nat PROVE candidate(m, current, base, p, c) \in Nat
    OBVIOUS
  <2>1. m.used \in Nat /\ m.headroom \in Nat /\ m.used + p \in Nat /\ current + c \in Nat
    OBVIOUS
  <2>2. saturating_sub(m.used + p, base) \in Nat /\ saturating_sub(current + c, m.headroom) \in Nat
    BY <2>1, Saturated
  <2> QED
    BY <2>2 DEF candidate, Greatest
<1> DEFINE fit(v) == align_up(Least(Greatest(v, Minimum), effective_maximum))
<1>2. \A v \in Nat : Aligned(fit(v))
  <2> SUFFICES ASSUME NEW v \in Nat PROVE Aligned(fit(v))
    OBVIOUS
  <2>1. Least(Greatest(v, Minimum), effective_maximum) \in Nat
    BY MaximumAligned DEF Least, Greatest, Aligned
  <2> QED
    BY <2>1, AlignedUp
<1>3. {PhysicalReserve, CommitReserve, FloorPhysical, FloorCommit} \subseteq Nat
  BY DEF validate
<1> DEFINE first == fit(candidate(m, current, base, PhysicalReserve, CommitReserve))
           second == fit(candidate(m, current, base, FloorPhysical, FloorCommit))
<1>4. Aligned(first) /\ Aligned(second)
  BY <1>1, <1>2, <1>3
<1>5. calculate_instantaneous(m, current, base)
        = [desired |-> Least(first, effective_maximum),
           floor |-> Least(second, Least(first, effective_maximum))]
  BY DEF calculate_instantaneous
<1> HIDE DEF fit, first, second
<1> QED
  BY <1>4, <1>5, AlignedChoice, MaximumAligned

\* Between the limits.
Within(base) == {v \in ram_minimum(base) .. ram_maximum(base) : v % Block = 0}

\* A size that is clamped to the limits lies between them.
LEMMA Clamped ==
  ASSUME limits \in Limits, NEW base \in Nat, ram_minimum(base) <= ram_maximum(base),
         NEW v, Aligned(v)
  PROVE  clamp(v, ram_minimum(base), ram_maximum(base)) \in Within(base)
<1>1. Aligned(ram_minimum(base)) /\ Aligned(ram_maximum(base))
  BY RamLimits
<1> QED
  BY <1>1 DEF clamp, Least, Greatest, Aligned, Within

\* The history holds needs between the limits.
Entries(base) == [age : Nat, desired : Within(base), floor : Within(base)]
LastOf(h) == h[Len(h)]

\* A sample that is pushed is covered by the last entry, merged or not.
LEMMA PushedLast ==
  ASSUME limits \in Limits, NEW base \in Nat, NEW h \in Seq(Entries(base)), NEW e \in Entries(base)
  PROVE  /\ pushed(h, e) \in Seq(Entries(base)) /\ pushed(h, e) # <<>>
         /\ LastOf(pushed(h, e)).desired >= e.desired
<1>1. Within(base) \subseteq Int
  BY DEF Within
<1>2. CASE Len(h) > 0 /\ h[Len(h)].age < bucket
  <2> DEFINE last == merge(h[Len(h)], e)
             front == SubSeq(h, 1, Len(h) - 1)
  <2>1. last \in Entries(base) /\ last.desired >= e.desired
    <3> DEFINE l == h[Len(h)]
    <3>1. l \in Entries(base)
      BY <1>2
    <3> HIDE DEF l
    <3>2. l.age \in Nat /\ {l.desired, l.floor, e.desired, e.floor} \subseteq Within(base)
      BY <3>1 DEF Entries
    <3>3. /\ Greatest(l.desired, e.desired) \in Within(base)
          /\ Greatest(l.floor, e.floor) \in Within(base)
          /\ Greatest(l.desired, e.desired) >= e.desired
      BY <1>1, <3>2 DEF Greatest
    <3>4. last = [age |-> l.age, desired |-> Greatest(l.desired, e.desired),
                  floor |-> Greatest(l.floor, e.floor)]
      BY DEF merge, l
    <3> HIDE DEF last
    <3> QED
      BY <3>2, <3>3, <3>4 DEF Entries
  <2>2. front \in Seq(Entries(base))
    BY <1>2
  <2>3. pushed(h, e) = Append(front, last)
    BY <1>2 DEF pushed
  <2> HIDE DEF last, front
  <2> QED
    BY <2>1, <2>2, <2>3 DEF LastOf
<1>3. CASE ~(Len(h) > 0 /\ h[Len(h)].age < bucket)
  <2>1. pushed(h, e) = Append(h, e)
    BY <1>3 DEF pushed
  <2>2. e.desired \in Int
    BY <1>1 DEF Entries
  <2> QED
    BY <2>1, <2>2 DEF LastOf
<1> QED
  BY <1>2, <1>3

\* The bound on the entries drops none but the first.
LEMMA BoundedLast ==
  ASSUME NEW S, NEW h \in Seq(S), h # <<>>
  PROVE  bounded(h) \in Seq(S) /\ bounded(h) # <<>> /\ LastOf(bounded(h)) = LastOf(h)
<1>1. CASE Len(h) > MaxEntries
  <2>1. Len(h) \in Nat /\ Len(h) > 2
    BY <1>1
  <2>2. Tail(h) \in Seq(S) /\ Len(Tail(h)) = Len(h) - 1
        /\ \A i \in 1 .. Len(h) - 1 : Tail(h)[i] = h[i + 1]
    OBVIOUS
  <2>3. bounded(h) = Tail(h)
    BY <1>1 DEF bounded
  <2>4. Tail(h)[Len(h) - 1] = h[Len(h)]
    BY <2>1, <2>2
  <2>5. Tail(h) # <<>>
    <3>1. Len(Tail(h)) # 0
      BY <2>1, <2>2, SMTT(20)
    <3>2. Len(<<>>) = 0
      OBVIOUS
    <3> QED
      BY <3>1, <3>2, Zenon
  <2>6. LastOf(Tail(h)) = LastOf(h)
    BY <2>2, <2>4 DEF LastOf
  <2> QED
    BY <2>2, <2>3, <2>5, <2>6
<1> QED
  BY <1>1 DEF bounded

\* Pruning keeps the last entry.
LEMMA PrunedLast ==
  ASSUME NEW S, NEW h \in Seq(S), h # <<>>
  PROVE  prune_history(h) \in Seq(S) /\ prune_history(h) # <<>>
         /\ LastOf(prune_history(h)) = LastOf(h)
<1> DEFINE T == {1} \cup {i \in 1 .. Len(h) : h[i].age >= Window}
<1>1. Len(h) \in Nat \ {0}
  OBVIOUS
<1>2. T \subseteq 0 .. Len(h) /\ T \subseteq 1 .. Len(h) /\ T # {}
  BY <1>1
<1>3. prune_history(h) = SubSeq(h, Max(T), Len(h))
  BY DEF prune_history
<1> HIDE DEF T
<1>4. Max(T) \in 1 .. Len(h)
  BY <1>1, <1>2, MaxOf
<1> DEFINE first == Max(T)
<1> HIDE DEF first
<1>5. /\ SubSeq(h, first, Len(h)) \in Seq(S)
      /\ Len(SubSeq(h, first, Len(h))) = Len(h) - first + 1
      /\ \A i \in 1 .. Len(h) - first + 1 : SubSeq(h, first, Len(h))[i] = h[first + i - 1]
  BY <1>1, <1>4, SMTT(20) DEF first
<1> DEFINE p == SubSeq(h, first, Len(h))
<1>6. first \in 1 .. Len(h) /\ prune_history(h) = p
  BY <1>3, <1>4 DEF first
<1>7. p \in Seq(S) /\ Len(p) = Len(h) - first + 1 /\ Len(p) \in 1 .. Len(h)
  BY <1>1, <1>5, <1>6
<1>8. p[Len(p)] = h[Len(h)]
  BY <1>1, <1>5, <1>6, <1>7
<1> HIDE DEF p
<1>9. p # <<>>
  BY <1>7
<1> QED
  BY <1>6, <1>7, <1>8, <1>9 DEF LastOf

\* The state of the estimator.
Estimated ==
  /\ limits \in Limits
  /\ Aligned(desired) /\ Aligned(safe_floor)
  /\ safe_floor <= desired /\ desired <= effective_maximum
  /\ history = <<>> \/ (last_base \in Bases /\ history \in Seq(Entries(last_base)))
  /\ estimate # NoEstimate =>
       /\ desired >= estimate.desired_now
       /\ desired + last_base \in Greatest(limits.min, last_base) .. limits.max

\* What is kept of the history is of this sample's geometry.
LEMMA KeptHistory ==
  ASSUME Estimated, NEW s \in Samples
  PROVE  (IF same_base(s.base) THEN prepare_sample(s) ELSE <<>>) \in Seq(Entries(s.base))
<1>1. CASE ~same_base(s.base) \/ prepare_sample(s) = <<>>
  <2>1. <<>> \in Seq(Entries(s.base))
    OBVIOUS
  <2> QED
    BY <1>1, <2>1
<1>2. CASE same_base(s.base) /\ prepare_sample(s) # <<>>
  <2>1. prepare_sample(s) = [i \in DOMAIN history |-> [history[i] EXCEPT !.age = @ + s.after]]
    BY <1>2 DEF prepare_sample
  <2>2. history # <<>>
    <3> SUFFICES ASSUME history = <<>> PROVE FALSE
      OBVIOUS
    <3>1. DOMAIN history = {}
      OBVIOUS
    <3>2. prepare_sample(s) = [i \in {} |-> [history[i] EXCEPT !.age = @ + s.after]]
      BY <2>1, <3>1
    <3>3. prepare_sample(s) = <<>>
      BY <3>2
    <3> QED
      BY <1>2, <3>3
  <2>3. last_base = s.base /\ history \in Seq(Entries(s.base))
    <3>1. last_base \in Bases /\ None \notin Bases
      BY <2>2 DEF Estimated, None
    <3> QED
      BY <1>2, <2>2, <3>1 DEF Estimated, same_base
  <2>4. s.after \in Nat
    BY DEF Samples, validate
  <2>5. \A i \in 1 .. Len(history) :
          [history[i] EXCEPT !.age = @ + s.after] \in Entries(s.base)
    <3> SUFFICES ASSUME NEW i \in 1 .. Len(history)
                 PROVE  [history[i] EXCEPT !.age = @ + s.after] \in Entries(s.base)
      OBVIOUS
    <3> DEFINE e == history[i]
    <3>1. e \in Entries(s.base)
      BY <2>3
    <3> HIDE DEF e
    <3>2. e.age + s.after \in Nat
      BY <3>1, <2>4 DEF Entries
    <3>3. [e EXCEPT !.age = @ + s.after] \in Entries(s.base)
      BY <3>1, <3>2 DEF Entries
    <3> QED
      BY <3>3 DEF e
  <2>6. DOMAIN history = 1 .. Len(history) /\ Len(history) \in Nat
    BY <2>3
  <2>7. prepare_sample(s) \in [1 .. Len(history) -> Entries(s.base)]
    BY <2>1, <2>5, <2>6
  <2> QED
    BY <1>2, <2>6, <2>7
<1> QED
  BY <1>1, <1>2

\* The largest of a non-empty history, which covers its last entry.
LEMMA HighestOf ==
  ASSUME limits \in Limits, NEW base \in Nat, NEW h \in Seq(Entries(base)), h # <<>>
  PROVE  /\ Max({h[i].desired : i \in DOMAIN h}) \in Within(base)
         /\ Max({h[i].desired : i \in DOMAIN h}) >= LastOf(h).desired
         /\ Max({h[i].floor : i \in DOMAIN h}) \in Within(base)
<1>1. Aligned(ram_minimum(base)) /\ Aligned(ram_maximum(base))
  BY RamLimits
<1>2. Within(base) \subseteq 0 .. ram_maximum(base) /\ ram_maximum(base) \in Nat
  BY <1>1 DEF Within, Aligned
<1>3. Len(h) \in DOMAIN h /\ \A i \in DOMAIN h : h[i] \in Entries(base)
  OBVIOUS
<1> DEFINE D == {h[i].desired : i \in DOMAIN h}
           F == {h[i].floor : i \in DOMAIN h}
<1>4. D \subseteq Within(base) /\ LastOf(h).desired \in D
  BY <1>3 DEF Entries, LastOf
<1>5. F \subseteq Within(base) /\ F # {}
  <2>1. h[Len(h)].floor \in F
    BY <1>3
  <2> QED
    BY <1>3, <2>1 DEF Entries
<1> HIDE DEF D, F
<1>6. Max(D) \in D /\ \A y \in D : Max(D) >= y
  BY <1>2, <1>4, MaxOf
<1>7. Max(F) \in F
  BY <1>2, <1>5, MaxOf
<1> QED
  BY <1>4, <1>5, <1>6, <1>7 DEF D, F

\* The service starts cold.
LEMMA EstimatedInit == EstimatorInit => Estimated
<1> SUFFICES ASSUME EstimatorInit PROVE Estimated
  OBVIOUS
<1>1. Aligned(0)
  BY DEF Aligned
<1> QED
  BY <1>1, MaximumAligned DEF EstimatorInit, Estimated, Aligned

\* What one estimate goes by: the need of the moment within the limits, the target if
\* nothing is reclaimed, what is kept of the history, and the history with the sample.
NeedOf(s) ==
  LET raw == calculate_instantaneous(s.load, s.current, s.base)
      limited(v) == clamp(v, ram_minimum(s.base), ram_maximum(s.base))
  IN [age |-> 0, desired |-> limited(raw.desired), floor |-> limited(raw.floor)]
StartOf(s) == IF ~session THEN Greatest(s.current, NeedOf(s).desired) ELSE desired
GrownOf(s) == Least(Greatest(StartOf(s), NeedOf(s).desired), ram_maximum(s.base))
KeptOf(s) == IF same_base(s.base) THEN prepare_sample(s) ELSE <<>>
HistoryOf(s) == IF s.high THEN prune_history(bounded(pushed(KeptOf(s), NeedOf(s)))) ELSE <<>>

\* An estimate, in these terms.
LEMMA EstimateParts ==
  ASSUME NEW s \in Samples, Estimate(s)
  PROVE  LET h == HistoryOf(s)
             ready == history_is_ready(h)
             highest == Max({h[i].desired : i \in DOMAIN h})
             lowest == Max({h[i].floor : i \in DOMAIN h})
         IN /\ Accepted(s)
            /\ history' = h
            /\ desired' = IF ready /\ highest + Hysteresis <= GrownOf(s) THEN highest ELSE GrownOf(s)
            /\ safe_floor' = IF ready THEN Least(lowest, desired') ELSE Least(s.current, GrownOf(s))
            /\ session' = TRUE /\ last_base' = s.base /\ limits' = limits
            /\ estimate' = [desired_now |-> NeedOf(s).desired, current |-> s.current, ready |-> ready]
            /\ since' = IF ~s.high THEN None
                        ELSE IF Unbroken(s) THEN Least(since + s.after, Window) ELSE 0
            /\ window' = IF ~s.high THEN {}
                         ELSE {NeedOf(s)} \cup {e \in {[w EXCEPT !.age = @ + s.after] : w \in window} :
                                                   Unbroken(s) /\ e.age <= Window}
BY DEF Estimate, without_evidence, HistoryOf, KeptOf, GrownOf, StartOf, NeedOf

\* The need and the target if nothing is reclaimed are blocks within the limits.
LEMMA EstimateFacts ==
  ASSUME Estimated, NEW s \in Samples, Accepted(s)
  PROVE  LET least == ram_minimum(s.base)
             most == ram_maximum(s.base)
             grown == GrownOf(s)
         IN /\ limits \in Limits /\ s.base \in Bases /\ s.base \in Nat
            /\ Aligned(s.current) /\ limits.max >= s.base
            /\ limits.min \in Nat /\ limits.max \in Nat
            /\ Aligned(least) /\ Aligned(most) /\ least <= most /\ most <= effective_maximum
            /\ least + s.base >= limits.min /\ most + s.base <= limits.max
            /\ NeedOf(s) \in Entries(s.base) /\ Aligned(NeedOf(s).desired)
            /\ Aligned(grown) /\ least <= grown /\ grown <= most /\ NeedOf(s).desired <= grown
            /\ Aligned(StartOf(s)) /\ KeptOf(s) \in Seq(Entries(s.base))
            /\ \A v \in Within(s.base) : Aligned(v) /\ least <= v /\ v <= most
<1> DEFINE least == ram_minimum(s.base)
           most == ram_maximum(s.base)
           raw == calculate_instantaneous(s.load, s.current, s.base)
           need == NeedOf(s)
           start == StartOf(s)
           grown == GrownOf(s)
<1>2. limits \in Limits /\ s.base \in Bases /\ s.base \in Nat /\ s.current \in Nat /\ s.load \in Loads
  BY DEF Estimated, Samples
<1>3. /\ Aligned(s.current) /\ least <= most /\ limits.max >= s.base
      /\ limits.min \in Nat /\ limits.max \in Nat
  BY <1>2 DEF Accepted, Reachable, Aligned
<1>4. /\ Aligned(least) /\ Aligned(most) /\ most <= effective_maximum
      /\ least + s.base >= limits.min /\ most + s.base <= limits.max
  BY <1>2, <1>3, RamLimits
<1>5. Aligned(raw.desired) /\ Aligned(raw.floor)
  BY <1>2, NeedAligned
<1>6. need \in Entries(s.base)
  <2>1. clamp(raw.desired, least, most) \in Within(s.base) /\ clamp(raw.floor, least, most) \in Within(s.base)
    BY <1>2, <1>3, <1>5, Clamped
  <2>2. need = [age |-> 0, desired |-> clamp(raw.desired, least, most),
                floor |-> clamp(raw.floor, least, most)]
    BY DEF NeedOf
  <2> HIDE DEF need, raw, least, most
  <2> QED
    BY <2>1, <2>2 DEF Entries
<1>7. \A v \in Within(s.base) : Aligned(v) /\ least <= v /\ v <= most
  BY <1>4 DEF Within, Aligned
<1> HIDE DEF need, raw, least, most
<1>8. need.desired \in Within(s.base) /\ Aligned(need.desired)
  BY <1>6, <1>7 DEF Entries
<1>9. Aligned(start)
  <2>1. start = IF ~session THEN Greatest(s.current, need.desired) ELSE desired
    BY DEF StartOf, start, need
  <2> QED
    BY <2>1, <1>3, <1>8, AlignedChoice DEF Estimated
<1> HIDE DEF start
<1>0. grown = Least(Greatest(start, need.desired), most)
  BY DEF GrownOf, need, start, most
<1> HIDE DEF grown
<1>10. Aligned(grown) /\ least <= grown /\ grown <= most /\ need.desired <= grown
  <2>1. Aligned(grown)
    BY <1>0, <1>4, <1>8, <1>9, AlignedChoice
  <2>2. least <= need.desired /\ need.desired <= most
    BY <1>7, <1>8
  <2> QED
    BY <2>1, <2>2, <1>0, <1>4, <1>8, <1>9 DEF Aligned, Least, Greatest
<1>11. KeptOf(s) \in Seq(Entries(s.base))
  BY KeptHistory DEF KeptOf
<1> QED
  BY <1>2, <1>3, <1>4, <1>6, <1>7, <1>8, <1>9, <1>10, <1>11 DEF need, least, most, start, grown

\* One estimate: the target covers the need of the moment and stays within the limits.
LEMMA EstimateStep ==
  ASSUME Estimated, NEW s \in Samples, Estimate(s)
  PROVE  Estimated'
<1> DEFINE least == ram_minimum(s.base)
           most == ram_maximum(s.base)
           need == NeedOf(s)
           grown == GrownOf(s)
           kept == KeptOf(s)
           h == HistoryOf(s)
           ready == history_is_ready(h)
           highest == Max({h[i].desired : i \in DOMAIN h})
           lowest == Max({h[i].floor : i \in DOMAIN h})
<1>1. /\ Accepted(s)
      /\ history' = h
      /\ desired' = IF ready /\ highest + Hysteresis <= grown THEN highest ELSE grown
      /\ safe_floor' = IF ready THEN Least(lowest, desired') ELSE Least(s.current, grown)
      /\ last_base' = s.base
      /\ estimate' = [desired_now |-> need.desired, current |-> s.current, ready |-> ready]
      /\ limits' = limits
  BY EstimateParts
<1>2. limits \in Limits /\ s.base \in Bases /\ s.base \in Nat
  BY <1>1, EstimateFacts
<1>3. Aligned(s.current) /\ limits.max >= s.base /\ limits.min \in Nat /\ limits.max \in Nat
  BY <1>1, EstimateFacts
<1>4. /\ Aligned(least) /\ Aligned(most) /\ least <= most /\ most <= effective_maximum
      /\ least + s.base >= limits.min /\ most + s.base <= limits.max
  BY <1>1, EstimateFacts
<1>6. need \in Entries(s.base) /\ kept \in Seq(Entries(s.base))
  BY <1>1, EstimateFacts
<1>7. \A v \in Within(s.base) : Aligned(v) /\ least <= v /\ v <= most
  BY <1>1, EstimateFacts
<1>8. need.desired \in Within(s.base) /\ Aligned(need.desired)
  BY <1>6, <1>7 DEF Entries
<1>10. Aligned(grown) /\ least <= grown /\ grown <= most /\ need.desired <= grown
  BY <1>1, EstimateFacts
<1> HIDE DEF need, least, most, grown, kept
<1>12. h \in Seq(Entries(s.base)) /\ (h # <<>> => LastOf(h).desired >= need.desired)
  <2>1. CASE s.high
    <3> DEFINE a == pushed(kept, need)
               b == bounded(a)
    <3>1. a \in Seq(Entries(s.base)) /\ a # <<>> /\ LastOf(a).desired >= need.desired
      BY <1>2, <1>6, PushedLast
    <3> HIDE DEF a
    <3>2. b \in Seq(Entries(s.base)) /\ b # <<>> /\ LastOf(b) = LastOf(a)
      BY <3>1, BoundedLast
    <3> HIDE DEF b
    <3>3. prune_history(b) \in Seq(Entries(s.base)) /\ LastOf(prune_history(b)) = LastOf(b)
      BY <3>2, PrunedLast
    <3>4. h = prune_history(b)
      BY <2>1 DEF a, b, HistoryOf, kept, need
    <3> QED
      BY <3>1, <3>2, <3>3, <3>4
  <2>2. CASE ~s.high
    <3>1. h = <<>> /\ <<>> \in Seq(Entries(s.base))
      BY <2>2 DEF HistoryOf
    <3> QED
      BY <3>1
  <2> QED
    BY <2>1, <2>2
<1> HIDE DEF h
<1>13. ASSUME ready
       PROVE  highest \in Within(s.base) /\ highest >= need.desired /\ lowest \in Within(s.base)
  <2>1. h # <<>>
    BY <1>13 DEF history_is_ready
  <2>2. highest \in Within(s.base) /\ highest >= LastOf(h).desired /\ lowest \in Within(s.base)
    BY <1>2, <1>12, <2>1, HighestOf
  <2>3. LastOf(h) \in Entries(s.base)
    BY <1>12, <2>1 DEF LastOf
  <2>4. Aligned(highest) /\ Aligned(LastOf(h).desired)
    BY <1>7, <2>2, <2>3 DEF Entries
  <2> QED
    BY <1>8, <1>12, <2>1, <2>2, <2>4 DEF Aligned
<1> HIDE DEF ready, highest, lowest
<1>14. Aligned(desired') /\ least <= desired' /\ desired' <= most /\ desired' >= need.desired
  BY <1>1, <1>7, <1>10, <1>13
<1>15. Aligned(safe_floor') /\ safe_floor' <= desired'
  <2>1. CASE ready
    <3>1. Aligned(lowest)
      BY <1>7, <1>13, <2>1
    <3>2. safe_floor' = Least(lowest, desired')
      BY <1>1, <2>1
    <3>3. Aligned(safe_floor')
      BY <1>14, <3>1, <3>2, AlignedChoice
    <3> QED
      BY <1>14, <3>1, <3>2, <3>3 DEF Least, Aligned
  <2>2. CASE ~ready
    <3>1. desired' = grown /\ safe_floor' = Least(s.current, grown)
      BY <1>1, <2>2
    <3> QED
      BY <1>3, <1>10, <3>1, AlignedChoice DEF Least, Aligned
  <2> QED
    BY <2>1, <2>2
<1>16. desired' <= effective_maximum
  BY <1>4, <1>14, MaximumAligned DEF Aligned
<1>17. history' \in Seq(Entries(last_base)')
  <2>1. Entries(last_base)' = Entries(s.base)
    BY <1>1 DEF Entries, Within, ram_minimum, ram_maximum
  <2> QED
    BY <1>1, <1>12, <2>1
<1>18. desired' + s.base \in Greatest(limits.min, s.base) .. limits.max
  BY <1>2, <1>3, <1>4, <1>14 DEF Aligned, Greatest
<1>19. estimate'.desired_now = need.desired
  BY <1>1
<1> QED
  BY <1>1, <1>2, <1>14, <1>15, <1>16, <1>17, <1>18, <1>19 DEF Estimated, Aligned, effective_maximum, align_down

\* Every operation of the estimator keeps its state.
LEMMA EstimatedStep == Estimated /\ [EstimatorNext]_estimatorVars => Estimated'
<1> SUFFICES ASSUME Estimated, [EstimatorNext]_estimatorVars PROVE Estimated'
  OBVIOUS
<1>1. CASE InvalidateHistory \/ EstimateFails
  BY <1>1 DEF InvalidateHistory, EstimateFails, Invalidated, Estimated, Aligned, effective_maximum, align_down
<1>2. CASE Restart
  <2>1. Aligned(0)
    BY DEF Aligned
  <2> QED
    BY <1>2, <2>1, MaximumAligned DEF Restart, Estimated, Aligned, effective_maximum, align_down
<1>3. CASE \E s \in Samples : Estimate(s)
  BY <1>3, EstimateStep
<1>4. CASE UNCHANGED estimatorVars
  BY <1>4 DEF estimatorVars, Estimated, Aligned, effective_maximum, align_down, Entries, Within, ram_minimum, ram_maximum
<1> QED
  BY <1>1, <1>2, <1>3, <1>4 DEF EstimatorNext

\* Whatever the history says, the target covers the need of the moment, all RAM together
\* stays within the administrator's limits, and target and floor are blocks of the device
\* (TargetEstimator::estimate, set_ram_limits).
THEOREM TargetAlwaysFits == EstimatorInit /\ [][EstimatorNext]_estimatorVars => []TargetFits
<1>1. Estimated => TargetFits
  BY DEF Estimated, TargetFits, Aligned
<1> QED
  BY EstimatedInit, EstimatedStep, <1>1, PTL

-----------------------------------------------------------------------------
\* Reclaim on evidence

\* Entries of the history, and samples of the window, whatever their sizes.
Dated == [age : Nat, desired : Int, floor : Int]

\* How far a number of buckets spans.
Buckets(count) == count * bucket
\* Consecutive entries are a bucket apart, ...
Spaced(h) == \A i, j \in 1 .. Len(h) : i < j => h[i].age >= h[j].age + Buckets(j - i)
\* ... and each of the window's samples is counted in an entry, which goes only after all
\* of its samples have left the window: the entries after it are younger than they.
Covers(h, samples) ==
  \A w \in samples : \E i \in 1 .. Len(h) :
    /\ w.desired <= h[i].desired /\ w.floor <= h[i].floor
    /\ \A j \in 1 .. Len(h) : j > i => h[j].age < w.age
\* One fact or another, some time later.
Aged(o, e, d) == o.age = e.age + d /\ o.desired = e.desired /\ o.floor = e.floor

\* The fields of an entry, and of one that has grown older.
LEMMA DatedFields ==
  \A e \in Dated : e.age \in Nat /\ e.desired \in Int /\ e.floor \in Int
BY DEF Dated

LEMMA OlderDated ==
  ASSUME NEW e \in Dated, NEW d \in Nat
  PROVE  LET o == [e EXCEPT !.age = @ + d]
         IN o \in Dated /\ Aged(o, e, d)
BY DEF Dated, Aged

\* MaxEntries buckets span the window.
LEMMA BucketsSpan == bucket \in Nat \ {0} /\ (MaxEntries - 1) * bucket >= Window
<1> DEFINE m == MaxEntries - 2
           q == (Window + MaxEntries - 3) \div m
<1>1. Window \in Nat \ {0} /\ m \in Nat \ {0} /\ Window + MaxEntries - 3 = Window + m - 1
  BY DEF validate
<1>2. q \in Nat /\ Window + m - 1 < q * m + m
  <2> HIDE DEF m
  <2>1. Window + m - 1 \in Nat
    BY <1>1
  <2>2. \A n \in Nat : n \div m \in Nat /\ n < (n \div m) * m + m
    BY <1>1
  <2> QED
    BY <1>1, <2>1, <2>2
<1>3. bucket = Greatest(1, q)
  BY DEF bucket
<1> HIDE DEF q
<1>4. bucket \in Nat \ {0} /\ bucket >= q
  BY <1>2, <1>3 DEF Greatest
<1>5. m * q <= m * bucket /\ m * q \in Nat /\ m * bucket \in Nat
  <2> HIDE DEF m
  <2> QED
    BY <1>1, <1>2, <1>4
<1>6. (MaxEntries - 1) * bucket = m * bucket + bucket
  <2>1. MaxEntries - 1 = m + 1
    OBVIOUS
  <2> HIDE DEF m
  <2> QED
    BY <1>1, <1>4, <2>1
<1>7. q * m = m * q
  <2> HIDE DEF m
  <2> QED
    BY <1>1, <1>2
<1> HIDE DEF m
<1> QED
  BY <1>1, <1>2, <1>4, <1>5, <1>6, <1>7

\* The arithmetic of buckets.
LEMMA BucketType == \A c \in Int : Buckets(c) \in Int
BY BucketsSpan DEF Buckets

LEMMA BucketNat == \A c \in Nat : Buckets(c) \in Nat
BY BucketsSpan DEF Buckets

LEMMA BucketNext == \A c \in Int : Buckets(c + 1) = Buckets(c) + bucket
<1>1. \A c \in Int, b \in Nat : (c + 1) * b = c * b + b
  OBVIOUS
<1> QED
  BY <1>1, BucketsSpan DEF Buckets

\* Time passes for the whole history: it stays spaced, and covers the window's samples.
LEMMA AgedEvidence ==
  ASSUME NEW h \in Seq(Dated), NEW d \in Nat \ {0}, NEW W, W \subseteq Dated,
         Spaced(h), Covers(h, W),
         NEW k \in Seq(Dated), Len(k) = Len(h), \A i \in 1 .. Len(h) : Aged(k[i], h[i], d),
         NEW V, \A v \in V : \E w \in W : Aged(v, w, d)
  PROVE  Spaced(k) /\ Covers(k, V)
<1>1. \A i \in 1 .. Len(h) : h[i] \in Dated /\ k[i] \in Dated
  OBVIOUS
<1>2. Len(h) \in Nat
  OBVIOUS
<1>3. Spaced(k)
  <2> SUFFICES ASSUME NEW i \in 1 .. Len(h), NEW j \in 1 .. Len(h), i < j
               PROVE  k[i].age >= k[j].age + Buckets(j - i)
    BY DEF Spaced
  <2>1. h[i].age >= h[j].age + Buckets(j - i)
    BY DEF Spaced
  <2>2. k[i].age = h[i].age + d /\ k[j].age = h[j].age + d
    BY DEF Aged
  <2>3. h[i].age \in Nat /\ h[j].age \in Nat
    BY <1>1, DatedFields
  <2>4. j - i \in Int
    BY <1>2
  <2>5. Buckets(j - i) \in Int
    BY <2>4, BucketType
  <2>6. d \in Nat
    OBVIOUS
  <2> DEFINE x == h[i].age
             y == h[j].age
             z == Buckets(j - i)
  <2>7. x \in Nat /\ y \in Nat /\ z \in Int /\ x >= y + z
    BY <2>1, <2>3, <2>5
  <2> HIDE DEF x, y, z
  <2>8. x + d >= (y + d) + z
    BY ONLY <2>6, <2>7
  <2> USE DEF x, y, z
  <2> QED
    BY ONLY <2>2, <2>8
<1>4. ASSUME NEW v \in V
      PROVE  \E i \in 1 .. Len(k) : /\ v.desired <= k[i].desired /\ v.floor <= k[i].floor
                                    /\ \A j \in 1 .. Len(k) : j > i => k[j].age < v.age
  <2>1. PICK w \in W : Aged(v, w, d)
    OBVIOUS
  <2>2. w.age \in Nat /\ v.age = w.age + d /\ v.desired = w.desired /\ v.floor = w.floor
    BY <2>1, DatedFields DEF Aged
  <2>3. PICK i \in 1 .. Len(h) : /\ w.desired <= h[i].desired /\ w.floor <= h[i].floor
                                /\ \A j \in 1 .. Len(h) : j > i => h[j].age < w.age
    BY DEF Covers
  <2>4. ASSUME NEW j \in 1 .. Len(h), j > i PROVE k[j].age < v.age
    <3>1. h[j].age < w.age /\ h[j].age \in Nat
      BY <1>1, <2>3, <2>4, DatedFields
    <3>2. k[j].age = h[j].age + d
      BY DEF Aged
    <3> QED
      BY <2>2, <3>1, <3>2
  <2>5. k[i].desired = h[i].desired /\ k[i].floor = h[i].floor
    BY DEF Aged
  <2> QED
    BY <2>2, <2>3, <2>4, <2>5
<1> QED
  BY <1>3, <1>4 DEF Covers

\* The merged entry keeps its age and counts both.
LEMMA MergedDated ==
  ASSUME NEW l \in Dated, NEW e \in Dated
  PROVE  /\ merge(l, e) \in Dated /\ merge(l, e).age = l.age
         /\ merge(l, e).desired >= l.desired /\ merge(l, e).desired >= e.desired
         /\ merge(l, e).floor >= l.floor /\ merge(l, e).floor >= e.floor
         /\ merge(l, e).desired = l.desired \/ merge(l, e).desired = e.desired
<1>1. l.age \in Nat /\ {l.desired, l.floor, e.desired, e.floor} \subseteq Int
  BY DatedFields
<1>2. /\ Greatest(l.desired, e.desired) \in {l.desired, e.desired}
      /\ Greatest(l.desired, e.desired) >= l.desired /\ Greatest(l.desired, e.desired) >= e.desired
      /\ Greatest(l.floor, e.floor) \in {l.floor, e.floor}
      /\ Greatest(l.floor, e.floor) >= l.floor /\ Greatest(l.floor, e.floor) >= e.floor
  BY <1>1 DEF Greatest
<1>3. merge(l, e) = [age |-> l.age, desired |-> Greatest(l.desired, e.desired),
                     floor |-> Greatest(l.floor, e.floor)]
  BY DEF merge
<1> QED
  BY <1>1, <1>2, <1>3 DEF Dated

\* A sample is added: in the last entry, or in one of its own a bucket later.
LEMMA PushedEvidence ==
  ASSUME NEW h \in Seq(Dated), NEW e \in Dated, e.age = 0, NEW W, W \subseteq Dated,
         \A w \in W : w.age > 0, Spaced(h), Covers(h, W), NEW D \in Int,
         e.desired <= D, \A i \in 1 .. Len(h) : h[i].desired <= D
  PROVE  LET p == pushed(h, e)
         IN /\ p \in Seq(Dated) /\ Len(p) \in 1 .. Len(h) + 1
            /\ Spaced(p) /\ Covers(p, {e} \cup W)
            /\ \A i \in 1 .. Len(p) : p[i].desired <= D
            /\ p[1].age = IF h = <<>> THEN 0 ELSE h[1].age
<1> DEFINE p == pushed(h, e)
           n == Len(h)
<1>1. n \in Nat /\ DOMAIN h = 1 .. n /\ \A i \in 1 .. n : h[i] \in Dated
  OBVIOUS
<1>2. bucket \in Nat \ {0}
  BY BucketsSpan
<1>3. CASE n > 0 /\ h[n].age < bucket
  <2> DEFINE m == merge(h[n], e)
  <2>1. p = Append(SubSeq(h, 1, n - 1), m)
    BY <1>3 DEF pushed
  <2>2. h[n] \in Dated
    BY <1>1, <1>3
  <2>3. /\ m \in Dated /\ m.age = h[n].age
        /\ m.desired >= h[n].desired /\ m.desired >= e.desired
        /\ m.floor >= h[n].floor /\ m.floor >= e.floor
        /\ m.desired <= D
    BY <1>1, <1>3, <2>2, MergedDated
  <2> HIDE DEF m
  <2>4. /\ SubSeq(h, 1, n - 1) \in Seq(Dated) /\ Len(SubSeq(h, 1, n - 1)) = n - 1
        /\ \A i \in 1 .. n - 1 : SubSeq(h, 1, n - 1)[i] = h[i]
    BY <1>1, <1>3
  <2>5. /\ p \in Seq(Dated) /\ Len(p) = n /\ DOMAIN p = 1 .. n /\ p[n] = m
        /\ \A i \in 1 .. n - 1 : p[i] = h[i]
    BY <1>3, <2>1, <2>3, <2>4
  <2> HIDE DEF p
  <2>6. \A i \in 1 .. n : /\ p[i].age = h[i].age /\ p[i] \in Dated
                          /\ p[i].desired >= h[i].desired /\ p[i].floor >= h[i].floor
                          /\ p[i].desired <= D
    <3> SUFFICES ASSUME NEW i \in 1 .. n
                 PROVE  /\ p[i].age = h[i].age /\ p[i] \in Dated
                        /\ p[i].desired >= h[i].desired /\ p[i].floor >= h[i].floor
                        /\ p[i].desired <= D
      OBVIOUS
    <3>1. CASE i = n
      BY <2>3, <2>5, <3>1
    <3>2. CASE i # n
      <4>1. p[i] = h[i] /\ h[i] \in Dated
        BY <1>1, <2>5, <3>2
      <4> QED
        BY <1>1, <4>1, DatedFields
    <3> QED
      BY <3>1, <3>2
  <2>7. Spaced(p)
    BY <1>1, <2>5, <2>6 DEF Spaced
  <2>8. ASSUME NEW w \in {e} \cup W
        PROVE  \E i \in 1 .. Len(p) : /\ w.desired <= p[i].desired /\ w.floor <= p[i].floor
                                   /\ \A j \in 1 .. Len(p) : j > i => p[j].age < w.age
    <3>1. CASE w = e
      <4>1. Len(p) = n /\ n \in 1 .. n /\ \A j \in 1 .. n : ~(j > n)
        BY <1>1, <1>3, <2>5
      <4>2. w.desired <= p[n].desired /\ w.floor <= p[n].floor
        BY <2>3, <2>5, <3>1
      <4> QED
        BY ONLY <4>1, <4>2
    <3>2. CASE w \in W
      <4>1. PICK i \in 1 .. n : /\ w.desired <= h[i].desired /\ w.floor <= h[i].floor
                                /\ \A j \in 1 .. n : j > i => h[j].age < w.age
        BY <1>1, <3>2 DEF Covers
      <4>2. w.desired \in Int /\ w.floor \in Int /\ h[i].desired \in Int /\ h[i].floor \in Int
        BY <1>1, <3>2, DatedFields
      <4>3. p[i].desired \in Int /\ p[i].floor \in Int
        BY <2>6, DatedFields
      <4>4. /\ p[i].desired >= h[i].desired /\ p[i].floor >= h[i].floor
            /\ \A j \in 1 .. n : p[j].age = h[j].age
        BY <2>6
      <4>5. w.desired <= p[i].desired /\ w.floor <= p[i].floor
        BY ONLY <4>1, <4>2, <4>3, <4>4
      <4>6. \A j \in 1 .. n : j > i => p[j].age < w.age
        BY ONLY <4>1, <4>4
      <4>7. Len(p) = n
        BY <2>5
      <4> QED
        BY ONLY <4>5, <4>6, <4>7
    <3> QED
      BY <3>1, <3>2
  <2>9. Covers(p, {e} \cup W)
    BY <2>8 DEF Covers
  <2>10. p[1].age = h[1].age /\ h # <<>>
    BY <1>1, <1>3, <2>6
  <2> QED
    BY <1>1, <1>3, <2>5, <2>6, <2>7, <2>9, <2>10 DEF p
<1>4. CASE ~(n > 0 /\ h[n].age < bucket)
  <2>1. p = Append(h, e)
    BY <1>4 DEF pushed
  <2>2. /\ p \in Seq(Dated) /\ Len(p) = n + 1 /\ DOMAIN p = 1 .. n + 1 /\ p[n + 1] = e
        /\ \A i \in 1 .. n : p[i] = h[i]
    BY <1>1, <2>1
  <2> HIDE DEF p
  <2>3. Spaced(p)
    <3> SUFFICES ASSUME NEW i \in 1 .. n + 1, NEW j \in 1 .. n + 1, i < j
                 PROVE  p[i].age >= p[j].age + Buckets(j - i)
      BY <2>2 DEF Spaced
    <3>1. CASE j # n + 1
      BY <1>1, <2>2, <3>1 DEF Spaced
    <3>2. CASE j = n + 1
      <4>1. n > 0 /\ i \in 1 .. n /\ h[n] \in Dated /\ h[i] \in Dated /\ h[n].age >= bucket
        BY <1>1, <1>2, <1>4, <3>2, DatedFields
      <4>2. h[i].age >= h[n].age + Buckets(n - i)
        <5>1. CASE i = n
          <6>1. Buckets(n - i) = 0
            BY <1>1, <1>2, <5>1 DEF Buckets
          <6> QED
            BY <4>1, <5>1, <6>1, DatedFields
        <5>2. CASE i # n
          <6>1. i < n /\ n \in 1 .. n
            <7>1. n \in Nat
              BY <1>1
            <7>2. i \in 1 .. n
              BY <4>1
            <7> QED
              BY ONLY <5>2, <7>1, <7>2
          <6> QED
            BY ONLY Spaced(h), <4>1, <6>1 DEF Spaced
        <5> QED
          BY <5>1, <5>2
      <4>3. Buckets(n + 1 - i) = Buckets(n - i) + bucket /\ Buckets(n - i) \in Int
        <5>1. n - i \in Int /\ n + 1 - i = (n - i) + 1
          BY <1>1
        <5>2. Buckets(n + 1 - i) = Buckets((n - i) + 1)
          BY <5>1
        <5>3. Buckets((n - i) + 1) = Buckets(n - i) + bucket
          BY <5>1, BucketNext
        <5>4. Buckets(n - i) \in Int
          BY <5>1, BucketType
        <5> QED
          BY <5>2, <5>3, <5>4
      <4>4. p[j].age = 0 /\ p[i].age = h[i].age
        BY <2>2, <3>2, <4>1
      <4> QED
        <5>1. h[i].age \in Nat /\ h[n].age \in Nat /\ bucket \in Nat
          BY <1>2, <4>1, DatedFields
        <5>2. h[n].age >= bucket
          BY <4>1
        <5> DEFINE x == h[i].age
                   y == h[n].age
                   z == Buckets(n - i)
        <5>3. x \in Nat /\ y \in Nat /\ z \in Int /\ x >= y + z /\ y >= bucket
          BY <4>2, <4>3, <5>1, <5>2
        <5>4. p[j].age = 0 /\ p[i].age = x /\ Buckets(j - i) = z + bucket
          BY <3>2, <4>3, <4>4
        <5> HIDE DEF x, y, z
        <5>5. x >= z + bucket /\ z + bucket = 0 + (z + bucket)
          BY ONLY <5>1, <5>3
        <5> QED
          BY ONLY <5>4, <5>5
    <3> QED
      BY <3>1, <3>2
  <2>4. ASSUME NEW w \in {e} \cup W
        PROVE  \E i \in 1 .. Len(p) : /\ w.desired <= p[i].desired /\ w.floor <= p[i].floor
                                   /\ \A j \in 1 .. Len(p) : j > i => p[j].age < w.age
    <3>1. CASE w = e
      <4>1. Len(p) = n + 1 /\ n + 1 \in 1 .. n + 1 /\ \A j \in 1 .. n + 1 : ~(j > n + 1)
        BY <1>1, <2>2
      <4>2. w = p[n + 1] /\ w.desired \in Int /\ w.floor \in Int
        BY <2>2, <3>1, DatedFields
      <4>3. w.desired <= p[n + 1].desired /\ w.floor <= p[n + 1].floor
        BY ONLY <4>2
      <4> QED
        BY ONLY <4>1, <4>3
    <3>2. CASE w \in W
      <4>1. PICK i \in 1 .. n : /\ w.desired <= h[i].desired /\ w.floor <= h[i].floor
                                /\ \A j \in 1 .. n : j > i => h[j].age < w.age
        BY <1>1, <3>2 DEF Covers
      <4>2. w.age > 0 /\ e.age = 0
        BY <3>2
      <4>3. ASSUME NEW j \in 1 .. n + 1, j > i PROVE p[j].age < w.age
        <5>1. CASE j = n + 1
          <6>1. p[j] = e
            BY <2>2, <5>1
          <6>2. p[j].age = 0
            BY <4>2, <6>1, Zenon
          <6>3. 0 < w.age
            BY <4>2
          <6> QED
            BY ONLY <6>2, <6>3
        <5>2. CASE j # n + 1
          <6>0. j \in 1 .. n
            BY ONLY n \in Nat, j \in 1 .. n + 1, <5>2
          <6>1. j \in 1 .. n /\ p[j] = h[j]
            BY <2>2, <6>0
          <6> QED
            BY <4>1, <4>3, <6>1
        <5> QED
          BY <5>1, <5>2
      <4>4. i \in 1 .. Len(p) /\ p[i] = h[i] /\ Len(p) = n + 1
        BY <1>1, <2>2
      <4> QED
        BY ONLY <4>1, <4>3, <4>4
    <3> QED
      BY <3>1, <3>2
  <2>5. Covers(p, {e} \cup W)
    BY <2>4 DEF Covers
  <2>6. \A i \in 1 .. Len(p) : p[i].desired <= D
    BY <1>1, <2>2
  <2>7. p[1].age = IF h = <<>> THEN 0 ELSE h[1].age
    <3>1. CASE n = 0
      BY <1>1, <2>2, <3>1
    <3>2. CASE n # 0
      <4>1. h # <<>> /\ 1 \in 1 .. n
        BY <1>1, <3>2
      <4> QED
        BY <2>2, <4>1
    <3> QED
      BY <3>1, <3>2
  <2> QED
    BY <1>1, <2>2, <2>3, <2>5, <2>6, <2>7 DEF p
<1> QED
  BY <1>3, <1>4

\* Entries that have left the window, but for the last of them, are dropped: nothing the
\* window's samples asked for goes with them.
LEMMA DroppedEvidence ==
  ASSUME NEW h \in Seq(Dated), NEW W, W \subseteq Dated, \A w \in W : w.age <= Window,
         Spaced(h), Covers(h, W), NEW k \in 1 .. Len(h), k = 1 \/ h[k].age >= Window,
         NEW p \in Seq(Dated), Len(p) = Len(h) - k + 1,
         \A i \in 1 .. Len(p) : p[i] = h[i + k - 1]
  PROVE  /\ Spaced(p) /\ Covers(p, W)
         /\ Least(p[1].age, Window) = Least(h[1].age, Window)
<1> DEFINE n == Len(h)
           m == Len(p)
<1>1. /\ n \in Nat /\ DOMAIN h = 1 .. n /\ DOMAIN p = 1 .. m /\ m = n - k + 1 /\ m >= 1
      /\ k \in Nat /\ k >= 1
      /\ \A i \in 1 .. n : h[i] \in Dated
      /\ \A i \in 1 .. m : p[i] = h[i + k - 1] /\ i + k - 1 \in 1 .. n
  OBVIOUS
<1>2. Window \in Nat /\ bucket \in Nat
  BY BucketsSpan DEF validate
<1>3. Spaced(p)
  <2> SUFFICES ASSUME NEW i \in 1 .. m, NEW j \in 1 .. m, i < j
               PROVE  p[i].age >= p[j].age + Buckets(j - i)
    BY <1>1 DEF Spaced
  <2>1. h[i + k - 1].age >= h[j + k - 1].age + Buckets((j + k - 1) - (i + k - 1))
    <3>1. i + k - 1 \in 1 .. n /\ j + k - 1 \in 1 .. n /\ i + k - 1 < j + k - 1
      BY <1>1
    <3> QED
      BY ONLY Spaced(h), <3>1 DEF Spaced
  <2>2. (j + k - 1) - (i + k - 1) = j - i
    BY <1>1
  <2> QED
    BY <1>1, <2>1, <2>2
<1>4. ASSUME NEW w \in W
      PROVE  \E i \in 1 .. Len(p) : /\ w.desired <= p[i].desired /\ w.floor <= p[i].floor
                                 /\ \A j \in 1 .. Len(p) : j > i => p[j].age < w.age
  <2>1. PICK i \in 1 .. n : /\ w.desired <= h[i].desired /\ w.floor <= h[i].floor
                            /\ \A j \in 1 .. n : j > i => h[j].age < w.age
    BY <1>1 DEF Covers
  <2>2. i >= k
    <3> SUFFICES ASSUME i < k PROVE FALSE
      BY <1>1, <2>1
    <3>1. k \in 1 .. n /\ k # 1 /\ h[k] \in Dated
      BY <1>1
    <3>2. h[k].age < w.age /\ h[k].age >= Window /\ w.age <= Window
      BY <2>1, <3>1
    <3> QED
      BY <1>2, <3>1, <3>2, DatedFields
  <2>3. i - k + 1 \in 1 .. m /\ p[i - k + 1] = h[i]
    <3>1. i - k + 1 \in 1 .. m /\ (i - k + 1) + k - 1 = i
      BY <1>1, <2>1, <2>2
    <3> QED
      BY <1>1, <3>1
  <2>4. ASSUME NEW j \in 1 .. m, j > i - k + 1 PROVE p[j].age < w.age
    <3>1. p[j] = h[j + k - 1] /\ j + k - 1 \in 1 .. n
      BY <1>1
    <3>2. j + k - 1 > i
      BY <1>1, <2>1, <2>4
    <3> QED
      BY <2>1, <3>1, <3>2
  <2> QED
    BY <1>1, <2>1, <2>3, <2>4
<1>5. Least(p[1].age, Window) = Least(h[1].age, Window)
  <2>1. p[1] = h[k] /\ h[k] \in Dated /\ h[1] \in Dated /\ k \in 1 .. n /\ 1 \in 1 .. n
    <3>1. 1 \in 1 .. m /\ 1 + k - 1 = k
      BY <1>1
    <3> QED
      BY <1>1, <3>1
  <2>2. CASE k = 1
    BY <2>1, <2>2
  <2>3. CASE k # 1
    <3>1. h[k].age >= Window /\ h[1].age >= h[k].age + Buckets(k - 1)
      BY <1>1, <2>1, <2>3 DEF Spaced
    <3>2. Buckets(k - 1) \in Nat
      <4>1. k - 1 \in Nat
        BY <1>1
      <4> QED
        BY <4>1, BucketNat
    <3>3. h[k].age \in Nat /\ h[1].age \in Nat
      BY <2>1, DatedFields
    <3>4. h[k].age >= Window /\ h[1].age >= Window
      BY ONLY <1>2, <3>1, <3>2, <3>3, SMTT(20)
    <3> QED
      BY ONLY <1>2, <2>1, <3>3, <3>4 DEF Least
  <2> QED
    BY <2>2, <2>3
<1> QED
  BY <1>3, <1>4, <1>5 DEF Covers
\* The state of the evidence.  The history reaches back to the first unbroken sample, or
\* the window's start; what is in it has been asked for by no more than the target.
Recorded ==
  /\ ~session => desired = 0 /\ history = <<>>
  /\ history = <<>> => since = None /\ window = {}
  /\ history # <<>> =>
       /\ since = Least(history[1].age, Window) /\ Len(history) <= MaxEntries
       /\ Spaced(history) /\ Covers(history, window)
       /\ window \subseteq Dated /\ \A w \in window : w.age <= Window
       /\ \A i \in 1 .. Len(history) : history[i].desired <= desired
       /\ estimate.ready = history_is_ready(history)

\* Entries are dated.
LEMMA EntriesDated ==
  ASSUME NEW base PROVE Entries(base) \subseteq Dated
<1>1. Within(base) \subseteq Int
  BY DEF Within
<1> QED
  BY <1>1 DEF Entries, Dated

\* The samples that stay in the window when this one arrives.
Remaining(s) ==
  {e \in {[w EXCEPT !.age = @ + s.after] : w \in window} : Unbroken(s) /\ e.age <= Window}

\* After a break nothing is kept, of the history or of the window.
LEMMA BrokenEvidence ==
  ASSUME Estimated, Recorded, NEW s \in Samples, ~Unbroken(s)
  PROVE  KeptOf(s) = <<>> /\ Remaining(s) = {}
<1>1. Remaining(s) = {}
  BY DEF Remaining
<1>2. CASE history = <<>>
  <2>1. [i \in DOMAIN history |-> [history[i] EXCEPT !.age = @ + s.after]] = <<>>
    <3>1. DOMAIN history = {}
      BY <1>2
    <3>2. [i \in DOMAIN history |-> [history[i] EXCEPT !.age = @ + s.after]]
            = [i \in {} |-> [history[i] EXCEPT !.age = @ + s.after]]
      BY <3>1
    <3> QED
      BY <3>2
  <2> QED
    BY <1>1, <2>1 DEF KeptOf, prepare_sample
<1>3. CASE history # <<>>
  <2>1. session
    BY <1>3 DEF Recorded
  <2>2. since # None
    <3>1. history \in Seq(Dated) /\ 1 \in 1 .. Len(history)
      BY <1>3, EntriesDated DEF Estimated
    <3>2. history[1].age \in Nat /\ Window \in Nat
      BY <3>1, DatedFields DEF validate
    <3> QED
      BY <1>3, <3>2 DEF Recorded, Least, None
  <2>3. s.after \in 0 .. MaxGap + 1 /\ MaxGap \in Nat
    BY DEF Samples, validate
  <2>4. CASE s.base # last_base
    <3>1. last_base # None
      BY <1>3 DEF Estimated, None
    <3> QED
      BY <1>1, <2>4, <3>1 DEF KeptOf, same_base
  <2>5. CASE s.base = last_base
    <3>1. s.after = 0 \/ gap_too_long(s.after)
      BY <2>2, <2>3, <2>5 DEF Unbroken, gap_too_long
    <3> QED
      BY <1>1, <2>1, <3>1 DEF KeptOf, prepare_sample
  <2> QED
    BY <2>4, <2>5
<1> QED
  BY <1>2, <1>3

\* Without a break the history grows older, and so do the samples.
LEMMA UnbrokenEvidence ==
  ASSUME Estimated, Recorded, NEW s \in Samples, Accepted(s), Unbroken(s)
  PROVE  LET k == KeptOf(s)
         IN /\ k \in Seq(Dated) /\ k # <<>> /\ Len(k) <= MaxEntries
            /\ Spaced(k) /\ Covers(k, Remaining(s))
            /\ Remaining(s) \subseteq Dated
            /\ \A w \in Remaining(s) : w.age > 0 /\ w.age <= Window
            /\ \A i \in 1 .. Len(k) : k[i].desired <= GrownOf(s)
            /\ Least(k[1].age, Window) = Least(since + s.after, Window)
<1> DEFINE k == KeptOf(s)
           d == s.after
<1>1. d \in Nat \ {0} /\ d <= MaxGap /\ s.base = last_base /\ Window \in Nat /\ MaxGap \in Nat
  BY DEF Unbroken, validate
<1>2. history # <<>> /\ session
  BY DEF Recorded, Unbroken
<1>3. history \in Seq(Entries(s.base)) /\ history \in Seq(Dated)
  BY <1>1, <1>2, EntriesDated DEF Estimated
<1>4. k = [i \in DOMAIN history |-> [history[i] EXCEPT !.age = @ + d]]
  BY <1>1, <1>2 DEF KeptOf, same_base, prepare_sample, gap_too_long
<1>5. k \in Seq(Dated)
  <2>1. k \in Seq(Entries(s.base))
    BY EstimateFacts
  <2> HIDE DEF k
  <2> QED
    BY <2>1, EntriesDated
<1>6. Len(k) = Len(history) /\ Len(history) \in Nat \ {0}
  <2>1. DOMAIN k = 1 .. Len(history) /\ DOMAIN history = 1 .. Len(history)
    BY <1>3, <1>4
  <2>2. DOMAIN k = 1 .. Len(k)
    <3> HIDE DEF k
    <3> QED
      BY <1>5
  <2>3. Len(k) \in Nat /\ Len(history) \in Nat /\ Len(history) # 0
    <3> HIDE DEF k
    <3> QED
      BY <1>2, <1>3, <1>5
  <2> HIDE DEF k
  <2> QED
    BY <2>1, <2>2, <2>3
<1>7. \A i \in 1 .. Len(history) : Aged(k[i], history[i], d)
  <2> SUFFICES ASSUME NEW i \in 1 .. Len(history) PROVE Aged(k[i], history[i], d)
    OBVIOUS
  <2>1. i \in DOMAIN history /\ history[i] \in Dated
    BY <1>3
  <2>2. k[i] = [history[i] EXCEPT !.age = @ + d]
    BY ONLY <1>4, <2>1
  <2> HIDE DEF k
  <2> QED
    BY <1>1, <2>1, <2>2, OlderDated
<1>8. /\ Remaining(s) \subseteq Dated
      /\ \A v \in Remaining(s) : \E w \in window : Aged(v, w, d)
      /\ \A v \in Remaining(s) : v.age > 0 /\ v.age <= Window
  <2> SUFFICES ASSUME NEW v \in Remaining(s)
               PROVE  /\ v \in Dated /\ v.age > 0 /\ v.age <= Window
                      /\ \E w \in window : Aged(v, w, d)
    OBVIOUS
  <2>1. PICK w \in window : v = [w EXCEPT !.age = @ + d]
    BY DEF Remaining
  <2>2. v.age <= Window
    BY DEF Remaining
  <2>3. w \in Dated
    BY <1>2 DEF Recorded
  <2>4. v \in Dated /\ Aged(v, w, d)
    BY <1>1, <2>1, <2>3, OlderDated
  <2>5. v.age > 0
    BY <1>1, <2>3, <2>4, DatedFields DEF Aged
  <2> QED
    BY <2>2, <2>4, <2>5
<1>9. \A i \in 1 .. Len(k) : k[i].desired <= GrownOf(s)
  <2> SUFFICES ASSUME NEW i \in 1 .. Len(history) PROVE k[i].desired <= GrownOf(s)
    BY <1>6
  <2> DEFINE most == ram_maximum(s.base)
             need == NeedOf(s).desired
             size == history[i].desired
             grown == GrownOf(s)
  <2>1. k[i].desired = size
    BY <1>7 DEF Aged
  <2>2. size <= desired
    BY <1>2 DEF Recorded
  <2>3. history[i] \in Entries(s.base)
    BY <1>3
  <2>4. size \in Within(s.base)
    BY <2>3 DEF Entries
  <2>5. Aligned(size) /\ size <= most /\ Aligned(most) /\ Aligned(need)
    BY <2>4, EstimateFacts
  <2>6. grown = Least(Greatest(desired, need), most)
    BY <1>2 DEF GrownOf, StartOf
  <2>7. Aligned(desired)
    BY DEF Estimated
  <2> HIDE DEF most, need, size, grown, k
  <2>8. size <= grown
    BY ONLY <2>2, <2>5, <2>6, <2>7 DEF Aligned, Least, Greatest
  <2> QED
    BY <2>1, <2>8 DEF grown
<1>10. Least(k[1].age, Window) = Least(since + d, Window)
  <2>1. 1 \in 1 .. Len(history) /\ history[1] \in Dated
    BY <1>3, <1>6
  <2>2. k[1].age = history[1].age + d /\ history[1].age \in Nat
    BY <1>7, <2>1, DatedFields DEF Aged
  <2>3. since = Least(history[1].age, Window)
    BY <1>2 DEF Recorded
  <2> HIDE DEF k, d
  <2> QED
    BY ONLY <1>1, <2>2, <2>3 DEF Least
<1>11. Spaced(history) /\ Covers(history, window) /\ Len(history) <= MaxEntries /\ window \subseteq Dated
  BY <1>2 DEF Recorded
<1>12. k # <<>>
  <2> HIDE DEF k
  <2> QED
    BY <1>6
<1> HIDE DEF k, d
<1>13. Spaced(k) /\ Covers(k, Remaining(s))
  BY <1>1, <1>3, <1>5, <1>6, <1>7, <1>8, <1>11, AgedEvidence
<1> QED
  BY <1>5, <1>6, <1>8, <1>9, <1>10, <1>11, <1>12, <1>13 DEF k, d

\* What the history is like once the sample is in, and old entries are out.
LEMMA SampledEvidence ==
  ASSUME Estimated, Recorded, NEW s \in Samples, Accepted(s), s.high
  PROVE  LET h == HistoryOf(s)
             samples == {NeedOf(s)} \cup Remaining(s)
         IN /\ h \in Seq(Dated) /\ h # <<>> /\ Len(h) <= MaxEntries
            /\ Spaced(h) /\ Covers(h, samples)
            /\ samples \subseteq Dated /\ \A w \in samples : w.age <= Window
            /\ \A i \in 1 .. Len(h) : h[i].desired <= GrownOf(s)
            /\ Least(h[1].age, Window) = IF Unbroken(s) THEN Least(since + s.after, Window) ELSE 0
<1> DEFINE k == KeptOf(s)
           need == NeedOf(s)
           rest == Remaining(s)
           samples == {need} \cup rest
           grown == GrownOf(s)
           age == IF Unbroken(s) THEN Least(since + s.after, Window) ELSE 0
           a == pushed(k, need)
           b == bounded(a)
           h == prune_history(b)
<1>1. need \in Dated /\ need.age = 0 /\ need.desired <= grown /\ grown \in Int
  <2>1. need \in Entries(s.base) /\ Aligned(grown) /\ need.desired <= grown
    BY EstimateFacts
  <2>2. need.age = 0
    BY DEF NeedOf
  <2> HIDE DEF need, grown
  <2> QED
    BY <2>1, <2>2, EntriesDated DEF Aligned
<1>2. Window \in Nat \ {0}
  BY DEF validate
<1>3. /\ k \in Seq(Dated) /\ Len(k) <= MaxEntries /\ Spaced(k) /\ Covers(k, rest)
      /\ rest \subseteq Dated /\ \A w \in rest : w.age > 0 /\ w.age <= Window
      /\ \A i \in 1 .. Len(k) : k[i].desired <= grown
      /\ Least(IF k = <<>> THEN 0 ELSE k[1].age, Window) = age
  <2>1. CASE Unbroken(s)
    BY <2>1, UnbrokenEvidence
  <2>2. CASE ~Unbroken(s)
    <3>1. k = <<>> /\ rest = {}
      BY <2>2, BrokenEvidence
    <3>2. age = 0
      BY <2>2
    <3> HIDE DEF k, rest, age, grown
    <3>3. <<>> \in Seq(Dated) /\ Len(<<>>) = 0
      OBVIOUS
    <3> QED
      BY <1>2, <3>1, <3>2, <3>3 DEF Spaced, Covers, Least
  <2> QED
    BY <2>1, <2>2
<1> HIDE DEF k, need, rest, grown, age
<1>4. /\ a \in Seq(Dated) /\ Len(a) \in 1 .. Len(k) + 1
      /\ Spaced(a) /\ Covers(a, samples)
      /\ \A i \in 1 .. Len(a) : a[i].desired <= grown
      /\ Least(a[1].age, Window) = age
  <2>1. /\ a \in Seq(Dated) /\ Len(a) \in 1 .. Len(k) + 1
        /\ Spaced(a) /\ Covers(a, samples)
        /\ \A i \in 1 .. Len(a) : a[i].desired <= grown
        /\ a[1].age = IF k = <<>> THEN 0 ELSE k[1].age
    BY <1>1, <1>3, PushedEvidence
  <2> HIDE DEF a, samples
  <2> QED
    BY <1>3, <2>1
<1>5. samples \subseteq Dated /\ \A w \in samples : w.age <= Window
  BY <1>1, <1>2, <1>3
<1> HIDE DEF a, samples
<1>6. /\ b \in Seq(Dated) /\ Len(b) \in 1 .. MaxEntries
      /\ Spaced(b) /\ Covers(b, samples)
      /\ \A i \in 1 .. Len(b) : b[i].desired <= grown
      /\ Least(b[1].age, Window) = age
  <2>1. CASE Len(a) > MaxEntries
    <3>1. /\ b = Tail(a) /\ Len(k) \in Nat /\ Len(a) = MaxEntries + 1 /\ MaxEntries \in Nat
          /\ MaxEntries > 2
      BY <1>3, <1>4, <2>1 DEF bounded
    <3>2. /\ b \in Seq(Dated) /\ Len(b) = Len(a) - 2 + 1
          /\ \A i \in 1 .. Len(b) : b[i] = a[i + 2 - 1]
      BY <1>4, <3>1
    <3>3. a[2].age >= Window
      <4>1. 2 \in 1 .. Len(a) /\ Len(a) \in 1 .. Len(a) /\ 2 < Len(a)
        BY <3>1
      <4>2. a[2].age >= a[Len(a)].age + Buckets(Len(a) - 2)
        BY <1>4, <4>1 DEF Spaced
      <4>3. Len(a) - 2 = MaxEntries - 1
        BY <3>1
      <4>4. Buckets(MaxEntries - 1) >= Window /\ Buckets(MaxEntries - 1) \in Int
        <5>1. MaxEntries - 1 \in Int
          BY <3>1
        <5> QED
          BY <5>1, BucketsSpan, BucketType DEF Buckets
      <4>5. a[2].age \in Nat /\ a[Len(a)].age \in Nat
        BY <1>4, <4>1, DatedFields
      <4>6. Buckets(Len(a) - 2) = Buckets(MaxEntries - 1)
        BY <4>3
      <4> QED
        BY ONLY <1>2, <4>2, <4>4, <4>5, <4>6
    <3>4. 2 \in 1 .. Len(a)
      BY <3>1
    <3> HIDE DEF b
    <3>5. Spaced(b) /\ Covers(b, samples) /\ Least(b[1].age, Window) = Least(a[1].age, Window)
      BY <1>4, <1>5, <3>2, <3>3, <3>4, DroppedEvidence, SMTT(30)
    <3>6. \A i \in 1 .. Len(b) : b[i].desired <= grown
      BY <1>4, <3>1, <3>2
    <3> QED
      BY <1>4, <3>1, <3>2, <3>5, <3>6
  <2>2. CASE ~(Len(a) > MaxEntries)
    <3>1. b = a /\ Len(a) \in 1 .. MaxEntries
      BY <1>3, <1>4, <2>2 DEF bounded
    <3> QED
      BY <1>4, <3>1
  <2> QED
    BY <2>1, <2>2
<1> HIDE DEF b
<1>7. /\ h \in Seq(Dated) /\ h # <<>> /\ Len(h) <= MaxEntries
      /\ Spaced(h) /\ Covers(h, samples)
      /\ \A i \in 1 .. Len(h) : h[i].desired <= grown
      /\ Least(h[1].age, Window) = age
  <2> DEFINE T == {1} \cup {i \in 1 .. Len(b) : b[i].age >= Window}
             first == Max(T)
  <2>1. h = SubSeq(b, first, Len(b))
    BY DEF prune_history
  <2>2. first \in T
    <3>1. T \subseteq 0 .. Len(b) /\ T # {} /\ Len(b) \in Nat
      BY <1>6
    <3> HIDE DEF T
    <3> QED
      BY <3>1, MaxOf
  <2>3. first \in 1 .. Len(b) /\ (first = 1 \/ b[first].age >= Window)
    BY <1>6, <2>2
  <2> HIDE DEF T, first
  <2>4. /\ h \in Seq(Dated) /\ Len(h) = Len(b) - first + 1
        /\ \A i \in 1 .. Len(h) : h[i] = b[i + first - 1]
    BY <1>6, <2>1, <2>3
  <2> HIDE DEF h
  <2>5. Spaced(h) /\ Covers(h, samples) /\ Least(h[1].age, Window) = Least(b[1].age, Window)
    BY <1>5, <1>6, <2>3, <2>4, DroppedEvidence, SMTT(30)
  <2>6. Len(h) >= 1 /\ Len(h) <= MaxEntries /\ Len(h) \in Nat
    BY <1>6, <2>3, <2>4
  <2>7. \A i \in 1 .. Len(h) : h[i].desired <= grown
    BY <1>6, <2>3, <2>4
  <2>8. h # <<>>
    BY <2>6
  <2> QED
    BY <1>6, <2>4, <2>5, <2>6, <2>7, <2>8
<1>8. HistoryOf(s) = h
  BY DEF HistoryOf, h, b, a, k, need
<1> HIDE DEF h
<1> QED
  BY <1>5, <1>7, <1>8 DEF samples, rest, need, grown, age

\* The largest entry covers every entry, and with them the window's samples.
LEMMA LargestOf ==
  ASSUME limits \in Limits, NEW base \in Nat, NEW h \in Seq(Entries(base)), h # <<>>,
         NEW i \in 1 .. Len(h)
  PROVE  LET highest == Max({h[j].desired : j \in DOMAIN h})
             lowest == Max({h[j].floor : j \in DOMAIN h})
         IN h[i].desired <= highest /\ h[i].floor <= lowest /\ highest \in Nat /\ lowest \in Nat
            /\ \E j \in 1 .. Len(h) : highest = h[j].desired
<1>1. Aligned(ram_minimum(base)) /\ Aligned(ram_maximum(base))
  BY RamLimits
<1>2. Within(base) \subseteq 0 .. ram_maximum(base) /\ ram_maximum(base) \in Nat
  BY <1>1 DEF Within, Aligned
<1>3. DOMAIN h = 1 .. Len(h) /\ \A j \in DOMAIN h : h[j] \in Entries(base)
  OBVIOUS
<1> DEFINE D == {h[j].desired : j \in DOMAIN h}
           F == {h[j].floor : j \in DOMAIN h}
<1>4. /\ D \subseteq Within(base) /\ h[i].desired \in D
      /\ F \subseteq Within(base) /\ h[i].floor \in F
  BY <1>3 DEF Entries
<1>5. \A v \in D : \E j \in 1 .. Len(h) : v = h[j].desired
  BY <1>3
<1> HIDE DEF D, F
<1>6. Max(D) \in D /\ \A y \in D : Max(D) >= y
  BY <1>2, <1>4, MaxOf
<1>7. Max(F) \in F /\ \A y \in F : Max(F) >= y
  BY <1>2, <1>4, MaxOf
<1>8. Max(D) \in Nat /\ Max(F) \in Nat /\ h[i].desired \in Nat /\ h[i].floor \in Nat
  BY <1>2, <1>4, <1>6, <1>7
<1> QED
  BY <1>4, <1>5, <1>6, <1>7, <1>8 DEF D, F

\* A target is not lowered, nor a floor put below what the guest has, without evidence.
Reclaimed ==
  estimate' # NoEstimate =>
    /\ desired' < desired => desired' = ram_maximum(last_base)' \/ Evidence(desired, safe_floor)'
    /\ safe_floor' < Least(estimate'.current, desired') => Evidence(desired, safe_floor)'

\* One estimate keeps the evidence, and reclaims by it.
LEMMA EvidenceStep ==
  ASSUME Estimated, Recorded, NEW s \in Samples, Estimate(s)
  PROVE  Recorded' /\ Reclaimed
<1> DEFINE h == HistoryOf(s)
           grown == GrownOf(s)
           ready == history_is_ready(h)
           highest == Max({h[i].desired : i \in DOMAIN h})
           lowest == Max({h[i].floor : i \in DOMAIN h})
           most == ram_maximum(s.base)
<1>1. /\ Accepted(s) /\ history' = h
      /\ desired' = IF ready /\ highest + Hysteresis <= grown THEN highest ELSE grown
      /\ safe_floor' = IF ready THEN Least(lowest, desired') ELSE Least(s.current, grown)
      /\ session' = TRUE /\ last_base' = s.base /\ limits' = limits
      /\ estimate'.current = s.current /\ estimate'.ready = ready
      /\ since' = IF ~s.high THEN None
                  ELSE IF Unbroken(s) THEN Least(since + s.after, Window) ELSE 0
      /\ window' = IF ~s.high THEN {} ELSE {NeedOf(s)} \cup Remaining(s)
  <2>1. estimate' = [desired_now |-> NeedOf(s).desired, current |-> s.current, ready |-> ready]
    BY EstimateParts
  <2>2. estimate'.current = s.current /\ estimate'.ready = ready
    <3> HIDE DEF ready
    <3> QED
      BY <2>1
  <2>3. window' = IF ~s.high THEN {} ELSE {NeedOf(s)} \cup Remaining(s)
    BY EstimateParts DEF Remaining
  <2>4. /\ Accepted(s) /\ history' = h
        /\ desired' = IF ready /\ highest + Hysteresis <= grown THEN highest ELSE grown
        /\ safe_floor' = IF ready THEN Least(lowest, desired') ELSE Least(s.current, grown)
        /\ session' = TRUE /\ last_base' = s.base /\ limits' = limits
        /\ since' = IF ~s.high THEN None
                    ELSE IF Unbroken(s) THEN Least(since + s.after, Window) ELSE 0
    BY EstimateParts
  <2> QED
    BY <2>2, <2>3, <2>4
<1>2. /\ limits \in Limits /\ s.base \in Bases /\ s.base \in Nat /\ Aligned(most)
      /\ Aligned(grown) /\ grown <= most /\ Aligned(s.current) /\ Aligned(StartOf(s))
      /\ Aligned(NeedOf(s).desired)
  BY <1>1, EstimateFacts
<1>3. Estimated'
  BY EstimateStep
<1>4. grown < desired => grown = most
  <2>1. grown = Least(Greatest(StartOf(s), NeedOf(s).desired), most)
    BY DEF GrownOf
  <2>2. session => StartOf(s) = desired
    BY DEF StartOf
  <2>3. ~session => desired = 0
    BY DEF Recorded
  <2>4. Aligned(desired)
    BY DEF Estimated
  <2> HIDE DEF grown, most
  <2> QED
    BY ONLY <1>2, <2>1, <2>2, <2>3, <2>4 DEF Aligned, Least, Greatest
<1>5. ram_maximum(last_base)' = most
  BY <1>1 DEF ram_maximum, saturating_sub, effective_maximum, align_down
<1>6. Window \in Nat \ {0} /\ Hysteresis \in Nat \ {0}
  BY DEF validate
<1>7. CASE ~s.high
  <2>1. h = <<>> /\ ~ready
    BY <1>7 DEF HistoryOf, history_is_ready
  <2>2. desired' = grown /\ safe_floor' = Least(s.current, grown)
    BY <1>1, <2>1
  <2>3. history' = <<>> /\ since' = None /\ window' = {}
    BY <1>1, <1>7, <2>1
  <2>4. Recorded'
    BY <1>1, <2>3 DEF Recorded
  <2> HIDE DEF most, grown
  <2>5. ~(safe_floor' < Least(estimate'.current, desired'))
    BY <1>1, <1>2, <2>2 DEF Aligned, Least
  <2> QED
    BY <1>4, <1>5, <2>2, <2>4, <2>5 DEF Reclaimed
<1>8. CASE s.high
  <2> DEFINE samples == {NeedOf(s)} \cup Remaining(s)
  <2>1. /\ h \in Seq(Dated) /\ h # <<>> /\ Len(h) <= MaxEntries
        /\ Spaced(h) /\ Covers(h, samples)
        /\ samples \subseteq Dated /\ \A w \in samples : w.age <= Window
        /\ \A i \in 1 .. Len(h) : h[i].desired <= grown
        /\ Least(h[1].age, Window) = IF Unbroken(s) THEN Least(since + s.after, Window) ELSE 0
    BY <1>1, <1>8, SampledEvidence
  <2>2. since' = Least(h[1].age, Window) /\ window' = samples
    BY <1>1, <1>8, <2>1
  <2>3. h \in Seq(Entries(s.base))
    <3>1. Entries(last_base)' = Entries(s.base)
      BY <1>1 DEF Entries, Within, ram_minimum, ram_maximum
    <3> QED
      BY <1>1, <1>3, <2>1, <3>1 DEF Estimated
  <2> HIDE DEF h, samples
  <2>4. \A i \in 1 .. Len(h) : /\ h[i].desired <= highest /\ h[i].floor <= lowest
                               /\ highest \in Nat /\ lowest \in Nat
    BY <1>2, <2>1, <2>3, LargestOf
  <2>5. highest \in Nat /\ lowest \in Nat /\ highest <= grown /\ 1 \in 1 .. Len(h)
    <3>1. 1 \in 1 .. Len(h)
      BY <2>1
    <3>2. \E j \in 1 .. Len(h) : highest = h[j].desired
      BY <1>2, <2>1, <2>3, <3>1, LargestOf
    <3> QED
      BY <2>1, <2>4, <3>1, <3>2
  <2> HIDE DEF ready, highest, lowest, most, grown
  <2>6. desired' \in Nat /\ highest <= desired' /\ desired' <= grown
    BY <1>1, <1>2, <1>6, <2>5 DEF Aligned
  <2>7. ready => since' = Window
    <3>1. h[1].age \in Nat
      BY <2>1, <2>5, DatedFields
    <3> QED
      BY <1>6, <2>2, <3>1 DEF ready, history_is_ready, Least
  <2>8. ASSUME ready PROVE Evidence(desired, safe_floor)'
    <3>1. safe_floor' = Least(lowest, desired')
      BY <1>1, <2>8
    <3>2. ASSUME NEW e \in samples
          PROVE  e.desired <= desired' /\ Least(e.floor, desired') <= safe_floor'
      <4>1. PICK i \in 1 .. Len(h) : e.desired <= h[i].desired /\ e.floor <= h[i].floor
        BY <2>1 DEF Covers
      <4>2. h[i].desired <= highest /\ h[i].floor <= lowest
        BY <2>4
      <4>3. /\ e.desired \in Int /\ e.floor \in Int
            /\ h[i].desired \in Int /\ h[i].floor \in Int
        BY <2>1, DatedFields
      <4>4. e.desired <= desired' /\ e.floor <= lowest
        BY ONLY <2>5, <2>6, <4>1, <4>2, <4>3
      <4> QED
        BY ONLY <2>5, <2>6, <3>1, <4>3, <4>4 DEF Least
    <3> QED
      BY <2>2, <2>7, <2>8, <3>2 DEF Evidence
  <2>9. ASSUME ~ready
        PROVE  desired' = grown /\ ~(safe_floor' < Least(estimate'.current, desired'))
    <3>1. desired' = grown /\ safe_floor' = Least(s.current, grown)
      BY <1>1, <2>9
    <3> QED
      BY <1>1, <1>2, <3>1 DEF Aligned, Least
  <2>10. Reclaimed
    <3>1. CASE ready
      BY <2>8, <3>1 DEF Reclaimed
    <3>2. CASE ~ready
      BY <1>4, <1>5, <2>9, <3>2 DEF Reclaimed
    <3> QED
      BY <3>1, <3>2
  <2>11. \A i \in 1 .. Len(h) : h[i].desired <= desired'
    <3> SUFFICES ASSUME NEW i \in 1 .. Len(h) PROVE h[i].desired <= desired'
      OBVIOUS
    <3>1. h[i].desired \in Int /\ h[i].desired <= highest
      BY <2>1, <2>4, DatedFields
    <3> QED
      BY <2>5, <2>6, <3>1
  <2>12. Recorded'
    BY <1>1, <2>1, <2>2, <2>11 DEF Recorded, ready, history_is_ready, Spaced, Covers, Buckets, bucket
  <2> QED
    BY <2>10, <2>12
<1> QED
  BY <1>7, <1>8

\* The history is evidence for what is reclaimed, always.
LEMMA RecordedStep ==
  ASSUME Estimated, Recorded, [EstimatorNext]_estimatorVars
  PROVE  Recorded' /\ [Reclaimed]_estimatorVars
<1>1. CASE InvalidateHistory \/ EstimateFails
  <2>1. /\ history' = <<>> /\ since' = None /\ window' = {} /\ estimate' = NoEstimate
        /\ session' = session /\ desired' = desired
    BY <1>1 DEF InvalidateHistory, EstimateFails, Invalidated
  <2> QED
    BY <2>1 DEF Recorded, Reclaimed
<1>2. CASE Restart
  BY <1>2 DEF Restart, Recorded, Reclaimed
<1>3. CASE \E s \in Samples : Estimate(s)
  BY <1>3, EvidenceStep
<1>4. CASE UNCHANGED estimatorVars
  BY <1>4 DEF estimatorVars, Recorded, Spaced, Covers, Buckets, bucket, history_is_ready
<1> QED
  BY <1>1, <1>2, <1>3, <1>4 DEF EstimatorNext

\* A full, unbroken window of samples makes the estimator ready, however they were put
\* together; without one it neither lowers its target, but for the administrator's limit,
\* nor puts the floor below what the guest has (TargetEstimator::estimate, prune_history).
THEOREM ReclaimsOnEvidence ==
  EstimatorInit /\ [][EstimatorNext]_estimatorVars => ReclaimOnEvidence
<1>1. EstimatorInit => Recorded
  BY DEF EstimatorInit, Recorded
<1>2. Estimated /\ Recorded => (since = Window => estimate.ready)
  <2> SUFFICES ASSUME Estimated, Recorded, since = Window PROVE estimate.ready
    OBVIOUS
  <2>1. Window \in Nat \ {0}
    BY DEF validate
  <2>2. history # <<>>
    BY <2>1 DEF Recorded, None
  <2>3. history \in Seq(Dated) /\ 1 \in 1 .. Len(history)
    BY <2>2, EntriesDated DEF Estimated
  <2>4. history[1].age \in Nat /\ since = Least(history[1].age, Window)
    BY <2>2, <2>3, DatedFields DEF Recorded
  <2> QED
    <3>1. history[1].age >= Window
      BY ONLY <2>1, <2>4, since = Window DEF Least
    <3>2. history_is_ready(history)
      BY <2>2, <3>1 DEF history_is_ready
    <3>3. estimate.ready = history_is_ready(history)
      BY <2>2 DEF Recorded
    <3> QED
      BY <3>2, <3>3, Zenon
<1>3. Estimated /\ Recorded /\ [EstimatorNext]_estimatorVars => Recorded' /\ [Reclaimed]_estimatorVars
  BY RecordedStep
<1> QED
  BY EstimatedInit, EstimatedStep, <1>1, <1>2, <1>3, PTL DEF ReclaimOnEvidence, Reclaimed

-----------------------------------------------------------------------------
\* The service and its estimator together: each takes the steps its own module allows.
THEOREM GuestPartsWithin ==
  GuestSpec => Spec /\ EstimatorInit /\ [][EstimatorNext]_estimatorVars
<1>1. GuestInit => Init /\ EstimatorInit
  BY DEF GuestInit
<1>2. [GuestNext]_guestVars => [Next]_vars /\ [EstimatorNext]_estimatorVars
  BY DEF GuestNext, guestVars
<1> QED
  BY <1>1, <1>2, PTL DEF GuestSpec, Spec
=============================================================================
