------------------------ MODULE VmControllerProofs ------------------------
(***************************************************************************)
(* Proofs, for every size of the device and every set of faults, that the  *)
(* checkpoint of VmController always owns what it admitted, that a request *)
(* is executed at most once, that a command is durable before it is sent   *)
(* and that a final result stays final.                                    *)
(***************************************************************************)
EXTENDS VmController, TLAPS

USE ConstantsAssumption, NoneAssumption

-----------------------------------------------------------------------------
\* What the operators on the control state return

\* The movement credited to a request fits the device.
LEMMA MovedType ==
  ASSUME NEW r \in Requests, NEW from \in Blocks, NEW to \in Blocks
  PROVE  Moved(r, from, to) \in Blocks
  BY DEF Moved, least, saturating_sub, Requests, Blocks

\* record_result changes nothing but the result, which is then present.
LEMMA RecordFacts ==
  ASSUME NEW c \in Controls, NEW o \in Outcomes, NEW n \in Blocks
  PROVE  LET d == record_result(c, o, n)
         IN /\ d \in Controls
            /\ d.request = c.request /\ d.intent = c.intent
            /\ d.latched = c.latched
            /\ d.result = [outcome |-> o, actual |-> n]
            /\ d.result # None
            /\ o # "Uncertain" => Terminal(d.result)
  BY DEF record_result, Controls, Results, Terminal

\* movement_result gives the request a final result and keeps the rest.
LEMMA MovementFacts ==
  ASSUME NEW c \in Controls, NEW live \in States,
         c.request # None, c.intent # None
  PROVE  LET d == movement_result(c, live)
         IN /\ d \in Controls
            /\ d.request = c.request /\ d.intent = c.intent
            /\ d.latched = c.latched
            /\ Terminal(d.result)
<1>1. c.request \in Requests /\ c.intent \in Intents
  BY DEF Controls
<1>2. c.intent.prior_current \in Blocks /\ live.current \in Blocks
  BY <1>1 DEF Intents, States
<1> DEFINE m == Moved(c.request, c.intent.prior_current, live.current)
           o == IF m = c.request.bytes THEN "Completed" ELSE "Partial"
<1>3. m \in Blocks
  BY <1>1, <1>2, MovedType
<1>4. o \in Outcomes /\ o # "Uncertain"
  BY DEF Outcomes
<1>5. movement_result(c, live) = record_result(c, o, m)
  BY DEF movement_result
<1> HIDE DEF m, o
<1>6. LET d == record_result(c, o, m)
      IN /\ d \in Controls
         /\ d.request = c.request /\ d.intent = c.intent
         /\ d.latched = c.latched
         /\ o # "Uncertain" => Terminal(d.result)
  BY <1>3, <1>4 DEF record_result, Controls, Results, Terminal
<1> QED
  BY <1>4, <1>5, <1>6

\* latch keeps the request, the command and any result, and leaves no admitted
\* request without a result.
LEMMA LatchFacts ==
  ASSUME NEW c \in Controls
  PROVE  /\ latch(c) \in Controls
         /\ latch(c).latched
         /\ latch(c).request = c.request /\ latch(c).intent = c.intent
         /\ c.result # None => latch(c).result = c.result
         /\ OwnedIn(c) => OwnedIn(latch(c))
         /\ Terminal(c.result) => latch(c).result = c.result
<1> DEFINE u == [outcome |-> "Uncertain", actual |-> 0]
<1>1. u \in Results /\ u # None /\ ~Terminal(u)
  BY DEF Results, Outcomes, Blocks, Terminal
<1>2. CASE c.latched
  BY <1>2 DEF latch, Terminal
<1>3. CASE ~c.latched
  <2> DEFINE r == IF c.request # None /\ c.result = None THEN u ELSE c.result
  <2>1. latch(c) = [c EXCEPT !.latched = TRUE, !.result = r]
    BY <1>3 DEF latch
  <2>2. r \in Results \cup {None}
    BY <1>1 DEF Controls
  <2>3. /\ latch(c) \in Controls /\ latch(c).latched /\ latch(c).result = r
        /\ latch(c).request = c.request /\ latch(c).intent = c.intent
    BY <2>1, <2>2 DEF Controls
  <2>4. c.result # None => r = c.result
    OBVIOUS
  <2>5. Terminal(c.result) => r = c.result
    BY DEF Terminal
  <2>6. OwnedIn(c) => OwnedIn(latch(c))
    BY <1>1, <2>3 DEF OwnedIn
  <2> QED
    BY <2>3, <2>4, <2>5, <2>6
<1> QED
  BY <1>2, <1>3

\* resolve_intent ends a converged command with a final result, or latches.
LEMMA ResolveFacts ==
  ASSUME NEW c \in Controls, NEW live \in States, OwnedIn(c)
  PROVE  LET d == resolve_intent(c, live)
         IN /\ d \in Controls
            /\ OwnedIn(d)
            /\ d.request = c.request
            /\ Terminal(c.result) => d.result = c.result
            /\ live.requested = live.current /\ d.intent # None => d.latched
<1> DEFINE own == command_ownership(c.intent, live)
<1>1. CASE own = "OwnedConvergedUnresolved"
  <2>1. c.intent # None
    BY <1>1 DEF command_ownership
  <2>2. c.request # None /\ ~Terminal(c.result)
    BY <2>1 DEF OwnedIn
  <2> DEFINE m == movement_result(c, live)
  <2>3. /\ m \in Controls /\ m.request = c.request /\ Terminal(m.result)
    BY <2>1, <2>2, MovementFacts
  <2>4. resolve_intent(c, live) = [m EXCEPT !.intent = None]
    BY <1>1, <2>2 DEF resolve_intent
  <2> HIDE DEF m
  <2>5. LET d == [m EXCEPT !.intent = None]
        IN /\ d \in Controls /\ d.intent = None /\ d.request = m.request
           /\ d.result = m.result
    BY <2>3 DEF Controls
  <2>6. m.result # None
    BY <2>3 DEF Terminal
  <2> QED
    BY <2>2, <2>3, <2>4, <2>5, <2>6 DEF OwnedIn
<1>2. CASE own \in {"RecordedNotApplied", "Conflict"}
  <2>1. resolve_intent(c, live) = latch(c)
    BY <1>2 DEF resolve_intent
  <2> QED
    BY <2>1, LatchFacts
<1>3. CASE own \notin {"OwnedConvergedUnresolved", "RecordedNotApplied", "Conflict"}
  <2>1. resolve_intent(c, live) = c
    BY <1>3 DEF resolve_intent
  <2>2. live.requested = live.current => c.intent = None
    BY <1>3 DEF command_ownership
  <2> QED
    BY <2>1, <2>2
<1> QED
  BY <1>1, <1>2, <1>3

\* clear_actuation_latch leaves a final result and no command.
LEMMA ClearFacts ==
  ASSUME NEW c \in Controls, NEW live \in States, OwnedIn(c)
  PROVE  LET d == clear_actuation_latch(c, live)
         IN /\ d \in Controls
            /\ OwnedIn(d)
            /\ d.request = c.request
            /\ Terminal(c.result) => d.result = c.result
<1> DEFINE unresolved == c.request # None /\ ~Terminal(c.result)
           r == IF ~unresolved THEN c
                ELSE IF c.intent # None THEN movement_result(c, live)
                ELSE record_result(c, "Rejected", 0)
<1>1. /\ r \in Controls /\ r.request = c.request
      /\ Terminal(c.result) => r.result = c.result
      /\ r.request # None => Terminal(r.result)
  <2>1. CASE ~unresolved
    BY <2>1
  <2>2. CASE unresolved /\ c.intent # None
    BY <2>2, MovementFacts
  <2>3. CASE unresolved /\ c.intent = None
    <3>1. "Rejected" \in Outcomes /\ 0 \in Blocks
      BY DEF Outcomes, Blocks
    <3> QED
      BY <2>3, <3>1, RecordFacts
  <2> QED
    BY <2>1, <2>2, <2>3
<1>2. clear_actuation_latch(c, live) = [r EXCEPT !.latched = FALSE, !.intent = None]
  BY DEF clear_actuation_latch
<1> HIDE DEF r, unresolved
<1>3. LET d == [r EXCEPT !.latched = FALSE, !.intent = None]
      IN /\ d \in Controls /\ d.intent = None /\ d.request = r.request
         /\ d.result = r.result
  BY <1>1 DEF Controls
<1> QED
  BY <1>1, <1>2, <1>3 DEF OwnedIn, Terminal

\* Whatever publish writes is a report or leaves the file alone.
LEMMA ReportType ==
  ASSUME NEW c \in Controls
  PROVE  JournalReport(c) \in Reports \cup {None}
  BY DEF JournalReport, Controls, Reports, Results

\* After publish the status file holds a report or nothing.
LEMMA PublishType ==
  ASSUME NEW r \in Reports \cup {None}, status \in Reports \cup {None}, publish(r)
  PROVE  status' \in Reports \cup {None}
  BY DEF publish

-----------------------------------------------------------------------------
\* The inductive invariant

\* The invariant without the types.
Core ==
  /\ UnresolvedOwned /\ Synced /\ Settled /\ AtAct /\ InCommand
  /\ Watermark /\ NeverTwice

coreVars == <<control, saved, pc, ready, cmd, executed>>

\* A step that leaves the checkpoint, the poll's place and the history alone
\* cannot disturb it.
LEMMA CoreUnchanged ==
  ASSUME Core, UNCHANGED coreVars
  PROVE  Core'
  BY DEF Core, coreVars, UnresolvedOwned, Synced, Settled, AtAct, InCommand,
         Watermark, NeverTwice

\* A poll may end once the new control state is saved and owned.
LEMMA CoreReturn ==
  ASSUME pc' \in {"poll", "pending", "down", "stopped", "cli"},
         control' = saved', OwnedIn(control'), Watermark'
  PROVE  Core'
  BY DEF Core, UnresolvedOwned, Synced, Settled, AtAct, InCommand, NeverTwice

\* The watermark survives a step that executes nothing and keeps the request.
LEMMA WatermarkKept ==
  ASSUME Watermark, executed' = executed, control'.request = control.request
  PROVE  Watermark'
  BY DEF Watermark

\* Initially nothing is recorded and nothing runs.
LEMMA InitInvariant == Init => IInv
<1> SUFFICES ASSUME Init PROVE IInv
  OBVIOUS
<1>b. /\ paused \in BOOLEAN /\ widen_due \in BOOLEAN /\ widened \in BOOLEAN
      /\ elapsed \in BOOLEAN /\ low \in BOOLEAN
  BY Zenon DEF Init
<1>c. control \in Controls
  BY DEF Init, Controls
<1>1. TypeOK
  BY <1>b, <1>c DEF Init, TypeOK, Blocks, States, Commands, Pcs, Unread,
         NoCommand, Totals
<1>2. UnresolvedOwned /\ Synced /\ Settled /\ AtAct /\ InCommand /\ Watermark
      /\ NeverTwice
  BY DEF Init, UnresolvedOwned, OwnedIn, Synced, Settled, AtAct, InCommand,
         Watermark, NeverTwice
<1> QED
  BY <1>1, <1>2 DEF IInv

\* The process and the operator.
LEMMA ProcessStep ==
  ASSUME TypeOK, Core, Start \/ Crash \/ Operator
  PROVE  TypeOK' /\ Core'
<1> USE DEF deviceVars, controlVars, frameVars, localVars, guestVars, historyVars
<1>0. control = saved /\ OwnedIn(control) /\ Watermark
  BY DEF Core, Synced, UnresolvedOwned
<1>1. CASE Start
  <2>1. TypeOK'
    BY <1>1 DEF Start, Return, TypeOK, Pcs, States, Commands, Unread, NoCommand,
                Blocks
  <2>2. control' = control /\ saved' = saved /\ executed' = executed /\ pc' = "poll"
    BY <1>0, <1>1 DEF Start, Return
  <2> QED
    BY <1>0, <2>1, <2>2, CoreReturn, WatermarkKept
<1>2. CASE Crash
  <2>b. widen_due' \in BOOLEAN /\ widened' \in BOOLEAN
    BY <1>2, Zenon DEF Crash, Forget
  <2>1. TypeOK'
    BY <1>2, <2>b DEF Crash, Forget, Return, TypeOK, Pcs, States, Commands, Unread,
                NoCommand, Blocks
  <2>2. control' = control /\ saved' = saved /\ executed' = executed /\ pc' = "down"
    BY <1>2 DEF Crash, Return
  <2> QED
    BY <1>0, <2>1, <2>2, CoreReturn, WatermarkKept
<1>3. CASE CliSettle
  <2>1. TypeOK'
    BY <1>3 DEF CliSettle, TypeOK, Pcs, States, Live
  <2>2. control' = control /\ saved' = saved /\ executed' = executed /\ pc' = "cli"
    BY <1>3 DEF CliSettle
  <2> QED
    BY <1>0, <2>1, <2>2, CoreReturn, WatermarkKept
<1>4. CASE CliRetarget
  <2>1. TypeOK'
    BY <1>4 DEF CliRetarget, Return, TypeOK, Pcs, States, Commands, Unread,
                NoCommand, Blocks
  <2>2. control' = control /\ saved' = saved /\ executed' = executed /\ pc' = "down"
    BY <1>4 DEF CliRetarget, Return
  <2> QED
    BY <1>0, <2>1, <2>2, CoreReturn, WatermarkKept
<1>5. CASE ClearLatch
  <2>1. saved \in Controls /\ Live \in States
    BY DEF TypeOK, Live, States
  <2>2. /\ control' = clear_actuation_latch(saved, Live)
        /\ saved' = control' /\ executed' = executed /\ pc' = "down"
    BY <1>5 DEF ClearLatch, save
  <2>3. control' \in Controls /\ OwnedIn(control')
        /\ control'.request = control.request
    BY <1>0, <2>1, <2>2, ClearFacts
  <2>4. TypeOK'
    BY <1>5, <2>2, <2>3 DEF ClearLatch, TypeOK
  <2> QED
    BY <1>0, <2>2, <2>3, <2>4, CoreReturn, WatermarkKept
<1>6. CASE OperatorResume \/ ExternalResize
  <2>1. TypeOK'
    BY <1>6 DEF OperatorResume, ExternalResize, TypeOK
  <2>2. UNCHANGED coreVars
    BY <1>6 DEF OperatorResume, ExternalResize, coreVars
  <2> QED
    BY <2>1, <2>2, CoreUnchanged
<1> QED
  BY <1>1, <1>2, <1>3, <1>4, <1>5, <1>6 DEF Operator

\* The guest, libvirt and time.
LEMMA WorldStep ==
  ASSUME TypeOK, Core, World
  PROVE  TypeOK' /\ Core'
<1> USE DEF deviceVars, controlVars, frameVars, localVars, guestVars, historyVars
<1>1. TypeOK'
  <2>1. CASE GuestPlug
    BY <2>1 DEF GuestPlug, Telemetry, TypeOK, Blocks, Totals
  <2>2. CASE GuestUnplug
    BY <2>2 DEF GuestUnplug, Telemetry, TypeOK, Blocks, Totals
  <2>3. CASE DeviceReset
    BY <2>3 DEF DeviceReset, Telemetry, TypeOK, Blocks, Totals
  <2>4. CASE GuestPublish
    BY <2>4 DEF GuestPublish, TypeOK, Blocks, Totals
  <2>5. CASE LateApply
    BY <2>5 DEF LateApply, TypeOK
  <2>6. CASE StallTick
    BY <2>6 DEF StallTick, TypeOK
  <2>7. CASE Deadline
    BY <2>7 DEF Deadline, TypeOK
  <2> QED
    BY <2>1, <2>2, <2>3, <2>4, <2>5, <2>6, <2>7 DEF World
<1>2. UNCHANGED coreVars
  BY DEF World, GuestPlug, GuestUnplug, DeviceReset, GuestPublish, LateApply,
         StallTick, Deadline, coreVars
<1> QED
  BY <1>1, <1>2, CoreUnchanged

\* A poll may find the device converged once no command is left alive.
LEMMA CoreConverged ==
  ASSUME pc' = "converged", control' = saved', OwnedIn(control'), Watermark',
         control'.intent # None => control'.latched
  PROVE  Core'
  BY DEF Core, UnresolvedOwned, Synced, Settled, AtAct, InCommand, NeverTwice

\* A command may be sent once it is recorded, unlatched and, for a resize, new.
LEMMA CoreCommand ==
  ASSUME pc' = "check", control' = saved', OwnedIn(control'), Watermark',
         cmd'.kind \in {"resize", "settle", "extend"},
         ~control'.latched, control'.intent # None,
         control'.intent.target = cmd'.target,
         cmd'.kind = "resize" => control'.request.id \notin executed'
  PROVE  Core'
  BY DEF Core, UnresolvedOwned, Synced, Settled, AtAct, InCommand, NeverTwice

\* observe: the live read.
LEMMA ObserveStep ==
  ASSUME TypeOK, Core, ObserveUnreadable \/ ObserveLive
  PROVE  TypeOK' /\ Core'
<1> USE DEF deviceVars, controlVars, frameVars, localVars, guestVars, historyVars
<1>0. control = saved /\ OwnedIn(control) /\ Watermark /\ control \in Controls
  BY DEF Core, Synced, UnresolvedOwned, TypeOK
<1>1. CASE ObserveUnreadable
  <2> DEFINE c == IF control.intent # None THEN latch(control) ELSE control
  <2>1. c \in Controls /\ OwnedIn(c) /\ c.request = control.request
    BY <1>0, LatchFacts
  <2>2. control' = c /\ saved' = c /\ executed' = executed /\ pc' = "poll"
    BY <1>1 DEF ObserveUnreadable, save
  <2> HIDE DEF c
  <2>3. TypeOK'
    BY <1>1, <2>1, <2>2 DEF ObserveUnreadable, TypeOK
  <2> QED
    BY <1>0, <2>1, <2>2, <2>3, CoreReturn, WatermarkKept
<1>2. CASE ObserveLive
  <2> DEFINE d == resolve_intent(control, Live)
  <2>1. Live \in States
    BY DEF TypeOK, Live, States
  <2>2. /\ d \in Controls /\ OwnedIn(d) /\ d.request = control.request
        /\ requested = current /\ d.intent # None => d.latched
    BY <1>0, <2>1, ResolveFacts DEF Live
  <2>3. /\ control' = d /\ saved' = d /\ executed' = executed
        /\ pc' = IF requested = current THEN "converged" ELSE "pending"
    BY <1>2 DEF ObserveLive, save
  <2>b. widen_due' \in BOOLEAN /\ widened' \in BOOLEAN
    BY <1>2, Zenon DEF ObserveLive
  <2> HIDE DEF d
  <2>4. TypeOK'
    BY <1>2, <2>1, <2>2, <2>3, <2>b DEF ObserveLive, TypeOK, Pcs
  <2>5. Watermark'
    BY <1>0, <2>2, <2>3, WatermarkKept
  <2>6. CASE requested = current
    BY <2>2, <2>3, <2>4, <2>5, <2>6, CoreConverged
  <2>7. CASE requested # current
    BY <2>2, <2>3, <2>4, <2>5, <2>7, CoreReturn
  <2> QED
    BY <2>6, <2>7
<1> QED
  BY <1>1, <1>2

\* settle_short records a settlement of the owned command.
LEMMA SettleShortStep ==
  ASSUME TypeOK, Core, Owned, CanSettle, settle_short
  PROVE  TypeOK' /\ Core'
<1> USE DEF deviceVars, controlVars, frameVars, localVars, guestVars, historyVars
<1>0. control = saved /\ OwnedIn(control) /\ Watermark /\ control \in Controls
  BY DEF Core, Synced, UnresolvedOwned, TypeOK
<1>1. control.intent \in Intents /\ seen \in States /\ ~control.latched
  BY <1>0 DEF Owned, CanSettle, Controls, TypeOK
<1> DEFINE i == SettleIntent(control.intent)
<1>2. i \in Intents /\ i.target = seen.current /\ i # None
  BY <1>1 DEF SettleIntent, SettleDirection, Intents, States, Directions
<1>3. /\ control' = [control EXCEPT !.intent = i] /\ saved' = control'
      /\ executed' = executed /\ pc' = "check"
      /\ cmd' = [kind |-> "settle", target |-> seen.current, failed |-> FALSE]
  BY DEF settle_short, save, Command
<1> HIDE DEF i
<1>4. /\ control' \in Controls /\ control'.intent = i
      /\ control'.request = control.request /\ control'.result = control.result
      /\ control'.latched = control.latched
  BY <1>0, <1>2, <1>3 DEF Controls
<1>5. cmd' \in Commands /\ cmd'.kind = "settle" /\ cmd'.target = seen.current
  BY <1>1, <1>3 DEF Commands, States
<1>b. elapsed' \in BOOLEAN
  BY Zenon DEF settle_short
<1>6. TypeOK'
  BY <1>3, <1>4, <1>5, <1>b DEF settle_short, TypeOK, Pcs
<1>7. OwnedIn(control')
  BY <1>0, <1>1, <1>2, <1>4 DEF OwnedIn, Owned
<1>8. Watermark'
  BY <1>0, <1>3, <1>4, WatermarkKept
<1> QED
  BY <1>1, <1>2, <1>3, <1>4, <1>5, <1>6, <1>7, <1>8, CoreCommand

\* A poll that only publishes its journal.
LEMMA HoldStep ==
  ASSUME TypeOK, Core, PendingHold \/ PendingWatch \/ HoldFloorShrink
  PROVE  TypeOK' /\ Core'
<1> USE DEF deviceVars, controlVars, frameVars, localVars, guestVars, historyVars
<1>0. control = saved /\ OwnedIn(control) /\ Watermark /\ control \in Controls
  BY DEF Core, Synced, UnresolvedOwned, TypeOK
<1>1. control' = control /\ saved' = saved /\ executed' = executed /\ pc' = "poll"
  BY DEF PendingHold, PendingWatch, HoldFloorShrink, Return
<1>2. status' \in Reports \cup {None}
  <2>1. publish(JournalReport(control))
    BY DEF PendingHold, PendingWatch, HoldFloorShrink
  <2> QED
    BY <1>0, <2>1, ReportType, PublishType DEF TypeOK
<1>3. seen.current \in Blocks
  BY DEF TypeOK, States
<1>4. TypeOK'
  <2>1. CASE PendingHold
    BY <1>1, <1>2, <2>1 DEF PendingHold, Return, TypeOK, Pcs, States, Commands,
       Unread, NoCommand, Blocks
  <2>2. CASE PendingWatch
    <3>1. progress' \in [at : Blocks, age : 0 .. 2] \cup {None}
      BY <1>3, <2>2 DEF PendingWatch, TypeOK, Watch
    <3> QED
      BY <1>1, <1>2, <2>2, <3>1 DEF PendingWatch, Return, TypeOK, Pcs, States,
         Commands, Unread, NoCommand, Blocks
  <2>3. CASE HoldFloorShrink
    BY <1>1, <1>2, <2>3 DEF HoldFloorShrink, Return, TypeOK, Pcs, States, Commands,
       Unread, NoCommand, Blocks
  <2> QED
    BY <2>1, <2>2, <2>3
<1> QED
  BY <1>0, <1>1, <1>4, CoreReturn, WatermarkKept

\* extend_shrink's step and target stay within the device.
LEMMA ExtensionType ==
  ASSUME TypeOK, Owned, total >= seen.current, seen.current > Goal, CanExtend
  PROVE  ExtensionStep \in 1 .. DeviceBlocks /\ ExtensionTarget \in Blocks
<1>1. /\ seen.current \in Blocks /\ seen.requested \in Blocks
      /\ total \in Nat
      /\ control.intent \in Intents
  BY DEF TypeOK, States, Totals, Owned, Controls
<1>2. SeenBase \in Nat
  BY <1>1 DEF SeenBase, Blocks
<1>3. Floor \in Nat
  BY <1>2 DEF Floor, saturating_sub
<1>4. Asked \in Nat
  BY DEF Asked, TypeOK, Controls, Requests
<1>5. Goal \in Nat
  BY <1>1, <1>3, <1>4 DEF Goal, greatest, saturating_sub, Intents, Blocks
<1>6. extension # None => extension.step \in 1 .. DeviceBlocks
  BY DEF TypeOK
<1> HIDE DEF Goal, Floor
<1>7. ExtensionStep \in 1 .. DeviceBlocks
  BY <1>1, <1>5, <1>6 DEF ExtensionStep, least, Blocks
<1> HIDE DEF ExtensionStep
<1>8. ExtensionTarget \in Blocks
  BY <1>1, <1>3, <1>7 DEF ExtensionTarget, CanExtend, greatest, saturating_sub, Blocks
<1> QED
  BY <1>7, <1>8

\* extend_shrink lowers the recorded target before it sends it.
LEMMA ExtendStep ==
  ASSUME TypeOK, Core, ExtendShrink
  PROVE  TypeOK' /\ Core'
<1> USE DEF deviceVars, controlVars, frameVars, localVars, guestVars, historyVars
<1>0. control = saved /\ OwnedIn(control) /\ Watermark /\ control \in Controls
  BY DEF Core, Synced, UnresolvedOwned, TypeOK
<1>1. /\ Owned /\ ~control.latched /\ total >= seen.current /\ seen.current > Goal
      /\ CanExtend
  BY DEF ExtendShrink, WatchedShrink, HeldShrink, OwnedBy, CanSettle
<1>2. ExtensionStep \in 1 .. DeviceBlocks /\ ExtensionTarget \in Blocks
  BY <1>1, ExtensionType
<1> DEFINE t == ExtensionTarget
           n == ExtensionStep
<1>3. /\ control' = [control EXCEPT !.intent.target = t] /\ saved' = control'
      /\ executed' = executed /\ pc' = "check" /\ progress' = None
      /\ cmd' = [kind |-> "extend", target |-> t, failed |-> FALSE]
      /\ extension' = [from |-> seen.current, step |-> n]
  BY DEF ExtendShrink, save, Command
<1>4. t \in Blocks /\ n \in 1 .. DeviceBlocks
  BY <1>2
<1> HIDE DEF t, n
<1>5. control.intent \in Intents
  BY <1>0, <1>1 DEF Owned, Controls
<1>6. /\ control' \in Controls /\ control'.intent # None
      /\ control'.intent.target = t
      /\ control'.request = control.request /\ control'.result = control.result
      /\ control'.latched = control.latched
  BY <1>0, <1>3, <1>4, <1>5 DEF Controls, Intents
<1>7. cmd' \in Commands /\ cmd'.kind = "extend" /\ cmd'.target = t
  BY <1>3, <1>4 DEF Commands
<1>8. extension' \in [from : Blocks, step : 1 .. DeviceBlocks]
  BY <1>3, <1>4 DEF TypeOK, States
<1>9. TypeOK'
  BY <1>3, <1>6, <1>7, <1>8 DEF ExtendShrink, TypeOK, Pcs
<1>10. OwnedIn(control')
  BY <1>0, <1>1, <1>6 DEF OwnedIn, Owned
<1>11. Watermark'
  BY <1>0, <1>3, <1>6, WatermarkKept
<1> QED
  BY <1>1, <1>3, <1>6, <1>7, <1>9, <1>10, <1>11, CoreCommand

\* A step that latches, publishes and ends the poll.
LEMMA LatchStep ==
  ASSUME TypeOK, Core, save(latch(control)), status' \in Reports \cup {None},
         pc' \in {"poll", "stopped"}, Return(pc'),
         UNCHANGED <<deviceVars, localVars, elapsed, guestVars, historyVars>>
  PROVE  TypeOK' /\ Core'
<1> USE DEF deviceVars, localVars, guestVars, historyVars
<1>0. OwnedIn(control) /\ Watermark /\ control \in Controls
  BY DEF Core, Synced, UnresolvedOwned, TypeOK
<1>1. control' = latch(control) /\ saved' = control' /\ executed' = executed
  BY DEF save
<1>2. /\ control' \in Controls /\ OwnedIn(control')
      /\ control'.request = control.request
  BY <1>0, <1>1, LatchFacts
<1>3. TypeOK'
  BY <1>1, <1>2 DEF TypeOK, Return, Pcs, States, Commands, Unread, NoCommand, Blocks
<1> QED
  BY <1>0, <1>1, <1>2, <1>3, CoreReturn, WatermarkKept

\* Publishing the journal after a latch.
LEMMA LatchReport ==
  ASSUME TypeOK, publish(JournalReport(latch(control)))
  PROVE  status' \in Reports \cup {None}
<1>1. latch(control) \in Controls
  BY LatchFacts DEF TypeOK
<1> QED
  BY <1>1, ReportType, PublishType DEF TypeOK

\* observe_pending.
LEMMA PendingStep ==
  ASSUME TypeOK, Core, Pending
  PROVE  TypeOK' /\ Core'
<1>1. CASE PendingHold \/ PendingWatch \/ HoldFloorShrink
  BY <1>1, HoldStep
<1>2. CASE SettleStuckGrow
  BY <1>2, SettleShortStep DEF SettleStuckGrow, StuckGrow, OwnedBy
<1>3. CASE SettleLowShrink \/ SettleReachedShrink \/ SettleFloorShrink
  BY <1>3, SettleShortStep DEF SettleLowShrink, SettleReachedShrink,
     SettleFloorShrink, WatchedShrink, HeldShrink, OwnedBy
<1>4. CASE ExtendShrink
  BY <1>4, ExtendStep
<1>5. CASE SettleTimeout
  <2>1. status' \in Reports \cup {None}
    BY <1>5, LatchReport DEF SettleTimeout
  <2>2. pc' = "stopped" /\ Return(pc')
    BY <1>5 DEF SettleTimeout, Return
  <2> QED
    BY <1>5, <2>1, <2>2, LatchStep DEF SettleTimeout
<1> QED
  BY <1>1, <1>2, <1>3, <1>4, <1>5 DEF Pending

\* The converged device: widening decision and guest read.
LEMMA ConvergedStep ==
  ASSUME TypeOK, Core, SkipWiden \/ StartWiden \/ ReadNothing \/ ReadRequest
  PROVE  TypeOK' /\ Core'
<1> USE DEF deviceVars, controlVars, frameVars, localVars, guestVars, historyVars
<1>0. /\ control = saved /\ OwnedIn(control) /\ Watermark /\ control \in Controls
      /\ control.intent # None => control.latched
  BY DEF Core, Synced, UnresolvedOwned, TypeOK, Settled, SkipWiden, StartWiden,
     ReadNothing, ReadRequest, Converged
<1>1. CASE SkipWiden
  <2>b. widen_due' \in BOOLEAN
    BY <1>1, Zenon DEF SkipWiden
  <2>1. TypeOK'
    BY <1>1, <2>b DEF SkipWiden, TypeOK
  <2>2. UNCHANGED coreVars
    BY <1>1 DEF SkipWiden, coreVars
  <2> QED
    BY <2>1, <2>2, CoreUnchanged
<1>2. CASE StartWiden
  <2>b. widen_due' \in BOOLEAN /\ widened' \in BOOLEAN
    BY <1>2, Zenon DEF StartWiden
  <2>1. TypeOK'
    BY <1>2, <2>b DEF StartWiden, TypeOK, Command, Commands, Blocks, Pcs
  <2>2. /\ cmd'.kind = "widen" /\ pc' = "check" /\ control' = control
        /\ saved' = saved /\ executed' = executed /\ ~control.latched
    BY <1>2 DEF StartWiden, Command
  <2>3. Core'
    BY <1>0, <2>2 DEF Core, UnresolvedOwned, Synced, Settled, AtAct, InCommand,
       NeverTwice, Watermark
  <2> QED
    BY <2>1, <2>3
<1>3. CASE ReadNothing
  <2>1. control' = control /\ saved' = saved /\ executed' = executed /\ pc' = "poll"
    BY <1>3 DEF ReadNothing, Return
  <2>2. status' \in Reports \cup {None}
    BY <1>0, <1>3, ReportType, PublishType DEF ReadNothing, TypeOK
  <2>3. TypeOK'
    BY <1>3, <2>1, <2>2 DEF ReadNothing, Return, TypeOK, Pcs, States, Commands,
       Unread, NoCommand, Blocks
  <2> QED
    BY <1>0, <2>1, <2>3, CoreReturn, WatermarkKept
<1>4. CASE ReadRequest
  <2>1. PICK valid \in ValidNow :
          LET admission == admit(control, slot, valid)
              answered == admission = "Replay" /\ control.result # None
              refused == admission = "Err" \/ (admission = "New" /\ control.latched)
          IN IF answered \/ refused
             THEN /\ publish(IF answered THEN JournalReport(control)
                                         ELSE Refusal(slot))
                  /\ Return("poll")
             ELSE /\ ready' = [request |-> slot, base |-> SeenBase,
                               replay |-> admission = "Replay"]
                  /\ pc' = "act"
                  /\ UNCHANGED <<seen, cmd, status>>
    BY <1>4 DEF ReadRequest
  <2> DEFINE admission == admit(control, slot, valid)
             answered == admission = "Replay" /\ control.result # None
             refused == admission = "Err" \/ (admission = "New" /\ control.latched)
  <2>2. slot \in Requests /\ total >= seen.current
    BY <1>4 DEF ReadRequest, TypeOK
  <2>3. control' = control /\ saved' = saved /\ executed' = executed
    BY <1>4 DEF ReadRequest
  <2>4. admission \in {"Replay", "Err", "New"}
    BY DEF admit
  <2>5. CASE answered \/ refused
    <3>1. publish(IF answered THEN JournalReport(control) ELSE Refusal(slot))
          /\ Return("poll")
      BY <2>1, <2>5
    <3>2. (IF answered THEN JournalReport(control) ELSE Refusal(slot))
            \in Reports \cup {None}
      BY <1>0, <2>2, ReportType DEF Refusal, Reports, Outcomes, Blocks
    <3> HIDE DEF answered, refused
    <3>3. status' \in Reports \cup {None}
      BY <3>1, <3>2, PublishType DEF TypeOK
    <3>4. TypeOK'
      BY <1>4, <2>3, <3>1, <3>3 DEF ReadRequest, Return, TypeOK, Pcs, States,
         Commands, Unread, NoCommand, Blocks
    <3>5. pc' = "poll"
      BY <3>1 DEF Return
    <3> QED
      BY <1>0, <2>3, <3>4, <3>5, CoreReturn, WatermarkKept
  <2>6. CASE ~(answered \/ refused)
    <3>1. /\ ready' = [request |-> slot, base |-> SeenBase,
                       replay |-> admission = "Replay"]
          /\ pc' = "act" /\ seen' = seen /\ cmd' = cmd /\ status' = status
      BY <2>1, <2>6
    <3>2. admission # "Replay"
      <4>1. SUFFICES ASSUME admission = "Replay" PROVE FALSE
        OBVIOUS
      <4>2. control.request # None /\ control.result = None
        BY <2>6, <4>1 DEF admit
      <4> QED
        BY <1>0, <4>2 DEF OwnedIn
    <3>3. admission = "New" /\ ~control.latched
      BY <2>4, <2>6, <3>2
    <3>4. control.request # None =>
            Terminal(control.result) /\ control.request.id < slot.id
      BY <1>0, <2>2, <3>3 DEF admit, Controls, Requests, Ids
    <3>5. control.intent = None
      BY <1>0, <3>3
    <3> HIDE DEF admission, answered, refused
    <3>6. SeenBase \in Nat
      BY <2>2 DEF SeenBase, TypeOK, Totals, States, Blocks
    <3>7. ready' \in Readies /\ ready'.request = slot /\ ready'.replay = FALSE
      BY <2>2, <3>1, <3>2, <3>6 DEF Readies
    <3>8. TypeOK'
      BY <1>4, <2>3, <3>1, <3>7 DEF ReadRequest, TypeOK, Pcs
    <3>9. ready' # None
      BY <3>7
    <3> QED
      BY <1>0, <2>3, <3>1, <3>3, <3>4, <3>5, <3>7, <3>8, <3>9 DEF Core, UnresolvedOwned,
         Synced, Settled, AtAct, InCommand, NeverTwice, Watermark
  <2> QED
    BY <2>5, <2>6
<1> QED
  BY <1>1, <1>2, <1>3, <1>4

-----------------------------------------------------------------------------
\* act

\* A grant fits the device, and a removal's fits the allocation.
LEMMA GrantType ==
  ASSUME TypeOK, ready # None, NEW room \in Blocks
  PROVE  /\ Grant(room) \in Int
         /\ ready.request.op = "Add" => Grant(room) <= DeviceBlocks - seen.current
         /\ ready.request.op # "Add" => Grant(room) <= seen.current
  BY DEF TypeOK, Readies, Requests, States, Blocks, Grant, least, saturating_sub

\* A request that ends without a command.
LEMMA UnexecutedStep ==
  ASSUME TypeOK, Core, pc = "act", NEW o \in Outcomes \ {"Uncertain"},
         record_unexecuted(o), Return("poll"),
         UNCHANGED <<deviceVars, localVars, elapsed, guestVars, historyVars>>
  PROVE  TypeOK' /\ Core'
<1> USE DEF deviceVars, localVars, guestVars, historyVars
<1>0. /\ control = saved /\ OwnedIn(control) /\ Watermark /\ control \in Controls
      /\ ready \in Readies /\ ~ready.replay /\ control.intent = None
      /\ control.request # None => control.request.id < ready.request.id
  BY DEF Core, Synced, UnresolvedOwned, TypeOK, AtAct
<1> DEFINE a == Admitted(control, ready.request)
           d == record_result(a, o, 0)
<1>1. /\ a \in Controls /\ a.request = ready.request /\ a.intent = None
      /\ ready.request \in Requests
  BY <1>0 DEF Admitted, Controls, Readies
<1>2. 0 \in Blocks /\ o \in Outcomes /\ o # "Uncertain"
  BY DEF Blocks
<1> HIDE DEF a
<1>3. /\ d \in Controls /\ d.request = ready.request /\ d.intent = None
      /\ Terminal(d.result)
  <2>1. /\ d \in Controls /\ d.request = a.request /\ d.intent = a.intent
        /\ d.result = [outcome |-> o, actual |-> 0]
    BY <1>1, <1>2 DEF record_result, Controls, Results
  <2>2. Terminal([outcome |-> o, actual |-> 0])
    BY <1>2 DEF Terminal, Results
  <2> QED
    BY <1>1, <2>1, <2>2
<1>4. control' = d /\ saved' = d /\ publish(JournalReport(d)) /\ pc' = "poll"
      /\ executed' = executed
  <2>1. AtBoundary = a
    BY <1>0 DEF AtBoundary, a
  <2>2. save(d) /\ publish(JournalReport(d))
    BY <2>1 DEF record_unexecuted
  <2> QED
    BY <2>2 DEF save, Return
<1> HIDE DEF d
<1>5. status' \in Reports \cup {None}
  BY <1>3, <1>4, ReportType, PublishType DEF TypeOK
<1>6. TypeOK'
  BY <1>3, <1>4, <1>5 DEF TypeOK, Return, Pcs, States, Commands, Unread, NoCommand,
     Blocks
<1>7. OwnedIn(control')
  BY <1>3, <1>4 DEF OwnedIn, Terminal
<1>8. Watermark'
  BY <1>0, <1>1, <1>3, <1>4 DEF Watermark, Controls, Requests, Ids, TypeOK
<1> QED
  BY <1>4, <1>6, <1>7, <1>8, CoreReturn

\* act refuses, answers without a command, or records and sends one.
LEMMA ActStep ==
  ASSUME TypeOK, Core, ActRefuse \/ ActEmpty \/ ActCommand
  PROVE  TypeOK' /\ Core'
<1> USE DEF deviceVars, controlVars, frameVars, localVars, guestVars, historyVars
<1>0. /\ control = saved /\ OwnedIn(control) /\ Watermark /\ control \in Controls
      /\ ready # None /\ ready \in Readies /\ ~ready.replay
      /\ control.intent = None /\ ~control.latched
      /\ control.request # None => control.request.id < ready.request.id
  BY DEF Core, Synced, UnresolvedOwned, TypeOK, AtAct, ActRefuse, ActEmpty, ActCommand
<1>1. CASE ActRefuse
  <2>1. /\ publish(Refusal(ready.request)) /\ control' = control /\ saved' = saved
        /\ executed' = executed /\ pc' = "poll"
    BY <1>0, <1>1 DEF ActRefuse, Return
  <2>2. Refusal(ready.request) \in Reports \cup {None}
    BY <1>0 DEF Refusal, Reports, Readies, Outcomes, Blocks
  <2>3. status' \in Reports \cup {None}
    BY <2>1, <2>2, PublishType DEF TypeOK
  <2>4. TypeOK'
    BY <1>1, <2>1, <2>3 DEF ActRefuse, Return, TypeOK, Pcs, States, Commands,
       Unread, NoCommand, Blocks
  <2> QED
    BY <1>0, <2>1, <2>4, CoreReturn, WatermarkKept
<1>2. CASE ActEmpty
  <2> DEFINE o == IF ready.request.op = "Add" THEN "PoolEmpty" ELSE "Rejected"
  <2>1. o \in Outcomes \ {"Uncertain"}
    BY DEF Outcomes
  <2>2. pc = "act" /\ record_unexecuted(o) /\ Return("poll")
        /\ UNCHANGED <<deviceVars, localVars, elapsed, guestVars, historyVars>>
    BY <1>2 DEF ActEmpty
  <2> HIDE DEF o
  <2> QED
    BY <2>1, <2>2, UnexecutedStep
<1>3. CASE ActCommand
  <2> DEFINE add == ready.request.op = "Add"
             a == Admitted(control, ready.request)
             Target(g) == IF add THEN seen.current + g ELSE seen.current - g
             Recorded(t) == [direction |-> IF add THEN "Grow" ELSE "Shrink",
                             prior_requested |-> seen.requested,
                             prior_current |-> seen.current,
                             target |-> t]
  <2>1. PICK room \in Blocks :
          /\ Grant(room) > 0
          /\ save([a EXCEPT !.intent = Recorded(Target(Grant(room)))])
          /\ cmd' = Command("resize", Target(Grant(room)))
    BY <1>0, <1>3 DEF ActCommand, AtBoundary
  <2> DEFINE t == Target(Grant(room))
             i == Recorded(t)
  <2>2. seen.current \in Blocks /\ seen.requested \in Blocks
        /\ ready.request \in Requests
    BY <1>0 DEF TypeOK, States, Readies
  <2>3. t \in Blocks
    BY <1>0, <2>1, <2>2, GrantType DEF Blocks
  <2> HIDE DEF t
  <2>4. i \in Intents /\ i.target = t
    BY <2>2, <2>3 DEF Intents, Directions
  <2>5. control' = [a EXCEPT !.intent = i] /\ saved' = control'
        /\ cmd' = [kind |-> "resize", target |-> t, failed |-> FALSE]
    BY <2>1 DEF save, Command, t
  <2> HIDE DEF i
  <2>6. /\ control' \in Controls /\ control'.intent = i /\ ~control'.latched
        /\ control'.request = ready.request /\ control'.result = None
    BY <1>0, <2>2, <2>4, <2>5 DEF Admitted, Controls
  <2>7. cmd' \in Commands /\ cmd'.kind = "resize" /\ cmd'.target = t
    BY <2>3, <2>5 DEF Commands
  <2>8. pc' = "check" /\ executed' = executed
    BY <1>3 DEF ActCommand
  <2>b. elapsed' \in BOOLEAN
    BY <1>3, Zenon DEF ActCommand
  <2>9. TypeOK'
    BY <1>3, <2>2, <2>5, <2>6, <2>7, <2>8, <2>b DEF ActCommand, TypeOK, Pcs
  <2>10. \A j \in executed : j < ready.request.id
    BY <1>0, <2>2 DEF Watermark, Controls, Requests, Ids, TypeOK
  <2>11. i # None /\ ready.request # None
    BY <2>2, <2>4
  <2>12. OwnedIn(control')
    BY <2>6, <2>11 DEF OwnedIn, Terminal
  <2>13. Watermark'
    BY <2>2, <2>6, <2>8, <2>10, <2>11 DEF Watermark, Requests, Ids, TypeOK
  <2>14. control'.request.id \notin executed'
    BY <2>2, <2>6, <2>8, <2>10 DEF Requests, Ids
  <2> QED
    BY <2>4, <2>5, <2>6, <2>7, <2>8, <2>9, <2>11, <2>12, <2>13, <2>14, CoreCommand
<1> QED
  BY <1>1, <1>2, <1>3

-----------------------------------------------------------------------------
\* The resize sink

\* The guard passes, or rejects one of the four commands.
LEMMA CheckStep ==
  ASSUME TypeOK, Core,
         SinkPass \/ RejectResize \/ RejectSettle \/ RejectExtend \/ RejectWiden
  PROVE  TypeOK' /\ Core'
<1> USE DEF deviceVars, controlVars, frameVars, localVars, guestVars, historyVars
<1>0. /\ control = saved /\ OwnedIn(control) /\ Watermark /\ control \in Controls
      /\ cmd.kind # "none" /\ ~control.latched
      /\ cmd.kind # "widen" => control.intent # None /\ control.request # None
                               /\ ~Terminal(control.result)
  BY DEF Core, Synced, UnresolvedOwned, OwnedIn, TypeOK, InCommand, SinkPass,
     RejectResize, RejectSettle, RejectExtend, RejectWiden
<1>1. CASE SinkPass
  <2>1. TypeOK'
    BY <1>1 DEF SinkPass, TypeOK, Pcs
  <2>2. /\ control' = control /\ saved' = saved /\ cmd' = cmd /\ executed' = executed
        /\ pc = "check" /\ pc' = IF cmd.kind = "widen" THEN "suspend" ELSE "apply"
    BY <1>1 DEF SinkPass
  <2>3. Core'
    BY <2>2 DEF Core, UnresolvedOwned, Synced, Settled, AtAct, InCommand,
       NeverTwice, Watermark
  <2> QED
    BY <2>1, <2>3
<1>2. CASE RejectResize
  <2> DEFINE e == [control EXCEPT !.intent = None]
             d == record_result(e, "Rejected", 0)
  <2>1. e \in Controls /\ e.request = control.request /\ e.intent = None
    BY <1>0 DEF Controls
  <2>a. /\ [outcome |-> "Rejected", actual |-> 0] \in Results
        /\ [outcome |-> "Rejected", actual |-> 0] # None
    BY DEF Results, Outcomes, Blocks
  <2> HIDE DEF e
  <2>2. /\ d \in Controls /\ d.request = control.request /\ d.intent = None
        /\ d.result # None
    BY <2>1, <2>a DEF record_result, Controls
  <2> USE DEF e
  <2>3. /\ control' = d /\ saved' = d /\ publish(JournalReport(d)) /\ pc' = "poll"
        /\ executed' = executed
    BY <1>2 DEF RejectResize, save, Return
  <2> HIDE DEF d
  <2>4. status' \in Reports \cup {None}
    BY <2>2, <2>3, ReportType, PublishType DEF TypeOK
  <2>5. TypeOK'
    BY <1>2, <2>2, <2>3, <2>4 DEF RejectResize, Return, TypeOK, Pcs, States,
       Commands, Unread, NoCommand, Blocks
  <2>6. OwnedIn(control')
    BY <2>2, <2>3 DEF OwnedIn
  <2> QED
    BY <1>0, <2>2, <2>3, <2>5, <2>6, CoreReturn, WatermarkKept
<1>3. CASE RejectSettle
  <2>1. status' \in Reports \cup {None}
    BY <1>3, LatchReport DEF RejectSettle
  <2>2. pc' = "poll" /\ Return(pc')
    BY <1>3 DEF RejectSettle, Return
  <2> QED
    BY <1>3, <2>1, <2>2, LatchStep DEF RejectSettle
<1>4. CASE RejectExtend
  <2>1. /\ control' = [control EXCEPT !.intent.target = seen.requested]
        /\ saved' = control' /\ executed' = executed /\ pc' = "poll"
    BY <1>4 DEF RejectExtend, save, Return
  <2>2. control.intent \in Intents /\ seen.requested \in Blocks
    BY <1>0, <1>4 DEF RejectExtend, Controls, TypeOK, States
  <2>3. /\ control' \in Controls /\ control'.intent # None
        /\ control'.request = control.request /\ control'.result = control.result
        /\ control'.latched = control.latched
    BY <1>0, <2>1, <2>2 DEF Controls, Intents
  <2>4. status' \in Reports \cup {None}
    BY <1>0, <1>4, ReportType, PublishType DEF RejectExtend, TypeOK
  <2>5. TypeOK'
    BY <1>4, <2>1, <2>3, <2>4 DEF RejectExtend, Return, TypeOK, Pcs, States,
       Commands, Unread, NoCommand, Blocks
  <2>6. OwnedIn(control')
    BY <1>0, <1>4, <2>3 DEF OwnedIn, RejectExtend
  <2> QED
    BY <1>0, <2>1, <2>3, <2>5, <2>6, CoreReturn, WatermarkKept
<1>5. CASE RejectWiden
  <2>1. TypeOK'
    BY <1>5 DEF RejectWiden, TypeOK, Pcs, Commands, NoCommand, Blocks
  <2>2. /\ control' = control /\ saved' = saved /\ executed' = executed
        /\ pc' = "converged"
    BY <1>5 DEF RejectWiden
  <2>3. control.intent # None => control.latched
    BY <1>5 DEF RejectWiden, Core, Settled
  <2>4. control'.intent # None => control'.latched
    BY <2>2, <2>3
  <2>5. control' = saved' /\ OwnedIn(control') /\ Watermark'
    BY <1>0, <2>2, WatermarkKept
  <2> QED
    BY <2>1, <2>2, <2>4, <2>5, CoreConverged
<1> QED
  BY <1>1, <1>2, <1>3, <1>4, <1>5

\* The command reaches libvirt, with a known or an unknown outcome.
LEMMA ApplyStep ==
  ASSUME TypeOK, Core, ApplyCommand \/ ApplyUnknown \/ HandleUnknown
  PROVE  TypeOK' /\ Core'
<1> USE DEF deviceVars, controlVars, frameVars, localVars, guestVars, historyVars
<1>0. control = saved /\ OwnedIn(control) /\ Watermark /\ control \in Controls
  BY DEF Core, Synced, UnresolvedOwned, TypeOK
<1>1. pc = "apply" => /\ Reached \subseteq Ids /\ control.request # None
                      /\ \A i \in Reached : i <= control.request.id
  <2> SUFFICES ASSUME pc = "apply"
               PROVE  /\ Reached \subseteq Ids /\ control.request # None
                      /\ \A i \in Reached : i <= control.request.id
    OBVIOUS
  <2>1. control.request \in Requests /\ control.request # None
    BY <1>0 DEF Core, InCommand, OwnedIn, Controls
  <2>2. control.request.id \in Ids /\ control.request.id <= control.request.id
    BY <2>1 DEF Requests, Ids
  <2>3. executed \subseteq Ids /\ \A i \in executed : i <= control.request.id
    BY <1>0 DEF TypeOK, Watermark
  <2>4. Reached \subseteq executed \cup {control.request.id}
    BY DEF Reached
  <2> QED
    BY <2>1, <2>2, <2>3, <2>4
<1>2. CASE ApplyCommand
  <2>1. /\ control' = control /\ saved' = saved /\ pc = "apply" /\ pc' = "poll"
        /\ executed' = Reached
    BY <1>2 DEF ApplyCommand, Return
  <2>2. status' \in Reports \cup {None}
    BY <1>0, <1>2, ReportType, PublishType DEF ApplyCommand, TypeOK
  <2>3. cmd.target \in Blocks
    BY DEF TypeOK, Commands
  <2> HIDE DEF Reached
  <2>4. TypeOK'
    BY <1>1, <1>2, <2>1, <2>2, <2>3 DEF ApplyCommand, Return, TypeOK, Pcs, States,
       Commands, Unread, NoCommand, Blocks
  <2>5. Watermark'
    BY <1>1, <2>1 DEF Watermark
  <2> QED
    BY <1>0, <2>1, <2>4, <2>5, CoreReturn
<1>3. CASE ApplyUnknown
  <2>1. /\ control' = control /\ saved' = saved /\ pc = "apply" /\ pc' = "unknown"
        /\ executed' = Reached /\ cmd' = cmd
    BY <1>3 DEF ApplyUnknown
  <2>2. cmd.target \in Blocks
    BY DEF TypeOK, Commands
  <2> HIDE DEF Reached
  <2>3. TypeOK'
    BY <1>1, <1>3, <2>1, <2>2 DEF ApplyUnknown, TypeOK, Pcs
  <2>4. Watermark'
    BY <1>1, <2>1 DEF Watermark
  <2>5. cmd.kind # "widen"
    BY <2>1 DEF Core, InCommand
  <2> QED
    BY <1>0, <2>1, <2>3, <2>4, <2>5 DEF Core, UnresolvedOwned, Synced, Settled, AtAct,
       InCommand, NeverTwice
<1>4. CASE HandleUnknown
  <2>1. status' \in Reports \cup {None}
    BY <1>4, LatchReport DEF HandleUnknown, TypeOK
  <2>2. pc' \in {"poll", "stopped"} /\ Return(pc')
    BY <1>4 DEF HandleUnknown, Return
  <2> QED
    BY <1>4, <2>1, <2>2, LatchStep DEF HandleUnknown
<1> QED
  BY <1>2, <1>3, <1>4

\* The widening sequence.
LEMMA WidenStep ==
  ASSUME TypeOK, Core,
         WidenSuspend \/ WidenApply \/ WidenRestore \/ WidenResume
  PROVE  TypeOK' /\ Core'
<1> USE DEF widenVars, controlVars, localVars, guestVars, historyVars
<1>0. /\ control = saved /\ OwnedIn(control) /\ Watermark
      /\ control.intent # None => control.latched
      /\ control' = control /\ saved' = saved /\ executed' = executed
  BY DEF Core, Synced, UnresolvedOwned, Settled, WidenSuspend, WidenApply,
     WidenRestore, WidenResume
<1>1. Core'
  BY <1>0 DEF Core, UnresolvedOwned, Synced, Settled, AtAct, InCommand, NeverTwice,
     Watermark, WidenSuspend, WidenApply, WidenRestore, WidenResume
<1>2. NoCommand \in Commands
  BY DEF NoCommand, Commands, Blocks
<1>3. CASE WidenSuspend
  <2>1. paused' \in BOOLEAN
    BY <1>3, Zenon DEF WidenSuspend, TypeOK
  <2>2. cmd' \in Commands /\ pc' \in {"converged", "widen"}
    BY <1>2, <1>3 DEF WidenSuspend, TypeOK
  <2> QED
    BY <1>1, <1>3, <2>1, <2>2 DEF WidenSuspend, TypeOK, Pcs
<1>4. CASE WidenApply
  <2>a. PICK failed \in BOOLEAN :
          /\ requested' \in IF failed THEN {requested, cmd.target} ELSE {cmd.target}
          /\ cmd' = [cmd EXCEPT !.failed = failed]
    <3>1. \A failed \in Fails : failed \in BOOLEAN
      BY Zenon DEF Fails
    <3> QED
      BY <1>4, <3>1, Zenon DEF WidenApply
  <2>b. cmd \in Commands /\ cmd.target \in Blocks /\ requested \in Blocks
    BY DEF TypeOK, Commands
  <2>1. cmd' \in Commands /\ requested' \in Blocks
    <3>1. requested' \in Blocks
      BY <2>a, <2>b
    <3>2. cmd' \in Commands
      BY <2>a, <2>b DEF Commands
    <3> QED
      BY <3>1, <3>2
  <2> QED
    BY <1>1, <1>4, <2>1 DEF WidenApply, TypeOK, Pcs
<1>5. CASE WidenRestore
  <2>1. requested' \in Blocks /\ pc' \in {"unknown", "resume"}
    BY <1>5 DEF WidenRestore, TypeOK, States
  <2> QED
    BY <1>1, <1>5, <2>1 DEF WidenRestore, TypeOK, Pcs
<1>6. CASE WidenResume
  <2>1. paused' \in BOOLEAN
    BY <1>6, Zenon DEF WidenResume, TypeOK
  <2>2. cmd' \in Commands /\ pc' \in {"unknown", "converged"}
    BY <1>2, <1>6 DEF WidenResume, TypeOK
  <2> QED
    BY <1>1, <1>6, <2>1, <2>2 DEF WidenResume, TypeOK, Pcs
<1> QED
  BY <1>3, <1>4, <1>5, <1>6

-----------------------------------------------------------------------------
\* The invariant and what follows from it

\* Every step, and every stuttering step, keeps the inductive invariant.
LEMMA NextInvariant == IInv /\ [Next]_vars => IInv'
<1> SUFFICES ASSUME IInv, [Next]_vars
             PROVE  TypeOK' /\ Core'
  BY DEF IInv, Core
<1>0. TypeOK /\ Core
  BY DEF IInv, Core
<1>1. CASE Start \/ Crash \/ Operator
  BY <1>0, <1>1, ProcessStep
<1>2. CASE World
  BY <1>0, <1>2, WorldStep
<1>3. CASE ObserveUnreadable \/ ObserveLive
  BY <1>0, <1>3, ObserveStep
<1>4. CASE Pending
  BY <1>0, <1>4, PendingStep
<1>5. CASE SkipWiden \/ StartWiden \/ ReadNothing \/ ReadRequest
  BY <1>0, <1>5, ConvergedStep
<1>6. CASE ActRefuse \/ ActEmpty \/ ActCommand
  BY <1>0, <1>6, ActStep
<1>7. CASE SinkPass \/ RejectResize \/ RejectSettle \/ RejectExtend \/ RejectWiden
  BY <1>0, <1>7, CheckStep
<1>8. CASE ApplyCommand \/ ApplyUnknown \/ HandleUnknown
  BY <1>0, <1>8, ApplyStep
<1>9. CASE WidenSuspend \/ WidenApply \/ WidenRestore \/ WidenResume
  BY <1>0, <1>9, WidenStep
<1>10. CASE UNCHANGED vars
  BY <1>0, <1>10 DEF vars, deviceVars, controlVars, frameVars, localVars, guestVars,
     historyVars, TypeOK, Core, UnresolvedOwned, Synced, Settled, AtAct, InCommand,
     Watermark, NeverTwice
<1> QED
  BY <1>1, <1>2, <1>3, <1>4, <1>5, <1>6, <1>7, <1>8, <1>9, <1>10
     DEF Next, Daemon, Sink

\* The invariant holds in every reachable state of the daemon, with any set of
\* faults, any device size and any number of request identities.
THEOREM Invariant == Spec => []IInv
  BY InitInvariant, NextInvariant, PTL DEF Spec

\* Every variable keeps its type: grants, extensions, settlements and results
\* never leave the device's range whatever the guest and the operator do.
THEOREM TypeCorrect == Spec => []TypeOK
<1>1. IInv => TypeOK
  BY DEF IInv
<1> QED
  BY Invariant, <1>1, PTL

\* The checkpoint never holds an admitted request that neither has a result nor
\* a recorded command, nor a recorded command whose request is final.
THEOREM RequestsOwned == Spec => []UnresolvedOwned
<1>1. IInv => UnresolvedOwned
  BY DEF IInv
<1> QED
  BY Invariant, <1>1, PTL

\* No request identity reaches libvirt twice.
THEOREM ExecutedOnce == Spec => []NeverTwice
<1>1. IInv => NeverTwice
  BY DEF IInv
<1> QED
  BY Invariant, <1>1, PTL

\* A command that is about to reach libvirt is the one in the checkpoint file.
THEOREM RecordedBeforeSent == Spec => []DurableBeforeCommand
<1>1. IInv => DurableBeforeCommand
  BY DEF IInv, DurableBeforeCommand, Synced, InCommand
<1> QED
  BY Invariant, <1>1, PTL

-----------------------------------------------------------------------------
\* A final result stays

\* A result always belongs to a journalled request.
Journalled == saved.result # None => saved.request # None

\* What TerminalFinal says of one step.
FinalKept == Terminal(saved.result) /\ saved'.result # saved.result =>
               saved'.request.id > saved.request.id

\* The three ways in which a step may treat the journal: leave it alone, answer
\* the request it holds, or move on to a newer one.
LEMMA JournalCases ==
  ASSUME Journalled,
         \/ saved'.request = saved.request /\ saved'.result = saved.result
         \/ /\ saved'.request = saved.request /\ saved.request # None
            /\ ~Terminal(saved.result)
         \/ /\ saved'.request # None
            /\ saved.request # None => saved'.request.id > saved.request.id
  PROVE  Journalled' /\ FinalKept
  BY DEF Journalled, FinalKept, Terminal

\* Latching answers only a request that has no result.
LEMMA LatchJournal ==
  ASSUME control \in Controls, control = saved, Journalled,
         control' = latch(control), saved' = control'
  PROVE  Journalled' /\ FinalKept
<1>1. /\ saved'.request = saved.request
      /\ saved'.result = saved.result \/ (saved.request # None /\ saved.result = None)
  BY DEF latch, Controls
<1> QED
  BY <1>1, JournalCases DEF Terminal

\* Every step keeps a final result until a newer request is admitted.
LEMMA JournalStep ==
  ASSUME IInv, Journalled, [Next]_vars
  PROVE  Journalled' /\ FinalKept
<1>0. /\ control = saved /\ OwnedIn(control) /\ control \in Controls
  BY DEF IInv, Synced, UnresolvedOwned, TypeOK
<1>1. CASE saved' = saved
  BY <1>1, JournalCases
<1>2. CASE ObserveUnreadable
  <2>1. CASE control.intent = None
    BY <1>0, <1>1, <1>2, <2>1 DEF ObserveUnreadable, save
  <2>2. CASE control.intent # None
    BY <1>0, <1>2, <2>2, LatchJournal DEF ObserveUnreadable, save
  <2> QED
    BY <2>1, <2>2
<1>3. CASE ObserveLive
  <2>1. control' = resolve_intent(control, Live) /\ saved' = control'
    BY <1>3 DEF ObserveLive, save
  <2>2. CASE control' = control
    BY <1>0, <1>1, <2>1, <2>2
  <2>3. CASE control' = latch(control)
    BY <1>0, <2>1, <2>3, LatchJournal
  <2>4. CASE command_ownership(control.intent, Live) = "OwnedConvergedUnresolved"
    <3>1. control.intent # None
      BY <2>4 DEF command_ownership
    <3>2. control.request # None /\ ~Terminal(control.result)
      BY <1>0, <3>1 DEF OwnedIn
    <3>3. control'.request = control.request
      BY <1>0, <2>1, <2>4, <3>2 DEF resolve_intent, movement_result, record_result,
         Controls
    <3> QED
      BY <1>0, <2>1, <3>2, <3>3, JournalCases
  <2> QED
    BY <2>1, <2>2, <2>3, <2>4 DEF resolve_intent
<1>4. CASE settle_short \/ ExtendShrink \/ RejectExtend
  <2>1. saved'.request = saved.request /\ saved'.result = saved.result
    BY <1>0, <1>4 DEF settle_short, ExtendShrink, RejectExtend, save, Controls
  <2> QED
    BY <2>1, JournalCases
<1>5. CASE SettleTimeout \/ RejectSettle \/ HandleUnknown
  BY <1>0, <1>5, LatchJournal DEF SettleTimeout, RejectSettle, HandleUnknown, save
<1>6. CASE ActRefuse \/ ActEmpty \/ ActCommand
  <2>1. /\ ready \in Readies /\ ~ready.replay
        /\ control.request # None => control.request.id < ready.request.id
    BY <1>6 DEF ActRefuse, ActEmpty, ActCommand, IInv, AtAct, TypeOK
  <2>2. ready.request # None /\ ready.request \in Requests
    BY <2>1 DEF Readies
  <2>3. saved' = saved \/ saved'.request = ready.request
    <3>1. CASE ActRefuse
      BY <1>0, <2>1, <3>1 DEF ActRefuse, controlVars
    <3>2. CASE ActEmpty
      BY <1>0, <2>1, <3>2 DEF ActEmpty, record_unexecuted, record_result, AtBoundary,
         Admitted, save, Controls
    <3>3. CASE ActCommand
      BY <1>0, <2>1, <3>3 DEF ActCommand, AtBoundary, Admitted, save, Controls
    <3> QED
      BY <1>6, <3>1, <3>2, <3>3
  <2>4. saved.request # None => ready.request.id > saved.request.id
    BY <1>0, <2>1, <2>2 DEF Requests, Controls, Ids
  <2> QED
    BY <1>1, <2>2, <2>3, <2>4, JournalCases
<1>7. CASE RejectResize
  <2>1. control.intent # None
    BY <1>7 DEF RejectResize, IInv, InCommand
  <2>2. control.request # None /\ ~Terminal(control.result)
    BY <1>0, <2>1 DEF OwnedIn
  <2>3. saved'.request = saved.request
    BY <1>0, <1>7 DEF RejectResize, record_result, save, Controls
  <2> QED
    BY <1>0, <2>2, <2>3, JournalCases
<1>8. CASE ClearLatch
  <2>1. saved' = clear_actuation_latch(saved, Live)
    BY <1>8 DEF ClearLatch, save
  <2>2. CASE saved.request # None /\ ~Terminal(saved.result)
    <3>1. saved'.request = saved.request
      BY <1>0, <2>1, <2>2 DEF clear_actuation_latch, movement_result, record_result,
         Controls
    <3> QED
      BY <2>2, <3>1, JournalCases
  <2>3. CASE ~(saved.request # None /\ ~Terminal(saved.result))
    <3>1. saved'.request = saved.request /\ saved'.result = saved.result
      BY <1>0, <2>1, <2>3 DEF clear_actuation_latch, Controls
    <3> QED
      BY <3>1, JournalCases
  <2> QED
    BY <2>2, <2>3
<1>9. CASE Start \/ Crash \/ World \/ (Operator /\ ~ClearLatch) \/ UNCHANGED vars
  <2>1. saved' = saved
    BY <1>9 DEF Start, Crash, World, Operator, GuestPlug, GuestUnplug, DeviceReset,
       GuestPublish, LateApply, StallTick, Deadline, CliSettle, CliRetarget,
       ExternalResize, OperatorResume, vars, controlVars
  <2> QED
    BY <1>1, <2>1
<1>10. CASE Pending
  BY <1>1, <1>4, <1>5, <1>10 DEF Pending, PendingHold, PendingWatch, HoldFloorShrink,
     SettleStuckGrow, SettleLowShrink, SettleReachedShrink, SettleFloorShrink,
     controlVars
<1>11. CASE Sink
  BY <1>1, <1>4, <1>5, <1>7, <1>11 DEF Sink, SinkPass, RejectWiden, ApplyCommand,
     ApplyUnknown, WidenSuspend, WidenApply, WidenRestore, WidenResume, widenVars,
     controlVars
<1>12. CASE SkipWiden \/ StartWiden \/ ReadNothing \/ ReadRequest
  BY <1>1, <1>12 DEF SkipWiden, StartWiden, ReadNothing, ReadRequest, controlVars
<1> QED
  BY <1>2, <1>3, <1>6, <1>8, <1>9, <1>10, <1>11, <1>12 DEF Next, Daemon, Operator

\* A final result in the checkpoint is displaced only by the admission of a newer
\* request, never by a retry, a restart, a latch or a cleared latch.
THEOREM FinalResultStays == Spec => TerminalFinal
<1>1. Init => Journalled
  BY DEF Init, Journalled
<1>2. IInv /\ Journalled /\ [Next]_vars => Journalled'
  BY JournalStep
<1>3. IInv /\ Journalled /\ [Next]_vars =>
        [Terminal(saved.result) /\ saved'.result # saved.result =>
           saved'.request.id > saved.request.id]_vars
  BY JournalStep DEF FinalKept
<1> QED
  BY Invariant, <1>1, <1>2, <1>3, PTL DEF Spec, TerminalFinal
============================================================================
