----------------------- MODULE RequestProtocolProofs -----------------------
(***************************************************************************)
(* Proofs about the guest alone and about guest and host together, for     *)
(* every device, clock, number of restarts and set of faults: first the    *)
(* guest's promises whatever the host writes, then that each side behaves  *)
(* as its own specification says in the composition, what they agree on    *)
(* while a request is unresolved, and that an answer is the journal's.     *)
(***************************************************************************)
EXTENDS RequestProtocol, TLAPS

USE GuestAssumption, GuestNoneAssumption

-----------------------------------------------------------------------------
\* The policy

\* plan_request asks for at least one block and at most the device.
LEMMA PlanType ==
  ASSUME NEW estimate \in Estimates, NEW current \in Blocks
  PROVE  plan_request(estimate, current)
           \in [operation : Operations, bytes : 1 .. DeviceBlocks] \cup {None}
BY DEF plan_request, Estimates, Blocks, Operations, greatest, saturating_sub

\* The urgency of Windows' Low keeps the estimate within the device.
LEMMA UrgedType ==
  ASSUME NEW estimate \in Estimates, NEW current \in Blocks, NEW low \in BOOLEAN
  PROVE  Urged(estimate, current, low) \in Estimates
BY DEF Urged, Estimates, Blocks, greatest, least

\* A permitted plan is a proper one.
LEMMA PlanPermitted ==
  ASSUME NEW seen \in Statuses \cup {None}, NEW fresh \in BOOLEAN,
         NEW estimate \in Estimates, NEW low \in BOOLEAN, NEW critical \in BOOLEAN,
         Permitted(Plan(seen, fresh, estimate, low), low, critical)
  PROVE  Plan(seen, fresh, estimate, low)
           \in [operation : Operations, bytes : 1 .. DeviceBlocks]
<1>1. Plan(seen, fresh, estimate, low) # None
  BY DEF Permitted
<1>2. /\ seen # None
      /\ Plan(seen, fresh, estimate, low)
           = plan_request(Urged(estimate, seen.current, low), seen.current)
  BY <1>1 DEF Plan
<1>3. seen.current \in Blocks
  BY <1>2 DEF Statuses
<1> QED
  BY <1>1, <1>2, <1>3, UrgedType, PlanType

\* The retry delay stays within its bounds.
LEMMA DelayType ==
  ASSUME retry_delay \in 0 .. MaxDelay
  PROVE  NextDelay \in 0 .. MaxDelay
BY DEF NextDelay, least, greatest

\* Both marks of a sample are truth values.
LEMMA SampleType ==
  ASSUME NEW low \in Lows, NEW critical \in Criticals, Sample(low, critical)
  PROVE  native_low' \in BOOLEAN /\ numeric_critical' \in BOOLEAN
<1>1. low \in BOOLEAN /\ critical \in BOOLEAN
  BY DEF Lows, Criticals
<1> QED
  BY <1>1, Zenon DEF Sample

-----------------------------------------------------------------------------
\* The invariant but for the types

Core ==
  /\ PublishedRetained /\ Synced /\ Replaceable /\ Decided
  /\ Ahead(disk)
  /\ pc # "down" => Ahead(state)
  /\ publication # None => publication \in sent

\* A step that leaves the files, the slot and the history alone keeps Core.
LEMMA CoreUnchanged ==
  ASSUME Core,
         UNCHANGED <<state, disk, publication, sent, answered>>,
         \/ UNCHANGED <<pc, stop, decision>>
         \/ UNCHANGED <<pc, decision>> /\ stop' = TRUE
         \/ pc' = "idle" /\ stop' = stop /\ pc = "publish"
  PROVE  Core'
BY DEF Core, PublishedRetained, Synced, Replaceable, Decided, Ahead

\* Starting with nothing satisfies the invariant.
LEMMA InitInvariant == Init => IInv
<1> SUFFICES ASSUME Init PROVE IInv
  OBVIOUS
<1>a. stop \in BOOLEAN /\ native_low \in BOOLEAN /\ numeric_critical \in BOOLEAN
  BY Zenon DEF Init
<1>b. state \in RequestStates /\ disk \in RequestStates
  BY DEF Init, NoState, RequestStates, Times
<1>1. TypeOK
  BY <1>a, <1>b DEF Init, TypeOK, Times, Pcs
<1> QED
  BY <1>1 DEF Init, IInv, NoState, PublishedRetained, Synced, Replaceable,
              Decided, Ahead

\* Starting, stopping and ending the process.
LEMMA ProcessStep ==
  ASSUME TypeOK, Core, Start \/ Stop \/ Exit \/ PowerLoss
  PROVE  TypeOK' /\ Core'
<1>1. CASE Start
  <2>a. /\ stop' \in BOOLEAN
        /\ native_low' \in BOOLEAN /\ numeric_critical' \in BOOLEAN
    BY <1>1, Zenon DEF Start, Fresh
  <2>1. TypeOK'
    BY <1>1, <2>a DEF Start, Fresh, TypeOK, Pcs, historyVars
  <2> QED
    BY <1>1, <2>1 DEF Start, Fresh, Core, historyVars, PublishedRetained, Synced,
                      Replaceable, Decided, Ahead
<1>2. CASE Stop
  <2>1. TypeOK'
    BY <1>2 DEF Stop, TypeOK, clockVars, policyVars, historyVars
  <2> QED
    BY <1>2, <2>1, CoreUnchanged DEF Stop, historyVars
<1>3. CASE Exit \/ PowerLoss
  <2>1. /\ pc' = "down" /\ state' = NoState
        /\ Fresh
        /\ UNCHANGED <<now, starts, disk, status, sent, answered>>
        /\ publication' # None => publication' \in sent
    BY <1>3 DEF Exit, PowerLoss, End, clockVars, historyVars, Core
  <2>a. /\ stop' \in BOOLEAN
        /\ native_low' \in BOOLEAN /\ numeric_critical' \in BOOLEAN
    BY <2>1, Zenon DEF Fresh
  <2>b. state' \in RequestStates
    BY <2>1 DEF NoState, RequestStates, Times
  <2>2. TypeOK'
    BY <2>1, <2>a, <2>b DEF Fresh, TypeOK, Pcs
  <2> QED
    BY <2>1, <2>2 DEF Core, PublishedRetained, Synced, Replaceable, Decided, Ahead
<1> QED
  BY <1>1, <1>2, <1>3

\* The clocks and the host.
LEMMA WorldStep ==
  ASSUME TypeOK, Core, Tick \/ Rollback \/ Environment
  PROVE  TypeOK' /\ Core'
<1>1. CASE Tick
  <2>1. now' \in Times
    BY <1>1 DEF Tick, TypeOK, Times, least
  <2>2. retry' \in Retries \cup {None}
    <3>1. CASE retry # None /\ retry.left > 0
      BY <1>1, <3>1 DEF Tick, TypeOK, Retries
    <3>2. CASE ~(retry # None /\ retry.left > 0)
      BY <1>1, <3>2 DEF Tick, TypeOK
    <3> QED
      BY <3>1, <3>2
  <2>3. TypeOK'
    BY <1>1, <2>1, <2>2 DEF Tick, TypeOK, historyVars
  <2> QED
    BY <1>1, <2>3, CoreUnchanged DEF Tick, historyVars
<1>2. CASE Rollback
  <2>1. TypeOK'
    BY <1>2 DEF Rollback, TypeOK, Times, policyVars, historyVars
  <2> QED
    BY <1>2, <2>1, CoreUnchanged DEF Rollback, historyVars
<1>3. CASE Environment
  <2>1. status' \in Statuses
    BY <1>3 DEF Environment, Statuses, Results, TypeOK
  <2>2. TypeOK'
    BY <1>3, <2>1 DEF Environment, guestVars, clockVars, policyVars, historyVars,
                      TypeOK
  <2> QED
    BY <1>3, <2>2, CoreUnchanged DEF Environment, guestVars, historyVars
<1> QED
  BY <1>1, <1>2, <1>3

-----------------------------------------------------------------------------
\* One poll

\* Retransmitting, or holding an empty slot.
LEMMA IdleStep ==
  ASSUME TypeOK, Core, Await \/ Hold
  PROVE  TypeOK' /\ Core'
<1>1. /\ pc = "idle" /\ ~stop
      /\ pc' = "publish" /\ decision' = state.pending
      /\ UNCHANGED <<now, starts, stop, state, disk, next_sequence, retry,
                     retry_delay, publication, status, sent, answered>>
  BY DEF Await, Hold, Polling, clockVars, historyVars
<1>2. native_low' \in BOOLEAN /\ numeric_critical' \in BOOLEAN
  BY SampleType DEF Await, Hold
<1>3. TypeOK'
  BY <1>1, <1>2 DEF TypeOK, Pcs, RequestStates
<1> QED
  BY <1>1, <1>3 DEF Core, PublishedRetained, Synced, Replaceable, Decided, Ahead

\* Consuming a result: the file still holds the request, which is answered now.
LEMMA ConsumeStep ==
  ASSUME TypeOK, Core, Consume
  PROVE  TypeOK' /\ Core'
<1>1. PICK seen \in Read :
        /\ Resolves(ResultIn(seen))
        /\ answered' = answered \cup {ResultIn(seen).request}
        /\ retry_delay' = IF ResultIn(seen).outcome = "Completed" THEN 0
                          ELSE NextDelay
        /\ retry' = IF ResultIn(seen).outcome = "Completed" THEN None
                    ELSE [operation |-> ResultIn(seen).request.operation,
                          left |-> NextDelay]
  BY DEF Consume
<1>2. ResultIn(seen).request = state.pending /\ state.pending \in Requests
  BY <1>1 DEF Consume, Resolves, TypeOK, RequestStates
<1>3. /\ pc = "idle" /\ ~stop
      /\ pc' = "persist" /\ decision' = None
      /\ state' = [state EXCEPT !.pending = None]
      /\ UNCHANGED <<now, starts, stop, disk, next_sequence, publication, status,
                     sent>>
  BY DEF Consume, Polling, clockVars
<1>4. native_low' \in BOOLEAN /\ numeric_critical' \in BOOLEAN
  BY SampleType DEF Consume
<1>5. retry_delay' \in 0 .. MaxDelay /\ retry' \in Retries \cup {None}
  BY <1>1, <1>2, DelayType DEF TypeOK, Retries, Requests
<1>6. /\ state' \in RequestStates
      /\ state'.pending = None /\ state'.watermark = state.watermark
  BY <1>3 DEF TypeOK, RequestStates
<1>7. answered' = answered \cup {state.pending}
  BY <1>1, <1>2
<1>8. TypeOK'
  BY <1>2, <1>3, <1>4, <1>5, <1>6, <1>7 DEF TypeOK, Pcs
<1>9. state = disk
  BY <1>3 DEF Core, Synced
<1> QED
  BY <1>3, <1>6, <1>7, <1>8, <1>9 DEF Core, PublishedRetained, Synced, Replaceable,
     Decided, Ahead

\* Issuing a request: its time is later than the watermark.
LEMMA IssueStep ==
  ASSUME TypeOK, Core, Issue
  PROVE  TypeOK' /\ Core'
<1>1. PICK seen \in Read, fresh \in FreshNow, estimate \in Estimates,
           low \in Lows, critical \in Criticals :
        /\ Permitted(Plan(seen, fresh, estimate, low), low, critical)
        /\ Sample(low, critical)
        /\ decision' = [session |-> starts, sequence |-> next_sequence,
                        issued |-> now,
                        operation |-> Plan(seen, fresh, estimate, low).operation,
                        bytes |-> Plan(seen, fresh, estimate, low).bytes]
  BY DEF Issue
<1>2. /\ pc = "idle" /\ ~stop /\ state.pending = None
      /\ pc' = "persist"
      /\ state' = [pending |-> decision', watermark |-> now]
      /\ next_sequence' = next_sequence + 1
      /\ UNCHANGED <<now, starts, stop, disk, retry, retry_delay, publication,
                     status, sent, answered>>
  BY DEF Issue, Polling, Issued, clockVars, historyVars
<1>3. now > state.watermark
  BY <1>1 DEF Permitted, ClockPassed
<1>4. decision' \in Requests
  <2>1. /\ seen \in Statuses \cup {None} /\ fresh \in BOOLEAN
        /\ low \in BOOLEAN /\ critical \in BOOLEAN
    BY DEF Read, FreshNow, TypeOK, Lows, Criticals
  <2>2. Plan(seen, fresh, estimate, low)
          \in [operation : Operations, bytes : 1 .. DeviceBlocks]
    BY <1>1, <2>1, PlanPermitted
  <2> QED
    BY <1>1, <2>2 DEF Requests, TypeOK
<1>5. native_low' \in BOOLEAN /\ numeric_critical' \in BOOLEAN
  BY <1>1, SampleType
<1>6. state' \in RequestStates
  BY <1>2, <1>4 DEF RequestStates, TypeOK
<1>7. TypeOK'
  BY <1>2, <1>4, <1>5, <1>6 DEF TypeOK, Pcs
<1>8. state = disk /\ decision'.issued = now
  BY <1>1, <1>2 DEF Core, Synced
<1>9. \A r \in sent : r.issued \in Nat /\ r.issued < now
  BY <1>3, <1>8 DEF Core, Ahead, TypeOK, Requests, Times, RequestStates
<1>10. Ahead(state)'
  BY <1>2, <1>4, <1>8, <1>9 DEF Ahead, TypeOK, Times
<1>11. Replaceable' /\ Synced' /\ Decided' /\ PublishedRetained'
  BY <1>2, <1>8 DEF Core, PublishedRetained, Synced, Replaceable, Decided
<1>12. Ahead(disk)'
  BY <1>2 DEF Core, Ahead
<1> QED
  BY <1>2, <1>7, <1>10, <1>11, <1>12 DEF Core

\* Replacing the state file, or abandoning it.
LEMMA PersistStep ==
  ASSUME TypeOK, Core, Persist \/ PersistAbandoned
  PROVE  TypeOK' /\ Core'
<1>1. TypeOK'
  BY DEF Persist, PersistAbandoned, TypeOK, Pcs, clockVars, policyVars, historyVars
<1>2. CASE Persist
  <2>1. PublishedRetained'
    BY <1>2 DEF Persist, historyVars, Core, PublishedRetained, Replaceable, TypeOK
  <2> QED
    BY <1>1, <1>2, <2>1 DEF Persist, historyVars, Core, Synced, Replaceable, Decided,
                            Ahead
<1>3. CASE PersistAbandoned
  BY <1>1, <1>3 DEF PersistAbandoned, historyVars, Core, PublishedRetained, Synced,
                    Replaceable, Decided, Ahead
<1> QED
  BY <1>2, <1>3

\* Replacing the publication: what is published is on disk.
LEMMA PublishStep ==
  ASSUME TypeOK, Core, Publish \/ PublishAbandoned
  PROVE  TypeOK' /\ Core'
<1>1. CASE Publish
  <2>1. /\ pc = "publish" /\ ~stop
        /\ publication' = decision /\ pc' = "idle"
        /\ sent' = IF decision = None THEN sent ELSE sent \cup {decision}
        /\ UNCHANGED <<now, starts, stop, state, disk, policyVars, decision, status,
                       answered>>
    BY <1>1 DEF Publish, UnlessStopped, clockVars
  <2>2. decision = disk.pending /\ state = disk
    BY <2>1 DEF Core, Synced, Decided
  <2>3. TypeOK'
    BY <2>1 DEF TypeOK, Pcs, policyVars
  <2>4. PublishedRetained' /\ Synced' /\ Replaceable' /\ Decided'
    BY <2>1, <2>2 DEF Core, PublishedRetained, Synced, Replaceable, Decided
  <2>5. Ahead(disk)' /\ Ahead(state)'
    BY <2>1, <2>2 DEF Core, Ahead, TypeOK, RequestStates, Times
  <2> QED
    BY <2>1, <2>3, <2>4, <2>5 DEF Core
<1>2. CASE PublishAbandoned
  <2>1. TypeOK'
    BY <1>2 DEF PublishAbandoned, TypeOK, Pcs, clockVars, policyVars, historyVars
  <2> QED
    BY <1>2, <2>1, CoreUnchanged DEF PublishAbandoned, historyVars
<1> QED
  BY <1>1, <1>2

-----------------------------------------------------------------------------
\* The invariant and what follows from it

\* Every step, and every stuttering step, keeps the inductive invariant.
LEMMA NextInvariant == IInv /\ [Next]_vars => IInv'
<1> SUFFICES ASSUME IInv, [Next]_vars
             PROVE  TypeOK' /\ Core'
  BY DEF IInv, Core
<1>0. TypeOK /\ Core
  BY DEF IInv, Core
<1>1. CASE Guest
  <2>1. CASE Start \/ Stop \/ Exit \/ PowerLoss
    BY <1>0, <2>1, ProcessStep
  <2>2. CASE Tick \/ Rollback
    BY <1>0, <2>2, WorldStep
  <2>3. CASE Await \/ Hold
    BY <1>0, <2>3, IdleStep
  <2>4. CASE Consume
    BY <1>0, <2>4, ConsumeStep
  <2>5. CASE Issue
    BY <1>0, <2>5, IssueStep
  <2>6. CASE Persist \/ PersistAbandoned
    BY <1>0, <2>6, PersistStep
  <2>7. CASE Publish \/ PublishAbandoned
    BY <1>0, <2>7, PublishStep
  <2> QED
    BY <1>1, <2>1, <2>2, <2>3, <2>4, <2>5, <2>6, <2>7 DEF Guest, Poll
<1>2. CASE Environment
  BY <1>0, <1>2, WorldStep
<1>3. CASE UNCHANGED vars
  <2>1. TypeOK'
    BY <1>0, <1>3 DEF vars, guestVars, clockVars, policyVars, historyVars, TypeOK
  <2> QED
    BY <1>0, <1>3, <2>1, CoreUnchanged DEF vars, guestVars, historyVars
<1> QED
  BY <1>1, <1>2, <1>3 DEF Next

\* The inductive invariant holds in every reachable state.
THEOREM Invariant == Spec => []IInv
BY InitInvariant, NextInvariant, PTL DEF Spec

\* Every variable keeps its type: plan_request, the retry delays and the clock
\* handling never leave their ranges.
THEOREM TypeCorrect == Spec => []TypeOK
<1>1. IInv => TypeOK
  BY DEF IInv
<1> QED
  BY Invariant, <1>1, PTL

\* GuestRequests::poll's promise: a request the host may have read is on disk until
\* its own result was consumed.
THEOREM RequestsRetained == Spec => []PublishedRetained
<1>1. IInv => PublishedRetained
  BY DEF IInv
<1> QED
  BY Invariant, <1>1, PTL

\* Requests are published in the order of their issue times.
THEOREM PublishedInOrder == Spec => IssuedInOrder
<1>1. IInv /\ [Next]_vars =>
        [\A r \in sent' \ sent, s \in sent : s.issued < r.issued]_vars
  <2> SUFFICES ASSUME IInv, [Next]_vars,
                      NEW r \in sent' \ sent, NEW s \in sent
               PROVE  s.issued < r.issued
    OBVIOUS
  <2>1. sent' # sent
    OBVIOUS
  <2>2. Publish
    BY <2>1 DEF Next, Guest, Poll, vars, guestVars, historyVars, Start, Stop, Exit,
                PowerLoss, End, Await, Hold, Consume, Issue, Persist,
                PersistAbandoned, PublishAbandoned, Tick, Rollback, Environment
  <2>3. r = decision /\ decision # None /\ decision = disk.pending
    BY <2>2 DEF Publish, UnlessStopped, IInv, Synced, Decided
  <2>4. s # disk.pending
    BY <2>3
  <2> QED
    BY <2>3, <2>4 DEF IInv, Ahead
<1> QED
  BY Invariant, <1>1, PTL DEF Spec, IssuedInOrder

-----------------------------------------------------------------------------
\* The two sides: the inductive invariant of the composition

USE HostFaultsAssumption, NoOutcomeAssumption

\* The host has answered a request for good: with a result in its journal, by having
\* moved on to a newer request, or by a refusal.
Done(r) ==
  \/ r = journal.request /\ journal.outcome \in Host!Final
  \/ journal.request # None /\ r # journal.request /\ r.issued <= journal.request.issued
  \/ r \in refused

\* The journal holds a published request that was not refused.
Journalled ==
  /\ journal \in [request : Requests \cup {None}, outcome : Outcomes \cup {None}]
  /\ journal.request # None => journal.request \in sent
  /\ journal.request \notin refused

\* A request in hand is newer than a resolved journal.
InHand ==
  hand # None =>
    /\ hand \in sent /\ hand \notin refused
    /\ ~command /\ ~latched /\ ~Host!Unresolved
    /\ journal.request # None => hand.issued > journal.request.issued

Commanded == command => journal.request # None /\ journal.outcome \notin Host!Final

\* A final result that the guest can read is about a request that is done, and is the
\* journal's own if it is about the journalled one.
StatusDone ==
  LET result == ResultIn(status)
  IN result # None /\ result.outcome # "Uncertain" =>
       /\ result.request \in Requests
       /\ Done(result.request)
       /\ result.request = journal.request => result.outcome = journal.outcome
AnsweredDone == \A r \in answered : Done(r)

HostInv ==
  /\ Journalled /\ InHand /\ Commanded /\ StatusDone /\ AnsweredDone
  /\ command \in BOOLEAN /\ latched \in BOOLEAN
  /\ refused \subseteq Requests

\* A refusal that may be followed by an admission is outside the theorems on results.
FinalRefusals == "transient" \notin HostFaults

-----------------------------------------------------------------------------
\* Each side within the composition

\* What the host needs to know so that it writes only about requests it has seen.
Seen ==
  /\ journal \in [request : sent \cup {None}, outcome : Outcomes \cup {None}]
  /\ hand \in sent \cup {None}

\* A host that only writes about requests it has seen is the guest's environment.
LEMMA HostIsEnvironment ==
  ASSUME IInv, Seen, HostStep
  PROVE  [Next]_vars
<1>1. publication # None => publication \in sent
  BY DEF IInv
<1>2. CASE UNCHANGED vars
  BY <1>2
<1>3. ASSUME NEW result \in [request : sent, outcome : Outcomes] \cup {None},
             status' \in Written(result), UNCHANGED guestVars
      PROVE  Environment
  BY <1>3 DEF Written, Devices, Environment
<1>4. CASE HostRefuse
  <2>1. PICK r \in {publication, hand} \ {None} :
          status' \in Written([request |-> r, outcome |-> "Rejected"])
    BY <1>4 DEF HostRefuse
  <2>2. [request |-> r, outcome |-> "Rejected"] \in [request : sent, outcome : Outcomes]
    BY <1>1, <2>1 DEF Seen, Outcomes
  <2> QED
    BY <1>3, <1>4, <2>1, <2>2 DEF HostRefuse, Next
<1>5. CASE Recording(hand) \/ Recording(journal.request)
  <2>1. CASE status' = status
    BY <1>5, <2>1 DEF Recording, vars
  <2>2. CASE status' # status
    <3>1. PICK r \in {journal.request, hand} \ {None}, outcome \in Outcomes :
            status' \in Written([request |-> r, outcome |-> outcome])
      BY <1>5, <2>2 DEF Recording
    <3>2. [request |-> r, outcome |-> outcome] \in [request : sent, outcome : Outcomes]
      BY <3>1 DEF Seen
    <3> QED
      BY <1>3, <1>5, <3>1, <3>2 DEF Recording, Next
  <2> QED
    BY <2>1, <2>2
<1>6. CASE HostReport
  <2>1. JournalResult \in [request : sent, outcome : Outcomes] \cup {None}
    BY DEF JournalResult, Host!Reported, Seen
  <2> QED
    BY <1>3, <1>6, <2>1 DEF HostReport, Next
<1> QED
  BY <1>2, <1>4, <1>5, <1>6 DEF HostStep, HostTake, HostDrop, HostAct, HostFinish,
     HostLatch, HostClear

\* What the guest publishes only grows.
LEMMA SentGrows ==
  ASSUME ProtocolNext \/ UNCHANGED protocolVars
  PROVE  sent \subseteq sent'
BY DEF ProtocolNext, GuestStep, Guest, Poll, Start, Stop, Exit, PowerLoss, End, Await, Hold,
   Consume, Issue, Persist, PersistAbandoned, Publish, PublishAbandoned, Tick, Rollback,
   HostStep, HostTake, HostDrop, HostRefuse, HostAct, HostFinish, HostLatch, HostClear,
   HostReport, Recording, vars, guestVars, historyVars, protocolVars

\* The host journals only what it took from the slot, or nothing.
LEMMA HostJournal ==
  ASSUME Seen, HostStep
  PROVE  /\ hand' \in {hand, None} \/ (HostTake /\ hand' = publication)
         /\ \/ journal' = journal
            \/ /\ journal'.request \in {journal.request, hand}
               /\ journal' = [request |-> journal'.request, outcome |-> journal'.outcome]
               /\ journal'.outcome \in Outcomes \cup {None}
<1>1. Host!Final \subseteq Outcomes /\ "Uncertain" \in Outcomes
  BY DEF Host!Final, Outcomes
<1>2. CASE HostTake \/ HostDrop \/ HostRefuse \/ HostReport
  BY <1>2 DEF HostTake, HostDrop, HostRefuse, HostReport, Host!Take, Host!Drop,
     Host!Refuse, Host!Report
<1>3. CASE Host!Begin
  BY <1>3 DEF Host!Begin
<1>4. CASE Host!Decline
  BY <1>1, <1>4 DEF Host!Decline, Host!Record, Host!Final
<1>5. CASE Host!Finish
  BY <1>1, <1>5 DEF Host!Finish, Host!Record, Host!Final
<1>6. CASE Host!Latch
  BY <1>1, <1>6 DEF Host!Latch, Host!Record, Seen
<1>7. CASE Host!Clear
  BY <1>1, <1>7 DEF Host!Clear, Host!Record, Host!Final
<1> QED
  BY <1>2, <1>3, <1>4, <1>5, <1>6, <1>7 DEF HostStep, HostAct, HostFinish, HostLatch,
     HostClear

\* The host keeps knowing only requests the guest has published.
LEMMA SeenStep ==
  ASSUME IInv, Seen, ProtocolNext \/ UNCHANGED protocolVars
  PROVE  Seen'
<1>1. sent \subseteq sent'
  BY SentGrows
<1>2. CASE HostStep
  <2>1. hand' \in sent \cup {None}
    BY <1>2, HostJournal DEF Seen, IInv, HostTake, Host!Take
  <2>2. journal' \in [request : sent \cup {None}, outcome : Outcomes \cup {None}]
    BY <1>2, HostJournal DEF Seen
  <2> QED
    BY <1>1, <2>1, <2>2 DEF Seen
<1>3. CASE UNCHANGED <<journal, hand>>
  BY <1>1, <1>3 DEF Seen
<1> QED
  BY <1>2, <1>3 DEF ProtocolNext, GuestStep, protocolVars, hostVars

\* A step of the composition is one of the guest's.
LEMMA ProtocolGuest ==
  ASSUME IInv, Seen, [ProtocolNext]_protocolVars
  PROVE  [Next]_vars
  BY HostIsEnvironment DEF ProtocolNext, GuestStep, Next, protocolVars

\* Opposite the host, the guest is still the guest that GuestRequester specifies, of
\* which every theorem above holds.
THEOREM GuestWithinProtocol == ProtocolSpec => Spec /\ [](IInv /\ Seen)
<1>1. ProtocolInit => Init /\ IInv /\ Seen
  BY InitInvariant DEF ProtocolInit, Seen
<1>2. IInv /\ Seen /\ [ProtocolNext]_protocolVars => IInv' /\ Seen' /\ [Next]_vars
  BY ProtocolGuest, NextInvariant, SeenStep
<1> QED
  BY <1>1, <1>2, PTL DEF ProtocolSpec, Spec

\* Only the host writes the status file.
LEMMA GuestKeepsStatus ==
  ASSUME Guest
  PROVE  status' = status
BY DEF Guest, Poll, Start, Stop, Exit, PowerLoss, End, Await, Hold, Consume, Issue, Persist,
   PersistAbandoned, Publish, PublishAbandoned, Tick, Rollback

\* Opposite the guest, the host is still the host that RequestHost specifies and that
\* VmController implements.
THEOREM HostWithinProtocol == ProtocolSpec => Host!Spec
<1>1. ProtocolInit => Host!Init
  BY DEF ProtocolInit, Init, Host!Init, ResultIn
<1>2. IInv' /\ [ProtocolNext]_protocolVars => [Host!Next]_<<publication, Host!hostVars>>
  <2> SUFFICES ASSUME IInv', [ProtocolNext]_protocolVars
               PROVE  [Host!Next]_<<publication, Host!hostVars>>
    OBVIOUS
  <2>1. CASE HostStep
    BY <2>1 DEF HostStep, HostTake, HostDrop, HostRefuse, HostAct, HostFinish, HostLatch,
       HostClear, HostReport, Host!Next, Host!Host
  <2>2. CASE GuestStep
    <3>1. publication' \in Requests \cup {None}
      BY DEF IInv, TypeOK
    <3>2. UNCHANGED <<journal, command, latched, hand, status>>
      BY <2>2, GuestKeepsStatus DEF GuestStep, hostVars
    <3> QED
      BY <3>1, <3>2 DEF Host!Next, Host!Guest, Host!hostVars, ResultIn
  <2>3. CASE UNCHANGED protocolVars
    BY <2>3 DEF protocolVars, vars, guestVars, hostVars, Host!hostVars, ResultIn
  <2> QED
    BY <2>1, <2>2, <2>3 DEF ProtocolNext
<1> QED
  BY GuestWithinProtocol, <1>1, <1>2, PTL DEF ProtocolSpec, Host!Spec

\* With a host that behaves, whatever it may have read is on the guest's disk.
THEOREM RetainedWithHost == ProtocolSpec => []PublishedRetained
  BY GuestWithinProtocol, RequestsRetained, PTL

-----------------------------------------------------------------------------
\* What the guest retains, the host will admit

Id(r) == <<r.session, r.sequence>>

\* The requests in existence: published, on disk or in memory.
Known == sent \cup ({disk.pending, state.pending} \ {None})

\* No two of them share an identity, and the next one issued will share none: a
\* process has a session of its own, and counts.
Numbered ==
  /\ \A r \in Known :
       /\ r.session <= starts
       /\ pc # "down" /\ r.session = starts => r.sequence < next_sequence
  /\ \A r, s \in Known : Id(r) = Id(s) => r = s

\* A step that issues nothing and begins no session knows no other request.
LEMMA NothingIssued ==
  ASSUME Core, Guest \/ Environment \/ UNCHANGED vars, ~Issue
  PROVE  Known' \subseteq Known
<1>1. CASE Start
  BY <1>1 DEF Start, Known, historyVars
<1>2. CASE Exit \/ PowerLoss
  BY <1>2 DEF Exit, PowerLoss, End, NoState, Known, historyVars
<1>3. CASE Persist
  BY <1>3 DEF Persist, Known, historyVars
<1>4. CASE Publish
  BY <1>4 DEF Publish, Known, Core, Decided
<1>5. CASE Consume
  <2>1. sent' = sent /\ disk' = disk /\ state' = [state EXCEPT !.pending = None]
    BY <1>5 DEF Consume
  <2> QED
    BY <2>1 DEF Known
<1>6. CASE UNCHANGED <<sent, disk, state>>
  BY <1>6 DEF Known
<1> QED
  BY <1>1, <1>2, <1>3, <1>4, <1>5, <1>6 DEF Guest, Poll, Stop, Await, Hold,
     PersistAbandoned, PublishAbandoned, Tick, Rollback, Environment, vars, guestVars,
     historyVars

\* Nor does it change the count, but for the start of a session.
LEMMA SameCount ==
  ASSUME Guest \/ Environment \/ UNCHANGED vars, ~Issue
  PROVE  \/ Start
         \/ starts' = starts /\ pc' = "down"
         \/ starts' = starts /\ pc # "down" /\ next_sequence' = next_sequence
         \/ UNCHANGED <<starts, pc, next_sequence>>
BY DEF Guest, Poll, Stop, Exit, PowerLoss, End, Await, Hold, Consume, Persist,
   PersistAbandoned, Publish, PublishAbandoned, Tick, Rollback, Environment, vars,
   guestVars, clockVars, policyVars, Polling

\* Every step of the guest and its world keeps the requests numbered.
LEMMA NumberedStep ==
  ASSUME IInv, IInv', Numbered, [Next]_vars
  PROVE  Numbered'
<1>1. Core /\ (Guest \/ Environment \/ UNCHANGED vars)
  BY DEF IInv, Core, Next
<1>2. /\ Known \subseteq Requests /\ Known' \subseteq Requests
      /\ starts \in Nat /\ next_sequence \in Nat
  BY DEF IInv, TypeOK, RequestStates, Known
<1>3. \A r \in Requests : r.session \in Nat /\ r.sequence \in Nat
  BY DEF Requests
<1>4. CASE Issue
  <2>1. /\ decision'.session = starts /\ decision'.sequence = next_sequence
        /\ starts' = starts /\ next_sequence' = next_sequence + 1
        /\ pc = "idle" /\ state'.pending = decision'
        /\ sent' = sent /\ disk' = disk
    BY <1>4 DEF Issue, Issued, Polling, clockVars, historyVars
  <2>2. Known' \subseteq Known \cup {decision'}
    BY <2>1 DEF Known
  <2>3. \A r \in Known : Id(r) # Id(decision')
    BY <1>2, <1>3, <2>1 DEF Numbered, Id
  <2>4. \A r \in Known' : r.session <= starts' /\ (r.session = starts' => r.sequence < next_sequence')
    <3> SUFFICES ASSUME NEW r \in Known'
                 PROVE  r.session <= starts' /\ (r.session = starts' => r.sequence < next_sequence')
      OBVIOUS
    <3>1. CASE r \in Known
      BY <1>2, <1>3, <2>1, <3>1 DEF Numbered
    <3>2. CASE r = decision'
      BY <1>2, <2>1, <3>2
    <3> QED
      BY <2>2, <3>1, <3>2
  <2>5. \A r, s \in Known' : Id(r) = Id(s) => r = s
    BY <2>2, <2>3 DEF Numbered
  <2> QED
    BY <2>4, <2>5 DEF Numbered, Id
<1>5. CASE ~Issue
  <2>1. Known' \subseteq Known
    BY <1>1, <1>5, NothingIssued
  <2>2. \A r, s \in Known' : Id(r) = Id(s) => r = s
    BY <2>1 DEF Numbered
  <2>3. \A r \in Known' :
          /\ r.session <= starts'
          /\ pc' # "down" /\ r.session = starts' => r.sequence < next_sequence'
    <3>1. CASE Start
      <4>1. starts' = starts + 1
        BY <3>1 DEF Start
      <4> QED
        BY <1>2, <1>3, <2>1, <4>1 DEF Numbered
    <3>2. CASE ~Start
      BY <1>1, <1>5, <2>1, <3>2, SameCount DEF Numbered
    <3> QED
      BY <3>1, <3>2
  <2> QED
    BY <2>2, <2>3 DEF Numbered, Id
<1> QED
  BY <1>4, <1>5

\* What the guest retains is, once the host has resolved the last request, one the host
\* will admit: newer than the journalled one and of another identity, whatever restarts,
\* clock rollbacks and power losses came between, and whatever the host answered.
THEOREM AlwaysAdmissible == ProtocolSpec => []RetainedAdmissible
<1>1. IInv /\ Seen /\ Numbered => RetainedAdmissible
  <2> SUFFICES ASSUME IInv, Seen, Numbered, ~Host!Unresolved,
                      disk.pending # None, disk.pending # journal.request
               PROVE  Host!Admissible(disk.pending)
    BY DEF RetainedAdmissible
  <2> SUFFICES ASSUME journal.request # None
               PROVE  /\ Id(disk.pending) # Id(journal.request)
                      /\ disk.pending.issued > journal.request.issued
    BY DEF Host!Admissible, Id
  <2>1. journal.request \in sent
    BY DEF Seen
  <2>2. Id(disk.pending) # Id(journal.request)
    BY <2>1 DEF Numbered, Known
  <2>3. /\ journal.request.issued < disk.pending.issued
        /\ journal.request \in Requests /\ disk.pending \in Requests
    BY <2>1 DEF IInv, Ahead, TypeOK, RequestStates
  <2> QED
    BY <2>2, <2>3 DEF Requests, Times
<1>2. ProtocolInit => Numbered
  BY DEF ProtocolInit, Init, NoState, Numbered, Known
<1>3. IInv /\ IInv' /\ Numbered /\ [Next]_vars => Numbered'
  BY NumberedStep
<1> QED
  BY GuestWithinProtocol, <1>1, <1>2, <1>3, PTL DEF ProtocolSpec, Spec

-----------------------------------------------------------------------------
\* What the two agree on

\* The guest's steps leave the host's state alone.
LEMMA InvGuest ==
  ASSUME IInv, Seen, HostInv, GuestStep \/ UNCHANGED protocolVars
  PROVE  HostInv'
<1>1. UNCHANGED <<journal, command, latched, hand, refused, status>> /\ sent \subseteq sent'
  <2>1. sent \subseteq sent'
    BY SentGrows DEF ProtocolNext
  <2> QED
    BY <2>1, GuestKeepsStatus DEF GuestStep, hostVars, protocolVars, vars
<1>2. Journalled' /\ InHand' /\ Commanded'
  BY <1>1 DEF HostInv, Journalled, InHand, Commanded, Host!Unresolved, Host!Final
<1>3. StatusDone'
  BY <1>1 DEF HostInv, StatusDone, Done, ResultIn, Host!Final
<1>4. AnsweredDone'
  <2>1. CASE answered' = answered
    BY <1>1, <2>1 DEF HostInv, AnsweredDone, Done, Host!Final
  <2>2. CASE Consume
    <3>1. PICK seen \in Read :
            /\ Resolves(ResultIn(seen))
            /\ answered' = answered \cup {ResultIn(seen).request}
      BY <2>2 DEF Consume
    <3>2. /\ ResultIn(seen) = ResultIn(status) /\ ResultIn(status) # None
          /\ ResultIn(status).outcome # "Uncertain"
      BY <3>1 DEF Resolves, Read, ResultIn
    <3>3. Done(ResultIn(seen).request)
      BY <3>2 DEF HostInv, StatusDone
    <3>4. \A r \in answered' : Done(r)
      BY <3>1, <3>3 DEF HostInv, AnsweredDone
    <3> QED
      BY <1>1, <3>4 DEF AnsweredDone, Done, Host!Final
  <2>3. CASE ~Consume /\ (GuestStep \/ UNCHANGED protocolVars)
    <3>1. answered' = answered
      BY <2>3 DEF GuestStep, Guest, Poll, Start, Stop, Exit, PowerLoss, End, Await, Hold,
         Issue, Persist, PersistAbandoned, Publish, PublishAbandoned, Tick, Rollback,
         historyVars, protocolVars, vars, guestVars
    <3> QED
      BY <2>1, <3>1
  <2> QED
    BY <2>2, <2>3
<1> QED
  BY <1>1, <1>2, <1>3, <1>4 DEF HostInv

\* A refused request, or an older one, is not what the slot's request is when taken.
LEMMA InvTake ==
  ASSUME FinalRefusals, IInv, HostInv, HostTake
  PROVE  HostInv'
<1>1. /\ hand' = publication /\ publication # None /\ Host!Admissible(publication)
      /\ command = FALSE /\ latched = FALSE /\ publication \notin refused
      /\ UNCHANGED <<journal, command, latched, status, refused, sent, answered>>
  BY DEF HostTake, Host!Take, FinalRefusals, vars, guestVars, historyVars, HostInv
<1>2. InHand'
  BY <1>1 DEF InHand, Host!Admissible, Host!Unresolved, Host!Final, IInv
<1>3. Journalled' /\ Commanded' /\ AnsweredDone'
  BY <1>1 DEF HostInv, Journalled, Commanded, AnsweredDone, Done, Host!Final
<1>4. StatusDone'
  BY <1>1 DEF HostInv, StatusDone, Done, ResultIn, Host!Final
<1>5. command' \in BOOLEAN /\ latched' \in BOOLEAN /\ refused' \subseteq Requests
  BY <1>1 DEF HostInv
<1> QED
  BY <1>2, <1>3, <1>4, <1>5 DEF HostInv

\* Dropping what is in hand, or publishing the journal.
LEMMA InvReport ==
  ASSUME IInv, HostInv, HostDrop \/ HostReport
  PROVE  HostInv'
<1>1. /\ hand' = None
      /\ UNCHANGED <<journal, command, latched, refused, sent, answered>>
  BY DEF HostDrop, Host!Drop, HostReport, Host!Report, vars, guestVars, historyVars
<1>2. Journalled' /\ InHand' /\ Commanded' /\ AnsweredDone'
  BY <1>1 DEF HostInv, Journalled, InHand, Commanded, AnsweredDone, Done, Host!Final
<1>3. CASE HostDrop
  <2>1. StatusDone'
    BY <1>1, <1>3 DEF HostDrop, HostInv, StatusDone, Done, ResultIn, Host!Final, vars
  <2> QED
    BY <1>1, <1>2, <2>1 DEF HostInv
<1>4. CASE HostReport
  <2>1. ResultIn(status') = Host!Reported(journal.request, journal.outcome)
    BY <1>4 DEF HostReport, Host!Report
  <2>2. ResultIn(status') # None =>
          /\ ResultIn(status').request = journal.request
          /\ ResultIn(status').outcome = journal.outcome
          /\ journal.outcome \in Outcomes /\ journal.request \in Requests
    BY <2>1 DEF Host!Reported, HostInv, Journalled
  <2>3. StatusDone'
    BY <1>1, <2>2 DEF StatusDone, Done, ResultIn, Host!Final, Outcomes
  <2> QED
    BY <1>1, <1>2, <2>3 DEF HostInv
<1> QED
  BY <1>1, <1>2, <1>3, <1>4 DEF HostInv

\* A refusal is about a request that is not journalled and that nobody holds any more.
LEMMA InvRefuse ==
  ASSUME FinalRefusals, IInv, HostInv, HostRefuse
  PROVE  HostInv'
<1>1. PICK r \in {publication, hand} \ {None} :
        /\ status' \in Written([request |-> r, outcome |-> "Rejected"])
        /\ refused' = refused \cup {r}
  BY DEF HostRefuse
<1>2. ResultIn(status') = [request |-> r, outcome |-> "Rejected"]
  <2>1. PICK q \in Blocks, c \in Blocks :
          status' = [requested |-> q, current |-> c,
                     result |-> [request |-> r, outcome |-> "Rejected"]]
    BY <1>1 DEF Written, Devices
  <2>2. [request |-> r, outcome |-> "Rejected"] \in Results
    BY <1>1 DEF IInv, TypeOK, HostInv, InHand, Results, Outcomes
  <2>3. status' \in Statuses
    BY <2>1, <2>2 DEF Statuses
  <2> QED
    BY <2>1, <2>3 DEF ResultIn
<1>3. /\ hand' = None
      /\ UNCHANGED <<journal, command, latched, sent, answered>>
  BY DEF HostRefuse, Host!Refuse, guestVars, historyVars
<1>4. r \in Requests /\ r # journal.request
  <2>1. r \in Requests
    BY <1>1 DEF IInv, TypeOK, HostInv, InHand
  <2>2. CASE publication # None /\ journal # [request |-> publication, outcome |-> journal.outcome]
             /\ ResultIn(status') = Host!Reported(publication, "Rejected")
    <3>1. "Rejected" # None
      BY DEF Outcomes
    <3>2. r = publication
      BY <1>2, <2>2, <3>1 DEF Host!Reported
    <3> QED
      BY <2>1, <2>2, <3>2 DEF HostInv, Journalled
  <2>3. CASE hand # None /\ ResultIn(status') = Host!Reported(hand, "Rejected")
    <3>1. "Rejected" # None
      BY DEF Outcomes
    <3>2. r = hand
      BY <1>2, <2>3, <3>1 DEF Host!Reported
    <3>3. journal.request # None => hand.issued > journal.request.issued
      BY <2>3 DEF HostInv, InHand
    <3> QED
      BY <2>1, <2>3, <3>2, <3>3 DEF Requests, Times, HostInv, Journalled
  <2> QED
    BY <2>1, <2>2, <2>3 DEF HostRefuse, Host!Refuse
<1>5. Journalled' /\ InHand' /\ Commanded' /\ AnsweredDone'
  BY <1>1, <1>3, <1>4 DEF HostInv, Journalled, InHand, Commanded, AnsweredDone, Done,
     Host!Final
<1>6. StatusDone'
  BY <1>1, <1>2, <1>3, <1>4 DEF StatusDone, Done, ResultIn
<1> QED
  BY <1>1, <1>3, <1>4, <1>5, <1>6 DEF HostInv

\* A step that answers the journalled request, or one that the journal moves on to, keeps
\* done what is done.
LEMMA DoneStays ==
  ASSUME IInv, NEW r \in Requests, Done(r), HostInv, refused' = refused,
         \/ journal'.request = journal.request
            /\ (journal.outcome \in Host!Final => journal'.outcome \in Host!Final)
         \/ hand # None /\ journal'.request = hand
  PROVE  Done(r)'
<1>1. CASE journal'.request = journal.request
            /\ (journal.outcome \in Host!Final => journal'.outcome \in Host!Final)
  BY <1>1 DEF Done, Host!Final
<1>2. CASE hand # None /\ journal'.request = hand
  <2>1. /\ hand \in Requests
        /\ journal.request # None =>
             journal.request \in Requests /\ hand.issued > journal.request.issued
    BY <1>2 DEF HostInv, InHand, Journalled, IInv, TypeOK
  <2>2. r.issued \in Int /\ hand.issued \in Int
        /\ (journal.request # None => journal.request.issued \in Int)
    BY <2>1 DEF Requests, Times
  <2>3. r \in refused' \/ (r.issued < hand.issued)
    BY <2>1, <2>2 DEF Done
  <2> QED
    BY <1>2, <2>1, <2>2, <2>3 DEF Done
<1> QED
  BY <1>1, <1>2

\* What a recording host step leaves behind, once its journal is known: the report in the
\* status file is the old one or the new journal's.
LEMMA InvRecord ==
  ASSUME IInv, HostInv, UNCHANGED <<guestVars, refused>>,
         journal' \in [request : Requests \cup {None}, outcome : Outcomes \cup {None}],
         \/ journal'.request = journal.request
            /\ (journal.outcome \in Host!Final => journal'.outcome = journal.outcome)
         \/ hand # None /\ journal'.request = hand,
         ResultIn(status') \in {ResultIn(status),
                                Host!Reported(journal'.request, journal'.outcome)},
         hand' \in {hand, None},
         hand' # None => ~command' /\ ~latched' /\ journal' = journal,
         Commanded', command' \in BOOLEAN, latched' \in BOOLEAN
  PROVE  HostInv'
<1>1. UNCHANGED <<refused, sent, answered>>
  BY DEF guestVars, historyVars
<1>2. Journalled'
  BY <1>1 DEF HostInv, Journalled, InHand
<1>3. InHand'
  BY <1>1 DEF HostInv, InHand, Host!Unresolved, Host!Final
<1>4. \A r \in Requests : Done(r) => Done(r)'
  BY <1>1, DoneStays
<1>5. AnsweredDone'
  BY <1>1, <1>4 DEF HostInv, AnsweredDone, IInv, TypeOK
<1>6. StatusDone'
  <2>1. CASE ResultIn(status') = ResultIn(status)
    <3> DEFINE result == ResultIn(status)
    <3> SUFFICES ASSUME result # None, result.outcome # "Uncertain"
                 PROVE  /\ result.request \in Requests
                        /\ Done(result.request)'
                        /\ result.request = journal'.request =>
                             result.outcome = journal'.outcome
      BY <2>1 DEF StatusDone, Done, Host!Final
    <3>1. /\ result.request \in Requests /\ Done(result.request)
          /\ result.request = journal.request => result.outcome = journal.outcome
      BY DEF HostInv, StatusDone
    <3>2. Done(result.request)'
      <4>1. PICK r \in Requests : r = result.request
        BY <3>1
      <4>2. Done(r)'
        BY <1>4, <3>1, <4>1
      <4> QED
        BY <2>1, <4>1, <4>2 DEF Done, Host!Final
    <3>3. ASSUME result.request = journal'.request PROVE result.outcome = journal'.outcome
      <4>1. CASE journal'.request = journal.request
                 /\ (journal.outcome \in Host!Final => journal'.outcome = journal.outcome)
        <5>1. journal.outcome \in Host!Final
          BY <3>1, <3>3, <4>1 DEF Done, HostInv, Journalled
        <5> QED
          BY <3>1, <3>3, <4>1, <5>1
      <4>2. CASE hand # None /\ journal'.request = hand
        <5>1. hand \in Requests /\ hand \notin refused
              /\ (journal.request # None =>
                    journal.request \in Requests /\ hand.issued > journal.request.issued)
          BY <4>2 DEF HostInv, InHand, Journalled, IInv, TypeOK
        <5>2. hand.issued \in Int
              /\ (journal.request # None => journal.request.issued \in Int)
          BY <5>1 DEF Requests, Times
        <5> QED
          BY <3>1, <3>3, <4>2, <5>1, <5>2 DEF Done
      <4> QED
        BY <4>1, <4>2
    <3> QED
      BY <3>1, <3>2, <3>3
  <2>2. CASE ResultIn(status') = Host!Reported(journal'.request, journal'.outcome)
    <3>1. ResultIn(status') # None =>
            /\ ResultIn(status').request = journal'.request
            /\ ResultIn(status').outcome = journal'.outcome
            /\ journal'.outcome \in Outcomes /\ journal'.request \in Requests
      BY <2>2 DEF Host!Reported
    <3> QED
      BY <3>1 DEF StatusDone, Done, ResultIn, Host!Final, Outcomes
  <2> QED
    BY <2>1, <2>2
<1>7. refused' \subseteq Requests
  BY <1>1 DEF HostInv
<1> QED
  BY <1>2, <1>3, <1>5, <1>6, <1>7 DEF HostInv

\* Starting a command, or declining one.
LEMMA InvAct ==
  ASSUME IInv, HostInv, HostAct
  PROVE  HostInv'
<1>1. UNCHANGED <<guestVars, refused>> /\ hand # None /\ hand \in Requests /\ ~command
  BY DEF HostAct, Recording, Host!Begin, Host!Decline, HostInv, InHand, IInv, TypeOK
<1>2. CASE Host!Begin
  <2>1. /\ journal' = [request |-> hand, outcome |-> None] /\ command' = TRUE /\ hand' = None
        /\ latched' = latched /\ ResultIn(status') = ResultIn(status)
    BY <1>2 DEF Host!Begin
  <2>2. Commanded'
    BY <1>1, <2>1 DEF Commanded, Host!Final, Outcomes
  <2> QED
    BY <1>1, <2>1, <2>2, InvRecord DEF HostInv
<1>3. CASE Host!Decline
  <2>1. PICK outcome \in {"PoolEmpty", "Rejected"} :
          /\ journal' = [request |-> hand, outcome |-> outcome]
          /\ ResultIn(status') \in {ResultIn(status), Host!Reported(hand, outcome)}
    BY <1>3 DEF Host!Decline, Host!Record
  <2>2. hand' = None /\ command' = command /\ latched' = latched
    BY <1>3 DEF Host!Decline
  <2>3. Commanded'
    BY <1>1, <2>2 DEF Commanded
  <2>4. outcome \in Outcomes
    BY <2>1 DEF Outcomes
  <2> QED
    BY <1>1, <2>1, <2>2, <2>3, <2>4, InvRecord DEF HostInv
<1> QED
  BY <1>2, <1>3 DEF HostAct

\* The end of a command.
LEMMA InvFinish ==
  ASSUME IInv, HostInv, HostFinish
  PROVE  HostInv'
<1>1. PICK outcome \in {"Completed", "Partial", "Rejected"} :
        /\ journal' = [request |-> journal.request, outcome |-> outcome]
        /\ ResultIn(status') \in {ResultIn(status), Host!Reported(journal.request, outcome)}
  BY DEF HostFinish, Host!Finish, Host!Record
<1>2. /\ UNCHANGED <<guestVars, refused>> /\ command /\ command' = FALSE /\ latched' = latched /\ hand' = hand
      /\ outcome \in Outcomes
  BY DEF HostFinish, Recording, Host!Finish, Outcomes
<1>3. hand = None /\ journal.outcome \notin Host!Final
  BY <1>2 DEF HostInv, InHand, Commanded
<1>4. Commanded' /\ journal.request \in Requests \cup {None}
  BY <1>2 DEF Commanded, HostInv, Journalled
<1> QED
  BY <1>1, <1>2, <1>3, <1>4, InvRecord DEF HostInv

\* A latch, which records that the outcome of the command is uncertain.
LEMMA InvLatch ==
  ASSUME IInv, HostInv, HostLatch
  PROVE  HostInv'
<1> DEFINE outcome == IF journal.request # None /\ journal.outcome = None
                        THEN "Uncertain" ELSE journal.outcome
<1>1. /\ journal' = [request |-> journal.request, outcome |-> outcome]
      /\ ResultIn(status') \in {ResultIn(status), Host!Reported(journal.request, outcome)}
  BY DEF HostLatch, Host!Latch, Host!Record
<1>2. UNCHANGED <<guestVars, refused>> /\ latched' = TRUE /\ hand' = None /\ command' = command
  BY DEF HostLatch, Recording, Host!Latch
<1>3. /\ journal.request \in Requests \cup {None} /\ outcome \in Outcomes \cup {None}
      /\ journal.outcome \in Host!Final => outcome = journal.outcome
      /\ outcome \in Host!Final => journal.outcome \in Host!Final
  BY DEF HostInv, Journalled, Host!Final, Outcomes
<1> HIDE DEF outcome
<1>4. Commanded'
  BY <1>1, <1>2, <1>3 DEF HostInv, Commanded, Host!Final
<1> QED
  BY <1>1, <1>2, <1>3, <1>4, InvRecord DEF HostInv

\* The operator's clearing, which settles what is unresolved.
LEMMA InvClear ==
  ASSUME IInv, HostInv, HostClear
  PROVE  HostInv'
<1>1. /\ latched /\ latched' = FALSE /\ command' = FALSE /\ hand' = hand
      /\ UNCHANGED <<vars, refused>>
  BY DEF HostClear, Host!Clear
<1>2. hand = None
  BY <1>1 DEF HostInv, InHand
<1>3. UNCHANGED <<guestVars, refused>> /\ ResultIn(status') = ResultIn(status) /\ Commanded'
  BY <1>1 DEF vars, Commanded, ResultIn
<1>4. CASE Host!Unresolved
  <2>1. PICK outcome \in {"Completed", "Partial", "Rejected"} :
          journal' = [request |-> journal.request, outcome |-> outcome]
    BY <1>4 DEF HostClear, Host!Clear, Host!Record
  <2>2. outcome \in Outcomes /\ journal.outcome \notin Host!Final
    BY <1>4, <2>1 DEF Outcomes, Host!Unresolved
  <2>3. journal.request \in Requests \cup {None}
    BY DEF HostInv, Journalled
  <2> QED
    BY <1>1, <1>2, <1>3, <2>1, <2>2, <2>3, InvRecord DEF HostInv
<1>5. CASE ~Host!Unresolved
  <2>1. journal' = journal
    BY <1>5 DEF HostClear, Host!Clear
  <2> QED
    BY <1>1, <1>2, <1>3, <2>1, InvRecord DEF HostInv, Journalled
<1> QED
  BY <1>4, <1>5

\* Every step of the composition keeps it, if no refusal is taken back.
LEMMA HostInvariant ==
  ASSUME FinalRefusals, IInv, Seen, HostInv, [ProtocolNext]_protocolVars
  PROVE  HostInv'
BY InvGuest, InvTake, InvReport, InvRefuse, InvAct, InvFinish, InvLatch, InvClear
   DEF ProtocolNext, HostStep

\* Guest and host start with nothing issued and nothing journalled.
LEMMA HostInvInit == ProtocolInit => HostInv
<1> SUFFICES ASSUME ProtocolInit PROVE HostInv
  OBVIOUS
<1>1. Journalled
  BY DEF ProtocolInit, Init, Journalled
<1>2. InHand /\ Commanded /\ StatusDone /\ AnsweredDone
  BY DEF ProtocolInit, Init, InHand, Commanded, StatusDone, AnsweredDone, ResultIn
<1>3. command \in BOOLEAN /\ latched \in BOOLEAN /\ refused \subseteq Requests
  BY Zenon DEF ProtocolInit
<1> QED
  BY <1>1, <1>2, <1>3 DEF HostInv

\* While the host has not resolved a request, the guest still holds that very request in
\* its state file, whatever was lost, brought back by a power loss or is uncertain.
THEOREM SlotAlwaysAgreed == FinalRefusals /\ ProtocolSpec => []SlotAgreed
<1> SUFFICES ASSUME FinalRefusals PROVE ProtocolSpec => []SlotAgreed
  OBVIOUS
<1>1. IInv /\ HostInv => SlotAgreed
  <2> SUFFICES ASSUME IInv, HostInv, Host!Unresolved
               PROVE  disk.pending = journal.request
    BY DEF SlotAgreed
  <2>1. journal.request \in sent /\ journal.request # None /\ ~Done(journal.request)
    BY DEF HostInv, Journalled, Done, Host!Unresolved
  <2>2. journal.request \notin answered
    BY <2>1 DEF HostInv, AnsweredDone
  <2> QED
    BY <2>1, <2>2 DEF IInv, PublishedRetained
<1>2. IInv /\ Seen /\ HostInv /\ [ProtocolNext]_protocolVars => HostInv'
  BY HostInvariant
<1> QED
  BY GuestWithinProtocol, HostInvInit, <1>1, <1>2, PTL DEF ProtocolSpec

\* An answer that the guest acts on and that is about the journalled request is the
\* journal's: no older result, and none that was changed later.
THEOREM AlwaysFaithful == FinalRefusals /\ ProtocolSpec => FaithfulAnswer
<1> SUFFICES ASSUME FinalRefusals PROVE ProtocolSpec => FaithfulAnswer
  OBVIOUS
<1>1. ASSUME IInv, Seen, HostInv, [ProtocolNext]_protocolVars
      PROVE  [answered' # answered /\ journal.request = state.pending =>
                ResultIn(status) = JournalResult]_protocolVars
  <2> SUFFICES ASSUME answered' # answered, journal.request = state.pending
               PROVE  ResultIn(status) = JournalResult
    OBVIOUS
  <2>1. Consume
    BY <1>1 DEF ProtocolNext, GuestStep, Guest, Poll, Start, Stop, Exit, PowerLoss, End,
       Await, Hold, Issue, Persist, PersistAbandoned, Publish, PublishAbandoned, Tick,
       Rollback, HostStep, HostTake, HostDrop, HostRefuse, HostAct, HostFinish, HostLatch,
       HostClear, HostReport, Recording, historyVars, protocolVars, vars, guestVars
  <2>2. PICK seen \in Read : Resolves(ResultIn(seen))
    BY <2>1 DEF Consume
  <2>3. /\ ResultIn(seen) = ResultIn(status) /\ ResultIn(status) # None
        /\ ResultIn(status).outcome # "Uncertain"
        /\ ResultIn(status).request = journal.request
    BY <2>2 DEF Resolves, Read, ResultIn
  <2>4. ResultIn(status) \in Results
    BY <1>1, <2>3 DEF IInv, TypeOK, Statuses, ResultIn
  <2>5. ResultIn(status).outcome = journal.outcome
    BY <1>1, <2>3 DEF HostInv, StatusDone
  <2>6. journal.request # None /\ journal.outcome # None
    BY <2>3, <2>4, <2>5 DEF Results
  <2> QED
    BY <2>3, <2>4, <2>5, <2>6 DEF Results, JournalResult, Host!Reported
<1>2. IInv /\ Seen /\ HostInv /\ [ProtocolNext]_protocolVars => HostInv'
  BY HostInvariant
<1> QED
  BY GuestWithinProtocol, HostInvInit, <1>1, <1>2, PTL DEF ProtocolSpec, FaithfulAnswer
=============================================================================
