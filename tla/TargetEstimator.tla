--------------------------- MODULE TargetEstimator ---------------------------
(***************************************************************************)
(* TargetEstimator (virtio-mem-core/src/target_controller.rs): how large   *)
(* the guest wants its device to be, and how small it could be, from       *)
(* Windows' memory counters.  Growth is immediate.  Reclaim waits for a    *)
(* full window of samples that report plenty of memory, which the code     *)
(* keeps in buckets so that their number is bounded.                       *)
(*                                                                         *)
(* Sizes and times are small numbers; Block keeps the rounding in.  Times  *)
(* are ages, counted back from the last sample: the code only subtracts    *)
(* them.  A sample's sequence number advances with its clock, and a sample *)
(* of age zero begins a new session of the producer.                       *)
(***************************************************************************)
EXTENDS Integers, Sequences, FiniteSetsExt

CONSTANTS
  Device, Block,     \* TargetGeometry
  Minimum, PhysicalReserve, CommitReserve, FloorPhysical, FloorCommit,
  Window, MaxGap, Hysteresis,  \* TargetPolicyConfig
  MaxEntries,        \* MAX_TARGET_HISTORY_ENTRIES
  Limits,            \* the pairs of min_ram and max_ram a run looks at
  Loads,             \* the memory counters it looks at: used, and commit headroom
  Sizes, Bases       \* current sizes, and sizes of the RAM beside the device

\* TargetPolicyConfig::validate, and the policy's part of calculate_effective_maximum.
validate ==
  /\ {PhysicalReserve, CommitReserve, FloorPhysical, FloorCommit, Window, MaxGap, Hysteresis}
       \subseteq Nat \ {0}
  /\ FloorPhysical <= PhysicalReserve /\ FloorCommit <= CommitReserve
  /\ \A v \in {Minimum, PhysicalReserve, CommitReserve, FloorPhysical, FloorCommit, Hysteresis} :
       v % Block = 0

ASSUME InputsAssumption ==
  /\ Limits \subseteq [min : Nat, max : Nat] /\ Loads \subseteq [used : Nat, headroom : Nat]
  /\ Sizes \subseteq Nat /\ Bases \subseteq Nat

ASSUME EstimatorAssumption ==
  /\ {Device, Block} \subseteq Nat \ {0} /\ Minimum \in Nat
  /\ MaxEntries \in Nat /\ MaxEntries > 2
  /\ validate

VARIABLES
  limits,            \* min_ram and max_ram
  desired, safe_floor, last_base, history, \* TargetEstimatorState
  session,           \* there is a session_id: a sample was accepted
  estimate,          \* what estimate returned last; NoEstimate after an error
  since, window      \* history: the age of the unbroken samples, and those of the last Window

estimatorVars ==
  <<limits, desired, safe_floor, session, last_base, history, estimate, since, window>>

None == -1
NoEstimate == [desired_now |-> None, current |-> None, ready |-> FALSE]

EstimatorInit ==
  /\ limits \in Limits
  /\ desired = 0 /\ safe_floor = 0 /\ session = FALSE
  /\ last_base = None /\ history = <<>> /\ estimate = NoEstimate
  /\ since = None /\ window = {}

-----------------------------------------------------------------------------
\* The need of the moment

saturating_sub(a, b) == IF a > b THEN a - b ELSE 0
Least(a, b) == IF a < b THEN a ELSE b
Greatest(a, b) == IF a > b THEN a ELSE b
clamp(v, low, high) == Least(Greatest(v, low), high)

align_up(v) == ((v + Block - 1) \div Block) * Block
align_down(v) == (v \div Block) * Block

\* maximum_target_bytes
effective_maximum == align_down(Device)

\* candidate: enough for what is in use, and for what may be committed.
candidate(m, current, base, physical_reserve, commit_reserve) ==
  Greatest(saturating_sub(m.used + physical_reserve, base),
           saturating_sub(current + commit_reserve, m.headroom))

calculate_instantaneous(m, current, base) ==
  LET fit(v) == align_up(Least(Greatest(v, Minimum), effective_maximum))
      need == Least(fit(candidate(m, current, base, PhysicalReserve, CommitReserve)),
                    effective_maximum)
  IN [desired |-> need,
      floor |-> Least(fit(candidate(m, current, base, FloorPhysical, FloorCommit)), need)]

\* The administrator's limits are on all RAM: the device's part of them.
ram_minimum(base) == align_up(saturating_sub(limits.min, base))

\* Faulty variant: the upper limit is rounded like the lower one.
ram_rounded_up(base) == Least(align_up(saturating_sub(limits.max, base)), effective_maximum)
ram_maximum(base) == Least(align_down(saturating_sub(limits.max, base)), effective_maximum)

Reachable(base) == ram_minimum(base) <= ram_maximum(base) /\ limits.max >= base

-----------------------------------------------------------------------------
\* The history

\* Faulty variant: the time between two samples does not matter.
gap_ignored(after) == FALSE
gap_too_long(after) == after > MaxGap

\* prepare_sample: a new session or a long gap starts the history again; otherwise it ages.
prepare_sample(s) ==
  IF session /\ (s.after = 0 \/ gap_too_long(s.after)) THEN <<>>
  ELSE [i \in DOMAIN history |-> [history[i] EXCEPT !.age = @ + s.after]]

\* Samples of one geometry only.
same_base(base) == last_base \in {None, base}

\* history_window_millis.div_ceil(MAX_TARGET_HISTORY_ENTRIES - 2)
bucket == Greatest(1, (Window + MaxEntries - 3) \div (MaxEntries - 2))

\* A bucket has the age of its first sample and the largest need.
merge(last, e) == [age |-> last.age, desired |-> Greatest(last.desired, e.desired),
                   floor |-> Greatest(last.floor, e.floor)]

pushed(h, e) ==
  LET n == Len(h)
  IN IF n > 0 /\ h[n].age < bucket THEN Append(SubSeq(h, 1, n - 1), merge(h[n], e))
     ELSE Append(h, e)

bounded(h) == IF Len(h) > MaxEntries THEN Tail(h) ELSE h

\* The last entry at or before the window's start stays, as the evidence for its start.
prune_history(h) ==
  LET first == Max({1} \cup {i \in 1 .. Len(h) : h[i].age >= Window})
  IN SubSeq(h, first, Len(h))

history_is_ready(h) == h # <<>> /\ h[1].age >= Window

-----------------------------------------------------------------------------
\* Operations

\* TargetEstimatorState::invalidate_history
Invalidated == history' = <<>> /\ safe_floor' = desired

\* An observation failed, or the host's status does not say what the device is.
InvalidateHistory ==
  /\ Invalidated
  /\ estimate' = NoEstimate /\ since' = None /\ window' = {}
  /\ UNCHANGED <<limits, desired, session, last_base>>

\* The service starts cold; set_ram_limits before the first sample.
Restart ==
  /\ limits' \in Limits
  /\ desired' = 0 /\ safe_floor' = 0 /\ session' = FALSE
  /\ last_base' = None /\ history' = <<>> /\ estimate' = NoEstimate
  /\ since' = None /\ window' = {}

Samples == [after : 0 .. MaxGap + 1, load : Loads, current : Sizes, base : Bases, high : BOOLEAN]

\* Valid geometry, a clock that advances within the session, limits within reach.
Accepted(s) ==
  /\ s.current % Block = 0 /\ s.current <= effective_maximum /\ Minimum <= effective_maximum
  /\ s.after > 0 => session
  /\ Reachable(s.base)

EstimateFails ==
  /\ \E s \in Samples : ~Accepted(s)
  /\ InvalidateHistory

without_evidence(current, target) == Least(current, target)

\* The samples without a break: the same session and geometry, and no long gap.
Unbroken(s) ==
  since # None /\ s.after \in 1 .. MaxGap /\ s.base = last_base

Estimate(s) ==
  LET limited(v) == clamp(v, ram_minimum(s.base), ram_maximum(s.base))
      raw == calculate_instantaneous(s.load, s.current, s.base)
      need == [age |-> 0, desired |-> limited(raw.desired), floor |-> limited(raw.floor)]
      start == IF ~session THEN Greatest(s.current, need.desired) ELSE desired
      grown == Least(Greatest(start, need.desired), ram_maximum(s.base))
      kept == IF same_base(s.base) THEN prepare_sample(s) ELSE <<>>
      h == IF s.high THEN prune_history(bounded(pushed(kept, need))) ELSE <<>>
      ready == history_is_ready(h)
      highest == Max({h[i].desired : i \in DOMAIN h})
  IN /\ Accepted(s)
     /\ history' = h
     /\ desired' = IF ready /\ highest + Hysteresis <= grown THEN highest ELSE grown
     /\ safe_floor' = IF ready THEN Least(Max({h[i].floor : i \in DOMAIN h}), desired')
                      ELSE without_evidence(s.current, grown)
     /\ session' = TRUE /\ last_base' = s.base
     /\ estimate' = [desired_now |-> need.desired, current |-> s.current, ready |-> ready]
     /\ since' = IF ~s.high THEN None ELSE IF Unbroken(s) THEN Least(since + s.after, Window) ELSE 0
     /\ window' = IF ~s.high THEN {}
                  ELSE {need} \cup {e \in {[w EXCEPT !.age = @ + s.after] : w \in window} :
                                      Unbroken(s) /\ e.age <= Window}
     /\ UNCHANGED limits

EstimatorNext ==
  \/ InvalidateHistory \/ Restart
  \/ EstimateFails \/ \E s \in Samples : Estimate(s)

-----------------------------------------------------------------------------
\* Properties

\* A size and a floor for which the unbroken samples speak: they span the window, and none
\* of the window's asked for more.
Evidence(size, floor) ==
  /\ since = Window
  /\ \A e \in window : e.desired <= size /\ Least(e.floor, size) <= floor

\* "Reclaim requires a continuous window of native High observations" (estimate): the
\* target is not lowered, nor the floor put below what the guest has, without them; but
\* the administrator's limit applies at once.  The history is kept in buckets to "bound
\* memory without losing a full window": once the unbroken samples span the window the
\* estimator is ready, however they were put together.
ReclaimOnEvidence ==
  /\ [](since = Window => estimate.ready)
  /\ [][estimate' # NoEstimate =>
         /\ desired' < desired =>
              desired' = ram_maximum(last_base)' \/ Evidence(desired, safe_floor)'
         /\ safe_floor' < Least(estimate'.current, desired') => Evidence(desired, safe_floor)'
       ]_estimatorVars

\* Whatever the history says, the target covers the need of the moment ("growth is
\* allowed, reclaim is not", TargetSample), all RAM together stays within what the
\* administrator chose (set_ram_limits), and target and floor are blocks of the device.
TargetFits ==
  /\ safe_floor <= desired /\ desired <= effective_maximum
  /\ desired % Block = 0 /\ safe_floor % Block = 0
  /\ estimate # NoEstimate =>
       /\ desired >= estimate.desired_now
       /\ desired + last_base \in Greatest(limits.min, last_base) .. limits.max
=============================================================================
