-------------------------- MODULE OperationsProofs --------------------------
(***************************************************************************)
(* Theorems about Operations: the processes that act on a device, for      *)
(* every number of daemons, clear-latch processes and names, and any       *)
(* number of starts, attestations and changes of the domain; and the two   *)
(* deployments, for any number of commands, edits and failures.            *)
(***************************************************************************)
EXTENDS Operations, FiniteSetTheorems, TLAPS

USE OperationsAssumption, HostDeployAssumption, GuestDeployAssumption

-----------------------------------------------------------------------------
\* The invariant

Holds(p) == pc[p] \notin {"idle", "own"}

\* What each variable is a function of.
Domains ==
  /\ DOMAIN pc = Procs /\ DOMAIN fingerprint = Procs /\ name \in [Procs -> Names]
  /\ DOMAIN checkpoint = Names /\ DomainUuid \in DOMAIN device_owner

\* A process past the lock is the one the lock names.
Locked == \A p \in Procs : Holds(p) => device_owner[DomainUuid] = p

\* Between the record and the command no latch is set: only the holder could set it.
Unlatched == \A p \in Daemons : pc[p] \in {"authorise", "send"} => ~Latched(name[p])

\* A clear-latch that found the device settled still does when it clears, but for a guest
\* that lost its memory or a late command that landed.
Settled == \A p \in Clears : pc[p] = "clear" => device \in {"even", "regrowing"} \/ landed

IInv == Domains /\ Locked /\ ResumedUnderEvidence /\ Unlatched /\ Settled

\* Only one process is past the lock.
LEMMA OneHolder ==
  ASSUME Locked, NEW p \in Procs, NEW q \in Procs, Holds(p), Holds(q)
  PROVE  p = q
BY DEF Locked

\* The end of a process takes the lock from nobody else.
LEMMA EndsLocked ==
  ASSUME Domains, Locked, NEW p \in Procs, Ends(p)
  PROVE  /\ Domains' <=> DOMAIN checkpoint' = Names
         /\ Locked'
         /\ \A q \in Procs : q # p => pc'[q] = pc[q] /\ fingerprint'[q] = fingerprint[q]
         /\ pc'[p] = "idle"
BY DEF Domains, Locked, Holds, Ends, Released, Procs

\* A step of a process that has the lock, and keeps it, leaves it with that process.
LEMMA GotoLocked ==
  ASSUME Domains, Locked, NEW p \in Procs, NEW label, Holds(p), Goto(p, label),
         UNCHANGED device_owner
  PROVE  /\ Locked'
         /\ DOMAIN pc' = Procs /\ name' = name
         /\ \A q \in Procs : q # p => pc'[q] = pc[q] /\ ~Holds(q)
         /\ pc'[p] = label
BY OneHolder DEF Domains, Locked, Holds, Goto

-----------------------------------------------------------------------------
\* The steps

\* Nobody has started.
LEMMA InitInvariant == Init => IInv
BY DEF Init, IInv, Domains, Locked, Holds, ResumedUnderEvidence, Unlatched, Settled, Procs

\* The domain, its device and its attestations change under the processes.
LEMMA WorldStep ==
  ASSUME IInv, CollectArgv \/ Converge \/ Land \/ Change \/ \E n \in Names : CollectXml(n)
  PROVE  IInv'
<1>1. UNCHANGED <<checkpoint, procVars, lockVars>>
  BY DEF CollectArgv, Converge, Land, Change, CollectXml
<1>2. \/ device' \in {device, "even", "regrowing"} /\ landed' = landed
      \/ (\E p \in Clears : pc[p] = "clear") => landed'
  <2>1. CASE Land
    BY <2>1, Zenon DEF Land
  <2>2. CASE Change
    BY <2>2 DEF Change, Restart
  <2> QED
    BY <2>1, <2>2 DEF CollectArgv, Converge, CollectXml, deviceVars
<1>3. Settled'
  <2>1. pc' = pc
    BY <1>1 DEF procVars
  <2>2. Settled
    BY DEF IInv
  <2> QED
    BY <1>2, <2>1, <2>2 DEF Settled
<1> QED
  BY <1>1, <1>3 DEF IInv, Domains, Locked, Holds, ResumedUnderEvidence, Unlatched,
     Latched, procVars, lockVars

\* A process starts, dies, or takes the device's lock.
LEMMA ProcessStep ==
  ASSUME IInv, NEW p \in Procs, Start(p) \/ Crash(p) \/ TakeDevice(p)
  PROVE  IInv'
<1>0. UNCHANGED <<device, landed, checkpoint, name>>
  BY DEF Start, Crash, TakeDevice, Goto, Ends, deviceVars
<1>1. CASE Ends(p)
  BY <1>0, <1>1, EndsLocked DEF IInv, Domains, ResumedUnderEvidence, Unlatched, Settled,
     Latched, Procs
<1>2. CASE Start(p)
  BY <1>0, <1>2 DEF IInv, Domains, Locked, Holds, ResumedUnderEvidence, Unlatched, Settled,
     Latched, Procs, Start, Goto, lockVars
<1>3. CASE TakeDevice(p) /\ ~Ends(p)
  <2>1. /\ pc[p] = "own" /\ device_owner[DomainUuid] = Free
        /\ device_owner' = [device_owner EXCEPT ![DomainUuid] = p]
        /\ pc' = [pc EXCEPT ![p] = IF p \in Daemons THEN "attest" ELSE "compatible"]
        /\ fingerprint' = fingerprint
    BY <1>3 DEF TakeDevice, CanOwn, Own, device_key, Goto
  <2>2. \A q \in Procs : ~Holds(q)
    BY <2>1 DEF IInv, Locked, Procs
  <2> QED
    BY <1>0, <2>1, <2>2 DEF IInv, Domains, Locked, Holds, ResumedUnderEvidence, Unlatched,
       Settled, Latched, Procs
<1> QED
  BY <1>1, <1>2, <1>3 DEF Crash

\* A daemon reads its attestation and opens its checkpoint.
LEMMA OpenStep ==
  ASSUME IInv, NEW p \in Daemons, ReadFingerprint(p) \/ OpenCheckpoint(p)
  PROVE  IInv'
<1>0. p \in Procs /\ UNCHANGED <<device, landed, checkpoint, name>>
  BY DEF ReadFingerprint, OpenCheckpoint, Goto, Ends, Procs, deviceVars
<1>1. CASE Ends(p)
  BY <1>0, <1>1, EndsLocked DEF IInv, Domains, ResumedUnderEvidence, Unlatched, Settled,
     Latched, Procs
<1>2. CASE ReadFingerprint(p) /\ ~Ends(p)
  <2>1. /\ Holds(p) /\ Goto(p, "open") /\ UNCHANGED device_owner
        /\ fingerprint' = [fingerprint EXCEPT ![p] = attestation[name[p]]]
    BY <1>2 DEF ReadFingerprint, Holds, lockVars
  <2>2. /\ Locked' /\ DOMAIN pc' = Procs /\ pc'[p] = "open"
        /\ \A q \in Procs : q # p => pc'[q] = pc[q] /\ ~Holds(q)
    BY <1>0, <2>1, GotoLocked DEF IInv
  <2> QED
    BY <1>0, <2>1, <2>2 DEF IInv, Domains, Holds, ResumedUnderEvidence, Unlatched,
       Settled, Latched, Procs
<1>3. CASE OpenCheckpoint(p) /\ ~Ends(p)
  <2>1. /\ Holds(p) /\ Goto(p, "run") /\ UNCHANGED <<fingerprint, device_owner>>
        /\ may_resume(checkpoint[name[p]], fingerprint[p])
    BY <1>3 DEF OpenCheckpoint, Holds
  <2>2. /\ Locked' /\ DOMAIN pc' = Procs /\ pc'[p] = "run"
        /\ \A q \in Procs : q # p => pc'[q] = pc[q] /\ ~Holds(q)
    BY <1>0, <2>1, GotoLocked DEF IInv
  <2> QED
    BY <1>0, <2>1, <2>2 DEF IInv, Domains, Holds, ResumedUnderEvidence, Unlatched,
       Settled, Latched, Procs, may_resume
<1> QED
  BY <1>1, <1>2, <1>3

\* What a daemon saves is stamped with its fingerprint, and nobody else is there to see it.
LEMMA SavedStep ==
  ASSUME IInv, NEW p \in Daemons, NEW latched, NEW intent, Saved(p, latched, intent)
  PROVE  /\ DOMAIN checkpoint' = Names
         /\ checkpoint'[name[p]].stamp = fingerprint[p]
         /\ checkpoint'[name[p]] # none
         /\ checkpoint'[name[p]].latched = latched
         /\ \A n \in Names : n # name[p] => checkpoint'[n] = checkpoint[n]
BY DEF IInv, Domains, Saved, Procs, none

\* A daemon records, authorises, sends and resolves a command.
LEMMA CommandStep ==
  ASSUME IInv, NEW p \in Daemons, RecordIntent(p) \/ Authorise(p) \/ Send(p) \/ Resolve(p)
  PROVE  IInv'
<1>0. /\ p \in Procs /\ Holds(p) /\ UNCHANGED <<fingerprint, name, device_owner>>
      /\ p \in Procs /\ name[p] \in Names
  BY DEF RecordIntent, Authorise, Send, Resolve, Goto, procVars, lockVars, Holds, Procs, IInv,
     Domains
<1>1. CASE Resolve(p)
  <2>1. Saved(p, FALSE, FALSE) /\ UNCHANGED <<device, landed, pc>> /\ pc[p] = "run"
    BY <1>1 DEF Resolve, procVars, deviceVars
  <2>2. /\ DOMAIN checkpoint' = Names /\ checkpoint'[name[p]].stamp = fingerprint[p]
        /\ \A q \in Procs : q # p => ~Holds(q)
    BY <1>0, <2>1, SavedStep, OneHolder DEF IInv
  <2> QED
    BY <1>0, <2>1, <2>2 DEF IInv, Domains, Locked, Holds, ResumedUnderEvidence, Unlatched,
       Settled, Procs
<1> SUFFICES ASSUME RecordIntent(p) \/ Authorise(p) \/ Send(p) PROVE IInv'
  BY <1>1
<1>2. PICK label \in {"run", "authorise", "send", "unknown"} :
        /\ Locked' /\ DOMAIN pc' = Procs /\ pc'[p] = label
        /\ \A q \in Procs : q # p => pc'[q] = pc[q] /\ ~Holds(q)
  <2>1. Goto(p, "authorise") \/ Goto(p, "send") \/ Goto(p, "run") \/ Goto(p, "unknown")
    BY DEF RecordIntent, Authorise, Send
  <2> QED
    BY <1>0, <2>1, GotoLocked DEF IInv
<1>3. Settled'
  BY <1>0, <1>2, OperationsAssumption DEF Settled, Holds, Procs
<1>4. \/ checkpoint' = checkpoint
      \/ \E intent \in BOOLEAN : Saved(p, FALSE, intent)
  BY DEF RecordIntent, Authorise, Send
<1>5. CASE checkpoint' = checkpoint
  <2>1. pc[p] \in {"run", "authorise", "send"}
    BY DEF RecordIntent, Authorise, Send
  <2>2. label \in {"authorise", "send"} => ~Latched(name[p])
    BY DEF RecordIntent, Authorise, Send, IInv, Unlatched
  <2> QED
    BY <1>0, <1>2, <1>3, <1>5, <2>1, <2>2 DEF IInv, Domains, Holds, ResumedUnderEvidence, Unlatched,
       Latched, Procs
<1>6. CASE \E intent \in BOOLEAN : Saved(p, FALSE, intent)
  <2>1. /\ DOMAIN checkpoint' = Names /\ checkpoint'[name[p]].stamp = fingerprint[p]
        /\ checkpoint'[name[p]].latched = FALSE
    BY <1>6, SavedStep
  <2> QED
    BY <1>0, <1>2, <1>3, <2>1 DEF IInv, Domains, Holds, ResumedUnderEvidence, Unlatched,
       Latched, Procs
<1> QED
  BY <1>4, <1>5, <1>6

\* A daemon latches and ends; clear-latch clears, or gives up.  Either leaves nobody behind.
LEMMA LastStep ==
  ASSUME IInv, NEW p \in Procs, Holds(p), Ends(p), DOMAIN checkpoint' = Names
  PROVE  IInv'
<1>1. /\ Domains' /\ Locked'
      /\ \A q \in Procs : ~Holds(q)'
  BY EndsLocked, OneHolder DEF IInv, Holds
<1> QED
  BY <1>1 DEF IInv, Holds, ResumedUnderEvidence, Unlatched, Settled, Procs

\* What a failed client has done is latched, and its daemon ends or goes on.
LEMMA UnknownStep ==
  ASSUME IInv, NEW p \in Daemons, LatchUnknown(p)
  PROVE  IInv'
<1>1. /\ p \in Procs /\ Holds(p) /\ name[p] \in Names /\ Saved(p, TRUE, TRUE)
      /\ UNCHANGED <<device, landed>>
  BY DEF LatchUnknown, Holds, Procs, IInv, Domains, deviceVars
<1>2. DOMAIN checkpoint' = Names /\ checkpoint'[name[p]].stamp = fingerprint[p]
  BY <1>1, SavedStep
<1>3. CASE Ends(p)
  BY <1>1, <1>2, <1>3, LastStep
<1>4. CASE ~Ends(p)
  <2>1. Goto(p, "run") /\ UNCHANGED <<fingerprint, device_owner>>
    BY <1>4 DEF LatchUnknown, lockVars
  <2>2. /\ Locked' /\ DOMAIN pc' = Procs /\ pc'[p] = "run" /\ name' = name
        /\ \A q \in Procs : q # p => pc'[q] = pc[q] /\ ~Holds(q)
    BY <1>1, <2>1, GotoLocked DEF IInv
  <2> QED
    BY <1>1, <1>2, <2>1, <2>2 DEF IInv, Domains, Holds, ResumedUnderEvidence, Unlatched,
       Settled, Procs
<1> QED
  BY <1>3, <1>4

\* clear-latch, step by step.
LEMMA ClearStep ==
  ASSUME IInv, NEW p \in Clears, ClearLatch(p)
  PROVE  IInv'
<1>0. p \in Procs /\ Holds(p) /\ DOMAIN checkpoint' = Names
  BY DEF ClearLatch, CheckCompatible, CheckLatched, Settle, Retarget, Resettle, Clear, Holds,
     Procs, IInv, Domains
<1>1. CASE Ends(p)
  BY <1>0, <1>1, LastStep
<1>2. CASE ~Ends(p)
  <2>1. /\ UNCHANGED <<fingerprint, device_owner, checkpoint>>
        /\ \/ Goto(p, "latched") \/ Goto(p, "settle") \/ Goto(p, "retarget")
           \/ Goto(p, "settled")
           \/ Goto(p, "clear") /\ device' = "even"
    BY <1>2 DEF ClearLatch, CheckCompatible, CheckLatched, Settle, Retarget, Resettle, Clear,
       lockVars, settled
  <2>2. PICK label \in {"latched", "settle", "retarget", "settled", "clear"} :
          Goto(p, label) /\ (label = "clear" => device' = "even")
    BY <2>1
  <2>3. /\ Locked' /\ DOMAIN pc' = Procs /\ pc'[p] = label /\ name' = name
        /\ \A q \in Procs : q # p => pc'[q] = pc[q] /\ ~Holds(q)
    BY <1>0, <2>1, <2>2, GotoLocked DEF IInv
  <2> QED
    BY <1>0, <2>1, <2>2, <2>3 DEF IInv, Domains, Holds, ResumedUnderEvidence, Unlatched,
       Settled, Latched, Procs
<1> QED
  BY <1>1, <1>2

\* Every step keeps the invariant.
LEMMA NextInvariant == IInv /\ [Next]_vars => IInv'
<1> SUFFICES ASSUME IInv, [Next]_vars PROVE IInv'
  OBVIOUS
<1>1. CASE UNCHANGED vars
  BY <1>1 DEF IInv, Domains, Locked, Holds, ResumedUnderEvidence, Unlatched, Settled, Latched,
     vars, procVars, lockVars, deviceVars
<1>2. CASE \E p \in Procs : Start(p) \/ Crash(p) \/ TakeDevice(p)
  BY <1>2, ProcessStep
<1>3. ASSUME NEW p \in Daemons, Daemon(p) PROVE IInv'
  <2>1. CASE Latch(p)
    <3>1. /\ p \in Procs /\ Holds(p) /\ Ends(p) /\ Saved(p, TRUE, TRUE)
      BY <2>1 DEF Latch, Holds, Procs
    <3> QED
      BY <3>1, SavedStep, LastStep
  <2> QED
    BY <1>3, <2>1, OpenStep, CommandStep, UnknownStep DEF Daemon
<1>4. CASE \E p \in Clears : ClearLatch(p)
  BY <1>4, ClearStep
<1>5. CASE CollectArgv \/ Converge \/ Land \/ Change \/ \E n \in Names : CollectXml(n)
  BY <1>5, WorldStep
<1> QED
  BY <1>1, <1>2, <1>3, <1>4, <1>5 DEF Next

-----------------------------------------------------------------------------
\* The theorems

\* The invariant holds in every reachable state.
THEOREM Invariant == Spec => []IInv
BY InitInvariant, NextInvariant, PTL DEF Spec

\* One process at a time acts on the device (ownership.rs), whatever names the domain has
\* had since the processes were started.
THEOREM OneOwner == Spec => []OneActuator
<1>1. IInv => OneActuator
  <2> SUFFICES ASSUME IInv PROVE Cardinality(Holders) <= 1
    BY DEF OneActuator
  <2>1. Holders \in SUBSET {device_owner[DomainUuid]}
    BY DEF Holders, IInv, Locked, Holds
  <2>2. /\ IsFiniteSet({device_owner[DomainUuid]})
        /\ Cardinality({device_owner[DomainUuid]}) = 1
    BY FS_Singleton
  <2> QED
    BY <2>1, <2>2, FS_Subset
<1> QED
  BY <1>1, Invariant, PTL

\* What a running daemon has pending was recorded under its own evidence (checkpoint.rs).
THEOREM EvidenceKept == Spec => []ResumedUnderEvidence
<1>1. IInv => ResumedUnderEvidence
  BY DEF IInv
<1> QED
  BY <1>1, Invariant, PTL

\* A latch goes only from a device at rest, but for what a restart of the domain or a
\* command that landed late has done since clear-latch looked (cli.rs, checkpoint.rs).
THEOREM ClearedWhenQuiet == Spec => ClearedQuiet
<1>1. IInv /\ [Next]_vars =>
        [\A n \in Names : Latched(n) /\ ~Latched(n)' =>
           device \in {"even", "regrowing"} \/ landed]_vars
  <2> SUFFICES ASSUME IInv, Next, NEW n \in Names, Latched(n), ~Latched(n)'
               PROVE  device \in {"even", "regrowing"} \/ landed
    OBVIOUS
  <2>1. checkpoint'[n] # checkpoint[n]
    BY DEF Latched
  <2>2. ASSUME NEW p \in Daemons, Daemon(p) PROVE FALSE
    <3>1. PICK latched, intent : Saved(p, latched, intent)
                                 /\ (Latched(name[p]) => latched = TRUE)
      BY <2>1, <2>2 DEF Daemon, ReadFingerprint, OpenCheckpoint, RecordIntent, Authorise, Send,
         Resolve, Latch, LatchUnknown, IInv, Unlatched
    <3>2. n = name[p]
      BY <2>1, <3>1, SavedStep
    <3> QED
      BY <3>1, <3>2, SavedStep DEF Latched
  <2>3. ASSUME NEW p \in Clears, ClearLatch(p) PROVE pc[p] = "clear"
    BY <2>1, <2>3 DEF ClearLatch, CheckCompatible, CheckLatched, Settle, Retarget, Resettle,
       Clear
  <2>4. \E p \in Clears : ClearLatch(p)
    BY <2>1, <2>2 DEF Next, Start, Crash, TakeDevice, CollectArgv, Converge, Land, Change,
       CollectXml
  <2> QED
    BY <2>3, <2>4 DEF IInv, Settled
<1> QED
  BY <1>1, Invariant, PTL DEF Spec, ClearedQuiet

-----------------------------------------------------------------------------
\* What the evidence of a command or a refusal was

ScrubbedXml(config) == [config |-> config, sizes |-> "scrubbed", runtime |-> 0]
ScrubbedArgv(config) == [config |-> config, requested_size |-> "scrubbed", fd |-> 0]

\* A document and a collection in progress name the definitions that they saw.
Document(n) ==
  \E c, d \in Nat :
    attestation[n] = [kind |-> "doc", name |-> n, xml |-> ScrubbedXml(c),
                      argv |-> ScrubbedArgv(d), of |-> {c, d}]
Collected ==
  \E n \in Names, c \in Nat :
    collecting = [kind |-> "xml", name |-> n, xml |-> ScrubbedXml(c), of |-> c]

Evidence ==
  /\ domain \in [name : Names, config : Nat, boot : Nat]
  /\ DOMAIN attestation = Names
  /\ \A n \in Names : attestation[n] # none => Document(n)
  /\ collecting # none => Collected

\* What is left of the live domain once sizes and runtime identity are scrubbed is its
\* definition.
LEMMA Scrubbed == domain_xml = ScrubbedXml(domain.config) /\ qemu_argv = ScrubbedArgv(domain.config)
<1>1. /\ scrub_allocation_state(live_xml)
           = [config |-> domain.config, sizes |-> "scrubbed", runtime |-> domain.boot]
      /\ scrub_qemu_argv(live_argv)
           = [config |-> domain.config, requested_size |-> "scrubbed", fd |-> domain.boot]
  BY DEF scrub_allocation_state, scrub_qemu_argv, live_xml, live_argv
<1> QED
  BY <1>1 DEF domain_xml, qemu_argv, scrub_runtime_identity, scrub_descriptor_numbers,
     ScrubbedXml, ScrubbedArgv

\* A document agrees with the live domain exactly if all it saw is the domain's definition.
LEMMA SameEvidence ==
  ASSUME Evidence, NEW n \in Names, read_attestation(n)
  PROVE  same_evidence(attestation[n], n) <=> attestation[n].of = {domain.config}
<1>1. PICK c \in Nat, d \in Nat :
        attestation[n] = [kind |-> "doc", name |-> n, xml |-> ScrubbedXml(c),
                          argv |-> ScrubbedArgv(d), of |-> {c, d}]
  BY DEF Evidence, Document, read_attestation, validate_integrity
<1>2. /\ ScrubbedXml(c) = ScrubbedXml(domain.config) <=> c = domain.config
      /\ ScrubbedArgv(d) = ScrubbedArgv(domain.config) <=> d = domain.config
  BY DEF ScrubbedXml, ScrubbedArgv
<1>3. {c, d} = {domain.config} <=> c = domain.config /\ d = domain.config
  OBVIOUS
<1> QED
  BY <1>1, <1>2, <1>3, Scrubbed DEF same_evidence

\* Documents are collected of definitions.
LEMMA EvidenceStep == Evidence /\ [Next]_vars => Evidence'
<1> SUFFICES ASSUME Evidence, [Next]_vars PROVE Evidence'
  OBVIOUS
<1>1. CASE UNCHANGED <<domain, attestation, collecting>>
  BY <1>1 DEF Evidence, Document, Collected
<1>2. CASE Change
  <2>1. /\ UNCHANGED <<attestation, collecting>>
        /\ domain' \in [name : Names, config : Nat, boot : Nat]
    <3>1. domain \in [name : Names, config : Nat, boot : Nat]
      BY DEF Evidence
    <3>2. \/ domain' = [domain EXCEPT !.config = @ + 1]
          \/ domain' = [domain EXCEPT !.boot = @ + 1]
          \/ \E n \in Names : domain' = [domain EXCEPT !.name = n]
      BY <1>2 DEF Change, Restart
    <3> QED
      BY <1>2, <3>1, <3>2 DEF Change
  <2> QED
    BY <2>1 DEF Evidence, Document, Collected
<1>3. CASE \E n \in Names : CollectXml(n)
  <2>1. PICK n \in Names : CollectXml(n)
    BY <1>3
  <2>2. /\ collecting' = [kind |-> "xml", name |-> n, xml |-> ScrubbedXml(domain.config),
                          of |-> domain.config]
        /\ domain.config \in Nat
        /\ UNCHANGED <<domain, attestation>>
    BY <2>1, Scrubbed DEF CollectXml, Evidence
  <2>3. Collected'
    BY <2>2 DEF Collected
  <2> QED
    BY <2>2, <2>3 DEF Evidence, Document
<1>4. CASE CollectArgv
  <2>1. /\ UNCHANGED domain /\ collecting' = none
        /\ \/ attestation' = attestation
           \/ attestation' = [attestation EXCEPT ![collecting.name] =
                [kind |-> "doc", name |-> collecting.name, xml |-> collecting.xml,
                 argv |-> ScrubbedArgv(domain.config), of |-> {collecting.of, domain.config}]]
    BY <1>4, Scrubbed DEF CollectArgv
  <2>2. PICK n \in Names, c \in Nat :
          collecting = [kind |-> "xml", name |-> n, xml |-> ScrubbedXml(c), of |-> c]
    BY <1>4 DEF CollectArgv, Evidence, Collected
  <2>3. CASE attestation' = attestation
    BY <2>1, <2>3 DEF Evidence, Document
  <2>4. CASE attestation' = [attestation EXCEPT ![n] =
                [kind |-> "doc", name |-> n, xml |-> ScrubbedXml(c),
                 argv |-> ScrubbedArgv(domain.config), of |-> {c, domain.config}]]
    <3>1. Document(n)'
      <4>1. n \in DOMAIN attestation /\ domain.config \in Nat
        BY DEF Evidence
      <4>2. attestation'[n] = [kind |-> "doc", name |-> n, xml |-> ScrubbedXml(c),
                argv |-> ScrubbedArgv(domain.config), of |-> {c, domain.config}]
        BY <2>4, <4>1
      <4> QED
        BY <4>1, <4>2 DEF Document
    <3>2. \A m \in Names : m # n => attestation'[m] = attestation[m]
      BY <2>4 DEF Evidence
    <3>3. ASSUME NEW m \in Names, attestation'[m] # none PROVE Document(m)'
      <4>1. CASE m = n
        BY <3>1, <4>1
      <4>2. CASE m # n
        <5>1. Document(m)
          BY <3>2, <3>3, <4>2 DEF Evidence
        <5> QED
          BY <3>2, <4>2, <5>1, Zenon DEF Document
      <4> QED
        BY <4>1, <4>2
    <3> QED
      BY <2>1, <2>4, <3>3 DEF Evidence
  <2> QED
    BY <2>1, <2>2, <2>3, <2>4
<1> QED
  BY <1>1, <1>2, <1>3, <1>4 DEF Next, Daemon, ClearLatch, Start, Crash, TakeDevice, ReadFingerprint,
     OpenCheckpoint, RecordIntent, Authorise, Send, Resolve, Latch, LatchUnknown,
     CheckCompatible, CheckLatched, Settle, Retarget, Resettle, Clear, Converge, Land,
     operatorVars, vars

\* A command is authorised only for a definition that one attestation saw whole, and
\* evidence is refused as drifted only if the definition is another, across restarts,
\* redefinitions and attestations collected meanwhile (host/src/attestation.rs).
THEOREM EvidenceAlwaysExact == Spec => []EvidenceExact
<1>1. Init => Evidence /\ EvidenceExact
  BY DEF Init, Evidence, EvidenceExact
<1>2. Evidence /\ EvidenceExact /\ IInv /\ [Next]_vars => EvidenceExact'
  <2> SUFFICES ASSUME Evidence, EvidenceExact, IInv, [Next]_vars PROVE EvidenceExact'
    OBVIOUS
  <2>1. CASE UNCHANGED <<authorised, refused>>
    BY <2>1 DEF EvidenceExact
  <2>2. ASSUME NEW p \in Procs, Compatible(name[p]), authorised' = Authorisation(p),
               refused' = refused
        PROVE  EvidenceExact'
    <3>1. name[p] \in Names
      BY DEF IInv, Domains
    <3>2. attestation[name[p]].of = {domain.config}
      BY <2>2, <3>1, SameEvidence DEF Compatible
    <3> QED
      BY <2>2, <3>2 DEF Authorisation, EvidenceExact
  <2>3. ASSUME NEW p \in Procs, ~Compatible(name[p]), Drift(name[p]),
               authorised' = authorised
        PROVE  EvidenceExact'
    <3>1. name[p] \in Names
      BY DEF IInv, Domains
    <3>2. CASE domain.name = name[p] /\ read_attestation(name[p])
      <4>1. attestation[name[p]].of # {domain.config}
        BY <2>3, <3>1, <3>2, SameEvidence DEF Compatible
      <4> QED
        BY <2>3, <3>2, <4>1 DEF Drift, EvidenceExact
    <3>3. CASE ~(domain.name = name[p] /\ read_attestation(name[p]))
      BY <2>3, <3>3 DEF Drift, EvidenceExact
    <3> QED
      BY <3>2, <3>3
  <2>4. ASSUME NEW p \in Daemons, Authorise(p) PROVE EvidenceExact'
    BY <2>1, <2>2, <2>3, <2>4 DEF Authorise, Procs
  <2>5. ASSUME NEW p \in Clears, CheckCompatible(p) PROVE EvidenceExact'
    BY <2>1, <2>3, <2>5 DEF CheckCompatible, Procs
  <2>6. ASSUME NEW p \in Clears, Retarget(p) PROVE EvidenceExact'
    BY <2>1, <2>2, <2>6 DEF Retarget, Procs
  <2> QED
    BY <2>1, <2>4, <2>5, <2>6 DEF Next, Daemon, ClearLatch, Start, Crash, TakeDevice,
       ReadFingerprint, OpenCheckpoint, RecordIntent, Send, Resolve, Latch, LatchUnknown,
       CheckLatched, Settle, Resettle, Clear, Converge, Land, Change, CollectXml, CollectArgv,
       vars
<1> QED
  BY Invariant, EvidenceStep, <1>1, <1>2, PTL DEF Spec

-----------------------------------------------------------------------------
\* The host's deployment

DeploySteps == {"idle", "validate", "hash", "backup", "dropin", "legacy", "disable", "after",
                "write"} \cup Installed

\* The steps of the installation, and the files they have yet to install.
Installing == {"dropin", "legacy"} \cup Installed
ToInstall(here) ==
  CASE here \in {"dropin", "binary"} -> Installed
    [] here = "unit" -> Installed \ {"binary"}
    [] here = "rules" -> Installed \ {"binary", "unit"}
    [] here = "config" -> {"config", "attestation"}
    [] OTHER -> {"attestation"}

DeployTypes ==
  /\ source \in [Installed -> Nat]
  /\ target \in [Installed \cup Moved -> Int]
  /\ "running" \in DOMAIN unit
  /\ step \in DeploySteps
  /\ step # "idle" => snapshot \in Nat
  /\ had \subseteq (Installed \cup Moved) \X (Int \ {Absent, Torn})

\* A file about to be replaced is in a backup.
RetainedFirst ==
  step \in Installing =>
    \A f \in ToInstall(step) : target[f] = Absent \/ <<f, target[f]>> \in backups

\* From the moment they are hashed the contents are those of the configuration that was
\* validated, and once it is installed it stays.
Consistent ==
  /\ step \in Installing \cup {"backup", "disable", "after", "write"} =>
       hashes["config"] = snapshot
  /\ step \in {"legacy", "attestation", "disable"} \/ (apply /\ step \in {"after", "write"}) =>
       target["config"] = snapshot

\* A unit that runs when the evidence is due was started from the files as they are.
FreshUnit ==
  step = "write" =>
    unit.running = Inactive \/ \A f \in Installed : unit.running[f] = target[f]

DeployInv == DeployTypes /\ NothingLost /\ RetainedFirst /\ Consistent /\ FreshUnit

\* The files that a deployment installs.
LEMMA InstalledFiles ==
  Installed = {"binary", "unit", "rules", "config", "attestation"}
BY DEF Installed, InstallOrder

\* The order of the installation.
LEMMA AfterFile ==
  /\ After("binary") = "unit" /\ After("unit") = "rules" /\ After("rules") = "config"
  /\ After("config") = "legacy" /\ After("attestation") = "disable"
<1>1. /\ Len(InstallOrder) = 5 /\ InstallOrder[1] = "binary" /\ InstallOrder[2] = "unit"
      /\ InstallOrder[3] = "rules" /\ InstallOrder[4] = "config"
      /\ InstallOrder[5] = "attestation"
  BY DEF InstallOrder
<1>2. /\ \A i \in 2 .. 5 : InstallOrder[i - 1] = "binary" <=> i = 2
      /\ \A i \in 2 .. 5 : InstallOrder[i - 1] = "unit" <=> i = 3
      /\ \A i \in 2 .. 5 : InstallOrder[i - 1] = "rules" <=> i = 4
  <2>1. \A i \in 2 .. 5 : i = 2 \/ i = 3 \/ i = 4 \/ i = 5
    OBVIOUS
  <2> QED
    BY <1>1, <2>1
<1>3. /\ (CHOOSE i \in 2 .. 5 : InstallOrder[i - 1] = "binary") = 2
      /\ (CHOOSE i \in 2 .. 5 : InstallOrder[i - 1] = "unit") = 3
      /\ (CHOOSE i \in 2 .. 5 : InstallOrder[i - 1] = "rules") = 4
  BY <1>2
<1> QED
  BY <1>1, <1>3 DEF After

\* A host starts with what its operator installed.
LEMMA DeployInitInvariant == DeployInit => DeployInv
<1> SUFFICES ASSUME DeployInit PROVE DeployInv
  OBVIOUS
<1>1. DeployTypes
  BY DEF DeployInit, DeployTypes, DeploySteps, Absent, Torn, Custom
<1>2. NothingLost
  BY DEF DeployInit, NothingLost
<1>3. RetainedFirst /\ Consistent /\ FreshUnit
  BY InstalledFiles DEF DeployInit, RetainedFirst, Consistent, FreshUnit, Installing
<1> QED
  BY <1>1, <1>2, <1>3 DEF DeployInv

\* A file's replacement loses nothing: what was there is in a backup.
LEMMA InstallStep ==
  ASSUME DeployInv, NEW f \in Installed, InstallFile(f) \/ TearFile(f)
  PROVE  NothingLost'
<1>1. /\ step = f /\ backups' = backups /\ f \in ToInstall(f)
      /\ \E v : target' = [target EXCEPT ![f] = v]
                /\ (had' = had \/ had' = had \cup {<<f, v>>})
  BY InstalledFiles DEF InstallFile, TearFile, At, ToInstall
<1>2. PICK v : target' = [target EXCEPT ![f] = v] /\ (had' = had \/ had' = had \cup {<<f, v>>})
  BY <1>1
<1>3. target[f] = Absent \/ <<f, target[f]>> \in backups
  BY <1>1 DEF DeployInv, RetainedFirst, Installing
<1>4. /\ f \in DOMAIN target
      /\ target'[f] = v
      /\ \A g \in Installed \cup Moved : g # f => target'[g] = target[g]
  BY <1>2 DEF DeployInv, DeployTypes
<1> SUFFICES ASSUME NEW file \in had' PROVE target'[file[1]] = file[2] \/ file \in backups
  BY <1>1 DEF NothingLost
<1>5. CASE file \in had
  <2>1. /\ file = <<file[1], file[2]>> /\ file[1] \in Installed \cup Moved
        /\ file[2] # Absent
    BY <1>5 DEF DeployInv, DeployTypes
  <2>2. target[file[1]] = file[2] \/ file \in backups
    BY <1>5 DEF DeployInv, NothingLost
  <2> QED
    BY <1>3, <1>4, <2>1, <2>2
<1>6. CASE file = <<f, v>>
  BY <1>4, <1>6
<1> QED
  BY <1>2, <1>5, <1>6

\* A file that is moved away is in the backup.
LEMMA MoveStep ==
  ASSUME DeployInv, NEW f \in Moved, Move(f), had' = had
  PROVE  NothingLost'
<1>1. /\ target' = [target EXCEPT ![f] = Absent] /\ backups \subseteq backups'
      /\ target[f] = Absent \/ <<f, target[f]>> \in backups'
  BY DEF Move
<1> SUFFICES ASSUME NEW file \in had PROVE target'[file[1]] = file[2] \/ file \in backups'
  BY DEF NothingLost
<1>2. /\ file = <<file[1], file[2]>> /\ file[1] \in Installed \cup Moved
      /\ file[2] # Absent
      /\ target[file[1]] = file[2] \/ file \in backups
  BY DEF DeployInv, DeployTypes, NothingLost
<1> QED
  BY <1>1, <1>2 DEF DeployInv, DeployTypes

\* Every step of a deployment keeps it, and of the world around it.
LEMMA DeployStep == DeployInv /\ [HostDeployNext]_deployVars => DeployInv'
<1> SUFFICES ASSUME DeployInv, [HostDeployNext]_deployVars PROVE DeployInv'
  OBVIOUS
<1> USE DEF DeployInv
<1>1. CASE UNCHANGED deployVars
  BY <1>1 DEF deployVars, DeployTypes, NothingLost, RetainedFirst, Consistent, FreshUnit
<1>2. CASE \E f \in Installed : Edit(f)
  BY <1>2 DEF Edit, DeployTypes, NothingLost, RetainedFirst, Consistent, FreshUnit
<1>3. CASE StartUnit \/ StopUnit
  <2>1. UNCHANGED <<source, target, backups, step, apply, snapshot, hashes, had>>
    BY <1>3 DEF StartUnit, StopUnit
  <2>2. /\ "running" \in DOMAIN unit'
        /\ unit'.running = Inactive \/ \A f \in Installed : unit'.running[f] = target[f]
    BY <1>3 DEF StartUnit, StopUnit, DeployTypes
  <2> QED
    BY <2>1, <2>2 DEF DeployTypes, NothingLost, RetainedFirst, Consistent, FreshUnit
<1>4. CASE Snapshot \/ Validate \/ Hash \/ Conclude \/ Fail \/ WriteEvidence \/ Disable
  <2>1. DeployTypes'
    BY <1>4, InstalledFiles DEF Snapshot, Validate, Hash, Conclude, Fail, WriteEvidence, Disable,
       At, unless_dry_run, Leaves, Worldly, DeployTypes, DeploySteps
  <2>2. NothingLost'
    BY <1>4 DEF Snapshot, Validate, Hash, Conclude, Fail, WriteEvidence, Disable,
       Leaves, Worldly, NothingLost
  <2>3. RetainedFirst'
    BY <1>4, InstalledFiles DEF Snapshot, Validate, Hash, Conclude, Fail, WriteEvidence, Disable,
       unless_dry_run, RetainedFirst, Installing
  <2>4. Consistent'
    BY <1>4, InstalledFiles DEF Snapshot, Validate, Hash, Conclude, Fail, WriteEvidence, Disable,
       At, unless_dry_run, Leaves, Worldly, Consistent, DeployTypes, Installing
  <2>5. FreshUnit'
    BY <1>4 DEF Snapshot, Validate, Hash, Conclude, Fail, WriteEvidence, Disable,
       unless_dry_run, inactive_after, require_inactive, Leaves, Worldly, FreshUnit
  <2> QED
    BY <2>1, <2>2, <2>3, <2>4, <2>5
<1>5. CASE Backup
  <2>1. DeployTypes' /\ NothingLost' /\ Consistent' /\ FreshUnit'
    BY <1>5, InstalledFiles DEF Backup, At, retain, Worldly, DeployTypes, DeploySteps,
       NothingLost, Consistent, FreshUnit, Installing
  <2>2. RetainedFirst'
    BY <1>5 DEF Backup, retain, RetainedFirst, ToInstall, Installing, Worldly
  <2> QED
    BY <2>1, <2>2
<1>6. CASE MoveDropin \/ ArchiveLegacy
  <2>1. PICK f \in Moved :
          /\ Move(f) /\ had' = had
          /\ UNCHANGED <<unit, apply, snapshot, hashes, evidence, Worldly>>
          /\ step = f /\ step' = IF f = "dropin" THEN "binary" ELSE "attestation"
    BY <1>6 DEF MoveDropin, ArchiveLegacy, Moved, At, InstallOrder
  <2>2. NothingLost'
    BY <2>1, MoveStep
  <2>3. /\ backups \subseteq backups' /\ target' \in [Installed \cup Moved -> Int]
        /\ \A g \in Installed : target'[g] = target[g]
    BY <2>1, InstalledFiles DEF Move, DeployTypes, Absent, Moved
  <2>4. DeployTypes'
    BY <2>1, <2>3, InstalledFiles DEF DeployTypes, DeploySteps, Worldly, Moved
  <2>5. RetainedFirst'
    BY <2>1, <2>3, InstalledFiles DEF RetainedFirst, ToInstall, Installing, Moved
  <2>6. Consistent' /\ FreshUnit'
    BY <2>1, <2>3, InstalledFiles DEF Consistent, FreshUnit, Installing, Moved
  <2> QED
    BY <2>2, <2>4, <2>5, <2>6
<1>7. ASSUME NEW f \in Installed, InstallFile(f) PROVE DeployInv'
  <2>1. /\ step = f /\ step' = After(f)
        /\ UNCHANGED <<backups, unit, apply, snapshot, hashes, evidence, Worldly>>
        /\ target' = [target EXCEPT ![f] = installed_from(f)]
        /\ had' = had \cup {<<f, installed_from(f)>>}
        /\ snapshot \in Nat
    BY <1>7, InstalledFiles DEF InstallFile, At, DeployTypes
  <2>2. installed_from(f) \in Nat
    BY <2>1 DEF installed_from, DeployTypes
  <2>3. DeployTypes'
    BY <2>1, <2>2, AfterFile, InstalledFiles DEF DeployTypes, DeploySteps, Worldly, Absent, Torn
  <2>4. \A g \in Installed : g # f => target'[g] = target[g]
    BY <2>1 DEF DeployTypes
  <2>5. RetainedFirst'
    <3> SUFFICES ASSUME step' \in Installing, NEW g \in ToInstall(step')
                 PROVE  target'[g] = Absent \/ <<g, target'[g]>> \in backups'
      BY DEF RetainedFirst
    <3>1. g \in ToInstall(step) /\ g # f /\ g \in Installed
      BY <2>1, AfterFile, InstalledFiles DEF ToInstall, Installing
    <3> QED
      BY <2>1, <2>4, <3>1 DEF RetainedFirst, Installing
  <2>6. Consistent'
    BY <2>1, <2>4, AfterFile, InstalledFiles DEF Consistent, installed_from, Installing, DeployTypes
  <2>7. FreshUnit'
    BY <2>1, AfterFile, InstalledFiles DEF FreshUnit
  <2> QED
    BY <1>7, <2>3, <2>5, <2>6, <2>7, InstallStep
<1>8. ASSUME NEW f \in Installed, TearFile(f) PROVE DeployInv'
  <2>1. /\ step' = "idle" /\ UNCHANGED <<had, unit, Worldly>>
        /\ target' = [target EXCEPT ![f] = Torn]
    BY <1>8 DEF TearFile
  <2>2. DeployTypes'
    BY <2>1 DEF DeployTypes, DeploySteps, Worldly, Torn
  <2>3. RetainedFirst' /\ Consistent' /\ FreshUnit'
    BY <2>1, InstalledFiles DEF RetainedFirst, Consistent, FreshUnit, Installing
  <2> QED
    BY <1>8, <2>2, <2>3, InstallStep
<1> QED
  BY <1>1, <1>2, <1>3, <1>4, <1>5, <1>6, <1>7, <1>8 DEF HostDeployNext

\* host_deploy.rs has no rollback: whatever it replaced or moved away is in a backup,
\* however many deployments were cut short at whichever step.
THEOREM HostLosesNothing == HostDeploySpec => []NothingLost
<1>1. DeployInv => NothingLost
  BY DEF DeployInv
<1> QED
  BY DeployInitInvariant, DeployStep, <1>1, PTL DEF HostDeploySpec

\* The evidence of an applied deployment names the configuration that is installed, and a
\* daemon that runs by then runs the files that were deployed.
THEOREM EvidenceTrue == HostDeploySpec => EvidenceHolds
<1>1. DeployInv /\ [HostDeployNext]_deployVars =>
        [evidence' # evidence /\ evidence'.applied =>
           /\ target["config"] = evidence'.hashes["config"]
           /\ unit.running # Inactive =>
                \A f \in Installed : unit.running[f] = target[f]]_deployVars
  <2> SUFFICES ASSUME DeployInv, HostDeployNext, evidence' # evidence, evidence'.applied
               PROVE  /\ target["config"] = evidence'.hashes["config"]
                      /\ unit.running # Inactive =>
                           \A f \in Installed : unit.running[f] = target[f]
    OBVIOUS
  <2>1. WriteEvidence
    BY DEF HostDeployNext, Snapshot, Validate, Hash, Backup, MoveDropin, ArchiveLegacy, Disable,
       Conclude, Fail, InstallFile, TearFile, Edit, StartUnit, StopUnit, Leaves
  <2>2. step = "write" /\ apply /\ evidence'.hashes = hashes
    BY <2>1 DEF WriteEvidence, At, NoEvidence
  <2> QED
    BY <2>2 DEF DeployInv, Consistent, FreshUnit
<1> QED
  BY DeployInitInvariant, DeployStep, <1>1, PTL DEF HostDeploySpec, EvidenceHolds

-----------------------------------------------------------------------------
\* The guest's deployment

\* Once a script has retained what it found, every deployed file is in a backup until it
\* ends.
GuestRetained == op \in Scripts \cup {"migrate", "remove_service", "remove_files"} => was \subseteq kept

\* What was copied, built or is being built comes from the sources of its identity, or the
\* sources changed meanwhile.
Sourced(exe) == exe.id \in disturbed \/ exe.of = exe.id
Executable(exe) == exe = [id |-> exe.id, of |-> exe.of]
Built ==
  /\ Executable(release)
  /\ Sourced(release)
  /\ Sourced([id |-> workspace.stamp, of |-> workspace.source])
  /\ late # 0 => Sourced([id |-> late, of |-> workspace.source])
  /\ record # Nothing =>
       /\ Executable(record.exe)
       /\ record.exe.of = record.id \/ record.id \in disturbed

\* Identities are versions of the working tree, in order; a build that outlived its command
\* is of the newest that any executable has.
Ordered ==
  /\ tree \in Nat /\ workspace.stamp \in 0 .. tree /\ late \in Nat
  /\ release.id \in Int /\ release.id <= workspace.stamp
  /\ late # 0 => release.id <= late /\ late <= workspace.stamp
  /\ record # Nothing => record.id \in Nat /\ record.exe.id = record.id
  /\ DOMAIN workspace = {"source", "stamp"}

\* What a running command remembers.
Remembers ==
  /\ op = "archive" => held.identity \in workspace.stamp .. tree
  /\ op = "extract" =>
       /\ held.identity \in workspace.stamp .. tree
       /\ Sourced([id |-> held.identity, of |-> held.archive])
  /\ op = "build" => held.identity = workspace.stamp /\ held.identity > 0
  /\ op \in {"copy_out", "compare"} => held.identity = workspace.stamp
  /\ op = "copy_out" => release.id = held.identity
  /\ op = "compare" =>
       /\ Executable(held.exe) /\ held.exe.id = held.identity
       /\ held.exe.of = held.identity \/ held.identity \in disturbed

\* How far a rollback has come, and what failed under it.
Rollback == {"undo_files", "undo_registration", "undo_start"}
RolledFar ==
  /\ "stop" \notin held.silent => guest.running = NoExe
  /\ held.silent \cap {"stop", "delete"} = {} /\ op # "undo_start" => guest.registration = "none"
  /\ op \in {"undo_registration", "undo_start"} =>
       /\ guest.running # NoExe => held.prior.exe = NoExe
       /\ held.prior.exe # NoExe => guest.exe = held.prior.exe
       /\ held.prior.config # "none" => guest.config = held.prior.config
       /\ held.silent = {} => guest.config = held.prior.config
  /\ op = "undo_start" /\ held.silent = {} => guest.registration = held.prior.registration

\* What is installed, and what runs: the executable of the registered service.
Sound(g) == g.running # NoExe => g.running = g.exe /\ g.registration # "none"
Service ==
  /\ DOMAIN guest = {"exe", "config", "registration", "running"}
  /\ Sound(guest)
  /\ op \in {"copy", "config", "install", "start", "remove_files"} => guest.running = NoExe
  /\ op \in {"config", "install", "start", "telemetry"} =>
       Executable(guest.exe) /\ Sourced(guest.exe)
  /\ op \in {"start", "telemetry"} => guest.registration # "none"
  /\ op \in Scripts \cup {"retain", "migrate"} => record # Nothing /\ Sound(held.prior)
  /\ op \in Scripts \cup {"retain", "migrate"} => DOMAIN held = {"kind", "prior", "silent"}
  /\ op \in Rollback => RolledFar

GuestInv == GuestNothingLost /\ GuestRetained /\ Built /\ Ordered /\ Remembers /\ Service

\* A guest starts without builds and deployments.
LEMMA GuestInitInvariant == GuestDeployInit => GuestInv
<1> SUFFICES ASSUME GuestDeployInit PROVE GuestInv
  OBVIOUS
<1>1. GuestNothingLost /\ GuestRetained
  BY DEF GuestDeployInit, GuestNothingLost, GuestRetained, Scripts
<1>2. Built /\ Ordered /\ Remembers
  BY DEF GuestDeployInit, Built, Ordered, Remembers, Sourced, Executable, NoExe, Nothing
<1>3. Service
  BY DEF GuestDeployInit, Service, Sound, Scripts, PriorStates, Empty, NoExe, PriorExe,
     Rollback
<1> QED
  BY <1>1, <1>2, <1>3 DEF GuestInv

\* No file of a service that was deployed is lost at any step.
LEMMA GuestFilesStep ==
  ASSUME GuestNothingLost, GuestRetained, [GuestDeployNext]_guestDeployVars
  PROVE  GuestNothingLost' /\ GuestRetained'
<1>1. CASE EditTree \/ GiveUp \/ SyncBuildFetch \/ DeployBegin \/ UNCHANGED guestDeployVars
  <2>0. UNCHANGED serviceVars
    BY <1>1 DEF EditTree, GiveUp, SyncBuildFetch, Identify, Archive, Extract, ExtractPartly,
       StartBuild, FinishBuild, OutliveBuild, LateBuild, FetchCheck, FetchCopy, FetchRecord,
       DeployBegin, guestDeployVars
  <2>1. op' \in Scripts \cup {"migrate", "remove_service", "remove_files"} =>
          op \in Scripts \cup {"migrate", "remove_service", "remove_files"}
    BY <1>1 DEF EditTree, GiveUp, SyncBuildFetch, guestDeployVars, Identify, Archive, Extract, ExtractPartly, StartBuild, FinishBuild, OutliveBuild,
       LateBuild, FetchCheck, FetchCopy, FetchRecord, Begin, Then, Done, DeployBegin, Scripts
  <2> QED
    BY <2>0, <2>1 DEF GuestNothingLost, GuestRetained, serviceVars, Files
<1>2. CASE Retain \/ UninstallRetain
  <2>1. kept' = kept \cup Files(guest) /\ UNCHANGED <<guest, was>>
    BY <1>2 DEF Retain, UninstallRetain, retained
  <2> QED
    BY <2>1 DEF GuestNothingLost, GuestRetained
<1>3. CASE Cycle
  <2>1. UNCHANGED <<kept, was, op>> /\ Files(guest') = Files(guest)
    BY <1>3 DEF Cycle, Files
  <2> QED
    BY <2>1 DEF GuestNothingLost, GuestRetained
<1>4. CASE ReportDeployed
  <2>1. /\ was' = was \cup Files(guest) /\ UNCHANGED <<guest, kept>>
        /\ op' = "idle"
    BY <1>4 DEF ReportDeployed, Done, Then
  <2> QED
    BY <2>1 DEF GuestNothingLost, GuestRetained, Scripts
<1>5. ASSUME op \in Scripts \cup {"migrate", "remove_service", "remove_files"},
             UNCHANGED <<kept, was>>
      PROVE  GuestNothingLost' /\ GuestRetained'
  BY <1>5 DEF GuestNothingLost, GuestRetained
<1> QED
  BY <1>1, <1>2, <1>3, <1>4, <1>5 DEF GuestDeployNext, Deploy,
     Uninstall, Migrate, StopAndDelete, CopyCandidate, WriteConfig, InstallService, StartService,
     Throw, UndoService, UndoRefused, UndoFiles, UndoRegistration, UndoStart, Die, RemoveService,
     RemoveFiles, Try, Undo, Then, Done, Scripts, InTry, serviceVars

\* What an executable was compiled from is told, whatever the order of syncs and builds.
LEMMA BuildStep ==
  ASSUME Built, Ordered, Remembers, [GuestDeployNext]_guestDeployVars
  PROVE  Built' /\ Ordered' /\ Remembers'
<1> USE DEF Built, Ordered, Remembers, Sourced, Executable
<1>1. CASE EditTree
  BY <1>1 DEF EditTree, Begin, Then, Done, buildVars, serviceVars, Overtaken, Compiled, reports, NoExe, Nothing, Scripts
<1>2. CASE GiveUp
  BY <1>2 DEF GiveUp, Begin, Then, Done, buildVars, serviceVars, Overtaken, Compiled, reports, NoExe, Nothing, Scripts
<1>3. CASE Identify
  BY <1>3 DEF Identify, Begin, Then, Done, buildVars, serviceVars, Overtaken, Compiled, reports, NoExe, Nothing, Scripts
<1>4. CASE Archive
  BY <1>4 DEF Archive, Begin, Then, Done, buildVars, serviceVars, Overtaken, Compiled, reports, NoExe, Nothing, Scripts
<1>5. CASE Extract
  BY <1>5 DEF Extract, Begin, Then, Done, buildVars, serviceVars, Overtaken, Compiled, reports, NoExe, Nothing, Scripts
<1>6. CASE ExtractPartly
  BY <1>6 DEF ExtractPartly, Begin, Then, Done, buildVars, serviceVars, Overtaken, Compiled, reports, NoExe, Nothing, Scripts
<1>7. CASE StartBuild
  BY <1>7 DEF StartBuild, Begin, Then, Done, buildVars, serviceVars, Overtaken, Compiled, reports, NoExe, Nothing, Scripts
<1>8. CASE FinishBuild
  BY <1>8 DEF FinishBuild, Begin, Then, Done, buildVars, serviceVars, Overtaken, Compiled, reports, NoExe, Nothing, Scripts
<1>9. CASE OutliveBuild
  BY <1>9 DEF OutliveBuild, Begin, Then, Done, buildVars, serviceVars, Overtaken, Compiled, reports, NoExe, Nothing, Scripts
<1>10. CASE LateBuild
  BY <1>10 DEF LateBuild, Begin, Then, Done, buildVars, serviceVars, Overtaken, Compiled, reports, NoExe, Nothing, Scripts
<1>11. CASE FetchCheck
  BY <1>11 DEF FetchCheck, Begin, Then, Done, buildVars, serviceVars, Overtaken, Compiled, reports, NoExe, Nothing, Scripts
<1>12. CASE FetchCopy
  BY <1>12 DEF FetchCopy, Begin, Then, Done, buildVars, serviceVars, Overtaken, Compiled, reports, NoExe, Nothing, Scripts
<1>13. CASE FetchRecord
  BY <1>13 DEF FetchRecord, Begin, Then, Done, buildVars, serviceVars, Overtaken, Compiled, reports, NoExe, Nothing, Scripts
<1>14. CASE UNCHANGED buildVars /\ op' \notin {"archive", "extract", "build", "copy_out", "compare"}
  BY <1>14 DEF buildVars
<1>15. CASE UNCHANGED guestDeployVars
  BY <1>15 DEF guestDeployVars, buildVars
<1> QED
  BY <1>15, <1>1, <1>2, <1>3, <1>4, <1>5, <1>6, <1>7, <1>8, <1>9, <1>10, <1>11, <1>12, <1>13, <1>14
     DEF GuestDeployNext, SyncBuildFetch, Deploy, Uninstall, DeployBegin, Retain, Migrate,
     StopAndDelete, CopyCandidate, WriteConfig, InstallService, StartService, ReportDeployed, Throw,
     UndoService, UndoRefused, UndoFiles, UndoRegistration, UndoStart, Die, UninstallRetain,
     RemoveService, RemoveFiles, Cycle, Try, Undo, Begin, Then, Done

\* What is installed comes from the release that was copied, and a rollback restores what
\* it found.
LEMMA ServiceStep ==
  ASSUME Built, Service, [GuestDeployNext]_guestDeployVars
  PROVE  Service'
<1> USE DEF Service, Sound, Sourced, Executable, Rollback
<1>1. CASE UNCHANGED guestDeployVars
  BY <1>1 DEF guestDeployVars, buildVars, serviceVars, RolledFar
<1>2. CASE EditTree \/ GiveUp
  BY <1>2 DEF EditTree, GiveUp, serviceVars, buildVars, Scripts, RolledFar
<1>3. CASE SyncBuildFetch
  <2>1. /\ UNCHANGED guest /\ disturbed \subseteq disturbed'
        /\ \/ op' = op /\ held' = held /\ UNCHANGED record
           \/ op' \notin Scripts \cup {"retain", "migrate", "remove_files"}
    BY <1>3 DEF SyncBuildFetch, Identify, Archive, Extract, ExtractPartly, StartBuild, FinishBuild,
       OutliveBuild, LateBuild, FetchCheck, FetchCopy, FetchRecord, Begin, Then, Done, Scripts,
       serviceVars, buildVars
  <2> QED
    BY <2>1 DEF Scripts, RolledFar
<1>4. CASE DeployBegin \/ Retain \/ Migrate
  <2>1. CASE DeployBegin
    BY <2>1 DEF DeployBegin, Begin, Scripts, buildVars, serviceVars
  <2>2. CASE Retain
    <3>1. /\ op = "retain" /\ op' = "migrate" /\ UNCHANGED <<guest, record>>
          /\ held'.prior = held.prior /\ DOMAIN held' = DOMAIN held
      BY <2>2 DEF Retain, Unchecked, buildVars
    <3> QED
      BY <3>1 DEF Scripts
  <2>3. CASE Migrate
    BY <2>3 DEF Migrate, Then, Scripts, buildVars, serviceVars
  <2> QED
    BY <1>4, <2>1, <2>2, <2>3
<1>5. CASE StopAndDelete \/ CopyCandidate \/ WriteConfig \/ InstallService \/ StartService
  BY <1>5 DEF StopAndDelete, CopyCandidate, WriteConfig, InstallService, StartService, Try, Then,
     unregistered, stopped, Scripts, Built, buildVars, NoExe
<1>6. CASE ReportDeployed
  BY <1>6 DEF ReportDeployed, Done, Then, Scripts, buildVars
<1>7. CASE Throw
  BY <1>7 DEF Throw, InTry, Scripts, buildVars, NoExe, TornExe
<1>8. CASE UndoService \/ UndoRefused \/ UndoFiles \/ UndoRegistration \/ UndoStart
  <2>1. CASE UndoService
    <3>1. /\ op = "undo" /\ op' = "undo_files" /\ UNCHANGED <<record, disturbed>>
          /\ held'.prior = held.prior /\ DOMAIN held' = DOMAIN held
      BY <2>1 DEF UndoService, Undo, Then, Unchecked, buildVars, Scripts
    <3>2. CASE guest' = unregistered(guest)
      BY <3>1, <3>2 DEF unregistered, RolledFar, Scripts, NoExe
    <3>3. CASE guest' = stopped(guest) /\ "delete" \in held'.silent
      BY <3>1, <3>3 DEF stopped, RolledFar, Scripts, NoExe
    <3>4. CASE guest' = guest /\ "stop" \in held'.silent
      BY <3>1, <3>4 DEF RolledFar, Scripts, NoExe
    <3> QED
      BY <2>1, <3>2, <3>3, <3>4 DEF UndoService, Undo, Then, Unchecked, Scripts
  <2>2. CASE UndoRefused
    BY <2>2 DEF UndoRefused, Done, Then, Scripts, buildVars, serviceVars
  <2>3. CASE UndoFiles
    <3>1. /\ op = "undo_files" /\ op' = "undo_registration" /\ UNCHANGED <<record, disturbed>>
          /\ held'.prior = held.prior /\ DOMAIN held' = DOMAIN held
          /\ RolledFar /\ ~CannotReplace
          /\ guest'.running = guest.running /\ guest'.registration = guest.registration
          /\ DOMAIN guest' = DOMAIN guest
          /\ guest'.exe = IF held.prior.exe = NoExe THEN guest.exe ELSE held.prior.exe
          /\ held.prior.config # "none" => guest'.config = held.prior.config
          /\ \/ guest'.config = held.prior.config /\ held' = held
             \/ held'.silent = held.silent \cup {"remove"}
      BY <2>3 DEF UndoFiles, Undo, Then, Unchecked, buildVars, Scripts
    <3> QED
      BY <3>1 DEF RolledFar, CannotReplace, Scripts
  <2>4. CASE UndoRegistration
    <3>1. /\ op = "undo_registration" /\ op' = "undo_start" /\ UNCHANGED <<record, disturbed>>
          /\ held'.prior = held.prior /\ DOMAIN held' = DOMAIN held /\ RolledFar
          /\ guest'.running = guest.running /\ guest'.exe = guest.exe
          /\ guest'.config = guest.config /\ DOMAIN guest' = DOMAIN guest
          /\ guest.registration # "none" => guest'.registration # "none"
          /\ \/ held' = held
                /\ guest'.registration = IF exported = "none" THEN guest.registration ELSE exported
             \/ held'.silent = held.silent \cup {"import"}
      BY <2>4 DEF UndoRegistration, Undo, Then, Unchecked, buildVars, Scripts
    <3> QED
      BY <3>1 DEF RolledFar, exported, Scripts
  <2>5. CASE UndoStart
    BY <2>5 DEF UndoStart, Done, Then, Scripts, buildVars, NoExe
  <2> QED
    BY <1>8, <2>1, <2>2, <2>3, <2>4, <2>5
<1>9. CASE Die
  BY <1>9 DEF Die, Scripts, buildVars
<1>10. CASE Uninstall
  <2>1. CASE UninstallRetain
    BY <2>1 DEF UninstallRetain, Begin, Scripts, buildVars
  <2>2. CASE RemoveService
    BY <2>2 DEF RemoveService, Then, unregistered, Scripts, buildVars, NoExe
  <2>3. CASE RemoveFiles
    <3>1. guest'.running = NoExe /\ DOMAIN guest' = DOMAIN Empty
      BY <2>3 DEF RemoveFiles, Empty
    <3> QED
      BY <2>3, <3>1 DEF RemoveFiles, Done, Then, Scripts, Empty
  <2> QED
    BY <1>10, <2>1, <2>2, <2>3 DEF Uninstall
<1>11. CASE Cycle
  BY <1>11 DEF Cycle, Scripts, buildVars, NoExe
<1> QED
  BY <1>1, <1>2, <1>3, <1>4, <1>5, <1>6, <1>7, <1>8, <1>9, <1>10, <1>11
     DEF GuestDeployNext, Deploy

\* Every step of a build, a deployment or a rollback keeps the invariant.
LEMMA GuestDeployStep == GuestInv /\ [GuestDeployNext]_guestDeployVars => GuestInv'
BY GuestFilesStep, BuildStep, ServiceStep DEF GuestInv

\* The invariant of the guest's builds and deployments holds in every reachable state.
THEOREM GuestDeployInvariant == GuestDeploySpec => []GuestInv
BY GuestInitInvariant, GuestDeployStep, PTL DEF GuestDeploySpec

\* Every executable and configuration of a service that was deployed in the guest is in its
\* place or in a backup, wherever deployments, rollbacks and uninstallations ended.
THEOREM GuestLosesNothing == GuestDeploySpec => []GuestNothingLost
<1>1. GuestInv => GuestNothingLost
  BY DEF GuestInv
<1> QED
  BY GuestDeployInvariant, <1>1, PTL

\* The operator is told the truth about the build that was fetched, about what a deployment
\* installed, and about what a rollback left (windows.rs, build_identity.rs).
THEOREM ReportsAlwaysTruthful == GuestDeploySpec => ReportsTruthful
<1>1. GuestInv => (record # Nothing /\ record.id \notin disturbed => record.exe.of = record.id)
  BY DEF GuestInv, Built
<1>2. GuestInv /\ [GuestDeployNext]_guestDeployVars =>
        [outcome' = "ok" /\ outcome # "ok" /\ record.id \notin disturbed =>
           Verdict' = "current"]_guestDeployVars
  <2> SUFFICES ASSUME GuestInv, GuestDeployNext, outcome' = "ok", outcome # "ok",
                      record.id \notin disturbed
               PROVE  Verdict' = "current"
    OBVIOUS
  <2>1. ReportDeployed
    BY DEF GuestDeployNext, EditTree, GiveUp, SyncBuildFetch, Deploy, Uninstall, Cycle, Identify,
       Archive, Extract, ExtractPartly, StartBuild, FinishBuild, OutliveBuild, LateBuild,
       FetchCheck, FetchCopy, FetchRecord, DeployBegin, Retain, Migrate, StopAndDelete,
       CopyCandidate, WriteConfig, InstallService, StartService, Throw, UndoService, UndoFiles,
       UndoRefused, UndoRegistration, UndoStart, Die, UninstallRetain, RemoveService, RemoveFiles,
       Try, Undo
  <2>2. /\ record # Nothing /\ record.id \in Nat /\ record.exe.id = record.id
        /\ record.exe.of = record.id
        /\ guest.registration # "none" /\ Sourced(guest.exe)
        /\ Executable(guest.exe) /\ Executable(record.exe)
    BY <2>1 DEF ReportDeployed, Done, Then, GuestInv, Built, Ordered, Service, Scripts
  <2>3. guest.exe.id = record.id /\ UNCHANGED <<record, guest>>
    BY <2>1, <2>2 DEF ReportDeployed, installed_is, buildVars
  <2>4. guest.exe.of = record.exe.of
    BY <2>2, <2>3 DEF Sourced
  <2>5. guest.exe = record.exe
    BY <2>2, <2>3, <2>4 DEF Executable
  <2> QED
    BY <2>2, <2>3, <2>5 DEF Verdict, build_status, Nothing
<1>3. GuestInv /\ [GuestDeployNext]_guestDeployVars =>
        [outcome' = "rolled back" /\ outcome # "rolled back" => RolledBack]_guestDeployVars
  <2> SUFFICES ASSUME GuestInv, GuestDeployNext, outcome' = "rolled back",
                      outcome # "rolled back"
               PROVE  RolledBack
    OBVIOUS
  <2>1. UndoStart
    BY DEF GuestDeployNext, EditTree, GiveUp, SyncBuildFetch, Deploy, Uninstall, Cycle, Identify,
       Archive, Extract, ExtractPartly, StartBuild, FinishBuild, OutliveBuild, LateBuild,
       FetchCheck, FetchCopy, FetchRecord, DeployBegin, Retain, Migrate, StopAndDelete,
       CopyCandidate, WriteConfig, InstallService, StartService, ReportDeployed, Throw,
       UndoService, UndoRefused, UndoFiles, UndoRegistration, Die, UninstallRetain, RemoveService,
       RemoveFiles, Try, Undo
  <2>2. /\ RolledFar /\ op = "undo_start" /\ Sound(held.prior)
        /\ DOMAIN guest = {"exe", "config", "registration", "running"}
    BY <2>1 DEF UndoStart, Done, Then, GuestInv, Service, Rollback, Scripts
  <2>3. /\ guest'.exe = guest.exe /\ guest'.config = guest.config
        /\ guest'.registration = guest.registration
        /\ guest'.running = IF exported # "none" /\ held.prior.running # NoExe THEN guest.exe
                             ELSE guest.running
    BY <2>1, <2>2 DEF UndoStart
  <2>4. held.prior.running # NoExe => held.prior.exe = held.prior.running
                                      /\ held.prior.registration # "none"
    BY <2>2 DEF Sound
  <2> QED
    BY <2>2, <2>3, <2>4 DEF RolledBack, RolledFar, exported
<1> QED
  BY GuestDeployInvariant, <1>1, <1>2, <1>3, PTL DEF GuestDeploySpec, ReportsTruthful

-----------------------------------------------------------------------------
\* The parts together

\* Each part within the whole behaves as it does alone: every theorem above holds of it.
THEOREM PartsWithin == OperationsSpec => Spec /\ HostDeploySpec /\ GuestDeploySpec
<1>1. OperationsInit => Init /\ DeployInit /\ GuestDeployInit
  BY DEF OperationsInit
<1>2. [OperationsNext]_allVars =>
        [Next]_vars /\ [HostDeployNext]_deployVars /\ [GuestDeployNext]_guestDeployVars
  BY DEF OperationsNext, allVars
<1> QED
  BY <1>1, <1>2, PTL DEF OperationsSpec, Spec, HostDeploySpec, GuestDeploySpec

\* No deployment, of the host's daemon or of the guest's service, loses a file, wherever it
\* was cut short.
THEOREM FilesAlwaysKept == OperationsSpec => []FilesKept
<1>1. NothingLost /\ GuestNothingLost => FilesKept
  BY DEF FilesKept
<1> QED
  BY PartsWithin, HostLosesNothing, GuestLosesNothing, <1>1, PTL
=============================================================================
