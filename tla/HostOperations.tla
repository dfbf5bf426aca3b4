--------------------------- MODULE HostOperations ---------------------------
(***************************************************************************)
(* The processes that may act on one virtio-mem device: daemons (main.rs)  *)
(* started by the systemd unit or by hand, the clear-latch command         *)
(* (cli.rs), and the operator who attests the VM's compatibility (xtask    *)
(* attestation.rs) or redefines, renames and restarts it.  Between them    *)
(* stand the device and checkpoint owners (ownership.rs), the fingerprint  *)
(* in the checkpoint (checkpoint.rs) and the evidence compared before      *)
(* every command (host/src/attestation.rs).                                *)
(*                                                                         *)
(* How a daemon decides on a command is VmController's; here it records an *)
(* intent, has it authorised, sends it, and resolves or latches.  A virsh  *)
(* client may be killed at its timeout while libvirt goes on: its command  *)
(* then takes effect late, or never.                                       *)
(***************************************************************************)
EXTENDS Naturals, FiniteSets

CONSTANTS
  Daemons,     \* daemon processes
  Clears,      \* clear-latch processes
  Names,       \* names the domain may have; paths and configurations follow them
  MaxChanges,  \* bound: redefinitions, restarts and renames of the domain
  MaxAttests,  \* bound: attestations written
  MaxStarts    \* bound: process starts

Free == "free" \* an owner's lock that nobody holds

ASSUME OperationsAssumption ==
  /\ Daemons # {} /\ Clears # {} /\ Daemons \cap Clears = {} /\ Names # {}
  /\ Free \notin Daemons \cup Clears
  /\ MaxChanges \in Nat /\ MaxAttests \in Nat /\ MaxStarts \in Nat

Procs == Daemons \cup Clears
none == [kind |-> "none"]

VARIABLES
  domain,      \* its name, its definition, and what libvirt assigns at each start
  device,      \* requested against current: even, growing, shrinking, regrowing
  command,     \* what became of the last one: applied, late (under way), or not applied
  attestation, \* the document at each name's attestation path
  collecting,  \* the evidence an attestation in progress has read
  checkpoint,  \* the file of each name
  pc, name,    \* each process: where it is, the VM it is configured for
  fingerprint, \* the daemon's copy of the attestation it started with
  device_owner, checkpoint_owner,  \* who holds each lock
  changes, attests, starts,
  authorised,  \* history: what the last command was authorised for, and by which document
  refused,     \* history: the last evidence that was found to have drifted
  landed       \* history: a late command took effect after clear-latch's last look

procVars == <<pc, name, fingerprint>>
lockVars == <<device_owner, checkpoint_owner>>
operatorVars == <<domain, attestation, collecting, changes, attests>>
deviceVars == <<device, command, landed>>
vars == <<operatorVars, deviceVars, checkpoint, procVars, lockVars, starts, authorised, refused>>

DomainUuid == "uuid"

Init ==
  /\ domain \in [name : Names, config : {0}, boot : {0}]
  /\ device = "even" /\ attestation = [n \in Names |-> none] /\ collecting = none
  /\ checkpoint = [n \in Names |-> none]
  /\ pc = [p \in Procs |-> "idle"] /\ name \in [Procs -> Names]
  /\ fingerprint = [p \in Procs |-> none]
  /\ device_owner = [k \in Names \cup {DomainUuid} |-> Free]
  /\ checkpoint_owner = [n \in Names |-> Free]
  /\ changes = 0 /\ attests = 0 /\ starts = 0
  /\ authorised = none /\ refused = none
  /\ command = "applied" /\ landed = FALSE

-----------------------------------------------------------------------------
\* Evidence

\* dumpxml: the definition, the sizes (with their sum, currentMemory), and what libvirt
\* assigns at each start: the domain id, dynamic labels, the state of its channels.
\* domxml-to-native: the definition, the requested size and libvirt's descriptors (which
\* differ from call to call there, from start to start here).
live_xml == [config |-> domain.config, sizes |-> device, runtime |-> domain.boot]
live_argv == [config |-> domain.config, requested_size |-> device, fd |-> domain.boot]

scrub_allocation_state(xml) == [xml EXCEPT !.sizes = "scrubbed"]

scrub_runtime_identity(xml) == [xml EXCEPT !.runtime = 0]
scrub_qemu_argv(argv) == [argv EXCEPT !.requested_size = "scrubbed"]
scrub_descriptor_numbers(argv) == [argv EXCEPT !.fd = 0]

domain_xml == scrub_runtime_identity(scrub_allocation_state(live_xml))
qemu_argv == scrub_descriptor_numbers(scrub_qemu_argv(live_argv))

\* A property of the device, asked of QEMU's monitor through libvirt.
qom_bool == BOOLEAN

\* CompatibilityReview and LiveCompatibilityEvidence::validate: the operator confirms every
\* item, and the device has both features that resizing needs.
attestable(reviewed, enabled) == reviewed /\ enabled

\* collect reads the XML and the argv one after the other.
CollectXml(n) ==
  /\ collecting = none /\ attests < MaxAttests /\ domain.name = n
  /\ collecting' = [kind |-> "xml", name |-> n, xml |-> domain_xml, of |-> domain.config]
  /\ attests' = attests + 1
  /\ UNCHANGED <<domain, attestation, changes, deviceVars, checkpoint, procVars, lockVars,
                 starts, authorised, refused>>

\* If it is reviewed, the document replaces the one at its path by rename.
CollectArgv ==
  /\ collecting # none
  /\ \E reviewed \in BOOLEAN, enabled \in qom_bool :
     IF domain.name = collecting.name /\ attestable(reviewed, enabled)
       THEN attestation' = [attestation EXCEPT ![collecting.name] =
              [kind |-> "doc", name |-> collecting.name, xml |-> collecting.xml,
               argv |-> qemu_argv, of |-> {collecting.of, domain.config}]]
       ELSE UNCHANGED attestation
  /\ collecting' = none
  /\ UNCHANGED <<domain, changes, attests, deviceVars, checkpoint, procVars, lockVars, starts,
                 authorised, refused>>

\* Faulty variant: only the argv is compared.
same_argv(doc, n) == doc.argv = qemu_argv

\* validate_live
same_evidence(doc, n) ==
  doc.name = n /\ doc.xml = domain_xml /\ doc.argv = qemu_argv

\* A document of this version whose fingerprint is that of its contents.  (It is replaced
\* by rename, so anything else is no document.)
validate_integrity(doc) == doc # none
read_attestation(n) == validate_integrity(attestation[n])

\* AttestedCompatibilitySource::compatibility: the document is read again each time,
\* the live evidence of the domain of this name is collected, and they must agree.  The
\* six calls of collect are one step here; an attestation's are two, which may see two
\* definitions.
Compatible(n) ==
  domain.name = n /\ read_attestation(n) /\ same_evidence(attestation[n], n)

\* A refusal for drift, as opposed to a missing document or domain.
Drift(n) ==
  refused' = IF domain.name = n /\ read_attestation(n)
             THEN [kind |-> "drift", of |-> attestation[n].of, live |-> domain.config]
             ELSE refused

Authorisation(p) ==
  [kind |-> "for", config |-> domain.config, of |-> attestation[name[p]].of]

-----------------------------------------------------------------------------
\* Ownership

\* Faulty variant: the lock is named after the VM's current name.
lock_by_name(p) == name[p]

\* DeviceOwner::for_domain
device_key(p) == DomainUuid

CanOwn(p) == domain.name = name[p] /\ device_owner[device_key(p)] = Free
Own(p) == device_owner' = [device_owner EXCEPT ![device_key(p)] = p]

Released(locks, p) == [k \in DOMAIN locks |-> IF locks[k] = p THEN Free ELSE locks[k]]

\* The process ends, by itself or by any signal: the kernel drops both locks.
Ends(p) ==
  /\ pc' = [pc EXCEPT ![p] = "idle"]
  /\ device_owner' = Released(device_owner, p)
  /\ checkpoint_owner' = Released(checkpoint_owner, p)
  /\ fingerprint' = [fingerprint EXCEPT ![p] = none]
  /\ UNCHANGED name

Goto(p, label) == pc' = [pc EXCEPT ![p] = label] /\ UNCHANGED name

Start(p) ==
  /\ pc[p] = "idle" /\ starts < MaxStarts
  /\ starts' = starts + 1 /\ Goto(p, "own")
  /\ UNCHANGED <<operatorVars, deviceVars, checkpoint, fingerprint, lockVars, authorised, refused>>

Crash(p) ==
  /\ pc[p] # "idle"
  /\ Ends(p)
  /\ UNCHANGED <<operatorVars, deviceVars, checkpoint, starts, authorised, refused>>

\* Configuration and authorisation are checked before, and either may be missing.
TakeDevice(p) ==
  /\ pc[p] = "own"
  /\ \/ CanOwn(p) /\ Own(p) /\ UNCHANGED <<checkpoint_owner, fingerprint>>
        /\ Goto(p, IF p \in Daemons THEN "attest" ELSE "compatible")
     \/ Ends(p)
  /\ UNCHANGED <<operatorVars, deviceVars, checkpoint, starts, authorised, refused>>

-----------------------------------------------------------------------------
\* A daemon

\* read_attestation: the fingerprint it will stamp its checkpoint with.
ReadFingerprint(p) ==
  /\ pc[p] = "attest"
  /\ IF read_attestation(name[p])
       THEN /\ fingerprint' = [fingerprint EXCEPT ![p] = attestation[name[p]]]
            /\ Goto(p, "open") /\ UNCHANGED lockVars
       ELSE Ends(p)
  /\ UNCHANGED <<operatorVars, deviceVars, checkpoint, starts, authorised, refused>>

pending(file) == file # none /\ (file.latched \/ file.intent)

\* Faulty variant: whatever is recorded is resumed.
resume_any(file, doc) == TRUE

\* Checkpoint::open refuses pending state that is recorded under other evidence.
may_resume(file, doc) == pending(file) => file.stamp = doc

OpenCheckpoint(p) ==
  /\ pc[p] = "open"
  /\ IF /\ checkpoint_owner[name[p]] = Free
        /\ may_resume(checkpoint[name[p]], fingerprint[p])
       THEN /\ checkpoint_owner' = [checkpoint_owner EXCEPT ![name[p]] = p]
            /\ Goto(p, "run") /\ UNCHANGED <<fingerprint, device_owner>>
       ELSE Ends(p)
  /\ UNCHANGED <<operatorVars, deviceVars, checkpoint, starts, authorised, refused>>

\* Checkpoint::save: the whole file is replaced, under the fingerprint of this process.
Saved(p, latched, intent) ==
  checkpoint' = [checkpoint EXCEPT ![name[p]] =
    [kind |-> "file", stamp |-> fingerprint[p], latched |-> latched, intent |-> intent]]

Latched(n) == checkpoint[n] # none /\ checkpoint[n].latched
Intent(n) == checkpoint[n] # none /\ checkpoint[n].intent

\* A command that is recorded, or whose client failed, and that the device does not see;
\* an earlier one may still be under way.
NotApplied == command' = IF command = "late" THEN "late" ELSE "not applied"

\* The intent is durable before the command.
RecordIntent(p) ==
  /\ pc[p] = "run" /\ ~Latched(name[p]) /\ ~Intent(name[p])
  /\ domain.name = name[p] /\ device = "even"
  /\ Saved(p, FALSE, TRUE) /\ NotApplied
  /\ Goto(p, "authorise")
  /\ UNCHANGED <<operatorVars, device, landed, fingerprint, lockVars, starts, authorised, refused>>

\* VirshResizeSink::prepare: evidence that has drifted, a device that moved, too little
\* RAM or a stop refuse the command, and the intent is released.
Authorise(p) ==
  /\ pc[p] = "authorise"
  /\ \/ /\ Compatible(name[p])
        /\ authorised' = Authorisation(p)
        /\ Goto(p, "send") /\ UNCHANGED <<checkpoint, refused>>
     \/ /\ IF Compatible(name[p]) THEN UNCHANGED refused ELSE Drift(name[p])
        /\ Saved(p, FALSE, FALSE)
        /\ Goto(p, "run") /\ UNCHANGED authorised
  /\ UNCHANGED <<operatorVars, deviceVars, fingerprint, lockVars, starts>>

\* A command that would move the device as one of these says succeeds, ...
Succeeds(moved) == device' \in moved /\ command' = "applied"

\* ... or its client fails: the command took effect, still may, or does not.  (libvirt
\* runs a domain's commands in turn: nothing is under way once one succeeded.)
Fails(moved) ==
  \/ device' \in moved /\ command' = "applied"
  \/ command' = "late" /\ UNCHANGED device
  \/ NotApplied /\ UNCHANGED device

Send(p) ==
  /\ pc[p] = "send"
  /\ \/ /\ domain.name = name[p]
        /\ \/ Succeeds({"growing", "shrinking"}) /\ Goto(p, "run")
           \/ Fails({"growing", "shrinking"}) /\ Goto(p, "unknown")
     \/ domain.name # name[p] /\ NotApplied /\ UNCHANGED device /\ Goto(p, "unknown")
  /\ UNCHANGED <<operatorVars, landed, checkpoint, fingerprint, lockVars, starts, authorised,
                 refused>>

\* The command converged.
Resolve(p) ==
  /\ pc[p] = "run" /\ Intent(name[p]) /\ ~Latched(name[p])
  /\ domain.name = name[p] /\ device = "even" /\ command = "applied"
  /\ Saved(p, FALSE, FALSE)
  /\ UNCHANGED <<operatorVars, deviceVars, procVars, lockVars, starts, authorised, refused>>

\* What was recorded is not what the device was asked for, or its time is over.  A daemon
\* ends when every VM of its own has stopped: it has one.
Latch(p) ==
  /\ pc[p] = "run" /\ Intent(name[p]) /\ ~Latched(name[p])
  /\ domain.name = name[p] /\ (device # "even" \/ command # "applied")
  /\ Saved(p, TRUE, TRUE)
  /\ Ends(p)
  /\ UNCHANGED <<operatorVars, deviceVars, starts, authorised, refused>>

\* The client failed.  An unknown growth ends the daemon, an unknown removal does not.
LatchUnknown(p) ==
  /\ pc[p] = "unknown"
  /\ Saved(p, TRUE, TRUE)
  /\ Ends(p) \/ (Goto(p, "run") /\ UNCHANGED <<fingerprint, lockVars>>)
  /\ UNCHANGED <<operatorVars, deviceVars, starts, authorised, refused>>

\* The guest plugs and unplugs.
Converge ==
  /\ device # "even"
  /\ device' = "even"
  /\ UNCHANGED <<operatorVars, command, landed, checkpoint, procVars, lockVars, starts,
                 authorised, refused>>

\* A late command takes effect, or never does.
Land ==
  /\ command = "late"
  /\ \/ command' = "applied" /\ device' \in {"even", "growing", "shrinking"}
        /\ landed' = \E p \in Clears : pc[p] = "clear"
     \/ command' = "not applied" /\ UNCHANGED <<device, landed>>
  /\ UNCHANGED <<operatorVars, checkpoint, procVars, lockVars, starts, authorised, refused>>

-----------------------------------------------------------------------------
\* clear-latch

CheckCompatible(p) ==
  /\ pc[p] = "compatible"
  /\ IF Compatible(name[p])
       THEN Goto(p, "latched") /\ UNCHANGED <<fingerprint, lockVars, refused>>
       ELSE Ends(p) /\ Drift(name[p])
  /\ UNCHANGED <<operatorVars, deviceVars, checkpoint, starts, authorised>>

\* actuation_latched takes the checkpoint lock and drops it on return.
CheckLatched(p) ==
  /\ pc[p] = "latched"
  /\ IF checkpoint_owner[name[p]] = Free /\ Latched(name[p])
       THEN Goto(p, "settle") /\ UNCHANGED <<fingerprint, lockVars>>
       ELSE Ends(p)
  /\ UNCHANGED <<operatorVars, deviceVars, checkpoint, starts, authorised, refused>>

\* settle_stuck_shrink reads the device.  What grows is refused; a dry run, which changes
\* nothing, ends here.
Settle(p) ==
  /\ pc[p] = "settle"
  /\ \/ /\ domain.name = name[p] /\ device = "even"
        /\ landed' = FALSE
        /\ Goto(p, "clear") /\ UNCHANGED <<fingerprint, lockVars>>
     \/ /\ domain.name = name[p] /\ device = "shrinking"
        /\ Goto(p, "retarget") /\ UNCHANGED <<fingerprint, lockVars, landed>>
     \/ /\ device # "even" \/ domain.name # name[p]
        /\ Ends(p) /\ UNCHANGED landed
  /\ UNCHANGED <<operatorVars, device, command, checkpoint, starts, authorised, refused>>

\* It requests what the guest has kept, unless the device moved meanwhile; a guest that
\* gives back one more block after this check is then asked to grow.
Kept == {"even", "growing"}
Retarget(p) ==
  /\ pc[p] = "retarget"
  /\ \/ /\ device = "shrinking" /\ Compatible(name[p])
        /\ authorised' = Authorisation(p)
        /\ \/ Succeeds(Kept) /\ Goto(p, "settled") /\ UNCHANGED <<fingerprint, lockVars>>
           \/ Fails(Kept) /\ Ends(p)
     \/ Ends(p) /\ UNCHANGED <<device, command, authorised>>
  /\ UNCHANGED <<operatorVars, landed, checkpoint, starts, refused>>

\* Faulty variant: the retarget's success is taken for the device's state.
taken_for_settled == TRUE
settled == device = "even"

\* And it reads again: only a device at rest is settled.
Resettle(p) ==
  /\ pc[p] = "settled"
  /\ IF domain.name = name[p] /\ settled
       THEN landed' = FALSE /\ Goto(p, "clear") /\ UNCHANGED <<fingerprint, lockVars>>
       ELSE Ends(p) /\ UNCHANGED landed
  /\ UNCHANGED <<operatorVars, device, command, checkpoint, starts, authorised, refused>>

\* clear_actuation_latch: locks and loads again, whatever evidence the file names, and
\* stamps it with the attestation of now.  A dry run changes nothing.
Clear(p) ==
  /\ pc[p] = "clear"
  /\ LET n == name[p]
     IN \/ /\ read_attestation(n) /\ checkpoint_owner[n] = Free /\ Latched(n)
           /\ checkpoint' = [checkpoint EXCEPT ![n] =
                [kind |-> "file", stamp |-> attestation[n], latched |-> FALSE,
                 intent |-> FALSE]]
        \/ UNCHANGED checkpoint
  /\ Ends(p) /\ landed' = FALSE
  /\ UNCHANGED <<operatorVars, device, command, starts, authorised, refused>>

-----------------------------------------------------------------------------
\* The operator and the domain (external)

\* Redefined, restarted (another id, other labels; a guest that lost its memory grows
\* back; a late command is lost with the process it was for), or renamed.
Restart ==
  /\ domain' = [domain EXCEPT !.boot = @ + 1]
  /\ device' \in {device, "regrowing"}
  /\ command' = IF command = "late" THEN "not applied" ELSE command
Change ==
  /\ changes < MaxChanges /\ changes' = changes + 1
  /\ \/ domain' = [domain EXCEPT !.config = @ + 1] /\ UNCHANGED <<device, command>>
     \/ Restart
     \/ \E n \in Names \ {domain.name} : domain' = [domain EXCEPT !.name = n]
        /\ UNCHANGED <<device, command>>
  /\ UNCHANGED <<landed, attestation, collecting, attests, checkpoint, procVars, lockVars, starts,
                 authorised, refused>>

Daemon(p) == ReadFingerprint(p) \/ OpenCheckpoint(p) \/ RecordIntent(p) \/ Authorise(p)
             \/ Send(p) \/ Resolve(p) \/ Latch(p) \/ LatchUnknown(p)
ClearLatch(p) == CheckCompatible(p) \/ CheckLatched(p) \/ Settle(p) \/ Retarget(p)
                 \/ Resettle(p) \/ Clear(p)

Next ==
  \/ \E p \in Procs : Start(p) \/ Crash(p) \/ TakeDevice(p)
  \/ \E p \in Daemons : Daemon(p)
  \/ \E p \in Clears : ClearLatch(p)
  \/ CollectArgv \/ Converge \/ Land \/ Change
  \/ \E n \in Names : CollectXml(n)

Spec == Init /\ [][Next]_vars

-----------------------------------------------------------------------------
\* Properties

\* Who has passed the device's lock.
Holders == {p \in Procs : pc[p] \notin {"idle", "own"}}

\* ownership.rs: one process at a time has the device, whatever name the domain had when
\* it took it, and whether it is a daemon of the unit, one started by hand, or clear-latch.
OneActuator == Cardinality(Holders) <= 1

\* "Control state recorded under different compatibility evidence is refused rather than
\* resumed" (checkpoint.rs): what a daemon has pending is stamped with the attestation it
\* started with, across crashes, new attestations and cleared latches.
ResumedUnderEvidence ==
  \A p \in Daemons : pc[p] \in {"run", "authorise", "send", "unknown"} /\ pending(checkpoint[name[p]])
                     => checkpoint[name[p]].stamp = fingerprint[p]

\* Evidence accepts and refuses what it should.  A command is authorised only for a
\* definition that one attestation saw whole: not for one that changed while its evidence
\* was collected, nor for a later one.  And "a VM restart must not look like drift"
\* (attestation.rs): evidence is refused only if the definition is not what was attested.
EvidenceExact ==
  /\ authorised # none => authorised.of = {authorised.config}
  /\ refused # none => refused.of # {refused.live}

\* clear-latch "refuses divergent requested/current state" (checkpoint.rs): when a latch
\* goes, the device is at rest, whatever the latched command did to it and although the
\* domain was renamed or other daemons were started meanwhile.  What may have moved it
\* since clear-latch looked is a guest that lost its memory in a restart, or a command
\* whose client had timed out: libvirt has no way to call one back, and nobody else does.
ClearedQuiet ==
  [][\A n \in Names : Latched(n) /\ ~Latched(n)' =>
       device \in {"even", "regrowing"} \/ landed]_vars
=============================================================================
