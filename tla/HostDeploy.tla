----------------------------- MODULE HostDeploy -----------------------------
(***************************************************************************)
(* `cargo xtask host-deploy INSTANCE` (host_deploy.rs): validates a        *)
(* configuration and its attestations, retains what is installed, and      *)
(* installs binary, unit, libvirt policy, configuration and attestations   *)
(* one file after the other.  Meanwhile the sources may be edited or       *)
(* rebuilt, the unit may be started, and the command may be killed or fail *)
(* at every step: it has no rollback, only the backups.                    *)
(*                                                                         *)
(* A file's contents are a number.  The files of one configuration (global *)
(* settings, host list, one file per VM) are one file here.                *)
(***************************************************************************)
EXTENDS Integers, Sequences

CONSTANTS
  MaxEdits,    \* bound: edits and rebuilds of the sources
  MaxDeploys   \* bound: host-deploy commands

ASSUME HostDeployAssumption == MaxEdits \in Nat /\ MaxDeploys \in Nat

\* In the order in which they are installed.  The instance's own configuration file of
\* earlier versions ("legacy") and its drop-ins are moved away, never installed.
InstallOrder == <<"binary", "unit", "rules", "config", "attestation">>
Installed == {InstallOrder[i] : i \in 1 .. Len(InstallOrder)}
Moved == {"dropin", "legacy"}
Absent == -1
Torn == -2     \* a copy that was cut short
Custom == 1    \* a legacy configuration that differs from the derived one

VARIABLES
  source,      \* the repository's files: what would be installed
  target,      \* the files on the host
  backups,     \* everything in the backup directories
  unit,        \* the systemd unit: running which files (Absent: inactive), enabled
  step,        \* host-deploy: where it is; "idle" between commands
  apply,       \* --apply, or a dry run
  snapshot,    \* the configuration it validated
  hashes,      \* the contents it hashed
  evidence,    \* the evidence it wrote last
  edits, deploys,
  had          \* history: every file that was whole on the host

deployVars == <<source, target, backups, unit, step, apply, snapshot, hashes, evidence,
                edits, deploys, had>>

Inactive == [f \in Installed |-> Absent]
NoEvidence == [applied |-> FALSE]

DeployInit ==
  /\ source = [f \in Installed |-> 1]
  /\ target \in [Installed \cup Moved -> {Absent, 0, Custom}]
  /\ \A f \in Installed : target[f] = target["binary"] /\ target[f] # Custom
  /\ target["dropin"] # Custom
  /\ backups = {}
  /\ unit \in [running : {Inactive}, enabled : BOOLEAN]
  /\ step = "idle" /\ apply = FALSE /\ snapshot = Absent /\ hashes = Inactive
  /\ evidence = NoEvidence
  /\ edits = 0 /\ deploys = 0
  /\ had = {<<f, target[f]>> : f \in {g \in Installed \cup Moved : target[g] # Absent}}

-----------------------------------------------------------------------------
\* The world

\* Sources are edited and rebuilt at any time.
Edit(f) ==
  /\ edits < MaxEdits /\ edits' = edits + 1
  /\ source' = [source EXCEPT ![f] = @ + 1]
  /\ UNCHANGED <<target, backups, unit, step, apply, snapshot, hashes, evidence, deploys, had>>

\* systemctl start, or a boot of an enabled unit; the unit refuses no files.
StartUnit ==
  /\ unit.running = Inactive /\ target["binary"] >= 0
  /\ unit' = [unit EXCEPT !.running = [f \in Installed |-> target[f]]]
  /\ UNCHANGED <<source, target, backups, step, apply, snapshot, hashes, evidence, edits,
                 deploys, had>>

StopUnit ==
  /\ unit.running # Inactive
  /\ unit' = [unit EXCEPT !.running = Inactive]
  /\ UNCHANGED <<source, target, backups, step, apply, snapshot, hashes, evidence, edits,
                 deploys, had>>

-----------------------------------------------------------------------------
\* The command, one action per step that reads or changes something

At(here) == step = here
Worldly == <<source, edits, deploys>>
Leaves == <<backups, unit, apply, snapshot, hashes, evidence, had, Worldly>>

\* snapshot_configuration: the three formats are read together.
Snapshot ==
  /\ At("idle") /\ deploys < MaxDeploys /\ deploys' = deploys + 1
  /\ apply' \in BOOLEAN
  /\ snapshot' = source["config"]
  /\ step' = "validate"
  /\ UNCHANGED <<target, backups, unit, hashes, evidence, had, source, edits>>

\* Any step may fail, time out or be killed (the elevated child with its children), and
\* is not undone.
Fail ==
  /\ step # "idle"
  /\ step' = "idle"
  /\ snapshot' = Absent /\ hashes' = Inactive /\ apply' = FALSE
  /\ UNCHANGED <<target, backups, unit, evidence, had, Worldly>>

require_inactive == unit.running = Inactive

\* validate_legacy_paths: a legacy configuration whose paths or identities are not the
\* derived ones is not migrated.  Attestations are validated against the live VM.
migratable == target["legacy"] # Custom
Validate ==
  /\ At("validate") /\ migratable /\ require_inactive
  /\ step' = "hash"
  /\ UNCHANGED <<target, Leaves>>

unless_dry_run == IF apply THEN "backup" ELSE "after"

\* Everything but the configuration is hashed where the repository has it.
Hash ==
  /\ At("hash")
  /\ hashes' = [source EXCEPT !["config"] = snapshot]
  /\ step' = unless_dry_run
  /\ UNCHANGED <<target, backups, unit, apply, snapshot, evidence, had, Worldly>>

\* Faulty variant: a file that is about to get its own contents again is not retained.
retain_changed ==
  backups \cup {<<f, target[f]>> : f \in {g \in Installed : target[g] # Absent
                                                           /\ source[g] # target[g]}}
\* Every target that exists is copied before any is replaced.
retain == backups \cup {<<f, target[f]>> : f \in {g \in Installed : target[g] # Absent}}

Backup ==
  /\ At("backup")
  /\ backups' = retain
  /\ step' = "dropin"
  /\ UNCHANGED <<target, unit, apply, snapshot, hashes, evidence, had, Worldly>>

\* Obsolete files are renamed into the backup.
Move(f) ==
  /\ backups' = IF target[f] = Absent THEN backups ELSE backups \cup {<<f, target[f]>>}
  /\ target' = [target EXCEPT ![f] = Absent]
MoveDropin ==
  /\ At("dropin") /\ Move("dropin")
  /\ step' = InstallOrder[1]
  /\ UNCHANGED <<unit, apply, snapshot, hashes, evidence, had, Worldly>>
ArchiveLegacy ==
  /\ At("legacy") /\ Move("legacy")
  /\ step' = "attestation"
  /\ UNCHANGED <<unit, apply, snapshot, hashes, evidence, had, Worldly>>

\* What install_file copies: the snapshot, or the file in the repository.
installed_from(f) == IF f = "config" THEN snapshot ELSE source[f]

After(f) == CASE f = "config" -> "legacy"
              [] f = "attestation" -> "disable"
              [] OTHER -> InstallOrder[CHOOSE i \in 2 .. Len(InstallOrder) : InstallOrder[i - 1] = f]
InstallFile(f) ==
  /\ At(f)
  /\ target' = [target EXCEPT ![f] = installed_from(f)]
  /\ had' = had \cup {<<f, installed_from(f)>>}
  /\ step' = After(f)
  /\ UNCHANGED <<backups, unit, apply, snapshot, hashes, evidence, Worldly>>
\* install(1) removes the target and writes a new one: cut short, neither is there.
TearFile(f) ==
  /\ At(f)
  /\ target' = [target EXCEPT ![f] = Torn]
  /\ step' = "idle" /\ snapshot' = Absent /\ hashes' = Inactive /\ apply' = FALSE
  /\ UNCHANGED <<backups, unit, evidence, had, Worldly>>

\* daemon-reload, disable; whether it was enabled is noted in the backup.
Disable ==
  /\ At("disable")
  /\ unit' = [unit EXCEPT !.enabled = FALSE]
  /\ backups' = IF unit.enabled THEN backups \cup {<<"was-enabled", 0>>} ELSE backups
  /\ step' = "after"
  /\ UNCHANGED <<target, apply, snapshot, hashes, evidence, had, Worldly>>

\* Faulty variant: only the check before the installation.
checked_before == TRUE
inactive_after == require_inactive

\* properties, require_inactive and Restart=no; then the installed binary is hashed.
Conclude ==
  /\ At("after") /\ inactive_after
  /\ step' = "write"
  /\ UNCHANGED <<target, Leaves>>

\* persist; the elevated child's evidence is written by its parent.
WriteEvidence ==
  /\ At("write")
  /\ evidence' = IF apply THEN [applied |-> TRUE, hashes |-> hashes,
                                binary |-> target["binary"]]
                 ELSE NoEvidence
  /\ step' = "idle" /\ snapshot' = Absent /\ hashes' = Inactive /\ apply' = FALSE
  /\ UNCHANGED <<target, backups, unit, had, Worldly>>

HostDeployNext ==
  \/ Snapshot \/ Validate \/ Hash \/ Backup \/ MoveDropin \/ ArchiveLegacy \/ Disable
  \/ Conclude \/ WriteEvidence \/ Fail
  \/ \E f \in Installed : InstallFile(f) \/ TearFile(f) \/ Edit(f)
  \/ StartUnit \/ StopUnit

HostDeploySpec == DeployInit /\ [][HostDeployNext]_deployVars

-----------------------------------------------------------------------------
\* Properties

\* Whatever a deployment replaced or moved away is in some backup, however many
\* deployments were cut short at whichever step and however often one was repeated.
NothingLost == \A file \in had : target[file[1]] = file[2] \/ file \in backups

\* What the evidence of an applied deployment says is so.  "validation, hashing and
\* installation consume the same bytes even if the administrator edits the source later"
\* (host_deploy.rs): the configuration it names is the one installed.  And a daemon that
\* runs by then was started after the last file: it runs what was deployed, not the old
\* files or a mixture.
EvidenceHolds ==
  [][evidence' # evidence /\ evidence'.applied =>
       /\ target["config"] = evidence'.hashes["config"]
       /\ unit.running # Inactive => \A f \in Installed : unit.running[f] = target[f]]_deployVars
=============================================================================
