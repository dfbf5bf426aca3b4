---------------------------- MODULE GuestDeploy ----------------------------
(***************************************************************************)
(* `cargo xtask windows`: sync, build, fetch, deploy, uninstall and        *)
(* service-cycle (windows.rs) with the build identities they pass on       *)
(* (build_identity.rs).  Each is a series of ssh and scp commands with a   *)
(* timeout; deploy and uninstall run a PowerShell script in the guest.     *)
(* The working tree is edited meanwhile, a command may fail or die after   *)
(* any step, and a remote build may outlive the command that started it.   *)
(*                                                                         *)
(* An executable is the identity compiled into it and the sources it was   *)
(* compiled from; a SHA-256 tells any two of them apart.                   *)
(***************************************************************************)
EXTENDS Integers

CONSTANTS
  MaxTree,     \* bound: versions of the working tree
  MaxCommands, \* bound: commands run
  DeployFaults \* which failures a run allows

DeployFaultKinds == {"torn_sync", "edit_in_sync", "late_build", "die", "unchecked"}

ASSUME GuestDeployAssumption ==
  /\ MaxTree \in Nat \ {0} /\ MaxCommands \in Nat
  /\ DeployFaults \subseteq DeployFaultKinds

VARIABLES
  tree,        \* the working tree
  workspace,   \* the build guest's sources, and the stamp beside them
  release,     \* target\release\virtio-mem-service.exe there
  late,        \* the identity a build is still running with after its command ended
  record,      \* build.json: the fetched build
  op,          \* the running command's next step; "idle" between commands
  held,        \* what the command remembers from its earlier steps
  guest,       \* the service in the guest: executable, configuration, registration, running
  kept,        \* everything in the guest's deployment-backups
  outcome,     \* what the last deploy told the operator
  commands,
  disturbed,   \* history: identities whose sources changed under a sync or a build
  was          \* history: every file of a service that was deployed

buildVars == <<tree, workspace, release, late, record, disturbed>>
serviceVars == <<guest, kept, was>>
guestDeployVars == <<buildVars, serviceVars, op, held, outcome, commands>>

NoExe == [id |-> -1, of |-> -1]
TornExe == [id |-> -2, of |-> -2]
PriorExe == [id |-> 0, of |-> 0]
Nothing == [kind |-> "nothing"]

Empty == [exe |-> NoExe, config |-> "none", registration |-> "none", running |-> NoExe]
PriorStates ==
  {Empty} \cup [exe : {PriorExe}, config : {"prior", "custom"}, registration : {"prior"},
                running : {NoExe, PriorExe}]
Files(g) == {<<"exe", g.exe>>, <<"config", g.config>>} \ {<<"exe", NoExe>>, <<"exe", TornExe>>,
                                                          <<"config", "none">>}

GuestDeployInit ==
  /\ tree = 1 /\ workspace = [source |-> 0, stamp |-> 0] /\ release = NoExe /\ late = 0
  /\ record = Nothing
  /\ op = "idle" /\ held = Nothing /\ outcome = "none" /\ commands = 0
  /\ guest \in PriorStates /\ kept = {}
  /\ disturbed = {} /\ was = Files(guest)

-----------------------------------------------------------------------------
\* Commands

Begin(first) == op = "idle" /\ commands < MaxCommands /\ commands' = commands + 1 /\ op' = first
Then(here, next) == op = here /\ op' = next /\ UNCHANGED commands
Done(here) == Then(here, "idle") /\ held' = Nothing

\* An ssh or scp that fails or times out ends the command; so does a script's error
\* before its try block.
Scripts == {"stop", "copy", "config", "install", "start", "telemetry", "undo", "undo_files",
            "undo_registration", "undo_start"}
GiveUp ==
  /\ op \notin {"idle"} \cup Scripts
  /\ outcome' = IF held.kind = "deploy" THEN "error" ELSE outcome
  /\ op' = "idle" /\ held' = Nothing
  /\ UNCHANGED <<buildVars, serviceVars, commands>>

EditTree ==
  /\ tree < MaxTree
  /\ op # "archive" \/ "edit_in_sync" \in DeployFaults
  /\ tree' = tree + 1
  /\ UNCHANGED <<workspace, release, late, record, disturbed, serviceVars, op, held, outcome,
                 commands>>

-----------------------------------------------------------------------------
\* sync, build, fetch

\* source_identity, a digest of every file; then tar reads the files again.
Identify ==
  /\ Begin("archive")
  /\ held' = [kind |-> "sync", identity |-> tree]
  /\ UNCHANGED <<buildVars, serviceVars, outcome>>
Archive ==
  /\ Then("archive", "extract")
  /\ held' = [kind |-> "sync", identity |-> held.identity, archive |-> tree]
  /\ disturbed' = IF held.identity = tree THEN disturbed ELSE disturbed \cup {held.identity}
  /\ UNCHANGED <<tree, workspace, release, late, record, serviceVars, outcome>>

\* The sources of a build that is still running are replaced.
Overtaken == IF late \in {0, held.archive} THEN {} ELSE {late}
\* The stamp is the archive's last file.
Extract ==
  /\ Done("extract")
  /\ workspace' = [source |-> held.archive, stamp |-> held.identity]
  /\ disturbed' = disturbed \cup Overtaken
  /\ UNCHANGED <<tree, release, late, record, serviceVars, outcome>>
\* Cut short, it leaves the earlier stamp beside the new files.
ExtractPartly ==
  /\ "torn_sync" \in DeployFaults
  /\ Done("extract")
  /\ workspace' = [workspace EXCEPT !.source = held.archive]
  /\ disturbed' = disturbed \cup {workspace.stamp} \cup Overtaken
  /\ UNCHANGED <<tree, release, late, record, serviceVars, outcome>>

\* remote_identity, then cargo with VIRTIO_MEM_BUILD_ID; cargo waits for another cargo.
StartBuild ==
  /\ workspace.stamp > 0
  /\ Begin("build")
  /\ held' = [kind |-> "build", identity |-> workspace.stamp]
  /\ UNCHANGED <<buildVars, serviceVars, outcome>>
Compiled(id) == [id |-> id, of |-> workspace.source]
FinishBuild ==
  /\ late = 0
  /\ Done("build")
  /\ release' = Compiled(held.identity)
  /\ UNCHANGED <<tree, workspace, late, record, disturbed, serviceVars, outcome>>
\* The timeout ends ssh, not cargo.
OutliveBuild ==
  /\ "late_build" \in DeployFaults /\ late = 0
  /\ Done("build")
  /\ late' = held.identity
  /\ UNCHANGED <<tree, workspace, release, record, disturbed, serviceVars, outcome>>
LateBuild ==
  /\ late > 0
  /\ release' = Compiled(late)
  /\ late' = 0
  /\ UNCHANGED <<tree, workspace, record, disturbed, serviceVars, op, held, outcome, commands>>

\* The candidate's own report of its build must be the synchronised source.
reports(identity) == release # NoExe /\ release.id = identity
FetchCheck ==
  /\ Begin("copy_out")
  /\ reports(workspace.stamp)
  /\ held' = [kind |-> "fetch", identity |-> workspace.stamp]
  /\ UNCHANGED <<buildVars, serviceVars, outcome>>
FetchCopy ==
  /\ Then("copy_out", "compare")
  /\ held' = [kind |-> "fetch", identity |-> held.identity, exe |-> release]
  /\ UNCHANGED <<buildVars, serviceVars, outcome>>
\* fetch_verified compares the hashes; then build.json is replaced.
FetchRecord ==
  /\ Done("compare")
  /\ held.exe = release
  /\ record' = [kind |-> "record", id |-> held.identity, exe |-> held.exe]
  /\ UNCHANGED <<tree, workspace, release, late, disturbed, serviceVars, outcome>>

-----------------------------------------------------------------------------
\* deploy: deployment_powershell

\* The candidate must be the fetched build.
DeployBegin ==
  /\ record # Nothing /\ release = record.exe
  /\ Begin("retain")
  /\ outcome' = "none"
  /\ held' = [kind |-> "deploy", prior |-> guest, silent |-> {}]
  /\ UNCHANGED <<buildVars, serviceVars>>

retained(g) == Files(g)

\* A native program's exit code, or an error that is silenced, is not looked at.  What
\* failed so, of the commands a rollback rests on, is remembered.
Unchecked(command) ==
  /\ "unchecked" \in DeployFaults
  /\ held' = [held EXCEPT !.silent = @ \cup {command}]

\* Executable, configuration and registration are copied, the last by reg.exe export.  A
\* configuration of another schema whose settings differ ends the script here.
Retain ==
  /\ op = "retain"
  /\ UNCHANGED held \/ (guest.registration # "none" /\ Unchecked("export"))
  /\ kept' = kept \cup retained(guest)
  /\ op' = "migrate"
  /\ UNCHANGED <<buildVars, guest, was, outcome, commands>>
Migrate ==
  /\ guest.config # "custom"
  /\ Then("migrate", "stop")
  /\ UNCHANGED <<buildVars, serviceVars, held, outcome>>

\* Stop-Service and sc.exe delete.
unregistered(g) == [g EXCEPT !.running = NoExe, !.registration = "none"]

stopped(g) == [g EXCEPT !.running = NoExe]

InTry == {"stop", "copy", "config", "install", "start", "telemetry"}
\* One step of the try block.
Try(here, next) == Then(here, next) /\ UNCHANGED <<buildVars, kept, was, held, outcome>>

\* The deletion may fail; the candidate's installation does then.
StopAndDelete ==
  /\ Try("stop", "copy")
  /\ \/ guest' = unregistered(guest)
     \/ guest.registration # "none" /\ "unchecked" \in DeployFaults /\ guest' = stopped(guest)
CopyCandidate ==
  /\ Try("copy", "config")
  /\ guest' = [guest EXCEPT !.exe = release]
WriteConfig ==
  /\ Try("config", "install")
  /\ guest' = [guest EXCEPT !.config = "new"]
InstallService ==
  /\ guest.registration = "none"
  /\ Try("install", "start")
  /\ guest' = [guest EXCEPT !.registration = "new"]
StartService ==
  /\ Try("start", "telemetry")
  /\ guest' = [guest EXCEPT !.running = guest.exe]

\* Faulty variant: the script's answer is taken as it is.
trusts_candidate(id) == TRUE
installed_is(id) == id = record.id

\* Telemetry advanced twice; the script returns what `version` answers, and deploy compares
\* that with the record.  No answer, or one that comes after ssh's timeout, is an error.
ReportDeployed ==
  /\ Done("telemetry")
  /\ \E answer \in {guest.exe.id, -1} :
       outcome' = IF installed_is(answer) THEN "ok" ELSE "error"
  /\ was' = was \cup Files(guest)
  /\ UNCHANGED <<buildVars, guest, kept>>

\* An error in the try block.  Copy-Item may leave half a file.
Throw ==
  /\ op \in InTry
  /\ op' = "undo"
  /\ \/ UNCHANGED guest
     \/ op = "copy" /\ guest' = [guest EXCEPT !.exe = TornExe]
     \/ op = "stop" /\ guest' = [guest EXCEPT !.running = NoExe]
  /\ UNCHANGED <<buildVars, kept, was, held, outcome, commands>>

\* One step of the catch block.
Undo(here, next) == Then(here, next) /\ UNCHANGED <<buildVars, kept, was, outcome>>

\* Stop-Service is silenced, sc.exe delete unchecked.  (A service that runs on is
\* registered until it ends, whether it was deleted or not.)
UndoService ==
  /\ Undo("undo", "undo_files")
  /\ \/ guest' = unregistered(guest) /\ UNCHANGED held
     \/ guest.registration # "none" /\ guest' = stopped(guest) /\ Unchecked("delete")
     \/ guest.running # NoExe /\ guest' = guest /\ Unchecked("stop")

\* An executable that runs cannot be replaced: the rollback ends with that error.
CannotReplace == guest.running # NoExe /\ held.prior.exe # NoExe
UndoRefused ==
  /\ Done("undo_files")
  /\ CannotReplace
  /\ outcome' = "error"
  /\ UNCHANGED <<buildVars, serviceVars>>

\* What was retained is copied back.  Where there was no configuration the new one is
\* removed, which is silenced.
UndoFiles ==
  /\ Undo("undo_files", "undo_registration")
  /\ ~CannotReplace
  /\ LET restored == [guest EXCEPT
            !.exe = IF held.prior.exe = NoExe THEN guest.exe ELSE held.prior.exe,
            !.config = held.prior.config]
     IN \/ guest' = restored /\ UNCHANGED held
        \/ /\ held.prior.config = "none" /\ Unchecked("remove")
           /\ guest' = [restored EXCEPT !.config = guest.config]

\* service.reg: what reg.exe import has to import.
exported == IF "export" \in held.silent THEN "none" ELSE held.prior.registration
UndoRegistration ==
  /\ Undo("undo_registration", "undo_start")
  /\ \/ /\ guest' = IF exported = "none" THEN guest
                      ELSE [guest EXCEPT !.registration = exported]
        /\ UNCHANGED held
     \/ exported # "none" /\ Unchecked("import") /\ UNCHANGED guest

\* Start-Service finds the service or fails the rollback.
UndoStart ==
  /\ Done("undo_start")
  /\ IF exported # "none" /\ held.prior.running # NoExe
       THEN IF guest.registration # "none"
              THEN guest' = [guest EXCEPT !.running = guest.exe] /\ outcome' = "rolled back"
              ELSE guest' = guest /\ outcome' = "error"
       ELSE guest' = guest /\ outcome' = "rolled back"
  /\ UNCHANGED <<buildVars, kept, was>>

\* The guest, the session or the script ends: no catch block runs.
Die ==
  /\ "die" \in DeployFaults
  /\ op \in Scripts
  /\ op' = "idle" /\ held' = Nothing /\ outcome' = "error"
  /\ \/ UNCHANGED guest
     \/ /\ op \in {"copy", "undo_files"} /\ guest.running = NoExe
        /\ guest' = [guest EXCEPT !.exe = TornExe]
  /\ UNCHANGED <<buildVars, kept, was, commands>>

-----------------------------------------------------------------------------
\* uninstall and service-cycle

\* Nothing is removed unless all three are retained: here the export is checked.
UninstallRetain ==
  /\ guest.registration # "none"
  /\ Begin("remove_service")
  /\ kept' = kept \cup retained(guest)
  /\ held' = [kind |-> "uninstall"]
  /\ UNCHANGED <<buildVars, guest, was, outcome>>
RemoveService ==
  /\ Then("remove_service", "remove_files")
  /\ guest' = unregistered(guest)
  /\ UNCHANGED <<buildVars, kept, was, held, outcome>>
\* Publications and request state stay.
RemoveFiles ==
  /\ Done("remove_files")
  /\ guest' \in {Empty, [Empty EXCEPT !.config = guest.config]}
  /\ UNCHANGED <<buildVars, kept, was, outcome>>

\* Stop and start; when that fails a service that ran is started again.
Cycle ==
  /\ guest.registration # "none" /\ op = "idle"
  /\ guest' \in [exe : {guest.exe}, config : {guest.config},
                 registration : {guest.registration}, running : {guest.exe, NoExe}]
  /\ UNCHANGED <<buildVars, kept, was, op, held, outcome, commands>>

SyncBuildFetch == Identify \/ Archive \/ Extract \/ ExtractPartly \/ StartBuild \/ FinishBuild
                  \/ OutliveBuild \/ LateBuild \/ FetchCheck \/ FetchCopy \/ FetchRecord
Deploy == DeployBegin \/ Retain \/ Migrate \/ StopAndDelete \/ CopyCandidate \/ WriteConfig
          \/ InstallService \/ StartService \/ ReportDeployed \/ Throw \/ UndoService
          \/ UndoRefused \/ UndoFiles \/ UndoRegistration \/ UndoStart \/ Die
Uninstall == UninstallRetain \/ RemoveService \/ RemoveFiles

GuestDeployNext == EditTree \/ GiveUp \/ SyncBuildFetch \/ Deploy \/ Uninstall \/ Cycle

GuestDeploySpec == GuestDeployInit /\ [][GuestDeployNext]_guestDeployVars

-----------------------------------------------------------------------------
\* Properties

\* What the status script finds: the executable of the registered service.
build_status == IF guest.registration = "none" THEN Nothing
                ELSE [kind |-> "installed", exe |-> guest.exe]

Verdict == IF record = Nothing THEN "no candidate"
           ELSE IF build_status = Nothing THEN "not installed"
           ELSE IF build_status.exe = record.exe THEN "current" ELSE "update available"

\* Every executable and configuration of a service that was deployed is in its place or
\* in a backup, wherever later deployments, rollbacks and uninstallations ended.
GuestNothingLost == \A file \in was : file \in Files(guest) \/ file \in kept

\* What the operator is told is so, after failed syncs and builds, builds that outlive
\* their command and edits in any order.  The build a record names is the source its
\* executable was compiled from (build_identity.rs); when deploy reports success the
\* service in the guest is that build, although the candidate is hashed in one command and
\* copied by another; both but for a source that changed while it was being synchronised
\* or built.  A deployment that says it was rolled back has put back every file it found,
\* and runs the earlier executable again if that ran and its registration was exported;
\* it has left registration, configuration and service exactly as they were unless one of
\* the commands the script does not check (the export and import of the registration, the
\* rollback's stop, deletion and removal) failed under it.
RolledBack ==
  /\ held.prior.exe # NoExe => guest'.exe = held.prior.exe
  /\ held.prior.config # "none" => guest'.config = held.prior.config
  /\ held.prior.running # NoExe /\ "export" \notin held.silent =>
       guest'.running = held.prior.running
  /\ held.silent = {} =>
       /\ guest'.config = held.prior.config
       /\ guest'.registration = held.prior.registration
       /\ guest'.running = held.prior.running
ReportsTruthful ==
  /\ [](record # Nothing /\ record.id \notin disturbed => record.exe.of = record.id)
  /\ [][outcome' = "ok" /\ outcome # "ok" /\ record.id \notin disturbed =>
         Verdict' = "current"]_guestDeployVars
  /\ [][outcome' = "rolled back" /\ outcome # "rolled back" => RolledBack]_guestDeployVars
=============================================================================
