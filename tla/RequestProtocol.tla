-------------------------- MODULE RequestProtocol --------------------------
(***************************************************************************)
(* Guest and host together: GuestRequester with the host that RequestHost  *)
(* specifies (and VmController implements) in place of its environment.    *)
(* They share two files, the guest's publication and the host's status,    *)
(* each replaced by one side and read by the other in its own time.        *)
(***************************************************************************)
EXTENDS GuestRequester

CONSTANT HostFaults  \* which latches and refusals a run allows

HostFaultKinds == {"latch", "expire", "transient"}

ASSUME HostFaultsAssumption == HostFaults \subseteq HostFaultKinds
ASSUME NoOutcomeAssumption == None \notin Outcomes

VARIABLES
  journal, command, latched, hand,  \* the host, as in RequestHost
  refused                           \* history: requests refused so far

Host == INSTANCE RequestHost WITH
  SameId <- LAMBDA r, s : <<r.session, r.sequence>> = <<s.session, s.sequence>>,
  After <- LAMBDA r, s : r.issued > s.issued,
  slot <- publication,
  report <- ResultIn(status)

hostVars == <<journal, command, latched, hand>>
protocolVars == <<vars, hostVars, refused>>

ProtocolInit ==
  /\ Init
  /\ journal = [request |-> None, outcome |-> None]
  /\ command = FALSE /\ latched = FALSE /\ hand = None
  /\ refused = {}

-----------------------------------------------------------------------------
\* The status file: the device as this poll saw it, and a result.
Devices ==
  {device \in [requested : Blocks, current : Blocks] :
     device.requested # device.current => "diverged" \in Conditions}
Written(result) ==
  {[requested |-> device.requested, current |-> device.current, result |-> result] :
     device \in Devices}
JournalResult == Host!Reported(journal.request, journal.outcome)

\* Transient refusals may be followed by an admission.
HostTake ==
  /\ publication \in refused => "transient" \in HostFaults
  /\ UNCHANGED <<vars, refused>>
  /\ Host!Take

HostDrop ==
  /\ UNCHANGED <<vars, refused>>
  /\ Host!Drop

\* A refusal is not journalled.  It is final if the request expired or is
\* malformed; a latch, or clocks that disagree, refuse it only for now.
HostRefuse ==
  /\ HostFaults \cap {"expire", "transient"} # {}
  /\ \E r \in {publication, hand} \ {None} :
       /\ status' \in Written([request |-> r, outcome |-> "Rejected"])
       /\ refused' = refused \cup {r}
  /\ UNCHANGED guestVars
  /\ Host!Refuse

\* A change of the journal, its report about r written in the same poll or not.
Recording(r) ==
  /\ \/ status' = status
     \/ /\ r # None
        /\ \E outcome \in Outcomes : status' \in Written([request |-> r, outcome |-> outcome])
  /\ UNCHANGED <<guestVars, refused>>

HostAct == hand # None /\ Recording(hand) /\ (Host!Begin \/ Host!Decline)
HostFinish == command /\ Recording(journal.request) /\ Host!Finish
HostLatch == "latch" \in HostFaults /\ Recording(journal.request) /\ Host!Latch

\* The operator's command does not write the status file.
HostClear ==
  /\ UNCHANGED <<vars, refused>>
  /\ Host!Clear

HostReport ==
  /\ status' \in Written(JournalResult)
  /\ UNCHANGED <<guestVars, refused>>
  /\ Host!Report

HostStep == HostTake \/ HostDrop \/ HostRefuse \/ HostAct \/ HostFinish
            \/ HostLatch \/ HostClear \/ HostReport
GuestStep == Guest /\ UNCHANGED <<hostVars, refused>>

ProtocolNext == GuestStep \/ HostStep

ProtocolSpec == ProtocolInit /\ [][ProtocolNext]_protocolVars

\* The worker polls, and is started again after a stop.  The host polls, does not
\* die at every single poll, finishes its commands (VmController's Answered), and
\* an operator clears a latch.
GuestRuns == (Start \/ Poll \/ (stop /\ Exit)) /\ UNCHANGED <<hostVars, refused>>
ProtocolFairness ==
  /\ WF_protocolVars(GuestRuns)
  /\ SF_protocolVars(HostTake)
  /\ SF_protocolVars(HostAct)
  /\ WF_protocolVars(HostFinish)
  /\ WF_protocolVars(HostClear)
  /\ WF_protocolVars(HostReport)

FairProtocolSpec == ProtocolSpec /\ ProtocolFairness

-----------------------------------------------------------------------------
\* Properties

\* While the host has not resolved a request, the guest holds on to that very
\* request, in its state file, and so asks for nothing else: an uncertain command
\* never permits a fresh delta, across restarts of the service, lost status files
\* and old publications that a power loss brings back.
SlotAgreed == Host!Unresolved => disk.pending = journal.request

\* A request that the guest retains and the host has not taken is one the host will
\* take once it has resolved the last one: of another identity and issued later,
\* although the service was restarted, the clock set back or an old publication
\* brought back.  Otherwise the guest would wait without a time limit for an answer
\* that never comes, its only slot taken.
RetainedAdmissible ==
  \/ Host!Unresolved \/ disk.pending \in {None, journal.request}
  \/ Host!Admissible(disk.pending)

\* The answer the guest acts on is the final result in the host's journal, or the
\* refusal of a request that is not journalled.
FaithfulAnswer ==
  [][answered' # answered /\ journal.request = state.pending =>
       ResultIn(status) = JournalResult]_protocolVars

\* A request the guest has written to its state file is eventually resolved there,
\* through stops, uncertain commands and status files that come late, unless the
\* service is no longer started (MaxStarts bounds the model).
Served ==
  disk.pending # None ~>
    (disk.pending = None \/ (pc = "down" /\ starts = MaxStarts))
=============================================================================
