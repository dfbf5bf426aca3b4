---------------------------- MODULE RequestHost ----------------------------
(***************************************************************************)
(* What the host promises to a guest that sends it requests through one    *)
(* slot: the abstract specification that VmController implements and that  *)
(* RequestProtocol composes with the guest.                                *)
(*                                                                         *)
(* The host takes a request from the slot when nothing unresolved stands   *)
(* in its journal and the request is newer than the journalled one.  It    *)
(* either declines it or begins its command, and writes one final result.  *)
(* A latch bars new commands until an operator clears it.  What the guest  *)
(* can read is the journal's result, an older one whose replacement was    *)
(* lost, or the refusal of what is in the slot.                            *)
(***************************************************************************)
CONSTANTS
  Requests,        \* what a slot may hold
  SameId(_, _),    \* two requests carry the same identity
  After(_, _),     \* the first was issued after the second
  None

VARIABLES
  slot,            \* the guest's publication
  journal,         \* MemoryRequestJournal
  command,         \* a command is recorded
  latched,         \* actuation is latched
  hand,            \* the request a poll is about to act on
  report           \* the result the guest can read

hostVars == <<journal, command, latched, hand, report>>

Final == {"Completed", "Partial", "PoolEmpty", "Rejected"}
Unresolved == journal.request # None /\ journal.outcome \notin Final

Reported(request, outcome) ==
  IF request = None \/ outcome = None THEN None
  ELSE [request |-> request, outcome |-> outcome]

\* The journal becomes (request, outcome); its report is written or not.
Record(request, outcome) ==
  /\ journal' = [request |-> request, outcome |-> outcome]
  /\ report' \in {report, Reported(request, outcome)}

Init ==
  /\ slot = None
  /\ journal = [request |-> None, outcome |-> None]
  /\ command = FALSE /\ latched = FALSE
  /\ hand = None /\ report = None

-----------------------------------------------------------------------------
Admissible(r) ==
  /\ ~Unresolved
  /\ journal.request # None => ~SameId(r, journal.request) /\ After(r, journal.request)

Take ==
  /\ slot # None /\ Admissible(slot) /\ ~latched /\ ~command
  /\ hand' = slot
  /\ UNCHANGED <<slot, journal, command, latched, report>>

\* The poll ends, or the daemon dies, before anything was recorded.
Drop == hand' = None /\ UNCHANGED <<slot, journal, command, latched, report>>

\* A refusal that leaves no trace: of the slot's request, or of the one in hand.
Refuse ==
  /\ \/ slot # None /\ journal # [request |-> slot, outcome |-> journal.outcome]
        /\ report' = Reported(slot, "Rejected")
     \/ hand # None /\ report' = Reported(hand, "Rejected")
  /\ hand' = None
  /\ UNCHANGED <<slot, journal, command, latched>>

Decline ==
  /\ hand # None
  /\ \E outcome \in {"PoolEmpty", "Rejected"} : Record(hand, outcome)
  /\ hand' = None
  /\ UNCHANGED <<slot, command, latched>>

Begin ==
  /\ hand # None
  /\ journal' = [request |-> hand, outcome |-> None]
  /\ command' = TRUE
  /\ hand' = None
  /\ UNCHANGED <<slot, latched, report>>

\* The device reached what was asked, the settlement did, or the command never
\* left.
Finish ==
  /\ command
  /\ \E outcome \in {"Completed", "Partial", "Rejected"} : Record(journal.request, outcome)
  /\ command' = FALSE
  /\ UNCHANGED <<slot, latched, hand>>

Latch ==
  /\ latched' = TRUE
  /\ Record(journal.request, IF journal.request # None /\ journal.outcome = None
                               THEN "Uncertain" ELSE journal.outcome)
  /\ hand' = None
  /\ UNCHANGED <<slot, command>>

\* Faulty variants: a final result is written again; an unresolved request gets
\* none.
ClearOverwriting ==
  /\ latched /\ latched' = FALSE
  /\ command' = FALSE
  /\ Record(journal.request, IF journal.request = None THEN None ELSE "Rejected")
  /\ UNCHANGED <<slot, hand>>
ClearLatchOnly ==
  /\ latched /\ latched' = FALSE
  /\ command' = FALSE
  /\ UNCHANGED <<journal, report, slot, hand>>

Clear ==
  /\ latched /\ latched' = FALSE
  /\ command' = FALSE
  /\ IF Unresolved
       THEN \E outcome \in {"Completed", "Partial", "Rejected"} :
              Record(journal.request, outcome)
       ELSE UNCHANGED <<journal, report>>
  /\ UNCHANGED <<slot, hand>>

Report ==
  /\ report' = Reported(journal.request, journal.outcome)
  /\ hand' = None
  /\ UNCHANGED <<slot, journal, command, latched>>

Host == Take \/ Drop \/ Refuse \/ Decline \/ Begin \/ Finish \/ Latch \/ Clear
        \/ Report

\* The guest writes what it likes.
Guest == slot' \in Requests \cup {None} /\ UNCHANGED hostVars

Next == Host \/ Guest

Spec == Init /\ [][Next]_<<slot, hostVars>>
=============================================================================
