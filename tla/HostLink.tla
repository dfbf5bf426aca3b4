------------------------------ MODULE HostLink ------------------------------
(***************************************************************************)
(* How the host daemon reads and answers one guest: the publication and    *)
(* status files of GuestChannel (host/src/guest_channel.rs), handled       *)
(* through QEMU guest agent commands (qga.rs) over one shared libvirt      *)
(* session (libvirt.rs).                                                   *)
(*                                                                         *)
(* What a round decides is VmController's, how rounds are started is       *)
(* HostWake's; here a round reads the device and the guest and reports a   *)
(* status.  A call that times out is abandoned, not undone: its command    *)
(* may still reach the guest later.                                        *)
(***************************************************************************)
EXTENDS Integers, FiniteSets

CONSTANTS
  Values,       \* what a status can say
  MaxFaults,    \* bound: hangs, failed calls, lost connections
  MaxPubs,      \* bound: publications of the guest
  LimitChunks   \* MAX_RAW_TELEMETRY_FILE_BYTES, in chunks

ASSUME LinkAssumption ==
  Values # {} /\ MaxFaults \in Nat /\ MaxPubs \in Nat /\ LimitChunks \in Nat \ {0}

none == [kind |-> "none"]
Empty == [kind |-> "empty"]
Torn == [kind |-> "torn"]
Whole(v) == [kind |-> "whole", value |-> v]

VARIABLES
  pc,             \* where the daemon is in its round
  worker, connection,  \* LibvirtSession: its thread, and that thread's connection
  hung,           \* what does not answer: nothing, the agent, or libvirt
  late,           \* commands of abandoned calls that may still execute
  handles,        \* the agent's open file handles
  cur, failed,    \* with_handle: the handle, and whether the operation failed
  reading,        \* the publication being read: which, and how much of it
  pub,            \* the publication file, replaced atomically by the guest
  accepted,       \* what GuestChannel::read returned last
  want,           \* the status of this round
  status_file,    \* the status file in the guest
  last_status, last_write,
  faults,         \* how many faults have happened
  spotless,       \* history: every call so far succeeded
  held            \* history: the statuses written to the file to the last byte

sessionVars == <<worker, connection, hung, late, faults, spotless>>
fileVars == <<handles, cur, failed, reading, pub, accepted>>
statusVars == <<want, status_file, held, last_status, last_write>>
vars == <<pc, sessionVars, fileVars, statusVars>>

Faulty == faults < MaxFaults

\* A hang may leak the handle in use and those of two late opens.
Ids == 1 .. (3 * MaxFaults + 1)
FreshId == CHOOSE i \in Ids : (\A h \in handles : h.id # i) /\ (\A c \in late : c.id # i)

Init ==
  /\ pc = "xml"
  /\ worker = "none" /\ connection = "none" /\ hung = "nothing" /\ late = {}
  /\ handles = {} /\ cur = 0 /\ failed = FALSE /\ reading = none
  /\ pub = [seq |-> 0, size |-> 1, valid |-> TRUE] /\ accepted = none
  /\ want \in Values /\ status_file = none /\ last_status = none /\ last_write = "never"
  /\ faults = 0 /\ spotless = TRUE /\ held = {}

-----------------------------------------------------------------------------
\* The session

\* Worker::serve closes a connection that an error shows to be dead; the next call
\* opens another.
disconnect == "none"

\* What a kind of call needs.
Blocks(call) == hung = "libvirt" \/ (hung = "agent" /\ call = "agent")

\* The session has a thread, or starts one.
spawn == "idle"

\* A call that returns, its answer as asked or short of it: the thread and the
\* connection are there afterwards.
Answered(call, short) ==
  /\ ~Blocks(call) /\ worker # "stuck" /\ connection # "dead"
  /\ worker' = spawn /\ connection' = "up"
  /\ faults' = IF short THEN faults + 1 ELSE faults
  /\ spotless' = (spotless /\ ~short)
  /\ UNCHANGED <<hung, late>>

Served(call) == Answered(call, FALSE)

\* Api::load may not find the library or a symbol of it: there is no thread then.
load == IF worker = "none" THEN {"none", "idle"} ELSE {worker}

\* A call that fails without effect: the library does not load, libvirt or the agent
\* says so, or the connection turns out to be dead.
Refused ==
  /\ worker # "stuck"
  /\ \/ /\ Faulty /\ connection # "dead"
        /\ faults' = faults + 1
        /\ worker' \in load /\ UNCHANGED connection
     \/ /\ connection = "dead"
        /\ connection' = disconnect /\ worker' = "idle" /\ UNCHANGED faults
  /\ spotless' = FALSE
  /\ UNCHANGED <<hung, late>>

\* Faulty variant: the next call waits behind the one that hangs.
keep_worker == "stuck"

\* recv_timeout: the session forgets the thread.
abandon == "none"

\* The call hangs; what it commands may still execute when it is no longer awaited.
TimedOut(call, commands) ==
  /\ Blocks(call) \/ worker = "stuck"
  /\ worker' = abandon /\ connection' = "none"
  /\ late' = late \cup commands
  /\ spotless' = FALSE
  /\ UNCHANGED <<hung, faults>>

Hang ==
  /\ Faulty /\ hung = "nothing"
  /\ hung' \in {"agent", "libvirt"} /\ faults' = faults + 1
  /\ UNCHANGED <<pc, worker, connection, late, spotless, fileVars, statusVars>>

Recover ==
  /\ hung # "nothing"
  /\ hung' = "nothing"
  /\ UNCHANGED <<pc, worker, connection, late, faults, spotless, fileVars, statusVars>>

LibvirtLost ==
  /\ Faulty /\ connection = "up"
  /\ connection' = "dead" /\ faults' = faults + 1
  /\ UNCHANGED <<pc, worker, hung, late, spotless, fileVars, statusVars>>

-----------------------------------------------------------------------------
\* The agent's files (external)

Command(op, id, v) == [op |-> op, id |-> id, value |-> v]

\* An agent command that has no answer, or an error for one.
execute_failed(commands) == Refused \/ TimedOut("agent", commands)
close_failed == execute_failed({Command("close", cur, "")})

\* An answer that decode_base64 refuses.
Garbled == Faulty /\ Answered("agent", TRUE)

Opened(mode) == handles \cup {[id |-> FreshId, mode |-> mode]}
Open(id) == \E h \in handles : h.id = id

\* Writing through a handle.  Over other contents the result may be a mixture.
Written(v) == IF status_file.kind = "whole" THEN {Whole(v), Torn} ELSE {Whole(v)}

\* An abandoned command reaches the guest, or never does.  Nobody will close what
\* it opens.
LateCommand ==
  /\ hung = "nothing"
  /\ \E c \in late :
       /\ late' = late \ {c}
       /\ \/ UNCHANGED <<handles, status_file>>
          \/ c.op = "open_r" /\ handles' = Opened("r") /\ UNCHANGED status_file
          \/ c.op = "open_w" /\ handles' = Opened("w") /\ status_file' = Empty
          \/ /\ c.op = "write" /\ Open(c.id)
             /\ status_file' \in Written(c.value) /\ UNCHANGED handles
          \/ /\ c.op = "close" /\ handles' = {h \in handles : h.id # c.id}
             /\ UNCHANGED status_file
  /\ UNCHANGED <<pc, worker, connection, hung, faults, spotless, cur, failed, reading, pub,
                 accepted, want, held, last_status, last_write>>

\* The guest replaces its publication: large, stale or foreign ones included.  A
\* handle that is open keeps the file it was opened on.
Publish ==
  /\ pub.seq < MaxPubs
  /\ \E size \in {LimitChunks, LimitChunks + 1}, valid \in BOOLEAN :
       /\ valid \/ size = LimitChunks
       /\ pub' = [seq |-> pub.seq + 1, size |-> size, valid |-> valid]
  /\ UNCHANGED <<pc, sessionVars, handles, cur, failed, reading, accepted, statusVars>>

-----------------------------------------------------------------------------
\* A round: the live XML, the publication, the status

\* VirshXmlSource::memory_state; an unreadable device ends the VM's round.
ReadXml ==
  /\ pc = "xml"
  /\ \/ Served("xml") /\ pc' = "open_r"
     \/ (Refused \/ TimedOut("xml", {})) /\ pc' = "xml"
  /\ UNCHANGED <<fileVars, statusVars>>

after_failed_open == "act"

\* read_file: open (one retry, after a collision with the guest's own rename).
OpenRead ==
  /\ pc = "open_r"
  /\ \/ /\ Served("agent")
        /\ handles' = Opened("r") /\ cur' = FreshId /\ failed' = FALSE
        /\ reading' = [kind |-> "some", file |-> pub, got |-> 0]
        /\ pc' = "read" /\ UNCHANGED accepted
     \/ /\ execute_failed({Command("open_r", 0, "")})
        /\ accepted' = none /\ pc' = after_failed_open
        /\ UNCHANGED <<handles, cur, failed, reading>>
  /\ UNCHANGED <<pub, statusVars>>

\* Faulty variant: what has been read so far is taken for the file.
eof_or_limit(got, size) == got = size \/ got = LimitChunks

Eof(got, size) == got = size

\* One guest-file-read; the file must end within the limit.  (The code's bound of 16
\* reads per file is met before the byte limit only by a file of short reads.)
ReadChunk ==
  /\ pc = "read"
  /\ \/ /\ Served("agent")
        /\ LET got == reading.got + 1
           IN /\ reading' = [reading EXCEPT !.got = got]
              /\ failed' = (got > LimitChunks)
              /\ pc' = IF got > LimitChunks \/ Eof(got, reading.file.size)
                       THEN "close_r" ELSE "read"
     \/ /\ execute_failed({}) \/ Garbled
        /\ failed' = TRUE /\ pc' = "close_r" /\ UNCHANGED reading
  /\ UNCHANGED <<handles, cur, pub, accepted, statusVars>>

\* with_handle closes the handle whatever the operation did.
Closes == TRUE

Closed == handles' = IF Closes THEN {h \in handles : h.id # cur} ELSE handles

\* RawTelemetryEnvelope::validate_for: identity, age, a request of the publication's own
\* identity, counters that do not contradict each other.
validate_for(file) == file.valid

\* Of one whole line: what a guest may publish and is not used.
validate_contents(file) == validate_for(file)

\* The record counts if the read and the close succeeded and it is valid.
CloseRead ==
  /\ pc = "close_r"
  /\ \/ /\ Served("agent") /\ Closed
        /\ accepted' = IF ~failed /\ validate_contents(reading.file) THEN reading ELSE none
     \/ /\ close_failed
        /\ accepted' = none /\ UNCHANGED handles
  /\ pc' = "act" /\ cur' = 0 /\ reading' = none
  /\ UNCHANGED <<failed, pub, statusVars>>

\* What the round decides is VmController's; here it ends in a status to report.
Act ==
  /\ pc = "act"
  /\ want' \in Values
  /\ pc' = "report"
  /\ UNCHANGED <<sessionVars, fileVars, status_file, held, last_status, last_write>>

\* Faulty variant: a status that was written once is never written again.
never_due == last_write = "never"

refresh_due == last_write \in {"never", "due"}

Changed == last_status # Whole(want)

Report ==
  /\ pc = "report"
  /\ pc' = IF Changed \/ refresh_due THEN "open_w" ELSE "xml"
  /\ UNCHANGED <<sessionVars, fileVars, statusVars>>

\* write_file opens with mode "w", which truncates.
OpenWrite ==
  /\ pc = "open_w"
  /\ \/ /\ Served("agent")
        /\ handles' = Opened("w") /\ cur' = FreshId /\ failed' = FALSE
        /\ status_file' = Empty
        /\ pc' = "write"
     \/ /\ execute_failed({Command("open_w", 0, "")})
        /\ pc' = "xml" /\ UNCHANGED <<handles, cur, failed, status_file>>
  /\ UNCHANGED <<reading, pub, accepted, want, held, last_status, last_write>>

\* A short write is noticed by its count.
Write ==
  /\ pc = "write"
  /\ \/ Served("agent") /\ status_file' \in Written(want) /\ failed' = FALSE
     \/ Faulty /\ Answered("agent", TRUE) /\ status_file' = Torn /\ failed' = TRUE
     \/ /\ execute_failed({Command("write", cur, want)})
        /\ failed' = TRUE /\ UNCHANGED status_file
  /\ pc' = "close_w"
  /\ held' = IF failed' THEN held ELSE held \cup {want}
  /\ UNCHANGED <<handles, cur, reading, pub, accepted, want, last_status, last_write>>

Confirmed == ~failed

\* publish_status remembers a write only if all of it succeeded.
CloseWrite ==
  /\ pc = "close_w"
  /\ \/ /\ Served("agent") /\ Closed
        /\ IF Confirmed THEN last_write' = "fresh" /\ last_status' = Whole(want)
                        ELSE UNCHANGED <<last_write, last_status>>
     \/ /\ close_failed
        /\ UNCHANGED <<handles, last_write, last_status>>
  /\ pc' = "xml" /\ cur' = 0
  /\ UNCHANGED <<failed, reading, pub, accepted, want, status_file, held>>

\* A third of the age at which the guest takes a status for stale has passed.
RefreshDue ==
  /\ last_write = "fresh"
  /\ last_write' = "due"
  /\ UNCHANGED <<pc, sessionVars, fileVars, want, status_file, held, last_status>>

-----------------------------------------------------------------------------
Daemon == ReadXml \/ OpenRead \/ ReadChunk \/ CloseRead \/ Act \/ Report \/ OpenWrite
          \/ Write \/ CloseWrite
World == Hang \/ Recover \/ LibvirtLost \/ LateCommand \/ Publish \/ RefreshDue
Next == Daemon \/ World

Spec == Init /\ [][Next]_vars

\* Rounds go on (HostWake) and time passes.  Nothing is assumed of libvirt, the agent
\* or the guest.
Fairness == WF_vars(Daemon) /\ WF_vars(RefreshDue)
FairSpec == Spec /\ Fairness

-----------------------------------------------------------------------------
\* Properties

\* What GuestChannel::read returns is one publication, whole, valid and within the
\* limit, whatever the guest replaces while it is read in pieces.  And with_handle "always
\* closes it" (qga.rs): while every call is answered the agent has at most the handle of the
\* operation in progress, even after files that are too large.
ReadsCleanly ==
  /\ accepted.kind = "some" =>
       /\ accepted.got = accepted.file.size /\ accepted.got <= LimitChunks
       /\ accepted.file.valid
  /\ spotless => Cardinality(handles) <= (IF cur = 0 THEN 0 ELSE 1)

\* A call that hung does not spoil the calls after it: once the agent answers again,
\* publications are read again.
LinkHeals ==
  <>[](hung = "nothing" /\ pub.valid /\ pub.size <= LimitChunks) =>
    []<>(accepted.kind = "some")

\* A status is taken for published only after all of it was written: a write that failed
\* half way is tried again.  The file may lose it later, to a failed write or an abandoned
\* command; but "QGA cannot rename, so readers must reject the truncated or partial
\* contents", and such contents do not last: once the agent answers and the status stays
\* the same, the file says so for good.
StatusHeals ==
  /\ [](last_status.kind = "whole" => last_status.value \in held)
  /\ \A v \in Values :
       <>[](hung = "nothing" /\ want = v) =>
         <>[](status_file = Whole(v) \/ pc \in {"write", "close_w"})
=============================================================================
