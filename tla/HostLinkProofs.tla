--------------------------- MODULE HostLinkProofs ---------------------------
(***************************************************************************)
(* Proofs about HostLink: that what the daemon reads of a guest is one     *)
(* whole publication, that it leaves no handle open while its calls are    *)
(* answered, and that it takes a status for published only once all of it  *)
(* was written.                                                            *)
(***************************************************************************)
EXTENDS HostLink, FiniteSetTheorems, TLAPS

USE LinkAssumption

Publications == [seq : Nat, size : Nat, valid : BOOLEAN]
Readings == [kind : {"some"}, file : Publications, got : Nat]

\* The handle in use reads one file, and counts how much of it.
Pieces ==
  /\ pub \in Publications /\ failed \in BOOLEAN
  /\ pc \in {"read", "close_r"} => reading \in Readings
  /\ pc = "read" => reading.got <= LimitChunks
  /\ pc = "close_r" /\ ~failed =>
       reading.got = reading.file.size /\ reading.got <= LimitChunks
  /\ accepted = none \/ (/\ accepted \in Readings /\ accepted.got = accepted.file.size
                        /\ accepted.got <= LimitChunks /\ accepted.file.valid)

\* While every call is answered there is no late command, and no handle but the one in use.
Holding == {"read", "close_r", "write", "close_w"}
Tidy ==
  /\ spotless \in BOOLEAN
  /\ spotless =>
       /\ late = {}
       /\ pc \in Holding => cur # 0 /\ \E m : handles = {[id |-> cur, mode |-> m]}
       /\ pc \notin Holding => handles = {}

\* A status is confirmed after it was written to the last byte.
Confirming ==
  /\ failed \in BOOLEAN
  /\ pc = "close_w" /\ ~failed => want \in held
  /\ last_status = none \/ \E v \in held : last_status = Whole(v)

StatusConfirmed == last_status.kind = "whole" => last_status.value \in held

\* The daemon starts without a handle, a publication or a status.
LEMMA LinkInit == Init => Pieces /\ Tidy /\ Confirming
<1> SUFFICES ASSUME Init PROVE Pieces /\ Tidy /\ Confirming
  OBVIOUS
<1>1. pub \in Publications
  BY DEF Init, Publications
<1>2. Pieces
  BY <1>1 DEF Init, Pieces
<1> QED
  BY <1>2 DEF Init, Tidy, Holding, Confirming

\* Another chunk: of the file that was opened, whatever the guest has published since.
LEMMA ChunkRead == Pieces /\ ReadChunk => Pieces'
<1> SUFFICES ASSUME Pieces, ReadChunk PROVE Pieces'
  OBVIOUS
<1>1. reading \in Readings /\ reading.got <= LimitChunks /\ UNCHANGED <<pub, accepted>>
  BY DEF Pieces, ReadChunk
<1>2. CASE failed' = TRUE /\ pc' = "close_r" /\ UNCHANGED reading
  BY <1>1, <1>2 DEF Pieces
<1>3. CASE LET got == reading.got + 1
           IN /\ reading' = [reading EXCEPT !.got = got]
              /\ failed' = (got > LimitChunks)
              /\ pc' = IF got > LimitChunks \/ Eof(got, reading.file.size)
                       THEN "close_r" ELSE "read"
  <2>1. /\ reading' \in Readings /\ reading'.got = reading.got + 1
        /\ reading'.file = reading.file
    BY <1>1, <1>3 DEF Readings
  <2>2. failed' \in BOOLEAN
    BY <1>3
  <2>3. pc' = "close_r" /\ ~failed' =>
          reading'.got = reading'.file.size /\ reading'.got <= LimitChunks
    <3>1. failed' <=> reading.got + 1 > LimitChunks
      BY <1>3
    <3>2. reading.got + 1 \in Nat
      BY <1>1 DEF Readings
    <3> QED
      BY <1>3, <2>1, <3>1, <3>2 DEF Eof
  <2>4. pc' = "read" => reading'.got <= LimitChunks
    BY <1>1, <1>3, <2>1 DEF Readings
  <2>5. pc' \in {"read", "close_r"}
    BY <1>3
  <2> QED
    BY <1>1, <2>1, <2>2, <2>3, <2>4, <2>5 DEF Pieces
<1> QED
  BY <1>2, <1>3 DEF ReadChunk

\* Every step keeps the pieces of one file together.
LEMMA PiecesStep == Pieces /\ [Next]_vars => Pieces'
<1> SUFFICES ASSUME Pieces, [Next]_vars PROVE Pieces'
  OBVIOUS
<1>1. CASE OpenRead
  <2>1. CASE execute_failed({Command("open_r", 0, "")}) /\ accepted' = none /\ pc' = "act"
             /\ UNCHANGED <<failed, pub>>
    BY <2>1 DEF Pieces
  <2>2. CASE /\ failed' = FALSE /\ reading' = [kind |-> "some", file |-> pub, got |-> 0]
             /\ pc' = "read" /\ UNCHANGED <<accepted, pub>>
    <3>1. reading' \in Readings /\ reading'.got = 0
      BY <2>2 DEF Pieces, Readings
    <3>2. failed' \in BOOLEAN
      BY <2>2
    <3>3. pc' = "read" /\ 0 <= LimitChunks
      BY <2>2
    <3> QED
      BY <2>2, <3>1, <3>2, <3>3 DEF Pieces
  <2> QED
    BY <1>1, <2>1, <2>2 DEF OpenRead, after_failed_open
<1>2. CASE ReadChunk
  BY <1>2, ChunkRead
<1>3. CASE CloseRead
  BY <1>3 DEF CloseRead, Pieces, Readings, Publications, validate_contents, validate_for
<1>4. CASE Publish
  BY <1>4 DEF Publish, Pieces, Publications, sessionVars, statusVars
<1>5. CASE OpenWrite
  BY <1>5 DEF OpenWrite, Pieces
<1>6. CASE Write
  BY <1>6 DEF Write, Pieces
<1>7. CASE UNCHANGED <<failed, pub, reading, accepted>> /\ (pc' = pc \/ pc' \notin {"read", "close_r"})
  BY <1>7 DEF Pieces
<1> QED
  BY <1>1, <1>2, <1>3, <1>4, <1>5, <1>6, <1>7
     DEF Next, Daemon, World, ReadXml, Act, Report, CloseWrite, Hang, Recover, LibvirtLost,
     LateCommand, RefreshDue, fileVars, vars

\* A call that is not answered as asked is remembered; one that is leaves nothing behind.
LEMMA AnsweredTidy ==
  \A call, short : Answered(call, short) /\ spotless' => spotless /\ UNCHANGED late
BY DEF Answered

\* A call that fails or times out is remembered.
LEMMA FailedUntidy ==
  \A call, commands : Refused \/ TimedOut(call, commands) => spotless' = FALSE
BY DEF Refused, TimedOut

\* The agent's new handle, when none is open.
LEMMA FirstHandle ==
  ASSUME handles = {}, late = {}, NEW m
  PROVE  FreshId # 0 /\ Opened(m) = {[id |-> FreshId, mode |-> m]}
<1>1. 1 \in Ids /\ 0 \notin Ids
  BY DEF Ids
<1>2. \E i \in Ids : (\A h \in handles : h.id # i) /\ (\A c \in late : c.id # i)
  BY <1>1
<1>3. FreshId \in Ids
  BY <1>2 DEF FreshId
<1> QED
  BY <1>1, <1>3 DEF Opened

\* Every step that is answered closes what it opened.
LEMMA TidyStep == Tidy /\ [Next]_vars => Tidy'
<1> SUFFICES ASSUME Tidy, [Next]_vars PROVE Tidy'
  OBVIOUS
<1>0. spotless' \in BOOLEAN
  BY DEF Next, Daemon, World, Tidy, ReadXml, OpenRead, ReadChunk, CloseRead, Act, Report, OpenWrite,
     Write, CloseWrite, Hang, Recover, LibvirtLost, LateCommand, Publish, RefreshDue, Served,
     Answered, Garbled, execute_failed, close_failed, Refused, TimedOut, sessionVars, vars
<1> SUFFICES ASSUME spotless'
             PROVE  /\ late' = {}
                    /\ pc' \in Holding => cur' # 0 /\ \E m : handles' = {[id |-> cur', mode |-> m]}
                    /\ pc' \notin Holding => handles' = {}
  BY <1>0 DEF Tidy
<1>1. CASE OpenRead \/ OpenWrite
  <2>1. PICK m : /\ Served("agent") /\ handles' = Opened(m) /\ cur' = FreshId
                 /\ pc' \in Holding /\ pc \notin Holding
    BY <1>1, FailedUntidy DEF OpenRead, OpenWrite, execute_failed, Holding
  <2>2. spotless /\ late' = late
    BY <2>1, AnsweredTidy DEF Served
  <2>3. handles = {} /\ late = {}
    BY <2>1, <2>2 DEF Tidy
  <2> QED
    BY <2>1, <2>2, <2>3, FirstHandle
<1>2. CASE ReadChunk \/ Write
  <2>1. /\ \E short : Answered("agent", short)
        /\ pc \in Holding /\ pc' \in Holding /\ UNCHANGED <<handles, cur>>
    BY <1>2, FailedUntidy DEF ReadChunk, Write, execute_failed, Garbled, Served, Holding
  <2>2. spotless /\ late' = late
    BY <2>1, AnsweredTidy
  <2> QED
    BY <2>1, <2>2 DEF Tidy
<1>3. CASE CloseRead \/ CloseWrite
  <2>1. /\ Served("agent") /\ Closed /\ pc \in Holding /\ pc' \notin Holding
    BY <1>3, FailedUntidy DEF CloseRead, CloseWrite, close_failed, execute_failed, Holding
  <2>2. spotless /\ late' = late
    BY <2>1, AnsweredTidy DEF Served
  <2>3. PICK m : handles = {[id |-> cur, mode |-> m]}
    BY <2>1, <2>2 DEF Tidy
  <2>4. handles' = {}
    BY <2>1, <2>3 DEF Closed, Closes
  <2> QED
    BY <2>1, <2>2, <2>4 DEF Tidy
<1>4. CASE ReadXml
  <2>1. Served("xml") /\ pc \notin Holding /\ pc' \notin Holding /\ UNCHANGED handles
    BY <1>4, FailedUntidy DEF ReadXml, fileVars, Holding
  <2>2. spotless /\ late' = late
    BY <2>1, AnsweredTidy DEF Served
  <2> QED
    BY <2>1, <2>2 DEF Tidy
<1>5. CASE LateCommand
  BY <1>5 DEF LateCommand, Tidy
<1>6. CASE Act \/ Report
  BY <1>6 DEF Act, Report, Tidy, Holding, sessionVars, fileVars
<1>7. CASE UNCHANGED <<pc, late, spotless, handles, cur>>
  BY <1>7 DEF Tidy
<1> QED
  BY <1>1, <1>2, <1>3, <1>4, <1>5, <1>6, <1>7
     DEF Next, Daemon, World, Hang, Recover, LibvirtLost, Publish, RefreshDue, fileVars, sessionVars,
     vars

\* Every step keeps to what was written.
LEMMA ConfirmingStep == Confirming /\ [Next]_vars => Confirming'
<1> SUFFICES ASSUME Confirming, [Next]_vars PROVE Confirming'
  OBVIOUS
<1> USE DEF Confirming
<1>1. CASE Write
  BY <1>1 DEF Write
<1>2. CASE CloseWrite
  BY <1>2 DEF CloseWrite, Confirmed
<1>3. CASE OpenWrite \/ OpenRead
  BY <1>3 DEF OpenWrite, OpenRead, after_failed_open, statusVars
<1>4. CASE ReadChunk
  <2>1. pc' # "close_w" /\ UNCHANGED statusVars
    BY <1>4 DEF ReadChunk
  <2>2. failed' \in BOOLEAN
    <3>1. CASE LET got == reading.got + 1
               IN /\ reading' = [reading EXCEPT !.got = got]
                  /\ failed' = (got > LimitChunks)
                  /\ pc' = IF got > LimitChunks \/ Eof(got, reading.file.size)
                           THEN "close_r" ELSE "read"
      BY <3>1
    <3>2. CASE failed' = TRUE
      BY <3>2
    <3> QED
      BY <1>4, <3>1, <3>2 DEF ReadChunk
  <2> QED
    BY <2>1, <2>2 DEF statusVars
<1>5. CASE UNCHANGED <<failed, held, last_status>> /\ (pc' # "close_w" \/ UNCHANGED <<pc, want>>)
  BY <1>5
<1> QED
  BY <1>1, <1>2, <1>3, <1>4, <1>5
     DEF Next, Daemon, World, ReadXml, CloseRead, Act, Report, Hang, Recover, LibvirtLost,
     LateCommand, Publish, RefreshDue, fileVars, statusVars, vars

\* What is read is one publication, whole, valid and within the limit, whatever the guest
\* replaces meanwhile; and while every call is answered no handle is left open
\* (GuestChannel::read in guest_channel.rs, with_handle in qga.rs).
THEOREM AlwaysReadsCleanly == Spec => []ReadsCleanly
<1>1. Pieces /\ Tidy => ReadsCleanly
  <2> SUFFICES ASSUME Pieces, Tidy PROVE ReadsCleanly
    OBVIOUS
  <2>1. accepted.kind = "some" =>
          /\ accepted.got = accepted.file.size /\ accepted.got <= LimitChunks
          /\ accepted.file.valid
    BY DEF Pieces, none
  <2>2. ASSUME spotless PROVE Cardinality(handles) <= (IF cur = 0 THEN 0 ELSE 1)
    <3>1. CASE handles = {}
      BY <3>1, FS_EmptySet
    <3>2. CASE cur # 0 /\ \E m : handles = {[id |-> cur, mode |-> m]}
      <4>1. Cardinality(handles) = 1
        BY <3>2, FS_Singleton
      <4> QED
        BY <3>2, <4>1
    <3> QED
      BY <2>2, <3>1, <3>2 DEF Tidy
  <2> QED
    BY <2>1, <2>2 DEF ReadsCleanly
<1> QED
  BY LinkInit, PiecesStep, TidyStep, <1>1, PTL DEF Spec

\* A status the daemon takes for published was written to its last byte once
\* (publish_status in guest_channel.rs): the safety part of StatusHeals.
THEOREM StatusAlwaysConfirmed == Spec => []StatusConfirmed
<1>1. Confirming => StatusConfirmed
  BY DEF Confirming, StatusConfirmed, Whole, none
<1> QED
  BY LinkInit, ConfirmingStep, <1>1, PTL DEF Spec
=============================================================================
