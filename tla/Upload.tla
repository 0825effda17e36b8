------------------------------- MODULE Upload -------------------------------
(***************************************************************************)
(* The upload of one encoded file, byte by byte.  doTransmit() of the      *)
(* client reads chunks from m_dstFile and calls writeChunk(), the daemon   *)
(* writes them to outFile, the temporary file.  It starts after postFile() *)
(* was accepted: outFile is open and empty, m_dstFile is at its beginning. *)
(*                                                                         *)
(* Byte i of the encoded file is the number i.  A call, its handler and    *)
(* its answer are separate steps.  A call that times out is abandoned by   *)
(* the client, not by the daemon: its handler may run later, in another    *)
(* worker thread, after calls that were made later.                        *)
(***************************************************************************)
EXTENDS Integers, FiniteSets

CONSTANTS Lengths,     \* lengths of encoded files
          ChunkSizes,  \* values of chunkSize in the client's configuration
          Scenarios,   \* sets of failures, one of which a behaviour may meet
          MaxLost,     \* bound on the number of calls that time out
          MaxLate      \* bound on the handlers that run late at one time

\* lostAnswer and lostLast: a call times out after its handler has run;
\* lostLast if the client has read its file to the end.  late: it times out
\* before.  diskFull: a write fails.
AllEvents == {"lostAnswer", "lostLast", "late", "resetLost", "diskFull"}

ASSUME UploadAssumption ==
  /\ Lengths \subseteq Nat \ {0} /\ ChunkSizes \subseteq Nat \ {0}
  /\ Scenarios \subseteq SUBSET AllEvents /\ MaxLost \in Nat /\ MaxLate \in Nat

VARIABLES
  fileLength,  \* encResult.fileLength, the announced length
  chunkSize,
  events,      \* the failures that may happen; like the lengths, it never changes
  state,       \* m_mainState of the client
  pos, eof,    \* m_dstFile: position; eofbit and failbit of a short read
  call,        \* the call the client waits for
  answer,      \* its answer, once the handler has run
  late,        \* abandoned chunks whose handler has not run yet
  lost,        \* number of calls that have timed out
  outFile,     \* position of the daemon's outFile
  out,         \* bytes of the temporary file
  queued       \* the file was handed to the main loop

clientVars == <<state, pos, eof>>
callVars == <<call, answer>>
fileVars == <<outFile, out, queued>>
vars == <<fileLength, chunkSize, events, clientVars, callVars, late, lost, fileVars>>

Closed == -2
Unwritten == -1

\* The calls of the client: a chunk of `size' bytes from byte `first' on.
Chunk(first, size) == [op |-> "writeChunk", first |-> first, size |-> size]
Reset == [op |-> "reset", first |-> 0, size |-> 0]
NoCall == [op |-> "none", first |-> 0, size |-> 0]

Chunks == {c \in [op : {"writeChunk"}, first : 0..fileLength, size : 0..chunkSize] :
             c.first + c.size <= fileLength}
Answers == {"none", "more", "finished", "error", "done"}

\* All variables have their types; the position of a stream lies in its file.
TypeOK ==
  /\ fileLength \in Lengths /\ chunkSize \in ChunkSizes /\ events \in Scenarios
  /\ state \in {"Transmitting", "Idle", "Terminated"}
  /\ pos \in 0..fileLength /\ eof \in BOOLEAN
  /\ call \in Chunks \cup {Reset, NoCall}
  /\ answer \in Answers
  /\ late \in SUBSET Chunks
  /\ lost \in 0..MaxLost
  /\ outFile \in 0..fileLength \cup {Closed}
  /\ out \in [0..(fileLength - 1) -> 0..(fileLength - 1) \cup {Unwritten}]
  /\ queued \in BOOLEAN

Init ==
  /\ fileLength \in Lengths /\ chunkSize \in ChunkSizes /\ events \in Scenarios
  /\ state = "Transmitting" /\ pos = 0 /\ eof = FALSE
  /\ call = NoCall /\ answer = "none"
  /\ late = {} /\ lost = 0
  /\ outFile = 0 /\ queued = FALSE
  /\ out = [i \in 0..(fileLength - 1) |-> Unwritten]

-----------------------------------------------------------------------------
Send_WholeChunk ==
  /\ state = "Transmitting" /\ call = NoCall
  /\ call' = Chunk(pos, chunkSize)
  /\ pos' = IF pos + chunkSize <= fileLength THEN pos + chunkSize ELSE fileLength
  /\ eof' = (pos + chunkSize > fileLength)
  /\ UNCHANGED <<fileLength, chunkSize, events, state, answer, late, lost, fileVars>>

\* doTransmit(): read a chunk and send it.  A short read sets eofbit and
\* failbit; a read that ends exactly at the end of the file sets neither.
Send ==
  LET rest == fileLength - pos
      size == IF chunkSize <= rest THEN chunkSize ELSE rest
  IN
  /\ state = "Transmitting" /\ call = NoCall
  /\ call' = Chunk(pos, size)
  /\ pos' = pos + size
  /\ eof' = (size < chunkSize)
  /\ UNCHANGED <<fileLength, chunkSize, events, state, answer, late, lost, fileVars>>

\* The client's exception handler starts with a call of reset().
CallReset == call' = Reset /\ answer' = "none"

GotAnswer_IgnoreResult ==
  /\ call.op = "writeChunk" /\ answer # "none"
  /\ IF answer = "error" THEN CallReset /\ UNCHANGED state
     ELSE /\ call' = NoCall /\ answer' = "none"
          /\ state' = IF eof THEN "Idle" ELSE state
  /\ UNCHANGED <<fileLength, chunkSize, events, pos, eof, late, lost, fileVars>>

\* The answer to a chunk.  Only at the end of its file does the client look
\* at the result: it deletes the file, or has to start again.
GotAnswer ==
  /\ call.op = "writeChunk" /\ answer # "none"
  /\ \/ /\ answer = "error" \/ (eof /\ answer = "more")
        /\ CallReset /\ UNCHANGED state
     \/ /\ answer # "error" /\ (eof => answer = "finished")
        /\ call' = NoCall /\ answer' = "none"
        /\ state' = IF eof THEN "Idle" ELSE state
  /\ UNCHANGED <<fileLength, chunkSize, events, pos, eof, late, lost, fileVars>>

\* A chunk times out, before or after its handler has run.
TimedOut ==
  /\ call.op = "writeChunk" /\ lost < MaxLost
  /\ \/ /\ answer # "none"
        /\ (IF eof THEN "lostLast" ELSE "lostAnswer") \in events
        /\ UNCHANGED late
     \/ /\ answer = "none" /\ "late" \in events
        /\ Cardinality(late) < MaxLate
        /\ late' = late \cup {call}
  /\ CallReset
  /\ lost' = lost + 1
  /\ UNCHANGED <<fileLength, chunkSize, events, clientVars, fileVars>>

\* reset() is done: seekg() to the beginning, which has no effect while
\* failbit is set, then clear().
Rewind ==
  /\ call = Reset /\ answer = "done"
  /\ call' = NoCall /\ answer' = "none"
  /\ pos' = IF eof THEN pos ELSE 0
  /\ eof' = FALSE
  /\ UNCHANGED <<fileLength, chunkSize, events, state, late, lost, fileVars>>

\* reset() times out inside the exception handler: poll() does not catch it.
ResetTimedOut ==
  /\ "resetLost" \in events
  /\ call = Reset
  /\ state' = "Terminated" /\ call' = NoCall /\ answer' = "none"
  /\ UNCHANGED <<fileLength, chunkSize, events, pos, eof, late, lost, fileVars>>

-----------------------------------------------------------------------------
\* writeChunk() needs an open file and room in the announced length.
Accepted(chunk) == outFile # Closed /\ outFile + chunk.size <= fileLength

AtEnd_Early(tellp) == tellp + 1 >= fileLength

AtEnd(tellp) == tellp >= fileLength

\* The file with the chunk written at the position of outFile.
Written(chunk) ==
  [i \in DOMAIN out |-> IF i \in outFile..(outFile + chunk.size - 1)
                        THEN chunk.first + (i - outFile) ELSE out[i]]

\* When the position has reached the announced length the file is closed
\* and queued.  After a failed write the position -1, taken as unsigned, is above every length.
Write(chunk) ==
  LET tellp == outFile + chunk.size IN
  \/ /\ out' = Written(chunk)
     /\ outFile' = IF AtEnd(tellp) THEN Closed ELSE tellp
     /\ queued' = IF AtEnd(tellp) THEN TRUE ELSE queued
  \/ /\ "diskFull" \in events
     /\ outFile' = Closed /\ queued' = TRUE
     /\ UNCHANGED out

\* The handler of the call the client waits for.
Handle ==
  /\ call # NoCall /\ answer = "none"
  /\ \/ /\ call = Reset
        /\ outFile' = IF outFile = Closed THEN Closed ELSE 0
        /\ answer' = "done"
        /\ UNCHANGED <<out, queued>>
     \/ /\ call.op = "writeChunk" /\ ~Accepted(call)
        /\ answer' = "error"
        /\ UNCHANGED fileVars
     \/ /\ call.op = "writeChunk" /\ Accepted(call)
        /\ Write(call)
        /\ answer' = IF outFile' = Closed THEN "finished" ELSE "more"
  /\ UNCHANGED <<fileLength, chunkSize, events, clientVars, call, late, lost>>

\* The handler of an abandoned chunk; nobody waits for its answer.
HandleLate ==
  /\ \E chunk \in late :
       /\ late' = late \ {chunk}
       /\ IF Accepted(chunk) THEN Write(chunk) ELSE UNCHANGED fileVars
  /\ UNCHANGED <<fileLength, chunkSize, events, clientVars, callVars, lost>>

-----------------------------------------------------------------------------
ClientStep == Send \/ GotAnswer \/ Rewind

Next == ClientStep \/ TimedOut \/ ResetTimedOut \/ Handle \/ HandleLate

Spec == Init /\ [][Next]_vars

\* The client polls on and the daemon answers.
FairSpec == Spec /\ WF_vars(ClientStep) /\ WF_vars(Handle)

-----------------------------------------------------------------------------
\* What the daemon moves into place is byte for byte the encoded file,
\* however often the upload was started again over a temporary file that is
\* never truncated (writeChunk() only looks at positions); as long as no
\* write fails and no handler runs after its call was abandoned.
QueuedIsWhole ==
  queued /\ events \cap {"late", "diskFull"} = {} => \A i \in 0..(fileLength - 1) : out[i] = i

\* The client deletes its encoded file (cleanUp() at the end of doTransmit)
\* only after the daemon has handed it to the main loop.
DeletedIsStored == state = "Idle" => queued

\* After an error the transmission starts from the beginning (the comment in
\* doTransmit).
RestartsFromBeginning == [][call = Reset /\ call' = NoCall /\ state' = "Transmitting" => pos' = 0]_vars

\* An upload ends, after any number of errors, unless the answer to the last
\* chunk is lost or the length is a multiple of the chunk size.
UploadEnds == events \subseteq {"lostAnswer"} /\ fileLength % chunkSize # 0 ~> state = "Idle"
=============================================================================
