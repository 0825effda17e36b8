------------------------------- MODULE Daemon -------------------------------
(***************************************************************************)
(* MediaArchiverDaemon: the RPC handlers that hand source files out and    *)
(* take encoded files in, the main loop that moves them into place, the    *)
(* file system listener, and the job database they share (module SQLite).  *)
(*                                                                         *)
(* A client is the sequence of calls it makes; call, handler and answer    *)
(* are one step, the loss of an answer is an event.  What a handler does   *)
(* before it takes m_mtxFileMove touches only its own connection, so it is *)
(* joined to the critical section that follows.  Calls refused without a   *)
(* change of state are not steps.  CONSTANT Events names the failures of   *)
(* the environment that may happen.                                        *)
(***************************************************************************)
EXTENDS SQLite, Sequences

CONSTANTS Clients,      \* running clients, identified by their token
          NoClient,     \* the token of a map slot that holds no connection
          Sessions,     \* rpc session ids
          NoSession,    \* the client has yet to authenticate
          StaleSession, \* it believes it has, the daemon does not know it
          Events,       \* the subset of AllEvents that may happen
          FileLen,      \* size of each source file, in chunks
          EncLen,       \* size of an encoded file, in chunks
          ArchiveName,  \* getArchivedFileName(), NoFile being the name ""
          FinalExt,     \* source files that have the extension of archives
          Archived,     \* source files that have an archive from the start
          MaxQueue,     \* bound on the length of m_filesToMove
          Garbage       \* values an uninitialised originalFileId may have

\* "aligned": the length of an encoding may be a multiple of the chunk size.
AllEvents == {"lostCall", "lostAnswer", "break", "connectFails", "dies",
              "shutdown", "aligned", "encodeFails", "openFails", "tempOpenFails",
              "diskFull", "mvFails", "mvPartial", "utimeFails", "restart"}

FileIds == Files \cup {NoFile}

ASSUME DaemonAssumption ==
  /\ NoClient \notin Clients
  /\ NoSession \notin Sessions /\ StaleSession \notin Sessions
  /\ NoSession # StaleSession
  /\ Events \subseteq AllEvents
  /\ FileLen \in [Files -> Sizes] /\ 0 \in Sizes
  /\ EncLen \in Nat \ {0}
  /\ ArchiveName \in [FileIds -> Names]
  /\ FinalExt \subseteq Files
  /\ Archived \subseteq Files
  /\ MaxQueue \in Nat
  /\ Garbage \subseteq FileIds /\ Garbage # {}
  /\ UnknownError \in Results

VARIABLES
  m_connections,    \* ConnectedClient by session id
  m_filesToMove,    \* the queue of finished files
  main,             \* where the main loop is
  ftm,              \* the entry the main loop works on
  watch,            \* arguments of a pending addFile() of the listener
  temp,             \* content of the temporary files, named by file id
  disk,             \* content of the archive files
  session,          \* the session of each client
  phase,            \* what each client is doing
  source,           \* the file each client has received or is receiving
  result,           \* the client's m_encResult, kept while m_dstFile is open
  resetting         \* clients that must call reset() after a failed transfer

connVars == <<m_connections, m_filesToMove>>
mainVars == <<main, ftm>>
fileVars == <<watch, temp, disk>>
clientVars == <<session, phase, source, result, resetting>>
vars == <<dbVars, connVars, mainVars, fileVars, clientVars>>

-----------------------------------------------------------------------------
\* A stream is closed or at a position.
Closed == -2
Failed == -1

AsSize_OneMore(pos) == IF pos = Failed THEN EncLen + 1 ELSE pos + 1

\* tellp() is -1 after a failed write; compared with a size_t it is the
\* largest one, above every length.
AsSize(pos) == IF pos = Failed THEN EncLen + 1 ELSE pos

\* The client's filter: 4u * 1024 * 1024 * 1024 is 0 in 32 bits, no limit.
MaxFileSize == 0

EncResults == [result : Results, fileLength : 0..EncLen]
NoResult == [result |-> UnknownError, fileLength |-> 0]
ClientResults == [result : {OK}, fileLength : {0, EncLen}] \cup {NoResult}

Conns == [token : Clients \cup {NoClient}, originalFileId : FileIds,
          originalFileName : FileIds, inFile : Nat \cup {Closed},
          outFile : Nat \cup {Closed}, encResult : EncResults]

\* A ConnectedClient with both streams closed and no file.
Cleared(token, id) ==
  [token |-> token, originalFileId |-> id, originalFileName |-> NoFile,
   inFile |-> Closed, outFile |-> Closed, encResult |-> NoResult]

NoConn == Cleared(NoClient, NoFile)

FilesToMove == [originalFileId : FileIds, originalFileName : FileIds,
                encResult : EncResults]
NoFileToMove == [originalFileId |-> NoFile, originalFileName |-> NoFile,
                 encResult |-> NoResult]

\* Content of a file: the first len chunks of the encoding of a source.
Contents == [of : FileIds, len : 0..EncLen]
NoContent == [of |-> NoFile, len |-> 0]

WatchEvents == [src : FileIds, dst : Names \cup {NoName}, queue : BOOLEAN]
NoEvent == [src |-> NoFile, dst |-> NoName, queue |-> FALSE]

\* A "looping" client has reached the end of its file, but not the daemon.
Phases == {"idle", "receiving", "encoding", "sending", "transmitting",
           "looping", "gone"}
MainStates == {"loop", "waiting", "woken", "move", "recordOk", "recordError"}

\* The part of TypeOK that concerns the clients.
ClientTypeOK ==
  /\ session \in [Clients -> Sessions \cup {NoSession, StaleSession}]
  /\ phase \in [Clients -> Phases]
  /\ source \in [Clients -> FileIds]
  /\ result \in [Clients -> EncResults]
  /\ resetting \in SUBSET Clients

\* Connections, queue, main loop, files and clients hold what the code can
\* put there; no temporary file or archive grows beyond the encoding.
TypeOK ==
  /\ DbTypeOK /\ ClientTypeOK
  /\ m_connections \in [Sessions -> Conns]
  /\ m_filesToMove \in Seq(FilesToMove)
  /\ main \in MainStates
  /\ ftm \in FilesToMove
  /\ watch \in WatchEvents
  /\ temp \in [FileIds -> Contents]
  /\ disk \in [Names -> Contents]

Init ==
  /\ DbInit
  /\ m_connections = [s \in Sessions |-> NoConn]
  /\ m_filesToMove = <<>>
  /\ main = "loop"
  /\ ftm = NoFileToMove
  /\ watch = NoEvent
  /\ temp = [f \in FileIds |-> NoContent]
  /\ disk = [n \in Names |->
               IF \E f \in Archived : ArchiveName[f] = n
               THEN [of |-> CHOOSE f \in Archived : ArchiveName[f] = n, len |-> EncLen]
               ELSE NoContent]
  /\ session = [c \in Clients |-> NoSession]
  /\ phase = [c \in Clients |-> "idle"]
  /\ source = [c \in Clients |-> NoFile]
  /\ result = [c \in Clients |-> NoResult]
  /\ resetting = {}

-----------------------------------------------------------------------------
Notified_Never == main

\* m_cv.notify_all()
Notified == IF main = "waiting" THEN "woken" ELSE main

PrepareNewSession_KeepName(s, cli) ==
  /\ Len(m_filesToMove) < MaxQueue
  /\ m_filesToMove' = Append(m_filesToMove,
       [originalFileId |-> cli.originalFileId,
        originalFileName |-> cli.originalFileName, encResult |-> cli.encResult])
  /\ m_connections' = [m_connections EXCEPT ![s] =
       [Cleared(cli.token, NoFile) EXCEPT !.originalFileName = cli.originalFileName]]

\* prepareNewSession(): queue the connection's file for the main loop, clear
\* the connection; the callers then notify the main loop.
PrepareNewSession(s, cli) ==
  /\ Len(m_filesToMove) < MaxQueue
  /\ m_filesToMove' = Append(m_filesToMove,
       [originalFileId |-> cli.originalFileId,
        originalFileName |-> cli.originalFileName, encResult |-> cli.encResult])
  /\ m_connections' = [m_connections EXCEPT ![s] = Cleared(cli.token, NoFile)]

\* The client goes back to Idle; cleanUp() removes its files.
BecomesIdle(c) ==
  /\ phase' = [phase EXCEPT ![c] = "idle"]
  /\ source' = [source EXCEPT ![c] = NoFile]
  /\ result' = [result EXCEPT ![c] = NoResult]
  /\ UNCHANGED <<session, resetting>>

\* The client process ends.
Leaves(c) ==
  /\ phase' = [phase EXCEPT ![c] = "gone"]
  /\ session' = [session EXCEPT ![c] = NoSession]
  /\ source' = [source EXCEPT ![c] = NoFile]
  /\ result' = [result EXCEPT ![c] = NoResult]
  /\ resetting' = resetting \ {c}

\* The answer of c's call arrives, and `delivered' says what the client makes
\* of it; or it is lost, and the client sees a timeout.
Answer(c, delivered) ==
  \/ delivered
  \/ /\ "lostAnswer" \in Events
     /\ resetting' = IF phase[c] \in {"receiving", "transmitting"}
                     THEN resetting \cup {c} ELSE resetting
     /\ UNCHANGED <<session, phase, source, result>>

\* c, in phase p, can call a handler that needs an authenticated connection.
Calling(c, p) == phase[c] = p /\ session[c] \in Sessions /\ c \notin resetting

Conn(c) == m_connections[session[c]]

SetConn(c, cli) == m_connections' = [m_connections EXCEPT ![session[c]] = cli]

-----------------------------------------------------------------------------
MovedTo_KeepOld(c, id, cl) == [m_connections EXCEPT ![id] = cl]

MovedTo_Anew(c, id, cl) ==
  [s \in Sessions |-> IF s = id THEN Cleared(c, NoFile)
                      ELSE IF m_connections[s].token = c THEN NoConn
                      ELSE m_connections[s]]

\* The map after authenticate() has moved connection cl of c to session id.
MovedTo(c, id, cl) ==
  [s \in Sessions |-> IF s = id THEN cl
                      ELSE IF m_connections[s].token = c THEN NoConn
                      ELSE m_connections[s]]

\* authenticate(): a connection with the same token moves to the new
\* session; a new one has originalFileId uninitialised.
Authenticate(c) ==
  LET old == {s \in Sessions : m_connections[s].token = c}
      cls == IF old = {} THEN {Cleared(c, id) : id \in Garbage}
                         ELSE {m_connections[s] : s \in old}
  IN
  /\ session[c] = NoSession /\ phase[c] \in {"idle", "sending"}
  /\ \E id \in Sessions, cl \in cls :
       /\ m_connections[id].token = NoClient
       /\ m_connections' = MovedTo(c, id, cl)
       /\ Answer(c, session' = [session EXCEPT ![c] = id]
                    /\ UNCHANGED <<phase, source, result, resetting>>)
  /\ UNCHANGED <<dbVars, m_filesToMove, mainVars, fileVars>>

\* authenticate() cannot reach the daemon: the client goes on as if it were
\* idle, forgets the file it has encoded and leaves m_dstFile open.
AuthenticateFails(c) ==
  /\ "connectFails" \in Events
  /\ session[c] = NoSession /\ phase[c] = "sending"
  /\ phase' = [phase EXCEPT ![c] = "idle"]
  /\ source' = [source EXCEPT ![c] = NoFile]
  /\ UNCHANGED <<dbVars, connVars, mainVars, fileVars, session, result, resetting>>

\* getNextFile() without a file to hand out: the client disconnects.
GetNextFileNone(c) ==
  /\ Calling(c, "idle")
  /\ Conn(c).inFile = Closed /\ Conn(c).outFile = Closed
  /\ Selectable(MaxFileSize) = {}
  /\ SetConn(c, Cleared(c, NoFile))
  /\ Answer(c, session' = [session EXCEPT ![c] = NoSession]
               /\ UNCHANGED <<phase, source, result, resetting>>)
  /\ UNCHANGED <<dbVars, m_filesToMove, mainVars, fileVars>>

\* getNextFile() that reserves f and opens it.
GetNextFile(c, f) ==
  /\ Calling(c, "idle")
  /\ Conn(c).inFile = Closed /\ Conn(c).outFile = Closed
  /\ DbGetNextFile(MaxFileSize, f)
  /\ FileLen[f] > 0
  /\ SetConn(c, [Cleared(c, f) EXCEPT !.originalFileName = f, !.inFile = 0])
  /\ Answer(c, /\ phase' = [phase EXCEPT ![c] = "receiving"]
               /\ source' = [source EXCEPT ![c] = f]
               /\ UNCHANGED <<session, result, resetting>>)
  /\ UNCHANGED <<m_filesToMove, mainVars, fileVars>>

\* getNextFile() that reserves f, finds it empty or cannot open it, and
\* answers with an error: the client tries again later.
GetNextFileFails(c, f) ==
  /\ Calling(c, "idle")
  /\ Conn(c).inFile = Closed /\ Conn(c).outFile = Closed
  /\ DbGetNextFile(MaxFileSize, f)
  /\ "openFails" \notin Events => FileLen[f] = 0
  /\ SetConn(c, Cleared(c, NoFile))
  /\ UNCHANGED <<m_filesToMove, mainVars, fileVars, clientVars>>

\* readChunk() needs an open source.
ReadAccepted(cli) == cli.inFile # Closed

\* writeChunk() needs a file, an open upload and room for the chunk in the
\* announced length.
WriteAccepted(cli) ==
  /\ cli.originalFileId # NoFile
  /\ cli.outFile # Closed
  /\ cli.outFile + 1 <= cli.encResult.fileLength

\* readChunk(): one more chunk; at the end of the file an empty one, upon
\* which the client disconnects and encodes what it has received.
ReadChunk(c) ==
  LET cli == Conn(c)
      atEnd == cli.inFile = FileLen[cli.originalFileName]
  IN
  /\ Calling(c, "receiving")
  /\ ReadAccepted(cli)
  /\ \/ /\ ~atEnd
        /\ SetConn(c, [cli EXCEPT !.inFile = @ + 1])
        /\ Answer(c, UNCHANGED clientVars)
     \/ /\ atEnd
        /\ UNCHANGED m_connections
        /\ Answer(c, /\ session' = [session EXCEPT ![c] = NoSession]
                     /\ phase' = [phase EXCEPT ![c] = "encoding"]
                     /\ UNCHANGED <<source, result, resetting>>)
  /\ UNCHANGED <<dbVars, m_filesToMove, mainVars, fileVars>>

\* readChunk() or writeChunk() refused: the client goes on with reset().
TransferError(c) ==
  /\ \/ Calling(c, "receiving") /\ ~ReadAccepted(Conn(c))
     \/ Calling(c, "transmitting") /\ ~WriteAccepted(Conn(c))
  /\ resetting' = resetting \cup {c}
  /\ UNCHANGED <<dbVars, connVars, mainVars, fileVars, session, phase, source, result>>

\* The daemon does not see c's call.  In a transfer the client goes on with
\* reset(); after the last chunk its stream has failed, unless the length is a
\* multiple of the chunk size, and will not go back.  It does not survive the
\* loss of reset().
LostCall(c) ==
  LET last == phase[c] = "transmitting" /\ Conn(c).outFile + 1 = Conn(c).encResult.fileLength
  IN
  /\ "lostCall" \in Events
  /\ \/ /\ Calling(c, "receiving") \/ Calling(c, "transmitting")
        /\ \/ last /\ phase' = [phase EXCEPT ![c] = "looping"]
           \/ (last => "aligned" \in Events) /\ UNCHANGED phase
        /\ resetting' = resetting \cup {c}
        /\ UNCHANGED <<session, source, result>>
     \/ c \in resetting /\ session[c] \in Sessions /\ Leaves(c)
  /\ UNCHANGED <<dbVars, connVars, mainVars, fileVars>>

\* writeChunk() of an empty chunk: the daemon still wants data, the client has
\* none, and goes on with reset().
SendEmpty(c) ==
  /\ Calling(c, "looping")
  /\ resetting' = resetting \cup {c}
  /\ UNCHANGED <<dbVars, connVars, mainVars, fileVars, session, phase, source, result>>

\* reset(): the open stream is rewound, the transfer starts again.  The
\* client calls it in an exception handler: a lost answer ends the client.
Reset(c) ==
  LET cli == Conn(c) IN
  /\ c \in resetting /\ session[c] \in Sessions
  /\ SetConn(c, IF cli.inFile # Closed THEN [cli EXCEPT !.inFile = 0]
                ELSE IF cli.outFile # Closed THEN [cli EXCEPT !.outFile = 0]
                ELSE cli)
  /\ \/ resetting' = resetting \ {c} /\ UNCHANGED <<session, phase, source, result>>
     \/ "lostAnswer" \in Events /\ Leaves(c)
  /\ UNCHANGED <<dbVars, m_filesToMove, mainVars, fileVars>>

\* External: the encoder process of the client ends.  If m_dstFile is still
\* open from a file that was forgotten, opening it fails and the length of the
\* new file is taken to be 0.
Encode(c) ==
  LET length == IF result[c].result = OK THEN 0 ELSE EncLen IN
  /\ phase[c] = "encoding"
  /\ \E r \in ClientResults :
       /\ IF r.result = OK THEN r.fileLength = length ELSE "encodeFails" \in Events
       /\ result' = [result EXCEPT ![c] = r]
  /\ phase' = [phase EXCEPT ![c] = "sending"]
  /\ UNCHANGED <<dbVars, connVars, mainVars, fileVars, session, source, resetting>>

\* postFile() is refused if the source was not read to its end, or if a
\* result was already taken.
ResultAccepted(cli) ==
  /\ cli.inFile # Closed => cli.inFile = FileLen[cli.originalFileName]
  /\ cli.outFile = Closed

PostAccepted(c) == Calling(c, "sending") /\ ResultAccepted(Conn(c))

\* Only such a result is followed by an upload.
WithData(r) == r.result = OK /\ r.fileLength > 0

\* postFile() of an encoded file: a temporary file is opened to receive it.
PostFile(c) ==
  LET cli == [Conn(c) EXCEPT !.inFile = Closed, !.encResult = result[c]] IN
  /\ PostAccepted(c) /\ WithData(result[c])
  /\ \/ /\ SetConn(c, [cli EXCEPT !.outFile = 0])
        /\ temp' = [temp EXCEPT ![cli.originalFileId] = [of |-> source[c], len |-> 0]]
        /\ Answer(c, /\ phase' = [phase EXCEPT ![c] = "transmitting"]
                     /\ UNCHANGED <<session, source, result, resetting>>)
     \/ /\ "tempOpenFails" \in Events
        /\ SetConn(c, cli)
        /\ UNCHANGED <<temp, clientVars>>
  /\ UNCHANGED <<dbVars, m_filesToMove, mainVars, watch, disk>>

\* postFile() of an error: the result goes straight to the main loop.
PostFileError(c) ==
  LET cli == [Conn(c) EXCEPT !.inFile = Closed, !.encResult = result[c]] IN
  /\ PostAccepted(c) /\ ~WithData(result[c])
  /\ PrepareNewSession(session[c], cli)
  /\ main' = Notified
  /\ Answer(c, BecomesIdle(c))
  /\ UNCHANGED <<dbVars, ftm, fileVars>>

\* The answer false to writeChunk(): a client that has read its file to eof()
\* is done, any other one ignores it and sends the next chunk.
Finishes(c, cli) ==
  \/ cli.outFile + 1 = cli.encResult.fileLength /\ BecomesIdle(c)
  \/ /\ cli.outFile + 1 = cli.encResult.fileLength => "aligned" \in Events
     /\ UNCHANGED clientVars

\* writeChunk(): the next chunk is written, or the disk is full.  When the
\* position reaches the announced length the file goes to the main loop.
WriteChunk(c) ==
  LET cli == Conn(c)
      had == temp[cli.originalFileId]
  IN
  /\ Calling(c, "transmitting") /\ WriteAccepted(cli)
  /\ \E tellp \in {cli.outFile + 1} \cup (IF "diskFull" \in Events THEN {Failed} ELSE {}) :
       /\ temp' = IF tellp = Failed \/ (had.of = source[c] /\ had.len > tellp) THEN temp
                  ELSE [temp EXCEPT ![cli.originalFileId] = [of |-> source[c], len |-> tellp]]
       /\ \/ /\ AsSize(tellp) < cli.encResult.fileLength
             /\ SetConn(c, [cli EXCEPT !.outFile = tellp])
             /\ Answer(c, UNCHANGED clientVars)
             /\ UNCHANGED <<m_filesToMove, main>>
          \/ /\ AsSize(tellp) >= cli.encResult.fileLength
             /\ PrepareNewSession(session[c], cli)
             /\ main' = Notified
             /\ Answer(c, Finishes(c, cli))
  /\ UNCHANGED <<dbVars, ftm, watch, disk>>

\* abort(), the last call of a client that shuts down: the file goes back
\* to the queue, if one is open.
Abort(c) ==
  LET cli == Conn(c)
      open == cli.inFile # Closed \/ cli.outFile # Closed
  IN
  /\ "shutdown" \in Events
  /\ phase[c] # "gone" /\ session[c] \in Sessions
  /\ IF open
     THEN /\ IF cli.originalFileId \in Files THEN DbReset(cli.originalFileId)
                                             ELSE UNCHANGED dbVars
          /\ SetConn(c, Cleared(c, NoFile))
     ELSE UNCHANGED <<dbVars, m_connections>>
  /\ Leaves(c)
  /\ UNCHANGED <<m_filesToMove, mainVars, fileVars>>

-----------------------------------------------------------------------------
\* In the middle of a transfer the client also fails to call reset(), and
\* ends.  Otherwise it connects again but does not authenticate again, so all
\* its calls are refused.
Disconnected(cs) ==
  LET ends(c) == phase[c] \in {"receiving", "transmitting", "looping"} IN
  /\ session' = [c \in Clients |-> IF c \notin cs THEN session[c]
                                   ELSE IF ends(c) THEN NoSession ELSE StaleSession]
  /\ phase' = [c \in Clients |-> IF c \in cs /\ ends(c) THEN "gone" ELSE phase[c]]
  /\ source' = [c \in Clients |-> IF c \in cs /\ ends(c) THEN NoFile ELSE source[c]]
  /\ result' = [c \in Clients |-> IF c \in cs /\ ends(c) THEN NoResult ELSE result[c]]
  /\ resetting' = resetting \ cs

\* External: the connection of a client breaks, the daemon is not told.
Break(c) ==
  /\ "break" \in Events
  /\ session[c] \in Sessions
  /\ Disconnected({c})
  /\ UNCHANGED <<dbVars, connVars, mainVars, fileVars>>

\* External: a client dies, or is stopped while it has no connection.
Die(c) ==
  /\ "dies" \in Events
  /\ phase[c] # "gone"
  /\ Leaves(c)
  /\ UNCHANGED <<dbVars, connVars, mainVars, fileVars>>

-----------------------------------------------------------------------------
\* onFileSystemChange(): file sizes are read first, the database is written
\* later.  An event on a source looks for its archive; an event on an archive
\* looks for a source of the same name without the suffix, which exists only
\* if the source has the extension of archives.
WatchStat ==
  /\ watch = NoEvent
  /\ \E f \in Files :
       LET archive == ArchiveName[f]
           sourceFound == f \in FinalExt /\ FileLen[f] > 0
       IN  \/ watch' = [src |-> f, queue |-> TRUE,
                        dst |-> IF disk[archive].len > 0 THEN archive ELSE NoName]
           \/ /\ disk[archive] # NoContent
              /\ watch' = [src |-> IF sourceFound THEN f ELSE NoFile,
                           queue |-> sourceFound, dst |-> archive]
  /\ UNCHANGED <<dbVars, connVars, mainVars, temp, disk, clientVars>>

\* The pending addFile() of the listener.
WatchAdd ==
  /\ watch # NoEvent
  /\ DbAddFile(watch.src, IF watch.src = NoFile THEN 0 ELSE FileLen[watch.src],
               watch.dst, watch.queue)
  /\ watch' = NoEvent
  /\ UNCHANGED <<connVars, mainVars, temp, disk, clientVars>>

-----------------------------------------------------------------------------
\* start(): holding m_mtxFileMove, the loop waits for a file or takes one and
\* unlocks.  (Nothing in the daemon calls stop() while the loop runs.)
MainLoop ==
  /\ main = "loop"
  /\ IF m_filesToMove = <<>>
     THEN main' = "waiting" /\ UNCHANGED <<m_filesToMove, ftm>>
     ELSE /\ m_filesToMove' = Tail(m_filesToMove)
          /\ IF Head(m_filesToMove).originalFileId = NoFile
             THEN UNCHANGED <<main, ftm>>
             ELSE main' = "move" /\ ftm' = Head(m_filesToMove)
  /\ UNCHANGED <<dbVars, m_connections, fileVars, clientVars>>

\* The wait ends after a notification; it may end without one.
MainWake ==
  /\ main = "woken"
  /\ main' = "loop"
  /\ UNCHANGED <<dbVars, connVars, ftm, fileVars, clientVars>>

\* External: the wait of a condition variable may end by itself.
SpuriousWakeup ==
  /\ main = "waiting"
  /\ main' = "loop"
  /\ UNCHANGED <<dbVars, connVars, ftm, fileVars, clientVars>>

\* An error is recorded at once.
MainRecordFailure ==
  /\ main = "move" /\ ~WithData(ftm.encResult)
  /\ DbAddEncodedFile(ftm.originalFileId, ftm.encResult.result,
       ftm.encResult.fileLength, ArchiveName[ftm.originalFileName])
  /\ main' = "loop" /\ ftm' = NoFileToMove
  /\ UNCHANGED <<connVars, fileVars, clientVars>>

\* moveFile(): `mv' and then utimensat(); mv fails if there is no temporary
\* file, and a copy to another file system may stop in the middle.
MainMove ==
  LET id == ftm.originalFileId
      dst == ArchiveName[ftm.originalFileName]
      moved == /\ disk' = [disk EXCEPT ![dst] = temp[id]]
               /\ temp' = [temp EXCEPT ![id] = NoContent]
  IN
  /\ main = "move" /\ WithData(ftm.encResult)
  /\ \/ temp[id] # NoContent /\ moved /\ main' = "recordOk"
     \/ temp[id] # NoContent /\ "utimeFails" \in Events /\ moved /\ main' = "recordError"
     \/ /\ "mvFails" \notin Events => temp[id] = NoContent
        /\ main' = "recordError" /\ UNCHANGED <<disk, temp>>
     \/ /\ "mvPartial" \in Events
        /\ \E k \in 0..EncLen : /\ k < temp[id].len
                                /\ disk' = [disk EXCEPT ![dst] = [of |-> temp[id].of, len |-> k]]
        /\ main' = "recordError" /\ UNCHANGED temp
  /\ UNCHANGED <<dbVars, connVars, ftm, watch, clientVars>>

MainRecord_KeepResult ==
  /\ main \in {"recordOk", "recordError"}
  /\ DbAddEncodedFile(ftm.originalFileId, ftm.encResult.result,
       IF main = "recordOk" THEN ftm.encResult.fileLength ELSE 0,
       ArchiveName[ftm.originalFileName])
  /\ main' = "loop" /\ ftm' = NoFileToMove
  /\ UNCHANGED <<connVars, fileVars, clientVars>>

\* The result reaches the database, or ServerIOError without an archive if
\* the move failed.
MainRecord ==
  /\ \/ /\ main = "recordOk"
        /\ DbAddEncodedFile(ftm.originalFileId, ftm.encResult.result,
             ftm.encResult.fileLength, ArchiveName[ftm.originalFileName])
     \/ /\ main = "recordError"
        /\ DbAddEncodedFile(ftm.originalFileId, ServerIOError, 0,
             ArchiveName[ftm.originalFileName])
  /\ main' = "loop" /\ ftm' = NoFileToMove
  /\ UNCHANGED <<connVars, fileVars, clientVars>>

\* The daemon process ends at any point and is started again: the database
\* and the files stay, connections and queue are gone.
Restart ==
  /\ "restart" \in Events
  /\ m_connections' = [s \in Sessions |-> NoConn]
  /\ m_filesToMove' = <<>>
  /\ main' = "loop" /\ ftm' = NoFileToMove
  /\ watch' = NoEvent
  /\ Disconnected({c \in Clients : session[c] \in Sessions})
  /\ UNCHANGED <<dbVars, temp, disk>>

-----------------------------------------------------------------------------
MainStep == MainLoop \/ MainWake \/ MainRecordFailure \/ MainMove \/ MainRecord

ClientStep(c) ==
  \/ Authenticate(c) \/ AuthenticateFails(c) \/ GetNextFileNone(c)
  \/ \E f \in Files : GetNextFile(c, f) \/ GetNextFileFails(c, f)
  \/ ReadChunk(c) \/ TransferError(c) \/ SendEmpty(c) \/ Reset(c) \/ Encode(c)
  \/ PostFile(c) \/ PostFileError(c) \/ WriteChunk(c)

Next ==
  \/ \E c \in Clients : ClientStep(c) \/ LostCall(c) \/ Abort(c) \/ Break(c) \/ Die(c)
  \/ MainStep \/ SpuriousWakeup \/ Restart
  \/ WatchStat \/ WatchAdd

Spec == Init /\ [][Next]_vars

\* The main loop and every client keep running; nothing else has to happen.
Fairness == WF_vars(MainStep) /\ \A c \in Clients : WF_vars(ClientStep(c))

FairSpec == Spec /\ Fairness

-----------------------------------------------------------------------------
\* Who is responsible for a reserved file: a connection, an entry of the
\* queue, or the main loop.
HeldBySession(s, f) == m_connections[s].originalFileName = f
Queued(i, f) == m_filesToMove[i].originalFileId = f
HeldByMain(f) == ftm.originalFileId = f

\* Some place holds the file.
Held(f) == \/ \E s \in Sessions : HeldBySession(s, f)
           \/ \E i \in 1..Len(m_filesToMove) : Queued(i, f)
           \/ HeldByMain(f)

\* A file is in at most one place on its way from getNextFile() to the
\* record of its result, whatever clients, answers and connections are lost
\* and however handlers and the main loop interleave: it is never encoded
\* twice at once, and no two uploads share a temporary file.
OneHolder ==
  \A f \in Files :
    /\ \A s, t \in Sessions : HeldBySession(s, f) /\ HeldBySession(t, f) => s = t
    /\ \A i, j \in 1..Len(m_filesToMove) : Queued(i, f) /\ Queued(j, f) => i = j
    /\ \A s \in Sessions, i \in 1..Len(m_filesToMove) :
          ~(HeldBySession(s, f) /\ Queued(i, f))
    /\ HeldByMain(f) => /\ \A s \in Sessions : ~HeldBySession(s, f)
                        /\ \A i \in 1..Len(m_filesToMove) : ~Queued(i, f)

\* While a file is held the database does not hand it out again: its status
\* is Started, or OK if the listener has found an archive of it meanwhile.
HeldIsReserved == \A f \in Files : Held(f) => status[f] \in {Started, OK}

\* The state of a file's job, as it looks from outside.
JobState(f) ==
  IF Held(f) THEN "working"
  ELSE CASE status[f] = Started -> "lost"
         [] status[f] = OK -> "done"
         [] status[f] = NotStarted -> "waiting"
         [] status[f] = NoRow -> IF sourcefiles[f] = Absent THEN "unknown" ELSE "waiting"
         [] OTHER -> "failed"

Queue == INSTANCE JobQueue WITH
  Jobs <- Files, MaxTries <- RetryLimit,
  Unreadable <- {f \in Files : "openFails" \in Events \/ FileLen[f] = 0},
  Forgetting <- "restart" \in Events,
  job <- [f \in Files |-> JobState(f)], tries <- count, returns <- resets

\* Connections, queue, main loop, listener and database together are a queue
\* of jobs: whatever clients, answers and connections are lost, a file leaves
\* the hands of a client only with the record of its result or with a return,
\* and is handed out only while it is in nobody's hands and has tries left.
IsJobQueue == Queue!Spec

\* A client has one connection at most.
TokensUnique ==
  \A s, t \in Sessions :
    m_connections[s].token # NoClient /\ m_connections[s].token = m_connections[t].token
      => s = t

\* An authenticated client finds its own connection under its session.
SessionsOwned == \A c \in Clients : session[c] \in Sessions => Conn(c).token = c

\* A client that is working on a file has a connection, unless the daemon was
\* started again.
BusyHasConnection ==
  "restart" \notin Events =>
    \A c \in Clients : phase[c] \notin {"idle", "gone"} =>
                        \E s \in Sessions : m_connections[s].token = c

\* The id of a connection is the one stored with its name, or has not been
\* initialised yet and its client has no file.
IdStored(cli) ==
  \/ cli.originalFileId = cli.originalFileName
  \/ /\ cli.originalFileName = NoFile /\ cli.inFile = Closed /\ cli.outFile = Closed
     /\ cli.token \in Clients /\ phase[cli.token] \in {"idle", "gone"}

\* Ids and names agree all the way, and only a busy main loop holds a file.
IdsStored ==
  /\ \A s \in Sessions : IdStored(m_connections[s])
  /\ \A i \in 1..Len(m_filesToMove) :
       m_filesToMove[i].originalFileId = m_filesToMove[i].originalFileName
  /\ ftm.originalFileId = ftm.originalFileName
  /\ main \notin {"move", "recordOk", "recordError"} => ftm = NoFileToMove

\* Why OneHolder and HeldIsReserved are inductive: the daemon works with the
\* ids getNextFile() stored, for clients it can tell apart.  (After a restart
\* an uninitialised id may be that of a file; then IdsStored and OneHolder
\* fail.)
HoldersTied == TokensUnique /\ SessionsOwned /\ BusyHasConnection /\ IdsStored

\* The client of session s works on f, and the daemon will not refuse the next
\* call that brings f closer to its result.
Working(s, f) ==
  LET cli == m_connections[s]
      c == cli.token
  IN
  /\ c \in Clients
  /\ source[c] = f
  /\ \/ phase[c] = "receiving" /\ session[c] = s /\ ReadAccepted(cli)
     \/ phase[c] \in {"encoding", "sending"} /\ session[c] \in {s, NoSession} /\ ResultAccepted(cli)
     \/ phase[c] = "transmitting" /\ session[c] = s /\ WriteAccepted(cli)

\* Nobody will go on with the file of session s: its client has ended; or has
\* lost the session; or asks for files, or sends a result, and is refused
\* because a stream of the connection is open; or sends nothing but empty
\* chunks.
Blocked(s) ==
  LET cli == m_connections[s]
      c == cli.token
  IN
  /\ c \in Clients
  /\ \/ phase[c] = "gone"
     \/ session[c] = StaleSession
     \/ phase[c] = "idle" /\ (cli.inFile # Closed \/ cli.outFile # Closed)
     \/ phase[c] = "sending" /\ cli.outFile # Closed
     \/ phase[c] = "looping"

\* A file whose status is Started is on its way to the record of its result
\* (in the queue, with the main loop, with a client that works on it and will
\* be heard), or it is blocked in one of the five ways the code is known to
\* lose it: a reservation is lost in no other way.
ReservedIsHeld ==
  \A f \in Files : status[f] = Started =>
    \/ HeldByMain(f)
    \/ \E i \in 1..Len(m_filesToMove) : Queued(i, f)
    \/ \E s \in Sessions : HeldBySession(s, f) /\ (Working(s, f) \/ Blocked(s))

\* A file in the queue that is said to be encoded has been received whole
\* (writeChunk() ends the upload only when the announced length is reached).
UploadComplete ==
  \A i \in 1..Len(m_filesToMove) :
    LET e == m_filesToMove[i] IN
    WithData(e.encResult) =>
      temp[e.originalFileId] = [of |-> e.originalFileName, len |-> EncLen]

\* A file recorded as OK has a complete archive of its own, of this very
\* file, at the path recorded in the database: across rewound uploads,
\* retried results, archives found by the listener before they are recorded.
ArchiveSound ==
  \A f \in Files :
    status[f] = OK => /\ archives[f] # NoName
                      /\ disk[archives[f]] = [of |-> f, len |-> EncLen]

\* The archive of a file that is OK is never touched again: no step rewrites
\* the archive or takes the record back, as long as the file is not held.
DoneIsFinal ==
  [][\A f \in Files : status[f] = OK /\ ~Held(f) =>
        /\ status'[f] = OK
        /\ disk'[ArchiveName[f]] = disk[ArchiveName[f]]]_vars

\* If opening the reserved file fails, the client is given another one that
\* can be selected (the comment on the getNextFile binding).
OpenErrorHidden ==
  [][\A f, g \in Files :
       /\ f # g /\ {f, g} \subseteq Selectable(MaxFileSize)
       /\ status'[f] = Started
       => \E c \in Clients : phase[c] = "idle" /\ phase'[c] = "receiving"]_vars

\* An upload is recorded: a result in the queue reaches the database (the
\* notification of the main loop is never lost).
ResultRecorded ==
  \A f \in Files :
    (\E i \in 1..Len(m_filesToMove) : Queued(i, f)) ~> status[f] # Started

\* Archived, or failed as often as it may.
Settled(f) == status[f] = OK \/ (status[f] < 0 /\ status[f] # NoRow /\ ~Retriable(f))

\* The client's upload is over for the daemon, not for the client, which has
\* not seen eof(): it sends refused chunks for ever.
Caught(c) ==
  phase[c] = "transmitting" /\ session[c] \in Sessions /\ Conn(c).outFile = Closed

\* Every file the daemon knows is settled in the end, whichever client asks
\* first and however often encoding or moving fails, unless every client has
\* been caught in an endless upload.
EveryFileSettles ==
  \A f \in Files : (sourcefiles[f] # Absent) ~> (Settled(f) \/ \A c \in Clients : Caught(c))
=============================================================================
