---------------------------- MODULE DaemonProofs ----------------------------
(***************************************************************************)
(* What holds of the daemon for every set of files, clients and sessions,  *)
(* and for every choice of the failures that may happen: its data, how     *)
(* often a file is handed out, and who holds it.                           *)
(***************************************************************************)
EXTENDS Daemon, SQLiteProofs, SequenceTheorems

\* A busy main loop works on a real file: entries with id 0 are skipped.
MainHasFile ==
  main \in {"move", "recordOk", "recordError"} => ftm.originalFileId \in Files

\* The data invariant: types, and the database invariant of module SQLite.
DataInv == TypeOK /\ DbInv /\ MainHasFile

-----------------------------------------------------------------------------
\* The constants the records are built from.
LEMMA RecordTypes ==
  ASSUME DbAssumption, DaemonAssumption
  PROVE  /\ NoResult \in EncResults
         /\ ClientResults \subseteq EncResults
         /\ NoFileToMove \in FilesToMove
         /\ NoContent \in Contents
         /\ NoEvent \in WatchEvents
         /\ \A tok \in Clients \cup {NoClient}, id \in FileIds : Cleared(tok, id) \in Conns
<1>1. NoResult \in EncResults /\ ClientResults \subseteq EncResults
  BY DEF DbAssumption, DaemonAssumption, NoResult, EncResults, ClientResults
<1>2. NoFile \in FileIds
  BY DEF FileIds
<1> QED
  BY <1>1, <1>2 DEF DaemonAssumption, NoFileToMove, FilesToMove, NoContent,
     Contents, NoEvent, WatchEvents, Cleared, Conns

\* init() and a new database satisfy the data invariant.
LEMMA InitData ==
  ASSUME DbAssumption, DaemonAssumption, Init
  PROVE  DataInv
<1>1. DbInv
  BY DbInitInv DEF Init
<1>2. m_filesToMove \in Seq(FilesToMove)
  BY DEF Init
<1>3. disk \in [Names -> Contents]
  <2>1. \A n \in Names : (\E f \in Archived : ArchiveName[f] = n) =>
           (CHOOSE f \in Archived : ArchiveName[f] = n) \in Archived
    OBVIOUS
  <2>2. \A f \in Archived : [of |-> f, len |-> EncLen] \in Contents
    BY DEF Contents, DaemonAssumption, FileIds
  <2> QED
    BY <2>1, <2>2, RecordTypes DEF Init
<1> QED
  BY <1>1, <1>2, <1>3, RecordTypes DEF Init, DataInv, TypeOK, ClientTypeOK, DbInv, MainHasFile,
     MainStates, Phases, NoConn, Closed, FileIds

\* A client that can call a handler has a connection.
LEMMA ConnType ==
  ASSUME TypeOK, NEW c \in Clients, session[c] \in Sessions
  PROVE  Conn(c) \in Conns
BY DEF TypeOK, Conn

\* Writing a connection into the map keeps the type of the map.
LEMMA SetConnType ==
  ASSUME TypeOK, NEW c \in Clients, NEW cli \in Conns, SetConn(c, cli)
  PROVE  m_connections' \in [Sessions -> Conns]
BY DEF TypeOK, SetConn

\* So do the three ways a client leaves a transfer.
LEMMA BecomesIdleType ==
  ASSUME DbAssumption, DaemonAssumption, TypeOK, NEW c \in Clients, BecomesIdle(c)
  PROVE  ClientTypeOK'
BY RecordTypes DEF BecomesIdle, TypeOK, ClientTypeOK, Phases, FileIds

\* A client that ends keeps the types.
LEMMA LeavesType ==
  ASSUME DbAssumption, DaemonAssumption, TypeOK, NEW c \in Clients, Leaves(c)
  PROVE  ClientTypeOK'
BY RecordTypes DEF Leaves, TypeOK, ClientTypeOK, Phases, FileIds

\* Clients that lose their connection keep the types.
LEMMA DisconnectedType ==
  ASSUME DbAssumption, DaemonAssumption, TypeOK, NEW cs, Disconnected(cs)
  PROVE  ClientTypeOK'
BY RecordTypes DEF Disconnected, TypeOK, ClientTypeOK, Phases, FileIds

\* prepareNewSession() keeps the types of the map and of the queue.
LEMMA PrepareType ==
  ASSUME DbAssumption, DaemonAssumption, TypeOK, NEW s \in Sessions, NEW cli \in Conns,
         PrepareNewSession(s, cli)
  PROVE  /\ m_connections' \in [Sessions -> Conns]
         /\ m_filesToMove' \in Seq(FilesToMove)
<1>1. [originalFileId |-> cli.originalFileId, originalFileName |-> cli.originalFileName,
       encResult |-> cli.encResult] \in FilesToMove
  BY DEF Conns, FilesToMove
<1>2. m_filesToMove' \in Seq(FilesToMove)
  BY <1>1, AppendProperties DEF PrepareNewSession, TypeOK
<1>3. Cleared(cli.token, NoFile) \in Conns
  BY RecordTypes DEF Conns, FileIds
<1> QED
  BY <1>2, <1>3 DEF PrepareNewSession, TypeOK

\* Steps that leave the database and the main loop alone keep MainHasFile and
\* the database invariant; TypeOK then is a matter of the other variables.
LEMMA DbUnchanged ==
  ASSUME DataInv, UNCHANGED dbVars
  PROVE  DbInv' /\ DbTypeOK'
BY DbStutterKeepsDbInv DEF DataInv, DbInv

-----------------------------------------------------------------------------
\* The handlers.
LEMMA AuthenticateData ==
  ASSUME DbAssumption, DaemonAssumption, DataInv, NEW c \in Clients, Authenticate(c)
  PROVE  DataInv'
<1>0. TypeOK
  BY DEF DataInv
<1>1. \A id \in Garbage : Cleared(c, id) \in Conns
  BY RecordTypes DEF DaemonAssumption
<1>2. NoConn \in Conns
  BY RecordTypes DEF NoConn, FileIds
<1>3. PICK id \in Sessions, cl \in Conns :
        /\ m_connections' = MovedTo(c, id, cl)
        /\ Answer(c, session' = [session EXCEPT ![c] = id]
                     /\ UNCHANGED <<phase, source, result, resetting>>)
  BY <1>0, <1>1 DEF Authenticate, TypeOK
<1>4. m_connections' \in [Sessions -> Conns]
  BY <1>0, <1>2, <1>3 DEF MovedTo, TypeOK
<1>5. ClientTypeOK'
  BY <1>0, <1>3 DEF Answer, TypeOK, ClientTypeOK
<1>6. UNCHANGED <<dbVars, m_filesToMove, mainVars, fileVars>>
  BY DEF Authenticate
<1>7. DbInv' /\ DbTypeOK'
  BY <1>6, DbUnchanged
<1> QED
  BY <1>0, <1>4, <1>5, <1>6, <1>7 DEF DataInv, TypeOK, MainHasFile, mainVars, fileVars

\* A failed connection changes the client only.
LEMMA AuthenticateFailsData ==
  ASSUME DbAssumption, DaemonAssumption, DataInv, NEW c \in Clients, AuthenticateFails(c)
  PROVE  DataInv'
<1>1. ClientTypeOK'
  BY DEF DataInv, TypeOK, ClientTypeOK, AuthenticateFails, Phases, FileIds
<1>2. UNCHANGED <<dbVars, connVars, mainVars, fileVars>>
  BY DEF AuthenticateFails
<1>3. DbInv' /\ DbTypeOK'
  BY <1>2, DbUnchanged
<1> QED
  BY <1>1, <1>2, <1>3 DEF DataInv, TypeOK, MainHasFile, connVars, mainVars, fileVars

\* getNextFile() without a file clears the connection.
LEMMA GetNextFileNoneData ==
  ASSUME DbAssumption, DaemonAssumption, DataInv, NEW c \in Clients, GetNextFileNone(c)
  PROVE  DataInv'
<1>0. TypeOK
  BY DEF DataInv
<1>1. m_connections' \in [Sessions -> Conns]
  BY <1>0, RecordTypes, SetConnType DEF GetNextFileNone, FileIds
<1>2. ClientTypeOK'
  BY <1>0 DEF GetNextFileNone, Answer, TypeOK, ClientTypeOK
<1>3. UNCHANGED <<dbVars, m_filesToMove, mainVars, fileVars>>
  BY DEF GetNextFileNone
<1>4. DbInv' /\ DbTypeOK'
  BY <1>3, DbUnchanged
<1> QED
  BY <1>0, <1>1, <1>2, <1>3, <1>4 DEF DataInv, TypeOK, MainHasFile, mainVars, fileVars

\* getNextFile() reserves a file the database invariant allows it to.
LEMMA GetNextFileData ==
  ASSUME DbAssumption, DaemonAssumption, DataInv, NEW c \in Clients, NEW f \in Files,
         GetNextFile(c, f) \/ GetNextFileFails(c, f)
  PROVE  DataInv'
<1>0. TypeOK
  BY DEF DataInv
<1>1. DbInv' /\ DbTypeOK'
  <2>1. DbGetNextFile(MaxFileSize, f) /\ MaxFileSize \in Nat
    BY DEF GetNextFile, GetNextFileFails, MaxFileSize
  <2> QED
    BY <2>1, GetNextFileKeepsDbInv DEF DataInv, DbInv
<1>2. m_connections' \in [Sessions -> Conns]
  <2>1. Cleared(c, f) \in Conns /\ Cleared(c, NoFile) \in Conns
    BY RecordTypes DEF FileIds
  <2>2. [Cleared(c, f) EXCEPT !.originalFileName = f, !.inFile = 0] \in Conns
    BY <2>1 DEF Conns, FileIds
  <2> QED
    BY <1>0, <2>1, <2>2, SetConnType DEF GetNextFile, GetNextFileFails
<1>3. ClientTypeOK'
  <2>1. ClientTypeOK
    BY <1>0 DEF TypeOK
  <2>2. CASE GetNextFile(c, f)
    BY <2>1, <2>2 DEF GetNextFile, Answer, ClientTypeOK, Phases, FileIds
  <2>3. CASE GetNextFileFails(c, f)
    BY <2>1, <2>3 DEF GetNextFileFails, ClientTypeOK, clientVars
  <2> QED
    BY <2>2, <2>3
<1>4. UNCHANGED <<m_filesToMove, mainVars, fileVars>>
  BY DEF GetNextFile, GetNextFileFails
<1> QED
  BY <1>0, <1>1, <1>2, <1>3, <1>4 DEF DataInv, TypeOK, MainHasFile, mainVars, fileVars

\* readChunk() advances the position of an open source.
LEMMA ReadChunkData ==
  ASSUME DbAssumption, DaemonAssumption, DataInv, NEW c \in Clients, ReadChunk(c)
  PROVE  DataInv'
<1>0. TypeOK
  BY DEF DataInv
<1>1. m_connections' \in [Sessions -> Conns]
  <2>1. Conn(c) \in Conns /\ Conn(c).inFile # Closed
    BY <1>0, ConnType DEF ReadChunk, Calling, ReadAccepted
  <2>2. [Conn(c) EXCEPT !.inFile = @ + 1] \in Conns
    BY <2>1 DEF Conns
  <2> QED
    BY <1>0, <2>2, SetConnType DEF ReadChunk, TypeOK
<1>2. ClientTypeOK'
  BY <1>0 DEF ReadChunk, Answer, TypeOK, ClientTypeOK, clientVars, Phases
<1>3. UNCHANGED <<dbVars, m_filesToMove, mainVars, fileVars>>
  BY DEF ReadChunk
<1>4. DbInv' /\ DbTypeOK'
  BY <1>3, DbUnchanged
<1> QED
  BY <1>0, <1>1, <1>2, <1>3, <1>4 DEF DataInv, TypeOK, MainHasFile, mainVars, fileVars

\* A refused transfer and reset() change the position of a stream.
LEMMA ResetData ==
  ASSUME DbAssumption, DaemonAssumption, DataInv, NEW c \in Clients,
         TransferError(c) \/ Reset(c)
  PROVE  DataInv'
<1>0. TypeOK
  BY DEF DataInv
<1>1. m_connections' \in [Sessions -> Conns]
  <2>1. CASE TransferError(c)
    BY <1>0, <2>1 DEF TransferError, connVars, TypeOK
  <2>2. CASE Reset(c)
    <3>1. Conn(c) \in Conns
      BY <1>0, <2>2, ConnType DEF Reset
    <3>2. /\ [Conn(c) EXCEPT !.inFile = 0] \in Conns
          /\ [Conn(c) EXCEPT !.outFile = 0] \in Conns
      BY <3>1 DEF Conns
    <3> QED
      BY <1>0, <2>2, <3>1, <3>2, SetConnType DEF Reset
  <2> QED
    BY <2>1, <2>2
<1>2. ClientTypeOK'
  <2>1. CASE TransferError(c)
    BY <1>0, <2>1 DEF TransferError, TypeOK, ClientTypeOK
  <2>2. CASE Reset(c)
    BY <1>0, <2>2, LeavesType DEF Reset, TypeOK, ClientTypeOK
  <2> QED
    BY <2>1, <2>2
<1>3. UNCHANGED <<dbVars, m_filesToMove, mainVars, fileVars>>
  BY DEF TransferError, Reset, connVars
<1>4. DbInv' /\ DbTypeOK'
  BY <1>3, DbUnchanged
<1> QED
  BY <1>0, <1>1, <1>2, <1>3, <1>4 DEF DataInv, TypeOK, MainHasFile, mainVars, fileVars

\* A lost call, or one without effect, changes the client only.
LEMMA LostData ==
  ASSUME DbAssumption, DaemonAssumption, DataInv, NEW c \in Clients,
         LostCall(c) \/ SendEmpty(c)
  PROVE  DataInv'
<1>0. TypeOK /\ ClientTypeOK
  BY DEF DataInv, TypeOK
<1>1. ClientTypeOK'
  <2>1. CASE Leaves(c)
    BY <1>0, <2>1, LeavesType
  <2>2. CASE ~Leaves(c)
    BY <1>0, <2>2 DEF LostCall, SendEmpty, ClientTypeOK, Phases
  <2> QED
    BY <2>1, <2>2
<1>2. UNCHANGED <<dbVars, connVars, mainVars, fileVars>>
  BY DEF LostCall, SendEmpty
<1>3. DbInv' /\ DbTypeOK'
  BY <1>2, DbUnchanged
<1> QED
  BY <1>0, <1>1, <1>2, <1>3 DEF DataInv, TypeOK, MainHasFile, connVars, mainVars, fileVars

\* The encoder changes the client only.
LEMMA EncodeData ==
  ASSUME DbAssumption, DaemonAssumption, DataInv, NEW c \in Clients, Encode(c)
  PROVE  DataInv'
<1>1. ClientTypeOK'
  BY RecordTypes DEF DataInv, TypeOK, ClientTypeOK, Encode, Phases
<1>2. UNCHANGED <<dbVars, connVars, mainVars, fileVars>>
  BY DEF Encode
<1>3. DbInv' /\ DbTypeOK'
  BY <1>2, DbUnchanged
<1> QED
  BY <1>1, <1>2, <1>3 DEF DataInv, TypeOK, MainHasFile, connVars, mainVars, fileVars

\* postFile() opens a temporary file for a result of the client.
LEMMA PostFileData ==
  ASSUME DbAssumption, DaemonAssumption, DataInv, NEW c \in Clients, PostFile(c)
  PROVE  DataInv'
<1>0. TypeOK /\ ClientTypeOK
  BY DEF DataInv, TypeOK
<1> DEFINE cli == [Conn(c) EXCEPT !.inFile = Closed, !.encResult = result[c]]
<1>1. Conn(c) \in Conns /\ result[c] \in EncResults /\ source[c] \in FileIds
  BY <1>0, ConnType DEF PostFile, PostAccepted, Calling, ClientTypeOK
<1>2. cli \in Conns /\ [cli EXCEPT !.outFile = 0] \in Conns
  BY <1>1 DEF Conns
<1>3. m_connections' \in [Sessions -> Conns]
  BY <1>0, <1>2, SetConnType DEF PostFile
<1>4. temp' \in [FileIds -> Contents]
  <2>1. [of |-> source[c], len |-> 0] \in Contents
    BY <1>1 DEF Contents, DaemonAssumption
  <2> QED
    BY <1>0, <2>1 DEF PostFile, TypeOK
<1>5. ClientTypeOK'
  BY <1>0 DEF PostFile, Answer, ClientTypeOK, clientVars, Phases
<1>6. UNCHANGED <<dbVars, m_filesToMove, mainVars, watch, disk>>
  BY DEF PostFile
<1>7. DbInv' /\ DbTypeOK'
  BY <1>6, DbUnchanged
<1> QED
  BY <1>0, <1>3, <1>4, <1>5, <1>6, <1>7 DEF DataInv, TypeOK, MainHasFile, mainVars

\* notify_all() changes where the main loop is, never what it holds.
LEMMA NotifiedType ==
  ASSUME DataInv, main' = Notified, UNCHANGED ftm
  PROVE  main' \in MainStates /\ MainHasFile'
BY DEF DataInv, TypeOK, MainHasFile, Notified, MainStates

\* postFile() of an error queues an entry for the main loop.
LEMMA PostFileErrorData ==
  ASSUME DbAssumption, DaemonAssumption, DataInv, NEW c \in Clients, PostFileError(c)
  PROVE  DataInv'
<1>0. TypeOK /\ ClientTypeOK
  BY DEF DataInv, TypeOK
<1> DEFINE cli == [Conn(c) EXCEPT !.inFile = Closed, !.encResult = result[c]]
<1>1. Conn(c) \in Conns /\ result[c] \in EncResults /\ session[c] \in Sessions
  BY <1>0, ConnType DEF PostFileError, PostAccepted, Calling, ClientTypeOK
<1>2. cli \in Conns
  BY <1>1 DEF Conns
<1>3. m_connections' \in [Sessions -> Conns] /\ m_filesToMove' \in Seq(FilesToMove)
  BY <1>0, <1>1, <1>2, PrepareType DEF PostFileError
<1>4. ClientTypeOK'
  BY <1>0, BecomesIdleType DEF PostFileError, Answer, ClientTypeOK
<1>5. UNCHANGED <<dbVars, ftm, fileVars>> /\ main' = Notified
  BY DEF PostFileError
<1>6. DbInv' /\ DbTypeOK'
  BY <1>5, DbUnchanged
<1> QED
  BY <1>0, <1>3, <1>4, <1>5, <1>6, NotifiedType DEF DataInv, TypeOK, fileVars

\* writeChunk() never writes beyond the announced length.
LEMMA WriteChunkData ==
  ASSUME DbAssumption, DaemonAssumption, DataInv, NEW c \in Clients, WriteChunk(c)
  PROVE  DataInv'
<1>0. TypeOK /\ ClientTypeOK
  BY DEF DataInv, TypeOK
<1>1. Conn(c) \in Conns /\ session[c] \in Sessions /\ source[c] \in FileIds
  BY <1>0, ConnType DEF WriteChunk, Calling, ClientTypeOK
<1>2. Conn(c).outFile + 1 \in 0..EncLen
  BY <1>1 DEF WriteChunk, WriteAccepted, Conns, EncResults, DaemonAssumption, Closed
<1>3. temp' \in [FileIds -> Contents]
  <2>1. [of |-> source[c], len |-> Conn(c).outFile + 1] \in Contents
    BY <1>1, <1>2 DEF Contents
  <2>2. \/ temp' = temp
        \/ temp' = [temp EXCEPT ![Conn(c).originalFileId] =
                      [of |-> source[c], len |-> Conn(c).outFile + 1]]
    BY DEF WriteChunk
  <2> QED
    BY <1>0, <2>1, <2>2 DEF TypeOK
<1>4. m_connections' \in [Sessions -> Conns] /\ m_filesToMove' \in Seq(FilesToMove)
  <2>1. [Conn(c) EXCEPT !.outFile = Conn(c).outFile + 1] \in Conns
    BY <1>1, <1>2 DEF Conns
  <2>2. ~(AsSize(Failed) < Conn(c).encResult.fileLength)
    BY <1>1 DEF AsSize, Conns, EncResults, DaemonAssumption
  <2>3. \/ /\ SetConn(c, [Conn(c) EXCEPT !.outFile = Conn(c).outFile + 1])
           /\ UNCHANGED m_filesToMove
        \/ PrepareNewSession(session[c], Conn(c))
    BY <2>2 DEF WriteChunk
  <2> QED
    BY <1>0, <1>1, <2>1, <2>3, PrepareType, SetConnType DEF TypeOK
<1>5. ClientTypeOK'
  BY <1>0, BecomesIdleType DEF WriteChunk, Answer, Finishes, ClientTypeOK, clientVars
<1>6. main' \in MainStates /\ MainHasFile'
  <2>1. UNCHANGED ftm /\ (main' = Notified \/ UNCHANGED main)
    BY DEF WriteChunk
  <2> QED
    BY <2>1, NotifiedType DEF DataInv, TypeOK, MainHasFile
<1>7. UNCHANGED <<dbVars, ftm, watch, disk>>
  BY DEF WriteChunk
<1>8. DbInv' /\ DbTypeOK'
  BY <1>7, DbUnchanged
<1> QED
  BY <1>0, <1>3, <1>4, <1>5, <1>6, <1>7, <1>8 DEF DataInv, TypeOK

\* abort() resets the row of a real file or none.
LEMMA AbortData ==
  ASSUME DbAssumption, DaemonAssumption, DataInv, NEW c \in Clients, Abort(c)
  PROVE  DataInv'
<1>0. TypeOK
  BY DEF DataInv
<1>1. m_connections' \in [Sessions -> Conns]
  BY <1>0, RecordTypes, SetConnType DEF Abort, TypeOK, FileIds
<1>2. ClientTypeOK'
  BY <1>0, LeavesType DEF Abort
<1>3. DbInv' /\ DbTypeOK'
  <2>1. \/ \E f \in Files : DbReset(f)
        \/ UNCHANGED dbVars
    BY DEF Abort
  <2> QED
    BY <2>1, ResetKeepsDbInv, DbUnchanged DEF DataInv, DbInv
<1>4. UNCHANGED <<m_filesToMove, mainVars, fileVars>>
  BY DEF Abort
<1> QED
  BY <1>0, <1>1, <1>2, <1>3, <1>4 DEF DataInv, TypeOK, MainHasFile, mainVars, fileVars

-----------------------------------------------------------------------------
\* The environment, the listener and the main loop.
LEMMA EnvironmentData ==
  ASSUME DbAssumption, DaemonAssumption, DataInv,
         (\E c \in Clients : Break(c) \/ Die(c)) \/ Restart
  PROVE  DataInv'
<1>0. TypeOK /\ ClientTypeOK
  BY DEF DataInv, TypeOK
<1>1. UNCHANGED dbVars
  BY DEF Break, Die, Restart
<1>2. DbInv' /\ DbTypeOK'
  BY <1>1, DbUnchanged
<1>3. ASSUME NEW c \in Clients, Break(c) PROVE DataInv'
  <2>1. ClientTypeOK'
    BY <1>0, <1>3, DisconnectedType DEF Break
  <2> QED
    BY <1>0, <1>2, <1>3, <2>1 DEF Break, DataInv, TypeOK, MainHasFile, connVars, mainVars, fileVars
<1>4. ASSUME NEW c \in Clients, Die(c) PROVE DataInv'
  <2>1. ClientTypeOK'
    BY <1>0, <1>4, LeavesType DEF Die
  <2> QED
    BY <1>0, <1>2, <1>4, <2>1 DEF Die, DataInv, TypeOK, MainHasFile, connVars, mainVars, fileVars
<1>5. CASE Restart
  <2>1. NoConn \in Conns /\ <<>> \in Seq(FilesToMove)
    BY RecordTypes DEF NoConn, FileIds
  <2>2. /\ m_connections' \in [Sessions -> Conns] /\ m_filesToMove' \in Seq(FilesToMove)
        /\ ftm' \in FilesToMove /\ watch' \in WatchEvents
        /\ main' \in MainStates /\ MainHasFile'
    BY <1>5, <2>1, RecordTypes DEF Restart, MainHasFile, MainStates
  <2>3. ClientTypeOK'
    BY <1>0, <1>5, DisconnectedType DEF Restart
  <2> QED
    BY <1>0, <1>2, <1>5, <2>2, <2>3 DEF Restart, DataInv, TypeOK
<1> QED
  BY <1>3, <1>4, <1>5

\* The listener calls addFile() with a file, or without one, and a path.
LEMMA WatchData ==
  ASSUME DbAssumption, DaemonAssumption, DataInv, WatchStat \/ WatchAdd
  PROVE  DataInv'
<1>0. TypeOK /\ ClientTypeOK
  BY DEF DataInv, TypeOK
<1>1. CASE WatchStat
  <2>1. watch' \in WatchEvents
    <3>1. \A f \in Files : f \in FileIds /\ ArchiveName[f] \in Names /\ NoFile \in FileIds
      BY DEF FileIds, DaemonAssumption
    <3>2. \A src \in FileIds, dst \in Names \cup {NoName}, queue \in BOOLEAN :
             [src |-> src, queue |-> queue, dst |-> dst] \in WatchEvents
      BY DEF WatchEvents
    <3>3. \E src \in FileIds, dst \in Names \cup {NoName}, queue \in BOOLEAN :
             watch' = [src |-> src, queue |-> queue, dst |-> dst]
      BY <1>1, <3>1 DEF WatchStat
    <3> QED
      BY <3>2, <3>3
  <2>2. UNCHANGED <<dbVars, connVars, mainVars, temp, disk, clientVars>>
    BY <1>1 DEF WatchStat
  <2>3. DbInv' /\ DbTypeOK'
    BY <2>2, DbUnchanged
  <2> QED
    BY <1>0, <2>1, <2>2, <2>3 DEF DataInv, TypeOK, ClientTypeOK, MainHasFile, connVars, mainVars, clientVars
<1>2. CASE WatchAdd
  <2> DEFINE size == IF watch.src = NoFile THEN 0 ELSE FileLen[watch.src]
  <2>1. /\ watch.src \in Files \cup {NoFile} /\ watch.dst \in Names \cup {NoName}
        /\ watch.queue \in BOOLEAN /\ size \in Sizes
    BY <1>0 DEF TypeOK, WatchEvents, FileIds, DaemonAssumption
  <2>2. DbInv' /\ DbTypeOK'
    <3>1. DbInv /\ DbAddFile(watch.src, size, watch.dst, watch.queue)
      BY <1>2 DEF WatchAdd, DataInv
    <3> HIDE DEF size
    <3>2. DbInv'
      BY <2>1, <3>1, AddFileKeepsDbInv
    <3> QED
      BY <3>2 DEF DbInv
  <2>3. watch' \in WatchEvents
    BY <1>2, RecordTypes DEF WatchAdd
  <2>4. UNCHANGED <<connVars, mainVars, temp, disk, clientVars>>
    BY <1>2 DEF WatchAdd
  <2> QED
    BY <1>0, <2>2, <2>3, <2>4 DEF DataInv, TypeOK, ClientTypeOK, MainHasFile, connVars, mainVars, clientVars
<1> QED
  BY <1>1, <1>2

\* The main loop takes an entry only if it is of a real file.
LEMMA MainLoopData ==
  ASSUME DbAssumption, DaemonAssumption, DataInv, MainLoop \/ MainWake \/ SpuriousWakeup
  PROVE  DataInv'
<1>0. TypeOK /\ ClientTypeOK
  BY DEF DataInv, TypeOK
<1>1. UNCHANGED <<dbVars, m_connections, fileVars, clientVars>>
  BY DEF MainLoop, MainWake, SpuriousWakeup, connVars
<1>2. DbInv' /\ DbTypeOK'
  BY <1>1, DbUnchanged
<1>3. m_filesToMove # <<>> => /\ Head(m_filesToMove) \in FilesToMove
                              /\ Tail(m_filesToMove) \in Seq(FilesToMove)
  BY <1>0, HeadTailProperties DEF TypeOK
<1>4. /\ m_filesToMove' \in Seq(FilesToMove) /\ ftm' \in FilesToMove
      /\ main' \in MainStates /\ MainHasFile'
  <2>1. CASE MainLoop
    BY <1>0, <1>3, <2>1 DEF MainLoop, DataInv, TypeOK, MainHasFile, MainStates, FilesToMove, FileIds
  <2>2. CASE MainWake \/ SpuriousWakeup
    BY <1>0, <2>2 DEF MainWake, SpuriousWakeup, TypeOK, MainHasFile, MainStates, connVars
  <2> QED
    BY <2>1, <2>2
<1> QED
  BY <1>0, <1>1, <1>2, <1>4 DEF DataInv, TypeOK, ClientTypeOK, fileVars, clientVars

\* moveFile() replaces the content of an archive by content.
LEMMA MainMoveData ==
  ASSUME DbAssumption, DaemonAssumption, DataInv, MainMove
  PROVE  DataInv'
<1>0. TypeOK /\ ClientTypeOK
  BY DEF DataInv, TypeOK
<1>1. UNCHANGED <<dbVars, connVars, ftm, watch, clientVars>>
  BY DEF MainMove
<1>2. DbInv' /\ DbTypeOK'
  BY <1>1, DbUnchanged
<1>3. main' \in MainStates /\ MainHasFile'
  <2>1. ftm' = ftm /\ main = "move" /\ main' \in {"recordOk", "recordError"}
    BY DEF MainMove
  <2>2. ftm.originalFileId \in Files
    BY <2>1 DEF MainHasFile, DataInv
  <2> QED
    BY <2>1, <2>2 DEF MainStates, MainHasFile
<1>4. /\ ftm.originalFileId \in FileIds /\ ftm.originalFileName \in FileIds
      /\ temp[ftm.originalFileId] \in Contents
  BY <1>0 DEF TypeOK, FilesToMove
<1>5. temp' \in [FileIds -> Contents]
  <2>1. temp' = temp \/ temp' = [temp EXCEPT ![ftm.originalFileId] = NoContent]
    BY DEF MainMove
  <2> QED
    BY <1>0, <2>1, RecordTypes DEF TypeOK
<1>6. disk' \in [Names -> Contents]
  <2>1. \A k \in 0..EncLen : [of |-> temp[ftm.originalFileId].of, len |-> k] \in Contents
    BY <1>4 DEF Contents
  <2>2. disk' = disk \/ \E n \in Names, x \in Contents : disk' = [disk EXCEPT ![n] = x]
    BY <1>4, <2>1 DEF MainMove, DaemonAssumption
  <2> QED
    BY <1>0, <2>2 DEF TypeOK
<1> QED
  BY <1>0, <1>1, <1>2, <1>3, <1>5, <1>6 DEF DataInv, TypeOK, ClientTypeOK, connVars, clientVars

\* The result of a real file reaches the database.
LEMMA MainRecordData ==
  ASSUME DbAssumption, DaemonAssumption, DataInv, MainRecordFailure \/ MainRecord
  PROVE  DataInv'
<1>0. TypeOK /\ ClientTypeOK
  BY DEF DataInv, TypeOK
<1>1. /\ ftm.originalFileId \in Files
      /\ ftm.encResult.result \in Results
      /\ ArchiveName[ftm.originalFileName] \in Names
  BY <1>0 DEF DataInv, TypeOK, MainHasFile, MainRecordFailure, MainRecord, FilesToMove,
     EncResults, DaemonAssumption
<1>2. DbInv' /\ DbTypeOK'
  <2>1. \E r \in Results, len \in Nat \cup {ftm.encResult.fileLength} :
          DbAddEncodedFile(ftm.originalFileId, r, len, ArchiveName[ftm.originalFileName])
    BY <1>1 DEF MainRecordFailure, MainRecord, DbAssumption
  <2> QED
    BY <1>1, <2>1, AddEncodedFileKeepsDbInv DEF DataInv, DbInv
<1>3. ftm' \in FilesToMove /\ main' \in MainStates /\ MainHasFile'
  BY RecordTypes DEF MainRecordFailure, MainRecord, MainHasFile, MainStates
<1>4. UNCHANGED <<connVars, fileVars, clientVars>>
  BY DEF MainRecordFailure, MainRecord
<1> QED
  BY <1>0, <1>2, <1>3, <1>4 DEF DataInv, TypeOK, ClientTypeOK, connVars, fileVars, clientVars

\* A stuttering step keeps the invariant.
LEMMA StutterData ==
  ASSUME DataInv, UNCHANGED vars
  PROVE  DataInv'
<1>1. DbInv' /\ DbTypeOK'
  BY DbUnchanged DEF vars
<1> QED
  BY <1>1 DEF DataInv, TypeOK, ClientTypeOK, MainHasFile, vars, connVars, mainVars, fileVars, clientVars

\* Every step keeps the invariant: one fact per handler.
LEMMA NextData ==
  ASSUME DbAssumption, DaemonAssumption, DataInv, [Next]_vars
  PROVE  DataInv'
<1>1. ASSUME NEW c \in Clients, ClientStep(c) PROVE DataInv'
  BY <1>1, AuthenticateData, AuthenticateFailsData, GetNextFileNoneData, GetNextFileData, ReadChunkData, ResetData, LostData,
     EncodeData, PostFileData, PostFileErrorData, WriteChunkData DEF ClientStep
<1>2. ASSUME NEW c \in Clients, LostCall(c) \/ Abort(c) \/ Break(c) \/ Die(c) PROVE DataInv'
  BY <1>2, LostData, AbortData, EnvironmentData
<1>3. CASE MainStep \/ SpuriousWakeup
  BY <1>3, MainLoopData, MainMoveData, MainRecordData DEF MainStep
<1>4. CASE Restart \/ WatchStat \/ WatchAdd
  BY <1>4, EnvironmentData, WatchData
<1>5. CASE UNCHANGED vars
  BY <1>5, StutterData
<1> QED
  BY <1>1, <1>2, <1>3, <1>4, <1>5 DEF Next

\* The variables of the daemon keep their types, whatever fails.
THEOREM DaemonTypeCorrect ==
  ASSUME DbAssumption, DaemonAssumption
  PROVE  Spec => []TypeOK
<1>1. Init => DataInv
  BY InitData
<1>2. DataInv /\ [Next]_vars => DataInv'
  BY NextData
<1>3. DataInv => TypeOK
  BY DEF DataInv
<1> QED
  BY <1>1, <1>2, <1>3, PTL DEF Spec

\* Whatever fails and however often clients retry, break off or abort, no
\* file is handed out more than RetryLimit times plus once per reset().
THEOREM DaemonRetryBudget ==
  ASSUME DbAssumption, DaemonAssumption
  PROVE  Spec => []RetryBudget
<1>1. Init => DataInv
  BY InitData
<1>2. DataInv /\ [Next]_vars => DataInv'
  BY NextData
<1>3. DataInv => RetryBudget
  BY DEF DataInv, DbInv
<1> QED
  BY <1>1, <1>2, <1>3, PTL DEF Spec

-----------------------------------------------------------------------------
\* Every file has at most one holder, and a held file is not handed out
\* again, as long as an uninitialised originalFileId is never that of a file
\* a client already has: the daemon is not started again while clients work,
\* or the uninitialised id happens to be 0.

\* The inductive invariant, next to DataInv.
HolderInv == OneHolder /\ HeldIsReserved /\ HoldersTied

\* The daemon is not started again, or an uninitialised id happens to be 0.
IdsHarmless == "restart" \notin Events \/ Garbage = {NoFile}

\* A client in these phases has no file.
Resting == {"idle", "gone"}

\* A connection that keeps its token, and its file or gives it up.
Kept(s) ==
  \/ m_connections'[s] = m_connections[s]
  \/ /\ m_connections'[s].token = m_connections[s].token
     /\ m_connections'[s].originalFileId = m_connections'[s].originalFileName
     /\ m_connections'[s].originalFileName \in {m_connections[s].originalFileName, NoFile}

-----------------------------------------------------------------------------
\* Who is a client, and which connection is whose.
LEMMA TokensKept ==
  ASSUME DaemonAssumption, DataInv, HolderInv, ClientTypeOK',
         \A s \in Sessions : m_connections'[s].token = m_connections[s].token,
         \A c \in Clients : session'[c] \in {session[c], NoSession, StaleSession},
         \A c \in Clients : phase'[c] \in Resting \/ phase[c] \notin Resting
                            \/ session[c] \in Sessions
  PROVE  TokensUnique' /\ SessionsOwned' /\ BusyHasConnection'
<1>1. TokensUnique /\ SessionsOwned /\ BusyHasConnection /\ ClientTypeOK
  BY DEF HolderInv, HoldersTied, DataInv, TypeOK
<1>2. TokensUnique'
  BY <1>1 DEF TokensUnique
<1>3. SessionsOwned'
  <2>1. ASSUME NEW c \in Clients, session'[c] \in Sessions PROVE session'[c] = session[c]
    BY <2>1 DEF DaemonAssumption
  <2> QED
    BY <1>1, <2>1 DEF SessionsOwned, Conn
<1>4. BusyHasConnection'
  BY <1>1 DEF BusyHasConnection, SessionsOwned, ClientTypeOK, Conn, Resting
<1> QED
  BY <1>2, <1>3, <1>4

\* Ids stay those that were stored while no client leaves "idle".
LEMMA IdsKept ==
  ASSUME HolderInv,
         NEW s \in Sessions, Kept(s),
         \A c \in Clients : phase[c] \in Resting => phase'[c] \in Resting
  PROVE  IdStored(m_connections[s])'
BY DEF HolderInv, HoldersTied, IdsStored, IdStored, Kept, Resting

\* Files that are given up leave at most one holder.
LEMMA HoldersShrink ==
  ASSUME DbAssumption, HolderInv,
         \A s \in Sessions : m_connections'[s].originalFileName
                               \in {m_connections[s].originalFileName, NoFile},
         m_filesToMove' = m_filesToMove \/ m_filesToMove' = <<>>,
         ftm'.originalFileId \in {ftm.originalFileId, NoFile}
  PROVE  OneHolder' /\ \A f \in Files : Held(f)' => Held(f)
<1>1. NoFile \notin Files /\ OneHolder
  BY DEF DbAssumption, HolderInv
<1>2. \A f \in Files : /\ \A s \in Sessions : HeldBySession(s, f)' => HeldBySession(s, f)
                       /\ HeldByMain(f)' => HeldByMain(f)
  BY <1>1 DEF HeldBySession, HeldByMain
<1>3. \A i \in 1..Len(m_filesToMove') :
        i \in 1..Len(m_filesToMove) /\ \A f \in Files : Queued(i, f)' => Queued(i, f)
  BY DEF Queued
<1>4. OneHolder'
  BY <1>1, <1>2, <1>3 DEF OneHolder
<1>5. \A f \in Files : Held(f)' => Held(f)
  BY <1>2, <1>3 DEF Held
<1> QED
  BY <1>4, <1>5

\* The steps in which holders at most give up files, nothing enters the queue
\* and the main loop does not take or finish a file.
LEMMA QuietStep ==
  ASSUME DbAssumption, DaemonAssumption, DataInv, HolderInv, DataInv',
         UNCHANGED <<m_filesToMove, ftm>>, main' = main \/ main' = Notified,
         \A s \in Sessions : Kept(s),
         \A c \in Clients : session'[c] \in {session[c], NoSession, StaleSession},
         \A c \in Clients : phase[c] \in Resting => phase'[c] \in Resting,
         \A f \in Files : \/ status'[f] \in {status[f], Started, OK}
                          \/ ~Held(f)'
  PROVE  HolderInv'
<1>1. OneHolder' /\ \A f \in Files : Held(f)' => Held(f)
  <2>1. \A s \in Sessions : m_connections'[s].originalFileName
                              \in {m_connections[s].originalFileName, NoFile}
    BY DEF Kept
  <2> QED
    BY <2>1, HoldersShrink
<1>2. HeldIsReserved'
  BY <1>1 DEF HolderInv, HeldIsReserved
<1>3. TokensUnique' /\ SessionsOwned' /\ BusyHasConnection'
  BY TokensKept DEF Kept, DataInv, TypeOK
<1>4. IdsStored'
  <2>1. \A s \in Sessions : IdStored(m_connections[s])'
    BY IdsKept
  <2>2. main' \notin {"move", "recordOk", "recordError"} =>
          main \notin {"move", "recordOk", "recordError"}
    BY DEF Notified
  <2> QED
    BY <2>1, <2>2 DEF HolderInv, HoldersTied, IdsStored
<1> QED
  BY <1>1, <1>2, <1>3, <1>4 DEF HolderInv, HoldersTied

-----------------------------------------------------------------------------
\* At the start nobody holds a file.
LEMMA InitHolder ==
  ASSUME DbAssumption, DaemonAssumption, Init
  PROVE  HolderInv
<1>1. \A f \in Files : ~Held(f)
  BY DEF Init, Held, HeldBySession, Queued, HeldByMain, NoConn, Cleared, NoFileToMove,
     DbAssumption
<1>2. OneHolder /\ HeldIsReserved
  BY <1>1 DEF OneHolder, HeldIsReserved, Held
<1>3. TokensUnique /\ SessionsOwned /\ BusyHasConnection
  BY DEF Init, NoConn, Cleared, TokensUnique, SessionsOwned, BusyHasConnection
<1>4. IdsStored
  BY DEF Init, NoConn, Cleared, NoFileToMove, IdsStored, IdStored
<1> QED
  BY <1>2, <1>3, <1>4 DEF HolderInv, HoldersTied

\* A client with a session finds a connection of its own there, and its id is
\* that of its file unless it has none and is at rest.
LEMMA OwnConn ==
  ASSUME DataInv, HolderInv, NEW c \in Clients, session[c] \in Sessions
  PROVE  /\ Conn(c) \in Conns
         /\ Conn(c).token = c
         /\ IdStored(Conn(c))
BY ConnType DEF DataInv, HolderInv, HoldersTied, SessionsOwned, IdsStored, Conn, TypeOK,
   ClientTypeOK

\* SetConn() touches the caller's connection only.
LEMMA SetConnKept ==
  ASSUME DataInv, HolderInv, NEW c \in Clients, session[c] \in Sessions, NEW cli,
         SetConn(c, cli),
         \/ cli = Conn(c)
         \/ /\ cli.token = c /\ cli.originalFileId = cli.originalFileName
            /\ cli.originalFileName \in {Conn(c).originalFileName, NoFile}
  PROVE  \A s \in Sessions : Kept(s)
<1>1. session[c] \in Sessions /\ Conn(c).token = c
  BY OwnConn
<1>2. m_connections \in [Sessions -> Conns]
  BY DEF DataInv, TypeOK
<1>3. \A s \in Sessions : m_connections'[s] = IF s = session[c] THEN cli ELSE m_connections[s]
  BY <1>2 DEF SetConn
<1> QED
  BY <1>1, <1>3 DEF Kept, Conn

-----------------------------------------------------------------------------
\* Handlers that keep the file or give it up.
LEMMA ReadHolder ==
  ASSUME DbAssumption, DaemonAssumption, DataInv, HolderInv, DataInv', NEW c \in Clients,
         ReadChunk(c) \/ Reset(c) \/ TransferError(c)
  PROVE  HolderInv'
<1>1. /\ UNCHANGED <<m_filesToMove, ftm, main, status>>
      /\ \A d \in Clients : session'[d] \in {session[d], NoSession, StaleSession}
      /\ \A d \in Clients : phase[d] \in Resting => phase'[d] \in Resting
  <2>1. CASE ReadChunk(c)
    BY <2>1 DEF ReadChunk, Answer, Calling, DataInv, TypeOK, ClientTypeOK, clientVars,
       mainVars, dbVars, Resting
  <2>2. CASE Reset(c)
    BY <2>2 DEF Reset, Leaves, DataInv, TypeOK, ClientTypeOK, mainVars, dbVars, Resting
  <2>3. CASE TransferError(c)
    BY <2>3 DEF TransferError, connVars, mainVars, dbVars
  <2> QED
    BY <2>1, <2>2, <2>3
<1>2. CASE UNCHANGED m_connections
  BY <1>1, <1>2, QuietStep DEF Kept
<1>3. CASE ~UNCHANGED m_connections
  <2>1. session[c] \in Sessions
    BY <1>3 DEF ReadChunk, Reset, TransferError, Calling, connVars
  <2>2. /\ Conn(c) \in Conns /\ Conn(c).token = c /\ IdStored(Conn(c))
    BY <2>1, OwnConn
  <2>3. \/ SetConn(c, Conn(c))
        \/ Conn(c).inFile # Closed /\ SetConn(c, [Conn(c) EXCEPT !.inFile = Conn(c).inFile + 1])
        \/ Conn(c).inFile # Closed /\ SetConn(c, [Conn(c) EXCEPT !.inFile = 0])
        \/ Conn(c).outFile # Closed /\ SetConn(c, [Conn(c) EXCEPT !.outFile = 0])
    BY <1>3 DEF ReadChunk, ReadAccepted, Reset, TransferError, connVars
  <2>4. PICK cli : /\ SetConn(c, cli)
                   /\ \/ cli = Conn(c)
                      \/ /\ cli.token = c /\ cli.originalFileId = cli.originalFileName
                         /\ cli.originalFileName = Conn(c).originalFileName
    BY <2>2, <2>3 DEF IdStored, Conns
  <2>5. \A s \in Sessions : Kept(s)
    BY <2>1, <2>4, SetConnKept
  <2> QED
    BY <1>1, <2>5, QuietStep
<1> QED
  BY <1>2, <1>3

\* An error answer clears the connection; the file it reserved has status
\* Started and no holder.
LEMMA NoFileHolder ==
  ASSUME DbAssumption, DaemonAssumption, DataInv, HolderInv, DataInv', NEW c \in Clients,
         GetNextFileNone(c) \/ \E f \in Files : GetNextFileFails(c, f)
  PROVE  HolderInv'
<1>1. session[c] \in Sessions /\ SetConn(c, Cleared(c, NoFile))
  BY DEF GetNextFileNone, GetNextFileFails, Calling
<1>2. \A s \in Sessions : Kept(s)
  BY <1>1, SetConnKept DEF Cleared
<1>3. /\ UNCHANGED <<m_filesToMove, ftm, main>>
      /\ \A d \in Clients : session'[d] \in {session[d], NoSession, StaleSession}
      /\ \A d \in Clients : phase[d] \in Resting => phase'[d] \in Resting
  BY DEF GetNextFileNone, GetNextFileFails, Answer, clientVars, mainVars, DataInv, TypeOK,
     ClientTypeOK
<1>4. \A f \in Files : status'[f] \in {status[f], Started, OK}
  BY DEF GetNextFileNone, GetNextFileFails, DbGetNextFile, dbVars, DataInv, DbInv, DbTypeOK
<1> QED
  BY <1>2, <1>3, <1>4, QuietStep

\* A client that posts a file is not at rest, so its id is that of its file.
LEMMA PostFileHolder ==
  ASSUME DbAssumption, DaemonAssumption, DataInv, HolderInv, DataInv', NEW c \in Clients, PostFile(c)
  PROVE  HolderInv'
<1> DEFINE cli == [Conn(c) EXCEPT !.inFile = Closed, !.encResult = result[c]]
<1>1. session[c] \in Sessions /\ phase[c] = "sending"
  BY DEF PostFile, PostAccepted, Calling
<1>2. /\ Conn(c) \in Conns /\ Conn(c).token = c
      /\ Conn(c).originalFileId = Conn(c).originalFileName
  BY <1>1, OwnConn DEF IdStored
<1>3. \A new \in {cli, [cli EXCEPT !.outFile = 0]} :
        /\ new.token = c /\ new.originalFileId = new.originalFileName
        /\ new.originalFileName = Conn(c).originalFileName
  BY <1>2 DEF Conns
<1>4. SetConn(c, cli) \/ SetConn(c, [cli EXCEPT !.outFile = 0])
  BY DEF PostFile
<1> HIDE DEF cli
<1>5. \A s \in Sessions : Kept(s)
  BY <1>1, <1>3, <1>4, SetConnKept
<1>6. /\ UNCHANGED <<m_filesToMove, ftm, main, status>>
      /\ \A d \in Clients : session'[d] \in {session[d], NoSession, StaleSession}
      /\ \A d \in Clients : phase[d] \in Resting => phase'[d] \in Resting
  BY <1>1 DEF PostFile, Answer, clientVars, mainVars, dbVars, DataInv, TypeOK, ClientTypeOK,
     Resting
<1> QED
  BY <1>5, <1>6, QuietStep

\* abort() puts back the file whose id is that of the connection's file, and
\* clears the connection: nobody else holds the file.
LEMMA AbortHolder ==
  ASSUME DbAssumption, DaemonAssumption, DataInv, HolderInv, DataInv', NEW c \in Clients, Abort(c)
  PROVE  HolderInv'
<1>1. session[c] \in Sessions /\ UNCHANGED <<m_filesToMove, ftm, main>>
  BY DEF Abort, mainVars
<1>2. /\ \A d \in Clients : session'[d] \in {session[d], NoSession, StaleSession}
      /\ \A d \in Clients : phase[d] \in Resting => phase'[d] \in Resting
  BY DEF Abort, Leaves, DataInv, TypeOK, ClientTypeOK, Resting
<1>3. CASE UNCHANGED <<dbVars, m_connections>>
  BY <1>1, <1>2, <1>3, QuietStep DEF Kept, dbVars
<1>4. CASE ~UNCHANGED <<dbVars, m_connections>>
  <2>1. /\ SetConn(c, Cleared(c, NoFile))
        /\ \/ Conn(c).originalFileId \in Files /\ DbReset(Conn(c).originalFileId)
           \/ UNCHANGED dbVars
        /\ Conn(c).inFile # Closed \/ Conn(c).outFile # Closed
    BY <1>4 DEF Abort
  <2>2. /\ session[c] \in Sessions
        /\ Conn(c).originalFileId = Conn(c).originalFileName
    BY <1>1, <2>1, OwnConn DEF IdStored
  <2>3. \A s \in Sessions : Kept(s)
    BY <1>1, <2>1, SetConnKept DEF Cleared
  <2>4. \A s \in Sessions :
          m_connections'[s] = IF s = session[c] THEN Cleared(c, NoFile) ELSE m_connections[s]
    BY <2>1 DEF SetConn, DataInv, TypeOK
  <2>5. ASSUME NEW f \in Files, status'[f] # status[f] PROVE ~Held(f)'
    <3>1. f = Conn(c).originalFileId
      BY <2>1, <2>5 DEF DbReset, dbVars, DataInv, DbInv, DbTypeOK
    <3>2. HeldBySession(session[c], f)
      BY <2>2, <3>1 DEF HeldBySession, Conn
    <3>3. /\ \A s \in Sessions : HeldBySession(s, f) => s = session[c]
          /\ \A i \in 1..Len(m_filesToMove) : ~Queued(i, f)
          /\ ~HeldByMain(f)
      BY <2>2, <3>2 DEF HolderInv, OneHolder
    <3>4. \A s \in Sessions : ~HeldBySession(s, f)'
      BY <2>4, <3>3 DEF HeldBySession, Cleared, DbAssumption
    <3> QED
      BY <1>1, <3>3, <3>4 DEF Held, Queued, HeldByMain
  <2> QED
    BY <1>1, <1>2, <2>3, <2>5, QuietStep
<1> QED
  BY <1>3, <1>4

\* The encoder, the network, the listener and the waiting main loop.
LEMMA OutsideHolder ==
  ASSUME DbAssumption, DaemonAssumption, DataInv, HolderInv, DataInv',
         \/ \E c \in Clients : \/ AuthenticateFails(c) \/ Encode(c) \/ LostCall(c) \/ SendEmpty(c)
                              \/ Break(c) \/ Die(c)
         \/ WatchStat \/ WatchAdd
  PROVE  HolderInv'
<1>1. UNCHANGED <<m_connections, m_filesToMove, ftm, main>>
  BY DEF AuthenticateFails, Encode, LostCall, SendEmpty, Break, Die, WatchStat, WatchAdd, connVars, mainVars
<1>2. /\ \A d \in Clients : session'[d] \in {session[d], NoSession, StaleSession}
      /\ \A d \in Clients : phase[d] \in Resting => phase'[d] \in Resting
  BY DEF AuthenticateFails, Encode, LostCall, SendEmpty, Calling, Break, Disconnected, Die, Leaves,
     WatchStat, WatchAdd, clientVars, DataInv, TypeOK, ClientTypeOK, Resting
<1>3. ASSUME NEW f \in Files, Held(f)' PROVE status'[f] \in {status[f], Started, OK}
  <2>1. CASE WatchAdd
    <3> DEFINE size == IF watch.src = NoFile THEN 0 ELSE FileLen[watch.src]
    <3>1. /\ watch.src \in Files \cup {NoFile} /\ watch.dst \in Names \cup {NoName}
          /\ watch.queue \in BOOLEAN /\ size \in Sizes
      BY DEF DataInv, TypeOK, WatchEvents, FileIds, DaemonAssumption
    <3>2. DbInv /\ DbAddFile(watch.src, size, watch.dst, watch.queue)
      BY <2>1 DEF WatchAdd, DataInv
    <3> HIDE DEF size
    <3>3. \A g \in Files : status'[g] # status[g] =>
                status'[g] = OK \/ (status[g] = NoRow /\ status'[g] = NotStarted)
      BY <3>1, <3>2, AddFileKeepsDbInv
    <3>4. status'[f] # status[f] => status'[f] = OK \/ status[f] = NoRow
      BY <3>3
    <3>5. Held(f)
      BY <1>1, <1>3 DEF Held, HeldBySession, Queued, HeldByMain
    <3>6. status[f] # NoRow
      BY <3>5 DEF HolderInv, HeldIsReserved, Started, OK, NoRow
    <3> QED
      BY <3>4, <3>6
  <2>2. CASE ~WatchAdd
    BY <2>2 DEF AuthenticateFails, Encode, LostCall, SendEmpty, Break, Die, WatchStat, dbVars
  <2> QED
    BY <2>1, <2>2
<1> QED
  BY <1>1, <1>2, <1>3, QuietStep DEF Kept

\* The main loop keeps its file while it waits or moves it.
LEMMA WaitHolder ==
  ASSUME DbAssumption, DaemonAssumption, DataInv, HolderInv, DataInv',
         MainWake \/ SpuriousWakeup \/ MainMove
  PROVE  HolderInv'
<1>1. UNCHANGED <<m_connections, m_filesToMove, ftm, status, session, phase>>
  BY DEF MainWake, SpuriousWakeup, MainMove, connVars, clientVars, dbVars
<1>2. /\ main' \notin {"move", "recordOk", "recordError"} =>
           main \notin {"move", "recordOk", "recordError"}
  BY DEF MainWake, SpuriousWakeup, MainMove
<1> QED
  BY <1>1, <1>2 DEF HolderInv, OneHolder, HeldIsReserved, Held, HeldBySession, Queued,
     HeldByMain, HoldersTied, TokensUnique, SessionsOwned, BusyHasConnection, IdsStored,
     IdStored, Conn

-----------------------------------------------------------------------------
\* authenticate() moves the only connection of the client, or makes one
\* without a file for a client that is at rest (or whose id is 0).
LEMMA AuthenticateHolder ==
  ASSUME DbAssumption, DaemonAssumption, IdsHarmless, DataInv, HolderInv, DataInv',
         NEW c \in Clients, Authenticate(c)
  PROVE  HolderInv'
<1>0. /\ m_connections \in [Sessions -> Conns] /\ ClientTypeOK
      /\ TokensUnique /\ SessionsOwned /\ BusyHasConnection /\ IdsStored
      /\ NoFile \notin Files /\ NoClient \notin Clients /\ NoSession \notin Sessions
  BY DEF DataInv, TypeOK, HolderInv, HoldersTied, DbAssumption, DaemonAssumption
<1>1. PICK id \in Sessions, cl \in Conns :
        /\ \/ \E s \in Sessions : m_connections[s].token = c /\ cl = m_connections[s]
           \/ /\ \A s \in Sessions : m_connections[s].token # c
              /\ \E g \in Garbage : cl = Cleared(c, g)
        /\ m_connections[id].token = NoClient
        /\ m_connections' = MovedTo(c, id, cl)
        /\ session' = [session EXCEPT ![c] = id] \/ session' = session
        /\ phase' = phase
  <2>1. \A g \in Garbage : Cleared(c, g) \in Conns
    BY RecordTypes DEF DaemonAssumption
  <2> QED
    BY <1>0, <2>1 DEF Authenticate, Answer
<1>2. /\ cl.token = c
      /\ cl.originalFileName # NoFile =>
           \E s \in Sessions : m_connections[s].token = c /\ cl = m_connections[s]
  BY <1>1 DEF Cleared
<1>3. \A s \in Sessions :
        m_connections'[s] = IF s = id THEN cl
                            ELSE IF m_connections[s].token = c THEN NoConn
                            ELSE m_connections[s]
  BY <1>1 DEF MovedTo
<1>4. UNCHANGED <<m_filesToMove, ftm, main, status>>
  BY DEF Authenticate, mainVars, dbVars
<1>5. ASSUME NEW f \in Files, NEW s \in Sessions, HeldBySession(s, f)'
      PROVE  \/ s # id /\ m_connections[s].token # c /\ HeldBySession(s, f)
             \/ s = id /\ \E t \in Sessions : m_connections[t].token = c /\ HeldBySession(t, f)
  BY <1>0, <1>2, <1>3, <1>5 DEF HeldBySession, NoConn, Cleared
<1>6. OneHolder'
  <2>1. ASSUME NEW f \in Files, NEW s \in Sessions, NEW t \in Sessions,
               HeldBySession(s, f)', HeldBySession(t, f)'
        PROVE  s = t
    BY <1>5, <2>1 DEF HolderInv, OneHolder
  <2>2. ASSUME NEW f \in Files, NEW s \in Sessions, HeldBySession(s, f)'
        PROVE  \E t \in Sessions : HeldBySession(t, f)
    BY <1>5, <2>2
  <2>3. \A f \in Files : /\ HeldByMain(f)' = HeldByMain(f)
                         /\ \A i \in 1..Len(m_filesToMove) : Queued(i, f)' = Queued(i, f)
    BY <1>4 DEF HeldByMain, Queued
  <2> QED
    BY <1>4, <2>1, <2>2, <2>3 DEF HolderInv, OneHolder
<1>7. HeldIsReserved'
  BY <1>4, <1>5 DEF HolderInv, HeldIsReserved, Held, HeldByMain, Queued
<1>8. TokensUnique'
  BY <1>0, <1>2, <1>3 DEF TokensUnique, NoConn, Cleared
<1>9. SessionsOwned'
  <2>1. ASSUME NEW d \in Clients, session'[d] \in Sessions, d # c
        PROVE  Conn(d)'.token = d
    <3>1. session'[d] = session[d] /\ session[d] \in Sessions
      BY <1>0, <1>1, <2>1 DEF ClientTypeOK
    <3>2. m_connections[session[d]].token = d
      BY <1>0, <2>1, <3>1 DEF SessionsOwned, Conn
    <3> QED
      BY <1>0, <1>1, <1>3, <2>1, <3>1, <3>2 DEF Conn
  <2>2. session'[c] \in Sessions => Conn(c)'.token = c
    <3>1. session[c] = NoSession
      BY DEF Authenticate
    <3> QED
      BY <1>0, <1>1, <1>2, <1>3, <3>1 DEF Conn, ClientTypeOK
  <2> QED
    BY <2>1, <2>2 DEF SessionsOwned, Conn
<1>10. BusyHasConnection'
  <2>1. ASSUME NEW d \in Clients, NEW s \in Sessions, m_connections[s].token = d
        PROVE  \E t \in Sessions : m_connections'[t].token = d
    BY <1>0, <1>1, <1>2, <1>3, <2>1
  <2> QED
    BY <1>0, <1>1, <2>1 DEF BusyHasConnection
<1>11. IdsStored'
  <2>1. IdStored(cl)'
    <3>1. CASE \E s \in Sessions : m_connections[s].token = c /\ cl = m_connections[s]
      BY <1>0, <1>1, <3>1 DEF IdsStored, IdStored
    <3>2. CASE \A s \in Sessions : m_connections[s].token # c
      <4>1. PICK g \in Garbage : cl = Cleared(c, g)
        BY <1>1, <3>2
      <4>2. Garbage = {NoFile} \/ phase[c] \in {"idle", "gone"}
        BY <1>0, <3>2 DEF IdsHarmless, BusyHasConnection
      <4> QED
        BY <1>1, <4>1, <4>2 DEF IdStored, Cleared
    <3> QED
      BY <1>1, <3>1, <3>2
  <2>2. ASSUME NEW s \in Sessions PROVE IdStored(m_connections[s])'
    <3>1. CASE s = id
      BY <1>3, <2>1, <3>1 DEF IdStored
    <3>2. CASE s # id
      BY <1>0, <1>1, <1>3, <3>2 DEF IdsStored, IdStored, NoConn, Cleared
    <3> QED
      BY <3>1, <3>2
  <2> QED
    BY <1>0, <1>4, <2>2 DEF IdsStored
<1> QED
  BY <1>6, <1>7, <1>8, <1>9, <1>10, <1>11 DEF HolderInv, HoldersTied

\* getNextFile() hands out a file that is neither started nor archived, so
\* nobody holds it.
LEMMA GetNextFileHolder ==
  ASSUME DbAssumption, DaemonAssumption, DataInv, HolderInv, DataInv', NEW c \in Clients, NEW f \in Files,
         GetNextFile(c, f)
  PROVE  HolderInv'
<1>0. /\ m_connections \in [Sessions -> Conns] /\ ClientTypeOK
      /\ status \in [Files -> Results \cup {NoRow, NotStarted, Started}]
      /\ TokensUnique /\ SessionsOwned /\ IdsStored /\ NoFile \notin Files
  BY DEF DataInv, TypeOK, DbTypeOK, HolderInv, HoldersTied, DbAssumption
<1>1. session[c] \in Sessions /\ Conn(c).token = c /\ session[c] \in Sessions
  BY OwnConn DEF GetNextFile, Calling
<1>2. ~Held(f)
  BY DEF HolderInv, HeldIsReserved, GetNextFile, DbGetNextFile, Selectable, Retriable,
     Started, OK, NotStarted, NoRow
<1>3. status' = [status EXCEPT ![f] = Started] /\ UNCHANGED <<m_filesToMove, ftm, main>>
  BY DEF GetNextFile, DbGetNextFile, mainVars
<1> DEFINE new == [Cleared(c, f) EXCEPT !.originalFileName = f, !.inFile = 0]
<1>4. new.token = c /\ new.originalFileId = f /\ new.originalFileName = f
  BY DEF Cleared
<1>5. \A s \in Sessions : m_connections'[s] = IF s = session[c] THEN new ELSE m_connections[s]
  BY <1>0 DEF GetNextFile, SetConn
<1> HIDE DEF new
<1>6. \A g \in Files, s \in Sessions : HeldBySession(s, g)' =>
        IF s = session[c] THEN g = f ELSE HeldBySession(s, g)
  BY <1>4, <1>5 DEF HeldBySession
<1>7. \A g \in Files : /\ HeldByMain(g)' = HeldByMain(g)
                       /\ \A i \in 1..Len(m_filesToMove) : Queued(i, g)' = Queued(i, g)
  BY <1>3 DEF HeldByMain, Queued
<1>8. OneHolder'
  BY <1>2, <1>3, <1>6, <1>7 DEF HolderInv, OneHolder, Held
<1>9. HeldIsReserved'
  <2>1. ASSUME NEW g \in Files, g # f, Held(g)' PROVE Held(g)
    BY <1>3, <1>6, <1>7, <2>1 DEF Held
  <2> QED
    BY <1>0, <1>3, <2>1 DEF HolderInv, HeldIsReserved
<1>10. TokensUnique' /\ SessionsOwned' /\ BusyHasConnection'
  <2>1. \A s \in Sessions : m_connections'[s].token = m_connections[s].token
    BY <1>1, <1>4, <1>5 DEF Conn
  <2>2. /\ session' = session
        /\ \A d \in Clients : phase'[d] = phase[d] \/ d = c
    BY <1>0 DEF GetNextFile, Answer, ClientTypeOK
  <2> QED
    BY <1>1, <2>1, <2>2, TokensKept DEF DataInv, TypeOK
<1>11. IdsStored'
  <2>1. ASSUME NEW s \in Sessions PROVE IdStored(m_connections[s])'
    <3>1. CASE s = session[c]
      BY <1>4, <1>5, <3>1 DEF IdStored
    <3>2. CASE s # session[c]
      <4>1. m_connections[s].token # c
        BY <1>0, <1>1, <3>2 DEF TokensUnique, Conn, GetNextFile, Calling, DaemonAssumption
      <4>2. phase'[m_connections[s].token] = phase[m_connections[s].token]
             \/ m_connections[s].token \notin Clients
        BY <1>0, <4>1 DEF GetNextFile, Answer, ClientTypeOK
      <4> QED
        BY <1>0, <1>5, <3>2, <4>2 DEF IdsStored, IdStored
    <3> QED
      BY <3>1, <3>2
  <2> QED
    BY <1>0, <1>3, <2>1 DEF IdsStored
<1> QED
  BY <1>8, <1>9, <1>10, <1>11 DEF HolderInv, HoldersTied

\* prepareNewSession() hands the caller's file over to the queue.
LEMMA PrepareHolder ==
  ASSUME DbAssumption, DaemonAssumption, DataInv, HolderInv, DataInv', NEW c \in Clients, NEW cli \in Conns,
         session[c] \in Sessions, PrepareNewSession(session[c], cli), cli.token = c,
         cli.originalFileId = Conn(c).originalFileId,
         cli.originalFileName = Conn(c).originalFileName,
         Conn(c).originalFileId = Conn(c).originalFileName,
         main' = Notified, UNCHANGED <<ftm, status>>,
         \A d \in Clients : session'[d] \in {session[d], NoSession, StaleSession},
         \A d \in Clients : phase[d] \in Resting => phase'[d] \in Resting
  PROVE  HolderInv'
<1>0. /\ m_connections \in [Sessions -> Conns] /\ m_filesToMove \in Seq(FilesToMove)
      /\ OneHolder /\ IdsStored /\ NoFile \notin Files
      /\ session[c] \in Sessions /\ Conn(c).token = c
  BY OwnConn DEF DataInv, TypeOK, HolderInv, HoldersTied, DbAssumption
<1>1. PICK n \in Nat : n = Len(m_filesToMove)
  BY <1>0, LenProperties
<1> DEFINE entry == [originalFileId |-> cli.originalFileId,
                     originalFileName |-> cli.originalFileName,
                     encResult |-> cli.encResult]
<1>2. entry.originalFileId = Conn(c).originalFileName /\ entry.originalFileName = entry.originalFileId
  OBVIOUS
<1>3. /\ Len(m_filesToMove') = n + 1
      /\ \A i \in 1..n : m_filesToMove'[i] = m_filesToMove[i]
      /\ m_filesToMove'[n + 1] = entry
  <2>1. entry \in FilesToMove
    BY DEF FilesToMove, Conns
  <2>2. m_filesToMove' = Append(m_filesToMove, entry)
    BY DEF PrepareNewSession
  <2> HIDE DEF entry
  <2> QED
    BY <1>0, <1>1, <2>1, <2>2, AppendProperties
<1> HIDE DEF entry
<1>4. \A s \in Sessions : m_connections'[s] = IF s = session[c] THEN Cleared(c, NoFile)
                                              ELSE m_connections[s]
  BY <1>0 DEF PrepareNewSession
<1>5. \A f \in Files, s \in Sessions :
        HeldBySession(s, f)' => s # session[c] /\ HeldBySession(s, f)
  BY <1>0, <1>4 DEF HeldBySession, Cleared
<1>6. \A f \in Files : /\ \A i \in 1..n : Queued(i, f)' => Queued(i, f)
                       /\ Queued(n + 1, f)' => HeldBySession(session[c], f)
                       /\ HeldByMain(f)' => HeldByMain(f)
  BY <1>1, <1>2, <1>3 DEF Queued, HeldBySession, HeldByMain, Conn
<1>7. \A i \in 1..Len(m_filesToMove') : i \in 1..n \/ i = n + 1
  BY <1>3
<1>8. OneHolder'
  <2> SUFFICES ASSUME NEW f \in Files
               PROVE  /\ \A s, t \in Sessions :
                           HeldBySession(s, f)' /\ HeldBySession(t, f)' => s = t
                      /\ \A i, j \in 1..Len(m_filesToMove') :
                           Queued(i, f)' /\ Queued(j, f)' => i = j
                      /\ \A s \in Sessions, i \in 1..Len(m_filesToMove') :
                           ~(HeldBySession(s, f)' /\ Queued(i, f)')
                      /\ HeldByMain(f)' => /\ \A s \in Sessions : ~HeldBySession(s, f)'
                                           /\ \A i \in 1..Len(m_filesToMove') : ~Queued(i, f)'
    BY DEF OneHolder
  <2>1. \A s, t \in Sessions : HeldBySession(s, f)' /\ HeldBySession(t, f)' => s = t
    BY <1>0, <1>5 DEF OneHolder
  <2>2. \A i, j \in 1..Len(m_filesToMove') : Queued(i, f)' /\ Queued(j, f)' => i = j
    BY <1>0, <1>6, <1>7, <1>1 DEF OneHolder
  <2>3. \A s \in Sessions, i \in 1..Len(m_filesToMove') :
          ~(HeldBySession(s, f)' /\ Queued(i, f)')
    BY <1>0, <1>5, <1>6, <1>7, <1>1 DEF OneHolder
  <2>4. HeldByMain(f)' => /\ \A s \in Sessions : ~HeldBySession(s, f)'
                          /\ \A i \in 1..Len(m_filesToMove') : ~Queued(i, f)'
    BY <1>0, <1>5, <1>6, <1>7, <1>1 DEF OneHolder
  <2> QED
    BY <2>1, <2>2, <2>3, <2>4
<1>9. HeldIsReserved'
  <2>1. ASSUME NEW f \in Files, Held(f)' PROVE Held(f)
    BY <1>0, <1>5, <1>6, <1>7, <1>1, <2>1 DEF Held
  <2> QED
    BY <2>1 DEF HolderInv, HeldIsReserved
<1>10. TokensUnique' /\ SessionsOwned' /\ BusyHasConnection'
  <2>1. \A s \in Sessions : m_connections'[s].token = m_connections[s].token
    BY <1>0, <1>4 DEF Cleared, Conn
  <2> QED
    BY <2>1, TokensKept DEF DataInv, TypeOK
<1>11. IdsStored'
  <2>1. \A s \in Sessions : Kept(s)
    BY <1>0, <1>4 DEF Kept, Cleared, Conn
  <2>2. \A s \in Sessions : IdStored(m_connections[s])'
    BY <2>1, IdsKept
  <2>3. \A i \in 1..Len(m_filesToMove') :
          m_filesToMove'[i].originalFileId = m_filesToMove'[i].originalFileName
    BY <1>0, <1>1, <1>2, <1>3, <1>7 DEF IdsStored
  <2> QED
    BY <1>0, <2>2, <2>3 DEF IdsStored, Notified
<1> QED
  BY <1>8, <1>9, <1>10, <1>11 DEF HolderInv, HoldersTied

\* postFile() of an error hands the file of the connection over.
LEMMA PostFileErrorHolder ==
  ASSUME DbAssumption, DaemonAssumption, DataInv, HolderInv, DataInv', NEW c \in Clients, PostFileError(c)
  PROVE  HolderInv'
<1> DEFINE cli == [Conn(c) EXCEPT !.inFile = Closed, !.encResult = result[c]]
<1>1. session[c] \in Sessions /\ phase[c] = "sending"
  BY DEF PostFileError, PostAccepted, Calling
<1>2. /\ Conn(c) \in Conns /\ Conn(c).token = c
      /\ Conn(c).originalFileId = Conn(c).originalFileName
      /\ result[c] \in EncResults
  BY <1>1, OwnConn DEF IdStored, DataInv, TypeOK, ClientTypeOK
<1>3. /\ cli \in Conns /\ cli.token = c
      /\ cli.originalFileId = Conn(c).originalFileId
      /\ cli.originalFileName = Conn(c).originalFileName
  BY <1>2 DEF Conns
<1>4. PrepareNewSession(session[c], cli) /\ main' = Notified /\ UNCHANGED <<ftm, status>>
  BY DEF PostFileError, dbVars
<1>5. /\ \A d \in Clients : session'[d] \in {session[d], NoSession, StaleSession}
      /\ \A d \in Clients : phase[d] \in Resting => phase'[d] \in Resting
  BY DEF PostFileError, BecomesIdle, Answer, DataInv, TypeOK, ClientTypeOK, Resting
<1> HIDE DEF cli
<1> QED
  BY <1>1, <1>2, <1>3, <1>4, <1>5, PrepareHolder

\* writeChunk() goes on with the upload, or hands the file over.
LEMMA WriteChunkHolder ==
  ASSUME DbAssumption, DaemonAssumption, DataInv, HolderInv, DataInv', NEW c \in Clients,
         WriteChunk(c)
  PROVE  HolderInv'
<1>1. session[c] \in Sessions /\ phase[c] = "transmitting"
  BY DEF WriteChunk, Calling
<1>2. /\ Conn(c) \in Conns /\ Conn(c).token = c
      /\ Conn(c).originalFileId = Conn(c).originalFileName
  BY <1>1, OwnConn DEF IdStored
<1>3. /\ \A d \in Clients : session'[d] \in {session[d], NoSession, StaleSession}
      /\ \A d \in Clients : phase[d] \in Resting => phase'[d] \in Resting
      /\ UNCHANGED <<ftm, status>>
  BY DEF WriteChunk, BecomesIdle, Finishes, Answer, DataInv, TypeOK, ClientTypeOK, Resting, clientVars,
     dbVars
<1>4. CASE PrepareNewSession(session[c], Conn(c)) /\ main' = Notified
  BY <1>1, <1>2, <1>3, <1>4, PrepareHolder
<1>5. CASE /\ \E tellp : SetConn(c, [Conn(c) EXCEPT !.outFile = tellp])
           /\ UNCHANGED <<m_filesToMove, main>>
  <2>1. PICK tellp : SetConn(c, [Conn(c) EXCEPT !.outFile = tellp])
    BY <1>5
  <2> DEFINE new == [Conn(c) EXCEPT !.outFile = tellp]
  <2>2. /\ new.token = c /\ new.originalFileId = new.originalFileName
        /\ new.originalFileName = Conn(c).originalFileName
    BY <1>2 DEF Conns
  <2>3. SetConn(c, new)
    BY <2>1
  <2> HIDE DEF new
  <2>4. \A s \in Sessions : Kept(s)
    BY <1>1, <2>2, <2>3, SetConnKept
  <2> QED
    BY <1>3, <1>5, <2>4, QuietStep
<1> QED
  BY <1>4, <1>5 DEF WriteChunk

-----------------------------------------------------------------------------
\* The main loop takes the file from the head of the queue.
LEMMA MainLoopHolder ==
  ASSUME DbAssumption, DaemonAssumption, DataInv, HolderInv, DataInv', MainLoop
  PROVE  HolderInv'
<1>0. /\ m_filesToMove \in Seq(FilesToMove) /\ OneHolder /\ IdsStored /\ NoFile \notin Files
      /\ ftm = NoFileToMove
  BY DEF DataInv, TypeOK, HolderInv, HoldersTied, IdsStored, DbAssumption, MainLoop
<1>1. UNCHANGED <<m_connections, status, session, phase>>
  BY DEF MainLoop, dbVars, clientVars
<1>2. CASE UNCHANGED <<m_filesToMove, ftm>>
  <2>1. main' \notin {"move", "recordOk", "recordError"} \/ ftm' # NoFileToMove
    BY <1>2 DEF MainLoop, DataInv, TypeOK
  <2> QED
    BY <1>0, <1>1, <1>2 DEF HolderInv, OneHolder, HeldIsReserved, Held, HeldBySession, Queued,
       HeldByMain, HoldersTied, TokensUnique, SessionsOwned, BusyHasConnection, IdsStored,
       IdStored, Conn
<1>3. CASE ~UNCHANGED <<m_filesToMove, ftm>>
  <2>1. PICK n \in Nat : n = Len(m_filesToMove)
    BY <1>0, LenProperties
  <2>2. /\ n >= 1 /\ Len(m_filesToMove') = n - 1
        /\ \A i \in 1..(n - 1) : m_filesToMove'[i] = m_filesToMove[i + 1]
        /\ Head(m_filesToMove) = m_filesToMove[1]
    <3>1. m_filesToMove # <<>> /\ m_filesToMove' = Tail(m_filesToMove)
      BY <1>3 DEF MainLoop
    <3> QED
      BY <1>0, <2>1, <3>1, HeadTailProperties, EmptySeq
  <2>3. \/ ftm' = m_filesToMove[1] /\ main' = "move"
        \/ ftm' = NoFileToMove
    BY <1>0, <1>3, <2>2 DEF MainLoop
  <2>4. \A f \in Files :
          /\ \A s \in Sessions : HeldBySession(s, f)' = HeldBySession(s, f)
          /\ \A i \in 1..(n - 1) : Queued(i, f)' => Queued(i + 1, f)
          /\ HeldByMain(f)' => Queued(1, f)
    BY <1>0, <1>1, <2>2, <2>3 DEF HeldBySession, Queued, HeldByMain, NoFileToMove
  <2>5. \A i \in 1..Len(m_filesToMove') : i \in 1..(n - 1) /\ i + 1 \in 1..n /\ i + 1 # 1
    BY <2>1, <2>2
  <2>6. 1 \in 1..n
    BY <2>1, <2>2
  <2>7. OneHolder'
    <3> SUFFICES ASSUME NEW f \in Files
                 PROVE  /\ \A s, t \in Sessions :
                             HeldBySession(s, f)' /\ HeldBySession(t, f)' => s = t
                        /\ \A i, j \in 1..Len(m_filesToMove') :
                             Queued(i, f)' /\ Queued(j, f)' => i = j
                        /\ \A s \in Sessions, i \in 1..Len(m_filesToMove') :
                             ~(HeldBySession(s, f)' /\ Queued(i, f)')
                        /\ HeldByMain(f)' => /\ \A s \in Sessions : ~HeldBySession(s, f)'
                                             /\ \A i \in 1..Len(m_filesToMove') : ~Queued(i, f)'
      BY DEF OneHolder
    <3>1. \A s, t \in Sessions : HeldBySession(s, f)' /\ HeldBySession(t, f)' => s = t
      BY <1>0, <2>4 DEF OneHolder
    <3>2. ASSUME NEW i \in 1..(n - 1), NEW j \in 1..(n - 1), Queued(i, f)', Queued(j, f)'
          PROVE  i = j
      <4>1. i + 1 \in 1..n /\ j + 1 \in 1..n /\ Queued(i + 1, f) /\ Queued(j + 1, f)
        BY <2>4, <3>2
      <4>2. i + 1 = j + 1
        BY <1>0, <2>1, <4>1 DEF OneHolder
      <4> QED
        BY <4>2
    <3>3. \A s \in Sessions, i \in 1..Len(m_filesToMove') :
            ~(HeldBySession(s, f)' /\ Queued(i, f)')
      BY <1>0, <2>1, <2>4, <2>5 DEF OneHolder
    <3>4. HeldByMain(f)' => /\ \A s \in Sessions : ~HeldBySession(s, f)'
                            /\ \A i \in 1..Len(m_filesToMove') : ~Queued(i, f)'
      BY <1>0, <2>1, <2>4, <2>5, <2>6 DEF OneHolder
    <3> QED
      BY <2>5, <3>1, <3>2, <3>3, <3>4
  <2>8. HeldIsReserved'
    <3>1. ASSUME NEW f \in Files, Held(f)' PROVE Held(f)
      BY <2>1, <2>4, <2>5, <2>6, <3>1 DEF Held
    <3> QED
      BY <1>1, <3>1 DEF HolderInv, HeldIsReserved
  <2>9. IdsStored'
    <3>1. \A i \in 1..Len(m_filesToMove') :
            m_filesToMove'[i].originalFileId = m_filesToMove'[i].originalFileName
      BY <1>0, <2>1, <2>2, <2>5 DEF IdsStored
    <3>2. ftm'.originalFileId = ftm'.originalFileName
      BY <1>0, <2>1, <2>3, <2>6 DEF IdsStored, NoFileToMove
    <3> QED
      BY <1>0, <1>1, <2>3, <3>1, <3>2 DEF IdsStored, IdStored
  <2>10. TokensUnique' /\ SessionsOwned' /\ BusyHasConnection'
    BY <1>1 DEF HolderInv, HoldersTied, TokensUnique, SessionsOwned, BusyHasConnection, Conn
  <2> QED
    BY <2>7, <2>8, <2>9, <2>10 DEF HolderInv, HoldersTied
<1> QED
  BY <1>2, <1>3

\* When the result is recorded, the main loop was the only holder.
LEMMA MainRecordHolder ==
  ASSUME DbAssumption, DaemonAssumption, DataInv, HolderInv, DataInv', MainRecordFailure \/ MainRecord
  PROVE  HolderInv'
<1>0. IdsStored /\ OneHolder /\ NoFile \notin Files
  BY DEF HolderInv, HoldersTied, DbAssumption
<1>1. /\ UNCHANGED <<m_connections, m_filesToMove, session, phase>>
      /\ ftm' = NoFileToMove /\ main' = "loop"
      /\ \A f \in Files : status'[f] # status[f] => HeldByMain(f)
  BY DEF MainRecordFailure, MainRecord, DbAddEncodedFile, connVars, clientVars, HeldByMain,
     DataInv, DbInv, DbTypeOK
<1>2. OneHolder' /\ \A f \in Files : Held(f)' => Held(f)
  BY <1>1, HoldersShrink DEF NoFileToMove
<1>3. ASSUME NEW f \in Files, Held(f)' PROVE ~HeldByMain(f)
  <2>1. \/ \E s \in Sessions : HeldBySession(s, f)
        \/ \E i \in 1..Len(m_filesToMove) : Queued(i, f)
    BY <1>0, <1>1, <1>3 DEF Held, HeldBySession, Queued, HeldByMain, NoFileToMove
  <2> QED
    BY <1>0, <2>1 DEF OneHolder
<1>4. HeldIsReserved'
  BY <1>1, <1>2, <1>3 DEF HolderInv, HeldIsReserved
<1>5. TokensUnique' /\ SessionsOwned' /\ BusyHasConnection' /\ IdsStored'
  BY <1>0, <1>1 DEF HolderInv, HoldersTied, TokensUnique, SessionsOwned, BusyHasConnection,
     Conn, IdsStored, IdStored, NoFileToMove
<1> QED
  BY <1>2, <1>4, <1>5 DEF HolderInv, HoldersTied

\* Nobody holds a file after a restart.
LEMMA RestartHolder ==
  ASSUME DbAssumption, DaemonAssumption, DataInv, HolderInv, DataInv', Restart
  PROVE  HolderInv'
<1>1. \A f \in Files : ~Held(f)'
  BY DEF Restart, Held, HeldBySession, Queued, HeldByMain, NoConn, Cleared, NoFileToMove,
     DbAssumption
<1>2. OneHolder' /\ HeldIsReserved'
  BY <1>1 DEF OneHolder, HeldIsReserved, Held
<1>3. TokensUnique' /\ BusyHasConnection'
  BY DEF Restart, NoConn, Cleared, TokensUnique, BusyHasConnection
<1>4. SessionsOwned'
  <2>1. \A c \in Clients : session'[c] \notin Sessions
    BY DEF Restart, Disconnected, DaemonAssumption
  <2> QED
    BY <2>1 DEF SessionsOwned
<1>5. IdsStored'
  BY DEF Restart, NoConn, Cleared, NoFileToMove, IdsStored, IdStored
<1> QED
  BY <1>2, <1>3, <1>4, <1>5 DEF HolderInv, HoldersTied

\* A stuttering step keeps the invariant.
LEMMA StutterHolder ==
  ASSUME HolderInv, UNCHANGED vars
  PROVE  HolderInv'
BY DEF HolderInv, OneHolder, HeldIsReserved, Held, HeldBySession, Queued, HeldByMain,
   HoldersTied, TokensUnique, SessionsOwned, BusyHasConnection, IdsStored, IdStored, Conn,
   vars, dbVars, connVars, mainVars, clientVars

\* Every step keeps the invariant, given that of the data.
LEMMA NextHolder ==
  ASSUME DbAssumption, DaemonAssumption, IdsHarmless, DataInv, HolderInv, [Next]_vars
  PROVE  HolderInv'
<1>0. DataInv'
  BY NextData
<1>1. ASSUME NEW c \in Clients, ClientStep(c) PROVE HolderInv'
  BY <1>0, <1>1, AuthenticateHolder, NoFileHolder, GetNextFileHolder, ReadHolder,
     OutsideHolder, PostFileHolder, PostFileErrorHolder, WriteChunkHolder DEF ClientStep
<1>2. ASSUME NEW c \in Clients, LostCall(c) \/ Abort(c) \/ Break(c) \/ Die(c) PROVE HolderInv'
  BY <1>0, <1>2, AbortHolder, OutsideHolder
<1>3. CASE MainStep \/ SpuriousWakeup
  BY <1>0, <1>3, MainLoopHolder, WaitHolder, MainRecordHolder DEF MainStep
<1>4. CASE Restart \/ WatchStat \/ WatchAdd
  BY <1>0, <1>4, OutsideHolder, RestartHolder
<1>5. CASE UNCHANGED vars
  BY <1>5, StutterHolder
<1> QED
  BY <1>1, <1>2, <1>3, <1>4, <1>5 DEF Next

\* A file is in at most one place on its way from getNextFile() to the record
\* of its result.
THEOREM DaemonOneHolder ==
  ASSUME DbAssumption, DaemonAssumption, IdsHarmless
  PROVE  Spec => []OneHolder
<1>1. Init => DataInv /\ HolderInv
  BY InitData, InitHolder
<1>2. DataInv /\ HolderInv /\ [Next]_vars => (DataInv /\ HolderInv)'
  BY NextData, NextHolder
<1>3. HolderInv => OneHolder
  BY DEF HolderInv
<1> QED
  BY <1>1, <1>2, <1>3, PTL DEF Spec

\* While it is, the database does not hand it out again.
THEOREM DaemonHeldIsReserved ==
  ASSUME DbAssumption, DaemonAssumption, IdsHarmless
  PROVE  Spec => []HeldIsReserved
<1>1. Init => DataInv /\ HolderInv
  BY InitData, InitHolder
<1>2. DataInv /\ HolderInv /\ [Next]_vars => (DataInv /\ HolderInv)'
  BY NextData, NextHolder
<1>3. HolderInv => HeldIsReserved
  BY DEF HolderInv
<1> QED
  BY <1>1, <1>2, <1>3, PTL DEF Spec
\* Authenticated clients have tokens and connections of their own, a client
\* that works on a file still has its connection, and the id the daemon stored
\* with a file is that file's.
THEOREM DaemonHoldersTied ==
  ASSUME DbAssumption, DaemonAssumption, IdsHarmless
  PROVE  Spec => []HoldersTied
<1>1. Init => DataInv /\ HolderInv
  BY InitData, InitHolder
<1>2. DataInv /\ HolderInv /\ [Next]_vars => (DataInv /\ HolderInv)'
  BY NextData, NextHolder
<1>3. HolderInv => HoldersTied
  BY DEF HolderInv
<1> QED
  BY <1>1, <1>2, <1>3, PTL DEF Spec
=============================================================================
