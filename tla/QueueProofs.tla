----------------------------- MODULE QueueProofs -----------------------------
(***************************************************************************)
(* The daemon is a queue of jobs (module JobQueue), for every set of files *)
(* and clients; a reserved file is worked on or blocked in a known way, a  *)
(* finished one is final, an accepted upload is whole, and an archive is   *)
(* that of its file.  Each theorem names the failures under which it       *)
(* holds.                                                                  *)
(***************************************************************************)
EXTENDS DaemonProofs

\* A source or an upload is open.
HasStream(cli) == cli.inFile # Closed \/ cli.outFile # Closed

\* Client c has ended, or may still post a result for which no temporary file
\* could be opened.
MayPostAgain(c) == \/ phase[c] = "gone"
                   \/ phase[c] = "sending" /\ session[c] # NoSession

\* A connection that has a file has a stream open, or its client is in such a
\* state.
StreamsTied ==
  \A s \in Sessions :
    LET cli == m_connections[s] IN
    cli.originalFileName # NoFile /\ ~HasStream(cli) =>
      cli.token \in Clients /\ MayPostAgain(cli.token)

\* An absent connection has no file.
FreeIsEmpty ==
  \A s \in Sessions : m_connections[s].token = NoClient => m_connections[s] = NoConn

\* All results on their way to the database are in R.
ResultsIn(R) ==
  /\ \A c \in Clients : result[c] \in R
  /\ \A s \in Sessions : m_connections[s].encResult \in R
  /\ \A i \in 1..Len(m_filesToMove) : m_filesToMove[i].encResult \in R
  /\ ftm.encResult \in R

\* A source has its own archive or none, and the listener brings the two
\* together.
ArchivesOwn ==
  /\ \A f \in Files : archives[f] \in {NoName, ArchiveName[f]}
  /\ watch.src # NoFile => watch.dst \in {NoName, ArchiveName[watch.src]}

-----------------------------------------------------------------------------
\* SetConn() replaces the connection of the caller.
LEMMA SetConnAt ==
  ASSUME DataInv, NEW c \in Clients, NEW cli, SetConn(c, cli)
  PROVE  \A s \in Sessions :
           m_connections'[s] = IF s = session[c] THEN cli ELSE m_connections[s]
BY DEF DataInv, TypeOK, SetConn

\* The connection of a client with a session is the only one of its token.
LEMMA OnlyConn ==
  ASSUME DataInv, HolderInv, NEW c \in Clients, session[c] \in Sessions, DaemonAssumption
  PROVE  \A s \in Sessions : m_connections[s].token = c <=> s = session[c]
BY DEF HolderInv, HoldersTied, TokensUnique, SessionsOwned, Conn, DaemonAssumption

\* prepareNewSession() appends an entry.
LEMMA Appended ==
  ASSUME DataInv, NEW s \in Sessions, NEW cli \in Conns, PrepareNewSession(s, cli)
  PROVE  \E n \in Nat, entry \in FilesToMove :
           /\ n = Len(m_filesToMove) /\ Len(m_filesToMove') = n + 1
           /\ \A i \in 1..n : m_filesToMove'[i] = m_filesToMove[i]
           /\ m_filesToMove'[n + 1] = entry
           /\ entry.originalFileId = cli.originalFileId
           /\ entry.originalFileName = cli.originalFileName
           /\ entry.encResult = cli.encResult
           /\ \A t \in Sessions : m_connections'[t] = IF t = s THEN Cleared(cli.token, NoFile)
                                                      ELSE m_connections[t]
<1>0. m_filesToMove \in Seq(FilesToMove) /\ m_connections \in [Sessions -> Conns]
  BY DEF DataInv, TypeOK
<1> DEFINE entry == [originalFileId |-> cli.originalFileId,
                     originalFileName |-> cli.originalFileName,
                     encResult |-> cli.encResult]
<1>1. PICK n \in Nat : n = Len(m_filesToMove)
  BY <1>0, LenProperties
<1>2. entry \in FilesToMove
  BY DEF FilesToMove, Conns
<1>3. m_filesToMove' = Append(m_filesToMove, entry)
  BY DEF PrepareNewSession
<1>4. /\ entry.originalFileId = cli.originalFileId
      /\ entry.originalFileName = cli.originalFileName
      /\ entry.encResult = cli.encResult
  OBVIOUS
<1>5. \A t \in Sessions : m_connections'[t] = IF t = s THEN Cleared(cli.token, NoFile)
                                              ELSE m_connections[t]
  BY <1>0 DEF PrepareNewSession
<1> HIDE DEF entry
<1>6. /\ Len(m_filesToMove') = n + 1
      /\ \A i \in 1..n : m_filesToMove'[i] = m_filesToMove[i]
      /\ m_filesToMove'[n + 1] = entry
  BY <1>0, <1>1, <1>2, <1>3, AppendProperties
<1> QED
  BY <1>1, <1>2, <1>4, <1>5, <1>6

\* The main loop takes the entry at the head.
LEMMA HeadTaken ==
  ASSUME DataInv, m_filesToMove # <<>>
  PROVE  \E n \in Nat :
           /\ n >= 1 /\ n = Len(m_filesToMove) /\ Len(Tail(m_filesToMove)) = n - 1
           /\ \A i \in 1..(n - 1) : Tail(m_filesToMove)[i] = m_filesToMove[i + 1]
           /\ Head(m_filesToMove) = m_filesToMove[1]
<1>1. m_filesToMove \in Seq(FilesToMove)
  BY DEF DataInv, TypeOK
<1>2. PICK n \in Nat : n = Len(m_filesToMove)
  BY <1>1, LenProperties
<1> QED
  BY <1>1, <1>2, HeadTailProperties, EmptySeq

-----------------------------------------------------------------------------
\* Results are made by the encoder; every other step passes them on or drops
\* them.
LEMMA NextResults ==
  ASSUME DbAssumption, DaemonAssumption, DataInv, NEW R, NoResult \in R, ResultsIn(R),
         [Next]_vars, \A c \in Clients : Encode(c) => result'[c] \in R
  PROVE  ResultsIn(R)'
<1>0. /\ m_connections \in [Sessions -> Conns] /\ ClientTypeOK
      /\ \A t, id : Cleared(t, id).encResult \in R
      /\ NoConn.encResult \in R /\ NoFileToMove.encResult \in R
  BY DEF DataInv, TypeOK, Cleared, NoConn, NoFileToMove
<1>1. ASSUME NEW c \in Clients, ClientStep(c) \/ Abort(c) \/ LostCall(c) \/ Break(c) \/ Die(c)
      PROVE  \A d \in Clients : result'[d] \in R
  <2>1. CASE Authenticate(c) \/ GetNextFileNone(c)
    BY <2>1 DEF Authenticate, GetNextFileNone, Answer, ResultsIn
  <2>2. CASE AuthenticateFails(c) \/ TransferError(c) \/ SendEmpty(c)
    BY <2>2 DEF AuthenticateFails, TransferError, SendEmpty, ResultsIn
  <2>7. ASSUME NEW f \in Files, GetNextFile(c, f) \/ GetNextFileFails(c, f)
        PROVE  \A d \in Clients : result'[d] \in R
    BY <2>7 DEF GetNextFile, GetNextFileFails, Answer, clientVars, ResultsIn
  <2>3. CASE ReadChunk(c) \/ PostFile(c)
    BY <2>3 DEF ReadChunk, PostFile, Answer, clientVars, ResultsIn
  <2>4. CASE Reset(c) \/ Abort(c) \/ LostCall(c) \/ Break(c) \/ Die(c)
    BY <1>0, <2>4 DEF Reset, Abort, LostCall, Break, Disconnected, Die, Leaves, ResultsIn,
       ClientTypeOK
  <2>5. CASE Encode(c)
    BY <1>0, <2>5 DEF Encode, ResultsIn, ClientTypeOK
  <2>6. CASE PostFileError(c) \/ WriteChunk(c)
    BY <1>0, <2>6 DEF PostFileError, WriteChunk, Answer, BecomesIdle, Finishes, clientVars,
       ResultsIn,
       ClientTypeOK
  <2> QED
    BY <1>1, <2>1, <2>2, <2>3, <2>4, <2>5, <2>6, <2>7 DEF ClientStep
<1>2. ASSUME NEW c \in Clients, PostFileError(c) \/ WriteChunk(c)
      PROVE  ResultsIn(R)'
  <2>1. session[c] \in Sessions /\ Conn(c) \in Conns /\ UNCHANGED ftm
    BY <1>2, ConnType DEF PostFileError, PostAccepted, WriteChunk, Calling, DataInv
  <2>2. CASE \E cli \in Conns : cli.encResult \in R /\ PrepareNewSession(session[c], cli)
    <3>1. PICK cli \in Conns : cli.encResult \in R /\ PrepareNewSession(session[c], cli)
      BY <2>2
    <3>2. PICK n \in Nat, entry \in FilesToMove :
            /\ n = Len(m_filesToMove) /\ Len(m_filesToMove') = n + 1
            /\ \A i \in 1..n : m_filesToMove'[i] = m_filesToMove[i]
            /\ m_filesToMove'[n + 1] = entry
            /\ entry.encResult = cli.encResult
            /\ \A t \in Sessions : m_connections'[t] = IF t = session[c]
                                    THEN Cleared(cli.token, NoFile) ELSE m_connections[t]
      BY <2>1, <3>1, Appended
    <3>3. \A d \in Clients : result'[d] \in R
      BY <1>1, <1>2 DEF ClientStep
    <3>4. \A i \in 1..Len(m_filesToMove') : m_filesToMove'[i].encResult \in R
      <4>1. \A i \in 1..Len(m_filesToMove') : i \in 1..n \/ i = n + 1
        BY <3>2
      <4> QED
        BY <3>1, <3>2, <4>1 DEF ResultsIn
    <3>5. \A t \in Sessions : m_connections'[t].encResult \in R
      BY <1>0, <3>2 DEF ResultsIn
    <3> QED
      BY <2>1, <3>3, <3>4, <3>5 DEF ResultsIn
  <2>3. CASE UNCHANGED m_filesToMove /\ \E tellp : SetConn(c, [Conn(c) EXCEPT !.outFile = tellp])
    BY <1>0, <1>1, <1>2, <2>1, <2>3 DEF ResultsIn, ClientStep, SetConn, Conns, Conn
  <2>4. CASE PostFileError(c)
    <3> DEFINE cli == [Conn(c) EXCEPT !.inFile = Closed, !.encResult = result[c]]
    <3>1. cli \in Conns /\ cli.encResult \in R /\ PrepareNewSession(session[c], cli)
      BY <1>0, <2>1, <2>4 DEF PostFileError, Conns, ClientTypeOK, ResultsIn
    <3> QED
      BY <2>2, <3>1
  <2>5. CASE WriteChunk(c)
    <3>1. Conn(c).encResult \in R
      BY <2>1 DEF Conn, ResultsIn
    <3> QED
      BY <2>1, <2>2, <2>3, <2>5, <3>1 DEF WriteChunk
  <2> QED
    BY <1>2, <2>4, <2>5
<1>3. ASSUME NEW c \in Clients, ClientStep(c) \/ Abort(c), ~PostFileError(c), ~WriteChunk(c)
      PROVE  /\ UNCHANGED <<m_filesToMove, ftm>>
             /\ \A s \in Sessions : m_connections'[s].encResult \in R
  <2>1. \A cli : SetConn(c, cli) /\ cli.encResult \in R
                   => \A s \in Sessions : m_connections'[s].encResult \in R
    BY SetConnAt DEF ResultsIn
  <2>2. session[c] \in Sessions => Conn(c) \in Conns /\ Conn(c).encResult \in R
    BY ConnType DEF DataInv, Conn, ResultsIn
  <2>3. CASE Authenticate(c)
    BY <1>0, <2>3 DEF Authenticate, MovedTo, mainVars, ResultsIn
  <2>4. CASE AuthenticateFails(c) \/ TransferError(c) \/ SendEmpty(c) \/ Encode(c)
    BY <2>4 DEF AuthenticateFails, TransferError, SendEmpty, Encode, connVars, mainVars, ResultsIn
  <2>5. CASE GetNextFileNone(c) \/ \E f \in Files : GetNextFileFails(c, f)
    BY <1>0, <2>1, <2>5 DEF GetNextFileNone, GetNextFileFails, mainVars
  <2>6. ASSUME NEW f \in Files, GetNextFile(c, f)
        PROVE  /\ UNCHANGED <<m_filesToMove, ftm>>
               /\ \A s \in Sessions : m_connections'[s].encResult \in R
    BY <1>0, <2>1, <2>6 DEF GetNextFile, mainVars, Cleared
  <2>7. CASE ReadChunk(c)
    BY <2>1, <2>2, <2>7 DEF ReadChunk, Calling, mainVars, Conns, ResultsIn
  <2>8. CASE Reset(c)
    BY <2>1, <2>2, <2>8 DEF Reset, mainVars, Conns
  <2>9. CASE PostFile(c)
    <3>1. session[c] \in Sessions /\ result[c] \in R
      BY <2>9 DEF PostFile, PostAccepted, Calling, ResultsIn
    <3> DEFINE cli == [Conn(c) EXCEPT !.inFile = Closed, !.encResult = result[c]]
    <3>2. cli.encResult \in R /\ [cli EXCEPT !.outFile = 0].encResult \in R
      BY <2>2, <3>1 DEF Conns
    <3>3. SetConn(c, cli) \/ SetConn(c, [cli EXCEPT !.outFile = 0])
      BY <2>9 DEF PostFile
    <3> HIDE DEF cli
    <3>4. UNCHANGED <<m_filesToMove, ftm>>
      BY <2>9 DEF PostFile, mainVars
    <3> QED
      BY <2>1, <3>2, <3>3, <3>4
  <2>10. CASE Abort(c)
    BY <1>0, <2>1, <2>10 DEF Abort, mainVars, ResultsIn
  <2> QED
    BY <1>3, <2>3, <2>4, <2>5, <2>6, <2>7, <2>8, <2>9, <2>10 DEF ClientStep
<1>4. CASE MainLoop
  <2>1. UNCHANGED <<m_connections, result>>
    BY <1>4 DEF MainLoop, clientVars
  <2>2. CASE UNCHANGED <<m_filesToMove, ftm>>
    BY <2>1, <2>2 DEF ResultsIn
  <2>3. CASE m_filesToMove # <<>> /\ m_filesToMove' = Tail(m_filesToMove)
    <3>1. PICK n \in Nat :
            /\ n >= 1 /\ n = Len(m_filesToMove) /\ Len(m_filesToMove') = n - 1
            /\ \A i \in 1..(n - 1) : m_filesToMove'[i] = m_filesToMove[i + 1]
            /\ Head(m_filesToMove) = m_filesToMove[1]
      BY <2>3, HeadTaken
    <3>2. ftm' = ftm \/ ftm' = m_filesToMove[1]
      BY <1>4, <3>1 DEF MainLoop
    <3> QED
      BY <2>1, <3>1, <3>2 DEF ResultsIn
  <2> QED
    BY <1>4, <2>2, <2>3 DEF MainLoop
<1>5. ASSUME UNCHANGED <<m_connections, m_filesToMove, result>>,
             UNCHANGED ftm \/ ftm' = NoFileToMove
      PROVE  ResultsIn(R)'
  BY <1>0, <1>5 DEF ResultsIn
<1>6. CASE MainWake \/ MainRecordFailure \/ MainMove \/ MainRecord \/ SpuriousWakeup
           \/ WatchStat \/ WatchAdd
  BY <1>5, <1>6 DEF MainWake, MainRecordFailure, MainMove, MainRecord, SpuriousWakeup,
     WatchStat, WatchAdd, connVars, mainVars, clientVars
<1>7. CASE Restart
  BY <1>0, <1>7 DEF Restart, Disconnected, ResultsIn
<1>8. CASE UNCHANGED vars
  BY <1>5, <1>8 DEF vars, connVars, mainVars, clientVars
<1>9. ASSUME NEW c \in Clients, LostCall(c) \/ Break(c) \/ Die(c) PROVE ResultsIn(R)'
  BY <1>1, <1>9 DEF LostCall, Break, Die, connVars, mainVars, ResultsIn
<1>10. ASSUME NEW c \in Clients, ClientStep(c) \/ Abort(c), ~PostFileError(c), ~WriteChunk(c)
       PROVE  ResultsIn(R)'
  BY <1>1, <1>3, <1>10 DEF ResultsIn
<1> QED
  BY <1>2, <1>4, <1>6, <1>7, <1>8, <1>9, <1>10 DEF Next, MainStep

-----------------------------------------------------------------------------
\* What handlers make of a connection: absent, or of a client and with a
\* stream open if it has a file.
WellTied(cli) ==
  \/ cli = NoConn
  \/ cli.token \in Clients /\ (cli.originalFileName = NoFile \/ HasStream(cli))

\* Connections that stay as they are keep tied if their clients do.
LEMMA StreamsStep ==
  ASSUME DaemonAssumption, StreamsTied, FreeIsEmpty,
         \A s \in Sessions :
           \/ WellTied(m_connections'[s])
           \/ \E d \in Clients :
                /\ m_connections'[s].token = d /\ MayPostAgain(d)'
           \/ /\ m_connections'[s] = m_connections[s]
              /\ \A d \in Clients : m_connections[s].token = d /\ MayPostAgain(d)
                                      => MayPostAgain(d)'
  PROVE  StreamsTied' /\ FreeIsEmpty'
<1>1. \A s \in Sessions :
        m_connections'[s].originalFileName # NoFile /\ ~HasStream(m_connections'[s]) =>
          \E d \in Clients : m_connections'[s].token = d /\ MayPostAgain(d)'
  BY DEF StreamsTied, WellTied, NoConn, Cleared
<1>2. StreamsTied'
  BY <1>1 DEF StreamsTied, MayPostAgain, HasStream
<1>3. FreeIsEmpty'
  BY DEF FreeIsEmpty, WellTied, DaemonAssumption
<1> QED
  BY <1>2, <1>3

\* The handlers that change the caller's connection only.
LEMMA HandlerStreams ==
  ASSUME DbAssumption, DaemonAssumption, DataInv, HolderInv, StreamsTied, FreeIsEmpty,
         NEW c \in Clients, session[c] \in Sessions, NEW cli, SetConn(c, cli),
         WellTied(cli) \/ \E d \in Clients : cli.token = d /\ MayPostAgain(d)',
         \A d \in Clients : d # c /\ MayPostAgain(d) => MayPostAgain(d)'
  PROVE  StreamsTied' /\ FreeIsEmpty'
<1>1. \A s \in Sessions :
        m_connections'[s] = IF s = session[c] THEN cli ELSE m_connections[s]
  BY SetConnAt
<1>2. \A s \in Sessions : m_connections[s].token = c <=> s = session[c]
  BY OnlyConn
<1> QED
  BY <1>1, <1>2, StreamsStep

\* A client changes its own state only.
LEMMA OthersKept ==
  ASSUME DataInv, NEW c \in Clients, ClientStep(c) \/ Abort(c) \/ LostCall(c) \/ Break(c) \/ Die(c)
  PROVE  \A d \in Clients : d # c => /\ session'[d] = session[d] /\ phase'[d] = phase[d]
                                     /\ source'[d] = source[d] /\ result'[d] = result[d]
<1>0. ClientTypeOK
  BY DEF DataInv, TypeOK
<1>1. CASE Authenticate(c) \/ AuthenticateFails(c) \/ GetNextFileNone(c)
  BY <1>0, <1>1 DEF Authenticate, AuthenticateFails, GetNextFileNone, Answer, ClientTypeOK
<1>2. ASSUME NEW f \in Files, GetNextFile(c, f) \/ GetNextFileFails(c, f)
      PROVE  \A d \in Clients : d # c => /\ session'[d] = session[d] /\ phase'[d] = phase[d]
                                         /\ source'[d] = source[d] /\ result'[d] = result[d]
  BY <1>0, <1>2 DEF GetNextFile, GetNextFileFails, Answer, clientVars, ClientTypeOK
<1>3. CASE ReadChunk(c) \/ TransferError(c) \/ SendEmpty(c) \/ PostFile(c)
  BY <1>0, <1>3 DEF ReadChunk, TransferError, SendEmpty, PostFile, Answer, clientVars, ClientTypeOK
<1>4. CASE Encode(c) \/ PostFileError(c) \/ WriteChunk(c)
  BY <1>0, <1>4 DEF Encode, PostFileError, WriteChunk, BecomesIdle, Finishes, Answer, clientVars,
     ClientTypeOK
<1>5. CASE Reset(c) \/ Abort(c) \/ LostCall(c) \/ Break(c) \/ Die(c)
  BY <1>0, <1>5 DEF Reset, Abort, LostCall, Break, Die, Disconnected, Leaves, ClientTypeOK
<1> QED
  BY <1>1, <1>2, <1>3, <1>4, <1>5 DEF ClientStep

\* A client that may post again goes on so, unless it posts.
LEMMA PostsAgain ==
  ASSUME DaemonAssumption, DataInv, NEW c \in Clients,
         \/ ClientStep(c) /\ ~PostFile(c) /\ ~PostFileError(c)
         \/ Abort(c) \/ LostCall(c) \/ Break(c) \/ Die(c),
         MayPostAgain(c)
  PROVE  MayPostAgain(c)'
<1>0. ClientTypeOK /\ NoSession # StaleSession
  BY DEF DataInv, TypeOK, DaemonAssumption
<1>1. CASE Authenticate(c) \/ AuthenticateFails(c) \/ GetNextFileNone(c)
  BY <1>0, <1>1 DEF Authenticate, AuthenticateFails, GetNextFileNone, Answer, Calling,
     MayPostAgain
<1>2. ~\E f \in Files : GetNextFile(c, f) \/ GetNextFileFails(c, f)
  BY DEF GetNextFile, GetNextFileFails, Calling, MayPostAgain
<1>3. ~ReadChunk(c) /\ ~Encode(c) /\ ~WriteChunk(c)
  BY DEF ReadChunk, Encode, WriteChunk, Calling, MayPostAgain
<1>4. CASE TransferError(c) \/ SendEmpty(c)
  BY <1>4 DEF TransferError, SendEmpty, MayPostAgain
<1>5. CASE Reset(c) \/ Abort(c) \/ LostCall(c) \/ Die(c)
  <2>1. CASE Leaves(c)
    <3>1. phase'[c] = "gone"
      BY <1>0, <2>1 DEF Leaves, ClientTypeOK
    <3> QED
      BY <3>1 DEF MayPostAgain
  <2>2. CASE UNCHANGED <<session, phase>>
    BY <2>2 DEF MayPostAgain
  <2> QED
    BY <1>5, <2>1, <2>2 DEF Reset, Abort, LostCall, Die, Calling, MayPostAgain
<1>6. CASE Break(c)
  <2>1. phase'[c] = phase[c] /\ session'[c] = StaleSession
    BY <1>0, <1>6 DEF Break, Disconnected, MayPostAgain
  <2> QED
    BY <1>0, <2>1 DEF MayPostAgain
<1> QED
  BY <1>1, <1>2, <1>3, <1>4, <1>5, <1>6 DEF ClientStep

\* A connection with a file has a stream open, or its client may post again.
LEMMA NextStreams ==
  ASSUME DbAssumption, DaemonAssumption, DataInv, HolderInv, StreamsTied, FreeIsEmpty,
         [Next]_vars
  PROVE  StreamsTied' /\ FreeIsEmpty'
<1>0. /\ m_connections \in [Sessions -> Conns] /\ ClientTypeOK
      /\ NoClient \notin Clients /\ NoSession \notin Sessions
      /\ \A c \in Clients : WellTied(Cleared(c, NoFile))
  BY DEF DataInv, TypeOK, DaemonAssumption, WellTied, Cleared
<1>1. ASSUME NEW c \in Clients, ClientStep(c) \/ Abort(c)
      PROVE  StreamsTied' /\ FreeIsEmpty'
  <2>1. \A d \in Clients : d # c /\ MayPostAgain(d) => MayPostAgain(d)'
    BY <1>1, OthersKept DEF MayPostAgain
  <2>2. CASE Authenticate(c)
    <3>1. PICK id \in Sessions, cl \in Conns :
            /\ \/ \E s \in Sessions : m_connections[s].token = c /\ cl = m_connections[s]
               \/ \E g \in Garbage : cl = Cleared(c, g)
            /\ m_connections' = MovedTo(c, id, cl)
      <4>1. \A g \in Garbage : Cleared(c, g) \in Conns
        BY RecordTypes DEF DaemonAssumption
      <4> QED
        BY <1>0, <2>2, <4>1 DEF Authenticate
    <3>2. ~MayPostAgain(c)
      BY <2>2 DEF Authenticate, MayPostAgain
    <3>3. WellTied(cl)
      BY <3>1, <3>2 DEF WellTied, Cleared, StreamsTied
    <3> QED
      BY <1>0, <2>1, <3>1, <3>2, <3>3, StreamsStep DEF MovedTo, WellTied
  <2>3. CASE UNCHANGED m_connections /\ ~PostFile(c) /\ ~PostFileError(c)
    <3>1. MayPostAgain(c) => MayPostAgain(c)'
      BY <1>1, <2>3, PostsAgain DEF Abort
    <3> QED
      BY <2>1, <2>3, <3>1, StreamsStep
  <2>4. CASE GetNextFileNone(c) \/ \E f \in Files : GetNextFileFails(c, f)
    BY <1>0, <2>1, <2>4, HandlerStreams DEF GetNextFileNone, GetNextFileFails, Calling
  <2>5. ASSUME NEW f \in Files, GetNextFile(c, f) PROVE StreamsTied' /\ FreeIsEmpty'
    <3> DEFINE cli == [Cleared(c, f) EXCEPT !.originalFileName = f, !.inFile = 0]
    <3>1. WellTied(cli)
      BY DEF WellTied, Cleared, HasStream, Closed
    <3> QED
      BY <2>1, <2>5, <3>1, HandlerStreams DEF GetNextFile, Calling
  <2>6. ASSUME session[c] \in Sessions
        PROVE  /\ Conn(c) \in Conns /\ Conn(c).token = c
               /\ Conn(c).inFile # Closed => WellTied([Conn(c) EXCEPT !.inFile = @ + 1])
               /\ Conn(c).inFile # Closed => WellTied([Conn(c) EXCEPT !.inFile = 0])
               /\ WellTied([Conn(c) EXCEPT !.outFile = 0])
    <3>1. Conn(c) \in Conns /\ Conn(c).token = c
      BY <2>6, OwnConn
    <3> QED
      BY <3>1 DEF WellTied, Conns, HasStream, Closed
  <2>7. CASE ReadChunk(c) /\ ~UNCHANGED m_connections
    <3>1. session[c] \in Sessions /\ Conn(c).inFile # Closed
          /\ SetConn(c, [Conn(c) EXCEPT !.inFile = @ + 1])
      BY <2>7 DEF ReadChunk, ReadAccepted, Calling
    <3> QED
      BY <2>1, <2>6, <3>1, HandlerStreams
  <2>8. CASE Reset(c) /\ ~UNCHANGED m_connections
    <3>1. /\ session[c] \in Sessions
          /\ \/ Conn(c).inFile # Closed /\ SetConn(c, [Conn(c) EXCEPT !.inFile = 0])
             \/ SetConn(c, [Conn(c) EXCEPT !.outFile = 0])
      BY <1>0, <2>8 DEF Reset, SetConn, Conn
    <3> QED
      BY <2>1, <2>6, <3>1, HandlerStreams
  <2>9. CASE PostFile(c)
    <3> DEFINE cli == [Conn(c) EXCEPT !.inFile = Closed, !.encResult = result[c]]
    <3>1. session[c] \in Sessions /\ phase[c] = "sending"
      BY <2>9 DEF PostFile, PostAccepted, Calling
    <3>2. cli.token = c /\ WellTied([cli EXCEPT !.outFile = 0])
      BY <2>6, <3>1 DEF WellTied, Conns, HasStream, Closed
    <3>3. \/ SetConn(c, [cli EXCEPT !.outFile = 0])
          \/ SetConn(c, cli) /\ UNCHANGED clientVars
      BY <2>9 DEF PostFile
    <3> HIDE DEF cli
    <3>4. MayPostAgain(c) /\ (UNCHANGED clientVars => MayPostAgain(c)')
      BY <1>0, <3>1 DEF MayPostAgain, clientVars
    <3> QED
      BY <2>1, <3>1, <3>2, <3>3, <3>4, HandlerStreams
  <2>10. ASSUME NEW cli, session[c] \in Sessions, PrepareNewSession(session[c], cli),
                cli.token = c
         PROVE  StreamsTied' /\ FreeIsEmpty'
    BY <1>0, <2>1, <2>10, HandlerStreams DEF PrepareNewSession, SetConn
  <2>11. CASE PostFileError(c)
    <3> DEFINE cli == [Conn(c) EXCEPT !.inFile = Closed, !.encResult = result[c]]
    <3>1. session[c] \in Sessions /\ PrepareNewSession(session[c], cli)
      BY <2>11 DEF PostFileError, PostAccepted, Calling
    <3>2. cli.token = c
      BY <2>6, <3>1 DEF Conns
    <3> QED
      BY <2>10, <3>1, <3>2
  <2>12. CASE WriteChunk(c)
    <3>1. session[c] \in Sessions /\ Conn(c).outFile # Closed
      BY <2>12 DEF WriteChunk, WriteAccepted, Calling
    <3>2. Conn(c) \in Conns /\ Conn(c).token = c
      BY <2>6, <3>1
    <3>3. CASE PrepareNewSession(session[c], Conn(c))
      BY <2>10, <3>1, <3>2, <3>3
    <3>4. ASSUME NEW tellp \in {Conn(c).outFile + 1, Failed},
                 SetConn(c, [Conn(c) EXCEPT !.outFile = tellp])
          PROVE  StreamsTied' /\ FreeIsEmpty'
      <4>1. WellTied([Conn(c) EXCEPT !.outFile = tellp])
        BY <3>1, <3>2, <3>4 DEF WellTied, Conns, HasStream, Closed, Failed
      <4> QED
        BY <2>1, <3>1, <3>4, <4>1, HandlerStreams
    <3> QED
      BY <2>12, <3>3, <3>4 DEF WriteChunk
  <2>13. CASE Abort(c) /\ ~UNCHANGED m_connections
    <3>1. session[c] \in Sessions /\ SetConn(c, Cleared(c, NoFile))
      BY <2>13 DEF Abort
    <3> QED
      BY <1>0, <2>1, <3>1, HandlerStreams
  <2>14. AuthenticateFails(c) \/ TransferError(c) \/ SendEmpty(c) \/ Encode(c) =>
           UNCHANGED m_connections
    BY DEF AuthenticateFails, TransferError, SendEmpty, Encode, connVars
  <2> QED
    BY <1>1, <2>2, <2>3, <2>4, <2>5, <2>7, <2>8, <2>9, <2>11, <2>12, <2>13, <2>14 DEF ClientStep
<1>2. ASSUME NEW c \in Clients, LostCall(c) \/ Break(c) \/ Die(c) PROVE StreamsTied' /\ FreeIsEmpty'
  <2>1. UNCHANGED m_connections
    BY <1>2 DEF LostCall, Break, Die, connVars
  <2>2. \A d \in Clients : MayPostAgain(d) => MayPostAgain(d)'
    BY <1>2, OthersKept, PostsAgain DEF MayPostAgain
  <2> QED
    BY <2>1, <2>2, StreamsStep
<1>3. CASE Restart
  BY <1>3, StreamsStep DEF Restart, WellTied
<1>4. CASE MainStep \/ SpuriousWakeup \/ WatchStat \/ WatchAdd \/ UNCHANGED vars
  <2>1. UNCHANGED <<m_connections, session, phase>>
    BY <1>4 DEF MainStep, MainLoop, MainWake, MainRecordFailure, MainMove, MainRecord,
       SpuriousWakeup, WatchStat, WatchAdd, connVars, clientVars, vars
  <2> QED
    BY <2>1, StreamsStep DEF MayPostAgain
<1> QED
  BY <1>1, <1>2, <1>3, <1>4 DEF Next

-----------------------------------------------------------------------------
\* What addFile() may do to a row: enqueue the source, or mark the owner of the
\* archive as archived and give it the archive.
LEMMA AddFileRows ==
  ASSUME DbAssumption, DbInv, NEW src \in FileIds, NEW size, NEW dst \in Names \cup {NoName},
         NEW queue, DbAddFile(src, size, dst, queue)
  PROVE  \A f \in Files :
           /\ \/ archives'[f] = archives[f]
              \/ /\ f = src /\ dst # NoName
                 /\ archives[f] = NoName /\ archives'[f] = dst
           /\ \/ status'[f] = status[f]
              \/ /\ f = src /\ dst = NoName
                 /\ status[f] = NoRow /\ status'[f] = NotStarted
              \/ /\ f = src \/ archives[f] = dst
                 /\ dst # NoName /\ status'[f] = OK
<1>0. DbTypeOK
  BY DEF DbInv
<1> DEFINE queued == IF Enqueues(src, dst, queue)
                     THEN [status EXCEPT ![src] = IF dst = NoName THEN NotStarted ELSE OK]
                     ELSE status
<1>1. /\ queued \in [Files -> Results \cup {NoRow, NotStarted, Started}]
      /\ \A f \in Files :
           \/ queued[f] = status[f]
           \/ /\ f = src /\ status[f] = NoRow
              /\ queued[f] = IF dst = NoName THEN NotStarted ELSE OK
  BY <1>0 DEF Enqueues, DbTypeOK, FileIds, DbAssumption
<1> HIDE DEF queued
<1>2. CASE status' = queued /\ UNCHANGED archives
  BY <1>1, <1>2
<1>3. ASSUME NEW g \in Owners(src, dst), dst # NoName, status' = [queued EXCEPT ![g] = OK],
             archives' = IF archives[g] # NoName THEN archives ELSE [archives EXCEPT ![g] = dst]
      PROVE  \A f \in Files :
               /\ \/ archives'[f] = archives[f]
                  \/ /\ f = src /\ dst # NoName
                     /\ archives[f] = NoName /\ archives'[f] = dst
               /\ \/ status'[f] = status[f]
                  \/ /\ f = src /\ dst = NoName
                     /\ status[f] = NoRow /\ status'[f] = NotStarted
                  \/ /\ f = src \/ archives[f] = dst
                     /\ dst # NoName /\ status'[f] = OK
  <2>1. g \in Files /\ (archives[g] = dst \/ g = src)
    BY <1>3 DEF Owners, FileIds
  <2> QED
    BY <1>0, <1>1, <1>3, <2>1 DEF DbTypeOK
<1> QED
  BY <1>2, <1>3 DEF DbAddFile, queued

\* A source has its own archive or none.
LEMMA NextArchivesOwn ==
  ASSUME DbAssumption, DaemonAssumption, DataInv, HolderInv, ArchivesOwn, [Next]_vars
  PROVE  ArchivesOwn'
<1>0. /\ DbInv /\ DbTypeOK /\ watch \in WatchEvents
      /\ archives \in [Files -> Names \cup {NoName}]
      /\ NoFile \notin Files
  BY DEF DataInv, TypeOK, DbTypeOK, DbAssumption
<1>1. CASE UNCHANGED <<archives, watch>>
  BY <1>1 DEF ArchivesOwn
<1>2. CASE Restart
  BY <1>2 DEF Restart, dbVars, ArchivesOwn, NoEvent
<1>3. CASE WatchStat
  BY <1>0, <1>3 DEF WatchStat, dbVars, ArchivesOwn
<1>4. CASE WatchAdd
  <2>1. \A f \in Files : archives'[f] = archives[f] \/ (f = watch.src /\ archives'[f] = watch.dst)
    BY <1>0, <1>4, AddFileRows DEF WatchAdd, WatchEvents
  <2> QED
    BY <1>0, <1>4, <2>1 DEF WatchAdd, ArchivesOwn, NoEvent
<1>5. CASE MainRecordFailure \/ MainRecord
  <2>1. ftm.originalFileId = ftm.originalFileName /\ UNCHANGED watch
    BY <1>5 DEF HolderInv, HoldersTied, IdsStored, MainRecordFailure, MainRecord, fileVars
  <2>2. archives' = archives
        \/ archives' = [archives EXCEPT ![ftm.originalFileId] = ArchiveName[ftm.originalFileName]]
    BY <1>5 DEF MainRecordFailure, MainRecord, DbAddEncodedFile
  <2> QED
    BY <1>0, <2>1, <2>2 DEF ArchivesOwn
<1>6. ASSUME NEW c \in Clients, ClientStep(c) \/ Abort(c) \/ LostCall(c) \/ Break(c) \/ Die(c)
      PROVE  UNCHANGED <<archives, watch>>
  <2>1. CASE Authenticate(c) \/ AuthenticateFails(c) \/ GetNextFileNone(c)
    BY <2>1 DEF Authenticate, AuthenticateFails, GetNextFileNone, dbVars, fileVars
  <2>2. ASSUME NEW f \in Files, GetNextFile(c, f) \/ GetNextFileFails(c, f)
        PROVE  UNCHANGED <<archives, watch>>
    BY <2>2 DEF GetNextFile, GetNextFileFails, DbGetNextFile, fileVars
  <2>3. CASE ReadChunk(c) \/ TransferError(c) \/ SendEmpty(c) \/ Reset(c) \/ Encode(c)
             \/ PostFile(c)
             \/ PostFileError(c) \/ WriteChunk(c)
    BY <2>3 DEF ReadChunk, TransferError, SendEmpty, Reset, Encode, PostFile, PostFileError,
       WriteChunk,
       dbVars, fileVars
  <2>4. CASE Abort(c) \/ LostCall(c) \/ Break(c) \/ Die(c)
    BY <2>4 DEF Abort, LostCall, Break, Die, DbReset, dbVars, fileVars
  <2> QED
    BY <1>6, <2>1, <2>2, <2>3, <2>4 DEF ClientStep
<1>7. MainLoop \/ MainWake \/ MainMove \/ SpuriousWakeup \/ UNCHANGED vars
        => UNCHANGED <<archives, watch>>
  BY DEF MainLoop, MainWake, MainMove, SpuriousWakeup, vars, dbVars, fileVars
<1> QED
  BY <1>1, <1>2, <1>3, <1>4, <1>5, <1>6, <1>7 DEF Next, MainStep

-----------------------------------------------------------------------------
\* The state of a job, case by case.
LEMMA JobStates ==
  ASSUME NEW f \in Files
  PROVE  /\ Held(f) => JobState(f) = "working"
         /\ ~Held(f) /\ status[f] = Started => JobState(f) = "lost"
         /\ ~Held(f) /\ status[f] = OK => JobState(f) = "done"
         /\ ~Held(f) /\ status[f] = NotStarted => JobState(f) = "waiting"
         /\ ~Held(f) /\ status[f] = NoRow =>
              JobState(f) = IF sourcefiles[f] = Absent THEN "unknown" ELSE "waiting"
         /\ ~Held(f) /\ status[f] \notin {Started, OK, NotStarted, NoRow} =>
              JobState(f) = "failed"
BY DEF JobState, Started, OK, NotStarted, NoRow

\* A job's state is a function of its row and of whether it is held.
LEMMA JobSame ==
  ASSUME NEW f \in Files, Held(f)' <=> Held(f), status'[f] = status[f],
         status[f] = NoRow => sourcefiles'[f] = sourcefiles[f]
  PROVE  JobState(f)' = JobState(f)
BY DEF JobState, Started, OK, NotStarted, NoRow

\* A step that moves one job.
LEMMA JobMoves ==
  ASSUME NEW g \in Files, \A f \in Files : f # g => JobState(f)' = JobState(f),
         NEW from, NEW to, JobState(g) \in from, JobState(g)' \in to
  PROVE  Queue!Moves(g, from, to)
BY DEF Queue!Moves

\* A step that changes neither rows nor holders is no step of the jobs.
LEMMA JobsStutter ==
  ASSUME UNCHANGED <<sourcefiles, status, count, resets>>,
         \A f \in Files : Held(f)' <=> Held(f)
  PROVE  UNCHANGED Queue!jobVars
<1>1. \A f \in Files : JobState(f)' = JobState(f)
  BY JobSame
<1> QED
  BY <1>1 DEF Queue!jobVars

-----------------------------------------------------------------------------
\* Some place other than session s holds the file.
HeldElsewhere(s, f) ==
  \/ \E t \in Sessions : t # s /\ HeldBySession(t, f)
  \/ \E i \in 1..Len(m_filesToMove) : Queued(i, f)
  \/ HeldByMain(f)

\* The holder of a file is the only one.
LEMMA OnlyHolder ==
  ASSUME HolderInv, NEW s \in Sessions, NEW f \in Files, HeldBySession(s, f)
  PROVE  ~HeldElsewhere(s, f)
BY DEF HolderInv, OneHolder, HeldElsewhere

\* A handler changes what its own session holds.
LEMMA HandlerHolds ==
  ASSUME DataInv, NEW c \in Clients, session[c] \in Sessions, NEW cli, SetConn(c, cli),
         UNCHANGED <<m_filesToMove, ftm>>
  PROVE  \A f \in Files :
           /\ Held(f)  <=> Conn(c).originalFileName = f \/ HeldElsewhere(session[c], f)
           /\ Held(f)' <=> cli.originalFileName = f \/ HeldElsewhere(session[c], f)
<1>1. \A s \in Sessions :
        m_connections'[s] = IF s = session[c] THEN cli ELSE m_connections[s]
  BY SetConnAt
<1>2. \A f \in Files : /\ HeldByMain(f)' <=> HeldByMain(f)
                       /\ \A i \in 1..Len(m_filesToMove) : Queued(i, f)' <=> Queued(i, f)
  BY DEF HeldByMain, Queued
<1>3. \A f \in Files, s \in Sessions :
        HeldBySession(s, f)' <=> IF s = session[c] THEN cli.originalFileName = f
                                                   ELSE HeldBySession(s, f)
  BY <1>1 DEF HeldBySession
<1>4. \A f \in Files : HeldBySession(session[c], f) <=> Conn(c).originalFileName = f
  BY DEF HeldBySession, Conn
<1> QED
  BY <1>2, <1>3, <1>4 DEF Held, HeldElsewhere

\* authenticate() changes the session of a connection, not what is held.
LEMMA AuthenticateHolds ==
  ASSUME DbAssumption, DaemonAssumption, DataInv, HolderInv, FreeIsEmpty,
         NEW c \in Clients, Authenticate(c)
  PROVE  \A f \in Files : Held(f)' <=> Held(f)
<1>0. /\ NoFile \notin Files /\ NoClient \notin Clients
      /\ TokensUnique
  BY DEF DbAssumption, DaemonAssumption, HolderInv, HoldersTied
<1>1. PICK id \in Sessions : \E cl :
        /\ \/ \E s \in Sessions : m_connections[s].token = c /\ cl = m_connections[s]
           \/ /\ \A s \in Sessions : m_connections[s].token # c
              /\ \E g \in Garbage : cl = Cleared(c, g)
        /\ m_connections[id].token = NoClient
        /\ m_connections' = MovedTo(c, id, cl)
  BY DEF Authenticate
<1>2. PICK cl :
        /\ \/ \E s \in Sessions : m_connections[s].token = c /\ cl = m_connections[s]
           \/ /\ \A s \in Sessions : m_connections[s].token # c
              /\ \E g \in Garbage : cl = Cleared(c, g)
        /\ m_connections[id].token = NoClient
        /\ m_connections' = MovedTo(c, id, cl)
  BY <1>1
<1>3. \A s \in Sessions :
        m_connections'[s] = IF s = id THEN cl
                            ELSE IF m_connections[s].token = c THEN NoConn
                            ELSE m_connections[s]
  BY <1>2 DEF MovedTo
<1>4. \A f \in Files : ~HeldBySession(id, f)
  BY <1>0, <1>2 DEF FreeIsEmpty, HeldBySession, NoConn, Cleared
<1>5. \A f \in Files, s \in Sessions :
        m_connections[s].token = c => (HeldBySession(s, f) <=> HeldBySession(id, f)')
  BY <1>0, <1>2, <1>3 DEF HeldBySession, TokensUnique
<1>6. \A f \in Files, s \in Sessions :
        m_connections[s].token # c /\ s # id => (HeldBySession(s, f)' <=> HeldBySession(s, f))
  BY <1>3 DEF HeldBySession
<1>7. \A f \in Files, s \in Sessions :
        m_connections[s].token = c /\ s # id => ~HeldBySession(s, f)'
  BY <1>0, <1>3 DEF HeldBySession, NoConn, Cleared
<1>8. \A f \in Files :
        HeldBySession(id, f)' => \E s \in Sessions : m_connections[s].token = c
                                                     /\ HeldBySession(s, f)
  BY <1>0, <1>2, <1>3 DEF HeldBySession, Cleared
<1>9. \A f \in Files : (\E s \in Sessions : HeldBySession(s, f)')
                       <=> \E s \in Sessions : HeldBySession(s, f)
  BY <1>4, <1>5, <1>6, <1>7, <1>8
<1>10. \A f \in Files : /\ HeldByMain(f)' <=> HeldByMain(f)
                        /\ \A i \in 1..Len(m_filesToMove') : Queued(i, f)' <=> Queued(i, f)
                        /\ UNCHANGED m_filesToMove
  BY DEF Authenticate, mainVars, HeldByMain, Queued
<1> QED
  BY <1>9, <1>10 DEF Held

\* prepareNewSession() hands the file to the queue: it stays held.
LEMMA PrepareHolds ==
  ASSUME DbAssumption, DataInv, NEW s \in Sessions, NEW cli \in Conns,
         PrepareNewSession(s, cli),
         cli.originalFileId = m_connections[s].originalFileName, UNCHANGED ftm
  PROVE  \A f \in Files : Held(f)' <=> Held(f)
<1>0. NoFile \notin Files
  BY DEF DbAssumption
<1>1. PICK n \in Nat, entry \in FilesToMove :
        /\ n = Len(m_filesToMove) /\ Len(m_filesToMove') = n + 1
        /\ \A i \in 1..n : m_filesToMove'[i] = m_filesToMove[i]
        /\ m_filesToMove'[n + 1] = entry
        /\ entry.originalFileId = cli.originalFileId
        /\ entry.originalFileName = cli.originalFileName
        /\ entry.encResult = cli.encResult
        /\ \A t \in Sessions : m_connections'[t] = IF t = s THEN Cleared(cli.token, NoFile)
                                                   ELSE m_connections[t]
  BY Appended
<1>2. \A f \in Files, t \in Sessions : HeldBySession(t, f)' <=> t # s /\ HeldBySession(t, f)
  BY <1>0, <1>1 DEF HeldBySession, Cleared
<1>3. \A f \in Files : /\ \A i \in 1..n : Queued(i, f)' <=> Queued(i, f)
                       /\ Queued(n + 1, f)' <=> HeldBySession(s, f)
                       /\ HeldByMain(f)' <=> HeldByMain(f)
  BY <1>1 DEF Queued, HeldBySession, HeldByMain
<1>4. \A i : i \in 1..Len(m_filesToMove') <=> i \in 1..n \/ i = n + 1
  BY <1>1
<1> QED
  BY <1>1, <1>2, <1>3, <1>4 DEF Held

\* The main loop takes a file over from the queue.
LEMMA MainLoopHolds ==
  ASSUME DbAssumption, DataInv, HolderInv, MainLoop
  PROVE  \A f \in Files : Held(f)' <=> Held(f)
<1>0. ftm = NoFileToMove /\ NoFile \notin Files /\ UNCHANGED m_connections
  BY DEF HolderInv, HoldersTied, IdsStored, DbAssumption, MainLoop
<1>1. CASE UNCHANGED <<m_filesToMove, ftm>>
  BY <1>0, <1>1 DEF Held, HeldBySession, Queued, HeldByMain
<1>2. CASE m_filesToMove # <<>> /\ m_filesToMove' = Tail(m_filesToMove)
  <2>1. PICK n \in Nat :
          /\ n >= 1 /\ n = Len(m_filesToMove) /\ Len(m_filesToMove') = n - 1
          /\ \A i \in 1..(n - 1) : m_filesToMove'[i] = m_filesToMove[i + 1]
          /\ Head(m_filesToMove) = m_filesToMove[1]
    BY <1>2, HeadTaken
  <2>2. \/ ftm' = m_filesToMove[1]
        \/ ftm' = NoFileToMove /\ m_filesToMove[1].originalFileId = NoFile
    BY <1>0, <1>2, <2>1 DEF MainLoop
  <2>3. \A f \in Files :
          /\ \A t \in Sessions : HeldBySession(t, f)' <=> HeldBySession(t, f)
          /\ \A i \in 1..(n - 1) : Queued(i, f)' <=> Queued(i + 1, f)
          /\ ~HeldByMain(f)
          /\ HeldByMain(f)' <=> Queued(1, f)
    BY <1>0, <2>1, <2>2 DEF HeldBySession, Queued, HeldByMain, NoFileToMove
  <2>4. /\ \A i \in 1..Len(m_filesToMove') : i \in 1..(n - 1) /\ i + 1 \in 1..Len(m_filesToMove)
        /\ 1 \in 1..Len(m_filesToMove)
    BY <2>1
  <2>5. ASSUME NEW f \in Files, NEW i \in 1..Len(m_filesToMove), Queued(i, f), i # 1
        PROVE  \E j \in 1..Len(m_filesToMove') : Queued(j, f)'
    <3>1. PICK j \in 1..(n - 1) : i = j + 1
      <4>1. i - 1 \in 1..(n - 1) /\ i = (i - 1) + 1
        BY <2>1, <2>5
      <4> QED
        BY <4>1
    <3>2. Queued(j, f)'
      BY <2>3, <2>5, <3>1
    <3> QED
      BY <2>1, <3>2
  <2>6. \A f \in Files : (\E i \in 1..Len(m_filesToMove) : Queued(i, f)) <=>
            Queued(1, f) \/ \E i \in 1..Len(m_filesToMove') : Queued(i, f)'
    BY <2>3, <2>4, <2>5
  <2> QED
    BY <2>3, <2>6 DEF Held
<1> QED
  BY <1>1, <1>2 DEF MainLoop

-----------------------------------------------------------------------------
\* A connection that is at rest with both streams closed has no file.
LEMMA RestingConn ==
  ASSUME DataInv, HolderInv, StreamsTied, NEW c \in Clients, Calling(c, "idle"),
         Conn(c).inFile = Closed, Conn(c).outFile = Closed
  PROVE  Conn(c).originalFileName = NoFile
<1>1. session[c] \in Sessions /\ phase[c] = "idle" /\ Conn(c).token = c
  BY OwnConn DEF Calling
<1> QED
  BY <1>1 DEF StreamsTied, HasStream, MayPostAgain, Conn

\* getNextFile() hands a job out, or loses it when it finds no media file.
LEMMA GetNextFileJob ==
  ASSUME DbAssumption, DaemonAssumption, DataInv, HolderInv, StreamsTied,
         NEW c \in Clients, NEW g \in Files, GetNextFile(c, g) \/ GetNextFileFails(c, g)
  PROVE  Queue!HandOut(g)
<1>0. /\ DbInv /\ DbTypeOK /\ NoFile \notin Files
      /\ status \in [Files -> Results \cup {NoRow, NotStarted, Started}]
      /\ count \in [Files -> Nat] /\ resets \in [Files -> Nat]
  BY DEF DataInv, DbInv, DbTypeOK, DbAssumption
<1>1. /\ Calling(c, "idle") /\ Conn(c).inFile = Closed /\ Conn(c).outFile = Closed
      /\ DbGetNextFile(MaxFileSize, g) /\ session[c] \in Sessions
      /\ UNCHANGED <<m_filesToMove, ftm>>
  BY DEF GetNextFile, GetNextFileFails, Calling, mainVars
<1>2. Conn(c).originalFileName = NoFile
  BY <1>1, RestingConn
<1>3. /\ status[g] \in {NotStarted, NoRow} \/ Retriable(g)
      /\ sourcefiles[g] # Absent
      /\ status' = [status EXCEPT ![g] = Started]
      /\ count' = [count EXCEPT ![g] = @ + 1]
      /\ UNCHANGED <<sourcefiles, resets>>
  BY <1>1 DEF DbGetNextFile, Selectable
<1>4. count[g] < RetryLimit + resets[g]
  BY <1>0, <1>3 DEF DbInv, UnlimitedHasBudget, Retriable, RetryLimit
<1>5. ~Held(g) /\ JobState(g) \in {"waiting", "failed"}
  <2>1. status[g] \notin {Started, OK}
    BY <1>3 DEF Retriable, Started, OK, NotStarted, NoRow
  <2> QED
    BY <1>3, <2>1, JobStates DEF HolderInv, HeldIsReserved
<1>6. CASE GetNextFile(c, g)
  <2> DEFINE cli == [Cleared(c, g) EXCEPT !.originalFileName = g, !.inFile = 0]
  <2>1. SetConn(c, cli) /\ cli.originalFileName = g
    BY <1>6 DEF GetNextFile, Cleared
  <2> HIDE DEF cli
  <2>2. \A f \in Files : Held(f)' <=> f = g \/ Held(f)
    BY <1>0, <1>1, <1>2, <2>1, HandlerHolds
  <2>3. \A f \in Files : f # g => JobState(f)' = JobState(f)
    BY <1>0, <1>3, <2>2, JobSame
  <2>4. JobState(g)' = "working"
    BY <2>2 DEF JobState
  <2>5. Queue!Moves(g, {"waiting", "failed"},
                    {"working"} \cup (IF g \in {f \in Files : "openFails" \in Events
                                                              \/ FileLen[f] = 0}
                                      THEN {"lost"} ELSE {}))
    BY <1>5, <2>3, <2>4, JobMoves
  <2> QED
    BY <1>3, <1>4, <2>5 DEF Queue!HandOut
<1>7. CASE GetNextFileFails(c, g)
  <2>1. /\ SetConn(c, Cleared(c, NoFile)) /\ Cleared(c, NoFile).originalFileName = NoFile
        /\ g \in {f \in Files : "openFails" \in Events \/ FileLen[f] = 0}
    BY <1>7 DEF GetNextFileFails, Cleared
  <2>2. \A f \in Files : Held(f)' <=> Held(f)
    BY <1>0, <1>1, <1>2, <2>1, HandlerHolds
  <2>3. \A f \in Files : f # g => JobState(f)' = JobState(f)
    BY <1>0, <1>3, <2>2, JobSame
  <2>4. JobState(g)' = "lost"
    BY <1>0, <1>3, <1>5, <2>2 DEF JobState, Started, OK, NotStarted, NoRow
  <2>5. Queue!Moves(g, {"waiting", "failed"},
                    {"working"} \cup (IF g \in {f \in Files : "openFails" \in Events
                                                              \/ FileLen[f] = 0}
                                      THEN {"lost"} ELSE {}))
    BY <1>5, <2>1, <2>3, <2>4, JobMoves
  <2> QED
    BY <1>3, <1>4, <2>5 DEF Queue!HandOut
<1> QED
  BY <1>6, <1>7

\* abort() returns a job if a stream is open, and changes none otherwise.
LEMMA AbortJob ==
  ASSUME DbAssumption, DaemonAssumption, DataInv, HolderInv, NEW c \in Clients, Abort(c)
  PROVE  (\E g \in Files : Queue!GiveBack(g)) \/ UNCHANGED Queue!jobVars
<1>0. /\ DbTypeOK /\ NoFile \notin Files
      /\ status \in [Files -> Results \cup {NoRow, NotStarted, Started}]
  BY DEF DataInv, DbInv, DbTypeOK, DbAssumption
<1>1. session[c] \in Sessions /\ UNCHANGED <<m_filesToMove, ftm>>
  BY DEF Abort, mainVars
<1>2. CASE UNCHANGED <<dbVars, m_connections>>
  <2>1. \A f \in Files : Held(f)' <=> Held(f)
    BY <1>1, <1>2 DEF Held, HeldBySession, Queued, HeldByMain
  <2> QED
    BY <1>2, <2>1, JobsStutter DEF dbVars
<1>3. CASE ~UNCHANGED <<dbVars, m_connections>>
  <2>1. /\ SetConn(c, Cleared(c, NoFile)) /\ Cleared(c, NoFile).originalFileName = NoFile
        /\ IF Conn(c).originalFileId \in Files THEN DbReset(Conn(c).originalFileId)
                                               ELSE UNCHANGED dbVars
        /\ Conn(c).inFile # Closed \/ Conn(c).outFile # Closed
    BY <1>3 DEF Abort, Cleared
  <2>2. Conn(c).originalFileId = Conn(c).originalFileName
    BY <1>1, <2>1, OwnConn DEF IdStored
  <2>3. CASE Conn(c).originalFileName \notin Files
    <3>1. \A f \in Files : Held(f)' <=> Held(f)
      BY <1>0, <1>1, <2>1, <2>3, HandlerHolds
    <3> QED
      BY <2>1, <2>2, <2>3, <3>1, JobsStutter DEF dbVars
  <2>4. CASE Conn(c).originalFileName \in Files
    <3>0. PICK g \in Files : g = Conn(c).originalFileName
      BY <2>4
    <3>1. HeldBySession(session[c], g) /\ DbReset(g)
      BY <2>1, <2>2, <3>0 DEF HeldBySession, Conn
    <3>2. Held(g) /\ ~HeldElsewhere(session[c], g)
      BY <1>1, <3>1, OnlyHolder DEF Held
    <3>3. \A f \in Files : Held(f)' <=> f # g /\ Held(f)
      BY <1>0, <1>1, <2>1, <3>0, <3>2, HandlerHolds
    <3>4. status[g] # NoRow
      BY <3>2 DEF HolderInv, HeldIsReserved, Started, OK, NoRow
    <3>5. /\ \A f \in Files : status'[f] = IF f = g THEN NotStarted ELSE status[f]
          /\ resets' = [resets EXCEPT ![g] = @ + 1]
          /\ UNCHANGED <<sourcefiles, count>>
      BY <1>0, <3>1, <3>4 DEF DbReset
    <3>6. \A f \in Files : f # g => JobState(f)' = JobState(f)
      BY <3>3, <3>5, JobSame
    <3>7. JobState(g) = "working" /\ JobState(g)' = "waiting"
      BY <3>2, <3>3, <3>5 DEF JobState, Started, OK, NotStarted, NoRow
    <3>8. Queue!Moves(g, {"working"}, {"waiting"})
      BY <3>6, <3>7, JobMoves
    <3> QED
      BY <3>5, <3>8 DEF Queue!GiveBack
  <2> QED
    BY <2>3, <2>4
<1> QED
  BY <1>2, <1>3

\* The record of a result finishes a job.
LEMMA MainRecordJob ==
  ASSUME DbAssumption, DaemonAssumption, DataInv, HolderInv, ResultsIn(ClientResults),
         MainRecordFailure \/ MainRecord
  PROVE  \E g \in Files : Queue!Finish(g)
<1>0. /\ DbTypeOK /\ NoFile \notin Files /\ OneHolder
      /\ status \in [Files -> Results \cup {NoRow, NotStarted, Started}]
  BY DEF DataInv, DbInv, DbTypeOK, DbAssumption, HolderInv
<1>1. PICK g \in Files : g = ftm.originalFileId
  BY DEF MainRecordFailure, MainRecord, DataInv, MainHasFile
<1>2. HeldByMain(g)
  BY <1>1 DEF HeldByMain
<1>3. /\ Held(g)
      /\ \A s \in Sessions : ~HeldBySession(s, g)
      /\ \A i \in 1..Len(m_filesToMove) : ~Queued(i, g)
  BY <1>0, <1>1, <1>2 DEF Held, OneHolder
<1>4. status[g] # NoRow
  BY <1>1, <1>3 DEF HolderInv, HeldIsReserved, Started, OK, NoRow
<1>5. PICK r : /\ r \in {OK, UnknownError, ServerIOError}
               /\ status' = [status EXCEPT ![g] = r]
               /\ UNCHANGED <<sourcefiles, count, resets>>
  <2>1. ftm.encResult.result \in {OK, UnknownError, ServerIOError}
    BY DEF ResultsIn, ClientResults, NoResult
  <2>2. \E r : /\ r \in {ftm.encResult.result, ServerIOError}
               /\ status' = [status EXCEPT ![g] = r]
               /\ UNCHANGED <<sourcefiles, count, resets>>
    BY <1>1, <1>4 DEF MainRecordFailure, MainRecord, DbAddEncodedFile
  <2> QED
    BY <2>1, <2>2
<1>6. /\ UNCHANGED <<m_connections, m_filesToMove>>
      /\ ftm'.originalFileId = NoFile
  BY DEF MainRecordFailure, MainRecord, connVars, NoFileToMove
<1>7. \A f \in Files : Held(f)' <=> f # g /\ Held(f)
  <2>1. \A f \in Files : /\ \A s \in Sessions : HeldBySession(s, f)' <=> HeldBySession(s, f)
                         /\ \A i \in 1..Len(m_filesToMove) : Queued(i, f)' <=> Queued(i, f)
                         /\ ~HeldByMain(f)'
                         /\ HeldByMain(f) <=> f = g
    BY <1>0, <1>1, <1>6 DEF HeldBySession, Queued, HeldByMain
  <2> QED
    BY <1>3, <1>6, <2>1 DEF Held
<1>8. \A f \in Files : f # g => JobState(f)' = JobState(f)
  BY <1>0, <1>5, <1>7, JobSame
<1>9. JobState(g) = "working" /\ JobState(g)' \in {"done", "failed"}
  BY <1>0, <1>1, <1>3, <1>5, <1>7 DEF JobState, Started, OK, NotStarted, NoRow, UnknownError,
     ServerIOError
<1>10. Queue!Moves(g, {"working"}, {"done", "failed"})
  BY <1>1, <1>8, <1>9, JobMoves
<1> QED
  BY <1>1, <1>5, <1>10 DEF Queue!Finish

\* A restart forgets who works on what.
LEMMA RestartJob ==
  ASSUME DbAssumption, DataInv, HolderInv, Restart
  PROVE  Queue!Forget
<1>1. \A f \in Files : ~Held(f)'
  BY DEF Restart, Held, HeldBySession, Queued, HeldByMain, NoConn, Cleared, NoFileToMove,
     DbAssumption
<1>2. UNCHANGED <<sourcefiles, status, count, resets>> /\ "restart" \in Events
  BY DEF Restart, dbVars
<1>3. \A f \in Files : IF JobState(f) = "working" THEN JobState(f)' \in {"lost", "done"}
                                                  ELSE JobState(f)' = JobState(f)
  <2>1. ASSUME NEW f \in Files, Held(f) PROVE JobState(f)' \in {"lost", "done"}
    BY <1>1, <1>2, <2>1 DEF HolderInv, HeldIsReserved, JobState, Started, OK,
       NotStarted, NoRow
  <2>2. ASSUME NEW f \in Files, ~Held(f) PROVE JobState(f)' = JobState(f)
    BY <1>1, <1>2, <2>2, JobSame
  <2> QED
    BY <2>1, <2>2 DEF JobState
<1>4. \A f \in Files : JobState(f)' \in Queue!States
  BY DEF JobState, Queue!States
<1> QED
  BY <1>2, <1>3, <1>4 DEF Queue!Forget

\* The other handlers, and the main loop's other steps, are no steps of the
\* jobs.
LEMMA HandlerNoJob ==
  ASSUME DbAssumption, DaemonAssumption, DataInv, HolderInv, StreamsTied, FreeIsEmpty,
         NEW c \in Clients,
         \/ Authenticate(c) \/ AuthenticateFails(c) \/ GetNextFileNone(c)
         \/ ReadChunk(c) \/ TransferError(c) \/ SendEmpty(c) \/ Reset(c) \/ Encode(c)
         \/ PostFile(c) \/ PostFileError(c) \/ WriteChunk(c)
  PROVE  UNCHANGED Queue!jobVars
<1>0. NoFile \notin Files
  BY DEF DbAssumption
<1>1. UNCHANGED <<dbVars, ftm>>
  BY DEF Authenticate, AuthenticateFails, GetNextFileNone, ReadChunk, TransferError, SendEmpty,
     Reset,
     Encode, PostFile, PostFileError, WriteChunk, mainVars
<1>2. SUFFICES \A f \in Files : Held(f)' <=> Held(f)
  BY <1>1, JobsStutter DEF dbVars
<1>3. CASE UNCHANGED <<m_connections, m_filesToMove>>
  BY <1>1, <1>3 DEF Held, HeldBySession, Queued, HeldByMain
<1>4. CASE Authenticate(c)
  BY <1>4, AuthenticateHolds
<1>5. ASSUME NEW cli, session[c] \in Sessions, SetConn(c, cli),
             cli.originalFileName = Conn(c).originalFileName, UNCHANGED m_filesToMove
      PROVE  \A f \in Files : Held(f)' <=> Held(f)
  BY <1>1, <1>5, HandlerHolds
<1>6. ASSUME NEW cli \in Conns, session[c] \in Sessions, PrepareNewSession(session[c], cli),
             cli.originalFileId = Conn(c).originalFileName
      PROVE  \A f \in Files : Held(f)' <=> Held(f)
  BY <1>1, <1>6, PrepareHolds DEF Conn
<1>7. session[c] \in Sessions =>
        /\ Conn(c) \in Conns
        /\ phase[c] \in {"sending", "transmitting"} =>
             Conn(c).originalFileId = Conn(c).originalFileName
  BY OwnConn DEF IdStored
<1>8. CASE GetNextFileNone(c)
  <2>1. /\ Calling(c, "idle") /\ Conn(c).inFile = Closed /\ Conn(c).outFile = Closed
        /\ SetConn(c, Cleared(c, NoFile)) /\ session[c] \in Sessions
        /\ UNCHANGED m_filesToMove
    BY <1>8 DEF GetNextFileNone, Calling
  <2>2. Conn(c).originalFileName = NoFile
    BY <2>1, RestingConn
  <2> QED
    BY <1>5, <2>1, <2>2 DEF Cleared
<1>9. CASE ReadChunk(c) \/ Reset(c) \/ PostFile(c)
  <2>1. CASE ~UNCHANGED m_connections
    <3>1. session[c] \in Sessions /\ UNCHANGED m_filesToMove
      BY <1>9, <2>1 DEF ReadChunk, Reset, PostFile, PostAccepted, Calling
    <3>2. \A in, out, r :
            [Conn(c) EXCEPT !.inFile = in].originalFileName = Conn(c).originalFileName
            /\ [Conn(c) EXCEPT !.outFile = out].originalFileName = Conn(c).originalFileName
            /\ [Conn(c) EXCEPT !.inFile = in, !.encResult = r].originalFileName
                 = Conn(c).originalFileName
            /\ [[Conn(c) EXCEPT !.inFile = in, !.encResult = r] EXCEPT !.outFile = out]
                 .originalFileName = Conn(c).originalFileName
      BY <1>7, <3>1 DEF Conns
    <3>3. CASE ReadChunk(c)
      BY <1>5, <2>1, <3>1, <3>2, <3>3 DEF ReadChunk
    <3>4. CASE Reset(c)
      BY <1>5, <3>1, <3>2, <3>4 DEF Reset
    <3>5. CASE PostFile(c)
      BY <1>5, <3>1, <3>2, <3>5 DEF PostFile
    <3> QED
      BY <1>9, <3>3, <3>4, <3>5
  <2>2. UNCHANGED m_filesToMove
    BY <1>9 DEF ReadChunk, Reset, PostFile
  <2> QED
    BY <1>3, <2>1, <2>2
<1>10. CASE PostFileError(c)
  <2> DEFINE cli == [Conn(c) EXCEPT !.inFile = Closed, !.encResult = result[c]]
  <2>1. /\ session[c] \in Sessions /\ phase[c] = "sending"
        /\ PrepareNewSession(session[c], cli)
    BY <1>10 DEF PostFileError, PostAccepted, Calling
  <2>2. cli \in Conns /\ cli.originalFileId = Conn(c).originalFileName
    BY <1>7, <2>1 DEF Conns, DataInv, TypeOK, ClientTypeOK
  <2> QED
    BY <1>6, <2>1, <2>2
<1>11. CASE WriteChunk(c)
  <2>1. session[c] \in Sessions /\ phase[c] = "transmitting"
    BY <1>11 DEF WriteChunk, Calling
  <2>2. \A tellp : [Conn(c) EXCEPT !.outFile = tellp].originalFileName = Conn(c).originalFileName
    BY <1>7, <2>1 DEF Conns
  <2> QED
    BY <1>5, <1>6, <1>7, <1>11, <2>1, <2>2 DEF WriteChunk
<1>12. AuthenticateFails(c) \/ TransferError(c) \/ SendEmpty(c) \/ Encode(c)
         => UNCHANGED <<m_connections, m_filesToMove>>
  BY DEF AuthenticateFails, TransferError, SendEmpty, Encode, connVars
<1> QED
  BY <1>3, <1>4, <1>8, <1>9, <1>10, <1>11, <1>12

\* Every step but that of the listener is a step of the jobs or none.
LEMMA NextJobs ==
  ASSUME DbAssumption, DaemonAssumption, DataInv, HolderInv, StreamsTied, FreeIsEmpty,
         ResultsIn(ClientResults), [Next]_vars, ~WatchAdd
  PROVE  Queue!Next \/ UNCHANGED Queue!jobVars
<1>1. ASSUME NEW c \in Clients, ClientStep(c) \/ Abort(c)
      PROVE  Queue!Next \/ UNCHANGED Queue!jobVars
  BY <1>1, GetNextFileJob, AbortJob, HandlerNoJob DEF ClientStep, Queue!Next
<1>2. CASE MainRecordFailure \/ MainRecord
  BY <1>2, MainRecordJob DEF Queue!Next
<1>3. CASE MainLoop
  BY <1>3, MainLoopHolds, JobsStutter DEF MainLoop, dbVars
<1>4. CASE Restart
  BY <1>4, RestartJob DEF Queue!Next
<1>5. CASE \/ \E c \in Clients : LostCall(c) \/ Break(c) \/ Die(c)
           \/ MainWake \/ MainMove \/ SpuriousWakeup \/ WatchStat \/ UNCHANGED vars
  <2>1. UNCHANGED <<dbVars, m_connections, m_filesToMove, ftm>>
    BY <1>5 DEF LostCall, Break, Die, MainWake, MainMove, SpuriousWakeup, WatchStat, vars, connVars,
       mainVars
  <2>2. \A f \in Files : Held(f)' <=> Held(f)
    BY <2>1 DEF Held, HeldBySession, Queued, HeldByMain
  <2> QED
    BY <2>1, <2>2, JobsStutter DEF dbVars
<1> QED
  BY <1>1, <1>2, <1>3, <1>4, <1>5 DEF Next, MainStep

\* Sources have archives of different names.
NamesDistinct == \A f, g \in Files : ArchiveName[f] = ArchiveName[g] => f = g

\* The listener discovers a file or finds the archive of one.
LEMMA WatchAddJob ==
  ASSUME DbAssumption, DaemonAssumption, NamesDistinct, DataInv, HolderInv, ArchivesOwn,
         WatchAdd
  PROVE  \/ \E g \in Files : Queue!Discover(g) \/ Queue!FindArchive(g)
         \/ UNCHANGED Queue!jobVars
<1>0. /\ DbInv /\ DbTypeOK /\ watch \in WatchEvents /\ NoFile \notin Files
      /\ status \in [Files -> Results \cup {NoRow, NotStarted, Started}]
  BY DEF DataInv, TypeOK, DbInv, DbTypeOK, DbAssumption
<1> DEFINE size == IF watch.src = NoFile THEN 0 ELSE FileLen[watch.src]
<1>1. /\ watch.src \in FileIds /\ watch.dst \in Names \cup {NoName} /\ size \in Sizes
      /\ DbAddFile(watch.src, size, watch.dst, watch.queue)
  BY <1>0 DEF WatchAdd, WatchEvents, FileIds, DaemonAssumption
<1>2. /\ \A f \in Files : Held(f)' <=> Held(f)
      /\ UNCHANGED <<count, resets>>
  BY DEF WatchAdd, DbAddFile, connVars, mainVars, Held, HeldBySession, Queued, HeldByMain
<1>3. \A f \in Files : f # watch.src \/ sourcefiles[f] # Absent => sourcefiles'[f] = sourcefiles[f]
  BY <1>0, <1>1 DEF DbAddFile, DbTypeOK, FileIds
<1>4. \A f \in Files :
        \/ status'[f] = status[f]
        \/ f = watch.src /\ status[f] = NoRow /\ status'[f] = NotStarted
        \/ /\ f = watch.src \/ archives[f] = watch.dst
           /\ watch.dst # NoName /\ status'[f] = OK
  <2> HIDE DEF size
  <2> QED
    BY <1>0, <1>1, AddFileRows
<1>5. PICK g : \A f \in Files : f # g =>
        status'[f] = status[f] /\ sourcefiles'[f] = sourcefiles[f]
  <2>1. CASE watch.src \in Files
    <3>1. \A f \in Files : archives[f] = watch.dst /\ watch.dst # NoName => f = watch.src
      BY <2>1, <1>0 DEF ArchivesOwn, NamesDistinct
    <3> QED
      BY <1>3, <1>4, <2>1, <3>1
  <2>2. CASE watch.src = NoFile
    <3>1. \A f, h \in Files : archives[f] = watch.dst /\ archives[h] = watch.dst
                              /\ watch.dst # NoName => f = h
      BY DEF ArchivesOwn, NamesDistinct
    <3> QED
      BY <1>0, <1>3, <1>4, <2>2, <3>1
  <2> QED
    BY <1>1, <2>1, <2>2 DEF FileIds
<1>6. \A f \in Files : f # g => JobState(f)' = JobState(f)
  BY <1>2, <1>5, JobSame
<1>7. CASE g \notin Files
  BY <1>2, <1>6, <1>7 DEF Queue!jobVars
<1>8. CASE g \in Files /\ JobState(g)' = JobState(g)
  BY <1>2, <1>6, <1>8 DEF Queue!jobVars
<1>9. CASE g \in Files /\ JobState(g)' # JobState(g)
  <2>1. ~Held(g) /\ ~Held(g)'
    BY <1>2, <1>9 DEF JobState
  <2>2. CASE status'[g] = OK
    <3>1. JobState(g)' = "done"
      BY <1>9, <2>1, <2>2 DEF JobState, Started, OK, NotStarted, NoRow
    <3>2. JobState(g) \in {"unknown", "waiting", "failed", "lost"}
      BY <1>9, <3>1, <2>1 DEF JobState
    <3> QED
      BY <1>2, <1>6, <1>9, <3>1, <3>2, JobMoves DEF Queue!Discover, Queue!FindArchive
  <2>3. CASE status'[g] # OK
    <3>1. status[g] = NoRow /\ status'[g] \in {NoRow, NotStarted}
      BY <1>4, <1>9, <2>1, <2>3, JobSame
    <3>2. JobState(g) \in {"unknown", "waiting"} /\ JobState(g)' \in {"unknown", "waiting"}
      BY <2>1, <3>1 DEF JobState, Started, OK, NotStarted, NoRow
    <3>3. JobState(g)' # "unknown" \/ JobState(g) = "unknown"
      BY <1>3, <1>9, <2>1, <3>1 DEF JobState, Started, OK, NotStarted, NoRow
    <3>4. JobState(g) = "unknown" /\ JobState(g)' = "waiting"
      BY <1>9, <3>2, <3>3
    <3> QED
      BY <1>2, <1>6, <1>9, <3>4, JobMoves DEF Queue!Discover
  <2> QED
    BY <2>2, <2>3
<1> QED
  BY <1>7, <1>8, <1>9

-----------------------------------------------------------------------------
\* The inductive invariant of the queue of jobs.
QueueInv ==
  /\ DataInv /\ HolderInv
  /\ StreamsTied /\ FreeIsEmpty /\ ResultsIn(ClientResults) /\ ArchivesOwn

\* It holds at the start: there are no connections and no results.
LEMMA InitQueue ==
  ASSUME DbAssumption, DaemonAssumption, Init
  PROVE  QueueInv
<1>1. StreamsTied /\ FreeIsEmpty
  BY DEF Init, StreamsTied, FreeIsEmpty, NoConn, Cleared
<1>2. ResultsIn(ClientResults)
  BY DEF Init, ResultsIn, ClientResults, NoConn, Cleared, NoFileToMove
<1>3. ArchivesOwn
  BY DEF Init, DbInit, ArchivesOwn, NoEvent
<1> QED
  BY <1>1, <1>2, <1>3, InitData, InitHolder DEF QueueInv

\* At the start no job is known.
LEMMA InitJobs ==
  ASSUME DbAssumption, Init
  PROVE  \A f \in Files : JobState(f) = "unknown"
<1>1. \A f \in Files : ~Held(f)
  BY DEF Init, Held, HeldBySession, Queued, HeldByMain, NoConn, Cleared, NoFileToMove,
     DbAssumption
<1>2. \A f \in Files : status[f] = NoRow /\ sourcefiles[f] = Absent
  BY DEF Init, DbInit
<1> QED
  BY <1>1, <1>2, JobStates

\* Every step keeps it.
LEMMA NextQueue ==
  ASSUME DbAssumption, DaemonAssumption, IdsHarmless, QueueInv, [Next]_vars
  PROVE  QueueInv'
<1>0. DataInv /\ HolderInv /\ StreamsTied /\ FreeIsEmpty /\ ResultsIn(ClientResults)
      /\ ArchivesOwn
  BY DEF QueueInv
<1>1. DataInv' /\ HolderInv'
  BY <1>0, NextData, NextHolder
<1>2. ResultsIn(ClientResults)'
  <2>1. \A c \in Clients : Encode(c) => result'[c] \in ClientResults
    BY <1>0 DEF Encode, DataInv, TypeOK, ClientTypeOK
  <2>2. NoResult \in ClientResults
    BY DEF ClientResults
  <2> HIDE DEF ClientResults
  <2> QED
    BY <1>0, <2>1, <2>2, NextResults
<1> QED
  BY <1>0, <1>1, <1>2, NextStreams, NextArchivesOwn DEF QueueInv

\* Connections, queue, main loop, listener and database together implement a
\* queue of jobs: a file is handed out while nobody has it and it has tries
\* left, and leaves the hands of its holder only with a result or a return.
\* (Two sources with one archive name would let one event finish two jobs.)
THEOREM DaemonIsJobQueue ==
  ASSUME DbAssumption, DaemonAssumption, IdsHarmless, NamesDistinct
  PROVE  Spec => IsJobQueue
<1>1. Init => QueueInv /\ Queue!Init
  <2>1. ASSUME Init PROVE Queue!Init
    <3>1. \A f \in Files : JobState(f) = "unknown"
      BY <2>1, InitJobs
    <3> QED
      BY <2>1, <3>1 DEF Queue!Init, Init, DbInit
  <2> QED
    BY <2>1, InitQueue
<1>2. QueueInv /\ [Next]_vars => QueueInv'
  BY NextQueue
<1>3. QueueInv /\ [Next]_vars => [Queue!Next]_(Queue!jobVars)
  <2>1. ASSUME QueueInv, [Next]_vars PROVE Queue!Next \/ UNCHANGED Queue!jobVars
    BY <2>1, NextJobs, WatchAddJob DEF QueueInv, Queue!Next
  <2> QED
    BY <2>1
<1> QED
  BY <1>1, <1>2, <1>3, PTL DEF Spec, IsJobQueue, Queue!Spec

-----------------------------------------------------------------------------
\* No job is lost.
NoneLost == \A f \in Files : JobState(f) # "lost"

\* A job is lost only where a file can be unreadable or by a restart.
LEMMA NextNoneLost ==
  ASSUME DbAssumption, DaemonAssumption, {"restart", "openFails"} \cap Events = {},
         \A f \in Files : FileLen[f] > 0, QueueInv, NoneLost, [Next]_vars
  PROVE  NoneLost'
<1>1. CASE WatchAdd
  <2>1. \A f \in Files : Held(f)' <=> Held(f)
    BY <1>1 DEF WatchAdd, connVars, mainVars, Held, HeldBySession, Queued, HeldByMain
  <2>2. \A f \in Files : status'[f] = Started => status[f] = Started
    <3>1. /\ watch.src \in FileIds /\ watch.dst \in Names \cup {NoName} /\ DbInv
          /\ DbAddFile(watch.src, IF watch.src = NoFile THEN 0 ELSE FileLen[watch.src],
                       watch.dst, watch.queue)
      BY <1>1 DEF WatchAdd, QueueInv, DataInv, TypeOK, WatchEvents
    <3> QED
      BY <3>1, AddFileRows DEF Started, OK, NotStarted
  <2>3. \A f \in Files : JobState(f) = "lost" <=> ~Held(f) /\ status[f] = Started
    BY DEF JobState, Started, OK, NotStarted, NoRow
  <2>4. \A f \in Files : JobState(f)' = "lost" <=> ~Held(f)' /\ status'[f] = Started
    BY DEF JobState, Started, OK, NotStarted, NoRow
  <2> QED
    BY <2>1, <2>2, <2>3, <2>4 DEF NoneLost
<1>2. CASE UNCHANGED Queue!jobVars
  <2>1. \A f \in Files : [g \in Files |-> JobState(g)]'[f] = [g \in Files |-> JobState(g)][f]
    BY <1>2 DEF Queue!jobVars
  <2> QED
    BY <2>1 DEF NoneLost
<1>3. CASE Queue!Next
  <2>1. ASSUME NEW g \in Files, NEW from, NEW to, Queue!Moves(g, from, to), "lost" \notin to
        PROVE  NoneLost'
    <3>1. \A f \in Files : JobState(f)' \in to \/ JobState(f)' = JobState(f)
      BY <2>1 DEF Queue!Moves
    <3> QED
      BY <2>1, <3>1 DEF NoneLost
  <2>2. ASSUME NEW g \in Files, Queue!HandOut(g) PROVE NoneLost'
    <3>1. g \notin {f \in Files : "openFails" \in Events \/ FileLen[f] = 0}
      OBVIOUS
    <3>2. Queue!Moves(g, {"waiting", "failed"}, {"working"} \cup {})
      BY <2>2, <3>1 DEF Queue!HandOut
    <3> QED
      BY <2>1, <3>2
  <2>3. ~Queue!Forget
    BY DEF Queue!Forget
  <2> QED
    BY <1>3, <2>1, <2>2, <2>3 DEF Queue!Next, Queue!Discover, Queue!FindArchive, Queue!Finish,
       Queue!GiveBack
<1> QED
  BY <1>1, <1>2, <1>3, NextJobs DEF QueueInv

-----------------------------------------------------------------------------
\* The archive of a file that is OK and in nobody's hands is never touched, and
\* the record never taken back: neither by a client that comes back late, nor
\* by the listener, nor by the main loop that moves another file.
THEOREM DaemonDoneIsFinal ==
  ASSUME DbAssumption, DaemonAssumption, IdsHarmless, NamesDistinct
  PROVE  Spec => DoneIsFinal
<1>1. ASSUME DataInv, HolderInv, [Next]_vars, NEW f \in Files, status[f] = OK, ~Held(f)
      PROVE  status'[f] = OK /\ disk'[ArchiveName[f]] = disk[ArchiveName[f]]
  <2>0. /\ DbInv /\ DbTypeOK /\ status \in [Files -> Results \cup {NoRow, NotStarted, Started}]
        /\ disk \in [Names -> Contents] /\ watch \in WatchEvents /\ NoFile \notin Files
        /\ IdsStored
    BY <1>1 DEF DataInv, TypeOK, DbInv, DbTypeOK, DbAssumption, HolderInv, HoldersTied
  <2>1. CASE UNCHANGED <<status, disk>>
    BY <1>1, <2>1
  <2>2. ASSUME NEW c \in Clients, NEW g \in Files, GetNextFile(c, g) \/ GetNextFileFails(c, g)
        PROVE  status'[f] = OK /\ UNCHANGED disk
    <3>1. g \in Selectable(MaxFileSize) /\ status' = [status EXCEPT ![g] = Started]
          /\ UNCHANGED disk
      BY <2>2 DEF GetNextFile, GetNextFileFails, DbGetNextFile, fileVars
    <3>2. g # f
      BY <1>1, <3>1 DEF Selectable, Retriable, OK, NotStarted, NoRow
    <3> QED
      BY <1>1, <2>0, <3>1, <3>2
  <2>3. ASSUME NEW c \in Clients, Abort(c), ~UNCHANGED dbVars
        PROVE  status'[f] = OK /\ UNCHANGED disk
    <3>1. /\ session[c] \in Sessions /\ Conn(c).originalFileId \in Files
          /\ DbReset(Conn(c).originalFileId) /\ UNCHANGED disk
          /\ Conn(c).inFile # Closed \/ Conn(c).outFile # Closed
      BY <2>3 DEF Abort, fileVars
    <3>2. Conn(c).originalFileId = Conn(c).originalFileName
      BY <1>1, <3>1, OwnConn DEF IdStored
    <3>3. HeldBySession(session[c], Conn(c).originalFileId)
      BY <3>2 DEF HeldBySession, Conn
    <3>4. Held(Conn(c).originalFileId)
      BY <3>1, <3>3 DEF Held
    <3> QED
      BY <1>1, <2>0, <3>1, <3>4 DEF DbReset
  <2>4. CASE WatchAdd
    <3>1. /\ watch.src \in FileIds /\ watch.dst \in Names \cup {NoName} /\ UNCHANGED disk
          /\ DbAddFile(watch.src, IF watch.src = NoFile THEN 0 ELSE FileLen[watch.src],
                       watch.dst, watch.queue)
      BY <2>0, <2>4 DEF WatchAdd, WatchEvents
    <3>2. status'[f] = status[f] \/ status[f] = NoRow \/ status'[f] = OK
      BY <2>0, <3>1, AddFileRows
    <3> QED
      BY <1>1, <3>1, <3>2 DEF OK, NoRow
  <2>5. CASE MainRecordFailure \/ MainRecord
    <3>1. HeldByMain(ftm.originalFileId) /\ f # ftm.originalFileId
      BY <1>1 DEF HeldByMain, Held
    <3>2. UNCHANGED disk /\ status'[f] = status[f]
      BY <2>0, <2>5, <3>1 DEF MainRecordFailure, MainRecord, DbAddEncodedFile, fileVars
    <3> QED
      BY <1>1, <3>2
  <2>6. CASE MainMove
    <3>1. /\ ftm.originalFileId \in Files /\ ftm.originalFileId = ftm.originalFileName
          /\ f # ftm.originalFileId
      BY <1>1, <2>0, <2>6 DEF MainMove, DataInv, MainHasFile, IdsStored, HeldByMain, Held
    <3>2. ArchiveName[f] # ArchiveName[ftm.originalFileName]
      BY <3>1 DEF NamesDistinct
    <3>3. UNCHANGED status
      BY <2>6 DEF MainMove, dbVars
    <3>4. disk'[ArchiveName[f]] = disk[ArchiveName[f]]
      BY <2>0, <2>6, <3>2 DEF MainMove, DaemonAssumption, FileIds
    <3> QED
      BY <1>1, <3>3, <3>4
  <2>7. ASSUME NEW c \in Clients,
               \/ ClientStep(c) /\ ~\E g \in Files : GetNextFile(c, g) \/ GetNextFileFails(c, g)
               \/ LostCall(c) \/ Break(c) \/ Die(c)
               \/ Abort(c) /\ UNCHANGED dbVars
        PROVE  UNCHANGED <<status, disk>>
    BY <2>7 DEF ClientStep, Authenticate, AuthenticateFails, GetNextFileNone, ReadChunk,
       TransferError, SendEmpty, Reset, Encode, PostFile, PostFileError, WriteChunk, LostCall,
       Break, Die, Abort,
       dbVars, fileVars
  <2>8. MainLoop \/ MainWake \/ SpuriousWakeup \/ Restart \/ WatchStat \/ UNCHANGED vars
          => UNCHANGED <<status, disk>>
    BY DEF MainLoop, MainWake, SpuriousWakeup, Restart, WatchStat, vars, dbVars, fileVars
  <2> QED
    BY <1>1, <2>1, <2>2, <2>3, <2>4, <2>5, <2>6, <2>7, <2>8 DEF Next, MainStep
<1>2. Init => DataInv /\ HolderInv
  BY InitData, InitHolder
<1>3. DataInv /\ HolderInv /\ [Next]_vars => (DataInv /\ HolderInv)'
  BY NextData, NextHolder
<1>4. DataInv /\ HolderInv /\ [Next]_vars =>
        [\A f \in Files : status[f] = OK /\ ~Held(f) =>
           /\ status'[f] = OK
           /\ disk'[ArchiveName[f]] = disk[ArchiveName[f]]]_vars
  BY <1>1
<1> QED
  BY <1>2, <1>3, <1>4, PTL DEF Spec, DoneIsFinal

-----------------------------------------------------------------------------
\* A handler changes the caller's connection only: it keeps its file, loses it,
\* or gets the one getNextFile() has reserved.
LEMMA HandlerConn ==
  ASSUME DbAssumption, DaemonAssumption, DataInv, HolderInv, NEW c \in Clients,
         ClientStep(c) \/ Abort(c), ~Authenticate(c), ~UNCHANGED m_connections
  PROVE  /\ session[c] \in Sessions
         /\ \E cli \in Conns :
              /\ SetConn(c, cli) /\ cli.token = c
              /\ \/ cli.originalFileName \in {NoFile, Conn(c).originalFileName}
                 \/ \E f \in Files : GetNextFile(c, f) /\ cli.originalFileName = f
<1>0. /\ session[c] \in Sessions /\ Conn(c) \in Conns /\ Conn(c).token = c
      /\ result[c] \in EncResults
  <2>1. session[c] \in Sessions
    BY DEF ClientStep, AuthenticateFails, GetNextFileNone, GetNextFile, GetNextFileFails,
       ReadChunk, TransferError, SendEmpty, Reset, Encode, PostFile, PostFileError, PostAccepted,
       WriteChunk, Abort, Calling, connVars
  <2> QED
    BY <2>1, OwnConn DEF DataInv, TypeOK, ClientTypeOK
<1> DEFINE Result == \E cli \in Conns :
              /\ SetConn(c, cli) /\ cli.token = c
              /\ \/ cli.originalFileName \in {NoFile, Conn(c).originalFileName}
                 \/ \E f \in Files : GetNextFile(c, f) /\ cli.originalFileName = f
<1> SUFFICES Result
  BY <1>0
<1>1. ASSUME SetConn(c, Cleared(c, NoFile)) PROVE Result
  <2>1. Cleared(c, NoFile) \in Conns
    BY RecordTypes DEF FileIds
  <2> QED
    BY <1>1, <2>1 DEF Cleared
<1>2. ASSUME NEW f \in Files, GetNextFile(c, f) PROVE Result
  <2> DEFINE cli == [Cleared(c, f) EXCEPT !.originalFileName = f, !.inFile = 0]
  <2>1. Cleared(c, f) \in Conns
    BY RecordTypes DEF FileIds
  <2>2. cli \in Conns /\ cli.token = c /\ cli.originalFileName = f
    BY <2>1 DEF Conns, Cleared, FileIds
  <2>3. SetConn(c, cli)
    BY <1>2 DEF GetNextFile
  <2> HIDE DEF cli
  <2> QED
    BY <1>2, <2>2, <2>3
<1>3. ASSUME NEW cli \in Conns, SetConn(c, cli), cli.token = c,
             cli.originalFileName = Conn(c).originalFileName
      PROVE  Result
  BY <1>3
<1> HIDE DEF Result
<1>4. CASE ReadChunk(c)
  <2>1. Conn(c).inFile # Closed /\ SetConn(c, [Conn(c) EXCEPT !.inFile = @ + 1])
    BY <1>4 DEF ReadChunk, ReadAccepted
  <2>2. /\ [Conn(c) EXCEPT !.inFile = @ + 1] \in Conns
        /\ [Conn(c) EXCEPT !.inFile = @ + 1].token = c
        /\ [Conn(c) EXCEPT !.inFile = @ + 1].originalFileName = Conn(c).originalFileName
    BY <1>0, <2>1 DEF Conns
  <2> QED
    BY <1>3, <2>1, <2>2
<1>5. CASE Reset(c)
  <2>1. \A new \in {[Conn(c) EXCEPT !.inFile = 0], [Conn(c) EXCEPT !.outFile = 0], Conn(c)} :
          /\ new \in Conns /\ new.token = c
          /\ new.originalFileName = Conn(c).originalFileName
    BY <1>0 DEF Conns
  <2>2. \E new \in {[Conn(c) EXCEPT !.inFile = 0], [Conn(c) EXCEPT !.outFile = 0], Conn(c)} :
          SetConn(c, new)
    BY <1>5 DEF Reset
  <2> QED
    BY <1>3, <2>1, <2>2
<1>6. CASE PostFile(c)
  <2> DEFINE cli == [Conn(c) EXCEPT !.inFile = Closed, !.encResult = result[c]]
  <2>1. \A new \in {cli, [cli EXCEPT !.outFile = 0]} :
          /\ new \in Conns /\ new.token = c
          /\ new.originalFileName = Conn(c).originalFileName
    BY <1>0 DEF Conns
  <2>2. \E new \in {cli, [cli EXCEPT !.outFile = 0]} : SetConn(c, new)
    BY <1>6 DEF PostFile
  <2> HIDE DEF cli
  <2> QED
    BY <1>3, <2>1, <2>2
<1>7. CASE PostFileError(c)
  <2> DEFINE cli == [Conn(c) EXCEPT !.inFile = Closed, !.encResult = result[c]]
  <2>1. cli.token = c /\ PrepareNewSession(session[c], cli)
    BY <1>0, <1>7 DEF PostFileError, Conns
  <2> HIDE DEF cli
  <2>2. SetConn(c, Cleared(c, NoFile))
    BY <2>1 DEF PrepareNewSession, SetConn
  <2> QED
    BY <1>1, <2>2
<1>8. CASE WriteChunk(c)
  <2>1. CASE PrepareNewSession(session[c], Conn(c))
    BY <1>0, <1>1, <2>1 DEF PrepareNewSession, SetConn
  <2>2. ASSUME NEW tellp \in {Conn(c).outFile + 1, Failed},
               SetConn(c, [Conn(c) EXCEPT !.outFile = tellp]), AsSize(tellp) < Conn(c).encResult.fileLength
        PROVE  Result
    <3>1. tellp # Failed
      BY <1>0, <2>2 DEF AsSize, Conns, EncResults, DaemonAssumption
    <3>2. Conn(c).outFile # Closed
      BY <1>8 DEF WriteChunk, WriteAccepted
    <3>3. /\ [Conn(c) EXCEPT !.outFile = tellp] \in Conns
          /\ [Conn(c) EXCEPT !.outFile = tellp].token = c
          /\ [Conn(c) EXCEPT !.outFile = tellp].originalFileName = Conn(c).originalFileName
      BY <1>0, <2>2, <3>1, <3>2 DEF Conns
    <3> QED
      BY <1>3, <2>2, <3>3
  <2> QED
    BY <1>8, <2>1, <2>2 DEF WriteChunk
<1>9. CASE Abort(c) \/ GetNextFileNone(c) \/ \E f \in Files : GetNextFileFails(c, f)
  BY <1>1, <1>9 DEF Abort, GetNextFileNone, GetNextFileFails
<1>10. AuthenticateFails(c) \/ TransferError(c) \/ SendEmpty(c) \/ Encode(c) => UNCHANGED m_connections
  BY DEF AuthenticateFails, TransferError, SendEmpty, Encode, connVars
<1> QED
  BY <1>2, <1>4, <1>5, <1>6, <1>7, <1>8, <1>9, <1>10 DEF ClientStep

\* What a client encodes is what its connection has handed out.
SourceKnown ==
  \A s \in Sessions, c \in Clients :
    m_connections[s].token = c /\ phase[c] \notin Resting
      => m_connections[s].originalFileName \in {source[c], NoFile}

\* A client starts to work only with the file getNextFile() has sent, and keeps
\* it until it is at rest again.
LEMMA SourceKept ==
  ASSUME DataInv, NEW c \in Clients, ClientStep(c) \/ Abort(c) \/ LostCall(c) \/ Break(c) \/ Die(c),
         phase'[c] \notin Resting
  PROVE  \/ phase[c] \notin Resting /\ source'[c] = source[c]
         \/ \E f \in Files : GetNextFile(c, f) /\ source'[c] = f
<1>0. ClientTypeOK
  BY DEF DataInv, TypeOK
<1>1. CASE Authenticate(c) \/ AuthenticateFails(c) \/ GetNextFileNone(c)
  BY <1>0, <1>1 DEF Authenticate, AuthenticateFails, GetNextFileNone, Answer, ClientTypeOK,
     Resting
<1>2. ASSUME NEW f \in Files, GetNextFile(c, f) \/ GetNextFileFails(c, f)
      PROVE  \/ phase[c] \notin Resting /\ source'[c] = source[c]
             \/ GetNextFile(c, f) /\ source'[c] = f
  BY <1>0, <1>2 DEF GetNextFile, GetNextFileFails, Answer, clientVars, ClientTypeOK, Resting,
     Calling
<1>3. CASE ReadChunk(c) \/ TransferError(c) \/ SendEmpty(c) \/ PostFile(c)
  BY <1>0, <1>3 DEF ReadChunk, TransferError, SendEmpty, PostFile, PostAccepted, Calling,
     Answer, clientVars,
     ClientTypeOK, Resting
<1>4. CASE Encode(c) \/ PostFileError(c) \/ WriteChunk(c)
  BY <1>0, <1>4 DEF Encode, PostFileError, PostAccepted, WriteChunk, Calling, BecomesIdle, Finishes,
     Answer, clientVars, ClientTypeOK, Resting
<1>5. CASE Reset(c) \/ Abort(c) \/ LostCall(c) \/ Die(c)
  <2>1. CASE Leaves(c)
    BY <1>0, <2>1 DEF Leaves, ClientTypeOK, Resting
  <2>2. CASE UNCHANGED source /\ (phase[c] \in {"receiving", "transmitting"} \/ UNCHANGED phase)
    BY <2>2 DEF Resting
  <2> QED
    BY <1>5, <2>1, <2>2 DEF Reset, Abort, LostCall, Die, Calling
<1>6. CASE Break(c)
  BY <1>6 DEF Break, Disconnected, Resting
<1> QED
  BY <1>1, <1>2, <1>3, <1>4, <1>5, <1>6 DEF ClientStep

\* authenticate() moves the connections of the caller, or makes one without a
\* file; it touches no other's.
LEMMA AuthenticateConn ==
  ASSUME DbAssumption, DaemonAssumption, DataInv, NEW c \in Clients, Authenticate(c)
  PROVE  /\ \A s \in Sessions, d \in Clients :
              d # c => (m_connections'[s].token = d <=> m_connections[s].token = d)
                       /\ (m_connections[s].token = d => m_connections'[s] = m_connections[s])
         /\ \A s \in Sessions : m_connections'[s].token = c =>
              \/ m_connections'[s].originalFileName = NoFile
              \/ \E t \in Sessions : m_connections[t].token = c
                                     /\ m_connections'[s] = m_connections[t]
         /\ \A t \in Sessions : m_connections[t].token = c =>
              \E u, s \in Sessions : m_connections[u].token = c
                                     /\ m_connections'[s] = m_connections[u]
<1>0. NoClient \notin Clients
  BY DEF DaemonAssumption
<1>1. PICK id \in Sessions : \E cl :
        /\ \/ \E s \in Sessions : m_connections[s].token = c /\ cl = m_connections[s]
           \/ /\ \A s \in Sessions : m_connections[s].token # c
              /\ \E g \in Garbage : cl = Cleared(c, g)
        /\ m_connections[id].token = NoClient
        /\ m_connections' = MovedTo(c, id, cl)
  BY DEF Authenticate
<1>2. PICK cl :
        /\ \/ \E s \in Sessions : m_connections[s].token = c /\ cl = m_connections[s]
           \/ /\ \A s \in Sessions : m_connections[s].token # c
              /\ \E g \in Garbage : cl = Cleared(c, g)
        /\ m_connections[id].token = NoClient
        /\ m_connections' = MovedTo(c, id, cl)
  BY <1>1
<1>3. \A s \in Sessions :
        m_connections'[s] = IF s = id THEN cl
                            ELSE IF m_connections[s].token = c THEN NoConn
                            ELSE m_connections[s]
  BY <1>2 DEF MovedTo
<1>4. cl.token = c
  BY <1>2 DEF Cleared
<1> QED
  BY <1>0, <1>2, <1>3, <1>4 DEF NoConn, Cleared

\* What a client encodes is what was handed out to it, by every step.
LEMMA NextSourceKnown ==
  ASSUME DbAssumption, DaemonAssumption, DataInv, HolderInv, SourceKnown, [Next]_vars
  PROVE  SourceKnown'
<1>0. NoClient \notin Clients
  BY DEF DaemonAssumption
<1>1. ASSUME NEW c \in Clients, ClientStep(c) \/ Abort(c) \/ LostCall(c) \/ Break(c) \/ Die(c),
             NEW s \in Sessions, NEW d \in Clients, m_connections'[s].token = d,
             phase'[d] \notin Resting
      PROVE  m_connections'[s].originalFileName \in {source'[d], NoFile}
  <2>1. CASE d # c
    <3>1. phase'[d] = phase[d] /\ source'[d] = source[d]
      BY <1>1, <2>1, OthersKept
    <3>2. m_connections'[s] = m_connections[s]
      <4>1. CASE Authenticate(c)
        BY <1>1, <2>1, <4>1, AuthenticateConn
      <4>2. CASE ~Authenticate(c) /\ (ClientStep(c) \/ Abort(c)) /\ ~UNCHANGED m_connections
        BY <1>1, <2>1, <4>2, HandlerConn, SetConnAt
      <4> QED
        BY <1>1, <4>1, <4>2 DEF LostCall, Break, Die, connVars
    <3> QED
      BY <1>1, <3>1, <3>2 DEF SourceKnown
  <2>2. CASE d = c
    <3>1. CASE \E f \in Files : GetNextFile(c, f) /\ source'[c] = f
      <4>1. PICK f \in Files : GetNextFile(c, f) /\ source'[c] = f
        BY <3>1
      <4>2. session[c] \in Sessions
        BY <4>1 DEF GetNextFile, Calling
      <4>3. m_connections'[session[c]].originalFileName = f
        <5> DEFINE cli == [Cleared(c, f) EXCEPT !.originalFileName = f, !.inFile = 0]
        <5>1. cli.originalFileName = f
          BY DEF Cleared
        <5>2. SetConn(c, cli)
          BY <4>1 DEF GetNextFile
        <5> HIDE DEF cli
        <5> QED
          BY <4>2, <5>1, <5>2, SetConnAt
      <4>4. s = session[c]
        <5>1. \A t \in Sessions : t # session[c] => m_connections'[t] = m_connections[t]
          BY <4>1, <4>2, SetConnAt DEF GetNextFile
        <5>2. \A t \in Sessions : m_connections[t].token = c <=> t = session[c]
          BY <4>2, OnlyConn
        <5> QED
          BY <1>1, <2>2, <5>1, <5>2
      <4> QED
        BY <2>2, <4>1, <4>3, <4>4
    <3>2. CASE phase[c] \notin Resting /\ source'[c] = source[c]
      <4>1. CASE Authenticate(c)
        BY <1>1, <2>2, <3>2, <4>1, AuthenticateConn DEF SourceKnown
      <4>2. CASE ~Authenticate(c) /\ (ClientStep(c) \/ Abort(c)) /\ ~UNCHANGED m_connections
        <5>1. PICK cli \in Conns :
                /\ session[c] \in Sessions /\ SetConn(c, cli)
                /\ \/ cli.originalFileName \in {NoFile, Conn(c).originalFileName}
                   \/ \E f \in Files : GetNextFile(c, f)
          BY <4>2, HandlerConn
        <5>2. ~\E f \in Files : GetNextFile(c, f)
          BY <3>2 DEF GetNextFile, Calling, Resting
        <5>3. Conn(c).originalFileName \in {source[c], NoFile}
          BY <3>2, <5>1, OwnConn DEF SourceKnown, Conn
        <5> QED
          BY <1>1, <2>2, <3>2, <5>1, <5>2, <5>3, SetConnAt DEF SourceKnown
      <4>3. CASE UNCHANGED m_connections
        BY <1>1, <2>2, <3>2, <4>3 DEF SourceKnown
      <4> QED
        BY <1>1, <4>1, <4>2, <4>3 DEF LostCall, Break, Die, connVars
    <3> QED
      BY <1>1, <2>2, <3>1, <3>2, SourceKept
  <2> QED
    BY <2>1, <2>2
<1>2. CASE Restart
  BY <1>0, <1>2 DEF Restart, SourceKnown, NoConn, Cleared
<1>3. CASE MainStep \/ SpuriousWakeup \/ WatchStat \/ WatchAdd \/ UNCHANGED vars
  <2>1. UNCHANGED <<m_connections, phase, source>>
    BY <1>3 DEF MainStep, MainLoop, MainWake, MainRecordFailure, MainMove, MainRecord,
       SpuriousWakeup, WatchStat, WatchAdd, connVars, clientVars, vars
  <2> QED
    BY <2>1 DEF SourceKnown
<1> QED
  BY <1>1, <1>2, <1>3 DEF Next, SourceKnown

\* There are no connections with a file at the start.
LEMMA InitSource ==
  ASSUME DbAssumption, DaemonAssumption, Init
  PROVE  SourceKnown
BY DEF Init, SourceKnown, NoConn, Cleared

-----------------------------------------------------------------------------
\* The complete encoding of f.
Whole(f) == [of |-> f, len |-> EncLen]

\* An entry with data has its temporary file, complete.
EntryWhole(e) ==
  WithData(e.encResult) =>
    e.originalFileId \in Files /\ temp[e.originalFileId] = Whole(e.originalFileId)

\* So have all entries on their way to being moved.
QueueWhole ==
  /\ \A i \in 1..Len(m_filesToMove) : EntryWhole(m_filesToMove[i])
  /\ main = "move" => EntryWhole(ftm)

\* The last writeChunk() has written the whole file: the announced length is
\* that of the encoding, and the position has reached it.
LEMMA LastChunk ==
  ASSUME DbAssumption, DaemonAssumption, "diskFull" \notin Events, QueueInv, SourceKnown,
         NEW c \in Clients, WriteChunk(c)
  PROVE  /\ session[c] \in Sessions
         /\ Conn(c).originalFileId = Conn(c).originalFileName
         /\ Conn(c).originalFileId \in Files
         /\ \A f \in Files : f # Conn(c).originalFileId => temp'[f] = temp[f]
         /\ \/ UNCHANGED <<m_filesToMove, main, ftm>>
            \/ /\ PrepareNewSession(session[c], Conn(c))
               /\ temp'[Conn(c).originalFileId] = Whole(Conn(c).originalFileId)
               /\ main' = Notified /\ UNCHANGED ftm
<1>1. /\ session[c] \in Sessions /\ phase[c] = "transmitting"
      /\ Conn(c).originalFileId # NoFile /\ Conn(c).outFile # Closed
      /\ Conn(c).outFile + 1 <= Conn(c).encResult.fileLength
  BY DEF WriteChunk, Calling, WriteAccepted
<1>2. /\ Conn(c) \in Conns /\ Conn(c).token = c
      /\ Conn(c).originalFileId = Conn(c).originalFileName
  BY <1>1, OwnConn DEF QueueInv, IdStored
<1>3. Conn(c).originalFileId \in Files /\ source[c] = Conn(c).originalFileId
  <2>1. Conn(c).originalFileName \in {source[c], NoFile}
    BY <1>1, <1>2 DEF SourceKnown, Conn, Resting
  <2> QED
    BY <1>1, <1>2, <2>1 DEF Conns, FileIds
<1>4. Conn(c).outFile \in Nat /\ EncLen \in Nat \ {0}
      /\ Conn(c).encResult \in ClientResults
  BY <1>1, <1>2 DEF Conns, DaemonAssumption, QueueInv, ResultsIn, Conn
<1>5. Conn(c).encResult.fileLength \in {0, EncLen}
  BY <1>4 DEF ClientResults, NoResult
<1>6. PICK id \in Files, n \in Nat : id = Conn(c).originalFileId /\ n = Conn(c).outFile
  BY <1>3, <1>4
<1>7. temp \in [FileIds -> Contents] /\ id \in FileIds
  BY DEF QueueInv, DataInv, TypeOK, FileIds
<1>8. n \in Nat /\ n + 1 <= EncLen /\ n + 1 # Failed /\ AsSize(n + 1) = n + 1
  BY <1>1, <1>4, <1>5, <1>6 DEF Failed, AsSize
<1>9. /\ temp' = IF temp[id].of = id /\ temp[id].len > n + 1 THEN temp
                 ELSE [temp EXCEPT ![id] = [of |-> id, len |-> n + 1]]
      /\ \/ UNCHANGED <<m_filesToMove, main>>
         \/ /\ n + 1 >= Conn(c).encResult.fileLength
            /\ PrepareNewSession(session[c], Conn(c))
            /\ main' = Notified
  <2>1. \E tellp \in {n + 1} :
         /\ temp' = IF tellp = Failed \/ (temp[id].of = source[c] /\ temp[id].len > tellp) THEN temp
                    ELSE [temp EXCEPT ![id] = [of |-> source[c], len |-> tellp]]
         /\ \/ UNCHANGED <<m_filesToMove, main>>
            \/ /\ AsSize(tellp) >= Conn(c).encResult.fileLength
               /\ PrepareNewSession(session[c], Conn(c))
               /\ main' = Notified
    BY <1>6 DEF WriteChunk
  <2> QED
    BY <1>3, <1>6, <1>8, <2>1
<1>10. \A f \in Files : f # id => temp'[f] = temp[f]
  BY <1>7, <1>9 DEF FileIds
<1>11. n + 1 >= Conn(c).encResult.fileLength => temp'[id] = Whole(id)
  <2>1. n + 1 >= Conn(c).encResult.fileLength => n + 1 = EncLen
    BY <1>1, <1>4, <1>5, <1>6
  <2>2. temp[id].len <= EncLen
    BY <1>4, <1>7 DEF Contents
  <2>3. n + 1 = EncLen => ~(temp[id].len > n + 1)
    BY <1>4, <1>7, <2>2 DEF Contents
  <2> QED
    BY <1>7, <1>9, <2>1, <2>3 DEF Whole
<1>12. UNCHANGED ftm
  BY DEF WriteChunk
<1> QED
  BY <1>1, <1>2, <1>6, <1>9, <1>10, <1>11, <1>12

\* Entries stay whole while their temporary files stay.
LEMMA EntriesKept ==
  ASSUME QueueInv, QueueWhole, NEW h,
         \A f \in Files : f # h => temp'[f] = temp[f],
         UNCHANGED <<m_filesToMove, ftm>>, main' = "move" => main = "move",
         \A i \in 1..Len(m_filesToMove) : h \in Files => ~Queued(i, h),
         h \in Files /\ main' = "move" => ~HeldByMain(h)
  PROVE  QueueWhole'
BY DEF QueueWhole, EntryWhole, Queued, HeldByMain, Whole

\* So they do when an entry is added.
LEMMA EntriesAppended ==
  ASSUME DataInv, QueueWhole, NEW s \in Sessions, NEW cli \in Conns,
         PrepareNewSession(s, cli), NEW h,
         \A f \in Files : f # h => temp'[f] = temp[f],
         UNCHANGED ftm, main' = "move" => main = "move",
         \A i \in 1..Len(m_filesToMove) : h \in Files => ~Queued(i, h),
         h \in Files => ~HeldByMain(h),
         WithData(cli.encResult) =>
           cli.originalFileId \in Files
           /\ temp'[cli.originalFileId] = Whole(cli.originalFileId)
  PROVE  QueueWhole'
<1>1. PICK n \in Nat, entry \in FilesToMove :
        /\ n = Len(m_filesToMove) /\ Len(m_filesToMove') = n + 1
        /\ \A i \in 1..n : m_filesToMove'[i] = m_filesToMove[i]
        /\ m_filesToMove'[n + 1] = entry
        /\ entry.originalFileId = cli.originalFileId
        /\ entry.originalFileName = cli.originalFileName
        /\ entry.encResult = cli.encResult
  BY Appended
<1>2. \A i \in 1..Len(m_filesToMove') : i \in 1..n \/ i = n + 1
  BY <1>1
<1>3. \A i \in 1..n : EntryWhole(m_filesToMove[i])'
  BY <1>1 DEF QueueWhole, EntryWhole, Queued, Whole
<1>4. EntryWhole(m_filesToMove[n + 1])'
  BY <1>1 DEF EntryWhole, Whole
<1>5. main' = "move" => EntryWhole(ftm)'
  BY DEF QueueWhole, EntryWhole, HeldByMain, Whole
<1> QED
  BY <1>1, <1>2, <1>3, <1>4, <1>5 DEF QueueWhole

\* Entries stay whole: a temporary file belongs to one upload until it is
\* moved.
LEMMA NextQueueWhole ==
  ASSUME DbAssumption, DaemonAssumption, "diskFull" \notin Events, QueueInv, SourceKnown,
         QueueWhole, [Next]_vars
  PROVE  QueueWhole'
<1>0. /\ DataInv /\ HolderInv /\ OneHolder /\ NoFile \notin Files
      /\ temp \in [FileIds -> Contents]
      /\ Notified = "move" => main = "move"
  BY DEF QueueInv, HolderInv, DbAssumption, DataInv, TypeOK, Notified
<1>1. ASSUME NEW c \in Clients, session[c] \in Sessions,
             NEW h, h = Conn(c).originalFileName, h \in Files
      PROVE  ~HeldByMain(h) /\ \A i \in 1..Len(m_filesToMove) : ~Queued(i, h)
  BY <1>0, <1>1 DEF OneHolder, HeldBySession, Conn
<1>2. ASSUME NEW c \in Clients, PostFile(c) PROVE QueueWhole'
  <2> DEFINE cli == [Conn(c) EXCEPT !.inFile = Closed, !.encResult = result[c]]
  <2>1. /\ session[c] \in Sessions /\ phase[c] = "sending"
        /\ UNCHANGED <<m_filesToMove, ftm, main>>
    BY <1>2 DEF PostFile, PostAccepted, Calling, mainVars
  <2>2. PICK h : h = Conn(c).originalFileName
    OBVIOUS
  <2>3. Conn(c) \in Conns /\ Conn(c).originalFileId = h
    BY <1>0, <2>1, <2>2, OwnConn DEF IdStored
  <2>4. cli.originalFileId = h
    BY <2>3 DEF Conns
  <2>5. UNCHANGED temp \/ \E x : temp' = [temp EXCEPT ![cli.originalFileId] = x]
    BY <1>2 DEF PostFile
  <2> HIDE DEF cli
  <2>6. \A f \in Files : f # h => temp'[f] = temp[f]
    BY <1>0, <2>4, <2>5 DEF FileIds
  <2> QED
    BY <1>1, <2>1, <2>2, <2>6, EntriesKept
<1>3. ASSUME NEW c \in Clients, PostFileError(c) PROVE QueueWhole'
  <2> DEFINE cli == [Conn(c) EXCEPT !.inFile = Closed, !.encResult = result[c]]
  <2>1. /\ session[c] \in Sessions /\ PrepareNewSession(session[c], cli)
        /\ UNCHANGED <<ftm, temp>> /\ main' = Notified /\ ~WithData(result[c])
    BY <1>3 DEF PostFileError, PostAccepted, Calling, fileVars
  <2>2. cli \in Conns /\ cli.encResult = result[c]
    <3>1. Conn(c) \in Conns /\ result[c] \in EncResults
      BY <1>0, <2>1, OwnConn DEF DataInv, TypeOK, ClientTypeOK
    <3> QED
      BY <3>1 DEF Conns
  <2> HIDE DEF cli
  <2> QED
    BY <1>0, <2>1, <2>2, EntriesAppended
<1>4. ASSUME NEW c \in Clients, WriteChunk(c) PROVE QueueWhole'
  <2>1. PICK h : h = Conn(c).originalFileId
    OBVIOUS
  <2>2. /\ session[c] \in Sessions /\ h = Conn(c).originalFileName /\ h \in Files
        /\ \A f \in Files : f # h => temp'[f] = temp[f]
        /\ \/ UNCHANGED <<m_filesToMove, main, ftm>>
           \/ /\ PrepareNewSession(session[c], Conn(c))
              /\ temp'[h] = Whole(h)
              /\ main' = Notified /\ UNCHANGED ftm
    BY <1>4, <2>1, LastChunk
  <2>3. ~HeldByMain(h) /\ \A i \in 1..Len(m_filesToMove) : ~Queued(i, h)
    BY <1>1, <2>2
  <2>4. PICK cli \in Conns : cli = Conn(c)
    BY <1>0, <2>2, OwnConn
  <2>5. CASE UNCHANGED <<m_filesToMove, main, ftm>>
    BY <2>2, <2>3, <2>5, EntriesKept
  <2>6. CASE /\ PrepareNewSession(session[c], Conn(c))
             /\ temp'[h] = Whole(h)
             /\ main' = Notified /\ UNCHANGED ftm
    <3>1. /\ PrepareNewSession(session[c], cli) /\ cli.originalFileId = h
          /\ main' = "move" => main = "move"
      BY <1>0, <2>1, <2>4, <2>6
    <3> QED
      BY <1>0, <2>2, <2>3, <2>6, <3>1, EntriesAppended
  <2> QED
    BY <2>2, <2>5, <2>6
<1>5. CASE MainLoop
  <2>1. UNCHANGED temp /\ main = "loop"
    BY <1>5 DEF MainLoop, fileVars
  <2>2. CASE UNCHANGED <<m_filesToMove, ftm>> /\ main' # "move"
    BY <2>1, <2>2 DEF QueueWhole, EntryWhole, Whole
  <2>3. CASE m_filesToMove # <<>> /\ m_filesToMove' = Tail(m_filesToMove)
    <3>1. PICK n \in Nat :
            /\ n >= 1 /\ n = Len(m_filesToMove) /\ Len(m_filesToMove') = n - 1
            /\ \A i \in 1..(n - 1) : m_filesToMove'[i] = m_filesToMove[i + 1]
            /\ Head(m_filesToMove) = m_filesToMove[1]
      BY <1>0, <2>3, HeadTaken
    <3>2. main' = "move" => ftm' = m_filesToMove[1]
      BY <1>5, <2>1, <3>1 DEF MainLoop
    <3> QED
      BY <2>1, <3>1, <3>2 DEF QueueWhole, EntryWhole, Whole
  <2> QED
    BY <1>5, <2>1, <2>2, <2>3 DEF MainLoop
<1>6. CASE MainMove
  <2>1. /\ UNCHANGED <<m_filesToMove, ftm>> /\ main' # "move" /\ main = "move"
    BY <1>6 DEF MainMove, connVars
  <2>2. UNCHANGED temp \/ temp' = [temp EXCEPT ![ftm.originalFileId] = NoContent]
    BY <1>6 DEF MainMove
  <2>3. PICK h : h = ftm.originalFileId
    OBVIOUS
  <2>4. h \in Files /\ \A i \in 1..Len(m_filesToMove) : ~Queued(i, h)
    BY <1>0, <2>1, <2>3 DEF DataInv, MainHasFile, OneHolder, HeldByMain
  <2>5. \A f \in Files : f # h => temp'[f] = temp[f]
    BY <1>0, <2>2, <2>3 DEF FileIds
  <2> QED
    BY <2>1, <2>4, <2>5, EntriesKept
<1>7. CASE Restart
  <2>1. m_filesToMove' = <<>> /\ main' = "loop"
    BY <1>7 DEF Restart
  <2>2. Len(m_filesToMove') = 0
    BY <2>1
  <2> QED
    BY <2>1, <2>2 DEF QueueWhole
<1>8. ASSUME UNCHANGED <<m_filesToMove, temp>>,
             UNCHANGED <<main, ftm>> \/ main' # "move"
      PROVE  QueueWhole'
  BY <1>8 DEF QueueWhole, EntryWhole, Whole
<1>9. CASE MainWake \/ MainRecordFailure \/ MainRecord \/ SpuriousWakeup \/ WatchStat
           \/ WatchAdd \/ UNCHANGED vars
  BY <1>8, <1>9 DEF MainWake, MainRecordFailure, MainRecord, SpuriousWakeup, WatchStat,
     WatchAdd, vars, connVars, mainVars, fileVars
<1>10. ASSUME NEW c \in Clients, ClientStep(c) \/ Abort(c) \/ LostCall(c) \/ Break(c) \/ Die(c),
              ~PostFile(c), ~PostFileError(c), ~WriteChunk(c)
       PROVE  QueueWhole'
  BY <1>8, <1>10 DEF ClientStep, Authenticate, AuthenticateFails, GetNextFileNone, GetNextFile,
     GetNextFileFails, ReadChunk, TransferError, SendEmpty, Reset, Encode, LostCall, Break, Die,
     Abort, connVars,
     mainVars, fileVars
<1> QED
  BY <1>2, <1>3, <1>4, <1>5, <1>6, <1>7, <1>9, <1>10 DEF Next, MainStep

\* A file in the queue that is said to be encoded has been received whole,
\* across rewound and repeated uploads, lost answers and results posted twice:
\* as long as the disk does not fill up.
THEOREM DaemonUploadComplete ==
  ASSUME DbAssumption, DaemonAssumption, IdsHarmless, "diskFull" \notin Events
  PROVE  Spec => []UploadComplete
<1>1. Init => QueueInv /\ SourceKnown /\ QueueWhole
  <2>1. ASSUME Init PROVE QueueWhole
    <3>1. m_filesToMove = <<>> /\ main = "loop"
      BY <2>1 DEF Init
    <3>2. Len(m_filesToMove) = 0
      BY <3>1
    <3> QED
      BY <3>1, <3>2 DEF QueueWhole
  <2> QED
    BY <2>1, InitQueue, InitSource
<1>2. QueueInv /\ SourceKnown /\ QueueWhole /\ [Next]_vars => (QueueInv /\ SourceKnown /\ QueueWhole)'
  <2>1. QueueInv => DataInv /\ HolderInv
    BY DEF QueueInv
  <2> QED
    BY <2>1, NextQueue, NextSourceKnown, NextQueueWhole
<1>3. QueueInv /\ QueueWhole => UploadComplete
  BY DEF QueueInv, HolderInv, HoldersTied, IdsStored, QueueWhole, EntryWhole, UploadComplete, Whole
<1> QED
  BY <1>1, <1>2, <1>3, PTL DEF Spec

-----------------------------------------------------------------------------
\* The daemon has a source of client c open.
HasSource(c) == \E s \in Sessions : m_connections[s].token = c /\ m_connections[s].inFile # Closed

\* Between the start of a download and the post of its result, and while a
\* result is kept after authenticate() has failed.
NeedsSource(c) == \/ phase[c] \in {"receiving", "encoding"}
                  \/ phase[c] = "sending" /\ session[c] = NoSession
                  \/ phase[c] = "idle" /\ result[c] # NoResult

\* A client starts to encode without an old result: the daemon refuses a new
\* download while the one whose result could not be posted is open.
ResultsFresh ==
  /\ \A c \in Clients : phase[c] \in {"receiving", "encoding"} => result[c] = NoResult
  /\ "connectFails" \notin Events =>
       \A c \in Clients : phase[c] = "idle" => result[c] = NoResult
  /\ "restart" \notin Events => \A c \in Clients : NeedsSource(c) => HasSource(c)

\* A crash and a failing connection do not come together.
ResultsKept == "restart" \notin Events \/ "connectFails" \notin Events

\* A client at rest that may download has no result.
LEMMA DownloadFresh ==
  ASSUME DaemonAssumption, DataInv, HolderInv, ResultsKept, ResultsFresh,
         NEW c \in Clients, Calling(c, "idle"), Conn(c).inFile = Closed
  PROVE  result[c] = NoResult
<1>1. session[c] \in Sessions /\ phase[c] = "idle"
  BY DEF Calling
<1>2. ~HasSource(c)
  BY <1>1, OnlyConn DEF HasSource, Conn
<1> QED
  BY <1>1, <1>2 DEF ResultsKept, ResultsFresh, NeedsSource

\* How a client comes to need a source, or to keep a result.
LEMMA NeedsKept ==
  ASSUME DaemonAssumption, DataInv, HolderInv, ResultsKept, ResultsFresh, NEW c \in Clients,
         ClientStep(c) \/ Abort(c) \/ LostCall(c) \/ Break(c) \/ Die(c)
  PROVE  /\ phase'[c] \in {"receiving", "encoding"} => result'[c] = NoResult
         /\ phase'[c] = "idle" => \/ result'[c] = NoResult
                                  \/ phase[c] = "idle" /\ result'[c] = result[c]
                                  \/ AuthenticateFails(c)
         /\ NeedsSource(c)' =>
              /\ ~PostFile(c) /\ ~PostFileError(c) /\ ~WriteChunk(c) /\ ~Abort(c)
              /\ NeedsSource(c) \/ \E f \in Files : GetNextFile(c, f)
<1>0. /\ ClientTypeOK /\ NoSession \notin Sessions /\ StaleSession # NoSession
      /\ phase[c] \in {"receiving", "encoding"} => result[c] = NoResult
  BY DEF DataInv, TypeOK, DaemonAssumption, ResultsFresh
<1>a. PostFile(c) => Calling(c, "sending") /\ WithData(result[c])
  BY DEF PostFile, PostAccepted
<1>b. PostFileError(c) => Calling(c, "sending") /\ ~WithData(result[c])
  BY DEF PostFileError, PostAccepted
<1>c. WriteChunk(c) => Calling(c, "transmitting")
  BY DEF WriteChunk
<1>1. CASE Authenticate(c)
  <2>1. UNCHANGED <<phase, result>> /\ session'[c] \in Sessions \cup {session[c]}
        /\ session[c] = NoSession /\ phase[c] \in {"idle", "sending"}
    BY <1>0, <1>1 DEF Authenticate, Answer, ClientTypeOK
  <2>2. ~Abort(c)
    BY <1>0, <2>1 DEF Abort
  <2> QED
    BY <1>0, <1>a, <1>b, <1>c, <2>1, <2>2 DEF Calling, NeedsSource
<1>2. CASE AuthenticateFails(c)
  <2>1. session[c] = NoSession /\ phase[c] = "sending" /\ UNCHANGED <<session, result>>
        /\ phase'[c] = "idle"
    BY <1>0, <1>2 DEF AuthenticateFails, ClientTypeOK
  <2>2. ~Abort(c)
    BY <1>0, <2>1 DEF Abort
  <2> QED
    BY <1>0, <1>2, <1>a, <1>b, <1>c, <2>1, <2>2 DEF Calling, NeedsSource
<1>3. CASE GetNextFileNone(c) \/ \E f \in Files : GetNextFile(c, f) \/ GetNextFileFails(c, f)
  <2>1. Calling(c, "idle") /\ Conn(c).inFile = Closed
    BY <1>3 DEF GetNextFileNone, GetNextFile, GetNextFileFails
  <2>2. result[c] = NoResult
    BY <2>1, DownloadFresh
  <2>3. UNCHANGED result
    BY <1>3 DEF GetNextFileNone, GetNextFile, GetNextFileFails, Answer, clientVars
  <2>4. phase'[c] = "idle" \/ \E f \in Files : GetNextFile(c, f) /\ phase'[c] = "receiving"
    BY <1>0, <1>3, <2>1 DEF GetNextFileNone, GetNextFile, GetNextFileFails, Answer, clientVars,
       Calling, ClientTypeOK
  <2>5. NeedsSource(c)' => ~Abort(c)
    BY <1>0, <2>3, <2>4 DEF Abort, Leaves, NeedsSource, ClientTypeOK
  <2> QED
    BY <1>a, <1>b, <1>c, <2>1, <2>2, <2>3, <2>4, <2>5 DEF Calling, NeedsSource
<1>4. CASE ReadChunk(c)
  <2>1. UNCHANGED result /\ phase[c] = "receiving" /\ phase'[c] \in {"receiving", "encoding"}
    BY <1>0, <1>4 DEF ReadChunk, Answer, clientVars, Calling, ClientTypeOK
  <2>2. ~Abort(c)
    BY <1>0, <2>1 DEF Abort, Leaves, ClientTypeOK
  <2> QED
    BY <1>0, <1>a, <1>b, <1>c, <2>1, <2>2 DEF Calling, NeedsSource
<1>5. CASE Encode(c)
  <2>1. phase[c] = "encoding" /\ phase'[c] = "sending"
    BY <1>0, <1>5 DEF Encode, ClientTypeOK
  <2>2. ~Abort(c)
    BY <1>0, <2>1 DEF Abort, Leaves, ClientTypeOK
  <2> QED
    BY <1>0, <1>a, <1>b, <1>c, <2>1, <2>2 DEF Calling, NeedsSource
<1>6. CASE PostFile(c)
  <2>1. phase'[c] \in {"sending", "transmitting"} /\ session'[c] \in Sessions
    BY <1>0, <1>6 DEF PostFile, PostAccepted, Answer, clientVars, Calling, ClientTypeOK
  <2> QED
    BY <1>0, <2>1 DEF NeedsSource
<1>7. CASE PostFileError(c) \/ WriteChunk(c)
  <2>1. \/ phase'[c] = "idle" /\ result'[c] = NoResult
        \/ phase'[c] \in {"sending", "transmitting"} /\ session'[c] \in Sessions
    BY <1>0, <1>7 DEF PostFileError, WriteChunk, PostAccepted, Answer, BecomesIdle, Finishes,
       clientVars,
       Calling, ClientTypeOK
  <2> QED
    BY <1>0, <2>1 DEF NeedsSource
<1>8. ASSUME Leaves(c)
      PROVE  phase'[c] = "gone"
  BY <1>0, <1>8 DEF Leaves, ClientTypeOK
<1>9. CASE Abort(c) \/ Die(c)
  BY <1>8, <1>9 DEF Abort, Die, NeedsSource
<1>10. CASE /\ Reset(c) \/ TransferError(c) \/ SendEmpty(c)
            /\ ~PostFile(c) /\ ~PostFileError(c) /\ ~WriteChunk(c) /\ ~Abort(c)
  BY <1>0, <1>8, <1>10 DEF Reset, TransferError, SendEmpty, NeedsSource
<1>11. CASE Break(c) /\ ~PostFile(c) /\ ~PostFileError(c) /\ ~WriteChunk(c) /\ ~Abort(c)
  <2>1. \/ phase'[c] = "gone"
        \/ phase'[c] = phase[c] /\ result'[c] = result[c] /\ session'[c] = StaleSession
    BY <1>0, <1>11 DEF Break, Disconnected
  <2> QED
    BY <1>0, <1>11, <2>1 DEF NeedsSource
<1>12. CASE LostCall(c)
  <2>1. \/ Leaves(c)
        \/ /\ UNCHANGED <<session, result>> /\ session[c] \in Sessions
           /\ \/ phase[c] = "receiving" /\ phase'[c] = "receiving"
              \/ phase[c] = "transmitting" /\ phase'[c] \in {"transmitting", "looping"}
    BY <1>0, <1>12 DEF LostCall, Calling, ClientTypeOK
  <2>2. ASSUME phase[c] = "receiving", phase'[c] = "receiving" PROVE ~Abort(c)
    BY <1>0, <2>2 DEF Abort, Leaves, ClientTypeOK
  <2> QED
    BY <1>0, <1>8, <1>a, <1>b, <1>c, <2>1, <2>2 DEF Calling, NeedsSource
<1> QED
  BY <1>1, <1>2, <1>3, <1>4, <1>5, <1>6, <1>7, <1>9, <1>10, <1>11, <1>12 DEF ClientStep

\* An open source stays open until its client posts or leaves; other clients
\* do not close it.
LEMMA SourceStays ==
  ASSUME DbAssumption, DaemonAssumption, DataInv, HolderInv, NEW c \in Clients,
         ClientStep(c) \/ Abort(c) \/ LostCall(c) \/ Break(c) \/ Die(c)
  PROVE  /\ \A d \in Clients : d # c /\ HasSource(d) => HasSource(d)'
         /\ HasSource(c) => \/ HasSource(c)'
                            \/ PostFile(c) \/ PostFileError(c) \/ WriteChunk(c) \/ Abort(c)
         /\ \A f \in Files : GetNextFile(c, f) => HasSource(c)'
<1>0. NoClient \notin Clients /\ m_connections \in [Sessions -> Conns]
  BY DEF DaemonAssumption, DataInv, TypeOK
<1>1. ASSUME Authenticate(c)
      PROVE  \A d \in Clients : HasSource(d) => HasSource(d)'
  <2>1. \A d \in Clients : d # c /\ HasSource(d) => HasSource(d)'
    BY <1>1, AuthenticateConn DEF HasSource
  <2>2. ASSUME HasSource(c) PROVE HasSource(c)'
    <3>1. PICK t \in Sessions : m_connections[t].token = c /\ m_connections[t].inFile # Closed
      BY <2>2 DEF HasSource
    <3>2. PICK u \in Sessions, s \in Sessions :
            m_connections[u].token = c /\ m_connections'[s] = m_connections[u]
      BY <1>1, <3>1, AuthenticateConn
    <3>3. u = t
      BY <1>0, <3>1, <3>2 DEF HolderInv, HoldersTied, TokensUnique
    <3> QED
      BY <3>1, <3>2, <3>3 DEF HasSource
  <2> QED
    BY <2>1, <2>2
<1>2. ASSUME UNCHANGED m_connections
      PROVE  \A d \in Clients : HasSource(d) => HasSource(d)'
  BY <1>2 DEF HasSource
<1>3. ASSUME ClientStep(c) \/ Abort(c), ~Authenticate(c), ~UNCHANGED m_connections
      PROVE  \A d \in Clients : d # c /\ HasSource(d) => HasSource(d)'
  BY <1>3, HandlerConn, SetConnAt, OnlyConn DEF HasSource
<1>4. ASSUME NEW f \in Files, GetNextFile(c, f) PROVE HasSource(c)'
  <2> DEFINE cli == [Cleared(c, f) EXCEPT !.originalFileName = f, !.inFile = 0]
  <2>1. SetConn(c, cli) /\ session[c] \in Sessions
    BY <1>4 DEF GetNextFile, Calling
  <2>2. cli.token = c /\ cli.inFile # Closed
    BY DEF Cleared, Closed
  <2> HIDE DEF cli
  <2> QED
    BY <2>1, <2>2, SetConnAt DEF HasSource
<1>5. ASSUME GetNextFileNone(c) \/ \E f \in Files : GetNextFile(c, f) \/ GetNextFileFails(c, f)
      PROVE  ~HasSource(c)
  <2>1. session[c] \in Sessions /\ Conn(c).inFile = Closed
    BY <1>5 DEF GetNextFileNone, GetNextFile, GetNextFileFails, Calling
  <2> QED
    BY <2>1, OnlyConn DEF HasSource, Conn
<1>6. ASSUME ReadChunk(c) \/ Reset(c), ~UNCHANGED m_connections, HasSource(c)
      PROVE  HasSource(c)'
  <2>1. session[c] \in Sessions
    BY <1>6 DEF ReadChunk, Reset, Calling
  <2>2. Conn(c).inFile # Closed /\ Conn(c) \in Conns /\ Conn(c).token = c
    BY <1>6, <2>1, OnlyConn, OwnConn DEF HasSource, Conn
  <2>3. \E n \in Nat : SetConn(c, [Conn(c) EXCEPT !.inFile = n])
    <3>1. CASE ReadChunk(c)
      <4>1. PICK n \in Nat : n = Conn(c).inFile + 1
        BY <2>2 DEF Conns
      <4> QED
        BY <1>6, <3>1, <4>1 DEF ReadChunk
    <3>2. CASE Reset(c)
      BY <2>2, <3>2 DEF Reset
    <3> QED
      BY <1>6, <3>1, <3>2
  <2>4. PICK n \in Nat : SetConn(c, [Conn(c) EXCEPT !.inFile = n])
    BY <2>3
  <2>5. m_connections'[session[c]] = [Conn(c) EXCEPT !.inFile = n]
    BY <2>1, <2>4, SetConnAt
  <2>6. m_connections'[session[c]].token = c /\ m_connections'[session[c]].inFile # Closed
    BY <2>2, <2>5 DEF Conns, Closed
  <2> QED
    BY <2>1, <2>6 DEF HasSource
<1>7. AuthenticateFails(c) \/ TransferError(c) \/ SendEmpty(c) \/ Encode(c) \/ LostCall(c)
      \/ Break(c) \/ Die(c)
        => UNCHANGED m_connections
  BY DEF AuthenticateFails, TransferError, SendEmpty, Encode, LostCall, Break, Die, connVars
<1>8. \A d \in Clients : d # c /\ HasSource(d) => HasSource(d)'
  BY <1>1, <1>2, <1>3, <1>7
<1>9. HasSource(c) => \/ HasSource(c)'
                     \/ PostFile(c) \/ PostFileError(c) \/ WriteChunk(c) \/ Abort(c)
  BY <1>1, <1>2, <1>5, <1>6, <1>7 DEF ClientStep
<1> QED
  BY <1>4, <1>8, <1>9

\* Results stay fresh.
LEMMA NextFresh ==
  ASSUME DbAssumption, DaemonAssumption, ResultsKept, DataInv, HolderInv, ResultsFresh,
         [Next]_vars
  PROVE  ResultsFresh'
<1>0. ClientTypeOK
  BY DEF DataInv, TypeOK
<1>1. ASSUME NEW c \in Clients, ClientStep(c) \/ Abort(c) \/ LostCall(c) \/ Break(c) \/ Die(c)
      PROVE  ResultsFresh'
  <2>1. \A d \in Clients : d # c => /\ session'[d] = session[d] /\ phase'[d] = phase[d]
                                    /\ result'[d] = result[d]
    BY <1>1, OthersKept
  <2>2. /\ phase'[c] \in {"receiving", "encoding"} => result'[c] = NoResult
        /\ phase'[c] = "idle" => \/ result'[c] = NoResult
                                 \/ phase[c] = "idle" /\ result'[c] = result[c]
                                 \/ AuthenticateFails(c)
    BY <1>1, NeedsKept
  <2>3. \A d \in Clients : phase'[d] \in {"receiving", "encoding"} => result'[d] = NoResult
    BY <2>1, <2>2 DEF ResultsFresh
  <2>4. "connectFails" \notin Events =>
          \A d \in Clients : phase'[d] = "idle" => result'[d] = NoResult
    BY <2>1, <2>2 DEF ResultsFresh, AuthenticateFails
  <2>5. ASSUME "restart" \notin Events, NEW d \in Clients, NeedsSource(d)'
        PROVE  HasSource(d)'
    <3>1. CASE d # c
      <4>1. NeedsSource(d)
        BY <2>1, <2>5, <3>1 DEF NeedsSource
      <4> QED
        BY <1>1, <2>5, <3>1, <4>1, SourceStays DEF ResultsFresh
    <3>2. CASE d = c
      <4>1. /\ ~PostFile(c) /\ ~PostFileError(c) /\ ~WriteChunk(c) /\ ~Abort(c)
            /\ NeedsSource(c) \/ \E f \in Files : GetNextFile(c, f)
        BY <1>1, <2>5, <3>2, NeedsKept
      <4>2. NeedsSource(c) => HasSource(c)
        BY <2>5 DEF ResultsFresh
      <4> QED
        BY <1>1, <3>2, <4>1, <4>2, SourceStays
    <3> QED
      BY <3>1, <3>2
  <2> QED
    BY <2>3, <2>4, <2>5 DEF ResultsFresh
<1>2. CASE Restart
  <2>1. \A d \in Clients :
          \/ phase'[d] = "gone"
          \/ phase'[d] = phase[d] /\ result'[d] = result[d]
    BY <1>0, <1>2 DEF Restart, Disconnected
  <2>2. "restart" \in Events
    BY <1>2 DEF Restart
  <2> QED
    BY <2>1, <2>2 DEF ResultsFresh
<1>3. CASE MainStep \/ SpuriousWakeup \/ WatchStat \/ WatchAdd \/ UNCHANGED vars
  <2>1. UNCHANGED <<m_connections, session, phase, result>>
    BY <1>3 DEF MainStep, MainLoop, MainWake, MainRecordFailure, MainMove, MainRecord,
       SpuriousWakeup, WatchStat, WatchAdd, connVars, clientVars, vars
  <2> QED
    BY <2>1 DEF ResultsFresh, NeedsSource, HasSource
<1> QED
  BY <1>1, <1>2, <1>3 DEF Next

\* The results that a fresh client can have: none, or an encoding of full
\* length.
Sent == {NoResult, [result |-> OK, fileLength |-> EncLen]}

\* The encoder of a fresh client makes such a result.
LEMMA EncodeSent ==
  ASSUME DataInv, ResultsFresh, NEW c \in Clients, Encode(c)
  PROVE  result'[c] \in Sent
<1>1. /\ phase[c] = "encoding" /\ result \in [Clients -> EncResults]
      /\ UnknownError # OK
  BY DEF Encode, DataInv, TypeOK, ClientTypeOK, UnknownError, OK
<1>2. result[c].result # OK
  BY <1>1 DEF ResultsFresh, NoResult
<1>3. PICK r \in ClientResults : (r.result = OK => r.fileLength = EncLen) /\ result'[c] = r
  BY <1>1, <1>2 DEF Encode
<1> QED
  BY <1>3 DEF ClientResults, Sent

-----------------------------------------------------------------------------
\* No archive is incomplete or of another source.
DiskWhole == \A f \in Files : disk[ArchiveName[f]] \in {NoContent, Whole(f)}

\* An archive the listener is about to record is complete.
WatchWhole ==
  watch.dst # NoName =>
    \E f \in Files : watch.dst = ArchiveName[f] /\ disk[ArchiveName[f]] = Whole(f)

\* After a successful move the archive is complete.
MoveDone ==
  main = "recordOk" =>
    /\ ftm.originalFileId \in Files
    /\ disk[ArchiveName[ftm.originalFileName]] = Whole(ftm.originalFileId)
    /\ WithData(ftm.encResult)

\* Everything on its way to the archives, and in them, is whole.
ArchiveInv ==
  /\ QueueInv /\ SourceKnown /\ QueueWhole
  /\ ResultsFresh /\ ResultsIn(Sent)
  /\ DiskWhole /\ WatchWhole /\ MoveDone /\ ArchiveSound

\* Archives appear complete and are then left alone.
LEMMA NextDisk ==
  ASSUME DbAssumption, DaemonAssumption, NamesDistinct,
         {"diskFull", "mvPartial"} \cap Events = {}, ArchiveInv, [Next]_vars
  PROVE  /\ \A f \in Files : disk'[ArchiveName[f]] \in {disk[ArchiveName[f]], Whole(f)}
         /\ DiskWhole' /\ WatchWhole' /\ MoveDone'
<1>0. /\ disk \in [Names -> Contents] /\ IdsStored /\ MainHasFile
      /\ \A f \in Files : Whole(f) # NoContent /\ Whole(f)' = Whole(f)
      /\ \A f \in Files : ArchiveName[f] \in Names
  BY DEF ArchiveInv, QueueInv, HolderInv, HoldersTied, DataInv, TypeOK, Whole, NoContent,
     DbAssumption, DaemonAssumption, FileIds
<1>1. CASE MainMove
  <2>1. /\ main = "move" /\ WithData(ftm.encResult) /\ UNCHANGED <<ftm, watch>>
        /\ \/ UNCHANGED disk /\ main' # "recordOk"
           \/ disk' = [disk EXCEPT ![ArchiveName[ftm.originalFileName]]
                         = temp[ftm.originalFileId]]
    BY <1>1 DEF MainMove
  <2>2. PICK g \in Files : g = ftm.originalFileId /\ g = ftm.originalFileName
    BY <1>0, <2>1 DEF MainHasFile, IdsStored
  <2>3. temp[g] = Whole(g)
    BY <2>1, <2>2 DEF ArchiveInv, QueueWhole, EntryWhole
  <2>4. \A f \in Files : f # g => ArchiveName[f] # ArchiveName[g]
    BY DEF NamesDistinct
  <2>5. \/ UNCHANGED disk /\ main' # "recordOk"
        \/ \A n \in Names : disk'[n] = IF n = ArchiveName[g] THEN Whole(g) ELSE disk[n]
    BY <1>0, <2>1, <2>2, <2>3
  <2>6. \A f \in Files : disk'[ArchiveName[f]] \in {disk[ArchiveName[f]], Whole(f)}
    BY <1>0, <2>4, <2>5
  <2>7. MoveDone'
    BY <1>0, <2>1, <2>2, <2>5 DEF MoveDone
  <2> QED
    BY <1>0, <2>1, <2>6, <2>7 DEF ArchiveInv, DiskWhole, WatchWhole
<1>2. CASE ~MainMove
  <2>1. UNCHANGED disk /\ (main' = "recordOk" => main = "recordOk" /\ UNCHANGED ftm)
    <3>1. ASSUME NEW c \in Clients, ClientStep(c) \/ Abort(c) \/ LostCall(c) \/ Break(c) \/ Die(c)
          PROVE  UNCHANGED <<disk, ftm>> /\ main' \in {main, Notified}
      BY <3>1 DEF ClientStep, Authenticate, AuthenticateFails, GetNextFileNone, GetNextFile,
         GetNextFileFails, ReadChunk, TransferError, SendEmpty, Reset, Encode, PostFile,
         PostFileError,
         WriteChunk, LostCall, Break, Die, Abort, mainVars, fileVars
    <3>2. Notified = "recordOk" => main = "recordOk"
      BY DEF Notified
    <3>3. CASE \/ MainLoop \/ MainWake \/ MainRecordFailure \/ MainRecord \/ SpuriousWakeup
               \/ Restart
      BY <3>3 DEF MainLoop, MainWake, MainRecordFailure, MainRecord, SpuriousWakeup, Restart,
         fileVars
    <3>4. CASE WatchStat \/ WatchAdd \/ UNCHANGED vars
      BY <3>4 DEF WatchStat, WatchAdd, vars, mainVars, fileVars
    <3> QED
      BY <1>2, <3>1, <3>2, <3>3, <3>4 DEF Next, MainStep
  <2>2. CASE WatchStat
    <3>1. PICK f \in Files :
            /\ watch'.dst \in {NoName, ArchiveName[f]}
            /\ watch'.dst = ArchiveName[f] /\ ArchiveName[f] # NoName
                 => disk[ArchiveName[f]] # NoContent
      <4>1. PICK f \in Files :
              \/ watch' = [src |-> f, queue |-> TRUE,
                           dst |-> IF disk[ArchiveName[f]].len > 0 THEN ArchiveName[f] ELSE NoName]
              \/ /\ disk[ArchiveName[f]] # NoContent
                 /\ \E src, queue : watch' = [src |-> src, queue |-> queue, dst |-> ArchiveName[f]]
        BY <2>2 DEF WatchStat
      <4>2. disk[ArchiveName[f]].len > 0 => disk[ArchiveName[f]] # NoContent
        BY DEF NoContent
      <4> QED
        BY <4>1, <4>2
    <3>2. ASSUME watch'.dst # NoName PROVE disk[ArchiveName[f]] = Whole(f)
      BY <3>1, <3>2 DEF ArchiveInv, DiskWhole
    <3> QED
      BY <1>0, <2>1, <3>1, <3>2 DEF ArchiveInv, DiskWhole, WatchWhole, MoveDone
  <2>3. CASE ~WatchStat
    <3>1. UNCHANGED watch \/ watch' = NoEvent
      <4>1. ASSUME NEW c \in Clients, ClientStep(c) \/ Abort(c) \/ LostCall(c) \/ Break(c) \/ Die(c)
            PROVE  UNCHANGED watch
        BY <4>1 DEF ClientStep, Authenticate, AuthenticateFails, GetNextFileNone, GetNextFile,
           GetNextFileFails, ReadChunk, TransferError, SendEmpty, Reset, Encode, PostFile,
           PostFileError,
           WriteChunk, LostCall, Break, Die, Abort, fileVars
      <4> QED
        BY <1>2, <2>3, <4>1 DEF Next, MainStep, MainLoop, MainWake, MainRecordFailure,
           MainRecord, SpuriousWakeup, WatchAdd, Restart, vars, fileVars
    <3>2. WatchWhole'
      BY <1>0, <2>1, <3>1 DEF ArchiveInv, WatchWhole, NoEvent
    <3> QED
      BY <1>0, <2>1, <3>2 DEF ArchiveInv, DiskWhole, MoveDone
  <2> QED
    BY <2>2, <2>3
<1> QED
  BY <1>1, <1>2

\* The listener records an archive as that of the source it belongs to.
LEMMA WatchAddSound ==
  ASSUME DbAssumption, DaemonAssumption, NamesDistinct, ArchiveInv, WatchAdd
  PROVE  \A f \in Files :
           \/ status'[f] # OK
           \/ status[f] = OK /\ archives'[f] = archives[f]
           \/ archives'[f] = ArchiveName[f] /\ disk[ArchiveName[f]] = Whole(f)
<1>0. /\ NoFile \notin Files /\ NoName \notin Names
      /\ status \in [Files -> Results \cup {NoRow, NotStarted, Started}]
      /\ archives \in [Files -> Names \cup {NoName}]
      /\ \A f \in Files : ArchiveName[f] \in Names
      /\ watch.src \in FileIds /\ watch.dst \in Names \cup {NoName}
      /\ ArchivesOwn
  BY DEF DbAssumption, DaemonAssumption, FileIds, ArchiveInv, QueueInv, DataInv, TypeOK, DbTypeOK,
     WatchEvents
<1>1. PICK src, dst, queue :
        /\ src = watch.src /\ dst = watch.dst
        /\ \E size : DbAddFile(src, size, dst, queue)
  BY DEF WatchAdd
<1>2. PICK queued :
        /\ queued = IF Enqueues(src, dst, queue)
                    THEN [status EXCEPT ![src] = IF dst = NoName THEN NotStarted ELSE OK]
                    ELSE status
        /\ \/ /\ ~(dst # NoName /\ (src \in Files => archives[src] # dst))
                 \/ Owners(src, dst) = {}
              /\ status' = queued
              /\ UNCHANGED archives
           \/ /\ dst # NoName /\ (src \in Files => archives[src] # dst)
              /\ \E f \in Owners(src, dst) :
                    /\ status' = [queued EXCEPT ![f] = OK]
                    /\ archives' = IF archives[f] # NoName THEN archives
                                   ELSE [archives EXCEPT ![f] = dst]
  BY <1>1 DEF DbAddFile
<1>3. /\ src \in Files => dst \in {NoName, ArchiveName[src]}
      /\ dst # NoName => \E f \in Files : dst = ArchiveName[f] /\ disk[ArchiveName[f]] = Whole(f)
  BY <1>0, <1>1 DEF ArchivesOwn, ArchiveInv, WatchWhole
<1>4. \A f \in Files : dst = ArchiveName[f] => disk[ArchiveName[f]] = Whole(f)
  BY <1>0, <1>3 DEF NamesDistinct
<1>5. \A f \in Files : archives[f] = dst /\ dst # NoName => dst = ArchiveName[f]
  BY <1>0 DEF ArchivesOwn
<1>6. \A f \in Files : queued[f] = OK => \/ status[f] = OK
                                         \/ f = src /\ dst = ArchiveName[f]
  BY <1>0, <1>1, <1>2, <1>3 DEF Enqueues, OK, NotStarted, FileIds
<1>7. CASE UNCHANGED archives /\ status' = queued
           /\ (~(dst # NoName /\ (src \in Files => archives[src] # dst)) \/ Owners(src, dst) = {})
  <2>1. Owners(src, dst) = {} => src \notin Files
    BY <1>0 DEF Owners
  <2>2. ASSUME NEW f \in Files, f = src, dst = ArchiveName[f]
        PROVE  archives[f] = dst
    BY <1>0, <1>7, <2>1, <2>2
  <2> QED
    BY <1>4, <1>6, <1>7, <2>2
<1>8. ASSUME dst # NoName, src \in Files => archives[src] # dst, NEW g \in Owners(src, dst),
             status' = [queued EXCEPT ![g] = OK],
             archives' = IF archives[g] # NoName THEN archives
                         ELSE [archives EXCEPT ![g] = dst]
      PROVE  \A f \in Files :
               \/ status'[f] # OK
               \/ status[f] = OK /\ archives'[f] = archives[f]
               \/ archives'[f] = ArchiveName[f] /\ disk[ArchiveName[f]] = Whole(f)
  <2>1. g \in Files /\ dst = ArchiveName[g] /\ (src \in Files => g = src)
    <3>1. src \in Files => \A f \in Files : archives[f] # dst
      BY <1>3, <1>5, <1>8 DEF NamesDistinct
    <3> QED
      BY <1>0, <1>1, <1>3, <1>5, <1>8, <3>1 DEF Owners, FileIds
  <2>2. archives'[g] = ArchiveName[g]
    BY <1>0, <1>8, <2>1 DEF ArchivesOwn
  <2>3. \A f \in Files : f # g => archives'[f] = archives[f] /\ (status'[f] = OK => status[f] = OK)
    <3>1. \A f \in Files : f # g => f # src \/ dst # ArchiveName[f]
      BY <2>1
    <3>2. queued \in [Files -> Results \cup {NoRow, NotStarted, Started, OK}]
      BY <1>0, <1>2
    <3> QED
      BY <1>0, <1>6, <1>8, <3>1, <3>2
  <2> QED
    BY <1>4, <2>1, <2>2, <2>3
<1> QED
  BY <1>2, <1>7, <1>8

\* A result recorded as OK is that of a file that has just been moved.
LEMMA RecordSound ==
  ASSUME DbAssumption, DaemonAssumption, ArchiveInv, MainRecordFailure \/ MainRecord
  PROVE  \A f \in Files :
           \/ status'[f] # OK
           \/ status[f] = OK /\ archives'[f] = archives[f]
           \/ archives'[f] = ArchiveName[f] /\ disk[ArchiveName[f]] = Whole(f)
<1>0. /\ status \in [Files -> Results \cup {NoRow, NotStarted, Started}]
      /\ archives \in [Files -> Names \cup {NoName}]
      /\ ArchivesOwn /\ NoName \notin Names
      /\ UnknownError # OK /\ ServerIOError # OK /\ NoRow # OK
  BY DEF DbAssumption, ArchiveInv, QueueInv, DataInv, TypeOK, DbTypeOK, UnknownError,
     ServerIOError, NoRow, OK
<1>1. PICK g \in Files : g = ftm.originalFileId /\ g = ftm.originalFileName
  BY DEF MainRecordFailure, MainRecord, ArchiveInv, QueueInv, DataInv, MainHasFile, HolderInv,
     HoldersTied, IdsStored
<1>2. \/ \E r, len : r # OK /\ len = 0 /\ DbAddEncodedFile(g, r, len, ArchiveName[g])
      \/ /\ disk[ArchiveName[g]] = Whole(g)
         /\ \E r, len : len > 0 /\ DbAddEncodedFile(g, r, len, ArchiveName[g])
  <2>1. CASE MainRecordFailure
    <3>1. ~WithData(ftm.encResult) /\ ftm.encResult \in Sent /\ EncLen \in Nat \ {0}
      BY <2>1 DEF MainRecordFailure, ArchiveInv, ResultsIn, DaemonAssumption
    <3>2. ftm.encResult = NoResult
      BY <3>1 DEF Sent, WithData
    <3> QED
      BY <1>0, <1>1, <2>1, <3>2 DEF MainRecordFailure, NoResult
  <2>2. CASE MainRecord
    BY <1>0, <1>1, <2>2 DEF MainRecord, ArchiveInv, MoveDone, WithData
  <2> QED
    BY <2>1, <2>2
<1>3. \A f \in Files : f # g => status'[f] = status[f] /\ archives'[f] = archives[f]
  BY <1>0, <1>2 DEF DbAddEncodedFile
<1>4. CASE \E r, len : r # OK /\ len = 0 /\ DbAddEncodedFile(g, r, len, ArchiveName[g])
  <2>1. status'[g] # OK
    BY <1>0, <1>4 DEF DbAddEncodedFile
  <2> QED
    BY <1>3, <2>1
<1>5. CASE /\ disk[ArchiveName[g]] = Whole(g)
           /\ \E r, len : len > 0 /\ DbAddEncodedFile(g, r, len, ArchiveName[g])
  <2>1. archives'[g] = ArchiveName[g]
    BY <1>0, <1>5 DEF DbAddEncodedFile, ArchivesOwn
  <2> QED
    BY <1>3, <1>5, <2>1
<1> QED
  BY <1>2, <1>4, <1>5

\* Records stay sound.
LEMMA NextSound ==
  ASSUME DbAssumption, DaemonAssumption, NamesDistinct,
         {"diskFull", "mvPartial"} \cap Events = {}, ArchiveInv, [Next]_vars
  PROVE  ArchiveSound'
<1>0. /\ ArchivesOwn /\ ArchiveSound
      /\ status \in [Files -> Results \cup {NoRow, NotStarted, Started}]
      /\ \A f \in Files : ArchiveName[f] \in Names
      /\ NoName \notin Names
      /\ Started # OK /\ NotStarted # OK
  BY DEF ArchiveInv, QueueInv, DataInv, TypeOK, DbTypeOK, DbAssumption, DaemonAssumption, FileIds,
     Started, NotStarted, OK
<1>1. \A f \in Files :
        \/ status'[f] # OK
        \/ status[f] = OK /\ archives'[f] = archives[f]
        \/ archives'[f] = ArchiveName[f] /\ disk[ArchiveName[f]] = Whole(f)
  <2>1. ASSUME NEW c \in Clients, ClientStep(c) \/ Abort(c) \/ LostCall(c) \/ Break(c) \/ Die(c)
        PROVE  UNCHANGED archives /\ \A f \in Files : status'[f] = OK => status[f] = OK
    <3>1. ASSUME NEW f \in Files, GetNextFile(c, f) \/ GetNextFileFails(c, f)
          PROVE  UNCHANGED archives /\ status' = [status EXCEPT ![f] = Started]
      BY <3>1 DEF GetNextFile, GetNextFileFails, DbGetNextFile
    <3>2. CASE Abort(c)
      BY <1>0, <3>2 DEF Abort, DbReset, dbVars
    <3>3. CASE Authenticate(c) \/ AuthenticateFails(c) \/ GetNextFileNone(c) \/ ReadChunk(c)
               \/ TransferError(c) \/ SendEmpty(c) \/ Reset(c) \/ Encode(c) \/ PostFile(c)
               \/ PostFileError(c)
               \/ WriteChunk(c) \/ LostCall(c) \/ Break(c) \/ Die(c)
      BY <3>3 DEF Authenticate, AuthenticateFails, GetNextFileNone, ReadChunk, TransferError,
         SendEmpty,
         Reset, Encode, PostFile, PostFileError, WriteChunk, LostCall, Break, Die, dbVars
    <3> QED
      BY <1>0, <2>1, <3>1, <3>2, <3>3 DEF ClientStep
  <2>2. CASE MainLoop \/ MainWake \/ MainMove \/ SpuriousWakeup \/ Restart \/ WatchStat
             \/ UNCHANGED vars
    BY <2>2 DEF MainLoop, MainWake, MainMove, SpuriousWakeup, Restart, WatchStat, vars, dbVars
  <2> QED
    BY <2>1, <2>2, WatchAddSound, RecordSound DEF Next, MainStep
<1>2. \A f \in Files : disk'[ArchiveName[f]] \in {disk[ArchiveName[f]], Whole(f)}
  BY NextDisk
<1>3. ASSUME NEW f \in Files, status'[f] = OK
      PROVE  archives'[f] = ArchiveName[f] /\ disk'[ArchiveName[f]] = Whole(f)
  <2>1. CASE status[f] = OK /\ archives'[f] = archives[f]
    BY <1>0, <1>2, <2>1 DEF ArchiveSound, ArchivesOwn, Whole
  <2> QED
    BY <1>1, <1>2, <1>3, <2>1
<1> QED
  BY <1>0, <1>3 DEF ArchiveSound, Whole

\* A file recorded as OK has a complete archive of its own, of this very file,
\* at the path recorded in the database: across crashes of clients, lost calls
\* and answers, rewound uploads, results posted twice and archives the listener
\* finds before they are recorded, as long as the daemon is not restarted.  (A
\* full disk, a copy by mv that stops in the middle, or two sources with one
\* archive name break this; so does a restart, after which a client's id is
\* not initialised.)
THEOREM DaemonArchiveSound ==
  ASSUME DbAssumption, DaemonAssumption, NamesDistinct,
         {"restart", "diskFull", "mvPartial"} \cap Events = {}
  PROVE  Spec => []ArchiveSound
<1>0. IdsHarmless /\ ResultsKept
  BY DEF IdsHarmless, ResultsKept
<1>1. ASSUME Init PROVE ArchiveInv
  <2>1. QueueInv /\ SourceKnown
    BY <1>1, InitQueue, InitSource
  <2>2. m_filesToMove = <<>> /\ main = "loop" /\ Len(m_filesToMove) = 0
    BY <1>1 DEF Init
  <2>3. QueueWhole /\ MoveDone
    BY <2>2 DEF QueueWhole, MoveDone
  <2>4. ResultsFresh /\ ResultsIn(Sent)
    BY <1>1, <2>2 DEF Init, ResultsFresh, NeedsSource, ResultsIn, Sent, NoConn, Cleared,
       NoFileToMove
  <2>5. DiskWhole
    <3>1. \A f \in Files : ArchiveName[f] \in Names
      BY DEF DaemonAssumption, FileIds
    <3>2. ASSUME NEW f \in Files, \E g \in Archived : ArchiveName[g] = ArchiveName[f]
          PROVE  (CHOOSE g \in Archived : ArchiveName[g] = ArchiveName[f]) = f
      BY <3>2 DEF NamesDistinct, DaemonAssumption
    <3> QED
      BY <1>1, <3>1, <3>2 DEF Init, DiskWhole, Whole
  <2>6. WatchWhole /\ ArchiveSound
    BY <1>1 DEF Init, DbInit, WatchWhole, NoEvent, ArchiveSound, NoRow, OK
  <2> QED
    BY <2>1, <2>3, <2>4, <2>5, <2>6 DEF ArchiveInv
<1>2. ASSUME ArchiveInv, [Next]_vars PROVE ArchiveInv'
  <2>1. QueueInv' /\ SourceKnown' /\ QueueWhole' /\ ResultsFresh'
    BY <1>0, <1>2, NextQueue, NextSourceKnown, NextQueueWhole, NextFresh DEF ArchiveInv, QueueInv
  <2>2. ResultsIn(Sent)'
    <3>1. \A c \in Clients : Encode(c) => result'[c] \in Sent
      BY <1>2, EncodeSent DEF ArchiveInv, QueueInv
    <3>2. NoResult \in Sent /\ Sent' = Sent
      BY DEF Sent
    <3> QED
      BY <1>2, <3>1, <3>2, NextResults DEF ArchiveInv, QueueInv
  <2> QED
    BY <1>2, <2>1, <2>2, NextDisk, NextSound DEF ArchiveInv
<1>3. ArchiveInv => ArchiveSound
  BY DEF ArchiveInv
<1> QED
  BY <1>1, <1>2, <1>3, PTL DEF Spec

-----------------------------------------------------------------------------
\* A connection as its client, in phase p, knows it: one stream is open at
\* most, an upload has room for the next chunk, a download that is encoded has
\* been read to its end, and an upload has replaced its download.
Tied(cli, p) ==
  /\ cli.inFile # Closed => cli.outFile = Closed
  /\ cli.outFile # Closed => cli.outFile < cli.encResult.fileLength
  /\ p \in {"encoding", "sending"} /\ cli.inFile # Closed =>
       cli.inFile = FileLen[cli.originalFileName]
  /\ p = "transmitting" => cli.inFile = Closed

\* Only a client in a transfer goes back to reset(), and it keeps its session.
TransferTied(c) ==
  /\ c \in resetting => phase[c] \in {"receiving", "transmitting", "looping"}
  /\ phase[c] \in {"receiving", "transmitting"} => session[c] # NoSession

\* Clients and connections agree on how far a transfer is.
TransfersTied ==
  /\ \A s \in Sessions, c \in Clients :
       m_connections[s].token = c => Tied(m_connections[s], phase[c])
  /\ \A c \in Clients : TransferTied(c)

\* There are no connections and no transfers at the start.
LEMMA InitTied ==
  ASSUME DaemonAssumption, Init
  PROVE  TransfersTied
BY DEF Init, TransfersTied, Tied, TransferTied, NoConn, Cleared, DaemonAssumption

\* A step of c concerns no other client and no other connection.
LEMMA OthersTied ==
  ASSUME DbAssumption, DaemonAssumption, DataInv, HolderInv, TransfersTied, NEW c \in Clients,
         ClientStep(c) \/ Abort(c) \/ LostCall(c) \/ Break(c) \/ Die(c)
  PROVE  \A d \in Clients : d # c =>
           /\ TransferTied(d)'
           /\ \A s \in Sessions : m_connections'[s].token = d =>
                Tied(m_connections'[s], phase'[d])
<1>1. \A d \in Clients : d # c => session'[d] = session[d] /\ phase'[d] = phase[d]
  BY OthersKept
<1>2. resetting' \subseteq resetting \cup {c}
  <2>1. CASE Authenticate(c) \/ AuthenticateFails(c) \/ GetNextFileNone(c)
    BY <2>1 DEF Authenticate, AuthenticateFails, GetNextFileNone, Answer
  <2>2. ASSUME NEW f \in Files, GetNextFile(c, f) \/ GetNextFileFails(c, f)
        PROVE  resetting' \subseteq resetting \cup {c}
    BY <2>2 DEF GetNextFile, GetNextFileFails, Answer, clientVars
  <2>3. CASE ReadChunk(c) \/ TransferError(c) \/ SendEmpty(c) \/ Encode(c) \/ PostFile(c)
             \/ PostFileError(c) \/ WriteChunk(c)
    BY <2>3 DEF ReadChunk, TransferError, SendEmpty, Encode, PostFile, PostFileError, WriteChunk,
       BecomesIdle, Finishes, Answer, clientVars
  <2>4. CASE Reset(c) \/ Abort(c) \/ LostCall(c) \/ Break(c) \/ Die(c)
    BY <2>4 DEF Reset, Abort, LostCall, Break, Die, Disconnected, Leaves
  <2> QED
    BY <2>1, <2>2, <2>3, <2>4 DEF ClientStep
<1>3. ASSUME NEW d \in Clients, d # c, NEW s \in Sessions, m_connections'[s].token = d
      PROVE  m_connections'[s] = m_connections[s]
  <2>1. CASE Authenticate(c)
    BY <1>3, <2>1, AuthenticateConn
  <2>2. CASE ~Authenticate(c) /\ (ClientStep(c) \/ Abort(c)) /\ ~UNCHANGED m_connections
    BY <1>3, <2>2, HandlerConn, SetConnAt
  <2> QED
    BY <1>3, <2>1, <2>2 DEF LostCall, Break, Die, connVars
<1> QED
  BY <1>1, <1>2, <1>3 DEF TransfersTied, TransferTied, Tied

\* The caller and its connection stay tied.
LEMMA CallerTied ==
  ASSUME DbAssumption, DaemonAssumption, DataInv, HolderInv, TransfersTied, NEW c \in Clients,
         ClientStep(c) \/ Abort(c) \/ LostCall(c) \/ Break(c) \/ Die(c)
  PROVE  /\ TransferTied(c)'
         /\ \A s \in Sessions : m_connections'[s].token = c =>
              Tied(m_connections'[s], phase'[c])
<1>0. /\ ClientTypeOK /\ NoSession \notin Sessions /\ StaleSession # NoSession
      /\ TransferTied(c)
      /\ \A s \in Sessions : m_connections[s].token = c => Tied(m_connections[s], phase[c])
      /\ \A id, p : Tied(Cleared(c, id), p)
      /\ \A cli : Tied(cli, phase[c]) => Tied(cli, "gone") /\ Tied(cli, "idle")
      /\ NoClient \notin Clients
  BY DEF DataInv, TypeOK, DaemonAssumption, TransfersTied, Tied, Cleared
<1> DEFINE Result == /\ TransferTied(c)'
                     /\ \A s \in Sessions : m_connections'[s].token = c =>
                          Tied(m_connections'[s], phase'[c])
<1> SUFFICES Result
  OBVIOUS
<1>1. ASSUME session[c] \in Sessions, NEW cli, SetConn(c, cli), Tied(cli, phase'[c]),
             TransferTied(c)'
      PROVE  Result
  <2>1. \A s \in Sessions : m_connections'[s] = IF s = session[c] THEN cli ELSE m_connections[s]
    BY <1>1, SetConnAt
  <2>2. \A s \in Sessions : m_connections[s].token = c <=> s = session[c]
    BY <1>1, OnlyConn
  <2> QED
    BY <1>1, <2>1, <2>2
<1>2. ASSUME UNCHANGED m_connections, TransferTied(c)',
             phase'[c] \in {phase[c], "gone", "idle"}
      PROVE  Result
  BY <1>0, <1>2
<1>3. session[c] \in Sessions => /\ Conn(c) \in Conns /\ Conn(c).token = c
                                 /\ Tied(Conn(c), phase[c])
  BY <1>0, OwnConn DEF Conn
<1>4. ASSUME Leaves(c)
      PROVE  phase'[c] = "gone" /\ TransferTied(c)'
  <2>1. phase'[c] = "gone" /\ c \notin resetting'
    BY <1>0, <1>4 DEF Leaves, ClientTypeOK
  <2> QED
    BY <2>1 DEF TransferTied
<1> HIDE DEF Result
<1>5. CASE Authenticate(c)
  <2>1. PICK id \in Sessions, cl \in Conns :
          /\ \/ \E s \in Sessions : m_connections[s].token = c /\ cl = m_connections[s]
             \/ \E g \in Garbage : cl = Cleared(c, g)
          /\ m_connections' = MovedTo(c, id, cl)
    <3>1. \A g \in Garbage : Cleared(c, g) \in Conns
      BY RecordTypes DEF DaemonAssumption
    <3>2. m_connections \in [Sessions -> Conns]
      BY DEF DataInv, TypeOK
    <3> QED
      BY <1>5, <3>1, <3>2 DEF Authenticate
  <2>2. UNCHANGED <<phase, resetting>> /\ phase[c] \in {"idle", "sending"}
    BY <1>0, <1>5 DEF Authenticate, Answer
  <2>3. TransferTied(c)'
    BY <1>0, <2>2 DEF TransferTied
  <2>4. Tied(cl, phase[c])
    BY <1>0, <2>1
  <2>5. \A s \in Sessions : m_connections'[s].token = c => m_connections'[s] = cl
    BY <1>0, <2>1 DEF MovedTo, NoConn, Cleared
  <2> QED
    BY <2>2, <2>3, <2>4, <2>5 DEF Result
<1>6. CASE AuthenticateFails(c)
  <2>1. phase'[c] = "idle" /\ UNCHANGED <<m_connections, resetting>> /\ phase[c] = "sending"
    BY <1>0, <1>6 DEF AuthenticateFails, connVars, ClientTypeOK
  <2>2. TransferTied(c)'
    BY <1>0, <2>1 DEF TransferTied
  <2> QED
    BY <1>2, <2>1, <2>2
<1>7. CASE GetNextFileNone(c) \/ \E f \in Files : GetNextFileFails(c, f)
  <2>1. /\ session[c] \in Sessions /\ SetConn(c, Cleared(c, NoFile)) /\ phase[c] = "idle"
        /\ UNCHANGED <<phase, resetting>>
    BY <1>7 DEF GetNextFileNone, GetNextFileFails, Calling, Answer, clientVars
  <2>2. TransferTied(c)'
    BY <1>0, <2>1 DEF TransferTied
  <2> QED
    BY <1>0, <1>1, <2>1, <2>2
<1>8. ASSUME NEW f \in Files, GetNextFile(c, f) PROVE Result
  <2> DEFINE cli == [Cleared(c, f) EXCEPT !.originalFileName = f, !.inFile = 0]
  <2>1. /\ session[c] \in Sessions /\ SetConn(c, cli) /\ phase[c] = "idle"
        /\ phase'[c] \in {"idle", "receiving"} /\ UNCHANGED <<session, resetting>>
    BY <1>0, <1>8 DEF GetNextFile, Calling, Answer, ClientTypeOK
  <2>2. TransferTied(c)'
    BY <1>0, <2>1 DEF TransferTied
  <2>3. Tied(cli, phase'[c])
    BY <2>1 DEF Tied, Cleared
  <2> HIDE DEF cli
  <2> QED
    BY <1>1, <2>1, <2>2, <2>3
<1>9. CASE ReadChunk(c)
  <2>1. /\ session[c] \in Sessions /\ phase[c] = "receiving" /\ c \notin resetting
        /\ Conn(c).inFile # Closed
    BY <1>9 DEF ReadChunk, Calling, ReadAccepted
  <2>2. CASE /\ SetConn(c, [Conn(c) EXCEPT !.inFile = @ + 1])
             /\ UNCHANGED <<session, phase>>
    <3>1. TransferTied(c)'
      BY <1>0, <2>1, <2>2 DEF TransferTied
    <3>2. Tied([Conn(c) EXCEPT !.inFile = @ + 1], phase'[c])
      BY <1>3, <2>1, <2>2 DEF Tied, Conns
    <3> QED
      BY <1>1, <2>1, <2>2, <3>1, <3>2
  <2>3. CASE UNCHANGED <<m_connections, session, phase>>
    <3>1. TransferTied(c)'
      BY <1>0, <2>1, <2>3 DEF TransferTied
    <3> QED
      BY <1>2, <2>3, <3>1
  <2>4. CASE /\ UNCHANGED <<m_connections, resetting>> /\ phase'[c] = "encoding"
             /\ Conn(c).inFile = FileLen[Conn(c).originalFileName]
    <3>1. TransferTied(c)'
      BY <1>0, <2>1, <2>4 DEF TransferTied
    <3>2. Tied(Conn(c), phase'[c])
      BY <1>3, <2>1, <2>4 DEF Tied
    <3>3. \A s \in Sessions : m_connections[s].token = c => m_connections[s] = Conn(c)
      BY <2>1, OnlyConn DEF Conn
    <3> QED
      BY <2>4, <3>1, <3>2, <3>3 DEF Result
  <2> QED
    BY <1>0, <1>9, <2>2, <2>3, <2>4 DEF ReadChunk, Answer, clientVars, ClientTypeOK
<1>10. CASE TransferError(c) \/ SendEmpty(c)
  <2>1. /\ UNCHANGED <<m_connections, session, phase>>
        /\ phase[c] \in {"receiving", "transmitting", "looping"}
    BY <1>10 DEF TransferError, SendEmpty, Calling, connVars
  <2>2. TransferTied(c)'
    BY <1>0, <2>1 DEF TransferTied
  <2> QED
    BY <1>2, <2>1, <2>2
<1>11. CASE LostCall(c)
  <2>1. UNCHANGED m_connections
    BY <1>11 DEF LostCall, connVars
  <2>2. CASE Leaves(c)
    BY <1>2, <1>4, <2>1, <2>2
  <2>3. CASE /\ UNCHANGED session /\ phase[c] \in {"receiving", "transmitting"}
             /\ phase'[c] \in {phase[c], "looping"}
    <3>1. TransferTied(c)'
      BY <1>0, <2>3 DEF TransferTied
    <3>2. \A cli : Tied(cli, phase[c]) => Tied(cli, phase'[c])
      BY <2>3 DEF Tied
    <3> QED
      BY <1>0, <2>1, <3>1, <3>2 DEF Result
  <2> QED
    BY <1>0, <1>11, <2>2, <2>3 DEF LostCall, Calling, ClientTypeOK
<1>12. CASE Reset(c)
  <2>1. /\ session[c] \in Sessions /\ phase[c] \in {"receiving", "transmitting", "looping"}
    BY <1>0, <1>12 DEF Reset, TransferTied
  <2>2. /\ phase'[c] \in {phase[c], "gone"} /\ TransferTied(c)'
    <3>1. CASE Leaves(c)
      BY <1>4, <3>1
    <3>2. CASE UNCHANGED <<session, phase>>
      BY <1>0, <2>1, <3>2 DEF TransferTied
    <3> QED
      BY <1>12, <3>1, <3>2 DEF Reset
  <2>3. \E cli : SetConn(c, cli) /\ Tied(cli, phase'[c])
    <3>1. Conn(c) \in Conns /\ Tied(Conn(c), phase[c])
      BY <1>3, <2>1
    <3>2. CASE Conn(c).inFile # Closed
      <4>1. Tied([Conn(c) EXCEPT !.inFile = 0], phase'[c])
        BY <2>1, <2>2, <3>1, <3>2 DEF Tied, Conns
      <4> QED
        BY <1>12, <3>2, <4>1 DEF Reset
    <3>3. CASE Conn(c).inFile = Closed /\ Conn(c).outFile # Closed
      <4>1. Conn(c).outFile \in Nat /\ Conn(c).encResult.fileLength \in Nat
        BY <3>1, <3>3 DEF Conns, EncResults
      <4>2. 0 < Conn(c).encResult.fileLength
        BY <3>1, <3>3, <4>1 DEF Tied
      <4>3. Tied([Conn(c) EXCEPT !.outFile = 0], phase'[c])
        BY <2>1, <2>2, <3>1, <3>3, <4>2 DEF Tied, Conns
      <4> QED
        BY <1>12, <3>3, <4>3 DEF Reset
    <3>4. CASE Conn(c).inFile = Closed /\ Conn(c).outFile = Closed
      <4>1. Tied(Conn(c), phase'[c])
        BY <3>4 DEF Tied
      <4> QED
        BY <1>12, <3>4, <4>1 DEF Reset
    <3> QED
      BY <3>2, <3>3, <3>4
  <2> QED
    BY <1>1, <2>1, <2>2, <2>3
<1>13. CASE Encode(c)
  <2>1. /\ UNCHANGED <<m_connections, resetting>> /\ phase[c] = "encoding"
        /\ phase'[c] = "sending"
    BY <1>0, <1>13 DEF Encode, connVars, ClientTypeOK
  <2>2. TransferTied(c)'
    BY <1>0, <2>1 DEF TransferTied
  <2>3. \A cli : Tied(cli, "encoding") => Tied(cli, "sending")
    BY DEF Tied
  <2> QED
    BY <1>0, <2>1, <2>2, <2>3 DEF Result
<1>14. CASE PostFile(c)
  <2> DEFINE cli == [Conn(c) EXCEPT !.inFile = Closed, !.encResult = result[c]]
  <2>1. /\ session[c] \in Sessions /\ phase[c] = "sending" /\ Conn(c).outFile = Closed
        /\ result[c].fileLength > 0 /\ c \notin resetting
    BY <1>14 DEF PostFile, PostAccepted, ResultAccepted, Calling, WithData
  <2>2. /\ SetConn(c, cli) \/ SetConn(c, [cli EXCEPT !.outFile = 0])
        /\ UNCHANGED <<session, resetting>> /\ phase'[c] \in {"sending", "transmitting"}
    BY <1>0, <1>14, <2>1 DEF PostFile, Answer, clientVars, ClientTypeOK
  <2>3. Tied(cli, phase'[c]) /\ Tied([cli EXCEPT !.outFile = 0], phase'[c])
    BY <1>3, <2>1 DEF Tied, Conns
  <2> HIDE DEF cli
  <2>4. TransferTied(c)'
    BY <1>0, <2>1, <2>2 DEF TransferTied
  <2> QED
    BY <1>1, <2>1, <2>2, <2>3, <2>4
<1>15. ASSUME NEW cli, session[c] \in Sessions, PrepareNewSession(session[c], cli),
              cli.token = c, TransferTied(c)'
       PROVE  Result
  BY <1>0, <1>1, <1>15 DEF PrepareNewSession, SetConn
<1>16. CASE PostFileError(c)
  <2> DEFINE cli == [Conn(c) EXCEPT !.inFile = Closed, !.encResult = result[c]]
  <2>1. /\ session[c] \in Sessions /\ phase[c] = "sending" /\ c \notin resetting
        /\ PrepareNewSession(session[c], cli)
    BY <1>16 DEF PostFileError, PostAccepted, Calling
  <2>2. phase'[c] \in {"idle", "sending"} /\ UNCHANGED resetting
    BY <1>0, <1>16, <2>1 DEF PostFileError, BecomesIdle, Answer, ClientTypeOK
  <2>3. TransferTied(c)'
    BY <2>1, <2>2 DEF TransferTied
  <2>4. cli.token = c
    BY <1>3, <2>1 DEF Conns
  <2> HIDE DEF cli
  <2> QED
    BY <1>15, <2>1, <2>3, <2>4
<1>17. CASE WriteChunk(c)
  <2>1. /\ session[c] \in Sessions /\ phase[c] = "transmitting" /\ c \notin resetting
        /\ Conn(c).outFile # Closed
    BY <1>17 DEF WriteChunk, WriteAccepted, Calling
  <2>2. /\ TransferTied(c)'
        /\ phase'[c] \in {"transmitting", "idle"}
    <3>1. \/ UNCHANGED <<session, phase>>
          \/ phase'[c] = "idle" /\ UNCHANGED resetting
      BY <1>0, <1>17 DEF WriteChunk, Answer, BecomesIdle, Finishes, clientVars, ClientTypeOK
    <3> QED
      BY <1>0, <2>1, <3>1 DEF TransferTied
  <2>3. CASE PrepareNewSession(session[c], Conn(c))
    BY <1>3, <1>15, <2>1, <2>2, <2>3
  <2>4. ASSUME NEW tellp \in {Conn(c).outFile + 1, Failed},
               SetConn(c, [Conn(c) EXCEPT !.outFile = tellp]),
               AsSize(tellp) < Conn(c).encResult.fileLength
        PROVE  Result
    <3>1. /\ Conn(c).outFile \in Nat /\ Conn(c).encResult.fileLength \in 0..EncLen
          /\ EncLen \in Nat /\ Tied(Conn(c), "transmitting")
      BY <1>3, <2>1 DEF Conns, EncResults, DaemonAssumption
    <3>2. tellp = Conn(c).outFile + 1 /\ tellp < Conn(c).encResult.fileLength
      BY <2>4, <3>1 DEF AsSize, Failed
    <3>3. Conn(c).inFile = Closed
      BY <3>1 DEF Tied
    <3>4. Tied([Conn(c) EXCEPT !.outFile = tellp], phase'[c])
      BY <1>3, <2>1, <3>2, <3>3 DEF Tied, Conns
    <3> QED
      BY <1>1, <2>1, <2>2, <2>4, <3>4
  <2> QED
    BY <1>17, <2>3, <2>4 DEF WriteChunk
<1>18. CASE Abort(c)
  <2>1. session[c] \in Sessions /\ phase'[c] = "gone" /\ TransferTied(c)'
    BY <1>4, <1>18 DEF Abort
  <2>2. UNCHANGED m_connections \/ SetConn(c, Cleared(c, NoFile))
    BY <1>18 DEF Abort
  <2> QED
    BY <1>0, <1>1, <1>2, <2>1, <2>2
<1>19. CASE Die(c)
  BY <1>2, <1>4, <1>19 DEF Die, connVars
<1>20. CASE Break(c)
  <2>1. /\ UNCHANGED m_connections /\ c \notin resetting'
        /\ \/ phase'[c] = "gone"
           \/ phase'[c] = phase[c] /\ session'[c] = StaleSession
    BY <1>0, <1>20 DEF Break, Disconnected, connVars
  <2>2. TransferTied(c)'
    BY <1>0, <2>1 DEF TransferTied
  <2> QED
    BY <1>2, <2>1, <2>2
<1> QED
  BY <1>5, <1>6, <1>7, <1>8, <1>9, <1>10, <1>11, <1>12, <1>13, <1>14, <1>16, <1>17, <1>18, <1>19,
     <1>20 DEF ClientStep

\* Clients and connections go on agreeing, unless the daemon is restarted.
LEMMA NextTied ==
  ASSUME DbAssumption, DaemonAssumption, "restart" \notin Events, DataInv, HolderInv,
         TransfersTied, [Next]_vars
  PROVE  TransfersTied'
<1>1. ASSUME NEW c \in Clients, ClientStep(c) \/ Abort(c) \/ LostCall(c) \/ Break(c) \/ Die(c)
      PROVE  TransfersTied'
  BY <1>1, OthersTied, CallerTied DEF TransfersTied
<1>2. CASE MainStep \/ SpuriousWakeup \/ WatchStat \/ WatchAdd \/ UNCHANGED vars
  <2>1. UNCHANGED <<m_connections, session, phase, resetting>>
    BY <1>2 DEF MainStep, MainLoop, MainWake, MainRecordFailure, MainMove, MainRecord,
       SpuriousWakeup, WatchStat, WatchAdd, connVars, clientVars, vars
  <2> QED
    BY <2>1 DEF TransfersTied, TransferTied
<1>3. ~Restart
  BY DEF Restart
<1> QED
  BY <1>1, <1>2, <1>3 DEF Next

\* A connection that has a file is worked on, or blocked.
LEMMA HolderWorks ==
  ASSUME DbAssumption, DaemonAssumption, "restart" \notin Events, QueueInv, SourceKnown,
         ResultsFresh, TransfersTied, NEW s \in Sessions, NEW f \in Files, HeldBySession(s, f)
  PROVE  Working(s, f) \/ Blocked(s)
<1>0. /\ m_connections[s] \in Conns /\ ClientTypeOK /\ NoFile \notin Files
      /\ NoSession # StaleSession
  BY DEF QueueInv, DataInv, TypeOK, DbAssumption, DaemonAssumption
<1>1. PICK cli \in Conns : cli = m_connections[s]
  BY <1>0
<1>2. cli.originalFileName = f
  BY <1>1 DEF HeldBySession
<1>3. PICK c \in Clients : c = cli.token
  <2>1. cli.token # NoClient
    BY <1>0, <1>1, <1>2 DEF QueueInv, FreeIsEmpty, NoConn, Cleared
  <2> QED
    BY <2>1 DEF Conns
<1>4. Tied(cli, phase[c]) /\ TransferTied(c)
  BY <1>1, <1>3 DEF TransfersTied
<1>5. session[c] \in {s, NoSession, StaleSession}
  <2>1. session[c] \in Sessions => session[c] = s
    BY <1>1, <1>3, OnlyConn DEF QueueInv
  <2> QED
    BY <1>0, <2>1 DEF ClientTypeOK
<1>6. phase[c] \notin Resting => source[c] = f
  BY <1>0, <1>1, <1>2, <1>3 DEF SourceKnown
<1>7. HasStream(cli) \/ MayPostAgain(c)
  BY <1>0, <1>1, <1>2, <1>3 DEF QueueInv, StreamsTied
<1> SUFFICES ASSUME ~Blocked(s) PROVE Working(s, f)
  OBVIOUS
<1>8. /\ phase[c] # "gone" /\ phase[c] # "looping" /\ session[c] # StaleSession
      /\ phase[c] = "idle" => ~HasStream(cli)
      /\ phase[c] = "sending" => cli.outFile = Closed
  BY <1>1, <1>3 DEF Blocked, HasStream
<1>9. phase[c] # "idle"
  BY <1>7, <1>8 DEF MayPostAgain
<1>10. CASE phase[c] = "receiving"
  <2>1. cli.inFile # Closed
    <3>1. HasSource(c)
      BY <1>10 DEF ResultsFresh, NeedsSource
    <3>2. PICK t \in Sessions : m_connections[t].token = c /\ m_connections[t].inFile # Closed
      BY <3>1 DEF HasSource
    <3>3. c # NoClient
      BY DEF DaemonAssumption
    <3>4. t = s
      BY <1>1, <1>3, <3>2, <3>3 DEF QueueInv, HolderInv, HoldersTied, TokensUnique
    <3> QED
      BY <1>1, <3>2, <3>4
  <2>2. session[c] = s
    BY <1>4, <1>5, <1>8, <1>10 DEF TransferTied
  <2> QED
    BY <1>1, <1>3, <1>6, <1>10, <2>1, <2>2 DEF Working, ReadAccepted, Resting
<1>11. CASE phase[c] \in {"encoding", "sending"}
  <2>1. cli.inFile # Closed => cli.inFile = FileLen[cli.originalFileName]
    BY <1>4, <1>11 DEF Tied
  <2>2. cli.outFile = Closed
    <3>1. CASE phase[c] = "sending"
      BY <1>8, <3>1
    <3>2. CASE phase[c] = "encoding"
      <4>1. HasSource(c)
        BY <3>2 DEF ResultsFresh, NeedsSource
      <4>2. PICK t \in Sessions : m_connections[t].token = c /\ m_connections[t].inFile # Closed
        BY <4>1 DEF HasSource
      <4>3. c # NoClient
        BY DEF DaemonAssumption
      <4>4. t = s
        BY <1>1, <1>3, <4>2, <4>3 DEF QueueInv, HolderInv, HoldersTied, TokensUnique
      <4> QED
        BY <1>1, <1>4, <4>2, <4>4 DEF Tied
    <3> QED
      BY <1>11, <3>1, <3>2
  <2> QED
    BY <1>1, <1>3, <1>5, <1>6, <1>8, <1>11, <2>1, <2>2 DEF Working, ResultAccepted, Resting
<1>12. CASE phase[c] = "transmitting"
  <2>1. cli.inFile = Closed /\ session[c] = s
    BY <1>4, <1>5, <1>8, <1>12 DEF Tied, TransferTied
  <2>2. cli.outFile # Closed
    BY <1>7, <1>12, <2>1 DEF HasStream, MayPostAgain
  <2>3. cli.outFile + 1 <= cli.encResult.fileLength
    <3>1. cli.outFile \in Nat /\ cli.encResult.fileLength \in Nat
      BY <2>2 DEF Conns, EncResults
    <3> QED
      BY <1>4, <2>2, <3>1 DEF Tied
  <2>4. cli.originalFileId # NoFile
    <3>1. IdStored(cli)
      BY <1>1 DEF QueueInv, HolderInv, HoldersTied, IdsStored
    <3> QED
      BY <1>0, <1>2, <3>1 DEF IdStored
  <2> QED
    BY <1>1, <1>3, <1>6, <1>12, <2>1, <2>2, <2>3, <2>4 DEF Working, WriteAccepted, Resting
<1> QED
  BY <1>0, <1>3, <1>8, <1>9, <1>10, <1>11, <1>12 DEF ClientTypeOK, Phases

\* A reserved file is lost in five ways only, as long as the daemon runs and
\* all files can be read: if its client has ended, has lost its session, asks
\* for files or sends a result while a stream of its connection is open, or
\* sends nothing but empty chunks.  Any other file whose status is Started is
\* in the queue, with the main loop, or with a client that works on it and
\* whose next call the daemon takes, whatever calls and answers are lost.
THEOREM DaemonReservedIsHeld ==
  ASSUME DbAssumption, DaemonAssumption, {"restart", "openFails"} \cap Events = {},
         \A f \in Files : FileLen[f] > 0
  PROVE  Spec => []ReservedIsHeld
<1>1. IdsHarmless /\ ResultsKept
  BY DEF IdsHarmless, ResultsKept
<1> DEFINE Inv == /\ QueueInv /\ NoneLost
                  /\ SourceKnown /\ ResultsFresh /\ TransfersTied
<1>2. Init => Inv
  <2>1. Init => NoneLost
    BY InitJobs DEF NoneLost
  <2>2. Init => ResultsFresh
    BY DEF Init, ResultsFresh, NeedsSource
  <2> QED
    BY <2>1, <2>2, InitQueue, InitSource, InitTied
<1>3. Inv /\ [Next]_vars => Inv'
  <2>1. QueueInv => DataInv /\ HolderInv
    BY DEF QueueInv
  <2> QED
    BY <1>1, <2>1, NextQueue, NextNoneLost, NextSourceKnown, NextFresh, NextTied
<1>4. Inv => ReservedIsHeld
  <2>1. ASSUME Inv, NEW f \in Files, status[f] = Started, ~HeldByMain(f),
               ~\E i \in 1..Len(m_filesToMove) : Queued(i, f)
        PROVE  \E s \in Sessions : HeldBySession(s, f) /\ (Working(s, f) \/ Blocked(s))
    <3>1. Held(f)
      BY <2>1, JobStates DEF NoneLost
    <3>2. PICK s \in Sessions : HeldBySession(s, f)
      BY <2>1, <3>1 DEF Held
    <3> QED
      BY <2>1, <3>2, HolderWorks
  <2> QED
    BY <2>1 DEF ReservedIsHeld
<1> QED
  BY <1>2, <1>3, <1>4, PTL DEF Spec
=============================================================================
