------------------------------- MODULE Client -------------------------------
(***************************************************************************)
(* MediaArchiverClient: the state machine that poll() drives, the signal   *)
(* handler that asks it to stop, the connection it keeps or drops, the     *)
(* encoder it runs, and what the daemon knows of it meanwhile.             *)
(*                                                                         *)
(* A file goes over in one call: chunks, positions and rewinding are the   *)
(* modules Download and Upload, except that a stream that has been read to *)
(* its end is not rewound any more.  A poll is two steps, the handler of the   *)
(* current state and the check for a shutdown after it; the signal may     *)
(* arrive between them.  The daemon side is one slot, the ConnectedClient  *)
(* that has the client's token.                                            *)
(***************************************************************************)
EXTENDS Naturals

CONSTANTS MaxJobs,      \* files the daemon has to hand out
          FirstPass,    \* pass the encoder starts with: 2 with "-crf"
          Scenarios,    \* sets of events, one of which a behaviour may meet
          MaxFaults     \* bound on their number

\* lostCall, lostAnswer: a call times out before or after its handler ran;
\* lostLast: it is that of the last chunk of an upload; aligned: the length of
\* an encoding is a multiple of the chunk size; break: the connection is lost;
\* restart: the daemon restarts; refused: it cannot be reached; localFails: the
\* file to receive into cannot be opened.
Faults == {"lostCall", "lostLast", "lostAnswer", "aligned", "break", "restart", "refused",
           "localFails", "encodeFails", "launchFails"}
AllEvents == Faults \cup {"stop", "forced"}
NoFault == "none"

ASSUME ClientAssumption ==
  /\ MaxJobs \in Nat /\ FirstPass \in {1, 2}
  /\ Scenarios \subseteq SUBSET AllEvents /\ MaxFaults \in Nat

VARIABLES
  m_mainState, m_prevMainState,
  m_authenticated,
  m_rpc,              \* none, connected, broken
  m_stopRequested, m_shutdown,
  m_srcFile,          \* closed, open, failed
  m_dstFile,          \* the job whose encoding it has open, or 0
  atEnd,              \* a read has failed at its end; seekg() has no effect then
  m_encResult,        \* error, empty (OK with length 0), file
  m_passNo,
  encoder,            \* m_encodeProcess is not null
  fetched,            \* the job m_encSettings describes, or 0
  phase,              \* poll, handled, or how the process ended
  known,              \* the daemon has an entry with the client's token,
  bound,              \* and it is that of this connection
  slot,               \* the file open in the daemon: free, reading, writing
  job,                \* its originalFileId, or 0
  given,              \* number of jobs handed out
  results,            \* what the daemon has put into m_filesToMove
  faults,             \* number of failures so far
  events              \* what may go wrong in this behaviour; it never changes

stateVars == <<m_mainState, m_prevMainState>>
rpcVars == <<m_authenticated, m_rpc, bound>>
stopVars == <<m_stopRequested, m_shutdown>>
fileVars == <<m_srcFile, m_dstFile, atEnd, fetched>>
encoderVars == <<m_encResult, m_passNo, encoder>>
daemonVars == <<known, slot, job, given, results>>
vars == <<stateVars, rpcVars, stopVars, fileVars, encoderVars, phase, daemonVars, faults, events>>

States == {"Idle", "WaitForReconnect", "WaitForFileCheck", "Authenticateing", "Receiving",
           "WaitForEncodingFinished", "SendResult", "Transmitting"}

\* How a process ends: exit, an exception nobody catches, a call through a
\* null m_rpc, a read from a null m_encodeProcess.
Ends == {"exited", "terminated", "nullRpc", "nullEncoder"}

Jobs == 0..MaxJobs
JobResults == [job : Jobs, of : Jobs]   \* of: the job that was encoded, 0 for an error

Init ==
  /\ m_mainState = "Idle" /\ m_prevMainState = "Idle"
  /\ m_authenticated = FALSE /\ m_rpc = "none" /\ bound = FALSE /\ known = FALSE
  /\ m_stopRequested = FALSE /\ m_shutdown = FALSE
  /\ m_srcFile = "closed" /\ m_dstFile = 0 /\ atEnd = FALSE /\ fetched = 0
  /\ m_encResult = "error" /\ m_passNo = FirstPass /\ encoder = FALSE
  /\ phase = "poll"
  /\ slot = "free" /\ job = 0 /\ given = 0 /\ results = {}
  /\ faults = 0 /\ events \in Scenarios

-----------------------------------------------------------------------------
\* e, a failure or NoFault, happens in this step.
Happens(e) ==
  /\ UNCHANGED events
  /\ \/ e = NoFault /\ UNCHANGED faults
     \/ e \in events \cap Faults /\ faults < MaxFaults /\ faults' = faults + 1

\* poll() calls the handler of a state.
Handling(state) == phase = "poll" /\ m_mainState = state

Handled == phase' = "handled"

Goes(state, prev) == m_mainState' = state /\ m_prevMainState' = prev

\* What checkCreateRpc() leaves in m_rpc; bound is false unless it was connected.
CheckCreateRpc(e) == IF m_rpc # "connected" /\ e = "refused" THEN "broken" ELSE "connected"

Disconnect == m_rpc' = "none" /\ m_authenticated' = FALSE /\ bound' = FALSE

Lost(e) == e \in {"lostCall", "lostLast", "lostAnswer"}

\* A handler of the daemon runs that calls checkClient(); the caller sees its answer.
Served(rpc, e) == rpc = "connected" /\ bound /\ e \notin {"lostCall", "lostLast"}
Answered(rpc, e) == Served(rpc, e) /\ e # "lostAnswer"

\* cleanUp()
CleanUp ==
  /\ encoder' = FALSE /\ m_srcFile' = "closed" /\ m_dstFile' = 0 /\ atEnd' = FALSE /\ fetched' = 0
  /\ UNCHANGED <<m_encResult, m_passNo>>

StopStates_NotReceiving == {"Idle", "Authenticateing"}

\* The states whose handlers look for a normal stop first.
StopStates == {"Idle", "Authenticateing", "Receiving"}

\* A normal stop in one of them.
StopHere ==
  /\ \E s \in StopStates : Handling(s)
  /\ m_stopRequested
  /\ m_shutdown' = TRUE
  /\ Handled
  /\ UNCHANGED <<stateVars, rpcVars, m_stopRequested, fileVars, encoderVars, daemonVars, faults, events>>

-----------------------------------------------------------------------------
AfterAuth_Idle == Goes("Idle", "Idle")

\* The state that asked for the authentication.
AfterAuth == Goes(m_prevMainState, m_prevMainState)

Authenticate_Anew ==
  /\ bound' = TRUE /\ known' = TRUE
  /\ job' \in Jobs /\ slot' = "free"
  /\ UNCHANGED <<given, results>>

\* The daemon's authenticate(): the entry with the token becomes that of this
\* connection; a new one has an originalFileId that nobody has initialised.
Authenticate ==
  /\ bound' = TRUE /\ known' = TRUE
  /\ IF known THEN UNCHANGED job ELSE job' \in Jobs
  /\ UNCHANGED <<slot, given, results>>

\* doAuth(): on to the state that asked for it; a timeout is tried again, a
\* daemon out of reach makes the client start from Idle.
DoAuth(e) ==
  LET rpc == CheckCreateRpc(e) IN
  /\ Handling("Authenticateing") /\ ~m_stopRequested /\ Happens(e)
  /\ m_rpc' = rpc
  /\ IF rpc = "broken"
     THEN Goes("WaitForReconnect", "Idle")
     ELSE IF Lost(e) THEN UNCHANGED stateVars ELSE AfterAuth
  /\ IF rpc = "connected" /\ e \notin {"lostCall", "lostLast"}
     THEN Authenticate ELSE UNCHANGED <<bound, daemonVars>>
  /\ m_authenticated' = (rpc = "connected" /\ ~Lost(e))
  /\ Handled
  /\ UNCHANGED <<stopVars, fileVars, encoderVars>>

-----------------------------------------------------------------------------
\* The daemon's getNextFile(): it is refused while a file is open.
HandOut ==
  /\ slot = "free" /\ given < MaxJobs
  /\ given' = given + 1 /\ job' = given + 1 /\ slot' = "reading"
  /\ UNCHANGED <<known, results>>

NoneLeft ==
  /\ slot = "free" /\ given = MaxJobs
  /\ job' = 0
  /\ UNCHANGED <<known, slot, given, results>>

\* doIdle() that has to authenticate first.
IdleUnknown(e) ==
  /\ Handling("Idle") /\ ~m_stopRequested /\ ~m_authenticated /\ Happens(e)
  /\ m_rpc' = CheckCreateRpc(e)
  /\ Goes("Authenticateing", "Idle") /\ Handled
  /\ UNCHANGED <<m_authenticated, bound, stopVars, fileVars, encoderVars, daemonVars>>

\* doIdle(), getNextFile(): a file is opened to receive into; with no file to
\* work on the client disconnects; after an error it waits.
DoIdle(e) ==
  LET rpc == CheckCreateRpc(e) IN
  /\ Handling("Idle") /\ ~m_stopRequested /\ m_authenticated /\ Happens(e)
  /\ Handled
  /\ \/ /\ Answered(rpc, e) /\ HandOut
        /\ m_srcFile' = IF e = "localFails" THEN "failed" ELSE "open"
        /\ fetched' = job'
        /\ m_rpc' = rpc /\ UNCHANGED <<m_authenticated, bound, m_dstFile, atEnd>>
        /\ Goes("Receiving", "Idle")
     \/ /\ Answered(rpc, e) /\ NoneLeft
        /\ Disconnect
        /\ Goes("WaitForFileCheck", "Idle")
        /\ UNCHANGED fileVars
     \/ /\ ~(Answered(rpc, e) /\ slot = "free")
        /\ IF Served(rpc, e) /\ slot = "free" THEN HandOut \/ NoneLeft
                                              ELSE UNCHANGED daemonVars
        /\ m_rpc' = rpc /\ UNCHANGED <<m_authenticated, bound, fileVars>>
        /\ Goes("WaitForReconnect", "Idle")
  /\ UNCHANGED <<stopVars, encoderVars>>

\* doWait()
DoWait ==
  /\ Handling("WaitForReconnect") \/ Handling("WaitForFileCheck")
  /\ IF m_stopRequested /\ m_prevMainState = "Idle"
     THEN m_shutdown' = TRUE /\ UNCHANGED m_mainState
     ELSE m_mainState' = m_prevMainState /\ UNCHANGED m_shutdown
  /\ Handled
  /\ UNCHANGED <<m_prevMainState, rpcVars, m_stopRequested, fileVars, encoderVars,
                 daemonVars, faults, events>>

-----------------------------------------------------------------------------
\* A transfer failed: reset() is called in the exception handler, where its
\* own failure ends the process; after a lost call it may fail as well.
StartAgain(e) ==
  /\ UNCHANGED <<stateVars, rpcVars, stopVars, m_srcFile, m_dstFile, fetched, encoderVars>>
  /\ \/ /\ Lost(e) \/ m_rpc # "connected" \/ ~bound
        /\ phase' = IF m_rpc = "none" THEN "nullRpc" ELSE "terminated"
     \/ Handled /\ m_rpc = "connected" /\ bound

Launched_StateKept == encoder' = TRUE /\ UNCHANGED m_mainState

Launched == encoder' = TRUE /\ m_mainState' = "WaitForEncodingFinished"

\* doReceive() of a whole file: the client disconnects and launches the
\* encoder; if that fails, reset() is called through the m_rpc just dropped.
DoReceive(e) ==
  /\ Handling("Receiving") /\ ~m_stopRequested /\ Happens(e)
  /\ Answered(m_rpc, e) /\ slot = "reading" /\ m_srcFile = "open"
  /\ m_srcFile' = "closed"
  /\ Disconnect
  /\ m_encResult' = "error" /\ m_passNo' = FirstPass
  /\ IF e = "launchFails"
     THEN phase' = "nullRpc" /\ UNCHANGED <<encoder, m_mainState>>
     ELSE Handled /\ Launched
  /\ UNCHANGED <<m_prevMainState, stopVars, m_dstFile, atEnd, fetched, daemonVars>>

ReceiveFails(e) ==
  /\ Handling("Receiving") /\ ~m_stopRequested /\ Happens(e)
  /\ ~(Answered(m_rpc, e) /\ slot = "reading" /\ m_srcFile = "open")
  /\ StartAgain(e)
  /\ UNCHANGED <<atEnd, daemonVars>>

-----------------------------------------------------------------------------
\* What a successful second pass leaves.  If m_dstFile is still open, opening it
\* fails, is_open() holds, and the length read is 0.
Encoded == IF m_dstFile = 0 THEN m_encResult' = "file" /\ m_dstFile' = fetched
                            ELSE m_encResult' = "empty" /\ UNCHANGED m_dstFile

Pass2Started_Not(e) == FALSE

Pass2Started(e) == e # "launchFails"

\* The first pass is over: the second is launched.  If that fails the state
\* is kept all the same.
Pass2(e) ==
  /\ encoder' = Pass2Started(e)
  /\ m_passNo' = 2
  /\ m_encResult' = IF e = "launchFails" THEN "error" ELSE m_encResult
  /\ UNCHANGED <<m_mainState, m_dstFile>>

\* doConvert(): the encoder has ended, or is stopped by a shutdown.
DoConvert(e) ==
  /\ Handling("WaitForEncodingFinished") /\ encoder /\ Happens(e)
  /\ \/ /\ m_shutdown \/ e = "encodeFails" \/ (m_passNo = 2 /\ e = "launchFails")
        /\ m_encResult' = "error" /\ m_mainState' = "SendResult"
        /\ encoder' = FALSE
        /\ UNCHANGED <<m_passNo, m_dstFile>>
     \/ ~m_shutdown /\ e # "encodeFails" /\ m_passNo = 1 /\ Pass2(e)
     \/ /\ ~m_shutdown /\ e \notin {"encodeFails", "launchFails"} /\ m_passNo = 2
        /\ Encoded
        /\ encoder' = FALSE /\ m_mainState' = "SendResult"
        /\ UNCHANGED m_passNo
  /\ Handled
  /\ UNCHANGED <<m_prevMainState, rpcVars, stopVars, m_srcFile, atEnd, fetched, daemonVars>>

\* doConvert() reads from an encoder that was never started.
ConvertNothing ==
  /\ Handling("WaitForEncodingFinished") /\ ~encoder
  /\ phase' = "nullEncoder"
  /\ UNCHANGED <<stateVars, rpcVars, stopVars, fileVars, encoderVars, daemonVars, faults, events>>

-----------------------------------------------------------------------------
AskAuth_Swapped == Goes("Authenticateing", "Authenticateing")

\* The state is saved, then changed.
AskAuth == Goes("Authenticateing", "SendResult")

\* doSendResult() that has to authenticate first.
SendUnknown(e) ==
  /\ Handling("SendResult") /\ ~m_authenticated /\ Happens(e)
  /\ m_rpc' = CheckCreateRpc(e)
  /\ AskAuth /\ Handled
  /\ UNCHANGED <<m_authenticated, bound, stopVars, fileVars, encoderVars, daemonVars>>

\* The daemon's postFile(): a file will follow, or an error is queued.
Posted ==
  IF m_encResult = "file"
  THEN slot' = "writing" /\ UNCHANGED <<known, job, given, results>>
  ELSE /\ results' = results \cup {[job |-> job, of |-> 0]}
       /\ slot' = "free" /\ job' = 0
       /\ UNCHANGED <<known, given>>

\* doSendResult(), postFile(), which is refused while an upload is open.
DoSendResult(e) ==
  LET rpc == CheckCreateRpc(e) IN
  /\ Handling("SendResult") /\ m_authenticated /\ Happens(e)
  /\ m_rpc' = rpc /\ UNCHANGED <<m_authenticated, bound>>
  /\ IF Served(rpc, e) /\ slot # "writing" THEN Posted ELSE UNCHANGED daemonVars
  /\ \/ /\ Answered(rpc, e) /\ slot # "writing"
        /\ UNCHANGED m_prevMainState
        /\ IF m_encResult = "file"
           THEN m_mainState' = "Transmitting" /\ UNCHANGED <<fileVars, encoderVars>>
           ELSE m_mainState' = "Idle" /\ CleanUp
     \/ /\ ~(Answered(rpc, e) /\ slot # "writing")
        /\ Goes("WaitForReconnect", "SendResult")
        /\ UNCHANGED <<fileVars, encoderVars>>
  /\ Handled
  /\ UNCHANGED stopVars

-----------------------------------------------------------------------------
\* The daemon's writeChunk() takes chunks of a file it knows.
Writable == slot = "writing" /\ job # 0

\* The last chunk: the connection's file goes to the main loop.
Stored ==
  /\ results' = results \cup {[job |-> job, of |-> m_dstFile]}
  /\ slot' = "free" /\ job' = 0
  /\ UNCHANGED <<known, given>>

\* Every chunk of the file arrives, and every answer.
WholeFile(e) == Answered(m_rpc, e) /\ Writable /\ ~atEnd

\* doTransmit() of a whole file.  The last chunk sets eof() if it is a short
\* one; if not, the client goes on with empty chunks.
DoTransmit(e) ==
  /\ Handling("Transmitting") /\ Happens(e)
  /\ WholeFile(e)
  /\ Stored
  /\ IF e = "aligned"
     THEN UNCHANGED <<m_mainState, fileVars, encoderVars>>
     ELSE CleanUp /\ m_mainState' = "Idle"
  /\ Handled
  /\ UNCHANGED <<m_prevMainState, rpcVars, stopVars>>

\* A call fails, or its answer is lost.  After the last chunk, a short one,
\* seekg() has no effect because it precedes clear(): from then on the client
\* sends nothing but empty chunks, which end nothing.
TransmitFails(e) ==
  /\ Handling("Transmitting") /\ Happens(e)
  /\ ~WholeFile(e)
  /\ \/ Served(m_rpc, e) /\ Writable /\ ~atEnd /\ Stored /\ atEnd' = TRUE
     \/ UNCHANGED daemonVars /\ atEnd' = (atEnd \/ e = "lostLast")
  /\ StartAgain(e)

-----------------------------------------------------------------------------
\* poll() after the handler: a client that shuts down calls abort() if it is
\* connected, which gives an open file back, and ends.
CheckShutdown(e) ==
  /\ phase = "handled" /\ Happens(e)
  /\ \/ /\ ~m_shutdown /\ e = NoFault
        /\ phase' = "poll"
        /\ UNCHANGED <<stateVars, rpcVars, fileVars, encoderVars, daemonVars>>
     \/ /\ m_shutdown
        /\ IF Served(m_rpc, e) /\ slot # "free"
           THEN slot' = "free" /\ job' = 0 /\ UNCHANGED <<known, given, results>>
           ELSE UNCHANGED daemonVars
        /\ Disconnect /\ CleanUp
        /\ phase' = "exited"
        /\ UNCHANGED stateVars
  /\ UNCHANGED stopVars

\* stop(), called by the signal handler: the first signal is a normal stop,
\* the second a forced one.
Stop ==
  /\ phase \notin Ends
  /\ \/ "stop" \in events /\ ~m_stopRequested /\ UNCHANGED m_shutdown
     \/ "forced" \in events /\ m_stopRequested /\ ~m_shutdown /\ m_shutdown' = TRUE
  /\ m_stopRequested' = TRUE
  /\ UNCHANGED <<stateVars, rpcVars, fileVars, encoderVars, phase, daemonVars, faults, events>>

\* External: the connection breaks, or the daemon restarts and forgets its
\* clients.
ConnectionLost(e) ==
  /\ e \in {"break", "restart"} /\ Happens(e)
  /\ phase \notin Ends
  /\ m_rpc' = IF m_rpc = "connected" THEN "broken" ELSE m_rpc
  /\ bound' = FALSE
  /\ IF e = "restart"
     THEN known' = FALSE /\ slot' = "free" /\ job' = 0 /\ UNCHANGED <<given, results>>
     ELSE UNCHANGED daemonVars
  /\ UNCHANGED <<stateVars, m_authenticated, stopVars, fileVars, encoderVars, phase>>

-----------------------------------------------------------------------------
Poll ==
  \/ StopHere \/ DoWait \/ ConvertNothing
  \/ \E e \in Faults \cup {NoFault} :
       \/ DoAuth(e) \/ IdleUnknown(e) \/ DoIdle(e)
       \/ DoReceive(e) \/ ReceiveFails(e)
       \/ DoConvert(e)
       \/ SendUnknown(e) \/ DoSendResult(e)
       \/ DoTransmit(e) \/ TransmitFails(e)
       \/ CheckShutdown(e)

Next == Poll \/ Stop \/ \E e \in Faults : ConnectionLost(e)

Spec == Init /\ [][Next]_vars

\* main() calls poll() until it returns another value than 0.
FairSpec == Spec /\ WF_vars(Poll)

-----------------------------------------------------------------------------
\* The parts of TypeOK: the state machine, the connection, what the client
\* works on, what the daemon keeps for it.
StateTypeOK ==
  /\ m_mainState \in States /\ m_prevMainState \in {"Idle", "SendResult"}
  /\ m_stopRequested \in BOOLEAN /\ m_shutdown \in BOOLEAN
  /\ phase \in {"poll", "handled"} \cup Ends
  /\ faults \in 0..MaxFaults /\ events \in Scenarios

ConnectionTypeOK ==
  /\ m_authenticated \in BOOLEAN /\ m_rpc \in {"none", "connected", "broken"}
  /\ bound \in BOOLEAN /\ (bound => m_rpc = "connected" /\ known)

WorkTypeOK ==
  /\ m_srcFile \in {"closed", "open", "failed"}
  /\ m_dstFile \in Jobs /\ atEnd \in BOOLEAN /\ fetched \in Jobs
  /\ m_encResult \in {"error", "empty", "file"} /\ m_passNo \in {1, 2} /\ encoder \in BOOLEAN

DaemonTypeOK ==
  /\ known \in BOOLEAN /\ slot \in {"free", "reading", "writing"}
  /\ job \in Jobs /\ given \in Jobs
  /\ results \subseteq JobResults

\* All variables have their types; a connection the daemon knows is up; what
\* doWait() and doAuth() return to is Idle or SendResult.
TypeOK == StateTypeOK /\ ConnectionTypeOK /\ WorkTypeOK /\ DaemonTypeOK

\* As long as the daemon does not restart, what it takes as the encoding of a
\* file was made of that file, whichever connections broke, calls and answers
\* were lost and results were forgotten in between.  (After a restart the
\* client's entry has any originalFileId.)
UploadsOwnEncoding == "restart" \notin events => \A r \in results : r.of \in {0, r.job}

\* No handler calls through the m_rpc that disconnect() has dropped, if the
\* encoder can always be launched.
RpcThere == "launchFails" \notin events => phase # "nullRpc"

\* Under the same condition doConvert() always has an encoder to read from.
EncoderThere == "launchFails" \notin events => phase # "nullEncoder"

\* Lost calls, but for that of a last chunk, and failing encodings: a job that
\* is handed out gets its result, if no length is a multiple of the chunk size.
JobEnds ==
  \A j \in 1..MaxJobs : job = j /\ events \subseteq {"lostCall", "encodeFails"} ~> job # j \/ phase \in Ends

\* A client that is asked to stop ends, unless the daemon executes calls whose
\* answers get lost, the connection breaks, or an upload goes on for ever.
StopEnds ==
  m_stopRequested /\ events \subseteq {"lostCall", "refused", "encodeFails", "localFails", "stop"}
    ~> phase \in Ends
=============================================================================
