---------------------------- MODULE ClientProofs ----------------------------
(***************************************************************************)
(* Theorems about the client, for any number of files and failures.        *)
(***************************************************************************)
EXTENDS Client, TLAPS

\* What the assumptions say of the bounds.
LEMMA Bounds == 0 \in 0..MaxFaults /\ 0 \in Jobs /\ FirstPass \in {1, 2} /\ MaxFaults \in Nat
BY ClientAssumption DEF Jobs

LEMMA InitType == Init => TypeOK
<1> SUFFICES ASSUME Init PROVE TypeOK
  OBVIOUS
<1>1. StateTypeOK
  BY Bounds DEF Init, StateTypeOK, States
<1>2. ConnectionTypeOK
  BY DEF Init, ConnectionTypeOK
<1>3. WorkTypeOK
  BY Bounds DEF Init, WorkTypeOK
<1>4. DaemonTypeOK
  BY Bounds DEF Init, DaemonTypeOK
<1> QED
  BY <1>1, <1>2, <1>3, <1>4 DEF TypeOK

\* A failure is counted once; what may happen stays the same.
LEMMA FaultsType ==
  ASSUME StateTypeOK, NEW e, Happens(e)
  PROVE  faults' \in 0..MaxFaults /\ events' \in Scenarios
BY Bounds DEF Happens, StateTypeOK

\* The state machine moves between its states.
LEMMA StateType == TypeOK /\ [Next]_vars => StateTypeOK'
<1> SUFFICES ASSUME TypeOK, [Next]_vars PROVE StateTypeOK'
  OBVIOUS
<1>a. StateTypeOK
  BY DEF TypeOK
<1> USE <1>a DEF StateTypeOK, Handled, Goes
<1>1. CASE StopHere \/ DoWait \/ ConvertNothing \/ Stop
  <2>1. CASE StopHere
    BY <2>1 DEF StopHere, stateVars
  <2>2. CASE DoWait
    BY <2>2 DEF DoWait, States
  <2>3. CASE ConvertNothing
    BY <2>3 DEF ConvertNothing, Ends, stateVars, stopVars
  <2>4. CASE Stop
    BY <2>4 DEF Stop, stateVars
  <2> QED
    BY <1>1, <2>1, <2>2, <2>3, <2>4
<1>2. ASSUME NEW e,
             \/ DoAuth(e) \/ IdleUnknown(e) \/ DoIdle(e) \/ DoReceive(e) \/ ReceiveFails(e)
             \/ DoConvert(e) \/ SendUnknown(e) \/ DoSendResult(e) \/ DoTransmit(e)
             \/ TransmitFails(e) \/ CheckShutdown(e) \/ ConnectionLost(e)
      PROVE  StateTypeOK'
  <2>1. faults' \in 0..MaxFaults /\ events' \in Scenarios
    BY <1>2, FaultsType DEF DoAuth, IdleUnknown, DoIdle, DoReceive, ReceiveFails, DoConvert,
       SendUnknown, DoSendResult, DoTransmit, TransmitFails, CheckShutdown, ConnectionLost
  <2>2. m_stopRequested' = m_stopRequested /\ m_shutdown' = m_shutdown
    BY <1>2 DEF DoAuth, IdleUnknown, DoIdle, DoReceive, ReceiveFails, DoConvert, StartAgain,
       SendUnknown, DoSendResult, DoTransmit, TransmitFails, CheckShutdown, ConnectionLost, stopVars
  <2>3. CASE DoAuth(e)
    BY <2>1, <2>2, <2>3 DEF DoAuth, AfterAuth, States, stateVars
  <2>4. CASE IdleUnknown(e) \/ SendUnknown(e) \/ DoIdle(e)
    BY <2>1, <2>2, <2>4 DEF IdleUnknown, SendUnknown, AskAuth, DoIdle, States
  <2>5. CASE DoReceive(e) \/ DoConvert(e)
    BY <2>1, <2>2, <2>5 DEF DoReceive, Launched, DoConvert, Pass2, States, Ends
  <2>6. CASE DoSendResult(e) \/ DoTransmit(e)
    BY <2>1, <2>2, <2>6 DEF DoSendResult, DoTransmit, States
  <2>7. CASE ReceiveFails(e) \/ TransmitFails(e)
    BY <2>1, <2>2, <2>7 DEF ReceiveFails, TransmitFails, StartAgain, Ends, stateVars
  <2>8. CASE CheckShutdown(e) \/ ConnectionLost(e)
    BY <2>1, <2>2, <2>8 DEF CheckShutdown, ConnectionLost, Ends, stateVars
  <2> QED
    BY <1>2, <2>3, <2>4, <2>5, <2>6, <2>7, <2>8
<1>3. CASE UNCHANGED vars
  BY <1>3 DEF vars, stateVars, stopVars
<1> QED
  BY <1>1, <1>2, <1>3 DEF Next, Poll

\* The daemon knows only connections that are up.
LEMMA ConnectionType == TypeOK /\ [Next]_vars => ConnectionTypeOK'
<1> SUFFICES ASSUME TypeOK, [Next]_vars PROVE ConnectionTypeOK'
  OBVIOUS
<1>a. ConnectionTypeOK
  BY DEF TypeOK
<1> USE <1>a DEF ConnectionTypeOK
<1>1. CASE StopHere \/ DoWait \/ ConvertNothing \/ Stop
  BY <1>1 DEF StopHere, DoWait, ConvertNothing, Stop, rpcVars, daemonVars
<1>2. ASSUME NEW e, DoAuth(e)
      PROVE  ConnectionTypeOK'
  <2>1. m_rpc' \in {"connected", "broken"} /\ (m_rpc = "connected" => m_rpc' = "connected")
    BY <1>2 DEF DoAuth, CheckCreateRpc
  <2>2. CASE m_rpc' = "connected" /\ Authenticate
    BY <1>2, <2>2 DEF DoAuth, Authenticate
  <2>3. CASE UNCHANGED <<bound, daemonVars>>
    BY <1>2, <2>1, <2>3 DEF DoAuth, daemonVars
  <2> QED
    BY <1>2, <2>2, <2>3 DEF DoAuth
<1>3. ASSUME NEW e, IdleUnknown(e) \/ SendUnknown(e) \/ DoIdle(e) \/ DoSendResult(e)
      PROVE  ConnectionTypeOK'
  <2>1. CASE IdleUnknown(e) \/ SendUnknown(e)
    <3>1. m_rpc' \in {"connected", "broken"} /\ (m_rpc = "connected" => m_rpc' = "connected")
      BY <2>1 DEF IdleUnknown, SendUnknown, CheckCreateRpc
    <3> QED
      BY <2>1, <3>1 DEF IdleUnknown, SendUnknown, daemonVars
  <2>2. CASE DoIdle(e)
    <3>1. CASE Disconnect
      BY <3>1 DEF Disconnect
    <3>2. CASE m_rpc' = CheckCreateRpc(e) /\ UNCHANGED <<m_authenticated, bound>>
      <4>1. m_rpc' \in {"connected", "broken"} /\ (m_rpc = "connected" => m_rpc' = "connected")
        BY <3>2 DEF CheckCreateRpc
      <4>2. known' = known
        BY <2>2 DEF DoIdle, HandOut, NoneLeft, daemonVars
      <4> QED
        BY <3>2, <4>1, <4>2
    <3> QED
      BY <2>2, <3>1, <3>2 DEF DoIdle
  <2>3. CASE DoSendResult(e)
    <3>1. m_rpc' \in {"connected", "broken"} /\ (m_rpc = "connected" => m_rpc' = "connected")
      BY <2>3 DEF DoSendResult, CheckCreateRpc
    <3>2. known' = known
      BY <2>3 DEF DoSendResult, Posted, daemonVars
    <3> QED
      BY <2>3, <3>1, <3>2 DEF DoSendResult
  <2> QED
    BY <1>3, <2>1, <2>2, <2>3
<1>4. ASSUME NEW e,
             \/ DoReceive(e) \/ ReceiveFails(e) \/ DoConvert(e) \/ DoTransmit(e)
             \/ TransmitFails(e) \/ CheckShutdown(e) \/ ConnectionLost(e)
      PROVE  ConnectionTypeOK'
  <2>1. CASE DoReceive(e)
    BY <2>1 DEF DoReceive, Disconnect
  <2>2. CASE ReceiveFails(e) \/ TransmitFails(e)
    BY <2>2 DEF ReceiveFails, TransmitFails, StartAgain, Stored, rpcVars, daemonVars
  <2>3. CASE DoConvert(e) \/ DoTransmit(e)
    BY <2>3 DEF DoConvert, DoTransmit, Stored, rpcVars, daemonVars
  <2>4. CASE CheckShutdown(e)
    <3>1. CASE Disconnect
      BY <3>1 DEF Disconnect
    <3>2. CASE UNCHANGED <<rpcVars, daemonVars>>
      BY <3>2 DEF rpcVars, daemonVars
    <3> QED
      BY <2>4, <3>1, <3>2 DEF CheckShutdown
  <2>5. CASE ConnectionLost(e)
    BY <2>5 DEF ConnectionLost
  <2> QED
    BY <1>4, <2>1, <2>2, <2>3, <2>4, <2>5
<1>5. CASE UNCHANGED vars
  BY <1>5 DEF vars, rpcVars, daemonVars
<1> QED
  BY <1>1, <1>2, <1>3, <1>4, <1>5 DEF Next, Poll

\* The jobs of the daemon are those it handed out.
LEMMA DaemonType == TypeOK /\ [Next]_vars => DaemonTypeOK'
<1> SUFFICES ASSUME TypeOK, [Next]_vars PROVE DaemonTypeOK'
  OBVIOUS
<1>a. DaemonTypeOK /\ m_dstFile \in Jobs /\ 0 \in Jobs
  BY Bounds DEF TypeOK, WorkTypeOK
<1>1. CASE UNCHANGED daemonVars
  BY <1>a, <1>1 DEF DaemonTypeOK, daemonVars
<1>2. CASE HandOut \/ NoneLeft
  BY <1>a, <1>2, ClientAssumption DEF HandOut, NoneLeft, DaemonTypeOK, Jobs
<1>3. CASE Posted \/ Stored
  <2>1. [job |-> job, of |-> 0] \in JobResults /\ [job |-> job, of |-> m_dstFile] \in JobResults
    BY <1>a DEF DaemonTypeOK, JobResults
  <2> QED
    BY <1>a, <1>3, <2>1 DEF Posted, Stored, DaemonTypeOK
<1>4. CASE slot' = "free" /\ job' = 0 /\ known' \in {known, FALSE} /\ UNCHANGED <<given, results>>
  BY <1>a, <1>4 DEF DaemonTypeOK
<1>6. CASE Authenticate
  BY <1>a, <1>6 DEF Authenticate, DaemonTypeOK
<1>5. \/ UNCHANGED daemonVars \/ HandOut \/ NoneLeft \/ Posted \/ Stored \/ Authenticate
      \/ slot' = "free" /\ job' = 0 /\ known' \in {known, FALSE} /\ UNCHANGED <<given, results>>
  <2>1. CASE StopHere \/ DoWait \/ ConvertNothing \/ Stop \/ UNCHANGED vars
    BY <2>1 DEF StopHere, DoWait, ConvertNothing, Stop, vars, daemonVars
  <2>2. ASSUME NEW e,
               \/ DoAuth(e) \/ IdleUnknown(e) \/ DoReceive(e) \/ ReceiveFails(e)
               \/ DoConvert(e) \/ SendUnknown(e)
        PROVE  UNCHANGED daemonVars \/ Authenticate
    BY <2>2 DEF DoAuth, IdleUnknown, DoReceive, ReceiveFails, DoConvert, SendUnknown
  <2>3. ASSUME NEW e, DoIdle(e)
        PROVE  UNCHANGED daemonVars \/ HandOut \/ NoneLeft
    BY <2>3 DEF DoIdle
  <2>4. ASSUME NEW e, DoSendResult(e) \/ DoTransmit(e) \/ TransmitFails(e)
        PROVE  UNCHANGED daemonVars \/ Posted \/ Stored
    BY <2>4 DEF DoSendResult, DoTransmit, TransmitFails
  <2>5. ASSUME NEW e, CheckShutdown(e) \/ ConnectionLost(e)
        PROVE  \/ UNCHANGED daemonVars
               \/ /\ slot' = "free" /\ job' = 0 /\ known' \in {known, FALSE}
                  /\ UNCHANGED <<given, results>>
    BY <2>5 DEF CheckShutdown, ConnectionLost
  <2> QED
    BY <2>1, <2>2, <2>3, <2>4, <2>5 DEF Next, Poll
<1> QED
  BY <1>1, <1>2, <1>3, <1>4, <1>5, <1>6

\* The client works on a job the daemon gave it.
LEMMA WorkType == TypeOK /\ [Next]_vars => WorkTypeOK'
<1> SUFFICES ASSUME TypeOK, [Next]_vars PROVE WorkTypeOK'
  OBVIOUS
<1>a. WorkTypeOK /\ 0 \in Jobs /\ job' \in Jobs
  BY Bounds, DaemonType DEF TypeOK, DaemonTypeOK
<1> USE <1>a DEF WorkTypeOK
<1>1. CASE UNCHANGED <<fileVars, encoderVars>>
  BY <1>1 DEF fileVars, encoderVars
<1>2. CASE CleanUp
  BY <1>2 DEF CleanUp
<1>3. ASSUME NEW e, DoIdle(e)
      PROVE  WorkTypeOK'
  BY <1>3 DEF DoIdle, fileVars, encoderVars
<1>4. ASSUME NEW e, DoReceive(e)
      PROVE  WorkTypeOK'
  BY <1>4, Bounds DEF DoReceive, Launched
<1>5. ASSUME NEW e, DoConvert(e)
      PROVE  WorkTypeOK'
  BY <1>5 DEF DoConvert, Encoded, Pass2, Pass2Started
<1>6. CASE StopHere \/ DoWait \/ ConvertNothing \/ Stop \/ UNCHANGED vars
  BY <1>6, <1>1 DEF StopHere, DoWait, ConvertNothing, Stop, vars
<1>7. ASSUME NEW e,
             \/ DoAuth(e) \/ IdleUnknown(e) \/ ReceiveFails(e) \/ SendUnknown(e) \/ DoSendResult(e)
             \/ DoTransmit(e) \/ TransmitFails(e) \/ CheckShutdown(e) \/ ConnectionLost(e)
      PROVE  WorkTypeOK'
  <2>1. CASE ReceiveFails(e) \/ TransmitFails(e)
    BY <2>1 DEF ReceiveFails, TransmitFails, StartAgain, encoderVars
  <2> QED
    BY <1>7, <1>1, <1>2, <2>1 DEF DoAuth, IdleUnknown, SendUnknown, DoSendResult, DoTransmit,
       CheckShutdown, ConnectionLost
<1> QED
  BY <1>3, <1>4, <1>5, <1>6, <1>7 DEF Next, Poll

\* The client's state, its connection, its encoder and what the daemon keeps for
\* it are always of their types, whatever fails.
THEOREM ClientTypeCorrect == Spec => []TypeOK
<1>1. Init => TypeOK
  BY InitType
<1>2. TypeOK /\ [Next]_vars => TypeOK'
  BY StateType, ConnectionType, WorkType, DaemonType DEF TypeOK
<1> QED
  BY <1>1, <1>2, PTL DEF Spec

-----------------------------------------------------------------------------
\* In a transfer there is a connection, while encoding there is an encoder.
TargetInv ==
  /\ phase \notin {"nullRpc", "nullEncoder"}
  /\ phase \notin Ends =>
       /\ m_mainState \in {"Receiving", "Transmitting"} => m_rpc # "none"
       /\ m_mainState = "WaitForEncodingFinished" => encoder

LEMMA LaunchWorks ==
  ASSUME "launchFails" \notin events, NEW e, Happens(e)
  PROVE  e # "launchFails"
BY DEF Happens, NoFault

LEMMA TargetStep ==
  ASSUME "launchFails" \notin events, TypeOK, TargetInv, [Next]_vars
  PROVE  TargetInv'
<1>a. m_prevMainState \in {"Idle", "SendResult"}
  BY DEF TypeOK, StateTypeOK
<1> USE DEF TargetInv, Ends, Handling, Handled, Goes
<1>1. CASE StopHere \/ DoWait \/ ConvertNothing \/ Stop
  <2>1. CASE StopHere
    BY <2>1 DEF StopHere, stateVars, rpcVars, encoderVars
  <2>2. CASE DoWait
    BY <1>a, <2>2 DEF DoWait
  <2>3. CASE ConvertNothing
    BY <2>3 DEF ConvertNothing
  <2>4. CASE Stop
    BY <2>4 DEF Stop, stateVars, rpcVars, encoderVars
  <2> QED
    BY <1>1, <2>1, <2>2, <2>3, <2>4
<1>2. ASSUME NEW e, \/ DoAuth(e) \/ IdleUnknown(e) \/ SendUnknown(e) \/ DoIdle(e) \/ DoSendResult(e)
      PROVE  TargetInv'
  <2>1. CASE DoAuth(e)
    BY <1>a, <2>1 DEF DoAuth, AfterAuth, stateVars
  <2>2. CASE IdleUnknown(e) \/ SendUnknown(e)
    BY <2>2 DEF IdleUnknown, SendUnknown, AskAuth
  <2>3. CASE DoIdle(e)
    BY <2>3 DEF DoIdle, CheckCreateRpc
  <2>4. CASE DoSendResult(e)
    BY <2>4 DEF DoSendResult, CheckCreateRpc
  <2> QED
    BY <1>2, <2>1, <2>2, <2>3, <2>4
<1>3. ASSUME NEW e, DoReceive(e) \/ DoConvert(e)
      PROVE  TargetInv'
  <2>1. e # "launchFails"
    BY <1>3, LaunchWorks DEF DoReceive, DoConvert
  <2>2. CASE DoReceive(e)
    BY <2>1, <2>2 DEF DoReceive, Launched
  <2>3. CASE DoConvert(e)
    BY <2>1, <2>3 DEF DoConvert, Pass2, Pass2Started
  <2> QED
    BY <1>3, <2>2, <2>3
<1>4. ASSUME NEW e, ReceiveFails(e) \/ TransmitFails(e) \/ DoTransmit(e)
      PROVE  TargetInv'
  <2>1. CASE ReceiveFails(e) \/ TransmitFails(e)
    BY <2>1 DEF ReceiveFails, TransmitFails, StartAgain, stateVars, rpcVars, encoderVars
  <2>2. CASE DoTransmit(e)
    BY <2>2 DEF DoTransmit, rpcVars
  <2> QED
    BY <1>4, <2>1, <2>2
<1>5. ASSUME NEW e, CheckShutdown(e) \/ ConnectionLost(e)
      PROVE  TargetInv'
  <2>1. CASE CheckShutdown(e)
    BY <2>1 DEF CheckShutdown, stateVars, rpcVars, encoderVars
  <2>2. CASE ConnectionLost(e)
    BY <2>2 DEF ConnectionLost, stateVars, encoderVars
  <2> QED
    BY <1>5, <2>1, <2>2
<1>6. CASE UNCHANGED vars
  BY <1>6 DEF vars, stateVars, rpcVars, encoderVars
<1> QED
  BY <1>1, <1>2, <1>3, <1>4, <1>5, <1>6 DEF Next, Poll

LEMMA EventsKept == [Next]_vars => UNCHANGED events
<1> SUFFICES ASSUME [Next]_vars PROVE UNCHANGED events
  OBVIOUS
<1>1. CASE StopHere \/ DoWait \/ ConvertNothing \/ Stop
  BY <1>1 DEF StopHere, DoWait, ConvertNothing, Stop
<1>2. ASSUME NEW e,
             \/ DoAuth(e) \/ IdleUnknown(e) \/ DoIdle(e) \/ DoReceive(e) \/ ReceiveFails(e)
             \/ DoConvert(e) \/ SendUnknown(e) \/ DoSendResult(e) \/ DoTransmit(e)
             \/ TransmitFails(e) \/ CheckShutdown(e) \/ ConnectionLost(e)
      PROVE  UNCHANGED events
  BY <1>2 DEF DoAuth, IdleUnknown, DoIdle, DoReceive, ReceiveFails, DoConvert, SendUnknown,
     DoSendResult, DoTransmit, TransmitFails, CheckShutdown, ConnectionLost, Happens
<1> QED
  BY <1>1, <1>2 DEF Next, Poll, vars

\* As long as the encoder can always be launched, TargetInv is inductive.
LEMMA TargetInvariant == Spec => []("launchFails" \notin events => TargetInv)
<1> DEFINE Launchable == "launchFails" \notin events
<1>1. Init => (Launchable => TargetInv)
  BY DEF Init, TargetInv, Ends
<1>2. TypeOK /\ (Launchable => TargetInv) /\ [Next]_vars => (Launchable => TargetInv)'
  BY TargetStep, EventsKept
<1> QED
  BY <1>1, <1>2, ClientTypeCorrect, PTL DEF Spec

\* No handler calls through a dropped m_rpc, whatever else fails.
THEOREM HandlersHaveRpc == Spec => []RpcThere
<1>1. ("launchFails" \notin events => TargetInv) => RpcThere
  BY DEF TargetInv, RpcThere
<1> QED
  BY <1>1, TargetInvariant, PTL

\* doConvert() always reads from an encoder that was launched, whatever else
\* fails.
THEOREM ConvertHasEncoder == Spec => []EncoderThere
<1>1. ("launchFails" \notin events => TargetInv) => EncoderThere
  BY DEF TargetInv, EncoderThere
<1> QED
  BY <1>1, TargetInvariant, PTL

-----------------------------------------------------------------------------
\* The client works on the file it fetched, until it is idle again.
Working ==
  /\ phase \notin Ends
  /\ \/ m_mainState \in {"Receiving", "WaitForEncodingFinished", "SendResult", "Transmitting"}
     \/ m_mainState \in {"Authenticateing", "WaitForReconnect"} /\ m_prevMainState = "SendResult"

\* It has a result to send.
Encoding == m_mainState \in {"Receiving", "WaitForEncodingFinished"}

OwnResults == \A r \in results : r.of \in {0, r.job}

\* The daemon has an entry for the client, and that file open in it or none; a
\* result with a file is the encoding of that file.
OwnInv ==
  /\ OwnResults
  /\ Working => known /\ job \in {0, fetched}
  /\ Working /\ ~Encoding /\ m_encResult = "file" => m_dstFile = fetched
  /\ Working /\ m_mainState = "Transmitting" => m_encResult = "file"
  /\ m_mainState = "WaitForFileCheck" => m_prevMainState = "Idle"

LEMMA OwnStep ==
  ASSUME "restart" \notin events, TypeOK, OwnInv, [Next]_vars
  PROVE  OwnInv'
<1>a. m_prevMainState \in {"Idle", "SendResult"} /\ (bound => known)
  BY DEF TypeOK, StateTypeOK, ConnectionTypeOK
<1> USE DEF OwnInv, Working, Encoding, Ends, Handling, Handled, Goes
<1>1. ASSUME UNCHANGED daemonVars
      PROVE  OwnResults' /\ job' = job /\ known' = known
  BY <1>1 DEF OwnResults, daemonVars
<1>2. CASE StopHere \/ DoWait \/ ConvertNothing \/ Stop
  <2>1. UNCHANGED <<daemonVars, fileVars, encoderVars>>
    BY <1>2 DEF StopHere, DoWait, ConvertNothing, Stop
  <2>2. /\ OwnResults' /\ job' = job /\ known' = known
        /\ fetched' = fetched /\ m_dstFile' = m_dstFile /\ m_encResult' = m_encResult
    BY <1>1, <2>1 DEF fileVars, encoderVars
  <2>3. CASE StopHere \/ ConvertNothing \/ Stop
    BY <2>2, <2>3 DEF StopHere, ConvertNothing, Stop, stateVars
  <2>4. CASE DoWait
    <3>1. m_mainState' \in {m_mainState, m_prevMainState} /\ m_prevMainState' = m_prevMainState
      BY <2>4 DEF DoWait
    <3>2. m_mainState \in {"WaitForReconnect", "WaitForFileCheck"} /\ phase = "poll"
      BY <2>4 DEF DoWait
    <3> QED
      BY <1>a, <2>2, <3>1, <3>2
  <2> QED
    BY <1>2, <2>3, <2>4
<1>3. ASSUME NEW e, DoAuth(e) \/ IdleUnknown(e) \/ SendUnknown(e)
      PROVE  OwnInv'
  <2>1. CASE DoAuth(e)
    <3>1. OwnResults' /\ (known => job' = job /\ known')
      BY <1>1, <2>1 DEF DoAuth, Authenticate, OwnResults
    <3>2. fetched' = fetched /\ m_dstFile' = m_dstFile /\ m_encResult' = m_encResult
      BY <2>1 DEF DoAuth, fileVars, encoderVars
    <3> QED
      BY <1>a, <2>1, <3>1, <3>2 DEF DoAuth, AfterAuth, stateVars
  <2>2. CASE IdleUnknown(e) \/ SendUnknown(e)
    <3>1. OwnResults' /\ job' = job /\ known' = known
      BY <1>1, <2>2 DEF IdleUnknown, SendUnknown
    <3> QED
      BY <2>2, <3>1 DEF IdleUnknown, SendUnknown, AskAuth, fileVars, encoderVars
  <2> QED
    BY <1>3, <2>1, <2>2
<1>4. ASSUME NEW e, DoIdle(e)
      PROVE  OwnInv'
  <2>1. results' = results /\ known' = known
    BY <1>4 DEF DoIdle, HandOut, NoneLeft, daemonVars
  <2>2. m_mainState' = "Receiving" => bound
    BY <1>4 DEF DoIdle, Answered, Served
  <2> QED
    BY <1>4, <1>a, <2>1, <2>2 DEF DoIdle, OwnResults
<1>5. ASSUME NEW e, DoReceive(e) \/ DoConvert(e)
      PROVE  OwnInv'
  <2>1. OwnResults' /\ job' = job /\ known' = known
    BY <1>5, <1>1 DEF DoReceive, DoConvert
  <2>2. CASE DoReceive(e)
    BY <2>1, <2>2 DEF DoReceive, Launched
  <2>3. CASE DoConvert(e)
    BY <2>1, <2>3 DEF DoConvert, Encoded, Pass2
  <2> QED
    BY <1>5, <2>2, <2>3
<1>6. ASSUME Posted, NEW e, DoSendResult(e)
      PROVE  OwnResults'
  BY <1>6 DEF Posted, OwnResults
<1>7. ASSUME Stored, Writable, Working, m_mainState = "Transmitting"
      PROVE  OwnResults'
  BY <1>7 DEF Stored, Writable, OwnResults
<1>8. ASSUME NEW e, DoSendResult(e)
      PROVE  OwnInv'
  <2>1. OwnResults'
    BY <1>8, <1>1, <1>6 DEF DoSendResult
  <2>2. job' \in {0, job} /\ known' = known
    BY <1>8 DEF DoSendResult, Posted, daemonVars
  <2>3. CASE m_mainState' = "Idle"
    BY <2>1, <2>3
  <2>4. CASE UNCHANGED <<fileVars, encoderVars>>
    <3>1. /\ m_mainState = "SendResult" /\ phase = "poll"
          /\ \/ m_mainState' = "Transmitting" /\ m_encResult = "file"
             \/ m_mainState' = "Idle"
             \/ m_mainState' = "WaitForReconnect"
      BY <1>8 DEF DoSendResult
    <3>2. fetched' = fetched /\ m_dstFile' = m_dstFile /\ m_encResult' = m_encResult
      BY <2>4 DEF fileVars, encoderVars
    <3> QED
      BY <2>1, <2>2, <3>1, <3>2
  <2> QED
    BY <1>8, <2>3, <2>4 DEF DoSendResult
<1>9. ASSUME NEW e, ReceiveFails(e) \/ TransmitFails(e) \/ DoTransmit(e)
      PROVE  OwnInv'
  <2>1. OwnResults'
    BY <1>9, <1>1, <1>7 DEF ReceiveFails, TransmitFails, DoTransmit, WholeFile
  <2>2. job' \in {0, job} /\ known' = known
    BY <1>9 DEF ReceiveFails, TransmitFails, DoTransmit, Stored, daemonVars
  <2>3. CASE ReceiveFails(e) \/ TransmitFails(e)
    BY <2>1, <2>2, <2>3 DEF ReceiveFails, TransmitFails, StartAgain, stateVars, encoderVars
  <2>4. CASE DoTransmit(e)
    <3>1. CASE m_mainState' = "Idle"
      BY <2>1, <3>1
    <3>2. CASE UNCHANGED <<m_mainState, fileVars, encoderVars>>
      BY <2>1, <2>2, <2>4, <3>2 DEF DoTransmit, fileVars, encoderVars
    <3> QED
      BY <2>4, <3>1, <3>2 DEF DoTransmit
  <2> QED
    BY <1>9, <2>3, <2>4
<1>10. ASSUME NEW e, CheckShutdown(e) \/ ConnectionLost(e)
       PROVE  OwnInv'
  <2>1. results' = results /\ job' \in {0, job} /\ known' = known
    <3>1. e # "restart"
      BY <1>10 DEF CheckShutdown, ConnectionLost, Happens, NoFault
    <3> QED
      BY <1>10, <3>1 DEF CheckShutdown, ConnectionLost, daemonVars
  <2>2. OwnResults'
    BY <2>1 DEF OwnResults
  <2>3. CASE CheckShutdown(e)
    BY <2>1, <2>2, <2>3 DEF CheckShutdown, stateVars, fileVars, encoderVars
  <2>4. CASE ConnectionLost(e)
    BY <2>1, <2>2, <2>4 DEF ConnectionLost, stateVars, fileVars, encoderVars
  <2> QED
    BY <1>10, <2>3, <2>4
<1>11. CASE UNCHANGED vars
  <2>1. OwnResults' /\ job' = job /\ known' = known
    BY <1>1, <1>11 DEF vars
  <2> QED
    BY <1>11, <2>1 DEF vars, stateVars, fileVars, encoderVars
<1> QED
  BY <1>2, <1>3, <1>4, <1>5, <1>8, <1>9, <1>10, <1>11 DEF Next, Poll

\* As long as the daemon does not restart, what it takes as the encoding of a
\* file was made of that file, for any number of files, and whichever
\* connections break, calls and answers are lost, encodings and launches fail
\* and results are forgotten: authenticate() hands the client its old entry.
THEOREM ClientUploadsOwn == Spec => []UploadsOwnEncoding
<1> DEFINE Remembered == "restart" \notin events
<1>1. Init => (Remembered => OwnInv)
  BY DEF Init, OwnInv, OwnResults, Working
<1>2. TypeOK /\ (Remembered => OwnInv) /\ [Next]_vars => (Remembered => OwnInv)'
  BY OwnStep, EventsKept
<1>3. (Remembered => OwnInv) => UploadsOwnEncoding
  BY DEF OwnInv, OwnResults, UploadsOwnEncoding
<1> QED
  BY <1>1, <1>2, <1>3, ClientTypeCorrect, PTL DEF Spec
=============================================================================
