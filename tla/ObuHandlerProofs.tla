--------------------------- MODULE ObuHandlerProofs ---------------------------
(***************************************************************************)
(* Proofs about obu_handler for every set of positions, every width of the *)
(* counters and every bound of early.                                      *)
(***************************************************************************)
EXTENDS ObuHandler, TLAPS

USE DEF history

(* The service obu_handler owns, with what is proved of it.                *)
Service == INSTANCE PlatooningServiceProofs WITH roll_type <- "FV"

LEMMA IncrementType ==
  ASSUME NEW n \in 0 .. SeqMod - 1
  PROVE  Platooning!Increment(n) \in 0 .. SeqMod - 1
BY ObuAssumption DEF Platooning!Increment

(* The service's part of the type invariant, for the two calls of          *)
(* progress_worker that change the service.                                *)
LEMMA ServiceTypeInit ==
  ASSUME Platooning!Init
  PROVE  Platooning!TypeOK
<1>1. 0 \in 0 .. SeqMod - 1
  BY ObuAssumption
<1> QED  BY <1>1 DEF Platooning!Init, Platooning!TypeOK

LEMMA ServiceTypeTx ==
  ASSUME Platooning!TypeOK,
         \/ Platooning!TxUnavailable
         \/ \E code \in Platooning!TxCodes : Platooning!TxRequest(code)
  PROVE  Platooning!TypeOK'
<1>1. CASE Platooning!TxUnavailable
  BY <1>1, IncrementType
  DEF Platooning!TypeOK, Platooning!TxUnavailable, Platooning!TakeNumbers
<1>2. ASSUME NEW code \in Platooning!TxCodes, Platooning!TxRequest(code)
      PROVE  Platooning!TypeOK'
  <2>1. cnt % CntMod \in 0 .. CntMod - 1
    BY ObuAssumption DEF Platooning!TypeOK
  <2>2. Platooning!BuildFvMsg \in Platooning!Message
    BY <2>1 DEF Platooning!TypeOK, Platooning!BuildFvMsg, Platooning!Message
  <2>3. wire' \in Platooning!Message \cup {NoMsg}
    BY <1>2, <2>2 DEF Platooning!TypeOK, Platooning!TxRequest
  <2>4. skipped' \in 0 .. SeqMod - 1
    BY <1>2, IncrementType, ObuAssumption
    DEF Platooning!TypeOK, Platooning!TxRequest
  <2> QED  BY <1>2, <2>3, <2>4, IncrementType
           DEF Platooning!TypeOK, Platooning!TxRequest, Platooning!TakeNumbers
<1> QED  BY <1>1, <1>2

-----------------------------------------------------------------------------
LEMMA TypeStep ==
  ASSUME TypeOK, [Next]_vars
  PROVE  TypeOK'
<1> USE DEF TypeOK
<1>1. CASE UNCHANGED vars
  BY <1>1 DEF vars, handler, platooning, Platooning!TypeOK
<1>2. ASSUME UNCHANGED platooning
      PROVE  Platooning!TypeOK'
  BY <1>2 DEF platooning, Platooning!TypeOK
<1>3. CASE Main
  BY <1>2, <1>3 DEF Main, RunReset, RunTick, RunSet, RunReturn
<1>4. CASE Socket
  <2>1. 0 \in 0 .. EarlyCap
    BY ObuAssumption
  <2>2. CASE SockConnect
    BY <1>2, <2>1, <2>2 DEF SockConnect
  <2>3. CASE SockDisconnect
    BY <1>2, <2>3 DEF SockDisconnect
  <2>4. CASE OnDevConnection
    BY <1>2, <2>1, <2>4 DEF OnDevConnection
  <2> QED  BY <1>4, <2>2, <2>3, <2>4 DEF Socket
<1>5. CASE W_Entry \/ W_Activate \/ W_Check \/ W_TxAvailable
  BY <1>2, <1>5
  DEF W_Entry, W_Activate, W_Check, W_TxAvailable, WorkerGoes
<1>6. CASE W_RequestOk \/ W_RequestFail \/ W_TickFire \/ W_TickWait
  BY <1>2, <1>6
  DEF W_RequestOk, W_RequestFail, W_TickFire, W_TickWait, WorkerGoes
<1>7. CASE W_SetPosition
  <2>1. Platooning!TypeOK'
    BY <1>7 DEF W_SetPosition, Platooning!SetPosition, Platooning!TypeOK
  <2> QED  BY <1>7, <2>1 DEF W_SetPosition, WorkerGoes
<1>8. CASE W_TxUnavailable
  <2>1. Platooning!TypeOK'
    BY <1>8, ServiceTypeTx DEF W_TxUnavailable
  <2> QED  BY <1>8, <2>1 DEF W_TxUnavailable, WorkerGoes
<1>9. ASSUME NEW code \in Platooning!TxCodes, W_Send(code)
      PROVE  TypeOK'
  <2>1. Platooning!TypeOK'
    BY <1>9, ServiceTypeTx DEF W_Send
  <2>2. early' \in 0 .. EarlyCap
    BY <1>9, ObuAssumption DEF W_Send
  <2> QED  BY <1>9, <2>1, <2>2 DEF W_Send, WorkerGoes
<1> QED  BY <1>1, <1>3, <1>4, <1>5, <1>6, <1>7, <1>8, <1>9
         DEF Next, Worker, WorkerRuns

(* Every reachable state of obu_handler is well-typed, races included.     *)
THEOREM TypeCorrect == Spec => []TypeOK
<1>1. Init => TypeOK
  <2>1. 0 \in 0 .. EarlyCap
    BY ObuAssumption
  <2> QED  BY <2>1, ServiceTypeInit DEF Init, TypeOK
<1>2. TypeOK /\ [Next]_vars => TypeOK'
  BY TypeStep
<1> QED  BY <1>1, <1>2, PTL DEF Spec

-----------------------------------------------------------------------------
(* Why the level is set on every open connection: the socket runs only     *)
(* after run() has reset the level, and a callback tells the truth about   *)
(* the link because the link stays as it is until the callback has run.    *)
CallbackInv ==
  /\ link = "up" \/ cb # "none" => ctor \in {"setting", "done"}
  /\ cb = "up" => link = "up"
  /\ cb = "down" => link = "down"
  /\ ConnectionSeen

LEMMA CallbackStep ==
  ASSUME TypeOK, CallbackInv, [Next]_vars
  PROVE  CallbackInv'
<1> USE DEF CallbackInv, ConnectionSeen
<1>1. CASE UNCHANGED vars
  BY <1>1 DEF vars, handler
<1>2. CASE RunReset
  BY <1>2 DEF RunReset
<1>3. CASE RunTick \/ RunSet \/ RunReturn
  BY <1>3 DEF RunTick, RunSet, RunReturn
<1>4. CASE SockConnect
  BY <1>4 DEF SockConnect, SocketRuns
<1>5. CASE SockDisconnect
  BY <1>5 DEF SockDisconnect
<1>6. CASE OnDevConnection
  BY <1>6 DEF OnDevConnection, TypeOK
<1>7. CASE W_Activate
  BY <1>7 DEF W_Activate
<1>8. ASSUME UNCHANGED <<ctor, state_level, link, cb>>
      PROVE  CallbackInv'
  BY <1>8
<1>9. CASE W_Entry \/ W_RequestOk \/ W_RequestFail \/ W_Check
           \/ W_TickFire \/ W_TickWait \/ W_SetPosition
           \/ W_TxUnavailable \/ W_TxAvailable
  BY <1>8, <1>9
  DEF W_Entry, W_RequestOk, W_RequestFail, W_Check, W_TickFire, W_TickWait,
      W_SetPosition, W_TxUnavailable, W_TxAvailable
<1>10. ASSUME NEW code \in Platooning!TxCodes, W_Send(code)
       PROVE  CallbackInv'
  BY <1>8, <1>10 DEF W_Send
<1> QED  BY <1>1, <1>2, <1>3, <1>4, <1>5, <1>6, <1>7, <1>9, <1>10
         DEF Next, Main, Socket, Worker, WorkerRuns

LEMMA CallbackCorrect == Spec => []CallbackInv
<1>1. Init => CallbackInv
  BY DEF Init, CallbackInv, ConnectionSeen
<1>2. TypeOK /\ CallbackInv /\ [Next]_vars => CallbackInv'
  BY CallbackStep
<1> QED  BY <1>1, <1>2, TypeCorrect, PTL DEF Spec

(* A connection the socket thread has reported is never left at level -1,  *)
(* in any interleaving of the three threads.                               *)
THEOREM ConnectionSeenCorrect == Spec => []ConnectionSeen
<1>1. CallbackInv => ConnectionSeen
  BY DEF CallbackInv
<1> QED  BY <1>1, CallbackCorrect, PTL

-----------------------------------------------------------------------------
(* Why a worker that is already running waits for srv.tick: the level      *)
(* leaves -1 by a callback first, no callback comes before nr_sock.set is  *)
(* called, and run() sets the timer before that call.                      *)
StartInv ==
  /\ state_level # -1 => ctor \in {"setting", "done"}
  /\ WorkerWaitsForTick

LEMMA StartStep ==
  ASSUME TypeOK, CallbackInv, StartInv, [Next]_vars
  PROVE  StartInv'
<1> USE DEF StartInv, WorkerWaitsForTick
<1>1. CASE UNCHANGED vars
  BY <1>1 DEF vars, handler
<1>2. CASE Main
  BY <1>2 DEF Main, RunReset, RunTick, RunSet, RunReturn
<1>3. CASE SockConnect \/ SockDisconnect
  BY <1>3 DEF SockConnect, SockDisconnect
<1>4. CASE OnDevConnection
  BY <1>4 DEF OnDevConnection, CallbackInv
<1>5. CASE W_Entry
  BY <1>5 DEF W_Entry, WorkerGoes
<1>6. CASE W_Check
  BY <1>6 DEF W_Check, WorkerGoes
<1>7. CASE W_RequestOk \/ W_RequestFail \/ W_Activate \/ W_TickFire
           \/ W_TickWait \/ W_SetPosition \/ W_TxUnavailable \/ W_TxAvailable
  BY <1>7
  DEF W_RequestOk, W_RequestFail, W_Activate, W_TickFire, W_TickWait,
      W_SetPosition, W_TxUnavailable, W_TxAvailable, WorkerGoes
<1>8. ASSUME NEW code \in Platooning!TxCodes, W_Send(code)
      PROVE  StartInv'
  BY <1>8 DEF W_Send, WorkerGoes
<1> QED  BY <1>1, <1>2, <1>3, <1>4, <1>5, <1>6, <1>7, <1>8
         DEF Next, Socket, Worker, WorkerRuns

(* However early the worker is scheduled, it registers, reads srv.tick and *)
(* sends only after run() has set the timer and called nr_sock.set.        *)
THEOREM WorkerWaitsForTickCorrect == Spec => []WorkerWaitsForTick
<1>1. Init => StartInv
  BY DEF Init, StartInv, WorkerWaitsForTick
<1>2. TypeOK /\ CallbackInv /\ StartInv /\ [Next]_vars => StartInv'
  BY StartStep
<1>3. StartInv => WorkerWaitsForTick
  BY DEF StartInv
<1> QED  BY <1>1, <1>2, <1>3, TypeCorrect, CallbackCorrect, PTL DEF Spec

-----------------------------------------------------------------------------
(* Only the assignment state_level = 1 breaks ActiveIsRegistered.          *)
LEMMA RaceStep ==
  ASSUME TypeOK, CallbackInv, Next, ~W_Activate, ActiveIsRegistered
  PROVE  ActiveIsRegistered'
<1> USE DEF ActiveIsRegistered
<1>1. CASE Main
  BY <1>1 DEF Main, RunReset, RunTick, RunSet, RunReturn
<1>2. CASE Socket
  BY <1>2 DEF Socket, SockConnect, SockDisconnect, OnDevConnection, CallbackInv
<1>3. ASSUME UNCHANGED <<state_level, link, cb>>, registered' \in {registered, TRUE}
      PROVE  ActiveIsRegistered'
  BY <1>3 DEF TypeOK
<1>4. CASE W_Entry \/ W_RequestOk \/ W_RequestFail \/ W_Check
           \/ W_TickFire \/ W_TickWait \/ W_SetPosition
           \/ W_TxUnavailable \/ W_TxAvailable
  BY <1>3, <1>4
  DEF W_Entry, W_RequestOk, W_RequestFail, W_Check, W_TickFire, W_TickWait,
      W_SetPosition, W_TxUnavailable, W_TxAvailable
<1>5. ASSUME NEW code \in Platooning!TxCodes, W_Send(code)
      PROVE  ActiveIsRegistered'
  BY <1>3, <1>5 DEF W_Send
<1> QED  BY <1>1, <1>2, <1>4, <1>5 DEF Next, Worker, WorkerRuns

(* In every interleaving, the one statement that can raise the level over  *)
(* a connection that is not registered is the worker's assignment.         *)
THEOREM OnlyActivateRacesCorrect == Spec => OnlyActivateRaces
<1>1. TypeOK /\ CallbackInv /\ [Next]_vars
      => [ActiveIsRegistered /\ ~ActiveIsRegistered' => W_Activate]_vars
  <2> SUFFICES ASSUME TypeOK, CallbackInv, Next, ActiveIsRegistered,
                      ~W_Activate
               PROVE  ActiveIsRegistered'
    BY Zenon
  <2> QED  BY RaceStep
<1> QED  BY <1>1, TypeCorrect, CallbackCorrect, PTL DEF Spec, OnlyActivateRaces

-----------------------------------------------------------------------------
(* What holds when the link is not replaced in init's last instants. The   *)
(* second conjunct makes the first inductive: it is what NoReconnect keeps *)
(* true. The last two make AtMostOneEarlyMessage inductive: on a new       *)
(* connection the level is not 1 before the PSID is registered, callback   *)
(* or none, so the one early message leaves the worker before a test of    *)
(* state_level that it fails.                                              *)
SessionInv ==
  /\ ActiveIsRegistered
  /\ wpc = "activate" /\ link = "up" => registered
  /\ AtMostOneEarlyMessage
  /\ link = "up" /\ ~registered /\ ~stale => state_level # 1
  /\ early >= 1 /\ link = "up" /\ ~registered /\ ~stale
     => wpc \notin {"tick", "position", "tx", "send"}

LEMMA SessionStep ==
  ASSUME TypeOK, CallbackInv, SessionInv, [SteadyNext]_vars
  PROVE  SessionInv'
<1> USE DEF SessionInv, ActiveIsRegistered, AtMostOneEarlyMessage
<1>1. CASE UNCHANGED vars
  BY <1>1 DEF vars, handler
<1>2. CASE Main
  BY <1>2 DEF Main, RunReset, RunTick, RunSet, RunReturn
<1>3. CASE SockConnect /\ NoReconnect
  <2>1. wpc' # "activate" /\ cb' = "up" /\ early' = 0
    BY <1>3 DEF SockConnect, NoReconnect
  <2>2. ~stale' => state_level' # 1
    BY <1>3 DEF SockConnect
  <2> QED  BY <2>1, <2>2
<1>4. CASE SockDisconnect
  BY <1>4 DEF SockDisconnect
<1>5. CASE OnDevConnection
  BY <1>5 DEF OnDevConnection, CallbackInv, TypeOK
<1>6. CASE W_Entry
  BY <1>6 DEF W_Entry, WorkerGoes
<1>7. CASE W_RequestOk
  BY <1>7 DEF W_RequestOk, WorkerGoes
<1>8. CASE W_RequestFail
  BY <1>8 DEF W_RequestFail, WorkerGoes, TypeOK
<1>9. CASE W_Activate
  BY <1>9 DEF W_Activate, WorkerGoes
<1>10. CASE W_Check
  BY <1>10 DEF W_Check, WorkerGoes
<1>11. CASE W_TickFire \/ W_TickWait
  BY <1>11 DEF W_TickFire, W_TickWait, WorkerGoes
<1>12. CASE W_SetPosition
  BY <1>12 DEF W_SetPosition, WorkerGoes
<1>13. CASE W_TxUnavailable \/ W_TxAvailable
  BY <1>13 DEF W_TxUnavailable, W_TxAvailable, WorkerGoes
<1>14. ASSUME NEW code \in Platooning!TxCodes, W_Send(code)
       PROVE  SessionInv'
  <2>1. UNCHANGED <<state_level, link, cb, registered>>
        /\ wpc = "send" /\ wpc' = "entry"
    BY <1>14 DEF W_Send, WorkerGoes
  <2>2. early' = early \/ (early' = early + 1 /\ ~registered /\ link = "up")
    BY <1>14 DEF W_Send
  <2>3. stale' = stale
    BY <1>14 DEF W_Send
  <2>4. ~stale => early' <= 1
    BY <2>1, <2>2 DEF TypeOK
  <2> QED  BY <2>1, <2>3, <2>4
<1> QED
  <2>1. NoReconnect \/ UNCHANGED vars
    BY DEF SteadyNext
  <2> QED
    BY <2>1, <1>1, <1>2, <1>3, <1>4, <1>5, <1>6, <1>7, <1>8, <1>9, <1>10,
       <1>11, <1>12, <1>13, <1>14
    DEF SteadyNext, Next, Main, Socket, Worker, WorkerRuns

LEMMA SteadyIsSpec == SteadySpec => Spec
<1>1. [SteadyNext]_vars => [Next]_vars
  BY DEF SteadyNext
<1> QED  BY <1>1, PTL DEF SteadySpec, Spec

LEMMA SessionCorrect == SteadySpec => []SessionInv
<1>1. Init => SessionInv
  BY DEF Init, SessionInv, ActiveIsRegistered, AtMostOneEarlyMessage
<1>2. TypeOK /\ CallbackInv /\ SessionInv /\ [SteadyNext]_vars => SessionInv'
  BY SessionStep
<1> QED  BY <1>1, <1>2, SteadyIsSpec, TypeCorrect, CallbackCorrect, PTL
         DEF SteadySpec

(* "active" means registered on the present connection, if the link is not *)
(* replaced between the device's answer and the assignment.                *)
THEOREM ActiveIsRegisteredCorrect == SteadySpec => []ActiveIsRegistered
<1>1. SessionInv => ActiveIsRegistered
  BY DEF SessionInv
<1> QED  BY <1>1, SessionCorrect, PTL

(* At most one message precedes the registration on a new connection, at   *)
(* whatever moment its callback runs; of one that came up with the level   *)
(* at 1, at most one follows the callback.                                 *)
THEOREM EarlyMessageCorrect == SteadySpec => []AtMostOneEarlyMessage
<1>1. SessionInv => AtMostOneEarlyMessage
  BY DEF SessionInv
<1> QED  BY <1>1, SessionCorrect, PTL

-----------------------------------------------------------------------------
(* Each step of obu_handler is a step of DeviceSession or none.            *)
LEMMA SessionSimulation ==
  ASSUME TypeOK, CallbackInv, SessionInv, [SteadyNext]_vars
  PROVE  [Session!Next]_<<SessionPhase, registered>>
<1> USE DEF SessionPhase, Session!Next
<1> DEFINE Stutter == UNCHANGED <<SessionPhase, registered>>
<1>1. CASE UNCHANGED <<state_level, link, cb, registered>>
  BY <1>1
<1>2. CASE UNCHANGED vars
  BY <1>1, <1>2 DEF vars, handler
<1>3. CASE RunReset
  <2>1. link = "down"
    BY <1>3 DEF RunReset, CallbackInv, TypeOK
  <2> QED  BY <1>3, <2>1 DEF RunReset
<1>4. CASE RunTick \/ RunSet \/ RunReturn
  BY <1>1, <1>4 DEF RunTick, RunSet, RunReturn
<1>5. CASE SockConnect
  BY <1>5 DEF SockConnect
<1>6. CASE SockDisconnect
  BY <1>6 DEF SockDisconnect, Session!Lose
<1>7. CASE OnDevConnection /\ cb = "up"
  BY <1>7 DEF OnDevConnection, CallbackInv, Session!Open
<1>8. CASE OnDevConnection /\ cb = "down"
  BY <1>8 DEF OnDevConnection, CallbackInv
<1>9. ASSUME UNCHANGED <<state_level, link, cb>>,
             registered' \in {registered, TRUE}
      PROVE  Session!Serve \/ Stutter
  BY <1>9 DEF Session!Serve
<1>10. CASE W_RequestOk
  BY <1>9, <1>10 DEF W_RequestOk
<1>11. CASE W_RequestFail
  BY <1>9, <1>11 DEF W_RequestFail, TypeOK
<1>12. CASE W_Activate
  BY <1>12 DEF W_Activate, WorkerGoes, SessionInv, Session!Activate, TypeOK
<1>13. CASE W_Entry \/ W_Check \/ W_TickFire \/ W_TickWait \/ W_SetPosition
            \/ W_TxUnavailable \/ W_TxAvailable
  BY <1>1, <1>13
  DEF W_Entry, W_Check, W_TickFire, W_TickWait, W_SetPosition,
      W_TxUnavailable, W_TxAvailable
<1>14. ASSUME NEW code \in Platooning!TxCodes, W_Send(code)
       PROVE  Stutter
  BY <1>14 DEF W_Send
<1> QED
  <2>1. OnDevConnection => cb = "up" \/ cb = "down"
    BY DEF OnDevConnection, TypeOK
  <2> QED
    BY <2>1, <1>2, <1>3, <1>4, <1>5, <1>6, <1>7, <1>8, <1>10, <1>11, <1>12,
       <1>13, <1>14
    DEF SteadyNext, Next, Main, Socket, Worker, WorkerRuns

(* obu_handler implements DeviceSession.                                   *)
THEOREM Refinement == SteadySpec => SessionSpec
<1>1. Init => Session!Init
  BY DEF Init, Session!Init, SessionPhase
<1>2. TypeOK /\ CallbackInv /\ SessionInv /\ [SteadyNext]_vars
      => [Session!Next]_<<SessionPhase, registered>>
  BY SessionSimulation
<1> QED
  BY <1>1, <1>2, SteadyIsSpec, TypeCorrect, CallbackCorrect, SessionCorrect, PTL
  DEF SteadySpec, SessionSpec, Session!Spec

-----------------------------------------------------------------------------
(* Whatever the other threads do, the worker drives the service by whole   *)
(* calls of set_position and tx_base_message.                              *)
LEMMA ServiceStep ==
  ASSUME [Next]_vars
  PROVE  [Service!Next]_(Service!svars)
<1> USE DEF Service!Next, Service!TxBaseMessage, Service!svars
<1>1. ASSUME UNCHANGED platooning
      PROVE  UNCHANGED Service!svars
  BY <1>1 DEF platooning
<1>2. CASE W_SetPosition
  BY <1>2 DEF W_SetPosition, Platooning!SetPosition, Service!SetPosition
<1>3. CASE W_TxUnavailable
  <2>1. Service!TxUnavailable
    BY <1>3
    DEF W_TxUnavailable, Platooning!TxUnavailable, Platooning!TakeNumbers,
        Platooning!Increment, Service!TxUnavailable, Service!TakeNumbers,
        Service!Increment
  <2>2. 0 \in Service!TxCodes
    BY DEF Service!TxCodes
  <2> QED  BY <2>1, <2>2
<1>4. ASSUME NEW code \in Platooning!TxCodes, W_Send(code)
      PROVE  Service!Next
  <2>1. Service!TxRequest(code)
    BY <1>4
    DEF W_Send, Platooning!TxRequest, Platooning!TakeNumbers,
        Platooning!Increment, Platooning!BuildFvMsg, Service!TxRequest,
        Service!TakeNumbers, Service!Increment, Service!BuildFvMsg
  <2>2. code \in Service!TxCodes
    BY DEF Platooning!TxCodes, Service!TxCodes
  <2> QED  BY <2>1, <2>2
<1> QED
  BY <1>1, <1>2, <1>3, <1>4
  DEF Next, Main, RunReset, RunTick, RunSet, RunReturn, Socket, SockConnect, SockDisconnect,
      OnDevConnection, Worker, WorkerRuns, W_Entry, W_Activate, W_Check,
      W_TxAvailable, W_RequestOk, W_RequestFail, W_TickFire, W_TickWait, vars

(* The three threads implement platooning_service, ...                     *)
THEOREM ServiceRefinement == Spec => Service!Spec
<1>1. Init => Service!Init
  BY DEF Init, Platooning!Init, Service!Init
<1>2. [Next]_vars => [Service!Next]_(Service!svars)
  BY ServiceStep
<1> QED  BY <1>1, <1>2, PTL DEF Spec, Service!Spec

(* ... so that over every loss of the link and every race for state_level  *)
(* the gaps in unSeqNum and unContCnt count the messages that were built   *)
(* and did not get on the air.                                             *)
THEOREM GapsCorrect ==
  Spec => Service!SeqGapCountsFailures /\ Service!ContGapCountsFailures
<1>1. Service!ServiceAssumption
  BY ObuAssumption DEF Service!ServiceAssumption, Service!Message
<1>2. Service!Spec => Service!SeqGapCountsFailures
  BY <1>1, Service!SeqGapCorrect
<1>3. Service!Spec => Service!ContGapCountsFailures
  BY <1>1, Service!ContGapCorrect
<1> QED  BY <1>2, <1>3, ServiceRefinement, PTL

=============================================================================
