------------------------------ MODULE ObuHandler ------------------------------
(***************************************************************************)
(* Class obu_handler (obu_handler.cpp): three threads around state_level,  *)
(* a plain int that is written by each of them and guarded by nothing.     *)
(*                                                                         *)
(*   main thread    the constructor, from worker.start on: run() sets      *)
(*                  state_level, then srv.tick, and then calls nr_sock.set *)
(*                  to start the device socket;                            *)
(*   socket thread  of the V2X library: opens and loses the connection to  *)
(*                  the OBU and reports each change to on_dev_connection,  *)
(*                  one callback at a time;                                *)
(*   worker thread  calls progress_worker for ever. Each point of it where *)
(*                  another thread's step can matter is a value of wpc.    *)
(*                                                                         *)
(* The library and the OBU are external: link is what available() answers, *)
(* registered is the device's side of request_wsm_service. The socket      *)
(* thread exists from the call of nr_sock.set on: it may report a          *)
(* connection before set has returned, never before set is called.         *)
(***************************************************************************)
EXTENDS Integers

CONSTANTS Positions, SeqMod, CntMod, NoMsg,  \* see PlatooningService
          EarlyCap    \* early is counted no further than this

ASSUME ObuAssumption ==
  /\ Positions # {}
  /\ SeqMod \in Nat \ {0}
  /\ CntMod \in Nat \ {0}
  /\ NoMsg \notin [seq : 0 .. SeqMod - 1, cont : 0 .. CntMod - 1, pos : Positions]
  /\ EarlyCap \in Nat /\ EarlyCap >= 2

VARIABLES ctor,         \* how far the constructor is in run()
          state_level,  \* -1 not set, 0 ready, 1 active
          link,         \* the library's connection to the OBU
          cb,           \* the on_dev_connection call that is due
          registered,   \* the OBU serves our PSID on this connection
          wpc,          \* where the worker is in progress_worker
          early,        \* history: messages sent on this connection
                        \* before the PSID was registered on it, ...
          stale,        \* ... counted anew at its callback when it came
                        \* up with the level at 1: stale is TRUE till then
          position, seq, cnt, wire, skipped, result  \* of PlatooningService

history == <<early, stale>>
handler == <<ctor, state_level, link, cb, registered, wpc, history>>
platooning == <<position, seq, cnt, wire, skipped, result>>
vars == <<handler, platooning>>

(* The member platooning, default-constructed: roll type FV.               *)
Platooning == INSTANCE PlatooningService WITH roll_type <- "FV"

Init ==
  /\ ctor = "starting"
  /\ state_level = -1
  /\ link = "down"
  /\ cb = "none"
  /\ registered = FALSE
  /\ wpc = "entry"
  /\ early = 0
  /\ stale = FALSE
  /\ Platooning!Init

-----------------------------------------------------------------------------
(* Main thread. worker.start has been called; run() is four steps.         *)

RunReset ==
  /\ ctor = "starting"
  /\ ctor' = "reset"
  /\ state_level' = -1
  /\ UNCHANGED <<link, cb, registered, wpc, history, platooning>>

(* srv.tick.set(srv.tx_interval)                                           *)
RunTick ==
  /\ ctor = "reset"
  /\ ctor' = "timed"
  /\ UNCHANGED <<state_level, link, cb, registered, wpc, history, platooning>>

(* nr_sock.set is called ...                                               *)
RunSet ==
  /\ ctor = "timed"
  /\ ctor' = "setting"
  /\ UNCHANGED <<state_level, link, cb, registered, wpc, history, platooning>>

(* ... and returns, with the socket thread at work for who knows how long. *)
RunReturn ==
  /\ ctor = "setting"
  /\ ctor' = "done"
  /\ UNCHANGED <<state_level, link, cb, registered, wpc, history, platooning>>

-----------------------------------------------------------------------------
(* Socket thread.                                                          *)

(* Mutant of SocketRuns: the socket is started before all else in run().   *)
SocketRunsEarly == ctor \in {"starting", "reset", "timed", "setting", "done"}

(* The library's thread is there as soon as nr_sock.set has been called.   *)
SocketRuns == ctor \in {"setting", "done"}

SockConnect ==
  /\ SocketRuns
  /\ link = "down" /\ cb = "none"
  /\ link' = "up" /\ cb' = "up"
  /\ early' = 0 /\ stale' = (state_level = 1)
  /\ UNCHANGED <<ctor, state_level, registered, wpc, platooning>>

SockDisconnect ==
  /\ link = "up" /\ cb = "none"
  /\ link' = "down" /\ cb' = "down"
  /\ registered' = FALSE
  /\ UNCHANGED <<ctor, state_level, wpc, history, platooning>>

(* Mutant of OnDevConnection: the level is kept over a reconnection.       *)
OnDevConnectionKeepsLevel ==
  /\ cb # "none"
  /\ cb' = "none"
  /\ state_level' = IF cb = "up" /\ state_level = -1 THEN 0 ELSE state_level
  /\ early' = (IF stale THEN 0 ELSE early) /\ stale' = FALSE
  /\ UNCHANGED <<ctor, link, registered, wpc, platooning>>

OnDevConnection ==
  /\ cb # "none"
  /\ cb' = "none"
  /\ state_level' = IF cb = "up" THEN 0 ELSE -1
  /\ early' = (IF stale THEN 0 ELSE early) /\ stale' = FALSE
  /\ UNCHANGED <<ctor, link, registered, wpc, platooning>>

-----------------------------------------------------------------------------
(* Worker thread: progress_worker, one statement per step.                 *)

WorkerGoes(from, to) == wpc = from /\ wpc' = to

(* if (state_level == 0)                                                   *)
W_Entry ==
  /\ WorkerGoes("entry", IF state_level = 0 THEN "request" ELSE "check")
  /\ UNCHANGED <<ctor, state_level, link, cb, registered, history, platooning>>

(* init(): request_wsm_service returned a number that is not negative.     *)
W_RequestOk ==
  /\ link = "up"
  /\ WorkerGoes("request", "activate")
  /\ registered' = TRUE
  /\ UNCHANGED <<ctor, state_level, link, cb, history, platooning>>

(* Mutant of W_RequestFail: the loop in init gives up after one failure.   *)
W_RequestFailGivesUp ==
  /\ WorkerGoes("request", "activate")
  /\ registered' \in (IF link = "up" THEN {registered, TRUE} ELSE {registered})
  /\ UNCHANGED <<ctor, state_level, link, cb, history, platooning>>

(* init(): it failed, and is tried again in a second. The device may have  *)
(* done its part and the answer been lost.                                 *)
W_RequestFail ==
  /\ WorkerGoes("request", "request")
  /\ registered' \in (IF link = "up" THEN {registered, TRUE} ELSE {registered})
  /\ UNCHANGED <<ctor, state_level, link, cb, history, platooning>>

(* Mutant of W_Activate: init is called and the level never raised.        *)
W_ActivateForgets ==
  /\ WorkerGoes("activate", "check")
  /\ UNCHANGED <<ctor, state_level, link, cb, registered, history, platooning>>

(* state_level = 1, whatever the socket thread has written meanwhile.      *)
W_Activate ==
  /\ WorkerGoes("activate", "check")
  /\ state_level' = 1
  /\ UNCHANGED <<ctor, link, cb, registered, history, platooning>>

(* if (state_level == 1) ... else sleep_for(100)                           *)
W_Check ==
  /\ WorkerGoes("check", IF state_level = 1 THEN "tick" ELSE "entry")
  /\ UNCHANGED <<ctor, state_level, link, cb, registered, history, platooning>>

(* if (srv.tick.timeout())                                                 *)
W_TickFire ==
  /\ WorkerGoes("tick", "position")
  /\ UNCHANGED <<ctor, state_level, link, cb, registered, history, platooning>>

W_TickWait ==
  /\ WorkerGoes("tick", "entry")
  /\ UNCHANGED <<ctor, state_level, link, cb, registered, history, platooning>>

(* set_position(data.fix, data.link): whatever the d2x thread has left in  *)
(* data at this moment.                                                    *)
W_SetPosition ==
  /\ WorkerGoes("position", "tx")
  /\ \E p \in Positions : Platooning!SetPosition(p)
  /\ UNCHANGED <<ctor, state_level, link, cb, registered, history>>

(* tx_base_message as far as its test of sock->available().                *)
W_TxUnavailable ==
  /\ link = "down"
  /\ WorkerGoes("tx", "entry")
  /\ Platooning!TxUnavailable
  /\ UNCHANGED <<ctor, state_level, link, cb, registered, history>>

W_TxAvailable ==
  /\ link = "up"
  /\ WorkerGoes("tx", "send")
  /\ UNCHANGED <<ctor, state_level, link, cb, registered, history, platooning>>

(* ... and its request_tx_extensible_msg, by when the link may be another. *)
W_Send(code) ==
  /\ WorkerGoes("send", "entry")
  /\ code > 0 => link = "up"
  /\ Platooning!TxRequest(code)
  /\ early' = IF code > 0 /\ ~registered /\ early < EarlyCap
              THEN early + 1 ELSE early
  /\ UNCHANGED <<ctor, state_level, link, cb, registered, stale>>

-----------------------------------------------------------------------------
Main == RunReset \/ RunTick \/ RunSet \/ RunReturn

Socket == SockConnect \/ SockDisconnect \/ OnDevConnection

WorkerRuns ==
  \/ W_Entry \/ W_Activate \/ W_Check \/ W_SetPosition
  \/ W_TxUnavailable \/ W_TxAvailable
  \/ \E code \in Platooning!TxCodes : W_Send(code)

Worker ==
  \/ WorkerRuns
  \/ W_RequestOk \/ W_RequestFail
  \/ W_TickFire \/ W_TickWait

Next == Main \/ Socket \/ Worker

Spec == Init /\ [][Next]_vars

(* Threads are scheduled and callbacks delivered (WF); a device that stays *)
(* connected confirms a service request in the end, and a tick timer that  *)
(* is polled again and again expires (SF). Nothing makes links come up.    *)
Fairness ==
  /\ WF_vars(Main)
  /\ WF_vars(OnDevConnection)
  /\ WF_vars(WorkerRuns)
  /\ WF_vars(W_RequestFail \/ W_RequestOk) /\ SF_vars(W_RequestOk)
  /\ WF_vars(W_TickFire \/ W_TickWait) /\ SF_vars(W_TickFire)

(* The link is not replaced in the instants between the device's answer to *)
(* request_wsm_service and the assignment state_level = 1.                 *)
NoReconnect == wpc = "activate" => ~(link = "down" /\ link' = "up")

SteadyNext == Next /\ NoReconnect

SteadySpec == Init /\ [][SteadyNext]_vars

FairSteadySpec == SteadySpec /\ Fairness

-----------------------------------------------------------------------------
(* Type invariant of the handler and of the service it owns.               *)
TypeOK ==
  /\ ctor \in {"starting", "reset", "timed", "setting", "done"}
  /\ state_level \in {-1, 0, 1}
  /\ link \in {"up", "down"}
  /\ cb \in {"none", "up", "down"}
  /\ registered \in BOOLEAN
  /\ wpc \in {"entry", "request", "activate", "check",
              "tick", "position", "tx", "send"}
  /\ early \in 0 .. EarlyCap
  /\ stale \in BOOLEAN
  /\ Platooning!TypeOK

(* Once the socket thread has told the handler of a connection, the level  *)
(* is not -1, in which nothing would ever register or transmit again: run  *)
(* resets the level before, and not after, it starts the socket.           *)
ConnectionSeen == link = "up" /\ cb = "none" => state_level \in {0, 1}

(* The worker is started before run() has set srv.tick: it reads the timer *)
(* (obu_handler.cpp:245), and registers and sends, only when run() has set *)
(* the timer and called nr_sock.set. The call need not have returned.      *)
WorkerWaitsForTick ==
  wpc \notin {"entry", "check"} => ctor \in {"setting", "done"}

(* "1 active" (obu_handler.h:46): the level is 1 only on a connection for  *)
(* which init has registered the PSID. on_dev_connection sets it back to 0 *)
(* for this purpose.                                                       *)
ActiveIsRegistered ==
  link = "up" /\ cb = "none" /\ state_level = 1 => registered

(* The assignment state_level = 1 is the only step of any thread that can  *)
(* break this.                                                             *)
OnlyActivateRaces ==
  [][ ActiveIsRegistered /\ ~ActiveIsRegistered' => W_Activate ]_vars

(* A worker that was past its test of state_level when the link changed    *)
(* may put one message on the new connection before the PSID is registered *)
(* there, never a second one, however late on_dev_connection is called.    *)
(* Only if the connection came up with the level still at 1 (assigned over *)
(* a lost link, after the callback of the loss) does the worker send and   *)
(* send until on_dev_connection has set the level back; the count starts   *)
(* there.                                                                  *)
AtMostOneEarlyMessage == ~stale => early <= 1

(* The state of a connection, from the moment the handler has been told.   *)
SessionPhase ==
  IF link = "down" \/ cb # "none" THEN "offline"
  ELSE IF state_level = 1 THEN "active" ELSE "ready"

Session == INSTANCE DeviceSession WITH phase <- SessionPhase,
                                       served <- registered

(* obu_handler implements DeviceSession: whatever the threads do, a        *)
(* connection becomes active from ready, once it is served, and leaves     *)
(* active only by being lost.                                              *)
SessionSpec == Session!Spec

(* A link that stays up is registered and active in the end, ...           *)
LinkBecomesActive ==
  <>[](link = "up") => <>[](registered /\ state_level = 1)

(* ... and messages are requested on it again and again: the worker is not *)
(* left in init's retry loop or asleep, whatever happened before.          *)
KeepsSending ==
  <>[](link = "up") => []<>(wpc = "send")

=============================================================================
