---------------------------- MODULE ServerReports ----------------------------
(***************************************************************************)
(* One report on its way through server_handler: a report of receiver      *)
(* followed.rcv about device followed.dev, whichever two these are and     *)
(* whichever of their reports it is. place is where the report is:         *)
(*                                                                         *)
(*   out     not in the server's hands: not made yet, or refused by the    *)
(*           database at its flush, or in the log table;                   *)
(*   cache   in rx_status of the device's entry;                           *)
(*   queue   in a query of the queue, with ahead others before it;         *)
(*   lost    none of these.                                                *)
(*                                                                         *)
(* The three variables record: no step of ServerHandler depends on them,   *)
(* and none is excluded by them.                                           *)
(***************************************************************************)
EXTENDS ServerHandler

VARIABLES followed, place, ahead

reportVars == <<vars, followed, place, ahead>>

InCache == followed.rcv \in cache[followed.dev].rx

InLog == /\ logged[followed.dev] # NoRow
         /\ followed.rcv \in logged[followed.dev].rx

(* The query last pushed is a log row that carries the report.             *)
InLastQuery ==
  /\ queue # <<>>
  /\ LET q == queue[Len(queue)]
     IN  q.table = "log" /\ q.dev = followed.dev /\ followed.rcv \in q.data.rx

(* A report that is in the cache is followed from any moment on, or never. *)
Made ==
  /\ place = "out" /\ InCache'
  /\ place' \in {"out", "cache"} /\ ahead' = 0

(* The flush clears what the cache has of the device, when the database    *)
(* refuses queries ...                                                     *)
Refused ==
  /\ place = "cache" /\ ~InCache' /\ ~Accepts
  /\ place' = "out" /\ ahead' = 0

(* ... and when it takes them: the report is in the last query or nowhere. *)
Pushed ==
  /\ place = "cache" /\ ~InCache' /\ Accepts
  /\ IF queue' # queue /\ InLastQuery'
       THEN place' = "queue" /\ ahead' = Len(queue') - 1
       ELSE place' = "lost" /\ ahead' = 0

(* The query at the head of the queue is run: one before it, or its own.   *)
HeadRun == Len(queue') < Len(queue)

Advanced ==
  /\ place = "queue" /\ ahead > 0 /\ HeadRun
  /\ place' = "queue" /\ ahead' = ahead - 1

Logged ==
  /\ place = "queue" /\ ahead = 0 /\ HeadRun
  /\ place' = (IF InLog' THEN "out" ELSE "lost") /\ ahead' = 0

Stays ==
  /\ place = "out" => ~InCache'
  /\ place = "cache" => InCache'
  /\ place = "queue" => ~HeadRun
  /\ UNCHANGED <<place, ahead>>

Follow ==
  /\ UNCHANGED followed
  /\ Made \/ Refused \/ Pushed \/ Advanced \/ Logged \/ Stays

ReportInit ==
  /\ Init
  /\ followed \in [dev : Devices, rcv : Receivers]
  /\ place = "out" /\ ahead = 0

ReportSpec ==
  ReportInit /\ [][Next /\ Follow]_reportVars /\ Fairness

-----------------------------------------------------------------------------
(* Every report that was cached gets out: into the log table, unless the   *)
(* flush that takes it finds no connection or no room in the queue. Other  *)
(* reports keep arriving, of this receiver and device too, the flush       *)
(* clears the cache and the database comes and goes all the while; it has  *)
(* only to be connected again and again.                                   *)
ReportsReachLog ==
  []<>connected => (place \in {"cache", "queue"} ~> place = "out")

=============================================================================
