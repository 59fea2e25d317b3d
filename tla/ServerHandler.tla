---------------------------- MODULE ServerHandler ----------------------------
(***************************************************************************)
(* Class server_handler (server.cpp): vehicles' receivers report, over     *)
(* TCP, each platooning message they hear and how well they heard it.      *)
(*                                                                         *)
(*   socket thread   on_rx_lv_msg / on_rx_fv_msg, under lock: keep the     *)
(*                   newest message of each source device and the list of  *)
(*                   receivers that heard it;                              *)
(*   flush thread    progress_thread, under lock: for each device with     *)
(*                   news one query for the status table (update_db) and   *)
(*                   one for the log table (insert_db), then sleep, the    *)
(*                   lock still held;                                      *)
(*   database        pq_handler, external: a connection that comes and     *)
(*                   goes, and one thread that runs the queries in order.  *)
(*                                                                         *)
(* A message's payload is identified by its kind and its timestamp; the    *)
(* columns of a row by the payload they are taken from. Two numbers of     *)
(* update_db and insert_db that are never compared are left out: the       *)
(* time of the row and the quality figures of a receiver.                  *)
(***************************************************************************)
EXTENDS Integers, Sequences, FiniteSets

CONSTANTS Devices,    \* ids of source devices, the keys of the ordered cache
          Receivers,  \* ids of the receivers that report
          Kinds,      \* the payload_ids in use: "LV", "FV"
          MaxTick,    \* message timestamps are 0 .. MaxTick
          Stale,      \* 1000 ms in the code
          StartTime,  \* the server's clock at start: far beyond Stale
          MaxTime,    \* bound of the clock
          QueueCap,   \* MAX_QUERY_QUE_SIZE of pq_handler: 1000
          NoRow,      \* a device without a row in a table
          NullRow     \* a row of which only timestamp and dev_id are set

(* The type member of a cache entry; operator[] makes it zero.             *)
Types == Kinds \cup {"none"}

(* The data of a row: dev_type, the payload's columns, rx_dev_list.        *)
Data == [type : Types, body : 0 .. MaxTick, rx : SUBSET Receivers]

ASSUME ServerAssumption ==
  /\ Devices \subseteq Nat /\ IsFiniteSet(Devices)
  /\ Kinds \subseteq {"LV", "FV"}
  /\ MaxTick \in Nat
  /\ Stale \in Nat
  /\ StartTime \in Nat /\ StartTime > Stale
  /\ MaxTime \in Nat /\ MaxTime >= StartTime
  /\ QueueCap \in Nat
  /\ NoRow # NullRow
  /\ NoRow \notin Data /\ NullRow \notin Data

Ticks == 0 .. MaxTick
Times == StartTime .. MaxTime

(* rx_data_tmp_t. body is the timestamp of the payload in each of the      *)
(* members lv and fv.                                                      *)
Entry == [tick : Ticks, timestamp : Times \cup {0}, type : Types,
          body : [Kinds -> Ticks], rx : SUBSET Receivers, update : BOOLEAN]

(* What operator[] makes of a key it has not seen. Such a device and one   *)
(* that is not in the map are alike: neither has anything to flush.        *)
NewEntry == [tick |-> 0, timestamp |-> 0, type |-> "none",
             body |-> [k \in Kinds |-> 0], rx |-> {}, update |-> FALSE]

Query == [table : {"status", "log"}, dev : Devices, data : Data]

VARIABLES cache,      \* the entry of each device
          now,        \* get_epoch_time_msec()
          lock,       \* who holds server_handler::lock
          fpc,        \* where progress_thread is
          todo,       \* devices its iterator has not passed
          connected,  \* pq.connected()
          queue,      \* queries pushed and not yet run
          status,     \* table platooning_status, one row per device
          logged,     \* the last row of each device in platooning_status_log
          heard,      \* history: when each timestamp of a device was last heard
          rows,       \* history: rows of each device in the log, up to 2
          split       \* history: devices of which a flush wrote one table only

rxvars == <<cache, heard>>
dbvars == <<queue, status, logged, rows>>
vars == <<cache, now, lock, fpc, todo, connected, queue, status, logged,
          heard, rows, split>>

Init ==
  /\ cache = [d \in Devices |-> NewEntry]
  /\ now = StartTime
  /\ lock = "free"
  /\ fpc = "idle"
  /\ todo = {}
  /\ connected = FALSE
  /\ queue = <<>>
  /\ status = [d \in Devices |-> NoRow]
  /\ logged = [d \in Devices |-> NoRow]
  /\ heard = [d \in Devices |-> [t \in Ticks |-> 0]]
  /\ rows = [d \in Devices |-> 0]
  /\ split = {}

-----------------------------------------------------------------------------
(* The clock, and the connection to the database.                          *)

PassTime ==
  /\ now < MaxTime
  /\ now' = now + 1
  /\ UNCHANGED <<rxvars, lock, fpc, todo, connected, dbvars, split>>

PqConnection ==
  /\ connected' = ~connected
  /\ UNCHANGED <<rxvars, now, lock, fpc, todo, dbvars, split>>

-----------------------------------------------------------------------------
(* Socket thread.                                                          *)

(* Mutant of Newer: whatever differs is taken for newer.                   *)
NewerDiffers(e, t) == e.tick # t \/ e.timestamp + Stale < now

(* The test that lets message t replace the payload of entry e.            *)
Newer(e, t) == e.tick < t \/ e.timestamp + Stale < now

(* Mutant of Accept: the type of the first message stays.                  *)
AcceptKeepsType(e, k, t) ==
  [e EXCEPT !.body[k] = t, !.type = IF @ = "none" THEN k ELSE @,
            !.tick = t, !.timestamp = now]

(* Mutant of Accept: the time the entry goes stale is kept in place of the *)
(* time it was accepted.                                                   *)
AcceptKeepsExpiry(e, k, t) ==
  [e EXCEPT !.body[k] = t, !.type = k, !.tick = t, !.timestamp = now + Stale]

Accept(e, k, t) ==
  [e EXCEPT !.body[k] = t, !.type = k, !.tick = t, !.timestamp = now]

(* The receiver's own part, whether the payload was replaced or not.       *)
Report(e, r) == [e EXCEPT !.rx = @ \cup {r}, !.update = TRUE]

(* on_rx_lv_msg (k = "LV") and on_rx_fv_msg: one body, under lock.         *)
OnRxMsg(d, r, k, t) ==
  /\ lock = "free"
  /\ LET e == cache[d]
     IN  cache' = [cache EXCEPT ![d] =
                     Report(IF Newer(e, t) THEN Accept(e, k, t) ELSE e, r)]
  /\ heard' = [heard EXCEPT ![d][t] = now]
  /\ UNCHANGED <<now, lock, fpc, todo, connected, dbvars, split>>

-----------------------------------------------------------------------------
(* Flush thread: progress_thread.                                          *)

FlushLock ==
  /\ fpc = "idle" /\ lock = "free"
  /\ lock' = "flusher"
  /\ fpc' = "visit"
  /\ todo' = Devices
  /\ UNCHANGED <<rxvars, now, connected, dbvars, split>>

(* The device the iterator stands on.                                      *)
AtDevice(d) == d \in todo /\ \A e \in todo : d <= e

FlushSkip(d) ==
  /\ fpc = "visit" /\ AtDevice(d)
  /\ ~cache[d].update
  /\ todo' = todo \ {d}
  /\ UNCHANGED <<rxvars, now, lock, fpc, connected, dbvars, split>>

(* The row update_db and insert_db make of an entry: the payload is taken  *)
(* from the member its type names.                                         *)
RowData(e) ==
  [type |-> e.type,
   body |-> IF e.type = "none" THEN 0 ELSE e.body[e.type],
   rx   |-> e.rx]

(* Both functions return false at once when the database is not connected. *)
(* push_query is external; a queue that is full takes nothing more.        *)
Accepts == connected /\ Len(queue) < QueueCap

Push(table, d) ==
  queue' = IF Accepts
           THEN Append(queue, [table |-> table, dev |-> d,
                               data |-> RowData(cache[d])])
           ELSE queue

(* Mutant of FlushUpdate: the lock is given up between the two queries.    *)
FlushUpdateUnlocks(d) ==
  /\ fpc = "visit" /\ AtDevice(d)
  /\ cache[d].update
  /\ Push("status", d)
  /\ fpc' = IF Accepts THEN "pushed" ELSE "dropped"
  /\ lock' = "free"
  /\ UNCHANGED <<rxvars, now, todo, connected, status, logged, rows, split>>

(* update_db(it->first, it->second), its result ignored.                   *)
FlushUpdate(d) ==
  /\ fpc = "visit" /\ AtDevice(d)
  /\ cache[d].update
  /\ Push("status", d)
  /\ fpc' = IF Accepts THEN "pushed" ELSE "dropped"
  /\ UNCHANGED <<rxvars, now, lock, todo, connected, status, logged, rows, split>>

(* Mutant of FlushInsert: the entry is cleared before insert_db reads it.  *)
FlushInsertClearsFirst(d) ==
  /\ fpc \in {"pushed", "dropped"} /\ AtDevice(d)
  /\ queue' = IF Accepts
              THEN Append(queue, [table |-> "log", dev |-> d, data |->
                                  RowData([cache[d] EXCEPT !.rx = {}])])
              ELSE queue
  /\ cache' = [cache EXCEPT ![d].rx = {}, ![d].update = FALSE]
  /\ todo' = todo \ {d}
  /\ fpc' = "visit"
  /\ split' = IF Accepts = (fpc = "pushed") THEN split ELSE split \cup {d}
  /\ UNCHANGED <<now, lock, connected, status, logged, heard, rows>>

(* insert_db(it->first, it->second), its result ignored, and the entry     *)
(* cleared whether or not anything was pushed.                             *)
FlushInsert(d) ==
  /\ fpc \in {"pushed", "dropped"} /\ AtDevice(d)
  /\ Push("log", d)
  /\ cache' = [cache EXCEPT ![d].rx = {}, ![d].update = FALSE]
  /\ todo' = todo \ {d}
  /\ fpc' = "visit"
  /\ split' = IF Accepts = (fpc = "pushed") THEN split ELSE split \cup {d}
  /\ UNCHANGED <<now, lock, connected, status, logged, heard, rows>>

(* sleep_for(db_upate_tick.left()): the lock is held all through it.       *)
FlushSleep ==
  /\ fpc = "visit" /\ todo = {}
  /\ fpc' = "sleep"
  /\ UNCHANGED <<rxvars, now, lock, todo, connected, dbvars, split>>

FlushUnlock ==
  /\ fpc = "sleep"
  /\ fpc' = "idle"
  /\ lock' = "free"
  /\ UNCHANGED <<rxvars, now, todo, connected, dbvars, split>>

-----------------------------------------------------------------------------
(* Database thread: it runs the query at the head of the queue.            *)

(* update_db's INSERT ... ON CONFLICT DO UPDATE: the row that does not yet *)
(* exist is inserted with its timestamp and dev_id only.                   *)
Upsert(old, data) == IF old = NoRow THEN NullRow ELSE data

PqRunStatus ==
  /\ connected /\ queue # <<>> /\ Head(queue).table = "status"
  /\ LET q == Head(queue)
     IN  status' = [status EXCEPT ![q.dev] = Upsert(@, q.data)]
  /\ queue' = Tail(queue)
  /\ UNCHANGED <<rxvars, now, lock, fpc, todo, connected, logged, rows, split>>

PqRunLog ==
  /\ connected /\ queue # <<>> /\ Head(queue).table = "log"
  /\ LET q == Head(queue)
     IN  /\ logged' = [logged EXCEPT ![q.dev] = q.data]
         /\ rows' = [rows EXCEPT ![q.dev] = IF @ < 2 THEN @ + 1 ELSE @]
  /\ queue' = Tail(queue)
  /\ UNCHANGED <<rxvars, now, lock, fpc, todo, connected, status, split>>

-----------------------------------------------------------------------------
Environment ==
  \/ PassTime \/ PqConnection
  \/ \E d \in Devices, r \in Receivers, k \in Kinds, t \in Ticks :
       OnRxMsg(d, r, k, t)

Flush ==
  \/ FlushLock \/ FlushSleep \/ FlushUnlock
  \/ \E d \in Devices : FlushSkip(d) \/ FlushUpdate(d) \/ FlushInsert(d)

PqRun == PqRunStatus \/ PqRunLog

Next == Environment \/ Flush \/ PqRun

Spec == Init /\ [][Next]_vars

(* The flush thread gets the lock and the processor, and a connected       *)
(* database runs its queue; nothing makes receivers report or the database *)
(* be connected.                                                           *)
Fairness == WF_vars(Flush) /\ SF_vars(FlushLock) /\ SF_vars(PqRun)

FairSpec == Spec /\ Fairness

-----------------------------------------------------------------------------
(* Type invariant: the cache, the flush and the two tables.                *)
TypeOK ==
  /\ cache \in [Devices -> Entry]
  /\ now \in Times
  /\ lock \in {"free", "flusher"}
  /\ fpc \in {"idle", "visit", "pushed", "dropped", "sleep"}
  /\ todo \subseteq Devices
  /\ connected \in BOOLEAN
  /\ queue \in Seq(Query)
  /\ status \in [Devices -> Data \cup {NoRow, NullRow}]
  /\ logged \in [Devices -> Data \cup {NoRow}]
  /\ heard \in [Devices -> [Ticks -> Times \cup {0}]]
  /\ rows \in [Devices -> 0 .. 2]
  /\ split \subseteq Devices

(* Receivers report the same vehicle late and out of order; still no       *)
(* message heard since the cached one was accepted is newer than it.       *)
NewestSinceAccepted ==
  \A d \in Devices : \A t \in Ticks :
    heard[d][t] # 0 /\ heard[d][t] >= cache[d].timestamp => t <= cache[d].tick

(* The row is made from the member type names, and that is the payload     *)
(* accepted last: never an LV payload of long ago under a newer FV's type. *)
RowIsNewest ==
  \A d \in Devices :
    cache[d].update => /\ cache[d].type # "none"
                       /\ RowData(cache[d]).body = cache[d].tick
                       /\ cache[d].rx # {}

(* Once the queue has run dry between two flushes, the status row of a     *)
(* device shows what its newest log row shows, unless one flush wrote only *)
(* one of the tables. With a single log row the status row exists without  *)
(* data: the upsert sets data only on conflict.                            *)
StatusShowsLog ==
  fpc = "idle" /\ queue = <<>> =>
    \A d \in Devices \ split :
      \/ rows[d] = 0 /\ status[d] = NoRow
      \/ rows[d] = 1 /\ status[d] = NullRow
      \/ rows[d] = 2 /\ status[d] = logged[d]

(* A receiver's report is thrown away only by a flush that finds the       *)
(* database disconnected or its queue full: otherwise it leaves the cache  *)
(* for the log queue, with the payload it was cached with.                 *)
LostOnlyRefused ==
  [][ \A d \in Devices :
        cache[d].rx # {} /\ cache'[d].rx = {} /\ Accepts
        => /\ queue' # <<>>
           /\ queue'[Len(queue')] = [table |-> "log", dev |-> d,
                                     data |-> RowData(cache[d])] ]_vars

=============================================================================
