------------------------- MODULE ServerHandlerProofs -------------------------
(***************************************************************************)
(* Proofs about server_handler for every set of devices, receivers and     *)
(* timestamps, every staleness limit and every clock.                      *)
(***************************************************************************)
EXTENDS ServerHandler, TLAPS

(* Entry, from its fields.                                                 *)
LEMMA EntryFields ==
  ASSUME NEW e \in Entry
  PROVE  /\ e = [tick |-> e.tick, timestamp |-> e.timestamp, type |-> e.type,
                 body |-> e.body, rx |-> e.rx, update |-> e.update]
         /\ e.tick \in Ticks /\ e.timestamp \in Times \cup {0}
         /\ e.type \in Types /\ e.body \in [Kinds -> Ticks]
         /\ e.rx \subseteq Receivers /\ e.update \in BOOLEAN
BY DEF Entry

LEMMA AcceptType ==
  ASSUME NEW e \in Entry, NEW k \in Kinds, NEW t \in Ticks, now \in Times
  PROVE  Accept(e, k, t) \in Entry
BY EntryFields DEF Accept, Entry, Types

LEMMA ReportType ==
  ASSUME NEW e \in Entry, NEW r \in Receivers
  PROVE  Report(e, r) \in Entry
BY EntryFields DEF Report, Entry

(* The rows a flush pushes are rows.                                       *)
LEMMA RowType ==
  ASSUME NEW e \in Entry
  PROVE  RowData(e) \in Data
<1>1. e.type # "none" => e.type \in Kinds
  BY EntryFields DEF Types
<1>2. (IF e.type = "none" THEN 0 ELSE e.body[e.type]) \in 0 .. MaxTick
  BY <1>1, EntryFields, ServerAssumption DEF Ticks
<1> QED  BY <1>2, EntryFields DEF RowData, Data

LEMMA PushType ==
  ASSUME TypeOK, NEW table \in {"status", "log"}, NEW d \in Devices,
         Push(table, d)
  PROVE  queue' \in Seq(Query)
<1>1. RowData(cache[d]) \in Data
  BY RowType DEF TypeOK
<1>2. [table |-> table, dev |-> d, data |-> RowData(cache[d])] \in Query
  BY <1>1 DEF Query
<1> QED  BY <1>2 DEF TypeOK, Push

LEMMA ClearType ==
  ASSUME NEW e \in Entry
  PROVE  [e EXCEPT !.rx = {}, !.update = FALSE] \in Entry
BY EntryFields DEF Entry

(* What the two halves of a report leave of the fields of an entry.        *)
LEMMA AcceptFields ==
  ASSUME NEW e \in Entry, NEW k \in Kinds, NEW t \in Ticks, now \in Times,
         NEW f, f = Accept(e, k, t)
  PROVE  /\ f.tick = t /\ f.timestamp = now /\ f.type = k
         /\ f.body[k] = t /\ f.rx = e.rx /\ f.update = e.update
BY EntryFields DEF Accept

Reported(f, e, r) ==
  /\ f.tick = e.tick /\ f.timestamp = e.timestamp
  /\ f.type = e.type /\ f.body = e.body
  /\ f.rx = e.rx \cup {r} /\ f.update = TRUE

LEMMA ReportFields ==
  ASSUME NEW e \in Entry, NEW r \in Receivers
  PROVE  Reported(Report(e, r), e, r)
BY EntryFields DEF Report, Reported

-----------------------------------------------------------------------------
(* What a report leaves in the cache.                                      *)
LEMMA ReportStep ==
  ASSUME TypeOK, NEW d \in Devices, NEW r \in Receivers, NEW k \in Kinds,
         NEW t \in Ticks, OnRxMsg(d, r, k, t)
  PROVE  /\ cache' \in [Devices -> Entry]
         /\ heard' \in [Devices -> [Ticks -> Times \cup {0}]]
         /\ \A f \in Devices \ {d} : cache'[f] = cache[f] /\ heard'[f] = heard[f]
         /\ \A u \in Ticks \ {t} : heard'[d][u] = heard[d][u]
         /\ heard'[d][t] = now
         /\ Newer(cache[d], t)  => cache'[d] = Report(Accept(cache[d], k, t), r)
         /\ ~Newer(cache[d], t) => cache'[d] = Report(cache[d], r)
<1> DEFINE E == Report(IF Newer(cache[d], t) THEN Accept(cache[d], k, t)
                                             ELSE cache[d], r)
<1>1. cache[d] \in Entry /\ now \in Times
  BY DEF TypeOK
<1>2. E \in Entry
  BY <1>1, AcceptType, ReportType
<1>3. cache' = [cache EXCEPT ![d] = E]
  BY DEF OnRxMsg
<1>4. heard' = [heard EXCEPT ![d][t] = now]
  BY DEF OnRxMsg
<1> HIDE DEF E
<1>5. cache' \in [Devices -> Entry] /\ cache'[d] = E
      /\ \A f \in Devices \ {d} : cache'[f] = cache[f]
  BY <1>2, <1>3 DEF TypeOK
<1>6. /\ heard' \in [Devices -> [Ticks -> Times \cup {0}]]
      /\ \A f \in Devices \ {d} : heard'[f] = heard[f]
      /\ \A u \in Ticks \ {t} : heard'[d][u] = heard[d][u]
      /\ heard'[d][t] = now
  BY <1>1, <1>4 DEF TypeOK
<1> QED  BY <1>5, <1>6 DEF E

LEMMA TypeStep ==
  ASSUME TypeOK, [Next]_vars
  PROVE  TypeOK'
<1>1. CASE UNCHANGED vars
  BY <1>1 DEF vars, TypeOK
<1>2. CASE PassTime
  <2>1. now' \in Times
    BY <1>2, ServerAssumption DEF PassTime, TypeOK, Times
  <2> QED  BY <1>2, <2>1 DEF PassTime, TypeOK, rxvars, dbvars
<1>3. CASE PqConnection
  BY <1>3 DEF PqConnection, TypeOK, rxvars, dbvars
<1>4. ASSUME NEW d \in Devices, NEW r \in Receivers, NEW k \in Kinds,
             NEW t \in Ticks, OnRxMsg(d, r, k, t)
      PROVE  TypeOK'
  <2>1. cache' \in [Devices -> Entry]
        /\ heard' \in [Devices -> [Ticks -> Times \cup {0}]]
    BY <1>4, ReportStep
  <2> QED  BY <1>4, <2>1 DEF OnRxMsg, TypeOK, dbvars
<1>5. CASE FlushLock \/ FlushSleep \/ FlushUnlock
  BY <1>5 DEF FlushLock, FlushSleep, FlushUnlock, TypeOK, rxvars, dbvars
<1>6. ASSUME NEW d \in Devices, FlushSkip(d)
      PROVE  TypeOK'
  BY <1>6 DEF FlushSkip, TypeOK, rxvars, dbvars
<1>7. ASSUME NEW d \in Devices, FlushUpdate(d)
      PROVE  TypeOK'
  <2>1. queue' \in Seq(Query)
    BY <1>7, PushType DEF FlushUpdate
  <2> QED  BY <1>7, <2>1 DEF FlushUpdate, TypeOK, rxvars
<1>8. ASSUME NEW d \in Devices, FlushInsert(d)
      PROVE  TypeOK'
  <2>1. queue' \in Seq(Query)
    BY <1>8, PushType DEF FlushInsert
  <2>2. cache' = [cache EXCEPT ![d] = [cache[d] EXCEPT !.rx = {}, !.update = FALSE]]
    BY <1>8 DEF FlushInsert, TypeOK
  <2>3. cache' \in [Devices -> Entry]
    BY <2>2, ClearType DEF TypeOK
  <2> QED  BY <1>8, <2>1, <2>3 DEF FlushInsert, TypeOK
<1>9. ASSUME queue # <<>>
      PROVE  Head(queue) \in Query /\ Tail(queue) \in Seq(Query)
  BY <1>9 DEF TypeOK
<1>10. CASE PqRunStatus
  <2>1. Upsert(status[Head(queue).dev], Head(queue).data)
        \in Data \cup {NoRow, NullRow}
    BY <1>9, <1>10 DEF PqRunStatus, Upsert, Query
  <2> QED  BY <1>9, <1>10, <2>1 DEF PqRunStatus, TypeOK, rxvars, Query
<1>11. CASE PqRunLog
  <2>1. rows' \in [Devices -> 0 .. 2]
    BY <1>9, <1>11 DEF PqRunLog, TypeOK, Query
  <2>2. logged' \in [Devices -> Data \cup {NoRow}]
    BY <1>9, <1>11 DEF PqRunLog, TypeOK, Query
  <2> QED  BY <1>9, <1>11, <2>1, <2>2 DEF PqRunLog, TypeOK, rxvars
<1> QED  BY <1>1, <1>2, <1>3, <1>4, <1>5, <1>6, <1>7, <1>8, <1>10, <1>11
         DEF Next, Environment, Flush, PqRun

(* Every reachable state of the server is well-typed.                      *)
THEOREM TypeCorrect == Spec => []TypeOK
<1>1. Init => TypeOK
  <2>1. NewEntry \in Entry
    BY ServerAssumption DEF NewEntry, Entry, Types, Ticks
  <2>2. now = StartTime => now \in Times
    BY ServerAssumption DEF Times
  <2>3. Init => cache \in [Devices -> Entry] /\ rows \in [Devices -> 0 .. 2]
    BY <2>1 DEF Init
  <2>4. Init => heard \in [Devices -> [Ticks -> Times \cup {0}]]
    BY DEF Init
  <2>5. <<>> \in Seq(Query)
    OBVIOUS
  <2>6. Init => /\ status \in [Devices -> Data \cup {NoRow, NullRow}]
                /\ logged \in [Devices -> Data \cup {NoRow}]
    BY DEF Init
  <2> QED  BY <2>2, <2>3, <2>4, <2>5, <2>6 DEF Init, TypeOK
<1>2. TypeOK /\ [Next]_vars => TypeOK'
  BY TypeStep
<1> QED  BY <1>1, <1>2, PTL DEF Spec

-----------------------------------------------------------------------------
(* Why the cached message stays the newest: a report is either the moment  *)
(* an entry is renewed or comes within Stale of it. So when an entry is    *)
(* stale nothing can have been heard at this very moment, and giving the   *)
(* entry up loses no message that is newer.                                *)
HeardInv ==
  /\ NewestSinceAccepted
  /\ \A d \in Devices : cache[d].timestamp <= now
  /\ \A d \in Devices : \A t \in Ticks :
       heard[d][t] <= now /\ heard[d][t] <= cache[d].timestamp + Stale

LEMMA HeardUnchanged ==
  ASSUME TypeOK, HeardInv, heard' = heard, now' \in Times, now <= now',
         \A d \in Devices : /\ cache'[d].tick = cache[d].tick
                            /\ cache'[d].timestamp = cache[d].timestamp
  PROVE  HeardInv'
<1>1. now \in Int /\ now' \in Int
  BY ServerAssumption DEF TypeOK, Times
<1>2. ASSUME NEW d \in Devices, NEW t \in Ticks
      PROVE  heard[d][t] <= now'
  <2>1. heard[d][t] \in Int
    BY ServerAssumption DEF TypeOK, Times
  <2> QED  BY <1>1, <2>1 DEF HeardInv
<1>3. ASSUME NEW d \in Devices
      PROVE  cache[d].timestamp <= now'
  <2>1. cache[d].timestamp \in Int
    BY ServerAssumption, EntryFields DEF TypeOK, Times
  <2> QED  BY <1>1, <2>1 DEF HeardInv
<1> QED  BY <1>2, <1>3 DEF HeardInv, NewestSinceAccepted

LEMMA HeardReport ==
  ASSUME TypeOK, HeardInv, NEW d \in Devices, NEW r \in Receivers,
         NEW k \in Kinds, NEW t \in Ticks, OnRxMsg(d, r, k, t)
  PROVE  HeardInv'
<1> DEFINE e == cache[d]
           f == cache'[d]
<1>1. now' = now
  BY DEF OnRxMsg
<1>2. /\ e.tick \in Int /\ e.timestamp \in Int
      /\ t \in Int /\ now \in Int /\ Stale \in Int /\ Stale >= 0
  BY ServerAssumption, EntryFields DEF TypeOK, Ticks, Times
<1>3. Newer(e, t) => f.tick = t /\ f.timestamp = now
  <2> SUFFICES ASSUME Newer(e, t) PROVE f.tick = t /\ f.timestamp = now
    OBVIOUS
  <2>1. PICK g : g = Accept(e, k, t)
    OBVIOUS
  <2>2. g \in Entry /\ g.tick = t /\ g.timestamp = now
    BY <2>1, AcceptType, AcceptFields DEF TypeOK
  <2>3. f = Report(g, r)
    BY <2>1, ReportStep
  <2>4. Reported(f, g, r)
    BY <2>2, <2>3, ReportFields, Zenon
  <2> QED  BY <2>2, <2>4, Zenon DEF Reported
<1>4. ~Newer(e, t) => f.tick = e.tick /\ f.timestamp = e.timestamp
  <2> SUFFICES ASSUME ~Newer(e, t)
               PROVE  f.tick = e.tick /\ f.timestamp = e.timestamp
    OBVIOUS
  <2>1. PICK g : g = cache[d]
    OBVIOUS
  <2>2. g \in Entry /\ f = Report(g, r)
    BY <2>1, ReportStep DEF TypeOK
  <2>3. Reported(f, g, r)
    BY <2>2, ReportFields, Zenon
  <2> QED  BY <2>1, <2>3, Zenon DEF Reported
<1>5. ASSUME NEW u \in Ticks
      PROVE  /\ heard'[d][u] # 0 /\ heard'[d][u] >= f.timestamp => u <= f.tick
             /\ heard'[d][u] <= now
             /\ heard'[d][u] <= f.timestamp + Stale
  <2>1. (heard'[d][u] = now /\ u = t) \/ heard'[d][u] = heard[d][u]
    BY ReportStep
  <2>2. /\ heard[d][u] \in Int /\ u \in Int
        /\ heard[d][u] <= now /\ heard[d][u] <= e.timestamp + Stale
        /\ heard[d][u] # 0 /\ heard[d][u] >= e.timestamp => u <= e.tick
    BY ServerAssumption DEF TypeOK, Ticks, Times, HeardInv, NewestSinceAccepted
  <2>3. e.timestamp <= now
    BY DEF HeardInv
  <2> HIDE DEF e, f
  <2>4. CASE Newer(e, t)
    <3>1. f.tick = t /\ f.timestamp = now
      BY <1>3, <2>4
    <3>2. CASE heard'[d][u] = now /\ u = t
      BY <1>2, <3>1, <3>2
    <3>3. CASE heard'[d][u] = heard[d][u] /\ e.tick < t
      BY <1>2, <2>2, <2>3, <3>1, <3>3
    <3>4. CASE heard'[d][u] = heard[d][u] /\ e.timestamp + Stale < now
      BY <1>2, <2>2, <3>1, <3>4
    <3> QED  BY <2>1, <2>4, <3>2, <3>3, <3>4 DEF Newer
  <2>5. CASE ~Newer(e, t)
    <3>1. ~(e.tick < t) /\ ~(e.timestamp + Stale < now)
      BY <2>5 DEF Newer
    <3> QED  BY <1>2, <1>4, <2>1, <2>2, <2>5, <3>1
  <2> QED  BY <2>4, <2>5
<1>6. f.timestamp <= now
  <2>1. e.timestamp <= now
    BY DEF HeardInv
  <2> HIDE DEF e, f
  <2> QED  BY <1>2, <1>3, <1>4, <2>1
<1>7. ASSUME NEW g \in Devices \ {d}
      PROVE  cache'[g] = cache[g] /\ heard'[g] = heard[g]
  BY ReportStep
<1>8. NewestSinceAccepted'
  BY <1>5, <1>7 DEF HeardInv, NewestSinceAccepted
<1>9. \A g \in Devices : cache'[g].timestamp <= now
  BY <1>6, <1>7 DEF HeardInv
<1>10. \A g \in Devices : \A u \in Ticks :
         heard'[g][u] <= now /\ heard'[g][u] <= cache'[g].timestamp + Stale
  BY <1>5, <1>7 DEF HeardInv
<1> QED  BY <1>1, <1>8, <1>9, <1>10 DEF HeardInv

LEMMA HeardStep ==
  ASSUME TypeOK, HeardInv, [Next]_vars
  PROVE  HeardInv'
<1>1. now' \in Times
  BY TypeStep DEF TypeOK
<1>2. now \in Int
  BY ServerAssumption DEF TypeOK, Times
<1>3. ASSUME heard' = heard, cache' = cache, now <= now'
      PROVE  HeardInv'
  BY <1>1, <1>3, HeardUnchanged
<1>4. CASE PassTime
  BY <1>2, <1>3, <1>4 DEF PassTime, rxvars
<1>5. ASSUME NEW d \in Devices, NEW r \in Receivers, NEW k \in Kinds,
             NEW t \in Ticks, OnRxMsg(d, r, k, t)
      PROVE  HeardInv'
  BY <1>5, HeardReport
<1>6. ASSUME NEW d \in Devices, FlushInsert(d)
      PROVE  HeardInv'
  <2>1. \A g \in Devices : /\ cache'[g].tick = cache[g].tick
                           /\ cache'[g].timestamp = cache[g].timestamp
    BY <1>6, EntryFields DEF FlushInsert, TypeOK
  <2>2. heard' = heard /\ now' = now
    BY <1>6 DEF FlushInsert
  <2> QED  BY <1>1, <1>2, <2>1, <2>2, HeardUnchanged
<1>7. CASE PqConnection \/ FlushLock \/ FlushSleep \/ FlushUnlock \/ PqRun
           \/ (\E d \in Devices : FlushSkip(d) \/ FlushUpdate(d))
           \/ UNCHANGED vars
  <2>1. heard' = heard /\ cache' = cache /\ now' = now
    BY <1>7 DEF PqConnection, FlushLock, FlushSleep, FlushUnlock, PqRun,
                PqRunStatus, PqRunLog, FlushSkip, FlushUpdate, rxvars, vars
  <2> QED  BY <1>2, <1>3, <2>1
<1> QED  BY <1>4, <1>5, <1>6, <1>7 DEF Next, Environment, Flush

(* No message that a receiver reported since the cached one was accepted   *)
(* is newer than it, for every staleness limit and every order of reports. *)
THEOREM NewestCorrect == Spec => []NewestSinceAccepted
<1>1. Init => HeardInv
  <2> SUFFICES ASSUME Init PROVE HeardInv
    OBVIOUS
  <2>1. \A d \in Devices : cache[d].tick = 0 /\ cache[d].timestamp = 0
    BY DEF Init, NewEntry
  <2>2. \A d \in Devices : \A t \in Ticks : heard[d][t] = 0
    BY DEF Init
  <2>3. now >= 0 /\ 0 <= 0 + Stale
    BY ServerAssumption DEF Init
  <2>4. NewestSinceAccepted
    BY <2>2 DEF NewestSinceAccepted
  <2> QED  BY <2>1, <2>2, <2>3, <2>4 DEF HeardInv
<1>2. TypeOK /\ HeardInv /\ [Next]_vars => HeardInv'
  BY HeardStep
<1>3. HeardInv => NewestSinceAccepted
  BY DEF HeardInv
<1> QED  BY <1>1, <1>2, <1>3, TypeCorrect, PTL DEF Spec

-----------------------------------------------------------------------------
(* The payload a row is made from. An entry has a type from its first      *)
(* report on, which is always accepted: an entry just made is stale.       *)
PayloadOK(e) ==
  /\ e.type = "none" => e.timestamp = 0
  /\ e.type # "none" => e.body[e.type] = e.tick
  /\ e.update => e.type # "none" /\ e.rx # {}

PayloadInv == \A d \in Devices : PayloadOK(cache[d])

LEMMA PayloadReport ==
  ASSUME TypeOK, PayloadInv, NEW d \in Devices, NEW r \in Receivers,
         NEW k \in Kinds, NEW t \in Ticks, OnRxMsg(d, r, k, t)
  PROVE  PayloadOK(cache'[d])
<1> DEFINE e == cache[d]
<1>1. e \in Entry /\ now \in Times /\ k # "none" /\ PayloadOK(e)
  BY ServerAssumption DEF TypeOK, PayloadInv
<1>2. CASE Newer(e, t)
  <2>1. PICK g : g = Accept(e, k, t)
    OBVIOUS
  <2>2. /\ g \in Entry /\ g.type = k /\ g.body[k] = t /\ g.tick = t
    BY <1>1, <2>1, AcceptType, AcceptFields
  <2>3. PICK f : f = cache'[d]
    OBVIOUS
  <2>4. f = Report(g, r)
    BY <1>2, <2>1, <2>3, ReportStep
  <2>5. /\ f.type = k /\ f.body[f.type] = f.tick /\ r \in f.rx
    BY <2>2, <2>4, ReportFields DEF Reported
  <2> QED  BY <1>1, <2>3, <2>5 DEF PayloadOK
<1>3. CASE ~Newer(e, t)
  <2>1. PICK f, g : f = cache'[d] /\ g = e
    OBVIOUS
  <2>2. f = Report(g, r) /\ g \in Entry /\ PayloadOK(g)
    BY <1>1, <1>3, <2>1, ReportStep
  <2>3. g.timestamp # 0
    BY <1>1, <1>3, <2>1, ServerAssumption DEF Newer, Times
  <2>4. /\ f.type = g.type /\ f.body = g.body /\ f.tick = g.tick
        /\ r \in f.rx
    BY <2>2, ReportFields DEF Reported
  <2> QED  BY <2>1, <2>2, <2>3, <2>4 DEF PayloadOK
<1> QED  BY <1>2, <1>3

LEMMA PayloadStep ==
  ASSUME TypeOK, PayloadInv, [Next]_vars
  PROVE  PayloadInv'
<1>1. ASSUME NEW d \in Devices, NEW r \in Receivers, NEW k \in Kinds,
             NEW t \in Ticks, OnRxMsg(d, r, k, t)
      PROVE  PayloadInv'
  <2>1. PayloadOK(cache'[d])
    BY <1>1, PayloadReport
  <2>2. \A g \in Devices \ {d} : cache'[g] = cache[g]
    BY <1>1, ReportStep
  <2> QED  BY <2>1, <2>2 DEF PayloadInv
<1>2. ASSUME NEW d \in Devices, FlushInsert(d)
      PROVE  PayloadInv'
  <2> DEFINE f == cache'[d]
  <2>1. /\ f.type = cache[d].type /\ f.body = cache[d].body
        /\ f.tick = cache[d].tick /\ f.timestamp = cache[d].timestamp
        /\ f.update = FALSE
    BY <1>2, EntryFields DEF FlushInsert, TypeOK
  <2>2. PayloadOK(f)
    BY <2>1 DEF PayloadInv, PayloadOK
  <2>3. \A g \in Devices \ {d} : cache'[g] = cache[g]
    BY <1>2 DEF FlushInsert, TypeOK
  <2> QED  BY <2>2, <2>3 DEF PayloadInv
<1>3. ASSUME cache' = cache
      PROVE  PayloadInv'
  BY <1>3 DEF PayloadInv
<1>4. CASE PassTime \/ PqConnection \/ FlushLock \/ FlushSleep \/ FlushUnlock
           \/ PqRun \/ (\E d \in Devices : FlushSkip(d) \/ FlushUpdate(d))
           \/ UNCHANGED vars
  BY <1>3, <1>4 DEF PassTime, PqConnection, FlushLock, FlushSleep, FlushUnlock,
                    PqRun, PqRunStatus, PqRunLog, FlushSkip, FlushUpdate,
                    rxvars, vars
<1> QED  BY <1>1, <1>2, <1>4 DEF Next, Environment, Flush

(* A flush never writes the payload of one kind under the type of another, *)
(* nor a row that nobody reported.                                         *)
THEOREM RowIsNewestCorrect == Spec => []RowIsNewest
<1>1. Init => PayloadInv
  BY DEF Init, NewEntry, PayloadInv, PayloadOK
<1>2. TypeOK /\ PayloadInv /\ [Next]_vars => PayloadInv'
  BY PayloadStep
<1>3. PayloadInv => RowIsNewest
  BY DEF PayloadInv, PayloadOK, RowIsNewest, RowData
<1> QED  BY <1>1, <1>2, <1>3, TypeCorrect, PTL DEF Spec

-----------------------------------------------------------------------------
(* A report never leaves the list of receivers empty.                      *)
LEMMA ReportKeepsReceivers ==
  ASSUME TypeOK, NEW d \in Devices, NEW r \in Receivers, NEW k \in Kinds,
         NEW t \in Ticks, OnRxMsg(d, r, k, t)
  PROVE  cache'[d].rx # {}
<1>1. PICK e, f : /\ f = cache'[d]
                  /\ e = IF Newer(cache[d], t) THEN Accept(cache[d], k, t)
                                               ELSE cache[d]
  OBVIOUS
<1>2. e \in Entry
  BY <1>1, AcceptType DEF TypeOK
<1>3. f = Report(e, r)
  BY <1>1, ReportStep
<1>4. r \in f.rx
  BY <1>2, <1>3, ReportFields DEF Reported
<1> QED  BY <1>1, <1>4

(* A step that empties the receivers of an entry is the second half of a   *)
(* flush of that very device; a report only adds receivers.                *)
LEMMA EmptiedByInsert ==
  ASSUME TypeOK, Next, NEW d \in Devices, cache[d].rx # {}, cache'[d].rx = {}
  PROVE  FlushInsert(d)
<1>1. ASSUME cache' = cache
      PROVE  FALSE
  BY <1>1
<1>2. ASSUME NEW g \in Devices, NEW r \in Receivers, NEW k \in Kinds,
             NEW t \in Ticks, OnRxMsg(g, r, k, t)
      PROVE  FALSE
  <2>1. g = d
    BY <1>2, ReportStep
  <2>2. cache'[g].rx # {}
    BY <1>2, ReportKeepsReceivers
  <2> QED  BY <2>1, <2>2
<1>3. ASSUME NEW g \in Devices, FlushInsert(g)
      PROVE  FlushInsert(d)
  <2>1. g = d
    BY <1>3 DEF FlushInsert, TypeOK
  <2> QED  BY <1>3, <2>1
<1>4. CASE PassTime \/ PqConnection \/ FlushLock \/ FlushSleep \/ FlushUnlock
           \/ PqRun \/ (\E g \in Devices : FlushSkip(g) \/ FlushUpdate(g))
  BY <1>1, <1>4 DEF PassTime, PqConnection, FlushLock, FlushSleep, FlushUnlock,
                    PqRun, PqRunStatus, PqRunLog, FlushSkip, FlushUpdate, rxvars
<1> QED  BY <1>2, <1>3, <1>4 DEF Next, Environment, Flush

(* What a flush takes from the cache while the queue accepts is the last   *)
(* query pushed to it, with the receivers and the payload the cache had.   *)
THEOREM LostOnlyRefusedCorrect == Spec => LostOnlyRefused
<1> DEFINE Row(d) == [table |-> "log", dev |-> d, data |-> RowData(cache[d])]
<1>1. ASSUME TypeOK, Next
      PROVE  \A d \in Devices :
               cache[d].rx # {} /\ cache'[d].rx = {} /\ Accepts
               => queue' # <<>> /\ queue'[Len(queue')] = Row(d)
  <2> SUFFICES ASSUME NEW d \in Devices, Accepts,
                      cache[d].rx # {}, cache'[d].rx = {}
               PROVE  queue' # <<>> /\ queue'[Len(queue')] = Row(d)
    OBVIOUS
  <2>1. FlushInsert(d)
    BY <1>1, EmptiedByInsert
  <2>2. queue' = Append(queue, Row(d)) /\ queue \in Seq(Query)
    BY <1>1, <2>1 DEF FlushInsert, Push, TypeOK
  <2>3. Len(queue') = Len(queue) + 1 /\ queue'[Len(queue) + 1] = Row(d)
        /\ Len(queue) \in Nat
    <3> HIDE DEF Row
    <3> QED  BY <2>2
  <2> QED  BY <2>2, <2>3
<1>2. TypeOK /\ [Next]_vars
      => [ \A d \in Devices :
             cache[d].rx # {} /\ cache'[d].rx = {} /\ Accepts
             => /\ queue' # <<>>
                /\ queue'[Len(queue')] = [table |-> "log", dev |-> d,
                                          data |-> RowData(cache[d])] ]_vars
  BY <1>1
<1> QED  BY <1>2, TypeCorrect, PTL DEF Spec, LostOnlyRefused

-----------------------------------------------------------------------------
(***************************************************************************)
(* The two tables server_handler writes agree, for every set of devices,   *)
(* every queue limit and every coming and going of the database.           *)
(*                                                                         *)
(* A flush pushes the status query and the log query of a device one after *)
(* the other under the lock. As long as both were taken or both refused,   *)
(* the two stand next to each other in the queue with the same data, or    *)
(* the flush stands between the two; and the device's rows are then at     *)
(* most half a pair apart: one status row ahead of the log.                *)
(***************************************************************************)

Is(i, table, d) == queue[i].table = table /\ queue[i].dev = d

(* The flush has pushed the status query of d and not yet the log query.   *)
Pending(d) == fpc = "pushed" /\ AtDevice(d)

(* The rows of d between two pairs of queries.                             *)
Settled(d) ==
  \/ rows[d] = 0 /\ status[d] = NoRow
  \/ rows[d] = 1 /\ status[d] = NullRow
  \/ rows[d] = 2 /\ status[d] = logged[d] /\ logged[d] # NoRow

(* The rows of d inside a pair of queries with data x.                     *)
Caught(d, x) ==
  \/ rows[d] = 0 /\ status[d] = NullRow
  \/ rows[d] # 0 /\ status[d] = x

LogComesNext(d) ==
  \A i \in 1 .. Len(queue) :
    Is(i, "status", d) =>
      \/ i < Len(queue) /\ Is(i + 1, "log", d) /\ queue[i + 1].data = queue[i].data
      \/ i = Len(queue) /\ Pending(d) /\ queue[i].data = RowData(cache[d])

StatusCameFirst(d) ==
  \A i \in 2 .. Len(queue) : Is(i, "log", d) => Is(i - 1, "status", d)

PendingIsLast(d) ==
  Pending(d) /\ Len(queue) > 0 => Is(Len(queue), "status", d)

TablesAgree(d) ==
  \/ Len(queue) > 0 /\ Is(1, "log", d) /\ Caught(d, queue[1].data)
  \/ Len(queue) = 0 /\ Pending(d) /\ Caught(d, RowData(cache[d]))
  \/ ~(Len(queue) > 0 /\ Is(1, "log", d)) /\ ~(Len(queue) = 0 /\ Pending(d))
     /\ Settled(d)

Paired(d) == /\ LogComesNext(d)
             /\ StatusCameFirst(d)
             /\ PendingIsLast(d)
             /\ TablesAgree(d)

TablesInv == /\ fpc # "idle" => lock = "flusher"
             /\ \A d \in Devices \ split : Paired(d)

-----------------------------------------------------------------------------
(* The iterator stands on one device.                                      *)
LEMMA OneAtATime ==
  ASSUME NEW d \in Devices, NEW g \in Devices, AtDevice(d), AtDevice(g)
  PROVE  d = g
<1>1. d <= g /\ g <= d /\ d \in Nat /\ g \in Nat
  BY ServerAssumption DEF AtDevice
<1> QED  BY <1>1

(* A step that touches neither the queue nor a table.                      *)
LEMMA QuietStep ==
  ASSUME NEW d \in Devices, Paired(d),
         queue' = queue, status' = status, logged' = logged, rows' = rows,
         (Pending(d)' <=> Pending(d)),
         Pending(d) => RowData(cache[d])' = RowData(cache[d])
  PROVE  Paired(d)'
<1>1. LogComesNext(d)'
  BY DEF Paired, LogComesNext, Is
<1>2. StatusCameFirst(d)' /\ PendingIsLast(d)'
  BY DEF Paired, StatusCameFirst, PendingIsLast, Is
<1>3. TablesAgree(d)'
  BY DEF Paired, TablesAgree, Settled, Caught, Is
<1> QED  BY <1>1, <1>2, <1>3 DEF Paired

(* What appending to the queue and running its head make of it.            *)
LEMMA Pushed ==
  ASSUME TypeOK, NEW q \in Query, queue' = Append(queue, q)
  PROVE  /\ Len(queue) \in Nat /\ Len(queue') = Len(queue) + 1
         /\ \A i \in 1 .. Len(queue) : queue'[i] = queue[i]
         /\ queue'[Len(queue) + 1] = q
BY DEF TypeOK

LEMMA HeadRun ==
  ASSUME TypeOK, queue # <<>>, queue' = Tail(queue)
  PROVE  /\ Len(queue) \in Nat /\ Len(queue) > 0
         /\ Len(queue') = Len(queue) - 1
         /\ Len(queue') = 0 => Len(queue) = 1
         /\ \A i \in 1 .. Len(queue) - 1 : queue'[i] = queue[i + 1]
         /\ Head(queue) = queue[1] /\ queue[1] \in Query
BY DEF TypeOK

(* A query of another device is pushed, or the first of a pair, while the  *)
(* flush was not inside a pair of d.                                       *)
LEMMA PushOutside ==
  ASSUME TypeOK, NEW d \in Devices, Paired(d), ~Pending(d),
         NEW q \in Query, queue' = Append(queue, q),
         q.dev = d => q.table = "status" /\ Pending(d)'
                      /\ q.data = RowData(cache[d])',
         q.dev # d => ~Pending(d)',
         status' = status, logged' = logged, rows' = rows
  PROVE  Paired(d)'
<1> DEFINE n == Len(queue)
<1>1. /\ n \in Nat /\ Len(queue') = n + 1 /\ queue'[n + 1] = q
      /\ \A i \in 1 .. n : queue'[i] = queue[i]
  BY Pushed
<1>2. LogComesNext(d)'
  <2> SUFFICES ASSUME NEW i \in 1 .. Len(queue'), Is(i, "status", d)'
               PROVE  \/ /\ i < Len(queue') /\ Is(i + 1, "log", d)'
                         /\ queue'[i + 1].data = queue'[i].data
                      \/ /\ i = Len(queue') /\ Pending(d)'
                         /\ queue'[i].data = RowData(cache[d])'
    BY DEF LogComesNext
  <2>1. CASE i = n + 1
    BY <1>1, <2>1 DEF Is
  <2>2. CASE i \in 1 .. n
    <3>1. i < n /\ Is(i + 1, "log", d) /\ queue[i + 1].data = queue[i].data
      BY <1>1, <2>2 DEF Paired, LogComesNext, Is
    <3> QED  BY <1>1, <2>2, <3>1 DEF Is
  <2> QED  BY <1>1, <2>1, <2>2
<1>3. StatusCameFirst(d)'
  <2> SUFFICES ASSUME NEW i \in 2 .. Len(queue'), Is(i, "log", d)'
               PROVE  Is(i - 1, "status", d)'
    BY DEF StatusCameFirst
  <2>1. i # n + 1
    BY <1>1 DEF Is
  <2>2. i \in 2 .. n /\ i - 1 \in 1 .. n
    BY <1>1, <2>1
  <2> QED  BY <1>1, <2>2 DEF Paired, StatusCameFirst, Is
<1>4. PendingIsLast(d)'
  BY <1>1 DEF PendingIsLast, Is
<1>5. TablesAgree(d)'
  BY <1>1 DEF Paired, TablesAgree, Settled, Caught, Is
<1> QED  BY <1>2, <1>3, <1>4, <1>5 DEF Paired

(* The log query of d follows its status query.                            *)
LEMMA PushInside ==
  ASSUME TypeOK, NEW d \in Devices, Paired(d), Pending(d), ~Pending(d)',
         NEW q \in Query, queue' = Append(queue, q),
         q.table = "log", q.dev = d, q.data = RowData(cache[d]),
         status' = status, logged' = logged, rows' = rows
  PROVE  Paired(d)'
<1> DEFINE n == Len(queue)
<1>1. /\ n \in Nat /\ Len(queue') = n + 1 /\ queue'[n + 1] = q
      /\ \A i \in 1 .. n : queue'[i] = queue[i]
  BY Pushed
<1>2. LogComesNext(d)'
  <2> SUFFICES ASSUME NEW i \in 1 .. Len(queue'), Is(i, "status", d)'
               PROVE  /\ i < Len(queue') /\ Is(i + 1, "log", d)'
                      /\ queue'[i + 1].data = queue'[i].data
    BY DEF LogComesNext
  <2>1. i \in 1 .. n /\ Is(i, "status", d)
    BY <1>1 DEF Is
  <2>2. CASE i < n /\ Is(i + 1, "log", d) /\ queue[i + 1].data = queue[i].data
    BY <1>1, <2>1, <2>2 DEF Is
  <2>3. CASE i = n /\ queue[i].data = RowData(cache[d])
    BY <1>1, <2>1, <2>3 DEF Is
  <2> QED  BY <2>1, <2>2, <2>3 DEF Paired, LogComesNext
<1>3. StatusCameFirst(d)'
  <2> SUFFICES ASSUME NEW i \in 2 .. Len(queue'), Is(i, "log", d)'
               PROVE  Is(i - 1, "status", d)'
    BY DEF StatusCameFirst
  <2>1. CASE i = n + 1
    BY <1>1, <2>1 DEF Paired, PendingIsLast, Is
  <2>2. CASE i \in 2 .. n
    <3>1. i - 1 \in 1 .. n
      BY <1>1, <2>2
    <3> QED  BY <1>1, <2>2, <3>1 DEF Paired, StatusCameFirst, Is
  <2> QED  BY <1>1, <2>1, <2>2
<1>4. PendingIsLast(d)'
  BY DEF PendingIsLast
<1>5. TablesAgree(d)'
  <2>1. CASE n = 0
    BY <1>1, <2>1 DEF Paired, TablesAgree, Caught, Is
  <2>2. CASE n > 0
    BY <1>1, <2>2 DEF Paired, TablesAgree, Settled, Caught, Is
  <2> QED  BY <1>1, <2>1, <2>2
<1> QED  BY <1>2, <1>3, <1>4, <1>5 DEF Paired

(* Running the head of the queue moves every other query one place up.     *)
LEMMA HeadKeepsOrder ==
  ASSUME TypeOK, NEW d \in Devices, Paired(d),
         queue # <<>>, queue' = Tail(queue),
         (Pending(d)' <=> Pending(d)), RowData(cache[d])' = RowData(cache[d])
  PROVE  LogComesNext(d)' /\ StatusCameFirst(d)' /\ PendingIsLast(d)'
<1> DEFINE n == Len(queue)
<1>1. /\ n \in Nat /\ n > 0 /\ Len(queue') = n - 1
      /\ \A i \in 1 .. n - 1 : queue'[i] = queue[i + 1]
  BY HeadRun
<1>2. LogComesNext(d)'
  <2> SUFFICES ASSUME NEW i \in 1 .. Len(queue'), Is(i, "status", d)'
               PROVE  \/ /\ i < Len(queue') /\ Is(i + 1, "log", d)'
                         /\ queue'[i + 1].data = queue'[i].data
                      \/ /\ i = Len(queue') /\ Pending(d)'
                         /\ queue'[i].data = RowData(cache[d])'
    BY DEF LogComesNext
  <2>1. i + 1 \in 1 .. n /\ Is(i + 1, "status", d) /\ queue'[i] = queue[i + 1]
    BY <1>1 DEF Is
  <2>2. CASE i + 1 < n /\ Is(i + 2, "log", d)
             /\ queue[i + 2].data = queue[i + 1].data
    <3>1. queue'[i + 1] = queue[i + 2] /\ i < Len(queue')
      BY <1>1, <2>2
    <3> QED  BY <2>1, <2>2, <3>1 DEF Is
  <2>3. CASE i + 1 = n /\ Pending(d) /\ queue[i + 1].data = RowData(cache[d])
    <3>1. i = Len(queue')
      BY <1>1, <2>3
    <3>2. Pending(d)' /\ queue'[i].data = RowData(cache[d])'
      BY <2>1, <2>3
    <3> QED  BY <3>1, <3>2
  <2>4. (i + 1) + 1 = i + 2
    OBVIOUS
  <2> QED  BY <2>1, <2>2, <2>3, <2>4 DEF Paired, LogComesNext
<1>3. StatusCameFirst(d)'
  <2> SUFFICES ASSUME NEW i \in 2 .. Len(queue'), Is(i, "log", d)'
               PROVE  Is(i - 1, "status", d)'
    BY DEF StatusCameFirst
  <2>1. /\ i + 1 \in 2 .. n /\ (i + 1) - 1 = i /\ (i - 1) + 1 = i
        /\ queue'[i] = queue[i + 1] /\ queue'[i - 1] = queue[(i - 1) + 1]
    <3>1. /\ i \in 1 .. Len(queue') /\ i - 1 \in 1 .. Len(queue')
          /\ i + 1 \in 2 .. n /\ (i + 1) - 1 = i /\ (i - 1) + 1 = i
      BY <1>1
    <3> QED  BY <1>1, <3>1, Zenon
  <2> QED  BY <2>1 DEF Paired, StatusCameFirst, Is
<1>4. PendingIsLast(d)'
  <2> SUFFICES ASSUME Pending(d), Len(queue') > 0
               PROVE  /\ queue'[Len(queue')].table = "status"
                      /\ queue'[Len(queue')].dev = d
    BY DEF PendingIsLast, Is
  <2>1. queue'[Len(queue')] = queue[n]
    BY <1>1
  <2> QED  BY <1>1, <2>1 DEF Paired, PendingIsLast, Is
<1> QED  BY <1>2, <1>3, <1>4

(* No log query of d is first, and no flush inside a pair of d waits with  *)
(* an empty queue, after a query that is not the status query of d.        *)
LEMMA NothingCaught ==
  ASSUME TypeOK, NEW d \in Devices, Paired(d),
         queue # <<>>, queue' = Tail(queue),
         (Pending(d)' <=> Pending(d)), ~Is(1, "status", d)
  PROVE  /\ ~(Len(queue') > 0 /\ Is(1, "log", d)')
         /\ ~(Len(queue') = 0 /\ Pending(d)')
<1> DEFINE n == Len(queue)
<1>1. /\ n \in Nat /\ n > 0 /\ Len(queue') = n - 1
      /\ \A i \in 1 .. n - 1 : queue'[i] = queue[i + 1]
  BY HeadRun
<1>2. ASSUME Len(queue') > 0, Is(1, "log", d)'
      PROVE  FALSE
  <2>1. 2 \in 2 .. n /\ queue'[1] = queue[2] /\ 2 - 1 = 1
    BY <1>1, <1>2
  <2>2. Is(2, "log", d)
    BY <1>2, <2>1 DEF Is
  <2> QED  BY <2>1, <2>2 DEF Paired, StatusCameFirst
<1>3. Len(queue') = 0 => n = 1
  BY HeadRun
<1>4. n = 1 => ~Pending(d)
  BY DEF Paired, PendingIsLast
<1> QED  BY <1>2, <1>3, <1>4

LEMMA RunStatus ==
  ASSUME TypeOK, NEW d \in Devices, Paired(d), PqRunStatus
  PROVE  Paired(d)'
<1>0. PICK q : q = queue[1]
  OBVIOUS
<1>1. /\ queue # <<>> /\ queue' = Tail(queue) /\ Len(queue) > 0
      /\ Len(queue) \in Nat /\ Head(queue) = q /\ q \in Query
  BY <1>0, HeadRun DEF PqRunStatus
<1>2. /\ (Pending(d)' <=> Pending(d)) /\ RowData(cache[d])' = RowData(cache[d])
      /\ logged' = logged /\ rows' = rows
  BY DEF PqRunStatus, Pending, AtDevice, rxvars, RowData
<1>3. LogComesNext(d)' /\ StatusCameFirst(d)' /\ PendingIsLast(d)'
  BY <1>1, <1>2, HeadKeepsOrder
<1>4. Settled(d)
  BY <1>0, <1>1 DEF Paired, TablesAgree, Is, PqRunStatus
<1>5. status'[q.dev] = Upsert(status[q.dev], q.data)
      /\ (d # q.dev => status'[d] = status[d])
  BY <1>1 DEF PqRunStatus, TypeOK, Query
<1>6. CASE q.dev # d
  <2>1. ~Is(1, "status", d)
    BY <1>0, <1>6 DEF Is
  <2>2. /\ ~(Len(queue') > 0 /\ Is(1, "log", d)')
        /\ ~(Len(queue') = 0 /\ Pending(d)')
    BY <1>1, <1>2, <2>1, NothingCaught
  <2>3. Settled(d)'
    BY <1>2, <1>4, <1>5, <1>6 DEF Settled
  <2> QED  BY <1>3, <2>2, <2>3 DEF Paired, TablesAgree
<1>7. CASE q.dev = d
  <2>1. Is(1, "status", d)
    BY <1>0, <1>1, <1>7 DEF Is, PqRunStatus
  <2>2. Caught(d, q.data)'
    BY <1>2, <1>4, <1>5, <1>7, ServerAssumption DEF Settled, Caught, Upsert
  <2>3. CASE 1 < Len(queue) /\ Is(2, "log", d) /\ queue[2].data = q.data
    <3>1. Len(queue') > 0 /\ queue'[1] = queue[2]
      BY <1>1, <2>3, HeadRun
    <3> QED  BY <1>3, <2>2, <2>3, <3>1 DEF Paired, TablesAgree, Caught, Is
  <2>4. CASE 1 = Len(queue) /\ Pending(d) /\ q.data = RowData(cache[d])
    <3>1. Len(queue') = 0
      BY <1>1, <2>4, HeadRun
    <3> QED  BY <1>2, <1>3, <2>2, <2>4, <3>1 DEF Paired, TablesAgree, Caught
  <2>5. 1 \in 1 .. Len(queue) /\ 1 + 1 = 2
    BY <1>1
  <2> QED  BY <1>0, <2>1, <2>3, <2>4, <2>5 DEF Paired, LogComesNext
<1> QED  BY <1>6, <1>7

LEMMA RunLog ==
  ASSUME TypeOK, NEW d \in Devices, Paired(d), PqRunLog
  PROVE  Paired(d)'
<1>0. PICK q : q = queue[1]
  OBVIOUS
<1>1. /\ queue # <<>> /\ queue' = Tail(queue) /\ Len(queue) > 0
      /\ Len(queue) \in Nat /\ Head(queue) = q /\ q \in Query
      /\ q.table = "log"
  BY <1>0, HeadRun DEF PqRunLog
<1>2. /\ (Pending(d)' <=> Pending(d)) /\ RowData(cache[d])' = RowData(cache[d])
      /\ status' = status
  BY DEF PqRunLog, Pending, AtDevice, rxvars, RowData
<1>3. LogComesNext(d)' /\ StatusCameFirst(d)' /\ PendingIsLast(d)'
  BY <1>1, <1>2, HeadKeepsOrder
<1>4. /\ ~(Len(queue') > 0 /\ Is(1, "log", d)')
      /\ ~(Len(queue') = 0 /\ Pending(d)')
  BY <1>0, <1>1, <1>2, NothingCaught DEF Is
<1>5. Settled(d)'
  <2>1. CASE q.dev # d
    <3>1. rows'[d] = rows[d] /\ logged'[d] = logged[d]
      BY <1>1, <2>1 DEF PqRunLog, TypeOK, Query
    <3>2. Settled(d)
      BY <1>0, <1>1, <2>1 DEF Paired, TablesAgree, Is
    <3> QED  BY <1>2, <3>1, <3>2 DEF Settled
  <2>2. CASE q.dev = d
    <3>1. /\ logged'[d] = q.data
          /\ rows'[d] = IF rows[d] < 2 THEN rows[d] + 1 ELSE rows[d]
          /\ rows[d] \in 0 .. 2
      BY <1>1, <2>2 DEF PqRunLog, TypeOK, Query
    <3>2. Caught(d, q.data)
      BY <1>0, <1>1, <2>2 DEF Paired, TablesAgree, Is
    <3>3. q.data # NoRow
      BY <1>1, ServerAssumption DEF Query
    <3> QED  BY <1>2, <3>1, <3>2, <3>3 DEF Settled, Caught
  <2> QED  BY <2>1, <2>2
<1> QED  BY <1>3, <1>4, <1>5 DEF Paired, TablesAgree

-----------------------------------------------------------------------------
LEMMA UpdateStep ==
  ASSUME TypeOK, NEW d \in Devices, Paired(d),
         NEW g \in Devices, FlushUpdate(g)
  PROVE  Paired(d)'
<1>1. /\ status' = status /\ logged' = logged /\ rows' = rows
      /\ cache' = cache /\ todo' = todo
  BY DEF FlushUpdate, rxvars
<1>2. ~Pending(d) /\ AtDevice(g)
  BY DEF FlushUpdate, Pending
<1>3. CASE ~Accepts
  <2>1. queue' = queue /\ ~Pending(d)'
    BY <1>3 DEF FlushUpdate, Push, Pending
  <2> QED  BY <1>1, <1>2, <2>1, QuietStep
<1>4. CASE Accepts
  <2> DEFINE q == [table |-> "status", dev |-> g, data |-> RowData(cache[g])]
  <2>1. q \in Query
    BY RowType DEF Query, TypeOK
  <2>2. queue' = Append(queue, q) /\ fpc' = "pushed"
    BY <1>4 DEF FlushUpdate, Push
  <2>3. q.dev = g /\ q.table = "status" /\ q.data = RowData(cache[g])
    OBVIOUS
  <2>4. g = d => Pending(d)' /\ q.data = RowData(cache[d])'
    BY <1>1, <1>2, <2>2, <2>3 DEF Pending, AtDevice, RowData
  <2>5. g # d => ~Pending(d)'
    BY <1>1, <1>2, OneAtATime DEF Pending, AtDevice
  <2> HIDE DEF q
  <2> QED  BY <1>1, <1>2, <2>1, <2>2, <2>3, <2>4, <2>5, PushOutside
<1> QED  BY <1>3, <1>4

LEMMA InsertStep ==
  ASSUME TypeOK, NEW d \in Devices \ split', Paired(d),
         NEW g \in Devices, FlushInsert(g)
  PROVE  Paired(d)'
<1> DEFINE q == [table |-> "log", dev |-> g, data |-> RowData(cache[g])]
<1>1. /\ status' = status /\ logged' = logged /\ rows' = rows
      /\ ~Pending(d)'
  BY DEF FlushInsert, Pending
<1>2. AtDevice(g) /\ (d # g => ~Pending(d))
  BY OneAtATime DEF FlushInsert, Pending
<1>3. q \in Query
  BY RowType DEF Query, TypeOK
<1>4. q.dev = g /\ q.table = "log" /\ q.data = RowData(cache[g])
  OBVIOUS
<1>5. d = g => (Accepts <=> Pending(d))
  BY <1>2 DEF FlushInsert, Pending
<1>6. queue' = IF Accepts THEN Append(queue, q) ELSE queue
  BY DEF FlushInsert, Push
<1> HIDE DEF q
<1>7. CASE Pending(d)
  BY <1>1, <1>2, <1>3, <1>4, <1>5, <1>6, <1>7, PushInside
<1>8. CASE ~Pending(d) /\ Accepts
  BY <1>1, <1>2, <1>3, <1>4, <1>5, <1>6, <1>8, PushOutside
<1>9. CASE ~Pending(d) /\ ~Accepts
  BY <1>1, <1>6, <1>9, QuietStep
<1> QED  BY <1>7, <1>8, <1>9

LEMMA TablesStep ==
  ASSUME TypeOK, TablesInv, [Next]_vars
  PROVE  TablesInv'
<1>1. fpc' # "idle" => lock' = "flusher"
  BY DEF TablesInv, Next, Environment, Flush, PqRun, PassTime, PqConnection,
         OnRxMsg, FlushLock, FlushSkip, FlushUpdate, FlushInsert, FlushSleep,
         FlushUnlock, PqRunStatus, PqRunLog, vars
<1>2. split \subseteq split'
  BY DEF Next, Environment, Flush, PqRun, PassTime, PqConnection, OnRxMsg,
         FlushLock, FlushSkip, FlushUpdate, FlushInsert, FlushSleep,
         FlushUnlock, PqRunStatus, PqRunLog, vars
<1> SUFFICES ASSUME NEW d \in Devices \ split'
             PROVE  Paired(d)'
  BY <1>1 DEF TablesInv
<1>3. d \in Devices /\ Paired(d)
  BY <1>2 DEF TablesInv
<1>4. CASE PassTime \/ PqConnection \/ UNCHANGED vars
  <2>1. /\ queue' = queue /\ status' = status /\ logged' = logged
        /\ rows' = rows /\ (Pending(d)' <=> Pending(d))
        /\ RowData(cache[d])' = RowData(cache[d])
    BY <1>4 DEF PassTime, PqConnection, vars, rxvars, dbvars, Pending,
                AtDevice, RowData
  <2> QED  BY <1>3, <2>1, QuietStep
<1>5. ASSUME NEW g \in Devices, NEW r \in Receivers, NEW k \in Kinds,
             NEW t \in Ticks, OnRxMsg(g, r, k, t)
      PROVE  Paired(d)'
  <2>1. fpc = "idle"
    BY <1>5 DEF OnRxMsg, TablesInv
  <2>2. /\ queue' = queue /\ status' = status /\ logged' = logged
        /\ rows' = rows /\ ~Pending(d) /\ ~Pending(d)'
    BY <1>5, <2>1 DEF OnRxMsg, dbvars, Pending
  <2> QED  BY <1>3, <2>2, QuietStep
<1>6. CASE FlushLock \/ FlushSleep \/ FlushUnlock
           \/ \E g \in Devices : FlushSkip(g)
  <2>1. /\ queue' = queue /\ status' = status /\ logged' = logged
        /\ rows' = rows /\ ~Pending(d) /\ ~Pending(d)'
    BY <1>6 DEF FlushLock, FlushSleep, FlushUnlock, FlushSkip, dbvars, Pending
  <2> QED  BY <1>3, <2>1, QuietStep
<1>7. ASSUME NEW g \in Devices, FlushUpdate(g)
      PROVE  Paired(d)'
  BY <1>3, <1>7, UpdateStep
<1>8. ASSUME NEW g \in Devices, FlushInsert(g)
      PROVE  Paired(d)'
  BY <1>3, <1>8, InsertStep
<1>9. CASE PqRun
  BY <1>3, <1>9, RunStatus, RunLog DEF PqRun
<1> QED  BY <1>4, <1>5, <1>6, <1>7, <1>8, <1>9 DEF Next, Environment, Flush

(* Whenever the queue has run dry between two flushes, the status row of a *)
(* device shows what its newest log row shows, for every number of devices *)
(* and every limit of the queue, unless a flush wrote one table only.      *)
THEOREM StatusShowsLogCorrect == Spec => []StatusShowsLog
<1>1. Init => TablesInv
  <2> SUFFICES ASSUME Init, NEW d \in Devices
               PROVE  Paired(d)
    BY DEF Init, TablesInv
  <2>1. Len(queue) = 0 /\ ~Pending(d) /\ fpc = "idle"
    BY DEF Init, Pending
  <2>2. Settled(d)
    BY DEF Init, Settled
  <2>3. LogComesNext(d) /\ StatusCameFirst(d)
    BY <2>1 DEF LogComesNext, StatusCameFirst
  <2>4. PendingIsLast(d) /\ TablesAgree(d)
    BY <2>1, <2>2 DEF PendingIsLast, TablesAgree
  <2> QED  BY <2>3, <2>4 DEF Paired
<1>2. TypeOK /\ TablesInv /\ [Next]_vars => TablesInv'
  BY TablesStep
<1>3. TablesInv => StatusShowsLog
  <2> SUFFICES ASSUME TablesInv, fpc = "idle", queue = <<>>,
                      NEW d \in Devices \ split
               PROVE  \/ rows[d] = 0 /\ status[d] = NoRow
                      \/ rows[d] = 1 /\ status[d] = NullRow
                      \/ rows[d] = 2 /\ status[d] = logged[d]
    BY DEF StatusShowsLog
  <2>1. Len(queue) = 0 /\ ~Pending(d)
    BY DEF Pending
  <2>2. Settled(d)
    BY <2>1 DEF TablesInv, Paired, TablesAgree
  <2> QED  BY <2>2 DEF Settled
<1> QED  BY <1>1, <1>2, <1>3, TypeCorrect, PTL DEF Spec

=============================================================================
