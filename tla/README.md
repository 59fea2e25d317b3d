# KIAPI-Platooning: verification project

TLA+ models of the C++ program in `src/`, checked with TLC and, where said so,
proved with TLAPS. Paths such as `obu_handler.cpp:225` are relative to
`src/src/` (sources) or `src/include/` (headers).

The program gives a following vehicle (FV) its part in a platoon. It reads the
vehicle's position from an on-board *d2x* unit, and sends it in V2X messages
through a 5G-NR *OBU* device. Two more components deal with messages heard:
`cav_handler` repacks them for an autonomous vehicle, `server_handler` collects
the reports of many receivers in a database. Sockets, threads, timers, the OBU
protocol and the database client are libraries of which the repository has
headers at most.

## 1. Inventory

| Component | State | Operations | Interacts with |
|---|---|---|---|
| `platooning_service` (`platooning_service.cpp`) | `info`: position, link id, `seq`, `cnt`, ids, interval, its lock; `roll_type` | `set_position`, `tx_base_message` (`build_fv_msg`, `build_lv_msg`, `build_ssov_header`), `rx_platooning_message`, setters | called by `obu_handler`'s worker; calls `nr_v2x_mng` |
| `obu_handler` (`obu_handler.cpp`) | `state_level` (-1, 0, 1), `srv` (tick), `data` (fix, link) | constructor, `run`, `init`, `on_dev_connection`, `progress_worker`, `on_dgd_gps_data`, `on_dgd_link_data`, `on_rx_msg_ext` | worker, OBU socket and d2x threads share its members without a lock |
| `server_handler` (`server.cpp`) | `cache` (per source device: payloads, type, tick, time, receivers, update), `lock`; per connection `sock.buffer` | `on_sock_receive`, `on_rx_msg`, `on_rx_lv_msg`, `on_rx_fv_msg`, `progress_thread`, `update_db`, `insert_db` | receivers over TCP; flush thread; `pq_handler` |
| `cav_handler` (`cav_handler.cpp`) | `seq` | `forward_lv_msg`, `forward_fv_msg` | autonomous vehicle over TCP |
| CRC-32 (`utils.cpp`) | none | `CLI_UTIL_GetCrc32` | used by `tx_base_message` |
| `main.cpp`, `app_config.h` | `config` | `parse_option`, `main` | builds one `obu_handler` |
| external: libnr-v2x, dgd-sock, pq-utils, cpp-framework | | headers only, or absent | |

What is hard, and what makes each component right:

* **OBU session.** Three threads read and write `state_level` unguarded while
  the link comes and goes and a registration may fail, hang on in retries, or
  succeed with its answer lost. Right means: a connection that is reported is
  never forgotten; "active" means registered on *this* connection; a link that
  stays up is used in the end.
* **Message numbers.** A number is taken when a message is built, before any
  check that may stop it. Right means: the gaps a receiver sees are exactly
  the messages lost, over the wraps of a 32-bit counter and of a modulus that
  does not divide it.
* **Position.** A 14-member struct and a string are written by one thread while
  another copies them. Right means: fresh, never going back, and (not so in this
  code) untorn.
* **SSOV framing.** A header in network byte order, some of its 32-bit fields made
  by 16-bit conversions; a CRC computed by reversing bits twice; a receiver that
  converts the header in the buffer it was handed. Right means: what a sender
  meant is what a receiver does, the CRC is the one everybody computes, and the
  timestamp (not so in this code) shows the time.
* **Stream framing.** TCP cuts anywhere. Right means: whole messages, in order,
  none held back.
* **Cache and flush.** Reports are late and out of order; payload and type are
  separate members; one flush is two queries, and the database may go in
  between. Right means: newest wins unless stale, rows are consistent, the two
  tables agree, reports are lost only for a reason, be it a database that is
  away or a queue that is full.
* **Forwarding.** A variable-length message with a self-declared length and a
  one-byte number. Right means: a reader can cut the stream and count losses.

`PROJECT.json` lists all hazards with their lines. Note that `server.cpp` and
`cav_handler.cpp` are not in the `Makefile`'s `OBJ`, `rx_data_tmp_t` and
`cav_msg.h` are not in the repository, and `progress_thread` is defined as a free
function although `server.h` declares it as a member. They are modelled as the
class they clearly are: `progress_thread` uses the members `lock` and `cache`, and
it is what the constructor starts. `progress_thread` is one flush, which
`thread_handler` repeats, as it repeats `progress_worker`.

## 2. Modules

| Module | Models | Proofs |
|---|---|---|
| `PlatooningService` | `platooning_service`, transmit side | `PlatooningServiceProofs` |
| `Crc32` | `CLI_UTIL_GetCrc32` | `SsovLinkProofs` |
| `CrcReflected` | abstract: the CRC-32 of IEEE 802.3 | (as `CrcRefinement`) |
| `SsovLink` | an SSOV message from one vehicle to another; EXTENDS `PlatooningService` and `Crc32` | `SsovLinkProofs` |
| `SsovTimestamp` | `convert_timestamp_format` | |
| `ObuHandler` | `obu_handler`'s three threads; INSTANCEs `PlatooningService` | `ObuHandlerProofs` |
| `DeviceSession` | abstract: what a session with the OBU promises | (as `Refinement`) |
| `PositionFeed` | `on_dgd_gps_data` and `on_dgd_link_data` against `set_position` and `build_fv_msg` | `PositionFeedProofs` |
| `ServerHandler` | `server_handler`: cache, flush, tables | `ServerHandlerProofs` |
| `ServerReports` | no code: `ServerHandler` with one report followed on its way | |
| `SockStream` | `on_sock_receive` | `SockStreamProofs` |
| `FrameChannel` | abstract: whole messages in order | (as `Refinement`) |
| `CavForward` | `cav_handler` | `CavForwardProofs` |
| `CommonLemmas` | no code: what several proofs need of numbers and sequences | itself |
| `MC*` | finite instances for TLC | |

Operators named "Mutant of X" in a module are wrong variants of a definition X, each
with the same parameters. Replacing X by its mutant makes a property fail;
`PROJECT.json` says which. Nothing else uses them.

### PlatooningService

`position`, `seq`, `cnt` are members of `info`; `result` is what `tx_base_message`
returned; `wire` and `skipped` are history (last message accepted by the device,
messages built since). `tx_base_message` is `TxLv` (an LV's message is empty, its
builder a TODO), `TxUnavailable` (built, then the socket is not available) or
`TxRequest(code)`. The first check, `sock == nullptr`, never fails in this program
and would take the same path as `TxUnavailable`. `build_fv_msg` cannot return an empty message, so an FV has no third
error path. One call is one step: only the worker calls the service. `ObuHandler`
splits it where the link may change. `SeqMod` stands for 2^32, `CntMod` for 101;
the MC values 7 and 3 keep the one no multiple of the other.

### Crc32 and CrcReflected

A word is the set of the positions of its ones, so `^` is the symmetric
difference and a shift moves positions. `Crc32` is the code: `NextByte` takes a
byte, reversed through the table of four-bit reversals, at the high end of the
register; `NextBit` is one turn of the inner loop, left; `Crc` is what is returned.
`CrcReflected` is the same CRC as it is usually defined: right, from the low end,
with nothing reversed. `CrcSpec` says that the first implements the second, the
abstract register being the concrete one reversed. `MCSsovLink` checks
`CrcReflected` itself against the published check value of "123456789".

### SsovLink

The composition: `tpc` splits `tx_base_message` of `PlatooningService` into the
building of the frame (`TxStart`), the CRC's loops (`TxCrc`, steps of `Crc32`) and
the request (`TxEnd`, a step of `PlatooningService`). `RxCall` hands a receiver the
package on the air or one of `Foreign` equipment; `at` is the loop of
`on_rx_msg_ext`; `RxPlatooning` is `rx_platooning_message`, which overwrites
`eServiceId` in `msg`. Numbers are sequences of bytes in the memory order of the
(little-endian) host. The header is kept to `eServiceId`, the payload to the
number and the type a receiver reads. A field records what its sender meant, in
`service` and `type`; the code never reads these two of the field itself.
That other equipment sends header and payload in full length is assumed:
`rx_platooning_message` casts its buffer without a look at the length, and what it
reads beyond a short field is not modelled.

### SsovTimestamp

`convert_timestamp_format` in three steps: `get_epoch_time_usec`, `get_tm`, the sum.
`wraps` is the choice the undefined overflow leaves to the build. TLC's integers
are as narrow as the code's, so all units are scaled down, with `HourUnit` going
4.29 times into `IntMod` as 10^9 goes into 2^32.

### ObuHandler

`ctor`: the constructor after `worker.start`, with `run` in four steps: the level,
the timer, the call of `nr_sock.set` and its return. `link`, `cb`, `registered`:
the library and the device. `wpc`: the point of `progress_worker`
where the worker stands; each `W_` action is one statement:

| `wpc` | code |
|---|---|
| entry | `if (state_level == 0)` :223 |
| request | `init`'s loop, :55-59 |
| activate | `state_level = 1` :225 |
| check | `if (state_level == 1)` :228, else `sleep_for` :236 |
| tick | `srv.tick.timeout()` :230 |
| position | `set_position` :232 |
| tx, send | `tx_base_message` :233, before and after `available()` |

`early` and `stale` are history. `early` counts the messages sent on a connection
before the PSID is registered on it, its callback due or not. A connection may come
up while the level is still 1, left over from the lost one (finding 2's
assignment); every message goes out on it until its callback sets the level, and
`stale` says that this is so. At that callback the count starts again.

Taken of the library: no connection is reported before `nr_sock.set` is called, but
one may be before it returns; callbacks for one device come one at a time
and each link change is reported before the next happens; `available()` changes before
the callback runs; a lost connection loses the device's registration; a request
succeeds only on an open link, and its answer may be lost. `state_level` is a
plain `int` accessed by three threads; each access is one step that yields the
last value written.

### PositionFeed

The fourteen members of `GPSFix` are represented by two, a link id by a head and a
tail; a message of the unit is its number. `data` is `obu_handler::data`, `dpc` the
d2x thread's next assignment (one handler runs at a time), `copy` is `info.fix` and
the by-value argument `link`, which is copied first; the members of the fix follow
in any order (`GPSFix`'s assignment is not in the repository). `sent` is what the
last message held, `known` history. The race on a part gives its old or its new
value, which is what the compiled moves of up to 8 bytes do. For `data.link` this
supposes ids of one length, short enough for the string to hold them itself (12
characters, `DB_V2X_PT_FV_LANE_LEN`): then an assignment is a copy of characters into
a buffer that stays where it is. A link id that outgrows the string's own
buffer would be freed under the copying thread; that is not modelled.

### ServerHandler

`cache[d]` is `rx_data_tmp_t` with only its compared parts; a device `operator[]` has
not made yet is an entry of zeros, which behaves alike. `OnRxMsg` is one step, being
under `lock`. A flush is `FlushLock`, then for each device in key order
`FlushSkip`, or `FlushUpdate` and `FlushInsert`, then `FlushSleep` and `FlushUnlock`:
the lock is really held during the sleep. The steps are separate because the
connection to the database may change between them, though the cache may not.
`queue` and the `Pq` actions are `pq_handler`: one thread (its default
`thread_cnt = 1`), in order, its queue kept while disconnected. What `push_query` does
when the queue has reached `MAX_QUERY_QUE_SIZE` is not in the repository; it is
taken to refuse (`Accepts`), and the code never looks at its result. `heard`, `rows` and
`split` (devices of which one flush wrote one table only) are history.

`ServerReports` adds three history variables that follow one report, any one of any
receiver about any device: `place` is in the cache, in a query of the queue with
`ahead` others before it, lost, or out, which is not made yet, refused by the database
when it was flushed, or in the log table. They watch the steps of
`ServerHandler` and exclude none.

### SockStream

A byte is a number; a header is `payload_id` and `length`, one byte each; payload bytes
take the values of header bytes too, so a lost boundary shows at once. `Receive(n)`
is a read by `sock_handler`, which then calls `on_sock_receive`; `Iterate` and
`Break` are the loop. Each connection has its own `io_struct`, so one is
modelled. What `on_rx_msg` does with a message is `ServerHandler!OnRxMsg`.

### CavForward

`Forward` is both `forward_` functions, which differ in `vehicle_type` only.
`Index` is the loop that ends at the first point (0, 0), `MsgLength` the header
field, `lost` and `underway` history. The vehicle (`VehicleReads`) is external; it
cuts the stream by `msg_length` and takes `num_of_pathplane` points. The layout is
from the captures in `sample/`. A failed send leaves nothing on the wire. Nothing
in the repository calls the class, so one caller at a time is assumed.

## 3. Runs

| Run | Specification | Checks | Shows |
|---|---|---|---|
| `ssov_link` | `LinkSpec` | `TypeOK`, `CrcIsStandard`, `SeqGapCountsFailures`, `ContGapCountsFailures`, `CrcSpec`, `DispatchTruth` | gaps in both numbers count the losses (`unContCnt` does not where the 32-bit counter wraps); the CRC is the standard one; fields are dispatched as meant |
| `tx_result` | `Spec` | `TxResultTruth`, violated | finding 1 |
| `ssov_time` | `Spec` | `StampShowsTime`, violated | finding 4 |
| `obu_threads` | `Spec` | `TypeOK`, `ConnectionSeen`, `WorkerWaitsForTick`, `OnlyActivateRaces` | all interleavings |
| `obu_active` | `Spec` | `ActiveIsRegistered`, violated | finding 2 |
| `obu_session` | `FairSteadySpec` | `ActiveIsRegistered`, `AtMostOneEarlyMessage`, `SessionSpec`, `LinkBecomesActive`, `KeepsSending` | without that race, `DeviceSession`, and a link that stays up is used |
| `feed_fresh` | `FairSpec` | `TypeOK`, `SentIsFresh`, `SentNeverGoesBack`, `LastSampleSent` | what the unguarded copy does keep |
| `feed_torn` | `Spec` | `SentIsMeasured`, violated | finding 3 |
| `server_cache` | `Spec` | `TypeOK`, `NewestSinceAccepted`, `RowIsNewest`, `StatusShowsLog` | what the cache keeps; two tables, two queries |
| `server_flush` | `ReportSpec` | `LostOnlyRefused`, `ReportsReachLog` | no report is lost unless refused, and whichever one is followed gets to the log table |
| `sock_stream` | `FairSpec` | `TypeOK`, `NothingHeldBack`, `ChannelSpec`, `EverySentIsHandled` | `FrameChannel`, and no message that has arrived waits for the next read |
| `cav_forward` | `FairSpec` | `TypeOK`, `PlanArrives`, `GapIsLoss`, `EveryMessageIsRead` | the stream can be read |

`SteadySpec` is `Spec` without one event: the link going from down to up while the
worker stands at `state_level = 1` (`NoReconnect`). It is the weakest assumption
found under which the session is right, and `OnlyActivateRaces` says, for `Spec`
itself, that nothing else breaks it. Losing the link there is allowed.

**Bounds.** Counters wrap inside the runs (5 and 3, 7 and 3, 3 and 2). `ssov_link` computes
the CRC of real frames of six bytes at its real width, one for each message number;
the service id has two different bytes, and its mirror image is among the foreign
ones. `ssov_time` runs through a day of 24 scaled hours.
`EarlyCap` 2 is one above what is allowed. `MaxSample` 3 lets two messages of
each kind arrive during one copy. In
`server_cache` the clock runs two past the start with `Stale` 1, so an entry is
fresh, at the limit and stale; two timestamps come in either order. `QueueCap` 3
in `server_cache` is one flush of one device and a half, so that a flush finds room for
the first of its queries only; 2 in `server_flush` is one flush of one device, so that
the second device's queries are refused unless some are run in between.
`rows` counts to 2, after which the upsert behaves alike.
`sock_stream` sends three messages of 2 to 4 bytes, enough for a read that holds the end of
one, a whole one and the start of a third. `cav_forward` makes five calls, numbers
modulo 3, plans of 0 to 2 points with all cases of the test for (0, 0).
`CHECK_DEADLOCK FALSE` is set in the last two only: their bounded senders stop.

**Fairness.** Weak for the steps of a thread that is always able to take one
(workers, callbacks, socket loop). Strong: `W_RequestOk` (a device that stays
connected and is asked for ever confirms at last, else the retry loop is
right to go on), `W_TickFire` (a timer polled for ever expires), `FlushLock` (a
mutex is handed over at last although the socket thread competes for it),
`PqRun` (a database that is connected again and again runs its queries). Nothing
makes links come up, receivers report or the GPS send.

## 4. Findings

1. `tx_base_message` returns true for a refused request: `int` to `bool`
   (platooning_service.cpp:123). Its caller ignores the result.
2. `state_level = 1` (obu_handler.cpp:225) overwrites the 0 of a connection that
   replaced the one `init` registered on. That connection stays active and its PSID
   unregistered until it is lost.
3. The position of a message may mix two GPS samples (obu_handler.cpp:178-191 against
   :232). The same holds of the link id (:202): with the first conjunct of
   `SentIsMeasured` taken away TLC finds the second violated.
4. The timestamp of the SSOV header is wrong from 3 o'clock on: `tm_hour *
   1000000000` overflows an `int` (platooning_service.cpp:346). The other products
   of the sum are `long long` or small.

What the passing runs state, and a reader may not expect: with a single row in the
log, a device's status row has no data, since the upsert sets data only on
conflict (`StatusShowsLog`); a flush while the database is disconnected or its queue
full throws reports away (`LostOnlyRefused`); a connection that comes up while the
level is still 1 carries any number of messages before its callback, unregistered
(the exception of `AtMostOneEarlyMessage`); a header that `rx_platooning_message` has seen does not
name its service any more (`SecondParse`).

Seen while modelling, with no run of their own:

* cav_handler.cpp:124 and server.cpp:189 and :310 convert `usFvSpeed` from km/h to
  units of J2735, which platooning_service.cpp:246 has done before the message was sent.
  What unit a following vehicle's message has when it gets there, and whether
  the second conversion is meant, cannot be decided from the source: the converters are
  not in it, and the capture in `sample/FV` has a speed of 333, which is 24 km/h
  converted once. The two server lines truncate to whole metres per second
  before they convert, cav_handler.cpp:124 does not, so the database and the vehicle
  need not show the same number.
* platooning_service.cpp:341 divides the microseconds by 100, which leaves four
  digits where the comment at :331 has five; and they are read (:335) before the time
  of day (:338), so that across the turn of a second they belong to another.
* The status table gets an empty `link_id` (server.cpp:198), the log the lane id (:319).
* `init` registers PSID 58200 only (obu_handler.cpp:48); messages carry, and are
  expected with, `EM_PT_SSOV`, 58222 (platooning_service.cpp:123, obu_handler.cpp:122).
* `BE<T>::operator+=` (endian.h:104) adds two byte-swapped numbers; nothing in the
  repository uses it.

## 5. Proofs

All for every value of the constants that the modules' `ASSUME`s allow. They
are theorems about the models, with the assumptions about libraries given above.

* `PlatooningServiceProofs`. `TypeCorrect`; `SeqGapCorrect` by the invariant
  `Numbered`: the next number is the last one sent plus the skipped ones plus one,
  modulo the width. The action property alone says nothing about a state, so
  it is this relation that is carried from step to step. `ContGapCorrect` by
  `Paired`: both counters are one number, so `unContCnt` is `unSeqNum` modulo the
  modulus; without a wrap between two messages (`LaterNoWrap`) the gap in the one is
  the gap in the other, reduced.
* `SsovLinkProofs`. `CrcRefinement`: the register, reversed, takes the steps of the
  standard's. It rests on lemmas that reversing commutes with exclusive or and
  complement and turns a left shift into a right one, that the table reverses
  four bits (sixteen cases) and that the two polynomials mirror each other.
  `CrcCorrect`: what is returned is the standard's complemented register.
  `RoundTrip` and `SecondParse`, about the conversions of one id.
  `LinkIsService` and the two CRC theorems: the link refines both of the modules it is
  composed of, so what is proved of them holds of it (`LinkGapsCorrect`).
  `DispatchCorrect` by
  `LinkInv`: the fields a receiver has not come to are as they were sent, whatever
  it has overwritten before them; for every service id and any foreign package
  that is framed as the code frames.
* `ObuHandlerProofs`. `TypeCorrect`. `WorkerWaitsForTickCorrect` by `StartInv`: the
  level leaves -1 only by a callback, and `run` sets the timer before the call that can
  lead to one. `ConnectionSeenCorrect` by `CallbackInv`: there is no event before
  `nr_sock.set` is called, after `run` has reset the level, and the link does not change
  until a due callback has run. `OnlyActivateRacesCorrect`, action by action: a step that breaks
  `ActiveIsRegistered` is `W_Activate` itself. Under
  `SteadySpec`: `ActiveIsRegisteredCorrect` and `EarlyMessageCorrect` by
  `SessionInv`, which adds to the two that a worker about to activate is registered
  (what `NoReconnect` keeps true), that the level is not 1 on an unregistered
  connection that is not `stale`, and that the worker, once it has sent early on
  such a connection, has the test of the level before it and fails it. `Refinement`: every step is
  one of `DeviceSession` or a stutter. `ServiceRefinement`: the worker's steps, many
  for one call, implement `PlatooningService`, where a call is one step; so the
  theorems about the numbers, proved there, hold over every race of the three
  threads (`GapsCorrect`).
* `ServerHandlerProofs`. `TypeCorrect`. `NewestCorrect` by `HeardInv`: whatever was
  heard was heard within `Stale` of the entry's renewal, so an entry that is given up
  as stale has nothing newer heard at that moment. `RowIsNewestCorrect` by
  `PayloadInv`: an entry without a type is stale, so its first report is accepted.
  `LostOnlyRefusedCorrect`: only the second half of a flush empties an entry.
  `StatusShowsLogCorrect` by `TablesInv`. The property speaks
  only of an empty queue between two flushes and is far from inductive: the
  invariant says, for a device of which no flush wrote one table only, that its
  status query and log query are neighbours in the queue with the same data
  (`LogComesNext`, `StatusCameFirst`) or that the flush stands between the two and
  holds the lock (`PendingIsLast`), and what the rows are inside and outside such a
  pair (`TablesAgree`). The lock is what keeps the entry the same for both queries.
* `PositionFeedProofs`. `TypeCorrect`, `SentIsFreshCorrect`, `NeverGoesBackCorrect` by
  `FeedInv`: along the chain known, copy, data the numbers only grow.

* `CommonLemmas`. Remainders by a symbolic modulus: that they are unique
  (`Remainder`), and what they are of a sum and of a gap. `Least`: a non-empty set
  of natural numbers has a least member, from the library's well-foundedness of
  `<`; it is why the `CHOOSE` that stands for the loop in `cav_handler` chooses
  something. And messages in a stream: that a stream *is* the messages not yet
  read, one after the other, would be said by a recursion over their list, and so by
  an induction. `Holds` says it without: there are places, one for each message
  and one for the end, a message's length apart, and the bytes at each are its
  message. Sending puts a place at the end (`HoldsAppend`), reading passes one
  (`HoldsFirst`, `HoldsRest`); neither moves another.
* `SockStreamProofs`. `StreamInv`: buffer and net together hold the messages sent
  after those handled. `Refinement` rests on it: what an iteration cuts off is the
  next message and no other bytes, wherever the reads cut the stream. It is
  also what `NothingHeldBackCorrect` needs, which measures the buffer against the
  message the sender sent and not against the header at the head of the buffer: the two
  lengths are the same (`HeaderIsNext`), and the loop is left only with less
  than that in the buffer (`LoopLeft`). `InOrderCorrect` is proved of `FrameChannel` and carried over by
  `Refinement`: what is handled is the beginning of what was sent.
* `CavForwardProofs`. `WireInv`: there are the list of all messages ever sent and
  the list of the values of `seq` they were sent with, such that the wire holds the
  messages of the calls under way and each number is the one before, the
  failed calls in between and one. Neither list is in the program; the
  invariant says they exist, and each step says what they become. From it
  `PlanArrivesCorrect` (with `IndexShape`, `PathPlanShape`, `PackedShape`: where the
  plan ends and what its bytes are), `GapIsLossCorrect` (with `RemainderOfGap`). For plans
  of every length and every number of values of `msg_seq`; for one connection.

Only model-checked: the liveness properties `LinkBecomesActive`, `KeepsSending`,
`LastSampleSent`, `ReportsReachLog`, `EverySentIsHandled` and `EveryMessageIsRead`
(fairness and ENABLED are beyond the prover). Every other property of a passing
run is a theorem. The runs that expect a violation have a counterexample instead.

## 6. Plan

Done, in the order of importance: the transmit core and session, the position
feed, the server's cache and flush, framing, forwarding, the SSOV link with its
CRC, the limit of the query queue, the timestamp; and a proof of every safety
property and refinement the passing runs check. Next:

1. The timestamp, with a product that does not wrap, as a theorem: the digits are
   those of a time at which the clock was read.
2. `ServerHandler` with `SockStream` in front of it: what the cache has heard is what
   the receivers sent, in order, each.

## 7. Not modelled

* `main.cpp` and the configuration: no state that changes afterwards.
* `progress_rx_lv_msg`, `progress_rx_fv_msg`, `on_rx_msg`, `on_ftp_conn_req` and the
  other empty callbacks: they print or do nothing.
* `build_can_data`, which sets every field to zero, and the fields of the header and
  payload that nothing in the repository reads.
* Positions, speeds, headings and accelerations on their way through doubles and the
  external converters of J2735; the averages in a log row.
* A field on the air that is shorter than what `rx_platooning_message` reads of it.
* A wall clock that is set back: what the cache should do then is stated nowhere.
* A link id longer than a string keeps in place (see `PositionFeed`).
* The libraries' inside.
* `info.lock`, which has one user at a time in this program: only the worker
  takes it.

## 8. Running

    tlc -workers 2 -config obu_threads.cfg MCObuHandler.tla
    tlc -workers 2 -config ssov_link.cfg MCSsovLink.tla
    tlc -workers 2 -config feed_fresh.cfg PositionFeed.tla
    tlapm ObuHandlerProofs.tla

`PROJECT.json` gives the module of each run. `ssov_link`, `server_cache`, `server_flush`
and `cav_forward` take half a minute to a minute each, the others seconds.
