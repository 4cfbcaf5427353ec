# Verification of IoTLab

IoTLab is a testbed of wireless sensor motes.  *Senders* measure and locate,
one or more *sinks* connect them over a serial line to *gateways*, and a
*server* stores what the gateways forward and lets an administrator send
commands back to the motes.  This directory holds TLA+ models of the program in
`src/`, the TLC configurations that check them on small instances, and proofs
for every value of the constants.

    readings:   sender --RPL/UDP--> sink --serial--> gateway --HTTP--> server --> database, live pages
    commands:   page --HTTP--> server --WebSocket--> gateway --serial--> sink --multicast--> senders (repeated hop by hop)

To check: `tlc -config X.cfg M` for a run of `PROJECT.json`, `tlapm M.tla` for a
module whose name ends in `Proofs`.

## 1. The system

| component | code | state | operations |
|---|---|---|---|
| command handlers of the motes | `contiki_app/.../rpl-manage/sink_command.c`, `sender_command.c` | version `ccvn`, five repetition counters, settings (radio power, data period, running modules) | `command_sink_check`, `command_sender_check` on every event |
| dissemination | the same on all motes, `net/mac/csma.c`, `net/ipv6/uip6.c` | packets waiting at the MAC layer of each mote | multicast, reception, repetition, loss, reboot |
| numbering of commands | `CommandManager.java`, `apps/api/WebSocket.java`, `CommandResource.java` | static `commandVersionNumber`, queue of sessions | `sendCommand`, `resetCommandVersionNumber`, `openConnection`, `onClose` |
| gateway, command path | `network/WebSocket.java`, `CommandHandler.java`, `SerialConnection.java` | session, reconnection flags, serial output | `onMessage`, `writeSerialData`, reconnection |
| gateway, serial link | `CommandConnection.java`, `SerialDumpConnection.java` | process, reader thread, `serialOutput` | open once, end of the process, line received |
| gateway, readings | `Gateway.java`, `SensorData.java` | none between readings | one thread per reading posts it |
| gateway, login | `Router.java`, `Config.java` | token, retry | login, check, forward |
| programmer | `MoteProgrammer.java`, `MoteProgrammerProcess.java` | array of processes, done flags | flash all motes (a command-line tool of its own) |
| data module of a sender | `data.c` | period, two timers, 8-bit sequence number | timer events, `data_send` |
| geolocation module of a sender | `geolocation.c`, `broadcast.c` | two buffers of ten (mote, RSSI) pairs, request flag, three timers | beacon, request, answer, report |
| module dispatch | `udp-sender.c` | table of modules | start, stop, check in the order COMMAND, GEOLOC, DATA |
| ingestion | `InputStream`, `DataStream`, `GeolocStream`, `DataResource` | live sockets, tables of motes | parse, create the mote, show live, store |
| data access | `SenderDAO`, `SinkDAO`, `DataDAO` | database | find-then-insert, loss ratio |
| geolocation services | `GeolocationManager`, algorithms | enabled services, result windows | compute positions |
| accounts, monitoring rules, web pages, Contiki | - | - | see section 7 |

The mote code is one cooperative event loop: a handler is atomic.  The server and
the gateways are threaded: every shared read and write is a step.

**What is hard.**  Copies of a command reach a mote over several paths and out of
order, one version number serves all commands, a reset sets it back while copies
of older commands are still queued, packets and serial lines are lost, motes
reboot with version 0, counters are 8 bits wide and versions 16.  On the server a
version is written without the lock that protects its use, and sessions that are
closed are still counted.  In the gateway every reading has a thread of its own,
a closed session and a refused one both reconnect, and login and reconnection
are renewed by threads that do not know of each other.  On a mote a command can
set a timer anew whose event is already queued.  `PROJECT.json` lists each hazard at its line, with
the properties aimed at it, or why there is none.

**What correctness means**, component by component: a sender never goes back to
an older command and repeats each one boundedly often; repetition dies out;
without loss everyone gets the last command and the same settings; the number
the server uses next is one the motes accept; one thread numbers at a time and
every call returns; a gateway never gives up its stream and gets it back; a
started module keeps sending at its period; every pair a mote measured is
reported once; a request for a position ends; the loss ratio counts lost
readings; a mote is created once.

## 2. Plan

The order is that of importance: the commands are what the testbed controls the
motes with, and the part where concurrency, loss and restarts meet; then what
the motes measure; then the connections in between.

| module | models | composes or refines | state |
|---|---|---|---|
| `CommandHandlers` | both mote handlers as functions | - | done |
| `Dissemination` | server, serial lines, radio, all motes | uses `CommandHandlers`; implements `CommandLog` | done |
| `CommandLog` | abstract: a log of commands every sender walks through in order | - | done |
| `CommandManager` | server threads and gateway sessions | uses `CommandHandlers` for the sinks | done |
| `NodeGeoloc` | the geolocation modules of all senders | - | done |
| `DataPath` | sequence numbers, sink, gateway threads, creation of motes, storage, loss ratio | - | done |
| `GatewayLink` | the gateway's WebSocket client and login: reconnection, several sessions, retries, the serial port behind | uses `CommandHandlers` for the sink | done |
| `NodeData` | the two timers of `data.c` and their queued events, set anew by `DATA_PERIOD` | - | done |

Each has a module of proofs: `HandlerProofs` (lemmas on the handlers, used by
the command modules), `DisseminationProofs` (order, refinement, repetition) and
on top of it `FloodProofs` (what holds when nothing is lost),
`CommandManagerProofs` (lock and numbering), `GatewayLinkProofs`,
`NodeGeolocProofs`, `NodeDataProofs`, `DataPathProofs`.

Left for whoever goes on: that `CommandManager`, with openings apart from
requests, implements the server steps of `Dissemination` (`SendCommand`,
`Rollover`, `GatewayConnect`); the bytes of a line, with the end that is missing.

## 3. The modules and the code

**`CommandHandlers`** translates `command_sink_check` and `command_sender_check`.
The text line `<version> <command> <argument>` is a record of its three tokens;
`NoArg` stands for a token `strtok()` does not find.  `U16` is the cut of
`atoi()` to `uint16_t`, `Int8` the wrap of an `int8_t` counter.  `SinkAccepts`,
`SinkAfter` and `SinkMulticasts` are the guard, the new state and the decision
to multicast of the sink; `SenderAccepts`, `Cleared`, `Counted`, `SenderAfter`
and `SenderForwards` those of a sender: compare the version (`<` on a sink,
`<=` on a sender), clear the counters when it is new, run, count, and forward if
the count is below `MAX_REPEAT`.

**`Dissemination`** puts the handlers into a network.  `scvn` is the server's
number, `serial[k]` the lines between server and sink, `outq[n]` the packets a
mote has queued in `csma.c`, `mote`, `sink` the handlers' state.  A line in
flight is its index in `log`, the history of lines sent, so that age and
version can be told apart.  `SendCommand`, `Rollover` and `GatewayConnect` are
the server's three ways to number; `SerialLine` is the sink's handler;
`Transmit(n, R)` sends the first packet of `n`, which exactly the senders in `R`
hear and handle; `LoseLine`, `RebootSink`, `RebootSender` are failures.  `done`
and `repeats` are history.  Four specifications select steps: `Spec` all;
`EpochSpec` no reset; `ApartSpec` all, but a reset is read when everything before
it has died out, and the next line when the reset has (`Apart`); `LosslessSpec`
the same without loss and reboots.  `Apart` speaks of the one sink that reads:
the runs that use it have one.

**`CommandLog`** is the promise: positions in a log that only grow, settings
that are the effect of the lines run.  A position may pass over lines (those
that were lost) and start again at 0 (a reboot), as the code does.
`DisseminationProperties` instantiates it with `pos <- done` and `set` the
senders' settings (`ImplementsLog`).  What a loss may cost is `MissedReset`: a
sender finds the server's next command obsolete only if a reset, sent after the
line it ran last, has not reached it.

**`CommandManager`** splits `sendCommand()`, `resetCommandVersionNumber()` and
`openConnection()` at every read and write of `commandVersionNumber`.  `Clear`
writes 65535 without the lock, `Lock` is the reentrant monitor, `pending` is the
command of the outer `sendCommand()` during its nested reset, `queue` the
sessions ever opened (`onClose()` removes none), `open` those still open.
`CalmSpec` lets a gateway connect only while no other thread is inside.

**`GatewayLink`** is the other end of those sessions.  `sleeping` and
`connecting` count the threads in `reconnect()` and `connect()` (main's, and one
for each `onClose()`, each "unauthorized" and each failed attempt), `opened` and
`attached` are the sessions before and after `addMessageHandler()`, `live` those
neither end knows to be dead, `auth` those in the server's queue, `denied` those
with an "unauthorized" under way, `wire` the lines under way.  `checker` is the
thread of `testLogin()`: `CheckLogin` finds the gateway logged out, `RetryLogin`
is the `login()` that succeeds, and `ErrorStatus` an answer that is not 200, which
`get()` reports as an exception and `login()` as a normal return, so that it ends
the retries without a login.  `Crash`, `Boot`, `Restart`, `Cut`, `Lose` are failures;
`OpenSerial` and `SerialEnds` the life of the serialdump process, which a
restarted gateway starts anew.  `missed`
(history) says that the gateway lost a message it had received: one that came
before the handler was there (`Drop`), or a line while no serialdump ran.
`Links`, `KeepsStream`, `InStep` and `Reachable` speak of this end;
`CommandManager` has the races of the numbering, which is one step here.

**`NodeGeoloc`** translates `geolocation.c`: `Put` and `Full` are
`geoloc_handler()` with its two buffers, `AfterReception` is
`handle_reception()`, `AfterCheck` and `AfterPress` are `geoloc_check()` with the
set `E` of timers found expired, and `StartModule`, `StopModule` what commands do
to it.  `owed[s][n]` counts the pairs heard and not yet reported (history).

**`NodeData`** translates `data.c` and the part of `etimer.c` and `timer.c` it
depends on.  Time passes in ticks (`Tick`) while the processor is idle.  `armed`
is the list of timers, `left` the time each has; `Poll` takes the expired ones off
the list and queues their events, `PeriodEvent` and `WaitEvent` are `data_check()`
on the first of them.  `SetDataPeriod` may come between any two of these steps:
Contiki handles packets before queued events, so the event of a timer can be
handled after the command that set the timer anew.  `etimer_reset()` then adds the
interval to the new start.  `silent` and `sent` are history: ticks without a
reading, readings since the last period event.

**`DataPath`** follows a reading: `Take` (`data_send()`, with the loss on the
radio), `HandleLine` (the gateway starts a thread), `Find`, `Insert`
(the two statements of `mergeSender()`, a unique address), `Store` (`persist()`),
`Fail` (the request times out).  `Loop` is the loop of `getLossRatio()` over the
stored readings, with a counter for each mote (`NewCount`, `Counted`,
`Distance`), and `LossCount` what the ratio is computed from.  `n`, the number of
the reading since the first boot, is history: what the ratio ought to count.

The modules `MC...` give the constants for TLC.  Definitions marked *Variant* in
a comment are plausible mistakes in the definition that follows them; no
specification uses them, and for each property of a passing run there is one
that breaks it.

## 4. The runs

Commands, mote side (`MCDissemination`):

| run | shows | instance |
|---|---|---|
| `dissemination_epoch` | with every kind of command, loss, a reboot, copies from two sides and buffers that overflow: each sender walks the log in order, multicasts a line at most twice (`MAX_REPEAT - 1`), repetition dies out; types | two sinks at the ends of a chain, `OutCap` 2, 2 lines |
| `dissemination_resets` | resets and wrapped versions, loss and a reboot, commands overlapping and resets apart: still in order, still at most two multicasts; a sender that finds the next command obsolete has missed a reset | chain, 5 lines, versions up to 4, 1 reboot |
| `dissemination_lossless` | without loss nobody skips a line it has a use for; in the end all have run the last one, have the same settings, with a TXPOWER without value among the commands, and are in step with the server, over resets; no mote fills its buffers | two routes of different length to the last sender, 6 lines, versions up to 4 |
| `reset_reorders` (violation) | a reset lets older copies in again: a sender goes back | two senders in range of each other, 3 lines |

Commands, server side (`MCCommandManager`):

| run | shows | instance |
|---|---|---|
| `manager_calm` | requests side by side, a gateway that comes back next to one that stays: no line refused, numbering in step, the lock excludes, every call returns; types | two requests, two sinks, three sessions, versions up to 3 |
| `manager_race` (violation) | an opening races a request: the unlocked write makes version 65536, read as 0 | two requests, two sessions |

The link between them (`MCGatewayLink`):

| run | shows | instance |
|---|---|---|
| `gateway_link` | the gateway always has a session or a thread that opens one, and only refusals multiply them; at rest it has its stream and its sink is in step; the stream comes back for good | two sessions, one refused, two crashes or restarts, four lines on a session, versions up to 3 |

Measuring (`MCNodeGeoloc`, `MCNodeData`, `MCDataPath`):

| run | shows | instance |
|---|---|---|
| `geoloc_pair` | no buffer overflows, no answer outlives its request, every pair reported once or still held, only beacons in the end, answers leave their buffer | two motes, buffers of three, a queue of two, two presses |
| `geoloc_button` (violation) | a request nobody answers never ends | two motes, one press |
| `node_data` | never silent for three periods since the last reading or command, at most three readings between period events, sends again and again; types | periods 1, 2 and 5, commands at every point |
| `data_loss` | the ratio is never negative; it counts exactly the missing readings over the wrap of the number, as long as they are stored in order; types | one sender, numbers up to 5, 6 readings, a reboot, all interleavings |
| `mote_race` (violation) | two first readings of a mote: one is lost | 2 readings |

**Bounds.**  `MaxLines` (2-6) leaves room for commands on each side of a reset and
for a second reset, by rollover or by a new gateway: every comparison in the
handlers is between two neighbours in the log, so that two commands and a reset
reach all of its outcomes.  `CvnMax` is 65535 where no rollover happens and 3 or 4
where it must: only its being the largest value
matters, and the assumption `CvnMax >= 2` is all the proofs use.  `OutCap` 8 is
the default of Contiki's `QUEUEBUF_NUM`; with 2, buffers overflow.  `MaxRepeat`
and `CounterMax` are the code's own (3 and 127).  `MaxReboots` 1: a reboot
restores a start state, a second one meets nothing new.  Topologies: all in
range, a chain (only repetition reaches the end), a diamond (two routes), two
sinks.  `DataLength` is 3 instead of 10 (2 with one press): a buffer fills, and
is sent half full.  `SeqMax` is 5 instead of 255 in `data_loss`, with the wrap to
half the range kept (1 to 5, then 3 to 5 again), so that the readings pass the
wrap with one of them lost; the other runs have the real 255.  `MaxReadings` and
`MaxPresses` bound what the sensors and the buttons do.  In `node_data` only the
history is cut off, at three periods; a period of 1 has no room between its
events, 5 is long enough for every order of two expiries and a command.  In
`gateway_link` a refused session is the only thing that adds a link, so
1 + `MaxRefused` sessions are enough for every thread to find one; `WireMax` 4
leaves room for a reset, the line after it and a rollover, and a command is only
sent when the lines of two more openings fit, so that the bound never keeps a
gateway from connecting; two crashes are one of the server and one of the
gateway, or the second while the first is being repaired.

`CHECK_DEADLOCK FALSE` is set where the bounds on lines, readings, requests and
sessions end a behaviour; the geolocation, timer and gateway runs never stop and check it.

## 5. Fairness

- `WF(\E R : Transmit(n, R))`: the CSMA layer sends what is queued when its timer
  fires.  Nothing is assumed of who hears it: `R` may be empty every time.
- `WF(SerialLine(k))`: the sink's process is polled for each line of its port.
- `WF(Step(t))` for each server thread: the JVM schedules every thread.  For
  `Enter` this is stronger than what a Java monitor guarantees, but here it is
  enough that the threads are finitely many and each takes the lock finitely
  often, so that it is free for good in the end.
- `NodeGeoloc`: each timer's expiry is handled (weak fairness of `Check` with the
  timer in `E`), queued packets are sent.  Pressing a button and hearing a packet
  are never fair, nor is starting a module: what is promised of a buffer is
  promised while the module runs.
- `NodeData`: `WF(Run)`: time passes, and the main loop of Contiki handles what is
  queued.  Commands are not fair, and `KeepsSending` assumes that they stop.
- `GatewayLink`: `WF` of each thread's and each session's own step: a sleep ends,
  an attempt to connect fails or succeeds, a handler is attached, what has arrived
  and the close after it are handled, the login is watched.  Crashes, restarts,
  cuts, error statuses and the boot of the server are not fair: `Reachable` assumes a
  server that stays up and answers, and connections that hold, from some time on.
- `ApartSpec`, `LosslessSpec` and all of `DataPath` have none: only safety is
  checked.

## 6. What is proved, and what the runs found

The proofs hold for all constants that satisfy the named assumptions
(`HandlersAssumption`, `DisseminationAssumption`, `ManagerAssumption`,
`LinkAssumption`, `GeolocAssumption`, `NodeDataAssumption`, `DataPathAssumption`),
so for any number of motes, sessions and threads, any topology, buffer size and
period.

- `TypeCorrect`: `Dissemination!Spec => []TypeOK`.  Inductive as it stands; the
  work is that indices stay in the log while the log grows (`GrowType`), that
  `U16` and `Int8` stay in range and that `Enqueue` respects the capacity.
- `EpochInOrder`, `EpochImplementsLog`: between two resets a sender never goes
  back, and the network implements the log.  `InOrder` alone is not inductive: a
  version says something about the age of a line only if log indices and
  versions agree.  `EpochInv` adds `Numbered` (the log holds no reset,
  its versions grow strictly and stay below the server's next) and `Current` (a
  sender's version is that of the line it ran last, 0 since boot).
  `EpochAccepts` then turns the
  comparison of versions into one of indices, and each step of the network is a
  step of the log or leaves it alone.
- `ApartImplementsLog`, `ApartInOrder`: the same over resets, for one sink
  (`OneSink`: a second sink could still hold lines from before the reset) and
  resets that do not overlap other lines.  Versions start again at every reset, so
  `ApartInv` says of the log that they grow from one reset to the next (`Sorted`),
  and of a sender's version that it is 0 after a reset (`Ran`); that what the sink
  has yet to read comes after all that is on the air or was run (`Unread`); and
  that no reset lies between two lines on the air, nor between one of them and a
  later line that was run (`OneEpoch`).  A line older than the one a sender ran
  last therefore belongs to the same epoch, and its version is too small
  (`ApartAccepts`).  `reset_reorders` shows what happens without `OneEpoch`.
- `BehindOnlyByReset`: `MissedReset` in every behaviour of `Spec`, for any sinks and
  topology and whatever is lost or overlaps.  Versions grow from one reset to the
  next and stay below the server's next number (`Sorted`, over all of the server's
  steps), and a sender's version is that of the line it ran last (`Ran`); so if it is
  not below the next number, a reset was sent since (`BehindReset`).
- `EpochRepeatTwice`, `ApartRepeatTwice`: a sender multicasts a command fewer than
  `MAX_REPEAT` times, which is once less than the comment on the macro says: the code
  compares the counter after it was incremented.  The counters are per kind of command, not per command:
  `Repeating` says that the counter of the kind a sender ran last counts the
  multicasts of that very line and that later lines have none, and `Forward` that
  what it could hear now is not older.  A reset clears the other counters, but not
  its own, since version 65535 leaves it (`Ends`: only resets carry that version).
  Both theorems assume `[]NoWrap`: an `int8_t` counter becomes negative after 127
  receptions of one command, and then the sender does repeat it again.  A mote
  hears each neighbour at most `MAX_REPEAT - 1` times, so more than sixty
  neighbours are needed, or that many resets in a row (a reset does not clear its
  own counter).
- `LosslessNoSkip`, `LosslessInformed`, `LosslessInStep`, `LosslessAgreement`
  (`FloodProofs`): without loss the repetition floods the
  network, for every topology.  They assume one sink (`OneSink`), that every sender
  can be reached from it (`Reached`, which says that a set of motes with the sink
  that is closed under being heard holds all senders), that no mote runs out of
  buffers (`[]Room`: `csma.c` drops what finds none, and then packets are lost), and
  that a command is repeated at all (`MaxRepeat >= 2`); all four hold in
  `dissemination_lossless`, which checks `Room` as well.  The argument is `FloodInv`, which says of
  the lines read by the sink (`r` of them, the last reset being line `e`): each
  queue is in the order of the log and holds lines of this epoch, a sender's only
  such as it has run (`Queued`); *spread*: what a mote has run, everyone in its
  range has run as well, unless the mote is still to multicast it (`Spread`); a
  reset spreads to those who have a use for it (`Resets`, `Fresh`, `Coming`), for
  which the reset counter of a sender with a version must be 0 (`Unrepeated`); and
  before the last reset everyone had run what there was (`Past`).  `Spread` is kept
  because a sender that hears a line for the first time has a version below it
  (`VersionBefore`), so accepts it, finds its counter cleared and repeats it
  (`FirstForward`).  With the air empty `Spread` carries a line along every path
  from the sink (`Arrived`), which is what the sink's next reset waits for
  (`StillAir`).  Nobody skips a line, because a queue is sent in the order of the
  log.  For the settings, `SettingsInv` has a sequence of settings along the log
  (`Along`), on which a sender is at the line it ran last: a line that runs twice
  has the effect it had once (`EffectAgain`), and what is skipped has none
  (`Bare`); the radio power of the sink is the one reached after the lines it has read
  (`Follows`).  Equal versions are promised for a log in which every command has its
  argument (`FullLog`): one without is not repeated, so only the sink's neighbours
  learn its version.
- `RoomEnough`: when `OutCap > MaxLines * (MaxRepeat - 1)` no queue is ever full, with
  any loss, one sink and resets apart, so that `[]Room` can be met whatever the
  topology.  A sender has queued no more packets than the multicasts counted in
  `repeats` (`Copies`), which `ApartRepeatTwice` bounds, and a sink no more than the
  lines it has read (`Held`).  The bound is coarse: it takes all lines to be on the air
  at once.  In `dissemination_lossless` Contiki's 8 buffers, fewer than it asks for, are
  enough for 6 lines.
- `ManagerTypeCorrect`, `ManagerExclusive`: of the server threads at most one is
  between check and increment, over nested resets, although openings write the
  number without the lock.  `ManagerInv` says which thread has a command to send
  at which place (`HasJob`) and that whoever is inside holds the lock (`Holds`).
- `GeolocTypeCorrect`, `GeolocConserved`, `GeolocAnswersKept`: `GeolocInv` is the
  three together; each is proved for one mote's reception, check, press and
  module switch, then for all motes at once.
- `CalmNoneRefused`, `CalmInStep`: while connections open one
  at a time no sink ever refuses a line, and the next number is one all connected
  sinks accept.  `CalmInv` adds to `ManagerInv`: an opening thread is alone
  (`Alone`), what each thread works on (`Working`), one open session a sink
  (`Sessions`), every line under way is newer than what its sink hears before it
  (`Sinking`), how the number stands to the lines sent, thread by thread
  (`Numbered`), and that it is ahead of all of them when nobody is between a line
  and its increment (`Steady`).  Without the last three the step from `read` to
  `write` cannot be told from a second use of the same number.
- `LinksHold`, `StreamKept`, `NumbersInStep` (`GatewayLinkProofs`).  `LinksInv`
  counts links and refusals still under way together.  `StreamInv` says that a link
  is never lost without a follow-up: something was missed, a thread is at work, or
  there is a session that will bring one back or is the stream.  For the numbers,
  `SentInv` keeps lines to authorised sessions and the last version to resets,
  and `NumberInv` says that each session's lines end below the server's number, and
  that a sink at or above that number has a reset coming to it, or something else
  under way.
- `DataPunctual`, `DataAtMostThree` (`NodeDataProofs`).  `DataInv` bounds the queue
  (`QueueInv`: at most two events, one of them of the wait timer), says what each timer has left
  according to whether its event is queued (`TimerInv`), and from these how long the
  silence can still last (`SilentInv`) and how many readings are still to come in
  this period (`SentInv`).
- `PathTypeCorrect`, `GapsExact` (`DataPathProofs`): the number of a reading and its
  place among the sender's readings agree modulo half the range, on the way and in
  the database, as long as no mote reboots (`CountInv`); so the distance the server
  computes from two numbers is the number of readings between them.  The lemmas on
  remainders do this for any even range.
- `RatioNeverNegative`, `RatioExact`: what the loop of `getLossRatio()` computes from
  the stored readings, by induction over its rounds.  The induction theorems of
  the library take an operator as a parameter, which the provers cannot
  instantiate, so induction is stated for sets (`NatSetInduction`, from the finiteness of
  an initial segment: an injection of it into itself is onto), and `Iteration`
  derives from it that the recursive function of the loop exists.  Per round, a
  mote's count of received readings grows by one and its expected count by at least one; and if the
  readings were stored in order the expected count is the distance of the last
  one to the first (`LoopCounts`, with `GapsExact` for one step).

Only model-checked: everything under fairness (`Settles`, `Returns`, `Reachable`,
`KeepsSending`, `OnlyBeacons`, `AnswersLeave`), since the provers do not handle
`ENABLED` and liveness; and the four violations, which are about single
behaviours.  Every safety property of a passing run is a theorem, under the
hypotheses above.

The violations, each with its line and the text it contradicts in
`PROJECT.json` under `findings`:

- *reset_reorders*: setting the version back to 0 while copies are in flight
  makes them new again.  With resets apart from other lines (`ApartSpec`) this
  does not happen.
- *manager_race*: `resetCommandVersionNumber()` is not synchronized.  The sink
  drops the reset that goes out as 65536, keeps 65535 as its version, and finds
  every command obsolete until it reboots.
- *geoloc_button*: a request without answers, or with exactly a buffer full of
  them, is never closed, and the button is dead.
- *mote_race*: `mergeSender()` looks for the mote and then inserts it.  One call is one
  EJB method, and so one transaction, but nothing is locked between its two statements:
  the transactions of two requests both find nothing, and the unique key fails the second.

Seen while reading and modelling, without a run of its own:

- `MAX_REPEAT` is 3, "the number of times the message is repeated by a sender"
  (`sender_command.c:7`), but the counter is compared with it after the increment
  (`sender_command.c:72` and in the four other branches): of the copies it hears a
  sender multicasts the first two.  `RepeatTwice` states what the code does, fewer than
  `MAX_REPEAT`; two senders in range of each other never reach three.  Three would be
  `<=`, and would break it.
- Closed sessions are counted as gateways, so a command can be answered
  "forwarded" with nobody connected (`apps/api/WebSocket.java:162`).
- The second of two resets with no command in between is not repeated: a reset
  does not clear its own counter (`sender_command.c:53`).  Senders in range of the
  sink hear it, those behind them have version 0 already (`Useless`).
- With copies of a reset and of an older command in flight together a line is
  repeated more than `MAX_REPEAT` times.
- A gateway can hold several sessions, and then writes each line several times.  A
  second copy of a command is obsolete for the sink, but not one that comes after
  the second copy of a reset: that is run again.
- The handler of a session is added after the session is open
  (`gateway/.../WebSocket.java:89`): a reset that arrives before is lost, and the
  sink may find the next commands obsolete.  An "unauthorized" lost this way leaves
  the gateway without a stream.
- When serialdump ends nothing opens the port again (`Gateway.java:90`): later
  commands are numbered and dropped.
- A DATA_PERIOD handled between the expiry of the period timer and its event costs
  nearly a period: `etimer_reset()` adds to the start the command has set.
- The mote's number wraps to 128 "to identify restarts" (`data.c:172`), but the loss
  ratio takes it modulo 128 first (`DataDAO.java:272`): a reboot is counted as up to 127
  losses with every reading stored, and a reading that was overtaken as 127
  (`Gateway.java:181` starts a thread for each).

## 7. Abstractions, and what is not modelled

- Lines are records.  Text is left out, so are the missing NUL at the end of a
  UDP payload and the copies of a line that an early return does not free; both
  are listed as hazards without a property.
- No multicast engine is configured, so a multicast is a one-hop broadcast.
  `csma.c` retries, collisions and back-off are in the choice of `R` and in the
  order of transmissions; its queue is the only one of the stack that is kept,
  and other traffic in it only makes it fuller, which `OutCap` stands for.
- The administrator's orders are those the command page offers, which has no
  `RESET_CVN`.
- In `Dissemination` the server's steps are atomic (`CommandManager` has the
  threads) and a gateway's two opening lines are written together.  In
  `CommandManager` sinks do not reboot and a gateway opens a session only while
  none of its own is open; `GatewayLink` has gateways that hold several.
- `GatewayLink`: one gateway, started with `-login` and `-command`; numbering is one
  step.  A broken connection is noticed by both ends in the end: a connection that
  is dead for one end only, for ever, is not modelled (the code has no heartbeat).
  A session's messages
  arrive in order and before its close.  The cookie lives as long as the server.
- `NodeData`: events are handled within a tick, timers do not wrap, and a period is
  not 0 (the remainder by 0 depends on the processor).
- `NodeGeoloc`: timers are not clocks; whether one has expired is a choice,
  except for the request's, which is not set again.  Signal strength is left out.
  A mote does not reboot.  The branch of `geoloc_check()` for UDP port 4444 is
  dead: nothing sends to that port.
- `DataPath`: from a sender to the gateway readings keep their order (one radio
  route, one serial line); the experiment and time filters of the ratio, the
  live stream and the values of a reading are left out.

Not modelled for good: the geolocation algorithms and their calibration
(floating-point geometry, around it a flag per service); the mote programmer (a
command-line tool of its own; the actions of `Gateway.java` that would use it, or
close and open the serial port again, are created by nobody); accounts (one
attribute of an HTTP session, set and read within a request); monitoring rules and
alerts (their call is commented out in `DataResource.add`); the web pages but for
the orders they offer; the reading of lines by `DataStream` and `GeolocStream`
(conversions); the Contiki system and RPL routing (vendored, and nearly all of the
repository's lines; the parts a model relies on are named in the map);
and the database itself, used through its unique keys and
transactions.
