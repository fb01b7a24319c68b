# rtk-monitor in TLA+

A verification development for rtk-monitor, the in-vehicle monitor of an RTK
positioning chain. It models the parts of the program whose correctness depends
on the order of events (callbacks, tasks, ticks, restarts, store failures, lost
connections, chunks of bytes, full disks), checks them with TLC on small instances and proves
the safety properties with TLAPS for every value of the parameters.

Paths below are relative to the repository: `rtk_monitor/` stands for
`src/rtk_monitor/`.

Contents

1. Inventory: the system and its components
2. The modules and how they correspond to the code
3. The runs and what they show
4. Disagreements between code and documents
5. What is proved
6. Bounds, fairness, abstractions
7. Not modelled

## 1. Inventory

rtk-monitor is one Python process on one asyncio event loop, plus a web page.
Everything on the server is single-threaded: state changes hands only at an
`await`, so interleavings happen between callbacks, ticks and tasks, never
inside a synchronous function. The exceptions are faults: a store call raises,
a task is cancelled, the process dies.

```
 base/NTRIP --TCP--> RtcmFramer --> _on_corr --+
 610 NMEA   --TCP--> LineFramer --> _on_gpchc  |     +--> rules --> EventMachine
 610 CAN    --CAN--> Assembler  --> _on_can  --+-> tick (1 Hz)       |      |
 rtkrcv     --TCP--> lines      --> _on_rtksol |                events.db  Broadcaster
 rtkrcv .stat file  -->  _stat_reader  --------+                     |      |
                                                       replay.py ----+-> /ws session
                                                                            |
                                                                     web page (store.js)
```

| component | source | state it keeps | operations | what is hard | correct means |
|---|---|---|---|---|---|
| Event machine and event log | `rtk_monitor/diagnosis/events.py`, `storage/events.py` | `_open_id`, `_open_verdict`, `_ok_since`; the `events` table | `update`, `_close`, `record`, `close_event`, `prune`, the transition callback | each store call commits on its own; restarts forget the open event; retention runs in between; every time is the wall clock | open rows are exactly the tracked event plus what a fault cut loose; live messages pair up and are backed by rows; the hysteresis is exact |
| WebSocket session | `rtk_monitor/api.py` (`ws`), `broadcast.py` | `live_task`, `replay_task`, the subscriber queue | commands `replay` and `live`, sender tasks, disconnect, drop-oldest | cancellation is requested now and delivered later; a replay that ends, fails or is replaced; a reader that is slow | one sender at a time, always reachable, never missing; live messages in order |
| Web page session state | `web/js/store.js`, `ws.js`, `replaybar.js`, `eventlist.js` | `replaying`, trails, series, event list | clicks, messages, reconnection | clicks cross replay ends and errors in flight | page and server agree once nothing is under way; no replay points on the live map |
| Diagnosis tick and rules | `rtk_monitor/main.py` (`_diagnosis_tick`, `_on_*`), `diagnosis/rules.py` | newest solution, corrections time, divergence timer, satellites, slips | stream callbacks, the tick, 12 rules | everything the tick reads may be stale; ticks are late or fail; restarts keep the epoch store | no verdict outlives its evidence; divergence is blamed exactly after the hold |
| Stream collectors | `rtk_monitor/collectors/tcp.py`, `can.py` | link state, backoff, timeout counts | connect, read, idle, reopen, peers of a listener | refused connections, silence, a half-failed reopen, a crash after a reopen, a peer accepted while the listener is cancelled | link events are true and alternate, no collector ever stops trying |
| Supervision and lifecycle | `rtk_monitor/main.py` (`_supervise`, `run_forever`) | one task per route | restart a route, cancel them all | a route that raises in any state, a second cancel while the first is being handled | every route runs again; the end of the App ends |
| rtkrcv manager | `rtk_monitor/solver/rtkrcv.py` | the child process, restart delay | spawn, watch, terminate, kill | death at once or after long life; no reaction to SIGTERM | reports are true, retries are paced, none is left behind |
| Solver status reader | `rtk_monitor/main.py` (`_stat_reader`), `parsers/rtkstat.py` | file position, epoch under assembly, slip counters | open the newest `.stat`, feed, count | a new file in mid-epoch, half-written lines, restarts of either side | a slip counts once at most, the sky shown is one epoch |
| Base station monitor | `rtk_monitor/diagnosis/base_station.py`, `storage/epochs.py` | baseline, warm-up samples | 1005/1006 update, persist, `base_reset` | restart in mid-warm-up, a corrupt row, retention of the history `base_reset` needs | the baseline is the one learned or reset to, and survives |
| Stream framing and raw logs | `rtk_monitor/parsers/rtcm.py`, `gpchc.py`, `storage/rawlog.py`, `canlog.py` | byte buffers, open files | feed, rotate | frames split anywhere, false sync, an exception in mid-chunk; a crash or a full disk between data and index | what comes out does not depend on the chunks; the index points at what is there |
| CAN cycle assembler | `rtk_monitor/parsers/cgi610_can.py` | the cycle under assembly | one frame | lost and short frames, a store that raises | cycles are whole, one row a second, positions keep flowing |
| Replay generator | `rtk_monitor/replay.py` | two indices while it runs | merge of positions, events, carried-forward status | order of equal times, carried-forward state | output is the sorted merge |
| Local re-server | `rtk_monitor/collectors/reserve.py` | writers | fan-out | a client that stops reading | it is cut off, the others miss nothing |
| Retention | `rtk_monitor/storage/cleanup.py`, `main.py` (`_cleanup_loop`), `prune` of both stores | files, rows | hourly clean-up | one step failing skips the rest; events stay open for longer than rows are kept | no directory of today goes, the oldest goes first, everything too old does; no row is lost that must stay, an open event's least of all |
| HTTP endpoints, epoch store, reports, UDP publisher, parsers and geodesy, configuration and tiles, page rendering, bench tools | see PROJECT.json | (almost) none | reads, formatting, arithmetic | little that depends on order | unit tests compare their outputs |

PROJECT.json, "components", has the same list with sources and status; its
"hazards" name, line by line, what in this code is hard to test, and which
property covers it.

## 2. The modules

| module | models | composed with |
|---|---|---|
| `IncidentLog` | abstract: what the event log promises its readers | refined by `EventMachine` |
| `EventMachine` | `EventMachine.update`, the event table, retention, the live event stream, faults | |
| `EventMachine_proofs` | invariants, refinement | `EventMachine` |
| `WsServer` | the server's side of one `/ws` session | |
| `WsAnyClient` | that session against an arbitrary client | `WsServer` |
| `WsServer_proofs` | what a step of the session preserves, whoever the client is | `WsServer` |
| `WsAnyClient_proofs` | types, sender discipline, order of the live messages | `WsAnyClient`, `WsServer_proofs` |
| `WebStore` | `store.js`: replay mode and trails | |
| `WsSession` | the page and the session, joined by two channels | `WsServer`, `WebStore` |
| `WsSession_proofs` | clean trails, last command, agreement | `WsSession`, `WsServer_proofs` |
| `Diagnosis` | stream callbacks, the tick, the rule chain | |
| `Diagnosis_proofs` | freshness, the divergence hold, evidence for an outage | `Diagnosis` |
| `Picks` | finite sets of numbers as sequences, what they pick, and places by their rank | |
| `Reports` | what a route has said about its link: the last two reports, and whether it was torn down in between | |
| `TcpLink` | `TcpCollector` as client and as listener, under `_supervise` | `Reports` |
| `CanLink` | `CanCollector` with its reopen watchdog, under `_supervise` | `Reports` |
| `Solver` | `RtkrcvManager` under `_supervise`, and the end of the App | `Reports` |
| `Framing` | `RtcmFramer`, `LineFramer` and the callbacks that log what they return | `Picks` |
| `CanCycle` | `Cgi610Assembler` in `_on_can` | |
| `StatTail` | `_stat_reader`, `StatEpochAccumulator`, `SlipWindow` | `Picks` |
| `Replay` | `_replay_messages` over the stores' `query` | `Picks` |
| `BaseStation` | `BaseStationMonitor`, `base_reset`, the tables behind them | `Picks` |
| `Reserver` | `LocalReserver` | |
| `RawLog` | `RawLogWriter`, `CandumpWriter` | |
| `Retention` | `cleanup_logs`, the pruning of both databases and `_cleanup_loop` | |
| `Routes` | the tasks `run_forever` starts, side by side | the eleven above |
| `Links_proofs` | the invariants of what comes in: links and their pace, cycles, framing, the solver's status | `TcpLink`, `CanLink`, `Solver`, `CanCycle`, `Framing`, `StatTail` |
| `Stores_proofs` | the invariants of what is kept and goes out: fan-out, raw logs, retention, base station, replay | `Reserver`, `RawLog`, `Retention`, `BaseStation`, `Replay` |
| `Routes_proofs` | the theorems about the routes | `Routes`, `Links_proofs`, `Stores_proofs` |
| `MC*` | the instances for TLC | |

Operators called "mutant of X" are plausible bugs of X. Nothing uses them; each
shows that a property would notice that bug (PROJECT.json, "mutants").

### EventMachine

| TLA+ | code |
|---|---|
| `openId`, `openCode`, `okSince` | `_open_id`, `_open_verdict.code`, `_ok_since` |
| `rows`, `nextId` | the `events` table and its AUTOINCREMENT |
| `Update` | one call of `update` up to its first store call: the branches `SameCondition`, `OtherCondition`, `NewCondition`, `QuietVerdict` |
| `BeginClose`, `StoreClose`, `PublishClose` | `_close`: reset, `close_event`, callback |
| `Record`, `PublishOpen` | `record` and the callback for the new event |
| `StoreCloseRaises`, `RecordRaises` | the store call raises, with or without its effect |
| `Crash` | the process dies at any of these points; the table survives |
| `ClockSetBack` | NTP moves the wall clock |
| `LinkEvent`, `Prune` | the table's other writers |
| `stream` | what `_on_diagnosis_transition` has published |

An update is split only so that faults can fall between its store calls; no
other action is enabled in between, as in the code. `orphans`, `lastActive`,
`lull` (the first and the last quiet verdict since an active one) and `steady` are
history, which no action reads. The severity levels are abstracted: a verdict is `Quiet` (ok or
info) or one of `Codes`. An event whose code comes back quietly stays open; the
peak metrics it collects are not modelled.

`IncidentLog` states the promise: one current incident at most, finished at
most once, never altered otherwise, never lost while unfinished, numbers never
reused. `ImplementsLog` is the refinement: a diagnosis row is an incident, and
the event `_close` has taken over remains current until the store knows its end.

### WsServer, WsAnyClient

An action is what one coroutine does between two awaits. `tasks` holds every
sender task that is not over; `liveTask` and `replayTask` are the handler's two
references. `Task.cancel()` sets `cancelled`; the task learns of it when the
loop runs it next (`CancelDelivered`), and asyncio runs it before the first step
of any task created later, which `Scheduled` states. The handler may process
further commands in between. A cancelled `send_json` may or may not have
reached the transport. `run_replay`'s last line (`FallBack`) starts live after an
end and after an error but not after a cancellation. `replay.py` is abstracted to
the number of messages before `replay_end`, and whether it raises. `Enqueue` is
`Broadcaster.publish` for one subscriber: subscribers share nothing, so one is
enough. `WsAnyClient` lets the client send any command at any time, read or not,
disconnect and come back. Its commands include one that is no JSON, or JSON but no
object: `receive_json` or `cmd.get` raises out of the handler, past its `finally`
block, and the connection is closed (`HandleBroken`). The web page sends none.

### WebStore, WsSession

`WebStore` has one operator per branch of `applyMessage` and the two functions
the buttons call. A point is only its source (live, or which replay). `WsSession`
adds the buttons with their enabling conditions (the start button is disabled
during a replay, a click on an event is not), and the reconnect of `ws.js`.
`asked` numbers the replays the user asks for; the server copies the number into
its messages so that a property can tell replays apart. The page cannot: it
never looks at the number.

### Diagnosis

| TLA+ | code (`main.py` unless named) |
|---|---|
| `Corrections` | `_on_corr` |
| `Solution` | `_on_rtksol` |
| `CanCycle(c, stored)` | `_on_can` once a second; `stored = FALSE`: the store raised, the second is spent |
| `SatStats`, `Slip` | `_stat_reader`, `SlipWindow.feed`; `hits` counts the window's slips by their time |
| `FreshSol`, `FreshCan`, `Apart`, `DivSince`, `Recent` | the first half of `_diagnosis_tick` |
| `Matches`, `Chain`, `Diagnose` | `rules.diagnose`: which rules match, and the first of them wins |
| `Tick` | `_diagnosis_tick` up to the verdict |
| `Restart` | a new process: memory gone, the epoch store kept |

Comparisons with configured thresholds are Boolean fields of the datum; times
stay numbers because freshness, pairing, the hold and the slip window are about
them. `lastSol`, `lastLate` and `lastTogether` are history. A tick that raises
before its verdict (the epoch store) is a tick that did not happen: `Passes` may
let `MaxGap` seconds go by between two ticks.

### Routes and its parts

The tasks of `run_forever` share the event loop and the event table, to which
they only append; no route reads what another has written there, and none waits
for another. Their steps commute, so a behaviour of all of them is a behaviour of each, and
`Routes` lets one route, chosen at the start, move while the others rest. A
property of one route therefore costs the states of that route and not the product
of all. Where routes do meet, they meet inside one module: the tick and the
streams in `Diagnosis`, cancellation and the manager in `Solver`, the base
station, its reset and retention in `BaseStation`.

| module | TLA+ | code |
|---|---|---|
| `TcpLink` | `TcpConnect`, `TcpLost`, `TcpRefused`, `GoesDown`, `TcpWake` | a round of `_run_client` with `_pump` |
| | `LsnAccept`, `LsnServe`, `LsnFinish`, `LsnCancel` | `_run_server` and its handler tasks; a handler that is accepted and has not run is in nobody's list yet |
| | `TcpCrash`, `TcpRestart` (and `Can-`, `Sol-`, `Lsn-`) | `_supervise`: the exception nobody foresaw, and the same object run again |
| `CanLink` | `CanFrame`, `CanTimeout`, `CanReopens`, `CanReopenFails` | the four ways through `run`'s loop; `canBus` is the local `bus`, `canIsFirst` whether it is `self._bus` |
| `Solver` | `SolStart` .. `SolWake`, `Emit`, `UpdateDelay` | `run`, `_emit`, `_update_delay` |
| | `SolCancelled`, `SolKills`, `SolReleased` | the `CancelledError` at whichever await the task is in, and its handler |
| | `AppCancel`, `AppUnwinds`, `AppTearsDown`, `AppStops` | Ctrl-C cancels `run_forever` and, through `gather`, its tasks; `run_forever` cancels them once more; `asyncio.run` cancels what is left and waits |
| `Framing` | `Scan` | the loop of `RtcmFramer.feed` on a wire of which each byte says whether a frame may begin there, how long it would be, and whether its checksum is right |
| | `OnRtcm`, `Logged`, `OnSol` | `_on_corr`, `_on_obs`, `_on_sol` for a chunk of any length |
| `CanCycle` | `CycHead`, `CycFrame`, `Flush`, `Store` | `feed` for a 0x320 and for the others, `_flush`, the rest of `_on_can` |
| `StatTail` | `StatPoll`, `Fed`, `StatCount` | one iteration of `_stat_reader`; `feed` of the accumulator and of the slip window; `count` |
| | `statPos`, `LastNewline`, `WholeFrom` | `fh.tell()` in halves of a line; `seek(pos)` when a line does not end in a newline; what is whole from a position on |
| | `StatRestart` | the monitor starts again beside rtkrcv's file |
| `Replay` | `RepStart`, `RepFlush`, `RepStatus`, `RepTail` | the generator up to its next `yield` |
| | `Sorted`, `StableSort` | `ORDER BY t`, and Python's stable sort: the n-th message is the one with n - 1 ahead of it |
| `BaseStation` | `BaseFeed`, `SetBaseline`, `BaseDoReset`, `BasePrune`, `BaseRestart` | `feed`, `_set_baseline`, `base_reset` with `reset`, `EpochStore.prune`, `__init__` |
| | `AddBaseFails`, `SetBaseline(p, samples, TRUE)` | `add_base` and `kv_set` raise, before the row is written or in the commit, which a later one makes good |
| `Reserver` | `ResCome`, `ResLeave`, `ResBroadcast` | `_on_client`, `broadcast` |
| `RawLog` | `LogAppend`, `LogAppendBreaks`, `LogRotate` | `append` with each way its writes and flushes may fail, `_rotate` with `close` |
| | `LogCrash` | the process dies, between two flushes of one append too |
| `Retention` | `RetRound`, `Deletes`, `Pruned` | a round of `_cleanup_loop`; the loop of `cleanup_logs`, stated as the set it deletes; `prune` of either store, which keeps open events |
| | `RetRoundFails` | a round that raises: in `cleanup_logs`, or with it done in the pruning of the epochs or of the events |
| | `RetWrites`, `RetRecords`, `RetCloses` | logs and epochs, `record`, `close_event`: what there is to prune |

rtkrcv, the peers, the CAN bus, the disk, Python's file objects and asyncio's
transports are external: PROJECT.json marks the actions that stand for them.

What the `Told` history holds are the reports, not the rows: `_on_event` swallows
a failing store (main.py:309-313), so a row may be missing.

## 3. The runs

| run | module, cfg | question | checks |
|---|---|---|---|
| `event_log` | `MCEventMachine` | is the log right under restarts, failing stores, retention and a clock that may be set back? | `TypeOK`, `OpenRowsAccounted`, `ClosesMatchOpens`, `StreamBacked`, `KeysUnique`, `NoOverlap`, `NotClosedEarly`, `ImplementsLog`, `ClosedOnTime` |
| `event_prune` | `MCEventMachine_prune` | does retention keep active events only? **violated** | `PruneLeavesOnlyActive` |
| `ws_any_client` | `MCWsAnyClient` | does any order of commands, ends, failures and disconnects break the session? does it get back to live, and clean up? | `ServerTypeOK`, `SingleSender`, `SendersReachable`, `AlwaysASender`, `BacklogIsNewest`, `LiveInOrder`, `LiveResumes`, `SessionCleansUp` |
| `ws_page` | `MCWsSession` | page and session, replays that end or fail, one lost connection: is the map clean, and do the two agree in the end? | `TypeOK`, `TrailClean`, `LastCommandWins`, `SettledAgree`, `ReplayModeEnds` |
| `ws_page_error` | `MCWsSession_error` | is the map clean after a replay that fails? **violated** | `TrailCleanWhenLive` |
| `ws_page_end` | `MCWsSession_end` | is the end of the replay under way ever dropped? **violated** | `CurrentEndSeen` |
| `diagnosis_hold` | `MCDiagnosis` | freshness and the divergence hold with late ticks, failed stores, a restart | `TypeOK`, `NoStaleFix`, `DivergenceHeld`, `DivergenceNoticed` |
| `diagnosis_evidence` | `MCDiagnosis_rules` | every rule with every kind of input: is the corrections link ever blamed on stale evidence? | `OutageEvidence` |
| `diagnosis_frozen` | `MCDiagnosis_frozen` | is a frozen solver reported as no solution? **violated** | `FrozenSolverNoticed` |
| `routes` | `MCRoutes` | is what each route reports, frames, stores, replays and keeps right under its faults, does collection always resume, and does the end of the App end? | `TypeOK`, `LinkReportsHonest`, `RetriesPaced`, `FramesAsSent`, `CyclesWhole`, `StatOnce`, `ReplayMerges`, `BaselineHonest`, `FanOutWhole`, `IndexTrue`, `RetentionKept`, `CollectionNeverStops`, `ShutdownEnds` |
| `shutdown` | `Solver_shutdown` | is a solver that was signalled gone when the App has stopped? **violated** | `NothingLeftBehind` |
| `rtcm_short_frame` | `MCFraming_short` | does every message come out when frames may be too short for a type? **violated** | `MessagesCome` |

What the passing runs show:

* The event log. Nothing `update` does leaves two events open, and neither a
  failing `close_event` nor a crash makes the live stream pair a close with the
  wrong opening or announce what the table does not hold. `update` closes an
  event at the first quiet verdict `Hyst` after the first one, never before
  (`ClosedOnTime`, `NotClosedEarly`, measured with histories of the verdicts and not
  with `_ok_since`), however the condition flaps. The key the
  web client drops duplicates by (time, action, code) is unique while the clock
  moves forward, the case where one update closes and opens included. Once the
  clock has been set back (`steady` is FALSE) the accounting, the pairing, the
  refinement and "on time" still hold; uniqueness, non-overlap, the backing of
  messages and "not early" depend on the clock and are not claimed.
* The session. Two senders never race for the queue, although a cancelled one
  lingers while the handler goes on; no command order leaves the client
  without a sender; live messages may be lost (drop-oldest, cancellation) but
  never reordered or repeated.
* The page. A replay end, a click and a cancellation may cross in flight; when
  everything has settled, page and server agree, and replay mode always ends, as
  long as the connection holds. On the live map there is no replay point, unless
  an error has ended the replay (`failed`).
* The diagnosis. Verdicts about a solution need one younger than `sol_stale_s`;
  `device_divergence` needs more than `divergence_hold_s` of divergence at every
  tick, and then cannot be missed by more than one gap between ticks; a dead CAN
  feed left in the database does not keep `corr_outage` alive.
* The links. "connected" and "disconnected" are the truth about the link and alternate
  through refusals, silence, spawn failures, crashes and restarts; only a
  crash, or a bus reopened without a frame since, lets a report come twice.
  A source, bus or solver that stays available is read again in the end
  (`CollectionNeverStops`), a CAN route included that crashed after its watchdog had
  replaced the bus and restarts from a bus that is closed.
* Framing. For every wire of six bytes with up to three frame starts, good and
  bad, a bad one overlapping others or not, and every way to cut it: the good frames come out, once and
  in order; the buffer never holds more than a frame. A partial frame kept
  across a reconnect is such a wire: it may delay what follows, and loses
  no good frame.
* The replay. The lazy merge with its carried indices sends exactly what
  materialising and sorting everything would have sent.
* The stores. The index of a raw log is true through crashes and full disks;
  retention deletes no more log directories than it must and none of today. Of the
  rows it never takes one of an open event, however old, nor one that is not yet past
  `db_retention_days`, and what was past it in the last round that did not raise is
  gone, through rounds that raise anywhere and clocks that are set back. A baseline is the
  one learned by a majority or the last one reset to.

## 4. Disagreements between code and documents

Each is a run that TLC must find violated; PROJECT.json, "findings", has the quotes.

1. `storage/events.py`: "only rows still actively open must survive retention".
   A row left open by a crash, by a `close_event` that raised, or by a `record`
   whose commit raised after its insert, is tracked by nobody and kept for ever
   (`event_prune`).
2. `store.js`: an `error` leaves replay mode without clearing trails and series;
   the points of the failed replay stay on the live map (`ws_page_error`).
3. `store.js`: the end of one replay, in flight when the user jumps to another
   event, ends replay mode for the new one, whose messages are then dropped
   (`ws_page_end`).
4. `main.py`: a frozen solver is to degrade to `no_solution`; with two suspect
   satellites in its last epoch it is reported as `multipath` instead, for ever
   (`diagnosis_frozen`).
5. `solver/rtkrcv.py`: "signal a process group to ensure child and grandchild
   termination". `gather` raises when the first of the cancelled tasks has ended, and
   `run_forever` then cancels all of them again: that second `CancelledError`
   falls into the 5 seconds between SIGTERM and SIGKILL, and a solver that ignores
   SIGTERM is never killed (`shutdown`).
6. `parsers/rtcm.py`: "feed arbitrary byte chunks; get complete CRC-checked RTCM3
   messages". A good frame with a payload of no or one byte raises before it is
   removed from the buffer, and so does every later chunk (`rtcm_short_frame`).

Met while modelling, and not contradicted by a document clearly enough to be a run:

* a page that loses its connection during a replay comes back live on the server
  and in replay mode on the page, whose map goes on with live points, until the
  user presses the live button;
* tests/test_can_collector.py:25-28 expects one "disconnected" per outage; a bus
  reopened without frames counts its timeouts afresh and reports again (`CanHonest`
  allows it across a reopened bus);
* after a restart of the monitor `_stat_reader` reads the whole newest file and
  counts its old slips as slips of now (`SlipsOnce` allows it: each still counts once);
* `base_reset` is refused when retention has removed the last recorded change of
  the position, however steadily the station sends; and it takes a position whose
  `add_base` raised in its commit, if that was the last change (`baseRaised`);
* an append that raises in `_on_obs` drops the messages framed behind it from the log;
* `cleanup_logs` raising skips the pruning of both databases, every hour it does;
* a lost 0x320 puts the frames of a cycle into the one before, with its time
  (`CyclesMatch` allows it);
* a data file that cannot be closed on a full disk loses bytes its index, closed
  later, points at (`logLoser`);
* positions stop while the CAN time stamps are behind the last one published.

## 5. What is proved

Every safety property that a passing run checks is a theorem: types, invariants,
the two step properties (`LiveInOrder` and `OutageEvidence`, which
are `[][...]_vars`) and the refinement `ImplementsLog`. PROJECT.json lists 37 of
them under "theorems". They hold for every value of the constants that satisfies
the named assumptions of the modules: distinct model values, thresholds and bounds
natural numbers, nothing whose size is zero where the code cannot have it so. Four
assumptions say more than that:

* `FrmAssumption`: the good frames on a wire do not overlap (`FramesApart`), for a
  checksum that is right inside another frame's bytes is chance; a frame has at
  least its overhead and is no longer than `FrmLongest`;
* `NoShortMessages`, a hypothesis of `FramesComeAsSent` and not of the module: every
  good frame is long enough for a message type. Without it the theorem is false
  (section 4, 6). `MCRoutes` evaluates it on its wires;
* `CycAssumption`: the gap of two positions is not zero, and some time passes between the
  heads of two cycles;
* `RepAssumption`: the tables are finite, and the rows of one source, and the
  diagnosis rows, have times of their own. `ORDER BY t` leaves the order of equal times
  open; a source is stored at most once a second and events open one at a time, each
  at the wall clock's time, so only a clock that was set back could make two equal.

Each component's invariant is a conjunction of named parts. `XInitInv` and
`XStepInv` say that its initial states have it and that its steps keep it, with a
lemma for each action, or each group of actions with one effect, and the theorem
draws the property from it.

**EventMachine_proofs.** `Inv == TypeOK /\ FieldsAgree /\ RowsShaped /\
OpenRowsAccounted` is inductive (`Invariance`). `OpenRowsAccounted` alone is not:
that a close removes exactly the open row needs to know that `_close` owns an
event exactly between the reset and the callback (`FieldsAgree`), and that a new
row is not an old one needs ids below `nextId` (`RowsShaped`). From it:

* `TypeCorrect`: `Spec => []TypeOK`;
* `OpenRowsSafe`: `Spec => []OpenRowsAccounted`, with any number of faults;
* `Refinement`: `Spec => ImplementsLog`. Every step is a step of `IncidentLog` or
  a stutter: `Record` is `Start`, `StoreClose` is `Finish`, `Crash` is `Abandon`
  (or a stutter), `RecordRaises(TRUE)` is `Stillborn`, `Prune` is `Expire`,
  `LinkEvent` is `Skip`;
* `ClosesFollowOpens`: `Spec => []ClosesMatchOpens`, with `StreamInv`: what
  `_close` is about to announce, and what is open, has been the stream's last word.
  A failed close leaves the stream at an opening that is never closed, and the next
  message is another opening;
* `NeverClosedEarly`, with `HystInv`: while the clock moves forward, the last active
  verdict lies before `_ok_since`;
* `EventsApart`: `NoOverlap`, with `PastInv`: no time in the table lies ahead of
  the clock. The row that has no close yet when the next one opens is accounted
  for by `OpenRowsAccounted`;
* `KeysApart`: `KeysUnique`, with `KeyInv`: an update says at most one close and one
  open, in this order, and while it still has one to say, every such message of the
  stream is older than the clock;
* `LiveIsOnRecord`: `StreamBacked`, with `BackInv`: the row of the event that is tracked,
  or has been taken over by `_close`, opened when the stream's last message says.
  A row that expires is never one of those;
* `ClosesOnTime`: `ClosedOnTime`, with `LullInv`: while an event is tracked, `_ok_since`
  is the first quiet verdict since the last active one, and between two updates the last
  one is less than the hysteresis later, or there has been no other. A machine that restarted
  its timer at every quiet verdict breaks the first part. That no other row is open is
  `OpenRowsAccounted`.

**WsServer_proofs** has the lemmas about a step of the session, whatever the client
does (`Arrives`, `Reads`, a loss, a command that breaks the handler, a new connection), and **WsAnyClient_proofs** the
theorems about it under an arbitrary client.

* `TypeCorrect`: types, the queue within its size, the transport within its capacity.
* `Discipline`: `SingleSender`, `SendersReachable` and `AlwaysASender`, from the
  inductive `RunInv`. The three are not inductive: that a fall-back to live creates no
  second sender needs that nothing else runs at that moment (`OneRuns`, a set-level
  form of `SingleSender`), that the handler refers to every running task, and that
  an unfinished `live_task` has not been cancelled (`LiveTaskFresh`): `live` on such a
  task would leave the client without a sender. `SendersCanBeEnded` and
  `NeverAFrozenView` state two of the three by themselves.
* `BacklogNewest` and `LiveOrdered`: `BacklogIsNewest` and `LiveInOrder`, from `OrderInv`.
  A live message is in one of three places, written, in a sender's hands, or in the
  queue, and numbered in this order. `OnlyTask` is why two senders never hold one
  each: a task is not scheduled before all earlier cancellations have been delivered.

**WsSession_proofs.** `PageInv`, for the page and the session together. What relates
them is in flight: `WinsInv` says that the replay asked for last is the one that is
played, or that the last command on its way settles it; `AgreeInv` that a page in replay
mode has a command, a task or a message to wait for that leads it out (`replay_end` or
`error`); `LinkInv` what a broken connection can hold. From it `TypeCorrect`,
`CleanTrail`, `LastOneWins`, `ModesAgree`, and `PageDiscipline`, the session's own
promises under this client.

**Diagnosis_proofs.** `Held`: `NoStaleFix`, `DivergenceHeld` and
`DivergenceNoticed`. The properties speak of the last tick; the induction carries
where the divergence timer stands between the last tick that was not apart and
the clock (`TimerInv`), and that the solution's time is that of an arrival
(`SolInv`). `FirstMatch` is the lemma about the rule chain: the code diagnosed
matches and no code before it does. `FixesAreFresh` and `DivergenceIsNoticed` state
two of the three by themselves. `TypeCorrect` has the slip window in it;
`OutageOnEvidence` is `OutageEvidence`, with `EvidenceInv`: a late datum that is held is
on record as having arrived.

**Links_proofs, Stores_proofs, Routes_proofs.** `Inv` of `Routes` is the conjunction
of one invariant per route, and `StepOrRest` says that a step of the App is a
step of one route at most. The lemmas about a route ask only that the route takes a
step of its own or none, so the choice of one route that keeps TLC's runs small
costs the theorems nothing: `Together`, in `Routes_proofs`, lets every route move in any
interleaving, `OneIsTogether` proves that `Spec` is a case of it, and `TogetherHolds`
that the safety properties of the routes hold of it. The first module has what comes in (links, pace, cycles,
framing, the solver's status), the second what is kept and goes out (fan-out, raw
logs, retention, base station, replay), the third the theorems.

* `LinksReportHonestly`: `LinkReportsHonest`, from `TcpInv`, `CanInv`, `SolInv`. For the
  TCP client and the manager it is enough that `_last_state` is what was said last.
  The CAN collector has no such field: that `_was_down` and `_seen_any` determine
  it, and that a count of no timeouts in an outage means that the bus was reopened
  or the route restarted, is `CanInv`.
* `RetriesKeepPace`: `RetriesPaced`, from `TcpPaceInv` and `SolPaceInv`: as many waits
  as were counted, as many times the first wait has been doubled, up to the limit.
* `CyclesAreWhole`: `CyclesWhole`, from `CycInv`. `CycMatchInv`: the open cycle was
  opened by the last head that arrived, and every head since was lost.
  `CycFlowInv`: the cycles kept off the map since the last position are no more than the
  instants since, each later than the one before, and the failed stores of the seconds since.
* `FramesComeAsSent`: `FramesAsSent`, from `RtcmInv` and `LineInv`, which hold between
  chunks: what came out began in the bytes that are no longer in the buffer, every
  good frame or whole line there came out, and the loop has nothing left to do.
  `ScanIs` says that `Scan`, a recursive function, is the one the loop computes, and
  `ScanFacts` what one run of it does.
* `StatusCountsOnce`: `StatOnce`, from `StatInv`. `ReadInv` is about the reader
  between two polls: the epoch under assembly, and the last count of each satellite. `CountInv`
  counts: the hits in the window and the slip lines still to be read are together no
  more than the slips that happened.
* `ReplayMergesAll`: `ReplayMerges`, from `RepInv`. The place of a message in the sorted
  stream is the number of messages ahead of it (`Ahead`); `NextOther` and `NextStatus`
  count those for a position or event and for a status, and `MergeInv` says that what has
  been sent is the first of the ones and the first of the others, that none left is
  ahead of a status sent, and where the three indices stand (`SourceInv`), from which
  `AdvancedIs` has the latest row (`LatestIs`).
* `BaselineIsHonest`: `BaselineHonest`, from `BaseInv`: rows are numbered, one is the
  newest, and while the clock is not set back it is the position fed last. `MajorityRules`
  says that a position more than half of the samples have is the median, by its rank.
* `FanOutIsWhole`: `FanOutWhole` is inductive with its types.
* `IndexIsTrue`: `IndexTrue`, from `LogInv`. The index on disk alone is not
  inductive: the lines in memory are. `Whole`, the index on disk and in memory,
  is a stack of intervals that ends at the end of the data on disk and in memory
  (`OpenHourTrue`); the data is flushed first, so what is on disk of the one never
  exceeds what is on disk of the other (`HoursTrue`), except in an hour a
  close has lost bytes of, which is over (`LogShaped`). `Push`, `Rise` and
  `AppendOnTheRight` are the lemmas about such stacks.
* `RetentionIsKept`: `RetentionKept`, from `RetInv`. `WhatIsLeft` and `LeastOf` say
  where the loop has stopped, and why. For the rows `RetInv` adds that the clock shows no
  day later than its latest, so that what a round finds past the cutoff was past it then
  (`PrunedKeeps`).
* `TypesHold`: `TypeOK`, every route's types, which are part of its invariant or follow from it.

How recursion is proved about. The provers have no induction over data, but every set of numbers
that is not empty has a least one (`LeastOf`, from the well-foundedness of `<`). A
claim about all numbers is therefore proved for the least one it fails at:
`DoublingExists`, `ScanIs` and what `Read` computes line by line are obtained in this way,
the existence of the recursive function included. What `SelectSeq`,
`FoldLeft` or `SortSeq` would compute is out of reach; the models say it with `Picked` and
`OfRank` of `Picks` instead, which pick the places of a set in turn and a place by its rank, and
`NthIs` and `Ranks` are the lemmas about those.

Only model-checked: liveness (`LiveResumes`, `SessionCleansUp`, `ReplayModeEnds`,
`CollectionNeverStops`, `ShutdownEnds`), since fairness and ENABLED are out of the
prover's reach, and the properties of section 4, which are false.

## 6. Bounds, fairness, abstractions

Every bound is a CONSTANT with `Max` in its name and a guard.

* `MaxTime`, `MaxFaults`, `MaxLinks` (EventMachine): 6 units with a hysteresis of
  2 and a retention of 3 let an event open, be quiet, close and expire while a
  second one is open; two faults (a crash, a failed store call, a set-back) let
  a crash follow a failed close. The clock
  moves 1 or 2 units per reading, so ticks are late. Codes are interchangeable;
  two make "another condition" possible.
* `MaxQueue`, `MaxOut`, `MaxReplay`, `MaxTasks`, `MaxLive`, `MaxCommands`,
  `MaxLosses` (sessions): a queue of one or two overflows; a replay of no or one
  message before its end shows both first and later messages; four or five
  task slots hold the live task, the replay and the cancelled ones still to be
  delivered; one lost connection may fall anywhere. A handler that finds no free
  slot waits: this happens only with more cancelled tasks than slots.
* `MaxTime`, `MaxGap`, `MaxHits`, `MaxRestarts` (Diagnosis): the hold is two or
  one, staleness three or one seconds, so that a solution can go stale before,
  during and after a hold; a tick may be a second late.
* `TcpMaxCrashes`, `CanMaxCrashes`, `CanMaxWedges`, `SolMaxCrashes` are one each: a crash
  may fall into any state, before and after a reopen. `TcpWaits` and `SolMaxLives` are
  five: a backoff of 1 with a limit of 5, and a delay of 5 s with one of 60 s, reach their limits after
  three and four. `SolTasks`, two other tasks, end before, between and after the
  manager's cancellations. Two peers of a listener show one leaving while another is accepted.
* Wires have six bytes, frames three or four of them, with an overhead of two for
  the real six: a bad start may overlap a good frame, two good ones follow each
  other, and a chunk ends anywhere. `FrmMaxFails`: one append raises.
* `CycMax`, `CycSteps`, `CycFrames`: four cycles of a head and two frames, steps below and above the
  0.2 s of positions and longer than a second, seconds of four units; heads and frames are lost in any
  combination.
* `StatMaxLines` (three in the first file, two in the second), `StatMaxTow`, `StatMaxSlips`,
  `StatMaxFiles`, `StatMaxNow`: epochs that change in mid-file, a second frequency, a
  slip before and after a poll, a new file with a line half written, a poll at every half of a line.
* `RepEpochs`, `RepEvents`, `RepWindows`: rows before, in and behind the window, on whole
  seconds (two units each) and off, at equal times, and windows that begin and end on
  whole seconds and off.
* `BaseMaxNow`, `-Rows`, `-Samples`, `-Fails`, `-Restarts`, `-Back`: a warm-up of up to three messages, one
  write that raises, one restart, one clock set back, four rows ever of which some expire.
* `ResMaxBytes`: six bytes against a limit of two and chunks of up to two: one client falls behind
  and is cut off while the other keeps up. `LogHours`, `LogMaxBytes`, `LogMaxFails`, `LogMaxCrashes`:
  two hours, two full disks, one crash. `RetDays`, `RetMaxFails`, `RetMaxEvents`: three days with a
  retention of one, which are young, at the limit and too old; one round that raises at any of its
  steps, and one event beside the epochs of each day, open, closed, or never open.
* `CHECK_DEADLOCK` is FALSE in `MCRoutes`, `Solver_shutdown` and `MCFraming_short`, where
  a replay is over, a wire has been read to its end or the App has stopped. Everywhere else it
  is on: `TimeIsUp` and `AtRest` let a behaviour end at its bound, any other state
  without a step is reported, and in `Diagnosis` the stream actions remain
  enabled.

Fairness: weak fairness of the handler, of every sender task and of delivery,
because the asyncio loop and the browser's event loop run every ready callback;
of reconnection, because `ws.js` retries with a timer. Never of a click, a
command, a publication or a loss. In `Routes`, weak fairness of what the loop, its
timers and the system do by themselves: a task that can go on (`TcpRun`, `CanRun`,
`SolRun`, `LsnServe`, `LsnRestart`), the end of the App (`AppRun`), and a process that has
been killed (`SolDies`). A handler of a listener ends by itself only when its
peer does; once the listener is cancelled, `asyncio.run` cancels the handler too,
so `LsnFinish` is fair from then on. Nobody is fair who connects, sends,
crashes, is unplugged or comes back: `CollectionNeverStops` assumes a source that
stays in its premise.

Not in the models: message texts and geometry; several subscribers (they share
nothing but the publisher); the web page's caps on trails and series and its
event list; a wall clock set back in `Diagnosis`; the `status` message the tick
publishes.

## 7. Not modelled

Parts of components that are modelled:

* the `status` message and the peak metrics of the tick, and with them the tick
  composed with the event machine: a tick whose event store raises publishes no
  status (main.py:493). The two models meet at the verdict;
* the page's event list with its de-duplication (`KeysUnique` is the property it
  needs of the server), and the caps on trails and series;
* `App.shutdown`, which only the tests call; `LocalReserver.start` and `stop`;
  `query_last`, WAL checkpoints and the schema of the stores;
* a supervised route that returns without an exception: only the web server does,
  when it is told to exit;
* the sleeping of the replay generator, which changes no order.

Components left out for good: floating-point geometry and field extraction (no
state; the unit tests compare them with recorded data), reports (arithmetic over
rows), the UDP publisher (formatting of datagrams), configuration and tiles
(read once, or read-only), drawing, the bench tools, and the HTTP endpoints that
only read.
