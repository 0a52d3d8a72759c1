# Pinora: a verification project

Pinora is an ESP32 firmware template (Rust), a shared protocol crate, and a
desktop application (Tauri backend in Rust, WebView in TypeScript) that controls
the device over Bluetooth, Wi-Fi or USB serial. This directory holds TLA+ modules
that model the parts of it that are hard to test, TLC configurations that check
them on small instances, and TLAPS proofs for every value of the constants.

Paths below are relative to `src/`. `PROJECT.json` lists, for every definition
that models code, the lines it stands for; the runs; the bugs the properties are
shown to catch (mutants); the hazards; the findings and the theorems.

Contents: [inventory](#inventory) - [modules](#modules) - [runs](#runs) -
[fairness](#fairness) - [proofs](#proofs) - [findings](#findings) -
[limits](#what-is-not-modelled).

## Inventory

| Component | State | Operations | What is hard | What makes it correct |
|---|---|---|---|---|
| Authenticated session, `protocol/src/auth/session.rs` | `ClientState`, `DeviceState`, `warned_unprovisioned`, challenge nonces, sequence numbers | `begin`, `on_message`, `sign`; `handle`, `respond`, `handle_plain`, `handle_signed`, `reset` | replays, repeated and swapped lines, reconnects, key changes in mid-session | both ends agree on the session; a signed command is obeyed at most once and in order; a session ends with its connection and its key |
| Desktop connection, `UI/src-tauri/src/{serial_transport,auth_link,commands}.rs`, `UI/src/lib/store/transport.ts` | `AppState.link`, `reader_running`, reader thread, two mutexes; the store's connection state and listeners | `connect`, `shutdown`, `handle_line`, `send_data`; `Connect`, `Disconnect`, `RefreshWifiStatus`, event listeners | actions interleave at every `await`, also two of one kind after a remount; shutdown joins a reader that needs a mutex; late events and answers | one port is read at a time; the store shows what is; every action ends |
| Bluetooth worker, `Firmware_Templates/src/core/transport/{bluetooth,auth_gate,pairing_window}.rs` | connection, line framer, pending frames, a write in flight, discovery cache, pairing window, overflow flag | SPP/GAP callbacks, `run_worker`, `enqueue`, `event` | callbacks queue work that is handled later; queue overflow; blocking hand-over to the main loop | work of an old connection never touches a new one; a command is delivered once; discovery is replayed completely |
| Main loop, `Firmware_Templates/src/runtime/` | deadline, command budget, registered modules | tick, drain, wait, `dispatch`, rediscover | floods of commands, overruns, blocking emits | ticks go on; every command is handled |
| Emitter, sender thread, drop counters, `core/transport/{emitter,manager,drop_stats,discovery_cache}.rs` | two bounded queues, the message in hand, two counters | `emit_reliable`, `try_emit`, `build_sender`, `report_drops`, `remember` | full queues, a thread between two queues | discovery is never lost or reordered; drops of telemetry are counted and reported |
| Desktop Wi-Fi listener, `UI/src-tauri/src/wifi_transport.rs` | session slot (mutex), `connected`, `running`, `pending` (atomics), one thread per peer | `start`, `accept_loop`, `serve_peer`, `send`, `stop` | peers replace each other; flags and events outside the lock; stop against a peer that is authenticating | the counter of authenticating peers is exact; only its own worker releases a session; stop ends everything; what the WebView shows follows the slot |
| Device keys and USB pairing, `core/transport/{device_key,console}.rs`, `UI/src-tauri/src/device_keys.rs` | NVS blob and `current`; key file and key map | `open`, `provision`, `clear`; `save`, `remove`, `load` | storage faults, restarts between two writes, lost lines | the device fails closed; a key handed out is stored; a reported pairing is durable |
| Firmware Wi-Fi client, `core/transport/wifi.rs` | association, link flag, cache, one reader thread per connection, replies, two bounded queues | link thread, `run_client`, `serve_connection`, `reader_loop` | joining a reader that may be blocked; a message lost between cache and wire; an association that breaks at any point | a served desktop is up to date; commands keep their order over connections; a broken connection is cleaned up |
| Pairing window, `core/transport/pairing_window.rs` with `bluetooth.rs` | window state, flag of the GAP callback, scan mode | `open`, `poll_expired`, the pairing callback | a callback on another thread, a worker that comes late | new devices pair within the window only |
| Line framing, `protocol/src/framing.rs` | partial line, discard flag | `push`, `clear` | carriage returns and lengths at the limit, resynchronisation | every line gives its own frames, whatever came before |
| Stepper, `modules/actuators/{stepper_motion,stepper}.rs` | position, target, limits, mode, homing cycle, coils | move, home, pivot, limits, mode; tick | limits that move under a motion, a coil driver that fails | stays in its travel; at rest it is as reported; every motion ends |
| LiDAR, servos, rangefinder, `modules/composite/{lidar,lidar_scan}.rs`, `modules/actuators/{servo,servo_position}.rs`, `modules/sensors/rangefinder.rs` | plan, region, step, servo positions and limits, time from which readings count | start, stop, region, step, moves by the module and by the servos' own ids; tick | servos whose position nobody knows or that are still travelling, limits that make positions unreachable, silent sensors | a scan covers its region once; only readings of standing servos count; it ends |
| LiDAR view, `UI/src/lib/store/registry.ts`, `UI/src/Modules/lidar/store.ts` | registered modules, shown state, map of chunks | registration, state and point events | lost events, replays after reconnections and rediscoveries, a registry that is emptied with every connection | the map shows one scan, completely when nothing of it was lost |
| RFID, `modules/sensors/{rfid,rfid_record}.rs` | mode, data to write, result, card | read, write; tick block by block | the card leaves, reads and writes fail between two blocks | a write reported good is on the card; attempts do not mix |
| Tick error reporter, `runtime/tick_errors.rs` | last report and suppressed count per module | `report` | rate limits | not modelled, see below |
| LED, joystick, button, remote, IMU, board wiring, port discovery | - | - | - | not modelled, see below |

How they interact: SPP callbacks and the sender thread feed the Bluetooth worker's
work queue; the worker feeds the main loop's incoming queue; the main loop feeds
the emitter queue; the sender thread drains it. The console reader changes the
device key under the worker's feet. The Wi-Fi client has the same main loop at the other
end of its two queues. Modules run on the main loop, commands between ticks, and
report through the emitter. On the desktop one reader thread per link and
the WebView's calls share the link or the slot under a mutex and report to the
WebView through events, which the registry hands to the modules' stores.

## Modules

### `CommandChannel`: what the radio link promises

The application submits numbered commands; the device obeys some of them, each at
most once, in the order they were submitted. Nothing else: the code neither
acknowledges nor retransmits commands, so loss is allowed.

### `AuthSession`: how the code keeps the promise

`ClientSession` and `DeviceSession` with the two programs that drive them. The
desktop's state is `open`, `conn`, `client`, `deskKey`; the device's is `devConn`,
`device`, `warned`, `devKey`, `issued`. `up` is the worker's input: connection
events and lines in one queue, as in the code; `down` carries the `Auth` answers.

| Action | Code |
|---|---|
| `Connect`, `Disconnect`, `SendData`, `OnMessage` | `AppState::connect`, `shutdown`, `send_data` with `AuthLink::outgoing`, `ClientSession::on_message` |
| `OnConnected`, `OnClosed`, `IgnoreLine` | `Work::Connected`, `Work::Closed`, and data of another handle in `run_worker` |
| `Begin`, `Respond`, `HandlePlain`, `HandleSigned` | `DeviceSession::{begin,respond,handle_plain,handle_signed}` behind `handle`, whose key check is `Checked` |
| `DropConnection` | the worker gives the connection up: overflow, failed write, overlong line |
| `ChangeDeviceKey`, `ChangeDesktopKey` | the key changes under a session (`DevicePairing` has the details) |
| `LinkLost`, `RepeatLine`, `SwapLines` | the radio link (external) |

Cryptography is ideal: a session key is the record of what it was derived from, a
proof verifies when it was made with the same record, nonces never repeat. A line
that an outsider makes up is not in the model; lines of the two ends that arrive
twice, late, or in the wrong order are. Refused lines that draw an
`AuthResult` from the device without a state change are left out of `down`
where the desktop ignores them.

### `FirmwarePipeline`: three threads, three bounded queues

    main --emitQ--> sender --work--> worker --incoming--> main
                                ^
                         SPP callbacks

The main loop's position (`main`, `left`, `late`) and the messages it has still to
emit (`todo`), the sender's message in hand (`held`), the worker's rest of a batch
(`batch`) and the drop counters. Discovery messages and commands carry numbers, so
that loss, repetition and reordering show. `Emit` blocks for discovery messages and
drops telemetry at a full queue (`emit_reliable`, `try_emit`); `HandOn` does the
same at the work queue (`Bluetooth::event`); `WorkerDeliver` blocks (`incoming.send`).
`DataCallback` is the SPP callback with numbered commands, `FloodCallback` a peer
that never stops.

The worker looks at `overflow` before each receive (`WorkerCheck`) and drops the
connection when a callback has met a full queue; the two steps are separate, because a
callback may set the flag between them. One connection is modelled, and the data
callback is the only one that fills the queue; connection events, writes and the third
drop counter (`Stage::Link`) belong to `BluetoothWorker`. `first_emit` sends
one event per module; a tick or a handler sends one or none.

### `BluetoothWorker`: links, lines, frames, replay

The radio side has links with handles (`radio`), the writes the stack has accepted
(`flying`), what arrived at the desktop (`heard`) and congestion (`jammed`); every event
of it goes through the SPP callback (`Callback`) into `work`, or into `overflow` when
`work` is full. The worker has the variables of `run_worker`: `connection`,
`writePending`, `congested`, `framer`, `pending`, `system`, `registrations`. There is one
action per arm of its `match`; each ends with the foot of the loop (`Write`), which writes
the next chunk when it may, except where the code says `continue` (`OnConnectedTwice`).
`WorkerCheck` is the head of the loop.

Bytes are numbered pieces, two to a line, so that a gap, a repetition or a piece of another
link shows; frames take two chunks. The session's judgement of a line is `AuthSession`'s,
here it may or may not answer (`Answers`); handing commands to the main loop, which may
block, is `FirmwarePipeline`'s, the pairing window `PairingWindow`'s. Not modelled:
messages too long to encode, and data that are null or over `MAX_MESSAGE_BYTES`, for which
the callback only sets the flag (bluetooth.rs:164-166): the stack delivers some data, less
than 1 KiB at a time. If it did otherwise, the worker, waiting at an empty queue, could
parse the next part before it looks at the flag. `lost` is a history variable: the links of which a callback was lost
before the worker served them. The comment at bluetooth.rs:289 wants a lost callback to
end the connection, but the worker ends the connection it has: a link
whose `Connected` is still queued is served later in spite of the loss. Without the
exemption TLC finds that such a link's lines are parsed with bytes missing, or
that a link whose `Closed` was lost is served after it is gone, which keeps other peers
out; and a link whose `Connected` was lost is never served.

### `WifiListener`: one slot, many threads

One action per access to shared state. The accept loop reads `running` and `pending`
and starts a worker per peer; a worker goes through `Authenticate`, `CheckRunning`,
`Install` (all under the slot's lock), `SetFlag`, `SayConnected`, `SayStatus` (outside
it), `HandleAuth`, `EndRead`, `Release` (under the lock), `ClearFlag` and
`SayDisconnected` (outside it). `SendFails` is `send` whose write fails, `StopFlags`,
`StopSlot` and `StopJoin` are the three parts of `stop`. `portStat` and `deviceAuth`
are what `transport.ts` keeps of the events. `stream` holds the connections that
carry bytes, so that dropping somebody else's connection shows.

The handshake's steps are `AuthSession`'s; here only its outcome matters, so
`HandleAuth` takes a pending session to one of two outcomes. A poisoned mutex is not
modelled: nothing under these locks panics in normal operation.

### `DevicePairing`: two copies on each side

The device's NVS blob (`stored`) and `KeyStore.current`, the desktop's file and map
(`known`), the console lines between them, restarts of both sides, reads and writes
that fail, lines that get lost. `ProvisionNew` and `ClearKey` write NVS; `Publish`
updates `current` and answers: a restart fits in between. `Save` replaces the file
whole or not at all (temporary file and rename).

### `WifiClient`: four threads around two queues

The link thread (`LinkPoll`, `LinkConnected`, `LinkReport`, `LinkFailed`), the client
thread (`Drain` between connections; `Connect`, `Replay`, `Answer`, `Forward`,
`SeeClosed`, `Close`, `Join` in one), a reader per connection (`ReadLine`, `Deliver`,
`ReaderEnds`, `ReadFails`) and the main loop as the queues see it. `cache` is the
discovery cache by source with a version for each announcement, `heard` what was
written on this connection, so that an announcement lost between the two shows.
Lines carry their connection and number, so that a command of an old connection
behind a newer one shows. Back-off sleeps are left out: an attempt may come at any
time. `disconnect()` is taken to end the association, and a message that cannot be
encoded is not modelled.

### `DesktopLink`: the button, the port, the sessions and the store

Uses of the form's button and refreshes by a mounted form are processes. `act` is the
store's action behind a use and `at` the `await` it is in, `refresh` and `answer` the same
of `RefreshWifiStatus`; each step up to the next `await` is one action here, so the reader
thread, `send_data`, sessions and events interleave everywhere else. `busy` belongs to the
form (`form`), so a form that is mounted anew may start a use beside one that runs
(`Click`), and any number of them may overlap. `heard` are the event listeners that are
registered, `listening` those that `UnlistenFnArr` knows, which alone are removed; an event
goes to those that were registered when it was emitted and still are when it comes
(`OnEvent`). `appLock` and `linkLock` are the two mutexes; `JoinReader` and `Open` wait for
the reader while `appLock` is held.

A Wi-Fi session takes the slot (`Install`), sets the flag (`SetFlag`), emits (`Say`), and
at its end empties the slot (`PeerEnds`), clears the flag and emits again, each a step of
its own, so that a session and its successor, or two sessions of listeners that follow each
other, overtake one another as they do in the code. `InstallFails` is an `AuthBegin` that
cannot be written, `SendFails` a command that cannot: both leave the slot empty and tell
nobody.

`races` names what came in between and is not yet put right, and is what
`StoreShowsWhatIs` excuses:

- "Overlap": a use was started while another ran. It excuses both halves of the property,
  until a use is started alone.
- "Reader": the reader died before the answer of `start_port` reached the store, which then
  shows a port as connected that nobody reads (`Started`). Until the next `Disconnect`.
- "Answer": an answer of `get_wifi_listener_status` was no longer true when it was stored
  (`Refreshed`): a listener is shown that has been stopped, or its session wrongly. Until
  the next `Disconnect`.
- "News": an event was not true when it was emitted, because a successor or `stop` came
  first, or a session ended without one. Until one is emitted that is true.

Left simpler than the code: the connection listeners of one `InitializeListeners` are
registered together (`Listen`) and noted together (`Listed`), with the `await`s of the
others before and after them; `stop_wifi_listener` is one step, since it holds the mutex
that `start`, `send` and `status` need and a listener that was stopped is read by nobody;
`Disconnect`'s `catch` (transport.ts:117-120) is left out, because `stop_port` and
`stop_wifi_listener` fail only after a panic under their mutex. A reload of the WebView is
an initial state, with whatever the backend has open then, but none in the middle of an
action.

### `PairingWindow`: the worker's window and the stack's callback

The window is the worker's, the flag `pairingOpen` is all the callback sees; one unit
of time is the worker's `recv_timeout`. A worker that waits for work is back within a
unit (`TimePasses`), one that is blocked at the incoming queue need not be. `accepted`
records when a pairing was accepted and whether the worker had been blocked.

### `LineFramer`: bytes to lines

`TakeByte` and `EndLine` are the two branches of `push`, `ClearFramer` is `clear`. The
history variables keep the bytes of the line begun and of the line just ended with the
frames they gave; `FramesOf` is the definition without a machine they are compared with.

### `StepperMotion`, `LidarScan`, `RfidCard`: modules of the board

Commands and ticks run to completion on the main loop; what interleaves is their order,
drivers that fail, servos that travel and cards that move.

- `StepperMotion`: positions in half-steps; one action per command and per arm of `tick`;
  `BecomeIdle` releases the coils first and reports after. `lost` notes a release or a
  report that failed.
- `LidarScan`: the servos with their limits, the planner (`NewPlan`, `Advanced`), the
  measurements. Time passes (`Elapse`) in units of `SERVO_MS_PER_DEGREE`, 4 ms; the main loop
  polls every 1 ms (schedule.rs:15). `real` is where the servos are: anywhere before the
  first command, and then on their way, a degree or more in a unit, which is what
  `SERVO_MS_PER_DEGREE` assumes of them. `wait` is `reading_usable_from_us` as the code
  reckons it from the angles commanded. A measurement takes `Budget` units (`measured`) and is
  blurred if a servo moved in any of them (`sample`); `ready` is the one to be read.
  `disturbed` notes what came in the way of a scan, `mistimed` that it began with the servos
  elsewhere than commanded or that a reading was left for a later unit than it ended in.
- `RfidCard`: a payload is a sequence of parts, one to a block; `Encode`, `BlocksToRead`
  and `Decode` are the record format. `WriteBlock`, `ReadBlock` and their failures are
  single blocks, so that the card may leave between any two.

### `LidarView`: what the desktop makes of a scan

The module's reports, a way that loses any of them and replays the registration after
each reconnection, the registry (events of unknown modules are dropped) and the store
that puts chunks together. `EmptyDeviceState` empties the registry, and the store goes with
it: the next registration makes a new one. It may come at any time, because the event of a
lost connection that brings it may be late, or missing when a Wi-Fi session replaces another,
and every use of the button brings it too. Events carry the number of their scan as history
only; `heard` is the last scan a store has heard of, `forgotten` the last whose store was
thrown away.

### Compositions, `MC...` and `...Proofs` modules

`AuthSession` is shown to implement `CommandChannel`. The queues of `FirmwarePipeline` meet
`BluetoothWorker` at `work`, `DesktopLink` meets `WifiListener` at the events. `MCModules`
puts the parts of one board and its desktop side by side (`wired` says which one a behaviour
is about): they share no state and every step is one part's, so their interleavings add
nothing that a property could tell apart. The other `MC` modules name small instances (sets
of keys, symmetry). The proof modules extend a component's module and hold its theorems.
Every module has a type invariant; `MCAuthSession` checks `AuthSession`'s, those of the
listener, the pipeline, the worker, the stepper, the window and the framer are proved, the
others are documentation and were checked while the modules were written.

## Runs

| Run | Shows | Bounds |
|---|---|---|
| `MCAuthSession` | type correctness, agreement of the two ends, sessions end with connections and keys, the link implements `CommandChannel` | 2 keys, 2 connections, 3 commands, 1 key change, 1 repeated or swapped line, 1 dropped answer |
| `MCAuthLive` | a handshake settles; on a faultless link every signed command is obeyed | 1 key, 2 connections, 2 commands |
| `MCFwQueues` | discovery is neither lost nor reordered, commands are lost only with their connection, telemetry is accounted for | queues of 3, 2 and 2, batches of up to 2, 3 commands, 1 rediscovery, 1 report |
| `MCFwLive` | ticks go on and commands are handled under an endless flood of module commands | queues of 2, 2 and 1, 2 numbered commands |
| `MCFwStarve` | a circular wait (finding) | queues of 3, 1 and 1 |
| `MCBtWorker` | lines and frames stay whole, a served desktop is up to date, frames get written, a link that is gone is left | 2 links, 3 pieces on each, queues of 2, 2 messages, faults or other events |
| `MCWifiListener` | the pending counter is exact, the slot is served by the newest session, `stop` ends everything for good | 2 peers |
| `MCPairing` | the device fails closed, hands out stored keys, reported pairings are durable | 3 keys, 3 requests, 2 restarts, 1 fault of each kind, 1 lost line |
| `MCWifiClient` | an association is used, commands keep their order over connections, a served desktop is up to date, a broken connection is cleaned up | 2 connections, 3 lines, 1 rediscovery, 1 broken association, queues of 1 |
| `MCDesktopLink` | one port is read at a time, the store shows what is but for the races named, the uses end | 2 COM links, in five settings: 3 uses of any kind and 1 mount; 2 uses that overlap and 2 mounts; 2 uses of the Wi-Fi and 1 session; from Wi-Fi with 1 session to a COM port; 2 sessions, a refresh and a stop |
| `MCModules` | the stepper stays in its travel and is as reported; a scan covers its region and counts readings of standing servos; a good write is on the card, attempts do not mix; the view follows the scan; pairing keeps to its window; lines give their frames; every motion and scan ends | travel of 2 half-steps, 3 commands; a region of 4 by 2 positions in steps of 2 or 3, chunks of 2 points, measurements of 2 units, 2 commands; 2 cards of 2 blocks, 3 parts, 2 swaps; 2 scans of 2 chunks, 1 rediscovery or idle stop, any number of lost links and emptied registries, 2 messages under way; window of 2 rounds, time 5; lines of 2 bytes, up to 5 sent |
| `MCLidarBlur` | a blurred reading after a move that is timed from where the servos are not (finding) | as `MCModules` |

Why the bounds are enough to be of use. Two connections give a session, its end, and
a line of the first that arrives in the second; a third would repeat that. Three
commands let two be swapped or repeated around a third. Two peers give a holder of
the slot and a successor in every phase of each; that more add nothing is
what the proofs show for the safety properties. The queues are
reached at capacity in every order; what depends on the capacity (128 in the code) is
only whether they are full. The counters' limit `MaxCount` and the sequence limit
`MaxSeq` are scaled down so that saturation happens. Two COM links give a port that is
replaced by the next while its reader still runs; two uses, two mounts or two sessions give
one that overtakes the other at each of its steps. A region of four by two positions
has a row that is swept back, an end of a row and a last position, and with chunks of two
points a full chunk in the middle and at the end of a scan; step 2 leaves a remainder at
the end of a row, so that the row swept back has other positions. Two
blocks give a record with a header block and one that carries only data, two cards one
that comes in place of another; two scans one that replaces another. Lines of
up to five bytes at a limit of two pass the limit with and without a carriage return.
What is proved holds for all bounds; there the bounds limit only what TLC sees.

Deadlock is checked in the pipeline runs, where a stop would be a defect (except in
`MCFwStarve`, whose subject is a circular wait). The other models stop when their
bounds are used up, so their configurations switch the check off.

## Fairness

- `AuthSession`: weak fairness of the worker's step and of the COM reader. Both are
  threads in blocking reads that wake when there is input. Nothing is assumed of the
  user, of key changes or of the link; a handshake may therefore end in a broken link
  or in an answer lost at the full write queue, which the property says.
- `FirmwarePipeline`: weak fairness of each thread (FreeRTOS runs a thread that is not
  blocked) and of time passing. Nothing is assumed of the peer or of reports.
- `BluetoothWorker`: weak fairness of the worker thread; of the stack completing writes,
  closing the links it was asked to close, and ending a congestion. Peers do what they
  like.
- `WifiListener`: weak fairness of the accept loop, which polls every 50 ms, of the
  worker's straight-line code, of the token exchange, which has a deadline, and of a
  reader that has met the end of its stream or of `running` (its reads time out after
  100 ms). `stop` runs to its end. No peer is obliged to do anything.
- `WifiClient`: weak fairness of each thread, and of `SeeClosed` by itself, because the
  client's loop looks at the flag in every round, whatever else it finds to do. Nothing
  is assumed of the desktop or of the access point. `Reconnects` exempts one state,
  `CircularWait`: the client joins a reader that waits for the incoming queue, the main
  loop waits for the outbound queue, and only the client would empty that.
- `DesktopLink`: strong fairness of some use going on, of `send_data` and of a reader
  leaving its loop, because a mutex is handed out fairly among those who wait for it, and
  the reader looks at `running` between any two lines; weak fairness of a line being
  handled. Which of several uses goes on is left open, each has but a few steps; so
  `ActionsEnd` says that again and again none is running.
- Modules: the main loop ticks, and the stepper's driver does not fail for ever; time
  passes, and with it servos arrive and measurements end; the sensor answers or is found
  silent after its timeout. No commands are assumed.

## Proofs

Eight modules hold proofs; each covers every value of its component's constants.

`AuthSessionProofs`, for every set of keys and every bound (`NoKeyAssumption`,
`BoundsAssumption`):

- `TypeCorrect`: `Spec => []TypeOK`.
- `Inductive`: `Spec => []IInv`. `Agreement` alone is not inductive: that the ends hold
  one session depends on which proofs and answers are under way. `IInv` adds that a
  proof in flight on the present connection is the client's own (`ResponseInv`), that
  "Accepted" is in flight only for a challenge that is used up (`AcceptedInv`), that
  signed lines in flight are numbered below the client's counter and belong to
  challenges that are used up (`SignedInv`), that sequence and command numbers grow
  together within a session (`PairInv`), and that what the device would still accept
  comes after everything it has obeyed (`FreshInv`).
- `AgreementHolds`, `SessionsEndWithConnections`, `KeyChangesEndSessions`: the three
  safety properties, from `IInv`.
- `LinkImplementsChannel`: `Spec => ImplementsChannel`. `SendData` is `Submit`, an
  accepted `HandleSigned` is `Obey`, which `FreshInv` allows, and every other step
  stutters.

The lemmas about `Items` (the elements of a queue) carry appended, removed, repeated,
swapped and cut-off lines.

`WifiListenerProofs`, for any number of peers and any limit (`ListenerAssumption`):

- `ListenerInvariant`: `Spec => []ListenerInv`. The counter is exact only as long as a
  new worker was not counted before, and the slot stays served only as long as a new
  worker is not the slot's; both follow from the ids, so `ListenerInv` adds that
  ids not yet handed out have no worker (`IdsInv`).
- `ListenerTypeCorrect`, `PendingIsExact`, `SlotIsAlwaysServed`: from `ListenerInv`.
- `SlotKeepsItsSession`: an action property that every step has by itself.

`WifiClientProofs`, for any announcements, queues, connections and lines
(`ClientAssumption`):

- `ClientAssociatedIsUp`: the flag follows every association (`LinkInv`).
- `ClientDesktopIsUpToDate`: the invariant `CacheInv` says of each source that its last
  message in the queue is its latest version, and that the cache has the latest when
  none is queued. `RememberedFirst` carries the head of the queue into the cache,
  `EmittedLast` adds a message at its end.
- `ClientCommandsByConnection`: the order of the queue follows from that of each wire
  and from there being one reader at a time. `CommandInv` adds that only the latest
  connection's reader runs and none before a `Connect` (`OneReader`, which is what
  `Join` waits for), that lines are on their wire in the order sent (`WiresInOrder`), and
  that a command that left its wire is older than every line still on it (`AllPassed`).

`DevicePairingProofs`, for any keys, requests, restarts and faults
(`PairingAssumption`): `PairingFailsClosed`, `PairingIsDurable`, `PairingHandsOutStored`.
`PairingInv` adds that only keys are on their way as keys (`PairingTypes`), that a device
with an unreadable blob has handed out nothing until the blob is overwritten
(`NothingHandedOut`), and that `current` and NVS agree on whether there is a key outside the
moment between the two writes (`KeyInUse`).

`DesktopLinkProofs`, for any number of links, uses of the button, mounts and Wi-Fi
sessions (`DesktopAssumption`):

- `LinkInvariant`: `Spec => []LinkInv`. Some of it holds whatever overlaps: a process that
  has not registered its listener gets no event (`FreshInv`), what is registered is not
  removed before it is noted (`ListedInv`), a session has a listener before it has the slot
  (`SessionInv`). What the store shows is decided by events and flags still under way, so
  the rest (`LoneInv`, unless uses overlap) adds what is open while the use is at each of
  its `await`s (`PhaseInv`) and whatever it is at (`OpenInv`), that the last Wi-Fi event
  somebody will hear says whether there is a session (`NewsInv`, once every session has said
  what it has to), that the store keeps the mode and port of the use until that ends
  (`ModeKept`, `KindKept`), and what a shown mode stands for (`WifiShown`, `PortShown`: it is
  open, or its loss is under way).
- `LinkOneReader`, `LinkStoreShowsWhatIs`: the two safety properties.

`FirmwarePipelineProofs`, for any number of modules, any queues, batches and commands
(`CapacitiesAssumption`, `PipelineBoundsAssumption`):

- `PipelineTypes`: `Spec => []TypeOK`.
- `PipelineDiscoveryInOrder`: the discovery messages that arrived, followed by those under
  way in the batch, the queues and the sender's hand (`Flight`), are those announced.
- `PipelineTelemetryAccounted`: each message made has arrived, was dropped or is under
  way, and the counters add up to what was dropped until one of them saturates.
- `PipelineCommandsInv`, `PipelineCommandsInOrder`: the numbers handled, delivered and
  queued are those sent as long as no callback is lost. A callback may set `overflow`
  between the worker's look at it and the receive, so `CommandsInv` adds that the one
  item the worker may still take is the next in order; the full queue has it in front.

These properties are about the elements of one kind in several queues (`Only`, `Count`,
`CommandNumbers`, `WorkNumbers`), all made with `FlattenSeq`. What it gives for an appended
or joined sequence takes induction, and the library's induction theorems have an operator
as a parameter; `SetInduction` and `SeqInduction` say the same of a set, by the least
element of what is outside it, and `FlatAppend`, `FlatConcat` and `OnlyConcat` rest on them.

`BluetoothWorkerProofs`, for any links, pieces, queues and faults (`WorkerAssumption`,
`SubjectsAssumption`):

- `WorkerTypesHold`: `Spec => []TypeOK`.
- `WorkerLinesInv`, `WorkerLinesAreWhole`: of a link that lost no callback before it was
  served, every line that is parsed is whole. `OrderInv` says that a link's `Connected` is
  queued before anything else of it and that nothing was done for it before that is
  taken; `LinesInv` that framer and queue together hold what follows the lines obeyed,
  and that after an overflow the item in front, which the worker may still take, does.
- `WorkerFramesInv`, `WorkerFramesAreWhole`: a link hears both chunks of a frame, one after
  the other. `FramesInv` adds that there is at most one write of a link in flight or
  completed and not yet seen (`OneWrite`), and that what waits continues what was heard
  and what is in flight (`ServedInv`), which is why a handle taken up twice or a frame
  dropped from the full queue of frames leaves no half of a frame behind.
- `WorkerCacheInv`, `WorkerDesktopIsUpToDate`: a served desktop has the latest of what is
  cached. `CacheInv` says that the cache has one message of each subject, so the replay
  says each of them last (`ReplayOnce`). From then on the last frame of a subject stays
  the last wherever it is: a write takes a chunk from what waits to the end of what flies
  (`WriteReaches`), an arrival takes it to the desktop (`WriteArrives`), and what is
  queued without a drop comes after it (`FramesEnqueued`). The invariant holds only while
  no loss is reported, so each step must also keep the report until the worker takes it
  (`LossStays`).

`ModulesProofs` has the parts that `MCModules` puts together:

- Stepper, for any travel and limits (`StepperAssumption`): `StepperInvariant`,
  `StepperStaysInTravel`, `StepperIdleIsAsReported`. `StepperReportInv` adds what the
  reports of a motion under way already say, which the report of the idle motor completes.
- RFID, for any cards, blocks and payloads (`RfidAssumption`): `CardGoodIsOnCard`,
  `CardNeverJoined`. `CardInv` adds that a card being written has the blocks before the next
  one and is not the subject of a good report (`WritingInv`), and that a card being read
  back after a faultless write has them all (`ReadBackInv`); `RecordIsRead` shows that the
  record format gives back what was encoded.
- Pairing window, of any length (`WindowAssumption`): `WindowInvariant`,
  `PairingStaysInWindow`. `RoundInv` adds that an open window was not over when the worker
  last looked, and that a worker that was not blocked looked less than a round ago.
- Line framing, for any limit and lines of any length (`FramerAssumption`):
  `FramerInvariant`, `FramesComeFromLines`. `BufferInv` adds that the buffer is the line
  begun, or that line is too long and being discarded.
- LiDAR, for any regions, steps and servo limits (`LidarAssumption`):
  `LidarUncommandedScanIsClean`, for any timing budget and any start of the servos, and
  `LidarScanCoversRegion`. `WaitInv` says that of a scan that began with the servos where they
  were commanded the wait that is left covers the way they still have to go and a whole
  measurement after it, and that a measurement in which a servo moved ends before the wait does. `CoverInv` says that an
  undisturbed scan stands at a position of the serpentine, has recorded exactly the positions
  before that one (`SweepAt`) and has sent as many chunks as those fill. The lemmas about
  one axis (`SweepOn`, `SweepStep`, `SweepOrder`, `SweepEnds`) say that the marks the planner
  steps on are in order and none is left out; `NextInRow`, `NextRow` and `LastOfScan` put rows
  together.
- LiDAR view, for any scans, chunks and losses (`ViewAssumption`): `ViewShowsTheScan`. `ViewInv`
  adds that what is under way is in order and behind what is shown (`TurnInv`); that nothing older
  than a scan is shown once its first chunk (`FirstChunkInv`) or its start after a heard end
  (`StartInv`, `EndInv`) has come; and that of a scan of which nothing was missed or forgotten
  the first chunks are shown and the others are under way (`HeardInv`, and `ForgetInv` for the
  stores that come and go).

Proof attempts corrected the models in two places: the serpentine's marks, where
rows swept back start at the far end and so stop at other positions when the step leaves a
remainder (`Marks`), and `OnEvent` of `DesktopLink`, whose cases overlapped.

Only model-checked: liveness under fairness (the prover has no rule for it that would
reach these properties).

## Findings

Each is shown by a run whose property quotes the repository.

- `MCFwStarve`: rediscovery blocks in `emit_reliable`, the sender on the work queue, the
  worker on the incoming queue; with a flood all three wait for each other.
- `MCLidarBlur`: the travel of the servos is reckoned from the angles last commanded, as if
  they were there. Before the first command they are anywhere (servo_position.rs:90), after one
  they may still be on their way, and when a servo is commanded by its own id nothing is
  reckoned; a reading that began while they still moved is then recorded. So is one that
  the main loop reads late: `now` is the time of the poll (lidar.rs:285).

More things the models show as the code does them, without a run of their own:

- Session: after `DeviceRejected`, and at the last sequence number, `sign` returns `None`, so
  `SendData` sends the WebView's commands as plain lines (session.rs:354-355 says of the
  first that nothing is sent; auth_link.rs:4-5 that every command is signed).
- Pipeline: `report_drops` clears the counters and then hands the report on with `try_send`
  (`ReportDrops`, `HandOn`), so a report that meets a full work queue takes its totals
  with it.
- Bluetooth worker: callbacks lost before a link is served are not made good by a
  reconnection (`lost`).
- Pairing window: the callback reads the flag alone (`accepts_pairing` is used by tests only),
  so a worker that is blocked at the incoming queue keeps pairing open past the window
  (pairing_window.rs:3-6 promises a fixed time); where advertising fails, or the callback
  that reports the start is lost, the window stays shut until the next boot.
- Wi-Fi listener: a failed write of `send` empties the slot and the WebView is not told
  (wifi_transport.rs:157); `connected` and the events are written after the lock was
  released, so a replaced worker's late clean-up marks its successor as disconnected
  (wifi_transport.rs:300). `DesktopLink` has both at rest, as "News".
- Keys: after a boot with an unreadable key that becomes readable again, provisioning hands
  out the stored key, which the running device does not use (device_key.rs:118); after a
  failed save, clearing again reports `KeyCleared` while the file still holds the key
  (device_keys.rs:76).
- Desktop: besides the four races of `races`, a failed serial `Connect` keeps its event
  listeners, and a handshake that cannot be begun leaves link and reader behind.
- Stepper: `pivot_point` stays at a limit that is changed while the motor rests there; a
  coil release that fails loses the idle report and leaves the coils energised;
  `SetMode Moving` takes up the old target again.
- RFID: a block that cannot be authenticated is left out, so that the data behind it move
  up; the header block is written first, so that an interrupted write leaves a mixture
  of two records; what is read back is not compared with what was written; the encoder's
  `TooLong` cannot happen.
- LiDAR view: when the start of a scan is missed, a replayed "Scanning" empties the map of the
  scan that is running; when its first chunk and its start or the end before it are
  missed, the map mixes two scans; and a registry that is emptied in the middle of a scan, or
  after one, takes the chunks that were shown with it, which no rediscovery brings back.
  `Unnoticed` and `AllHeard` exempt these.
- Tick errors: a new kind of error within five seconds of the last is only counted, and a
  report that meets a full queue takes its count of suppressed errors with it.

## What is not modelled

- Cryptography itself, JSON encoding, log texts; messages too long to encode.
- ESP-IDF, Bluedroid, the TCP stack and the operating system: only what the code sees of
  them (events, loss, ends of streams).
- The main loop's deadlines and statistics (`schedule.rs`): pure arithmetic; the
  pipeline takes only from it whether a tick is late.
- The tick error reporter: one counter and one time per module, no step of another actor in
  between; the unit tests reach every branch.
- What the sensor makes of a timing budget or a distance mode that changes during a
  measurement; self tests and offsets of the servos. A servo slower than
  `SERVO_MS_PER_DEGREE`, of which the code says itself that it is not measured.
- How the desktop tells lines apart (`line_classifier.rs`) and lists ports, a query of the
  operating system (`bluetooth_ports.rs`).
- The IMU filter (floating point), LED, button, joystick and remote receiver (one-step
  reactions).
- Board wiring, driver set-up (`core/hardware`, `board`): static configuration.
- WebView rendering, and the stores that only keep the last event.
- The test programs (`tests/hardware-probe`) were read as evidence of intent.
