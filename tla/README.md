# Formal models of soundspy

soundspy measures sound levels with ESP32 boards and shows them on a web
dashboard. The boards ("nodes") publish levels and status over MQTT and serve a
PCM stream over TCP; the dashboard keeps their live state, relays the streams to
browsers and fires alerts. These TLA+ modules model the part of it where threads,
messages and failures meet, TLC checks them on small instances, and TLAPS proves
the most important invariants for all of them.

## The system

| Component | Source | State | Operations |
|---|---|---|---|
| Live node state | `dashboard/node_state.py`, handlers of `dashboard/app.py` | `_nodes` (a defaultdict), `system_logs` | status, log and data messages; list, history, disconnect, rename and threshold requests |
| Audio relay | `dashboard/audio_relay.py` | `_relays`, `_listeners`, one thread per relay | `update` at every status, browsers coming and going, the streaming loop |
| Alert engine | `dashboard/notifications.py`, tables of `dashboard/db.py` | breach state per rule (memory); rules, channels, ticks, history (SQLite) | `evaluate` per data message, a dispatch thread per firing, the settings API |
| Node table | `dashboard/db.py` | names and thresholds (SQLite) | rename, threshold, generated names |
| Database start | `dashboard/db.py` | the schema, an earlier version's table and JSON files | create, migrate the channels, import the files |
| MQTT link | `dashboard/app.py`, the broker | connection, retained statuses, messages on their way | connect, publish a command |
| Level history | `dashboard/node_state.py` | one point per second and an accumulator | add a sample |
| Node firmware | `firmware/audio.cpp`, `firmware/soundspy.ino` | I2S capture, PCM ring, settings, watchdog | capture task, stream task, commands, publishing |
| Legacy and recovery firmware | `node_firmware/` | boot stage, crash counter, partitions | boot, OTA, recovery |
| Browser page | `dashboard/templates/` | node cards, connection | socket events, polling, buttons |

How they interact. A node's retained status reaches `on_message` in the MQTT
thread, which applies it to the live state, names the node in the database, tells
the relay the node's address and whether it should stream, and pushes the new
state to every browser. Data messages update the live state and are handed to the
alert engine, which starts threads that notify. Requests of browsers run each in
its own thread and touch the same state. The relay's threads follow what the last
status told them and the number of browsers.

What is hard here: `node_state` takes its lock once per function, so a handler
that calls three of them can be interrupted twice; the live dictionary creates a
key when it is read; relay threads read their fields without a lock; a rule and its
channels are two transactions; rules are read once per message and used later; a
database error ends a message handler in the middle; sockets fail at every step;
a process restart keeps the database and nothing else. On the boards, tasks on two
cores share a ring without a lock, a higher-priority task runs in the middle of a
settings change, counters are reset in several places, and power may go between any
two writes to flash. Between them, the broker keeps one status per node, sends it
again after every connection, and drops what is on its way when a connection breaks;
a node's status and its levels are two messages; and the process may be killed
between two statements of a migration. `PROJECT.json` lists these hazards line by
line, with the properties that watch them.

What makes each part correct:

* live state: only soundspy boards are listed, and only a user or a restart takes one
  off the list; what browsers were told agrees with the last status; a silent node
  goes offline;
* relay: the number of streams is bounded; nobody listening means nothing streams;
  whoever should be streamed is, after any failures;
* fleet: a dashboard that has handled its messages agrees with the broker; a board
  does what it was last told; a board left alone is shown as it is;
* database: no call undoes what another set meanwhile; a generated name is free; a migration that is
  cut loses no row; the history holds every level of every second once;
* alerts: a rule that is off does not fire; firings keep their pace; a node that
  stays loud is reported; tables stay consistent;
* firmware: clients hear the samples in order, none twice; the watchdog acts when it
  should and stops when it should; an awake node captures, a sleeping one does not;
* legacy firmware: whatever is installed and whenever power goes, the board comes to a
  stable image or to recovery.

## Modules

| Module | What it is |
|---|---|
| `NodeState` | live node state with the MQTT thread and HTTP threads |
| `NodeRegistry` | abstract specification: how boards come on the node list and off it |
| `NodeStateProofs` | theorems about `NodeState` and `LevelHistory` |
| `Fleet` | nodes, broker and dashboard together: status, levels, commands, losses, restarts |
| `FleetProofs` | theorems about `Fleet` |
| `Database` | start and migrations of the database, the table of nodes under several threads |
| `NodeTable` | abstract specification: what may happen to the rows of nodes |
| `DatabaseProofs` | theorems about `Database` |
| `LevelHistory` | a node's history: one point per second |
| `AudioRelay` | relay threads, listeners, network |
| `AudioRelayProofs` | theorems about `AudioRelay` |
| `Alerts` | rules, evaluation, dispatch, settings API |
| `AlertsProofs` | theorems about `Alerts` |
| `MCAlerts` | the rule configurations TLC is given |
| `AudioCapture` | firmware: capture task, I2S watchdog, settings |
| `AudioCaptureProofs` | theorems about `AudioCapture` |
| `PcmStream` | firmware: the PCM ring between capture and stream task |
| `PcmQueue` | abstract specification of the ring: a bounded FIFO |
| `PcmStreamProofs` | theorems about `PcmStream` |
| `LegacyBoot` | legacy firmware: boot, crash counter, OTA, recovery |
| `LegacyBootProofs` | theorems about `LegacyBoot` |

The modules of a component hold, next to some definitions, a variant commented
"Faulty". It is not used by the specification: it is the definition with a
plausible bug in it, and each property was seen to reject one of them.

### NodeState

A step is a critical section: `ReceiveStatus`, `ApplyStatus`, `NameStatus`,
`ViewStatus` and `Announce` are `handle_status`; `ReceiveData` to `ViewData` are the
rest of `on_message`; `ReceiveLog` is `handle_log`, which has one step because only
its first call touches shared state. `PollStart`/`PollNode` and
`HistoryStart`/`HistoryRead` are the requests that look twice; the others are one
step. `Abort` is an exception out of the database. `Tick` ages the entries and
`Restart` is a crash or redeployment of the process.

`known` is the key set of `_nodes` and `entry` what each key holds, or would hold
when created. The five kinds of status are those of soundspy's firmware (awake,
asleep), of another application's board, of the recovery firmware, and the broker's
last will; only the first two carry `app: "soundspy"`, and only they a stream port.
Time stamps are only compared with a time-out, so the entry keeps ages that stop
at the time-out. `accepted`, `forgotten` and `lastStatus` are history variables.

`NodeRegistry` is the promise about the list alone. `Accept` lists a board, `Forget`
(a user's request) and `Restart` are the only ways off, and there are two ways back:
the next `Accept`, and `Touch`, a worker that took the board up while it was listed and
reads or writes its entry after the forget. `Held` is the refinement mapping of `held`:
a request holds what it has still to look at, the message thread the board of its
message, except a soundspy status that it has not applied yet, which is an `Accept`.
So a message or a request that begins after the forget cannot bring the board back.

The environment is as general as the broker allows: any message for any board at
any time, duplicated, delayed or reordered. Levels, history samples, versions and
addresses are left out. A generated name is `auto` whatever its number.

### Fleet

Here a handler of the dashboard is one step and the messages travel: `inbox` is what
is on its way from a node's topics to `on_message`, in order, `cmds` what is on its
way to the node. A message is lost with the connection it travels on: `LoseLink`,
`StopBroker`, `Expire`, `Restart`. `on_connect` subscribes, which brings the retained
statuses again. The board is `onCommand` and
`handlePost` (both `apply` a patch, save the settings and publish the status),
`publishLevels` (the levels are taken before the connection is looked at, so those
taken while offline are gone), `PowerOn` with the settings of NVS; `Connect` and
`PeriodicStatus` are esp32-base's. A board that falls asleep still has up to two
messages of levels to publish, what was summed up and the chunk being read
(`leftover`): they come after the status that says it sleeps.

Broker and esp32-base are not in the repository. Assumed of them: order within a
connection, a retained status at connect and every `StatusPeriod`, a last will when a
session ends without a goodbye, and the end of the old session before the new one is
served, and that it runs the handlers of messages and of HTTP requests one after the
other, from `loop()`. Whether retained messages survive a restart of the broker is left
open.

A patch is what it makes of `awake`: `"sleep"`, `"wake"`, or `"other"` for one that
leaves it as it is, which saves the settings and publishes a status like the rest. It
comes as a command of the dashboard (`api_control`), as one of another client
(`publishCommand`: `{"cmd":"set"}` has no button), or as `POST /api/audio`
(`handlePost`), which a board without the broker serves too. A patch that is refused
changes nothing and is no step. `ResetInCommand` is a reset while a command is handled,
before the settings are saved or after; the same in `handlePost` is a patch of a board
that has lost its connection, and then a reset. `wanted` is the last setting asked for
that was not lost: what was asked for by commands is superseded by later ones, a POST
is superseded by commands that are still on their way when it is handled, and when the
rest of the commands is lost it is what the board does. So the property says that a
lost command is gone for good, and that nothing else changes `awake`.

Time: a tick waits until every message that is due has been handled and every board
that is online has published. It is longer than the longest `publish_ms` (5 s).

### Database

One SQL statement is a step, except that a write and its commit are one (SQLite has one
writer). `upsert_node` is `Read`, `ChooseNumber` and `Update`, `Insert` or `Refuse`;
`get_node_name` is `Lookup`, `upsert_node` and `Reread`. `sqlite3` begins its
transaction at the first write, so what the SELECTs saw may be old by then: `seen` and
`pick` are the local variables that carry it. `init_db` is `Schema`, `Columns`,
`CreateSpare`, `Copy`, `DropTable`, `RenameTable` and `Import`; `executescript` commits
after each statement, and `Kill` may come between any two. The initial states are a new
database, one of this version and one with `env_key`, with any JSON files. A name is
its number, or one of those that have none. `stored`, `migration` and `overtaken` are
history variables.

`NodeTable` is the promise about the table: rows stay, a call changes one column of one
row, a created row has the name it was given and the default threshold or a generated
name. It does not promise that a name lasts: `FollowHost`, which every status brings,
also replaces a name that a user gave (`UserRename`), as the code does and docs/SDD.md
does not say, see below.

### LevelHistory

`update_node_data` on `history_acc` and `history`. A level is in units of 10 dB, a
power therefore a power of ten, and a mean is compared by squares, so that the
logarithm and its rounding are exact in integers; the code rounds to 0.1 dB instead.
`all` remembers the levels received, and the property computes from it what the
history should be: `Starts` are the places in it where a second begins, `Points` the
means from each to the next. The clock may be set back.

### AudioRelay

A relay thread is a program counter: `top` (the test in `_run`), `connect`,
`header`, `loop` (the test of the streaming loop), `read`, `retry`, and `dead` when
an exception leaves `_run`. The test and the use of what was tested are separate
steps. `Update` is `update`, with its three cases; the listeners are a set of
browsers, whose size is the code's counter: Socket.IO calls the disconnect handler
once per connected browser, so the floor at zero is never used. The network is the
set `up` of addresses that answer; `Strangers` are addresses where something answers
that is not a node, whose first line may end the thread (`BadHeader`:
`info.get` of JSON that is no object) or be no JSON at all (`Fail`).

### Alerts

`Evaluate` reads the enabled rules; `Skip`, `Quiet`, `Hold` and `Fire` are the four
ways one rule's turn ends, in the order of their ids; `NoChannels`, `Send` and
`LogAlert` are the dispatch thread; `UpsertRule` and `SetRuleChannels` the two
transactions of saving a rule. A message is loud or quiet for every rule. Ages
saturate where comparisons stop telling them apart, the breach counter is kept
modulo the rule's count, and of the breach times the newest `RepeatCount` are kept.
The foreign keys are enforced as `PRAGMA foreign_keys=ON` does: deleting a rule
cascades to its ticks and is refused when it has history. A disabled rule is saved
with the same settings, as the settings page does. `Cooldown`, `Every` and the other
numbers are one for all configurations: an edit changes scope, condition and kind of
cooldown. `sinceFire` and `sinceCount` are the history that `SpacedFirings` measures the
pace with, whatever was edited in between. `Threads` bounds the dispatch
threads running at once: a firing waits for a free one.

### AudioCapture

`Sleep`, `Restart`, `GoOn` are the top of `captureTask`'s loop; `Open` and
`OpenFails` the outcome of `i2sStart`; `Sound`, `Silence`, `GiveUp` and `Stop` a read
and what `noteLockup` makes of it; `Reinit` and `ReinitFails` the start after the
watchdog's delay. `Apply`, `Assign` and `Save` are `Settings::apply`, called from
`loop()`: it raises `s_restart`, copies the settings and stores them in NVS. The two
tasks share a core and the capture task has the higher priority, so it runs between
any two of those. `Reboot` is a reset: NVS survives. Left out is that `begin` may find
no memory for its buffer: it then starts no task at all, and the node measures nothing
until it is reset.

Time enters only as `millis() - s_graceUntil`, read as a signed number: `clock`
counts it modulo `Wrap`, so the model has the far side of the wrap, where a channel
started long ago is in its "grace time" again. A failed read and a silent chunk do
the same. `quiet` and `row` are history variables: what the watchdog is documented
to count, against `lockups` and `reinits`, which it counts.

### PcmStream

A step is one access to a shared word, `head++` is a load and a store, and copying a
chunk takes a step per sample. The tasks run on two cores. `s_streaming` is read once
per chunk of the capture task: a chunk begun while it was false does not touch the
ring and is no step. The `delay(30)` of `ringRelease` is taken to outlive the chunk in
flight, which lasts 23 ms: `Free` waits for it, and the faulty variant `FreeAtOnce`
shows that the property depends on it. `malloc` may fail (`Refuse`) and hands out
cells of `Junk`.

`WiFiClient` is external. A write may fall short, the peer may hang up, and the
value of a closed client as a condition is left open, so that `Release` may come
late or never; nothing is claimed of it. `Overlap` says whether a client may be
accepted while another is served. Without, the ring implements `PcmQueue`, which is
what the run checks; the theorems on memory and types hold with it too. With it the
indices may claim stale samples, see below.

### LegacyBoot

The main firmware's way through `setup()` is a stage: `Count` (the crash counter in
NVS), `GoOn` or `GiveUp`, `ConnectWiFi`, `ConnectMQTT`, `MarkValid`; in `loop()`
`Elapse` and `Confirm` are the stability window, which is measured from the first
connection and not restarted. `GiveUp` clears the counter before `IntoRecovery`
selects the factory partition, as the code does, and a power cut may come in
between. `BeginOTA`, `FinishOTA` and `FailOTA` are `performOTA` of both firmwares;
`handleBoot` and `handleSave` the recovery portal. `Reset` may come anywhere.

An image is what it does: crashes before it connects, after, or not at all.
Bootloader and `esp_ota_ops` are external: probation and rollback of a new image (or
its early confirmation by the core), falling back from an image that does not boot,
refusing to select one. What is known of the slots may be erased when the factory
partition is selected. The initial states have a whole image or none in `ota_0`,
since `flash_initial.sh` writes the main image to an address (0x90000) that lies in
the factory partition of `partitions.csv`.

## Runs

Every passing run explores its whole state space; none limits the depth.

| Run | Shows | Bounds | States |
|---|---|---|---|
| `node_state` | the invariants of `NodeState`; it implements `NodeRegistry`; a silent node goes offline | 1 board, 2 request threads, data time-out 2 ticks, status time-out 3, 1 log entry | 475,032 |
| `fleet` | the dashboard agrees with the broker, a board does what it was last told, one left alone is shown as it is | 1 board, data time-out 2 ticks, status time-out 4, status every 3, 2 messages and 2 commands on their way | 218,468 |
| `database` | the table implements `NodeTable`; generated names are free; a cut migration loses no channel | 2 boards, the message thread and 1 request, 1 given name that looks generated, 2 thresholds, 1 channel | 895,754 |
| `level_history` | the history is the means of the seconds that ended | 2 levels 20 dB apart, 2 points kept, 4 seconds, 5 levels received | 149,796 |
| `audio_relay` | stream bound, late chunk, sockets; streams nobody wants end, wanted ones run | 2 nodes for 1 slot, 2 browsers, 3 addresses, one a stranger's | 8,992 |
| `alerts` | late firing, foreign keys | 1 rule edited between sustained and repeated, 1 channel, 1 request thread, 1 dispatch thread | 1,528,680 |
| `alerts_live` | firings keep their pace; a node's own rule fires while it stays loud | 2 nodes, 1 rule edited between global and one node's, between kinds of condition and of cooldown, no channels | 149,324 |
| `audio_capture` | the watchdog's limits; the channel follows `awake` | 2 slots, 2 silent reads, 2 reinits, clock of 4 ticks, 1 of grace | 22,848 |
| `pcm_stream` | the ring implements `PcmQueue`, no write to freed memory, the stream flows | ring of 4, stream chunks of 3, capture chunks of 2, indices modulo 8, 2 sample values | 59,697 |
| `legacy_boot` | the selection stays bootable, recovery is earned, the board is never bricked | 2 slots, 3 kinds of image, crash limit 2 | 18,016 |
| `alerts_global`, `fleet_sleep` | a disagreement each, see below | as small as the counterexample allows; `fleet_sleep` as `fleet` | |

Why the bounds are enough to be interesting. Boards do not share anything in
`NodeState` except the thread that handles them and the key set; one board with two
request threads and a message thread has every interleaving of the three on one
entry, and the proofs cover any number. A data time-out shorter than the status
time-out keeps the order the code has (10 s and 90 s). In `Fleet` a board's
messages, session and settings are its own; what boards share is the broker and the
link, which fail for all at once. Two messages on their way are a status and the
levels that follow it, two commands one that contradicts the other, or one that asks for
a setting and one that does not; the theorems hold
for any bound. The status time-out exceeds the period by less than the code's factor
of three, which is the harder case. In `Database` two boards are what a number can be
taken by, two threads what a race needs, and the given name 2 is one that generation
meets; the proofs have any number. Two points kept make the oldest fall out, and five
levels give a second with three of them next to two others. Two nodes for one slot reach
the refusal; two addresses make a node move, the third gives it to a stranger. With
one rule the breach state is the one that several nodes, edits and dispatch threads
share; rules interact only through the order of their evaluation. Pace and liveness
need the second node and the edits, but no channels, which the other run has. Two silent reads
and two reinits are the least where a count can be wrong by one and still be reset
in the middle; a clock of four ticks has both halves of the signed range. A stream
chunk of 3 in a ring of 4 straddles the end of the ring like 2205 in 8192, and
indices modulo 8 wrap after two rings. A crash limit of 2 lets a rollback, a
recovery and a second update fall into one count.

### Fairness

* `NodeState`: time passes; the MQTT thread, once inside a handler, is scheduled.
  Messages and requests are never forced to arrive.
* `Fleet`: boards that are on connect, publish and obey; the broker expires sessions;
  the message thread runs and paho's `loop_forever` reconnects; time passes. Nothing
  is owed by users or failures: `LiveNodeShown` is about a fleet they leave alone,
  with broker and board up and a dashboard that did not find the broker down when it
  started.
* `AudioRelay`: each relay thread runs. Its socket calls return or raise within their
  time-outs (3 s and 5 s), which is why `Run`, including `Fail`, may be weakly fair.
* `Alerts`: time passes, the message thread and the dispatch threads run (a dispatch
  ends: every sender but SMTP has a time-out, so an SMTP server that never answers is
  outside this assumption), and every node's messages are taken now and then: strong
  fairness of `Evaluate`, since the client hands over messages in the order they came
  and a node publishes several a second.
* `AudioCapture`: the task runs, `apply` returns, and opening the channel succeeds
  now and then if it is tried for ever (strong fairness of `Open`).
* `PcmStream`: both tasks run. Nothing is owed by clients: connecting, hanging up and
  the release of a closed client are not fair.
* `LegacyBoot`: bootloader, `setup()` and downloads go on, network and broker come
  back, a bad image does crash. Resets may come for ever, but not for ever at the
  same instruction: strong fairness of counting, giving up, switching to recovery
  and confirming an elapsed window.

### Where code and documentation differ

| Run | What TLC finds |
|---|---|
| `alerts_global` | A quiet node resets the timer of a global sustained rule: it never fires for a node that stays loud. |
| `fleet_sleep` | The levels published after the status that a node sleeps clear the sleeping flag; ten seconds later the node, asleep with a fresh status, is shown offline until its next one. |

Found on the way and not given a run of their own:

* live state: data that passed the `is_known` test before its node was forgotten
  recreates the entry without any status, and the node is back, online. A poll that
  copied the node list puts a forgotten node back as a fresh offline entry
  (`api_nodes`, the same defaultdict access). docs/SDD.md:46 has the name follow
  the hostname "until renamed"; `handle_status` gives the hostname to `upsert_node` at
  every status that carries one, and so undoes the renaming. The models have it as the
  code does (`NameStatus`, `Rename` of `Database`), and no property claims otherwise.
  When the database raises in the middle of a handler, browsers and relay are not told
  until the next message (`Abort`).
* fleet: a dashboard that finds the broker down when it starts never connects
  (`ConnectFails`: `connect` raises, the thread ends, `/health` still answers 200). A
  command published while either side is disconnected is lost, and the API answers
  "success"; a node that is reset after it saved a command has done it, and its status
  says so only when it is back. A dashboard started while a last will is retained does not list that
  node until it is back: a last will carries no `app`. A woken node's relay becomes
  active with its next status, up to one period late, because the status that says
  it woke comes before its first levels.
* database: the migration that drops `env_key` loses the ticks of all rules, since
  DROP TABLE with foreign keys on deletes the rows first and `alert_rule_channels`
  cascades (running `init_db` on such a database confirms it). Killed before DROP
  TABLE, it leaves `notification_channels_new` and every later start fails; killed
  before the rename, the next start creates an empty channels table and the rows stay
  in the other one. Two threads that number a node at once choose the same `node-N`
  (`overtaken`). `node_thresholds.json` is not imported without `node_names.json`.
* history: the last second of a burst becomes a point only when the next level
  comes, and is lost at a restart. When the clock is set back the points are out of
  order.
* relay: the limit counts relays ever created, so nodes are refused while none runs.
  A node that moves while its old address goes on answering is streamed from there
  until that stream fails.
  A stranger's first line that is JSON but no object ends the relay's thread for good
  (`BadHeader`); `ActiveStreams` excludes it by its premise.
* alerts: a rule that has fired cannot be deleted, the foreign key of `alert_history`
  refuses (`DeleteRule`'s guard), and the API answers with an error. A rule that
  fires between the two transactions of its save reaches none of its channels. A rule
  switched off while loud keeps `sustained_since` and fires at once when it is
  switched on again. A firing of a rule without channels leaves no row in the alert
  history. The senders do not look at HTTP status codes, so a refused notification
  counts as sent and a channel test as passed; SMTP has no time-out. Cooldowns are
  measured by the wall clock.
* firmware: `apply` raises `s_restart` before it assigns the slot; the capture task may
  restart in between, with the old one, and stays there. A client that replaces another
  resets the indices while the capture task may be inside `s_head++` on the other
  core: the old head comes back and the client is sent stale ring contents until the
  tail has caught up (`PcmStream` with `Overlap`). If a closed `WiFiClient` is
  false as a condition, the ring of a client
  that hung up is not released until the next one.
* legacy firmware: "Boot main firmware" promises "the latest valid OTA partition" and
  takes `ota_0` whenever it is marked valid, or nothing is known; when a failed update
  has left `ota_0` half written, the board comes back to recovery although `ota_1`
  is whole. Commanded reboots count as crashes. "Save & Reboot" reboots into recovery.
  The portal stores `mqtt_port` as a string, the main firmware reads an integer. No
  code reads the buttons that the header names as triggers. `flash_initial.sh` writes
  the main image into the factory partition.

## Proofs

All theorems hold for any values of the constants that satisfy the named
assumptions (positive time-outs; finitely many nodes; ids are numbers; ...).

* `NodeStateProofs`. `TypeCorrect` needs to know that a thread inside a handler has a
  board and a message of the right kind in its hand (`LocalOK`). `AcceptedOnly`
  strengthens `OnlyAccepted` by what is still to come: the board in a handler that
  has passed the test is accepted, or its message will accept it. `RegistryImplemented` is
  the step simulation, for any boards and threads: a thread takes up only boards that
  are listed (`RegistryTakeUp`), and where its steps write `known` it touches a board it
  has in hand (`RegistryTouch`); for that it needs of `LocalOK` what the threads hold. `PushesAgree` carries, through the handler, that the entry still
  agrees with the message or has been recreated fresh, so that the view read back
  agrees too; `RelaysAwake` carries the same for the relay. `OfflineUntilHeard` is the
  safety half of `SilentGoesOffline`: the entry changes in five places, and only the
  two that apply a message of that board can bring it back online.

  Of `LevelHistory`, `HistoryIsExact` needs to know what the accumulator holds: the
  count and the energy of all levels from the last start on (`AccOf`), which are of one
  second. The lemmas say what one more level does to a sequence of levels: where its
  seconds begin (`StartsAppend`, `StartAppend`), its sums (`EnergyAppend`), its points
  (`PointsAppend`, `PointsSame`) and the newest of them (`NewestAppend`).
  `HistoryTypeCorrect` needs besides that the energy is at most count times full scale,
  for then the mean is a level (`MeanExists`, from the squares and the order of the
  powers). The recursive definitions are reached by `Iterate`, which says that a step
  function has an iteration, and by `Induct`, in which the set of the naturals in
  question takes the place of a predicate; both rest on every set of naturals having
  a least member.
* `FleetProofs`. `CommandsObeyed` strengthens the property to the whole queue: the last
  queued command that asks for a setting is the wanted one, or there is none and the
  node has done it (`Commanded`). A lemma for each way a queue or `awake` changes says
  that this stays so: a command sent, done, cut off by a reset, or lost, and a POST. `BrokerAgreedWith` does the same on the way back: the last status in
  a node's inbox is the retained one, or there is none and the entry agrees (`Agreed`);
  the lemmas are about appending to and taking from a sequence with such a last
  element. "The entry agrees" (`Fits`) includes the sleeping flag and the relay, which
  levels that come late may change too. Both hold for any number of boards and any
  bounds. `SteadyStaysShown` is the safety half of `LiveNodeShown`: from `Steady`, where
  nothing on its way contradicts what the node does, the node stays shown as it is until
  users or failures interfere, provided a status comes more often than the status
  time-out and the data time-out is longer than a tick (`TimesFit`, which the code's
  30 s under 90 s and 5 s under 10 s satisfy). `Steady` bounds the ages: the entry's
  status is as old as the node's last one, or that one is still on its way. TLC finds
  `LiveNodeShown` true with `Steady` for `Shown` as well: `Steady` is what the fleet
  comes to rest in.
* `DatabaseProofs`. `Threaded`: threads are in `db.py` only while it serves, and what a
  thread has seen is still there, since no row is ever deleted. From it
  `TableImplemented` is a step simulation, in which only the writing steps change the
  table and `Refuse` is what keeps `Insert` from being an overwrite. `NumbersFresh` needs
  that a number is chosen above all numbers there are (`Numbered`); `ChannelsSafe` a
  case for each place where the migration may have been cut (`Migrating`).
* `AudioRelayProofs`. `RInv`: only keys of `_relays` have threads, their number is
  bounded by the test in `update`, a socket belongs to a thread inside `_stream`, and a
  thread enters the read only when the stream is wanted. `StreamsBounded`,
  `LateChunksBounded` and `SocketsHeld` follow. `UnwantedWindsDown` and
  `ActiveDrawsNear` are the safety halves of `UnwantedStops` and `ActiveStreams`: a
  number of steps (`StepsToClosed`, `StepsToStream`) that each step of the thread makes
  smaller and nobody else makes larger. The loop's test counts browsers, so that
  `ActiveDrawsNear` needs that there are finitely many (`Countable`).
* `AlertsProofs`. `AInv`: a rule that is off but still to be evaluated has not fired
  since, because firing takes it out of the list; foreign keys hold because deletions
  cascade and inserts are checked. `LateFiringsBounded` and `ReferencesHold` follow.
  `FiringsSpaced` needs that the time `evaluate` remembers is that of the last firing,
  whatever was edited in between, and that its breach counter, which wraps, is the number of
  breaches since the last firing in count mode while those are too few (`Remembered`). `TypeCorrect` and `PruningExact` need
  that the breach times are in the order of time (`TimesOK`): then those inside the
  window are the last `Recent` of them, and what is kept stays in order and below
  `RepeatCount`. The clock of this module is never set back.
* `AudioCaptureProofs`. The histories of the properties are tied to what the code
  counts: `row = reinits` and `lockups <= quiet` (`Counted`). Neither property is
  inductive without it. `ReinitsBounded` and `ReinitsJustified` follow for any
  limits, grace time and width of the clock. `AsleepSettles` is the safety half of
  `FollowsAwake` for a sleeping node, by such a number of steps (`StepsToOff`).
* `PcmStreamProofs`. `RingLive` says that a ring exists while either task is anywhere
  near it; it gives `WritesLive`, overlapping clients included, and `NoStandoff`, the
  safety half of `StreamFlows`: one of the tasks can go on. `RingBounded` holds
  without overlap: `Indices` adds that a sample about to be stored has room and that
  the register of `head++` is the head. The arithmetic of the wrapping indices is kept
  in lemmas about `Plus` and `Gap`, so that the steps reason about those names only.
  `QueueImplemented` is the refinement, for any sizes (the indices wrap at a multiple
  of the ring, as 2^32 is) and without overlapping clients: the queue is read from the cells between tail and head
  (`Contents`), and `Held` says that the cell at the head is filled before the head
  passes it and that a packet under way agrees with the cells it was copied from until
  the tail passes them. The step that stores the head is then `Put`, advancing the tail
  `Take`, writing the packet `Deliver`, and releasing the client `Clear`; every other
  step leaves the queue alone. The lemmas about cells (two indices that are unread at
  once never share one, although both wrap) and about `Slice` carry it.
* `LegacyBootProofs`. `Selected`: what runs is what is selected, unless the selection
  does not boot; an update spares the running slot, therefore the selected one.
  `Earned`: the counter never runs ahead of the unstable starts, and is zero on the
  way into recovery.

Only model-checked: the liveness properties (`SilentGoesOffline`, `LiveNodeShown`,
`UnwantedStops`, `ActiveStreams`, `NodeRuleFires`, `FollowsAwake`, `StreamFlows`,
`NeverBricked`), since fairness and ENABLED are beyond the prover. Of six of them the
half that needs neither is a theorem: `OfflineUntilHeard`, `SteadyStaysShown`,
`UnwantedWindsDown`, `ActiveDrawsNear`, `AsleepSettles` (a sleeping node only; that an
awake one captures again rests on fairness alone) and `NoStandoff`. That the next step
is possible and in the end taken is left to TLC.

## Not modelled

* The browser page. It asks for the node list once, when it loads, and then redraws
  what the events carry; it does not ask again when its socket reconnects, so events
  missed in between are only made good by the node's next status or data. The rest is
  charts, layout and audio playback.
* Metering on the boards: band filters, sums and `takeLevels` are arithmetic on
  samples. Gain, `publish_ms` and `stream_port` are stored and reported.
* The legacy firmware's metering, streaming and sleep, and the credentials of its
  recovery portal.
* Message formatting, the platform senders (a sender succeeds or raises), the test of
  a channel, which changes nothing, and the order of the alert history.
* Build scripts, case and board files.
