------------------------------ MODULE NodeState ------------------------------
(***************************************************************************)
(* The dashboard's live view of the nodes: dashboard/node_state.py and the *)
(* handlers of dashboard/app.py that read and write it.                    *)
(*                                                                         *)
(* Threads.  The MQTT thread runs on_message for one message at a time.    *)
(* Every HTTP request runs in a thread of its own (Callers).  node_state   *)
(* takes its lock once per function, so the steps below are the critical   *)
(* sections of those functions, and whatever a handler does between two of *)
(* them may be interleaved with the steps of the other threads.            *)
(*                                                                         *)
(* Data.  The dictionary _nodes is a defaultdict: READING an absent key    *)
(* creates it.  It is modelled by the set known of its keys and a total    *)
(* function entry that maps an absent key to what the factory would give.  *)
(* Time stamps are only ever compared as "now - t < T", so an entry keeps  *)
(* the age of its last data and status, saturated at the timeout; a stamp  *)
(* that is None is an age at the timeout.  Levels and history are not      *)
(* told apart here.                                                        *)
(*                                                                         *)
(* The definitions commented "faulty" are not part of the specification:   *)
(* each is a variant of the definition after it that one property below    *)
(* must reject.                                                            *)
(***************************************************************************)
EXTENDS Naturals, Sequences

CONSTANTS Boards,         \* the chip ids publishing on the broker
          NoBoard,        \* the MQTT thread has no message in hand
          Callers,        \* HTTP worker threads
          MqttThread,     \* the thread that runs on_message
          DataTimeout,    \* DATA_TIMEOUT_S, in ticks
          StatusTimeout,  \* STATUS_TIMEOUT_S, in ticks
          LogMax          \* MAX_SYSTEM_LOGS

ASSUME TimeoutAssumption == /\ DataTimeout \in Nat \ {0}
                            /\ StatusTimeout \in Nat \ {0}
ASSUME LogAssumption     == LogMax \in Nat \ {0}
ASSUME BoardAssumption   == NoBoard \notin Boards
ASSUME ThreadAssumption  == MqttThread \notin Callers

(***************************************************************************)
(* Messages.  "awake" and "asleep" are statuses of the soundspy firmware   *)
(* (app = "soundspy"); "other" is the status of a board running another    *)
(* application; "recovery" is the recovery firmware's and "lwt" the        *)
(* broker's last will, neither of which carries the app field.  A message  *)
(* that on_message drops changes nothing and is a stuttering step.         *)
(***************************************************************************)
OwnStatus == {"awake", "asleep"}
Status    == OwnStatus \cup {"other", "recovery", "lwt"}
Kind      == Status \cup {"data"}

Entry == [dataAge   : 0..DataTimeout,
          statusAge : 0..StatusTimeout,
          sleeping  : BOOLEAN,
          recovery  : BOOLEAN,
          link      : {"unknown", "up", "down"}]   \* status_online

FreshEntry == [dataAge |-> DataTimeout, statusAge |-> StatusTimeout,
               sleeping |-> FALSE, recovery |-> FALSE, link |-> "unknown"]

Presence == [online : BOOLEAN, sleeping : BOOLEAN, recovery : BOOLEAN]
Untold   == [online |-> FALSE, sleeping |-> FALSE, recovery |-> FALSE]

Name == {"none", "auto", "host", "user"}   \* no row, node-N, hostname, renamed

VARIABLES
  known, entry,              \* _nodes
  names,                     \* display_name per row of the nodes table
  logs,                      \* boards of the entries in system_logs
  relayOn,                   \* Relay.active of the board's relay
  pushed,                    \* the presence last pushed by a node_status event
  mqPc, mqBoard, mqKind,     \* the MQTT thread inside on_message, its message
  mqView,                    \* and the status it has read back
  httpPc, httpTodo,          \* the HTTP threads
  accepted, forgotten,       \* history: boards whose soundspy status arrived;
                             \* those a user forgot that sent none since
  lastStatus                 \* and the last status applied for each board

mqVars   == <<mqPc, mqBoard, mqKind, mqView>>
httpVars == <<httpPc, httpTodo>>
vars == <<known, entry, names, logs, relayOn, pushed, mqVars, httpVars,
          accepted, forgotten, lastStatus>>

MqPc == {"idle", "applyStatus", "nameStatus", "viewStatus", "announce",
         "applyData", "nameData", "viewData"}

TypeOK == /\ known \subseteq Boards
          /\ entry \in [Boards -> Entry]
          /\ names \in [Boards -> Name]
          /\ logs \in Seq(Boards) /\ Len(logs) <= LogMax
          /\ relayOn \in [Boards -> BOOLEAN]
          /\ pushed \in [Boards -> Presence]
          /\ mqPc \in MqPc
          /\ mqBoard \in Boards \cup {NoBoard}
          /\ mqKind \in Kind \cup {"none"}
          /\ mqView \in Presence
          /\ httpPc \in [Callers -> {"idle", "poll", "history"}]
          /\ httpTodo \in [Callers -> SUBSET Boards]
          /\ accepted \subseteq Boards
          /\ forgotten \subseteq Boards
          /\ lastStatus \in [Boards -> Status \cup {"none", "aborted"}]

Init == /\ known = {}
        /\ entry = [b \in Boards |-> FreshEntry]
        /\ names = [b \in Boards |-> "none"]
        /\ logs = <<>>
        /\ relayOn = [b \in Boards |-> FALSE]
        /\ pushed = [b \in Boards |-> Untold]
        /\ mqPc = "idle"
        /\ mqBoard = NoBoard
        /\ mqKind = "none"
        /\ mqView = Untold
        /\ httpPc = [c \in Callers |-> "idle"]
        /\ httpTodo = [c \in Callers |-> {}]
        /\ accepted = {}
        /\ forgotten = {}
        /\ lastStatus = [b \in Boards |-> "none"]

-----------------------------------------------------------------------------
(* node_state.py: one operator per critical section *)

StatusFresh(e) == e.statusAge < StatusTimeout

\* Faulty: the last will is forgotten.
OnlineDespiteWill(e) == IF e.recovery \/ e.sleeping THEN StatusFresh(e)
                                                    ELSE e.dataAge < DataTimeout

\* Faulty: a sleeping node needs no fresh status.
OnlineWhileAsleep(e) == /\ e.link # "down"
                        /\ \/ e.sleeping
                           \/ e.recovery /\ StatusFresh(e)
                           \/ e.dataAge < DataTimeout

Online(e) == /\ e.link # "down"
             /\ IF e.recovery \/ e.sleeping THEN StatusFresh(e)
                                            ELSE e.dataAge < DataTimeout

\* What get_node_status returns of an entry.
View(e) == [online   |-> Online(e),
            sleeping |-> e.sleeping,
            recovery |-> e.recovery /\ StatusFresh(e)]

\* The entry update_status leaves: a last will returns before the flags.
StatusApplied(e, kind) ==
  LET will == kind = "lwt"
  IN  [dataAge   |-> e.dataAge,
       statusAge |-> 0,
       sleeping  |-> IF will THEN e.sleeping ELSE kind = "asleep",
       recovery  |-> IF will THEN e.recovery ELSE kind = "recovery",
       link      |-> IF will THEN "down" ELSE "up"]

DataApplied(e) == [dataAge |-> 0, statusAge |-> e.statusAge, sleeping |-> FALSE,
                   recovery |-> e.recovery, link |-> e.link]

\* One tick later; the ages saturate.
Aged(e) == [dataAge   |-> IF e.dataAge < DataTimeout THEN e.dataAge + 1 ELSE DataTimeout,
            statusAge |-> IF e.statusAge < StatusTimeout THEN e.statusAge + 1
                                                         ELSE StatusTimeout,
            sleeping  |-> e.sleeping, recovery |-> e.recovery, link |-> e.link]

\* _nodes[b] creates the key.
Touch(b) == known' = known \cup {b}

\* db.get_node_name: the row is created under a generated name if missing.
Named(b) == [names EXCEPT ![b] = IF @ = "none" THEN "auto" ELSE @]

-----------------------------------------------------------------------------
(* The MQTT thread: on_message, handle_status, handle_log *)

Done == /\ mqPc' = "idle"
        /\ mqBoard' = NoBoard
        /\ mqKind' = "none"
        /\ mqView' = Untold

Take(b, kind, pc) == /\ mqPc' = pc
                     /\ mqBoard' = b
                     /\ mqKind' = kind
                     /\ UNCHANGED mqView

\* handle_status begins: is_known, unless the app field already says ours.
ReceiveStatus(b, kind) ==
  /\ mqPc = "idle"
  /\ kind \in OwnStatus \/ b \in known
  /\ Take(b, kind, "applyStatus")
  /\ UNCHANGED <<known, entry, names, logs, relayOn, pushed, httpVars,
                 accepted, forgotten, lastStatus>>

\* Faulty: a last will takes the node off the list.
ApplyStatusWillRemoves ==
  /\ mqPc = "applyStatus"
  /\ mqPc' = "nameStatus"
  /\ known' = IF mqKind = "lwt" THEN known \ {mqBoard} ELSE known \cup {mqBoard}
  /\ entry' = [entry EXCEPT ![mqBoard] = StatusApplied(@, mqKind)]
  /\ accepted' = IF mqKind \in OwnStatus THEN accepted \cup {mqBoard} ELSE accepted
  /\ forgotten' = IF mqKind \in OwnStatus THEN forgotten \ {mqBoard} ELSE forgotten
  /\ lastStatus' = [lastStatus EXCEPT ![mqBoard] = mqKind]
  /\ UNCHANGED <<names, logs, relayOn, pushed, mqBoard, mqKind, mqView, httpVars>>

ApplyStatus ==
  /\ mqPc = "applyStatus"
  /\ mqPc' = "nameStatus"
  /\ Touch(mqBoard)
  /\ entry' = [entry EXCEPT ![mqBoard] = StatusApplied(@, mqKind)]
  /\ accepted' = IF mqKind \in OwnStatus THEN accepted \cup {mqBoard} ELSE accepted
  /\ forgotten' = IF mqKind \in OwnStatus THEN forgotten \ {mqBoard} ELSE forgotten
  /\ lastStatus' = [lastStatus EXCEPT ![mqBoard] = mqKind]
  /\ UNCHANGED <<names, logs, relayOn, pushed, mqBoard, mqKind, mqView, httpVars>>

\* Every status but the last will carries the hostname.
NameStatus ==
  /\ mqPc = "nameStatus"
  /\ mqPc' = "viewStatus"
  /\ names' = IF mqKind = "lwt" THEN Named(mqBoard)
              ELSE [names EXCEPT ![mqBoard] = "host"]
  /\ UNCHANGED <<known, entry, logs, relayOn, pushed, mqBoard, mqKind, mqView,
                 httpVars, accepted, forgotten, lastStatus>>

\* get_node_status; the rows db.get_all_nodes reads just before only add the name.
ViewStatus ==
  /\ mqPc = "viewStatus"
  /\ mqPc' = "announce"
  /\ Touch(mqBoard)
  /\ mqView' = View(entry[mqBoard])
  /\ UNCHANGED <<entry, names, logs, relayOn, pushed, mqBoard, mqKind, httpVars,
                 accepted, forgotten, lastStatus>>

\* Faulty: the relay follows online alone.
AnnounceOnline ==
  /\ mqPc = "announce"
  /\ relayOn' = [relayOn EXCEPT ![mqBoard] = mqView.online /\ mqKind \in OwnStatus]
  /\ pushed' = [pushed EXCEPT ![mqBoard] = mqView]
  /\ Done
  /\ UNCHANGED <<known, entry, names, logs, httpVars, accepted, forgotten, lastStatus>>

\* audio_relay.update and the node_status event; only soundspy's statuses
\* name a stream port, and a relay without a port is not active.
Announce ==
  /\ mqPc = "announce"
  /\ relayOn' = [relayOn EXCEPT ![mqBoard] =
                   /\ mqView.online /\ ~mqView.sleeping /\ ~mqView.recovery
                   /\ mqKind \in OwnStatus]
  /\ pushed' = [pushed EXCEPT ![mqBoard] = mqView]
  /\ Done
  /\ UNCHANGED <<known, entry, names, logs, httpVars, accepted, forgotten, lastStatus>>

\* Faulty: a list without maxlen.
ReceiveLogUnbounded(b) ==
  /\ mqPc = "idle"
  /\ b \in known
  /\ logs' = Append(logs, b)
  /\ UNCHANGED <<known, entry, names, relayOn, pushed, mqVars, httpVars,
                 accepted, forgotten, lastStatus>>

\* handle_log, whole: the deque drops its oldest entry when full.
ReceiveLog(b) ==
  /\ mqPc = "idle"
  /\ b \in known
  /\ logs' = IF Len(logs) < LogMax THEN Append(logs, b)
                                   ELSE Append(Tail(logs), b)
  /\ UNCHANGED <<known, entry, names, relayOn, pushed, mqVars, httpVars,
                 accepted, forgotten, lastStatus>>

\* Faulty: data is taken from any board.
ReceiveAnyData(b) ==
  /\ mqPc = "idle"
  /\ Take(b, "data", "applyData")
  /\ UNCHANGED <<known, entry, names, logs, relayOn, pushed, httpVars,
                 accepted, forgotten, lastStatus>>

\* on_message of a data message: is_known, then the levels must be there.
ReceiveData(b) ==
  /\ mqPc = "idle"
  /\ b \in known
  /\ Take(b, "data", "applyData")
  /\ UNCHANGED <<known, entry, names, logs, relayOn, pushed, httpVars,
                 accepted, forgotten, lastStatus>>

ApplyData ==
  /\ mqPc = "applyData"
  /\ mqPc' = "nameData"
  /\ Touch(mqBoard)
  /\ entry' = [entry EXCEPT ![mqBoard] = DataApplied(@)]
  /\ UNCHANGED <<names, logs, relayOn, pushed, mqBoard, mqKind, mqView, httpVars,
                 accepted, forgotten, lastStatus>>

NameData ==
  /\ mqPc = "nameData"
  /\ mqPc' = "viewData"
  /\ names' = Named(mqBoard)
  /\ UNCHANGED <<known, entry, logs, relayOn, pushed, mqBoard, mqKind, mqView,
                 httpVars, accepted, forgotten, lastStatus>>

\* get_node_status, the sensor_data event and the rules (module Alerts).
ViewData ==
  /\ mqPc = "viewData"
  /\ Touch(mqBoard)
  /\ Done
  /\ UNCHANGED <<entry, names, logs, relayOn, pushed, httpVars, accepted, forgotten, lastStatus>>

\* A database call raises (locked, disk full): on_message logs it and the rest
\* of the handler is lost.
Abort ==
  /\ mqPc \in {"nameStatus", "viewStatus", "nameData", "viewData"}
  /\ lastStatus' = IF mqKind \in Status
                   THEN [lastStatus EXCEPT ![mqBoard] = "aborted"] ELSE lastStatus
  /\ Done
  /\ UNCHANGED <<known, entry, names, logs, relayOn, pushed, httpVars, accepted,
                 forgotten>>

MqttStep == \/ ApplyStatus \/ NameStatus \/ ViewStatus \/ Announce
            \/ ApplyData \/ NameData \/ ViewData

-----------------------------------------------------------------------------
(* HTTP threads *)

\* api_nodes: the keys are copied without the lock, then read one by one.
PollStart(c) ==
  /\ httpPc[c] = "idle"
  /\ known # {}
  /\ httpPc' = [httpPc EXCEPT ![c] = "poll"]
  /\ httpTodo' = [httpTodo EXCEPT ![c] = known]
  /\ UNCHANGED <<known, entry, names, logs, relayOn, pushed, mqVars,
                 accepted, forgotten, lastStatus>>

Finish(c, b) == /\ httpTodo' = [httpTodo EXCEPT ![c] = @ \ {b}]
                /\ httpPc' = [httpPc EXCEPT ![c] =
                                IF httpTodo[c] = {b} THEN "idle" ELSE @]

PollNode(c, b) ==
  /\ httpPc[c] = "poll"
  /\ b \in httpTodo[c]
  /\ Touch(b)
  /\ Finish(c, b)
  /\ UNCHANGED <<entry, names, logs, relayOn, pushed, mqVars, accepted, forgotten, lastStatus>>

\* api_history: 404 for an unknown node, else get_node_history.
HistoryStart(c, b) ==
  /\ httpPc[c] = "idle"
  /\ b \in known
  /\ httpPc' = [httpPc EXCEPT ![c] = "history"]
  /\ httpTodo' = [httpTodo EXCEPT ![c] = {b}]
  /\ UNCHANGED <<known, entry, names, logs, relayOn, pushed, mqVars,
                 accepted, forgotten, lastStatus>>

HistoryRead(c, b) ==
  /\ httpPc[c] = "history"
  /\ b \in httpTodo[c]
  /\ Touch(b)
  /\ Finish(c, b)
  /\ UNCHANGED <<entry, names, logs, relayOn, pushed, mqVars, accepted, forgotten, lastStatus>>

\* api_disconnect: disconnect_node forgets the entry and nothing else.
Disconnect(b) ==
  /\ b \in known
  /\ known' = known \ {b}
  /\ entry' = [entry EXCEPT ![b] = FreshEntry]
  /\ forgotten' = forgotten \cup {b}
  /\ UNCHANGED <<names, logs, relayOn, pushed, mqVars, httpVars, accepted,
                 lastStatus>>

\* api_rename_node: the API asks for no known node.
Rename(b) ==
  /\ names' = [names EXCEPT ![b] = "user"]
  /\ UNCHANGED <<known, entry, logs, relayOn, pushed, mqVars, httpVars,
                 accepted, forgotten, lastStatus>>

\* api_set_threshold creates the row of an unnamed node.
SetThreshold(b) ==
  /\ names' = Named(b)
  /\ UNCHANGED <<known, entry, logs, relayOn, pushed, mqVars, httpVars,
                 accepted, forgotten, lastStatus>>

-----------------------------------------------------------------------------

Tick ==
  /\ entry' = [b \in Boards |-> Aged(entry[b])]
  /\ UNCHANGED <<known, names, logs, relayOn, pushed, mqVars, httpVars,
                 accepted, forgotten, lastStatus>>

\* The process is restarted: only the database survives.
Restart ==
  /\ known' = {}
  /\ entry' = [b \in Boards |-> FreshEntry]
  /\ logs' = <<>>
  /\ relayOn' = [b \in Boards |-> FALSE]
  /\ pushed' = [b \in Boards |-> Untold]
  /\ Done
  /\ httpPc' = [c \in Callers |-> "idle"]
  /\ httpTodo' = [c \in Callers |-> {}]
  /\ accepted' = {}
  /\ forgotten' = {}
  /\ lastStatus' = [b \in Boards |-> "none"]
  /\ UNCHANGED names

Next == \/ \E b \in Boards : \/ \E k \in Status : ReceiveStatus(b, k)
                             \/ ReceiveLog(b) \/ ReceiveData(b)
                             \/ Disconnect(b) \/ Rename(b) \/ SetThreshold(b)
        \/ MqttStep \/ Abort
        \/ \E c \in Callers : \/ PollStart(c)
                              \/ \E b \in Boards : \/ PollNode(c, b)
                                                   \/ HistoryStart(c, b)
                                                   \/ HistoryRead(c, b)
        \/ Tick \/ Restart

\* Time passes, and a thread inside a handler is scheduled.
Fairness == /\ WF_vars(Tick)
            /\ WF_vars(MqttStep)

Spec == Init /\ [][Next]_vars /\ Fairness

-----------------------------------------------------------------------------
(* Properties *)

Handling(b) == mqBoard = b /\ mqKind \in Status

\* A presence v does not contradict a status of kind k.
Agrees(v, k) ==
  /\ k = "lwt" => ~v.online
  /\ k = "awake" => ~v.sleeping /\ ~v.recovery
  /\ k = "asleep" => ~v.recovery /\ (v.sleeping \/ ~v.online)
  /\ k = "recovery" => ~v.sleeping /\ (v.recovery \/ ~v.online)

(***************************************************************************)
(* "Other boards on the same broker are ignored" (docs/dashboard.md): no   *)
(* board enters the node list, a poll's copy of it, the log panel or the   *)
(* hands of the message thread unless a soundspy status of it was accepted *)
(* since the process started, whatever requests and messages interleave.   *)
(***************************************************************************)
OnlyAccepted ==
  /\ known \subseteq accepted
  /\ \A c \in Callers : httpTodo[c] \subseteq accepted
  /\ logs \in Seq(accepted)
  /\ \A b \in Boards : relayOn[b] \/ pushed[b].online => b \in accepted
  /\ mqPc \notin {"idle", "applyStatus"} => mqBoard \in accepted

(***************************************************************************)
(* What the browsers were last told of a node never contradicts the last   *)
(* status applied for it once that status has been handled, though the     *)
(* entry may be forgotten or recreated between the steps of the handler:   *)
(* after the last will the node is offline, an awake node is not shown     *)
(* asleep or in recovery, and a sleeping or recovering one is shown as     *)
(* such or as offline.                                                     *)
(***************************************************************************)
PushedAsAnnounced ==
  \A b \in Boards : ~Handling(b) => Agrees(pushed[b], lastStatus[b])

(***************************************************************************)
(* "Active when online, awake and not in recovery" (docs/SDD.md): a relay  *)
(* is running only for a node whose last status said it is awake, unless   *)
(* the handler of a later status was cut short by a database error.        *)
(***************************************************************************)
RelayOnlyAwake ==
  \A b \in Boards : relayOn[b] /\ ~Handling(b) =>
                      lastStatus[b] \in {"awake", "aborted"}

\* The thread applies a message of b.
Hears(b) == mqBoard = b /\ (ApplyStatus \/ ApplyData)

(***************************************************************************)
(* A node that has gone silent is eventually reported offline and stays    *)
(* so: no flag, request or entry recreated by a poll keeps it online.      *)
(***************************************************************************)
SilentGoesOffline ==
  \A b \in Boards : <>[][~Hears(b)]_vars => <>[](~Online(entry[b]))

\* The boards a thread has in hand: it may still touch their entries.  A
\* soundspy status that is not applied yet is no entry's business.
Held(w) ==
  IF w \in Callers THEN httpTodo[w]
  ELSE IF mqPc = "idle" \/ (mqPc = "applyStatus" /\ mqKind \in OwnStatus) THEN {}
  ELSE {mqBoard}

(***************************************************************************)
(* The dashboard implements NodeRegistry: whatever handlers, requests and  *)
(* forgetting interleave, a listed node is never lost but by a user's own  *)
(* forget or a restart, and a forgotten one never comes back but by its    *)
(* next soundspy status or a thread that had it in hand already.           *)
(***************************************************************************)
Registry == INSTANCE NodeRegistry WITH
              Workers <- Callers \cup {MqttThread},
              held    <- [w \in Callers \cup {MqttThread} |-> Held(w)]
ImplementsRegistry == Registry!Spec

=============================================================================
