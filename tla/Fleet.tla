------------------------------- MODULE Fleet -------------------------------
(***************************************************************************)
(* Nodes, broker and dashboard together: how a node's settings reach it    *)
(* (dashboard/app.py, api_control; firmware/soundspy.ino, onCommand) and   *)
(* how its status and levels come back to the dashboard's entry and relay, *)
(* over connections that break, and across restarts of all three.          *)
(*                                                                         *)
(* NodeState has the interleavings inside the dashboard's handlers; here a *)
(* handler is one step and a message travels.  The broker and esp32-base,  *)
(* which holds the node's connection, are external: retained status on     *)
(* connect and every StatusPeriod, a last will when a session ends badly,  *)
(* messages in order and lost with the connection.                         *)
(*                                                                         *)
(* A tick is longer than publish_ms can be (5 s) and than any delivery, so *)
(* it waits for what is due; a board publishes levels many times per tick, *)
(* of which the first is modelled.                                         *)
(***************************************************************************)
EXTENDS Naturals, Sequences

CONSTANTS Nodes,
          DataTimeout,    \* DATA_TIMEOUT_S, in ticks
          StatusTimeout,  \* STATUS_TIMEOUT_S, in ticks
          StatusPeriod,   \* ticks between two statuses of a node
          MaxInbox,       \* bound: messages of a node on their way
          MaxCommands     \* bound: commands for a node on their way

ASSUME TimeAssumption  == {DataTimeout, StatusTimeout, StatusPeriod} \subseteq Nat \ {0}
ASSUME BoundAssumption == {MaxInbox, MaxCommands} \subseteq Nat \ {0}

Own     == {"awake", "asleep"}          \* statuses of the soundspy firmware
Status  == Own \cup {"lwt"}
Message == Status \cup {"data"}

\* A patch of the settings that a node accepts, whether a command ("sleep",
\* "wake", "gain" or "set") or its own page brings it: it puts the node to
\* sleep, wakes it, or leaves awake as it is.  Every patch saves them all.
Setting == {"sleep", "wake"}
Command == Setting \cup {"other"}

Entry == [will : BOOLEAN, sleeping : BOOLEAN,
          dataAge : 0..DataTimeout, statusAge : 0..StatusTimeout]
FreshEntry == [will |-> FALSE, sleeping |-> FALSE,
               dataAge |-> DataTimeout, statusAge |-> StatusTimeout]

VARIABLES
  life,                \* a board is off, up without the broker, or online
  awake,               \* its setting, kept in NVS
  leftover,            \* level messages still to come of a board put to sleep
  reported,            \* it has published levels since the last tick
  quiet,               \* ticks since its last status
  broker, session,     \* the broker is up; it counts the node as connected
  retained,            \* the status it retains
  cmds, inbox,         \* on their way to the node; to the dashboard
  link,                \* the dashboard's MQTT client
  listed, entry,       \* _nodes
  relayOn,             \* Relay.active
  wanted, forgotten    \* history: the last setting asked for and not lost;
                       \* nodes a user forgot since they were listed

boardVars  == <<life, awake, leftover, reported, quiet>>
brokerVars == <<broker, session, retained, cmds>>
viewVars   == <<listed, entry, relayOn, forgotten>>
vars == <<boardVars, brokerVars, inbox, link, viewVars, wanted>>

TypeOK == /\ life \in [Nodes -> {"off", "offline", "online"}]
          /\ awake \in [Nodes -> BOOLEAN]
          /\ leftover \in [Nodes -> 0..2]
          /\ reported \in [Nodes -> BOOLEAN]
          /\ quiet \in [Nodes -> 0..StatusPeriod]
          /\ broker \in BOOLEAN
          /\ session \in [Nodes -> BOOLEAN]
          /\ retained \in [Nodes -> Status \cup {"none"}]
          /\ cmds \in [Nodes -> Seq(Command)]
          /\ inbox \in [Nodes -> Seq(Message)]
          /\ link \in {"starting", "up", "lost", "dead"}
          /\ listed \subseteq Nodes
          /\ entry \in [Nodes -> Entry]
          /\ relayOn \in [Nodes -> BOOLEAN]
          /\ wanted \in [Nodes -> Setting]
          /\ forgotten \subseteq Nodes

Init == /\ life = [n \in Nodes |-> "off"]
        /\ awake = [n \in Nodes |-> TRUE]
        /\ leftover = [n \in Nodes |-> 0]
        /\ reported = [n \in Nodes |-> FALSE]
        /\ quiet = [n \in Nodes |-> 0]
        /\ broker \in BOOLEAN
        /\ session = [n \in Nodes |-> FALSE]
        /\ retained = [n \in Nodes |-> "none"]
        /\ cmds = [n \in Nodes |-> <<>>]
        /\ inbox = [n \in Nodes |-> <<>>]
        /\ link = "starting"
        /\ listed = {}
        /\ entry = [n \in Nodes |-> FreshEntry]
        /\ relayOn = [n \in Nodes |-> FALSE]
        /\ wanted = [n \in Nodes |-> "wake"]
        /\ forgotten = {}

-----------------------------------------------------------------------------
(* The node *)

\* A message reaches the broker, which keeps it for a dashboard that listens.
Deliver(n, m) == inbox' = IF link = "up" THEN [inbox EXCEPT ![n] = Append(@, m)]
                                         ELSE inbox

Retain(n, s) == /\ Len(inbox[n]) < MaxInbox
                /\ retained' = [retained EXCEPT ![n] = s]
                /\ Deliver(n, s)

\* BaseMqtt::publishStatus with the sketch's status hook.
OwnStatus(a) == IF a THEN "awake" ELSE "asleep"

\* setup: the settings come from NVS.
PowerOn(n) == /\ life[n] = "off"
              /\ life' = [life EXCEPT ![n] = "offline"]
              /\ UNCHANGED <<awake, leftover, reported, quiet, brokerVars, inbox, link, viewVars, wanted>>

\* A reset or power cut.  The broker notices later, see Expire.
PowerOff(n) == /\ life[n] # "off"
               /\ life' = [life EXCEPT ![n] = "off"]
               /\ leftover' = [leftover EXCEPT ![n] = 0]
               /\ UNCHANGED <<awake, reported, quiet, brokerVars, inbox, link, viewVars, wanted>>

\* The network takes the connection from the node.
Drop(n) == /\ life[n] = "online"
           /\ life' = [life EXCEPT ![n] = "offline"]
           /\ UNCHANGED <<awake, leftover, reported, quiet, brokerVars, inbox, link, viewVars, wanted>>

Connect(n) == /\ life[n] = "offline"
              /\ broker
              /\ ~session[n]
              /\ life' = [life EXCEPT ![n] = "online"]
              /\ session' = [session EXCEPT ![n] = TRUE]
              /\ Retain(n, OwnStatus(awake[n]))
              /\ quiet' = [quiet EXCEPT ![n] = 0]
              /\ reported' = [reported EXCEPT ![n] = FALSE]
              /\ UNCHANGED <<awake, leftover, broker, cmds, link, viewVars, wanted>>

PeriodicStatus(n) == /\ life[n] = "online"
                     /\ quiet[n] = StatusPeriod
                     /\ Retain(n, OwnStatus(awake[n]))
                     /\ quiet' = [quiet EXCEPT ![n] = 0]
                     /\ UNCHANGED <<life, awake, leftover, reported, broker, session, cmds, link, viewVars, wanted>>

\* Faulty: an empty sum is published too.
HasAnyLevels(n) == awake[n] => ~reported[n]

\* takeLevels
HasLevels(n) == IF awake[n] THEN ~reported[n] ELSE leftover[n] > 0

\* The levels are taken before the connection is looked at.
publishLevels(n) ==
  /\ life[n] # "off"
  /\ Len(inbox[n]) < MaxInbox
  /\ HasLevels(n)
  /\ leftover' = [leftover EXCEPT ![n] = IF awake[n] THEN 0 ELSE @ - 1]
  /\ reported' = [reported EXCEPT ![n] = TRUE]
  /\ IF life[n] = "online" THEN Deliver(n, "data") ELSE UNCHANGED inbox
  /\ UNCHANGED <<life, awake, quiet, brokerVars, link, viewVars, wanted>>

Asks(c) == c \in Setting

\* Commands that ask for a setting and are still on their way.
Asking(n) == {i \in DOMAIN cmds[n] : Asks(cmds[n][i])}

\* What the node does, in the words of a command.
Does(awakeNow) == IF awakeNow THEN "wake" ELSE "sleep"

\* Faulty: apply starts from the default settings, not from the current ones, so
\* that a patch that does not name awake wakes the node.
applyDefaults(n, c) ==
  /\ awake' = [awake EXCEPT ![n] = c # "sleep"]
  /\ \E k \in IF awake[n] /\ c = "sleep" THEN 0..2
              ELSE IF c = "sleep" THEN {leftover[n]} ELSE {0} :
       leftover' = [leftover EXCEPT ![n] = k]

\* Settings::apply, with what the capture task makes of it: when the node
\* falls asleep, what was summed up and the chunk being read are still to be
\* published, up to two messages.
apply(n, c) ==
  /\ awake' = [awake EXCEPT ![n] = IF Asks(c) THEN c = "wake" ELSE @]
  /\ \E k \in IF awake[n] /\ c = "sleep" THEN 0..2
              ELSE IF c = "wake" THEN {0} ELSE {leftover[n]} :
       leftover' = [leftover EXCEPT ![n] = k]

\* BaseMqtt::publishStatus, after a patch; nothing is kept for later.
publishStatus(n) ==
  IF life[n] = "online"
  THEN /\ Retain(n, OwnStatus(awake'[n]))
       /\ quiet' = [quiet EXCEPT ![n] = 0]
       /\ reported' = [reported EXCEPT ![n] = FALSE]
  ELSE UNCHANGED <<retained, inbox, quiet, reported>>

onCommand(n) ==
  /\ life[n] = "online"
  /\ cmds[n] # <<>>
  /\ cmds' = [cmds EXCEPT ![n] = Tail(@)]
  /\ apply(n, Head(cmds[n]))
  /\ publishStatus(n)
  /\ UNCHANGED <<life, broker, session, link, viewVars, wanted>>

\* The node is reset in onCommand: before apply has saved, and the command is
\* lost, or after it, and nobody is told.
ResetInCommand(n, saved) ==
  /\ life[n] = "online"
  /\ cmds[n] # <<>>
  /\ cmds' = [cmds EXCEPT ![n] = Tail(@)]
  /\ awake' = [awake EXCEPT ![n] = IF saved /\ Asks(Head(cmds[n]))
                                   THEN Head(cmds[n]) = "wake" ELSE @]
  /\ wanted' = [wanted EXCEPT ![n] = IF Asking(n) \subseteq {1} THEN Does(awake'[n]) ELSE @]
  /\ life' = [life EXCEPT ![n] = "off"]
  /\ leftover' = [leftover EXCEPT ![n] = 0]
  /\ UNCHANGED <<reported, quiet, broker, session, retained, inbox, link, viewVars>>

\* handlePost: POST /api/audio, on a node that is up, connected or not.  What
\* is on its way to the node has still to arrive, and comes after it.
handlePost(n, c) ==
  /\ life[n] # "off"
  /\ apply(n, c)
  /\ publishStatus(n)
  /\ wanted' = [wanted EXCEPT ![n] = IF Asks(c) /\ Asking(n) = {} THEN c ELSE @]
  /\ UNCHANGED <<life, broker, session, cmds, link, viewVars>>

-----------------------------------------------------------------------------
(* The broker *)

\* When commands are lost, what the node does is what it was last told.
LostCommands(n) == IF cmds[n] = <<>> THEN wanted[n] ELSE Does(awake[n])

\* The session of a node that is gone, or comes anew, ends with its will.
Expire(n) == /\ session[n]
             /\ life[n] # "online"
             /\ Retain(n, "lwt")
             /\ session' = [session EXCEPT ![n] = FALSE]
             /\ cmds' = [cmds EXCEPT ![n] = <<>>]
             /\ wanted' = [wanted EXCEPT ![n] = LostCommands(n)]
             /\ UNCHANGED <<boardVars, broker, link, viewVars>>

\* Whether retained messages survive depends on the broker's configuration.
StopBroker == /\ broker
              /\ broker' = FALSE
              /\ session' = [n \in Nodes |-> FALSE]
              /\ retained' \in {retained, [n \in Nodes |-> "none"]}
              /\ cmds' = [n \in Nodes |-> <<>>]
              /\ wanted' = [n \in Nodes |-> LostCommands(n)]
              /\ inbox' = [n \in Nodes |-> <<>>]
              /\ life' = [n \in Nodes |-> IF life[n] = "online" THEN "offline" ELSE life[n]]
              /\ link' = IF link = "up" THEN "lost" ELSE link
              /\ UNCHANGED <<awake, leftover, reported, quiet, viewVars>>

StartBroker == /\ ~broker
               /\ broker' = TRUE
               /\ UNCHANGED <<boardVars, session, retained, cmds, inbox, link, viewVars, wanted>>

-----------------------------------------------------------------------------
(* The dashboard *)

\* on_connect: subscribing brings the retained statuses.
on_connect ==
  /\ link' = "up"
  /\ inbox' = [n \in Nodes |-> IF retained[n] = "none" THEN <<>> ELSE <<retained[n]>>]

\* start_mqtt, and the reconnecting of loop_forever.
ConnectDashboard == /\ link \in {"starting", "lost"}
                    /\ broker
                    /\ on_connect
                    /\ UNCHANGED <<boardVars, brokerVars, viewVars, wanted>>

\* connect raises before loop_forever is entered: the thread is gone.
ConnectFails == /\ link = "starting"
                /\ ~broker
                /\ link' = "dead"
                /\ UNCHANGED <<boardVars, brokerVars, inbox, viewVars, wanted>>

LoseLink == /\ link = "up"
            /\ link' = "lost"
            /\ inbox' = [n \in Nodes |-> <<>>]
            /\ UNCHANGED <<boardVars, brokerVars, viewVars, wanted>>

Restart == /\ link' = "starting"
           /\ inbox' = [n \in Nodes |-> <<>>]
           /\ listed' = {}
           /\ entry' = [n \in Nodes |-> FreshEntry]
           /\ relayOn' = [n \in Nodes |-> FALSE]
           /\ forgotten' = {}
           /\ UNCHANGED <<boardVars, brokerVars, wanted>>

Online(e) == /\ ~e.will
             /\ IF e.sleeping THEN e.statusAge < StatusTimeout
                              ELSE e.dataAge < DataTimeout

\* Faulty: a last will sticks.
StatusAppliedGone(e, s) ==
  [will |-> e.will \/ s = "lwt", sleeping |-> IF s = "lwt" THEN e.sleeping ELSE s = "asleep",
   dataAge |-> e.dataAge, statusAge |-> 0]

\* update_status: a last will leaves the flags.
StatusApplied(e, s) ==
  [will |-> s = "lwt", sleeping |-> IF s = "lwt" THEN e.sleeping ELSE s = "asleep",
   dataAge |-> e.dataAge, statusAge |-> 0]

\* update_node_data
DataApplied(e) == [will |-> e.will, sleeping |-> FALSE, dataAge |-> 0, statusAge |-> e.statusAge]

\* Faulty: what does not carry app is never taken.
TakesOwn(n, s) == s \in Own

\* is_ours, or is_known.
Takes(n, s) == s \in Own \/ n \in listed

\* handle_status: a status that names no stream port pauses the relay.
handle_status(n) ==
  /\ inbox[n] # <<>>
  /\ Head(inbox[n]) \in Status
  /\ inbox' = [inbox EXCEPT ![n] = Tail(@)]
  /\ IF Takes(n, Head(inbox[n]))
     THEN /\ entry' = [entry EXCEPT ![n] = StatusApplied(@, Head(inbox[n]))]
          /\ listed' = listed \cup {n}
          /\ relayOn' = [relayOn EXCEPT ![n] = /\ Head(inbox[n]) \in Own
                                               /\ Online(entry'[n])
                                               /\ ~entry'[n].sleeping]
          /\ forgotten' = forgotten \ {n}
     ELSE UNCHANGED viewVars
  /\ UNCHANGED <<boardVars, brokerVars, link, wanted>>

\* The data branch of on_message.
handle_data(n) ==
  /\ inbox[n] # <<>>
  /\ Head(inbox[n]) = "data"
  /\ inbox' = [inbox EXCEPT ![n] = Tail(@)]
  /\ entry' = IF n \in listed THEN [entry EXCEPT ![n] = DataApplied(@)] ELSE entry
  /\ UNCHANGED <<boardVars, brokerVars, link, listed, relayOn, forgotten, wanted>>

\* A client publishes a command, which the broker passes on to a node that is
\* connected.
publishCommand(n, c) ==
  /\ session[n]
  /\ Len(cmds[n]) < MaxCommands
  /\ cmds' = [cmds EXCEPT ![n] = Append(@, c)]
  /\ wanted' = [wanted EXCEPT ![n] = IF Asks(c) THEN c ELSE @]
  /\ UNCHANGED <<boardVars, broker, session, retained, inbox, link, viewVars>>

\* The API answers "success" in any case; without a connection on either side
\* the command is lost, and nothing changes.  Its fourth command, "reboot", is
\* esp32-base's own: a PowerOff.
api_control(n, c) == link = "up" /\ publishCommand(n, c)

api_disconnect(n) == /\ n \in listed
                     /\ listed' = listed \ {n}
                     /\ entry' = [entry EXCEPT ![n] = FreshEntry]
                     /\ forgotten' = forgotten \cup {n}
                     /\ UNCHANGED <<boardVars, brokerVars, inbox, link, relayOn, wanted>>

-----------------------------------------------------------------------------

Older(age, limit) == IF age < limit THEN age + 1 ELSE limit

Aged(e) == [will |-> e.will, sleeping |-> e.sleeping,
            dataAge |-> Older(e.dataAge, DataTimeout),
            statusAge |-> Older(e.statusAge, StatusTimeout)]

\* What is due within a tick has been done.
Settled(n) == /\ inbox[n] = <<>>
              /\ life[n] = "online" => /\ cmds[n] = <<>>
                                       /\ quiet[n] < StatusPeriod
                                       /\ IF awake[n] THEN reported[n] ELSE leftover[n] = 0

Tick == /\ \A n \in Nodes : Settled(n)
        /\ entry' = [n \in Nodes |-> Aged(entry[n])]
        /\ quiet' = [n \in Nodes |-> IF life[n] = "online" THEN Older(quiet[n], StatusPeriod)
                                                           ELSE quiet[n]]
        /\ reported' = [n \in Nodes |-> FALSE]
        /\ UNCHANGED <<life, awake, leftover, brokerVars, inbox, link, listed, relayOn, forgotten, wanted>>

NodeStep(n) == \/ Connect(n) \/ PeriodicStatus(n) \/ publishLevels(n)
               \/ onCommand(n) \/ Expire(n)
Handle(n)   == handle_status(n) \/ handle_data(n)

\* What users, networks and failures do.
Disturb == \/ \E n \in Nodes : \/ PowerOff(n) \/ PowerOn(n) \/ Drop(n) \/ api_disconnect(n)
                               \/ \E c \in Command : \/ api_control(n, c)
                                                      \/ publishCommand(n, c)
                                                      \/ handlePost(n, c)
                               \/ \E saved \in BOOLEAN : ResetInCommand(n, saved)
           \/ StopBroker \/ StartBroker \/ LoseLink \/ Restart

Next == \/ \E n \in Nodes : NodeStep(n) \/ Handle(n)
        \/ ConnectDashboard \/ ConnectFails \/ Tick \/ Disturb

\* Boards, broker and message thread run, both clients reconnect, time passes.
Fairness == /\ \A n \in Nodes : /\ WF_vars(Connect(n)) /\ WF_vars(PeriodicStatus(n))
                               /\ WF_vars(publishLevels(n)) /\ WF_vars(onCommand(n))
                               /\ WF_vars(Expire(n)) /\ WF_vars(Handle(n))
            /\ WF_vars(ConnectDashboard)
            /\ WF_vars(Tick)

Spec == Init /\ [][Next]_vars /\ Fairness

-----------------------------------------------------------------------------
(* Properties *)

Statuses(n) == {i \in DOMAIN inbox[n] : inbox[n][i] \in Status}

(***************************************************************************)
(* A connected dashboard that has handled the statuses sent to it agrees   *)
(* with the broker, after any losses, reconnections and restarts: it lists *)
(* every node whose retained status is soundspy's, except one a user       *)
(* forgot; a listed node is gone exactly when its last will is what is     *)
(* retained ("the LWT gives an authoritative offline", docs/SDD.md), it is *)
(* not taken for asleep when it said that it is awake, and its relay is    *)
(* active only then.                                                       *)
(***************************************************************************)
AgreesWithBroker ==
  \A n \in Nodes : link = "up" /\ Statuses(n) = {} =>
    /\ retained[n] \in Own => n \in listed \cup forgotten
    /\ retained[n] # "none" /\ n \in listed =>
         /\ entry[n].will <=> retained[n] = "lwt"
         /\ retained[n] = "awake" => ~entry[n].sleeping
         /\ relayOn[n] => retained[n] = "awake"

(***************************************************************************)
(* A node to which no setting is on its way does what it was last told, by *)
(* the dashboard, another client or its own page, across resets and lost   *)
(* connections of any side.  Commands that were lost were lost for good:   *)
(* none is applied late, over what a user asked for since; and neither a   *)
(* reset nor a patch of other settings changes whether the node is awake.  *)
(***************************************************************************)
SettingsAsCommanded ==
  \A n \in Nodes : Asking(n) = {} => wanted[n] = Does(awake[n])

(***************************************************************************)
(* Once users and failures leave it alone, a running node is shown as it   *)
(* is, for good: listed, online, asleep exactly when it sleeps, and its    *)
(* relay active exactly when it is awake; whatever was lost or overtaken   *)
(* before, and provided the dashboard did not find the broker down when it *)
(* started.                                                                *)
(***************************************************************************)
Shown(n) == /\ n \in listed
            /\ Online(entry[n])
            /\ entry[n].sleeping = ~awake[n]
            /\ relayOn[n] = awake[n]

LiveNodeShown ==
  \A n \in Nodes :
    <>[][~Disturb]_vars /\ <>[](broker /\ link # "dead" /\ life[n] # "off")
      => <>[]Shown(n)

-----------------------------------------------------------------------------
(* What the repository says and the code does not do *)

(***************************************************************************)
(* docs/dashboard.md: "a sleeping node or one in recovery counts as online *)
(* while its status is fresher than 90 s".  A node whose retained, handled *)
(* and fresh status says that it sleeps is online.                         *)
(***************************************************************************)
AsleepCountsOnline ==
  \A n \in listed :
    /\ link = "up"
    /\ inbox[n] = <<>>
    /\ retained[n] = "asleep"
    /\ entry[n].statusAge < StatusTimeout
    => Online(entry[n])

=============================================================================
