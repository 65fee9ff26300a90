---------------------------- MODULE FleetProofs ----------------------------
(***************************************************************************)
(* Theorems about Fleet, for any nodes, time-outs and bounds.              *)
(***************************************************************************)
EXTENDS Fleet, SequenceTheorems, TLAPS

\* A queue that loses its head, or gains an element.
LEMMA TailSays ==
  ASSUME NEW S, NEW s \in Seq(S), s # <<>>
  PROVE  /\ Head(s) = s[1] /\ 1 \in DOMAIN s
         /\ DOMAIN s \subseteq Nat \ {0} /\ DOMAIN Tail(s) \subseteq Nat \ {0}
         /\ \A i \in DOMAIN Tail(s) : i + 1 \in DOMAIN s /\ Tail(s)[i] = s[i + 1]
         /\ \A i \in DOMAIN s : i # 1 => i - 1 \in DOMAIN Tail(s) /\ Tail(s)[i - 1] = s[i]
  OBVIOUS

LEMMA AppendSays ==
  ASSUME NEW S, NEW s \in Seq(S), NEW m \in S
  PROVE  /\ \A i \in DOMAIN s : i \in DOMAIN Append(s, m) /\ Append(s, m)[i] = s[i]
         /\ \A i \in DOMAIN Append(s, m) : i \in DOMAIN s \/ Append(s, m)[i] = m
         /\ \E i \in DOMAIN Append(s, m) : Append(s, m)[i] = m
         /\ Append(s, m) # <<>>
  <1>1. Len(Append(s, m)) \in DOMAIN Append(s, m) /\ Append(s, m)[Len(Append(s, m))] = m
    OBVIOUS
  <1>2. /\ \A i \in DOMAIN s : i \in DOMAIN Append(s, m) /\ Append(s, m)[i] = s[i]
        /\ \A i \in DOMAIN Append(s, m) : i \in DOMAIN s \/ Append(s, m)[i] = m
        /\ Append(s, m) # <<>>
    OBVIOUS
  <1> QED BY <1>1, <1>2

LEMMA FreshType == FreshEntry \in Entry
  BY TimeAssumption DEF FreshEntry, Entry

LEMMA OlderType ==
  ASSUME NEW limit \in Nat, NEW age \in 0..limit PROVE Older(age, limit) \in 0..limit
  BY DEF Older

LEMMA EntryTypes ==
  ASSUME NEW e \in Entry
  PROVE  /\ \A s \in Status : StatusApplied(e, s) \in Entry
         /\ DataApplied(e) \in Entry
         /\ Aged(e) \in Entry
  <1>1. /\ e.will \in BOOLEAN /\ e.sleeping \in BOOLEAN
        /\ e.dataAge \in 0..DataTimeout /\ e.statusAge \in 0..StatusTimeout
    BY DEF Entry
  <1>2. ASSUME NEW s \in Status PROVE StatusApplied(e, s) \in Entry
    <2> DEFINE will == s = "lwt"
               sleeping == IF s = "lwt" THEN e.sleeping ELSE s = "asleep"
    <2>1. will \in BOOLEAN /\ sleeping \in BOOLEAN
      BY <1>1
    <2>2. 0 \in 0..StatusTimeout
      BY TimeAssumption
    <2> HIDE DEF will, sleeping
    <2>3. [will |-> will, sleeping |-> sleeping, dataAge |-> e.dataAge, statusAge |-> 0] \in Entry
      BY <1>1, <2>1, <2>2 DEF Entry
    <2> QED BY <2>3 DEF StatusApplied, will, sleeping
  <1>3. DataApplied(e) \in Entry
    BY <1>1, TimeAssumption DEF DataApplied, Entry
  <1>4. Aged(e) \in Entry
    BY <1>1, OlderType, TimeAssumption DEF Aged, Entry
  <1> QED BY <1>2, <1>3, <1>4

LEMMA InitType == Init => TypeOK
  BY FreshType, TimeAssumption DEF Init, TypeOK, Status, Own, Setting

LEMMA DeliverType ==
  ASSUME TypeOK, NEW n \in Nodes, NEW m \in Message, Deliver(n, m)
  PROVE  inbox' \in [Nodes -> Seq(Message)]
  <1>1. Append(inbox[n], m) \in Seq(Message)
    BY DEF TypeOK
  <1> QED BY <1>1 DEF TypeOK, Deliver

\* What the broker is sent, it keeps, and passes on.
LEMMA RetainType ==
  ASSUME TypeOK, NEW n \in Nodes, NEW s \in Status, Retain(n, s)
  PROVE  /\ retained' \in [Nodes -> Status \cup {"none"}]
         /\ inbox' \in [Nodes -> Seq(Message)]
  <1>1. retained' \in [Nodes -> Status \cup {"none"}]
    BY DEF TypeOK, Retain
  <1> QED BY <1>1, DeliverType DEF Retain, Message

LEMMA OwnType == \A a : OwnStatus(a) \in Own /\ OwnStatus(a) \in Status
  BY DEF OwnStatus, Own, Status

\* A patch changes awake and what is left over.
LEMMA PatchType ==
  ASSUME TypeOK, NEW n \in Nodes, NEW c \in Command, apply(n, c)
  PROVE  /\ awake' \in [Nodes -> BOOLEAN]
         /\ leftover' \in [Nodes -> 0..2]
  <1>1. awake' \in [Nodes -> BOOLEAN]
    BY DEF TypeOK, apply
  <1>2. PICK k \in 0..2 \cup {0} \cup {leftover[n]} : leftover' = [leftover EXCEPT ![n] = k]
    BY DEF apply
  <1>3. leftover \in [Nodes -> 0..2] /\ leftover[n] \in 0..2 /\ 0 \in 0..2
    BY DEF TypeOK
  <1>4. k \in 0..2
    BY <1>3
  <1> QED BY <1>1, <1>2, <1>3, <1>4

LEMMA AnnounceType ==
  ASSUME TypeOK, NEW n \in Nodes, publishStatus(n)
  PROVE  /\ retained' \in [Nodes -> Status \cup {"none"}]
         /\ inbox' \in [Nodes -> Seq(Message)]
         /\ quiet' \in [Nodes -> 0..StatusPeriod]
         /\ reported' \in [Nodes -> BOOLEAN]
  <1>1. CASE life[n] = "online"
    <2>1. Retain(n, OwnStatus(awake'[n]))
      BY <1>1 DEF publishStatus
    <2>2. inbox' \in [Nodes -> Seq(Message)] /\ retained' \in [Nodes -> Status \cup {"none"}]
      BY <2>1, RetainType, OwnType
    <2>3. quiet' = [quiet EXCEPT ![n] = 0] /\ reported' = [reported EXCEPT ![n] = FALSE]
      BY <1>1 DEF publishStatus
    <2>4. quiet' \in [Nodes -> 0..StatusPeriod] /\ reported' \in [Nodes -> BOOLEAN]
      BY <2>3, TimeAssumption DEF TypeOK
    <2> QED BY <2>2, <2>4
  <1>2. CASE life[n] # "online"
    BY <1>2 DEF publishStatus, TypeOK
  <1> QED BY <1>1, <1>2

LEMMA DoesType == \A a : Does(a) \in Setting
  BY DEF Does, Setting

LEMMA LostType == TypeOK => \A n \in Nodes : LostCommands(n) \in Setting
  BY DoesType DEF TypeOK, LostCommands

LEMMA HeadType ==
  ASSUME TypeOK, NEW n \in Nodes, cmds[n] # <<>>
  PROVE  Head(cmds[n]) \in Command
  BY DEF TypeOK

LEMMA NextType == TypeOK /\ [Next]_vars => TypeOK'
  <1> SUFFICES ASSUME TypeOK, [Next]_vars PROVE TypeOK'
    OBVIOUS
  <1> USE DEF boardVars, brokerVars, viewVars
  <1>1. ASSUME NEW n \in Nodes, Connect(n) PROVE TypeOK'
    <2>1. inbox' \in [Nodes -> Seq(Message)] /\ retained' \in [Nodes -> Status \cup {"none"}]
      BY <1>1, RetainType, OwnType DEF Connect
    <2>2. quiet' \in [Nodes -> 0..StatusPeriod]
      BY <1>1, TimeAssumption DEF Connect, TypeOK
    <2> QED BY <1>1, <2>1, <2>2 DEF Connect, TypeOK
  <1>2. ASSUME NEW n \in Nodes, PeriodicStatus(n) PROVE TypeOK'
    <2>1. inbox' \in [Nodes -> Seq(Message)] /\ retained' \in [Nodes -> Status \cup {"none"}]
      BY <1>2, RetainType, OwnType DEF PeriodicStatus
    <2>2. quiet' \in [Nodes -> 0..StatusPeriod]
      BY <1>2, TimeAssumption DEF PeriodicStatus, TypeOK
    <2> QED BY <1>2, <2>1, <2>2 DEF PeriodicStatus, TypeOK
  <1>3. ASSUME NEW n \in Nodes, publishLevels(n) PROVE TypeOK'
    <2>1. inbox' \in [Nodes -> Seq(Message)]
      <3>1. "data" \in Message
        BY DEF Message
      <3> QED BY <1>3, <3>1, DeliverType DEF publishLevels, TypeOK
    <2>2. leftover' \in [Nodes -> 0..2]
      BY <1>3 DEF publishLevels, HasLevels, TypeOK
    <2> QED BY <1>3, <2>1, <2>2 DEF publishLevels, TypeOK
  <1>4. ASSUME NEW n \in Nodes, onCommand(n) PROVE TypeOK'
    <2>1. awake' \in [Nodes -> BOOLEAN] /\ leftover' \in [Nodes -> 0..2]
      BY <1>4, PatchType, HeadType DEF onCommand
    <2>2. cmds' \in [Nodes -> Seq(Command)]
      BY <1>4 DEF onCommand, TypeOK
    <2>3. /\ inbox' \in [Nodes -> Seq(Message)] /\ retained' \in [Nodes -> Status \cup {"none"}]
          /\ quiet' \in [Nodes -> 0..StatusPeriod] /\ reported' \in [Nodes -> BOOLEAN]
      BY <1>4, AnnounceType DEF onCommand
    <2> QED BY <1>4, <2>1, <2>2, <2>3 DEF onCommand, TypeOK
  <1>19. ASSUME NEW n \in Nodes, NEW c \in Command, handlePost(n, c) PROVE TypeOK'
    <2>1. awake' \in [Nodes -> BOOLEAN] /\ leftover' \in [Nodes -> 0..2]
      BY <1>19, PatchType DEF handlePost
    <2>2. /\ inbox' \in [Nodes -> Seq(Message)] /\ retained' \in [Nodes -> Status \cup {"none"}]
          /\ quiet' \in [Nodes -> 0..StatusPeriod] /\ reported' \in [Nodes -> BOOLEAN]
      BY <1>19, AnnounceType DEF handlePost
    <2>3. wanted' \in [Nodes -> Setting]
      BY <1>19 DEF handlePost, Asks, TypeOK
    <2> QED BY <1>19, <2>1, <2>2, <2>3 DEF handlePost, TypeOK
  <1>20. ASSUME NEW n \in Nodes, NEW saved \in BOOLEAN, ResetInCommand(n, saved) PROVE TypeOK'
    <2>1. cmds' \in [Nodes -> Seq(Command)]
      BY <1>20 DEF ResetInCommand, TypeOK
    <2>2. awake' \in [Nodes -> BOOLEAN]
      BY <1>20 DEF ResetInCommand, TypeOK
    <2>3. wanted' \in [Nodes -> Setting]
      BY <1>20, DoesType DEF ResetInCommand, TypeOK
    <2>4. life' \in [Nodes -> {"off", "offline", "online"}]
      BY <1>20 DEF ResetInCommand, TypeOK
    <2>5. leftover' \in [Nodes -> 0..2]
      BY <1>20 DEF ResetInCommand, TypeOK
    <2> QED BY <1>20, <2>1, <2>2, <2>3, <2>4, <2>5 DEF ResetInCommand, TypeOK
  <1>5. ASSUME NEW n \in Nodes, Expire(n) PROVE TypeOK'
    <2>1. inbox' \in [Nodes -> Seq(Message)] /\ retained' \in [Nodes -> Status \cup {"none"}]
      BY <1>5, RetainType DEF Expire, Status
    <2>2. session' \in [Nodes -> BOOLEAN] /\ cmds' \in [Nodes -> Seq(Command)]
      BY <1>5 DEF Expire, TypeOK
    <2>3. wanted' \in [Nodes -> Setting]
      BY <1>5, LostType DEF Expire, TypeOK
    <2> QED BY <1>5, <2>1, <2>2, <2>3 DEF Expire, TypeOK
  <1>6. ASSUME NEW n \in Nodes, handle_status(n) PROVE TypeOK'
    <2>1. inbox' \in [Nodes -> Seq(Message)]
      BY <1>6 DEF handle_status, TypeOK
    <2>2. entry' \in [Nodes -> Entry] /\ listed' \subseteq Nodes /\ forgotten' \subseteq Nodes
      <3>1. StatusApplied(entry[n], Head(inbox[n])) \in Entry
        BY <1>6, EntryTypes DEF handle_status, TypeOK
      <3> QED BY <1>6, <3>1 DEF handle_status, TypeOK
    <2>3. relayOn' \in [Nodes -> BOOLEAN]
      BY <1>6 DEF handle_status, TypeOK
    <2> QED BY <1>6, <2>1, <2>2, <2>3 DEF handle_status, TypeOK
  <1>7. ASSUME NEW n \in Nodes, handle_data(n) PROVE TypeOK'
    <2>1. inbox' \in [Nodes -> Seq(Message)]
      BY <1>7 DEF handle_data, TypeOK
    <2> QED BY <1>7, <2>1, EntryTypes DEF handle_data, TypeOK
  <1>8. CASE ConnectDashboard
    <2>1. inbox' \in [Nodes -> Seq(Message)]
      <3>1. \A n \in Nodes : retained[n] # "none" => <<retained[n]>> \in Seq(Message)
        BY DEF TypeOK, Message
      <3> QED BY <1>8, <3>1 DEF ConnectDashboard, on_connect
    <2> QED BY <1>8, <2>1 DEF ConnectDashboard, on_connect, TypeOK
  <1>9. CASE ConnectFails
    BY <1>9 DEF ConnectFails, TypeOK
  <1>10. CASE Tick
    <2>1. entry' \in [Nodes -> Entry]
      BY <1>10, EntryTypes DEF Tick, TypeOK
    <2>2. quiet' \in [Nodes -> 0..StatusPeriod]
      BY <1>10, OlderType, TimeAssumption DEF Tick, TypeOK
    <2> QED BY <1>10, <2>1, <2>2 DEF Tick, TypeOK
  <1>11. ASSUME NEW n \in Nodes, PowerOff(n) \/ PowerOn(n) \/ Drop(n) PROVE TypeOK'
    <2>1. life' \in [Nodes -> {"off", "offline", "online"}]
      BY <1>11 DEF PowerOff, PowerOn, Drop, TypeOK
    <2>3. leftover' \in [Nodes -> 0..2]
      <3>1. leftover' = leftover \/ leftover' = [leftover EXCEPT ![n] = 0]
        BY <1>11 DEF PowerOff, PowerOn, Drop
      <3>2. leftover \in [Nodes -> 0..2] /\ 0 \in 0..2
        BY DEF TypeOK
      <3> QED BY <3>1, <3>2
    <2>2. UNCHANGED <<awake, reported, quiet, brokerVars, inbox, link, viewVars, wanted>>
      BY <1>11 DEF PowerOff, PowerOn, Drop
    <2> QED BY <2>1, <2>2, <2>3 DEF TypeOK
  <1>12. ASSUME NEW n \in Nodes, api_disconnect(n) PROVE TypeOK'
    BY <1>12, FreshType DEF api_disconnect, TypeOK
  <1>13. ASSUME NEW n \in Nodes, NEW c \in Command, publishCommand(n, c) PROVE TypeOK'
    <2>1. cmds' \in [Nodes -> Seq(Command)] /\ wanted' \in [Nodes -> Setting]
      BY <1>13 DEF publishCommand, Asks, TypeOK
    <2> QED BY <1>13, <2>1 DEF publishCommand, TypeOK
  <1>14. CASE StopBroker
    <2>1. retained' \in [Nodes -> Status \cup {"none"}]
      BY <1>14 DEF StopBroker, TypeOK
    <2>2. wanted' \in [Nodes -> Setting]
      BY <1>14, LostType DEF StopBroker
    <2>3. life' \in [Nodes -> {"off", "offline", "online"}]
      BY <1>14 DEF StopBroker, TypeOK
    <2>4. /\ cmds' \in [Nodes -> Seq(Command)] /\ inbox' \in [Nodes -> Seq(Message)]
          /\ session' \in [Nodes -> BOOLEAN]
      BY <1>14 DEF StopBroker
    <2>5. link' \in {"starting", "up", "lost", "dead"} /\ broker' \in BOOLEAN
      BY <1>14 DEF StopBroker, TypeOK
    <2> QED BY <1>14, <2>1, <2>2, <2>3, <2>4, <2>5 DEF StopBroker, TypeOK
  <1>15. CASE StartBroker
    BY <1>15 DEF StartBroker, TypeOK
  <1>18. CASE LoseLink
    BY <1>18 DEF LoseLink, TypeOK
  <1>16. CASE Restart
    BY <1>16, FreshType DEF Restart, TypeOK
  <1>17. CASE UNCHANGED vars
    BY <1>17 DEF vars, TypeOK
  <1> QED
    BY <1>1, <1>2, <1>3, <1>4, <1>5, <1>6, <1>7, <1>8, <1>9, <1>10, <1>11, <1>12, <1>13,
       <1>14, <1>15, <1>16, <1>17, <1>18, <1>19, <1>20
    DEF Next, NodeStep, Handle, Disturb, api_control

(***************************************************************************)
(* Nodes, broker and dashboard are well typed.                             *)
(***************************************************************************)
THEOREM TypeCorrect == Spec => []TypeOK
  BY InitType, NextType, PTL DEF Spec

-----------------------------------------------------------------------------
(* Commands *)

\* The last command on its way that asks for a setting is what was wanted
\* last; with none on its way the node does what was wanted.
Commanded(n) ==
  /\ Asking(n) = {} => wanted[n] = Does(awake[n])
  /\ \A i \in Asking(n) : (\A j \in Asking(n) : j <= i) => cmds[n][i] = wanted[n]

LEMMA SameCommanded ==
  ASSUME NEW n \in Nodes, Commanded(n), awake'[n] = awake[n],
         cmds'[n] = cmds[n], wanted'[n] = wanted[n]
  PROVE  Commanded(n)'
  BY DEF Commanded, Asking

LEMMA LostCommanded ==
  ASSUME NEW n \in Nodes, Commanded(n), awake'[n] = awake[n],
         cmds'[n] = <<>>, wanted'[n] = LostCommands(n)
  PROVE  Commanded(n)'
  <1>1. Asking(n)' = {}
    BY DEF Asking
  <1>2. cmds[n] = <<>> => Asking(n) = {}
    BY DEF Asking
  <1>3. wanted'[n] = Does(awake[n])
    BY <1>2 DEF Commanded, LostCommands
  <1> QED BY <1>1, <1>3 DEF Commanded

\* The node takes the first command: what the rest asks for is as it was.
LEMMA CommandTaken ==
  ASSUME TypeOK, NEW n \in Nodes, cmds[n] # <<>>, cmds'[n] = Tail(cmds[n])
  PROVE  /\ Head(cmds[n]) = cmds[n][1]
         /\ 1 \in Asking(n) <=> Asks(Head(cmds[n]))
         /\ Asking(n)' = {} <=> Asking(n) \subseteq {1}
         /\ Commanded(n) /\ wanted'[n] = wanted[n] =>
              \A i \in Asking(n)' : (\A j \in Asking(n)' : j <= i) => cmds'[n][i] = wanted'[n]
  <1> DEFINE q == cmds[n]
  <1>1. q \in Seq(Command) /\ q # <<>>
    BY DEF TypeOK
  <1>2. /\ Asking(n) = {i \in DOMAIN q : Asks(q[i])}
        /\ Asking(n)' = {i \in DOMAIN Tail(q) : Asks(Tail(q)[i])}
    BY DEF Asking
  <1> HIDE DEF q
  <1>3. /\ \A i \in Asking(n) : i \in Nat \ {0} /\ (i # 1 => i - 1 \in Asking(n)')
        /\ \A i \in Asking(n)' : i \in Nat \ {0} /\ i + 1 \in Asking(n) /\ Tail(q)[i] = q[i + 1]
    BY <1>1, <1>2, TailSays
  <1>4. /\ Head(q) = q[1]
        /\ 1 \in Asking(n) <=> Asks(Head(q))
    BY <1>1, <1>2, TailSays
  <1>5. Asking(n)' = {} <=> Asking(n) \subseteq {1}
    <2>1. ASSUME NEW i \in Asking(n)', Asking(n) \subseteq {1} PROVE FALSE
      BY <1>3, <2>1
    <2>2. ASSUME Asking(n)' = {}, NEW i \in Asking(n) PROVE i = 1
      BY <1>3, <2>2
    <2> QED BY <2>1, <2>2
  <1>6. ASSUME Commanded(n), wanted'[n] = wanted[n],
               NEW i \in Asking(n)', \A j \in Asking(n)' : j <= i
        PROVE  cmds'[n][i] = wanted'[n]
    <2>1. ASSUME NEW j \in Asking(n) PROVE j <= i + 1
      <3>1. CASE j = 1
        BY <1>3, <3>1
      <3>2. CASE j # 1
        <4>1. j \in Nat /\ j - 1 \in Asking(n)' /\ i \in Nat
          BY <1>3, <3>2
        <4>2. j - 1 <= i
          BY <1>6, <4>1
        <4> QED BY <4>1, <4>2
      <3> QED BY <3>1, <3>2
    <2>2. q[i + 1] = wanted[n]
      BY <1>3, <1>6, <2>1 DEF Commanded, q
    <2>3. cmds'[n][i] = q[i + 1]
      BY <1>3 DEF q
    <2> QED BY <1>6, <2>2, <2>3
  <1> QED BY <1>4, <1>5, <1>6 DEF q

LEMMA CommandDone ==
  ASSUME TypeOK, NEW n \in Nodes, Commanded(n), onCommand(n)
  PROVE  Commanded(n)'
  <1> DEFINE c == Head(cmds[n])
  <1>1. cmds[n] # <<>> /\ cmds'[n] = Tail(cmds[n]) /\ wanted'[n] = wanted[n]
    BY DEF onCommand, TypeOK
  <1>2. awake'[n] = IF Asks(c) THEN c = "wake" ELSE awake[n]
    BY DEF onCommand, apply, TypeOK
  <1>3. ASSUME Asking(n)' = {} PROVE wanted'[n] = Does(awake'[n])
    <2>1. Asking(n) \subseteq {1}
      BY <1>1, <1>3, CommandTaken
    <2>2. CASE Asks(c)
      <3>1. 1 \in Asking(n) /\ \A j \in Asking(n) : j <= 1
        BY <1>1, <2>1, <2>2, CommandTaken
      <3>2. wanted[n] = cmds[n][1] /\ cmds[n][1] = c
        BY <1>1, <3>1, CommandTaken DEF Commanded
      <3>3. c = "wake" \/ c = "sleep"
        BY <2>2 DEF Asks, Setting
      <3> HIDE DEF c
      <3>4. awake'[n] <=> c = "wake"
        BY <1>2, <2>2, Zenon
      <3>5. Does(awake'[n]) = c
        BY <3>3, <3>4 DEF Does
      <3> QED BY <1>1, <3>2, <3>5
    <2>3. CASE ~Asks(c)
      <3>1. Asking(n) = {}
        BY <1>1, <2>1, <2>3, CommandTaken
      <3>2. awake'[n] = awake[n]
        BY <1>2, <2>3, Zenon
      <3> QED BY <1>1, <3>1, <3>2 DEF Commanded
    <2> QED BY <2>2, <2>3
  <1>4. \A i \in Asking(n)' : (\A j \in Asking(n)' : j <= i) => cmds'[n][i] = wanted'[n]
    BY <1>1, CommandTaken
  <1> QED BY <1>3, <1>4 DEF Commanded

LEMMA CommandCut ==
  ASSUME TypeOK, NEW n \in Nodes, Commanded(n), NEW saved \in BOOLEAN, ResetInCommand(n, saved)
  PROVE  Commanded(n)'
  <1>1. cmds[n] # <<>> /\ cmds'[n] = Tail(cmds[n])
        /\ wanted'[n] = IF Asking(n) \subseteq {1} THEN Does(awake'[n]) ELSE wanted[n]
    BY DEF ResetInCommand, TypeOK
  <1>2. CASE Asking(n) \subseteq {1}
    BY <1>1, <1>2, CommandTaken DEF Commanded
  <1>3. CASE ~(Asking(n) \subseteq {1})
    BY <1>1, <1>3, CommandTaken DEF Commanded
  <1> QED BY <1>2, <1>3

LEMMA PatchPosted ==
  ASSUME TypeOK, NEW n \in Nodes, Commanded(n), NEW c \in Command, handlePost(n, c)
  PROVE  Commanded(n)'
  <1>1. /\ cmds' = cmds
        /\ wanted'[n] = IF Asks(c) /\ Asking(n) = {} THEN c ELSE wanted[n]
        /\ awake'[n] = IF Asks(c) THEN c = "wake" ELSE awake[n]
    BY DEF handlePost, apply, TypeOK
  <1>2. Asking(n)' = Asking(n)
    BY <1>1 DEF Asking
  <1>3. CASE Asking(n) # {}
    BY <1>1, <1>2, <1>3 DEF Commanded
  <1>4. CASE Asking(n) = {} /\ Asks(c)
    <2>1. c = "wake" \/ c = "sleep"
      BY <1>4 DEF Asks, Setting
    <2>2. awake'[n] <=> c = "wake"
      BY <1>1, <1>4, Zenon
    <2>3. Does(awake'[n]) = c
      BY <2>1, <2>2 DEF Does
    <2> QED BY <1>1, <1>2, <1>4, <2>3 DEF Commanded
  <1>5. CASE Asking(n) = {} /\ ~Asks(c)
    <2>1. awake'[n] = awake[n] /\ wanted'[n] = wanted[n] /\ cmds'[n] = cmds[n]
      BY <1>1, <1>5, Zenon
    <2> QED BY <2>1, SameCommanded
  <1> QED BY <1>3, <1>4, <1>5

LEMMA CommandSent ==
  ASSUME TypeOK, NEW n \in Nodes, Commanded(n), NEW c \in Command, publishCommand(n, c)
  PROVE  Commanded(n)'
  <1> DEFINE q == cmds[n]
  <1>1. /\ q \in Seq(Command) /\ cmds'[n] = Append(q, c)
        /\ wanted'[n] = IF Asks(c) THEN c ELSE wanted[n]
        /\ awake'[n] = awake[n]
    BY DEF publishCommand, boardVars, TypeOK
  <1>2. /\ Asking(n) = {i \in DOMAIN q : Asks(q[i])}
        /\ Asking(n)' = {i \in DOMAIN Append(q, c) : Asks(Append(q, c)[i])}
    BY <1>1 DEF Asking
  <1>3. Commanded(n) <=> /\ Asking(n) = {} => wanted[n] = Does(awake[n])
                         /\ \A i \in Asking(n) :
                              (\A j \in Asking(n) : j <= i) => q[i] = wanted[n]
    BY DEF Commanded
  <1> HIDE DEF q
  <1>4. /\ DOMAIN q = 1..Len(q) /\ Len(q) \in Nat
        /\ DOMAIN Append(q, c) = 1..(Len(q) + 1)
        /\ \A i \in 1..Len(q) : Append(q, c)[i] = q[i]
        /\ Append(q, c)[Len(q) + 1] = c
    BY <1>1, AppendProperties, LenProperties
  <1>5. CASE Asks(c)
    <2>1. Len(q) + 1 \in Asking(n)' /\ \A i \in Asking(n)' : i \in 1..(Len(q) + 1)
      BY <1>2, <1>4, <1>5
    <2>2. \A i \in Asking(n)' : (\A j \in Asking(n)' : j <= i) => i = Len(q) + 1
      BY <1>4, <2>1
    <2> QED BY <1>1, <1>4, <1>5, <2>1, <2>2 DEF Commanded
  <1>6. CASE ~Asks(c)
    <2>1. Asking(n)' = Asking(n) /\ \A i \in Asking(n) : cmds'[n][i] = q[i]
      BY <1>1, <1>2, <1>4, <1>6
    <2>2. wanted'[n] = wanted[n]
      BY <1>1, <1>6
    <2> QED BY <1>1, <1>3, <2>1, <2>2 DEF Commanded
  <1> QED BY <1>5, <1>6

LEMMA NextCommanded ==
  ASSUME TypeOK, \A m \in Nodes : Commanded(m), [Next]_vars, NEW n \in Nodes
  PROVE  Commanded(n)'
  <1> USE DEF boardVars, brokerVars, viewVars
  <1>1. ASSUME NEW m \in Nodes,
               \/ Connect(m) \/ PeriodicStatus(m) \/ publishLevels(m) \/ Handle(m)
               \/ PowerOff(m) \/ PowerOn(m) \/ Drop(m) \/ api_disconnect(m)
        PROVE  awake' = awake /\ cmds' = cmds /\ wanted' = wanted
    BY <1>1 DEF Connect, PeriodicStatus, publishLevels, Handle, handle_status, handle_data,
                PowerOff, PowerOn, Drop, api_disconnect
  <1>2. ASSUME ConnectDashboard \/ ConnectFails \/ Tick \/ StartBroker \/ LoseLink \/ Restart
               \/ UNCHANGED vars
        PROVE  awake' = awake /\ cmds' = cmds /\ wanted' = wanted
    BY <1>2 DEF ConnectDashboard, ConnectFails, Tick, StartBroker, LoseLink, Restart, vars
  <1>3. ASSUME NEW m \in Nodes, m # n,
               \/ onCommand(m) \/ Expire(m)
               \/ \E saved \in BOOLEAN : ResetInCommand(m, saved)
               \/ \E c \in Command : handlePost(m, c) \/ publishCommand(m, c)
        PROVE  awake'[n] = awake[n] /\ cmds'[n] = cmds[n] /\ wanted'[n] = wanted[n]
    BY <1>3 DEF onCommand, apply, Expire, ResetInCommand, handlePost, publishCommand, TypeOK
  <1>4. CASE Expire(n)
    BY <1>4, LostCommanded DEF Expire, TypeOK
  <1>5. CASE StopBroker
    BY <1>5, LostCommanded DEF StopBroker
  <1> QED
    BY <1>1, <1>2, <1>3, <1>4, <1>5, SameCommanded, CommandDone, CommandCut, PatchPosted,
       CommandSent DEF Next, NodeStep, Disturb, api_control

(***************************************************************************)
(* A node to which no setting is on its way does what it was last told,    *)
(* however long the queue of commands, however many clients, however its   *)
(* own page and other patches come between, and whatever was reset or      *)
(* lost.                                                                   *)
(***************************************************************************)
THEOREM CommandsObeyed == Spec => []SettingsAsCommanded
  <1> DEFINE CInv == \A n \in Nodes : Commanded(n)
  <1>1. Init => CInv
    <2> SUFFICES ASSUME Init, NEW n \in Nodes PROVE Commanded(n)
      OBVIOUS
    <2>1. cmds[n] = <<>> /\ awake[n] = TRUE /\ wanted[n] = "wake"
      BY DEF Init
    <2>2. Asking(n) = {}
      BY <2>1 DEF Asking
    <2> QED BY <2>1, <2>2 DEF Commanded, Does
  <1>2. TypeOK /\ CInv /\ [Next]_vars => CInv'
    BY NextCommanded
  <1>3. CInv => SettingsAsCommanded
    BY DEF Commanded, SettingsAsCommanded
  <1> QED BY <1>1, <1>2, <1>3, TypeCorrect, PTL DEF Spec

-----------------------------------------------------------------------------
(* The dashboard and the broker *)

\* The entry and the relay of a node fit what the broker retains.
Fits(n) == /\ entry[n].will <=> retained[n] = "lwt"
           /\ retained[n] = "awake" => ~entry[n].sleeping
           /\ relayOn[n] => retained[n] = "awake"

\* What the dashboard has of a node when no status of it is on its way.
Known(n) ==
  /\ retained[n] \in Own => n \in listed \cup forgotten
  /\ retained[n] # "none" /\ n \in listed => Fits(n)

\* The last status on its way is the one the broker retains.
Agreed(n) ==
  link = "up" =>
    /\ \A i \in Statuses(n) : (\A j \in Statuses(n) : j <= i) => inbox[n][i] = retained[n]
    /\ Statuses(n) = {} => Known(n)

\* Nothing was sent, and the node is listed as it was, forgotten, or let be.
LEMMA Untouched ==
  ASSUME NEW n \in Nodes, Agreed(n),
         link' = "up" => link = "up",
         inbox'[n] = inbox[n], retained'[n] = retained[n],
         n \in listed' => /\ n \in listed /\ relayOn'[n] = relayOn[n]
                          /\ entry'[n].will = entry[n].will
                          /\ entry'[n].sleeping => entry[n].sleeping,
         n \in listed \cup forgotten => n \in listed' \cup forgotten'
  PROVE  Agreed(n)'
  <1>1. n \in listed' /\ Fits(n) => Fits(n)'
    BY Zenon DEF Fits
  <1>2. n \in listed' => n \in listed
    OBVIOUS
  <1>3. Known(n) => Known(n)'
    BY <1>1, <1>2 DEF Known
  <1> QED BY <1>3 DEF Agreed, Statuses

\* A level more or less does not matter.
LEMMA DataSent ==
  ASSUME TypeOK, NEW n \in Nodes, Agreed(n), link' = link,
         Deliver(n, "data"), UNCHANGED <<retained, listed, entry, relayOn, forgotten>>
  PROVE  \A m \in Nodes : Agreed(m) => Agreed(m)'
  <1>1. CASE link # "up"
    BY <1>1 DEF Agreed
  <1>2. CASE link = "up"
    <2>1. inbox' = [inbox EXCEPT ![n] = Append(@, "data")]
      BY <1>2 DEF Deliver
    <2> SUFFICES ASSUME NEW m \in Nodes, Agreed(m) PROVE Agreed(m)'
      OBVIOUS
    <2>2. CASE m # n
      <3>1. inbox'[m] = inbox[m]
        BY <2>1, <2>2 DEF TypeOK
      <3> QED BY <3>1, Untouched
    <2>3. CASE m = n
      <3> DEFINE q == inbox[n]
      <3>1. q \in Seq(Message) /\ inbox'[n] = Append(q, "data") /\ "data" \in Message
        BY <2>1 DEF TypeOK, Message
      <3>2. /\ DOMAIN q = 1..Len(q) /\ Len(q) \in Nat
            /\ DOMAIN inbox'[n] = 1..(Len(q) + 1)
            /\ \A i \in 1..Len(q) : inbox'[n][i] = q[i]
            /\ inbox'[n][Len(q) + 1] = "data"
        BY <3>1, AppendProperties, LenProperties
      <3>3. "data" \notin Status
        BY DEF Status, Own
      <3>4. Statuses(n)' = Statuses(n)
        BY <3>2, <3>3 DEF Statuses
      <3>5. \A i \in Statuses(n) : inbox'[n][i] = inbox[n][i]
        BY <3>2 DEF Statuses
      <3>6. Known(n) => Known(n)'
        BY DEF Known, Fits
      <3> QED BY <2>3, <3>4, <3>5, <3>6 DEF Agreed
    <2> QED BY <2>2, <2>3
  <1> QED BY <1>1, <1>2

\* A status that is sent is the last on its way, and retained.
LEMMA StatusSent ==
  ASSUME TypeOK, NEW n \in Nodes, NEW s \in Status, link' = link,
         Retain(n, s), UNCHANGED <<listed, entry, relayOn, forgotten>>
  PROVE  \A m \in Nodes : Agreed(m) => Agreed(m)'
  <1>1. CASE link # "up"
    BY <1>1 DEF Agreed
  <1>2. CASE link = "up"
    <2>1. /\ inbox' = [inbox EXCEPT ![n] = Append(@, s)]
          /\ retained' = [retained EXCEPT ![n] = s]
      BY <1>2 DEF Retain, Deliver
    <2> SUFFICES ASSUME NEW m \in Nodes, Agreed(m) PROVE Agreed(m)'
      OBVIOUS
    <2>2. CASE m # n
      <3>1. inbox'[m] = inbox[m] /\ retained'[m] = retained[m]
        BY <2>1, <2>2 DEF TypeOK
      <3> QED BY <3>1, Untouched
    <2>3. CASE m = n
      <3> DEFINE q == inbox[n]
      <3>1. q \in Seq(Message) /\ inbox'[n] = Append(q, s) /\ s \in Message /\ retained'[n] = s
        BY <2>1 DEF TypeOK, Message
      <3>2. /\ Len(q) \in Nat
            /\ DOMAIN inbox'[n] = 1..(Len(q) + 1)
            /\ inbox'[n][Len(q) + 1] = s
        BY <3>1, AppendProperties, LenProperties
      <3>3. Len(q) + 1 \in Statuses(n)'
        BY <3>2 DEF Statuses
      <3>4. \A i \in Statuses(n)' : i \in 1..(Len(q) + 1)
        BY <3>2 DEF Statuses
      <3>5. \A i \in Statuses(n)' : (\A j \in Statuses(n)' : j <= i) => i = Len(q) + 1
        BY <3>2, <3>3, <3>4
      <3>6. \A i \in Statuses(n)' : (\A j \in Statuses(n)' : j <= i) => inbox'[n][i] = retained'[n]
        BY <3>1, <3>2, <3>5
      <3>7. Statuses(n)' # {}
        BY <3>3
      <3> QED BY <2>3, <3>6, <3>7 DEF Agreed
    <2> QED BY <2>2, <2>3
  <1> QED BY <1>1, <1>2

LEMMA Announced ==
  ASSUME TypeOK, NEW n \in Nodes, publishStatus(n),
         UNCHANGED <<link, listed, entry, relayOn, forgotten>>
  PROVE  \A m \in Nodes : Agreed(m) => Agreed(m)'
  <1>1. CASE life[n] = "online"
    BY <1>1, StatusSent, OwnType DEF publishStatus
  <1>2. CASE life[n] # "online"
    BY <1>2, Untouched DEF publishStatus
  <1> QED BY <1>1, <1>2

\* The first message is taken: the statuses left are the later ones.
LEMMA Taken ==
  ASSUME TypeOK, NEW n \in Nodes, inbox[n] # <<>>,
         inbox' = [inbox EXCEPT ![n] = Tail(@)]
  PROVE  /\ inbox[n][1] = Head(inbox[n])
         /\ \A i \in Statuses(n) : i \in Nat \ {0}
         /\ \A i \in Statuses(n)' : /\ i \in Nat \ {0} /\ i + 1 \in Statuses(n)
                                    /\ inbox'[n][i] = inbox[n][i + 1]
         /\ \A i \in Statuses(n) : i # 1 => i - 1 \in Statuses(n)'
         /\ 1 \in Statuses(n) <=> Head(inbox[n]) \in Status
  <1> DEFINE q == inbox[n]
  <1>1. q \in Seq(Message) /\ q # <<>> /\ inbox'[n] = Tail(q)
    BY DEF TypeOK
  <1> HIDE DEF q
  <1>2. /\ Len(q) \in Nat \ {0} /\ DOMAIN q = 1..Len(q)
        /\ Len(Tail(q)) = Len(q) - 1 /\ DOMAIN Tail(q) = 1..(Len(q) - 1)
        /\ \A i \in 1..(Len(q) - 1) : Tail(q)[i] = q[i + 1]
    BY <1>1, HeadTailProperties, LenProperties, EmptySeq
  <1>3. Head(q) = q[1]
    BY <1>1
  <1>4. Statuses(n) = {i \in 1..Len(q) : q[i] \in Status}
    BY <1>2 DEF Statuses, q
  <1>5. Statuses(n)' = {i \in 1..(Len(q) - 1) : q[i + 1] \in Status}
    BY <1>1, <1>2 DEF Statuses
  <1>6. \A i \in Statuses(n)' : inbox'[n][i] = q[i + 1]
    BY <1>1, <1>2, <1>5
  <1> QED BY <1>2, <1>3, <1>4, <1>5, <1>6 DEF q

LEMMA StatusHandled ==
  ASSUME TypeOK, NEW n \in Nodes, Agreed(n), handle_status(n)
  PROVE  Agreed(n)'
  <1> DEFINE s == Head(inbox[n])
  <1>1. /\ s \in Status /\ inbox[n] # <<>>
        /\ inbox' = [inbox EXCEPT ![n] = Tail(@)]
        /\ link' = link /\ retained' = retained
    BY DEF handle_status, brokerVars
  <1>2. CASE Statuses(n)' # {} /\ link = "up"
    <2>1. ASSUME NEW i \in Statuses(n)', \A j \in Statuses(n)' : j <= i
          PROVE  inbox'[n][i] = retained'[n]
      <3>1. i + 1 \in Statuses(n) /\ i \in Nat \ {0} /\ inbox'[n][i] = inbox[n][i + 1]
        BY <1>1, Taken
      <3>2. ASSUME NEW j \in Statuses(n) PROVE j <= i + 1
        <4>1. j \in Nat \ {0}
          BY <1>1, Taken
        <4>2. CASE j = 1
          BY <3>1, <4>2
        <4>3. CASE j # 1
          <5>1. j - 1 \in Statuses(n)'
            BY <1>1, <4>3, Taken
          <5>2. j - 1 <= i
            BY <2>1, <5>1
          <5> QED BY <3>1, <4>1, <5>2
        <4> QED BY <4>2, <4>3
      <3> QED BY <1>1, <1>2, <3>1, <3>2 DEF Agreed
    <2> QED BY <1>2, <2>1 DEF Agreed
  <1>3. CASE Statuses(n)' = {} /\ link = "up"
    <2>1. 1 \in Statuses(n) /\ inbox[n][1] = s
      BY <1>1, Taken
    <2>2. \A j \in Statuses(n) : j <= 1
      <3>1. \A j \in Statuses(n) : j = 1
        BY <1>1, <1>3, Taken
      <3> QED BY <3>1
    <2>3. s = retained[n]
      BY <1>3, <2>1, <2>2 DEF Agreed
    <2>4. CASE Takes(n, s)
      <3>1. n \in listed' /\ entry'[n] = StatusApplied(entry[n], s)
        BY <2>4 DEF handle_status, TypeOK
      <3>2. /\ StatusApplied(entry[n], s).will = (s = "lwt")
            /\ s = "awake" => StatusApplied(entry[n], s).sleeping = (s = "asleep")
        BY DEF StatusApplied
      <3>3. entry'[n].will <=> s = "lwt"
        BY <3>1, <3>2, Zenon
      <3>4. s = "awake" => ~entry'[n].sleeping
        BY <3>1, <3>2
      <3>5. relayOn'[n] => s = "awake"
        <4>1. relayOn'[n] = (s \in Own /\ Online(entry'[n]) /\ ~entry'[n].sleeping)
          BY <2>4 DEF handle_status, TypeOK
        <4>2. s = "asleep" => entry'[n].sleeping = (s = "asleep")
          BY <3>1 DEF StatusApplied
        <4>3. s = "asleep" => entry'[n].sleeping
          BY <4>2
        <4>4. relayOn'[n] => s \in Own /\ ~entry'[n].sleeping
          BY <4>1, Zenon
        <4> QED BY <4>3, <4>4 DEF Own
      <3>6. Fits(n)'
        BY <1>1, <2>3, <3>3, <3>4, <3>5, Zenon DEF Fits
      <3> QED BY <1>1, <1>3, <3>1, <3>6 DEF Agreed, Known
    <2>5. CASE ~Takes(n, s)
      <3>1. retained[n] \notin Own /\ n \notin listed
        BY <2>3, <2>5 DEF Takes
      <3>2. listed' = listed
        BY <2>5 DEF handle_status, viewVars
      <3> QED BY <1>1, <1>3, <3>1, <3>2 DEF Agreed, Known
    <2> QED BY <2>4, <2>5
  <1>4. CASE link # "up"
    BY <1>1, <1>4 DEF Agreed
  <1> QED BY <1>2, <1>3, <1>4

LEMMA DataHandled ==
  ASSUME TypeOK, NEW n \in Nodes, Agreed(n), handle_data(n)
  PROVE  Agreed(n)'
  <1>1. /\ Head(inbox[n]) \notin Status /\ inbox[n] # <<>>
        /\ inbox' = [inbox EXCEPT ![n] = Tail(@)]
        /\ UNCHANGED <<link, retained, listed, relayOn, forgotten>>
    BY DEF handle_data, brokerVars, Status, Own
  <1>2. entry'[n].will = entry[n].will /\ (entry'[n].sleeping => entry[n].sleeping)
    BY DEF handle_data, DataApplied, TypeOK
  <1>3. 1 \notin Statuses(n)
    BY <1>1, Taken
  <1>4. ASSUME link = "up", NEW i \in Statuses(n)', \A j \in Statuses(n)' : j <= i
        PROVE  inbox'[n][i] = retained'[n]
    <2>1. i + 1 \in Statuses(n) /\ i \in Nat \ {0} /\ inbox'[n][i] = inbox[n][i + 1]
      BY <1>1, Taken
    <2>2. ASSUME NEW j \in Statuses(n) PROVE j <= i + 1
      <3>1. j \in Nat \ {0} /\ j - 1 \in Statuses(n)'
        BY <1>1, <1>3, Taken
      <3>2. j - 1 <= i
        BY <1>4, <3>1
      <3> QED BY <2>1, <3>1, <3>2
    <2> QED BY <1>1, <1>4, <2>1, <2>2 DEF Agreed
  <1>5. Statuses(n)' = {} => Statuses(n) = {}
    BY <1>1, <1>3, Taken
  <1>6. Fits(n) => Fits(n)'
    BY <1>1, <1>2, Zenon DEF Fits
  <1>7. Known(n) => Known(n)'
    BY <1>1, <1>6 DEF Known
  <1> QED BY <1>1, <1>4, <1>5, <1>7 DEF Agreed

LEMMA Subscribed ==
  ASSUME TypeOK, NEW n \in Nodes, on_connect, UNCHANGED retained PROVE Agreed(n)'
  <1>1. CASE retained[n] = "none"
    <2>1. inbox'[n] = <<>> /\ retained'[n] = "none"
      BY <1>1 DEF on_connect
    <2>2. Statuses(n)' = {}
      BY <2>1 DEF Statuses
    <2> QED BY <2>1, <2>2 DEF Agreed, Known, Own
  <1>2. CASE retained[n] # "none"
    <2>1. inbox'[n] = <<retained[n]>> /\ retained'[n] = retained[n]
      BY <1>2 DEF on_connect
    <2>2. Statuses(n)' = {1}
      BY <1>2, <2>1 DEF Statuses, TypeOK
    <2> QED BY <2>1, <2>2 DEF Agreed
  <1> QED BY <1>1, <1>2

LEMMA NextAgreed ==
  ASSUME TypeOK, \A m \in Nodes : Agreed(m), [Next]_vars, NEW n \in Nodes
  PROVE  Agreed(n)'
  <1> USE DEF boardVars, brokerVars, viewVars
  <1>1. ASSUME NEW m \in Nodes, Connect(m) \/ PeriodicStatus(m)
        PROVE  Agreed(n)'
    <2>1. PICK s \in Status : Retain(m, s)
      BY <1>1, OwnType DEF Connect, PeriodicStatus
    <2>2. UNCHANGED <<link, listed, entry, relayOn, forgotten>>
      BY <1>1 DEF Connect, PeriodicStatus
    <2> QED BY <2>1, <2>2, StatusSent
  <1>2. ASSUME NEW m \in Nodes, Expire(m) PROVE Agreed(n)'
    BY <1>2, StatusSent DEF Expire, Status
  <1>3. ASSUME NEW m \in Nodes, publishLevels(m) PROVE Agreed(n)'
    <2>1. UNCHANGED <<link, retained, listed, entry, relayOn, forgotten>>
      BY <1>3 DEF publishLevels
    <2>2. CASE Deliver(m, "data")
      BY <2>1, <2>2, DataSent
    <2>3. CASE inbox' = inbox
      BY <2>1, <2>3, Untouched
    <2> QED BY <1>3, <2>2, <2>3 DEF publishLevels
  <1>4. ASSUME NEW m \in Nodes, m # n, handle_status(m) \/ handle_data(m) PROVE Agreed(n)'
    <2>1. inbox'[n] = inbox[n] /\ UNCHANGED <<link, retained>>
      BY <1>4 DEF handle_status, handle_data, TypeOK
    <2>2. entry'[n] = entry[n] /\ relayOn'[n] = relayOn[n]
          /\ (n \in listed <=> n \in listed') /\ (n \in forgotten <=> n \in forgotten')
      BY <1>4 DEF handle_status, handle_data, TypeOK
    <2> QED BY <2>1, <2>2, Untouched
  <1>5. CASE ConnectDashboard
    BY <1>5, Subscribed DEF ConnectDashboard
  <1>6. CASE ConnectFails \/ LoseLink \/ Restart \/ StopBroker
    <2>1. link' # "up"
      BY <1>6 DEF ConnectFails, LoseLink, Restart, StopBroker
    <2> QED BY <2>1 DEF Agreed
  <1>7. ASSUME NEW m \in Nodes, PowerOff(m) \/ PowerOn(m) \/ Drop(m) PROVE Agreed(n)'
    <2>1. UNCHANGED <<link, inbox, retained, listed, entry, relayOn, forgotten>>
      BY <1>7 DEF PowerOff, PowerOn, Drop
    <2> QED BY <2>1, Untouched
  <1>8. ASSUME NEW m \in Nodes, api_disconnect(m) PROVE Agreed(n)'
    <2>1. UNCHANGED <<link, inbox, retained, relayOn>> /\ listed' = listed \ {m}
          /\ forgotten' = forgotten \cup {m}
          /\ entry' = [entry EXCEPT ![m] = FreshEntry]
      BY <1>8 DEF api_disconnect
    <2> QED BY <2>1, Untouched DEF TypeOK
  <1>9. ASSUME NEW m \in Nodes,
               \/ \E c \in Command : publishCommand(m, c)
               \/ \E saved \in BOOLEAN : ResetInCommand(m, saved)
        PROVE  Agreed(n)'
    <2>1. UNCHANGED <<link, inbox, retained, listed, entry, relayOn, forgotten>>
      BY <1>9 DEF publishCommand, ResetInCommand
    <2> QED BY <2>1, Untouched
  <1>12. ASSUME NEW m \in Nodes, onCommand(m) \/ \E c \in Command : handlePost(m, c)
         PROVE  Agreed(n)'
    <2>1. publishStatus(m) /\ UNCHANGED <<link, listed, entry, relayOn, forgotten>>
      BY <1>12 DEF onCommand, handlePost
    <2> QED BY <2>1, Announced
  <1>10. CASE StartBroker \/ UNCHANGED vars
    <2>1. UNCHANGED <<link, inbox, retained, listed, entry, relayOn, forgotten>>
      BY <1>10 DEF StartBroker, vars
    <2> QED BY <2>1, Untouched
  <1>11. CASE Tick
    <2>1. UNCHANGED <<link, inbox, retained, listed, relayOn, forgotten>>
      BY <1>11 DEF Tick
    <2>2. entry'[n].will = entry[n].will /\ entry'[n].sleeping = entry[n].sleeping
      BY <1>11 DEF Tick, Aged
    <2> QED BY <2>1, <2>2, Untouched
  <1> QED
    BY <1>1, <1>2, <1>3, <1>4, <1>5, <1>6, <1>7, <1>8, <1>9, <1>10, <1>11, <1>12,
       StatusHandled, DataHandled DEF Next, NodeStep, Handle, Disturb, api_control

(***************************************************************************)
(* Once it has handled what it was sent, the dashboard agrees with the     *)
(* broker on every node, whatever was lost, repeated or restarted.         *)
(***************************************************************************)
THEOREM BrokerAgreedWith == Spec => []AgreesWithBroker
  <1> DEFINE BInv == \A n \in Nodes : Agreed(n)
  <1>1. Init => BInv
    BY DEF Init, Agreed
  <1>2. TypeOK /\ BInv /\ [Next]_vars => BInv'
    BY NextAgreed
  <1>3. BInv => AgreesWithBroker
    BY DEF Agreed, Known, Fits, AgreesWithBroker
  <1> QED BY <1>1, <1>2, <1>3, TypeCorrect, PTL DEF Spec

-----------------------------------------------------------------------------
(***************************************************************************)
(* The half of LiveNodeShown that needs no fairness: a node that is        *)
(* steady, with nothing on its way that would contradict what it does, is  *)
(* shown as it is and stays so for as long as users and failures leave it  *)
(* alone.  Only the two time-outs must leave room: a status must come      *)
(* before the last one is too old, and levels before the second tick.      *)
(***************************************************************************)
TimesFit == StatusPeriod < StatusTimeout /\ DataTimeout > 1

Saying(n, S) == \A i \in DOMAIN inbox[n] : inbox[n][i] \in S
Levels(n)    == \E i \in DOMAIN inbox[n] : inbox[n][i] = "data"

\* Levels come every tick, so their age is one at most; those that were
\* reported in this tick have arrived or are on their way.
SteadyAwake(n) == /\ Saying(n, {"awake", "data"})
                  /\ ~entry[n].sleeping
                  /\ relayOn[n]
                  /\ entry[n].dataAge <= 1
                  /\ reported[n] => entry[n].dataAge = 0 \/ Levels(n)

\* The entry's status is as old as the node's last one, or that is on its way.
SteadyAsleep(n) == /\ Saying(n, {"asleep"})
                   /\ leftover[n] = 0
                   /\ entry[n].sleeping
                   /\ ~relayOn[n]
                   /\ entry[n].statusAge <= StatusPeriod
                   /\ inbox[n] = <<>> => entry[n].statusAge <= quiet[n]

Steady(n) == /\ link = "up"
             /\ life[n] = "online"
             /\ cmds[n] = <<>>
             /\ n \in listed
             /\ ~entry[n].will
             /\ awake[n] => SteadyAwake(n)
             /\ ~awake[n] => SteadyAsleep(n)

LEMMA SteadyShown ==
  ASSUME TimesFit, TypeOK, NEW n \in Nodes, Steady(n)
  PROVE  Shown(n)
  <1>1. /\ awake[n] \in BOOLEAN /\ relayOn[n] \in BOOLEAN
        /\ entry[n].sleeping \in BOOLEAN
        /\ entry[n].dataAge \in Nat /\ entry[n].statusAge \in Nat
    BY TimeAssumption DEF TypeOK, Entry
  <1>2. CASE awake[n]
    <2>1. ~entry[n].sleeping /\ relayOn[n] /\ entry[n].dataAge <= 1
      BY <1>2 DEF Steady, SteadyAwake
    <2>2. entry[n].dataAge < DataTimeout
      BY <1>1, <2>1, TimeAssumption DEF TimesFit
    <2>3. Online(entry[n])
      BY <2>1, <2>2 DEF Steady, Online
    <2>4. entry[n].sleeping = ~awake[n] /\ relayOn[n] = awake[n]
      BY <1>1, <1>2, <2>1
    <2> QED BY <2>3, <2>4 DEF Steady, Shown
  <1>3. CASE ~awake[n]
    <2>1. entry[n].sleeping /\ ~relayOn[n] /\ entry[n].statusAge <= StatusPeriod
      BY <1>3 DEF Steady, SteadyAsleep
    <2>2. entry[n].statusAge < StatusTimeout
      BY <1>1, <2>1, TimeAssumption DEF TimesFit
    <2>3. Online(entry[n])
      BY <2>1, <2>2 DEF Steady, Online
    <2>4. entry[n].sleeping = ~awake[n] /\ relayOn[n] = awake[n]
      BY <1>1, <1>3, <2>1
    <2> QED BY <2>3, <2>4 DEF Steady, Shown
  <1> QED BY <1>2, <1>3

LEMMA SteadyUntouched ==
  ASSUME NEW n \in Nodes, Steady(n), link' = link, life'[n] = life[n],
         cmds'[n] = cmds[n], n \in listed', entry'[n] = entry[n],
         awake'[n] = awake[n], leftover'[n] = leftover[n],
         reported'[n] = reported[n], quiet'[n] = quiet[n],
         relayOn'[n] = relayOn[n], inbox'[n] = inbox[n]
  PROVE  Steady(n)'
  BY DEF Steady, SteadyAwake, SteadyAsleep, Saying, Levels

\* The status a steady node repeats says what it does.
LEMMA SteadyPeriodic ==
  ASSUME TypeOK, NEW n \in Nodes, Steady(n), PeriodicStatus(n)
  PROVE  Steady(n)'
  <1> DEFINE m == OwnStatus(awake[n])
  <1>1. m \in Message /\ inbox[n] \in Seq(Message)
    BY DEF TypeOK, OwnStatus, Message, Status, Own
  <1>2. inbox'[n] = Append(inbox[n], m)
    BY DEF PeriodicStatus, Retain, Deliver, Steady, TypeOK
  <1>3. /\ link' = link /\ life' = life /\ cmds' = cmds /\ listed' = listed
        /\ entry' = entry /\ awake' = awake /\ leftover' = leftover
        /\ reported' = reported /\ relayOn' = relayOn
    BY DEF PeriodicStatus, viewVars
  <1>4. awake[n] => m = "awake"
    BY DEF OwnStatus
  <1>5. ~awake[n] => m = "asleep"
    BY DEF OwnStatus
  <1> HIDE DEF m
  <1>6. awake[n] => SteadyAwake(n)'
    BY <1>1, <1>2, <1>3, <1>4, AppendSays DEF Steady, SteadyAwake, Saying, Levels
  <1>7. ~awake[n] => SteadyAsleep(n)'
    BY <1>1, <1>2, <1>3, <1>5, AppendSays DEF Steady, SteadyAsleep, Saying
  <1> QED BY <1>3, <1>6, <1>7 DEF Steady

LEMMA SteadyPublish ==
  ASSUME TypeOK, NEW n \in Nodes, Steady(n), publishLevels(n)
  PROVE  Steady(n)'
  <1>1. "data" \in Message /\ inbox[n] \in Seq(Message)
    BY DEF TypeOK, Message
  <1>2. awake[n]
    <2>1. awake[n] \/ leftover[n] > 0
      BY DEF publishLevels, HasLevels
    <2>2. CASE ~awake[n]
      BY <2>1, <2>2 DEF Steady, SteadyAsleep
    <2> QED BY <2>2
  <1>3. inbox'[n] = Append(inbox[n], "data")
    BY DEF publishLevels, Deliver, Steady, TypeOK
  <1>4. /\ link' = link /\ life' = life /\ cmds' = cmds /\ listed' = listed
        /\ entry' = entry /\ awake' = awake /\ relayOn' = relayOn
    BY DEF publishLevels, viewVars, brokerVars
  <1>5. SteadyAwake(n)'
    BY <1>1, <1>2, <1>3, <1>4, AppendSays DEF Steady, SteadyAwake, Saying, Levels
  <1> QED BY <1>2, <1>4, <1>5 DEF Steady

LEMMA StatusFields ==
  ASSUME NEW e, NEW s \in {"awake", "asleep"}
  PROVE  /\ ~StatusApplied(e, s).will
         /\ StatusApplied(e, s).sleeping <=> s = "asleep"
         /\ StatusApplied(e, s).dataAge = e.dataAge
         /\ StatusApplied(e, s).statusAge = 0
  <1>1. /\ StatusApplied(e, s).will = (s = "lwt")
        /\ StatusApplied(e, s).sleeping = IF s = "lwt" THEN e.sleeping ELSE s = "asleep"
    BY DEF StatusApplied
  <1>2. s # "lwt"
    OBVIOUS
  <1>3. StatusApplied(e, s).dataAge = e.dataAge /\ StatusApplied(e, s).statusAge = 0
    BY DEF StatusApplied
  <1> QED BY <1>1, <1>2, <1>3

LEMMA SteadyStatus ==
  ASSUME TimesFit, TypeOK, NEW n \in Nodes, Steady(n), handle_status(n)
  PROVE  Steady(n)'
  <1> DEFINE s == Head(inbox[n])
  <1>1. inbox[n] \in Seq(Message) /\ inbox[n] # <<>> /\ inbox'[n] = Tail(inbox[n])
    BY DEF handle_status, TypeOK
  <1>2. Takes(n, s)
    BY DEF Takes, Steady
  <1>3. entry'[n] = StatusApplied(entry[n], s)
    BY <1>2 DEF handle_status, TypeOK
  <1>4. relayOn'[n] = (s \in Own /\ Online(entry'[n]) /\ ~entry'[n].sleeping)
    BY <1>2 DEF handle_status, TypeOK
  <1>5. /\ link' = link /\ life' = life /\ cmds' = cmds /\ n \in listed'
        /\ awake' = awake /\ leftover' = leftover /\ reported' = reported
        /\ quiet' = quiet
    BY <1>2 DEF handle_status, boardVars, brokerVars
  <1>6. s \in Status
    BY DEF handle_status
  <1>7. CASE awake[n]
    <2>1. s = "awake"
      BY <1>1, <1>6, <1>7, TailSays DEF Steady, SteadyAwake, Saying, Status, Own
    <2>2. /\ ~entry'[n].will /\ ~entry'[n].sleeping
          /\ entry'[n].dataAge = entry[n].dataAge
      BY <1>3, <2>1, StatusFields
    <2>3. entry[n].dataAge <= 1
      BY <1>7 DEF Steady, SteadyAwake
    <2>4. relayOn'[n]
      <3>1. entry[n].dataAge < DataTimeout
        BY <2>3, TimeAssumption DEF TimesFit, TypeOK, Entry
      <3>2. Online(entry'[n])
        BY <2>2, <3>1 DEF Online
      <3> QED BY <1>4, <2>1, <2>2, <3>2 DEF Own
    <2>5. Saying(n, {"awake", "data"})'
      BY <1>1, <1>7, TailSays DEF Steady, SteadyAwake, Saying
    <2>6. ASSUME Levels(n) PROVE Levels(n)'
      <3>1. PICK i \in DOMAIN inbox[n] : inbox[n][i] = "data"
        BY <2>6 DEF Levels
      <3>2. i # 1
        BY <1>1, <2>1, <3>1, TailSays
      <3>3. i - 1 \in DOMAIN inbox'[n] /\ inbox'[n][i - 1] = "data"
        BY <1>1, <3>1, <3>2, TailSays
      <3> QED BY <3>3 DEF Levels
    <2>7. SteadyAwake(n)'
      BY <1>5, <1>7, <2>2, <2>3, <2>4, <2>5, <2>6 DEF Steady, SteadyAwake
    <2> QED BY <1>5, <1>7, <2>2, <2>7 DEF Steady
  <1>8. CASE ~awake[n]
    <2>1. s = "asleep"
      BY <1>1, <1>8, TailSays DEF Steady, SteadyAsleep, Saying
    <2>2. ~entry'[n].will /\ entry'[n].sleeping /\ entry'[n].statusAge = 0
      BY <1>3, <2>1, StatusFields
    <2>3. ~relayOn'[n]
      BY <1>4, <2>2
    <2>4. Saying(n, {"asleep"})'
      BY <1>1, <1>8, TailSays DEF Steady, SteadyAsleep, Saying
    <2>5. 0 <= StatusPeriod /\ 0 <= quiet[n]
      BY TimeAssumption DEF TypeOK
    <2>6. SteadyAsleep(n)'
      BY <1>5, <1>8, <2>2, <2>3, <2>4, <2>5 DEF Steady, SteadyAsleep
    <2> QED BY <1>5, <1>8, <2>2, <2>6 DEF Steady
  <1> QED BY <1>7, <1>8

LEMMA SteadyData ==
  ASSUME TypeOK, NEW n \in Nodes, Steady(n), handle_data(n)
  PROVE  Steady(n)'
  <1>1. /\ inbox[n] \in Seq(Message) /\ inbox[n] # <<>> /\ Head(inbox[n]) = "data"
        /\ inbox'[n] = Tail(inbox[n])
    BY DEF handle_data, TypeOK
  <1>2. entry'[n] = DataApplied(entry[n])
    BY DEF handle_data, TypeOK, Steady
  <1>3. /\ link' = link /\ life' = life /\ cmds' = cmds /\ listed' = listed
        /\ awake' = awake /\ leftover' = leftover /\ reported' = reported
        /\ relayOn' = relayOn
    BY DEF handle_data, boardVars, brokerVars
  <1>4. awake[n]
    BY <1>1, TailSays DEF Steady, SteadyAsleep, Saying
  <1>5. /\ entry'[n].will = entry[n].will /\ ~entry'[n].sleeping
        /\ entry'[n].dataAge = 0
    BY <1>2 DEF DataApplied
  <1>6. Saying(n, {"awake", "data"})'
    BY <1>1, <1>4, TailSays DEF Steady, SteadyAwake, Saying
  <1>7. SteadyAwake(n)'
    BY <1>3, <1>4, <1>5, <1>6 DEF Steady, SteadyAwake
  <1> QED BY <1>3, <1>4, <1>5, <1>7 DEF Steady

\* A tick waits for what is due, so nothing grows too old.
LEMMA SteadyTick ==
  ASSUME TimesFit, TypeOK, NEW n \in Nodes, Steady(n), Tick
  PROVE  Steady(n)'
  <1>1. Settled(n) /\ inbox[n] = <<>> /\ quiet[n] < StatusPeriod
    BY DEF Tick, Settled, Steady
  <1>2. entry'[n] = Aged(entry[n])
    BY DEF Tick
  <1>3. /\ link' = link /\ life' = life /\ cmds' = cmds /\ listed' = listed
        /\ awake' = awake /\ leftover' = leftover /\ inbox' = inbox
        /\ relayOn' = relayOn /\ reported'[n] = FALSE
    BY DEF Tick, brokerVars
  <1>4. quiet'[n] = quiet[n] + 1
    BY <1>1 DEF Tick, Steady, Older
  <1>5. /\ entry'[n].will = entry[n].will
        /\ entry'[n].sleeping = entry[n].sleeping
        /\ entry'[n].dataAge = Older(entry[n].dataAge, DataTimeout)
        /\ entry'[n].statusAge = Older(entry[n].statusAge, StatusTimeout)
    BY <1>2 DEF Aged
  <1>6. /\ entry[n].dataAge \in Nat /\ entry[n].statusAge \in Nat
        /\ quiet[n] \in Nat
    BY TimeAssumption DEF TypeOK, Entry
  <1>7. CASE awake[n]
    <2>1. reported[n]
      BY <1>1, <1>7 DEF Settled, Steady
    <2>2. entry[n].dataAge = 0
      BY <1>1, <1>7, <2>1 DEF Steady, SteadyAwake, Levels
    <2>3. entry'[n].dataAge <= 1
      BY <1>5, <2>2, TimeAssumption DEF Older, TimesFit
    <2>4. SteadyAwake(n)'
      BY <1>1, <1>3, <1>5, <1>7, <2>3 DEF Steady, SteadyAwake, Saying
    <2> QED BY <1>3, <1>5, <1>7, <2>4 DEF Steady
  <1>8. CASE ~awake[n]
    <2>1. entry[n].statusAge <= quiet[n]
      BY <1>1, <1>8 DEF Steady, SteadyAsleep
    <2>2. entry'[n].statusAge = entry[n].statusAge + 1
      BY <1>1, <1>5, <1>6, <2>1, TimeAssumption DEF Older, TimesFit
    <2>3. entry'[n].statusAge <= quiet'[n] /\ entry'[n].statusAge <= StatusPeriod
      BY <1>1, <1>4, <1>6, <2>1, <2>2, TimeAssumption
    <2>4. SteadyAsleep(n)'
      BY <1>1, <1>3, <1>5, <1>8, <2>3 DEF Steady, SteadyAsleep, Saying
    <2> QED BY <1>3, <1>5, <1>8, <2>4 DEF Steady
  <1> QED BY <1>7, <1>8

LEMMA NextSteady ==
  ASSUME TimesFit, TypeOK, [Next]_vars, [~Disturb]_vars, NEW n \in Nodes, Steady(n)
  PROVE  Steady(n)'
  <1>1. CASE UNCHANGED vars
    BY <1>1, SteadyUntouched
    DEF vars, boardVars, brokerVars, viewVars, Steady
  <1>2. ASSUME NEW m \in Nodes, m # n, NodeStep(m) \/ Handle(m) PROVE Steady(n)'
    <2>1. /\ link' = link /\ life'[n] = life[n] /\ cmds'[n] = cmds[n]
          /\ awake'[n] = awake[n] /\ leftover'[n] = leftover[n]
          /\ reported'[n] = reported[n] /\ quiet'[n] = quiet[n]
          /\ inbox'[n] = inbox[n]
      <3>1. CASE Connect(m)
        BY <1>2, <3>1 DEF Connect, Retain, Deliver, TypeOK
      <3>2. CASE PeriodicStatus(m)
        BY <1>2, <3>2 DEF PeriodicStatus, Retain, Deliver, TypeOK
      <3>3. CASE publishLevels(m)
        BY <1>2, <3>3 DEF publishLevels, Deliver, TypeOK, brokerVars
      <3>4. CASE onCommand(m)
        BY <1>2, <3>4 DEF onCommand, apply, publishStatus, Retain, Deliver, TypeOK
      <3>5. CASE Expire(m)
        BY <1>2, <3>5 DEF Expire, Retain, Deliver, TypeOK, boardVars
      <3>6. CASE Handle(m)
        BY <1>2, <3>6 DEF Handle, handle_status, handle_data, TypeOK, boardVars, brokerVars
      <3> QED BY <1>2, <3>1, <3>2, <3>3, <3>4, <3>5, <3>6 DEF NodeStep
    <2>2. entry'[n] = entry[n] /\ relayOn'[n] = relayOn[n] /\ (n \in listed => n \in listed')
      <3>1. CASE NodeStep(m)
        BY <3>1 DEF NodeStep, Connect, PeriodicStatus, publishLevels, onCommand, Expire, viewVars
      <3>2. CASE Handle(m)
        BY <1>2, <3>2 DEF Handle, handle_status, handle_data, TypeOK, viewVars
      <3> QED BY <1>2, <3>1, <3>2
    <2>3. n \in listed'
      BY <2>2 DEF Steady
    <2> QED BY <2>1, <2>2, <2>3, SteadyUntouched
  <1>3. CASE NodeStep(n)
    <2>1. ~Connect(n) /\ ~onCommand(n) /\ ~Expire(n)
      BY DEF Connect, onCommand, Expire, Steady
    <2> QED BY <1>3, <2>1, SteadyPeriodic, SteadyPublish DEF NodeStep
  <1>4. CASE Handle(n)
    BY <1>4, SteadyStatus, SteadyData DEF Handle
  <1>5. ~ConnectDashboard /\ ~ConnectFails
    BY DEF ConnectDashboard, ConnectFails, Steady
  <1> QED
    BY <1>1, <1>2, <1>3, <1>4, <1>5, SteadyTick DEF Next

(***************************************************************************)
(* A steady node is shown as it is, and stays so for as long as users and  *)
(* failures leave it alone.                                                *)
(***************************************************************************)
THEOREM SteadyStaysShown ==
  ASSUME TimesFit, NEW n \in Nodes
  PROVE  Spec /\ [][~Disturb]_vars => [](Steady(n) => []Shown(n))
  <1>1. TypeOK /\ Steady(n) => Shown(n)
    BY SteadyShown
  <1>2. TypeOK /\ Steady(n) /\ [Next]_vars /\ [~Disturb]_vars => Steady(n)'
    BY NextSteady
  <1> QED BY <1>1, <1>2, TypeCorrect, PTL DEF Spec

=============================================================================
