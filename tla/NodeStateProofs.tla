--------------------------- MODULE NodeStateProofs ---------------------------
(***************************************************************************)
(* Theorems about node_state.py: about NodeState, for any boards, HTTP     *)
(* threads and timeouts, and about LevelHistory, for any levels and any    *)
(* length of the history.                                                  *)
(***************************************************************************)
EXTENDS NodeState, LevelHistory, SequenceTheorems, FiniteSetTheorems,
        WellFoundedInduction, TLAPS

\* The threads' local state is consistent with their program counters.
LocalOK ==
  /\ mqPc = "idle" => mqBoard = NoBoard /\ mqKind = "none"
  /\ mqPc # "idle" => mqBoard \in Boards
  /\ mqPc \in {"applyStatus", "nameStatus", "viewStatus", "announce"}
       => mqKind \in Status
  /\ mqPc \in {"applyData", "nameData", "viewData"} => mqKind = "data"

\* The type invariant holds together with LocalOK: a step of the MQTT thread
\* needs the board in its hand to be one of the boards.
TInv == TypeOK /\ LocalOK

LEMMA InitTInv == Init => TInv
  BY TimeoutAssumption, BoardAssumption, LogAssumption
  DEF Init, TInv, TypeOK, LocalOK, Entry, FreshEntry, Presence, Untold, Name,
      MqPc, Kind

LEMMA FreshType == FreshEntry \in Entry
  BY TimeoutAssumption DEF FreshEntry, Entry

LEMMA ViewType == \A e \in Entry : View(e) \in Presence
  BY TimeoutAssumption DEF View, Entry, Presence, Online, StatusFresh

LEMMA AppliedType ==
  ASSUME NEW e \in Entry, NEW k \in Status
  PROVE  StatusApplied(e, k) \in Entry
  <1> DEFINE will == k = "lwt"
             s == IF will THEN e.sleeping ELSE k = "asleep"
             r == IF will THEN e.recovery ELSE k = "recovery"
             l == IF will THEN "down" ELSE "up"
  <1>1. s \in BOOLEAN /\ r \in BOOLEAN /\ l \in {"unknown", "up", "down"}
    BY DEF Entry
  <1>2. e.dataAge \in 0..DataTimeout /\ 0 \in 0..StatusTimeout
    BY TimeoutAssumption DEF Entry
  <1> HIDE DEF s, r, l
  <1>3. [dataAge |-> e.dataAge, statusAge |-> 0, sleeping |-> s, recovery |-> r,
         link |-> l] \in Entry
    BY <1>1, <1>2 DEF Entry
  <1> QED BY <1>3 DEF StatusApplied, s, r, l

LEMMA DataType == ASSUME NEW e \in Entry PROVE DataApplied(e) \in Entry
  BY TimeoutAssumption DEF DataApplied, Entry

LEMMA AgedType == ASSUME NEW e \in Entry PROVE Aged(e) \in Entry
  BY TimeoutAssumption DEF Aged, Entry

LEMMA NextTInv == TInv /\ [Next]_vars => TInv'
  <1> SUFFICES ASSUME TInv, [Next]_vars PROVE TInv'
    OBVIOUS
  <1> USE DEF TInv, TypeOK, LocalOK, Kind
  <1>1. ASSUME NEW b \in Boards, NEW k \in Status, ReceiveStatus(b, k) PROVE TInv'
    BY <1>1, BoardAssumption DEF ReceiveStatus, Take, MqPc, httpVars
  <1>2. ASSUME NEW b \in Boards, ReceiveLog(b) PROVE TInv'
    <2>1. logs' \in Seq(Boards) /\ Len(logs') <= LogMax
      <3>1. CASE Len(logs) < LogMax
        BY <1>2, <3>1, LogAssumption DEF ReceiveLog
      <3>2. CASE ~(Len(logs) < LogMax)
        <4>1. Len(logs) # 0
          BY <3>2, LogAssumption
        <4>2. Tail(logs) \in Seq(Boards) /\ Len(Tail(logs)) = Len(logs) - 1
          BY <4>1
        <4> QED BY <1>2, <3>2, <4>2, LogAssumption DEF ReceiveLog
      <3> QED BY <3>1, <3>2
    <2> QED BY <1>2, <2>1 DEF ReceiveLog, mqVars, httpVars
  <1>3. ASSUME NEW b \in Boards, ReceiveData(b) PROVE TInv'
    BY <1>3 DEF ReceiveData, Take, MqPc, httpVars
  <1>4. ASSUME NEW b \in Boards, Disconnect(b) PROVE TInv'
    BY <1>4, FreshType DEF Disconnect, mqVars, httpVars
  <1>5. ASSUME NEW b \in Boards, Rename(b) PROVE TInv'
    BY <1>5 DEF Rename, Name, mqVars, httpVars
  <1>6. ASSUME NEW b \in Boards, SetThreshold(b) PROVE TInv'
    BY <1>6 DEF SetThreshold, Named, Name, mqVars, httpVars
  <1>7. ASSUME ApplyStatus PROVE TInv'
    <2>1. mqBoard \in Boards /\ mqKind \in Status
      BY <1>7 DEF ApplyStatus
    <2>2. entry' \in [Boards -> Entry]
      BY <1>7, <2>1, AppliedType DEF ApplyStatus
    <2> QED BY <1>7, <2>1, <2>2 DEF ApplyStatus, Touch, MqPc, httpVars
  <1>8. ASSUME NameStatus PROVE TInv'
    BY <1>8 DEF NameStatus, Named, Name, MqPc, httpVars
  <1>9. ASSUME ViewStatus PROVE TInv'
    BY <1>9, ViewType DEF ViewStatus, Touch, MqPc, httpVars
  <1>10. ASSUME Announce PROVE TInv'
    BY <1>10 DEF Announce, Done, Untold, Presence, MqPc, httpVars
  <1>11. ASSUME ApplyData PROVE TInv'
    <2>1. entry' \in [Boards -> Entry]
      BY <1>11, DataType DEF ApplyData
    <2> QED BY <1>11, <2>1 DEF ApplyData, Touch, MqPc, httpVars
  <1>12. ASSUME NameData PROVE TInv'
    BY <1>12 DEF NameData, Named, Name, MqPc, httpVars
  <1>13. ASSUME ViewData PROVE TInv'
    BY <1>13 DEF ViewData, Touch, Done, Untold, Presence, MqPc, httpVars
  <1>14. ASSUME Abort PROVE TInv'
    BY <1>14 DEF Abort, Done, Untold, Presence, MqPc, httpVars
  <1>15. ASSUME NEW c \in Callers, PollStart(c) PROVE TInv'
    BY <1>15 DEF PollStart, mqVars
  <1>16. ASSUME NEW c \in Callers, NEW b \in Boards, PollNode(c, b) PROVE TInv'
    BY <1>16 DEF PollNode, Touch, Finish, mqVars
  <1>17. ASSUME NEW c \in Callers, NEW b \in Boards, HistoryStart(c, b) PROVE TInv'
    BY <1>17 DEF HistoryStart, mqVars
  <1>18. ASSUME NEW c \in Callers, NEW b \in Boards, HistoryRead(c, b) PROVE TInv'
    BY <1>18 DEF HistoryRead, Touch, Finish, mqVars
  <1>19. ASSUME Tick PROVE TInv'
    BY <1>19, AgedType DEF Tick, mqVars, httpVars
  <1>20. ASSUME Restart PROVE TInv'
    BY <1>20, FreshType, LogAssumption DEF Restart, Done, Untold, Presence, MqPc
  <1>21. CASE UNCHANGED vars
    BY <1>21 DEF vars, mqVars, httpVars
  <1> QED
    BY <1>1, <1>2, <1>3, <1>4, <1>5, <1>6, <1>7, <1>8, <1>9, <1>10, <1>11, <1>12,
       <1>13, <1>14, <1>15, <1>16, <1>17, <1>18, <1>19, <1>20, <1>21
       DEF Next, MqttStep

(***************************************************************************)
(* Type correctness of the dashboard's state under every interleaving.     *)
(***************************************************************************)
THEOREM TypeCorrect == Spec => []TypeOK
  <1>1. TInv => TypeOK
    BY DEF TInv
  <1> QED BY <1>1, InitTInv, NextTInv, PTL DEF Spec

-----------------------------------------------------------------------------
(***************************************************************************)
(* OnlyAccepted is not inductive: a message that waits for its handler's   *)
(* first critical section must itself be a soundspy status or come from an *)
(* accepted board, which is what the test of is_known buys.                *)
(***************************************************************************)
PendingOK ==
  mqPc = "applyStatus" => mqKind \in OwnStatus \/ mqBoard \in accepted

AInv == TInv /\ OnlyAccepted /\ PendingOK

LEMMA InitAInv == Init => AInv
  BY InitTInv DEF Init, AInv, OnlyAccepted, PendingOK, Untold

LEMMA NextAInv == AInv /\ [Next]_vars => AInv'
  <1> SUFFICES ASSUME AInv, [Next]_vars PROVE (OnlyAccepted /\ PendingOK)'
    BY NextTInv DEF AInv
  <1> USE DEF AInv, TInv, TypeOK, LocalOK, OnlyAccepted, PendingOK
  <1>1. ASSUME NEW b \in Boards, NEW k \in Status, ReceiveStatus(b, k)
        PROVE  (OnlyAccepted /\ PendingOK)'
    BY <1>1 DEF ReceiveStatus, Take, httpVars
  <1>2. ASSUME NEW b \in Boards, ReceiveLog(b) PROVE (OnlyAccepted /\ PendingOK)'
    <2>1. logs' \in Seq(accepted)
      <3>1. CASE Len(logs) < LogMax
        BY <1>2, <3>1, LogAssumption DEF ReceiveLog
      <3>2. CASE ~(Len(logs) < LogMax)
        <4>1. Len(logs) # 0
          BY <3>2, LogAssumption
        <4>2. Tail(logs) \in Seq(accepted)
          BY <4>1
        <4> QED BY <1>2, <3>2, <4>2 DEF ReceiveLog
      <3> QED BY <3>1, <3>2
    <2> QED BY <1>2, <2>1 DEF ReceiveLog, mqVars, httpVars
  <1>3. ASSUME NEW b \in Boards, ReceiveData(b) PROVE (OnlyAccepted /\ PendingOK)'
    BY <1>3 DEF ReceiveData, Take, httpVars
  <1>4. ASSUME NEW b \in Boards, Disconnect(b) PROVE (OnlyAccepted /\ PendingOK)'
    BY <1>4 DEF Disconnect, mqVars, httpVars
  <1>5. ASSUME NEW b \in Boards, Rename(b) \/ SetThreshold(b)
        PROVE  (OnlyAccepted /\ PendingOK)'
    BY <1>5 DEF Rename, SetThreshold, mqVars, httpVars
  <1>6. ASSUME ApplyStatus PROVE (OnlyAccepted /\ PendingOK)'
    <2>1. mqBoard \in accepted' /\ accepted \subseteq accepted'
      BY <1>6 DEF ApplyStatus
    <2>2. logs' \in Seq(accepted')
      BY <1>6, <2>1, SeqMonotonic DEF ApplyStatus
    <2> QED BY <1>6, <2>1, <2>2 DEF ApplyStatus, Touch, httpVars
  <1>7. ASSUME NameStatus \/ NameData PROVE (OnlyAccepted /\ PendingOK)'
    BY <1>7 DEF NameStatus, NameData, httpVars
  <1>8. ASSUME ViewStatus PROVE (OnlyAccepted /\ PendingOK)'
    BY <1>8 DEF ViewStatus, Touch, httpVars
  <1>9. ASSUME Announce PROVE (OnlyAccepted /\ PendingOK)'
    BY <1>9 DEF Announce, Done, httpVars
  <1>10. ASSUME ApplyData PROVE (OnlyAccepted /\ PendingOK)'
    BY <1>10 DEF ApplyData, Touch, httpVars
  <1>11. ASSUME ViewData PROVE (OnlyAccepted /\ PendingOK)'
    BY <1>11 DEF ViewData, Touch, Done, httpVars
  <1>12. ASSUME Abort PROVE (OnlyAccepted /\ PendingOK)'
    BY <1>12 DEF Abort, Done, httpVars
  <1>13. ASSUME NEW c \in Callers, PollStart(c) PROVE (OnlyAccepted /\ PendingOK)'
    BY <1>13 DEF PollStart, mqVars
  <1>14. ASSUME NEW c \in Callers, NEW b \in Boards, PollNode(c, b) \/ HistoryRead(c, b)
         PROVE  (OnlyAccepted /\ PendingOK)'
    BY <1>14 DEF PollNode, HistoryRead, Touch, Finish, mqVars
  <1>15. ASSUME NEW c \in Callers, NEW b \in Boards, HistoryStart(c, b)
         PROVE  (OnlyAccepted /\ PendingOK)'
    BY <1>15 DEF HistoryStart, mqVars
  <1>16. ASSUME Tick PROVE (OnlyAccepted /\ PendingOK)'
    BY <1>16 DEF Tick, mqVars, httpVars
  <1>17. ASSUME Restart PROVE (OnlyAccepted /\ PendingOK)'
    BY <1>17 DEF Restart, Done, Untold
  <1>18. CASE UNCHANGED vars
    BY <1>18 DEF vars, mqVars, httpVars
  <1> QED
    BY <1>1, <1>2, <1>3, <1>4, <1>5, <1>6, <1>7, <1>8, <1>9, <1>10, <1>11, <1>12,
       <1>13, <1>14, <1>15, <1>16, <1>17, <1>18 DEF Next, MqttStep

(***************************************************************************)
(* No board that never sent a soundspy status reaches the list, a poll,    *)
(* the log panel, the relays or the handlers.                              *)
(***************************************************************************)
THEOREM AcceptedOnly == Spec => []OnlyAccepted
  <1>1. AInv => OnlyAccepted
    BY DEF AInv
  <1> QED BY <1>1, InitAInv, NextAInv, PTL DEF Spec

-----------------------------------------------------------------------------
(***************************************************************************)
(* Every step of the dashboard is a step of NodeRegistry or leaves the     *)
(* list, its history and what the threads have in hand alone.  TInv        *)
(* supplies that the message in hand is of one of the boards; that a       *)
(* touched board was in the hand of the thread is read off the guards.     *)
(***************************************************************************)
Workers    == Callers \cup {MqttThread}
InHand     == [w \in Workers |-> Held(w)]
registered == <<known, accepted, forgotten, InHand>>

LEMMA InitRegistry == Init => Registry!Init
  <1> SUFFICES ASSUME Init PROVE Registry!Init
    OBVIOUS
  <1>1. \A w \in Workers : Held(w) = {}
    BY DEF Init, Held, Workers
  <1>2. InHand = [w \in Workers |-> {}]
    BY <1>1 DEF InHand
  <1> QED BY <1>2 DEF Init, Registry!Init, Registry!Nothing, InHand, Workers

\* A step of the message thread leaves alone what the requests have in hand,
\* a step of a request what every other worker has.
LEMMA MqttHand ==
  ASSUME UNCHANGED httpTodo
  PROVE  InHand' = [InHand EXCEPT ![MqttThread] = Held(MqttThread)']
  <1>1. \A w \in Callers : Held(w)' = Held(w)
    BY DEF Held
  <1>2. InHand' = [w \in Workers |-> Held(w)']
    BY DEF InHand
  <1>3. \A w \in Workers : Held(w)' = (IF w = MqttThread THEN Held(MqttThread)' ELSE Held(w))
    BY <1>1 DEF Workers
  <1> HIDE DEF Held
  <1> QED BY <1>2, <1>3 DEF InHand

LEMMA CallerHand ==
  ASSUME TInv, NEW c \in Callers, NEW S, httpTodo' = [httpTodo EXCEPT ![c] = S],
         UNCHANGED mqVars
  PROVE  InHand' = [InHand EXCEPT ![c] = S]
  <1>1. Held(c)' = S /\ \A w \in Callers \ {c} : Held(w)' = Held(w)
    BY DEF Held, TInv, TypeOK
  <1>2. Held(MqttThread)' = Held(MqttThread)
    BY ThreadAssumption DEF Held, mqVars
  <1>3. InHand' = [w \in Workers |-> Held(w)']
    BY DEF InHand
  <1>4. \A w \in Workers : Held(w)' = (IF w = c THEN S ELSE Held(w))
    BY <1>1, <1>2 DEF Workers
  <1> HIDE DEF Held
  <1> QED BY <1>3, <1>4 DEF InHand

LEMMA SameHands ==
  ASSUME UNCHANGED <<mqPc, mqBoard, mqKind, httpTodo>>
  PROVE  UNCHANGED InHand
  BY DEF InHand, Held

\* The steps of the registry, in the dashboard's own terms.
LEMMA RegistryTakeUp ==
  ASSUME NEW w \in Workers, NEW S \in SUBSET Boards, S \subseteq known,
         InHand' = [InHand EXCEPT ![w] = S], UNCHANGED <<known, accepted, forgotten>>
  PROVE  Registry!Next
  <1>1. Registry!TakeUp(w, S)
    BY DEF Registry!TakeUp, InHand, Workers
  <1> QED BY <1>1 DEF Registry!Next, Workers

LEMMA RegistryTouch ==
  ASSUME NEW w \in Workers, NEW b \in Boards, b \in Held(w), known' = known \cup {b},
         NEW S \in {Held(w), Held(w) \ {b}}, InHand' = [InHand EXCEPT ![w] = S],
         UNCHANGED <<accepted, forgotten>>
  PROVE  Registry!Next
  <1>1. InHand[w] = Held(w)
    BY DEF InHand
  <1>2. b \in InHand[w] /\ S \in {InHand[w], InHand[w] \ {b}}
    BY <1>1
  <1>3. Registry!Touch(w, b)
    BY <1>2 DEF Registry!Touch, InHand, Workers
  <1> QED BY <1>3 DEF Registry!Next, Workers

LEMMA StepRegistry == TInv /\ [Next]_vars => [Registry!Next]_registered
  <1> DEFINE Goal == Registry!Next \/ UNCHANGED registered
             H == Held(MqttThread)
  <1> SUFFICES ASSUME TInv, [Next]_vars PROVE Goal
    BY DEF registered
  <1>0. MqttThread \in Workers /\ Callers \subseteq Workers
    BY DEF Workers
  <1>a. /\ mqPc # "idle" => mqBoard \in Boards
        /\ known \subseteq Boards /\ httpTodo \in [Callers -> SUBSET Boards]
    BY DEF TInv, TypeOK, LocalOK
  <1>b. /\ mqPc = "applyStatus" => H = IF mqKind \in OwnStatus THEN {} ELSE {mqBoard}
        /\ mqPc \notin {"idle", "applyStatus"} => H = {mqBoard}
    BY ThreadAssumption DEF Held
  <1>c. /\ mqPc' = "idle" => H' = {}
        /\ mqPc' = "applyStatus" => H' = IF mqKind' \in OwnStatus THEN {} ELSE {mqBoard'}
        /\ mqPc' \notin {"idle", "applyStatus"} => H' = {mqBoard'}
    BY ThreadAssumption DEF Held
  <1>d. \A c \in Callers : Held(c) = httpTodo[c]
    BY DEF Held
  <1>e. UNCHANGED httpTodo => InHand' = [InHand EXCEPT ![MqttThread] = H']
    BY MqttHand
  <1> HIDE DEF H
  <1>1. ASSUME NEW b \in Boards, Disconnect(b) PROVE Goal
    <2>1. UNCHANGED InHand
      BY <1>1, SameHands DEF Disconnect, mqVars, httpVars
    <2>2. Registry!Forget(b)
      BY <1>1, <2>1 DEF Disconnect, Registry!Forget, InHand, Workers
    <2> QED BY <2>2 DEF Registry!Next
  <1>2. ASSUME NEW b \in Boards, NEW k \in Status, ReceiveStatus(b, k) PROVE Goal
    <2>1. UNCHANGED <<known, accepted, forgotten, httpTodo>>
      BY <1>2 DEF ReceiveStatus, httpVars
    <2>2. H' = IF k \in OwnStatus THEN {} ELSE {b}
      BY <1>2, <1>c DEF ReceiveStatus, Take
    <2>3. H' \subseteq known
      BY <1>2, <2>2 DEF ReceiveStatus
    <2> QED BY <1>0, <1>a, <1>e, <2>1, <2>3, RegistryTakeUp
  <1>3. ASSUME NEW b \in Boards, ReceiveData(b) PROVE Goal
    <2>1. UNCHANGED <<known, accepted, forgotten, httpTodo>> /\ b \in known
      BY <1>3 DEF ReceiveData, httpVars
    <2>2. H' = {b}
      BY <1>3, <1>c DEF ReceiveData, Take
    <2> QED BY <1>0, <1>a, <1>e, <2>1, <2>2, RegistryTakeUp
  <1>4. ASSUME ApplyStatus PROVE Goal
    <2>1. /\ mqBoard \in Boards /\ known' = known \cup {mqBoard} /\ UNCHANGED httpTodo
          /\ H' = {mqBoard}
      BY <1>4, <1>a, <1>c DEF ApplyStatus, Touch, httpVars
    <2>2. InHand' = [InHand EXCEPT ![MqttThread] = {mqBoard}]
      BY <2>1, <1>e
    <2>3. CASE mqKind \in OwnStatus
      <3>1. accepted' = accepted \cup {mqBoard} /\ forgotten' = forgotten \ {mqBoard}
        BY <1>4, <2>3 DEF ApplyStatus
      <3>2. Registry!Accept(MqttThread, mqBoard)
        BY <2>1, <2>2, <3>1 DEF Registry!Accept, InHand, Workers
      <3> QED BY <1>0, <2>1, <3>2 DEF Registry!Next, Workers
    <2>4. CASE mqKind \notin OwnStatus
      <3>1. UNCHANGED <<accepted, forgotten>> /\ H = {mqBoard}
        BY <1>4, <2>4, <1>b DEF ApplyStatus
      <3> QED BY <1>0, <2>1, <2>2, <3>1, RegistryTouch DEF H
    <2> QED BY <2>3, <2>4
  <1>5. ASSUME ViewStatus \/ ApplyData PROVE Goal
    <2>1. /\ mqBoard \in Boards /\ known' = known \cup {mqBoard} /\ UNCHANGED httpTodo
          /\ H = {mqBoard} /\ H' = {mqBoard} /\ UNCHANGED <<accepted, forgotten>>
      BY <1>5, <1>a, <1>b, <1>c DEF ViewStatus, ApplyData, Touch, httpVars
    <2> QED BY <1>0, <1>e, <2>1, RegistryTouch DEF H
  <1>6. ASSUME ViewData PROVE Goal
    <2>1. /\ mqBoard \in Boards /\ known' = known \cup {mqBoard} /\ UNCHANGED httpTodo
          /\ H = {mqBoard} /\ H' = {} /\ UNCHANGED <<accepted, forgotten>>
      BY <1>6, <1>a, <1>b, <1>c DEF ViewData, Touch, Done, httpVars
    <2>2. H' \in {H, H \ {mqBoard}}
      BY <2>1
    <2> QED BY <1>0, <1>e, <2>1, <2>2, RegistryTouch DEF H
  <1>7. ASSUME Announce \/ Abort PROVE Goal
    <2>1. UNCHANGED <<known, accepted, forgotten, httpTodo>> /\ H' = {}
      BY <1>7, <1>c DEF Announce, Abort, Done, httpVars
    <2> QED BY <1>0, <1>e, <2>1, RegistryTakeUp
  <1>8. ASSUME NameStatus \/ NameData PROVE Goal
    <2>1. UNCHANGED <<known, accepted, forgotten, httpTodo>> /\ H = {mqBoard} /\ H' = {mqBoard}
      BY <1>8, <1>b, <1>c DEF NameStatus, NameData, httpVars
    <2>2. InHand[MqttThread] = H
      BY <1>0 DEF InHand, H
    <2>3. InHand' = InHand
      BY <2>1, <2>2, <1>e DEF InHand
    <2> QED BY <2>1, <2>3 DEF registered
  <1>9. ASSUME NEW c \in Callers, NEW b \in Boards, PollNode(c, b) \/ HistoryRead(c, b)
        PROVE  Goal
    <2>1. /\ b \in httpTodo[c] /\ known' = known \cup {b}
          /\ UNCHANGED <<accepted, forgotten, mqVars>>
          /\ httpTodo' = [httpTodo EXCEPT ![c] = httpTodo[c] \ {b}]
      BY <1>9 DEF PollNode, HistoryRead, Touch, Finish
    <2>2. InHand' = [InHand EXCEPT ![c] = httpTodo[c] \ {b}]
      BY <2>1, CallerHand
    <2>3. b \in Held(c) /\ httpTodo[c] \ {b} \in {Held(c), Held(c) \ {b}}
      BY <2>1, <1>d
    <2> QED BY <1>0, <2>1, <2>2, <2>3, RegistryTouch
  <1>10. ASSUME NEW c \in Callers, PollStart(c) PROVE Goal
    <2>1. /\ UNCHANGED <<known, accepted, forgotten, mqVars>>
          /\ httpTodo' = [httpTodo EXCEPT ![c] = known]
      BY <1>10 DEF PollStart
    <2>2. InHand' = [InHand EXCEPT ![c] = known]
      BY <2>1, CallerHand
    <2> QED BY <1>0, <1>a, <2>1, <2>2, RegistryTakeUp
  <1>11. ASSUME NEW c \in Callers, NEW b \in Boards, HistoryStart(c, b) PROVE Goal
    <2>1. /\ UNCHANGED <<known, accepted, forgotten, mqVars>> /\ b \in known
          /\ httpTodo' = [httpTodo EXCEPT ![c] = {b}]
      BY <1>11 DEF HistoryStart
    <2>2. InHand' = [InHand EXCEPT ![c] = {b}]
      BY <2>1, CallerHand
    <2> QED BY <1>0, <2>1, <2>2, RegistryTakeUp
  <1>12. ASSUME Restart PROVE Goal
    <2>1. \A w \in Workers : Held(w)' = {}
      BY <1>12 DEF Restart, Done, Held, Workers
    <2>2. InHand' = [w \in Workers |-> {}]
      BY <2>1 DEF InHand
    <2>3. Registry!Restart
      BY <1>12, <2>2 DEF Restart, Registry!Restart, Registry!Nothing, InHand, Workers
    <2> QED BY <2>3 DEF Registry!Next
  <1>13. ASSUME NEW b \in Boards, ReceiveLog(b) \/ Rename(b) \/ SetThreshold(b) PROVE Goal
    BY <1>13, SameHands
       DEF ReceiveLog, Rename, SetThreshold, mqVars, httpVars, registered
  <1>14. CASE Tick
    BY <1>14, SameHands DEF Tick, mqVars, httpVars, registered
  <1>15. CASE UNCHANGED vars
    BY <1>15, SameHands DEF vars, mqVars, httpVars, registered
  <1> QED
    BY <1>1, <1>2, <1>3, <1>4, <1>5, <1>6, <1>7, <1>8, <1>9, <1>10, <1>11, <1>12, <1>13,
       <1>14, <1>15 DEF Next, MqttStep

(***************************************************************************)
(* The dashboard implements the registry it documents: for any boards and  *)
(* requests, no handler, request or passing of time ever loses a listed    *)
(* node, and what a user forgot returns only as Accept and Touch allow.    *)
(***************************************************************************)
THEOREM RegistryImplemented == Spec => ImplementsRegistry
  <1>1. TInv /\ [Next]_vars => [Registry!Next]_(Registry!vars)
    BY StepRegistry DEF registered, InHand, Workers, Registry!vars
  <1> QED BY <1>1, InitRegistry, InitTInv, NextTInv, PTL
             DEF Spec, ImplementsRegistry, Registry!Spec

-----------------------------------------------------------------------------
(***************************************************************************)
(* PushedAsAnnounced and RelayOnlyAwake.  The strengthening follows one    *)
(* status through its handler: from update_status to get_node_status the   *)
(* entry, even if it is forgotten, recreated or grown stale meanwhile,     *)
(* cannot read back as something the status did not say.                   *)
(***************************************************************************)
Applied == {"nameStatus", "viewStatus", "announce"}

FlowOK ==
  /\ mqPc \in Applied => lastStatus[mqBoard] = mqKind
  /\ mqPc \in {"nameStatus", "viewStatus"} => Agrees(View(entry[mqBoard]), mqKind)
  /\ mqPc = "announce" => Agrees(mqView, mqKind)

PInv == TInv /\ PushedAsAnnounced /\ RelayOnlyAwake /\ FlowOK

LEMMA InitPInv == Init => PInv
  BY InitTInv DEF Init, PInv, PushedAsAnnounced, RelayOnlyAwake, FlowOK, Agrees,
                  Applied

LEMMA StatusAgrees ==
  ASSUME NEW e \in Entry, NEW k \in Status
  PROVE  Agrees(View(StatusApplied(e, k)), k)
  <1> DEFINE a == StatusApplied(e, k)
  <1>1. CASE k = "lwt"
    <2>1. a.link = "down"
      BY <1>1 DEF StatusApplied
    <2> QED BY <1>1, <2>1 DEF Agrees, View, Online
  <1>2. CASE k = "awake"
    <2>1. ~a.sleeping /\ ~a.recovery
      BY <1>2 DEF StatusApplied
    <2> QED BY <1>2, <2>1 DEF Agrees, View
  <1>3. CASE k = "asleep"
    <2>1. a.sleeping /\ ~a.recovery
      BY <1>3 DEF StatusApplied
    <2> QED BY <1>3, <2>1 DEF Agrees, View
  <1>4. CASE k = "recovery"
    <2>1. ~a.sleeping /\ a.recovery
      BY <1>4 DEF StatusApplied
    <2>2. a.statusAge = 0
      BY DEF StatusApplied
    <2>3. StatusFresh(a)
      BY <2>2, TimeoutAssumption DEF StatusFresh
    <2> QED BY <1>4, <2>1, <2>3 DEF Agrees, View
  <1>5. CASE k = "other"
    BY <1>5 DEF Agrees
  <1> QED BY <1>1, <1>2, <1>3, <1>4, <1>5 DEF Status, OwnStatus

LEMMA FreshAgrees == ASSUME NEW k \in Status PROVE Agrees(View(FreshEntry), k)
  <1>1. /\ ~FreshEntry.sleeping /\ ~FreshEntry.recovery
        /\ ~(FreshEntry.dataAge < DataTimeout)
    BY TimeoutAssumption DEF FreshEntry
  <1>2. ~Online(FreshEntry)
    BY <1>1 DEF Online
  <1> QED BY <1>1, <1>2 DEF Agrees, View

LEMMA AgedAgrees ==
  ASSUME NEW e \in Entry, NEW k \in Status, Agrees(View(e), k)
  PROVE  Agrees(View(Aged(e)), k)
  BY TimeoutAssumption DEF Agrees, View, Online, StatusFresh, Aged, Entry

LEMMA NextPInv == PInv /\ [Next]_vars => PInv'
  <1> DEFINE Goal == PushedAsAnnounced /\ RelayOnlyAwake /\ FlowOK
  <1> SUFFICES ASSUME PInv, [Next]_vars PROVE Goal'
    BY NextTInv DEF PInv
  <1> USE DEF PInv, TInv, TypeOK, LocalOK, PushedAsAnnounced, RelayOnlyAwake, FlowOK,
              Handling, Applied
  <1>1. ASSUME NEW b \in Boards, NEW k \in Status, ReceiveStatus(b, k) PROVE Goal'
    BY <1>1 DEF ReceiveStatus, Take, Status, OwnStatus
  <1>2. ASSUME NEW b \in Boards, ReceiveLog(b) \/ Rename(b) \/ SetThreshold(b)
        PROVE  Goal'
    BY <1>2 DEF ReceiveLog, Rename, SetThreshold, mqVars
  <1>3. ASSUME NEW b \in Boards, ReceiveData(b) PROVE Goal'
    BY <1>3, BoardAssumption DEF ReceiveData, Take, Status, OwnStatus
  <1>4. ASSUME NEW b \in Boards, Disconnect(b) PROVE Goal'
    <2>1. mqPc \in {"nameStatus", "viewStatus"} => Agrees(View(entry'[mqBoard]), mqKind)
      BY <1>4, FreshAgrees DEF Disconnect
    <2> QED BY <1>4, <2>1 DEF Disconnect, mqVars
  <1>5. ASSUME ApplyStatus PROVE Goal'
    <2>1. mqKind \in Status /\ mqBoard \in Boards
      BY <1>5 DEF ApplyStatus
    <2>2. Agrees(View(entry'[mqBoard]), mqKind)
      BY <1>5, <2>1, StatusAgrees DEF ApplyStatus
    <2> QED BY <1>5, <2>1, <2>2 DEF ApplyStatus
  <1>6. ASSUME NameStatus PROVE Goal'
    BY <1>6 DEF NameStatus
  <1>7. ASSUME ViewStatus PROVE Goal'
    BY <1>7 DEF ViewStatus
  <1>8. ASSUME Announce PROVE Goal'
    <2>1. Agrees(mqView, mqKind) /\ lastStatus[mqBoard] = mqKind
      BY <1>8 DEF Announce
    <2>2. relayOn'[mqBoard] => mqKind = "awake"
      BY <1>8, <2>1 DEF Announce, OwnStatus, Agrees
    <2>3. PushedAsAnnounced'
      BY <1>8, <2>1 DEF Announce, Done
    <2>4. RelayOnlyAwake'
      BY <1>8, <2>1, <2>2 DEF Announce, Done
    <2> QED BY <1>8, <2>3, <2>4 DEF Announce, Done
  <1>9. ASSUME ApplyData PROVE Goal'
    BY <1>9 DEF ApplyData
  <1>10. ASSUME NameData \/ ViewData PROVE Goal'
    BY <1>10 DEF NameData, ViewData, Done, Status, OwnStatus
  <1>11. ASSUME Abort PROVE Goal'
    BY <1>11 DEF Abort, Done, Status, OwnStatus, Agrees
  <1>12. ASSUME NEW c \in Callers,
                \/ PollStart(c)
                \/ \E b \in Boards : PollNode(c, b) \/ HistoryStart(c, b)
                                                    \/ HistoryRead(c, b)
         PROVE  Goal'
    BY <1>12 DEF PollStart, PollNode, HistoryStart, HistoryRead, mqVars
  <1>13. ASSUME Tick PROVE Goal'
    <2>1. mqPc \in {"nameStatus", "viewStatus"} => Agrees(View(entry'[mqBoard]), mqKind)
      BY <1>13, AgedAgrees DEF Tick
    <2> QED BY <1>13, <2>1 DEF Tick, mqVars
  <1>14. ASSUME Restart PROVE Goal'
    BY <1>14 DEF Restart, Done, Agrees, Untold
  <1>15. CASE UNCHANGED vars
    BY <1>15 DEF vars, mqVars
  <1> QED
    BY <1>1, <1>2, <1>3, <1>4, <1>5, <1>6, <1>7, <1>8, <1>9, <1>10, <1>11, <1>12,
       <1>13, <1>14, <1>15 DEF Next, MqttStep

(***************************************************************************)
(* The browsers are never told what the node's last handled status denies. *)
(***************************************************************************)
THEOREM PushesAgree == Spec => []PushedAsAnnounced
  <1>1. PInv => PushedAsAnnounced
    BY DEF PInv
  <1> QED BY <1>1, InitPInv, NextPInv, PTL DEF Spec

(***************************************************************************)
(* No node that is asleep, in recovery or gone keeps an active relay.      *)
(***************************************************************************)
THEOREM RelaysAwake == Spec => []RelayOnlyAwake
  <1>1. PInv => RelayOnlyAwake
    BY DEF PInv
  <1> QED BY <1>1, InitPInv, NextPInv, PTL DEF Spec

-----------------------------------------------------------------------------
(***************************************************************************)
(* The safety half of SilentGoesOffline: a node that is reported offline   *)
(* comes back online only by a message of it that is applied.  No request, *)
(* poll, rename, disconnect, restart or passing of time brings it back,    *)
(* and no message of another board.                                        *)
(***************************************************************************)
OfflineStays ==
  [][\A b \in Boards : ~Hears(b) /\ ~Online(entry[b]) => ~Online(entry'[b])]_vars

LEMMA FreshOffline == ~Online(FreshEntry)
  BY TimeoutAssumption DEF Online, FreshEntry

LEMMA AgedOffline == ASSUME NEW e \in Entry, ~Online(e) PROVE ~Online(Aged(e))
  BY TimeoutAssumption DEF Online, StatusFresh, Aged, Entry

LEMMA StepOffline ==
  ASSUME TInv, [Next]_vars, NEW b \in Boards, ~Hears(b), ~Online(entry[b])
  PROVE  ~Online(entry'[b])
  <1> USE DEF TInv, TypeOK, LocalOK
  <1>1. ASSUME NEW d \in Boards, Disconnect(d) PROVE ~Online(entry'[b])
    BY <1>1, FreshOffline DEF Disconnect
  <1>2. ASSUME ApplyStatus \/ ApplyData PROVE ~Online(entry'[b])
    <2>1. mqBoard # b
      BY <1>2 DEF Hears
    <2>2. entry'[b] = entry[b]
      BY <1>2, <2>1 DEF ApplyStatus, ApplyData
    <2> QED BY <2>2
  <1>3. CASE Tick
    <2>1. entry'[b] = Aged(entry[b]) /\ entry[b] \in Entry
      BY <1>3 DEF Tick
    <2> QED BY <2>1, AgedOffline
  <1>4. CASE Restart
    BY <1>4, FreshOffline DEF Restart
  <1>5. CASE UNCHANGED entry
    BY <1>5
  <1>6. ASSUME NEW d \in Boards,
               \/ \E k \in Status : ReceiveStatus(d, k)
               \/ ReceiveLog(d) \/ ReceiveData(d) \/ Rename(d) \/ SetThreshold(d)
        PROVE  UNCHANGED entry
    BY <1>6 DEF ReceiveStatus, ReceiveLog, ReceiveData, Rename, SetThreshold
  <1>7. ASSUME NameStatus \/ ViewStatus \/ Announce \/ NameData \/ ViewData \/ Abort
        PROVE  UNCHANGED entry
    BY <1>7 DEF NameStatus, ViewStatus, Announce, NameData, ViewData, Abort
  <1>8. ASSUME NEW c \in Callers,
               \/ PollStart(c)
               \/ \E d \in Boards : \/ PollNode(c, d) \/ HistoryStart(c, d)
                                    \/ HistoryRead(c, d)
        PROVE  UNCHANGED entry
    BY <1>8 DEF PollStart, PollNode, HistoryStart, HistoryRead
  <1> HIDE DEF TInv, TypeOK, LocalOK
  <1>9. CASE UNCHANGED vars
    BY <1>9, <1>5 DEF vars
  <1> QED
    BY <1>1, <1>2, <1>3, <1>4, <1>5, <1>6, <1>7, <1>8, <1>9 DEF Next, MqttStep

(***************************************************************************)
(* Only a message that is applied brings a node back online.               *)
(***************************************************************************)
THEOREM OfflineUntilHeard == Spec => OfflineStays
  <1>1. TInv /\ [Next]_vars =>
          [\A b \in Boards : ~Hears(b) /\ ~Online(entry[b]) => ~Online(entry'[b])]_vars
    BY StepOffline
  <1> QED BY <1>1, InitTInv, NextTInv, PTL DEF Spec, OfflineStays

-----------------------------------------------------------------------------
(* The level history *)

(***************************************************************************)
(* Induction and recursion over the naturals without an operator as a      *)
(* parameter: a set of naturals has a least member, a set that contains 0  *)
(* and the successor of each member contains every natural, and every step *)
(* function can be iterated.                                               *)
(***************************************************************************)
LEMMA LeastNatural ==
  ASSUME NEW T \in SUBSET Nat, T # {}
  PROVE  \E x \in T : \A y \in T : ~(y < x)
  <1>1. \E x \in T : \A y \in T : <<y, x>> \notin OpToRel(<, Nat)
    BY NatLessThanWellFounded, WFMin
  <1>2. \A x, y \in Nat : y < x => <<y, x>> \in OpToRel(<, Nat)
    BY Zenon DEF OpToRel
  <1> QED BY <1>1, <1>2

LEMMA Induct ==
  ASSUME NEW S, 0 \in S, \A n \in Nat : n \in S => n + 1 \in S
  PROVE  \A n \in Nat : n \in S
  <1> SUFFICES ASSUME Nat \ S # {} PROVE FALSE
    OBVIOUS
  <1>1. PICK x \in Nat \ S : \A y \in Nat \ S : ~(y < x)
    BY LeastNatural
  <1>2. x # 0 /\ x - 1 \in Nat /\ x - 1 < x
    BY <1>1
  <1>3. x - 1 \in S
    BY <1>1, <1>2
  <1>4. x - 1 + 1 \in S
    BY <1>2, <1>3
  <1> QED BY <1>1, <1>4

\* h starts at b and G gives each next value from the last and its place.
Iteration(h, V, b, G) ==
  /\ h \in [Nat -> V]
  /\ h[0] = b
  /\ \A k \in Nat : h[k + 1] = G[<<k, h[k]>>]

LEMMA Iterate ==
  ASSUME NEW V, NEW b \in V, NEW G \in [Nat \X V -> V]
  PROVE  \E h : Iteration(h, V, b, G)
  <1> DEFINE Good(g, n) == /\ g \in [0..n -> V]
                           /\ g[0] = b
                           /\ \A k \in 0..n - 1 : g[k + 1] = G[<<k, g[k]>>]
             S == {n \in Nat : \E g : Good(g, n)}
  <1>1. \A n \in Nat : n \in S
    <2>1. 0 \in S
      <3>1. Good([k \in 0..0 |-> b], 0)
        OBVIOUS
      <3> QED BY <3>1
    <2>2. ASSUME NEW n \in Nat, n \in S PROVE n + 1 \in S
      <3>1. PICK g : Good(g, n)
        BY <2>2
      <3> DEFINE h == [k \in 0..n + 1 |-> IF k = n + 1 THEN G[<<n, g[n]>>] ELSE g[k]]
      <3>2. G[<<n, g[n]>>] \in V
        BY <3>1
      <3>3. Good(h, n + 1)
        <4>1. h \in [0..n + 1 -> V]
          BY <3>1, <3>2
        <4>2. h[0] = b
          BY <3>1
        <4>3. ASSUME NEW k \in 0..n PROVE h[k + 1] = G[<<k, h[k]>>]
          <5>1. h[k] = g[k]
            OBVIOUS
          <5>2. CASE k = n
            <6>1. h[n + 1] = G[<<n, g[n]>>]
              OBVIOUS
            <6> QED BY <6>1, <5>1, <5>2
          <5>3. CASE k # n
            <6>1. k \in 0..n - 1 /\ h[k + 1] = g[k + 1]
              BY <5>3
            <6> QED BY <6>1, <5>1, <3>1
          <5> QED BY <5>2, <5>3
        <4> HIDE DEF h
        <4> QED BY <4>1, <4>2, <4>3
      <3> HIDE DEF h, Good
      <3> QED BY <3>3
    <2> HIDE DEF S
    <2> QED BY <2>1, <2>2, Induct
  <1>2. \A n \in Nat : \E g : Good(g, n)
    BY <1>1
  <1> DEFINE F(n) == CHOOSE g : Good(g, n)
             f == [n \in Nat |-> F(n)[n]]
  <1>3. \A n \in Nat : Good(F(n), n)
    BY <1>2
  <1>4. ASSUME NEW n \in Nat, NEW g, NEW h, Good(g, n), Good(h, n + 1)
        PROVE  \A k \in 0..n : g[k] = h[k]
    <2> DEFINE E == {k \in Nat : k <= n => g[k] = h[k]}
    <2>1. 0 \in E
      BY <1>4
    <2>2. ASSUME NEW k \in Nat, k \in E PROVE k + 1 \in E
      <3>1. CASE k + 1 <= n
        <4>1. k \in 0..n - 1 /\ k \in 0..(n + 1) - 1 /\ g[k] = h[k]
          BY <2>2, <3>1
        <4>2. g[k + 1] = G[<<k, g[k]>>] /\ h[k + 1] = G[<<k, h[k]>>]
          BY <4>1, <1>4
        <4> QED BY <4>1, <4>2
      <3> QED BY <3>1
    <2> HIDE DEF E, Good
    <2>3. \A k \in Nat : k \in E
      BY <2>1, <2>2, Induct
    <2> QED BY <2>3 DEF E
  <1> HIDE DEF F
  <1>5. f \in [Nat -> V]
    BY <1>3
  <1>6. f[0] = b
    BY <1>3
  <1>7. ASSUME NEW k \in Nat PROVE f[k + 1] = G[<<k, f[k]>>]
    <2>1. F(k)[k] = F(k + 1)[k]
      <3> HIDE DEF Good
      <3>1. Good(F(k), k) /\ Good(F(k + 1), k + 1) /\ k \in 0..k
        BY <1>3
      <3> QED BY <3>1, <1>4
    <2>2. F(k + 1)[k + 1] = G[<<k, F(k + 1)[k]>>]
      BY <1>3
    <2> QED BY <2>1, <2>2
  <1> HIDE DEF f
  <1>8. Iteration(f, V, b, G)
    BY <1>5, <1>6, <1>7 DEF Iteration
  <1> QED BY <1>8

(***************************************************************************)
(* The powers are what their recursive definition says, positive, and grow *)
(* with the level.                                                         *)
(***************************************************************************)
LEMMA PowerDef ==
  /\ power \in [Nat -> Nat \ {0}]
  /\ power[0] = 1
  /\ \A k \in Nat : power[k + 1] = 10 * power[k]
  <1> DEFINE V == Nat \ {0}
             G == [p \in Nat \X V |-> 10 * p[2]]
  <1>1. G \in [Nat \X V -> V]
    OBVIOUS
  <1>2. PICK h : Iteration(h, V, 1, G)
    <2>1. 1 \in V
      OBVIOUS
    <2> HIDE DEF G, V
    <2> QED BY <1>1, <2>1, Iterate
  <1>3. h \in [Nat -> V] /\ h[0] = 1 /\ \A k \in Nat : h[k + 1] = 10 * h[k]
    BY <1>2 DEF Iteration
  <1>4. h = [level \in Nat |-> IF level = 0 THEN 1 ELSE 10 * h[level - 1]]
    <2>1. ASSUME NEW level \in Nat
          PROVE  h[level] = IF level = 0 THEN 1 ELSE 10 * h[level - 1]
      <3>1. CASE level = 0
        BY <3>1, <1>3
      <3>2. CASE level # 0
        <4>1. level - 1 \in Nat /\ level - 1 + 1 = level
          BY <3>2
        <4> QED BY <4>1, <1>3, <3>2
      <3> QED BY <3>1, <3>2
    <2> QED BY <2>1, <1>3
  <1>5. power = [level \in Nat |-> IF level = 0 THEN 1 ELSE 10 * power[level - 1]]
    BY <1>4, Zenon DEF power
  <1>6. \A level \in Nat : power[level] = IF level = 0 THEN 1 ELSE 10 * power[level - 1]
    BY <1>5
  <1>7. power[0] = 1 /\ \A k \in Nat : power[k + 1] = 10 * power[k]
    BY <1>6
  <1>8. \A k \in Nat : power[k] \in V
    <2> DEFINE S == {k \in Nat : power[k] \in V}
    <2>1. 0 \in S /\ \A k \in Nat : k \in S => k + 1 \in S
      BY <1>7
    <2> HIDE DEF S
    <2>2. \A k \in Nat : k \in S
      BY <2>1, Induct
    <2> QED BY <2>2 DEF S
  <1> QED BY <1>5, <1>7, <1>8

LEMMA PowerSquare == \A k \in Nat : power[k] * power[k] = power[2 * k]
  <1> DEFINE S == {k \in Nat : power[k] * power[k] = power[2 * k]}
  <1>1. 0 \in S
    BY PowerDef
  <1>2. ASSUME NEW k \in Nat, k \in S PROVE k + 1 \in S
    <2> DEFINE a == power[k]
               b == power[2 * k]
    <2>1. a \in Nat /\ b \in Nat /\ a * a = b
      BY <1>2, PowerDef
    <2>2. power[k + 1] = 10 * a /\ power[2 * k + 1] = 10 * b
      BY PowerDef
    <2>3. power[2 * k + 1 + 1] = 10 * (10 * b)
      BY <2>2, PowerDef
    <2>4. 2 * k + 1 + 1 = 2 * (k + 1)
      OBVIOUS
    <2> HIDE DEF a, b
    <2>5. (10 * a) * (10 * a) = 10 * (10 * (a * a))
      BY <2>1
    <2>6. power[k + 1] * power[k + 1] = power[2 * (k + 1)]
      <3>1. power[2 * (k + 1)] = 10 * (10 * b)
        BY <2>3, <2>4
      <3> QED BY <3>1, <2>1, <2>2, <2>5
    <2> QED BY <2>6
  <1> HIDE DEF S
  <1>3. \A k \in Nat : k \in S
    BY <1>1, <1>2, Induct
  <1> QED BY <1>3 DEF S

LEMMA PowerGrows == ASSUME NEW i \in Nat, NEW j \in Nat, i <= j PROVE power[i] <= power[j]
  <1> DEFINE S == {d \in Nat : power[i] <= power[i + d]}
  <1>1. 0 \in S
    BY PowerDef
  <1>2. ASSUME NEW d \in Nat, d \in S PROVE d + 1 \in S
    <2>1. power[i + d] \in Nat /\ power[i] \in Nat /\ power[i + d + 1] = 10 * power[i + d]
      BY PowerDef
    <2>2. power[i + (d + 1)] = power[i + d + 1]
      OBVIOUS
    <2> QED BY <1>2, <2>1, <2>2
  <1> HIDE DEF S
  <1>3. \A d \in Nat : d \in S
    BY <1>1, <1>2, Induct
  <1>4. j - i \in S /\ i + (j - i) = j
    BY <1>3
  <1> QED BY <1>4 DEF S

LEMMA SquareGrows == ASSUME NEW a \in Nat, NEW b \in Nat, a <= b PROVE a * a <= b * b
  <1>1. PICK d \in Nat : b = a + d
    <2>1. b - a \in Nat /\ b = a + (b - a)
      OBVIOUS
    <2> QED BY <2>1
  <1>2. (a + d) * (a + d) = a * a + (2 * (a * d) + d * d)
    OBVIOUS
  <1>3. a * d \in Nat /\ d * d \in Nat /\ a * a \in Nat
    OBVIOUS
  <1> QED BY <1>1, <1>2, <1>3

(***************************************************************************)
(* The mean of levels that do not exceed full scale is a level that does   *)
(* not: the CHOOSE in Point has something to choose.                       *)
(***************************************************************************)
THEOREM MeanExists ==
  ASSUME NEW sum \in Nat, NEW count \in Nat \ {0}, sum <= count * power[TopLevel]
  PROVE  \E k \in 0..TopLevel : IsMean(k, sum, count)
  <1> DEFINE s == sum * sum
             c == count * count
             T == {k \in Nat : s < power[2 * k + 1] * c}
  <1>1. s \in Nat /\ c \in Nat \ {0}
    <2>1. c > 0
      OBVIOUS
    <2> QED BY <2>1
  <1>2. TopLevel \in T
    <2> DEFINE p == power[TopLevel]
               q == power[2 * TopLevel]
    <2>1. TopLevel \in Nat /\ p \in Nat /\ q \in Nat /\ q > 0 /\ p * p = q
      BY LevelAssumption, PowerDef, PowerSquare
    <2>2. power[2 * TopLevel + 1] = 10 * q
      BY LevelAssumption, PowerDef
    <2>3. s <= (count * p) * (count * p)
      <3>1. count * p \in Nat /\ sum <= count * p
        BY <2>1
      <3> HIDE DEF p, q
      <3> QED BY <3>1, SquareGrows
    <2> HIDE DEF p, q
    <2>4. (count * p) * (count * p) = (p * p) * c
      BY <2>1
    <2>5. q * c \in Nat \ {0} /\ (10 * q) * c = 10 * (q * c)
      BY <2>1, <1>1
    <2> HIDE DEF s, c
    <2>6. s < (10 * q) * c
      BY <1>1, <2>1, <2>3, <2>4, <2>5
    <2> QED BY <2>1, <2>2, <2>6
  <1> HIDE DEF s, c
  <1>3. PICK k \in T : \A y \in T : ~(y < k)
    <2> HIDE DEF T
    <2>1. T \in SUBSET Nat
      BY DEF T
    <2> QED BY <1>2, <2>1, LeastNatural
  <1>4. k \in 0..TopLevel
    BY <1>2, <1>3, LevelAssumption
  <1>5. k > 0 => power[2 * k - 1] * c <= s
    <2> SUFFICES ASSUME k > 0 PROVE power[2 * k - 1] * c <= s
      OBVIOUS
    <2>1. k - 1 \in Nat /\ k - 1 \notin T /\ 2 * (k - 1) + 1 = 2 * k - 1
      BY <1>3
    <2>2. ~(s < power[2 * k - 1] * c)
      BY <2>1
    <2>3. power[2 * k - 1] * c \in Nat
      <3>1. 2 * k - 1 \in Nat
        OBVIOUS
      <3>2. power[2 * k - 1] \in Nat
        BY <3>1, PowerDef
      <3> QED BY <3>2, <1>1
    <2> QED BY <2>2, <2>3, <1>1
  <1>6. s < power[2 * k + 1] * c
    BY <1>3
  <1> QED BY <1>4, <1>5, <1>6 DEF IsMean, s, c

(***************************************************************************)
(* What the sum over a range of places is, place by place, and that a level *)
(* received later does not change it.                                      *)
(***************************************************************************)
LEMMA EnergyDef ==
  ASSUME NEW s \in Seq(Sample), NEW i \in Nat \ {0}
  PROVE  /\ Energy(s, i, 0) = 0
         /\ \A k \in Nat : /\ Energy(s, i, k) \in Nat
                           /\ Energy(s, i, k + 1) = IF k + 1 \in i..Len(s)
                                THEN Energy(s, i, k) + power[s[k + 1].level] ELSE 0
  <1> DEFINE G == [p \in Nat \X Nat |->
                     IF p[1] + 1 \in i..Len(s) THEN p[2] + power[s[p[1] + 1].level] ELSE 0]
             Rec(f) == [k \in Nat |-> IF k \in i..Len(s) THEN f[k - 1] + power[s[k].level] ELSE 0]
  <1>1. \A k \in 1..Len(s) : power[s[k].level] \in Nat
    <2>1. \A k \in 1..Len(s) : s[k].level \in Nat
      <3> SUFFICES ASSUME NEW k \in 1..Len(s) PROVE s[k].level \in Nat
        OBVIOUS
      <3>1. s[k] \in Sample
        OBVIOUS
      <3>2. s[k].level \in Levels
        <4> HIDE DEF G, Rec
        <4> QED BY <3>1 DEF Sample
      <3>3. Levels \subseteq Nat
        BY LevelAssumption
      <3> QED BY <3>2, <3>3
    <2> QED BY <2>1, PowerDef
  <1>2. G \in [Nat \X Nat -> Nat]
    BY <1>1
  <1>3. PICK h : Iteration(h, Nat, 0, G)
    <2> HIDE DEF G
    <2> QED BY <1>2, Iterate
  <1>4. /\ h \in [Nat -> Nat]
        /\ h[0] = 0
        /\ \A k \in Nat : h[k + 1] = IF k + 1 \in i..Len(s)
                                     THEN h[k] + power[s[k + 1].level] ELSE 0
    BY <1>3 DEF Iteration
  <1>5. h = Rec(h)
    <2>1. ASSUME NEW k \in Nat
          PROVE  h[k] = IF k \in i..Len(s) THEN h[k - 1] + power[s[k].level] ELSE 0
      <3>1. CASE k = 0
        BY <3>1, <1>4
      <3>2. CASE k # 0
        <4>1. k - 1 \in Nat /\ k - 1 + 1 = k
          BY <3>2
        <4> QED BY <4>1, <1>4
      <3> QED BY <3>1, <3>2
    <2> QED BY <2>1, <1>4
  <1> DEFINE f == CHOOSE g : g = Rec(g)
  <1>6. f = Rec(f)
    <2> HIDE DEF Rec
    <2> QED BY <1>5, Zenon
  <1>7. \A k : Energy(s, i, k) = f[k]
    BY Zenon DEF Energy
  <1> HIDE DEF f
  <1>8. \A k \in Nat : f[k] = IF k \in i..Len(s) THEN f[k - 1] + power[s[k].level] ELSE 0
    BY <1>6
  <1>9. f[0] = 0
    <2>1. 0 \notin i..Len(s)
      OBVIOUS
    <2> QED BY <2>1, <1>8
  <1>10. ASSUME NEW k \in Nat
         PROVE  f[k + 1] = IF k + 1 \in i..Len(s) THEN f[k] + power[s[k + 1].level] ELSE 0
    <2>1. PICK n \in Nat : n = k + 1
      OBVIOUS
    <2>2. f[n] = IF n \in i..Len(s) THEN f[n - 1] + power[s[n].level] ELSE 0
      BY <1>8
    <2>3. n - 1 = k
      BY <2>1
    <2> QED BY <2>1, <2>2, <2>3
  <1>11. \A k \in Nat : f[k] \in Nat
    <2> DEFINE S == {k \in Nat : f[k] \in Nat}
    <2>1. 0 \in S
      BY <1>9
    <2>2. ASSUME NEW k \in Nat, k \in S PROVE k + 1 \in S
      <3>1. f[k] \in Nat
        BY <2>2
      <3>2. CASE k + 1 \in i..Len(s)
        <4>1. f[k + 1] = f[k] + power[s[k + 1].level]
          BY <3>2, <1>10
        <4>2. k + 1 \in 1..Len(s)
          BY <3>2
        <4>3. power[s[k + 1].level] \in Nat
          BY <4>2, <1>1
        <4> QED BY <3>1, <4>1, <4>3
      <3>3. CASE k + 1 \notin i..Len(s)
        <4>1. f[k + 1] = 0
          BY <3>3, <1>10
        <4> QED BY <4>1
      <3> QED BY <3>2, <3>3
    <2> HIDE DEF S
    <2>3. \A k \in Nat : k \in S
      BY <2>1, <2>2, Induct
    <2> QED BY <2>3 DEF S
  <1> QED BY <1>7, <1>9, <1>10, <1>11

LEMMA EnergyAppend ==
  ASSUME NEW s \in Seq(Sample), NEW x \in Sample, NEW i \in Nat \ {0}, NEW j \in 0..Len(s)
  PROVE  Energy(Append(s, x), i, j) = Energy(s, i, j)
  <1> DEFINE t == Append(s, x)
             S == {k \in Nat : k <= Len(s) => Energy(t, i, k) = Energy(s, i, k)}
  <1>1. t \in Seq(Sample) /\ Len(t) = Len(s) + 1 /\ \A k \in 1..Len(s) : t[k] = s[k]
    OBVIOUS
  <1> HIDE DEF t
  <1>2. 0 \in S
    BY <1>1, EnergyDef
  <1>3. ASSUME NEW k \in Nat, k \in S PROVE k + 1 \in S
    <2> SUFFICES ASSUME k + 1 <= Len(s) PROVE Energy(t, i, k + 1) = Energy(s, i, k + 1)
      OBVIOUS
    <2>1. Energy(t, i, k) = Energy(s, i, k) /\ t[k + 1] = s[k + 1]
      BY <1>1, <1>3
    <2>2. k + 1 \in i..Len(t) <=> k + 1 \in i..Len(s)
      BY <1>1
    <2>3. Energy(t, i, k + 1) = IF k + 1 \in i..Len(t)
                                THEN Energy(t, i, k) + power[t[k + 1].level] ELSE 0
      BY <1>1, EnergyDef
    <2>4. Energy(s, i, k + 1) = IF k + 1 \in i..Len(s)
                                THEN Energy(s, i, k) + power[s[k + 1].level] ELSE 0
      BY EnergyDef
    <2> QED BY <2>1, <2>2, <2>3, <2>4
  <1> HIDE DEF S
  <1>4. \A k \in Nat : k \in S
    BY <1>2, <1>3, Induct
  <1> QED BY <1>4 DEF S, t

(***************************************************************************)
(* Where the seconds begin.  After one more level they begin where they    *)
(* did, and at that level too when its second is not the one before; so the *)
(* n-th beginning stays where it was.                                      *)
(***************************************************************************)
\* The level x, received after the levels s, is the first of its second.
BeginsSecond(s, x) == s = <<>> \/ s[Len(s)].sec # x.sec

\* The seconds that begin up to place i; the n-th start has n of them.
Upto(s, i) == {j \in Starts(s) : j <= i}

Enumerated(s) == \A n \in 1..Cardinality(Starts(s)) :
                   Start(s, n) \in Starts(s) /\ Cardinality(Upto(s, Start(s, n))) = n

LEMMA StartsFinite ==
  ASSUME NEW s \in Seq(Sample)
  PROVE  /\ Starts(s) \subseteq 1..Len(s)
         /\ IsFiniteSet(Starts(s))
         /\ Cardinality(Starts(s)) \in Nat
         /\ \A i : IsFiniteSet(Upto(s, i)) /\ Cardinality(Upto(s, i)) \in Nat
  <1>1. Starts(s) \subseteq 1..Len(s)
    BY DEF Starts
  <1>2. IsFiniteSet(1..Len(s))
    BY FS_Interval
  <1>3. IsFiniteSet(Starts(s))
    BY <1>1, <1>2, FS_Subset
  <1>4. ASSUME NEW i PROVE IsFiniteSet(Upto(s, i))
    <2>1. Upto(s, i) \subseteq Starts(s)
      BY DEF Upto
    <2> QED BY <2>1, <1>3, FS_Subset
  <1> QED BY <1>1, <1>3, <1>4, FS_CardinalityType

LEMMA UptoInjective ==
  ASSUME NEW s \in Seq(Sample), NEW i \in Starts(s), NEW k \in Starts(s),
         Cardinality(Upto(s, i)) = Cardinality(Upto(s, k))
  PROVE  i = k
  <1>1. \A a, b \in Starts(s) : Cardinality(Upto(s, a)) = Cardinality(Upto(s, b)) => ~(a < b)
    <2> SUFFICES ASSUME NEW a \in Starts(s), NEW b \in Starts(s), a < b,
                        Cardinality(Upto(s, a)) = Cardinality(Upto(s, b))
                 PROVE  FALSE
      OBVIOUS
    <2>1. a \in Nat /\ b \in Nat /\ \A j \in Starts(s) : j \in Nat
      BY StartsFinite
    <2>2. Upto(s, a) \subseteq Upto(s, b) /\ b \in Upto(s, b) /\ b \notin Upto(s, a)
      <3>1. \A j \in Starts(s) : j <= a => j <= b
        BY <2>1
      <3>2. b <= b /\ ~(b <= a)
        BY <2>1
      <3>3. Upto(s, a) \subseteq Upto(s, b)
        BY <3>1 DEF Upto
      <3>4. b \in Upto(s, b) /\ b \notin Upto(s, a)
        BY <3>2 DEF Upto
      <3> QED BY <3>3, <3>4
    <2>3. IsFiniteSet(Upto(s, b))
      BY StartsFinite
    <2>4. Upto(s, b) = Upto(s, a)
      BY <2>2, <2>3, FS_Subset
    <2> QED BY <2>2, <2>4
  <1>2. i \in Nat /\ k \in Nat
    BY StartsFinite
  <1> QED BY <1>1, <1>2

LEMMA StartIs ==
  ASSUME NEW s \in Seq(Sample), NEW i \in Starts(s)
  PROVE  Start(s, Cardinality(Upto(s, i))) = i
  <1> DEFINE c == Cardinality(Upto(s, i))
             w == CHOOSE k \in Starts(s) : Cardinality(Upto(s, k)) = c
  <1>1. Start(s, c) = w
    BY Zenon DEF Start, Upto
  <1>2. w \in Starts(s) /\ Cardinality(Upto(s, w)) = c
    <2>1. \E k \in Starts(s) : Cardinality(Upto(s, k)) = c
      OBVIOUS
    <2> HIDE DEF c
    <2> QED BY <2>1
  <1> HIDE DEF w
  <1> QED BY <1>1, <1>2, UptoInjective

LEMMA StartsAppend ==
  ASSUME NEW s \in Seq(Sample), NEW x \in Sample
  PROVE  Starts(Append(s, x)) = IF BeginsSecond(s, x) THEN Starts(s) \cup {Len(s) + 1} ELSE Starts(s)
  <1> DEFINE t == Append(s, x)
  <1>1. t \in Seq(Sample) /\ Len(t) = Len(s) + 1 /\ t[Len(s) + 1] = x
        /\ \A k \in 1..Len(s) : t[k] = s[k]
    OBVIOUS
  <1>2. s = <<>> <=> Len(s) = 0
    OBVIOUS
  <1> HIDE DEF t
  <1>3. \A i \in 1..Len(s) : i \in Starts(t) <=> i \in Starts(s)
    <2> SUFFICES ASSUME NEW i \in 1..Len(s) PROVE i \in Starts(t) <=> i \in Starts(s)
      OBVIOUS
    <2>1. i = 1 \/ i - 1 \in 1..Len(s)
      OBVIOUS
    <2>2. t[i] = s[i] /\ (i # 1 => t[i - 1] = s[i - 1])
      BY <1>1, <2>1
    <2>3. i \in DOMAIN s /\ i \in DOMAIN t
      BY <1>1
    <2> QED BY <2>2, <2>3 DEF Starts
  <1>4. Len(s) + 1 \in Starts(t) <=> BeginsSecond(s, x)
    <2>1. Len(s) + 1 \in DOMAIN t /\ Len(s) + 1 - 1 = Len(s)
      BY <1>1
    <2>2. Len(s) + 1 \in Starts(t) <=> (Len(s) + 1 = 1 \/ t[Len(s) + 1].sec # t[Len(s)].sec)
      BY <2>1 DEF Starts
    <2>3. CASE Len(s) = 0
      BY <2>2, <2>3, <1>2 DEF BeginsSecond
    <2>4. CASE Len(s) # 0
      <3>1. t[Len(s)] = s[Len(s)] /\ Len(s) + 1 # 1
        BY <2>4, <1>1
      <3> QED BY <3>1, <2>2, <2>4, <1>1, <1>2 DEF BeginsSecond
    <2> QED BY <2>3, <2>4
  <1>5. Starts(s) \subseteq 1..Len(s) /\ Starts(t) \subseteq 1..(Len(s) + 1)
    BY <1>1, StartsFinite
  <1>6. \A i \in 1..(Len(s) + 1) : i \in 1..Len(s) \/ i = Len(s) + 1
    OBVIOUS
  <1>7. CASE BeginsSecond(s, x)
    <2>1. Starts(t) = Starts(s) \cup {Len(s) + 1}
      BY <1>3, <1>4, <1>5, <1>6, <1>7
    <2> QED BY <2>1, <1>7 DEF t
  <1>8. CASE ~BeginsSecond(s, x)
    <2>1. Starts(t) = Starts(s)
      BY <1>3, <1>4, <1>5, <1>6, <1>8
    <2> QED BY <2>1, <1>8 DEF t
  <1> QED BY <1>7, <1>8

LEMMA SameStarts ==
  ASSUME NEW s \in Seq(Sample), NEW t \in Seq(Sample), Starts(s) = Starts(t)
  PROVE  /\ \A n : Start(s, n) = Start(t, n)
         /\ Enumerated(s) => Enumerated(t)
  <1>1. \A n : Start(s, n) = Start(t, n)
    BY Zenon DEF Start
  <1>2. \A i : Upto(s, i) = Upto(t, i)
    BY DEF Upto
  <1>3. ASSUME Enumerated(s), NEW n \in 1..Cardinality(Starts(t))
        PROVE  Start(t, n) \in Starts(t) /\ Cardinality(Upto(t, Start(t, n))) = n
    <2>1. Start(s, n) \in Starts(s) /\ Cardinality(Upto(s, Start(s, n))) = n
      BY <1>3 DEF Enumerated
    <2>2. Start(s, n) = Start(t, n) /\ Upto(s, Start(s, n)) = Upto(t, Start(s, n))
      BY <1>1, <1>2
    <2> QED BY <2>1, <2>2
  <1> QED BY <1>1, <1>3 DEF Enumerated

LEMMA StartAppend ==
  ASSUME NEW s \in Seq(Sample), NEW x \in Sample, Enumerated(s), BeginsSecond(s, x)
  PROVE  LET t == Append(s, x)
             C == Cardinality(Starts(s))
         IN  /\ Cardinality(Starts(t)) = C + 1
             /\ \A n \in 1..C : Start(t, n) = Start(s, n)
             /\ Start(t, C + 1) = Len(s) + 1
             /\ Enumerated(t)
  <1> DEFINE t == Append(s, x)
             C == Cardinality(Starts(s))
  <1>1. t \in Seq(Sample)
    OBVIOUS
  <1>2. Starts(t) = Starts(s) \cup {Len(s) + 1}
    BY StartsAppend
  <1> HIDE DEF t
  <1>3. Starts(s) \subseteq 1..Len(s) /\ IsFiniteSet(Starts(s)) /\ C \in Nat
    BY StartsFinite
  <1>4. Cardinality(Starts(t)) = C + 1
    <2>1. Len(s) + 1 \notin Starts(s)
      BY <1>3
    <2> QED BY <2>1, <1>2, <1>3, FS_AddElement
  <1>5. ASSUME NEW i \in Starts(s) PROVE Upto(t, i) = Upto(s, i)
    BY <1>2, <1>3 DEF Upto
  <1>6. Upto(t, Len(s) + 1) = Starts(t)
    BY <1>2, <1>3 DEF Upto
  <1>7. ASSUME NEW n \in 1..C
        PROVE  Start(t, n) = Start(s, n) /\ Start(s, n) \in Starts(s)
    <2>1. Start(s, n) \in Starts(s) /\ Cardinality(Upto(s, Start(s, n))) = n
      BY DEF Enumerated
    <2>2. Cardinality(Upto(t, Start(s, n))) = n /\ Start(s, n) \in Starts(t)
      BY <2>1, <1>5, <1>2
    <2> QED BY <2>1, <2>2, <1>1, StartIs
  <1>8. Start(t, C + 1) = Len(s) + 1
    <2>1. Len(s) + 1 \in Starts(t) /\ Cardinality(Upto(t, Len(s) + 1)) = C + 1
      BY <1>2, <1>4, <1>6
    <2> QED BY <2>1, <1>1, StartIs
  <1>9. Enumerated(t)
    <2> SUFFICES ASSUME NEW n \in 1..C + 1
                 PROVE  Start(t, n) \in Starts(t) /\ Cardinality(Upto(t, Start(t, n))) = n
      BY <1>4 DEF Enumerated
    <2>1. CASE n = C + 1
      BY <2>1, <1>2, <1>4, <1>6, <1>8
    <2>2. CASE n # C + 1
      <3>1. n \in 1..C
        BY <2>2, <1>3
      <3>2. Start(t, n) = Start(s, n) /\ Start(s, n) \in Starts(s)
        BY <3>1, <1>7
      <3>3. Cardinality(Upto(s, Start(s, n))) = n
        BY <3>1 DEF Enumerated
      <3> QED BY <3>2, <3>3, <1>5, <1>2
    <2> QED BY <2>1, <2>2
  <1> QED BY <1>4, <1>7, <1>8, <1>9 DEF t

LEMMA AllEnumerated == \A s \in Seq(Sample) : Enumerated(s)
  <1> DEFINE S == {n \in Nat : \A s \in Seq(Sample) : Len(s) = n => Enumerated(s)}
  <1>1. 0 \in S
    <2> SUFFICES ASSUME NEW s \in Seq(Sample), Len(s) = 0 PROVE Enumerated(s)
      OBVIOUS
    <2>1. Starts(s) = {}
      <3>1. Starts(s) \subseteq 1..0
        BY StartsFinite
      <3> QED BY <3>1
    <2>2. Cardinality(Starts(s)) = 0
      BY <2>1, FS_EmptySet
    <2> QED BY <2>2 DEF Enumerated
  <1>2. ASSUME NEW n \in Nat, n \in S PROVE n + 1 \in S
    <2> SUFFICES ASSUME NEW t \in Seq(Sample), Len(t) = n + 1 PROVE Enumerated(t)
      OBVIOUS
    <2>1. PICK s \in Seq(Sample), x \in Sample : t = Append(s, x)
      BY SequenceEmptyOrAppend
    <2>2. Len(s) = n
      BY <2>1
    <2>3. Enumerated(s)
      BY <2>2, <1>2
    <2>4. CASE BeginsSecond(s, x)
      BY <2>1, <2>3, <2>4, StartAppend
    <2>5. CASE ~BeginsSecond(s, x)
      <3>1. Starts(t) = Starts(s)
        BY <2>1, <2>5, StartsAppend
      <3> QED BY <3>1, <2>3, SameStarts
    <2> QED BY <2>4, <2>5
  <1> HIDE DEF S
  <1>3. \A n \in Nat : n \in S
    BY <1>1, <1>2, Induct
  <1> QED BY <1>3 DEF S

(***************************************************************************)
(* The points.  A level of the same second leaves them alone; the first of *)
(* another second adds one point, that of the second it ends.              *)
(***************************************************************************)
LEMMA Table ==
  ASSUME NEW k \in Nat, NEW f, f = [n \in 1..k |-> f[n]]
  PROVE  f \in Seq({f[n] : n \in 1..k}) /\ Len(f) = k
  <1> DEFINE X == {f[n] : n \in 1..k}
  <1>1. \A n \in 1..k : f[n] \in X
    OBVIOUS
  <1> HIDE DEF X
  <1>2. f \in [1..k -> X]
    BY <1>1
  <1>3. f \in Seq(X) /\ Len(f) = k
    BY <1>2, IsASeq, LenProperties
  <1> QED BY <1>3 DEF X

LEMMA PointsLength ==
  ASSUME NEW s \in Seq(Sample)
  PROVE  LET k == IF s = <<>> THEN 0 ELSE Cardinality(Starts(s)) - 1
         IN  /\ k \in Nat
             /\ Points(s) \in Seq({Points(s)[n] : n \in 1..k})
             /\ Len(Points(s)) = k
             /\ \A n \in 1..k : Points(s)[n] = PointFrom(s, Start(s, n), Start(s, n + 1))
  <1> DEFINE C == Cardinality(Starts(s))
             k == IF s = <<>> THEN 0 ELSE C - 1
  <1>1. C \in Nat
    BY StartsFinite
  <1>2. s = <<>> => C = 0
    <2> SUFFICES ASSUME s = <<>> PROVE C = 0
      OBVIOUS
    <2>1. Starts(s) \subseteq 1..0
      BY StartsFinite
    <2>2. Starts(s) = {}
      BY <2>1
    <2> QED BY <2>2, FS_EmptySet
  <1>3. s # <<>> => C # 0
    <2> SUFFICES ASSUME s # <<>> PROVE C # 0
      OBVIOUS
    <2>1. 1 \in DOMAIN s
      OBVIOUS
    <2>2. 1 \in Starts(s)
      BY <2>1 DEF Starts
    <2>3. IsFiniteSet(Starts(s)) /\ Starts(s) # {}
      BY <2>2, StartsFinite
    <2> QED BY <2>3, FS_EmptySet
  <1> DEFINE P == Points(s)
  <1>4. P = [n \in 1..C - 1 |-> PointFrom(s, Start(s, n), Start(s, n + 1))]
    BY DEF Points
  <1> HIDE DEF P, C
  <1>5. k \in Nat /\ 1..C - 1 = 1..k
    <2>1. CASE s = <<>>
      BY <2>1, <1>1, <1>2
    <2>2. CASE s # <<>>
      BY <2>2, <1>1, <1>3
    <2> QED BY <2>1, <2>2
  <1> HIDE DEF k
  <1>6. P = [n \in 1..k |-> PointFrom(s, Start(s, n), Start(s, n + 1))]
    BY <1>4, <1>5
  <1>7. P = [n \in 1..k |-> P[n]]
    BY <1>6
  <1>8. P \in Seq({P[n] : n \in 1..k}) /\ Len(P) = k
    BY <1>5, <1>7, Table
  <1>9. \A n \in 1..k : P[n] = PointFrom(s, Start(s, n), Start(s, n + 1))
    BY <1>6
  <1> QED BY <1>5, <1>8, <1>9 DEF k, C, P

LEMMA PointFromAppend ==
  ASSUME NEW s \in Seq(Sample), NEW x \in Sample,
         NEW i \in 1..Len(s), NEW next \in 1..(Len(s) + 1)
  PROVE  PointFrom(Append(s, x), i, next) = PointFrom(s, i, next)
  <1> DEFINE t == Append(s, x)
  <1>1. t[i] = s[i]
    OBVIOUS
  <1>2. Energy(t, i, next - 1) = Energy(s, i, next - 1)
    <2>1. i \in Nat \ {0} /\ next - 1 \in 0..Len(s)
      OBVIOUS
    <2> QED BY <2>1, EnergyAppend
  <1> HIDE DEF t
  <1>3. PointFrom(t, i, next) = PointFrom(s, i, next)
    BY <1>1, <1>2 DEF PointFrom
  <1> QED BY <1>3 DEF t

LEMMA StartsAreHere ==
  ASSUME NEW s \in Seq(Sample), NEW n \in 1..Cardinality(Starts(s))
  PROVE  Start(s, n) \in 1..Len(s)
  BY StartsFinite, AllEnumerated DEF Enumerated

LEMMA PointsSame ==
  ASSUME NEW s \in Seq(Sample), NEW x \in Sample, ~BeginsSecond(s, x)
  PROVE  Points(Append(s, x)) = Points(s)
  <1> DEFINE t == Append(s, x)
             C == Cardinality(Starts(s))
  <1>1. t \in Seq(Sample) /\ Starts(t) = Starts(s) /\ C \in Nat
    BY StartsAppend, StartsFinite
  <1>2. \A n : Start(t, n) = Start(s, n)
    BY <1>1, SameStarts
  <1>3. ASSUME NEW n \in 1..C - 1
        PROVE  PointFrom(t, Start(t, n), Start(t, n + 1)) = PointFrom(s, Start(s, n), Start(s, n + 1))
    <2>1. n \in 1..C /\ n + 1 \in 1..C
      BY <1>1
    <2>2. Start(s, n) \in 1..Len(s) /\ Start(s, n + 1) \in 1..Len(s)
      BY <2>1, StartsAreHere
    <2>3. Start(s, n + 1) \in 1..(Len(s) + 1)
      BY <2>2
    <2>4. PointFrom(t, Start(s, n), Start(s, n + 1)) = PointFrom(s, Start(s, n), Start(s, n + 1))
      BY <2>2, <2>3, PointFromAppend
    <2> QED BY <2>4, <1>2
  <1> HIDE DEF t
  <1>4. Points(t) = [n \in 1..C - 1 |-> PointFrom(t, Start(t, n), Start(t, n + 1))]
    BY <1>1 DEF Points
  <1>5. Points(s) = [n \in 1..C - 1 |-> PointFrom(s, Start(s, n), Start(s, n + 1))]
    BY DEF Points
  <1>6. Points(t) = Points(s)
    BY <1>3, <1>4, <1>5
  <1> QED BY <1>6 DEF t

LEMMA PointsAppend ==
  ASSUME NEW s \in Seq(Sample), NEW x \in Sample, s # <<>>, BeginsSecond(s, x)
  PROVE  Points(Append(s, x)) =
           Append(Points(s), PointFrom(s, Start(s, Cardinality(Starts(s))), Len(s) + 1))
  <1> DEFINE t == Append(s, x)
             C == Cardinality(Starts(s))
             P == Points(s)
             Q == Points(t)
             p == PointFrom(s, Start(s, C), Len(s) + 1)
             X == {P[n] : n \in 1..C - 1} \cup {p}
             Y == {Q[n] : n \in 1..C}
  <1>1. t \in Seq(Sample) /\ t # <<>> /\ C \in Nat
    BY StartsFinite
  <1>2. /\ Cardinality(Starts(t)) = C + 1
        /\ \A n \in 1..C : Start(t, n) = Start(s, n)
        /\ Start(t, C + 1) = Len(s) + 1
    BY AllEnumerated, StartAppend
  <1>3. /\ C - 1 \in Nat
        /\ P \in Seq({P[n] : n \in 1..C - 1})
        /\ Len(P) = C - 1
        /\ \A n \in 1..C - 1 : P[n] = PointFrom(s, Start(s, n), Start(s, n + 1))
    BY PointsLength
  <1>4. /\ Q \in Seq(Y)
        /\ Len(Q) = C
        /\ \A n \in 1..C : Q[n] = PointFrom(t, Start(t, n), Start(t, n + 1))
    <2> DEFINE k == IF t = <<>> THEN 0 ELSE Cardinality(Starts(t)) - 1
    <2>1. k = C
      <3> HIDE DEF t, C
      <3> QED BY <1>1, <1>2
    <2>2. /\ Q \in Seq({Q[n] : n \in 1..k})
          /\ Len(Q) = k
          /\ \A n \in 1..k : Q[n] = PointFrom(t, Start(t, n), Start(t, n + 1))
      <3> HIDE DEF t
      <3> QED BY <1>1, PointsLength
    <2> HIDE DEF k, t, C, Q
    <2> QED BY <2>1, <2>2
  <1>5. ASSUME NEW n \in 1..C - 1 PROVE Q[n] = P[n]
    <2>1. n \in 1..C /\ n + 1 \in 1..C
      BY <1>1
    <2>2. Start(s, n) \in 1..Len(s) /\ Start(s, n + 1) \in 1..(Len(s) + 1)
      <3>1. Start(s, n) \in 1..Len(s) /\ Start(s, n + 1) \in 1..Len(s)
        BY <2>1, StartsAreHere
      <3> QED BY <3>1
    <2>3. PointFrom(t, Start(s, n), Start(s, n + 1)) = PointFrom(s, Start(s, n), Start(s, n + 1))
      BY <2>2, PointFromAppend
    <2>4. Q[n] = PointFrom(t, Start(s, n), Start(s, n + 1))
      BY <2>1, <1>2, <1>4
    <2>5. P[n] = PointFrom(s, Start(s, n), Start(s, n + 1))
      BY <1>3
    <2> QED BY <2>3, <2>4, <2>5
  <1>6. Q[C] = p
    <2>1. C \in 1..C
      <3> HIDE DEF C
      <3> QED BY <1>1, <1>3
    <2>2. Start(s, C) \in 1..Len(s) /\ Len(s) + 1 \in 1..(Len(s) + 1)
      <3>1. Start(s, C) \in 1..Len(s)
        BY <2>1, StartsAreHere
      <3> QED BY <3>1
    <2>3. PointFrom(t, Start(s, C), Len(s) + 1) = p
      BY <2>2, PointFromAppend
    <2>4. Q[C] = PointFrom(t, Start(t, C), Start(t, C + 1))
      BY <2>1, <1>4
    <2> QED BY <2>1, <2>3, <2>4, <1>2
  <1> HIDE DEF p, P, Q, C
  <1>7. P \in Seq(X) /\ p \in X
    <2>1. {P[n] : n \in 1..C - 1} \subseteq X
      OBVIOUS
    <2> HIDE DEF X
    <2>2. P \in Seq(X)
      BY <2>1, <1>3, SeqMonotonic
    <2> QED BY <2>2 DEF X
  <1> HIDE DEF X, Y
  <1>8. /\ Append(P, p) \in Seq(X)
        /\ Len(Append(P, p)) = C
        /\ Append(P, p)[C] = p
        /\ \A n \in 1..C - 1 : Append(P, p)[n] = P[n]
    <2>1. Len(P) + 1 = C
      BY <1>1, <1>3
    <2>2. Append(P, p) \in Seq(X) /\ Len(Append(P, p)) = Len(P) + 1
      BY <1>7
    <2>3. Append(P, p)[Len(P) + 1] = p
      BY <1>7
    <2>4. \A n \in 1..Len(P) : Append(P, p)[n] = P[n]
      BY <1>7
    <2> QED BY <2>1, <2>2, <2>3, <2>4, <1>3
  <1>9. ASSUME NEW n \in 1..C PROVE Q[n] = Append(P, p)[n]
    <2>1. CASE n = C
      BY <2>1, <1>6, <1>8
    <2>2. CASE n # C
      <3>1. n \in 1..C - 1
        BY <2>2, <1>1
      <3> QED BY <3>1, <1>5, <1>8
    <2> QED BY <2>1, <2>2
  <1>10. Q = Append(P, p)
    <2> DEFINE A == Append(P, p)
    <2> HIDE DEF A
    <2>1. A \in Seq(X) /\ Len(A) = C /\ Q \in Seq(Y) /\ Len(Q) = C
          /\ \A n \in 1..C : Q[n] = A[n]
      BY <1>4, <1>8, <1>9 DEF A
    <2>2. A \in [1..C -> X] /\ Q \in [1..C -> Y]
      BY <2>1
    <2>3. Q = A
      BY <2>1, <2>2
    <2> QED BY <2>3 DEF A
  <1> QED BY <1>10 DEF Q, P, p, C

(***************************************************************************)
(* The newest points are kept up by the bounded append.                    *)
(***************************************************************************)
LEMMA NewestAppend ==
  ASSUME NEW X, NEW p \in Seq(X), NEW x \in X
  PROVE  Newest(Append(p, x), HISTORY_SIZE) = AppendBounded(Newest(p, HISTORY_SIZE), x)
  <1> DEFINE N == HISTORY_SIZE
             q == Append(p, x)
  <1>1. N \in Nat \ {0} /\ Len(p) \in Nat
    BY SizeAssumption
  <1>2. q \in Seq(X) /\ Len(q) = Len(p) + 1 /\ q[Len(p) + 1] = x
        /\ \A n \in 1..Len(p) : q[n] = p[n]
    OBVIOUS
  <1>3. CASE Len(p) < N
    <2>1. Newest(p, N) = p
      <3>1. Newest(p, N) = SubSeq(p, 1, Len(p))
        <4>1. ~(Len(p) > N)
          BY <1>1, <1>3
        <4> HIDE DEF N
        <4> QED BY <4>1 DEF Newest
      <3> QED BY <3>1, SubSeqFull
    <2>2. Newest(q, N) = q
      <3>1. ~(Len(q) > N)
        BY <1>1, <1>2, <1>3
      <3>2. Newest(q, N) = SubSeq(q, 1, Len(q))
        <4> HIDE DEF N, q
        <4> QED BY <3>1 DEF Newest
      <3> HIDE DEF q
      <3> QED BY <3>2, <1>2, SubSeqFull
    <2> QED BY <2>1, <2>2, <1>3 DEF AppendBounded
  <1>4. CASE Len(p) >= N
    <2> DEFINE d == Len(p) - N
               w == Newest(p, N)
               A == Append(Tail(w), x)
               B == Newest(q, N)
    <2>1. d \in Nat /\ N + d = Len(p)
      BY <1>1, <1>4
    <2>2. w = SubSeq(p, d + 1, Len(p))
      <3>1. (IF Len(p) > N THEN Len(p) - N + 1 ELSE 1) = d + 1
        <4> HIDE DEF N
        <4> QED BY <1>1, <1>4
      <3> QED BY <3>1 DEF Newest
    <2>3. B = SubSeq(q, d + 2, Len(p) + 1)
      <3>1. (IF Len(q) > N THEN Len(q) - N + 1 ELSE 1) = d + 2
        <4>1. Len(q) > N /\ Len(q) - N + 1 = d + 2
          <5> HIDE DEF N, q
          <5> QED BY <1>1, <1>2, <1>4
        <4> QED BY <4>1
      <3> HIDE DEF q
      <3> QED BY <3>1, <1>2 DEF Newest
    <2> HIDE DEF w, N, B, d, q
    <2>4. w \in Seq(X) /\ Len(w) = N /\ \A n \in 1..N : w[n] = p[n + d]
      <3>1. Len(p) - (d + 1) + 1 = N /\ \A n \in 1..N : d + 1 + n - 1 = n + d
        BY <1>1, <2>1
      <3>2. \A n \in 1..N : n + d \in 1..Len(p)
        BY <1>1, <2>1
      <3> QED BY <3>1, <3>2, <2>1, <2>2, <1>1
    <2>5. B \in Seq(X) /\ Len(B) = N /\ \A n \in 1..N : B[n] = q[n + d + 1]
      <3>1. \A n \in 1..N : n + d + 1 \in 1..(Len(p) + 1)
        BY <1>1, <2>1
      <3> QED BY <3>1, <2>1, <2>3, <1>1, <1>2
    <2>6. A \in Seq(X) /\ Len(A) = N /\ A[N] = x /\ \A n \in 1..N - 1 : A[n] = w[n + 1]
      <3> DEFINE u == Tail(w)
      <3>1. w # <<>>
        BY <2>4, <1>1
      <3>2. u \in Seq(X) /\ Len(u) = N - 1 /\ \A n \in 1..N - 1 : u[n] = w[n + 1]
        BY <3>1, <2>4, <1>1
      <3> HIDE DEF u
      <3>3. Append(u, x) \in Seq(X) /\ Len(Append(u, x)) = N /\ Append(u, x)[N] = x
        BY <3>2, <1>1
      <3>4. \A n \in 1..N - 1 : Append(u, x)[n] = u[n]
        BY <3>2, <1>1
      <3> QED BY <3>2, <3>3, <3>4 DEF u
    <2>7. ASSUME NEW n \in 1..N PROVE A[n] = B[n]
      <3> HIDE DEF A
      <3>1. CASE n = N
        <4>1. n + d + 1 = Len(p) + 1
          BY <3>1, <2>1, <1>1
        <4> QED BY <4>1, <3>1, <2>5, <2>6, <1>2
      <3>2. CASE n # N
        <4>1. n \in 1..N - 1 /\ n + 1 \in 1..N /\ n + 1 + d \in 1..Len(p)
              /\ n + d + 1 = n + 1 + d
          BY <3>2, <2>1, <1>1
        <4>2. A[n] = p[n + 1 + d]
          BY <4>1, <2>4, <2>6
        <4>3. B[n] = q[n + 1 + d]
          BY <4>1, <2>5
        <4>4. q[n + 1 + d] = p[n + 1 + d]
          BY <4>1, <1>2
        <4> QED BY <4>2, <4>3, <4>4
      <3> QED BY <3>1, <3>2
    <2>8. A = B
      <3> HIDE DEF A
      <3>1. Len(A) = Len(B) /\ \A n \in 1..Len(A) : A[n] = B[n]
        BY <2>5, <2>6, <2>7
      <3> QED BY <3>1, <2>5, <2>6, SeqEqual
    <2>9. AppendBounded(w, x) = A
      <3>1. ~(Len(w) < HISTORY_SIZE)
        BY <2>4, <1>1 DEF N
      <3> QED BY <3>1 DEF AppendBounded
    <2>10. Newest(q, N) = AppendBounded(w, x)
      BY <2>8, <2>9 DEF B
    <2> QED BY <2>10 DEF w, N, q
  <1> QED BY <1>1, <1>3, <1>4

\* Where the newest second begins.
Current(s) == Start(s, Cardinality(Starts(s)))

\* What the accumulator must hold once the levels s have been received.
AccOf(s) ==
  IF s = <<>> THEN EmptyAcc
  ELSE [last_sec  |-> s[Len(s)].sec,
        count     |-> Len(s) - Current(s) + 1,
        sum_power |-> Energy(s, Current(s), Len(s))]

\* It holds that, and all levels from there on are of one second.
AccExact == /\ acc = AccOf(all)
            /\ all # <<>> => all[Current(all)].sec = all[Len(all)].sec

(***************************************************************************)
(* The inductive invariant.  HistoryExact alone is not inductive: the next *)
(* point is made from the accumulator, so that must hold the count and the *)
(* energy of the second that has not ended; and for the point to be a level *)
(* (the type), the energy must not exceed count times full scale.          *)
(***************************************************************************)
HistoryInv == /\ HistoryTypeOK
              /\ Len(all) <= MaxSamples
              /\ acc.sum_power <= acc.count * power[TopLevel]
              /\ AccExact
              /\ HistoryExact

LEMMA NoStarts == Starts(<<>>) = {}
  <1>1. DOMAIN <<>> = {}
    OBVIOUS
  <1> QED BY <1>1, Zenon DEF Starts

LEMMA CurrentIsHere ==
  ASSUME NEW s \in Seq(Sample), s # <<>>
  PROVE  Current(s) \in 1..Len(s)
  <1>1. Cardinality(Starts(s)) \in Nat /\ Cardinality(Starts(s)) - 1 \in Nat
    BY StartsFinite, PointsLength
  <1>2. Cardinality(Starts(s)) \in 1..Cardinality(Starts(s))
    BY <1>1
  <1> QED BY <1>2, StartsAreHere DEF Current

LEMMA CurrentAppend ==
  ASSUME NEW s \in Seq(Sample), NEW x \in Sample
  PROVE  Current(Append(s, x)) = IF BeginsSecond(s, x) THEN Len(s) + 1 ELSE Current(s)
  <1> DEFINE t == Append(s, x)
  <1>1. CASE BeginsSecond(s, x)
    <2>1. Cardinality(Starts(t)) = Cardinality(Starts(s)) + 1
          /\ Start(t, Cardinality(Starts(s)) + 1) = Len(s) + 1
      BY <1>1, AllEnumerated, StartAppend
    <2> HIDE DEF t
    <2>2. Current(t) = Len(s) + 1
      BY <2>1 DEF Current
    <2> QED BY <2>2, <1>1 DEF t
  <1>2. CASE ~BeginsSecond(s, x)
    <2>1. Starts(t) = Starts(s) /\ t \in Seq(Sample)
      BY <1>2, StartsAppend
    <2> HIDE DEF t
    <2>2. \A n : Start(t, n) = Start(s, n)
      BY <2>1, SameStarts
    <2>3. Current(t) = Current(s)
      BY <2>1, <2>2 DEF Current
    <2> QED BY <2>3, <1>2 DEF t
  <1> QED BY <1>1, <1>2

LEMMA CurrentPoint ==
  ASSUME NEW s \in Seq(Sample), NEW i \in 1..Len(s)
  PROVE  PointFrom(s, i, Len(s) + 1) = Point(s[i].sec, Energy(s, i, Len(s)), Len(s) - i + 1)
  <1>1. Len(s) + 1 - 1 = Len(s) /\ Len(s) + 1 - i = Len(s) - i + 1
    OBVIOUS
  <1> QED BY <1>1 DEF PointFrom

LEMMA EnergyNext ==
  ASSUME NEW s \in Seq(Sample), NEW x \in Sample, NEW i \in 1..(Len(s) + 1)
  PROVE  Energy(Append(s, x), i, Len(s) + 1)
           = (IF i = Len(s) + 1 THEN 0 ELSE Energy(s, i, Len(s))) + power[x.level]
  <1> DEFINE t == Append(s, x)
  <1>1. t \in Seq(Sample) /\ Len(t) = Len(s) + 1 /\ t[Len(s) + 1] = x /\ Len(s) \in Nat
    OBVIOUS
  <1>2. i \in Nat \ {0} /\ Len(s) + 1 \in i..(Len(s) + 1)
    OBVIOUS
  <1>3. Energy(t, i, Len(s)) = Energy(s, i, Len(s))
    <2>1. Len(s) \in 0..Len(s)
      OBVIOUS
    <2> QED BY <2>1, <1>2, EnergyAppend
  <1> HIDE DEF t
  <1>4. Energy(t, i, Len(s) + 1) = Energy(t, i, Len(s)) + power[x.level]
    <2>1. Energy(t, i, Len(s) + 1) = IF Len(s) + 1 \in i..Len(t)
                                     THEN Energy(t, i, Len(s)) + power[t[Len(s) + 1].level] ELSE 0
      BY <1>1, <1>2, EnergyDef
    <2> QED BY <2>1, <1>1, <1>2
  <1>5. i = Len(s) + 1 => Energy(s, i, Len(s)) = 0
    <2> SUFFICES ASSUME i = Len(s) + 1 PROVE Energy(s, i, Len(s)) = 0
      OBVIOUS
    <2>1. CASE Len(s) = 0
      BY <2>1, <1>2, EnergyDef
    <2>2. CASE Len(s) # 0
      <3>1. PICK k \in Nat : Len(s) = k + 1
        <4>1. Len(s) - 1 \in Nat /\ Len(s) = (Len(s) - 1) + 1
          BY <2>2
        <4> QED BY <4>1
      <3>2. k + 1 \notin i..Len(s)
        BY <3>1
      <3>3. Energy(s, i, k + 1) = 0
        BY <3>2, <1>2, EnergyDef
      <3> QED BY <3>1, <3>3
    <2> QED BY <2>1, <2>2
  <1>6. Energy(t, i, Len(s) + 1)
           = (IF i = Len(s) + 1 THEN 0 ELSE Energy(s, i, Len(s))) + power[x.level]
    BY <1>3, <1>4, <1>5
  <1> QED BY <1>6 DEF t

LEMMA AccAppend ==
  ASSUME NEW s \in Seq(Sample), NEW x \in Sample
  PROVE  AccOf(Append(s, x)) =
           IF BeginsSecond(s, x)
           THEN [last_sec |-> x.sec, count |-> 1, sum_power |-> power[x.level]]
           ELSE [last_sec |-> x.sec, count |-> AccOf(s).count + 1,
                 sum_power |-> AccOf(s).sum_power + power[x.level]]
  <1> DEFINE t == Append(s, x)
  <1>1. t # <<>> /\ Len(t) = Len(s) + 1 /\ Len(s) \in Nat /\ t[Len(s) + 1] = x
    OBVIOUS
  <1>2. power[x.level] \in Nat
    <2>1. x.level \in Nat
      <3>1. x.level \in Levels
        BY DEF Sample
      <3>2. Levels \subseteq Nat
        BY LevelAssumption
      <3> QED BY <3>1, <3>2
    <2> QED BY <2>1, PowerDef
  <1>3. CASE BeginsSecond(s, x)
    <2>1. Current(t) = Len(s) + 1
      BY <1>3, CurrentAppend
    <2>2. Energy(t, Len(s) + 1, Len(s) + 1) = power[x.level]
      <3>1. Len(s) + 1 \in 1..(Len(s) + 1) /\ 0 + power[x.level] = power[x.level]
        BY <1>1, <1>2
      <3>2. Energy(t, Len(s) + 1, Len(s) + 1) = 0 + power[x.level]
        BY <3>1, EnergyNext
      <3> QED BY <3>1, <3>2
    <2> HIDE DEF t
    <2>3. AccOf(t) = [last_sec |-> x.sec, count |-> 1, sum_power |-> power[x.level]]
      <3>1. Len(s) + 1 - (Len(s) + 1) + 1 = 1
        BY <1>1
      <3> QED BY <3>1, <2>1, <2>2, <1>1 DEF AccOf
    <2> QED BY <2>3, <1>3 DEF t
  <1>4. CASE ~BeginsSecond(s, x)
    <2>1. s # <<>> /\ Current(s) \in 1..Len(s)
      BY <1>4, CurrentIsHere DEF BeginsSecond
    <2>2. Current(t) = Current(s)
      BY <1>4, CurrentAppend
    <2>3. Energy(t, Current(s), Len(s) + 1) = Energy(s, Current(s), Len(s)) + power[x.level]
      <3>1. Current(s) \in 1..(Len(s) + 1) /\ Current(s) # Len(s) + 1
        BY <2>1
      <3> QED BY <3>1, EnergyNext
    <2>4. AccOf(s).count = Len(s) - Current(s) + 1
          /\ AccOf(s).sum_power = Energy(s, Current(s), Len(s))
      BY <2>1 DEF AccOf
    <2> HIDE DEF t
    <2>5. AccOf(t) = [last_sec |-> x.sec, count |-> Len(s) - Current(s) + 1 + 1,
                      sum_power |-> Energy(s, Current(s), Len(s)) + power[x.level]]
      <3>1. Len(t) = Len(s) + 1 /\ Current(t) = Current(s) /\ t # <<>>
        BY <1>1, <2>2
      <3>2. Len(t) - Current(t) + 1 = Len(s) - Current(s) + 1 + 1
        BY <3>1, <2>1, <1>1
      <3>3. Energy(t, Current(t), Len(t)) = Energy(s, Current(s), Len(s)) + power[x.level]
        BY <3>1, <2>3
      <3>4. t[Len(t)].sec = x.sec
        BY <1>1
      <3> QED BY <3>1, <3>2, <3>3, <3>4 DEF AccOf
    <2> QED BY <2>4, <2>5, <1>4 DEF t
  <1> QED BY <1>3, <1>4

LEMMA SecondAppend ==
  ASSUME NEW s \in Seq(Sample), NEW x \in Sample,
         s # <<>> => s[Current(s)].sec = s[Len(s)].sec
  PROVE  LET t == Append(s, x) IN t[Current(t)].sec = t[Len(t)].sec
  <1> DEFINE t == Append(s, x)
  <1>1. /\ Len(t) = Len(s) + 1 /\ t[Len(s) + 1] = x
        /\ \A k \in 1..Len(s) : t[k] = s[k]
    OBVIOUS
  <1>2. CASE BeginsSecond(s, x)
    <2>1. Current(t) = Len(s) + 1
      BY <1>2, CurrentAppend
    <2> HIDE DEF t
    <2>2. t[Current(t)].sec = t[Len(t)].sec
      BY <2>1, <1>1
    <2> QED BY <2>2 DEF t
  <1>3. CASE ~BeginsSecond(s, x)
    <2>1. Current(t) = Current(s)
      BY <1>3, CurrentAppend
    <2>2. s # <<>> /\ s[Len(s)].sec = x.sec
      BY <1>3 DEF BeginsSecond
    <2>3. Current(s) \in 1..Len(s)
      BY <2>2, CurrentIsHere
    <2> HIDE DEF t
    <2>4. t[Current(t)].sec = t[Len(t)].sec
      BY <2>1, <2>2, <2>3, <1>1
    <2> QED BY <2>4 DEF t
  <1> QED BY <1>2, <1>3

LEMMA BoundedAppend ==
  ASSUME NEW X, NEW p \in Seq(X), NEW x \in X, Len(p) <= HISTORY_SIZE
  PROVE  AppendBounded(p, x) \in Seq(X) /\ Len(AppendBounded(p, x)) <= HISTORY_SIZE
  <1>1. HISTORY_SIZE \in Nat \ {0}
    BY SizeAssumption
  <1>2. CASE Len(p) < HISTORY_SIZE
    <2>1. Append(p, x) \in Seq(X) /\ Len(Append(p, x)) = Len(p) + 1
      OBVIOUS
    <2> QED BY <2>1, <1>1, <1>2 DEF AppendBounded
  <1>3. CASE ~(Len(p) < HISTORY_SIZE)
    <2> DEFINE u == Tail(p)
    <2>1. p # <<>>
      BY <1>1, <1>3
    <2>2. u \in Seq(X) /\ Len(u) = Len(p) - 1
      BY <2>1
    <2> HIDE DEF u
    <2>3. Append(u, x) \in Seq(X) /\ Len(Append(u, x)) = Len(u) + 1
      BY <2>2
    <2>4. AppendBounded(p, x) = Append(u, x)
      BY <1>3 DEF AppendBounded, u
    <2> QED BY <2>2, <2>3, <2>4, <1>1
  <1> QED BY <1>2, <1>3

LEMMA EmptyHistory == Newest(Points(<<>>), HISTORY_SIZE) = <<>>
  <1> DEFINE P == Points(<<>>)
  <1>1. P \in Seq({P[n] : n \in 1..0}) /\ Len(P) = 0
    <2>1. <<>> \in Seq(Sample)
      OBVIOUS
    <2> QED BY <2>1, PointsLength
  <1> HIDE DEF P
  <1>2. P = <<>>
    BY <1>1
  <1>3. Newest(<<>>, HISTORY_SIZE) = <<>>
    <2>1. ~(Len(<<>>) > HISTORY_SIZE)
      BY SizeAssumption
    <2>2. Newest(<<>>, HISTORY_SIZE) = SubSeq(<<>>, 1, Len(<<>>))
      BY <2>1 DEF Newest
    <2> QED BY <2>2, SubSeqEmpty
  <1> QED BY <1>2, <1>3 DEF P

LEMMA NoLevels ==
  ASSUME clock \in 1..MaxClock, acc = EmptyAcc, history = <<>>, all = <<>>
  PROVE  HistoryInv
  <1>1. HistoryExact
    BY EmptyHistory DEF HistoryExact
  <1>2. MaxClock \in Nat /\ MaxSamples \in Nat /\ HISTORY_SIZE \in Nat /\ TopLevel \in Nat
    BY HistoryBounds, SizeAssumption, LevelAssumption
  <1>3. acc \in [last_sec : 0..MaxClock, count : 0..MaxSamples, sum_power : Nat]
    BY <1>2 DEF EmptyAcc
  <1>4. HistoryTypeOK /\ Len(all) <= MaxSamples
    BY <1>2, <1>3 DEF HistoryTypeOK
  <1>5. acc.sum_power <= acc.count * power[TopLevel]
    <2>1. power[TopLevel] \in Nat
      BY <1>2, PowerDef
    <2> QED BY <2>1 DEF EmptyAcc
  <1> QED BY <1>1, <1>4, <1>5 DEF HistoryInv, AccExact, AccOf

\* Either way a level is received keeps the invariant.
LEMMA LevelReceived ==
  ASSUME HistoryInv, NEW level \in Levels, NewSecond(level) \/ SameSecond(level)
  PROVE  HistoryInv'
  <1> DEFINE x == [sec |-> clock, level |-> level]
             t == Append(all, x)
             b == Current(all)
             n == Len(all)
             top == power[TopLevel]
             HistoryPoint == [timestamp : 1..MaxClock, level : 0..TopLevel]
  <1>1. /\ HistoryTypeOK /\ AccExact /\ HistoryExact
        /\ acc.sum_power <= acc.count * top
    BY DEF HistoryInv
  <1>2. /\ clock \in 1..MaxClock
        /\ acc \in [last_sec : 0..MaxClock, count : 0..MaxSamples, sum_power : Nat]
        /\ history \in Seq(HistoryPoint) /\ Len(history) <= HISTORY_SIZE
        /\ all \in Seq(Sample)
    BY <1>1 DEF HistoryTypeOK
  <1>3. /\ MaxClock \in Nat \ {0} /\ MaxSamples \in Nat \ {0} /\ TopLevel \in Nat
        /\ level \in 0..TopLevel
    BY HistoryBounds, LevelAssumption
  <1>4. all' = t /\ clock' = clock /\ n < MaxSamples
    BY DEF NewSecond, SameSecond, Receive
  <1>5. x \in Sample
    BY <1>2 DEF Sample
  <1>6. /\ t \in Seq(Sample) /\ Len(t) = n + 1 /\ n \in Nat /\ t # <<>>
        /\ t[n + 1] = x /\ \A k \in 1..n : t[k] = all[k]
    <2> HIDE DEF x
    <2> QED BY <1>2, <1>5, AppendProperties
  <1>7. power[level] \in Nat /\ top \in Nat /\ power[level] <= top
    <2>1. level \in Nat /\ TopLevel \in Nat /\ level <= TopLevel
      BY <1>3
    <2> QED BY <2>1, PowerDef, PowerGrows
  <1> HIDE DEF x, top, HistoryPoint
  <1>8. ASSUME all # <<>>
        PROVE  /\ b \in 1..n
               /\ acc.last_sec = all[n].sec /\ all[b].sec = all[n].sec
               /\ acc.count = n - b + 1 /\ acc.count \in Nat \ {0}
               /\ acc.sum_power = Energy(all, b, n) /\ acc.sum_power \in Nat
    <2>1. b \in 1..n
      BY <1>2, <1>8, CurrentIsHere
    <2>2. /\ acc = [last_sec |-> all[n].sec, count |-> n - b + 1, sum_power |-> Energy(all, b, n)]
          /\ all[b].sec = all[n].sec
      BY <1>1, <1>8 DEF AccExact, AccOf
    <2> HIDE DEF b, n
    <2>3. acc.last_sec = all[n].sec /\ acc.count = n - b + 1 /\ acc.sum_power = Energy(all, b, n)
      BY <2>2
    <2>4. n - b + 1 \in Nat \ {0}
      BY <2>1, <1>6
    <2>5. acc.sum_power \in Nat
      BY <1>2
    <2> QED BY <2>1, <2>2, <2>3, <2>4, <2>5
  <1>9. all = <<>> => acc.count = 0 /\ acc.last_sec = 0
    BY <1>1 DEF AccExact, AccOf, EmptyAcc
  <1>10. NewSecond(level) <=> BeginsSecond(all, x)
    <2>1. x.sec = clock
      BY DEF x
    <2>2. CASE all = <<>>
      <3>1. clock # acc.last_sec
        BY <2>2, <1>2, <1>3, <1>9
      <3>2. ~SameSecond(level)
        BY <3>1 DEF SameSecond
      <3> QED BY <2>2, <3>2 DEF BeginsSecond
    <2>3. CASE all # <<>>
      <3>1. BeginsSecond(all, x) <=> acc.last_sec # clock
        BY <2>1, <2>3, <1>8 DEF BeginsSecond
      <3> QED BY <3>1 DEF NewSecond, SameSecond
    <2> QED BY <2>2, <2>3
  <1> HIDE DEF t
  <1>11. ASSUME history' \in Seq(HistoryPoint), Len(history') <= HISTORY_SIZE,
                acc' \in [last_sec : 0..MaxClock, count : 0..MaxSamples, sum_power : Nat],
                acc'.sum_power <= acc'.count * top, AccExact', HistoryExact'
         PROVE  HistoryInv'
    <2>1. all' \in Seq(Sample) /\ Len(all') <= MaxSamples /\ clock' \in 1..MaxClock
      BY <1>2, <1>3, <1>4, <1>6
    <2>2. HistoryTypeOK'
      BY <2>1, <1>11 DEF HistoryTypeOK, HistoryPoint
    <2> QED BY <2>1, <2>2, <1>11 DEF HistoryInv, top
  <1>12. t[Current(t)].sec = t[Len(t)].sec
    BY <1>1, <1>2, <1>5, SecondAppend DEF AccExact, t
  <1>13. CASE NewSecond(level)
    <2>1. acc' = [last_sec |-> clock, count |-> 1, sum_power |-> power[level]]
      BY <1>13 DEF NewSecond, Begin
    <2>2. AccExact'
      <3>1. acc' = AccOf(t)
        BY <2>1, <1>2, <1>5, <1>10, <1>13, AccAppend DEF t, x
      <3> QED BY <3>1, <1>4, <1>12 DEF AccExact
    <2>3. acc'.sum_power <= acc'.count * top
      BY <2>1, <1>7
    <2>4. acc' \in [last_sec : 0..MaxClock, count : 0..MaxSamples, sum_power : Nat]
      <3>1. clock \in 0..MaxClock /\ 1 \in 0..MaxSamples
        BY <1>2, <1>3
      <3> QED BY <2>1, <3>1, <1>7
    <2>5. CASE all = <<>>
      <3>1. history' = history /\ history = <<>>
        <4>1. history = <<>>
          BY <1>1, <2>5, EmptyHistory DEF HistoryExact
        <4> QED BY <4>1, <1>13, <1>9, <2>5 DEF NewSecond
      <3>2. Points(t) = <<>>
        <4>1. Cardinality(Starts(t)) = 1
          <5>1. Cardinality(Starts(all)) = 0
            BY <2>5, NoStarts, FS_EmptySet
          <5>2. Cardinality(Starts(t)) = Cardinality(Starts(all)) + 1
            BY <1>2, <1>5, <1>10, <1>13, AllEnumerated, StartAppend DEF t
          <5> QED BY <5>1, <5>2
        <4>2. Points(t) \in Seq({Points(t)[k] : k \in 1..0}) /\ Len(Points(t)) = 0
          <5> DEFINE m == IF t = <<>> THEN 0 ELSE Cardinality(Starts(t)) - 1
          <5>1. m = 0
            BY <4>1, <1>6
          <5>2. Points(t) \in Seq({Points(t)[k] : k \in 1..m}) /\ Len(Points(t)) = m
            BY <1>6, PointsLength
          <5> HIDE DEF m
          <5> QED BY <5>1, <5>2
        <4> DEFINE P == Points(t)
                   X == {P[k] : k \in 1..0}
        <4> HIDE DEF P, X
        <4>3. P \in Seq(X) /\ Len(P) = 0
          BY <4>2 DEF P, X
        <4>4. P = <<>>
          BY <4>3
        <4> QED BY <4>4 DEF P
      <3>3. Points(<<>>) = <<>>
        <4> DEFINE P == Points(<<>>)
                   X == {P[k] : k \in 1..0}
        <4>1. <<>> \in Seq(Sample)
          OBVIOUS
        <4>2. P \in Seq(X) /\ Len(P) = 0
          BY <4>1, PointsLength
        <4> HIDE DEF P, X
        <4>3. P = <<>>
          BY <4>2
        <4> QED BY <4>3 DEF P
      <3>4. HistoryExact'
        BY <3>1, <3>2, <3>3, <1>4, EmptyHistory DEF HistoryExact
      <3> QED BY <3>1, <3>4, <2>2, <2>3, <2>4, <1>2, <1>11
    <2>6. CASE all # <<>>
      <3> DEFINE p == Point(acc.last_sec, acc.sum_power, acc.count)
      <3>1. p \in HistoryPoint
        <4>1. \E k \in 0..TopLevel : IsMean(k, acc.sum_power, acc.count)
          BY <1>1, <1>8, <2>6, MeanExists DEF top
        <4>2. (CHOOSE k \in 0..TopLevel : IsMean(k, acc.sum_power, acc.count)) \in 0..TopLevel
          BY <4>1
        <4>3. acc.last_sec \in 1..MaxClock
          <5>1. all[n] \in Sample
            BY <1>2, <1>6, <1>8, <2>6
          <5> QED BY <5>1, <1>8, <2>6 DEF Sample
        <4> QED BY <4>2, <4>3 DEF Point, HistoryPoint
      <3>2. history' = AppendBounded(history, p)
        BY <1>8, <1>13, <2>6 DEF NewSecond
      <3>3. history' \in Seq(HistoryPoint) /\ Len(history') <= HISTORY_SIZE
        BY <3>1, <3>2, <1>2, BoundedAppend
      <3>4. Points(t) = Append(Points(all), p)
        <4>1. Points(t) = Append(Points(all), PointFrom(all, b, n + 1))
          BY <1>2, <1>5, <1>10, <1>13, <2>6, PointsAppend DEF t, Current
        <4>2. PointFrom(all, b, n + 1) = p
          <5>1. PointFrom(all, b, n + 1) = Point(all[b].sec, Energy(all, b, n), n - b + 1)
            BY <1>2, <1>8, <2>6, CurrentPoint
          <5> QED BY <5>1, <1>8, <2>6
        <4> QED BY <4>1, <4>2
      <3>5. HistoryExact'
        <4> DEFINE P == Points(all)
                   X == {P[k] : k \in 1..Cardinality(Starts(all)) - 1} \cup {p}
        <4>1. P \in Seq({P[k] : k \in 1..Cardinality(Starts(all)) - 1})
          BY <1>2, <2>6, PointsLength
        <4>2. {P[k] : k \in 1..Cardinality(Starts(all)) - 1} \subseteq X /\ p \in X
          OBVIOUS
        <4> HIDE DEF X
        <4>3. P \in Seq(X)
          BY <4>1, <4>2, SeqMonotonic
        <4> HIDE DEF P, p
        <4>4. Newest(Append(P, p), HISTORY_SIZE) = AppendBounded(Newest(P, HISTORY_SIZE), p)
          BY <4>2, <4>3, NewestAppend
        <4>5. history' = Newest(Points(t), HISTORY_SIZE)
          BY <4>4, <3>2, <3>4, <1>1 DEF HistoryExact, P
        <4> QED BY <4>5, <1>4 DEF HistoryExact
      <3> QED BY <3>3, <3>5, <2>2, <2>3, <2>4, <1>11
    <2> QED BY <2>5, <2>6
  <1>14. CASE SameSecond(level) /\ ~NewSecond(level)
    <2>1. all # <<>> /\ x.sec = all[n].sec
      BY <1>10, <1>14 DEF BeginsSecond
    <2>2. /\ acc' = [acc EXCEPT !.count = @ + 1, !.sum_power = @ + power[level]]
          /\ history' = history /\ clock = acc.last_sec
      BY <1>14 DEF SameSecond
    <2>3. acc' = [last_sec |-> clock, count |-> acc.count + 1, sum_power |-> acc.sum_power + power[level]]
      BY <2>2, <1>2
    <2>4. AccExact'
      <3>1. acc' = AccOf(t)
        <4>1. acc = AccOf(all) /\ x.sec = clock /\ x.level = level
          BY <1>1 DEF AccExact, x
        <4>2. AccOf(t) = [last_sec |-> x.sec, count |-> AccOf(all).count + 1,
                          sum_power |-> AccOf(all).sum_power + power[x.level]]
          BY <1>2, <1>5, <1>10, <1>14, AccAppend DEF t
        <4> QED BY <2>3, <4>1, <4>2
      <3> QED BY <3>1, <1>4, <1>12 DEF AccExact
    <2>5. acc'.sum_power <= acc'.count * top
      <3> DEFINE c == acc.count
                 s == acc.sum_power
      <3>1. c \in Nat /\ s \in Nat /\ s <= c * top
        BY <1>1, <1>8, <2>1
      <3>2. acc'.sum_power = s + power[level] /\ acc'.count = c + 1
        BY <2>3
      <3> HIDE DEF c, s
      <3>3. (c + 1) * top = c * top + top /\ c * top \in Nat
        BY <3>1, <1>7
      <3> QED BY <3>1, <3>2, <3>3, <1>7
    <2>6. acc' \in [last_sec : 0..MaxClock, count : 0..MaxSamples, sum_power : Nat]
      <3>1. acc.count + 1 \in 0..MaxSamples
        <4>1. b \in 1..n /\ acc.count = n - b + 1
          BY <1>8, <2>1
        <4> HIDE DEF b
        <4> QED BY <4>1, <1>3, <1>4, <1>6
      <3>2. acc.sum_power + power[level] \in Nat
        BY <1>7, <1>8, <2>1
      <3>3. clock \in 0..MaxClock
        BY <1>2
      <3> QED BY <2>3, <3>1, <3>2, <3>3
    <2>7. Points(t) = Points(all)
      BY <1>2, <1>5, <1>10, <1>14, PointsSame DEF t
    <2>8. HistoryExact'
      BY <2>2, <2>7, <1>1, <1>4 DEF HistoryExact
    <2> QED BY <2>2, <2>4, <2>5, <2>6, <2>8, <1>2, <1>11
  <1> QED BY <1>13, <1>14

LEMMA HistoryKept ==
  ASSUME HistoryInv, UNCHANGED <<acc, history, all>>, clock' \in 1..MaxClock
  PROVE  HistoryInv'
  BY DEF HistoryInv, HistoryTypeOK, AccExact, HistoryExact

LEMMA HistoryInvStep == HistoryInv /\ [HistoryNext]_historyVars => HistoryInv'
  <1> SUFFICES ASSUME HistoryInv, [HistoryNext]_historyVars PROVE HistoryInv'
    OBVIOUS
  <1>1. clock \in 1..MaxClock /\ MaxClock \in Nat
    BY HistoryBounds DEF HistoryInv, HistoryTypeOK
  <1>2. ASSUME NEW level \in Levels, NewSecond(level) \/ SameSecond(level) PROVE HistoryInv'
    BY <1>2, LevelReceived
  <1>3. CASE ForgetHistory
    <2>1. acc' = EmptyAcc /\ history' = <<>> /\ all' = <<>> /\ clock' \in 1..MaxClock
      BY <1>1, <1>3 DEF ForgetHistory
    <2>2. (clock \in 1..MaxClock /\ acc = EmptyAcc /\ history = <<>> /\ all = <<>> => HistoryInv)'
      BY NoLevels, PTL
    <2> QED BY <2>1, <2>2 DEF EmptyAcc
  <1>4. CASE HistoryTick
    <2>1. clock' \in 1..MaxClock
      BY <1>1, <1>4 DEF HistoryTick
    <2> QED BY <2>1, <1>4, HistoryKept DEF HistoryTick
  <1>5. CASE SetBack
    <2>1. clock' \in 1..MaxClock
      BY <1>1, <1>5 DEF SetBack
    <2> QED BY <2>1, <1>5, HistoryKept DEF SetBack
  <1>6. CASE UNCHANGED historyVars
    BY <1>1, <1>6, HistoryKept DEF historyVars
  <1> QED BY <1>2, <1>3, <1>4, <1>5, <1>6 DEF HistoryNext

(***************************************************************************)
(* In every state, the accumulator holds exactly the levels of the second  *)
(* that has not ended and the history exactly the means of those before.   *)
(***************************************************************************)
THEOREM HistoryInvariant == HistorySpec => []HistoryInv
  <1>1. HistoryInit => HistoryInv
    BY NoLevels DEF HistoryInit
  <1> QED BY <1>1, HistoryInvStep, PTL DEF HistorySpec

(***************************************************************************)
(* Whatever levels arrive, every point of the history is a level between   *)
(* the lowest and full scale, and there are at most HISTORY_SIZE.          *)
(***************************************************************************)
THEOREM HistoryTypeCorrect == HistorySpec => []HistoryTypeOK
  <1>1. HistoryInv => HistoryTypeOK
    BY DEF HistoryInv
  <1> QED BY <1>1, HistoryInvariant, PTL

(***************************************************************************)
(* The history is the newest HISTORY_SIZE means of all seconds that have   *)
(* ended, for any levels, any size and any clock, set back or not.         *)
(***************************************************************************)
THEOREM HistoryIsExact == HistorySpec => []HistoryExact
  <1>1. HistoryInv => HistoryExact
    BY DEF HistoryInv
  <1> QED BY <1>1, HistoryInvariant, PTL

=============================================================================
