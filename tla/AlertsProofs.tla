---------------------------- MODULE AlertsProofs ----------------------------
(***************************************************************************)
(* Theorems about Alerts, for any nodes, rules, channels, threads, rule    *)
(* settings and durations.                                                 *)
(***************************************************************************)
EXTENDS Alerts, FiniteSetTheorems, SequenceTheorems, TLAPS

\* The part of the type invariant that the theorems need.
TablesOK ==
  /\ rules \in [Rules -> Configs \cup {None}]
  /\ channels \in [Channels -> {"none", "on", "off", "deleted"}]
  /\ ruleChannels \in [Rules -> SUBSET Channels]
  /\ mqTodo \in [Rules -> Configs \cup {None}]
  /\ httpRule \in [Callers -> Rules \cup {None}]
  /\ httpChannels \in [Callers -> SUBSET Channels]
  /\ lateFirings \in [Rules -> Nat]

\* A rule that is off but still to be evaluated has not fired since it was
\* switched off: it leaves mqTodo when it fires, and comes back only while on.
TodoOK == \A r \in Rules : mqTodo[r] # None /\ ~On(r) => lateFirings[r] = 0

AInv == TablesOK /\ OneLateFiring /\ TodoOK /\ References

LEMMA InitAInv == Init => AInv
  BY AlertAssumption
  DEF Init, AInv, TablesOK, OneLateFiring, TodoOK, References, NoTodo

LEMMA FireKeeps == ASSUME AInv, NEW r \in Rules, Fire(r) PROVE AInv'
  <1> USE DEF AInv, TablesOK
  <1>1. TablesOK'
    BY DEF Fire, Breach, dbVars, httpVars
  <1>2. mqTodo' = [mqTodo EXCEPT ![r] = None] /\ mqTodo[r] # None
    BY DEF Fire, Breach, Turn
  <1>3. UNCHANGED <<rules, channels, ruleChannels, logged>>
    BY DEF Fire, Breach, dbVars
  <1>4. lateFirings' = [lateFirings EXCEPT ![r] = IF On(r) THEN 0 ELSE @ + 1]
    BY DEF Fire
  <1>5. OneLateFiring'
    BY <1>2, <1>4 DEF OneLateFiring, TodoOK
  <1>6. TodoOK'
    BY <1>2, <1>3, <1>4 DEF TodoOK, On
  <1>7. References'
    BY <1>3 DEF References
  <1> QED BY <1>1, <1>5, <1>6, <1>7

LEMMA UpsertKeeps ==
  ASSUME AInv, NEW h \in Callers, NEW r \in Rules, NEW config \in Configs,
         NEW ticked \in SUBSET Channels, UpsertRule(h, r, config, ticked)
  PROVE  AInv'
  <1> USE DEF AInv, TablesOK, UpsertRule
  <1>1. rules' = rules \/ rules' = [rules EXCEPT ![r] = config]
    OBVIOUS
  <1>2. lateFirings' = lateFirings \/ lateFirings' = [lateFirings EXCEPT ![r] = 0]
    BY DEF SwitchedOff
  <1>3. TablesOK'
    BY <1>1, <1>2 DEF mqVars
  <1>4. OneLateFiring'
    BY <1>2 DEF OneLateFiring
  <1>5. TodoOK'
    <2>1. CASE config.enabled
      BY <2>1, <1>1, AlertAssumption DEF TodoOK, On, mqVars
    <2>2. CASE ~config.enabled
      BY <2>2, <1>1 DEF TodoOK, On, SwitchedOff, mqVars
    <2> QED BY <2>1, <2>2
  <1>6. References'
    BY <1>1, AlertAssumption DEF References
  <1> QED BY <1>3, <1>4, <1>5, <1>6

LEMMA DeleteKeeps == ASSUME AInv, NEW r \in Rules, DeleteRule(r) PROVE AInv'
  BY AlertAssumption
  DEF AInv, TablesOK, OneLateFiring, TodoOK, On, References, DeleteRule, SwitchedOff,
      mqVars, httpVars

LEMMA NextAInv == AInv /\ [Next]_vars => AInv'
  <1> SUFFICES ASSUME AInv, [Next]_vars PROVE AInv'
    OBVIOUS
  <1> USE DEF AInv, TablesOK, OneLateFiring, TodoOK, On, References
  <1>1. ASSUME NEW n \in Nodes, Evaluate(n) PROVE AInv'
    BY <1>1 DEF Evaluate, dbVars, httpVars, histVars
  <1>2. ASSUME NEW n \in Nodes, RoomChanges(n) PROVE AInv'
    BY <1>2 DEF RoomChanges, dbVars, mqVars, httpVars, histVars
  <1>3. ASSUME NEW r \in Rules, Skip(r) \/ Quiet(r) \/ Hold(r) PROVE AInv'
    BY <1>3 DEF Skip, Quiet, Hold, Breach, dbVars, httpVars, histVars
  <1>4. ASSUME NEW r \in Rules, Fire(r) PROVE AInv'
    BY <1>4, FireKeeps
  <1>5. CASE Evaluated
    BY <1>5 DEF Evaluated, dbVars, httpVars, histVars
  <1>6. ASSUME NEW t \in Threads, Dispatch(t) PROVE AInv'
    BY <1>6 DEF Dispatch, NoChannels, Send, LogAlert, dbVars, mqVars, httpVars, histVars
  <1>7. ASSUME NEW h \in Callers, NEW r \in Rules, NEW config \in Configs,
               NEW ticked \in SUBSET Channels, UpsertRule(h, r, config, ticked)
        PROVE  AInv'
    BY <1>7, UpsertKeeps
  <1>8. ASSUME NEW h \in Callers, SetRuleChannels(h) PROVE AInv'
    BY <1>8, AlertAssumption DEF SetRuleChannels, mqVars, histVars
  <1>9. ASSUME NEW r \in Rules, DeleteRule(r) PROVE AInv'
    BY <1>9, DeleteKeeps
  <1>10. ASSUME NEW c \in Channels, NEW state \in {"on", "off"}, UpsertChannel(c, state)
         PROVE  AInv'
    BY <1>10 DEF UpsertChannel, mqVars, httpVars, histVars
  <1>11. ASSUME NEW c \in Channels, DeleteChannel(c) PROVE AInv'
    BY <1>11 DEF DeleteChannel, mqVars, httpVars, histVars
  <1>12. CASE Tick
    BY <1>12 DEF Tick, dbVars, mqVars, httpVars
  <1>13. CASE Restart
    BY <1>13 DEF Restart, dbVars, NoTodo
  <1>14. CASE UNCHANGED vars
    BY <1>14 DEF vars, dbVars, mqVars, httpVars, histVars
  <1> QED
    BY <1>1, <1>2, <1>3, <1>4, <1>5, <1>6, <1>7, <1>8, <1>9, <1>10, <1>11, <1>12,
       <1>13, <1>14 DEF Next, MqttStep

(***************************************************************************)
(* However a rule is edited while messages are evaluated, once it is       *)
(* switched off or deleted it fires at most once more.                     *)
(***************************************************************************)
THEOREM LateFiringsBounded == Spec => []OneLateFiring
  <1>1. AInv => OneLateFiring
    BY DEF AInv
  <1> QED BY <1>1, InitAInv, NextAInv, PTL DEF Spec

(***************************************************************************)
(* The tables never refer to a rule or channel that is gone.               *)
(***************************************************************************)
THEOREM ReferencesHold == Spec => []References
  <1>1. AInv => References
    BY DEF AInv
  <1> QED BY <1>1, InitAInv, NextAInv, PTL DEF Spec

-----------------------------------------------------------------------------
(* Types, and the order of the breach times *)

\* A dispatch thread that runs has a rule.
ThreadsOK == \A t \in Threads : thread[t].pc # "idle" => thread[t].rule \in Rules

Ages == 0..Window + 1

\* In the order of time, the newest last.
Ordered(s) == \A i, j \in 1..Len(s) : i < j => s[i] >= s[j]

\* One rule's breach times, as TypeOK has them, in order.
TimesOK(s) == s \in Seq(Ages) /\ Len(s) <= RepeatCount /\ Ordered(s)

\* The type invariant without the breach times.
RestOK ==
  /\ TablesOK
  /\ nextRule \in Nat
  /\ logged \subseteq Rules
  /\ since \in [Rules -> 0..Duration \cup {None}]
  /\ lastFired \in [Rules -> 0..Cooldown]
  /\ count \in [Rules -> 0..Every - 1]
  /\ room \in [Nodes -> {"loud", "quiet"}]
  /\ mqNode \in Nodes \cup {None}
  /\ thread \in [Threads -> [pc : {"idle", "channels", "log"}, rule : Rules \cup {None},
                             sent : SUBSET Channels]]
  /\ sinceFire \in [Rules -> 0..Cooldown]
  /\ sinceCount \in [Rules -> 1..Every]

AllTimesOK == DOMAIN times = Rules /\ \A r \in Rules : TimesOK(times[r])

TInv == RestOK /\ mqLoud \in BOOLEAN /\ ThreadsOK /\ AllTimesOK

LEMMA Limits == /\ Duration \in Nat /\ Duration > 0 /\ Window \in Nat /\ Window > 0
                /\ RepeatCount \in Nat /\ RepeatCount > 0
                /\ Cooldown \in Nat /\ Cooldown > 0 /\ Every \in Nat /\ Every > 0
                /\ None \notin Nat
  BY AlertAssumption

\* An age grows up to its limit.
LEMMA OlderType == ASSUME NEW limit \in Nat, NEW age \in 0..limit
                   PROVE  Older(age, limit) \in 0..limit
  BY DEF Older

LEMMA OlderOrder == ASSUME NEW limit \in Nat, NEW a \in 0..limit, NEW b \in 0..limit, a >= b
                    PROVE  Older(a, limit) >= Older(b, limit)
  BY DEF Older

\* The breaches in the window are counted, and they are the last ones.
LEMMA RecentLast ==
  ASSUME NEW r \in Rules, TimesOK(times[r])
  PROVE  /\ Recent(r) \in 0..Len(times[r])
         /\ \A i \in 1..Len(times[r]) :
              times[r][i] <= Window <=> i > Len(times[r]) - Recent(r)
  <1> DEFINE s == times[r]
             n == Len(s)
             R == {i \in 1..n : s[i] <= Window}
             c == Cardinality(R)
  <1>1. /\ n \in Nat /\ DOMAIN s = 1..n
        /\ \A i \in 1..n : s[i] \in Ages
    BY LenProperties, ElementOfSeq DEF TimesOK
  <1>2. Recent(r) = c
    BY <1>1 DEF Recent
  <1>3. \A i, j \in 1..n : i < j => s[i] >= s[j]
    BY DEF TimesOK, Ordered
  <1> HIDE DEF s, n
  <1>4. R \subseteq 1..n /\ IsFiniteSet(1..n) /\ Cardinality(1..n) = n
    BY <1>1, FS_Interval
  <1>5. IsFiniteSet(R) /\ c \in 0..n
    BY <1>1, <1>4, FS_Subset, FS_CardinalityType
  <1>6. ASSUME NEW i \in 1..n, s[i] <= Window PROVE i > n - c
    <2>1. i..n \subseteq R
      BY <1>1, <1>3, <1>6, Limits DEF Ages
    <2>2. IsFiniteSet(i..n) /\ Cardinality(i..n) = n - i + 1
      BY <1>1, FS_Interval
    <2>3. Cardinality(i..n) <= c
      BY <1>5, <2>1, FS_Subset
    <2> QED BY <1>1, <1>5, <2>2, <2>3
  <1>7. ASSUME NEW i \in 1..n, ~(s[i] <= Window) PROVE ~(i > n - c)
    <2>1. R \subseteq i + 1..n
      BY <1>1, <1>3, <1>7, Limits DEF Ages
    <2>2. IsFiniteSet(i + 1..n) /\ Cardinality(i + 1..n) = n - i
      BY <1>1, FS_Interval
    <2>3. c <= Cardinality(i + 1..n)
      BY <2>1, <2>2, FS_Subset
    <2> QED BY <1>1, <1>5, <2>2, <2>3
  <1> HIDE DEF R
  <1> QED BY <1>2, <1>5, <1>6, <1>7 DEF s, n

\* Pruning and appending keep the breach times typed, bounded and in order.
LEMMA BreachesOK == ASSUME NEW r \in Rules, TimesOK(times[r]) PROVE TimesOK(Breaches(r))
  <1> DEFINE s == times[r]
             last == Len(s)
             kept == IF Recent(r) < RepeatCount THEN Recent(r) ELSE RepeatCount - 1
             m == last - kept + 1
             b == SubSeq(s, m, last)
             c == Append(b, 0)
  <1>1. /\ last \in Nat /\ kept \in 0..RepeatCount - 1 /\ m \in 1..last + 1
        /\ last - m + 1 = kept
    <2>1. Recent(r) \in 0..last
      BY RecentLast
    <2>2. last \in Nat
      BY LenProperties DEF TimesOK
    <2> HIDE DEF last
    <2> QED BY <2>1, <2>2, Limits
  <1>2. s \in Seq(Ages) /\ \A i, j \in 1..last : i < j => s[i] >= s[j]
    BY DEF TimesOK, Ordered
  <1>3. Breaches(r) = c
    BY DEF Breaches
  <1> HIDE DEF s, last, kept, m
  <1>4. \A i \in m..last : s[i] \in Ages
    <2>1. m..last \subseteq 1..last
      BY <1>1
    <2> QED BY <1>2, <2>1, ElementOfSeq DEF last
  <1>5. b \in Seq(Ages) /\ Len(b) = kept /\ \A i \in 1..kept : b[i] = s[m + i - 1]
    <2>1. /\ b \in Seq(Ages) /\ Len(b) = IF m <= last THEN last - m + 1 ELSE 0
          /\ \A i \in 1..last - m + 1 : b[i] = s[m + i - 1]
      <3>1. m \in Int /\ last \in Int
        BY <1>1
      <3> QED BY <1>4, <3>1, SubSeqProperties
    <2> QED BY <1>1, <2>1
  <1>6. \A i, j \in 1..kept : i < j => b[i] >= b[j]
    <2> SUFFICES ASSUME NEW i \in 1..kept, NEW j \in 1..kept, i < j PROVE b[i] >= b[j]
      OBVIOUS
    <2>1. m + i - 1 \in 1..last /\ m + j - 1 \in 1..last /\ m + i - 1 < m + j - 1
      BY <1>1
    <2>2. s[m + i - 1] >= s[m + j - 1]
      BY <1>2, <2>1
    <2> QED BY <1>5, <2>2
  <1>7. \A i \in 1..kept : b[i] \in Ages
    BY <1>5, ElementOfSeq
  <1> HIDE DEF b
  <1>8. 0 \in Ages
    BY Limits DEF Ages
  <1>9. /\ c \in Seq(Ages) /\ Len(c) = kept + 1 /\ c[kept + 1] = 0
        /\ \A i \in 1..kept : c[i] = b[i]
    BY <1>5, <1>8, AppendProperties
  <1> HIDE DEF c
  <1>10. Len(c) <= RepeatCount
    BY <1>1, <1>9, Limits
  <1>11. ASSUME NEW i \in 1..kept + 1, NEW j \in 1..kept + 1, i < j PROVE c[i] >= c[j]
    <2>1. i \in 1..kept /\ (j \in 1..kept \/ j = kept + 1)
      BY <1>1, <1>11
    <2>2. c[i] = b[i] /\ b[i] \in Nat
      BY <1>7, <1>9, <2>1 DEF Ages
    <2>3. CASE j \in 1..kept
      BY <1>6, <1>9, <1>11, <2>1, <2>3
    <2>4. CASE j = kept + 1
      BY <1>9, <2>2, <2>4
    <2> QED BY <2>1, <2>3, <2>4
  <1> QED BY <1>3, <1>9, <1>10, <1>11 DEF TimesOK, Ordered

LEMMA NoBreaches == TimesOK(<<>>)
  BY Limits DEF TimesOK, Ordered

\* Breach times a tick later.
LEMMA OlderBreaches ==
  ASSUME NEW s, TimesOK(s)
  PROVE  TimesOK([i \in DOMAIN s |-> Older(s[i], Window + 1)])
  <1> DEFINE n == Len(s)
             u == [i \in DOMAIN s |-> Older(s[i], Window + 1)]
  <1>1. /\ n \in Nat /\ DOMAIN s = 1..n /\ n <= RepeatCount
        /\ \A i \in 1..n : s[i] \in 0..Window + 1
    BY LenProperties, ElementOfSeq DEF TimesOK, Ages
  <1>2. \A i, j \in 1..n : i < j => s[i] >= s[j]
    BY DEF TimesOK, Ordered
  <1>3. Window + 1 \in Nat
    BY Limits
  <1> HIDE DEF n
  <1>4. u \in [1..n -> Ages]
    BY <1>1, <1>3, OlderType DEF Ages
  <1>5. u \in Seq(Ages) /\ Len(u) = n
    BY <1>1, <1>4
  <1>6. ASSUME NEW i \in 1..n, NEW j \in 1..n, i < j PROVE u[i] >= u[j]
    <2>1. u[i] = Older(s[i], Window + 1) /\ u[j] = Older(s[j], Window + 1)
      BY <1>1
    <2>2. s[i] >= s[j]
      BY <1>2, <1>6
    <2> HIDE DEF u
    <2>3. Older(s[i], Window + 1) >= Older(s[j], Window + 1)
      BY <1>1, <1>3, <2>2, OlderOrder
    <2> QED BY <2>1, <2>3
  <1> HIDE DEF u
  <1>7. TimesOK(u)
    BY <1>1, <1>5, <1>6 DEF TimesOK, Ordered
  <1> QED BY <1>7 DEF u

LEMMA TInvInit == Init => TInv
  <1> SUFFICES ASSUME Init PROVE TInv
    OBVIOUS
  <1>1. TablesOK
    BY InitAInv DEF AInv
  <1>2. mqLoud \in BOOLEAN
    BY Zenon DEF Init
  <1>3. RestOK
    BY <1>1, Limits DEF Init, RestOK, FreshBreach, Idle
  <1>4. ThreadsOK
    BY DEF Init, ThreadsOK, Idle
  <1>5. AllTimesOK
    BY NoBreaches DEF Init, FreshBreach, AllTimesOK
  <1> QED BY <1>2, <1>3, <1>4, <1>5 DEF TInv

\* A step that leaves these variables alone.
LEMMA SameTimes == ASSUME TInv, UNCHANGED times PROVE AllTimesOK'
  BY DEF TInv, AllTimesOK

LEMMA SameThreads == ASSUME TInv, UNCHANGED thread PROVE ThreadsOK'
  BY DEF TInv, ThreadsOK

LEMMA TablesNext == AInv /\ [Next]_vars => TablesOK'
  BY NextAInv DEF AInv

\* A loud message for a rule, fired or not.
LEMMA BreachType == ASSUME TInv, NEW r \in Rules, NEW fired \in BOOLEAN, Breach(r, fired)
                    PROVE  /\ since' \in [Rules -> 0..Duration \cup {None}]
                           /\ count' \in [Rules -> 0..Every - 1]
                           /\ sinceCount' \in [Rules -> 1..Every]
                           /\ AllTimesOK'
  <1> USE DEF TInv, RestOK
  <1>1. since' \in [Rules -> 0..Duration \cup {None}]
    BY Limits DEF Breach
  <1>2. count' \in [Rules -> 0..Every - 1]
    <2>1. (count[r] + 1) % Every \in 0..Every - 1
      BY Limits
    <2>2. count' = [count EXCEPT ![r] = (count[r] + 1) % Every]
      BY DEF Breach
    <2> QED BY <2>1, <2>2
  <1>3. AllTimesOK'
    <2>1. TimesOK(times[r]) /\ TimesOK(Breaches(r)) /\ TimesOK(<<>>)
      BY BreachesOK, NoBreaches DEF AllTimesOK
    <2>2. PICK s : TimesOK(s) /\ times' = [times EXCEPT ![r] = s]
      <3>1. times' = [times EXCEPT ![r] = times[r]]
            \/ times' = [times EXCEPT ![r] = <<>>] \/ times' = [times EXCEPT ![r] = Breaches(r)]
        BY DEF Breach
      <3> QED BY <2>1, <3>1
    <2> QED BY <2>2 DEF AllTimesOK
  <1>4. sinceCount' \in [Rules -> 1..Every]
    <2>1. Older(sinceCount[r], Every) \in 1..Every /\ 1 \in 1..Every
      BY Limits DEF Older
    <2> QED BY <2>1 DEF Breach
  <1> QED BY <1>1, <1>2, <1>3, <1>4

LEMMA TInvMqtt == ASSUME TInv, TablesOK', MqttStep PROVE TInv'
  <1> USE DEF TInv, RestOK
  <1>1. ASSUME NEW r \in Rules, Skip(r) PROVE TInv'
    BY <1>1, SameTimes, SameThreads DEF Skip, dbVars, breachVars, httpVars, histVars
  <1>2. ASSUME NEW r \in Rules, Quiet(r) PROVE TInv'
    BY <1>2, SameTimes, SameThreads DEF Quiet, dbVars, httpVars, histVars
  <1>3. ASSUME NEW r \in Rules, Hold(r) PROVE TInv'
    <2>1. Breach(r, FALSE) /\ UNCHANGED <<lastFired, thread, sinceFire>>
      BY <1>3 DEF Hold
    <2>2. UNCHANGED <<dbVars, room, mqNode, mqLoud>>
      BY <2>1 DEF Breach
    <2> QED BY <2>1, <2>2, BreachType, SameThreads DEF dbVars
  <1>4. ASSUME NEW r \in Rules, Fire(r) PROVE TInv'
    <2>1. Breach(r, TRUE)
      BY <1>4 DEF Fire
    <2>2. UNCHANGED <<dbVars, room, mqNode, mqLoud>>
      BY <2>1 DEF Breach
    <2>3. PICK t \in Threads :
            thread' = [thread EXCEPT ![t] = [pc |-> "channels", rule |-> r, sent |-> {}]]
      BY <1>4 DEF Fire
    <2>4. /\ thread' \in [Threads -> [pc : {"idle", "channels", "log"}, rule : Rules \cup {None},
                                     sent : SUBSET Channels]]
          /\ ThreadsOK'
      BY <2>3 DEF ThreadsOK
    <2>5. /\ lastFired' \in [Rules -> 0..Cooldown] /\ sinceFire' \in [Rules -> 0..Cooldown]
      BY <1>4, Limits DEF Fire
    <2> QED BY <2>1, <2>2, <2>4, <2>5, BreachType DEF dbVars
  <1>5. CASE Evaluated
    <2>1. mqLoud' \in BOOLEAN
      BY <1>5, Zenon DEF Evaluated
    <2> QED BY <1>5, <2>1, SameTimes, SameThreads DEF Evaluated, dbVars, breachVars, httpVars, histVars
  <1> QED BY <1>1, <1>2, <1>3, <1>4, <1>5 DEF MqttStep

LEMMA TInvDispatch == ASSUME TInv, TablesOK', NEW t \in Threads, Dispatch(t) PROVE TInv'
  <1> USE DEF TInv, RestOK
  <1>1. CASE NoChannels(t)
    BY <1>1, SameTimes DEF NoChannels, ThreadsOK, Idle, dbVars, breachVars, mqVars, histVars
  <1>2. ASSUME NEW ok \in SUBSET Channels, Send(t, ok) PROVE TInv'
    BY <1>2, SameTimes DEF Send, ThreadsOK, dbVars, breachVars, mqVars, histVars
  <1>3. CASE LogAlert(t)
    BY <1>3, SameTimes DEF LogAlert, ThreadsOK, Idle, breachVars, mqVars, histVars
  <1> QED BY <1>1, <1>2, <1>3 DEF Dispatch

LEMMA TInvTick == ASSUME TInv, TablesOK', Tick PROVE TInv'
  <1> USE DEF TInv, RestOK
  <1>1. AllTimesOK'
    BY OlderBreaches DEF Tick, AllTimesOK
  <1>2. since' \in [Rules -> 0..Duration \cup {None}]
    <2>1. ASSUME NEW r \in Rules PROVE MaybeOlder(since[r], Duration) \in 0..Duration \cup {None}
      BY Limits, OlderType DEF MaybeOlder
    <2> QED BY <2>1 DEF Tick
  <1>3. /\ lastFired' \in [Rules -> 0..Cooldown] /\ sinceFire' \in [Rules -> 0..Cooldown]
    BY Limits, OlderType DEF Tick
  <1> QED BY <1>1, <1>2, <1>3, SameThreads DEF Tick, dbVars, mqVars

LEMMA TInvNext == TInv /\ AInv /\ [Next]_vars => TInv'
  <1> SUFFICES ASSUME TInv, AInv, [Next]_vars PROVE TInv'
    OBVIOUS
  <1> TablesOK'
    BY TablesNext
  <1> USE DEF TInv, RestOK
  <1>1. ASSUME NEW n \in Nodes, Evaluate(n) PROVE TInv'
    <2>1. mqLoud' \in BOOLEAN
      BY <1>1, Zenon DEF Evaluate
    <2> QED BY <1>1, <2>1, SameTimes, SameThreads DEF Evaluate, dbVars, breachVars, httpVars,
                                                              histVars
  <1>2. ASSUME NEW n \in Nodes, RoomChanges(n) PROVE TInv'
    BY <1>2, SameTimes, SameThreads DEF RoomChanges, dbVars, breachVars, mqVars, histVars
  <1>3. ASSUME NEW h \in Callers, NEW r \in Rules, NEW config \in Configs,
               NEW ticked \in SUBSET Channels, UpsertRule(h, r, config, ticked)
        PROVE  TInv'
    BY <1>3, SameTimes, SameThreads DEF UpsertRule, breachVars, mqVars
  <1>4. ASSUME NEW h \in Callers, SetRuleChannels(h) PROVE TInv'
    BY <1>4, SameTimes, SameThreads DEF SetRuleChannels, breachVars, mqVars, histVars
  <1>5. ASSUME NEW r \in Rules, DeleteRule(r) PROVE TInv'
    BY <1>5, SameTimes, SameThreads DEF DeleteRule, breachVars, mqVars
  <1>6. ASSUME NEW c \in Channels, NEW state \in {"on", "off"},
               UpsertChannel(c, state) \/ DeleteChannel(c)
        PROVE  TInv'
    BY <1>6, SameTimes, SameThreads
    DEF UpsertChannel, DeleteChannel, breachVars, mqVars, histVars
  <1>7. CASE Restart
    <2>1. mqLoud' \in BOOLEAN
      BY <1>7, Zenon DEF Restart
    <2>2. AllTimesOK' /\ ThreadsOK'
      BY <1>7, NoBreaches DEF Restart, AllTimesOK, ThreadsOK, Idle
    <2> QED BY <1>7, <2>1, <2>2, Limits DEF Restart, Idle, dbVars
  <1>8. CASE UNCHANGED vars
    BY <1>8, SameTimes, SameThreads DEF vars, dbVars, breachVars, mqVars, histVars
  <1> QED BY <1>1, <1>2, <1>3, <1>4, <1>5, <1>6, <1>7, <1>8, TInvMqtt, TInvDispatch, TInvTick
      DEF Next

LEMMA Typed == Spec => [](TInv /\ AInv)
  BY TInvInit, TInvNext, InitAInv, NextAInv, PTL DEF Spec

(***************************************************************************)
(* The alert engine and its tables are well typed, for any settings; at    *)
(* most RepeatCount breaches are kept.                                     *)
(***************************************************************************)
THEOREM TypeCorrect == Spec => []TypeOK
  <1>1. TInv => TypeOK
    BY DEF TInv, RestOK, TablesOK, AllTimesOK, TimesOK, Ages, TypeOK
  <1> QED BY <1>1, Typed, PTL

\* Of the breach times the newest Recent(r), and no others, are in the window.
PrunedExactly ==
  \A r \in Rules, i \in Nat \ {0} :
    i <= Len(times[r]) =>
      (times[r][i] <= Window <=> i > Len(times[r]) - Recent(r))

(***************************************************************************)
(* Pruning drops the breaches outside the window and no other: as the      *)
(* breach times are in the order of time, those inside are the last ones.  *)
(***************************************************************************)
THEOREM PruningExact == Spec => []PrunedExactly
  <1>1. TInv => PrunedExactly
    <2> SUFFICES ASSUME TInv, NEW r \in Rules, NEW i \in Nat \ {0}, i <= Len(times[r])
                 PROVE  times[r][i] <= Window <=> i > Len(times[r]) - Recent(r)
      BY DEF PrunedExactly
    <2>1. TimesOK(times[r])
      BY DEF TInv, AllTimesOK
    <2>2. i \in 1..Len(times[r])
      <3>1. Len(times[r]) \in Nat
        BY <2>1, LenProperties DEF TimesOK
      <3> QED BY <3>1
    <2> QED BY <2>1, <2>2, RecentLast
  <1> QED BY <1>1, Typed, PTL

-----------------------------------------------------------------------------
(* The pace of the firings *)

(***************************************************************************)
(* What evaluate remembers of a rule is what happened: when it last fired, *)
(* and how many breaches there were since it last fired in count mode,     *)
(* unless they were Every already.  Neither edits nor other modes touch    *)
(* it, and a restart forgets all of it.                                    *)
(***************************************************************************)
Remembered == /\ lastFired = sinceFire
              /\ \A r \in Rules : sinceCount[r] < Every => count[r] = sinceCount[r]

LEMMA BreachCounted ==
  ASSUME TInv, Remembered, NEW r \in Rules, NEW fired \in BOOLEAN, Breach(r, fired)
  PROVE  \A q \in Rules : sinceCount'[q] < Every => count'[q] = sinceCount'[q]
  <1> SUFFICES ASSUME NEW q \in Rules, sinceCount'[q] < Every
               PROVE  count'[q] = sinceCount'[q]
    OBVIOUS
  <1> DEFINE c == count[r]
             s == sinceCount[r]
             counted == fired /\ mqTodo[r].mode = "count"
  <1>1. /\ c \in 0..Every - 1 /\ s \in 1..Every
        /\ count \in [Rules -> 0..Every - 1] /\ sinceCount \in [Rules -> 1..Every]
    BY DEF TInv, RestOK
  <1>2. /\ count' = [count EXCEPT ![r] = (c + 1) % Every]
        /\ sinceCount' = [sinceCount EXCEPT ![r] = IF counted THEN 1 ELSE Older(s, Every)]
    BY DEF Breach
  <1>3. CASE q # r
    BY <1>1, <1>2, <1>3 DEF Remembered
  <1>4. CASE q = r /\ counted
    <2>1. CooldownAllows(r, "count")
      BY <1>4 DEF Breach
    <2>2. c = 0
      BY <2>1 DEF CooldownAllows
    <2>3. sinceCount'[r] = 1 /\ count'[r] = 1 % Every
      BY <1>1, <1>2, <1>4, <2>2
    <2> QED BY <1>4, <2>3, Limits
  <1>5. CASE q = r /\ ~counted
    <2>1. sinceCount'[r] = Older(s, Every) /\ count'[r] = (c + 1) % Every
      BY <1>1, <1>2, <1>5
    <2>2. s < Every => c = s
      BY DEF Remembered
    <2> HIDE DEF c, s
    <2>3. s + 1 < Every /\ sinceCount'[r] = s + 1 /\ c = s
      BY <1>1, <1>5, <2>1, <2>2, Limits DEF Older
    <2>4. (s + 1) % Every = s + 1
      BY <1>1, <2>3, Limits
    <2> QED BY <1>5, <2>1, <2>3, <2>4
  <1> QED BY <1>3, <1>4, <1>5

LEMMA NextRemembered == TInv /\ Remembered /\ [Next]_vars => Remembered'
  <1> SUFFICES ASSUME TInv, Remembered, [Next]_vars PROVE Remembered'
    OBVIOUS
  <1>a. UNCHANGED <<lastFired, sinceFire, count, sinceCount>> => Remembered'
    BY DEF Remembered
  <1>1. ASSUME NEW r \in Rules, Fire(r) PROVE Remembered'
    <2>1. Breach(r, TRUE) /\ lastFired' = [lastFired EXCEPT ![r] = 0]
          /\ sinceFire' = [sinceFire EXCEPT ![r] = 0]
      BY <1>1 DEF Fire
    <2> QED BY <2>1, BreachCounted DEF Remembered
  <1>2. ASSUME NEW r \in Rules, Hold(r) PROVE Remembered'
    <2>1. Breach(r, FALSE) /\ UNCHANGED <<lastFired, sinceFire>>
      BY <1>2 DEF Hold
    <2> QED BY <2>1, BreachCounted DEF Remembered
  <1>3. ASSUME NEW r \in Rules, Skip(r) \/ Quiet(r) PROVE Remembered'
    BY <1>3, <1>a DEF Skip, Quiet, breachVars, histVars
  <1>4. ASSUME NEW n \in Nodes, Evaluate(n) \/ RoomChanges(n) PROVE Remembered'
    BY <1>4, <1>a DEF Evaluate, RoomChanges, breachVars, histVars
  <1>5. CASE Evaluated
    BY <1>5, <1>a DEF Evaluated, breachVars, histVars
  <1>6. ASSUME NEW t \in Threads, Dispatch(t) PROVE Remembered'
    BY <1>6, <1>a DEF Dispatch, NoChannels, Send, LogAlert, breachVars, histVars
  <1>7. ASSUME NEW h \in Callers, NEW r \in Rules, NEW config \in Configs,
               NEW ticked \in SUBSET Channels, UpsertRule(h, r, config, ticked)
        PROVE  Remembered'
    BY <1>7, <1>a DEF UpsertRule, breachVars
  <1>8. ASSUME NEW h \in Callers, SetRuleChannels(h) PROVE Remembered'
    BY <1>8, <1>a DEF SetRuleChannels, breachVars, histVars
  <1>9. ASSUME NEW r \in Rules, DeleteRule(r) PROVE Remembered'
    BY <1>9, <1>a DEF DeleteRule, breachVars
  <1>10. ASSUME NEW c \in Channels, NEW state \in {"on", "off"},
                UpsertChannel(c, state) \/ DeleteChannel(c)
         PROVE  Remembered'
    BY <1>10, <1>a DEF UpsertChannel, DeleteChannel, breachVars, histVars
  <1>11. CASE Tick
    BY <1>11 DEF Tick, Remembered
  <1>12. CASE Restart
    BY <1>12, Limits DEF Restart, Remembered
  <1>13. CASE UNCHANGED vars
    BY <1>13, <1>a DEF vars, breachVars, histVars
  <1> QED
    BY <1>1, <1>2, <1>3, <1>4, <1>5, <1>6, <1>7, <1>8, <1>9, <1>10, <1>11, <1>12, <1>13
    DEF Next, MqttStep

(***************************************************************************)
(* Whatever nodes cause a rule's firings and however it is edited in       *)
(* between, those in cooldown mode keep the cooldown and those in count    *)
(* mode the count.                                                         *)
(***************************************************************************)
THEOREM FiringsSpaced == Spec => SpacedFirings
  <1> DEFINE Paced(r) == /\ mqTodo[r].mode = "cooldown" => sinceFire[r] >= Cooldown
                         /\ mqTodo[r].mode = "count" => sinceCount[r] >= Every
  <1>1. Init => Remembered
    BY Limits DEF Init, FreshBreach, Remembered
  <1>2. ASSUME TInv, Remembered, NEW r \in Rules, Fire(r) PROVE Paced(r)
    <2>1. CooldownAllows(r, mqTodo[r].mode)
      BY <1>2 DEF Fire, Breach
    <2>2. ASSUME mqTodo[r].mode = "cooldown" PROVE sinceFire[r] >= Cooldown
      BY <1>2, <2>1, <2>2 DEF CooldownAllows, Remembered
    <2>3. ASSUME mqTodo[r].mode = "count" PROVE sinceCount[r] >= Every
      <3>1. count[r] = 0
        BY <2>1, <2>3 DEF CooldownAllows
      <3>2. sinceCount[r] \in 1..Every
        BY <1>2 DEF TInv, RestOK
      <3> QED BY <1>2, <3>1, <3>2, Limits DEF Remembered
    <2> QED BY <2>2, <2>3
  <1>3. TInv /\ Remembered => \A r \in Rules : Fire(r) => Paced(r)
    BY <1>2
  <1> QED BY <1>1, <1>3, NextRemembered, Typed, PTL DEF Spec, SpacedFirings

=============================================================================
