------------------------------- MODULE Alerts -------------------------------
(***************************************************************************)
(* The alert engine: dashboard/notifications.py with the rule, channel and *)
(* history tables of dashboard/db.py and the handlers of dashboard/app.py  *)
(* that edit them.                                                         *)
(*                                                                         *)
(* Threads.  evaluate runs in the MQTT thread, once per data message: it   *)
(* reads the enabled rules in one query and then takes _state_lock once    *)
(* per rule.  Each firing starts a dispatch thread.  The settings page's   *)
(* requests run in HTTP threads; saving a rule is two transactions.  Every *)
(* db function is one transaction and one step here.                       *)
(*                                                                         *)
(* Data.  A message is loud or quiet for every rule.  Time stamps are only *)
(* compared with now, so the breach state keeps ages, saturated where no   *)
(* comparison tells them apart; breach_count is only taken modulo the      *)
(* rule's count, and of breach_times the newest RepeatCount decide.        *)
(*                                                                         *)
(* The definitions commented "faulty" are not part of the specification:   *)
(* each is a variant of the definition after it that one property below    *)
(* must reject.                                                            *)
(***************************************************************************)
EXTENDS Naturals, Sequences, FiniteSets

CONSTANTS Nodes, Channels,
          Rules,          \* rule ids, in the order AUTOINCREMENT gives them
          Configs,        \* the rule settings users choose
          Callers,        \* HTTP worker threads
          Threads,        \* bound: dispatch threads running at once
          Duration, Window, RepeatCount,   \* sustained and repeated conditions
          Cooldown, Every,                 \* time- and count-based cooldown
          None

ASSUME AlertAssumption ==
  /\ Rules \subseteq Nat
  /\ {Duration, Window, RepeatCount, Cooldown, Every} \subseteq Nat \ {0}
  /\ None \notin Nat
  /\ Configs \subseteq [scope     : Nodes \cup {"global"},
                        condition : {"instant", "sustained", "repeated"},
                        mode      : {"every", "cooldown", "count"},
                        enabled   : BOOLEAN]
  /\ None \notin Configs

VARIABLES
  rules,                 \* alert_rules: id -> settings or None
  nextRule,              \* ids below it were given out
  channels,              \* notification_channels: enabled or not, or no row
  ruleChannels,          \* alert_rule_channels
  logged,                \* rules with a row in alert_history
  since, times, lastFired, count,   \* _breach_state per rule
  room,                  \* how loud it is where each node stands
  mqNode, mqLoud, mqTodo,           \* evaluate: its message and the rules left
  httpRule, httpChannels,           \* api_upsert_rule between its transactions
  thread,                \* the dispatch threads
  lateFirings,           \* history: firings of a rule since it was switched off
  sinceFire, sinceCount  \* history, in this process: age of a rule's last firing;
                         \* its breaches from its last firing in count mode on

dbVars     == <<rules, nextRule, channels, ruleChannels, logged>>
breachVars == <<since, times, lastFired, count>>
mqVars     == <<mqNode, mqLoud, mqTodo>>
httpVars   == <<httpRule, httpChannels>>
histVars   == <<lateFirings, sinceFire, sinceCount>>
vars == <<dbVars, breachVars, room, mqVars, httpVars, thread, histVars>>

Idle == [pc |-> "idle", rule |-> None, sent |-> {}]

TypeOK ==
  /\ rules \in [Rules -> Configs \cup {None}]
  /\ nextRule \in Nat
  /\ channels \in [Channels -> {"none", "on", "off", "deleted"}]
  /\ ruleChannels \in [Rules -> SUBSET Channels]
  /\ logged \subseteq Rules
  /\ since \in [Rules -> 0..Duration \cup {None}]
  /\ \A r \in Rules : times[r] \in Seq(0..Window + 1) /\ Len(times[r]) <= RepeatCount
  /\ lastFired \in [Rules -> 0..Cooldown]
  /\ count \in [Rules -> 0..Every - 1]
  /\ room \in [Nodes -> {"loud", "quiet"}]
  /\ mqNode \in Nodes \cup {None}
  /\ mqLoud \in BOOLEAN
  /\ mqTodo \in [Rules -> Configs \cup {None}]
  /\ httpRule \in [Callers -> Rules \cup {None}]
  /\ httpChannels \in [Callers -> SUBSET Channels]
  /\ thread \in [Threads -> [pc : {"idle", "channels", "log"}, rule : Rules \cup {None},
                             sent : SUBSET Channels]]
  /\ lateFirings \in [Rules -> Nat]
  /\ sinceFire \in [Rules -> 0..Cooldown]
  /\ sinceCount \in [Rules -> 1..Every]

NoTodo == [r \in Rules |-> None]

FreshBreach == /\ since = [r \in Rules |-> None]
               /\ times = [r \in Rules |-> <<>>]
               /\ lastFired = [r \in Rules |-> Cooldown]   \* 0, the epoch
               /\ count = [r \in Rules |-> 0]

Init == /\ rules = [r \in Rules |-> None]
        /\ nextRule = 1
        /\ channels = [c \in Channels |-> "none"]
        /\ ruleChannels = [r \in Rules |-> {}]
        /\ logged = {}
        /\ FreshBreach
        /\ room = [n \in Nodes |-> "quiet"]
        /\ mqNode = None /\ mqLoud = FALSE /\ mqTodo = NoTodo
        /\ httpRule = [h \in Callers |-> None]
        /\ httpChannels = [h \in Callers |-> {}]
        /\ thread = [t \in Threads |-> Idle]
        /\ lateFirings = [r \in Rules |-> 0]
        /\ sinceFire = [r \in Rules |-> Cooldown]
        /\ sinceCount = [r \in Rules |-> Every]

Older(age, limit) == IF age < limit THEN age + 1 ELSE age

On(r) == rules[r] # None /\ rules[r].enabled

-----------------------------------------------------------------------------
(* evaluate *)

CooldownAllows(r, mode) == CASE mode = "every"    -> TRUE
                             [] mode = "cooldown" -> lastFired[r] >= Cooldown
                             [] mode = "count"    -> count[r] = 0

\* How many of breach_times are in the window.  They are in the order of time:
\* these are the last ones.
Recent(r) == Cardinality({i \in DOMAIN times[r] : times[r][i] <= Window})

\* Faulty: never pruned.
AllBreaches(r) == Append(times[r], 0)

\* breach_times with this breach appended and those outside the window pruned.
Breaches(r) ==
  LET last == Len(times[r])
      kept == IF Recent(r) < RepeatCount THEN Recent(r) ELSE RepeatCount - 1
  IN  Append(SubSeq(times[r], last - kept + 1, last), 0)

\* The condition holds at this loud message, before the cooldown is asked.
Met(r, condition) ==
  CASE condition = "instant"   -> TRUE
    [] condition = "sustained" -> since[r] # None /\ since[r] >= Duration
    [] condition = "repeated"  -> Len(Breaches(r)) >= RepeatCount

\* Faulty: the disabled rules are read too.
EvaluateAll(n) ==
  /\ mqNode = None
  /\ mqNode' = n
  /\ mqLoud' = (room[n] = "loud")
  /\ mqTodo' = rules
  /\ UNCHANGED <<dbVars, breachVars, room, httpVars, thread, histVars>>

\* A data message arrives and the enabled rules are read.
Evaluate(n) ==
  /\ mqNode = None
  /\ mqNode' = n
  /\ mqLoud' = (room[n] = "loud")
  /\ mqTodo' = [r \in Rules |-> IF On(r) THEN rules[r] ELSE None]
  /\ UNCHANGED <<dbVars, breachVars, room, httpVars, thread, histVars>>

\* The rule whose turn it is.
Turn(r) == /\ mqTodo[r] # None
           /\ \A q \in Rules : mqTodo[q] # None => r <= q

\* Faulty: every rule is every node's.
InAnyScope(r) == TRUE

InScope(r) == mqTodo[r].scope \in {mqNode, "global"}

Skip(r) == /\ Turn(r)
           /\ ~InScope(r)
           /\ mqTodo' = [mqTodo EXCEPT ![r] = None]
           /\ UNCHANGED <<dbVars, breachVars, room, mqNode, mqLoud, httpVars, thread,
                          histVars>>

Quiet(r) == /\ Turn(r)
            /\ InScope(r) /\ ~mqLoud
            /\ since' = [since EXCEPT ![r] = None]
            /\ mqTodo' = [mqTodo EXCEPT ![r] = None]
            /\ UNCHANGED <<dbVars, times, lastFired, count, room, mqNode, mqLoud,
                           httpVars, thread, histVars>>

\* A loud message in scope, fired or not.
Breach(r, fired) ==
  LET condition == mqTodo[r].condition
  IN  /\ Turn(r)
      /\ InScope(r) /\ mqLoud
      /\ fired <=> Met(r, condition) /\ CooldownAllows(r, mqTodo[r].mode)
      /\ since' = [since EXCEPT ![r] =
           IF condition = "sustained" /\ (fired \/ @ = None) THEN 0 ELSE @]
      /\ times' = [times EXCEPT ![r] =
           IF condition # "repeated" THEN @ ELSE IF fired THEN <<>> ELSE Breaches(r)]
      /\ count' = [count EXCEPT ![r] = (@ + 1) % Every]
      /\ sinceCount' = [sinceCount EXCEPT ![r] =
           IF fired /\ mqTodo[r].mode = "count" THEN 1 ELSE Older(@, Every)]
      /\ mqTodo' = [mqTodo EXCEPT ![r] = None]
      /\ UNCHANGED <<dbVars, room, mqNode, mqLoud, httpVars>>

Hold(r) == /\ Breach(r, FALSE)
           /\ UNCHANGED <<lastFired, thread, lateFirings, sinceFire>>

\* Faulty: only a firing in cooldown mode is remembered.
FireForgetful(r) == /\ Breach(r, TRUE)
                    /\ lastFired' = [lastFired EXCEPT ![r] =
                                     IF mqTodo[r].mode = "cooldown" THEN 0 ELSE @]
                    /\ \E t \in Threads :
                         /\ thread[t] = Idle
                         /\ thread' = [thread EXCEPT ![t] =
                                         [pc |-> "channels", rule |-> r, sent |-> {}]]
                    /\ lateFirings' = [lateFirings EXCEPT ![r] = IF On(r) THEN 0 ELSE @ + 1]
                    /\ sinceFire' = [sinceFire EXCEPT ![r] = 0]

Fire(r) == /\ Breach(r, TRUE)
           /\ lastFired' = [lastFired EXCEPT ![r] = 0]
           /\ \E t \in Threads :
                /\ thread[t] = Idle
                /\ thread' = [thread EXCEPT ![t] =
                                [pc |-> "channels", rule |-> r, sent |-> {}]]
           /\ lateFirings' = [lateFirings EXCEPT ![r] = IF On(r) THEN 0 ELSE @ + 1]
           /\ sinceFire' = [sinceFire EXCEPT ![r] = 0]

Evaluated == /\ mqNode # None
             /\ mqTodo = NoTodo
             /\ mqNode' = None
             /\ mqLoud' = FALSE
             /\ UNCHANGED <<dbVars, breachVars, room, mqTodo, httpVars, thread,
                            histVars>>

MqttStep == (\E r \in Rules : Skip(r) \/ Quiet(r) \/ Hold(r) \/ Fire(r)) \/ Evaluated

-----------------------------------------------------------------------------
(* _dispatch_rule, one thread per firing *)

Reached(r) == {c \in ruleChannels[r] : channels[c] \in {"on", "off"}}

\* get_rule_channels; without channels the thread ends here.
NoChannels(t) ==
  /\ thread[t].pc = "channels"
  /\ Reached(thread[t].rule) = {}
  /\ thread' = [thread EXCEPT ![t] = Idle]
  /\ UNCHANGED <<dbVars, breachVars, room, mqVars, httpVars, histVars>>

\* The enabled channels are tried in turn; ok are those that did not raise.
Send(t, ok) ==
  /\ thread[t].pc = "channels"
  /\ Reached(thread[t].rule) # {}
  /\ ok \subseteq {c \in Reached(thread[t].rule) : channels[c] = "on"}
  /\ thread' = [thread EXCEPT ![t] = [@ EXCEPT !.pc = "log", !.sent = ok]]
  /\ UNCHANGED <<dbVars, breachVars, room, mqVars, httpVars, histVars>>

\* Faulty: no foreign key on the history.
LogAlertUnchecked(t) ==
  /\ thread[t].pc = "log"
  /\ logged' = logged \cup {thread[t].rule}
  /\ thread' = [thread EXCEPT ![t] = Idle]
  /\ UNCHANGED <<rules, nextRule, channels, ruleChannels, breachVars, room, mqVars,
                 httpVars, histVars>>

\* log_alert; the row's rule must still exist, else the insert raises.
LogAlert(t) ==
  /\ thread[t].pc = "log"
  /\ logged' = IF rules[thread[t].rule] # None THEN logged \cup {thread[t].rule}
                                               ELSE logged
  /\ thread' = [thread EXCEPT ![t] = Idle]
  /\ UNCHANGED <<rules, nextRule, channels, ruleChannels, breachVars, room, mqVars,
                 httpVars, histVars>>

Dispatch(t) == NoChannels(t) \/ LogAlert(t) \/ \E ok \in SUBSET Channels : Send(t, ok)

-----------------------------------------------------------------------------
(* The settings API *)

SwitchedOff(r) == lateFirings' = [lateFirings EXCEPT ![r] = 0]

\* api_upsert_rule, first transaction: db.upsert_alert_rule inserts a new rule
\* or updates an old one; the update of a deleted rule matches no row.
UpsertRule(h, r, config, ticked) ==
  /\ httpRule[h] = None
  /\ r <= nextRule
  /\ \A c \in ticked : channels[c] # "none"
  /\ nextRule' = IF r = nextRule THEN nextRule + 1 ELSE nextRule
  /\ rules' = IF r = nextRule \/ rules[r] # None
              THEN [rules EXCEPT ![r] = config] ELSE rules
  /\ httpRule' = [httpRule EXCEPT ![h] = r]
  /\ httpChannels' = [httpChannels EXCEPT ![h] = ticked]
  /\ IF config.enabled THEN UNCHANGED lateFirings ELSE SwitchedOff(r)
  /\ UNCHANGED <<channels, ruleChannels, logged, breachVars, room, mqVars, thread,
                 sinceFire, sinceCount>>

\* Second transaction: db.set_rule_channels; a foreign key that fails rolls it
\* back and the old channels stay.
SetRuleChannels(h) ==
  LET r == httpRule[h]
      ticked == httpChannels[h]
      valid == /\ rules[r] # None
               /\ \A c \in ticked : channels[c] \in {"on", "off"}
  IN  /\ r # None
      /\ ruleChannels' = [ruleChannels EXCEPT ![r] =
                            IF valid \/ ticked = {} THEN ticked ELSE @]
      /\ httpRule' = [httpRule EXCEPT ![h] = None]
      /\ httpChannels' = [httpChannels EXCEPT ![h] = {}]
      /\ UNCHANGED <<rules, nextRule, channels, logged, breachVars, room, mqVars,
                     thread, histVars>>

\* api_delete_rule: alert_rule_channels cascades, alert_history does not, so the
\* request fails, and changes nothing, for a rule with a row there.
DeleteRule(r) ==
  /\ rules[r] # None /\ r \notin logged
  /\ rules' = [rules EXCEPT ![r] = None]
  /\ ruleChannels' = [ruleChannels EXCEPT ![r] = {}]
  /\ SwitchedOff(r)
  /\ UNCHANGED <<nextRule, channels, logged, breachVars, room, mqVars, httpVars, thread,
                 sinceFire, sinceCount>>

UpsertChannel(c, state) ==
  /\ channels[c] # "deleted"
  /\ channels' = [channels EXCEPT ![c] = state]
  /\ UNCHANGED <<rules, nextRule, ruleChannels, logged, breachVars, room, mqVars,
                 httpVars, thread, histVars>>

DeleteChannel(c) ==
  /\ channels[c] \in {"on", "off"}
  /\ channels' = [channels EXCEPT ![c] = "deleted"]
  /\ ruleChannels' = [r \in Rules |-> ruleChannels[r] \ {c}]
  /\ UNCHANGED <<rules, nextRule, logged, breachVars, room, mqVars, httpVars, thread,
                 histVars>>

-----------------------------------------------------------------------------

RoomChanges(n) ==
  /\ room' = [room EXCEPT ![n] = IF @ = "loud" THEN "quiet" ELSE "loud"]
  /\ UNCHANGED <<dbVars, breachVars, mqVars, httpVars, thread, histVars>>

MaybeOlder(age, limit) == IF age = None THEN None ELSE Older(age, limit)

Tick ==
  /\ since' = [r \in Rules |-> MaybeOlder(since[r], Duration)]
  /\ times' = [r \in Rules |-> [i \in DOMAIN times[r] |-> Older(times[r][i], Window + 1)]]
  /\ lastFired' = [r \in Rules |-> Older(lastFired[r], Cooldown)]
  /\ sinceFire' = [r \in Rules |-> Older(sinceFire[r], Cooldown)]
  /\ UNCHANGED <<dbVars, count, room, mqVars, httpVars, thread, lateFirings,
                 sinceCount>>

\* The process is restarted; the breach state is in memory only.
Restart ==
  /\ since' = [r \in Rules |-> None]
  /\ times' = [r \in Rules |-> <<>>]
  /\ lastFired' = [r \in Rules |-> Cooldown]
  /\ count' = [r \in Rules |-> 0]
  /\ mqNode' = None /\ mqLoud' = FALSE /\ mqTodo' = NoTodo
  /\ httpRule' = [h \in Callers |-> None]
  /\ httpChannels' = [h \in Callers |-> {}]
  /\ thread' = [t \in Threads |-> Idle]
  /\ sinceFire' = [r \in Rules |-> Cooldown]
  /\ sinceCount' = [r \in Rules |-> Every]
  /\ UNCHANGED <<dbVars, room, lateFirings>>

Next == \/ \E n \in Nodes : Evaluate(n) \/ RoomChanges(n)
        \/ MqttStep
        \/ \E t \in Threads : Dispatch(t)
        \/ \E h \in Callers : \/ \E r \in Rules, config \in Configs, ticked \in SUBSET Channels :
                                    UpsertRule(h, r, config, ticked)
                              \/ SetRuleChannels(h)
        \/ \E r \in Rules : DeleteRule(r)
        \/ \E c \in Channels : \/ \E state \in {"on", "off"} : UpsertChannel(c, state)
                               \/ DeleteChannel(c)
        \/ Tick \/ Restart

\* Time passes; the MQTT thread and the dispatch threads are scheduled; the
\* client hands over the nodes' messages in order, so each node's next message
\* is reached however many the others send.
Fairness == /\ WF_vars(Tick)
            /\ WF_vars(MqttStep)
            /\ \A t \in Threads : WF_vars(Dispatch(t))
            /\ \A n \in Nodes : SF_vars(Evaluate(n))

Spec == Init /\ [][Next]_vars /\ Fairness

-----------------------------------------------------------------------------
(* Properties *)

(***************************************************************************)
(* A rule that was switched off or deleted fires at most once more: for    *)
(* the message whose rules had been read before.                           *)
(***************************************************************************)
OneLateFiring == \A r \in Rules : lateFirings[r] <= 1

(***************************************************************************)
(* A rule keeps its pace, whichever nodes caused its firings and however   *)
(* it was edited, switched off and on, or had another mode in between: a   *)
(* firing in cooldown mode comes at least the cooldown after any firing of *)
(* the rule, and one in count mode not before the Every-th breach after    *)
(* the last firing in that mode, whichever settings those breaches met.    *)
(***************************************************************************)
SpacedFirings ==
  [][\A r \in Rules : Fire(r) =>
       /\ mqTodo[r].mode = "cooldown" => sinceFire[r] >= Cooldown
       /\ mqTodo[r].mode = "count" => sinceCount[r] >= Every]_vars

(***************************************************************************)
(* The foreign keys hold between the transactions of concurrent requests   *)
(* and dispatch threads: no history row, no tick refers to a rule or       *)
(* channel that is gone.                                                   *)
(***************************************************************************)
References ==
  \A r \in Rules : /\ r \in logged \/ ruleChannels[r] # {} => rules[r] # None
                   /\ \A c \in ruleChannels[r] : channels[c] \in {"on", "off"}

(***************************************************************************)
(* While a node stays loud, an instant or sustained rule of its own keeps  *)
(* firing, at the pace of its cooldown, whatever the other nodes send and  *)
(* however the rule was edited before, for another scope too.              *)
(***************************************************************************)
StaysLoud(r, n, scope) ==
  /\ On(r) /\ rules[r].scope = scope /\ rules[r].condition # "repeated"
  /\ room[n] = "loud"

NodeRuleFires ==
  \A r \in Rules, n \in Nodes :
    <>[]StaysLoud(r, n, n) /\ <>[][~Restart]_vars => []<><<Fire(r)>>_vars

-----------------------------------------------------------------------------
(* What the repository says and the code does not do *)

(***************************************************************************)
(* docs/dashboard.md: a rule's scope is "global or one node"; docs/SDD.md: *)
(* a sustained rule fires "once the level has stayed above".  A global     *)
(* rule fires for a node that stays loud.                                  *)
(***************************************************************************)
GlobalRuleFires ==
  \A r \in Rules, n \in Nodes :
    <>[]StaysLoud(r, n, "global") /\ <>[][~Restart]_vars => []<><<Fire(r)>>_vars

=============================================================================
