---------------------------- MODULE LevelHistory ----------------------------
(***************************************************************************)
(* The history of one node (dashboard/node_state.py, update_node_data):    *)
(* levels arrive many times a second and become one point per second, the  *)
(* mean of their powers; HISTORY_SIZE points are kept.  A point is made    *)
(* when the first level of a later second arrives.  The six bands are      *)
(* treated as the overall level is, so one level stands for all.           *)
(*                                                                         *)
(* A level is in units of 10 dB above the lowest, so its power is a power  *)
(* of ten; a point is rounded to the unit where the code rounds to 0.1 dB. *)
(* The clock is time.time(), which may be set back.                        *)
(*                                                                         *)
(* The names begin with History where NodeState, the rest of node_state.py *)
(* has the same: the proofs extend both modules.                           *)
(***************************************************************************)
EXTENDS Integers, Sequences, FiniteSets

CONSTANTS TopLevel,              \* full scale, 0 dBFS
          Levels, HISTORY_SIZE,
          MaxClock, MaxSamples   \* bounds: seconds, levels received

ASSUME LevelAssumption == TopLevel \in Nat /\ Levels \subseteq 0..TopLevel
ASSUME SizeAssumption  == HISTORY_SIZE \in Nat \ {0}
ASSUME HistoryBounds   == {MaxClock, MaxSamples} \subseteq Nat \ {0}

VARIABLES
  clock,
  acc,        \* history_acc: last_sec, count, sum_power
  history,
  all         \* history: the levels received since the entry was made

historyVars == <<clock, acc, history, all>>

Sample == [sec : 1..MaxClock, level : Levels]

HistoryTypeOK ==
  /\ clock \in 1..MaxClock
  /\ acc \in [last_sec : 0..MaxClock, count : 0..MaxSamples, sum_power : Nat]
  /\ history \in Seq([timestamp : 1..MaxClock, level : 0..TopLevel])
  /\ Len(history) <= HISTORY_SIZE
  /\ all \in Seq(Sample)

EmptyAcc == [last_sec |-> 0, count |-> 0, sum_power |-> 0]

HistoryInit == /\ clock \in 1..MaxClock
               /\ acc = EmptyAcc
               /\ history = <<>>
               /\ all = <<>>

\* dbfs_to_linear
power[level \in Nat] == IF level = 0 THEN 1 ELSE 10 * power[level - 1]

\* linear_to_dbfs, and round: the level k next to the mean power sum / count.
IsMean(k, sum, count) ==
  LET Square(n) == n * n
  IN  /\ k > 0 => power[2 * k - 1] * Square(count) <= Square(sum)
      /\ Square(sum) < power[2 * k + 1] * Square(count)

Point(sec, sum, count) ==
  [timestamp |-> sec, level |-> CHOOSE k \in 0..TopLevel : IsMean(k, sum, count)]

\* Faulty: a deque without maxlen.
AppendUnbounded(points, p) == Append(points, p)

\* deque(maxlen=HISTORY_SIZE).append
AppendBounded(points, p) ==
  IF Len(points) < HISTORY_SIZE THEN Append(points, p) ELSE Append(Tail(points), p)

\* Faulty: the first level of a second only closes the one before.
BeginEmpty(level) == [last_sec |-> clock, count |-> 0, sum_power |-> 0]

\* The accumulator for the second that this level begins.
Begin(level) == [last_sec |-> clock, count |-> 1, sum_power |-> power[level]]

Receive(level) == /\ Len(all) < MaxSamples
                  /\ all' = Append(all, [sec |-> clock, level |-> level])
                  /\ UNCHANGED clock

\* current_sec != acc["last_sec"]
NewSecond(level) ==
  /\ clock # acc.last_sec
  /\ history' = IF acc.count = 0 THEN history
                ELSE AppendBounded(history, Point(acc.last_sec, acc.sum_power, acc.count))
  /\ acc' = Begin(level)
  /\ Receive(level)

SameSecond(level) ==
  /\ clock = acc.last_sec
  /\ acc' = [acc EXCEPT !.count = @ + 1, !.sum_power = @ + power[level]]
  /\ UNCHANGED history
  /\ Receive(level)

\* disconnect_node deletes the entry; the next status or level makes one.
ForgetHistory == /\ acc' = EmptyAcc
                 /\ history' = <<>>
                 /\ all' = <<>>
                 /\ UNCHANGED clock

HistoryTick == /\ clock < MaxClock
               /\ clock' = clock + 1
               /\ UNCHANGED <<acc, history, all>>

SetBack == /\ clock' \in 1..(clock - 1)
           /\ UNCHANGED <<acc, history, all>>

HistoryNext == \/ \E level \in Levels : NewSecond(level) \/ SameSecond(level)
               \/ ForgetHistory \/ HistoryTick \/ SetBack

HistorySpec == HistoryInit /\ [][HistoryNext]_historyVars

-----------------------------------------------------------------------------
(* Properties *)

\* The places where a second begins in the levels s, and the n-th of them.
Starts(s)   == {i \in DOMAIN s : i = 1 \/ s[i].sec # s[i - 1].sec}
Start(s, n) == CHOOSE i \in Starts(s) : Cardinality({j \in Starts(s) : j <= i}) = n

\* The powers of the levels from place i to place j, added up.
Energy(s, i, j) ==
  LET sum[k \in Nat] == IF k \in i..Len(s) THEN sum[k - 1] + power[s[k].level] ELSE 0
  IN  sum[j]

\* The points of all seconds that have ended, had all of them been kept.
PointFrom(s, i, next) == Point(s[i].sec, Energy(s, i, next - 1), next - i)

Points(s) == [n \in 1..Cardinality(Starts(s)) - 1 |-> PointFrom(s, Start(s, n), Start(s, n + 1))]

Newest(s, n) == SubSeq(s, IF Len(s) > n THEN Len(s) - n + 1 ELSE 1, Len(s))

(***************************************************************************)
(* "Averaged in the linear power domain into one history point per         *)
(* second" (docs/dashboard.md): the history is the newest HISTORY_SIZE of  *)
(* the means of every level received in each second that has ended, none   *)
(* missing and none counted twice, however the seconds fall and wherever   *)
(* the clock is set.                                                       *)
(***************************************************************************)
HistoryExact == history = Newest(Points(all), HISTORY_SIZE)

=============================================================================
