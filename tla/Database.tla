------------------------------ MODULE Database ------------------------------
(***************************************************************************)
(* dashboard/db.py: the start of the database (init_db with its two        *)
(* migrations) and the table nodes, which the message thread and the       *)
(* threads of requests read and write.  The other tables are in Alerts.    *)
(*                                                                         *)
(* Transactions.  The sqlite3 module opens one at the first INSERT or      *)
(* UPDATE, so the SELECTs of upsert_node run before it, each seeing what   *)
(* is committed at that moment; the write and its commit are one step,     *)
(* since SQLite has one writer.  executescript commits what is open and    *)
(* runs its statements one by one, without a transaction: the process may  *)
(* be killed between any two of them.                                      *)
(*                                                                         *)
(* Names are numbers: N > 0 is "node-N", 0 the hostname, -1 another name.  *)
(***************************************************************************)
EXTENDS Integers, FiniteSets

CONSTANTS Boards,       \* chip ids
          MqttThread,   \* the thread of on_message
          Requests,     \* the threads of the HTTP API
          RenameTo,     \* names users give
          Thresholds, Default,
          Channels      \* rows of notification_channels, each ticked in a rule

ASSUME BoardAssumption     == Boards # {}
ASSUME NameAssumption      == RenameTo \subseteq Int
ASSUME ThresholdAssumption == Default \in Thresholds
ASSUME ThreadAssumption    == MqttThread \notin Requests

Host   == 0
Other  == -1
Given  == RenameTo \cup {Host}   \* names a call may bring
NULL   == -2
ASSUME NULLAssumption == NULL \notin RenameTo

Threads == Requests \cup {MqttThread}

\* node_names.json, each node with what node_thresholds.json adds.
Files == UNION {[S -> Thresholds] : S \in SUBSET Boards}

\* A call of upsert_node, or of get_node_name, which makes one if need be.
Job == [board : Boards, name : Given \cup {NULL},
        threshold : {{}} \cup {{v} : v \in Thresholds}, ensure : BOOLEAN]

Boot == {"off", "schema", "columns", "create", "copy", "drop", "rename",
         "import", "serving", "failed"}

VARIABLES
  rows, name, threshold,     \* the table nodes
  files,                     \* the JSON files of earlier versions
  hasTable, oldColumn,       \* notification_channels exists; with env_key
  table, hasSpare, spare,    \* its rows; notification_channels_new
  ticks,                     \* channels in alert_rule_channels
  boot,                      \* how far init_db is
  pc, job, seen, pick,       \* the threads in the functions of db.py
  stored, migration, overtaken
    \* history: the channels there were; none, done, or cut between DROP and
    \* RENAME; threads whose number another thread's write may have taken

nodeVars    == <<rows, name, threshold>>
channelVars == <<hasTable, oldColumn, table, hasSpare, spare, ticks, migration>>
threadVars  == <<pc, job, seen, pick, overtaken>>
vars == <<nodeVars, channelVars, threadVars, boot, files, stored>>

TypeOK == /\ rows \subseteq Boards
          /\ name \in [Boards -> Int]
          /\ threshold \in [Boards -> Thresholds]
          /\ files \in Files
          /\ {hasTable, oldColumn, hasSpare} \subseteq BOOLEAN
          /\ {table, spare, ticks, stored} \subseteq SUBSET Channels
          /\ boot \in Boot
          /\ pc \in [Threads -> {"idle", "lookup", "read", "number", "write", "reread"}]
          /\ job \in [Threads -> Job]
          /\ seen \in [Threads -> BOOLEAN]
          /\ pick \in [Threads -> Nat]
          /\ migration \in {"none", "done", "cut"}
          /\ overtaken \subseteq Threads

JobOf(b) == [board |-> b, name |-> NULL, threshold |-> {}, ensure |-> FALSE]
NoJob == JobOf(CHOOSE b \in Boards : TRUE)

ThreadsStart == /\ job = [t \in Threads |-> NoJob]
                /\ pc = [t \in Threads |-> "idle"]
                /\ seen = [t \in Threads |-> FALSE]
                /\ pick = [t \in Threads |-> 0]
                /\ overtaken = {}

\* No database yet, or one of this version, or one that still has env_key.
Init == /\ hasTable \in BOOLEAN
        /\ rows \in SUBSET Boards /\ (rows # {} => hasTable)
        /\ name = [b \in Boards |-> Host]
        /\ threshold = [b \in Boards |-> Default]
        /\ files \in Files
        /\ oldColumn \in BOOLEAN /\ (oldColumn => hasTable)
        /\ table = IF hasTable THEN Channels ELSE {}
        /\ hasSpare = FALSE
        /\ spare = {}
        /\ ticks = table
        /\ stored = table
        /\ migration = "none"
        /\ boot = "off"
        /\ ThreadsStart

-----------------------------------------------------------------------------
(* init_db *)

Go(from, to) == boot = from /\ boot' = to

Start == /\ Go("off", "schema")
         /\ UNCHANGED <<nodeVars, channelVars, threadVars, files, stored>>

\* CREATE TABLE IF NOT EXISTS
Schema == /\ Go("schema", "columns")
          /\ hasTable' = TRUE
          /\ UNCHANGED <<nodeVars, oldColumn, table, hasSpare, spare, ticks,
                         migration, threadVars, files, stored>>

\* _migrate_schema begins: is there still an env_key?
Columns == /\ Go("columns", IF oldColumn THEN "create" ELSE "import")
           /\ UNCHANGED <<nodeVars, channelVars, threadVars, files, stored>>

\* CREATE TABLE raises if an interrupted migration left the new table.
CreateSpare == /\ Go("create", IF hasSpare THEN "failed" ELSE "copy")
               /\ hasSpare' = TRUE
               /\ UNCHANGED <<nodeVars, hasTable, oldColumn, table, spare, ticks,
                              migration, threadVars, files, stored>>

\* Faulty: DROP before INSERT ... SELECT.
CopyLate == /\ Go("copy", "drop")
            /\ spare' = {}
            /\ UNCHANGED <<nodeVars, hasTable, oldColumn, table, hasSpare, ticks,
                           migration, threadVars, files, stored>>

Copy == /\ Go("copy", "drop")
        /\ spare' = table
        /\ UNCHANGED <<nodeVars, hasTable, oldColumn, table, hasSpare, ticks,
                       migration, threadVars, files, stored>>

\* With foreign_keys=ON, dropping a table deletes its rows first, and
\* alert_rule_channels cascades.
DropTable == /\ Go("drop", "rename")
             /\ hasTable' = FALSE
             /\ oldColumn' = FALSE
             /\ table' = {}
             /\ ticks' = ticks \ table
             /\ migration' = "cut"
             /\ UNCHANGED <<nodeVars, hasSpare, spare, threadVars, files, stored>>

RenameTable == /\ Go("rename", "import")
               /\ hasTable' = TRUE
               /\ table' = spare
               /\ hasSpare' = FALSE
               /\ spare' = {}
               /\ migration' = "done"
               /\ UNCHANGED <<nodeVars, oldColumn, ticks, threadVars, files, stored>>

Fill == /\ rows' = rows \cup DOMAIN files
        /\ name' = [b \in Boards |-> IF b \in DOMAIN files THEN Other ELSE name[b]]
        /\ threshold' = [b \in Boards |-> IF b \in DOMAIN files THEN files[b] ELSE threshold[b]]

\* _migrate_from_json: an empty table takes the nodes that have a name.
Import == /\ Go("import", "serving")
          /\ IF rows = {} THEN Fill ELSE UNCHANGED nodeVars
          /\ UNCHANGED <<channelVars, threadVars, files, stored>>

\* The process is killed, at the start or while it serves, or starts again.
Kill == /\ boot' = "off"
        /\ job' = [t \in Threads |-> NoJob]
        /\ pc' = [t \in Threads |-> "idle"]
        /\ seen' = [t \in Threads |-> FALSE]
        /\ pick' = [t \in Threads |-> 0]
        /\ overtaken' = {}
        /\ UNCHANGED <<nodeVars, channelVars, files, stored>>

Migrate == \/ Start \/ Schema \/ Columns \/ CreateSpare \/ Copy \/ DropTable
           \/ RenameTable \/ Import

-----------------------------------------------------------------------------
(* The table nodes *)

Begin(t, j) == /\ boot = "serving"
               /\ pc[t] = "idle"
               /\ pc' = [pc EXCEPT ![t] = IF j.ensure THEN "lookup" ELSE "read"]
               /\ job' = [job EXCEPT ![t] = j]
               /\ UNCHANGED <<nodeVars, channelVars, seen, pick, overtaken, boot, files, stored>>

\* handle_status, and api_rename_node: the name is given.
Rename(t, b, n) == Begin(t, [JobOf(b) EXCEPT !.name = n])

\* set_node_threshold
SetThreshold(t, b, v) == Begin(t, [JobOf(b) EXCEPT !.threshold = {v}])

\* get_node_name, in every data message and last will.
GetNodeName(t, b) == Begin(t, [JobOf(b) EXCEPT !.ensure = TRUE])

Step(t, from, to) == pc[t] = from /\ pc' = [pc EXCEPT ![t] = to]

\* The last SELECT or the write is done; the call returns or raises.
Leave(t, from, to) ==
  /\ Step(t, from, to)
  /\ job' = IF to = "idle" THEN [job EXCEPT ![t] = NoJob] ELSE job
  /\ seen' = [seen EXCEPT ![t] = FALSE]
  /\ pick' = [pick EXCEPT ![t] = 0]

\* get_node_name looks first.
Lookup(t) == /\ Leave(t, "lookup", IF job[t].board \in rows THEN "idle" ELSE "read")
             /\ UNCHANGED <<nodeVars, channelVars, overtaken, boot, files, stored>>

\* upsert_node: SELECT the row.
Read(t) ==
  LET there == job[t].board \in rows
  IN  /\ Step(t, "read", IF there \/ job[t].name # NULL THEN "write" ELSE "number")
      /\ seen' = [seen EXCEPT ![t] = there]
      /\ UNCHANGED <<nodeVars, channelVars, job, pick, overtaken, boot, files, stored>>

Numbers == {name[b] : b \in rows} \cap (Nat \ {0})

\* Faulty: the nodes are counted.
ChooseByCount(t) == /\ Step(t, "number", "write")
                    /\ pick' = [pick EXCEPT ![t] = Cardinality(rows) + 1]
                    /\ overtaken' = overtaken \ {t}
                    /\ UNCHANGED <<nodeVars, channelVars, job, seen, boot, files, stored>>

\* SELECT the generated names: max(nums, default=0) + 1.
ChooseNumber(t) == /\ Step(t, "number", "write")
                   /\ \E max \in Numbers \cup {0} :
                        /\ \A m \in Numbers : m <= max
                        /\ pick' = [pick EXCEPT ![t] = max + 1]
                   /\ overtaken' = overtaken \ {t}
                   /\ UNCHANGED <<nodeVars, channelVars, job, seen, boot, files, stored>>

After(t) == IF job[t].ensure THEN "reread" ELSE "idle"

\* UPDATE of the columns that were given.
Update(t) ==
  LET j == job[t]
  IN  /\ seen[t]
      /\ Leave(t, "write", After(t))
      /\ name' = IF j.name = NULL THEN name ELSE [name EXCEPT ![j.board] = j.name]
      /\ \/ j.threshold = {} /\ UNCHANGED threshold
         \/ \E v \in j.threshold : threshold' = [threshold EXCEPT ![j.board] = v]
      /\ overtaken' = IF j.ensure THEN overtaken ELSE Threads \ {t}
      /\ UNCHANGED <<rows, channelVars, boot, files, stored>>

NewName(t) == IF job[t].name = NULL THEN pick[t] ELSE job[t].name

\* Faulty: a threshold that is not given is written as it came.
NewThresholdsNull(t) == IF job[t].threshold = {} THEN {NULL} ELSE job[t].threshold

NewThresholds(t) == IF job[t].threshold = {} THEN {Default} ELSE job[t].threshold

WriteRow(t) ==
  LET b == job[t].board
  IN  /\ ~seen[t]
      /\ Leave(t, "write", After(t))
      /\ rows' = rows \cup {b}
      /\ name' = [name EXCEPT ![b] = NewName(t)]
      /\ \E v \in NewThresholds(t) : threshold' = [threshold EXCEPT ![b] = v]
      /\ overtaken' = Threads \ {t}
      /\ UNCHANGED <<channelVars, boot, files, stored>>

\* Faulty: INSERT OR REPLACE.
InsertOrReplace(t) == WriteRow(t)

\* INSERT: the row was not there when it was looked for.
Insert(t) == job[t].board \notin rows /\ WriteRow(t)

\* The primary key refuses it: the call raises, and so does its caller.
Refuse(t) == /\ ~seen[t]
             /\ job[t].board \in rows
             /\ Leave(t, "write", "idle")
             /\ UNCHANGED <<nodeVars, channelVars, overtaken, boot, files, stored>>

\* get_node_name reads the name it returns.
Reread(t) == /\ job[t].board \in rows
             /\ Leave(t, "reread", "idle")
             /\ UNCHANGED <<nodeVars, channelVars, overtaken, boot, files, stored>>

Call(t) == \/ Lookup(t) \/ Read(t) \/ ChooseNumber(t) \/ Update(t) \/ Insert(t)
           \/ Refuse(t) \/ Reread(t)

Next == \/ Migrate
        \/ Kill
        \/ \E t \in Threads : Call(t)
        \/ \E b \in Boards : \/ Rename(MqttThread, b, Host)
                             \/ GetNodeName(MqttThread, b)
                             \/ \E t \in Requests :
                                  \/ \E n \in RenameTo : Rename(t, b, n)
                                  \/ \E v \in Thresholds : SetThreshold(t, b, v)

Spec == Init /\ [][Next]_vars

-----------------------------------------------------------------------------
(* Properties *)

(***************************************************************************)
(* The table nodes behaves as NodeTable says, whatever other threads do    *)
(* between two statements of a call and wherever it is killed: the update  *)
(* of a name leaves a threshold set meanwhile alone and the reverse, a row *)
(* inserted by one thread is not overwritten by another's insert, and no   *)
(* row is ever lost.                                                       *)
(***************************************************************************)
Table == INSTANCE NodeTable WITH UserNames <- RenameTo, Hostname <- Host
ImplementsNodeTable == Table!Spec

(***************************************************************************)
(* "New nodes assigned node-1, node-2" (CHANGELOG.md): the number a thread *)
(* is about to insert is in no row, whatever was renamed, imported or      *)
(* refused before, unless another thread has written since it was chosen.  *)
(***************************************************************************)
GeneratedFresh ==
  \A t \in Threads : pc[t] = "write" /\ ~seen[t] /\ job[t].name = NULL
                      /\ t \notin overtaken
    => pick[t] > 0 /\ \A b \in rows : name[b] # pick[t]

(***************************************************************************)
(* "The schema is additive, migrations run on start" (docs/SDD.md),        *)
(* wherever they are cut: a channel is always in one of the two tables;    *)
(* all of them are served unless the cut came between DROP and RENAME; and *)
(* a start that is refused has lost none.  The ticks of the rules are lost *)
(* by the migration and by nothing else.                                   *)
(***************************************************************************)
ChannelsKept ==
  /\ stored \subseteq table \cup spare
  /\ boot \in {"import", "serving"} /\ migration # "cut" => table = stored
  /\ boot = "failed" => table = stored
  /\ migration = "none" => ticks = stored

=============================================================================
