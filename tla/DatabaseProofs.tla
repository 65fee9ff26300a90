--------------------------- MODULE DatabaseProofs ---------------------------
(***************************************************************************)
(* Theorems about Database, for any boards, threads, names and channels.   *)
(***************************************************************************)
EXTENDS Database, TLAPS

\* A call gives a name or a threshold or neither, and neither to get a name.
Single(j) == /\ j.name = NULL \/ j.threshold = {}
             /\ j.ensure => j.name = NULL /\ j.threshold = {}

\* Threads are in db.py only while the process serves; no row is ever lost,
\* so what one saw is still there.
Threaded ==
  /\ boot # "serving" => \A t \in Threads : pc[t] = "idle"
  /\ \A t \in Threads :
       /\ Single(job[t])
       /\ seen[t] \/ pc[t] = "reread" => job[t].board \in rows
       /\ seen[t] => pc[t] = "write"
       /\ pc[t] = "number" => job[t].name = NULL

\* A generated number is a number of "node-N".
Numbered ==
  \A t \in Threads : pc[t] = "write" /\ ~seen[t] /\ job[t].name = NULL => pick[t] > 0

TInv == TypeOK /\ Threaded /\ Numbered

\* What the migration has done by the time it is somewhere.
Migrating ==
  /\ oldColumn => migration = "none"
  /\ migration # "cut" => table = stored
  /\ migration = "cut" => spare = stored
  /\ migration = "none" => ticks = stored
  /\ boot \in {"create", "copy", "drop", "failed"} => oldColumn
  /\ boot = "drop" => spare = stored
  /\ boot = "rename" => migration = "cut"

-----------------------------------------------------------------------------
(* Types *)

LEMMA NoJobType == NoJob \in Job /\ Single(NoJob)
  BY BoardAssumption DEF NoJob, JobOf, Job, Single

LEMMA InitTInv == Init => TInv
  <1> SUFFICES ASSUME Init PROVE TInv
    OBVIOUS
  <1> USE DEF Init
  <1>1. {hasTable, oldColumn, hasSpare} \subseteq BOOLEAN
    OBVIOUS
  <1>2. {table, spare, ticks, stored} \subseteq SUBSET Channels
    OBVIOUS
  <1>3. name \in [Boards -> Int] /\ threshold \in [Boards -> Thresholds]
    BY ThresholdAssumption DEF Host
  <1>4. /\ pc \in [Threads -> {"idle", "lookup", "read", "number", "write", "reread"}]
        /\ job \in [Threads -> Job]
        /\ seen \in [Threads -> BOOLEAN]
        /\ pick \in [Threads -> Nat]
        /\ overtaken \subseteq Threads
    BY NoJobType DEF ThreadsStart
  <1>5. TypeOK
    BY <1>1, <1>2, <1>3, <1>4 DEF TypeOK, Boot
  <1>6. Threaded /\ Numbered
    BY NoJobType DEF ThreadsStart, Threaded, Numbered
  <1> QED BY <1>5, <1>6 DEF TInv

LEMMA FillType ==
  ASSUME TypeOK, Fill
  PROVE  /\ rows' \subseteq Boards
         /\ name' \in [Boards -> Int]
         /\ threshold' \in [Boards -> Thresholds]
  <1>1. PICK S \in SUBSET Boards : files \in [S -> Thresholds]
    BY DEF TypeOK, Files
  <1>2. DOMAIN files = S /\ \A b \in S : files[b] \in Thresholds
    BY <1>1
  <1> QED BY <1>2 DEF Fill, TypeOK, Other

LEMMA BeginType ==
  ASSUME TInv, NEW t \in Threads, NEW j \in Job, Single(j), Begin(t, j)
  PROVE  TInv'
  <1>1. pc' \in [Threads -> {"idle", "lookup", "read", "number", "write", "reread"}]
    BY DEF TInv, TypeOK, Begin
  <1>2. TypeOK'
    BY <1>1 DEF TInv, TypeOK, Begin, nodeVars, channelVars
  <1>3. Threaded'
    BY DEF TInv, TypeOK, Threaded, Begin, nodeVars
  <1>4. Numbered'
    BY DEF TInv, TypeOK, Numbered, Begin
  <1> QED BY <1>2, <1>3, <1>4 DEF TInv

LEMMA Jobs ==
  ASSUME NEW b \in Boards
  PROVE  /\ \A n \in Given : LET j == [JobOf(b) EXCEPT !.name = n] IN j \in Job /\ Single(j)
         /\ \A v \in Thresholds :
              LET j == [JobOf(b) EXCEPT !.threshold = {v}] IN j \in Job /\ Single(j)
         /\ LET j == [JobOf(b) EXCEPT !.ensure = TRUE] IN j \in Job /\ Single(j)
  BY DEF JobOf, Job, Single

LEMMA LeaveType ==
  ASSUME TInv, NEW t \in Threads, NEW from, NEW to \in {"idle", "read", "reread"},
         Leave(t, from, to)
  PROVE  /\ pc' \in [Threads -> {"idle", "lookup", "read", "number", "write", "reread"}]
         /\ job' \in [Threads -> Job]
         /\ seen' \in [Threads -> BOOLEAN]
         /\ pick' \in [Threads -> Nat]
         /\ \A u \in Threads : Single(job'[u])
         /\ ~seen'[t] /\ pc'[t] = to /\ (to # "idle" => job'[t] = job[t])
         /\ \A u \in Threads \ {t} : /\ pc'[u] = pc[u] /\ job'[u] = job[u]
                                     /\ seen'[u] = seen[u] /\ pick'[u] = pick[u]
  BY NoJobType DEF TInv, TypeOK, Threaded, Leave, Step

\* After the call, rows having grown at most, the invariant holds.
LEMMA AfterLeave ==
  ASSUME TInv, NEW t \in Threads, NEW from, NEW to \in {"idle", "read", "reread"},
         Leave(t, from, to),
         rows \subseteq rows', rows' \subseteq Boards,
         to = "reread" => job[t].board \in rows',
         name' \in [Boards -> Int], threshold' \in [Boards -> Thresholds],
         overtaken' \subseteq Threads, from # "idle",
         UNCHANGED <<channelVars, boot, files, stored>>
  PROVE  TInv'
  <1>1. boot = "serving"
    BY DEF Leave, Step, TInv, Threaded
  <1>2. TypeOK'
    BY LeaveType DEF TInv, TypeOK, channelVars
  <1>3. Threaded'
    BY LeaveType, <1>1 DEF TInv, Threaded
  <1>4. Numbered'
    BY LeaveType DEF TInv, Numbered
  <1> QED BY <1>2, <1>3, <1>4 DEF TInv

LEMMA GivenType == \A n \in Given : n \in Int
  BY NameAssumption DEF Given, Host, Other

LEMMA WriteTypes ==
  ASSUME TInv, NEW t \in Threads
  PROVE  /\ job[t].board \in Boards
         /\ NewName(t) \in Int
         /\ NewThresholds(t) \subseteq Thresholds
         /\ job[t].threshold \subseteq Thresholds
         /\ job[t].name # NULL => job[t].name \in Given
         /\ After(t) \in {"idle", "reread"}
  <1>1. job[t] \in Job /\ pick[t] \in Nat
    BY DEF TInv, TypeOK
  <1>2. /\ job[t].board \in Boards
        /\ job[t].name \in Given \cup {NULL}
        /\ job[t].threshold \in {{}} \cup {{v} : v \in Thresholds}
    BY <1>1 DEF Job
  <1>3. job[t].name # NULL => job[t].name \in Given
    BY <1>2
  <1>4. NewName(t) \in Int
    BY <1>1, <1>3, GivenType DEF NewName
  <1>5. job[t].threshold \subseteq Thresholds
    BY <1>2
  <1>6. NewThresholds(t) \subseteq Thresholds
    BY <1>5, ThresholdAssumption DEF NewThresholds
  <1> QED BY <1>2, <1>3, <1>4, <1>5, <1>6 DEF After

LEMMA NextTInv == TInv /\ [Next]_vars => TInv'
  <1> SUFFICES ASSUME TInv, [Next]_vars PROVE TInv'
    OBVIOUS
  <1> USE DEF TInv
  <1>1. CASE Start \/ Schema \/ Columns \/ CreateSpare \/ Copy \/ DropTable \/ RenameTable
    BY <1>1 DEF Start, Schema, Columns, CreateSpare, Copy, DropTable, RenameTable, Go,
                TypeOK, Threaded, Numbered, Boot, nodeVars, channelVars, threadVars
  <1>2. CASE Import
    <2>1. /\ rows' \subseteq Boards
          /\ name' \in [Boards -> Int]
          /\ threshold' \in [Boards -> Thresholds]
      BY <1>2, FillType DEF Import, nodeVars, TypeOK
    <2>2. TypeOK'
      BY <1>2, <2>1 DEF Import, Go, TypeOK, Boot, channelVars, threadVars
    <2>3. rows \subseteq rows'
      BY <1>2 DEF Import, Fill, nodeVars
    <2>4. Threaded' /\ Numbered'
      BY <1>2, <2>3 DEF Import, Go, Threaded, Numbered, threadVars
    <2> QED BY <2>2, <2>4
  <1>3. CASE Kill
    BY <1>3, NoJobType DEF Kill, TypeOK, Threaded, Numbered, Boot, nodeVars, channelVars
  <1>4. ASSUME NEW t \in Threads, Lookup(t) PROVE TInv'
    <2>1. (IF job[t].board \in rows THEN "idle" ELSE "read") \in {"idle", "read", "reread"}
      OBVIOUS
    <2> QED BY <1>4, <2>1, AfterLeave DEF Lookup, nodeVars, TypeOK
  <1>5. ASSUME NEW t \in Threads, Read(t) PROVE TInv'
    <2>1. boot = "serving"
      BY <1>5 DEF Read, Step, Threaded
    <2>2. TypeOK'
      BY <1>5 DEF Read, Step, TypeOK, nodeVars, channelVars
    <2>3. Threaded' /\ Numbered'
      BY <1>5, <2>1 DEF Read, Step, TypeOK, Threaded, Numbered, nodeVars
    <2> QED BY <2>2, <2>3
  <1>6. ASSUME NEW t \in Threads, ChooseNumber(t) PROVE TInv'
    <2>1. boot = "serving"
      BY <1>6 DEF ChooseNumber, Step, Threaded
    <2>2. PICK max \in Numbers \cup {0} : pick' = [pick EXCEPT ![t] = max + 1]
      BY <1>6 DEF ChooseNumber
    <2>3. max + 1 \in Nat /\ max + 1 > 0
      BY DEF Numbers
    <2>4. TypeOK'
      BY <1>6, <2>2, <2>3 DEF ChooseNumber, Step, TypeOK, nodeVars, channelVars
    <2>5. Threaded' /\ Numbered'
      BY <1>6, <2>1, <2>2, <2>3 DEF ChooseNumber, Step, TypeOK, Threaded, Numbered, nodeVars
    <2> QED BY <2>4, <2>5
  <1>7. ASSUME NEW t \in Threads, Update(t) PROVE TInv'
    <2>1. name' \in [Boards -> Int]
      <3>1. job[t].name # NULL => job[t].name \in Int
        BY WriteTypes, GivenType
      <3> QED BY <1>7, <3>1 DEF Update, TypeOK
    <2>2. threshold' \in [Boards -> Thresholds]
      BY <1>7, WriteTypes DEF Update, TypeOK
    <2>3. job[t].board \in rows /\ After(t) \in {"idle", "read", "reread"}
      BY <1>7, WriteTypes DEF Update, Threaded
    <2>4. overtaken' \subseteq Threads
      BY <1>7 DEF Update, TypeOK
    <2> QED BY <1>7, <2>1, <2>2, <2>3, <2>4, AfterLeave DEF Update, TypeOK
  <1>8. ASSUME NEW t \in Threads, Insert(t) PROVE TInv'
    <2>1. name' \in [Boards -> Int] /\ threshold' \in [Boards -> Thresholds]
      BY <1>8, WriteTypes DEF Insert, WriteRow, TypeOK
    <2>2. /\ rows \subseteq rows' /\ rows' \subseteq Boards /\ job[t].board \in rows'
          /\ After(t) \in {"idle", "read", "reread"}
      BY <1>8, WriteTypes DEF Insert, WriteRow, TypeOK
    <2> QED BY <1>8, <2>1, <2>2, AfterLeave DEF Insert, WriteRow
  <1>9. ASSUME NEW t \in Threads, Refuse(t) PROVE TInv'
    BY <1>9, AfterLeave DEF Refuse, nodeVars, TypeOK
  <1>10. ASSUME NEW t \in Threads, Reread(t) PROVE TInv'
    BY <1>10, AfterLeave DEF Reread, nodeVars, TypeOK
  <1>11. ASSUME NEW b \in Boards, NEW t \in Threads, NEW n \in Given, Rename(t, b, n)
         PROVE  TInv'
    BY <1>11, Jobs, BeginType DEF Rename
  <1>12. ASSUME NEW b \in Boards, GetNodeName(MqttThread, b) PROVE TInv'
    BY <1>12, Jobs, BeginType DEF GetNodeName, Threads
  <1>13. ASSUME NEW b \in Boards, NEW t \in Requests, NEW v \in Thresholds,
                SetThreshold(t, b, v)
         PROVE  TInv'
    BY <1>13, Jobs, BeginType DEF SetThreshold, Threads
  <1>14. CASE UNCHANGED vars
    BY <1>14 DEF vars, nodeVars, channelVars, threadVars, TypeOK, Threaded, Numbered
  <1> QED
    BY <1>1, <1>2, <1>3, <1>4, <1>5, <1>6, <1>7, <1>8, <1>9, <1>10, <1>11, <1>12, <1>13,
       <1>14 DEF Next, Migrate, Call, Threads, Given

(***************************************************************************)
(* The tables, the migration and the threads are well typed.               *)
(***************************************************************************)
THEOREM TypeCorrect == Spec => []TypeOK
  <1>1. TInv => TypeOK
    BY DEF TInv
  <1> QED BY <1>1, InitTInv, NextTInv, PTL DEF Spec

-----------------------------------------------------------------------------
(* Generated names *)

\* Who chooses takes a number above all that are there.
LEMMA ChosenFresh ==
  ASSUME TInv, NEW t \in Threads, ChooseNumber(t)
  PROVE  pick'[t] > 0 /\ \A b \in rows : name[b] # pick'[t]
  <1>1. PICK max \in Numbers \cup {0} : /\ \A m \in Numbers : m <= max
                                       /\ pick' = [pick EXCEPT ![t] = max + 1]
    BY DEF ChooseNumber
  <1>2. max \in Nat /\ pick'[t] = max + 1
    BY <1>1 DEF Numbers, TInv, TypeOK
  <1>3. ASSUME NEW b \in rows, name[b] = max + 1 PROVE FALSE
    <2>1. name[b] \in Numbers
      BY <1>2, <1>3 DEF Numbers
    <2> QED BY <1>1, <1>2, <1>3, <2>1
  <1> QED BY <1>2, <1>3

LEMMA NextFresh == TInv /\ GeneratedFresh /\ [Next]_vars => GeneratedFresh'
  <1> SUFFICES ASSUME TInv, GeneratedFresh, [Next]_vars PROVE GeneratedFresh'
    OBVIOUS
  <1> USE DEF TInv, GeneratedFresh
  <1>1. CASE Start \/ Schema \/ Columns \/ CreateSpare \/ Copy \/ DropTable \/ RenameTable
    BY <1>1 DEF Start, Schema, Columns, CreateSpare, Copy, DropTable, RenameTable,
                nodeVars, threadVars
  <1>2. CASE Import
    BY <1>2 DEF Import, Go, Threaded, threadVars
  <1>3. CASE Kill
    BY <1>3 DEF Kill
  <1>4. ASSUME NEW t \in Threads, Lookup(t) \/ Refuse(t) \/ Reread(t) PROVE GeneratedFresh'
    <2>1. pc'[t] # "write"
      BY <1>4, LeaveType DEF Lookup, Refuse, Reread
    <2>2. \A u \in Threads \ {t} : /\ pc'[u] = pc[u] /\ job'[u] = job[u]
                                   /\ seen'[u] = seen[u] /\ pick'[u] = pick[u]
      BY <1>4, LeaveType DEF Lookup, Refuse, Reread
    <2>3. UNCHANGED <<rows, name, overtaken>>
      BY <1>4 DEF Lookup, Refuse, Reread, nodeVars
    <2> QED BY <2>1, <2>2, <2>3
  <1>5. ASSUME NEW t \in Threads, Read(t) PROVE GeneratedFresh'
    BY <1>5 DEF Read, Step, TypeOK, nodeVars
  <1>6. ASSUME NEW t \in Threads, ChooseNumber(t) PROVE GeneratedFresh'
    <2>1. \A u \in Threads \ {t} : /\ pc'[u] = pc[u] /\ pick'[u] = pick[u]
                                   /\ u \in overtaken <=> u \in overtaken'
      BY <1>6 DEF ChooseNumber, Step, TypeOK
    <2>2. rows' = rows /\ name' = name /\ job' = job /\ seen' = seen
      BY <1>6 DEF ChooseNumber, nodeVars
    <2>3. pick'[t] > 0 /\ \A b \in rows : name[b] # pick'[t]
      BY <1>6, ChosenFresh
    <2> SUFFICES ASSUME NEW u \in Threads,
                        (pc[u] = "write" /\ ~seen[u] /\ job[u].name = NULL /\ u \notin overtaken)'
                 PROVE  (pick[u] > 0 /\ \A b \in rows : name[b] # pick[u])'
      OBVIOUS
    <2>4. CASE u = t
      BY <2>2, <2>3, <2>4
    <2>5. CASE u # t
      <3>1. pc[u] = "write" /\ u \notin overtaken /\ pick'[u] = pick[u]
        BY <2>1, <2>5
      <3> QED BY <2>2, <3>1
    <2> QED BY <2>4, <2>5
  <1>7. ASSUME NEW t \in Threads, Update(t) PROVE GeneratedFresh'
    <2>1. After(t) \in {"idle", "reread"}
      BY DEF After
    <2>2. CASE job[t].ensure
      <3>1. name' = name /\ rows' = rows /\ overtaken' = overtaken
        BY <1>7, <2>2 DEF Update, Threaded, Single
      <3> QED BY <1>7, <2>1, <3>1, LeaveType DEF Update
    <2>3. CASE ~job[t].ensure
      BY <1>7, <2>1, <2>3, LeaveType DEF Update
    <2> QED BY <2>2, <2>3
  <1>8. ASSUME NEW t \in Threads, Insert(t) PROVE GeneratedFresh'
    <2>1. After(t) \in {"idle", "reread"}
      BY DEF After
    <2> QED BY <1>8, <2>1, LeaveType DEF Insert, WriteRow
  <1>9. ASSUME NEW t \in Threads, NEW j, Begin(t, j) PROVE GeneratedFresh'
    BY <1>9 DEF Begin, TypeOK, nodeVars
  <1>10. CASE UNCHANGED vars
    BY <1>10 DEF vars, nodeVars, threadVars
  <1> QED
    BY <1>1, <1>2, <1>3, <1>4, <1>5, <1>6, <1>7, <1>8, <1>9, <1>10
       DEF Next, Migrate, Call, Rename, GetNodeName, SetThreshold, Threads

(***************************************************************************)
(* A number chosen for a new node is in no row until another thread has    *)
(* written, for any number of nodes and whatever names users gave.         *)
(***************************************************************************)
THEOREM NumbersFresh == Spec => []GeneratedFresh
  <1>1. Init => GeneratedFresh
    BY DEF Init, ThreadsStart, GeneratedFresh
  <1> QED BY <1>1, InitTInv, NextTInv, NextFresh, PTL DEF Spec

-----------------------------------------------------------------------------
(* The migration *)

LEMMA InitMigrating == Init => Migrating
  BY DEF Init, Migrating

LEMMA NextMigrating == Migrating /\ [Next]_vars => Migrating'
  <1> SUFFICES ASSUME Migrating, [Next]_vars PROVE Migrating'
    OBVIOUS
  <1> USE DEF Migrating, channelVars
  <1>1. CASE Start \/ Schema \/ Columns \/ CreateSpare \/ Copy
    BY <1>1 DEF Start, Schema, Columns, CreateSpare, Copy, Go
  <1>2. CASE DropTable \/ RenameTable
    BY <1>2 DEF DropTable, RenameTable, Go
  <1>3. CASE Import \/ Kill
    BY <1>3 DEF Import, Kill, Go
  <1>4. ASSUME NEW t, Call(t) PROVE Migrating'
    BY <1>4 DEF Call, Lookup, Read, ChooseNumber, Update, Insert, WriteRow, Refuse, Reread
  <1>5. ASSUME NEW t, NEW j, Begin(t, j) PROVE Migrating'
    BY <1>5 DEF Begin
  <1>6. CASE UNCHANGED vars
    BY <1>6 DEF vars
  <1> QED
    BY <1>1, <1>2, <1>3, <1>4, <1>5, <1>6
       DEF Next, Migrate, Rename, GetNodeName, SetThreshold

(***************************************************************************)
(* No channel is lost, wherever the migration is cut.                      *)
(***************************************************************************)
THEOREM ChannelsSafe == Spec => []ChannelsKept
  <1>1. Migrating => ChannelsKept
    BY DEF Migrating, ChannelsKept
  <1> QED BY <1>1, InitMigrating, NextMigrating, PTL DEF Spec

-----------------------------------------------------------------------------
(* The refinement *)

LEMMA InitTable == Init => Table!Init
  BY DEF Init, Table!Init

LEMMA StepTable == TInv /\ TInv' /\ [Next]_vars => [Table!Next]_<<rows, name, threshold>>
  <1> SUFFICES ASSUME TInv, TInv', [Next]_vars
               PROVE  Table!Next \/ UNCHANGED <<rows, name, threshold>>
    OBVIOUS
  <1> USE DEF TInv, nodeVars
  <1>1. CASE Start \/ Schema \/ Columns \/ CreateSpare \/ Copy \/ DropTable \/ RenameTable
             \/ Kill
    BY <1>1 DEF Start, Schema, Columns, CreateSpare, Copy, DropTable, RenameTable, Kill
  <1>2. CASE Import
    BY <1>2, FillType DEF Import, Table!Next, Table!Import
  <1>3. ASSUME NEW t \in Threads,
               Lookup(t) \/ Read(t) \/ ChooseNumber(t) \/ Refuse(t) \/ Reread(t)
        PROVE  UNCHANGED <<rows, name, threshold>>
    BY <1>3 DEF Lookup, Read, ChooseNumber, Refuse, Reread
  <1>4. ASSUME NEW t \in Threads, Update(t)
        PROVE  Table!Next \/ UNCHANGED <<rows, name, threshold>>
    <2> DEFINE b == job[t].board
    <2>1. b \in rows /\ b \in Boards /\ rows' = rows
      BY <1>4, WriteTypes DEF Update, Threaded
    <2>2. CASE job[t].name # NULL
      <3>1. threshold' = threshold
        BY <1>4, <2>2 DEF Update, Threaded, Single
      <3>2. name' = [name EXCEPT ![b] = job[t].name] /\ job[t].name \in Given
        BY <1>4, <2>2, WriteTypes DEF Update
      <3>3. Table!Others(b) /\ name'[b] \in RenameTo \cup {Host}
        BY <2>1, <3>1, <3>2 DEF Table!Others, TypeOK, Given
      <3>4. Table!UserRename(b) \/ Table!FollowHost(b)
        BY <2>1, <3>1, <3>3 DEF Table!UserRename, Table!FollowHost, Table!Named
      <3> QED BY <2>1, <3>4 DEF Table!Next
    <2>3. CASE job[t].name = NULL /\ job[t].threshold # {}
      <3>1. name' = name
        BY <1>4, <2>3 DEF Update
      <3>2. PICK v \in Thresholds : threshold' = [threshold EXCEPT ![b] = v]
        BY <1>4, <2>3, WriteTypes DEF Update
      <3>3. Table!SetThreshold(b)
        BY <2>1, <3>1, <3>2 DEF Table!SetThreshold, Table!Others, TypeOK
      <3> QED BY <2>1, <3>3 DEF Table!Next
    <2>4. CASE job[t].name = NULL /\ job[t].threshold = {}
      BY <1>4, <2>1, <2>4 DEF Update
    <2> QED BY <2>2, <2>3, <2>4
  <1>5. ASSUME NEW t \in Threads, Insert(t) PROVE Table!Next
    <2> DEFINE b == job[t].board
    <2>1. /\ b \in Boards \ rows
          /\ rows' = rows \cup {b}
          /\ name' = [name EXCEPT ![b] = NewName(t)]
      BY <1>5, WriteTypes DEF Insert, WriteRow
    <2>2. PICK v \in NewThresholds(t) : threshold' = [threshold EXCEPT ![b] = v]
      BY <1>5 DEF Insert, WriteRow
    <2>3. Table!Others(b) /\ name'[b] = NewName(t) /\ threshold'[b] = v
      BY <2>1, <2>2 DEF Table!Others, TypeOK
    <2>4. v \in Thresholds
      BY WriteTypes
    <2>5. NewName(t) \in Table!Generated \/ (NewName(t) \in Given /\ v = Default)
      <3>1. CASE job[t].name = NULL
        <4>1. pick[t] > 0 /\ pick[t] \in Nat
          BY <1>5, <3>1 DEF Insert, WriteRow, Leave, Step, Numbered, TypeOK
        <4> QED BY <3>1, <4>1 DEF NewName, Table!Generated
      <3>2. CASE job[t].name # NULL
        <4>1. job[t].threshold = {}
          BY <3>2 DEF Threaded, Single
        <4> QED BY <3>2, <4>1, <2>2, WriteTypes DEF NewName, NewThresholds
      <3> QED BY <3>1, <3>2
    <2>6. Table!Create(b)
      BY <2>1, <2>3, <2>4, <2>5 DEF Table!Create, Given
    <2> QED BY <2>1, <2>6 DEF Table!Next
  <1>6. ASSUME NEW t \in Threads, NEW j, Begin(t, j)
        PROVE  UNCHANGED <<rows, name, threshold>>
    BY <1>6 DEF Begin
  <1>7. CASE UNCHANGED vars
    BY <1>7 DEF vars
  <1> QED
    BY <1>1, <1>2, <1>3, <1>4, <1>5, <1>6, <1>7
       DEF Next, Migrate, Call, Rename, GetNodeName, SetThreshold, Threads

(***************************************************************************)
(* The statements of db.py, with any threads between them, do to the table *)
(* nodes what NodeTable says and nothing else.                             *)
(***************************************************************************)
THEOREM TableImplemented == Spec => ImplementsNodeTable
  BY InitTInv, NextTInv, InitTable, StepTable, PTL DEF Spec, ImplementsNodeTable, Table!Spec

=============================================================================
