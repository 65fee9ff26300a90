----------------------------- MODULE NodeTable -----------------------------
(***************************************************************************)
(* What dashboard/db.py promises about the table nodes, without threads,   *)
(* statements or restarts.  A row, once there, stays.  A call concerns one *)
(* row and changes its name or its threshold, never both: so no rename and *)
(* no message undoes a threshold, and no threshold a name.  A row is       *)
(* created with the name given and the default threshold, or with a        *)
(* generated name.  An empty table may be filled from files.               *)
(*                                                                         *)
(* A name is not promised to last: FollowHost, which every status of the   *)
(* node brings, also replaces one that a user gave.                        *)
(***************************************************************************)
EXTENDS Integers

CONSTANTS Boards, UserNames, Hostname, Thresholds, Default

VARIABLES rows, name, threshold

Init == rows \in SUBSET Boards

Generated == Nat \ {0}

Others(b) == \A c \in Boards \ {b} : name'[c] = name[c] /\ threshold'[c] = threshold[c]

Create(b) == /\ b \notin rows
             /\ rows' = rows \cup {b}
             /\ \/ name'[b] \in Generated /\ threshold'[b] \in Thresholds
                \/ name'[b] \in UserNames \cup {Hostname} /\ threshold'[b] = Default
             /\ Others(b)

Named(b, N) == /\ b \in rows
               /\ name'[b] \in N
               /\ Others(b)
               /\ UNCHANGED <<rows, threshold>>

UserRename(b) == Named(b, UserNames)
FollowHost(b) == Named(b, {Hostname})

SetThreshold(b) == /\ b \in rows
                   /\ threshold'[b] \in Thresholds
                   /\ Others(b)
                   /\ UNCHANGED <<rows, name>>

Import == /\ rows = {}
          /\ rows' \subseteq Boards
          /\ name' \in [Boards -> Int]
          /\ threshold' \in [Boards -> Thresholds]

Next == Import \/ \E b \in Boards : \/ Create(b) \/ UserRename(b)
                                    \/ FollowHost(b) \/ SetThreshold(b)

Spec == Init /\ [][Next]_<<rows, name, threshold>>

=============================================================================
