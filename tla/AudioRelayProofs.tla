-------------------------- MODULE AudioRelayProofs --------------------------
(***************************************************************************)
(* Theorems about AudioRelay, for any number of nodes and any limit.       *)
(***************************************************************************)
EXTENDS AudioRelay, FiniteSetTheorems, TLAPS

LEMMA InitType == Init => TypeOK
  BY DEF Init, TypeOK, Address, Pc

LEMMA NextType == TypeOK /\ [Next]_vars => TypeOK'
  <1> SUFFICES ASSUME TypeOK, [Next]_vars PROVE TypeOK'
    OBVIOUS
  <1> USE DEF TypeOK, Pc, Address
  <1>1. ASSUME NEW n \in Nodes, NEW a \in Address, NEW on \in BOOLEAN, Update(n, a, on)
        PROVE  TypeOK'
    BY <1>1 DEF Update, NewRelay, RefuseRelay, Retarget, SetRelay, vars
  <1>2. ASSUME NEW n \in Nodes, Run(n) PROVE TypeOK'
    <2>1. CASE Begin(n)
      BY <2>1 DEF Begin, Goto
    <2>2. CASE Connect(n)
      BY <2>2 DEF Connect, Goto
    <2>3. CASE ReadHeader(n)
      BY <2>3 DEF ReadHeader, Goto
    <2>4. CASE Loop(n)
      BY <2>4 DEF Loop, Goto
    <2>5. CASE Leave(n)
      BY <2>5 DEF Leave, Goto
    <2>6. CASE Chunk(n)
      BY <2>6 DEF Chunk, Goto
    <2>7. CASE Fail(n)
      BY <2>7 DEF Fail, Goto
    <2>8. CASE Retry(n)
      BY <2>8 DEF Retry, Goto
    <2> QED BY <1>2, <2>1, <2>2, <2>3, <2>4, <2>5, <2>6, <2>7, <2>8 DEF Run
  <1>3. ASSUME NEW n \in Nodes, BadHeader(n) PROVE TypeOK'
    BY <1>3 DEF BadHeader, Goto
  <1>4. ASSUME NEW w \in Browsers, listener_connected(w) \/ listener_disconnected(w)
        PROVE  TypeOK'
    BY <1>4 DEF listener_connected, listener_disconnected
  <1>5. CASE Network
    BY <1>5 DEF Network
  <1>6. CASE UNCHANGED vars
    BY <1>6 DEF vars
  <1> QED BY <1>1, <1>2, <1>3, <1>4, <1>5, <1>6 DEF Next

(***************************************************************************)
(* The relays' state is well typed under every interleaving.               *)
(***************************************************************************)
THEOREM TypeCorrect == Spec => []TypeOK
  BY InitType, NextType, PTL DEF Spec

-----------------------------------------------------------------------------
(***************************************************************************)
(* The strengthening: threads exist only for the keys of _relays, whose    *)
(* number update bounds; a socket belongs to a thread inside _stream; and  *)
(* a thread enters the read only when the loop's test has just held.       *)
(***************************************************************************)
ThreadOK == \A n \in Nodes : n \notin relays => pc[n] = "absent"

KeysBounded == Cardinality(relays) <= MaxRelays

LateOK == \A n \in Nodes : late[n] <= 1 /\ (pc[n] = "read" => late[n] = 0)

\* However many browsers there may be, _listeners counts finitely many.
Countable == IsFiniteSet(browsers)

RInv == TypeOK /\ ThreadOK /\ KeysBounded /\ SocketHeld /\ LateOK /\ Countable

\* The loop's test on the counter is a test for a browser.
LEMMA GoOnWanted == ASSUME NEW n \in Nodes, GoOn(n) PROVE Wanted(n)
  <1>1. CASE browsers = {}
    BY <1>1, FS_EmptySet DEF GoOn, listeners
  <1>2. CASE browsers # {}
    BY <1>2 DEF GoOn, Wanted
  <1> QED BY <1>1, <1>2

LEMMA InitRInv == Init => RInv
  BY InitType, RelayAssumption, FS_EmptySet
  DEF Init, RInv, ThreadOK, KeysBounded, SocketHeld, LateOK, Countable

LEMMA KeysStep == RInv /\ [Next]_vars => KeysBounded'
  <1> SUFFICES ASSUME RInv, [Next]_vars PROVE KeysBounded'
    OBVIOUS
  <1>1. ASSUME NEW n \in Nodes, NEW a \in Address, NEW on \in BOOLEAN, NewRelay(n, a, on)
        PROVE  KeysBounded'
    <2>1. IsFiniteSet(relays) /\ Cardinality(relays) \in Nat
      BY RelayAssumption, FS_Subset, FS_CardinalityType DEF RInv, TypeOK
    <2>2. Cardinality(relays \cup {n}) = Cardinality(relays) + 1
      BY <1>1, <2>1, FS_AddElement DEF NewRelay
    <2> QED BY <1>1, <2>1, <2>2, RelayAssumption DEF NewRelay, KeysBounded
  <1>2. CASE UNCHANGED relays
    BY <1>2 DEF RInv, KeysBounded
  <1> QED
    BY <1>1, <1>2
    DEF Next, Update, RefuseRelay, Retarget, SetRelay, Run, Begin, Connect, ReadHeader,
        BadHeader, Loop, Leave, Chunk, Fail, Retry, listener_connected,
        listener_disconnected, Network, vars

LEMMA CountableStep == RInv /\ [Next]_vars => Countable'
  <1> SUFFICES ASSUME RInv, [Next]_vars PROVE Countable'
    OBVIOUS
  <1>1. ASSUME NEW w \in Browsers, listener_connected(w) \/ listener_disconnected(w)
        PROVE  Countable'
    <2>1. /\ IsFiniteSet(browsers \cup {w})
          /\ IsFiniteSet(browsers \ {w})
      BY FS_AddElement, FS_RemoveElement DEF RInv, Countable
    <2> QED BY <1>1, <2>1 DEF listener_connected, listener_disconnected, Countable
  <1>2. CASE UNCHANGED browsers
    BY <1>2 DEF RInv, Countable
  <1> QED
    BY <1>1, <1>2
    DEF Next, Update, NewRelay, RefuseRelay, Retarget, Run, Begin, Connect, ReadHeader,
        BadHeader, Loop, Leave, Chunk, Fail, Retry, Network, vars

LEMMA NextRInv == RInv /\ [Next]_vars => RInv'
  <1> SUFFICES ASSUME RInv, [Next]_vars PROVE (ThreadOK /\ SocketHeld /\ LateOK)'
    BY NextType, KeysStep, CountableStep DEF RInv
  <1> USE DEF RInv, TypeOK, ThreadOK, SocketHeld, LateOK, Goto
  <1>1. ASSUME NEW n \in Nodes, NEW a \in Address, NEW on \in BOOLEAN, Update(n, a, on)
        PROVE  (ThreadOK /\ SocketHeld /\ LateOK)'
    BY <1>1 DEF Update, NewRelay, RefuseRelay, Retarget, SetRelay, vars
  <1>2. ASSUME NEW n \in Nodes, Run(n) PROVE (ThreadOK /\ SocketHeld /\ LateOK)'
    <2>1. CASE Begin(n)
      BY <2>1 DEF Begin
    <2>2. CASE Connect(n)
      BY <2>2, RelayAssumption DEF Connect
    <2>3. CASE ReadHeader(n)
      BY <2>3 DEF ReadHeader
    <2>4. CASE Loop(n)
      BY <2>4, GoOnWanted DEF Loop
    <2>5. CASE Leave(n)
      BY <2>5 DEF Leave
    <2>6. CASE Chunk(n)
      BY <2>6 DEF Chunk
    <2>7. CASE Fail(n)
      BY <2>7 DEF Fail
    <2>8. CASE Retry(n)
      BY <2>8 DEF Retry
    <2> QED BY <1>2, <2>1, <2>2, <2>3, <2>4, <2>5, <2>6, <2>7, <2>8 DEF Run
  <1>3. ASSUME NEW n \in Nodes, BadHeader(n) PROVE (ThreadOK /\ SocketHeld /\ LateOK)'
    BY <1>3 DEF BadHeader
  <1>4. ASSUME NEW w \in Browsers, listener_connected(w) \/ listener_disconnected(w)
        PROVE  (ThreadOK /\ SocketHeld /\ LateOK)'
    BY <1>4 DEF listener_connected, listener_disconnected
  <1>5. CASE Network
    BY <1>5 DEF Network
  <1>6. CASE UNCHANGED vars
    BY <1>6 DEF vars
  <1> QED BY <1>1, <1>2, <1>3, <1>4, <1>5, <1>6 DEF Next

(***************************************************************************)
(* Whatever happens on the network, there are never more node streams open *)
(* than the limit: the open sockets belong to keys of _relays.             *)
(***************************************************************************)
THEOREM StreamsBounded == Spec => []StreamBound
  <1>1. RInv => StreamBound
    <2> SUFFICES ASSUME RInv PROVE StreamBound
      OBVIOUS
    <2> DEFINE open == {n \in Nodes : sock[n] # NoAddress}
    <2>1. open \subseteq relays
      BY DEF RInv, SocketHeld, ThreadOK
    <2>2. IsFiniteSet(relays)
      BY RelayAssumption, FS_Subset DEF RInv, TypeOK
    <2>3. /\ Cardinality(open) <= Cardinality(relays)
          /\ Cardinality(open) \in Nat /\ Cardinality(relays) \in Nat
      BY <2>1, <2>2, FS_Subset, FS_CardinalityType
    <2> QED BY <2>3, RelayAssumption DEF RInv, KeysBounded, StreamBound
  <1> QED BY <1>1, InitRInv, NextRInv, PTL DEF Spec

(***************************************************************************)
(* A stream nobody wants any more delivers at most one more chunk.         *)
(***************************************************************************)
THEOREM LateChunksBounded == Spec => []OneLateChunk
  <1>1. RInv => OneLateChunk
    BY DEF RInv, LateOK, OneLateChunk
  <1> QED BY <1>1, InitRInv, NextRInv, PTL DEF Spec

(***************************************************************************)
(* No exit from _stream leaves its socket open.                            *)
(***************************************************************************)
THEOREM SocketsHeld == Spec => []SocketHeld
  <1>1. RInv => SocketHeld
    BY DEF RInv
  <1> QED BY <1>1, InitRInv, NextRInv, PTL DEF Spec

-----------------------------------------------------------------------------
(* The safety halves of UnwantedStops and ActiveStreams: what the threads    *)
(* still have to do gets less with each of their steps, and nobody adds to   *)
(* it, so that only their fairness is left to assume.                        *)

\* The steps until the thread of n has closed its socket.
StepsToClosed(n) ==
  [absent |-> 0, top |-> 0, dead |-> 0, retry |-> 1, loop |-> 2, read |-> 3,
   header |-> 3, connect |-> 4][pc[n]]

\* The steps until it streams from a.
StepsToStream(n, a) ==
  IF sock[n] = a
  THEN IF pc[n] = "header" THEN 1 ELSE 0
  ELSE [connect |-> 2, top |-> 3, retry |-> 4, read |-> 5, header |-> 5, loop |-> 6,
        absent |-> 7, dead |-> 7][pc[n]]

\* The test at the top of _run and that of the loop fail alike.
LEMMA NotBegun == ASSUME NEW n \in Nodes, Begin(n) PROVE Wanted(n)
  <1>1. GoOn(n)
    BY DEF Begin, GoOn
  <1> QED BY <1>1, GoOnWanted

\* And with a browser there, the loop does not end while the relay is active.
LEMMA Attended ==
  ASSUME RInv, NEW n \in Nodes, NEW a \in Addresses, Stable(n, a) PROVE GoOn(n)
  <1>1. Cardinality(browsers) \in Nat /\ Cardinality(browsers) # 0
    BY FS_EmptySet, FS_CardinalityType DEF RInv, Countable, Stable
  <1> QED BY <1>1 DEF Stable, GoOn, listeners

\* A step of one thread leaves the others where they are.
LEMMA RunElsewhere ==
  ASSUME RInv, NEW n \in Nodes, NEW m \in Nodes, m # n, Run(m) \/ BadHeader(m)
  PROVE  pc'[n] = pc[n] /\ sock'[n] = sock[n]
  BY DEF RInv, TypeOK, Run, Begin, Connect, ReadHeader, BadHeader, Loop, Leave, Chunk,
         Fail, Retry, Goto

\* All that is not a thread's step leaves threads and sockets alone, but for
\* the start of a thread.
LEMMA OthersElsewhere ==
  ASSUME RInv, NEW n \in Nodes,
         \/ \E m \in Nodes, a \in Address, on \in BOOLEAN : Update(m, a, on)
         \/ \E w \in Browsers : listener_connected(w) \/ listener_disconnected(w)
         \/ Network \/ UNCHANGED vars
  PROVE  sock'[n] = sock[n] /\ (pc'[n] = pc[n] \/ (pc[n] = "absent" /\ pc'[n] = "top"))
  <1>1. ASSUME NEW m \in Nodes, NEW a \in Address, NEW on \in BOOLEAN, NewRelay(m, a, on)
        PROVE  sock'[n] = sock[n] /\ (pc'[n] = pc[n] \/ (pc[n] = "absent" /\ pc'[n] = "top"))
    <2>1. pc[m] = "absent" /\ pc \in [Nodes -> Pc]
      BY <1>1 DEF NewRelay, RInv, TypeOK, ThreadOK
    <2>2. sock' = sock /\ pc' = [pc EXCEPT ![m] = "top"]
      BY <1>1 DEF NewRelay
    <2>3. CASE n = m
      BY <2>1, <2>2, <2>3
    <2>4. CASE n # m
      BY <2>1, <2>2, <2>4
    <2> QED BY <2>3, <2>4
  <1>2. CASE pc' = pc /\ sock' = sock
    BY <1>2
  <1>3. \/ \E m \in Nodes, a \in Address, on \in BOOLEAN : NewRelay(m, a, on)
        \/ pc' = pc /\ sock' = sock
    BY
    DEF Update, RefuseRelay, Retarget, listener_connected, listener_disconnected,
        Network, vars
  <1> QED BY <1>1, <1>2, <1>3

\* So a step that is not the thread's own does to it what OthersElsewhere says.
LEMMA NotItsStep ==
  ASSUME RInv, [Next]_vars, NEW n \in Nodes, ~Run(n), ~BadHeader(n)
  PROVE  sock'[n] = sock[n] /\ (pc'[n] = pc[n] \/ (pc[n] = "absent" /\ pc'[n] = "top"))
  <1>1. ASSUME NEW m \in Nodes, Run(m) \/ BadHeader(m)
        PROVE  pc'[n] = pc[n] /\ sock'[n] = sock[n]
    <2>1. m # n
      BY <1>1
    <2> QED BY <1>1, <2>1, RunElsewhere
  <1>2. CASE \/ \E m \in Nodes, a \in Address, on \in BOOLEAN : Update(m, a, on)
             \/ \E w \in Browsers : listener_connected(w) \/ listener_disconnected(w)
             \/ Network \/ UNCHANGED vars
    BY <1>2, OthersElsewhere
  <1>3. \/ \E m \in Nodes : Run(m) \/ BadHeader(m)
        \/ \E m \in Nodes, a \in Address, on \in BOOLEAN : Update(m, a, on)
        \/ \E w \in Browsers : listener_connected(w) \/ listener_disconnected(w)
        \/ Network \/ UNCHANGED vars
    BY DEF Next
  <1> QED BY <1>1, <1>2, <1>3

LEMMA ClosingStep ==
  ASSUME RInv, [Next]_vars, NEW n \in Nodes, ~Wanted(n)
  PROVE  /\ StepsToClosed(n)' <= StepsToClosed(n)
         /\ Run(n) => StepsToClosed(n)' < StepsToClosed(n)
  <1>1. pc \in [Nodes -> Pc]
    BY DEF RInv, TypeOK
  <1>2. CASE Run(n)
    <2> USE <1>1 DEF StepsToClosed, Goto
    <2>1. ~Begin(n) /\ ~Loop(n)
      BY NotBegun, GoOnWanted DEF Loop
    <2>2. CASE Connect(n)
      BY <2>2 DEF Connect
    <2>3. CASE ReadHeader(n)
      BY <2>3 DEF ReadHeader
    <2>4. CASE Leave(n)
      BY <2>4 DEF Leave
    <2>5. CASE Chunk(n)
      BY <2>5 DEF Chunk
    <2>6. CASE Fail(n)
      BY <2>6 DEF Fail
    <2>7. CASE Retry(n)
      BY <2>7 DEF Retry
    <2> QED BY <1>2, <2>1, <2>2, <2>3, <2>4, <2>5, <2>6, <2>7 DEF Run
  <1>3. CASE BadHeader(n) /\ ~Run(n)
    BY <1>1, <1>3 DEF StepsToClosed, BadHeader, Goto
  <1>4. ASSUME ~Run(n), pc'[n] = pc[n] \/ (pc[n] = "absent" /\ pc'[n] = "top")
        PROVE  StepsToClosed(n)' <= StepsToClosed(n)
    BY <1>1, <1>4 DEF StepsToClosed, Pc
  <1>5. CASE ~Run(n) /\ ~BadHeader(n)
    BY <1>4, <1>5, NotItsStep
  <1> QED BY <1>2, <1>3, <1>5

(***************************************************************************)
(* While nobody asks for a node's stream, each step of its thread brings   *)
(* the thread nearer to having closed its socket, from wherever it is,     *)
(* nothing else takes it farther, and when it is there the socket is       *)
(* closed.                                                                 *)
(***************************************************************************)
THEOREM UnwantedWindsDown ==
  ASSUME NEW n \in Nodes
  PROVE  Spec => /\ [](StepsToClosed(n) = 0 => sock[n] = NoAddress)
                 /\ [][~Wanted(n) => /\ StepsToClosed(n)' <= StepsToClosed(n)
                                     /\ Run(n) => StepsToClosed(n)' < StepsToClosed(n)]_vars
  <1>1. RInv => (StepsToClosed(n) = 0 => sock[n] = NoAddress)
    BY DEF RInv, TypeOK, Pc, SocketHeld, StepsToClosed
  <1>2. RInv /\ [Next]_vars =>
          [~Wanted(n) => /\ StepsToClosed(n)' <= StepsToClosed(n)
                         /\ Run(n) => StepsToClosed(n)' < StepsToClosed(n)]_vars
    BY ClosingStep
  <1> QED BY <1>1, <1>2, InitRInv, NextRInv, PTL DEF Spec

\* Only a step of its own changes the socket of a thread, and nobody but the
\* thread moves it once it runs.
LEMMA StreamingStep ==
  ASSUME RInv, [Next]_vars, NEW n \in Nodes, NEW a \in Addresses, Stable(n, a),
         sock[n] \notin Strangers
  PROVE  /\ StepsToStream(n, a)' <= StepsToStream(n, a)
         /\ Run(n) /\ StepsToStream(n, a) > 0
              => StepsToStream(n, a)' < StepsToStream(n, a)
  <1>1. /\ pc \in [Nodes -> Pc] /\ sock \in [Nodes -> Address]
        /\ sock[n] # NoAddress <=> pc[n] \in {"header", "loop", "read"}
        /\ a # NoAddress
    BY RelayAssumption DEF RInv, TypeOK, SocketHeld
  <1>2. active[n] /\ target[n] = a /\ up = {a}
    BY DEF Stable
  <1>3. CASE Run(n)
    <2> USE <1>1, <1>2 DEF StepsToStream, Goto
    <2>1. CASE Begin(n)
      BY <2>1 DEF Begin
    <2>2. CASE Connect(n)
      BY <2>2 DEF Connect
    <2>3. CASE ReadHeader(n)
      BY <2>3 DEF ReadHeader
    <2>4. CASE Loop(n)
      BY <2>4 DEF Loop
    <2>5. ~Leave(n)
      BY Attended DEF Leave
    <2>6. CASE Chunk(n)
      BY <2>6 DEF Chunk
    <2>7. CASE Fail(n)
      <3>1. sock[n] # a \/ pc[n] \notin {"header", "read"}
        BY <2>7 DEF Fail
      <3> QED BY <2>7, <3>1 DEF Fail
    <2>8. CASE Retry(n)
      BY <2>8 DEF Retry
    <2> QED BY <1>3, <2>1, <2>2, <2>3, <2>4, <2>5, <2>6, <2>7, <2>8 DEF Run
  <1>4. ASSUME sock'[n] = sock[n], pc'[n] = pc[n] \/ (pc[n] = "absent" /\ pc'[n] = "top")
        PROVE  StepsToStream(n, a)' <= StepsToStream(n, a)
    BY <1>1, <1>4 DEF StepsToStream, Pc
  <1>5. CASE ~Run(n)
    <2>1. ~BadHeader(n)
      BY DEF BadHeader
    <2> QED BY <1>4, <1>5, <2>1, NotItsStep
  <1> QED BY <1>3, <1>5

(***************************************************************************)
(* While someone listens, only a's stream server is up and the statuses    *)
(* name a, each step of an active node's thread brings it nearer to        *)
(* streaming from a, whatever state or older address it was in, nothing    *)
(* takes it farther, and the distance is 0 exactly when it streams.  Only  *)
(* for as long as its socket is to no stranger.                            *)
(***************************************************************************)
THEOREM ActiveDrawsNear ==
  ASSUME NEW n \in Nodes, NEW a \in Addresses
  PROVE  Spec => /\ [](StepsToStream(n, a) = 0 <=> connected(n) /\ sock[n] = a)
                 /\ [][Stable(n, a) /\ sock[n] \notin Strangers =>
                         /\ StepsToStream(n, a)' <= StepsToStream(n, a)
                         /\ Run(n) /\ StepsToStream(n, a) > 0
                              => StepsToStream(n, a)' < StepsToStream(n, a)]_vars
  <1>1. RInv => (StepsToStream(n, a) = 0 <=> connected(n) /\ sock[n] = a)
    BY RelayAssumption DEF RInv, TypeOK, Pc, SocketHeld, StepsToStream, connected
  <1>2. RInv /\ [Next]_vars =>
          [Stable(n, a) /\ sock[n] \notin Strangers =>
             /\ StepsToStream(n, a)' <= StepsToStream(n, a)
             /\ Run(n) /\ StepsToStream(n, a) > 0
                  => StepsToStream(n, a)' < StepsToStream(n, a)]_vars
    BY StreamingStep
  <1> QED BY <1>1, <1>2, InitRInv, NextRInv, PTL DEF Spec

=============================================================================
