----------------------------- MODULE AudioRelay -----------------------------
(***************************************************************************)
(* dashboard/audio_relay.py: the threads that pull the nodes' PCM streams  *)
(* while a browser is connected.                                           *)
(*                                                                         *)
(* update, listener_connected and listener_disconnected hold the module's  *)
(* lock; the relay threads read ip, port, active and _listeners without    *)
(* it.  A relay's three fields are assigned in one statement whose stores  *)
(* the interpreter does not separate, so update is one step; what a thread *)
(* tests and what it uses next are separate steps.                         *)
(*                                                                         *)
(* The nodes' side is the set up of addresses that accept connections and  *)
(* send: with the address up every socket call of the thread succeeds,     *)
(* otherwise it raises, at the latest after its time-out.  The attribute   *)
(* stop is never set by the code and left out.                             *)
(*                                                                         *)
(* The definitions commented "faulty" are not part of the specification:   *)
(* each is a variant of the definition after it that one property below    *)
(* must reject.                                                            *)
(***************************************************************************)
EXTENDS Naturals, FiniteSets

CONSTANTS Nodes, Browsers, MaxRelays,
          Addresses,      \* (ip, port) pairs
          Strangers,      \* addresses where something else than a node answers
          NoAddress       \* no ip or port 0

ASSUME RelayAssumption == /\ IsFiniteSet(Nodes)
                          /\ MaxRelays \in Nat
                          /\ NoAddress \notin Addresses
                          /\ Strangers \subseteq Addresses

VARIABLES
  relays,       \* the keys of _relays
  target,       \* Relay.ip, Relay.port
  active,       \* Relay.active
  browsers,     \* browsers whose connect handler ran: _listeners of them
  pc,           \* the relay threads
  sock,         \* the address a thread has a socket to
  up,           \* addresses that accept and send
  late          \* history: chunks emitted in a row that nobody wanted any
                \* more; 2 stands for any higher number

vars == <<relays, target, active, browsers, pc, sock, up, late>>

Address == Addresses \cup {NoAddress}
listeners == Cardinality(browsers)

\* "absent": no Relay object yet.  "dead": an exception ended the thread.
Pc == {"absent", "top", "connect", "header", "loop", "read", "retry", "dead"}

TypeOK == /\ relays \subseteq Nodes
          /\ target \in [Nodes -> Address]
          /\ active \in [Nodes -> BOOLEAN]
          /\ browsers \subseteq Browsers
          /\ pc \in [Nodes -> Pc]
          /\ sock \in [Nodes -> Address]
          /\ up \subseteq Addresses
          /\ late \in [Nodes -> 0..2]

Init == /\ relays = {}
        /\ target = [n \in Nodes |-> NoAddress]
        /\ active = [n \in Nodes |-> FALSE]
        /\ browsers = {}
        /\ pc = [n \in Nodes |-> "absent"]
        /\ sock = [n \in Nodes |-> NoAddress]
        /\ up \in SUBSET Addresses
        /\ late = [n \in Nodes |-> 0]

\* Relay.connected, set between the header and the end of the stream.
connected(n) == pc[n] \in {"loop", "read"}

-----------------------------------------------------------------------------
(* update, called for every status by the MQTT thread *)

\* Faulty: active without bool() holds the last operand.
SetRelayUncast(n, a, on) ==
  /\ target' = [target EXCEPT ![n] = a]
  /\ active' = [active EXCEPT ![n] = IF on THEN a ELSE FALSE]

SetRelay(n, a, on) ==
  /\ target' = [target EXCEPT ![n] = a]
  /\ active' = [active EXCEPT ![n] = on /\ a # NoAddress]

\* Faulty: off by one.
NewRelayAtLimit(n, a, on) ==
  /\ n \notin relays
  /\ on
  /\ Cardinality(relays) <= MaxRelays
  /\ relays' = relays \cup {n}
  /\ pc' = [pc EXCEPT ![n] = "top"]
  /\ SetRelay(n, a, on)
  /\ UNCHANGED <<browsers, sock, up, late>>

NewRelay(n, a, on) ==
  /\ n \notin relays
  /\ on
  /\ Cardinality(relays) < MaxRelays
  /\ relays' = relays \cup {n}
  /\ pc' = [pc EXCEPT ![n] = "top"]
  /\ SetRelay(n, a, on)
  /\ UNCHANGED <<browsers, sock, up, late>>

Full(n) == n \notin relays /\ Cardinality(relays) >= MaxRelays

\* The limit is logged and the status is otherwise ignored.
RefuseRelay(n, on) == /\ on
                      /\ Full(n)
                      /\ UNCHANGED vars

Retarget(n, a, on) ==
  /\ n \in relays
  /\ SetRelay(n, a, on)
  /\ UNCHANGED <<relays, browsers, pc, sock, up, late>>

Update(n, a, on) == NewRelay(n, a, on) \/ RefuseRelay(n, on) \/ Retarget(n, a, on)

-----------------------------------------------------------------------------
(* Socket.IO connect and disconnect *)

listener_connected(w) == /\ w \notin browsers
                         /\ browsers' = browsers \cup {w}
                         /\ UNCHANGED <<relays, target, active, pc, sock, up, late>>

listener_disconnected(w) == /\ w \in browsers
                            /\ browsers' = browsers \ {w}
                            /\ UNCHANGED <<relays, target, active, pc, sock, up, late>>

-----------------------------------------------------------------------------
(* A relay thread: _run and _stream *)

Goto(n, label) == pc' = [pc EXCEPT ![n] = label]

\* _run, top of the loop; while the test fails the thread sleeps and retests.
Begin(n) == /\ pc[n] = "top"
            /\ active[n] /\ target[n] # NoAddress /\ listeners > 0
            /\ Goto(n, "connect")
            /\ UNCHANGED <<relays, target, active, browsers, sock, up, late>>

\* create_connection reads ip and port again.
Connect(n) == /\ pc[n] = "connect"
              /\ target[n] \in up
              /\ sock' = [sock EXCEPT ![n] = target[n]]
              /\ Goto(n, "header")
              /\ UNCHANGED <<relays, target, active, browsers, up, late>>

ReadHeader(n) == /\ pc[n] = "header"
                 /\ sock[n] \in up \ Strangers
                 /\ Goto(n, "loop")
                 /\ UNCHANGED <<relays, target, active, browsers, sock, up, late>>

\* A stranger's first line is JSON but no object: info.get raises what _run
\* does not catch.
BadHeader(n) == /\ pc[n] = "header"
                /\ sock[n] \in up \cap Strangers
                /\ sock' = [sock EXCEPT ![n] = NoAddress]
                /\ Goto(n, "dead")
                /\ UNCHANGED <<relays, target, active, browsers, up, late>>

\* Whether the status and the browsers still ask for the stream.
Wanted(n) == active[n] /\ browsers # {}

\* Faulty: the loop does not look for browsers.
GoOnUnattended(n) == active[n]

\* The test of the streaming loop.
GoOn(n) == active[n] /\ listeners > 0

Loop(n) == /\ pc[n] = "loop"
           /\ GoOn(n)
           /\ late' = [late EXCEPT ![n] = IF Wanted(n) THEN 0 ELSE @]
           /\ Goto(n, "read")
           /\ UNCHANGED <<relays, target, active, browsers, sock, up>>

Leave(n) == /\ pc[n] = "loop"
            /\ ~GoOn(n)
            /\ sock' = [sock EXCEPT ![n] = NoAddress]
            /\ Goto(n, "top")
            /\ UNCHANGED <<relays, target, active, browsers, up, late>>

\* _read_exact and the audio_data event, wanted or not by now.
Chunk(n) == /\ pc[n] = "read"
            /\ sock[n] \in up
            /\ late' = [late EXCEPT ![n] = IF Wanted(n) THEN 0
                                            ELSE IF @ = 0 THEN 1 ELSE 2]
            /\ Goto(n, "loop")
            /\ UNCHANGED <<relays, target, active, browsers, sock, up>>

\* Faulty: the socket is not closed on an error.
FailOpen(n) == /\ \/ pc[n] = "connect" /\ target[n] \notin up
                  \/ pc[n] = "header" /\ sock[n] \notin up \ Strangers
                  \/ pc[n] = "read" /\ sock[n] \notin up
               /\ Goto(n, IF active[n] THEN "retry" ELSE "top")
               /\ UNCHANGED <<relays, target, active, browsers, sock, up, late>>

\* Faulty: the error ends the thread.
FailForGood(n) == /\ \/ pc[n] = "connect" /\ target[n] \notin up
                     \/ pc[n] = "header" /\ sock[n] \notin up \ Strangers
                     \/ pc[n] = "read" /\ sock[n] \notin up
                  /\ sock' = [sock EXCEPT ![n] = NoAddress]
                  /\ Goto(n, "dead")
                  /\ UNCHANGED <<relays, target, active, browsers, up, late>>

\* OSError or ValueError out of _stream: the socket is closed and an active
\* relay waits RETRY_S.
Fail(n) == /\ \/ pc[n] = "connect" /\ target[n] \notin up
              \/ pc[n] = "header" /\ sock[n] \notin up \ Strangers
              \/ pc[n] = "read" /\ sock[n] \notin up
           /\ sock' = [sock EXCEPT ![n] = NoAddress]
           /\ Goto(n, IF active[n] THEN "retry" ELSE "top")
           /\ UNCHANGED <<relays, target, active, browsers, up, late>>

Retry(n) == /\ pc[n] = "retry"
            /\ Goto(n, "top")
            /\ UNCHANGED <<relays, target, active, browsers, sock, up, late>>

\* What the thread does when its peer is a node.
Run(n) == \/ Begin(n) \/ Connect(n) \/ ReadHeader(n) \/ Loop(n) \/ Leave(n)
          \/ Chunk(n) \/ Fail(n) \/ Retry(n)

-----------------------------------------------------------------------------

\* A node's stream server appears at an address or vanishes from it.
Network == /\ up' \in SUBSET Addresses
           /\ UNCHANGED <<relays, target, active, browsers, pc, sock, late>>

Next == \/ \E n \in Nodes : \/ \E a \in Address, on \in BOOLEAN : Update(n, a, on)
                            \/ Run(n) \/ BadHeader(n)
        \/ \E w \in Browsers : listener_connected(w) \/ listener_disconnected(w)
        \/ Network

\* The threads are daemon threads the interpreter schedules, and every socket
\* call returns or raises within its time-out.
Fairness == \A n \in Nodes : WF_vars(Run(n))

Spec == Init /\ [][Next]_vars /\ Fairness

-----------------------------------------------------------------------------
(* Properties *)

(***************************************************************************)
(* "Bound on concurrent node streams" (MAX_RELAYS): no interleaving of     *)
(* statuses and threads has more sockets open to nodes than the limit.     *)
(***************************************************************************)
StreamBound == Cardinality({n \in Nodes : sock[n] # NoAddress}) <= MaxRelays

(***************************************************************************)
(* "An unattended dashboard costs the nodes nothing": after the last       *)
(* browser left or the node was paused, a stream delivers at most the      *)
(* chunk that was being read.                                              *)
(***************************************************************************)
OneLateChunk == \A n \in Nodes : late[n] <= 1

(***************************************************************************)
(* A thread holds a socket exactly from the connection to the end of the   *)
(* stream, so no path out of _stream leaks one.                            *)
(***************************************************************************)
SocketHeld == \A n \in Nodes : sock[n] # NoAddress <=>
                                 pc[n] \in {"header", "loop", "read"}

(***************************************************************************)
(* "When the last browser leaves, the loops exit, the node sees the socket *)
(* close" (docs/SDD.md), also one that was being opened; and a node that a *)
(* status paused (asleep, in recovery, gone) is let go.                    *)
(***************************************************************************)
UnwantedStops ==
  \A n \in Nodes : <>[](browsers = {}) \/ <>[](~active[n]) => <>[](sock[n] = NoAddress)

(***************************************************************************)
(* While someone listens, an active node that can be reached is streamed   *)
(* for good, also after failures and after it moved to another address:    *)
(* the old address is dead then, and the relay follows.  Only a relay that *)
(* never met a stranger: the exception one causes may end its thread.      *)
(***************************************************************************)
Stable(n, a) == active[n] /\ target[n] = a /\ up = {a} /\ browsers # {}

ActiveStreams ==
  \A n \in Nodes, a \in Addresses :
    [](sock[n] \notin Strangers) /\ <>[]Stable(n, a)
      => <>[](connected(n) /\ sock[n] = a)

=============================================================================
