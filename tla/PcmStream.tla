----------------------------- MODULE PcmStream ------------------------------
(***************************************************************************)
(* The raw PCM stream of firmware/audio.cpp: a ring written by captureTask *)
(* on one core and drained by streamTask on the other, without a lock.     *)
(*                                                                         *)
(* A step is one access to a shared word; head++ is a load and a store.    *)
(* captureTask copies s_streaming at the start of a chunk: a chunk begun   *)
(* while it is false leaves the ring alone and is no step here.            *)
(*                                                                         *)
(* streamTask's delay(30) before it frees the ring is taken to outlive the *)
(* chunk in flight (a chunk is processed in less than the 23 ms it lasts). *)
(*                                                                         *)
(* WiFiClient is external: write may fall short, a peer may hang up, and   *)
(* the boolean value of a closed client is not fixed, so that its release  *)
(* may come at any later time or never.  Overlap = FALSE says that no      *)
(* client is accepted before the one before it was released.               *)
(***************************************************************************)
EXTENDS Naturals, Sequences

CONSTANTS Samples,      \* 16-bit samples
          Junk,         \* what malloc leaves in a cell
          NoRing,       \* s_ring == nullptr
          RingSamples,  \* RING_SAMPLES
          ChunkWords,   \* CHUNK_WORDS
          StreamChunk,  \* STREAM_CHUNK
          Wrap,         \* 2^32, where the indices wrap
          Overlap

ASSUME RingAssumption ==
  /\ Junk \notin Samples
  /\ NoRing \notin [0..RingSamples - 1 -> Samples \cup {Junk}]
  /\ RingSamples \in Nat \ {0} /\ ChunkWords \in Nat \ {0}
  /\ StreamChunk \in 1..RingSamples
  /\ Wrap \in Nat /\ Wrap % RingSamples = 0 /\ Wrap > RingSamples
  /\ Overlap \in BOOLEAN

Cells == 0..RingSamples - 1
Index == 0..Wrap - 1

VARIABLES
  ring, head, tail, streaming,     \* s_ring, s_head, s_tail, s_streaming
  capPc, left, reg,                \* captureTask: samples left, register of head++
  strPc, chunk,                    \* streamTask
  client                           \* its client

ringVars == <<ring, head, tail, streaming>>
capVars == <<capPc, left, reg>>
strVars == <<strPc, chunk, client>>
vars == <<ringVars, capVars, strVars>>

TypeOK == /\ ring = NoRing \/ ring \in [Cells -> Samples \cup {Junk}]
          /\ head \in Index /\ tail \in Index /\ reg \in Index
          /\ streaming \in BOOLEAN
          /\ capPc \in {"idle", "test", "write", "load", "store"}
          /\ left \in 0..ChunkWords
          /\ strPc \in {"serve", "acquire", "reset", "publish", "copy", "write", "drain"}
          /\ chunk \in Seq(Samples \cup {Junk}) /\ Len(chunk) <= StreamChunk
          /\ client \in {"none", "open", "closed"}

Init == /\ ring = NoRing /\ head = 0 /\ tail = 0 /\ streaming = FALSE
        /\ capPc = "idle" /\ left = 0 /\ reg = 0
        /\ strPc = "serve" /\ chunk = <<>> /\ client = "none"

Unread == (head + Wrap - tail) % Wrap

-----------------------------------------------------------------------------
(* captureTask, processChunk *)

BeginChunk == /\ capPc = "idle" /\ streaming
              /\ capPc' = "test" /\ left' = ChunkWords
              /\ UNCHANGED <<ringVars, strVars, reg>>

\* The next sample of the chunk, or its end.
NextSample == /\ left' = left - 1
              /\ capPc' = IF left = 1 THEN "idle" ELSE "test"

\* Faulty: one sample too many.
HasRoomLate == ring # NoRing /\ Unread <= RingSamples

\* Faulty: only when a whole TCP chunk would fit.
HasRoomForChunk == ring # NoRing /\ Unread + StreamChunk <= RingSamples

HasRoom == ring # NoRing /\ Unread < RingSamples

Test == /\ capPc = "test"
        /\ IF HasRoom THEN capPc' = "write" /\ UNCHANGED left ELSE NextSample
        /\ UNCHANGED <<ringVars, strVars, reg>>

Write(x) == /\ capPc = "write" /\ ring # NoRing
            /\ ring' = [ring EXCEPT ![head % RingSamples] = x]
            /\ capPc' = "load"
            /\ UNCHANGED <<head, tail, streaming, left, reg, strVars>>

Load == /\ capPc = "load"
        /\ reg' = head
        /\ capPc' = "store"
        /\ UNCHANGED <<ringVars, left, strVars>>

\* Faulty: the index does not wrap.
StoreUnwrapped == /\ capPc = "store"
                  /\ head' = reg + 1
                  /\ NextSample
                  /\ UNCHANGED <<ring, tail, streaming, reg, strVars>>

Store == /\ capPc = "store"
         /\ head' = (reg + 1) % Wrap
         /\ NextSample
         /\ UNCHANGED <<ring, tail, streaming, reg, strVars>>

Capture == BeginChunk \/ Test \/ (\E x \in Samples : Write(x)) \/ Load \/ Store

-----------------------------------------------------------------------------
(* streamTask *)

\* A client is accepted; an older one is stopped.
Accept == /\ strPc = "serve"
          /\ Overlap \/ ~streaming
          /\ client' = "open"
          /\ strPc' = "acquire"
          /\ UNCHANGED <<ringVars, capVars, chunk>>

\* ringAcquire: malloc, unless there is a ring, then s_tail = 0 ...
Acquire == /\ strPc = "acquire"
           /\ ring' = IF ring = NoRing THEN [c \in Cells |-> Junk] ELSE ring
           /\ tail' = 0
           /\ strPc' = "reset"
           /\ UNCHANGED <<head, streaming, capVars, chunk, client>>

Refuse == /\ strPc = "acquire" /\ ring = NoRing
          /\ client' = "none"
          /\ strPc' = "serve"
          /\ UNCHANGED <<ringVars, capVars, chunk>>

\* Faulty: the head stays where the last stream left it.
ResetForgotten == /\ strPc = "reset"
                  /\ strPc' = "publish"
                  /\ UNCHANGED <<ringVars, capVars, chunk, client>>

\* ... and s_head = 0.
Reset == /\ strPc = "reset"
         /\ head' = 0
         /\ strPc' = "publish"
         /\ UNCHANGED <<ring, tail, streaming, capVars, chunk, client>>

Publish == /\ strPc = "publish"
           /\ streaming' = TRUE
           /\ strPc' = "serve"
           /\ UNCHANGED <<ring, head, tail, capVars, chunk, client>>

StartChunk == /\ strPc = "serve" /\ client = "open"
              /\ Unread >= StreamChunk
              /\ strPc' = "copy"
              /\ UNCHANGED <<ringVars, capVars, chunk, client>>

Copy == /\ strPc = "copy" /\ Len(chunk) < StreamChunk
        /\ chunk' = Append(chunk, ring[(tail + Len(chunk)) % RingSamples])
        /\ UNCHANGED <<ringVars, capVars, strPc, client>>

Advance == /\ strPc = "copy" /\ Len(chunk) = StreamChunk
           /\ tail' = (tail + StreamChunk) % Wrap
           /\ strPc' = "write"
           /\ UNCHANGED <<ring, head, streaming, capVars, chunk, client>>

\* client.write, whole or short; a short one stops the client.
Written == /\ strPc = "write"
           /\ client' \in {client, "closed"}
           /\ chunk' = <<>>
           /\ strPc' = "serve"
           /\ UNCHANGED <<ringVars, capVars>>

\* ringRelease: s_streaming = false and the delay ...
Release == /\ strPc = "serve" /\ client = "closed"
           /\ client' = "none"
           /\ streaming' = FALSE
           /\ strPc' = "drain"
           /\ UNCHANGED <<ring, head, tail, capVars, chunk>>

\* Faulty: without the delay.
FreeAtOnce == /\ strPc = "drain"
              /\ ring' = NoRing
              /\ strPc' = "serve"
              /\ UNCHANGED <<head, tail, streaming, capVars, chunk, client>>

\* ... which lets a chunk in flight finish, and free.
Free == /\ strPc = "drain" /\ capPc = "idle"
        /\ ring' = NoRing
        /\ strPc' = "serve"
        /\ UNCHANGED <<head, tail, streaming, capVars, chunk, client>>

Stream == \/ Acquire \/ Refuse \/ Reset \/ Publish
          \/ StartChunk \/ Copy \/ Advance \/ Written \/ Free

-----------------------------------------------------------------------------

\* The peer closes the connection.
HangUp == /\ client = "open"
          /\ client' = "closed"
          /\ UNCHANGED <<ringVars, capVars, strPc, chunk>>

Next == Capture \/ Accept \/ Stream \/ Release \/ HangUp

\* Both tasks run; the peer and the release of its client owe nothing.
Spec == Init /\ [][Next]_vars /\ WF_vars(Capture) /\ WF_vars(Stream)

-----------------------------------------------------------------------------
(* Properties *)

\* The stream is set up: not in the middle of ringAcquire or ringRelease.
Serving == streaming /\ strPc \in {"serve", "copy", "write"}

(***************************************************************************)
(* The ring never claims more unread samples than it has cells: what       *)
(* streamTask sends is at most one ring old ("~185 ms of PCM"), across the *)
(* wrap of both indices and of the cells.                                  *)
(***************************************************************************)
UnreadBounded == Serving => Unread <= RingSamples

(***************************************************************************)
(* "owned by the stream task; the capture task only writes while           *)
(* s_streaming": a sample never goes into memory that was freed after the  *)
(* ring was tested.                                                        *)
(***************************************************************************)
WritesToLiveRing == capPc = "write" => ring # NoRing

\* The samples of the ring not yet taken, and the chunk given to the client.
Contents == IF streaming
            THEN [i \in 1..Unread |-> ring[(tail + i - 1) % RingSamples]] ELSE <<>>
Outgoing == IF strPc = "write" THEN chunk ELSE <<>>

(***************************************************************************)
(* The ring is PcmQueue: the client gets the samples in the order they     *)
(* were captured, none twice, none overwritten while it is copied out and  *)
(* none from an earlier client or from uninitialised memory.               *)
(***************************************************************************)
Queue == INSTANCE PcmQueue WITH
  Capacity <- RingSamples, ChunkSize <- StreamChunk,
  queue <- Contents, out <- Outgoing

ImplementsQueue == Queue!Spec

(***************************************************************************)
(* An open client is served for ever: capture and stream never wait on     *)
(* each other with a ring too full for one and too empty for the other.    *)
(***************************************************************************)
StreamFlows == <>[](streaming /\ client = "open") => []<>(strPc = "write")

=============================================================================
