------------------------------ MODULE PcmQueue ------------------------------
(***************************************************************************)
(* What the PCM ring of firmware/audio.cpp promises: a bounded first-in    *)
(* first-out queue of samples, read a whole TCP chunk at a time.  A sample *)
(* that finds the queue full is dropped; losing the client empties it.     *)
(***************************************************************************)
EXTENDS Naturals, Sequences

CONSTANTS Samples, Capacity, ChunkSize

VARIABLES queue,   \* the samples not yet taken
          out      \* the chunk on its way to the client, or << >>

vars == <<queue, out>>

Init == queue = <<>> /\ out = <<>>

Put(x) == /\ Len(queue) < Capacity
          /\ queue' = Append(queue, x)
          /\ UNCHANGED out

Take == /\ out = <<>>
        /\ Len(queue) >= ChunkSize
        /\ out' = SubSeq(queue, 1, ChunkSize)
        /\ queue' = SubSeq(queue, ChunkSize + 1, Len(queue))

Deliver == out # <<>> /\ out' = <<>> /\ UNCHANGED queue

Clear == queue' = <<>> /\ UNCHANGED out

Next == \/ \E x \in Samples : Put(x)
        \/ Take \/ Deliver \/ Clear

Spec == Init /\ [][Next]_vars
=============================================================================
