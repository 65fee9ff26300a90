--------------------------- MODULE PcmStreamProofs --------------------------
(***************************************************************************)
(* Theorems about PcmStream, for rings, chunks and indices of any size.    *)
(***************************************************************************)
EXTENDS PcmStream, SequenceTheorems, TLAPS

-----------------------------------------------------------------------------
(* Arithmetic of the wrapping indices *)

\* A sum of two indices is reduced by one subtraction.
LEMMA ModOnce == ASSUME NEW x \in Nat, x < 2 * Wrap
                 PROVE  x % Wrap = IF x < Wrap THEN x ELSE x - Wrap
  <1>1. Wrap \in Nat /\ Wrap > 0
    BY RingAssumption
  <1> QED BY <1>1

\* Wrapping sum and difference, named so that the provers need no %.
Plus(i, k) == (i + k) % Wrap
Gap(h, t) == (h + Wrap - t) % Wrap

LEMMA PlusIs == ASSUME NEW i \in Index, NEW k \in 0..RingSamples
                PROVE  Plus(i, k) = IF i + k < Wrap THEN i + k ELSE i + k - Wrap
  <1> DEFINE sum == i + k
  <1>1. /\ sum \in Nat /\ sum < 2 * Wrap
        /\ Wrap \in Nat /\ i \in Nat /\ k \in Nat
    BY RingAssumption DEF Index
  <1>2. Plus(i, k) = sum % Wrap
    BY DEF Plus
  <1>3. sum % Wrap = IF sum < Wrap THEN sum ELSE sum - Wrap
    <2> HIDE DEF sum
    <2> QED BY <1>1, ModOnce
  <1>4. Plus(i, k) = IF sum < Wrap THEN sum ELSE sum - Wrap
    BY <1>2, <1>3, Zenon
  <1> QED BY <1>1, <1>4

LEMMA GapIs == ASSUME NEW h \in Index, NEW t \in Index
               PROVE  Gap(h, t) = IF t <= h THEN h - t ELSE h + Wrap - t
  <1> DEFINE sum == h + Wrap - t
  <1>1. /\ sum \in Nat /\ sum < 2 * Wrap
        /\ Wrap \in Nat /\ h \in Nat /\ t \in Nat
    BY RingAssumption DEF Index
  <1>2. Gap(h, t) = sum % Wrap
    BY DEF Gap
  <1>3. sum % Wrap = IF sum < Wrap THEN sum ELSE sum - Wrap
    <2> HIDE DEF sum
    <2> QED BY <1>1, ModOnce
  <1>4. Gap(h, t) = IF sum < Wrap THEN sum ELSE sum - Wrap
    BY <1>2, <1>3, Zenon
  <1> QED BY <1>1, <1>4

-----------------------------------------------------------------------------
(* Type correctness and the life of the ring *)

(***************************************************************************)
(* Who keeps the ring alive: streaming is off while it may be freed, a     *)
(* served client and a chunk of captureTask both imply that there is one.  *)
(***************************************************************************)
RingLive ==
  /\ streaming => ring # NoRing /\ strPc # "drain"
  /\ strPc \in {"reset", "publish", "copy", "write"} => ring # NoRing
  /\ strPc = "drain" => client = "none"
  /\ strPc = "serve" /\ client # "none" => ring # NoRing
  /\ capPc # "idle" => ring # NoRing /\ left > 0

LiveInv == TypeOK /\ RingLive

LEMMA CellIndex == ASSUME NEW i \in Nat PROVE i % RingSamples \in Cells
  <1>1. RingSamples \in Nat /\ RingSamples > 0
    BY RingAssumption
  <1> QED BY <1>1 DEF Cells

LEMMA WrapIndex == ASSUME NEW i \in Nat PROVE i % Wrap \in Index
  <1>1. Wrap \in Nat /\ Wrap > 0
    BY RingAssumption
  <1> QED BY <1>1 DEF Index

LEMMA LiveInit == Init => LiveInv
  <1> SUFFICES ASSUME Init PROVE LiveInv
    OBVIOUS
  <1>1. streaming \in BOOLEAN
    BY Zenon DEF Init
  <1> QED BY <1>1, RingAssumption DEF Init, LiveInv, TypeOK, RingLive, Index

LEMMA LiveCapture == LiveInv /\ Capture => LiveInv'
  <1> SUFFICES ASSUME LiveInv, Capture PROVE LiveInv'
    OBVIOUS
  <1> USE RingAssumption DEF LiveInv, TypeOK, RingLive, strVars, ringVars
  <1>1. CASE BeginChunk
    BY <1>1 DEF BeginChunk
  <1>2. CASE Test
    BY <1>2 DEF Test, NextSample
  <1>3. ASSUME NEW x \in Samples, Write(x) PROVE LiveInv'
    <2> DEFINE c == head % RingSamples
    <2>1. c \in Cells
      <3>1. head \in Nat
        BY DEF Index
      <3> QED BY <3>1, CellIndex, Zenon
    <2>2. ring' = [ring EXCEPT ![c] = x] /\ ring \in [Cells -> Samples \cup {Junk}]
      BY <1>3 DEF Write
    <2> HIDE DEF c
    <2>3. ring' \in [Cells -> Samples \cup {Junk}]
      BY <2>1, <2>2
    <2>4. ring' # NoRing
      BY <2>3 DEF Cells
    <2> QED BY <1>3, <2>3, <2>4 DEF Write
  <1>4. CASE Load
    BY <1>4 DEF Load
  <1>5. CASE Store
    <2>1. (reg + 1) % Wrap \in Index
      <3>1. reg + 1 \in Nat
        BY DEF Index
      <3> QED BY <3>1, WrapIndex, Zenon
    <2> QED BY <1>5, <2>1 DEF Store, NextSample
  <1> QED BY <1>1, <1>2, <1>3, <1>4, <1>5 DEF Capture

LEMMA LiveStream == LiveInv /\ Stream => LiveInv'
  <1> SUFFICES ASSUME LiveInv, Stream PROVE LiveInv'
    OBVIOUS
  <1> USE RingAssumption DEF LiveInv, TypeOK, RingLive, capVars, ringVars
  <1>1. CASE Acquire
    <2>1. [c \in Cells |-> Junk] \in [Cells -> Samples \cup {Junk}]
      OBVIOUS
    <2>2. [c \in Cells |-> Junk] # NoRing
      BY <2>1 DEF Cells
    <2> QED BY <1>1, <2>1, <2>2 DEF Acquire, Index
  <1>2. CASE Refuse
    BY <1>2 DEF Refuse
  <1>3. CASE Reset
    BY <1>3 DEF Reset, Index
  <1>4. CASE Publish
    BY <1>4 DEF Publish
  <1>5. CASE StartChunk
    BY <1>5 DEF StartChunk
  <1>6. CASE Copy
    <2>1. (tail + Len(chunk)) % RingSamples \in Cells
      <3>1. tail + Len(chunk) \in Nat
        BY DEF Index
      <3> QED BY <3>1, CellIndex, Zenon
    <2>2. ring[(tail + Len(chunk)) % RingSamples] \in Samples \cup {Junk}
      BY <1>6, <2>1 DEF Copy
    <2> QED BY <1>6, <2>2 DEF Copy
  <1>7. CASE Advance
    <2>1. (tail + StreamChunk) % Wrap \in Index
      <3>1. tail + StreamChunk \in Nat
        BY DEF Index
      <3> QED BY <3>1, WrapIndex, Zenon
    <2> QED BY <1>7, <2>1 DEF Advance
  <1>8. CASE Written
    BY <1>8 DEF Written
  <1>9. CASE Free
    BY <1>9 DEF Free
  <1> QED BY <1>1, <1>2, <1>3, <1>4, <1>5, <1>6, <1>7, <1>8, <1>9 DEF Stream

LEMMA LiveNext == LiveInv /\ [Next]_vars => LiveInv'
  <1> SUFFICES ASSUME LiveInv, [Next]_vars PROVE LiveInv'
    OBVIOUS
  <1> USE DEF LiveInv, TypeOK, RingLive
  <1>1. CASE Accept
    BY <1>1 DEF Accept, ringVars, capVars
  <1>2. CASE Release
    BY <1>2 DEF Release, capVars
  <1>3. CASE HangUp
    BY <1>3 DEF HangUp, ringVars, capVars
  <1>4. CASE UNCHANGED vars
    BY <1>4 DEF vars, ringVars, capVars, strVars
  <1> QED BY <1>1, <1>2, <1>3, <1>4, LiveCapture, LiveStream DEF Next

LEMMA Lives == Spec => []LiveInv
  BY LiveInit, LiveNext, PTL DEF Spec

(***************************************************************************)
(* The stream's state is well typed, also when clients overlap.            *)
(***************************************************************************)
THEOREM TypeCorrect == Spec => []TypeOK
  <1>1. LiveInv => TypeOK
    BY DEF LiveInv
  <1> QED BY <1>1, Lives, PTL

(***************************************************************************)
(* The capture task never writes into a ring that was freed, also when     *)
(* clients overlap: the delay of ringRelease is all the locking it needs.  *)
(***************************************************************************)
THEOREM WritesLive == Spec => []WritesToLiveRing
  <1>1. LiveInv => WritesToLiveRing
    BY DEF LiveInv, RingLive, WritesToLiveRing
  <1> QED BY <1>1, Lives, PTL

(***************************************************************************)
(* The safety half of StreamFlows: while a stream is open, the ring is     *)
(* never too full for captureTask and too empty for streamTask at once,    *)
(* whatever the indices are, those of overlapping clients included.        *)
(***************************************************************************)
THEOREM NoStandoff == Spec => [](streaming => HasRoom \/ Unread >= StreamChunk)
  <1>1. LiveInv => (streaming => HasRoom \/ Unread >= StreamChunk)
    <2> SUFFICES ASSUME LiveInv, streaming PROVE HasRoom \/ Unread >= StreamChunk
      OBVIOUS
    <2>1. Unread \in Nat
      <3>1. Unread = Gap(head, tail)
        BY DEF Unread, Gap
      <3>2. head \in Index /\ tail \in Index
        BY DEF LiveInv, TypeOK
      <3>3. Unread = IF tail <= head THEN head - tail ELSE head + Wrap - tail
        BY <3>1, <3>2, GapIs, Zenon
      <3> QED BY <3>2, <3>3, RingAssumption DEF Index
    <2>2. ring # NoRing
      BY DEF LiveInv, RingLive
    <2> QED BY <2>1, <2>2, RingAssumption DEF HasRoom
  <1> QED BY <1>1, Lives, PTL

-----------------------------------------------------------------------------
(* The indices, when no client is accepted before the last one's release *)

(***************************************************************************)
(* head belongs to captureTask while streaming and to streamTask while it  *)
(* is not; a sample under way has room and a chunk under way is complete.  *)
(***************************************************************************)
Indices ==
  /\ capPc # "idle" => streaming \/ strPc = "drain"
  /\ capPc = "store" => reg = head
  /\ strPc \in {"acquire", "reset", "publish"} => ~streaming
  /\ strPc \in {"copy", "write"} => streaming
  /\ strPc = "serve" /\ client # "none" => streaming
  /\ strPc \in {"reset", "publish"} => tail = 0
  /\ strPc = "publish" => head = 0
  /\ strPc = "copy" => StreamChunk <= Unread
  /\ streaming => Unread <= RingSamples
  /\ streaming /\ capPc \in {"write", "load", "store"} => Unread < RingSamples

IInv == LiveInv /\ Indices

\* Unread in both states of a step.
LEMMA UnreadGap == /\ Unread = Gap(head, tail)
                   /\ Unread' = Gap(head', tail')
  BY DEF Unread, Gap

LEMMA UnreadNat == ASSUME head \in Index, tail \in Index PROVE Unread \in Nat
  <1>1. Unread = IF tail <= head THEN head - tail ELSE head + Wrap - tail
    BY GapIs, UnreadGap
  <1>2. Wrap \in Nat
    BY RingAssumption
  <1> QED BY <1>1, <1>2 DEF Index

LEMMA IndicesInit == Init => Indices
  <1> SUFFICES ASSUME Init PROVE Indices
    OBVIOUS
  <1>1. ~streaming
    BY Zenon DEF Init
  <1> QED BY <1>1 DEF Init, Indices

LEMMA SameIndices == ASSUME UNCHANGED <<head, tail>> PROVE Unread' = Unread
  BY DEF Unread

LEMMA IndicesCapture == IInv /\ Capture => Indices'
  <1> SUFFICES ASSUME IInv, Capture PROVE Indices'
    OBVIOUS
  <1> USE RingAssumption DEF IInv, LiveInv, TypeOK, Indices, strVars, ringVars
  <1> Unread \in Nat
    BY UnreadNat
  <1>1. CASE BeginChunk
    BY <1>1, SameIndices DEF BeginChunk
  <1>2. CASE Test
    BY <1>2, SameIndices DEF Test, NextSample, HasRoom
  <1>3. ASSUME NEW x \in Samples, Write(x) PROVE Indices'
    <2>1. /\ UNCHANGED <<head, tail, streaming, strPc, client>>
          /\ capPc = "write" /\ capPc' = "load"
      BY <1>3 DEF Write
    <2> QED BY <2>1, SameIndices
  <1>4. CASE Load
    BY <1>4, SameIndices DEF Load
  <1>5. CASE Store
    <2>1. /\ capPc = "store" /\ reg = head /\ capPc' \in {"idle", "test"}
          /\ UNCHANGED <<tail, streaming, strPc, client>>
      BY <1>5 DEF Store, NextSample
    <2>2. head' = Plus(head, 1)
      BY <1>5, <2>1 DEF Store, Plus
    <2>3. ~streaming => strPc = "drain"
      BY <2>1
    <2>4. CASE ~streaming
      BY <2>1, <2>3, <2>4
    <2>5. CASE streaming
      <3>1. head' = IF head + 1 < Wrap THEN head + 1 ELSE head + 1 - Wrap
        BY <2>2, PlusIs
      <3>2. head' \in Index
        BY <3>1 DEF Index
      <3>3. Unread' = IF tail <= head' THEN head' - tail ELSE head' + Wrap - tail
        BY <2>1, <3>2, GapIs, UnreadGap
      <3>4. Unread = IF tail <= head THEN head - tail ELSE head + Wrap - tail
        BY GapIs, UnreadGap
      <3>5. Unread < RingSamples /\ RingSamples < Wrap
        BY <2>1, <2>5
      <3>6. Unread' = Unread + 1
        BY <3>1, <3>3, <3>4, <3>5 DEF Index
      <3> QED BY <2>1, <2>5, <3>5, <3>6
    <2> QED BY <2>4, <2>5
  <1> QED BY <1>1, <1>2, <1>3, <1>4, <1>5 DEF Capture

LEMMA IndicesStream == IInv /\ Stream => Indices'
  <1> SUFFICES ASSUME IInv, Stream PROVE Indices'
    OBVIOUS
  <1> USE RingAssumption DEF IInv, LiveInv, TypeOK, Indices, capVars, ringVars
  <1> Unread \in Nat
    BY UnreadNat
  <1>1. CASE Acquire
    BY <1>1 DEF Acquire
  <1>2. CASE Refuse
    BY <1>2, SameIndices DEF Refuse
  <1>3. CASE Reset
    BY <1>3 DEF Reset
  <1>4. CASE Publish
    <2>1. head' = 0 /\ tail' = 0 /\ 0 \in Index
      BY <1>4 DEF Publish, Index
    <2>2. Unread' = 0
      BY <2>1, GapIs, UnreadGap
    <2> QED BY <1>4, <2>2 DEF Publish
  <1>5. CASE StartChunk
    BY <1>5, SameIndices DEF StartChunk
  <1>6. CASE Copy
    BY <1>6, SameIndices DEF Copy
  <1>7. CASE Advance
    <2>1. /\ strPc = "copy" /\ strPc' = "write" /\ streaming
          /\ UNCHANGED <<head, streaming, capPc, reg, client>>
      BY <1>7 DEF Advance
    <2>2. tail' = Plus(tail, StreamChunk)
      BY <1>7 DEF Advance, Plus
    <2>3. tail' = IF tail + StreamChunk < Wrap THEN tail + StreamChunk
                                               ELSE tail + StreamChunk - Wrap
      BY <2>2, PlusIs
    <2>4. tail' \in Index
      BY <2>3 DEF Index
    <2>5. Unread' = IF tail' <= head THEN head - tail' ELSE head + Wrap - tail'
      BY <2>1, <2>4, GapIs, UnreadGap
    <2>6. Unread = IF tail <= head THEN head - tail ELSE head + Wrap - tail
      BY GapIs, UnreadGap
    <2>7. StreamChunk <= Unread
      BY <2>1
    <2>8. Unread' = Unread - StreamChunk
      BY <2>3, <2>5, <2>6, <2>7 DEF Index
    <2> QED BY <2>1, <2>8
  <1>8. CASE Written
    BY <1>8, SameIndices DEF Written
  <1>9. CASE Free
    BY <1>9, SameIndices DEF Free, RingLive
  <1> QED BY <1>1, <1>2, <1>3, <1>4, <1>5, <1>6, <1>7, <1>8, <1>9 DEF Stream

LEMMA IndicesNext == ASSUME ~Overlap PROVE IInv /\ [Next]_vars => IInv'
  <1> SUFFICES ASSUME IInv, [Next]_vars PROVE Indices'
    BY LiveNext DEF IInv
  <1> USE DEF IInv, LiveInv, TypeOK, RingLive, Indices
  <1>1. CASE Accept
    BY <1>1, SameIndices DEF Accept, ringVars, capVars
  <1>2. CASE Release
    BY <1>2, SameIndices DEF Release, capVars
  <1>3. CASE HangUp
    BY <1>3, SameIndices DEF HangUp, ringVars, capVars
  <1>4. CASE UNCHANGED vars
    BY <1>4, SameIndices DEF vars, ringVars, capVars, strVars
  <1> QED BY <1>1, <1>2, <1>3, <1>4, IndicesCapture, IndicesStream DEF Next

(***************************************************************************)
(* Without overlapping clients the ring never claims more than it holds:   *)
(* no index is written by both tasks, and both may wrap.                   *)
(***************************************************************************)
THEOREM RingBounded == ~Overlap => (Spec => []UnreadBounded)
  <1> SUFFICES ASSUME ~Overlap PROVE Spec => []UnreadBounded
    OBVIOUS
  <1>1. Init => IInv
    BY LiveInit, IndicesInit DEF IInv
  <1>2. IInv /\ [Next]_vars => IInv'
    BY IndicesNext
  <1>3. IInv => UnreadBounded
    BY DEF IInv, Indices, UnreadBounded, Serving
  <1> QED BY <1>1, <1>2, <1>3, PTL DEF Spec

-----------------------------------------------------------------------------
(* The cells of the ring *)

\* A product of integers is no smaller than its factors allow.
LEMMA ProductBelow == ASSUME NEW r \in Nat, NEW d \in Int, r * d \in -(r - 1)..r - 1
                      PROVE  r * d = 0
  <1>1. d >= 1 => r * d >= r
    BY SMT
  <1>2. d <= -1 => r * d <= -r
    BY SMT
  <1>3. d = 0 => r * d = 0
    BY SMT
  <1> DEFINE p == r * d
  <1>4. p \in -(r - 1)..r - 1 /\ (d >= 1 => p >= r) /\ (d <= -1 => p <= -r) /\ (d = 0 => p = 0)
    BY <1>1, <1>2, <1>3
  <1> HIDE DEF p
  <1>5. p = 0
    BY <1>4
  <1> QED BY <1>5 DEF p

\* The cell of the n-th sample since the ring was set up.
Cell(n) == n % RingSamples

\* Equal multiples apart, remainders are equal.
LEMMA Remainders == ASSUME NEW r \in Nat, NEW p \in Int, NEW q \in Int, NEW d \in Int,
                           NEW x \in 0..r - 1, NEW y \in 0..r - 1,
                           (r * q + y) - (r * p + x) = r * d
                    PROVE  x = y
  <1> DEFINE rp == r * p
             rq == r * q
             rd == r * d
             e == d + p - q
             re == r * e
  <1>1. re = rd + rp - rq /\ rp \in Int /\ rq \in Int /\ rd \in Int /\ e \in Int
    BY SMT
  <1>2. (rq + y) - (rp + x) = rd /\ (re \in -(r - 1)..r - 1 => re = 0)
    BY <1>1, ProductBelow
  <1> HIDE DEF rp, rq, rd, e, re
  <1>3. re = y - x
    BY <1>1, <1>2
  <1> QED BY <1>2, <1>3

LEMMA Sizes == /\ RingSamples \in Nat /\ RingSamples > 0 /\ StreamChunk \in 1..RingSamples
               /\ Wrap \in Nat /\ Wrap % RingSamples = 0 /\ Wrap > RingSamples
  BY RingAssumption

\* Quotient and remainder.
LEMMA CellOf == ASSUME NEW n \in Nat
                PROVE  /\ Cell(n) \in Cells
                       /\ \E q \in Nat : n = RingSamples * q + Cell(n)
  <1>1. /\ n = RingSamples * (n \div RingSamples) + (n % RingSamples)
        /\ n \div RingSamples \in Nat
        /\ n % RingSamples \in 0..RingSamples - 1
    BY Sizes, SMT
  <1> QED BY <1>1 DEF Cell, Cells

\* Numbers a multiple of the ring apart share a cell, nearer ones do not.
LEMMA CellApart == ASSUME NEW a \in Nat, NEW b \in Nat, NEW d \in Int,
                          b - a = RingSamples * d
                   PROVE  Cell(a) = Cell(b)
  <1>1. PICK p \in Nat : a = RingSamples * p + Cell(a)
    BY CellOf
  <1>2. PICK q \in Nat : b = RingSamples * q + Cell(b)
    BY CellOf
  <1>3. Cell(a) \in 0..RingSamples - 1 /\ Cell(b) \in 0..RingSamples - 1
    BY CellOf DEF Cells
  <1>4. (RingSamples * q + Cell(b)) - (RingSamples * p + Cell(a)) = RingSamples * d
    BY <1>1, <1>2, Zenon
  <1>5. RingSamples \in Nat /\ p \in Int /\ q \in Int
    BY Sizes
  <1> QED BY <1>3, <1>4, <1>5, Remainders

LEMMA OtherCell == ASSUME NEW a \in Nat, NEW b \in Nat, a < b, b < a + RingSamples
                   PROVE  Cell(a) # Cell(b)
  <1> SUFFICES ASSUME Cell(a) = Cell(b) PROVE FALSE
    OBVIOUS
  <1>1. PICK p \in Nat : a = RingSamples * p + Cell(a)
    BY CellOf
  <1>2. PICK q \in Nat : b = RingSamples * q + Cell(b)
    BY CellOf
  <1> DEFINE c == Cell(a)
             d == q - p
             rd == RingSamples * d
             rp == RingSamples * p
             rq == RingSamples * q
  <1>3. /\ rd = rq - rp /\ rp \in Int /\ rq \in Int /\ d \in Int
        /\ (rd \in -(RingSamples - 1)..RingSamples - 1 => rd = 0)
    BY Sizes, ProductBelow
  <1>4. a = rp + c /\ b = rq + c /\ c \in Int
    BY <1>1, <1>2, CellOf DEF Cells
  <1> HIDE DEF c, d, rd, rp, rq
  <1>5. rd = b - a
    BY <1>3, <1>4
  <1> QED BY <1>3, <1>5, Sizes

\* An index and the index before it wrapped name the same cell.
LEMMA WrapCell == ASSUME NEW a \in Nat PROVE Cell(a + Wrap) = Cell(a)
  <1>1. Wrap \in Nat /\ Cell(Wrap) = 0 /\ RingSamples \in Nat
    BY Sizes DEF Cell
  <1>2. PICK d \in Nat : Wrap = RingSamples * d + Cell(Wrap)
    BY <1>1, CellOf
  <1>3. Wrap = RingSamples * d
    BY <1>1, <1>2, SMT
  <1>4. (a + Wrap) - a = RingSamples * d /\ a + Wrap \in Nat /\ d \in Int
    <2>1. (a + Wrap) - a = Wrap /\ a + Wrap \in Nat /\ d \in Int
      BY <1>1
    <2> QED BY <1>3, <2>1
  <1>5. Cell(a) = Cell(a + Wrap)
    BY <1>4, CellApart
  <1> QED BY <1>5

LEMMA PlusCell == ASSUME NEW t \in Index, NEW k \in 0..RingSamples, NEW i \in Nat
                  PROVE  Cell(Plus(t, k) + i) = Cell(t + k + i)
  <1>1. Wrap \in Nat /\ t \in Nat /\ k \in Nat
    BY RingAssumption DEF Index
  <1>2. Plus(t, k) = IF t + k < Wrap THEN t + k ELSE t + k - Wrap
    BY PlusIs
  <1>3. CASE t + k < Wrap
    BY <1>2, <1>3
  <1>4. CASE ~(t + k < Wrap)
    <2>1. Plus(t, k) + i \in Nat /\ Plus(t, k) + i + Wrap = t + k + i
      BY <1>1, <1>2, <1>4
    <2> QED BY <2>1, WrapCell
  <1> QED BY <1>3, <1>4

\* The head is where the sample after the unread ones goes.
LEMMA HeadCell == ASSUME NEW h \in Index, NEW t \in Index
                  PROVE  Cell(t + Gap(h, t)) = Cell(h)
  <1>1. Wrap \in Nat /\ t \in Nat /\ h \in Nat
    BY RingAssumption DEF Index
  <1>2. Gap(h, t) = IF t <= h THEN h - t ELSE h + Wrap - t
    BY GapIs
  <1>3. CASE t <= h
    <2>1. t + Gap(h, t) = h
      BY <1>1, <1>2, <1>3
    <2> QED BY <2>1
  <1>4. CASE ~(t <= h)
    <2>1. t + Gap(h, t) = h + Wrap
      BY <1>1, <1>2, <1>4
    <2> QED BY <2>1, <1>1, WrapCell
  <1> QED BY <1>3, <1>4

-----------------------------------------------------------------------------
(* The unread samples as a sequence *)

Words == Samples \cup {Junk}

\* What the n cells from index t on hold.
Slice(r, t, n) == [i \in 1..n |-> r[Cell(t + i - 1)]]

LEMMA SliceSeq == ASSUME NEW r \in [Cells -> Words], NEW t \in Nat, NEW n \in Nat
                  PROVE  /\ Slice(r, t, n) \in Seq(Words)
                         /\ Len(Slice(r, t, n)) = n
                         /\ \A i \in 1..n : Slice(r, t, n)[i] = r[Cell(t + i - 1)]
  <1>1. \A i \in 1..n : r[Cell(t + i - 1)] \in Words
    <2> TAKE i \in 1..n
    <2>1. t + i - 1 \in Nat
      OBVIOUS
    <2> QED BY <2>1, CellOf
  <1>2. Slice(r, t, n) \in [1..n -> Words]
    BY <1>1 DEF Slice
  <1> QED BY <1>2 DEF Slice

LEMMA SlicePut == ASSUME NEW r \in [Cells -> Words], NEW t \in Nat, NEW n \in Nat
                  PROVE  Slice(r, t, n + 1) = Append(Slice(r, t, n), r[Cell(t + n)])
  <1> DEFINE s == Slice(r, t, n)
             a == Append(s, r[Cell(t + n)])
             u == Slice(r, t, n + 1)
  <1>1. r[Cell(t + n)] \in Words
    <2>1. t + n \in Nat
      OBVIOUS
    <2> QED BY <2>1, CellOf
  <1>2. s \in Seq(Words) /\ Len(s) = n /\ \A i \in 1..n : s[i] = r[Cell(t + i - 1)]
    BY SliceSeq
  <1>3. n + 1 \in Nat
    OBVIOUS
  <1>4. /\ u \in Seq(Words) /\ Len(u) = n + 1
        /\ \A i \in 1..n + 1 : u[i] = r[Cell(t + i - 1)]
    BY <1>3, SliceSeq
  <1> HIDE DEF s, u
  <1>5. /\ a \in Seq(Words) /\ Len(a) = n + 1
        /\ (\A i \in 1..n : a[i] = s[i]) /\ a[n + 1] = r[Cell(t + n)]
    BY <1>1, <1>2, AppendProperties
  <1> HIDE DEF a
  <1>6. ASSUME NEW i \in 1..n + 1 PROVE u[i] = a[i]
    <2>1. CASE i \in 1..n
      BY <2>1, <1>2, <1>4, <1>5
    <2>2. CASE i = n + 1
      <3>1. t + i - 1 = t + n
        BY <2>2
      <3> QED BY <2>2, <3>1, <1>4, <1>5
    <2> QED BY <2>1, <2>2
  <1>7. u = a
    BY <1>4, <1>5, <1>6, SeqEqual
  <1> QED BY <1>7 DEF u, a, s

LEMMA SliceFirst == ASSUME NEW r \in [Cells -> Words], NEW t \in Nat, NEW n \in Nat,
                           NEW k \in 0..n
                    PROVE  SubSeq(Slice(r, t, n), 1, k) = Slice(r, t, k)
  <1> DEFINE s == Slice(r, t, n)
             u == Slice(r, t, k)
             b == SubSeq(s, 1, k)
  <1>1. s \in Seq(Words) /\ Len(s) = n /\ \A i \in 1..n : s[i] = r[Cell(t + i - 1)]
    BY SliceSeq
  <1>2. k \in Nat /\ 1..k \subseteq 1..n
    OBVIOUS
  <1>3. u \in Seq(Words) /\ Len(u) = k /\ \A i \in 1..k : u[i] = r[Cell(t + i - 1)]
    BY <1>2, SliceSeq
  <1> HIDE DEF s, u
  <1>4. \A i \in 1..k : s[i] \in Words
    BY <1>1, <1>2, ElementOfSeq
  <1>5. b \in Seq(Words) /\ Len(b) = k /\ \A i \in 1..k : b[i] = s[i]
    BY <1>2, <1>4, SubSeqProperties
  <1> HIDE DEF b
  <1>6. b = u
    BY <1>1, <1>2, <1>3, <1>5, SeqEqual
  <1> QED BY <1>6 DEF b, s, u

LEMMA SliceRest == ASSUME NEW r \in [Cells -> Words], NEW t \in Index, NEW n \in Nat,
                          NEW k \in 0..RingSamples, k <= n
                   PROVE  SubSeq(Slice(r, t, n), k + 1, n) = Slice(r, Plus(t, k), n - k)
  <1> DEFINE s == Slice(r, t, n)
             v == Plus(t, k)
             u == Slice(r, v, n - k)
             b == SubSeq(s, k + 1, n)
  <1>1. /\ t \in Nat /\ k \in Nat /\ n - k \in Nat /\ RingSamples \in Nat /\ Wrap \in Nat
        /\ v \in Nat
    BY RingAssumption, PlusIs DEF Index
  <1>2. s \in Seq(Words) /\ Len(s) = n /\ \A i \in 1..n : s[i] = r[Cell(t + i - 1)]
    BY <1>1, SliceSeq
  <1>3. /\ u \in Seq(Words) /\ Len(u) = n - k
        /\ \A i \in 1..n - k : u[i] = r[Cell(v + i - 1)]
    BY <1>1, SliceSeq
  <1>4. \A i \in 1..n - k : Cell(v + i - 1) = Cell(t + k + i - 1)
    <2> TAKE i \in 1..n - k
    <2>1. i - 1 \in Nat /\ v + i - 1 = v + (i - 1) /\ t + k + i - 1 = t + k + (i - 1)
      BY <1>1
    <2> QED BY <2>1, PlusCell
  <1> HIDE DEF s, u, v
  <1>5. \A i \in k + 1..n : s[i] \in Words
    BY <1>1, <1>2, ElementOfSeq
  <1>6. /\ b \in Seq(Words) /\ Len(b) = n - k
        /\ \A i \in 1..n - k : b[i] = s[k + i]
    <2>1. k + 1 \in Int /\ n \in Int
      BY <1>1
    <2>2. /\ b \in Seq(Words) /\ Len(b) = IF k + 1 <= n THEN n - (k + 1) + 1 ELSE 0
          /\ \A i \in 1..n - (k + 1) + 1 : b[i] = s[k + 1 + i - 1]
      BY <2>1, <1>5, SubSeqProperties
    <2> HIDE DEF b
    <2>3. \A i \in 1..n - k : i \in 1..n - (k + 1) + 1 /\ k + 1 + i - 1 = k + i
      BY <1>1
    <2> QED BY <1>1, <2>2, <2>3
  <1> HIDE DEF b
  <1>7. ASSUME NEW i \in 1..n - k PROVE b[i] = u[i]
    <2>1. k + i \in 1..n /\ t + (k + i) - 1 = t + k + i - 1
      BY <1>1
    <2>2. s[k + i] = r[Cell(t + k + i - 1)]
      BY <1>2, <2>1
    <2> QED BY <1>3, <1>4, <1>6, <2>2
  <1>8. b = u
    BY <1>3, <1>6, <1>7, SeqEqual
  <1> QED BY <1>8 DEF b, s, u, v

\* A write behind the unread samples leaves them alone.
LEMMA SliceWrite == ASSUME NEW r, NEW q, NEW t \in Nat, NEW n \in Nat, n < RingSamples,
                           \A c \in Cells \ {Cell(t + n)} : q[c] = r[c]
                    PROVE  Slice(q, t, n) = Slice(r, t, n)
  <1>1. ASSUME NEW i \in 1..n PROVE q[Cell(t + i - 1)] = r[Cell(t + i - 1)]
    <2> DEFINE a == t + i - 1
               b == t + n
    <2>1. a \in Nat /\ b \in Nat /\ a < b /\ b < a + RingSamples
      BY Sizes
    <2> HIDE DEF a, b
    <2>2. Cell(a) # Cell(b) /\ Cell(a) \in Cells
      BY <2>1, OtherCell, CellOf
    <2>3. q[Cell(a)] = r[Cell(a)]
      BY <2>2 DEF b
    <2> QED BY <2>3 DEF a
  <1> QED BY <1>1 DEF Slice

-----------------------------------------------------------------------------
(* The samples under way *)

(***************************************************************************)
(* What the queue cannot see: the cell at the head is filled before the    *)
(* head passes it, and a chunk being copied agrees with the cells it was   *)
(* copied from until the tail passes them.                                 *)
(***************************************************************************)
Held ==
  /\ streaming /\ capPc \in {"load", "store"} => ring[Cell(head)] \in Samples
  /\ strPc = "copy" => \A i \in 1..Len(chunk) : chunk[i] = ring[Cell(tail + i - 1)]
  /\ strPc = "write" => Len(chunk) = StreamChunk
  /\ strPc \notin {"copy", "write"} => chunk = <<>>

QInv == IInv /\ Held

LEMMA HeldInit == Init => Held
  BY DEF Init, Held

LEMMA HeldCapture == QInv /\ Capture => Held'
  <1> SUFFICES ASSUME QInv, Capture PROVE Held'
    OBVIOUS
  <1> USE DEF QInv, IInv, LiveInv, TypeOK, Held, strVars, ringVars
  <1>1. CASE BeginChunk
    BY <1>1 DEF BeginChunk
  <1>2. CASE Test
    BY <1>2 DEF Test, NextSample
  <1>3. ASSUME NEW x \in Samples, Write(x) PROVE Held'
    <2>1. /\ capPc = "write" /\ ring # NoRing
          /\ ring' = [ring EXCEPT ![Cell(head)] = x]
          /\ UNCHANGED <<head, tail, streaming, strPc, chunk>>
      BY <1>3 DEF Write, Cell
    <2>2. ring \in [Cells -> Words] /\ x \in Words
      BY <2>1 DEF Words
    <2>3. head \in Nat /\ tail \in Nat /\ Unread \in Nat
      BY UnreadNat DEF Index
    <2>4. ring'[Cell(head)] = x
      <3>1. Cell(head) \in Cells
        BY <2>3, CellOf
      <3> QED BY <2>1, <2>2, <3>1
    <2>5. ASSUME strPc = "copy", NEW i \in 1..Len(chunk)
          PROVE  chunk[i] = ring'[Cell(tail + i - 1)]
      <3>1. /\ streaming /\ Unread < RingSamples /\ StreamChunk <= Unread
        BY <2>1, <2>5 DEF Indices
      <3>2. i \in 1..Unread
        BY <2>3, <3>1, Sizes
      <3>3. Cell(tail + Unread) = Cell(head)
        BY HeadCell, UnreadGap
      <3>4. \A c \in Cells \ {Cell(tail + Unread)} : ring'[c] = ring[c]
        BY <2>1, <2>2, <3>3
      <3>5. Slice(ring', tail, Unread) = Slice(ring, tail, Unread)
        <4> HIDE DEF QInv, IInv, LiveInv, TypeOK, Held
        <4> QED BY <2>3, <3>1, <3>4, SliceWrite
      <3>6. Slice(ring', tail, Unread)[i] = ring'[Cell(tail + i - 1)]
        BY <3>2 DEF Slice
      <3>7. Slice(ring, tail, Unread)[i] = ring[Cell(tail + i - 1)]
        BY <3>2 DEF Slice
      <3> QED BY <2>5, <3>5, <3>6, <3>7
    <2> QED BY <2>1, <2>4, <2>5
  <1>4. CASE Load
    BY <1>4 DEF Load
  <1>5. CASE Store
    BY <1>5 DEF Store, NextSample
  <1> QED BY <1>1, <1>2, <1>3, <1>4, <1>5 DEF Capture

LEMMA HeldStream == QInv /\ Stream => Held'
  <1> SUFFICES ASSUME QInv, Stream PROVE Held'
    OBVIOUS
  <1> USE DEF QInv, IInv, LiveInv, TypeOK, Held, capVars, ringVars
  <1>1. CASE Acquire
    BY <1>1 DEF Acquire, Indices
  <1>2. CASE Refuse
    BY <1>2 DEF Refuse
  <1>3. CASE Reset
    BY <1>3 DEF Reset, Indices
  <1>4. CASE Publish
    BY <1>4 DEF Publish, Indices
  <1>5. CASE StartChunk
    BY <1>5 DEF StartChunk
  <1>6. CASE Copy
    <2> DEFINE n == Len(chunk)
               w == ring[Cell(tail + n)]
    <2>1. /\ strPc = "copy" /\ strPc' = "copy"
          /\ chunk' = Append(chunk, w) /\ UNCHANGED <<ringVars, capVars>>
      BY <1>6 DEF Copy, Cell
    <2>2. n \in Nat /\ tail \in Nat /\ chunk \in Seq(Words)
      BY DEF Index, Words
    <2>3. w \in Words
      <3>1. Cell(tail + n) \in Cells
        BY <2>2, CellOf
      <3> QED BY <2>1, <3>1 DEF RingLive, Words
    <2> HIDE DEF w
    <2>4. /\ Len(chunk') = n + 1 /\ chunk'[n + 1] = w
          /\ \A i \in 1..n : chunk'[i] = chunk[i]
      BY <2>1, <2>2, <2>3, AppendProperties
    <2>5. ASSUME NEW i \in 1..n + 1 PROVE chunk'[i] = ring[Cell(tail + i - 1)]
      <3>1. CASE i \in 1..n
        BY <2>1, <2>4, <3>1
      <3>2. CASE i = n + 1
        <4>1. tail + i - 1 = tail + n
          BY <2>2, <3>2
        <4> QED BY <2>4, <3>2, <4>1 DEF w
      <3> QED BY <2>2, <3>1, <3>2
    <2> QED BY <2>1, <2>4, <2>5
  <1>7. CASE Advance
    BY <1>7 DEF Advance
  <1>8. CASE Written
    BY <1>8 DEF Written
  <1>9. CASE Free
    <2>1. ~streaming
      BY <1>9 DEF Free, RingLive
    <2> QED BY <1>9, <2>1 DEF Free
  <1> QED BY <1>1, <1>2, <1>3, <1>4, <1>5, <1>6, <1>7, <1>8, <1>9 DEF Stream

LEMMA HeldNext == ASSUME ~Overlap PROVE QInv /\ [Next]_vars => QInv'
  <1> SUFFICES ASSUME QInv, [Next]_vars PROVE Held'
    BY IndicesNext DEF QInv
  <1> USE DEF QInv, Held
  <1>1. CASE Accept
    BY <1>1 DEF Accept, ringVars, capVars
  <1>2. CASE Release
    BY <1>2 DEF Release, capVars
  <1>3. CASE HangUp
    BY <1>3 DEF HangUp, ringVars, capVars
  <1>4. CASE UNCHANGED vars
    BY <1>4 DEF vars, ringVars, capVars, strVars
  <1> QED BY <1>1, <1>2, <1>3, <1>4, HeldCapture, HeldStream DEF Next

-----------------------------------------------------------------------------
(* The ring implements the queue *)

\* The queue in both states of a step.
LEMMA ContentsSlice ==
  /\ Contents = IF streaming THEN Slice(ring, tail, Unread) ELSE <<>>
  /\ Contents' = IF streaming' THEN Slice(ring', tail', Unread') ELSE <<>>
  BY DEF Contents, Slice, Cell

\* A step that moves no sample.
LEMMA Stutters == ASSUME UNCHANGED <<ring, head, tail, streaming>>
                  PROVE  Contents' = Contents
  BY DEF Contents, Unread

\* Outside the stream the queue is empty.
LEMMA StaysEmpty == ASSUME ~streaming, ~streaming' PROVE Contents' = Contents
  BY DEF Contents

LEMMA SameOutgoing == ASSUME UNCHANGED <<strPc, chunk>> PROVE Outgoing' = Outgoing
  BY DEF Outgoing

\* The write of a sample leaves the queue alone: its cell is not yet counted.
LEMMA WriteHidden == ASSUME QInv, NEW x \in Samples, Write(x)
                     PROVE  Contents' = Contents
  <1> USE DEF QInv, IInv, LiveInv, TypeOK
  <1>1. /\ capPc = "write" /\ ring # NoRing
        /\ ring' = [ring EXCEPT ![Cell(head)] = x]
        /\ UNCHANGED <<head, tail, streaming>>
    BY DEF Write, Cell
  <1>2. Unread' = Unread /\ Unread \in Nat /\ tail \in Nat
    BY <1>1, SameIndices, UnreadNat DEF Index
  <1>3. CASE ~streaming
    BY <1>1, <1>3, StaysEmpty
  <1>4. CASE streaming
    <2>1. Unread < RingSamples
      BY <1>1, <1>4 DEF Indices
    <2>2. ring \in [Cells -> Words] /\ x \in Words
      BY <1>1 DEF Words
    <2>3. \A c \in Cells \ {Cell(tail + Unread)} : ring'[c] = ring[c]
      BY <1>1, <2>2, HeadCell, UnreadGap
    <2>4. Slice(ring', tail, Unread) = Slice(ring, tail, Unread)
      <3> HIDE DEF QInv, IInv, LiveInv, TypeOK
      <3> QED BY <1>2, <2>1, <2>3, SliceWrite
    <2> QED BY <1>1, <1>2, <1>4, <2>4, ContentsSlice
  <1> QED BY <1>3, <1>4

\* The step of the head puts the sample into the queue.
LEMMA StorePuts == ASSUME QInv, Store, streaming
                   PROVE  /\ Len(Contents) < RingSamples
                          /\ \E x \in Samples : Contents' = Append(Contents, x)
  <1> USE DEF QInv, IInv, LiveInv, TypeOK
  <1>1. /\ capPc = "store" /\ reg = head
        /\ UNCHANGED <<ring, tail, streaming>>
    BY DEF Store, Indices
  <1>2. head' = Plus(head, 1)
    BY <1>1 DEF Store, Plus
  <1>3. Unread < RingSamples /\ Unread \in Nat /\ tail \in Nat
    BY <1>1, UnreadNat DEF Indices, Index
  <1>4. Unread' = Unread + 1
    <2>1. head' = IF head + 1 < Wrap THEN head + 1 ELSE head + 1 - Wrap
      BY <1>2, PlusIs, Sizes
    <2>2. head' \in Index
      BY <2>1, Sizes DEF Index
    <2>3. Unread' = IF tail <= head' THEN head' - tail ELSE head' + Wrap - tail
      BY <1>1, <2>2, GapIs, UnreadGap
    <2>4. Unread = IF tail <= head THEN head - tail ELSE head + Wrap - tail
      BY GapIs, UnreadGap
    <2> QED BY <1>3, <2>1, <2>3, <2>4, Sizes DEF Index
  <1>5. ring \in [Cells -> Words]
    BY DEF RingLive, Words
  <1>6. Slice(ring, tail, Unread + 1)
          = Append(Slice(ring, tail, Unread), ring[Cell(tail + Unread)])
    BY <1>3, <1>5, SlicePut
  <1>7. Cell(tail + Unread) = Cell(head)
    BY HeadCell, UnreadGap
  <1>8. ring[Cell(head)] \in Samples
    BY <1>1 DEF Held
  <1>9. Contents' = Append(Contents, ring[Cell(head)])
    BY <1>1, <1>4, <1>6, <1>7, ContentsSlice
  <1>10. Len(Contents) = Unread
    BY <1>3, <1>5, SliceSeq, ContentsSlice
  <1> QED BY <1>3, <1>8, <1>9, <1>10

\* The step of the tail takes the chunk that was copied out.
LEMMA AdvanceTakes ==
  ASSUME QInv, Advance
  PROVE  /\ Outgoing = <<>>
         /\ Len(Contents) >= StreamChunk
         /\ Outgoing' = SubSeq(Contents, 1, StreamChunk)
         /\ Contents' = SubSeq(Contents, StreamChunk + 1, Len(Contents))
  <1> USE DEF QInv, IInv, LiveInv, TypeOK
  <1>1. /\ strPc = "copy" /\ strPc' = "write" /\ streaming /\ Len(chunk) = StreamChunk
        /\ UNCHANGED <<ring, head, streaming, chunk>>
    BY DEF Advance, Indices
  <1>2. tail' = Plus(tail, StreamChunk)
    BY DEF Advance, Plus
  <1>3. Unread \in Nat /\ tail \in Nat /\ StreamChunk <= Unread /\ Unread <= RingSamples
    BY <1>1, UnreadNat DEF Indices, Index
  <1>4. Unread' = Unread - StreamChunk
    <2>1. tail' = IF tail + StreamChunk < Wrap THEN tail + StreamChunk
                                               ELSE tail + StreamChunk - Wrap
      BY <1>2, PlusIs, Sizes
    <2>2. tail' \in Index
      BY <2>1, Sizes DEF Index
    <2>3. Unread' = IF tail' <= head THEN head - tail' ELSE head + Wrap - tail'
      BY <1>1, <2>2, GapIs, UnreadGap
    <2>4. Unread = IF tail <= head THEN head - tail ELSE head + Wrap - tail
      BY GapIs, UnreadGap
    <2> QED BY <1>3, <2>1, <2>3, <2>4, Sizes DEF Index
  <1>5. ring \in [Cells -> Words]
    BY <1>1 DEF RingLive, Words
  <1>6. Contents = Slice(ring, tail, Unread) /\ Len(Contents) = Unread
    BY <1>1, <1>3, <1>5, SliceSeq, ContentsSlice
  <1>7. chunk = Slice(ring, tail, StreamChunk)
    <2>1. StreamChunk \in Nat
      BY Sizes
    <2>2. /\ Slice(ring, tail, StreamChunk) \in Seq(Words)
          /\ Len(Slice(ring, tail, StreamChunk)) = StreamChunk
          /\ \A i \in 1..StreamChunk :
               Slice(ring, tail, StreamChunk)[i] = ring[Cell(tail + i - 1)]
      BY <1>3, <1>5, <2>1, SliceSeq
    <2>3. chunk \in Seq(Words)
      BY DEF Words
    <2>4. \A i \in 1..StreamChunk : chunk[i] = Slice(ring, tail, StreamChunk)[i]
      BY <1>1, <2>2 DEF Held
    <2> QED BY <1>1, <2>2, <2>3, <2>4, SeqEqual
  <1>8. StreamChunk \in 0..Unread /\ StreamChunk \in 0..RingSamples
    BY <1>3, Sizes
  <1>9. Outgoing' = SubSeq(Contents, 1, StreamChunk)
    <2>1. SubSeq(Slice(ring, tail, Unread), 1, StreamChunk) = Slice(ring, tail, StreamChunk)
      BY <1>3, <1>5, <1>8, SliceFirst
    <2>2. Outgoing' = chunk
      BY <1>1 DEF Outgoing
    <2> QED BY <1>6, <1>7, <2>1, <2>2
  <1>10. Contents' = SubSeq(Contents, StreamChunk + 1, Unread)
    <2>1. SubSeq(Slice(ring, tail, Unread), StreamChunk + 1, Unread)
            = Slice(ring, Plus(tail, StreamChunk), Unread - StreamChunk)
      BY <1>3, <1>5, <1>8, SliceRest
    <2>2. Contents' = Slice(ring, Plus(tail, StreamChunk), Unread - StreamChunk)
      BY <1>1, <1>2, <1>4, ContentsSlice
    <2> QED BY <1>6, <2>1, <2>2
  <1>11. Outgoing = <<>>
    BY <1>1 DEF Outgoing
  <1> QED BY <1>3, <1>6, <1>9, <1>10, <1>11

LEMMA QueueInit == Init => Queue!Init
  <1> SUFFICES ASSUME Init PROVE Queue!Init
    OBVIOUS
  <1>1. ~streaming
    BY Zenon DEF Init
  <1> QED BY <1>1 DEF Init, Queue!Init, Contents, Outgoing

LEMMA QueueCapture ==
  QInv /\ Capture => Queue!Next \/ UNCHANGED <<Contents, Outgoing>>
  <1> SUFFICES ASSUME QInv, Capture
               PROVE  Queue!Next \/ UNCHANGED <<Contents, Outgoing>>
    OBVIOUS
  <1>1. UNCHANGED Outgoing
    BY SameOutgoing DEF Capture, BeginChunk, Test, Write, Load, Store, strVars
  <1>2. CASE BeginChunk \/ Test \/ Load
    BY <1>1, <1>2, Stutters DEF BeginChunk, Test, Load, ringVars
  <1>3. ASSUME NEW x \in Samples, Write(x) PROVE UNCHANGED Contents
    BY <1>3, WriteHidden
  <1>4. CASE Store /\ ~streaming
    BY <1>1, <1>4, StaysEmpty DEF Store
  <1>5. CASE Store /\ streaming
    BY <1>1, <1>5, StorePuts DEF Queue!Next, Queue!Put
  <1> QED BY <1>1, <1>2, <1>3, <1>4, <1>5 DEF Capture

LEMMA QueueStream ==
  QInv /\ Stream => Queue!Next \/ UNCHANGED <<Contents, Outgoing>>
  <1> SUFFICES ASSUME QInv, Stream
               PROVE  Queue!Next \/ UNCHANGED <<Contents, Outgoing>>
    OBVIOUS
  <1> USE DEF QInv, IInv, LiveInv, Indices
  <1>1. CASE Acquire \/ Reset
    <2>1. ~streaming /\ ~streaming'
      BY <1>1 DEF Acquire, Reset
    <2>2. Outgoing' = Outgoing
      BY <1>1 DEF Acquire, Reset, Outgoing
    <2> QED BY <2>1, <2>2, StaysEmpty
  <1>2. CASE Refuse \/ StartChunk \/ Copy
    <2>1. Outgoing' = Outgoing
      BY <1>2 DEF Refuse, StartChunk, Copy, Outgoing
    <2> QED BY <1>2, <2>1, Stutters DEF Refuse, StartChunk, Copy, ringVars
  <1>3. CASE Publish
    <2>1. ~streaming /\ head' = 0 /\ tail' = 0 /\ 0 \in Index
      BY <1>3, Sizes DEF Publish, Index
    <2>2. Unread' = 0
      BY <2>1, GapIs, UnreadGap
    <2>3. Contents = <<>> /\ Contents' = <<>>
      BY <2>1, <2>2, ContentsSlice DEF Slice
    <2>4. Outgoing' = Outgoing
      BY <1>3 DEF Publish, Outgoing
    <2> QED BY <2>3, <2>4
  <1>4. CASE Advance
    BY <1>4, AdvanceTakes DEF Queue!Next, Queue!Take
  <1>5. CASE Written
    <2>1. Contents' = Contents
      BY <1>5, Stutters DEF Written, ringVars
    <2>2. Outgoing # <<>> /\ Outgoing' = <<>>
      BY <1>5, Sizes DEF Written, Outgoing, Held
    <2> QED BY <2>1, <2>2 DEF Queue!Next, Queue!Deliver
  <1>6. CASE Free
    <2>1. ~streaming /\ ~streaming'
      BY <1>6 DEF Free, RingLive
    <2>2. Outgoing' = Outgoing
      BY <1>6 DEF Free, Outgoing
    <2> QED BY <2>1, <2>2, StaysEmpty
  <1> QED BY <1>1, <1>2, <1>3, <1>4, <1>5, <1>6 DEF Stream

LEMMA QueueStep == QInv /\ [Next]_vars => [Queue!Next]_<<Contents, Outgoing>>
  <1> SUFFICES ASSUME QInv, [Next]_vars
               PROVE  Queue!Next \/ UNCHANGED <<Contents, Outgoing>>
    OBVIOUS
  <1>1. CASE Accept \/ HangUp
    <2>1. Outgoing' = Outgoing
      BY <1>1 DEF Accept, HangUp, Outgoing
    <2> QED BY <1>1, <2>1, Stutters DEF Accept, HangUp, ringVars
  <1>2. CASE Release
    <2>1. Contents' = <<>>
      BY <1>2 DEF Release, Contents
    <2>2. Outgoing' = Outgoing
      BY <1>2 DEF Release, Outgoing
    <2> QED BY <2>1, <2>2 DEF Queue!Next, Queue!Clear
  <1>3. CASE UNCHANGED vars
    BY <1>3, Stutters, SameOutgoing DEF vars, ringVars, strVars
  <1> QED BY <1>1, <1>2, <1>3, QueueCapture, QueueStream DEF Next

(***************************************************************************)
(* Without overlapping clients the ring is a bounded queue of samples, for *)
(* any size of the ring, of the chunks and of the indices: every sample    *)
(* that entered it reaches the client once, in order and unaltered, or is  *)
(* cleared with the stream.                                                *)
(***************************************************************************)
THEOREM QueueImplemented == ~Overlap => (Spec => ImplementsQueue)
  <1> SUFFICES ASSUME ~Overlap PROVE Spec => ImplementsQueue
    OBVIOUS
  <1>1. Init => QInv
    BY LiveInit, IndicesInit, HeldInit DEF QInv, IInv
  <1>2. QInv /\ [Next]_vars => QInv'
    BY HeldNext
  <1> QED BY <1>1, <1>2, QueueInit, QueueStep, PTL
          DEF Spec, ImplementsQueue, Queue!Spec, Queue!vars

=============================================================================
