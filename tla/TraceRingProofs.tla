--------------------------- MODULE TraceRingProofs ---------------------------
(***************************************************************************)
(* Proofs about the trace ring, for every size of the ring, of the         *)
(* worker's string and of a word: some for any threads that trace, those   *)
(* about the order of the text for one.                                    *)
(***************************************************************************)
EXTENDS TraceRing, SequenceTheorems, TLAPS

-----------------------------------------------------------------------------
(* Remainders near zero *)

\* A position that is at most two rings away, and a counter that wraps.
LEMMA Remainders ==
  ASSUME NEW s \in Nat, s > 0, NEW x \in Int
  PROVE  /\ x % s \in 0..(s - 1)
         /\ 0 <= x /\ x < s => x % s = x
         /\ s <= x /\ x < 2 * s => x % s = x - s
         /\ x = 2 * s => x % s = 0
         /\ -s <= x /\ x < 0 => x % s = x + s
  OBVIOUS

\* One wrap is one lap, and a counter is not one ahead of itself.
LEMMA NextCount ==
  ASSUME NEW s \in Nat, 1 < s, NEW x \in 0..(s - 1)
  PROVE  (((x + 1) % s) - x) % s = 1 /\ (x - x) % s = 0
  OBVIOUS

\* A counter that is one ahead is met by one wrap.
LEMMA MeetsNext ==
  ASSUME NEW s \in Nat, 1 < s, NEW x \in 0..(s - 1), NEW y \in 0..(s - 1), (y - x) % s = 1
  PROVE  (x + 1) % s = y
<1>1. y - x >= 0 => y - x = 1
  BY Remainders
<1>2. y - x < 0 => y - x + s = 1
  BY Remainders
<1>3. CASE y - x = 1
  BY <1>3, Remainders
<1>4. CASE y - x + s = 1
  BY <1>4, Remainders
<1> QED BY <1>1, <1>2, <1>3, <1>4

\* How far a place of the ring is behind the position where writing goes on.
LEMMA Distance ==
  ASSUME NEW s \in Nat, s > 0, NEW w \in 0..s, NEW x \in 0..(2 * s - 1), NEW d \in 0..(s - 1),
         x - w \in {d, d - s, d + s}
  PROVE  ((x % s) - w) % s = d
<1>1. CASE x < s
  <2>1. x % s = x
    BY <1>1, Remainders
  <2>2. x - w \in {d, d - s}
    BY <1>1
  <2> QED BY <2>1, <2>2, Remainders
<1>2. CASE x >= s
  <2>1. x % s = x - s
    BY <1>2, Remainders
  <2>2. x - s - w \in {d, d - s}
    BY <1>2
  <2> QED BY <2>1, <2>2, Remainders
<1> QED BY <1>1, <1>2

-----------------------------------------------------------------------------
(* The spaces of the ring *)

\* What the two functions compute while the writer is at most a ring ahead.
Spaces ==
  /\ SameLap /\ read_pos <= write_pos =>
       /\ async_ring_buf_get_used_space = write_pos - read_pos
       /\ async_ring_buf_get_free_space = Size - write_pos + read_pos
  /\ NextLap =>
       /\ ~SameLap
       /\ async_ring_buf_get_used_space = Size - read_pos + write_pos
       /\ write_pos <= read_pos => async_ring_buf_get_free_space = read_pos - write_pos

Positions ==
  /\ read_pos \in 0..Size /\ write_pos \in 0..Size
  /\ read_reverse \in 0..(Word - 1) /\ write_reverse \in 0..(Word - 1)

\* The two functions compute the distance of the positions, modulo a word or not.
LEMMA SpacesAre == Positions => Spaces
<1> SUFFICES ASSUME Positions PROVE Spaces
  OBVIOUS
<1>0. Size \in Nat /\ Word \in Nat /\ 1 < Size /\ 2 * Size < Word
  BY SizeAssumption
<1>1. NextLap => ~SameLap
  <2>1. (read_reverse - read_reverse) % Word = 0
    BY <1>0, NextCount DEF Positions
  <2> QED BY <2>1 DEF NextLap, SameLap
<1>2. ASSUME SameLap, read_pos <= write_pos
      PROVE  /\ async_ring_buf_get_used_space = write_pos - read_pos
             /\ async_ring_buf_get_free_space = Size - write_pos + read_pos
  <2>1. (write_pos - read_pos) % Word = write_pos - read_pos
    BY <1>0, <1>2, Remainders DEF Positions
  <2>2. (Size - write_pos + read_pos) % Word = Size - write_pos + read_pos
    BY <1>0, <1>2, Remainders DEF Positions
  <2> QED BY <1>2, <2>1, <2>2 DEF async_ring_buf_get_used_space, async_ring_buf_get_free_space
<1>3. ASSUME NextLap
      PROVE  async_ring_buf_get_used_space = Size - read_pos + write_pos
  <2>1. (Size - read_pos + write_pos) % Word = Size - read_pos + write_pos
    BY <1>0, Remainders DEF Positions
  <2> QED BY <1>1, <1>3, <2>1 DEF async_ring_buf_get_used_space
<1>4. ASSUME NextLap, write_pos <= read_pos
      PROVE  async_ring_buf_get_free_space = read_pos - write_pos
  <2>1. (read_pos - write_pos) % Word = read_pos - write_pos
    BY <1>0, <1>4, Remainders DEF Positions
  <2> QED BY <1>1, <1>4, <2>1 DEF async_ring_buf_get_free_space
<1> QED BY <1>1, <1>2, <1>3, <1>4 DEF Spaces

\* The same after a step.
LEMMA SpacesNext == Positions' => Spaces'
  BY SpacesAre, PTL

\* The spaces are numbers of bytes.
LEMMA SpacesType ==
  Positions => async_ring_buf_get_used_space \in Nat /\ async_ring_buf_get_free_space \in Nat
<1> SUFFICES ASSUME Positions
             PROVE  async_ring_buf_get_used_space \in Nat /\ async_ring_buf_get_free_space \in Nat
  OBVIOUS
<1>0. Size \in Nat /\ Word \in Nat /\ Word > 0
  BY SizeAssumption
<1>1. \A x \in Int : x % Word \in Nat
  BY <1>0, Remainders
<1>2. /\ write_pos - read_pos \in Int /\ Size - read_pos + write_pos \in Int
      /\ read_pos - write_pos \in Int /\ Size - write_pos + read_pos \in Int
  BY <1>0 DEF Positions
<1> QED BY <1>0, <1>1, <1>2 DEF async_ring_buf_get_used_space, async_ring_buf_get_free_space

\* A position stays in the ring, and its counter in a word.
LEMMA AdvanceType ==
  ASSUME NEW p \in 0..Size, NEW r \in 0..(Word - 1), NEW n \in Nat
  PROVE  Advance(p, n) \in 0..Size /\ Laps(p, r, n) \in 0..(Word - 1)
<1>0. Size \in Nat /\ Word \in Nat /\ Word > 0 /\ Size > 0
  BY SizeAssumption
<1>1. p + n > Size => (p + n) % Size \in 0..Size
  BY <1>0, Remainders
<1>2. (r + 1) % Word \in 0..(Word - 1)
  BY <1>0, Remainders
<1> QED BY <1>0, <1>1, <1>2 DEF Advance, Laps

TakesRoom(n) ==
  /\ read_pos' = Advance(read_pos, n) /\ read_reverse' = Laps(read_pos, read_reverse, n)
  /\ UNCHANGED <<write_pos, write_reverse>>

FillsRoom(n) ==
  /\ write_pos' = Advance(write_pos, n) /\ write_reverse' = Laps(write_pos, write_reverse, n)
  /\ UNCHANGED <<read_pos, read_reverse>>

\* Positions stay positions.
LEMMA TakesType ==
  ASSUME Positions, NEW n \in Nat, TakesRoom(n) \/ FillsRoom(n)
  PROVE  Positions'
BY AdvanceType DEF Positions, TakesRoom, FillsRoom

\* When the worker takes all there is, nothing is left: the ring may hold one byte at
\* its end and the writer stand at its beginning, or both at the end.
LEMMA ReadEmpties ==
  ASSUME Positions, SameLap \/ NextLap, async_ring_buf_get_used_space <= LineMax - 1,
         TakesRoom(async_ring_buf_get_used_space)
  PROVE  async_ring_buf_get_used_space' = 0
<1> DEFINE n == async_ring_buf_get_used_space
<1>0. Size \in Nat /\ Word \in Nat /\ 1 < Size /\ 2 * Size < Word /\ LineMax \in Nat /\ LineMax <= Size
  BY SizeAssumption
<1>1. n \in Nat /\ Spaces
  BY SpacesType, SpacesAre
<1>2. Positions' /\ Spaces'
  BY <1>1, TakesType, SpacesNext
<1>3. CASE SameLap
  <2>1. read_pos <= write_pos
    <3> SUFFICES ASSUME write_pos < read_pos PROVE FALSE
      BY <1>0 DEF Positions
    <3>1. n = (write_pos - read_pos) % Word
      BY <1>3 DEF async_ring_buf_get_used_space
    <3>2. (write_pos - read_pos) % Word = write_pos - read_pos + Word
      BY <1>0, Remainders DEF Positions
    <3>3. n <= LineMax - 1
      OBVIOUS
    <3> HIDE DEF n
    <3> QED BY <1>0, <3>1, <3>2, <3>3 DEF Positions
  <2>2. n = write_pos - read_pos
    BY <1>1, <1>3, <2>1 DEF Spaces
  <2> HIDE DEF n
  <2>3. read_pos' = write_pos /\ read_reverse' = read_reverse
    BY <1>0, <2>2 DEF TakesRoom, Advance, Laps, Positions, n
  <2>4. SameLap' /\ read_pos' <= write_pos'
    BY <1>0, <1>3, <2>3 DEF SameLap, TakesRoom, Positions, n
  <2> QED BY <1>0, <1>2, <2>3, <2>4 DEF Spaces, TakesRoom, Positions, n
<1>4. CASE NextLap
  <2>1. n = Size - read_pos + write_pos
    BY <1>1, <1>4 DEF Spaces
  <2>2. TakesRoom(n)
    OBVIOUS
  <2>n. n <= LineMax - 1
    OBVIOUS
  <2> HIDE DEF n
  <2>3. CASE write_pos = 0
    <3>1. read_pos' = Size /\ read_reverse' = read_reverse /\ write_pos' = 0 /\ write_reverse' = write_reverse
      BY <1>0, <2>1, <2>2, <2>3 DEF TakesRoom, Advance, Laps, Positions
    <3>2. NextLap'
      BY <1>4, <3>1 DEF NextLap
    <3> QED BY <1>0, <1>2, <3>1, <3>2 DEF Spaces
  <2>4. CASE write_pos > 0
    <3>1. read_pos + n = Size + write_pos /\ Size + write_pos < 2 * Size
      BY <1>0, <2>1, <2>n DEF Positions
    <3>2. (read_pos + n) % Size = write_pos
      BY <1>0, <3>1, Remainders DEF Positions
    <3>3. (read_reverse + 1) % Word = write_reverse
      BY <1>0, <1>4, MeetsNext DEF Positions, NextLap
    <3>4. read_pos' = write_pos /\ read_reverse' = write_reverse
      BY <1>0, <2>2, <2>4, <3>1, <3>2, <3>3 DEF TakesRoom, Advance, Laps, Positions
    <3>5. write_pos' = write_pos
      BY <2>2 DEF TakesRoom
    <3>6. SameLap' /\ read_pos' <= write_pos'
      BY <1>0, <2>2, <3>4 DEF SameLap, TakesRoom, Positions
    <3>7. async_ring_buf_get_used_space' = write_pos' - read_pos'
      BY <1>2, <3>6 DEF Spaces
    <3> QED BY <1>0, <3>4, <3>5, <3>7 DEF Positions
  <2> QED BY <1>0, <2>3, <2>4 DEF Positions
<1> QED BY <1>3, <1>4

\* What the worker takes is room for the writer, and it never passes the writer.
LEMMA ReadKeepsLap ==
  ASSUME Positions, OneLapAhead, NEW n \in Nat, n < Size, n <= async_ring_buf_get_used_space,
         TakesRoom(n)
  PROVE  /\ OneLapAhead'
         /\ async_ring_buf_get_used_space' = async_ring_buf_get_used_space - n
         /\ async_ring_buf_get_free_space' = async_ring_buf_get_free_space + n
         /\ async_ring_buf_get_used_space <= Size
<1>0. Size \in Nat /\ Word \in Nat /\ 1 < Size /\ 2 * Size < Word
  BY SizeAssumption
<1>1. Spaces
  BY SpacesAre
<1>2. Positions' /\ Spaces'
  BY TakesType, SpacesNext
<1>3. CASE SameLap
  <2>0. read_pos <= write_pos
    BY <1>1, <1>3 DEF OneLapAhead, Spaces
  <2>1. /\ async_ring_buf_get_used_space = write_pos - read_pos
        /\ async_ring_buf_get_free_space = Size - write_pos + read_pos
    BY <1>1, <1>3, <2>0 DEF Spaces
  <2>2. read_pos' = read_pos + n /\ read_reverse' = read_reverse /\ write_pos' = write_pos
    BY <1>0, <2>1 DEF TakesRoom, Advance, Laps, Positions
  <2>3. SameLap' /\ read_pos' <= write_pos'
    BY <1>0, <1>3, <2>1, <2>2 DEF SameLap, TakesRoom, Positions
  <2>4. /\ async_ring_buf_get_used_space' = write_pos - (read_pos + n)
        /\ async_ring_buf_get_free_space' = Size - write_pos + (read_pos + n)
    BY <1>2, <2>2, <2>3 DEF Spaces
  <2> QED BY <1>0, <2>1, <2>3, <2>4 DEF Positions, OneLapAhead
<1>4. CASE NextLap /\ write_pos <= read_pos
  <2>1. /\ async_ring_buf_get_used_space = Size - read_pos + write_pos
        /\ async_ring_buf_get_free_space = read_pos - write_pos
    BY <1>1, <1>4 DEF Spaces
  <2>2. CASE read_pos + n <= Size
    <3>1. read_pos' = read_pos + n /\ read_reverse' = read_reverse /\ write_pos' = write_pos
      BY <1>0, <2>2 DEF TakesRoom, Advance, Laps, Positions
    <3>2. NextLap' /\ write_pos' <= read_pos'
      BY <1>0, <1>4, <3>1 DEF NextLap, TakesRoom, Positions
    <3>3. /\ async_ring_buf_get_used_space' = Size - (read_pos + n) + write_pos
          /\ async_ring_buf_get_free_space' = (read_pos + n) - write_pos
      BY <1>2, <3>1, <3>2 DEF Spaces
    <3> QED BY <1>0, <1>4, <2>1, <3>2, <3>3 DEF Positions, OneLapAhead
  <2>3. CASE read_pos + n > Size
    <3>1. (read_pos + n) % Size = read_pos + n - Size
      BY <1>0, <2>3, Remainders DEF Positions
    <3>2. (read_reverse + 1) % Word = write_reverse
      BY <1>0, <1>4, MeetsNext DEF Positions, NextLap
    <3>3. read_pos' = read_pos + n - Size /\ read_reverse' = write_reverse /\ write_pos' = write_pos
      BY <1>0, <2>3, <3>1, <3>2 DEF TakesRoom, Advance, Laps, Positions
    <3>4. SameLap' /\ read_pos' <= write_pos'
      BY <1>0, <2>1, <3>3 DEF SameLap, TakesRoom, Positions
    <3>5. /\ async_ring_buf_get_used_space' = write_pos - (read_pos + n - Size)
          /\ async_ring_buf_get_free_space' = Size - write_pos + (read_pos + n - Size)
      BY <1>2, <3>3, <3>4 DEF Spaces
    <3> QED BY <1>0, <1>4, <2>1, <3>4, <3>5 DEF Positions, OneLapAhead
  <2> QED BY <1>0, <2>2, <2>3 DEF Positions
<1> QED BY <1>3, <1>4 DEF OneLapAhead

\* What the writer puts where there is room stays within a lap of the worker, if it
\* does not fill the ring.
LEMMA CopyKeepsLap ==
  ASSUME Positions, OneLapAhead, NEW n \in Nat, n < Size, n <= async_ring_buf_get_free_space,
         FillsRoom(n)
  PROVE  /\ OneLapAhead'
         /\ async_ring_buf_get_used_space' = async_ring_buf_get_used_space + n
         /\ async_ring_buf_get_free_space' = async_ring_buf_get_free_space - n
         /\ async_ring_buf_get_used_space + n <= Size
<1>0. Size \in Nat /\ Word \in Nat /\ 1 < Size /\ 2 * Size < Word
  BY SizeAssumption
<1>1. Spaces
  BY SpacesAre
<1>2. Positions' /\ Spaces'
  BY TakesType, SpacesNext
<1>3. CASE SameLap
  <2>0. read_pos <= write_pos
    BY <1>1, <1>3 DEF OneLapAhead, Spaces
  <2>1. /\ async_ring_buf_get_used_space = write_pos - read_pos
        /\ async_ring_buf_get_free_space = Size - write_pos + read_pos
    BY <1>1, <1>3, <2>0 DEF Spaces
  <2>2. CASE write_pos + n <= Size
    <3>1. write_pos' = write_pos + n /\ write_reverse' = write_reverse /\ read_pos' = read_pos
      BY <1>0, <2>2 DEF FillsRoom, Advance, Laps, Positions
    <3>2. SameLap' /\ read_pos' <= write_pos'
      BY <1>0, <1>3, <2>0, <3>1 DEF SameLap, FillsRoom, Positions
    <3>3. /\ async_ring_buf_get_used_space' = (write_pos + n) - read_pos
          /\ async_ring_buf_get_free_space' = Size - (write_pos + n) + read_pos
      BY <1>2, <3>1, <3>2 DEF Spaces
    <3> QED BY <1>0, <2>1, <2>2, <3>2, <3>3 DEF Positions, OneLapAhead
  <2>3. CASE write_pos + n > Size
    <3>1. (write_pos + n) % Size = write_pos + n - Size
      BY <1>0, <2>3, Remainders DEF Positions
    <3>2. write_reverse' = (read_reverse + 1) % Word
      BY <1>0, <1>3, <2>3 DEF Positions, SameLap, FillsRoom, Laps
    <3>3. write_pos' = write_pos + n - Size /\ read_pos' = read_pos /\ read_reverse' = read_reverse
      BY <1>0, <2>3, <3>1 DEF FillsRoom, Advance, Positions
    <3>4. NextLap' /\ write_pos' <= read_pos'
      <4>1. (((read_reverse + 1) % Word) - read_reverse) % Word = 1
        BY <1>0, NextCount DEF Positions
      <4>2. NextLap'
        BY <3>2, <3>3, <4>1 DEF NextLap
      <4>3. write_pos' <= read_pos'
        BY <1>0, <2>1, <3>3 DEF Positions
      <4> QED BY <4>2, <4>3
    <3>5. /\ async_ring_buf_get_used_space' = Size - read_pos + (write_pos + n - Size)
          /\ async_ring_buf_get_free_space' = read_pos - (write_pos + n - Size)
      BY <1>2, <3>3, <3>4 DEF Spaces
    <3> QED BY <1>0, <2>1, <3>4, <3>5 DEF Positions, OneLapAhead
  <2> QED BY <1>0, <2>2, <2>3 DEF Positions
<1>4. CASE NextLap /\ write_pos <= read_pos
  <2>1. /\ async_ring_buf_get_used_space = Size - read_pos + write_pos
        /\ async_ring_buf_get_free_space = read_pos - write_pos
    BY <1>1, <1>4 DEF Spaces
  <2>2. write_pos' = write_pos + n /\ write_reverse' = write_reverse /\ read_pos' = read_pos
    BY <1>0, <2>1 DEF FillsRoom, Advance, Laps, Positions
  <2>3. NextLap' /\ write_pos' <= read_pos'
    BY <1>0, <1>4, <2>1, <2>2 DEF NextLap, FillsRoom, Positions
  <2>4. /\ async_ring_buf_get_used_space' = Size - read_pos + (write_pos + n)
        /\ async_ring_buf_get_free_space' = read_pos - (write_pos + n)
    BY <1>2, <2>2, <2>3 DEF Spaces
  <2> QED BY <1>0, <2>1, <2>3, <2>4 DEF Positions, OneLapAhead
<1> QED BY <1>3, <1>4 DEF OneLapAhead

-----------------------------------------------------------------------------
(* The text of the ring *)

\* Two sequences of bytes, one after the other.
LEMMA Joined ==
  ASSUME NEW V, NEW a \in Seq(V), NEW b \in Seq(V), NEW c \in Seq(V),
         Len(c) = Len(a) + Len(b),
         \A i \in 1..Len(a) : c[i] = a[i],
         \A i \in (Len(a) + 1)..Len(c) : c[i] = b[i - Len(a)]
  PROVE  c = a \o b
<1>1. a \o b \in Seq(V) /\ Len(a \o b) = Len(a) + Len(b)
  OBVIOUS
<1>2. ASSUME NEW i \in 1..Len(c) PROVE c[i] = (a \o b)[i]
  <2>1. CASE i <= Len(a)
    BY <2>1
  <2>2. CASE i > Len(a)
    BY <2>2
  <2> QED BY <2>1, <2>2
<1> QED BY <1>1, <1>2, SeqEqual

\* What is printed is the head of what is to come out.
LEMMA HeadPrinted ==
  ASSUME NEW V, NEW a \in Seq(V), NEW b \in Seq(V)
  PROVE  SubSeq(a \o b, Len(a) + 1, Len(a \o b)) = b
OBVIOUS

\* The empty text.
LEMMA NoText ==
  ASSUME NEW V, NEW a \in Seq(V)
  PROVE  a \o <<>> = a /\ <<>> \o a = a /\ (Len(a) = 0 => a = <<>>)
OBVIOUS

\* The n bytes from p on, of a ring f.
TextAt(f, p, n) == [i \in 1..n |-> f[(p + i - 1) % Size]]

\* It is a text of n bytes.
LEMMA TextIs ==
  ASSUME NEW f \in [0..(Size - 1) -> Byte], NEW p \in Nat, NEW n \in Nat
  PROVE  /\ TextAt(f, p, n) \in Seq(Byte) /\ Len(TextAt(f, p, n)) = n
         /\ \A i \in 1..n : TextAt(f, p, n)[i] = f[(p + i - 1) % Size]
<1>0. Size \in Nat /\ Size > 0
  BY SizeAssumption
<1>1. \A i \in 1..n : (p + i - 1) % Size \in 0..(Size - 1)
  BY <1>0, Remainders
<1>2. \A i \in 1..n : f[(p + i - 1) % Size] \in Byte
  BY <1>1
<1> QED BY <1>2 DEF TextAt

\* A read splits the text in what it takes and what stays.
LEMMA ReadSplits ==
  ASSUME start \in [0..(Size - 1) -> Byte], Positions, OneLapAhead,
         NEW n \in Nat, n < Size, n <= async_ring_buf_get_used_space,
         TakesRoom(n), start' = start
  PROVE  Contents = Bytes(read_pos, n) \o Contents'
<1> DEFINE used == async_ring_buf_get_used_space
           next == async_ring_buf_get_used_space'
           rest == TextAt(start, read_pos', next)
           all == TextAt(start, read_pos, used)
           head == TextAt(start, read_pos, n)
<1>0. Size \in Nat /\ 1 < Size
  BY SizeAssumption
<1>1. Positions' /\ used \in Nat
  BY TakesType, SpacesType
<1>2. next = used - n /\ used <= Size /\ next \in Nat
  BY <1>1, ReadKeepsLap
<1>3. Contents = all /\ Contents' = rest
  BY DEF Contents, Bytes, TextAt
<1>4. read_pos \in 0..Size /\ read_pos' \in 0..Size
  BY <1>0, <1>1 DEF Positions
<1>5. /\ read_pos + n <= Size => read_pos' = read_pos + n
      /\ read_pos + n > Size => read_pos' = read_pos + n - Size
  BY <1>0, <1>4, Remainders DEF TakesRoom, Advance
<1> HIDE DEF used, next, rest, all, head
<1>6. ASSUME NEW i \in (n + 1)..used PROVE (read_pos + i - 1) % Size = (read_pos' + (i - n) - 1) % Size
  <2>1. CASE read_pos + n <= Size
    BY <1>0, <1>4, <1>5, <2>1
  <2>2. CASE read_pos + n > Size
    <3>1. /\ Size <= read_pos + i - 1 /\ read_pos + i - 1 < 2 * Size
          /\ read_pos' + (i - n) - 1 = read_pos + i - 1 - Size
      BY <1>0, <1>1, <1>2, <1>4, <1>5, <2>2
    <3>2. (read_pos + i - 1) % Size = read_pos + i - 1 - Size
      BY <1>0, <1>4, <3>1, Remainders
    <3>3. (read_pos + i - 1 - Size) % Size = read_pos + i - 1 - Size
      BY <1>0, <1>4, <3>1, Remainders
    <3> QED BY <3>1, <3>2, <3>3
  <2> QED BY <1>0, <1>4, <2>1, <2>2
<1>p. read_pos \in Nat /\ read_pos' \in Nat
  BY <1>0, <1>4
<1>7. /\ all \in Seq(Byte) /\ Len(all) = used
      /\ \A i \in 1..used : all[i] = start[(read_pos + i - 1) % Size]
  BY <1>1, <1>p, TextIs DEF all
<1>8. /\ head \in Seq(Byte) /\ Len(head) = n
      /\ \A i \in 1..n : head[i] = start[(read_pos + i - 1) % Size]
  BY <1>p, TextIs DEF head
<1>9. /\ rest \in Seq(Byte) /\ Len(rest) = next
      /\ \A i \in 1..next : rest[i] = start[(read_pos' + i - 1) % Size]
  BY <1>2, <1>p, TextIs DEF rest
<1>10. \A i \in (n + 1)..used : all[i] = rest[i - n]
  BY <1>1, <1>2, <1>6, <1>7, <1>9
<1>11. all = head \o rest
  <2>1. Len(all) = Len(head) + Len(rest)
    BY <1>1, <1>2, <1>7, <1>8, <1>9
  <2>2. \A i \in 1..Len(head) : all[i] = head[i]
    BY <1>1, <1>2, <1>7, <1>8
  <2>3. \A i \in (Len(head) + 1)..Len(all) : all[i] = rest[i - Len(head)]
    BY <1>7, <1>8, <1>10
  <2> QED BY <1>7, <1>8, <1>9, <2>1, <2>2, <2>3, Joined
<1> QED BY <1>3, <1>11 DEF head, Bytes, TextAt

Copied(line) ==
  start' = [k \in DOMAIN start |->
              IF (k - write_pos) % Size < Len(line) THEN line[1 + ((k - write_pos) % Size)]
              ELSE start[k]]

\* What a copy changes: the places within the line's length from write_pos on.
LEMMA CopiedType ==
  ASSUME start \in [0..(Size - 1) -> Byte], write_pos \in Int, NEW line \in Seq(Byte), Copied(line)
  PROVE  /\ start' \in [0..(Size - 1) -> Byte]
         /\ \A k \in 0..(Size - 1) :
              start'[k] = IF (k - write_pos) % Size < Len(line)
                            THEN line[1 + ((k - write_pos) % Size)] ELSE start[k]
<1>0. Size \in Nat /\ Size > 0
  BY SizeAssumption
<1>1. \A k \in 0..(Size - 1) : (k - write_pos) % Size \in Nat
  BY <1>0, Remainders
<1>2. \A k \in 0..(Size - 1) :
        (k - write_pos) % Size < Len(line) => line[1 + ((k - write_pos) % Size)] \in Byte
  BY <1>1
<1> QED BY <1>2 DEF Copied

\* A line that fits is added behind the text, and none of the text is overwritten.
LEMMA CopyAppends ==
  ASSUME start \in [0..(Size - 1) -> Byte], Positions, OneLapAhead,
         NEW line \in Seq(Byte), Len(line) < Size, Len(line) <= async_ring_buf_get_free_space,
         FillsRoom(Len(line)), Copied(line)
  PROVE  Contents' = Contents \o line
<1> DEFINE n == Len(line)
           used == async_ring_buf_get_used_space
           next == async_ring_buf_get_used_space'
           old == TextAt(start, read_pos, used)
           new == TextAt(start', read_pos, next)
<1>0. Size \in Nat /\ 1 < Size /\ n \in Nat
  BY SizeAssumption
<1>1. Positions' /\ used \in Nat /\ Spaces
  BY <1>0, TakesType, SpacesType, SpacesAre
<1>2. next = used + n /\ used + n <= Size /\ next \in Nat
  BY <1>0, <1>1, CopyKeepsLap
<1>3. read_pos' = read_pos /\ read_pos \in 0..Size /\ write_pos \in 0..Size
  BY <1>0 DEF Positions, FillsRoom
<1>4. Contents = old /\ Contents' = new
  BY <1>3 DEF Contents, Bytes, TextAt
<1>5. read_pos + used \in {write_pos, write_pos + Size}
  BY <1>0, <1>1, <1>3 DEF Spaces, OneLapAhead
<1>6. start' \in [0..(Size - 1) -> Byte]
  BY <1>0, <1>3, CopiedType
<1>7. \A k \in 0..(Size - 1) :
        start'[k] = IF (k - write_pos) % Size < n THEN line[1 + ((k - write_pos) % Size)] ELSE start[k]
  BY <1>0, <1>3, CopiedType
<1>8. read_pos \in Nat
  BY <1>0, <1>3
<1> HIDE DEF n, used, next, old, new
<1>9. /\ old \in Seq(Byte) /\ Len(old) = used
      /\ \A i \in 1..used : old[i] = start[(read_pos + i - 1) % Size]
  BY <1>1, <1>8, TextIs DEF old
<1>10. /\ new \in Seq(Byte) /\ Len(new) = next
       /\ \A i \in 1..next : new[i] = start'[(read_pos + i - 1) % Size]
  BY <1>2, <1>6, <1>8, TextIs DEF new
<1>11. ASSUME NEW i \in 1..used PROVE new[i] = old[i]
  <2>1. (((read_pos + i - 1) % Size) - write_pos) % Size = Size + i - 1 - used
    <3> DEFINE x == read_pos + i - 1
               d == Size + i - 1 - used
    <3>1. x \in 0..(2 * Size - 1) /\ d \in 0..(Size - 1)
      BY <1>0, <1>1, <1>2, <1>3
    <3>2. x - write_pos \in {d, d - Size, d + Size}
      BY <1>0, <1>1, <1>3, <1>5
    <3>3. Size > 0
      BY <1>0
    <3> HIDE DEF x, d
    <3>4. ((x % Size) - write_pos) % Size = d
      BY <1>0, <1>3, <3>1, <3>2, <3>3, Distance
    <3> QED BY <3>4 DEF x, d
  <2>2. (read_pos + i - 1) % Size \in 0..(Size - 1)
    BY <1>0, <1>8, Remainders
  <2>3. ~ (Size + i - 1 - used < n)
    BY <1>0, <1>1, <1>2
  <2>4. start'[(read_pos + i - 1) % Size] = start[(read_pos + i - 1) % Size]
    BY <1>7, <2>1, <2>2, <2>3
  <2>5. i \in 1..next
    BY <1>0, <1>1, <1>2
  <2> QED BY <1>9, <1>10, <2>4, <2>5
<1>12. ASSUME NEW i \in (used + 1)..next PROVE new[i] = line[i - used]
  <2>1. (((read_pos + i - 1) % Size) - write_pos) % Size = i - used - 1
    <3> DEFINE x == read_pos + i - 1
               d == i - used - 1
    <3>1. x \in 0..(2 * Size - 1) /\ d \in 0..(Size - 1)
      BY <1>0, <1>1, <1>2, <1>3
    <3>2. x - write_pos \in {d, d - Size, d + Size}
      BY <1>0, <1>1, <1>3, <1>5
    <3>3. Size > 0
      BY <1>0
    <3> HIDE DEF x, d
    <3>4. ((x % Size) - write_pos) % Size = d
      BY <1>0, <1>3, <3>1, <3>2, <3>3, Distance
    <3> QED BY <3>4 DEF x, d
  <2>2. (read_pos + i - 1) % Size \in 0..(Size - 1)
    BY <1>0, <1>1, <1>8, Remainders
  <2>3. i - used - 1 < n /\ 1 + (i - used - 1) = i - used
    BY <1>0, <1>1, <1>2
  <2>4. start'[(read_pos + i - 1) % Size] = line[i - used]
    BY <1>7, <2>1, <2>2, <2>3
  <2>5. i \in 1..next
    BY <1>0, <1>1, <1>2
  <2> QED BY <1>10, <2>4, <2>5
<1>13. new = old \o line
  <2>1. Len(new) = Len(old) + Len(line)
    BY <1>2, <1>9, <1>10 DEF n
  <2>2. \A i \in 1..Len(old) : new[i] = old[i]
    BY <1>9, <1>11
  <2>3. \A i \in (Len(old) + 1)..Len(new) : new[i] = line[i - Len(old)]
    BY <1>9, <1>10, <1>12
  <2> QED BY <1>9, <1>10, <2>1, <2>2, <2>3, Joined
<1> QED BY <1>4, <1>13

-----------------------------------------------------------------------------
(* The steps of the threads that trace *)

\* A line is a text of one of the lengths.
LEMMA LineIs ==
  \A line \in Lines \cup {<<>>} : line \in Seq(Byte) /\ Len(line) \in Lens \cup {0} /\ Len(line) \in Nat
<1>1. Lens \subseteq Nat
  BY LensAssumption, SizeAssumption
<1>2. ASSUME NEW n \in Lens, NEW c \in Texts
      PROVE  Line(n, c) \in Seq(Byte) /\ Len(Line(n, c)) = n
  <2>1. n \in Nat /\ c \in Byte
    BY <1>1 DEF Byte
  <2> QED BY <2>1 DEF Line
<1>3. <<>> \in Seq(Byte) /\ Len(<<>>) = 0
  OBVIOUS
<1>4. ASSUME NEW line \in Lines PROVE line \in Seq(Byte) /\ Len(line) \in Lens
  BY <1>2 DEF Lines
<1> QED BY <1>1, <1>3, <1>4

\* The types give the positions theirs.
LEMMA PositionsAre == TypeOK => Positions
  BY DEF TypeOK, Positions

\* What does not touch the ring leaves all that is read off it.
LEMMA RingStays ==
  ASSUME UNCHANGED ring
  PROVE  /\ async_ring_buf_get_used_space' = async_ring_buf_get_used_space
         /\ async_ring_buf_get_free_space' = async_ring_buf_get_free_space
         /\ Contents' = Contents
         /\ OneLapAhead => OneLapAhead'
<1>0. UNCHANGED <<start, read_pos, read_reverse, write_pos, write_reverse>>
  BY DEF ring
<1>1. async_ring_buf_get_used_space' = async_ring_buf_get_used_space
  BY <1>0 DEF async_ring_buf_get_used_space, SameLap, NextLap
<1>2. async_ring_buf_get_free_space' = async_ring_buf_get_free_space
  BY <1>0 DEF async_ring_buf_get_free_space, SameLap, NextLap
<1>3. Contents' = Contents
  BY <1>0, <1>1 DEF Contents, Bytes
<1>4. OneLapAhead => OneLapAhead'
  BY <1>0 DEF OneLapAhead, SameLap, NextLap
<1> QED BY <1>1, <1>2, <1>3, <1>4

\* t goes to q, and does nothing else but raise the semaphore.
Moves(t, q) ==
  /\ writer' = [writer EXCEPT ![t] = q]
  /\ sem' \in Nat /\ sem' >= sem
  /\ writer[t].pc \in {"value", "post"} => q.pc \in {"value", "post"} \/ sem' > 0
  /\ UNCHANGED <<ring, worker, exit, closer, pending, crowded>>

\* Such a move keeps the invariant: who was about to look at the semaphore still is,
\* or it is up.
LEMMA MovesKeeps ==
  ASSUME IInv, NEW t \in Writers, NEW q \in WriterType, Moves(t, q), ~exit
  PROVE  IInv'
<1>0. UNCHANGED <<start, read_pos, read_reverse, write_pos, write_reverse>>
  BY DEF Moves, ring
<1>1. writer' \in [Writers -> WriterType] /\ writer'[t] = q /\ \A s \in Writers \ {t} : writer'[s] = writer[s]
  BY DEF IInv, TypeOK, Moves
<1>2. TypeOK'
  BY <1>0, <1>1 DEF IInv, TypeOK, Moves
<1>3. async_ring_buf_get_used_space' = async_ring_buf_get_used_space
  BY RingStays DEF Moves
<1>4. TextAnnounced'
  <2> SUFFICES ASSUME async_ring_buf_get_used_space > 0, ~ (sem' > 0), ~ (worker.pc \in {"read", "assert"}),
                      ~ (worker.pc = "print" /\ worker.cycle)
               PROVE  \E s \in Writers : writer'[s].pc \in {"value", "post"}
    BY <1>3 DEF TextAnnounced, Moves
  <2>1. ~ (sem > 0)
    BY DEF Moves, IInv, TypeOK
  <2>2. PICK s \in Writers : writer[s].pc \in {"value", "post"}
    BY <2>1 DEF IInv, TextAnnounced
  <2> QED BY <1>1, <2>2 DEF Moves
<1>5. LastLook'
  BY <1>3 DEF IInv, LastLook, Moves
<1> QED BY <1>2, <1>4, <1>5 DEF IInv

\* A thread that traces goes from one place to another with its line.
LEMMA WriterIs ==
  ASSUME IInv, NEW t \in Writers
  PROVE  /\ writer[t] \in WriterType
         /\ writer[t].line \in Lines \cup {<<>>}
         /\ \A pc \in {"full", "recheck", "copy", "value", "post", "idle"} :
              /\ [writer EXCEPT ![t].pc = pc] = [writer EXCEPT ![t] = [writer[t] EXCEPT !.pc = pc]]
              /\ [writer[t] EXCEPT !.pc = pc] \in WriterType
              /\ [writer[t] EXCEPT !.pc = pc].pc = pc
              /\ [writer[t] EXCEPT !.pc = pc].line = writer[t].line
         /\ writer[t].pc # "idle" => ~exit
<1>1. writer[t] \in WriterType /\ DOMAIN writer = Writers
  BY DEF IInv, TypeOK
<1>2. writer[t].pc # "idle" => ~exit
  BY DEF IInv, LastLook
<1> QED BY <1>1, <1>2 DEF WriterType

\* Every step of a thread that traces, but the copy, is such a move; and it goes on to
\* the copy only with the room for its line.
LEMMA WriterMoves ==
  ASSUME IInv, NEW t \in Writers,
         \/ async_ring_buf_write(t) \/ SemValueZero(t) \/ Recheck(t)
         \/ SemGetValue(t) \/ SemPost(t)
  PROVE  /\ ~exit
         /\ \E q \in WriterType :
              /\ Moves(t, q)
              /\ q.pc = "copy" => Len(q.line) <= async_ring_buf_get_free_space
<1> DEFINE free == async_ring_buf_get_free_space
           p == writer[t]
           Good(q) == Moves(t, q) /\ (q.pc = "copy" => Len(q.line) <= free)
<1>0. sem \in Nat /\ free \in Nat /\ sem >= sem /\ sem + 1 >= sem /\ sem + 1 \in Nat /\ sem + 1 > 0
  <2>1. sem \in Nat /\ free \in Nat
    BY SpacesType, PositionsAre DEF IInv, TypeOK
  <2> HIDE DEF free
  <2> QED BY <2>1
<1>i. [pc |-> "idle", line |-> <<>>] \in WriterType
  BY DEF WriterType
<1>w. /\ p \in WriterType
      /\ \A pc \in {"full", "recheck", "copy", "value", "post", "idle"} :
           /\ [writer EXCEPT ![t].pc = pc] = [writer EXCEPT ![t] = [p EXCEPT !.pc = pc]]
           /\ [p EXCEPT !.pc = pc] \in WriterType
           /\ [p EXCEPT !.pc = pc].pc = pc
           /\ [p EXCEPT !.pc = pc].line = p.line
      /\ p.pc # "idle" => ~exit
  BY WriterIs
<1>1. CASE async_ring_buf_write(t)
  <2>1. PICK line \in Lines :
          writer' = [writer EXCEPT ![t] = [pc |-> IF free < Len(line) THEN "full" ELSE "copy",
                                           line |-> line]]
    BY <1>1 DEF async_ring_buf_write
  <2> DEFINE q == [pc |-> IF free < Len(line) THEN "full" ELSE "copy", line |-> line]
  <2>2. q \in WriterType /\ q.pc = (IF free < Len(line) THEN "full" ELSE "copy") /\ q.line = line
    BY DEF WriterType
  <2>3. Len(line) \in Nat
    BY LineIs
  <2>4. q.pc = "copy" => Len(q.line) <= free
    <3> HIDE DEF q, free
    <3> QED BY <1>0, <2>2, <2>3
  <2>5. Moves(t, q)
    <3>1. p.pc = "idle"
      BY <1>1 DEF async_ring_buf_write
    <3> HIDE DEF q
    <3>2. writer' = [writer EXCEPT ![t] = q]
      BY <2>1 DEF q
    <3> QED BY <1>0, <1>1, <3>1, <3>2 DEF async_ring_buf_write, Moves
  <2>6. ~exit
    BY <1>1 DEF async_ring_buf_write, IInv, LastLook
  <2> QED BY <2>2, <2>4, <2>5, <2>6
<1>2. CASE SemValueZero(t)
  <2> DEFINE q == [p EXCEPT !.pc = "recheck"]
  <2>1. q \in WriterType /\ q.pc = "recheck"
    BY <1>w
  <2>2. p.pc = "full" /\ writer' = [writer EXCEPT ![t] = q]
    BY <1>2, <1>w DEF SemValueZero, Goto
  <2> HIDE DEF q
  <2>3. Moves(t, q)
    BY <1>0, <1>2, <2>2 DEF SemValueZero, Moves
  <2> QED BY <1>w, <2>1, <2>2, <2>3
<1>3. CASE Recheck(t)
  <2> DEFINE next == IF free < Len(p.line) THEN "full" ELSE "copy"
             q == [p EXCEPT !.pc = next]
  <2>0. next \in {"full", "copy"}
    OBVIOUS
  <2>1. q \in WriterType /\ q.pc = next /\ q.line = p.line
    <3> HIDE DEF next
    <3> QED BY <1>w, <2>0
  <2>2. p.pc = "recheck" /\ writer' = [writer EXCEPT ![t] = q]
    <3>1. p.pc = "recheck" /\ writer' = [writer EXCEPT ![t].pc = next]
      BY <1>3 DEF Recheck, Goto
    <3> HIDE DEF next
    <3> QED BY <1>w, <2>0, <3>1
  <2>3. Len(p.line) \in Nat
    BY LineIs, WriterIs
  <2>4. q.pc = "copy" => Len(q.line) <= free
    <3> HIDE DEF q, free
    <3> QED BY <1>0, <2>1, <2>3
  <2> HIDE DEF q
  <2>5. Moves(t, q)
    BY <1>0, <1>3, <2>2 DEF Recheck, Moves
  <2> QED BY <1>w, <2>1, <2>2, <2>4, <2>5
<1>4. CASE SemGetValue(t)
  <2>0. p.pc = "value"
    BY <1>4 DEF SemGetValue
  <2>1. CASE sem = 0
    <3> DEFINE q == [p EXCEPT !.pc = "post"]
    <3>1. q \in WriterType /\ q.pc = "post"
      BY <1>w
    <3>2. writer' = [writer EXCEPT ![t] = q]
      BY <1>4, <2>1, WriterIs DEF SemGetValue, IInv, TypeOK
    <3> HIDE DEF q
    <3>3. Moves(t, q)
      BY <1>0, <1>4, <3>1, <3>2 DEF SemGetValue, Moves
    <3> QED BY <1>w, <2>0, <3>1, <3>3
  <2>2. CASE sem > 0
    <3> DEFINE q == [pc |-> "idle", line |-> <<>>]
    <3>0. sem # 0
      BY <2>2
    <3>1. writer' = [writer EXCEPT ![t] = q]
      BY <1>4, <3>0, Zenon DEF SemGetValue
    <3>2. q \in WriterType /\ q.pc = "idle"
      BY <1>i
    <3> HIDE DEF q
    <3>3. Moves(t, q)
      BY <1>0, <1>4, <2>2, <3>1 DEF SemGetValue, Moves
    <3> QED BY <1>w, <2>0, <3>2, <3>3
  <2> QED BY <1>0, <2>1, <2>2
<1>5. CASE SemPost(t)
  <2> DEFINE q == [pc |-> "idle", line |-> <<>>]
  <2>1. q \in WriterType /\ q.pc = "idle"
    BY <1>i
  <2>2. writer' = [writer EXCEPT ![t] = q] /\ p.pc = "post" /\ sem' = sem + 1
    BY <1>5 DEF SemPost
  <2> HIDE DEF q
  <2>3. Moves(t, q)
    BY <1>0, <1>5, <2>2 DEF SemPost, Moves
  <2> QED BY <1>w, <2>1, <2>2, <2>3
<1> QED BY <1>1, <1>2, <1>3, <1>4, <1>5

CopyOf(t) == FillsRoom(Len(writer[t].line)) /\ Copied(writer[t].line)

\* The copy, position by position.
LEMMA CopyIs ==
  ASSUME IInv, NEW t \in Writers, Copy(t)
  PROVE  /\ CopyOf(t) /\ Positions /\ Positions' /\ ~exit
         /\ start' \in [0..(Size - 1) -> Byte]
         /\ writer[t].line \in Seq(Byte) /\ Len(writer[t].line) \in Nat
         /\ writer' \in [Writers -> WriterType] /\ writer'[t].pc = "value"
         /\ \A s \in Writers \ {t} : writer'[s] = writer[s]
<1>1. CopyOf(t)
  BY DEF Copy, CopyOf, FillsRoom, Copied
<1>2. writer[t].line \in Seq(Byte) /\ Len(writer[t].line) \in Nat
  BY LineIs, WriterIs
<1>3. Positions /\ Positions' /\ write_pos \in Int /\ start \in [0..(Size - 1) -> Byte]
  BY <1>1, <1>2, PositionsAre, TakesType, SizeAssumption DEF CopyOf, IInv, TypeOK
<1>4. start' \in [0..(Size - 1) -> Byte]
  BY <1>1, <1>2, <1>3, CopiedType DEF CopyOf
<1>5. writer[t].pc = "copy"
  BY DEF Copy
<1>6. writer' = [writer EXCEPT ![t] = [writer[t] EXCEPT !.pc = "value"]]
  BY WriterIs DEF Copy, Goto
<1>7. [writer[t] EXCEPT !.pc = "value"] \in WriterType /\ [writer[t] EXCEPT !.pc = "value"].pc = "value"
  BY WriterIs
<1> DEFINE q == [writer[t] EXCEPT !.pc = "value"]
<1>8. q \in WriterType /\ q.pc = "value" /\ writer' = [writer EXCEPT ![t] = q]
  BY <1>6, <1>7
<1> HIDE DEF q
<1>9. /\ writer' \in [Writers -> WriterType] /\ writer'[t].pc = "value"
      /\ \A s \in Writers \ {t} : writer'[s] = writer[s]
  BY <1>8 DEF IInv, TypeOK
<1>10. ~exit
  BY <1>5, WriterIs
<1> QED BY <1>1, <1>2, <1>3, <1>4, <1>9, <1>10

\* After the copy the writer is about to look at the semaphore.
LEMMA CopyKeeps ==
  ASSUME IInv, NEW t \in Writers, Copy(t)
  PROVE  IInv'
<1>1. UNCHANGED <<sem, worker, exit, closer>> /\ pending' = pending \o writer[t].line
  BY DEF Copy
<1>2. TypeOK'
  <2>1. pending' \in Seq(Byte)
    BY <1>1, CopyIs DEF IInv, TypeOK
  <2>2. crowded' \in BOOLEAN
    BY DEF Copy
  <2> QED BY <1>1, <2>1, <2>2, CopyIs DEF IInv, TypeOK, Positions
<1>3. TextAnnounced'
  BY CopyIs DEF TextAnnounced
<1>4. LastLook'
  BY <1>1, CopyIs DEF LastLook, IInv
<1> QED BY <1>2, <1>3, <1>4 DEF IInv

-----------------------------------------------------------------------------
(* The steps of the worker *)

\* The worker's locals have their types.
LEMMA WorkerIs ==
  ASSUME IInv
  PROVE  /\ worker \in WorkerType /\ worker.string \in Seq(Byte) /\ worker.cycle \in BOOLEAN
         /\ worker.last \in BOOLEAN /\ 0 < LineMax /\ <<>> \in Seq(Byte) /\ Len(<<>>) = 0
         /\ AfterLoop(worker.cycle, worker.last) \in {"read", "done", "exit?"}
<1>1. worker \in WorkerType /\ 0 < LineMax
  BY SizeAssumption DEF IInv, TypeOK
<1> QED BY <1>1 DEF WorkerType, AfterLoop

\* The worker is at pc with a string, and has changed no more than its locals.
At(pc, string, cycle, last) ==
  /\ worker' \in WorkerType
  /\ worker'.pc = pc /\ worker'.string = string /\ worker'.cycle = cycle /\ worker'.last = last
  /\ Len(string) < LineMax
  /\ UNCHANGED <<writer, exit, closer>>

ReadsNothing ==
  /\ async_ring_buf_get_used_space = 0
  /\ At(AfterLoop(worker.cycle, worker.last), <<>>, worker.cycle, worker.last)
  /\ UNCHANGED <<ring, sem, pending, crowded>>

Asserts ==
  /\ ~SameLap /\ ~NextLap
  /\ At("assert", <<>>, worker.cycle, worker.last)
  /\ UNCHANGED <<ring, sem, pending, crowded>>

Reads(n) ==
  /\ n <= LineMax - 1 /\ n <= async_ring_buf_get_used_space
  /\ async_ring_buf_get_used_space <= LineMax - 1 => n = async_ring_buf_get_used_space
  /\ SameLap \/ NextLap
  /\ TakesRoom(n) /\ start' = start
  /\ At("print", Bytes(read_pos, n), async_ring_buf_get_used_space > LineMax - 1, worker.last)
  /\ UNCHANGED <<sem, pending, crowded>>

\* A locked section of the worker finds nothing, fails its assertion, or takes n bytes.
LEMMA ReadIs ==
  ASSUME IInv, async_ring_buf_read
  PROVE  /\ worker.pc = "read" /\ worker.string = <<>>
         /\ ReadsNothing \/ Asserts \/ \E n \in Nat : Reads(n)
<1> DEFINE used == async_ring_buf_get_used_space
           n == IF used > LineMax - 1 THEN LineMax - 1 ELSE used
<1>1. worker.pc = "read" /\ worker.string = <<>>
  BY DEF async_ring_buf_read, IInv, LastLook
<1>2. LineMax \in Nat /\ 1 < LineMax /\ Positions /\ used \in Nat /\ start \in [0..(Size - 1) -> Byte]
  BY SizeAssumption, PositionsAre, SpacesType DEF IInv, TypeOK
<1>3. CASE used = 0
  <2>1. worker' = [worker EXCEPT !.pc = AfterLoop(worker.cycle, worker.last)] /\ UNCHANGED ring
    BY <1>3 DEF async_ring_buf_read
  <2>2. UNCHANGED <<sem, writer, exit, closer, pending, crowded>>
    BY DEF async_ring_buf_read
  <2> DEFINE pc == AfterLoop(worker.cycle, worker.last)
  <2>3. pc \in {"read", "done", "exit?"} /\ worker' = [worker EXCEPT !.pc = pc]
    BY <2>1, WorkerIs
  <2> HIDE DEF pc
  <2>4. /\ worker' \in WorkerType /\ worker'.pc = pc /\ worker'.string = worker.string
        /\ worker'.cycle = worker.cycle /\ worker'.last = worker.last
    BY <2>3, WorkerIs DEF WorkerType
  <2>5. At(pc, <<>>, worker.cycle, worker.last)
    BY <1>1, <2>2, <2>4, WorkerIs DEF At
  <2>6. ReadsNothing
    BY <1>3, <2>1, <2>2, <2>5 DEF ReadsNothing, pc
  <2> QED BY <1>1, <2>6
<1>4. CASE used # 0 /\ ~SameLap /\ ~NextLap
  <2>1. worker' = [worker EXCEPT !.pc = "assert"] /\ UNCHANGED ring
    BY <1>4 DEF async_ring_buf_read
  <2>2. UNCHANGED <<sem, writer, exit, closer, pending, crowded>>
    BY DEF async_ring_buf_read
  <2>4. /\ worker' \in WorkerType /\ worker'.pc = "assert" /\ worker'.string = worker.string
        /\ worker'.cycle = worker.cycle /\ worker'.last = worker.last
    BY <2>1, WorkerIs DEF WorkerType
  <2>5. At("assert", <<>>, worker.cycle, worker.last)
    BY <1>1, <2>2, <2>4, WorkerIs DEF At
  <2>6. Asserts
    BY <1>4, <2>1, <2>2, <2>5 DEF Asserts
  <2> QED BY <1>1, <2>6
<1>5. CASE used # 0 /\ (SameLap \/ NextLap)
  <2> DEFINE string == Bytes(read_pos, n)
             cycle == used > LineMax - 1
  <2>1. /\ worker' = [worker EXCEPT !.pc = "print", !.string = string, !.cycle = cycle]
        /\ read_pos' = Advance(read_pos, n) /\ read_reverse' = Laps(read_pos, read_reverse, n)
        /\ UNCHANGED <<start, write_pos, write_reverse>>
    BY <1>5 DEF async_ring_buf_read
  <2>2. UNCHANGED <<sem, writer, exit, closer, pending, crowded>>
    BY DEF async_ring_buf_read
  <2>3. n \in Nat /\ n <= LineMax - 1 /\ n <= used /\ (used <= LineMax - 1 => n = used)
    <3> HIDE DEF used
    <3> QED BY <1>2
  <2>4. read_pos \in Nat
    BY <1>2, SizeAssumption DEF Positions
  <2>5. cycle \in BOOLEAN
    OBVIOUS
  <2>6. string \in Seq(Byte) /\ Len(string) = n
    <3> HIDE DEF n
    <3>1. TextAt(start, read_pos, n) \in Seq(Byte) /\ Len(TextAt(start, read_pos, n)) = n
      BY <1>2, <2>3, <2>4, TextIs
    <3> QED BY <3>1 DEF Bytes, TextAt
  <2>7. Len(string) < LineMax
    <3> DEFINE len == Len(string)
    <3>1. len = n
      BY <2>6
    <3> HIDE DEF len, n
    <3>2. len < LineMax
      BY <1>2, <2>3, <3>1
    <3> QED BY <3>2 DEF len
  <2> HIDE DEF string, cycle, n
  <2>8. /\ worker' \in WorkerType /\ worker'.pc = "print" /\ worker'.string = string
        /\ worker'.cycle = cycle /\ worker'.last = worker.last
    BY <2>1, <2>5, <2>6, WorkerIs DEF WorkerType
  <2>9. At("print", string, cycle, worker.last)
    BY <2>2, <2>7, <2>8 DEF At
  <2>10. At("print", Bytes(read_pos, n), used > LineMax - 1, worker.last)
    BY <2>9 DEF string, cycle
  <2>11. Reads(n)
    BY <1>5, <2>1, <2>2, <2>3, <2>10 DEF Reads, TakesRoom
  <2> QED BY <1>1, <2>3, <2>11
<1> QED BY <1>3, <1>4, <1>5

\* The worker goes on in its loop, or has left nothing in the ring.
LEMMA ReadKeeps ==
  ASSUME IInv, async_ring_buf_read
  PROVE  IInv'
<1>0. worker.pc = "read" /\ worker.string = <<>>
  BY ReadIs
<1>1. CASE ReadsNothing
  <2>1. async_ring_buf_get_used_space' = 0
    BY <1>1, RingStays DEF ReadsNothing
  <2>2. TypeOK'
    BY <1>1 DEF IInv, TypeOK, ReadsNothing, At, ring
  <2>3. TextAnnounced'
    BY <2>1 DEF TextAnnounced
  <2>4. LastLook'
    BY <1>0, <1>1, <2>1, WorkerIs DEF LastLook, ReadsNothing, At, AfterLoop, IInv
  <2> QED BY <2>2, <2>3, <2>4 DEF IInv
<1>2. CASE Asserts
  <2>2. TypeOK'
    BY <1>2 DEF IInv, TypeOK, Asserts, At, ring
  <2>3. TextAnnounced'
    BY <1>2 DEF TextAnnounced, Asserts, At
  <2>4. LastLook'
    BY <1>0, <1>2 DEF LastLook, Asserts, At, IInv
  <2> QED BY <2>2, <2>3, <2>4 DEF IInv
<1>3. ASSUME NEW n \in Nat, Reads(n) PROVE IInv'
  <2>1. Positions /\ Positions'
    BY <1>3, PositionsAre, TakesType DEF IInv, Reads
  <2>2. TypeOK'
    BY <1>3, <2>1 DEF IInv, TypeOK, Reads, At, Positions
  <2>3. ~worker'.cycle => async_ring_buf_get_used_space' = 0
    <3>1. async_ring_buf_get_used_space \in Nat /\ LineMax \in Nat
      BY <2>1, SpacesType, SizeAssumption
    <3>2. worker'.cycle = (async_ring_buf_get_used_space > LineMax - 1)
      BY <1>3 DEF Reads, At
    <3>3. CASE async_ring_buf_get_used_space <= LineMax - 1
      <4>1. TakesRoom(async_ring_buf_get_used_space)
        BY <1>3, <3>3 DEF Reads
      <4>2. SameLap \/ NextLap
        BY <1>3 DEF Reads
      <4> QED BY <2>1, <3>3, <4>1, <4>2, ReadEmpties
    <3>4. CASE async_ring_buf_get_used_space > LineMax - 1
      BY <3>2, <3>4
    <3> QED BY <3>1, <3>3, <3>4
  <2>4. TextAnnounced'
    <3>1. worker'.pc = "print" /\ (~worker'.cycle => ~ (async_ring_buf_get_used_space' > 0))
      BY <1>3, <2>3 DEF Reads, At
    <3> QED BY <3>1 DEF TextAnnounced
  <2>5. LastLook'
    BY <1>0, <1>3, <2>3 DEF LastLook, Reads, At, IInv
  <2> QED BY <2>2, <2>4, <2>5 DEF IInv
<1> QED BY <1>1, <1>2, <1>3, ReadIs

Prints ==
  /\ worker.pc = "print"
  /\ pending' = SubSeq(pending, Len(worker.string) + 1, Len(pending))
  /\ At(AfterLoop(worker.cycle, worker.last), <<>>, worker.cycle, worker.last)
  /\ UNCHANGED <<ring, sem, crowded>>

\* Printing empties the string.
LEMMA PrintIs ==
  ASSUME IInv, PrintString
  PROVE  Prints
<1> DEFINE pc == AfterLoop(worker.cycle, worker.last)
<1>1. pc \in {"read", "done", "exit?"} /\ <<>> \in Seq(Byte)
  BY WorkerIs
<1>2. worker' = [worker EXCEPT !.pc = pc, !.string = <<>>] /\ UNCHANGED <<writer, exit, closer>>
  BY DEF PrintString
<1> HIDE DEF pc
<1>3. /\ worker' \in WorkerType /\ worker'.pc = pc /\ worker'.string = <<>>
      /\ worker'.cycle = worker.cycle /\ worker'.last = worker.last
  BY <1>1, <1>2, WorkerIs DEF WorkerType
<1>4. At(pc, <<>>, worker.cycle, worker.last)
  BY <1>2, <1>3, WorkerIs DEF At
<1> QED BY <1>4 DEF PrintString, Prints, pc

\* The loop's condition is looked at: it goes on, or nothing was left.
LEMMA PrintKeeps ==
  ASSUME IInv, PrintString
  PROVE  IInv'
<1>1. Prints
  BY PrintIs
<1>2. async_ring_buf_get_used_space' = async_ring_buf_get_used_space
  BY <1>1, RingStays DEF Prints
<1>3. pending' \in Seq(Byte)
  <2>1. pending \in Seq(Byte) /\ worker.string \in Seq(Byte)
    BY WorkerIs DEF IInv, TypeOK
  <2>2. Len(worker.string) + 1 \in Nat \ {0} /\ Len(pending) \in Nat
    BY <2>1
  <2>3. SubSeq(pending, Len(worker.string) + 1, Len(pending)) \in Seq(Byte)
    BY <2>1, <2>2
  <2> QED BY <1>1, <2>3 DEF Prints
<1>4. TypeOK'
  BY <1>1, <1>3 DEF IInv, TypeOK, Prints, At, ring
<1>5. TextAnnounced'
  <2>1. worker'.pc \notin {"read", "assert"} => ~worker.cycle
    BY <1>1, WorkerIs DEF Prints, At, AfterLoop
  <2> QED BY <1>1, <1>2, <2>1 DEF TextAnnounced, IInv, Prints, At
<1>6. LastLook'
  BY <1>1, <1>2, WorkerIs DEF LastLook, Prints, At, AfterLoop, IInv
<1> QED BY <1>4, <1>5, <1>6 DEF IInv

\* The worker enters its loop with any value of cycle.
LEMMA EnterIs ==
  ASSUME IInv, NEW last \in BOOLEAN, Enter(last), UNCHANGED <<writer, exit, closer>>
  PROVE  \E cycle \in BOOLEAN : At("read", <<>>, cycle, last)
<1>1. PICK g \in Garbage : worker' = [pc |-> "read", string |-> <<>>, cycle |-> g, last |-> last]
  BY DEF Enter
<1>2. g \in BOOLEAN
  BY GarbageAssumption
<1>3. /\ worker' \in WorkerType /\ worker'.pc = "read" /\ worker'.string = <<>>
      /\ worker'.cycle = g /\ worker'.last = last
  BY <1>1, <1>2, WorkerIs DEF WorkerType
<1> QED BY <1>2, <1>3, WorkerIs DEF At

\* After the semaphore the worker enters its loop,
LEMMA SemWaitIs ==
  ASSUME IInv, SemWait
  PROVE  \E cycle \in BOOLEAN : At("read", <<>>, cycle, FALSE)
BY EnterIs DEF SemWait

\* and is about to look at the ring.
LEMMA SemWaitKeeps ==
  ASSUME IInv, SemWait
  PROVE  IInv'
<1>1. PICK cycle \in BOOLEAN : At("read", <<>>, cycle, FALSE)
  BY SemWaitIs
<1>2. UNCHANGED <<ring, pending, crowded>> /\ sem' \in Nat
  BY DEF SemWait, IInv, TypeOK
<1>3. TypeOK'
  BY <1>1, <1>2 DEF IInv, TypeOK, At, ring
<1>4. TextAnnounced'
  BY <1>1 DEF TextAnnounced, At
<1>5. LastLook'
  BY <1>1 DEF LastLook, At, IInv
<1> QED BY <1>3, <1>4, <1>5 DEF IInv

\* The worker goes back to its semaphore, or looks once more.
LEMMA CheckExitIs ==
  ASSUME IInv, CheckExit
  PROVE  /\ worker.pc = "exit?" /\ ~worker.last
         /\ \/ ~exit /\ At("sem_wait", <<>>, worker.cycle, FALSE)
            \/ exit /\ \E cycle \in BOOLEAN : At("read", <<>>, cycle, TRUE)
<1>1. worker.pc = "exit?" /\ ~worker.last /\ worker.string = <<>>
  BY DEF CheckExit, IInv, LastLook
<1>2. UNCHANGED <<writer, exit, closer>> /\ exit \in BOOLEAN
  BY DEF CheckExit, IInv, TypeOK
<1>3. CASE exit
  <2>1. Enter(TRUE)
    BY <1>3 DEF CheckExit
  <2> QED BY <1>1, <1>2, <1>3, <2>1, EnterIs
<1>4. CASE ~exit
  <2>1. worker' = [worker EXCEPT !.pc = "sem_wait"]
    BY <1>4 DEF CheckExit
  <2>2. /\ worker' \in WorkerType /\ worker'.pc = "sem_wait" /\ worker'.string = worker.string
        /\ worker'.cycle = worker.cycle /\ worker'.last = worker.last
    BY <2>1, WorkerIs DEF WorkerType
  <2>3. worker.last = FALSE
    BY <1>1, WorkerIs
  <2> QED BY <1>1, <1>2, <1>4, <2>2, <2>3, WorkerIs DEF At
<1> QED BY <1>2, <1>3, <1>4

\* It looks at the ring once more when nobody traces any longer.
LEMMA CheckExitKeeps ==
  ASSUME IInv, CheckExit
  PROVE  IInv'
<1>1. UNCHANGED <<ring, sem, writer, exit, closer, pending, crowded>>
  BY DEF CheckExit
<1>2. async_ring_buf_get_used_space' = async_ring_buf_get_used_space
  BY <1>1, RingStays
<1>3. CASE ~exit /\ At("sem_wait", <<>>, worker.cycle, FALSE)
  <2>1. TypeOK'
    BY <1>1, <1>3 DEF IInv, TypeOK, At, ring
  <2>2. TextAnnounced'
    BY <1>1, <1>2, <1>3, CheckExitIs DEF TextAnnounced, IInv, At
  <2>3. LastLook'
    BY <1>1, <1>2, <1>3 DEF LastLook, At, IInv
  <2> QED BY <2>1, <2>2, <2>3 DEF IInv
<1>4. ASSUME exit, NEW cycle \in BOOLEAN, At("read", <<>>, cycle, TRUE) PROVE IInv'
  <2>1. TypeOK'
    BY <1>1, <1>4 DEF IInv, TypeOK, At, ring
  <2>2. TextAnnounced'
    BY <1>4 DEF TextAnnounced, At
  <2>3. LastLook'
    BY <1>1, <1>4 DEF LastLook, At, IInv
  <2> QED BY <2>1, <2>2, <2>3 DEF IInv
<1> QED BY <1>3, <1>4, CheckExitIs

-----------------------------------------------------------------------------
(* Shutting down, and the invariant *)

\* The one that shuts down begins when no thread traces.
LEMMA CloseKeeps ==
  ASSUME IInv, SetExit \/ PostExit \/ async_ring_buf_free
  PROVE  IInv'
<1>1. UNCHANGED <<ring, worker, writer, pending, crowded>>
  BY DEF SetExit, PostExit, async_ring_buf_free
<1>2. async_ring_buf_get_used_space' = async_ring_buf_get_used_space
  BY <1>1, RingStays
<1>3. sem \in Nat /\ sem' \in Nat /\ sem' >= sem
  <2>1. sem \in Nat
    BY DEF IInv, TypeOK
  <2>2. sem' = sem \/ sem' = sem + 1
    BY DEF SetExit, PostExit, async_ring_buf_free
  <2> QED BY <2>1, <2>2
<1>4. /\ exit' \in BOOLEAN /\ closer' \in {"none", "post", "join", "freed"}
      /\ exit' <=> closer' # "none"
      /\ exit => exit'
      /\ exit' => \A t \in Writers : writer[t].pc = "idle"
  BY DEF SetExit, PostExit, async_ring_buf_free, IInv, TypeOK, LastLook
<1>5. TypeOK'
  BY <1>1, <1>3, <1>4 DEF IInv, TypeOK, ring
<1>6. TextAnnounced'
  <2>1. sem > 0 => sem' > 0
    BY <1>3
  <2> QED BY <1>1, <1>2, <2>1 DEF TextAnnounced, IInv
<1>7. LastLook'
  BY <1>1, <1>2, <1>4 DEF LastLook, IInv
<1> QED BY <1>5, <1>6, <1>7 DEF IInv

\* The invariant holds at the start.
LEMMA InitKeeps == Init => IInv
<1> SUFFICES ASSUME Init PROVE IInv
  OBVIOUS
<1>0. Size \in Nat /\ Word \in Nat /\ 1 < Size /\ 2 * Size < Word /\ LineMax \in Nat /\ 1 < LineMax
  BY SizeAssumption
<1>1. async_ring_buf_get_used_space = 0
  <2>1. 0 % Word = 0 /\ 0 - 0 = 0
    BY <1>0, Remainders
  <2> QED BY <2>1 DEF Init, async_ring_buf_get_used_space, SameLap
<1>2. TypeOK
  <2>0. <<>> \in Seq(Byte) /\ Len(<<>>) = 0
    OBVIOUS
  <2>1. Len(<<>>) < LineMax
    BY <1>0, <2>0
  <2>2. worker \in WorkerType /\ Len(worker.string) < LineMax
    BY <2>0, <2>1 DEF Init, WorkerType
  <2>3. writer \in [Writers -> WriterType]
    BY DEF Init, WriterType
  <2>4. start \in [0..(Size - 1) -> Byte]
    BY DEF Init, Byte
  <2>5. 0 \in 0..Size /\ 0 \in 0..(Word - 1) /\ 0 \in Nat
    BY <1>0
  <2>6. exit \in BOOLEAN /\ closer \in {"none", "post", "join", "freed"} /\ pending \in Seq(Byte)
        /\ crowded \in BOOLEAN
    BY <2>0 DEF Init
  <2>7. /\ read_pos \in 0..Size /\ write_pos \in 0..Size
        /\ read_reverse \in 0..(Word - 1) /\ write_reverse \in 0..(Word - 1)
        /\ sem \in Nat
    BY <2>5 DEF Init
  <2> QED BY <2>2, <2>3, <2>4, <2>6, <2>7 DEF TypeOK
<1>3. TextAnnounced
  BY <1>1 DEF TextAnnounced
<1>4. LastLook
  BY DEF LastLook, Init
<1> QED BY <1>2, <1>3, <1>4 DEF IInv

\* Every step keeps the invariant.
LEMMA StepKeeps == IInv /\ [Next]_vars => IInv'
<1> SUFFICES ASSUME IInv, [Next]_vars PROVE IInv'
  OBVIOUS
<1>1. ASSUME NEW t \in Writers, async_ring_buf_write(t) \/ WriteStep(t) PROVE IInv'
  <2>1. CASE Copy(t)
    BY <2>1, CopyKeeps
  <2>2. CASE \/ async_ring_buf_write(t) \/ SemValueZero(t) \/ Recheck(t)
             \/ SemGetValue(t) \/ SemPost(t)
    BY <2>2, WriterMoves, MovesKeeps
  <2> QED BY <1>1, <2>1, <2>2 DEF WriteStep
<1>2. CASE trace_thread_worker
  BY <1>2, SemWaitKeeps, ReadKeeps, PrintKeeps, CheckExitKeeps DEF trace_thread_worker
<1>3. CASE SetExit \/ PostExit \/ async_ring_buf_free
  BY <1>3, CloseKeeps
<1>4. CASE UNCHANGED vars
  <2>1. UNCHANGED <<ring, sem, worker, writer, exit, closer, pending, crowded>>
    BY <1>4 DEF vars
  <2>2. async_ring_buf_get_used_space' = async_ring_buf_get_used_space
    BY <2>1, RingStays
  <2>3. TypeOK'
    BY <2>1 DEF IInv, TypeOK, ring
  <2>4. TextAnnounced'
    BY <2>1, <2>2 DEF IInv, TextAnnounced
  <2>5. LastLook'
    BY <2>1, <2>2 DEF IInv, LastLook
  <2> QED BY <2>3, <2>4, <2>5 DEF IInv
<1> QED BY <1>1, <1>2, <1>3, <1>4 DEF Next

\* The invariant holds for any number of threads that trace, and whatever their lines.
THEOREM InvariantHolds == Spec => []IInv
  BY InitKeeps, StepKeeps, PTL DEF Spec

\* The positions stay in the ring and the counters of its laps within a word, and no
\* more is put into the worker's string than it holds, also when two threads that
\* trace overrun the ring.
THEOREM TypeCorrect == Spec => []TypeOK
<1>1. IInv => TypeOK
  BY DEF IInv
<1> QED BY <1>1, InvariantHolds, PTL

\* For any number of threads that trace, the worker does not sleep on text:
\* sem_getvalue and sem_post (272-274), two steps without a lock, lose no wake-up.
THEOREM NoSleep == Spec => []NoSleepOnText
<1>1. IInv => NoSleepOnText
  BY DEF IInv, TextAnnounced, NoSleepOnText
<1> QED BY <1>1, InvariantHolds, PTL

-----------------------------------------------------------------------------
(* Text in order, until a copy crowds the ring *)

\* The contents of the ring are a text, and none when no space is used.
LEMMA ContentsIs ==
  IInv => /\ Contents \in Seq(Byte)
          /\ async_ring_buf_get_used_space = 0 => Contents = <<>>
<1> SUFFICES ASSUME IInv
             PROVE  /\ Contents \in Seq(Byte)
                    /\ async_ring_buf_get_used_space = 0 => Contents = <<>>
  OBVIOUS
<1> DEFINE used == async_ring_buf_get_used_space
           text == TextAt(start, read_pos, used)
<1>1. Positions /\ used \in Nat /\ start \in [0..(Size - 1) -> Byte]
  BY PositionsAre, SpacesType DEF IInv, TypeOK
<1>2. read_pos \in Nat
  BY <1>1, SizeAssumption DEF Positions
<1>3. Contents = text
  BY DEF Contents, Bytes, TextAt
<1>4. text \in Seq(Byte) /\ Len(text) = used
  BY <1>1, <1>2, TextIs
<1> HIDE DEF text, used
<1>5. used = 0 => text = <<>>
  BY <1>4, NoText
<1> QED BY <1>3, <1>4, <1>5 DEF used

\* The same after a step.
LEMMA ContentsNext == IInv' => Contents' \in Seq(Byte)
<1>1. IInv => Contents \in Seq(Byte)
  BY ContentsIs
<1>2. (IInv => Contents \in Seq(Byte))'
  BY <1>1, PTL
<1> QED BY <1>2

\* A thread that goes to copy its line has the room for it.
LEMMA MovesInOrder ==
  ASSUME IInv, Fifo, NEW t \in Writers, NEW q \in WriterType, Moves(t, q),
         q.pc = "copy" => Len(q.line) <= async_ring_buf_get_free_space
  PROVE  Fifo'
<1>1. UNCHANGED <<ring, worker, pending>> /\ writer' = [writer EXCEPT ![t] = q]
  BY DEF Moves
<1>2. /\ async_ring_buf_get_free_space' = async_ring_buf_get_free_space
      /\ Contents' = Contents /\ OneLapAhead'
  BY <1>1, RingStays DEF Fifo
<1>3. RoomStays'
  <2> SUFFICES ASSUME NEW s \in Writers, writer'[s].pc = "copy"
               PROVE  Len(writer'[s].line) <= async_ring_buf_get_free_space
    BY <1>2 DEF RoomStays
  <2>1. writer'[s] = IF s = t THEN q ELSE writer[s]
    BY <1>1 DEF IInv, TypeOK
  <2> QED BY <2>1 DEF Fifo, RoomStays
<1>4. ReadAssert' /\ FirstInFirstOut'
  BY <1>1, <1>2 DEF Fifo, ReadAssert, FirstInFirstOut
<1> QED BY <1>2, <1>3, <1>4 DEF Fifo

\* The copy: the line goes behind all other text, and no other writer lost its room.
LEMMA CopyInOrder ==
  ASSUME IInv, Fifo, NEW t \in Writers, Copy(t), ~Crowds(t)
  PROVE  Fifo'
<1> DEFINE line == writer[t].line
           n == Len(line)
<1>1. /\ FillsRoom(n) /\ Copied(line) /\ Positions /\ OneLapAhead
      /\ line \in Seq(Byte) /\ n \in Nat /\ start \in [0..(Size - 1) -> Byte]
  BY CopyIs DEF CopyOf, Fifo, IInv, TypeOK
<1>2. n < Size
  <2>1. line \in Lines \cup {<<>>} /\ n # Size
    BY WriterIs DEF Crowds
  <2>2. n \in Lens \cup {0}
    BY <2>1, LineIs
  <2> HIDE DEF n
  <2> QED BY <2>1, <2>2, SizeAssumption, LensAssumption
<1>3. n <= async_ring_buf_get_free_space
  BY DEF Copy, Fifo, RoomStays
<1>4. UNCHANGED worker /\ pending' = pending \o line
  BY DEF Copy
<1> HIDE DEF line
<1>5. OneLapAhead'
  BY <1>1, <1>2, <1>3, CopyKeepsLap
<1>6. Contents' = Contents \o line
  BY <1>1, <1>2, <1>3, CopyAppends
<1>7. RoomStays'
  <2> SUFFICES ASSUME NEW s \in Writers, writer'[s].pc = "copy"
               PROVE  Len(writer'[s].line) <= async_ring_buf_get_free_space'
    BY DEF RoomStays
  <2>1. s # t /\ writer'[s] = writer[s]
    BY CopyIs
  <2>2. n + Len(writer[s].line) <= async_ring_buf_get_free_space
    <3>1. Len(writer[s].line) \in Nat /\ async_ring_buf_get_free_space \in Int
      BY <1>1, WriterIs, LineIs, SpacesType
    <3>2. ~(n + Len(writer[s].line) > async_ring_buf_get_free_space)
      BY <2>1 DEF Crowds, line
    <3> HIDE DEF n
    <3> QED BY <1>1, <3>1, <3>2
  <2>3. async_ring_buf_get_free_space' = async_ring_buf_get_free_space - n
    BY <1>1, <1>2, <1>3, CopyKeepsLap
  <2>4. Len(writer[s].line) \in Nat /\ async_ring_buf_get_free_space \in Int
    BY <1>1, WriterIs, LineIs, SpacesType
  <2> HIDE DEF n
  <2> QED BY <1>1, <2>1, <2>2, <2>3, <2>4
<1>8. FirstInFirstOut'
  <2>1. pending = worker.string \o Contents
    BY DEF Fifo, FirstInFirstOut
  <2>2. worker.string \in Seq(Byte) /\ Contents \in Seq(Byte)
    BY WorkerIs, ContentsIs
  <2>3. (worker.string \o Contents) \o line = worker.string \o (Contents \o line)
    <3> DEFINE string == worker.string
               text == Contents
    <3>1. string \in Seq(Byte) /\ text \in Seq(Byte) /\ line \in Seq(Byte)
      BY <1>1, <2>2
    <3> HIDE DEF string, text
    <3>2. (string \o text) \o line = string \o (text \o line)
      BY <3>1, ConcatAssociative
    <3> QED BY <3>2 DEF string, text
  <2> QED BY <1>4, <1>6, <2>1, <2>3 DEF FirstInFirstOut
<1>9. ReadAssert'
  BY <1>4 DEF Fifo, ReadAssert
<1> QED BY <1>5, <1>7, <1>8, <1>9 DEF Fifo

\* The read: the head of the contents becomes the worker's string.
LEMMA ReadInOrder ==
  ASSUME IInv, Fifo, async_ring_buf_read
  PROVE  Fifo'
<1>0. /\ worker.string = <<>> /\ pending = Contents
      /\ Contents \in Seq(Byte) /\ Contents' \in Seq(Byte)
  <2>1. worker.string = <<>> /\ Contents \in Seq(Byte) /\ Contents' \in Seq(Byte)
    BY ReadIs, ReadKeeps, ContentsIs, ContentsNext
  <2>2. pending = <<>> \o Contents
    BY <2>1 DEF Fifo, FirstInFirstOut
  <2> QED BY <2>1, <2>2, NoText
<1>1. CASE ReadsNothing
  <2>1. /\ async_ring_buf_get_free_space' = async_ring_buf_get_free_space
        /\ Contents' = Contents /\ OneLapAhead'
    BY <1>1, RingStays DEF ReadsNothing, Fifo
  <2>2. worker'.string = <<>> /\ worker'.pc # "assert" /\ UNCHANGED <<writer, pending>>
    BY <1>1, WorkerIs DEF ReadsNothing, At
  <2>3. RoomStays'
    BY <2>1, <2>2 DEF Fifo, RoomStays
  <2>4. FirstInFirstOut'
    BY <1>0, <2>1, <2>2 DEF Fifo, FirstInFirstOut
  <2>5. ReadAssert'
    BY <2>2 DEF ReadAssert
  <2> QED BY <2>1, <2>3, <2>4, <2>5 DEF Fifo
<1>2. ~Asserts
  BY DEF Asserts, Fifo, OneLapAhead
<1>3. ASSUME NEW n \in Nat, Reads(n) PROVE Fifo'
  <2>1. /\ TakesRoom(n) /\ start' = start /\ n <= async_ring_buf_get_used_space
        /\ worker'.string = Bytes(read_pos, n) /\ worker'.pc = "print"
        /\ UNCHANGED <<writer, pending>>
    BY <1>3 DEF Reads, At
  <2>2. n < Size
    BY <1>3, SizeAssumption DEF Reads
  <2>3. Positions /\ OneLapAhead /\ start \in [0..(Size - 1) -> Byte]
    BY PositionsAre DEF IInv, TypeOK, Fifo
  <2>4. OneLapAhead' /\ async_ring_buf_get_free_space' = async_ring_buf_get_free_space + n
    BY <2>1, <2>2, <2>3, ReadKeepsLap
  <2>5. RoomStays'
    <3> SUFFICES ASSUME NEW s \in Writers, writer[s].pc = "copy"
                 PROVE  Len(writer[s].line) <= async_ring_buf_get_free_space + n
      BY <2>1, <2>4 DEF RoomStays
    <3> DEFINE len == Len(writer[s].line)
               free == async_ring_buf_get_free_space
    <3>1. len \in Nat
      BY WriterIs, LineIs
    <3>2. free \in Nat
      BY <2>3, SpacesType
    <3>3. len <= free
      BY DEF Fifo, RoomStays
    <3> HIDE DEF len, free
    <3>4. len <= free + n
      BY <3>1, <3>2, <3>3
    <3> QED BY <3>4 DEF len, free
  <2>6. Contents = Bytes(read_pos, n) \o Contents'
    BY <2>1, <2>2, <2>3, ReadSplits
  <2>7. FirstInFirstOut'
    BY <1>0, <2>1, <2>6 DEF FirstInFirstOut
  <2>8. ReadAssert'
    BY <2>1 DEF ReadAssert
  <2> QED BY <2>4, <2>5, <2>7, <2>8 DEF Fifo
<1> QED BY <1>1, <1>2, <1>3, ReadIs

\* The print: the string was the head of the text.
LEMMA PrintInOrder ==
  ASSUME IInv, Fifo, PrintString
  PROVE  Fifo'
<1>1. Prints /\ worker.string \in Seq(Byte) /\ Contents \in Seq(Byte)
  BY PrintIs, WorkerIs, ContentsIs
<1>2. /\ async_ring_buf_get_free_space' = async_ring_buf_get_free_space
      /\ Contents' = Contents /\ OneLapAhead'
  BY <1>1, RingStays DEF Prints, Fifo
<1>3. worker'.string = <<>> /\ worker'.pc # "assert" /\ UNCHANGED writer
  BY <1>1, WorkerIs DEF Prints, At
<1>4. RoomStays'
  BY <1>2, <1>3 DEF Fifo, RoomStays
<1>5. FirstInFirstOut'
  <2>1. pending' = Contents
    BY <1>1, HeadPrinted DEF Prints, Fifo, FirstInFirstOut
  <2>2. <<>> \o Contents = Contents
    BY <1>1, NoText
  <2> QED BY <1>2, <1>3, <2>1, <2>2 DEF FirstInFirstOut
<1>6. ReadAssert'
  BY <1>3 DEF ReadAssert
<1> QED BY <1>2, <1>4, <1>5, <1>6 DEF Fifo

\* What leaves ring, lines and the worker's string alone.
LEMMA RestInOrder ==
  ASSUME IInv, Fifo, UNCHANGED <<ring, writer, pending>>,
         worker'.string = worker.string, worker'.pc # "assert"
  PROVE  Fifo'
<1>1. /\ async_ring_buf_get_free_space' = async_ring_buf_get_free_space
      /\ Contents' = Contents /\ OneLapAhead'
  BY RingStays DEF Fifo
<1>2. RoomStays'
  BY <1>1 DEF Fifo, RoomStays
<1>3. FirstInFirstOut'
  BY <1>1 DEF Fifo, FirstInFirstOut
<1> QED BY <1>1, <1>2, <1>3 DEF Fifo, ReadAssert

\* There is no text at the start.
LEMMA InitInOrder == Init => Fifo
<1> SUFFICES ASSUME Init PROVE Fifo
  OBVIOUS
<1>1. IInv
  BY InitKeeps
<1>0. read_pos = 0 /\ write_pos = 0 /\ read_reverse = 0 /\ write_reverse = 0
  BY DEF Init
<1>2. SameLap /\ read_pos <= write_pos
  BY <1>0 DEF SameLap
<1>3. async_ring_buf_get_used_space = 0
  <2>1. Spaces
    BY <1>1, SpacesAre, PositionsAre DEF IInv
  <2> QED BY <1>0, <1>2, <2>1 DEF Spaces
<1>4. Contents = <<>>
  BY <1>1, <1>3, ContentsIs
<1>5. <<>> \o <<>> = <<>>
  OBVIOUS
<1>6. FirstInFirstOut
  BY <1>4, <1>5 DEF Init, FirstInFirstOut
<1>7. RoomStays /\ ReadAssert
  BY DEF Init, RoomStays, ReadAssert
<1> QED BY <1>2, <1>6, <1>7 DEF Fifo, OneLapAhead

\* Every step keeps the order.
LEMMA StepInOrder ==
  ASSUME IInv, Fifo, [Next]_vars, ~crowded'
  PROVE  Fifo'
<1>1. ASSUME NEW t \in Writers, async_ring_buf_write(t) \/ WriteStep(t) PROVE Fifo'
  <2>1. CASE Copy(t)
    BY <2>1, CopyInOrder DEF Copy
  <2>2. CASE \/ async_ring_buf_write(t) \/ SemValueZero(t) \/ Recheck(t)
             \/ SemGetValue(t) \/ SemPost(t)
    BY <2>2, WriterMoves, MovesInOrder
  <2> QED BY <1>1, <2>1, <2>2 DEF WriteStep
<1>2. CASE SemWait
  <2>1. worker'.string = <<>> /\ worker'.pc # "assert"
    BY <1>2, SemWaitIs DEF At
  <2>2. worker.string = <<>>
    BY <1>2 DEF SemWait, IInv, LastLook
  <2> QED BY <1>2, <2>1, <2>2, RestInOrder DEF SemWait
<1>3. CASE async_ring_buf_read
  BY <1>3, ReadInOrder
<1>4. CASE PrintString
  BY <1>4, PrintInOrder
<1>5. CASE CheckExit
  <2>1. worker'.string = <<>> /\ worker'.pc # "assert"
    BY <1>5, CheckExitIs DEF At
  <2>2. worker.string = <<>>
    BY <1>5 DEF CheckExit, IInv, LastLook
  <2> QED BY <1>5, <2>1, <2>2, RestInOrder DEF CheckExit
<1>6. CASE SetExit \/ PostExit \/ async_ring_buf_free
  <2>1. UNCHANGED <<ring, writer, pending, worker>>
    BY <1>6 DEF SetExit, PostExit, async_ring_buf_free
  <2>2. worker.pc # "assert"
    BY DEF Fifo, ReadAssert
  <2> QED BY <2>1, <2>2, RestInOrder
<1>7. CASE UNCHANGED vars
  <2>1. UNCHANGED <<ring, writer, pending, worker>>
    BY <1>7 DEF vars
  <2>2. worker.pc # "assert"
    BY DEF Fifo, ReadAssert
  <2> QED BY <2>1, <2>2, RestInOrder
<1> QED BY <1>1, <1>2, <1>3, <1>4, <1>5, <1>6, <1>7 DEF Next, trace_thread_worker

\* A ring that was crowded stays so.
LEMMA CrowdedStays == [Next]_vars /\ crowded => crowded'
<1> SUFFICES ASSUME [Next]_vars, crowded PROVE crowded'
  OBVIOUS
<1>1. ASSUME NEW t \in Writers, async_ring_buf_write(t) \/ WriteStep(t) PROVE crowded'
  BY <1>1 DEF async_ring_buf_write, WriteStep, SemValueZero, Recheck, Copy, SemGetValue, SemPost
<1>2. CASE trace_thread_worker
  BY <1>2 DEF trace_thread_worker, SemWait, async_ring_buf_read, PrintString, CheckExit
<1>3. CASE SetExit \/ PostExit \/ async_ring_buf_free
  BY <1>3 DEF SetExit, PostExit, async_ring_buf_free
<1>4. CASE UNCHANGED vars
  BY <1>4 DEF vars
<1> QED BY <1>1, <1>2, <1>3, <1>4 DEF Next

\* The invariant with the order holds always.
LEMMA OrderHolds == Spec => []OrderIInv
<1>1. Init => OrderIInv
  BY InitKeeps, InitInOrder DEF OrderIInv
<1>2. OrderIInv /\ [Next]_vars => OrderIInv'
  <2> SUFFICES ASSUME OrderIInv, [Next]_vars PROVE IInv' /\ (~crowded' => Fifo')
    BY DEF OrderIInv
  <2>1. IInv'
    BY StepKeeps DEF OrderIInv
  <2>2. ASSUME ~crowded' PROVE Fifo'
    BY <2>2, CrowdedStays, StepInOrder DEF OrderIInv
  <2> QED BY <2>1, <2>2
<1> QED BY <1>1, <1>2, PTL DEF Spec

\* For any number of threads that trace: as long as no copy fills the ring or takes room
\* that another thread has seen and counts on (trace.c:234 unlocks between the look and
\* the copy), the text comes out in the order it went in, nothing lost and nothing twice,
\* however often positions and counters wrap (228-270 against 48-90).
THEOREM InOrder == Spec => [](~crowded => FirstInFirstOut)
<1>1. OrderIInv => (~crowded => FirstInFirstOut)
  BY DEF OrderIInv, Fifo
<1> QED BY <1>1, OrderHolds, PTL

\* as long, the assertion of async_ring_buf_read (79) holds: nothing but such a copy puts
\* the writers two laps ahead.  The run trace_overrun shows that one does.
THEOREM NoOverrun == Spec => [](~crowded => ReadAssert)
<1>1. OrderIInv => (~crowded => ReadAssert)
  BY DEF OrderIInv, Fifo
<1> QED BY <1>1, OrderHolds, PTL

\* and when the worker ends and there was no such copy, all that was written has been
\* printed (150); the run trace_full_line shows that a line that fills the ring is not.
THEOREM AllPrinted == Spec => [](~crowded => AllPrintedAtExit)
<1>1. OrderIInv => (~crowded => AllPrintedAtExit)
  <2> SUFFICES ASSUME OrderIInv, ~crowded, worker.pc = "done" PROVE pending = <<>>
    BY DEF AllPrintedAtExit
  <2>1. worker.string = <<>> /\ async_ring_buf_get_used_space = 0 /\ pending = worker.string \o Contents
    BY DEF OrderIInv, IInv, LastLook, Fifo, FirstInFirstOut
  <2>2. Contents = <<>>
    BY <2>1, ContentsIs DEF OrderIInv
  <2>3. <<>> \o <<>> = <<>>
    OBVIOUS
  <2> QED BY <2>1, <2>2, <2>3
<1> QED BY <1>1, OrderHolds, PTL
=============================================================================
