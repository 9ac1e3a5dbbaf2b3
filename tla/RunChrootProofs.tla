--------------------------- MODULE RunChrootProofs ---------------------------
(***************************************************************************)
(* The buffer of _alpm_chroot_read_from_child, for every size of buffers   *)
(* and sockets and every output: it never fills up, so that a read of 0    *)
(* bytes always is the end of the output.                                  *)
(***************************************************************************)
EXTENDS RunChroot, WellFoundedInduction, TLAPS

Bytes == {"x", "nl"}

RoomInv ==
    /\ writes \in Seq(Bytes) /\ output \in Seq(Bytes) /\ ibuf \in Seq(Bytes)
    /\ Len(ibuf) <= LineMax - 3

\* A set of positions that is not empty has a last one.
LEMMA LastPosition ==
  ASSUME NEW n \in Nat, NEW S \in SUBSET (1..n), S # {}
  PROVE  \E i \in S : \A j \in S : j <= i
<1> DEFINE T == {k \in Nat : n - k \in S}
<1>1. T # {} /\ T \subseteq Nat
  <2>1. PICK i \in S : TRUE
    OBVIOUS
  <2>2. n - i \in Nat /\ n - (n - i) = i
    BY <2>1
  <2> QED
    BY <2>1, <2>2
<1>2. PICK k \in T : \A m \in T : <<m, k>> \notin OpToRel(<, Nat)
  <2> HIDE DEF T
  <2> QED
    BY <1>1, WFMin, NatLessThanWellFounded
<1>3. \A m \in T : ~(m < k)
  BY <1>2 DEF OpToRel
<1>4. \A j \in S : n - j \in T
  <2> SUFFICES ASSUME NEW j \in S PROVE n - j \in T
    OBVIOUS
  <2>1. n - j \in Nat /\ n - (n - j) = j
    OBVIOUS
  <2> QED
    BY <2>1
<1>5. n - k \in S /\ k \in Nat
  BY <1>2
<1>6. \A j \in S : j <= n - k
  BY <1>3, <1>4, <1>5
<1> QED
  BY <1>5, <1>6

\* The last newline of a buffer that has one.
LEMMA LastNewlineInside ==
  ASSUME NEW b \in Seq(Bytes), Newlines(b) # {}
  PROVE  LastNewline(b) \in 1..Len(b)
<1>1. Newlines(b) \in SUBSET (1..Len(b)) /\ Len(b) \in Nat
  BY DEF Newlines
<1>2. \E i \in Newlines(b) : \A j \in Newlines(b) : j <= i
  BY <1>1, LastPosition
<1>3. LastNewline(b) \in Newlines(b)
  BY <1>2 DEF LastNewline
<1> QED
  BY <1>1, <1>3

LEMMA RoomInitially == ChrootInit => RoomInv
  BY ChrootAssumption DEF ChrootInit, ChrootState, RoomInv, Bytes

\* What is kept of a read is shorter than the buffer: less than was asked for, or
\* nothing, or what follows a newline.
LEMMA ReadKeepsRoom ==
  ASSUME RoomInv, ReadFromChild, writes' = writes
  PROVE  RoomInv'
<1> USE ChrootAssumption
<1>1. CASE output = <<>>
  BY <1>1 DEF ReadFromChild, RoomInv
<1>2. CASE output # <<>>
  <2> DEFINE n == IF Len(output) < Space THEN Len(output) ELSE Space
             got == SubSeq(output, 1, n)
             buf == ibuf \o got
  <2>1. /\ Len(ibuf) \in Nat /\ Len(output) \in Nat /\ Space \in Nat /\ Space >= 1
        /\ n \in 0..Len(output) /\ n <= Space /\ Len(ibuf) + Space = LineMax - 2
    BY DEF RoomInv, Space
  <2>2. /\ output' = SubSeq(output, n + 1, Len(output))
        /\ \/ Newlines(got) # {} /\ ibuf' = SubSeq(buf, LastNewline(buf) + 1, Len(buf))
           \/ ibuf' = <<>>
           \/ n # Space /\ ibuf' = buf
    BY <1>2 DEF ReadFromChild
  <2> HIDE DEF n
  <2>3. got \in Seq(Bytes) /\ Len(got) = n /\ output' \in Seq(Bytes)
    BY <2>1, <2>2 DEF RoomInv
  <2> HIDE DEF got
  <2>4. buf \in Seq(Bytes) /\ Len(buf) = Len(ibuf) + n
    <3>1. ibuf \in Seq(Bytes) /\ got \in Seq(Bytes)
      BY <2>3 DEF RoomInv
    <3> QED
      BY <2>3, <3>1
  <2>5. CASE Newlines(got) # {} /\ ibuf' = SubSeq(buf, LastNewline(buf) + 1, Len(buf))
    <3>1. PICK i \in 1..n : got[i] = "nl"
      BY <2>3, <2>5 DEF Newlines
    <3>2. buf[Len(ibuf) + i] = "nl" /\ Len(ibuf) + i \in 1..Len(buf)
      BY <2>1, <2>3, <2>4, <3>1 DEF RoomInv
    <3>3. LastNewline(buf) \in 1..Len(buf)
      <4>1. Newlines(buf) # {}
        BY <2>4, <3>2 DEF Newlines
      <4> QED
        BY <2>4, <4>1, LastNewlineInside
    <3> HIDE DEF buf
    <3>4. ibuf' \in Seq(Bytes) /\ Len(ibuf') = Len(buf) - LastNewline(buf)
      BY <2>4, <2>5, <3>3
    <3> QED
      BY <2>1, <2>3, <2>4, <3>3, <3>4 DEF RoomInv
  <2>6. CASE ibuf' = <<>>
    BY <2>3, <2>6 DEF RoomInv
  <2>7. CASE n # Space /\ ibuf' = buf
    BY <2>1, <2>3, <2>4, <2>7 DEF RoomInv
  <2> QED
    BY <2>2, <2>5, <2>6, <2>7
<1> QED
  BY <1>1, <1>2

LEMMA RoomStep == RoomInv /\ [ChrootNext]_cvars => RoomInv'
<1> SUFFICES ASSUME RoomInv, [ChrootNext]_cvars PROVE RoomInv'
  OBVIOUS
<1>1. CASE PollIn
  BY <1>1, ReadKeepsRoom DEF PollIn
<1>2. CASE ChildWrites
  BY <1>2 DEF ChildWrites, RoomInv
<1>3. CASE Start \/ ChildReads \/ ChildExits \/ PollOut \/ PollEnds \/ Wait \/ UNCHANGED cvars
  BY <1>3 DEF Start, ChildReads, ChildExits, PollOut, PollEnds, Wait, cvars, RoomInv
<1> QED
  BY <1>1, <1>2, <1>3 DEF ChrootNext

\* There is always room for another byte, however the output of a scriptlet or a hook
\* comes in and whatever it consists of (_alpm_chroot_read_from_child asks read() for
\* sizeof(ibuf) - len - 2 bytes and takes 0 for the end).
THEOREM AlwaysRoom == ChrootSpec => []BufferHasRoom
<1>1. RoomInv => BufferHasRoom
  BY ChrootAssumption DEF RoomInv, BufferHasRoom, Space
<1> QED
  BY <1>1, RoomInitially, RoomStep, PTL DEF ChrootSpec
=============================================================================
