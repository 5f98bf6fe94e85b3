-------------------------- MODULE RtpDecoderProofs -------------------------
(***************************************************************************)
(* Proofs about RtpDecoder: on an unreliable link (RtpStream), with the    *)
(* sequence numbers of 16 bits, for any H264 stream, any order in which    *)
(* its packets arrive, and any size of the buffer that holds a unit; and   *)
(* in the program (VideoReceiver), where the decode thread destroys it and *)
(* makes it anew, for any queue, any number of configurations and any      *)
(* range of the sequence numbers.                                          *)
(***************************************************************************)
EXTENDS RtpStream, VideoReceiver, SequenceTheorems, TLAPS

\* The setting of the proofs: what a sender makes of H264 units, complete units
\* only are wanted, UINT16_MAX + 1 sequence numbers.
Setting == IsStream /\ ~IsH265 /\ ~FeedIncomplete /\ SeqNumbers = 65536

\* Packets that are near each other and have the same, or the next, number are the
\* same packet, or the next.
LEMMA SequenceNumbers ==
    ASSUME NEW a \in Nat, NEW n \in Nat, 2 * (n - a) < 65536, 2 * (a - n) < 65536
    PROVE  /\ n % 65536 = a % 65536 => n = a
           /\ n % 65536 = ((a % 65536) + 1) % 65536 => n = a + 1
  OBVIOUS

-----------------------------------------------------------------------------
(* The invariant                                                           *)

IsFragment(n) == Stream[n].kind \in {"start", "middle", "end"}

Pieces == {<<u, i>> : u \in {Stream[n].piece[1] : n \in Nat}, i \in Nat} \cup {StartCode}

\* A start code and the first i pieces of u.
FirstPieces(u, i) == [k \in 1..(i + 1) |-> IF k = 1 THEN StartCode ELSE <<u, k - 1>>]

\* The buffer ends with the packet that came last, and nothing is missing in it.
Grows ==
    /\ at # NoSeq /\ Stream[at].kind \in {"start", "middle"}
    /\ m_curr_nalu = FirstPieces(Stream[at].piece[1], Stream[at].piece[2])

\* What is in the buffer is not handed on, or will be a unit.
BufferInv ==
    \/ m_curr_nalu = <<>>
    \/ m_curr_nalu[1] # StartCode
    \/ flagPacketHasGoneMissing
    \/ Grows

IInv ==
    /\ at \in Nat \cup {NoSeq}
    /\ lastSequenceNumber = IF at = NoSeq THEN NoSeq ELSE at % SeqNumbers
    /\ m_curr_nalu \in Seq(Pieces)
    /\ at = NoSeq => m_curr_nalu = <<>>
    /\ BufferInv
    /\ UnitsAreWhole

-----------------------------------------------------------------------------
(* The buffer                                                              *)

\* The packets of a stream are numbered.
LEMMA IndicesAreNumbers ==
    ASSUME IsStream PROVE Indices \subseteq Nat
  BY DEF IsStream

\* What IsStream says of a piece of a fragmented unit.
LEMMA FragmentFacts ==
    ASSUME Setting, NEW n \in Nat, IsFragment(n)
    PROVE  \E u, i :
             /\ Stream[n].piece = <<u, i>> /\ u = Stream[n].piece[1] /\ i = Stream[n].piece[2]
             /\ <<u, i>> \in Pieces /\ <<u, i>> # StartCode
             /\ u.size \in Nat /\ i \in 1..u.size /\ 2 <= u.size /\ u.size < MaxLen
             /\ Stream[n].kind = IF i = 1 THEN "start" ELSE IF i = u.size THEN "end" ELSE "middle"
             /\ i < u.size => IsPiece(n + 1, u, i + 1)
  <1>1. PICK u \in {Stream[n].piece[1]}, i \in {Stream[n].piece[2]} :
              /\ u.size \in Nat /\ i \in 1..u.size /\ 2 <= u.size /\ u.size < MaxLen
              /\ IsPiece(n, u, i)
              /\ i < u.size => IsPiece(n + 1, u, i + 1)
    BY DEF Setting, IsStream, IsFragment
  <1>2. <<u, i>> \in Pieces
    BY <1>1 DEF Pieces
  <1>3. <<u, i>> # StartCode
    BY <1>1 DEF StartCode
  <1> QED
    BY <1>1, <1>2, <1>3 DEF IsPiece

\* The next piece makes the buffer longer by one; the last one completes the unit.
LEMMA GrowFacts ==
    ASSUME NEW u, NEW i \in Nat
    PROVE  /\ Len(FirstPieces(u, i)) = i + 1
           /\ FirstPieces(u, i) \o <<<<u, i + 1>>>> = FirstPieces(u, i + 1)
           /\ u.size = i => Tail(FirstPieces(u, i)) = Bytes(u)
  <1> DEFINE S == {<<u, k>> : k \in Nat} \cup {StartCode}
             f == FirstPieces(u, i)
  <1>0. StartCode \in S /\ \A k \in Nat : <<u, k>> \in S
    OBVIOUS
  <1> HIDE DEF S
  <1>1. f \in Seq(S) /\ Len(f) = i + 1 /\ \A k \in 1..(i + 1) : f[k] = IF k = 1 THEN StartCode ELSE <<u, k - 1>>
    BY <1>0 DEF FirstPieces
  <1> HIDE DEF f
  <1>2. f \o <<<<u, i + 1>>>> = FirstPieces(u, i + 1)
    <2>1. /\ f \o <<<<u, i + 1>>>> \in Seq(S) /\ Len(f \o <<<<u, i + 1>>>>) = i + 2
          /\ \A k \in 1..(i + 2) : (f \o <<<<u, i + 1>>>>)[k] = IF k = 1 THEN StartCode ELSE <<u, k - 1>>
      <3> DEFINE g == <<<<u, i + 1>>>>
      <3>1. g \in Seq(S) /\ Len(g) = 1 /\ g[1] = <<u, i + 1>>
        BY <1>0
      <3> HIDE DEF g
      <3>2. /\ f \o g \in Seq(S) /\ Len(f \o g) = Len(f) + Len(g)
            /\ \A k \in 1..(Len(f) + Len(g)) :
                  (f \o g)[k] = IF k <= Len(f) THEN f[k] ELSE g[k - Len(f)]
        BY <1>1, <3>1, ConcatProperties
      <3>3. ASSUME NEW k \in 1..(i + 2)
            PROVE  (f \o g)[k] = IF k = 1 THEN StartCode ELSE <<u, k - 1>>
        <4>1. CASE k <= i + 1
          <5>1. k \in 1..(Len(f) + Len(g)) /\ k <= Len(f) /\ k \in 1..(i + 1)
            BY <1>1, <3>1, <4>1
          <5>2. (f \o g)[k] = f[k]
            BY <3>2, <5>1
          <5> QED
            BY <1>1, <5>1, <5>2
        <4>2. CASE k = i + 2
          <5>1. k - Len(f) = 1 /\ k - 1 = i + 1 /\ k # 1 /\ ~(k <= Len(f))
                /\ k \in 1..(Len(f) + Len(g))
            BY <1>1, <3>1, <4>2
          <5>2. (f \o g)[k] = g[1]
            BY <3>2, <5>1
          <5> QED
            BY <3>1, <5>1, <5>2
        <4>3. k <= i + 1 \/ k = i + 2
          OBVIOUS
        <4> QED
          BY <4>1, <4>2, <4>3
      <3>4. Len(f \o g) = i + 2
        BY <1>1, <3>1, <3>2
      <3> QED
        BY <3>2, <3>3, <3>4 DEF g
    <2>2. /\ FirstPieces(u, i + 1) \in Seq(S) /\ Len(FirstPieces(u, i + 1)) = i + 2
          /\ \A k \in 1..(i + 2) : FirstPieces(u, i + 1)[k] = IF k = 1 THEN StartCode ELSE <<u, k - 1>>
      BY <1>0 DEF FirstPieces
    <2> DEFINE longer == f \o <<<<u, i + 1>>>>
               next == FirstPieces(u, i + 1)
    <2>3. /\ longer \in Seq(S) /\ next \in Seq(S) /\ Len(longer) = Len(next)
          /\ \A k \in 1..Len(longer) : longer[k] = next[k]
      BY <2>1, <2>2
    <2> HIDE DEF longer, next
    <2>4. longer = next
      BY <2>3, SeqEqual
    <2> QED
      BY <2>4 DEF longer, next
  <1>3. ASSUME u.size = i PROVE Tail(f) = Bytes(u)
    <2>1. /\ Tail(f) \in Seq(S) /\ Len(Tail(f)) = i
          /\ \A k \in 1..i : Tail(f)[k] = <<u, k>>
      BY <1>1
    <2>2. Bytes(u) \in Seq(S) /\ Len(Bytes(u)) = i /\ \A k \in 1..i : Bytes(u)[k] = <<u, k>>
      BY <1>0, <1>3 DEF Bytes
    <2> QED
      BY <2>1, <2>2, SeqEqual
  <1> QED
    BY <1>1, <1>2, <1>3 DEF f

\* A unit with a byte at least is one.
LEMMA BytesAreUnits ==
    ASSUME NEW u, u.size \in Nat \ {0}
    PROVE  IsUnit(Bytes(u))
  BY DEF IsUnit, Bytes

\* What does not begin with a start code is not made to.
LEMMA WorthlessStays ==
    ASSUME NEW S, NEW nalu \in Seq(S), NEW b \in S, b # StartCode,
           nalu = <<>> \/ nalu[1] # StartCode,
           NEW x, x = append_nalu_data(nalu, <<b>>)
    PROVE  x = <<>> \/ x[1] # StartCode
  <1>1. CASE nalu = <<>>
    <2>1. x = <<b>> \/ x = <<>>
      BY <1>1 DEF append_nalu_data
    <2> QED
      BY <2>1
  <1>2. CASE nalu # <<>> /\ nalu[1] # StartCode
    <2>1. x = nalu \/ x = nalu \o <<b>>
      BY DEF append_nalu_data
    <2>2. (nalu \o <<b>>)[1] = nalu[1]
      BY <1>2
    <2> QED
      BY <1>2, <2>1, <2>2
  <1> QED
    BY <1>1, <1>2

\* The next piece is appended where there is room for it.
LEMMA AppendNext ==
    ASSUME NEW u, NEW i \in Nat, i + 2 <= MaxLen
    PROVE  append_nalu_data(FirstPieces(u, i), <<<<u, i + 1>>>>) = FirstPieces(u, i + 1)
  <1>1. /\ Len(FirstPieces(u, i)) = i + 1
        /\ FirstPieces(u, i) \o <<<<u, i + 1>>>> = FirstPieces(u, i + 1)
    BY GrowFacts
  <1>2. Len(<<<<u, i + 1>>>>) = 1
    OBVIOUS
  <1>3. ~(Len(FirstPieces(u, i)) + Len(<<<<u, i + 1>>>>) > MaxLen)
    BY <1>1, <1>2, RtpAssumption DEF RtpAssumption
  <1> QED
    BY <1>1, <1>3 DEF append_nalu_data

\* The start code alone is what a first piece is appended to.
LEMMA FirstPiece ==
    ASSUME NEW u, 2 <= MaxLen
    PROVE  append_nalu_data(<<StartCode>>, <<<<u, 1>>>>) = FirstPieces(u, 1)
  <1>1. <<StartCode>> = FirstPieces(u, 0)
    <2>1. FirstPieces(u, 0) = [k \in 1..1 |-> StartCode]
      BY DEF FirstPieces
    <2> QED
      BY <2>1
  <1>2. append_nalu_data(FirstPieces(u, 0), <<<<u, 0 + 1>>>>) = FirstPieces(u, 0 + 1)
    BY AppendNext
  <1> QED
    BY <1>1, <1>2

\* What is handed on of a buffer that is worthless or complete is nothing or the unit.
LEMMA HandedOnIsWhole ==
    ASSUME NEW u, u.size \in Nat \ {0}, NEW x,
           x = <<>> \/ x[1] # StartCode \/ x = FirstPieces(u, u.size)
    PROVE  \A k \in DOMAIN forwardNALU(x) : IsUnit(forwardNALU(x)[k])
  <1>1. CASE forwardNALU(x) = <<>>
    BY <1>1
  <1>2. CASE forwardNALU(x) # <<>>
    <2>1. x[1] = StartCode /\ Len(x) >= 2 /\ forwardNALU(x) = <<Tail(x)>>
      BY <1>2 DEF forwardNALU
    <2>2. x = FirstPieces(u, u.size)
      BY <2>1
    <2>3. Tail(FirstPieces(u, u.size)) = Bytes(u)
      BY GrowFacts
    <2>4. IsUnit(Bytes(u))
      BY BytesAreUnits
    <2>5. forwardNALU(x) = <<Bytes(u)>>
      BY <2>1, <2>2, <2>3
    <2>6. ASSUME NEW y PROVE DOMAIN <<y>> = {1} /\ <<y>>[1] = y
      OBVIOUS
    <2>7. DOMAIN forwardNALU(x) = {1} /\ forwardNALU(x)[1] = Bytes(u)
      BY <2>5, <2>6
    <2> QED
      BY <2>4, <2>7
  <1> QED
    BY <1>1, <1>2

-----------------------------------------------------------------------------
(* One packet                                                              *)

\* A packet whose number is the next one is the next one.
LEMMA NextPacket ==
    ASSUME Setting, IInv, NEW n \in Nat, Near(n)
    PROVE  /\ SameSeqNr(Packet(n)) => n = at
           /\ at # NoSeq /\ IsNext(Packet(n)) => n = at + 1
  <1>1. CASE at = NoSeq
    BY <1>1 DEF IInv, SameSeqNr, Packet, NoSeq, Setting
  <1>2. CASE at \in Nat
    <2>1. 2 * (n - at) < 65536 /\ 2 * (at - n) < 65536
      BY <1>2 DEF Near, Setting, NoSeq
    <2>2. lastSequenceNumber = at % 65536
      BY <1>2 DEF IInv, NoSeq, Setting
    <2>3. Packet(n).seq = n % 65536
      BY DEF Packet, Setting
    <2> QED
      BY <1>2, <2>1, <2>2, <2>3, SequenceNumbers DEF SameSeqNr, IsNext, Setting
  <1> QED
    BY <1>1, <1>2 DEF IInv

\* Without a gap, the buffer with one more piece is worthless, or has all pieces
\* up to this one.
LEMMA Continues ==
    ASSUME Setting, IInv, NEW n \in Nat, Near(n),
           Stream[n].kind \in {"middle", "end"}, ~FlagFor(Packet(n)),
           NEW x, x = append_nalu_data(m_curr_nalu, <<Stream[n].piece>>)
    PROVE  /\ x = <<>> \/ x[1] # StartCode
              \/ x = FirstPieces(Stream[n].piece[1], Stream[n].piece[2])
  <1>1. PICK u, i :
          /\ Stream[n].piece = <<u, i>> /\ u = Stream[n].piece[1] /\ i = Stream[n].piece[2]
          /\ <<u, i>> \in Pieces /\ <<u, i>> # StartCode
          /\ u.size \in Nat /\ i \in 1..u.size /\ 2 <= u.size /\ u.size < MaxLen
    BY FragmentFacts DEF IsFragment
  <1>2. m_curr_nalu \in Seq(Pieces)
    BY DEF IInv
  <1>3. CASE m_curr_nalu = <<>> \/ m_curr_nalu[1] # StartCode
    BY <1>1, <1>2, <1>3, WorthlessStays
  <1>5. CASE ~flagPacketHasGoneMissing /\ Grows
    <2>1. at # NoSeq /\ at \in Nat /\ lastSequenceNumber # NoSeq
      BY <1>5 DEF Grows, IInv, NoSeq, Setting
    <2>2. n = at + 1
      BY <2>1, NextPacket DEF FlagFor, Setting
    <2>3. PICK v, j :
            /\ Stream[at].piece = <<v, j>> /\ v = Stream[at].piece[1] /\ j = Stream[at].piece[2]
            /\ <<v, j>> \in Pieces
            /\ v.size \in Nat /\ j \in 1..v.size /\ 2 <= v.size /\ v.size < MaxLen
            /\ Stream[at].kind = IF j = 1 THEN "start" ELSE IF j = v.size THEN "end" ELSE "middle"
            /\ j < v.size => IsPiece(at + 1, v, j + 1)
      BY <1>5, <2>1, FragmentFacts DEF Grows, IsFragment
    <2>4. j < v.size
      BY <1>5, <2>3 DEF Grows
    <2>5. Stream[n].piece = <<v, j + 1>>
      BY <2>2, <2>3, <2>4 DEF IsPiece
    <2>6. m_curr_nalu = FirstPieces(v, j)
      BY <1>5, <2>3 DEF Grows
    <2>9. x = FirstPieces(v, j + 1)
      <3>1. j + 2 <= MaxLen /\ j \in Nat
        BY <2>3, <2>4, RtpAssumption DEF RtpAssumption
      <3> QED
        BY <2>5, <2>6, <3>1, AppendNext
    <2> QED
      BY <2>5, <2>9
  <1>6. CASE flagPacketHasGoneMissing /\ m_curr_nalu # <<>>
    <2>1. lastSequenceNumber # NoSeq
      <3>1. at \in Nat
        BY <1>6 DEF IInv
      <3> QED
        BY <3>1 DEF IInv, NoSeq, Setting
    <2>2. FlagFor(Packet(n))
      <3>1. CASE IsNext(Packet(n))
        <4>1. FlagFor(Packet(n)) = flagPacketHasGoneMissing
          BY <2>1, <3>1 DEF FlagFor
        <4> QED
          BY <1>6, <4>1
      <3>2. CASE ~IsNext(Packet(n))
        <4>1. (~FeedIncomplete) = TRUE
          BY DEF Setting
        <4>2. FlagFor(Packet(n)) = TRUE
          BY <2>1, <3>2, <4>1 DEF FlagFor
        <4> QED
          BY <4>2
      <3> QED
        BY <3>1, <3>2
    <2> QED
      BY <2>2
  <1> QED
    BY <1>3, <1>5, <1>6 DEF IInv, BufferInv

\* What is handed on at the end of a fragmented unit is the unit.
LEMMA EndIsWhole ==
    ASSUME Setting, NEW n \in Nat, Stream[n].kind = "end", NEW x,
           x = <<>> \/ x[1] # StartCode \/ x = FirstPieces(Stream[n].piece[1], Stream[n].piece[2])
    PROVE  \A k \in DOMAIN forwardNALU(x) : IsUnit(forwardNALU(x)[k])
  <1>1. PICK u, i :
          /\ Stream[n].piece = <<u, i>> /\ u = Stream[n].piece[1] /\ i = Stream[n].piece[2]
          /\ u.size \in Nat /\ i \in 1..u.size /\ 2 <= u.size
          /\ Stream[n].kind = IF i = 1 THEN "start" ELSE IF i = u.size THEN "end" ELSE "middle"
    BY FragmentFacts DEF IsFragment
  <1>2. i = u.size
    BY <1>1
  <1> QED
    BY <1>1, <1>2, HandedOnIsWhole

\* append_nalu_data keeps the buffer a sequence of pieces.
LEMMA AppendType ==
    ASSUME NEW nalu \in Seq(Pieces), NEW b \in Pieces
    PROVE  append_nalu_data(nalu, <<b>>) \in Seq(Pieces)
  BY DEF append_nalu_data

\* Every packet that may arrive keeps the invariant: whole, start, middle, end,
\* unsupported or doubled.
LEMMA Step ==
    ASSUME Setting, IInv, NEW n \in Indices, Arrives(n)
    PROVE  IInv'
  <1>1. /\ n \in Nat /\ Near(n) /\ ParseRTP(Packet(n)) /\ at' = n
    <2>1. Indices \subseteq Nat
      BY IndicesAreNumbers DEF Setting
    <2> QED
      BY <2>1 DEF Arrives
  <1>2. /\ Packet(n).seq = n % SeqNumbers /\ Packet(n).kind = Stream[n].kind
        /\ Packet(n).units = Stream[n].units /\ Packet(n).piece = Stream[n].piece
    BY DEF Packet
  <1>3. n # NoSeq
    BY <1>1 DEF NoSeq
  <1>4. m_curr_nalu \in Seq(Pieces) /\ (at = NoSeq => m_curr_nalu = <<>>)
    BY DEF IInv
  <1>5. CASE Duplicate(Packet(n))
    <2>1. n = at
      BY <1>1, <1>5, NextPacket DEF Duplicate
    <2> QED
      BY <1>1, <1>5, <2>1 DEF Duplicate, IInv, BufferInv, Grows, UnitsAreWhole
  <1>6. CASE lastSequenceNumber' = Packet(n).seq /\ WholeUnits(Packet(n))
    <2>1. \A k \in DOMAIN Stream[n].units : Stream[n].units[k].size \in Nat \ {0}
      <3>1. Stream[n].kind = "whole"
        BY <1>2, <1>6 DEF WholeUnits
      <3>2. Stream[n].kind = "whole" => \A k \in DOMAIN Stream[n].units : Stream[n].units[k].size \in Nat \ {0}
        BY <1>1 DEF Setting, IsStream
      <3> QED
        BY <3>1, <3>2
    <2>2. forwarded' = [k \in DOMAIN Stream[n].units |-> Bytes(Stream[n].units[k])]
      BY <1>2, <1>6 DEF WholeUnits
    <2>3. ASSUME NEW k \in DOMAIN Stream[n].units PROVE IsUnit(Bytes(Stream[n].units[k]))
      BY <2>1, BytesAreUnits
    <2>4. UnitsAreWhole'
      BY <2>2, <2>3 DEF UnitsAreWhole
    <2> QED
      BY <1>1, <1>2, <1>3, <1>6, <2>4 DEF WholeUnits, IInv, BufferInv
  <1>7. ASSUME IsFragment(n) PROVE Stream[n].piece \in Pieces /\ Stream[n].piece # StartCode
    BY <1>1, <1>7, FragmentFacts
  <1>8. CASE lastSequenceNumber' = Packet(n).seq /\ FuStart(Packet(n))
    <2>1. PICK u, i :
            /\ Stream[n].piece = <<u, i>> /\ u = Stream[n].piece[1] /\ i = Stream[n].piece[2]
            /\ u.size \in Nat /\ i \in 1..u.size /\ 2 <= u.size /\ u.size < MaxLen
            /\ Stream[n].kind = IF i = 1 THEN "start" ELSE IF i = u.size THEN "end" ELSE "middle"
      BY <1>1, <1>2, <1>8, FragmentFacts DEF FuStart, IsFragment
    <2>2. i = 1
      BY <1>2, <1>8, <2>1 DEF FuStart
    <2>3. m_curr_nalu' = append_nalu_data(<<StartCode>>, <<<<u, 1>>>>)
      BY <1>2, <1>8, <2>1, <2>2 DEF FuStart
    <2>4. m_curr_nalu' = FirstPieces(u, 1)
      <3>1. 2 <= MaxLen
        BY <2>1, RtpAssumption DEF RtpAssumption
      <3> QED
        BY <2>3, <3>1, FirstPiece
    <2>6. Grows'
      BY <1>1, <1>2, <1>3, <1>8, <2>1, <2>2, <2>4 DEF Grows, FuStart
    <2>7. m_curr_nalu' \in Seq(Pieces)
      <3>1. <<u, 1>> \in Pieces /\ StartCode \in Pieces
        BY <1>2, <1>7, <1>8, <2>1, <2>2 DEF Pieces, FuStart, IsFragment
      <3> QED
        <4>1. <<StartCode>> \in Seq(Pieces)
          BY <3>1
        <4> QED
          BY <2>3, <3>1, <4>1, AppendType
    <2> QED
      BY <1>1, <1>2, <1>3, <1>8, <2>6, <2>7 DEF FuStart, IInv, BufferInv, UnitsAreWhole
  <1>9. CASE lastSequenceNumber' = Packet(n).seq /\ FuMiddle(Packet(n))
    <2>1. Stream[n].kind = "middle"
      BY <1>2, <1>9 DEF FuMiddle
    <2>2. m_curr_nalu' = append_nalu_data(m_curr_nalu, <<Stream[n].piece>>)
      BY <1>2, <1>9 DEF FuMiddle
    <2>3. m_curr_nalu' \in Seq(Pieces)
      BY <1>4, <1>7, <2>1, <2>2, AppendType DEF IsFragment
    <2>4. BufferInv'
      <3>1. CASE FlagFor(Packet(n))
        BY <1>9, <3>1 DEF FuMiddle, BufferInv
      <3>2. CASE ~FlagFor(Packet(n))
        <4>1. m_curr_nalu' = <<>> \/ m_curr_nalu'[1] # StartCode
              \/ m_curr_nalu' = FirstPieces(Stream[n].piece[1], Stream[n].piece[2])
          BY <1>1, <2>1, <2>2, <3>2, Continues
        <4> QED
          BY <1>1, <1>3, <2>1, <4>1 DEF BufferInv, Grows
      <3> QED
        BY <3>1, <3>2
    <2> QED
      BY <1>1, <1>2, <1>3, <1>9, <2>3, <2>4 DEF FuMiddle, IInv, UnitsAreWhole
  <1>10. CASE lastSequenceNumber' = Packet(n).seq /\ FuEnd(Packet(n))
    <2>1. Stream[n].kind = "end"
      BY <1>2, <1>10 DEF FuEnd
    <2>2. UnitsAreWhole'
      <3>1. CASE FlagFor(Packet(n))
        <4>1. forwarded' = <<>>
          BY <1>10, <3>1 DEF FuEnd, Setting
        <4> QED
          BY <4>1 DEF UnitsAreWhole
      <3>2. CASE ~FlagFor(Packet(n))
        <4> DEFINE x == append_nalu_data(m_curr_nalu, <<Stream[n].piece>>)
        <4>1. x = <<>> \/ x[1] # StartCode
              \/ x = FirstPieces(Stream[n].piece[1], Stream[n].piece[2])
          BY <1>1, <2>1, <3>2, Continues
        <4>2. forwarded' = forwardNALU(x)
          BY <1>2, <1>10, <3>2 DEF FuEnd
        <4> HIDE DEF x
        <4>3. \A k \in DOMAIN forwardNALU(x) : IsUnit(forwardNALU(x)[k])
          BY <1>1, <2>1, <4>1, EndIsWhole
        <4> QED
          BY <4>2, <4>3 DEF UnitsAreWhole
      <3> QED
        BY <3>1, <3>2
    <2> QED
      BY <1>1, <1>2, <1>3, <1>10, <2>2 DEF FuEnd, IInv, BufferInv
  <1>11. CASE /\ ~SameSeqNr(Packet(n)) /\ lastSequenceNumber' = Packet(n).seq
              /\ Unsupported(Packet(n))
    <2>1. BufferInv'
      <3>1. CASE FlagFor(Packet(n))
        BY <1>11, <3>1 DEF Unsupported, BufferInv
      <3>2. CASE m_curr_nalu = <<>> \/ m_curr_nalu[1] # StartCode
        BY <1>11, <3>2 DEF Unsupported, BufferInv
      <3>3. CASE ~FlagFor(Packet(n)) /\ m_curr_nalu # <<>> /\ m_curr_nalu[1] = StartCode
        <4>1. at \in Nat /\ lastSequenceNumber # NoSeq
          <5>1. at \in Nat
            BY <1>4, <3>3 DEF IInv
          <5> QED
            BY <5>1 DEF IInv, NoSeq, Setting
        <4>2. IsNext(Packet(n))
          BY <3>3, <4>1 DEF FlagFor, Setting
        <4>3. n = at + 1
          BY <1>1, <4>1, <4>2, NextPacket DEF NoSeq
        <4>4. ~flagPacketHasGoneMissing
          BY <3>3, <4>1, <4>2 DEF FlagFor
        <4>5. Grows
          BY <3>3, <4>4 DEF IInv, BufferInv
        <4>6. Stream[n].kind \in {"start", "middle", "end"}
          <5>1. PICK u, i :
                  /\ u.size \in Nat /\ i \in 1..u.size /\ 2 <= u.size
                  /\ Stream[at].kind = IF i = 1 THEN "start" ELSE IF i = u.size THEN "end" ELSE "middle"
                  /\ i < u.size => IsPiece(at + 1, u, i + 1)
            BY <4>1, <4>5, FragmentFacts DEF Grows, IsFragment
          <5>2. i < u.size
            BY <4>5, <5>1 DEF Grows
          <5> QED
            BY <4>3, <5>1, <5>2 DEF IsPiece
        <4> QED
          BY <1>2, <1>11, <4>6 DEF Unsupported
      <3> QED
        BY <3>1, <3>2, <3>3
    <2> QED
      BY <1>1, <1>2, <1>3, <1>4, <1>11, <2>1 DEF Unsupported, IInv, UnitsAreWhole
  <1> QED
    BY <1>1, <1>5, <1>6, <1>8, <1>9, <1>10, <1>11 DEF ParseRTP

-----------------------------------------------------------------------------

\* "incomplete rtp fragments are dropped" (ParseRTP.h:17): whatever is lost,
\* doubled or late, the callback gets complete units of an H264 stream.
THEOREM Wholeness ==
    ASSUME Setting
    PROVE  StreamSpec => []UnitsAreWhole
  <1>1. StreamInit => IInv
    BY DEF StreamInit, RtpInit, IInv, BufferInv, UnitsAreWhole, NoSeq
  <1>2. IInv /\ [StreamNext]_streamVars => IInv'
    <2>1. ASSUME IInv, StreamNext PROVE IInv'
      BY <2>1, Step DEF StreamNext
    <2>2. ASSUME IInv, UNCHANGED streamVars PROVE IInv'
      BY <2>2 DEF streamVars, rtp, IInv, BufferInv, Grows, UnitsAreWhole
    <2> QED
      BY <2>1, <2>2
  <1>3. IInv => UnitsAreWhole
    BY DEF IInv
  <1> QED
    BY <1>1, <1>2, <1>3, PTL DEF StreamSpec

-----------------------------------------------------------------------------
(* VideoReceiver: the frames after a change of the configuration           *)

\* The state queue_data works on.
IsQueueState(r) ==
    \E c, q : \E b \in BOOLEAN : r = [config |-> c, changed |-> b, queue |-> q]

\* How the fields of the state are replaced.
LEMMA StateUpdates ==
    ASSUME NEW a, NEW b, NEW c, NEW x, NEW r, r = [config |-> a, changed |-> b, queue |-> c]
    PROVE  /\ r.config = a /\ r.changed = b /\ r.queue = c
           /\ [r EXCEPT !.config = x] = [config |-> x, changed |-> b, queue |-> c]
           /\ [r EXCEPT !.changed = x] = [config |-> a, changed |-> x, queue |-> c]
           /\ [r EXCEPT !.queue = x] = [config |-> a, changed |-> b, queue |-> x]
  OBVIOUS

\* A unit leaves the state one, and a change that was noticed is not forgotten.
LEMMA OneUnit ==
    ASSUME NEW r, IsQueueState(r), NEW nalu
    PROVE  IsQueueState(queue_data(r, nalu)) /\ (r.changed => queue_data(r, nalu).changed)
  <1>1. PICK c, q : \E b \in BOOLEAN : r = [config |-> c, changed |-> b, queue |-> q]
    BY DEF IsQueueState
  <1>2. PICK b \in BOOLEAN : r = [config |-> c, changed |-> b, queue |-> q]
    BY <1>1
  <1>3. ASSUME NEW t, NEW g
        PROVE  /\ [r EXCEPT !.config[t] = g] = [config |-> [c EXCEPT ![t] = g], changed |-> b, queue |-> q]
               /\ [r EXCEPT !.changed = TRUE] = [config |-> c, changed |-> TRUE, queue |-> q]
               /\ [r EXCEPT !.queue = Append(@, g)] = [config |-> c, changed |-> b, queue |-> Append(q, g)]
    <2>1. r.config = c /\ r.changed = b /\ r.queue = q
      BY <1>2
    <2>2. [r EXCEPT !.config[t] = g] = [config |-> [c EXCEPT ![t] = g], changed |-> b, queue |-> q]
      <3>1. [r EXCEPT !.config[t] = g] = [r EXCEPT !.config = [r.config EXCEPT ![t] = g]]
        OBVIOUS
      <3> QED
        BY <1>2, <2>1, <3>1, StateUpdates
    <2>3. [r EXCEPT !.changed = TRUE] = [config |-> c, changed |-> TRUE, queue |-> q]
      <3>1. \A x : [r EXCEPT !.changed = x] = [config |-> c, changed |-> x, queue |-> q]
        BY <1>2, StateUpdates
      <3> QED
        BY <3>1, Zenon
    <2>4. [r EXCEPT !.queue = Append(@, g)] = [config |-> c, changed |-> b, queue |-> Append(q, g)]
      <3>1. [r EXCEPT !.queue = Append(@, g)] = [r EXCEPT !.queue = Append(r.queue, g)]
        OBVIOUS
      <3> QED
        BY <1>2, <2>1, <3>1, StateUpdates
    <2> QED
      BY <2>2, <2>3, <2>4
  <1>4. \/ queue_data(r, nalu) = r
        \/ \E t, g : queue_data(r, nalu) = [r EXCEPT !.config[t] = g]
        \/ queue_data(r, nalu) = [r EXCEPT !.changed = TRUE]
        \/ \E g : queue_data(r, nalu) = [r EXCEPT !.queue = Append(@, g)]
    BY DEF queue_data
  <1> QED
    BY <1>2, <1>3, <1>4 DEF IsQueueState

\* The units of a packet, three at most, are taken one after the other.
LEMMA UnfoldUnits ==
    ASSUME NEW start, NEW nalus, NEW n \in 0..3, Len(nalus) = n
    PROVE  LET one == queue_data(start, nalus[1])
               two == queue_data(one, nalus[2])
           IN  QueueUnits(start, nalus) = IF n = 0 THEN start ELSE IF n = 1 THEN one
                                          ELSE IF n = 2 THEN two ELSE queue_data(two, nalus[3])
  <1> DEFINE Eq(f) == f = [k \in 0..n |-> IF k = 0 THEN start ELSE queue_data(f[k - 1], nalus[k])]
             one == queue_data(start, nalus[1])
             two == queue_data(one, nalus[2])
             three == queue_data(two, nalus[3])
             r == CHOOSE f : Eq(f)
             g == [k \in 0..n |-> IF k = 0 THEN start ELSE IF k = 1 THEN one
                                  ELSE IF k = 2 THEN two ELSE three]
  <1>1. Eq(g)
    <2>1. ASSUME NEW k \in 0..n PROVE g[k] = IF k = 0 THEN start ELSE queue_data(g[k - 1], nalus[k])
      <3>1. CASE k = 0
        BY <3>1
      <3>2. CASE k = 1
        <4>1. g[0] = start /\ g[k] = one /\ k - 1 = 0
          BY <3>2
        <4> QED
          BY <3>2, <4>1
      <3>3. CASE k = 2
        <4>1. g[1] = one /\ g[k] = two /\ k - 1 = 1
          BY <3>3
        <4> QED
          BY <3>3, <4>1
      <3>4. CASE k = 3
        <4>1. g[2] = two /\ g[k] = three /\ k - 1 = 2
          BY <3>4
        <4> QED
          BY <3>4, <4>1
      <3> QED
        BY <3>1, <3>2, <3>3, <3>4
    <2> QED
      BY <2>1
  <1>2. Eq(r)
    BY <1>1
  <1>3. QueueUnits(start, nalus) = r[n]
    BY DEF QueueUnits
  <1> HIDE DEF r
  <1>4. r[0] = start
    BY <1>2
  <1>5. ASSUME NEW k \in 1..n PROVE r[k] = queue_data(r[k - 1], nalus[k])
    BY <1>2
  <1>6. /\ n >= 1 => r[1] = one
        /\ n >= 2 => r[2] = queue_data(r[1], nalus[2])
        /\ n >= 3 => r[3] = queue_data(r[2], nalus[3])
    <2>1. n >= 1 => r[1] = queue_data(r[0], nalus[1])
      <3>1. n >= 1 => 1 \in 1..n /\ 1 - 1 = 0
        OBVIOUS
      <3> QED
        BY <1>5, <3>1
    <2>2. n >= 2 => r[2] = queue_data(r[1], nalus[2])
      <3>1. n >= 2 => 2 \in 1..n /\ 2 - 1 = 1
        OBVIOUS
      <3> QED
        BY <1>5, <3>1
    <2>3. n >= 3 => r[3] = queue_data(r[2], nalus[3])
      <3>1. n >= 3 => 3 \in 1..n /\ 3 - 1 = 2
        OBVIOUS
      <3> QED
        BY <1>5, <3>1
    <2> QED
      BY <1>4, <2>1, <2>2, <2>3
  <1> QED
    BY <1>3, <1>4, <1>6

\* A change that was noticed is not forgotten by the units of a packet.
LEMMA UnitsKeepChange ==
    ASSUME NEW r, IsQueueState(r), NEW nalus, Len(nalus) \in 0..3
    PROVE  /\ IsQueueState(QueueUnits(r, nalus))
           /\ r.changed => QueueUnits(r, nalus).changed
  <1> DEFINE one == queue_data(r, nalus[1])
             two == queue_data(one, nalus[2])
  <1>1. IsQueueState(one) /\ (r.changed => one.changed)
    BY OneUnit
  <1>2. IsQueueState(two) /\ (one.changed => two.changed)
    BY <1>1, OneUnit
  <1>3. IsQueueState(queue_data(two, nalus[3])) /\ (two.changed => queue_data(two, nalus[3]).changed)
    BY <1>2, OneUnit
  <1>4. QueueUnits(r, nalus) \in {r, one, two, queue_data(two, nalus[3])}
    BY UnfoldUnits
  <1> QED
    BY <1>1, <1>2, <1>3, <1>4

\* The packets of the encoder: their units are short ones, three at most.
LEMMA PacketUnits ==
    ASSUME pos \in 0..4
    PROVE  /\ CurrentPacket.seq = number
           /\ CurrentPacket.kind = IF pos < 2 THEN "whole" ELSE IF pos = 2 THEN "start"
                                   ELSE IF pos = 3 THEN "middle" ELSE "end"
           /\ pos < 2 => /\ Len(CurrentPacket.units) \in 0..3
                         /\ DOMAIN CurrentPacket.units = 1..Len(CurrentPacket.units)
                         /\ \A k \in DOMAIN CurrentPacket.units : CurrentPacket.units[k].size = 1
           /\ pos >= 2 => CurrentPacket.piece = <<Unit("idr", 3), pos - 1>>
  <1> DEFINE Short == {Unit(t, 1) : t \in {"aud", "vps", "sps", "pps", "idr"}}
             vps == IF IsH265 THEN <<Unit("vps", 1)>> ELSE <<>>
  <1>1. \A u \in Short : u.size = 1
    BY DEF Unit
  <1>2. \A t \in {"aud", "vps", "sps", "pps", "idr"} : Unit(t, 1) \in Short
    OBVIOUS
  <1> HIDE DEF Short
  <1>3. CASE pos = 0
    <2>1. CurrentPacket = Whole(<<Unit("aud", 1)>> \o vps \o <<Unit("sps", 1)>>)
      BY <1>3 DEF CurrentPacket
    <2>2. vps \in Seq(Short) /\ Len(vps) \in 0..1
      BY <1>2
    <2>3. <<Unit("aud", 1)>> \in Seq(Short) /\ <<Unit("sps", 1)>> \in Seq(Short)
      BY <1>2
    <2> DEFINE aud == <<Unit("aud", 1)>>
               sps == <<Unit("sps", 1)>>
               us == aud \o vps \o sps
    <2>4. us \in Seq(Short) /\ Len(us) \in 0..3
      <3>1. Len(aud) = 1 /\ Len(sps) = 1
        OBVIOUS
      <3> HIDE DEF aud, sps, vps
      <3>2. aud \o vps \in Seq(Short) /\ Len(aud \o vps) = Len(aud) + Len(vps)
        BY <2>2, <2>3, ConcatProperties DEF aud
      <3>3. us \in Seq(Short) /\ Len(us) = Len(aud \o vps) + Len(sps)
        BY <2>3, <3>2, ConcatProperties DEF sps
      <3> QED
        BY <2>2, <3>1, <3>2, <3>3
    <2>5. CurrentPacket.units = us /\ CurrentPacket.seq = number /\ CurrentPacket.kind = "whole"
      BY <2>1 DEF Whole
    <2> HIDE DEF us
    <2>6. DOMAIN us = 1..Len(us) /\ \A k \in DOMAIN us : us[k] \in Short
      BY <2>4
    <2> QED
      BY <1>1, <1>3, <2>4, <2>5, <2>6
  <1>4. CASE pos = 1
    <2> DEFINE us == <<Unit("pps", 1), Unit("idr", 1)>>
    <2>1. CurrentPacket.units = us /\ CurrentPacket.seq = number /\ CurrentPacket.kind = "whole"
      BY <1>4 DEF CurrentPacket, Whole
    <2>2. Len(us) = 2 /\ DOMAIN us = 1..2 /\ us[1].size = 1 /\ us[2].size = 1
      BY DEF Unit
    <2> HIDE DEF us
    <2> QED
      BY <1>4, <2>1, <2>2
  <1>5. CASE pos \in 2..4
    <2>1. CurrentPacket = Piece(IF pos = 2 THEN "start" ELSE IF pos = 3 THEN "middle" ELSE "end", pos - 1)
      BY <1>5 DEF CurrentPacket
    <2> QED
      BY <1>5, <2>1 DEF Piece
  <1> QED
    BY <1>3, <1>4, <1>5

\* The encoder goes round.
LEMMA AdvanceFacts ==
    ASSUME pos \in 0..4, number \in 0..(SeqNumbers - 1), Advance
    PROVE  /\ pos' = IF pos = 4 THEN 0 ELSE pos + 1
           /\ number' = (number + 1) % SeqNumbers /\ number' \in 0..(SeqNumbers - 1)
           /\ pos' # 0 => gen' = gen
  <1>1. SeqNumbers \in Nat /\ SeqNumbers > 1
    BY RtpAssumption, SeqAssumption DEF RtpAssumption
  <1> QED
    BY <1>1 DEF Advance, GroupLen

\* What a packet makes the decoder hand on: three units at most.
LEMMA FewForwarded ==
    ASSUME pos \in 0..4, NEW p \in {CurrentPacket, UnsupportedPacket}, ParseRTP(p)
    PROVE  Len(forwarded') \in 0..3
  <1>1. CASE Duplicate(p) \/ FuStart(p) \/ FuMiddle(p) \/ Unsupported(p)
    BY <1>1 DEF Duplicate, FuStart, FuMiddle, Unsupported
  <1>2. CASE FuEnd(p)
    <2>1. ASSUME NEW x PROVE Len(forwardNALU(x)) \in 0..1
      <3>1. CASE forwardNALU(x) = <<Tail(x)>>
        BY <3>1
      <3>2. CASE forwardNALU(x) = <<>>
        BY <3>2
      <3> QED
        BY <3>1, <3>2 DEF forwardNALU
    <2> QED
      BY <1>2, <2>1 DEF FuEnd
  <1>3. CASE WholeUnits(p)
    <2>1. p = CurrentPacket /\ pos < 2
      BY <1>3, PacketUnits DEF WholeUnits, UnsupportedPacket
    <2> DEFINE us == CurrentPacket.units
    <2>2. Len(us) \in 0..3 /\ DOMAIN us = 1..Len(us)
      BY <2>1, PacketUnits
    <2>3. forwarded' = [k \in 1..Len(us) |-> Bytes(us[k])]
      BY <1>3, <2>1, <2>2 DEF WholeUnits
    <2> HIDE DEF us
    <2> QED
      BY <2>2, <2>3
  <1> QED
    BY <1>1, <1>2, <1>3 DEF ParseRTP

\* Once a frame was decoded late, the decode thread is on its way to destroy the
\* receiver, by one of its two ways there.
LateInv ==
    /\ pos \in 0..4 /\ number \in 0..(SeqNumbers - 1)
    /\ config_has_changed_during_decode \in BOOLEAN
    /\ lateFrames \in {0, 1}
    /\ lateFrames = 1 => /\ config_has_changed_during_decode
                         /\ dec \in {"test", "clear", "stop", "join"}

\* A packet may make the receive thread notice a change, and forget none.
LEMMA DeliverKeepsLate ==
    ASSUME LateInv, NEW p \in {CurrentPacket, UnsupportedPacket}, NEW copyFollows \in BOOLEAN,
           Deliver(p, copyFollows)
    PROVE  LateInv'
  <1>1. ParseRTP(p) /\ QueueForwarded /\ dec' = dec /\ lateFrames' = lateFrames
    BY DEF Deliver
  <1>2. Len(forwarded') \in 0..3
    BY <1>1, FewForwarded DEF LateInv
  <1> DEFINE r == [config |-> config, changed |-> config_has_changed_during_decode, queue |-> queue]
  <1>3. IsQueueState(r) /\ r.changed = config_has_changed_during_decode
    BY DEF IsQueueState, LateInv
  <1>4. config_has_changed_during_decode' = QueueUnits(r, forwarded').changed
    BY <1>1 DEF QueueForwarded
  <1> HIDE DEF r
  <1>5. /\ IsQueueState(QueueUnits(r, forwarded'))
        /\ r.changed => QueueUnits(r, forwarded').changed
    BY <1>2, <1>3, UnitsKeepChange
  <1>6. QueueUnits(r, forwarded').changed \in BOOLEAN
    BY <1>5 DEF IsQueueState
  <1>7. pos' \in 0..4 /\ number' \in 0..(SeqNumbers - 1)
    <2>1. CASE copyFollows
      BY <2>1 DEF Deliver, stream, LateInv
    <2>2. CASE ~copyFollows
      BY <2>2, AdvanceFacts DEF Deliver, LateInv
    <2> QED
      BY <2>1, <2>2
  <1> QED
    BY <1>1, <1>3, <1>4, <1>5, <1>6, <1>7 DEF LateInv

\* Every step of the three threads and of the link keeps LateInv.
LEMMA NextLateInv == LateInv /\ [Next]_vars => LateInv'
  <1> SUFFICES ASSUME LateInv, [Next]_vars PROVE LateInv'
    OBVIOUS
  <1>1. ASSUME NEW copyFollows \in BOOLEAN, Deliver(CurrentPacket, copyFollows) PROVE LateInv'
    BY <1>1, DeliverKeepsLate
  <1>2. CASE Deliver(UnsupportedPacket, FALSE)
    BY <1>2, DeliverKeepsLate
  <1>3. CASE Lose
    BY <1>3, AdvanceFacts DEF Lose, LateInv, receiver
  <1>4. CASE RxBind \/ RxFails \/ RxEnds \/ SettingsChange \/ TerminateStep
    BY <1>4 DEF RxBind, RxFails, RxEnds, SettingsChange, TerminateStep, LateInv, receiver, stream
  <1>5. CASE ConstantDecode \/ OpenDecoder \/ OpenFails
    BY <1>5 DEF ConstantDecode, OpenDecoder, OpenFails, LateInv, receiver, stream
  <1>6. CASE TestFlags
    BY <1>6 DEF TestFlags, SeesChange, LateInv, receiver, stream
  <1>7. CASE ClearRestart \/ FeedConfig \/ StopReceiving
    BY <1>7 DEF ClearRestart, FeedConfig, StopReceiving, LateInv, receiver, stream
  <1>8. CASE FeedFrame
    BY <1>8 DEF FeedFrame, LateInv, stream
  <1>9. CASE JoinAndDestroy
    <2>1. UNCHANGED <<pos, number>> /\ config_has_changed_during_decode' = FALSE /\ lateFrames' = 0
      BY <1>9 DEF JoinAndDestroy, stream
    <2>2. config_has_changed_during_decode' \in BOOLEAN
      BY <2>1
    <2>3. UNCHANGED <<pos, number>> /\ lateFrames' = 0
      BY <2>1
    <2> QED
      BY <2>2, <2>3 DEF LateInv
  <1>10. CASE UNCHANGED vars
    BY <1>10 DEF vars, LateInv, receiver, stream
  <1> QED
    BY <1>1, <1>2, <1>3, <1>4, <1>5, <1>6, <1>7, <1>8, <1>9, <1>10 DEF Next, Decode

\* LateInv holds throughout.
LEMMA SpecLateInv == Spec => []LateInv
  <1>1. Init => LateInv
    <2>1. 0 \in 0..(SeqNumbers - 1)
      BY RtpAssumption, SeqAssumption DEF RtpAssumption
    <2> SUFFICES ASSUME Init PROVE LateInv
      OBVIOUS
    <2>2. config_has_changed_during_decode \in BOOLEAN
      BY DEF Init
    <2>3. pos = 0 /\ number = 0 /\ lateFrames = 0
      BY DEF Init
    <2> QED
      BY <2>1, <2>2, <2>3 DEF LateInv
  <1> QED
    BY <1>1, NextLateInv, PTL DEF Spec

\* "upper level needs to reconfigure the decoder" (rtpreceiver.cpp:148): however long
\* the queue is and however the threads run, one frame at most is still decoded with
\* the old configuration once the receive thread has noticed the new one.
THEOREM DecodingStopsAfterChange == Spec => []StopsAfterChange
  <1>1. LateInv => StopsAfterChange
    BY DEF LateInv, StopsAfterChange
  <1> QED
    BY <1>1, SpecLateInv, PTL

-----------------------------------------------------------------------------
(* VideoReceiver: what the decoder hands on                                *)

\* The setting of these proofs: H264, complete units only are wanted.
VideoSetting == ~IsH265 /\ ~FeedIncomplete

\* Of the numbers, there is one next to each, and another one next to that.
LEMMA NextNumbers ==
    ASSUME NEW a \in 0..(SeqNumbers - 1), NEW b \in 0..(SeqNumbers - 1)
    PROVE  /\ (a + 1) % SeqNumbers \in 0..(SeqNumbers - 1)
           /\ (a + 1) % SeqNumbers # a
           /\ (a + 1) % SeqNumbers = (b + 1) % SeqNumbers => a = b
           /\ a # NoSeq
  <1>1. SeqNumbers \in Nat /\ SeqNumbers > 1
    BY RtpAssumption, SeqAssumption DEF RtpAssumption
  <1>2. ASSUME NEW c \in 0..(SeqNumbers - 1)
        PROVE  (c + 1) % SeqNumbers = IF c = SeqNumbers - 1 THEN 0 ELSE c + 1
    BY <1>1
  <1>3. /\ (a + 1) % SeqNumbers = IF a = SeqNumbers - 1 THEN 0 ELSE a + 1
        /\ (b + 1) % SeqNumbers = IF b = SeqNumbers - 1 THEN 0 ELSE b + 1
    BY <1>2
  <1> QED
    BY <1>1, <1>3 DEF NoSeq

Frame == Unit("idr", 3)

FramePieces == {<<[type |-> "idr", size |-> 3, gen |-> g], i>> : g \in Nat, i \in 1..3} \cup {StartCode}

Consecutive == number = (lastSequenceNumber + 1) % SeqNumbers

\* What is in the buffer is not handed on, or is what was sent of the frame: up to
\* the packet of which a copy may follow, or up to the last one; or there is a gap,
\* and the next packet will show it.
FrameInv ==
    \/ m_curr_nalu = <<>>
    \/ m_curr_nalu[1] # StartCode
    \/ flagPacketHasGoneMissing
    \/ lastSequenceNumber = number /\ pos \in {2, 3} /\ m_curr_nalu = FirstPieces(Frame, pos - 1)
    \/ Consecutive /\ pos \in {3, 4} /\ m_curr_nalu = FirstPieces(Frame, pos - 2)
    \/ lastSequenceNumber # number /\ ~Consecutive

\* A receiver begins without packets: it is made anew, and the thread of the one
\* before it has ended.
ReceiverInv ==
    /\ pos \in 0..4 /\ number \in 0..(SeqNumbers - 1) /\ gen \in Nat
    /\ dec \in {"while", "open", "ended"} => rx = "none"
    /\ rx \in {"none", "setup"} => lastSequenceNumber = NoSeq
    /\ lastSequenceNumber \in {NoSeq} \cup 0..(SeqNumbers - 1)
    /\ m_curr_nalu \in Seq(FramePieces)
    /\ lastSequenceNumber = NoSeq => m_curr_nalu = <<>>

VideoInv ==
    /\ ReceiverInv
    /\ rx = "recv" => FrameInv
    /\ UnitsAreWhole

\* The pieces of a frame, and the room there is for them.
LEMMA FrameFacts ==
    ASSUME gen \in Nat
    PROVE  /\ \A i \in 1..3 : <<Frame, i>> \in FramePieces /\ <<Frame, i>> # StartCode
           /\ Frame.size = 3 /\ StartCode \in FramePieces /\ MaxLen >= 4
           /\ \A nalu \in Seq(FramePieces), i \in 1..3 :
                 append_nalu_data(nalu, <<<<Frame, i>>>>) \in Seq(FramePieces)
  <1>1. \A i \in 1..3 : <<Frame, i>> \in FramePieces
    BY DEF Frame, Unit, FramePieces
  <1>2. \A i \in 1..3 : <<Frame, i>> # StartCode
    BY DEF StartCode
  <1>3. Frame.size = 3 /\ StartCode \in FramePieces /\ MaxLen >= 4
    BY RtpAssumption, SeqAssumption DEF Frame, Unit, FramePieces, RtpAssumption
  <1>4. ASSUME NEW nalu \in Seq(FramePieces), NEW i \in 1..3
        PROVE  append_nalu_data(nalu, <<<<Frame, i>>>>) \in Seq(FramePieces)
    <2> DEFINE b == <<Frame, i>>
    <2>1. b \in FramePieces
      BY <1>1
    <2> HIDE DEF b
    <2>2. <<b>> \in Seq(FramePieces)
      BY <2>1
    <2>3. append_nalu_data(nalu, <<b>>) \in Seq(FramePieces)
      BY <2>2 DEF append_nalu_data
    <2> QED
      BY <2>3 DEF b
  <1> QED
    BY <1>1, <1>2, <1>3, <1>4

\* Where no gap shows, the buffer with one more piece of the frame is worthless or
\* has all pieces up to this one.
LEMMA FrameContinues ==
    ASSUME VideoSetting, ReceiverInv, FrameInv, pos \in {3, 4},
           lastSequenceNumber # number, ~FlagFor(CurrentPacket),
           NEW x, x = append_nalu_data(m_curr_nalu, <<<<Frame, pos - 1>>>>)
    PROVE  x = <<>> \/ x[1] # StartCode \/ x = FirstPieces(Frame, pos - 1)
  <1>1. /\ m_curr_nalu \in Seq(FramePieces) /\ gen \in Nat /\ CurrentPacket.seq = number
        /\ lastSequenceNumber = NoSeq => m_curr_nalu = <<>>
        /\ <<Frame, pos - 1>> \in FramePieces /\ <<Frame, pos - 1>> # StartCode
    <2>1. pos \in 0..4 /\ gen \in Nat /\ pos - 1 \in 1..3
      BY DEF ReceiverInv
    <2> QED
      BY <2>1, FrameFacts, PacketUnits DEF ReceiverInv
  <1>2. CASE m_curr_nalu = <<>> \/ m_curr_nalu[1] # StartCode
    BY <1>1, <1>2, WorthlessStays
  <1>3. CASE lastSequenceNumber # NoSeq
    <2>1. Consecutive /\ ~flagPacketHasGoneMissing
      BY <1>1, <1>3 DEF FlagFor, IsNext, Consecutive, VideoSetting
    <2>2. CASE m_curr_nalu = FirstPieces(Frame, pos - 2)
      <3>1. pos - 2 \in Nat /\ (pos - 2) + 2 <= MaxLen /\ (pos - 2) + 1 = pos - 1
        BY <1>1, FrameFacts, RtpAssumption DEF RtpAssumption
      <3>2. append_nalu_data(FirstPieces(Frame, pos - 2), <<<<Frame, (pos - 2) + 1>>>>)
                = FirstPieces(Frame, (pos - 2) + 1)
        BY <3>1, AppendNext
      <3> QED
        BY <2>2, <3>1, <3>2
    <2> QED
      BY <1>2, <2>1, <2>2 DEF FrameInv
  <1> QED
    BY <1>1, <1>2, <1>3

\* A packet that is parsed leaves a buffer of which the encoder's next step makes
\* one the invariant is about, whether a copy follows or not.
ParsedInv ==
    /\ lastSequenceNumber' = number
    /\ m_curr_nalu' \in Seq(FramePieces)
    /\ UnitsAreWhole'
    /\ \/ m_curr_nalu' = <<>>
       \/ m_curr_nalu'[1] # StartCode
       \/ flagPacketHasGoneMissing'
       \/ pos \in {2, 3} /\ m_curr_nalu' = FirstPieces(Frame, pos - 1)

\* A packet of the encoder is parsed.
LEMMA ParseKeeps ==
    ASSUME VideoSetting, ReceiverInv, FrameInv, UnitsAreWhole,
           NEW p, p = CurrentPacket \/ (p = UnsupportedPacket /\ pos = 0), ParseRTP(p)
    PROVE  ParsedInv
  <1>1. /\ pos \in 0..4 /\ number \in 0..(SeqNumbers - 1) /\ gen \in Nat /\ number # NoSeq
        /\ m_curr_nalu \in Seq(FramePieces) /\ p.seq = number
        /\ lastSequenceNumber = NoSeq => m_curr_nalu = <<>>
    BY PacketUnits, NextNumbers DEF ReceiverInv, UnsupportedPacket
  <1>2. CASE Duplicate(p)
    <2>1. /\ lastSequenceNumber = number
          /\ UNCHANGED <<lastSequenceNumber, flagPacketHasGoneMissing, m_curr_nalu>>
          /\ forwarded' = <<>>
      BY <1>1, <1>2 DEF Duplicate, SameSeqNr
    <2>2. ~Consecutive
      BY <1>1, <2>1, NextNumbers DEF Consecutive
    <2> QED
      BY <1>1, <2>1, <2>2 DEF ParsedInv, FrameInv, UnitsAreWhole
  <1>3. CASE ~SameSeqNr(p)
    <2>0. lastSequenceNumber # number
      BY <1>1, <1>3 DEF SameSeqNr
    <2>1. lastSequenceNumber' = number
      BY <1>1, <1>3 DEF ParseRTP, Duplicate
    <2>2. CASE WholeUnits(p)
      <3>1. p = CurrentPacket /\ pos < 2
        BY <1>1, <2>2, PacketUnits DEF WholeUnits, UnsupportedPacket
      <3>2. /\ m_curr_nalu' = <<>>
            /\ forwarded' = [k \in DOMAIN p.units |-> Bytes(p.units[k])]
        BY <2>2 DEF WholeUnits
      <3>3. ASSUME NEW k \in DOMAIN p.units PROVE IsUnit(Bytes(p.units[k]))
        <4>1. p.units[k].size \in Nat \ {0}
          BY <1>1, <3>1, PacketUnits
        <4> QED
          BY <4>1, BytesAreUnits
      <3> QED
        BY <2>1, <3>2, <3>3 DEF ParsedInv, UnitsAreWhole
    <2>3. CASE FuStart(p)
      <3>1. p = CurrentPacket /\ pos = 2 /\ p.piece = <<Frame, 1>>
        BY <1>1, <2>3, PacketUnits DEF FuStart, UnsupportedPacket, Frame
      <3>2. m_curr_nalu' = append_nalu_data(<<StartCode>>, <<<<Frame, 1>>>>) /\ forwarded' = <<>>
        BY <2>3, <3>1 DEF FuStart
      <3>3. m_curr_nalu' = FirstPieces(Frame, 1)
        <4>1. 2 <= MaxLen
          BY <1>1, FrameFacts, RtpAssumption DEF RtpAssumption
        <4> QED
          BY <3>2, <4>1, FirstPiece
      <3>4. m_curr_nalu' \in Seq(FramePieces)
        <4>1. <<StartCode>> \in Seq(FramePieces)
          BY <1>1, FrameFacts
        <4>2. append_nalu_data(<<StartCode>>, <<<<Frame, 1>>>>) \in Seq(FramePieces)
          <5>1. 1 \in 1..3
            OBVIOUS
          <5> QED
            BY <1>1, <4>1, <5>1, FrameFacts
        <4> QED
          BY <3>2, <4>2
      <3> QED
        BY <2>1, <3>1, <3>2, <3>3, <3>4 DEF ParsedInv, UnitsAreWhole
    <2>4. CASE FuMiddle(p) \/ FuEnd(p)
      <3>1. p = CurrentPacket /\ pos \in {3, 4} /\ p.piece = <<Frame, pos - 1>>
        BY <1>1, <2>4, PacketUnits DEF FuMiddle, FuEnd, UnsupportedPacket, Frame
      <3> DEFINE x == append_nalu_data(m_curr_nalu, <<<<Frame, pos - 1>>>>)
      <3>2. x \in Seq(FramePieces)
        BY <1>1, <3>1, FrameFacts
      <3>3. ~FlagFor(p) => x = <<>> \/ x[1] # StartCode \/ x = FirstPieces(Frame, pos - 1)
        BY <2>0, <3>1, FrameContinues
      <3>4. CASE FuMiddle(p)
        <4>1. pos = 3
          BY <1>1, <3>1, <3>4, PacketUnits DEF FuMiddle
        <4>2. m_curr_nalu' = x /\ forwarded' = <<>> /\ flagPacketHasGoneMissing' = FlagFor(p)
          BY <3>1, <3>4 DEF FuMiddle
        <4> HIDE DEF x
        <4> QED
          BY <2>1, <3>2, <3>3, <4>1, <4>2 DEF ParsedInv, UnitsAreWhole
      <3>5. CASE FuEnd(p)
        <4>1. pos = 4
          BY <1>1, <3>1, <3>5, PacketUnits DEF FuEnd
        <4>2. m_curr_nalu' = <<>> /\ forwarded' = IF FlagFor(p) THEN <<>> ELSE forwardNALU(x)
          BY <3>1, <3>5 DEF FuEnd, VideoSetting
        <4> HIDE DEF x
        <4>3. ~FlagFor(p) => \A k \in DOMAIN forwardNALU(x) : IsUnit(forwardNALU(x)[k])
          <5>1. Frame.size = 3 /\ pos - 1 = 3
            BY <1>1, <4>1, FrameFacts
          <5> QED
            BY <3>3, <5>1, HandedOnIsWhole
        <4>4. UnitsAreWhole'
          BY <4>2, <4>3 DEF UnitsAreWhole
        <4> QED
          BY <2>1, <4>2, <4>4 DEF ParsedInv
      <3> QED
        BY <2>4, <3>4, <3>5
    <2>5. CASE Unsupported(p)
      <3>1. pos = 0
        BY <1>1, <2>5, PacketUnits DEF Unsupported
      <3>2. m_curr_nalu' = m_curr_nalu /\ forwarded' = <<>> /\ flagPacketHasGoneMissing' = FlagFor(p)
        BY <2>5 DEF Unsupported
      <3>3. CASE lastSequenceNumber = NoSeq
        BY <1>1, <2>1, <3>2, <3>3 DEF ParsedInv, UnitsAreWhole
      <3>4. CASE lastSequenceNumber # NoSeq /\ ~FlagFor(p)
        <4>1. Consecutive /\ ~flagPacketHasGoneMissing
          BY <1>1, <3>4 DEF FlagFor, IsNext, Consecutive, VideoSetting
        <4>2. m_curr_nalu = <<>> \/ m_curr_nalu[1] # StartCode
          BY <3>1, <4>1 DEF FrameInv
        <4> QED
          BY <1>1, <2>1, <3>2, <4>2 DEF ParsedInv, UnitsAreWhole
      <3>5. CASE FlagFor(p)
        BY <1>1, <2>1, <3>2, <3>5 DEF ParsedInv, UnitsAreWhole
      <3> QED
        BY <3>3, <3>4, <3>5
    <2> QED
      BY <1>3, <2>2, <2>3, <2>4, <2>5 DEF ParseRTP, Duplicate
  <1> QED
    BY <1>2, <1>3 DEF ParseRTP

\* The encoder's step after a packet makes ParsedInv the invariant again.
LEMMA DeliverKeepsVideo ==
    ASSUME VideoSetting, VideoInv, NEW p, NEW copyFollows \in BOOLEAN,
           p = CurrentPacket \/ (p = UnsupportedPacket /\ pos = 0),
           Deliver(p, copyFollows)
    PROVE  VideoInv'
  <1>1. /\ rx = "recv" /\ rx' \in {"recv", "ended"} /\ ParseRTP(p) /\ dec' = dec
        /\ IF copyFollows THEN UNCHANGED stream ELSE Advance
    BY DEF Deliver
  <1>2. ReceiverInv /\ FrameInv /\ UnitsAreWhole
    BY <1>1 DEF VideoInv
  <1>3. ParsedInv
    BY <1>1, <1>2, ParseKeeps
  <1>4. /\ pos \in 0..4 /\ number \in 0..(SeqNumbers - 1) /\ gen \in Nat
        /\ number # NoSeq /\ dec \notin {"while", "open", "ended"}
    BY <1>1, <1>2, NextNumbers DEF ReceiverInv
  <1>5. CASE copyFollows
    <2>1. pos' = pos /\ number' = number /\ gen' = gen
      BY <1>1, <1>5 DEF stream
    <2>2. ReceiverInv'
      BY <1>1, <1>3, <1>4, <2>1 DEF ReceiverInv, ParsedInv
    <2>3. FrameInv'
      BY <1>3, <1>4, <2>1 DEF FrameInv, ParsedInv, Frame, Unit
    <2> QED
      BY <1>3, <2>2, <2>3 DEF VideoInv, ParsedInv
  <1>6. CASE ~copyFollows
    <2>1. /\ pos' = IF pos = 4 THEN 0 ELSE pos + 1
          /\ number' = (number + 1) % SeqNumbers /\ number' \in 0..(SeqNumbers - 1)
          /\ pos' # 0 => gen' = gen
          /\ gen' \in Nat
      <3>1. Advance
        BY <1>1, <1>6
      <3> QED
        BY <1>4, <3>1, AdvanceFacts DEF Advance
    <2>2. ReceiverInv'
      <3>1. pos' \in 0..4
        BY <1>4, <2>1
      <3> QED
        BY <1>1, <1>3, <1>4, <2>1, <3>1 DEF ReceiverInv, ParsedInv
    <2>3. Consecutive'
      BY <1>3, <2>1 DEF Consecutive, ParsedInv
    <2>4. FrameInv'
      <3>1. CASE pos \in {2, 3} /\ m_curr_nalu' = FirstPieces(Frame, pos - 1)
        <4>1. pos' \in {3, 4} /\ pos' - 2 = pos - 1 /\ Frame' = Frame
          BY <2>1, <3>1 DEF Frame, Unit
        <4> QED
          BY <2>3, <3>1, <4>1 DEF FrameInv
      <3> QED
        BY <1>3, <3>1 DEF FrameInv, ParsedInv
    <2> QED
      BY <1>3, <2>2, <2>4 DEF VideoInv, ParsedInv
  <1> QED
    BY <1>5, <1>6

\* A packet that is lost makes the gap the next one shows.
LEMMA LoseKeepsVideo ==
    ASSUME VideoInv, Lose
    PROVE  VideoInv'
  <1>1. /\ Advance /\ forwarded' = <<>> /\ rx' = rx /\ dec' = dec
        /\ UNCHANGED <<lastSequenceNumber, flagPacketHasGoneMissing, m_curr_nalu>>
        /\ rx = "recv" => (number + 1) % SeqNumbers # lastSequenceNumber
    BY DEF Lose, thread
  <1>2. ReceiverInv
    BY DEF VideoInv
  <1>3. /\ pos' = IF pos = 4 THEN 0 ELSE pos + 1
        /\ number' = (number + 1) % SeqNumbers /\ number' \in 0..(SeqNumbers - 1)
        /\ pos' # 0 => gen' = gen
        /\ gen' \in Nat /\ pos' \in 0..4 /\ number \in 0..(SeqNumbers - 1)
    BY <1>1, <1>2, AdvanceFacts DEF Advance, ReceiverInv
  <1>4. ReceiverInv'
    BY <1>1, <1>2, <1>3 DEF ReceiverInv
  <1>5. ASSUME rx = "recv" PROVE FrameInv'
    <2>1. FrameInv /\ lastSequenceNumber # number'
      BY <1>1, <1>3, <1>5 DEF VideoInv
    <2>2. CASE lastSequenceNumber = NoSeq
      BY <1>1, <1>2, <2>2 DEF ReceiverInv, FrameInv
    <2>3. CASE lastSequenceNumber = number
      <3>1. Consecutive' /\ ~Consecutive
        BY <1>1, <1>3, <2>3, NextNumbers DEF Consecutive
      <3>2. CASE pos \in {2, 3} /\ m_curr_nalu = FirstPieces(Frame, pos - 1)
        <4>1. pos' \in {3, 4} /\ pos' - 2 = pos - 1 /\ Frame' = Frame
          BY <1>3, <3>2 DEF Frame, Unit
        <4> QED
          BY <1>1, <3>1, <3>2, <4>1 DEF FrameInv
      <3> QED
        BY <1>1, <2>1, <2>3, <3>1, <3>2 DEF FrameInv
    <2>4. CASE lastSequenceNumber # NoSeq /\ lastSequenceNumber # number
      <3>1. ~Consecutive'
        <4>1. lastSequenceNumber \in 0..(SeqNumbers - 1)
          BY <1>2, <2>4 DEF ReceiverInv
        <4> QED
          BY <1>1, <1>3, <2>4, <4>1, NextNumbers DEF Consecutive
      <3> QED
        BY <1>1, <2>1, <3>1 DEF FrameInv
    <2> QED
      BY <2>2, <2>3, <2>4
  <1>6. UnitsAreWhole'
    BY <1>1 DEF UnitsAreWhole
  <1> QED
    BY <1>1, <1>4, <1>5, <1>6 DEF VideoInv

\* A step of the decode thread, the UI thread or the receive thread outside of
\* ParseRTP: the receiver begins and ends where the invariant says.
LEMMA ThreadsKeepVideo ==
    ASSUME VideoInv, UNCHANGED rtp, UNCHANGED stream,
           \/ rx' = rx /\ (dec' \in {"while", "open", "ended"} => dec \in {"while", "open", "ended"})
           \/ rx = "setup" /\ rx' \in {"recv", "ended", "failed"} /\ dec' = dec
           \/ rx = "recv" /\ rx' = "ended" /\ dec' = dec
           \/ dec = "open" /\ rx' = "setup" /\ dec' = "test"
    PROVE  VideoInv'
  <1>1. /\ UNCHANGED <<lastSequenceNumber, flagPacketHasGoneMissing, m_curr_nalu, forwarded>>
        /\ UNCHANGED <<pos, number, gen>>
    BY DEF rtp, stream
  <1>2. ReceiverInv /\ UnitsAreWhole
    BY DEF VideoInv
  <1>3. ReceiverInv'
    BY <1>1, <1>2 DEF ReceiverInv
  <1>4. rx' = "recv" => FrameInv'
    <2>1. CASE rx = "recv"
      BY <1>1, <2>1 DEF VideoInv, FrameInv, Consecutive, Frame, Unit
    <2>2. CASE rx = "setup"
      BY <1>1, <1>2, <2>2 DEF ReceiverInv, FrameInv
    <2> QED
      BY <2>1, <2>2
  <1> QED
    BY <1>1, <1>2, <1>3, <1>4 DEF VideoInv, UnitsAreWhole

\* Every step keeps the invariant.
LEMMA NextVideoInv ==
    ASSUME VideoSetting, VideoInv, [Next]_vars
    PROVE  VideoInv'
  <1>1. ASSUME NEW copyFollows \in BOOLEAN, Deliver(CurrentPacket, copyFollows) PROVE VideoInv'
    BY <1>1, DeliverKeepsVideo
  <1>2. CASE pos = 0 /\ Deliver(UnsupportedPacket, FALSE)
    BY <1>2, DeliverKeepsVideo
  <1>3. CASE Lose
    BY <1>3, LoseKeepsVideo
  <1>4. CASE RxBind \/ RxFails \/ RxEnds
    BY <1>4, ThreadsKeepVideo DEF RxBind, RxFails, RxEnds
  <1>5. CASE SettingsChange \/ TerminateStep \/ UNCHANGED vars
    BY <1>5, ThreadsKeepVideo DEF SettingsChange, TerminateStep, vars, thread
  <1>6. CASE ConstantDecode \/ OpenDecoder \/ OpenFails
    BY <1>6, ThreadsKeepVideo DEF ConstantDecode, OpenDecoder, OpenFails, thread
  <1>7. CASE TestFlags \/ ClearRestart \/ FeedConfig \/ FeedFrame \/ StopReceiving
    BY <1>7, ThreadsKeepVideo DEF TestFlags, ClearRestart, FeedConfig, FeedFrame, StopReceiving, thread
  <1>8. CASE JoinAndDestroy
    <2>1. /\ rx' = "none" /\ lastSequenceNumber' = NoSeq /\ m_curr_nalu' = <<>>
          /\ forwarded' = <<>> /\ UNCHANGED <<pos, number, gen>>
      BY <1>8 DEF JoinAndDestroy, stream
    <2> QED
      BY <2>1 DEF VideoInv, ReceiverInv, UnitsAreWhole
  <1> QED
    BY <1>1, <1>2, <1>3, <1>4, <1>5, <1>6, <1>7, <1>8 DEF Next, Decode

\* "incomplete rtp fragments are dropped" (ParseRTP.h:17), in the program: whatever
\* packets are lost or doubled, whenever the decode thread ends the receive thread
\* in the middle of a frame and starts another one, the upper level gets complete
\* units of an H264 stream.
THEOREM VideoUnitsAreWhole ==
    ASSUME VideoSetting
    PROVE  Spec => []UnitsAreWhole
  <1>1. Init => VideoInv
    <2> SUFFICES ASSUME Init PROVE VideoInv
      OBVIOUS
    <2>1. 0 \in 0..(SeqNumbers - 1)
      BY RtpAssumption, SeqAssumption DEF RtpAssumption
    <2> QED
      BY <2>1 DEF Init, RtpInit, VideoInv, ReceiverInv, UnitsAreWhole, NoSeq
  <1>2. VideoInv /\ [Next]_vars => VideoInv'
    BY NextVideoInv
  <1>3. VideoInv => UnitsAreWhole
    BY DEF VideoInv
  <1> QED
    BY <1>1, <1>2, <1>3, PTL DEF Spec
=============================================================================
