----------------------------- MODULE RtpDecoder -----------------------------
(***************************************************************************)
(* RTPDecoder (videostreaming/vscommon/rtp/ParseRTP.cpp): puts the units   *)
(* of an H264 or H265 stream together from RTP packets and hands them to   *)
(* its callback.                                                           *)
(*                                                                         *)
(* A packet carries whole units (one, or several aggregated) or one piece  *)
(* of a fragmented unit.  The bytes of a unit are the sequence of its      *)
(* pieces.  The decoder runs on the thread that receives the packets.      *)
(***************************************************************************)
EXTENDS Integers, Sequences

CONSTANTS
    IsH265,            \* parseRTPH265toNALU, or parseRTPH264toNALU
    FeedIncomplete,    \* m_feed_incomplete_frames, a developer's option
    SeqNumbers,        \* UINT16_MAX + 1, scaled
    MaxLen             \* NALU_MAXLEN, in pieces

ASSUME RtpAssumption ==
    /\ IsH265 \in BOOLEAN /\ FeedIncomplete \in BOOLEAN
    /\ SeqNumbers \in Nat \ {0} /\ MaxLen \in Nat \ {0}

VARIABLES
    lastSequenceNumber,
    flagPacketHasGoneMissing,
    m_curr_nalu,       \* the first m_nalu_data_length bytes of it
    forwarded          \* what the callback gets while a packet is parsed, in order

rtp == <<lastSequenceNumber, flagPacketHasGoneMissing, m_curr_nalu, forwarded>>

NoSeq == -1

\* The bytes of a unit, and the 0,0,0,1 in front of them.
Bytes(u) == [i \in 1..u.size |-> <<u, i>>]
StartCode == <<[size |-> 0], 0>>

RtpInit ==
    /\ lastSequenceNumber = NoSeq /\ flagPacketHasGoneMissing = FALSE
    /\ m_curr_nalu = <<>> /\ forwarded = <<>>

-----------------------------------------------------------------------------
(* validateRTPPacket                                                       *)

SameSeqNr(p) == p.seq = lastSequenceNumber

IsNext(p) == p.seq = (lastSequenceNumber + 1) % SeqNumbers

\* Fault: a gap is not noticed.
FlagUnchanged(p) == flagPacketHasGoneMissing
\* The flag once the packet is validated.
FlagFor(p) ==
    IF lastSequenceNumber = NoSeq THEN FALSE
    ELSE IF ~IsNext(p) THEN ~FeedIncomplete
    ELSE flagPacketHasGoneMissing

-----------------------------------------------------------------------------
(* The buffer                                                              *)

\* append_nalu_data: what does not fit is left out.
append_nalu_data(nalu, bytes) ==
    IF Len(nalu) + Len(bytes) > MaxLen THEN nalu ELSE nalu \o bytes

\* forwardNALU: without a start code, or with nothing behind it, nothing is
\* handed on.
forwardNALU(nalu) ==
    IF Len(nalu) >= 2 /\ nalu[1] = StartCode THEN <<Tail(nalu)>> ELSE <<>>

-----------------------------------------------------------------------------
(* parseRTPH264toNALU, parseRTPH265toNALU                                  *)

\* One unit or several aggregated ones.  They came in one packet: they fit.
WholeUnits(p) ==
    /\ p.kind = "whole"
    /\ flagPacketHasGoneMissing' = FALSE
    /\ m_curr_nalu' = <<>>
    /\ forwarded' = [k \in DOMAIN p.units |-> Bytes(p.units[k])]

FuStart(p) ==
    /\ p.kind = "start"
    /\ flagPacketHasGoneMissing' = FALSE
    /\ m_curr_nalu' = append_nalu_data(<<StartCode>>, <<p.piece>>)
    /\ forwarded' = <<>>

FuMiddle(p) ==
    /\ p.kind = "middle"
    /\ flagPacketHasGoneMissing' = FlagFor(p)
    /\ m_curr_nalu' = append_nalu_data(m_curr_nalu, <<p.piece>>)
    /\ forwarded' = <<>>

\* H265 does not look at the flag.
FuEnd(p) ==
    /\ p.kind = "end"
    /\ flagPacketHasGoneMissing' = FlagFor(p)
    /\ m_curr_nalu' = <<>>
    /\ forwarded' = IF FlagFor(p) /\ ~IsH265 THEN <<>>
                    ELSE forwardNALU(append_nalu_data(m_curr_nalu, <<p.piece>>))

\* A type of packet that is not supported is only validated.
Unsupported(p) ==
    /\ p.kind = "unsupported"
    /\ flagPacketHasGoneMissing' = FlagFor(p)
    /\ forwarded' = <<>> /\ UNCHANGED m_curr_nalu

Duplicate(p) ==
    /\ SameSeqNr(p)
    /\ forwarded' = <<>>
    /\ UNCHANGED <<lastSequenceNumber, flagPacketHasGoneMissing, m_curr_nalu>>

ParseRTP(p) ==
    \/ Duplicate(p)
    \/ /\ ~SameSeqNr(p)
       /\ lastSequenceNumber' = p.seq
       /\ WholeUnits(p) \/ FuStart(p) \/ FuMiddle(p) \/ FuEnd(p) \/ Unsupported(p)

-----------------------------------------------------------------------------
(* Properties                                                              *)

IsUnit(nalu) == nalu # <<>> /\ nalu = Bytes(nalu[1][1])

\* "this decoder can deal with lost packets (incomplete rtp fragments are
\* dropped)" (ParseRTP.h:17): what is handed on are complete units, whatever
\* is lost, doubled or late, and wherever in a unit the reception begins.
\* H265 breaks this: see FuEnd.
UnitsAreWhole == \A k \in DOMAIN forwarded : IsUnit(forwarded[k])
=============================================================================
