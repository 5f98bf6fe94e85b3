----------------------------- MODULE RtpStream ------------------------------
(***************************************************************************)
(* The RTPDecoder on an unreliable link: any packet of the stream may come *)
(* next, so packets are lost, doubled and reordered, up to half the range  *)
(* of the sequence numbers.                                                *)
(***************************************************************************)
EXTENDS RtpDecoder

CONSTANTS
    Stream,    \* Stream[n]: what the n-th packet carries
    Indices    \* the packets that are looked at, a set of naturals

VARIABLE at    \* the packet that came last, NoSeq before the first (ghost)

streamVars == <<rtp, at>>

Packet(n) == [seq |-> n % SeqNumbers, kind |-> Stream[n].kind,
              units |-> Stream[n].units, piece |-> Stream[n].piece]

\* Less than half the range of the sequence numbers away from the last one.
Near(n) == at = NoSeq \/ (2 * (n - at) < SeqNumbers /\ 2 * (at - n) < SeqNumbers)

Arrives(n) ==
    /\ Near(n)
    /\ ParseRTP(Packet(n))
    /\ at' = n

StreamInit == RtpInit /\ at = NoSeq
StreamNext == \E n \in Indices : Arrives(n)
StreamSpec == StreamInit /\ [][StreamNext]_streamVars

-----------------------------------------------------------------------------
(* What a sender makes of its units                                        *)

IsPiece(n, u, i) ==
    Stream[n].piece = <<u, i>> /\ Stream[n].kind =
        (IF i = 1 THEN "start" ELSE IF i = u.size THEN "end" ELSE "middle")

\* A fragmented unit has two pieces or more and fits into the buffer; a piece is
\* followed by the next one.
IsStream ==
    /\ Indices \subseteq Nat
    /\ \A n \in Nat :
         /\ Stream[n].kind \in {"whole", "start", "middle", "end", "unsupported"}
         /\ Stream[n].kind = "whole" => \A k \in DOMAIN Stream[n].units : Stream[n].units[k].size \in Nat \ {0}
         /\ Stream[n].kind \in {"start", "middle", "end"} =>
              \E u \in {Stream[n].piece[1]}, i \in {Stream[n].piece[2]} :
                 /\ u.size \in Nat /\ i \in 1..u.size /\ 2 <= u.size /\ u.size < MaxLen
                 /\ IsPiece(n, u, i)
                 /\ i < u.size => IsPiece(n + 1, u, i + 1)
=============================================================================
