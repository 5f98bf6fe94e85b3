----------------------------- MODULE MCRtpStream ----------------------------
(* Instances of RtpStream for TLC: two parameter sets, a fragmented frame, *)
(* and so on, over and over.                                               *)
EXTENDS RtpStream

CONSTANT Last      \* the last packet

U(n, s) == [id |-> n, size |-> s]
Fragment(kind, u, i) == [kind |-> kind, units |-> <<>>, piece |-> <<u, i>>]
Whole(us) == [kind |-> "whole", units |-> us, piece |-> StartCode]

Parts == 6
MCStream == [n \in Nat |->
    LET big == U(n \div Parts, 3) IN
    CASE n % Parts = 0 -> Whole(<<U(n, 1), U(n + 1, 1)>>)
      [] n % Parts = 1 -> Fragment("start", big, 1)
      [] n % Parts = 2 -> Fragment("middle", big, 2)
      [] n % Parts = 3 -> Fragment("end", big, 3)
      [] n % Parts = 4 -> Fragment("start", U(n, 2), 1)
      [] n % Parts = 5 -> Fragment("end", U(n - 1, 2), 2)]
MCIndices == 0..Last
=============================================================================
