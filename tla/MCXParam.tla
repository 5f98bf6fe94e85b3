------------------------------ MODULE MCXParam ------------------------------
(* Instances of XParam for TLC.                                            *)
EXTENDS XParam

CONSTANTS s1, g1, g2,           \* calls
          air, p                \* a server and a parameter

\* A set and two get-alls of one server, which also sends impossible responses.
GetServer  == s1 :> air @@ g1 :> air @@ g2 :> air
GetParam   == s1 :> p
GetWanted  == s1 :> 2 @@ g1 :> 2 @@ g2 :> 1
GetAnswers == {<<s1, "accepted">>}
GetCount   == air :> 2
Impossible == {[from |-> air, count |-> 0, index |-> 0],
               [from |-> air, count |-> 2, index |-> 2]}
=============================================================================
