---------------------------- MODULE MCCmdSender ----------------------------
(* An instance of CmdSender for TLC.                                       *)
EXTENDS CmdSender

CONSTANTS r1, r2, r3,           \* requests
          reboot, interval      \* command ids

\* Three requests for a queue with room for two.  Two of them share a command id
\* (OHDAction reboots the air and the ground unit with the same one).
SharedIds     == r1 :> reboot @@ r2 :> reboot @@ r3 :> interval
SharedWanted  == r1 :> 2 @@ r2 :> 1 @@ r3 :> 1
SharedAnswers == {<<r2, "denied">>, <<r3, "accepted">>}
=============================================================================
