--------------------------- MODULE CommandClients ---------------------------
(***************************************************************************)
(* The clients of CmdSender next to each other: the message interval       *)
(* handler, which works by itself on every message of the FC, and FCAction,*)
(* whose functions the user calls.  They share nothing but CmdSender, whose*)
(* list has room for Limit commands: each may find it full because of the  *)
(* other.  Others, the requests FCMsgIntervalHandler does not make, are the*)
(* calls of FCAction, and the other way round.                             *)
(***************************************************************************)
EXTENDS FCMsgIntervalHandler

CONSTANTS FlightModes, Arms               \* see FCAction

VARIABLES busy, told                      \* see FCAction

User == INSTANCE FCAction WITH Others <- Rates

ASSUME UserAssumption ==
    /\ FlightModes \cap Arms = {}
    /\ Others = FlightModes \cup Arms

userVars == <<busy, told>>
rateVars == <<sent, index, gen, result, ready, next, enabled, reported, restarts>>
clientVars == <<intervalVars, userVars>>

ClientsInit == IntervalInit /\ User!Init

RateStep ==
    /\ \/ OptSendMessages \/ Restart \/ ToggleSetting
       \/ \E r \in Rates : ResultCallback(r) \/ GiveUp(r)
       \/ \E a \in {"accepted", "denied"} : HandleAck(a)
    /\ UNCHANGED userVars

\* CmdSender decides a command of the user.
UserDecided(c) == Queue!Decide(c) /\ UNCHANGED userVars

UserStep ==
    /\ \/ \E f \in FlightModes : User!FlightModeCmdAsync(f)
       \/ \E c \in Arms : User!ArmFcAsync(c)
       \/ \E c \in Others : User!ResultCallback(c) \/ UserDecided(c)
    /\ UNCHANGED rateVars

ClientsNext == RateStep \/ UserStep

ClientsSpec == ClientsInit /\ [][ClientsNext]_clientVars

\* The FC keeps sending messages, and CmdSender decides what it accepted and calls
\* back (EveryCommandCompletes of CmdSender); the user and the FC owe nothing.
ClientsFairSpec ==
    /\ ClientsSpec
    /\ WF_clientVars(OptSendMessages /\ UNCHANGED userVars)
    /\ \A r \in Rates :
          WF_clientVars((ResultCallback(r) \/ GiveUp(r)) /\ UNCHANGED userVars)
    /\ \A c \in Others :
          WF_clientVars((User!ResultCallback(c) \/ UserDecided(c)) /\ UNCHANGED rateVars)

-----------------------------------------------------------------------------
(* Properties: those of the two clients, while they compete for the list.  *)

ClientsTypeOK == IntervalTypeOK /\ User!TypeOK

\* Two changes of the flight mode are never in flight together, so that the
\* acks, which do not name the mode, cannot be taken for one another; while one
\* is in flight the flag is set, although the callbacks that clear it run on
\* two other threads (fcaction.cpp:56, 70, 72).
OneChangeAtATime == User!OneChangeAtATime

\* The user is told the result of every flight mode command that was given
\* (fcaction.cpp:62-76), the list being full included.
UserIsTold == User!UserIsTold
=============================================================================
