------------------------------ MODULE FCAction ------------------------------
(***************************************************************************)
(* FCAction (telemetry/action/fcaction.cpp): the commands the user gives   *)
(* to the FC.  flight_mode_cmd_async and arm_fc_async run on the UI thread,*)
(* their result callbacks on the telemetry receive thread or the timeout   *)
(* thread of CmdSender, which is the RequestQueue it is shown to implement *)
(* (its list is shared with OHDAction and the message interval handler).   *)
(***************************************************************************)
EXTENDS Naturals, FiniteSets

CONSTANTS
    FlightModes,   \* the calls of flight_mode_cmd_async
    Arms,          \* the calls of arm_fc_async
    Others,        \* the requests of the other clients of CmdSender
    Limit          \* MAX_N_SIMULTANOEUS_COMMANDS

Calls    == FlightModes \cup Arms
Requests == Calls \cup Others

VARIABLES
    phase,         \* of every request, see RequestQueue
    busy,          \* m_has_currently_runnning_flight_mode_change
    told           \* [Calls -> Messages], what the user was told of a call

vars == <<phase, busy, told>>

Queue == INSTANCE RequestQueue

Messages == {"none", "not_called", "invalid", "busy", "try_again_later",
             "not_reachable", "success", "unsupported"}

Init ==
    /\ Queue!Init
    /\ busy = FALSE
    /\ told = [c \in Calls |-> "not_called"]

Tell(c, message) == told' = [told EXCEPT ![c] = message]

-----------------------------------------------------------------------------
(* The UI thread                                                           *)

\* The early return on a change that is still running.
RejectsAsBusy(f) == busy

\* flight_mode_cmd_async.  "invalid" stands for the early returns on a negative
\* flight mode and on an FC that is not alive.  The flag is set before the command
\* is enqueued, and stays set when it cannot be.
FlightModeCmdAsync(f) ==
    /\ told[f] = "not_called"
    /\ \/ Tell(f, "invalid") /\ UNCHANGED <<phase, busy>>
       \/ RejectsAsBusy(f) /\ Tell(f, "busy") /\ UNCHANGED <<phase, busy>>
       \/ /\ ~RejectsAsBusy(f)
          /\ busy' = TRUE
          /\ \/ Queue!Accept(f) /\ Tell(f, "none")
             \/ Queue!Refuse(f) /\ Tell(f, "try_again_later")

\* arm_fc_async: what send_command_long_async returns is not looked at.
ArmFcAsync(c) ==
    /\ told[c] = "not_called"
    /\ \/ Tell(c, "invalid") /\ UNCHANGED phase
       \/ (Queue!Accept(c) \/ Queue!Refuse(c)) /\ Tell(c, "none")
    /\ UNCHANGED busy

-----------------------------------------------------------------------------
(* The receive thread and the timeout thread                               *)

\* What the callback tells the user: the ack accepts or denies, or there was none.
Outcome(c) ==
    IF phase[c] = "exhausted" THEN {"not_reachable"} ELSE {"success", "unsupported"}

\* The result callbacks; that of a flight mode change clears the flag.
ResultCallback(c) ==
    /\ Queue!Call(c)
    /\ \E message \in Outcome(c) : Tell(c, message)
    /\ busy' = (busy /\ c \notin FlightModes)

\* CmdSender decides a command; the requests of other clients come and go.
QueueStep ==
    /\ \/ \E c \in Calls : Queue!Decide(c)
       \/ \E o \in Others : Queue!Accept(o) \/ Queue!Decide(o) \/ Queue!Call(o)
    /\ UNCHANGED <<busy, told>>

Next ==
    \/ \E f \in FlightModes : FlightModeCmdAsync(f)
    \/ \E c \in Arms : ArmFcAsync(c)
    \/ \E c \in Calls : ResultCallback(c)
    \/ QueueStep

Spec == Init /\ [][Next]_vars

\* CmdSender decides what it accepted and calls back (EveryCommandCompletes of
\* CmdSender); nothing is assumed of the user or the FC.
Fairness ==
    \A c \in Calls : /\ WF_vars(Queue!Decide(c) /\ UNCHANGED <<busy, told>>)
                     /\ WF_vars(ResultCallback(c))

FairSpec == Spec /\ Fairness

-----------------------------------------------------------------------------
(* Properties                                                              *)

InFlight == {f \in FlightModes : phase[f] \in {"queued", "answered", "exhausted"}}

TypeOK ==
    /\ phase \in [Requests -> Queue!Phases]
    /\ busy \in BOOLEAN
    /\ told \in [Calls -> Messages]

\* Two changes of the flight mode are never in flight together, so that the
\* acks, which do not name the mode, cannot be taken for one another; while one
\* is in flight the flag is set, although the callbacks that clear it run on
\* two other threads (fcaction.cpp:56, 70, 72).
OneChangeAtATime == Cardinality(InFlight) <= 1 /\ (InFlight # {} => busy)

\* The user is told the result of every flight mode command that was given
\* (fcaction.cpp:62-76).
UserIsTold == \A f \in FlightModes : (told[f] = "none") ~> (told[f] # "none")

\* "Busy, please try again later" (fcaction.cpp:57): later it works again.
\* Does not hold: the flag stays set when the list of CmdSender was full.
BusyEnds == busy ~> ~busy
=============================================================================
