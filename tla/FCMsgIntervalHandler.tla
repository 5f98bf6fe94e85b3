------------------------ MODULE FCMsgIntervalHandler ------------------------
(***************************************************************************)
(* FCMsgIntervalHandler (telemetry/action/fcmsgintervalhandler.cpp) sets   *)
(* the rates of N messages on the FC, one COMMAND_LONG after the other, as *)
(* a client of CmdSender.                                                  *)
(*                                                                         *)
(* opt_send_messages runs on the telemetry receive thread, on every        *)
(* message of the FC; restart on the UI thread; the result callback on the *)
(* receive thread (an ack) or on CmdSender's timeout thread.  m_mutex      *)
(* makes each of them one step.  CmdSender is the RequestQueue it is shown *)
(* to implement: its retransmissions are left to it.  All rate commands    *)
(* have the same command id, so an ack completes the first of them that is *)
(* queued.  Request k is the k-th rate command that was enqueued.          *)
(***************************************************************************)
EXTENDS Integers, FiniteSets

CONSTANTS
    N,             \* m_intervals.size()
    MaxRestarts,   \* how often the user changes the rates
    Limit,         \* MAX_N_SIMULTANOEUS_COMMANDS
    Others         \* requests of the other clients of CmdSender

ASSUME IntervalAssumption ==
    /\ N \in Nat \ {0} /\ MaxRestarts \in Nat /\ Limit \in Nat \ {0}
    /\ Others \cap Nat = {}

\* No generation of rates needs more than N commands.
Rates    == 1..(N * (MaxRestarts + 1))
AllRequests == Rates \cup Others

VARIABLES
    phase,         \* of every request, see RequestQueue
    ready,         \* m_ready_for_next_command
    next,          \* m_next_rate_index
    enabled,       \* the setting set_mavlink_message_rates
    sent,          \* how many rate commands were enqueued
    index, gen,    \* [Rates -> Nat], the message and the rates a command is for
    result,        \* [Rates -> ...], the result of an answered command
    reported,      \* "FC message interval(s) set" was shown for the latest rates
    restarts       \* how often the rates were changed

queueVars == <<phase, sent, index, gen, result>>
intervalVars == <<queueVars, ready, next, enabled, reported, restarts>>

Queue == INSTANCE RequestQueue WITH Requests <- AllRequests

IntervalInit ==
    /\ Queue!Init
    /\ ready = TRUE /\ next = 0 /\ enabled = TRUE
    /\ sent = 0
    /\ index = [r \in Rates |-> 0] /\ gen = [r \in Rates |-> 0]
    /\ result = [r \in Rates |-> "none"]
    /\ reported = FALSE /\ restarts = 0

InFlight == {r \in Rates : phase[r] \in {"queued", "answered", "exhausted"}}

-----------------------------------------------------------------------------
(* The handler                                                             *)

\* m_next_rate_index < m_intervals.size()
MoreRates == next < N

\* CmdSender accepts the command of the next rate.
Enqueue ==
    /\ sent' = sent + 1
    /\ Queue!Accept(sent')
    /\ index' = [index EXCEPT ![sent'] = next]
    /\ gen' = [gen EXCEPT ![sent'] = restarts]
    /\ UNCHANGED result

\* Fault: the index moves on although the command was refused.
SendNextSkipping ==
    /\ MoreRates /\ next' = next + 1
    /\ \/ Enqueue /\ ready' = FALSE
       \/ Cardinality(Queue!Queued) = Limit /\ UNCHANGED <<queueVars, ready>>
    /\ UNCHANGED reported

\* Fault: the next command does not wait for the result.
SendNextAtOnce == MoreRates /\ Enqueue /\ next' = next + 1 /\ UNCHANGED <<ready, reported>>

\* Enqueue the command of the next rate.  When CmdSender refuses it nothing
\* changes, and the next message of the FC makes the next attempt.
SendNext ==
    /\ MoreRates
    /\ Enqueue
    /\ ready' = FALSE
    /\ next' = next + 1
    /\ UNCHANGED reported

\* Fault: done, again and again.
ReportDoneForever ==
    ~MoreRates /\ reported' = TRUE /\ UNCHANGED <<queueVars, next, ready>>

\* "we are done"
ReportDone ==
    /\ ~MoreRates
    /\ reported' = TRUE
    /\ ready' = FALSE
    /\ UNCHANGED <<queueVars, next>>

OptSendMessages ==
    /\ enabled
    /\ ready
    /\ SendNext \/ ReportDone
    /\ UNCHANGED <<enabled, restarts>>

\* What the result callback assigns to m_ready_for_next_command.
ReadyAfter(accepted) == accepted

\* The result callback of a rate command.
ResultCallback(r) ==
    /\ Queue!Call(r)
    /\ ready' = ReadyAfter(phase[r] = "answered" /\ result[r] = "accepted")
    /\ UNCHANGED <<next, enabled, sent, index, gen, result, reported, restarts>>

\* restart, after the user changed a rate.
Restart ==
    /\ restarts < MaxRestarts /\ restarts' = restarts + 1
    /\ next' = 0
    /\ ready' = TRUE
    /\ reported' = FALSE
    /\ UNCHANGED <<queueVars, enabled>>

\* The user switches the feature on or off; the handler reads it every time.
ToggleSetting ==
    /\ enabled' = ~enabled
    /\ UNCHANGED <<queueVars, ready, next, reported, restarts>>

-----------------------------------------------------------------------------
(* CmdSender and its other clients                                         *)

\* No ack came in time.
GiveUp(r) ==
    /\ phase[r] = "queued"
    /\ phase' = [phase EXCEPT ![r] = "exhausted"]
    /\ UNCHANGED <<sent, index, gen, result, ready, next, enabled, reported, restarts>>

\* An ack, whichever rate it is meant for, completes the first queued command.
HandleAck(a) ==
    /\ \E r \in Rates :
          /\ phase[r] = "queued"
          /\ \A q \in Rates : q < r => phase[q] # "queued"
          /\ phase' = [phase EXCEPT ![r] = "answered"]
          /\ result' = [result EXCEPT ![r] = a]
    /\ UNCHANGED <<sent, index, gen, ready, next, enabled, reported, restarts>>

\* The requests of the other clients come and go.
OtherRequest(o) ==
    /\ Queue!Accept(o) \/ Queue!Refuse(o) \/ Queue!Decide(o) \/ Queue!Call(o)
    /\ UNCHANGED <<sent, index, gen, result, ready, next, enabled, reported, restarts>>

IntervalNext ==
    \/ OptSendMessages
    \/ Restart
    \/ ToggleSetting
    \/ \E r \in Rates : ResultCallback(r) \/ GiveUp(r)
    \/ \E a \in {"accepted", "denied"} : HandleAck(a)
    \/ \E o \in Others : OtherRequest(o)

IntervalSpec == IntervalInit /\ [][IntervalNext]_intervalVars

\* The FC keeps sending messages, CmdSender completes what it accepted and frees
\* its queue again.  (The user may leave the feature off: the properties say so.)
IntervalFairness ==
    /\ WF_intervalVars(OptSendMessages)
    /\ \A r \in Rates : WF_intervalVars(ResultCallback(r)) /\ WF_intervalVars(GiveUp(r))
    /\ \A o \in Others : WF_intervalVars(phase[o] # "idle" /\ OtherRequest(o))

IntervalFairSpec == IntervalSpec /\ IntervalFairness

-----------------------------------------------------------------------------
(* Properties                                                              *)

IntervalTypeOK ==
    /\ phase \in [AllRequests -> Queue!Phases]
    /\ ready \in BOOLEAN /\ enabled \in BOOLEAN /\ reported \in BOOLEAN
    /\ next \in 0..N
    /\ sent \in 0..(N * (MaxRestarts + 1))
    /\ restarts \in 0..MaxRestarts
    /\ index \in [Rates -> 0..(N - 1)]
    /\ gen \in [Rates -> 0..MaxRestarts]
    /\ result \in [Rates -> {"none", "accepted", "denied"}]

\* A restart may put one more command in flight, nothing else does: a command
\* is only sent on behalf of the first start, a restart or the callback of an
\* earlier command (fcmsgintervalhandler.cpp:22, 44, 55, 73).
InFlightBound == Cardinality(InFlight) + (IF ready THEN 1 ELSE 0) <= 1 + restarts

\* No rate is left out: the commands of the latest rates are those for the
\* messages 0 .. next - 1, each of which was enqueued, in spite of a full queue,
\* the setting being switched off and on, and callbacks of older rates.
NoRateSkipped ==
    {index[r] : r \in {q \in 1..sent : gen[q] = restarts}} = 0..(next - 1)

\* "stop in case one of them times out" (fcmsgintervalhandler.h:16): after a
\* command that was not accepted nothing is sent until a restart.
Failed(r) ==
    \/ phase[r] = "cb_exhausted"
    \/ phase[r] = "cb_answered" /\ result[r] = "denied"
StopsAfterFailure ==
    restarts = 0 => \A r \in 1..sent : Failed(r) => r = sent /\ ~ready /\ ~reported

\* Unless it is switched off or changed again, the handler comes to rest, with
\* all rates sent or a failure.
ComesToRest == []<>(~enabled) \/ <>[](~ready /\ InFlight = {})

\* "re-apply all rate(s)" (fcmsgintervalhandler.h:24): after a restart the first
\* rate is sent again.  Does not hold: the callback of an old command that failed
\* may clear the flag restart has set.
RestartReapplies ==
    \A g \in 1..MaxRestarts :
        (restarts = g) ~> (~enabled \/ restarts > g \/ \E r \in 1..sent : gen[r] = g)
=============================================================================
