--------------------------- MODULE AliveDetection ---------------------------
(***************************************************************************)
(* How QOpenHD decides that a system is alive: AOHDSystem::update_alive    *)
(* (air and ground unit) and FCMavlinkSystem::update_alive.                *)
(*                                                                         *)
(* The telemetry receive thread stores the time of every message.  Once a  *)
(* second the UI thread subtracts that time from the current one.  The     *)
(* clock is a uint64_t, so the difference is one, too, and the two         *)
(* operands are read in either order, with the receive thread in between.  *)
(***************************************************************************)
EXTENDS Integers

CONSTANTS
    AliveFor,      \* the limit of update_alive (air 3 s, ground 2 s, FC 4 s)
    MaxTime        \* bound: the clock stops here

\* 2^64, scaled with the clock: larger than every time.
Word == 2 * MaxTime + 2

Never == -1

VARIABLES
    now,           \* the steady clock
    last,          \* m_last_message_ms / m_last_heartbeat_ms
    pc,            \* update_alive: "idle", "time_read" or "last_read"
    timeRead,      \* the operands it has read
    lastRead,
    alive,         \* m_is_alive
    hud            \* the latest message about it in the HUD

vars == <<now, last, pc, timeRead, lastRead, alive, hud>>

Init ==
    /\ now = 0 /\ last = Never
    /\ pc = "idle" /\ timeRead = 0 /\ lastRead = Never
    /\ alive = FALSE /\ hud = "none"

Tick ==
    /\ now < MaxTime /\ now' = now + 1
    /\ UNCHANGED <<last, pc, timeRead, lastRead, alive, hud>>

\* The receive thread: process_message.
Message ==
    /\ last' = now
    /\ UNCHANGED <<now, pc, timeRead, lastRead, alive, hud>>

-----------------------------------------------------------------------------
(* update_alive, on the UI thread                                          *)

\* update_alive_status_with_hud_message: a change is reported.
Report(nowAlive) ==
    /\ alive' = nowAlive
    /\ hud' = CASE nowAlive = alive -> hud
                [] nowAlive /\ ~alive -> "connected"
                [] ~nowAlive /\ alive -> "disconnected"

\* Nothing was received yet.
UpdateAliveUnknown ==
    /\ pc = "idle" /\ last = Never
    /\ Report(FALSE)
    /\ UNCHANGED <<now, last, pc, timeRead, lastRead>>

ReadTimeFirst ==
    /\ pc = "idle" /\ last # Never
    /\ pc' = "time_read" /\ timeRead' = now
    /\ UNCHANGED <<now, last, lastRead, alive, hud>>

ReadLastFirst ==
    /\ pc = "idle" /\ last # Never
    /\ pc' = "last_read" /\ lastRead' = last
    /\ UNCHANGED <<now, last, timeRead, alive, hud>>

\* The difference of two uint64_t.
Minus(a, b) == (a - b) % Word

\* Fault: alive for good.
IsAliveForGood(elapsed) == TRUE
IsAlive(elapsed) == elapsed < AliveFor

Decide(a, b) ==
    /\ Report(IsAlive(Minus(a, b)))
    /\ pc' = "idle" /\ timeRead' = 0 /\ lastRead' = Never
    /\ UNCHANGED <<now, last>>

\* The second operand is read and the difference taken.
UpdateAlive ==
    \/ pc = "time_read" /\ Decide(timeRead, last)
    \/ pc = "last_read" /\ Decide(now, lastRead)

Next ==
    \/ Tick \/ Message
    \/ UpdateAliveUnknown \/ ReadTimeFirst \/ ReadLastFirst \/ UpdateAlive

Spec == Init /\ [][Next]_vars

\* The alive timer fires once a second and its handler runs to its end.
Fairness == WF_vars(ReadTimeFirst \/ ReadLastFirst) /\ WF_vars(UpdateAlive) /\ WF_vars(Tick)

FairSpec == Spec /\ Fairness

-----------------------------------------------------------------------------
(* Properties                                                              *)

TypeOK ==
    /\ now \in 0..MaxTime /\ timeRead \in 0..MaxTime
    /\ last \in {Never} \cup 0..MaxTime /\ lastRead \in {Never} \cup 0..MaxTime
    /\ pc \in {"idle", "time_read", "last_read"}
    /\ alive \in BOOLEAN /\ hud \in {"none", "connected", "disconnected"}

\* The HUD and the property tell the same story, whatever the threads do
\* (aohdsystem.cpp:791, 826; fcmavlinksystem.cpp:846-850).
HudIsRight ==
    CASE hud = "connected" -> alive
      [] hud = "disconnected" -> ~alive
      [] hud = "none" -> ~alive

\* A system that stays silent is eventually shown as such (aohdsystem.cpp:785).
SilenceIsNoticed ==
    <>[](last # Never /\ now - last >= AliveFor) => <>[]~alive

\* "we consider the system alive if any message coming from it has come through"
\* (aohdsystem.cpp:775): it is not declared dead on a message that just came.
\* Does not hold: the time of a message may be later than the clock that was read.
DeadOnlyAfterSilence == [][alive /\ ~alive' => now - last >= AliveFor]_vars
=============================================================================
