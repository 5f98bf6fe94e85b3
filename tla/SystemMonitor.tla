--------------------------- MODULE SystemMonitor ---------------------------
(***************************************************************************)
(* The dispatch of messages together with the alive detection of one of    *)
(* the OpenHD units: the messages that process_mavlink_message hands on to *)
(* the unit's AOHDSystem are those whose time update_alive looks at.       *)
(***************************************************************************)
EXTENDS MavlinkTelemetry

CONSTANTS
    Watched,                  \* Air or Ground
    AliveFor, MaxTime         \* see AliveDetection

VARIABLES now, last, pc, timeRead, lastRead, alive, hud      \* see AliveDetection

Unit == INSTANCE AliveDetection

ASSUME MonitorAssumption ==
    /\ Watched \in {Air, Ground}
    /\ AliveFor \in Nat \ {0} /\ MaxTime \in Nat /\ AliveFor <= MaxTime

unitVars == <<now, last, pc, timeRead, lastRead, alive, hud>>
monitorVars == <<vars, unitVars>>

MonitorInit == Init /\ Unit!Init

\* Fault: the messages of both units count.
HandOnAny(s) == IF IsUnit(s) THEN Unit!Message ELSE UNCHANGED unitVars
\* AOHDSystem::process_message of the watched unit.
HandOn(s) == IF Sys(s) = Watched THEN Unit!Message ELSE UNCHANGED unitVars

\* Messages that are consumed before, as acks and timesync answers, do not count.
MonitorNext ==
    \/ \E s \in Senders : ProcessMessage(s) /\ HandOn(s)
    \/ /\ \/ \E s \in Senders : Consumed(s)
          \/ \E s \in Senders, ts \in 1..MaxPings : TimesyncAnswer(s, ts)
          \/ ping_all_systems
       /\ UNCHANGED unitVars
    \/ /\ \/ Unit!Tick \/ Unit!UpdateAliveUnknown \/ Unit!ReadTimeFirst
          \/ Unit!ReadLastFirst \/ Unit!UpdateAlive
       /\ UNCHANGED vars

MonitorSpec == MonitorInit /\ [][MonitorNext]_monitorVars

\* The alive timer fires once a second, its handler runs to its end, time passes.
MonitorFairSpec ==
    /\ MonitorSpec
    /\ WF_monitorVars((Unit!ReadTimeFirst \/ Unit!ReadLastFirst) /\ UNCHANGED vars)
    /\ WF_monitorVars(Unit!UpdateAlive /\ UNCHANGED vars)
    /\ WF_monitorVars(Unit!Tick /\ UNCHANGED vars)

-----------------------------------------------------------------------------
(* Properties                                                              *)

MonitorTypeOK == TypeOK /\ Unit!TypeOK

\* The HUD and the property tell the same story, whatever the threads do
\* (aohdsystem.cpp:791, 826; fcmavlinksystem.cpp:846-850).
HudIsRight == Unit!HudIsRight

\* A unit is shown as connected only after a message of this very unit, so its
\* settings can be fetched: set_ready was called before (MavlinkTelemetry.cpp:126,
\* aohdsystem.cpp:785).
ConnectedIsDiscovered == alive => Watched \in ready

\* A unit that stays silent is eventually shown as such (aohdsystem.cpp:785).
SilenceIsNoticed == Unit!SilenceIsNoticed
=============================================================================
