-------------------------- MODULE MavlinkTelemetry --------------------------
(***************************************************************************)
(* The dispatch of incoming messages (MavlinkTelemetry::                   *)
(* process_mavlink_message): discovery of the units and of the FC, pings,  *)
(* and who gets a message.  A mutex makes it one step of whichever         *)
(* connection received the message; ping_all_systems and get_fc_mav_id     *)
(* run on the UI thread.                                                   *)
(***************************************************************************)
EXTENDS Integers, FiniteSets

CONSTANTS
    Senders,       \* <<system id, component id>> of everybody on the link
    Air, Ground,   \* OHD_SYS_ID_AIR, OHD_SYS_ID_GROUND
    Autopilot,     \* MAV_COMP_ID_AUTOPILOT1
    SystemControl, \* MAV_COMP_ID_SYSTEM_CONTROL
    MaxPings       \* bound: calls of ping_all_systems

ASSUME ConstantsAssumption ==
    /\ Senders \subseteq (0..255) \X (0..255)
    /\ Air \in 2..254 /\ Ground \in 2..254 /\ Air # Ground
    /\ Autopilot \in 0..255 /\ SystemControl \in 0..255 /\ MaxPings \in Nat

Sys(s)  == s[1]
Comp(s) == s[2]
Unknown == -1
Invalid == 255     \* UINT8_MAX, which set_system_id refuses

VARIABLES
    ready,         \* the units whose settings models are ready
    fcFound,       \* m_fc_found
    fcId,          \* m_fc_sys_id, m_fc_comp_id
    discovered,    \* FCMavlinkSystem::m_discovered
    fcModelSys,    \* FCMavlinkSystem::m_sys_id
    fcSources,     \* the systems whose messages the FC model got (ghost)
    pings,         \* pings sent; m_last_timesync_out_us is the time of the last
    shown          \* [{"air", "ground", "fc"} -> the ping whose result is shown]

vars == <<ready, fcFound, fcId, discovered, fcModelSys, fcSources, pings, shown>>

Init ==
    /\ ready = {}
    /\ fcFound = FALSE /\ fcId = <<Unknown, Unknown>>
    /\ discovered = FALSE /\ fcModelSys = Unknown /\ fcSources = {}
    /\ pings = 0 /\ shown = [u \in {"air", "ground", "fc"} |-> 0]

IsUnit(s) == Sys(s) \in {Air, Ground}
Shows(s)  == CASE Sys(s) = Air -> "air" [] Sys(s) = Ground -> "ground" [] ~IsUnit(s) -> "fc"

\* An autopilot, Betaflight or INAV.
LooksLikeFc(s) ==
    \/ Comp(s) = Autopilot
    \/ Sys(s) = 0
    \/ Comp(s) = SystemControl /\ Sys(s) = 1

\* Fault: the FC model follows every message.
DiscoverAlways(s) ==
    /\ fcFound' = (fcFound \/ LooksLikeFc(s)) /\ ready' = ready
    /\ fcId' = (IF ~fcFound /\ LooksLikeFc(s) THEN s ELSE fcId)
    /\ discovered' = TRUE /\ fcModelSys' = Sys(s)
\* FCMavlinkSystem::set_system_id: the FC model does not take the last id.
set_system_id(sys) ==
    IF sys < Invalid THEN fcModelSys' = sys /\ discovered' = TRUE
                     ELSE UNCHANGED <<fcModelSys, discovered>>

\* The units are ready, the first system that looks like an FC is the FC, whatever
\* set_system_id returns.
Discover(s) ==
    \/ /\ IsUnit(s) /\ ready' = ready \cup {Sys(s)}
       /\ UNCHANGED <<fcFound, fcId, discovered, fcModelSys>>
    \/ /\ ~IsUnit(s) /\ ~fcFound /\ LooksLikeFc(s)
       /\ set_system_id(Sys(s))
       /\ fcId' = s /\ fcFound' = TRUE
       /\ UNCHANGED ready
    \/ /\ ~IsUnit(s) /\ (fcFound \/ ~LooksLikeFc(s))
       /\ UNCHANGED <<ready, fcFound, fcId, discovered, fcModelSys>>

\* Fault: any answer is taken for one to the last ping.
AnyTimesync(ts) == TRUE
\* timesync.ts1==m_last_timesync_out_us
LastTimesync(ts) == ts = pings

\* process_message_timesync: an answer to ping ts, late perhaps.
TimesyncAnswer(s, ts) ==
    /\ ts \in 1..pings
    /\ Discover(s)
    /\ shown' = IF LastTimesync(ts) THEN [shown EXCEPT ![Shows(s)] = ts] ELSE shown
    /\ UNCHANGED <<fcSources, pings>>

\* Any other message, unless CmdSender or XParam consumes it.
ProcessMessage(s) ==
    /\ Discover(s)
    /\ fcSources' = IF ~IsUnit(s) /\ discovered' /\ fcModelSys' = Sys(s)
                      THEN fcSources \cup {Sys(s)} ELSE fcSources
    /\ UNCHANGED <<pings, shown>>

\* One that is consumed, or a timesync request of somebody else.
Consumed(s) ==
    /\ Discover(s)
    /\ UNCHANGED <<fcSources, pings, shown>>

ping_all_systems ==
    /\ pings < MaxPings /\ pings' = pings + 1
    /\ UNCHANGED <<ready, fcFound, fcId, discovered, fcModelSys, fcSources, shown>>

\* get_fc_mav_id: its members are comp_id and sys_id, in this order, and are
\* initialised with the system id and the component id.
get_fc_mav_id ==
    IF fcFound THEN [comp_id |-> fcId[1], sys_id |-> fcId[2]]
               ELSE [comp_id |-> 1, sys_id |-> Autopilot]

Next ==
    \/ \E s \in Senders : ProcessMessage(s) \/ Consumed(s)
    \/ \E s \in Senders, ts \in 1..MaxPings : TimesyncAnswer(s, ts)
    \/ ping_all_systems

Spec == Init /\ [][Next]_vars

-----------------------------------------------------------------------------
(* Properties                                                              *)

TypeOK ==
    /\ ready \subseteq {Air, Ground}
    /\ fcFound \in BOOLEAN /\ fcId \in Senders \cup {<<Unknown, Unknown>>}
    /\ discovered \in BOOLEAN /\ fcModelSys \in {Unknown} \cup 0..254
    /\ fcSources \subseteq 0..255
    /\ pings \in 0..MaxPings /\ shown \in [{"air", "ground", "fc"} -> 0..MaxPings]

\* With several systems on the link, the FC model and the sender of commands have
\* the same FC in mind, unless the FC has the one id the model refuses: then the model
\* has none and takes no messages.  It never mixes the messages of two systems
\* (MavlinkTelemetry.cpp:135-156, 192-198, fcmavlinksystem.cpp:518-528).
OneFc ==
    /\ discovered <=> fcFound /\ fcId[1] # Invalid
    /\ discovered => fcModelSys = fcId[1]
    /\ \A s \in fcSources : discovered /\ s = fcId[1] /\ s \notin {Air, Ground}

\* Whoever was found is the FC of the model, too, whose messages are shown.  Does not
\* hold: m_fc_found is set for a system the model has refused, and for good.
FoundIsDiscovered == fcFound => discovered

\* A gimbal, a camera or another ground station is never taken for the FC.
FcIsAnFc ==
    fcFound => /\ ~IsUnit(fcId)
               /\ \/ fcId[2] = Autopilot
                  \/ fcId[1] = 0
                  \/ fcId[1] = 1 /\ fcId[2] = SystemControl

\* A late answer never replaces the result of a later ping
\* (MavlinkTelemetry.cpp:246).
PingsDoNotGoBack == [][\A u \in DOMAIN shown : shown'[u] >= shown[u]]_vars

\* "Returns default FC sys / comp id until FC is successfully discovered"
\* (MavlinkTelemetry.h:55), then those of the FC: commands are addressed to it.
\* Does not hold: the two ids are swapped.
CommandsAddressTheFc ==
    fcFound => get_fc_mav_id.sys_id = fcId[1] /\ get_fc_mav_id.comp_id = fcId[2]
=============================================================================
