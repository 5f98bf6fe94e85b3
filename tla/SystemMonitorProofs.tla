------------------------ MODULE SystemMonitorProofs ------------------------
(***************************************************************************)
(* Proofs about the dispatch and the alive detection, for any set of       *)
(* senders and any limits: however many systems talk, in whatever order,   *)
(* one of them becomes the FC, it is an FC, all parts of the program agree *)
(* on it, and a unit is shown as connected only after it was heard.        *)
(***************************************************************************)
EXTENDS SystemMonitor, TLAPS

\* OneFc and FcIsAnFc together are inductive: the FC is chosen by one step, which
\* writes the five variables that OneFc relates and looks at what FcIsAnFc says,
\* and never chosen again.
FcInv == OneFc /\ FcIsAnFc

\* Initially no FC was found and its model has seen no message.
LEMMA InitFcInv == Init => FcInv
  BY DEF Init, FcInv, OneFc, FcIsAnFc

\* The discovery (MavlinkTelemetry.cpp:125-157) keeps the FC that was found, or
\* chooses the sender.
LEMMA DiscoverKeepsFc ==
  ASSUME FcInv, NEW s \in Senders, Discover(s)
  PROVE  /\ discovered' <=> fcFound' /\ fcId'[1] # Invalid
         /\ discovered' => fcModelSys' = fcId'[1]
         /\ discovered => discovered' /\ fcId' = fcId
         /\ FcIsAnFc'
  <1>1. CASE UNCHANGED <<fcFound, fcId, discovered, fcModelSys>>
    BY <1>1 DEF FcInv, OneFc, FcIsAnFc, IsUnit, Sys
  <1>2. CASE /\ ~IsUnit(s) /\ ~fcFound /\ LooksLikeFc(s)
             /\ set_system_id(Sys(s))
             /\ fcId' = s /\ fcFound' = TRUE
    <2>1. Sys(s) = s[1] /\ Sys(s) \in 0..255
      BY ConstantsAssumption DEF Sys
    <2>2. ~discovered
      BY <1>2 DEF FcInv, OneFc
    <2>3. FcIsAnFc'
      BY <1>2 DEF FcIsAnFc, IsUnit, LooksLikeFc, Sys, Comp
    <2> QED
      BY <1>2, <2>1, <2>2, <2>3 DEF set_system_id, Invalid
  <1> QED
    BY <1>1, <1>2 DEF Discover

\* What the FC model has seen stays what the FC has sent.
LEMMA SourcesStayTheFcs ==
  ASSUME FcInv, NEW s \in Senders, Discover(s), UNCHANGED fcSources
  PROVE  FcInv'
  <1>1. \A x \in fcSources' : discovered' /\ x = fcId'[1] /\ x \notin {Air, Ground}
    BY DiscoverKeepsFc DEF FcInv, OneFc
  <1> QED
    BY <1>1, DiscoverKeepsFc DEF FcInv, OneFc

\* Every step keeps the invariant.
LEMMA NextFcInv == FcInv /\ [Next]_vars => FcInv'
  <1> SUFFICES ASSUME FcInv, [Next]_vars PROVE FcInv'
    OBVIOUS
  <1>1. ASSUME NEW s \in Senders, ProcessMessage(s) PROVE FcInv'
    <2>1. Discover(s)
      BY <1>1 DEF ProcessMessage
    <2>2. CASE UNCHANGED fcSources
      BY <2>1, <2>2, SourcesStayTheFcs
    <2>3. CASE /\ ~IsUnit(s) /\ discovered' /\ fcModelSys' = Sys(s)
               /\ fcSources' = fcSources \cup {Sys(s)}
      <3>1. discovered' /\ Sys(s) = fcId'[1] /\ Sys(s) \notin {Air, Ground}
        BY <2>1, <2>3, DiscoverKeepsFc DEF IsUnit
      <3>2. \A x \in fcSources : discovered' /\ x = fcId'[1] /\ x \notin {Air, Ground}
        BY <2>1, DiscoverKeepsFc DEF FcInv, OneFc
      <3>3. \A x \in fcSources' : discovered' /\ x = fcId'[1] /\ x \notin {Air, Ground}
        BY <2>3, <3>1, <3>2
      <3> QED
        BY <2>1, <3>3, DiscoverKeepsFc DEF FcInv, OneFc
    <2> QED
      BY <1>1, <2>2, <2>3 DEF ProcessMessage
  <1>2. ASSUME NEW s \in Senders, Consumed(s) PROVE FcInv'
    BY <1>2, SourcesStayTheFcs DEF Consumed
  <1>3. ASSUME NEW s \in Senders, NEW ts \in 1..MaxPings, TimesyncAnswer(s, ts) PROVE FcInv'
    BY <1>3, SourcesStayTheFcs DEF TimesyncAnswer
  <1>4. CASE ping_all_systems
    BY <1>4 DEF ping_all_systems, FcInv, OneFc, FcIsAnFc, IsUnit, Sys
  <1>5. CASE UNCHANGED vars
    BY <1>5 DEF vars, FcInv, OneFc, FcIsAnFc, IsUnit, Sys
  <1> QED
    BY <1>1, <1>2, <1>3, <1>4, <1>5 DEF Next

-----------------------------------------------------------------------------
\* Every step of the monitor is a step of the dispatch, or leaves it alone.
LEMMA MonitorStepsAreDispatchSteps == [MonitorNext]_monitorVars => [Next]_vars
  BY DEF MonitorNext, monitorVars, Next

\* What holds of the dispatch alone holds of the monitor.
LEMMA MonitorImplementsDispatch == MonitorSpec => Spec
  <1>1. MonitorInit => Init
    BY DEF MonitorInit
  <1> QED
    BY <1>1, MonitorStepsAreDispatchSteps, PTL DEF MonitorSpec, Spec

\* With any number of systems on the link, the FC model and the sender of commands
\* have the same FC in mind, which is none of the OpenHD units, unless it has the id
\* set_system_id refuses; the model then has none and takes no messages, and never
\* mixes those of two systems (MavlinkTelemetry.cpp:135-156, 192-198,
\* fcmavlinksystem.cpp:518-528).
THEOREM OneFcAlways == MonitorSpec => []OneFc
  <1>1. FcInv => OneFc
    BY DEF FcInv
  <1> QED
    BY <1>1, InitFcInv, NextFcInv, MonitorImplementsDispatch, PTL DEF Spec

\* A gimbal, a camera or another ground station is never taken for the FC
\* (MavlinkTelemetry.cpp:137-156).
THEOREM FcIsAlwaysAnFc == MonitorSpec => []FcIsAnFc
  <1>1. FcInv => FcIsAnFc
    BY DEF FcInv
  <1> QED
    BY <1>1, InitFcInv, NextFcInv, MonitorImplementsDispatch, PTL DEF Spec

-----------------------------------------------------------------------------
(* The alive detection of the watched unit.                                *)

\* A time was stored only by a message of the unit, and update_alive compares it
\* with the clock only when one was.  With it ConnectedIsDiscovered is inductive.
HeardInv ==
    /\ last # Unit!Never => Watched \in ready
    /\ pc # "idle" => Watched \in ready
    /\ alive => Watched \in ready

\* The senders the unit's model hears are the unit, whose discovery is in the
\* same step (MavlinkTelemetry.cpp:125-133, 186-191).
LEMMA HandOnDiscovers ==
  ASSUME NEW s \in Senders, Discover(s), HandOn(s), HeardInv
  PROVE  HeardInv'
  <1>1. ready \subseteq ready'
    BY DEF Discover
  <1>2. CASE Sys(s) = Watched
    <2>1. IsUnit(s)
      BY <1>2, MonitorAssumption DEF IsUnit
    <2>2. Watched \in ready'
      BY <1>2, <2>1 DEF Discover
    <2>3. last' = now /\ UNCHANGED <<now, pc, alive>>
      BY <1>2 DEF HandOn, Unit!Message
    <2> QED
      BY <2>2, <2>3 DEF HeardInv
  <1>3. CASE Sys(s) # Watched
    BY <1>1, <1>3 DEF HandOn, unitVars, HeardInv
  <1> QED
    BY <1>2, <1>3

\* The dispatch alone never forgets a unit.
LEMMA OthersKeepHeard ==
  ASSUME HeardInv, Next, UNCHANGED unitVars
  PROVE  HeardInv'
  <1>1. ready \subseteq ready'
    BY DEF Next, ProcessMessage, Consumed, TimesyncAnswer, ping_all_systems, Discover
  <1> QED
    BY <1>1 DEF HeardInv, unitVars

\* Time passes, or update_alive takes a step: it decides only when it has a time.
LEMMA UnitKeepsHeard ==
  ASSUME HeardInv, UNCHANGED vars,
         \/ Unit!Tick \/ Unit!UpdateAliveUnknown \/ Unit!ReadTimeFirst
         \/ Unit!ReadLastFirst \/ Unit!UpdateAlive
  PROVE  HeardInv'
  <1>1. UNCHANGED ready
    BY DEF vars
  <1>2. CASE Unit!Tick \/ Unit!ReadTimeFirst \/ Unit!ReadLastFirst
    BY <1>1, <1>2 DEF HeardInv, Unit!Tick, Unit!ReadTimeFirst, Unit!ReadLastFirst
  <1>3. CASE Unit!UpdateAliveUnknown
    BY <1>1, <1>3 DEF HeardInv, Unit!UpdateAliveUnknown, Unit!Report
  <1>4. CASE Unit!UpdateAlive
    <2>1. pc # "idle" /\ pc' = "idle" /\ UNCHANGED last
      BY <1>4 DEF Unit!UpdateAlive, Unit!Decide
    <2> QED
      BY <1>1, <2>1 DEF HeardInv
  <1> QED
    BY <1>2, <1>3, <1>4

\* A unit is shown as connected only after a message of this very unit, so its
\* settings can be fetched: set_ready was called before (MavlinkTelemetry.cpp:126,
\* aohdsystem.cpp:785).
THEOREM ConnectedIsAlwaysDiscovered == MonitorSpec => []ConnectedIsDiscovered
  <1>1. MonitorInit => HeardInv
    BY DEF MonitorInit, Unit!Init, HeardInv
  <1>2. HeardInv /\ [MonitorNext]_monitorVars => HeardInv'
    <2> SUFFICES ASSUME HeardInv, [MonitorNext]_monitorVars PROVE HeardInv'
      OBVIOUS
    <2>1. ASSUME NEW s \in Senders, ProcessMessage(s), HandOn(s) PROVE HeardInv'
      BY <2>1, HandOnDiscovers DEF ProcessMessage
    <2>2. CASE Next /\ UNCHANGED unitVars
      BY <2>2, OthersKeepHeard
    <2>3. CASE /\ \/ Unit!Tick \/ Unit!UpdateAliveUnknown \/ Unit!ReadTimeFirst
                  \/ Unit!ReadLastFirst \/ Unit!UpdateAlive
               /\ UNCHANGED vars
      BY <2>3, UnitKeepsHeard
    <2>4. CASE UNCHANGED monitorVars
      BY <2>4 DEF monitorVars, vars, unitVars, HeardInv
    <2> QED
      BY <2>1, <2>2, <2>3, <2>4 DEF MonitorNext, Next
  <1>3. HeardInv => ConnectedIsDiscovered
    BY DEF HeardInv, ConnectedIsDiscovered
  <1> QED
    BY <1>1, <1>2, <1>3, PTL DEF MonitorSpec

\* HudIsRight with the range of the message, which it needs to be inductive.
HudInv == hud \in {"none", "connected", "disconnected"} /\ Unit!HudIsRight

\* A report, of whatever outcome, keeps the message and the flag in step.
LEMMA ReportKeepsHud ==
  ASSUME HudInv, NEW b \in BOOLEAN, Unit!Report(b), alive \in BOOLEAN
  PROVE  HudInv' /\ alive' \in BOOLEAN
  <1>1. CASE b = alive
    BY <1>1 DEF HudInv, Unit!HudIsRight, Unit!Report
  <1>2. CASE b /\ ~alive
    BY <1>2 DEF HudInv, Unit!HudIsRight, Unit!Report
  <1>3. CASE ~b /\ alive
    BY <1>3 DEF HudInv, Unit!HudIsRight, Unit!Report
  <1> QED
    BY <1>1, <1>2, <1>3

\* The HUD and the property tell the same story, whatever the threads do and
\* whatever the clock reads (aohdsystem.cpp:791, 826; fcmavlinksystem.cpp:846-850).
THEOREM HudIsAlwaysRight == MonitorSpec => []HudIsRight
  <1> DEFINE Inv == HudInv /\ alive \in BOOLEAN
  <1>1. MonitorInit => Inv
    BY DEF MonitorInit, Unit!Init, HudInv, Unit!HudIsRight
  <1>2. Inv /\ [MonitorNext]_monitorVars => Inv'
    <2> SUFFICES ASSUME Inv, [MonitorNext]_monitorVars PROVE Inv'
      OBVIOUS
    <2>1. CASE UNCHANGED <<alive, hud>>
      BY <2>1 DEF HudInv, Unit!HudIsRight
    <2>2. CASE Unit!UpdateAliveUnknown
      <3>1. Unit!Report(FALSE)
        BY <2>2 DEF Unit!UpdateAliveUnknown
      <3> QED
        BY <3>1, ReportKeepsHud
    <2>3. CASE Unit!UpdateAlive
      <3>1. ASSUME NEW a, NEW b, Unit!Decide(a, b) PROVE Inv'
        <4>1. Unit!Report(Unit!IsAlive(Unit!Minus(a, b)))
          BY <3>1 DEF Unit!Decide
        <4>2. Unit!IsAlive(Unit!Minus(a, b)) \in BOOLEAN
          BY DEF Unit!IsAlive
        <4> QED
          BY <4>1, <4>2, ReportKeepsHud
      <3> QED
        BY <2>3, <3>1 DEF Unit!UpdateAlive
    <2> QED
      BY <2>1, <2>2, <2>3 DEF MonitorNext, monitorVars, unitVars, HandOn, Unit!Message,
         Unit!Tick, Unit!ReadTimeFirst, Unit!ReadLastFirst
  <1>3. Inv => HudIsRight
    BY DEF HudInv, HudIsRight
  <1> QED
    BY <1>1, <1>2, <1>3, PTL DEF MonitorSpec

-----------------------------------------------------------------------------
(* The dispatch: types, and the results of pings.                          *)

\* The bound on the results is the number of pings sent so far, which the type
\* leaves open.
PingInv == TypeOK /\ \A u \in DOMAIN shown : shown[u] <= pings

\* A sender has a system id and a component id, and one of the three displays.
LEMMA SenderTypes ==
  ASSUME NEW s \in Senders
  PROVE  /\ Sys(s) \in 0..255 /\ Comp(s) \in 0..255
         /\ Shows(s) \in {"air", "ground", "fc"}
         /\ IsUnit(s) => Sys(s) \in {Air, Ground}
  <1>1. Sys(s) \in 0..255 /\ Comp(s) \in 0..255
    BY ConstantsAssumption DEF Sys, Comp
  <1>2. Shows(s) \in {"air", "ground", "fc"}
    BY DEF Shows, IsUnit
  <1> QED
    BY <1>1, <1>2 DEF IsUnit

\* Initially nothing was sent and nothing is shown.
LEMMA InitPingInv == Init => PingInv
  <1> SUFFICES ASSUME Init PROVE PingInv
    OBVIOUS
  <1>1. MaxPings \in Nat /\ 0 \in 0..MaxPings
    BY ConstantsAssumption
  <1>2. fcFound \in BOOLEAN /\ discovered \in BOOLEAN
    BY DEF Init
  <1>3. ready \subseteq {Air, Ground} /\ fcSources \subseteq 0..255
    BY DEF Init
  <1>4. fcId \in Senders \cup {<<Unknown, Unknown>>} /\ fcModelSys \in {Unknown} \cup 0..254
    BY DEF Init
  <1>5. /\ pings \in 0..MaxPings /\ shown \in [{"air", "ground", "fc"} -> 0..MaxPings]
        /\ \A u \in DOMAIN shown : shown[u] <= pings
    BY <1>1 DEF Init
  <1> QED
    BY <1>2, <1>3, <1>4, <1>5 DEF PingInv, TypeOK

\* The discovery keeps the types of what it writes.
LEMMA DiscoverTypes ==
  ASSUME TypeOK, NEW s \in Senders, Discover(s)
  PROVE  /\ ready' \subseteq {Air, Ground}
         /\ fcFound' \in BOOLEAN /\ fcId' \in Senders \cup {<<Unknown, Unknown>>}
         /\ discovered' \in BOOLEAN /\ fcModelSys' \in {Unknown} \cup 0..254
  <1>1. CASE IsUnit(s) /\ ready' = ready \cup {Sys(s)}
             /\ UNCHANGED <<fcFound, fcId, discovered, fcModelSys>>
    BY <1>1, SenderTypes DEF TypeOK
  <1>2. CASE ~IsUnit(s) /\ set_system_id(Sys(s))
             /\ fcId' = s /\ fcFound' = TRUE /\ UNCHANGED ready
    <2>1. discovered' \in BOOLEAN /\ fcFound' \in BOOLEAN
      BY <1>2 DEF set_system_id, TypeOK
    <2>2. ready' \subseteq {Air, Ground} /\ fcId' \in Senders
      BY <1>2 DEF TypeOK
    <2>3. fcModelSys' \in {Unknown} \cup 0..254
      BY <1>2, SenderTypes DEF set_system_id, Invalid, TypeOK
    <2> QED
      BY <2>1, <2>2, <2>3
  <1>3. CASE UNCHANGED <<ready, fcFound, fcId, discovered, fcModelSys>>
    BY <1>3 DEF TypeOK
  <1> QED
    BY <1>1, <1>2, <1>3 DEF Discover

\* An answer that is taken is one to the last ping, so no display goes back.
LEMMA AnswersDoNotGoBack ==
  ASSUME PingInv, NEW s \in Senders, NEW ts \in 1..MaxPings, TimesyncAnswer(s, ts)
  PROVE  /\ shown' \in [{"air", "ground", "fc"} -> 0..MaxPings]
         /\ \A u \in DOMAIN shown : shown'[u] >= shown[u] /\ shown'[u] <= pings
  <1>0. pings \in 0..MaxPings /\ shown \in [{"air", "ground", "fc"} -> 0..MaxPings]
    BY DEF PingInv, TypeOK
  <1>1. \A u \in DOMAIN shown : shown[u] <= pings
    BY DEF PingInv
  <1>2. CASE LastTimesync(ts)
    <2>1. ts = pings /\ shown' = [shown EXCEPT ![Shows(s)] = ts]
      BY <1>2 DEF TimesyncAnswer, LastTimesync
    <2>2. Shows(s) \in {"air", "ground", "fc"}
      BY SenderTypes
    <2> QED
      BY ConstantsAssumption, <1>0, <1>1, <2>1, <2>2
  <1>3. CASE ~LastTimesync(ts)
    BY ConstantsAssumption, <1>0, <1>1, <1>3 DEF TimesyncAnswer
  <1> QED
    BY <1>2, <1>3

\* Every step keeps the invariant.
LEMMA NextPingInv == PingInv /\ [Next]_vars => PingInv'
  <1> SUFFICES ASSUME PingInv, [Next]_vars PROVE PingInv'
    OBVIOUS
  <1>0. TypeOK
    BY DEF PingInv
  <1>1. ASSUME NEW s \in Senders, Discover(s), UNCHANGED <<pings, shown>>,
               fcSources' \subseteq fcSources \cup {Sys(s)}
        PROVE  PingInv'
    <2>1. fcSources' \subseteq 0..255
      BY <1>0, <1>1, SenderTypes DEF TypeOK
    <2> QED
      BY <1>0, <1>1, <2>1, DiscoverTypes DEF PingInv, TypeOK
  <1>2. ASSUME NEW s \in Senders, ProcessMessage(s) PROVE PingInv'
    BY <1>1, <1>2 DEF ProcessMessage
  <1>3. ASSUME NEW s \in Senders, Consumed(s) PROVE PingInv'
    BY <1>1, <1>3 DEF Consumed
  <1>4. ASSUME NEW s \in Senders, NEW ts \in 1..MaxPings, TimesyncAnswer(s, ts)
        PROVE  PingInv'
    <2>1. Discover(s) /\ UNCHANGED <<fcSources, pings>>
      BY <1>4 DEF TimesyncAnswer
    <2>2. /\ shown' \in [{"air", "ground", "fc"} -> 0..MaxPings]
          /\ \A u \in DOMAIN shown : shown'[u] <= pings
      BY <1>4, AnswersDoNotGoBack
    <2>3. TypeOK'
      BY <1>0, <2>1, <2>2, DiscoverTypes DEF TypeOK
    <2>4. \A u \in DOMAIN shown' : shown'[u] <= pings'
      BY <1>0, <2>1, <2>2 DEF TypeOK
    <2> QED
      BY <2>3, <2>4 DEF PingInv
  <1>5. CASE ping_all_systems
    <2>1. /\ UNCHANGED <<ready, fcFound, fcId, discovered, fcModelSys, fcSources, shown>>
          /\ pings < MaxPings /\ pings' = pings + 1
      BY <1>5 DEF ping_all_systems
    <2>2. pings' \in 0..MaxPings
      BY ConstantsAssumption, <1>0, <2>1 DEF TypeOK
    <2>3. TypeOK'
      BY <1>0, <2>1, <2>2 DEF TypeOK
    <2>4. \A u \in DOMAIN shown' : shown'[u] <= pings'
      BY ConstantsAssumption, <1>0, <2>1 DEF PingInv, TypeOK
    <2> QED
      BY <2>3, <2>4 DEF PingInv
  <1>6. CASE UNCHANGED vars
    BY <1>6 DEF vars, PingInv, TypeOK
  <1> QED
    BY <1>2, <1>3, <1>4, <1>5, <1>6 DEF Next

\* Every variable of the dispatch keeps its type, for any set of senders.
THEOREM TypeCorrect == MonitorSpec => []TypeOK
  <1>1. PingInv => TypeOK
    BY DEF PingInv
  <1> QED
    BY <1>1, InitPingInv, NextPingInv, MonitorImplementsDispatch, PTL DEF Spec

\* However late answers are, and whoever gives them, the time shown for a system
\* is never replaced by that of an earlier ping (MavlinkTelemetry.cpp:246).
THEOREM PingsNeverGoBack == MonitorSpec => PingsDoNotGoBack
  <1>1. PingInv /\ [Next]_vars => [\A u \in DOMAIN shown : shown'[u] >= shown[u]]_vars
    <2> SUFFICES ASSUME PingInv, Next
                 PROVE  \A u \in DOMAIN shown : shown'[u] >= shown[u]
      OBVIOUS
    <2>1. ASSUME UNCHANGED shown PROVE \A u \in DOMAIN shown : shown'[u] >= shown[u]
      BY ConstantsAssumption, <2>1 DEF PingInv, TypeOK
    <2>2. CASE \E s \in Senders, ts \in 1..MaxPings : TimesyncAnswer(s, ts)
      BY <2>2, AnswersDoNotGoBack
    <2>3. CASE (\E s \in Senders : ProcessMessage(s) \/ Consumed(s)) \/ ping_all_systems
      BY <2>1, <2>3 DEF ProcessMessage, Consumed, ping_all_systems
    <2> QED
      BY <2>2, <2>3 DEF Next
  <1> QED
    BY <1>1, InitPingInv, NextPingInv, MonitorImplementsDispatch, PTL
       DEF Spec, PingsDoNotGoBack
=============================================================================
