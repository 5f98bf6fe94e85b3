-------------------------- MODULE MCSystemMonitor --------------------------
(* An instance of SystemMonitor for TLC.                                   *)
EXTENDS SystemMonitor

\* Both units, two FCs and one with the id that is refused, a gimbal of the first one,
\* INAV, Betaflight.
Everybody ==
    {<<101, 1>>, <<100, 191>>, <<1, 1>>, <<2, 1>>, <<255, 1>>, <<1, 154>>, <<1, 250>>, <<0, 7>>}
=============================================================================
