\* Everybody talks, two pings; the ground unit is watched.
CONSTANTS
    Senders <- Everybody
    Air = 101
    Ground = 100
    Autopilot = 1
    SystemControl = 250
    MaxPings = 2
    Watched = 100
    AliveFor = 2
    MaxTime = 4
SPECIFICATION MonitorFairSpec
INVARIANTS OneFc ConnectedIsDiscovered
PROPERTIES PingsDoNotGoBack SilenceIsNoticed
