\* The connections started and stopped in turn, a server that comes and goes, the
\* port taken by others, a clock that wraps around.
CONSTANTS
    Fds = {1, 2}
    Remotes = {a, b}
    NoRemote = NoRemote
    MaxStarts = 2
    AliveFor = 1
    Wrapped = FALSE
    Half = 2
    StartTime = 1
    MaxTime = 4
SPECIFICATION ManualFairSpec
INVARIANTS NoLeak SentToAPeer AliveWhileHeard
PROPERTIES OwnDescriptors BothStopsReturn Reconnects
\* The last stops end the behaviour.
CHECK_DEADLOCK FALSE
