\* A set and two get-alls share the threads and the mutex.
CONSTANTS
    s1 = s1  g1 = g1  g2 = g2  air = air  p = p
    None = None
    MAX_N_SIMULTANOEUS_COMMANDS = 2
    READ_BATCH = 10
    Sets = {s1}
    GetAlls = {g1, g2}
    Blocking = {s1, g2}
    Servers = {air}
    ParamCount <- GetCount
    Server <- GetServer
    Param <- GetParam
    Wanted <- GetWanted
    Answers <- GetAnswers
    Malformed <- Impossible
SPECIFICATION FairSpec
INVARIANTS CompletedOnce GetAllIsComplete
PROPERTY EveryCallCompletes
\* After terminate() and the last answer XParam stands still.
CHECK_DEADLOCK FALSE
