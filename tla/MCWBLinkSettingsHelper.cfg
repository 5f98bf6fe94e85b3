\* STBC and LDPC are enabled while asynchronous changes are running, in a queue of one.
CONSTANTS
    g1 = g1  g2 = g2  a1 = a1  a2 = a2  k = k  m = m  w = w
    ground = ground  air = air
    stbc = stbc  ldpc = ldpc  key = key  fec = fec  freq = freq
    None = None
    MAX_N_SIMULTANOEUS_COMMANDS = 1
    READ_BATCH = 10
    StbcLdpc <- LinkSets
    AirAsync = {k, m}
    OneSet = {w}
    Sets = {g1, g2, a1, a2, k, m, w}
    GetAlls = {}
    Blocking = {g1, g2, a1, a2, w}
    Servers = {ground, air}
    ParamCount <- AnyCount
    Server <- LinkServer
    Param <- LinkParam
    Wanted <- LinkWanted
    Answers <- LinkAnswers
    Malformed = {}
SPECIFICATION LinkSpec
INVARIANTS AcceptedWasApplied GroundBeforeAir ToldOnce
PROPERTY SetsImplementRequestQueue
\* After the last answer XParam stands still.
CHECK_DEADLOCK FALSE
