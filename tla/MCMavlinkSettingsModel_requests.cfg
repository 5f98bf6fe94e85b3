\* A blocking and an asynchronous set, a fetch of the user and the autofetch;
\* another part of the program sets the same parameter to another value.
CONSTANTS
    mcs = mcs  key = key  low = low  mid = mid  high = high  s1 = s1  s2 = s2
    o1 = o1
    Absent = Absent
    Params = {mcs}
    Whitelisted = {}
    Values = {low, mid, high}
    CellsParam = mcs
    Positive = {mid, high}
    DefaultCells = DefaultCells
    Start <- StartLow
    GetAlls = {g1, g2}
    Autofetch = {g2}
    Sets = {s1, s2}
    Blocking = {s1}
    Param <- SetParam
    Value <- SetValue
    Others = {o1}
    Limit = 2
SPECIFICATION FairSpec
INVARIANTS ShownWasServed SuccessWasStored
PROPERTY BusyEnds
\* After the last request of the user nothing is left to do.
CHECK_DEADLOCK FALSE
