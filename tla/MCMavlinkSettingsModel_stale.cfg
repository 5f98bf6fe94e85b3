\* A set completes while a replacement of the rows is queued.
CONSTANTS
    mcs = mcs  key = key  low = low  mid = mid  high = high  s1 = s1  s2 = s2
    o1 = o1
    Absent = Absent
    Params = {mcs, key}
    Whitelisted = {key}
    Values = {low, mid, high}
    CellsParam = mcs
    Positive = {high}
    DefaultCells = DefaultCells
    Start <- StartLow
    GetAlls = {g1, g2}
    Autofetch = {}
    Sets = {s1}
    Blocking = {}
    Param <- SetParam
    Value <- SetValue
    Others = {}
    Limit = 2
SPECIFICATION Spec
INVARIANT RowsAreTheUnits
\* After the last request of the user nothing is left to do.
CHECK_DEADLOCK FALSE
