\* The mission is fetched over a lossy link, with a resync, and may change on the
\* FC while it is fetched.
CONSTANTS
    zero = zero  a = a  b = b  jump = jump
    Positions = {zero, a, b, jump}
    Zero = zero
    OtherFrame = {jump}
    BATCH = 2
    MaxQueue = 3
    OtherCounts = {1}
    OtherItems <- Fence
    Missions <- Changing
    MaxUploads = 1
    MaxResyncs = 1
SPECIFICATION FairSpec
INVARIANTS MissingIsExact ItemsAreTheFCs MapShowsMission
PROPERTY FetchFinishes
\* Once everything was received nothing is left to do.
CHECK_DEADLOCK FALSE
