\* An H264 stream whose configuration changes, with a restart and terminate.
CONSTANTS
    IsH265 = FALSE
    FeedIncomplete = FALSE
    SeqNumbers = 5
    MaxLen = 4
    None = None
    QueueLen = 1
    MaxGen = 1
SPECIFICATION FairSpec
INVARIANTS UnitsAreWhole StopsAfterChange
PROPERTIES DecoderFollowsStream TerminateReturns
\* After terminate nothing is left to do but the stream.
CHECK_DEADLOCK FALSE
