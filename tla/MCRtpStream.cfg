\* An H265 stream of two parameter sets and fragmented frames, over and over; any
\* packet within half the range of the sequence numbers may come next.
CONSTANTS
    IsH265 = TRUE
    FeedIncomplete = FALSE
    SeqNumbers = 8
    MaxLen = 4
    Stream <- MCStream
    Indices <- MCIndices
    Last = 11
SPECIFICATION StreamSpec
INVARIANT UnitsAreWhole
