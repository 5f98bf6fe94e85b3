\* On the ground unit itself or on another device (Android, Windows, Mac), with two
\* changes of the mode or the address at any moment.
CONSTANTS
    Ips = {i1, i2}
    Start = i1
    MaxChanges = 2
SPECIFICATION FairSpec
PROPERTIES ModeIsFollowed AutoChooses TerminateEnds
\* After terminate nothing is left to do.
CHECK_DEADLOCK FALSE
