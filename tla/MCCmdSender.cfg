\* Three callers compete for a queue of two; r1 and r2 share a command id, and
\* another ground station sends the command of r3.
CONSTANTS
    r1 = r1  r2 = r2  r3 = r3
    reboot = reboot  interval = interval
    None = None
    Requests = {r1, r2, r3}
    Blocking = {r1}
    Commands = {reboot, interval}
    CommandId <- SharedIds
    Wanted <- SharedWanted
    Answers <- SharedAnswers
    Foreign = {interval}
    MAX_N_SIMULTANOEUS_COMMANDS = 2
SPECIFICATION FairSpec
INVARIANTS CompletedOnce GiveUpExhausted IteratorValid AcceptedWasExecuted
PROPERTIES ImplementsRequestQueue EveryCommandCompletes
\* After terminate() and the last ack the sender stands still.
CHECK_DEADLOCK FALSE
