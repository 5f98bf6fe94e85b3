\* Two rates, changed once, and a user who changes the flight mode and arms, for
\* a list with room for two commands.
CONSTANTS
    N = 2
    MaxRestarts = 1
    Limit = 2
    Others = {f1, f2, a1}
    FlightModes = {f1, f2}
    Arms = {a1}
SPECIFICATION ClientsFairSpec
PROPERTY ComesToRest
INVARIANTS InFlightBound NoRateSkipped

\* After the last rate and the last command of the user nothing is left to do.
CHECK_DEADLOCK FALSE
