\* A pause of two ticks can be extended while it is being slept out.  Remaining 0,
\* 1 and 10: exhausted, nearly exhausted, plenty.  Window 2: longer than a refill.
SPECIFICATION FairSpec
CONSTANTS
    Callers = {c1, c2}
    Rps = 1
    Burst = 1
    Delays = {0, 2}
    Remainings = {0, 1, 10}
    Window = 2
INVARIANTS
    TypeOK
    RetryAfterHonoured
    CallsArePaced
PROPERTIES
    WaitEnds
    WaitsAreNotExtended
