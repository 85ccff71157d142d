\* Two devices running acd.c on one segment that may lose or duplicate
\* frames.
CONSTANTS
    hostA = hostA
    hostB = hostB
    x = x
    y = y
    zero = zero
    Host <- MCHost
    Addr <- MCAddr
    ANY = zero
    ACD_TMR_INTERVAL = 1000
    PROBE_WAIT_MS = 0
    PROBE_MIN_MS = 1000
    PROBE_MAX_MS = 1000
    PROBE_NUM = 2
    ANNOUNCE_WAIT_MS = 1000
    ANNOUNCE_INTERVAL_MS = 1000
    ANNOUNCE_NUM = 2
    PERIODIC_DEFEND_MS = 2000
    MAX_CONFLICTS = 2
    RATE_LIMIT_INTERVAL = 1
    DEFEND_INTERVAL = 1
    MaxStarts = 2
    MaxLoss = 4
    MaxDup = 1
SPECIFICATION Spec
INVARIANTS IncumbentProtected
PROPERTIES DuplicateResolved
