\* Two ACD contexts (a DHCP and an AutoIP client) on one interface.
CONSTANTS
    dhcp = dhcp
    autoip = autoip
    routable = routable
    linklocal = linklocal
    own = own
    peer = peer
    zero = zero
    Ctx <- MCCtxOne
    Addr <- MCAddr
    StartAddr <- MCStartAddrOne
    LinkLocal <- MCLinkLocal
    ANY = zero
    Mac <- MCMac
    OwnMac = own
    ACD_TMR_INTERVAL <- MCTmrInterval
    PROBE_WAIT_MS = 1000
    PROBE_MIN_MS = 500
    PROBE_MAX_MS = 1500
    PROBE_NUM = 2
    ANNOUNCE_WAIT_MS = 1000
    ANNOUNCE_INTERVAL_MS = 500
    ANNOUNCE_NUM = 2
    PERIODIC_DEFEND_MS = 1000
    MAX_CONFLICTS = 2
    RATE_LIMIT_INTERVAL = 1
    DEFEND_INTERVAL = 1
    MaxStarts = 3
SPECIFICATION Spec
INVARIANTS TypeOK IpOkAfterFullProtocol NoIpOkAfterProbeConflict
PROPERTIES DefendOnceThenRetreat RateLimitHonoured RestartEventuallyReported ProbingEnds
