\* Default RFC 5227 timing, 100 ms tick: IP_OK arrives before the spec's minimum.
CONSTANTS
    dhcp = dhcp
    routable = routable
    own = own
    zero = zero
    Ctx <- TimingCtx
    Addr <- TimingAddr
    StartAddr <- TimingStartAddr
    LinkLocal <- EmptyAddr
    ANY = zero
    Mac <- TimingMac
    OwnMac = own
    ACD_TMR_INTERVAL = 100
    PROBE_WAIT_MS = 0
    PROBE_MIN_MS = 1000
    PROBE_MAX_MS = 2000
    PROBE_NUM = 3
    ANNOUNCE_WAIT_MS = 2000
    ANNOUNCE_INTERVAL_MS = 2000
    ANNOUNCE_NUM = 2
    PERIODIC_DEFEND_MS = 10000
    MAX_CONFLICTS = 10
    RATE_LIMIT_INTERVAL = 60
    DEFEND_INTERVAL = 10
    MaxStarts = 1
SPECIFICATION TimingSpec
PROPERTIES IpOkNotBeforeSpecMinimum
