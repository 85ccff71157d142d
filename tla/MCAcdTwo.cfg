\* Two ACD contexts (the DHCP and the AutoIP client) on one interface,
\* with a 1 s tick and no jitter: the contexts together implement
\* AcdAbstract, the per-context promise of acd.c.
CONSTANTS
    dhcp = dhcp
    autoip = autoip
    routable = routable
    linklocal = linklocal
    own = own
    peer = peer
    zero = zero
    Ctx <- MCCtx
    Addr <- MCAddr
    StartAddr <- MCStartAddr
    LinkLocal <- MCLinkLocal
    ANY = zero
    Mac <- MCPeerMac
    OwnMac = own
    ACD_TMR_INTERVAL = 1000
    PROBE_WAIT_MS = 0
    PROBE_MIN_MS = 1000
    PROBE_MAX_MS = 1000
    PROBE_NUM = 2
    ANNOUNCE_WAIT_MS = 1000
    ANNOUNCE_INTERVAL_MS = 1000
    ANNOUNCE_NUM = 2
    PERIODIC_DEFEND_MS = 1000
    MAX_CONFLICTS = 2
    RATE_LIMIT_INTERVAL = 1
    DEFEND_INTERVAL = 1
    MaxStarts = 2
SPECIFICATION Spec
PROPERTIES AcdRefinesAbstract
