-------------------------------- MODULE Acd --------------------------------
(***************************************************************************)
(* IPv4 Address Conflict Detection (RFC 5227) as implemented by            *)
(* src/components/lwip/lwip/src/core/ipv4/acd.c, with the OpENer changes:  *)
(* Kconfig timing (CONFIG_OPENER_ACD_CUSTOM_TIMING), periodic defensive    *)
(* probes in ONGOING, and capture of the conflicting frame for the TCP/IP  *)
(* object (CipTcpIpSetLastAcdMac / CipTcpIpSetLastAcdRawData).             *)
(*                                                                         *)
(* One network interface holds the list netif->acd_list of `struct acd`.   *)
(* Every struct is a record acd[c] with the fields of the C struct. Each   *)
(* entry point of acd.c is one action; the timer and the ARP input walk    *)
(* every listed context in the same step, as ACD_FOREACH does under the    *)
(* lwIP core lock. Callbacks to the upper layer (DHCP, AutoIP, static IP)  *)
(* are outputs: cb[c] is the sequence of outcomes delivered to c's         *)
(* callback in the last step, tx[c] the frames c handed to etharp.         *)
(***************************************************************************)
EXTENDS Integers, Sequences, FiniteSets

CONSTANTS
    Ctx,            \* the struct acd instances of the interface (DHCP, AutoIP, ...)
    Addr,           \* candidate IPv4 addresses
    StartAddr,      \* StartAddr[c]: the addresses c's client passes to acd_start
    LinkLocal,      \* the link-local (169.254/16) members of Addr
    ANY,            \* 0.0.0.0, the sender address of an ARP probe
    Mac,            \* hardware addresses that may appear as ARP sender
    OwnMac,         \* netif->hwaddr
    ACD_TMR_INTERVAL,        \* ms between two calls of acd_tmr
    PROBE_WAIT_MS, PROBE_MIN_MS, PROBE_MAX_MS, PROBE_NUM,
    ANNOUNCE_WAIT_MS, ANNOUNCE_INTERVAL_MS, ANNOUNCE_NUM,
    PERIODIC_DEFEND_MS,      \* CONFIG_OPENER_ACD_PERIODIC_DEFEND_INTERVAL_MS
    MAX_CONFLICTS,           \* lwip/prot/acd.h
    RATE_LIMIT_INTERVAL,     \* seconds, lwip/prot/acd.h
    DEFEND_INTERVAL,         \* seconds, lwip/prot/acd.h
    MaxStarts                \* model bound: acd_start calls per context

ASSUME /\ LinkLocal \subseteq Addr /\ ANY \notin Addr
       /\ StartAddr \in [Ctx -> SUBSET Addr]
       /\ ACD_TMR_INTERVAL \in 1..1000
       /\ {PROBE_NUM, ANNOUNCE_NUM} \subseteq Nat \ {0}
       /\ MAX_CONFLICTS \in Nat \ {0}
       /\ MaxStarts \in Nat \ {0}

---------------------------------------------------------------------------
(* Timing, acd.c lines 158 and 183-216: milliseconds become ticks by       *)
(* ceiling division and a u16_t cast; the random jitter is any value the   *)
(* modulo can produce, since LWIP_ACD_RAND ranges over all of u32_t.       *)

ACD_TICKS_PER_SECOND == 1000 \div ACD_TMR_INTERVAL

OPENER_ACD_MS_TO_TICKS(ms) ==
    IF ms = 0 THEN 0
    ELSE ((ms + (ACD_TMR_INTERVAL - 1)) \div ACD_TMR_INTERVAL) % 65536

PROBE_WAIT_TICKS == OPENER_ACD_MS_TO_TICKS(PROBE_WAIT_MS)
PROBE_MIN_TICKS  == OPENER_ACD_MS_TO_TICKS(PROBE_MIN_MS)
PROBE_MAX_TICKS  == OPENER_ACD_MS_TO_TICKS(PROBE_MAX_MS)

\* The values ACD_RANDOM_PROBE_WAIT can take.
ACD_RANDOM_PROBE_WAIT ==
    IF PROBE_WAIT_MS = 0 THEN {0}
    ELSE 0..((IF PROBE_WAIT_TICKS > 0 THEN PROBE_WAIT_TICKS ELSE 1) - 1)

\* The values ACD_RANDOM_PROBE_INTERVAL can take.
ACD_RANDOM_PROBE_INTERVAL ==
    IF PROBE_MAX_TICKS > PROBE_MIN_TICKS
    THEN PROBE_MIN_TICKS..(PROBE_MAX_TICKS - 1)
    ELSE {PROBE_MIN_TICKS}

ACD_ANNOUNCE_WAIT_TICKS_SECONDS == (ANNOUNCE_WAIT_MS * ACD_TICKS_PER_SECOND) % 65536

ACD_ANNOUNCE_WAIT_TICKS_VALUE == OPENER_ACD_MS_TO_TICKS(ANNOUNCE_WAIT_MS)

ACD_ANNOUNCE_INTERVAL_TICKS_VALUE ==
    LET t == OPENER_ACD_MS_TO_TICKS(ANNOUNCE_INTERVAL_MS) IN IF t > 0 THEN t ELSE 1

ACD_PERIODIC_DEFEND_INTERVAL_TICKS == OPENER_ACD_MS_TO_TICKS(PERIODIC_DEFEND_MS)

RATE_LIMIT_TICKS == (RATE_LIMIT_INTERVAL * ACD_TICKS_PER_SECOND) % 65536

DEFEND_TICKS == DEFEND_INTERVAL * ACD_TICKS_PER_SECOND

\* struct acd is declared in lwip/acd.h, which is not in this repository;
\* spec.md 3 gives the conflict counter as u16, so num_conflicts++ wraps.
NUM_CONFLICTS_WRAP == 65536

---------------------------------------------------------------------------
(* acd_state_enum_t and acd_callback_enum_t. *)
OFF == "OFF"
PROBE_WAIT == "PROBE_WAIT"
PROBING == "PROBING"
ANNOUNCE_WAIT == "ANNOUNCE_WAIT"
ANNOUNCING == "ANNOUNCING"
ONGOING == "ONGOING"
PASSIVE_ONGOING == "PASSIVE_ONGOING"
RATE_LIMIT == "RATE_LIMIT"
States == {OFF, PROBE_WAIT, PROBING, ANNOUNCE_WAIT, ANNOUNCING, ONGOING,
           PASSIVE_ONGOING, RATE_LIMIT}

\* The states in which acd_arp_reply applies the RFC 5227 2.1.1 rule.
ProbePhase == {PROBE_WAIT, PROBING, ANNOUNCE_WAIT}
\* The states in which it applies the RFC 5227 2.4 rule.
ClaimPhase == {ANNOUNCING, ONGOING, PASSIVE_ONGOING}

Outcomes == {"IP_OK", "DECLINE", "RESTART_CLIENT"}

\* A frame handed to etharp_acd_probe or etharp_acd_announce. The err_t
\* they return only selects a log line, so it is not modelled.
Sent == {"probe", "announce"}

\* The fields of an incoming ARP header that acd_arp_reply reads.
Frames == [sip : Addr \cup {ANY}, shwaddr : Mac, dip : Addr]
NoFrame == [sip |-> ANY, shwaddr |-> OwnMac, dip |-> ANY]

AcdRec == [state : States, ipaddr : Addr \cup {ANY}, sent_num : Nat,
           ttw : Nat, lastconflict : Nat, num_conflicts : 0..(NUM_CONFLICTS_WRAP - 1)]

VARIABLES
    listed,     \* the contexts on netif->acd_list
    acd,        \* acd[c]: the struct acd of context c
    cb,         \* cb[c]: callback outcomes delivered to c in the last step
    tx,         \* tx[c]: frames c sent in the last step
    lastAcd     \* the frame last given to CipTcpIpSetLastAcdRawData

(* History variables, written by every action and read only by properties. *)
VARIABLES
    since,        \* since[c]: what c did since its last acd_start
    defendAge,    \* ticks since c last defended its address (capped)
    streak,       \* restarts of c since it last began announcing (capped)
    declineAge,   \* ticks since c last declined through acd_restart (capped)
    awaitRestart, \* c declined and has not yet been told RESTART_CLIENT
    starts        \* acd_start calls made on c

codeVars == <<listed, acd, cb, tx, lastAcd>>
histVars == <<since, defendAge, streak, declineAge, awaitRestart, starts>>
vars == <<codeVars, histVars>>

History == [probes : Nat, announces : Nat, ok : Nat, tainted : BOOLEAN]
FreshHistory == [probes |-> 0, announces |-> 0, ok |-> 0, tainted |-> FALSE]

TypeOK ==
    /\ listed \subseteq Ctx
    /\ acd \in [Ctx -> AcdRec]
    /\ cb \in [Ctx -> Seq(Outcomes)]
    /\ tx \in [Ctx -> Seq(Sent)]
    /\ lastAcd \in Frames \cup {NoFrame}
    /\ since \in [Ctx -> History]
    /\ defendAge \in [Ctx -> 0..DEFEND_TICKS]
    /\ streak \in [Ctx -> 0..MAX_CONFLICTS]
    /\ declineAge \in [Ctx -> 0..RATE_LIMIT_TICKS]
    /\ awaitRestart \in [Ctx -> BOOLEAN]
    /\ starts \in [Ctx -> 0..MaxStarts]

\* The structs are static or zeroed: state OFF (0), every field 0.
Init ==
    /\ listed = {}
    /\ acd = [c \in Ctx |-> [state |-> OFF, ipaddr |-> ANY, sent_num |-> 0,
                             ttw |-> 0, lastconflict |-> 0, num_conflicts |-> 0]]
    /\ cb = [c \in Ctx |-> <<>>]
    /\ tx = [c \in Ctx |-> <<>>]
    /\ lastAcd = NoFrame
    /\ since = [c \in Ctx |-> FreshHistory]
    /\ defendAge = [c \in Ctx |-> DEFEND_TICKS]
    /\ streak = [c \in Ctx |-> 0]
    /\ declineAge = [c \in Ctx |-> RATE_LIMIT_TICKS]
    /\ awaitRestart = [c \in Ctx |-> FALSE]
    /\ starts = [c \in Ctx |-> 0]

NoOutput == [c \in Ctx |-> <<>>]

---------------------------------------------------------------------------
(* Per-context steps. Each returns the new struct and what it emitted.     *)

Result(a, outs, sent) == [acd |-> a, cb |-> outs, tx |-> sent]

\* acd_restart: count the conflict, decline, then rate limit or stop.
acd_restartLateLimit(a) ==
    LET n == (a.num_conflicts + 1) % NUM_CONFLICTS_WRAP IN
    IF n > MAX_CONFLICTS
    THEN Result([a EXCEPT !.num_conflicts = n, !.state = RATE_LIMIT,
                          !.ttw = RATE_LIMIT_TICKS], <<"DECLINE">>, <<>>)
    ELSE Result([a EXCEPT !.num_conflicts = n, !.state = OFF],
                <<"DECLINE", "RESTART_CLIENT">>, <<>>)

acd_restart(a) ==
    LET n == (a.num_conflicts + 1) % NUM_CONFLICTS_WRAP IN
    IF n >= MAX_CONFLICTS
    THEN Result([a EXCEPT !.num_conflicts = n, !.state = RATE_LIMIT,
                          !.ttw = RATE_LIMIT_TICKS], <<"DECLINE">>, <<>>)
    ELSE Result([a EXCEPT !.num_conflicts = n, !.state = OFF],
                <<"DECLINE", "RESTART_CLIENT">>, <<>>)

\* acd_handle_arp_conflict, RFC 5227 2.4 options a) and b).
acd_handle_arp_conflictNeverDefend(a) ==
    IF a.state = PASSIVE_ONGOING
    THEN Result([a EXCEPT !.state = OFF], <<"DECLINE">>, <<>>)
    ELSE IF a.lastconflict >= 0
    THEN acd_restart(a)
    ELSE Result([a EXCEPT !.lastconflict = DEFEND_TICKS], <<>>, <<"announce">>)

acd_handle_arp_conflict(a) ==
    IF a.state = PASSIVE_ONGOING
    THEN Result([a EXCEPT !.state = OFF], <<"DECLINE">>, <<>>)
    ELSE IF a.lastconflict > 0
    THEN acd_restart(a)
    ELSE Result([a EXCEPT !.lastconflict = DEFEND_TICKS], <<>>, <<"announce">>)

\* Is frame f a conflict for the context a, in the rule of its state?
ConflictsNoProbeRule(a, f) ==
    \/ /\ a.state \in ProbePhase
       /\ f.sip = a.ipaddr /\ f.shwaddr # OwnMac
    \/ /\ a.state \in ClaimPhase
       /\ f.sip = a.ipaddr /\ f.shwaddr # OwnMac

ConflictsProbeOnlyRule(a, f) ==
    \/ /\ a.state \in ProbePhase
       /\ f.sip = ANY /\ f.dip = a.ipaddr /\ f.shwaddr # OwnMac
    \/ /\ a.state \in ClaimPhase
       /\ f.sip = a.ipaddr /\ f.shwaddr # OwnMac

Conflicts(a, f) ==
    \/ /\ a.state \in ProbePhase
       /\ \/ f.sip = a.ipaddr /\ f.shwaddr # OwnMac
          \/ f.sip = ANY /\ f.dip = a.ipaddr /\ f.shwaddr # OwnMac
    \/ /\ a.state \in ClaimPhase
       /\ f.sip = a.ipaddr /\ f.shwaddr # OwnMac

\* One iteration of the loop in acd_arp_reply.
ArpReplyAcd(a, f) ==
    IF ~Conflicts(a, f) THEN Result(a, <<>>, <<>>)
    ELSE IF a.state \in ProbePhase THEN acd_restart(a)
    ELSE acd_handle_arp_conflict(a)

\* Both countdowns of one acd_tmr iteration, before its switch.
TmrCountdownUnguarded(a) ==
    [a EXCEPT !.lastconflict = IF @ > 0 THEN @ - 1 ELSE 0, !.ttw = @ - 1]

TmrCountdown(a) ==
    [a EXCEPT !.lastconflict = IF @ > 0 THEN @ - 1 ELSE 0,
              !.ttw = IF @ > 0 THEN @ - 1 ELSE 0]

\* PROBE_WAIT / PROBING with ttw = 0: send a probe; after PROBE_NUM of
\* them wait ANNOUNCE_WAIT, else a random interval iv.
TmrProbeNoReset(b, iv) ==
    LET n == b.sent_num + 1 IN
    IF n >= PROBE_NUM
    THEN Result([b EXCEPT !.state = ANNOUNCE_WAIT, !.sent_num = n,
                          !.ttw = ACD_ANNOUNCE_WAIT_TICKS_VALUE], <<>>, <<"probe">>)
    ELSE Result([b EXCEPT !.state = PROBING, !.sent_num = n, !.ttw = iv],
                <<>>, <<"probe">>)

TmrProbeNoCount(b, iv) ==
    Result([b EXCEPT !.state = PROBING, !.ttw = iv], <<>>, <<"probe">>)

TmrProbe(b, iv) ==
    LET n == b.sent_num + 1 IN
    IF n >= PROBE_NUM
    THEN Result([b EXCEPT !.state = ANNOUNCE_WAIT, !.sent_num = 0,
                          !.ttw = ACD_ANNOUNCE_WAIT_TICKS_VALUE], <<>>, <<"probe">>)
    ELSE Result([b EXCEPT !.state = PROBING, !.sent_num = n, !.ttw = iv],
                <<>>, <<"probe">>)

\* ANNOUNCE_WAIT / ANNOUNCING with ttw = 0: the first announcement enters
\* ANNOUNCING and resets the conflict count; after ANNOUNCE_NUM of them
\* the context is ONGOING and its user is told IP_OK.
TmrAnnounceSilent(b) ==
    LET n == b.sent_num + 1
        b2 == IF b.sent_num = 0
              THEN [b EXCEPT !.state = ANNOUNCING, !.num_conflicts = 0]
              ELSE b
    IN
    IF n >= ANNOUNCE_NUM
    THEN Result([b2 EXCEPT !.state = ONGOING, !.sent_num = 0,
                           !.ttw = ACD_PERIODIC_DEFEND_INTERVAL_TICKS],
                <<>>, <<"announce">>)
    ELSE Result([b2 EXCEPT !.sent_num = n, !.ttw = ACD_ANNOUNCE_INTERVAL_TICKS_VALUE],
                <<>>, <<"announce">>)

TmrAnnounce(b) ==
    LET n == b.sent_num + 1
        b2 == IF b.sent_num = 0
              THEN [b EXCEPT !.state = ANNOUNCING, !.num_conflicts = 0]
              ELSE b
    IN
    IF n >= ANNOUNCE_NUM
    THEN Result([b2 EXCEPT !.state = ONGOING, !.sent_num = 0,
                           !.ttw = ACD_PERIODIC_DEFEND_INTERVAL_TICKS],
                <<"IP_OK">>, <<"announce">>)
    ELSE Result([b2 EXCEPT !.sent_num = n, !.ttw = ACD_ANNOUNCE_INTERVAL_TICKS_VALUE],
                <<>>, <<"announce">>)

TmrPeriodicDefendSilent(b) ==
    Result([b EXCEPT !.ttw = ACD_PERIODIC_DEFEND_INTERVAL_TICKS], <<>>, <<>>)

\* ONGOING with ttw = 0: the periodic defensive probe.
TmrPeriodicDefend(b) ==
    Result([b EXCEPT !.ttw = ACD_PERIODIC_DEFEND_INTERVAL_TICKS], <<>>, <<"probe">>)

\* RATE_LIMIT with ttw = 0: acd_stop, then RESTART_CLIENT.
TmrRateLimitSilent(b) == Result([b EXCEPT !.state = OFF], <<>>, <<>>)

TmrRateLimit(b) == Result([b EXCEPT !.state = OFF], <<"RESTART_CLIENT">>, <<>>)

\* One iteration of the loop in acd_tmr. iv: the random probe interval
\* drawn if one is needed.
TmrAcd(a, iv) ==
    LET b == TmrCountdown(a) IN
    CASE b.state \in {PROBE_WAIT, PROBING} /\ b.ttw = 0 -> TmrProbe(b, iv)
      [] b.state \in {ANNOUNCE_WAIT, ANNOUNCING} /\ b.ttw = 0 -> TmrAnnounce(b)
      [] b.state = ONGOING /\ PERIODIC_DEFEND_MS > 0 /\ b.ttw = 0 -> TmrPeriodicDefend(b)
      [] b.state = RATE_LIMIT /\ b.ttw = 0 -> TmrRateLimit(b)
      [] OTHER -> Result(b, <<>>, <<>>)

\* acd_put_in_passive_mode.
acd_put_in_passive_mode(a) ==
    CASE a.state \in {PROBE_WAIT, PROBING, ANNOUNCE_WAIT, RATE_LIMIT} ->
            Result([a EXCEPT !.state = OFF], <<"DECLINE">>, <<>>)
      [] a.state \in {ANNOUNCING, ONGOING} ->
            Result([a EXCEPT !.state = PASSIVE_ONGOING], <<>>, <<>>)
      [] OTHER -> Result(a, <<>>, <<>>)

\* Apply a per-context step R(c) to every listed context at once.
ApplyListed(R(_)) ==
    /\ acd' = [c \in Ctx |-> IF c \in listed THEN R(c).acd ELSE acd[c]]
    /\ cb' = [c \in Ctx |-> IF c \in listed THEN R(c).cb ELSE <<>>]
    /\ tx' = [c \in Ctx |-> IF c \in listed THEN R(c).tx ELSE <<>>]

---------------------------------------------------------------------------
(* History. The RFC 5227 rules are restated here on their own, so that the *)
(* properties do not read the code's classification.                      *)

CapAt(n, m) == IF n < m THEN n ELSE m
Emitted(c, o) == \E i \in DOMAIN cb'[c] : cb'[c][i] = o
SentKind(c, k) == Len(SelectSeq(tx'[c], LAMBDA s : s = k))

\* RFC 5227 2.1.1: before announcing, any ARP from another host that uses
\* the address as sender, or probes for it.
RfcProbeConflict(ip, f) ==
    f.shwaddr # OwnMac /\ (f.sip = ip \/ (f.sip = ANY /\ f.dip = ip))

\* RFC 5227 2.4: after announcing, an ARP from another host using it.
RfcClaimConflict(ip, f) == f.shwaddr # OwnMac /\ f.sip = ip

\* The DECLINE of acd_restart, as opposed to the one of a passive retreat.
RestartDecline(c, f) ==
    f # NoFrame /\ Emitted(c, "DECLINE") /\ acd[c].state # PASSIVE_ONGOING

\* The first scheduled announcement after acd_start.
FirstAnnounce(c, ticked) ==
    ticked /\ since[c].ok = 0 /\ since[c].announces = 0 /\ SentKind(c, "announce") > 0

\* started: contexts acd_start was called on; cleared: contexts whose
\* pending restart the upper layer cancelled; ticked: an acd_tmr step;
\* f: the frame of an acd_arp_reply step, NoFrame otherwise. Ages count
\* the acd_tmr iterations a context receives, i.e. while it is listed.
Observe(started, cleared, ticked, f) ==
    /\ since' = [c \in Ctx |->
          IF c \in started THEN FreshHistory
          ELSE [probes |-> CapAt(since[c].probes +
                   (IF ticked /\ since[c].ok = 0 THEN SentKind(c, "probe") ELSE 0),
                   PROBE_NUM + 1),
                announces |-> CapAt(since[c].announces +
                   (IF ticked /\ since[c].ok = 0 THEN SentKind(c, "announce") ELSE 0),
                   ANNOUNCE_NUM + 1),
                ok |-> CapAt(since[c].ok + (IF Emitted(c, "IP_OK") THEN 1 ELSE 0), 2),
                tainted |-> since[c].tainted \/
                   (c \in listed /\ acd[c].state \in ProbePhase /\ f # NoFrame
                    /\ RfcProbeConflict(acd[c].ipaddr, f))]]
    /\ defendAge' = [c \in Ctx |->
          IF c \in started THEN DEFEND_TICKS
          ELSE IF f # NoFrame /\ SentKind(c, "announce") > 0 THEN 0
          ELSE IF ticked /\ c \in listed THEN CapAt(defendAge[c] + 1, DEFEND_TICKS)
          ELSE defendAge[c]]
    /\ streak' = [c \in Ctx |->
          IF FirstAnnounce(c, ticked) THEN 0
          ELSE IF RestartDecline(c, f) THEN CapAt(streak[c] + 1, MAX_CONFLICTS)
          ELSE streak[c]]
    /\ declineAge' = [c \in Ctx |->
          IF RestartDecline(c, f) THEN 0
          ELSE IF ticked /\ c \in listed THEN CapAt(declineAge[c] + 1, RATE_LIMIT_TICKS)
          ELSE declineAge[c]]
    /\ awaitRestart' = [c \in Ctx |->
          IF RestartDecline(c, f) THEN ~Emitted(c, "RESTART_CLIENT")
          ELSE IF Emitted(c, "RESTART_CLIENT") \/ c \in started \/ c \in cleared
          THEN FALSE
          ELSE awaitRestart[c]]
    /\ starts' = [c \in Ctx |-> IF c \in started THEN starts[c] + 1 ELSE starts[c]]

---------------------------------------------------------------------------
(* Entry points. *)

\* acd_add: set the callback and put the struct on the list once.
acd_add(c) ==
    /\ listed' = listed \cup {c}
    /\ cb' = NoOutput /\ tx' = NoOutput
    /\ UNCHANGED <<acd, lastAcd>>
    /\ Observe({}, {}, FALSE, NoFrame)

\* acd_remove: unlink the struct; its fields are left as they are.
acd_remove(c) ==
    /\ c \in listed
    /\ listed' = listed \ {c}
    /\ cb' = NoOutput /\ tx' = NoOutput
    /\ UNCHANGED <<acd, lastAcd>>
    /\ Observe({}, {c}, FALSE, NoFrame)

\* acd_start: no check that c is on the list, num_conflicts is kept.
acd_start(c, ip) ==
    /\ starts[c] < MaxStarts
    /\ \E w \in ACD_RANDOM_PROBE_WAIT :
          acd' = [acd EXCEPT ![c] = [@ EXCEPT !.sent_num = 0, !.lastconflict = 0,
                                     !.ipaddr = ip, !.state = PROBE_WAIT, !.ttw = w]]
    /\ cb' = NoOutput /\ tx' = NoOutput
    /\ UNCHANGED <<listed, lastAcd>>
    /\ Observe({c}, {}, FALSE, NoFrame)

\* acd_stop: only the state changes.
acd_stop(c) ==
    /\ acd' = [acd EXCEPT ![c].state = OFF]
    /\ cb' = NoOutput /\ tx' = NoOutput
    /\ UNCHANGED <<listed, lastAcd>>
    /\ Observe({}, {c}, FALSE, NoFrame)

\* acd_network_changed_link_down: acd_stop on every listed context.
acd_network_changed_link_down ==
    /\ acd' = [c \in Ctx |-> IF c \in listed THEN [acd[c] EXCEPT !.state = OFF]
                                             ELSE acd[c]]
    /\ cb' = NoOutput /\ tx' = NoOutput
    /\ UNCHANGED <<listed, lastAcd>>
    /\ Observe({}, listed, FALSE, NoFrame)

\* acd_tmr: one tick for every listed context.
acd_tmr ==
    /\ \E iv \in [Ctx -> ACD_RANDOM_PROBE_INTERVAL] :
          ApplyListed(LAMBDA c : TmrAcd(acd[c], iv[c]))
    /\ UNCHANGED <<listed, lastAcd>>
    /\ Observe({}, {}, TRUE, NoFrame)

\* acd_arp_reply: every listed context classifies the same frame f; each
\* context that finds a conflict first records f in the TCP/IP object.
acd_arp_reply(f) ==
    /\ ApplyListed(LAMBDA c : ArpReplyAcd(acd[c], f))
    /\ lastAcd' = IF \E c \in listed : Conflicts(acd[c], f) THEN f ELSE lastAcd
    /\ UNCHANGED listed
    /\ Observe({}, {}, FALSE, f)

\* acd_netif_ip_addr_changed: demote the contexts of a link-local address
\* that the interface replaces by a routable one.
acd_netif_ip_addr_changed(old, new) ==
    /\ old \in LinkLocal /\ new \notin LinkLocal
    /\ ApplyListed(LAMBDA c : IF acd[c].ipaddr = old
                              THEN acd_put_in_passive_mode(acd[c])
                              ELSE Result(acd[c], <<>>, <<>>))
    /\ UNCHANGED <<listed, lastAcd>>
    /\ Observe({}, {c \in listed : acd[c].ipaddr = old}, FALSE, NoFrame)

Next ==
    \/ \E c \in Ctx : acd_add(c) \/ acd_remove(c) \/ acd_stop(c)
    \/ \E c \in Ctx : \E ip \in StartAddr[c] : acd_start(c, ip)
    \/ acd_network_changed_link_down
    \/ acd_tmr
    \/ \E f \in Frames : acd_arp_reply(f)
    \/ \E old, new \in Addr : acd_netif_ip_addr_changed(old, new)

\* acd_tmr is called every ACD_TMR_INTERVAL by the lwIP timeout thread; the
\* upper layer and the network are under no obligation to act.
Spec == Init /\ [][Next]_vars /\ WF_vars(acd_tmr)

---------------------------------------------------------------------------
(* Properties. *)

\* IP_OK is delivered at most once per acd_start, and only after PROBE_NUM
\* probes and ANNOUNCE_NUM scheduled announcements of acd_tmr (acd.c
\* 447-557): the probe counter must be reset between the two phases.
IpOkAfterFullProtocol ==
    \A c \in Ctx : since[c].ok > 0 =>
        /\ since[c].ok = 1
        /\ since[c].probes = PROBE_NUM
        /\ since[c].announces = ANNOUNCE_NUM

\* A context that, while probing, was delivered an ARP frame that RFC 5227
\* 2.1.1 calls a conflict never reports IP_OK for that acd_start
\* (acd_arp_reply 714-741 and acd_restart 643-666 must stop it).
NoIpOkAfterProbeConflict ==
    \A c \in Ctx : since[c].tainted => since[c].ok = 0

\* The defense policy of acd_handle_arp_conflict (RFC 5227 2.4 b): a
\* conflicting frame in ANNOUNCING or ONGOING makes the context give up
\* the address iff it already defended within the last DEFEND_INTERVAL;
\* otherwise it keeps the address and sends one announcement.
DefendOnceThenRetreat ==
    [][\A c \in listed, f \in Frames :
         (acd_arp_reply(f) /\ acd[c].state \in {ANNOUNCING, ONGOING}
          /\ RfcClaimConflict(acd[c].ipaddr, f))
         => IF defendAge[c] < DEFEND_TICKS
            THEN Emitted(c, "DECLINE")
            ELSE ~Emitted(c, "DECLINE") /\ SentKind(c, "announce") = 1
      ]_vars

\* After MAX_CONFLICTS conflicts without reaching ANNOUNCING, the client is
\* told to restart only RATE_LIMIT_INTERVAL after the decline (RFC 5227
\* 2.1.1; acd_restart 653-658 and the RATE_LIMIT case of acd_tmr).
RateLimitHonoured ==
    [][\A c \in Ctx :
         (Emitted(c, "RESTART_CLIENT") /\ streak'[c] >= MAX_CONFLICTS)
         => declineAge'[c] >= RATE_LIMIT_TICKS
      ]_vars

\* A context that declined through acd_restart is eventually told
\* RESTART_CLIENT, unless the upper layer stops, restarts, removes or
\* demotes it first.
RestartEventuallyReported ==
    \A c \in Ctx : awaitRestart[c] ~> ~awaitRestart[c]

\* A listed context in the probe phase eventually leaves it.
ProbingEnds ==
    \A c \in Ctx : (c \in listed /\ acd[c].state \in ProbePhase)
                   ~> (c \notin listed \/ acd[c].state \notin ProbePhase)

---------------------------------------------------------------------------
(* Refinement: the client's view of every struct acd. *)

AbsPhase(s) ==
    CASE s = OFF -> "idle"
      [] s \in ProbePhase \cup {ANNOUNCING} -> "claiming"
      [] s = ONGOING -> "held"
      [] s = PASSIVE_ONGOING -> "passive"
      [] s = RATE_LIMIT -> "backoff"

Abstract == INSTANCE AcdAbstract WITH
                listed <- listed,
                phase <- [c \in Ctx |-> AbsPhase(acd[c].state)], said <- cb

\* Acd implements AcdAbstract: every step of every entry point tells each
\* client only the callbacks its phase change allows (IP_OK only on the
\* way from probing or announcing to ONGOING, RESTART_CLIENT only on
\* leaving for OFF, nothing while unlisted), and under the fairness of
\* acd_tmr alone a listed context leaves the probe, announce and rate-limit
\* phases.
AcdRefinesAbstract == Abstract!Spec

=============================================================================
