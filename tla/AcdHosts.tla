------------------------------ MODULE AcdHosts ------------------------------
(***************************************************************************)
(* Two devices running acd.c on one Ethernet segment, each with one struct *)
(* acd (the client of its address). The per-context steps are those of     *)
(* Acd, instantiated once per host with the host's own hardware address.   *)
(*                                                                         *)
(* The segment carries the frames etharp_acd_probe and etharp_acd_announce *)
(* send and the replies of etharp_input, which is lwIP code outside this   *)
(* repository: it hands every ARP frame to acd_arp_reply first and then    *)
(* answers a request for the address the interface has bound. The client   *)
(* binds the address when told IP_OK and drops it on DECLINE, so a host's  *)
(* interface has the address exactly while its context is ONGOING.         *)
(*                                                                         *)
(* Faults: a frame may be lost, at most MaxLoss times, or duplicated, at  *)
(* most MaxDup times; frames in flight are delivered in any order. The    *)
(* segment's latency is far below the tick, so a host's timer runs only   *)
(* when no frame is in flight.                                             *)
(***************************************************************************)
EXTENDS Integers, Sequences, Bags, BagsExt

CONSTANTS
    Host,           \* the devices, identified by their hardware address
    Addr, ANY,
    ACD_TMR_INTERVAL,
    PROBE_WAIT_MS, PROBE_MIN_MS, PROBE_MAX_MS, PROBE_NUM,
    ANNOUNCE_WAIT_MS, ANNOUNCE_INTERVAL_MS, ANNOUNCE_NUM,
    PERIODIC_DEFEND_MS, MAX_CONFLICTS, RATE_LIMIT_INTERVAL, DEFEND_INTERVAL,
    MaxStarts,      \* model bound: acd_start calls per host
    MaxLoss,        \* model bound: frames the segment loses in a behaviour
    MaxDup          \* model bound: frames the segment duplicates

VARIABLES
    acd,      \* acd[h]: the struct acd of host h
    net,      \* the bag of frames in flight
    lost,     \* frames lost so far
    dups,     \* frames duplicated so far
    starts,   \* acd_start calls made by each host's client
    claim     \* history of h's last acd_start: .held: the other host had the
              \* address bound and no defense within DEFEND_INTERVAL behind
              \* it; .lost: frames lost before it; .ok: IP_OK since

vars == <<acd, net, lost, dups, starts, claim>>

\* The engine of host h: the pure per-context steps of Acd, seen by a
\* context whose netif->hwaddr is h. Acd's other state is not used here;
\* Engine(ANY) gives the definitions that do not depend on the host.
Engine(h) == INSTANCE Acd WITH
    Ctx <- Host, Mac <- Host, OwnMac <- h, LinkLocal <- {},
    StartAddr <- [x \in Host |-> Addr],
    listed <- Host, cb <- [x \in Host |-> <<>>], tx <- [x \in Host |-> <<>>],
    lastAcd <- ANY, since <- 0, defendAge <- 0, streak <- 0,
    declineAge <- 0, awaitRestart <- 0

\* A copy of an ARP frame on its way to host `to`: opcode, sender IP and
\* MAC, target IP. A request is broadcast, one copy per other host; a reply
\* goes to the requester's MAC.
Wire == [op : {"request", "reply"}, sip : Addr \cup {ANY},
         shwaddr : Host, dip : Addr \cup {ANY}, to : Host]

\* The header fields acd_arp_reply reads.
Hdr(f) == [sip |-> f.sip, shwaddr |-> f.shwaddr, dip |-> f.dip]

\* etharp_acd_probe / etharp_acd_announce: requests for ip, from 0.0.0.0
\* or from ip itself.
OnWire(h, ip, sent, to) ==
    [op |-> "request", sip |-> IF sent = "probe" THEN ANY ELSE ip,
     shwaddr |-> h, dip |-> ip, to |-> to]

\* The frames a step of host h's engine sent (at most one), as a bag of
\* the copies the other hosts receive.
Sends(h, ip, sent) ==
    SetToBag({OnWire(h, ip, sent[i], to) : i \in DOMAIN sent, to \in Host \ {h}})

Bound(h) == acd[h].state = Engine(ANY)!ONGOING

TypeOK ==
    /\ acd \in [Host -> Engine(ANY)!AcdRec]
    /\ IsABag(net) /\ BagToSet(net) \subseteq Wire
    /\ lost \in 0..MaxLoss /\ dups \in 0..MaxDup
    /\ starts \in [Host -> 0..MaxStarts]
    /\ claim \in [Host -> [held : BOOLEAN, lost : 0..MaxLoss, ok : BOOLEAN]]

Init ==
    /\ acd = [h \in Host |-> [state |-> Engine(ANY)!OFF, ipaddr |-> ANY, sent_num |-> 0,
                              ttw |-> 0, lastconflict |-> 0, num_conflicts |-> 0]]
    /\ net = EmptyBag
    /\ lost = 0 /\ dups = 0
    /\ starts = [h \in Host |-> 0]
    /\ claim = [h \in Host |-> [held |-> FALSE, lost |-> 0, ok |-> FALSE]]

---------------------------------------------------------------------------
\* The client of host h calls acd_start(ip) after its last attempt ended.
\* A client that tries the same address again (DHCP after a new offer, a
\* static configuration) does so from its own timers, seconds later, when
\* no frame of the last attempt is still in flight.
Start(h, ip) ==
    /\ acd[h].state = Engine(h)!OFF /\ starts[h] < MaxStarts
    /\ net = EmptyBag
    /\ \E w \in Engine(h)!ACD_RANDOM_PROBE_WAIT :
          acd' = [acd EXCEPT ![h] = [@ EXCEPT !.sent_num = 0, !.lastconflict = 0,
                                     !.ipaddr = ip, !.state = Engine(h)!PROBE_WAIT, !.ttw = w]]
    /\ starts' = [starts EXCEPT ![h] = @ + 1]
    /\ claim' = [claim EXCEPT ![h] =
                    [held |-> \E o \in Host \ {h} :
                                 Bound(o) /\ acd[o].ipaddr = ip /\ acd[o].lastconflict = 0,
                     lost |-> lost, ok |-> FALSE]]
    /\ UNCHANGED <<net, lost, dups>>

\* acd_tmr on host h, with the one listed context.
Tick(h) ==
    /\ net = EmptyBag
    /\ \E iv \in Engine(h)!ACD_RANDOM_PROBE_INTERVAL :
          LET r == Engine(h)!TmrAcd(acd[h], iv) IN
          /\ acd' = [acd EXCEPT ![h] = r.acd]
          /\ net' = Sends(h, acd[h].ipaddr, r.tx)
          /\ claim' = [claim EXCEPT ![h].ok = @ \/ r.cb = <<"IP_OK">>]
    /\ UNCHANGED <<lost, dups, starts>>

\* etharp_input on host h for its copy f of a frame: acd_arp_reply, then the reply to a
\* request for the address the interface now holds.
Receive(h, f) ==
    /\ BagIn(f, net) /\ f.to = h
    /\ LET r == Engine(h)!ArpReplyAcd(acd[h], Hdr(f))
           ip == acd[h].ipaddr
           answer == f.op = "request" /\ f.dip = ip /\ r.acd.state = Engine(ANY)!ONGOING
           reply == [op |-> "reply", sip |-> ip, shwaddr |-> h, dip |-> f.sip,
                     to |-> f.shwaddr]
       IN
       /\ acd' = [acd EXCEPT ![h] = r.acd]
       /\ net' = LET rest == BagRemove(net, f) (+) Sends(h, ip, r.tx)
                 IN IF answer THEN BagAdd(rest, reply) ELSE rest
    /\ UNCHANGED <<lost, dups, starts, claim>>

\* The segment drops a frame.
Lose(f) ==
    /\ BagIn(f, net) /\ lost < MaxLoss
    /\ net' = BagRemove(net, f)
    /\ lost' = lost + 1
    /\ UNCHANGED <<acd, dups, starts, claim>>

\* The segment delivers a frame twice (a switch flooding it on two paths,
\* a retransmission by a bridge).
Duplicate(f) ==
    /\ BagIn(f, net) /\ dups < MaxDup
    /\ net' = BagAdd(net, f)
    /\ dups' = dups + 1
    /\ UNCHANGED <<acd, lost, starts, claim>>

Next ==
    \/ \E h \in Host, ip \in Addr : Start(h, ip)
    \/ \E h \in Host : Tick(h)
    \/ \E h \in Host, f \in BagToSet(net) : Receive(h, f)
    \/ \E f \in BagToSet(net) : Lose(f)
    \/ \E f \in BagToSet(net) : Duplicate(f)

\* Each host's lwIP timer runs acd_tmr, and its netif input runs
\* etharp_input for every frame the segment delivers; the clients, the
\* losses and the duplicates are under no obligation.
Fairness ==
    /\ \A h \in Host : WF_vars(Tick(h))
    /\ \A h \in Host : WF_vars(\E f \in BagToSet(net) : Receive(h, f))

Spec == Init /\ [][Next]_vars /\ Fairness

---------------------------------------------------------------------------
(* Properties. *)

\* A device whose client starts ACD on an address another device already
\* holds, and has not had to defend within DEFEND_INTERVAL, never reports
\* IP_OK for that attempt as long as the segment lost at most PROBE_NUM
\* frames since (three suffice with PROBE_NUM = 2, as RFC 5227 accepts; a
\* holder that defended recently retreats on the first announcement, as
\* acd_handle_arp_conflict's defend-once rule says): each probe of acd_tmr draws an ARP reply from the holder,
\* which acd_arp_reply must take as a conflict in the probe phase and
\* acd_restart must end the attempt; an attempt that got through to
\* ANNOUNCING draws both a defense and a reply, and a second conflict
\* within DEFEND_INTERVAL makes it retreat.
IncumbentProtected ==
    \A h \in Host : claim[h].held /\ lost - claim[h].lost <= PROBE_NUM => ~claim[h].ok

\* Two devices that both hold one address (both ONGOING on it, e.g. after
\* their probes or announcements were lost) do not keep it forever: the
\* periodic defensive probe of acd_tmr's ONGOING case draws an ARP reply
\* from the other device, acd_arp_reply sees a conflict and, with the
\* defend-once rule of acd_handle_arp_conflict, one of them gives it up.
DuplicateResolved ==
    \A a \in Addr :
        (\A h \in Host : Bound(h) /\ acd[h].ipaddr = a)
        ~> ~(\A h \in Host : Bound(h) /\ acd[h].ipaddr = a)
=============================================================================
