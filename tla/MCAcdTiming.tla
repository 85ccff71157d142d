---------------------------- MODULE MCAcdTiming ----------------------------
(* Acd with the RFC 5227 default timing of spec.md 4.1 and a 100 ms tick,  *)
(* one context and no conflicting traffic (every frame carries our own     *)
(* MAC), to measure how long acd_start takes to deliver IP_OK.             *)
EXTENDS Acd, TLC

CONSTANTS dhcp, routable, own, zero

VARIABLE elapsed   \* elapsed[c]: acd_tmr iterations c received since acd_start

ElapsedCap == 120

TimingCtx == {dhcp}
TimingAddr == {routable}
EmptyAddr == {}
TimingMac == {own}
TimingStartAddr == [c \in TimingCtx |-> TimingAddr]

TimingInit == Init /\ elapsed = [c \in Ctx |-> 0]

TimingNext ==
    /\ Next
    /\ elapsed' = [c \in Ctx |->
          IF starts'[c] # starts[c] THEN 0
          ELSE IF acd_tmr /\ c \in listed THEN CapAt(elapsed[c] + 1, ElapsedCap)
          ELSE elapsed[c]]

TimingSpec == TimingInit /\ [][TimingNext]_<<vars, elapsed>> /\ WF_vars(acd_tmr)

\* spec.md 8: with the defaults, start() reaches ONGOING and fires IP_OK
\* "never earlier than 3*1000+2000+2*2000=9000ms" ...
SpecMinIpOkMs == PROBE_NUM * PROBE_MIN_MS + ANNOUNCE_WAIT_MS
                 + ANNOUNCE_NUM * ANNOUNCE_INTERVAL_MS
\* ... and "within at most 1000 + 3*2000 + 2000 + 2*2000 = 11000 ms (110
\* ticks)". That sum is 13000; the stated 11000 ms is the stricter bound.
SpecMaxIpOkMs == 11000

\* IP_OK is never delivered before SpecMinIpOkMs of acd_tmr ticks have
\* passed since acd_start (the probe and announce schedule of acd_tmr).
IpOkNotBeforeSpecMinimum ==
    [][\A c \in Ctx : Emitted(c, "IP_OK") =>
                      elapsed'[c] * ACD_TMR_INTERVAL >= SpecMinIpOkMs]_<<vars, elapsed>>

\* A context that acd_tmr keeps ticking is never still probing or
\* announcing after SpecMaxIpOkMs: the jittered probe intervals, the
\* announce wait and the announce interval of acd_tmr add up to less.
IpOkWithinSpecMaximum ==
    \A c \in Ctx : acd[c].state \in ProbePhase \cup {ANNOUNCING}
                   => elapsed[c] * ACD_TMR_INTERVAL <= SpecMaxIpOkMs
=============================================================================
