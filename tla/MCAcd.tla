------------------------------- MODULE MCAcd -------------------------------
(* Acd instantiated for TLC: the context sets (one DHCP context, or the    *)
(* DHCP and the AutoIP context of one interface), their addresses and the  *)
(* peer's hardware address. The cfg files choose the timing so that every  *)
(* countdown, the defense window and the rate limit are a few ticks long.  *)
EXTENDS Acd, TLC

CONSTANTS dhcp, autoip, routable, linklocal, own, peer, zero

MCCtx == {dhcp, autoip}
MCCtxOne == {dhcp}
MCAddr == {routable, linklocal}
MCLinkLocal == {linklocal}
MCMac == {own, peer}
MCPeerMac == {peer}

\* The DHCP client checks the routable address it was offered; AutoIP only
\* ever picks link-local addresses. A lone context may be given either.
MCStartAddr == [c \in MCCtx |-> IF c = autoip THEN MCLinkLocal ELSE {routable}]
MCStartAddrOne == [c \in MCCtxOne |-> MCAddr]

\* acd_tmr every 500 ms: 2 ticks per second.
MCTmrInterval == 500

=============================================================================
