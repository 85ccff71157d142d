---------------------------- MODULE AcdAbstract ----------------------------
(***************************************************************************)
(* What the ACD engine promises the client of each struct acd, in the      *)
(* terms the client sees: the phase the attempt is in and the callbacks it *)
(* is told in one step. Probes, announcements, countdowns and the conflict *)
(* rules are hidden. Acd implements this specification under the mapping  *)
(* Abstract in Acd.tla.                                                    *)
(***************************************************************************)
EXTENDS Sequences

CONSTANT Ctx

VARIABLES
    listed,   \* the contexts on the interface's list
    phase,    \* phase[c]: where the attempt of c stands
    said      \* said[c]: the callbacks c was told in the last step

avars == <<listed, phase, said>>

\* idle: no attempt; claiming: probing or announcing; held: the address is
\* ours and defended; passive: kept without defense; backoff: rate limited.
Phases == {"idle", "claiming", "held", "passive", "backoff"}

\* <<before, told, after>>: the changes of one context a client may see in
\* one step.
Quiet == {<<p, <<>>, p>> : p \in Phases}
Commands == {<<p, <<>>, q>> : p \in Phases, q \in {"idle", "claiming"}}
Verdicts ==
    { <<"claiming", <<"IP_OK">>, "held">>,
      <<"claiming", <<"DECLINE", "RESTART_CLIENT">>, "idle">>,
      <<"held", <<"DECLINE", "RESTART_CLIENT">>, "idle">>,
      <<"claiming", <<"DECLINE">>, "backoff">>,
      <<"held", <<"DECLINE">>, "backoff">>,
      <<"backoff", <<"RESTART_CLIENT">>, "idle">>,
      <<"passive", <<"DECLINE">>, "idle">> }
\* The interface gives up a link-local address for a routable one.
Demotions ==
    { <<"claiming", <<>>, "passive">>, <<"held", <<>>, "passive">>,
      <<"claiming", <<"DECLINE">>, "idle">>, <<"backoff", <<"DECLINE">>, "idle">> }
Moves == Quiet \cup Commands \cup Verdicts \cup Demotions

TypeOK ==
    /\ listed \subseteq Ctx
    /\ phase \in [Ctx -> Phases]
    /\ said \in [Ctx -> {m[2] : m \in Moves}]

Init ==
    /\ listed = {}
    /\ phase = [c \in Ctx |-> "idle"]
    /\ said = [c \in Ctx |-> <<>>]

\* Every context makes one of its moves; only listed contexts are told
\* anything.
Step ==
    /\ listed' \subseteq Ctx
    /\ \A c \in Ctx : <<phase[c], said'[c], phase'[c]>> \in Moves
    /\ \A c \in Ctx \ listed : said'[c] = <<>>

\* A listed context that is claiming or rate limited leaves that phase.
Unsettled(c) == c \in listed /\ phase[c] \in {"claiming", "backoff"}
Settle(c) == Unsettled(c) /\ Step /\ phase'[c] # phase[c]

Next == Step

\* WF_avars(Settle(c)) for every c, with ENABLED <<Settle(c)>>_avars worked
\* out: a move to idle is always possible, so it is Unsettled(c).
Fairness == \A c \in Ctx : <>[]Unsettled(c) => []<><<Settle(c)>>_avars

Spec == Init /\ [][Next]_avars /\ Fairness
=============================================================================
