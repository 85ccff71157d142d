----------------------------- MODULE MCAcdWrap -----------------------------
(* Acd from a state reached by a host that never got past probing: its     *)
(* context has been restarted NUM_CONFLICTS_WRAP - 1 times since it last   *)
(* entered ANNOUNCING (each time acd_start, a conflicting frame, the rate  *)
(* limit and RESTART_CLIENT), so num_conflicts is one below the wrap and   *)
(* the history counts a full streak of conflicts, the last one long ago.   *)
EXTENDS MCAcd

\* Init, with acd (its conjunct 2) and streak (conjunct 8) replaced.
WrapInit ==
    /\ Init!1 /\ Init!3 /\ Init!4 /\ Init!5 /\ Init!6 /\ Init!7 /\ Init!9
    /\ Init!10 /\ Init!11
    /\ acd = [c \in Ctx |-> [state |-> OFF, ipaddr |-> ANY, sent_num |-> 0, ttw |-> 0,
                             lastconflict |-> 0, num_conflicts |-> NUM_CONFLICTS_WRAP - 1]]
    /\ streak = [c \in Ctx |-> MAX_CONFLICTS]

WrapSpec == WrapInit /\ [][Next]_vars /\ WF_vars(acd_tmr)
=============================================================================
