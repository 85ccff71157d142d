------------------------------ MODULE MCAcdHosts ------------------------------
(* AcdHosts for TLC: two devices whose clients may pick the same address  *)
(* or, after losing it, the other one, with one-second ticks so that every *)
(* countdown is one or two ticks long.                                     *)
EXTENDS AcdHosts, TLC

CONSTANTS hostA, hostB, x, y, zero

MCHost == {hostA, hostB}
MCAddr == {x, y}
===============================================================================
