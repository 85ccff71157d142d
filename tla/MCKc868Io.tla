----------------------------- MODULE MCKc868Io -----------------------------
(* Kc868Io for TLC. MCPatterns: output bytes and input terminal patterns  *)
(* that tell the two bytes and a bit from its complement apart. The ADC    *)
(* values never steer the code, so the run of the digital I/O reads 0 from *)
(* every channel, and the run of the analog bytes reads failures and       *)
(* values whose two bytes differ, with a single terminal pattern.          *)
EXTENDS Kc868Io, TLC

MCPatterns == {0, 1}
MCRawZero == {0}
MCPatternsOff == {0}
MCRaw == {Fail, 4095}
=============================================================================
