------------------------- MODULE MCWebUiIpConfig --------------------------
(* One address value, one static field and one DNS field: ip_address,     *)
(* netmask and gateway are parsed and applied under the same condition,   *)
(* and so are dns1 and dns2.                                              *)
EXTENDS WebUiIpConfig

CONSTANTS v1, absent

MCVal == {v1}
MCIpFields == {"ip_address"}
MCDnsFields == {"dns1"}
=============================================================================
