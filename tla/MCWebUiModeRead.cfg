\* A static device switched to DHCP by a POST that names an address.
CONSTANTS
    v1 = v1
    absent = absent
    Absent = absent
    Val <- MCVal
    IpFields <- MCIpFields
    DnsFields <- MCDnsFields
SPECIFICATION Spec
PROPERTY PostFollowsCurrentMode
