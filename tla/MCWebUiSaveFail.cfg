\* NvTcpipStore fails after g_tcpip was updated.
CONSTANTS
    v1 = v1
    absent = absent
    Absent = absent
    Val <- MCVal
    IpFields <- MCIpFields
    DnsFields <- MCDnsFields
SPECIFICATION Spec
PROPERTY FailedPostChangesNothing
