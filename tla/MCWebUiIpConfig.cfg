\* Any stored start configuration, any request order and outcome.
CONSTANTS
    v1 = v1
    absent = absent
    Absent = absent
    Val <- MCVal
    IpFields <- MCIpFields
    DnsFields <- MCDnsFields
SPECIFICATION Spec
INVARIANTS TypeOK ApiServedWhileRunning
PROPERTY RebootRunsSavedConfig
