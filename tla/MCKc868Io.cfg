\* The KC868-A16 I/O application across initialisation failures, I2C
\* transfer failures, restarts and power cycles.
CONSTANTS
    Patterns <- MCPatterns
    Raw <- MCRawZero
    MaxInits = 1
    MaxBoots = 2
SPECIFICATION Spec
INVARIANTS RelaysFollowOutputAssembly InputsReportTerminals
