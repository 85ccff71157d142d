\* The analog bytes of the input assembly across ADC failures and restarts.
CONSTANTS
    Patterns <- MCPatternsOff
    Raw <- MCRaw
    MaxInits = 1
    MaxBoots = 0
SPECIFICATION Spec
INVARIANTS AnalogEncodesReading
