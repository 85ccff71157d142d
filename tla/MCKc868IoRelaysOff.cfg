\* After an ESP32 restart, are the relays off once the outputs are initialised?
CONSTANTS
    Patterns <- MCPatterns
    Raw <- MCRawZero
    MaxInits = 1
    MaxBoots = 2
SPECIFICATION Spec
INVARIANTS RelaysOffUntilCommanded
