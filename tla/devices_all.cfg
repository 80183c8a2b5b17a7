CONSTANTS
    o1 = o1
    o2 = o2
    Objects <- TwoObjects
    Casts <- TwoCasts
    MaxFiles = 2
    MaxFaults = 1
    SpiCalls <- OneSpiCalls
    MaxCalls = 3
    ModeBits = {"cpha", "cpol"}
    OrderBits = {"lsb"}
    LowBits = {"low"}
    HighBits = {"high"}
    FONT_ARRAY_SIZE = 2
    MaxCrashes = 1
SYMMETRY Symmetry
SPECIFICATION Spec
INVARIANTS DevicesTypeOK Owned SettingsAsAsked ReadsOneSave
