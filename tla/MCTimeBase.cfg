SPECIFICATION Spec
CONSTANTS
    EClock = 4
    Byte = 2
    ColourClock = 2
    LineLength = 3
    LinesPerFrame = 2
    Instructions = {3, 5}
    CiaReads <- MCCiaReads
    CiaWrites <- MCCiaWrites
    IntreqBits <- MCIntreqBits
    Intena = {"PORTS", "VERTB", "EXTER"}
    MaxAccesses = 2
INVARIANTS IrqLevelIsCurrent
PROPERTIES ImplementsEager
