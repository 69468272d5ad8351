\* An arm build (unsigned char): every lookup agrees with the tables.
CONSTANTS
    NULL = NULL
    Bytes <- MCBytes
    LongNames <- MCLongNames
    SymtabChoices <- MCSymtabChoices
    MaxName = 2
    MaxDynsym = 3
    CharSigned = FALSE
    SysvBuckets = {1, 2, 3}
    GnuBuckets = {1, 2}
    SymOffsets = {1, 2}
    BloomSizes = {1, 2}
    BloomShifts = {5, 17}
    ELF_BITS = 64
SPECIFICATION Spec
INVARIANTS
    TypeOK
    DynamicSymbolFound
    DebugSymbolFound
