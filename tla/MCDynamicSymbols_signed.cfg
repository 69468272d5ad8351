\* An x86 build (signed char) looking names up through .hash only.
CONSTANTS
    NULL = NULL
    Bytes <- MCBytes
    LongNames <- MCLongNames
    SymtabChoices <- MCSymtabChoices
    MaxName = 2
    MaxDynsym = 2
    CharSigned = TRUE
    SysvBuckets = {2, 3}
    GnuBuckets = {1}
    SymOffsets = {}
    BloomSizes = {1}
    BloomShifts = {5}
    ELF_BITS = 64
SPECIFICATION Spec
INVARIANT
    DynamicSymbolFound
