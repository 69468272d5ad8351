\* Is the zero-size exact match returned as it is stored in its table?
CONSTANTS
    NULL = NULL
    STT_NOTYPE <- MCSTT_NOTYPE
    Addrs <- MCAddrs
    QueryAddrs <- MCQueryAddrs
    Sizes <- MCSizes
    SymTypes <- MCSymTypes
    QueryTypes <- MCQueryTypes
    Alloc <- MCAlloc
    ShndxValues <- MCShndx
    SymUniverse <- MCSymUniverse
    MaxSymtab = 1
    MaxDynsym = 1
    MaxDebugdata = 1
SPECIFICATION Spec
INVARIANTS
    ResultIsTableEntry
