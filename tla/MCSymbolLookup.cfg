\* .symtab of up to two symbols, .dynsym and the nested .gnu_debugdata
\* .symtab of up to one.
CONSTANTS
    NULL = NULL
    STT_NOTYPE <- MCSTT_NOTYPE
    Addrs <- MCAddrs
    QueryAddrs <- MCQueryAddrs
    Sizes <- MCSizes
    SymTypes <- MCSymTypes
    QueryTypes <- MCQueryTypes
    Alloc <- MCAlloc
    ShndxValues <- MCShndx
    SymUniverse <- MCSymUniverse
    MaxSymtab = 2
    MaxDynsym = 1
    MaxDebugdata = 1
SPECIFICATION Spec
INVARIANTS
    TypeOK
    CoveringPreferred
