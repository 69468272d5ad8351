CONSTANTS
    PT_LOAD = PT_LOAD
    PT_NOTE = PT_NOTE
    NULL = NULL
    MaxAddr <- MCMaxAddr
    MaxSegs <- MCMaxSegs
    SegTypes <- MCSegTypes
SPECIFICATION Spec
INVARIANTS
    TypeOK
    EndVAIsExtent
PROPERTY
    AddressMapSpec
