\* Files whose e_shstrndx (or section 0's sh_link) names the slot just past
\* the section table.
CONSTANTS
    NONE = NONE
    SHT_NULL = "NULL"
    MaxSections = 1
    Bases <- MCBases
    SecTypes <- MCSecTypes
    QueryTypes <- MCQueryTypes
    WithZlib = TRUE
    BadIndex = TRUE
    PlainZdebug = FALSE
SPECIFICATION Spec
INVARIANT ShstrIndexInBounds
