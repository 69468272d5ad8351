\* Files with a .zdebug_ section whose bytes do not start with "ZLIB"; two
\* sections, so that it need not be the string table.
CONSTANTS
    NONE = NONE
    SHT_NULL = "NULL"
    MaxSections = 2
    Bases <- MCBases
    SecTypes <- MCSecTypes
    QueryTypes <- MCQueryTypes
    WithZlib = TRUE
    BadIndex = FALSE
    PlainZdebug = TRUE
SPECIFICATION Spec
INVARIANT IoAsSpecified
    IoAsSpecified
