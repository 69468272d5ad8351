\* Well-formed files: every string table index is within the table, and
\* every .zdebug_ section starts with the "ZLIB" header.
CONSTANTS
    NONE = NONE
    SHT_NULL = "NULL"
    MaxSections = 2
    Bases <- MCBases
    SecTypes <- MCSecTypes
    QueryTypes <- MCQueryTypes
    WithZlib = TRUE
    BadIndex = FALSE
    PlainZdebug = FALSE
SPECIFICATION Spec
INVARIANTS
    TypeOK
    
    AllSectionsNamed
    IoAsSpecified
