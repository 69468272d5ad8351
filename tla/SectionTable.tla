---------------------------- MODULE SectionTable ----------------------------
(***************************************************************************)
(* The section header table of an Elf::Object (src/elf.cc):                *)
(*                                                                         *)
(*  - the constructor reads e_shnum headers (or, when e_shnum is 0 and     *)
(*    e_shentsize is not, as many as section 0's sh_size says), keeps a    *)
(*    null section when there are none, and names every section from the   *)
(*    string table e_shstrndx (or section 0's sh_link for SHN_XINDEX);     *)
(*  - Object::getSection(name, type) with its ".z" and ".dwo" retries,     *)
(*    and Object::getSection(idx);                                         *)
(*  - Section::io, which picks and caches the reader of a section.         *)
(*                                                                         *)
(* A section name is a record: its prefix (".debug_", ".zdebug_" or any   *)
(* other), a base, and whether it ends in ".dwo".  sectionHeaders[i + 1]   *)
(* is section i.                                                           *)
(***************************************************************************)
EXTENDS Naturals, Sequences, FiniteSets, SequencesExt

CONSTANTS
    Bases,          \* what follows the prefix of a name
    MaxSections,    \* sections in the file after section 0
    SecTypes,       \* sh_type values of sections 1..
    QueryTypes,     \* type arguments of getSection
    SHT_NULL,
    WithZlib,       \* built WITH_ZLIB
    BadIndex,       \* files whose string table index may be out of range
    PlainZdebug,    \* files with a .zdebug_ section not starting "ZLIB"
    NONE            \* Section::io_ not yet set

SHN_UNDEF == 0
SHN_XINDEX == 65535
Shentsize == 64

Names == [pre: {"debug", "zdebug", "other"}, base: Bases, dwo: BOOLEAN]
NoName == [pre |-> "none", base |-> "", dwo |-> FALSE]   \* ""

(***************************************************************************)
(* A header in the file.  compressed: SHF_COMPRESSED; magic: the section   *)
(* begins with "ZLIB" (only .zdebug_ sections are read that way, and they  *)
(* do not also carry SHF_COMPRESSED).                                      *)
(***************************************************************************)
Shdr == {h \in [name: Names, type: SecTypes, compressed: BOOLEAN, magic: BOOLEAN,
                sh_size: {0}, sh_link: {0}] :
           /\ h.magic => h.name.pre = "zdebug"
           /\ h.name.pre = "zdebug" /\ ~PlainZdebug => h.magic
           /\ h.compressed => h.name.pre # "zdebug"}

\* Section 0 as the file holds it, and the default-constructed Section().
Shdr0(size, link) ==
    [name |-> NoName, type |-> SHT_NULL, compressed |-> FALSE, magic |-> FALSE,
     sh_size |-> size, sh_link |-> link]
NullSection == Shdr0(0, 0)

FileSections ==
    {s \in UNION {[1..n -> Shdr] : n \in 0..MaxSections} :
        IsInjective([i \in DOMAIN s |-> s[i].name])}

(***************************************************************************)
(* ELF header fields, for a file with n sections after section 0, as      *)
(* writers produce them: e_shnum counts section 0 too, or is 0 with the    *)
(* count in section 0's sh_size; the string table index is e_shstrndx, or  *)
(* SHN_XINDEX with the index in section 0's sh_link.  With BadIndex the    *)
(* index may name the slot just past the table.                            *)
(***************************************************************************)
Ehdrs(n) ==
    LET top == IF BadIndex THEN n + 1 ELSE n
        idx == 1..top
    IN {e \in [shoffOk: BOOLEAN, shnum: {0, n + 1}, shentsize: {0, Shentsize},
               shstrndx: {SHN_UNDEF, SHN_XINDEX} \cup idx, size0: {0, n + 1},
               link0: {0} \cup idx] :
          /\ e.shnum # 0 => e.shentsize = Shentsize /\ e.size0 = 0
          /\ e.shnum = 0 /\ e.shentsize # 0 => e.size0 = n + 1
          /\ e.shnum = 0 /\ e.shentsize = 0 => n = 0 /\ e.shstrndx = SHN_UNDEF
          /\ e.shstrndx = SHN_XINDEX <=> e.link0 # 0}

VARIABLES
    file,           \* the section headers in the file, section 0 first
    ehdr,           \* the ELF header fields that place and count them
    sectionHeaders, \* Object::sectionHeaders
    namedSection,   \* Object::namedSection: name -> index
    outOfRange,     \* the constructor indexed past sectionHeaders
    io,             \* Section::io_ of each section: NONE or the reader kind
    query,          \* NONE or the last getSection call
    result          \* the index of the section it returned

vars == <<file, ehdr, sectionHeaders, namedSection, outOfRange, io, query, result>>

Sec(i) == sectionHeaders[i + 1]
Indices == 0..(Len(sectionHeaders) - 1)

\* A bug that ignores the extended count in section 0's sh_size.
HeaderCountShnum(e) == e.shnum

(***************************************************************************)
(* How many headers the constructor reads: e_shnum, or, when that is 0    *)
(* and e_shentsize is not, section 0's sh_size (at least section 0 itself *)
(* is read, since the count is only replaced inside the loop).            *)
(***************************************************************************)
HeaderCount(e) ==
    IF e.shnum = 0 /\ e.shentsize # 0 THEN Max({1, e.size0}) ELSE e.shnum

\* A bug that numbers sections from 1.
SectionNameMapFromOne(hs) ==
    [nm \in {hs[i].name : i \in DOMAIN hs} |-> Max({i \in DOMAIN hs : hs[i].name = nm})]

\* namedSection[name] = secid++ over all headers: a later duplicate wins.
SectionNameMap(hs) ==
    [nm \in {hs[i].name : i \in DOMAIN hs} |-> Max({i \in DOMAIN hs : hs[i].name = nm}) - 1]

(***************************************************************************)
(* The section part of Object::Object, over the headers f in the file.     *)
(* Returns the table, the name map, the string table's index (NONE when   *)
(* nothing is named or the index is out of range), and whether            *)
(* sectionHeaders[shstrSec] was past the end (the vector is indexed        *)
(* without a check; what that reads is undefined, and the model goes on    *)
(* with the names the file meant).                                         *)
(***************************************************************************)
Construct(f, e) ==
    LET read    == IF e.shoffOk THEN SubSeq(f, 1, HeaderCount(e)) ELSE << >>
        headers == IF read = << >> THEN <<NullSection>> ELSE read
        named   == e.shoffOk /\ e.shstrndx # SHN_UNDEF
        shstrSec == IF e.shstrndx = SHN_XINDEX THEN headers[1].sh_link ELSE e.shstrndx
        final   == IF named THEN headers
                   ELSE [i \in DOMAIN headers |-> [headers[i] EXCEPT !.name = NoName]]
    IN [headers |-> final,
        named   |-> IF named THEN SectionNameMap(final) ELSE << >>,
        strtab  |-> IF named /\ shstrSec < Len(headers) THEN shstrSec ELSE NONE,
        oob     |-> named /\ shstrSec >= Len(headers)]

\* The .z retry: ".z" + name.substr(1) turns ".debug_x" into ".zdebug_x".
ZName(n) == [n EXCEPT !.pre = "zdebug"]

DwoName(n) == [n EXCEPT !.dwo = TRUE]

\* `if (compressed)`: a Section is true unless its type is SHT_NULL.
Present(i) == Sec(i).type # SHT_NULL

(***************************************************************************)
(* Object::getSection(name, type): the named section if its type matches   *)
(* (SHT_NULL matches any); else, for ".debug_" names, the ".zdebug_" name  *)
(* if that finds a section; else, unless the name ends in ".dwo", the name *)
(* with ".dwo" appended; else section 0.                                   *)
(***************************************************************************)
\* A bug that drops the SHT_NULL wildcard.
RECURSIVE GetSectionIdxNoWildcard(_, _)
GetSectionIdxNoWildcard(n, t) ==
    IF n \in DOMAIN namedSection /\ Sec(namedSection[n]).type = t
       THEN namedSection[n]
    ELSE LET c == IF n.pre = "debug" THEN GetSectionIdxNoWildcard(ZName(n), t) ELSE 0
         IN IF Present(c) THEN c
            ELSE IF ~n.dwo THEN GetSectionIdxNoWildcard(DwoName(n), t)
            ELSE 0

RECURSIVE GetSectionIdx(_, _)
GetSectionIdx(n, t) ==
    IF n \in DOMAIN namedSection
       /\ (Sec(namedSection[n]).type = t \/ t = SHT_NULL)
       THEN namedSection[n]
    ELSE LET c == IF n.pre = "debug" THEN GetSectionIdx(ZName(n), t) ELSE 0
         IN IF Present(c) THEN c
            ELSE IF ~n.dwo THEN GetSectionIdx(DwoName(n), t)
            ELSE 0

GetSection(n, t) ==
    /\ query' = [op |-> "name", name |-> n, type |-> t]
    /\ result' = GetSectionIdx(n, t)
    /\ UNCHANGED <<file, ehdr, sectionHeaders, namedSection, outOfRange, io>>

\* Object::getSection(idx): the section unless its type is SHT_NULL.
GetSectionByIndex(i) ==
    /\ query' = [op |-> "index", name |-> NoName, type |-> SHT_NULL]
    /\ result' = IF Present(i) THEN i ELSE 0
    /\ UNCHANGED <<file, ehdr, sectionHeaders, namedSection, outOfRange, io>>

(***************************************************************************)
(* Section::io: the reader of a section, built once.  A null section gets  *)
(* a NullReader; SHF_COMPRESSED an InflateReader after the Chdr; a name    *)
(* starting ".zdebug_" whose bytes start "ZLIB" an InflateReader after the *)
(* 12-byte header; anything else the raw view.  Without zlib, and for a    *)
(* .zdebug_ section without the magic, io_ stays null and becomes a        *)
(* NullReader.                                                             *)
(***************************************************************************)
\* A bug that tests for ".debug_" where the code tests for ".zdebug_".
ReaderForDebugPrefix(s) ==
    IF s.type = SHT_NULL THEN "null"
    ELSE IF s.compressed THEN IF WithZlib THEN "inflate" ELSE "null"
    ELSE IF s.name.pre = "debug"
         THEN IF s.magic /\ WithZlib THEN "inflate" ELSE "null"
    ELSE "raw"

ReaderFor(s) ==
    IF s.type = SHT_NULL THEN "null"
    ELSE IF s.compressed THEN IF WithZlib THEN "inflate" ELSE "null"
    ELSE IF s.name.pre = "zdebug"
         THEN IF s.magic /\ WithZlib THEN "inflate" ELSE "null"
    ELSE "raw"

SectionIo(i) ==
    /\ \/ io[i] # NONE /\ UNCHANGED io
       \/ io[i] = NONE /\ io' = [io EXCEPT ![i] = ReaderFor(Sec(i))]
    /\ UNCHANGED <<file, ehdr, sectionHeaders, namedSection, outOfRange, query, result>>

(***************************************************************************)
(* The naming loop calls sshdr->io() (line 247) while every name is still  *)
(* "", so the string table's reader is chosen and cached for the empty     *)
(* name, before the loop names it.  Files name the string table as writers *)
(* do (".shstrtab", neither ".debug_" nor ".zdebug_"); for such a name the *)
(* early choice is the one the final name would give.                      *)
(***************************************************************************)
ConstructIo(c) ==
    [i \in 0..(Len(c.headers) - 1) |->
        IF i = c.strtab THEN ReaderFor([c.headers[i + 1] EXCEPT !.name = NoName])
        ELSE NONE]

Init ==
    \E secs \in FileSections : \E e \in Ehdrs(Len(secs)) :
        LET f == <<Shdr0(e.size0, e.link0)>> \o secs
            c == Construct(f, e)
        IN
        /\ c.strtab # NONE => f[c.strtab + 1].name.pre = "other"
        /\ file = f
        /\ ehdr = e
        /\ sectionHeaders = c.headers
        /\ namedSection = c.named
        /\ outOfRange = c.oob
        /\ io = ConstructIo(c)
        /\ query = NONE
        /\ result = 0

Next ==
    \/ \E n \in Names, t \in QueryTypes : GetSection(n, t)
    \/ \E i \in Indices : GetSectionByIndex(i)
    \/ \E i \in Indices : SectionIo(i)

Spec == Init /\ [][Next]_vars

-----------------------------------------------------------------------------
TypeOK ==
    /\ sectionHeaders \in Seq([name: Names \cup {NoName}, type: SecTypes \cup {SHT_NULL},
                               compressed: BOOLEAN, magic: BOOLEAN,
                               sh_size: 0..(MaxSections + 1), sh_link: 0..(MaxSections + 1)])
    /\ \A n \in DOMAIN namedSection : namedSection[n] \in Indices
    /\ outOfRange \in BOOLEAN
    /\ io \in [Indices -> {NONE, "null", "inflate", "raw"}]
    /\ result \in Indices

(***************************************************************************)
(* getSection(name, type) resolves as section 4.3 of the spec orders it:  *)
(* the exact name, then (for ".debug_" names) the ".zdebug_" name and its  *)
(* ".dwo" form, then the ".dwo" form of the name; the first that exists    *)
(* with the wanted type (any type for SHT_NULL) wins, else section 0.      *)
(* About the recursion in Object::getSection and its `if (compressed)`.   *)
(***************************************************************************)
Order(n) ==
    (IF n.pre = "debug" THEN <<n, ZName(n), DwoName(ZName(n))>> ELSE <<n>>)
    \o (IF n.dwo THEN << >> ELSE <<DwoName(n)>>)
Found(m, t) ==
    m \in DOMAIN namedSection /\ (Sec(namedSection[m]).type = t \/ t = SHT_NULL)
Resolved(n, t) ==
    LET hits == SelectSeq(Order(n), LAMBDA m : Found(m, t))
    IN IF hits = << >> THEN 0 ELSE namedSection[Head(hits)]

GetSectionResolves ==
    query # NONE /\ query.op = "name" => result = Resolved(query.name, query.type)

(***************************************************************************)
(* Spec case 6: when the headers are reachable and named, every section   *)
(* of the file is loaded, also when e_shnum is 0 and the count is in       *)
(* section 0's sh_size, and getSection finds each by its name.  About the *)
(* constructor's header-count loop.                                        *)
(***************************************************************************)
AllSectionsNamed ==
    ehdr.shoffOk /\ ehdr.shstrndx # SHN_UNDEF =>
        /\ Len(sectionHeaders) = Len(file)
        /\ \A j \in 2..Len(file) : namedSection[file[j].name] = j - 1

(***************************************************************************)
(* Section 4.2 of the spec: io() yields the section's logical bytes: an   *)
(* inflating reader for SHF_COMPRESSED or ".zdebug_" + "ZLIB" content     *)
(* (an empty one without zlib), an empty one for SHT_NULL, and otherwise  *)
(* the raw view.  About Section::io's choice of reader.                   *)
(***************************************************************************)
SpecReader(s) ==
    IF s.type = SHT_NULL THEN "null"
    ELSE IF s.compressed \/ (s.name.pre = "zdebug" /\ s.magic)
         THEN IF WithZlib THEN "inflate" ELSE "null"
    ELSE "raw"

IoAsSpecified == \A i \in Indices : io[i] # NONE => io[i] = SpecReader(Sec(i))

(***************************************************************************)
(* The constructor only indexes sectionHeaders at the string table index  *)
(* when that index is within the table it read.                            *)
(***************************************************************************)
ShstrIndexInBounds == ~outOfRange
=============================================================================
