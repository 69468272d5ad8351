---------------------------- MODULE SymbolLookup ----------------------------
(***************************************************************************)
(* Object::findSymbolByAddress (src/elf.cc): the address-to-symbol query.  *)
(* The lambda findSym scans a table in order and shares three locals with  *)
(* the caller across both scans (sym, name, haveExactZeroSizeMatch); after *)
(* .symtab and .dynsym the embedded .gnu_debugdata image is loaded lazily  *)
(* (debugData) and asked the same question; the zero-size exact match is  *)
(* the last resort.                                                        *)
(*                                                                         *)
(* A symbol is its st_value, st_size, ELF_ST_TYPE(st_info) and st_shndx;   *)
(* the name is the table entry itself.  The section table is sections      *)
(* 0..NumSections-1 with their SHF_ALLOC flag; the nested .gnu_debugdata   *)
(* image keeps the same section headers (it is the primary's own mini      *)
(* debuginfo), has no .dynsym and no .gnu_debugdata of its own.            *)
(***************************************************************************)
EXTENDS Naturals, Sequences, FiniteSets

CONSTANTS
    Addrs,          \* st_value values
    QueryAddrs,     \* addresses asked about
    Sizes,          \* st_size values
    SymTypes,       \* ELF_ST_TYPE values of symbols
    QueryTypes,     \* type arguments; STT_NOTYPE accepts any
    STT_NOTYPE,
    Alloc,          \* section index -> SHF_ALLOC set, over 0..NumSections-1
    ShndxValues,    \* st_shndx values, some >= NumSections (e.g. SHN_ABS)
    SymUniverse,    \* the symbols tables are built from
    MaxSymtab, MaxDynsym, MaxDebugdata, \* table lengths
    NULL

SHN_UNDEF == 0
NumSections == Cardinality(DOMAIN Alloc)

Sym == [st_value: Addrs, st_size: Sizes, type: SymTypes, st_shndx: ShndxValues]

ASSUME SymUniverse \subseteq Sym /\ DOMAIN Alloc = 0..(NumSections - 1)

\* The uninitialised local `Sym sym;`: fields with indeterminate values (NULL),
\* which a correct call never returns.
UninitSym == [st_value |-> NULL, st_size |-> NULL, type |-> NULL, st_shndx |-> NULL]

Tables(n) == UNION {[1..k -> SymUniverse] : k \in 0..n}

Env == [symtab: Tables(MaxSymtab),           \* debugSymbols()
        dynsym: Tables(MaxDynsym),           \* dynamicSymbols()
        gnuDebugdata: {"absent", "ok", "corrupt"}, \* the .gnu_debugdata section
        ddSymtab: Tables(MaxDebugdata),      \* the nested image's .symtab
        lzma: BOOLEAN]                       \* built WITH_LZMA

VARIABLES
    env,        \* the image and the build, fixed
    debugData,  \* Object::debugData: NULL or "loaded"
    query,      \* NULL or [addr, type] of the last call
    result,     \* NULL (nullopt) or the Sym returned
    failed      \* the last call threw

vars == <<env, debugData, query, result, failed>>

(***************************************************************************)
(* One iteration of findSym over `candidate`, st the captured locals.      *)
(***************************************************************************)
Skipped(c, a, t) ==
    \/ c.st_shndx >= NumSections
    \/ t # STT_NOTYPE /\ c.type # t
    \/ c.st_value > a

Ends(c, a) == c.st_size + c.st_value <= a

ZeroSizeAt(c, a) == c.st_size = 0 /\ c.st_value = a

\* Mutant of ScanFrom: a zero-size exact match is returned as soon as it is seen.
RECURSIVE ScanEager(_, _, _, _, _)
ScanEager(tbl, i, a, t, st) ==
    IF i > Len(tbl)
       THEN [st EXCEPT !.sym.st_shndx = SHN_UNDEF, !.found = FALSE]
    ELSE LET c == tbl[i] IN
         IF Skipped(c, a, t) THEN ScanEager(tbl, i + 1, a, t, st)
         ELSE IF Ends(c, a) /\ ~ZeroSizeAt(c, a) THEN ScanEager(tbl, i + 1, a, t, st)
         ELSE IF ~Ends(c, a) /\ ~Alloc[c.st_shndx] THEN ScanEager(tbl, i + 1, a, t, st)
         ELSE [st EXCEPT !.sym = c, !.found = TRUE]

(***************************************************************************)
(* The findSym lambda from candidate i on.  st = [sym, zero, found]: the   *)
(* captured sym, haveExactZeroSizeMatch, and the lambda's return value.    *)
(* A zero-size symbol exactly at a is recorded and the scan goes on; a     *)
(* covering symbol in an SHF_ALLOC section ends it.  Falling off the end   *)
(* writes SHN_UNDEF into the captured sym (line 407).                      *)
(***************************************************************************)
RECURSIVE ScanFrom(_, _, _, _, _)
ScanFrom(tbl, i, a, t, st) ==
    IF i > Len(tbl)
       THEN [st EXCEPT !.sym.st_shndx = SHN_UNDEF, !.found = FALSE]
    ELSE LET c == tbl[i] IN
         IF Skipped(c, a, t) THEN ScanFrom(tbl, i + 1, a, t, st)
         ELSE IF Ends(c, a)
            THEN ScanFrom(tbl, i + 1, a, t,
                          IF ZeroSizeAt(c, a) THEN [st EXCEPT !.sym = c, !.zero = TRUE]
                                              ELSE st)
         ELSE IF ~Alloc[c.st_shndx] THEN ScanFrom(tbl, i + 1, a, t, st)
         ELSE [st EXCEPT !.sym = c, !.found = TRUE]

FindSym(tbl, a, t, st) == ScanFrom(tbl, 1, a, t, st)

Fresh == [sym |-> UninitSym, zero |-> FALSE, found |-> FALSE]

(***************************************************************************)
(* The nested .gnu_debugdata Object answering the same query: its own      *)
(* .symtab scan, an empty .dynsym, no debugData of its own.                *)
(***************************************************************************)
NestedFind(a, t) ==
    LET r1 == FindSym(env.ddSymtab, a, t, Fresh)
        r2 == FindSym(<< >>, a, t, r1)
    IN IF r1.found THEN r1.sym
       ELSE IF r2.zero THEN r2.sym
       ELSE NULL

\* debugData after the lazy load of lines 416-431 (when it does not throw).
DebugDataAfter ==
    IF debugData = NULL /\ env.gnuDebugdata = "ok" /\ env.lzma
       THEN "loaded" ELSE debugData

\* Constructing the nested Object over a corrupt LZMA stream throws.
LoadThrows ==
    debugData = NULL /\ env.gnuDebugdata = "corrupt" /\ env.lzma

\* Mutant of ZeroSizeFallback: sym is returned without haveExactZeroSizeMatch.
ZeroSizeFallbackUnguarded(r) == r.sym

\* Lines 439-442: the recorded zero-size match, or nullopt.
ZeroSizeFallback(r) == IF r.zero THEN r.sym ELSE NULL

(***************************************************************************)
(* Object::findSymbolByAddress(addr, type): .symtab, then .dynsym with the *)
(* locals carried over, then the nested image, then the zero-size match.   *)
(***************************************************************************)
FindSymbolByAddress(a, t) ==
    LET r1 == FindSym(env.symtab, a, t, Fresh)
        r2 == FindSym(env.dynsym, a, t, [r1 EXCEPT !.found = FALSE])
    IN /\ query' = [addr |-> a, type |-> t]
       /\ \/ /\ r1.found
             /\ result' = r1.sym /\ failed' = FALSE
             /\ UNCHANGED debugData
          \/ /\ ~r1.found /\ r2.found
             /\ result' = r2.sym /\ failed' = FALSE
             /\ UNCHANGED debugData
          \/ /\ ~r1.found /\ ~r2.found /\ LoadThrows
             /\ result' = NULL /\ failed' = TRUE
             /\ UNCHANGED debugData
          \/ /\ ~r1.found /\ ~r2.found /\ ~LoadThrows
             /\ debugData' = DebugDataAfter
             /\ LET d == IF debugData' = "loaded" THEN NestedFind(a, t) ELSE NULL
                IN result' = IF d # NULL THEN d ELSE ZeroSizeFallback(r2)
             /\ failed' = FALSE
       /\ UNCHANGED env

Init ==
    /\ env \in {e \in Env : e.gnuDebugdata # "ok" => e.ddSymtab = << >>}
    /\ debugData = NULL
    /\ query = NULL
    /\ result = NULL
    /\ failed = FALSE

Next == \E a \in QueryAddrs, t \in QueryTypes : FindSymbolByAddress(a, t)

Spec == Init /\ [][Next]_vars

-----------------------------------------------------------------------------
TypeOK ==
    /\ env \in Env
    /\ debugData \in {NULL, "loaded"}
    /\ query \in {NULL} \cup [addr: QueryAddrs, type: QueryTypes]
    /\ result \in {NULL} \cup [st_value: Addrs, st_size: Sizes, type: SymTypes,
                                 st_shndx: ShndxValues \cup {SHN_UNDEF}]
    /\ failed \in BOOLEAN

\* The reference reading of a covering symbol (spec 4.7): a section of this
\* image with SHF_ALLOC, the requested type, and addr in [value, value+size).
CoversRef(c, a, t) ==
    /\ c.st_shndx \in DOMAIN Alloc /\ Alloc[c.st_shndx]
    /\ t = STT_NOTYPE \/ c.type = t
    /\ c.st_value <= a /\ a < c.st_value + c.st_size

FirstCoveringRef(tbl, a, t) ==
    LET is == {i \in DOMAIN tbl : CoversRef(tbl[i], a, t)}
    IN IF is = {} THEN NULL ELSE tbl[CHOOSE i \in is : \A j \in is : i <= j]

\* The tables a call searches, in order; the nested one once it is loaded.
Searched == <<env.symtab, env.dynsym>> \o
            (IF debugData = "loaded" THEN <<env.ddSymtab>> ELSE << >>)

ExpectedCovering ==
    LET hits == {i \in DOMAIN Searched :
                   FirstCoveringRef(Searched[i], query.addr, query.type) # NULL}
    IN IF hits = {} THEN NULL
       ELSE LET i == CHOOSE i \in hits : \A j \in hits : i <= j
            IN FirstCoveringRef(Searched[i], query.addr, query.type)

(***************************************************************************)
(* Spec invariant I6: findSymbolByAddress prefers a covering symbol over a *)
(* zero-size exact match.  Whenever some table it searched has a symbol    *)
(* covering the address, the answer is the first covering one in search   *)
(* order (.symtab, .dynsym, .gnu_debugdata), even when zero-size matches   *)
(* come before it and are recorded on the way.                             *)
(***************************************************************************)
CoveringPreferred ==
    (query # NULL /\ ~failed /\ ExpectedCovering # NULL) => result = ExpectedCovering

(***************************************************************************)
(* What findSymbolByAddress returns is a symbol of one of the tables, as   *)
(* it is stored there: a missing symbol is nullopt, and st_shndx ==        *)
(* SHN_UNDEF means "undefined" to callers (spec section 7).  Spec 4.7:     *)
(* "finally return the zero-size fallback if one was recorded".            *)
(***************************************************************************)
ResultIsTableEntry ==
    (query # NULL /\ result # NULL) =>
        \E tbl \in {env.symtab, env.dynsym, env.ddSymtab} :
            \E i \in DOMAIN tbl : tbl[i] = result

=============================================================================
