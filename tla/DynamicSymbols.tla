--------------------------- MODULE DynamicSymbols ---------------------------
(***************************************************************************)
(* Name -> symbol lookups of Elf::Object (src/elf.cc):                     *)
(*                                                                         *)
(*  - elf_hash and gnu_hash, on 32-bit words kept as two 16-bit halves     *)
(*    <<hi, lo>> so that every intermediate value fits TLC's integers;     *)
(*  - SymHash::findSymbol (.hash) and GnuHash::findSymbol (.gnu_hash),     *)
(*    walking tables that a linker built from .dynsym as the ABI says;     *)
(*  - Object::findDynamicSymbol, which prefers .gnu_hash, and              *)
(*    Object::findDebugSymbol with its lazy name -> index map.             *)
(*                                                                         *)
(* A name is a sequence of byte values.  Symbol i of .dynsym (i >= 1) is   *)
(* dynsym[i]; index 0 is the null symbol.  .symtab is a function from the  *)
(* symbol index (0..) to the name.                                         *)
(***************************************************************************)
EXTENDS Naturals, Sequences, FiniteSets, SequencesExt, Bitwise

CONSTANTS
    Bytes,          \* byte values names are made of
    MaxName,        \* longest name built from Bytes
    LongNames,      \* a few longer names, whose elf_hash reaches the top nibble
    MaxDynsym,      \* .dynsym entries after the null symbol
    SymtabChoices,  \* the .symtab images considered
    CharSigned,     \* the build's plain char is signed (x86) or not (arm)
    SysvBuckets,    \* nbucket values of .hash
    GnuBuckets,     \* nbuckets values of .gnu_hash
    SymOffsets,     \* symoffset values of .gnu_hash
    BloomSizes,     \* bloom_size values
    BloomShifts,    \* bloom_shift values
    ELF_BITS,       \* bits in a Bloom word (64 for ELFCLASS64)
    NULL

Word16 == 65536
STN_UNDEF == 0

ASSUME Word16 % ELF_BITS = 0 /\ \A s \in BloomShifts : s < 32

Names == UNION {[1..n -> Bytes] : n \in 1..MaxName} \cup LongNames
NoName == << >>     \* the name of undef() and of the null symbol (st_name 0)

(***************************************************************************)
(* 32-bit unsigned arithmetic on <<hi, lo>>.                               *)
(***************************************************************************)
ToWord(x) == IF x < 0 THEN <<Word16 - 1, Word16 + x>> ELSE <<0, x>>

AddW(x, y) ==
    LET s == x[2] + y[2] IN <<(x[1] + y[1] + s \div Word16) % Word16, s % Word16>>

Shl4(h) == <<(h[1] * 16 + h[2] \div 4096) % Word16, (h[2] * 16) % Word16>>

\* h % n
WordMod(h, n) == ((h[1] % n) * (Word16 % n) + h[2]) % n

\* (h >> s) % m, for m dividing 2^16
ShrMod(h, s, m) ==
    IF s >= 16 THEN (h[1] \div 2^(s - 16)) % m
    ELSE ((h[1] % m) * 2^(16 - s) + h[2] \div 2^s) % m

(***************************************************************************)
(* elf_hash: `for (auto c : text)` iterates over plain char, so with a     *)
(* signed char a byte >= 0x80 is added as c - 256, i.e. 2^32 + c - 256.    *)
(***************************************************************************)
ElfStep(signed, h, b) ==
    LET c == IF signed /\ b >= 128 THEN b - 256 ELSE b
        s == AddW(Shl4(h), ToWord(c))
        g == s[1] \div 4096                       \* h & 0xf0000000, >> 28
        t == IF g # 0 THEN <<s[1], s[2] ^^ (g * 16)>> ELSE s   \* h ^= g >> 24
    IN <<t[1] % 4096, t[2]>>                        \* h &= ~g

ElfHashBy(signed, name) == FoldLeft(LAMBDA h, b : ElfStep(signed, h, b), <<0, 0>>, name)

\* gnu_hash reads the name as uint8_t: h = h * 33 + c.
GnuStep(h, b) ==
    LET s == h[2] * 33 + b
    IN <<(h[1] * 33 + s \div Word16) % Word16, s % Word16>>

GnuHashOf(name) == FoldLeft(GnuStep, <<0, 5381>>, name)

\* The hashes of every name, computed once.
ElfHashCode == [n \in Names |-> ElfHashBy(CharSigned, n)]
ElfHashABI  == [n \in Names |-> ElfHashBy(FALSE, n)]
GnuHash     == [n \in Names |-> GnuHashOf(n)]

(***************************************************************************)
(* The tables in the file, as a linker lays them out from .dynsym (the     *)
(* System V ABI and the GNU hash layout).  These are the inputs, not code. *)
(***************************************************************************)
Dynsyms == {d \in UNION {[1..n -> Names] : n \in 0..MaxDynsym} : IsInjective(d)}

\* .hash: each bucket heads a chain through chains[], newest symbol first.
SysvTable(d, nb) ==
    LET bkt(i) == WordMod(ElfHashABI[d[i]], nb)
        below(i, k) == {j \in 1..(i - 1) : bkt(j) = k}
    IN [nbucket |-> nb,
        buckets |-> [k \in 0..(nb - 1) |->
                        LET is == {i \in DOMAIN d : bkt(i) = k}
                        IN IF is = {} THEN STN_UNDEF ELSE Max(is)],
        chains  |-> [i \in 0..Len(d) |->
                        IF i = 0 \/ below(i, bkt(i)) = {} THEN STN_UNDEF
                        ELSE Max(below(i, bkt(i)))]]

\* The .hash section's words: nbucket, nchain, the buckets, the chains.
HashWords(t) ==
    LET nchain == Cardinality(DOMAIN t.chains)
    IN [w \in 0..(1 + t.nbucket + nchain) |->
          IF w = 0 THEN t.nbucket
          ELSE IF w = 1 THEN nchain
          ELSE IF w < 2 + t.nbucket THEN t.buckets[w - 2]
          ELSE t.chains[w - 2 - t.nbucket]]

\* .gnu_hash: symbols from symoffset on, grouped by bucket; a chain word is
\* the hash with its low bit set on the last symbol of a bucket.
GnuOrdered(d, nb, so) ==
    \A i, j \in so..Len(d) : i < j => WordMod(GnuHash[d[i]], nb) <= WordMod(GnuHash[d[j]], nb)

GnuTable(d, nb, so, bs, sh) ==
    LET hashed == so..Len(d)
        bkt(i) == WordMod(GnuHash[d[i]], nb)
        last(i) == i = Len(d) \/ bkt(i + 1) # bkt(i)
        h(i) == GnuHash[d[i]]
    IN [nbuckets |-> nb, symoffset |-> so, bloom_size |-> bs, bloom_shift |-> sh,
        bloom |-> [w \in 0..(bs - 1) |->
                     UNION {{h(i)[2] % ELF_BITS, ShrMod(h(i), sh, ELF_BITS)} :
                              i \in {j \in hashed :
                                       (h(j)[1] * (Word16 \div ELF_BITS)
                                          + h(j)[2] \div ELF_BITS) % bs = w}}],
        buckets |-> [k \in 0..(nb - 1) |->
                       LET is == {i \in hashed : bkt(i) = k}
                       IN IF is = {} THEN 0 ELSE Min(is)],
        chain |-> [i \in hashed |->
                     <<h(i)[1], (h(i)[2] \div 2) * 2 + (IF last(i) THEN 1 ELSE 0)>>]]

VARIABLES
    dynsym,         \* .dynsym names
    hash,           \* the words of the .hash section, or NULL
    gnuHash,        \* the .gnu_hash table or NULL
    symtab,         \* .symtab names by index
    cachedSymbols,  \* Object::cachedSymbols: NULL or name -> index
    query,          \* NULL or [op, name] of the last call
    result          \* the symbol index it returned (0: undef())

vars == <<dynsym, hash, gnuHash, symtab, cachedSymbols, query, result>>

(***************************************************************************)
(* SymHash::findSymbol: walk the chain of bucket elf_hash(name) % nbucket  *)
(* until STN_UNDEF, comparing the names.                                   *)
(***************************************************************************)
(***************************************************************************)
(* SymHash::SymHash: the section read into data[]; nbucket = data[0],      *)
(* nchain = data[1], buckets from data + 2, chains right after them.       *)
(***************************************************************************)
SymHashOf(data) ==
    LET nbucket == data[0]
        nchain == data[1]
    IN [nbucket |-> nbucket,
        buckets |-> [k \in 0..(nbucket - 1) |-> data[2 + k]],
        chains  |-> [i \in 0..(nchain - 1) |-> data[2 + nbucket + i]]]

RECURSIVE SysvWalk(_, _, _)
SysvWalk(sh, i, name) ==
    IF i = STN_UNDEF THEN 0
    ELSE IF dynsym[i] = name THEN i
    ELSE SysvWalk(sh, sh.chains[i], name)

SymHashFindSymbol(name) ==
    LET sh == SymHashOf(hash)
    IN SysvWalk(sh, sh.buckets[WordMod(ElfHashCode[name], sh.nbucket)], name)

\* (chainhash | 1U) == (symhash | 1U)
SameHashIgnoringLSB(x, y) == x[1] = y[1] /\ x[2] \div 2 = y[2] \div 2

\* Mutant of GnuWalk: chain words are compared with the end bit still set.
RECURSIVE GnuWalkExact(_, _, _)
GnuWalkExact(idx, h, name) ==
    LET ch == gnuHash.chain[idx] IN
    IF ch = h /\ dynsym[idx] = name THEN idx
    ELSE IF ch[2] % 2 = 1 THEN 0
    ELSE GnuWalkExact(idx + 1, h, name)

(***************************************************************************)
(* The chain walk of GnuHash::findSymbol from symbol idx: a match needs    *)
(* equal hashes (end bit ignored) and equal names; an entry with the end   *)
(* bit set ends the walk.  chain[idx] is the word at chainoff(idx -        *)
(* symoffset).                                                             *)
(***************************************************************************)
RECURSIVE GnuWalk(_, _, _)
GnuWalk(idx, h, name) ==
    LET ch == gnuHash.chain[idx] IN
    IF SameHashIgnoringLSB(ch, h) /\ dynsym[idx] = name THEN idx
    ELSE IF ch[2] % 2 = 1 THEN 0
    ELSE GnuWalk(idx + 1, h, name)

\* GnuHash::findSymbol: Bloom filter, bucket, symoffset check, chain walk.
GnuHashFindSymbol(name) ==
    LET h == GnuHash[name]
        word == gnuHash.bloom[(h[1] * (Word16 \div ELF_BITS) + h[2] \div ELF_BITS)
                                % gnuHash.bloom_size]
        mask == {h[2] % ELF_BITS, ShrMod(h, gnuHash.bloom_shift, ELF_BITS)}
        idx == gnuHash.buckets[WordMod(h, gnuHash.nbuckets)]
    IN IF ~(mask \subseteq word) THEN 0
       ELSE IF idx < gnuHash.symoffset THEN 0
       ELSE GnuWalk(idx, h, name)

\* Object::findDynamicSymbol: .gnu_hash if present, else .hash, else undef.
FindDynamicSymbol(name) ==
    /\ query' = [op |-> "dynamic", name |-> name]
    /\ result' = IF gnuHash # NULL THEN GnuHashFindSymbol(name)
                 ELSE IF hash # NULL THEN SymHashFindSymbol(name)
                 ELSE 0
    /\ UNCHANGED <<dynsym, hash, gnuHash, symtab, cachedSymbols>>

(***************************************************************************)
(* The loop `for (auto sym : syms) ... [syms.name(sym)] = idx++;` of      *)
(* findDebugSymbol from index i on, over the map m built so far: operator[]*)
(* overwrites, so a later entry of a name replaces an earlier one.         *)
(***************************************************************************)
RECURSIVE IndexFrom(_, _, _)
IndexFrom(st, i, m) ==
    IF i \notin DOMAIN st THEN m ELSE IndexFrom(st, i + 1, (st[i] :> i) @@ m)

\* Mutant of the loop: insert/emplace, which keeps the first entry of a name.
RECURSIVE IndexFromFirstWins(_, _, _)
IndexFromFirstWins(st, i, m) ==
    IF i \notin DOMAIN st THEN m ELSE IndexFromFirstWins(st, i + 1, m @@ (st[i] :> i))

\* Mutant of SymbolIndexMap: idx counts from 1.
SymbolIndexMapFromOne(st) ==
    LET m == IndexFrom(st, 0, << >>) IN [n \in DOMAIN m |-> m[n] + 1]

\* Mutant of SymbolIndexMap: the first entry of a name wins.
SymbolIndexMapFirstWins(st) == IndexFromFirstWins(st, 0, << >>)

\* The map the loop leaves, walking the .symtab from index 0.
SymbolIndexMap(st) == IndexFrom(st, 0, << >>)

\* Object::findDebugSymbol: build the map on the first call, then look up.
FindDebugSymbol(name) ==
    LET map == IF cachedSymbols = NULL THEN SymbolIndexMap(symtab) ELSE cachedSymbols
    IN /\ cachedSymbols' = map
       /\ query' = [op |-> "debug", name |-> name]
       /\ result' = IF name \in DOMAIN map THEN map[name] ELSE 0
       /\ UNCHANGED <<dynsym, hash, gnuHash, symtab>>

Init ==
    /\ dynsym \in Dynsyms
    /\ \/ hash = NULL
       \/ \E nb \in SysvBuckets : hash = HashWords(SysvTable(dynsym, nb))
    /\ \/ gnuHash = NULL
       \/ \E nb \in GnuBuckets, so \in SymOffsets, bs \in BloomSizes, sh \in BloomShifts :
            /\ GnuOrdered(dynsym, nb, so)
            /\ gnuHash = GnuTable(dynsym, nb, so, bs, sh)
    /\ symtab \in SymtabChoices
    /\ cachedSymbols = NULL
    /\ query = NULL
    /\ result = 0

Next == \E n \in Names : FindDynamicSymbol(n) \/ FindDebugSymbol(n)

Spec == Init /\ [][Next]_vars

-----------------------------------------------------------------------------
MaxIndex == Max({MaxDynsym} \cup {Cardinality(DOMAIN st) - 1 : st \in SymtabChoices})

TypeOK ==
    /\ dynsym \in Dynsyms
    /\ symtab \in SymtabChoices
    /\ cachedSymbols = NULL \/ \A n \in DOMAIN cachedSymbols : cachedSymbols[n] \in DOMAIN symtab
    /\ query \in {NULL} \cup [op: {"dynamic", "debug"}, name: Names]
    /\ result \in 0..MaxIndex

\* The names a linker puts in the hash table findDynamicSymbol consults:
\* .gnu_hash leaves out the symbols below symoffset (undefined imports).
Hashed ==
    IF gnuHash # NULL THEN {dynsym[i] : i \in gnuHash.symoffset..Len(dynsym)}
    ELSE IF hash # NULL THEN Range(dynsym)
    ELSE {}

(***************************************************************************)
(* Spec section 8: for every name n in the hash table, findDynamicSymbol(n)*)
(* returns a nonzero index, and a nonzero index is a symbol named n.  It   *)
(* depends on the hash function matching the linker's bit for bit, on the  *)
(* Bloom bits, the bucket and symoffset tests and the chain end bit of     *)
(* GnuHash::findSymbol, and on the STN_UNDEF walk of SymHash::findSymbol.  *)
(***************************************************************************)
DynamicSymbolFound ==
    (query # NULL /\ query.op = "dynamic") =>
        /\ result # 0 => result \in DOMAIN dynsym /\ dynsym[result] = query.name
        /\ query.name \in Hashed => result # 0

(***************************************************************************)
(* findDebugSymbol answers from the map its first call built over the    *)
(* whole .symtab, whatever was asked before: a name .symtab holds at a     *)
(* nonzero index gives the LAST index holding it (a local and a global of  *)
(* one name resolve to the later entry, as README's bounds describe), any  *)
(* other name undef() (spec section 4.6).                                  *)
(***************************************************************************)
DebugSymbolFound ==
    (query # NULL /\ query.op = "debug") =>
        result = IF \E i \in DOMAIN symtab \ {0} : symtab[i] = query.name
                    THEN Max({i \in DOMAIN symtab : symtab[i] = query.name})
                    ELSE 0
=============================================================================
