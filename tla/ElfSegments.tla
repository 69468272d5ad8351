---------------------------- MODULE ElfSegments ----------------------------
(***************************************************************************)
(* The program header table of one Elf::Object (src/elf.cc) and the       *)
(* address query that walks it on every unwound frame.                     *)
(*                                                                         *)
(*  - the constructor reads e_phnum headers in file order, groups them by  *)
(*    p_type and sorts every group by p_vaddr (Object::Object);            *)
(*  - Object::getSegmentForAddress first tries the one-slot cache          *)
(*    lastSegmentForAddress, then std::lower_bound over the PT_LOAD group  *)
(*    for the first segment whose end is above the address, then checks    *)
(*    that the segment starts at or below it;                              *)
(*  - Object::endVA is the end of the last PT_LOAD by p_vaddr.             *)
(*                                                                         *)
(* Addresses are naturals below MaxAddr + 2: user-space addresses never    *)
(* reach 2^64, so p_vaddr + p_memsz does not wrap in the code either.      *)
(***************************************************************************)
EXTENDS Naturals, Sequences, FiniteSets, TLC

CONSTANTS
    MaxAddr,    \* segments lie inside 0..MaxAddr
    MaxSegs,    \* at most this many program headers in a file
    SegTypes,   \* the p_type values a file may use
    PT_LOAD,    \* the p_type of loadable segments, a member of SegTypes
    NULL        \* getSegmentForAddress returned nullptr

ASSUME PT_LOAD \in SegTypes /\ MaxSegs \in Nat /\ MaxAddr \in Nat

VARIABLES
    programHeaders,        \* std::map<Word, ProgramHeaders>: p_type -> sorted Phdrs
    lastSegmentForAddress, \* index into the PT_LOAD group, 0 for nullptr
    query,                 \* the address of the last getSegmentForAddress call
    found                  \* what that call returned: a Phdr or NULL

vars == <<programHeaders, lastSegmentForAddress, query, found>>

Addr == 0..MaxAddr
Query == 0..(MaxAddr + 1)

\* Program headers in the file that lie inside the address space.
Phdr == {h \in [p_type: SegTypes, p_vaddr: Addr, p_memsz: 1..(MaxAddr + 1)] :
            h.p_vaddr + h.p_memsz <= MaxAddr + 1}

End(h) == h.p_vaddr + h.p_memsz

Covers(h, a) == h.p_vaddr <= a /\ a < End(h)

Disjoint(h, k) == End(h) <= k.p_vaddr \/ End(k) <= h.p_vaddr

\* A program header table as the file holds it: PT_LOAD segments partition
\* part of the address space (they never overlap).
FileTable(t) ==
    \A i, j \in DOMAIN t :
        (i # j /\ t[i].p_type = PT_LOAD /\ t[j].p_type = PT_LOAD)
            => Disjoint(t[i], t[j])

FileTables == {t \in UNION {[1..n -> Phdr] : n \in 0..MaxSegs} : FileTable(t)}

ByVaddr(l, r) == l.p_vaddr < r.p_vaddr

Unsorted(t, ty) == SelectSeq(t, LAMBDA h : h.p_type = ty)

\* Mutant of ProgramHeadersOf: the per-type sort is left out.
ProgramHeadersUnsorted(t) ==
    [ty \in {t[i].p_type : i \in DOMAIN t} |-> Unsorted(t, ty)]

\* The constructor: group the headers by p_type, sort each group by p_vaddr.
ProgramHeadersOf(t) ==
    [ty \in {t[i].p_type : i \in DOMAIN t} |-> SortSeq(Unsorted(t, ty), ByVaddr)]

\* Object::getSegments: the group of a type, or the static empty one.
GetSegments(ty) ==
    IF ty \in DOMAIN programHeaders THEN programHeaders[ty] ELSE << >>

\* Mutant of EndVA: the end of the first PT_LOAD is taken.
EndVAFirst == LET l == GetSegments(PT_LOAD) IN End(l[1])

\* Object::endVA: end of the last PT_LOAD (the code throws when there is none).
EndVA == LET l == GetSegments(PT_LOAD) IN End(l[Len(l)])

(***************************************************************************)
(* std::lower_bound(hdrs, a, header.p_vaddr + header.p_memsz <= addr),     *)
(* the libstdc++ loop: halve the range, step past the middle while the     *)
(* predicate holds.  Returns a 1-based index, Len(hdrs) + 1 for end().      *)
(***************************************************************************)
RECURSIVE LowerBound(_, _, _, _)
LowerBound(hdrs, a, first, len) ==
    IF len = 0 THEN first
    ELSE LET half == len \div 2
             mid == first + half
         IN IF End(hdrs[mid]) <= a
               THEN LowerBound(hdrs, a, mid + 1, len - half - 1)
               ELSE LowerBound(hdrs, a, first, half)

\* The one-slot cache holds a segment that covers a.
CachedCovers(a) ==
    /\ lastSegmentForAddress # 0
    /\ Covers(GetSegments(PT_LOAD)[lastSegmentForAddress], a)

\* Mutant of CacheHit: the cached segment is reused up to and including its end.
CacheHitInclusive(a) ==
    LET hdrs == GetSegments(PT_LOAD) IN
    /\ lastSegmentForAddress # 0
    /\ hdrs[lastSegmentForAddress].p_vaddr <= a
    /\ a <= End(hdrs[lastSegmentForAddress])
    /\ found' = hdrs[lastSegmentForAddress]
    /\ UNCHANGED lastSegmentForAddress

\* The cached segment still covers the address: return it.
CacheHit(a) ==
    LET hdrs == GetSegments(PT_LOAD) IN
    /\ CachedCovers(a)
    /\ found' = hdrs[lastSegmentForAddress]
    /\ UNCHANGED lastSegmentForAddress

\* Binary search found a segment that starts at or below a: cache and return it.
SearchHit(a) ==
    LET hdrs == GetSegments(PT_LOAD)
        pos == LowerBound(hdrs, a, 1, Len(hdrs))
    IN /\ ~CachedCovers(a)
       /\ pos <= Len(hdrs)
       /\ hdrs[pos].p_vaddr <= a
       /\ lastSegmentForAddress' = pos
       /\ found' = hdrs[pos]

\* Mutant of SearchMiss: the lower_bound position is cached before it is checked.
SearchMissCaches(a) ==
    LET hdrs == GetSegments(PT_LOAD)
        pos == LowerBound(hdrs, a, 1, Len(hdrs))
    IN /\ ~CachedCovers(a)
       /\ ~(pos <= Len(hdrs) /\ hdrs[pos].p_vaddr <= a)
       /\ found' = NULL
       /\ lastSegmentForAddress' = pos

\* No segment covers a: return nullptr and leave the cache alone.
SearchMiss(a) ==
    LET hdrs == GetSegments(PT_LOAD)
        pos == LowerBound(hdrs, a, 1, Len(hdrs))
    IN /\ ~CachedCovers(a)
       /\ ~(pos <= Len(hdrs) /\ hdrs[pos].p_vaddr <= a)
       /\ found' = NULL
       /\ UNCHANGED lastSegmentForAddress

GetSegmentForAddress(a) ==
    /\ query' = a
    /\ CacheHit(a) \/ SearchHit(a) \/ SearchMiss(a)
    /\ UNCHANGED programHeaders

Init ==
    /\ \E t \in FileTables : programHeaders = ProgramHeadersOf(t)
    /\ lastSegmentForAddress = 0
    /\ query = NULL
    /\ found = NULL

Next == \E a \in Query : GetSegmentForAddress(a)

Spec == Init /\ [][Next]_vars

-----------------------------------------------------------------------------
TypeOK ==
    /\ \A ty \in DOMAIN programHeaders : programHeaders[ty] \in Seq(Phdr)
    /\ lastSegmentForAddress \in 0..Len(GetSegments(PT_LOAD))
    /\ query \in Query \cup {NULL}
    /\ found \in Phdr \cup {NULL}

(***************************************************************************)
(* ElfSegments implements AddressMap: with the cache hidden and the        *)
(* PT_LOAD group seen as a set of intervals, every getSegmentForAddress    *)
(* call answers with the PT_LOAD segment that contains the address, and    *)
(* with nullptr when none does, whatever the one-slot cache holds from     *)
(* earlier queries and whatever order the file listed the headers in (the  *)
(* binary search relies on the constructor's sort).  Spec section 8: for   *)
(* a in [p_vaddr, p_vaddr + p_memsz) the result is that segment; for       *)
(* a >= endVA() it is absent.                                              *)
(***************************************************************************)
AsInterval(h) == [p_vaddr |-> h.p_vaddr, p_memsz |-> h.p_memsz]

Abstract == INSTANCE AddressMap WITH
    loads <- {AsInterval(h) : h \in {GetSegments(PT_LOAD)[i] :
                                         i \in DOMAIN GetSegments(PT_LOAD)}},
    found <- IF found = NULL THEN NULL ELSE AsInterval(found)

AddressMapSpec == Abstract!Spec

(***************************************************************************)
(* Object::endVA, which takes the end of the LAST PT_LOAD of the sorted    *)
(* group, is the extent of the loaded image: no PT_LOAD ends above it, one *)
(* ends at it, and getSegmentForAddress (cache or search) finds nothing at *)
(* or above it (spec section 8).  It relies on the constructor's sort and  *)
(* on the search and cache agreeing with it.                               *)
(***************************************************************************)
EndVAIsExtent ==
    LET l == GetSegments(PT_LOAD) IN
    l # << >> =>
        /\ \A i \in DOMAIN l : End(l[i]) <= EndVA
        /\ \E i \in DOMAIN l : End(l[i]) = EndVA
        /\ query # NULL /\ query >= EndVA => found = NULL
=============================================================================
