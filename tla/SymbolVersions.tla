--------------------------- MODULE SymbolVersions ---------------------------
(***************************************************************************)
(* Symbol versioning of an Elf::Object (src/elf.cc):                       *)
(*  - Object::symbolVersions, which walks DT_VERNEEDNUM Verneed records of *)
(*    .gnu.version_r (each with vn_cnt Vernaux entries) and DT_VERDEFNUM   *)
(*    Verdef records of .gnu.version_d (first Verdaux the version, second  *)
(*    the predecessor) into the maps versions, predecessors and files;     *)
(*  - Object::symbolVersion, which masks the hidden bit off an index;      *)
(*  - Object::versionIdxForSymbol, which reads a symbol's index from       *)
(*    .gnu.version.                                                        *)
(*                                                                         *)
(* A layout is what the linker wrote: each section absent (NONE) or a      *)
(* sequence of records, the .dynamic section (NONE or its entries), and    *)
(* .gnu.version (NONE or the Half of each .dynsym index, from 0).          *)
(* Records are chained by offsets; vn_next / vd_next of the last record is *)
(* 0, so a walk that asks for more records than there are rereads the     *)
(* last.  The strings are names (model values or strings), not bytes.     *)
(* These operators are pure; ElfObject holds the cached result, and its   *)
(* VersionsResolved checks it against the spec's definition (Resolves).   *)
(***************************************************************************)
EXTENDS Naturals, Sequences, SequencesExt, Functions

CONSTANTS
    VersionLayouts, \* the .gnu.version_r / .gnu.version_d layouts of a file
    NONE            \* a section or dynamic tag that is absent

\* std::optional<std::string>{} and a std::out_of_range from map::at.
NoVersion == "nullopt"
Thrown == "out_of_range"
NotBuilt == [versions |-> Thrown]

HiddenBit == 32768

(***************************************************************************)
(* The constructor's `dynamic[dyn.d_tag].push_back(dyn)` over the entries  *)
(* of .dynamic (lines 254-260), and `dynamic.at(tag)[0].d_un.d_val`: the   *)
(* first entry of the tag, NONE where map::at throws.                      *)
(***************************************************************************)
DynamicOf(entries) ==
    IF entries = NONE THEN << >>
    ELSE [t \in {entries[i].tag : i \in DOMAIN entries} |->
            SelectSeq(entries, LAMBDA e : e.tag = t)]

TagCount(l, tag) ==
    LET dyn == DynamicOf(l.dynamic)
    IN IF tag \in DOMAIN dyn THEN dyn[tag][1].val ELSE NONE

\* The records a walk of cnt records visits (vn_next = 0 on the last).
Visited(recs, cnt) == [i \in 1..cnt |-> recs[IF i <= Len(recs) THEN i ELSE Len(recs)]]

(***************************************************************************)
(* The .gnu.version_r walk, lines 277-296: for every visited Verneed, its *)
(* vn_cnt Vernaux entries in order, as <<vna_other, name, vn_file>>.       *)
(***************************************************************************)
VerneedEntries(l) ==
    IF l.need = NONE \/ TagCount(l, "VERNEEDNUM") = 0 THEN << >>
    ELSE LET vis == Visited(l.need, TagCount(l, "VERNEEDNUM"))
         IN FlattenSeq([i \in DOMAIN vis |->
                          [j \in DOMAIN vis[i].aux |->
                             <<vis[i].aux[j].other, vis[i].aux[j].name, vis[i].file>>]])

(***************************************************************************)
(* The .gnu.version_d walk, lines 302-323: for every visited Verdef with  *)
(* vd_cnt >= 1, <<vd_ndx, first name, second name or NONE>>.               *)
(***************************************************************************)
VerdefEntries(l) ==
    IF l.def = NONE \/ TagCount(l, "VERDEFNUM") = 0 THEN << >>
    ELSE LET ds == SelectSeq(Visited(l.def, TagCount(l, "VERDEFNUM")), LAMBDA d : d.names # << >>)
         IN [k \in DOMAIN ds |->
               <<ds[k].ndx, ds[k].names[1],
                 IF Len(ds[k].names) >= 2 THEN ds[k].names[2] ELSE NONE>>]

(***************************************************************************)
(* rv->files: every visited Verneed's vn_file gets an entry (empty when    *)
(* vn_cnt is 0), and its Vernaux indices are appended in walk order.       *)
(***************************************************************************)
FilesOf(l) ==
    IF l.need = NONE \/ TagCount(l, "VERNEEDNUM") = 0 THEN << >>
    ELSE LET vis == Visited(l.need, TagCount(l, "VERNEEDNUM"))
             own(f) == SelectSeq(vis, LAMBDA r : r.file = f)
         IN [f \in {vis[i].file : i \in DOMAIN vis} |->
               FlattenSeq([k \in DOMAIN own(f) |->
                             [j \in DOMAIN own(f)[k].aux |-> own(f)[k].aux[j].other]])]

\* map[k] = v, later assignments winning.
Assign(m, k, v) == (k :> v) @@ m

(***************************************************************************)
(* Object::symbolVersions, built on the first call (lines 270-327): an     *)
(* absent DT_VERNEEDNUM / DT_VERDEFNUM makes dynamic.at throw when its     *)
(* section exists, before anything is cached.                              *)
(***************************************************************************)
SymbolVersionsOf(l) ==
    IF \/ l.need # NONE /\ TagCount(l, "VERNEEDNUM") = NONE
       \/ l.def # NONE /\ TagCount(l, "VERDEFNUM") = NONE
       THEN NotBuilt
    ELSE LET need == VerneedEntries(l)
             def  == VerdefEntries(l)
         IN [versions |-> FoldLeft(LAMBDA m, e : Assign(m, e[1], e[2]), << >>, need \o def),
             predecessors |-> FoldLeft(LAMBDA m, e : IF e[3] = NONE THEN m
                                                      ELSE Assign(m, e[1], e[3]),
                                       << >>, def),
             files |-> FilesOf(l)]

\* A bug that keeps the hidden bit in the index.
SymbolVersionUnmasked(vi, idx) ==
    IF idx >= 2 THEN IF idx \in DOMAIN vi.versions THEN vi.versions[idx] ELSE Thrown
    ELSE NoVersion

(***************************************************************************)
(* Object::symbolVersion (lines 125-133) on the versioning vi that         *)
(* symbolVersions() returned: map::at throws for an index never defined.   *)
(***************************************************************************)
SymbolVersion(vi, idx) ==
    LET i == idx % HiddenBit
    IN IF i >= 2 THEN IF i \in DOMAIN vi.versions THEN vi.versions[i] ELSE Thrown
       ELSE NoVersion

(***************************************************************************)
(* Object::versionIdxForSymbol (lines 135-140): nullopt without           *)
(* .gnu.version, else the Half at byte 2 * idx, i.e. entry idx.           *)
(***************************************************************************)
VersionIdxForSymbol(l, idx) == IF l.versym = NONE THEN NoVersion ELSE l.versym[idx]

-----------------------------------------------------------------------------
(***************************************************************************)
(* The spec's definition (sections 4.8 and 8): with the dynamic tags       *)
(* counting the records, the version of .dynsym symbol s, symbolVersion   *)
(* (versionIdxForSymbol(s)), is absent when the low 15 bits of its entry  *)
(* are 0 or 1, and otherwise the name the Vernaux or Verdef of that index  *)
(* records; predecessors hold every Verdef's second name, and files list   *)
(* the indices of each needed file in order.  (Indices the sections never  *)
(* define are outside the definition; each index is defined once.)        *)
(***************************************************************************)
Counted(l) ==
    LET entries == IF l.dynamic = NONE THEN << >> ELSE l.dynamic
        counts(tag) == {entries[i].val : i \in {i \in DOMAIN entries : entries[i].tag = tag}}
    IN /\ l.need # NONE => counts("VERNEEDNUM") = {Len(l.need)}
       /\ l.def # NONE => counts("VERDEFNUM") = {Len(l.def)}

Recorded(l) ==
    (IF l.need = NONE THEN {}
     ELSE {<<a.other, a.name>> : a \in UNION {Range(r.aux) : r \in Range(l.need)}})
    \cup
    (IF l.def = NONE THEN {}
     ELSE {<<d.ndx, d.names[1]>> : d \in {d \in Range(l.def) : d.names # << >>}})

Needed(l, f) ==
    FlattenSeq([i \in DOMAIN SelectSeq(l.need, LAMBDA r : r.file = f) |->
                  [j \in DOMAIN SelectSeq(l.need, LAMBDA r : r.file = f)[i].aux |->
                     SelectSeq(l.need, LAMBDA r : r.file = f)[i].aux[j].other]])

\* What the definition fixes for layout l; Unspecified for undefined indices.
Unspecified == "unspecified"

\* The .dynsym indices .gnu.version describes.
Versioned(l) == IF l.versym = NONE THEN {} ELSE DOMAIN l.versym

ExpectedOf(l) ==
    [answer |-> [s \in Versioned(l) |->
                   LET i == l.versym[s] % HiddenBit IN
                   IF i \in {0, 1} THEN NoVersion
                   ELSE IF \E p \in Recorded(l) : p[1] = i
                        THEN (CHOOSE p \in Recorded(l) : p[1] = i)[2]
                        ELSE Unspecified],
     preds |-> IF l.def = NONE THEN << >>
               ELSE [k \in {d.ndx : d \in {d \in Range(l.def) : Len(d.names) >= 2}} |->
                       (CHOOSE d \in Range(l.def) : d.ndx = k).names[2]],
     files |-> IF l.need = NONE THEN << >>
               ELSE [f \in {r.file : r \in Range(l.need)} |-> Needed(l, f)]]

\* The versioning vi answers as the definition e says for every symbol of l.
Resolves(l, e, vi) ==
    /\ \A s \in Versioned(l) :
          e.answer[s] # Unspecified =>
             SymbolVersion(vi, VersionIdxForSymbol(l, s)) = e.answer[s]
    /\ \A k \in DOMAIN e.preds : vi.predecessors[k] = e.preds[k]
    /\ vi.files = e.files
=============================================================================
