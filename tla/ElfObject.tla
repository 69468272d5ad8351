----------------------------- MODULE ElfObject -----------------------------
(***************************************************************************)
(* One primary Elf::Object (src/elf.cc) and its lazily discovered debug    *)
(* companion:                                                              *)
(*  - Object::getDebug: the debugLoaded latch, the four discovery routes   *)
(*    in the code's order (<dir>/<basename>.debug, build-id note,          *)
(*    .gnu_debuglink in the debug dirs then beside the file, debuginfod),  *)
(*    and the prelink compensation of the companion's addresses;           *)
(*  - Object::getDebugSection / getLinkedSection / getSymtab: the lazy     *)
(*    symbol tables, which may come from the companion;                    *)
(*  - Object::symbolVersions: its cache symbolVersions_ (SymbolVersions). *)
(*                                                                         *)
(* The file system, the Context options and the debuginfod server are the  *)
(* environment `env`, chosen once in Init and never changed.  A companion  *)
(* is a record naming the image it was read from, the Object instance      *)
(* (each load constructs a new one), the sh_addr of its .dynamic section   *)
(* and the p_vaddr of its first PT_LOAD (every section and segment is      *)
(* moved by the same amount, so one of each stands for all).               *)
(***************************************************************************)
EXTENDS Naturals, Integers, Sequences, FiniteSets, Notes, SymbolVersions

CONSTANTS
    DebugDirs,       \* Context::getDebugDirectories(), in order
    Images,          \* the ELF debug images that exist somewhere
    ImageDyn,        \* image -> sh_addr of its .dynamic section
    ImageVaddr,      \* image -> p_vaddr of its first PT_LOAD
    PrimaryDyn,      \* sh_addr of the primary's .dynamic section
    NoDir, Absent, Corrupt, \* what a path holds besides an image
    NULL,
    MaxLoads,        \* bound on the Object instances getDebug may construct
    \* the environments explored (subsets of the full choice sets)
    NoExtDebugChoices, SinkChoices, BaseChoices, NoteChoices, BuildIdChoices,
    LinkChoices, ExecLinkChoices, InfodChoices

Dirs == {DebugDirs[i] : i \in DOMAIN DebugDirs}
ASSUME /\ BaseChoices \subseteq {NoDir, Absent, Corrupt} \cup Images
       /\ LinkChoices \subseteq {Absent, Corrupt} \cup Images
       /\ BuildIdChoices \subseteq Images \cup {NULL}

Env == [noExtDebug: NoExtDebugChoices,   \* context.options.noExtDebug
        debugSink: SinkChoices,          \* context.debug != nullptr
        baseFile: [Dirs -> BaseChoices], \* <dir>/<basename>.debug
        notes: NoteChoices,              \* the PT_NOTE segments (see Notes)
        versions: VersionLayouts,        \* the version sections (see SymbolVersions)
        buildIdImage: BuildIdChoices,    \* getDebugImage(".build-id/...")
        debuglink: BOOLEAN,              \* .gnu_debuglink present
        linkFile: [Dirs -> LinkChoices], \* <dir>/<debuglink>
        execLink: ExecLinkChoices,       \* <dirname(file)>/<debuglink>
        debuginfod: InfodChoices,        \* debuginfod_find_debuginfo result
        symtab: BOOLEAN,                 \* primary has .symtab (not stripped)
        dynsym: BOOLEAN]                 \* primary has .dynsym

\* Owners of sections: the primary, the null section sectionHeaders[0], or
\* the companion instance with that number.
Primary == 0
NullSection == -1
Owner == {Primary, NullSection} \cup (1..MaxLoads)
Companion == [image: Images, inst: 1..MaxLoads, dyn: Int, vaddr: Int]
Table == [sym: Owner, str: Owner]

VARIABLES
    env,          \* the environment, fixed
    debugLoaded,  \* Object::debugLoaded
    debugObject,  \* Object::debugObject: NULL or a Companion
    loads,        \* Object instances constructed for companions so far
    handed,       \* companion instances returned to callers by getDebug
    tables,       \* debugSymbols_ / dynamicSymbols_: NULL or a Table
    failed,       \* the last call ended in an exception
    symbolVersions_ \* Object::symbolVersions_: NULL or the built versioning

vars == <<env, debugLoaded, debugObject, loads, handed, tables, failed, symbolVersions_>>

Kinds == {"symtab", "dynsym"}

(***************************************************************************)
(* Discovery helpers.                                                      *)
(***************************************************************************)
\* The first of DebugDirs whose entry in f is an image, or NULL.
FirstImage(f) ==
    LET hits == {i \in DOMAIN DebugDirs : f[DebugDirs[i]] \in Images}
    IN IF hits = {} THEN NULL
       ELSE f[DebugDirs[CHOOSE i \in hits : \A j \in hits : i <= j]]

\* Step 1: <dir>/<basename>.debug in each readable directory; a file that
\* fails to load (Corrupt) is skipped, a missing directory (NoDir) too.
ByExecName == FirstImage(env.baseFile)

\* The outcome of getDebug's walk for a GNU build-id note (lines 590-592),
\* for each layout (a constant, so TLC evaluates it once).
SearchOutcome == [l \in NoteChoices |-> BuildIdSearch(l)]

HasBuildId == SearchOutcome[env.notes] = "found"

\* Step 2: Context::getDebugImage(".build-id/xx/yyyy.debug").
ByBuildId == IF HasBuildId THEN env.buildIdImage ELSE NULL

(***************************************************************************)
(* Step 3: for every debug dir where access(<dir>/<link>) succeeds, ask    *)
(* Context::getDebugImage(link), which searches the debug dirs and loads   *)
(* the first image (spec section 6); then try <dirname(file)>/<link>.      *)
(***************************************************************************)
ByDebugLink ==
    LET inDirs == IF \E d \in Dirs : env.linkFile[d] # Absent
                     THEN FirstImage(env.linkFile) ELSE NULL
    IN IF ~env.debuglink THEN NULL
       ELSE IF inDirs # NULL THEN inDirs
       ELSE IF env.execLink \in Images THEN env.execLink
       ELSE NULL

\* Step 4 (DEBUGINFOD builds): only with a build id.
ByDebuginfod == IF HasBuildId THEN env.debuginfod ELSE NULL

\* The image steps 2..4 find, in the code's order.
LaterSteps ==
    IF ByBuildId # NULL THEN ByBuildId
    ELSE IF ByDebugLink # NULL THEN ByDebugLink
    ELSE ByDebuginfod

\* Mutant of NewCompanion: the instance is numbered before the count is bumped.
NewCompanionBefore(img) ==
    [image |-> img, inst |-> loads, dyn |-> ImageDyn[img], vaddr |-> ImageVaddr[img]]

NewCompanion(img) ==
    [image |-> img, inst |-> loads + 1, dyn |-> ImageDyn[img], vaddr |-> ImageVaddr[img]]

\* Mutant of Compensate: the delta is taken the wrong way round.
CompensateSwapped(c) ==
    LET diff == c.dyn - PrimaryDyn
    IN IF c.dyn # PrimaryDyn /\ env.debugSink
          THEN [c EXCEPT !.dyn = @ + diff, !.vaddr = @ + diff]
          ELSE c

(***************************************************************************)
(* Lines 694-713: if the companion's .dynamic sh_addr differs from the     *)
(* primary's and context.debug is set, add primary - companion to every    *)
(* section sh_addr and every program header p_vaddr of the companion.      *)
(***************************************************************************)
Compensate(c) ==
    LET diff == PrimaryDyn - c.dyn
    IN IF c.dyn # PrimaryDyn /\ env.debugSink
          THEN [c EXCEPT !.dyn = @ + diff, !.vaddr = @ + diff]
          ELSE c

Hand(c) == IF c = NULL THEN handed ELSE handed \cup {c.inst}

(***************************************************************************)
(* The effect of one call of Object::getDebug from the current state.      *)
(* Latched (debugLoaded) or disabled (noExtDebug): return debugObject.     *)
(* Otherwise set the latch first (line 545), then: step 1 returns at once  *)
(* when it loads <dir>/<basename>.debug (line 573); iterating the notes    *)
(* throws on a malformed PT_NOTE; steps 2..4 end in the compensation.      *)
(***************************************************************************)
DebugSkipped == debugLoaded \/ env.noExtDebug

DebugThrows == ~DebugSkipped /\ ByExecName = NULL /\ SearchOutcome[env.notes] = "throw"

\* Mutant of GetDebugResult: the debugLoaded latch is not consulted.
GetDebugResultUnlatched ==
    IF env.noExtDebug THEN debugObject
    ELSE IF ByExecName # NULL THEN NewCompanion(ByExecName)
    ELSE IF LaterSteps # NULL THEN Compensate(NewCompanion(LaterSteps))
    ELSE NULL

GetDebugResult ==
    IF DebugSkipped THEN debugObject
    ELSE IF ByExecName # NULL THEN NewCompanion(ByExecName)
    ELSE IF LaterSteps # NULL THEN Compensate(NewCompanion(LaterSteps))
    ELSE NULL

\* The state a getDebug call that returns leaves behind.
DebugCalled ==
    /\ debugLoaded' = (debugLoaded \/ ~env.noExtDebug)
    /\ debugObject' = GetDebugResult
    /\ loads' = IF GetDebugResult # NULL /\ GetDebugResult # debugObject
                   THEN loads + 1 ELSE loads
    /\ loads' <= MaxLoads

\* A getDebug call that throws: only the latch survives.
DebugFailed ==
    /\ debugLoaded' = TRUE
    /\ failed' = TRUE
    /\ UNCHANGED <<debugObject, loads, handed, tables, symbolVersions_>>

\* Object::getDebug called by a client, which keeps the pointer.
GetDebug ==
    /\ \/ DebugThrows /\ DebugFailed
       \/ /\ ~DebugThrows
          /\ DebugCalled
          /\ handed' = Hand(debugObject')
          /\ failed' = FALSE
          /\ UNCHANGED tables
    /\ UNCHANGED <<env, symbolVersions_>>

(***************************************************************************)
(* Sections.  A section is named by the Object that owns it: Primary, a   *)
(* companion instance, or NullSection (sectionHeaders[0]).                 *)
(* A companion (a debug file) has .symtab, and .dynsym only as a NOBITS    *)
(* copy when the primary has one.                                          *)
(***************************************************************************)
HasLocal(k) == IF k = "symtab" THEN env.symtab ELSE env.dynsym

\* debug->getSection(name, type) on the companion c.
CompanionSection(c, k) ==
    IF c = NULL THEN NullSection
    ELSE IF k = "symtab" THEN c.inst
    ELSE NullSection

\* Mutant of LinkedOwner: sh_link is always looked up in this->sectionHeaders.
LinkedOwnerLocal(o, debug) == IF o = NullSection THEN NullSection ELSE Primary

(***************************************************************************)
(* Object::getLinkedSection(from): the null section links to itself; a     *)
(* section of this Object to sectionHeaders[sh_link]; one of the companion *)
(* is handed to debug->getLinkedSection (debug = getDebug()), which        *)
(* resolves it there; with no companion it is the null section.           *)
(***************************************************************************)
LinkedOwner(o, debug) ==
    CASE o = NullSection -> NullSection
      [] o = Primary     -> Primary
      [] OTHER           -> IF debug # NULL THEN debug.inst ELSE NullSection

(***************************************************************************)
(* Object::getSymtab(table, name, type), reached through debugSymbols()    *)
(* and dynamicSymbols().  A cached table is returned as it is.  Otherwise  *)
(* getDebugSection returns the local section unless it is missing (or      *)
(* NOBITS), in which case it calls getDebug and asks the companion; the    *)
(* string table is getLinkedSection of the symbol section.  An exception   *)
(* from getDebug leaves the table unset.                                   *)
(***************************************************************************)
GetSymtabCached(k) ==
    /\ tables[k] # NULL
    /\ failed' = FALSE
    /\ UNCHANGED <<env, debugLoaded, debugObject, loads, handed, tables, symbolVersions_>>

GetSymtabLocal(k) ==
    /\ tables[k] = NULL
    /\ HasLocal(k)
    /\ tables' = [tables EXCEPT ![k] = [sym |-> Primary, str |-> LinkedOwner(Primary, debugObject)]]
    /\ failed' = FALSE
    /\ UNCHANGED <<env, debugLoaded, debugObject, loads, handed, symbolVersions_>>

GetSymtabFromDebug(k) ==
    /\ tables[k] = NULL
    /\ ~HasLocal(k)
    /\ \/ DebugThrows /\ DebugFailed
       \/ /\ ~DebugThrows
          /\ DebugCalled
          /\ LET o == CompanionSection(debugObject', k)
             IN tables' = [tables EXCEPT ![k] = [sym |-> o, str |-> LinkedOwner(o, debugObject')]]
          /\ failed' = FALSE
          /\ UNCHANGED handed
    /\ UNCHANGED <<env, symbolVersions_>>

GetSymtab(k) == GetSymtabCached(k) \/ GetSymtabLocal(k) \/ GetSymtabFromDebug(k)

(***************************************************************************)
(* Object::symbolVersions, as symbolVersion and every other caller reach   *)
(* it: the first call that does not throw builds and caches the maps;     *)
(* a call that throws (dynamic.at) caches nothing, so the next one walks   *)
(* again.  Later calls return the cache and change nothing.               *)
(***************************************************************************)
\* symbolVersions() of each layout, evaluated once; and the spec's answers.
VersionsBuilt == [l \in VersionLayouts |-> SymbolVersionsOf(l)]
Expected == [l \in VersionLayouts |-> ExpectedOf(l)]

SymbolVersionsBuild ==
    /\ symbolVersions_ = NULL
    /\ VersionsBuilt[env.versions] # NotBuilt
    /\ symbolVersions_' = VersionsBuilt[env.versions]
    /\ failed' = FALSE
    /\ UNCHANGED <<env, debugLoaded, debugObject, loads, handed, tables>>

SymbolVersionsThrow ==
    /\ symbolVersions_ = NULL
    /\ VersionsBuilt[env.versions] = NotBuilt
    /\ failed' = TRUE
    /\ UNCHANGED <<env, debugLoaded, debugObject, loads, handed, tables, symbolVersions_>>

Init ==
    /\ env \in Env
    /\ debugLoaded = FALSE    \* the primary is not itself a debug image
    /\ debugObject = NULL
    /\ loads = 0
    /\ handed = {}
    /\ tables = [k \in Kinds |-> NULL]
    /\ failed = FALSE
    /\ symbolVersions_ = NULL

Next == GetDebug \/ (\E k \in Kinds : GetSymtab(k)) \/ SymbolVersionsBuild \/ SymbolVersionsThrow

Spec == Init /\ [][Next]_vars

-----------------------------------------------------------------------------
TypeOK ==
    /\ env \in Env
    /\ debugLoaded \in BOOLEAN
    /\ debugObject \in Companion \cup {NULL}
    /\ loads \in 0..MaxLoads
    /\ handed \subseteq 1..MaxLoads
    /\ tables \in [Kinds -> Table \cup {NULL}]
    /\ failed \in BOOLEAN
    /\ symbolVersions_ \in {NULL} \cup {VersionsBuilt[l] : l \in VersionLayouts}

(***************************************************************************)
(* Prelink compensation (spec invariant I5): once getDebug has produced a  *)
(* companion, its .dynamic sits at the primary's sh_addr and its PT_LOAD   *)
(* segments have moved by the same delta, so addresses taken from the     *)
(* companion's symbols are addresses of the primary.  Object::getDebug,    *)
(* lines 694-713 (and the early return of line 573).                       *)
(***************************************************************************)
PrelinkCompensated ==
    debugObject # NULL =>
        /\ debugObject.dyn = PrimaryDyn
        /\ debugObject.vaddr = ImageVaddr[debugObject.image] + PrimaryDyn
                                 - ImageDyn[debugObject.image]

(***************************************************************************)
(* Every companion Object a caller holds, as the pointer getDebug returned *)
(* or as the owner of a cached symbol or string table, is the one          *)
(* debugObject still owns: a second discovery would construct a new        *)
(* Object and free the old one under its users (spec I4: debugLoaded       *)
(* latches, a result is never retried).                                    *)
(***************************************************************************)
NoDanglingCompanion ==
    LET held == handed \cup {o \in UNION {{tables[k].sym, tables[k].str} :
                                              k \in {j \in Kinds : tables[j] # NULL}} :
                                 o \in 1..MaxLoads}
    IN \A i \in held : debugObject # NULL /\ debugObject.inst = i

(***************************************************************************)
(* getDebug is a value computed once: with the latch as "filled" and      *)
(* debugObject as the value (NULL after a failed or fruitless search),     *)
(* the Object implements OnceCell.  No later call, whichever route it      *)
(* would take now, replaces or clears the companion (lines 543-546, the    *)
(* latch set before discovery).                                            *)
(***************************************************************************)
\* The cell before the first getDebug, a record no Companion equals.
DebugUnset == [inst |-> 0]

DebugSlot == INSTANCE OnceCell WITH
    Unset  <- DebugUnset,
    Values <- Companion \cup {NULL},
    slot   <- IF debugLoaded THEN debugObject ELSE DebugUnset

DebugComputedOnce == DebugSlot!Spec

(***************************************************************************)
(* The notes iterator yields exactly the notes of every PT_NOTE segment,   *)
(* in order, when the segments are laid out as the ABI says: the offset   *)
(* arithmetic of operator++ (padding name and descriptor to 4 bytes) and   *)
(* its move to the next segment at p_filesz neither skip nor invent a      *)
(* note, nor read past a segment.                                          *)
(***************************************************************************)
WalkOf == [l \in NoteChoices |-> NoteWalk(l)]

NotesIterated == WellFormed(env.notes) => WalkOf[env.notes] = AllNotes(env.notes)

(***************************************************************************)
(* A symbol table reads its names from the string table of the same        *)
(* Object: when .symtab comes from the companion, sh_link must be resolved *)
(* in the companion's section headers (getLinkedSection, line 492).        *)
(***************************************************************************)
SymtabStringsSameObject ==
    \A k \in Kinds : tables[k] # NULL => tables[k].str = tables[k].sym

(***************************************************************************)
(* Symbol versions (spec sections 4.8 and 8): once symbolVersions() has   *)
(* cached its maps for version sections whose dynamic tags count their     *)
(* records, every symbolVersion(idx) answers from them: nothing for        *)
(* indices 0 and 1, the recorded name otherwise, with the hidden bit 15    *)
(* ignored; predecessors and files hold what the Verdefs and Verneeds say. *)
(***************************************************************************)
VersionsResolved ==
    symbolVersions_ # NULL /\ Counted(env.versions) => Resolves(env.versions, Expected[env.versions], symbolVersions_)

=============================================================================
