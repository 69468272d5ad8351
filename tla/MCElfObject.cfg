\* Every environment with one debug directory: the latch and the symbol
\* tables' owners.
CONSTANTS
    D1 = D1
    D2 = D2
    I1 = I1
    I2 = I2
    NoDir = NoDir
    Absent = Absent
    Corrupt = Corrupt
    NULL = NULL
    NONE = NONE
    VersionLayouts <- UncountedLayouts
    MaxLoads = 2
    DebugDirs <- MCOneDir
    Images <- MCImages
    ImageDyn <- MCImageDyn
    ImageVaddr <- MCImageVaddr
    PrimaryDyn <- MCPrimaryDyn
    NoExtDebugChoices = {TRUE, FALSE}
    SinkChoices = {TRUE, FALSE}
    BaseChoices <- AllBase
    NoteChoices <- NoteLayouts
    BuildIdChoices <- AllBuildId
    LinkChoices <- AllLink
    ExecLinkChoices <- AllLink
    InfodChoices <- AllBuildId
SPECIFICATION Spec
INVARIANTS
    NotesIterated
    TypeOK
    NoDanglingCompanion
    SymtabStringsSameObject
