\* Debug sink configured, no <dir>/<basename>.debug image: the compensation.
CONSTANTS
    D1 = D1
    D2 = D2
    I1 = I1
    I2 = I2
    NoDir = NoDir
    Absent = Absent
    Corrupt = Corrupt
    NULL = NULL
    NONE = NONE
    VersionLayouts <- VersionedLayouts
    MaxLoads = 2
    DebugDirs <- MCTwoDirs
    Images <- MCImages
    ImageDyn <- MCImageDyn
    ImageVaddr <- MCImageVaddr
    PrimaryDyn <- MCPrimaryDyn
    NoExtDebugChoices = {FALSE}
    SinkChoices = {TRUE}
    BaseChoices <- NoBaseImage
    NoteChoices <- SearchOutcomeLayouts
    BuildIdChoices <- AllBuildId
    LinkChoices <- AllLink
    ExecLinkChoices <- AllLink
    InfodChoices <- AllBuildId
SPECIFICATION Spec
INVARIANTS
    PrelinkCompensated
    VersionsResolved
PROPERTY
    DebugComputedOnce
