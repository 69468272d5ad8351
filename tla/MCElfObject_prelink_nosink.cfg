\* No debug sink (context.debug == nullptr): is the companion compensated?
CONSTANTS
    D1 = D1
    D2 = D2
    I1 = I1
    I2 = I2
    NoDir = NoDir
    Absent = Absent
    Corrupt = Corrupt
    NULL = NULL
    NONE = NONE
    VersionLayouts <- UncountedLayouts
    MaxLoads = 2
    DebugDirs <- MCOneDir
    Images <- MCImages
    ImageDyn <- MCImageDyn
    ImageVaddr <- MCImageVaddr
    PrimaryDyn <- MCPrimaryDyn
    NoExtDebugChoices = {FALSE}
    SinkChoices = {FALSE}
    BaseChoices <- NoBaseImage
    NoteChoices <- SearchOutcomeLayouts
    BuildIdChoices <- AllBuildId
    LinkChoices <- AllLink
    ExecLinkChoices <- AllLink
    InfodChoices <- AllBuildId
SPECIFICATION Spec
INVARIANTS
    PrelinkCompensated
