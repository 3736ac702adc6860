\* Three lines at most, of a stream of the page's chain and one of another.
SPECIFICATION LogFairSpec
CONSTANTS
    aOut = aOut
    bOut = bOut
    a = a
    b = b
    Stream = {aOut, bOut}
    ProjectOf <- MCProjectOf
    PageProject = a
    Lines <- MCLines
    MaxLines = 3
    MaxUrl = 512
INVARIANTS
    LogTypeOK
    OneParagraphEach
    CutDoesNotMatter
    LinesDoNotMix
PROPERTIES
    LinesAreShown
CHECK_DEADLOCK FALSE
