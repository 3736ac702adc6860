\* Two boxes, two notifications of one position, and the layout of one box.
SPECIFICATION PageFairSpec
CONSTANTS
    Box = {"b1", "b2"}
    Options <- MCOptions
    Levels <- MCLevels
    MaxTimers = 3
    MaxCalls = 2
    File = {"f", "g"}
    Note = {"n1", "n2"}
    Position = {"bottom right"}
    MaxRemovals = 2
    Window <- MCWindow
    Size <- MCSize
    Natural <- MCNatural
    Coordinate <- MCCoordinate
    HorizontalOffset = 5
    Header = 40
    Footer = 30
INVARIANTS
    PageTypeOK
    BackdropMatchesBoxes
    CompletesOnce
    UploadIsNamed
    TabStaysOpen
    FitsWindow
PROPERTIES
    BackdropGoes
    NotesGo
CHECK_DEADLOCK FALSE
