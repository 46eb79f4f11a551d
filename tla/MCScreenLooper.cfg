SPECIFICATION Spec
CONSTANTS
    Starts = 2
    Windows = {w1, w2}
    Wild = Wild
    None = None
    Ui = Ui
    Free = Free
    MaxPending = 1
INVARIANTS
    TypeOK
    WindowHandshake
PROPERTIES
    HandoverTaken
    FramesKeepLatching
    SoleLooperShows
