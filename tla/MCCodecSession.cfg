SPECIFICATION Spec
CONSTANTS
    Starts = 2
    Stops = 1
    Configs = {h1}
    Frames = 1
    InputSlots = 1
    Pull = Pull
    Null = Null
    Wild = Wild
CHECK_DEADLOCK FALSE
INVARIANTS
    TypeOK
    SoleSessionSafe
    AvailableMeansConfigured
    BuffersAccountedFor
PROPERTIES
    OutputLoopsEnd
    ConfigurationCompletes
