SPECIFICATION FilesSpec
CONSTANTS
    Handlers = {h1}
    Watchdog = Watchdog
    Startup = Startup
    Reviewer = {u, v}
    DueAfter = 1
    DueCount = 1
    Grace = 1
    ClockSteps = TRUE
    MaxClock = 1
    MaxQueries = 1
    MaxReviews = 2
    MaxFaults = 1
    None = None
    Convs = {c, d}
    MinTurns = 1
    FeedCap = 2
    Foreign = Foreign
    NoText = NoText
    NoKey = NoKey
    Layouts <- MCLayouts
    FeedTurns = 2
    FeedTimes = 2
    FeedRuns = 2
    FeedFaults = 1
    Rebuilds = 1
    Roles <- MCRoles
    MaxAppend = 2
    MaxBatch = 2
    Attempts = 2
    ConvLength = 3
    Claims = 2
    Mishaps = 1
    Paths = {u, v}
    Abroad = Abroad
    Unstaged = Unstaged
    Captures = 3
    Spoils = 2
    Restores = 2
    Puts = {u, v}
    Payloads = {x, y}
    Torn = Torn
    NoBlob = NoBlob
    BlobFaults = 3
    Queries = {u, v}
    Cards = {"card"}
    ErrorCodes = {x, y}
    SampleGate = 1
    Streak = 2
    Day = 0
    ViewRows = 3
    ViewDays = 1
    Requests = {u, v}
    Versions = {x, y}
    NoPin = NoPin
    Pinnings = 3
    Outputs <- MCOutputs
    max_err_lines = 2
SYMMETRY Interchangeable
INVARIANTS
    NothingIsPassedOver
    FedOnceAsClaimed
    CompletedIsWhole
    StagingIsWhole
    NameIsWhole
    ViewTellsWhatHappened
    PinIsCurrent
    CutKeepsAnError
PROPERTIES
    NothingIsTakenBack
    NoFileChangesHands
CHECK_DEADLOCK FALSE
