\* More manifests than the doctor reads unless it is told to.
SPECIFICATION ArchiveSpec
CONSTANTS
    Nights = 5
    Keep = 2
    MaxFaults = 2
    MaxResets = 1
    Unreadable = Unreadable
    NoName = 0
    Snapshots <- MCSnapshots
    Chains = {"messages", "conversations"}
    Mutable = {"conversations"}
    Required = {"messages", "conversations", "meta"}
    RowidTables = {"messages", "conversations", "meta"}
    Exempt = "config"
    Keys = {"scan", "index"}
    Absent = Absent
    Malformed = Malformed
    ReadFailed = ReadFailed
    Blobs = {"b1", "b2"}
    Labels = {f, g}
    Cap = 1
    VaultNights = 2
    VaultFaults = 0
    Missing = Missing
    Bad = Bad
    Intact = Intact
    Junk = Junk
    Files = {f, g}
    Contents <- MCContents
    NoFile = NoFile
    Rotten = Rotten
    Blocks = {a, b}
    SessionNights = 3
    MaxEdits = 3
    MaxMishaps = 1
SYMMETRY Interchangeable
INVARIANT SoundBackupsRestore
CHECK_DEADLOCK FALSE
