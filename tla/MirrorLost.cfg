\* Manifests that cannot be used.
SPECIFICATION MirrorSpec
CONSTANTS
    Paths = {p, q}
    Abroad = Abroad
    Unstaged = Unstaged
    Captures = 2
    Spoils = 1
    Restores = 1
INVARIANT MarkerMeansAll
CHECK_DEADLOCK FALSE
