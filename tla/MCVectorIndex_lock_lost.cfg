SPECIFICATION HostileSpec
CONSTANTS
    p1 = p1
    p2 = p2
    r1 = r1
    None = None
    Procs = {p1, p2}
    Readers = {}
    MaxVersions = 2
    MaxBuilds = 3
    MaxGeneration = 3
PROPERTIES
    LostOwnershipFailsClosed
