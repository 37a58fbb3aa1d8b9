SPECIFICATION Spec
CONSTANTS
    p1 = p1
    p2 = p2
    r1 = r1
    None = None
    Procs = {p1, p2}
    Readers = {r1}
    MaxVersions = 2
    MaxBuilds = 3
    MaxGeneration = 4
INVARIANTS
    IndexSafety
    VersionsBounded
PROPERTIES
    CommandsAreExact
    ImplementsRegister
