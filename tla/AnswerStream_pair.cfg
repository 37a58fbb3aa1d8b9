SPECIFICATION StreamSpec
CONSTANTS
    Streams = {s1}
    Replies = {}
    MaxHistory = 2
    MaxEvents = 1
    MaxClears = 0
CHECK_DEADLOCK FALSE
INVARIANT OneHistoryPair
