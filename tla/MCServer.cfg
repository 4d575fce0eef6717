SPECIFICATION Spec
CONSTANTS
    Clients = {c1, c2}
    Prompts = {p1, p2}
    Nobody = nobody
    MaxNew = 2
    MaxMessages = 3
INVARIANTS StopHitsItsTurn QuietBetweenRequests ModelSeesTheChat
PROPERTY RequestEnds
CHECK_DEADLOCK FALSE
