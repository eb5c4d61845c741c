\* Two users, two requests at a time, a fresh installation or one in use.
SPECIFICATION Spec
CONSTANTS
    Requests = {q1, q2}
    Browsers = {1, 2}
    PeerOf <- OwnAddress
    Users = {1, 2, 3}
    Tokens = {1, 2, 3, 4, 5}
    Shares = {1, 2, 3}
    Kinds = {"setup", "startup", "login", "logout", "hosts", "users", "update", "maintenance", "ack", "list", "create", "revoke", "exchange", "view", "demo"}
    Patches = {"demote", "disable"}
    Slots = 1
    MaxAttempts = 2
    MaxPeers = 1
    Window = 1
    SessionTTL = 1
    ShareTTL = 1
    ShareQuota = 2
    SessionQuota = 1
    MaxTime = 1
    MaxRequests = 2
    MaxEdits = 1
INVARIANTS TypeOK SlotsAreHeld AckedOnce RevokedMeansNoSessions QuotasHold 
PROPERTIES OneFirstAdmin ActorsAreEntitled
SYMMETRY Symm
CHECK_DEADLOCK FALSE
