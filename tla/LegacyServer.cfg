SPECIFICATION Spec
CONSTANTS
    ann = ann
    bob = bob
    User = {ann, bob}
    Handle = {h1, h2}
    Msg = {1}
    To <- MCTo
    Clients <- MCClients
    None = None
    MaxConn = 3
    MaxEnds = 1
INVARIANTS
    OneClosePerConnection
    LoggedInIsFound
    MisdeliveredOnlyByReuse
PROPERTY
    DeadLeave
CHECK_DEADLOCK FALSE
