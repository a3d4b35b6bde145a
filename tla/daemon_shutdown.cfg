\* What must happen in the end: deaths, shutdown, reaping, on fair main loops.
CONSTANTS
    Master = master
    Conns = {c1, c2}
    Users = {u1}
    MaxCon = 0
    IpcCap = 1
    Opers = {c1}
    Texts = {"plain", "empty", "long"}
    Signals = {"TERM"}
    SocketpairFails = FALSE
    NoUser = nouser
SPECIFICATION FairSpec
PROPERTIES DieObeyed DieClosesServer ChildReaped MasterMissed
CHECK_DEADLOCK FALSE
