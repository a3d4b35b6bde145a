\* Logins, limits and deaths, every process under every interleaving.
CONSTANTS
    Master = master
    Conns = {c1, c2, c3}
    Users = {u1, u2}
    MaxCon = 2
    IpcCap = 1
    Opers = {}
    Texts = {}
    Signals = {"HUP", "fatal"}
    SocketpairFails = TRUE
    NoUser = nouser
SYMMETRY Symmetry
SPECIFICATION Spec
INVARIANTS TypeOK MaxConRespected DuplicateLoginDoomed ReloginJustified
CHECK_DEADLOCK FALSE
