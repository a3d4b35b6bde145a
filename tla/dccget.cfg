SPECIFICATION GetFairSpec
CONSTANTS
    Buddies = {b1}
    Icon = icon
    Paths = {p1}
    IconPath = ip
    MaxSize = 2
    MaxGets = 2
INVARIANTS NothingDangles HandedWhole
PROPERTY Ends
