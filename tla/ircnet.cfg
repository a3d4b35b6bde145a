\* Every pointer between nicks, channels, servers, buddies and conversations.
CONSTANTS
    a = a
    b = b
    alice = alice
    bob = bob
    carol = carol
    room = room
    common = common
    o1 = o1
    o2 = o2
    Accounts = {a, b}
    People = {alice, bob, carol}
    AccountOf <- MCAccountOf
    Rooms = {room}
    RoomAccount <- MCRoomAccount
    Bases = {common}
    BaseOf <- MCBaseOf
    Objs = {Me, o1, o2}
    Me = Me
    MyName <- MCMyName
    Status = Status
    Null = Null
    Wanted <- MCWanted
SYMMETRY Symmetry
SPECIFICATION Spec
INVARIANTS UsersExact ChannelsAgree PointersAgree ChannelsShow
CHECK_DEADLOCK FALSE
