\* Two accounts, two processes, two failures in a row.
CONSTANTS
    Accounts = {"jabber", "msn"}
    Chats = {room}
    ProtocolOf <- MCProtocolOf
    UserOf <- MCUserOf
    Home <- MCHome
    Ids <- MCIds
    BaseIds = 2
    MaxId = 3
    MaxDelay = 2
    MaxRuns = 2
SPECIFICATION FairSpec
INVARIANTS TimerTracked QuietWhenUnwanted ServersMatch
PROPERTY ComesBack
