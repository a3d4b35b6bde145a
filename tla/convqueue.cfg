\* Nicks of every class and rooms, messages of every kind, with and without delay.
CONSTANTS
    Entities = {e}
    Kinds = {"buddy", "chat", "unknown", "room"}
    MaxMsgs = 4
SPECIFICATION ConvFairSpec
INVARIANTS EachOnceInOrder OneTimer
PROPERTY NoneWaits
CHECK_DEADLOCK FALSE
