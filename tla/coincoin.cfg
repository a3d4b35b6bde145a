SPECIFICATION Spec
CONSTANTS
    Reqs = {r1, r2}
    CC_LAST_MESSAGE_MAX = 1
    Listed = 2
    MaxPosts = 3
    Day = 2
    Others = {ann, bob}
SYMMETRY Symmetry
INVARIANTS ShownOnceInOrder RoomIsAuthors ReplyNamesNick
