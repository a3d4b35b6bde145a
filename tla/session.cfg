\* One session: registration with local accounts only and with every mechanism, and its end.
CONSTANTS
    alice = alice
    bob = bob
    secret = secret
    other = other
    Names = {alice, bob}
    NoName = NoName
    Passwords = {secret, other}
    NoPass = NoPass
    NoDir = NoDir
    MechSets <- LocalOrAll
    PamUsers <- PamAlice
    CertName = bob
    GlobalPass = secret
    PingFreq = 2
    MaxLines = 2
SPECIFICATION FairSpec
INVARIANTS AnnouncedIsAccount TimeoutDeserved
PROPERTIES CredentialsFit QuitEnds SilentDropped
CHECK_DEADLOCK FALSE
