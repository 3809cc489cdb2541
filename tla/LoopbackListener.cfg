SPECIFICATION FairSpec
CONSTANTS
    Connections = {c1, c2, c3}
    NoConnection = NoConnection
INVARIANTS TypeOK OneAccepted GenuineIsRecognised LockIsWanted
PROPERTIES IsOneShot EveryoneIsAnswered SignInEnds
CHECK_DEADLOCK FALSE
