CONSTANTS
    WND_LEN = 3
    INWND = 3
    EXACT = 1
    SEND_TIMEOUT = 1
    MAX_SEQ = 4
    MAX_TIME = 2
    MAX_ACKS = 2
SPECIFICATION FairSpec
INVARIANTS
    AtMostOnce
    AckedWasAccepted
    NoSilentLoss
PROPERTIES NoNackAfterAck Resolved
