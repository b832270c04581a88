CONSTANTS
    viaPhone = viaPhone
    viaTether = viaTether
    other = other
    codeA = codeA
    codeB = codeB
    NoCode = NoCode
    NoMessage = NoMessage
    Maintainer = maintainer
    Callers = {c1, c2}
    Messages = {viaPhone, viaTether}
    ContentOf <- MCContentOf
    StampOf <- MCStampOf
    TTL = 2
    Window = 1
    FutureSkew = 1
    MaxRecords = 2
    MaxSeen = 3
    PhoneAhead = 0
    MaxTime = 3
    MaxIds = 2
SPECIFICATION FairSpec
INVARIANTS TypeOK NoDuplicateCodes RememberedWhileFresh
PROPERTIES VaultSpec ExpiredCodesErased
