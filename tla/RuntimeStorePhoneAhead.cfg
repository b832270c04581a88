CONSTANTS
    viaPhone = viaPhone
    viaTether = viaTether
    other = other
    codeA = codeA
    codeB = codeB
    NoCode = NoCode
    NoMessage = NoMessage
    Maintainer = maintainer
    Callers = {c1, c2}
    Messages = {viaTether}
    ContentOf <- MCContentOf
    StampOf <- MCStampOf
    TTL = 2
    Window = 1
    FutureSkew = 1
    MaxRecords = 2
    MaxSeen = 3
    PhoneAhead = 1
    MaxTime = 4
    MaxIds = 2
SPECIFICATION Spec

PROPERTIES NoReappearance
