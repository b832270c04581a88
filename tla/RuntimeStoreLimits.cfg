CONSTANTS
    viaPhone = viaPhone
    viaTether = viaTether
    other = other
    codeA = codeA
    codeB = codeB
    NoCode = NoCode
    NoMessage = NoMessage
    Maintainer = maintainer
    Callers = {c1, c2}
    Messages = {viaTether, other}
    ContentOf <- MCContentOf
    StampOf <- MCStampOf
    TTL = 2
    Window = 1
    FutureSkew = 0
    MaxRecords = 1
    MaxSeen = 1
    PhoneAhead = 2
    MaxTime = 3
    MaxIds = 2
SPECIFICATION Spec

PROPERTIES LiveCodesKept EntriesKept
