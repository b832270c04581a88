CONSTANTS
    Server = {command, bridge}
    Bridged = {bridge}
    Former = Former
    Nobody = Nobody
    MaxAge = 1
SPECIFICATION FairSpec
INVARIANTS TypeOK StoppedLeavesNoHeartbeat ShutdownAwaitsLoop ServingIsRenewed
PROPERTIES OwnHeartbeatOnly DeadLooksDead KeepsPublishing StopReturns
