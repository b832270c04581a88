CONSTANTS
    Record = {r1, r2}
    NoRecord = NoRecord
    MaxInFlight = 1
    PipeRoom = 2
SPECIFICATION FairSpec
INVARIANTS TypeOK NoResurrection NoRequestLost PickerAgrees
PROPERTIES OnlyCopiedConsumed RequestsEnd PickerConverges ExpiredLeaves
