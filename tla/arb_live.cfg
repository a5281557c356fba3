SPECIFICATION FairSpec
CONSTANTS
    n1 = n1
    n2 = n2
    n3 = n3
    Node = {n1, n2}
    FFD = {n1, n2}
    Sub = {n1, n2}
    Version <- SameVersion
    ResponseTimeout = 1
    SlotLo = 2
    SlotHi = 3
    Silence = 4
    Faults = {"outage", "trap"}
PROPERTIES
    EventuallyCoordinated
    CoordinatorSettles
    OrphansLeave
CHECK_DEADLOCK FALSE
