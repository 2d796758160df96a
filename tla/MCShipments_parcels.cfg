\* Two requests, two parcels for two items.
SPECIFICATION Spec
CONSTANTS
    i1 = i1
    i2 = i2
    Item = {i1, i2}
    Ordered <- MCOrdered
    Request = {q1, q2}
    MaxShipments = 2
SYMMETRY Symmetric
INVARIANTS ShipmentsTypeOK NeverOvershipped FulfilledMeansDelivered
PROPERTY TerminalIsFinal
CHECK_DEADLOCK FALSE
CONSTRAINT NotStale
