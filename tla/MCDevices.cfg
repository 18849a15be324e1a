CONSTANTS
    Transfers = {t1, t2}
    Buffers = {b1, b2}
    Callbacks = {c1}
    None = None
    Cancelling = {t1}
    d1 = d1
    d2 = d2
    Controllers = {d1, d2}
    Orders <- MCOrders
    NoHandle = NoHandle
    MaxScans = 2
    MaxEcho = 2
SPECIFICATION MCSpec
INVARIANTS MCTypeOK TransfersAreSound SheetIsCurrent
PROPERTIES OwnedIsUntouched EchoStops
