\* Four-byte lengths, as on the device.
SPECIFICATION Spec
CONSTANTS
    Inputs <- MCInputs
    Transactions <- MCTransactions
    SizeBytes = 4
INVARIANTS
    MemorySafe
    ItemsFillTheList
    AcceptedReencodes
    AcceptsEveryPreimage
CHECK_DEADLOCK FALSE
