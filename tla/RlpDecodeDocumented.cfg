\* Four-byte lengths, as on the device.
SPECIFICATION Spec
CONSTANTS
    Inputs <- MCInputs
    Transactions <- MCTransactions
    SizeBytes = 4
INVARIANT AcceptsOnlyPreimages
CHECK_DEADLOCK FALSE
