SPECIFICATION Spec
CONSTANTS
    Loads = {l1, l2}
    MaxRequests = 1
    MaxPairings = 1
PROPERTY PairingIsDurable
CHECK_DEADLOCK FALSE
