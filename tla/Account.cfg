SPECIFICATION FairSpec
CONSTANTS
    Loads = {l1, l2}
    MaxRequests = 1
    MaxPairings = 1
INVARIANTS AccountTypeOK
PROPERTIES OnlyRevokedIsForgotten PanelSettles
CHECK_DEADLOCK FALSE
