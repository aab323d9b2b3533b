SPECIFICATION Spec
CONSTANTS
    SystemNamespace = {kubesystem}
    SharedNamespace = {}
    OtherNamespace = {shop}
    Usage <- MCUsage
    Label <- MCLabel
    Charge = {0, 1}
    MaxPods = 2
    MaxGone = 0
INVARIANT UnallocatedHasShared
CHECK_DEADLOCK FALSE
