SPECIFICATION Spec
CONSTANTS
    SystemNamespace = {kubesystem}
    SharedNamespace = {ingress}
    OtherNamespace = {shop, web}
    Usage <- MCUsage
    Label <- MCLabel
    Charge = {0, 1}
    MaxPods = 3
    MaxGone = 1
INVARIANTS
    CostIsConserved
    TeamsAddUp
    SharesFollowDirect
    StoredAddsUp
CHECK_DEADLOCK FALSE
