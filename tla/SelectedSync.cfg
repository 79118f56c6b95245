CONSTANTS
    a1 = a1
    a2 = a2
    d1 = d1
    d2 = d2
    Article <- MCArticle
    SiteOf <- MCSiteOf
    Device <- MCDevice
    Configs <- MCConfigs
    MaxOutside = 3
SPECIFICATION Spec
SYMMETRY MCSymmetry
CHECK_DEADLOCK FALSE
INVARIANTS RowsAreDeliveries SelectedDelivered EditsExported
