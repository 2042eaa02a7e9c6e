SPECIFICATION FairSpec
CONSTANTS
    Revisions = {r1, r2}
    First = r1
    Missing = Missing
    Mixed = Mixed
    Children = {"shop-dev"}
    Deployments = {"api"}
    MaxWrites = 2
INVARIANTS
    TypeOK
    PromotionEarned
    ConvergedHolds
    RestoreEarned
    UndoneOrHealing
PROPERTIES
    ReportFinal
    GoodImageReturns
CHECK_DEADLOCK FALSE
