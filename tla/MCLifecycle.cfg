SPECIFICATION FairSpec
CONSTANTS
    r1 = r1
    r2 = r2
    Replicas <- Two
    Deployments <- ManyDeployments
    MaxInFlight = 1
    MaxFaults = 2
INVARIANTS
    TypeOK
    ServesConfigured
    CleanExitAnswersAll
PROPERTIES
    StartsOnlyAdd
    StopsWhenTold
    ServesInTheEnd
CHECK_DEADLOCK FALSE
