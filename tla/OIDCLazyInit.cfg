SPECIFICATION FairSpec
CONSTANT Procs = {p1, p2}
INVARIANT TypeOK
PROPERTIES PanicsOnlyDuringInit RecoversAfterOutage
