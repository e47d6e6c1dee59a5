SPECIFICATION FairSpec
CONSTANT MaxId = 2
INVARIANTS TypeOK ListingIsUnderstood EventsAreTransitions
PROPERTIES OutageIsReal SettledIsReported
