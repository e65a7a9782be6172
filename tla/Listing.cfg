SPECIFICATION Spec
CONSTANTS
    None = None
    Slash = 2
    w1 = w1
    w2 = w2
    Writer = {w1, w2}
    Scenario <- MCScenario
INVARIANTS
    PagesJoin
    ErrorsAreRaces
PROPERTY ListingEnds
