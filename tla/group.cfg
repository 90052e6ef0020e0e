\* Detectors, manager, factories and servers never stop.
SPECIFICATION MCSpec
CONSTANTS
    N = 3
    MaxCrashes = 0
    StartCrashes = 1
    ServiceCrashes = 3
    MaxStartups = 1
INVARIANTS
    GroupInv
    AtMostOnePrimary
    NeverServesEmpty
PROPERTY Recovers
