\* One resource with two revisions, a resync pass beside one event pass.
CONSTANTS
    Resources = {r1}
    Watches = {w1}
    Slots = {s1}
    Resync = resync
    MaxGeneration = 2
    MaxTroubles = 2
    None = None
SPECIFICATION FairSpec
INVARIANTS
    TypeOK
    StatusHonest
PROPERTIES
    LastGoodStays
    Converges
    OrphansVanish
