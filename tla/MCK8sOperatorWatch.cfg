\* Two watch connections: nothing goes wrong, nobody stops the operator.
CONSTANTS
    Resources = {r1}
    Watches = {w1, w2}
    Slots = {s1}
    Resync = resync
    MaxGeneration = 1
    MaxTroubles = 0
    None = None
SPECIFICATION Spec
INVARIANTS
    OneWatch
