\* Two clients, one key in each of the seven stores, one store or two in use,
\* entries that live one tick, one restart.
SPECIFICATION Spec
CONSTANTS
    c1 = c1
    c2 = c2
    Clients <- MCClients
    Callers <- MCCallers
    Keys = {k1}
    NoItem = NoItem
    MaxLife = 1
    Uses <- MCUses
    MaxDrift = 1
    MaxRestarts = 1
INVARIANTS
    TypeOK
    CountsExactUnlessRaced
    FileComplete
    CloseSaves
PROPERTIES
    ImplementsKVStore
