CONSTANTS
    Org = {oA, oB}
    Writer = {w1, w2, w3}
    SerialOrg = {oA}
    MaxId = 5
    Check = {k1, k2}
    Limit = 1
    Window = 2
    Expiry = 3
    MaxDelay = 1
    MaxTime = 5
    MaxHits = 3
    Signer = {g1, g2}
    MaxKeys = 3
SPECIFICATION SharedSpec
SYMMETRY Symmetry
INVARIANTS TypeOK LinkedBackwards ForkWidthBounded WindowsHoldTheLimit SignedWithStoredKey KeysBounded
PROPERTY ChainSpec
