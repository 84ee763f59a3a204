CONSTANTS
    Org = {oA}
    Writer = {w1, w2}
    SerialOrg = {}
    MaxId = 3
SPECIFICATION Spec
INVARIANT EveryChainUnbroken
