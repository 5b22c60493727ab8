SPECIFICATION Spec
CONSTANTS
    h1 = h1
    Sigs = {s1, s2}
    Shards = {h1}
    ShardOf <- MCShardOf
    MaxFaults = 1
INVARIANTS RouterSound
PROPERTIES LandedIsHanded KeepsPromise
