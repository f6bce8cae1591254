CONSTANTS
    v1 = v1  v2 = v2  v3 = v3  v4 = v4
    b1 = b1  b2 = b2  c1 = c1
    i0 = i0  i1 = i1  i2 = i2  i3 = i3  
    j0 = j0  j1 = j1  j2 = j2  j3 = j3
    genesis = genesis  Genesis = genesis  Nil = nil
    Validators = {v1, v2, v3, v4}
    Faulty = 1
    Live = {v1, v2, v3}
    NormalBlocks = {b1}
    ImpeachBlocks = {i0}
    Number <- MCNumber
    Parent <- MCParent
    Tick <- MCTick
    Sample <- Steady
    MaxRestarts = 0
SPECIFICATION FairSyncSpec
INVARIANT OneBlockPerHeight
PROPERTY EveryHeightDecided
