\* Both strategies, sync from the genesis, two iterations per call.
CONSTANTS
    g = g  b1 = b1  b2 = b2  b3 = b3  c1 = c1
    NoBlock = NoBlock
    Blocks <- MCBlocks
    Genesis = g
    Parent <- MCParent
    Number <- MCNumber
    SyncFrom = 0
    Limit = 2
    Strategies = {"Normal", "Parachain"}
SPECIFICATION Spec
INVARIANT TypeOK
INVARIANT TipsDistinct
PROPERTY BlocksWalked
