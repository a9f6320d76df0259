\* Mapping sync claim, Normal strategy, two iterations per call: every block is at last synced.
CONSTANTS
    g = g  b1 = b1  b2 = b2  b3 = b3  c1 = c1
    NoBlock = NoBlock
    Blocks <- MCBlocks
    Genesis = g
    Parent <- MCParent
    Number <- MCNumber
    SyncFrom = 0
    Limit = 2
    Strategies = {"Normal"}
SPECIFICATION Spec
PROPERTY EverySyncedEventually
