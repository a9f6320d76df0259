\* The forward scan of get_by_prefix and remove_by_prefix, over keys that
\* share all or part of a prefix.
CONSTANTS
    Kinds <- ScanKinds
    Columns = {colTrie, colFlat, colLog}
    ColumnMapping <- ScanMapping
    Bytes <- ScanBytes
    Prefixes <- ScanPrefixes
    Vals = {v1}
    Ids = {0}
    Txns = {}
    NoValue = NoValue
    NoOp = NoOp
    NoBatch = NoBatch
    NoSnapshot = NoSnapshot
    MaxSeq = 3
    IterErrors = TRUE
    v1 = v1
    v2 = v2
    t1 = t1
    t2 = t2
    colTrie = colTrie
    colFlat = colFlat
    colLog = colLog
SPECIFICATION Spec
INVARIANT PrefixScanExact
