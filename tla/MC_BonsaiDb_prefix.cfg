\* get_by_prefix and remove_by_prefix, live and in a transaction, report every iterator error.
CONSTANTS
    Kinds <- ScanKinds
    Columns = {colTrie, colFlat, colLog}
    ColumnMapping <- ScanMapping
    Bytes <- ScanBytes
    Prefixes <- ScanPrefixes
    Vals = {v1}
    Ids = {0}
    Txns = {t1}
    NoValue = NoValue
    NoOp = NoOp
    NoBatch = NoBatch
    NoSnapshot = NoSnapshot
    MaxSeq = 2
    IterErrors = TRUE
    v1 = v1
    v2 = v2
    t1 = t1
    t2 = t2
    colTrie = colTrie
    colFlat = colFlat
    colLog = colLog
SPECIFICATION Spec
PROPERTY PrefixErrorsReported
