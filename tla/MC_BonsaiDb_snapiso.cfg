\* A transaction opened on a snapshot reads that snapshot (spec.md, section 8).
CONSTANTS
    Kinds <- TxnKinds
    Columns = {colTrie, colFlat, colLog}
    ColumnMapping <- TxnMapping
    Bytes <- TxnBytes
    Prefixes <- TxnBytes
    Vals = {v1}
    Ids = {0}
    Txns = {t1}
    NoValue = NoValue
    NoOp = NoOp
    NoBatch = NoBatch
    NoSnapshot = NoSnapshot
    MaxSeq = 2
    IterErrors = FALSE
    v1 = v1
    v2 = v2
    t1 = t1
    t2 = t2
    colTrie = colTrie
    colFlat = colFlat
    colLog = colLog
SPECIFICATION Spec
INVARIANT TxnReadsItsSnapshot
