\* Optimistic transactions against direct writes, batches and prefix
\* removals: refinement of OptimisticKV.
CONSTANTS
    Kinds <- TxnKinds
    Columns = {colTrie, colFlat, colLog}
    ColumnMapping <- TxnMapping
    Bytes <- TxnBytes
    Prefixes <- TxnBytes
    Vals = {v1}
    Ids = {0}
    Txns = {t1, t2}
    NoValue = NoValue
    NoOp = NoOp
    NoBatch = NoBatch
    NoSnapshot = NoSnapshot
    MaxSeq = 2
    IterErrors = TRUE
    v1 = v1
    v2 = v2
    t1 = t1
    t2 = t2
    colTrie = colTrie
    colFlat = colFlat
    colLog = colLog
SPECIFICATION Spec
SYMMETRY Symm
INVARIANT TypeOK
PROPERTY KVSpec
