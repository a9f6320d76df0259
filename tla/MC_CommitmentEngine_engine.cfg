\* Two blocks, two addresses: every interleaving of the two branches and
\* every par_bridge completion order, over every diff of the instance, the
\* second block starting from what the first committed.
CONSTANTS
    Addrs = {a1, a2}
    SKeys = {k1}
    SVals = {v1}
    ClassHashes = {c1}
    CompiledHashes = {cc1}
    NonceVals = {n1}
    None = None
    Zero = Zero
    MaxBlock = 2
    a1 = a1
    a2 = a2
    k1 = k1
    v1 = v1
    c1 = c1
    cc1 = cc1
    n1 = n1
SPECIFICATION Spec
SYMMETRY AddrSymm
INVARIANT TypeOK
INVARIANT StateRootIsSequential
