\* Spec check, two blocks and one address: ContractLeafIsCurrent.
CONSTANTS
    Addrs = {a1}
    SKeys = {k1}
    SVals = {v1}
    ClassHashes = {c1}
    CompiledHashes = {cc1}
    NonceVals = {n1}
    None = None
    Zero = Zero
    MaxBlock = 2
    a1 = a1
    a2 = a2
    k1 = k1
    v1 = v1
    c1 = c1
    cc1 = cc1
    n1 = n1
SPECIFICATION Spec
INVARIANT ContractLeafIsCurrent
