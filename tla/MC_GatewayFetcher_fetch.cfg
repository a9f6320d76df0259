\* Up to three gateway blocks, RPC failures while fewer than four pushes.
CONSTANTS
    MaxBlock = 3
    MaxQueue = 4
SPECIFICATION Spec
INVARIANT TypeOK
INVARIANT QueueInOrder
