\* Fetcher claim: every block the gateway has is at last queued.
CONSTANTS
    MaxBlock = 3
    MaxQueue = 4
SPECIFICATION Spec
PROPERTY EveryBlockQueued
