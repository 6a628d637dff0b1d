\* The server alone against an arbitrary network.
SPECIFICATION ServerSpec
CONSTANTS
    m0 = m0
    m1 = m1
    m2 = m2
    k1 = k1
    k2 = k2
    b1 = b1
    Macs <- MCMacs
    ZeroMac = m0
    Names <- MCNames
    BadNames <- MCBadNames
    Blocks <- MCBlocks
    Conns <- MCConns
    Errors <- MCErrors
    BufferSize = 2
    Numbers <- MCNumbers
    HostDirs <- MCHostDirs
INVARIANTS
    TypeOK
    OnePendingStamp
    StampWithinFile
    ServedHandleIsLast
PROPERTIES
    StampedFileFrozen
    UploadAllOrNothing
    KeepsOneSlot
