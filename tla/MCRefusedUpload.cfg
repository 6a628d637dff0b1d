\* An upload the server refuses.
SPECIFICATION TransferSpec
CONSTANTS
    c1 = c1
    c2 = c2
    k1 = k1
    k2 = k2
    k3 = k3
    Clients <- OneClient
    Conns <- ThreeConns
    Macs <- MCMacs
    ZeroMac = "m0"
    MacOf <- MCMacOf
    Names <- DialogueNames
    BadNames <- DotNames
    FileName <- MCFileName
    Blocks <- MCBlocks
    BufferSize = 1
    Window = 1
    Errors <- MCErrors
    Numbers <- MCNumbers
    HostDirs <- HostsShort
    LocalDir <- DialogueHas
    Offered <- OffersAll
    Wanted <- FirstWants
    Asks <- NoAsks
    Killable <- Nothing
    OpenResults <- Succeeds
INVARIANTS
    UploadedIsHosted
CHECK_DEADLOCK FALSE
SYMMETRY ConnSymmetry
