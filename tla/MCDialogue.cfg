\* Every command, refused uploads and files that do not open.
SPECIFICATION TransferSpec
CONSTANTS
    c1 = c1
    c2 = c2
    k1 = k1
    k2 = k2
    k3 = k3
    Clients <- TwoClients
    Conns <- ThreeConns
    Macs <- MCMacs
    ZeroMac = "m0"
    MacOf <- MCMacOf
    Names <- DialogueNames
    BadNames <- DotNames
    FileName <- MCFileName
    Blocks <- MCBlocks
    BufferSize = 1
    Window = 2
    Errors <- MCErrors
    Numbers <- MCNumbers
    HostDirs <- HostsShort
    LocalDir <- DialogueHas
    Offered <- DialogueOffers
    Wanted <- FirstWants
    Asks <- SecondAsks
    Killable <- Nothing
    OpenResults <- MayFail
INVARIANTS
    InStep
CHECK_DEADLOCK FALSE
SYMMETRY ConnSymmetry
