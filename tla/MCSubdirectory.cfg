\* A file in a subdirectory whose download breaks off.
SPECIFICATION TransferSpec
CONSTANTS
    c1 = c1
    c2 = c2
    k1 = k1
    k2 = k2
    k3 = k3
    Clients <- OneClient
    Conns <- ThreeConns
    Macs <- MCMacs
    ZeroMac = "m0"
    MacOf <- MCMacOf
    Names <- PathNames
    BadNames <- Nothing
    FileName <- MCFileName
    Blocks <- MCBlocks
    BufferSize = 1
    Window = 1
    Errors <- MCErrors
    Numbers <- MCNumbers
    HostDirs <- HostsPaths
    LocalDir <- SecondHas
    Offered <- SecondOffers
    Wanted <- WantsAll
    Asks <- NoAsks
    Killable <- FirstDies
    OpenResults <- Succeeds
INVARIANTS
    PromptNamesUnfinished
CHECK_DEADLOCK FALSE
SYMMETRY ConnSymmetry
