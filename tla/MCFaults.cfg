\* Anybody may be killed.
SPECIFICATION FairTransferSpec
CONSTANTS
    c1 = c1
    c2 = c2
    k1 = k1
    k2 = k2
    k3 = k3
    Clients <- OneClient
    Conns <- TwoConns
    Macs <- MCMacs
    ZeroMac = "m0"
    MacOf <- MCMacOf
    Names <- TwoNames
    BadNames <- Nothing
    FileName <- MCFileName
    Blocks <- MCBlocks
    BufferSize = 1
    Window = 1
    Errors <- MCErrors
    Numbers <- MCNumbers
    HostDirs <- HostsShort
    LocalDir <- OtherHasShort
    Offered <- OtherOffers
    Wanted <- FirstWants
    Asks <- NoAsks
    Killable <- AllDie
    OpenResults <- Succeeds
PROPERTIES
    ImplementsServer
    DownloadEnds
    UploadEnds
CHECK_DEADLOCK FALSE
