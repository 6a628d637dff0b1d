\* Users who take turns; either may be killed, and every socket may lose datagrams.
SPECIFICATION UdpSpec
CONSTANTS
    c1 = c1
    c2 = c2
    k1 = k1
    k2 = k2
    Clients <- MCClients
    Conns <- MCConns
    Macs <- MCMacs
    ZeroMac = "m0"
    MacOf <- MCMacOf
    Names <- MCNames
    BadNames <- MCBadNames
    Blocks <- MCBlocks
    BufferSize = 1
    Errors <- MCErrors
    Numbers <- MCNumbers
    HostDirs <- MCHostDirs
    LocalDir <- MCLocalDir
    Offered <- MCOffered
    Wanted <- MCWanted
    Asks <- MCAsks
    Killable <- MCClients
    Persistent <- NoClients
    ServerBuffer = 2
    ClientBuffer = 2
    Foreign = "b1"
INVARIANTS
    UdpTypeOK
    UdpInStep
PROPERTIES
    UdpDownloadIntegrity
    UdpUploadIntegrity
    UdpDownloadEnds
CHECK_DEADLOCK FALSE
