\* Any command line, either protocol, any failure.
SPECIFICATION MainSpec
CONSTANTS
    f1 = f1
    f2 = f2
    f3 = f3
    Fds <- MCFds
    Errnos <- MCErrnos
    Listed <- MCListed
    Protocols <- Both
    Values <- MCValues
    Number <- MCNumber
    Longs = 32
    Unsigneds = 16
    Ports = 8
    MaxArgs = 4
    DEFAULT_SERVER_PORT = 5
    DEFAULT_FILES_DIR = "files"
    Directories <- MCDirectories
INVARIANTS
    TypeOK
    DescriptorsOwned
    ServesBound
    StartsAsAsked
PROPERTIES
    HelpOnly
CHECK_DEADLOCK FALSE
