\* Either protocol, any failure.
SPECIFICATION ClientSpec
CONSTANTS
    f1 = f1
    f2 = f2
    f3 = f3
    Fds <- MCFds
    Errnos <- MCErrnos
    Protocols <- Both
    Hosts <- MCHosts
    Found <- MCFound
    Machines <- MCMachines
    Byte = 2
    Macs <- MCMacs
    ZeroMac = "m0"
    Interfaces <- MCInterfaces
    Listed = 3
INVARIANTS
    TypeOK
    DescriptorsOwned
    ConnectedWhenGreeting
    LeadsWhereTyped
    GreetsAsItself
CHECK_DEADLOCK FALSE
