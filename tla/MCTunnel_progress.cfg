SPECIFICATION FairSpec
CONSTANTS
    Lower <- LowerCase
    DomainsOf <- GroupDomains
    Settings <- OneSetting
    Desktop <- NoFiles
    Hosts <- TwoHosts
    Ports = {443}
    Protocols = {"connect", "socks"}
    Asks = {"tunnel"}
    MaxData = 2
    Hazards = {"eagerSocks", "refuse", "ca", "distrust"}
PROPERTIES
    HelloAnswered
    EverythingArrives
    TunnelEnds
CHECK_DEADLOCK FALSE
