SPECIFICATION Spec
CONSTANTS
    Lower <- LowerCase
    DomainsOf <- GroupDomains
    Settings <- SomeSettings
    Desktop <- SomeFiles
    Hosts <- AllHosts
    Ports = {80, 443}
    Protocols = {"connect", "socks"}
    Asks = {"tunnel", "auth", "command", "address"}
    MaxData = 3
    Hazards = {"eagerSocks", "refuse", "ca", "distrust", "break"}
INVARIANTS
    TypeOK
    HonestAnswer
    NeverMitm
    OnlyWhatIsChosen
    SpellingIrrelevant
PROPERTIES
    UpIsPipe
    DownIsPipe
CHECK_DEADLOCK FALSE
