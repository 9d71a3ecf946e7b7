SPECIFICATION Spec
CONSTANTS
    MaxOption = 5
    MaxProducers = 7
    Requests <- MCRequests
    MaxNodes = 6
    HttpBase = 2
    P2PBase = 10
    BiosGap = 2
    PortMod = 16
INVARIANTS
    TypeOK
    PortsDistinct
    ProducersDealt
    NamesIdentify
    ServersHonoured
    LocalNetworkAsAsked
CHECK_DEADLOCK FALSE
