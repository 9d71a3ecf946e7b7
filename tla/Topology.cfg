SPECIFICATION ConfigSpec
CONSTANTS
    MaxNodes = 16
    SmallNodes = 6
    Cases <- MCCases
    Setups <- MCSetups
    P2PBase = 25
    HttpBase = 3
    BiosGap = 3
    ExtraGap = 40
INVARIANTS
    ShapeComplete
    BiosStaysOut
    PeersListen
    ListenersDistinct
    ModesHonoured
