SPECIFICATION LSpec
CONSTANTS
    Gateways = {"gw"}
    Devices = {"eth0"}
    Protos = {"kernel"}
    Scopes = {"link"}
    Numbers = {"100"}
    EnvPairs = {}
    SensitiveWords = {"TOKEN"}
    Searches = {"absent"}
    Arrays <- MCRunning
    MaxArrays = 2
INVARIANT EveryArrayShown
