CONSTANTS
    EthLen = 14
    Ipv4Len = 20
    TcpLen = 20
    MaxTotal = 1500
    MinecraftPort = 25565
    Ethertypes = {"ipv4", "other"}
    Versions = {4, 6}
    Protos = {"tcp", "other", "unassigned"}
    Ihls <- MCHeaderLens
    Totals <- MCTotals
    Doffs <- MCHeaderLens
    Ports = {25565, 22}
    Flags <- MCFlags
    Slack = {0, 1, 20}
    MinFrame = 60
SPECIFICATION Spec
INVARIANTS NothingUnjudged ReadAlike JudgesWhatParses
\* A frame that was cut down to nothing is the end of a behaviour.
CHECK_DEADLOCK FALSE
