SPECIFICATION FairSpec
CONSTANTS
    Session = {s1, s2}
    Connector = {c1}
    Null = Null
    Settings <- MCSettingsLive
    MaxToken = 2
    MaxPackets = 1
    MaxCmds = 1
PROPERTIES LostLeavesZone ClosedGoesBack
