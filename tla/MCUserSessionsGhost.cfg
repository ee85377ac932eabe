SPECIFICATION Spec
CONSTANTS
    Session = {s1, s2, s3}
    Connector = {c1, c2}
    Null = Null
    Settings <- MCSettingsLeave
    MaxToken = 2
    MaxPackets = 1
    MaxCmds = 1
SYMMETRY Symmetry
INVARIANTS NoGhost
