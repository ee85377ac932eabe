SPECIFICATION FairSpec
CONSTANTS
    ScanGap = {6, 7}
    Lag = 71
 
PROPERTIES SilentDropped
