CONSTANTS
    Threshold <- MCThreshold
    Cooldown = 2
    PassTime = 1
SPECIFICATION AlertSpec
PROPERTIES
    SustainedOnly
    OutageAlerted
