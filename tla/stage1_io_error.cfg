CONSTANTS
    DelayTicks = 2
    Configs <- MCConfigs
SPECIFICATION Spec
PROPERTY IoErrorEndsWait
CHECK_DEADLOCK FALSE
