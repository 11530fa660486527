CONSTANTS
    DelayTicks = 2
    Configs <- MCConfigs
    Resets <- MCResets
SPECIFICATION Stage1Spec
INVARIANTS TypeOK MemoryMatchesState BootsWhatWasLoaded ErrorIsDisplayed BootMessageIsSeen
    OnlyAwaitedInterrupts
PROPERTIES BootEndsIfMasked ImplementsFsm
CHECK_DEADLOCK FALSE
