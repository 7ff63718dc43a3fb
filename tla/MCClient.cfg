SPECIFICATION FairSpec
CONSTANTS
    NumCards = 3
    DrawLimit = 1
    NoGame = NoGame
    Tabs = {t1, t2}
    MaxClicks = 3
    MaxFaults = 1
INVARIANT TypeOK
PROPERTIES
    ClickEffect
    ActsOnShownRow
    ModeClickSwitches
    ArmedSelectCheats
    RetryIsNewer
    ClickEnds
CHECK_DEADLOCK FALSE
