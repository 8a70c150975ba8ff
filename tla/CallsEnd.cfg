SPECIFICATION FairSpec
CONSTANTS
    Tabs = {t1}
    Calls = {c1, c2}
    Clicks <- Kinds
    MaxExpiries = 2
CHECK_DEADLOCK FALSE
PROPERTIES
    EveryCallEnds
    CallsCountDown
