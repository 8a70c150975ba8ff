SPECIFICATION Spec
CONSTANTS
    Tabs = {t1, t2}
    Calls = {c1, c2}
    Clicks <- Kinds
    MaxExpiries = 1
CHECK_DEADLOCK FALSE
INVARIANT SignOutIsFinal
