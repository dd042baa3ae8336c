SPECIFICATION IoSpec
CONSTANTS
    t1 = t1
    t2 = t2
    t3 = t3
    IoThread = {t1, t2, t3}
    MaxNum = 3
    MaxDesc = 4
    IoScenarios <- MCScenarios
    MaxCounter = 2
    Capacity = 2
    HostBuffer = 1
SYMMETRY Symmetric
CHECK_DEADLOCK FALSE
INVARIANTS IoNoPanic NoEventLost SleepersInPlace
PROPERTIES EventsSynchronize
