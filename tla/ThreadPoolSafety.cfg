CONSTANTS
    c1 = c1
    c2 = c2
    k1 = k1
    k2 = k2
    k3 = k3
    Clients <- MCClients
    Tasks <- MCTasks
    ResultCodes = {0}
    NoResult = NoResult
    None = None
    MaxThreads = 2
    MaxStartFailures = 1
    m_Min = 1
    m_Exp = 1
    m_Max = 2
    QuickResponse = TRUE
    Allowed <- MCSafetyAllowed
    NanosPerSecond = 10
    SleepNanos = 1
    ClockReadings = {5, 9}
SPECIFICATION Spec
SYMMETRY MCSymmetry
INVARIANTS TypeOK RunsOnce
PROPERTIES WaitMeansIdle ReleasedHasEnded ThreadJoinAllMeansEnded KeepsPromise
CHECK_DEADLOCK FALSE
