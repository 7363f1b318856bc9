CONSTANTS
    c1 = c1
    c2 = c2
    k1 = k1
    k2 = k2
    k3 = k3
    Clients <- MCClients
    Tasks <- MCOneTask
    ResultCodes = {0}
    NoResult = NoResult
    None = None
    MaxThreads = 2
    MaxStartFailures = 0
    m_Min = 2
    m_Exp = 0
    m_Max = 0
    QuickResponse = FALSE
    Allowed <- MCStopAllowed
    NanosPerSecond = 10
    SleepNanos = 1
    ClockReadings = {5}
SPECIFICATION FairSpec
PROPERTIES StopIsNoticed ThreadJoinAllReturns
