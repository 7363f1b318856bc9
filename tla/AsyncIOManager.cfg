SPECIFICATION FairSpec
CONSTANTS
    c1 = c1
    c2 = c2
    r1 = r1
    r2 = r2
    Clients <- MCClients
    IoTasks <- MCIoTasks
    Programs <- MCPrograms
    MaxOps = 3
    MaxFailures = 1
    None = None
INVARIANTS TypeOK CallbackIsOfItsOperation QuietAfterWait

PROPERTIES WaitReturns
CHECK_DEADLOCK FALSE
