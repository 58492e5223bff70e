SPECIFICATION Spec
CONSTANTS
    k1 = k1  k2 = k2  q1 = q1  q2 = q2  q3 = q3  c1 = c1  None = None
    Keys <- MCKeys  Reqs <- MCReqs  KeyOf <- MCKeyOf  SizeOf <- MCSizeOf
    Creds = {c1}  CredOf <- MCCredOf  Casts <- MCCasts
    TTL = 4  MinMargin = 2  Horizon = 4  BusyRetry = 1  Jitters = {0, 1}
    Gone = 1  SweepEvery = 1
    MaxConcurrent = 1  MaxEntries = 2  MaxBytes = 1
    Pauses = {1, 3}  Plans = {0, 2}
    LastStart = 1  LastAnswer = 2  MaxTime = 7
    CloseTimes = {2}  SwitchTimes = {3}
INVARIANTS Accounted HeldOnlyWhileWarmable
PROPERTIES WarmCurrent PauseHonoured SentWithinHorizon
CHECK_DEADLOCK FALSE
