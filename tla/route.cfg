SPECIFICATION Spec
CONSTANTS
    k1 = k1  k2 = k2  r1 = r1  r2 = r2  r3 = r3  r4 = r4  r5 = r5  m1 = m1  Asked = Asked  None = None
    Requests <- MCRequests  Keys <- MCKeys  KeyOf <- MCKeyOf  Casts <- MCCasts  Models = {m1}
    Understands <- MCUnderstands
    FailurePause = 1  RefusedPause = 2  LimitPause = 3  PauseRecheck = 1  RememberFor = 2
    MissMax = 1  Logins = 3
INVARIANTS RouteInvariant TurnKeepsModel BlameRight
SYMMETRY MCSymmetry
CHECK_DEADLOCK FALSE
