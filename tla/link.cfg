SPECIFICATION Spec
CONSTANTS
    c1 = c1  c2 = c2  Flusher = Flusher  Callers = {c1}
    QueueMax = 1  BatchMax = 1  MaxLogins = 2  MaxWrites = 3  MaxEvents = 2  MaxWork = 4  MaxFails = 1
INVARIANTS LinkInvariant SettledIsCurrent NoSecretFromBefore
PROPERTIES EventsOwned OptOutHonoured
CHECK_DEADLOCK FALSE
