CONSTANTS
    a1 = a1  a2 = a2  s1 = s1  s2 = s2  s3 = s3  g1 = g1  x1 = x1
    p1 = p1  p2 = p2
    Bg = bg
    Segs = {g1}
    Digests = {x1}
    DigestOf <- MCDigestOf
    Histories <- MCHistories
    Purged = purged
    Keys = {"key1", "key2"}
    Idems = {"k1", "k2"}
    Scopes = {s1, s2}
    Auths = {a1, a2}
    AuthOf <- TwoAuths
    Bodies <- RestartBodies
    ReceiptIds = {}
    Retention = 1  MaxRetention = 1  Grace = 9  PlanReplay = 1
    SweepLimit = 1  PurgeLimit = 1  RowLimit = 9
    Procs = {p1}
    Rings <- TwoRings
    Deletes = {a1}
    Casts <- RestartCasts
    FlushLimit = 3  Deadline = 1  MaxTime = 2  MaxGrants = 1
SPECIFICATION FairPlaySpec
PROPERTIES PlansRecoverable SweepReaches
