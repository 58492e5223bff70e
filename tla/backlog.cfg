CONSTANTS
    a1 = a1  a2 = a2  s1 = s1  s2 = s2  s3 = s3  g1 = g1  x1 = x1
    p1 = p1  p2 = p2
    Bg = bg
    Segs = {g1}
    Digests = {x1}
    DigestOf <- MCDigestOf
    Histories <- MCHistories
    Purged = purged
    Keys = {"key1", "key2"}
    Idems = {"k1", "k2"}
    Scopes = {s1, s2}
    Auths = {a1}
    AuthOf <- OneAuth
    Bodies <- LifeBodies
    ReceiptIds = {}
    Retention = 2  MaxRetention = 3  Grace = 2  PlanReplay = 1
    SweepLimit = 1  PurgeLimit = 1  RowLimit = 6
    Procs = {p1, p2}
    Rings <- OneRing
    Deletes = {}
    Casts <- TurnsOnly
    FlushLimit = 9  Deadline = 1  MaxTime = 5  MaxGrants = 2
SPECIFICATION PlaySpec
INVARIANTS ServedRecoverable
SYMMETRY Symmetry
