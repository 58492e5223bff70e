CONSTANTS
    a1 = a1  a2 = a2  s1 = s1  s2 = s2  s3 = s3  g1 = g1  x1 = x1
    p1 = p1  p2 = p2
    Bg = bg
    Segs = {g1}
    Digests = {x1}
    DigestOf <- MCDigestOf
    Histories <- MCHistories
    Purged = purged
    Keys = {"key1", "key2"}
    Idems = {"k1", "k2"}
    Scopes = {s1, s2, s3}
    Auths = {a1}
    AuthOf <- OneAuth
    Bodies <- SiblingBodies
    ReceiptIds = {}
    Retention = 3  MaxRetention = 5  Grace = 1  PlanReplay = 1
    SweepLimit = 9  PurgeLimit = 9  RowLimit = 9
    Procs = {p1}
    Rings <- OneRing
    Deletes = {}
    Casts <- SiblingCasts
    FlushLimit = 1  Deadline = 1  MaxTime = 8  MaxGrants = 2
SPECIFICATION SiblingSpec
INVARIANTS OriginalsOwned
