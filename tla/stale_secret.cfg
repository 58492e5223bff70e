SPECIFICATION Spec
CONSTANTS
    rt = rt  cli = cli  r1 = r1  r2 = r2  chatgpt = chatgpt  other = other
    Runtime = rt  Clis = {cli}  Readers = {r1, r2}
    Ids = {chatgpt, other}  OAuth = chatgpt  Roots = {1, 2}
    Absent = Absent  NoLock = NoLock  Unread = Unread
    MaxUses = 1  MaxTries = 3  MaxCrashes = 0
INVARIANT CacheCurrent
CHECK_DEADLOCK FALSE
