SPECIFICATION Spec
CONSTANTS
    Thread = {t1, t2}
    Client = {c1, c2}
    RequestsPerMinute = 2
    WindowDuration = 2
    MaxClock = 4
    MaxDelay = 2
INVARIANTS WindowQuota BurstBounded
PROPERTIES RefusedOnlyAtQuota
