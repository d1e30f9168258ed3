SPECIFICATION OneSpec
CONSTANTS
    Threads = {sched, worker}
    Threshold = 2
    Cooldown = 2
    Budget = 2
    CallLimit = 2
    MaxBatch = 2
    Configs = {c1, c2}
    Requests = {r1}
    MaxRetries = 1
    MaxChunks = 1
    Texts = 2
    Absent = Absent
    Pipeline = {queue, takeaway}
    WebOnly = {scheduler}
    Drainer = drainer
    MaxClients = 4
    None = None
CHECK_DEADLOCK FALSE
INVARIANT CallsAreSound
PROPERTIES
    PublishingIsSound
    PoolIsSound
    EverythingEnds
