\* Two threads, two addresses and a cache for one of them.
SPECIFICATION LiveSpec
CONSTANTS
    Addrs = {a1, a2}
    SkippedAddrs = {}
    Threads = {t1, t2}
    cache_ttl = 1
    negative_cache_ttl = 1
    pending_timeout = 1
    max_cache_size = 1
    MaxAge = 1
    MaxQueue = 2
    NoAddr = NoAddr
INVARIANTS
    DnsTypeOK
    PendingHasWorker
    CacheWithinMax
PROPERTIES
    RequestsAnswered
    ResolverEnds
