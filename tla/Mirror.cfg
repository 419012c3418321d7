SPECIFICATION FairSpec
CONSTANTS
    Upstreams <- MCUpstreams
    Updates <- MCUpdates
    MaxChanges = 1
    Names <- MCNames
    Buckets <- MCBuckets
    Contents <- MCContents
    SizeOf <- MCSizeOf
    None = None
    Absent = Absent
    Torn = Torn
    MaxFaults = 1
INVARIANTS TypeOK WalkSound PublishedWhole Servable
PROPERTY CatchesUp
