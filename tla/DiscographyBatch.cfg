SPECIFICATION MCSpec
CONSTANTS
    a1 = a1
    t1 = t1
    b1 = b1
    b2 = b2
    None = None
    Album = {a1}
    Track = {t1}
    AlbumOf <- OneAlbum
    MaxJob = 4
    MaxAttempts = 1
    Bypassable = {a1}
    MaxNewJobs = 1
    MaxEvents = 2
    Batch = {b1, b2}
    Item = {1, 2}
    BatchOf <- TwoBatches
    AlbumOfItem <- SameAlbum
    Unhydratable = {2}
    MaxGeneration = 2
INVARIANTS
    TypeOK
    OneWorkerPerTrack
    AlbumWorkIsExclusive
    OneBatchOwnsAJob
    ContinuationsAreBounded
PROPERTIES
    CancelledBatchesStartNothing
    OpenItemsClose
CHECK_DEADLOCK FALSE
