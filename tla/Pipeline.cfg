CONSTANTS
    a = a  b = b  c = c  d = d
    w1 = w1  w2 = w2  u1 = u1  u2 = u2
    Nothing = Nothing
    Blobs = {a, b, c, d}
    NumFiles = 2
    Versions <- Overlapping
    Indexed = {d}
    ChunkWorkers = {w1, w2}
    UploadWorkers = {u1, u2}
    FileQueue = 1
    BlobQueue = 1
    PackQueue = 1
    PackTarget = 2
    OptionSets <- PlainAndLimited
    ReportEvery = 2
    Faults = {"read", "pack", "store", "cancel"}
SPECIFICATION Spec
INVARIANTS TypeOK StoredOnce StatsExact NoSendOnClosed ManifestComplete ManifestStored MaxBytesRespected
PROPERTIES KeepsWriteOrder Terminates
