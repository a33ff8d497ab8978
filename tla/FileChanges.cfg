CONSTANTS
    a = a  b = b  c = c  d = d
    w1 = w1  w2 = w2  u1 = u1  u2 = u2
    Nothing = Nothing
    Blobs = {a, b, c}
    NumFiles = 2
    Versions <- Changing
    Indexed = {}
    ChunkWorkers = {w1, w2}
    UploadWorkers = {u1}
    FileQueue = 2
    BlobQueue = 1
    PackQueue = 1
    PackTarget = 1
    OptionSets <- JustPlain
    ReportEvery = 0
    Faults = {}
SPECIFICATION Spec
INVARIANT ManifestRestorable
