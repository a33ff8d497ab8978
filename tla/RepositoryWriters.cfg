CONSTANTS
    p1 = p1  p2 = p2
    a = a  b = b
    k1 = k1  k2 = k2  k3 = k3
    None = None
    NoIndex = NoIndex
    Procs = {p1, p2}
    Blobs <- TwoBlobs
    Packs <- ThreePacks
    Contents <- ThreeContents
    Sources <- TwoSources
    Commands <- TwoWriters
    GCInterrupted = FALSE
SPECIFICATION Spec
INVARIANTS SnapshotDataPresent SkippedBlobsStored
CHECK_DEADLOCK FALSE
