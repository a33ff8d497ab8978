CONSTANTS
    a = a  b = b
    w1 = w1  w2 = w2
    Absent = Absent
    Foreign = Foreign
    Torn = Torn
    Manifests <- Snapshots
    Blobs = {a, b}
    Workers = {w1, w2}
    FileQueue = 1
    Faults = {"open", "blob", "write", "close", "remove", "cancel", "displace"}
SPECIFICATION Spec
INVARIANTS TypeOK WholeOrNothing SuccessIsComplete
PROPERTIES SparesOthersFiles Returns
