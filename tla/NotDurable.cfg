CONSTANTS
    p1 = p1  p2 = p2
    k1 = k1  k2 = k2
    d1 = d1
    v1 = v1  v2 = v2
    Absent = Absent
    Torn = Torn
    Callers = {p1, p2}
    Keys = {k1}
    Values = {v1}
    Dirs = {d1}
    DirOf <- OneDir
    NewDirs = {d1}
    Ops <- Writers
    Fsync = TRUE
SPECIFICATION Spec
PROPERTY StoredIsDurable
