CONSTANTS
    p1 = p1  p2 = p2  l1 = l1
    v1 = v1  v2 = v2
    Absent = Absent
    Callers = {p1, p2}
    Listers = {l1}
    NumKeys = 2
    Values = {v1}
    MaxAttempts = 2
    Ops <- Contenders
    Faults = {"transient", "denied", "cancel"}
SPECIFICATION Spec
PROPERTIES ImplementsStore CallsEnd ListComplete
