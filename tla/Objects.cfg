CONSTANTS
    h1 = h1
    h2 = h2
    k1 = k1
    k2 = k2
    a = a
    b = b
    m0 = m0
    m1 = m1
    x1 = x1
    x2 = x2
    x3 = x3
    x4 = x4
    Absent = Absent
    Torn = Torn
    Handler <- MCHandler
    Key = {k1, k2}
    Payload = {a, b}
    Attr = {m0, m1}
    Inode <- MCInode
    Stored <- MCStored
    Request <- MCRequest
    MaxFaults = 1
SYMMETRY MCSymmetry
SPECIFICATION Spec
INVARIANTS
    QuietObjectConsistent
    QuietReadConsistent
    OnlyCopyDisturbsReaders
