CONSTANTS
    h1 = h1
    h2 = h2
    u1 = u1
    k1 = k1
    k2 = k2
    p1 = p1
    p2 = p2
    Absent = Absent
    Handler = {h1}
    Upload = {u1}
    Cred = {k1}
    MaxPart = 2
    Payload = {p1, p2}
    Small = {p2}
    Request <- MCUnlistedRequest
    Orderly = FALSE
    MaxFaults = 0
SPECIFICATION Spec
INVARIANT ResidueHasUploadId
