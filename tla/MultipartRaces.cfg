CONSTANTS
    h1 = h1
    h2 = h2
    u1 = u1
    k1 = k1
    k2 = k2
    p1 = p1
    p2 = p2
    Absent = Absent
    Handler <- MCTwoHandlers
    Upload = {u1}
    Cred = {k1, k2}
    MaxPart = 2
    Payload = {p1, p2}
    Small = {}
    Request <- MCRaceRequest
    Orderly = FALSE
    MaxFaults = 1
SYMMETRY MCSymmetry
SPECIFICATION Spec
INVARIANTS
    ObjectFromOwnUpload
    ObjectHasAskedDigest
    PartsSurviveUntilCommit
