CONSTANTS
    w1 = w1
    w2 = w2
    d1 = d1
    v1 = v1
    v2 = v2
    Absent = Absent
    Writer <- MCWriter
    Dest <- MCDest
    Value <- MCValue
    Size = 2
    MaxTmp = 3
SYMMETRY MCSymmetry
SPECIFICATION Spec
INVARIANTS
    TmpExclusive
    NoTmpLeaked
PROPERTY WritesAreAtomic
