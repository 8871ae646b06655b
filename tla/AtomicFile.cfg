CONSTANTS
    c1 = c1
    c2 = c2
    r1 = r1
    r2 = r2
    Absent = Absent
    Partial = Partial
    Contents <- MCContents
    Readers <- MCReaders
    MaxCrashes = 2
SYMMETRY Symmetry
SPECIFICATION Spec
INVARIANTS
    TypeOK
    NeverCutShort
    OldOrNewOnDisk
