\* Two requests; one file of an item, one of a record, one of a LOC, one of a legal officer.
CONSTANTS
    c1 = c1
    c2 = c2
    i1 = i1
    r1 = r1
    l1 = l1
    o1 = o1
    None = None
    Absent = Absent
    Clients = { c1, c2 }
    Files = { i1, r1, l1, o1 }
    ItemFiles = { i1 }
    RecordFiles = { r1 }
    LocFiles = { l1 }
    LoFiles = { o1 }
    Exif = { i1 }
    BUFFER = 2
    MaxBlocks = 1
    MaxImports = 2
SPECIFICATION OneSizeSpec
SYMMETRY Symmetry
VIEW View
CONSTRAINT Bound
INVARIANTS
    TypeOK
    RowsHaveContent
    StoredWhole
    ReadBack
    CopiesAreRecorded
CHECK_DEADLOCK FALSE
