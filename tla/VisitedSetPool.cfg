CONSTANTS
    t1 = t1
    t2 = t2
    t3 = t3
    s1 = s1
    s2 = s2
    s3 = s3
    Threads = {t1, t2, t3}
    Sets = {s1, s2, s3}
    Elements = {0}
    MarkLimit = 3
    MaxClears = 4
    Cores = 2
    None = None
SYMMETRY Symmetry
SPECIFICATION Spec
INVARIANTS
    TypeOK
    SearchSeesOwnMarks
    SetsHaveOneOwner
    LiveSetsBounded
