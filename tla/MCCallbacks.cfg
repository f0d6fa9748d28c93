SPECIFICATION Spec
CONSTANTS
    Hosts = {h1, h2}
    Files = {f1}
    Volume = volume
    Calls = {c1, c2}
    Fsync = fsync
    None = none
    MAX_CB_HOSTS = 1
    AFSCBMAX = 1
    nblks = 2
    MaxChanges = 1
SYMMETRY Symmetry
INVARIANT TypeOK
INVARIANT StaleIsRemembered
