SPECIFICATION Spec
CONSTANTS
    Agents = {a1, a2}
    Launches = {l1, l2}
    Packages = {p1}
    Cap = 2
    MaxResumes = 1
    MaxSuspended = 1
    RecoveryConcurrency = 1
    None = None
SYMMETRY Symmetry
INVARIANTS
    PackageExclusive
    ReleasedSilent
