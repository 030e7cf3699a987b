SPECIFICATION Spec
CONSTANTS
    Agents = {a1}
    Launches = {l1, l2, l3}
    Packages = {}
    Cap = 2
    MaxResumes = 2
    MaxSuspended = 1
    RecoveryConcurrency = 2
    None = None
SYMMETRY LaunchSymmetry
INVARIANTS
    TypeOK
    WorkInv
    SlotInv
    ReservationHeld
    SingleSuccessor
    RestoringBacked
