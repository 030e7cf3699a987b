SPECIFICATION FairSpec
CONSTANTS
    Contenders = {c1, c2, c3}
    Inodes = {i1, i2, i3, i4}
    None = None
INVARIANTS
    LeaseInv
    MutualExclusion
    HolderVisible
PROPERTIES
    RefusedOnlyIfHeld
    RegistryReturns
    ProvidesOwnership
