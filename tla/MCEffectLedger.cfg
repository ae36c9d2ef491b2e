CONSTANTS
    h1 = h1
    h2 = h2
    h3 = h3
    c1 = c1
    c2 = c2
    own1 = own1
    own2 = own2
    cap = cap
    None = None
    Addresses <- MCAddresses
    Owners <- MCOwners
    Capabilities <- MCCapabilities
    Kinds <- MCKinds
    Cells <- MCCells
    Home <- c1
    OwnerIn <- MCOwnerIn
    MaxEffects = 3
    MaxFaults = 1
SYMMETRY Symmetry
SPECIFICATION LedgerSpec
INVARIANTS
    DetachIsExact
    Resumable
    AccountIsAccepted
PROPERTIES
    NothingElseMoves
    WithdrawnLeavesNothing
