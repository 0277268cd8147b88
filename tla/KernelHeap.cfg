SPECIFICATION Spec
CONSTANTS
    HEAP_SIZE = 256
    SIZE_T = 512
    Requests <- MCRequests
    Counts <- MCCounts
INVARIANTS
    TypeOK
    Tiled
    LinksMirror
    Coalesced
    HeadersIntact
    OwnedExactly
    WholeWhenIdle
PROPERTY
    AllocatorSpec
