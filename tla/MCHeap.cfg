\* Six units and four descriptors: requests of one, two and three units fill
\* the heap before the descriptors run out, and the other way round.
CONSTANTS
    BlkCount = 4
    BlkShift = 1
    Size = 12
    Requests = {1, 3, 4, 6}
SPECIFICATION Spec
INVARIANT TypeOK
INVARIANT DescriptorsAccounted
INVARIANT BlocksTile
PROPERTY ImplementsAllocator
