SPECIFICATION MCSpec
CONSTANTS
    MAX_ORDER = 2
    NPAGE = 7
    Cache <- MCCache
    num <- MCnum
    page_order <- MCpage_order
    slab_cachep <- MCslab_cachep
    Sizes = {1, 2, 3}
    MAX_HELD = 4
    initproc = initproc
    u1 = u1
    u2 = u2
    u3 = u3
    u4 = u4
    Proc <- MCProc
    NULL = NULL
    MAX_PROCESS = 6
INVARIANTS
    PagesExact
    SlabsExact
    LinksAgree
PROPERTIES
    NullOnlyWhenNoRun
    ImplementsTree
