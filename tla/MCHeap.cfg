SPECIFICATION HeapSpec
CONSTANTS
    a = a
    b = b
    Task <- MCTask
    PageSize = 8
    Header = 1
    Class = {2, 4}
    Pages = 3
    Request = {1, 2, 3, 4, 7, 8}
    MaxHeld = 3
SYMMETRY MCSymmetry
INVARIANTS
    HeldDisjoint
    ArenasExact
