\* Two guest threads and two pages of one region, of two contents.
CONSTANTS
    Threads = {t1, t2}
    LastPage = 2
    Values = {old, new}
    Junk = junk
SPECIFICATION Spec
SYMMETRY Symmetry
INVARIANTS
    OneOwner
    DrawsReadCurrent
    BdaCovered
PROPERTY Implements
