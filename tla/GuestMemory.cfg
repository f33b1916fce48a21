CONSTANTS
    Pages <- MCPages
    DirectPages <- MCDirectPages
    FlexiblePages <- MCFlexiblePages
    PrivateTypes = {"Code"}
    Protections = {"rw", "r"}
    Names = {"anon"}
    HostRefuses = TRUE
SPECIFICATION Spec
INVARIANT InStep
PROPERTY Implements
