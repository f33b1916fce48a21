CONSTANTS
    Pages <- MCPages
    DirectPages <- MCDirectPages
    FlexiblePages <- MCFlexiblePages
    PrivateTypes = {"Code"}
    Protections = {"rw"}
    Names = {"anon"}
    HostRefuses = FALSE
SPECIFICATION Spec
INVARIANT AliasesStayOwned
