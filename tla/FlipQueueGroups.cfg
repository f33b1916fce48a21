\* An overlay that may become the slave of the main port; flips of both kinds.
CONSTANTS
    Main = main
    Overlay = overlay
    Ports = {main, overlay}
    Pairs <- OverlayOnMain
    Sources = {"Cpu", "GpuEop"}
    Capacity = 2
    MaxRequests = 3
    MaxGeneration = 2
    None = none
SPECIFICATION Spec
INVARIANTS
    PendingIsExact
    PickedStayListed
    FramesAreSettled
    GroupsAreWhole
    NoRequestGoesMissing
