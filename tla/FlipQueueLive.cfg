\* Two independent ports and flips of the GPU alone.
CONSTANTS
    Main = main
    Overlay = overlay
    Ports = {main, overlay}
    Pairs <- NoPairs
    Sources = {"GpuEop"}
    Capacity = 1
    MaxRequests = 2
    MaxGeneration = 1
    None = none
SPECIFICATION LiveSpec
PROPERTIES
    CloseFinishes
    FlipsEnd
    GpuWaitsEnd
