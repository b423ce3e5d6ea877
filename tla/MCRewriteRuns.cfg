CONSTANTS
    RootWidths = {4, 8}
    Flags = {"CF", "OF"}
    WriteWidths = {2, 4}
    ReadWidths = {2, 4}
    MaxBlocks = 6
    AddressBits = 8
    TlsRegister = "FS"
    TlsOffset = 8
    ByteBits = 2
    FrameStart = 128
    Programs <- MCPrograms
SPECIFICATION Spec
INVARIANTS
    PreSummaryAgrees
    DemandedBitsAgree
    QuotientsAgree
    CleanupAgrees
    FrameAgrees
    AddressesExact
    CanaryAgrees
CHECK_DEADLOCK FALSE
