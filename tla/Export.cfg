SPECIFICATION Spec
CONSTANTS
    Plan <- RoutesMC
    PacketQueue = 1
    MuxerQueue = 1
    Overwrite = TRUE
    Cuts <- CutsMC
    Lines <- LinesMC
    Encoding <- EncodingMC
    Encoder <- EncoderMC
    Hdr = {"h"}
    Runs <- RunsMC
    Codes = 12
    Startcode = 5
    Elisions <- ElisionsMC
    LongFrame = 7
    GroupBase = 4
    Nuts <- NutsMC
    ByteBits = 4
    UeZeros = 6
    Crops <- CropsMC
    Widths <- WidthsMC
    MaxLayers = 3
    HighProfiles = {9}
    ScalingLists <- ScalesMC
    Block = 2
    MaxSize = 8
    SpsHeader <- HeaderMC
    LengthOfLength = 2
INVARIANTS ExportSettles CutHolds PlanHolds WrittenReadsBack
PROPERTIES  ExportEnds
CHECK_DEADLOCK FALSE
