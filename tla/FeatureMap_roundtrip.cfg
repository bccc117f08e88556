\* Every format of the enum, a 9-channel pixel and a 1x1x2x3 map, both
\* builds; one set_data/get_data round trip per object, so the model stops.
CONSTANTS
    ConvertThreads = 1
    Formats = {"GBF80", "GBF80_ROW", "BF16", "FP32", "RGB888", "RGB565", "YUV422"}
    Undef = Undef
    Shapes <- MCShapes
    Values <- MCValues
SPECIFICATION Spec
INVARIANT
    TypeOK
    RoundTripKeepsLargest
    DecodedAsStored
CHECK_DEADLOCK FALSE
