CONSTANTS
    ImgWidth = 24
    ImgHeight = 13
    Requests <- AllRequests
SPECIFICATION ShapesSpec
INVARIANTS ShapesTypeOK DrawnInside BoxSymmetric
CHECK_DEADLOCK FALSE
