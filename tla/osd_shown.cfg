CONSTANTS
    ImgWidth = 4
    ImgHeight = 3
    FONT_ARRAY_SIZE = 3
    Ids = {0, 2, 3}
    Bitmaps <- SomeBitmaps
    Rows <- SomeRows
    Columns <- SomeColumns
    MaxCreates = 3
CHECK_DEADLOCK FALSE
SPECIFICATION Spec
INVARIANTS OsdTypeOK ShowsTheSlots
