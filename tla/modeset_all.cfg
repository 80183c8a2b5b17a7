CONSTANTS
    Boards <- AllBoards
    FrameSize = 2
    MaxFaults = 2
SPECIFICATION Spec
INVARIANTS ModesetTypeOK OneDevicePerCrtc NothingLeaks ScreensRestored CrashExplained
