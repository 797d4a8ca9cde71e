SPECIFICATION Spec
CONSTANTS
    Sources = {usb}
    LockAfter = 2
    LockoutAfter = 1
    MaxShift = 1
    MaxWrong = 2
INVARIANT OverlayFlagTracks
INVARIANT DarkOnlyWhenLocked
PROPERTY LockoutHolds
PROPERTY IdleLocks
