CONSTANTS
    WordBits = 30
    Thumb16 <- In16
    Thumb32 <- In32
    Arm <- InArm
    Targets <- Functions3
    Writable <- Changing
SPECIFICATION Spec
INVARIANTS
    CopyDoesTheSame
CHECK_DEADLOCK FALSE
