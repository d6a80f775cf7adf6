CONSTANTS
    SetBits    <- MCSetBits
    ByteShifts <- MCNone
    BitShifts  <- MCNone
    Amounts    <- MCNone
    Aligns     <- MCNone
    Ctls       <- MCNone
    Probe      <- MCProbe
    Lens       <- MCNone
    Addends    <- MCAddends
    Bytes8     <- MCBytes8
    Words32    <- MCWords32
    Words64    <- MCWords64
    MaxCalls   = 4
SPECIFICATION ArithSpec
INVARIANT VecIsRef
CHECK_DEADLOCK FALSE
