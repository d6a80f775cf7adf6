CONSTANTS
    SetBits    <- MCSetBits
    ByteShifts <- MCByteShifts
    BitShifts  <- MCBitShifts
    Amounts    <- MCAmounts
    Aligns     <- MCAligns
    Ctls       <- MCCtls
    Probe      <- MCProbe
    Lens       <- MCLens
SPECIFICATION Spec
CONSTRAINT BitsBound
INVARIANT VecIsRef
INVARIANT TestbitAgrees
INVARIANT MovemaskOfZeroBytes
INVARIANT LaneViewsAgree
