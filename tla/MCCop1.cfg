SPECIFICATION Cop1Spec
CONSTANTS
    FrameSpace = 8
    FarmWindow = 4
    FopWin = 2
    FopBuf = 4
    FduLen = 1
    FopMaxActions = 3
    TransmissionLimit = 2
    MaxUplink = 3
    MaxFdus = 3
    MaxDirectives = 2
    MaxDownlink = 2
    SetVrValues = {7}
INVARIANTS
    FarmTypeOK
    FlagsMatchState
    AcceptedInOrder
    AckedIsAccepted
    T1CoversSentFrames
