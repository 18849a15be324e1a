CONSTANTS
    Areas = {"Top"}
    Window = {"overscan"}
    Weights = {"edgeWeighting"}
    Fields <- ThreeFields
    MaxValue = 1
    Bad = Bad
    NoPicture = NoPicture
    None = None
    ChannelOrder <- Pins
    AreaNames = {"Top-1", "Left-1"}
    OldMappings <- Old
    Controllers = {c1, c2}
    Unit = 13
    ScreenWidth = 40
    ScreenHeight = 23
    MaxSide = 3
    Overscans = {0, 200}
    AnalyzeSizes = {0}
    MaxClicks = 4
    Nothing = Nothing
    MappedChannels <- Lights
    pwmRes <- Res
    ScreenAreas = {"Left-1", "Top-1", "Right-1"}
    OldBrights <- Brights
    Whites = {157}
    Scales = {0, 33}
    Gammas = {10}
    Typed <- Numbers
    NoNumber = NoNumber
    MaxMoves = 4
    MaxErrors = 1
    MaxFailures = 1
SPECIFICATION MCSpec
SYMMETRY Symmetry
INVARIANTS MCTypeOK LayoutIsDrawn ScreenIsDivided
PROPERTIES LoadDrawsAll MappingIsSound CalibrationIsSound
CHECK_DEADLOCK FALSE
