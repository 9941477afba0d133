SPECIFICATION LineSpec
CONSTANTS
    HashLen = 3
    Mtu = 11
    U16Mod = 3
    Messages <- MCMessages
    Destination <- MCDestination
    NoiseBytes <- MCNoiseBytes
    MaxMessages = 2
    MaxFrames = 4
    MaxNoise = 1
    MaxNoisySends = 1
INVARIANTS
    FitsMtu
    CleanFramesDecoded
    Resynchronises
    WholeMessages
    Reassembles
CHECK_DEADLOCK FALSE
