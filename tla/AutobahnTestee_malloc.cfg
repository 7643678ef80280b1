CONSTANTS
    MaxFrag <- MCMaxFrag
    BufSize <- MCBufSize
    MaxLen <- MCMaxLen
    MaxFrames <- MCMaxFramesFew
    MaxConns <- MCMaxConns
    NumCases <- MCNumCases
    MallocCanFail = TRUE

SPECIFICATION Spec

INVARIANT TypeOK
INVARIANT AccTracksFrame
PROPERTY EchoesEveryFittingFrame
