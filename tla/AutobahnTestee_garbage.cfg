CONSTANTS
    MaxFrag <- MCMaxFrag
    BufSize <- MCBufSize
    MaxLen <- MCMaxLen
    MaxFrames <- MCMaxFrames
    MaxConns <- MCMaxConns
    NumCases <- MCNumCases
    MallocCanFail = TRUE

SPECIFICATION Spec

INVARIANT EchoFaithful
