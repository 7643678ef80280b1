CONSTANTS
    MaxFrag <- MCMaxFrag
    BufSize <- MCBufSize
    MaxLen <- MCMaxLen
    MaxFrames <- MCMaxFrames
    MaxConns <- MCMaxConns
    NumCases <- MCNumCases
    MallocCanFail = FALSE

SPECIFICATION Spec

INVARIANT EchoFaithful
