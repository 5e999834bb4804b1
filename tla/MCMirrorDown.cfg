CONSTANTS
    MaxFid = 4
    nobody = nobody
    Path <- MCPath
    KeyOrder <- MCKeyOrder
    DirPath <- MCDirPath
    VideoPath <- MCVideoPath
    StrmPath <- MCStrmPath
    StrmOf <- MCStrmOf
    Fid <- MCFid
    Modes <- MCModes
    ToStrm = TRUE
    ToStrmDl = TRUE
    Failing = TRUE
    Still = FALSE
    MaxEdits = 1

SPECIFICATION Spec

INVARIANTS
    DropKeepsOriginal
    SkipIsSound
    QuietRunSettles
    RecordMeansLanded
    RecordedIsWhole
    ArchivedIsHandled
