CONSTANTS
    small = small
    big = big
    MaxFid = 4
    root = root
    temp = temp
    elsewhere = elsewhere
    nowhere = nowhere
    Path <- MCPath
    KeyOrder <- MCKeyOrder
    DirPath <- MCDirPath
    VideoPath <- MCVideoPath
    StrmPath <- MCStrmPath
    StrmOf <- MCStrmOf
    Content <- MCContent
    Big <- MCBig
    SizeOf <- MCSizeOf
    Fid <- MCFid
    Foreign <- MCForeign
    ToStrm = TRUE
    Instant = TRUE
    Growing = FALSE
    Moves = FALSE
    Start <- MCStart
    Removable <- MCRemovable
    MaxEdits = 2

SPECIFICATION Spec

INVARIANTS
    HandedIsKept
    TrackedIsNotRecycled
    Converges
    IsMirror
