CONSTANTS
    text = text
    mkv = mkv
    strm = strm
    one = one
    two = two
    three = three
    cut = cut
    none = none
    MaxFid = 3
    Path <- MCPath
    VideoPath <- MCVideoPath
    StrmOf <- MCStrmOf
    Content <- MCContent
    Later = {}
    Comes <- MCComes
    Big <- MCBig
    SizeOf <- MCSizeOf
    Fid <- MCFid
    Switches <- MCUnlike
    MaxEdits = 0
    MaxFaults = 0
    Enough = 6

SPECIFICATION Spec

INVARIANTS
    LossHasCause
