--------------------------- MODULE MCMirrorDown ---------------------------
(* A small instance of MirrorDown: a directory with a video and a plain    *)
(* file, and a plain file in the root.                                     *)
EXTENDS MirrorDown, TLC

CONSTANT MaxFid

d == <<"d">>
dMkv == <<"d", "x.mkv">>
dStrm == <<"d", "x.strm">>
dText == <<"d", "y">>
text == <<"z">>

MCKeyOrder == <<d, dMkv, dStrm, dText, text>>
MCPath == {MCKeyOrder[i] : i \in DOMAIN MCKeyOrder}
MCDirPath == {d}
MCVideoPath == {dMkv}
MCStrmPath == {dStrm}
MCStrmOf == [v \in MCVideoPath |-> dStrm]
MCFid == 1 .. MaxFid
MCModes == {"twoWay", "archive", "plain"}

(* A task that archives; a second directory instead of the plain files.    *)
e == <<"e">>
ArchiveKeyOrder == <<d, dMkv, dStrm, dText, e>>
ArchivePath == {ArchiveKeyOrder[i] : i \in DOMAIN ArchiveKeyOrder}
ArchiveDirPath == {d, e}
ArchiveModes == {"archive"}

=============================================================================
