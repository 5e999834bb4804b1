---------------------------- MODULE MCMirrorUp ----------------------------
(* A small instance of MirrorUp: a video and its .strm in the root, and a  *)
(* directory with a plain file. In key order the two stand between the     *)
(* directory and what is in it. The task is set up over the directory with *)
(* its file, with a small video beside it or none, or over a large video.  *)
EXTENDS MirrorUp, TLC

CONSTANTS small, big, MaxFid

a == <<"a">>
aMkv == <<"a.mkv">>
aStrm == <<"a.strm">>
ac == <<"a", "c">>

MCKeyOrder == <<a, aMkv, aStrm, ac>>
MCPath == {a, aMkv, aStrm, ac}
MCDirPath == {a}
MCVideoPath == {aMkv}
MCStrmPath == {aStrm}
MCStrmOf == [v \in MCVideoPath |-> aStrm]
MCContent == {small, big}
MCBig == {big}
MCSizeOf == [c \in MCContent |-> IF c = big THEN 2 ELSE 1]
MCFid == 1 .. MaxFid
MCForeign == {1}
Filled(v) ==
    [p \in MCPath |-> CASE p = a -> Directory [] p = ac -> File(small) [] p = aMkv -> v [] OTHER -> Nothing]
MCStart ==
    {Filled(Nothing), Filled(File(small)),
     [p \in MCPath |-> IF p = aMkv THEN File(big) ELSE Nothing]}
MCRemovable == {a, aMkv, aStrm}

(* The directory holds a video; directories are deleted, too.              *)
aaMkv == <<"a", "a.mkv">>
aaStrm == <<"a", "a.strm">>
TreeKeyOrder == <<a, aaMkv, aaStrm>>
TreePath == {a, aaMkv, aaStrm}
TreeVideoPath == {aaMkv}
TreeStrmPath == {aaStrm}
TreeStrmOf == [v \in TreeVideoPath |-> aaStrm]
TreeStart == {[p \in TreePath |-> IF p = a THEN Directory ELSE Nothing]}
TreeRemovable == {a}

(* The directory holds a .strm, and .strm files are moved.                 *)
MoveKeyOrder == <<a, aMkv, aStrm, aaStrm>>
MovePath == {a, aMkv, aStrm, aaStrm}
MoveStrmPath == {aStrm, aaStrm}
MoveStart == {[p \in MovePath |-> IF p = a THEN Directory ELSE Nothing]}
MoveRemovable == {aStrm, aaStrm}

=============================================================================
