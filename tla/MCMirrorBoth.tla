---------------------------- MODULE MCMirrorBoth ----------------------------
(* A small instance of MirrorBoth: a plain file, a video and its .strm.    *)
EXTENDS MirrorBoth, TLC

CONSTANTS text, mkv, strm, one, two, three, MaxFid

MCPath == {text, mkv, strm}
MCVideoPath == {mkv}
MCStrmOf == [v \in MCVideoPath |-> strm]
MCContent == {one, two}
MCComes == [p \in MCPath |-> CASE p = text -> {one} [] p = mkv -> {one, two} [] p = strm -> {}]
MCBig == {one}
MCSizeOf == [c \in MCContent \cup {cut} |-> CASE c = cut -> 1 [] c = two -> 2 [] c = one -> 3]
MCFid == 1 .. MaxFid
(* A third content, the second of a video.                                 *)
ThreeContent == {one, two, three}
ThreeBig == {one, three}
ThreeSizeOf == [c \in ThreeContent \cup {cut} |->
    CASE c = cut -> 1 [] c = two -> 2 [] c = one -> 3 [] c = three -> 4]
ThreeComes == [MCComes EXCEPT ![mkv] = ThreeContent]

(* The two switches agree; what is uploaded as a video is fetched as one;  *)
(* or the other way round.                                                 *)
MCAlike == {[toStrm |-> b, toStrmDl |-> b] : b \in BOOLEAN}
MCForward == {s \in [toStrm : BOOLEAN, toStrmDl : BOOLEAN] : s.toStrm => s.toStrmDl}
MCUnlike == {[toStrm |-> TRUE, toStrmDl |-> FALSE]}

=============================================================================
