------------------------------ MODULE Original ------------------------------
(***************************************************************************)
(* The file a task uploads, as the program and the user share it: one path *)
(* in the task's directory. The program looks at it by name again and again*)
(* (os.Stat, os.Open, os.Rename, os.Remove) and reads through handles; the *)
(* user writes to it, puts another file in its place, or removes it, and   *)
(* nothing locks it. A content is the sequence of its blocks; its hash is  *)
(* represented by the content that was hashed.                             *)
(***************************************************************************)
EXTENDS Naturals, Sequences, SequencesExt, FiniteSets

CONSTANTS
    Block,      \* blocks, as far as they are told apart
    Content,    \* the contents the file comes to have
    MaxBlocks,  \* bound: the blocks of a file
    MaxEdits,   \* bound: the changes the user makes
    Absent,     \* there is no such file
    Closed, AtPath \* the program has no handle; it has one of the file at the path

ASSUME OriginalAssumption ==
    /\ MaxBlocks \in Nat \ {0} /\ MaxEdits \in Nat
    /\ Content # {} /\ Content \subseteq BoundedSeq(Block, MaxBlocks) \ {<< >>}
    /\ {Absent, Closed, AtPath} \cap Seq(Block) = {}
    /\ Absent # Closed /\ Absent # AtPath /\ Closed # AtPath

VARIABLES
    file,       \* what is at the path
    held,       \* what the program's open handle shows, if it has one
    rewritten,  \* history: changes since the upload's stat that were no growth
    late,       \* history: changes since the upload had read the whole file
    edits       \* the changes the user has made

originalVars == <<file, held, rewritten, late, edits>>

(* A handle shows the file at the path until that is replaced or removed.  *)
Seen == IF held = AtPath THEN file ELSE held
Detached == IF held = AtPath THEN file ELSE held

OriginalInit ==
    /\ file \in Content
    /\ held = Closed
    /\ rewritten = FALSE
    /\ late = FALSE
    /\ edits = 0

OriginalTypeOK ==
    /\ file \in Content \cup {Absent}
    /\ held \in Content \cup {Closed, AtPath}
    /\ rewritten \in BOOLEAN /\ late \in BOOLEAN
    /\ edits \in 0..MaxEdits

-----------------------------------------------------------------------------
Edited(grown) ==
    /\ edits < MaxEdits
    /\ edits' = edits + 1
    /\ rewritten' = (rewritten \/ ~grown)
    /\ late' = TRUE

(* The user, or the program that still produces the file, writes to it.    *)
Write(c) ==
    /\ file \notin {Absent, c}
    /\ Edited(IsPrefix(file, c))
    /\ file' = c
    /\ UNCHANGED held

(* Another file is put at the path: copied there, or renamed over the old. *)
Replace(c) ==
    /\ Edited(FALSE)
    /\ file' = c
    /\ held' = Detached

Unlink ==
    /\ file # Absent
    /\ Edited(FALSE)
    /\ file' = Absent
    /\ held' = Detached

User == Unlink \/ \E c \in Content : Write(c) \/ Replace(c)

=============================================================================
