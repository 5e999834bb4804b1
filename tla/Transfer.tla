------------------------------ MODULE Transfer ------------------------------
(***************************************************************************)
(* What an upload promises its caller (internal/drive: UploadHelper),      *)
(* however it goes about it: at one moment it has read the file whole; if  *)
(* it succeeds, the service has a node of exactly that content, unless the *)
(* file was rewritten, not merely added to, while it was at work; if it    *)
(* fails there may be such a node all the same. Upload is shown to         *)
(* implement this, Handover is built on it.                                *)
(***************************************************************************)
EXTENDS Original

CONSTANTS
    PickCode,   \* the pickcodes the service gives to nodes
    none        \* no pickcode, no node

VARIABLES
    transfer,   \* how far the upload is, what it has read, what it was told
    node        \* the nodes the service has made: their contents

NoTransfer == [at |-> "idle", read |-> << >>, pickCode |-> none]

TransferInit ==
    /\ transfer = NoTransfer
    /\ node = [p \in PickCode |-> none]

AnyContent == BoundedSeq(Block, MaxBlocks)

Start ==
    /\ transfer.at = "idle"
    /\ file # Absent
    /\ transfer' = [NoTransfer EXCEPT !.at = "reading"]
    /\ rewritten' = FALSE
    /\ UNCHANGED <<node, file, held, late, edits>>

(* From here on changes of the file come too late.                         *)
Read ==
    /\ transfer.at = "reading"
    /\ \E c \in IF rewritten THEN AnyContent ELSE {file} :
          transfer' = [transfer EXCEPT !.at = "storing", !.read = c]
    /\ late' = FALSE
    /\ UNCHANGED <<node, file, held, rewritten, edits>>

\* Faulty variant: what is stored need not be what was read.
StoreAny ==
    /\ transfer.at = "storing"
    /\ \E p \in PickCode, c \in AnyContent :
          /\ node[p] \in {none, c}
          /\ node' = [node EXCEPT ![p] = c]
          /\ transfer' = [transfer EXCEPT !.at = "done", !.pickCode = p]
    /\ UNCHANGED originalVars

(* What is stored is what was read; the answer may be lost.                *)
Store ==
    /\ transfer.at = "storing"
    /\ \E p \in PickCode, c \in IF rewritten THEN AnyContent ELSE {transfer.read} :
          /\ node[p] \in {none, c}
          /\ node' = [node EXCEPT ![p] = c]
          /\ transfer' \in {[transfer EXCEPT !.at = "done", !.pickCode = p],
                            [NoTransfer EXCEPT !.at = "failed"]}
    /\ UNCHANGED originalVars

Fail ==
    /\ transfer.at \in {"reading", "storing"}
    /\ transfer' = [NoTransfer EXCEPT !.at = "failed"]
    /\ UNCHANGED <<node, originalVars>>

TransferStep == Read \/ Store \/ Fail

(* The caller takes the answer.                                            *)
Taken ==
    /\ transfer.at \in {"done", "failed"}
    /\ transfer' = NoTransfer
    /\ rewritten' = FALSE /\ late' = FALSE
    /\ UNCHANGED <<node, file, held, edits>>

transferVars == <<transfer, node>>
TransferNext == Start \/ TransferStep \/ Taken \/ (User /\ UNCHANGED transferVars)

TransferSpec ==
    /\ OriginalInit /\ TransferInit
    /\ [][TransferNext]_<<originalVars, transferVars>>
    /\ WF_<<originalVars, transferVars>>(TransferStep \/ Taken)

TransferTypeOK ==
    /\ transfer.at \in {"idle", "reading", "storing", "done", "failed"}
    /\ transfer.pickCode \in PickCode \cup {none}
    /\ node \in [PickCode -> AnyContent \cup {none}]

=============================================================================
