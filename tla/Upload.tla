------------------------------- MODULE Upload -------------------------------
(***************************************************************************)
(* One upload of a file (internal/drive: upload.go, sha1.go): its size and *)
(* hash are taken, the service is asked whether it has that content, which *)
(* may demand the hash of a range as a proof, and failing that the file is *)
(* opened again and sent, in one piece or in parts, with the hash declared *)
(* in the call back. Between any two of these steps the user may change    *)
(* the file.                                                               *)
(***************************************************************************)
EXTENDS Original

CONSTANTS
    PickCode,       \* the pickcodes the service gives to nodes
    Elsewhere,      \* contents the service knows from others
    maxUploadRetries, \* the calls of upload/init
    maxAttempts,    \* the attempts to send one part
    ossMultipartThreshold, \* a longer file is sent in parts
    calcPartSize,   \* the size of a part, by the size of the file
    none            \* no pickcode, no answer to a demand, no node

ASSUME UploadAssumption ==
    /\ PickCode # {} /\ none \notin PickCode /\ none \notin Seq(Block)
    /\ Elsewhere \subseteq BoundedSeq(Block, MaxBlocks)
    /\ maxUploadRetries \in Nat \ {0} /\ maxAttempts \in Nat \ {0}
    /\ ossMultipartThreshold \in Nat
    /\ calcPartSize \in [1..MaxBlocks -> Nat \ {0}]

VARIABLES
    up,         \* the upload under way
    node        \* the nodes the service has made: their contents

uploadVars == <<up, node>>

NoUpload == [at |-> "idle", size |-> 0, hashed |-> << >>, inits |-> 0,
             range |-> << >>, sign |-> none, parts |-> 0, sent |-> << >>, attempt |-> 1,
             pickCode |-> none]

UploadInit ==
    /\ OriginalInit
    /\ up = NoUpload
    /\ node = [p \in PickCode |-> none]

Known == Elsewhere \cup {node[p] : p \in PickCode}
FreshCode == {p \in PickCode : node[p] = none}

-----------------------------------------------------------------------------
(* An error ends the upload; deferred calls close the handle.              *)
UploadFails ==
    /\ up.at \notin {"idle", "done", "failed"}
    /\ up' = [NoUpload EXCEPT !.at = "failed"]
    /\ held' = Closed
    /\ UNCHANGED <<node, file, rewritten, late, edits>>

StatSize ==
    /\ up.at = "idle"
    /\ file # Absent
    /\ up' = [NoUpload EXCEPT !.at = "hash", !.size = Len(file)]
    /\ rewritten' = FALSE
    /\ UNCHANGED <<node, file, held, late, edits>>

(* FileSHA1WithPreid reads the file once, to its end.                      *)
OpenToHash ==
    /\ up.at = "hash"
    /\ file # Absent
    /\ held' = AtPath
    /\ up' = [up EXCEPT !.at = "read"]
    /\ UNCHANGED <<node, file, rewritten, late, edits>>

HashBlock ==
    /\ up.at = "read"
    /\ Len(up.hashed) < Len(Seen)
    /\ up' = [up EXCEPT !.hashed = Append(@, Seen[Len(@) + 1])]
    /\ UNCHANGED <<node, originalVars>>

HashEnds ==
    /\ up.at = "read"
    /\ Len(up.hashed) >= Len(Seen)
    /\ up' = [up EXCEPT !.at = "init"]
    /\ held' = Closed
    /\ late' = FALSE
    /\ UNCHANGED <<node, file, rewritten, edits>>

(* upload/init, status 2: the service has a content of that hash and size  *)
(* and makes a node of it, or names the one there is. If it demanded a     *)
(* proof, the proof must be right.                                         *)
Proven == up.range # << >> => up.sign = SubSeq(up.hashed, up.range[1], up.range[2])

InstantHit ==
    /\ up.at = "init"
    /\ up.hashed \in Known
    /\ Len(up.hashed) = up.size
    /\ Proven
    /\ \E p \in PickCode :
          /\ node[p] \in {none, up.hashed}
          /\ node' = [node EXCEPT ![p] = up.hashed]
          /\ up' = [up EXCEPT !.at = "done", !.pickCode = p]
    /\ UNCHANGED originalVars

(* Status 6, 7, 8: a range is to be hashed; the loop goes on ...           *)
DemandsProof ==
    /\ up.at = "init"
    /\ \E s \in 1..up.size : \E e \in s..up.size :
          up' = [up EXCEPT !.at = "prove", !.inits = @ + 1, !.range = <<s, e>>]
    /\ UNCHANGED <<node, originalVars>>

(* ... with as much of the range as the file at the path has by then, or   *)
(* without a proof if there is none, unless the calls are used up.         *)
Least(a, b) == IF a < b THEN a ELSE b
Demanded == IF file = Absent THEN none
            ELSE SubSeq(file, up.range[1], Least(up.range[2], Len(file)))

Prove ==
    /\ up.at = "prove"
    /\ up' = IF up.inits < maxUploadRetries
             THEN [up EXCEPT !.at = "init", !.sign = Demanded]
             ELSE [NoUpload EXCEPT !.at = "failed"]
    /\ UNCHANGED <<node, originalVars>>

(* Any other status: the content is to be sent. A token comes first.       *)
ToBeSent ==
    /\ up.at = "init"
    /\ up' = [up EXCEPT !.at = "token"]
    /\ UNCHANGED <<node, originalVars>>

GetToken ==
    /\ up.at = "token"
    /\ up' = [up EXCEPT !.at = "open"]
    /\ UNCHANGED <<node, originalVars>>

\* Faulty variant: the size is not compared.
OpenUnchecked ==
    /\ up.at = "open"
    /\ file # Absent
    /\ held' = AtPath
    /\ up' = [up EXCEPT !.at = "send"]
    /\ UNCHANGED <<node, file, rewritten, late, edits>>

(* The file is opened again; it must still have the size declared.         *)
OpenToSend ==
    /\ up.at = "open"
    /\ file # Absent
    /\ Len(file) = up.size
    /\ held' = AtPath
    /\ up' = [up EXCEPT !.at = "send"]
    /\ UNCHANGED <<node, file, rewritten, late, edits>>

(* Parts are cut from the declared size, the last one is what is left. The *)
(* service puts them together in their order.                              *)
InParts == up.size > ossMultipartThreshold
PartSize == IF InParts THEN calcPartSize[up.size] ELSE up.size
TotalParts == (up.size + PartSize - 1) \div PartSize

\* Faulty variant: the offset is not moved on.
OffsetStuck == 0
Offset == up.parts * PartSize
PartEnd == Offset + Least(PartSize, up.size - Offset)

SendPart ==
    /\ up.at = "send"
    /\ up.parts < TotalParts
    /\ Len(Seen) >= PartEnd
    /\ up' = [up EXCEPT !.parts = @ + 1, !.attempt = 1,
                        !.sent = @ \o SubSeq(Seen, Offset + 1, PartEnd)]
    /\ UNCHANGED <<node, originalVars>>

(* An attempt that fails, or finds the file too short, is repeated after a *)
(* pause; a single PUT is not (UploadFails), nor one that failed too often.*)
RetryPart ==
    /\ up.at = "send"
    /\ InParts /\ up.parts < TotalParts
    /\ up.attempt < maxAttempts
    /\ up' = [up EXCEPT !.attempt = @ + 1]
    /\ UNCHANGED <<node, originalVars>>

(* The service has all parts and calls 115 back, which finds the           *)
(* declared hash to be the one of upload/init. The answer may be lost, or  *)
(* lack an id: then there is a node although the upload fails.             *)
Complete ==
    /\ up.at = "send"
    /\ up.parts = TotalParts
    /\ \E p \in FreshCode :
          /\ node' = [node EXCEPT ![p] = up.sent]
          /\ up' \in {[up EXCEPT !.at = "done", !.pickCode = p], [NoUpload EXCEPT !.at = "failed"]}
    /\ held' = Closed
    /\ UNCHANGED <<file, rewritten, late, edits>>

UploadStep ==
    \/ UploadFails \/ OpenToHash \/ HashBlock \/ HashEnds
    \/ InstantHit \/ DemandsProof \/ Prove \/ ToBeSent
    \/ GetToken \/ OpenToSend \/ SendPart \/ RetryPart \/ Complete

(* Uploads by themselves: the caller takes the answer and may try again.   *)
UploadOver ==
    /\ up.at \in {"done", "failed"}
    /\ up' = NoUpload
    /\ rewritten' = FALSE /\ late' = FALSE
    /\ UNCHANGED <<node, file, held, edits>>

UploadNext == StatSize \/ UploadStep \/ UploadOver \/ (User /\ UNCHANGED uploadVars)

(* Calls return in the end, with or without an answer, and the caller goes *)
(* on; nothing makes the user write, or the service be of help.            *)
UploadSpec ==
    /\ UploadInit
    /\ [][UploadNext]_<<originalVars, uploadVars>>
    /\ WF_<<originalVars, uploadVars>>(UploadStep \/ UploadOver)

-----------------------------------------------------------------------------
UploadTypeOK ==
    /\ up.at \in {"idle", "hash", "read", "init", "prove", "token", "open", "send", "done", "failed"}
    /\ up.size \in 0..MaxBlocks
    /\ up.hashed \in BoundedSeq(Block, MaxBlocks)
    /\ up.inits \in 0..maxUploadRetries
    /\ up.attempt \in 1..maxAttempts
    /\ up.pickCode \in PickCode \cup {none}
    /\ node \in [PickCode -> BoundedSeq(Block, MaxBlocks) \cup {none}]

(* What the service has stored under the declared hash has that hash,      *)
(* unless the file was rewritten, not merely added to, since its size was  *)
(* taken: a file that is still being written when its upload begins is     *)
(* either refused or sent as it was hashed, whatever the order of stat,    *)
(* hash, open and parts. 115 itself cannot tell: the program declares the  *)
(* hash it computed before (upload.go, UploadHelper and uploadByOSS).      *)
HashIsContent ==
    up.at = "done" => node[up.pickCode] = up.hashed \/ rewritten

(* The whole exchange keeps what Transfer promises the caller: what it read*)
(* is what it hashed, and it ends, however often the service demands a     *)
(* proof and parts fail (upload.go, UploadHelper and multipartUpload). The *)
(* handles are its own affair.                                             *)
progress ==
    CASE up.at = "idle" -> "idle"
      [] up.at \in {"hash", "read"} -> "reading"
      [] up.at \in {"init", "prove", "token", "open", "send"} -> "storing"
      [] up.at = "done" -> "done"
      [] up.at = "failed" -> "failed"

Abstract == INSTANCE Transfer WITH
    held <- Closed,
    transfer <- [at |-> progress, pickCode |-> up.pickCode,
                 read |-> IF progress \in {"storing", "done"} THEN up.hashed ELSE << >>]

ImplementsTransfer == Abstract!TransferSpec

=============================================================================
