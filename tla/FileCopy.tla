------------------------------ MODULE FileCopy ------------------------------
(***************************************************************************)
(* What a file transfer promises: the copy is at every moment a prefix of  *)
(* the source, it only grows, and the transfer is called complete only     *)
(* when the copy is the source.  It may fail at any time.                  *)
(***************************************************************************)
EXTENDS Naturals, Sequences

CONSTANT source      \* the contents of the file

VARIABLES phase,     \* "idle", "copying", "complete" or "failed"
          copy       \* what has been received so far

Init == phase = "idle" /\ copy = <<>>

Begin == phase = "idle" /\ phase' = "copying" /\ copy' = <<>>

Prefixes == {SubSeq(source, 1, n) : n \in Len(copy)..Len(source)}

Deliver  == phase = "copying" /\ copy' \in Prefixes /\ UNCHANGED phase
Complete == phase = "copying" /\ copy' = source /\ phase' = "complete"
Fail     == /\ phase \in {"idle", "copying"}
            /\ copy' \in Prefixes \cup {copy} /\ phase' = "failed"

Next == Begin \/ Deliver \/ Complete \/ Fail

Spec == Init /\ [][Next]_<<phase, copy>>
=============================================================================
