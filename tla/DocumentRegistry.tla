-------------------------- MODULE DocumentRegistry --------------------------
(***************************************************************************)
(* What the rest of the system may rely on about the documents table: the  *)
(* process_status of a document and the file it was made from, without     *)
(* workers, stores or handlers.  DocumentLifecycle implements it.          *)
(***************************************************************************)
CONSTANTS Doc, File, NoFile

VARIABLES status, fileOf, isScanned

registryVars == <<status, fileOf, isScanned>>

Known(d) == status[d] \notin {"free", "deleted"}

Init ==
    /\ status = [d \in Doc |-> "free"]
    /\ fileOf = [d \in Doc |-> NoFile]
    /\ isScanned = [d \in Doc |-> FALSE]

\* A text document is recorded with its file, which no other document holds.
RegisterText(d, f) ==
    /\ status[d] = "free"
    /\ \A e \in Doc : Known(e) => fileOf[e] # f
    /\ status' = [status EXCEPT ![d] = "processing"]
    /\ fileOf' = [fileOf EXCEPT ![d] = f]
    /\ UNCHANGED isScanned

RegisterScanned(d, s) ==
    /\ status[d] = "free"
    /\ s \in {"pending", "processing"}
    /\ status' = [status EXCEPT ![d] = s]
    /\ isScanned' = [isScanned EXCEPT ![d] = TRUE]
    /\ UNCHANGED fileOf

(***************************************************************************)
(* Only a scanned document can fail, and it can do so at any time; only a  *)
(* scanned document can be completed again.                                *)
(***************************************************************************)
Complete(d) ==
    /\ Known(d)
    /\ isScanned[d] \/ status[d] = "processing"
    /\ status' = [status EXCEPT ![d] = "completed"]
    /\ UNCHANGED <<fileOf, isScanned>>

Fail(d) ==
    /\ Known(d) /\ isScanned[d]
    /\ status' = [status EXCEPT ![d] = "failed"]
    /\ UNCHANGED <<fileOf, isScanned>>

\* Final: the id is never used again.
Remove(d) ==
    /\ Known(d)
    /\ status' = [status EXCEPT ![d] = "deleted"]
    /\ UNCHANGED <<fileOf, isScanned>>

Next ==
    \E d \in Doc :
        \/ \E f \in File : RegisterText(d, f)
        \/ \E s \in {"pending", "processing"} : RegisterScanned(d, s)
        \/ Complete(d) \/ Fail(d) \/ Remove(d)

Spec == Init /\ [][Next]_registryVars

=============================================================================
