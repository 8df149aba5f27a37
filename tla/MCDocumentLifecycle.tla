------------------------ MODULE MCDocumentLifecycle ------------------------
(***************************************************************************)
(* Instances of DocumentLifecycle for TLC.  Tasks, documents, files and    *)
(* chunk slots are interchangeable, and the safety runs use that symmetry; *)
(* the runs of liveness properties do not.                                 *)
(***************************************************************************)
EXTENDS DocumentClaims, TLC

CONSTANTS f1, f2

\* The files are of one standard: their Markdown and images share MinIO keys.
MCStdOf == [f \in File |-> "GB"]

MCSymmetry ==
    Permutations(Doc) \cup Permutations(Task) \cup Permutations(Img) \cup Permutations(Txt)
    \cup Permutations(File)

=============================================================================
