--------------------------- MODULE DocumentClaims ---------------------------
(***************************************************************************)
(* What the documentation, the comments and the messages of the code say   *)
(* about the life of documents, and the code does not do.  Each property   *)
(* is the subject of a run that finds it violated.                         *)
(***************************************************************************)
EXTENDS DocumentLifecycle

(***************************************************************************)
(* delete_document answers that the document and all its data are deleted. *)
(* The points of a scanned document are not keyed by "doc_id": they stay.  *)
(***************************************************************************)
DeleteRemovesEverything ==
    \A d \in purged : SlotsOf(qdrant, d) = {} /\ SlotsOf(es, d) = {}

(***************************************************************************)
(* process_status goes from "processing" to "completed" or "failed".  The  *)
(* text path leaves a document whose ingestion failed in "processing".     *)
(***************************************************************************)
ProcessingEnds ==
    \A d \in Doc : docs[d].state = "processing" ~> docs[d].state # "processing"

=============================================================================
