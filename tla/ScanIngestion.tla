---------------------------- MODULE ScanIngestion ----------------------------
(***************************************************************************)
(* process_scanned_pdf_task: ScannedPDFProcessor.process_document.  The    *)
(* document record exists before the task starts.                          *)
(***************************************************************************)
EXTENDS IngestTasks

IsScan(t) == task[t].kind = "scan"

\* Every exception of process_document goes to the handlers that mark "failed".
ScanFails(t) ==
    /\ task' = [task EXCEPT ![t].pc = "markFailed", ![t].todo = {}, ![t].pend = {},
                            ![t].batch = {}, ![t].broken = FALSE]
    /\ UNCHANGED <<docs, rows, qdrant, es, esFresh, objects>>

(***************************************************************************)
(* MinerU is down or gives up, the chunker or a model raises, MySQL is     *)
(* lost, or the reload of the committed record fails.                      *)
(***************************************************************************)
ScanRaises(t) ==
    /\ IsScan(t)
    /\ \/ task[t].pc \in {"mineru", "load", "rows", "finish", "reload"}
       \/ task[t].pc = "images" /\ task[t].todo = {}
    /\ ScanFails(t)
    /\ Fault({task[t].doc})

\* Health check and parse_with_retry: no store is touched.
ParseWithMinerU(t) ==
    /\ IsScan(t) /\ task[t].pc = "mineru"
    /\ Set(t, "load")
    /\ UNCHANGED storeVars

\* The record is looked up only now; the PDF and its Markdown are uploaded.
LoadDocument(t) ==
    LET d == task[t].doc IN
    /\ IsScan(t) /\ task[t].pc = "load"
    /\ IF Exists(d)
       THEN /\ Upload({ScanPdf(d), ScanMarkdown(d)}, d)
            /\ \E images \in SUBSET Img :
                task' = [task EXCEPT ![t].pc = "images", ![t].todo = images]
            /\ UNCHANGED <<docs, rows, qdrant, es, esFresh>>
       ELSE ScanFails(t) /\ NoFault

\* _process_images_from_content_list.
ProcessScanImage(t, i) ==
    IsScan(t) /\ ImageTurn(t, i, ScanImage(task[t].doc, i))

IndexScanImagePoint(t) == IsScan(t) /\ ImageToQdrant(t)
IndexScanImageEntry(t) == IsScan(t) /\ ImageToEs(t)

CommitScanImages(t) ==
    /\ IsScan(t) /\ task[t].pc = "images" /\ task[t].todo = {}
    /\ IF task[t].broken
       THEN ScanFails(t)
       ELSE /\ CommitRows(task[t].doc, task[t].pend)
            /\ task' = [task EXCEPT ![t].pc = "rows", ![t].pend = {}]
            /\ UNCHANGED <<docs, qdrant, es, esFresh, objects>>
    /\ NoFault

(***************************************************************************)
(* _vectorize_and_index, up to its commit.  A chunk whose encoding raises  *)
(* is dropped; a flush that raises breaks the session (there is no         *)
(* savepoint here), and the commit raises.  Unlike the text path, the rows *)
(* are committed before their points are written.                          *)
(***************************************************************************)
InsertScanChunks(t) ==
    LET d == task[t].doc IN
    /\ IsScan(t) /\ task[t].pc = "rows"
    /\ \E encoded \in SUBSET Txt :
        /\ IF encoded # {} /\ (~Exists(d) \/ \E s \in encoded : Taken(t, s))
           THEN ScanFails(t)
           ELSE /\ CommitRows(d, encoded)
                /\ task' = [task EXCEPT ![t].pc = "qdrant", ![t].batch = encoded]
                /\ UNCHANGED <<docs, qdrant, es, esFresh, objects>>
        /\ FaultIf(encoded # Txt, {d})

\* Mutant: Qdrant is skipped, as when its points were never collected.
UpsertNoScanChunks(t) ==
    /\ IsScan(t) /\ task[t].pc = "qdrant"
    /\ Set(t, "es")
    /\ UNCHANGED storeVars

UpsertScanChunks(t) ==
    /\ IsScan(t) /\ task[t].pc = "qdrant"
    /\ UpsertPoints(task[t].doc, task[t].batch)
    /\ Set(t, "es")
    /\ UNCHANGED <<docs, rows, es, esFresh, objects>>

IndexScanChunks(t) ==
    /\ IsScan(t) /\ task[t].pc = "es"
    /\ BulkIndex(task[t].doc, task[t].batch)
    /\ Set(t, "finish")
    /\ UNCHANGED <<docs, rows, qdrant, objects>>

\* Mutant: chunk_count counts the chunks that were dropped as well.
CompleteCountingAll(t) ==
    LET d == task[t].doc IN
    /\ IsScan(t) /\ task[t].pc = "finish" /\ Exists(d)
    /\ docs' = [docs EXCEPT ![d].state = "completed", ![d].markdown = TRUE,
                            ![d].chunkCount = Cardinality(Txt)]
    /\ task' = [task EXCEPT ![t].pc = "reload", ![t].batch = {}]
    /\ UNCHANGED <<rows, qdrant, es, esFresh, objects, faults, faulty>>

\* The final UPDATE; it raises when the document was deleted meanwhile.
CompleteScan(t) ==
    LET d == task[t].doc IN
    /\ IsScan(t) /\ task[t].pc = "finish"
    /\ IF Exists(d)
       THEN /\ docs' = [docs EXCEPT ![d].state = "completed", ![d].markdown = TRUE,
                                    ![d].chunkCount = Cardinality(task[t].batch)]
            /\ task' = [task EXCEPT ![t].pc = "reload", ![t].batch = {}]
            /\ UNCHANGED <<rows, qdrant, es, esFresh, objects>>
       ELSE ScanFails(t)
    /\ NoFault

(***************************************************************************)
(* The answer reads document.table_count after the commit has expired the  *)
(* record, so that it is read from MySQL once more: it raises when the     *)
(* document has been deleted since.                                        *)
(***************************************************************************)
ReloadDocument(t) ==
    /\ IsScan(t) /\ task[t].pc = "reload"
    /\ IF Exists(task[t].doc)
       THEN EndTask(t, "done") /\ UNCHANGED <<docs, rows, qdrant, es, esFresh, objects>>
       ELSE ScanFails(t)
    /\ NoFault

\* Mutant: the handlers record the error and not the status.
MarkNothing(t) ==
    /\ IsScan(t) /\ task[t].pc = "markFailed"
    /\ EndTask(t, "failed")
    /\ UNCHANGED storeVars

\* Mutant: the handlers do not look whether the document is still there.
MarkUnchecked(t) ==
    /\ IsScan(t) /\ task[t].pc = "markFailed"
    /\ docs' = [docs EXCEPT ![task[t].doc].state = "failed"]
    /\ EndTask(t, "failed")
    /\ UNCHANGED <<rows, qdrant, es, esFresh, objects, faults, faulty>>

\* The handlers of process_document and of the task: whatever the status was.
MarkFailed(t) ==
    LET d == task[t].doc IN
    /\ IsScan(t) /\ task[t].pc = "markFailed"
    /\ docs' = IF Exists(d) THEN [docs EXCEPT ![d].state = "failed"] ELSE docs
    /\ EndTask(t, "failed")
    /\ UNCHANGED <<rows, qdrant, es, esFresh, objects, faults, faulty>>

(***************************************************************************)
(* Both handlers open a session of their own and catch nothing: MySQL is   *)
(* lost, often by the failure that brought the task here, or the record    *)
(* stays locked by another session past the lock timeout.  The status is   *)
(* not written and the task is over.                                       *)
(***************************************************************************)
MarkRaises(t) ==
    LET d == task[t].doc IN
    /\ IsScan(t) /\ task[t].pc = "markFailed"
    /\ EndTask(t, "unmarked")
    /\ FaultIf(d \notin faulty /\ ~DocLocked(d), {d})
    /\ UNCHANGED <<docs, rows, qdrant, es, esFresh, objects>>

-----------------------------------------------------------------------------
ScanStep(t) ==
    \/ ParseWithMinerU(t)
    \/ LoadDocument(t)
    \/ \E i \in Img : ProcessScanImage(t, i)
    \/ IndexScanImagePoint(t)
    \/ IndexScanImageEntry(t)
    \/ CommitScanImages(t)
    \/ InsertScanChunks(t)
    \/ UpsertScanChunks(t)
    \/ IndexScanChunks(t)
    \/ CompleteScan(t)
    \/ ReloadDocument(t)
    \/ MarkFailed(t)

=============================================================================
