---------------------------- MODULE TextIngestion ----------------------------
(***************************************************************************)
(* ingest_text_pdf_task: DocumentIngestionPipeline.ingest_document, one    *)
(* action per call that reads or changes a store.                          *)
(***************************************************************************)
EXTENDS IngestTasks

IsText(t) == task[t].kind = "text"

\* A document whose file_hash is the file's, whatever its process_status.
DocOfFile(f) == {d \in Doc : Exists(d) /\ docs[d].file = f}

(***************************************************************************)
(* ingest_document answers success=False.  It does not touch the document  *)
(* record, which keeps the status "processing"; the task only reports the  *)
(* failure to Celery.                                                      *)
(***************************************************************************)
TextFails(t) ==
    /\ EndTask(t, "failed")
    /\ UNCHANGED <<docs, rows, qdrant, es, esFresh, objects>>

(***************************************************************************)
(* An exception of a parser, a model, MySQL or the MinIO connection.  The  *)
(* image loop and the calls to Qdrant and Elasticsearch catch their own.   *)
(***************************************************************************)
TextRaises(t) ==
    /\ IsText(t)
    /\ \/ task[t].pc \in {"hash", "parse", "insert", "rows", "finish"}
       \/ task[t].pc = "images" /\ task[t].todo = {}
    /\ TextFails(t)
    /\ Fault({task[t].doc} \cap Doc)

\* Step 0.5: a known file is reported as indexed and skipped.
CheckFileHash(t) ==
    /\ IsText(t) /\ task[t].pc = "hash"
    /\ IF DocOfFile(task[t].file) # {} THEN Set(t, "skipped") ELSE Set(t, "parse")
    /\ UNCHANGED storeVars

\* Steps 1 to 5: parse, classify, upload the PDF and its Markdown.
StoreSource(t) ==
    /\ IsText(t) /\ task[t].pc = "parse"
    /\ Upload({TextPdf(t), TextMarkdown(task[t].file)}, NoDoc)
    /\ Set(t, "insert")
    /\ UNCHANGED <<docs, rows, qdrant, es, esFresh>>

\* Mutant: file_hash is not UNIQUE, only the check of step 0.5 is left.
InsertUnchecked(t, d) ==
    /\ IsText(t) /\ task[t].pc = "insert"
    /\ docs[d] = FreeDoc
    /\ docs' = [docs EXCEPT ![d] = [state |-> "processing", scanned |-> FALSE,
                                    file |-> task[t].file, task |-> t,
                                    markdown |-> FALSE, chunkCount |-> 0]]
    /\ task' = [task EXCEPT ![t].pc = "images", ![t].doc = d]
    /\ UNCHANGED <<rows, qdrant, es, esFresh, objects, faults, faulty>>

(***************************************************************************)
(* Step 6: insert the record and commit.  file_hash is UNIQUE, so that of  *)
(* two tasks that both passed the check one fails here.                    *)
(***************************************************************************)
InsertDocument(t, d) ==
    /\ IsText(t) /\ task[t].pc = "insert"
    /\ DocOfFile(task[t].file) = {}
    /\ docs[d] = FreeDoc
    /\ docs' = [docs EXCEPT ![d] = [state |-> "processing", scanned |-> FALSE,
                                    file |-> task[t].file, task |-> t,
                                    markdown |-> FALSE, chunkCount |-> 0]]
    /\ \E images \in SUBSET Img :
        task' = [task EXCEPT ![t].pc = "images", ![t].doc = d, ![t].todo = images]
    /\ UNCHANGED <<rows, qdrant, es, esFresh, objects, faults, faulty>>

InsertDuplicate(t) ==
    /\ IsText(t) /\ task[t].pc = "insert"
    /\ DocOfFile(task[t].file) # {}
    /\ TextFails(t)
    /\ NoFault

\* Step 6.5, _process_images.
ProcessImage(t, i) ==
    IsText(t) /\ ImageTurn(t, i, TextImage(task[t].file, i))

IndexImagePoint(t) == IsText(t) /\ ImageToQdrant(t)
IndexImageEntry(t) == IsText(t) /\ ImageToEs(t)

(***************************************************************************)
(* The commits after the images and after the tables.  They raise when the *)
(* session is broken.  When the document was deleted there is nothing to   *)
(* commit (its lock kept it from being deleted otherwise), and the UPDATE  *)
(* of its counters matches no row: it raises, unless no counter changed.   *)
(***************************************************************************)
CommitImages(t) ==
    LET d == task[t].doc IN
    /\ IsText(t) /\ task[t].pc = "images" /\ task[t].todo = {}
    /\ \/ /\ task[t].broken \/ ~Exists(d)
          /\ TextFails(t)
       \/ /\ ~task[t].broken
          /\ CommitRows(d, task[t].pend)
          /\ task' = [task EXCEPT ![t].pc = "rows", ![t].pend = {}]
          /\ UNCHANGED <<docs, qdrant, es, esFresh, objects>>
    /\ NoFault

(***************************************************************************)
(* _process_chunks: each chunk is flushed under a savepoint, and one that  *)
(* raises is dropped.  Nothing is committed yet.                           *)
(***************************************************************************)
InsertChunks(t) ==
    LET d == task[t].doc IN
    /\ IsText(t) /\ task[t].pc = "rows"
    /\ \E inserted \in SUBSET {s \in Txt : Exists(d) /\ ~Taken(t, s)} :
        /\ task' = [task EXCEPT ![t].pc = "qdrant", ![t].pend = inserted,
                                ![t].batch = inserted]
        /\ FaultIf(Exists(d) /\ inserted # Txt, {d})
    /\ UNCHANGED <<docs, rows, qdrant, es, esFresh, objects>>

\* Mutant: the batch is not written to Qdrant.
UpsertNothing(t) ==
    /\ IsText(t) /\ task[t].pc = "qdrant"
    /\ Set(t, "es")
    /\ UNCHANGED storeVars

UpsertChunks(t) ==
    /\ IsText(t) /\ task[t].pc = "qdrant"
    /\ UpsertPoints(task[t].doc, task[t].batch)
    /\ Set(t, "es")
    /\ UNCHANGED <<docs, rows, es, esFresh, objects>>

IndexChunks(t) ==
    /\ IsText(t) /\ task[t].pc = "es"
    /\ BulkIndex(task[t].doc, task[t].batch)
    /\ Set(t, "finish")
    /\ UNCHANGED <<docs, rows, qdrant, objects>>

\* Mutant: the status is committed and the chunk rows are not.
CompleteWithoutRows(t) ==
    LET d == task[t].doc IN
    /\ IsText(t) /\ task[t].pc = "finish" /\ Exists(d)
    /\ docs' = [docs EXCEPT ![d].state = "completed",
                            ![d].chunkCount = Cardinality(task[t].pend)]
    /\ EndTask(t, "done")
    /\ UNCHANGED <<rows, qdrant, es, esFresh, objects, faults, faulty>>

\* Mutant: the final UPDATE is an upsert, it brings a deleted document back.
CompleteDeleted(t) ==
    /\ IsText(t) /\ task[t].pc = "finish"
    /\ docs' = [docs EXCEPT ![task[t].doc].state = "completed"]
    /\ EndTask(t, "done")
    /\ UNCHANGED <<rows, qdrant, es, esFresh, objects, faults, faulty>>

(***************************************************************************)
(* Step 9: status, chunk_count and the chunk rows in one commit.  The      *)
(* UPDATE of a deleted document matches no row and raises.                 *)
(***************************************************************************)
CompleteText(t) ==
    LET d == task[t].doc IN
    /\ IsText(t) /\ task[t].pc = "finish"
    /\ IF Exists(d)
       THEN /\ docs' = [docs EXCEPT ![d].state = "completed",
                                    ![d].chunkCount = Cardinality(task[t].pend)]
            /\ CommitRows(d, task[t].pend)
            /\ EndTask(t, "done")
            /\ UNCHANGED <<qdrant, es, esFresh, objects>>
       ELSE TextFails(t)
    /\ NoFault

-----------------------------------------------------------------------------
TextStep(t) ==
    \/ CheckFileHash(t)
    \/ StoreSource(t)
    \/ \E d \in Doc : InsertDocument(t, d)
    \/ InsertDuplicate(t)
    \/ \E i \in Img : ProcessImage(t, i)
    \/ IndexImagePoint(t)
    \/ IndexImageEntry(t)
    \/ CommitImages(t)
    \/ InsertChunks(t)
    \/ UpsertChunks(t)
    \/ IndexChunks(t)
    \/ CompleteText(t)

=============================================================================
