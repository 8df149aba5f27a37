----------------------------- MODULE IngestTasks -----------------------------
(***************************************************************************)
(* A Celery task that ingests one PDF, and what the text path              *)
(* (DocumentIngestionPipeline) and the scanned path (ScannedPDFProcessor)  *)
(* do in the same way: queueing, a crash of the worker, and the handling   *)
(* of one image.                                                           *)
(*                                                                         *)
(* A task has one MySQL session.  pend is what that session has flushed    *)
(* and not committed; a flush that raises rolls the session back and       *)
(* leaves it unusable (broken), because neither path calls rollback on it: *)
(* every later flush and commit of the task raises as well.                *)
(***************************************************************************)
EXTENDS DocumentStores

VARIABLE task

taskVars == <<task>>

TextPc == {"hash", "parse", "insert", "images", "imgQdrant", "imgEs",
           "rows", "qdrant", "es", "finish"}
ScanPc == {"mineru", "load", "images", "imgQdrant", "imgEs",
           "rows", "qdrant", "es", "finish", "reload", "markFailed"}
EndPc == {"done", "skipped", "failed", "unmarked", "lost"}

TaskRecord ==
    [pc: {"idle"} \cup TextPc \cup ScanPc \cup EndPc,
     kind: {"text", "scan"},
     file: File \cup {NoFile},
     doc: Doc \cup {NoDoc},
     todo: SUBSET Img,      \* images the loop has not reached
     pend: SUBSET Slot,     \* rows flushed and not committed
     batch: SUBSET Slot,    \* points to write to Qdrant and Elasticsearch
     broken: BOOLEAN]       \* the session needs a rollback nobody calls

IdleTask == [pc |-> "idle", kind |-> "text", file |-> NoFile, doc |-> NoDoc,
             todo |-> {}, pend |-> {}, batch |-> {}, broken |-> FALSE]

Active(t) == task[t].pc \notin {"idle"} \cup EndPc

\* Mutant: no FOREIGN KEY, a delete does not wait for a worker's session.
DocUnlocked(d) == FALSE

\* An uncommitted child row holds a lock on its document's row (FOREIGN KEY).
DocLocked(d) == \E t \in Task : task[t].doc = d /\ task[t].pend # {}

(***************************************************************************)
(* Another session holds an uncommitted row with the same unique key       *)
(* (document_id, content_hash), or the table holds a committed one.        *)
(***************************************************************************)
HeldByOther(t, s) ==
    \E u \in Task \ {t} : task[u].doc = task[t].doc /\ s \in task[u].pend
Taken(t, s) == <<task[t].doc, s>> \in rows

Set(t, pc) == task' = [task EXCEPT ![t].pc = pc]

\* The session is dropped: its open transaction is rolled back.
EndTask(t, pc) ==
    task' = [task EXCEPT ![t].pc = pc, ![t].todo = {}, ![t].pend = {},
                         ![t].batch = {}, ![t].broken = FALSE]

-----------------------------------------------------------------------------
(***************************************************************************)
(* The worker process dies.  Celery acknowledges a task before it runs it  *)
(* (no acks_late), so nobody runs the task again; MySQL rolls back the     *)
(* session.                                                                *)
(***************************************************************************)
WorkerCrash(t) ==
    /\ Active(t)
    /\ EndTask(t, "lost")
    /\ Fault({task[t].doc} \cap Doc)
    /\ UNCHANGED <<docs, rows, qdrant, es, esFresh, objects>>

-----------------------------------------------------------------------------
(***************************************************************************)
(* One turn of the image loop, up to the flush of the image's rows.  key   *)
(* is the MinIO key of the image.  Every exception is caught and the loop  *)
(* goes on with the next image.                                            *)
(***************************************************************************)
ImageUpload(key, stored) ==
    objects' = IF stored THEN objects \cup {key} ELSE objects

\* The image row and its chunk row are flushed.
FlushImage(t, i, key) ==
    LET d == task[t].doc IN
    /\ ~task[t].broken /\ Exists(d)
    /\ ~Taken(t, i) /\ ~HeldByOther(t, i)
    /\ task' = [task EXCEPT ![t].pc = "imgQdrant",
                            ![t].todo = @ \ {i},
                            ![t].pend = @ \cup {i},
                            ![t].batch = {i}]
    /\ \E stored \in BOOLEAN :
        ImageUpload(key, stored) /\ FaultIf(~stored, {d})

(***************************************************************************)
(* The flush raises: the document is gone (FOREIGN KEY), the rows exist or *)
(* another session holds them past the lock timeout (UNIQUE), the session  *)
(* was broken by an earlier image, or a fault.                             *)
(***************************************************************************)
FlushImageRaises(t, i, key) ==
    LET d == task[t].doc
        forced == task[t].broken \/ ~Exists(d) \/ Taken(t, i) \/ HeldByOther(t, i)
    IN
    /\ task' = [task EXCEPT ![t].todo = @ \ {i}, ![t].pend = {}, ![t].broken = TRUE]
    /\ ImageUpload(key, TRUE)
    /\ FaultIf(~forced, {d})

(***************************************************************************)
(* The image is lost before its chunk is flushed: the file cannot be read  *)
(* (no row), or its description cannot be encoded (an image row without a  *)
(* chunk).                                                                 *)
(***************************************************************************)
LoseImage(t, i, key) ==
    LET d == task[t].doc IN
    /\ ~task[t].broken
    /\ \/ /\ task' = [task EXCEPT ![t].todo = @ \ {i}]
          /\ UNCHANGED objects
       \/ /\ Exists(d) /\ ~Taken(t, i) /\ ~HeldByOther(t, i)
          /\ task' = [task EXCEPT ![t].todo = @ \ {i}, ![t].pend = @ \cup {i}]
          /\ ImageUpload(key, TRUE)
    /\ Fault({d})

ImageTurn(t, i, key) ==
    /\ task[t].pc = "images"
    /\ i \in task[t].todo
    /\ FlushImage(t, i, key) \/ FlushImageRaises(t, i, key) \/ LoseImage(t, i, key)
    /\ UNCHANGED <<docs, rows, qdrant, es, esFresh>>

\* The image's point and entry are written before its rows are committed.
ImageToQdrant(t) ==
    /\ task[t].pc = "imgQdrant"
    /\ UpsertPoints(task[t].doc, task[t].batch)
    /\ Set(t, "imgEs")
    /\ UNCHANGED <<docs, rows, es, esFresh, objects>>

ImageToEs(t) ==
    /\ task[t].pc = "imgEs"
    /\ BulkIndex(task[t].doc, task[t].batch)
    /\ task' = [task EXCEPT ![t].pc = "images", ![t].batch = {}]
    /\ UNCHANGED <<docs, rows, qdrant, objects>>

CommitRows(d, S) == rows' = rows \cup PointsOf(d, S)

-----------------------------------------------------------------------------
TasksInit == task = [t \in Task |-> IdleTask]

TasksTypeOK == task \in [Task -> TaskRecord]

=============================================================================
