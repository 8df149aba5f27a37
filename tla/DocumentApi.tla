----------------------------- MODULE DocumentApi -----------------------------
(***************************************************************************)
(* The HTTP endpoints that import and delete documents and clean orphans,  *)
(* and the two scripts that submit scanned documents.                      *)
(*                                                                         *)
(* The handlers are coroutines that call the stores without awaiting, in   *)
(* one uvicorn process: a handler runs to its end before the next one      *)
(* starts, while the Celery workers go on between its store calls.  The    *)
(* variable api is the handler that runs.                                  *)
(***************************************************************************)
EXTENDS IngestTasks

VARIABLES
    api,
    purged,     \* history: documents a clean delete has removed
    swept       \* history: documents whose points a delete or a cleanup removed

history == <<purged, swept>>
apiVars == <<api, purged, swept>>

ApiStep == {"idle",
            "delLoad", "delQdrant", "delEs", "delMinio", "delMySQL",
            "scanQdrant", "scanEs", "cleanQdrant", "cleanEs"}

ApiRecord ==
    [step: ApiStep,
     todo: SUBSET Doc,           \* document_ids of a (batch) delete not yet handled
     doc: Doc \cup {NoDoc},      \* the document being deleted
     images: SUBSET Img,         \* its image rows, as this transaction sees them
     markdown: BOOLEAN,          \* its markdown_path, as it was loaded
     clean: BOOLEAN,             \* history: every call of this delete did its work
     valid: SUBSET Doc,          \* valid_doc_ids of a cleanup
     qdrantOrphans: SUBSET Doc,
     esOrphans: SUBSET Doc]

IdleApi == [step |-> "idle", todo |-> {}, doc |-> NoDoc, images |-> {},
            markdown |-> FALSE, clean |-> FALSE, valid |-> {}, qdrantOrphans |-> {}, esOrphans |-> {}]

Idle == api.step = "idle"

Sweep(d, done) == swept' = IF done THEN swept \cup {d} ELSE swept

-----------------------------------------------------------------------------
(* Importing.                                                              *)

Submit(t, kind, f, d) ==
    task' = [task EXCEPT ![t] =
                [IdleTask EXCEPT !.pc = IF kind = "text" THEN "hash" ELSE "mineru",
                                 !.kind = kind, !.file = f, !.doc = d]]

InsertScanned(d, t, state) ==
    /\ docs[d] = FreeDoc
    /\ docs' = [docs EXCEPT ![d] = [state |-> state, scanned |-> TRUE, file |-> NoFile,
                                    task |-> t, markdown |-> FALSE, chunkCount |-> 0]]

\* import_document, text path: the task creates the record.
ImportText(t, f) ==
    /\ Idle
    /\ task[t] = IdleTask
    /\ Submit(t, "text", f, NoDoc)
    /\ UNCHANGED storeVars /\ UNCHANGED apiVars

(***************************************************************************)
(* import_document, scanned path: the record is committed, then the task   *)
(* is submitted.  If the broker cannot be reached the record stays.        *)
(***************************************************************************)
ImportScanned(t, d) ==
    /\ Idle
    /\ task[t] = IdleTask
    /\ InsertScanned(d, t, "processing")
    /\ \/ Submit(t, "scan", NoFile, d) /\ NoFault
       \/ task' = [task EXCEPT ![t].pc = "lost"] /\ Fault({d})
    /\ UNCHANGED <<rows, qdrant, es, esFresh, objects>> /\ UNCHANGED apiVars

(***************************************************************************)
(* import_scanned_pdfs.py: the record is committed, then the task is       *)
(* submitted, unless ENABLE_SCANNED_PDF is False, which is the default.    *)
(* If the broker cannot be reached the record stays.                       *)
(***************************************************************************)
ScriptImport(t, d) ==
    /\ task[t] = IdleTask
    /\ InsertScanned(d, t, "pending")
    /\ \/ Submit(t, "scan", NoFile, d) /\ NoFault
       \/ task' = [task EXCEPT ![t].pc = "skipped"] /\ NoFault
       \/ task' = [task EXCEPT ![t].pc = "lost"] /\ Fault({d})
    /\ UNCHANGED <<rows, qdrant, es, esFresh, objects>> /\ UNCHANGED apiVars

\* resubmit_pending_tasks.py: one more task, whether or not the first one is done.
ResubmitPending(t, d) ==
    /\ task[t] = IdleTask
    /\ docs[d].scanned /\ docs[d].state = "pending"
    /\ Submit(t, "scan", NoFile, d)
    /\ UNCHANGED storeVars /\ UNCHANGED apiVars

-----------------------------------------------------------------------------
(* Deleting: delete_document is a batch of one.                            *)

DeleteRequest(ds) ==
    /\ Idle
    /\ api' = [IdleApi EXCEPT !.step = "delLoad", !.todo = ds]
    /\ UNCHANGED storeVars /\ UNCHANGED <<task, history>>

NextDocument == [IdleApi EXCEPT !.step = IF api.todo = {} THEN "idle" ELSE "delLoad",
                                !.todo = api.todo]

\* Mutant: an id without a document stays in the list.
DeleteLoadKeeping(d) ==
    /\ api.step = "delLoad" /\ d \in api.todo /\ Exists(d)
    /\ api' = [api EXCEPT !.step = "delQdrant", !.todo = @ \ {d}, !.doc = d,
                          !.images = SlotsOf(rows, d) \cap Img,
                          !.markdown = docs[d].markdown]
    /\ UNCHANGED storeVars /\ UNCHANGED <<task, history>>

(***************************************************************************)
(* The record is looked up.  Its transaction reads the image rows of this  *)
(* moment (REPEATABLE READ).  The delete is clean only if no task works on *)
(* the document any more.                                                  *)
(***************************************************************************)
DeleteLoad(d) ==
    /\ api.step = "delLoad" /\ d \in api.todo
    /\ api' = IF Exists(d)
              THEN [api EXCEPT !.step = "delQdrant", !.todo = @ \ {d}, !.doc = d,
                               !.images = SlotsOf(rows, d) \cap Img,
                               !.markdown = docs[d].markdown,
                               !.clean = \A t \in Task : task[t].doc = d => ~Active(t)]
              ELSE [api EXCEPT !.step = IF api.todo = {d} THEN "idle" ELSE "delLoad",
                               !.todo = @ \ {d}]
    /\ UNCHANGED storeVars /\ UNCHANGED <<task, history>>

DeleteFromQdrant ==
    /\ api.step = "delQdrant"
    /\ \E done \in BOOLEAN :
        /\ QdrantDelete(api.doc, done)
        /\ Sweep(api.doc, done)
        /\ FaultIf(~done, {api.doc})
        /\ api' = [api EXCEPT !.step = "delEs", !.clean = @ /\ done]
    /\ UNCHANGED <<docs, rows, es, esFresh, objects, task, purged>>

\* Not clean when an entry of the document has not been refreshed yet.
DeleteFromEs ==
    /\ api.step = "delEs"
    /\ \E done \in BOOLEAN :
        /\ EsDelete(api.doc, done)
        /\ Sweep(api.doc, done)
        /\ FaultIf(~done, {api.doc})
        /\ api' = [api EXCEPT !.step = "delMinio",
                              !.clean = @ /\ done /\ SlotsOf(esFresh, api.doc) = {}]
    /\ UNCHANGED <<docs, rows, qdrant, esFresh, objects, task, purged>>

\* file_path, markdown_path and the images, as DeleteLoad read them.
ObjectsOf(d) ==
    (IF docs[d].scanned THEN {PendingPdf(d)} ELSE {TextPdf(docs[d].task)})
    \cup (IF api.markdown THEN {ScanMarkdown(d)} ELSE {})
    \cup {ImageObject(d, i) : i \in api.images}

DeleteFromMinio ==
    /\ api.step = "delMinio"
    /\ \E gone \in SUBSET ObjectsOf(api.doc) :
        /\ objects' = objects \ gone
        /\ FaultIf(gone # ObjectsOf(api.doc), {api.doc})
    /\ api' = [api EXCEPT !.step = "delMySQL"]
    /\ UNCHANGED <<docs, rows, qdrant, es, esFresh>> /\ UNCHANGED <<task, history>>

\* The rows and the record go in one commit, once no session locks the record.
DeleteFromMySQL ==
    LET d == api.doc IN
    /\ api.step = "delMySQL"
    /\ ~DocLocked(d)
    /\ rows' = rows \ PointsOf(d, Slot)
    /\ docs' = [docs EXCEPT ![d].state = "deleted"]
    /\ purged' = IF api.clean THEN purged \cup {d} ELSE purged
    /\ api' = NextDocument
    /\ UNCHANGED <<qdrant, es, esFresh, objects, faults, faulty, task, swept>>

(***************************************************************************)
(* The lock wait times out, or the commit fails: the MySQL part is rolled  *)
(* back, the other stores have already lost the document.  A batch goes on *)
(* with the next document, a single delete answers 500.                    *)
(***************************************************************************)
DeleteRolledBack ==
    LET d == api.doc IN
    /\ api.step = "delMySQL"
    /\ FaultIf(~DocLocked(d), {d})
    /\ api' = NextDocument
    /\ UNCHANGED <<docs, rows, qdrant, es, esFresh, objects>>
    /\ UNCHANGED <<task, history>>

-----------------------------------------------------------------------------
(* Cleaning orphans.                                                       *)

\* scan_orphan_data, the ids MySQL knows.
CleanupRequest ==
    /\ Idle
    /\ api' = [IdleApi EXCEPT !.step = "scanQdrant", !.valid = {d \in Doc : Exists(d)}]
    /\ UNCHANGED storeVars /\ UNCHANGED <<task, history>>

(***************************************************************************)
(* The ids found in the payloads of Qdrant.  A point of a scanned document *)
(* has no "doc_id", its id is read as "None", and int("None") abandons the *)
(* whole list; so does an error of Qdrant.                                 *)
(***************************************************************************)
ScanQdrant ==
    LET found == {d \in Doc : SlotsOf(qdrant, d) # {}} IN
    /\ api.step = "scanQdrant"
    /\ \E done \in BOOLEAN :
        /\ api' = [api EXCEPT !.step = "scanEs",
                     !.qdrantOrphans =
                        IF done /\ \A d \in found : KeyedByDocId(d) THEN found \ api.valid
                                                                    ELSE {}]
        /\ FaultIf(~done, {})
    /\ UNCHANGED <<docs, rows, qdrant, es, esFresh, objects>>
    /\ UNCHANGED <<task, history>>

\* The terms aggregation on doc_id skips the entries that have no such field.
ScanEs ==
    LET found == {d \in Doc : KeyedByDocId(d) /\ SlotsOf(es \ esFresh, d) # {}} IN
    /\ api.step = "scanEs"
    /\ \E done \in BOOLEAN :
        /\ api' = [api EXCEPT !.step = "cleanQdrant",
                              !.esOrphans = IF done THEN found \ api.valid ELSE {}]
        /\ FaultIf(~done, {})
    /\ UNCHANGED <<docs, rows, qdrant, es, esFresh, objects>>
    /\ UNCHANGED <<task, history>>

CleanQdrant(d) ==
    /\ api.step = "cleanQdrant" /\ d \in api.qdrantOrphans
    /\ \E done \in BOOLEAN : QdrantDelete(d, done) /\ Sweep(d, done) /\ FaultIf(~done, {})
    /\ api' = [api EXCEPT !.qdrantOrphans = @ \ {d}]
    /\ UNCHANGED <<docs, rows, es, esFresh, objects, task, purged>>

QdrantCleaned ==
    /\ api.step = "cleanQdrant" /\ api.qdrantOrphans = {}
    /\ api' = [api EXCEPT !.step = "cleanEs"]
    /\ UNCHANGED storeVars /\ UNCHANGED <<task, history>>

CleanEs(d) ==
    /\ api.step = "cleanEs" /\ d \in api.esOrphans
    /\ \E done \in BOOLEAN : EsDelete(d, done) /\ Sweep(d, done) /\ FaultIf(~done, {})
    /\ api' = [api EXCEPT !.esOrphans = @ \ {d}]
    /\ UNCHANGED <<docs, rows, qdrant, esFresh, objects, task, purged>>

EsCleaned ==
    /\ api.step = "cleanEs" /\ api.esOrphans = {}
    /\ api' = IdleApi
    /\ UNCHANGED storeVars /\ UNCHANGED <<task, history>>

-----------------------------------------------------------------------------
\* The uvicorn process dies in the middle of a handler.
ApiCrash ==
    /\ ~Idle
    /\ api' = IdleApi
    /\ Fault({api.doc} \cap Doc)
    /\ UNCHANGED <<docs, rows, qdrant, es, esFresh, objects>>
    /\ UNCHANGED <<task, history>>

ApiInit == api = IdleApi /\ purged = {} /\ swept = {}

ApiTypeOK == api \in ApiRecord /\ purged \in SUBSET Doc /\ swept \in SUBSET Doc

\* The steps of the handler that is running.
HandlerStep ==
    \/ \E d \in Doc : DeleteLoad(d) \/ CleanQdrant(d) \/ CleanEs(d)
    \/ DeleteFromQdrant \/ DeleteFromEs \/ DeleteFromMinio
    \/ DeleteFromMySQL \/ DeleteRolledBack
    \/ ScanQdrant \/ ScanEs \/ QdrantCleaned \/ EsCleaned

=============================================================================
