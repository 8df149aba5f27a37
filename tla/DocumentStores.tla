--------------------------- MODULE DocumentStores ---------------------------
(***************************************************************************)
(* The four stores a document is spread over, MySQL, Qdrant, Elasticsearch *)
(* and MinIO, and the calls the backend makes to them.  A call to Qdrant,  *)
(* Elasticsearch or MinIO catches its own exceptions and answers False,    *)
(* and no caller looks at the answer: a call that fails is a step that     *)
(* stores less, or deletes nothing, and lets its caller carry on.          *)
(*                                                                         *)
(* Abstraction: the content of a chunk, its vectors and its text are left  *)
(* out.  A document's image chunks and text chunks are the slots Img and   *)
(* Txt, so that a MySQL chunk row, its Qdrant point and its Elasticsearch  *)
(* entry are the same pair <<document, slot>>.  A chunk id is never used   *)
(* twice (AUTO_INCREMENT, or a UUID), so the pair identifies the point.    *)
(***************************************************************************)
EXTENDS Naturals, FiniteSets

CONSTANTS
    Doc,        \* the ids AUTO_INCREMENT hands out to documents
    Task,       \* Celery tasks
    File,       \* contents of PDF files, up to their SHA-256
    StdOf,      \* the standard number recognised in each file
    Img, Txt,   \* slots for the image chunks and the text chunks of a document
    NoDoc, NoFile, NoTask,
    MaxFaults   \* bound on the failures of one behaviour

ASSUME StoresAssumption ==
    /\ Img \cap Txt = {}
    /\ IsFiniteSet(Img)
    /\ IsFiniteSet(Txt)
    /\ NoDoc \notin Doc
    /\ NoFile \notin File
    /\ NoTask \notin Task
    /\ MaxFaults \in Nat

VARIABLES
    docs,       \* MySQL: one record per document id
    rows,       \* MySQL: committed chunk rows
    qdrant,     \* Qdrant: points
    es,         \* Elasticsearch: indexed entries
    esFresh,    \* the entries of es that no refresh has made searchable yet
    objects,    \* MinIO: keys of the stored objects
    faults,     \* failures so far (bounded by MaxFaults)
    faulty      \* history: documents that lost an item to a failure

storeVars == <<docs, rows, qdrant, es, esFresh, objects, faults, faulty>>

Slot == Img \cup Txt
Point == Doc \X Slot

(***************************************************************************)
(* "free" is an id that has not been handed out; "deleted" is one whose    *)
(* row is gone.  AUTO_INCREMENT never hands an id out twice.               *)
(***************************************************************************)
DocState == {"free", "pending", "processing", "completed", "failed", "deleted"}

DocRecord ==
    [state: DocState,
     scanned: BOOLEAN,                 \* is_scanned
     file: File \cup {NoFile},         \* file_hash, NULL on the scanned path
     task: Task \cup {NoTask},         \* the upload that file_path names
     markdown: BOOLEAN,                \* markdown_path is set
     chunkCount: Nat]                  \* chunk_count

FreeDoc == [state |-> "free", scanned |-> FALSE, file |-> NoFile,
            task |-> NoTask, markdown |-> FALSE, chunkCount |-> 0]

Exists(d) == docs[d].state \notin {"free", "deleted"}

\* The slots of document d among the pairs of S.
SlotsOf(S, d) == {s \in Slot : <<d, s>> \in S}

PointsOf(d, S) == {d} \X S

(***************************************************************************)
(* MinIO keys.  A text upload is stored under its standard number: the PDF *)
(* by the unique name of the upload, but the Markdown and the images by    *)
(* names that two documents with one standard number share.  A scanned     *)
(* document has a directory of its own.                                    *)
(***************************************************************************)
TextPdf(t) == <<"standards", "pdf", t>>
TextMarkdown(f) == <<"standards", "full.md", StdOf[f]>>
TextImage(f, i) == <<"images", StdOf[f], i>>
PendingPdf(d) == <<"scanned_pdfs", "pending", d>>
ScanPdf(d) == <<"scanned_pdfs", "original.pdf", d>>
ScanMarkdown(d) == <<"scanned_markdown", "full.md", d>>
ScanImage(d, i) == <<"scanned_images", d, i>>

ImageObject(d, i) ==
    IF docs[d].scanned THEN ScanImage(d, i) ELSE TextImage(docs[d].file, i)

Object ==
    {TextPdf(t) : t \in Task} \cup {TextMarkdown(f) : f \in File}
    \cup {TextImage(f, i) : f \in File, i \in Img}
    \cup {PendingPdf(d) : d \in Doc} \cup {ScanPdf(d) : d \in Doc}
    \cup {ScanMarkdown(d) : d \in Doc} \cup {ScanImage(d, i) : d \in Doc, i \in Img}

-----------------------------------------------------------------------------
(* Failures are counted, so that an instance has finitely many.            *)

NoFault == UNCHANGED <<faults, faulty>>

Fault(ds) ==
    /\ faults < MaxFaults
    /\ faults' = faults + 1
    /\ faulty' = faulty \cup ds

FaultIf(lost, ds) == IF lost THEN Fault(ds) ELSE NoFault

-----------------------------------------------------------------------------
(* Calls to the stores.                                                    *)

(***************************************************************************)
(* upsert_points, on behalf of document d: the batches before the one that *)
(* raises are stored.                                                      *)
(***************************************************************************)
UpsertPoints(d, S) ==
    \E stored \in SUBSET S :
        /\ qdrant' = qdrant \cup PointsOf(d, stored)
        /\ FaultIf(stored # S, {d})

\* bulk_index: an entry can be read only after the next refresh.
BulkIndex(d, S) ==
    \E stored \in SUBSET S :
        /\ es' = es \cup PointsOf(d, stored)
        /\ esFresh' = esFresh \cup PointsOf(d, stored)
        /\ FaultIf(stored # S, {d})

\* Elasticsearch refreshes its index by itself (refresh_interval).
EsRefresh ==
    /\ esFresh # {}
    /\ esFresh' = {}
    /\ UNCHANGED <<docs, rows, qdrant, es, objects, faults, faulty>>

(***************************************************************************)
(* The points that delete_by_doc_id(d) matches.  The text path stores the  *)
(* document's id under the payload key "doc_id", the scanned path under    *)
(* "document_id", and the filter looks for "doc_id".                       *)
(***************************************************************************)
KeyedByDocId(d) == ~docs[d].scanned
Matched(d) == IF KeyedByDocId(d) THEN PointsOf(d, Slot) ELSE {}

\* Mutant: the rows that MySQL still has decide whether Qdrant is called.
QdrantDeleteIfRows(d, done) ==
    IF done /\ SlotsOf(rows, d) # {} THEN qdrant' = qdrant \ Matched(d) ELSE UNCHANGED qdrant

\* VectorStore.delete_by_doc_id, which answers False when Qdrant raises.
QdrantDelete(d, done) ==
    IF done THEN qdrant' = qdrant \ Matched(d) ELSE UNCHANGED qdrant

\* Mutant: the delete reaches entries that have not been refreshed.
EsDeleteRefreshed(d, done) ==
    IF done THEN es' = es \ Matched(d) ELSE UNCHANGED es

(***************************************************************************)
(* SearchEngine.delete_by_doc_id is a delete_by_query: it sees what has    *)
(* been refreshed.                                                         *)
(***************************************************************************)
EsDelete(d, done) ==
    IF done THEN es' = es \ (Matched(d) \ esFresh) ELSE UNCHANGED es

\* upload_pdf, upload_markdown and upload_image swallow an S3Error.  Any other
\* error of the client raises and ends the task (TextRaises, ScanRaises); that
\* the PDF may be stored when it is the Markdown that raises is left out.
Upload(keys, d) ==
    \E stored \in SUBSET keys :
        /\ objects' = objects \cup stored
        /\ FaultIf(stored # keys, {d} \cap Doc)

-----------------------------------------------------------------------------
StoresInit ==
    /\ docs = [d \in Doc |-> FreeDoc]
    /\ rows = {}
    /\ qdrant = {}
    /\ es = {}
    /\ esFresh = {}
    /\ objects = {}
    /\ faults = 0
    /\ faulty = {}

StoresTypeOK ==
    /\ docs \in [Doc -> DocRecord]
    /\ rows \in SUBSET Point
    /\ qdrant \in SUBSET Point
    /\ es \in SUBSET Point
    /\ esFresh \in SUBSET es
    /\ objects \in SUBSET Object
    /\ faults \in 0..MaxFaults
    /\ faulty \in SUBSET Doc

=============================================================================
