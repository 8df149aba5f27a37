----------------------- MODULE DocumentLifecycleProofs -----------------------
(***************************************************************************)
(* Proofs about DocumentLifecycle, for any sets of documents, tasks, files *)
(* and chunks, any number of failures and any set of clients.              *)
(***************************************************************************)
EXTENDS DocumentLifecycle, FiniteSetTheorems, TLAPS

-----------------------------------------------------------------------------
(***************************************************************************)
(* The calls to the stores and the steps that the two ingestion paths      *)
(* share: what each may change, and that it keeps types.                   *)
(***************************************************************************)
AllPc == {"idle"} \cup TextPc \cup ScanPc \cup EndPc

\* Every set of slots is finite, so that its cardinality is a chunk_count.
LEMMA SlotsFinite ==
    ASSUME NEW S \in SUBSET Slot
    PROVE  Cardinality(S) \in Nat
<1>1. IsFiniteSet(Slot)
  BY StoresAssumption, FS_Union DEF Slot
<1>2. QED
  BY <1>1, FS_Subset, FS_CardinalityType

\* The points of one document and some of its slots are points.
LEMMA PointsOfType ==
    ASSUME NEW d \in Doc, NEW S \in SUBSET Slot
    PROVE  PointsOf(d, S) \subseteq Point
BY DEF PointsOf, Point

\* A counted failure keeps the types of its counters.
LEMMA FaultType ==
    ASSUME StoresTypeOK, NEW ds \in SUBSET Doc, NEW lost,
           Fault(ds) \/ NoFault \/ FaultIf(lost, ds)
    PROVE  faults' \in 0..MaxFaults /\ faulty' \in SUBSET Doc
BY StoresAssumption DEF StoresTypeOK, Fault, NoFault, FaultIf

-----------------------------------------------------------------------------
(* Calls to the stores.                                                    *)

\* upsert_points on behalf of d adds points of d only.
LEMMA UpsertPointsAdds ==
    ASSUME StoresTypeOK, NEW d \in Doc, NEW S \in SUBSET Slot, UpsertPoints(d, S)
    PROVE  /\ qdrant' \in SUBSET Point
           /\ qdrant' \subseteq qdrant \cup PointsOf(d, Slot)
           /\ faults' \in 0..MaxFaults /\ faulty' \in SUBSET Doc
<1>1. PICK stored \in SUBSET S : /\ qdrant' = qdrant \cup PointsOf(d, stored)
                                 /\ FaultIf(stored # S, {d})
  BY DEF UpsertPoints
<1>2. qdrant' \in SUBSET Point /\ qdrant' \subseteq qdrant \cup PointsOf(d, Slot)
  BY <1>1 DEF StoresTypeOK, PointsOf, Point
<1>3. QED
  BY <1>1, <1>2, FaultType

\* So does bulk_index, whose entries are all waiting for a refresh.
LEMMA BulkIndexAdds ==
    ASSUME StoresTypeOK, NEW d \in Doc, NEW S \in SUBSET Slot, BulkIndex(d, S)
    PROVE  /\ es' \in SUBSET Point
           /\ es' \subseteq es \cup PointsOf(d, Slot)
           /\ esFresh' \in SUBSET es'
           /\ faults' \in 0..MaxFaults /\ faulty' \in SUBSET Doc
<1>1. PICK stored \in SUBSET S : /\ es' = es \cup PointsOf(d, stored)
                                 /\ esFresh' = esFresh \cup PointsOf(d, stored)
                                 /\ FaultIf(stored # S, {d})
  BY DEF BulkIndex
<1>2. /\ es' \in SUBSET Point /\ es' \subseteq es \cup PointsOf(d, Slot)
      /\ esFresh' \in SUBSET es'
  BY <1>1 DEF StoresTypeOK, PointsOf, Point
<1>3. QED
  BY <1>1, <1>2, FaultType

\* Uploads add objects, whatever is stored of them.
LEMMA UploadType ==
    ASSUME StoresTypeOK, NEW keys \in SUBSET Object, NEW d, Upload(keys, d)
    PROVE  /\ objects' \in SUBSET Object
           /\ faults' \in 0..MaxFaults /\ faulty' \in SUBSET Doc
<1>1. PICK stored \in SUBSET keys : /\ objects' = objects \cup stored
                                    /\ FaultIf(stored # keys, {d} \cap Doc)
  BY DEF Upload
<1>2. objects' \in SUBSET Object
  BY <1>1 DEF StoresTypeOK
<1>3. QED
  BY <1>1, <1>2, FaultType

\* Committing rows of document d adds rows of d only.
LEMMA CommitRowsAdds ==
    ASSUME StoresTypeOK, NEW d \in Doc, NEW S \in SUBSET Slot, CommitRows(d, S)
    PROVE  rows' \in SUBSET Point /\ rows' = rows \cup PointsOf(d, S)
BY DEF StoresTypeOK, CommitRows, PointsOf, Point

-----------------------------------------------------------------------------
(* Steps of a task.                                                        *)

(***************************************************************************)
(* Task t takes a step that binds it to nothing new: it keeps its kind,    *)
(* its file and its document, and the other tasks are as they were.        *)
(***************************************************************************)
Keeps(t) ==
    /\ task' \in [Task -> TaskRecord]
    /\ \A u \in Task \ {t} : task'[u] = task[u]
    /\ task'[t].kind = task[t].kind
    /\ task'[t].file = task[t].file
    /\ task'[t].doc = task[t].doc

LEMMA SetKeeps ==
    ASSUME TasksTypeOK, NEW t \in Task, NEW pc \in AllPc, Set(t, pc)
    PROVE  Keeps(t) /\ task'[t].pc = pc /\ task'[t].pend = task[t].pend
BY DEF TasksTypeOK, TaskRecord, Set, Keeps, AllPc

\* A task that ends has lost its transaction.
LEMMA EndTaskKeeps ==
    ASSUME TasksTypeOK, NEW t \in Task, NEW pc \in EndPc, EndTask(t, pc)
    PROVE  Keeps(t) /\ task'[t].pc = pc /\ task'[t].pend = {}
<1>1. task[t] \in TaskRecord
  BY DEF TasksTypeOK
<1>2. task' = [task EXCEPT ![t] = [task[t] EXCEPT !.pc = pc, !.todo = {}, !.pend = {},
                                                 !.batch = {}, !.broken = FALSE]]
  BY <1>1 DEF EndTask, TasksTypeOK, TaskRecord
<1>3. [task[t] EXCEPT !.pc = pc, !.todo = {}, !.pend = {}, !.batch = {}, !.broken = FALSE]
        \in TaskRecord
  BY <1>1 DEF TaskRecord
<1>4. QED
  BY <1>1, <1>2, <1>3 DEF TasksTypeOK, TaskRecord, Keeps

-----------------------------------------------------------------------------
(* What a step of a task does to the stores.                               *)

(***************************************************************************)
(* Task t writes points and rows of its own document only, rows only while *)
(* that document exists, and it never holds an uncommitted row of a        *)
(* document that does not.                                                 *)
(***************************************************************************)
PendOK(t) == task[t].pend # {} => task[t].doc \in Doc /\ Exists(task[t].doc)

Writes(t) ==
    /\ StoresTypeOK'
    /\ Keeps(t)
    /\ rows' \subseteq rows \cup PointsOf(task[t].doc, Slot)
    /\ rows' \subseteq rows \/ Exists(task[t].doc)
    /\ qdrant' \subseteq qdrant \cup PointsOf(task[t].doc, Slot)
    /\ es' \subseteq es \cup PointsOf(task[t].doc, Slot)
    /\ task'[t].pend # {} => task[t].doc \in Doc /\ Exists(task[t].doc)

\* A worker that dies writes nothing.
LEMMA WorkerCrashWrites ==
    ASSUME StoresTypeOK, TasksTypeOK, NEW t \in Task, WorkerCrash(t)
    PROVE  Writes(t) /\ Active(t) /\ docs' = docs /\ task'[t].pc = "lost"
<1>1. Keeps(t) /\ task'[t].pc = "lost" /\ task'[t].pend = {}
  BY EndTaskKeeps DEF WorkerCrash, EndPc
<1>2. faults' \in 0..MaxFaults /\ faulty' \in SUBSET Doc
  BY FaultType DEF WorkerCrash
<1>3. QED
  BY <1>1, <1>2 DEF WorkerCrash, Writes, StoresTypeOK, PointsOf

(***************************************************************************)
(* One turn of the image loop, for a task with a document.                 *)
(***************************************************************************)
LEMMA FlushImageWrites ==
    ASSUME StoresTypeOK, TasksTypeOK, NEW t \in Task, NEW i \in Img, NEW key \in Object,
           task[t].doc \in Doc, PendOK(t), FlushImage(t, i, key),
           UNCHANGED <<docs, rows, qdrant, es, esFresh>>
    PROVE  Writes(t) /\ task'[t].pc = "imgQdrant"
<1>. DEFINE new == [task[t] EXCEPT !.pc = "imgQdrant", !.todo = @ \ {i},
                                   !.pend = @ \cup {i}, !.batch = {i}]
<1>1. task[t] \in TaskRecord
  BY DEF TasksTypeOK
<1>2. task' = [task EXCEPT ![t] = new]
  BY <1>1 DEF FlushImage, TasksTypeOK, TaskRecord
<1>3. new \in TaskRecord
  BY <1>1 DEF TaskRecord, ScanPc, Slot
<1>4. Keeps(t) /\ task'[t].pc = "imgQdrant"
  BY <1>1, <1>2, <1>3 DEF TasksTypeOK, TaskRecord, Keeps
<1>5. PICK stored \in BOOLEAN : ImageUpload(key, stored) /\ FaultIf(~stored, {task[t].doc})
  BY DEF FlushImage
<1>6. objects' \in SUBSET Object
  BY <1>5 DEF ImageUpload, StoresTypeOK
<1>7. faults' \in 0..MaxFaults /\ faulty' \in SUBSET Doc
  BY <1>5, FaultType
<1>8. Exists(task[t].doc)
  BY DEF FlushImage
<1>9. QED
  BY <1>4, <1>6, <1>7, <1>8 DEF Writes, StoresTypeOK, PointsOf

LEMMA FlushImageRaisesWrites ==
    ASSUME StoresTypeOK, TasksTypeOK, NEW t \in Task, NEW i \in Img, NEW key \in Object,
           task[t].doc \in Doc, FlushImageRaises(t, i, key),
           UNCHANGED <<docs, rows, qdrant, es, esFresh>>
    PROVE  Writes(t) /\ task'[t].pc = task[t].pc
<1>. DEFINE new == [task[t] EXCEPT !.todo = @ \ {i}, !.pend = {}, !.broken = TRUE]
<1>1. task[t] \in TaskRecord
  BY DEF TasksTypeOK
<1>2. task' = [task EXCEPT ![t] = new]
  BY <1>1 DEF FlushImageRaises, TasksTypeOK, TaskRecord
<1>3. new \in TaskRecord
  BY <1>1 DEF TaskRecord
<1>4. Keeps(t) /\ task'[t].pc = task[t].pc /\ task'[t].pend = {}
  BY <1>1, <1>2, <1>3 DEF TasksTypeOK, TaskRecord, Keeps
<1>5. objects' \in SUBSET Object
  BY DEF FlushImageRaises, ImageUpload, StoresTypeOK
<1>6. faults' \in 0..MaxFaults /\ faulty' \in SUBSET Doc
  BY FaultType DEF FlushImageRaises
<1>7. QED
  BY <1>4, <1>5, <1>6 DEF Writes, StoresTypeOK, PointsOf

LEMMA LoseImageWrites ==
    ASSUME StoresTypeOK, TasksTypeOK, NEW t \in Task, NEW i \in Img, NEW key \in Object,
           task[t].doc \in Doc, PendOK(t), LoseImage(t, i, key),
           UNCHANGED <<docs, rows, qdrant, es, esFresh>>
    PROVE  Writes(t) /\ task'[t].pc = task[t].pc
<1>1. task[t] \in TaskRecord
  BY DEF TasksTypeOK
<1>2. faults' \in 0..MaxFaults /\ faulty' \in SUBSET Doc
  BY FaultType DEF LoseImage
<1>3. CASE task' = [task EXCEPT ![t].todo = @ \ {i}] /\ UNCHANGED objects
  <2>1. Keeps(t) /\ task'[t].pc = task[t].pc /\ task'[t].pend = task[t].pend
    BY <1>1, <1>3 DEF TasksTypeOK, TaskRecord, Keeps
  <2>2. QED
    BY <2>1, <1>2, <1>3 DEF PendOK, Writes, StoresTypeOK, PointsOf
<1>4. CASE /\ Exists(task[t].doc)
           /\ task' = [task EXCEPT ![t].todo = @ \ {i}, ![t].pend = @ \cup {i}]
           /\ ImageUpload(key, TRUE)
  <2>. DEFINE new == [task[t] EXCEPT !.todo = @ \ {i}, !.pend = @ \cup {i}]
  <2>1. task' = [task EXCEPT ![t] = new]
    BY <1>1, <1>4 DEF TasksTypeOK, TaskRecord
  <2>2. new \in TaskRecord
    BY <1>1 DEF TaskRecord, Slot
  <2>3. Keeps(t) /\ task'[t].pc = task[t].pc
    BY <1>1, <2>1, <2>2 DEF TasksTypeOK, TaskRecord, Keeps
  <2>4. objects' \in SUBSET Object
    BY <1>4 DEF ImageUpload, StoresTypeOK
  <2>5. QED
    BY <2>3, <2>4, <1>2, <1>4 DEF Writes, StoresTypeOK, PointsOf
<1>5. QED
  BY <1>3, <1>4 DEF LoseImage

LEMMA ImageTurnWrites ==
    ASSUME StoresTypeOK, TasksTypeOK, NEW t \in Task, NEW i \in Img, NEW key \in Object,
           task[t].doc \in Doc, PendOK(t), ImageTurn(t, i, key)
    PROVE  Writes(t) /\ docs' = docs /\ task'[t].pc \in {"images", "imgQdrant"}
BY FlushImageWrites, FlushImageRaisesWrites, LoseImageWrites DEF ImageTurn

\* The image's point and entry.
LEMMA ImageToQdrantWrites ==
    ASSUME StoresTypeOK, TasksTypeOK, NEW t \in Task,
           task[t].doc \in Doc, PendOK(t), ImageToQdrant(t)
    PROVE  Writes(t) /\ docs' = docs /\ task'[t].pc = "imgEs"
<1>1. task[t].batch \in SUBSET Slot
  BY DEF TasksTypeOK, TaskRecord
<1>2. /\ qdrant' \in SUBSET Point /\ qdrant' \subseteq qdrant \cup PointsOf(task[t].doc, Slot)
      /\ faults' \in 0..MaxFaults /\ faulty' \in SUBSET Doc
  BY <1>1, UpsertPointsAdds DEF ImageToQdrant
<1>3. Keeps(t) /\ task'[t].pc = "imgEs" /\ task'[t].pend = task[t].pend
  BY SetKeeps DEF ImageToQdrant, AllPc, TextPc
<1>4. QED
  BY <1>2, <1>3 DEF ImageToQdrant, PendOK, Writes, StoresTypeOK

LEMMA ImageToEsWrites ==
    ASSUME StoresTypeOK, TasksTypeOK, NEW t \in Task,
           task[t].doc \in Doc, PendOK(t), ImageToEs(t)
    PROVE  Writes(t) /\ docs' = docs /\ task'[t].pc = "images"
<1>1. task[t] \in TaskRecord /\ task[t].batch \in SUBSET Slot
  BY DEF TasksTypeOK, TaskRecord
<1>2. /\ es' \in SUBSET Point /\ es' \subseteq es \cup PointsOf(task[t].doc, Slot)
      /\ esFresh' \in SUBSET es'
      /\ faults' \in 0..MaxFaults /\ faulty' \in SUBSET Doc
  BY <1>1, BulkIndexAdds DEF ImageToEs
<1>3. task' = [task EXCEPT ![t] = [task[t] EXCEPT !.pc = "images", !.batch = {}]]
  BY <1>1 DEF ImageToEs, TasksTypeOK, TaskRecord
<1>4. Keeps(t) /\ task'[t].pc = "images" /\ task'[t].pend = task[t].pend
  BY <1>1, <1>3 DEF TasksTypeOK, TaskRecord, Keeps, TextPc
<1>5. QED
  BY <1>2, <1>4 DEF ImageToEs, PendOK, Writes, StoresTypeOK

-----------------------------------------------------------------------------

(***************************************************************************)
(* The inductive invariant.  TaskOK says how far a task can be without a   *)
(* document, and that a document belongs to the path it was made for: a    *)
(* text document to one task, which completes it, a scanned document to    *)
(* tasks of the scanned path.                                              *)
(***************************************************************************)
Early == {"hash", "parse", "insert"}

OwnerOK(t, d) ==
    /\ docs[d].state # "free"
    /\ docs[d].scanned = IsScan(t)
    /\ IsText(t) => docs[d].task = t
    /\ IsText(t) /\ Active(t) /\ Exists(d) => docs[d].state = "processing"

TaskOK(t) ==
    /\ Active(t) /\ IsText(t) => task[t].file \in File
    /\ Active(t) /\ IsScan(t) => task[t].doc \in Doc
    /\ IsText(t) /\ task[t].pc \in Early => task[t].doc = NoDoc
    /\ IsText(t) /\ task[t].pc \in TextPc \ Early => task[t].doc \in Doc
    /\ task[t].doc \in Doc => OwnerOK(t, task[t].doc)

\* No task works on document d.
Quiet(d) == \A t \in Task : task[t].doc = d => ~Active(t)

NoPoints(d) == SlotsOf(qdrant, d) = {} /\ SlotsOf(es, d) = {}

Deleting == {"delQdrant", "delEs", "delMinio", "delMySQL"}

(***************************************************************************)
(* A delete that has been clean so far has emptied the stores it has gone  *)
(* through, and no task can fill them again.                               *)
(***************************************************************************)
ApiOK ==
    api.step \in Deleting =>
        /\ api.doc \in Doc /\ Exists(api.doc)
        /\ api.clean /\ KeyedByDocId(api.doc) =>
            /\ Quiet(api.doc)
            /\ api.step # "delQdrant" => SlotsOf(qdrant, api.doc) = {}
            /\ api.step \in {"delMinio", "delMySQL"} => SlotsOf(es, api.doc) = {}

PurgedOK ==
    \A d \in purged :
        /\ docs[d].state = "deleted"
        /\ KeyedByDocId(d) => Quiet(d) /\ NoPoints(d)

IInv ==
    /\ TypeOK
    /\ \A t \in Task : TaskOK(t)
    /\ RowsOwned
    /\ FileHashUnique
    /\ ApiOK
    /\ PurgedOK

-----------------------------------------------------------------------------
(* What a step of a worker does, whichever it is.                          *)

(***************************************************************************)
(* The documents table keeps what a document is made of.  Only the status  *)
(* of the task's own document changes, and for a text document only when   *)
(* its task is done.                                                       *)
(***************************************************************************)
StatusKept(t) ==
    \A e \in Doc :
        /\ docs'[e].scanned = docs[e].scanned
        /\ docs'[e].task = docs[e].task
        /\ docs'[e].file = docs[e].file
        /\ \/ docs'[e].state = docs[e].state
           \/ /\ e = task[t].doc /\ Exists(e)
              /\ docs'[e].state \in {"completed", "failed"}
              /\ IsText(t) => docs'[e].state = "completed" /\ task'[t].pc \in EndPc

WorkerEffect(t) ==
    /\ Active(t)
    /\ Writes(t)
    /\ StatusKept(t)
    /\ IsText(t) /\ task'[t].pc \in Early => task[t].doc = NoDoc
    /\ IsText(t) /\ task'[t].pc \in TextPc \ Early => task[t].doc \in Doc

\* What the invariant says of one task and its document.
LEMMA TaskFacts ==
    ASSUME IInv, NEW t \in Task
    PROVE  /\ StoresTypeOK /\ TasksTypeOK /\ ApiTypeOK
           /\ task[t] \in TaskRecord
           /\ PendOK(t) /\ TaskOK(t)
BY DEF IInv, TypeOK, TasksTypeOK, RowsOwned, PendOK

\* A task that fails on the text path writes nothing.
LEMMA TextFailsEffect ==
    ASSUME IInv, NEW t \in Task, Active(t), TextFails(t),
           faults' \in 0..MaxFaults /\ faulty' \in SUBSET Doc
    PROVE  WorkerEffect(t)
<1>1. Keeps(t) /\ task'[t].pc = "failed" /\ task'[t].pend = {}
  BY TaskFacts, EndTaskKeeps DEF TextFails, EndPc
<1>2. Writes(t)
  BY <1>1, TaskFacts DEF TextFails, Writes, StoresTypeOK
<1>3. QED
  BY <1>1, <1>2 DEF TextFails, WorkerEffect, StatusKept, Early, TextPc

LEMMA TextStepEffect ==
    ASSUME IInv, NEW t \in Task, TextStep(t)
    PROVE  WorkerEffect(t) \/ \E d \in Doc : InsertDocument(t, d)
<1>. /\ StoresTypeOK /\ TasksTypeOK
     /\ task[t] \in TaskRecord /\ PendOK(t) /\ TaskOK(t)
  BY TaskFacts
<1>0. UNCHANGED <<faults, faulty>> => faults' \in 0..MaxFaults /\ faulty' \in SUBSET Doc
  BY DEF StoresTypeOK
<1>1. CASE CheckFileHash(t)
  <2>1. PICK pc \in {"skipped", "parse"} : Set(t, pc)
    BY <1>1 DEF CheckFileHash
  <2>2. Keeps(t) /\ task'[t].pc = pc /\ task'[t].pend = task[t].pend
    BY <2>1, SetKeeps DEF AllPc, TextPc, EndPc
  <2>3. Writes(t)
    BY <1>1, <2>2 DEF CheckFileHash, Writes, StoresTypeOK, storeVars, PendOK
  <2>4. QED
    BY <1>1, <2>2, <2>3 DEF CheckFileHash, WorkerEffect, StatusKept, TaskOK, Early, TextPc,
                            EndPc, Active, storeVars
<1>2. CASE StoreSource(t)
  <2>1. Active(t) /\ task[t].file \in File
    BY <1>2 DEF StoreSource, Active, EndPc, TaskOK
  <2>2. {TextPdf(t), TextMarkdown(task[t].file)} \in SUBSET Object
    BY <2>1 DEF Object
  <2>3. objects' \in SUBSET Object /\ faults' \in 0..MaxFaults /\ faulty' \in SUBSET Doc
    BY <1>2, <2>2, UploadType DEF StoreSource
  <2>4. Keeps(t) /\ task'[t].pc = "insert" /\ task'[t].pend = task[t].pend
    BY <1>2, SetKeeps DEF StoreSource, AllPc, TextPc
  <2>5. Writes(t)
    BY <1>2, <2>3, <2>4 DEF StoreSource, Writes, StoresTypeOK, PendOK
  <2>6. QED
    BY <1>2, <2>1, <2>4, <2>5 DEF StoreSource, WorkerEffect, StatusKept, TaskOK, Early
<1>3. CASE InsertDuplicate(t)
  BY <1>3, <1>0, TextFailsEffect DEF InsertDuplicate, NoFault, Active, EndPc
<1>4. ASSUME NEW i \in Img, ProcessImage(t, i)
      PROVE  WorkerEffect(t)
  <2>1. task[t].pc = "images" /\ Active(t)
    BY <1>4 DEF ProcessImage, ImageTurn, Active, EndPc
  <2>2. task[t].file \in File /\ task[t].doc \in Doc
    BY <1>4, <2>1 DEF ProcessImage, TaskOK, TextPc, Early
  <2>3. TextImage(task[t].file, i) \in Object
    BY <2>2 DEF Object
  <2>4. Writes(t) /\ docs' = docs /\ task'[t].pc \in {"images", "imgQdrant"}
    BY <1>4, <2>2, <2>3, ImageTurnWrites DEF ProcessImage
  <2>5. QED
    BY <2>1, <2>2, <2>4 DEF WorkerEffect, StatusKept, Early
<1>5. CASE IndexImagePoint(t)
  <2>1. Active(t) /\ task[t].doc \in Doc
    BY <1>5 DEF IndexImagePoint, ImageToQdrant, Active, EndPc, TaskOK, TextPc, Early
  <2>2. QED
    BY <1>5, <2>1, ImageToQdrantWrites DEF IndexImagePoint, WorkerEffect, StatusKept, Early
<1>6. CASE IndexImageEntry(t)
  <2>1. Active(t) /\ task[t].doc \in Doc
    BY <1>6 DEF IndexImageEntry, ImageToEs, Active, EndPc, TaskOK, TextPc, Early
  <2>2. QED
    BY <1>6, <2>1, ImageToEsWrites DEF IndexImageEntry, WorkerEffect, StatusKept, Early
<1>7. CASE CommitImages(t)
  <2>1. Active(t) /\ task[t].doc \in Doc
    BY <1>7 DEF CommitImages, Active, EndPc, TaskOK, TextPc, Early
  <2>2. CASE TextFails(t)
    BY <1>7, <1>0, <2>1, <2>2, TextFailsEffect DEF CommitImages, NoFault
  <2>3. CASE /\ CommitRows(task[t].doc, task[t].pend)
             /\ task' = [task EXCEPT ![t].pc = "rows", ![t].pend = {}]
             /\ UNCHANGED <<docs, qdrant, es, esFresh, objects>>
    <3>1. task' = [task EXCEPT ![t] = [task[t] EXCEPT !.pc = "rows", !.pend = {}]]
      BY <2>3 DEF TasksTypeOK, TaskRecord
    <3>2. Keeps(t) /\ task'[t].pc = "rows" /\ task'[t].pend = {}
      BY <3>1 DEF TasksTypeOK, TaskRecord, Keeps, TextPc
    <3>3. /\ rows' \in SUBSET Point
          /\ rows' = rows \cup PointsOf(task[t].doc, task[t].pend)
      BY <2>1, <2>3, CommitRowsAdds DEF TaskRecord
    <3>4. Writes(t)
      BY <1>7, <2>3, <3>2, <3>3 DEF CommitImages, NoFault, Writes, StoresTypeOK, PendOK,
                                    PointsOf, TaskRecord
    <3>5. QED
      BY <2>1, <2>3, <3>2, <3>4 DEF WorkerEffect, StatusKept, Early
  <2>4. QED
    BY <1>7, <2>2, <2>3 DEF CommitImages
<1>8. CASE InsertChunks(t)
  <2>1. Active(t) /\ task[t].doc \in Doc
    BY <1>8 DEF InsertChunks, Active, EndPc, TaskOK, TextPc, Early
  <2>2. PICK inserted \in SUBSET {s \in Txt : Exists(task[t].doc) /\ ~Taken(t, s)} :
          /\ task' = [task EXCEPT ![t].pc = "qdrant", ![t].pend = inserted,
                                  ![t].batch = inserted]
          /\ FaultIf(Exists(task[t].doc) /\ inserted # Txt, {task[t].doc})
    BY <1>8 DEF InsertChunks
  <2>3. task' = [task EXCEPT ![t] = [task[t] EXCEPT !.pc = "qdrant", !.pend = inserted,
                                                    !.batch = inserted]]
    BY <2>2 DEF TasksTypeOK, TaskRecord
  <2>4. /\ Keeps(t) /\ task'[t].pc = "qdrant"
        /\ task'[t].pend # {} => Exists(task[t].doc)
    BY <2>2, <2>3 DEF TasksTypeOK, TaskRecord, Keeps, TextPc, Slot
  <2>5. faults' \in 0..MaxFaults /\ faulty' \in SUBSET Doc
    BY <2>1, <2>2, FaultType
  <2>6. Writes(t)
    BY <1>8, <2>1, <2>4, <2>5 DEF InsertChunks, Writes, StoresTypeOK
  <2>7. QED
    BY <1>8, <2>1, <2>4, <2>6 DEF InsertChunks, WorkerEffect, StatusKept, Early
<1>9. CASE UpsertChunks(t)
  <2>1. Active(t) /\ task[t].doc \in Doc /\ task[t].batch \in SUBSET Slot
    BY <1>9 DEF UpsertChunks, Active, EndPc, TaskOK, TextPc, Early, TaskRecord
  <2>2. /\ qdrant' \in SUBSET Point /\ qdrant' \subseteq qdrant \cup PointsOf(task[t].doc, Slot)
        /\ faults' \in 0..MaxFaults /\ faulty' \in SUBSET Doc
    BY <1>9, <2>1, UpsertPointsAdds DEF UpsertChunks
  <2>3. Keeps(t) /\ task'[t].pc = "es" /\ task'[t].pend = task[t].pend
    BY <1>9, SetKeeps DEF UpsertChunks, AllPc, TextPc
  <2>4. Writes(t)
    BY <1>9, <2>2, <2>3 DEF UpsertChunks, Writes, StoresTypeOK, PendOK
  <2>5. QED
    BY <1>9, <2>1, <2>3, <2>4 DEF UpsertChunks, WorkerEffect, StatusKept, Early
<1>10. CASE IndexChunks(t)
  <2>1. Active(t) /\ task[t].doc \in Doc /\ task[t].batch \in SUBSET Slot
    BY <1>10 DEF IndexChunks, Active, EndPc, TaskOK, TextPc, Early, TaskRecord
  <2>2. /\ es' \in SUBSET Point /\ es' \subseteq es \cup PointsOf(task[t].doc, Slot)
        /\ esFresh' \in SUBSET es'
        /\ faults' \in 0..MaxFaults /\ faulty' \in SUBSET Doc
    BY <1>10, <2>1, BulkIndexAdds DEF IndexChunks
  <2>3. Keeps(t) /\ task'[t].pc = "finish" /\ task'[t].pend = task[t].pend
    BY <1>10, SetKeeps DEF IndexChunks, AllPc, TextPc
  <2>4. Writes(t)
    BY <1>10, <2>2, <2>3 DEF IndexChunks, Writes, StoresTypeOK, PendOK
  <2>5. QED
    BY <1>10, <2>1, <2>3, <2>4 DEF IndexChunks, WorkerEffect, StatusKept, Early
<1>11. CASE CompleteText(t)
  <2>1. Active(t) /\ task[t].doc \in Doc
    BY <1>11 DEF CompleteText, Active, EndPc, TaskOK, TextPc, Early
  <2>2. CASE ~Exists(task[t].doc)
    BY <1>11, <1>0, <2>1, <2>2, TextFailsEffect DEF CompleteText, NoFault
  <2>3. CASE Exists(task[t].doc)
    <3>. DEFINE d == task[t].doc
                n == Cardinality(task[t].pend)
    <3>1. /\ docs' = [docs EXCEPT ![d].state = "completed", ![d].chunkCount = n]
          /\ CommitRows(d, task[t].pend)
          /\ EndTask(t, "done")
          /\ UNCHANGED <<qdrant, es, esFresh, objects, faults, faulty>>
      BY <1>11, <2>3 DEF CompleteText, NoFault
    <3>2. n \in Nat
      BY SlotsFinite DEF TaskRecord
    <3>3. docs' \in [Doc -> DocRecord] /\ StatusKept(t)
      <4>1. docs[d] \in DocRecord
        BY <2>1 DEF StoresTypeOK
      <4>2. docs' = [docs EXCEPT ![d] = [docs[d] EXCEPT !.state = "completed", !.chunkCount = n]]
        BY <2>1, <3>1, <4>1 DEF StoresTypeOK, DocRecord
      <4>3. task'[t].pc \in EndPc
        BY <3>1, EndTaskKeeps DEF EndPc
      <4>4. QED
        BY <2>1, <2>3, <3>2, <4>1, <4>2, <4>3 DEF StoresTypeOK, DocRecord, DocState, StatusKept
    <3>4. Keeps(t) /\ task'[t].pc = "done" /\ task'[t].pend = {}
      BY <3>1, EndTaskKeeps DEF EndPc
    <3>5. rows' \in SUBSET Point /\ rows' = rows \cup PointsOf(d, task[t].pend)
      BY <2>1, <3>1, CommitRowsAdds DEF TaskRecord
    <3>6. Writes(t)
      BY <2>3, <3>1, <3>3, <3>4, <3>5 DEF Writes, StoresTypeOK, PointsOf, TaskRecord
    <3>7. QED
      BY <2>1, <3>3, <3>4, <3>6 DEF WorkerEffect, Early, TextPc
  <2>4. QED
    BY <2>2, <2>3
<1>12. QED
  BY <1>1, <1>2, <1>3, <1>4, <1>5, <1>6, <1>7, <1>8, <1>9, <1>10, <1>11 DEF TextStep

\* A task of the scanned path that goes to its handler writes nothing.
LEMMA ScanFailsEffect ==
    ASSUME IInv, NEW t \in Task, IsScan(t), Active(t), ScanFails(t),
           faults' \in 0..MaxFaults /\ faulty' \in SUBSET Doc
    PROVE  WorkerEffect(t)
<1>. /\ StoresTypeOK /\ TasksTypeOK /\ task[t] \in TaskRecord
  BY TaskFacts
<1>. DEFINE new == [task[t] EXCEPT !.pc = "markFailed", !.todo = {}, !.pend = {},
                                   !.batch = {}, !.broken = FALSE]
<1>1. task' = [task EXCEPT ![t] = new]
  BY DEF ScanFails, TasksTypeOK, TaskRecord
<1>2. new \in TaskRecord
  BY DEF TaskRecord, ScanPc
<1>3. Keeps(t) /\ task'[t].pc = "markFailed" /\ task'[t].pend = {}
  BY <1>1, <1>2 DEF TasksTypeOK, TaskRecord, Keeps
<1>4. Writes(t)
  BY <1>3 DEF ScanFails, Writes, StoresTypeOK
<1>5. QED
  BY <1>4 DEF ScanFails, WorkerEffect, StatusKept, IsText, IsScan

LEMMA ScanStepEffect ==
    ASSUME IInv, NEW t \in Task, ScanStep(t)
    PROVE  WorkerEffect(t)
<1>. /\ StoresTypeOK /\ TasksTypeOK
     /\ task[t] \in TaskRecord /\ PendOK(t) /\ TaskOK(t)
  BY TaskFacts
<1>1. IsScan(t) /\ Active(t)
  BY DEF ScanStep, ParseWithMinerU, LoadDocument, ProcessScanImage, ImageTurn,
         IndexScanImagePoint, ImageToQdrant, IndexScanImageEntry, ImageToEs,
         CommitScanImages, InsertScanChunks, UpsertScanChunks, IndexScanChunks,
         CompleteScan, ReloadDocument, MarkFailed, Active, EndPc
<1>2. task[t].doc \in Doc /\ ~IsText(t) /\ task[t].batch \in SUBSET Slot
  BY <1>1 DEF TaskOK, IsText, IsScan, TaskRecord
<1>3. ASSUME Writes(t), docs' = docs
      PROVE  WorkerEffect(t)
  BY <1>1, <1>2, <1>3 DEF WorkerEffect, StatusKept
<1>4. ASSUME ScanFails(t), NoFault
      PROVE  WorkerEffect(t)
  BY <1>1, <1>4, ScanFailsEffect, FaultType
<1>5. CASE ParseWithMinerU(t)
  <2>1. Keeps(t) /\ task'[t].pend = task[t].pend
    BY <1>5, SetKeeps DEF ParseWithMinerU, AllPc, ScanPc
  <2>2. QED
    BY <1>3, <1>5, <2>1 DEF ParseWithMinerU, Writes, StoresTypeOK, storeVars, PendOK
<1>6. CASE LoadDocument(t)
  <2>1. CASE ~Exists(task[t].doc)
    BY <1>4, <1>6, <2>1 DEF LoadDocument
  <2>2. CASE Exists(task[t].doc)
    <3>1. {ScanPdf(task[t].doc), ScanMarkdown(task[t].doc)} \in SUBSET Object
      BY <1>2 DEF Object
    <3>2. objects' \in SUBSET Object /\ faults' \in 0..MaxFaults /\ faulty' \in SUBSET Doc
      BY <1>6, <2>2, <3>1, UploadType DEF LoadDocument
    <3>3. PICK images \in SUBSET Img :
            task' = [task EXCEPT ![t].pc = "images", ![t].todo = images]
      BY <1>6, <2>2 DEF LoadDocument
    <3>4. task' = [task EXCEPT ![t] = [task[t] EXCEPT !.pc = "images", !.todo = images]]
      BY <3>3 DEF TasksTypeOK, TaskRecord
    <3>5. Keeps(t) /\ task'[t].pend = task[t].pend
      BY <3>4 DEF TasksTypeOK, TaskRecord, Keeps, ScanPc
    <3>6. QED
      BY <1>3, <1>6, <2>2, <3>2, <3>5 DEF LoadDocument, Writes, StoresTypeOK, PendOK
  <2>3. QED
    BY <2>1, <2>2
<1>7. ASSUME NEW i \in Img, ProcessScanImage(t, i)
      PROVE  WorkerEffect(t)
  <2>1. ScanImage(task[t].doc, i) \in Object
    BY <1>2 DEF Object
  <2>2. QED
    BY <1>2, <1>3, <1>7, <2>1, ImageTurnWrites DEF ProcessScanImage
<1>8. CASE IndexScanImagePoint(t)
  BY <1>2, <1>3, <1>8, ImageToQdrantWrites DEF IndexScanImagePoint
<1>9. CASE IndexScanImageEntry(t)
  BY <1>2, <1>3, <1>9, ImageToEsWrites DEF IndexScanImageEntry
<1>10. CASE CommitScanImages(t)
  <2>1. CASE task[t].broken
    BY <1>4, <1>10, <2>1 DEF CommitScanImages
  <2>2. CASE ~task[t].broken
    <3>1. task' = [task EXCEPT ![t] = [task[t] EXCEPT !.pc = "rows", !.pend = {}]]
      BY <1>10, <2>2 DEF CommitScanImages, TasksTypeOK, TaskRecord
    <3>2. Keeps(t) /\ task'[t].pend = {}
      BY <3>1 DEF TasksTypeOK, TaskRecord, Keeps, ScanPc
    <3>3. /\ rows' \in SUBSET Point
          /\ rows' = rows \cup PointsOf(task[t].doc, task[t].pend)
      BY <1>2, <1>10, <2>2, CommitRowsAdds DEF CommitScanImages, TaskRecord
    <3>4. QED
      BY <1>3, <1>10, <2>2, <3>2, <3>3 DEF CommitScanImages, NoFault, Writes, StoresTypeOK,
                                           PendOK, PointsOf, TaskRecord
  <2>3. QED
    BY <2>1, <2>2
<1>11. CASE InsertScanChunks(t)
  <2>. DEFINE d == task[t].doc
  <2>1. PICK encoded \in SUBSET Txt :
          /\ IF encoded # {} /\ (~Exists(d) \/ \E s \in encoded : Taken(t, s))
             THEN ScanFails(t)
             ELSE /\ CommitRows(d, encoded)
                  /\ task' = [task EXCEPT ![t].pc = "qdrant", ![t].batch = encoded]
                  /\ UNCHANGED <<docs, qdrant, es, esFresh, objects>>
          /\ FaultIf(encoded # Txt, {d})
    BY <1>11 DEF InsertScanChunks
  <2>2. faults' \in 0..MaxFaults /\ faulty' \in SUBSET Doc
    BY <1>2, <2>1, FaultType
  <2>3. CASE ScanFails(t)
    BY <1>1, <2>2, <2>3, ScanFailsEffect
  <2>4. CASE ~ScanFails(t)
    <3>1. /\ encoded = {} \/ Exists(d)
          /\ CommitRows(d, encoded)
          /\ task' = [task EXCEPT ![t].pc = "qdrant", ![t].batch = encoded]
          /\ UNCHANGED <<docs, qdrant, es, esFresh, objects>>
      BY <2>1, <2>4
    <3>2. encoded \in SUBSET Slot
      BY DEF Slot
    <3>3. task' = [task EXCEPT ![t] = [task[t] EXCEPT !.pc = "qdrant", !.batch = encoded]]
      BY <3>1 DEF TasksTypeOK, TaskRecord
    <3>4. Keeps(t) /\ task'[t].pend = task[t].pend
      BY <3>2, <3>3 DEF TasksTypeOK, TaskRecord, Keeps, ScanPc
    <3>5. rows' \in SUBSET Point /\ rows' = rows \cup PointsOf(d, encoded)
      BY <1>2, <3>1, <3>2, CommitRowsAdds
    <3>6. Writes(t)
      BY <2>2, <3>1, <3>2, <3>4, <3>5 DEF Writes, StoresTypeOK, PendOK, PointsOf
    <3>7. QED
      BY <1>3, <3>1, <3>6
  <2>5. QED
    BY <2>3, <2>4
<1>12. CASE UpsertScanChunks(t)
  <2>1. /\ qdrant' \in SUBSET Point /\ qdrant' \subseteq qdrant \cup PointsOf(task[t].doc, Slot)
        /\ faults' \in 0..MaxFaults /\ faulty' \in SUBSET Doc
    BY <1>2, <1>12, UpsertPointsAdds DEF UpsertScanChunks
  <2>2. Keeps(t) /\ task'[t].pend = task[t].pend
    BY <1>12, SetKeeps DEF UpsertScanChunks, AllPc, ScanPc
  <2>3. QED
    BY <1>3, <1>12, <2>1, <2>2 DEF UpsertScanChunks, Writes, StoresTypeOK, PendOK
<1>13. CASE IndexScanChunks(t)
  <2>1. /\ es' \in SUBSET Point /\ es' \subseteq es \cup PointsOf(task[t].doc, Slot)
        /\ esFresh' \in SUBSET es'
        /\ faults' \in 0..MaxFaults /\ faulty' \in SUBSET Doc
    BY <1>2, <1>13, BulkIndexAdds DEF IndexScanChunks
  <2>2. Keeps(t) /\ task'[t].pend = task[t].pend
    BY <1>13, SetKeeps DEF IndexScanChunks, AllPc, ScanPc
  <2>3. QED
    BY <1>3, <1>13, <2>1, <2>2 DEF IndexScanChunks, Writes, StoresTypeOK, PendOK
<1>14. CASE CompleteScan(t)
  <2>1. CASE ~Exists(task[t].doc)
    BY <1>4, <1>14, <2>1 DEF CompleteScan
  <2>2. CASE Exists(task[t].doc)
    <3>. DEFINE d == task[t].doc
                n == Cardinality(task[t].batch)
    <3>1. /\ docs' = [docs EXCEPT ![d].state = "completed", ![d].markdown = TRUE,
                                  ![d].chunkCount = n]
          /\ task' = [task EXCEPT ![t].pc = "reload", ![t].batch = {}]
          /\ UNCHANGED <<rows, qdrant, es, esFresh, objects, faults, faulty>>
      BY <1>14, <2>2 DEF CompleteScan, NoFault
    <3>2. n \in Nat
      BY <1>2, SlotsFinite
    <3>3. docs' \in [Doc -> DocRecord] /\ StatusKept(t)
      <4>1. docs[d] \in DocRecord
        BY <1>2 DEF StoresTypeOK
      <4>2. docs' = [docs EXCEPT ![d] = [docs[d] EXCEPT !.state = "completed",
                                                        !.markdown = TRUE, !.chunkCount = n]]
        BY <1>2, <3>1, <4>1 DEF StoresTypeOK, DocRecord
      <4>3. QED
        BY <1>2, <2>2, <3>2, <4>1, <4>2 DEF StoresTypeOK, DocRecord, DocState, StatusKept
    <3>4. task' = [task EXCEPT ![t] = [task[t] EXCEPT !.pc = "reload", !.batch = {}]]
      BY <3>1 DEF TasksTypeOK, TaskRecord
    <3>5. Keeps(t) /\ task'[t].pend = task[t].pend
      BY <3>4 DEF TasksTypeOK, TaskRecord, Keeps, ScanPc
    <3>6. Writes(t)
      BY <3>1, <3>3, <3>5 DEF Writes, StoresTypeOK, PendOK
    <3>7. QED
      BY <1>1, <1>2, <3>3, <3>6 DEF WorkerEffect
  <2>3. QED
    BY <2>1, <2>2
<1>15. CASE ReloadDocument(t)
  <2>1. CASE ~Exists(task[t].doc)
    BY <1>4, <1>15, <2>1 DEF ReloadDocument
  <2>2. CASE Exists(task[t].doc)
    <3>1. Keeps(t) /\ task'[t].pend = {}
      BY <1>15, <2>2, EndTaskKeeps DEF ReloadDocument, EndPc
    <3>2. QED
      BY <1>3, <1>15, <2>2, <3>1 DEF ReloadDocument, NoFault, Writes, StoresTypeOK
  <2>3. QED
    BY <2>1, <2>2
<1>16. CASE MarkFailed(t)
  <2>1. Keeps(t) /\ task'[t].pend = {}
    BY <1>16, EndTaskKeeps DEF MarkFailed, EndPc
  <2>2. docs' \in [Doc -> DocRecord] /\ StatusKept(t)
    BY <1>2, <1>16 DEF MarkFailed, StoresTypeOK, DocRecord, DocState, StatusKept
  <2>3. Writes(t)
    BY <1>16, <2>1, <2>2 DEF MarkFailed, Writes, StoresTypeOK
  <2>4. QED
    BY <1>1, <1>2, <2>2, <2>3 DEF WorkerEffect
<1>17. QED
  BY <1>5, <1>6, <1>7, <1>8, <1>9, <1>10, <1>11, <1>12, <1>13, <1>14, <1>15, <1>16
     DEF ScanStep

\* An exception or a crash in a task.
Fails(t) == TextRaises(t) \/ ScanRaises(t) \/ MarkRaises(t) \/ WorkerCrash(t)

LEMMA FailureEffect ==
    ASSUME IInv, NEW t \in Task, Fails(t)
    PROVE  WorkerEffect(t)
<1>. /\ StoresTypeOK /\ TasksTypeOK
     /\ task[t] \in TaskRecord /\ PendOK(t) /\ TaskOK(t)
  BY TaskFacts
<1>1. CASE TextRaises(t)
  <2>1. Active(t)
    BY <1>1 DEF TextRaises, Active, EndPc
  <2>2. faults' \in 0..MaxFaults /\ faulty' \in SUBSET Doc
    BY <1>1, FaultType DEF TextRaises
  <2>3. QED
    BY <1>1, <2>1, <2>2, TextFailsEffect DEF TextRaises
<1>2. CASE ScanRaises(t)
  <2>1. Active(t) /\ IsScan(t) /\ task[t].doc \in Doc
    BY <1>2 DEF ScanRaises, Active, EndPc, TaskOK
  <2>2. faults' \in 0..MaxFaults /\ faulty' \in SUBSET Doc
    BY <1>2, <2>1, FaultType DEF ScanRaises
  <2>3. QED
    BY <1>2, <2>1, <2>2, ScanFailsEffect DEF ScanRaises
<1>3. CASE WorkerCrash(t)
  BY <1>3, WorkerCrashWrites DEF WorkerEffect, StatusKept, Early, TextPc
<1>4. CASE MarkRaises(t)
  <2>1. Active(t) /\ IsScan(t) /\ task[t].doc \in Doc
    BY <1>4 DEF MarkRaises, Active, EndPc, TaskOK
  <2>2. Keeps(t) /\ task'[t].pend = {}
    BY <1>4, EndTaskKeeps DEF MarkRaises, EndPc
  <2>3. faults' \in 0..MaxFaults /\ faulty' \in SUBSET Doc
    BY <1>4, <2>1, FaultType DEF MarkRaises
  <2>4. docs' = docs /\ UNCHANGED <<rows, qdrant, es, esFresh, objects>>
    BY <1>4 DEF MarkRaises
  <2>5. Writes(t)
    BY <2>2, <2>3, <2>4 DEF Writes, StoresTypeOK
  <2>6. QED
    BY <2>1, <2>4, <2>5 DEF WorkerEffect, StatusKept, Early, TextPc, IsScan, IsText
<1>5. QED
  BY <1>1, <1>2, <1>3, <1>4 DEF Fails

-----------------------------------------------------------------------------
(* The invariant is inductive.                                             *)

\* Initially there is no document, no task and no handler.
LEMMA InitInv == Init => IInv
<1>. SUFFICES ASSUME Init PROVE IInv
  OBVIOUS
<1>1. TypeOK
  BY StoresAssumption DEF Init, StoresInit, TasksInit, ApiInit, TypeOK, StoresTypeOK, DocRecord,
     DocState, FreeDoc, TasksTypeOK, TaskRecord, IdleTask, ApiTypeOK, ApiRecord, IdleApi, ApiStep
<1>2. ASSUME NEW t \in Task PROVE TaskOK(t)
  BY StoresAssumption DEF Init, TasksInit, IdleTask, TaskOK, Active, Early, TextPc, IsText, IsScan
<1>3. RowsOwned /\ FileHashUnique
  BY DEF Init, StoresInit, TasksInit, IdleTask, FreeDoc, RowsOwned, FileHashUnique, SlotsOf, Exists
<1>4. ApiOK /\ PurgedOK
  BY DEF Init, ApiInit, IdleApi, ApiOK, PurgedOK, Deleting
<1>5. QED
  BY <1>1, <1>2, <1>3, <1>4 DEF IInv

(***************************************************************************)
(* A worker's step.  The task is active, so its document is neither purged *)
(* nor being purged, and the points it writes are no business of a delete  *)
(* that is clean.                                                          *)
(***************************************************************************)
LEMMA WorkerPreserves ==
    ASSUME IInv, NEW t \in Task, WorkerEffect(t), UNCHANGED apiVars
    PROVE  IInv'
<1>. /\ StoresTypeOK /\ TasksTypeOK /\ ApiTypeOK
     /\ task[t] \in TaskRecord /\ PendOK(t) /\ TaskOK(t)
  BY TaskFacts
<1>. Active(t) /\ Writes(t) /\ Keeps(t) /\ StatusKept(t)
  BY DEF WorkerEffect, Writes
<1>1. \A e \in Doc : Exists(e)' <=> Exists(e)
  BY DEF StatusKept, Exists
<1>2. TypeOK'
  BY DEF Writes, Keeps, TypeOK, TasksTypeOK, ApiTypeOK, apiVars
<1>3. ASSUME NEW u \in Task PROVE TaskOK(u)'
  <2>1. TaskOK(u)
    BY DEF IInv
  <2>2. CASE u # t
    <3>1. task'[u] = task[u]
      BY <2>2 DEF Keeps
    <3>2. ASSUME task[u].doc \in Doc PROVE OwnerOK(u, task[u].doc)'
      <4>. DEFINE d == task[u].doc
      <4>1. OwnerOK(u, d)
        BY <2>1, <3>2 DEF TaskOK
      <4>2. docs'[d].state = docs[d].state
              \/ (d = task[t].doc /\ docs'[d].state \in {"completed", "failed"})
        BY <3>2 DEF StatusKept
      <4>3. IsText(u) /\ d = task[t].doc => FALSE
        BY <2>2, <3>2, <4>1 DEF TaskOK, OwnerOK, IsText, IsScan, TaskRecord
      <4>4. QED
        BY <1>1, <3>1, <3>2, <4>1, <4>2, <4>3 DEF OwnerOK, StatusKept, IsText, IsScan, Active
    <3>3. QED
      BY <2>1, <3>1, <3>2 DEF TaskOK, IsText, IsScan, Active
  <2>3. CASE u = t
    <3>1. ASSUME task[t].doc \in Doc PROVE OwnerOK(t, task[t].doc)'
      <4>1. OwnerOK(t, task[t].doc)
        BY <3>1 DEF TaskOK
      <4>2. QED
        BY <1>1, <3>1, <4>1 DEF OwnerOK, StatusKept, Keeps, IsText, IsScan, Active
    <3>2. QED
      BY <2>3, <3>1 DEF WorkerEffect, TaskOK, Keeps, IsText, IsScan
  <2>4. QED
    BY <2>2, <2>3
<1>4. RowsOwned'
  <2>1. ASSUME NEW d \in Doc, SlotsOf(rows, d)' # {} PROVE Exists(d)'
    BY <1>1, <2>1 DEF Writes, IInv, RowsOwned, SlotsOf, PointsOf
  <2>2. ASSUME NEW u \in Task, task'[u].pend # {}
        PROVE  task'[u].doc \in Doc /\ Exists(task[u].doc)'
    BY <1>1, <2>2 DEF Writes, Keeps, IInv, RowsOwned, Exists
  <2>3. QED
    BY <1>1, <2>1, <2>2 DEF RowsOwned, Writes, Keeps, Exists
<1>5. FileHashUnique'
  BY <1>1 DEF IInv, FileHashUnique, StatusKept
<1>6. ASSUME NEW d \in Doc, Quiet(d)
      PROVE  Quiet(d)' /\ d # task[t].doc
  BY <1>6 DEF Quiet, Keeps, Active
<1>7. ASSUME NEW d \in Doc, d # task[t].doc
      PROVE  /\ SlotsOf(qdrant, d) = {} => SlotsOf(qdrant, d)' = {}
             /\ SlotsOf(es, d) = {} => SlotsOf(es, d)' = {}
  BY <1>7 DEF Writes, SlotsOf, PointsOf
<1>8. \A d \in Doc : KeyedByDocId(d)' <=> KeyedByDocId(d)
  BY DEF KeyedByDocId, StatusKept
<1>9. ApiOK'
  BY <1>1, <1>6, <1>7, <1>8 DEF IInv, ApiOK, apiVars, Deleting
<1>10. PurgedOK'
  <2>1. ASSUME NEW d \in purged
        PROVE  /\ docs'[d].state = "deleted"
               /\ KeyedByDocId(d)' => Quiet(d)' /\ NoPoints(d)'
    BY <1>6, <1>7, <1>8 DEF IInv, PurgedOK, NoPoints, ApiTypeOK, StatusKept, Exists
  <2>2. QED
    BY <2>1 DEF PurgedOK, apiVars
<1>11. QED
  BY <1>2, <1>3, <1>4, <1>5, <1>9, <1>10 DEF IInv

(***************************************************************************)
(* A new document.  Its id was free: no task, row, point of a delete or    *)
(* history knows it yet.                                                   *)
(***************************************************************************)
LEMMA FreeIsUnknown ==
    ASSUME IInv, NEW d \in Doc, docs[d] = FreeDoc
    PROVE  /\ ~Exists(d) /\ d \notin purged
           /\ \A t \in Task : task[t].doc # d
           /\ api.step \in Deleting => api.doc # d
BY DEF IInv, TaskOK, OwnerOK, ApiOK, PurgedOK, Exists, FreeDoc

(***************************************************************************)
(* Task t is bound to document d, which is new, and the stores are left    *)
(* alone.                                                                  *)
(***************************************************************************)
LEMMA BindPreserves ==
    ASSUME IInv, NEW t \in Task, NEW d \in Doc, docs[d] = FreeDoc,
           StoresTypeOK', TasksTypeOK',
           Exists(d)',
           \A e \in Doc \ {d} : docs'[e] = docs[e],
           \A u \in Task \ {t} : task'[u] = task[u],
           task[t].doc = NoDoc,
           task'[t].doc = NoDoc \/ (task'[t].doc = d /\ OwnerOK(t, d)'),
           task'[t].pend = {},
           TaskOK(t)',
           \A e \in Doc \ {d} : Exists(e) => docs[e].file # docs'[d].file
                                             \/ docs'[d].file = NoFile,
           UNCHANGED <<rows, qdrant, es>>, UNCHANGED apiVars
    PROVE  IInv'
<1>. /\ StoresTypeOK /\ TasksTypeOK /\ ApiTypeOK
  BY TaskFacts
<1>. /\ ~Exists(d) /\ d \notin purged
     /\ \A u \in Task : task[u].doc # d
     /\ api.step \in Deleting => api.doc # d
  BY FreeIsUnknown
<1>1. \A e \in Doc \ {d} : Exists(e)' <=> Exists(e)
  BY DEF Exists
<1>2. TypeOK'
  BY DEF TypeOK, ApiTypeOK, apiVars
<1>3. ASSUME NEW u \in Task PROVE TaskOK(u)'
  <2>1. CASE u = t
    BY <2>1
  <2>2. CASE u # t
    <3>1. task'[u] = task[u] /\ TaskOK(u)
      BY <2>2 DEF IInv
    <3>2. task[u].doc \in Doc => docs'[task[u].doc] = docs[task[u].doc]
      OBVIOUS
    <3>3. task[u].doc \in Doc => OwnerOK(u, task[u].doc)'
      BY <3>1, <3>2 DEF TaskOK, OwnerOK, IsText, IsScan, Active, Exists
    <3>4. QED
      BY <3>1, <3>3 DEF TaskOK, IsText, IsScan, Active
  <2>3. QED
    BY <2>1, <2>2
<1>4. RowsOwned'
  BY <1>1 DEF IInv, RowsOwned, SlotsOf, Exists
<1>5. FileHashUnique'
  <2>1. ASSUME NEW e \in Doc \ {d}, Exists(e)', docs'[d].file # NoFile
        PROVE  docs'[e].file # docs'[d].file
    BY <1>1, <2>1
  <2>2. QED
    BY <1>1, <2>1 DEF IInv, FileHashUnique
<1>6. ASSUME NEW e \in Doc, e # d, Quiet(e) PROVE Quiet(e)'
  BY <1>6, StoresAssumption DEF Quiet, Active
<1>7. ApiOK'
  BY <1>1, <1>6 DEF IInv, ApiOK, apiVars, KeyedByDocId, Deleting, SlotsOf
<1>8. PurgedOK'
  <2>1. ASSUME NEW e \in purged
        PROVE  /\ docs'[e].state = "deleted"
               /\ KeyedByDocId(e)' => Quiet(e)' /\ NoPoints(e)'
    <3>1. e \in Doc /\ e # d /\ docs'[e] = docs[e]
      BY DEF ApiTypeOK
    <3>2. QED
      BY <1>6, <3>1 DEF IInv, PurgedOK, KeyedByDocId, NoPoints, SlotsOf
  <2>2. QED
    BY <2>1 DEF PurgedOK, apiVars
<1>9. QED
  BY <1>2, <1>3, <1>4, <1>5, <1>7, <1>8 DEF IInv

LEMMA InsertDocumentPreserves ==
    ASSUME IInv, NEW t \in Task, NEW d \in Doc, InsertDocument(t, d), UNCHANGED apiVars
    PROVE  IInv'
<1>. /\ StoresTypeOK /\ TasksTypeOK
     /\ task[t] \in TaskRecord /\ PendOK(t) /\ TaskOK(t)
  BY TaskFacts
<1>1. task[t].file \in File /\ task[t].doc = NoDoc /\ task[t].pend = {} /\ IsText(t)
  BY StoresAssumption DEF InsertDocument, TaskOK, Active, EndPc, Early, PendOK
<1>2. PICK images \in SUBSET Img :
        task' = [task EXCEPT ![t].pc = "images", ![t].doc = d, ![t].todo = images]
  BY DEF InsertDocument
<1>3. task' = [task EXCEPT ![t] = [task[t] EXCEPT !.pc = "images", !.doc = d, !.todo = images]]
  BY <1>2 DEF TasksTypeOK, TaskRecord
<1>4. /\ TasksTypeOK'
      /\ task'[t].pc = "images" /\ task'[t].doc = d /\ task'[t].kind = "text"
      /\ task'[t].file = task[t].file /\ task'[t].pend = {}
      /\ \A u \in Task \ {t} : task'[u] = task[u]
  BY <1>1, <1>3 DEF TasksTypeOK, TaskRecord, TextPc, IsText
<1>5. /\ docs' \in [Doc -> DocRecord]
      /\ docs'[d].state = "processing" /\ docs'[d].scanned = FALSE
      /\ docs'[d].task = t /\ docs'[d].file = task[t].file
      /\ \A e \in Doc \ {d} : docs'[e] = docs[e]
  BY <1>1 DEF InsertDocument, StoresTypeOK, DocRecord, DocState
<1>6. StoresTypeOK'
  BY <1>5 DEF InsertDocument, StoresTypeOK
<1>7. Exists(d)' /\ OwnerOK(t, d)'
  BY <1>4, <1>5 DEF OwnerOK, Exists, IsText, IsScan
<1>8. TaskOK(t)'
  BY <1>1, <1>4, <1>7 DEF TaskOK, IsText, IsScan, Early
<1>9. \A e \in Doc : Exists(e) => docs[e].file # docs'[d].file
  BY <1>5 DEF InsertDocument, DocOfFile
<1>10. QED
  BY <1>1, <1>4, <1>5, <1>6, <1>7, <1>8, <1>9, BindPreserves DEF InsertDocument

\* The record that the scanned path starts from.
LEMMA InsertScannedFacts ==
    ASSUME StoresTypeOK, NEW t \in Task, NEW d \in Doc, NEW s \in {"pending", "processing"},
           InsertScanned(d, t, s)
    PROVE  /\ docs[d] = FreeDoc
           /\ docs' \in [Doc -> DocRecord]
           /\ docs'[d].state = s /\ docs'[d].scanned = TRUE /\ docs'[d].file = NoFile
           /\ \A e \in Doc \ {d} : docs'[e] = docs[e]
BY DEF InsertScanned, StoresTypeOK, DocRecord, DocState

\* What a task is when it has just been submitted.
LEMMA SubmitFacts ==
    ASSUME TasksTypeOK, NEW t \in Task, NEW kind \in {"text", "scan"},
           NEW f \in File \cup {NoFile}, NEW d \in Doc \cup {NoDoc}, Submit(t, kind, f, d)
    PROVE  /\ TasksTypeOK'
           /\ task'[t].kind = kind /\ task'[t].file = f /\ task'[t].doc = d
           /\ task'[t].pc = IF kind = "text" THEN "hash" ELSE "mineru"
           /\ task'[t].pend = {}
           /\ \A u \in Task \ {t} : task'[u] = task[u]
BY DEF TasksTypeOK, TaskRecord, Submit, IdleTask, TextPc, ScanPc

LEMMA ScanImportPreserves ==
    ASSUME IInv, NEW t \in Task, NEW d \in Doc, ImportScanned(t, d) \/ ScriptImport(t, d)
    PROVE  IInv'
<1>. /\ StoresTypeOK /\ TasksTypeOK
  BY TaskFacts
<1>1. PICK s \in {"pending", "processing"} : InsertScanned(d, t, s)
  BY DEF ImportScanned, ScriptImport
<1>2. /\ docs[d] = FreeDoc
      /\ docs' \in [Doc -> DocRecord]
      /\ docs'[d].state = s /\ docs'[d].scanned = TRUE /\ docs'[d].file = NoFile
      /\ \A e \in Doc \ {d} : docs'[e] = docs[e]
  BY <1>1, InsertScannedFacts
<1>3. task[t].doc = NoDoc /\ UNCHANGED <<rows, qdrant, es, esFresh, objects>> /\ UNCHANGED apiVars
  BY DEF ImportScanned, ScriptImport, IdleTask
<1>4. faults' \in 0..MaxFaults /\ faulty' \in SUBSET Doc
  BY FaultType DEF ImportScanned, ScriptImport, StoresTypeOK
<1>5. StoresTypeOK' /\ Exists(d)'
  BY <1>2, <1>3, <1>4 DEF StoresTypeOK, Exists
<1>6. CASE Submit(t, "scan", NoFile, d)
  <2>1. /\ TasksTypeOK'
        /\ task'[t].kind = "scan" /\ task'[t].doc = d /\ task'[t].pend = {}
        /\ \A u \in Task \ {t} : task'[u] = task[u]
    BY <1>6, SubmitFacts
  <2>2. OwnerOK(t, d)' /\ TaskOK(t)'
    BY <1>2, <2>1 DEF OwnerOK, TaskOK, IsText, IsScan
  <2>3. QED
    BY <1>2, <1>3, <1>5, <2>1, <2>2, BindPreserves
<1>7. ASSUME NEW pc \in {"lost", "skipped"},
             task' = [task EXCEPT ![t].pc = pc], task[t] = IdleTask
      PROVE  IInv'
  <2>1. /\ TasksTypeOK'
        /\ task'[t].pc = pc /\ task'[t].doc = NoDoc /\ task'[t].pend = {}
        /\ \A u \in Task \ {t} : task'[u] = task[u]
    <3>1. task[t].pend = {} /\ task[t].doc = NoDoc
      BY <1>7 DEF IdleTask
    <3>2. Set(t, pc) /\ pc \in AllPc
      BY <1>7 DEF Set, AllPc, EndPc
    <3>3. Keeps(t) /\ task'[t].pc = pc /\ task'[t].pend = task[t].pend
      BY <3>2, SetKeeps
    <3>4. QED
      BY <3>1, <3>3 DEF Keeps, TasksTypeOK
  <2>2. TaskOK(t)'
    BY <1>7, <2>1, StoresAssumption DEF TaskOK, Active, EndPc, Early, TextPc
  <2>3. QED
    BY <1>2, <1>3, <1>5, <2>1, <2>2, BindPreserves
<1>8. QED
  BY <1>6, <1>7 DEF ImportScanned, ScriptImport

(***************************************************************************)
(* A task submitted for a document that is there already, or for none.     *)
(* The document is scanned, so that no clean delete relies on its tasks.   *)
(***************************************************************************)
LEMMA SubmitPreserves ==
    ASSUME IInv, NEW t \in Task, (\E f \in File : ImportText(t, f))
                                 \/ (\E d \in Doc : ResubmitPending(t, d))
    PROVE  IInv'
<1>. /\ StoresTypeOK /\ TasksTypeOK /\ ApiTypeOK
  BY TaskFacts
<1>1. UNCHANGED storeVars /\ UNCHANGED apiVars /\ task[t] = IdleTask
  BY DEF ImportText, ResubmitPending
<1>2. PICK kind \in {"text", "scan"}, f \in File \cup {NoFile}, d \in Doc \cup {NoDoc} :
        /\ Submit(t, kind, f, d)
        /\ kind = "text" => f \in File /\ d = NoDoc
        /\ kind = "scan" => d \in Doc /\ docs[d].scanned /\ docs[d].state = "pending"
  BY DEF ImportText, ResubmitPending
<1>3. /\ TasksTypeOK'
      /\ task'[t].kind = kind /\ task'[t].file = f /\ task'[t].doc = d
      /\ task'[t].pc = IF kind = "text" THEN "hash" ELSE "mineru"
      /\ task'[t].pend = {}
      /\ \A u \in Task \ {t} : task'[u] = task[u]
  BY <1>2, SubmitFacts
<1>4. TypeOK'
  BY <1>1, <1>3 DEF TypeOK, StoresTypeOK, ApiTypeOK, storeVars, apiVars
<1>5. ASSUME NEW u \in Task PROVE TaskOK(u)'
  <2>1. CASE u = t
    <3>1. d \in Doc => OwnerOK(t, d)'
      BY <1>1, <1>2, <1>3, StoresAssumption DEF OwnerOK, IsText, IsScan, storeVars
    <3>2. QED
      BY <1>2, <1>3, <2>1, <3>1 DEF TaskOK, IsText, IsScan, Early, TextPc
  <2>2. CASE u # t
    BY <1>1, <1>3, <2>2 DEF IInv, TaskOK, OwnerOK, IsText, IsScan, Active, Exists, storeVars
  <2>3. QED
    BY <2>1, <2>2
<1>6. RowsOwned' /\ FileHashUnique'
  BY <1>1, <1>3 DEF IInv, RowsOwned, FileHashUnique, SlotsOf, Exists, storeVars
<1>7. ASSUME NEW e \in Doc, KeyedByDocId(e), Quiet(e) PROVE Quiet(e)'
  BY <1>2, <1>3, <1>7, StoresAssumption DEF Quiet, Active, KeyedByDocId
<1>8. ApiOK' /\ PurgedOK'
  <2>1. ApiOK'
    BY <1>1, <1>7 DEF IInv, ApiOK, KeyedByDocId, Exists, SlotsOf, storeVars, apiVars, Deleting
  <2>2. ASSUME NEW e \in purged
        PROVE  docs[e].state = "deleted" /\ (KeyedByDocId(e) => Quiet(e)' /\ NoPoints(e))
    BY <1>7 DEF IInv, PurgedOK, ApiTypeOK
  <2>3. PurgedOK'
    BY <1>1, <2>2 DEF PurgedOK, KeyedByDocId, NoPoints, SlotsOf, storeVars, apiVars
  <2>4. QED
    BY <2>1, <2>3
<1>9. QED
  BY <1>4, <1>5, <1>6, <1>8 DEF IInv

-----------------------------------------------------------------------------
(* The steps of the handlers.                                              *)

(***************************************************************************)
(* A handler's step that leaves MySQL and the tasks alone, and removes     *)
(* from Qdrant and Elasticsearch at most.                                  *)
(***************************************************************************)
LEMMA ApiFrame ==
    ASSUME IInv, StoresTypeOK', ApiTypeOK', ApiOK',
           UNCHANGED <<docs, rows, task, purged>>,
           qdrant' \subseteq qdrant, es' \subseteq es
    PROVE  IInv'
<1>1. TypeOK' /\ RowsOwned' /\ FileHashUnique'
  BY DEF IInv, TypeOK, TasksTypeOK, RowsOwned, FileHashUnique, SlotsOf, Exists
<1>2. ASSUME NEW t \in Task PROVE TaskOK(t)'
  BY DEF IInv, TaskOK, OwnerOK, IsText, IsScan, Active, Exists
<1>3. ASSUME NEW d \in Doc
      PROVE  /\ Quiet(d)' <=> Quiet(d)
             /\ KeyedByDocId(d)' <=> KeyedByDocId(d)
             /\ NoPoints(d) => NoPoints(d)'
  BY DEF Quiet, Active, KeyedByDocId, NoPoints, SlotsOf
<1>4. PurgedOK'
  <2>1. purged \in SUBSET Doc
    BY DEF IInv, TypeOK, ApiTypeOK
  <2>2. QED
    BY <1>3, <2>1 DEF IInv, PurgedOK
<1>5. QED
  BY <1>1, <1>2, <1>4 DEF IInv

\* What the delete and the cleanup handlers ask of Qdrant and Elasticsearch.
LEMMA StoreDeletes ==
    ASSUME StoresTypeOK, NEW d \in Doc, NEW done \in BOOLEAN
    PROVE  /\ QdrantDelete(d, done) =>
                /\ qdrant' \subseteq qdrant
                /\ done /\ KeyedByDocId(d) => SlotsOf(qdrant, d)' = {}
           /\ EsDelete(d, done) =>
                /\ es' \subseteq es
                /\ done /\ KeyedByDocId(d) /\ SlotsOf(esFresh, d) = {}
                        => SlotsOf(es, d)' = {}
BY DEF QdrantDelete, EsDelete, Matched, KeyedByDocId, SlotsOf, PointsOf, StoresTypeOK

(***************************************************************************)
(* Elasticsearch never deletes what it has not refreshed, so that esFresh  *)
(* stays within es.                                                        *)
(***************************************************************************)
LEMMA EsDeleteType ==
    ASSUME StoresTypeOK, NEW d \in Doc, NEW done \in BOOLEAN, EsDelete(d, done),
           UNCHANGED esFresh
    PROVE  es' \in SUBSET Point /\ esFresh' \in SUBSET es'
BY DEF EsDelete, StoresTypeOK

LEMMA DeleteLoadPreserves ==
    ASSUME IInv, NEW d \in Doc, DeleteLoad(d)
    PROVE  IInv'
<1>. StoresTypeOK /\ ApiTypeOK
  BY DEF IInv, TypeOK
<1>1. UNCHANGED storeVars /\ UNCHANGED <<task, purged, swept>>
  BY DEF DeleteLoad, history
<1>2. StoresTypeOK'
  BY <1>1 DEF StoresTypeOK, storeVars
<1>3. CASE Exists(d)
  <2>. DEFINE clean == \A t \in Task : task[t].doc = d => ~Active(t)
  <2>1. api' = [api EXCEPT !.step = "delQdrant", !.todo = api.todo \ {d}, !.doc = d,
                           !.images = SlotsOf(rows, d) \cap Img,
                           !.markdown = docs[d].markdown, !.clean = clean]
    BY <1>3 DEF DeleteLoad
  <2>2. docs[d].markdown \in BOOLEAN /\ clean \in BOOLEAN
    BY DEF StoresTypeOK, DocRecord
  <2>3. SlotsOf(rows, d) \cap Img \in SUBSET Img
    OBVIOUS
  <2>. HIDE DEF clean
  <2>4. /\ ApiTypeOK'
        /\ api'.step = "delQdrant" /\ api'.doc = d /\ api'.clean = clean
    BY <1>1, <2>1, <2>2, <2>3 DEF ApiTypeOK, ApiRecord, ApiStep
  <2>5. clean => Quiet(d)'
    BY <1>1 DEF clean, Quiet, Active
  <2>6. ApiOK'
    BY <1>1, <1>3, <2>4, <2>5 DEF ApiOK, Exists, storeVars
  <2>7. QED
    BY <1>1, <1>2, <2>4, <2>6, ApiFrame DEF storeVars
<1>4. CASE ~Exists(d)
  <2>1. PICK step \in {"idle", "delLoad"} : api' = [api EXCEPT !.step = step, !.todo = api.todo \ {d}]
    BY <1>4 DEF DeleteLoad
  <2>2. ApiTypeOK' /\ ApiOK'
    BY <1>1, <2>1 DEF ApiTypeOK, ApiRecord, ApiStep, ApiOK, Deleting
  <2>3. QED
    BY <1>1, <1>2, <2>2, ApiFrame DEF storeVars
<1>5. QED
  BY <1>3, <1>4

LEMMA DeleteFromQdrantPreserves ==
    ASSUME IInv, DeleteFromQdrant
    PROVE  IInv'
<1>. StoresTypeOK /\ ApiTypeOK /\ ApiOK
  BY DEF IInv, TypeOK
<1>1. PICK done \in BOOLEAN :
        /\ QdrantDelete(api.doc, done)
        /\ Sweep(api.doc, done)
        /\ FaultIf(~done, {api.doc})
        /\ api' = [api EXCEPT !.step = "delEs", !.clean = api.clean /\ done]
  BY DEF DeleteFromQdrant
<1>2. api.doc \in Doc /\ Exists(api.doc) /\ api.step = "delQdrant"
  BY DEF DeleteFromQdrant, ApiOK, Deleting
<1>3. UNCHANGED <<docs, rows, es, esFresh, objects, task, purged>>
  BY DEF DeleteFromQdrant
<1>4. /\ qdrant' \subseteq qdrant
      /\ done /\ KeyedByDocId(api.doc) => SlotsOf(qdrant, api.doc)' = {}
  BY <1>1, <1>2, <1>3, StoreDeletes DEF SlotsOf
<1>5. faults' \in 0..MaxFaults /\ faulty' \in SUBSET Doc
  BY <1>1, <1>2, FaultType
<1>6. StoresTypeOK'
  BY <1>3, <1>4, <1>5 DEF StoresTypeOK
<1>7. /\ ApiTypeOK'
      /\ api'.step = "delEs" /\ api'.doc = api.doc /\ api'.clean = (api.clean /\ done)
  BY <1>1, <1>2, <1>3 DEF ApiTypeOK, ApiRecord, ApiStep, Sweep
<1>8. ApiOK'
  BY <1>2, <1>3, <1>4, <1>7 DEF ApiOK, Deleting, Exists, KeyedByDocId, Quiet, Active, SlotsOf
<1>9. QED
  BY <1>3, <1>4, <1>6, <1>7, <1>8, ApiFrame

LEMMA DeleteFromEsPreserves ==
    ASSUME IInv, DeleteFromEs
    PROVE  IInv'
<1>. StoresTypeOK /\ ApiTypeOK /\ ApiOK
  BY DEF IInv, TypeOK
<1>. DEFINE refreshed == SlotsOf(esFresh, api.doc) = {}
<1>1. PICK done \in BOOLEAN :
        /\ EsDelete(api.doc, done)
        /\ Sweep(api.doc, done)
        /\ FaultIf(~done, {api.doc})
        /\ api' = [api EXCEPT !.step = "delMinio", !.clean = api.clean /\ done /\ refreshed]
  BY DEF DeleteFromEs
<1>2. api.doc \in Doc /\ Exists(api.doc) /\ api.step = "delEs"
  BY DEF DeleteFromEs, ApiOK, Deleting
<1>3. UNCHANGED <<docs, rows, qdrant, esFresh, objects, task, purged>>
  BY DEF DeleteFromEs
<1>4. /\ es' \subseteq es
      /\ done /\ KeyedByDocId(api.doc) /\ refreshed => SlotsOf(es, api.doc)' = {}
  BY <1>1, <1>2, StoreDeletes
<1>5. faults' \in 0..MaxFaults /\ faulty' \in SUBSET Doc
  BY <1>1, <1>2, FaultType
<1>6. StoresTypeOK'
  BY <1>1, <1>2, <1>3, <1>5, EsDeleteType DEF StoresTypeOK
<1>. refreshed \in BOOLEAN
  OBVIOUS
<1>. HIDE DEF refreshed
<1>7. /\ ApiTypeOK'
      /\ api'.step = "delMinio" /\ api'.doc = api.doc
      /\ api'.clean = (api.clean /\ done /\ refreshed)
  BY <1>1, <1>2, <1>3 DEF ApiTypeOK, ApiRecord, ApiStep, Sweep
<1>8. ApiOK'
  BY <1>2, <1>3, <1>4, <1>7 DEF ApiOK, Deleting, Exists, KeyedByDocId, Quiet, Active, SlotsOf
<1>9. QED
  BY <1>3, <1>4, <1>6, <1>7, <1>8, ApiFrame

LEMMA DeleteFromMinioPreserves ==
    ASSUME IInv, DeleteFromMinio
    PROVE  IInv'
<1>. StoresTypeOK /\ ApiTypeOK /\ ApiOK
  BY DEF IInv, TypeOK
<1>1. PICK gone \in SUBSET ObjectsOf(api.doc) :
        objects' = objects \ gone /\ FaultIf(gone # ObjectsOf(api.doc), {api.doc})
  BY DEF DeleteFromMinio
<1>2. /\ api.doc \in Doc /\ Exists(api.doc) /\ api.step = "delMinio"
      /\ api' = [api EXCEPT !.step = "delMySQL"]
  BY DEF DeleteFromMinio, ApiOK, Deleting
<1>3. UNCHANGED <<docs, rows, qdrant, es, esFresh, task, purged, swept>>
  BY DEF DeleteFromMinio, history
<1>4. faults' \in 0..MaxFaults /\ faulty' \in SUBSET Doc
  BY <1>1, <1>2, FaultType
<1>5. StoresTypeOK'
  BY <1>1, <1>3, <1>4 DEF StoresTypeOK
<1>6. /\ ApiTypeOK'
      /\ api'.step = "delMySQL" /\ api'.doc = api.doc /\ api'.clean = api.clean
  BY <1>2, <1>3 DEF ApiTypeOK, ApiRecord, ApiStep
<1>7. ApiOK'
  BY <1>2, <1>3, <1>6 DEF ApiOK, Deleting, Exists, KeyedByDocId, Quiet, Active, SlotsOf
<1>8. QED
  BY <1>3, <1>5, <1>6, <1>7, ApiFrame

(***************************************************************************)
(* The commit that deletes the record.  No task works on the document any  *)
(* more if the delete is clean; if it is not, a task may still hold the    *)
(* id, but it has no uncommitted row (DocLocked).                          *)
(***************************************************************************)
LEMMA DeleteFromMySQLPreserves ==
    ASSUME IInv, DeleteFromMySQL
    PROVE  IInv'
<1>. /\ StoresTypeOK /\ TasksTypeOK /\ ApiTypeOK /\ ApiOK
  BY DEF IInv, TypeOK
<1>1. PICK d \in Doc : d = api.doc /\ Exists(d) /\ api.step = "delMySQL"
  BY DEF DeleteFromMySQL, ApiOK, Deleting
<1>2. /\ UNCHANGED <<qdrant, es, esFresh, objects, faults, faulty, task, swept>>
      /\ ~DocLocked(d)
      /\ rows' = rows \ PointsOf(d, Slot)
      /\ docs' = [docs EXCEPT ![d].state = "deleted"]
      /\ purged' = IF api.clean THEN purged \cup {d} ELSE purged
      /\ api' = NextDocument
  BY <1>1 DEF DeleteFromMySQL
<1>3. /\ docs' \in [Doc -> DocRecord]
      /\ docs'[d] = [docs[d] EXCEPT !.state = "deleted"]
      /\ \A e \in Doc \ {d} : docs'[e] = docs[e]
  BY <1>1, <1>2 DEF StoresTypeOK, DocRecord, DocState
<1>4. /\ docs'[d].state = "deleted" /\ docs'[d].scanned = docs[d].scanned
      /\ docs'[d].task = docs[d].task /\ docs'[d].file = docs[d].file
  BY <1>1, <1>3 DEF StoresTypeOK, DocRecord
<1>5. ~Exists(d)' /\ \A e \in Doc \ {d} : Exists(e)' <=> Exists(e)
  BY <1>3, <1>4 DEF Exists
<1>6. api' \in ApiRecord /\ api'.step \notin Deleting
  BY <1>2, StoresAssumption DEF NextDocument, IdleApi, ApiTypeOK, ApiRecord, ApiStep, Deleting
<1>7. TypeOK'
  BY <1>1, <1>2, <1>3, <1>6 DEF TypeOK, StoresTypeOK, TasksTypeOK, ApiTypeOK
<1>8. ASSUME NEW t \in Task PROVE TaskOK(t)'
  <2>1. TaskOK(t)
    BY DEF IInv
  <2>2. ASSUME task[t].doc \in Doc PROVE OwnerOK(t, task[t].doc)'
    <3>1. OwnerOK(t, task[t].doc)
      BY <2>1, <2>2 DEF TaskOK
    <3>2. CASE task[t].doc = d
      BY <1>1, <1>2, <1>4, <1>5, <3>1, <3>2 DEF OwnerOK, IsText, IsScan
    <3>3. CASE task[t].doc # d
      BY <1>2, <1>3, <1>5, <2>2, <3>1, <3>3 DEF OwnerOK, IsText, IsScan, Active
    <3>4. QED
      BY <3>2, <3>3
  <2>3. QED
    BY <1>2, <2>1, <2>2 DEF TaskOK, IsText, IsScan, Active
<1>9. RowsOwned'
  <2>1. ASSUME NEW e \in Doc, SlotsOf(rows, e)' # {} PROVE Exists(e)'
    BY <1>2, <1>5, <2>1 DEF IInv, RowsOwned, SlotsOf, PointsOf
  <2>2. ASSUME NEW t \in Task, task[t].pend # {}
        PROVE  task[t].doc \in Doc /\ Exists(task[t].doc)'
    BY <1>2, <1>5, <2>2 DEF IInv, RowsOwned, DocLocked
  <2>3. QED
    BY <1>2, <2>1, <2>2 DEF RowsOwned, Exists
<1>10. FileHashUnique'
  BY <1>3, <1>5 DEF IInv, FileHashUnique
<1>11. ApiOK'
  BY <1>6 DEF ApiOK
<1>12. PurgedOK'
  <2>1. ASSUME NEW e \in Doc
        PROVE  /\ KeyedByDocId(e)' <=> KeyedByDocId(e)
               /\ Quiet(e)' <=> Quiet(e)
               /\ NoPoints(e)' <=> NoPoints(e)
    BY <1>2, <1>3, <1>4 DEF KeyedByDocId, Quiet, Active, NoPoints, SlotsOf
  <2>2. api.clean /\ KeyedByDocId(d) => Quiet(d) /\ NoPoints(d)
    BY <1>1 DEF ApiOK, Deleting, NoPoints
  <2>3. ASSUME NEW e \in purged'
        PROVE  /\ docs'[e].state = "deleted"
               /\ KeyedByDocId(e)' => Quiet(e)' /\ NoPoints(e)'
    <3>1. CASE e = d /\ api.clean
      BY <1>1, <1>4, <2>1, <2>2, <3>1
    <3>2. CASE e \in purged
      <4>1. /\ e \in Doc
            /\ docs[e].state = "deleted"
            /\ KeyedByDocId(e) => Quiet(e) /\ NoPoints(e)
        BY <3>2 DEF IInv, PurgedOK, ApiTypeOK
      <4>2. QED
        BY <1>3, <1>4, <2>1, <4>1
    <3>3. QED
      BY <1>2, <3>1, <3>2
  <2>4. QED
    BY <2>3 DEF PurgedOK
<1>13. QED
  BY <1>7, <1>8, <1>9, <1>10, <1>11, <1>12 DEF IInv

(***************************************************************************)
(* A handler's step that leaves MySQL and the tasks alone and is not one   *)
(* of a delete that goes on.                                               *)
(***************************************************************************)
LEMMA AsideFrame ==
    ASSUME IInv, api' \in ApiRecord, api'.step \notin Deleting, swept' \in SUBSET Doc,
           UNCHANGED <<docs, rows, objects, task, purged>>,
           qdrant' \subseteq qdrant,
           es' \in SUBSET es, esFresh' \in SUBSET es',
           faults' \in 0..MaxFaults, faulty' \in SUBSET Doc
    PROVE  IInv'
<1>1. StoresTypeOK' /\ ApiTypeOK'
  BY DEF IInv, TypeOK, StoresTypeOK, ApiTypeOK
<1>2. QED
  BY <1>1, ApiFrame DEF ApiOK

LEMMA DeleteRolledBackPreserves ==
    ASSUME IInv, DeleteRolledBack
    PROVE  IInv'
<1>. StoresTypeOK /\ ApiTypeOK /\ ApiOK
  BY DEF IInv, TypeOK
<1>1. api.doc \in Doc
  BY DEF DeleteRolledBack, ApiOK, Deleting
<1>2. faults' \in 0..MaxFaults /\ faulty' \in SUBSET Doc
  BY <1>1, FaultType DEF DeleteRolledBack
<1>3. api' \in ApiRecord /\ api'.step \notin Deleting
  BY StoresAssumption
     DEF DeleteRolledBack, NextDocument, IdleApi, ApiTypeOK, ApiRecord, ApiStep, Deleting
<1>4. QED
  BY <1>2, <1>3, AsideFrame DEF DeleteRolledBack, history, StoresTypeOK, ApiTypeOK

\* A request for a delete or a cleanup, and the turns of a cleanup's loops.
LEMMA RequestPreserves ==
    ASSUME IInv, (\E ds \in SUBSET Doc \ {{}} : DeleteRequest(ds)) \/ CleanupRequest
                 \/ QdrantCleaned \/ EsCleaned
    PROVE  IInv'
<1>. StoresTypeOK /\ ApiTypeOK
  BY DEF IInv, TypeOK
<1>1. UNCHANGED storeVars /\ UNCHANGED <<task, history>>
  BY DEF DeleteRequest, CleanupRequest, QdrantCleaned, EsCleaned
<1>2. api' \in ApiRecord /\ api'.step \notin Deleting
  <2>1. CASE \E ds \in SUBSET Doc \ {{}} : DeleteRequest(ds)
    BY <2>1, StoresAssumption DEF DeleteRequest, IdleApi, ApiRecord, ApiStep, Deleting
  <2>2. CASE CleanupRequest
    BY <2>2, StoresAssumption DEF CleanupRequest, IdleApi, ApiRecord, ApiStep, Deleting
  <2>3. CASE QdrantCleaned
    BY <2>3 DEF QdrantCleaned, ApiTypeOK, ApiRecord, ApiStep, Deleting
  <2>4. CASE EsCleaned
    BY <2>4, StoresAssumption DEF EsCleaned, IdleApi, ApiRecord, ApiStep, Deleting
  <2>5. QED
    BY <2>1, <2>2, <2>3, <2>4
<1>3. QED
  BY <1>1, <1>2, AsideFrame DEF storeVars, history, StoresTypeOK, ApiTypeOK

LEMMA ScanPreserves ==
    ASSUME IInv, ScanQdrant \/ ScanEs
    PROVE  IInv'
<1>. StoresTypeOK /\ ApiTypeOK
  BY DEF IInv, TypeOK
<1>1. UNCHANGED <<docs, rows, qdrant, es, esFresh, objects>> /\ UNCHANGED <<task, history>>
  BY DEF ScanQdrant, ScanEs
<1>2. PICK done \in BOOLEAN : FaultIf(~done, {})
  BY DEF ScanQdrant, ScanEs
<1>3. faults' \in 0..MaxFaults /\ faulty' \in SUBSET Doc
  BY <1>2, FaultType
<1>4. api' \in ApiRecord /\ api'.step \notin Deleting
  <2>1. CASE ScanQdrant
    <3>1. PICK found \in SUBSET Doc :
            api' = [api EXCEPT !.step = "scanEs", !.qdrantOrphans = found]
      BY <2>1 DEF ScanQdrant
    <3>2. QED
      BY <3>1 DEF ApiTypeOK, ApiRecord, ApiStep, Deleting
  <2>2. CASE ScanEs
    <3>1. PICK found \in SUBSET Doc :
            api' = [api EXCEPT !.step = "cleanQdrant", !.esOrphans = found]
      BY <2>2 DEF ScanEs
    <3>2. QED
      BY <3>1 DEF ApiTypeOK, ApiRecord, ApiStep, Deleting
  <2>3. QED
    BY <2>1, <2>2
<1>5. QED
  BY <1>1, <1>3, <1>4, AsideFrame DEF history, StoresTypeOK, ApiTypeOK

LEMMA CleanPreserves ==
    ASSUME IInv, NEW d \in Doc, CleanQdrant(d) \/ CleanEs(d)
    PROVE  IInv'
<1>. StoresTypeOK /\ ApiTypeOK
  BY DEF IInv, TypeOK
<1>1. UNCHANGED <<docs, rows, esFresh, objects, task, purged>>
  BY DEF CleanQdrant, CleanEs
<1>2. PICK done \in BOOLEAN :
        /\ \/ QdrantDelete(d, done) /\ UNCHANGED es
           \/ EsDelete(d, done) /\ UNCHANGED qdrant
        /\ Sweep(d, done) /\ FaultIf(~done, {})
  BY DEF CleanQdrant, CleanEs
<1>3. faults' \in 0..MaxFaults /\ faulty' \in SUBSET Doc
  BY <1>2, FaultType
<1>4. qdrant' \subseteq qdrant /\ es' \in SUBSET es
  BY <1>2, StoreDeletes
<1>5. esFresh' \in SUBSET es'
  BY <1>1, <1>2, EsDeleteType DEF StoresTypeOK
<1>6. /\ api' \in ApiRecord /\ api'.step \notin Deleting
      /\ swept' \in SUBSET Doc
  BY <1>2 DEF CleanQdrant, CleanEs, Sweep, ApiTypeOK, ApiRecord, ApiStep, Deleting
<1>7. QED
  BY <1>1, <1>3, <1>4, <1>5, <1>6, AsideFrame

LEMMA ApiCrashPreserves ==
    ASSUME IInv, ApiCrash
    PROVE  IInv'
<1>. StoresTypeOK /\ ApiTypeOK
  BY DEF IInv, TypeOK
<1>1. faults' \in 0..MaxFaults /\ faulty' \in SUBSET Doc
  <2>1. {api.doc} \cap Doc \in SUBSET Doc
    OBVIOUS
  <2>2. QED
    BY <2>1, FaultType DEF ApiCrash
<1>2. api' \in ApiRecord /\ api'.step \notin Deleting
  BY StoresAssumption DEF ApiCrash, IdleApi, ApiRecord, ApiStep, Deleting
<1>3. QED
  BY <1>1, <1>2, AsideFrame DEF ApiCrash, history, StoresTypeOK, ApiTypeOK

LEMMA RefreshPreserves ==
    ASSUME IInv, Refresh
    PROVE  IInv'
<1>. StoresTypeOK /\ ApiTypeOK /\ ApiOK
  BY DEF IInv, TypeOK
<1>1. StoresTypeOK' /\ ApiTypeOK'
  BY DEF Refresh, EsRefresh, StoresTypeOK, ApiTypeOK, apiVars
<1>2. ApiOK'
  BY DEF Refresh, EsRefresh, apiVars, ApiOK, Exists, KeyedByDocId, Quiet, Active, SlotsOf, Deleting
<1>3. QED
  BY <1>1, <1>2, ApiFrame DEF Refresh, EsRefresh, apiVars

\* Every step of the system preserves the invariant.
LEMMA NextInv == IInv /\ [Next]_vars => IInv'
<1>. SUFFICES ASSUME IInv, [Next]_vars PROVE IInv'
  OBVIOUS
<1>1. CASE Request
  <2>1. CASE \E t \in Task, f \in File : ImportText(t, f)
    BY <2>1, SubmitPreserves
  <2>2. CASE \E t \in Task, d \in Doc : ImportScanned(t, d) \/ ScriptImport(t, d)
    BY <2>2, ScanImportPreserves
  <2>3. CASE \E t \in Task, d \in Doc : ResubmitPending(t, d)
    BY <2>3, SubmitPreserves
  <2>4. CASE (\E ds \in SUBSET Doc \ {{}} : DeleteRequest(ds)) \/ CleanupRequest
    BY <2>4, RequestPreserves
  <2>5. QED
    BY <1>1, <2>1, <2>2, <2>3, <2>4 DEF Request
<1>2. ASSUME NEW t \in Task, WorkerStep(t) PROVE IInv'
  <2>1. WorkerEffect(t) \/ \E d \in Doc : InsertDocument(t, d)
    BY <1>2, TextStepEffect, ScanStepEffect DEF WorkerStep
  <2>2. QED
    BY <1>2, <2>1, WorkerPreserves, InsertDocumentPreserves DEF WorkerStep
<1>3. CASE HandlerStep
  <2>1. CASE \E d \in Doc : DeleteLoad(d) \/ CleanQdrant(d) \/ CleanEs(d)
    BY <2>1, DeleteLoadPreserves, CleanPreserves
  <2>2. CASE DeleteFromQdrant \/ DeleteFromEs \/ DeleteFromMinio
    BY <2>2, DeleteFromQdrantPreserves, DeleteFromEsPreserves, DeleteFromMinioPreserves
  <2>3. CASE DeleteFromMySQL \/ DeleteRolledBack
    BY <2>3, DeleteFromMySQLPreserves, DeleteRolledBackPreserves
  <2>4. CASE ScanQdrant \/ ScanEs \/ QdrantCleaned \/ EsCleaned
    BY <2>4, ScanPreserves, RequestPreserves
  <2>5. QED
    BY <1>3, <2>1, <2>2, <2>3, <2>4 DEF HandlerStep
<1>4. CASE Failure
  <2>1. ASSUME NEW t \in Task, Fails(t), UNCHANGED apiVars
        PROVE  IInv'
    BY <2>1, FailureEffect, WorkerPreserves
  <2>2. QED
    BY <1>4, <2>1, ApiCrashPreserves DEF Failure, Fails
<1>5. CASE Refresh
  BY <1>5, RefreshPreserves
<1>6. CASE UNCHANGED vars
  <2>1. UNCHANGED storeVars /\ UNCHANGED <<task, apiVars>>
    BY <1>6 DEF vars
  <2>2. StoresTypeOK' /\ ApiTypeOK'
    BY <2>1 DEF IInv, TypeOK, StoresTypeOK, ApiTypeOK, storeVars, apiVars
  <2>3. ApiOK'
    BY <2>1 DEF IInv, ApiOK, Exists, KeyedByDocId, Quiet, Active, SlotsOf, Deleting,
                storeVars, apiVars
  <2>4. QED
    BY <2>1, <2>2, <2>3, ApiFrame DEF storeVars, apiVars
<1>7. QED
  BY <1>1, <1>2, <1>3, <1>4, <1>5, <1>6 DEF Next

-----------------------------------------------------------------------------
(* Theorems.                                                               *)

\* The inductive invariant holds in every reachable state of the system.
THEOREM Invariance == Spec => []IInv
<1>1. Init => IInv
  BY InitInv
<1>2. IInv /\ [Next]_vars => IInv'
  BY NextInv
<1>3. QED
  BY <1>1, <1>2, PTL DEF Spec

(***************************************************************************)
(* The four stores, the tasks and the running handler always have the      *)
(* shape the code gives them.                                              *)
(***************************************************************************)
THEOREM TypeCorrect == Spec => []TypeOK
<1>1. IInv => TypeOK
  BY DEF IInv
<1>2. QED
  BY <1>1, Invariance, PTL

(***************************************************************************)
(* However the workers, the delete handler and the failures interleave, a  *)
(* chunk row never outlives its document, and no session holds rows of a   *)
(* document that is gone (documents.py and the two pipelines).             *)
(***************************************************************************)
THEOREM RowsAreOwned == Spec => []RowsOwned
<1>1. IInv => RowsOwned
  BY DEF IInv
<1>2. QED
  BY <1>1, Invariance, PTL

(***************************************************************************)
(* Any number of tasks that import the same PDF at once create at most one *)
(* document of it (ingest_document steps 0.5 and 6).                       *)
(***************************************************************************)
THEOREM FilesAreUnique == Spec => []FileHashUnique
<1>1. IInv => FileHashUnique
  BY DEF IInv
<1>2. QED
  BY <1>1, Invariance, PTL

(***************************************************************************)
(* A text document whose delete went through cleanly stays out of Qdrant   *)
(* and Elasticsearch for ever: no task writes its points afterwards.       *)
(***************************************************************************)
THEOREM PurgedStays == Spec => []PurgedStaysPurged
<1>1. IInv => PurgedStaysPurged
  BY DEF IInv, PurgedOK, NoPoints, PurgedStaysPurged
<1>2. QED
  BY <1>1, Invariance, PTL

-----------------------------------------------------------------------------
(***************************************************************************)
(* Rows and points: a second inductive invariant, on top of the first.     *)
(* For a document d it relates the rows R, the points Q and the entries E  *)
(* of d to what each of its tasks is doing.  Shape is what a task holds at *)
(* each step, whatever else happens.                                       *)
(***************************************************************************)
ImagePc == {"images", "imgQdrant", "imgEs"}
ChunkPc == {"qdrant", "es", "finish"}
Before == {"mineru", "load"} \cup ImagePc

Shape(q) ==
    /\ q.pc \notin ImagePc \cup ChunkPc => q.pend = {} /\ q.batch = {}
    /\ q.pc \in ImagePc => q.pend \subseteq Img /\ q.batch \subseteq q.pend
    /\ q.pc = "images" => q.batch = {}
    /\ q.broken => q.pc = "images"
    /\ q.pc \in ChunkPc => /\ q.batch \subseteq Txt
                           /\ q.pend = IF q.kind = "text" THEN q.batch ELSE {}

(***************************************************************************)
(* What holds of document d when t is its only task: no row before the     *)
(* first commit, the batch as its chunk rows after the second one of the   *)
(* scanned path, and no completion before the end, which counts the chunk  *)
(* rows.  Unless d met a failure, its points are points of its rows or of  *)
(* those t is about to commit.                                             *)
(***************************************************************************)
SoleFits(t, d) ==
    LET q == task[t]
        R == SlotsOf(rows, d)
    IN  /\ q.pc \in Before => R = {}
        /\ q.pc = "rows" \/ (q.kind = "text" /\ q.pc \in ChunkPc) => R \cap Txt = {}
        /\ q.kind = "scan" /\ q.pc \in ChunkPc /\ Exists(d) => R \cap Txt = q.batch
        /\ q.pc \in Before \cup {"rows"} \cup ChunkPc => docs[d].state # "completed"
        /\ docs[d].state = "completed" => docs[d].chunkCount = Cardinality(R \cap Txt)
        /\ Exists(d) /\ d \notin faulty =>
               ~q.broken /\ SlotsOf(qdrant, d) \cup SlotsOf(es, d) \subseteq R \cup q.pend

\* The slots of d that are in both indexes.
Indexes(d) == SlotsOf(qdrant, d) \cap SlotsOf(es, d)

(***************************************************************************)
(* What holds of each task t of a document d that lost nothing: the rows   *)
(* it has flushed are indexed, except those of its batch, which it is      *)
(* about to index; on the scanned path the batch is every chunk.           *)
(***************************************************************************)
TaskIndexed(t, d) ==
    LET q == task[t]
    IN  /\ q.pc \in ImagePc => q.pend \ q.batch \subseteq Indexes(d)
        /\ q.pc \in {"imgEs", "es"} => q.batch \subseteq SlotsOf(qdrant, d)
        /\ q.pc = "finish" => q.batch \subseteq Indexes(d)
        /\ q.kind = "scan" /\ q.pc \in ChunkPc =>
               q.batch = Txt /\ (Exists(d) => Txt \subseteq SlotsOf(rows, d))

\* t is a task of the scanned path on d that has committed its chunk rows.
Chunking(t, d) == task[t].doc = d /\ task[t].kind = "scan" /\ task[t].pc \in ChunkPc

(***************************************************************************)
(* And of the document itself: only chunk rows that such a task is still   *)
(* indexing are not indexed, there is one such task at a time, and none    *)
(* once the document is completed.                                         *)
(***************************************************************************)
RowsIndexed(d) ==
    LET R == SlotsOf(rows, d)
    IN  /\ R \cap Img \subseteq Indexes(d)
        /\ \/ R \cap Txt \subseteq Indexes(d)
           \/ \E t \in Task : Chunking(t, d) /\ task[t].pc # "finish"
        /\ Txt # {} => \A t, u \in Task : Chunking(t, d) /\ Chunking(u, d) => t = u
        /\ docs[d].scanned /\ docs[d].state = "completed" /\ Txt # {} =>
               Txt \subseteq R /\ \A t \in Task : ~Chunking(t, d)

\* Nothing of d was lost, and no delete or cleanup has touched its points.
Lossless(d) == d \notin faulty \cup swept

\* A document without a task was never submitted, or its submission failed.
Tasked(d) ==
    Exists(d) => \/ \E t \in Task : task[t].doc = d
                 \/ /\ docs[d].state \in {"pending", "processing"}
                    /\ SlotsOf(rows, d) = {} /\ NoPoints(d)

Ledger(d) ==
    /\ Tasked(d)
    /\ docs[d].state = "free" => NoPoints(d)
    /\ \A t \in Task : task[t].doc = d =>
           /\ SoleTask(d) => SoleFits(t, d)
           /\ Lossless(d) => TaskIndexed(t, d)
    /\ Lossless(d) => RowsIndexed(d)

LInv == /\ \A t \in Task : Shape(task[t])
        /\ \A d \in Doc : Ledger(d)

(***************************************************************************)
(* A step that a document does not notice: its record, its rows and its    *)
(* points stay, and so do its tasks.                                       *)
(***************************************************************************)
SameSlots(d) ==
    /\ SlotsOf(rows, d)' = SlotsOf(rows, d)
    /\ SlotsOf(qdrant, d)' = SlotsOf(qdrant, d)
    /\ SlotsOf(es, d)' = SlotsOf(es, d)

Unnoticed(d) ==
    /\ docs'[d] = docs[d]
    /\ SameSlots(d)
    /\ faulty \subseteq faulty' /\ swept \subseteq swept'
    /\ \A t \in Task : (task[t].doc = d \/ task'[t].doc = d) => task'[t] = task[t]

LEMMA LedgerFrame ==
    ASSUME NEW d \in Doc, Ledger(d), Unnoticed(d)
    PROVE  Ledger(d)'
<1>1. \A t \in Task : /\ task'[t].doc = d <=> task[t].doc = d
                      /\ task[t].doc = d => task'[t] = task[t]
                      /\ Chunking(t, d)' <=> Chunking(t, d)
                      /\ Chunking(t, d) => task'[t].pc = task[t].pc
  BY DEF Unnoticed, Chunking
<1>2. Tasked(d)' /\ (docs'[d].state = "free" => NoPoints(d)')
  BY <1>1 DEF Ledger, Unnoticed, SameSlots, Tasked, Exists, NoPoints
<1>3. SoleTask(d)' <=> SoleTask(d)
  BY <1>1 DEF SoleTask
<1>4. Lossless(d)' => Lossless(d)
  BY DEF Lossless, Unnoticed
<1>5. Indexes(d)' = Indexes(d)
  BY DEF Unnoticed, SameSlots, Indexes
<1>6. ASSUME NEW t \in Task, task'[t].doc = d
      PROVE  /\ SoleTask(d)' => SoleFits(t, d)'
             /\ Lossless(d)' => TaskIndexed(t, d)'
  <2>1. task[t].doc = d /\ task'[t] = task[t]
    BY <1>1, <1>6
  <2>2. SoleFits(t, d) => SoleFits(t, d)'
    BY <2>1 DEF SoleFits, Unnoticed, SameSlots, Exists
  <2>3. TaskIndexed(t, d) => TaskIndexed(t, d)'
    BY <1>5, <2>1 DEF TaskIndexed, Unnoticed, SameSlots, Exists
  <2>4. QED
    BY <1>3, <1>4, <2>1, <2>2, <2>3 DEF Ledger
<1>7. RowsIndexed(d) => RowsIndexed(d)'
  BY <1>1, <1>5 DEF RowsIndexed, Unnoticed, SameSlots
<1>8. QED
  BY <1>2, <1>4, <1>6, <1>7 DEF Ledger

(***************************************************************************)
(* Task t, which works on document d, goes on to q.  What is left to prove *)
(* of such a step is what it does to the document when t is its only task, *)
(* and to the index when nothing was lost.                                 *)
(***************************************************************************)
OwnStep(t, d, q) ==
    /\ task[t].doc = d /\ q.doc = d /\ q.kind = task[t].kind
    /\ task' = [task EXCEPT ![t] = q]
    /\ Shape(q)
    /\ docs'[d].scanned = docs[d].scanned /\ docs'[d].state # "free"
    /\ Exists(d)' <=> Exists(d)
    /\ \A e \in Doc \ {d} : docs'[e] = docs[e] /\ SameSlots(e)
    /\ SlotsOf(rows, d) \subseteq SlotsOf(rows, d)'
    /\ SlotsOf(qdrant, d) \subseteq SlotsOf(qdrant, d)'
    /\ SlotsOf(es, d) \subseteq SlotsOf(es, d)'
    /\ faulty \subseteq faulty' /\ swept' = swept

LEMMA OwnStepTasks ==
    ASSUME IInv, NEW t \in Task, NEW d, NEW q, OwnStep(t, d, q)
    PROVE  /\ task'[t] = q /\ task'[t].doc = d /\ task[t].doc = d
           /\ \A u \in Task \ {t} : task'[u] = task[u]
           /\ \A u \in Task : task'[u].doc = task[u].doc
BY TaskFacts DEF OwnStep, TasksTypeOK

(***************************************************************************)
(* The rows stay indexed unless t commits chunk rows (InsertScanChunks),   *)
(* has indexed them (IndexScanChunks) or completes d (CompleteScan).       *)
(***************************************************************************)
ChunksAside(t, d) ==
    /\ Chunking(t, d)' => Chunking(t, d)
    /\ Chunking(t, d) /\ task[t].pc # "finish" => Chunking(t, d)' /\ task'[t].pc # "finish"
    /\ docs[d].scanned /\ docs'[d].state = "completed" => docs[d].state = "completed"
    /\ SlotsOf(rows, d)' \ SlotsOf(rows, d) \subseteq Indexes(d)'

LEMMA RowsStayIndexed ==
    ASSUME IInv, NEW t \in Task, NEW d \in Doc, NEW q, OwnStep(t, d, q), RowsIndexed(d),
           ChunksAside(t, d)
    PROVE  RowsIndexed(d)'
<1>1. \A u \in Task \ {t} : task'[u] = task[u]
  BY OwnStepTasks
<1>2. Indexes(d) \subseteq Indexes(d)'
  BY DEF OwnStep, Indexes
<1>3. \A u \in Task : /\ Chunking(u, d)' => Chunking(u, d)
                      /\ Chunking(u, d) /\ task[u].pc # "finish"
                           => Chunking(u, d)' /\ task'[u].pc # "finish"
  BY <1>1 DEF Chunking, ChunksAside
<1>4. QED
  BY <1>2, <1>3 DEF RowsIndexed, OwnStep, ChunksAside

SoleGoesOn(t, d) == SoleTask(d) /\ SoleFits(t, d) => SoleFits(t, d)'

IndexGoesOn(t, d) ==
    Lossless(d)' /\ RowsIndexed(d) /\ (\A u \in Task : task[u].doc = d => TaskIndexed(u, d))
        => TaskIndexed(t, d)' /\ RowsIndexed(d)'

LEMMA OwnStepPreserves ==
    ASSUME IInv, LInv, NEW t \in Task, NEW d \in Doc, NEW q, OwnStep(t, d, q),
           SoleGoesOn(t, d), IndexGoesOn(t, d)
    PROVE  LInv'
<1>. Ledger(d)
  BY DEF LInv
<1>1. /\ task'[t] = q /\ task'[t].doc = d /\ task[t].doc = d
      /\ \A u \in Task \ {t} : task'[u] = task[u]
      /\ \A u \in Task : task'[u].doc = task[u].doc
  BY OwnStepTasks
<1>2. ASSUME NEW u \in Task PROVE Shape(task'[u])
  BY <1>1 DEF LInv, OwnStep
<1>3. ASSUME NEW e \in Doc \ {d} PROVE Ledger(e)'
  <2>1. Ledger(e) /\ Unnoticed(e)
    BY <1>1 DEF LInv, Unnoticed, OwnStep
  <2>2. QED
    BY <2>1, LedgerFrame
<1>4. SoleTask(d)' => SoleTask(d)
  BY <1>1 DEF SoleTask
<1>5. Tasked(d)'
  BY <1>1 DEF Tasked
<1>6. Lossless(d)' => Lossless(d)
  BY DEF Lossless, OwnStep
<1>7. Lossless(d)' => TaskIndexed(t, d)' /\ RowsIndexed(d)'
  BY <1>6 DEF Ledger, IndexGoesOn
<1>8. ASSUME NEW u \in Task, task'[u].doc = d
      PROVE  /\ SoleTask(d)' => SoleFits(u, d)'
             /\ Lossless(d)' => TaskIndexed(u, d)'
  <2>1. CASE u = t
    BY <1>1, <1>4, <1>7, <2>1 DEF Ledger, SoleGoesOn
  <2>2. CASE u # t
    <3>1. task'[u] = task[u] /\ task[u].doc = d
      BY <1>1, <1>8, <2>2
    <3>2. ~SoleTask(d)'
      BY <1>1, <1>8, <2>2 DEF SoleTask
    <3>3. TaskIndexed(u, d) => TaskIndexed(u, d)'
      BY <3>1 DEF TaskIndexed, Indexes, OwnStep
    <3>4. QED
      BY <1>6, <3>1, <3>2, <3>3 DEF Ledger
  <2>3. QED
    BY <2>1, <2>2
<1>9. Ledger(d)'
  BY <1>5, <1>7, <1>8 DEF Ledger, OwnStep
<1>10. QED
  BY <1>2, <1>3, <1>9 DEF LInv

\* What the two invariants say of a task.
LEMMA LedgerFacts ==
    ASSUME IInv, LInv, NEW t \in Task
    PROVE  /\ StoresTypeOK /\ TasksTypeOK
           /\ task[t] \in TaskRecord /\ TaskOK(t) /\ PendOK(t) /\ Shape(task[t])
           /\ Img \cap Txt = {}
BY TaskFacts, StoresAssumption DEF LInv

\* Losses are never taken back.
LEMMA FaultyGrows ==
    ASSUME NEW ds, NEW lost, Fault(ds) \/ NoFault \/ FaultIf(lost, ds)
    PROVE  /\ faulty \subseteq faulty'
           /\ Fault(ds) \/ (FaultIf(lost, ds) /\ lost) => ds \subseteq faulty'
BY DEF Fault, NoFault, FaultIf

\* The slots of every document when the three stores are left alone.
LEMMA SlotsSame ==
    ASSUME UNCHANGED <<rows, qdrant, es>>
    PROVE  \A d : SameSlots(d) /\ Indexes(d)' = Indexes(d)
BY DEF SameSlots, SlotsOf, Indexes

\* A task without a document goes on: no document notices.
LEMMA BareStep ==
    ASSUME IInv, LInv, NEW t \in Task, NEW q, task' = [task EXCEPT ![t] = q],
           task[t].doc \notin Doc, q.doc \notin Doc, Shape(q),
           UNCHANGED <<docs, rows, qdrant, es, swept>>, faulty \subseteq faulty'
    PROVE  LInv'
<1>1. task'[t] = q /\ \A u \in Task \ {t} : task'[u] = task[u]
  BY TaskFacts DEF TasksTypeOK
<1>2. ASSUME NEW d \in Doc PROVE Ledger(d)'
  <2>1. Unnoticed(d)
    BY <1>1, SlotsSame DEF Unnoticed
  <2>2. QED
    BY <2>1, LedgerFrame DEF LInv
<1>3. \A u \in Task : Shape(task'[u])
  BY <1>1 DEF LInv
<1>4. QED
  BY <1>2, <1>3 DEF LInv

(***************************************************************************)
(* A task leaves the path, because it is over, raises or crashes.  If it   *)
(* drops rows it had flushed, a failure is recorded, the document is gone, *)
(* or the session had been broken before.                                  *)
(***************************************************************************)
LEMMA LeavePreserves ==
    ASSUME IInv, LInv, NEW t \in Task, NEW q, task' = [task EXCEPT ![t] = q],
           q.doc = task[t].doc, q.kind = task[t].kind, q.pc \in EndPc \cup {"markFailed"},
           q.pend = {}, q.batch = {}, ~q.broken,
           UNCHANGED <<docs, rows, qdrant, es, swept>>, faulty \subseteq faulty',
           task[t].doc \in Doc =>
               \/ task[t].doc \in faulty'
               \/ /\ task[t].pc \notin {"qdrant", "es"}
                  /\ ~Exists(task[t].doc) \/ task[t].pend = {} \/ task[t].broken
    PROVE  LInv'
<1>. Shape(task[t]) /\ TaskOK(t) /\ StoresTypeOK /\ TasksTypeOK
  BY LedgerFacts
<1>1. q.pc \notin Before \cup {"rows"} \cup ChunkPc \cup ImagePc
  BY DEF EndPc, Before, ImagePc, ChunkPc
<1>2. Shape(q)
  BY <1>1 DEF Shape, ImagePc
<1>3. CASE task[t].doc \notin Doc
  BY <1>2, <1>3, BareStep
<1>4. CASE task[t].doc \in Doc
  <2>. DEFINE d == task[t].doc
  <2>1. SameSlots(d) /\ docs'[d] = docs[d]
    BY SlotsSame
  <2>2. OwnStep(t, d, q)
    BY <1>2, <1>4, SlotsSame DEF OwnStep, SameSlots, Exists, TaskOK, OwnerOK
  <2>3. task'[t] = q
    BY DEF TasksTypeOK
  <2>4. SoleGoesOn(t, d)
    BY <1>1, <1>4, <2>1, <2>3 DEF SoleGoesOn, SoleFits, SameSlots, Exists
  <2>5. ASSUME Lossless(d)', RowsIndexed(d)
        PROVE  TaskIndexed(t, d)' /\ RowsIndexed(d)'
    <3>1. TaskIndexed(t, d)'
      BY <1>1, <2>3 DEF TaskIndexed, ImagePc, ChunkPc, EndPc
    <3>2. ~Chunking(t, d)' /\ (Chunking(t, d) => task[t].pc = "finish")
      BY <1>1, <1>4, <2>3, <2>5 DEF Chunking, ChunkPc, Lossless
    <3>3. SlotsOf(rows, d)' \ SlotsOf(rows, d) = {}
      BY <2>1 DEF SameSlots
    <3>4. ChunksAside(t, d)
      BY <2>1, <3>2, <3>3 DEF ChunksAside
    <3>5. QED
      BY <1>4, <2>2, <2>5, <3>1, <3>4, RowsStayIndexed
  <2>6. IndexGoesOn(t, d)
    BY <2>5 DEF IndexGoesOn
  <2>7. QED
    BY <1>4, <2>2, <2>4, <2>6, OwnStepPreserves
<1>5. QED
  BY <1>3, <1>4

\* The record of d may change its status and its counters, and others nothing.
DocsKept(d) ==
    /\ \A e \in Doc \ {d} : docs'[e] = docs[e]
    /\ docs'[d].scanned = docs[d].scanned /\ docs'[d].state # "free"
    /\ Exists(d)' <=> Exists(d)

\* MySQL, Qdrant and Elasticsearch gain slots of d.
StoresGain(d, R, Q, E) ==
    /\ {R, Q, E} \subseteq SUBSET Slot
    /\ rows' = rows \cup PointsOf(d, R)
    /\ qdrant' = qdrant \cup PointsOf(d, Q)
    /\ es' = es \cup PointsOf(d, E)

\* Task t of document d becomes q, and nothing is taken back.
GoesOn(t, d, q) ==
    /\ task[t].doc = d /\ q.doc = d /\ q.kind = task[t].kind
    /\ task' = [task EXCEPT ![t] = q]
    /\ Shape(q)
    /\ faulty \subseteq faulty' /\ swept' = swept

\* Steps of a task on its own document.
LEMMA OwnStepIs ==
    ASSUME IInv, LInv, NEW t \in Task, NEW d \in Doc, NEW q, NEW R, NEW Q, NEW E,
           GoesOn(t, d, q), DocsKept(d), StoresGain(d, R, Q, E)
    PROVE  /\ OwnStep(t, d, q)
           /\ task'[t] = q
           /\ SlotsOf(rows, d)' = SlotsOf(rows, d) \cup R
           /\ SlotsOf(qdrant, d)' = SlotsOf(qdrant, d) \cup Q
           /\ SlotsOf(es, d)' = SlotsOf(es, d) \cup E
<1>1. /\ SlotsOf(rows, d)' = SlotsOf(rows, d) \cup R
      /\ \A e \in Doc \ {d} : SlotsOf(rows, e)' = SlotsOf(rows, e)
  BY DEF StoresGain, SlotsOf, PointsOf
<1>2. /\ SlotsOf(qdrant, d)' = SlotsOf(qdrant, d) \cup Q
      /\ \A e \in Doc \ {d} : SlotsOf(qdrant, e)' = SlotsOf(qdrant, e)
  BY DEF StoresGain, SlotsOf, PointsOf
<1>3. /\ SlotsOf(es, d)' = SlotsOf(es, d) \cup E
      /\ \A e \in Doc \ {d} : SlotsOf(es, e)' = SlotsOf(es, e)
  BY DEF StoresGain, SlotsOf, PointsOf
<1>4. task'[t] = q
  BY TaskFacts DEF GoesOn, TasksTypeOK
<1>5. OwnStep(t, d, q)
  BY <1>1, <1>2, <1>3 DEF OwnStep, GoesOn, DocsKept, SameSlots
<1>6. QED
  BY <1>1, <1>2, <1>3, <1>4, <1>5

\* The same when the tables and the indexes are left alone.
LEMMA OwnStepAlone ==
    ASSUME IInv, LInv, NEW t \in Task, NEW d \in Doc, NEW q,
           task[t].doc = d, q.doc = d, q.kind = task[t].kind,
           task' = [task EXCEPT ![t] = q], Shape(q),
           UNCHANGED <<docs, rows, qdrant, es, swept>>, faulty \subseteq faulty'
    PROVE  /\ OwnStep(t, d, q)
           /\ task'[t] = q
           /\ SameSlots(d) /\ Indexes(d)' = Indexes(d)
<1>1. \A e \in Doc : SameSlots(e) /\ Indexes(e)' = Indexes(e)
  BY SlotsSame
<1>2. task'[t] = q /\ docs[d].state # "free"
  BY TaskFacts DEF TasksTypeOK, TaskOK, OwnerOK
<1>3. QED
  BY <1>1, <1>2 DEF OwnStep, SameSlots, Exists

(***************************************************************************)
(* A task that has not reached the chunks goes on with its images: nothing *)
(* is stored, and it holds at most an image more.  It drops its images     *)
(* only if they cannot be the document's.                                  *)
(***************************************************************************)
LEMMA ImageStepPreserves ==
    ASSUME IInv, LInv, NEW t \in Task, NEW d \in Doc, NEW q,
           task[t].doc = d, q.doc = d, q.kind = task[t].kind,
           task' = [task EXCEPT ![t] = q], Shape(q),
           task[t].pc \in {"mineru", "load", "images"},
           q.pc \in {"load", "images", "imgQdrant"},
           UNCHANGED <<docs, rows, qdrant, es, swept>>, faulty \subseteq faulty',
           \/ d \in faulty'
           \/ task[t].pend \subseteq q.pend /\ q.pend \ q.batch \subseteq task[t].pend /\ ~q.broken
           \/ q.pend = {} /\ (task[t].broken \/ ~Exists(d) \/ ~SoleTask(d)
                              \/ SlotsOf(rows, d) # {})
    PROVE  LInv'
<1>1. Shape(task[t])
  BY DEF LInv
<1>2. SameSlots(d) /\ Indexes(d)' = Indexes(d)
  BY SlotsSame
<1>3. OwnStep(t, d, q) /\ task'[t] = q
  BY OwnStepAlone
<1>4. SoleGoesOn(t, d)
  BY <1>2, <1>3 DEF SoleGoesOn, SoleFits, SameSlots, Exists, Before, ImagePc, ChunkPc
<1>5. IndexGoesOn(t, d)
  <2>1. SUFFICES ASSUME Lossless(d)', RowsIndexed(d), TaskIndexed(t, d)
                 PROVE  TaskIndexed(t, d)' /\ RowsIndexed(d)'
    BY DEF IndexGoesOn
  <2>2. TaskIndexed(t, d)'
    BY <1>1, <1>2, <1>3, <2>1
       DEF TaskIndexed, SameSlots, Exists, Lossless, Shape, ImagePc, ChunkPc
  <2>3. ChunksAside(t, d)
    BY <1>2, <1>3 DEF ChunksAside, SameSlots, Chunking, ChunkPc
  <2>4. QED
    BY <1>3, <2>1, <2>2, <2>3, RowsStayIndexed
<1>6. QED
  BY <1>3, <1>4, <1>5, OwnStepPreserves

\* A turn of the image loop.
LEMMA ImageTurnLedger ==
    ASSUME IInv, LInv, NEW t \in Task, task[t].doc \in Doc, NEW i \in Img, NEW key,
           ImageTurn(t, i, key), UNCHANGED apiVars
    PROVE  LInv'
<1>. DEFINE d == task[t].doc
<1>. task[t] \in TaskRecord /\ Shape(task[t]) /\ TasksTypeOK /\ i \in Slot
  BY LedgerFacts DEF Slot
<1>1. /\ task[t].pc = "images"
      /\ UNCHANGED <<docs, rows, qdrant, es, swept>>
  BY DEF ImageTurn, apiVars
<1>2. task[t].pend \subseteq Img /\ task[t].batch = {}
  BY <1>1 DEF Shape, ImagePc
<1>3. CASE FlushImage(t, i, key)
  <2>. DEFINE q == [task[t] EXCEPT !.pc = "imgQdrant", !.todo = @ \ {i},
                                   !.pend = @ \cup {i}, !.batch = {i}]
  <2>1. /\ task' = [task EXCEPT ![t] = q]
        /\ ~task[t].broken
        /\ faulty \subseteq faulty'
    BY <1>3, FaultyGrows DEF FlushImage, TasksTypeOK, TaskRecord
  <2>2. /\ q.pc = "imgQdrant" /\ q.doc = d /\ q.kind = task[t].kind
        /\ q.pend = task[t].pend \cup {i} /\ q.batch = {i} /\ q.broken = task[t].broken
    BY DEF TaskRecord
  <2>. HIDE DEF q
  <2>3. Shape(q)
    BY <1>2, <2>1, <2>2 DEF Shape, ImagePc, ChunkPc
  <2>4. QED
    BY <1>1, <2>1, <2>2, <2>3, ImageStepPreserves
<1>4. CASE FlushImageRaises(t, i, key)
  <2>. DEFINE q == [task[t] EXCEPT !.todo = @ \ {i}, !.pend = {}, !.broken = TRUE]
              forced == task[t].broken \/ ~Exists(d) \/ Taken(t, i) \/ HeldByOther(t, i)
  <2>1. /\ task' = [task EXCEPT ![t] = q]
        /\ FaultIf(~forced, {d})
    BY <1>4 DEF FlushImageRaises, TasksTypeOK, TaskRecord
  <2>2. /\ q.pc = "images" /\ q.doc = d /\ q.kind = task[t].kind
        /\ q.pend = {} /\ q.batch = {} /\ q.broken = TRUE
    BY <1>1, <1>2 DEF TaskRecord
  <2>. HIDE DEF q
  <2>3. Shape(q)
    BY <2>2 DEF Shape, ImagePc, ChunkPc
  <2>4. faulty \subseteq faulty' /\ (forced \/ d \in faulty')
    <3>. HIDE DEF forced
    <3>1. QED
      BY <2>1, FaultyGrows
  <2>5. forced => task[t].broken \/ ~Exists(d) \/ ~SoleTask(d) \/ SlotsOf(rows, d) # {}
    BY DEF Taken, HeldByOther, SoleTask, SlotsOf
  <2>6. QED
    BY <1>1, <2>1, <2>2, <2>3, <2>4, <2>5, ImageStepPreserves
<1>5. CASE LoseImage(t, i, key)
  <2>1. PICK q : /\ task' = [task EXCEPT ![t] = q]
                 /\ \/ q = [task[t] EXCEPT !.todo = @ \ {i}]
                    \/ q = [task[t] EXCEPT !.todo = @ \ {i}, !.pend = @ \cup {i}]
    BY <1>5 DEF LoseImage, TasksTypeOK, TaskRecord
  <2>2. /\ q.pc = "images" /\ q.doc = d /\ q.kind = task[t].kind
        /\ q.pend \subseteq task[t].pend \cup {i} /\ q.batch = {} /\ q.broken = task[t].broken
    BY <1>1, <1>2, <2>1 DEF TaskRecord
  <2>3. Shape(q)
    BY <1>2, <2>2 DEF Shape, ImagePc, ChunkPc
  <2>4. faulty \subseteq faulty' /\ d \in faulty'
    BY <1>5, FaultyGrows DEF LoseImage
  <2>5. QED
    BY <1>1, <2>1, <2>2, <2>3, <2>4, ImageStepPreserves
<1>6. QED
  BY <1>3, <1>4, <1>5 DEF ImageTurn

(***************************************************************************)
(* A batch goes to Qdrant: the batch of an image, of the text path or of   *)
(* the scanned path.                                                       *)
(***************************************************************************)
LEMMA ToQdrantLedger ==
    ASSUME IInv, LInv, NEW t \in Task, NEW d \in Doc, task[t].doc = d, NEW pc,
           <<task[t].pc, pc>> \in {<<"imgQdrant", "imgEs">>, <<"qdrant", "es">>},
           UpsertPoints(d, task[t].batch), Set(t, pc),
           UNCHANGED <<docs, rows, es, swept>>
    PROVE  LInv'
<1>. DEFINE q == [task[t] EXCEPT !.pc = pc]
<1>. /\ task[t] \in TaskRecord /\ Shape(task[t]) /\ TasksTypeOK
     /\ Img \cap Txt = {}
  BY LedgerFacts
<1>1. PICK S \in SUBSET task[t].batch : /\ qdrant' = qdrant \cup PointsOf(d, S)
                                        /\ FaultIf(S # task[t].batch, {d})
  BY DEF UpsertPoints
<1>2. S \in SUBSET Slot /\ task[t].batch \in SUBSET Slot
  BY DEF TaskRecord
<1>3. task' = [task EXCEPT ![t] = q]
  BY DEF Set, TasksTypeOK, TaskRecord
<1>4. /\ q.pc = pc /\ q.doc = d /\ q.kind = task[t].kind
      /\ q.pend = task[t].pend /\ q.batch = task[t].batch /\ q.broken = task[t].broken
  BY DEF TaskRecord
<1>. HIDE DEF q
<1>5. Shape(q)
  BY <1>4 DEF Shape, ImagePc, ChunkPc
<1>6. faulty \subseteq faulty' /\ (S = task[t].batch \/ d \in faulty')
  BY <1>1, FaultyGrows
<1>7. DocsKept(d)
  BY LedgerFacts DEF DocsKept, TaskOK, OwnerOK, Exists
<1>8. /\ OwnStep(t, d, q)
      /\ task'[t] = q
      /\ SlotsOf(rows, d)' = SlotsOf(rows, d)
      /\ SlotsOf(qdrant, d)' = SlotsOf(qdrant, d) \cup S
      /\ SlotsOf(es, d)' = SlotsOf(es, d)
  <2>1. StoresGain(d, {}, S, {})
    BY <1>1, <1>2 DEF StoresGain, PointsOf
  <2>2. GoesOn(t, d, q)
    BY <1>3, <1>4, <1>5, <1>6 DEF GoesOn
  <2>3. QED
    BY <1>7, <2>1, <2>2, OwnStepIs
<1>9. SoleGoesOn(t, d)
  <2>1. SUFFICES ASSUME SoleFits(t, d) PROVE SoleFits(t, d)'
    BY DEF SoleGoesOn
  <2>2. Exists(d) => S \subseteq SlotsOf(rows, d) \cup task[t].pend
    BY <2>1 DEF SoleFits, Shape, ImagePc, ChunkPc, TaskRecord
  <2>3. QED
    BY <1>4, <1>6, <1>8, <2>1, <2>2 DEF SoleFits, Exists, Before, ImagePc, ChunkPc
<1>10. IndexGoesOn(t, d)
  <2>1. SUFFICES ASSUME Lossless(d)', RowsIndexed(d), TaskIndexed(t, d)
                 PROVE  TaskIndexed(t, d)' /\ RowsIndexed(d)'
    BY DEF IndexGoesOn
  <2>2. S = task[t].batch /\ Indexes(d) \subseteq Indexes(d)'
    BY <1>6, <1>8, <2>1 DEF Lossless, Indexes
  <2>3. TaskIndexed(t, d)'
    BY <1>4, <1>8, <2>1, <2>2 DEF TaskIndexed, Exists, ImagePc, ChunkPc
  <2>4. ChunksAside(t, d)
    BY <1>4, <1>8 DEF ChunksAside, Chunking, ChunkPc
  <2>5. QED
    BY <1>8, <2>1, <2>3, <2>4, RowsStayIndexed
<1>11. QED
  BY <1>8, <1>9, <1>10, OwnStepPreserves

\* And then to Elasticsearch.
LEMMA ToEsLedger ==
    ASSUME IInv, LInv, NEW t \in Task, NEW d \in Doc, task[t].doc = d, NEW q,
           q.doc = d, q.kind = task[t].kind, q.pend = task[t].pend, q.broken = task[t].broken,
           \/ task[t].pc = "imgEs" /\ q.pc = "images" /\ q.batch = {}
           \/ task[t].pc = "es" /\ q.pc = "finish" /\ q.batch = task[t].batch,
           task' = [task EXCEPT ![t] = q],
           BulkIndex(d, task[t].batch),
           UNCHANGED <<docs, rows, qdrant, swept>>
    PROVE  LInv'
<1>. /\ task[t] \in TaskRecord /\ Shape(task[t]) /\ TasksTypeOK
     /\ Img \cap Txt = {}
  BY LedgerFacts
<1>1. PICK S \in SUBSET task[t].batch : /\ es' = es \cup PointsOf(d, S)
                                        /\ FaultIf(S # task[t].batch, {d})
  BY DEF BulkIndex
<1>2. S \in SUBSET Slot
  BY DEF TaskRecord
<1>3. Shape(q)
  BY DEF Shape, ImagePc, ChunkPc
<1>4. faulty \subseteq faulty' /\ (S = task[t].batch \/ d \in faulty')
  BY <1>1, FaultyGrows
<1>5. DocsKept(d)
  BY LedgerFacts DEF DocsKept, TaskOK, OwnerOK, Exists
<1>6. /\ OwnStep(t, d, q)
      /\ task'[t] = q
      /\ SlotsOf(rows, d)' = SlotsOf(rows, d)
      /\ SlotsOf(qdrant, d)' = SlotsOf(qdrant, d)
      /\ SlotsOf(es, d)' = SlotsOf(es, d) \cup S
  <2>1. StoresGain(d, {}, {}, S)
    BY <1>1, <1>2 DEF StoresGain, PointsOf
  <2>2. GoesOn(t, d, q)
    BY <1>3, <1>4 DEF GoesOn
  <2>3. QED
    BY <1>5, <2>1, <2>2, OwnStepIs
<1>7. SoleGoesOn(t, d)
  <2>1. SUFFICES ASSUME SoleFits(t, d) PROVE SoleFits(t, d)'
    BY DEF SoleGoesOn
  <2>2. Exists(d) => S \subseteq SlotsOf(rows, d) \cup task[t].pend
    BY <2>1 DEF SoleFits, Shape, ImagePc, ChunkPc, TaskRecord
  <2>3. QED
    BY <1>4, <1>6, <2>1, <2>2 DEF SoleFits, Exists, Before, ImagePc, ChunkPc
<1>8. IndexGoesOn(t, d)
  <2>1. SUFFICES ASSUME Lossless(d)', RowsIndexed(d), TaskIndexed(t, d)
                 PROVE  TaskIndexed(t, d)' /\ RowsIndexed(d)'
    BY DEF IndexGoesOn
  <2>2. S = task[t].batch
    BY <1>4, <2>1 DEF Lossless
  <2>3. task[t].batch \subseteq Indexes(d)' /\ Indexes(d) \subseteq Indexes(d)'
    BY <1>6, <2>1, <2>2 DEF TaskIndexed, Indexes
  <2>4. TaskIndexed(t, d)'
    BY <1>6, <2>1, <2>3 DEF TaskIndexed, Exists, ImagePc, ChunkPc
  <2>5. CASE ~Chunking(t, d)
    <3>1. ChunksAside(t, d)
      BY <1>6, <2>5 DEF ChunksAside, Chunking, ChunkPc
    <3>2. QED
      BY <1>6, <2>1, <2>4, <3>1, RowsStayIndexed
  <2>6. CASE Chunking(t, d)
    <3>1. Txt \subseteq Indexes(d)'
      BY <2>1, <2>3, <2>6 DEF TaskIndexed, Chunking
    <3>2. \A u \in Task : Chunking(u, d)' <=> Chunking(u, d)
      BY <1>6, <2>6, OwnStepTasks DEF Chunking, ChunkPc
    <3>3. RowsIndexed(d)'
      BY <1>6, <2>1, <2>3, <3>1, <3>2 DEF RowsIndexed
    <3>4. QED
      BY <2>4, <3>3
  <2>7. QED
    BY <2>5, <2>6
<1>9. QED
  BY <1>6, <1>7, <1>8, OwnStepPreserves

\* The commit after the images, on both paths.
LEMMA CommitImagesLedger ==
    ASSUME IInv, LInv, NEW t \in Task, NEW d \in Doc, task[t].doc = d, NEW q,
           q.doc = d, q.kind = task[t].kind, q.batch = task[t].batch, q.broken = task[t].broken,
           task[t].pc = "images", q.pc = "rows", q.pend = {},
           task' = [task EXCEPT ![t] = q],
           ~task[t].broken, CommitRows(d, task[t].pend),
           UNCHANGED <<docs, qdrant, es, faulty, swept>>
    PROVE  LInv'
<1>. PICK S : S = task[t].pend
  OBVIOUS
<1>. /\ task[t] \in TaskRecord /\ Shape(task[t]) /\ TasksTypeOK
     /\ Img \cap Txt = {}
  BY LedgerFacts
<1>1. S \in SUBSET Slot /\ S \subseteq Img /\ task[t].batch = {}
  BY DEF TaskRecord, Shape, ImagePc
<1>2. Shape(q)
  BY <1>1 DEF Shape, ImagePc, ChunkPc
<1>3. DocsKept(d)
  BY LedgerFacts DEF DocsKept, TaskOK, OwnerOK, Exists
<1>4. /\ OwnStep(t, d, q)
      /\ task'[t] = q
      /\ SlotsOf(rows, d)' = SlotsOf(rows, d) \cup S
      /\ SlotsOf(qdrant, d)' = SlotsOf(qdrant, d)
      /\ SlotsOf(es, d)' = SlotsOf(es, d)
  <2>1. StoresGain(d, S, {}, {})
    BY <1>1 DEF StoresGain, CommitRows, PointsOf
  <2>2. GoesOn(t, d, q)
    BY <1>2 DEF GoesOn
  <2>3. QED
    BY <1>3, <2>1, <2>2, OwnStepIs
<1>5. SoleGoesOn(t, d)
  BY <1>1, <1>4 DEF SoleGoesOn, SoleFits, Exists, Before, ImagePc, ChunkPc
<1>6. IndexGoesOn(t, d)
  <2>1. SUFFICES ASSUME RowsIndexed(d), TaskIndexed(t, d)
                 PROVE  TaskIndexed(t, d)' /\ RowsIndexed(d)'
    BY DEF IndexGoesOn
  <2>2. Indexes(d)' = Indexes(d) /\ S \subseteq Indexes(d)
    BY <1>1, <1>4, <2>1 DEF TaskIndexed, Indexes, ImagePc
  <2>3. TaskIndexed(t, d)'
    BY <1>4 DEF TaskIndexed, ImagePc, ChunkPc
  <2>4. ChunksAside(t, d)
    BY <1>4, <2>2 DEF ChunksAside, Chunking, ChunkPc
  <2>5. QED
    BY <1>4, <2>1, <2>3, <2>4, RowsStayIndexed
<1>7. QED
  BY <1>4, <1>5, <1>6, OwnStepPreserves

\* The chunks of the text path are flushed.
LEMMA TextChunksLedger ==
    ASSUME IInv, LInv, NEW t \in Task, NEW d \in Doc, task[t].doc = d, NEW q,
           q.doc = d, q.kind = task[t].kind, q.broken = task[t].broken,
           task[t].kind = "text", task[t].pc = "rows", q.pc = "qdrant",
           q.pend = q.batch, q.batch \subseteq Txt,
           task' = [task EXCEPT ![t] = q],
           UNCHANGED <<docs, rows, qdrant, es, swept>>, faulty \subseteq faulty'
    PROVE  LInv'
<1>1. Shape(task[t]) /\ Shape(q)
  BY DEF LInv, Shape, ImagePc, ChunkPc
<1>2. OwnStep(t, d, q) /\ task'[t] = q /\ SameSlots(d) /\ Indexes(d)' = Indexes(d)
  BY <1>1, OwnStepAlone
<1>3. SoleGoesOn(t, d)
  BY <1>1, <1>2 DEF Shape, SoleGoesOn, SoleFits, SameSlots, Exists, Before, ImagePc, ChunkPc
<1>4. IndexGoesOn(t, d)
  <2>1. TaskIndexed(t, d)'
    BY <1>2 DEF TaskIndexed, ImagePc, ChunkPc
  <2>2. ChunksAside(t, d)
    BY <1>2 DEF ChunksAside, SameSlots, Chunking, ChunkPc
  <2>3. QED
    BY <1>2, <2>1, <2>2, RowsStayIndexed DEF IndexGoesOn
<1>5. QED
  BY <1>2, <1>3, <1>4, OwnStepPreserves

(***************************************************************************)
(* The chunks S of the scanned path are committed.  They are every chunk   *)
(* if nothing is lost, and no other task can have committed one.           *)
(***************************************************************************)
LEMMA ScanChunksLedger ==
    ASSUME IInv, LInv, NEW t \in Task, NEW d \in Doc, task[t].doc = d, NEW q,
           q.doc = d, q.kind = task[t].kind, q.broken = task[t].broken,
           task[t].kind = "scan", task[t].pc = "rows", q.pc = "qdrant",
           NEW S, S \subseteq Txt, q.pend = {}, q.batch = S,
           task' = [task EXCEPT ![t] = q],
           CommitRows(d, S), FaultIf(S # Txt, {d}),
           S # {} => Exists(d) /\ S \cap SlotsOf(rows, d) = {},
           UNCHANGED <<docs, qdrant, es, swept>>
    PROVE  LInv'
<1>. Img \cap Txt = {} /\ S \in SUBSET Slot
  BY LedgerFacts DEF Slot
<1>1. Shape(task[t]) /\ Shape(q)
  BY DEF LInv, Shape, ImagePc, ChunkPc
<1>2. DocsKept(d)
  BY LedgerFacts DEF DocsKept, TaskOK, OwnerOK, Exists
<1>3. faulty \subseteq faulty' /\ (S = Txt \/ d \in faulty')
  BY FaultyGrows
<1>4. /\ OwnStep(t, d, q)
      /\ task'[t] = q
      /\ SlotsOf(rows, d)' = SlotsOf(rows, d) \cup S
      /\ SlotsOf(qdrant, d)' = SlotsOf(qdrant, d)
      /\ SlotsOf(es, d)' = SlotsOf(es, d)
  <2>1. StoresGain(d, S, {}, {})
    BY DEF StoresGain, CommitRows, PointsOf
  <2>2. GoesOn(t, d, q)
    BY <1>1, <1>3 DEF GoesOn
  <2>3. QED
    BY <1>2, <2>1, <2>2, OwnStepIs
<1>5. SoleGoesOn(t, d)
  BY <1>1, <1>3, <1>4
     DEF Shape, SoleGoesOn, SoleFits, Exists, Before, ImagePc, ChunkPc
<1>6. ASSUME Lossless(d)', RowsIndexed(d),
             \A u \in Task : task[u].doc = d => TaskIndexed(u, d)
      PROVE  TaskIndexed(t, d)' /\ RowsIndexed(d)'
  <2>1. S = Txt /\ Indexes(d)' = Indexes(d)
    BY <1>3, <1>4, <1>6 DEF Lossless, Indexes
  <2>2. TaskIndexed(t, d)'
    BY <1>4, <2>1 DEF TaskIndexed, ImagePc
  <2>3. /\ Chunking(t, d)' /\ task'[t].pc # "finish"
        /\ \A u \in Task \ {t} : Chunking(u, d)' <=> Chunking(u, d)
    BY <1>4, OwnStepTasks DEF Chunking, ChunkPc
  <2>4. ASSUME Txt # {}, NEW u \in Task \ {t} PROVE ~Chunking(u, d)
    BY <1>6, <2>1, <2>4 DEF TaskIndexed, Chunking
  <2>5. Txt # {} => ~(docs[d].scanned /\ docs[d].state = "completed")
    BY <1>6, <2>1 DEF RowsIndexed
  <2>6. SlotsOf(rows, d)' \cap Img = SlotsOf(rows, d) \cap Img
    BY <1>4
  <2>7. RowsIndexed(d)'
    BY <1>6, <2>1, <2>3, <2>4, <2>5, <2>6 DEF RowsIndexed
  <2>8. QED
    BY <2>2, <2>7
<1>7. IndexGoesOn(t, d)
  BY <1>6 DEF IndexGoesOn
<1>8. QED
  BY <1>4, <1>5, <1>7, OwnStepPreserves

\* The last commit of the text path.
LEMMA CompleteTextLedger ==
    ASSUME IInv, LInv, NEW t \in Task, NEW d \in Doc, task[t].doc = d, NEW q,
           q.doc = d, q.kind = task[t].kind, ~q.broken, q.pend = {}, q.batch = {},
           task[t].kind = "text", task[t].pc = "finish", q.pc = "done",
           task' = [task EXCEPT ![t] = q],
           Exists(d), DocsKept(d),
           docs'[d].chunkCount = Cardinality(task[t].pend),
           CommitRows(d, task[t].pend),
           UNCHANGED <<qdrant, es, faulty, swept>>
    PROVE  LInv'
<1>. PICK S : S = task[t].pend
  OBVIOUS
<1>. Shape(task[t]) /\ task[t] \in TaskRecord /\ Img \cap Txt = {}
  BY LedgerFacts
<1>1. S \subseteq Txt /\ S = task[t].batch /\ S \in SUBSET Slot
  BY DEF Shape, ChunkPc, TaskRecord
<1>2. Shape(q)
  BY DEF Shape, ImagePc, ChunkPc
<1>3. /\ OwnStep(t, d, q)
      /\ task'[t] = q
      /\ SlotsOf(rows, d)' = SlotsOf(rows, d) \cup S
      /\ SlotsOf(qdrant, d)' = SlotsOf(qdrant, d)
      /\ SlotsOf(es, d)' = SlotsOf(es, d)
  <2>1. StoresGain(d, S, {}, {})
    BY <1>1 DEF StoresGain, CommitRows, PointsOf
  <2>2. GoesOn(t, d, q)
    BY <1>2 DEF GoesOn
  <2>3. QED
    BY <2>1, <2>2, OwnStepIs
<1>4. SoleGoesOn(t, d)
  <2>1. SUFFICES ASSUME SoleFits(t, d) PROVE SoleFits(t, d)'
    BY DEF SoleGoesOn
  <2>2. SlotsOf(rows, d)' \cap Txt = S
    BY <1>1, <1>3, <2>1 DEF SoleFits, ChunkPc
  <2>3. QED
    BY <1>3, <2>1, <2>2 DEF SoleFits, Exists, Before, ImagePc, ChunkPc, DocsKept
<1>5. IndexGoesOn(t, d)
  <2>1. SUFFICES ASSUME RowsIndexed(d), TaskIndexed(t, d)
                 PROVE  TaskIndexed(t, d)' /\ RowsIndexed(d)'
    BY DEF IndexGoesOn
  <2>2. TaskIndexed(t, d)'
    BY <1>3 DEF TaskIndexed, ImagePc, ChunkPc
  <2>3. docs[d].scanned = FALSE
    BY LedgerFacts DEF TaskOK, OwnerOK, IsScan
  <2>4. S \subseteq Indexes(d) /\ Indexes(d)' = Indexes(d)
    BY <1>1, <1>3, <2>1 DEF TaskIndexed, Indexes
  <2>5. ChunksAside(t, d)
    BY <1>3, <2>3, <2>4 DEF ChunksAside, Chunking
  <2>6. QED
    BY <1>3, <2>1, <2>2, <2>5, RowsStayIndexed
<1>6. QED
  BY <1>3, <1>4, <1>5, OwnStepPreserves

\* The last commit of the scanned path.
LEMMA CompleteScanLedger ==
    ASSUME IInv, LInv, NEW t \in Task, NEW d \in Doc, task[t].doc = d, NEW q,
           q.doc = d, q.kind = task[t].kind, q.broken = task[t].broken,
           q.pend = task[t].pend, q.batch = {},
           task[t].kind = "scan", task[t].pc = "finish", q.pc = "reload",
           task' = [task EXCEPT ![t] = q],
           Exists(d), DocsKept(d),
           docs'[d].chunkCount = Cardinality(task[t].batch),
           UNCHANGED <<rows, qdrant, es, faulty, swept>>
    PROVE  LInv'
<1>1. Shape(task[t])
  BY LedgerFacts
<1>2. q.pend = {} /\ Shape(q)
  BY <1>1 DEF Shape, ImagePc, ChunkPc
<1>3. task'[t] = q /\ \A e \in Doc : SameSlots(e) /\ Indexes(e)' = Indexes(e)
  BY SlotsSame, LedgerFacts DEF TasksTypeOK
<1>4. OwnStep(t, d, q)
  BY <1>2, <1>3 DEF OwnStep, SameSlots, DocsKept
<1>5. SoleGoesOn(t, d)
  BY <1>2, <1>3, <1>4
     DEF SoleGoesOn, SoleFits, SameSlots, DocsKept, Exists, Before, ImagePc, ChunkPc
<1>6. ASSUME RowsIndexed(d), TaskIndexed(t, d)
      PROVE  TaskIndexed(t, d)' /\ RowsIndexed(d)'
  <2>1. TaskIndexed(t, d)'
    BY <1>3 DEF TaskIndexed, ImagePc, ChunkPc
  <2>2. /\ Chunking(t, d) /\ ~Chunking(t, d)'
        /\ \A u \in Task \ {t} : Chunking(u, d)' <=> Chunking(u, d)
    BY <1>3, <1>4, OwnStepTasks DEF Chunking, ChunkPc
  <2>3. Txt \subseteq Indexes(d)' /\ Txt \subseteq SlotsOf(rows, d)'
    BY <1>3, <1>6 DEF TaskIndexed, SameSlots, ChunkPc
  <2>4. RowsIndexed(d)'
    BY <1>3, <1>6, <2>2, <2>3 DEF RowsIndexed, SameSlots
  <2>5. QED
    BY <2>1, <2>4
<1>7. IndexGoesOn(t, d)
  BY <1>6 DEF IndexGoesOn
<1>8. QED
  BY <1>4, <1>5, <1>7, OwnStepPreserves

\* The handlers that mark the document as failed.
LEMMA MarkFailedLedger ==
    ASSUME IInv, LInv, NEW t \in Task, NEW d \in Doc, task[t].doc = d, NEW q,
           q.doc = d, q.kind = task[t].kind, ~q.broken, q.pend = {}, q.batch = {},
           task[t].pc = "markFailed", q.pc = "failed",
           task' = [task EXCEPT ![t] = q],
           DocsKept(d), docs'[d].state \in {"failed", "deleted"},
           UNCHANGED <<rows, qdrant, es, faulty, swept>>
    PROVE  LInv'
<1>1. Shape(task[t])
  BY LedgerFacts
<1>2. task[t].pend = {} /\ Shape(q)
  BY <1>1 DEF Shape, ImagePc, ChunkPc
<1>3. task'[t] = q /\ \A e \in Doc : SameSlots(e) /\ Indexes(e)' = Indexes(e)
  BY SlotsSame, LedgerFacts DEF TasksTypeOK
<1>4. OwnStep(t, d, q)
  BY <1>2, <1>3 DEF OwnStep, SameSlots, DocsKept
<1>5. SoleGoesOn(t, d)
  BY <1>2, <1>3, <1>4
     DEF SoleGoesOn, SoleFits, SameSlots, DocsKept, Exists, Before, ImagePc, ChunkPc
<1>6. IndexGoesOn(t, d)
  <2>1. TaskIndexed(t, d)'
    BY <1>3 DEF TaskIndexed, ImagePc, ChunkPc
  <2>2. ChunksAside(t, d)
    BY <1>3 DEF ChunksAside, SameSlots, Chunking, ChunkPc
  <2>3. QED
    BY <1>4, <2>1, <2>2, RowsStayIndexed DEF IndexGoesOn
<1>7. QED
  BY <1>4, <1>5, <1>6, OwnStepPreserves

-----------------------------------------------------------------------------
(* The steps of the workers keep the ledger.                               *)

\* The task as EndTask leaves it.
LEMMA EndTaskIs ==
    ASSUME IInv, NEW t \in Task, NEW pc, EndTask(t, pc)
    PROVE  \E q : /\ task' = [task EXCEPT ![t] = q]
                  /\ q.pc = pc /\ q.doc = task[t].doc /\ q.kind = task[t].kind
                  /\ q.pend = {} /\ q.batch = {} /\ ~q.broken
<1>. DEFINE q == [task[t] EXCEPT !.pc = pc, !.todo = {}, !.pend = {}, !.batch = {},
                                 !.broken = FALSE]
<1>1. task' = [task EXCEPT ![t] = q]
  BY TaskFacts DEF EndTask, TasksTypeOK, TaskRecord
<1>2. /\ q.pc = pc /\ q.doc = task[t].doc /\ q.kind = task[t].kind
      /\ q.pend = {} /\ q.batch = {} /\ ~q.broken
  BY TaskFacts DEF TaskRecord
<1>. HIDE DEF q
<1>3. QED
  BY <1>1, <1>2

\* And as a step to another program counter leaves it.
LEMMA SetIs ==
    ASSUME IInv, NEW t \in Task, NEW pc, Set(t, pc)
    PROVE  \E q : /\ task' = [task EXCEPT ![t] = q]
                  /\ q.pc = pc /\ q.doc = task[t].doc /\ q.kind = task[t].kind
                  /\ q.pend = task[t].pend /\ q.batch = task[t].batch
                  /\ q.broken = task[t].broken
<1>. DEFINE q == [task[t] EXCEPT !.pc = pc]
<1>1. task' = [task EXCEPT ![t] = q]
  BY TaskFacts DEF Set, TasksTypeOK, TaskRecord
<1>2. /\ q.pc = pc /\ q.doc = task[t].doc /\ q.kind = task[t].kind
      /\ q.pend = task[t].pend /\ q.batch = task[t].batch /\ q.broken = task[t].broken
  BY TaskFacts DEF TaskRecord
<1>. HIDE DEF q
<1>3. QED
  BY <1>1, <1>2

\* Why a task that leaves its path may drop what it had flushed.
Excused(t) ==
    task[t].doc \in Doc =>
        \/ task[t].doc \in faulty'
        \/ /\ task[t].pc \notin {"qdrant", "es"}
           /\ ~Exists(task[t].doc) \/ task[t].pend = {} \/ task[t].broken

LEMMA EndTaskLedger ==
    ASSUME IInv, LInv, NEW t \in Task, NEW pc \in EndPc, EndTask(t, pc),
           UNCHANGED <<docs, rows, qdrant, es, swept>>, faulty \subseteq faulty', Excused(t)
    PROVE  LInv'
<1>1. PICK q : /\ task' = [task EXCEPT ![t] = q]
               /\ q.pc = pc /\ q.doc = task[t].doc /\ q.kind = task[t].kind
               /\ q.pend = {} /\ q.batch = {} /\ ~q.broken
  BY EndTaskIs
<1>2. QED
  BY <1>1, LeavePreserves DEF Excused

LEMMA ScanFailsLedger ==
    ASSUME IInv, LInv, NEW t \in Task, ScanFails(t), swept' = swept,
           faulty \subseteq faulty', Excused(t)
    PROVE  LInv'
<1>. DEFINE q == [task[t] EXCEPT !.pc = "markFailed", !.todo = {}, !.pend = {},
                                 !.batch = {}, !.broken = FALSE]
<1>1. task' = [task EXCEPT ![t] = q]
  BY TaskFacts DEF ScanFails, TasksTypeOK, TaskRecord
<1>2. /\ q.pc = "markFailed" /\ q.doc = task[t].doc /\ q.kind = task[t].kind
      /\ q.pend = {} /\ q.batch = {} /\ ~q.broken
  BY TaskFacts DEF TaskRecord
<1>. HIDE DEF q
<1>3. UNCHANGED <<docs, rows, qdrant, es>>
  BY DEF ScanFails
<1>4. QED
  BY <1>1, <1>2, <1>3, LeavePreserves DEF Excused

\* What an instance of the text path does before it has a document.
LEMMA EarlyTextLedger ==
    ASSUME IInv, LInv, NEW t \in Task, CheckFileHash(t) \/ StoreSource(t), UNCHANGED apiVars
    PROVE  LInv'
<1>. Shape(task[t]) /\ TaskOK(t)
  BY LedgerFacts
<1>1. PICK pc \in {"skipped", "parse", "insert"} : Set(t, pc)
  BY DEF CheckFileHash, StoreSource
<1>2. PICK q : /\ task' = [task EXCEPT ![t] = q]
               /\ q.pc = pc /\ q.doc = task[t].doc /\ q.kind = task[t].kind
               /\ q.pend = task[t].pend /\ q.batch = task[t].batch
               /\ q.broken = task[t].broken
  BY <1>1, SetIs
<1>3. task[t].doc \notin Doc
  BY StoresAssumption DEF CheckFileHash, StoreSource, TaskOK, Early
<1>4. Shape(q)
  BY <1>2 DEF CheckFileHash, StoreSource, Shape, ImagePc, ChunkPc
<1>5. UNCHANGED <<docs, rows, qdrant, es, swept>> /\ faulty \subseteq faulty'
  BY FaultyGrows DEF CheckFileHash, StoreSource, Upload, apiVars, storeVars
<1>6. QED
  BY <1>2, <1>3, <1>4, <1>5, BareStep

\* CommitImages and CommitScanImages, when the session is usable.
LEMMA CommitsLedger ==
    ASSUME IInv, LInv, NEW t \in Task, NEW d \in Doc, task[t].doc = d,
           task[t].pc = "images", ~task[t].broken, CommitRows(d, task[t].pend),
           task' = [task EXCEPT ![t].pc = "rows", ![t].pend = {}],
           UNCHANGED <<docs, qdrant, es, faulty, swept>>
    PROVE  LInv'
<1>. DEFINE q == [task[t] EXCEPT !.pc = "rows", !.pend = {}]
<1>1. task' = [task EXCEPT ![t] = q]
  BY TaskFacts DEF TasksTypeOK, TaskRecord
<1>2. /\ q.pc = "rows" /\ q.doc = d /\ q.kind = task[t].kind
      /\ q.pend = {} /\ q.batch = task[t].batch /\ q.broken = task[t].broken
  BY TaskFacts DEF TaskRecord
<1>. HIDE DEF q
<1>3. QED
  BY <1>1, <1>2, CommitImagesLedger

\* The writes to the indexes, which both paths make in the same way.
LEMMA IndexStepsLedger ==
    ASSUME IInv, LInv, NEW t \in Task, task[t].doc \in Doc, UNCHANGED apiVars,
           \/ ImageToQdrant(t) \/ ImageToEs(t)
           \/ UpsertChunks(t) \/ UpsertScanChunks(t)
           \/ IndexChunks(t) \/ IndexScanChunks(t)
    PROVE  LInv'
<1>. PICK d \in Doc : task[t].doc = d
  OBVIOUS
<1>. swept' = swept
  BY DEF apiVars
<1>1. CASE ImageToQdrant(t) \/ UpsertChunks(t) \/ UpsertScanChunks(t)
  <2>1. PICK pc : /\ <<task[t].pc, pc>> \in {<<"imgQdrant", "imgEs">>, <<"qdrant", "es">>}
                  /\ UpsertPoints(task[t].doc, task[t].batch) /\ Set(t, pc)
                  /\ UNCHANGED <<docs, rows, es>>
    BY <1>1 DEF ImageToQdrant, UpsertChunks, UpsertScanChunks
  <2>2. QED
    BY <2>1, ToQdrantLedger
<1>2. CASE ImageToEs(t)
  <2>. DEFINE q == [task[t] EXCEPT !.pc = "images", !.batch = {}]
  <2>1. task' = [task EXCEPT ![t] = q]
    BY <1>2, TaskFacts DEF ImageToEs, TasksTypeOK, TaskRecord
  <2>2. /\ q.pc = "images" /\ q.doc = d /\ q.kind = task[t].kind
        /\ q.pend = task[t].pend /\ q.batch = {} /\ q.broken = task[t].broken
    BY TaskFacts DEF TaskRecord
  <2>. HIDE DEF q
  <2>3. /\ task[t].pc = "imgEs" /\ BulkIndex(d, task[t].batch)
        /\ UNCHANGED <<docs, rows, qdrant>>
    BY <1>2 DEF ImageToEs
  <2>4. QED
    BY <2>1, <2>2, <2>3, ToEsLedger
<1>3. CASE IndexChunks(t) \/ IndexScanChunks(t)
  <2>1. /\ task[t].pc = "es" /\ BulkIndex(d, task[t].batch) /\ Set(t, "finish")
        /\ UNCHANGED <<docs, rows, qdrant>>
    BY <1>3 DEF IndexChunks, IndexScanChunks
  <2>2. PICK q : /\ task' = [task EXCEPT ![t] = q]
                 /\ q.pc = "finish" /\ q.doc = task[t].doc /\ q.kind = task[t].kind
                 /\ q.pend = task[t].pend /\ q.batch = task[t].batch
                 /\ q.broken = task[t].broken
    BY <2>1, SetIs
  <2>3. QED
    BY <2>1, <2>2, ToEsLedger
<1>4. QED
  BY <1>1, <1>2, <1>3

\* CompleteText, when the document is still there.
LEMMA TextDoneLedger ==
    ASSUME IInv, LInv, NEW t \in Task, NEW d \in Doc, task[t].doc = d,
           task[t].kind = "text", task[t].pc = "finish", EndTask(t, "done"),
           Exists(d), DocsKept(d),
           docs'[d].chunkCount = Cardinality(task[t].pend),
           CommitRows(d, task[t].pend),
           UNCHANGED <<qdrant, es, faulty, swept>>
    PROVE  LInv'
<1>1. PICK q : /\ task' = [task EXCEPT ![t] = q]
               /\ q.pc = "done" /\ q.doc = task[t].doc /\ q.kind = task[t].kind
               /\ q.pend = {} /\ q.batch = {} /\ ~q.broken
  BY EndTaskIs
<1>2. QED
  BY <1>1, CompleteTextLedger

LEMMA TextStepLedger ==
    ASSUME IInv, LInv, NEW t \in Task, TextStep(t), UNCHANGED apiVars,
           \A d \in Doc : ~InsertDocument(t, d)
    PROVE  LInv'
<1>. /\ StoresTypeOK /\ TasksTypeOK
     /\ task[t] \in TaskRecord /\ TaskOK(t) /\ PendOK(t) /\ Shape(task[t])
  BY LedgerFacts
<1>. swept' = swept
  BY DEF apiVars
<1>0. ASSUME TextFails(t), Excused(t), NoFault
      PROVE  LInv'
  <2>1. faulty \subseteq faulty'
    BY <1>0, FaultyGrows
  <2>2. QED
    BY <1>0, <2>1, EndTaskLedger DEF TextFails, EndPc
<1>1. CASE CheckFileHash(t) \/ StoreSource(t)
  BY <1>1, EarlyTextLedger
<1>2. CASE InsertDuplicate(t)
  <2>1. Excused(t)
    BY <1>2, StoresAssumption DEF InsertDuplicate, TaskOK, Early, Excused
  <2>2. QED
    BY <1>0, <1>2, <2>1 DEF InsertDuplicate
<1>3. ASSUME IsText(t), task[t].pc \in TextPc \ Early
      PROVE  task[t].doc \in Doc
  BY <1>3 DEF TaskOK
<1>4. ASSUME NEW i \in Img, ProcessImage(t, i)
      PROVE  LInv'
  <2>1. task[t].doc \in Doc
    BY <1>3, <1>4 DEF ProcessImage, ImageTurn, TextPc, Early
  <2>2. QED
    BY <1>4, <2>1, ImageTurnLedger DEF ProcessImage
<1>5. CASE IndexImagePoint(t) \/ IndexImageEntry(t) \/ UpsertChunks(t) \/ IndexChunks(t)
  <2>1. task[t].doc \in Doc
    BY <1>3, <1>5 DEF IndexImagePoint, IndexImageEntry, ImageToQdrant, ImageToEs,
                      UpsertChunks, IndexChunks, TextPc, Early
  <2>2. QED
    BY <1>5, <2>1, IndexStepsLedger DEF IndexImagePoint, IndexImageEntry
<1>6. CASE CommitImages(t)
  <2>1. task[t].doc \in Doc
    BY <1>3, <1>6 DEF CommitImages, TextPc, Early
  <2>2. CASE TextFails(t) /\ (task[t].broken \/ ~Exists(task[t].doc))
    BY <1>0, <1>6, <2>2 DEF CommitImages, Excused
  <2>3. CASE /\ ~task[t].broken
             /\ CommitRows(task[t].doc, task[t].pend)
             /\ task' = [task EXCEPT ![t].pc = "rows", ![t].pend = {}]
             /\ UNCHANGED <<docs, qdrant, es, esFresh, objects>>
    BY <1>6, <2>1, <2>3, CommitsLedger DEF CommitImages, NoFault
  <2>4. QED
    BY <1>6, <2>2, <2>3 DEF CommitImages
<1>7. CASE InsertChunks(t)
  <2>1. task[t].doc \in Doc
    BY <1>3, <1>7 DEF InsertChunks, TextPc, Early
  <2>2. PICK S \in SUBSET Txt :
          /\ task' = [task EXCEPT ![t].pc = "qdrant", ![t].pend = S, ![t].batch = S]
          /\ FaultIf(Exists(task[t].doc) /\ S # Txt, {task[t].doc})
    BY <1>7 DEF InsertChunks
  <2>. DEFINE q == [task[t] EXCEPT !.pc = "qdrant", !.pend = S, !.batch = S]
  <2>3. task' = [task EXCEPT ![t] = q]
    BY <2>2 DEF TasksTypeOK, TaskRecord
  <2>4. /\ q.pc = "qdrant" /\ q.doc = task[t].doc /\ q.kind = task[t].kind
        /\ q.pend = S /\ q.batch = S /\ q.broken = task[t].broken
    BY DEF TaskRecord
  <2>. HIDE DEF q
  <2>5. faulty \subseteq faulty'
    BY <2>2, FaultyGrows
  <2>6. /\ task[t].kind = "text" /\ task[t].pc = "rows"
        /\ UNCHANGED <<docs, rows, qdrant, es>>
    BY <1>7 DEF InsertChunks, IsText
  <2>7. QED
    BY <2>1, <2>3, <2>4, <2>5, <2>6, TextChunksLedger
<1>8. CASE CompleteText(t)
  <2>1. task[t].doc \in Doc
    BY <1>3, <1>8 DEF CompleteText, TextPc, Early
  <2>2. CASE ~Exists(task[t].doc)
    <3>1. Excused(t)
      BY <1>8, <2>2 DEF CompleteText, Excused
    <3>2. QED
      BY <1>0, <1>8, <2>2, <3>1 DEF CompleteText
  <2>3. CASE Exists(task[t].doc)
    <3>1. PICK d \in Doc : task[t].doc = d
      BY <2>1
    <3>2. docs' = [docs EXCEPT ![d].state = "completed",
                               ![d].chunkCount = Cardinality(task[t].pend)]
      BY <1>8, <2>3, <3>1 DEF CompleteText
    <3>3. DocsKept(d) /\ docs'[d].chunkCount = Cardinality(task[t].pend)
      BY <2>3, <3>1, <3>2 DEF DocsKept, Exists, StoresTypeOK, DocRecord
    <3>4. EndTask(t, "done")
      BY <1>8, <2>3 DEF CompleteText
    <3>5. /\ CommitRows(d, task[t].pend)
          /\ task[t].kind = "text" /\ task[t].pc = "finish"
          /\ UNCHANGED <<qdrant, es, faulty>>
      BY <1>8, <2>3, <3>1 DEF CompleteText, NoFault, IsText
    <3>6. Exists(d)
      BY <2>3, <3>1
    <3>7. QED
      BY <3>1, <3>3, <3>4, <3>5, <3>6, TextDoneLedger
  <2>4. QED
    BY <2>2, <2>3
<1>9. QED
  BY <1>1, <1>2, <1>4, <1>5, <1>6, <1>7, <1>8 DEF TextStep

\* The steps of the scanned path that leave the documents table alone.
LEMMA ScanStartLedger ==
    ASSUME IInv, LInv, NEW t \in Task, NEW d \in Doc, task[t].doc = d, UNCHANGED apiVars,
           ParseWithMinerU(t) \/ (LoadDocument(t) /\ Exists(d))
    PROVE  LInv'
<1>. task[t] \in TaskRecord /\ Shape(task[t]) /\ TasksTypeOK
  BY LedgerFacts
<1>. swept' = swept
  BY DEF apiVars
<1>1. CASE ParseWithMinerU(t)
  <2>1. PICK pc \in {"load"} : Set(t, pc)
    BY <1>1 DEF ParseWithMinerU
  <2>2. PICK q : /\ task' = [task EXCEPT ![t] = q]
                 /\ q.pc = pc /\ q.doc = task[t].doc /\ q.kind = task[t].kind
                 /\ q.pend = task[t].pend /\ q.batch = task[t].batch
                 /\ q.broken = task[t].broken
    BY <2>1, SetIs
  <2>3. /\ task[t].pc = "mineru"
        /\ UNCHANGED <<docs, rows, qdrant, es, faulty>>
    BY <1>1 DEF ParseWithMinerU, storeVars
  <2>4. Shape(q) /\ task[t].pend = {} /\ ~q.broken
    BY <2>2, <2>3 DEF Shape, ImagePc, ChunkPc
  <2>5. QED
    BY <2>2, <2>3, <2>4, ImageStepPreserves
<1>2. CASE LoadDocument(t) /\ Exists(d)
  <2>1. PICK images \in SUBSET Img :
          task' = [task EXCEPT ![t].pc = "images", ![t].todo = images]
    BY <1>2 DEF LoadDocument
  <2>. DEFINE q == [task[t] EXCEPT !.pc = "images", !.todo = images]
  <2>2. task' = [task EXCEPT ![t] = q]
    BY <2>1 DEF TasksTypeOK, TaskRecord
  <2>3. /\ q.pc = "images" /\ q.doc = d /\ q.kind = task[t].kind
        /\ q.pend = task[t].pend /\ q.batch = task[t].batch /\ q.broken = task[t].broken
    BY DEF TaskRecord
  <2>. HIDE DEF q
  <2>4. task[t].pc = "load" /\ UNCHANGED <<docs, rows, qdrant, es>>
    BY <1>2 DEF LoadDocument
  <2>5. faulty \subseteq faulty'
    BY <1>2, FaultyGrows DEF LoadDocument, Upload
  <2>6. Shape(q) /\ task[t].pend = {} /\ ~q.broken
    BY <2>3, <2>4 DEF Shape, ImagePc, ChunkPc
  <2>7. QED
    BY <2>2, <2>3, <2>4, <2>5, <2>6, ImageStepPreserves
<1>3. QED
  BY <1>1, <1>2

\* InsertScanChunks, whether or not it raises.
LEMMA InsertScanChunksLedger ==
    ASSUME IInv, LInv, NEW t \in Task, NEW d \in Doc, task[t].doc = d,
           InsertScanChunks(t), swept' = swept
    PROVE  LInv'
<1>. task[t] \in TaskRecord /\ Shape(task[t]) /\ TasksTypeOK
  BY LedgerFacts
<1>1. task[t].kind = "scan" /\ task[t].pc = "rows"
  BY DEF InsertScanChunks, IsScan
<1>2. task[t].pend = {}
  BY <1>1 DEF Shape, ImagePc, ChunkPc
<1>3. PICK S \in SUBSET Txt :
        /\ IF S # {} /\ (~Exists(d) \/ \E s \in S : Taken(t, s))
           THEN ScanFails(t)
           ELSE /\ CommitRows(d, S)
                /\ task' = [task EXCEPT ![t].pc = "qdrant", ![t].batch = S]
                /\ UNCHANGED <<docs, qdrant, es, esFresh, objects>>
        /\ FaultIf(S # Txt, {d})
  BY DEF InsertScanChunks
<1>4. CASE S # {} /\ (~Exists(d) \/ \E s \in S : Taken(t, s))
  <2>1. ScanFails(t) /\ faulty \subseteq faulty' /\ Excused(t)
    BY <1>1, <1>2, <1>3, <1>4, FaultyGrows DEF Excused
  <2>2. QED
    BY <2>1, ScanFailsLedger
<1>5. CASE ~(S # {} /\ (~Exists(d) \/ \E s \in S : Taken(t, s)))
  <2>. DEFINE q == [task[t] EXCEPT !.pc = "qdrant", !.batch = S]
  <2>1. /\ task' = [task EXCEPT ![t].pc = "qdrant", ![t].batch = S]
        /\ CommitRows(d, S) /\ FaultIf(S # Txt, {d})
        /\ UNCHANGED <<docs, qdrant, es>>
    BY <1>3, <1>5
  <2>2. task' = [task EXCEPT ![t] = q]
    BY <2>1 DEF TasksTypeOK, TaskRecord
  <2>3. /\ q.pc = "qdrant" /\ q.doc = d /\ q.kind = task[t].kind
        /\ q.pend = {} /\ q.batch = S /\ q.broken = task[t].broken
    BY <1>2 DEF TaskRecord
  <2>. HIDE DEF q
  <2>4. S # {} => Exists(d) /\ S \cap SlotsOf(rows, d) = {}
    BY <1>5 DEF Taken, SlotsOf
  <2>5. /\ CommitRows(d, S) /\ FaultIf(S # Txt, {d})
        /\ UNCHANGED <<docs, qdrant, es>>
    BY <2>1
  <2>6. QED
    BY <1>1, <2>2, <2>3, <2>4, <2>5, ScanChunksLedger
<1>6. QED
  BY <1>4, <1>5

\* CompleteScan, when the document is still there.
LEMMA ScanDoneLedger ==
    ASSUME IInv, LInv, NEW t \in Task, NEW d \in Doc, task[t].doc = d,
           CompleteScan(t), Exists(d), swept' = swept
    PROVE  LInv'
<1>. StoresTypeOK /\ TasksTypeOK /\ task[t] \in TaskRecord
  BY LedgerFacts
<1>. DEFINE q == [task[t] EXCEPT !.pc = "reload", !.batch = {}]
<1>1. task' = [task EXCEPT ![t] = q]
  BY DEF CompleteScan, TasksTypeOK, TaskRecord
<1>2. /\ q.pc = "reload" /\ q.doc = d /\ q.kind = task[t].kind
      /\ q.pend = task[t].pend /\ q.batch = {} /\ q.broken = task[t].broken
  BY DEF TaskRecord
<1>. HIDE DEF q
<1>3. docs' = [docs EXCEPT ![d].state = "completed", ![d].markdown = TRUE,
                           ![d].chunkCount = Cardinality(task[t].batch)]
  BY DEF CompleteScan
<1>4. DocsKept(d) /\ docs'[d].chunkCount = Cardinality(task[t].batch)
  BY <1>3 DEF DocsKept, Exists, StoresTypeOK, DocRecord
<1>5. /\ task[t].kind = "scan" /\ task[t].pc = "finish"
      /\ UNCHANGED <<rows, qdrant, es, faulty>>
  BY DEF CompleteScan, IsScan, NoFault
<1>6. Shape(task[t])
  BY LedgerFacts
<1>7. ~q.broken
  BY <1>2, <1>5, <1>6 DEF Shape, TaskRecord
<1>8. QED
  BY <1>1, <1>2, <1>4, <1>5, <1>7, CompleteScanLedger

LEMMA MarkedLedger ==
    ASSUME IInv, LInv, NEW t \in Task, NEW d \in Doc, task[t].doc = d,
           MarkFailed(t), swept' = swept
    PROVE  LInv'
<1>. StoresTypeOK /\ TasksTypeOK /\ TaskOK(t)
  BY LedgerFacts
<1>1. EndTask(t, "failed")
  BY DEF MarkFailed
<1>2. PICK q : /\ task' = [task EXCEPT ![t] = q]
               /\ q.pc = "failed" /\ q.doc = task[t].doc /\ q.kind = task[t].kind
               /\ q.pend = {} /\ q.batch = {} /\ ~q.broken
  BY <1>1, EndTaskIs
<1>3. docs' = IF Exists(d) THEN [docs EXCEPT ![d].state = "failed"] ELSE docs
  BY DEF MarkFailed
<1>4. docs[d].state # "free"
  BY DEF TaskOK, OwnerOK
<1>5. DocsKept(d) /\ docs'[d].state \in {"failed", "deleted"}
  BY <1>3, <1>4 DEF DocsKept, Exists, StoresTypeOK, DocRecord
<1>6. task[t].pc = "markFailed" /\ UNCHANGED <<rows, qdrant, es, faulty>>
  BY DEF MarkFailed
<1>7. QED
  BY <1>2, <1>5, <1>6, MarkFailedLedger

LEMMA ScanStepLedger ==
    ASSUME IInv, LInv, NEW t \in Task, ScanStep(t), UNCHANGED apiVars
    PROVE  LInv'
<1>. task[t] \in TaskRecord /\ TaskOK(t) /\ Shape(task[t])
  BY LedgerFacts
<1>. swept' = swept
  BY DEF apiVars
<1>1. Active(t)
  BY DEF ScanStep, ParseWithMinerU, LoadDocument, ProcessScanImage, ImageTurn,
         IndexScanImagePoint, ImageToQdrant, IndexScanImageEntry, ImageToEs,
         CommitScanImages, InsertScanChunks, UpsertScanChunks, IndexScanChunks, CompleteScan,
         ReloadDocument, MarkFailed, Active, EndPc
<1>2. IsScan(t)
  BY DEF ScanStep, ParseWithMinerU, LoadDocument, ProcessScanImage, IndexScanImagePoint,
         IndexScanImageEntry, CommitScanImages, InsertScanChunks, UpsertScanChunks,
         IndexScanChunks, CompleteScan, ReloadDocument, MarkFailed
<1>3. PICK d \in Doc : task[t].doc = d
  BY <1>1, <1>2 DEF TaskOK
<1>4. ASSUME ScanFails(t), NoFault,
             task[t].pc \notin {"qdrant", "es"},
             ~Exists(d) \/ task[t].pend = {} \/ task[t].broken
      PROVE  LInv'
  <2>1. faulty \subseteq faulty' /\ Excused(t)
    BY <1>3, <1>4, FaultyGrows DEF Excused
  <2>2. QED
    BY <1>4, <2>1, ScanFailsLedger
<1>5. CASE ParseWithMinerU(t)
  BY <1>3, <1>5, ScanStartLedger
<1>6. CASE LoadDocument(t)
  <2>1. CASE Exists(d)
    BY <1>3, <1>6, <2>1, ScanStartLedger
  <2>2. CASE ~Exists(d)
    BY <1>3, <1>4, <1>6, <2>2 DEF LoadDocument
  <2>3. QED
    BY <2>1, <2>2
<1>7. ASSUME NEW i \in Img, ProcessScanImage(t, i)
      PROVE  LInv'
  BY <1>3, <1>7, ImageTurnLedger DEF ProcessScanImage
<1>8. CASE \/ IndexScanImagePoint(t) \/ IndexScanImageEntry(t)
           \/ UpsertScanChunks(t) \/ IndexScanChunks(t)
  BY <1>3, <1>8, IndexStepsLedger DEF IndexScanImagePoint, IndexScanImageEntry
<1>9. CASE CommitScanImages(t)
  <2>1. CASE task[t].broken
    BY <1>4, <1>9, <2>1 DEF CommitScanImages
  <2>2. CASE ~task[t].broken
    BY <1>3, <1>9, <2>2, CommitsLedger DEF CommitScanImages, NoFault
  <2>3. QED
    BY <2>1, <2>2
<1>10. CASE InsertScanChunks(t)
  BY <1>3, <1>10, InsertScanChunksLedger
<1>11. CASE CompleteScan(t)
  <2>1. CASE Exists(d)
    BY <1>3, <1>11, <2>1, ScanDoneLedger
  <2>2. CASE ~Exists(d)
    BY <1>3, <1>4, <1>11, <2>2 DEF CompleteScan
  <2>3. QED
    BY <2>1, <2>2
<1>12. CASE ReloadDocument(t)
  <2>1. task[t].pend = {}
    BY <1>12 DEF ReloadDocument, Shape, ImagePc, ChunkPc
  <2>2. CASE Exists(d)
    <3>1. PICK pc \in EndPc : EndTask(t, pc)
      BY <1>3, <1>12, <2>2 DEF ReloadDocument, EndPc
    <3>2. UNCHANGED <<docs, rows, qdrant, es>> /\ NoFault /\ task[t].pc = "reload"
      BY <1>3, <1>12, <2>2 DEF ReloadDocument
    <3>3. faulty \subseteq faulty' /\ Excused(t)
      BY <2>1, <3>2, FaultyGrows DEF Excused
    <3>4. QED
      BY <3>1, <3>2, <3>3, EndTaskLedger
  <2>3. CASE ~Exists(d)
    BY <1>3, <1>4, <1>12, <2>3 DEF ReloadDocument
  <2>4. QED
    BY <2>2, <2>3
<1>13. CASE MarkFailed(t)
  BY <1>3, <1>13, MarkedLedger
<1>14. QED
  BY <1>5, <1>6, <1>7, <1>8, <1>9, <1>10, <1>11, <1>12, <1>13 DEF ScanStep

\* A task that raises, and a worker that dies.
LEMMA FailureLedger ==
    ASSUME IInv, LInv, NEW t \in Task, Fails(t), UNCHANGED apiVars
    PROVE  LInv'
<1>. swept' = swept
  BY DEF apiVars
<1>1. faulty \subseteq faulty' /\ Excused(t)
  <2>1. CASE TextRaises(t) \/ ScanRaises(t) \/ WorkerCrash(t)
    BY <2>1, FaultyGrows DEF TextRaises, ScanRaises, WorkerCrash, Excused
  <2>2. CASE MarkRaises(t)
    <3>1. Shape(task[t]) /\ task[t].pc = "markFailed"
      BY <2>2 DEF LInv, MarkRaises
    <3>2. task[t].pend = {} /\ task[t].pc \notin {"qdrant", "es"}
      BY <3>1 DEF Shape, ImagePc, ChunkPc
    <3>3. faulty \subseteq faulty'
      BY <2>2, FaultyGrows DEF MarkRaises
    <3>4. QED
      BY <3>2, <3>3 DEF Excused
  <2>3. QED
    BY <2>1, <2>2 DEF Fails
<1>2. CASE ScanRaises(t)
  BY <1>1, <1>2, ScanFailsLedger DEF ScanRaises
<1>3. CASE TextRaises(t) \/ MarkRaises(t) \/ WorkerCrash(t)
  <2>1. PICK pc \in EndPc : EndTask(t, pc)
    BY <1>3 DEF TextRaises, TextFails, MarkRaises, WorkerCrash, EndPc
  <2>2. UNCHANGED <<docs, rows, qdrant, es>>
    BY <1>3 DEF TextRaises, TextFails, MarkRaises, WorkerCrash
  <2>3. QED
    BY <1>1, <2>1, <2>2, EndTaskLedger
<1>4. QED
  BY <1>2, <1>3 DEF Fails

(***************************************************************************)
(* Document d is new, and task t, which had none, is its only task, or     *)
(* there is none: the broker could not be reached, or the script left it.  *)
(***************************************************************************)
LEMMA BindLedger ==
    ASSUME IInv, LInv, NEW t \in Task, NEW d \in Doc, docs[d] = FreeDoc, NEW q,
           task' = [task EXCEPT ![t] = q], task[t].doc \notin Doc, Shape(q),
           docs'[d].state \in {"pending", "processing"},
           \A e \in Doc \ {d} : docs'[e] = docs[e],
           \/ q.doc = d /\ q.pc \in {"mineru", "images"} /\ q.pend = {} /\ ~q.broken
           \/ q.doc \notin Doc,
           UNCHANGED <<rows, qdrant, es, swept>>, faulty \subseteq faulty'
    PROVE  LInv'
<1>1. task'[t] = q /\ \A u \in Task \ {t} : task'[u] = task[u]
  BY LedgerFacts DEF TasksTypeOK
<1>2. \A u \in Task : Shape(task'[u])
  BY <1>1 DEF LInv
<1>3. ASSUME NEW e \in Doc \ {d} PROVE Ledger(e)'
  <2>1. Unnoticed(e)
    BY <1>1, SlotsSame DEF Unnoticed
  <2>2. QED
    BY <2>1, LedgerFrame DEF LInv
<1>4. /\ \A u \in Task : task[u].doc # d
      /\ SlotsOf(rows, d) = {} /\ NoPoints(d)
  <2>1. ~Exists(d) /\ docs[d].state = "free"
    BY DEF Exists, FreeDoc
  <2>2. SlotsOf(rows, d) = {}
    BY <2>1 DEF IInv, RowsOwned
  <2>3. NoPoints(d)
    BY <2>1 DEF LInv, Ledger
  <2>4. QED
    BY <2>2, <2>3, FreeIsUnknown
<1>5. SlotsOf(rows, d)' = {} /\ SlotsOf(qdrant, d)' = {} /\ SlotsOf(es, d)' = {}
  BY <1>4, SlotsSame DEF SameSlots, NoPoints
<1>6. \A u \in Task : task'[u].doc = d => u = t /\ q.doc = d
  BY <1>1, <1>4
<1>7. Tasked(d)'
  BY <1>5 DEF Tasked, NoPoints
<1>8. ASSUME NEW u \in Task, task'[u].doc = d
      PROVE  SoleFits(u, d)' /\ TaskIndexed(u, d)'
  <2>1. u = t /\ task'[u] = q /\ q.pc \in {"mineru", "images"} /\ q.pend = {} /\ ~q.broken
    BY <1>1, <1>6, <1>8
  <2>2. SoleFits(u, d)'
    BY <1>5, <2>1 DEF SoleFits, Before, ImagePc, ChunkPc, Exists
  <2>3. TaskIndexed(u, d)'
    BY <2>1 DEF TaskIndexed, ImagePc, ChunkPc
  <2>4. QED
    BY <2>2, <2>3
<1>9. RowsIndexed(d)'
  <2>1. \A u \in Task : ~Chunking(u, d)'
    BY <1>1, <1>6 DEF Chunking, ChunkPc
  <2>2. QED
    BY <1>5, <2>1 DEF RowsIndexed
<1>10. Ledger(d)'
  BY <1>7, <1>8, <1>9 DEF Ledger
<1>11. QED
  BY <1>2, <1>3, <1>10 DEF LInv

\* A task q as Submit makes it.
Submitted(q, kind, d) ==
    /\ q.pc = IF kind = "text" THEN "hash" ELSE "mineru"
    /\ q.kind = kind /\ q.doc = d
    /\ q.pend = {} /\ q.batch = {} /\ ~q.broken

LEMMA SubmitIs ==
    ASSUME NEW t \in Task, NEW kind, NEW f, NEW d, Submit(t, kind, f, d)
    PROVE  \E q : task' = [task EXCEPT ![t] = q] /\ Submitted(q, kind, d)
<1>. DEFINE q == [IdleTask EXCEPT !.pc = IF kind = "text" THEN "hash" ELSE "mineru",
                                  !.kind = kind, !.file = f, !.doc = d]
<1>1. task' = [task EXCEPT ![t] = q]
  BY DEF Submit
<1>2. Submitted(q, kind, d)
  BY DEF IdleTask, Submitted
<1>. HIDE DEF q
<1>3. QED
  BY <1>1, <1>2

LEMMA InsertDocumentLedger ==
    ASSUME IInv, LInv, NEW t \in Task, NEW d \in Doc, InsertDocument(t, d), UNCHANGED apiVars
    PROVE  LInv'
<1>. task[t] \in TaskRecord /\ TasksTypeOK /\ StoresTypeOK /\ TaskOK(t) /\ Shape(task[t])
  BY LedgerFacts
<1>1. PICK images \in SUBSET Img :
        task' = [task EXCEPT ![t].pc = "images", ![t].doc = d, ![t].todo = images]
  BY DEF InsertDocument
<1>. DEFINE q == [task[t] EXCEPT !.pc = "images", !.doc = d, !.todo = images]
<1>2. task' = [task EXCEPT ![t] = q]
  BY <1>1 DEF TasksTypeOK, TaskRecord
<1>3. /\ q.pc = "images" /\ q.doc = d /\ q.kind = task[t].kind
      /\ q.pend = task[t].pend /\ q.batch = task[t].batch /\ q.broken = task[t].broken
  BY DEF TaskRecord
<1>. HIDE DEF q
<1>4. task[t].pc = "insert" /\ task[t].doc \notin Doc /\ docs[d] = FreeDoc
  BY StoresAssumption DEF InsertDocument, TaskOK, Early
<1>5. Shape(q) /\ q.pend = {} /\ ~q.broken
  BY <1>3, <1>4 DEF Shape, ImagePc, ChunkPc
<1>6. docs'[d].state = "processing" /\ \A e \in Doc \ {d} : docs'[e] = docs[e]
  BY DEF InsertDocument, StoresTypeOK
<1>7. UNCHANGED <<rows, qdrant, es, swept>> /\ faulty' = faulty
  BY DEF InsertDocument, apiVars
<1>8. QED
  BY <1>2, <1>3, <1>4, <1>5, <1>6, <1>7, BindLedger

LEMMA ScanImportLedger ==
    ASSUME IInv, LInv, NEW t \in Task, NEW d \in Doc, ImportScanned(t, d) \/ ScriptImport(t, d)
    PROVE  LInv'
<1>. TasksTypeOK /\ StoresTypeOK
  BY LedgerFacts
<1>1. PICK s \in {"pending", "processing"} :
        InsertScanned(d, t, s) /\ (s = "processing" \/ ScriptImport(t, d))
  BY DEF ImportScanned, ScriptImport
<1>2. /\ docs[d] = FreeDoc /\ docs'[d].state = s
      /\ \A e \in Doc \ {d} : docs'[e] = docs[e]
  BY <1>1, InsertScannedFacts
<1>3. /\ task[t] = IdleTask /\ task[t].doc \notin Doc
      /\ UNCHANGED <<rows, qdrant, es, swept>>
      /\ faulty \subseteq faulty'
  BY StoresAssumption, FaultyGrows DEF ImportScanned, ScriptImport, IdleTask, apiVars
<1>4. CASE Submit(t, "scan", NoFile, d)
  <2>1. PICK q : task' = [task EXCEPT ![t] = q] /\ Submitted(q, "scan", d)
    BY <1>4, SubmitIs
  <2>2. q.pc = "mineru" /\ q.doc = d /\ q.pend = {} /\ ~q.broken /\ Shape(q)
    BY <2>1 DEF Submitted, Shape, ImagePc, ChunkPc
  <2>3. docs'[d].state \in {"pending", "processing"}
    BY <1>2
  <2>4. QED
    BY <1>2, <1>3, <2>1, <2>2, <2>3, BindLedger
<1>5. ASSUME NEW pc \in {"lost", "skipped"}, task' = [task EXCEPT ![t].pc = pc]
      PROVE  LInv'
  <2>1. Set(t, pc)
    BY <1>5 DEF Set
  <2>2. PICK q : /\ task' = [task EXCEPT ![t] = q]
                 /\ q.pc = pc /\ q.doc = task[t].doc /\ q.kind = task[t].kind
                 /\ q.pend = task[t].pend /\ q.batch = task[t].batch
                 /\ q.broken = task[t].broken
    BY <2>1, SetIs
  <2>3. Shape(q) /\ q.doc \notin Doc
    BY <1>3, <1>5, <2>2 DEF Shape, ImagePc, ChunkPc, IdleTask
  <2>4. docs'[d].state \in {"pending", "processing"}
    BY <1>2
  <2>5. QED
    BY <1>2, <1>3, <2>2, <2>3, <2>4, BindLedger
<1>6. QED
  BY <1>4, <1>5 DEF ImportScanned, ScriptImport

\* ImportText: the task has no document yet.
LEMMA ImportTextLedger ==
    ASSUME IInv, LInv, NEW t \in Task, NEW f \in File, ImportText(t, f)
    PROVE  LInv'
<1>1. PICK q : task' = [task EXCEPT ![t] = q] /\ Submitted(q, "text", NoDoc)
  BY SubmitIs DEF ImportText
<1>2. Shape(q) /\ q.doc = NoDoc
  BY <1>1 DEF Submitted, Shape, ImagePc, ChunkPc
<1>3. task[t].doc \notin Doc /\ q.doc \notin Doc
  BY <1>2, StoresAssumption DEF ImportText, IdleTask
<1>4. UNCHANGED <<docs, rows, qdrant, es, faulty, swept>>
  BY DEF ImportText, storeVars, apiVars
<1>5. QED
  BY <1>1, <1>2, <1>3, <1>4, BareStep

(***************************************************************************)
(* A second task for a pending document, which has one already: nothing is *)
(* promised any more of a sole task of the document.                       *)
(***************************************************************************)
LEMMA ResubmitLedger ==
    ASSUME IInv, LInv, NEW t \in Task, NEW d \in Doc, ResubmitPending(t, d)
    PROVE  LInv'
<1>. TasksTypeOK /\ StoresTypeOK /\ Ledger(d)
  BY LedgerFacts DEF LInv
<1>1. PICK q : task' = [task EXCEPT ![t] = q] /\ Submitted(q, "scan", d)
  BY SubmitIs DEF ResubmitPending
<1>2. q.pc = "mineru" /\ q.doc = d /\ Shape(q)
  BY <1>1 DEF Submitted, Shape, ImagePc, ChunkPc
<1>3. /\ task[t].doc \notin Doc /\ docs[d].state = "pending"
      /\ UNCHANGED <<docs, rows, qdrant, es, faulty, swept>>
  BY StoresAssumption DEF ResubmitPending, IdleTask, storeVars, apiVars
<1>4. task'[t] = q /\ \A u \in Task \ {t} : task'[u] = task[u]
  BY <1>1 DEF TasksTypeOK
<1>5. \A u \in Task : Shape(task'[u])
  BY <1>2, <1>4 DEF LInv
<1>6. ASSUME NEW e \in Doc \ {d} PROVE Ledger(e)'
  <2>1. Unnoticed(e)
    BY <1>2, <1>3, <1>4, SlotsSame DEF Unnoticed
  <2>2. QED
    BY <2>1, LedgerFrame DEF LInv
<1>7. SameSlots(d) /\ Indexes(d)' = Indexes(d)
  BY <1>3, SlotsSame
<1>8. ASSUME NEW u \in Task, task[u].doc = d PROVE ~SoleTask(d)'
  BY <1>2, <1>3, <1>4, <1>8 DEF SoleTask
<1>9. ASSUME SoleTask(d)', NEW v \in Task, task'[v].doc = d PROVE SoleFits(v, d)'
  <2>1. \A u \in Task : task[u].doc # d
    BY <1>8, <1>9
  <2>2. SlotsOf(rows, d) = {} /\ NoPoints(d)
    BY <1>3, <2>1 DEF Ledger, Tasked, Exists
  <2>3. task'[v] = q /\ q.kind = "scan" /\ q.pend = {} /\ ~q.broken
    BY <1>1, <1>4, <1>9, <2>1 DEF Submitted
  <2>4. QED
    BY <1>2, <1>3, <1>7, <2>2, <2>3
       DEF SoleFits, SameSlots, NoPoints, Before, ImagePc, ChunkPc, Exists
<1>10. ASSUME NEW v \in Task, task'[v].doc = d, Lossless(d)
       PROVE  TaskIndexed(v, d)'
  <2>1. CASE v = t
    BY <1>2, <1>4, <2>1 DEF TaskIndexed, ImagePc, ChunkPc
  <2>2. CASE v # t
    BY <1>3, <1>4, <1>7, <1>10, <2>2 DEF Ledger, TaskIndexed, SameSlots, Exists
  <2>3. QED
    BY <2>1, <2>2
<1>11. RowsIndexed(d) => RowsIndexed(d)'
  <2>1. \A v \in Task : /\ Chunking(v, d)' <=> Chunking(v, d)
                        /\ Chunking(v, d) => task'[v].pc = task[v].pc
    BY <1>2, <1>3, <1>4 DEF Chunking, ChunkPc
  <2>2. QED
    BY <1>3, <1>7, <2>1 DEF RowsIndexed, SameSlots
<1>12. Tasked(d)'
  BY <1>2, <1>4 DEF Tasked
<1>13. Ledger(d)'
  BY <1>3, <1>7, <1>9, <1>10, <1>11, <1>12 DEF Ledger, Lossless, SameSlots, NoPoints
<1>14. QED
  BY <1>5, <1>6, <1>13 DEF LInv

(***************************************************************************)
(* A handler's step that leaves MySQL and the tasks alone: the points of a *)
(* document stay as they are, unless it records a failure of the document  *)
(* or that its points were removed.                                        *)
(***************************************************************************)
LEMMA ApiLedger ==
    ASSUME LInv, UNCHANGED <<docs, rows, task>>,
           faulty \subseteq faulty', swept \subseteq swept',
           qdrant' \subseteq qdrant, es' \subseteq es,
           \A d \in Doc : d \in faulty' \cup swept' \/ SameSlots(d)
    PROVE  LInv'
<1>1. ASSUME NEW d \in Doc PROVE Ledger(d)'
  <2>. Ledger(d)
    BY DEF LInv
  <2>1. /\ SlotsOf(rows, d)' = SlotsOf(rows, d)
        /\ SlotsOf(qdrant, d)' \subseteq SlotsOf(qdrant, d)
        /\ SlotsOf(es, d)' \subseteq SlotsOf(es, d)
    BY DEF SlotsOf
  <2>2. Tasked(d)' /\ (docs'[d].state = "free" => NoPoints(d)')
    BY <2>1 DEF Ledger, Tasked, NoPoints, Exists
  <2>3. /\ SoleTask(d)' <=> SoleTask(d)
        /\ \A t \in Task : Chunking(t, d)' <=> Chunking(t, d)
    BY DEF SoleTask, Chunking
  <2>4. ASSUME NEW t \in Task, SoleFits(t, d) PROVE SoleFits(t, d)'
    BY <2>1, <2>4 DEF SoleFits, Exists
  <2>5. ASSUME Lossless(d)'
        PROVE  /\ Lossless(d)
               /\ RowsIndexed(d)'
               /\ \A t \in Task : TaskIndexed(t, d) => TaskIndexed(t, d)'
    <3>1. Lossless(d) /\ SameSlots(d)
      BY <2>5 DEF Lossless
    <3>2. Indexes(d)' = Indexes(d)
      BY <3>1 DEF SameSlots, Indexes
    <3>3. RowsIndexed(d)'
      BY <2>1, <2>3, <3>1, <3>2 DEF Ledger, RowsIndexed
    <3>4. ASSUME NEW t \in Task, TaskIndexed(t, d) PROVE TaskIndexed(t, d)'
      BY <3>1, <3>2, <3>4 DEF TaskIndexed, SameSlots, Exists
    <3>5. QED
      BY <3>1, <3>3, <3>4
  <2>6. QED
    BY <2>2, <2>3, <2>4, <2>5 DEF Ledger
<1>2. \A t \in Task : Shape(task'[t])
  BY DEF LInv
<1>3. QED
  BY <1>1, <1>2 DEF LInv

\* What a delete in Qdrant or Elasticsearch leaves of the other documents.
LEMMA DeletesOfOne ==
    ASSUME NEW d, NEW done \in BOOLEAN
    PROVE  /\ QdrantDelete(d, done) =>
                /\ qdrant' \subseteq qdrant
                /\ ~done => qdrant' = qdrant
                /\ \A e : e # d => SlotsOf(qdrant, e)' = SlotsOf(qdrant, e)
           /\ EsDelete(d, done) =>
                /\ es' \subseteq es
                /\ ~done => es' = es
                /\ \A e : e # d => SlotsOf(es, e)' = SlotsOf(es, e)
<1>1. Matched(d) \subseteq {d} \X Slot
  BY DEF Matched, PointsOf
<1>2. ASSUME NEW e, e # d, NEW s PROVE <<e, s>> \notin Matched(d)
  BY <1>1, <1>2
<1>3. QED
  BY <1>2 DEF QdrantDelete, EsDelete, SlotsOf

\* One index forgets points of document d, or answers False.
Removes(d, done) ==
    /\ \/ QdrantDelete(d, done) /\ UNCHANGED es
       \/ EsDelete(d, done) /\ UNCHANGED qdrant
    /\ Sweep(d, done)
    /\ FaultIf(~done, {d}) \/ FaultIf(~done, {})

LEMMA RemovesLedger ==
    ASSUME IInv, LInv, NEW d, NEW done \in BOOLEAN, Removes(d, done),
           UNCHANGED <<docs, rows, task>>
    PROVE  LInv'
<1>1. faulty \subseteq faulty'
  BY FaultyGrows DEF Removes
<1>2. swept \subseteq swept' /\ (done => d \in swept')
  BY DEF Removes, Sweep
<1>3. qdrant' \subseteq qdrant /\ es' \subseteq es
  BY DeletesOfOne DEF Removes
<1>4. ASSUME NEW e \in Doc PROVE e \in faulty' \cup swept' \/ SameSlots(e)
  <2>1. CASE e = d /\ done
    BY <1>2, <2>1
  <2>2. CASE e # d \/ ~done
    BY <2>2, DeletesOfOne DEF Removes, SameSlots, SlotsOf
  <2>3. QED
    BY <2>1, <2>2
<1>5. QED
  BY <1>1, <1>2, <1>3, <1>4, ApiLedger

LEMMA DeletesLedger ==
    ASSUME IInv, LInv,
           DeleteFromQdrant \/ DeleteFromEs \/ (\E d \in Doc : CleanQdrant(d) \/ CleanEs(d))
    PROVE  LInv'
<1>1. CASE DeleteFromQdrant \/ DeleteFromEs
  <2>1. PICK done \in BOOLEAN : Removes(api.doc, done)
    BY <1>1 DEF DeleteFromQdrant, DeleteFromEs, Removes
  <2>2. UNCHANGED <<docs, rows, task>>
    BY <1>1 DEF DeleteFromQdrant, DeleteFromEs
  <2>3. PICK d : d = api.doc
    OBVIOUS
  <2>4. QED
    BY <2>1, <2>2, <2>3, RemovesLedger
<1>2. ASSUME NEW d \in Doc, CleanQdrant(d) \/ CleanEs(d)
      PROVE  LInv'
  <2>1. PICK done \in BOOLEAN : Removes(d, done)
    BY <1>2 DEF CleanQdrant, CleanEs, Removes
  <2>2. UNCHANGED <<docs, rows, task>>
    BY <1>2 DEF CleanQdrant, CleanEs
  <2>3. QED
    BY <2>1, <2>2, RemovesLedger
<1>3. QED
  BY <1>1, <1>2

\* The commit of a delete: the document has no row left, whoever holds its id.
LEMMA DeletedLedger ==
    ASSUME IInv, LInv, DeleteFromMySQL
    PROVE  LInv'
<1>. StoresTypeOK /\ ApiOK
  BY DEF IInv, TypeOK
<1>1. PICK d \in Doc : d = api.doc
  BY DEF DeleteFromMySQL, ApiOK, Deleting
<1>2. /\ rows' = rows \ PointsOf(d, Slot)
      /\ docs' = [docs EXCEPT ![d].state = "deleted"]
      /\ UNCHANGED <<qdrant, es, faulty, task, swept>>
  BY <1>1 DEF DeleteFromMySQL
<1>3. docs'[d].state = "deleted" /\ \A e \in Doc \ {d} : docs'[e] = docs[e]
  BY <1>1, <1>2 DEF StoresTypeOK, DocRecord
<1>4. UNCHANGED <<qdrant, es, faulty, task, swept>>
  BY <1>2
<1>5. /\ SlotsOf(rows, d)' = {}
      /\ \A e \in Doc \ {d} : SlotsOf(rows, e)' = SlotsOf(rows, e)
      /\ \A e : /\ SlotsOf(qdrant, e)' = SlotsOf(qdrant, e)
                /\ SlotsOf(es, e)' = SlotsOf(es, e)
                /\ Indexes(e)' = Indexes(e)
  BY <1>2 DEF SlotsOf, PointsOf, Indexes
<1>6. ASSUME NEW e \in Doc \ {d} PROVE Ledger(e)'
  <2>1. Unnoticed(e)
    BY <1>3, <1>4, <1>5 DEF Unnoticed, SameSlots
  <2>2. QED
    BY <2>1, LedgerFrame DEF LInv
<1>7. Ledger(d)'
  <2>. Ledger(d)
    BY DEF LInv
  <2>1. Tasked(d)' /\ ~Exists(d)'
    BY <1>3 DEF Tasked, Exists
  <2>2. \A t \in Task : SoleFits(t, d)'
    BY <1>3, <1>5, <2>1 DEF SoleFits
  <2>3. \A t \in Task : TaskIndexed(t, d) => TaskIndexed(t, d)'
    BY <1>4, <1>5, <2>1 DEF TaskIndexed
  <2>4. \A t \in Task : Chunking(t, d)' <=> Chunking(t, d)
    BY <1>4 DEF Chunking
  <2>5. RowsIndexed(d) => RowsIndexed(d)'
    BY <1>3, <1>5, <2>4 DEF RowsIndexed
  <2>6. QED
    BY <1>3, <1>4, <2>1, <2>2, <2>3, <2>5 DEF Ledger, Lossless
<1>8. \A t \in Task : Shape(task'[t])
  BY <1>4 DEF LInv
<1>9. QED
  BY <1>6, <1>7, <1>8 DEF LInv

\* The steps of a handler that touch neither MySQL nor an index.
LEMMA AsideLedger ==
    ASSUME LInv, UNCHANGED <<docs, rows, qdrant, es, task, swept>>, faulty \subseteq faulty'
    PROVE  LInv'
BY SlotsSame, ApiLedger

LEMMA HandlerLedger ==
    ASSUME IInv, LInv, HandlerStep
    PROVE  LInv'
<1>1. CASE \E d \in Doc : DeleteLoad(d)
  BY <1>1, AsideLedger DEF DeleteLoad, storeVars, history
<1>2. CASE DeleteFromQdrant \/ DeleteFromEs \/ (\E d \in Doc : CleanQdrant(d) \/ CleanEs(d))
  BY <1>2, DeletesLedger
<1>3. CASE DeleteFromMinio
  <2>1. faulty \subseteq faulty'
    BY <1>3, FaultyGrows DEF DeleteFromMinio
  <2>2. QED
    BY <1>3, <2>1, AsideLedger DEF DeleteFromMinio, history
<1>4. CASE DeleteFromMySQL
  BY <1>4, DeletedLedger
<1>5. CASE DeleteRolledBack \/ ScanQdrant \/ ScanEs
  <2>1. faulty \subseteq faulty'
    BY <1>5, FaultyGrows DEF DeleteRolledBack, ScanQdrant, ScanEs
  <2>2. QED
    BY <1>5, <2>1, AsideLedger DEF DeleteRolledBack, ScanQdrant, ScanEs, history
<1>6. CASE QdrantCleaned \/ EsCleaned
  BY <1>6, AsideLedger DEF QdrantCleaned, EsCleaned, storeVars, history
<1>7. QED
  BY <1>1, <1>2, <1>3, <1>4, <1>5, <1>6 DEF HandlerStep

-----------------------------------------------------------------------------
\* Nothing is there at the beginning.
LEMMA InitLedger == Init => LInv
<1>. SUFFICES ASSUME Init PROVE LInv
  OBVIOUS
<1>1. \A t \in Task : task[t] = IdleTask
  BY DEF Init, TasksInit
<1>2. \A t \in Task : Shape(task[t])
  BY <1>1 DEF IdleTask, Shape, ImagePc, ChunkPc
<1>3. ASSUME NEW d \in Doc PROVE Ledger(d)
  <2>1. docs[d].state = "free"
    BY DEF Init, StoresInit, FreeDoc
  <2>2. SlotsOf(rows, d) = {} /\ NoPoints(d)
    BY DEF Init, StoresInit, SlotsOf, NoPoints
  <2>3. \A t \in Task : task[t].doc # d
    BY <1>1, StoresAssumption DEF IdleTask
  <2>4. Tasked(d) /\ RowsIndexed(d)
    BY <2>1, <2>2, <2>3 DEF Tasked, Exists, RowsIndexed, Chunking
  <2>5. QED
    BY <2>2, <2>3, <2>4 DEF Ledger
<1>4. QED
  BY <1>2, <1>3 DEF LInv

\* Every step of the system preserves the ledger.
LEMMA NextLedger == IInv /\ LInv /\ [Next]_vars => LInv'
<1>. SUFFICES ASSUME IInv, LInv, [Next]_vars PROVE LInv'
  OBVIOUS
<1>1. CASE Request
  <2>1. CASE \E t \in Task, f \in File : ImportText(t, f)
    BY <2>1, ImportTextLedger
  <2>2. CASE \E t \in Task, d \in Doc : ImportScanned(t, d) \/ ScriptImport(t, d)
    BY <2>2, ScanImportLedger
  <2>3. CASE \E t \in Task, d \in Doc : ResubmitPending(t, d)
    BY <2>3, ResubmitLedger
  <2>4. CASE (\E ds \in SUBSET Doc \ {{}} : DeleteRequest(ds)) \/ CleanupRequest
    BY <2>4, AsideLedger DEF DeleteRequest, CleanupRequest, storeVars, history
  <2>5. QED
    BY <1>1, <2>1, <2>2, <2>3, <2>4 DEF Request
<1>2. ASSUME NEW t \in Task, WorkerStep(t) PROVE LInv'
  <2>1. CASE \E d \in Doc : InsertDocument(t, d)
    BY <1>2, <2>1, InsertDocumentLedger DEF WorkerStep
  <2>2. CASE TextStep(t) /\ \A d \in Doc : ~InsertDocument(t, d)
    BY <1>2, <2>2, TextStepLedger DEF WorkerStep
  <2>3. CASE ScanStep(t)
    BY <1>2, <2>3, ScanStepLedger DEF WorkerStep
  <2>4. QED
    BY <1>2, <2>1, <2>2, <2>3 DEF WorkerStep
<1>3. CASE HandlerStep
  BY <1>3, HandlerLedger
<1>4. CASE Failure
  <2>1. ASSUME NEW t \in Task, Fails(t), UNCHANGED apiVars
        PROVE  LInv'
    BY <2>1, FailureLedger
  <2>2. CASE ApiCrash
    <3>1. faulty \subseteq faulty'
      BY <2>2, FaultyGrows DEF ApiCrash
    <3>2. QED
      BY <2>2, <3>1, AsideLedger DEF ApiCrash, history
  <2>3. QED
    BY <1>4, <2>1, <2>2 DEF Failure, Fails
<1>5. CASE Refresh
  BY <1>5, AsideLedger DEF Refresh, EsRefresh, apiVars
<1>6. CASE UNCHANGED vars
  BY <1>6, AsideLedger DEF vars, storeVars, apiVars
<1>7. QED
  BY <1>1, <1>2, <1>3, <1>4, <1>5, <1>6 DEF Next

\* The ledger is right in every reachable state of the system.
THEOREM LedgerInvariance == Spec => []LInv
<1>1. Init => LInv
  BY InitLedger
<1>2. IInv /\ LInv /\ [Next]_vars => LInv'
  BY NextLedger
<1>3. QED
  BY <1>1, <1>2, Invariance, PTL DEF Spec

(***************************************************************************)
(* However tasks, failures and deletes interleave, the chunk_count of a    *)
(* completed document that had one task is the number of its text chunk    *)
(* rows (the last commits of the two pipelines).                           *)
(***************************************************************************)
THEOREM CountsAreRight == Spec => []CompletedCount
<1>1. IInv /\ LInv => CompletedCount
  <2>. SUFFICES ASSUME IInv, LInv, NEW d \in Doc, docs[d].state = "completed", SoleTask(d)
                PROVE  docs[d].chunkCount = Cardinality(SlotsOf(rows, d) \cap Txt)
    BY DEF CompletedCount
  <2>1. PICK t \in Task : task[t].doc = d
    BY DEF LInv, Ledger, Tasked, Exists
  <2>2. QED
    BY <2>1 DEF LInv, Ledger, SoleFits
<1>2. QED
  BY <1>1, Invariance, LedgerInvariance, PTL

(***************************************************************************)
(* A completed document that met no failure and that no delete or cleanup  *)
(* has touched has every row in both indexes, although neither pipeline    *)
(* looks at the answers of the stores, the text path commits its chunks    *)
(* after it indexed them and the scanned path before.                      *)
(***************************************************************************)
THEOREM LossesAreExplained == Spec => []IndexLossExplained
<1>1. IInv /\ LInv => IndexLossExplained
  <2>. SUFFICES ASSUME IInv, LInv, NEW d \in Doc, docs[d].state = "completed",
                       d \notin faulty \cup swept, NEW s \in SlotsOf(rows, d)
                PROVE  Indexed(d, s)
    BY DEF IndexLossExplained
  <2>1. RowsIndexed(d)
    BY DEF LInv, Ledger, Lossless
  <2>2. SlotsOf(rows, d) \cap Txt \subseteq Indexes(d)
    <3>1. CASE \A t \in Task : ~Chunking(t, d)
      BY <2>1, <3>1 DEF RowsIndexed
    <3>2. CASE \E t \in Task : Chunking(t, d)
      <4>1. docs[d].scanned
        BY <3>2 DEF Chunking, IInv, TaskOK, OwnerOK, IsScan
      <4>2. Txt = {}
        BY <2>1, <3>2, <4>1 DEF RowsIndexed
      <4>3. QED
        BY <4>2
    <3>3. QED
      BY <3>1, <3>2
  <2>3. SlotsOf(rows, d) \cap Img \subseteq Indexes(d)
    BY <2>1 DEF RowsIndexed
  <2>4. s \in Indexes(d)
    BY <2>2, <2>3 DEF SlotsOf, Slot
  <2>5. QED
    BY <2>4 DEF Indexes, SlotsOf, Indexed
<1>2. QED
  BY <1>1, Invariance, LedgerInvariance, PTL

(***************************************************************************)
(* Points are written before the rows they are the points of, and still    *)
(* none is left without its row: the point of a document that one task     *)
(* processed without a failure is one of a row that is committed, or that  *)
(* its task is about to commit.                                            *)
(***************************************************************************)
THEOREM OrphansAreExplained == Spec => []OrphansExplained
<1>1. IInv /\ LInv => OrphansExplained
  <2>. SUFFICES ASSUME IInv, LInv, NEW d \in Doc, Exists(d), SoleTask(d), d \notin faulty
                PROVE  SlotsOf(qdrant \cup es, d) \subseteq Backed(d)
    BY DEF OrphansExplained
  <2>1. ASSUME NEW t \in Task, task[t].doc = d
        PROVE  SlotsOf(qdrant, d) \cup SlotsOf(es, d) \subseteq Backed(d)
    <3>1. SlotsOf(qdrant, d) \cup SlotsOf(es, d) \subseteq SlotsOf(rows, d) \cup task[t].pend
      BY <2>1 DEF LInv, Ledger, SoleFits
    <3>2. SlotsOf(rows, d) \cup task[t].pend \subseteq Backed(d)
      BY <2>1 DEF Backed
    <3>3. QED
      BY <3>1, <3>2
  <2>2. ASSUME \A t \in Task : task[t].doc # d
        PROVE  SlotsOf(qdrant, d) \cup SlotsOf(es, d) \subseteq Backed(d)
    BY <2>2 DEF LInv, Ledger, Tasked, NoPoints
  <2>3. SlotsOf(qdrant, d) \cup SlotsOf(es, d) \subseteq Backed(d)
    BY <2>1, <2>2
  <2>4. SlotsOf(qdrant \cup es, d) = SlotsOf(qdrant, d) \cup SlotsOf(es, d)
    BY DEF SlotsOf
  <2>5. QED
    BY <2>3, <2>4
<1>2. QED
  BY <1>1, Invariance, LedgerInvariance, PTL

-----------------------------------------------------------------------------
(***************************************************************************)
(* Nobody is left behind: the task a scanned document was imported with    *)
(* follows it to a final status, or ends in one of the three ways that     *)
(* leave a document behind (Stray).  After the last commit it may still go *)
(* wrong ("reload"), but then the status is written.                       *)
(***************************************************************************)
Stray == {"lost", "skipped", "unmarked"}

Open == {"pending", "processing"}

Working(t, d) ==
    /\ task[t].kind = "scan" /\ task[t].doc = d
    /\ task[t].pc \in ScanPc \ {"reload"}

Attended(d) ==
    /\ docs[d].task \in Task
    /\ LeftBehind(docs[d].task) \/ Working(docs[d].task, d)

AttendInv ==
    \A d \in Doc : docs[d].scanned /\ docs[d].state \in Open => Attended(d)

LEMMA ScanFailsGoesOn ==
    ASSUME TasksTypeOK, NEW t \in Task, ScanFails(t)
    PROVE  task'[t].pc = "markFailed"
BY DEF ScanFails, TasksTypeOK, TaskRecord

LEMMA ScanStepAttends ==
    ASSUME IInv, NEW t \in Task, NEW d \in Doc, Working(t, d), ScanStep(t)
    PROVE  task'[t].pc \in ScanPc \ {"reload"} \/ docs'[d].state \notin Open
<1>. /\ StoresTypeOK /\ TasksTypeOK /\ task[t] \in TaskRecord
     /\ task[t].doc = d /\ task[t].pc # "reload"
  BY TaskFacts DEF Working
<1>1. CASE ScanFails(t)
  BY <1>1, ScanFailsGoesOn DEF ScanPc
<1>2. CASE ParseWithMinerU(t)
  BY <1>2 DEF ParseWithMinerU, Set, TasksTypeOK, TaskRecord, ScanPc
<1>3. CASE LoadDocument(t)
  <2>1. CASE Exists(d)
    <3>1. PICK images \in SUBSET Img :
            task' = [task EXCEPT ![t].pc = "images", ![t].todo = images]
      BY <1>3, <2>1 DEF LoadDocument
    <3>2. task'[t].pc = "images"
      BY <3>1 DEF TasksTypeOK, TaskRecord
    <3>3. QED
      BY <3>2 DEF ScanPc
  <2>2. QED
    BY <1>1, <1>3, <2>1 DEF LoadDocument
<1>4. ASSUME NEW i \in Img, ProcessScanImage(t, i) PROVE task'[t].pc \in {"images", "imgQdrant"}
  <2> DEFINE key == ScanImage(task[t].doc, i)
  <2>1. task[t].pc = "images"
        /\ (FlushImage(t, i, key) \/ FlushImageRaises(t, i, key) \/ LoseImage(t, i, key))
    BY <1>4 DEF ProcessScanImage, ImageTurn
  <2> HIDE DEF key
  <2>2. CASE FlushImage(t, i, key)
    BY <2>2 DEF FlushImage, TasksTypeOK, TaskRecord
  <2>3. CASE FlushImageRaises(t, i, key)
    BY <2>1, <2>3 DEF FlushImageRaises, TasksTypeOK, TaskRecord
  <2>4. CASE LoseImage(t, i, key)
    BY <2>1, <2>4 DEF LoseImage, TasksTypeOK, TaskRecord
  <2>5. QED
    BY <2>1, <2>2, <2>3, <2>4
<1>5. CASE IndexScanImagePoint(t)
  BY <1>5 DEF IndexScanImagePoint, ImageToQdrant, Set, TasksTypeOK, TaskRecord, ScanPc
<1>6. CASE IndexScanImageEntry(t)
  BY <1>6 DEF IndexScanImageEntry, ImageToEs, TasksTypeOK, TaskRecord, ScanPc
<1>7. CASE CommitScanImages(t)
  <2>1. CASE task' = [task EXCEPT ![t].pc = "rows", ![t].pend = {}]
    BY <2>1 DEF TasksTypeOK, TaskRecord, ScanPc
  <2>2. QED
    BY <1>1, <1>7, <2>1 DEF CommitScanImages
<1>8. CASE InsertScanChunks(t)
  <2>1. PICK encoded \in SUBSET Txt :
          \/ ScanFails(t)
          \/ task' = [task EXCEPT ![t].pc = "qdrant", ![t].batch = encoded]
    BY <1>8 DEF InsertScanChunks
  <2>2. CASE task' = [task EXCEPT ![t].pc = "qdrant", ![t].batch = encoded]
    BY <2>2 DEF TasksTypeOK, TaskRecord, ScanPc
  <2>3. QED
    BY <1>1, <2>1, <2>2
<1>9. CASE UpsertScanChunks(t)
  BY <1>9 DEF UpsertScanChunks, Set, TasksTypeOK, TaskRecord, ScanPc
<1>10. CASE IndexScanChunks(t)
  BY <1>10 DEF IndexScanChunks, Set, TasksTypeOK, TaskRecord, ScanPc
<1>11. CASE CompleteScan(t)
  <2>1. CASE Exists(d)
    <3>1. docs'[d].state = "completed"
      BY <1>11, <2>1 DEF CompleteScan, StoresTypeOK, DocRecord
    <3>2. QED
      BY <3>1 DEF Open
  <2>2. QED
    BY <1>1, <1>11, <2>1 DEF CompleteScan
<1>12. CASE MarkFailed(t)
  <2>1. CASE Exists(d)
    <3>1. docs'[d].state = "failed"
      BY <1>12, <2>1 DEF MarkFailed, StoresTypeOK, DocRecord
    <3>2. QED
      BY <3>1 DEF Open
  <2>2. CASE ~Exists(d)
    BY <1>12, <2>2 DEF MarkFailed, Exists, Open
  <2>3. QED
    BY <2>1, <2>2
<1>13. ~ReloadDocument(t)
  BY DEF ReloadDocument
<1>14. QED
  BY <1>2, <1>3, <1>4, <1>5, <1>6, <1>7, <1>8, <1>9, <1>10, <1>11, <1>12, <1>13
     DEF ScanStep, ScanPc

\* Of the failures a raise is caught, but in a handler, and a crash is remembered.
LEMMA FailureAttends ==
    ASSUME IInv, NEW t \in Task, NEW d \in Doc, Working(t, d), Fails(t)
    PROVE  task'[t].pc \in {"markFailed"} \cup Stray
<1>. TasksTypeOK /\ ~IsText(t)
  BY TaskFacts DEF Working, IsText
<1>1. CASE ScanRaises(t)
  BY <1>1, ScanFailsGoesOn DEF ScanRaises
<1>2. CASE WorkerCrash(t)
  BY <1>2, EndTaskKeeps DEF WorkerCrash, EndPc, Stray
<1>3. CASE MarkRaises(t)
  BY <1>3, EndTaskKeeps DEF MarkRaises, EndPc, Stray
<1>4. QED
  BY <1>1, <1>2, <1>3 DEF Fails, TextRaises

\* A step of a worker: nobody else's document is closed or opened.
LEMMA WorkerAttends ==
    ASSUME IInv, AttendInv, NEW t \in Task, WorkerEffect(t),
           \A d \in Doc : Working(t, d) =>
               \/ task'[t].pc \in (ScanPc \ {"reload"}) \cup Stray
               \/ docs'[d].state \notin Open
    PROVE  AttendInv'
<1>1. Active(t) /\ Keeps(t) /\ StatusKept(t)
  BY DEF WorkerEffect, Writes
<1> SUFFICES ASSUME NEW d \in Doc, docs'[d].scanned, docs'[d].state \in Open
             PROVE  Attended(d)'
  BY DEF AttendInv
<1>2. /\ docs'[d].task = docs[d].task
      /\ docs[d].scanned /\ docs[d].state \in Open
  BY <1>1 DEF StatusKept, Open
<1>3. PICK u \in Task : /\ u = docs[d].task
                        /\ LeftBehind(u) \/ Working(u, d)
  BY <1>2 DEF AttendInv, Attended
<1>4. CASE u # t
  <2>1. task'[u] = task[u]
    BY <1>1, <1>4 DEF Keeps
  <2>2. QED
    BY <1>2, <1>3, <2>1 DEF Attended, Working, LeftBehind
<1>5. CASE u = t
  <2>1. Working(t, d)
    BY <1>1, <1>3, <1>5 DEF Active, EndPc, LeftBehind
  <2>2. task'[t].kind = "scan" /\ task'[t].doc = d
    BY <1>1, <2>1 DEF Keeps, Working
  <2>3. QED
    BY <1>2, <1>3, <1>5, <2>1, <2>2 DEF Attended, Working, LeftBehind, Stray
<1>6. QED
  BY <1>4, <1>5

\* A task that is submitted attended to nothing before.
LEMMA SubmitAttends ==
    ASSUME IInv, AttendInv, NEW t \in Task,
           \A u \in Task \ {t} : task'[u] = task[u],
           ~LeftBehind(t), \A e \in Doc : ~Working(t, e),
           \A e \in Doc : \/ docs'[e] = docs[e]
                          \/ docs'[e].scanned = FALSE
                          \/ /\ docs'[e].task = t
                             /\ task'[t].pc \in Stray \/ Working(t, e)'
    PROVE  AttendInv'
<1> SUFFICES ASSUME NEW d \in Doc, docs'[d].scanned, docs'[d].state \in Open
             PROVE  Attended(d)'
  BY DEF AttendInv
<1>1. CASE docs'[d] = docs[d]
  <2>1. PICK u \in Task : /\ u = docs[d].task
                          /\ LeftBehind(u) \/ Working(u, d)
    BY <1>1 DEF AttendInv, Attended
  <2>2. u # t /\ task'[u] = task[u]
    BY <2>1
  <2>3. QED
    BY <1>1, <2>1, <2>2 DEF Attended, Working, LeftBehind
<1>2. CASE docs'[d].task = t /\ (task'[t].pc \in Stray \/ Working(t, d)')
  BY <1>2 DEF Attended, Working, LeftBehind, Stray
<1>3. QED
  BY <1>1, <1>2

LEMMA InsertDocumentAttends ==
    ASSUME IInv, AttendInv, NEW t \in Task, NEW d \in Doc, InsertDocument(t, d)
    PROVE  AttendInv'
<1>. StoresTypeOK /\ TasksTypeOK /\ TaskOK(t)
  BY TaskFacts
<1>1. ~LeftBehind(t) /\ \A e \in Doc : ~Working(t, e)
  BY DEF InsertDocument, Working, IsText, LeftBehind
<1>2. \A u \in Task \ {t} : task'[u] = task[u]
  BY DEF InsertDocument, TasksTypeOK
<1>3. \A e \in Doc : docs'[e] = docs[e] \/ docs'[e].scanned = FALSE
  BY DEF InsertDocument, StoresTypeOK
<1>4. QED
  BY <1>1, <1>2, <1>3, SubmitAttends

LEMMA ImportAttends ==
    ASSUME IInv, AttendInv, NEW t \in Task, NEW d \in Doc,
           ImportScanned(t, d) \/ ScriptImport(t, d)
    PROVE  AttendInv'
<1>. StoresTypeOK /\ TasksTypeOK
  BY TaskFacts
<1>1. task[t] = IdleTask
  BY DEF ImportScanned, ScriptImport
<1>2. ~LeftBehind(t) /\ \A e \in Doc : ~Working(t, e)
  BY <1>1 DEF IdleTask, Working, LeftBehind
<1>3. docs'[d].task = t /\ \A e \in Doc \ {d} : docs'[e] = docs[e]
  BY DEF ImportScanned, ScriptImport, InsertScanned, StoresTypeOK
<1>4. CASE Submit(t, "scan", NoFile, d)
  <2>1. /\ task'[t].kind = "scan" /\ task'[t].doc = d /\ task'[t].pc = "mineru"
        /\ \A u \in Task \ {t} : task'[u] = task[u]
    BY <1>4, SubmitFacts
  <2>2. Working(t, d)'
    BY <2>1 DEF Working, ScanPc
  <2>3. QED
    BY <1>2, <1>3, <2>1, <2>2, SubmitAttends
<1>5. ASSUME NEW pc \in {"lost", "skipped"}, task' = [task EXCEPT ![t].pc = pc]
      PROVE  AttendInv'
  <2>1. task'[t].pc = pc /\ \A u \in Task \ {t} : task'[u] = task[u]
    BY <1>5 DEF TasksTypeOK, TaskRecord
  <2>2. task'[t].pc \in Stray
    BY <1>5, <2>1 DEF Stray
  <2>3. QED
    BY <1>2, <1>3, <2>1, <2>2, SubmitAttends
<1>6. QED
  BY <1>4, <1>5 DEF ImportScanned, ScriptImport

LEMMA TaskRequestAttends ==
    ASSUME IInv, AttendInv, NEW t \in Task,
           \/ \E f \in File : ImportText(t, f)
           \/ \E d \in Doc : ResubmitPending(t, d)
    PROVE  AttendInv'
<1>. TasksTypeOK
  BY TaskFacts
<1>1. task[t] = IdleTask /\ docs' = docs
  BY DEF ImportText, ResubmitPending, storeVars
<1>2. ~LeftBehind(t) /\ \A e \in Doc : ~Working(t, e)
  BY <1>1 DEF IdleTask, Working, LeftBehind
<1>3. \A u \in Task \ {t} : task'[u] = task[u]
  BY DEF ImportText, ResubmitPending, Submit, TasksTypeOK
<1>4. QED
  BY <1>1, <1>2, <1>3, SubmitAttends

\* A step that leaves the tasks alone, and the documents but for deleting one.
LEMMA AsideAttends ==
    ASSUME AttendInv, UNCHANGED task,
           \A e \in Doc : docs'[e] = docs[e] \/ docs'[e].state = "deleted"
    PROVE  AttendInv'
BY DEF AttendInv, Attended, Working, LeftBehind, Open

LEMMA NextAttends == IInv /\ AttendInv /\ [Next]_vars => AttendInv'
<1> SUFFICES ASSUME IInv, AttendInv, [Next]_vars PROVE AttendInv'
  OBVIOUS
<1>1. CASE UNCHANGED docs /\ UNCHANGED task
  BY <1>1, AsideAttends
<1>2. CASE Request
  <2>1. CASE \E t \in Task, d \in Doc : ImportScanned(t, d) \/ ScriptImport(t, d)
    BY <2>1, ImportAttends
  <2>2. CASE \E t \in Task : \/ \E f \in File : ImportText(t, f)
                             \/ \E d \in Doc : ResubmitPending(t, d)
    BY <2>2, TaskRequestAttends
  <2>3. CASE (\E ds \in SUBSET Doc \ {{}} : DeleteRequest(ds)) \/ CleanupRequest
    BY <1>1, <2>3 DEF DeleteRequest, CleanupRequest, storeVars
  <2>4. QED
    BY <1>2, <2>1, <2>2, <2>3 DEF Request
<1>3. ASSUME NEW t \in Task, WorkerStep(t) PROVE AttendInv'
  <2>1. CASE TextStep(t)
    <3>1. IsText(t)
      BY <2>1 DEF TextStep, CheckFileHash, InsertDuplicate, StoreSource, InsertDocument, ProcessImage,
                  IndexImagePoint, IndexImageEntry, CommitImages, InsertChunks,
                  UpsertChunks, IndexChunks, CompleteText
    <3>2. \A d \in Doc : ~Working(t, d)
      BY <3>1 DEF IsText, Working
    <3>3. QED
      BY <2>1, <3>2, TextStepEffect, WorkerAttends, InsertDocumentAttends
  <2>2. CASE ScanStep(t)
    BY <2>2, ScanStepEffect, ScanStepAttends, WorkerAttends
  <2>3. QED
    BY <1>3, <2>1, <2>2 DEF WorkerStep
<1>4. CASE HandlerStep
  <2>1. CASE DeleteFromMySQL
    <3>1. UNCHANGED task /\ docs' = [docs EXCEPT ![api.doc].state = "deleted"]
      BY <2>1 DEF DeleteFromMySQL
    <3>2. \A e \in Doc : docs'[e] = docs[e] \/ docs'[e].state = "deleted"
      BY <3>1 DEF IInv, TypeOK, StoresTypeOK, DocRecord
    <3>3. QED
      BY <3>1, <3>2, AsideAttends
  <2>2. CASE ~DeleteFromMySQL
    <3>1. UNCHANGED docs /\ UNCHANGED task
      BY <1>4, <2>2 DEF HandlerStep, DeleteLoad, CleanQdrant, CleanEs, DeleteFromQdrant,
             DeleteFromEs, DeleteFromMinio, DeleteRolledBack, ScanQdrant, ScanEs,
             QdrantCleaned, EsCleaned, storeVars
    <3>2. QED
      BY <1>1, <3>1
  <2>3. QED
    BY <2>1, <2>2
<1>5. CASE Failure
  <2>1. ASSUME NEW t \in Task, Fails(t)
        PROVE  AttendInv'
    <3>1. \A d \in Doc : Working(t, d) => task'[t].pc \in {"markFailed"} \cup Stray
      BY <2>1, FailureAttends
    <3>2. "markFailed" \in ScanPc \ {"reload"}
      BY DEF ScanPc
    <3>3. WorkerEffect(t)
      BY <2>1, FailureEffect
    <3>4. QED
      BY <3>1, <3>2, <3>3, WorkerAttends
  <2>2. CASE ApiCrash
    BY <1>1, <2>2 DEF ApiCrash, storeVars
  <2>3. QED
    BY <1>5, <2>1, <2>2 DEF Failure, Fails
<1>6. CASE Refresh
  BY <1>1, <1>6 DEF Refresh, EsRefresh
<1>7. CASE UNCHANGED vars
  BY <1>1, <1>7 DEF vars, storeVars
<1>8. QED
  BY <1>2, <1>3, <1>4, <1>5, <1>6, <1>7 DEF Next

(***************************************************************************)
(* However the tasks of a document, its resubmissions, its deletion and    *)
(* their failures interleave, the scanned path leaves a document in        *)
(* "pending" or "processing" without the task it was imported with only in *)
(* three ways: that task was lost with its worker or on its way to the     *)
(* broker; the script was told to submit none; or the handler that should  *)
(* have written "failed" could not write it (processor.py 145-159,         *)
(* scan_processor_tasks.py 53-68, import_scanned_pdfs.py 57-66).           *)
(***************************************************************************)
THEOREM NobodyIsLeftBehind == Spec => []ScanAttended
<1>1. Init => AttendInv
  BY DEF Init, StoresInit, FreeDoc, AttendInv, Open
<1>2. AttendInv => ScanAttended
  BY DEF AttendInv, Attended, ScanAttended, Working, LeftBehind, Open, Active, ScanPc, EndPc
<1>3. QED
  BY <1>1, <1>2, NextAttends, Invariance, PTL DEF Spec

=============================================================================
