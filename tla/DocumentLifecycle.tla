-------------------------- MODULE DocumentLifecycle --------------------------
(***************************************************************************)
(* The life of documents across MySQL, Qdrant, Elasticsearch and MinIO:    *)
(* Celery workers run the text and the scanned path, the API imports,      *)
(* deletes and cleans, scripts submit scanned documents.                   *)
(***************************************************************************)
EXTENDS TextIngestion, ScanIngestion, DocumentApi

CONSTANT Clients    \* who is active: a subset of AllClients

AllClients == {"text", "scan", "script", "resubmit", "delete", "cleanup"}

vars == <<storeVars, task, apiVars>>

Init == StoresInit /\ TasksInit /\ ApiInit

Request ==
    \/ "text" \in Clients /\ \E t \in Task, f \in File : ImportText(t, f)
    \/ "scan" \in Clients /\ \E t \in Task, d \in Doc : ImportScanned(t, d)
    \/ "script" \in Clients /\ \E t \in Task, d \in Doc : ScriptImport(t, d)
    \/ "resubmit" \in Clients /\ \E t \in Task, d \in Doc : ResubmitPending(t, d)
    \/ "delete" \in Clients /\ \E ds \in SUBSET Doc \ {{}} : DeleteRequest(ds)
    \/ "cleanup" \in Clients /\ CleanupRequest

WorkerStep(t) == (TextStep(t) \/ ScanStep(t)) /\ UNCHANGED apiVars

Failure ==
    \/ \E t \in Task : /\ TextRaises(t) \/ ScanRaises(t) \/ MarkRaises(t) \/ WorkerCrash(t)
                     /\ UNCHANGED apiVars
    \/ ApiCrash

Refresh == EsRefresh /\ UNCHANGED <<task, apiVars>>

Next ==
    \/ Request
    \/ \E t \in Task : WorkerStep(t)
    \/ HandlerStep
    \/ Failure
    \/ Refresh

Spec == Init /\ [][Next]_vars

(***************************************************************************)
(* A worker that has a task goes on with it, and so does the API process   *)
(* with a handler: neither waits for anything but a MySQL lock, which is   *)
(* released or times out.  Nothing forces a request or a failure.          *)
(***************************************************************************)
FairSpec ==
    /\ Spec
    /\ \A t \in Task : WF_vars(WorkerStep(t))
    /\ WF_vars(HandlerStep)

-----------------------------------------------------------------------------
(* Invariants.                                                             *)

TypeOK == StoresTypeOK /\ TasksTypeOK /\ ApiTypeOK

(***************************************************************************)
(* A chunk or image row belongs to a document that exists, committed or    *)
(* not: a delete that runs while a worker has uncommitted rows of the      *)
(* document waits for it, so that no commit brings rows back for a         *)
(* document that is gone.                                                  *)
(***************************************************************************)
RowsOwned ==
    /\ \A d \in Doc : SlotsOf(rows, d) # {} => Exists(d)
    /\ \A t \in Task : task[t].pend # {} => task[t].doc \in Doc /\ Exists(task[t].doc)

(***************************************************************************)
(* Two documents never hold the same file, however many imports of it run  *)
(* at once: the check of ingest_document alone does not ensure it.         *)
(***************************************************************************)
FileHashUnique ==
    \A d, e \in Doc :
        Exists(d) /\ Exists(e) /\ docs[d].file = docs[e].file /\ docs[d].file # NoFile
            => d = e

(***************************************************************************)
(* The chunk_count of a completed document is the number of its text chunk *)
(* rows, unless a second task was submitted for it.                        *)
(***************************************************************************)
SoleTask(d) == \A t, u \in Task : task[t].doc = d /\ task[u].doc = d => t = u

CompletedCount ==
    \A d \in Doc :
        docs[d].state = "completed" /\ SoleTask(d)
            => docs[d].chunkCount = Cardinality(SlotsOf(rows, d) \cap Txt)

(***************************************************************************)
(* A row of a completed document is missing from Qdrant or Elasticsearch   *)
(* only if a failure lost it while it was ingested, or a delete that did   *)
(* not go through or a cleanup removed it.                                 *)
(***************************************************************************)
Indexed(d, s) == <<d, s>> \in qdrant /\ <<d, s>> \in es

IndexLossExplained ==
    \A d \in Doc :
        docs[d].state = "completed" /\ d \notin faulty \cup swept
            => \A s \in SlotsOf(rows, d) : Indexed(d, s)

(***************************************************************************)
(* Once a text document has been deleted cleanly (its task was over, every *)
(* store answered, Elasticsearch had refreshed), no point of it is left    *)
(* and none ever comes back.                                               *)
(***************************************************************************)
PurgedStaysPurged ==
    \A d \in purged :
        KeyedByDocId(d) => SlotsOf(qdrant, d) = {} /\ SlotsOf(es, d) = {}

(***************************************************************************)
(* The points of a document that exists, that met no failure and that one  *)
(* task processed, are points of rows that are committed or about to be:   *)
(* although they are written before the commit, none is left behind.       *)
(***************************************************************************)
Backed(d) ==
    SlotsOf(rows, d) \cup UNION {task[t].pend : t \in {u \in Task : task[u].doc = d}}

OrphansExplained ==
    \A d \in Doc :
        Exists(d) /\ SoleTask(d) /\ d \notin faulty
            => SlotsOf(qdrant \cup es, d) \subseteq Backed(d)

(***************************************************************************)
(* A scanned document that is neither completed nor failed is attended to  *)
(* by the task it was imported with, or that task is one of three: lost by *)
(* a crash or by the broker; never submitted, since the script was told    *)
(* so; or failed where its handlers could not write the status either.     *)
(* Nothing else, no exception, no second task and no status written by     *)
(* one, leaves a document behind that nobody will finish.                  *)
(***************************************************************************)
LeftBehind(t) == task[t].pc \in {"lost", "skipped", "unmarked"}

ScanAttended ==
    \A d \in Doc :
        docs[d].scanned /\ docs[d].state \in {"pending", "processing"} =>
            LET t == docs[d].task
            IN  LeftBehind(t) \/ (Active(t) /\ task[t].doc = d)

-----------------------------------------------------------------------------
(* Refinement.                                                             *)

(***************************************************************************)
(* Every step on the documents table is a step of the abstract registry or *)
(* leaves it alone: a text document is completed once, by its own task,    *)
(* and never fails; a deleted id stays deleted, although workers still     *)
(* hold it; no file is registered twice.                                   *)
(***************************************************************************)
Registry == INSTANCE DocumentRegistry WITH
    status <- [d \in Doc |-> docs[d].state],
    fileOf <- [d \in Doc |-> docs[d].file],
    isScanned <- [d \in Doc |-> docs[d].scanned]

ImplementsRegistry == Registry!Spec

-----------------------------------------------------------------------------
(* Liveness.                                                               *)

(***************************************************************************)
(* A scanned document that has been submitted ends in "completed" or       *)
(* "failed", or is deleted, unless its worker crashes or cannot write that *)
(* it has failed.                                                          *)
(***************************************************************************)
ScanSettles ==
    \A t \in Task :
        task[t].pc = "mineru"
            ~> \/ LeftBehind(t)
               \/ \E d \in Doc :
                    task[t].doc = d /\ docs[d].state \in {"completed", "failed", "deleted"}

\* A handler ends, whatever the workers do meanwhile.
HandlerEnds == ~Idle ~> Idle

=============================================================================
