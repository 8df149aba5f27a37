------------------------ MODULE DocumentRegistryProofs ------------------------
(***************************************************************************)
(* DocumentLifecycle implements DocumentRegistry: every step maps to a     *)
(* step of the registry or leaves the documents table's status, file and   *)
(* kind alone.                                                             *)
(***************************************************************************)
EXTENDS DocumentLifecycleProofs

RegistryStep == [Registry!Next]_(Registry!registryVars)

\* No document changes as far as the registry can see.
SameDocs ==
    \A e \in Doc : /\ docs'[e].state = docs[e].state
                   /\ docs'[e].file = docs[e].file
                   /\ docs'[e].scanned = docs[e].scanned

\* Only document d changes, to status s, file f and kind b.
OneDoc(d, s, f, b) ==
    /\ docs'[d].state = s /\ docs'[d].file = f /\ docs'[d].scanned = b
    /\ \A e \in Doc \ {d} : /\ docs'[e].state = docs[e].state
                            /\ docs'[e].file = docs[e].file
                            /\ docs'[e].scanned = docs[e].scanned

\* A step that changes no document is a stutter of the registry.
LEMMA SameDocsStutters ==
    ASSUME SameDocs PROVE RegistryStep
<1>1. UNCHANGED Registry!registryVars
  BY DEF SameDocs, Registry!registryVars
<1>2. QED
  BY <1>1 DEF RegistryStep

\* A change of status is a completion, a failure or a removal.
LEMMA StatusMaps ==
    ASSUME NEW d \in Doc, NEW s, Exists(d),
           OneDoc(d, s, docs[d].file, docs[d].scanned),
           \/ s = "completed" /\ (docs[d].scanned \/ docs[d].state = "processing")
           \/ s = "failed" /\ docs[d].scanned
           \/ s = "deleted"
    PROVE  RegistryStep
<1>1. /\ [e \in Doc |-> docs'[e].state]
            = [[e \in Doc |-> docs[e].state] EXCEPT ![d] = s]
      /\ [e \in Doc |-> docs'[e].file] = [e \in Doc |-> docs[e].file]
      /\ [e \in Doc |-> docs'[e].scanned] = [e \in Doc |-> docs[e].scanned]
  <2>1. [e \in Doc |-> docs'[e].state] = [[e \in Doc |-> docs[e].state] EXCEPT ![d] = s]
    BY DEF OneDoc
  <2>2. \A e \in Doc : docs'[e].file = docs[e].file /\ docs'[e].scanned = docs[e].scanned
    BY DEF OneDoc
  <2>3. QED
    BY <2>1, <2>2
<1>2. Registry!Complete(d) \/ Registry!Fail(d) \/ Registry!Remove(d)
  BY <1>1 DEF Exists, Registry!Complete, Registry!Fail, Registry!Remove, Registry!Known
<1>3. Registry!Next
  BY <1>2 DEF Registry!Next
<1>4. QED
  BY <1>3 DEF RegistryStep

(***************************************************************************)
(* A worker's step: a text document can only be completed, by its own task *)
(* and from "processing" (OwnerOK).                                        *)
(***************************************************************************)
LEMMA WorkerMaps ==
    ASSUME IInv, NEW t \in Task, WorkerEffect(t)
    PROVE  RegistryStep
<1>. StatusKept(t) /\ Active(t) /\ TaskOK(t) /\ task[t] \in TaskRecord
  BY TaskFacts DEF WorkerEffect
<1>1. CASE \A e \in Doc : docs'[e].state = docs[e].state
  BY <1>1, SameDocsStutters DEF StatusKept, SameDocs
<1>2. ASSUME NEW d \in Doc, docs'[d].state # docs[d].state
      PROVE  RegistryStep
  <2>1. /\ d = task[t].doc /\ Exists(d)
        /\ docs'[d].state \in {"completed", "failed"}
        /\ IsText(t) => docs'[d].state = "completed"
    BY <1>2 DEF StatusKept
  <2>2. OneDoc(d, docs'[d].state, docs[d].file, docs[d].scanned)
    BY <2>1 DEF StatusKept, OneDoc
  <2>3. docs[d].scanned = IsScan(t) /\ (IsText(t) => docs[d].state = "processing")
    BY <2>1 DEF TaskOK, OwnerOK
  <2>4. IsText(t) \/ IsScan(t)
    BY DEF IsText, IsScan, TaskRecord
  <2>5. QED
    BY <2>1, <2>2, <2>3, <2>4, StatusMaps
<1>3. QED
  BY <1>1, <1>2

LEMMA InsertDocumentMaps ==
    ASSUME IInv, NEW t \in Task, NEW d \in Doc, InsertDocument(t, d)
    PROVE  RegistryStep
<1>. StoresTypeOK /\ TaskOK(t)
  BY TaskFacts
<1>1. PICK f \in File : f = task[t].file
  BY StoresAssumption DEF InsertDocument, TaskOK, Active, EndPc
<1>2. /\ docs[d].state = "free" /\ docs[d].scanned = FALSE
      /\ OneDoc(d, "processing", f, FALSE)
  BY <1>1 DEF InsertDocument, FreeDoc, StoresTypeOK, OneDoc
<1>3. \A e \in Doc : Exists(e) => docs[e].file # f
  BY <1>1 DEF InsertDocument, DocOfFile
<1>4. Registry!RegisterText(d, f)
  <2>1. \A e \in Doc : docs'[e].scanned = docs[e].scanned
    BY <1>2 DEF OneDoc
  <2>2. [e \in Doc |-> docs'[e].scanned] = [e \in Doc |-> docs[e].scanned]
    BY <2>1
  <2>3. [e \in Doc |-> docs'[e].state]
            = [[e \in Doc |-> docs[e].state] EXCEPT ![d] = "processing"]
    BY <1>2 DEF OneDoc
  <2>4. [e \in Doc |-> docs'[e].file] = [[e \in Doc |-> docs[e].file] EXCEPT ![d] = f]
    BY <1>2 DEF OneDoc
  <2>5. QED
    BY <1>2, <1>3, <2>2, <2>3, <2>4 DEF Registry!RegisterText, Registry!Known, Exists
<1>5. Registry!Next
  BY <1>4 DEF Registry!Next
<1>6. QED
  BY <1>5 DEF RegistryStep

LEMMA InsertScannedMaps ==
    ASSUME IInv, NEW t \in Task, NEW d \in Doc, NEW s \in {"pending", "processing"},
           InsertScanned(d, t, s)
    PROVE  RegistryStep
<1>. StoresTypeOK
  BY TaskFacts
<1>1. /\ docs[d].state = "free" /\ docs[d].file = NoFile
      /\ OneDoc(d, s, NoFile, TRUE)
  BY DEF InsertScanned, FreeDoc, StoresTypeOK, OneDoc
<1>2. Registry!RegisterScanned(d, s)
  <2>1. \A e \in Doc : docs'[e].file = docs[e].file
    BY <1>1 DEF OneDoc
  <2>2. [e \in Doc |-> docs'[e].file] = [e \in Doc |-> docs[e].file]
    BY <2>1
  <2>3. [e \in Doc |-> docs'[e].state] = [[e \in Doc |-> docs[e].state] EXCEPT ![d] = s]
    BY <1>1 DEF OneDoc
  <2>4. [e \in Doc |-> docs'[e].scanned]
            = [[e \in Doc |-> docs[e].scanned] EXCEPT ![d] = TRUE]
    BY <1>1 DEF OneDoc
  <2>5. QED
    BY <1>1, <2>2, <2>3, <2>4 DEF Registry!RegisterScanned
<1>3. Registry!Next
  BY <1>2 DEF Registry!Next
<1>4. QED
  BY <1>3 DEF RegistryStep

LEMMA DeleteFromMySQLMaps ==
    ASSUME IInv, DeleteFromMySQL
    PROVE  RegistryStep
<1>. StoresTypeOK /\ ApiOK
  BY DEF IInv, TypeOK
<1>1. PICK d \in Doc : d = api.doc /\ Exists(d)
  BY DEF DeleteFromMySQL, ApiOK, Deleting
<1>2. docs' = [docs EXCEPT ![d].state = "deleted"]
  BY <1>1 DEF DeleteFromMySQL
<1>3. OneDoc(d, "deleted", docs[d].file, docs[d].scanned)
  BY <1>2 DEF StoresTypeOK, DocRecord, OneDoc
<1>4. QED
  BY <1>1, <1>3, StatusMaps

\* Every step of the system is a step or a stutter of the registry.
LEMMA NextMaps == IInv /\ [Next]_vars => RegistryStep
<1>. SUFFICES ASSUME IInv, [Next]_vars PROVE RegistryStep
  OBVIOUS
<1>1. CASE UNCHANGED docs
  BY <1>1, SameDocsStutters DEF SameDocs
<1>2. CASE Request
  <2>1. CASE \E t \in Task, d \in Doc : ImportScanned(t, d) \/ ScriptImport(t, d)
    BY <2>1, InsertScannedMaps DEF ImportScanned, ScriptImport
  <2>2. CASE UNCHANGED docs
    BY <2>2, <1>1
  <2>3. QED
    BY <1>2, <2>1, <2>2 DEF Request, ImportText, ResubmitPending, DeleteRequest, CleanupRequest,
                            storeVars
<1>3. ASSUME NEW t \in Task, WorkerStep(t) PROVE RegistryStep
  BY <1>3, TextStepEffect, ScanStepEffect, WorkerMaps, InsertDocumentMaps DEF WorkerStep
<1>4. CASE HandlerStep
  <2>1. UNCHANGED docs \/ DeleteFromMySQL
    BY <1>4 DEF HandlerStep, DeleteLoad, CleanQdrant, CleanEs, DeleteFromQdrant, DeleteFromEs,
                DeleteFromMinio, DeleteRolledBack, ScanQdrant, ScanEs, QdrantCleaned, EsCleaned,
                storeVars
  <2>2. QED
    BY <1>1, <2>1, DeleteFromMySQLMaps
<1>5. CASE Failure
  <2>1. CASE \E t \in Task : Fails(t)
    BY <2>1, FailureEffect, WorkerMaps
  <2>2. CASE ApiCrash
    BY <1>1, <2>2 DEF ApiCrash
  <2>3. QED
    BY <1>5, <2>1, <2>2 DEF Failure, Fails
<1>6. CASE Refresh
  BY <1>1, <1>6 DEF Refresh, EsRefresh
<1>7. CASE UNCHANGED vars
  BY <1>1, <1>7 DEF vars, storeVars
<1>8. QED
  BY <1>2, <1>3, <1>4, <1>5, <1>6, <1>7 DEF Next

(***************************************************************************)
(* The documents table behaves like the registry: whatever the workers,    *)
(* handlers, scripts and failures do, a text document goes from            *)
(* "processing" to "completed" or is deleted, only a scanned document      *)
(* fails, a deleted id never comes back, and no file is registered twice.  *)
(***************************************************************************)
THEOREM RefinesRegistry == Spec => ImplementsRegistry
<1>1. Init => Registry!Init
  BY DEF Init, StoresInit, FreeDoc, Registry!Init
<1>2. IInv /\ [Next]_vars => [Registry!Next]_(Registry!registryVars)
  BY NextMaps DEF RegistryStep
<1>3. QED
  BY <1>1, <1>2, Invariance, PTL DEF Spec, ImplementsRegistry, Registry!Spec

=============================================================================
