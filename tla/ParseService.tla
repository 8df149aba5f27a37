---------------------------- MODULE ParseService ----------------------------
(***************************************************************************)
(* The parse service of MinerU (mineru/cli/fast_api.py): AsyncTaskManager  *)
(* with its queue, dispatcher, semaphore, events and cleanup, and the      *)
(* handlers of POST /tasks and POST /file_parse.                           *)
(*                                                                         *)
(* All of it runs on one event loop, so an action is what happens between  *)
(* two awaits.  A task is known by its id; the handler of the POST that    *)
(* created it has the same index.                                          *)
(***************************************************************************)
EXTENDS Naturals, Sequences, FiniteSets

CONSTANTS
    Task,           \* the ids uuid4 hands out
    MaxConcurrent,  \* get_max_concurrent_requests()
    MaxRestarts     \* bound: how often the process ends

ASSUME ServiceAssumption ==
    /\ IsFiniteSet(Task)
    /\ MaxConcurrent \in Nat \ {0}
    /\ MaxRestarts \in Nat

VARIABLES
    status,     \* status[t]: the AsyncParseTask of t, or why there is none
    number,     \* number[t]: its submit_order
    next,       \* _next_submit_order
    queue,      \* the asyncio.Queue of the dispatcher
    waiting,    \* processors that wait for the semaphore
    granted,    \* processors woken by the semaphore that have not run since
    holders,    \* processors a slot of the semaphore is counted for
    signalled,  \* tasks whose event is set
    wakeup,     \* manager_wakeup is set
    dirs,       \* output directories on disk
    strays,     \* history: directories nobody will remove any more
    manager,    \* the process: "running", "stopping" or "down"
    handler,    \* handler[t]: the POST that created t
    restarts    \* how often the process has ended

serviceVars == <<status, number, next, queue, waiting, granted, holders,
                 signalled, wakeup, dirs, strays, manager, handler, restarts>>
diskVars == <<dirs, strays>>
slotVars == <<waiting, granted, holders>>

Terminal == {"completed", "failed"}
Status == {"none", "pending", "processing", "removed", "lost"} \cup Terminal

Answer == {"none", "accepted", "full", "empty", "failed", "unavailable",
           "badRequest", "error"}
Handler == [kind: {"none", "sync", "async"},
            pc: {"none", "saving", "waiting", "building", "answered", "broken"},
            answer: Answer]
NoHandler == [kind |-> "none", pc |-> "none", answer |-> "none"]

\* The manager has the task in its dictionary.
Known(t) == status[t] \in {"pending", "processing"} \cup Terminal

ServiceInit ==
    /\ status = [t \in Task |-> "none"]
    /\ number = [t \in Task |-> 0]
    /\ next = 1
    /\ queue = <<>> /\ waiting = <<>> /\ granted = <<>>
    /\ holders = {} /\ signalled = {} /\ dirs = {} /\ strays = {}
    /\ wakeup = FALSE
    /\ manager = "running"
    /\ handler = [t \in Task |-> NoHandler]
    /\ restarts = 0

ServiceTypeOK ==
    /\ status \in [Task -> Status]
    /\ number \in [Task -> Nat]
    /\ next \in Nat \ {0}
    /\ queue \in Seq(Task) /\ waiting \in Seq(Task) /\ granted \in Seq(Task)
    /\ holders \in SUBSET Task /\ signalled \in SUBSET Task
    /\ dirs \in SUBSET Task /\ strays \in SUBSET Task
    /\ wakeup \in BOOLEAN
    /\ manager \in {"running", "stopping", "down"}
    /\ handler \in [Task -> Handler]
    /\ restarts \in Nat

-----------------------------------------------------------------------------
(***************************************************************************)
(* POST /file_parse ("sync") and POST /tasks ("async").                    *)
(***************************************************************************)
AnswerWith(t, a) ==
    handler' = [handler EXCEPT ![t].pc = "answered", ![t].answer = a]

\* create_async_parse_task makes the output directory and saves the uploads.
Accept(t, kind) ==
    /\ manager # "down"
    /\ handler[t] = NoHandler
    /\ handler' = [handler EXCEPT ![t] =
                     [kind |-> kind, pc |-> "saving", answer |-> "none"]]
    /\ dirs' = dirs \cup {t}
    /\ UNCHANGED <<status, number, next, queue, slotVars, signalled, wakeup,
                   strays, manager, restarts>>

\* Mutant: the directory of a rejected upload is not cleaned up.
RejectUploadKeeping(t, a) ==
    /\ handler[t].pc = "saving"
    /\ a \in {"badRequest", "error"}
    /\ AnswerWith(t, a)
    /\ UNCHANGED <<status, number, next, queue, slotVars, signalled, wakeup,
                   diskVars, manager, restarts>>

\* An unsupported file type, or an error while the uploads are written.  An
\* error of cleanup_file is swallowed, and then the directory stays.
RejectUpload(t, a) ==
    /\ handler[t].pc = "saving"
    /\ a \in {"badRequest", "error"}
    /\ AnswerWith(t, a)
    /\ \/ dirs' = dirs \ {t} /\ UNCHANGED strays
       \/ strays' = strays \cup {t} /\ UNCHANGED dirs
    /\ UNCHANGED <<status, number, next, queue, slotVars, signalled, wakeup,
                   manager, restarts>>

\* A service that stops has no manager any more, which is found out before the
\* try, or it cancels the handler, which no except catches: nobody removes the
\* directory.
LeaveUpload(t) ==
    /\ handler[t].pc = "saving"
    /\ manager = "stopping"
    /\ \/ AnswerWith(t, "unavailable")
       \/ handler' = [handler EXCEPT ![t].pc = "broken"]
    /\ strays' = strays \cup {t}
    /\ UNCHANGED <<status, number, next, queue, slotVars, signalled, wakeup,
                   dirs, manager, restarts>>

(***************************************************************************)
(* The task enters the dictionary and the queue.  POST /tasks answers at   *)
(* once, POST /file_parse waits for the event of the task or the wakeup of *)
(* the manager.                                                            *)
(***************************************************************************)
Submit(t) ==
    /\ handler[t].pc = "saving"
    /\ status' = [status EXCEPT ![t] = "pending"]
    /\ number' = [number EXCEPT ![t] = next]
    /\ next' = next + 1
    /\ queue' = Append(queue, t)
    /\ IF handler[t].kind = "async"
       THEN AnswerWith(t, "accepted")
       ELSE handler' = [handler EXCEPT ![t].pc = "waiting"]
    /\ UNCHANGED <<slotVars, signalled, wakeup, diskVars, manager, restarts>>

\* wait_for_terminal_state returns or raises TaskWaitAbortedError.
Resume(t) ==
    /\ handler[t].pc = "waiting"
    /\ t \in signalled \/ wakeup
    /\ CASE status[t] = "completed" ->
              handler' = [handler EXCEPT ![t].pc = "building"]
         [] status[t] = "failed" -> AnswerWith(t, "failed")
         [] OTHER -> AnswerWith(t, "unavailable")
    /\ UNCHANGED <<status, number, next, queue, slotVars, signalled, wakeup,
                   diskVars, manager, restarts>>

(***************************************************************************)
(* A thread reads the files of the result.  When the cleanup has taken     *)
(* them the answer is 200 all the same, with an empty result, or reading   *)
(* fails half-way.                                                         *)
(***************************************************************************)
\* Mutant: reading starts before the files are complete.
ResultsEarly(t) == {"full", "empty"}

\* A removal that fails may have taken some of the files.
Results(t) ==
    IF t \notin dirs THEN {"empty", "error"}
    ELSE IF t \in strays THEN {"full", "empty", "error"} ELSE {"full"}

BuildResult(t) ==
    /\ handler[t].pc = "building"
    /\ \E a \in Results(t) : AnswerWith(t, a)
    /\ UNCHANGED <<status, number, next, queue, slotVars, signalled, wakeup,
                   diskVars, manager, restarts>>

-----------------------------------------------------------------------------
(***************************************************************************)
(* The dispatcher makes a processor of the next id; the processor asks for *)
(* the semaphore.  asyncio.Semaphore is fair: it is locked while a waiter  *)
(* is queued or woken, a release hands its slot to the first waiter, and a *)
(* waiter that runs again wakes as many others as there are free slots.    *)
(***************************************************************************)
Free == MaxConcurrent - Cardinality(holders)

Dispatch ==
    /\ manager = "running"
    /\ queue # <<>>
    /\ LET t == Head(queue) IN
        IF Free > 0 /\ waiting = <<>> /\ granted = <<>>
        THEN /\ holders' = holders \cup {t}
             /\ status' = [status EXCEPT ![t] = "processing"]
             /\ UNCHANGED waiting
        ELSE /\ waiting' = Append(waiting, t)
             /\ UNCHANGED <<holders, status>>
    /\ queue' = Tail(queue)
    /\ UNCHANGED <<number, next, granted, signalled, wakeup, diskVars, manager,
                   handler, restarts>>

\* Mutants: nobody is woken; one waiter too many is.
WakeNone(n) == [granted |-> <<>>, holders |-> {}, waiting |-> waiting]

WakeOneMore(n) ==
    LET k == IF n + 1 < Len(waiting) THEN n + 1 ELSE Len(waiting)
        woken == SubSeq(waiting, 1, k)
    IN [granted |-> woken,
        holders |-> {woken[i] : i \in 1..k},
        waiting |-> SubSeq(waiting, k + 1, Len(waiting))]

\* The first waiters, as many as n, get a slot.
WakeFirst(n) ==
    LET k == IF n < Len(waiting) THEN n ELSE Len(waiting)
        woken == SubSeq(waiting, 1, k)
    IN [granted |-> woken,
        holders |-> {woken[i] : i \in 1..k},
        waiting |-> SubSeq(waiting, k + 1, Len(waiting))]

\* _run_task begins in a processor the semaphore has woken.
BeginParse ==
    /\ granted # <<>>
    /\ LET woken == WakeFirst(Free)
       IN /\ granted' = Tail(granted) \o woken.granted
          /\ holders' = holders \cup woken.holders
          /\ waiting' = woken.waiting
    /\ status' = [status EXCEPT ![Head(granted)] = "processing"]
    /\ UNCHANGED <<number, next, queue, signalled, wakeup, diskVars, manager,
                   handler, restarts>>

\* Mutant: the event is set only when the parse succeeds.
EndParseSilently(t, outcome) ==
    /\ t \in holders /\ status[t] = "processing"
    /\ outcome \in Terminal
    /\ status' = [status EXCEPT ![t] = outcome]
    /\ LET woken == WakeFirst(1)
       IN /\ granted' = granted \o woken.granted
          /\ holders' = (holders \ {t}) \cup woken.holders
          /\ waiting' = woken.waiting
    /\ signalled' = IF outcome = "completed" THEN signalled \cup {t} ELSE signalled
    /\ UNCHANGED <<number, next, queue, wakeup, diskVars, manager, handler, restarts>>

\* run_parse_job returns, or raises and the task is marked failed.
EndParse(t, outcome) ==
    /\ t \in holders /\ status[t] = "processing"
    /\ outcome \in Terminal
    /\ status' = [status EXCEPT ![t] = outcome]
    /\ LET woken == WakeFirst(1)
       IN /\ granted' = granted \o woken.granted
          /\ holders' = (holders \ {t}) \cup woken.holders
          /\ waiting' = woken.waiting
    /\ signalled' = signalled \cup {t}
    /\ UNCHANGED <<number, next, queue, wakeup, diskVars, manager, handler, restarts>>

\* Mutant: the retention period is counted from the submission.
CleanupByAge(S) ==
    /\ manager = "running"
    /\ S # {} /\ \A t \in S : Known(t)
    /\ status' = [t \in Task |-> IF t \in S THEN "removed" ELSE status[t]]
    /\ signalled' = signalled \cup S
    /\ dirs' = dirs \ S
    /\ UNCHANGED <<number, next, queue, slotVars, wakeup, strays, manager, handler, restarts>>

\* cleanup_expired_tasks forgets tasks whose retention period is over, those
\* in K too, whose directory can not be removed.
CleanupExpired(S) ==
    /\ manager = "running"
    /\ S # {} /\ \A t \in S : status[t] \in Terminal
    /\ status' = [t \in Task |-> IF t \in S THEN "removed" ELSE status[t]]
    /\ signalled' = signalled \cup S
    /\ \E K \in SUBSET S : dirs' = dirs \ (S \ K) /\ strays' = strays \cup K
    /\ UNCHANGED <<number, next, queue, slotVars, wakeup, manager, handler, restarts>>

-----------------------------------------------------------------------------
(***************************************************************************)
(* shutdown: the flag and the wakeup first, the dispatcher and the cleanup *)
(* are cancelled; then the processors are, and the process ends.  It may   *)
(* also be killed.  What it keeps in memory is gone, its directories stay. *)
(***************************************************************************)
\* Mutant: the waiters are not woken.
BeginShutdownQuietly ==
    /\ manager = "running"
    /\ restarts < MaxRestarts
    /\ manager' = "stopping"
    /\ UNCHANGED <<status, number, next, queue, slotVars, signalled, wakeup, diskVars,
                   handler, restarts>>

BeginShutdown ==
    /\ manager = "running"
    /\ restarts < MaxRestarts
    /\ manager' = "stopping"
    /\ wakeup' = TRUE
    /\ signalled' = signalled \cup {t \in Task : Known(t)}
    /\ UNCHANGED <<status, number, next, queue, slotVars, diskVars, handler, restarts>>

ProcessEnds ==
    /\ manager' = "down"
    /\ restarts' = restarts + 1
    /\ status' = [t \in Task |-> IF Known(t) THEN "lost" ELSE status[t]]
    /\ handler' = [t \in Task |->
                     IF handler[t].pc \in {"saving", "waiting", "building"}
                     THEN [handler[t] EXCEPT !.pc = "broken"] ELSE handler[t]]
    /\ queue' = <<>> /\ waiting' = <<>> /\ granted' = <<>>
    /\ holders' = {} /\ signalled' = {}
    /\ wakeup' = FALSE
    /\ next' = 1
    /\ UNCHANGED <<number, diskVars>>

EndShutdown == manager = "stopping" /\ ProcessEnds

Crash == manager = "running" /\ restarts < MaxRestarts /\ ProcessEnds

\* A new process: an empty manager.
StartUp ==
    /\ manager = "down"
    /\ manager' = "running"
    /\ UNCHANGED <<status, number, next, queue, slotVars, signalled, wakeup,
                   diskVars, handler, restarts>>

ServiceStep(t) ==
    \/ Submit(t) \/ Resume(t) \/ BuildResult(t) \/ LeaveUpload(t)
    \/ \E a \in {"badRequest", "error"} : RejectUpload(t, a)
    \/ \E outcome \in Terminal : EndParse(t, outcome)

ServiceNext ==
    \/ \E t \in Task :
        \/ \E kind \in {"sync", "async"} : Accept(t, kind)
        \/ ServiceStep(t)
    \/ Dispatch \/ BeginParse
    \/ \E S \in SUBSET Task : CleanupExpired(S)
    \/ BeginShutdown \/ EndShutdown \/ Crash \/ StartUp

ServiceSpec == ServiceInit /\ [][ServiceNext]_serviceVars

-----------------------------------------------------------------------------
(***************************************************************************)
(* The semaphore counts what runs: a job is processed only in a slot, and  *)
(* no more than MaxConcurrent slots are given away (AsyncTaskManager and   *)
(* _request_semaphore, fast_api.py:1136).                                  *)
(***************************************************************************)
SlotsRespected ==
    /\ \A t \in Task : status[t] = "processing" => t \in holders
    /\ Cardinality(holders) <= MaxConcurrent

(***************************************************************************)
(* No slot is idle while a processor waits for one, except in the moment   *)
(* between a release and the run of the waiter it has woken.               *)
(***************************************************************************)
WorkConserving ==
    waiting # <<>> => granted # <<>> \/ Free = 0

(***************************************************************************)
(* A handler of POST /file_parse that waits will be woken: its task is     *)
(* still on its way through the queue, the semaphore or the parser of a    *)
(* running manager, or an event it waits for is set                        *)
(* (wait_for_terminal_state, fast_api.py:1016).                            *)
(***************************************************************************)
OnItsWay(t) ==
    \/ status[t] = "pending" /\ \E q \in {queue, waiting, granted} :
                                    \E i \in 1..Len(q) : q[i] = t
    \/ status[t] = "processing" /\ t \in holders

NoLostWakeup ==
    \A t \in Task :
        handler[t].pc = "waiting" =>
            \/ manager = "running" /\ OnItsWay(t)
            \/ t \in signalled
            \/ wakeup

(***************************************************************************)
(* Files are there as long as somebody may ask for them and no longer: a   *)
(* task of the manager has its directory, untouched, and a directory       *)
(* belongs to an upload, to a task of the manager or to a process that has *)
(* ended, unless its removal has failed or was left out                    *)
(* (create_async_parse_task, cleanup_expired_tasks, fast_api.py:351).      *)
(***************************************************************************)
DirsOwned ==
    /\ \A t \in Task : Known(t) => t \in dirs \ strays
    /\ \A t \in dirs \ strays :
        \/ Known(t) \/ status[t] = "lost"
        \/ handler[t].pc \in {"saving", "broken"}

\* A task that has been forgotten is gone for its submitter.
Phase(t) == IF status[t] \in {"removed", "lost"} THEN "gone" ELSE status[t]

\* The jobs as their submitters see them: started in order, within the limit.
Jobs == INSTANCE ParseJobs WITH phase <- [t \in Task |-> Phase(t)]
ImplementsJobs == Jobs!Spec

=============================================================================
