---------------------------- MODULE MinerUClient ----------------------------
(***************************************************************************)
(* Calls of parse_with_retry (mineru_client.py) against the parse service: *)
(* a text PDF (parser.py) and a scanned PDF (processor.py) submit, poll    *)
(* and fetch; mode "sync" posts and waits.  Requests have no identity the  *)
(* service could recognise a second one by, so a retry is a new job.       *)
(*                                                                         *)
(* A retry depends on the text of the error: it holds "500" for certain    *)
(* ("must": a 500 answer, and every error that is not a RuntimeError), by  *)
(* chance ("may": ids, object addresses and messages of the service), or   *)
(* not ("never").                                                          *)
(***************************************************************************)
EXTENDS ParseService

CONSTANTS
    Client,      \* calls of parse_with_retry
    NoTask,      \* the job of a call that has none
    MaxRetries,  \* max_retries
    MaxDrops     \* bound: answers the network loses

ASSUME ClientAssumption ==
    /\ NoTask \notin Task
    /\ MaxRetries \in Nat \ {0}
    /\ MaxDrops \in Nat

VARIABLES
    client,      \* client[c]: one call
    believed,    \* _mineru_available of the parser of the worker process
    drops        \* answers lost

clientVars == <<client, believed, drops>>
vars == <<serviceVars, clientVars>>

Kind == {"text", "scan", "sync"}
Call == [kind: Kind \cup {"none"},
         pc: {"idle", "ready", "posting", "polling", "fetching", "reading",
              "cut", "hung", "done"},
         attempt: 0..MaxRetries,
         job: Task \cup {NoTask},
         jobs: SUBSET Task,
         hit: BOOLEAN,             \* an answer was lost or the process ended
         result: {"none", "full", "empty", "pymupdf", "failed"}]

Init ==
    /\ ServiceInit
    /\ client = [c \in Client |->
                   [kind |-> "none", pc |-> "idle", attempt |-> 0, job |-> NoTask,
                    jobs |-> {}, hit |-> FALSE, result |-> "none"]]
    /\ believed = "unknown"
    /\ drops = 0

TypeOK ==
    /\ ServiceTypeOK
    /\ client \in [Client -> Call]
    /\ believed \in {"unknown", "yes", "no"}
    /\ drops \in 0..MaxDrops

-----------------------------------------------------------------------------
Goto(c, pc) == client' = [client EXCEPT ![c].pc = pc]

\* What a failed call leaves: a text PDF is read with PyMuPDF.
Finish(c, result) ==
    [client[c] EXCEPT !.pc = "done",
        !.result = IF result = "failed" /\ client[c].kind = "text"
                   THEN "pymupdf" ELSE result]

Return(c, result) == client' = [client EXCEPT ![c] = Finish(c, result)]

\* Mutant: attempts are not counted.
AttemptFailsAgain(c, retry, hit) ==
    \/ /\ retry \in {"may", "must"}
       /\ client' = [client EXCEPT ![c].pc = "ready", ![c].hit = @ \/ hit]
    \/ /\ retry \in {"may", "never"}
       /\ client' = [client EXCEPT ![c] = [Finish(c, "failed")
                                             EXCEPT !.hit = @ \/ hit]]

\* The handlers of parse_with_retry.
AttemptFails(c, retry, hit) ==
    \/ /\ retry \in {"may", "must"} /\ client[c].attempt < MaxRetries
       /\ client' = [client EXCEPT ![c].pc = "ready", ![c].attempt = @ + 1,
                                   ![c].hit = @ \/ hit]
    \/ /\ retry \in {"may", "never"} \/ client[c].attempt = MaxRetries
       /\ client' = [client EXCEPT ![c] = [Finish(c, "failed")
                                             EXCEPT !.hit = @ \/ hit]]

(***************************************************************************)
(* The call begins.  The parser asks for the health of the service once    *)
(* and keeps the answer, the scan processor asks each time, mode "sync"    *)
(* does not ask.  The request itself may be lost.                          *)
(***************************************************************************)
\* Mutant: a service with work in its queue counts as unhealthy.
HealthyIdle(lost) == manager = "running" /\ queue = <<>> /\ ~lost

\* health_check: GET /health, is_healthy of the manager.  An answer later than
\* its timeout is a lost one; last_worker_error stays empty, since what the
\* loops of the manager call catches its own errors.
Healthy(lost) == manager = "running" /\ ~lost

Asks(kind) ==
    \/ kind = "scan"
    \/ kind = "text" /\ believed = "unknown"

Begin(c, kind, lost) ==
    /\ client[c].pc = "idle"
    /\ drops' = IF lost THEN drops + 1 ELSE drops
    /\ LET usable == CASE kind = "sync" -> TRUE
                       [] kind = "scan" -> Healthy(lost)
                       [] OTHER -> IF believed = "unknown" THEN Healthy(lost)
                                   ELSE believed = "yes"
       IN /\ lost => drops < MaxDrops /\ Asks(kind)
          /\ believed' = IF kind # "text" THEN believed
                         ELSE IF usable THEN "yes" ELSE "no"
          /\ client' = [client EXCEPT ![c].kind = kind,
                          ![c].pc = IF usable THEN "ready" ELSE "done",
                          ![c].attempt = 1,
                          ![c].result = IF usable THEN "none"
                                        ELSE IF kind = "text" THEN "pymupdf"
                                        ELSE "failed"]
    /\ UNCHANGED serviceVars

Mode(c) == IF client[c].kind = "sync" THEN "sync" ELSE "async"

\* POST /tasks or POST /file_parse.
Post(c, t) ==
    /\ client[c].pc = "ready"
    /\ Accept(t, Mode(c))
    /\ client' = [client EXCEPT ![c].pc = "posting", ![c].job = t,
                                ![c].jobs = @ \cup {t}]
    /\ UNCHANGED <<believed, drops>>

\* Nobody listens.
Refused(c) ==
    /\ client[c].pc = "ready"
    /\ manager = "down"
    /\ AttemptFails(c, "may", TRUE)
    /\ UNCHANGED <<serviceVars, believed, drops>>

\* The response to the POST.  The answers 409 and 503 show the whole job, ids
\* and times included.
ReadAnswer(c) ==
    /\ client[c].pc = "posting"
    /\ LET h == handler[client[c].job]
       IN \/ h.answer = "accepted" /\ Goto(c, "polling")
          \/ h.answer \in {"full", "empty"} /\ Return(c, h.answer)
          \/ h.answer = "badRequest" /\ AttemptFails(c, "never", FALSE)
          \/ h.answer \in {"failed", "unavailable"} /\ AttemptFails(c, "may", FALSE)
          \/ h.answer = "error" /\ AttemptFails(c, "must", FALSE)
          \/ h.pc = "broken" /\ AttemptFails(c, "may", TRUE)
    /\ UNCHANGED <<serviceVars, believed, drops>>

\* GET /tasks/{task_id}; while the job is not terminal the client sleeps.
Poll(c) ==
    /\ client[c].pc = "polling"
    /\ LET t == client[c].job
       IN \/ manager = "down" /\ AttemptFails(c, "may", TRUE)
          \/ manager # "down" /\ ~Known(t) /\ AttemptFails(c, "may", FALSE)
          \/ status[t] = "failed" /\ AttemptFails(c, "may", FALSE)
          \/ status[t] = "completed" /\ Goto(c, "fetching")
    /\ UNCHANGED <<serviceVars, believed, drops>>

\* Mutant: a timeout is retried.
GiveUpRetrying(c) ==
    /\ \/ client[c].pc = "polling"
       \/ client[c].pc = "posting" /\ client[c].kind = "sync"
    /\ AttemptFails(c, "must", FALSE)
    /\ UNCHANGED <<serviceVars, believed, drops>>

\* max_poll_time is over, which is looked at before each poll, or the timeout of
\* the POST of mode "sync".  The job goes on.
GiveUp(c) ==
    /\ \/ client[c].pc = "polling"
       \/ client[c].pc = "posting" /\ client[c].kind = "sync"
    /\ AttemptFails(c, "never", FALSE)
    /\ UNCHANGED <<serviceVars, believed, drops>>

\* GET /tasks/{task_id}/result finds the task; a thread then reads its files.
Fetch(c) ==
    /\ client[c].pc = "fetching"
    /\ \/ manager = "down" /\ AttemptFails(c, "may", TRUE)
       \/ manager # "down" /\ ~Known(client[c].job) /\ AttemptFails(c, "may", FALSE)
       \/ Known(client[c].job) /\ Goto(c, "reading")
    /\ UNCHANGED <<serviceVars, believed, drops>>

Read(c) ==
    /\ client[c].pc = "reading"
    /\ \E r \in Results(client[c].job) :
        IF r = "error" THEN AttemptFails(c, "must", FALSE) ELSE Return(c, r)
    /\ UNCHANGED <<serviceVars, believed, drops>>

\* The process ended while it read.
Cut(c) ==
    /\ client[c].pc = "cut"
    /\ AttemptFails(c, "may", TRUE)
    /\ UNCHANGED <<serviceVars, believed, drops>>

\* The connection breaks before the answer to a request is there, and in the
\* retries of the HTTP adapter.
Drop(c) ==
    /\ drops < MaxDrops
    /\ client[c].pc \in {"posting", "polling", "fetching", "reading"}
    /\ drops' = drops + 1
    /\ AttemptFails(c, "may", TRUE)
    /\ UNCHANGED <<serviceVars, believed>>

\* Nobody notices that an answer is lost, or the service does not give one.  The
\* requests of mode "async" have no timeout: this one waits for ever.
Hang(c) ==
    /\ drops < MaxDrops
    /\ Mode(c) = "async"
    /\ client[c].pc \in {"posting", "polling", "fetching", "reading"}
    /\ drops' = drops + 1
    /\ client' = [client EXCEPT ![c].pc = "hung", ![c].hit = TRUE]
    /\ UNCHANGED <<serviceVars, believed>>

-----------------------------------------------------------------------------
ClientStep(c) ==
    \/ \E t \in Task : Post(c, t)
    \/ Refused(c) \/ ReadAnswer(c) \/ Poll(c) \/ Fetch(c) \/ Read(c) \/ Cut(c)

ProcessExit ==
    /\ EndShutdown \/ Crash
    /\ client' = [c \in Client |-> IF client[c].pc = "reading"
                                   THEN [client[c] EXCEPT !.pc = "cut"] ELSE client[c]]
    /\ UNCHANGED <<believed, drops>>

Next ==
    \/ \E c \in Client :
        \/ \E kind \in Kind, lost \in BOOLEAN : Begin(c, kind, lost)
        \/ ClientStep(c) \/ GiveUp(c) \/ Drop(c) \/ Hang(c)
    \/ /\ \/ \E t \in Task : ServiceStep(t)
          \/ Dispatch \/ BeginParse
          \/ \E S \in SUBSET Task : CleanupExpired(S)
          \/ BeginShutdown \/ StartUp
       /\ UNCHANGED clientVars
    \/ ProcessExit

Spec == Init /\ [][Next]_vars

(***************************************************************************)
(* The event loop runs what is ready, a parse and a shutdown come to an    *)
(* end, and a client goes on; polling is bounded by the clock.  Nothing    *)
(* says that a stopped service is started again, that tasks expire or that *)
(* anybody calls.                                                          *)
(***************************************************************************)
Fairness ==
    /\ WF_vars(Dispatch /\ UNCHANGED clientVars)
    /\ WF_vars(BeginParse /\ UNCHANGED clientVars)
    /\ WF_vars(ProcessExit /\ EndShutdown)
    /\ \A t \in Task : WF_vars(ServiceStep(t) /\ UNCHANGED clientVars)
    /\ \A c \in Client : WF_vars(ClientStep(c)) /\ WF_vars(GiveUp(c))

FairSpec == Spec /\ Fairness

-----------------------------------------------------------------------------
(***************************************************************************)
(* A call has two unfinished jobs only when an answer was lost, the        *)
(* service ended, or it is about to end: what a 503 leaves unfinished and a *)
(* chance "500" in it has retried goes down with the manager, before a     *)
(* new one starts.  Otherwise a retry does not parse a PDF beside itself   *)
(* (parse_with_retry, mineru_client.py:264; shutdown, fast_api.py:960).    *)
(***************************************************************************)
Unfinished(t) == status[t] \in {"pending", "processing"}

OneLiveJob ==
    \A c \in Client :
        \/ client[c].hit \/ manager = "stopping"
        \/ Cardinality({t \in client[c].jobs : Unfinished(t)}) <= 1

(***************************************************************************)
(* A call that succeeds has the result of its own last job.  The result is *)
(* empty only when the job expired while its files were read: 200 and an   *)
(* empty Markdown, indexed as a document without text (fast_api.py:456,    *)
(* mineru_client.py:239).                                                  *)
(***************************************************************************)
ResultExplained ==
    \A c \in Client :
        /\ client[c].result = "full" =>
              status[client[c].job] \in {"completed", "removed", "lost"}
        /\ client[c].result = "empty" => status[client[c].job] = "removed"

(***************************************************************************)
(* The parser stops using MinerU only after a request for its health was   *)
(* lost or the service was not up (_check_mineru_availability,             *)
(* parser.py:248), whatever becomes of the documents parsed meanwhile.     *)
(***************************************************************************)
DisbeliefExplained ==
    believed = "no" => restarts > 0 \/ manager # "running" \/ drops > 0

\* A job that waits ends, unless the process does (fast_api.py:1096, 1136).
JobsEnd ==
    \A t \in Task : status[t] = "pending" ~> ~Unfinished(t)

\* POST /file_parse is answered, or its connection breaks (fast_api.py:1016).
SyncAnswered ==
    \A t \in Task : handler[t].pc = "waiting" ~> handler[t].pc # "waiting"

(***************************************************************************)
(* A call of parse_with_retry returns or raises, or one of its requests    *)
(* without a timeout was never answered, which only mode "async" can meet  *)
(* (mineru_client.py:264; 106 against 189, 206 and 222).                   *)
(***************************************************************************)
CallEnds ==
    \A c \in Client :
        client[c].pc # "idle" ~>
            client[c].pc = "done" \/ (client[c].pc = "hung" /\ client[c].kind # "sync")

=============================================================================
