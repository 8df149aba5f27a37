----------------------------- MODULE ParseRouter -----------------------------
(***************************************************************************)
(* The router of MinerU (mineru/cli/router.py): it passes a submission to  *)
(* one of several parse services, keeps a record of the task, asks the     *)
(* service for its status whenever somebody asks the router, and watches   *)
(* the health of the services, restarting the local ones.                  *)
(*                                                                         *)
(* The router is one event loop and never awaits inside its locks, so an   *)
(* action is what happens between two answers of a service.  A request     *)
(* makes at most one job on a service; of a service only the fate of its   *)
(* jobs is modelled (ParseService has the rest).                           *)
(***************************************************************************)
EXTENDS Naturals, FiniteSets

CONSTANTS
    Server,           \* the upstream parse services
    Local,            \* those the router has started itself
    Request,          \* requests to the router; a record has the id of its request
    NoServer, NoRequest,
    ErrorThreshold,   \* UPSTREAM_FAILURE_THRESHOLD
    HealthThreshold,  \* WORKER_HEALTH_FAILURE_RESTART_THRESHOLD
    MaxFaults         \* bound: crashes of services and requests that fail

ASSUME RouterAssumption ==
    /\ Local \subseteq Server
    /\ NoServer \notin Server /\ NoRequest \notin Request
    /\ {ErrorThreshold, HealthThreshold} \subseteq Nat \ {0}
    /\ MaxFaults \in Nat
    /\ IsFiniteSet(Request)

VARIABLES
    running,   \* services whose process is up
    job,       \* job[r][s]: the job the request r has made on s
    server,    \* server[s]: the WorkerState of s
    record,    \* record[r]: the RouterTaskRecord
    request,   \* request[r]: the handler
    monitor,   \* the health check in progress
    faults     \* faults so far

vars == <<running, job, server, record, request, monitor, faults>>

Live == "live"                    \* pending or processing
Terminal == {"completed", "failed"}
Post == {"submit", "sync"}

Idle == [server |-> NoServer, reply |-> "none"]

Init ==
    /\ running = Server
    /\ job = [r \in Request |-> [s \in Server |-> "none"]]
    /\ server = [s \in Server |-> [healthy |-> TRUE, pending |-> 0, failures |-> 0]]
    /\ record = [r \in Request |-> [present |-> FALSE, status |-> "none",
                                    server |-> NoServer, errors |-> 0]]
    /\ request = [r \in Request |->
                    [kind |-> "none", pc |-> "idle", server |-> NoServer, tried |-> {},
                     task |-> NoRequest, reply |-> "none", lost |-> FALSE]]
    /\ monitor = Idle
    /\ faults = 0

Set(r, q) == request' = [request EXCEPT ![r] = q]
Fault == faults < MaxFaults /\ faults' = faults + 1

-----------------------------------------------------------------------------
(***************************************************************************)
(* POST /tasks ("submit") and POST /file_parse ("sync"): submit_router_task *)
(* tries one healthy service after the other.                              *)
(***************************************************************************)
\* The response; its code is 202, 200, 400, 404, 409, 502, 503 or 504.
Answered(q) == [q EXCEPT !.pc = "answered", !.server = NoServer, !.tried = {},
                         !.task = NoRequest, !.reply = "none"]
Answer(r) == Set(r, Answered(request[r]))

Arrive(r, kind) ==
    /\ request[r].pc = "idle"
    /\ kind \in Post
    /\ Set(r, [request[r] EXCEPT !.kind = kind, !.pc = "choosing"])
    /\ UNCHANGED <<running, job, server, record, monitor, faults>>

Candidates(r) == {s \in Server : server[s].healthy /\ s \notin request[r].tried}
\* acquire_submission_server takes the least loaded candidate; the loads it
\* knows are those of the last health checks, so that may be any of them.
Acquire(r, s) ==
    /\ request[r].pc = "choosing"
    /\ s \in Candidates(r)
    /\ server' = [server EXCEPT ![s].pending = @ + 1]
    /\ Set(r, [request[r] EXCEPT !.pc = "posting", !.server = s])
    /\ UNCHANGED <<running, job, record, monitor, faults>>

\* Mutant: a request that has failed on every service waits for one.
NoCandidateWaits(r) ==
    /\ request[r].pc = "choosing" /\ request[r].tried = {}
    /\ Candidates(r) = {}
    /\ Answer(r)
    /\ UNCHANGED <<running, job, server, record, monitor, faults>>

NoCandidate(r) ==
    /\ request[r].pc = "choosing"
    /\ Candidates(r) = {}
    /\ Answer(r)
    /\ UNCHANGED <<running, job, server, record, monitor, faults>>

\* The service has the POST of a thread of the router, or it is down.
UpstreamPost(r) ==
    LET s == request[r].server
        Got(reply) == Set(r, [request[r] EXCEPT !.pc = "posted", !.reply = reply])
        NewJob == job' = [job EXCEPT ![r][s] = Live]
    IN /\ request[r].pc = "posting"
       /\ \/ s \in running /\ NewJob /\ Got("accepted") /\ UNCHANGED faults
          \/ s \in running /\ Got("rejected") /\ UNCHANGED <<job, faults>>
          \/ s \notin running /\ Got("unavailable") /\ UNCHANGED <<job, faults>>
          \* 500 to 504 from the service, or a connection that fails
          \/ s \in running /\ Fault /\ Got("unavailable") /\ UNCHANGED job
          \* a timeout, or an answer that is lost or cannot be read
          \/ /\ s \in running /\ Fault /\ NewJob
             /\ Set(r, [request[r] EXCEPT !.pc = "posted", !.reply = "unavailable",
                                           !.lost = TRUE])
       /\ UNCHANGED <<running, server, record, monitor>>

\* Mutant: the assignment is not released.
ReleasedNever(s) == server[s]

\* release_submission_server
Released(s) == [server[s] EXCEPT !.pending = IF @ > 0 THEN @ - 1 ELSE 0]

\* Mutant: the answer of the service may be taken for a failure.
RetryableAlways(reply) == reply \in {"unavailable", "accepted"}

\* UpstreamSubmissionUnavailable, not UpstreamSubmissionRejected
Retryable(reply) == reply = "unavailable"

\* register, or the exception; "finally" releases the service.
Submitted(r) ==
    LET s == request[r].server
        Failed == [Released(s) EXCEPT !.healthy = FALSE]
    IN /\ request[r].pc = "posted"
       /\ \/ /\ request[r].reply = "accepted"
             /\ record' = [record EXCEPT ![r] = [present |-> TRUE, status |-> Live,
                                                 server |-> s, errors |-> 0]]
             /\ IF request[r].kind = "submit" THEN Answer(r)
                ELSE Set(r, [Answered(request[r]) EXCEPT !.pc = "asking", !.task = r])
             /\ server' = [server EXCEPT ![s] = Released(s)]
          \/ /\ request[r].reply = "rejected"
             /\ Answer(r)
             /\ server' = [server EXCEPT ![s] = Released(s)]
             /\ UNCHANGED record
          \/ /\ Retryable(request[r].reply)
             /\ Set(r, [request[r] EXCEPT !.pc = "choosing",
                                           !.tried = @ \cup {s}, !.server = NoServer])
             /\ server' = [server EXCEPT ![s] = Failed]
             /\ UNCHANGED record
       /\ UNCHANGED <<running, job, monitor, faults>>

-----------------------------------------------------------------------------
(***************************************************************************)
(* GET /tasks/{id} ("status"), GET /tasks/{id}/result ("result") and the   *)
(* loop of POST /file_parse: fetch_router_task_status asks the service     *)
(* unless the record is terminal, and stores what it says.                 *)
(***************************************************************************)
\* What a handler does once fetch_router_task_status has returned a status.
AfterFetch(q, status) ==
    CASE q.kind # "status" /\ status = "completed" -> [q EXCEPT !.pc = "download"]
      [] q.kind = "sync" /\ status = Live -> [q EXCEPT !.pc = "asking"]
      [] OTHER -> Answered(q)

Fetched(q) ==
    IF record[q.task].status \in Terminal THEN AfterFetch(q, record[q.task].status)
    ELSE [q EXCEPT !.pc = "asked"]

Look(r, kind, t) ==
    /\ request[r].pc = "idle"
    /\ kind \in {"status", "result"}
    /\ record[t].present
    /\ Set(r, Fetched([request[r] EXCEPT !.kind = kind, !.task = t]))
    /\ UNCHANGED <<running, job, server, record, monitor, faults>>

\* The waiting handler has the record object, whether or not it was removed.
Fetch(r) ==
    /\ request[r].pc = "asking"
    /\ Set(r, Fetched(request[r]))
    /\ UNCHANGED <<running, job, server, record, monitor, faults>>

\* The service answers: the state of the job, 404, or nothing that can be used.
UpstreamStatus(r) ==
    LET t == request[r].task
        s == record[t].server
        Got(reply) == Set(r, [request[r] EXCEPT !.pc = "checked", !.reply = reply])
    IN /\ request[r].pc = "asked"
       /\ \/ /\ s \in running /\ job[t][s] \in {Live} \cup Terminal
             /\ Got(job[t][s])
             /\ UNCHANGED faults
          \/ /\ s \notin running \/ job[t][s] = "gone"
             /\ Got("error")
             /\ UNCHANGED faults
          \/ Fault /\ Got("error")
       /\ UNCHANGED <<running, job, server, record, monitor>>

\* Mutants: the first error is one too many; an error reopens a record.
ErredAtOnce(t) == [record[t] EXCEPT !.errors = @ + 1, !.status = "failed"]

ErredReopening(t) ==
    [record[t] EXCEPT !.errors = @ + 1,
                      !.status = IF record[t].errors + 1 >= ErrorThreshold
                                 THEN "failed" ELSE Live]

\* increment_upstream_error
Erred(t) ==
    [record[t] EXCEPT !.errors = @ + 1,
                      !.status = IF record[t].errors + 1 >= ErrorThreshold
                                 THEN "failed" ELSE @]

\* update_from_upstream_payload
Updated(t, status) == [record[t] EXCEPT !.status = status, !.errors = 0]

FetchStore(r) ==
    LET t == request[r].task
        new == IF request[r].reply = "error" THEN Erred(t)
               ELSE Updated(t, request[r].reply)
    IN /\ request[r].pc = "checked"
       /\ IF record[t].present
          THEN /\ record' = [record EXCEPT ![t] = new]
               /\ Set(r, AfterFetch(request[r], new.status))
          ELSE Answer(r) /\ UNCHANGED record
       /\ UNCHANGED <<running, job, server, monitor, faults>>

\* The deadline of wait_for_router_task_terminal_state, between two polls.
GiveUp(r) ==
    /\ request[r].pc = "asking" /\ request[r].kind = "sync"
    /\ Answer(r)
    /\ UNCHANGED <<running, job, server, record, monitor, faults>>

\* proxy_router_task_result: an error counts even when the task is completed.
Download(r) ==
    LET t == request[r].task
        s == record[t].server
    IN /\ request[r].pc = "download"
       /\ \/ /\ s \in running /\ job[t][s] = "completed"
             /\ Answer(r)
             /\ UNCHANGED <<record, faults>>
          \/ /\ \/ (s \notin running \/ job[t][s] # "completed") /\ UNCHANGED faults
                \/ Fault
             /\ Answer(r)
             /\ record' = [record EXCEPT ![t] = IF @.present THEN Erred(t) ELSE @]
       /\ UNCHANGED <<running, job, server, monitor>>

\* cleanup_expired_tasks of the registry
Expire(t) ==
    /\ record[t].present /\ record[t].status \in Terminal
    /\ record' = [record EXCEPT ![t].present = FALSE]
    /\ UNCHANGED <<running, job, server, request, monitor, faults>>

-----------------------------------------------------------------------------
(***************************************************************************)
(* The monitor checks one service after the other.  A local service whose  *)
(* process has ended is restarted first, one that fails its checks is      *)
(* restarted at the threshold; a restart ends its jobs.                    *)
(***************************************************************************)
Lost(s) ==
    [r \in Request |-> [job[r] EXCEPT ![s] = IF @ = "none" THEN @ ELSE "gone"]]

\* Mutant: services that are out of use are not looked at.
WatchedHealthy == {s \in Server : server[s].healthy}

\* refresh_all
Watched == Server

\* The answer to GET /health, after a restart when the process has ended.
CheckHealth(s) ==
    /\ monitor = Idle
    /\ s \in Watched
    /\ LET alive == s \in running \/ s \in Local
       IN \/ /\ alive
             /\ running' = running \cup {s}
             /\ \/ monitor' = [server |-> s, reply |-> "healthy"] /\ UNCHANGED faults
                \/ monitor' = [server |-> s, reply |-> "error"] /\ Fault
          \/ /\ ~alive
             /\ monitor' = [server |-> s, reply |-> "error"]
             /\ UNCHANGED <<running, faults>>
          \* the restart fails
          \/ /\ s \in Local \ running
             /\ Fault
             /\ monitor' = [server |-> s, reply |-> "down"]
             /\ UNCHANGED running
    /\ UNCHANGED <<job, server, record, request>>

\* _update_server_from_health_payload, or one failure more; failures are
\* counted up to the threshold, their number is not used beyond it.
StoreHealth ==
    LET s == monitor.server
        failures == IF server[s].failures < HealthThreshold
                    THEN server[s].failures + 1 ELSE HealthThreshold
        restart == /\ monitor.reply = "error" /\ s \in Local
                   /\ failures >= HealthThreshold
        healthy == [server[s] EXCEPT !.healthy = TRUE, !.failures = 0]
        failed == [server[s] EXCEPT !.healthy = FALSE, !.failures = failures]
    IN /\ s # NoServer
       /\ monitor' = Idle
       /\ \/ /\ monitor.reply = "healthy"
             /\ server' = [server EXCEPT ![s] = healthy]
             /\ UNCHANGED <<running, job, faults>>
          \/ /\ monitor.reply \in {"error", "down"} /\ ~restart
             /\ server' = [server EXCEPT ![s] = failed]
             /\ UNCHANGED <<running, job, faults>>
          \* _restart_local_server and its own health check
          \/ /\ restart
             /\ job' = Lost(s)
             /\ \/ /\ running' = running \cup {s}
                   /\ server' = [server EXCEPT ![s] = healthy]
                   /\ UNCHANGED faults
                \/ /\ running' \in {running \cup {s}, running \ {s}}
                   /\ server' = [server EXCEPT ![s] = failed]
                   /\ Fault
       /\ UNCHANGED <<record, request>>

-----------------------------------------------------------------------------
(***************************************************************************)
(* The services: jobs end and expire, a process may end with its jobs; a   *)
(* remote one comes back by itself.                                        *)
(***************************************************************************)
JobEnds(r, s, outcome) ==
    /\ s \in running /\ job[r][s] = Live
    /\ job' = [job EXCEPT ![r][s] = outcome]
    /\ UNCHANGED <<running, server, record, request, monitor, faults>>

JobExpires(r, s) ==
    /\ s \in running /\ job[r][s] \in Terminal
    /\ job' = [job EXCEPT ![r][s] = "gone"]
    /\ UNCHANGED <<running, server, record, request, monitor, faults>>

ServerEnds(s) ==
    /\ s \in running
    /\ Fault
    /\ running' = running \ {s}
    /\ job' = Lost(s)
    /\ UNCHANGED <<server, record, request, monitor>>

ServerReturns(s) ==
    /\ s \in Server \ (running \cup Local)
    /\ running' = running \cup {s}
    /\ UNCHANGED <<job, server, record, request, monitor, faults>>

RequestStep(r) ==
    \/ \E s \in Server : Acquire(r, s)
    \/ NoCandidate(r) \/ UpstreamPost(r) \/ Submitted(r)
    \/ Fetch(r) \/ UpstreamStatus(r) \/ FetchStore(r) \/ Download(r)

Next ==
    \/ \E r \in Request :
        \/ \E kind \in Post : Arrive(r, kind)
        \/ \E kind \in {"status", "result"}, t \in Request : Look(r, kind, t)
        \/ RequestStep(r) \/ GiveUp(r) \/ Expire(r)
        \/ \E s \in Server :
            \/ \E outcome \in Terminal : JobEnds(r, s, outcome)
            \/ JobExpires(r, s)
    \/ \E s \in Server : CheckHealth(s) \/ ServerEnds(s) \/ ServerReturns(s)
    \/ StoreHealth

Spec == Init /\ [][Next]_vars

(***************************************************************************)
(* Handlers go on when a service has answered, services answer, the loop   *)
(* of the monitor comes to every service again and again, and a deadline,  *)
(* looked at between two polls, passes.  Jobs need not end, and a remote   *)
(* service need not come back.                                             *)
(***************************************************************************)
Fairness ==
    /\ \A r \in Request : WF_vars(RequestStep(r)) /\ SF_vars(GiveUp(r))
    /\ WF_vars(StoreHealth)
    /\ \A s \in Server : SF_vars(CheckHealth(s))

FairSpec == Spec /\ Fairness

-----------------------------------------------------------------------------
(***************************************************************************)
(* The assignments counted for a service are the submissions on their way  *)
(* to it: each is released once, however it ends (submit_router_task,      *)
(* router.py:1228).                                                        *)
(***************************************************************************)
AssignmentsBalanced ==
    \A s \in Server :
        server[s].pending =
            Cardinality({r \in Request : request[r].server = s
                                         /\ request[r].pc \in {"posting", "posted"}})

(***************************************************************************)
(* A document is parsed on two services only when the answer to the first  *)
(* submission was lost: what a service refused it does not parse           *)
(* (submit_payload_to_upstream_sync, router.py:1152).                      *)
(***************************************************************************)
DuplicateExplained ==
    \A r \in Request :
        Cardinality({s \in Server : job[r][s] # "none"}) > 1 => request[r].lost

(***************************************************************************)
(* A record says completed only of a job that has completed, and failed    *)
(* only of one that failed or is out of reach: answers are stored whenever *)
(* they arrive (update_from_upstream_payload, router.py:900).              *)
(***************************************************************************)
RecordTruthful ==
    \A t \in Request :
        LET j == job[t][record[t].server]
        IN /\ record[t].status = "completed" => j \in {"completed", "gone"}
           /\ record[t].status = "failed" =>
                 \/ j \in {"failed", "gone"}
                 \/ record[t].errors >= ErrorThreshold

(***************************************************************************)
(* A record that is terminal while nobody asks the service about it stays  *)
(* terminal: an answer that comes late is the only thing that can take it  *)
(* back (fetch_router_task_status, router.py:1236).                        *)
(***************************************************************************)
Asked(t) == \E r \in Request : request[r].task = t /\ request[r].pc \in {"asked", "checked"}

TerminalStays ==
    [][\A t \in Request :
          record[t].status \in Terminal /\ ~Asked(t) => record'[t].status \in Terminal]_vars

\* Every request to the router is answered (router.py:1175, 1274).
RequestAnswered ==
    \A r \in Request : request[r].pc # "idle" ~> request[r].pc = "answered"

(***************************************************************************)
(* A service that failed a submission or a check gets submissions again: a *)
(* local one in any case, a remote one if it is up (_refresh_server,       *)
(* router.py:677).                                                         *)
(***************************************************************************)
ServersRecover ==
    \A s \in Server :
        ~server[s].healthy ~> server[s].healthy \/ s \notin running \cup Local

=============================================================================
