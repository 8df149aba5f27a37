-------------------------- MODULE ParseRouterProofs --------------------------
(***************************************************************************)
(* The records of the router and the assignments it counts, for all        *)
(* numbers of services, requests and faults, and all thresholds.           *)
(***************************************************************************)
EXTENDS ParseRouter, FiniteSetTheorems, TLAPS

JobState == {"none", Live, "completed", "failed", "gone"}

RequestState ==
    [kind: {"none", "submit", "sync", "status", "result"},
     pc: {"idle", "choosing", "posting", "posted", "asking", "asked", "checked",
          "download", "answered"},
     server: Server \cup {NoServer}, tried: SUBSET Server,
     task: Request \cup {NoRequest},
     reply: {"none", "accepted", "rejected", "unavailable", "error"} \cup JobState,
     lost: BOOLEAN]

RecordState ==
    [present: BOOLEAN, status: {"none", Live, "completed", "failed"},
     server: Server \cup {NoServer}, errors: Nat]

ServerState == [healthy: BOOLEAN, pending: Nat, failures: Nat]

Types ==
    /\ job \in [Request -> [Server -> JobState]]
    /\ server \in [Server -> ServerState]
    /\ record \in [Request -> RecordState]
    /\ request \in [Request -> RequestState]
    /\ monitor \in [server: Server \cup {NoServer}, reply: {"none", "healthy", "error", "down"}]

\* A request that has no record yet.
Unrecorded(q) == q.pc \in {"idle", "choosing", "posting", "posted"}
OnTheWay(q) == q.pc \in {"posting", "posted"}

\* A request that can only have a job if an answer was lost.
Jobless(q) ==
    q.pc \in {"idle", "choosing", "posting"} \/ (q.pc = "posted" /\ q.reply # "accepted")

\* What the handler q of the request r knows of the records rec and the jobs jb.
RequestFits(r, q, rec, jb) ==
    /\ Unrecorded(q) => rec[r].status = "none" /\ rec[r].present = FALSE
    /\ OnTheWay(q) => q.server \in Server
    /\ q.pc \in {"asking", "asked", "checked", "download"} => q.task \in Request
    /\ q.task \in Request => rec[q.task].status # "none"
    /\ q.pc = "posted" /\ q.reply = "accepted" => jb[r][q.server] # "none"
    /\ q.pc = "posted" => q.reply \in {"accepted", "rejected", "unavailable"}
    /\ q.pc = "checked" =>
          /\ q.reply \in {Live, "error"} \cup Terminal
          /\ q.reply \in Terminal =>
                jb[q.task][rec[q.task].server] \in {q.reply, "gone"}
    /\ q.lost = FALSE =>
          /\ Jobless(q) => \A s \in Server : jb[r][s] = "none"
          /\ \A s, u \in Server : jb[r][s] # "none" /\ jb[r][u] # "none" => s = u

\* What a record k says of the jobs j of its request.
RecordFits(k, j) ==
    /\ k.present = TRUE => k.status # "none"
    /\ k.status # "none" => k.server \in Server /\ j[k.server] # "none"
    /\ k.status = "completed" => j[k.server] \in {"completed", "gone"}
    /\ k.status = "failed" => j[k.server] \in {"failed", "gone"} \/ k.errors >= ErrorThreshold

RouterInv ==
    /\ Types
    /\ \A r \in Request : RequestFits(r, request[r], record, job)
    /\ \A t \in Request : RecordFits(record[t], job[t])
    /\ AssignmentsBalanced

-----------------------------------------------------------------------------
\* The first state.
LEMMA RouterInit == Init => RouterInv
<1> SUFFICES ASSUME Init PROVE RouterInv
  OBVIOUS
<1> DEFINE k == [present |-> FALSE, status |-> "none", server |-> NoServer, errors |-> 0]
           q == [kind |-> "none", pc |-> "idle", server |-> NoServer, tried |-> {},
                 task |-> NoRequest, reply |-> "none", lost |-> FALSE]
           v == [healthy |-> TRUE, pending |-> 0, failures |-> 0]
<1>1. FALSE \in BOOLEAN /\ TRUE \in BOOLEAN
  OBVIOUS
<1>2. k \in RecordState /\ k.status = "none" /\ k.present = FALSE
  BY <1>1 DEF RecordState
<1>3. q \in RequestState /\ q.pc = "idle" /\ q.task = NoRequest
  BY <1>1 DEF RequestState
<1>4. v \in ServerState /\ v.pending = 0
  BY <1>1 DEF ServerState
<1>5. /\ record = [r \in Request |-> k] /\ request = [r \in Request |-> q]
      /\ server = [s \in Server |-> v] /\ monitor = [server |-> NoServer, reply |-> "none"]
      /\ job = [r \in Request |-> [s \in Server |-> "none"]]
  BY DEF Init, Idle
<1> HIDE DEF k, q, v
<1>6. Types
  BY <1>2, <1>3, <1>4, <1>5 DEF Types, JobState
<1>7. \A r \in Request : RequestFits(r, request[r], record, job)
  BY <1>2, <1>3, <1>5, RouterAssumption DEF RequestFits, Unrecorded, OnTheWay, Jobless
<1>8. \A t \in Request : RecordFits(record[t], job[t])
  BY <1>2, <1>5 DEF RecordFits
<1>9. AssignmentsBalanced
  <2>1. \A s \in Server : {r \in Request : request[r].server = s
                              /\ request[r].pc \in {"posting", "posted"}} = {}
    BY <1>3, <1>5
  <2>2. QED
    BY <1>4, <1>5, <2>1, FS_EmptySet DEF AssignmentsBalanced
<1>10. QED
  BY <1>6, <1>7, <1>8, <1>9 DEF RouterInv

-----------------------------------------------------------------------------
\* The submissions on their way to a service.
Way(s) == {r \in Request : request[r].server = s /\ OnTheWay(request[r])}

\* A step after which the same submissions are on their way.
LEMMA SameWay ==
    ASSUME AssignmentsBalanced,
           \A r \in Request :
              /\ OnTheWay(request'[r]) <=> OnTheWay(request[r])
              /\ OnTheWay(request[r]) => request'[r].server = request[r].server,
           \A s \in Server : server'[s].pending = server[s].pending
    PROVE  AssignmentsBalanced'
<1>1. \A s \in Server : Way(s)' = Way(s)
  BY DEF Way
<1>2. QED
  BY <1>1 DEF AssignmentsBalanced, Way, OnTheWay

\* A submission sets out.
LEMMA WayGrows ==
    ASSUME AssignmentsBalanced, NEW r \in Request, NEW s \in Server,
           ~OnTheWay(request[r]), OnTheWay(request'[r]), request'[r].server = s,
           \A q \in Request \ {r} : request'[q] = request[q],
           \A u \in Server : server'[u].pending =
                                IF u = s THEN server[u].pending + 1 ELSE server[u].pending
    PROVE  AssignmentsBalanced'
<1>1. Way(s)' = Way(s) \cup {r} /\ r \notin Way(s)
  BY DEF Way
<1>2. \A u \in Server : u # s => Way(u)' = Way(u)
  BY DEF Way
<1>3. IsFiniteSet(Way(s))
  BY RouterAssumption, FS_Subset DEF Way
<1>4. Cardinality(Way(s)') = Cardinality(Way(s)) + 1
  BY <1>1, <1>3, FS_AddElement
<1>5. \A u \in Server : server[u].pending = Cardinality(Way(u))
  BY DEF AssignmentsBalanced, Way, OnTheWay
<1>6. \A u \in Server : server'[u].pending = Cardinality(Way(u)')
  <2>1. ASSUME NEW u \in Server PROVE server'[u].pending = Cardinality(Way(u)')
    <3>1. CASE u = s
      BY <1>4, <1>5, <3>1
    <3>2. CASE u # s
      BY <1>2, <1>5, <3>2
    <3>3. QED
      BY <3>1, <3>2
  <2>2. QED
    BY <2>1
<1>7. QED
  BY <1>6 DEF AssignmentsBalanced, Way, OnTheWay

\* A submission is over, and released once.
LEMMA WayShrinks ==
    ASSUME AssignmentsBalanced, NEW r \in Request, NEW s \in Server,
           OnTheWay(request[r]), ~OnTheWay(request'[r]), request[r].server = s,
           \A q \in Request \ {r} : request'[q] = request[q],
           \A u \in Server : server'[u].pending =
                IF u = s THEN IF server[u].pending > 0 THEN server[u].pending - 1 ELSE 0
                ELSE server[u].pending
    PROVE  AssignmentsBalanced'
<1>1. Way(s)' = Way(s) \ {r} /\ r \in Way(s)
  BY DEF Way
<1>2. \A u \in Server : u # s => Way(u)' = Way(u)
  BY DEF Way
<1>3. IsFiniteSet(Way(s))
  BY RouterAssumption, FS_Subset DEF Way
<1>4. Cardinality(Way(s)') = Cardinality(Way(s)) - 1
  BY <1>1, <1>3, FS_RemoveElement
<1>5. Cardinality(Way(s)) \in Nat /\ Cardinality(Way(s)) # 0
  BY <1>1, <1>3, FS_CardinalityType, FS_EmptySet
<1>6. \A u \in Server : server[u].pending = Cardinality(Way(u))
  BY DEF AssignmentsBalanced, Way, OnTheWay
<1>7. \A u \in Server : server'[u].pending = Cardinality(Way(u)')
  <2>1. ASSUME NEW u \in Server PROVE server'[u].pending = Cardinality(Way(u)')
    <3>1. CASE u = s
      BY <1>4, <1>5, <1>6, <3>1
    <3>2. CASE u # s
      BY <1>2, <1>6, <3>2
    <3>3. QED
      BY <3>1, <3>2
  <2>2. QED
    BY <2>1
<1>8. QED
  BY <1>7 DEF AssignmentsBalanced, Way, OnTheWay
-----------------------------------------------------------------------------
\* One handler moves.
LEMMA SetIs ==
    ASSUME Types, NEW r \in Request, NEW q, Set(r, q)
    PROVE  request'[r] = q /\ \A p \in Request \ {r} : request'[p] = request[p]
BY DEF Set, Types

\* One handler moves, and the other state keeps to what the others know of it.
LEMMA HandlerStep ==
    ASSUME RouterInv, NEW r \in Request, NEW q \in RequestState, Set(r, q),
           job' \in [Request -> [Server -> JobState]],
           server' \in [Server -> ServerState],
           record' \in [Request -> RecordState], monitor' = monitor,
           \A p \in Request \ {r} : RequestFits(p, request[p], record', job'),
           RequestFits(r, q, record', job'),
           \A t \in Request : RecordFits(record'[t], job'[t]),
           AssignmentsBalanced'
    PROVE  RouterInv'
<1>1. request' \in [Request -> RequestState]
  BY DEF RouterInv, Types, Set
<1>2. Types'
  BY <1>1 DEF RouterInv, Types, JobState, RequestState, RecordState, ServerState
<1>3. \A p \in Request : RequestFits(p, request'[p], record', job')
  BY SetIs DEF RouterInv
<1>4. (\A p \in Request : RequestFits(p, request[p], record, job))'
  BY <1>3 DEF RequestFits, Unrecorded, OnTheWay, Jobless, Terminal, Live
<1>5. (\A t \in Request : RecordFits(record[t], job[t]))'
  BY DEF RecordFits
<1>6. QED
  BY <1>2, <1>4, <1>5 DEF RouterInv

\* One handler moves and nothing else does.
LEMMA HandlerMoves ==
    ASSUME RouterInv, NEW r \in Request, NEW q \in RequestState, Set(r, q),
           UNCHANGED <<job, record, monitor>>, server' \in [Server -> ServerState],
           RequestFits(r, q, record, job), AssignmentsBalanced'
    PROVE  RouterInv'
BY HandlerStep DEF RouterInv, Types

\* A handler beyond its submission may go on in any way that names a task
\* which has a record.
LEMMA LaterFits ==
    ASSUME NEW r, NEW k, NEW q, NEW rec, NEW jb, RequestFits(r, k, rec, jb),
           q.lost = k.lost, q.pc \in {"asking", "asked", "download", "answered"},
           q.pc # "answered" => q.task \in Request,
           q.task \in Request => rec[q.task].status # "none"
    PROVE  RequestFits(r, q, rec, jb) /\ ~OnTheWay(q)
BY DEF RequestFits, Unrecorded, OnTheWay, Jobless

\* The response of a handler.
LEMMA AnsweredFits ==
    ASSUME NEW k \in RequestState
    PROVE  /\ Answered(k) \in RequestState /\ Answered(k).pc = "answered"
           /\ Answered(k).task = NoRequest /\ Answered(k).lost = k.lost
           /\ ~OnTheWay(Answered(k))
           /\ \A r, rec, jb : RequestFits(r, k, rec, jb) => RequestFits(r, Answered(k), rec, jb)
<1>1. /\ Answered(k) \in RequestState /\ Answered(k).pc = "answered"
      /\ Answered(k).task = NoRequest /\ Answered(k).lost = k.lost
  BY DEF RequestState, Answered
<1>2. QED
  BY <1>1, LaterFits, RouterAssumption DEF OnTheWay

\* A record changes that others may have seen; it stays with its service.
LEMMA RecordChanges ==
    ASSUME RouterInv, NEW t \in Request, NEW new \in RecordState,
           record' = [record EXCEPT ![t] = new],
           record[t].status # "none", new.status # "none",
           new.server = record[t].server, RecordFits(new, job[t])
    PROVE  /\ record' \in [Request -> RecordState]
           /\ \A p \in Request : RequestFits(p, request[p], record', job)
           /\ \A u \in Request : RecordFits(record'[u], job[u])
<1>1. record' \in [Request -> RecordState]
  BY DEF RouterInv, Types
<1>2. record'[t] = new /\ \A u \in Request \ {t} : record'[u] = record[u]
  BY DEF RouterInv, Types
<1>3. ASSUME NEW p \in Request PROVE RequestFits(p, request[p], record', job)
  <2> DEFINE q == request[p]
  <2>1. RequestFits(p, q, record, job) /\ q.task \in Request \cup {NoRequest}
    BY DEF RouterInv, Types, RequestState
  <2>2. Unrecorded(q) => p # t
    BY <2>1 DEF RequestFits
  <2>3. q.task \in Request => record'[q.task].server = record[q.task].server
                              /\ record'[q.task].status # "none"
    BY <1>2, <2>1 DEF RequestFits
  <2> HIDE DEF q
  <2>4. RequestFits(p, q, record', job)
    BY <1>2, <2>1, <2>2, <2>3 DEF RequestFits
  <2>5. QED
    BY <2>4 DEF q
<1>4. \A u \in Request : RecordFits(record'[u], job[u])
  BY <1>2 DEF RouterInv
<1>5. QED
  BY <1>1, <1>3, <1>4

\* Jobs go on, and what has ended may only be forgotten.
LEMMA JobsAge ==
    ASSUME RouterInv, job' \in [Request -> [Server -> JobState]],
           UNCHANGED <<record, request>>,
           server' \in [Server -> ServerState],
           \A s \in Server : server'[s].pending = server[s].pending,
           monitor' \in [server: Server \cup {NoServer},
                         reply: {"none", "healthy", "error", "down"}],
           \A r \in Request, s \in Server :
              /\ job'[r][s] = "none" <=> job[r][s] = "none"
              /\ job[r][s] \in {"completed", "failed", "gone"} =>
                    job'[r][s] \in {job[r][s], "gone"}
    PROVE  RouterInv'
<1>1. Types'
  BY DEF RouterInv, Types, JobState, RequestState, RecordState, ServerState
<1>2. \A t \in Request : RecordFits(record[t], job'[t])
  BY DEF RouterInv, RecordFits
<1>3. ASSUME NEW p \in Request PROVE RequestFits(p, request[p], record, job')
  <2> DEFINE q == request[p]
  <2>1. RequestFits(p, q, record, job)
        /\ (q.task \in Request => RecordFits(record[q.task], job[q.task]))
    BY DEF RouterInv
  <2> HIDE DEF q
  <2>2. q.pc = "posted" /\ q.reply = "accepted" => job'[p][q.server] # "none"
    BY <2>1 DEF RequestFits, OnTheWay
  <2>3. q.pc = "checked" /\ q.reply \in Terminal =>
           job'[q.task][record[q.task].server] \in {q.reply, "gone"}
    BY <2>1 DEF RequestFits, RecordFits, Terminal
  <2>4. QED
    BY <2>1, <2>2, <2>3 DEF RequestFits, q
<1>4. AssignmentsBalanced'
  BY SameWay DEF RouterInv
<1>5. (\A p \in Request : RequestFits(p, request[p], record, job))'
  BY <1>3 DEF RequestFits, Unrecorded, OnTheWay, Jobless, Terminal, Live
<1>6. (\A t \in Request : RecordFits(record[t], job[t]))'
  BY <1>2 DEF RecordFits
<1>7. QED
  BY <1>1, <1>4, <1>5, <1>6 DEF RouterInv
-----------------------------------------------------------------------------
\* A submission arrives.
LEMMA ArriveFits ==
    ASSUME RouterInv, NEW r \in Request, NEW kind \in Post, Arrive(r, kind)
    PROVE  RouterInv'
<1> DEFINE k == request[r]
           q == [k EXCEPT !.kind = kind, !.pc = "choosing"]
<1>1. k \in RequestState /\ RequestFits(r, k, record, job) /\ k.pc = "idle"
  BY DEF RouterInv, Types, Arrive
<1>2. Set(r, q) /\ UNCHANGED <<job, record, monitor, server>>
  BY DEF Arrive
<1> HIDE DEF k
<1>3. /\ q \in RequestState /\ q.pc = "choosing" /\ q.lost = k.lost /\ q.task = k.task
  BY <1>1 DEF RequestState, Post
<1> HIDE DEF q
<1>4. RequestFits(r, q, record, job)
  BY <1>1, <1>3 DEF RequestFits, Unrecorded, OnTheWay, Jobless
<1>5. AssignmentsBalanced'
  <2>1. ~OnTheWay(k) /\ ~OnTheWay(q)
    BY <1>1, <1>3 DEF OnTheWay
  <2>2. request'[r] = q /\ \A p \in Request \ {r} : request'[p] = request[p]
    BY <1>2, SetIs DEF RouterInv
  <2>3. QED
    BY <1>2, <2>1, <2>2, SameWay DEF RouterInv, k
<1>6. QED
  BY <1>2, <1>3, <1>4, <1>5, HandlerMoves DEF RouterInv, Types

\* A service is assigned.
LEMMA AcquireFits ==
    ASSUME RouterInv, NEW r \in Request, NEW s \in Server, Acquire(r, s)
    PROVE  RouterInv'
<1> DEFINE k == request[r]
           q == [k EXCEPT !.pc = "posting", !.server = s]
           v == [server[s] EXCEPT !.pending = @ + 1]
<1>1. k \in RequestState /\ RequestFits(r, k, record, job) /\ k.pc = "choosing"
      /\ server[s] \in ServerState
  BY DEF RouterInv, Types, Acquire
<1>2. Set(r, q) /\ UNCHANGED <<job, record, monitor>> /\ server' = [server EXCEPT ![s] = v]
  BY DEF Acquire
<1> HIDE DEF k
<1>3. /\ q \in RequestState /\ q.pc = "posting" /\ q.lost = k.lost /\ q.task = k.task
      /\ q.server = s
  BY <1>1 DEF RequestState
<1>4. v \in ServerState /\ v.pending = server[s].pending + 1
  BY <1>1 DEF ServerState
<1> HIDE DEF q, v
<1>5. RequestFits(r, q, record, job)
  BY <1>1, <1>3 DEF RequestFits, Unrecorded, OnTheWay, Jobless
<1>6. AssignmentsBalanced'
  <2>1. ~OnTheWay(k) /\ OnTheWay(q)
    BY <1>1, <1>3 DEF OnTheWay
  <2>2. request'[r] = q /\ \A p \in Request \ {r} : request'[p] = request[p]
    BY <1>2, SetIs DEF RouterInv
  <2>3. \A u \in Server : server'[u].pending =
                             IF u = s THEN server[u].pending + 1 ELSE server[u].pending
    BY <1>2, <1>4 DEF RouterInv, Types
  <2>4. QED
    BY <1>3, <2>1, <2>2, <2>3, WayGrows DEF RouterInv, k
<1>7. server' \in [Server -> ServerState]
  BY <1>2, <1>4 DEF RouterInv, Types
<1>8. QED
  BY <1>2, <1>3, <1>5, <1>6, <1>7, HandlerMoves

\* A handler that waits for no service answers.
LEMMA AnswerFits ==
    ASSUME RouterInv, NEW r \in Request, Answer(r), ~OnTheWay(request[r]),
           UNCHANGED <<job, record, monitor, server>>
    PROVE  RouterInv'
<1> DEFINE k == request[r]
           q == Answered(k)
<1>1. k \in RequestState /\ RequestFits(r, k, record, job) /\ Set(r, q)
  BY DEF RouterInv, Types, Answer
<1> HIDE DEF k
<1>2. q \in RequestState /\ RequestFits(r, q, record, job) /\ ~OnTheWay(q)
  BY <1>1, AnsweredFits
<1> HIDE DEF q
<1>3. AssignmentsBalanced'
  <2>1. request'[r] = q /\ \A p \in Request \ {r} : request'[p] = request[p]
    BY <1>1, SetIs DEF RouterInv
  <2>2. QED
    BY <1>2, <2>1, SameWay DEF RouterInv, k
<1>4. QED
  BY <1>1, <1>2, <1>3, HandlerMoves DEF RouterInv, Types

\* A service has the submission; only an answer that is lost leaves a job
\* behind of which the router does not know.
LEMMA UpstreamPostFits ==
    ASSUME RouterInv, NEW r \in Request, UpstreamPost(r)
    PROVE  RouterInv'
<1> DEFINE k == request[r]
           s == k.server
<1>1. /\ k \in RequestState /\ RequestFits(r, k, record, job) /\ k.pc = "posting"
      /\ s \in Server /\ record[r].status = "none"
      /\ UNCHANGED <<record, monitor, server>>
  BY DEF RouterInv, Types, UpstreamPost, RequestFits, OnTheWay, Unrecorded
<1>2. PICK reply, q :
          /\ reply \in {"accepted", "rejected", "unavailable"} /\ Set(r, q)
          /\ \/ /\ q = [k EXCEPT !.pc = "posted", !.reply = reply]
                /\ job' = [job EXCEPT ![r][s] = Live] /\ reply = "accepted"
             \/ /\ q = [k EXCEPT !.pc = "posted", !.reply = reply]
                /\ job' = job /\ reply # "accepted"
             \/ /\ q = [k EXCEPT !.pc = "posted", !.reply = reply, !.lost = TRUE]
                /\ job' = [job EXCEPT ![r][s] = Live] /\ reply = "unavailable"
  <2>1. CASE Set(r, [k EXCEPT !.pc = "posted", !.reply = "accepted"])
             /\ job' = [job EXCEPT ![r][s] = Live]
    BY <2>1
  <2>2. CASE Set(r, [k EXCEPT !.pc = "posted", !.reply = "rejected"]) /\ job' = job
    BY <2>2
  <2>3. CASE Set(r, [k EXCEPT !.pc = "posted", !.reply = "unavailable"]) /\ job' = job
    BY <2>3
  <2>4. CASE Set(r, [k EXCEPT !.pc = "posted", !.reply = "unavailable", !.lost = TRUE])
             /\ job' = [job EXCEPT ![r][s] = Live]
    BY <2>4
  <2>5. QED
    BY <2>1, <2>2, <2>3, <2>4 DEF UpstreamPost
<1> HIDE DEF k
<1>3. /\ q \in RequestState /\ q.pc = "posted" /\ q.reply = reply
      /\ q.server = s /\ q.task = k.task /\ (q.lost = k.lost \/ q.lost = TRUE)
      /\ reply \in {"accepted", "rejected", "unavailable"}
      /\ q.lost = FALSE /\ Jobless(q) => job' = job
  <2>1. TRUE \in BOOLEAN
    OBVIOUS
  <2>2. q.lost = FALSE => q # [k EXCEPT !.pc = "posted", !.reply = reply, !.lost = TRUE]
    BY <1>1 DEF RequestState
  <2>3. QED
    BY <1>1, <1>2, <2>1, <2>2 DEF RequestState, Jobless
<1>4. job' \in [Request -> [Server -> JobState]]
  BY <1>2 DEF RouterInv, Types, JobState, Live
<1>5. \A p \in Request : p # r => job'[p] = job[p]
  BY <1>2 DEF RouterInv, Types
<1>6. RequestFits(r, q, record', job')
  <2>1. q.task \in Request => q.task # r
    BY <1>1, <1>3 DEF RequestFits
  <2>2. reply = "accepted" => job'[r][s] # "none"
    BY <1>1, <1>2 DEF RouterInv, Types, Live
  <2>3. q.lost = FALSE =>
          /\ Jobless(q) => \A u \in Server : job'[r][u] = "none"
          /\ \A u, x \in Server : job'[r][u] # "none" /\ job'[r][x] # "none" => u = x
    <3>1. SUFFICES ASSUME q.lost = FALSE
          PROVE  /\ Jobless(q) => \A u \in Server : job'[r][u] = "none"
                 /\ \A u, x \in Server : job'[r][u] # "none" /\ job'[r][x] # "none" => u = x
      OBVIOUS
    <3>2. k.lost = FALSE /\ \A u \in Server : job[r][u] = "none"
      BY <1>1, <1>3, <3>1 DEF RequestFits, Jobless
    <3>3. \A u \in Server : u # s => job'[r][u] = "none"
      BY <1>2, <3>2 DEF RouterInv, Types
    <3>4. Jobless(q) => job' = job
      BY <1>3, <3>1
    <3>5. QED
      BY <3>2, <3>3, <3>4
  <2>4. QED
    BY <1>1, <1>3, <2>1, <2>2, <2>3 DEF RequestFits, Unrecorded, OnTheWay
<1>7. \A p \in Request \ {r} : RequestFits(p, request[p], record', job')
  <2> SUFFICES ASSUME NEW p \in Request \ {r} PROVE RequestFits(p, request[p], record', job')
    OBVIOUS
  <2> DEFINE x == request[p]
  <2>1. RequestFits(p, x, record, job)
    BY DEF RouterInv
  <2>2. x.task \in Request => job'[x.task] = job[x.task]
    BY <1>1, <1>5, <2>1 DEF RequestFits
  <2>3. job'[p] = job[p]
    BY <1>5
  <2> HIDE DEF x
  <2>4. RequestFits(p, x, record', job')
    BY <1>1, <2>1, <2>2, <2>3 DEF RequestFits
  <2>5. QED
    BY <2>4 DEF x
<1>8. \A t \in Request : RecordFits(record'[t], job'[t])
  <2>1. RecordFits(record[r], job'[r])
    BY <1>1 DEF RouterInv, RecordFits
  <2>2. QED
    BY <1>1, <1>5, <2>1 DEF RouterInv
<1>9. AssignmentsBalanced'
  <2>1. OnTheWay(k) /\ OnTheWay(q)
    BY <1>1, <1>3 DEF OnTheWay
  <2>2. request'[r] = q /\ \A p \in Request \ {r} : request'[p] = request[p]
    BY <1>2, SetIs DEF RouterInv
  <2>3. QED
    BY <1>1, <1>3, <2>1, <2>2, SameWay DEF RouterInv, k
<1>10. QED
  BY <1>1, <1>2, <1>3, <1>4, <1>6, <1>7, <1>8, <1>9, HandlerStep DEF RouterInv, Types
\* What a service is after it is released, and after it has failed as well.
LEMMA ReleasedFits ==
    ASSUME Types, NEW s \in Server
    PROVE  /\ Released(s) \in ServerState
           /\ [Released(s) EXCEPT !.healthy = FALSE] \in ServerState
           /\ Released(s).pending =
                 IF server[s].pending > 0 THEN server[s].pending - 1 ELSE 0
           /\ [Released(s) EXCEPT !.healthy = FALSE].pending = Released(s).pending
<1> DEFINE v == server[s]
           n == IF v.pending > 0 THEN v.pending - 1 ELSE 0
           w == [v EXCEPT !.pending = n]
<1>1. v \in ServerState
  BY DEF Types
<1>2. n \in Nat
  BY <1>1 DEF ServerState
<1>3. Released(s) = w
  BY DEF Released
<1> HIDE DEF v, n
<1>4. w \in ServerState /\ w.pending = n
  BY <1>1, <1>2 DEF ServerState
<1> HIDE DEF w
<1>5. FALSE \in BOOLEAN
  OBVIOUS
<1>6. [w EXCEPT !.healthy = FALSE] \in ServerState
      /\ [w EXCEPT !.healthy = FALSE].pending = w.pending
  BY <1>4, <1>5 DEF ServerState
<1>7. QED
  BY <1>3, <1>4, <1>6 DEF n, v

\* The answer to a submission is stored: a record is made, the request ends,
\* or another service is tried.
LEMMA SubmittedFits ==
    ASSUME RouterInv, NEW r \in Request, Submitted(r)
    PROVE  RouterInv'
<1> DEFINE k == request[r]
           s == k.server
           new == [present |-> TRUE, status |-> Live, server |-> s, errors |-> 0]
<1>1. /\ k \in RequestState /\ RequestFits(r, k, record, job) /\ k.pc = "posted"
      /\ s \in Server /\ record[r].status = "none" /\ UNCHANGED <<job, monitor>>
  BY DEF RouterInv, Types, Submitted, RequestFits, OnTheWay, Unrecorded
<1>2. PICK v \in ServerState :
          /\ server' = [server EXCEPT ![s] = v]
          /\ v.pending = IF server[s].pending > 0 THEN server[s].pending - 1 ELSE 0
  BY <1>1, ReleasedFits DEF RouterInv, Submitted
<1>3. PICK q \in RequestState :
          /\ Set(r, q) /\ ~OnTheWay(q)
          /\ \/ /\ record' = [record EXCEPT ![r] = new]
                /\ k.reply = "accepted"
                /\ \A rec, jb : rec[r].status # "none" /\ RequestFits(r, k, record, jb)
                                   => RequestFits(r, q, rec, jb)
             \/ /\ record' = record
                /\ RequestFits(r, q, record, job)
  <2>1. CASE k.reply = "accepted"
    <3> DEFINE x == Answered(k)
               y == [x EXCEPT !.pc = "asking", !.task = r]
    <3>1. record' = [record EXCEPT ![r] = new] /\ (Set(r, x) \/ Set(r, y))
      BY <2>1 DEF Submitted, Answer, Retryable
    <3>2. x \in RequestState /\ ~OnTheWay(x) /\ x.pc = "answered" /\ x.task = NoRequest
          /\ x.lost = k.lost
      BY <1>1, AnsweredFits
    <3> HIDE DEF x
    <3>3. y \in RequestState /\ y.pc = "asking" /\ y.task = r /\ y.lost = k.lost
      BY <3>2 DEF RequestState
    <3> HIDE DEF y
    <3>4. \A rec, jb : rec[r].status # "none" /\ RequestFits(r, k, record, jb)
                          => RequestFits(r, x, rec, jb) /\ RequestFits(r, y, rec, jb)
      BY <3>2, <3>3, RouterAssumption DEF RequestFits, Unrecorded, OnTheWay, Jobless
    <3>5. ~OnTheWay(y)
      BY <3>3 DEF OnTheWay
    <3>6. QED
      BY <2>1, <3>1, <3>2, <3>3, <3>4, <3>5
  <2>2. CASE k.reply = "rejected"
    <3>1. record' = record /\ Set(r, Answered(k))
      BY <2>2 DEF Submitted, Answer, Retryable
    <3>2. QED
      BY <1>1, <3>1, AnsweredFits
  <2>3. CASE k.reply = "unavailable"
    <3> DEFINE x == [k EXCEPT !.pc = "choosing", !.tried = @ \cup {s}, !.server = NoServer]
    <3>1. record' = record /\ Set(r, x)
      BY <2>3 DEF Submitted, Answer, Retryable
    <3> HIDE DEF k
    <3>2. x \in RequestState /\ x.pc = "choosing" /\ x.lost = k.lost /\ x.task = k.task
      BY <1>1 DEF RequestState
    <3> HIDE DEF x
    <3>3. RequestFits(r, x, record, job) /\ ~OnTheWay(x)
      BY <1>1, <2>3, <3>2 DEF RequestFits, Unrecorded, OnTheWay, Jobless
    <3>4. QED
      BY <3>1, <3>2, <3>3
  <2>4. QED
    BY <2>1, <2>2, <2>3 DEF Submitted, Retryable
<1>4. new \in RecordState /\ new.status = Live /\ new.server = s /\ Live = "live"
  BY <1>1 DEF RecordState, Live
<1> HIDE DEF k, new
<1>5. record' \in [Request -> RecordState]
      /\ \A t \in Request : t # r => record'[t] = record[t]
  BY <1>3, <1>4 DEF RouterInv, Types
<1>6. RequestFits(r, q, record', job')
  <2>1. record' = [record EXCEPT ![r] = new] => record'[r].status # "none"
    BY <1>4 DEF RouterInv, Types
  <2>2. QED
    BY <1>1, <1>3, <2>1
<1>7. \A p \in Request \ {r} : RequestFits(p, request[p], record', job')
  <2> SUFFICES ASSUME NEW p \in Request \ {r} PROVE RequestFits(p, request[p], record', job')
    OBVIOUS
  <2> DEFINE x == request[p]
  <2>1. RequestFits(p, x, record, job)
    BY DEF RouterInv
  <2>2. x.task \in Request => record'[x.task] = record[x.task]
    BY <1>1, <1>5, <2>1 DEF RequestFits
  <2>3. record'[p] = record[p]
    BY <1>5
  <2> HIDE DEF x
  <2>4. RequestFits(p, x, record', job')
    BY <1>1, <2>1, <2>2, <2>3 DEF RequestFits
  <2>5. QED
    BY <2>4 DEF x
<1>8. \A t \in Request : RecordFits(record'[t], job'[t])
  <2>1. k.reply = "accepted" => RecordFits(new, job[r])
    BY <1>1, <1>4 DEF RecordFits, RequestFits
  <2>2. record' = [record EXCEPT ![r] = new] => record'[r] = new
    BY DEF RouterInv, Types
  <2>3. QED
    BY <1>1, <1>3, <1>5, <2>1, <2>2 DEF RouterInv
<1>9. AssignmentsBalanced'
  <2>1. OnTheWay(k)
    BY <1>1 DEF OnTheWay
  <2>2. request'[r] = q /\ \A p \in Request \ {r} : request'[p] = request[p]
    BY <1>3, SetIs DEF RouterInv
  <2>3. \A u \in Server : server'[u].pending =
                IF u = s THEN IF server[u].pending > 0 THEN server[u].pending - 1 ELSE 0
                ELSE server[u].pending
    BY <1>2 DEF RouterInv, Types
  <2>4. QED
    BY <1>1, <1>3, <2>1, <2>2, <2>3, WayShrinks DEF RouterInv, k
<1>10. server' \in [Server -> ServerState]
  BY <1>2 DEF RouterInv, Types
<1>11. job' \in [Request -> [Server -> JobState]] /\ monitor' = monitor
  BY <1>1 DEF RouterInv, Types
<1>12. QED
  BY <1>3, <1>5, <1>6, <1>7, <1>8, <1>9, <1>10, <1>11, HandlerStep
-----------------------------------------------------------------------------
\* A handler asks for a task that has a record, stays with it, or answers.
GoesOn(k, q) ==
    /\ q \in RequestState /\ q.lost = k.lost
    /\ q.pc \in {"asking", "asked", "download", "answered"}
    /\ q.pc # "answered" => q.task = k.task
    /\ q.task \in {k.task, NoRequest}

\* What a status makes of a handler.
LEMMA AfterFetchGoesOn ==
    ASSUME NEW k \in RequestState, NEW status
    PROVE  GoesOn(k, AfterFetch(k, status))
<1>1. GoesOn(k, Answered(k))
  BY AnsweredFits DEF GoesOn
<1>2. GoesOn(k, [k EXCEPT !.pc = "download"])
  BY DEF GoesOn, RequestState
<1>3. GoesOn(k, [k EXCEPT !.pc = "asking"])
  BY DEF GoesOn, RequestState
<1>4. AfterFetch(k, status) \in
         {Answered(k), [k EXCEPT !.pc = "download"], [k EXCEPT !.pc = "asking"]}
  BY DEF AfterFetch
<1>5. QED
  BY <1>1, <1>2, <1>3, <1>4

\* What a look at the record makes of a handler.
LEMMA FetchedGoesOn ==
    ASSUME NEW k \in RequestState
    PROVE  GoesOn(k, Fetched(k))
<1>1. GoesOn(k, [k EXCEPT !.pc = "asked"])
  BY DEF GoesOn, RequestState
<1>2. QED
  BY <1>1, AfterFetchGoesOn DEF Fetched

\* A handler that is not submitting goes on, while nothing else changes.
LEMMA GoingOn ==
    ASSUME RouterInv, NEW r \in Request, NEW k \in RequestState, NEW q,
           k.lost = request[r].lost, ~OnTheWay(request[r]),
           k.task \in Request, record[k.task].status # "none",
           GoesOn(k, q), Set(r, q), UNCHANGED <<job, record, monitor, server>>
    PROVE  RouterInv'
<1>1. RequestFits(r, request[r], record, job)
  BY DEF RouterInv
<1>2. q \in RequestState /\ RequestFits(r, q, record, job) /\ ~OnTheWay(q)
  BY <1>1, LaterFits, RouterAssumption DEF GoesOn
<1>3. request'[r] = q /\ \A p \in Request \ {r} : request'[p] = request[p]
  BY SetIs DEF RouterInv
<1>4. AssignmentsBalanced'
  BY <1>2, <1>3, SameWay DEF RouterInv
<1>5. QED
  BY <1>2, <1>4, HandlerMoves DEF RouterInv, Types

\* Somebody asks for a task.
LEMMA LookFits ==
    ASSUME RouterInv, NEW r \in Request, NEW t \in Request,
           NEW kind \in {"status", "result"}, Look(r, kind, t)
    PROVE  RouterInv'
<1> DEFINE o == request[r]
           k == [o EXCEPT !.kind = kind, !.task = t]
<1>1. o \in RequestState /\ o.pc = "idle" /\ UNCHANGED <<job, record, monitor, server>>
      /\ Set(r, Fetched(k))
  BY DEF RouterInv, Types, Look
<1>2. ~OnTheWay(o)
  BY <1>1 DEF OnTheWay
<1>3. record[t].status # "none"
  <2>1. record[t].present = TRUE => record[t].status # "none"
    BY DEF RouterInv, RecordFits
  <2>2. record[t].present \in BOOLEAN
    BY DEF RouterInv, Types, RecordState
  <2>3. record[t].present
    BY DEF Look
  <2>4. record[t].present = TRUE
    BY <2>2, <2>3, Zenon
  <2>5. QED
    BY <2>1, <2>4
<1> HIDE DEF o
<1>4. k \in RequestState /\ k.lost = o.lost /\ k.task = t
  BY <1>1 DEF RequestState
<1> HIDE DEF k
<1>5. GoesOn(k, Fetched(k))
  BY <1>4, FetchedGoesOn
<1>6. QED
  BY <1>1, <1>2, <1>3, <1>4, <1>5, GoingOn DEF o

\* A handler that waits looks at its record again.
LEMMA FetchFits ==
    ASSUME RouterInv, NEW r \in Request, Fetch(r)
    PROVE  RouterInv'
<1> DEFINE k == request[r]
<1>1. k \in RequestState /\ k.pc = "asking" /\ Set(r, Fetched(k))
      /\ RequestFits(r, k, record, job) /\ UNCHANGED <<job, record, monitor, server>>
  BY DEF RouterInv, Types, Fetch
<1>2. k.task \in Request /\ record[k.task].status # "none" /\ ~OnTheWay(k)
  BY <1>1 DEF RequestFits, OnTheWay
<1>3. GoesOn(k, Fetched(k))
  BY <1>1, FetchedGoesOn
<1>4. QED
  BY <1>1, <1>2, <1>3, GoingOn

\* A service tells the state of a job it has.
LEMMA UpstreamStatusFits ==
    ASSUME RouterInv, NEW r \in Request, UpstreamStatus(r)
    PROVE  RouterInv'
<1> DEFINE k == request[r]
           t == k.task
           s == record[t].server
<1>1. /\ k \in RequestState /\ RequestFits(r, k, record, job) /\ k.pc = "asked"
      /\ UNCHANGED <<job, record, monitor, server>>
  BY DEF RouterInv, Types, UpstreamStatus
<1>2. PICK reply \in {Live, "error"} \cup Terminal :
          /\ Set(r, [k EXCEPT !.pc = "checked", !.reply = reply])
          /\ reply \in Terminal => job[t][s] = reply
  <2>1. CASE job[t][s] \in {Live} \cup Terminal
             /\ Set(r, [k EXCEPT !.pc = "checked", !.reply = job[t][s]])
    BY <2>1
  <2>2. CASE Set(r, [k EXCEPT !.pc = "checked", !.reply = "error"])
    <3>1. "error" \notin Terminal
      BY DEF Terminal
    <3>2. QED
      BY <2>2, <3>1
  <2>3. QED
    BY <2>1, <2>2 DEF UpstreamStatus
<1> DEFINE q == [k EXCEPT !.pc = "checked", !.reply = reply]
<1>3. t \in Request /\ record[t].status # "none"
  BY <1>1 DEF RequestFits
<1> HIDE DEF k
<1>4. /\ q \in RequestState /\ q.pc = "checked" /\ q.reply = reply /\ q.lost = k.lost
      /\ q.task = t
  BY <1>1 DEF RequestState, JobState, Terminal
<1>5. Set(r, q)
  BY <1>2
<1> HIDE DEF q
<1>6. RequestFits(r, q, record, job)
  BY <1>1, <1>2, <1>3, <1>4 DEF RequestFits, Unrecorded, OnTheWay, Jobless
<1>7. AssignmentsBalanced'
  <2>1. ~OnTheWay(k) /\ ~OnTheWay(q)
    BY <1>1, <1>4 DEF OnTheWay
  <2>2. request'[r] = q /\ \A p \in Request \ {r} : request'[p] = request[p]
    BY <1>5, SetIs DEF RouterInv
  <2>3. QED
    BY <1>1, <2>1, <2>2, SameWay DEF RouterInv, k
<1>8. QED
  BY <1>1, <1>4, <1>5, <1>6, <1>7, HandlerMoves DEF RouterInv, Types

-----------------------------------------------------------------------------
\* An error is counted, and makes a record failed at the threshold at the
\* earliest.
LEMMA ErredFits ==
    ASSUME RouterInv, NEW t \in Request, record[t].status # "none"
    PROVE  /\ Erred(t) \in RecordState /\ Erred(t).status # "none"
           /\ Erred(t).server = record[t].server /\ RecordFits(Erred(t), job[t])
           /\ record[t].status \in Terminal => Erred(t).status \in Terminal
<1> DEFINE k == record[t]
           n == k.errors + 1
           c == IF n >= ErrorThreshold THEN "failed" ELSE k.status
<1>1. k \in RecordState /\ RecordFits(k, job[t]) /\ ErrorThreshold \in Nat
  BY RouterAssumption DEF RouterInv, Types
<1>2. Erred(t) = [k EXCEPT !.errors = n, !.status = c]
  BY DEF Erred
<1>3. n \in Nat /\ c \in {Live, "completed", "failed"}
  BY <1>1 DEF RecordState
<1> HIDE DEF k
<1>4. /\ Erred(t) \in RecordState /\ Erred(t).status = c /\ Erred(t).errors = n
      /\ Erred(t).server = k.server /\ Erred(t).present = k.present
  BY <1>1, <1>2, <1>3 DEF RecordState
<1>5. k.errors \in Nat /\ k.status # "none" /\ c # "none"
  BY <1>1, <1>3 DEF RecordState, k, Live
<1>6. RecordFits(Erred(t), job[t])
  BY <1>1, <1>4, <1>5 DEF RecordFits
<1>7. k.status \in Terminal => c \in Terminal
  BY DEF Terminal
<1>8. QED
  BY <1>4, <1>5, <1>6, <1>7 DEF k

\* The answer of the service is stored.
LEMMA UpdatedFits ==
    ASSUME RouterInv, NEW t \in Request, record[t].status # "none",
           NEW status \in {Live} \cup Terminal,
           status \in Terminal => job[t][record[t].server] \in {status, "gone"}
    PROVE  /\ Updated(t, status) \in RecordState /\ Updated(t, status).status # "none"
           /\ Updated(t, status).server = record[t].server
           /\ RecordFits(Updated(t, status), job[t])
<1> DEFINE k == record[t]
           n == Updated(t, status)
<1>1. k \in RecordState /\ RecordFits(k, job[t])
  BY DEF RouterInv, Types
<1>2. n = [k EXCEPT !.status = status, !.errors = 0]
  BY DEF Updated
<1>3. status \in {Live, "completed", "failed"} /\ status # "none"
  BY DEF Terminal, Live
<1>4. k.status # "none"
  OBVIOUS
<1> HIDE DEF k, n
<1>5. /\ n \in RecordState /\ n.status = status /\ n.server = k.server
      /\ n.present = k.present
  BY <1>1, <1>2, <1>3 DEF RecordState
<1>6. RecordFits(n, job[t])
  BY <1>1, <1>3, <1>4, <1>5 DEF RecordFits, Terminal, Live, k
<1>7. QED
  BY <1>3, <1>5, <1>6 DEF k, n
\* The answer to a question about a task is stored, if there is still a record.
LEMMA FetchStoreFits ==
    ASSUME RouterInv, NEW r \in Request, FetchStore(r)
    PROVE  RouterInv'
<1> DEFINE k == request[r]
           t == k.task
           new == IF k.reply = "error" THEN Erred(t) ELSE Updated(t, k.reply)
<1>1. /\ k \in RequestState /\ RequestFits(r, k, record, job) /\ k.pc = "checked"
      /\ UNCHANGED <<job, monitor, server>>
  BY DEF RouterInv, Types, FetchStore
<1>2. /\ t \in Request /\ record[t].status # "none" /\ ~OnTheWay(k) /\ ~Unrecorded(k)
      /\ k.reply \in {Live, "error"} \cup Terminal
      /\ k.reply \in Terminal => job[t][record[t].server] \in {k.reply, "gone"}
  BY <1>1 DEF RequestFits, OnTheWay, Unrecorded
<1>3. CASE UNCHANGED record /\ Answer(r)
  BY <1>1, <1>2, <1>3, AnswerFits
<1>4. CASE record' = [record EXCEPT ![t] = new] /\ Set(r, AfterFetch(k, new.status))
  <2>1. /\ new \in RecordState /\ new.status # "none"
        /\ new.server = record[t].server /\ RecordFits(new, job[t])
    <3>1. CASE k.reply = "error"
      BY <1>2, <3>1, ErredFits
    <3>2. CASE k.reply # "error"
      BY <1>2, <3>2, UpdatedFits
    <3>3. QED
      BY <3>1, <3>2
  <2> HIDE DEF new
  <2>2. /\ record' \in [Request -> RecordState]
        /\ \A p \in Request : RequestFits(p, request[p], record', job)
        /\ \A u \in Request : RecordFits(record'[u], job[u])
    BY <1>2, <1>4, <2>1, RecordChanges
  <2> DEFINE q == AfterFetch(k, new.status)
  <2>3. GoesOn(k, q)
    BY <1>1, AfterFetchGoesOn
  <2> HIDE DEF q
  <2>4. record'[t].status # "none"
    BY <1>2, <1>4, <2>1 DEF RouterInv, Types
  <2>5. q \in RequestState /\ RequestFits(r, q, record', job) /\ ~OnTheWay(q)
    BY <1>2, <2>2, <2>3, <2>4, LaterFits, RouterAssumption DEF GoesOn
  <2>6. request'[r] = q /\ \A p \in Request \ {r} : request'[p] = request[p]
    BY <1>4, SetIs DEF RouterInv, q
  <2>7. AssignmentsBalanced'
    BY <1>1, <1>2, <2>5, <2>6, SameWay DEF RouterInv
  <2>8. QED
    BY <1>1, <1>4, <2>2, <2>5, <2>7, HandlerStep DEF RouterInv, Types, q
<1>5. QED
  BY <1>3, <1>4 DEF FetchStore

\* A result is fetched, or its error is counted.
LEMMA DownloadFits ==
    ASSUME RouterInv, NEW r \in Request, Download(r)
    PROVE  RouterInv'
<1> DEFINE k == request[r]
           t == k.task
<1>1. /\ k \in RequestState /\ RequestFits(r, k, record, job) /\ k.pc = "download"
      /\ Answer(r) /\ UNCHANGED <<job, monitor, server>>
  BY DEF RouterInv, Types, Download
<1>2. t \in Request /\ record[t].status # "none" /\ ~OnTheWay(k)
  BY <1>1 DEF RequestFits, OnTheWay
<1>3. CASE UNCHANGED record
  BY <1>1, <1>2, <1>3, AnswerFits
<1>4. CASE record' = [record EXCEPT ![t] = Erred(t)]
  <2> DEFINE q == Answered(k)
  <2>1. /\ record' \in [Request -> RecordState]
        /\ \A p \in Request : RequestFits(p, request[p], record', job)
        /\ \A u \in Request : RecordFits(record'[u], job[u])
    BY <1>2, <1>4, ErredFits, RecordChanges
  <2>2. Set(r, q)
    BY <1>1 DEF Answer
  <2>3. q \in RequestState /\ RequestFits(r, q, record', job) /\ ~OnTheWay(q)
    BY <1>1, <2>1, AnsweredFits
  <2> HIDE DEF q
  <2>4. request'[r] = q /\ \A p \in Request \ {r} : request'[p] = request[p]
    BY <2>2, SetIs DEF RouterInv
  <2>5. AssignmentsBalanced'
    BY <1>1, <1>2, <2>3, <2>4, SameWay DEF RouterInv
  <2>6. QED
    BY <1>1, <2>1, <2>2, <2>3, <2>5, HandlerStep DEF RouterInv, Types
<1>5. record' = record \/ record' = [record EXCEPT ![t] = Erred(t)]
  <2>1. record' = [record EXCEPT ![t] = record[t]] => record' = record
    BY DEF RouterInv, Types
  <2>2. CASE record[t].present
    BY <2>2 DEF Download
  <2>3. CASE ~record[t].present
    BY <2>1, <2>3 DEF Download
  <2>4. QED
    BY <2>2, <2>3
<1>6. QED
  BY <1>3, <1>4, <1>5

\* A record is forgotten; the handlers that wait for its task keep it.
LEMMA ExpireFits ==
    ASSUME RouterInv, NEW t \in Request, Expire(t)
    PROVE  RouterInv'
<1> DEFINE k == record[t]
           new == [k EXCEPT !.present = FALSE]
<1>1. /\ k \in RecordState /\ RecordFits(k, job[t]) /\ k.status \in Terminal
      /\ UNCHANGED <<job, request, monitor, server>>
  BY DEF RouterInv, Types, Expire
<1>2. record' = [record EXCEPT ![t] = new]
  BY DEF Expire
<1>3. FALSE \in BOOLEAN
  OBVIOUS
<1>4. k.status # "none"
  BY <1>1 DEF Terminal
<1> HIDE DEF k
<1>5. /\ new \in RecordState /\ new.status = k.status /\ new.server = k.server
      /\ new.errors = k.errors
  BY <1>1, <1>3 DEF RecordState
<1> HIDE DEF new
<1>6. RecordFits(new, job[t])
  BY <1>1, <1>4, <1>5 DEF RecordFits
<1>7. /\ record' \in [Request -> RecordState]
      /\ \A p \in Request : RequestFits(p, request[p], record', job)
      /\ \A u \in Request : RecordFits(record'[u], job[u])
  BY <1>2, <1>4, <1>5, <1>6, RecordChanges DEF k
<1>8. Types'
  BY <1>1, <1>7 DEF RouterInv, Types, JobState, RequestState, RecordState, ServerState
<1>9. AssignmentsBalanced'
  BY <1>1, SameWay DEF RouterInv
<1>10. (\A p \in Request : RequestFits(p, request[p], record, job))'
  BY <1>1, <1>7 DEF RequestFits, Unrecorded, OnTheWay, Jobless, Terminal, Live
<1>11. (\A u \in Request : RecordFits(record[u], job[u]))'
  BY <1>1, <1>7 DEF RecordFits
<1>12. QED
  BY <1>8, <1>9, <1>10, <1>11 DEF RouterInv

\* A request that waits for no service ends.
LEMMA EndFits ==
    ASSUME RouterInv, NEW r \in Request, NoCandidate(r) \/ GiveUp(r)
    PROVE  RouterInv'
<1>1. /\ Answer(r) /\ ~OnTheWay(request[r])
      /\ UNCHANGED <<job, record, monitor, server>>
  BY DEF NoCandidate, GiveUp, OnTheWay
<1>2. QED
  BY <1>1, AnswerFits

-----------------------------------------------------------------------------
\* A process ends, and its jobs with it.
LEMMA LostAges ==
    ASSUME Types, NEW s \in Server
    PROVE  /\ Lost(s) \in [Request -> [Server -> JobState]]
           /\ \A r \in Request, u \in Server :
                 /\ Lost(s)[r][u] = "none" <=> job[r][u] = "none"
                 /\ Lost(s)[r][u] \in {job[r][u], "gone"}
BY DEF Types, Lost, JobState

\* The monitor asks a service, and stores what it has found.
LEMMA MonitorFits ==
    ASSUME RouterInv, StoreHealth \/ \E s \in Server : CheckHealth(s)
    PROVE  RouterInv'
<1>1. CASE \E s \in Server : CheckHealth(s)
  <2>1. UNCHANGED <<job, server, record, request>>
        /\ monitor' \in [server: Server \cup {NoServer}, reply: {"healthy", "error", "down"}]
    BY <1>1 DEF CheckHealth
  <2>2. QED
    BY <2>1, JobsAge DEF RouterInv, Types
<1>2. CASE StoreHealth
  <2> DEFINE s == monitor.server
             h == server[s]
  <2>1. s \in Server /\ monitor' = Idle /\ UNCHANGED <<record, request>>
    BY <1>2 DEF StoreHealth, RouterInv, Types
  <2>2. job' = job \/ job' = Lost(s)
    BY <1>2 DEF StoreHealth
  <2>3. PICK n \in Nat :
            \/ server' = [server EXCEPT ![s] = [h EXCEPT !.healthy = TRUE, !.failures = 0]]
            \/ server' = [server EXCEPT ![s] = [h EXCEPT !.healthy = FALSE, !.failures = n]]
    <3> DEFINE n == IF h.failures < HealthThreshold THEN h.failures + 1 ELSE HealthThreshold
    <3>1. n \in Nat
      BY <2>1, RouterAssumption DEF RouterInv, Types, ServerState
    <3>2. \/ server' = [server EXCEPT ![s] = [h EXCEPT !.healthy = TRUE, !.failures = 0]]
          \/ server' = [server EXCEPT ![s] = [h EXCEPT !.healthy = FALSE, !.failures = n]]
      BY <1>2 DEF StoreHealth
    <3>3. QED
      BY <3>1, <3>2
  <2>4. h \in ServerState /\ TRUE \in BOOLEAN /\ FALSE \in BOOLEAN
    BY <2>1 DEF RouterInv, Types
  <2> HIDE DEF h
  <2>5. PICK v \in ServerState : server' = [server EXCEPT ![s] = v] /\ v.pending = h.pending
    <3> DEFINE x == [h EXCEPT !.healthy = TRUE, !.failures = 0]
               y == [h EXCEPT !.healthy = FALSE, !.failures = n]
    <3>1. x \in ServerState /\ x.pending = h.pending
      BY <2>4 DEF ServerState
    <3>2. y \in ServerState /\ y.pending = h.pending
      BY <2>4 DEF ServerState
    <3>3. server' = [server EXCEPT ![s] = x] \/ server' = [server EXCEPT ![s] = y]
      BY <2>3
    <3>4. QED
      BY <3>1, <3>2, <3>3
  <2>6. server' \in [Server -> ServerState]
        /\ \A u \in Server : server'[u].pending = server[u].pending
    BY <2>5 DEF RouterInv, Types, h
  <2>7. monitor' \in [server: Server \cup {NoServer},
                      reply: {"none", "healthy", "error", "down"}]
    BY <2>1 DEF Idle
  <2>8. job' \in [Request -> [Server -> JobState]]
        /\ \A r \in Request, u \in Server :
              /\ job'[r][u] = "none" <=> job[r][u] = "none"
              /\ job'[r][u] \in {job[r][u], "gone"}
    BY <2>1, <2>2, LostAges DEF RouterInv, Types
  <2>9. QED
    BY <2>1, <2>6, <2>7, <2>8, JobsAge
<1>3. QED
  BY <1>1, <1>2

\* Jobs end and are forgotten, processes end and come back.
LEMMA ServerFits ==
    ASSUME RouterInv, NEW s \in Server,
           \/ ServerEnds(s) \/ ServerReturns(s)
           \/ \E r \in Request : JobExpires(r, s) \/ \E o \in Terminal : JobEnds(r, s, o)
    PROVE  RouterInv'
<1>1. UNCHANGED <<server, record, request, monitor>>
  BY DEF ServerEnds, ServerReturns, JobExpires, JobEnds
<1> DEFINE Ages == /\ job' \in [Request -> [Server -> JobState]]
                   /\ \A r \in Request, u \in Server :
                         /\ job'[r][u] = "none" <=> job[r][u] = "none"
                         /\ job[r][u] \in {"completed", "failed", "gone"} =>
                               job'[r][u] \in {job[r][u], "gone"}
<1>2. Ages
  <2>1. CASE ServerEnds(s)
    BY <2>1, LostAges DEF ServerEnds, RouterInv
  <2>2. CASE ServerReturns(s)
    BY <2>2 DEF ServerReturns, RouterInv, Types
  <2>3. ASSUME NEW r \in Request, NEW o \in {"completed", "failed", "gone"},
               job' = [job EXCEPT ![r][s] = o],
               job[r][s] # "none", o = "gone" \/ job[r][s] = Live
        PROVE  Ages
    <3>1. job' \in [Request -> [Server -> JobState]]
      BY <2>3 DEF RouterInv, Types, JobState
    <3>2. \A p \in Request, u \in Server :
             job'[p][u] = IF p = r /\ u = s THEN o ELSE job[p][u]
      BY <2>3 DEF RouterInv, Types
    <3>3. QED
      BY <2>3, <3>1, <3>2 DEF Live
  <2>4. ASSUME NEW r \in Request, JobExpires(r, s) PROVE Ages
    BY <2>3, <2>4 DEF JobExpires, Terminal
  <2>5. ASSUME NEW r \in Request, NEW o \in Terminal, JobEnds(r, s, o) PROVE Ages
    BY <2>3, <2>5 DEF JobEnds, Terminal, Live
  <2>6. QED
    BY <2>1, <2>2, <2>4, <2>5
<1>3. QED
  BY <1>1, <1>2, JobsAge DEF RouterInv, Types
-----------------------------------------------------------------------------
\* Every step keeps the invariant.
LEMMA RouterStep == RouterInv /\ [Next]_vars => RouterInv'
<1> SUFFICES ASSUME RouterInv, [Next]_vars PROVE RouterInv'
  OBVIOUS
<1>1. CASE UNCHANGED vars
  <2>1. UNCHANGED <<job, server, record, request, monitor>>
    BY <1>1 DEF vars
  <2>2. QED
    BY <2>1, JobsAge DEF RouterInv, Types
<1>2. ASSUME NEW r \in Request, RequestStep(r) PROVE RouterInv'
  BY <1>2, AcquireFits, EndFits, UpstreamPostFits, SubmittedFits, FetchFits,
     UpstreamStatusFits, FetchStoreFits, DownloadFits DEF RequestStep
<1>3. CASE Next
  BY <1>2, <1>3, ArriveFits, LookFits, EndFits, ExpireFits, MonitorFits, ServerFits DEF Next
<1>4. QED
  BY <1>1, <1>3

\* What is known of every handler, every record and every service holds always.
THEOREM RouterInvariance == Spec => []RouterInv
BY RouterInit, RouterStep, PTL DEF Spec

\* However submissions end, each service is counted exactly the submissions
\* that are on their way to it.
THEOREM AssignmentsAlwaysBalanced == Spec => []AssignmentsBalanced
<1>1. RouterInv => AssignmentsBalanced
  BY DEF RouterInv
<1>2. QED
  BY <1>1, RouterInvariance, PTL

\* Only an answer that was lost lets two services parse one document, however
\* many services there are and however often they fail.
THEOREM DuplicatesExplained == Spec => []DuplicateExplained
<1>1. RouterInv => DuplicateExplained
  <2> SUFFICES ASSUME RouterInv, NEW r \in Request, ~request[r].lost
               PROVE  ~(Cardinality({s \in Server : job[r][s] # "none"}) > 1)
    BY Zenon DEF DuplicateExplained
  <2> DEFINE S == {s \in Server : job[r][s] # "none"}
  <2>1. request[r].lost = FALSE
    <3>1. request[r].lost \in BOOLEAN
      BY DEF RouterInv, Types, RequestState
    <3>2. QED
      BY <3>1, Zenon
  <2>2. \A s, u \in S : s = u
    BY <2>1 DEF RouterInv, RequestFits
  <2>3. CASE S = {}
    BY <2>3, FS_EmptySet
  <2>4. CASE S # {}
    <3>1. PICK s : S = {s}
      BY <2>2, <2>4
    <3>2. Cardinality({s}) = 1
      BY FS_Singleton
    <3>3. QED
      BY <3>1, <3>2
  <2>5. QED
    BY <2>3, <2>4
<1>2. QED
  BY <1>1, RouterInvariance, PTL

\* Whenever answers arrive and are stored, a record says nothing of its job
\* that is not so, but for a service that was out of reach too often.
THEOREM RecordsTruthful == Spec => []RecordTruthful
<1>1. RouterInv => RecordTruthful
  BY DEF RouterInv, RecordFits, RecordTruthful
<1>2. QED
  BY <1>1, RouterInvariance, PTL

\* Nothing but an answer to an earlier question takes a final status back.
THEOREM TerminalAlwaysStays == Spec => TerminalStays
<1>1. ASSUME RouterInv, [Next]_vars, NEW t \in Request,
             record[t].status \in Terminal, ~Asked(t)
      PROVE  record'[t].status \in Terminal
  <2>1. CASE UNCHANGED record
    BY <1>1, <2>1
  <2>2. ASSUME NEW r \in Request, NEW new, record[r].status = "none",
               record' = [record EXCEPT ![r] = new]
        PROVE  record'[t].status \in Terminal
    BY <1>1, <2>2 DEF RouterInv, Types, Terminal
  <2>3. ASSUME NEW r \in Request, Submitted(r) PROVE record'[t].status \in Terminal
    <3>1. record[r].status = "none"
      BY <1>1, <2>3 DEF RouterInv, RequestFits, Submitted, Unrecorded
    <3>2. record' = record \/ \E new : record' = [record EXCEPT ![r] = new]
      BY <2>3 DEF Submitted
    <3>3. QED
      BY <2>1, <2>2, <3>1, <3>2
  <2>4. ASSUME NEW r \in Request, FetchStore(r) PROVE record'[t].status \in Terminal
    <3>1. request[r].task # t
      BY <1>1, <2>4 DEF FetchStore, Asked
    <3>2. record' = record \/ \E new : record' = [record EXCEPT ![request[r].task] = new]
      BY <2>4 DEF FetchStore
    <3>3. record'[t] = record[t]
      BY <1>1, <3>1, <3>2 DEF RouterInv, Types
    <3>4. QED
      BY <1>1, <3>3
  <2>5. ASSUME NEW r \in Request, Download(r) PROVE record'[t].status \in Terminal
    <3> DEFINE u == request[r].task
    <3>1. u \in Request /\ record[u].status # "none"
      BY <1>1, <2>5 DEF Download, RouterInv, RequestFits
    <3>2. CASE record' = record
      BY <2>1, <3>2
    <3>3. CASE record' = [record EXCEPT ![u] = Erred(u)]
      BY <1>1, <3>1, <3>3, ErredFits DEF RouterInv, Types
    <3>4. record' = record \/ record' = [record EXCEPT ![u] = Erred(u)]
      <4>1. record' = [record EXCEPT ![u] = record[u]] => record' = record
        BY <1>1 DEF RouterInv, Types
      <4>2. CASE record[u].present
        BY <2>5, <4>2 DEF Download
      <4>3. CASE ~record[u].present
        BY <2>5, <4>1, <4>3 DEF Download
      <4>4. QED
        BY <4>2, <4>3
    <3>5. QED
      BY <3>2, <3>3, <3>4
  <2>6. ASSUME NEW r \in Request, Expire(r) PROVE record'[t].status \in Terminal
    <3> DEFINE k == record[r]
    <3>1. k \in RecordState /\ record' = [record EXCEPT ![r] = [k EXCEPT !.present = FALSE]]
      BY <1>1, <2>6 DEF Expire, RouterInv, Types
    <3>2. [k EXCEPT !.present = FALSE].status = k.status
      BY <3>1 DEF RecordState
    <3>3. record'[t].status = record[t].status
      BY <1>1, <3>1, <3>2 DEF RouterInv, Types
    <3>4. QED
      BY <1>1, <3>3
  <2>7. UNCHANGED record \/ \E r \in Request :
           Submitted(r) \/ FetchStore(r) \/ Download(r) \/ Expire(r)
    BY <1>1 DEF Next, vars, RequestStep, Arrive, Acquire, NoCandidate, UpstreamPost, Look,
        Fetch, UpstreamStatus, GiveUp, CheckHealth, StoreHealth, JobEnds, JobExpires,
        ServerEnds, ServerReturns
  <2>8. QED
    BY <2>1, <2>3, <2>4, <2>5, <2>6, <2>7
<1>2. RouterInv /\ [Next]_vars =>
        [\A t \in Request :
            record[t].status \in Terminal /\ ~Asked(t) => record'[t].status \in Terminal]_vars
  BY <1>1
<1>3. QED
  BY <1>2, RouterInvariance, PTL DEF Spec, TerminalStays

=============================================================================
