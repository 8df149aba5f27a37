------------------------- MODULE MinerUClientProofs -------------------------
(***************************************************************************)
(* Calls of parse_with_retry against the parse service: the service keeps  *)
(* its promises whatever its clients do, and a call is never parsed beside *)
(* itself, for every number of calls, retries, losses and restarts.        *)
(***************************************************************************)
EXTENDS MinerUClient, ParseServiceProofs

\* The handlers and the parses of t are over.
Settled(t) ==
    /\ status[t] \notin {"pending", "processing"}
    /\ handler[t].pc \notin {"none", "saving"}

SettledNext(t) ==
    /\ status'[t] \notin {"pending", "processing"}
    /\ handler'[t].pc \notin {"none", "saving"}

\* A job that was completed stays so until it is forgotten.
Over == {"completed", "removed", "lost"}

\* What an answer says of its job.
HandlerInv ==
    \A t \in Task :
        /\ handler[t].answer # "none" => handler[t].pc = "answered"
        /\ handler[t].answer = "accepted" => status[t] # "none"
        /\ handler[t].answer \in {"failed", "error"} => Settled(t)
        /\ handler[t].answer = "unavailable" => Settled(t) \/ manager = "stopping"
        /\ handler[t].pc = "building" \/ handler[t].answer = "full" => status[t] \in Over
        /\ handler[t].answer = "empty" => status[t] = "removed"

\* What a call knows of its job, and what became of its earlier jobs.
CallInv(k) ==
    /\ k.pc \in {"posting", "polling", "fetching", "reading"} => k.job \in Task
    /\ k.pc = "polling" => handler[k.job].answer = "accepted"
    /\ k.pc \in {"fetching", "reading"} => Settled(k.job) /\ status[k.job] \in Over
    /\ \A t \in k.jobs : handler[t].pc # "none"
    /\ k.hit = TRUE \/ manager = "stopping" \/ \A t \in k.jobs : t = k.job \/ Settled(t)
    /\ k.hit = TRUE \/ manager = "stopping" \/ k.pc # "ready" \/ \A t \in k.jobs : Settled(t)
    /\ k.pc = "idle" => k.jobs = {}
    /\ k.pc # "done" => k.result = "none"
    /\ k.result = "full" => k.job \in Task /\ status[k.job] \in Over
    /\ k.result = "empty" => k.job \in Task /\ status[k.job] = "removed"

\* The same after a step, of a call k.
CallInvNext(k) ==
    /\ k.pc \in {"posting", "polling", "fetching", "reading"} => k.job \in Task
    /\ k.pc = "polling" => handler'[k.job].answer = "accepted"
    /\ k.pc \in {"fetching", "reading"} => SettledNext(k.job) /\ status'[k.job] \in Over
    /\ \A t \in k.jobs : handler'[t].pc # "none"
    /\ k.hit = TRUE \/ manager' = "stopping" \/ \A t \in k.jobs : t = k.job \/ SettledNext(t)
    /\ k.hit = TRUE \/ manager' = "stopping" \/ k.pc # "ready" \/ \A t \in k.jobs : SettledNext(t)
    /\ k.pc = "idle" => k.jobs = {}
    /\ k.pc # "done" => k.result = "none"
    /\ k.result = "full" => k.job \in Task /\ status'[k.job] \in Over
    /\ k.result = "empty" => k.job \in Task /\ status'[k.job] = "removed"

ClientInv == \A c \in Client : CallInv(client[c])

\* Why a parser stops using the service.
Believes ==
    /\ believed = "no" => restarts > 0 \/ manager # "running" \/ drops > 0
    /\ manager = "down" => restarts > 0

-----------------------------------------------------------------------------
\* A failed attempt ends the call or starts another, and never without the
\* mark of what hit it.
LEMMA AttemptFacts ==
    ASSUME client \in [Client -> Call], NEW c \in Client,
           NEW retry \in {"may", "must", "never"}, NEW hit \in BOOLEAN,
           MaxRetries \in Nat,
           AttemptFails(c, retry, hit)
    PROVE  /\ client' \in [Client -> Call]
           /\ \A d \in Client : d # c => client'[d] = client[d]
           /\ client'[c].job = client[c].job /\ client'[c].jobs = client[c].jobs
           /\ retry = "never" => client'[c].pc = "done"
           /\ hit = TRUE => client'[c].hit = TRUE
           /\ client[c].hit = TRUE => client'[c].hit = TRUE
           /\ \/ client'[c].pc = "ready" /\ client'[c].result = client[c].result
              \/ client'[c].pc = "done" /\ client'[c].result \in {"pymupdf", "failed"}
<1> DEFINE h == client[c].hit \/ hit
<1>1. h \in BOOLEAN
  BY Zenon
<1>2. (hit = TRUE => h = TRUE) /\ (client[c].hit = TRUE => h = TRUE)
  BY Zenon
<1>3. CASE /\ client[c].attempt < MaxRetries /\ retry \in {"may", "must"}
           /\ client' = [client EXCEPT ![c].pc = "ready", ![c].attempt = @ + 1,
                                       ![c].hit = h]
  <2> HIDE DEF h
  <2>1. client[c].attempt + 1 \in 0..MaxRetries
    BY <1>3 DEF Call
  <2>2. QED
    BY <1>1, <1>2, <1>3, <2>1 DEF Call
<1>4. CASE client' = [client EXCEPT ![c] = [Finish(c, "failed") EXCEPT !.hit = h]]
  <2> HIDE DEF h
  <2>1. /\ Finish(c, "failed") \in Call /\ Finish(c, "failed").pc = "done"
        /\ Finish(c, "failed").job = client[c].job
        /\ Finish(c, "failed").jobs = client[c].jobs
        /\ Finish(c, "failed").hit = client[c].hit
        /\ Finish(c, "failed").result \in {"pymupdf", "failed"}
    BY DEF Call, Finish
  <2>2. QED
    BY <1>1, <1>2, <1>4, <2>1 DEF Call
<1>5. Finish(c, "failed").hit = client[c].hit
  BY DEF Call, Finish
<1>6. QED
  BY <1>3, <1>4, <1>5 DEF AttemptFails

\* A call that returns has its result.
LEMMA ReturnFacts ==
    ASSUME client \in [Client -> Call], NEW c \in Client,
           NEW result \in {"full", "empty"}, Return(c, result)
    PROVE  /\ client' \in [Client -> Call]
           /\ \A d \in Client : d # c => client'[d] = client[d]
           /\ client'[c].job = client[c].job /\ client'[c].jobs = client[c].jobs
           /\ client'[c].pc = "done" /\ client'[c].hit = client[c].hit
           /\ client'[c].result = result
<1>1. /\ Finish(c, result) \in Call /\ Finish(c, result).pc = "done"
      /\ Finish(c, result).job = client[c].job
      /\ Finish(c, result).jobs = client[c].jobs
      /\ Finish(c, result).hit = client[c].hit
      /\ Finish(c, result).result = result
  BY DEF Call, Finish
<1>2. QED
  BY <1>1 DEF Return

-----------------------------------------------------------------------------
(***************************************************************************)
(* The service seen from the call.                                         *)
(***************************************************************************)
\* What a call may rely on while the service goes on.
Keeps ==
    \A t \in Task :
        /\ Settled(t) => SettledNext(t)
        /\ status[t] \in Over => status'[t] \in Over
        /\ status[t] = "removed" => status'[t] = "removed"
        /\ handler[t].answer = "accepted" => handler'[t].answer = "accepted"
        /\ handler[t].pc # "none" => handler'[t].pc # "none"
        /\ handler[t].pc # "none" /\ manager = "stopping" =>
              manager' = "stopping" \/ SettledNext(t)

\* Where a task can go in a step.
Moves ==
    \A t \in Task :
        \/ status'[t] = status[t]
        \/ status[t] = "none" /\ handler[t].pc = "saving" /\ status'[t] = "pending"
        \/ status[t] = "pending" /\ status'[t] = "processing"
        \/ status[t] = "processing" /\ status'[t] \in Terminal
        \/ status[t] \in Terminal /\ status'[t] = "removed"
        \/ Known(t) /\ status'[t] = "lost"

\* A service that stops takes everything with it.
Stops ==
    manager = "stopping" =>
        \/ manager' = "stopping"
        \/ \A t \in Task : /\ status'[t] \notin {"pending", "processing"}
                          /\ handler'[t].pc # "saving"

\* A stopping service ends with its process only.
LEMMA StopsStep ==
    ASSUME ServiceTypeOK, ServiceNext
    PROVE  Stops
<1>1. CASE EndShutdown \/ Crash
  <2>1. ProcessEnds
    BY <1>1 DEF EndShutdown, Crash
  <2>2. \A t \in Task : status'[t] \notin {"pending", "processing"}
    BY <2>1 DEF ProcessEnds, Known, ServiceTypeOK
  <2>3. \A t \in Task : handler'[t].pc # "saving"
    BY <2>1 DEF ProcessEnds, Handler, ServiceTypeOK
  <2>4. QED
    BY <2>2, <2>3 DEF Stops
<1>2. CASE StartUp \/ BeginShutdown
  BY <1>2 DEF StartUp, BeginShutdown, Stops
<1>3. CASE UNCHANGED manager
  BY <1>3 DEF Stops
<1>4. QED
  BY <1>1, <1>2, <1>3
     DEF ServiceNext, ServiceStep, Accept, Submit, Resume, BuildResult, RejectUpload,
         LeaveUpload, EndParse, Dispatch, BeginParse, CleanupExpired

\* Tasks move forward only.
LEMMA MovesStep ==
    ASSUME ServiceTypeOK, LineInv, ServiceNext
    PROVE  Moves
<1> USE DEF ServiceTypeOK, Moves
<1>1. ASSUME NEW t \in Task, NEW kind \in {"sync", "async"}, Accept(t, kind)
      PROVE  Moves
  BY <1>1 DEF Accept
<1>2. ASSUME NEW t \in Task, NEW a \in {"badRequest", "error"}, RejectUpload(t, a)
      PROVE  Moves
  BY <1>2 DEF RejectUpload
<1>3. ASSUME NEW t \in Task, Resume(t) PROVE Moves
  BY <1>3 DEF Resume
<1>4. ASSUME NEW t \in Task, BuildResult(t) PROVE Moves
  BY <1>4 DEF BuildResult
<1>5. ASSUME NEW t \in Task, Submit(t) PROVE Moves
  BY <1>5 DEF Submit, LineInv, Handlers
<1>6. ASSUME NEW t \in Task, NEW outcome \in Terminal, EndParse(t, outcome)
      PROVE  Moves
  BY <1>6 DEF EndParse
<1>7. CASE Dispatch
  <2>1. Head(queue) \in Task /\ status[Head(queue)] = "pending"
    BY <1>7, InTail DEF Dispatch, LineInv, Line
  <2>2. CASE Free > 0 /\ waiting = <<>> /\ granted = <<>>
    BY <1>7, <2>1, <2>2 DEF Dispatch
  <2>3. CASE ~(Free > 0 /\ waiting = <<>> /\ granted = <<>>)
    BY <1>7, <2>3 DEF Dispatch
  <2>4. QED
    BY <2>2, <2>3
<1>8. CASE BeginParse
  <2>1. Head(granted) \in Task /\ status[Head(granted)] = "pending"
    BY <1>8, InTail DEF BeginParse, LineInv, Line
  <2>2. QED
    BY <1>8, <2>1 DEF BeginParse
<1>9. ASSUME NEW S \in SUBSET Task, CleanupExpired(S) PROVE Moves
  BY <1>9 DEF CleanupExpired
<1>10. CASE BeginShutdown
  BY <1>10 DEF BeginShutdown
<1>11. CASE EndShutdown \/ Crash
  BY <1>11 DEF EndShutdown, Crash, ProcessEnds
<1>12. CASE StartUp
  BY <1>12 DEF StartUp
<1>13. ASSUME NEW t \in Task, LeaveUpload(t) PROVE Moves
  BY <1>13 DEF LeaveUpload
<1>14. QED
  BY <1>1, <1>2, <1>3, <1>4, <1>5, <1>6, <1>7, <1>8, <1>9, <1>10, <1>11, <1>12, <1>13
     DEF ServiceNext, ServiceStep

\* Handlers move forward too, and answer what they have found.
HandlerMoves ==
    \A t \in Task :
        \/ handler'[t] = handler[t]
        \/ /\ handler[t].pc = "none" /\ handler'[t].pc = "saving"
           /\ handler'[t].answer = "none" /\ status'[t] = status[t]
        \/ /\ handler[t].pc = "saving" /\ handler'[t].pc = "waiting"
           /\ handler'[t].answer = handler[t].answer
        \/ /\ handler[t].pc = "saving" /\ handler'[t].pc = "answered"
           /\ handler'[t].answer = "accepted" /\ status'[t] = "pending"
        \/ /\ handler[t].pc = "saving" /\ handler'[t].pc = "answered"
           /\ handler'[t].answer \in {"badRequest", "error"}
           /\ status[t] = "none" /\ status'[t] = "none"
        \/ /\ handler[t].pc = "waiting" /\ handler'[t].pc = "building"
           /\ handler'[t].answer = handler[t].answer
           /\ status[t] = "completed" /\ status'[t] = "completed"
        \/ /\ handler[t].pc = "waiting" /\ handler'[t].pc = "answered"
           /\ handler'[t].answer = "failed"
           /\ status[t] = "failed" /\ status'[t] = "failed"
        \/ /\ handler[t].pc = "waiting" /\ handler'[t].pc = "answered"
           /\ handler'[t].answer = "unavailable" /\ status'[t] = status[t]
           /\ manager' = "stopping" \/ status[t] \notin {"pending", "processing"}
        \/ /\ handler[t].pc = "saving" /\ handler'[t].pc = "answered"
           /\ handler'[t].answer = "unavailable"
           /\ status[t] = "none" /\ status'[t] = "none"
        \/ /\ handler[t].pc = "building" /\ handler'[t].pc = "answered"
           /\ handler'[t].answer = "full" /\ status'[t] = status[t]
        \/ /\ handler[t].pc = "building" /\ handler'[t].pc = "answered"
           /\ handler'[t].answer \in {"empty", "error"}
           /\ t \notin dirs \ strays /\ status'[t] = status[t]
        \/ /\ handler[t].pc \in {"saving", "waiting", "building"}
           /\ handler'[t].pc = "broken" /\ handler'[t].answer = handler[t].answer

\* What reading the files of a job may give.
LEMMA ResultsFacts == \A t \in Task : Results(t) \subseteq {"full", "empty", "error"}
BY DEF Results

\* Every step moves the handlers this way.
LEMMA HandlerMovesStep ==
    ASSUME ServiceTypeOK, LineInv, Wakeful, ServiceNext
    PROVE  HandlerMoves
<1> USE DEF ServiceTypeOK, HandlerMoves
<1>1. ASSUME NEW t \in Task, NEW kind \in {"sync", "async"}, Accept(t, kind)
      PROVE  HandlerMoves
  BY <1>1 DEF Accept, NoHandler
<1>2. ASSUME NEW t \in Task, NEW a \in {"badRequest", "error"}, RejectUpload(t, a)
      PROVE  HandlerMoves
  <2>1. status' = status /\ status[t] = "none" /\ handler[t].pc = "saving"
    BY <1>2 DEF RejectUpload, LineInv, Handlers
  <2>2. handler' = [handler EXCEPT ![t].pc = "answered", ![t].answer = a]
    BY <1>2 DEF RejectUpload, AnswerWith
  <2>3. QED
    BY <2>1, <2>2 DEF Handler
<1>3. ASSUME NEW t \in Task, Resume(t) PROVE HandlerMoves
  <2>1. status' = status /\ handler[t].pc = "waiting"
    BY <1>3 DEF Resume
  <2>2. CASE status[t] = "completed"
    BY <1>3, <2>1, <2>2 DEF Resume, Handler
  <2>3. CASE status[t] = "failed"
    <3>1. handler' = [handler EXCEPT ![t].pc = "answered", ![t].answer = "failed"]
      BY <1>3, <2>3 DEF Resume, AnswerWith
    <3>2. QED
      BY <2>1, <2>3, <3>1 DEF Handler
  <2>4. CASE status[t] \notin {"completed", "failed"}
    <3>1. handler' = [handler EXCEPT ![t].pc = "answered", ![t].answer = "unavailable"]
      BY <1>3, <2>4 DEF Resume, AnswerWith
    <3>2. /\ handler'[t].pc = "answered" /\ handler'[t].answer = "unavailable"
          /\ \A u \in Task : u # t => handler'[u] = handler[u]
      BY <3>1 DEF Handler
    <3>3. (t \in signalled \/ wakeup = TRUE) /\ manager' = manager
      BY <1>3, Zenon DEF Resume
    <3>4. manager = "stopping" \/ status[t] \notin {"pending", "processing"}
      BY <3>3 DEF Wakeful
    <3>5. QED
      BY <2>1, <3>2, <3>3, <3>4
  <2>5. QED
    BY <2>2, <2>3, <2>4
<1>4. ASSUME NEW t \in Task, BuildResult(t) PROVE HandlerMoves
  <2>1. PICK a \in Results(t) : AnswerWith(t, a)
    BY <1>4 DEF BuildResult
  <2>2. a = "full" \/ (a \in {"empty", "error"} /\ t \notin dirs \ strays)
    <3>1. CASE t \in dirs \ strays
      BY <2>1, <3>1, Zenon DEF Results
    <3>2. CASE t \notin dirs \ strays
      BY <2>1, <3>2, ResultsFacts
    <3>3. QED
      BY <3>1, <3>2
  <2>3. handler' = [handler EXCEPT ![t].pc = "answered", ![t].answer = a]
    BY <2>1 DEF AnswerWith
  <2>4. status' = status /\ handler[t].pc = "building"
    BY <1>4 DEF BuildResult
  <2>5. /\ handler'[t].pc = "answered" /\ handler'[t].answer = a
        /\ \A u \in Task : u # t => handler'[u] = handler[u]
    BY <2>3 DEF Handler
  <2>6. QED
    BY <2>2, <2>4, <2>5
<1>5. ASSUME NEW t \in Task, Submit(t) PROVE HandlerMoves
  <2>1. handler[t].pc = "saving" /\ status' = [status EXCEPT ![t] = "pending"]
    BY <1>5 DEF Submit
  <2>2. CASE handler[t].kind = "async"
    <3>1. handler' = [handler EXCEPT ![t].pc = "answered", ![t].answer = "accepted"]
      BY <1>5, <2>2 DEF Submit, AnswerWith
    <3>2. QED
      BY <2>1, <3>1 DEF Handler
  <2>3. CASE handler[t].kind # "async"
    <3>1. handler' = [handler EXCEPT ![t].pc = "waiting"]
      BY <1>5, <2>3 DEF Submit
    <3>2. QED
      BY <2>1, <3>1 DEF Handler
  <2>4. QED
    BY <2>2, <2>3
<1>6. ASSUME NEW t \in Task, NEW outcome \in Terminal, EndParse(t, outcome)
      PROVE  HandlerMoves
  BY <1>6 DEF EndParse
<1>7. CASE Dispatch
  BY <1>7 DEF Dispatch
<1>8. CASE BeginParse
  BY <1>8 DEF BeginParse
<1>9. ASSUME NEW S \in SUBSET Task, CleanupExpired(S) PROVE HandlerMoves
  BY <1>9 DEF CleanupExpired
<1>10. CASE BeginShutdown
  BY <1>10 DEF BeginShutdown
<1>11. CASE EndShutdown \/ Crash
  BY <1>11 DEF EndShutdown, Crash, ProcessEnds, Handler
<1>12. CASE StartUp
  BY <1>12 DEF StartUp
<1>13. ASSUME NEW t \in Task, LeaveUpload(t) PROVE HandlerMoves
  <2>1. /\ status' = status /\ status[t] = "none" /\ handler[t].pc = "saving"
        /\ manager' = manager /\ manager = "stopping"
    BY <1>13 DEF LeaveUpload, LineInv, Handlers
  <2>2. CASE AnswerWith(t, "unavailable")
    <3>1. handler' = [handler EXCEPT ![t].pc = "answered", ![t].answer = "unavailable"]
      BY <2>2 DEF AnswerWith
    <3>2. QED
      BY <2>1, <3>1 DEF Handler
  <2>3. CASE handler' = [handler EXCEPT ![t].pc = "broken"]
    BY <2>1, <2>3 DEF Handler
  <2>4. QED
    BY <1>13, <2>2, <2>3 DEF LeaveUpload
<1>14. QED
  BY <1>1, <1>2, <1>3, <1>4, <1>5, <1>6, <1>7, <1>8, <1>9, <1>10, <1>11, <1>12, <1>13
     DEF ServiceNext, ServiceStep

\* What a call relies on is kept.
LEMMA KeepsStep ==
    ASSUME HandlerInv, Moves, HandlerMoves, Stops
    PROVE  Keeps
<1> SUFFICES ASSUME NEW t \in Task
             PROVE  /\ Settled(t) => SettledNext(t)
                    /\ status[t] \in Over => status'[t] \in Over
                    /\ status[t] = "removed" => status'[t] = "removed"
                    /\ handler[t].answer = "accepted" => handler'[t].answer = "accepted"
                    /\ handler[t].pc # "none" => handler'[t].pc # "none"
                    /\ handler[t].pc # "none" /\ manager = "stopping" =>
                          manager' = "stopping" \/ SettledNext(t)
  BY DEF Keeps
<1>1. /\ handler[t].pc \notin {"none", "saving"} =>
            handler'[t].pc \notin {"none", "saving"}
      /\ handler[t].pc = "answered" => handler'[t] = handler[t]
      /\ handler'[t].answer = handler[t].answer \/ handler[t].pc # "answered"
      /\ handler[t].pc # "none" => handler'[t].pc # "none"
  BY DEF HandlerMoves
<1>2. /\ status[t] \in Over => status'[t] \in Over
      /\ status[t] = "removed" => status'[t] = "removed"
      /\ status[t] \notin {"pending", "processing"} /\ handler[t].pc # "saving" =>
            status'[t] \notin {"pending", "processing"}
  BY DEF Moves, Over, Terminal, Known
<1>3. handler[t].answer = "accepted" => handler[t].pc = "answered"
  BY DEF HandlerInv
<1>4. QED
  BY <1>1, <1>2, <1>3 DEF Settled, SettledNext, Stops

\* What an answer says of its job stays true.
LEMMA HandlerInvStep ==
    ASSUME ServiceTypeOK, HandlerInv, FilesInv, Moves, HandlerMoves, Stops
    PROVE  HandlerInv'
<1> SUFFICES ASSUME NEW t \in Task
             PROVE  /\ handler'[t].answer # "none" => handler'[t].pc = "answered"
                    /\ handler'[t].answer = "accepted" => status'[t] # "none"
                    /\ handler'[t].answer \in {"failed", "error"} =>
                          /\ status'[t] \notin {"pending", "processing"}
                          /\ handler'[t].pc \notin {"none", "saving"}
                    /\ handler'[t].answer = "unavailable" =>
                          \/ /\ status'[t] \notin {"pending", "processing"}
                             /\ handler'[t].pc \notin {"none", "saving"}
                          \/ manager' = "stopping"
                    /\ handler'[t].pc = "building" \/ handler'[t].answer = "full" =>
                          status'[t] \in Over
                    /\ handler'[t].answer = "empty" => status'[t] = "removed"
  BY DEF HandlerInv, Settled, Over
<1>1. /\ handler[t].answer # "none" => handler[t].pc = "answered"
      /\ handler[t].answer = "accepted" => status[t] # "none"
      /\ handler[t].answer \in {"failed", "error"} =>
            /\ status[t] \notin {"pending", "processing"}
            /\ handler[t].pc \notin {"none", "saving"}
      /\ handler[t].answer = "unavailable" =>
            status[t] \notin {"pending", "processing"} \/ manager = "stopping"
      /\ handler[t].pc = "building" \/ handler[t].answer = "full" => status[t] \in Over
      /\ handler[t].answer = "empty" => status[t] = "removed"
      /\ status[t] \notin {"none", "removed"} => t \in dirs \ strays
  BY DEF HandlerInv, FilesInv, Settled
<1>2. \/ status'[t] = status[t]
      \/ status[t] = "none" /\ handler[t].pc = "saving" /\ status'[t] = "pending"
      \/ status[t] = "pending" /\ status'[t] = "processing"
      \/ status[t] = "processing" /\ status'[t] \in Terminal
      \/ status[t] \in Terminal /\ status'[t] = "removed"
      \/ Known(t) /\ status'[t] = "lost"
  BY DEF Moves
<1>3. CASE handler'[t] = handler[t]
  BY <1>1, <1>2, <1>3 DEF Over, Terminal, Known, Stops
<1>4. CASE handler'[t] # handler[t]
  BY <1>1, <1>2, <1>4 DEF HandlerMoves, Over, Terminal, Known
<1>5. QED
  BY <1>3, <1>4

-----------------------------------------------------------------------------
(***************************************************************************)
(* The calls.                                                              *)
(***************************************************************************)
\* A call that does nothing keeps what it relies on.
LEMMA CallKept ==
    ASSUME Keeps, NEW k \in Call, CallInv(k)
    PROVE  CallInvNext(k)
<1>1. k.jobs \subseteq Task
  BY DEF Call
<1>2. QED
  BY <1>1 DEF CallInv, CallInvNext, Keeps

\* An attempt may fail and be repeated only when its job is settled or the
\* call is marked.
LEMMA AttemptKeeps ==
    ASSUME Keeps, client \in [Client -> Call], NEW c \in Client, CallInv(client[c]),
           NEW retry \in {"may", "must", "never"}, NEW hit \in BOOLEAN,
           AttemptFails(c, retry, hit), client[c].pc \notin {"idle", "done"},
           hit = TRUE \/ retry = "never" \/ Settled(client[c].job)
              \/ client[c].pc = "ready" \/ manager = "stopping"
    PROVE  CallInvNext(client'[c])
<1> DEFINE k == client[c]
           m == client'[c]
<1>1. /\ m.job = k.job /\ m.jobs = k.jobs
      /\ retry = "never" => m.pc = "done"
      /\ hit = TRUE => m.hit = TRUE
      /\ k.hit = TRUE => m.hit = TRUE
      /\ \/ m.pc = "ready" /\ m.result = k.result
         \/ m.pc = "done" /\ m.result \in {"pymupdf", "failed"}
  BY AttemptFacts, ClientAssumption
<1>2. /\ k.jobs \subseteq Task
      /\ \A t \in k.jobs : handler[t].pc # "none"
      /\ k.hit = TRUE \/ manager = "stopping" \/ \A t \in k.jobs : t = k.job \/ Settled(t)
      /\ k.hit = TRUE \/ manager = "stopping" \/ k.pc # "ready" \/ \A t \in k.jobs : Settled(t)
      /\ k.result = "none"
  BY DEF Call, CallInv
<1> HIDE DEF k, m
<1>3. /\ \A t \in k.jobs : Settled(t) => SettledNext(t)
      /\ \A t \in k.jobs : handler'[t].pc # "none"
      /\ manager = "stopping" => manager' = "stopping" \/ \A t \in k.jobs : SettledNext(t)
  BY <1>2 DEF Keeps
<1>4. m.hit = TRUE \/ manager' = "stopping" \/ \A t \in m.jobs : t = m.job \/ SettledNext(t)
  BY <1>1, <1>2, <1>3
<1>5. m.hit = TRUE \/ manager' = "stopping" \/ m.pc # "ready" \/ \A t \in m.jobs : SettledNext(t)
  BY <1>1, <1>2, <1>3 DEF k
<1>6. CallInvNext(m)
  BY <1>1, <1>2, <1>3, <1>4, <1>5 DEF CallInvNext
<1>7. QED
  BY <1>6 DEF m

\* One call moves, the others keep what they rely on.
LEMMA OneCall ==
    ASSUME Keeps, client \in [Client -> Call], ClientInv, NEW c \in Client,
           \A d \in Client : d # c => client'[d] = client[d],
           CallInvNext(client'[c])
    PROVE  \A d \in Client : CallInvNext(client'[d])
BY CallKept DEF ClientInv

\* A failed attempt keeps the invariant of the calls.
LEMMA AttemptStep ==
    ASSUME Keeps, client \in [Client -> Call], ClientInv, NEW c \in Client,
           NEW retry \in {"may", "must", "never"}, NEW hit \in BOOLEAN,
           AttemptFails(c, retry, hit), client[c].pc \notin {"idle", "done"},
           hit = TRUE \/ retry = "never" \/ Settled(client[c].job)
              \/ client[c].pc = "ready" \/ manager = "stopping"
    PROVE  client' \in [Client -> Call] /\ \A d \in Client : CallInvNext(client'[d])
<1>1. client' \in [Client -> Call] /\ \A d \in Client : d # c => client'[d] = client[d]
  BY AttemptFacts, ClientAssumption
<1>2. CallInvNext(client'[c])
  BY AttemptKeeps DEF ClientInv
<1>3. QED
  BY <1>1, <1>2, OneCall

\* So does a step to another place of the code.
LEMMA GotoStep ==
    ASSUME Keeps, client \in [Client -> Call], ClientInv, NEW c \in Client,
           NEW pc \in {"polling", "fetching", "reading"}, Goto(c, pc),
           client[c].pc \in {"posting", "polling", "fetching"},
           pc = "polling" => handler[client[c].job].answer = "accepted",
           pc # "polling" => Settled(client[c].job) /\ status[client[c].job] \in Over
    PROVE  client' \in [Client -> Call] /\ \A d \in Client : CallInvNext(client'[d])
<1>1. /\ client' \in [Client -> Call] /\ \A d \in Client : d # c => client'[d] = client[d]
      /\ client'[c] = [client[c] EXCEPT !.pc = pc]
  BY DEF Goto, Call
<1>2. CallInv(client[c]) /\ client[c] \in Call
  BY DEF ClientInv
<1>3. CallInvNext(client[c])
  BY <1>2, CallKept
<1>4. client[c].job \in Task
  BY <1>2 DEF CallInv
<1>5. /\ client'[c].pc = pc /\ client'[c].job = client[c].job
      /\ client'[c].jobs = client[c].jobs /\ client'[c].hit = client[c].hit
      /\ client'[c].result = client[c].result
  BY <1>1, <1>2 DEF Call
<1>6. CallInvNext(client'[c])
  BY <1>2, <1>3, <1>4, <1>5 DEF CallInv, CallInvNext, Keeps
<1>7. QED
  BY <1>1, <1>6, OneCall

\* And a result that belongs to the job.
LEMMA ReturnStep ==
    ASSUME Keeps, client \in [Client -> Call], ClientInv, NEW c \in Client,
           NEW result \in {"full", "empty"}, Return(c, result),
           client[c].pc \in {"posting", "reading"},
           status[client[c].job] \in Over,
           result = "empty" => status[client[c].job] = "removed"
    PROVE  client' \in [Client -> Call] /\ \A d \in Client : CallInvNext(client'[d])
<1>1. /\ client' \in [Client -> Call]
      /\ \A d \in Client : d # c => client'[d] = client[d]
      /\ client'[c].job = client[c].job /\ client'[c].jobs = client[c].jobs
      /\ client'[c].pc = "done" /\ client'[c].hit = client[c].hit
      /\ client'[c].result = result
  BY ReturnFacts
<1>2. CallInv(client[c]) /\ client[c] \in Call
  BY DEF ClientInv
<1>3. CallInvNext(client[c])
  BY <1>2, CallKept
<1>4. client[c].job \in Task
  BY <1>2 DEF CallInv
<1>5. CallInvNext(client'[c])
  BY <1>1, <1>2, <1>3, <1>4 DEF CallInvNext, Keeps
<1>6. QED
  BY <1>1, <1>5, OneCall

\* A step of a call keeps the invariant of the calls.
LEMMA ClientStepKeeps ==
    ASSUME Keeps, client \in [Client -> Call], ClientInv, HandlerInv, FilesInv,
           ServiceTypeOK, NEW c \in Client,
           \/ \E kind \in Kind, lost \in BOOLEAN : Begin(c, kind, lost)
           \/ ClientStep(c) \/ GiveUp(c) \/ Drop(c) \/ Hang(c)
    PROVE  client' \in [Client -> Call] /\ \A d \in Client : CallInvNext(client'[d])
<1> DEFINE Goal == client' \in [Client -> Call] /\ \A d \in Client : CallInvNext(client'[d])
           j == client[c].job
<1>1. CallInv(client[c]) /\ client[c] \in Call
  BY DEF ClientInv
<1>2. client[c].pc \in {"posting", "polling", "fetching", "reading"} => j \in Task
  BY <1>1 DEF CallInv
<1>3. ASSUME NEW kind \in Kind, NEW lost \in BOOLEAN, Begin(c, kind, lost)
      PROVE  Goal
  <2>1. PICK pc \in {"ready", "done"}, result \in {"none", "pymupdf", "failed"} :
            /\ client' = [client EXCEPT ![c].kind = kind, ![c].pc = pc,
                                        ![c].attempt = 1, ![c].result = result]
            /\ pc # "done" => result = "none"
    BY <1>3 DEF Begin
  <2>2. 1 \in 0..MaxRetries
    BY ClientAssumption
  <2>3. /\ client' \in [Client -> Call]
        /\ \A d \in Client : d # c => client'[d] = client[d]
        /\ client'[c].pc = pc /\ client'[c].jobs = client[c].jobs
        /\ client'[c].result = result
    <3>1. client' = [client EXCEPT ![c] = [client[c] EXCEPT !.kind = kind, !.pc = pc,
                                                  !.attempt = 1, !.result = result]]
      BY <2>1
    <3>2. [client[c] EXCEPT !.kind = kind, !.pc = pc, !.attempt = 1, !.result = result]
              \in Call
      BY <1>1, <2>1, <2>2 DEF Call, Kind
    <3>3. QED
      BY <1>1, <3>1, <3>2 DEF Call
  <2>4. client[c].pc = "idle" /\ client[c].jobs = {}
    BY <1>1, <1>3 DEF Begin, CallInv
  <2>5. CallInvNext(client'[c])
    BY <2>1, <2>3, <2>4 DEF CallInvNext
  <2>6. QED
    BY <2>3, <2>5, OneCall
<1>4. ASSUME NEW t \in Task, Post(c, t) PROVE Goal
  <2>1. client[c].pc = "ready"
        /\ client' = [client EXCEPT ![c].pc = "posting", ![c].job = t,
                                    ![c].jobs = @ \cup {t}]
    BY <1>4 DEF Post
  <2>2. /\ client' \in [Client -> Call]
        /\ \A d \in Client : d # c => client'[d] = client[d]
        /\ client'[c].pc = "posting" /\ client'[c].jobs = client[c].jobs \cup {t}
        /\ client'[c].result = client[c].result /\ client'[c].job = t
        /\ client'[c].hit = client[c].hit
    <3>1. client' = [client EXCEPT ![c] = [client[c] EXCEPT !.pc = "posting", !.job = t,
                                                  !.jobs = @ \cup {t}]]
      BY <2>1
    <3>2. [client[c] EXCEPT !.pc = "posting", !.job = t, !.jobs = @ \cup {t}] \in Call
      BY <1>1 DEF Call
    <3>3. QED
      BY <1>1, <3>1, <3>2 DEF Call
  <2>3. /\ client[c].jobs \subseteq Task
        /\ client[c].hit = TRUE \/ manager = "stopping" \/ \A u \in client[c].jobs : Settled(u)
        /\ \A u \in client[c].jobs : handler[u].pc # "none"
        /\ client[c].result = "none"
    BY <1>1, <2>1 DEF CallInv, Call
  <2>4. \/ client[c].hit = TRUE \/ manager' = "stopping"
        \/ \A u \in client[c].jobs : SettledNext(u)
    BY <2>3 DEF Keeps
  <2>5. handler'[t].pc = "saving" /\ \A u \in client[c].jobs : handler'[u].pc # "none"
    BY <1>4, <2>3 DEF Post, Accept, Keeps, ServiceTypeOK
  <2>6. CallInvNext(client'[c])
    BY <2>2, <2>3, <2>4, <2>5 DEF CallInvNext
  <2>7. QED
    BY <2>2, <2>6, OneCall
<1>5. ASSUME Refused(c) PROVE Goal
  BY <1>5, AttemptStep DEF Refused
<1>6. ASSUME ReadAnswer(c) PROVE Goal
  <2>1. client[c].pc = "posting" /\ j \in Task
    BY <1>2, <1>6 DEF ReadAnswer
  <2>2. /\ handler[j].answer \in {"failed", "error"} => Settled(j)
        /\ handler[j].answer = "unavailable" => Settled(j) \/ manager = "stopping"
        /\ handler[j].answer = "full" => status[j] \in Over
        /\ handler[j].answer = "empty" => status[j] = "removed"
    BY <2>1 DEF HandlerInv
  <2>3. CASE handler[j].answer = "accepted" /\ Goto(c, "polling")
    BY <2>1, <2>3, GotoStep
  <2>4. CASE handler[j].answer \in {"full", "empty"} /\ Return(c, handler[j].answer)
    <3>1. status[j] \in Over
      BY <2>2, <2>4 DEF Over
    <3>2. QED
      BY <2>1, <2>2, <2>4, <3>1, ReturnStep
  <2>5. CASE AttemptFails(c, "never", FALSE)
    BY <2>1, <2>5, AttemptStep
  <2>6. CASE handler[j].answer \in {"failed", "unavailable"} /\ AttemptFails(c, "may", FALSE)
    BY <2>1, <2>2, <2>6, AttemptStep
  <2>7. CASE handler[j].answer = "error" /\ AttemptFails(c, "must", FALSE)
    BY <2>1, <2>2, <2>7, AttemptStep
  <2>8. CASE AttemptFails(c, "may", TRUE)
    BY <2>1, <2>8, AttemptStep
  <2>9. QED
    BY <1>6, <2>3, <2>4, <2>5, <2>6, <2>7, <2>8 DEF ReadAnswer
<1>7. ASSUME Poll(c) PROVE Goal
  <2>1. client[c].pc = "polling" /\ j \in Task /\ handler[j].answer = "accepted"
    BY <1>1, <1>2, <1>7 DEF Poll, CallInv
  <2>2. handler[j].pc = "answered"
    BY <2>1 DEF HandlerInv
  <2>3. CASE AttemptFails(c, "may", TRUE)
    BY <2>1, <2>3, AttemptStep
  <2>4. CASE ~Known(j) /\ AttemptFails(c, "may", FALSE)
    <3>1. Settled(j)
      BY <2>2, <2>4 DEF Known, Settled
    <3>2. QED
      BY <2>1, <2>4, <3>1, AttemptStep
  <2>5. CASE status[j] = "failed" /\ AttemptFails(c, "may", FALSE)
    <3>1. Settled(j)
      BY <2>2, <2>5 DEF Settled
    <3>2. QED
      BY <2>1, <2>5, <3>1, AttemptStep
  <2>6. CASE status[j] = "completed" /\ Goto(c, "fetching")
    <3>1. Settled(j) /\ status[j] \in Over
      BY <2>2, <2>6 DEF Settled, Over
    <3>2. QED
      BY <2>1, <2>6, <3>1, GotoStep
  <2>7. QED
    BY <1>7, <2>3, <2>4, <2>5, <2>6 DEF Poll
<1>8. ASSUME GiveUp(c) PROVE Goal
  BY <1>8, AttemptStep DEF GiveUp
<1>9. ASSUME Fetch(c) PROVE Goal
  <2>1. client[c].pc = "fetching" /\ Settled(j) /\ status[j] \in Over
    BY <1>1, <1>9 DEF Fetch, CallInv
  <2>2. CASE AttemptFails(c, "may", TRUE)
    BY <2>1, <2>2, AttemptStep
  <2>3. CASE AttemptFails(c, "may", FALSE)
    BY <2>1, <2>3, AttemptStep
  <2>4. CASE Goto(c, "reading")
    BY <2>1, <2>4, GotoStep
  <2>5. QED
    BY <1>9, <2>2, <2>3, <2>4 DEF Fetch
<1>10. ASSUME Read(c) PROVE Goal
  <2>1. client[c].pc = "reading" /\ Settled(j) /\ status[j] \in Over /\ j \in Task
    BY <1>1, <1>2, <1>10 DEF Read, CallInv
  <2>2. PICK r \in Results(j) :
            IF r = "error" THEN AttemptFails(c, "must", FALSE) ELSE Return(c, r)
    BY <1>10 DEF Read
  <2>3. CASE r = "error"
    BY <2>1, <2>2, <2>3, AttemptStep
  <2>4. CASE r # "error"
    <3>1. r \in {"full", "empty"} /\ (r = "empty" => j \notin dirs \ strays)
      <4>1. CASE j \in dirs \ strays
        BY <2>2, <2>4, <4>1 DEF Results
      <4>2. CASE j \notin dirs \ strays
        BY <2>1, <2>2, <2>4, <4>2, ResultsFacts
      <4>3. QED
        BY <4>1, <4>2
    <3>2. r = "empty" => status[j] = "removed"
      BY <2>1, <3>1 DEF FilesInv, Over
    <3>3. Return(c, r)
      BY <2>2, <2>4
    <3>4. QED
      BY <2>1, <3>1, <3>2, <3>3, ReturnStep
  <2>5. QED
    BY <2>3, <2>4
<1>11. ASSUME Cut(c) PROVE Goal
  BY <1>11, AttemptStep DEF Cut
<1>12. ASSUME Drop(c) PROVE Goal
  BY <1>12, AttemptStep DEF Drop
<1>13. ASSUME Hang(c) PROVE Goal
  <2>1. client' = [client EXCEPT ![c] = [client[c] EXCEPT !.pc = "hung", !.hit = TRUE]]
    BY <1>13 DEF Hang
  <2>2. [client[c] EXCEPT !.pc = "hung", !.hit = TRUE] \in Call
    BY <1>1 DEF Call
  <2>3. /\ client' \in [Client -> Call]
        /\ \A d \in Client : d # c => client'[d] = client[d]
        /\ client'[c].pc = "hung" /\ client'[c].jobs = client[c].jobs
        /\ client'[c].result = client[c].result /\ client'[c].hit = TRUE
    BY <1>1, <2>1, <2>2 DEF Call
  <2>4. /\ client[c].result = "none" /\ client[c].jobs \subseteq Task
        /\ \A u \in client[c].jobs : handler[u].pc # "none"
    BY <1>1, <1>13 DEF Hang, CallInv, Call
  <2>5. CallInvNext(client'[c])
    BY <2>3, <2>4 DEF CallInvNext, Keeps
  <2>6. QED
    BY <2>3, <2>5, OneCall
<1>14. QED
  BY <1>3, <1>4, <1>5, <1>6, <1>7, <1>8, <1>9, <1>10, <1>11, <1>12, <1>13 DEF ClientStep

-----------------------------------------------------------------------------
(***************************************************************************)
(* The service and its calls together.                                     *)
(***************************************************************************)
CInv ==
    /\ IInv /\ HandlerInv
    /\ client \in [Client -> Call]
    /\ believed \in {"unknown", "yes", "no"}
    /\ drops \in 0..MaxDrops
    /\ ClientInv /\ Believes

\* Whatever its clients do, the service takes a step of its own, or none.
LEMMA ServiceOfStep == Next => ServiceNext \/ UNCHANGED serviceVars
<1> SUFFICES ASSUME Next PROVE ServiceNext \/ UNCHANGED serviceVars
  OBVIOUS
<1>1. ASSUME NEW c \in Client, NEW t \in Task, Post(c, t) PROVE ServiceNext
  BY <1>1 DEF Post, Mode, ServiceNext
<1>2. ASSUME NEW c \in Client,
             \/ \E kind \in Kind, lost \in BOOLEAN : Begin(c, kind, lost)
             \/ Refused(c) \/ ReadAnswer(c) \/ Poll(c) \/ Fetch(c) \/ Read(c) \/ Cut(c)
             \/ GiveUp(c) \/ Drop(c) \/ Hang(c)
      PROVE  UNCHANGED serviceVars
  BY <1>2 DEF Begin, Refused, ReadAnswer, Poll, Fetch, Read, Cut, GiveUp, Drop, Hang
<1>3. QED
  BY <1>1, <1>2 DEF Next, ClientStep, ProcessExit, ServiceNext

\* A step of the service, or none, keeps what is said of it.
LEMMA ServiceKeeps ==
    ASSUME IInv, HandlerInv, ServiceNext \/ UNCHANGED serviceVars
    PROVE  IInv' /\ HandlerInv' /\ Keeps
<1>1. CASE ServiceNext
  <2>1. ServiceTypeOK /\ LineInv /\ Wakeful /\ FilesInv
    BY DEF IInv
  <2>2. IInv'
    BY <1>1, InvStep
  <2>3. Moves /\ HandlerMoves /\ Stops
    BY <1>1, <2>1, MovesStep, HandlerMovesStep, StopsStep
  <2>4. HandlerInv'
    BY <2>1, <2>3, HandlerInvStep
  <2>5. Keeps
    BY <2>3, KeepsStep
  <2>6. QED
    BY <2>2, <2>4, <2>5
<1>2. CASE UNCHANGED serviceVars
  <2>1. IInv'
    BY <1>2, InvStutter
  <2>2. status' = status /\ handler' = handler /\ manager' = manager
    BY <1>2 DEF serviceVars
  <2>3. HandlerInv'
    BY <2>2 DEF HandlerInv, Settled, Over
  <2>4. Keeps
    BY <2>2 DEF Keeps, Settled, SettledNext
  <2>5. QED
    BY <2>1, <2>3, <2>4
<1>3. QED
  BY <1>1, <1>2

\* The calls after a step are the calls of the next state.
LEMMA ClientPrime ==
    ASSUME \A d \in Client : CallInvNext(client'[d])
    PROVE  ClientInv'
BY DEF ClientInv, CallInv, CallInvNext, Settled, SettledNext, Over

\* A process that ends cuts the answers it was giving.
LEMMA ExitStep ==
    ASSUME Keeps, client \in [Client -> Call], ClientInv, ProcessExit
    PROVE  client' \in [Client -> Call] /\ \A d \in Client : CallInvNext(client'[d])
<1>1. client' = [c \in Client |-> IF client[c].pc = "reading"
                                  THEN [client[c] EXCEPT !.pc = "cut"] ELSE client[c]]
  BY DEF ProcessExit
<1>2. client' \in [Client -> Call]
  BY <1>1 DEF Call
<1>3. ASSUME NEW c \in Client PROVE CallInvNext(client'[c])
  <2>1. client[c] \in Call /\ CallInvNext(client[c])
    BY CallKept DEF ClientInv
  <2>2. CASE client[c].pc = "reading"
    <3>1. /\ client'[c].pc = "cut" /\ client'[c].job = client[c].job
          /\ client'[c].jobs = client[c].jobs /\ client'[c].hit = client[c].hit
          /\ client'[c].result = client[c].result
      BY <1>1, <2>1, <2>2 DEF Call
    <3>2. QED
      BY <2>1, <2>2, <3>1 DEF CallInvNext
  <2>3. CASE client[c].pc # "reading"
    BY <1>1, <2>1, <2>3
  <2>4. QED
    BY <2>2, <2>3
<1>4. QED
  BY <1>2, <1>3

\* The calls keep their invariant, whoever moves.
LEMMA ClientInvStep ==
    ASSUME CInv, Next, Keeps
    PROVE  client' \in [Client -> Call] /\ ClientInv'
<1>1. /\ client \in [Client -> Call] /\ ClientInv /\ HandlerInv /\ FilesInv
      /\ ServiceTypeOK
  BY DEF CInv, IInv
<1>2. ASSUME NEW c \in Client,
             \/ \E kind \in Kind, lost \in BOOLEAN : Begin(c, kind, lost)
             \/ ClientStep(c) \/ GiveUp(c) \/ Drop(c) \/ Hang(c)
      PROVE  client' \in [Client -> Call] /\ ClientInv'
  BY <1>1, <1>2, ClientStepKeeps, ClientPrime
<1>3. CASE ProcessExit
  BY <1>1, <1>3, ExitStep, ClientPrime
<1>4. CASE UNCHANGED clientVars
  <2>1. client' = client
    BY <1>4 DEF clientVars
  <2>2. \A d \in Client : CallInvNext(client'[d])
    BY <1>1, <2>1, CallKept DEF ClientInv
  <2>3. QED
    BY <1>1, <2>1, <2>2, ClientPrime
<1>5. QED
  BY <1>2, <1>3, <1>4 DEF Next

\* A restart is counted before the service is up again.
LEMMA RestartsStep ==
    ASSUME ServiceTypeOK, ServiceNext, manager = "down" => restarts > 0
    PROVE  /\ restarts' >= restarts
           /\ manager' = "down" => restarts' > 0
           /\ manager # "running" /\ manager' = "running" => restarts' > 0
<1>1. CASE EndShutdown \/ Crash
  BY <1>1 DEF EndShutdown, Crash, ProcessEnds, ServiceTypeOK
<1>2. CASE StartUp
  BY <1>2 DEF StartUp, ServiceTypeOK
<1>3. CASE BeginShutdown
  BY <1>3 DEF BeginShutdown, ServiceTypeOK
<1>4. CASE UNCHANGED <<manager, restarts>>
  BY <1>4 DEF ServiceTypeOK
<1>5. QED
  BY <1>1, <1>2, <1>3, <1>4
     DEF ServiceNext, ServiceStep, Accept, Submit, Resume, BuildResult, RejectUpload,
         LeaveUpload, EndParse, Dispatch, BeginParse, CleanupExpired

\* A parser stops using the service only for a reason.
LEMMA BelievesStep ==
    ASSUME CInv, Next
    PROVE  /\ believed' \in {"unknown", "yes", "no"} /\ drops' \in 0..MaxDrops
           /\ Believes'
<1>1. /\ ServiceTypeOK /\ Believes /\ drops \in 0..MaxDrops /\ MaxDrops \in Nat
      /\ believed \in {"unknown", "yes", "no"} /\ restarts \in Nat
  BY ClientAssumption DEF CInv, IInv, ServiceTypeOK
<1>2. CASE ServiceNext /\ UNCHANGED <<believed, drops>>
  <2>1. /\ restarts' >= restarts /\ restarts' \in Nat
        /\ manager' = "down" => restarts' > 0
        /\ manager # "running" /\ manager' = "running" => restarts' > 0
    <3>1. restarts' \in Nat
      BY <1>2, InvStep DEF CInv, IInv, ServiceTypeOK
    <3>2. QED
      BY <1>1, <1>2, <3>1, RestartsStep DEF Believes
  <2>2. QED
    BY <1>1, <1>2, <2>1 DEF Believes
<1>3. CASE UNCHANGED serviceVars /\ UNCHANGED <<believed, drops>>
  BY <1>1, <1>3 DEF Believes, serviceVars
<1>4. ASSUME NEW c \in Client, Drop(c) \/ Hang(c)
      PROVE  /\ believed' \in {"unknown", "yes", "no"} /\ drops' \in 0..MaxDrops
             /\ Believes'
  <2>1. /\ drops' = drops + 1 /\ drops < MaxDrops
        /\ believed' = believed /\ manager' = manager /\ restarts' = restarts
    BY <1>4 DEF Drop, Hang, serviceVars
  <2>2. QED
    BY <1>1, <2>1 DEF Believes
<1>5. ASSUME NEW c \in Client, NEW kind \in Kind, NEW lost \in BOOLEAN,
             Begin(c, kind, lost)
      PROVE  /\ believed' \in {"unknown", "yes", "no"} /\ drops' \in 0..MaxDrops
             /\ Believes'
  <2>1. manager' = manager /\ restarts' = restarts
    BY <1>5 DEF Begin, serviceVars
  <2>2. /\ believed' \in {"unknown", "yes", "no"}
        /\ believed' = "no" /\ believed # "no" => manager # "running" \/ lost
    BY <1>1, <1>5, Zenon DEF Begin, Healthy
  <2>3. CASE lost
    <3>1. drops' = drops + 1 /\ drops < MaxDrops
      BY <1>5, <2>3 DEF Begin
    <3>2. QED
      BY <1>1, <2>1, <2>2, <3>1 DEF Believes
  <2>4. CASE ~lost
    <3>1. drops' = drops
      BY <1>5, <2>4 DEF Begin
    <3>2. QED
      BY <1>1, <2>1, <2>2, <2>4, <3>1 DEF Believes
  <2>5. QED
    BY <2>3, <2>4
<1>6. CASE ProcessExit
  BY <1>2, <1>6 DEF ProcessExit, ServiceNext
<1>7. ASSUME NEW c \in Client, ClientStep(c) \/ GiveUp(c)
      PROVE  UNCHANGED <<believed, drops>>
  BY <1>7 DEF ClientStep, GiveUp, Post, Refused, ReadAnswer, Poll, Fetch, Read, Cut
<1>8. CASE UNCHANGED clientVars
  BY <1>2, <1>3, <1>8, ServiceOfStep DEF clientVars
<1>9. QED
  BY <1>2, <1>3, <1>4, <1>5, <1>6, <1>7, <1>8, ServiceOfStep DEF Next

\* The invariant holds before the first call.
LEMMA CInvInit == Init => CInv
<1> SUFFICES ASSUME Init PROVE CInv
  OBVIOUS
<1>1. IInv
  BY InitInv DEF Init
<1>2. HandlerInv
  BY DEF Init, ServiceInit, HandlerInv, NoHandler
<1>3. \A c \in Client :
          client[c] = [kind |-> "none", pc |-> "idle", attempt |-> 0, job |-> NoTask,
                       jobs |-> {}, hit |-> FALSE, result |-> "none"]
  BY DEF Init
<1>4. client \in [Client -> Call]
  <2>1. FALSE \in BOOLEAN /\ 0 \in 0..MaxRetries
    BY ClientAssumption
  <2>2. [kind |-> "none", pc |-> "idle", attempt |-> 0, job |-> NoTask,
         jobs |-> {}, hit |-> FALSE, result |-> "none"] \in Call
    BY <2>1 DEF Call
  <2>3. QED
    BY <2>2 DEF Init
<1>5. ClientInv
  BY <1>3 DEF ClientInv, CallInv
<1>6. /\ believed \in {"unknown", "yes", "no"} /\ drops \in 0..MaxDrops /\ Believes
  BY ClientAssumption DEF Init, ServiceInit, Believes
<1>7. QED
  BY <1>1, <1>2, <1>4, <1>5, <1>6 DEF CInv

\* Every step of the service and of the calls keeps the invariant.
LEMMA CInvStep == CInv /\ [Next]_vars => CInv'
<1>1. ASSUME CInv, Next PROVE CInv'
  <2>1. IInv' /\ HandlerInv' /\ Keeps
    BY <1>1, ServiceOfStep, ServiceKeeps DEF CInv
  <2>2. client' \in [Client -> Call] /\ ClientInv'
    BY <1>1, <2>1, ClientInvStep
  <2>3. QED
    BY <1>1, <2>1, <2>2, BelievesStep DEF CInv
<1>2. ASSUME CInv, UNCHANGED vars PROVE CInv'
  <2>1. UNCHANGED serviceVars /\ UNCHANGED clientVars
    BY <1>2 DEF vars
  <2>2. IInv' /\ HandlerInv' /\ Keeps
    BY <1>2, <2>1, ServiceKeeps DEF CInv
  <2>3. client' = client /\ believed' = believed /\ drops' = drops
    BY <2>1 DEF clientVars
  <2>4. \A d \in Client : CallInvNext(client'[d])
    BY <1>2, <2>2, <2>3, CallKept DEF CInv, ClientInv
  <2>5. ClientInv'
    BY <2>4, ClientPrime
  <2>6. Believes'
    BY <1>2, <2>1, <2>3 DEF CInv, Believes, serviceVars
  <2>7. QED
    BY <1>2, <2>2, <2>3, <2>5, <2>6 DEF CInv
<1>3. QED
  BY <1>1, <1>2

\* Every reachable state of the service and its calls satisfies the invariant.
THEOREM CallInvariance == Spec => []CInv
<1>1. Init => CInv
  BY CInvInit
<1>2. CInv /\ [Next]_vars => CInv'
  BY CInvStep
<1>3. QED
  BY <1>1, <1>2, PTL DEF Spec

\* The service, the calls, what the parser believes and the losses have their
\* types.
THEOREM CallsTyped == Spec => []TypeOK
<1>1. CInv => TypeOK
  BY DEF CInv, IInv, TypeOK
<1>2. QED
  BY <1>1, CallInvariance, PTL

\* Nothing a client does makes the service break a promise: the composition
\* is a behaviour of the service, so it implements the jobs.
THEOREM ClientsKeepService == Spec => ServiceSpec
<1>1. Init => ServiceInit
  BY DEF Init
<1>2. [Next]_vars => [ServiceNext]_serviceVars
  <2>1. UNCHANGED vars => UNCHANGED serviceVars
    BY DEF vars
  <2>2. QED
    BY <2>1, ServiceOfStep
<1>3. QED
  BY <1>1, <1>2, PTL DEF Spec, ServiceSpec

\* So the jobs are started in order and within the limit, whatever clients do.
THEOREM ClientsImplementJobs == Spec => ImplementsJobs
BY ClientsKeepService, ServiceImplementsJobs, PTL

\* A call never has two unfinished jobs, unless the network or the end of a
\* process took an answer from it, or the service is about to end and takes the
\* jobs with it.
THEOREM AlwaysOneLiveJob == Spec => []OneLiveJob
<1>1. CInv => OneLiveJob
  <2>1. SUFFICES ASSUME CInv, NEW c \in Client, client[c].hit # TRUE,
                        manager # "stopping"
                 PROVE  Cardinality({t \in client[c].jobs : Unfinished(t)}) <= 1
    BY Zenon DEF OneLiveJob
  <2>2. \A t \in client[c].jobs : t = client[c].job \/ ~Unfinished(t)
    BY <2>1 DEF CInv, ClientInv, CallInv, Settled, Unfinished
  <2>3. {t \in client[c].jobs : Unfinished(t)} \subseteq {client[c].job}
    BY <2>2
  <2>4. IsFiniteSet({client[c].job}) /\ Cardinality({client[c].job}) = 1
    BY FS_Singleton
  <2>5. Cardinality({t \in client[c].jobs : Unfinished(t)}) <= 1
    BY <2>3, <2>4, FS_Subset
  <2>6. QED
    BY <2>5
<1>2. QED
  BY <1>1, CallInvariance, PTL

\* A result is that of the call's own last job, and empty only when the job
\* expired while its files were read.
THEOREM ResultsExplained == Spec => []ResultExplained
<1>1. CInv => ResultExplained
  BY DEF CInv, ClientInv, CallInv, ResultExplained, Over
<1>2. QED
  BY <1>1, CallInvariance, PTL

\* The parser stops using the service only after a loss, an end or a restart.
THEOREM DisbeliefsExplained == Spec => []DisbeliefExplained
<1>1. CInv => DisbeliefExplained
  BY DEF CInv, Believes, DisbeliefExplained
<1>2. QED
  BY <1>1, CallInvariance, PTL

=============================================================================
