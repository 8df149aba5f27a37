---------------------------- MODULE QueryService ----------------------------
(***************************************************************************)
(* A query from the endpoint to its answer (services/query_service.py,     *)
(* core/retrieval/slow_lane.py, core/generation/generator.py): the history *)
(* of its conversation is loaded, the question is prepared, one of two     *)
(* lanes retrieves, and an answer is taken from the semantic cache, from   *)
(* the level L4 of Redis, or generated and kept in both.                   *)
(*                                                                         *)
(* One question with one set of filters is modelled; a document stands for *)
(* its chunks.  The fast lane is FastLane, of which only what its property *)
(* RetrievalSettles leaves open is kept here.  An action ends where the    *)
(* coroutine may wait.                                                     *)
(***************************************************************************)
EXTENDS AnswerCaches

CONSTANTS
    Request,         \* queries in progress at one time
    Doc,
    Conversation, NoConversation,
    RetrievalLag,    \* for how long the caches of the fast lane may be wrong
    MaxSteps,        \* max_steps of the slow lane
    MaxRun,          \* bound: ticks one query takes after its retrieval
    MaxEvents        \* bound: documents that come or go and calls that fail

ASSUME QueryAssumption ==
    /\ Level = {"generation"}
    /\ NoConversation \notin Conversation
    /\ {RetrievalLag, MaxSteps, MaxRun, MaxEvents} \subseteq Nat

VARIABLES
    index,    \* documents the stores hold
    request,  \* request[r]: the coroutine of QueryService.execute_query
    spoken,   \* conversations with a turn in the query log
    quiet,    \* history: ticks since a document came or went or a call failed
    events    \* how often that was so far

vars == <<redis, semantic, collection, index, request, spoken, quiet, events>>

NoAnswer == [text |-> "", docs |-> {}, history |-> FALSE]

Idle == [pc |-> "idle", conversation |-> NoConversation, semantic |-> FALSE,
         history |-> FALSE, lane |-> "fast", steps |-> 0, docs |-> {},
         answer |-> NoAnswer, age |-> 0]

(* For how long a wrong answer may be given: a retrieval that was wrong to *)
(* the last, the rest of its query, and the life of the entry it made.     *)
AnswerLag ==
    RetrievalLag + MaxRun +
        (IF TTL["generation"] > SemanticTTL THEN TTL["generation"] - 1 ELSE SemanticTTL)

Init ==
    /\ CacheInit
    /\ index \in SUBSET Doc
    /\ request = [r \in Request |-> Idle]
    /\ spoken = {}
    /\ quiet = AnswerLag + 1
    /\ events = 0

Set(r, rec) == request' = [request EXCEPT ![r] = rec]
Calm == UNCHANGED <<quiet, events>>
Event == events < MaxEvents /\ events' = events + 1 /\ quiet' = 0
Stores == UNCHANGED <<cacheVars, index, spoken>>

-----------------------------------------------------------------------------
(* A query arrives; the history of its conversation is read at once.       *)
Begin(r) ==
    /\ request[r].pc = "idle"
    /\ \E c \in Conversation \cup {NoConversation}, s \in BOOLEAN :
        Set(r, [Idle EXCEPT !.pc = "preparing", !.conversation = c, !.semantic = s,
                            !.history = c \in spoken])
    /\ Stores /\ Calm

(* It is too vague, and the answer is a list of options: nothing is logged *)
(* and nothing is cached.  Or its preparation or its retrieval raises, and *)
(* the endpoint answers 500.                                               *)
Clarify(r) == request[r].pc = "preparing" /\ Set(r, Idle) /\ Stores /\ Calm

Raise(r) ==
    /\ request[r].pc \in {"preparing", "deciding", "calling"}
    /\ Set(r, Idle) /\ Stores /\ Event

(* The lane: the user's, the router's, or the slow one when the model      *)
(* insists.                                                                *)
Route(r) ==
    /\ request[r].pc = "preparing"
    /\ Set(r, [request[r] EXCEPT !.pc = "deciding", !.lane = "slow"])
    /\ Stores /\ Calm

(* What the fast lane gives: when it has settled, documents of the index,  *)
(* and some if there are any.                                              *)
FastLane(r) ==
    /\ request[r].pc = "preparing"
    /\ \E docs \in SUBSET Doc :
        /\ quiet > RetrievalLag => docs \subseteq index /\ (docs = {} => index = {})
        /\ Set(r, [request[r] EXCEPT !.pc = "answering", !.docs = docs])
    /\ Stores /\ Calm

(* The slow lane: the model names a tool, as long as there are steps and   *)
(* time left; it says that it knows enough, names no tool there is, or     *)
(* does not answer, and the lane ends with what it has.                    *)
Decide(r) ==
    /\ request[r].pc = "deciding"
    /\ \/ /\ request[r].steps < MaxSteps
          /\ Set(r, [request[r] EXCEPT !.pc = "calling", !.steps = @ + 1])
       \/ Set(r, [request[r] EXCEPT !.pc = "answering", !.steps = 0])
    /\ Stores /\ Calm

(* The tool finds something or nothing (an error in it is nothing), and    *)
(* the model is asked again.                                               *)
CallTool(r) ==
    /\ request[r].pc = "calling"
    /\ \E docs \in SUBSET index :
        Set(r, [request[r] EXCEPT !.pc = "deciding", !.docs = @ \cup docs])
    /\ Stores /\ Calm

(* The tool takes too long: it is cancelled, and the lane ends.            *)
ToolTimeout(r) ==
    /\ request[r].pc = "calling"
    /\ Set(r, [request[r] EXCEPT !.pc = "answering", !.steps = 0])
    /\ Stores /\ Event

-----------------------------------------------------------------------------
(* The semantic cache is for queries that ask for it and have no history,  *)
(* L4 for queries of no conversation; its key holds the contents of the    *)
(* chunks, for which the documents stand that they come from.              *)
Question == "question"
UsesSemanticAlways(r) == request[r].semantic   \* mutant: the history is forgotten
UsesSemantic(r) == request[r].semantic /\ ~request[r].history
UsesL4(r) == request[r].conversation = NoConversation
GenerationKeyOfQuestion(r) == <<Question>>     \* mutant: the contents are forgotten
GenerationKey(r) == <<Question, request[r].docs>>

Answered(r, a) ==
    Set(r, [Idle EXCEPT !.pc = "answered", !.conversation = request[r].conversation,
                        !.answer = a])

SemanticHit(r) ==
    /\ request[r].pc = "answering" /\ UsesSemantic(r)
    /\ \E p \in Near(Question) : Fresh(p) /\ Answered(r, p.value)
    /\ Stores /\ Calm

(* No hit: there is no point, the one that is found is too old whatever    *)
(* others there are, or the call failed.                                   *)
SemanticMiss(r) ==
    \/ ~UsesSemantic(r) /\ Calm
    \/ Near(Question) = {} /\ Calm
    \/ (\E p \in Near(Question) : ~Fresh(p)) /\ Calm
    \/ Event

GenerationHit(r) ==
    /\ request[r].pc = "answering" /\ UsesL4(r)
    /\ SemanticMiss(r)
    /\ \E e \in Entries("generation", GenerationKey(r)) : Answered(r, e.value)
    /\ Stores

GenerationMiss(r) ==
    /\ request[r].pc = "answering"
    /\ UsesL4(r) => Entries("generation", GenerationKey(r)) = {}
    /\ SemanticMiss(r)
    /\ Set(r, [request[r] EXCEPT !.pc = "generating"])
    /\ Stores

(* The answer: an apology when there are no documents, and another one     *)
(* when the model fails.  Neither is told from an answer.                  *)
Generate(r) ==
    LET answer(text) == [text |-> text, docs |-> request[r].docs,
                         history |-> request[r].history] IN
    /\ request[r].pc = "generating"
    /\ \/ /\ Set(r, [request[r] EXCEPT !.pc = "keeping",
                        !.answer = answer(IF request[r].docs = {} THEN "none" ELSE "answer")])
          /\ Calm
       \/ /\ request[r].docs # {}
          /\ Set(r, [request[r] EXCEPT !.pc = "keeping", !.answer = answer("error")])
          /\ Event
    /\ Stores

(* It is kept in L4 and in the semantic cache; either write may be lost.   *)
Keep(r) ==
    /\ request[r].pc = "keeping"
    /\ IF UsesL4(r)
       THEN \/ Put("generation", GenerationKey(r), request[r].answer) /\ Calm
            \/ UNCHANGED redis /\ Event
       ELSE UNCHANGED redis /\ Calm
    /\ IF UsesSemantic(r)
       THEN Remember(Question, request[r].answer)
       ELSE UNCHANGED semantic
    /\ Answered(r, request[r].answer)
    /\ UNCHANGED <<collection, index, spoken>>

(* Anything else that raises in between: an apology that nobody keeps.     *)
AnswerFails(r) ==
    /\ request[r].pc \in {"answering", "generating"}
    /\ Answered(r, [text |-> "error", docs |-> {}, history |-> FALSE])
    /\ Stores /\ Event

(* The turn is written to the query log and the answer is sent.            *)
Reply(r) ==
    /\ request[r].pc = "answered"
    /\ Set(r, Idle)
    /\ \/ spoken' = spoken \cup ({request[r].conversation} \ {NoConversation}) /\ Calm
       \/ UNCHANGED spoken /\ Event
    /\ UNCHANGED <<cacheVars, index>>

-----------------------------------------------------------------------------
Clear ==
    /\ \/ ClearCache /\ Calm
       \/ ClearCacheFails /\ Event
    /\ UNCHANGED <<index, request, spoken>>

IndexChanges ==
    /\ \E d \in Doc : index' = (index \ {d}) \cup ({d} \ index)
    /\ Event
    /\ UNCHANGED <<cacheVars, request, spoken>>

Busy(r) == request[r].pc \notin {"idle", "preparing", "answered"}

Tick ==
    /\ \A r \in Request : Busy(r) => request[r].age < MaxRun
    /\ Age
    /\ request' = [r \in Request |->
                     IF Busy(r) THEN [request[r] EXCEPT !.age = @ + 1] ELSE request[r]]
    /\ quiet' = IF quiet > AnswerLag THEN quiet ELSE quiet + 1
    /\ UNCHANGED <<index, spoken, events>>

RequestStep(r) ==
    \/ Begin(r) \/ Clarify(r) \/ Raise(r) \/ Route(r) \/ FastLane(r) \/ Decide(r)
    \/ CallTool(r) \/ ToolTimeout(r) \/ SemanticHit(r) \/ GenerationHit(r)
    \/ GenerationMiss(r) \/ Generate(r) \/ Keep(r) \/ AnswerFails(r) \/ Reply(r)

Next == Clear \/ IndexChanges \/ Tick \/ \E r \in Request : RequestStep(r)

Spec == Init /\ [][Next]_vars

-----------------------------------------------------------------------------
Gives(r) == request[r].pc # "answered" /\ request'[r].pc = "answered"

(* Answers outlive the documents they are made from, and the apologies for *)
(* a model or a store that failed outlive the failure.  Both only for so   *)
(* long: when for AnswerLag ticks no document has come or gone and no call *)
(* has failed, an answer rests on documents there are, none apologises for *)
(* an error, and the fast lane finds nothing only where there is nothing   *)
(* (but for an answer of the slow lane that the semantic cache has kept).  *)
AnswersSettle ==
    [][\A r \in Request :
         Gives(r) /\ quiet > AnswerLag =>
            LET a == request'[r].answer IN
            /\ a.docs \subseteq index /\ (a.text = "error" => quiet' = 0)
            /\ request[r].lane = "fast" /\ ~request[r].semantic /\ a.text = "none"
                  => index = {}]_vars

(* With the exact strategy the documents an answer rests on are those that *)
(* were retrieved for this very query, whoever had it generated.           *)
ExactAnswersFit ==
    [][\A r \in Request :
         LET a == request'[r].answer IN
         Gives(r) /\ ~request[r].semantic /\ a.text = "answer"
            => a.docs = request[r].docs]_vars

(* What was said in a conversation stays in it: no cache holds an answer   *)
(* that was generated from a history, and such an answer is given to       *)
(* queries of a conversation only.  The history is loaded when the query   *)
(* begins, the caches are read and written when it ends.                   *)
HistoryPrivate ==
    /\ \A e \in redis \cup semantic : ~e.value.history
    /\ \A r \in Request : request[r].answer.history => request[r].conversation \in spoken

=============================================================================
