------------------------- MODULE QueryServiceProofs -------------------------
(***************************************************************************)
(* What was said in a conversation stays in it, and an exact answer fits   *)
(* its query: for all numbers of queries, documents, conversations and     *)
(* failures, and every life of the entries.                                *)
(***************************************************************************)
EXTENDS QueryService, TLAPS

AnswerState ==
    [text: {"", "answer", "none", "error"}, docs: SUBSET Doc, history: BOOLEAN]

RequestState ==
    [pc: {"idle", "preparing", "deciding", "calling", "answering", "generating",
          "keeping", "answered"},
     conversation: Conversation \cup {NoConversation}, semantic: BOOLEAN,
     history: BOOLEAN, lane: {"fast", "slow"}, steps: Nat, docs: SUBSET Doc,
     answer: AnswerState, age: Nat]

\* A kept answer owes nothing to a history.
Public(a) == a \in AnswerState /\ a.history = FALSE

\* An entry of L4 rests on the documents of its key.
EntryFits(e) ==
    /\ e = [level |-> e.level, key |-> e.key, value |-> e.value, age |-> e.age]
    /\ Public(e.value)
    /\ \A D \in SUBSET Doc : e.key = <<Question, D>> => e.value.docs = D

PointFits(p) ==
    /\ p = [key |-> p.key, value |-> p.value, age |-> p.age]
    /\ Public(p.value)

\* A query knows of a history only in a conversation with a turn, and an
\* answer that is about to be kept is its own.
RequestFits(s, sp) ==
    /\ s.history = TRUE => s.conversation \in sp
    /\ s.answer.history = TRUE => s.conversation \in sp
    /\ s.pc = "keeping" => s.answer.docs = s.docs /\ s.answer.history = s.history

QueryInv ==
    /\ request \in [Request -> RequestState]
    /\ index \in SUBSET Doc
    /\ spoken \in SUBSET Conversation
    /\ \A e \in redis : EntryFits(e)
    /\ \A p \in semantic : PointFits(p)
    /\ \A r \in Request : RequestFits(request[r], spoken)

-----------------------------------------------------------------------------
\* One query moves, and conversations are never unspoken.
LEMMA SetFits ==
    ASSUME QueryInv, NEW r \in Request, NEW s \in RequestState, Set(r, s),
           index' \in SUBSET Doc, spoken \subseteq spoken', spoken' \in SUBSET Conversation,
           RequestFits(s, spoken'),
           \A e \in redis' : EntryFits(e), \A p \in semantic' : PointFits(p)
    PROVE  QueryInv'
<1>1. request' = [request EXCEPT ![r] = s]
  BY DEF Set
<1>2. request' \in [Request -> RequestState]
  BY <1>1 DEF QueryInv
<1>3. \A q \in Request : RequestFits(request'[q], spoken')
  BY <1>1 DEF QueryInv, RequestFits
<1>4. QED
  BY <1>2, <1>3 DEF QueryInv, EntryFits, PointFits, RequestFits, Public, AnswerState, Question

\* A query that leaves the stores alone.
LEMMA CalmSet ==
    ASSUME QueryInv, NEW r \in Request, NEW s \in RequestState, Set(r, s), Stores,
           RequestFits(s, spoken)
    PROVE  QueryInv'
<1>1. /\ redis' = redis /\ semantic' = semantic /\ index' = index /\ spoken' = spoken
  BY DEF Stores, cacheVars
<1>2. QED
  BY <1>1, SetFits DEF QueryInv

\* An answer is sent on: it is the only thing a query keeps, besides its
\* conversation.
LEMMA AnsweredState ==
    ASSUME request \in [Request -> RequestState], NEW r \in Request,
           NEW a \in AnswerState, NEW sp, Answered(r, a),
           a.history = TRUE => request[r].conversation \in sp
    PROVE  \E s \in RequestState : Set(r, s) /\ RequestFits(s, sp)
                                   /\ s.pc = "answered" /\ s.answer = a
<1> DEFINE s == [Idle EXCEPT !.pc = "answered", !.conversation = request[r].conversation,
                             !.answer = a]
<1>1. Set(r, s)
  BY DEF Answered
<1>2. FALSE \in BOOLEAN
  OBVIOUS
<1>3. s \in RequestState /\ s.pc = "answered" /\ s.answer = a /\ s.history = FALSE
      /\ s.conversation = request[r].conversation
  BY <1>2 DEF Idle, RequestState
<1> HIDE DEF s
<1>4. RequestFits(s, sp)
  BY <1>3 DEF RequestFits
<1>5. QED
  BY <1>1, <1>3, <1>4

\* No query knows anything at the start.
LEMMA IdleFits == Idle \in RequestState /\ \A sp : RequestFits(Idle, sp)
<1>1. FALSE \in BOOLEAN
  OBVIOUS
<1>2. NoAnswer \in AnswerState /\ NoAnswer.history = FALSE
  BY <1>1 DEF NoAnswer, AnswerState
<1> HIDE DEF NoAnswer
<1>3. QED
  BY <1>1, <1>2 DEF Idle, RequestState, RequestFits

\* The first state: nothing is cached.
LEMMA QueryInit == Init => QueryInv
<1> SUFFICES ASSUME Init PROVE QueryInv
  OBVIOUS
<1>1. /\ redis = {} /\ semantic = {} /\ index \in SUBSET Doc /\ spoken = {}
      /\ request = [r \in Request |-> Idle]
  BY DEF Init, CacheInit
<1>2. QED
  BY <1>1, IdleFits DEF QueryInv

-----------------------------------------------------------------------------
\* A query may go on from k as s: it has the same history and answers nothing.
GoesOn(k, s) ==
    /\ s \in RequestState /\ s.pc # "keeping"
    /\ s.history = k.history /\ s.conversation = k.conversation /\ s.answer = k.answer

\* What the steps of a retrieval make of a query.
LEMMA MoveGoesOn ==
    ASSUME NEW k \in RequestState, NEW lane \in {"fast", "slow"}, NEW steps \in Nat,
           NEW docs \in SUBSET Doc,
           NEW pc \in {"deciding", "calling", "answering", "generating"}
    PROVE  /\ GoesOn(k, [k EXCEPT !.pc = pc])
           /\ GoesOn(k, [k EXCEPT !.pc = pc, !.lane = lane])
           /\ GoesOn(k, [k EXCEPT !.pc = pc, !.steps = steps])
           /\ GoesOn(k, [k EXCEPT !.pc = pc, !.docs = docs])
<1>1. GoesOn(k, [k EXCEPT !.pc = pc])
  BY DEF GoesOn, RequestState
<1>2. GoesOn(k, [k EXCEPT !.pc = pc, !.lane = lane])
  BY DEF GoesOn, RequestState
<1>3. GoesOn(k, [k EXCEPT !.pc = pc, !.steps = steps])
  BY DEF GoesOn, RequestState
<1>4. GoesOn(k, [k EXCEPT !.pc = pc, !.docs = docs])
  BY DEF GoesOn, RequestState
<1>5. QED
  BY <1>1, <1>2, <1>3, <1>4

\* A query moves on without an answer.
LEMMA MoveFits ==
    ASSUME QueryInv, NEW r \in Request, NEW s, Set(r, s), GoesOn(request[r], s), Stores
    PROVE  QueryInv'
<1>1. RequestFits(request[r], spoken) /\ s \in RequestState
  BY DEF QueryInv, GoesOn
<1>2. RequestFits(s, spoken)
  BY <1>1 DEF RequestFits, GoesOn
<1>3. QED
  BY <1>1, <1>2, CalmSet

\* The steps between the question and its retrieval.
LEMMA RetrievalFits ==
    ASSUME QueryInv, NEW r \in Request,
           \/ Route(r) \/ FastLane(r) \/ Decide(r) \/ CallTool(r) \/ ToolTimeout(r)
           \/ GenerationMiss(r)
    PROVE  QueryInv'
<1> DEFINE k == request[r]
<1>1. /\ k \in RequestState /\ k.steps + 1 \in Nat
      /\ k.docs \in SUBSET Doc /\ index \in SUBSET Doc
  BY DEF QueryInv, RequestState
<1>2. PICK s : Set(r, s) /\ GoesOn(k, s) /\ Stores
  <2>1. CASE Route(r)
    BY <1>1, <2>1, MoveGoesOn DEF Route
  <2>2. CASE FastLane(r)
    BY <1>1, <2>2, MoveGoesOn DEF FastLane
  <2>3. CASE Decide(r)
    <3>1. CASE Set(r, [k EXCEPT !.pc = "calling", !.steps = @ + 1])
      BY <1>1, <2>3, <3>1, MoveGoesOn DEF Decide
    <3>2. CASE Set(r, [k EXCEPT !.pc = "answering", !.steps = 0])
      BY <1>1, <2>3, <3>2, MoveGoesOn DEF Decide
    <3>3. QED
      BY <2>3, <3>1, <3>2 DEF Decide
  <2>4. CASE CallTool(r)
    <3>1. PICK docs \in SUBSET index : Set(r, [k EXCEPT !.pc = "deciding", !.docs = @ \cup docs])
      BY <2>4 DEF CallTool
    <3>2. k.docs \cup docs \in SUBSET Doc
      BY <1>1
    <3>3. QED
      BY <1>1, <2>4, <3>1, <3>2, MoveGoesOn DEF CallTool
  <2>5. CASE ToolTimeout(r)
    BY <1>1, <2>5, MoveGoesOn DEF ToolTimeout
  <2>6. CASE GenerationMiss(r)
    BY <1>1, <2>6, MoveGoesOn DEF GenerationMiss
  <2>7. QED
    BY <2>1, <2>2, <2>3, <2>4, <2>5, <2>6
<1>3. QED
  BY <1>2, MoveFits

\* A query is over, or an answer from a cache or for an error is sent on.
LEMMA SentFits ==
    ASSUME QueryInv, NEW r \in Request, NEW a \in AnswerState, Answered(r, a), Stores,
           a.history = TRUE => request[r].conversation \in spoken
    PROVE  QueryInv'
<1>1. PICK s \in RequestState : Set(r, s) /\ RequestFits(s, spoken)
  BY AnsweredState DEF QueryInv
<1>2. QED
  BY <1>1, CalmSet

\* What a query begins with.
LEMMA BeginFits ==
    ASSUME QueryInv, NEW r \in Request, Begin(r)
    PROVE  QueryInv'
<1>1. PICK c \in Conversation \cup {NoConversation}, d \in BOOLEAN :
          Set(r, [Idle EXCEPT !.pc = "preparing", !.conversation = c, !.semantic = d,
                              !.history = c \in spoken])
  BY DEF Begin
<1> DEFINE h == c \in spoken
           s == [Idle EXCEPT !.pc = "preparing", !.conversation = c, !.semantic = d,
                             !.history = h]
<1>2. h \in BOOLEAN /\ (h = TRUE => c \in spoken)
  <2>1. CASE c \in spoken
    BY <2>1
  <2>2. CASE c \notin spoken
    BY <2>2
  <2>3. QED
    BY <2>1, <2>2
<1>3. Set(r, s)
  BY <1>1
<1> HIDE DEF h
<1>4. s \in RequestState
  BY <1>2, IdleFits DEF RequestState
<1>5. /\ s.pc = "preparing" /\ s.conversation = c /\ s.history = h
      /\ s.answer = NoAnswer
  BY <1>2, IdleFits DEF RequestState, Idle
<1>6. NoAnswer.history = FALSE
  BY DEF NoAnswer
<1> HIDE DEF s
<1>7. RequestFits(s, spoken)
  BY <1>2, <1>5, <1>6 DEF RequestFits
<1>8. Stores
  BY DEF Begin
<1>9. QED
  BY <1>3, <1>4, <1>7, <1>8, CalmSet

\* An answer is generated from what the query has retrieved and remembers.
LEMMA GenerateFits ==
    ASSUME QueryInv, NEW r \in Request, Generate(r)
    PROVE  QueryInv'
<1> DEFINE k == request[r]
<1>1. k \in RequestState /\ RequestFits(k, spoken) /\ Stores
  BY DEF QueryInv, Generate
<1>2. PICK text \in {"answer", "none", "error"} :
          Set(r, [k EXCEPT !.pc = "keeping",
                    !.answer = [text |-> text, docs |-> k.docs, history |-> k.history]])
  BY DEF Generate
<1> DEFINE a == [text |-> text, docs |-> k.docs, history |-> k.history]
           s == [k EXCEPT !.pc = "keeping", !.answer = a]
<1> HIDE DEF k
<1>3. a \in AnswerState
  BY <1>1 DEF RequestState, AnswerState
<1>4. a.docs = k.docs /\ a.history = k.history
  OBVIOUS
<1>5. Set(r, s)
  BY <1>2
<1> HIDE DEF a
<1>6. s \in RequestState
  BY <1>1, <1>3 DEF RequestState
<1>7. /\ s.pc = "keeping" /\ s.history = k.history /\ s.conversation = k.conversation
      /\ s.answer = a /\ s.docs = k.docs
  BY <1>1 DEF RequestState
<1> HIDE DEF s
<1>8. RequestFits(s, spoken)
  BY <1>1, <1>4, <1>7 DEF RequestFits
<1>9. QED
  BY <1>1, <1>5, <1>6, <1>8, CalmSet

\* Only an answer without a history is kept.
LEMMA KeepFits ==
    ASSUME QueryInv, NEW r \in Request, Keep(r)
    PROVE  QueryInv'
<1> DEFINE k == request[r]
           a == k.answer
<1>1. /\ k \in RequestState /\ k.pc = "keeping" /\ a \in AnswerState
      /\ a.docs = k.docs /\ a.history = k.history
      /\ a.history = TRUE => k.conversation \in spoken
      /\ spoken \in SUBSET Conversation /\ spoken' = spoken /\ index' = index
      /\ index \in SUBSET Doc
  BY DEF QueryInv, Keep, RequestFits, RequestState
<1>2. PICK s \in RequestState : Set(r, s) /\ RequestFits(s, spoken)
  <2>1. Answered(r, a)
    BY DEF Keep
  <2>2. QED
    BY <1>1, <2>1, AnsweredState DEF QueryInv
<1>3. UsesL4(r) => Public(a)
  BY <1>1, QueryAssumption DEF UsesL4, Public, AnswerState
<1>4. UsesSemantic(r) => Public(a)
  <2>1. UsesSemantic(r) => k.history # TRUE
    BY Zenon DEF UsesSemantic
  <2>2. QED
    BY <1>1, <2>1 DEF Public, AnswerState
<1>5. \A e \in redis' : EntryFits(e)
  <2>1. CASE redis' = redis
    BY <2>1 DEF QueryInv
  <2>2. CASE UsesL4(r) /\ Put("generation", GenerationKey(r), a)
    <3> DEFINE n == [level |-> "generation", key |-> GenerationKey(r),
                     value |-> a, age |-> 0]
    <3>1. \A e \in redis' : e \in redis \/ e = n
      BY <2>2 DEF Put
    <3>2. \A D \in SUBSET Doc : GenerationKey(r) = <<Question, D>> => a.docs = D
      BY <1>1 DEF GenerationKey
    <3>3. n.key = GenerationKey(r) /\ n.value = a
          /\ n = [level |-> n.level, key |-> n.key, value |-> n.value, age |-> n.age]
      OBVIOUS
    <3> HIDE DEF n
    <3>4. EntryFits(n)
      BY <1>3, <2>2, <3>2, <3>3 DEF EntryFits
    <3>5. QED
      BY <3>1, <3>4 DEF QueryInv
  <2>3. QED
    BY <2>1, <2>2 DEF Keep
<1>6. \A p \in semantic' : PointFits(p)
  <2>1. CASE semantic' = semantic
    BY <2>1 DEF QueryInv
  <2>2. CASE UsesSemantic(r) /\ Remember(Question, a)
    <3> DEFINE n == [key |-> Question, value |-> a, age |-> 0]
    <3>1. \A p \in semantic' : p \in semantic \/ p = n
      BY <2>2 DEF Remember
    <3>2. n.value = a /\ n = [key |-> n.key, value |-> n.value, age |-> n.age]
      OBVIOUS
    <3> HIDE DEF n
    <3>3. PointFits(n)
      BY <1>4, <2>2, <3>2 DEF PointFits
    <3>4. QED
      BY <3>1, <3>3 DEF QueryInv
  <2>3. QED
    BY <2>1, <2>2 DEF Keep
<1>7. QED
  BY <1>1, <1>2, <1>5, <1>6, SetFits

\* An answer from a cache is public, and so is an apology.
LEMMA HitFits ==
    ASSUME QueryInv, NEW r \in Request,
           SemanticHit(r) \/ GenerationHit(r) \/ AnswerFails(r)
    PROVE  QueryInv'
<1>1. PICK a : Public(a) /\ Answered(r, a) /\ Stores
  <2>1. CASE SemanticHit(r)
    <3>1. PICK p \in Near(Question) : Answered(r, p.value)
      BY <2>1 DEF SemanticHit
    <3>2. p \in semantic
      BY <3>1 DEF Near
    <3>3. QED
      BY <2>1, <3>1, <3>2 DEF SemanticHit, QueryInv, PointFits
  <2>2. CASE GenerationHit(r)
    <3>1. PICK e \in Entries("generation", GenerationKey(r)) : Answered(r, e.value)
      BY <2>2 DEF GenerationHit
    <3>2. e \in redis
      BY <3>1 DEF Entries
    <3>3. QED
      BY <2>2, <3>1, <3>2 DEF GenerationHit, QueryInv, EntryFits
  <2>3. CASE AnswerFails(r)
    <3> DEFINE a == [text |-> "error", docs |-> {}, history |-> FALSE]
    <3>1. FALSE \in BOOLEAN
      OBVIOUS
    <3>2. a \in AnswerState /\ a.history = FALSE
      BY <3>1 DEF AnswerState
    <3>3. Answered(r, a) /\ Stores
      BY <2>3 DEF AnswerFails
    <3> HIDE DEF a
    <3>4. QED
      BY <3>2, <3>3 DEF Public
  <2>4. QED
    BY <2>1, <2>2, <2>3
<1>2. QED
  BY <1>1, SentFits DEF Public

\* A query ends: nothing of it is left but its turn.
LEMMA EndFits ==
    ASSUME QueryInv, NEW r \in Request, Clarify(r) \/ Raise(r) \/ Reply(r)
    PROVE  QueryInv'
<1>1. CASE Clarify(r) \/ Raise(r)
  <2>1. Set(r, Idle) /\ Stores
    BY <1>1 DEF Clarify, Raise
  <2>2. QED
    BY <2>1, IdleFits, CalmSet
<1>2. CASE Reply(r)
  <2>1. Set(r, Idle) /\ redis' = redis /\ semantic' = semantic /\ index' = index
    BY <1>2 DEF Reply, cacheVars
  <2>2. spoken \subseteq spoken' /\ spoken' \in SUBSET Conversation
    <3>1. request[r].conversation \in Conversation \cup {NoConversation}
          /\ spoken \in SUBSET Conversation
      BY DEF QueryInv, RequestState
    <3>2. QED
      BY <1>2, <3>1 DEF Reply
  <2>3. QED
    BY <2>1, <2>2, IdleFits, SetFits DEF QueryInv
<1>3. QED
  BY <1>1, <1>2

\* Every step of a query.
LEMMA RequestStepFits ==
    ASSUME QueryInv, NEW r \in Request, RequestStep(r)
    PROVE  QueryInv'
BY BeginFits, EndFits, RetrievalFits, HitFits, GenerateFits, KeepFits DEF RequestStep

-----------------------------------------------------------------------------
\* The caches are emptied, all of them or some.
LEMMA ClearFits ==
    ASSUME QueryInv, Clear
    PROVE  QueryInv'
<1>1. redis' \subseteq redis /\ semantic' \subseteq semantic
  BY DEF Clear, ClearCache, ClearCacheFails
<1>2. index' = index /\ request' = request /\ spoken' = spoken
  BY DEF Clear
<1>3. QED
  BY <1>1, <1>2 DEF QueryInv, EntryFits, PointFits, Public, AnswerState, Question,
                    RequestFits

\* Documents come and go, and entries do not notice.
LEMMA IndexFits ==
    ASSUME QueryInv, IndexChanges
    PROVE  QueryInv'
<1>1. redis' = redis /\ semantic' = semantic /\ request' = request /\ spoken' = spoken
  BY DEF IndexChanges, cacheVars
<1>2. index' \in SUBSET Doc
  BY DEF IndexChanges, QueryInv
<1>3. QED
  BY <1>1, <1>2 DEF QueryInv, EntryFits, PointFits, Public, AnswerState, Question,
                    RequestFits

\* An entry that grows older stays what it is.
LEMMA OlderFits ==
    /\ \A e : EntryFits(e) => EntryFits(Older(e))
    /\ \A p : PointFits(p) => PointFits(Older(p))
<1>1. ASSUME NEW e, EntryFits(e) PROVE EntryFits(Older(e))
  <2> DEFINE n == Older(e)
             m == [level |-> e.level, key |-> e.key, value |-> e.value, age |-> e.age]
  <2>1. e = m
    BY <1>1 DEF EntryFits
  <2>2. n = [level |-> e.level, key |-> e.key, value |-> e.value, age |-> e.age + 1]
    <3>1. [m EXCEPT !.age = @ + 1]
            = [level |-> e.level, key |-> e.key, value |-> e.value, age |-> e.age + 1]
      OBVIOUS
    <3>2. n = [m EXCEPT !.age = @ + 1]
      BY <2>1 DEF Older
    <3>3. QED
      BY <3>1, <3>2
  <2> HIDE DEF n
  <2>3. n.key = e.key /\ n.value = e.value
        /\ n = [level |-> n.level, key |-> n.key, value |-> n.value, age |-> n.age]
    BY <2>2
  <2>4. EntryFits(n)
    BY <1>1, <2>3 DEF EntryFits
  <2>5. QED
    BY <2>4 DEF n
<1>2. ASSUME NEW p, PointFits(p) PROVE PointFits(Older(p))
  <2> DEFINE n == Older(p)
             m == [key |-> p.key, value |-> p.value, age |-> p.age]
  <2>1. p = m
    BY <1>2 DEF PointFits
  <2>2. n = [key |-> p.key, value |-> p.value, age |-> p.age + 1]
    <3>1. [m EXCEPT !.age = @ + 1] = [key |-> p.key, value |-> p.value, age |-> p.age + 1]
      OBVIOUS
    <3>2. n = [m EXCEPT !.age = @ + 1]
      BY <2>1 DEF Older
    <3>3. QED
      BY <3>1, <3>2
  <2> HIDE DEF n
  <2>3. n.value = p.value /\ n = [key |-> n.key, value |-> n.value, age |-> n.age]
    BY <2>2
  <2>4. PointFits(n)
    BY <1>2, <2>3 DEF PointFits
  <2>5. QED
    BY <2>4 DEF n
<1>3. QED
  BY <1>1, <1>2

\* Time passes.
LEMMA TickFits ==
    ASSUME QueryInv, Tick
    PROVE  QueryInv'
<1>1. index' = index /\ spoken' = spoken
  BY DEF Tick
<1>2. \A e \in redis' : EntryFits(e)
  <2>1. \A e \in redis' : \E x \in redis : e = Older(x)
    BY DEF Tick, Age
  <2>2. QED
    BY <2>1, OlderFits DEF QueryInv
<1>3. \A p \in semantic' : PointFits(p)
  <2>1. \A p \in semantic' : p \in semantic \/ \E x \in semantic : p = Older(x)
    BY DEF Tick, Age
  <2>2. QED
    BY <2>1, OlderFits DEF QueryInv
<1>4. ASSUME NEW r \in Request
      PROVE  request'[r] \in RequestState /\ RequestFits(request'[r], spoken)
  <2> DEFINE k == request[r]
             s == [k EXCEPT !.age = @ + 1]
  <2>1. k \in RequestState /\ RequestFits(k, spoken) /\ (request'[r] = k \/ request'[r] = s)
    BY DEF QueryInv, Tick
  <2> HIDE DEF k
  <2>2. k.age + 1 \in Nat
    BY <2>1 DEF RequestState
  <2>3. /\ s \in RequestState /\ s.pc = k.pc /\ s.history = k.history
        /\ s.conversation = k.conversation /\ s.answer = k.answer /\ s.docs = k.docs
    BY <2>1, <2>2 DEF RequestState
  <2> HIDE DEF s
  <2>4. RequestFits(s, spoken)
    BY <2>1, <2>3 DEF RequestFits
  <2>5. QED
    BY <2>1, <2>3, <2>4
<1>5. request' \in [Request -> RequestState]
  <2>1. request' = [r \in Request |-> request'[r]]
    BY DEF Tick
  <2>2. QED
    BY <1>4, <2>1
<1>6. QED
  BY <1>1, <1>2, <1>3, <1>4, <1>5 DEF QueryInv, EntryFits, PointFits, Public,
                                      AnswerState, Question, RequestFits

-----------------------------------------------------------------------------
\* Every step keeps the invariant.
LEMMA QueryStep == QueryInv /\ [Next]_vars => QueryInv'
<1> SUFFICES ASSUME QueryInv, [Next]_vars PROVE QueryInv'
  OBVIOUS
<1>1. CASE Next
  BY <1>1, RequestStepFits, ClearFits, IndexFits, TickFits DEF Next
<1>2. CASE UNCHANGED vars
  BY <1>2 DEF vars, cacheVars, QueryInv, EntryFits, PointFits, Public, AnswerState,
              Question, RequestFits
<1>3. QED
  BY <1>1, <1>2

\* What is known of every query, every entry and every point holds always.
THEOREM QueryInvariance == Spec => []QueryInv
BY QueryInit, QueryStep, PTL DEF Spec

\* Whatever the caches keep and for how long, and in whatever order queries of
\* one conversation and of others begin, are answered and fail: no cache holds
\* what was said in a conversation, and no query of another one is told.
THEOREM HistoryAlwaysPrivate == Spec => []HistoryPrivate
<1>1. QueryInv => HistoryPrivate
  <2> SUFFICES ASSUME QueryInv PROVE HistoryPrivate
    OBVIOUS
  <2>1. \A e \in redis \cup semantic : e.value.history = FALSE
    BY DEF QueryInv, EntryFits, PointFits, Public
  <2>2. \A r \in Request : request[r].answer.history = TRUE => request[r].conversation \in spoken
    BY DEF QueryInv, RequestFits
  <2>3. \A r \in Request : request[r].answer.history \in BOOLEAN
    BY DEF QueryInv, RequestState, AnswerState
  <2>4. QED
    BY <2>1, <2>2, <2>3, Zenon DEF HistoryPrivate
<1>2. QED
  BY <1>1, QueryInvariance, PTL

-----------------------------------------------------------------------------
\* What a query is after a step of its own.
LEMMA SetIs ==
    ASSUME QueryInv, NEW r \in Request, NEW s, Set(r, s)
    PROVE  request'[r] = s
BY DEF Set, QueryInv

\* An answer that is sent is the answer that was meant.
LEMMA AnsweredIs ==
    ASSUME QueryInv, NEW r \in Request, NEW a, Answered(r, a)
    PROVE  request'[r].answer = a
<1> DEFINE s == [Idle EXCEPT !.pc = "answered", !.conversation = request[r].conversation,
                             !.answer = a]
<1>1. request'[r] = s
  BY SetIs DEF Answered
<1>2. s.answer = a
  BY DEF Idle
<1>3. QED
  BY <1>1, <1>2

\* Only four steps give a query its answer.
LEMMA Giving ==
    ASSUME QueryInv, NEW r \in Request, Gives(r), [Next]_vars
    PROVE  SemanticHit(r) \/ GenerationHit(r) \/ Keep(r) \/ AnswerFails(r)
<1> DEFINE k == request[r]
<1>1. k \in RequestState /\ k.pc # "answered" /\ request'[r].pc = "answered"
  BY DEF QueryInv, Gives
<1>2. CASE UNCHANGED request
  BY <1>1, <1>2
<1>3. CASE Tick
  <2>1. request'[r] = k \/ request'[r] = [k EXCEPT !.age = @ + 1]
    BY <1>3 DEF Tick
  <2> HIDE DEF k
  <2>2. [k EXCEPT !.age = @ + 1].pc = k.pc
    BY <1>1 DEF RequestState
  <2>3. QED
    BY <1>1, <2>1, <2>2
<1>4. ASSUME NEW q \in Request, q # r, RequestStep(q) PROVE FALSE
  <2>1. \E s : Set(q, s)
    BY <1>4 DEF RequestStep, Begin, Clarify, Raise, Route, FastLane, Decide, CallTool,
                ToolTimeout, SemanticHit, GenerationHit, GenerationMiss, Generate, Keep,
                AnswerFails, Reply, Answered
  <2>2. request'[r] = request[r]
    BY <1>4, <2>1 DEF Set, QueryInv
  <2>3. QED
    BY <1>1, <2>2
<1>5. CASE Clarify(r) \/ Raise(r) \/ Reply(r)
  <2>1. request'[r] = Idle
    BY <1>5, SetIs DEF Clarify, Raise, Reply
  <2>2. QED
    BY <1>1, <2>1 DEF Idle
<1>6. CASE Begin(r)
  <2>1. PICK c, d, h : Set(r, [Idle EXCEPT !.pc = "preparing", !.conversation = c,
                                           !.semantic = d, !.history = h])
    BY <1>6 DEF Begin
  <2>2. request'[r].pc = "preparing"
    BY <2>1, SetIs DEF Idle
  <2>3. QED
    BY <1>1, <2>2
<1>7. CASE Route(r) \/ FastLane(r) \/ Decide(r) \/ CallTool(r) \/ ToolTimeout(r)
           \/ GenerationMiss(r) \/ Generate(r)
  <2>1. \E pc \in {"deciding", "calling", "answering", "generating", "keeping"} :
         \E f, g, h :
            \/ Set(r, [k EXCEPT !.pc = pc])
            \/ Set(r, [k EXCEPT !.pc = pc, !.lane = f])
            \/ Set(r, [k EXCEPT !.pc = pc, !.steps = g])
            \/ Set(r, [k EXCEPT !.pc = pc, !.docs = h])
            \/ Set(r, [k EXCEPT !.pc = pc, !.answer = h])
    <3>1. CASE Route(r)
      BY <3>1 DEF Route
    <3>2. CASE FastLane(r)
      BY <3>2 DEF FastLane
    <3>3. CASE Decide(r)
      BY <3>3 DEF Decide
    <3>4. CASE CallTool(r)
      BY <3>4 DEF CallTool
    <3>5. CASE ToolTimeout(r)
      BY <3>5 DEF ToolTimeout
    <3>6. CASE GenerationMiss(r)
      BY <3>6 DEF GenerationMiss
    <3>7. CASE Generate(r)
      BY <3>7 DEF Generate
    <3>8. QED
      BY <1>7, <3>1, <3>2, <3>3, <3>4, <3>5, <3>6, <3>7
  <2>2. PICK pc \in {"deciding", "calling", "answering", "generating", "keeping"} :
           \E f, g, h :
            \/ request'[r] = [k EXCEPT !.pc = pc]
            \/ request'[r] = [k EXCEPT !.pc = pc, !.lane = f]
            \/ request'[r] = [k EXCEPT !.pc = pc, !.steps = g]
            \/ request'[r] = [k EXCEPT !.pc = pc, !.docs = h]
            \/ request'[r] = [k EXCEPT !.pc = pc, !.answer = h]
    BY <2>1, SetIs
  <2> HIDE DEF k
  <2>3. request'[r].pc = pc
    BY <1>1, <2>2 DEF RequestState
  <2>4. QED
    BY <1>1, <2>3
<1>8. QED
  BY <1>2, <1>3, <1>4, <1>5, <1>6, <1>7 DEF Next, RequestStep, vars, Clear, IndexChanges

\* Whoever had it generated, an exact answer rests on the documents of the
\* query it is given to.
THEOREM ExactAnswersAlwaysFit == Spec => ExactAnswersFit
<1>1. ASSUME QueryInv, [Next]_vars, NEW r \in Request, Gives(r),
             ~request[r].semantic, request'[r].answer.text = "answer"
      PROVE  request'[r].answer.docs = request[r].docs
  <2>1. CASE SemanticHit(r)
    BY <1>1, <2>1, Zenon DEF SemanticHit, UsesSemantic
  <2>2. CASE GenerationHit(r)
    <3>1. PICK e \in Entries("generation", GenerationKey(r)) : Answered(r, e.value)
      BY <2>2 DEF GenerationHit
    <3>2. e \in redis /\ e.key = <<Question, request[r].docs>>
      BY <3>1 DEF Entries, GenerationKey
    <3>3. EntryFits(e) /\ request[r].docs \in SUBSET Doc
      BY <1>1, <3>2 DEF QueryInv, RequestState
    <3>4. e.value.docs = request[r].docs
      BY <3>2, <3>3 DEF EntryFits
    <3>5. QED
      BY <1>1, <3>1, <3>4, AnsweredIs
  <2>3. CASE Keep(r)
    <3>1. request[r].answer.docs = request[r].docs
      BY <1>1, <2>3 DEF Keep, QueryInv, RequestFits
    <3>2. QED
      BY <1>1, <2>3, <3>1, AnsweredIs DEF Keep
  <2>4. CASE AnswerFails(r)
    <3>1. request'[r].answer = [text |-> "error", docs |-> {}, history |-> FALSE]
      BY <1>1, <2>4, AnsweredIs DEF AnswerFails
    <3>2. QED
      BY <1>1, <3>1
  <2>5. QED
    BY <1>1, <2>1, <2>2, <2>3, <2>4, Giving
<1>2. QueryInv /\ [Next]_vars =>
        [\A r \in Request :
           LET a == request'[r].answer IN
           Gives(r) /\ ~request[r].semantic /\ a.text = "answer"
              => a.docs = request[r].docs]_vars
  BY <1>1
<1>3. QED
  BY <1>2, QueryInvariance, PTL DEF Spec, ExactAnswersFit

-----------------------------------------------------------------------------
(***************************************************************************)
(* The traces of a change or a failure are bounded: as in FastLaneProofs,  *)
(* everything has an age, and is right when nothing has happened for       *)
(* longer than that.                                                       *)
(***************************************************************************)
AnswerRight(a, docs) == a.docs \subseteq docs /\ a.text # "error"
ApologyFits(a) == a.text = "none" => a.docs = {}

EntryAged(e) ==
    /\ e.level = "generation" /\ e.age \in Nat /\ e.age < TTL["generation"]
    /\ ApologyFits(e.value)

EntryRight(e, docs, q) == q > RetrievalLag + MaxRun + e.age => AnswerRight(e.value, docs)

\* A point that is too old is not told apart any further, and not used.
PointRight(p, docs, q) ==
    Fresh(p) /\ q > RetrievalLag + MaxRun + p.age => AnswerRight(p.value, docs)

RequestAged(s) ==
    /\ s.age <= MaxRun
    /\ s.pc \in {"idle", "preparing", "answered"} => s.docs = {} /\ s.age = 0
    /\ s.pc \in {"deciding", "calling"} => s.lane = "slow"
    /\ s.pc = "keeping" => ApologyFits(s.answer)

RequestRight(s, docs, q) ==
    /\ q > RetrievalLag + s.age =>
          /\ s.docs \subseteq docs
          /\ s.pc \in {"answering", "generating", "keeping"} /\ s.lane = "fast" /\ s.docs = {}
                => docs = {}
    /\ q > s.age /\ s.pc = "keeping" => s.answer.text # "error"

SettleInv ==
    /\ QueryInv
    /\ quiet \in Nat
    /\ \A e \in redis : EntryAged(e) /\ EntryRight(e, index, quiet)
    /\ \A p \in semantic : p.age \in Nat /\ PointRight(p, index, quiet)
    /\ \A r \in Request : RequestAged(request[r]) /\ RequestRight(request[r], index, quiet)

-----------------------------------------------------------------------------
\* What the lives amount to.
LEMMA Lives ==
    /\ TTL["generation"] \in Nat \ {0} /\ SemanticTTL \in Nat
    /\ RetrievalLag \in Nat /\ MaxRun \in Nat /\ AnswerLag \in Nat
    /\ AnswerLag >= RetrievalLag + MaxRun + (TTL["generation"] - 1)
    /\ AnswerLag >= RetrievalLag + MaxRun + SemanticTTL
BY CacheAssumption, QueryAssumption DEF AnswerLag

\* The invariant in the next state, from its parts there.
LEMMA SettleNext ==
    ASSUME QueryInv', quiet' \in Nat,
           \A e \in redis' : EntryAged(e) /\ EntryRight(e, index', quiet'),
           \A p \in semantic' : p.age \in Nat /\ PointRight(p, index', quiet'),
           \A r \in Request :
               RequestAged(request'[r]) /\ RequestRight(request'[r], index', quiet')
    PROVE  SettleInv'
BY DEF SettleInv, EntryAged, EntryRight, PointRight, RequestAged, RequestRight, AnswerRight,
       ApologyFits, Fresh

\* After a change nothing is said to be right.
LEMMA ChangeSettles ==
    ASSUME QueryInv', quiet' = 0, \A e \in redis' : EntryAged(e),
           \A p \in semantic' : p.age \in Nat, \A r \in Request : RequestAged(request'[r])
    PROVE  SettleInv'
<1>1. \A r \in Request : request'[r].age \in Nat
  BY DEF QueryInv, RequestState
<1>2. \A e \in redis' : EntryRight(e, index', quiet')
  BY Lives DEF EntryRight, EntryAged
<1>3. \A p \in semantic' : PointRight(p, index', quiet')
  BY Lives DEF PointRight
<1>4. \A r \in Request : RequestRight(request'[r], index', quiet')
  BY <1>1, Lives DEF RequestRight
<1>5. 0 \in Nat
  OBVIOUS
<1>6. QED
  BY <1>2, <1>3, <1>4, <1>5, SettleNext

\* The step of one query.
LEMMA StepSettles ==
    ASSUME SettleInv, QueryInv', NEW r \in Request, NEW s, Set(r, s), RequestAged(s),
           \A e \in redis' : EntryAged(e), \A p \in semantic' : p.age \in Nat,
           \/ Event
           \/ /\ Calm /\ index' = index /\ RequestRight(s, index, quiet)
              /\ \A e \in redis' : EntryRight(e, index, quiet)
              /\ \A p \in semantic' : PointRight(p, index, quiet)
    PROVE  SettleInv'
<1>1. request'[r] = s /\ \A q \in Request : q # r => request'[q] = request[q]
  BY DEF Set, SettleInv, QueryInv
<1>2. \A q \in Request : RequestAged(request'[q])
  BY <1>1 DEF SettleInv
<1>3. CASE Event
  <2>1. quiet' = 0
    BY <1>3 DEF Event
  <2>2. QED
    BY <1>2, <2>1, ChangeSettles
<1>4. CASE /\ Calm /\ index' = index /\ RequestRight(s, index, quiet)
           /\ \A e \in redis' : EntryRight(e, index, quiet)
           /\ \A p \in semantic' : PointRight(p, index, quiet)
  <2>1. quiet' = quiet /\ quiet \in Nat
    BY <1>4 DEF Calm, SettleInv
  <2>2. \A q \in Request : RequestRight(request'[q], index, quiet)
    BY <1>1, <1>4 DEF SettleInv
  <2>3. /\ \A e \in redis' : EntryAged(e) /\ EntryRight(e, index', quiet')
        /\ \A p \in semantic' : p.age \in Nat /\ PointRight(p, index', quiet')
        /\ \A q \in Request :
              RequestAged(request'[q]) /\ RequestRight(request'[q], index', quiet')
    BY <1>2, <1>4, <2>1, <2>2
  <2>4. QED
    BY <2>1, <2>3, SettleNext
<1>5. QED
  BY <1>3, <1>4

\* The step of one query that leaves the stores alone.
LEMMA StoresSettle ==
    ASSUME SettleInv, QueryInv', NEW r \in Request, NEW s, Set(r, s), Stores,
           RequestAged(s), Event \/ (Calm /\ RequestRight(s, index, quiet))
    PROVE  SettleInv'
<1>1. redis' = redis /\ semantic' = semantic /\ index' = index
  BY DEF Stores, cacheVars
<1>2. QED
  BY <1>1, StepSettles DEF SettleInv

\* A query that is over, and one whose answer is sent on, says nothing of
\* the documents.
LEMMA IdleSettles ==
    /\ RequestAged(Idle) /\ \A docs, q : RequestRight(Idle, docs, q)
    /\ \A c, d, h : LET s == [Idle EXCEPT !.pc = "preparing", !.conversation = c,
                                          !.semantic = d, !.history = h]
                    IN  RequestAged(s) /\ \A docs, q : RequestRight(s, docs, q)
    /\ \A c, a : LET s == [Idle EXCEPT !.pc = "answered", !.conversation = c, !.answer = a]
                 IN  RequestAged(s) /\ \A docs, q : RequestRight(s, docs, q)
<1>1. ASSUME NEW s, s.pc \in {"idle", "preparing", "answered"}, s.docs = {}, s.age = 0
      PROVE  RequestAged(s) /\ \A docs, q : RequestRight(s, docs, q)
  BY <1>1, Lives DEF RequestAged, RequestRight
<1>2. RequestAged(Idle) /\ \A docs, q : RequestRight(Idle, docs, q)
  BY <1>1 DEF Idle
<1>3. ASSUME NEW c, NEW d, NEW h
      PROVE  LET s == [Idle EXCEPT !.pc = "preparing", !.conversation = c,
                                   !.semantic = d, !.history = h]
             IN  RequestAged(s) /\ \A docs, q : RequestRight(s, docs, q)
  <2> DEFINE s == [Idle EXCEPT !.pc = "preparing", !.conversation = c,
                               !.semantic = d, !.history = h]
  <2>1. s.pc = "preparing" /\ s.docs = {} /\ s.age = 0
    BY DEF Idle
  <2> HIDE DEF s
  <2>2. RequestAged(s) /\ \A docs, q : RequestRight(s, docs, q)
    BY <1>1, <2>1
  <2>3. QED
    BY <2>2 DEF s
<1>4. ASSUME NEW c, NEW a
      PROVE  LET s == [Idle EXCEPT !.pc = "answered", !.conversation = c, !.answer = a]
             IN  RequestAged(s) /\ \A docs, q : RequestRight(s, docs, q)
  <2> DEFINE s == [Idle EXCEPT !.pc = "answered", !.conversation = c, !.answer = a]
  <2>1. s.pc = "answered" /\ s.docs = {} /\ s.age = 0
    BY DEF Idle
  <2> HIDE DEF s
  <2>2. RequestAged(s) /\ \A docs, q : RequestRight(s, docs, q)
    BY <1>1, <2>1
  <2>3. QED
    BY <2>2 DEF s
<1>5. QED
  BY <1>2, <1>3, <1>4

-----------------------------------------------------------------------------
LEMMA BeginSettles ==
    ASSUME SettleInv, QueryInv', NEW r \in Request, Begin(r)
    PROVE  SettleInv'
<1>1. PICK s : Set(r, s) /\ RequestAged(s) /\ RequestRight(s, index, quiet)
  BY IdleSettles DEF Begin
<1>2. Stores /\ Calm
  BY DEF Begin
<1>3. QED
  BY <1>1, <1>2, StoresSettle

LEMMA EndSettles ==
    ASSUME SettleInv, QueryInv', NEW r \in Request, Clarify(r) \/ Raise(r) \/ Reply(r)
    PROVE  SettleInv'
<1>1. /\ Set(r, Idle) /\ redis' = redis /\ semantic' = semantic /\ index' = index
      /\ Calm \/ Event
  BY DEF Clarify, Raise, Reply, Stores, cacheVars
<1>2. RequestAged(Idle) /\ RequestRight(Idle, index, quiet)
  BY IdleSettles
<1>3. QED
  BY <1>1, <1>2, StepSettles DEF SettleInv

\* The steps of a retrieval: the documents a query has were in the stores
\* since it began, or are what the fast lane answers for.
LEMMA RetrievalSettlesHere ==
    ASSUME SettleInv, QueryInv', NEW r \in Request,
           \/ Route(r) \/ FastLane(r) \/ Decide(r) \/ CallTool(r) \/ ToolTimeout(r)
           \/ GenerationMiss(r)
    PROVE  SettleInv'
<1> DEFINE k == request[r]
<1>1. /\ k \in RequestState /\ RequestAged(k) /\ RequestRight(k, index, quiet) /\ quiet \in Nat
  BY DEF SettleInv, QueryInv
<1>2. CASE Route(r)
  <2> DEFINE s == [k EXCEPT !.pc = "deciding", !.lane = "slow"]
  <2>1. Set(r, s) /\ k.pc = "preparing" /\ Stores /\ Calm
    BY <1>2 DEF Route
  <2> HIDE DEF k
  <2>2. s.pc = "deciding" /\ s.lane = "slow" /\ s.age = k.age /\ s.docs = k.docs
    BY <1>1 DEF RequestState
  <2> HIDE DEF s
  <2>3. RequestAged(s) /\ RequestRight(s, index, quiet)
    BY <1>1, <2>1, <2>2 DEF RequestAged, RequestRight
  <2>4. QED
    BY <2>1, <2>3, StoresSettle
<1>3. CASE FastLane(r)
  <2>1. PICK docs \in SUBSET Doc :
           /\ quiet > RetrievalLag => docs \subseteq index /\ (docs = {} => index = {})
           /\ Set(r, [k EXCEPT !.pc = "answering", !.docs = docs])
    BY <1>3 DEF FastLane
  <2> DEFINE s == [k EXCEPT !.pc = "answering", !.docs = docs]
  <2>2. k.pc = "preparing" /\ Stores /\ Calm /\ Set(r, s)
    BY <1>3, <2>1 DEF FastLane
  <2> HIDE DEF k
  <2>3. s.pc = "answering" /\ s.age = k.age /\ s.docs = docs
    BY <1>1 DEF RequestState
  <2> HIDE DEF s
  <2>4. s.age = 0
    BY <1>1, <2>2, <2>3 DEF RequestAged
  <2>5. RequestAged(s)
    BY <2>3, <2>4, Lives DEF RequestAged
  <2>6. RequestRight(s, index, quiet)
    BY <2>1, <2>3, <2>4, Lives DEF RequestRight
  <2>7. QED
    BY <2>2, <2>5, <2>6, StoresSettle
<1>4. CASE Decide(r)
  <2>1. PICK pc \in {"calling", "answering"}, n \in Nat :
           Set(r, [k EXCEPT !.pc = pc, !.steps = n])
    <3>1. k.steps \in Nat /\ k.steps + 1 \in Nat /\ 0 \in Nat
      BY <1>1 DEF RequestState
    <3>2. \/ Set(r, [k EXCEPT !.pc = "calling", !.steps = k.steps + 1])
          \/ Set(r, [k EXCEPT !.pc = "answering", !.steps = 0])
      BY <1>4 DEF Decide
    <3> HIDE DEF k
    <3>3. QED
      BY <3>1, <3>2
  <2> DEFINE s == [k EXCEPT !.pc = pc, !.steps = n]
  <2>2. k.pc = "deciding" /\ Stores /\ Calm /\ Set(r, s)
    BY <1>4, <2>1 DEF Decide
  <2> HIDE DEF k
  <2>3. s.pc = pc /\ s.age = k.age /\ s.docs = k.docs /\ s.lane = k.lane
    BY <1>1 DEF RequestState
  <2> HIDE DEF s
  <2>4. RequestAged(s) /\ RequestRight(s, index, quiet)
    BY <1>1, <2>1, <2>2, <2>3 DEF RequestAged, RequestRight
  <2>5. QED
    BY <2>2, <2>4, StoresSettle
<1>5. CASE CallTool(r)
  <2>1. PICK docs \in SUBSET index : Set(r, [k EXCEPT !.pc = "deciding", !.docs = @ \cup docs])
    BY <1>5 DEF CallTool
  <2> DEFINE s == [k EXCEPT !.pc = "deciding", !.docs = @ \cup docs]
  <2>2. k.pc = "calling" /\ Stores /\ Calm /\ Set(r, s)
    BY <1>5, <2>1 DEF CallTool
  <2> HIDE DEF k
  <2>3. s.pc = "deciding" /\ s.age = k.age /\ s.docs = k.docs \cup docs /\ s.lane = k.lane
    BY <1>1 DEF RequestState
  <2> HIDE DEF s
  <2>4. RequestAged(s) /\ RequestRight(s, index, quiet)
    BY <1>1, <2>1, <2>2, <2>3 DEF RequestAged, RequestRight
  <2>5. QED
    BY <2>2, <2>4, StoresSettle
<1>6. CASE ToolTimeout(r)
  <2> DEFINE s == [k EXCEPT !.pc = "answering", !.steps = 0]
  <2>1. Set(r, s) /\ Stores /\ Event
    BY <1>6 DEF ToolTimeout
  <2> HIDE DEF k
  <2>2. s.pc = "answering" /\ s.age = k.age
    BY <1>1 DEF RequestState
  <2> HIDE DEF s
  <2>3. RequestAged(s)
    BY <1>1, <2>2 DEF RequestAged
  <2>4. QED
    BY <2>1, <2>3, StoresSettle
<1>7. CASE GenerationMiss(r)
  <2> DEFINE s == [k EXCEPT !.pc = "generating"]
  <2>1. Set(r, s) /\ k.pc = "answering" /\ Stores /\ (Calm \/ Event)
    BY <1>7 DEF GenerationMiss, SemanticMiss
  <2> HIDE DEF k
  <2>2. s.pc = "generating" /\ s.age = k.age /\ s.docs = k.docs /\ s.lane = k.lane
    BY <1>1 DEF RequestState
  <2> HIDE DEF s
  <2>3. RequestAged(s) /\ RequestRight(s, index, quiet)
    BY <1>1, <2>1, <2>2 DEF RequestAged, RequestRight
  <2>4. QED
    BY <2>1, <2>3, StoresSettle
<1>8. QED
  BY <1>2, <1>3, <1>4, <1>5, <1>6, <1>7

\* An answer for an error is generated when there is one.
LEMMA GenerateSettles ==
    ASSUME SettleInv, QueryInv', NEW r \in Request, Generate(r)
    PROVE  SettleInv'
<1> DEFINE k == request[r]
<1>1. /\ k \in RequestState /\ RequestAged(k) /\ RequestRight(k, index, quiet) /\ quiet \in Nat
      /\ k.pc = "generating" /\ Stores
  BY DEF SettleInv, QueryInv, Generate
<1>2. PICK text :
          /\ Set(r, [k EXCEPT !.pc = "keeping",
                       !.answer = [text |-> text, docs |-> k.docs, history |-> k.history]])
          /\ \/ text = (IF k.docs = {} THEN "none" ELSE "answer") /\ Calm
             \/ text = "error" /\ Event
  BY DEF Generate
<1> DEFINE a == [text |-> text, docs |-> k.docs, history |-> k.history]
           s == [k EXCEPT !.pc = "keeping", !.answer = a]
<1>3. a.text = text /\ a.docs = k.docs /\ Set(r, s)
  BY <1>2
<1> HIDE DEF a, k
<1>4. /\ s.pc = "keeping" /\ s.age = k.age /\ s.docs = k.docs /\ s.lane = k.lane
      /\ s.answer = a
  BY <1>1 DEF RequestState
<1> HIDE DEF s
<1>5. RequestAged(s)
  BY <1>1, <1>2, <1>3, <1>4 DEF RequestAged, ApologyFits
<1>6. CASE Calm /\ text # "error"
  <2>1. RequestRight(s, index, quiet)
    BY <1>1, <1>3, <1>4, <1>6 DEF RequestRight
  <2>2. QED
    BY <1>1, <1>3, <1>5, <1>6, <2>1, StoresSettle
<1>7. CASE Event
  BY <1>1, <1>3, <1>5, <1>7, StoresSettle
<1>8. QED
  BY <1>2, <1>6, <1>7

\* What is kept is as right as the query that has made it.
LEMMA KeepSettles ==
    ASSUME SettleInv, QueryInv', NEW r \in Request, Keep(r)
    PROVE  SettleInv'
<1> DEFINE k == request[r]
           a == k.answer
           s == [Idle EXCEPT !.pc = "answered", !.conversation = k.conversation, !.answer = a]
<1>1. /\ k \in RequestState /\ RequestAged(k) /\ RequestRight(k, index, quiet) /\ quiet \in Nat
      /\ k.pc = "keeping" /\ Set(r, s) /\ index' = index /\ a.docs = k.docs
      /\ k.age \in Nat /\ k.age <= MaxRun /\ ApologyFits(a)
  BY DEF SettleInv, QueryInv, Keep, Answered, RequestFits, RequestState, RequestAged
<1>2. RequestAged(s) /\ RequestRight(s, index, quiet)
  BY IdleSettles
<1>3. quiet > RetrievalLag + MaxRun => AnswerRight(a, index)
  BY <1>1, Lives DEF AnswerRight, RequestRight
<1> HIDE DEF s, a
<1>4. \A e \in redis' : EntryAged(e) /\ EntryRight(e, index, quiet)
  <2> DEFINE m == [level |-> "generation", key |-> GenerationKey(r), value |-> a, age |-> 0]
  <2>1. \A e \in redis' : e \in redis \/ e = m
    BY DEF Keep, Put, a
  <2>2. m.level = "generation" /\ m.age = 0 /\ m.value = a
    OBVIOUS
  <2> HIDE DEF m
  <2>3. EntryAged(m)
    BY <1>1, <2>2, Lives DEF EntryAged
  <2>4. EntryRight(m, index, quiet)
    BY <1>3, <2>2, Lives DEF EntryRight
  <2>5. QED
    BY <2>1, <2>3, <2>4 DEF SettleInv
<1>5. \A p \in semantic' : p.age \in Nat /\ PointRight(p, index, quiet)
  <2> DEFINE m == [key |-> Question, value |-> a, age |-> 0]
  <2>1. \A p \in semantic' : p \in semantic \/ p = m
    BY DEF Keep, Remember, a
  <2>2. m.age = 0 /\ m.value = a /\ m.age \in Nat
    OBVIOUS
  <2> HIDE DEF m
  <2>3. PointRight(m, index, quiet)
    BY <1>3, <2>2, Lives DEF PointRight
  <2>4. QED
    BY <2>1, <2>2, <2>3 DEF SettleInv
<1>6. Calm \/ Event
  BY DEF Keep
<1>7. QED
  BY <1>1, <1>2, <1>4, <1>5, <1>6, StepSettles

\* An answer that was kept, or stands for an error, is sent on.
LEMMA HitSettles ==
    ASSUME SettleInv, QueryInv', NEW r \in Request,
           SemanticHit(r) \/ GenerationHit(r) \/ AnswerFails(r)
    PROVE  SettleInv'
<1>1. PICK a : Answered(r, a)
  BY DEF SemanticHit, GenerationHit, AnswerFails
<1>2. Stores /\ (Calm \/ Event)
  BY DEF SemanticHit, GenerationHit, AnswerFails, SemanticMiss
<1>3. PICK s : Set(r, s) /\ RequestAged(s) /\ RequestRight(s, index, quiet)
  BY <1>1, IdleSettles DEF Answered
<1>4. QED
  BY <1>2, <1>3, StoresSettle

\* The caches are emptied, all or some, and nothing else is touched.
LEMMA ClearSettles ==
    ASSUME SettleInv, QueryInv', Clear
    PROVE  SettleInv'
<1>1. /\ redis' \subseteq redis /\ semantic' \subseteq semantic
      /\ index' = index /\ request' = request /\ (Calm \/ Event)
  BY DEF Clear, ClearCache, ClearCacheFails
<1>2. CASE Calm
  <2>1. quiet' = quiet /\ quiet \in Nat
    BY <1>2 DEF Calm, SettleInv
  <2>2. /\ \A e \in redis' : EntryAged(e) /\ EntryRight(e, index', quiet')
        /\ \A p \in semantic' : p.age \in Nat /\ PointRight(p, index', quiet')
        /\ \A r \in Request :
              RequestAged(request'[r]) /\ RequestRight(request'[r], index', quiet')
    BY <1>1, <2>1 DEF SettleInv
  <2>3. QED
    BY <2>1, <2>2, SettleNext
<1>3. CASE Event
  <2>1. quiet' = 0
    BY <1>3 DEF Event
  <2>2. QED
    BY <1>1, <2>1, ChangeSettles DEF SettleInv
<1>4. QED
  BY <1>1, <1>2, <1>3

\* Time passes.
LEMMA TickSettles ==
    ASSUME SettleInv, QueryInv', Tick
    PROVE  SettleInv'
<1>1. /\ quiet \in Nat /\ quiet' \in Nat /\ index' = index
      /\ \A x \in Nat : quiet' > x + 1 => quiet > x
      /\ \A x \in Nat : quiet' > x => quiet > x \/ quiet' = quiet + 1
  BY Lives DEF SettleInv, Tick
<1>2. ASSUME NEW e \in redis' PROVE EntryAged(e) /\ EntryRight(e, index, quiet')
  <2>1. PICK x \in redis : e = [x EXCEPT !.age = @ + 1] /\ x.age + 1 < TTL[x.level]
    BY DEF Tick, Age, Older
  <2>2. EntryFits(x) /\ EntryAged(x) /\ EntryRight(x, index, quiet) /\ x.age \in Nat
    BY DEF SettleInv, QueryInv, EntryAged
  <2>3. e = [level |-> x.level, key |-> x.key, value |-> x.value, age |-> x.age + 1]
    BY <2>1, <2>2 DEF EntryFits
  <2>4. e.level = x.level /\ e.value = x.value /\ e.age = x.age + 1
    BY <2>3
  <2>5. EntryAged(e)
    BY <2>1, <2>2, <2>4, Lives DEF EntryAged
  <2>6. quiet' > RetrievalLag + MaxRun + e.age => quiet > RetrievalLag + MaxRun + x.age
    <3>1. /\ RetrievalLag + MaxRun + x.age \in Nat
          /\ RetrievalLag + MaxRun + e.age = (RetrievalLag + MaxRun + x.age) + 1
      BY <2>2, <2>4, Lives
    <3>2. QED
      BY <1>1, <3>1
  <2>7. EntryRight(e, index, quiet')
    BY <2>2, <2>4, <2>6 DEF EntryRight
  <2>8. QED
    BY <2>5, <2>7
<1>3. ASSUME NEW p \in semantic' PROVE p.age \in Nat /\ PointRight(p, index, quiet')
  <2>1. PICK x \in semantic : p = IF Fresh(x) THEN Older(x) ELSE x
    BY DEF Tick, Age
  <2>2. PointFits(x) /\ x.age \in Nat /\ PointRight(x, index, quiet)
    BY DEF SettleInv, QueryInv
  <2>3. CASE ~Fresh(x)
    BY <2>1, <2>2, <2>3 DEF PointRight
  <2>4. CASE Fresh(x)
    <3>1. p = [x EXCEPT !.age = @ + 1]
      BY <2>1, <2>4 DEF Older
    <3>2. p = [key |-> x.key, value |-> x.value, age |-> x.age + 1]
      BY <2>2, <3>1 DEF PointFits
    <3>3. p.value = x.value /\ p.age = x.age + 1
      BY <3>2
    <3>4. quiet' > RetrievalLag + MaxRun + p.age => quiet > RetrievalLag + MaxRun + x.age
      <4>1. /\ RetrievalLag + MaxRun + x.age \in Nat
            /\ RetrievalLag + MaxRun + p.age = (RetrievalLag + MaxRun + x.age) + 1
        BY <2>2, <3>3, Lives
      <4>2. QED
        BY <1>1, <4>1
    <3>5. QED
      BY <2>2, <2>4, <3>3, <3>4 DEF PointRight
  <2>5. QED
    BY <2>3, <2>4
<1>4. ASSUME NEW r \in Request
      PROVE  RequestAged(request'[r]) /\ RequestRight(request'[r], index, quiet')
  <2> DEFINE k == request[r]
             s == request'[r]
  <2>1. k \in RequestState /\ RequestAged(k) /\ RequestRight(k, index, quiet) /\ k.age \in Nat
    BY DEF SettleInv, QueryInv, RequestState
  <2>2. CASE ~Busy(r)
    <3>1. s = k /\ k.pc \in {"idle", "preparing", "answered"}
      BY <2>2 DEF Tick, Busy
    <3>2. QED
      BY <2>1, <3>1 DEF RequestAged, RequestRight
  <2>3. CASE Busy(r)
    <3>1. /\ s = [k EXCEPT !.age = @ + 1] /\ k.age < MaxRun
          /\ k.pc \notin {"idle", "preparing", "answered"}
      BY <2>3 DEF Tick, Busy
    <3> HIDE DEF k, s
    <3>2. /\ s.age = k.age + 1 /\ s.pc = k.pc /\ s.docs = k.docs /\ s.lane = k.lane
          /\ s.answer = k.answer
      BY <2>1, <3>1 DEF RequestState
    <3>3. RequestAged(s)
      BY <2>1, <3>1, <3>2, Lives DEF RequestAged
    <3>4. quiet' > RetrievalLag + s.age => quiet > RetrievalLag + k.age
      <4>1. /\ RetrievalLag + k.age \in Nat
            /\ RetrievalLag + s.age = (RetrievalLag + k.age) + 1
        BY <2>1, <3>2, Lives
      <4>2. QED
        BY <1>1, <4>1
    <3>5. quiet' > s.age => quiet > k.age
      BY <1>1, <2>1, <3>2
    <3>6. RequestRight(s, index, quiet')
      BY <2>1, <3>2, <3>4, <3>5 DEF RequestRight
    <3>7. QED
      BY <3>3, <3>6 DEF s
  <2>4. QED
    BY <2>2, <2>3
<1>5. /\ \A e \in redis' : EntryAged(e) /\ EntryRight(e, index', quiet')
      /\ \A p \in semantic' : p.age \in Nat /\ PointRight(p, index', quiet')
      /\ \A r \in Request :
            RequestAged(request'[r]) /\ RequestRight(request'[r], index', quiet')
  BY <1>1, <1>2, <1>3, <1>4
<1>6. QED
  BY <1>1, <1>5, SettleNext

LEMMA SettleInit == Init => SettleInv
<1> SUFFICES ASSUME Init PROVE SettleInv
  OBVIOUS
<1>1. /\ redis = {} /\ semantic = {} /\ request = [r \in Request |-> Idle]
      /\ quiet = AnswerLag + 1
  BY DEF Init, CacheInit
<1>2. QueryInv /\ quiet \in Nat
  BY <1>1, QueryInit, Lives
<1>3. QED
  BY <1>1, <1>2, IdleSettles DEF SettleInv

LEMMA SettleStep == SettleInv /\ [Next]_vars => SettleInv'
<1> SUFFICES ASSUME SettleInv, [Next]_vars PROVE SettleInv'
  OBVIOUS
<1>1. QueryInv'
  BY QueryStep DEF SettleInv
<1>2. ASSUME NEW r \in Request, RequestStep(r) PROVE SettleInv'
  BY <1>1, <1>2, BeginSettles, EndSettles, RetrievalSettlesHere, GenerateSettles,
     KeepSettles, HitSettles DEF RequestStep
<1>3. CASE Tick
  BY <1>1, <1>3, TickSettles
<1>4. CASE Clear
  BY <1>1, <1>4, ClearSettles
<1>5. CASE IndexChanges
  <2>1. redis' = redis /\ semantic' = semantic /\ request' = request /\ quiet' = 0
    BY <1>5 DEF IndexChanges, Event, cacheVars
  <2>2. QED
    BY <1>1, <2>1, ChangeSettles DEF SettleInv
<1>6. CASE UNCHANGED vars
  <2>1. /\ redis' = redis /\ semantic' = semantic /\ request' = request /\ quiet' = quiet
        /\ index' = index
    BY <1>6 DEF vars
  <2>2. /\ quiet' \in Nat
        /\ \A e \in redis' : EntryAged(e) /\ EntryRight(e, index', quiet')
        /\ \A p \in semantic' : p.age \in Nat /\ PointRight(p, index', quiet')
        /\ \A r \in Request :
              RequestAged(request'[r]) /\ RequestRight(request'[r], index', quiet')
    BY <2>1 DEF SettleInv
  <2>3. QED
    BY <1>1, <2>2, SettleNext
<1>7. QED
  BY <1>2, <1>3, <1>4, <1>5, <1>6 DEF Next

\* Every reachable state: what is older than the last change may be wrong,
\* what is younger rests on documents there are and on no failure.
THEOREM SettleInvariance == Spec => []SettleInv
BY SettleInit, SettleStep, PTL DEF Spec

\* AnswerLag ticks after the last change or failure no answer rests on a
\* document that is gone and none apologises for an error, from whichever
\* cache it comes; with the exact strategy the fast lane then finds nothing
\* only where there is nothing (query_service.py, cache.py, semantic_cache.py).
THEOREM AnswersAlwaysSettle == Spec => AnswersSettle
<1>1. ASSUME SettleInv, [Next]_vars, NEW r \in Request, Gives(r), quiet > AnswerLag
      PROVE  LET a == request'[r].answer IN
             /\ a.docs \subseteq index /\ (a.text = "error" => quiet' = 0)
             /\ request[r].lane = "fast" /\ ~request[r].semantic /\ a.text = "none"
                   => index = {}
  <2> DEFINE k == request[r]
             a == request'[r].answer
  <2>1. /\ QueryInv /\ quiet \in Nat /\ k \in RequestState /\ k.age \in Nat /\ k.age <= MaxRun
        /\ RequestAged(k) /\ RequestRight(k, index, quiet) /\ RequestFits(k, spoken)
    BY <1>1 DEF SettleInv, QueryInv, RequestState, RequestAged
  <2>2. quiet > RetrievalLag + k.age /\ quiet > k.age
    BY <1>1, <2>1, Lives
  <2>3. CASE SemanticHit(r)
    <3>1. PICK p \in Near(Question) : Fresh(p) /\ Answered(r, p.value)
      BY <2>3 DEF SemanticHit
    <3>2. p.age \in Nat /\ PointRight(p, index, quiet) /\ a = p.value
      BY <1>1, <2>1, <3>1, AnsweredIs DEF Near, SettleInv
    <3>3. AnswerRight(p.value, index)
      BY <1>1, <2>1, <3>1, <3>2, Lives DEF Fresh, PointRight
    <3>4. request[r].semantic
      BY <2>3, Zenon DEF SemanticHit, UsesSemantic
    <3>5. QED
      BY <3>2, <3>3, <3>4 DEF AnswerRight
  <2>4. CASE GenerationHit(r)
    <3>1. PICK e \in Entries("generation", GenerationKey(r)) : Answered(r, e.value)
      BY <2>4 DEF GenerationHit
    <3>2. e \in redis /\ e.key = <<Question, k.docs>> /\ k.pc = "answering"
      BY <2>4, <3>1 DEF Entries, GenerationKey, GenerationHit
    <3>3. /\ EntryFits(e) /\ EntryAged(e) /\ EntryRight(e, index, quiet) /\ a = e.value
      BY <1>1, <2>1, <3>1, <3>2, AnsweredIs DEF SettleInv, QueryInv
    <3>4. AnswerRight(e.value, index)
      BY <1>1, <2>1, <3>3, Lives DEF EntryAged, EntryRight
    <3>5. e.value.docs = k.docs
      BY <2>1, <3>2, <3>3 DEF EntryFits, RequestState
    <3>6. a.text = "none" /\ k.lane = "fast" => index = {}
      BY <2>1, <2>2, <3>2, <3>3, <3>5 DEF EntryAged, ApologyFits, RequestRight
    <3>7. QED
      BY <3>3, <3>4, <3>6 DEF AnswerRight
  <2>5. CASE Keep(r)
    <3>1. k.pc = "keeping" /\ a = k.answer
      BY <2>1, <2>5, AnsweredIs DEF Keep
    <3>2. a.docs = k.docs /\ ApologyFits(a)
      BY <2>1, <3>1 DEF RequestFits, RequestAged
    <3>3. a.docs \subseteq index /\ a.text # "error"
      BY <2>1, <2>2, <3>1, <3>2 DEF RequestRight
    <3>4. a.text = "none" /\ k.lane = "fast" => index = {}
      BY <2>1, <2>2, <3>1, <3>2 DEF ApologyFits, RequestRight
    <3>5. QED
      BY <3>3, <3>4
  <2>6. CASE AnswerFails(r)
    <3>1. a = [text |-> "error", docs |-> {}, history |-> FALSE] /\ quiet' = 0
      BY <2>1, <2>6, AnsweredIs DEF AnswerFails, Event
    <3>2. QED
      BY <3>1
  <2>7. QED
    BY <1>1, <2>1, <2>3, <2>4, <2>5, <2>6, Giving
<1>2. SettleInv /\ [Next]_vars =>
        [\A r \in Request :
           Gives(r) /\ quiet > AnswerLag =>
              LET a == request'[r].answer IN
              /\ a.docs \subseteq index /\ (a.text = "error" => quiet' = 0)
              /\ request[r].lane = "fast" /\ ~request[r].semantic /\ a.text = "none"
                    => index = {}]_vars
  BY <1>1
<1>3. QED
  BY <1>2, SettleInvariance, PTL DEF Spec, AnswersSettle

=============================================================================
