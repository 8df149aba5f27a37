------------------------------ MODULE FastLane ------------------------------
(***************************************************************************)
(* The fast lane of the retrieval (core/retrieval/fast_lane.py, recall.py, *)
(* rerank.py): recall with filters that are relaxed one after the other    *)
(* when too little is found, rerank, a judgement of the result and at most *)
(* one more round.  Recall and rerank are cached in Redis, under keys that *)
(* say nothing of the state of the document stores; documents come and go  *)
(* while queries run and while their entries live.                         *)
(*                                                                         *)
(* One question is modelled: entries of other questions have other keys.   *)
(* A document stands for its chunks.  An action ends where the coroutine   *)
(* waits, for a store or for a model.                                      *)
(***************************************************************************)
EXTENDS AnswerCaches, Sequences

CONSTANTS
    Run,       \* queries in progress at one time
    Doc,
    Filters,   \* the filters the question gives (extract)
    Relaxing,  \* filter_relaxation_priority: a sequence of filters
    Match,     \* Match[f]: documents that pass the filter f
    Pictured,  \* documents with pages that look like the question to ColPali
    Enough,    \* filter_relaxation_threshold
    TopK,      \* TopK[n]: how many results the rerank of round n keeps
    Best,      \* Best[d]: the score the model gives to d, higher is better
    MaxRun,    \* bound: ticks one query takes
    MaxEvents  \* bound: documents that come or go and calls that fail

ASSUME FastLaneAssumption ==
    /\ {"recall", "rerank"} \subseteq Level
    /\ IsFiniteSet(Doc) /\ IsFiniteSet(Filters)
    /\ Match \in [Filters -> SUBSET Doc]
    /\ Pictured \subseteq Doc
    /\ Relaxing \in Seq(STRING)
    /\ Filters \subseteq {Relaxing[i] : i \in DOMAIN Relaxing}
    /\ TopK \in [1..2 -> Nat \ {0}]
    /\ Best \in [Doc -> Nat] /\ \A d, e \in Doc : Best[d] = Best[e] => d = e
    /\ {Enough, MaxRun} \subseteq Nat \ {0} /\ MaxEvents \in Nat

VARIABLES
    index,  \* documents the stores hold
    run,    \* run[r]: the coroutine of FastLane.execute
    quiet,  \* history: ticks since a document came or went or a call failed
    events  \* how often that was so far

vars == <<redis, semantic, collection, index, run, quiet, events>>

(* What the caches may keep of a moment: an entry of either level is made  *)
(* by a query that began before it and used by one that ends after it.  It *)
(* is gone once it is as old as its level allows, whence the last tick.    *)
RetrievalLag ==
    (IF TTL["recall"] > TTL["rerank"] THEN TTL["recall"] ELSE TTL["rerank"]) + 2 * MaxRun - 1

Idle == [pc |-> "idle", round |-> 1, filters |-> {}, relaxed |-> FALSE, found |-> {},
         base |-> {}, candidates |-> {}, ranked |-> {}, age |-> 0]

Init ==
    /\ CacheInit
    /\ index \in SUBSET Doc
    /\ run = [r \in Run |-> Idle]
    /\ quiet = RetrievalLag + 1
    /\ events = 0

Set(r, rec) == run' = [run EXCEPT ![r] = rec]
Calm == UNCHANGED <<quiet, events>>
Event == events < MaxEvents /\ events' = events + 1 /\ quiet' = 0

-----------------------------------------------------------------------------
(* Helpers of the lane.                                                    *)
Passing(docs, filters) == {d \in docs : \A f \in filters : d \in Match[f]}

(* The visual recall hands the filters to a search that looks for the keys *)
(* of a Qdrant filter in them and finds none: its pages pass any filters,  *)
(* and count when too little is looked for.                                *)
Hits(docs, filters) == Passing(docs, filters) \cup (docs \cap Pictured)

(* The filter that is dropped next.                                        *)
Dropped(filters) ==
    CHOOSE f \in filters :
        \E i \in DOMAIN Relaxing :
            Relaxing[i] = f /\ \A j \in 1..(i - 1) : Relaxing[j] \notin filters

(* The best documents the model names; no model is asked when all fit.     *)
Top(docs, n) ==
    IF Cardinality(docs) <= n THEN docs
    ELSE {d \in docs : Cardinality({e \in docs : Best[e] > Best[d]}) < n}

(* What a search answers for filters: the documents in the stores that     *)
(* pass and the pages; each store that fails, or is late as ColPali may be, *)
(* answers nothing, and what the others have found is all there is.        *)
Found(docs, filters) ==
    \/ docs = Hits(index, filters) /\ Calm
    \/ docs \in SUBSET Hits(index, filters) /\ Event

(* What follows a recall: in the first round the filters are relaxed as    *)
(* long as too little is found and some are left; the second round adds    *)
(* what it has found to the first, and keeps its result when that is       *)
(* nothing new.                                                            *)
Recalled(r, docs) ==
    LET s == run[r] IN
    IF s.round = 2
    THEN LET all == s.base \cup docs IN
         IF all \subseteq s.candidates
         THEN [s EXCEPT !.pc = "judging", !.found = {}]
         ELSE [s EXCEPT !.pc = "ranking", !.found = {}, !.candidates = all]
    ELSE IF Cardinality(docs) >= Enough \/ s.filters = {}
         THEN [s EXCEPT !.pc = "ranking", !.base = docs, !.candidates = docs, !.found = {}]
         ELSE [s EXCEPT !.pc = "recalling", !.relaxed = TRUE, !.found = {},
                        !.filters = @ \ {Dropped(@)}]

-----------------------------------------------------------------------------
(* A query begins with the filters of its question.                        *)
Begin(r) ==
    /\ run[r].pc = "idle"
    /\ Set(r, [Idle EXCEPT !.pc = "recalling", !.filters = Filters])
    /\ UNCHANGED <<cacheVars, index>> /\ Calm

(* A mutant: the filters are left out.                                     *)
RecallKeyUnfiltered(r) == <<run[r].round>>

(* The filters in use are part of the key.                                 *)
RecallKey(r) == <<run[r].round, run[r].filters>>

(* A mutant: a hit extends the life of its entry.                          *)
RecallHitSliding(r) ==
    /\ run[r].pc = "recalling"
    /\ \E e \in Entries("recall", RecallKey(r)) :
        Set(r, Recalled(r, e.value)) /\ Put("recall", RecallKey(r), e.value)
    /\ UNCHANGED <<semantic, collection, index>> /\ Calm

(* L2: an entry replaces the search.                                       *)
RecallHit(r) ==
    /\ run[r].pc = "recalling"
    /\ \E e \in Entries("recall", RecallKey(r)) : Set(r, Recalled(r, e.value))
    /\ UNCHANGED <<cacheVars, index>> /\ Calm

(* A miss: all stores are searched, and each of them answers or not.       *)
Search(r) ==
    /\ run[r].pc = "recalling"
    /\ Entries("recall", RecallKey(r)) = {}
    /\ \E docs \in SUBSET Doc :
        Found(docs, run[r].filters) /\ Set(r, [run[r] EXCEPT !.pc = "found", !.found = docs])
    /\ UNCHANGED <<cacheVars, index>>

(* What was found is written to L2, however little it is; the write may be *)
(* lost.                                                                   *)
KeepRecall(r) ==
    /\ run[r].pc = "found"
    /\ Set(r, Recalled(r, run[r].found))
    /\ \/ Put("recall", RecallKey(r), run[r].found) /\ Calm
       \/ UNCHANGED redis /\ Event
    /\ UNCHANGED <<semantic, collection, index>>

(* Standards the results refer to are looked up by their number.           *)
Refer(r) ==
    /\ run[r].pc = "recalling" /\ run[r].round = 2
    /\ \E d \in index \ run[r].base : Set(r, [run[r] EXCEPT !.base = @ \cup {d}])
    /\ UNCHANGED <<cacheVars, index>> /\ Calm

(* The pictures of the candidates are read from MySQL: an error there ends *)
(* the query.                                                              *)
ImagesFail(r) ==
    /\ run[r].pc = "ranking"
    /\ Set(r, Idle)
    /\ UNCHANGED <<cacheVars, index>> /\ Event

RerankKey(r) == <<run[r].round, run[r].candidates>>

(* L3: the key is the set of candidates.                                   *)
RerankHit(r) ==
    /\ run[r].pc = "ranking"
    /\ \E e \in Entries("rerank", RerankKey(r)) :
        Set(r, [run[r] EXCEPT !.pc = "judging", !.ranked = e.value])
    /\ UNCHANGED <<cacheVars, index>> /\ Calm

(* A miss: the model ranks the candidates and the result is written to L3. *)
Rerank(r) ==
    /\ run[r].pc = "ranking" /\ Entries("rerank", RerankKey(r)) = {}
    /\ LET docs == Top(run[r].candidates, TopK[run[r].round]) IN
        /\ Put("rerank", RerankKey(r), docs)
        /\ Set(r, [run[r] EXCEPT !.pc = "judging", !.ranked = docs])
    /\ UNCHANGED <<semantic, collection, index>> /\ Calm

(* The model fails: the scores of the recall stand in for its own, and     *)
(* what they rank first is written to L3 as well.                          *)
RerankFallsBack(r) ==
    /\ run[r].pc = "ranking" /\ Entries("rerank", RerankKey(r)) = {}
    /\ Cardinality(run[r].candidates) > TopK[run[r].round]
    /\ \E docs \in SUBSET run[r].candidates :
        /\ Cardinality(docs) = TopK[run[r].round]
        /\ Put("rerank", RerankKey(r), docs)
        /\ Set(r, [run[r] EXCEPT !.pc = "judging", !.ranked = docs])
    /\ UNCHANGED <<semantic, collection, index>> /\ Event

(* The result is sufficient, or it is the second: it is what was ranked.   *)
Finish(r) ==
    /\ run[r].pc = "judging"
    /\ Set(r, Idle)
    /\ UNCHANGED <<cacheVars, index>> /\ Calm

(* It is not: one more round with a refined query and, relaxed or not, the *)
(* filters of the question.                                                *)
Retry(r) ==
    /\ run[r].pc = "judging" /\ run[r].round = 1
    /\ Set(r, [run[r] EXCEPT !.pc = "recalling", !.round = 2, !.filters = Filters])
    /\ UNCHANGED <<cacheVars, index>> /\ Calm

(* A document is ingested or deleted; nobody touches the caches.           *)
IndexChanges ==
    /\ \E d \in Doc : index' = (index \ {d}) \cup ({d} \ index)
    /\ Event
    /\ UNCHANGED <<cacheVars, run>>

Busy(r) == run[r].pc # "idle"

Tick ==
    /\ \A r \in Run : Busy(r) => run[r].age < MaxRun
    /\ Age
    /\ run' = [r \in Run |-> IF Busy(r) THEN [run[r] EXCEPT !.age = @ + 1] ELSE run[r]]
    /\ quiet' = IF quiet > RetrievalLag THEN quiet ELSE quiet + 1
    /\ UNCHANGED <<index, events>>

RunStep(r) ==
    \/ Begin(r) \/ RecallHit(r) \/ Search(r) \/ KeepRecall(r)
    \/ Refer(r) \/ ImagesFail(r) \/ RerankHit(r) \/ Rerank(r) \/ RerankFallsBack(r)
    \/ Finish(r) \/ Retry(r)

Next == IndexChanges \/ Tick \/ \E r \in Run : RunStep(r)

Spec == Init /\ [][Next]_vars

-----------------------------------------------------------------------------
(* What the lane recalls in its first round from stores that hold docs and *)
(* answer, without a cache: the filters that are left after k steps of the *)
(* relaxation, for the least k that finds enough.                          *)
Kept(k) == {f \in Filters : \A i \in 1..k : Relaxing[i] # f}
First(docs) ==
    LET k == CHOOSE k \in 0..Len(Relaxing) :
                 /\ \/ Cardinality(Hits(docs, Kept(k))) >= Enough
                    \/ Kept(k) = {}
                 /\ \A j \in 0..(k - 1) :
                       Kept(j) # {} /\ Cardinality(Hits(docs, Kept(j))) < Enough
    IN Hits(docs, Kept(k))

(* The results it may then give: of one round, or of two with whatever the *)
(* first results refer to.                                                 *)
Right(docs) ==
    {Top(First(docs), TopK[1])} \cup
    {Top(First(docs) \cup Hits(docs, Filters) \cup more, TopK[2]) : more \in SUBSET docs}

(* Nothing empties the caches when documents change or stores recover      *)
(* (invalidate_recall_and_generation has no caller), and entries are made  *)
(* of entries.  Still, the traces are bounded: when for RetrievalLag ticks *)
(* no document has come or gone and no call has failed, every result is    *)
(* the one the stores themselves would give.                               *)
RetrievalSettles ==
    [][\A r \in Run :
         run[r].pc = "judging" /\ run'[r].pc = "idle" /\ quiet > RetrievalLag
            => run[r].ranked \in Right(index)]_vars

(* A query whose filters were not relaxed is given no document they        *)
(* exclude, and one whose filters were is given none that the filters it   *)
(* reports exclude, whatever queries that relaxed more left in the caches: *)
(* all but the pages of the visual recall, which no filter reaches         *)
(* (visual_recall.py:98, vector_store.py:443).                             *)
FiltersKept ==
    \A r \in Run :
        run[r].round = 1 /\ run[r].pc \in {"ranking", "judging"} =>
            /\ run[r].ranked \cup run[r].candidates \subseteq Hits(Doc, run[r].filters)
            /\ ~run[r].relaxed => run[r].filters = Filters
=============================================================================
