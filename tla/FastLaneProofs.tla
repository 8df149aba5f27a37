--------------------------- MODULE FastLaneProofs ---------------------------
(***************************************************************************)
(* The caches of the fast lane show a query no document its filters        *)
(* exclude but those the visual recall finds for any filters, and for a    *)
(* bounded time only what the stores would not: for all documents, filters,*)
(* orders of relaxation, lives of the entries and numbers of queries.      *)
(*                                                                         *)
(* The invariant speaks of the entries as well as of the queries, since    *)
(* each is made from the other.                                            *)
(***************************************************************************)
EXTENDS FastLane, FiniteSetTheorems, SequenceTheorems, WellFoundedInduction, TLAPS

Entry(e) == e = [level |-> e.level, key |-> e.key, value |-> e.value, age |-> e.age]

RunState ==
    [pc: {"idle", "recalling", "found", "ranking", "judging"}, round: {1, 2},
     filters: SUBSET Filters, relaxed: BOOLEAN, found: SUBSET Doc, base: SUBSET Doc,
     candidates: SUBSET Doc, ranked: SUBSET Doc, age: Nat]

LaneType ==
    /\ index \in SUBSET Doc
    /\ run \in [Run -> RunState]
    /\ \A e \in redis : Entry(e) /\ e.value \in SUBSET Doc

\* An entry of the first round holds what its key lets pass.
EntryFits(e) ==
    /\ e.level = "recall" =>
          \A F \in SUBSET Filters : e.key = <<1, F>> => e.value \subseteq Hits(Doc, F)
    /\ e.level = "rerank" =>
          \A C \in SUBSET Doc : e.key = <<1, C>> => e.value \subseteq C

\* So does a query in its first round.
RunFits(s) ==
    s.round = 1 =>
        /\ s.pc = "found" => s.found \subseteq Hits(Doc, s.filters)
        /\ s.pc \in {"ranking", "judging"} => s.candidates \subseteq Hits(Doc, s.filters)
        /\ s.ranked = {} \/ (s.pc = "judging" /\ s.ranked \subseteq s.candidates)
        /\ s.pc # "idle" => s.relaxed = TRUE \/ s.filters = Filters

LaneInv ==
    /\ LaneType
    /\ \A e \in redis : EntryFits(e)
    /\ \A r \in Run : RunFits(run[r])

-----------------------------------------------------------------------------
\* The best of some documents are some of them.
LEMMA TopSubset == \A docs, n : Top(docs, n) \subseteq docs
BY DEF Top

\* What the stores find passes the filters.
LEMMA FoundHits ==
    ASSUME index \in SUBSET Doc, NEW docs, NEW F, Found(docs, F)
    PROVE  docs \subseteq Hits(Doc, F)
BY DEF Found, Hits, Passing

\* A write adds an entry, and leaves others alone.
LEMMA PutFits ==
    ASSUME NEW level, NEW key, NEW value \in SUBSET Doc, Put(level, key, value),
           \A e \in redis : Entry(e) /\ e.value \in SUBSET Doc /\ EntryFits(e),
           level = "recall" =>
              \A F \in SUBSET Filters : key = <<1, F>> => value \subseteq Hits(Doc, F),
           level = "rerank" =>
              \A C \in SUBSET Doc : key = <<1, C>> => value \subseteq C
    PROVE  \A e \in redis' : Entry(e) /\ e.value \in SUBSET Doc /\ EntryFits(e)
<1> DEFINE n == [level |-> level, key |-> key, value |-> value, age |-> 0]
<1>1. \A e \in redis' : e \in redis \/ e = n
  BY DEF Put
<1>2. n.level = level /\ n.key = key /\ n.value = value /\ Entry(n)
  BY DEF Entry
<1> HIDE DEF n
<1>3. EntryFits(n)
  BY <1>2 DEF EntryFits
<1>4. QED
  BY <1>1, <1>2, <1>3

\* What follows a recall fits, when what was recalled does.
LEMMA RecalledFits ==
    ASSUME NEW r \in Run, run \in [Run -> RunState], RunFits(run[r]),
           run[r].pc \in {"recalling", "found"}, NEW docs \in SUBSET Doc,
           run[r].round = 1 => docs \subseteq Hits(Doc, run[r].filters)
    PROVE  Recalled(r, docs) \in RunState /\ RunFits(Recalled(r, docs))
<1> DEFINE s == run[r]
<1>1. s \in RunState
  OBVIOUS
<1>2. CASE s.round = 2
  <2> DEFINE all == s.base \cup docs
  <2>1. all \in SUBSET Doc
    BY <1>1 DEF RunState
  <2>2. \/ Recalled(r, docs) = [s EXCEPT !.pc = "judging", !.found = {}]
        \/ Recalled(r, docs) = [s EXCEPT !.pc = "ranking", !.found = {}, !.candidates = all]
    BY <1>2 DEF Recalled
  <2> HIDE DEF s, all
  <2>3. Recalled(r, docs) \in RunState
    BY <1>1, <2>1, <2>2 DEF RunState
  <2>4. Recalled(r, docs).round = 2
    BY <1>1, <1>2, <2>2 DEF RunState
  <2>5. QED
    BY <2>3, <2>4 DEF RunFits
<1>3. CASE s.round = 1 /\ (Cardinality(docs) >= Enough \/ s.filters = {})
  <2>1. Recalled(r, docs) = [s EXCEPT !.pc = "ranking", !.base = docs,
                                      !.candidates = docs, !.found = {}]
    BY <1>3 DEF Recalled
  <2>2. /\ docs \subseteq Hits(Doc, s.filters) /\ s.ranked = {}
        /\ s.relaxed = TRUE \/ s.filters = Filters
    BY <1>3 DEF RunFits
  <2> HIDE DEF s
  <2>3. QED
    BY <1>1, <1>3, <2>1, <2>2 DEF RunState, RunFits
<1>4. CASE s.round = 1 /\ ~(Cardinality(docs) >= Enough \/ s.filters = {})
  <2>1. Recalled(r, docs) = [s EXCEPT !.pc = "recalling", !.relaxed = TRUE, !.found = {},
                                      !.filters = @ \ {Dropped(@)}]
    BY <1>4 DEF Recalled
  <2> HIDE DEF s
  <2>2. s.filters \ {Dropped(s.filters)} \in SUBSET Filters
    BY <1>1 DEF RunState
  <2>3. s.ranked = {}
    BY <1>4 DEF RunFits, s
  <2>4. TRUE \in BOOLEAN
    OBVIOUS
  <2>5. QED
    BY <1>1, <1>4, <2>1, <2>2, <2>3, <2>4 DEF RunState, RunFits
<1>5. QED
  BY <1>1, <1>2, <1>3, <1>4 DEF RunState

\* One query moves.
LEMMA SetFits ==
    ASSUME LaneInv, NEW r \in Run, NEW s \in RunState, RunFits(s), Set(r, s),
           index' = index, \A e \in redis' : Entry(e) /\ e.value \in SUBSET Doc /\ EntryFits(e)
    PROVE  LaneInv'
<1>1. run' = [run EXCEPT ![r] = s]
  BY DEF Set
<1>2. run' \in [Run -> RunState] /\ \A q \in Run : RunFits(run'[q])
  BY <1>1 DEF LaneInv, LaneType
<1>3. LaneType'
  BY <1>2 DEF LaneInv, LaneType, Entry
<1>4. (\A e \in redis : EntryFits(e))'
  BY DEF EntryFits, Hits, Passing
<1>5. (\A q \in Run : RunFits(run[q]))'
  BY <1>2 DEF RunFits, Hits, Passing
<1>6. QED
  BY <1>3, <1>4, <1>5 DEF LaneInv

-----------------------------------------------------------------------------
\* No query, entry or document is wrong at the start.
LEMMA LaneInit == Init => LaneInv
<1> SUFFICES ASSUME Init PROVE LaneInv
  OBVIOUS
<1>1. Idle \in RunState /\ RunFits(Idle)
  <2>1. FALSE \in BOOLEAN
    OBVIOUS
  <2>2. QED
    BY <2>1 DEF Idle, RunState, RunFits
<1>2. redis = {} /\ index \in SUBSET Doc /\ run = [r \in Run |-> Idle]
  BY DEF Init, CacheInit
<1>3. QED
  BY <1>1, <1>2 DEF LaneInv, LaneType

\* A step of a query.
LEMMA RunStepFits ==
    ASSUME LaneInv, NEW r \in Run, RunStep(r)
    PROVE  LaneInv'
<1> DEFINE s == run[r]
           RestKept == /\ index' = index
                       /\ \A e \in redis' :
                              Entry(e) /\ e.value \in SUBSET Doc /\ EntryFits(e)
<1>1. /\ s \in RunState /\ RunFits(s) /\ run \in [Run -> RunState] /\ index \in SUBSET Doc
      /\ \A e \in redis : Entry(e) /\ e.value \in SUBSET Doc /\ EntryFits(e)
  BY DEF LaneInv, LaneType
<1>2. Idle \in RunState /\ RunFits(Idle)
  <2>1. FALSE \in BOOLEAN
    OBVIOUS
  <2>2. QED
    BY <2>1 DEF Idle, RunState, RunFits
<1>3. CASE Begin(r)
  <2>1. Set(r, [Idle EXCEPT !.pc = "recalling", !.filters = Filters]) /\ RestKept
    BY <1>1, <1>3 DEF Begin, cacheVars
  <2>2. [Idle EXCEPT !.pc = "recalling", !.filters = Filters] \in RunState
        /\ RunFits([Idle EXCEPT !.pc = "recalling", !.filters = Filters])
    BY <1>2 DEF Idle, RunState, RunFits
  <2>3. QED
    BY <2>1, <2>2, SetFits
<1>4. CASE RecallHit(r)
  <2>1. PICK e \in Entries("recall", RecallKey(r)) : Set(r, Recalled(r, e.value))
    BY <1>4 DEF RecallHit
  <2>2. s.pc = "recalling" /\ RestKept
    BY <1>1, <1>4 DEF RecallHit, cacheVars
  <2>3. e \in redis /\ e.level = "recall" /\ e.key = <<s.round, s.filters>>
    BY <2>1 DEF Entries, RecallKey
  <2>4. e.value \in SUBSET Doc /\ (s.round = 1 => e.value \subseteq Hits(Doc, s.filters))
    BY <1>1, <2>3 DEF EntryFits, RunState
  <2>5. Recalled(r, e.value) \in RunState /\ RunFits(Recalled(r, e.value))
    BY <1>1, <2>2, <2>4, RecalledFits
  <2>6. QED
    BY <2>1, <2>2, <2>5, SetFits
<1>5. CASE Search(r)
  <2>1. PICK docs \in SUBSET Doc :
            Found(docs, s.filters) /\ Set(r, [s EXCEPT !.pc = "found", !.found = docs])
    BY <1>5 DEF Search
  <2>2. s.pc = "recalling" /\ RestKept
    BY <1>1, <1>5 DEF Search, cacheVars
  <2>3. docs \subseteq Hits(Doc, s.filters)
    BY <1>1, <2>1, FoundHits
  <2>4. [s EXCEPT !.pc = "found", !.found = docs] \in RunState
        /\ RunFits([s EXCEPT !.pc = "found", !.found = docs])
    <3> HIDE DEF s
    <3>1. QED
      BY <1>1, <2>2, <2>3 DEF RunState, RunFits
  <2>5. QED
    BY <2>1, <2>2, <2>4, SetFits
<1>6. CASE KeepRecall(r)
  <2>1. s.pc = "found" /\ index' = index /\ Set(r, Recalled(r, s.found))
    BY <1>6 DEF KeepRecall
  <2>2. s.found \in SUBSET Doc /\ (s.round = 1 => s.found \subseteq Hits(Doc, s.filters))
    BY <1>1, <2>1 DEF RunState, RunFits
  <2>3. Recalled(r, s.found) \in RunState /\ RunFits(Recalled(r, s.found))
    BY <1>1, <2>1, <2>2, RecalledFits
  <2>4. RestKept
    <3>1. CASE redis' = redis
      BY <1>1, <2>1, <3>1
    <3>2. CASE Put("recall", RecallKey(r), s.found)
      <4>1. \A F \in SUBSET Filters :
                RecallKey(r) = <<1, F>> => s.found \subseteq Hits(Doc, F)
        BY <2>2 DEF RecallKey
      <4>2. QED
        BY <1>1, <2>1, <2>2, <3>2, <4>1, PutFits
    <3>3. QED
      BY <1>6, <3>1, <3>2 DEF KeepRecall
  <2>5. QED
    BY <2>1, <2>3, <2>4, SetFits
<1>7. CASE Refer(r)
  <2>1. PICK d \in index \ s.base : Set(r, [s EXCEPT !.base = @ \cup {d}])
    BY <1>7 DEF Refer
  <2>2. s.pc = "recalling" /\ s.round = 2 /\ RestKept
    BY <1>1, <1>7 DEF Refer, cacheVars
  <2>3. [s EXCEPT !.base = @ \cup {d}] \in RunState
        /\ RunFits([s EXCEPT !.base = @ \cup {d}])
    <3> HIDE DEF s
    <3>1. QED
      BY <1>1, <2>1, <2>2 DEF RunState, RunFits
  <2>4. QED
    BY <2>1, <2>2, <2>3, SetFits
<1>8. CASE ImagesFail(r)
  <2>1. Set(r, Idle) /\ RestKept
    BY <1>1, <1>8 DEF ImagesFail, cacheVars
  <2>2. QED
    BY <1>2, <2>1, SetFits
<1>9. CASE RerankHit(r)
  <2>1. PICK e \in Entries("rerank", RerankKey(r)) :
            Set(r, [s EXCEPT !.pc = "judging", !.ranked = e.value])
    BY <1>9 DEF RerankHit
  <2>2. s.pc = "ranking" /\ RestKept
    BY <1>1, <1>9 DEF RerankHit, cacheVars
  <2>3. e \in redis /\ e.level = "rerank" /\ e.key = <<s.round, s.candidates>>
    BY <2>1 DEF Entries, RerankKey
  <2>4. e.value \in SUBSET Doc /\ (s.round = 1 => e.value \subseteq s.candidates)
    BY <1>1, <2>3 DEF EntryFits, RunState
  <2>5. [s EXCEPT !.pc = "judging", !.ranked = e.value] \in RunState
        /\ RunFits([s EXCEPT !.pc = "judging", !.ranked = e.value])
    <3> HIDE DEF s
    <3>1. QED
      BY <1>1, <2>2, <2>4 DEF RunState, RunFits
  <2>6. QED
    BY <2>1, <2>2, <2>5, SetFits
<1>10. CASE Rerank(r) \/ RerankFallsBack(r)
  <2>1. PICK docs \in SUBSET s.candidates :
            /\ Put("rerank", RerankKey(r), docs)
            /\ Set(r, [s EXCEPT !.pc = "judging", !.ranked = docs])
    BY <1>10, TopSubset DEF Rerank, RerankFallsBack
  <2>2. s.pc = "ranking" /\ index' = index
    BY <1>10 DEF Rerank, RerankFallsBack
  <2>3. docs \in SUBSET Doc
    BY <1>1, <2>1 DEF RunState
  <2>4. \A C \in SUBSET Doc : RerankKey(r) = <<1, C>> => docs \subseteq C
    BY <2>1 DEF RerankKey
  <2>5. RestKept
    BY <1>1, <2>1, <2>2, <2>3, <2>4, PutFits
  <2>6. [s EXCEPT !.pc = "judging", !.ranked = docs] \in RunState
        /\ RunFits([s EXCEPT !.pc = "judging", !.ranked = docs])
    <3> HIDE DEF s
    <3>1. QED
      BY <1>1, <2>1, <2>2, <2>3 DEF RunState, RunFits
  <2>7. QED
    BY <2>1, <2>5, <2>6, SetFits
<1>11. CASE Finish(r)
  <2>1. Set(r, Idle) /\ RestKept
    BY <1>1, <1>11 DEF Finish, cacheVars
  <2>2. QED
    BY <1>2, <2>1, SetFits
<1>12. CASE Retry(r)
  <2>1. Set(r, [s EXCEPT !.pc = "recalling", !.round = 2, !.filters = Filters]) /\ RestKept
    BY <1>1, <1>12 DEF Retry, cacheVars
  <2>2. [s EXCEPT !.pc = "recalling", !.round = 2, !.filters = Filters] \in RunState
        /\ RunFits([s EXCEPT !.pc = "recalling", !.round = 2, !.filters = Filters])
    <3> DEFINE t == [s EXCEPT !.pc = "recalling", !.round = 2, !.filters = Filters]
    <3> HIDE DEF s
    <3>1. t \in RunState /\ t.round = 2
      BY <1>1 DEF RunState
    <3> HIDE DEF t
    <3>2. t \in RunState /\ RunFits(t)
      BY <3>1 DEF RunFits
    <3>3. QED
      BY <3>2 DEF t
  <2>3. QED
    BY <2>1, <2>2, SetFits
<1>13. QED
  BY <1>3, <1>4, <1>5, <1>6, <1>7, <1>8, <1>9, <1>10, <1>11, <1>12 DEF RunStep

\* Time passes: entries and queries are older, and nothing else.
LEMMA TickFits ==
    ASSUME LaneInv, Tick
    PROVE  LaneInv'
<1>1. \A e \in redis' : \E x \in redis : e = [x EXCEPT !.age = @ + 1]
  BY DEF Tick, Age, Older
<1>2. ASSUME NEW e \in redis' PROVE Entry(e) /\ e.value \in SUBSET Doc /\ EntryFits(e)
  <2>1. PICK x \in redis : e = [x EXCEPT !.age = @ + 1]
    BY <1>1
  <2>2. Entry(x) /\ x.value \in SUBSET Doc /\ EntryFits(x)
    BY DEF LaneInv, LaneType
  <2>3. /\ e = [level |-> x.level, key |-> x.key, value |-> x.value, age |-> x.age + 1]
    BY <2>1, <2>2 DEF Entry
  <2>4. e.level = x.level /\ e.key = x.key /\ e.value = x.value /\ Entry(e)
    BY <2>3 DEF Entry
  <2>5. QED
    BY <2>2, <2>4 DEF EntryFits
<1>3. ASSUME NEW r \in Run PROVE run'[r] \in RunState /\ RunFits(run'[r])
  <2>1. run[r] \in RunState /\ RunFits(run[r])
    BY DEF LaneInv, LaneType
  <2>2. run'[r] = run[r] \/ run'[r] = [run[r] EXCEPT !.age = @ + 1]
    BY DEF Tick
  <2>3. [run[r] EXCEPT !.age = @ + 1] \in RunState
        /\ RunFits([run[r] EXCEPT !.age = @ + 1])
    BY <2>1 DEF RunState, RunFits
  <2>4. QED
    BY <2>1, <2>2, <2>3
<1>4. LaneType'
  <2>1. run' \in [Run -> RunState]
    BY <1>3 DEF Tick
  <2>2. index' \in SUBSET Doc
    BY DEF Tick, LaneInv, LaneType
  <2>3. QED
    BY <1>2, <2>1, <2>2 DEF LaneType, Entry
<1>5. (\A e \in redis : EntryFits(e))'
  BY <1>2 DEF EntryFits, Hits, Passing
<1>6. (\A r \in Run : RunFits(run[r]))'
  BY <1>3 DEF RunFits, Hits, Passing
<1>7. QED
  BY <1>4, <1>5, <1>6 DEF LaneInv

\* Every step keeps the invariant.
LEMMA LaneStep == LaneInv /\ [Next]_vars => LaneInv'
<1>1. ASSUME LaneInv, NEW r \in Run, RunStep(r) PROVE LaneInv'
  BY <1>1, RunStepFits
<1>2. ASSUME LaneInv, Tick PROVE LaneInv'
  BY <1>2, TickFits
<1>3. ASSUME LaneInv, redis' = redis, run' = run, index' \in SUBSET Doc PROVE LaneInv'
  BY <1>3 DEF LaneInv, LaneType, Entry, EntryFits, RunFits, Hits, Passing
<1>4. ASSUME LaneInv, IndexChanges PROVE LaneInv'
  <2>1. redis' = redis /\ run' = run /\ index' \in SUBSET Doc
    BY <1>4 DEF IndexChanges, cacheVars, LaneInv, LaneType
  <2>2. QED
    BY <1>3, <1>4, <2>1
<1>5. ASSUME LaneInv, UNCHANGED vars PROVE LaneInv'
  <2>1. redis' = redis /\ run' = run /\ index' \in SUBSET Doc
    BY <1>5 DEF vars, LaneInv, LaneType
  <2>2. QED
    BY <1>3, <1>5, <2>1
<1>6. QED
  BY <1>1, <1>2, <1>4, <1>5 DEF Next

\* Every reachable state of the lane satisfies the invariant.
THEOREM LaneInvariance == Spec => []LaneInv
<1>1. Init => LaneInv
  BY LaneInit
<1>2. LaneInv /\ [Next]_vars => LaneInv'
  BY LaneStep
<1>3. QED
  BY <1>1, <1>2, PTL DEF Spec

\* No first round ranks a document that the filters it reports exclude, unless
\* it is one of the pages the visual recall finds without them, and the filters
\* it reports are those of the question unless it says otherwise
\* (fast_lane.py:423, visual_recall.py:98).
THEOREM FiltersAlwaysKept == Spec => []FiltersKept
<1>1. LaneInv => FiltersKept
  <2>1. SUFFICES ASSUME LaneInv, NEW r \in Run, run[r].round = 1,
                        run[r].pc \in {"ranking", "judging"}
                 PROVE  /\ run[r].ranked \cup run[r].candidates
                              \subseteq Hits(Doc, run[r].filters)
                        /\ run[r].relaxed = TRUE \/ run[r].filters = Filters
    BY Zenon DEF FiltersKept
  <2>2. RunFits(run[r])
    BY <2>1 DEF LaneInv
  <2>3. QED
    BY <2>1, <2>2 DEF RunFits
<1>2. QED
  BY <1>1, LaneInvariance, PTL

-----------------------------------------------------------------------------
(***************************************************************************)
(* The traces of a change are bounded.  Everything that is made of the     *)
(* stores has an age, and is right as soon as nothing has happened for     *)
(* longer than that: a search as long as its query runs, an entry of the   *)
(* recall by the length of a query more than its own age, a query that may *)
(* have used entries by the longest life of one more than that.            *)
(***************************************************************************)
\* The longest life of an entry.
Span == IF TTL["recall"] > TTL["rerank"] THEN TTL["recall"] ELSE TTL["rerank"]

\* After k steps of the relaxation nothing but too little has been found.
RelaxedTo(k, docs) ==
    /\ k \in 0..Len(Relaxing)
    /\ \A j \in 0..(k - 1) : Kept(j) # {} /\ Cardinality(Hits(docs, Kept(j))) < Enough

\* An entry that is younger than the last change, by the length of a query
\* when it holds what was found, is what the stores that hold docs give.
EntryRight(e, docs, q) ==
    /\ e.age \in Nat /\ e.age < TTL[e.level]
    /\ e.level = "recall" /\ q > e.age + MaxRun =>
          \A n \in {1, 2}, F \in SUBSET Filters :
              e.key = <<n, F>> => e.value = Hits(docs, F)
    /\ e.level = "rerank" /\ q > e.age =>
          \A n \in {1, 2}, C \in SUBSET Doc :
              e.key = <<n, C>> => e.value = Top(C, TopK[n])

\* Where a query is that has met nothing but right entries.
RunRight(s, docs) ==
    /\ s.round = 1 =>
        /\ s.pc \in {"recalling", "found"} =>
              \E k \in Nat : s.filters = Kept(k) /\ RelaxedTo(k, docs)
        /\ s.pc \in {"ranking", "judging"} =>
              s.base = First(docs) /\ s.candidates = First(docs)
        /\ s.pc = "judging" => s.ranked = Top(First(docs), TopK[1])
    /\ s.round = 2 =>
        /\ s.pc \in {"recalling", "found"} =>
              /\ s.filters = Filters /\ s.candidates = First(docs)
              /\ First(docs) \subseteq s.base /\ s.base \subseteq docs
              /\ s.ranked = Top(First(docs), TopK[1])
        /\ s.pc = "ranking" =>
              \E more \in SUBSET docs :
                  s.candidates = First(docs) \cup Hits(docs, Filters) \cup more
        /\ s.pc = "judging" => s.ranked \in Right(docs)

RunSettles(s, docs, q) ==
    s.pc # "idle" =>
        /\ s.age <= MaxRun
        /\ s.pc = "found" /\ q > s.age => s.found = Hits(docs, s.filters)
        /\ q >= Span + MaxRun + s.age => RunRight(s, docs)

SettleInv ==
    /\ LaneInv
    /\ quiet \in Nat
    /\ \A e \in redis : EntryRight(e, index, quiet)
    /\ \A r \in Run : RunSettles(run[r], index, quiet)

-----------------------------------------------------------------------------
\* What the lives of the entries amount to.
LEMMA Lives ==
    /\ TTL["recall"] \in Nat \ {0} /\ TTL["rerank"] \in Nat \ {0}
    /\ Span \in Nat \ {0} /\ TTL["recall"] <= Span /\ TTL["rerank"] <= Span
    /\ MaxRun \in Nat \ {0} /\ RetrievalLag = Span + 2 * MaxRun - 1
BY CacheAssumption, FastLaneAssumption DEF Span, RetrievalLag

\* Some number of a set of numbers is the least.
LEMMA Least ==
    ASSUME NEW S \in SUBSET Nat, S # {}
    PROVE  \E m \in S : \A k \in S : m <= k
<1> DEFINE R == OpToRel(<, Nat)
<1>1. IsWellFoundedOn(R, Nat)
  BY NatLessThanWellFounded, Zenon
<1>2. \A x, y \in Nat : x < y => <<x, y>> \in R
  BY DEF OpToRel
<1> HIDE DEF R
<1>3. PICK x \in S : \A y \in S : ~ (<<y, x>> \in R)
  BY <1>1, WFMin
<1>4. ASSUME NEW y \in S PROVE x <= y
  <2>1. ~(y < x)
    BY <1>2, <1>3
  <2>2. QED
    BY <2>1
<1>5. QED
  BY <1>4

\* Dropping the next filter is going on to the next k that makes a change.
LEMMA DroppedIsNext ==
    ASSUME NEW k \in 0..Len(Relaxing), Kept(k) # {}
    PROVE  \E i \in Nat :
              /\ k < i /\ i <= Len(Relaxing)
              /\ Kept(k) \ {Dropped(Kept(k))} = Kept(i)
              /\ \A j \in k..(i - 1) : Kept(j) = Kept(k)
<1> DEFINE S == {i \in DOMAIN Relaxing : Relaxing[i] \in Kept(k)}
           D == Dropped(Kept(k))
<1>1. DOMAIN Relaxing = 1..Len(Relaxing) /\ Len(Relaxing) \in Nat
  BY LenProperties, FastLaneAssumption
<1>2. S # {} /\ S \in SUBSET Nat
  <2>1. PICK f \in Kept(k) : TRUE
    OBVIOUS
  <2>2. PICK i \in DOMAIN Relaxing : Relaxing[i] = f
    BY <2>1, FastLaneAssumption DEF Kept
  <2>3. QED
    BY <1>1, <2>1, <2>2
<1>3. PICK i \in S : \A j \in S : i <= j
  BY <1>2, Least
<1>4. i \in 1..Len(Relaxing) /\ Relaxing[i] \in Kept(k)
  BY <1>1, <1>3
<1>5. \A j \in 1..(i - 1) : Relaxing[j] \notin Kept(k)
  BY <1>1, <1>3, <1>4
<1>6. k < i
  BY <1>4 DEF Kept
<1>7. D = Relaxing[i]
  <2> DEFINE P(f) == \E n \in DOMAIN Relaxing :
                        Relaxing[n] = f /\ \A j \in 1..(n - 1) : Relaxing[j] \notin Kept(k)
  <2>1. P(Relaxing[i])
    BY <1>3, <1>5
  <2>2. D \in Kept(k) /\ P(D)
    BY <1>4, <2>1 DEF Dropped
  <2> HIDE DEF D
  <2>3. PICK n \in DOMAIN Relaxing :
            Relaxing[n] = D /\ \A j \in 1..(n - 1) : Relaxing[j] \notin Kept(k)
    BY <2>2
  <2>4. n \in 1..Len(Relaxing) /\ ~(n < i) /\ ~(i < n)
    BY <1>1, <1>4, <1>5, <2>2, <2>3
  <2>5. n = i
    BY <1>4, <2>4
  <2>6. QED
    BY <2>3, <2>5
<1> HIDE DEF S, D
<1>8. \A j \in k..(i - 1) : Kept(j) = Kept(k)
  <2> TAKE j \in k..(i - 1)
  <2>1. Kept(j) \subseteq Kept(k)
    BY <1>4 DEF Kept
  <2>2. ASSUME NEW f \in Kept(k), NEW n \in 1..j PROVE Relaxing[n] # f
    BY <1>4, <1>5, <2>2
  <2>3. Kept(k) \subseteq Kept(j)
    BY <2>2 DEF Kept
  <2>4. QED
    BY <2>1, <2>3
<1>9. Kept(k) \ {Relaxing[i]} = Kept(i)
  <2>1. Kept(i) \subseteq Kept(k) \ {Relaxing[i]}
    BY <1>4, <1>6 DEF Kept
  <2>2. ASSUME NEW f \in Kept(k), f # Relaxing[i], NEW n \in 1..i PROVE Relaxing[n] # f
    <3>1. n = i \/ n \in 1..(i - 1)
      BY <1>4
    <3>2. QED
      BY <1>5, <2>2, <3>1
  <2>3. Kept(k) \ {Relaxing[i]} \subseteq Kept(i)
    BY <2>2 DEF Kept
  <2>4. QED
    BY <2>1, <2>3
<1>10. QED
  BY <1>4, <1>6, <1>7, <1>8, <1>9 DEF D

\* What passes can be counted.
LEMMA HitsCount ==
    ASSUME NEW docs \in SUBSET Doc, NEW F
    PROVE  Hits(docs, F) \subseteq docs /\ Cardinality(Hits(docs, F)) \in Nat
<1>1. Hits(docs, F) \subseteq docs
  BY DEF Hits, Passing
<1>2. IsFiniteSet(Hits(docs, F))
  BY <1>1, FS_Subset, FastLaneAssumption
<1>3. QED
  BY <1>1, <1>2, FS_CardinalityType

\* The least k that finds enough is the only one.
LEMMA FirstIs ==
    ASSUME NEW docs \in SUBSET Doc, NEW k, RelaxedTo(k, docs),
           Cardinality(Hits(docs, Kept(k))) >= Enough \/ Kept(k) = {}
    PROVE  First(docs) = Hits(docs, Kept(k))
<1> DEFINE P(m) == /\ \/ Cardinality(Hits(docs, Kept(m))) >= Enough
                      \/ Kept(m) = {}
                   /\ \A j \in 0..(m - 1) :
                         Kept(j) # {} /\ Cardinality(Hits(docs, Kept(j))) < Enough
           c == CHOOSE m \in 0..Len(Relaxing) : P(m)
<1>1. Len(Relaxing) \in Nat /\ k \in 0..Len(Relaxing) /\ P(k)
  BY LenProperties, FastLaneAssumption DEF RelaxedTo
<1>2. c \in 0..Len(Relaxing) /\ P(c)
  BY <1>1
<1>3. ASSUME NEW m \in 0..Len(Relaxing), NEW n \in 0..Len(Relaxing), P(m), P(n), m < n
      PROVE  FALSE
  <2>1. m \in 0..(n - 1)
    BY <1>1, <1>3
  <2>2. Kept(m) # {} /\ Cardinality(Hits(docs, Kept(m))) < Enough
    BY <1>3, <2>1
  <2>3. Cardinality(Hits(docs, Kept(m))) >= Enough
    BY <1>3, <2>2
  <2>4. Cardinality(Hits(docs, Kept(m))) \in Nat /\ Enough \in Nat
    BY HitsCount, FastLaneAssumption
  <2>5. QED
    BY <2>2, <2>3, <2>4
<1>4. First(docs) = Hits(docs, Kept(c))
  BY DEF First
<1> HIDE DEF P, c
<1>5. c = k
  <2>1. ~(c < k) /\ ~(k < c)
    BY <1>1, <1>2, <1>3
  <2>2. QED
    BY <1>1, <1>2, <2>1
<1>6. QED
  BY <1>4, <1>5

LEMMA FirstSubset == ASSUME NEW docs PROVE First(docs) \subseteq docs
BY DEF First, Hits, Passing

\* What follows the recall of a query that has met nothing but right entries.
LEMMA RecalledRight ==
    ASSUME NEW r \in Run, run[r] \in RunState, NEW docs \in SUBSET Doc,
           run[r].pc \in {"recalling", "found"}, RunRight(run[r], docs)
    PROVE  RunRight(Recalled(r, Hits(docs, run[r].filters)), docs)
<1> DEFINE s == run[r]
           found == Hits(docs, s.filters)
           n == Recalled(r, found)
<1>1. s \in RunState /\ s.pc \in {"recalling", "found"} /\ RunRight(s, docs)
  OBVIOUS
<1>2. CASE s.round = 2
  <2> DEFINE all == s.base \cup found
  <2>1. /\ s.filters = Filters /\ s.candidates = First(docs)
        /\ First(docs) \subseteq s.base /\ s.base \subseteq docs
        /\ s.ranked = Top(First(docs), TopK[1])
    BY <1>1, <1>2 DEF RunRight
  <2>2. all = First(docs) \cup Hits(docs, Filters) \cup s.base
    BY <2>1
  <2>3. CASE all \subseteq s.candidates
    <3>1. n = [s EXCEPT !.pc = "judging", !.found = {}]
      BY <1>2, <2>3 DEF Recalled
    <3> HIDE DEF s, n
    <3>2. n.round = 2 /\ n.pc = "judging" /\ n.ranked = Top(First(docs), TopK[1])
      BY <1>1, <1>2, <2>1, <3>1 DEF RunState
    <3>3. n.ranked \in Right(docs)
      BY <3>2 DEF Right
    <3>4. QED
      BY <3>2, <3>3 DEF RunRight, n, s
  <2>4. CASE ~(all \subseteq s.candidates)
    <3>1. n = [s EXCEPT !.pc = "ranking", !.found = {}, !.candidates = all]
      BY <1>2, <2>4 DEF Recalled
    <3> HIDE DEF s, n, all
    <3>2. n.round = 2 /\ n.pc = "ranking" /\ n.candidates = all
      BY <1>1, <1>2, <3>1 DEF RunState
    <3>3. \E more \in SUBSET docs :
             n.candidates = First(docs) \cup Hits(docs, Filters) \cup more
      BY <2>1, <2>2, <3>2
    <3>4. QED
      BY <3>2, <3>3 DEF RunRight, n, s
  <2>5. QED
    BY <2>3, <2>4
<1>3. CASE s.round = 1
  <2>1. PICK k \in Nat : s.filters = Kept(k) /\ RelaxedTo(k, docs)
    BY <1>1, <1>3 DEF RunRight
  <2>2. k \in 0..Len(Relaxing) /\ Len(Relaxing) \in Nat
    BY <2>1, LenProperties, FastLaneAssumption DEF RelaxedTo
  <2>3. CASE Cardinality(found) >= Enough \/ s.filters = {}
    <3>1. n = [s EXCEPT !.pc = "ranking", !.base = found, !.candidates = found, !.found = {}]
      BY <1>3, <2>3 DEF Recalled
    <3>2. found = First(docs)
      BY <2>1, <2>3, FirstIs
    <3> HIDE DEF s, n, found
    <3>3. n.round = 1 /\ n.pc = "ranking" /\ n.base = found /\ n.candidates = found
      BY <1>1, <1>3, <3>1 DEF RunState
    <3>4. RunRight(n, docs)
      BY <3>2, <3>3 DEF RunRight
    <3>5. QED
      BY <3>4 DEF n, found, s
  <2>4. CASE ~(Cardinality(found) >= Enough \/ s.filters = {})
    <3>1. n = [s EXCEPT !.pc = "recalling", !.relaxed = TRUE, !.found = {},
                        !.filters = @ \ {Dropped(@)}]
      BY <1>3, <2>4 DEF Recalled
    <3>2. PICK i \in Nat : /\ k < i /\ i <= Len(Relaxing)
                           /\ Kept(k) \ {Dropped(Kept(k))} = Kept(i)
                           /\ \A j \in k..(i - 1) : Kept(j) = Kept(k)
      BY <2>1, <2>2, <2>4, DroppedIsNext
    <3>3. Kept(k) # {} /\ Cardinality(Hits(docs, Kept(k))) < Enough
      <4>1. Cardinality(Hits(docs, Kept(k))) \in Nat /\ Enough \in Nat
        BY HitsCount, FastLaneAssumption
      <4>2. Kept(k) # {} /\ ~(Cardinality(Hits(docs, Kept(k))) >= Enough)
        BY <2>1, <2>4
      <4>3. QED
        BY <4>1, <4>2
    <3>4. RelaxedTo(i, docs)
      <4>1. ASSUME NEW j \in 0..(i - 1)
            PROVE  Kept(j) # {} /\ Cardinality(Hits(docs, Kept(j))) < Enough
        <5>1. j \in 0..(k - 1) \/ j \in k..(i - 1)
          BY <2>2, <3>2
        <5>2. QED
          BY <2>1, <3>2, <3>3, <5>1 DEF RelaxedTo
      <4>2. QED
        BY <2>2, <3>2, <4>1 DEF RelaxedTo
    <3> HIDE DEF s, n
    <3>5. n.round = 1 /\ n.pc = "recalling" /\ n.filters = Kept(i)
      BY <1>1, <1>3, <2>1, <3>1, <3>2 DEF RunState
    <3>6. RunRight(n, docs)
      BY <3>2, <3>4, <3>5 DEF RunRight
    <3>7. QED
      BY <3>6 DEF n, found, s
  <2>5. QED
    BY <2>3, <2>4
<1>4. QED
  BY <1>1, <1>2, <1>3 DEF RunState

-----------------------------------------------------------------------------
\* After a change nothing is said to be right.
LEMMA ChangeSettles ==
    ASSUME LaneInv', quiet' = 0,
           \A e \in redis' : e.age \in Nat /\ e.age < TTL[e.level],
           \A r \in Run : run'[r].pc # "idle" => run'[r].age <= MaxRun
    PROVE  SettleInv'
<1>1. \A r \in Run : run'[r].age \in Nat
  BY DEF LaneInv, LaneType, RunState
<1>2. \A e \in redis' : EntryRight(e, index', quiet')
  BY Lives DEF EntryRight
<1>3. \A r \in Run : RunSettles(run'[r], index', quiet')
  BY <1>1, Lives DEF RunSettles
<1>4. QED
  BY <1>2, <1>3 DEF SettleInv, EntryRight, RunSettles, RunRight, RelaxedTo, Right, First,
                    Kept, Hits, Passing, Top

\* The step of one query while nothing happens to the stores.
LEMMA CalmSettles ==
    ASSUME SettleInv, LaneInv', NEW r \in Run, NEW s, Set(r, s), Calm, index' = index,
           \A e \in redis' : EntryRight(e, index, quiet),
           RunSettles(s, index, quiet)
    PROVE  SettleInv'
<1>1. quiet' = quiet /\ quiet \in Nat
  BY DEF Calm, SettleInv
<1>2. \A q \in Run : RunSettles(run'[q], index, quiet)
  BY DEF Set, SettleInv, LaneInv, LaneType
<1>3. \A e \in redis' : EntryRight(e, index', quiet')
  BY <1>1
<1>4. \A q \in Run : RunSettles(run'[q], index', quiet')
  BY <1>1, <1>2
<1>5. QED
  BY <1>1, <1>3, <1>4 DEF SettleInv, EntryRight, RunSettles, RunRight, RelaxedTo, Right, First,
                    Kept, Hits, Passing, Top

\* The step of one query while something does.
LEMMA EventSettles ==
    ASSUME SettleInv, LaneInv', NEW r \in Run, NEW s, Set(r, s), Event,
           \A e \in redis' : e.age \in Nat /\ e.age < TTL[e.level],
           s.pc # "idle" => s.age <= MaxRun
    PROVE  SettleInv'
<1>1. quiet' = 0
  BY DEF Event
<1>2. \A q \in Run : run'[q].pc # "idle" => run'[q].age <= MaxRun
  BY DEF Set, SettleInv, LaneInv, LaneType, RunSettles
<1>3. QED
  BY <1>1, <1>2, ChangeSettles

\* A write, of what is right or will not be said to be.
LEMMA PutSettles ==
    ASSUME SettleInv, NEW level \in {"recall", "rerank"}, NEW key, NEW value,
           Put(level, key, value)
    PROVE  /\ \A e \in redis' : e.age \in Nat /\ e.age < TTL[e.level]
           /\ (/\ level = "recall" /\ quiet > MaxRun =>
                     \A n \in {1, 2}, F \in SUBSET Filters :
                         key = <<n, F>> => value = Hits(index, F)
               /\ level = "rerank" /\ quiet > 0 =>
                     \A n \in {1, 2}, C \in SUBSET Doc :
                         key = <<n, C>> => value = Top(C, TopK[n]))
              => \A e \in redis' : EntryRight(e, index, quiet)
<1> DEFINE m == [level |-> level, key |-> key, value |-> value, age |-> 0]
<1>1. \A e \in redis' : e \in redis \/ e = m
  BY DEF Put
<1>2. m.level = level /\ m.key = key /\ m.value = value /\ m.age = 0
  OBVIOUS
<1> HIDE DEF m
<1>3. m.age \in Nat /\ m.age < TTL[m.level] /\ m.age + MaxRun = MaxRun
  BY <1>2, Lives
<1>4. \A e \in redis : EntryRight(e, index, quiet)
  BY DEF SettleInv
<1>5. \A e \in redis' : e.age \in Nat /\ e.age < TTL[e.level]
  BY <1>1, <1>3, <1>4 DEF EntryRight
<1>6. ASSUME level = "recall" /\ quiet > MaxRun =>
                 \A n \in {1, 2}, F \in SUBSET Filters :
                     key = <<n, F>> => value = Hits(index, F),
             level = "rerank" /\ quiet > 0 =>
                 \A n \in {1, 2}, C \in SUBSET Doc :
                     key = <<n, C>> => value = Top(C, TopK[n])
      PROVE  EntryRight(m, index, quiet)
  BY <1>2, <1>3, <1>6 DEF EntryRight
<1>7. QED
  BY <1>1, <1>4, <1>5, <1>6

\* A query begins with all filters, when none has been dropped.
LEMMA BeginSettles ==
    ASSUME SettleInv, LaneInv', NEW r \in Run, Begin(r)
    PROVE  SettleInv'
<1> DEFINE s == [Idle EXCEPT !.pc = "recalling", !.filters = Filters]
<1>1. Set(r, s) /\ Calm /\ index' = index /\ redis' = redis
  BY DEF Begin, cacheVars
<1>2. s.pc = "recalling" /\ s.round = 1 /\ s.filters = Filters /\ s.age = 0
  BY DEF Idle
<1> HIDE DEF s
<1>3. Kept(0) = Filters /\ RelaxedTo(0, index)
  BY LenProperties, FastLaneAssumption DEF Kept, RelaxedTo
<1>4. RunRight(s, index)
  BY <1>2, <1>3 DEF RunRight
<1>5. RunSettles(s, index, quiet)
  BY <1>2, <1>4, Lives DEF RunSettles
<1>6. QED
  BY <1>1, <1>5, CalmSettles DEF SettleInv

\* An entry of the recall is used.
LEMMA RecallHitSettles ==
    ASSUME SettleInv, LaneInv', NEW r \in Run, RecallHit(r)
    PROVE  SettleInv'
<1> DEFINE s == run[r]
<1>1. PICK e \in Entries("recall", RecallKey(r)) : Set(r, Recalled(r, e.value))
  BY DEF RecallHit
<1> DEFINE n == Recalled(r, e.value)
<1>2. s.pc = "recalling" /\ Calm /\ index' = index /\ redis' = redis
  BY DEF RecallHit, cacheVars
<1>3. /\ s \in RunState /\ index \in SUBSET Doc /\ quiet \in Nat
      /\ s.age \in Nat /\ s.age <= MaxRun /\ s.filters \in SUBSET Filters /\ s.round \in {1, 2}
  BY <1>2 DEF SettleInv, LaneInv, LaneType, RunState, RunSettles
<1>4. e \in redis /\ e.level = "recall" /\ e.key = <<s.round, s.filters>>
  BY <1>1 DEF Entries, RecallKey
<1>5. n.age = s.age /\ n.pc # "found"
  BY <1>2, <1>3 DEF Recalled, RunState
<1>6. ASSUME quiet >= Span + MaxRun + s.age PROVE RunRight(n, index)
  <2>1. EntryRight(e, index, quiet) /\ e.age \in Nat /\ e.age < TTL["recall"]
    BY <1>4 DEF SettleInv, EntryRight
  <2>2. quiet > e.age + MaxRun
    BY <1>3, <1>6, <2>1, Lives
  <2>3. e.value = Hits(index, s.filters)
    BY <1>3, <1>4, <2>1, <2>2 DEF EntryRight
  <2>4. RunRight(s, index)
    BY <1>2, <1>6 DEF SettleInv, RunSettles
  <2>5. QED
    BY <1>2, <1>3, <2>3, <2>4, RecalledRight
<1> HIDE DEF n
<1>7. RunSettles(n, index, quiet)
  BY <1>3, <1>5, <1>6 DEF RunSettles
<1>8. QED
  BY <1>1, <1>2, <1>7, CalmSettles DEF SettleInv, n

\* The stores are searched.
LEMMA SearchSettles ==
    ASSUME SettleInv, LaneInv', NEW r \in Run, Search(r)
    PROVE  SettleInv'
<1> DEFINE s == run[r]
<1>1. PICK docs \in SUBSET Doc :
          Found(docs, s.filters) /\ Set(r, [s EXCEPT !.pc = "found", !.found = docs])
  BY DEF Search
<1> DEFINE n == [s EXCEPT !.pc = "found", !.found = docs]
<1>2. s.pc = "recalling" /\ index' = index /\ redis' = redis
  BY DEF Search, cacheVars
<1>3. s \in RunState /\ s.age <= MaxRun /\ RunSettles(s, index, quiet)
  BY <1>2 DEF SettleInv, LaneInv, LaneType, RunSettles
<1> HIDE DEF s
<1>4. /\ n.pc = "found" /\ n.found = docs /\ n.age = s.age /\ n.filters = s.filters
      /\ n.round = s.round /\ n.candidates = s.candidates /\ n.base = s.base
      /\ n.ranked = s.ranked
  BY <1>3 DEF RunState
<1>5. Set(r, n)
  BY <1>1
<1> HIDE DEF n
<1>6. CASE docs = Hits(index, s.filters) /\ Calm
  <2>1. RunRight(s, index) => RunRight(n, index)
    BY <1>2, <1>4 DEF RunRight
  <2>2. RunSettles(n, index, quiet)
    BY <1>2, <1>3, <1>4, <1>6, <2>1 DEF RunSettles
  <2>3. QED
    BY <1>2, <1>5, <1>6, <2>2, CalmSettles DEF SettleInv
<1>7. CASE Event
  <2>1. \A e \in redis' : e.age \in Nat /\ e.age < TTL[e.level]
    BY <1>2 DEF SettleInv, EntryRight
  <2>2. QED
    BY <1>3, <1>4, <1>5, <1>7, <2>1, EventSettles
<1>8. QED
  BY <1>1, <1>6, <1>7 DEF Found

\* What was found is kept, and used.
LEMMA KeepRecallSettles ==
    ASSUME SettleInv, LaneInv', NEW r \in Run, KeepRecall(r)
    PROVE  SettleInv'
<1> DEFINE s == run[r]
           n == Recalled(r, s.found)
<1>1. s.pc = "found" /\ index' = index /\ Set(r, n)
  BY DEF KeepRecall
<1>2. /\ s \in RunState /\ index \in SUBSET Doc /\ quiet \in Nat /\ s.found \in SUBSET Doc
      /\ s.age \in Nat /\ s.age <= MaxRun /\ s.filters \in SUBSET Filters /\ s.round \in {1, 2}
      /\ quiet > s.age => s.found = Hits(index, s.filters)
  BY <1>1 DEF SettleInv, LaneInv, LaneType, RunState, RunSettles
<1>3. n.age = s.age /\ n.pc # "found"
  BY <1>1, <1>2 DEF Recalled, RunState
<1>4. ASSUME quiet >= Span + MaxRun + s.age PROVE RunRight(n, index)
  <2>1. quiet > s.age
    BY <1>2, <1>4, Lives
  <2>2. RunRight(s, index)
    BY <1>1, <1>4 DEF SettleInv, RunSettles
  <2>3. QED
    BY <1>1, <1>2, <2>1, <2>2, RecalledRight
<1> HIDE DEF n
<1>5. RunSettles(n, index, quiet)
  BY <1>2, <1>3, <1>4 DEF RunSettles
<1>6. CASE Put("recall", RecallKey(r), s.found) /\ Calm
  <2>1. ASSUME quiet > MaxRun, NEW i \in {1, 2}, NEW F \in SUBSET Filters,
               RecallKey(r) = <<i, F>>
        PROVE  s.found = Hits(index, F)
    <3>1. quiet > s.age /\ MaxRun \in Nat
      BY <1>2, <2>1, Lives
    <3>2. F = s.filters
      BY <2>1 DEF RecallKey
    <3>3. QED
      BY <1>2, <3>1, <3>2
  <2> HIDE DEF s
  <2>2. \A e \in redis' : EntryRight(e, index, quiet)
    BY <1>6, <2>1, PutSettles
  <2>3. QED
    BY <1>1, <1>5, <1>6, <2>2, CalmSettles
<1>7. CASE redis' = redis /\ Event
  <2>1. \A e \in redis' : e.age \in Nat /\ e.age < TTL[e.level]
    BY <1>7 DEF SettleInv, EntryRight
  <2>2. QED
    BY <1>1, <1>2, <1>3, <1>7, <2>1, EventSettles
<1>8. QED
  BY <1>6, <1>7 DEF KeepRecall

\* What a query refers to is in the stores; its second round begins with
\* what its first has found.
LEMMA OnwardSettles ==
    ASSUME SettleInv, LaneInv', NEW r \in Run, Refer(r) \/ Retry(r)
    PROVE  SettleInv'
<1> DEFINE s == run[r]
<1>1. s \in RunState /\ RunSettles(s, index, quiet) /\ index' = index /\ redis' = redis /\ Calm
  BY DEF SettleInv, LaneInv, LaneType, Refer, Retry, cacheVars
<1>2. PICK n : Set(r, n) /\ n.pc = "recalling" /\ n.age = s.age /\ s.pc # "idle"
               /\ (RunRight(s, index) => RunRight(n, index))
  <2>1. CASE Refer(r)
    <3>1. PICK d \in index \ s.base : Set(r, [s EXCEPT !.base = @ \cup {d}])
      BY <2>1 DEF Refer
    <3> DEFINE n == [s EXCEPT !.base = @ \cup {d}]
    <3>2. s.pc = "recalling" /\ s.round = 2
      BY <2>1 DEF Refer
    <3> HIDE DEF s
    <3>3. /\ n.pc = "recalling" /\ n.round = 2 /\ n.age = s.age /\ n.filters = s.filters
          /\ n.candidates = s.candidates /\ n.ranked = s.ranked /\ n.base = s.base \cup {d}
      BY <1>1, <3>2 DEF RunState
    <3>4. Set(r, n)
      BY <3>1
    <3> HIDE DEF n
    <3>5. RunRight(s, index) => RunRight(n, index)
      BY <3>1, <3>2, <3>3 DEF RunRight
    <3>6. QED
      BY <3>2, <3>3, <3>4, <3>5
  <2>2. CASE Retry(r)
    <3> DEFINE n == [s EXCEPT !.pc = "recalling", !.round = 2, !.filters = Filters]
    <3>1. s.pc = "judging" /\ s.round = 1 /\ Set(r, n)
      BY <2>2 DEF Retry
    <3> HIDE DEF s
    <3>2. /\ n.pc = "recalling" /\ n.round = 2 /\ n.age = s.age /\ n.filters = Filters
          /\ n.candidates = s.candidates /\ n.ranked = s.ranked /\ n.base = s.base
      BY <1>1 DEF RunState
    <3> HIDE DEF n
    <3>3. First(index) \subseteq index
      BY FirstSubset
    <3>4. RunRight(s, index) => RunRight(n, index)
      BY <3>1, <3>2, <3>3 DEF RunRight
    <3>5. QED
      BY <3>1, <3>2, <3>4
  <2>3. QED
    BY <2>1, <2>2
<1>3. RunSettles(n, index, quiet)
  BY <1>1, <1>2 DEF RunSettles
<1>4. QED
  BY <1>1, <1>2, <1>3, CalmSettles DEF SettleInv

\* A query ends, or fails.
LEMMA EndSettles ==
    ASSUME SettleInv, LaneInv', NEW r \in Run, Finish(r) \/ ImagesFail(r)
    PROVE  SettleInv'
<1>1. Set(r, Idle) /\ index' = index /\ redis' = redis /\ (Calm \/ Event)
  BY DEF Finish, ImagesFail, cacheVars
<1>2. Idle.pc = "idle"
  BY DEF Idle
<1>3. RunSettles(Idle, index, quiet)
  BY <1>2 DEF RunSettles
<1>4. \A e \in redis' : e.age \in Nat /\ e.age < TTL[e.level]
  BY <1>1 DEF SettleInv, EntryRight
<1>5. CASE Calm
  BY <1>1, <1>3, <1>5, CalmSettles DEF SettleInv
<1>6. CASE Event
  BY <1>1, <1>2, <1>4, <1>6, EventSettles
<1>7. QED
  BY <1>1, <1>5, <1>6

\* The ranking of right candidates is right.
LEMMA RankedRight ==
    ASSUME NEW s \in RunState, NEW docs, s.pc = "ranking", RunRight(s, docs),
           NEW ranked, ranked = Top(s.candidates, TopK[s.round]),
           NEW n, n = [s EXCEPT !.pc = "judging", !.ranked = ranked]
    PROVE  RunRight(n, docs)
<1>1. /\ n.pc = "judging" /\ n.round = s.round /\ n.ranked = ranked /\ n.base = s.base
      /\ n.candidates = s.candidates /\ s.round \in {1, 2}
  BY DEF RunState
<1>2. CASE s.round = 1
  BY <1>1, <1>2 DEF RunRight
<1>3. CASE s.round = 2
  <2>1. PICK more \in SUBSET docs :
            s.candidates = First(docs) \cup Hits(docs, Filters) \cup more
    BY <1>3 DEF RunRight
  <2>2. n.ranked \in Right(docs)
    BY <1>1, <1>3, <2>1 DEF Right
  <2>3. QED
    BY <1>1, <1>3, <2>2 DEF RunRight
<1>4. QED
  BY <1>1, <1>2, <1>3

\* An entry of the rerank is used, or made.
LEMMA RerankSettles ==
    ASSUME SettleInv, LaneInv', NEW r \in Run,
           RerankHit(r) \/ Rerank(r) \/ RerankFallsBack(r)
    PROVE  SettleInv'
<1> DEFINE s == run[r]
           top == Top(s.candidates, TopK[s.round])
           n(d) == [s EXCEPT !.pc = "judging", !.ranked = d]
<1>1. s.pc = "ranking" /\ index' = index
  BY DEF RerankHit, Rerank, RerankFallsBack
<1>2. /\ s \in RunState /\ quiet \in Nat /\ s.age \in Nat /\ s.age <= MaxRun
      /\ s.candidates \in SUBSET Doc /\ s.round \in {1, 2} /\ RunSettles(s, index, quiet)
  BY <1>1 DEF SettleInv, LaneInv, LaneType, RunState, RunSettles
<1>3. \A d : n(d).pc = "judging" /\ n(d).age = s.age
  <2> HIDE DEF s
  <2>1. QED
    BY <1>2 DEF RunState
<1>4. ASSUME NEW d, quiet >= Span + MaxRun + s.age => d = top
      PROVE  RunSettles(n(d), index, quiet)
  <2>1. ASSUME quiet >= Span + MaxRun + s.age PROVE RunRight(n(d), index)
    BY <1>1, <1>2, <1>4, <2>1, RankedRight DEF RunSettles
  <2> HIDE DEF n, s, top
  <2>2. QED
    BY <1>2, <1>3, <2>1 DEF RunSettles
<1>5. CASE RerankHit(r)
  <2>1. PICK e \in Entries("rerank", RerankKey(r)) : Set(r, n(e.value))
    BY <1>5 DEF RerankHit
  <2>2. e \in redis /\ e.level = "rerank" /\ e.key = <<s.round, s.candidates>>
    BY <2>1 DEF Entries, RerankKey
  <2>3. EntryRight(e, index, quiet)
    BY <2>2 DEF SettleInv
  <2>4. ASSUME quiet >= Span + MaxRun + s.age PROVE e.value = top
    <3>1. e.age \in Nat /\ e.age < TTL["rerank"]
      BY <2>2, <2>3 DEF EntryRight
    <3>2. quiet > e.age
      BY <1>2, <2>4, <3>1, Lives
    <3>3. QED
      BY <1>2, <2>2, <2>3, <3>2 DEF EntryRight
  <2>5. RunSettles(n(e.value), index, quiet)
    BY <1>4, <2>4
  <2>6. Calm /\ redis' = redis
    BY <1>5 DEF RerankHit, cacheVars
  <2> HIDE DEF n
  <2>7. QED
    BY <1>1, <2>1, <2>5, <2>6, CalmSettles DEF SettleInv
<1>6. CASE Rerank(r)
  <2>1. Put("rerank", RerankKey(r), top) /\ Set(r, n(top)) /\ Calm
    BY <1>6 DEF Rerank
  <2>2. \A i \in {1, 2}, C \in SUBSET Doc : RerankKey(r) = <<i, C>> => top = Top(C, TopK[i])
    BY DEF RerankKey
  <2>3. RunSettles(n(top), index, quiet)
    BY <1>4
  <2> HIDE DEF n, top
  <2>4. \A e \in redis' : EntryRight(e, index, quiet)
    BY <2>1, <2>2, PutSettles
  <2>5. QED
    BY <1>1, <2>1, <2>3, <2>4, CalmSettles
<1>7. CASE RerankFallsBack(r)
  <2>1. PICK d : Put("rerank", RerankKey(r), d) /\ Set(r, n(d)) /\ Event
    BY <1>7 DEF RerankFallsBack
  <2>2. \A e \in redis' : e.age \in Nat /\ e.age < TTL[e.level]
    BY <2>1, PutSettles
  <2>3. n(d).pc # "idle" => n(d).age <= MaxRun
    BY <1>2, <1>3
  <2> HIDE DEF n
  <2>4. QED
    BY <2>1, <2>2, <2>3, EventSettles
<1>8. QED
  BY <1>5, <1>6, <1>7

\* Time passes: what was right is still, and needs one more tick to be told.
LEMMA TickSettles ==
    ASSUME SettleInv, LaneInv', Tick
    PROVE  SettleInv'
<1>1. /\ quiet \in Nat /\ quiet' \in Nat /\ index' = index
      /\ \A x \in Nat : quiet' > x + 1 => quiet > x
      /\ \A x \in Nat : quiet' >= x + 1 => quiet >= x
  BY Lives DEF SettleInv, Tick
<1>2. ASSUME NEW e \in redis' PROVE EntryRight(e, index, quiet')
  <2>1. PICK x \in redis : e = [x EXCEPT !.age = @ + 1] /\ x.age + 1 < TTL[x.level]
    BY DEF Tick, Age, Older
  <2>2. Entry(x) /\ EntryRight(x, index, quiet) /\ x.age \in Nat
    BY DEF SettleInv, LaneInv, LaneType, EntryRight
  <2>3. e = [level |-> x.level, key |-> x.key, value |-> x.value, age |-> x.age + 1]
    BY <2>1, <2>2 DEF Entry
  <2>4. e.level = x.level /\ e.key = x.key /\ e.value = x.value /\ e.age = x.age + 1
    BY <2>3
  <2>5. quiet' > e.age => quiet > x.age
    BY <1>1, <2>2, <2>4
  <2>6. quiet' > e.age + MaxRun => quiet > x.age + MaxRun
    BY <1>1, <2>2, <2>4, Lives
  <2>7. e.age \in Nat /\ e.age < TTL[e.level]
    BY <2>1, <2>2, <2>4
  <2>8. QED
    BY <2>2, <2>4, <2>5, <2>6, <2>7 DEF EntryRight
<1>3. ASSUME NEW r \in Run PROVE RunSettles(run'[r], index, quiet')
  <2> DEFINE s == run[r]
             n == run'[r]
  <2>1. s \in RunState /\ RunSettles(s, index, quiet) /\ s.age \in Nat
    BY DEF SettleInv, LaneInv, LaneType, RunState
  <2>2. CASE s.pc = "idle"
    <3>1. n = s
      BY <2>2 DEF Tick, Busy
    <3>2. QED
      BY <2>2, <3>1 DEF RunSettles
  <2>3. CASE s.pc # "idle"
    <3>1. n = [s EXCEPT !.age = @ + 1] /\ s.age < MaxRun
      BY <2>3 DEF Tick, Busy
    <3> HIDE DEF s, n
    <3>2. /\ n.age = s.age + 1 /\ n.pc = s.pc /\ n.round = s.round /\ n.filters = s.filters
          /\ n.found = s.found /\ n.base = s.base /\ n.candidates = s.candidates
          /\ n.ranked = s.ranked
      BY <2>1, <3>1 DEF RunState
    <3>3. RunRight(s, index) => RunRight(n, index)
      BY <3>2 DEF RunRight
    <3>4. quiet' > n.age => quiet > s.age
      BY <1>1, <2>1, <3>2
    <3>5. quiet' >= Span + MaxRun + n.age => quiet >= Span + MaxRun + s.age
      <4>1. Span + MaxRun + s.age \in Nat
            /\ Span + MaxRun + n.age = (Span + MaxRun + s.age) + 1
        BY <2>1, <3>2, Lives
      <4>2. QED
        BY <1>1, <4>1
    <3>6. n.age <= MaxRun
      BY <2>1, <3>1, <3>2, Lives
    <3>7. RunSettles(n, index, quiet')
      BY <2>1, <2>3, <3>2, <3>3, <3>4, <3>5, <3>6 DEF RunSettles
    <3>8. QED
      BY <3>7 DEF n
  <2>4. QED
    BY <2>2, <2>3
<1>4. \A e \in redis' : EntryRight(e, index', quiet')
  BY <1>1, <1>2
<1>5. \A r \in Run : RunSettles(run'[r], index', quiet')
  BY <1>1, <1>3
<1>6. QED
  BY <1>1, <1>4, <1>5 DEF SettleInv, EntryRight, RunSettles, RunRight, RelaxedTo, Right, First,
                    Kept, Hits, Passing, Top

LEMMA SettleInit == Init => SettleInv
<1> SUFFICES ASSUME Init PROVE SettleInv
  OBVIOUS
<1>1. LaneInv
  BY LaneInit
<1>2. redis = {} /\ run = [r \in Run |-> Idle] /\ quiet = RetrievalLag + 1
  BY DEF Init, CacheInit
<1>3. RunSettles(Idle, index, quiet)
  BY DEF RunSettles, Idle
<1>4. quiet \in Nat
  BY <1>2, Lives
<1>5. QED
  BY <1>1, <1>2, <1>3, <1>4 DEF SettleInv

LEMMA SettleStep == SettleInv /\ [Next]_vars => SettleInv'
<1> SUFFICES ASSUME SettleInv, [Next]_vars PROVE SettleInv'
  OBVIOUS
<1>1. LaneInv'
  BY LaneStep DEF SettleInv
<1>2. ASSUME NEW r \in Run, RunStep(r) PROVE SettleInv'
  BY <1>1, <1>2, BeginSettles, RecallHitSettles, SearchSettles, KeepRecallSettles,
     OnwardSettles, EndSettles, RerankSettles DEF RunStep
<1>3. CASE Tick
  BY <1>1, <1>3, TickSettles
<1>4. CASE IndexChanges
  <2>1. redis' = redis /\ run' = run /\ quiet' = 0
    BY <1>4 DEF IndexChanges, Event, cacheVars
  <2>2. QED
    BY <1>1, <2>1, ChangeSettles DEF SettleInv, EntryRight, RunSettles
<1>5. CASE UNCHANGED vars
  <2>1. redis' = redis /\ run' = run /\ quiet' = quiet /\ index' = index
    BY <1>5 DEF vars
  <2>2. \A e \in redis' : EntryRight(e, index', quiet')
    BY <2>1 DEF SettleInv
  <2>3. \A r \in Run : RunSettles(run'[r], index', quiet')
    BY <2>1 DEF SettleInv
  <2>4. quiet' \in Nat
    BY <2>1 DEF SettleInv
  <2>5. QED
    BY <1>1, <2>2, <2>3, <2>4 DEF SettleInv, EntryRight, RunSettles, RunRight, RelaxedTo,
                    Right, First, Kept, Hits, Passing, Top
<1>6. QED
  BY <1>2, <1>3, <1>4, <1>5 DEF Next

\* Every reachable state: what is older than the last change may be wrong,
\* what is younger is what the stores give.
THEOREM SettleInvariance == Spec => []SettleInv
BY SettleInit, SettleStep, PTL DEF Spec

\* For RetrievalLag ticks after a change or a failure the lane may give what
\* the stores would not; from then on every result is theirs, the pages that
\* pass any filter among them, whatever the entries were made of (fast_lane.py,
\* cache.py, which nothing empties).
THEOREM RetrievalAlwaysSettles == Spec => RetrievalSettles
<1>1. ASSUME SettleInv, NEW r \in Run, run[r].pc = "judging", quiet > RetrievalLag
      PROVE  run[r].ranked \in Right(index)
  <2>1. /\ run[r] \in RunState /\ run[r].age \in Nat /\ quiet \in Nat
        /\ RunSettles(run[r], index, quiet)
    BY <1>1 DEF SettleInv, LaneInv, LaneType, RunState
  <2>2. quiet >= Span + MaxRun + run[r].age
    BY <1>1, <2>1, Lives DEF RunSettles
  <2>3. RunRight(run[r], index)
    BY <1>1, <2>1, <2>2 DEF RunSettles
  <2>4. QED
    BY <1>1, <2>1, <2>3 DEF RunRight, Right, RunState
<1>2. SettleInv /\ [Next]_vars =>
        [\A r \in Run :
           run[r].pc = "judging" /\ run'[r].pc = "idle" /\ quiet > RetrievalLag
              => run[r].ranked \in Right(index)]_vars
  BY <1>1
<1>3. QED
  BY <1>2, SettleInvariance, PTL DEF Spec, RetrievalSettles

-----------------------------------------------------------------------------
(***************************************************************************)
(* What the query service relies on.  QueryService models the lane by one  *)
(* step, FastLane(r): once the lane has settled its documents are in the   *)
(* stores, and there are some if the stores hold any.                      *)
(***************************************************************************)
\* The relaxation comes to an end: every question has its first results.
LEMMA FirstEnds ==
    ASSUME NEW docs \in SUBSET Doc
    PROVE  \E k \in 0..Len(Relaxing) :
              /\ First(docs) = Hits(docs, Kept(k))
              /\ Cardinality(Hits(docs, Kept(k))) >= Enough \/ Kept(k) = {}
<1> DEFINE Ends(k) == Cardinality(Hits(docs, Kept(k))) >= Enough \/ Kept(k) = {}
           S == {k \in 0..Len(Relaxing) : Ends(k)}
           P(m) == /\ \/ Cardinality(Hits(docs, Kept(m))) >= Enough
                      \/ Kept(m) = {}
                   /\ \A j \in 0..(m - 1) :
                         Kept(j) # {} /\ Cardinality(Hits(docs, Kept(j))) < Enough
<1>1. Len(Relaxing) \in Nat /\ DOMAIN Relaxing = 1..Len(Relaxing)
  BY LenProperties, FastLaneAssumption
<1>2. Kept(Len(Relaxing)) = {}
  BY <1>1, FastLaneAssumption DEF Kept
<1>3. Len(Relaxing) \in S /\ S \in SUBSET Nat
  BY <1>1, <1>2
<1>4. PICK k \in S : \A j \in S : k <= j
  BY <1>3, Least
<1>5. k \in 0..Len(Relaxing) /\ Ends(k)
  BY <1>4
<1>6. ASSUME NEW j \in 0..(k - 1)
      PROVE  Kept(j) # {} /\ Cardinality(Hits(docs, Kept(j))) < Enough
  <2>1. j \in 0..Len(Relaxing) /\ ~(k <= j)
    BY <1>1, <1>5
  <2>2. ~Ends(j)
    BY <1>4, <2>1
  <2>3. Cardinality(Hits(docs, Kept(j))) \in Nat /\ Enough \in Nat
    BY HitsCount, FastLaneAssumption
  <2>4. QED
    BY <2>2, <2>3
<1>7. P(k)
  BY <1>5, <1>6
<1> DEFINE c == CHOOSE m \in 0..Len(Relaxing) : P(m)
<1>8. c \in 0..Len(Relaxing) /\ P(c)
  BY <1>5, <1>7
<1>9. First(docs) = Hits(docs, Kept(c))
  BY DEF First
<1> HIDE DEF c
<1>10. QED
  BY <1>8, <1>9

\* With a threshold, nothing is found first only where there is nothing.
LEMMA FirstFinds ==
    ASSUME NEW docs \in SUBSET Doc, First(docs) = {}
    PROVE  docs = {}
<1>1. PICK k \in 0..Len(Relaxing) :
          /\ First(docs) = Hits(docs, Kept(k))
          /\ Cardinality(Hits(docs, Kept(k))) >= Enough \/ Kept(k) = {}
  BY FirstEnds
<1>2. CASE Kept(k) = {}
  BY <1>1, <1>2 DEF Hits, Passing
<1>3. CASE Cardinality(Hits(docs, Kept(k))) >= Enough
  <2>1. Hits(docs, Kept(k)) = {} /\ Cardinality({}) = 0
    BY <1>1, FS_EmptySet
  <2>2. 0 >= Enough
    BY <1>3, <2>1
  <2>3. QED
    BY <2>2, FastLaneAssumption
<1>4. QED
  BY <1>1, <1>2, <1>3

\* The best of some documents is among the best n.
LEMMA TopFinds ==
    ASSUME NEW docs \in SUBSET Doc, docs # {}, NEW n \in Nat \ {0}
    PROVE  Top(docs, n) # {}
<1> DEFINE Better(d) == {e \in docs : Best[e] > Best[d]}
           S == {Cardinality(Better(d)) : d \in docs}
<1>1. ASSUME NEW d \in docs PROVE IsFiniteSet(Better(d)) /\ Cardinality(Better(d)) \in Nat
  <2>1. Better(d) \subseteq Doc
    OBVIOUS
  <2>2. IsFiniteSet(Better(d))
    BY <2>1, FS_Subset, FastLaneAssumption
  <2>3. QED
    BY <2>2, FS_CardinalityType
<1>2. S \in SUBSET Nat /\ S # {}
  BY <1>1
<1>3. PICK m \in S : \A j \in S : m <= j
  BY <1>2, Least
<1>4. PICK d \in docs : m = Cardinality(Better(d))
  BY <1>3
<1>5. ASSUME NEW e \in Better(d) PROVE FALSE
  <2>1. e \in docs /\ Best[e] > Best[d] /\ \A x \in docs : Best[x] \in Nat
    BY FastLaneAssumption
  <2>2. Better(e) \subseteq Better(d) /\ Better(e) # Better(d)
    BY <2>1
  <2>3. IsFiniteSet(Better(d)) /\ Cardinality(Better(d)) \in Nat /\ Cardinality(Better(e)) \in Nat
    BY <1>1, <2>1
  <2> HIDE DEF Better
  <2>4. /\ Cardinality(Better(e)) <= Cardinality(Better(d))
        /\ Cardinality(Better(e)) # Cardinality(Better(d))
    BY <2>2, <2>3, FS_Subset
  <2>5. Cardinality(Better(d)) <= Cardinality(Better(e))
    BY <1>3, <1>4, <2>1
  <2>6. QED
    BY <2>3, <2>4, <2>5
<1>6. Better(d) = {}
  BY <1>5
<1>7. Cardinality(Better(d)) = 0
  BY <1>6, FS_EmptySet
<1>8. d \in Top(docs, n)
  BY <1>7 DEF Top
<1>9. QED
  BY <1>8

\* What is right is there, and something.
LEMMA RightFinds ==
    ASSUME NEW docs \in SUBSET Doc, NEW given \in Right(docs)
    PROVE  given \subseteq docs /\ (given = {} => docs = {})
<1>1. First(docs) \subseteq docs /\ Hits(docs, Filters) \subseteq docs
  BY FirstSubset DEF Hits, Passing
<1>2. TopK[1] \in Nat \ {0} /\ TopK[2] \in Nat \ {0}
  BY FastLaneAssumption
<1>3. CASE given = Top(First(docs), TopK[1])
  BY <1>1, <1>2, <1>3, TopSubset, TopFinds, FirstFinds
<1>4. ASSUME NEW more \in SUBSET docs,
             given = Top(First(docs) \cup Hits(docs, Filters) \cup more, TopK[2])
      PROVE  given \subseteq docs /\ (given = {} => docs = {})
  <2> DEFINE all == First(docs) \cup Hits(docs, Filters) \cup more
  <2>1. all \subseteq docs /\ all \in SUBSET Doc /\ First(docs) \subseteq all
    BY <1>1
  <2>2. given = Top(all, TopK[2])
    BY <1>4
  <2> HIDE DEF all
  <2>3. given \subseteq docs
    BY <2>1, <2>2, TopSubset
  <2>4. given = {} => First(docs) = {}
    BY <1>2, <2>1, <2>2, TopFinds
  <2>5. QED
    BY <2>3, <2>4, FirstFinds
<1>5. QED
  BY <1>3, <1>4 DEF Right

\* The step FastLane(r) of QueryService allows every result of the lane: what
\* that module takes for granted beyond RetrievalLag is shown here, from the
\* entries and the rounds it leaves out (query_service.py, fast_lane.py).
THEOREM RetrievalKeepsItsPromise ==
    Spec => [][\A r \in Run :
                 run[r].pc = "judging" /\ run'[r].pc = "idle" =>
                    LET docs == run[r].ranked IN
                    /\ docs \in SUBSET Doc
                    /\ quiet > RetrievalLag => docs \subseteq index /\ (docs = {} => index = {})]_vars
<1> DEFINE Promise == \A r \in Run :
                 run[r].pc = "judging" /\ run'[r].pc = "idle" =>
                    LET docs == run[r].ranked IN
                    /\ docs \in SUBSET Doc
                    /\ quiet > RetrievalLag => docs \subseteq index /\ (docs = {} => index = {})
           Settled == \A r \in Run :
                 run[r].pc = "judging" /\ run'[r].pc = "idle" /\ quiet > RetrievalLag
                    => run[r].ranked \in Right(index)
<1>1. SettleInv /\ [Settled]_vars => [Promise]_vars
  <2> SUFFICES ASSUME SettleInv, Settled PROVE Promise
    OBVIOUS
  <2>1. index \in SUBSET Doc /\ \A r \in Run : run[r].ranked \in SUBSET Doc
    BY DEF SettleInv, LaneInv, LaneType, RunState
  <2>2. QED
    BY <2>1, RightFinds
<1>2. RetrievalSettles <=> [][Settled]_vars
  BY DEF RetrievalSettles
<1> HIDE DEF Promise, Settled
<1>3. Spec => [][Promise]_vars
  BY <1>1, <1>2, SettleInvariance, RetrievalAlwaysSettles, PTL
<1>4. QED
  BY <1>3 DEF Promise

=============================================================================
