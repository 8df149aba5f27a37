---------------------------- MODULE AnswerCaches ----------------------------
(***************************************************************************)
(* The caches of the query path: the levels of Redis (storage/cache.py) and *)
(* the semantic cache in Qdrant (storage/semantic_cache.py).               *)
(*                                                                         *)
(* Time is a tick.  An entry of Redis is gone once it is as old as its     *)
(* level allows; a point of the semantic cache stays for ever and is only  *)
(* refused when it is found too old.  Every call of either store may fail, *)
(* and every failure is swallowed: a read then misses, a write is lost.    *)
(***************************************************************************)
EXTENDS Naturals, FiniteSets

CONSTANTS
    Level,        \* the levels of Redis in use: a set of strings
    TTL,          \* TTL[l]: how many ticks an entry of level l lives
    SemanticTTL,  \* DEFAULT_TTL of the semantic cache
    MaxPoints     \* bound: points of the semantic cache

ASSUME CacheAssumption ==
    /\ Level \subseteq {"recall", "rerank", "generation"}
    /\ TTL \in [Level -> Nat \ {0}]
    /\ SemanticTTL \in Nat /\ MaxPoints \in Nat

VARIABLES
    redis,      \* entries of Redis: level, key, value and age
    semantic,   \* points of the semantic cache: key, value and age
    collection  \* the collection of the semantic cache exists

cacheVars == <<redis, semantic, collection>>

CacheInit == redis = {} /\ semantic = {} /\ collection = TRUE

(* What a read of Redis finds.                                             *)
Entries(level, key) == {e \in redis : e.level = level /\ e.key = key}

(* Redis after a write: setex starts the age again.                        *)
Put(level, key, value) ==
    redis' = (redis \ Entries(level, key)) \cup
                 {[level |-> level, key |-> key, value |-> value, age |-> 0]}

-----------------------------------------------------------------------------
(* The semantic cache.  One point is asked for, the nearest of those with  *)
(* the filters of the query; points of the same query are equally near.    *)
(* Its age is looked at afterwards.                                        *)
Near(key) == IF collection THEN {p \in semantic : p.key = key} ELSE {}
FreshAlways(p) == TRUE   \* a mutant: the age is not looked at
Fresh(p) == p.age <= SemanticTTL

Remember(key, value) ==
    \/ semantic' = semantic
    \/ /\ collection /\ Cardinality(semantic) < MaxPoints
       /\ semantic' = semantic \cup {[key |-> key, value |-> value, age |-> 0]}

(* The endpoint /query/cache/clear: the levels one prefix after another,   *)
(* then the semantic cache, whose collection is deleted and made again.    *)
ClearCache == redis' = {} /\ semantic' = {} /\ collection' = TRUE

(* A call fails on the way: Redis keeps the levels that were left, and the *)
(* collection stays, or is deleted and not made again: then there is none  *)
(* until the next clear.                                                   *)
ClearCacheFails ==
    /\ \E cleared \in SUBSET Level : redis' = {e \in redis : e.level \notin cleared}
    /\ \/ UNCHANGED <<semantic, collection>>
       \/ semantic' = {} /\ collection' = FALSE

-----------------------------------------------------------------------------
(* A tick: what is as old as its level allows is gone from Redis.  Points  *)
(* that are too old are not told apart any further.                        *)
Older(e) == [e EXCEPT !.age = @ + 1]

Age ==
    /\ redis' = {Older(e) : e \in {x \in redis : x.age + 1 < TTL[x.level]}}
    /\ semantic' = {IF Fresh(p) THEN Older(p) ELSE p : p \in semantic}
    /\ UNCHANGED collection

=============================================================================
