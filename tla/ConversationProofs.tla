------------------------- MODULE ConversationProofs -------------------------
(***************************************************************************)
(* What the page shows fits, for all numbers of calls, questions and       *)
(* conversations: the messages their questions, the list its conversation, *)
(* the panel the question that will be sent.                               *)
(*                                                                         *)
(* The idea: of the calls under way that prepare or execute a question, at *)
(* most one is not cancelled, and it is the one the page can cancel.       *)
(* Whatever goes wrong comes from the others, or from a list that was      *)
(* replaced, and leaves a trace in the calls that stays.                   *)
(***************************************************************************)
EXTENDS Conversation, SequenceTheorems, TLAPS

AnyConversation == Conversation \cup {NoConversation} \cup Nat
AnyQuery == Query \cup {NoQuery}

CallRecord ==
    [kind: {"prepare", "execute", "load"}, query: AnyQuery,
     conversation: AnyConversation,
     pc: {"sent", "refreshing", "waiting", "again", "reading", "failed", "answered", "over"},
     cancelled: BOOLEAN, overtaken: BOOLEAN]

MessageRecord ==
    [role: {"user", "assistant"}, call: Nat, conversation: AnyConversation,
     status: {"completed", "streaming", "error"}, text: SUBSET Nat, extras: SUBSET Nat]

Calls == Seq(CallRecord)
Messages == Seq(MessageRecord)

PageType ==
    /\ call \in Calls /\ messages \in Messages
    /\ shown \in AnyConversation /\ original \in AnyQuery
    /\ state \in {"idle", "preprocessing", "querying", "confirming", "completed", "error"}
    /\ active \in 0..Len(call)
    /\ \A n \in DOMAIN call : call[n].kind = "load" => call[n].conversation \in Conversation

\* A call that the page waits for.
Current(c) == Under(c) /\ c.cancelled = FALSE /\ c.kind \in {"prepare", "execute"}

\* An answer has come to a call that was cancelled.
Late == \E n \in DOMAIN call : call[n].cancelled = TRUE /\ call[n].pc = "answered"
Turned == Late \/ \E n \in DOMAIN call : call[n].overtaken = TRUE

\* The page can cancel the one it waits for.
ActiveOK == \A n \in DOMAIN call : Current(call[n]) => active = n

IsAnswerTo(m, n) == m.role = "assistant" /\ m.call = n

MessageOK(m) ==
    /\ m.call \in 0..Len(call)
    /\ m.status = "streaming" => m.text = {} /\ m.extras = {}
    /\ m.role = "assistant" /\ m.status = "completed" => m.text = {m.call} \/ Late

Stray(n) == n \in DOMAIN call /\ call[n].cancelled = TRUE
Gone(n) ==
    n \in DOMAIN call /\ \A k \in DOMAIN messages : ~IsAnswerTo(messages[k], n)

\* MessagesFit, for one message and what it shows.
ShowsOK(m) ==
    /\ \A n \in m.text :
          \/ n = m.call \/ Stray(n)
          \/ Gone(n) /\ (m.status = "error" \/ call[n].overtaken = FALSE)
    /\ \A n \in m.extras : n = m.call \/ Stray(n) \/ Gone(n)

\* The message of the current execution is the last, if it is there: only a
\* late answer, or another list, can have taken it away.
PlaceOK(n) ==
    /\ \A k \in DOMAIN messages : IsAnswerTo(messages[k], n) => k = Len(messages)
    /\ IF call[n].overtaken = TRUE
       THEN \A k \in DOMAIN messages : messages[k].status # "streaming"
       ELSE Late \/ (messages # <<>> /\ IsAnswerTo(messages[Len(messages)], n))

QuestionOK ==
    Late \/ /\ \A n \in DOMAIN call : Current(call[n]) => call[n].query = original
            /\ state = "confirming" => panel = original

ListOK ==
    Turned \/ /\ \A k \in DOMAIN messages : messages[k].conversation = shown
              /\ shown = NoConversation => messages = <<>>
              /\ \A n \in DOMAIN call :
                    Current(call[n]) \/ (call[n].kind = "load" /\ Under(call[n]))
                       => call[n].conversation = shown

\* What is to be shown of every message, and of the execution under way.
MessagesOK ==
    /\ \A k \in DOMAIN messages : MessageOK(messages[k]) /\ ShowsOK(messages[k])
    /\ \A n \in DOMAIN call : Current(call[n]) /\ call[n].kind = "execute" => PlaceOK(n)

PageInv == PageType /\ ActiveOK /\ MessagesOK /\ QuestionOK /\ ListOK

-----------------------------------------------------------------------------
(***************************************************************************)
(* A call is never taken back: it keeps what it is for, stays cancelled,   *)
(* and once it has ended nothing but its cancellation changes.             *)
(***************************************************************************)
Follows(c, d) ==
    /\ d.kind = c.kind /\ d.query = c.query /\ d.conversation = c.conversation
    /\ c.cancelled = TRUE => d.cancelled = TRUE
    /\ c.overtaken = TRUE => d.overtaken = TRUE
    /\ ~Under(c) => d.pc = c.pc /\ d.overtaken = c.overtaken

Grows(a, b) ==
    /\ a \in Calls /\ b \in Calls /\ Len(a) <= Len(b)
    /\ \A n \in 1..Len(a) : Follows(a[n], b[n])

\* Only what was current is current.
LEMMA FollowsCurrent ==
    ASSUME NEW c \in CallRecord, NEW d \in CallRecord, Follows(c, d)
    PROVE  /\ Under(d) => Under(c)
           /\ Current(d) => Current(c)
BY DEF Follows, Under, Current, CallRecord

LEMMA GrowsTransitive ==
    ASSUME NEW a, NEW b, NEW c, Grows(a, b), Grows(b, c)
    PROVE  Grows(a, c)
<1>1. /\ Len(a) \in Nat /\ Len(b) \in Nat /\ Len(c) \in Nat
      /\ a \in Calls /\ c \in Calls
      /\ Len(a) <= Len(b) /\ Len(b) <= Len(c)
  BY LenProperties DEF Grows, Calls
<1>2. ASSUME NEW n \in 1..Len(a)
      PROVE  Follows(a[n], c[n])
  <2>1. n \in 1..Len(b) /\ Follows(a[n], b[n]) /\ Follows(b[n], c[n])
    BY <1>1 DEF Grows
  <2>2. a[n] \in CallRecord /\ b[n] \in CallRecord
    BY <2>1, ElementOfSeq DEF Grows, Calls
  <2>3. QED
    BY <2>1, <2>2 DEF Follows, Under
<1>3. QED
  BY <1>1, <1>2 DEF Grows

\* A change of every call is a change of the sequence.
LEMMA CallsMap ==
    ASSUME NEW a \in Calls, NEW b, DOMAIN b = DOMAIN a, b = [n \in DOMAIN b |-> b[n]],
           \A n \in DOMAIN a : b[n] \in CallRecord /\ Follows(a[n], b[n])
    PROVE  Grows(a, b) /\ Len(b) = Len(a) /\ DOMAIN b = 1..Len(a)
<1>1. Len(a) \in Nat /\ DOMAIN a = 1..Len(a)
  BY LenProperties DEF Calls
<1>2. b \in [1..Len(a) -> CallRecord]
  BY <1>1
<1>3. b \in Seq(CallRecord)
  BY <1>1, <1>2, SeqDef
<1>4. Len(b) = Len(a)
  BY <1>1, <1>3, LenProperties
<1>5. QED
  BY <1>1, <1>3, <1>4 DEF Grows, Calls

\* The signal: the call it was for is current no more.
LEMMA CutGrows ==
    ASSUME NEW a \in Calls, NEW m \in Nat
    PROVE  LET b == Cut(a, m) IN
           /\ Grows(a, b) /\ Len(b) = Len(a) /\ DOMAIN b = 1..Len(a)
           /\ \A n \in 1..Len(a) :
                 /\ b[n].overtaken = a[n].overtaken
                 /\ Current(b[n]) => n # m
<1> DEFINE b == Cut(a, m)
<1>1. Len(a) \in Nat /\ DOMAIN a = 1..Len(a)
  BY LenProperties DEF Calls
<1>2. \A n \in DOMAIN a : a[n] \in CallRecord
  BY <1>1, ElementOfSeq DEF Calls
<1>3. \A c \in CallRecord : Follows(c, c)
  BY DEF Follows
<1>4. TRUE \in BOOLEAN
  OBVIOUS
<1>5. CASE m = 0
  <2>1. b = a
    BY <1>5 DEF Cut
  <2>2. QED
    BY <1>1, <1>2, <1>3, <1>5, <2>1 DEF Grows
<1>6. CASE m # 0
  <2> DEFINE d(c) == [c EXCEPT !.cancelled = TRUE,
                               !.pc = IF @ \in {"sent", "again"} THEN "over" ELSE @]
  <2>1. /\ b = [a EXCEPT ![m] = d(a[m])]
    BY <1>6 DEF Cut
  <2>2. ASSUME NEW c \in CallRecord
        PROVE  /\ d(c) \in CallRecord /\ Follows(c, d(c))
               /\ d(c).overtaken = c.overtaken /\ ~Current(d(c))
    <3>1. /\ d(c).kind = c.kind /\ d(c).query = c.query /\ d(c).conversation = c.conversation
          /\ d(c).cancelled = TRUE /\ d(c).overtaken = c.overtaken
          /\ d(c).pc = IF c.pc \in {"sent", "again"} THEN "over" ELSE c.pc
      BY DEF CallRecord
    <3>2. d(c) \in CallRecord
      BY <1>4 DEF CallRecord
    <3>3. QED
      BY <3>1, <3>2 DEF Follows, Under, Current, CallRecord
  <2> HIDE DEF d
  <2>3. DOMAIN b = DOMAIN a /\ b = [n \in DOMAIN b |-> b[n]]
    BY <1>1, <2>1
  <2>4. \A n \in DOMAIN a : b[n] = IF n = m THEN d(a[n]) ELSE a[n]
    BY <2>1
  <2> HIDE DEF b
  <2>5. \A n \in DOMAIN a : b[n] \in CallRecord /\ Follows(a[n], b[n])
    BY <1>2, <1>3, <2>2, <2>4
  <2>6. Grows(a, b) /\ Len(b) = Len(a) /\ DOMAIN b = 1..Len(a)
    BY <2>3, <2>5, CallsMap
  <2>7. \A n \in 1..Len(a) : b[n].overtaken = a[n].overtaken /\ (Current(b[n]) => n # m)
    BY <1>1, <1>2, <2>2, <2>4
  <2>8. QED
    BY <2>6, <2>7 DEF b
<1>7. QED
  BY <1>5, <1>6

\* The end of a call, or its next phase.
LEMMA EndGrows ==
    ASSUME NEW a \in Calls, NEW m \in DOMAIN a, Under(a[m]),
           NEW pc \in {"refreshing", "waiting", "reading", "answered", "over"}
    PROVE  LET b == End(a, m, pc) IN
           /\ Grows(a, b) /\ Len(b) = Len(a) /\ DOMAIN b = 1..Len(a)
           /\ \A n \in 1..Len(a) :
                 /\ b[n].overtaken = a[n].overtaken /\ b[n].cancelled = a[n].cancelled
                 /\ n # m => b[n] = a[n]
           /\ b[m].pc = pc
<1> DEFINE b == End(a, m, pc)
<1>1. Len(a) \in Nat /\ DOMAIN a = 1..Len(a)
  BY LenProperties DEF Calls
<1>2. \A n \in DOMAIN a : a[n] \in CallRecord
  BY <1>1, ElementOfSeq DEF Calls
<1> DEFINE d(c) == [c EXCEPT !.pc = pc]
<1>3. b = [a EXCEPT ![m] = d(a[m])]
  BY DEF End
<1>4. \A n \in DOMAIN a : b[n] = IF n = m THEN d(a[m]) ELSE a[n]
  BY <1>3
<1>5. DOMAIN b = DOMAIN a /\ b = [n \in DOMAIN b |-> b[n]]
  BY <1>1, <1>3
<1>6. /\ d(a[m]) \in CallRecord /\ d(a[m]).pc = pc
      /\ d(a[m]).overtaken = a[m].overtaken /\ d(a[m]).cancelled = a[m].cancelled
      /\ Follows(a[m], d(a[m]))
  BY <1>2 DEF CallRecord, Follows, Under
<1> HIDE DEF d, b
<1>7. \A n \in DOMAIN a : b[n] \in CallRecord /\ Follows(a[n], b[n])
  BY <1>2, <1>4, <1>6 DEF Follows
<1>8. Grows(a, b) /\ Len(b) = Len(a) /\ DOMAIN b = 1..Len(a)
  BY <1>5, <1>7, CallsMap
<1>9. QED
  BY <1>1, <1>4, <1>6, <1>8 DEF b

\* The list is replaced: every call under way has been overtaken.
LEMMA OvertakeGrows ==
    ASSUME NEW a \in Calls, NEW b, b = Overtake(a)
    PROVE  /\ Grows(a, b) /\ Len(b) = Len(a) /\ DOMAIN b = 1..Len(a)
           /\ \A n \in 1..Len(a) :
                 /\ b[n].pc = a[n].pc /\ b[n].cancelled = a[n].cancelled
                 /\ Under(b[n]) => b[n].overtaken = TRUE
<1> DEFINE d(c) == IF Under(c) THEN [c EXCEPT !.overtaken = TRUE] ELSE c
<1>1. Len(a) \in Nat /\ DOMAIN a = 1..Len(a)
  BY LenProperties DEF Calls
<1>2. \A n \in DOMAIN a : a[n] \in CallRecord
  BY <1>1, ElementOfSeq DEF Calls
<1>3. ASSUME NEW c \in CallRecord
      PROVE  /\ d(c) \in CallRecord /\ Follows(c, d(c))
             /\ d(c).pc = c.pc /\ d(c).cancelled = c.cancelled
             /\ Under(d(c)) => d(c).overtaken = TRUE
  <2>1. CASE ~Under(c)
    BY <2>1 DEF Follows
  <2>2. CASE Under(c)
    <3> DEFINE e == [c EXCEPT !.overtaken = TRUE]
    <3>1. TRUE \in BOOLEAN
      OBVIOUS
    <3>2. /\ e \in CallRecord /\ e.overtaken = TRUE /\ e.pc = c.pc /\ e.kind = c.kind
          /\ e.cancelled = c.cancelled /\ e.query = c.query /\ e.conversation = c.conversation
      BY <3>1 DEF CallRecord
    <3>3. d(c) = e
      BY <2>2
    <3> HIDE DEF e, d
    <3>4. QED
      BY <2>2, <3>2, <3>3 DEF Follows
  <2>3. QED
    BY <2>1, <2>2
<1>4. \A n \in DOMAIN a : b[n] = d(a[n])
  BY DEF Overtake
<1>5. DOMAIN b = DOMAIN a /\ b = [n \in DOMAIN b |-> b[n]]
  BY DEF Overtake
<1> HIDE DEF d
<1>6. \A n \in DOMAIN a : b[n] \in CallRecord /\ Follows(a[n], b[n])
  BY <1>2, <1>3, <1>4
<1>7. Grows(a, b) /\ Len(b) = Len(a) /\ DOMAIN b = 1..Len(a)
  BY <1>5, <1>6, CallsMap
<1>8. \A n \in 1..Len(a) : /\ b[n].pc = a[n].pc /\ b[n].cancelled = a[n].cancelled
                           /\ Under(b[n]) => b[n].overtaken = TRUE
  <2> TAKE n \in 1..Len(a)
  <2>1. a[n] \in CallRecord /\ b[n] = d(a[n])
    BY <1>1, <1>2, <1>4
  <2>2. QED
    BY <1>3, <2>1 DEF Under
<1>9. QED
  BY <1>7, <1>8

\* One more call.
LEMMA SentType ==
    ASSUME NEW kind \in {"prepare", "execute", "load"},
           NEW q \in AnyQuery, NEW c \in AnyConversation
    PROVE  Sent(kind, q, c) \in CallRecord
<1>1. FALSE \in BOOLEAN
  OBVIOUS
<1>2. QED
  BY <1>1 DEF Sent, CallRecord

LEMMA AppendGrows ==
    ASSUME NEW a \in Calls, NEW r \in CallRecord, NEW b, b = Append(a, r)
    PROVE  /\ Grows(a, b) /\ Len(b) = Len(a) + 1 /\ DOMAIN b = 1..Len(b)
           /\ \A k \in 1..Len(a) : b[k] = a[k]
           /\ b[Len(b)] = r
<1>1. Len(a) \in Nat
  BY LenProperties DEF Calls
<1>2. /\ b \in Calls /\ Len(b) = Len(a) + 1
      /\ \A k \in 1..Len(a) : b[k] = a[k]
      /\ b[Len(a) + 1] = r
  BY <1>1, AppendProperties DEF Calls
<1>3. DOMAIN b = 1..Len(b)
  BY <1>2, LenProperties DEF Calls
<1>4. Grows(a, b)
  BY <1>1, <1>2 DEF Grows, Follows
<1>5. QED
  BY <1>2, <1>3, <1>4

\* The new call of a step.
LEMMA NewCall ==
    ASSUME NEW a \in Calls, NEW kind \in {"prepare", "execute", "load"},
           NEW q \in AnyQuery, NEW c \in AnyConversation,
           call' = Append(a, Sent(kind, q, c))
    PROVE  /\ Grows(a, call') /\ Len(call') = Len(a) + 1 /\ DOMAIN call' = 1..Len(a) + 1
           /\ \A k \in 1..Len(a) : call'[k] = a[k]
           /\ LET n == Len(a) + 1 IN
                 /\ call'[n].kind = kind /\ call'[n].query = q /\ call'[n].conversation = c
                 /\ call'[n].cancelled = FALSE /\ call'[n].overtaken = FALSE
<1> DEFINE r == Sent(kind, q, c)
<1>1. r \in CallRecord
  BY SentType
<1>2. /\ r.kind = kind /\ r.query = q /\ r.conversation = c
      /\ r.cancelled = FALSE /\ r.overtaken = FALSE
  BY DEF Sent
<1> HIDE DEF r
<1>3. call' = Append(a, r)
  BY DEF r
<1>4. \A b : b = Append(a, r) =>
         /\ Grows(a, b) /\ Len(b) = Len(a) + 1 /\ DOMAIN b = 1..Len(b)
         /\ \A k \in 1..Len(a) : b[k] = a[k]
         /\ b[Len(b)] = r
  BY <1>1, AppendGrows
<1>5. /\ Grows(a, call') /\ Len(call') = Len(a) + 1 /\ DOMAIN call' = 1..Len(call')
      /\ \A k \in 1..Len(a) : call'[k] = a[k]
      /\ call'[Len(call')] = r
  BY <1>3, <1>4
<1>6. QED
  BY <1>2, <1>5

-----------------------------------------------------------------------------
(***************************************************************************)
(* The network and the refresh of the token.                               *)
(***************************************************************************)
\* What they do to the calls.
LEMMA NetworkGrows ==
    ASSUME call \in Calls,
           \/ \E n \in DOMAIN call : Headers(n) \/ Unauthorized(n)
           \/ RefreshSucceeds \/ RefreshFails \/ OtherUnauthorized
    PROVE  /\ Grows(call, call') /\ Len(call') = Len(call) /\ DOMAIN call' = 1..Len(call)
           /\ \A n \in 1..Len(call) : /\ call'[n].overtaken = call[n].overtaken
                                     /\ call'[n].cancelled = call[n].cancelled
<1>1. Len(call) \in Nat /\ DOMAIN call = 1..Len(call)
  BY LenProperties DEF Calls
<1>2. \A n \in DOMAIN call : call[n] \in CallRecord
  BY <1>1, ElementOfSeq DEF Calls
<1>3. ASSUME NEW n \in DOMAIN call, Headers(n) \/ Unauthorized(n)
      PROVE  \E pc \in {"refreshing", "waiting", "reading"} :
                Under(call[n]) /\ call' = End(call, n, pc)
  BY <1>3 DEF Headers, Unauthorized, Under
<1>4. CASE \E n \in DOMAIN call : Headers(n) \/ Unauthorized(n)
  BY <1>3, <1>4, EndGrows
<1>5. ASSUME NEW pc \in {"over", "again", "failed"}, NEW c \in CallRecord, Under(c)
      PROVE  LET d == [c EXCEPT !.pc = pc] IN
             /\ d \in CallRecord /\ Follows(c, d)
             /\ d.overtaken = c.overtaken /\ d.cancelled = c.cancelled
  BY <1>5 DEF CallRecord, Follows
<1>6. \A c \in CallRecord : Follows(c, c)
  BY DEF Follows
<1>7. ASSUME RefreshSucceeds \/ RefreshFails
      PROVE  /\ DOMAIN call' = DOMAIN call /\ call' = [n \in DOMAIN call' |-> call'[n]]
             /\ \A n \in DOMAIN call :
                   \/ call'[n] = call[n]
                   \/ /\ Under(call[n])
                      /\ \E pc \in {"over", "again", "failed"} :
                            call'[n] = [call[n] EXCEPT !.pc = pc]
  <2>1. CASE RefreshSucceeds
    BY <2>1 DEF RefreshSucceeds, Under
  <2>2. CASE RefreshFails
    BY <2>2 DEF RefreshFails, Under
  <2>3. QED
    BY <1>7, <2>1, <2>2
<1>8. CASE RefreshSucceeds \/ RefreshFails
  <2>1. ASSUME NEW n \in DOMAIN call
        PROVE  /\ call'[n] \in CallRecord /\ Follows(call[n], call'[n])
               /\ call'[n].overtaken = call[n].overtaken
               /\ call'[n].cancelled = call[n].cancelled
    <3>1. CASE call'[n] = call[n]
      BY <1>2, <1>6, <3>1
    <3>2. CASE /\ Under(call[n])
               /\ \E pc \in {"over", "again", "failed"} : call'[n] = [call[n] EXCEPT !.pc = pc]
      BY <1>2, <1>5, <3>2
    <3>3. QED
      BY <1>7, <1>8, <3>1, <3>2
  <2>2. QED
    BY <1>1, <1>7, <1>8, <2>1, CallsMap
<1>9. CASE OtherUnauthorized
  BY <1>1, <1>2, <1>6, <1>9 DEF OtherUnauthorized, Grows
<1>10. QED
  BY <1>4, <1>8, <1>9

-----------------------------------------------------------------------------
(***************************************************************************)
(* What a step does to the messages: nothing, another list, one more turn, *)
(* an update of the last message, its removal.                             *)
(***************************************************************************)
\* Traces stay.
LEMMA TracesStay ==
    ASSUME Grows(call, call')
    PROVE  /\ DOMAIN call = 1..Len(call) /\ Len(call) \in Nat
           /\ DOMAIN call' = 1..Len(call') /\ Len(call') \in Nat
           /\ DOMAIN call \subseteq DOMAIN call'
           /\ \A n \in DOMAIN call :
                 call[n] \in CallRecord /\ call'[n] \in CallRecord /\ Follows(call[n], call'[n])
           /\ Late => Late'
           /\ Turned => Turned'
           /\ \A n : Stray(n) => Stray(n)'
<1>1. /\ DOMAIN call = 1..Len(call) /\ DOMAIN call' = 1..Len(call')
      /\ Len(call) \in Nat /\ Len(call') \in Nat
  BY LenProperties DEF Grows, Calls
<1>2. /\ DOMAIN call \subseteq DOMAIN call'
      /\ \A n \in DOMAIN call :
            call[n] \in CallRecord /\ call'[n] \in CallRecord /\ Follows(call[n], call'[n])
  BY <1>1, ElementOfSeq DEF Grows, Calls
<1>3. Late => Late'
  BY <1>2 DEF Late, Follows, Under
<1>4. QED
  BY <1>1, <1>2, <1>3 DEF Turned, Stray, Follows

\* No new execution, no other list.
LEMMA ListKept ==
    ASSUME MessagesOK, Grows(call, call'), UNCHANGED messages,
           \A n \in DOMAIN call : call'[n].overtaken = call[n].overtaken,
           \A n \in DOMAIN call' \ DOMAIN call : call'[n].kind # "execute"
    PROVE  MessagesOK'
<1> USE TracesStay
<1>1. \A n : Gone(n) => Gone(n)'
  BY DEF Gone
<1>2. ASSUME NEW k \in DOMAIN messages'
      PROVE  MessageOK(messages[k])' /\ ShowsOK(messages[k])'
  <2>1. MessageOK(messages[k]) /\ ShowsOK(messages[k]) /\ messages'[k] = messages[k]
    BY <1>2 DEF MessagesOK
  <2>2. MessageOK(messages[k])'
    BY <2>1 DEF MessageOK, Grows
  <2>3. ShowsOK(messages[k])'
    BY <1>1, <2>1 DEF ShowsOK, Gone
  <2>4. QED
    BY <2>2, <2>3
<1>3. ASSUME NEW n \in DOMAIN call', Current(call'[n]), call'[n].kind = "execute"
      PROVE  PlaceOK(n)'
  <2>1. n \in DOMAIN call
    BY <1>3
  <2>2. Current(call[n]) /\ call[n].kind = "execute"
    BY <1>3, <2>1, FollowsCurrent DEF Follows
  <2>3. PlaceOK(n)
    BY <2>1, <2>2 DEF MessagesOK
  <2>4. QED
    BY <2>1, <2>3 DEF PlaceOK
<1>4. QED
  BY <1>2, <1>3 DEF MessagesOK

\* Messages of a history.
Old(m) ==
    /\ m.call = 0 /\ m.status = "completed" /\ m.extras \subseteq {0}
    /\ m.text = IF m.role = "assistant" THEN {0} ELSE {}

\* Another list, which overtakes what is under way.
LEMMA ListReplaced ==
    ASSUME Grows(call, call'),
           \A k \in DOMAIN messages' : Old(messages'[k]),
           \A n \in DOMAIN call' : Current(call'[n]) /\ call'[n].kind = "execute"
                                     => call'[n].overtaken = TRUE
    PROVE  MessagesOK'
<1> USE TracesStay
<1>1. \A k \in DOMAIN messages' : MessageOK(messages[k])' /\ ShowsOK(messages[k])'
  BY DEF Old, MessageOK, ShowsOK
<1>2. ASSUME NEW n \in DOMAIN call', call'[n].overtaken = TRUE
      PROVE  PlaceOK(n)'
  BY <1>2 DEF PlaceOK, Old, IsAnswerTo
<1>3. QED
  BY <1>1, <1>2 DEF MessagesOK

\* Two messages more.
LEMMA TurnAppended ==
    ASSUME messages \in Messages, NEW n \in Nat, NEW c \in AnyConversation,
           messages' = messages \o Turn(n, c)
    PROVE  /\ messages' \in Messages /\ Len(messages) \in Nat
           /\ Len(messages') = Len(messages) + 2
           /\ \A k \in DOMAIN messages : messages'[k] = messages[k]
           /\ messages'[Len(messages) + 1] = Message("user", n, c, "completed", {})
           /\ messages'[Len(messages) + 2] = Message("assistant", n, c, "streaming", {})
           /\ \A k \in DOMAIN messages' : \/ k \in DOMAIN messages
                                         \/ k = Len(messages) + 1 \/ k = Len(messages) + 2
<1> DEFINE l == Len(messages)
           u == Message("user", n, c, "completed", {})
           a == Message("assistant", n, c, "streaming", {})
<1>1. u \in MessageRecord /\ a \in MessageRecord
  BY DEF Message, MessageRecord
<1>3. Turn(n, c) = <<u, a>>
  BY DEF Turn
<1> HIDE DEF u, a
<1>4. /\ <<u, a>> \in Messages /\ Len(<<u, a>>) = 2
      /\ <<u, a>>[1] = u /\ <<u, a>>[2] = a
  BY <1>1 DEF Messages
<1>0. messages \in Seq(MessageRecord) /\ <<u, a>> \in Seq(MessageRecord)
  BY <1>4 DEF Messages
<1>5. /\ messages' \in Messages /\ Len(messages') = l + 2 /\ l \in Nat
      /\ \A k \in 1..l + 2 : messages'[k] = IF k <= l THEN messages[k] ELSE <<u, a>>[k - l]
  <2> DEFINE p == messages \o <<u, a>>
  <2>1. /\ p \in Seq(MessageRecord) /\ Len(p) = Len(messages) + Len(<<u, a>>)
        /\ \A k \in 1..Len(messages) + Len(<<u, a>>) :
              p[k] = IF k <= Len(messages) THEN messages[k] ELSE <<u, a>>[k - Len(messages)]
    BY <1>0, ConcatProperties
  <2>2. messages' = p /\ l \in Nat
    BY <1>0, <1>3, LenProperties
  <2> HIDE DEF p
  <2>3. QED
    BY <1>4, <2>1, <2>2 DEF Messages
<1>6. /\ DOMAIN messages = 1..l /\ DOMAIN messages' = 1..l + 2
  BY <1>5, LenProperties DEF Messages
<1>7. /\ \A k \in DOMAIN messages : messages'[k] = messages[k]
      /\ messages'[l + 1] = u /\ messages'[l + 2] = a
  BY <1>4, <1>5, <1>6
<1>8. \A k \in DOMAIN messages' : k \in DOMAIN messages \/ k = l + 1 \/ k = l + 2
  <2> HIDE DEF l
  <2>1. QED
    BY <1>5, <1>6
<1>9. QED
  BY <1>5, <1>7, <1>8 DEF u, a, l

\* One more turn, of an execution that no other one is current beside.
LEMMA ListExtended ==
    ASSUME MessagesOK, messages \in Messages, Grows(call, call'),
           NEW n, n = Len(call) + 1, Len(call') = n, NEW c \in AnyConversation,
           messages' = messages \o Turn(n, c),
           \A k \in DOMAIN call : /\ call'[k].overtaken = call[k].overtaken
                                  /\ ~Current(call'[k]),
           call'[n].overtaken = FALSE
    PROVE  MessagesOK' /\ messages' \in Messages
<1> DEFINE l == Len(messages)
           u == Message("user", n, c, "completed", {})
           a == Message("assistant", n, c, "streaming", {})
<1>1. n \in Nat
  BY TracesStay
<1>2. /\ u.call = n /\ u.role = "user" /\ u.status = "completed"
      /\ u.text = {} /\ u.extras = {}
      /\ a.call = n /\ a.role = "assistant" /\ a.status = "streaming"
      /\ a.text = {} /\ a.extras = {}
  BY DEF Message
<1>5. /\ messages' \in Messages /\ l \in Nat /\ Len(messages') = l + 2
      /\ \A k \in DOMAIN messages : messages'[k] = messages[k]
      /\ messages'[l + 1] = u /\ messages'[l + 2] = a
      /\ \A k \in DOMAIN messages' : k \in DOMAIN messages \/ k = l + 1 \/ k = l + 2
  BY <1>1, TurnAppended
<1>6. DOMAIN messages = 1..l /\ DOMAIN messages' = 1..l + 2
  BY <1>5, LenProperties DEF Messages
<1> HIDE DEF l, u, a
<1>9. ASSUME NEW m, Gone(m) PROVE Gone(m)'
  <2>1. m \in DOMAIN call /\ m # n
    BY TracesStay, <1>9 DEF Gone
  <2>2. QED
    BY TracesStay, <1>2, <1>5, <1>6, <1>9, <2>1 DEF Gone, IsAnswerTo
<1>10. ASSUME NEW k \in DOMAIN messages
       PROVE  MessageOK(messages[k])' /\ ShowsOK(messages[k])'
  <2>1. MessageOK(messages[k]) /\ ShowsOK(messages[k]) /\ messages'[k] = messages[k]
    BY <1>5 DEF MessagesOK
  <2>2. MessageOK(messages[k])'
    BY TracesStay, <2>1 DEF MessageOK, Grows
  <2>3. ShowsOK(messages[k])'
    BY TracesStay, <1>9, <2>1 DEF ShowsOK, Gone
  <2>4. QED
    BY <2>2, <2>3
<1>11. ASSUME NEW k \in {l + 1, l + 2}
       PROVE  MessageOK(messages[k])' /\ ShowsOK(messages[k])'
  <2>1. /\ messages'[k].call = n /\ messages'[k].text = {} /\ messages'[k].extras = {}
        /\ messages'[k].role = "assistant" => messages'[k].status = "streaming"
    BY <1>2, <1>5, <1>11
  <2>2. n \in 0..Len(call')
    BY TracesStay
  <2>3. QED
    BY <2>1, <2>2 DEF MessageOK, ShowsOK
<1>12. ASSUME NEW k \in DOMAIN call', Current(call'[k])
       PROVE  PlaceOK(k)'
  <2>1. k = n
    BY TracesStay, <1>12
  <2>2. \A i \in DOMAIN messages : messages[i].call # n
    BY TracesStay DEF MessagesOK, MessageOK
  <2>3. \A i \in DOMAIN messages' : IsAnswerTo(messages'[i], n) => i = Len(messages')
    BY <1>2, <1>5, <1>6, <2>2 DEF IsAnswerTo
  <2>4. messages' # <<>> /\ IsAnswerTo(messages'[Len(messages')], n)
    BY <1>2, <1>5, <1>6, EmptySeq DEF IsAnswerTo, Messages
  <2>5. QED
    BY <2>1, <2>3, <2>4 DEF PlaceOK
<1>13. QED
  BY <1>5, <1>10, <1>11, <1>12 DEF MessagesOK

\* An execution that comes back finds its own message last, unless it was
\* cancelled or its message is gone.  In the latter case nothing waits for
\* a text but where late answers have been.
LEMMA Lands ==
    ASSUME PageType, MessagesOK, NEW n \in DOMAIN call,
           call[n].kind = "execute", Under(call[n]), LastIsAnswer
    PROVE  LET o == messages[Len(messages)] IN
           /\ o.call = n \/ Stray(n) \/ Gone(n)
           /\ o.status = "streaming" /\ o.call # n /\ ~Stray(n)
                => Gone(n) /\ call[n].overtaken = FALSE /\ Late
<1> DEFINE o == messages[Len(messages)]
<1>1. CASE Stray(n)
  BY <1>1
<1>2. CASE ~Stray(n)
  <2>1. call[n] \in CallRecord
    BY LenProperties, ElementOfSeq DEF PageType, Calls
  <2>2. Current(call[n])
    BY <1>2, <2>1 DEF Stray, Current, CallRecord
  <2>3. PlaceOK(n)
    BY <2>2 DEF MessagesOK
  <2>4. Len(messages) \in DOMAIN messages /\ o.role = "assistant"
    BY LenProperties, EmptySeq DEF LastIsAnswer, PageType, Messages
  <2>5. o.call = n \/ Gone(n)
    BY <2>3 DEF PlaceOK, Gone, IsAnswerTo
  <2>6. ASSUME o.status = "streaming", o.call # n
        PROVE  call[n].overtaken = FALSE /\ Late
    <3>1. ~(call[n].overtaken = TRUE)
      BY <2>3, <2>4, <2>6 DEF PlaceOK
    <3>2. QED
      BY <2>1, <2>3, <2>6, <3>1 DEF PlaceOK, IsAnswerTo, CallRecord
  <2>7. QED
    BY <2>5, <2>6
<1>3. QED
  BY <1>1, <1>2

\* The one that ends is not the one that goes on.
LEMMA OthersEnd ==
    ASSUME PageType, ActiveOK, NEW n \in DOMAIN call, Under(call[n]),
           call[n].kind \in {"prepare", "execute"},
           NEW m \in DOMAIN call, m # n, Current(call[m])
    PROVE  call[n].cancelled = TRUE
<1>1. call[n] \in CallRecord
  BY LenProperties, ElementOfSeq DEF PageType, Calls
<1>2. ~Current(call[n])
  BY DEF ActiveOK
<1>3. QED
  BY <1>1, <1>2 DEF Current, CallRecord

\* An execution n ends and has the last message become m.
LEMMA LastUpdated ==
    ASSUME PageType, ActiveOK, MessagesOK, NEW n \in DOMAIN call,
           call[n].kind = "execute", Under(call[n]),
           NEW pc \in {"answered", "over"}, call' = End(call, n, pc),
           NEW m, messages' = Last(m),
           LastIsAnswer =>
              LET o == messages[Len(messages)] IN
              /\ m \in MessageRecord /\ m.role = o.role /\ m.call = o.call
              /\ m.status # "streaming" /\ m.extras \subseteq o.extras \cup {n}
              /\ \/ m.text = o.text /\ m.status = o.status
                 \/ m.text = {n} /\ m.status = "error"
                 \/ m.text = {n} /\ o.status = "streaming" /\ pc = "answered"
    PROVE  MessagesOK' /\ messages' \in Messages
<1> DEFINE l == Len(messages)
           o == messages[l]
<1>1. /\ Grows(call, call') /\ Len(call') = Len(call)
      /\ \A k \in 1..Len(call) :
            /\ call'[k].overtaken = call[k].overtaken /\ call'[k].cancelled = call[k].cancelled
            /\ k # n => call'[k] = call[k]
      /\ call'[n].pc = pc
  BY EndGrows DEF PageType
<1>2. /\ DOMAIN call = 1..Len(call) /\ DOMAIN call' = DOMAIN call
      /\ Late => Late'
      /\ \A k : Stray(k) => Stray(k)'
  BY <1>1, TracesStay
<1>3. CASE ~LastIsAnswer
  <2>1. UNCHANGED messages
    BY <1>3 DEF Last
  <2>2. MessagesOK'
    BY <1>1, <1>2, <2>1, ListKept
  <2>3. QED
    BY <2>1, <2>2 DEF PageType
<1>4. CASE LastIsAnswer
  <2>1. /\ messages \in Seq(MessageRecord) /\ l \in Nat /\ DOMAIN messages = 1..l /\ l \in 1..l
        /\ o.role = "assistant"
    BY <1>4, LenProperties, EmptySeq DEF LastIsAnswer, PageType, Messages
  <2>2. messages' = [messages EXCEPT ![l] = m] /\ m \in MessageRecord
    BY <1>4 DEF Last
  <2>3. /\ messages' \in Messages /\ Len(messages') = l
        /\ \A k \in 1..l : messages'[k] = IF k = l THEN m ELSE messages[k]
    BY <2>1, <2>2, ExceptSeq DEF Messages
  <2>4. DOMAIN messages' = 1..l
    BY <2>3, LenProperties DEF Messages
  <2>5. /\ m.role = "assistant" /\ m.call = o.call
        /\ m.status # "streaming" /\ m.extras \subseteq o.extras \cup {n}
        /\ \/ m.text = o.text /\ m.status = o.status
           \/ m.text = {n} /\ m.status = "error"
           \/ m.text = {n} /\ o.status = "streaming" /\ pc = "answered"
    BY <1>4, <2>1
  <2>6. /\ o.call = n \/ Stray(n) \/ Gone(n)
        /\ o.status = "streaming" /\ o.call # n /\ ~Stray(n)
             => Gone(n) /\ call[n].overtaken = FALSE /\ Late
    BY <1>4, Lands
  <2>7. MessageOK(o) /\ ShowsOK(o)
    BY <2>1 DEF MessagesOK
  <2> HIDE DEF o, l
  <2>8. \A k, j : k \in 1..l => (IsAnswerTo(messages'[k], j) <=> IsAnswerTo(messages[k], j))
    BY <2>1, <2>3, <2>5 DEF IsAnswerTo, o
  <2>9. \A k : Gone(k) => Gone(k)'
    BY <1>2, <2>1, <2>4, <2>8 DEF Gone
  <2>10. MessageOK(m)'
    <3>1. m.call \in 0..Len(call')
      BY <1>1, <2>5, <2>7 DEF MessageOK
    <3>2. ASSUME m.status = "completed"
          PROVE  m.text = {m.call} \/ Late'
      <4>1. CASE m.text = o.text /\ m.status = o.status
        BY <1>2, <2>1, <2>5, <2>7, <3>2, <4>1 DEF MessageOK
      <4>2. CASE m.text = {n} /\ o.status = "streaming" /\ pc = "answered"
        <5>1. CASE o.call = n
          BY <2>5, <4>2, <5>1
        <5>2. CASE Stray(n)
          BY <1>1, <1>2, <4>2, <5>2 DEF Stray, Late
        <5>3. CASE o.call # n /\ ~Stray(n)
          BY <1>2, <2>6, <4>2, <5>3
        <5>4. QED
          BY <5>1, <5>2, <5>3
      <4>3. QED
        BY <2>5, <3>2, <4>1, <4>2
    <3>3. QED
      BY <2>5, <3>1, <3>2 DEF MessageOK
  <2>11. ShowsOK(m)'
    <3>1. \A k \in m.extras : k = m.call \/ Stray(k)' \/ Gone(k)'
      BY <1>2, <2>5, <2>6, <2>7, <2>9 DEF ShowsOK
    <3>2. ASSUME NEW k \in m.text
          PROVE  \/ k = m.call \/ Stray(k)'
                 \/ Gone(k)' /\ (m.status = "error" \/ call'[k].overtaken = FALSE)
      <4>1. CASE m.text = o.text /\ m.status = o.status
        <5>1. \/ k = o.call \/ Stray(k)
              \/ Gone(k) /\ (o.status = "error" \/ call[k].overtaken = FALSE)
          BY <2>7, <3>2, <4>1 DEF ShowsOK
        <5>2. Gone(k) => call'[k].overtaken = call[k].overtaken
          BY <1>1, <1>2 DEF Gone
        <5>3. QED
          BY <1>2, <2>5, <2>9, <4>1, <5>1, <5>2
      <4>2. CASE m.text = {n} /\ m.status = "error"
        BY <1>2, <2>5, <2>6, <2>9, <3>2, <4>2
      <4>3. CASE m.text = {n} /\ o.status = "streaming"
        BY <1>1, <1>2, <2>5, <2>6, <2>9, <3>2, <4>3
      <4>4. QED
        BY <2>5, <4>1, <4>2, <4>3
    <3>3. QED
      BY <3>1, <3>2 DEF ShowsOK
  <2>12. ASSUME NEW k \in 1..l, k # l
         PROVE  MessageOK(messages[k])' /\ ShowsOK(messages[k])'
    <3>1. MessageOK(messages[k]) /\ ShowsOK(messages[k]) /\ messages'[k] = messages[k]
      BY <2>1, <2>3, <2>12 DEF MessagesOK
    <3>2. MessageOK(messages[k])'
      BY <1>1, <1>2, <3>1 DEF MessageOK
    <3>3. \A j : Gone(j) => call'[j].overtaken = call[j].overtaken
      BY <1>1, <1>2 DEF Gone
    <3>4. ShowsOK(messages[k])'
      BY <1>2, <2>9, <3>1, <3>3 DEF ShowsOK
    <3>5. QED
      BY <3>2, <3>4
  <2>13. ASSUME NEW k \in DOMAIN call', Current(call'[k]), call'[k].kind = "execute"
         PROVE  PlaceOK(k)'
    <3>1. k # n
      BY <1>1, <2>13 DEF Current, Under
    <3>2. PlaceOK(k) /\ call'[k] = call[k]
      BY <1>1, <1>2, <2>13, <3>1 DEF MessagesOK
    <3>3. \A i \in 1..l : messages'[i].status = "streaming" => messages[i].status = "streaming"
      BY <2>3, <2>5
    <3>4. messages' # <<>>
      BY <2>1, <2>4
    <3>5. QED
      BY <1>2, <2>1, <2>3, <2>4, <2>8, <3>2, <3>3, <3>4 DEF PlaceOK, l
  <2>14. QED
    BY <2>3, <2>4, <2>10, <2>11, <2>12, <2>13 DEF MessagesOK
<1>5. QED
  BY <1>3, <1>4

\* An execution that asks back takes the last message away.
LEMMA LastWithdrawn ==
    ASSUME PageType, ActiveOK, MessagesOK, NEW n \in DOMAIN call,
           call[n].kind = "execute", Under(call[n]), call' = End(call, n, "answered"),
           messages' = SubSeq(messages, 1, Len(messages) - 1)
    PROVE  /\ MessagesOK' /\ messages' \in Messages
           /\ DOMAIN messages' \subseteq DOMAIN messages
           /\ \A k \in DOMAIN messages' : messages'[k] = messages[k]
<1> DEFINE l == Len(messages)
<1>1. /\ Grows(call, call') /\ Len(call') = Len(call)
      /\ \A k \in 1..Len(call) :
            /\ call'[k].overtaken = call[k].overtaken /\ call'[k].cancelled = call[k].cancelled
            /\ k # n => call'[k] = call[k]
      /\ call'[n].pc = "answered"
  BY EndGrows DEF PageType
<1>2. /\ DOMAIN call = 1..Len(call) /\ DOMAIN call' = DOMAIN call
      /\ Late => Late'
      /\ \A k : Stray(k) => Stray(k)'
  BY <1>1, TracesStay
<1>3. messages \in Seq(MessageRecord) /\ l \in Nat /\ DOMAIN messages = 1..l
  BY LenProperties DEF PageType, Messages
<1>4. \A i \in 1..l - 1 : messages[i] \in MessageRecord
  BY <1>3, ElementOfSeq
<1>5. /\ messages' \in Seq(MessageRecord)
      /\ Len(messages') = IF 1 <= l - 1 THEN l - 1 - 1 + 1 ELSE 0
      /\ \A i \in 1..l - 1 - 1 + 1 : messages'[i] = messages[1 + i - 1]
  BY <1>3, <1>4, SubSeqProperties
<1> HIDE DEF l
<1>6. /\ DOMAIN messages' \subseteq DOMAIN messages /\ l \notin DOMAIN messages'
      /\ \A k \in DOMAIN messages' : messages'[k] = messages[k]
  <2>1. DOMAIN messages' = 1..Len(messages')
    BY <1>5, LenProperties
  <2>2. \A k \in 1..Len(messages') : k \in 1..l - 1 /\ messages'[k] = messages[k]
    BY <1>3, <1>5
  <2>3. QED
    BY <1>3, <2>1, <2>2
<1>7. \A k : Gone(k) => Gone(k)' /\ call'[k].overtaken = call[k].overtaken
  BY <1>1, <1>2, <1>6 DEF Gone
<1>8. ASSUME NEW k \in DOMAIN messages'
      PROVE  MessageOK(messages[k])' /\ ShowsOK(messages[k])'
  <2>1. MessageOK(messages[k]) /\ ShowsOK(messages[k]) /\ messages'[k] = messages[k]
    BY <1>6, <1>8 DEF MessagesOK
  <2>2. MessageOK(messages[k])'
    BY <1>1, <1>2, <2>1 DEF MessageOK
  <2>3. ShowsOK(messages[k])'
    BY <1>2, <1>7, <2>1 DEF ShowsOK
  <2>4. QED
    BY <2>2, <2>3
<1>9. ASSUME NEW k \in DOMAIN call', Current(call'[k]), call'[k].kind = "execute"
      PROVE  PlaceOK(k)'
  <2>1. k # n
    BY <1>1, <1>9 DEF Current, Under
  <2>2. PlaceOK(k) /\ call'[k] = call[k] /\ Current(call[k])
    BY <1>1, <1>2, <1>9, <2>1 DEF MessagesOK
  <2>3. call[n].cancelled = TRUE
    BY <1>2, <2>1, <2>2, OthersEnd
  <2>4. Late'
    BY <1>1, <1>2, <2>3 DEF Late
  <2>5. \A i \in DOMAIN messages' : ~IsAnswerTo(messages'[i], k)
    BY <1>6, <2>2 DEF PlaceOK, l
  <2>6. QED
    BY <1>6, <2>2, <2>4, <2>5 DEF PlaceOK
<1>10. QED
  BY <1>5, <1>6, <1>8, <1>9 DEF MessagesOK, Messages

-----------------------------------------------------------------------------
(***************************************************************************)
(* The steps of the page.                                                  *)
(***************************************************************************)
LateIn(a) == \E n \in DOMAIN a : a[n].cancelled = TRUE /\ a[n].pc = "answered"

LEMMA LateInStays ==
    ASSUME NEW a, Grows(a, call'), LateIn(a)
    PROVE  Late'
<1>1. /\ DOMAIN a = 1..Len(a) /\ DOMAIN call' = 1..Len(call')
      /\ Len(a) \in Nat /\ Len(call') \in Nat
  BY LenProperties DEF Grows, Calls
<1>2. PICK n \in DOMAIN a : a[n].cancelled = TRUE /\ a[n].pc = "answered"
  BY DEF LateIn
<1>3. n \in DOMAIN call' /\ Follows(a[n], call'[n])
  BY <1>1 DEF Grows
<1>4. QED
  BY <1>2, <1>3 DEF Late, Follows, Under

\* A load is a load of some conversation, also later.
LEMMA LoadsStay ==
    ASSUME PageType, Grows(call, call'), NEW n \in DOMAIN call, call'[n].kind = "load"
    PROVE  call'[n].conversation \in Conversation
BY TracesStay DEF PageType, Follows

\* The calls under way, when no new one comes.
LEMMA ListStays ==
    ASSUME PageType, ListOK, Grows(call, call'), Len(call') = Len(call),
           UNCHANGED <<shown, messages>>
    PROVE  ListOK'
<1>1. CASE Turned'
  BY <1>1 DEF ListOK
<1>2. CASE ~Turned'
  <2>1. ~Turned /\ DOMAIN call' = DOMAIN call
    BY <1>2, TracesStay
  <2>2. ASSUME NEW n \in DOMAIN call',
               Current(call'[n]) \/ (call'[n].kind = "load" /\ Under(call'[n]))
        PROVE  call'[n].conversation = shown'
    <3>1. /\ call[n] \in CallRecord /\ call'[n] \in CallRecord /\ Follows(call[n], call'[n])
      BY <2>1, <2>2, TracesStay
    <3>2. Current(call[n]) \/ (call[n].kind = "load" /\ Under(call[n]))
      BY <2>2, <3>1, FollowsCurrent DEF Follows
    <3>3. QED
      BY <2>1, <3>1, <3>2 DEF ListOK, Follows
  <2>3. QED
    BY <2>1, <2>2 DEF ListOK
<1>3. QED
  BY <1>1, <1>2

\* A question is executed: calls are those there are, of which none but the
\* one that is cancelled may be current.
LEMMA ExecuteKeeps ==
    ASSUME PageInv, NEW calls, Grows(call, calls), Len(calls) = Len(call),
           \A n \in DOMAIN call : calls[n].overtaken = call[n].overtaken,
           NEW cancels \in Nat, \A n \in DOMAIN call : Current(calls[n]) => n = cancels,
           NEW query \in AnyQuery, NEW conversation \in AnyConversation,
           LateIn(calls) \/ query = original',
           LateIn(calls) \/ Turned \/ conversation = shown,
           original' \in AnyQuery,
           Execute(calls, cancels, query, conversation)
    PROVE  PageInv'
<1> DEFINE n == Len(calls) + 1
           new == conversation = NoConversation
           c == IF new THEN n ELSE conversation
           cut == Cut(calls, cancels)
<1>0. /\ calls \in Calls /\ Len(calls) \in Nat
      /\ DOMAIN call = 1..Len(call) /\ Len(call) \in Nat
  BY LenProperties DEF Grows, Calls
<1>1. /\ n \in Nat /\ n <= MaxCalls /\ c \in AnyConversation
      /\ calls \in Calls /\ cut \in Calls
      /\ DOMAIN call = 1..Len(call) /\ Len(call) \in Nat
  BY <1>0, CutGrows DEF Execute, May, Grows, AnyConversation
<1>2. /\ Grows(calls, cut) /\ Len(cut) = Len(calls)
      /\ \A k \in 1..Len(calls) :
            cut[k].overtaken = calls[k].overtaken /\ (Current(cut[k]) => k # cancels)
  BY <1>1, CutGrows
<1>3. \A k \in DOMAIN call : ~Current(cut[k]) /\ cut[k].overtaken = call[k].overtaken
  <2> TAKE k \in DOMAIN call
  <2>1. k \in 1..Len(calls) /\ calls[k] \in CallRecord /\ cut[k] \in CallRecord
    BY <1>1, <1>2, ElementOfSeq DEF Calls
  <2>2. Current(cut[k]) => Current(calls[k]) /\ k # cancels
    BY <1>2, <2>1, FollowsCurrent DEF Grows
  <2>3. QED
    BY <1>2, <2>1, <2>2
<1>4. /\ call' = Append(cut, Sent("execute", query, c))
      /\ shown' = (IF new THEN c ELSE shown)
      /\ messages' = messages \o Turn(n, c)
      /\ state' = "querying" /\ active' = n
  BY DEF Execute
<1> HIDE DEF cut, c
<1>5. /\ Grows(cut, call') /\ Len(call') = n /\ DOMAIN call' = 1..n
      /\ \A k \in 1..Len(call) : call'[k] = cut[k]
      /\ call'[n].kind = "execute" /\ call'[n].query = query /\ call'[n].conversation = c
      /\ call'[n].cancelled = FALSE /\ call'[n].overtaken = FALSE
  <2>1. /\ Grows(cut, call') /\ Len(call') = Len(cut) + 1 /\ DOMAIN call' = 1..Len(cut) + 1
        /\ \A k \in 1..Len(cut) : call'[k] = cut[k]
        /\ LET m == Len(cut) + 1 IN
              /\ call'[m].kind = "execute" /\ call'[m].query = query
              /\ call'[m].conversation = c
              /\ call'[m].cancelled = FALSE /\ call'[m].overtaken = FALSE
    <3>1. /\ cut \in Calls /\ c \in AnyConversation /\ query \in AnyQuery
          /\ call' = Append(cut, Sent("execute", query, c))
      BY <1>1, <1>4
    <3>2. "execute" \in {"prepare", "execute", "load"}
      OBVIOUS
    <3>3. QED
      BY ONLY <3>1, <3>2, NewCall, ZenonT(30)
  <2>2. Len(cut) = Len(call) /\ n = Len(cut) + 1
    BY <1>2
  <2>3. QED
    BY <2>1, <2>2
<1>6. Grows(calls, call') /\ Grows(call, call')
  BY <1>2, <1>5, GrowsTransitive
<1>7. \A k \in DOMAIN call : /\ call'[k].overtaken = call[k].overtaken
                             /\ ~Current(call'[k])
  BY <1>1, <1>3, <1>5
<1>8. MessagesOK' /\ messages' \in Messages
  BY <1>1, <1>4, <1>5, <1>6, <1>7, ListExtended DEF PageInv, PageType
<1>9. \A k \in DOMAIN call' : k \in DOMAIN call \/ k = n
  BY <1>1, <1>5
<1>10. PageType'
  <2>1. \A k \in DOMAIN call' : call'[k].kind = "load" => call'[k].conversation \in Conversation
    BY <1>5, <1>6, <1>9, LoadsStay DEF PageInv
  <2>2. shown' \in AnyConversation
    BY <1>1, <1>4 DEF PageInv, PageType
  <2>3. active' \in 0..Len(call')
    BY <1>1, <1>4, <1>5
  <2>4. QED
    BY <1>4, <1>6, <1>8, <2>1, <2>2, <2>3 DEF PageType, Grows
<1>11. ActiveOK'
  BY <1>4, <1>7, <1>9 DEF ActiveOK
<1>12. QuestionOK'
  <2>1. CASE LateIn(calls)
    BY <1>6, <2>1, LateInStays DEF QuestionOK
  <2>2. CASE query = original'
    BY <1>4, <1>5, <1>7, <1>9, <2>2 DEF QuestionOK
  <2>3. QED
    BY <2>1, <2>2
<1>13. ListOK'
  <2>1. CASE Turned'
    BY <2>1 DEF ListOK
  <2>2. CASE ~Turned'
    <3>1. ~Turned /\ conversation = shown
      BY <1>6, <2>2, TracesStay, LateInStays DEF Turned
    <3>2. /\ \A k \in DOMAIN messages : messages[k].conversation = shown
          /\ shown = NoConversation => messages = <<>>
          /\ \A k \in DOMAIN call : call[k].kind = "load" /\ Under(call[k])
                                       => call[k].conversation = shown
      BY <3>1 DEF PageInv, ListOK
    <3>3. shown' = c /\ shown' # NoConversation
      BY <1>1, <1>4, <3>1, ConversationAssumption DEF c
    <3>4. new \/ shown' = shown
      BY <1>4
    <3>5. \A k \in DOMAIN messages' : messages'[k].conversation = c
      <4> DEFINE l == Len(messages)
      <4>1. messages \in Messages
        BY DEF PageInv, PageType
      <4>2. /\ \A k \in DOMAIN messages : messages'[k] = messages[k]
            /\ messages'[l + 1].conversation = c /\ messages'[l + 2].conversation = c
            /\ \A k \in DOMAIN messages' : k \in DOMAIN messages \/ k = l + 1 \/ k = l + 2
        <5>1. /\ \A k \in DOMAIN messages : messages'[k] = messages[k]
              /\ messages'[l + 1] = Message("user", n, c, "completed", {})
              /\ messages'[l + 2] = Message("assistant", n, c, "streaming", {})
              /\ \A k \in DOMAIN messages' : k \in DOMAIN messages \/ k = l + 1 \/ k = l + 2
          BY <1>1, <1>4, <4>1, TurnAppended
        <5>2. QED
          BY <5>1 DEF Message
      <4> HIDE DEF l
      <4> TAKE k \in DOMAIN messages'
      <4>3. CASE k \in DOMAIN messages
        <5>1. messages # <<>>
          BY <4>3
        <5>2. QED
          BY <3>1, <3>2, <3>3, <3>4, <4>2, <4>3, <5>1
      <4>4. QED
        BY <4>2, <4>3
    <3>6. ASSUME NEW k \in DOMAIN call',
                 Current(call'[k]) \/ (call'[k].kind = "load" /\ Under(call'[k]))
          PROVE  call'[k].conversation = shown'
      <4>1. CASE k = n
        BY <1>5, <3>3, <4>1
      <4>2. CASE k \in DOMAIN call
        <5>1. /\ call[k] \in CallRecord /\ call'[k] \in CallRecord /\ Follows(call[k], call'[k])
          BY <1>6, <4>2, TracesStay
        <5>2. call[k].kind = "load" /\ Under(call[k]) /\ call'[k].conversation = call[k].conversation
          BY <1>7, <3>6, <4>2, <5>1, FollowsCurrent DEF Follows
        <5>3. call[k].conversation = shown /\ shown # NoConversation
          BY <3>2, <4>2, <5>2, ConversationAssumption DEF PageInv, PageType
        <5>4. QED
          BY <3>1, <3>4, <5>2, <5>3
      <4>3. QED
        BY <1>9, <4>1, <4>2
    <3>7. QED
      BY <3>3, <3>5, <3>6 DEF ListOK
  <2>3. QED
    BY <2>1, <2>2
<1>14. QED
  BY <1>8, <1>10, <1>11, <1>12, <1>13 DEF PageInv

\* A prepared question is executed, or confirmed first.
LEMMA ReadyKeeps ==
    ASSUME PageInv, NEW calls, Grows(call, calls), Len(calls) = Len(call),
           \A n \in DOMAIN call : calls[n].overtaken = call[n].overtaken,
           NEW cancels \in 0..Len(call), \A n \in DOMAIN call : Current(calls[n]) => n = cancels,
           NEW query \in AnyQuery, NEW conversation \in AnyConversation,
           \/ LateIn(calls)
           \/ query = original' /\ \A n \in DOMAIN call : ~Current(calls[n]),
           LateIn(calls) \/ Turned \/ conversation = shown,
           original' \in AnyQuery,
           Ready(calls, cancels, query, conversation)
    PROVE  PageInv'
<1>1. cancels \in Nat /\ Len(call) \in Nat /\ DOMAIN call = 1..Len(call)
  BY LenProperties DEF PageInv, PageType, Calls
<1>2. CASE Execute(calls, cancels, query, conversation)
  BY <1>1, <1>2, ExecuteKeeps
<1>3. CASE /\ state' = "confirming" /\ active' = cancels /\ call' = calls
           /\ UNCHANGED <<shown, messages>>
  <2>1. DOMAIN call' = DOMAIN call
    BY <1>1, <1>3, LenProperties DEF Grows, Calls
  <2>2. MessagesOK'
    BY <1>3, <2>1, ListKept DEF PageInv
  <2>3. PageType'
    BY <1>3, <2>1, LoadsStay DEF PageInv, PageType, Grows
  <2>4. ActiveOK'
    BY <1>3, <2>1 DEF ActiveOK
  <2>5. QuestionOK'
    <3>1. panel' = query
      BY DEF Ready
    <3>2. LateIn(calls) => Late'
      BY <1>3 DEF LateIn, Late
    <3>3. QED
      BY <1>3, <2>1, <3>1, <3>2 DEF QuestionOK
  <2>6. ListOK'
    BY <1>3, ListStays DEF PageInv
  <2>7. QED
    BY <2>2, <2>3, <2>4, <2>5, <2>6 DEF PageInv
<1>4. QED
  BY <1>2, <1>3 DEF Ready

\* A step after which the page waits for no call but those it waited for,
\* and that leaves the list and the question alone.
LEMMA CallsMove ==
    ASSUME PageInv, Grows(call, call'), Len(call') = Len(call),
           \A n \in DOMAIN call : call'[n].overtaken = call[n].overtaken,
           UNCHANGED <<shown, messages, original>>,
           active' \in 0..Len(call),
           \A n \in DOMAIN call : Current(call'[n]) => n = active',
           \/ state' \in {"idle", "error"}
           \/ UNCHANGED <<state, panel>>
    PROVE  PageInv'
<1>1. /\ DOMAIN call' = DOMAIN call /\ (Late => Late')
      /\ \A n \in DOMAIN call :
            call[n] \in CallRecord /\ call'[n] \in CallRecord /\ Follows(call[n], call'[n])
  BY TracesStay
<1>2. PageType'
  BY <1>1, LoadsStay DEF PageInv, PageType, Grows
<1>3. MessagesOK'
  BY <1>1, ListKept DEF PageInv
<1>4. ActiveOK'
  BY <1>1 DEF ActiveOK
<1>5. QuestionOK'
  <2>1. CASE Late
    BY <1>1, <2>1 DEF QuestionOK
  <2>2. CASE ~Late
    <3>1. ASSUME NEW n \in DOMAIN call', Current(call'[n])
          PROVE  call'[n].query = original'
      <4>1. n \in DOMAIN call
        BY <1>1, <3>1
      <4>2. Current(call[n]) /\ call'[n].query = call[n].query
        BY <1>1, <3>1, <4>1, FollowsCurrent DEF Follows
      <4>3. QED
        BY <2>2, <4>1, <4>2 DEF PageInv, QuestionOK
    <3>2. state' = "confirming" => panel' = original'
      BY <2>2 DEF PageInv, QuestionOK
    <3>3. QED
      BY <3>1, <3>2 DEF QuestionOK
  <2>3. QED
    BY <2>1, <2>2
<1>6. ListOK'
  BY ListStays DEF PageInv
<1>7. QED
  BY <1>2, <1>3, <1>4, <1>5, <1>6 DEF PageInv

\* The call that the page cancels: none is current after that.
LEMMA CutCurrent ==
    ASSUME PageInv, NEW a, a = Cut(call, active)
    PROVE  /\ Grows(call, a) /\ Len(a) = Len(call) /\ a \in Calls
           /\ \A n \in DOMAIN call : a[n].overtaken = call[n].overtaken /\ ~Current(a[n])
<1>1. call \in Calls /\ active \in Nat /\ DOMAIN call = 1..Len(call) /\ Len(call) \in Nat
  BY LenProperties DEF PageInv, PageType, Calls
<1>2. /\ Grows(call, a) /\ Len(a) = Len(call)
      /\ \A n \in 1..Len(call) :
            a[n].overtaken = call[n].overtaken /\ (Current(a[n]) => n # active)
  BY <1>1, CutGrows
<1>3. ASSUME NEW n \in DOMAIN call, Current(a[n]) PROVE FALSE
  <2>1. call[n] \in CallRecord /\ a[n] \in CallRecord /\ Follows(call[n], a[n])
    BY <1>1, <1>2, ElementOfSeq DEF Grows, Calls
  <2>2. Current(call[n])
    BY <1>3, <2>1, FollowsCurrent
  <2>3. QED
    BY <1>1, <1>2, <1>3, <2>2 DEF PageInv, ActiveOK
<1>4. QED
  BY <1>1, <1>2, <1>3 DEF Grows

\* A call can be one of these things only.
LEMMA CallType ==
    ASSUME PageInv, NEW n \in DOMAIN call
    PROVE  /\ call \in Calls /\ DOMAIN call = 1..Len(call) /\ Len(call) \in Nat
           /\ call[n] \in CallRecord
BY LenProperties, ElementOfSeq DEF PageInv, PageType, Calls

\* A call that ends, and the page drops its controller.
LEMMA CallEnded ==
    ASSUME PageInv, NEW n \in DOMAIN call, Under(call[n]),
           NEW pc \in {"answered", "over"}, call' = End(call, n, pc)
    PROVE  /\ Grows(call, call') /\ Len(call') = Len(call) /\ DOMAIN call' = DOMAIN call
           /\ \A m \in DOMAIN call :
                 /\ call'[m].overtaken = call[m].overtaken
                 /\ call'[m].cancelled = call[m].cancelled
                 /\ m # n => call'[m] = call[m]
                 /\ Current(call'[m]) => m = Released(n)
           /\ call'[n].pc = pc /\ Released(n) \in 0..Len(call)
<1>1. call \in Calls /\ DOMAIN call = 1..Len(call) /\ active \in 0..Len(call) /\ Len(call) \in Nat
  BY CallType DEF PageInv, PageType
<1>2. /\ Grows(call, call') /\ Len(call') = Len(call) /\ DOMAIN call' = 1..Len(call)
      /\ \A m \in 1..Len(call) :
            /\ call'[m].overtaken = call[m].overtaken
            /\ call'[m].cancelled = call[m].cancelled
            /\ m # n => call'[m] = call[m]
      /\ call'[n].pc = pc
  BY <1>1, EndGrows
<1>3. ASSUME NEW m \in DOMAIN call, Current(call'[m])
      PROVE  m = Released(n)
  <2>1. m # n
    BY <1>2, <1>3 DEF Current, Under
  <2>2. m = active
    BY <1>1, <1>2, <1>3, <2>1 DEF PageInv, ActiveOK
  <2>3. QED
    BY <2>1, <2>2 DEF Released
<1>4. Released(n) \in 0..Len(call)
  BY <1>1 DEF Released
<1>5. QED
  BY <1>1, <1>2, <1>3, <1>4

\* Another list comes, and the calls under way belong to the one before.
LEMMA ListTurns ==
    ASSUME PageInv, Grows(call, call'), messages' \in Messages, shown' \in AnyConversation,
           original' \in AnyQuery,
           \A k \in DOMAIN messages' : Old(messages'[k]),
           \A n \in DOMAIN call' : Current(call'[n]) =>
               /\ n \in DOMAIN call /\ n = active' /\ call'[n].overtaken = TRUE
               /\ original' = original,
           \A n \in DOMAIN call' : call'[n].kind = "load" => call'[n].conversation \in Conversation,
           active' \in 0..Len(call'),
           state' = "idle" \/ UNCHANGED <<state, panel, original>>
    PROVE  PageType' /\ ActiveOK' /\ MessagesOK' /\ QuestionOK'
<1>1. /\ DOMAIN call \subseteq DOMAIN call' /\ (Late => Late')
      /\ \A n \in DOMAIN call :
            call[n] \in CallRecord /\ call'[n] \in CallRecord /\ Follows(call[n], call'[n])
  BY TracesStay
<1>2. PageType'
  <2>1. state' \in {"idle", "preprocessing", "querying", "confirming", "completed", "error"}
    BY DEF PageInv, PageType
  <2>2. call' \in Calls
    BY DEF Grows
  <2>3. QED
    BY <2>1, <2>2 DEF PageType
<1>3. MessagesOK'
  <2>1. \A n \in DOMAIN call' :
           Current(call'[n]) /\ call'[n].kind = "execute" => call'[n].overtaken = TRUE
    OBVIOUS
  <2>2. Grows(call, call') /\ \A k \in DOMAIN messages' : Old(messages'[k])
    OBVIOUS
  <2>3. QED
    BY ONLY <2>1, <2>2, ListReplaced
<1>4. ActiveOK'
  BY DEF ActiveOK
<1>5. QuestionOK'
  <2>1. CASE Late
    BY <1>1, <2>1 DEF QuestionOK
  <2>2. CASE ~Late
    <3>1. ASSUME NEW n \in DOMAIN call', Current(call'[n])
          PROVE  call'[n].query = original'
      <4>1. n \in DOMAIN call /\ original' = original
        BY <3>1
      <4>2. Current(call[n]) /\ call'[n].query = call[n].query
        BY <1>1, <3>1, <4>1, FollowsCurrent DEF Follows
      <4>3. QED
        BY <2>2, <4>1, <4>2 DEF PageInv, QuestionOK
    <3>2. state' = "confirming" => panel' = original'
      BY <2>2 DEF PageInv, QuestionOK
    <3>3. QED
      BY <3>1, <3>2 DEF QuestionOK
  <2>3. QED
    BY <2>1, <2>2
<1>6. QED
  BY <1>2, <1>3, <1>4, <1>5

-----------------------------------------------------------------------------
(* The actions.                                                            *)

LEMMA KeepSend ==
    ASSUME PageInv, NEW q \in Query, Send(q)
    PROVE  PageInv'
<1> DEFINE calls == Cut(call, active)
<1>1. /\ Grows(call, calls) /\ Len(calls) = Len(call) /\ calls \in Calls
      /\ \A n \in DOMAIN call : calls[n].overtaken = call[n].overtaken /\ ~Current(calls[n])
  BY CutCurrent
<1>2. /\ q \in AnyQuery /\ original' = q /\ shown \in AnyConversation
      /\ 0 \in 0..Len(call) /\ Len(call) \in Nat /\ DOMAIN call = 1..Len(call)
  BY LenProperties DEF Send, AnyQuery, PageInv, PageType, Calls
<1>3. CASE Ready(calls, 0, q, shown)
  <2> HIDE DEF calls
  <2>1. QED
    BY <1>1, <1>2, <1>3, ReadyKeeps
<1>4. CASE /\ call' = Append(calls, Sent("prepare", q, shown))
           /\ state' = "preprocessing" /\ active' = Len(calls) + 1
           /\ UNCHANGED <<shown, messages>>
  <2> DEFINE n == Len(calls) + 1
  <2> HIDE DEF calls
  <2>1. /\ Grows(calls, call') /\ Len(call') = n /\ DOMAIN call' = 1..n
        /\ \A k \in 1..Len(calls) : call'[k] = calls[k]
        /\ call'[n].kind = "prepare" /\ call'[n].query = q /\ call'[n].conversation = shown
        /\ call'[n].cancelled = FALSE /\ call'[n].overtaken = FALSE
    <3>1. call' = Append(calls, Sent("prepare", q, shown)) /\ calls \in Calls
          /\ q \in AnyQuery /\ shown \in AnyConversation
      BY <1>1, <1>2, <1>4
    <3>2. QED
      BY ONLY <3>1, NewCall
  <2>2. Grows(call, call')
    BY <1>1, <2>1, GrowsTransitive
  <2>3. n = Len(call) + 1 /\ n \in Nat
    BY <1>1, <1>2
  <2> HIDE DEF n
  <2>4. \A k \in DOMAIN call' : k \in DOMAIN call \/ k = n
    BY <1>2, <2>1, <2>3
  <2>5. \A k \in DOMAIN call : call'[k].overtaken = call[k].overtaken /\ ~Current(call'[k])
    BY <1>1, <1>2, <2>1
  <2>6. MessagesOK'
    BY <1>4, <2>1, <2>2, <2>4, <2>5, ListKept DEF PageInv
  <2>7. PageType'
    <3>1. \A k \in DOMAIN call' : call'[k].kind = "load" => call'[k].conversation \in Conversation
      BY <2>1, <2>2, <2>4, LoadsStay DEF PageInv
    <3>2. active' \in 0..Len(call')
      BY <1>4, <2>1, <2>3 DEF n
    <3>3. QED
      BY <1>2, <1>4, <2>2, <3>1, <3>2 DEF PageInv, PageType, Grows
  <2>8. ActiveOK'
    BY <1>4, <2>4, <2>5 DEF ActiveOK, n
  <2>9. QuestionOK'
    BY <1>2, <1>4, <2>1, <2>4, <2>5 DEF QuestionOK
  <2>10. ListOK'
    <3>1. CASE Turned'
      BY <3>1 DEF ListOK
    <3>2. CASE ~Turned'
      <4>1. ~Turned
        BY <2>2, <3>2, TracesStay
      <4>2. ASSUME NEW k \in DOMAIN call, call'[k].kind = "load", Under(call'[k])
            PROVE  call'[k].conversation = shown
        <5>1. /\ call[k] \in CallRecord /\ call'[k] \in CallRecord /\ Follows(call[k], call'[k])
          BY <2>2, TracesStay
        <5>2. call[k].kind = "load" /\ Under(call[k])
          BY <4>2, <5>1, FollowsCurrent DEF Follows
        <5>3. QED
          BY <4>1, <5>1, <5>2 DEF PageInv, ListOK, Follows
      <4>3. QED
        BY <1>4, <2>1, <2>4, <2>5, <4>1, <4>2 DEF PageInv, ListOK
    <3>3. QED
      BY <3>1, <3>2
  <2>11. QED
    BY <2>6, <2>7, <2>8, <2>9, <2>10 DEF PageInv
<1>5. QED
  BY <1>3, <1>4 DEF Send

LEMMA KeepPrepared ==
    ASSUME PageInv, NEW n \in DOMAIN call, Prepared(n)
    PROVE  PageInv'
<1> DEFINE calls == End(call, n, "answered")
<1>1. /\ call \in Calls /\ DOMAIN call = 1..Len(call) /\ Len(call) \in Nat
      /\ call[n] \in CallRecord
  BY CallType
<1>2. Under(call[n]) /\ call[n].kind = "prepare"
  BY DEF Prepared, Under
<1>3. /\ Grows(call, calls) /\ Len(calls) = Len(call) /\ DOMAIN calls = DOMAIN call
      /\ \A m \in DOMAIN call :
            /\ calls[m].overtaken = call[m].overtaken /\ calls[m].cancelled = call[m].cancelled
            /\ m # n => calls[m] = call[m]
      /\ calls[n].pc = "answered"
  BY <1>1, <1>2, EndGrows
<1>4. Ready(calls, Released(n), call[n].query, call[n].conversation) /\ original' = original
  BY DEF Prepared
<1> HIDE DEF calls
<1>5. \A m \in DOMAIN call : Current(calls[m]) => m # n /\ m = Released(n)
  <2> TAKE m \in DOMAIN call
  <2>1. Current(calls[m]) => m # n
    BY <1>3 DEF Current, Under
  <2>2. Current(calls[m]) => m = active
    BY <1>3, <2>1 DEF PageInv, ActiveOK
  <2>3. QED
    BY <2>1, <2>2 DEF Released
<1>6. Released(n) \in 0..Len(call)
  BY <1>1 DEF Released, PageInv, PageType
<1>7. CASE call[n].cancelled = TRUE
  <2>1. LateIn(calls)
    BY <1>3, <1>7 DEF LateIn
  <2>2. QED
    BY <1>1, <1>3, <1>4, <1>5, <1>6, <2>1, ReadyKeeps DEF CallRecord, PageInv, PageType
<1>8. CASE call[n].cancelled # TRUE
  <2>1. Current(call[n])
    BY <1>1, <1>2, <1>8 DEF Current, CallRecord
  <2>2. \A m \in DOMAIN call : ~Current(calls[m])
    BY <1>3, <1>5, <2>1 DEF PageInv, ActiveOK
  <2>3. LateIn(calls) \/ call[n].query = original'
    <3>1. Late => LateIn(calls)
      BY <1>1, <1>2, <1>3 DEF Late, LateIn, Under
    <3>2. QED
      BY <1>4, <2>1, <3>1 DEF PageInv, QuestionOK
  <2>4. LateIn(calls) \/ Turned \/ call[n].conversation = shown
    BY <2>1 DEF PageInv, ListOK
  <2>5. call[n].query \in AnyQuery /\ call[n].conversation \in AnyConversation
        /\ original' \in AnyQuery
    BY <1>1, <1>4 DEF CallRecord, PageInv, PageType
  <2>6. QED
    BY <1>3, <1>4, <1>5, <1>6, <2>2, <2>3, <2>4, <2>5, ReadyKeeps
<1>9. QED
  BY <1>7, <1>8

LEMMA KeepConfirm ==
    ASSUME PageInv, Confirm
    PROVE  PageInv'
<1>1. /\ Execute(call, active, original, shown) /\ original' = original
      /\ original \in AnyQuery /\ shown \in AnyConversation
      /\ call \in Calls /\ DOMAIN call = 1..Len(call) /\ active \in Nat
      /\ \A n \in DOMAIN call : Current(call[n]) => n = active
  BY LenProperties DEF Confirm, PageInv, PageType, Calls, ActiveOK
<1>2. Grows(call, call)
  BY <1>1 DEF Grows, Follows
<1>3. QED
  BY <1>1, <1>2, ExecuteKeeps

LEMMA KeepCancelConfirmation ==
    ASSUME PageInv, CancelConfirmation
    PROVE  PageInv'
<1>1. /\ call' = Cut(call, active) /\ active' = 0 /\ state' = "idle"
      /\ UNCHANGED <<shown, messages, original>>
  BY DEF CancelConfirmation
<1>2. /\ Grows(call, call') /\ Len(call') = Len(call)
      /\ \A n \in DOMAIN call : call'[n].overtaken = call[n].overtaken /\ ~Current(call'[n])
  BY <1>1, CutCurrent
<1>3. 0 \in 0..Len(call)
  BY LenProperties DEF PageInv, PageType, Calls
<1>4. QED
  BY <1>1, <1>2, <1>3, CallsMove

LEMMA KeepPrepareFails ==
    ASSUME PageInv, NEW n \in DOMAIN call, PrepareFails(n)
    PROVE  PageInv'
<1>1. Under(call[n]) /\ call' = End(call, n, "over")
  BY DEF PrepareFails, CanFail, Under
<1>2. /\ Grows(call, call') /\ Len(call') = Len(call) /\ DOMAIN call' = DOMAIN call
      /\ \A m \in DOMAIN call : /\ call'[m].overtaken = call[m].overtaken
                                /\ Current(call'[m]) => m = Released(n)
      /\ Released(n) \in 0..Len(call)
  BY <1>1, CallEnded
<1>3. QED
  BY <1>2, CallsMove DEF PrepareFails

LEMMA KeepLoadFails ==
    ASSUME PageInv, NEW n \in DOMAIN call, LoadFails(n)
    PROVE  PageInv'
<1>1. Under(call[n]) /\ call' = End(call, n, "over") /\ UNCHANGED pageVars
  BY DEF LoadFails, CanFail, Under
<1>2. /\ call \in Calls /\ DOMAIN call = 1..Len(call)
      /\ active' \in 0..Len(call)
  BY <1>1, CallType DEF PageInv, PageType, pageVars
<1>3. /\ Grows(call, call') /\ Len(call') = Len(call) /\ DOMAIN call' = DOMAIN call
      /\ \A m \in DOMAIN call : /\ call'[m].overtaken = call[m].overtaken
                                /\ m # n => call'[m] = call[m]
      /\ call'[n].pc = "over"
  BY <1>1, <1>2, EndGrows
<1>4. \A m \in DOMAIN call : Current(call'[m]) => m = active'
  BY <1>1, <1>3 DEF Current, Under, PageInv, ActiveOK, pageVars
<1>5. QED
  BY <1>1, <1>2, <1>3, <1>4, CallsMove DEF pageVars

\* What is left for an execution that ends and touches the last message.
LEMMA ExecutionEnded ==
    ASSUME PageInv, NEW n \in DOMAIN call, Under(call[n]), call[n].kind = "execute",
           NEW pc \in {"answered", "over"}, call' = End(call, n, pc),
           MessagesOK', messages' \in Messages,
           \A k \in DOMAIN messages' :
               k \in DOMAIN messages /\ messages'[k].conversation = messages[k].conversation,
           active' = Released(n), UNCHANGED <<shown, original>>,
           \/ state' \in {"completed", "error"}
           \/ state' = "confirming" /\ panel' = call[n].query /\ pc = "answered"
    PROVE  PageInv'
<1>1. /\ Grows(call, call') /\ Len(call') = Len(call) /\ DOMAIN call' = DOMAIN call
      /\ \A m \in DOMAIN call : /\ call'[m].overtaken = call[m].overtaken
                                /\ call'[m].cancelled = call[m].cancelled
                                /\ Current(call'[m]) => m = active'
      /\ call'[n].pc = pc /\ active' \in 0..Len(call)
  BY CallEnded
<1>2. /\ Late => Late'
      /\ Turned => Turned'
      /\ \A m \in DOMAIN call :
            call[m] \in CallRecord /\ call'[m] \in CallRecord /\ Follows(call[m], call'[m])
  BY <1>1, TracesStay
<1>3. PageType'
  BY <1>1, LoadsStay DEF PageInv, PageType, Grows
<1>4. ActiveOK'
  BY <1>1 DEF ActiveOK
<1>5. QuestionOK'
  <2>1. CASE Late
    BY <1>2, <2>1 DEF QuestionOK
  <2>2. CASE ~Late
    <3>1. ASSUME NEW m \in DOMAIN call', Current(call'[m])
          PROVE  call'[m].query = original'
      <4>1. m \in DOMAIN call
        BY <1>1, <3>1
      <4>2. Current(call[m]) /\ call'[m].query = call[m].query
        BY <1>2, <3>1, <4>1, FollowsCurrent DEF Follows
      <4>3. QED
        BY <2>2, <4>1, <4>2 DEF PageInv, QuestionOK
    <3>2. CASE state' # "confirming"
      BY <3>1, <3>2 DEF QuestionOK
    <3>3. CASE state' = "confirming"
      <4>1. panel' = call[n].query /\ pc = "answered"
        BY <3>3
      <4>2. CASE call[n].cancelled = TRUE
        BY <1>1, <4>1, <4>2 DEF Late, QuestionOK
      <4>3. CASE call[n].cancelled # TRUE
        <5>1. Current(call[n])
          BY <1>2, <4>3 DEF Current, CallRecord
        <5>2. call[n].query = original
          BY <2>2, <5>1 DEF PageInv, QuestionOK
        <5>3. QED
          BY <3>1, <4>1, <5>2 DEF QuestionOK
      <4>4. QED
        BY <4>2, <4>3
    <3>4. QED
      BY <3>2, <3>3
  <2>3. QED
    BY <2>1, <2>2
<1>6. ListOK'
  <2>1. CASE Turned'
    BY <2>1 DEF ListOK
  <2>2. CASE ~Turned'
    <3>1. ~Turned
      BY <1>2, <2>2
    <3>2. \A k \in DOMAIN messages' : messages'[k].conversation = shown'
      BY <3>1 DEF PageInv, ListOK
    <3>3. ASSUME shown' = NoConversation PROVE messages' = <<>>
      <4>1. messages = <<>>
        BY <3>1, <3>3 DEF PageInv, ListOK
      <4>2. DOMAIN messages' = {}
        <5>1. DOMAIN messages = {}
          BY <4>1
        <5>2. QED
          BY <5>1
      <4>3. messages' \in Seq(MessageRecord) /\ DOMAIN messages' = 1..Len(messages')
            /\ Len(messages') \in Nat
        BY LenProperties DEF Messages
      <4>4. Len(messages') = 0
        BY <4>2, <4>3
      <4>5. QED
        BY <4>3, <4>4, EmptySeq
    <3>4. ASSUME NEW m \in DOMAIN call',
                 Current(call'[m]) \/ (call'[m].kind = "load" /\ Under(call'[m]))
          PROVE  call'[m].conversation = shown'
      <4>1. Current(call[m]) \/ (call[m].kind = "load" /\ Under(call[m]))
        BY <1>1, <1>2, <3>4, FollowsCurrent DEF Follows
      <4>2. QED
        BY <1>1, <1>2, <3>1, <4>1 DEF PageInv, ListOK, Follows
    <3>5. QED
      BY <3>2, <3>3, <3>4 DEF ListOK
  <2>3. QED
    BY <2>1, <2>2
<1>7. QED
  BY <1>3, <1>4, <1>5, <1>6 DEF PageInv

\* The last message, when it is the assistant's, is what it was of.
LEMMA LastMessage ==
    ASSUME PageInv, LastIsAnswer
    PROVE  messages[Len(messages)] \in MessageRecord
BY LenProperties, EmptySeq, ElementOfSeq DEF PageInv, PageType, Messages, LastIsAnswer

LEMMA LastIsElsewhere ==
    ASSUME messages \in Messages, NEW m, messages' = Last(m),
           LastIsAnswer => m.conversation = messages[Len(messages)].conversation
    PROVE  \A k \in DOMAIN messages' :
               k \in DOMAIN messages /\ messages'[k].conversation = messages[k].conversation
BY DEF Last

LEMMA KeepAnswer ==
    ASSUME PageInv, NEW n \in DOMAIN call, Answer(n)
    PROVE  PageInv'
<1> DEFINE o == messages[Len(messages)]
           named == [o EXCEPT !.extras = @ \cup {n}]
           m == IF o.status = "streaming"
                THEN [named EXCEPT !.text = @ \cup {n}, !.status = "completed"]
                ELSE named
<1>1. /\ call[n].kind = "execute" /\ Under(call[n])
      /\ call' = End(call, n, "answered") /\ messages' = Last(m)
      /\ state' = "completed" /\ active' = Released(n) /\ UNCHANGED <<shown, original>>
  BY DEF Answer, Under
<1>2. PageType /\ ActiveOK /\ MessagesOK /\ n \in Nat
  BY CallType DEF PageInv
<1>3. ASSUME LastIsAnswer
      PROVE  /\ m \in MessageRecord /\ m.role = o.role /\ m.call = o.call
             /\ m.conversation = o.conversation
             /\ m.status # "streaming" /\ m.extras \subseteq o.extras \cup {n}
             /\ \/ m.text = o.text /\ m.status = o.status
                \/ m.text = {n} /\ o.status = "streaming"
  <2>1. o \in MessageRecord
    BY <1>3, LastMessage
  <2>2. Len(messages) \in DOMAIN messages
    BY <1>2, <1>3, LenProperties, EmptySeq DEF LastIsAnswer, PageType, Messages
  <2>3. o.status = "streaming" => o.text = {} /\ o.extras = {}
    BY <1>2, <2>2 DEF MessagesOK, MessageOK
  <2> HIDE DEF o
  <2>4. QED
    BY <1>2, <2>1, <2>3 DEF MessageRecord
<1> HIDE DEF m
<1>4. MessagesOK' /\ messages' \in Messages
  BY <1>1, <1>2, <1>3, LastUpdated
<1>5. \A k \in DOMAIN messages' :
          k \in DOMAIN messages /\ messages'[k].conversation = messages[k].conversation
  BY <1>1, <1>2, <1>3, LastIsElsewhere DEF PageType
<1>6. QED
  BY <1>1, <1>4, <1>5, ExecutionEnded

LEMMA KeepExecuteFails ==
    ASSUME PageInv, NEW n \in DOMAIN call, ExecuteFails(n)
    PROVE  PageInv'
<1> DEFINE o == messages[Len(messages)]
           m == [o EXCEPT !.status = "error", !.text = {n}]
<1>1. /\ call[n].kind = "execute" /\ Under(call[n])
      /\ call' = End(call, n, "over") /\ messages' = Last(m)
      /\ state' = "error" /\ active' = Released(n) /\ UNCHANGED <<shown, original>>
  BY DEF ExecuteFails, CanFail, Under
<1>2. PageType /\ ActiveOK /\ MessagesOK /\ n \in Nat
  BY CallType DEF PageInv
<1>3. ASSUME LastIsAnswer
      PROVE  /\ m \in MessageRecord /\ m.role = o.role /\ m.call = o.call
             /\ m.conversation = o.conversation
             /\ m.status # "streaming" /\ m.extras \subseteq o.extras \cup {n}
             /\ m.text = {n} /\ m.status = "error"
  <2>1. o \in MessageRecord
    BY <1>3, LastMessage
  <2> HIDE DEF o
  <2>2. QED
    BY <1>2, <2>1 DEF MessageRecord
<1> HIDE DEF m
<1>4. MessagesOK' /\ messages' \in Messages
  BY <1>1, <1>2, <1>3, LastUpdated
<1>5. \A k \in DOMAIN messages' :
          k \in DOMAIN messages /\ messages'[k].conversation = messages[k].conversation
  BY <1>1, <1>2, <1>3, LastIsElsewhere DEF PageType
<1>6. QED
  BY <1>1, <1>4, <1>5, ExecutionEnded

LEMMA KeepClarify ==
    ASSUME PageInv, NEW n \in DOMAIN call, Clarify(n)
    PROVE  PageInv'
<1>1. /\ call[n].kind = "execute" /\ Under(call[n])
      /\ call' = End(call, n, "answered")
      /\ messages' = SubSeq(messages, 1, Len(messages) - 1)
      /\ state' = "confirming" /\ panel' = call[n].query /\ active' = Released(n)
      /\ UNCHANGED <<shown, original>>
  BY DEF Clarify, Under
<1>2. /\ MessagesOK' /\ messages' \in Messages
      /\ DOMAIN messages' \subseteq DOMAIN messages
      /\ \A k \in DOMAIN messages' : messages'[k] = messages[k]
  BY <1>1, LastWithdrawn DEF PageInv
<1>3. QED
  BY <1>1, <1>2, ExecutionEnded

\* A load begins: the list is empty.
LEMMA KeepLoad ==
    ASSUME PageInv, NEW c \in Conversation, Load(c)
    PROVE  PageInv'
<1> DEFINE calls == Overtake(call)
           n == Len(calls) + 1
<1>1. /\ call' = Append(calls, Sent("load", NoQuery, c))
      /\ shown' = c /\ messages' = <<>> /\ state' = "idle"
      /\ UNCHANGED <<original, active>>
      /\ call \in Calls /\ Len(call) \in Nat /\ DOMAIN call = 1..Len(call)
      /\ active \in 0..Len(call) /\ original \in AnyQuery
      /\ NoQuery \in AnyQuery /\ c \in AnyConversation
  BY LenProperties DEF Load, PageInv, PageType, Calls, AnyQuery, AnyConversation
<1>2. /\ Grows(call, calls) /\ Len(calls) = Len(call)
      /\ \A k \in 1..Len(call) :
            calls[k].pc = call[k].pc /\ (Under(calls[k]) => calls[k].overtaken = TRUE)
  BY <1>1, OvertakeGrows
<1> HIDE DEF calls
<1>3. /\ Grows(calls, call') /\ Len(call') = n /\ DOMAIN call' = 1..n
      /\ \A k \in 1..Len(calls) : call'[k] = calls[k]
      /\ call'[n].kind = "load" /\ call'[n].conversation = c
  <2>1. /\ call' = Append(calls, Sent("load", NoQuery, c)) /\ calls \in Calls
        /\ NoQuery \in AnyQuery /\ c \in AnyConversation
    BY <1>1, <1>2 DEF Grows
  <2>2. QED
    BY ONLY <2>1, NewCall
<1>4. Grows(call, call')
  BY <1>2, <1>3, GrowsTransitive
<1>5. n = Len(call) + 1 /\ n \in Nat
  BY <1>1, <1>2
<1> HIDE DEF n
<1>6. \A k \in DOMAIN call' : k \in DOMAIN call \/ k = n
  BY <1>1, <1>3, <1>5
<1>7. \A k \in DOMAIN call : Under(call'[k]) => call'[k].overtaken = TRUE
  BY <1>1, <1>2, <1>3
<1>8. ASSUME NEW k \in DOMAIN call', Current(call'[k])
      PROVE  /\ k \in DOMAIN call /\ k = active' /\ call'[k].overtaken = TRUE
             /\ original' = original
  <2>1. k \in DOMAIN call
    BY <1>3, <1>6, <1>8 DEF Current
  <2>2. Current(call[k])
    BY <1>4, <1>8, <2>1, TracesStay, FollowsCurrent
  <2>3. QED
    BY <1>1, <1>7, <1>8, <2>1, <2>2 DEF PageInv, ActiveOK, Current
<1>9. \A k \in DOMAIN call' : call'[k].kind = "load" => call'[k].conversation \in Conversation
  BY <1>3, <1>4, <1>6, LoadsStay DEF PageInv
<1>10. /\ messages' \in Messages /\ shown' \in AnyConversation /\ original' \in AnyQuery
       /\ DOMAIN messages' = {} /\ active' \in 0..Len(call')
  <2>1. <<>> \in Messages /\ DOMAIN <<>> = {}
    BY DEF Messages
  <2>2. QED
    BY <1>1, <1>3, <1>5, <2>1
<1>11. PageType' /\ ActiveOK' /\ MessagesOK' /\ QuestionOK'
  BY <1>1, <1>4, <1>8, <1>9, <1>10, ListTurns
<1>12. ListOK'
  <2>1. CASE Turned'
    BY <2>1 DEF ListOK
  <2>2. CASE ~Turned'
    <3>1. \A k \in DOMAIN call : ~Under(call'[k])
      BY <1>4, <1>7, <2>2, TracesStay DEF Turned
    <3>2. \A k \in DOMAIN call' :
             Current(call'[k]) \/ (call'[k].kind = "load" /\ Under(call'[k]))
                => call'[k].conversation = shown'
      BY <1>1, <1>3, <1>6, <3>1 DEF Current
    <3>3. QED
      BY <1>1, <1>10, <3>2 DEF ListOK
  <2>3. QED
    BY <2>1, <2>2
<1>13. QED
  BY <1>11, <1>12 DEF PageInv

\* Histories hold old messages.
LEMMA HistoryType ==
    ASSUME NEW c \in AnyConversation, NEW h \in Histories(c)
    PROVE  /\ h \in Messages
           /\ \A k \in DOMAIN h : Old(h[k]) /\ h[k].conversation = c
<1> DEFINE u == Message("user", 0, c, "completed", {})
           a == Message("assistant", 0, c, "completed", {0})
<1>1. /\ u \in MessageRecord /\ Old(u) /\ u.conversation = c
      /\ a \in MessageRecord /\ Old(a) /\ a.conversation = c
  BY DEF Message, MessageRecord, Old
<1>2. h = <<u>> \/ h = Append(<<u>>, a)
  BY DEF Histories
<1> HIDE DEF u, a
<1>3. /\ <<u>> \in Seq(MessageRecord) /\ Len(<<u>>) = 1 /\ DOMAIN <<u>> = {1} /\ <<u>>[1] = u
  BY <1>1
<1>4. CASE h = <<u>>
  BY <1>1, <1>3, <1>4 DEF Messages
<1>5. CASE h = Append(<<u>>, a)
  <2>1. /\ h \in Seq(MessageRecord) /\ Len(h) = 2 /\ h[1] = u /\ h[2] = a
    BY <1>1, <1>3, <1>5, AppendProperties
  <2>2. DOMAIN h = 1..2
    BY <2>1, LenProperties
  <2>3. \A k \in 1..2 : k = 1 \/ k = 2
    OBVIOUS
  <2>4. QED
    BY <1>1, <2>1, <2>2, <2>3 DEF Messages
<1>6. QED
  BY <1>2, <1>4, <1>5

\* A history arrives.
LEMMA KeepLoaded ==
    ASSUME PageInv, NEW n \in DOMAIN call, Loaded(n)
    PROVE  PageInv'
<1> DEFINE calls == End(call, n, "answered")
           c == call[n].conversation
<1>1. /\ call[n].kind = "load" /\ Under(call[n])
      /\ messages' \in Histories(c) /\ call' = Overtake(calls)
      /\ UNCHANGED <<shown, state, original, panel, active>>
  BY DEF Loaded, Under
<1>2. /\ call \in Calls /\ Len(call) \in Nat /\ DOMAIN call = 1..Len(call)
      /\ c \in Conversation /\ c \in AnyConversation
      /\ active \in 0..Len(call) /\ original \in AnyQuery /\ shown \in AnyConversation
  BY <1>1, CallType DEF PageInv, PageType, AnyConversation
<1>3. /\ Grows(call, calls) /\ Len(calls) = Len(call) /\ DOMAIN calls = DOMAIN call
      /\ calls[n].pc = "answered" /\ calls \in Calls
  BY <1>1, <1>2, EndGrows DEF Grows
<1> HIDE DEF calls
<1>4. /\ Grows(calls, call') /\ Len(call') = Len(call) /\ DOMAIN call' = DOMAIN call
      /\ \A k \in DOMAIN call : Under(call'[k]) => call'[k].overtaken = TRUE
  <2>1. calls \in Calls /\ call' = Overtake(calls)
    BY <1>1, <1>3
  <2>2. \A b : b = Overtake(calls) =>
           /\ Grows(calls, b) /\ Len(b) = Len(calls) /\ DOMAIN b = 1..Len(calls)
           /\ \A k \in 1..Len(calls) : Under(b[k]) => b[k].overtaken = TRUE
    BY <2>1, OvertakeGrows
  <2>3. QED
    BY <1>2, <1>3, <2>1, <2>2
<1>5. Grows(call, call')
  BY <1>3, <1>4, GrowsTransitive
<1>6. ASSUME NEW k \in DOMAIN call', Current(call'[k])
      PROVE  /\ k \in DOMAIN call /\ k = active' /\ call'[k].overtaken = TRUE
             /\ original' = original
  <2>1. k \in DOMAIN call
    BY <1>4
  <2>2. Current(call[k])
    BY <1>5, <1>6, <2>1, TracesStay, FollowsCurrent
  <2>3. QED
    BY <1>1, <1>4, <1>6, <2>1, <2>2 DEF PageInv, ActiveOK, Current
<1>7. \A k \in DOMAIN call' : call'[k].kind = "load" => call'[k].conversation \in Conversation
  BY <1>4, <1>5, LoadsStay DEF PageInv
<1>8. /\ messages' \in Messages
      /\ \A k \in DOMAIN messages' : Old(messages'[k]) /\ messages'[k].conversation = c
  BY <1>1, <1>2, HistoryType
<1>9. active' \in 0..Len(call') /\ shown' \in AnyConversation /\ original' \in AnyQuery
  BY <1>1, <1>2, <1>4
<1>10. PageType' /\ ActiveOK' /\ MessagesOK' /\ QuestionOK'
  BY <1>1, <1>5, <1>6, <1>7, <1>8, <1>9, ListTurns
<1>11. ListOK'
  <2>1. CASE Turned'
    BY <2>1 DEF ListOK
  <2>2. CASE ~Turned'
    <3>1. ~Turned
      BY <1>5, <2>2, TracesStay
    <3>2. \A k \in DOMAIN call' : ~Under(call'[k])
      BY <1>4, <2>2 DEF Turned
    <3>3. shown' = c /\ shown' # NoConversation
      BY <1>1, <1>2, <3>1, ConversationAssumption DEF PageInv, ListOK
    <3>4. QED
      BY <1>8, <3>2, <3>3 DEF ListOK, Current
  <2>3. QED
    BY <2>1, <2>2
<1>12. QED
  BY <1>10, <1>11 DEF PageInv

LEMMA KeepStartNewConversation ==
    ASSUME PageInv, StartNewConversation
    PROVE  PageInv'
<1> DEFINE calls == Cut(call, active)
<1>1. /\ call' = Overtake(calls) /\ active' = 0
      /\ shown' = NoConversation /\ messages' = <<>> /\ state' = "idle"
      /\ original' = NoQuery
  BY DEF StartNewConversation
<1>2. /\ Len(call) \in Nat /\ DOMAIN call = 1..Len(call)
  BY LenProperties DEF PageInv, PageType, Calls
<1>3. /\ Grows(call, calls) /\ Len(calls) = Len(call) /\ calls \in Calls
      /\ \A k \in DOMAIN call : ~Current(calls[k])
  BY CutCurrent
<1> HIDE DEF calls
<1>4. /\ Grows(calls, call') /\ Len(call') = Len(call) /\ DOMAIN call' = DOMAIN call
      /\ \A k \in DOMAIN call : Under(call'[k]) => call'[k].overtaken = TRUE
  <2>1. \A b : b = Overtake(calls) =>
           /\ Grows(calls, b) /\ Len(b) = Len(calls) /\ DOMAIN b = 1..Len(calls)
           /\ \A k \in 1..Len(calls) : Under(b[k]) => b[k].overtaken = TRUE
    BY <1>3, OvertakeGrows
  <2>2. QED
    BY <1>1, <1>2, <1>3, <2>1
<1>5. Grows(call, call')
  BY <1>3, <1>4, GrowsTransitive
<1>6. ASSUME NEW k \in DOMAIN call' PROVE ~Current(call'[k])
  <2>1. /\ calls[k] \in CallRecord /\ call'[k] \in CallRecord /\ Follows(calls[k], call'[k])
    BY <1>2, <1>3, <1>4, ElementOfSeq DEF Grows, Calls
  <2>2. QED
    BY <1>3, <1>4, <2>1, FollowsCurrent
<1>7. \A k \in DOMAIN call' : call'[k].kind = "load" => call'[k].conversation \in Conversation
  BY <1>4, <1>5, LoadsStay DEF PageInv
<1>8. /\ messages' \in Messages /\ DOMAIN messages' = {} /\ messages' = <<>>
      /\ active' \in 0..Len(call') /\ shown' \in AnyConversation /\ original' \in AnyQuery
  <2>1. <<>> \in Messages /\ DOMAIN <<>> = {}
    BY DEF Messages
  <2>2. QED
    BY <1>1, <1>2, <1>4, <2>1 DEF AnyConversation, AnyQuery
<1>9. PageType' /\ ActiveOK' /\ MessagesOK' /\ QuestionOK'
  BY <1>1, <1>5, <1>6, <1>7, <1>8, ListTurns
<1>10. ListOK'
  <2>1. ~Turned' => \A k \in DOMAIN call' : ~Under(call'[k])
    BY <1>4 DEF Turned
  <2>2. QED
    BY <1>8, <2>1 DEF ListOK, Current
<1>11. QED
  BY <1>9, <1>10 DEF PageInv

\* The network and the refresh touch nothing of the page.
LEMMA KeepNetwork ==
    ASSUME PageInv, UNCHANGED pageVars,
           \/ \E n \in DOMAIN call : Headers(n) \/ Unauthorized(n)
           \/ RefreshSucceeds \/ RefreshFails \/ OtherUnauthorized
           \/ UNCHANGED call
    PROVE  PageInv'
<1>1. call \in Calls /\ DOMAIN call = 1..Len(call) /\ Len(call) \in Nat /\ active \in 0..Len(call)
  BY LenProperties DEF PageInv, PageType, Calls
<1>2. /\ Grows(call, call') /\ Len(call') = Len(call) /\ DOMAIN call' = 1..Len(call)
      /\ \A n \in 1..Len(call) : call'[n].overtaken = call[n].overtaken
  <2>1. CASE UNCHANGED call
    BY <1>1, <2>1 DEF Grows, Follows
  <2>2. CASE \/ \E n \in DOMAIN call : Headers(n) \/ Unauthorized(n)
             \/ RefreshSucceeds \/ RefreshFails \/ OtherUnauthorized
    BY <1>1, <2>2, NetworkGrows
  <2>3. QED
    BY <2>1, <2>2
<1>3. \A n \in DOMAIN call : Current(call'[n]) => n = active'
  BY <1>1, <1>2, FollowsCurrent, TracesStay DEF PageInv, ActiveOK, pageVars
<1>4. QED
  BY <1>1, <1>2, <1>3, CallsMove DEF pageVars

-----------------------------------------------------------------------------
(***************************************************************************)
(* The theorems.                                                           *)
(***************************************************************************)
LEMMA InitOK == Init => PageInv
<1> SUFFICES ASSUME Init PROVE PageInv
  OBVIOUS
<1>1. /\ call = <<>> /\ messages = <<>> /\ shown = NoConversation /\ state = "idle"
      /\ original = NoQuery /\ active = 0
  BY DEF Init, ClientInit
<1>2. /\ <<>> \in Calls /\ <<>> \in Messages /\ DOMAIN call = {} /\ DOMAIN messages = {}
      /\ Len(call) = 0
  BY <1>1 DEF Calls, Messages
<1>3. PageType
  BY <1>1, <1>2 DEF PageType, AnyConversation, AnyQuery
<1>4. ActiveOK /\ MessagesOK /\ QuestionOK /\ ListOK
  BY <1>1, <1>2 DEF ActiveOK, MessagesOK, QuestionOK, ListOK
<1>5. QED
  BY <1>3, <1>4 DEF PageInv

LEMMA NextKeeps == PageInv /\ [Next]_vars => PageInv'
<1> SUFFICES ASSUME PageInv, [Next]_vars PROVE PageInv'
  OBVIOUS
<1>1. CASE User
  BY <1>1, KeepSend, KeepConfirm, KeepCancelConfirmation, KeepStartNewConversation, KeepLoad
     DEF User
<1>2. CASE RefreshEnds
  BY <1>2, KeepNetwork DEF RefreshEnds
<1>3. CASE OtherUnauthorized /\ UNCHANGED pageVars
  BY <1>3, KeepNetwork
<1>4. ASSUME NEW n \in DOMAIN call, Network(n) PROVE PageInv'
  BY <1>4, KeepNetwork DEF Network
<1>5. ASSUME NEW n \in DOMAIN call, Settle(n) PROVE PageInv'
  BY <1>5, KeepPrepared, KeepPrepareFails, KeepAnswer, KeepClarify, KeepExecuteFails,
     KeepLoaded, KeepLoadFails DEF Settle
<1>6. CASE UNCHANGED vars
  BY <1>6, KeepNetwork DEF vars, clientVars
<1>7. QED
  BY <1>1, <1>2, <1>3, <1>4, <1>5, <1>6 DEF Next

\* The inductive invariant of the page: of the calls under way that prepare
\* or execute a question at most one is not cancelled, and the page can
\* cancel it; its answer will find its own message last, or trace is left of
\* what took the message away (useConversation.ts).
THEOREM PageInvariance == Spec => []PageInv
BY InitOK, NextKeeps, PTL DEF Spec

\* What a message shows is of its own question, of an execution that was
\* cancelled too late, or of one whose message is gone, for any number of
\* calls (useConversation.ts, the updates of the last message).
THEOREM MessagesAlwaysFit == Spec => []MessagesFit
<1>1. PageInv => MessagesFit
  <2> SUFFICES ASSUME PageInv, NEW k \in DOMAIN messages
               PROVE  LET m == messages[k]
                          strays == {n \in DOMAIN call : call[n].cancelled}
                          astray == IF m.status = "error" THEN Homeless
                                    ELSE Homeless \ Overtaken
                      IN  /\ m.text \subseteq {m.call} \cup strays \cup astray
                          /\ m.extras \subseteq {m.call} \cup strays \cup Homeless
                          /\ m.role = "assistant" /\ m.status = "completed" /\ Cancelled = {}
                                => m.text = {m.call}
    BY DEF MessagesFit
  <2> DEFINE m == messages[k]
             strays == {n \in DOMAIN call : call[n].cancelled}
  <2>1. MessageOK(m) /\ ShowsOK(m)
    BY DEF PageInv, MessagesOK
  <2>2. \A n \in DOMAIN call : call[n] \in CallRecord
    BY CallType
  <2>3. \A n : Stray(n) => n \in strays
    BY <2>2 DEF Stray
  <2>4. \A n : Gone(n) => n \in Homeless
    BY DEF Gone, IsAnswerTo, Homeless
  <2>5. \A n \in DOMAIN call : call[n].overtaken = FALSE => n \notin Overtaken
    BY DEF Overtaken
  <2>6. \A n : Gone(n) => n \in DOMAIN call
    BY DEF Gone
  <2>7. Cancelled = {} => ~Late
    BY DEF Late, Cancelled
  <2> HIDE DEF m, strays
  <2>8. /\ m.text \subseteq {m.call} \cup strays \cup
             (IF m.status = "error" THEN Homeless ELSE Homeless \ Overtaken)
        /\ m.extras \subseteq {m.call} \cup strays \cup Homeless
    BY <2>1, <2>3, <2>4, <2>5, <2>6 DEF ShowsOK
  <2>9. m.role = "assistant" /\ m.status = "completed" /\ Cancelled = {}
           => m.text = {m.call}
    BY <2>1, <2>7 DEF MessageOK
  <2>10. QED
    BY <2>8, <2>9 DEF m, strays
<1>2. QED
  BY <1>1, PageInvariance, PTL

\* The list belongs to the conversation the next question will be asked in,
\* unless a cancelled call went on or the user turned away under one.
THEOREM ConversationAlwaysFits == Spec => []ConversationFits
<1>1. PageInv => ConversationFits
  <2> SUFFICES ASSUME PageInv, NEW k \in DOMAIN messages, Cancelled \cup Overtaken = {}
               PROVE  messages[k].conversation = shown
    BY DEF ConversationFits
  <2>1. ~Late
    BY DEF Late, Cancelled
  <2>2. ~Turned
    BY <2>1 DEF Turned, Overtaken
  <2>3. QED
    BY <2>2 DEF PageInv, ListOK
<1>2. QED
  BY <1>1, PageInvariance, PTL

\* The panel asks about the question that Confirm will send, unless a
\* cancelled call went on.
THEOREM PanelAlwaysFits == Spec => []PanelFits
<1>1. PageInv => PanelFits
  <2> SUFFICES ASSUME PageInv, state = "confirming", Cancelled = {}
               PROVE  panel = original
    BY DEF PanelFits
  <2>1. ~Late
    BY DEF Late, Cancelled
  <2>2. QED
    BY <2>1 DEF PageInv, QuestionOK
<1>2. QED
  BY <1>1, PageInvariance, PTL

-----------------------------------------------------------------------------
(***************************************************************************)
(* A busy page waits for somebody: its current call is the one it names,   *)
(* and it refreshes the token under the flag, if at all.                   *)
(***************************************************************************)
BusyOK ==
    Busy =>
        /\ active \in DOMAIN call /\ Current(call[active])
        /\ call[active].kind = IF state = "querying" THEN "execute" ELSE "prepare"

RefreshOK == \A n \in DOMAIN call : call[n].pc = "refreshing" => refreshing = TRUE

WaitInv == PageInv /\ BusyOK /\ RefreshOK

\* No call begins to refresh the token.
Quiet(a, b) ==
    \A n \in DOMAIN b : b[n].pc = "refreshing" => n \in DOMAIN a /\ a[n].pc = "refreshing"

LEMMA CutQuiet ==
    ASSUME NEW a \in Calls, NEW m \in Nat
    PROVE  Quiet(a, Cut(a, m))
<1>1. CASE m = 0
  BY <1>1 DEF Cut, Quiet
<1>2. CASE m # 0
  <2> DEFINE d(c) == [c EXCEPT !.cancelled = TRUE,
                               !.pc = IF @ \in {"sent", "again"} THEN "over" ELSE @]
  <2>1. Cut(a, m) = [a EXCEPT ![m] = d(a[m])]
    BY <1>2 DEF Cut
  <2>2. \A c \in CallRecord : d(c).pc = "refreshing" => c.pc = "refreshing"
    BY DEF CallRecord
  <2>3. \A n \in DOMAIN a : a[n] \in CallRecord
    BY LenProperties, ElementOfSeq DEF Calls
  <2> HIDE DEF d
  <2>4. QED
    BY <2>1, <2>2, <2>3 DEF Quiet
<1>3. QED
  BY <1>1, <1>2

LEMMA EndQuiet ==
    ASSUME NEW a \in Calls, NEW m \in DOMAIN a, Under(a[m]),
           NEW pc \in {"reading", "answered", "over"}
    PROVE  Quiet(a, End(a, m, pc))
<1>1. DOMAIN a = 1..Len(a)
  BY LenProperties DEF Calls
<1>2. LET b == End(a, m, pc) IN
      /\ DOMAIN b = DOMAIN a /\ b[m].pc = pc
      /\ \A n \in DOMAIN a : n # m => b[n] = a[n]
  BY <1>1, EndGrows
<1>3. QED
  BY <1>2 DEF Quiet

LEMMA OvertakeQuiet ==
    ASSUME NEW a \in Calls
    PROVE  Quiet(a, Overtake(a))
<1>1. DOMAIN a = 1..Len(a)
  BY LenProperties DEF Calls
<1>2. \A b : b = Overtake(a) =>
         DOMAIN b = 1..Len(a) /\ \A n \in 1..Len(a) : b[n].pc = a[n].pc
  BY OvertakeGrows
<1>3. QED
  BY <1>1, <1>2 DEF Quiet

\* A call that is sent: the page waits for it.
LEMMA NewCallWaits ==
    ASSUME NEW a \in Calls, NEW kind \in {"prepare", "execute", "load"},
           NEW q \in AnyQuery, NEW c \in AnyConversation,
           call' = Append(a, Sent(kind, q, c))
    PROVE  /\ Quiet(a, call')
           /\ LET n == Len(a) + 1 IN
                 /\ n \in DOMAIN call' /\ call'[n].kind = kind
                 /\ kind # "load" => Current(call'[n])
<1> DEFINE r == Sent(kind, q, c)
<1>1. /\ r \in CallRecord /\ r.kind = kind /\ r.pc = "sent" /\ r.cancelled = FALSE
  BY SentType DEF Sent
<1> HIDE DEF r
<1>2. Len(a) \in Nat /\ DOMAIN a = 1..Len(a) /\ call' = Append(a, r)
  BY LenProperties DEF Calls, r
<1>3. /\ Len(call') = Len(a) + 1 /\ DOMAIN call' = 1..Len(call')
      /\ \A k \in 1..Len(a) : call'[k] = a[k]
      /\ call'[Len(call')] = r
  BY <1>1, <1>2, AppendGrows
<1>4. Quiet(a, call')
  <2>1. \A n \in DOMAIN call' : n \in DOMAIN a \/ n = Len(call')
    BY <1>2, <1>3
  <2>2. QED
    BY <1>1, <1>2, <1>3, <2>1 DEF Quiet
<1>5. Len(a) + 1 \in DOMAIN call' /\ call'[Len(a) + 1] = r
  BY <1>2, <1>3
<1>6. kind # "load" => Current(r)
  BY <1>1 DEF Current, Under
<1>7. QED
  BY <1>1, <1>4, <1>5, <1>6

LEMMA ExecuteWaits ==
    ASSUME NEW calls \in Calls, NEW cancels \in Nat, NEW q \in AnyQuery,
           NEW c \in AnyConversation, Execute(calls, cancels, q, c)
    PROVE  BusyOK' /\ Quiet(calls, call')
<1> DEFINE a == Cut(calls, cancels)
           n == Len(calls) + 1
           d == IF c = NoConversation THEN n ELSE c
<1>1. Len(calls) \in Nat /\ a \in Calls /\ Len(a) = Len(calls) /\ Quiet(calls, a)
  BY LenProperties, CutGrows, CutQuiet DEF Grows, Calls
<1>2. d \in AnyConversation
  BY <1>1 DEF AnyConversation
<1>3. call' = Append(a, Sent("execute", q, d)) /\ state' = "querying" /\ active' = Len(a) + 1
  BY <1>1 DEF Execute
<1> HIDE DEF a, n, d
<1>4. /\ Quiet(a, call')
      /\ active' \in DOMAIN call' /\ call'[active'].kind = "execute" /\ Current(call'[active'])
  BY <1>1, <1>2, <1>3, NewCallWaits
<1>5. QED
  BY <1>1, <1>3, <1>4 DEF BusyOK, Quiet

LEMMA ReadyWaits ==
    ASSUME NEW calls \in Calls, NEW cancels \in Nat, NEW q \in AnyQuery,
           NEW c \in AnyConversation, Ready(calls, cancels, q, c)
    PROVE  BusyOK' /\ Quiet(calls, call')
<1>1. CASE Execute(calls, cancels, q, c)
  BY <1>1, ExecuteWaits
<1>2. CASE state' = "confirming" /\ call' = calls
  BY <1>2 DEF BusyOK, Busy, Quiet
<1>3. QED
  BY <1>1, <1>2 DEF Ready

\* A step that is quiet and leaves the flag alone.
LEMMA QuietRefreshes ==
    ASSUME RefreshOK, Quiet(call, call'), UNCHANGED refreshing
    PROVE  RefreshOK'
BY DEF RefreshOK, Quiet

LEMMA UserWaits ==
    ASSUME WaitInv, User
    PROVE  BusyOK' /\ RefreshOK'
<1>1. /\ call \in Calls /\ Len(call) \in Nat /\ active \in Nat
      /\ shown \in AnyConversation /\ original \in AnyQuery /\ NoQuery \in AnyQuery
  BY LenProperties DEF WaitInv, PageInv, PageType, Calls, AnyQuery
<1>2. Cut(call, active) \in Calls /\ Quiet(call, Cut(call, active))
  BY <1>1, CutGrows, CutQuiet DEF Grows
<1>3. ASSUME NEW q \in Query, Send(q) PROVE BusyOK' /\ Quiet(call, call')
  <2> DEFINE calls == Cut(call, active)
  <2>1. calls \in Calls /\ Quiet(call, calls) /\ q \in AnyQuery
    BY <1>2 DEF AnyQuery
  <2>2. CASE Ready(calls, 0, q, shown)
    <3> HIDE DEF calls
    <3>1. BusyOK' /\ Quiet(calls, call')
      BY <1>1, <2>1, <2>2, ReadyWaits
    <3>2. QED
      BY <2>1, <3>1 DEF Quiet
  <2>3. CASE /\ call' = Append(calls, Sent("prepare", q, shown))
             /\ state' = "preprocessing" /\ active' = Len(calls) + 1
    <3> HIDE DEF calls
    <3>1. /\ Quiet(calls, call')
          /\ active' \in DOMAIN call' /\ call'[active'].kind = "prepare"
          /\ Current(call'[active'])
      BY <1>1, <2>1, <2>3, NewCallWaits
    <3>2. QED
      BY <2>1, <2>3, <3>1 DEF BusyOK, Quiet
  <2>4. QED
    BY <1>3, <2>2, <2>3 DEF Send
<1>4. ASSUME Confirm PROVE BusyOK' /\ Quiet(call, call')
  BY <1>1, <1>4, ExecuteWaits DEF Confirm
<1>5. ASSUME CancelConfirmation PROVE BusyOK' /\ Quiet(call, call')
  BY <1>2, <1>5 DEF CancelConfirmation, BusyOK, Busy
<1>6. ASSUME StartNewConversation PROVE BusyOK' /\ Quiet(call, call')
  <2>1. /\ call' = Overtake(Cut(call, active)) /\ state' = "idle"
        /\ Quiet(Cut(call, active), Overtake(Cut(call, active)))
    BY <1>2, <1>6, OvertakeQuiet DEF StartNewConversation
  <2>2. QED
    BY <1>2, <2>1 DEF BusyOK, Busy, Quiet
<1>7. ASSUME NEW c \in Conversation, Load(c) PROVE BusyOK' /\ Quiet(call, call')
  <2> DEFINE calls == Overtake(call)
  <2>1. calls \in Calls /\ Quiet(call, calls) /\ c \in AnyConversation
    BY <1>1, OvertakeGrows, OvertakeQuiet DEF Grows, AnyConversation
  <2>2. call' = Append(calls, Sent("load", NoQuery, c)) /\ state' = "idle"
    BY <1>7 DEF Load
  <2> HIDE DEF calls
  <2>3. Quiet(calls, call')
    BY <1>1, <2>1, <2>2, NewCallWaits
  <2>4. QED
    BY <2>1, <2>2, <2>3 DEF BusyOK, Busy, Quiet
<1>8. BusyOK' /\ Quiet(call, call')
  BY <1>3, <1>4, <1>5, <1>6, <1>7 DEF User
<1>9. UNCHANGED refreshing
  BY DEF User, Send, Confirm, CancelConfirmation, StartNewConversation, Load
<1>10. QED
  BY <1>8, <1>9, QuietRefreshes DEF WaitInv

\* The call that the page waits for goes on.
LEMMA WaitGoesOn ==
    ASSUME WaitInv, Grows(call, call'), UNCHANGED <<state, active>>,
           Current(call[active]) =>
               Under(call'[active]) /\ call'[active].cancelled = call[active].cancelled
    PROVE  BusyOK'
<1> SUFFICES ASSUME Busy' PROVE BusyOK'
  BY DEF BusyOK
<1>1. Busy /\ active \in DOMAIN call /\ Current(call[active])
  BY DEF Busy, WaitInv, BusyOK
<1>2. active \in DOMAIN call' /\ Follows(call[active], call'[active])
  BY <1>1, TracesStay
<1>3. QED
  BY <1>1, <1>2 DEF WaitInv, BusyOK, Current, Follows

LEMMA BusyGoesOn ==
    ASSUME WaitInv, Grows(call, call'), UNCHANGED pageVars,
           \A m \in DOMAIN call : /\ Current(call[m]) => Under(call'[m])
                                  /\ call'[m].cancelled = call[m].cancelled
    PROVE  BusyOK'
<1>1. UNCHANGED <<state, active>>
  BY DEF pageVars
<1>2. CASE Busy
  <2>1. active \in DOMAIN call
    BY <1>2 DEF WaitInv, BusyOK
  <2>2. QED
    BY <1>1, <2>1, WaitGoesOn
<1>3. CASE ~Busy
  BY <1>1, <1>3 DEF BusyOK, Busy
<1>4. QED
  BY <1>2, <1>3

LEMMA SettleWaits ==
    ASSUME WaitInv, NEW n \in DOMAIN call, Settle(n)
    PROVE  BusyOK' /\ RefreshOK'
<1>1. /\ call \in Calls /\ DOMAIN call = 1..Len(call) /\ Len(call) \in Nat
      /\ call[n] \in CallRecord /\ active \in 0..Len(call)
  BY CallType DEF WaitInv, PageInv, PageType
<1>2. Under(call[n]) /\ UNCHANGED refreshing
  BY DEF Settle, Prepared, PrepareFails, Answer, Clarify, ExecuteFails, Loaded, LoadFails,
         CanFail, Under
<1>3. \A pc \in {"answered", "over"} : Quiet(call, End(call, n, pc))
  BY <1>1, <1>2, EndQuiet
<1>4. ASSUME NEW pc \in {"answered", "over"}
      PROVE  LET b == End(call, n, pc) IN
             /\ Grows(call, b) /\ b \in Calls
             /\ \A m \in DOMAIN call : m # n => b[m] = call[m]
  BY <1>1, <1>2, EndGrows DEF Grows
<1>5. CASE Prepared(n)
  <2> DEFINE calls == End(call, n, "answered")
  <2>1. /\ Ready(calls, Released(n), call[n].query, call[n].conversation)
        /\ calls \in Calls /\ Quiet(call, calls)
        /\ Released(n) \in Nat /\ call[n].query \in AnyQuery
        /\ call[n].conversation \in AnyConversation
    BY <1>1, <1>3, <1>4, <1>5 DEF Prepared, Released, CallRecord
  <2> HIDE DEF calls
  <2>2. BusyOK' /\ Quiet(calls, call')
    BY <2>1, ReadyWaits
  <2>3. Quiet(call, call')
    BY <2>1, <2>2 DEF Quiet
  <2>4. QED
    BY <1>2, <2>2, <2>3, QuietRefreshes DEF WaitInv
<1>6. CASE PrepareFails(n) \/ Answer(n) \/ Clarify(n) \/ ExecuteFails(n)
  <2>1. Quiet(call, call') /\ ~Busy'
    BY <1>3, <1>6 DEF PrepareFails, Answer, Clarify, ExecuteFails, Busy
  <2>2. QED
    BY <1>2, <2>1, QuietRefreshes DEF WaitInv, BusyOK
<1>7. CASE LoadFails(n)
  <2>1. /\ call' = End(call, n, "over") /\ call[n].kind = "load"
        /\ UNCHANGED <<state, active>>
    BY <1>7 DEF LoadFails, pageVars
  <2>2. Current(call[active]) => active # n
    BY <2>1 DEF Current
  <2>3. Busy => active \in DOMAIN call
    BY DEF WaitInv, BusyOK
  <2>4. BusyOK'
    <3>1. CASE Busy
      BY <1>4, <2>1, <2>2, <2>3, <3>1, WaitGoesOn DEF Current
    <3>2. CASE ~Busy
      BY <2>1, <3>2 DEF BusyOK, Busy
    <3>3. QED
      BY <3>1, <3>2
  <2>5. QED
    BY <1>2, <1>3, <2>1, <2>4, QuietRefreshes DEF WaitInv
<1>8. CASE Loaded(n)
  <2> DEFINE calls == End(call, n, "answered")
  <2>1. /\ call' = Overtake(calls) /\ call[n].kind = "load"
        /\ UNCHANGED <<state, active>>
        /\ Grows(call, calls) /\ calls \in Calls /\ Quiet(call, calls)
        /\ \A m \in DOMAIN call : m # n => calls[m] = call[m]
    BY <1>3, <1>4, <1>8 DEF Loaded
  <2> HIDE DEF calls
  <2>2. /\ Grows(calls, call') /\ Quiet(calls, call')
        /\ \A m \in 1..Len(calls) :
              call'[m].pc = calls[m].pc /\ call'[m].cancelled = calls[m].cancelled
    <3>1. \A b : b = Overtake(calls) =>
             /\ Grows(calls, b)
             /\ \A m \in 1..Len(calls) : b[m].pc = calls[m].pc /\ b[m].cancelled = calls[m].cancelled
      BY <2>1, OvertakeGrows
    <3>2. QED
      BY <2>1, <3>1, OvertakeQuiet
  <2>3. Grows(call, call') /\ Len(call) <= Len(calls) /\ Len(calls) \in Nat
    BY <2>1, <2>2, GrowsTransitive, LenProperties DEF Grows, Calls
  <2>4. \A m \in DOMAIN call : m # n =>
           call'[m].pc = call[m].pc /\ call'[m].cancelled = call[m].cancelled
    BY <1>1, <2>1, <2>2, <2>3
  <2>5. BusyOK'
    <3>1. CASE Busy
      <4>1. active \in DOMAIN call /\ Current(call[active]) /\ active # n
        BY <2>1, <3>1 DEF WaitInv, BusyOK, Current
      <4>2. QED
        BY <2>1, <2>3, <2>4, <4>1, WaitGoesOn DEF Current, Under
    <3>2. CASE ~Busy
      BY <2>1, <3>2 DEF BusyOK, Busy
    <3>3. QED
      BY <3>1, <3>2
  <2>6. Quiet(call, call')
    BY <2>1, <2>2 DEF Quiet
  <2>7. QED
    BY <1>2, <2>5, <2>6, QuietRefreshes DEF WaitInv
<1>9. QED
  BY <1>5, <1>6, <1>7, <1>8 DEF Settle

\* The network and the refresh keep a call that is not cancelled under way.
LEMMA NetworkWaits ==
    ASSUME WaitInv, UNCHANGED pageVars,
           \/ \E n \in DOMAIN call : Headers(n) \/ Unauthorized(n)
           \/ RefreshSucceeds \/ RefreshFails \/ OtherUnauthorized
    PROVE  BusyOK' /\ RefreshOK'
<1>1. /\ call \in Calls /\ DOMAIN call = 1..Len(call)
      /\ \A n \in DOMAIN call : call[n] \in CallRecord
  BY CallType DEF WaitInv, PageInv, PageType
<1>2. /\ Grows(call, call') /\ Len(call') = Len(call) /\ DOMAIN call' = DOMAIN call
      /\ \A n \in DOMAIN call : call'[n].cancelled = call[n].cancelled
  BY <1>1, NetworkGrows
<1>3. ASSUME NEW n \in DOMAIN call, NEW pc \in {"reading", "waiting", "refreshing"},
             Under(call[n]), call' = End(call, n, pc)
      PROVE  \A m \in DOMAIN call : /\ m # n => call'[m] = call[m]
                                    /\ call'[n].pc = pc
  BY <1>1, <1>3, EndGrows
<1>4. CASE \E n \in DOMAIN call : Headers(n)
  <2>1. PICK n \in DOMAIN call : Under(call[n]) /\ call' = End(call, n, "reading")
                                 /\ UNCHANGED refreshing
    BY <1>4 DEF Headers, Under
  <2>2. \A m \in DOMAIN call : Under(call[m]) => Under(call'[m])
    BY <1>3, <2>1 DEF Under
  <2>3. RefreshOK'
    BY <1>1, <2>1, EndQuiet, QuietRefreshes DEF WaitInv
  <2>4. QED
    BY <1>2, <2>2, <2>3, BusyGoesOn DEF Current
<1>5. CASE \E n \in DOMAIN call : Unauthorized(n)
  <2>1. PICK n \in DOMAIN call, pc \in {"waiting", "refreshing"} :
           Under(call[n]) /\ call' = End(call, n, pc) /\ refreshing' = TRUE
    BY <1>5 DEF Unauthorized, Under
  <2>2. \A m \in DOMAIN call : Under(call[m]) => Under(call'[m])
    BY <1>3, <2>1 DEF Under
  <2>3. QED
    BY <1>2, <2>1, <2>2, BusyGoesOn DEF RefreshOK, Current
<1>6. CASE OtherUnauthorized
  BY <1>2, <1>6, BusyGoesOn DEF OtherUnauthorized, RefreshOK, WaitInv, Current
<1>7. CASE RefreshSucceeds
  <2>1. ASSUME NEW m \in DOMAIN call
        PROVE  /\ Current(call[m]) => Under(call'[m])
               /\ call'[m].pc # "refreshing"
    <3>1. CASE call[m].pc \notin {"refreshing", "waiting"}
      <4>1. call'[m] = call[m]
        BY <1>7, <3>1 DEF RefreshSucceeds
      <4>2. QED
        BY <3>1, <4>1 DEF Current
    <3>2. CASE call[m].pc \in {"refreshing", "waiting"}
      <4>1. call'[m].pc = IF call[m].cancelled THEN "over" ELSE "again"
        BY <1>1, <1>7, <3>2 DEF RefreshSucceeds, CallRecord
      <4>2. QED
        BY <4>1 DEF Current, Under
    <3>3. QED
      BY <3>1, <3>2
  <2>2. QED
    BY <1>2, <2>1, BusyGoesOn DEF RefreshOK
<1>8. CASE RefreshFails
  <2>1. ASSUME NEW m \in DOMAIN call
        PROVE  /\ Current(call[m]) => Under(call'[m])
               /\ call'[m].pc # "refreshing"
    <3>1. CASE call[m].pc # "refreshing"
      <4>1. call'[m] = call[m]
        BY <1>8, <3>1 DEF RefreshFails
      <4>2. QED
        BY <3>1, <4>1 DEF Current
    <3>2. CASE call[m].pc = "refreshing"
      <4>1. call'[m].pc = "failed"
        BY <1>1, <1>8, <3>2 DEF RefreshFails, CallRecord
      <4>2. QED
        BY <4>1 DEF Under
    <3>3. QED
      BY <3>1, <3>2
  <2>2. QED
    BY <1>2, <2>1, BusyGoesOn DEF RefreshOK
<1>9. QED
  BY <1>4, <1>5, <1>6, <1>7, <1>8

LEMMA NextWaits == WaitInv /\ [Next]_vars => WaitInv'
<1> SUFFICES ASSUME WaitInv, [Next]_vars PROVE BusyOK' /\ RefreshOK'
  BY NextKeeps DEF WaitInv
<1>1. CASE User
  BY <1>1, UserWaits
<1>2. CASE RefreshEnds
  BY <1>2, NetworkWaits DEF RefreshEnds
<1>3. CASE OtherUnauthorized /\ UNCHANGED pageVars
  BY <1>3, NetworkWaits
<1>4. ASSUME NEW n \in DOMAIN call, Network(n) PROVE BusyOK' /\ RefreshOK'
  BY <1>4, NetworkWaits DEF Network
<1>5. ASSUME NEW n \in DOMAIN call, Settle(n) PROVE BusyOK' /\ RefreshOK'
  BY <1>5, SettleWaits
<1>6. CASE UNCHANGED vars
  BY <1>6 DEF vars, clientVars, pageVars, WaitInv, BusyOK, Busy, RefreshOK
<1>7. QED
  BY <1>1, <1>2, <1>3, <1>4, <1>5, <1>6 DEF Next

\* However late answers, cancelled calls, loads and refreshes of the token
\* interleave, a busy page waits for a call that is under way, uncancelled,
\* and of the kind its state names (useConversation.ts, client.ts).
THEOREM BusyAlwaysWaits == Spec => []BusyWaits
<1>1. Init => WaitInv
  BY InitOK DEF Init, ClientInit, WaitInv, BusyOK, Busy, RefreshOK
<1>2. WaitInv => BusyWaits
  BY DEF WaitInv, BusyOK, RefreshOK, BusyWaits, Current
<1>3. QED
  BY <1>1, <1>2, NextWaits, PTL DEF Spec

=============================================================================
