------------------------- MODULE ParseServiceProofs -------------------------
(***************************************************************************)
(* The parse service keeps its promises for every set of tasks and every   *)
(* limit: slots, directories, waiting handlers, and the abstract jobs.     *)
(*                                                                         *)
(* The invariant says that the processors woken, the processors waiting    *)
(* and the queue are one line in the order of submission.                  *)
(***************************************************************************)
EXTENDS ParseService, FiniteSetTheorems, SequenceTheorems, TLAPS

In(t, q) == \E i \in 1..Len(q) : q[i] = t

Sorted(q, n) == \A i, j \in 1..Len(q) : i < j => n[q[i]] < n[q[j]]

Before(p, q, n) == \A t, u \in Task : In(t, p) /\ In(u, q) => n[t] < n[u]

(***************************************************************************)
(* Sequences of tasks.                                                     *)
(***************************************************************************)
\* Nobody is in an empty line.
LEMMA InEmpty == \A t : ~In(t, <<>>)
BY DEF In

\* An empty line is in order.
LEMMA SortedEmpty == \A n : Sorted(<<>>, n)
BY DEF Sorted

\* Append adds its argument, and nothing else.
LEMMA InAppend ==
    ASSUME NEW q \in Seq(Task), NEW t \in Task
    PROVE  \A u \in Task : In(u, Append(q, t)) <=> In(u, q) \/ u = t
<1> DEFINE a == Append(q, t)
<1>1. /\ Len(q) \in Nat /\ Len(a) = Len(q) + 1
      /\ \A i \in 1..Len(q) : a[i] = q[i]
      /\ a[Len(q) + 1] = t
  BY AppendProperties, LenProperties
<1> HIDE DEF a
<1>2. QED
  BY <1>1 DEF In, a

\* A line is its head and its tail.
LEMMA InTail ==
    ASSUME NEW q \in Seq(Task), q # <<>>
    PROVE  /\ Head(q) \in Task /\ In(Head(q), q)
           /\ \A u \in Task : In(u, q) <=> u = Head(q) \/ In(u, Tail(q))
<1> DEFINE r == Tail(q)
<1>1. /\ Len(q) \in Nat \ {0} /\ Len(r) = Len(q) - 1
      /\ \A i \in 1..Len(r) : r[i] = q[i + 1]
      /\ Head(q) = q[1] /\ Head(q) \in Task
  BY HeadTailProperties, LenProperties, EmptySeq
<1> HIDE DEF r
<1>2. \A u \in Task : In(u, r) => In(u, q)
  BY <1>1 DEF In
<1>3. \A i \in 1..Len(q) : i = 1 \/ (i - 1 \in 1..Len(r) /\ r[i - 1] = q[i])
  BY <1>1
<1>4. ASSUME NEW u \in Task, In(u, q) PROVE u = Head(q) \/ In(u, r)
  BY <1>1, <1>3, <1>4 DEF In
<1>5. In(Head(q), q)
  BY <1>1 DEF In
<1>6. QED
  BY <1>1, <1>2, <1>4, <1>5 DEF r

\* Two lines, one after the other.
LEMMA InConcat ==
    ASSUME NEW p \in Seq(Task), NEW q \in Seq(Task)
    PROVE  \A u \in Task : In(u, p \o q) <=> In(u, p) \/ In(u, q)
<1> DEFINE c == p \o q
<1>1. /\ Len(p) \in Nat /\ Len(q) \in Nat /\ Len(c) = Len(p) + Len(q)
      /\ \A i \in 1..Len(p) + Len(q) :
            c[i] = IF i <= Len(p) THEN p[i] ELSE q[i - Len(p)]
  BY ConcatProperties, LenProperties
<1> HIDE DEF c
<1>2. ASSUME NEW u \in Task, NEW i \in 1..Len(q), q[i] = u PROVE In(u, c)
  <2>1. i + Len(p) \in 1..Len(c) /\ c[i + Len(p)] = u
    BY <1>1, <1>2
  <2>2. QED
    BY <2>1 DEF In
<1>3. QED
  BY <1>1, <1>2 DEF In, c

\* A line cut in two.
LEMMA Split ==
    ASSUME NEW q \in Seq(Task), NEW k \in 0..Len(q)
    PROVE  LET front == SubSeq(q, 1, k)
               back == SubSeq(q, k + 1, Len(q))
           IN /\ front \in Seq(Task) /\ back \in Seq(Task)
              /\ Len(front) = k /\ Len(back) = Len(q) - k
              /\ \A i \in 1..k : front[i] = q[i]
              /\ \A i \in 1..Len(q) - k : back[i] = q[i + k]
<1>1. Len(q) \in Nat /\ \A i \in 1..Len(q) : q[i] \in Task
  BY LenProperties, ElementOfSeq
<1>2. /\ SubSeq(q, 1, k) \in Seq(Task)
      /\ Len(SubSeq(q, 1, k)) = IF 1 <= k THEN k - 1 + 1 ELSE 0
      /\ \A i \in 1..k - 1 + 1 : SubSeq(q, 1, k)[i] = q[1 + i - 1]
  BY <1>1, SubSeqProperties
<1>3. /\ SubSeq(q, k + 1, Len(q)) \in Seq(Task)
      /\ Len(SubSeq(q, k + 1, Len(q))) =
            IF k + 1 <= Len(q) THEN Len(q) - (k + 1) + 1 ELSE 0
      /\ \A i \in 1..Len(q) - (k + 1) + 1 : SubSeq(q, k + 1, Len(q))[i] = q[k + 1 + i - 1]
  BY <1>1, SubSeqProperties
<1>4. QED
  BY <1>1, <1>2, <1>3

\* Who comes last may be appended.
LEMMA SortedAppend ==
    ASSUME NEW q \in Seq(Task), NEW t \in Task, NEW n \in [Task -> Nat],
           Sorted(q, n), \A u \in Task : In(u, q) => n[u] < n[t]
    PROVE  Sorted(Append(q, t), n)
<1> DEFINE a == Append(q, t)
<1>1. /\ Len(q) \in Nat /\ Len(a) = Len(q) + 1
      /\ \A i \in 1..Len(q) : a[i] = q[i] /\ q[i] \in Task
      /\ a[Len(q) + 1] = t
  BY AppendProperties, LenProperties, ElementOfSeq
<1> HIDE DEF a
<1>2. \A i \in 1..Len(q) : n[q[i]] < n[t]
  BY <1>1 DEF In
<1>3. SUFFICES ASSUME NEW i \in 1..Len(a), NEW j \in 1..Len(a), i < j
               PROVE  n[a[i]] < n[a[j]]
  BY DEF Sorted, a
<1>4. CASE j \in 1..Len(q)
  BY <1>1, <1>3, <1>4 DEF Sorted
<1>5. CASE j = Len(q) + 1
  BY <1>1, <1>2, <1>3, <1>5
<1>6. QED
  BY <1>1, <1>4, <1>5

\* The head of an ordered line comes before its tail.
LEMMA SortedTail ==
    ASSUME NEW q \in Seq(Task), q # <<>>, NEW n \in [Task -> Nat], Sorted(q, n)
    PROVE  /\ Sorted(Tail(q), n)
           /\ \A u \in Task : In(u, Tail(q)) => n[Head(q)] < n[u]
<1> DEFINE r == Tail(q)
<1>1. /\ Len(q) \in Nat \ {0} /\ Len(r) = Len(q) - 1
      /\ \A i \in 1..Len(r) : r[i] = q[i + 1]
      /\ Head(q) = q[1]
  BY HeadTailProperties, LenProperties, EmptySeq
<1> HIDE DEF r
<1>2. QED
  BY <1>1 DEF Sorted, In, r

\* Two ordered lines, one before the other, are one ordered line.
LEMMA SortedConcat ==
    ASSUME NEW p \in Seq(Task), NEW q \in Seq(Task), NEW n \in [Task -> Nat],
           Sorted(p, n), Sorted(q, n), Before(p, q, n)
    PROVE  Sorted(p \o q, n)
<1> DEFINE c == p \o q
<1>1. /\ Len(p) \in Nat /\ Len(q) \in Nat /\ Len(c) = Len(p) + Len(q)
      /\ \A i \in 1..Len(p) + Len(q) :
            c[i] = IF i <= Len(p) THEN p[i] ELSE q[i - Len(p)]
      /\ \A i \in 1..Len(p) : p[i] \in Task
      /\ \A i \in 1..Len(q) : q[i] \in Task
  BY ConcatProperties, LenProperties, ElementOfSeq
<1> HIDE DEF c
<1>2. \A i \in 1..Len(p), j \in 1..Len(q) : n[p[i]] < n[q[j]]
  BY <1>1 DEF Before, In
<1>3. SUFFICES ASSUME NEW i \in 1..Len(c), NEW j \in 1..Len(c), i < j
               PROVE  n[c[i]] < n[c[j]]
  BY DEF Sorted, c
<1>4. CASE j <= Len(p)
  BY <1>1, <1>3, <1>4 DEF Sorted
<1>5. CASE i > Len(p)
  <2>1. /\ c[i] = q[i - Len(p)] /\ c[j] = q[j - Len(p)]
        /\ i - Len(p) \in 1..Len(q) /\ j - Len(p) \in 1..Len(q)
        /\ i - Len(p) < j - Len(p)
    BY <1>1, <1>3, <1>5
  <2>2. QED
    BY <2>1 DEF Sorted
<1>6. CASE i <= Len(p) /\ j > Len(p)
  <2>1. c[i] = p[i] /\ c[j] = q[j - Len(p)] /\ j - Len(p) \in 1..Len(q)
    BY <1>1, <1>3, <1>6
  <2>2. QED
    BY <1>1, <1>2, <1>6, <2>1
<1>7. QED
  BY <1>1, <1>3, <1>4, <1>5, <1>6

\* Numbers given to others do not matter.
LEMMA SortedSame ==
    ASSUME NEW q \in Seq(Task), NEW n \in [Task -> Nat], NEW m \in [Task -> Nat],
           Sorted(q, n), \A u \in Task : In(u, q) => m[u] = n[u]
    PROVE  Sorted(q, m)
BY ElementOfSeq, LenProperties DEF Sorted, In

-----------------------------------------------------------------------------
(***************************************************************************)
(* WakeFirst cuts the line of those who wait: the first get a slot each.   *)
(***************************************************************************)
LEMMA WakeFacts ==
    ASSUME NEW n \in Nat, waiting \in Seq(Task), number \in [Task -> Nat],
           Sorted(waiting, number)
    PROVE  LET w == WakeFirst(n) IN
           /\ w.granted \in Seq(Task) /\ w.waiting \in Seq(Task)
           /\ Sorted(w.granted, number) /\ Sorted(w.waiting, number)
           /\ Before(w.granted, w.waiting, number)
           /\ \A u \in Task : In(u, waiting) <=> In(u, w.granted) \/ In(u, w.waiting)
           /\ w.holders = {u \in Task : In(u, w.granted)}
           /\ IsFiniteSet(w.holders) /\ Cardinality(w.holders) \in 0..n
           /\ w.waiting # <<>> => Cardinality(w.holders) = n
           /\ n > 0 /\ waiting # <<>> => w.granted # <<>>
<1> DEFINE k == IF n < Len(waiting) THEN n ELSE Len(waiting)
           front == SubSeq(waiting, 1, k)
           back == SubSeq(waiting, k + 1, Len(waiting))
           H == {front[i] : i \in 1..k}
<1>1. Len(waiting) \in Nat /\ k \in 0..Len(waiting) /\ k \in 0..n
  BY LenProperties
<1>2. /\ front \in Seq(Task) /\ back \in Seq(Task)
      /\ Len(front) = k /\ Len(back) = Len(waiting) - k
      /\ \A i \in 1..k : front[i] = waiting[i]
      /\ \A i \in 1..Len(waiting) - k : back[i] = waiting[i + k]
  BY <1>1, Split
<1>3. /\ WakeFirst(n).granted = front /\ WakeFirst(n).waiting = back
      /\ WakeFirst(n).holders = H
  BY DEF WakeFirst
<1>4. \A i \in 1..Len(waiting) : waiting[i] \in Task
  BY ElementOfSeq
<1> HIDE DEF k, front, back
<1>5. Sorted(front, number) /\ Sorted(back, number)
  <2>1. \A i, j \in 1..Len(waiting) - k : i < j =>
            /\ i + k \in 1..Len(waiting) /\ j + k \in 1..Len(waiting)
            /\ i + k < j + k
    BY <1>1
  <2>2. \A i, j \in 1..Len(waiting) - k :
            i < j => number[waiting[i + k]] < number[waiting[j + k]]
    BY <2>1 DEF Sorted
  <2>3. Sorted(back, number)
    <3>1. SUFFICES ASSUME NEW i \in 1..Len(back), NEW j \in 1..Len(back), i < j
                   PROVE  number[back[i]] < number[back[j]]
      BY DEF Sorted
    <3>2. back[i] = waiting[i + k] /\ back[j] = waiting[j + k]
      BY <1>2
    <3>3. QED
      BY <1>2, <2>2, <3>1, <3>2
  <2>4. Sorted(front, number)
    <3>1. SUFFICES ASSUME NEW i \in 1..Len(front), NEW j \in 1..Len(front), i < j
                   PROVE  number[front[i]] < number[front[j]]
      BY DEF Sorted
    <3>2. /\ front[i] = waiting[i] /\ front[j] = waiting[j]
          /\ i \in 1..Len(waiting) /\ j \in 1..Len(waiting)
      BY <1>1, <1>2
    <3>3. QED
      BY <3>1, <3>2 DEF Sorted
  <2>5. QED
    BY <2>3, <2>4
<1>6. Before(front, back, number)
  <2>1. \A i \in 1..k, j \in 1..Len(waiting) - k :
            number[waiting[i]] < number[waiting[j + k]]
    <3>1. \A i \in 1..k, j \in 1..Len(waiting) - k :
            i \in 1..Len(waiting) /\ j + k \in 1..Len(waiting) /\ i < j + k
      BY <1>1
    <3>2. QED
      BY <3>1 DEF Sorted
  <2>2. ASSUME NEW i \in 1..Len(front), NEW j \in 1..Len(back)
        PROVE  number[front[i]] < number[back[j]]
    <3>1. i \in 1..k /\ j \in 1..Len(waiting) - k
      BY <1>2
    <3>2. front[i] = waiting[i] /\ back[j] = waiting[j + k]
      BY <1>2, <3>1
    <3>3. number[waiting[i]] < number[waiting[j + k]]
      BY <2>1, <3>1
    <3>4. QED
      BY <3>2, <3>3
  <2>3. QED
    BY <2>2 DEF Before, In
<1>7. \A u \in Task : In(u, waiting) <=> In(u, front) \/ In(u, back)
  <2>1. \A i \in 1..Len(waiting) : i \in 1..k \/ i - k \in 1..Len(waiting) - k
    BY <1>1
  <2>2. \A i \in 1..Len(waiting) - k : i + k \in 1..Len(waiting)
    BY <1>1
  <2>3. \A i \in 1..k : i \in 1..Len(waiting)
    BY <1>1
  <2>4. ASSUME NEW u \in Task, In(u, waiting) PROVE In(u, front) \/ In(u, back)
    <3>1. PICK i \in 1..Len(waiting) : waiting[i] = u
      BY <2>4 DEF In
    <3>2. CASE i \in 1..k
      BY <1>2, <3>1, <3>2 DEF In
    <3>3. CASE i - k \in 1..Len(waiting) - k
      <4>1. back[i - k] = waiting[i - k + k]
        BY <1>2, <3>3
      <4>2. QED
        BY <1>1, <1>2, <3>1, <3>3, <4>1 DEF In
    <3>4. QED
      BY <2>1, <3>2, <3>3
  <2>5. ASSUME NEW u \in Task, In(u, front) PROVE In(u, waiting)
    BY <1>2, <2>3, <2>5 DEF In
  <2>6. ASSUME NEW u \in Task, In(u, back) PROVE In(u, waiting)
    <3>1. PICK i \in 1..Len(waiting) - k : back[i] = u
      BY <1>2, <2>6 DEF In
    <3>2. i + k \in 1..Len(waiting) /\ waiting[i + k] = u
      BY <1>2, <2>2, <3>1
    <3>3. QED
      BY <3>2 DEF In
  <2>7. QED
    BY <2>4, <2>5, <2>6
<1>8. H = {u \in Task : In(u, front)}
  BY <1>1, <1>2, <1>4 DEF In
<1>9. front \in Surjection(1..k, H)
  <2>1. front \in [1..k -> H]
    BY <1>2, LenProperties
  <2>2. QED
    BY <2>1 DEF Surjection
<1>10. front \in Injection(1..k, H)
  <2>1. \A i, j \in 1..k : i < j => front[i] # front[j]
    BY <1>1, <1>2, <1>4, <1>5 DEF Sorted
  <2>2. \A i, j \in 1..k : i < j \/ i = j \/ j < i
    BY <1>1
  <2>3. \A i, j \in 1..k : front[i] = front[j] => i = j
    BY <2>1, <2>2
  <2>4. front \in [1..k -> H]
    BY <1>9 DEF Surjection
  <2>5. QED
    BY <2>3, <2>4 DEF Injection, IsInjective
<1>11. IsFiniteSet(1..k) /\ Cardinality(1..k) = k
  BY <1>1, FS_Interval
<1>12. IsFiniteSet(H) /\ Cardinality(H) = k
  BY <1>9, <1>10, <1>11, FS_Surjection
<1>13. back # <<>> => k = n
  BY <1>1, <1>2, EmptySeq DEF k
<1>14. n > 0 /\ waiting # <<>> => front # <<>>
  BY <1>1, <1>2, EmptySeq DEF k
<1> HIDE DEF H
<1>15. QED
  BY <1>1, <1>2, <1>3, <1>5, <1>6, <1>7, <1>8, <1>12, <1>13, <1>14

-----------------------------------------------------------------------------
(***************************************************************************)
(* The invariant.                                                          *)
(***************************************************************************)
\* Woken, waiting and queued processors: one line, and all that is pending.
Line(g, w, q, n, st) ==
    /\ Sorted(g, n) /\ Sorted(w, n) /\ Sorted(q, n)
    /\ Before(g, w, n) /\ Before(g, q, n) /\ Before(w, q, n)
    /\ \A t \in Task : st[t] = "pending" <=> In(t, g) \/ In(t, w) \/ In(t, q)

\* Slots are held by what is processed and by what was woken.
Slots(h, g, w, st) ==
    /\ \A t \in Task : t \in h <=> st[t] = "processing" \/ In(t, g)
    /\ Cardinality(h) <= MaxConcurrent
    /\ w # <<>> => g # <<>> \/ Cardinality(h) = MaxConcurrent

Numbers(st, n, nx) ==
    \A t \in Task : st[t] \in {"pending", "processing"} \cup Terminal => n[t] < nx

Handlers(h, st) == \A t \in Task : h[t].pc \in {"none", "saving"} => st[t] = "none"

LineInv ==
    /\ Line(granted, waiting, queue, number, status)
    /\ Slots(holders, granted, waiting, status)
    /\ Numbers(status, number, next)
    /\ Handlers(handler, status)

LineInvNext ==
    /\ Line(granted', waiting', queue', number', status')
    /\ Slots(holders', granted', waiting', status')
    /\ Numbers(status', number', next')
    /\ Handlers(handler', status')

\* A handler that waits has a task in line or an event; a stopping manager, and
\* no other, has woken everybody; the event of a task that is not over is set by
\* a stopping manager only, and a process that has ended has no handlers.
Wakeful ==
    /\ \A t \in Task :
        handler[t].pc = "waiting" =>
            \/ manager = "running" /\ status[t] \in {"pending", "processing"}
            \/ t \in signalled
            \/ wakeup = TRUE
    /\ manager = "stopping" <=> wakeup = TRUE
    /\ \A t \in signalled :
        /\ status[t] # "none"
        /\ status[t] \in {"pending", "processing"} => manager = "stopping"
    /\ manager = "down" => \A t \in Task : handler[t].pc \notin {"saving", "waiting"}

\* What is not forgotten has its directory, which nobody has tried to remove;
\* any other directory belongs to a handler that a process has left behind.
FilesInv ==
    \A t \in Task :
        /\ status[t] \notin {"none", "removed"} => t \in dirs \ strays
        /\ handler[t].pc = "saving" => t \in dirs \ strays
        /\ t \in strays => handler[t].pc \notin {"none", "saving"}
        /\ t \in dirs \ strays =>
              status[t] \notin {"none", "removed"} \/ handler[t].pc \in {"saving", "broken"}

IInv == ServiceTypeOK /\ LineInv /\ Wakeful /\ FilesInv

-----------------------------------------------------------------------------
(***************************************************************************)
(* Types.                                                                  *)
(***************************************************************************)
\* The semaphore counts a finite number of slots.
LEMMA FreeSlots ==
    ASSUME ServiceTypeOK, Cardinality(holders) <= MaxConcurrent
    PROVE  IsFiniteSet(holders) /\ Cardinality(holders) \in Nat /\ Free \in Nat
<1>1. IsFiniteSet(holders)
  BY ServiceAssumption, FS_Subset DEF ServiceTypeOK
<1>2. Cardinality(holders) \in Nat
  BY <1>1, FS_CardinalityType
<1>3. QED
  BY <1>1, <1>2, ServiceAssumption DEF Free

\* What the semaphore hands out are processors.
LEMMA WakeType ==
    ASSUME ServiceTypeOK, NEW n \in Nat, Sorted(waiting, number)
    PROVE  /\ WakeFirst(n).granted \in Seq(Task) /\ WakeFirst(n).waiting \in Seq(Task)
           /\ WakeFirst(n).holders \in SUBSET Task
<1>1. waiting \in Seq(Task) /\ number \in [Task -> Nat]
  BY DEF ServiceTypeOK
<1>2. WakeFirst(n).holders = {u \in Task : In(u, WakeFirst(n).granted)}
  BY <1>1, WakeFacts
<1>3. QED
  BY <1>1, <1>2, WakeFacts

\* An answer leaves a handler.
LEMMA HandlerType ==
    ASSUME ServiceTypeOK, NEW t \in Task, NEW a \in Answer, AnswerWith(t, a)
    PROVE  handler' \in [Task -> Handler]
BY DEF ServiceTypeOK, AnswerWith, Handler

\* A new manager is well typed.
LEMMA InitType == ServiceInit => ServiceTypeOK
<1> SUFFICES ASSUME ServiceInit PROVE ServiceTypeOK
  OBVIOUS
<1>1. NoHandler \in Handler
  BY DEF NoHandler, Handler, Answer
<1>2. handler \in [Task -> Handler] /\ status \in [Task -> Status] /\ number \in [Task -> Nat]
  BY <1>1 DEF ServiceInit, Status
<1>3. queue = <<>> /\ waiting = <<>> /\ granted = <<>>
  BY DEF ServiceInit
<1>4. wakeup \in BOOLEAN
  BY Zenon DEF ServiceInit
<1>5. /\ next \in Nat \ {0} /\ restarts \in Nat
      /\ holders \in SUBSET Task /\ signalled \in SUBSET Task
      /\ dirs \in SUBSET Task /\ strays \in SUBSET Task
      /\ manager \in {"running", "stopping", "down"}
  BY DEF ServiceInit
<1>6. queue \in Seq(Task) /\ waiting \in Seq(Task) /\ granted \in Seq(Task)
  BY <1>3, EmptySeq
<1>7. QED
  BY <1>2, <1>4, <1>5, <1>6 DEF ServiceTypeOK

\* Every step keeps the types.
LEMMA TypeStep ==
    ASSUME ServiceTypeOK, LineInv, ServiceNext
    PROVE  ServiceTypeOK'
<1> USE DEF ServiceTypeOK
<1>1. ASSUME NEW t \in Task, NEW kind \in {"sync", "async"}, Accept(t, kind)
      PROVE  ServiceTypeOK'
  BY <1>1 DEF Accept, slotVars, Handler, Answer
<1>2. ASSUME NEW t \in Task, NEW a \in {"badRequest", "error"}, RejectUpload(t, a)
      PROVE  ServiceTypeOK'
  BY <1>2, HandlerType DEF RejectUpload, slotVars, diskVars, Answer
<1>3. ASSUME NEW t \in Task, Submit(t) PROVE ServiceTypeOK'
  <2>1. /\ status' \in [Task -> Status] /\ number' \in [Task -> Nat]
        /\ next' \in Nat \ {0}
    BY <1>3 DEF Submit, Status
  <2>2. queue' \in Seq(Task)
    BY <1>3, AppendProperties DEF Submit
  <2>3. handler' \in [Task -> Handler]
    <3>1. CASE handler[t].kind = "async"
      BY <1>3, <3>1, HandlerType DEF Submit, Answer
    <3>2. CASE handler[t].kind # "async"
      BY <1>3, <3>2 DEF Submit, Handler
    <3>3. QED
      BY <3>1, <3>2
  <2>4. QED
    BY <1>3, <2>1, <2>2, <2>3 DEF Submit, slotVars, diskVars
<1>4. ASSUME NEW t \in Task, Resume(t) PROVE ServiceTypeOK'
  <2>1. handler' \in [Task -> Handler]
    <3>1. CASE status[t] = "completed"
      BY <1>4, <3>1 DEF Resume, Handler
    <3>2. CASE status[t] = "failed"
      BY <1>4, <3>2, HandlerType DEF Resume, Answer
    <3>3. CASE status[t] \notin {"completed", "failed"}
      BY <1>4, <3>3, HandlerType DEF Resume, Answer
    <3>4. QED
      BY <3>1, <3>2, <3>3
  <2>2. QED
    BY <1>4, <2>1 DEF Resume, slotVars, diskVars
<1>5. ASSUME NEW t \in Task, BuildResult(t) PROVE ServiceTypeOK'
  BY <1>5, HandlerType DEF BuildResult, Results, Answer, slotVars, diskVars
<1>6. ASSUME NEW t \in Task, NEW outcome \in Terminal, EndParse(t, outcome)
      PROVE  ServiceTypeOK'
  <2>1. /\ WakeFirst(1).granted \in Seq(Task) /\ WakeFirst(1).waiting \in Seq(Task)
        /\ WakeFirst(1).holders \in SUBSET Task
    BY WakeType DEF LineInv, Line
  <2>2. granted' \in Seq(Task) /\ waiting' \in Seq(Task) /\ holders' \in SUBSET Task
    BY <1>6, <2>1, ConcatProperties DEF EndParse
  <2>3. status' \in [Task -> Status] /\ signalled' \in SUBSET Task
    BY <1>6 DEF EndParse, Status
  <2>4. QED
    BY <1>6, <2>2, <2>3 DEF EndParse, diskVars
<1>7. CASE Dispatch
  <2>1. Head(queue) \in Task /\ Tail(queue) \in Seq(Task)
    BY <1>7, HeadTailProperties DEF Dispatch
  <2>2. /\ queue' \in Seq(Task) /\ waiting' \in Seq(Task)
        /\ holders' \in SUBSET Task /\ status' \in [Task -> Status]
    <3>1. queue' \in Seq(Task)
      BY <1>7, <2>1 DEF Dispatch
    <3>2. Append(waiting, Head(queue)) \in Seq(Task)
      BY <2>1, AppendProperties
    <3>3. CASE Free > 0 /\ waiting = <<>> /\ granted = <<>>
      BY <1>7, <2>1, <3>1, <3>3 DEF Dispatch, Status
    <3>4. CASE ~(Free > 0 /\ waiting = <<>> /\ granted = <<>>)
      BY <1>7, <3>1, <3>2, <3>4 DEF Dispatch
    <3>5. QED
      BY <3>3, <3>4
  <2>3. QED
    BY <1>7, <2>2 DEF Dispatch, diskVars
<1>8. CASE BeginParse
  <2>1. Head(granted) \in Task /\ Tail(granted) \in Seq(Task)
    BY <1>8, HeadTailProperties DEF BeginParse
  <2>2. Free \in Nat
    BY FreeSlots DEF LineInv, Slots
  <2>3. /\ WakeFirst(Free).granted \in Seq(Task) /\ WakeFirst(Free).waiting \in Seq(Task)
        /\ WakeFirst(Free).holders \in SUBSET Task
    BY <2>2, WakeType DEF LineInv, Line
  <2>4. /\ granted' \in Seq(Task) /\ waiting' \in Seq(Task)
        /\ holders' \in SUBSET Task
    BY <1>8, <2>1, <2>3, ConcatProperties DEF BeginParse
  <2>5. status' \in [Task -> Status]
    BY <1>8, <2>1 DEF BeginParse, Status
  <2>6. QED
    BY <1>8, <2>4, <2>5 DEF BeginParse, diskVars
<1>9. ASSUME NEW S \in SUBSET Task, CleanupExpired(S) PROVE ServiceTypeOK'
  BY <1>9 DEF CleanupExpired, slotVars, Status
<1>10. CASE BeginShutdown
  BY <1>10 DEF BeginShutdown, slotVars, diskVars
<1>11. CASE EndShutdown \/ Crash
  <2>1. ProcessEnds
    BY <1>11 DEF EndShutdown, Crash
  <2>2. status' \in [Task -> Status] /\ handler' \in [Task -> Handler]
    BY <2>1 DEF ProcessEnds, Status, Handler
  <2>4. queue' = <<>> /\ waiting' = <<>> /\ granted' = <<>>
    BY <2>1 DEF ProcessEnds
  <2>5. queue' \in Seq(Task) /\ waiting' \in Seq(Task) /\ granted' \in Seq(Task)
    BY <2>4, EmptySeq
  <2>6. /\ number' \in [Task -> Nat] /\ next' \in Nat \ {0} /\ restarts' \in Nat
        /\ holders' \in SUBSET Task /\ signalled' \in SUBSET Task
        /\ dirs' \in SUBSET Task /\ strays' \in SUBSET Task /\ manager' = "down"
    BY <2>1 DEF ProcessEnds, diskVars
  <2>7. wakeup' \in BOOLEAN
    BY <2>1, Zenon DEF ProcessEnds
  <2>8. QED
    BY <2>2, <2>5, <2>6, <2>7
<1>12. CASE StartUp
  BY <1>12 DEF StartUp, slotVars, diskVars
<1>13. ASSUME NEW t \in Task, LeaveUpload(t) PROVE ServiceTypeOK'
  <2>1. handler' \in [Task -> Handler]
    <3>1. CASE AnswerWith(t, "unavailable")
      BY <3>1, HandlerType DEF Answer
    <3>2. CASE handler' = [handler EXCEPT ![t].pc = "broken"]
      BY <3>2 DEF Handler
    <3>3. QED
      BY <1>13, <3>1, <3>2 DEF LeaveUpload
  <2>2. QED
    BY <1>13, <2>1 DEF LeaveUpload, slotVars
<1>14. QED
  BY <1>1, <1>2, <1>3, <1>4, <1>5, <1>6, <1>7, <1>8, <1>9, <1>10, <1>11, <1>12, <1>13
     DEF ServiceNext, ServiceStep

-----------------------------------------------------------------------------
(***************************************************************************)
(* The line.                                                               *)
(***************************************************************************)
\* At the start nobody is in line and no slot is taken.
LEMMA InitLine == ServiceInit => LineInv
<1> SUFFICES ASSUME ServiceInit PROVE LineInv
  OBVIOUS
<1>1. /\ queue = <<>> /\ waiting = <<>> /\ granted = <<>>
      /\ \A t \in Task : status[t] = "none"
      /\ holders = {}
  BY DEF ServiceInit
<1>2. Cardinality(holders) <= MaxConcurrent
  BY <1>1, FS_EmptySet, ServiceAssumption
<1>3. Line(granted, waiting, queue, number, status)
  BY <1>1, InEmpty, SortedEmpty DEF Line, Before
<1>4. Slots(holders, granted, waiting, status)
  BY <1>1, <1>2, InEmpty DEF Slots
<1>5. Numbers(status, number, next) /\ Handlers(handler, status)
  BY <1>1 DEF Numbers, Handlers, Terminal
<1>6. QED
  BY <1>3, <1>4, <1>5 DEF LineInv

\* A step of the handlers alone does not touch the line.
LEMMA LineSame ==
    ASSUME LineInv, UNCHANGED <<status, number, next, queue, waiting, granted, holders>>,
           Handlers(handler', status)
    PROVE  LineInvNext
BY DEF LineInv, LineInvNext

\* The sizes of two sets that share nothing add up.
LEMMA Disjoint ==
    ASSUME NEW S, NEW T, IsFiniteSet(S), IsFiniteSet(T), S \cap T = {}
    PROVE  /\ IsFiniteSet(S \cup T)
           /\ Cardinality(S \cup T) = Cardinality(S) + Cardinality(T)
<1>1. /\ IsFiniteSet(S \cup T)
      /\ Cardinality(S \cup T) = Cardinality(S) + Cardinality(T) - Cardinality(S \cap T)
  BY FS_Union
<1>2. Cardinality(S \cap T) = 0
  BY FS_EmptySet
<1>3. Cardinality(S) \in Nat /\ Cardinality(T) \in Nat
  BY FS_CardinalityType
<1>4. QED
  BY <1>1, <1>2, <1>3

\* Who is in line twice would be before itself.
LEMMA OneLine ==
    ASSUME ServiceTypeOK, LineInv
    PROVE  \A t \in Task :
              /\ In(t, granted) => ~In(t, waiting) /\ ~In(t, queue)
              /\ In(t, waiting) => ~In(t, queue)
BY DEF ServiceTypeOK, LineInv, Line, Before

\* A new task has the highest number: it joins at the end.
LEMMA SubmitLine ==
    ASSUME ServiceTypeOK, LineInv, NEW t \in Task, Submit(t)
    PROVE  LineInvNext
<1> DEFINE m == [number EXCEPT ![t] = next]
<1>1. /\ number \in [Task -> Nat] /\ m \in [Task -> Nat] /\ next \in Nat
      /\ queue \in Seq(Task) /\ waiting \in Seq(Task) /\ granted \in Seq(Task)
  BY DEF ServiceTypeOK
<1>2. /\ number' = m /\ queue' = Append(queue, t) /\ waiting' = waiting
      /\ granted' = granted /\ holders' = holders /\ next' = next + 1
      /\ status' = [status EXCEPT ![t] = "pending"]
  BY DEF Submit, slotVars
<1>3. status[t] = "none" /\ status \in [Task -> Status]
  BY DEF ServiceTypeOK, LineInv, Handlers, Submit
<1>4. m[t] = next /\ \A u \in Task : u # t => m[u] = number[u]
  BY <1>1
<1> HIDE DEF m
<1>5. \A u \in Task : In(u, granted) \/ In(u, waiting) \/ In(u, queue) =>
          u # t /\ m[u] = number[u] /\ m[u] < m[t]
  BY <1>1, <1>3, <1>4 DEF LineInv, Line, Numbers
<1>6. Sorted(granted, m) /\ Sorted(waiting, m) /\ Sorted(queue, m)
  <2>1. Sorted(granted, number) /\ Sorted(waiting, number) /\ Sorted(queue, number)
    BY DEF LineInv, Line
  <2>2. /\ \A u \in Task : In(u, granted) => m[u] = number[u]
        /\ \A u \in Task : In(u, waiting) => m[u] = number[u]
        /\ \A u \in Task : In(u, queue) => m[u] = number[u]
    BY <1>5
  <2>3. Sorted(granted, m)
    BY <1>1, <2>1, <2>2, SortedSame
  <2>4. Sorted(waiting, m)
    BY <1>1, <2>1, <2>2, SortedSame
  <2>5. Sorted(queue, m)
    BY <1>1, <2>1, <2>2, SortedSame
  <2>6. QED
    BY <2>3, <2>4, <2>5
<1>7. Sorted(Append(queue, t), m)
  BY <1>1, <1>5, <1>6, SortedAppend
<1>8. \A u \in Task : In(u, Append(queue, t)) <=> In(u, queue) \/ u = t
  BY <1>1, InAppend
<1>9. /\ Before(granted, waiting, m) /\ Before(granted, Append(queue, t), m)
      /\ Before(waiting, Append(queue, t), m)
  BY <1>5, <1>8 DEF LineInv, Line, Before
<1>10. \A u \in Task : status'[u] = "pending" <=>
           In(u, granted) \/ In(u, waiting) \/ In(u, Append(queue, t))
  BY <1>2, <1>3, <1>8 DEF LineInv, Line
<1>11. Line(granted', waiting', queue', number', status')
  BY <1>2, <1>6, <1>7, <1>9, <1>10 DEF Line
<1>12. Slots(holders', granted', waiting', status')
  BY <1>2, <1>3, <1>5 DEF LineInv, Slots
<1>13. Numbers(status', number', next')
  BY <1>1, <1>2, <1>3, <1>4 DEF LineInv, Numbers, Terminal
<1>14. Handlers(handler', status')
  <2>1. \A u \in Task : handler'[u].pc \in {"none", "saving"} =>
            u # t /\ handler'[u] = handler[u]
    BY DEF Submit, AnswerWith, ServiceTypeOK, Handler
  <2>2. QED
    BY <1>2, <1>3, <2>1 DEF LineInv, Handlers
<1>15. QED
  BY <1>11, <1>12, <1>13, <1>14 DEF LineInvNext

\* The head of the queue takes a free slot, or joins those who wait.
LEMMA DispatchLine ==
    ASSUME ServiceTypeOK, LineInv, Dispatch
    PROVE  LineInvNext
<1> DEFINE t == Head(queue)
           r == Tail(queue)
<1>1. /\ number \in [Task -> Nat] /\ status \in [Task -> Status]
      /\ queue \in Seq(Task) /\ waiting \in Seq(Task) /\ granted \in Seq(Task)
      /\ queue # <<>>
  BY DEF ServiceTypeOK, Dispatch
<1>2. /\ t \in Task /\ In(t, queue)
      /\ \A u \in Task : In(u, queue) <=> u = t \/ In(u, r)
  BY <1>1, InTail
<1>3. Sorted(r, number) /\ \A u \in Task : In(u, r) => number[t] < number[u]
  BY <1>1, SortedTail DEF LineInv, Line
<1>4. /\ number' = number /\ next' = next /\ queue' = r /\ granted' = granted
      /\ handler' = handler
  BY DEF Dispatch
<1>5. status[t] = "pending" /\ ~In(t, granted) /\ ~In(t, waiting) /\ ~In(t, r)
  BY <1>1, <1>2, <1>3, OneLine DEF LineInv, Line
<1>6. IsFiniteSet(holders) /\ Cardinality(holders) \in Nat
      /\ Cardinality(holders) <= MaxConcurrent /\ MaxConcurrent \in Nat
  BY FreeSlots, ServiceAssumption DEF LineInv, Slots
<1>7. CASE Free > 0 /\ waiting = <<>> /\ granted = <<>>
  <2>1. /\ holders' = holders \cup {t} /\ waiting' = waiting
        /\ status' = [status EXCEPT ![t] = "processing"]
    BY <1>7 DEF Dispatch
  <2>2. /\ Sorted(granted, number) /\ Sorted(waiting, number)
        /\ Before(granted, waiting, number) /\ Before(granted, queue, number)
        /\ Before(waiting, queue, number)
    BY DEF LineInv, Line
  <2>3. Before(granted, r, number) /\ Before(waiting, r, number)
    BY <1>2, <2>2 DEF Before
  <2>4. \A u \in Task : status'[u] = "pending" <=>
            In(u, granted) \/ In(u, waiting) \/ In(u, r)
    BY <1>1, <1>2, <1>5, <2>1 DEF LineInv, Line
  <2>5. Line(granted', waiting', queue', number', status')
    BY <1>3, <1>4, <2>1, <2>2, <2>3, <2>4 DEF Line
  <2>6. t \notin holders
    BY <1>2, <1>5 DEF LineInv, Slots
  <2>7. Cardinality(holders \cup {t}) = Cardinality(holders) + 1
    BY <1>6, <2>6, FS_AddElement
  <2>8. Cardinality(holders') <= MaxConcurrent
    BY <1>6, <1>7, <2>1, <2>7 DEF Free
  <2>9. Slots(holders', granted', waiting', status')
    BY <1>1, <1>2, <1>4, <1>7, <2>1, <2>8 DEF LineInv, Slots
  <2>10. Numbers(status', number', next') /\ Handlers(handler', status')
    BY <1>1, <1>2, <1>4, <1>5, <2>1 DEF LineInv, Numbers, Handlers, Terminal
  <2>11. QED
    BY <2>5, <2>9, <2>10 DEF LineInvNext
<1>8. CASE ~(Free > 0 /\ waiting = <<>> /\ granted = <<>>)
  <2>1. holders' = holders /\ waiting' = Append(waiting, t) /\ status' = status
    BY <1>8 DEF Dispatch
  <2>2. \A u \in Task : In(u, Append(waiting, t)) <=> In(u, waiting) \/ u = t
    BY <1>1, <1>2, InAppend
  <2>3. Sorted(Append(waiting, t), number)
    BY <1>1, <1>2, SortedAppend DEF LineInv, Line, Before
  <2>4. /\ Before(granted, Append(waiting, t), number) /\ Before(granted, r, number)
        /\ Before(Append(waiting, t), r, number)
    BY <1>1, <1>2, <1>3, <2>2 DEF LineInv, Line, Before
  <2>5. \A u \in Task : status[u] = "pending" <=>
            In(u, granted) \/ In(u, Append(waiting, t)) \/ In(u, r)
    BY <1>2, <2>2 DEF LineInv, Line
  <2>6. Line(granted', waiting', queue', number', status')
    BY <1>3, <1>4, <2>1, <2>3, <2>4, <2>5 DEF LineInv, Line
  <2>7. granted # <<>> \/ Cardinality(holders) = MaxConcurrent
    BY <1>6, <1>8 DEF Free, LineInv, Slots
  <2>8. Slots(holders', granted', waiting', status')
    BY <1>4, <2>1, <2>7 DEF LineInv, Slots
  <2>9. QED
    BY <1>4, <2>1, <2>6, <2>8 DEF LineInv, LineInvNext
<1>9. QED
  BY <1>7, <1>8

\* A woken processor runs: it takes the place of its waiting number, and
\* wakes the first waiters for the slots that are free.
LEMMA BeginParseLine ==
    ASSUME ServiceTypeOK, LineInv, BeginParse
    PROVE  LineInvNext
<1> DEFINE t == Head(granted)
           r == Tail(granted)
           g == WakeFirst(Free).granted
           w == WakeFirst(Free).waiting
           h == WakeFirst(Free).holders
<1>1. /\ number \in [Task -> Nat] /\ status \in [Task -> Status]
      /\ queue \in Seq(Task) /\ waiting \in Seq(Task) /\ granted \in Seq(Task)
      /\ granted # <<>>
  BY DEF ServiceTypeOK, BeginParse
<1>2. /\ t \in Task /\ In(t, granted)
      /\ \A u \in Task : In(u, granted) <=> u = t \/ In(u, r)
  BY <1>1, InTail
<1>3. Sorted(r, number) /\ \A u \in Task : In(u, r) => number[t] < number[u]
  BY <1>1, SortedTail DEF LineInv, Line
<1>4. /\ number' = number /\ next' = next /\ queue' = queue /\ handler' = handler
      /\ granted' = r \o g /\ waiting' = w /\ holders' = holders \cup h
      /\ status' = [status EXCEPT ![t] = "processing"]
  BY DEF BeginParse
<1>5. status[t] = "pending" /\ ~In(t, waiting) /\ ~In(t, queue) /\ ~In(t, r)
  BY <1>1, <1>2, <1>3, OneLine DEF LineInv, Line
<1>6. /\ IsFiniteSet(holders) /\ Cardinality(holders) \in Nat /\ Free \in Nat
      /\ Cardinality(holders) <= MaxConcurrent /\ MaxConcurrent \in Nat
      /\ Free = MaxConcurrent - Cardinality(holders)
  BY FreeSlots, ServiceAssumption DEF LineInv, Slots, Free
<1>7. /\ g \in Seq(Task) /\ w \in Seq(Task)
      /\ Sorted(g, number) /\ Sorted(w, number) /\ Before(g, w, number)
      /\ \A u \in Task : In(u, waiting) <=> In(u, g) \/ In(u, w)
      /\ h = {u \in Task : In(u, g)}
      /\ IsFiniteSet(h) /\ Cardinality(h) \in 0..Free
      /\ w # <<>> => Cardinality(h) = Free
  BY <1>1, <1>6, WakeFacts DEF LineInv, Line
<1>8. r \in Seq(Task)
  BY <1>1, HeadTailProperties
<1> HIDE DEF t, r, g, w, h
<1>9. \A u \in Task : In(u, r \o g) <=> In(u, r) \/ In(u, g)
  BY <1>7, <1>8, InConcat
<1>10. Before(r, g, number)
  BY <1>2, <1>7 DEF LineInv, Line, Before
<1>11. Sorted(r \o g, number)
  BY <1>1, <1>3, <1>7, <1>8, <1>10, SortedConcat
<1>12. /\ Before(r \o g, w, number) /\ Before(r \o g, queue, number)
       /\ Before(w, queue, number)
  BY <1>2, <1>7, <1>9 DEF LineInv, Line, Before
<1>13. \A u \in Task : status'[u] = "pending" <=>
           In(u, r \o g) \/ In(u, w) \/ In(u, queue)
  <2>1. \A u \in Task : status'[u] = "pending" <=> u # t /\ status[u] = "pending"
    BY <1>1, <1>2, <1>4
  <2>2. \A u \in Task : status[u] = "pending" <=>
            In(u, granted) \/ In(u, waiting) \/ In(u, queue)
    BY DEF LineInv, Line
  <2>3. QED
    BY <1>2, <1>5, <1>7, <1>9, <2>1, <2>2
<1>14. Line(granted', waiting', queue', number', status')
  BY <1>4, <1>7, <1>11, <1>12, <1>13 DEF LineInv, Line
<1>15. holders \cap h = {}
  <2>1. \A u \in Task : In(u, g) => In(u, waiting) /\ status[u] = "pending"
    BY <1>7 DEF LineInv, Line
  <2>2. \A u \in Task : In(u, g) => ~In(u, granted)
    BY <2>1, OneLine
  <2>3. QED
    BY <1>7, <2>1, <2>2 DEF LineInv, Slots
<1>16. IsFiniteSet(holders \cup h)
       /\ Cardinality(holders \cup h) = Cardinality(holders) + Cardinality(h)
  BY <1>6, <1>7, <1>15, Disjoint
<1>17. /\ Cardinality(holders') <= MaxConcurrent
       /\ waiting' # <<>> => Cardinality(holders') = MaxConcurrent
  BY <1>4, <1>6, <1>7, <1>16
<1>18. \A u \in Task : u \in holders' <=> status'[u] = "processing" \/ In(u, granted')
  <2>1. \A u \in Task : status'[u] = "processing" <=> u = t \/ status[u] = "processing"
    BY <1>1, <1>2, <1>4
  <2>2. \A u \in Task : u \in holders' <=> u \in holders \/ In(u, g)
    BY <1>4, <1>7
  <2>3. \A u \in Task : u \in holders <=> status[u] = "processing" \/ In(u, granted)
    BY DEF LineInv, Slots
  <2>4. QED
    BY <1>2, <1>4, <1>9, <2>1, <2>2, <2>3
<1>19. Slots(holders', granted', waiting', status')
  BY <1>17, <1>18 DEF Slots
<1>20. Numbers(status', number', next') /\ Handlers(handler', status')
  BY <1>1, <1>2, <1>4, <1>5 DEF LineInv, Numbers, Handlers, Terminal
<1>21. QED
  BY <1>14, <1>19, <1>20 DEF LineInvNext

\* A slot that is given back goes to the first who waits.
LEMMA EndParseLine ==
    ASSUME ServiceTypeOK, LineInv, NEW t \in Task, NEW outcome \in Terminal,
           EndParse(t, outcome)
    PROVE  LineInvNext
<1> DEFINE g == WakeFirst(1).granted
           w == WakeFirst(1).waiting
           h == WakeFirst(1).holders
<1>1. /\ number \in [Task -> Nat] /\ status \in [Task -> Status]
      /\ queue \in Seq(Task) /\ waiting \in Seq(Task) /\ granted \in Seq(Task)
      /\ t \in holders /\ status[t] = "processing"
  BY DEF ServiceTypeOK, EndParse
<1>2. /\ number' = number /\ next' = next /\ queue' = queue /\ handler' = handler
      /\ granted' = granted \o g /\ waiting' = w
      /\ holders' = (holders \ {t}) \cup h
      /\ status' = [status EXCEPT ![t] = outcome]
  BY DEF EndParse
<1>3. ~In(t, granted) /\ ~In(t, waiting) /\ ~In(t, queue)
  BY <1>1 DEF LineInv, Line
<1>4. /\ IsFiniteSet(holders) /\ Cardinality(holders) \in Nat
      /\ Cardinality(holders) <= MaxConcurrent /\ MaxConcurrent \in Nat
  BY FreeSlots, ServiceAssumption DEF LineInv, Slots
<1>5. /\ g \in Seq(Task) /\ w \in Seq(Task)
      /\ Sorted(g, number) /\ Sorted(w, number) /\ Before(g, w, number)
      /\ \A u \in Task : In(u, waiting) <=> In(u, g) \/ In(u, w)
      /\ h = {u \in Task : In(u, g)}
      /\ IsFiniteSet(h) /\ Cardinality(h) \in 0..1
      /\ waiting # <<>> => g # <<>>
  <2>1. Sorted(waiting, number)
    BY DEF LineInv, Line
  <2>2. 1 \in Nat /\ 1 > 0
    OBVIOUS
  <2>3. QED
    BY <1>1, <2>1, <2>2, WakeFacts
<1> HIDE DEF g, w, h
<1>6. \A u \in Task : In(u, granted \o g) <=> In(u, granted) \/ In(u, g)
  BY <1>1, <1>5, InConcat
<1>7. Before(granted, g, number)
  BY <1>5 DEF LineInv, Line, Before
<1>8. Sorted(granted \o g, number)
  BY <1>1, <1>5, <1>7, SortedConcat DEF LineInv, Line
<1>9. /\ Before(granted \o g, w, number) /\ Before(granted \o g, queue, number)
      /\ Before(w, queue, number)
  BY <1>5, <1>6 DEF LineInv, Line, Before
<1>10. outcome \notin {"pending", "processing"}
  BY DEF Terminal
<1>11. \A u \in Task : status'[u] = "pending" <=>
           In(u, granted \o g) \/ In(u, w) \/ In(u, queue)
  <2>1. \A u \in Task : status'[u] = "pending" <=> status[u] = "pending"
    BY <1>1, <1>2, <1>10
  <2>2. \A u \in Task : status[u] = "pending" <=>
            In(u, granted) \/ In(u, waiting) \/ In(u, queue)
    BY DEF LineInv, Line
  <2>3. QED
    BY <1>5, <1>6, <2>1, <2>2
<1>12. Line(granted', waiting', queue', number', status')
  BY <1>2, <1>5, <1>8, <1>9, <1>11 DEF LineInv, Line
<1>13. IsFiniteSet(holders \ {t})
       /\ Cardinality(holders \ {t}) = Cardinality(holders) - 1
  BY <1>1, <1>4, FS_RemoveElement
<1>14. (holders \ {t}) \cap h = {}
  <2>1. \A u \in Task : In(u, g) => In(u, waiting) /\ status[u] = "pending"
    BY <1>5 DEF LineInv, Line
  <2>2. \A u \in Task : In(u, g) => ~In(u, granted)
    BY <2>1, OneLine
  <2>3. QED
    BY <1>5, <2>1, <2>2 DEF LineInv, Slots
<1>15. Cardinality((holders \ {t}) \cup h) =
           Cardinality(holders \ {t}) + Cardinality(h)
  BY <1>5, <1>13, <1>14, Disjoint
<1>16. Cardinality(holders') <= MaxConcurrent
  BY <1>2, <1>4, <1>5, <1>13, <1>15
<1>17. waiting' # <<>> => granted' # <<>>
  <2>1. SUFFICES ASSUME w # <<>> PROVE granted \o g # <<>>
    BY <1>2
  <2>2. Head(w) \in Task /\ In(Head(w), w)
    BY <1>5, <2>1, InTail
  <2>3. waiting # <<>>
    BY <1>5, <2>2, InEmpty
  <2>4. Head(g) \in Task /\ In(Head(g), g)
    BY <1>5, <2>3, InTail
  <2>5. QED
    BY <1>6, <2>4, InEmpty
<1>18. \A u \in Task : u \in holders' <=> status'[u] = "processing" \/ In(u, granted')
  <2>1. \A u \in Task : status'[u] = "processing" <=> u # t /\ status[u] = "processing"
    BY <1>1, <1>2, <1>10
  <2>2. \A u \in Task : u \in holders' <=> (u # t /\ u \in holders) \/ In(u, g)
    BY <1>2, <1>5
  <2>3. \A u \in Task : u \in holders <=> status[u] = "processing" \/ In(u, granted)
    BY DEF LineInv, Slots
  <2>4. QED
    BY <1>2, <1>3, <1>6, <2>1, <2>2, <2>3
<1>19. Slots(holders', granted', waiting', status')
  BY <1>16, <1>17, <1>18 DEF Slots
<1>20. Numbers(status', number', next') /\ Handlers(handler', status')
  BY <1>1, <1>2 DEF LineInv, Numbers, Handlers, Terminal
<1>21. QED
  BY <1>12, <1>19, <1>20 DEF LineInvNext

\* Only tasks that have left the line are forgotten.
LEMMA CleanupLine ==
    ASSUME ServiceTypeOK, LineInv, NEW S \in SUBSET Task, CleanupExpired(S)
    PROVE  LineInvNext
<1>1. UNCHANGED <<number, next, queue, waiting, granted, holders, handler>>
  BY DEF CleanupExpired, slotVars
<1>2. \A u \in Task :
          /\ status'[u] = "pending" <=> status[u] = "pending"
          /\ status'[u] = "processing" <=> status[u] = "processing"
          /\ status'[u] \in Terminal => status[u] \in Terminal
          /\ status[u] = "none" => status'[u] = "none"
  BY DEF CleanupExpired, Terminal, ServiceTypeOK
<1>3. Line(granted', waiting', queue', number', status')
  BY <1>1, <1>2 DEF LineInv, Line
<1>4. Slots(holders', granted', waiting', status')
  BY <1>1, <1>2 DEF LineInv, Slots
<1>5. Numbers(status', number', next') /\ Handlers(handler', status')
  BY <1>1, <1>2 DEF LineInv, Numbers, Handlers
<1>6. QED
  BY <1>3, <1>4, <1>5 DEF LineInvNext

\* A process that has ended has no line.
LEMMA ProcessEndsLine ==
    ASSUME ServiceTypeOK, LineInv, ProcessEnds
    PROVE  LineInvNext
<1>1. queue' = <<>> /\ waiting' = <<>> /\ granted' = <<>> /\ holders' = {}
  BY DEF ProcessEnds
<1>2. \A u \in Task :
          /\ status'[u] \notin {"pending", "processing"} \cup Terminal
          /\ status[u] = "none" => status'[u] = "none"
  BY DEF ProcessEnds, Known, Terminal, ServiceTypeOK
<1>3. \A u \in Task : handler'[u].pc \in {"none", "saving"} =>
          handler[u].pc \in {"none", "saving"}
  BY DEF ProcessEnds, ServiceTypeOK, Handler
<1>4. Cardinality(holders') <= MaxConcurrent
  BY <1>1, FS_EmptySet, ServiceAssumption
<1>5. Line(granted', waiting', queue', number', status')
  BY <1>1, <1>2, InEmpty, SortedEmpty DEF Line, Before
<1>6. Slots(holders', granted', waiting', status')
  BY <1>1, <1>2, <1>4, InEmpty DEF Slots
<1>7. Numbers(status', number', next') /\ Handlers(handler', status')
  BY <1>2, <1>3 DEF LineInv, Numbers, Handlers
<1>8. QED
  BY <1>5, <1>6, <1>7 DEF LineInvNext

\* Every step keeps the line.
LEMMA LineStep ==
    ASSUME ServiceTypeOK, LineInv, ServiceNext
    PROVE  LineInvNext
<1>1. ASSUME NEW t \in Task, NEW kind \in {"sync", "async"}, Accept(t, kind)
      PROVE  LineInvNext
  BY <1>1, LineSame DEF Accept, slotVars, LineInv, Handlers, ServiceTypeOK, NoHandler
<1>2. ASSUME NEW t \in Task, NEW a \in {"badRequest", "error"}, RejectUpload(t, a)
      PROVE  LineInvNext
  BY <1>2, LineSame DEF RejectUpload, AnswerWith, slotVars, LineInv, Handlers,
                        ServiceTypeOK, Handler
<1>3. ASSUME NEW t \in Task, Resume(t) PROVE LineInvNext
  <2>1. \A u \in Task : handler'[u].pc \in {"none", "saving"} =>
            handler[u].pc \in {"none", "saving"}
    <3>1. CASE status[t] = "completed"
      BY <1>3, <3>1 DEF Resume, ServiceTypeOK, Handler
    <3>2. CASE status[t] = "failed"
      <4>1. AnswerWith(t, "failed")
        BY <1>3, <3>2 DEF Resume
      <4>2. QED
        BY <4>1 DEF AnswerWith, ServiceTypeOK, Handler
    <3>3. CASE status[t] \notin {"completed", "failed"}
      BY <1>3, <3>3 DEF Resume, AnswerWith, ServiceTypeOK, Handler
    <3>4. QED
      BY <3>1, <3>2, <3>3
  <2>2. QED
    BY <1>3, <2>1, LineSame DEF Resume, slotVars, LineInv, Handlers
<1>4. ASSUME NEW t \in Task, BuildResult(t) PROVE LineInvNext
  BY <1>4, LineSame DEF BuildResult, AnswerWith, slotVars, LineInv, Handlers,
                        ServiceTypeOK, Handler
<1>5. ASSUME NEW t \in Task, Submit(t) PROVE LineInvNext
  BY <1>5, SubmitLine
<1>6. ASSUME NEW t \in Task, NEW outcome \in Terminal, EndParse(t, outcome)
      PROVE  LineInvNext
  BY <1>6, EndParseLine
<1>7. CASE Dispatch
  BY <1>7, DispatchLine
<1>8. CASE BeginParse
  BY <1>8, BeginParseLine
<1>9. ASSUME NEW S \in SUBSET Task, CleanupExpired(S) PROVE LineInvNext
  BY <1>9, CleanupLine
<1>10. CASE BeginShutdown
  BY <1>10, LineSame DEF BeginShutdown, slotVars, LineInv
<1>11. CASE EndShutdown \/ Crash
  BY <1>11, ProcessEndsLine DEF EndShutdown, Crash
<1>12. CASE StartUp
  BY <1>12, LineSame DEF StartUp, slotVars, LineInv
<1>13. ASSUME NEW t \in Task, LeaveUpload(t) PROVE LineInvNext
  <2>1. \A u \in Task : handler'[u].pc \in {"none", "saving"} =>
            handler[u].pc \in {"none", "saving"}
    BY <1>13 DEF LeaveUpload, AnswerWith, ServiceTypeOK, Handler
  <2>2. QED
    BY <1>13, <2>1, LineSame DEF LeaveUpload, slotVars, LineInv, Handlers
<1>14. QED
  BY <1>1, <1>2, <1>3, <1>4, <1>5, <1>6, <1>7, <1>8, <1>9, <1>10, <1>11, <1>12, <1>13
     DEF ServiceNext, ServiceStep

\* The line after a step is the line of the next state.
LEMMA LinePrime == LineInvNext => LineInv'
BY DEF LineInv, LineInvNext, Line, Slots, Numbers, Handlers, Sorted, Before, In

-----------------------------------------------------------------------------
(***************************************************************************)
(* Directories.                                                            *)
(***************************************************************************)
\* What is not forgotten keeps its directory, and no other directory appears.
LEMMA FilesStep ==
    ASSUME ServiceTypeOK, LineInv, FilesInv, ServiceNext
    PROVE  FilesInv'
<1> USE DEF ServiceTypeOK, FilesInv, diskVars
<1>1. ASSUME NEW t \in Task, NEW kind \in {"sync", "async"}, Accept(t, kind)
      PROVE  FilesInv'
  BY <1>1 DEF Accept, NoHandler
<1>2. ASSUME NEW t \in Task, NEW a \in {"badRequest", "error"}, RejectUpload(t, a)
      PROVE  FilesInv'
  <2>1. /\ status' = status /\ status[t] = "none"
        /\ handler'[t].pc = "answered"
        /\ \A u \in Task : u # t => handler'[u] = handler[u]
    BY <1>2 DEF RejectUpload, AnswerWith, Handler, LineInv, Handlers
  <2>2. CASE dirs' = dirs \ {t} /\ strays' = strays
    <3>1. t \notin strays
      BY <1>2 DEF RejectUpload
    <3>2. QED
      BY <2>1, <2>2, <3>1
  <2>3. CASE strays' = strays \cup {t} /\ dirs' = dirs
    BY <2>1, <2>3
  <2>4. QED
    BY <1>2, <2>2, <2>3 DEF RejectUpload
<1>3. ASSUME NEW t \in Task, Resume(t) PROVE FilesInv'
  <2>1. \A u \in Task : u # t => handler'[u] = handler[u]
    <3>1. CASE status[t] = "completed"
      BY <1>3, <3>1 DEF Resume
    <3>2. CASE status[t] = "failed"
      BY <1>3, <3>2 DEF Resume, AnswerWith
    <3>3. CASE status[t] \notin {"completed", "failed"}
      BY <1>3, <3>3 DEF Resume, AnswerWith
    <3>4. QED
      BY <3>1, <3>2, <3>3
  <2>2. handler[t].pc = "waiting" /\ handler'[t].pc \in {"building", "answered"}
    <3>1. CASE status[t] = "completed"
      BY <1>3, <3>1 DEF Resume, Handler
    <3>2. CASE status[t] # "completed"
      <4>1. PICK a \in {"failed", "unavailable"} : AnswerWith(t, a)
        BY <1>3, <3>2 DEF Resume
      <4>2. QED
        BY <1>3, <4>1 DEF AnswerWith, Handler, Resume
    <3>3. QED
      BY <3>1, <3>2
  <2>3. status' = status /\ dirs' = dirs /\ strays' = strays
    BY <1>3 DEF Resume
  <2>4. QED
    BY <2>1, <2>2, <2>3
<1>4. ASSUME NEW t \in Task, BuildResult(t) PROVE FilesInv'
  <2>1. PICK a \in Results(t) : AnswerWith(t, a)
    BY <1>4 DEF BuildResult
  <2>2. /\ handler[t].pc = "building" /\ handler'[t].pc = "answered"
        /\ \A u \in Task : u # t => handler'[u] = handler[u]
        /\ status' = status /\ dirs' = dirs /\ strays' = strays
    BY <1>4, <2>1 DEF BuildResult, AnswerWith, Handler
  <2>3. QED
    BY <2>2
<1>5. ASSUME NEW t \in Task, Submit(t) PROVE FilesInv'
  <2>1. /\ handler[t].pc = "saving" /\ handler'[t].pc \notin {"none", "saving"}
        /\ \A u \in Task : u # t => handler'[u] = handler[u]
        /\ status' = [status EXCEPT ![t] = "pending"]
        /\ dirs' = dirs /\ strays' = strays
    BY <1>5 DEF Submit, AnswerWith, Handler
  <2>2. QED
    BY <2>1
<1>6. ASSUME NEW t \in Task, NEW outcome \in Terminal, EndParse(t, outcome)
      PROVE  FilesInv'
  BY <1>6 DEF EndParse, Terminal
<1>7. CASE Dispatch
  <2>1. Head(queue) \in Task /\ status[Head(queue)] = "pending"
    BY <1>7, InTail DEF Dispatch, LineInv, Line
  <2>2. \A u \in Task : \/ status'[u] = status[u]
                        \/ status[u] = "pending" /\ status'[u] = "processing"
    BY <1>7, <2>1 DEF Dispatch
  <2>3. QED
    BY <1>7, <2>2 DEF Dispatch
<1>8. CASE BeginParse
  <2>1. Head(granted) \in Task /\ status[Head(granted)] = "pending"
    BY <1>8, InTail DEF BeginParse, LineInv, Line
  <2>2. QED
    BY <1>8, <2>1 DEF BeginParse
<1>9. ASSUME NEW S \in SUBSET Task, CleanupExpired(S) PROVE FilesInv'
  <2>1. /\ handler' = handler
        /\ \A t \in S : status'[t] = "removed" /\ status[t] \in Terminal
        /\ \A t \in Task \ S : status'[t] = status[t]
    BY <1>9 DEF CleanupExpired
  <2>2. PICK K \in SUBSET S : dirs' = dirs \ (S \ K) /\ strays' = strays \cup K
    BY <1>9 DEF CleanupExpired
  <2>3. \A t \in S : /\ handler[t].pc \notin {"none", "saving"}
                    /\ t \in dirs \ strays
    BY <2>1 DEF LineInv, Handlers, Terminal
  <2>4. \A t \in Task \ S : /\ t \in dirs' <=> t \in dirs
                            /\ t \in strays' <=> t \in strays
    BY <2>2
  <2>5. \A t \in S : t \in dirs' => t \in strays'
    BY <2>2
  <2>6. QED
    BY <2>1, <2>3, <2>4, <2>5
<1>10. CASE BeginShutdown
  BY <1>10 DEF BeginShutdown
<1>11. CASE EndShutdown \/ Crash
  <2>1. ProcessEnds
    BY <1>11 DEF EndShutdown, Crash
  <2>2. /\ dirs' = dirs /\ strays' = strays
        /\ \A t \in Task : status'[t] = IF Known(t) THEN "lost" ELSE status[t]
        /\ \A t \in Task : \/ handler'[t] = handler[t] /\ handler[t].pc # "saving"
                           \/ handler[t].pc # "none" /\ handler'[t].pc = "broken"
    BY <2>1 DEF ProcessEnds, Handler
  <2>3. QED
    BY <2>2 DEF Known, Terminal
<1>12. CASE StartUp
  BY <1>12 DEF StartUp
<1>13. ASSUME NEW t \in Task, LeaveUpload(t) PROVE FilesInv'
  <2>1. /\ status' = status /\ status[t] = "none"
        /\ handler'[t].pc \in {"answered", "broken"}
        /\ \A u \in Task : u # t => handler'[u] = handler[u]
        /\ strays' = strays \cup {t} /\ dirs' = dirs
    BY <1>13 DEF LeaveUpload, AnswerWith, Handler, LineInv, Handlers
  <2>2. QED
    BY <2>1
<1>14. QED
  BY <1>1, <1>2, <1>3, <1>4, <1>5, <1>6, <1>7, <1>8, <1>9, <1>10, <1>11, <1>12, <1>13
     DEF ServiceNext, ServiceStep

-----------------------------------------------------------------------------
(***************************************************************************)
(* Wakeups.                                                                *)
(***************************************************************************)
\* Whoever waits stays sure of a wakeup.
LEMMA WakefulStep ==
    ASSUME ServiceTypeOK, LineInv, Wakeful, ServiceNext
    PROVE  Wakeful'
<1> USE DEF ServiceTypeOK, Wakeful
<1>1. ASSUME NEW t \in Task, NEW kind \in {"sync", "async"}, Accept(t, kind)
      PROVE  Wakeful'
  BY <1>1 DEF Accept, NoHandler
<1>2. ASSUME NEW t \in Task, NEW a \in {"badRequest", "error"}, RejectUpload(t, a)
      PROVE  Wakeful'
  BY <1>2 DEF RejectUpload, AnswerWith, Handler
<1>3. ASSUME NEW t \in Task, Resume(t) PROVE Wakeful'
  <2>1. \A u \in Task : u # t => handler'[u] = handler[u]
    <3>1. CASE status[t] = "completed"
      BY <1>3, <3>1 DEF Resume
    <3>2. CASE status[t] = "failed"
      BY <1>3, <3>2 DEF Resume, AnswerWith
    <3>3. CASE status[t] \notin {"completed", "failed"}
      BY <1>3, <3>3 DEF Resume, AnswerWith
    <3>4. QED
      BY <3>1, <3>2, <3>3
  <2>2. handler'[t].pc \in {"building", "answered"}
    <3>1. CASE status[t] = "completed"
      BY <1>3, <3>1 DEF Resume, Handler
    <3>2. CASE status[t] = "failed"
      <4>1. AnswerWith(t, "failed")
        BY <1>3, <3>2 DEF Resume
      <4>2. QED
        BY <4>1 DEF AnswerWith, Handler
    <3>3. CASE status[t] \notin {"completed", "failed"}
      <4>1. AnswerWith(t, "unavailable")
        BY <1>3, <3>3 DEF Resume
      <4>2. QED
        BY <4>1 DEF AnswerWith, Handler
    <3>4. QED
      BY <3>1, <3>2, <3>3
  <2>3. UNCHANGED <<status, signalled, wakeup, manager>>
    BY <1>3 DEF Resume
  <2>4. QED
    BY <2>1, <2>2, <2>3
<1>4. ASSUME NEW t \in Task, BuildResult(t) PROVE Wakeful'
  <2>1. PICK a \in Results(t) : AnswerWith(t, a)
    BY <1>4 DEF BuildResult
  <2>2. handler'[t].pc = "answered" /\ \A u \in Task : u # t => handler'[u] = handler[u]
    BY <2>1 DEF AnswerWith, Handler
  <2>3. UNCHANGED <<status, signalled, wakeup, manager>>
    BY <1>4 DEF BuildResult
  <2>4. QED
    BY <2>2, <2>3
<1>5. ASSUME NEW t \in Task, Submit(t) PROVE Wakeful'
  <2>1. /\ handler[t].pc = "saving" /\ manager' = manager /\ manager # "down"
        /\ status' = [status EXCEPT ![t] = "pending"]
        /\ signalled' = signalled /\ wakeup' = wakeup
    BY <1>5 DEF Submit
  <2>2. \A u \in Task : u # t => handler'[u] = handler[u]
    BY <1>5 DEF Submit, AnswerWith
  <2>3. status[t] = "none"
    BY <2>1 DEF LineInv, Handlers
  <2>4. handler'[t].pc # "saving"
    BY <1>5 DEF Submit, AnswerWith, Handler
  <2>5. t \notin signalled
    BY <2>3
  <2>6. QED
    BY <2>1, <2>2, <2>3, <2>4, <2>5
<1>6. ASSUME NEW t \in Task, NEW outcome \in Terminal, EndParse(t, outcome)
      PROVE  Wakeful'
  <2>1. /\ status' = [status EXCEPT ![t] = outcome]
        /\ signalled' = signalled \cup {t}
        /\ wakeup' = wakeup /\ manager' = manager /\ handler' = handler
    BY <1>6 DEF EndParse
  <2>2. outcome \notin {"none", "pending", "processing"}
    BY DEF Terminal
  <2>3. QED
    BY <2>1, <2>2
<1>7. CASE Dispatch
  <2>1. Head(queue) \in Task /\ status[Head(queue)] = "pending"
    BY <1>7, InTail DEF Dispatch, LineInv, Line
  <2>2. \A u \in Task : \/ status'[u] = status[u]
                        \/ status[u] = "pending" /\ status'[u] = "processing"
    BY <1>7, <2>1 DEF Dispatch
  <2>3. UNCHANGED <<handler, signalled, wakeup, manager>>
    BY <1>7 DEF Dispatch
  <2>4. QED
    BY <2>2, <2>3
<1>8. CASE BeginParse
  <2>1. Head(granted) \in Task /\ status[Head(granted)] = "pending"
    BY <1>8, InTail DEF BeginParse, LineInv, Line
  <2>2. \A u \in Task : \/ status'[u] = status[u]
                        \/ status[u] = "pending" /\ status'[u] = "processing"
    BY <1>8, <2>1 DEF BeginParse
  <2>3. UNCHANGED <<handler, signalled, wakeup, manager>>
    BY <1>8 DEF BeginParse
  <2>4. QED
    BY <2>2, <2>3
<1>9. ASSUME NEW S \in SUBSET Task, CleanupExpired(S) PROVE Wakeful'
  <2>1. /\ \A t \in S : status'[t] = "removed" /\ status[t] \in Terminal
        /\ \A t \in Task \ S : status'[t] = status[t]
        /\ signalled' = signalled \cup S
        /\ UNCHANGED <<handler, wakeup, manager>>
    BY <1>9 DEF CleanupExpired
  <2>2. QED
    BY <2>1 DEF Terminal
<1>10. CASE BeginShutdown
  <2>1. /\ signalled' = signalled \cup {t \in Task : Known(t)}
        /\ wakeup' = TRUE /\ manager' = "stopping"
        /\ UNCHANGED <<status, handler>>
    BY <1>10 DEF BeginShutdown
  <2>2. \A t \in Task : Known(t) => status[t] # "none"
    BY DEF Known, Terminal
  <2>3. QED
    BY <2>1, <2>2
<1>11. CASE EndShutdown \/ Crash
  <2>1. ProcessEnds
    BY <1>11 DEF EndShutdown, Crash
  <2>2. manager' = "down"
    BY <2>1 DEF ProcessEnds
  <2>3. \A t \in Task : handler'[t].pc \notin {"saving", "waiting"}
    BY <2>1 DEF ProcessEnds, Handler
  <2>4. signalled' = {} /\ wakeup' = FALSE
    BY <2>1 DEF ProcessEnds
  <2>5. QED
    BY <2>2, <2>3, <2>4
<1>12. CASE StartUp
  BY <1>12 DEF StartUp
<1>13. ASSUME NEW t \in Task, LeaveUpload(t) PROVE Wakeful'
  <2>1. /\ handler'[t].pc \in {"answered", "broken"}
        /\ \A u \in Task : u # t => handler'[u] = handler[u]
    BY <1>13 DEF LeaveUpload, AnswerWith, Handler
  <2>2. UNCHANGED <<status, signalled, wakeup, manager>>
    BY <1>13 DEF LeaveUpload
  <2>3. QED
    BY <2>1, <2>2
<1>14. QED
  BY <1>1, <1>2, <1>3, <1>4, <1>5, <1>6, <1>7, <1>8, <1>9, <1>10, <1>11, <1>12, <1>13
     DEF ServiceNext, ServiceStep

-----------------------------------------------------------------------------
(***************************************************************************)
(* The invariant holds in every state, and implies what is promised.       *)
(***************************************************************************)
\* The invariant holds of a new manager.
LEMMA InitInv == ServiceInit => IInv
<1> SUFFICES ASSUME ServiceInit PROVE IInv
  OBVIOUS
<1>1. ServiceTypeOK /\ LineInv
  BY InitType, InitLine
<1>2. Wakeful /\ FilesInv
  BY DEF ServiceInit, Wakeful, FilesInv, NoHandler
<1>3. QED
  BY <1>1, <1>2 DEF IInv

\* A stutter of the service keeps the invariant.
LEMMA InvStutter == IInv /\ UNCHANGED serviceVars => IInv'
<1> SUFFICES ASSUME IInv, UNCHANGED serviceVars PROVE IInv'
  OBVIOUS
<1>1. ServiceTypeOK'
  BY DEF IInv, ServiceTypeOK, serviceVars
<1>2. LineInvNext
  BY DEF IInv, LineInv, LineInvNext, serviceVars
<1>3. Wakeful'
  BY DEF IInv, Wakeful, serviceVars
<1>4. FilesInv'
  BY DEF IInv, FilesInv, serviceVars
<1>5. QED
  BY <1>1, <1>2, <1>3, <1>4, LinePrime DEF IInv

\* Every step of the service keeps the invariant.
LEMMA InvStep == IInv /\ [ServiceNext]_serviceVars => IInv'
<1>1. IInv /\ ServiceNext => IInv'
  BY TypeStep, LineStep, LinePrime, WakefulStep, FilesStep DEF IInv
<1>2. QED
  BY <1>1, InvStutter

\* Every reachable state satisfies the invariant.
THEOREM Invariance == ServiceSpec => []IInv
<1>1. ServiceInit => IInv
  BY InitInv
<1>2. IInv /\ [ServiceNext]_serviceVars => IInv'
  BY InvStep
<1>3. QED
  BY <1>1, <1>2, PTL DEF ServiceSpec

\* The state of the service has its type.
THEOREM ServiceTyped == ServiceSpec => []ServiceTypeOK
<1>1. IInv => ServiceTypeOK
  BY DEF IInv
<1>2. QED
  BY <1>1, Invariance, PTL

\* No parse runs without a slot, and no slot is given twice: for every number
\* of tasks and every limit.
THEOREM SlotsAlwaysRespected == ServiceSpec => []SlotsRespected
<1>1. IInv => SlotsRespected
  BY DEF IInv, LineInv, Slots, SlotsRespected
<1>2. QED
  BY <1>1, Invariance, PTL

\* Who waits for a slot waits because none is free.
THEOREM AlwaysWorkConserving == ServiceSpec => []WorkConserving
<1>1. IInv => WorkConserving
  <2>1. SUFFICES ASSUME IInv PROVE WorkConserving
    OBVIOUS
  <2>2. Cardinality(holders) \in Nat /\ MaxConcurrent \in Nat
    BY <2>1, FreeSlots, ServiceAssumption DEF IInv, LineInv, Slots
  <2>3. QED
    BY <2>1, <2>2 DEF IInv, LineInv, Slots, WorkConserving, Free
<1>2. QED
  BY <1>1, Invariance, PTL

\* No handler of POST /file_parse waits for an event nobody will set.
THEOREM NeverLostWakeup == ServiceSpec => []NoLostWakeup
<1>1. IInv => NoLostWakeup
  <2>1. SUFFICES ASSUME IInv, NEW t \in Task, handler[t].pc = "waiting"
                 PROVE  (manager = "running" /\ OnItsWay(t)) \/ t \in signalled \/ wakeup
    BY DEF NoLostWakeup
  <2>2. CASE manager = "running" /\ status[t] \in {"pending", "processing"}
    <3>1. status[t] = "pending" => In(t, granted) \/ In(t, waiting) \/ In(t, queue)
      BY <2>1 DEF IInv, LineInv, Line
    <3>2. status[t] = "processing" => t \in holders
      BY <2>1 DEF IInv, LineInv, Slots
    <3>3. QED
      BY <2>2, <3>1, <3>2 DEF OnItsWay, In
  <2>3. CASE t \in signalled
    BY <2>3
  <2>4. CASE wakeup = TRUE
    BY <2>4, Zenon
  <2>5. QED
    BY <2>1, <2>2, <2>3, <2>4 DEF IInv, Wakeful
<1>2. QED
  BY <1>1, Invariance, PTL

\* Every task of the manager has its directory, untouched, and nothing stays on
\* the disk that nobody will remove, but what a failing removal, an upload given
\* up by a stopping service or a process that ended has left.
THEOREM DirsAlwaysOwned == ServiceSpec => []DirsOwned
<1>1. IInv => DirsOwned
  BY DEF IInv, FilesInv, DirsOwned, Known, Terminal, ServiceTypeOK, Status
<1>2. QED
  BY <1>1, Invariance, PTL

-----------------------------------------------------------------------------
(***************************************************************************)
(* The service implements the abstract jobs.                               *)
(***************************************************************************)
\* Which job starts: the oldest that waits, when a slot is left for it.
LEMMA StartStep ==
    ASSUME ServiceTypeOK, NEW t \in Task, status[t] = "pending",
           \A u \in Task : status[u] = "pending" => number[t] <= number[u],
           Cardinality({u \in Task : status[u] = "processing"}) < MaxConcurrent,
           status' = [status EXCEPT ![t] = "processing"], number' = number
    PROVE  Jobs!Start(t)
<1>1. \A u \in Task : Phase(u) = "pending" <=> status[u] = "pending"
  BY DEF Phase, ServiceTypeOK
<1>2. Jobs!Running = {u \in Task : status[u] = "processing"}
  BY DEF Jobs!Running, Phase, ServiceTypeOK
<1>3. [u \in Task |-> Phase(u)]' = [[u \in Task |-> Phase(u)] EXCEPT ![t] = "processing"]
  BY DEF Phase, ServiceTypeOK
<1>4. Jobs!Cardinality(Jobs!Running) < MaxConcurrent
  BY <1>2 DEF Jobs!Cardinality, Cardinality
<1>5. QED
  BY <1>1, <1>3, <1>4 DEF Jobs!Start, Phase

\* What is processed besides t fits into the slots besides that of t.
LEMMA RoomForOne ==
    ASSUME ServiceTypeOK, LineInv, NEW H \in SUBSET holders,
           Cardinality(H) < MaxConcurrent,
           {u \in Task : status[u] = "processing"} \subseteq H
    PROVE  Cardinality({u \in Task : status[u] = "processing"}) < MaxConcurrent
<1>1. IsFiniteSet(holders)
  BY FreeSlots DEF LineInv, Slots
<1>2. IsFiniteSet(H)
  BY <1>1, FS_Subset
<1>3. /\ Cardinality(H) \in Nat
      /\ Cardinality({u \in Task : status[u] = "processing"}) \in Nat
      /\ Cardinality({u \in Task : status[u] = "processing"}) <= Cardinality(H)
  BY <1>2, FS_Subset, FS_CardinalityType
<1>4. QED
  BY <1>3, ServiceAssumption

\* The dispatcher starts the head of the queue when nobody else waits.
LEMMA DispatchStarts ==
    ASSUME ServiceTypeOK, LineInv, Dispatch, Free > 0, waiting = <<>>, granted = <<>>
    PROVE  \E t \in Task : Jobs!Start(t)
<1> DEFINE t == Head(queue)
<1>1. queue \in Seq(Task) /\ queue # <<>> /\ number \in [Task -> Nat]
  BY DEF ServiceTypeOK, Dispatch
<1>2. /\ t \in Task /\ In(t, queue)
      /\ \A u \in Task : In(u, queue) <=> u = t \/ In(u, Tail(queue))
      /\ \A u \in Task : In(u, Tail(queue)) => number[t] < number[u]
  BY <1>1, InTail, SortedTail DEF LineInv, Line
<1>3. /\ status[t] = "pending"
      /\ \A u \in Task : status[u] = "pending" => u = t \/ number[t] < number[u]
  BY <1>2, InEmpty DEF LineInv, Line
<1>4. status' = [status EXCEPT ![t] = "processing"] /\ number' = number
  BY DEF Dispatch
<1>5. Cardinality(holders) < MaxConcurrent
  BY FreeSlots, ServiceAssumption DEF LineInv, Slots, Free
<1>6. Cardinality({u \in Task : status[u] = "processing"}) < MaxConcurrent
  BY <1>5, RoomForOne DEF LineInv, Slots
<1> HIDE DEF t
<1>7. \A u \in Task : status[u] = "pending" => number[t] <= number[u]
  BY <1>1, <1>2, <1>3
<1>8. Jobs!Start(t)
  BY <1>2, <1>3, <1>4, <1>6, <1>7, StartStep
<1>9. QED
  BY <1>2, <1>8

\* The processor woken first has the lowest number of all that wait.
LEMMA BeginParseStarts ==
    ASSUME ServiceTypeOK, LineInv, BeginParse
    PROVE  \E t \in Task : Jobs!Start(t)
<1> DEFINE t == Head(granted)
<1>1. granted \in Seq(Task) /\ granted # <<>> /\ number \in [Task -> Nat]
  BY DEF ServiceTypeOK, BeginParse
<1>2. /\ t \in Task /\ In(t, granted)
      /\ \A u \in Task : In(u, granted) <=> u = t \/ In(u, Tail(granted))
      /\ \A u \in Task : In(u, Tail(granted)) => number[t] < number[u]
  BY <1>1, InTail, SortedTail DEF LineInv, Line
<1>3. /\ status[t] = "pending" /\ t \in holders
      /\ \A u \in Task : status[u] = "pending" => u = t \/ number[t] < number[u]
  BY <1>2 DEF LineInv, Line, Slots, Before
<1>4. status' = [status EXCEPT ![t] = "processing"] /\ number' = number
  BY DEF BeginParse
<1>5. Cardinality(holders \ {t}) < MaxConcurrent
  <2>1. /\ IsFiniteSet(holders) /\ Cardinality(holders) \in Nat
        /\ Cardinality(holders) <= MaxConcurrent
    BY FreeSlots DEF LineInv, Slots
  <2>2. Cardinality(holders \ {t}) = Cardinality(holders) - 1
    BY <1>3, <2>1, FS_RemoveElement
  <2>3. QED
    BY <2>1, <2>2, ServiceAssumption
<1> HIDE DEF t
<1>6. {u \in Task : status[u] = "processing"} \subseteq holders \ {t}
  BY <1>3 DEF LineInv, Slots
<1>7. Cardinality({u \in Task : status[u] = "processing"}) < MaxConcurrent
  BY <1>5, <1>6, RoomForOne
<1>8. \A u \in Task : status[u] = "pending" => number[t] <= number[u]
  BY <1>1, <1>2, <1>3
<1>9. Jobs!Start(t)
  BY <1>2, <1>3, <1>4, <1>7, <1>8, StartStep
<1>10. QED
  BY <1>2, <1>9

\* A step that leaves statuses and numbers alone is no step of the jobs.
LEMMA SamePhase ==
    ASSUME status' = status, number' = number
    PROVE  UNCHANGED Jobs!jobVars
BY DEF Phase, Jobs!jobVars

\* Every step of the service is a step of the jobs, or none.
LEMMA JobsStep ==
    ASSUME ServiceTypeOK, LineInv, ServiceNext
    PROVE  Jobs!Next \/ UNCHANGED Jobs!jobVars
<1>1. ASSUME NEW t \in Task, NEW kind \in {"sync", "async"}, Accept(t, kind)
      PROVE  UNCHANGED Jobs!jobVars
  BY <1>1, SamePhase DEF Accept
<1>2. ASSUME NEW t \in Task, NEW a \in {"badRequest", "error"}, RejectUpload(t, a)
      PROVE  UNCHANGED Jobs!jobVars
  BY <1>2, SamePhase DEF RejectUpload
<1>3. ASSUME NEW t \in Task, Resume(t) PROVE UNCHANGED Jobs!jobVars
  BY <1>3, SamePhase DEF Resume
<1>4. ASSUME NEW t \in Task, BuildResult(t) PROVE UNCHANGED Jobs!jobVars
  BY <1>4, SamePhase DEF BuildResult
<1>5. ASSUME NEW t \in Task, Submit(t) PROVE Jobs!Submit(t)
  <2>1. status[t] = "none"
    BY <1>5 DEF Submit, LineInv, Handlers
  <2>2. /\ status' = [status EXCEPT ![t] = "pending"]
        /\ number' = [number EXCEPT ![t] = next]
    BY <1>5 DEF Submit
  <2>3. number'[t] = next /\ number' = [number EXCEPT ![t] = number'[t]]
    BY <2>2 DEF ServiceTypeOK
  <2>4. \A u \in Task : Phase(u) = "pending" => number[u] < next
    BY DEF LineInv, Numbers, Phase
  <2>5. [u \in Task |-> Phase(u)]' = [[u \in Task |-> Phase(u)] EXCEPT ![t] = "pending"]
    BY <2>2 DEF Phase, ServiceTypeOK
  <2>6. QED
    BY <2>1, <2>3, <2>4, <2>5 DEF Jobs!Submit, Phase
<1>6. ASSUME NEW t \in Task, NEW outcome \in Terminal, EndParse(t, outcome)
      PROVE  Jobs!End(t, outcome)
  <2>1. /\ status[t] = "processing" /\ status' = [status EXCEPT ![t] = outcome]
        /\ number' = number
    BY <1>6 DEF EndParse
  <2>2. [u \in Task |-> Phase(u)]' = [[u \in Task |-> Phase(u)] EXCEPT ![t] = outcome]
    BY <2>1 DEF Phase, ServiceTypeOK, Terminal
  <2>3. QED
    BY <2>1, <2>2 DEF Jobs!End, Phase
<1>7. CASE Dispatch
  <2>1. CASE Free > 0 /\ waiting = <<>> /\ granted = <<>>
    BY <1>7, <2>1, DispatchStarts DEF Jobs!Next
  <2>2. CASE ~(Free > 0 /\ waiting = <<>> /\ granted = <<>>)
    BY <1>7, <2>2, SamePhase DEF Dispatch
  <2>3. QED
    BY <2>1, <2>2
<1>8. CASE BeginParse
  BY <1>8, BeginParseStarts DEF Jobs!Next
<1>9. ASSUME NEW S \in SUBSET Task, CleanupExpired(S) PROVE Jobs!Forget(S)
  <2>1. /\ \A u \in S : status[u] \in Terminal
        /\ status' = [u \in Task |-> IF u \in S THEN "removed" ELSE status[u]]
        /\ number' = number
    BY <1>9 DEF CleanupExpired
  <2>2. [u \in Task |-> Phase(u)]' =
            [u \in Task |-> IF u \in S THEN "gone" ELSE [v \in Task |-> Phase(v)][u]]
    BY <2>1 DEF Phase
  <2>3. QED
    BY <2>1, <2>2 DEF Jobs!Forget, Phase, Terminal
<1>10. CASE BeginShutdown
  BY <1>10, SamePhase DEF BeginShutdown
<1>11. CASE EndShutdown \/ Crash
  <2>1. /\ status' = [u \in Task |-> IF Known(u) THEN "lost" ELSE status[u]]
        /\ number' = number
    BY <1>11 DEF EndShutdown, Crash, ProcessEnds
  <2>2. [u \in Task |-> Phase(u)]' =
            [u \in Task |-> IF [v \in Task |-> Phase(v)][u] = "none" THEN "none" ELSE "gone"]
    BY <2>1 DEF Phase, Known, Terminal, ServiceTypeOK, Status
  <2>3. Jobs!Restart
    BY <2>1, <2>2 DEF Jobs!Restart
  <2>4. QED
    BY <2>3 DEF Jobs!Next
<1>12. CASE StartUp
  BY <1>12, SamePhase DEF StartUp
<1>13. ASSUME NEW t \in Task, LeaveUpload(t) PROVE UNCHANGED Jobs!jobVars
  BY <1>13, SamePhase DEF LeaveUpload
<1>14. QED
  BY <1>1, <1>2, <1>3, <1>4, <1>5, <1>6, <1>7, <1>8, <1>9, <1>10, <1>11, <1>12, <1>13
     DEF ServiceNext, ServiceStep, Jobs!Next, Terminal

\* Jobs are started in the order of submission, no more than MaxConcurrent at
\* a time, each once: the dispatcher, the semaphore and its waiters, together,
\* keep the promise of the service for every set of tasks and every limit.
THEOREM ServiceImplementsJobs == ServiceSpec => ImplementsJobs
<1>1. ServiceInit => Jobs!Init
  BY DEF ServiceInit, Jobs!Init, Phase
<1>2. IInv /\ [ServiceNext]_serviceVars => [Jobs!Next]_(Jobs!jobVars)
  <2>1. IInv /\ ServiceNext => Jobs!Next \/ UNCHANGED Jobs!jobVars
    BY JobsStep DEF IInv
  <2>2. UNCHANGED serviceVars => UNCHANGED Jobs!jobVars
    BY SamePhase DEF serviceVars
  <2>3. QED
    BY <2>1, <2>2
<1>3. QED
  BY <1>1, <1>2, Invariance, PTL DEF ServiceSpec, ImplementsJobs, Jobs!Spec

=============================================================================
