-------------------------- MODULE WorkerPool_proofs --------------------------
(***************************************************************************)
(* Proofs about the worker pool, for any number of requests, threads,      *)
(* workers and shutdown calls, and about its queue by itself (module       *)
(* RenderQueue), whose variables are its own.  First comes what the        *)
(* operations of the queue return, for every queue of the right type, well *)
(* linked or not.                                                          *)
(***************************************************************************)
EXTENDS WorkerPool, RenderQueue, FiniteSetTheorems, SequenceTheorems,
        WellFoundedInduction, TLAPS

----------------------------------------------------------------------------
(* The queue.                                                              *)

(* push, shift and remove keep every pointer a node or null, and every     *)
(* counter an integer (request-queue.ts).                                  *)
LEMMA PushType ==
  ASSUME NEW h \in Heap, NEW b \in Band, NEW r \in Request
  PROVE  Push(h, b, r) \in Heap
BY DEF Push, Heap, Pointer

LEMMA ShiftType ==
  ASSUME NEW h \in Heap, NEW b \in Band, h.head[b] # NONE
  PROVE  Shift(h, b) \in Heap
BY DEF Shift, Heap, Pointer

LEMMA UnlinkType ==
  ASSUME NEW h \in Heap, NEW b \in Band, NEW r \in Request
  PROVE  Unlink(h, b, r) \in Heap
BY DEF Unlink, Heap, Pointer

(* A non-empty set of bands has a first one: dequeue and remove know which *)
(* band they act on (priority-queue.ts).                                   *)
LEMMA FirstBandIsLeast ==
  ASSUME NEW S \in SUBSET Band, S # {}
  PROVE  FirstBand(S) \in S /\ \A c \in S : FirstBand(S) <= c
<1>1. \A c \in S : c \in {0, 1, 2, 3, 4}
  BY BandAssumption
<1>2. \E b \in S : \A c \in S : b <= c
  <2>1. CASE 0 \in S  BY <1>1, <2>1
  <2>2. CASE 0 \notin S /\ 1 \in S  BY <1>1, <2>2
  <2>3. CASE 0 \notin S /\ 1 \notin S /\ 2 \in S  BY <1>1, <2>3
  <2>4. CASE 0 \notin S /\ 1 \notin S /\ 2 \notin S /\ 3 \in S  BY <1>1, <2>4
  <2>5. CASE 0 \notin S /\ 1 \notin S /\ 2 \notin S /\ 3 \notin S  BY <1>1, <2>5
  <2>. QED  BY <2>1, <2>2, <2>3, <2>4, <2>5
<1>. QED  BY <1>2 DEF FirstBand

(* enqueue, dequeue, remove and drain return a queue.                      *)
LEMMA EnqueueType ==
  ASSUME NEW pq \in PriorityQueues, NEW b \in Band, NEW r \in Request
  PROVE  Enqueue(pq, r, b) \in PriorityQueues
BY PushType DEF Enqueue, PriorityQueues

LEMMA ServableBand ==
  ASSUME NEW pq \in PriorityQueues, Servable(pq) # {}
  PROVE  /\ FirstBand(Servable(pq)) \in Band
         /\ pq.h.head[FirstBand(Servable(pq))] # NONE
<1>1. Servable(pq) \in SUBSET Band
  BY DEF Servable
<1>2. FirstBand(Servable(pq)) \in Servable(pq)
  BY <1>1, FirstBandIsLeast
<1>. QED  BY <1>2 DEF Servable

LEMMA DequeueResultType ==
  ASSUME NEW pq \in PriorityQueues
  PROVE  DequeueResult(pq) \in Pointer
BY ServableBand DEF DequeueResult, PriorityQueues, Heap, Pointer

LEMMA DequeueType ==
  ASSUME NEW pq \in PriorityQueues
  PROVE  Dequeue(pq) \in PriorityQueues
<1>1. CASE Servable(pq) = {}
  BY <1>1 DEF Dequeue
<1>2. CASE Servable(pq) # {}
  <2>1. Shift(pq.h, FirstBand(Servable(pq))) \in Heap
    BY <1>2, ServableBand, ShiftType DEF PriorityQueues
  <2>. QED  BY <1>2, <2>1 DEF Dequeue, PriorityQueues
<1>. QED  BY <1>1, <1>2

LEMMA RemoveType ==
  ASSUME NEW pq \in PriorityQueues, NEW r \in Request
  PROVE  Remove(pq, r) \in PriorityQueues
<1> DEFINE A == {b \in Band : SeemsInBand(pq.h, b, r)}
<1>1. CASE ~pq.h.linked[r] \/ A = {}
  BY <1>1 DEF Remove
<1>2. CASE pq.h.linked[r] /\ A # {}
  <2>1. FirstBand(A) \in Band
    BY <1>2, FirstBandIsLeast
  <2>2. Unlink(pq.h, FirstBand(A), r) \in Heap
    BY <2>1, UnlinkType DEF PriorityQueues
  <2>. QED  BY <1>2, <2>2 DEF Remove, PriorityQueues
<1>. QED  BY <1>1, <1>2

LEMMA DrainQueueType ==
  ASSUME NEW pq \in PriorityQueues
  PROVE  DrainQueue(pq) \in PriorityQueues
BY DEF DrainQueue, PriorityQueues, Heap, Pointer

LEMMA NewQueueType == NewPriorityQueue \in PriorityQueues
BY DEF NewPriorityQueue, PriorityQueues, EmptyHeap, Heap, Pointer

----------------------------------------------------------------------------
(* remove may unlink a request in the name of a band it is not in, and     *)
(* leave counters, heads and tails wrong.  What survives: next and prev    *)
(* lead from a request to one of the same band that was pushed later, or   *)
(* earlier.  at gives the band a request is pushed to, ord dates the push. *)
Before(at, ord, x, y) == at[x] = at[y] /\ ord[x] < ord[y]

Ordered(h, at, ord) ==
  /\ \A x \in Request : h.next[x] # NONE => Before(at, ord, x, h.next[x])
  /\ \A x \in Request : h.prev[x] # NONE => Before(at, ord, h.prev[x], x)
  /\ \A b \in Band : h.head[b] # NONE => at[h.head[b]] = b
  /\ \A b \in Band : h.tail[b] # NONE => at[h.tail[b]] = b

(* Nothing in the queue refers to r.                                       *)
Unseen(h, r) ==
  /\ \A x \in Request : h.next[x] # r /\ h.prev[x] # r
  /\ \A b \in Band : h.head[b] # r /\ h.tail[b] # r

(* No head goes back to an earlier request.                                *)
HeadsAdvance(h, g, ord) ==
  \A b \in Band : g.head[b] # NONE => h.head[b] # NONE /\ ord[h.head[b]] <= ord[g.head[b]]

LEMMA PushOrdered ==
  ASSUME NEW h \in Heap, NEW at \in [Request -> Band], NEW ord \in [Request -> Nat],
         NEW b \in Band, NEW r \in Request, NEW n \in Nat,
         Ordered(h, at, ord), Unseen(h, r), at[r] = b, \A x \in Request : ord[x] <= n
  PROVE  LET new == [ord EXCEPT ![r] = n + 1]
         IN  /\ new \in [Request -> Nat]
             /\ \A x \in Request : new[x] <= n + 1
             /\ Ordered(Push(h, b, r), at, new)
<1> DEFINE new == [ord EXCEPT ![r] = n + 1]
           g == Push(h, b, r)
<1>1. /\ new \in [Request -> Nat] /\ new[r] = n + 1
      /\ \A x \in Request \ {r} : new[x] = ord[x] /\ new[x] <= n
  OBVIOUS
<1>2. /\ g.prev = [h.prev EXCEPT ![r] = h.tail[b]]
      /\ g.next = [x \in Request |-> IF x = r THEN NONE
                                     ELSE IF x = h.tail[b] THEN r ELSE h.next[x]]
      /\ g.head = IF h.tail[b] = NONE THEN [h.head EXCEPT ![b] = r] ELSE h.head
      /\ g.tail = [h.tail EXCEPT ![b] = r]
  BY DEF Push
<1>3. /\ h.prev \in [Request -> Pointer] /\ h.next \in [Request -> Pointer]
      /\ h.head \in [Band -> Pointer] /\ h.tail \in [Band -> Pointer]
  BY DEF Heap
<1> HIDE DEF new, g
<1>4. ASSUME NEW x \in Request, g.next[x] # NONE PROVE Before(at, new, x, g.next[x])
  <2>1. CASE x = h.tail[b]
    <3>1. x # r /\ g.next[x] = r /\ at[x] = b
      BY <2>1, <1>2, NoneAssumption DEF Ordered, Unseen
    <3>. QED  BY <3>1, <1>1 DEF Before
  <2>2. CASE x # h.tail[b]
    <3>1. x # r /\ g.next[x] = h.next[x] /\ h.next[x] \in Request \ {r}
      BY <2>2, <1>2, <1>3, <1>4 DEF Unseen, Pointer
    <3>. QED  BY <3>1, <1>1, <1>4 DEF Ordered, Before
  <2>. QED  BY <2>1, <2>2
<1>5. ASSUME NEW x \in Request, g.prev[x] # NONE PROVE Before(at, new, g.prev[x], x)
  <2>1. CASE x = r
    <3>1. g.prev[x] = h.tail[b] /\ h.tail[b] \in Request \ {r}
      BY <2>1, <1>2, <1>3, <1>5 DEF Unseen, Pointer
    <3>. QED  BY <2>1, <3>1, <1>1, <1>5 DEF Ordered, Before
  <2>2. CASE x # r
    <3>1. g.prev[x] = h.prev[x] /\ h.prev[x] \in Request \ {r}
      BY <2>2, <1>2, <1>3, <1>5 DEF Unseen, Pointer
    <3>. QED  BY <2>2, <3>1, <1>1, <1>5 DEF Ordered, Before
  <2>. QED  BY <2>1, <2>2
<1>6. \A c \in Band : /\ g.head[c] # NONE => at[g.head[c]] = c
                      /\ g.tail[c] # NONE => at[g.tail[c]] = c
  BY <1>2, <1>3 DEF Ordered
<1>7. \A x \in Request : new[x] <= n + 1
  BY <1>1
<1>. QED  BY <1>1, <1>4, <1>5, <1>6, <1>7 DEF Ordered, new, g

LEMMA ShiftOrdered ==
  ASSUME NEW h \in Heap, NEW at \in [Request -> Band], NEW ord \in [Request -> Nat],
         NEW b \in Band, h.head[b] # NONE, Ordered(h, at, ord)
  PROVE  /\ Ordered(Shift(h, b), at, ord)
         /\ HeadsAdvance(h, Shift(h, b), ord)
         /\ Shift(h, b).head[b] # NONE => ord[h.head[b]] < ord[Shift(h, b).head[b]]
<1> DEFINE r == h.head[b]
           g == Shift(h, b)
<1>1. /\ g.prev = [p \in Request |-> IF p = h.next[r] THEN NONE ELSE h.prev[p]]
      /\ g.next = h.next
      /\ g.head = [h.head EXCEPT ![b] = h.next[r]]
      /\ g.tail = IF h.next[r] = NONE THEN [h.tail EXCEPT ![b] = NONE] ELSE h.tail
  BY DEF Shift
<1>2. /\ h.prev \in [Request -> Pointer] /\ h.next \in [Request -> Pointer]
      /\ h.head \in [Band -> Pointer] /\ h.tail \in [Band -> Pointer]
      /\ r \in Request
  BY DEF Heap, Pointer
<1> HIDE DEF r, g
<1>3. h.next[r] # NONE => at[h.next[r]] = b /\ ord[r] < ord[h.next[r]]
  BY <1>2 DEF Ordered, Before, r
<1>4. Ordered(g, at, ord)
  BY <1>1, <1>2, <1>3 DEF Ordered
<1>5. g.head[b] # NONE => ord[r] < ord[g.head[b]]
  BY <1>1, <1>2, <1>3
<1>6. HeadsAdvance(h, g, ord)
  <2> SUFFICES ASSUME NEW c \in Band, g.head[c] # NONE
               PROVE  h.head[c] # NONE /\ ord[h.head[c]] <= ord[g.head[c]]
    BY DEF HeadsAdvance
  <2>1. CASE c = b
    <3>1. ord[r] \in Nat /\ ord[g.head[b]] \in Nat
      BY <2>1, <1>1, <1>2 DEF Pointer
    <3>. QED  BY <2>1, <3>1, <1>5 DEF r
  <2>2. CASE c # b
    <3>1. g.head[c] = h.head[c] /\ h.head[c] \in Request
      BY <2>2, <1>1, <1>2 DEF Pointer
    <3>. QED  BY <3>1, NoneAssumption
  <2>. QED  BY <2>1, <2>2
<1>. QED  BY <1>4, <1>5, <1>6 DEF r, g

LEMMA UnlinkOrdered ==
  ASSUME NEW h \in Heap, NEW at \in [Request -> Band], NEW ord \in [Request -> Nat],
         NEW b \in Band, NEW r \in Request, Ordered(h, at, ord)
  PROVE  /\ Ordered(Unlink(h, b, r), at, ord)
         /\ HeadsAdvance(h, Unlink(h, b, r), ord)
<1> DEFINE p == h.prev[r]
           n == h.next[r]
           g == Unlink(h, b, r)
<1>1. /\ g.prev = [m \in Request |-> IF m = r THEN NONE ELSE IF m = n THEN p ELSE h.prev[m]]
      /\ g.next = [m \in Request |-> IF m = r THEN NONE ELSE IF m = p THEN n ELSE h.next[m]]
      /\ g.head = IF p = NONE /\ h.head[b] = r THEN [h.head EXCEPT ![b] = n] ELSE h.head
      /\ g.tail = IF n = NONE /\ h.tail[b] = r THEN [h.tail EXCEPT ![b] = p] ELSE h.tail
  BY DEF Unlink
<1>2. /\ h.prev \in [Request -> Pointer] /\ h.next \in [Request -> Pointer]
      /\ h.head \in [Band -> Pointer] /\ h.tail \in [Band -> Pointer]
      /\ p \in Pointer /\ n \in Pointer
  BY DEF Heap
<1>3. /\ n # NONE => at[r] = at[n] /\ ord[r] < ord[n]
      /\ p # NONE => at[p] = at[r] /\ ord[p] < ord[r]
  BY DEF Ordered, Before
<1> HIDE DEF p, n, g
<1>4. p # NONE /\ n # NONE => at[p] = at[n] /\ ord[p] < ord[n]
  <2>1. ASSUME p # NONE, n # NONE PROVE ord[p] \in Nat /\ ord[n] \in Nat /\ ord[r] \in Nat
    BY <2>1, <1>2 DEF Pointer
  <2>. QED  BY <2>1, <1>3
<1>5. ASSUME NEW x \in Request, g.next[x] # NONE PROVE Before(at, ord, x, g.next[x])
  BY <1>5, <1>1, <1>4, NoneAssumption DEF Ordered, Before
<1>6. ASSUME NEW x \in Request, g.prev[x] # NONE PROVE Before(at, ord, g.prev[x], x)
  BY <1>6, <1>1, <1>4, NoneAssumption DEF Ordered, Before
<1>7. ASSUME NEW c \in Band PROVE /\ g.head[c] # NONE => at[g.head[c]] = c
                                  /\ g.tail[c] # NONE => at[g.tail[c]] = c
  <2>1. (h.head[c] # NONE => at[h.head[c]] = c) /\ (h.tail[c] # NONE => at[h.tail[c]] = c)
    BY DEF Ordered
  <2>. QED  BY <2>1, <1>1, <1>2, <1>3, NoneAssumption
<1>8. HeadsAdvance(h, g, ord)
  <2> SUFFICES ASSUME NEW c \in Band, g.head[c] # NONE
               PROVE  h.head[c] # NONE /\ ord[h.head[c]] <= ord[g.head[c]]
    BY DEF HeadsAdvance
  <2>1. CASE g.head[c] = h.head[c]
    <3>1. ord[h.head[c]] \in Nat
      BY <2>1, <1>2 DEF Pointer
    <3>. QED  BY <2>1, <3>1
  <2>2. CASE g.head[c] # h.head[c]
    <3>1. h.head[c] = r /\ g.head[c] = n /\ n # NONE
      BY <2>2, <1>1, <1>2
    <3>2. ord[r] \in Nat /\ ord[n] \in Nat
      BY <3>1, <1>2 DEF Pointer
    <3>. QED  BY <3>1, <3>2, <1>3, NoneAssumption
  <2>. QED  BY <2>1, <2>2
<1>. QED  BY <1>5, <1>6, <1>7, <1>8 DEF Ordered, g

(* The same for dequeue, remove and drain: none of them goes back, and     *)
(* dequeue leaves behind what it returns.                                  *)
LEMMA DequeueOrdered ==
  ASSUME NEW pq \in PriorityQueues, NEW at \in [Request -> Band], NEW ord \in [Request -> Nat],
         DequeueResult(pq) # NONE, Ordered(pq.h, at, ord)
  PROVE  LET r == DequeueResult(pq)
             g == Dequeue(pq).h
         IN  /\ Ordered(g, at, ord) /\ HeadsAdvance(pq.h, g, ord)
             /\ r \in Request /\ pq.h.head[at[r]] = r
             /\ \A b \in Band : g.head[b] # NONE /\ at[r] = b => ord[r] < ord[g.head[b]]
<1> DEFINE b == FirstBand(Servable(pq))
<1>1. Servable(pq) # {}
  BY DEF DequeueResult
<1>2. /\ b \in Band /\ pq.h.head[b] # NONE /\ pq.h \in Heap
      /\ DequeueResult(pq) = pq.h.head[b] /\ Dequeue(pq).h = Shift(pq.h, b)
  BY <1>1, ServableBand DEF DequeueResult, Dequeue, PriorityQueues
<1> HIDE DEF b
<1>3. pq.h.head[b] \in Request /\ at[pq.h.head[b]] = b
  BY <1>2 DEF Heap, Pointer, Ordered
<1>. QED  BY <1>2, <1>3, ShiftOrdered

LEMMA RemoveOrdered ==
  ASSUME NEW pq \in PriorityQueues, NEW at \in [Request -> Band], NEW ord \in [Request -> Nat],
         NEW r \in Request, Ordered(pq.h, at, ord)
  PROVE  Ordered(Remove(pq, r).h, at, ord) /\ HeadsAdvance(pq.h, Remove(pq, r).h, ord)
<1> DEFINE A == {b \in Band : SeemsInBand(pq.h, b, r)}
<1>1. pq.h \in Heap
  BY DEF PriorityQueues
<1>2. CASE Remove(pq, r) = pq
  <2>1. \A b \in Band : pq.h.head[b] # NONE => ord[pq.h.head[b]] \in Nat
    BY <1>1 DEF Heap, Pointer
  <2>. QED  BY <1>2, <2>1 DEF HeadsAdvance
<1>3. CASE pq.h.linked[r] /\ A # {}
  <2>1. FirstBand(A) \in Band
    BY <1>3, FirstBandIsLeast
  <2>2. Remove(pq, r).h = Unlink(pq.h, FirstBand(A), r)
    BY <1>3 DEF Remove
  <2>. QED  BY <1>1, <2>1, <2>2, UnlinkOrdered
<1>. QED  BY <1>2, <1>3 DEF Remove

LEMMA DrainOrdered ==
  ASSUME NEW pq \in PriorityQueues, NEW at \in [Request -> Band], NEW ord \in [Request -> Nat],
         Ordered(pq.h, at, ord)
  PROVE  Ordered(DrainQueue(pq).h, at, ord) /\ HeadsAdvance(pq.h, DrainQueue(pq).h, ord)
BY DEF DrainQueue, Ordered, HeadsAdvance

(* What nothing refers to stays so, but for a push.                        *)
LEMMA UnseenStays ==
  ASSUME NEW pq \in PriorityQueues, NEW r \in Request, Unseen(pq.h, r)
  PROVE  /\ Unseen(Dequeue(pq).h, r) /\ DequeueResult(pq) # r
         /\ \A x \in Request : Unseen(Remove(pq, x).h, r)
         /\ Unseen(DrainQueue(pq).h, r)
         /\ \A b \in Band, x \in Request : x # r => Unseen(Enqueue(pq, x, b).h, r)
<1>1. pq.h \in Heap /\ r # NONE
  BY NoneAssumption DEF PriorityQueues
<1>2. Unseen(Dequeue(pq).h, r) /\ DequeueResult(pq) # r
  <2>1. CASE Servable(pq) = {}
    BY <1>1, <2>1 DEF Dequeue, DequeueResult
  <2>2. CASE Servable(pq) # {}
    <3> DEFINE b == FirstBand(Servable(pq))
    <3>1. b \in Band /\ pq.h.head[b] \in Request
      BY <1>1, <2>2, ServableBand DEF Heap, Pointer
    <3>2. Dequeue(pq).h = Shift(pq.h, b) /\ DequeueResult(pq) = pq.h.head[b]
      BY <2>2 DEF Dequeue, DequeueResult
    <3> HIDE DEF b
    <3>. QED  BY <1>1, <3>1, <3>2 DEF Shift, Unseen, Heap
  <2>. QED  BY <2>1, <2>2
<1>3. ASSUME NEW x \in Request PROVE Unseen(Remove(pq, x).h, r)
  <2> DEFINE A == {b \in Band : SeemsInBand(pq.h, b, x)}
  <2>1. CASE Remove(pq, x) = pq
    BY <2>1
  <2>2. CASE pq.h.linked[x] /\ A # {}
    <3>1. FirstBand(A) \in Band
      BY <2>2, FirstBandIsLeast
    <3>2. Remove(pq, x).h = Unlink(pq.h, FirstBand(A), x)
      BY <2>2 DEF Remove
    <3>. QED  BY <1>1, <3>1, <3>2 DEF Unlink, Unseen, Heap
  <2>. QED  BY <2>1, <2>2 DEF Remove
<1>4. Unseen(DrainQueue(pq).h, r)
  BY <1>1 DEF DrainQueue, Unseen
<1>5. ASSUME NEW b \in Band, NEW x \in Request, x # r PROVE Unseen(Enqueue(pq, x, b).h, r)
  <2>1. Enqueue(pq, x, b).h = Push(pq.h, b, x)
    BY DEF Enqueue
  <2>. QED  BY <1>1, <1>5, <2>1 DEF Push, Unseen, Heap
<1>. QED  BY <1>2, <1>3, <1>4, <1>5

(* remove gives dequeue nothing to take that was not there.                *)
LEMMA RemoveServesNothing ==
  ASSUME NEW pq \in PriorityQueues, NEW r \in Request
  PROVE  /\ Remove(pq, r).total <= pq.total
         /\ DequeueResult(pq) = NONE => DequeueResult(Remove(pq, r)) = NONE
<1> DEFINE A == {b \in Band : SeemsInBand(pq.h, b, r)}
<1>0. pq.h \in Heap /\ pq.total \in Int
  BY DEF PriorityQueues
<1>1. CASE Remove(pq, r) = pq
  BY <1>0, <1>1
<1>2. CASE pq.h.linked[r] /\ A # {}
  <2> DEFINE b == FirstBand(A)
             g == Remove(pq, r)
  <2>1. b \in Band
    BY <1>2, FirstBandIsLeast
  <2>2. g.h = Unlink(pq.h, b, r) /\ g.total = pq.total - 1
    BY <1>2 DEF Remove
  <2> HIDE DEF b, g
  <2>3. /\ g.h.size = [pq.h.size EXCEPT ![b] = @ - 1]
        /\ \A c \in Band : pq.h.head[c] = NONE => g.h.head[c] = NONE
    BY <1>0, <2>1, <2>2, NoneAssumption DEF Unlink, Heap
  <2>4. ASSUME NEW c \in Servable(g) PROVE c \in Servable(pq)
    <3>1. c \in Band /\ g.h.size[c] > 0 /\ g.h.head[c] # NONE
      BY DEF Servable
    <3>2. pq.h.size[c] \in Int /\ g.h.size[c] \in Int /\ g.h.size[c] <= pq.h.size[c]
      BY <1>0, <2>1, <2>3, <3>1 DEF Heap
    <3>. QED  BY <2>3, <3>1, <3>2 DEF Servable
  <2>5. DequeueResult(pq) = NONE => Servable(pq) = {}
    BY ServableBand DEF DequeueResult
  <2>6. DequeueResult(pq) = NONE => DequeueResult(g) = NONE
    BY <2>4, <2>5 DEF DequeueResult
  <2>7. g.total <= pq.total
    BY <1>0, <2>2
  <2>. QED  BY <2>6, <2>7 DEF g
<1>. QED  BY <1>1, <1>2 DEF Remove

----------------------------------------------------------------------------
(* Type correctness.                                                       *)

(* What the handlers make of a worker is a worker.                         *)
LEMMA WorkerTypes ==
  /\ NoWorker \in Workers
  /\ FreshWorker \in Workers
  /\ \A w \in Workers, r \in Request : Assign(w, r) \in Workers
<1>1. NoWorker \in Workers
  BY DEF NoWorker, Workers, Pointer
<1>2. FreshWorker \in Workers
  BY <1>1 DEF FreshWorker, Workers
<1>3. ASSUME NEW w \in Workers, NEW r \in Request
      PROVE  Assign(w, r) \in Workers
  <2> DEFINE jobs == IF w.thread = "running" THEN Append(w.jobs, r) ELSE w.jobs
  <2>1. jobs \in Seq(Request) /\ w.count + 1 \in Nat /\ r \in Pointer
    BY DEF Workers, Pointer
  <2>2. Assign(w, r) = [w EXCEPT !.busy = TRUE, !.count = @ + 1, !.cur = r, !.jobs = jobs]
    BY Zenon DEF Assign
  <2>. HIDE DEF jobs
  <2>. QED  BY <2>1, <2>2 DEF Workers
<1>. QED  BY <1>1, <1>2, <1>3

LEMMA UpdateTypes ==
  ASSUME NEW w \in Workers
  PROVE  /\ Idled(w) \in Workers
         /\ Stopped(w) \in Workers
         /\ w.jobs # <<>> => Heard(w) \in Workers
         /\ w.events # <<>> => Noticed(w) \in Workers
         /\ \A e \in Seq({"error", "exit"}) : [w EXCEPT !.events = e] \in Workers
         /\ [w EXCEPT !.after = "nothing"] \in Workers
         /\ \A who \in {"recycle", "failure"} : Retired(w, who) \in Workers
<1>1. Idled(w) \in Workers
  BY DEF Idled, Workers, Pointer
<1>2. Stopped(w) \in Workers
  <2>1. <<>> \in Seq(Request)
    OBVIOUS
  <2>. QED  BY <2>1 DEF Stopped, Workers
<1>3. ASSUME w.jobs # <<>> PROVE Heard(w) \in Workers
  <2>1. Tail(w.jobs) \in Seq(Request)
    BY <1>3 DEF Workers
  <2>. QED  BY <2>1 DEF Heard, Workers
<1>4. ASSUME w.events # <<>> PROVE Noticed(w) \in Workers
  <2>1. Tail(w.events) \in Seq({"error", "exit"})
    BY <1>4 DEF Workers
  <2>. QED  BY <2>1 DEF Noticed, Workers
<1>5. ASSUME NEW e \in Seq({"error", "exit"}) PROVE [w EXCEPT !.events = e] \in Workers
  BY DEF Workers
<1>6. [w EXCEPT !.after = "nothing"] \in Workers
  BY DEF Workers
<1>7. ASSUME NEW who \in {"recycle", "failure"} PROVE Retired(w, who) \in Workers
  BY DEF Retired, Workers
<1>. QED  BY <1>1, <1>2, <1>3, <1>4, <1>5, <1>6, <1>7

LEMMA Spawned ==
  ASSUME TypeOK, NEW S, SpawnAll(S)
  PROVE  pool' \subseteq Slot /\ wk' \in [Slot -> Workers]
BY WorkerTypes DEF TypeOK, SpawnAll, Free

LEMMA Recycled ==
  ASSUME TypeOK, NEW w \in [Slot -> Workers], NEW s \in Slot,
         NEW who \in {"recycle", "failure"}, Recycle(w, s, who)
  PROVE  pool' \subseteq Slot /\ wk' \in [Slot -> Workers]
<1>1. ASSUME NEW n \in Free
      PROVE  Replaced(w, s, n, who) \in [Slot -> Workers]
  BY <1>1, WorkerTypes, UpdateTypes DEF Replaced, Free
<1>2. Free \subseteq Slot
  BY DEF Free
<1>. QED  BY <1>1, <1>2 DEF Recycle, TypeOK

LEMMA Settled ==
  ASSUME NEW R, NEW how \in {"resolved", "rejected"}, TypeOK
  PROVE  Settle(promise, R, how) \in
           [Request -> {"new", "initializing", "pending", "resolved", "rejected"}]
BY DEF Settle, TypeOK

LEMMA Proceeded ==
  ASSUME TypeOK, NEW r \in Request, NEW busy, Proceed(r, busy)
  PROVE  /\ q' \in PriorityQueues /\ timer' \subseteq Request /\ dispatching' \in BOOLEAN
         /\ promise' \in [Request -> {"new", "initializing", "pending", "resolved", "rejected"}]
<1>1. Priority(r) \in Band
  BY BandAssumption DEF Priority, High, Normal
<1>2. Enqueue(q, r, Priority(r)) \in PriorityQueues
  BY <1>1, EnqueueType DEF TypeOK
<1>. QED  BY <1>2 DEF Proceed, TypeOK

LEMMA Failed ==
  ASSUME TypeOK, NEW w \in [Slot -> Workers], NEW s \in Slot, Failure(w, s)
  PROVE  TypeOK'
<1> DEFINE freed == [w EXCEPT ![s] = Idled(@)]
<1>1. freed \in [Slot -> Workers]
  BY UpdateTypes
<1>2. pool' \subseteq Slot /\ wk' \in [Slot -> Workers] /\ dispatching' \in BOOLEAN
  BY <1>1, Recycled DEF Failure, TypeOK
<1>3. promise' \in [Request -> {"new", "initializing", "pending", "resolved", "rejected"}]
  BY Settled DEF Failure
<1>. QED  BY <1>2, <1>3 DEF Failure, life, TypeOK

LEMMA TypeInit == Init => TypeOK
<1> SUFFICES ASSUME Init PROVE TypeOK
  OBVIOUS
<1>1. closing \in [Closers -> [open : BOOLEAN, on : SUBSET Slot]]
  BY DEF Init
<1>2. wk \in [Slot -> Workers] /\ q \in PriorityQueues /\ answer \in [Request -> Pointer]
  BY NewQueueType, WorkerTypes DEF Init, Pointer
<1>3. starting \in BOOLEAN
  BY PoolAssumption DEF Init
<1>. QED  BY <1>1, <1>2, <1>3 DEF Init, TypeOK

LEMMA TypeStep == TypeOK /\ [Next]_vars => TypeOK'
<1> SUFFICES ASSUME TypeOK, [Next]_vars PROVE TypeOK'
  OBVIOUS
<1>1. ASSUME NEW r \in Request, Render(r) PROVE TypeOK'
  BY <1>1, Proceeded DEF Render, TypeOK, workers, life
<1>2. ASSUME NEW r \in Request, RenderCold(r) PROVE TypeOK'
  BY <1>2 DEF RenderCold, TypeOK, workers, life
<1>3. ASSUME NEW r \in Request, InitializeDone(r) PROVE TypeOK'
  BY <1>3, Proceeded, Spawned DEF InitializeDone, TypeOK
<1>4. ASSUME NEW r \in Request, InitializeThrows(r) PROVE TypeOK'
  BY <1>4, Spawned DEF InitializeThrows, TypeOK, life
<1>5. ASSUME NEW r \in Request, QueueTimeout(r) PROVE TypeOK'
  <2>1. q' \in PriorityQueues
    BY <1>5, RemoveType DEF QueueTimeout, TypeOK
  <2>2. promise' \in [Request -> {"new", "initializing", "pending", "resolved", "rejected"}]
    BY <1>5, Settled DEF QueueTimeout
  <2>. QED  BY <1>5, <2>1, <2>2 DEF QueueTimeout, TypeOK, workers, life
<1>6. ASSUME BackgroundInitialize PROVE TypeOK'
  BY <1>6, Spawned DEF BackgroundInitialize, TypeOK, callers
<1>7. ASSUME DispatchOne PROVE TypeOK'
  <2>1. DequeueResult(q) \in Request
    BY <1>7, DequeueResultType DEF DispatchOne, CanDispatch, TypeOK, Pointer
  <2>2. wk' \in [Slot -> Workers]
    BY <1>7, <2>1, WorkerTypes DEF DispatchOne, Idle, TypeOK
  <2>3. q' \in PriorityQueues
    BY <1>7, DequeueType DEF DispatchOne, TypeOK
  <2>. QED  BY <1>7, <2>2, <2>3 DEF DispatchOne, TypeOK, life
<1>8. ASSUME DispatchEnd PROVE TypeOK'
  BY <1>8 DEF DispatchEnd, TypeOK, callers, workers, life
<1>9. ASSUME DispatchImmediate PROVE TypeOK'
  BY <1>9 DEF DispatchImmediate, TypeOK, callers, workers, life
<1>10. ASSUME NEW s \in Slot, ThreadStops(s) PROVE TypeOK'
  <2>1. {<<"error", "exit">>, <<"exit">>, <<>>} \subseteq Seq({"error", "exit"})
    OBVIOUS
  <2>2. wk' \in [Slot -> Workers]
    <3>1. Stopped(wk[s]) \in Workers
      BY UpdateTypes DEF TypeOK
    <3>2. \A e \in Seq({"error", "exit"}) : [Stopped(wk[s]) EXCEPT !.events = e] \in Workers
      BY <3>1, UpdateTypes
    <3>3. PICK e \in {<<"error", "exit">>, <<"exit">>, <<>>} :
                 wk' = [wk EXCEPT ![s] = [Stopped(@) EXCEPT !.events = e]]
      BY <1>10, Zenon DEF ThreadStops
    <3>4. [Stopped(wk[s]) EXCEPT !.events = e] \in Workers
      BY <2>1, <3>2
    <3>. QED  BY <3>3, <3>4 DEF TypeOK
  <2>. QED  BY <1>10, <2>2 DEF ThreadStops, TypeOK, callers, life
<1>11. ASSUME NEW s \in Slot, NEW how \in {"resolved", "rejected"}, Answer(s, how)
       PROVE  TypeOK'
  <2> DEFINE heard == [wk EXCEPT ![s] = Heard(@)]
             freed == [wk EXCEPT ![s] = Idled(Heard(@))]
  <2>1. wk[s] \in Workers /\ wk[s].jobs # <<>> /\ Head(wk[s].jobs) \in Request
    BY <1>11 DEF Answer, TypeOK, Workers
  <2>2. Heard(wk[s]) \in Workers /\ Idled(Heard(wk[s])) \in Workers
    BY <2>1, UpdateTypes
  <2>3. heard \in [Slot -> Workers] /\ freed \in [Slot -> Workers]
    BY <2>2 DEF TypeOK
  <2>4. pool' \subseteq Slot /\ wk' \in [Slot -> Workers]
    BY <1>11, <2>3, Recycled DEF Answer, TypeOK
  <2>5. promise' \in [Request -> {"new", "initializing", "pending", "resolved", "rejected"}]
    BY <1>11, Settled DEF Answer, TypeOK
  <2>6. answer' \in [Request -> Pointer] /\ immediate' \in BOOLEAN
    BY <1>11, <2>1 DEF Answer, TypeOK, Pointer
  <2>. QED  BY <1>11, <2>4, <2>5, <2>6 DEF Answer, TypeOK, life
<1>12. ASSUME NEW s \in Slot, RenderTimeout(s) PROVE TypeOK'
  BY <1>12, Failed DEF RenderTimeout, TypeOK
<1>13. ASSUME NEW s \in Slot, ErrorEvent(s) PROVE TypeOK'
  <2>1. [wk EXCEPT ![s] = Noticed(@)] \in [Slot -> Workers]
    BY <1>13, UpdateTypes DEF ErrorEvent, TypeOK
  <2>. QED  BY <1>13, <2>1, Failed DEF ErrorEvent
<1>14. ASSUME NEW s \in Slot, ExitEvent(s) PROVE TypeOK'
  <2>1. [wk EXCEPT ![s] = Noticed(@)] \in [Slot -> Workers]
    BY <1>14, UpdateTypes DEF ExitEvent, TypeOK
  <2>2. CASE wk[s].stopping \/ shuttingDown
    BY <1>14, <2>1, <2>2 DEF ExitEvent, TypeOK, callers, life
  <2>3. CASE ~(wk[s].stopping \/ shuttingDown)
    BY <1>14, <2>1, <2>3, Failed DEF ExitEvent
  <2>. QED  BY <2>2, <2>3
<1>15. ASSUME NEW s \in Slot, Terminated(s) PROVE TypeOK'
  <2>1. wk' \in [Slot -> Workers] /\ dispatching' \in BOOLEAN
    BY <1>15, UpdateTypes DEF Terminated, Redispatches, TypeOK
  <2>. QED  BY <1>15, <2>1 DEF Terminated, TypeOK, callers, life
<1>16. ASSUME NEW s \in Slot, Collect(s) PROVE TypeOK'
  BY <1>16, WorkerTypes DEF Collect, TypeOK, callers, life
<1>17. ASSUME NEW s \in Slot, ClosedThread(s) PROVE TypeOK'
  <2>1. wk' \in [Slot -> Workers]
    BY <1>17, UpdateTypes DEF ClosedThread, TypeOK
  <2>. QED  BY <1>17, <2>1 DEF ClosedThread, TypeOK, callers, life
<1>18. ASSUME NEW c \in Closers, ShutdownBegin(c) PROVE TypeOK'
  <2>1. q' \in PriorityQueues
    BY <1>18, DrainQueueType DEF ShutdownBegin, TypeOK
  <2>2. promise' \in [Request -> {"new", "initializing", "pending", "resolved", "rejected"}]
    BY <1>18, Settled DEF ShutdownBegin
  <2>3. wk' \in [Slot -> Workers]
    <3>1. ASSUME NEW w \in Workers, NEW busy \in BOOLEAN
          PROVE  [w EXCEPT !.stopping = TRUE, !.cur = NONE, !.busy = busy] \in Workers
      BY DEF Workers, Pointer
    <3>2. ASSUME NEW s \in Slot
          PROVE  [wk[s] EXCEPT !.stopping = TRUE, !.cur = NONE,
                               !.busy = @ /\ wk[s].cur = NONE] \in Workers
      <4>1. (wk[s].busy /\ wk[s].cur = NONE) \in BOOLEAN
        OBVIOUS
      <4>. QED  BY <3>1, <4>1 DEF TypeOK
    <3>. QED  BY <1>18, <3>2 DEF ShutdownBegin, TypeOK
  <2>4. closing' \in [Closers -> [open : BOOLEAN, on : SUBSET Slot]]
    BY <1>18 DEF ShutdownBegin, TypeOK
  <2>. QED  BY <1>18, <2>1, <2>2, <2>3, <2>4 DEF ShutdownBegin, TypeOK
<1>19. ASSUME NEW c \in Closers, ShutdownEnd(c) PROVE TypeOK'
  BY <1>19 DEF ShutdownEnd, TypeOK, callers
<1>20. CASE UNCHANGED vars
  BY <1>20 DEF vars, TypeOK
<1>. QED
  BY <1>1, <1>2, <1>3, <1>4, <1>5, <1>6, <1>7, <1>8, <1>9, <1>10, <1>11, <1>12,
     <1>13, <1>14, <1>15, <1>16, <1>17, <1>18, <1>19, <1>20 DEF Next, ThreadStep

(* Every variable keeps its type: in particular no handler ever takes a    *)
(* null for a request, whatever the order of answers, failures, timeouts   *)
(* and shutdowns.                                                          *)
THEOREM TypeCorrect == Spec => []TypeOK
BY TypeInit, TypeStep, PTL DEF Spec

----------------------------------------------------------------------------
(* Every promise has a keeper.  A keeper is lost when a worker with a      *)
(* current request is given another one, or when its slot is given to a    *)
(* fresh thread.  What excludes it: a worker that is not busy has no       *)
(* current request, and neither has a slot without a thread, which is not  *)
(* in the workers array either.                                            *)
Books == \A s \in Slot : /\ wk[s].busy <=> wk[s].cur # NONE
                         /\ wk[s].thread = "none" => wk[s].cur = NONE /\ s \notin pool

IInv == TypeOK /\ Books /\ EveryPromiseHasAKeeper

(* What the updates of a worker leave as it is. *)
LEMMA UpdateFacts ==
  ASSUME NEW w \in Workers
  PROVE  /\ Idled(w).cur = NONE /\ ~Idled(w).busy /\ Idled(w).thread = w.thread
         /\ Stopped(w).cur = w.cur /\ Stopped(w).busy = w.busy /\ Stopped(w).thread = "dead"
         /\ Heard(w).cur = w.cur /\ Heard(w).busy = w.busy /\ Heard(w).thread = w.thread
         /\ Noticed(w).cur = w.cur /\ Noticed(w).busy = w.busy /\ Noticed(w).thread = w.thread
         /\ \A who : /\ Retired(w, who).cur = w.cur /\ Retired(w, who).busy = w.busy
                     /\ Retired(w, who).thread = w.thread
         /\ \A r : /\ Assign(w, r).cur = r /\ Assign(w, r).busy
                   /\ Assign(w, r).thread = w.thread
BY DEF Idled, Stopped, Heard, Noticed, Retired, Assign, Workers

LEMMA FreshFacts ==
  /\ FreshWorker.cur = NONE /\ ~FreshWorker.busy /\ FreshWorker.thread = "running"
  /\ NoWorker.cur = NONE /\ ~NoWorker.busy
BY DEF FreshWorker, NoWorker

(* Spawning keeps the books and every current request. *)
LEMMA SpawnKeeps ==
  ASSUME TypeOK, Books, NEW S, SpawnAll(S)
  PROVE  Books' /\ \A s \in Slot : wk[s].cur # NONE => wk'[s].cur = wk[s].cur
<1>1. ASSUME NEW s \in Slot
      PROVE  /\ wk'[s] = IF s \in S THEN FreshWorker ELSE wk[s]
             /\ s \in S => wk[s].thread = "none"
             /\ s \in pool' => s \in pool \/ s \in S
  BY DEF SpawnAll, Free
<1>. QED  BY <1>1, FreshFacts DEF Books

(* Recycling a worker that has been freed does too. *)
LEMMA RecycleKeeps ==
  ASSUME TypeOK, Books, NEW w \in [Slot -> Workers], NEW s \in Slot,
         NEW who \in {"recycle", "failure"},
         Recyclable(s), Recycle(w, s, who),
         w[s].cur = NONE, ~w[s].busy, w[s].thread = wk[s].thread,
         \A t \in Slot \ {s} : w[t] = wk[t]
  PROVE  Books' /\ \A t \in Slot \ {s} : wk[t].cur # NONE => wk'[t].cur = wk[t].cur
<1>0. s \in pool /\ wk[s].thread # "none"
  BY DEF Recyclable, Books
<1>1. CASE wk' = w /\ pool' = pool
  BY <1>0, <1>1 DEF Books
<1>2. ASSUME NEW n \in Free, wk' = Replaced(w, s, n, who), pool' = (pool \cup {n}) \ {s}
      PROVE  Books' /\ \A t \in Slot \ {s} : wk[t].cur # NONE => wk'[t].cur = wk[t].cur
  <2>1. n \in Slot /\ n # s /\ wk[n].cur = NONE
    BY <1>0, <1>2 DEF Free, Books
  <2>2. /\ wk'[n] = FreshWorker
        /\ wk'[s] = Retired(w[s], who)
        /\ \A t \in Slot \ {s, n} : wk'[t] = wk[t]
    BY <1>2, <2>1 DEF Replaced
  <2>3. wk'[s].cur = NONE /\ ~wk'[s].busy
    BY <2>2, UpdateFacts
  <2>. QED  BY <1>2, <2>1, <2>2, <2>3, FreshFacts DEF Books
<1>. QED  BY <1>1, <1>2 DEF Recycle

LEMMA SettledFacts ==
  ASSUME NEW R, NEW how \in {"resolved", "rejected"}, NEW r \in Request,
         Settle(promise, R, how)[r] = "pending"
  PROVE  promise[r] = "pending" /\ r \notin R
BY DEF Settle

LEMMA ProceedKeeps ==
  ASSUME IInv, NEW r \in Request, NEW busy, Proceed(r, busy),
         \A s \in Slot : wk[s].cur # NONE => wk'[s].cur = wk[s].cur
  PROVE  EveryPromiseHasAKeeper'
<1> SUFFICES ASSUME NEW x \in Request, promise'[x] = "pending"
             PROVE  x \in timer' \/ \E s \in Slot : wk'[s].cur = x
  BY DEF EveryPromiseHasAKeeper
<1>1. x = r \/ promise[x] = "pending"
  BY DEF Proceed, IInv, TypeOK
<1>2. timer \subseteq timer'
  BY DEF Proceed
<1>3. CASE x = r
  BY <1>3 DEF Proceed, IInv, TypeOK
<1>4. CASE x # r
  BY <1>1, <1>2, <1>4, NoneAssumption DEF IInv, EveryPromiseHasAKeeper
<1>. QED  BY <1>3, <1>4

LEMMA FailureKeeps ==
  ASSUME IInv, NEW w \in [Slot -> Workers], NEW s \in Slot, Failure(w, s),
         w[s].cur = wk[s].cur, w[s].thread = wk[s].thread,
         \A t \in Slot \ {s} : w[t] = wk[t]
  PROVE  Books' /\ EveryPromiseHasAKeeper'
<1> DEFINE freed == [w EXCEPT ![s] = Idled(@)]
<1>1. /\ freed \in [Slot -> Workers]
      /\ freed[s].cur = NONE /\ ~freed[s].busy /\ freed[s].thread = wk[s].thread
      /\ \A t \in Slot \ {s} : freed[t] = wk[t]
  <2>1. freed[s] = Idled(w[s]) /\ w[s] \in Workers /\ \A t \in Slot \ {s} : freed[t] = w[t]
    OBVIOUS
  <2>2. Idled(w[s]) \in Workers
    BY <2>1, UpdateTypes
  <2>3. freed \in [Slot -> Workers]
    BY <2>1, <2>2
  <2>. QED  BY <2>1, <2>3, UpdateFacts
<1>2. Books' /\ \A t \in Slot \ {s} : wk[t].cur # NONE => wk'[t].cur = wk[t].cur
  <2>. HIDE DEF freed
  <2>1. CASE Recyclable(s)
    <3>1. Recycle(freed, s, "failure")
      BY <2>1 DEF Failure, freed
    <3>. QED  BY <1>1, <2>1, <3>1, RecycleKeeps DEF IInv
  <2>2. CASE ~Recyclable(s)
    <3>1. wk' = freed /\ pool' = pool
      BY <2>2 DEF Failure, freed
    <3>. QED  BY <1>1, <3>1 DEF IInv, Books
  <2>. QED  BY <2>1, <2>2
<1>3. ASSUME NEW r \in Request, promise'[r] = "pending"
      PROVE  r \in timer' \/ \E t \in Slot : wk'[t].cur = r
  <2>1. promise[r] = "pending" /\ r # wk[s].cur /\ timer' = timer
    BY <1>3, SettledFacts DEF Failure, FailureRejects
  <2>. QED  BY <1>2, <2>1, NoneAssumption DEF IInv, EveryPromiseHasAKeeper
<1>. QED  BY <1>2, <1>3 DEF EveryPromiseHasAKeeper

(* Steps that move no current request, settle no promise to pending and    *)
(* disarm no timer.                                                        *)
LEMMA QuietKeeps ==
  ASSUME IInv, timer \subseteq timer',
         \A r \in Request : promise'[r] = "pending" => promise[r] = "pending",
         \A s \in Slot : wk[s].cur # NONE => wk'[s].cur = wk[s].cur
  PROVE  EveryPromiseHasAKeeper'
BY NoneAssumption DEF IInv, EveryPromiseHasAKeeper

LEMMA InvInit == Init => IInv
<1> SUFFICES ASSUME Init PROVE IInv
  OBVIOUS
<1>1. Books
  BY FreshFacts DEF Init, Books
<1>2. EveryPromiseHasAKeeper
  BY DEF Init, EveryPromiseHasAKeeper
<1>. QED  BY <1>1, <1>2, TypeInit DEF IInv

LEMMA InvStep == IInv /\ [Next]_vars => IInv'
<1> SUFFICES ASSUME IInv, [Next]_vars PROVE Books' /\ EveryPromiseHasAKeeper'
  BY TypeStep DEF IInv
<1>0. TypeOK /\ Books /\ \A s \in Slot : wk[s] \in Workers
  BY DEF IInv, TypeOK
<1>1. ASSUME NEW r \in Request, Render(r) PROVE Books' /\ EveryPromiseHasAKeeper'
  BY <1>0, <1>1, ProceedKeeps DEF Render, workers, Books
<1>2. ASSUME NEW r \in Request, RenderCold(r) PROVE Books' /\ EveryPromiseHasAKeeper'
  <2>1. \A x \in Request : promise'[x] = "pending" => promise[x] = "pending"
    BY <1>0, <1>2 DEF RenderCold, TypeOK
  <2>. QED  BY <1>0, <1>2, <2>1, QuietKeeps DEF RenderCold, workers, Books
<1>3. ASSUME NEW r \in Request, InitializeDone(r) PROVE Books' /\ EveryPromiseHasAKeeper'
  <2>1. Books' /\ \A s \in Slot : wk[s].cur # NONE => wk'[s].cur = wk[s].cur
    BY <1>0, <1>3, SpawnKeeps DEF InitializeDone
  <2>. QED  BY <1>3, <2>1, ProceedKeeps DEF InitializeDone
<1>4. ASSUME NEW r \in Request, InitializeThrows(r) PROVE Books' /\ EveryPromiseHasAKeeper'
  <2>1. Books' /\ \A s \in Slot : wk[s].cur # NONE => wk'[s].cur = wk[s].cur
    BY <1>0, <1>4, SpawnKeeps DEF InitializeThrows
  <2>2. \A x \in Request : promise'[x] = "pending" => promise[x] = "pending"
    BY <1>0, <1>4 DEF InitializeThrows, TypeOK
  <2>. QED  BY <1>4, <2>1, <2>2, QuietKeeps DEF InitializeThrows
<1>5. ASSUME NEW r \in Request, QueueTimeout(r) PROVE Books' /\ EveryPromiseHasAKeeper'
  <2>1. ASSUME NEW x \in Request, promise'[x] = "pending"
        PROVE  x \in timer' \/ \E s \in Slot : wk'[s].cur = x
    <3>1. promise[x] = "pending" /\ x # r
      BY <1>5, <2>1, SettledFacts DEF QueueTimeout
    <3>. QED  BY <1>5, <3>1 DEF QueueTimeout, workers, IInv, EveryPromiseHasAKeeper
  <2>. QED  BY <1>0, <1>5, <2>1 DEF QueueTimeout, workers, Books, EveryPromiseHasAKeeper
<1>6. ASSUME BackgroundInitialize PROVE Books' /\ EveryPromiseHasAKeeper'
  <2>1. Books' /\ \A s \in Slot : wk[s].cur # NONE => wk'[s].cur = wk[s].cur
    BY <1>0, <1>6, SpawnKeeps DEF BackgroundInitialize
  <2>. QED  BY <1>6, <2>1, QuietKeeps DEF BackgroundInitialize, callers
<1>7. ASSUME DispatchOne PROVE Books' /\ EveryPromiseHasAKeeper'
  <2> DEFINE r == DequeueResult(q)
  <2>1. r \in Request
    BY <1>0, <1>7, DequeueResultType DEF DispatchOne, CanDispatch, TypeOK, Pointer
  <2>2. PICK s \in Idle : wk' = [wk EXCEPT ![s] = Assign(@, r)]
    BY <1>7 DEF DispatchOne
  <2>3. s \in Slot /\ wk[s].cur = NONE /\ wk[s].thread # "none"
    BY <1>0, <2>2 DEF Idle, Books, TypeOK
  <2>4. /\ wk'[s].cur = r /\ wk'[s].busy /\ wk'[s].thread = wk[s].thread
        /\ \A t \in Slot \ {s} : wk'[t] = wk[t]
    BY <1>0, <2>2, <2>3, UpdateFacts DEF TypeOK
  <2>5. promise' = promise /\ timer' = timer \ {r} /\ pool' = pool
    BY <1>7 DEF DispatchOne
  <2>. HIDE DEF r
  <2>6. Books'
    BY <1>0, <2>1, <2>3, <2>4, <2>5, NoneAssumption DEF Books
  <2>7. EveryPromiseHasAKeeper'
    BY <2>1, <2>3, <2>4, <2>5, NoneAssumption DEF IInv, EveryPromiseHasAKeeper
  <2>. QED  BY <2>6, <2>7
<1>8. ASSUME DispatchEnd PROVE Books' /\ EveryPromiseHasAKeeper'
  BY <1>0, <1>8, QuietKeeps DEF DispatchEnd, callers, workers, Books
<1>9. ASSUME DispatchImmediate PROVE Books' /\ EveryPromiseHasAKeeper'
  BY <1>0, <1>9, QuietKeeps DEF DispatchImmediate, callers, workers, Books
<1>10. ASSUME NEW s \in Slot, ThreadStops(s) PROVE Books' /\ EveryPromiseHasAKeeper'
  <2>1. PICK e \in {<<"error", "exit">>, <<"exit">>, <<>>} :
              wk' = [wk EXCEPT ![s] = [Stopped(@) EXCEPT !.events = e]]
    BY <1>10, Zenon DEF ThreadStops
  <2>2. /\ wk'[s].cur = wk[s].cur /\ wk'[s].busy = wk[s].busy /\ wk'[s].thread = "dead"
        /\ \A t \in Slot \ {s} : wk'[t] = wk[t]
    <3>1. Stopped(wk[s]) \in Workers
      BY <1>0, UpdateTypes
    <3>2. /\ wk'[s] = [Stopped(wk[s]) EXCEPT !.events = e]
          /\ \A t \in Slot \ {s} : wk'[t] = wk[t]
      BY <1>0, <2>1 DEF TypeOK
    <3>. QED  BY <1>0, <3>1, <3>2, UpdateFacts DEF Workers
  <2>. QED  BY <1>0, <1>10, <2>2, QuietKeeps DEF ThreadStops, callers, Books
<1>11. ASSUME NEW s \in Slot, NEW how \in {"resolved", "rejected"}, Answer(s, how)
       PROVE  Books' /\ EveryPromiseHasAKeeper'
  <2> DEFINE freed == [wk EXCEPT ![s] = Idled(Heard(@))]
  <2>1. Heard(wk[s]) \in Workers
    BY <1>0, <1>11, UpdateTypes DEF Answer
  <2>2. /\ freed \in [Slot -> Workers]
        /\ freed[s].cur = NONE /\ ~freed[s].busy /\ freed[s].thread = wk[s].thread
        /\ \A t \in Slot \ {s} : freed[t] = wk[t]
    <3>1. /\ Idled(Heard(wk[s])) \in Workers
          /\ Idled(Heard(wk[s])).cur = NONE /\ ~Idled(Heard(wk[s])).busy
          /\ Idled(Heard(wk[s])).thread = Heard(wk[s]).thread
      BY <2>1, UpdateTypes, UpdateFacts
    <3>2. Heard(wk[s]).thread = wk[s].thread
      BY <1>0, UpdateFacts
    <3>3. /\ freed \in [Slot -> Workers] /\ freed[s] = Idled(Heard(wk[s]))
          /\ \A t \in Slot \ {s} : freed[t] = wk[t]
      BY <1>0, <3>1 DEF TypeOK
    <3>. QED  BY <3>1, <3>2, <3>3
  <2>. HIDE DEF freed
  <2>3. CASE ~IsCurrent(s, Head(wk[s].jobs))
    <3>1. /\ wk' = [wk EXCEPT ![s] = Heard(@)]
          /\ pool' = pool /\ promise' = promise /\ timer' = timer
      BY <1>11, <2>3 DEF Answer
    <3>2. /\ wk'[s].cur = wk[s].cur /\ wk'[s].busy = wk[s].busy
          /\ wk'[s].thread = wk[s].thread
          /\ \A t \in Slot \ {s} : wk'[t] = wk[t]
      BY <1>0, <3>1, UpdateFacts DEF TypeOK
    <3>. QED  BY <1>0, <3>1, <3>2, QuietKeeps DEF Books
  <2>4. CASE IsCurrent(s, Head(wk[s].jobs))
    <3>1. /\ promise' = Settle(promise, {wk[s].cur}, how)
          /\ timer' = timer
          /\ \/ Recyclable(s) /\ Recycle(freed, s, "recycle")
             \/ wk' = freed /\ pool' = pool
      BY <1>11, <2>4 DEF Answer, freed
    <3>2. Books' /\ \A t \in Slot \ {s} : wk[t].cur # NONE => wk'[t].cur = wk[t].cur
      <4>1. CASE Recyclable(s) /\ Recycle(freed, s, "recycle")
        BY <1>0, <2>2, <4>1, RecycleKeeps
      <4>2. CASE wk' = freed /\ pool' = pool
        BY <1>0, <2>2, <4>2 DEF Books
      <4>. QED  BY <3>1, <4>1, <4>2
    <3>3. ASSUME NEW r \in Request, promise'[r] = "pending"
          PROVE  r \in timer' \/ \E t \in Slot : wk'[t].cur = r
      <4>1. promise[r] = "pending" /\ r # wk[s].cur
        BY <3>1, <3>3, SettledFacts
      <4>. QED  BY <3>1, <3>2, <4>1, NoneAssumption DEF IInv, EveryPromiseHasAKeeper
    <3>. QED  BY <3>2, <3>3 DEF EveryPromiseHasAKeeper
  <2>. QED  BY <2>3, <2>4
<1>12. ASSUME NEW s \in Slot, RenderTimeout(s) PROVE Books' /\ EveryPromiseHasAKeeper'
  BY <1>0, <1>12, FailureKeeps DEF RenderTimeout, TypeOK
<1>13. ASSUME NEW s \in Slot, ErrorEvent(s) PROVE Books' /\ EveryPromiseHasAKeeper'
  <2> DEFINE w == [wk EXCEPT ![s] = Noticed(@)]
  <2>1. Noticed(wk[s]) \in Workers
    BY <1>0, <1>13, UpdateTypes DEF ErrorEvent
  <2>2. /\ w \in [Slot -> Workers]
        /\ w[s].cur = wk[s].cur /\ w[s].thread = wk[s].thread
        /\ \A t \in Slot \ {s} : w[t] = wk[t]
    BY <1>0, <2>1, UpdateFacts DEF TypeOK
  <2>3. Failure(w, s)
    BY <1>13 DEF ErrorEvent
  <2>. HIDE DEF w
  <2>. QED  BY <2>2, <2>3, FailureKeeps
<1>14. ASSUME NEW s \in Slot, ExitEvent(s) PROVE Books' /\ EveryPromiseHasAKeeper'
  <2> DEFINE w == [wk EXCEPT ![s] = Noticed(@)]
  <2>1. Noticed(wk[s]) \in Workers
    BY <1>0, <1>14, UpdateTypes DEF ExitEvent
  <2>2. /\ w \in [Slot -> Workers]
        /\ w[s].cur = wk[s].cur /\ w[s].busy = wk[s].busy /\ w[s].thread = wk[s].thread
        /\ \A t \in Slot \ {s} : w[t] = wk[t]
    BY <1>0, <2>1, UpdateFacts DEF TypeOK
  <2>3. CASE wk[s].stopping \/ shuttingDown
    <3>1. wk' = w /\ pool' = pool /\ promise' = promise /\ timer' = timer
      BY <1>14, <2>3 DEF ExitEvent, callers
    <3>. HIDE DEF w
    <3>. QED  BY <1>0, <2>2, <3>1, QuietKeeps DEF Books
  <2>4. CASE ~(wk[s].stopping \/ shuttingDown)
    <3>1. Failure(w, s)
      BY <1>14, <2>4 DEF ExitEvent
    <3>. HIDE DEF w
    <3>. QED  BY <2>2, <3>1, FailureKeeps
  <2>. QED  BY <2>3, <2>4
<1>15. ASSUME NEW s \in Slot, Terminated(s) PROVE Books' /\ EveryPromiseHasAKeeper'
  <2>1. /\ wk'[s].cur = wk[s].cur /\ wk'[s].busy = wk[s].busy /\ wk'[s].thread = "dead"
        /\ \A t \in Slot \ {s} : wk'[t] = wk[t]
    <3>1. Stopped(wk[s]) \in Workers
      BY <1>0, UpdateTypes
    <3>2. /\ wk'[s] = [Stopped(wk[s]) EXCEPT !.after = "nothing"]
          /\ \A t \in Slot \ {s} : wk'[t] = wk[t]
      BY <1>0, <1>15 DEF Terminated, TypeOK
    <3>3. ASSUME NEW w \in Workers
          PROVE  LET v == [w EXCEPT !.after = "nothing"]
                 IN  v.cur = w.cur /\ v.busy = w.busy /\ v.thread = w.thread
      BY DEF Workers
    <3>. QED  BY <1>0, <3>1, <3>2, <3>3, UpdateFacts
  <2>. QED  BY <1>0, <1>15, <2>1, QuietKeeps DEF Terminated, callers, Books
<1>16. ASSUME NEW s \in Slot, Collect(s) PROVE Books' /\ EveryPromiseHasAKeeper'
  <2>1. /\ wk'[s] = NoWorker /\ wk[s].cur = NONE /\ s \notin pool /\ pool' = pool
        /\ \A t \in Slot \ {s} : wk'[t] = wk[t]
    BY <1>0, <1>16 DEF Collect, TypeOK
  <2>. QED  BY <1>0, <1>16, <2>1, FreshFacts, QuietKeeps DEF Collect, callers, Books
<1>17. ASSUME NEW s \in Slot, ClosedThread(s) PROVE Books' /\ EveryPromiseHasAKeeper'
  <2>1. /\ wk'[s].cur = wk[s].cur /\ wk'[s].busy = wk[s].busy /\ wk'[s].thread = "dead"
        /\ \A t \in Slot \ {s} : wk'[t] = wk[t]
    BY <1>0, <1>17, UpdateFacts DEF ClosedThread, TypeOK
  <2>. QED  BY <1>0, <1>17, <2>1, QuietKeeps DEF ClosedThread, callers, Books
<1>18. ASSUME NEW c \in Closers, ShutdownBegin(c) PROVE Books' /\ EveryPromiseHasAKeeper'
  <2>1. /\ \A s \in pool : wk'[s].cur = NONE /\ ~wk'[s].busy /\ wk'[s].thread = wk[s].thread
        /\ \A s \in Slot \ pool : wk'[s] = wk[s]
        /\ pool' = pool /\ pool \subseteq Slot
    <3>1. ASSUME NEW w \in Workers, NEW busy
          PROVE  LET v == [w EXCEPT !.stopping = TRUE, !.cur = NONE, !.busy = busy]
                 IN  v.cur = NONE /\ v.busy = busy /\ v.thread = w.thread
      BY DEF Workers
    <3>2. ASSUME NEW s \in pool
          PROVE  wk'[s] = [wk[s] EXCEPT !.stopping = TRUE, !.cur = NONE,
                                        !.busy = @ /\ wk[s].cur = NONE]
      BY <1>0, <1>18 DEF ShutdownBegin, TypeOK
    <3>3. \A s \in pool : (wk[s].busy /\ wk[s].cur = NONE) = FALSE
      BY <1>0 DEF Books, TypeOK
    <3>4. ASSUME NEW s \in pool
          PROVE  wk'[s].cur = NONE /\ ~wk'[s].busy /\ wk'[s].thread = wk[s].thread
      <4>1. wk[s] \in Workers
        BY <1>0 DEF TypeOK
      <4> DEFINE busy == wk[s].busy /\ wk[s].cur = NONE
      <4>2. wk'[s] = [wk[s] EXCEPT !.stopping = TRUE, !.cur = NONE, !.busy = busy]
        BY <3>2, <4>1 DEF Workers
      <4>3. ~busy
        BY <3>3
      <4>. HIDE DEF busy
      <4>. QED  BY <3>1, <4>1, <4>2, <4>3
    <3>. QED  BY <1>0, <1>18, <3>4 DEF ShutdownBegin, TypeOK
  <2>2. Books'
    BY <1>0, <2>1 DEF Books
  <2>3. ASSUME NEW r \in Request, promise'[r] = "pending"
        PROVE  r \in timer' \/ \E t \in Slot : wk'[t].cur = r
    <3>1. promise[r] = "pending" /\ r \notin ShutdownRejects
      BY <1>18, <2>3, SettledFacts DEF ShutdownBegin
    <3>2. r \notin Drained(q) /\ \A s \in pool : wk[s].cur # r
      BY <3>1 DEF ShutdownRejects
    <3>3. timer' = timer \ Drained(q)
      BY <1>18 DEF ShutdownBegin
    <3>. QED  BY <2>1, <3>1, <3>2, <3>3 DEF IInv, EveryPromiseHasAKeeper
  <2>. QED  BY <2>2, <2>3 DEF EveryPromiseHasAKeeper
<1>19. ASSUME NEW c \in Closers, ShutdownEnd(c) PROVE Books' /\ EveryPromiseHasAKeeper'
  BY <1>0, <1>19, QuietKeeps DEF ShutdownEnd, callers, Books
<1>20. CASE UNCHANGED vars
  BY <1>0, <1>20, QuietKeeps DEF vars, Books
<1>. QED
  BY <1>1, <1>2, <1>3, <1>4, <1>5, <1>6, <1>7, <1>8, <1>9, <1>10, <1>11, <1>12,
     <1>13, <1>14, <1>15, <1>16, <1>17, <1>18, <1>19, <1>20 DEF Next, ThreadStep

(* No render call is forgotten: whatever the order of dispatches, answers, *)
(* crashes, exits, timeouts, recyclings, failed spawns and shutdowns, a    *)
(* promise that is not settled has an armed timer or a worker behind it.   *)
THEOREM NoPromiseForgotten == Spec => []EveryPromiseHasAKeeper
<1>1. IInv => EveryPromiseHasAKeeper
  BY DEF IInv
<1>. QED  BY <1>1, InvInit, InvStep, PTL DEF Spec

----------------------------------------------------------------------------
(* The pool keeps its size.  Recycle swaps one worker for another: the old *)
(* one was in the array, and the new one's slot was free and so was not.   *)
LEMMA PoolIsFinite == ASSUME TypeOK, NEW S \in SUBSET Slot PROVE IsFiniteSet(S)
BY PoolAssumption, FS_Subset

LEMMA RecycleKeepsSize ==
  ASSUME TypeOK, Books, NEW w, NEW s \in Slot, NEW who,
         Recyclable(s), Recycle(w, s, who)
  PROVE  Cardinality(pool') = Cardinality(pool)
<1>1. CASE pool' = pool
  BY <1>1
<1>2. ASSUME NEW n \in Free, pool' = (pool \cup {n}) \ {s}
      PROVE  Cardinality(pool') = Cardinality(pool)
  <2>1. n \in Slot /\ n \notin pool /\ s \in pool /\ pool \in SUBSET Slot
    BY <1>2 DEF Free, Books, Recyclable, TypeOK
  <2>2. IsFiniteSet(pool) /\ IsFiniteSet(pool \cup {n})
    BY <2>1, PoolIsFinite
  <2>3. Cardinality(pool \cup {n}) = Cardinality(pool) + 1
    BY <2>1, <2>2, FS_AddElement
  <2>4. Cardinality(pool') = Cardinality(pool \cup {n}) - 1
    BY <1>2, <2>1, <2>2, FS_RemoveElement
  <2>. QED  BY <2>2, <2>3, <2>4, FS_CardinalityType
<1>. QED  BY <1>1, <1>2 DEF Recycle

(* Spawning WorkerCount workers makes the pool large enough; fewer do not  *)
(* make it smaller.                                                        *)
LEMMA SpawnSize ==
  ASSUME TypeOK, NEW S, SpawnAll(S)
  PROVE  /\ Cardinality(pool') >= Cardinality(pool)
         /\ Cardinality(S) = WorkerCount => Cardinality(pool') >= WorkerCount
<1>1. /\ S \in SUBSET Slot /\ pool' \in SUBSET Slot
      /\ S \subseteq pool' /\ pool \subseteq pool'
  BY DEF SpawnAll, Free, TypeOK
<1>2. IsFiniteSet(pool')
  BY <1>1, PoolIsFinite
<1>3. Cardinality(S) <= Cardinality(pool') /\ Cardinality(pool) <= Cardinality(pool')
  BY <1>1, <1>2, FS_Subset
<1>4. Cardinality(S) \in Nat /\ Cardinality(pool) \in Nat /\ Cardinality(pool') \in Nat
  BY <1>1, <1>2, FS_Subset, FS_CardinalityType
<1>. QED  BY <1>3, <1>4, PoolAssumption

LEMMA FailureSize ==
  ASSUME IInv, PoolKeepsItsSize, NEW w, NEW s \in Slot, Failure(w, s)
  PROVE  PoolKeepsItsSize'
<1>1. initialized' = initialized /\ shuttingDown' = shuttingDown
  BY DEF Failure, life
<1>2. Cardinality(pool') = Cardinality(pool)
  <2>1. CASE Recyclable(s)
    BY <2>1, RecycleKeepsSize DEF Failure, IInv
  <2>2. CASE ~Recyclable(s)
    BY <2>2 DEF Failure
  <2>. QED  BY <2>1, <2>2
<1>. QED  BY <1>1, <1>2 DEF PoolKeepsItsSize

LEMMA SizeStep == IInv /\ PoolKeepsItsSize /\ [Next]_vars => PoolKeepsItsSize'
<1> SUFFICES ASSUME IInv, PoolKeepsItsSize, [Next]_vars PROVE PoolKeepsItsSize'
  OBVIOUS
<1>0. TypeOK /\ Books
  BY DEF IInv
<1>1. ASSUME pool' = pool, initialized' = initialized, shuttingDown' = shuttingDown
      PROVE  PoolKeepsItsSize'
  BY <1>1 DEF PoolKeepsItsSize
<1>2. ASSUME NEW r \in Request, Render(r) \/ RenderCold(r) \/ QueueTimeout(r)
      PROVE  PoolKeepsItsSize'
  BY <1>1, <1>2 DEF Render, RenderCold, QueueTimeout, workers, life
<1>3. ASSUME NEW r \in Request, InitializeDone(r) PROVE PoolKeepsItsSize'
  BY <1>0, <1>3, SpawnSize DEF InitializeDone, PoolKeepsItsSize
<1>4. ASSUME NEW r \in Request, InitializeThrows(r) PROVE PoolKeepsItsSize'
  <2>1. initialized' = initialized /\ shuttingDown' = shuttingDown
    BY <1>4 DEF InitializeThrows, life
  <2>2. Cardinality(pool') >= Cardinality(pool)
    BY <1>0, <1>4, SpawnSize DEF InitializeThrows
  <2>3. Cardinality(pool) \in Nat /\ Cardinality(pool') \in Nat
    BY <1>0, TypeStep, PoolIsFinite, FS_CardinalityType DEF IInv, TypeOK
  <2>. QED  BY <2>1, <2>2, <2>3, PoolAssumption DEF PoolKeepsItsSize
<1>5. ASSUME BackgroundInitialize PROVE PoolKeepsItsSize'
  <2>1. PICK S : /\ SpawnAll(S)
                 /\ \/ Cardinality(S) = WorkerCount /\ initialized' = TRUE
                    \/ UNCHANGED initialized
    BY <1>5 DEF BackgroundInitialize
  <2>2. shuttingDown' = shuttingDown
    BY <1>5 DEF BackgroundInitialize
  <2>3. /\ Cardinality(pool') >= Cardinality(pool)
        /\ Cardinality(S) = WorkerCount => Cardinality(pool') >= WorkerCount
    BY <1>0, <2>1, SpawnSize
  <2>4. Cardinality(pool) \in Nat /\ Cardinality(pool') \in Nat
    BY <1>0, TypeStep, PoolIsFinite, FS_CardinalityType DEF IInv, TypeOK
  <2>5. CASE Cardinality(S) = WorkerCount
    BY <2>3, <2>5 DEF PoolKeepsItsSize
  <2>6. CASE initialized' = initialized
    <3>1. ASSUME Cardinality(pool) >= WorkerCount PROVE Cardinality(pool') >= WorkerCount
      BY <2>3, <2>4, <3>1, PoolAssumption
    <3>. QED  BY <2>2, <2>6, <3>1 DEF PoolKeepsItsSize
  <2>. QED  BY <2>1, <2>5, <2>6
<1>6. CASE DispatchOne \/ DispatchEnd \/ DispatchImmediate
  BY <1>1, <1>6 DEF DispatchOne, DispatchEnd, DispatchImmediate, workers, life
<1>7. ASSUME NEW s \in Slot, ThreadStops(s) \/ Terminated(s) \/ Collect(s) \/ ClosedThread(s)
      PROVE  PoolKeepsItsSize'
  BY <1>1, <1>7 DEF ThreadStops, Terminated, Collect, ClosedThread, life
<1>8. ASSUME NEW s \in Slot, NEW how, Answer(s, how) PROVE PoolKeepsItsSize'
  <2>1. /\ initialized' = initialized /\ shuttingDown' = shuttingDown
        /\ \/ pool' = pool
           \/ Recyclable(s) /\ \E w : Recycle(w, s, "recycle")
    BY <1>8 DEF Answer, life
  <2>. QED  BY <1>0, <1>1, <2>1, RecycleKeepsSize DEF PoolKeepsItsSize
<1>9. ASSUME NEW s \in Slot, RenderTimeout(s) \/ ErrorEvent(s) \/ ExitEvent(s)
      PROVE  PoolKeepsItsSize'
  <2>1. CASE \E w : Failure(w, s)
    BY <2>1, FailureSize
  <2>2. CASE UNCHANGED <<pool, life>>
    BY <1>1, <2>2 DEF life
  <2>. QED  BY <1>9, <2>1, <2>2 DEF RenderTimeout, ErrorEvent, ExitEvent
<1>10. ASSUME NEW c \in Closers, ShutdownBegin(c) \/ ShutdownEnd(c)
       PROVE  PoolKeepsItsSize'
  BY <1>10 DEF ShutdownBegin, ShutdownEnd, PoolKeepsItsSize
<1>11. CASE UNCHANGED vars
  BY <1>1, <1>11 DEF vars, life, workers
<1>. QED
  BY <1>2, <1>3, <1>4, <1>5, <1>6, <1>7, <1>8, <1>9, <1>10, <1>11 DEF Next, ThreadStep

(* A pool that is up has at least the configured number of workers,        *)
(* whatever crashes, is recycled or fails to be replaced.                  *)
THEOREM PoolNeverShrinks == Spec => []PoolKeepsItsSize
<1>1. Init => PoolKeepsItsSize
  BY DEF Init, PoolKeepsItsSize
<1>. QED  BY <1>1, InvInit, InvStep, SizeStep, PTL DEF Spec

----------------------------------------------------------------------------
(* A request is handed out once, although remove may leave the queue's     *)
(* counters, heads and tails wrong: a head only moves to requests that     *)
(* were pushed later, and so never comes back to one that was handed out.  *)
(* ord dates the pushes, n the latest of them.                             *)
BandOf == [r \in Request |-> Priority(r)]

Has(s, r) == \E i \in DOMAIN wk[s].jobs : wk[s].jobs[i] = r
Given(r) == answer[r] # NONE \/ \E s \in Slot : wk[s].cur = r \/ Has(s, r)

InOrder(ord, n) ==
  /\ \A x \in Request : ord[x] <= n
  /\ Ordered(q.h, BandOf, ord)
  /\ \A x \in Request : LET b == BandOf[x]
                        IN  q.h.head[b] # NONE /\ Given(x) => ord[x] < ord[q.h.head[b]]

PushedInOrder == \E ord \in [Request -> Nat], n \in Nat : InOrder(ord, n)

(* Nothing refers to a request before render has admitted it.              *)
NewAreUnknown ==
  \A r \in Request : promise[r] \in {"new", "initializing"} => ~Given(r) /\ Unseen(q.h, r)

(* A request is current on one worker, one job of one thread, and no job   *)
(* once it is answered.                                                    *)
Hands ==
  /\ \A s, t \in Slot : wk[s].cur = wk[t].cur /\ wk[s].cur # NONE => s = t
  /\ \A s, t \in Slot : \A i \in DOMAIN wk[s].jobs, j \in DOMAIN wk[t].jobs :
       wk[s].jobs[i] = wk[t].jobs[j] => s = t /\ i = j
  /\ \A r \in Request : answer[r] # NONE =>
       answer[r] = r /\ \A s \in Slot : ~Has(s, r)

HandInv == PushedInOrder /\ NewAreUnknown /\ Hands

(* v has no work but that of w.                                            *)
Less(w, v) ==
  /\ v.cur \in {w.cur, NONE}
  /\ \/ v.jobs \in {w.jobs, <<>>}
     \/ w.jobs # <<>> /\ v.jobs = Tail(w.jobs)

LEMMA LessWork ==
  /\ \A w \in Workers : Less(w, w) /\ Less(w, FreshWorker) /\ Less(w, NoWorker) /\ Less(w, Stopped(w))
  /\ \A w \in Workers : w.jobs # <<>> => Less(w, Heard(w)) /\ Heard(w).jobs = Tail(w.jobs)
  /\ \A w, v \in Workers : Less(w, v) =>
       /\ Less(w, Idled(v)) /\ Less(w, Noticed(v)) /\ \A who : Less(w, Retired(v, who))
  /\ \A w \in Workers : /\ Idled(w).jobs = w.jobs
                        /\ \A who : Retired(w, who).jobs = w.jobs
BY DEF Less, FreshWorker, NoWorker, Stopped, Heard, Idled, Noticed, Retired, Workers

(* What less work means for the jobs: each is one there was.               *)
LEMMA LessJobs ==
  ASSUME NEW w \in Workers, NEW v \in Workers, Less(w, v)
  PROVE  \E d \in {0, 1} : \A i \in DOMAIN v.jobs :
           i + d \in DOMAIN w.jobs /\ v.jobs[i] = w.jobs[i + d]
<1>1. w.jobs \in Seq(Request) /\ v.jobs \in Seq(Request)
  BY DEF Workers
<1>2. CASE v.jobs = w.jobs
  <2>1. \A i \in DOMAIN v.jobs : i + 0 = i
    BY <1>1
  <2>. QED  BY <1>2, <2>1
<1>3. CASE v.jobs = <<>>
  BY <1>3
<1>4. CASE w.jobs # <<>> /\ v.jobs = Tail(w.jobs)
  <2>1. \A i \in DOMAIN v.jobs : i + 1 \in DOMAIN w.jobs /\ v.jobs[i] = w.jobs[i + 1]
    BY <1>1, <1>4
  <2>. QED  BY <2>1
<1>. QED  BY <1>2, <1>3, <1>4 DEF Less

LEMMA LessForAll ==
  ASSUME TypeOK, TypeOK', Hands, \A s \in Slot : Less(wk[s], wk'[s])
  PROVE  /\ \A s \in Slot : \A r : Has(s, r)' => Has(s, r)
         /\ \A s, t \in Slot : wk'[s].cur = wk'[t].cur /\ wk'[s].cur # NONE => s = t
         /\ \A s, t \in Slot : \A i \in DOMAIN wk'[s].jobs, j \in DOMAIN wk'[t].jobs :
              wk'[s].jobs[i] = wk'[t].jobs[j] => s = t /\ i = j
<1>0. \A s \in Slot : wk[s] \in Workers /\ wk'[s] \in Workers
  BY DEF TypeOK
<1>1. \A s \in Slot : \E d \in {0, 1} : \A i \in DOMAIN wk'[s].jobs :
        i + d \in DOMAIN wk[s].jobs /\ wk'[s].jobs[i] = wk[s].jobs[i + d]
  BY <1>0, LessJobs
<1>2. \A s \in Slot : \A r : Has(s, r)' => Has(s, r)
  BY <1>1 DEF Has
<1>3. \A s, t \in Slot : wk'[s].cur = wk'[t].cur /\ wk'[s].cur # NONE => s = t
  BY DEF Less, Hands
<1>4. ASSUME NEW s \in Slot, NEW t \in Slot, NEW i \in DOMAIN wk'[s].jobs, NEW j \in DOMAIN wk'[t].jobs,
             wk'[s].jobs[i] = wk'[t].jobs[j]
      PROVE  s = t /\ i = j
  <2>1. PICK d \in {0, 1} : \A k \in DOMAIN wk'[s].jobs :
          k + d \in DOMAIN wk[s].jobs /\ wk'[s].jobs[k] = wk[s].jobs[k + d]
    BY <1>1
  <2>2. PICK e \in {0, 1} : \A k \in DOMAIN wk'[t].jobs :
          k + e \in DOMAIN wk[t].jobs /\ wk'[t].jobs[k] = wk[t].jobs[k + e]
    BY <1>1
  <2>3. s = t /\ i + d = j + e
    BY <1>4, <2>1, <2>2 DEF Hands
  <2>4. i \in Int /\ j \in Int /\ i + e \in DOMAIN wk[s].jobs /\ j + d \in Int
    BY <1>0, <2>2, <2>3 DEF Workers
  <2>5. CASE d = e
    BY <2>3, <2>4, <2>5
  <2>6. CASE d # e
    (* Then wk[s] had the job twice, at i + d and at j + d. *)
    <3>1. /\ wk[s].jobs[i + d] = wk'[s].jobs[i] /\ i + d \in DOMAIN wk[s].jobs
          /\ wk[s].jobs[j + d] = wk'[s].jobs[j] /\ j + d \in DOMAIN wk[s].jobs
      BY <2>1, <2>3
    <3>2. i + d = j + d
      BY <3>1, <1>4, <2>3 DEF Hands
    <3>. QED  BY <2>3, <2>4, <3>2
  <2>. QED  BY <2>5, <2>6
<1>. QED  BY <1>2, <1>3, <1>4

LEMMA BandsOf == BandOf \in [Request -> Band] /\ \A r \in Request : BandOf[r] = Priority(r)
BY BandAssumption DEF BandOf, Priority, High, Normal

(* What was dated stays dated while heads only advance and nothing new is  *)
(* handed out.                                                             *)
LEMMA OrderKept ==
  ASSUME TypeOK, NEW ord \in [Request -> Nat], NEW n \in Nat, InOrder(ord, n),
         q'.h \in Heap, Ordered(q'.h, BandOf, ord), HeadsAdvance(q.h, q'.h, ord),
         \A r \in Request : Given(r)' => Given(r)
  PROVE  PushedInOrder'
<1>1. ASSUME NEW x \in Request, q'.h.head[BandOf[x]] # NONE, Given(x)'
      PROVE  ord[x] < ord[q'.h.head[BandOf[x]]]
  <2> DEFINE b == BandOf[x]
  <2>1. b \in Band
    BY BandsOf
  <2>2. /\ q.h.head[b] # NONE /\ ord[q.h.head[b]] <= ord[q'.h.head[b]]
        /\ ord[x] < ord[q.h.head[b]]
    BY <1>1, <2>1 DEF HeadsAdvance, InOrder
  <2>3. ord[x] \in Nat /\ ord[q.h.head[b]] \in Nat /\ ord[q'.h.head[b]] \in Nat
    BY <1>1, <2>1, <2>2 DEF TypeOK, PriorityQueues, Heap, Pointer
  <2>. QED  BY <2>2, <2>3
<1>2. BandOf' = BandOf
  BY DEF BandOf, Priority
<1>3. InOrder(ord, n)'
  BY <1>1, <1>2 DEF InOrder
<1>. QED  BY <1>3 DEF PushedInOrder

(* Steps that hand nothing out and admit nobody.                           *)
LEMMA QuietHands ==
  ASSUME TypeOK, TypeOK', HandInv,
         \A s \in Slot : Less(wk[s], wk'[s]), answer' = answer,
         q' = q \/ q' = DrainQueue(q) \/ (\E r \in Request : q' = Remove(q, r)),
         \A r \in Request : promise'[r] \in {"new", "initializing"} =>
                              promise[r] \in {"new", "initializing"}
  PROVE  HandInv'
<1>1. ASSUME NEW r \in Request PROVE Given(r)' => Given(r)
  BY LessForAll, NoneAssumption DEF Given, HandInv, Less
<1>2. Hands'
  <2>1. ASSUME NEW r \in Request, answer'[r] # NONE
        PROVE  answer'[r] = r /\ \A s \in Slot : ~Has(s, r)'
    BY <2>1, LessForAll DEF HandInv, Hands
  <2>. QED  BY <2>1, LessForAll DEF Hands, HandInv
<1>3. NewAreUnknown'
  <2> SUFFICES ASSUME NEW r \in Request, promise'[r] \in {"new", "initializing"}
               PROVE  ~Given(r)' /\ Unseen(q'.h, r)
    BY DEF NewAreUnknown
  <2>1. ~Given(r) /\ Unseen(q.h, r)
    BY DEF HandInv, NewAreUnknown
  <2>2. Unseen(q'.h, r)
    BY <2>1, UnseenStays DEF TypeOK
  <2>. QED  BY <1>1, <2>1, <2>2
<1>4. PushedInOrder'
  <2>1. PICK ord \in [Request -> Nat], n \in Nat : InOrder(ord, n)
    BY DEF HandInv, PushedInOrder
  <2>2. q.h \in Heap /\ q'.h \in Heap /\ Ordered(q.h, BandOf, ord)
    BY <2>1 DEF TypeOK, PriorityQueues, InOrder
  <2>3. Ordered(q'.h, BandOf, ord) /\ HeadsAdvance(q.h, q'.h, ord)
    <3>1. CASE q' = q
      <4>1. \A b \in Band : q.h.head[b] # NONE => ord[q.h.head[b]] \in Nat
        BY <2>2 DEF Heap, Pointer
      <4>. QED  BY <2>2, <3>1, <4>1 DEF HeadsAdvance
    <3>2. CASE q' = DrainQueue(q)
      BY <2>2, <3>2, BandsOf, DrainOrdered DEF TypeOK
    <3>3. ASSUME NEW r \in Request, q' = Remove(q, r)
          PROVE  Ordered(q'.h, BandOf, ord) /\ HeadsAdvance(q.h, q'.h, ord)
      BY <2>2, <3>3, BandsOf, RemoveOrdered DEF TypeOK
    <3>. QED  BY <3>1, <3>2, <3>3
  <2>. QED  BY <1>1, <2>1, <2>2, <2>3, OrderKept
<1>. QED  BY <1>2, <1>3, <1>4 DEF HandInv

(* render admits a request, or refuses it, and hands nothing out.          *)
LEMMA ProceedHands ==
  ASSUME TypeOK, TypeOK', HandInv, NEW r \in Request, promise[r] \in {"new", "initializing"},
         NEW busy, Proceed(r, busy),
         \A s \in Slot : Less(wk[s], wk'[s]), answer' = answer
  PROVE  HandInv'
<1>1. CASE q' = q /\ promise' = [promise EXCEPT ![r] = "rejected"]
  <2>1. \A x \in Request : promise'[x] \in {"new", "initializing"} =>
                             promise[x] \in {"new", "initializing"}
    BY <1>1 DEF TypeOK
  <2>. QED  BY <1>1, <2>1, QuietHands
<1>2. CASE promise' = [promise EXCEPT ![r] = "pending"] /\ q' = Enqueue(q, r, Priority(r))
  <2>0. ~Given(r) /\ Unseen(q.h, r)
    BY DEF HandInv, NewAreUnknown
  <2>1. ASSUME NEW x \in Request PROVE Given(x)' => Given(x)
    BY LessForAll, NoneAssumption DEF Given, HandInv, Less
  <2>2. Hands'
    <3>1. ASSUME NEW x \in Request, answer'[x] # NONE
          PROVE  answer'[x] = x /\ \A s \in Slot : ~Has(s, x)'
      BY <3>1, LessForAll DEF HandInv, Hands
    <3>. QED  BY <3>1, LessForAll DEF Hands, HandInv
  <2>3. BandOf \in [Request -> Band] /\ Priority(r) = BandOf[r] /\ BandOf[r] \in Band
    BY BandsOf
  <2>4. NewAreUnknown'
    <3> SUFFICES ASSUME NEW x \in Request, promise'[x] \in {"new", "initializing"}
                 PROVE  ~Given(x)' /\ Unseen(q'.h, x)
      BY DEF NewAreUnknown
    <3>1. x # r /\ promise[x] \in {"new", "initializing"}
      BY <1>2 DEF TypeOK
    <3>2. ~Given(x) /\ Unseen(q.h, x)
      BY <3>1 DEF HandInv, NewAreUnknown
    <3>3. Unseen(q'.h, x)
      BY <1>2, <2>3, <3>1, <3>2, UnseenStays DEF TypeOK
    <3>. QED  BY <2>1, <3>2, <3>3
  <2>5. PICK ord \in [Request -> Nat], n \in Nat : InOrder(ord, n)
    BY DEF HandInv, PushedInOrder
  <2> DEFINE new == [ord EXCEPT ![r] = n + 1]
  <2>6. /\ q.h \in Heap /\ q'.h = Push(q.h, BandOf[r], r) /\ q'.h \in Heap
        /\ Ordered(q.h, BandOf, ord) /\ \A x \in Request : ord[x] <= n
    BY <1>2, <2>3, <2>5 DEF TypeOK, PriorityQueues, InOrder, Enqueue
  <2>7. /\ new \in [Request -> Nat] /\ \A x \in Request : new[x] <= n + 1
        /\ Ordered(q'.h, BandOf, new)
    <3>1. /\ new \in [Request -> Nat] /\ \A x \in Request : new[x] <= n + 1
          /\ Ordered(Push(q.h, BandOf[r], r), BandOf, new)
      BY <2>0, <2>3, <2>6, PushOrdered
    <3>. QED  BY <2>6, <3>1
  <2>8. /\ new[r] = n + 1 /\ \A x \in Request \ {r} : new[x] = ord[x]
        /\ \A x \in Request : ord[x] \in Nat /\ ord[x] <= n
    BY <2>6
  <2> HIDE DEF new
  <2>9. ASSUME NEW x \in Request, q'.h.head[BandOf[x]] # NONE, Given(x)'
        PROVE  new[x] < new[q'.h.head[BandOf[x]]]
    <3> DEFINE b == BandOf[x]
    <3>0. b \in Band /\ x # r /\ Given(x)
      BY <2>0, <2>1, <2>3, <2>9
    <3>1. CASE q'.h.head[b] = r
      BY <2>8, <3>0, <3>1
    <3>2. CASE q'.h.head[b] # r
      <4>1. q'.h.head[b] = q.h.head[b] /\ q.h.head[b] \in Request \ {r} /\ q.h.head[b] # NONE
        BY <2>3, <2>6, <2>9, <3>0, <3>2 DEF Push, Heap, Pointer
      <4>2. ord[x] < ord[q.h.head[b]]
        BY <2>5, <3>0, <4>1 DEF InOrder
      <4>. QED  BY <2>8, <3>0, <4>1, <4>2
    <3>. QED  BY <3>1, <3>2
  <2>10. BandOf' = BandOf
    BY DEF BandOf, Priority
  <2>11. InOrder(new, n + 1)'
    BY <2>7, <2>9, <2>10 DEF InOrder
  <2>12. PushedInOrder'
    BY <2>7, <2>11 DEF PushedInOrder
  <2>. QED  BY <2>2, <2>4, <2>12 DEF HandInv
<1>. QED  BY <1>1, <1>2 DEF Proceed

LEMMA SpawnLess ==
  ASSUME TypeOK, NEW S, SpawnAll(S)
  PROVE  \A s \in Slot : Less(wk[s], wk'[s])
BY LessWork DEF SpawnAll, TypeOK

LEMMA RecycleLess ==
  ASSUME TypeOK, NEW w \in [Slot -> Workers], NEW s \in Slot, NEW who,
         Recycle(w, s, who), \A t \in Slot : Less(wk[t], w[t])
  PROVE  \A t \in Slot : Less(wk[t], wk'[t])
<1>1. \A t \in Slot : wk[t] \in Workers /\ w[t] \in Workers
  BY DEF TypeOK
<1>2. ASSUME NEW n \in Free, wk' = Replaced(w, s, n, who), NEW t \in Slot
      PROVE  Less(wk[t], wk'[t])
  <2>1. wk'[t] \in {w[t], Retired(w[t], who), FreshWorker}
    BY <1>2 DEF Replaced, Free
  <2>. QED  BY <1>1, <2>1, LessWork
<1>. QED  BY <1>2 DEF Recycle

LEMMA FailureLess ==
  ASSUME TypeOK, NEW w \in [Slot -> Workers], NEW s \in Slot, Failure(w, s),
         \A t \in Slot : Less(wk[t], w[t])
  PROVE  /\ \A t \in Slot : Less(wk[t], wk'[t])
         /\ q' = q /\ answer' = answer
         /\ \A r \in Request : promise'[r] \in {"new", "initializing"} =>
                                 promise[r] \in {"new", "initializing"}
<1> DEFINE freed == [w EXCEPT ![s] = Idled(@)]
<1>1. freed \in [Slot -> Workers]
  BY UpdateTypes
<1>2. \A t \in Slot : Less(wk[t], freed[t])
  BY LessWork DEF TypeOK
<1>3. Recycle(freed, s, "failure") \/ wk' = freed
  BY DEF Failure
<1> HIDE DEF freed
<1>4. \A t \in Slot : Less(wk[t], wk'[t])
  BY <1>1, <1>2, <1>3, RecycleLess
<1>5. /\ q' = q /\ answer' = answer
      /\ promise' = Settle(promise, FailureRejects(s), "rejected")
  BY DEF Failure
<1>. QED  BY <1>4, <1>5 DEF Settle

(* assignWork: the request leaves the queue for a worker without one.      *)
LEMMA DispatchHands ==
  ASSUME IInv, TypeOK', HandInv, DispatchOne
  PROVE  HandInv'
<1> DEFINE r == DequeueResult(q)
<1>0. TypeOK /\ Books /\ \A s \in Slot : wk[s] \in Workers
  BY DEF IInv, TypeOK
<1>1. PICK s \in Idle : wk' = [wk EXCEPT ![s] = Assign(@, r)]
  BY DEF DispatchOne
<1>2. s \in Slot /\ wk[s].cur = NONE
  BY <1>0 DEF Idle, Books, TypeOK
<1>3. /\ r # NONE /\ q' = Dequeue(q) /\ answer' = answer /\ promise' = promise
  BY DEF DispatchOne, CanDispatch
<1>4. PICK ord \in [Request -> Nat], n \in Nat : InOrder(ord, n)
  BY DEF HandInv, PushedInOrder
<1>5. /\ q.h \in Heap /\ q'.h \in Heap /\ BandOf \in [Request -> Band]
      /\ Ordered(q.h, BandOf, ord)
  BY <1>4, BandsOf DEF TypeOK, IInv, PriorityQueues, InOrder
<1>6. /\ Ordered(q'.h, BandOf, ord) /\ HeadsAdvance(q.h, q'.h, ord)
      /\ r \in Request /\ q.h.head[BandOf[r]] = r
      /\ \A b \in Band : q'.h.head[b] # NONE /\ BandOf[r] = b => ord[r] < ord[q'.h.head[b]]
  BY <1>0, <1>3, <1>5, DequeueOrdered DEF TypeOK
<1> HIDE DEF r
<1>7. ~Given(r)
  <2>1. ord[r] \in Nat
    BY <1>6
  <2>. QED  BY <1>3, <1>4, <1>6, <2>1 DEF InOrder
(* The worker's new jobs. *)
<1>8. /\ wk'[s].cur = r /\ wk'[s].jobs \in {wk[s].jobs, Append(wk[s].jobs, r)}
      /\ \A t \in Slot \ {s} : wk'[t] = wk[t]
  <2>1. wk'[s] = Assign(wk[s], r) /\ \A t \in Slot \ {s} : wk'[t] = wk[t]
    BY <1>0, <1>1, <1>2 DEF TypeOK
  <2>2. /\ Assign(wk[s], r).cur = r
        /\ Assign(wk[s], r).jobs \in {wk[s].jobs, Append(wk[s].jobs, r)}
    BY <1>0, <1>2 DEF Assign, Workers
  <2>. QED  BY <2>1, <2>2
<1>9. ASSUME NEW t \in Slot, NEW i \in DOMAIN wk'[t].jobs
      PROVE  \/ i \in DOMAIN wk[t].jobs /\ wk'[t].jobs[i] = wk[t].jobs[i]
             \/ t = s /\ i = Len(wk[s].jobs) + 1 /\ wk'[t].jobs[i] = r
  <2>1. wk[s].jobs \in Seq(Request)
    BY <1>0, <1>2 DEF Workers
  <2>2. CASE t # s
    BY <1>8, <2>2
  <2>3. CASE t = s /\ wk'[s].jobs = wk[s].jobs
    BY <2>3
  <2>4. CASE t = s /\ wk'[s].jobs = Append(wk[s].jobs, r)
    <3>1. i \in 1 .. Len(wk[s].jobs) + 1
      BY <1>6, <2>1, <2>4
    <3>. QED  BY <1>6, <2>1, <2>4, <3>1
  <2>. QED  BY <1>8, <2>2, <2>3, <2>4
<1>10. ASSUME NEW t \in Slot, NEW x, Has(t, x)' PROVE Has(t, x) \/ x = r
  BY <1>9, <1>10 DEF Has
<1>11. ASSUME NEW x \in Request, Given(x)' PROVE Given(x) \/ x = r
  <2>1. CASE answer'[x] # NONE
    BY <1>3, <2>1 DEF Given
  <2>2. ASSUME NEW t \in Slot, wk'[t].cur = x PROVE Given(x) \/ x = r
    BY <1>8, <2>2 DEF Given
  <2>3. ASSUME NEW t \in Slot, Has(t, x)' PROVE Given(x) \/ x = r
    BY <1>10, <2>3 DEF Given
  <2>. QED  BY <1>11, <2>1, <2>2, <2>3 DEF Given
<1>12. Hands'
  <2>1. ASSUME NEW t \in Slot, NEW u \in Slot, wk'[t].cur = wk'[u].cur, wk'[t].cur # NONE
        PROVE  t = u
    <3>1. \A v \in Slot : wk[v].cur # r
      BY <1>7 DEF Given
    <3>. QED  BY <1>8, <2>1, <3>1 DEF HandInv, Hands
  <2>2. ASSUME NEW t \in Slot, NEW u \in Slot, NEW i \in DOMAIN wk'[t].jobs,
               NEW j \in DOMAIN wk'[u].jobs, wk'[t].jobs[i] = wk'[u].jobs[j]
        PROVE  t = u /\ i = j
    <3>1. \A v \in Slot : \A k \in DOMAIN wk[v].jobs : wk[v].jobs[k] # r
      BY <1>7 DEF Given, Has
    <3>2. \/ i \in DOMAIN wk[t].jobs /\ wk'[t].jobs[i] = wk[t].jobs[i]
          \/ t = s /\ i = Len(wk[s].jobs) + 1 /\ wk'[t].jobs[i] = r
      BY <1>9
    <3>3. \/ j \in DOMAIN wk[u].jobs /\ wk'[u].jobs[j] = wk[u].jobs[j]
          \/ u = s /\ j = Len(wk[s].jobs) + 1 /\ wk'[u].jobs[j] = r
      BY <1>9
    <3>. QED  BY <2>2, <3>1, <3>2, <3>3 DEF HandInv, Hands
  <2>3. ASSUME NEW x \in Request, answer'[x] # NONE
        PROVE  answer'[x] = x /\ \A t \in Slot : ~Has(t, x)'
    <3>1. answer[x] # NONE /\ x # r
      BY <1>3, <1>7, <2>3 DEF Given
    <3>. QED  BY <1>3, <1>10, <3>1 DEF HandInv, Hands
  <2>. QED  BY <2>1, <2>2, <2>3 DEF Hands
<1>13. NewAreUnknown'
  <2> SUFFICES ASSUME NEW x \in Request, promise'[x] \in {"new", "initializing"}
               PROVE  ~Given(x)' /\ Unseen(q'.h, x)
    BY DEF NewAreUnknown
  <2>1. ~Given(x) /\ Unseen(q.h, x)
    BY <1>3 DEF HandInv, NewAreUnknown
  <2>2. Unseen(q'.h, x) /\ x # r
    BY <1>0, <1>3, <2>1, UnseenStays DEF TypeOK, r
  <2>. QED  BY <1>11, <2>1, <2>2
<1>14. PushedInOrder'
  <2>1. ASSUME NEW x \in Request, q'.h.head[BandOf[x]] # NONE, Given(x)'
        PROVE  ord[x] < ord[q'.h.head[BandOf[x]]]
    <3> DEFINE b == BandOf[x]
    <3>0. b \in Band
      BY BandsOf
    <3>1. CASE x = r
      BY <1>6, <2>1, <3>0, <3>1
    <3>2. CASE x # r
      <4>1. Given(x)
        BY <1>11, <2>1, <3>2
      <4>2. q.h.head[b] # NONE /\ ord[q.h.head[b]] <= ord[q'.h.head[b]]
        BY <1>6, <2>1, <3>0 DEF HeadsAdvance
      <4>3. ord[x] < ord[q.h.head[b]]
        BY <1>4, <4>1, <4>2 DEF InOrder
      <4>4. ord[x] \in Nat /\ ord[q.h.head[b]] \in Nat /\ ord[q'.h.head[b]] \in Nat
        BY <1>5, <2>1, <3>0, <4>2 DEF Heap, Pointer
      <4>. QED  BY <4>2, <4>3, <4>4
    <3>. QED  BY <3>1, <3>2
  <2>2. BandOf' = BandOf
    BY DEF BandOf, Priority
  <2>3. InOrder(ord, n)'
    BY <1>4, <1>6, <2>1, <2>2 DEF InOrder
  <2>. QED  BY <2>3 DEF PushedInOrder
<1>. QED  BY <1>12, <1>13, <1>14 DEF HandInv

(* The message handler: what it takes for the answer to its current        *)
(* request is one, and the thread has no second job for it.                *)
LEMMA AnswerHands ==
  ASSUME IInv, TypeOK', HandInv, NEW s \in Slot, NEW how \in {"resolved", "rejected"}, Answer(s, how)
  PROVE  HandInv'
<1> DEFINE freed == [wk EXCEPT ![s] = Idled(Heard(@))]
<1>0. TypeOK /\ \A t \in Slot : wk[t] \in Workers
  BY DEF IInv, TypeOK
<1>1. /\ wk[s].jobs # <<>> /\ wk[s].jobs \in Seq(Request) /\ wk[s] \in Workers
      /\ Heard(wk[s]) \in Workers /\ Idled(Heard(wk[s])) \in Workers
  BY <1>0, UpdateTypes DEF Answer, Workers
<1>a. PICK r \in Request : r = Head(wk[s].jobs)
  BY <1>1
<1>2. /\ q' = q
      /\ \A x \in Request : promise'[x] \in {"new", "initializing"} =>
                              promise[x] \in {"new", "initializing"}
  BY DEF Answer, Settle
<1>3. CASE ~IsCurrent(s, r)
  <2>1. wk' = [wk EXCEPT ![s] = Heard(@)] /\ answer' = answer
    BY <1>3, <1>a DEF Answer
  <2>2. \A t \in Slot : Less(wk[t], wk'[t])
    BY <1>0, <1>1, <2>1, LessWork DEF TypeOK
  <2>. QED  BY <1>0, <1>2, <2>1, <2>2, QuietHands
<1>4. CASE IsCurrent(s, r)
  <2>1. /\ answer' = [answer EXCEPT ![r] = r] /\ wk[s].cur = r
        /\ \/ Recycle(freed, s, "recycle") /\ s \in pool
           \/ wk' = freed
    BY <1>4, <1>a DEF Answer, IsCurrent, Recyclable
  <2>2. freed \in [Slot -> Workers] /\ \A t \in Slot : Less(wk[t], freed[t])
    BY <1>0, <1>1, LessWork DEF TypeOK
  <2>3. \A t \in Slot : Less(wk[t], wk'[t])
    <3> HIDE DEF freed
    <3>. QED  BY <1>0, <2>1, <2>2, RecycleLess
  <2>4. wk'[s].jobs = Tail(wk[s].jobs)
    <3>1. freed[s] = Idled(Heard(wk[s])) /\ freed[s].jobs = Tail(wk[s].jobs)
      BY <1>0, <1>1, LessWork DEF TypeOK
    <3>2. ASSUME NEW n \in Free, s \in pool, wk' = Replaced(freed, s, n, "recycle")
          PROVE  wk'[s].jobs = freed[s].jobs
      <4>1. n # s
        BY <3>2 DEF Free, IInv, Books, TypeOK
      <4>2. wk'[s] = Retired(freed[s], "recycle")
        BY <2>2, <3>2, <4>1 DEF Replaced, Free
      <4>. QED  BY <2>2, <4>2, LessWork
    <3> HIDE DEF freed
    <3>. QED  BY <2>1, <3>1, <3>2 DEF Recycle
  <2>5. r \in Request /\ r = wk[s].jobs[1] /\ 1 \in DOMAIN wk[s].jobs
    BY <1>1, <1>a
  <2>6. Has(s, r) /\ Given(r)
    BY <2>5 DEF Has, Given
  <2> HIDE DEF freed
  <2>7. ASSUME NEW t \in Slot PROVE ~Has(t, r)'
    <3>1. ASSUME t # s, Has(t, r)' PROVE FALSE
      <4>1. Has(t, r)
        BY <1>0, <2>3, <3>1, LessForAll DEF HandInv
      <4>. QED  BY <2>5, <3>1, <4>1 DEF Has, HandInv, Hands
    <3>2. ASSUME NEW i \in DOMAIN wk'[s].jobs, wk'[s].jobs[i] = r PROVE FALSE
      <4>1. i \in Nat \ {0} /\ i + 1 \in DOMAIN wk[s].jobs /\ wk[s].jobs[i + 1] = r
        BY <1>1, <2>4, <3>2
      <4>2. i + 1 = 1
        BY <2>5, <4>1 DEF HandInv, Hands
      <4>. QED  BY <4>1, <4>2
    <3>. QED  BY <3>1, <3>2 DEF Has
  <2>8. ASSUME NEW x \in Request PROVE Given(x)' => Given(x)
    <3>1. answer'[x] # NONE => answer[x] # NONE \/ x = r
      BY <2>1, <2>5, <1>0 DEF TypeOK
    <3>. QED  BY <1>0, <2>3, <2>6, <3>1, LessForAll, NoneAssumption DEF Given, HandInv, Less
  <2>9. Hands'
    <3>1. ASSUME NEW x \in Request, answer'[x] # NONE
          PROVE  answer'[x] = x /\ \A t \in Slot : ~Has(t, x)'
      <4>1. CASE x = r
        BY <1>0, <2>1, <2>7, <4>1 DEF TypeOK
      <4>2. CASE x # r
        <5>1. answer'[x] = answer[x]
          BY <1>0, <2>1, <2>5, <4>2 DEF TypeOK
        <5>. QED  BY <1>0, <2>3, <3>1, <5>1, LessForAll DEF HandInv, Hands
      <4>. QED  BY <4>1, <4>2
    <3>. QED  BY <1>0, <2>3, <3>1, LessForAll DEF Hands, HandInv
  <2>10. NewAreUnknown'
    BY <1>2, <2>8 DEF NewAreUnknown, HandInv
  <2>11. PushedInOrder'
    <3>1. BandOf' = BandOf
      BY DEF BandOf, Priority
    <3>. QED  BY <1>2, <2>8, <3>1 DEF HandInv, PushedInOrder, InOrder
  <2>. QED  BY <2>9, <2>10, <2>11 DEF HandInv
<1>. QED  BY <1>3, <1>4

LEMMA HandInit == Init => HandInv
<1> SUFFICES ASSUME Init PROVE HandInv
  OBVIOUS
<1>1. /\ \A r \in Request : ~Given(r) /\ Unseen(q.h, r)
      /\ Ordered(q.h, BandOf, [r \in Request |-> 0])
      /\ \A b \in Band : q.h.head[b] = NONE
  BY NoneAssumption
  DEF Init, NewPriorityQueue, EmptyHeap, NoWorker, Given, Has, Unseen, Ordered
<1>2. InOrder([r \in Request |-> 0], 0)
  BY <1>1, BandsOf DEF InOrder
<1>3. [r \in Request |-> 0] \in [Request -> Nat] /\ 0 \in Nat
  OBVIOUS
<1>4. Hands
  BY DEF Init, NoWorker, Hands
<1>. QED  BY <1>1, <1>2, <1>3, <1>4 DEF HandInv, PushedInOrder, NewAreUnknown

LEMMA HandStep == IInv /\ HandInv /\ [Next]_vars => HandInv'
<1> SUFFICES ASSUME IInv, HandInv, [Next]_vars PROVE HandInv'
  OBVIOUS
<1>0. TypeOK /\ TypeOK' /\ \A s \in Slot : wk[s] \in Workers
  BY TypeStep DEF IInv, TypeOK
<1>s. \A s \in Slot : Less(wk[s], wk[s])
  BY <1>0, LessWork
<1>a. ASSUME wk' = wk, answer' = answer,
             q' = q \/ q' = DrainQueue(q) \/ (\E r \in Request : q' = Remove(q, r)),
             \A r \in Request : promise'[r] \in {"new", "initializing"} =>
                                  promise[r] \in {"new", "initializing"}
      PROVE  HandInv'
  BY <1>0, <1>s, <1>a, QuietHands
<1>1. ASSUME NEW r \in Request, Render(r) PROVE HandInv'
  BY <1>0, <1>s, <1>1, ProceedHands DEF Render, workers
<1>2. ASSUME NEW r \in Request, RenderCold(r) PROVE HandInv'
  BY <1>0, <1>2, <1>a DEF RenderCold, workers, TypeOK
<1>3. ASSUME NEW r \in Request, InitializeDone(r) PROVE HandInv'
  BY <1>0, <1>3, SpawnLess, ProceedHands DEF InitializeDone
<1>4. ASSUME NEW r \in Request, InitializeThrows(r) PROVE HandInv'
  BY <1>0, <1>4, SpawnLess, QuietHands DEF InitializeThrows, TypeOK
<1>5. ASSUME NEW r \in Request, QueueTimeout(r) PROVE HandInv'
  BY <1>5, <1>a DEF QueueTimeout, workers, Settle
<1>6. ASSUME BackgroundInitialize PROVE HandInv'
  BY <1>0, <1>6, SpawnLess, QuietHands DEF BackgroundInitialize, callers
<1>7. ASSUME DispatchOne PROVE HandInv'
  BY <1>0, <1>7, DispatchHands
<1>8. CASE DispatchEnd \/ DispatchImmediate
  BY <1>8, <1>a DEF DispatchEnd, DispatchImmediate, callers, workers
<1>10. ASSUME NEW s \in Slot, ThreadStops(s) PROVE HandInv'
  <2>1. PICK e : wk' = [wk EXCEPT ![s] = [Stopped(@) EXCEPT !.events = e]]
    BY <1>10, Zenon DEF ThreadStops
  <2>2. [Stopped(wk[s]) EXCEPT !.events = e].cur = wk[s].cur
        /\ [Stopped(wk[s]) EXCEPT !.events = e].jobs = <<>>
    BY <1>0 DEF Stopped, Workers
  <2>3. \A t \in Slot : Less(wk[t], wk'[t])
    BY <1>0, <1>s, <2>1, <2>2 DEF Less, TypeOK
  <2>. QED  BY <1>0, <1>10, <2>3, QuietHands DEF ThreadStops, callers
<1>11. ASSUME NEW s \in Slot, NEW how \in {"resolved", "rejected"}, Answer(s, how) PROVE HandInv'
  BY <1>0, <1>11, AnswerHands
<1>12. ASSUME NEW s \in Slot, RenderTimeout(s) PROVE HandInv'
  <2>1. Failure(wk, s) /\ wk \in [Slot -> Workers]
    BY <1>0, <1>12 DEF RenderTimeout, TypeOK
  <2>. QED  BY <1>0, <1>s, <2>1, FailureLess, QuietHands
<1>13. ASSUME NEW s \in Slot, ErrorEvent(s) \/ ExitEvent(s) PROVE HandInv'
  <2> DEFINE w == [wk EXCEPT ![s] = Noticed(@)]
  <2>1. wk[s].events # <<>>
    BY <1>13 DEF ErrorEvent, ExitEvent
  <2>2. w \in [Slot -> Workers] /\ \A t \in Slot : Less(wk[t], w[t])
    BY <1>0, <1>s, <2>1, UpdateTypes, LessWork DEF TypeOK
  <2>3. Failure(w, s) \/ (wk' = w /\ UNCHANGED callers)
    BY <1>13 DEF ErrorEvent, ExitEvent
  <2> HIDE DEF w
  <2>4. CASE Failure(w, s)
    BY <1>0, <2>2, <2>4, FailureLess, QuietHands
  <2>5. CASE wk' = w /\ UNCHANGED callers
    BY <1>0, <2>2, <2>5, QuietHands DEF callers
  <2>. QED  BY <2>3, <2>4, <2>5
<1>15. ASSUME NEW s \in Slot, Terminated(s) PROVE HandInv'
  <2>1. [Stopped(wk[s]) EXCEPT !.after = "nothing"].cur = wk[s].cur
        /\ [Stopped(wk[s]) EXCEPT !.after = "nothing"].jobs = <<>>
    BY <1>0 DEF Stopped, Workers
  <2>2. \A t \in Slot : Less(wk[t], wk'[t])
    BY <1>0, <1>s, <1>15, <2>1 DEF Terminated, Less, TypeOK
  <2>. QED  BY <1>0, <1>15, <2>2, QuietHands DEF Terminated, callers
<1>16. ASSUME NEW s \in Slot, Collect(s) \/ ClosedThread(s) PROVE HandInv'
  <2>1. \A t \in Slot : Less(wk[t], wk'[t])
    BY <1>0, <1>s, <1>16, LessWork DEF Collect, ClosedThread, TypeOK
  <2>. QED  BY <1>0, <1>16, <2>1, QuietHands DEF Collect, ClosedThread, callers
<1>18. ASSUME NEW c \in Closers, ShutdownBegin(c) PROVE HandInv'
  <2>1. ASSUME NEW s \in Slot, NEW busy
        PROVE  LET v == [wk[s] EXCEPT !.stopping = TRUE, !.cur = NONE, !.busy = busy]
               IN  v.cur = NONE /\ v.jobs = wk[s].jobs
    BY <1>0 DEF Workers
  <2>2. ASSUME NEW s \in Slot PROVE Less(wk[s], wk'[s])
    <3> DEFINE busy == wk[s].busy /\ wk[s].cur = NONE
    <3>1. s \in pool => wk'[s] = [wk[s] EXCEPT !.stopping = TRUE, !.cur = NONE, !.busy = busy]
      BY <1>0, <1>18 DEF ShutdownBegin, Workers
    <3> HIDE DEF busy
    <3>2. s \notin pool => wk'[s] = wk[s]
      BY <1>18 DEF ShutdownBegin
    <3>3. s \in pool => wk'[s].cur = NONE /\ wk'[s].jobs = wk[s].jobs
      BY <2>1, <3>1
    <3>. QED  BY <1>s, <3>2, <3>3 DEF Less
  <2>3. /\ q' = DrainQueue(q) /\ answer' = answer
        /\ \A r \in Request : promise'[r] \in {"new", "initializing"} =>
                                promise[r] \in {"new", "initializing"}
    BY <1>18 DEF ShutdownBegin, Settle
  <2>. QED  BY <1>0, <2>2, <2>3, QuietHands
<1>19. ASSUME NEW c \in Closers, ShutdownEnd(c) PROVE HandInv'
  BY <1>19, <1>a DEF ShutdownEnd, callers
<1>20. CASE UNCHANGED vars
  BY <1>20, <1>a DEF vars
<1>. QED
  BY <1>1, <1>2, <1>3, <1>4, <1>5, <1>6, <1>7, <1>8, <1>10, <1>11, <1>12,
     <1>13, <1>15, <1>16, <1>18, <1>19, <1>20 DEF Next, ThreadStep

(* assignWork, the message and failure handlers and the queue timer: each  *)
(* request is one worker's at a time, is rendered at most once, and is     *)
(* answered by the output made for it, although remove may unlink it in    *)
(* the name of another band and the queue may serve it after its timeout.  *)
THEOREM OneWorkerPerRequest == Spec => []RenderedByOne
<1>1. IInv /\ HandInv => RenderedByOne
  <2> SUFFICES ASSUME IInv, HandInv PROVE RenderedByOne
    OBVIOUS
  <2>1. OneOwner
    BY DEF IInv, Books, HandInv, Hands, OneOwner
  <2>2. ASSUME NEW r \in Request
        PROVE  /\ Cardinality(JobsOf(r)) <= 1
               /\ answer[r] # NONE => answer[r] = r /\ JobsOf(r) = {}
    <3>1. \A x \in JobsOf(r) : x = <<x[1], x[2]>> /\ x[1] \in Slot
                               /\ x[2] \in DOMAIN wk[x[1]].jobs /\ wk[x[1]].jobs[x[2]] = r
      BY DEF JobsOf
    <3>2. \A x, y \in JobsOf(r) : x = y
      BY <3>1 DEF HandInv, Hands
    <3>3. Cardinality(JobsOf(r)) <= 1
      <4>1. CASE JobsOf(r) = {}
        BY <4>1, FS_EmptySet
      <4>2. CASE JobsOf(r) # {}
        <5>1. PICK x : x \in JobsOf(r)
          BY <4>2
        <5>2. JobsOf(r) = {x}
          BY <3>2, <5>1
        <5>3. Cardinality({x}) = 1
          BY FS_Singleton
        <5>. QED  BY <5>2, <5>3
      <4>. QED  BY <4>1, <4>2
    <3>4. ASSUME answer[r] # NONE PROVE answer[r] = r /\ JobsOf(r) = {}
      BY <3>1, <3>4 DEF HandInv, Hands, Has
    <3>. QED  BY <3>3, <3>4
  <2>. QED  BY <2>1, <2>2 DEF RenderedByOne, RenderedOnce
<1>. QED  BY <1>1, InvInit, InvStep, HandInit, HandStep, PTL DEF Spec

----------------------------------------------------------------------------
(* Nothing waits beside an idle worker, as long as shutdown is not called  *)
(* again while a call of it is under way: the second to end would empty    *)
(* the array of a pool that is up again, with requests in its queue.       *)
OneShutdown == \A c, d \in Closers : c = d

(* A pool that is not up, or shuts down, has nothing queued.               *)
QueueEmptied ==
  /\ shuttingDown \/ ~initialized => q.total <= 0
  /\ \A c \in Closers : closing[c].open => shuttingDown

LEMMA EmptiedStep ==
  ASSUME OneShutdown, IInv, QueueEmptied, [Next]_vars
  PROVE  QueueEmptied'
<1>0. TypeOK /\ q \in PriorityQueues /\ q.total \in Int
  BY DEF IInv, TypeOK, PriorityQueues
<1>a. ASSUME q' = q, UNCHANGED <<initialized, shuttingDown, closing>> PROVE QueueEmptied'
  BY <1>a DEF QueueEmptied
<1>b. ASSUME NEW r \in Request, NEW busy, Proceed(r, busy),
             initialized', UNCHANGED <<shuttingDown, closing>>
      PROVE  QueueEmptied'
  BY <1>b DEF Proceed, QueueEmptied
<1>1. ASSUME NEW r \in Request, Render(r) \/ InitializeDone(r) PROVE QueueEmptied'
  BY <1>1, <1>b DEF Render, InitializeDone, life
<1>2. ASSUME NEW r \in Request, RenderCold(r) \/ InitializeThrows(r) PROVE QueueEmptied'
  BY <1>2, <1>a DEF RenderCold, InitializeThrows, life
<1>3. ASSUME NEW r \in Request, QueueTimeout(r) PROVE QueueEmptied'
  <2>1. q' = Remove(q, r) /\ UNCHANGED life
    BY <1>3 DEF QueueTimeout
  <2>2. q'.total <= q.total /\ q'.total \in Int
    BY <1>0, <2>1, RemoveServesNothing, RemoveType DEF PriorityQueues
  <2>. QED  BY <1>0, <2>1, <2>2 DEF QueueEmptied, life
<1>4. ASSUME BackgroundInitialize PROVE QueueEmptied'
  <2>1. q' = q /\ (initialized' = TRUE \/ initialized' = initialized)
        /\ UNCHANGED <<shuttingDown, closing>>
    BY <1>4 DEF BackgroundInitialize, callers
  <2>. QED  BY <2>1 DEF QueueEmptied
<1>5. ASSUME DispatchOne PROVE QueueEmptied'
  <2>1. q.total > 0 /\ UNCHANGED life
    BY <1>5 DEF DispatchOne, CanDispatch
  <2>. QED  BY <1>0, <2>1 DEF QueueEmptied, life
<1>6. ASSUME NEW s \in Slot, NEW how \in {"resolved", "rejected"}, Answer(s, how) PROVE QueueEmptied'
  BY <1>6, <1>a DEF Answer, life
<1>7. ASSUME NEW s \in Slot, NEW w, Failure(w, s) PROVE QueueEmptied'
  BY <1>7, <1>a DEF Failure, life
<1>8. ASSUME NEW s \in Slot, RenderTimeout(s) \/ ErrorEvent(s) \/ ExitEvent(s) PROVE QueueEmptied'
  <2>1. (\E w : Failure(w, s)) \/ UNCHANGED <<callers, life>>
    BY <1>8 DEF RenderTimeout, ErrorEvent, ExitEvent
  <2>. QED  BY <2>1, <1>7, <1>a DEF callers, life
<1>9. ASSUME NEW s \in Slot, ThreadStops(s) \/ Terminated(s) \/ Collect(s) \/ ClosedThread(s)
      PROVE  QueueEmptied'
  BY <1>9, <1>a DEF ThreadStops, Terminated, Collect, ClosedThread, callers, life
<1>10. ASSUME NEW c \in Closers, ShutdownBegin(c) PROVE QueueEmptied'
  <2>1. q' = DrainQueue(q) /\ shuttingDown' = TRUE
    BY <1>10 DEF ShutdownBegin
  <2>2. q'.total <= 0
    BY <2>1 DEF DrainQueue
  <2>. QED  BY <2>1, <2>2 DEF QueueEmptied
<1>11. ASSUME NEW c \in Closers, ShutdownEnd(c) PROVE QueueEmptied'
  <2>1. q' = q /\ closing[c].open /\ ~shuttingDown'
        /\ closing' = [closing EXCEPT ![c] = [open |-> FALSE, on |-> {}]]
    BY <1>11 DEF ShutdownEnd, callers
  <2>2. \A d \in Closers : ~closing'[d].open
    BY <1>0, <2>1 DEF OneShutdown, TypeOK
  <2>. QED  BY <2>1, <2>2 DEF QueueEmptied
<1>12. CASE DispatchEnd \/ DispatchImmediate \/ UNCHANGED vars
  BY <1>12, <1>a DEF DispatchEnd, DispatchImmediate, vars, callers, life
<1>. QED  BY <1>1, <1>2, <1>3, <1>4, <1>5, <1>6, <1>8, <1>9, <1>10, <1>11, <1>12
          DEF Next, ThreadStep

(* Steps that queue nothing and free nobody.                               *)
LEMMA StillNotHeldBack ==
  ASSUME IInv, WorkIsNotHeldBack, q' = q, pool' = pool,
         dispatching => dispatching', immediate => immediate',
         \A s \in pool : wk'[s].busy = wk[s].busy /\ wk'[s].stopping = wk[s].stopping,
         \A s \in Slot : wk[s].after = "failure" => wk'[s].after = "failure"
  PROVE  WorkIsNotHeldBack'
BY DEF WorkIsNotHeldBack, Idle, DequeueResult, Servable

(* Spawning into a pool that is up makes it too large for the claim.       *)
LEMMA SpawnNotHeldBack ==
  ASSUME IInv, QueueEmptied, PoolKeepsItsSize, WorkIsNotHeldBack,
         NEW S, SpawnAll(S), q' = q, UNCHANGED <<dispatching, immediate>>
  PROVE  WorkIsNotHeldBack'
<1>0. TypeOK /\ Books
  BY DEF IInv
<1>1. CASE q.total <= 0
  BY <1>1 DEF WorkIsNotHeldBack
<1>2. CASE S = {}
  <2>1. pool' = pool /\ \A s \in Slot : wk'[s] = wk[s]
    BY <1>2 DEF SpawnAll
  <2>. QED  BY <1>0, <2>1, StillNotHeldBack DEF TypeOK
<1>3. CASE ~(q.total <= 0) /\ S # {}
  <2>1. PICK s : s \in S
    BY <1>3
  <2>2. s \in Slot /\ s \notin pool /\ pool \cup {s} \subseteq pool' /\ pool' \subseteq Slot
    BY <1>0, <2>1 DEF SpawnAll, Free, Books, TypeOK
  <2>3. Cardinality(pool) >= WorkerCount
    BY <1>3 DEF QueueEmptied, PoolKeepsItsSize
  <2>4. IsFiniteSet(pool) /\ IsFiniteSet(pool')
    BY <1>0, <2>2, PoolIsFinite DEF TypeOK
  <2>5. Cardinality(pool \cup {s}) = Cardinality(pool) + 1
    BY <2>2, <2>4, FS_AddElement
  <2>6. Cardinality(pool \cup {s}) <= Cardinality(pool')
    BY <2>2, <2>4, FS_Subset
  <2>7. Cardinality(pool) \in Nat /\ Cardinality(pool') \in Nat /\ WorkerCount \in Nat
    BY <2>4, FS_CardinalityType, PoolAssumption
  <2>8. Cardinality(pool') > WorkerCount
    BY <2>3, <2>5, <2>6, <2>7
  <2>. QED  BY <2>8 DEF WorkIsNotHeldBack
<1>. QED  BY <1>1, <1>2, <1>3

(* The failure handler dispatches, or leaves a worker whose termination    *)
(* will.                                                                   *)
LEMMA FailureDispatches ==
  ASSUME IInv, NEW w \in [Slot -> Workers], NEW s \in Slot, Failure(w, s)
  PROVE  WorkIsNotHeldBack'
<1> DEFINE freed == [w EXCEPT ![s] = Idled(@)]
<1>0. TypeOK /\ Books /\ freed \in [Slot -> Workers]
  BY UpdateTypes DEF IInv
<1>1. \/ Recycle(freed, s, "failure") /\ dispatching' = (pool' = pool) /\ Recyclable(s)
      \/ dispatching'
  BY DEF Failure
<1> HIDE DEF freed
<1>2. CASE dispatching'
  BY <1>2 DEF WorkIsNotHeldBack
<1>3. ASSUME Recycle(freed, s, "failure"), ~(pool' = pool), Recyclable(s)
      PROVE  WorkIsNotHeldBack'
  <2>1. PICK n \in Free : wk' = Replaced(freed, s, n, "failure")
    BY <1>3 DEF Recycle
  <2>2. n # s
    BY <1>0, <1>3 DEF Free, Books, Recyclable
  <2>3. wk'[s] = Retired(freed[s], "failure")
    BY <1>0, <2>1, <2>2 DEF Replaced, Free
  <2>4. wk'[s].after = "failure"
    BY <1>0, <2>3 DEF Retired, Workers
  <2>. QED  BY <2>4 DEF WorkIsNotHeldBack
<1>. QED  BY <1>1, <1>2, <1>3

LEMMA HeldBackStep ==
  ASSUME IInv, QueueEmptied, PoolKeepsItsSize, WorkIsNotHeldBack, [Next]_vars
  PROVE  WorkIsNotHeldBack'
<1>0. TypeOK /\ Books /\ \A s \in Slot : wk[s] \in Workers
  BY DEF IInv, TypeOK
<1>a. ASSUME dispatching' \/ immediate' PROVE WorkIsNotHeldBack'
  BY <1>a DEF WorkIsNotHeldBack
<1>b. ASSUME q' = q, pool' = pool, wk' = wk, dispatching => dispatching', immediate => immediate'
      PROVE  WorkIsNotHeldBack'
  BY <1>b, StillNotHeldBack
<1>1. ASSUME NEW r \in Request, Render(r) PROVE WorkIsNotHeldBack'
  BY <1>1, <1>a, <1>b DEF Render, Proceed, workers
<1>2. ASSUME NEW r \in Request, RenderCold(r) PROVE WorkIsNotHeldBack'
  BY <1>2, <1>b DEF RenderCold, workers
<1>3. ASSUME NEW r \in Request, InitializeDone(r) PROVE WorkIsNotHeldBack'
  <2>1. (\E S : SpawnAll(S)) /\ immediate' = immediate
        /\ (dispatching' \/ (q' = q /\ dispatching' = dispatching))
    BY <1>3 DEF InitializeDone, Proceed
  <2>. QED  BY <2>1, <1>a, SpawnNotHeldBack
<1>4. ASSUME NEW r \in Request, InitializeThrows(r) PROVE WorkIsNotHeldBack'
  BY <1>4, SpawnNotHeldBack DEF InitializeThrows
<1>5. ASSUME NEW r \in Request, QueueTimeout(r) PROVE WorkIsNotHeldBack'
  <2>1. q' = Remove(q, r) /\ UNCHANGED <<pool, wk, immediate, dispatching>>
    BY <1>5 DEF QueueTimeout, workers
  <2>2. /\ q'.total <= q.total /\ q'.total \in Int /\ q.total \in Int
        /\ DequeueResult(q) = NONE => DequeueResult(q') = NONE
    BY <1>0, <2>1, RemoveServesNothing, RemoveType DEF TypeOK, PriorityQueues
  <2>3. q.total <= 0 => q'.total <= 0
    BY <2>2
  <2>4. DequeueResult(q)' = DequeueResult(q')
    BY DEF DequeueResult, Servable
  <2>. QED  BY <2>1, <2>2, <2>3, <2>4 DEF WorkIsNotHeldBack, Idle
<1>6. ASSUME BackgroundInitialize PROVE WorkIsNotHeldBack'
  BY <1>6, SpawnNotHeldBack DEF BackgroundInitialize, callers
<1>7. CASE DispatchOne \/ DispatchImmediate
  BY <1>7, <1>a DEF DispatchOne, DispatchImmediate
<1>8. ASSUME DispatchEnd PROVE WorkIsNotHeldBack'
  <2>1. ~CanDispatch /\ q' = q /\ pool' = pool /\ wk' = wk
    BY <1>8 DEF DispatchEnd, callers, workers
  <2>2. \/ ~(q.total > 0)
        \/ Idle = {}
        \/ DequeueResult(q) = NONE
    BY <2>1 DEF CanDispatch
  <2>3. q.total \in Int
    BY <1>0 DEF TypeOK, PriorityQueues
  <2>4. ~(q.total > 0) => q.total <= 0
    BY <2>3
  <2>. QED  BY <2>1, <2>2, <2>4 DEF WorkIsNotHeldBack, Idle, DequeueResult, Servable
<1>9. ASSUME NEW s \in Slot, ThreadStops(s) PROVE WorkIsNotHeldBack'
  <2>1. PICK e : wk' = [wk EXCEPT ![s] = [Stopped(@) EXCEPT !.events = e]]
    BY <1>9, Zenon DEF ThreadStops
  <2>2. LET v == [Stopped(wk[s]) EXCEPT !.events = e]
        IN  v.busy = wk[s].busy /\ v.stopping = wk[s].stopping /\ v.after = wk[s].after
    BY <1>0 DEF Stopped, Workers
  <2>3. \A t \in Slot : /\ wk'[t].busy = wk[t].busy /\ wk'[t].stopping = wk[t].stopping
                        /\ wk'[t].after = wk[t].after
    BY <1>0, <2>1, <2>2 DEF TypeOK
  <2>. QED  BY <1>0, <1>9, <2>3, StillNotHeldBack DEF ThreadStops, callers, TypeOK
<1>10. ASSUME NEW s \in Slot, NEW how \in {"resolved", "rejected"}, Answer(s, how)
       PROVE  WorkIsNotHeldBack'
  <2>1. CASE ~IsCurrent(s, Head(wk[s].jobs))
    <3>1. wk' = [wk EXCEPT ![s] = Heard(@)] /\ UNCHANGED <<q, pool, immediate, dispatching>>
      BY <1>10, <2>1 DEF Answer
    <3>2. LET v == Heard(wk[s])
          IN  v.busy = wk[s].busy /\ v.stopping = wk[s].stopping /\ v.after = wk[s].after
      BY <1>0 DEF Heard, Workers
    <3>3. \A t \in Slot : /\ wk'[t].busy = wk[t].busy /\ wk'[t].stopping = wk[t].stopping
                          /\ wk'[t].after = wk[t].after
      BY <1>0, <3>1, <3>2 DEF TypeOK
    <3>. QED  BY <1>0, <3>1, <3>3, StillNotHeldBack DEF TypeOK
  <2>2. CASE IsCurrent(s, Head(wk[s].jobs))
    BY <1>10, <2>2, <1>a DEF Answer
  <2>. QED  BY <2>1, <2>2
<1>11. ASSUME NEW s \in Slot, RenderTimeout(s) PROVE WorkIsNotHeldBack'
  BY <1>0, <1>11, FailureDispatches DEF RenderTimeout, TypeOK
<1>12. ASSUME NEW s \in Slot, ErrorEvent(s) \/ ExitEvent(s) PROVE WorkIsNotHeldBack'
  <2> DEFINE w == [wk EXCEPT ![s] = Noticed(@)]
  <2>1. wk[s].events # <<>>
    BY <1>12 DEF ErrorEvent, ExitEvent
  <2>2. w \in [Slot -> Workers] /\ w[s] = Noticed(wk[s]) /\ \A t \in Slot \ {s} : w[t] = wk[t]
    BY <1>0, <2>1, UpdateTypes DEF TypeOK
  <2>3. Failure(w, s) \/ (wk' = w /\ UNCHANGED <<q, pool, immediate, dispatching>>)
    BY <1>12 DEF ErrorEvent, ExitEvent, callers
  <2> HIDE DEF w
  <2>4. LET v == Noticed(wk[s])
        IN  v.busy = wk[s].busy /\ v.stopping = wk[s].stopping /\ v.after = wk[s].after
    BY <1>0 DEF Noticed, Workers
  <2>5. CASE wk' = w /\ UNCHANGED <<q, pool, immediate, dispatching>>
    <3>1. \A t \in Slot : /\ wk'[t].busy = wk[t].busy /\ wk'[t].stopping = wk[t].stopping
                          /\ wk'[t].after = wk[t].after
      BY <2>2, <2>4, <2>5
    <3>. QED  BY <1>0, <2>5, <3>1, StillNotHeldBack DEF TypeOK
  <2>. QED  BY <2>2, <2>3, <2>5, FailureDispatches
<1>13. ASSUME NEW s \in Slot, Terminated(s) PROVE WorkIsNotHeldBack'
  <2>1. dispatching' = (wk[s].after = "failure")
    BY <1>13 DEF Terminated, Redispatches
  <2>2. CASE wk[s].after = "failure"
    BY <2>1, <2>2, <1>a
  <2>3. CASE wk[s].after # "failure"
    <3>1. LET v == [Stopped(wk[s]) EXCEPT !.after = "nothing"]
          IN  v.busy = wk[s].busy /\ v.stopping = wk[s].stopping
      BY <1>0 DEF Stopped, Workers
    <3>2. /\ \A t \in Slot : wk'[t].busy = wk[t].busy /\ wk'[t].stopping = wk[t].stopping
          /\ \A t \in Slot \ {s} : wk'[t] = wk[t]
      BY <1>0, <1>13, <3>1 DEF Terminated, TypeOK
    <3>. QED  BY <1>0, <1>13, <2>3, <3>2, StillNotHeldBack DEF Terminated, callers, TypeOK
  <2>. QED  BY <2>2, <2>3
<1>14. ASSUME NEW s \in Slot, Collect(s) PROVE WorkIsNotHeldBack'
  <2>1. s \notin pool /\ wk[s].after = "nothing" /\ \A t \in Slot \ {s} : wk'[t] = wk[t]
    BY <1>0, <1>14 DEF Collect, TypeOK
  <2>2. \A t \in pool : t \in Slot \ {s}
    BY <1>0, <2>1 DEF TypeOK
  <2>. QED  BY <1>14, <2>1, <2>2, StillNotHeldBack DEF Collect, callers
<1>15. ASSUME NEW s \in Slot, ClosedThread(s) PROVE WorkIsNotHeldBack'
  <2>1. LET v == Stopped(wk[s])
        IN  v.busy = wk[s].busy /\ v.stopping = wk[s].stopping /\ v.after = wk[s].after
    BY <1>0 DEF Stopped, Workers
  <2>2. \A t \in Slot : /\ wk'[t].busy = wk[t].busy /\ wk'[t].stopping = wk[t].stopping
                        /\ wk'[t].after = wk[t].after
    BY <1>0, <1>15, <2>1 DEF ClosedThread, TypeOK
  <2>. QED  BY <1>0, <1>15, <2>2, StillNotHeldBack DEF ClosedThread, callers, TypeOK
<1>16. ASSUME NEW c \in Closers, ShutdownBegin(c) PROVE WorkIsNotHeldBack'
  <2>1. q' = DrainQueue(q)
    BY <1>16 DEF ShutdownBegin
  <2>2. q'.total <= 0
    BY <2>1 DEF DrainQueue
  <2>. QED  BY <2>2 DEF WorkIsNotHeldBack
<1>17. ASSUME NEW c \in Closers, ShutdownEnd(c) PROVE WorkIsNotHeldBack'
  BY <1>17 DEF ShutdownEnd, WorkIsNotHeldBack, Idle
<1>18. CASE UNCHANGED vars
  BY <1>18, <1>b DEF vars
<1>. QED
  BY <1>1, <1>2, <1>3, <1>4, <1>5, <1>6, <1>7, <1>8, <1>9, <1>10, <1>11, <1>12,
     <1>13, <1>14, <1>15, <1>16, <1>17, <1>18 DEF Next, ThreadStep

(* dispatch: while calls of shutdown do not overlap, a request the queue   *)
(* would serve is left in it only while every worker of a pool of the      *)
(* configured size is busy or being stopped, or a task that dispatches is  *)
(* still to come, whatever fails and in which order.                       *)
THEOREM NothingIsHeldBack == OneShutdown /\ Spec => []WorkIsNotHeldBack
<1>0. OneShutdown => []OneShutdown
  <2>1. OneShutdown => OneShutdown'
    BY DEF OneShutdown
  <2>. QED  BY <2>1, PTL
<1>1. Init => QueueEmptied /\ WorkIsNotHeldBack /\ PoolKeepsItsSize
  BY DEF Init, NewPriorityQueue, QueueEmptied, WorkIsNotHeldBack, PoolKeepsItsSize
<1>2. OneShutdown /\ IInv /\ QueueEmptied /\ [Next]_vars => QueueEmptied'
  BY EmptiedStep
<1>3. IInv /\ QueueEmptied /\ PoolKeepsItsSize /\ WorkIsNotHeldBack /\ [Next]_vars
        => WorkIsNotHeldBack'
  BY HeldBackStep
<1>. QED  BY <1>0, <1>1, <1>2, <1>3, InvInit, InvStep, SizeStep, PTL DEF Spec

----------------------------------------------------------------------------
(* The queue by itself, as the pool drives it (module RenderQueue).        *)
(*                                                                         *)
(* A request is served once, whatever the priorities in use: the pointers  *)
(* may be wrong, but they always lead to a later request of the same       *)
(* priority.  With the first priority only, the pointers are right: a      *)
(* walk finds exactly the waiting requests, and the queue implements       *)
(* RequestQueueSpec.                                                       *)
LEMMA InitType == QueueInit => QueueTypeOK
BY NewQueueType DEF QueueInit, QueueTypeOK, Fate

(* What each step does to the queue and to the fates.                      *)
LEMMA StepType ==
  QueueTypeOK /\ [QueueNext]_queueVars => QueueTypeOK'
<1> SUFFICES ASSUME QueueTypeOK, [QueueNext]_queueVars PROVE QueueTypeOK'
  OBVIOUS
<1>. USE DEF QueueTypeOK
<1>1. ASSUME NEW r \in Request, NEW b \in UsedBand, Admit(r, b) PROVE QueueTypeOK'
  BY <1>1, EnqueueType, UsedBandAssumption DEF Admit, Fate
<1>2. CASE Dispatch
  BY <1>2, DequeueType DEF Dispatch, Fate
<1>3. ASSUME NEW r \in Request, TimeOut(r) PROVE QueueTypeOK'
  BY <1>3, RemoveType DEF TimeOut, Fate
<1>4. CASE Shutdown
  <2>1. fate' \in [Request -> Fate]
    BY <1>4 DEF Shutdown, Fate
  <2>. QED  BY <1>4, <2>1, DrainQueueType DEF Shutdown
<1>5. CASE UNCHANGED queueVars
  BY <1>5 DEF queueVars
<1>. QED  BY <1>1, <1>2, <1>3, <1>4, <1>5 DEF QueueNext

(* The queue and the fate of every request keep their types (request-queue *)
(* and priority-queue.ts).                                                 *)
THEOREM QueueTypeCorrect == QueueSpec => []QueueTypeOK
BY InitType, StepType, PTL DEF QueueSpec

----------------------------------------------------------------------------
Untied(h, r) == h.next[r] = NONE /\ h.prev[r] = NONE

(* Once served, a request is behind the heads for good.  at and ord are    *)
(* the band it was pushed to and the turn at which that happened, n the    *)
(* number of pushes so far.                                                *)
Passed(at, ord, n) ==
  /\ \A r \in Request : ord[r] <= n
  /\ Ordered(queue.h, at, ord)
  /\ \A r \in Request : fate[r] = "new" => Unseen(queue.h, r) /\ Untied(queue.h, r)
  /\ \A r \in Request : fate[r] \in {"served", "late"} /\ queue.h.head[at[r]] # NONE
                          => ord[r] < ord[queue.h.head[at[r]]]

ServedArePassed ==
  \E at \in [Request -> Band], ord \in [Request -> Nat], n \in Nat : Passed(at, ord, n)

(* A request nothing refers to is tied to others by a push only.           *)
LEMMA UntiedStays ==
  ASSUME NEW p \in PriorityQueues, NEW r \in Request, Unseen(p.h, r), Untied(p.h, r)
  PROVE  /\ Untied(Dequeue(p).h, r)
         /\ \A x \in Request : Untied(Remove(p, x).h, r)
         /\ Untied(DrainQueue(p).h, r)
         /\ \A b \in Band, x \in Request : x # r => Untied(Enqueue(p, x, b).h, r)
<1>1. p.h \in Heap
  BY DEF PriorityQueues
<1>2. Untied(Dequeue(p).h, r)
  BY <1>1 DEF Dequeue, Shift, Untied
<1>3. ASSUME NEW x \in Request PROVE Untied(Remove(p, x).h, r)
  BY <1>1 DEF Remove, Unlink, Untied, Unseen
<1>4. Untied(DrainQueue(p).h, r)
  BY DEF DrainQueue, Untied
<1>5. ASSUME NEW b \in Band, NEW x \in Request, x # r PROVE Untied(Enqueue(p, x, b).h, r)
  BY <1>1, <1>5 DEF Enqueue, Push, Untied, Unseen, Heap
<1>. QED  BY <1>2, <1>3, <1>4, <1>5

LEMMA InitPassed == QueueInit => ServedArePassed
<1> SUFFICES ASSUME QueueInit PROVE ServedArePassed
  OBVIOUS
<1> DEFINE at == [r \in Request |-> 0]
           ord == [r \in Request |-> 0]
<1>1. at \in [Request -> Band] /\ ord \in [Request -> Nat]
  BY BandAssumption
<1>2. Passed(at, ord, 0)
  <2>1. /\ \A r \in Request : queue.h.next[r] = NONE /\ queue.h.prev[r] = NONE /\ fate[r] = "new"
        /\ \A b \in Band : queue.h.head[b] = NONE /\ queue.h.tail[b] = NONE
    BY DEF QueueInit, NewPriorityQueue, EmptyHeap
  <2>2. Ordered(queue.h, at, ord)
    BY <2>1 DEF Ordered
  <2>3. \A r \in Request : Unseen(queue.h, r) /\ Untied(queue.h, r)
    BY <2>1, NoneAssumption DEF Unseen, Untied
  <2>. QED  BY <2>1, <2>2, <2>3 DEF Passed
<1>. QED  BY <1>1, <1>2 DEF ServedArePassed

(* Heads that only advance leave every served request behind.              *)
LEMMA StillPassed ==
  ASSUME NEW h \in Heap, NEW g \in Heap, NEW at \in [Request -> Band],
         NEW ord \in [Request -> Nat], NEW r \in Request,
         HeadsAdvance(h, g, ord),
         h.head[at[r]] # NONE => ord[r] < ord[h.head[at[r]]]
  PROVE  g.head[at[r]] # NONE => ord[r] < ord[g.head[at[r]]]
<1> SUFFICES ASSUME g.head[at[r]] # NONE PROVE ord[r] < ord[g.head[at[r]]]
  OBVIOUS
<1> DEFINE b == at[r]
<1>1. h.head[b] # NONE /\ ord[h.head[b]] <= ord[g.head[b]]
  BY DEF HeadsAdvance
<1>2. h.head[b] \in Request /\ g.head[b] \in Request
  BY <1>1 DEF Heap, Pointer
<1>. QED  BY <1>1, <1>2

LEMMA StepPassed ==
  QueueTypeOK /\ QueueTypeOK' /\ ServedArePassed /\ [QueueNext]_queueVars => ServedArePassed'
<1> SUFFICES ASSUME QueueTypeOK, QueueTypeOK', [QueueNext]_queueVars,
                    NEW at \in [Request -> Band], NEW ord \in [Request -> Nat], NEW n \in Nat,
                    Passed(at, ord, n)
             PROVE  ServedArePassed'
  BY DEF ServedArePassed
<1>0. queue \in PriorityQueues /\ queue.h \in Heap /\ queue'.h \in Heap /\ fate \in [Request -> Fate]
  BY DEF QueueTypeOK, PriorityQueues
<1>1. ASSUME NEW r \in Request, NEW b \in UsedBand, Admit(r, b) PROVE ServedArePassed'
  <2> DEFINE now == [at EXCEPT ![r] = b]
             new == [ord EXCEPT ![r] = n + 1]
  <2>0. b \in Band /\ now \in [Request -> Band]
    BY <1>1, UsedBandAssumption
  <2>1. fate[r] = "new" /\ fate' = [fate EXCEPT ![r] = "waiting"] /\ queue'.h = Push(queue.h, b, r)
    BY <1>1 DEF Admit, Enqueue
  <2>2. Unseen(queue.h, r) /\ Untied(queue.h, r)
    BY <2>1 DEF Passed
  <2>3. Ordered(queue.h, now, ord)
    <3>1. Ordered(queue.h, at, ord)
      BY DEF Passed
    <3>2. \A x \in Request : x # r => now[x] = at[x]
      OBVIOUS
    <3>3. ASSUME NEW x \in Request, queue.h.next[x] # NONE PROVE Before(now, ord, x, queue.h.next[x])
      <4>1. queue.h.next[x] \in Request /\ queue.h.next[x] # r /\ x # r
        BY <1>0, <2>2, <3>3 DEF Unseen, Untied, Heap, Pointer
      <4>. QED  BY <3>1, <3>2, <3>3, <4>1 DEF Ordered, Before
    <3>4. ASSUME NEW x \in Request, queue.h.prev[x] # NONE PROVE Before(now, ord, queue.h.prev[x], x)
      <4>1. queue.h.prev[x] \in Request /\ queue.h.prev[x] # r /\ x # r
        BY <1>0, <2>2, <3>4 DEF Unseen, Untied, Heap, Pointer
      <4>. QED  BY <3>1, <3>2, <3>4, <4>1 DEF Ordered, Before
    <3>5. ASSUME NEW c \in Band
          PROVE  /\ queue.h.head[c] # NONE => now[queue.h.head[c]] = c
                 /\ queue.h.tail[c] # NONE => now[queue.h.tail[c]] = c
      <4>1. /\ queue.h.head[c] # r /\ queue.h.tail[c] # r
            /\ queue.h.head[c] \in Request \cup {NONE} /\ queue.h.tail[c] \in Request \cup {NONE}
        BY <1>0, <2>2 DEF Unseen, Heap, Pointer
      <4>2. (queue.h.head[c] # NONE => at[queue.h.head[c]] = c) /\ (queue.h.tail[c] # NONE => at[queue.h.tail[c]] = c)
        BY <3>1 DEF Ordered
      <4>. QED  BY <3>2, <4>1, <4>2
    <3>. QED  BY <3>3, <3>4, <3>5 DEF Ordered
  <2>4. /\ new \in [Request -> Nat]
        /\ \A x \in Request : new[x] <= n + 1
        /\ Ordered(queue'.h, now, new)
    <3>1. now[r] = b /\ \A x \in Request : ord[x] <= n
      BY DEF Passed
    <3>. HIDE DEF now
    <3>2. n \in Nat /\ r \in Request /\ queue.h \in Heap /\ ord \in [Request -> Nat]
      BY <1>0
    <3>3. /\ [ord EXCEPT ![r] = n + 1] \in [Request -> Nat]
          /\ \A x \in Request : [ord EXCEPT ![r] = n + 1][x] <= n + 1
          /\ Ordered(Push(queue.h, b, r), now, [ord EXCEPT ![r] = n + 1])
      BY <2>0, <2>2, <2>3, <3>1, <3>2, PushOrdered
    <3>. QED  BY <2>1, <3>3
  <2>5. ASSUME NEW x \in Request, fate'[x] = "new" PROVE Unseen(queue'.h, x) /\ Untied(queue'.h, x)
    <3>1. x # r /\ fate[x] = "new"
      BY <1>0, <2>1, <2>5
    <3>2. Unseen(Enqueue(queue, r, b).h, x) /\ Untied(Enqueue(queue, r, b).h, x)
      BY <1>0, <2>0, <3>1, UnseenStays, UntiedStays DEF Passed
    <3>. QED  BY <2>1, <3>2 DEF Enqueue
  <2>6. ASSUME NEW x \in Request, fate'[x] \in {"served", "late"}, queue'.h.head[now[x]] # NONE
        PROVE  new[x] < new[queue'.h.head[now[x]]]
    <3>1. x # r /\ fate[x] \in {"served", "late"} /\ now[x] = at[x] /\ new[x] = ord[x]
      BY <1>0, <2>1, <2>6
    <3>2. queue'.h.head = IF queue.h.tail[b] = NONE THEN [queue.h.head EXCEPT ![b] = r] ELSE queue.h.head
      BY <2>1 DEF Push
    <3>3. CASE queue'.h.head[at[x]] = r
      <4>1. new[r] = n + 1 /\ ord[x] <= n /\ ord[x] \in Nat
        BY DEF Passed
      <4>. QED  BY <3>1, <3>3, <4>1
    <3>4. CASE queue'.h.head[at[x]] # r
      <4>1. queue'.h.head[at[x]] = queue.h.head[at[x]] /\ queue.h.head[at[x]] \in Request
        BY <1>0, <2>0, <2>6, <3>1, <3>2, <3>4 DEF Heap, Pointer
      <4>2. ord[x] < ord[queue.h.head[at[x]]]
        BY <2>6, <3>1, <4>1 DEF Passed
      <4>. QED  BY <3>1, <3>4, <4>1, <4>2
    <3>. QED  BY <3>3, <3>4
  <2>7. Passed(now, new, n + 1)'
    BY <2>4, <2>5, <2>6 DEF Passed
  <2>. QED  BY <2>0, <2>4, <2>7 DEF ServedArePassed
<1>2. CASE Dispatch
  <2> DEFINE r == DequeueResult(queue)
  <2>1. r # NONE /\ queue' = Dequeue(queue) /\ \A x \in Request : x # r => fate'[x] = fate[x]
    BY <1>0, <1>2 DEF Dispatch
  <2>2. /\ Ordered(queue'.h, at, ord) /\ HeadsAdvance(queue.h, queue'.h, ord) /\ r \in Request
        /\ \A b \in Band : queue'.h.head[b] # NONE /\ at[r] = b => ord[r] < ord[queue'.h.head[b]]
    BY <1>0, <2>1, DequeueOrdered DEF Passed
  <2>3. ASSUME NEW x \in Request, fate'[x] = "new" PROVE Unseen(queue'.h, x) /\ Untied(queue'.h, x)
    <3>1. fate[x] = "new"
      BY <1>0, <1>2, <2>3 DEF Dispatch
    <3>. QED  BY <1>0, <2>1, <3>1, UnseenStays, UntiedStays DEF Passed
  <2>4. ASSUME NEW x \in Request, fate'[x] \in {"served", "late"}
        PROVE  queue'.h.head[at[x]] # NONE => ord[x] < ord[queue'.h.head[at[x]]]
    <3>1. CASE x = r
      BY <2>2, <3>1
    <3>2. CASE x # r
      <4>1. queue.h.head[at[x]] # NONE => ord[x] < ord[queue.h.head[at[x]]]
        BY <2>1, <2>4, <3>2 DEF Passed
      <4>. QED  BY <1>0, <2>2, <4>1, StillPassed
    <3>. QED  BY <3>1, <3>2
  <2>5. Passed(at, ord, n)'
    BY <2>2, <2>3, <2>4 DEF Passed
  <2>. QED  BY <2>5 DEF ServedArePassed
<1>3. ASSUME NEW x \in Request, TimeOut(x) PROVE ServedArePassed'
  <2>1. queue' = Remove(queue, x) /\ fate' = [fate EXCEPT ![x] = "timedOut"]
    BY <1>3 DEF TimeOut
  <2>2. Ordered(queue'.h, at, ord) /\ HeadsAdvance(queue.h, queue'.h, ord)
    BY <1>0, <2>1, RemoveOrdered DEF Passed
  <2>3. \A r \in Request : fate'[r] = "new" => Unseen(queue'.h, r) /\ Untied(queue'.h, r)
    BY <1>0, <2>1, UnseenStays, UntiedStays DEF Passed
  <2>4. ASSUME NEW r \in Request, fate'[r] \in {"served", "late"}
        PROVE  queue'.h.head[at[r]] # NONE => ord[r] < ord[queue'.h.head[at[r]]]
    <3>1. queue.h.head[at[r]] # NONE => ord[r] < ord[queue.h.head[at[r]]]
      BY <1>0, <2>1, <2>4 DEF Passed
    <3>. QED  BY <1>0, <2>2, <3>1, StillPassed
  <2>5. Passed(at, ord, n)'
    BY <2>2, <2>3, <2>4 DEF Passed
  <2>. QED  BY <2>5 DEF ServedArePassed
<1>4. CASE Shutdown
  <2>1. /\ queue' = DrainQueue(queue)
        /\ \A r \in Request : fate'[r] # fate[r] => fate'[r] = "dropped"
    BY <1>4 DEF Shutdown
  <2>2. Ordered(queue'.h, at, ord) /\ HeadsAdvance(queue.h, queue'.h, ord)
    BY <1>0, <2>1, DrainOrdered DEF Passed
  <2>3. \A r \in Request : fate'[r] = "new" => Unseen(queue'.h, r) /\ Untied(queue'.h, r)
    BY <1>0, <2>1, UnseenStays, UntiedStays DEF Passed
  <2>4. ASSUME NEW r \in Request, fate'[r] \in {"served", "late"}
        PROVE  queue'.h.head[at[r]] # NONE => ord[r] < ord[queue'.h.head[at[r]]]
    <3>1. queue.h.head[at[r]] # NONE => ord[r] < ord[queue.h.head[at[r]]]
      BY <2>1, <2>4 DEF Passed
    <3>. QED  BY <1>0, <2>2, <3>1, StillPassed
  <2>5. Passed(at, ord, n)'
    BY <2>2, <2>3, <2>4 DEF Passed
  <2>. QED  BY <2>5 DEF ServedArePassed
<1>5. CASE UNCHANGED queueVars
  <2>1. Passed(at, ord, n)'
    BY <1>5 DEF queueVars, Passed
  <2>. QED  BY <2>1 DEF ServedArePassed
<1>. QED  BY <1>1, <1>2, <1>3, <1>4, <1>5 DEF QueueNext

(* Whatever the priorities, a request handed to a worker is handed to it   *)
(* once: its fate is settled and dequeue never returns it again            *)
(* (priority-queue.ts dequeue, remove; request-queue.ts).                  *)
THEOREM NothingIsServedTwice == QueueSpec => ServedOnce
<1>1. QueueTypeOK /\ ServedArePassed /\ [QueueNext]_queueVars
        => [\A r \in Request : fate[r] \in {"served", "late"}
                                 => UNCHANGED fate[r] /\ DequeueResult(queue) # r]_queueVars
  <2> SUFFICES ASSUME QueueTypeOK, ServedArePassed, QueueNext,
                      NEW r \in Request, fate[r] \in {"served", "late"}
               PROVE  UNCHANGED fate[r] /\ DequeueResult(queue) # r
    OBVIOUS
  <2>0. queue \in PriorityQueues /\ fate \in [Request -> Fate]
    BY DEF QueueTypeOK
  <2>1. DequeueResult(queue) # r
    <3> SUFFICES ASSUME DequeueResult(queue) = r PROVE FALSE
      OBVIOUS
    <3>1. PICK at \in [Request -> Band], ord \in [Request -> Nat], n \in Nat : Passed(at, ord, n)
      BY DEF ServedArePassed
    <3>2. queue.h.head[at[r]] = r
      BY <2>0, <3>1, DequeueOrdered, NoneAssumption DEF Passed
    <3>3. ord[r] < ord[r]
      BY <3>1, <3>2, NoneAssumption DEF Passed
    <3>. QED  BY <3>3
  <2>2. UNCHANGED fate[r]
    BY <2>0, <2>1 DEF QueueNext, Admit, Dispatch, TimeOut, Shutdown
  <2>. QED  BY <2>1, <2>2
<1>. QED  BY <1>1, InitType, StepType, InitPassed, StepPassed, PTL DEF QueueSpec, ServedOnce
----------------------------------------------------------------------------
(* Every non-empty set of naturals has a least element: how the proofs     *)
(* below argue by induction along a queue.                                 *)
LEMMA LeastNat ==
  ASSUME NEW T \in SUBSET Nat, T # {}
  PROVE  \E x \in T : \A y \in T : x <= y
<1> DEFINE R == OpToRel(<, Nat)
<1>1. IsWellFoundedOn(R, Nat)
  BY NatLessThanWellFounded
<1>2. R = {s \in Nat \X Nat : s[1] < s[2]}
  BY DEF OpToRel
<1> HIDE DEF R
<1>3. PICK x \in T : \A y \in T : ~(<<y, x>> \in R)
  BY <1>1, WFMin
<1>4. \A y \in T : x <= y
  <2> SUFFICES ASSUME NEW y \in T, ~(x <= y) PROVE FALSE
    OBVIOUS
  <2>1. y < x /\ <<y, x>> \in Nat \X Nat
    OBVIOUS
  <2>2. <<y, x>> \in R
    BY <1>2, <2>1
  <2>. QED  BY <1>3, <2>2
<1>. QED  BY <1>4

(* Band b of heap h is the queue s: no request twice, the pointers lead    *)
(* through s in both directions, and the counter is its length.            *)
Holds(h, b, s) ==
  /\ s \in Seq(Request)
  /\ \A i, j \in 1 .. Len(s) : s[i] = s[j] => i = j
  /\ h.head[b] = IF s = <<>> THEN NONE ELSE s[1]
  /\ h.tail[b] = IF s = <<>> THEN NONE ELSE s[Len(s)]
  /\ h.size[b] = Len(s)
  /\ \A i \in 1 .. Len(s) : /\ h.linked[s[i]]
                            /\ h.prev[s[i]] = IF i = 1 THEN NONE ELSE s[i - 1]
                            /\ h.next[s[i]] = IF i = Len(s) THEN NONE ELSE s[i + 1]

Elements(s) == {s[i] : i \in 1 .. Len(s)}

(* A sequence that names no request twice is as long as what it names.     *)
LEMMA Counted ==
  ASSUME NEW s \in Seq(Request), \A i, j \in 1 .. Len(s) : s[i] = s[j] => i = j
  PROVE  Cardinality(Elements(s)) = Len(s) /\ Len(s) <= Cardinality(Request)
<1>1. Len(s) \in Nat /\ s \in [1 .. Len(s) -> Request] /\ DOMAIN s = 1 .. Len(s)
  BY LenProperties
<1>2. s \in [1 .. Len(s) -> Elements(s)]
  BY <1>1 DEF Elements
<1>3. s \in Bijection(1 .. Len(s), Elements(s))
  BY <1>2 DEF Bijection, Injection, Surjection, IsInjective, Elements
<1>4. ExistsBijection(1 .. Len(s), Elements(s))
  BY <1>3 DEF ExistsBijection
<1>5. Cardinality(Elements(s)) = Len(s)
  BY <1>1, <1>4, FS_CountingElements
<1>6. Elements(s) \in SUBSET Request
  BY <1>1 DEF Elements
<1>. QED  BY <1>5, <1>6, RequestAssumption, FS_Subset

(* The walk of drain finds exactly the queue (request-queue.ts drain).     *)
LEMMA WalkFindsTheQueue ==
  ASSUME NEW h \in Heap, NEW b \in Band, NEW s, Holds(h, b, s)
  PROVE  Chain(h, b) = s
<1> DEFINE N == Cardinality(Request)
           Hop(hop) == hop = [i \in 1 .. N |->
                                IF i = 1 THEN h.head[b]
                                ELSE IF hop[i - 1] = NONE THEN NONE ELSE h.next[hop[i - 1]]]
           w == [i \in 1 .. N |-> IF i <= Len(s) THEN s[i] ELSE NONE]
<1>1. s \in Seq(Request) /\ Len(s) \in Nat /\ Len(s) <= N /\ N \in Nat
  BY Counted, FS_CardinalityType, RequestAssumption DEF Holds
<1>2. \A i \in 1 .. Len(s) : s[i] \in Request /\ s[i] # NONE
  BY <1>1, NoneAssumption
<1>3. Hop(w)
  <2> SUFFICES ASSUME NEW i \in 1 .. N
               PROVE  w[i] = IF i = 1 THEN h.head[b]
                             ELSE IF w[i - 1] = NONE THEN NONE ELSE h.next[w[i - 1]]
    BY Zenon
  <2>1. CASE i = 1
    BY <1>1, <2>1 DEF Holds
  <2>2. CASE i > 1 /\ i - 1 <= Len(s)
    <3>1. i - 1 \in 1 .. N /\ i - 1 \in 1 .. Len(s)
      BY <1>1, <2>2
    <3>2. w[i - 1] = s[i - 1] /\ w[i - 1] # NONE
      BY <1>2, <2>2, <3>1
    <3>3. h.next[s[i - 1]] = IF i - 1 = Len(s) THEN NONE ELSE s[i - 1 + 1]
      BY <3>1 DEF Holds
    <3>. QED  BY <1>1, <2>2, <3>2, <3>3
  <2>3. CASE i > 1 /\ ~(i - 1 <= Len(s))
    BY <1>1, <2>3
  <2>. QED  BY <2>1, <2>2, <2>3
<1>4. ASSUME NEW f, Hop(f) PROVE f = w
  <2> HIDE DEF w
  <2> DEFINE T == {i \in 1 .. N : f[i] # w[i]}
  <2>1. CASE T = {}
    <3>1. f = [i \in 1 .. N |-> f[i]] /\ w = [i \in 1 .. N |-> w[i]]
      BY <1>3, <1>4
    <3>. QED  BY <2>1, <3>1
  <2>2. CASE T # {}
    <3>1. T \in SUBSET Nat
      BY <1>1
    <3>2. PICK i \in T : \A j \in T : i <= j
      BY <2>2, <3>1, LeastNat
    <3>3. i \in 1 .. N /\ f[i] # w[i]
      BY <3>2
    <3>4. i = 1 \/ (i - 1 \in 1 .. N /\ f[i - 1] = w[i - 1])
      BY <1>1, <3>2, <3>3
    <3>. QED  BY <1>3, <1>4, <3>3, <3>4
  <2>. QED  BY <2>1, <2>2
<1>5. Chain(h, b) = [i \in {j \in 1 .. N : w[j] # NONE} |-> w[i]]
  <2> DEFINE hop == CHOOSE f : Hop(f)
  <2>1. Chain(h, b) = [i \in {j \in 1 .. N : hop[j] # NONE} |-> hop[i]]
    BY DEF Chain
  <2>2. hop = w
    BY <1>3, <1>4
  <2> HIDE DEF hop, w
  <2>. QED  BY <2>1, <2>2
<1>6. {j \in 1 .. N : w[j] # NONE} = 1 .. Len(s)
  BY <1>1, <1>2
<1>7. \A i \in 1 .. Len(s) : w[i] = s[i]
  BY <1>1
<1>8. Chain(h, b) = [i \in 1 .. Len(s) |-> s[i]]
  BY <1>5, <1>6, <1>7
<1>. QED  BY <1>1, <1>8, LenProperties
(* The queue s without its k-th request.                                   *)
Cut(s, k) == SubSeq(s, 1, k - 1) \o SubSeq(s, k + 1, Len(s))

LEMMA CutProperties ==
  ASSUME NEW s \in Seq(Request), NEW k \in 1 .. Len(s)
  PROVE  /\ Cut(s, k) \in Seq(Request) /\ Len(Cut(s, k)) = Len(s) - 1
         /\ \A i \in 1 .. Len(s) - 1 : Cut(s, k)[i] = IF i < k THEN s[i] ELSE s[i + 1]
<1> DEFINE a == SubSeq(s, 1, k - 1)
           z == SubSeq(s, k + 1, Len(s))
<1>1. Len(s) \in Nat /\ k \in Nat /\ k <= Len(s) /\ k >= 1 /\ \A i \in 1 .. Len(s) : s[i] \in Request
  BY LenProperties, ElementOfSeq
<1>2. /\ a \in Seq(Request) /\ Len(a) = k - 1
      /\ \A i \in 1 .. k - 1 : a[i] = s[i]
  <2>1. \A i \in 1 .. k - 1 : s[i] \in Request
    BY <1>1
  <2>2. /\ a \in Seq(Request) /\ Len(a) = IF 1 <= k - 1 THEN (k - 1) - 1 + 1 ELSE 0
        /\ \A i \in 1 .. (k - 1) - 1 + 1 : a[i] = s[1 + i - 1]
    BY <1>1, <2>1, SubSeqProperties
  <2>. QED  BY <1>1, <2>2
<1>3. /\ z \in Seq(Request) /\ Len(z) = Len(s) - k
      /\ \A i \in 1 .. Len(s) - k : z[i] = s[k + i]
  <2>1. \A i \in k + 1 .. Len(s) : s[i] \in Request
    BY <1>1
  <2>2. /\ z \in Seq(Request) /\ Len(z) = IF k + 1 <= Len(s) THEN Len(s) - (k + 1) + 1 ELSE 0
        /\ \A i \in 1 .. Len(s) - (k + 1) + 1 : z[i] = s[k + 1 + i - 1]
    BY <1>1, <2>1, SubSeqProperties
  <2>. QED  BY <1>1, <2>2
<1> HIDE DEF a, z
<1>4. /\ a \o z \in Seq(Request) /\ Len(a \o z) = Len(s) - 1
      /\ \A i \in 1 .. Len(s) - 1 : (a \o z)[i] = IF i <= k - 1 THEN a[i] ELSE z[i - (k - 1)]
  <2>1. /\ a \o z \in Seq(Request) /\ Len(a \o z) = Len(a) + Len(z)
        /\ \A i \in 1 .. Len(a) + Len(z) : (a \o z)[i] = IF i <= Len(a) THEN a[i] ELSE z[i - Len(a)]
    BY <1>2, <1>3, ConcatProperties
  <2>2. Len(a) + Len(z) = Len(s) - 1
    BY <1>1, <1>2, <1>3
  <2>. QED  BY <1>2, <2>1, <2>2
<1>5. ASSUME NEW i \in 1 .. Len(s) - 1
      PROVE  (a \o z)[i] = IF i < k THEN s[i] ELSE s[i + 1]
  <2>1. CASE i < k
    BY <1>1, <1>2, <1>4, <2>1
  <2>2. CASE ~(i < k)
    <3>1. i - (k - 1) \in 1 .. Len(s) - k
      BY <1>1, <2>2
    <3>2. z[i - (k - 1)] = s[k + (i - (k - 1))]
      BY <1>3, <3>1
    <3>3. k + (i - (k - 1)) = i + 1
      BY <1>1
    <3>. QED  BY <1>1, <1>4, <2>2, <3>2, <3>3
  <2>. QED  BY <2>1, <2>2
<1>. QED  BY <1>4, <1>5 DEF Cut, a, z

(* push appends, shift takes the first off, remove cuts its request out.   *)
LEMMA PushHolds ==
  ASSUME NEW h \in Heap, NEW b \in Band, NEW r \in Request, NEW s,
         Holds(h, b, s), r \notin Elements(s)
  PROVE  Holds(Push(h, b, r), b, Append(s, r))
<1> DEFINE g == Push(h, b, r)
           t == Append(s, r)
           n == Len(s)
<1>1. s \in Seq(Request) /\ n \in Nat /\ \A i \in 1 .. n : s[i] \in Request /\ s[i] # r
  BY DEF Holds, Elements
<1>2. /\ t \in Seq(Request) /\ Len(t) = n + 1 /\ t # <<>> /\ t[n + 1] = r
      /\ \A i \in 1 .. n : t[i] = s[i]
  BY <1>1
<1>3. /\ g.prev = [h.prev EXCEPT ![r] = h.tail[b]]
      /\ g.next = [x \in Request |-> IF x = r THEN NONE
                                     ELSE IF x = h.tail[b] THEN r ELSE h.next[x]]
      /\ g.linked = [h.linked EXCEPT ![r] = TRUE]
      /\ g.head = IF h.tail[b] = NONE THEN [h.head EXCEPT ![b] = r] ELSE h.head
      /\ g.tail = [h.tail EXCEPT ![b] = r]
      /\ g.size = [h.size EXCEPT ![b] = @ + 1]
  BY DEF Push
<1>4. /\ h.prev \in [Request -> Pointer] /\ h.next \in [Request -> Pointer]
      /\ h.linked \in [Request -> BOOLEAN]
      /\ h.head \in [Band -> Pointer] /\ h.tail \in [Band -> Pointer]
      /\ h.size \in [Band -> Int]
  BY DEF Heap
<1>5. h.tail[b] = IF n = 0 THEN NONE ELSE s[n]
  BY <1>1 DEF Holds
<1>6. h.head[b] = IF n = 0 THEN NONE ELSE s[1]
  BY <1>1 DEF Holds
<1>7. \A i, j \in 1 .. n : s[i] = s[j] => i = j
  BY DEF Holds
<1> HIDE DEF g, t, n
<1>8. \A i, j \in 1 .. n + 1 : t[i] = t[j] => i = j
  BY <1>1, <1>2, <1>7
<1>9. g.head[b] = t[1] /\ g.tail[b] = t[n + 1] /\ g.size[b] = n + 1
  BY <1>1, <1>2, <1>3, <1>4, <1>5, <1>6, NoneAssumption DEF Holds, n
<1>10. ASSUME NEW i \in 1 .. n + 1
       PROVE  /\ g.linked[t[i]]
              /\ g.prev[t[i]] = IF i = 1 THEN NONE ELSE t[i - 1]
              /\ g.next[t[i]] = IF i = n + 1 THEN NONE ELSE t[i + 1]
  <2>1. CASE i = n + 1
    <3>1. g.linked[r] /\ g.prev[r] = h.tail[b] /\ g.next[r] = NONE
      BY <1>3, <1>4
    <3>2. n # 0 => t[n] = s[n]
      BY <1>1, <1>2
    <3>. QED  BY <1>1, <1>2, <1>5, <2>1, <3>1, <3>2
  <2>2. CASE i \in 1 .. n
    <3>1. t[i] = s[i] /\ s[i] \in Request /\ s[i] # r
      BY <1>1, <1>2, <2>2
    <3>2. /\ h.linked[s[i]]
          /\ h.prev[s[i]] = IF i = 1 THEN NONE ELSE s[i - 1]
          /\ h.next[s[i]] = IF i = n THEN NONE ELSE s[i + 1]
      BY <2>2 DEF Holds, n
    <3>3. g.linked[s[i]] /\ g.prev[s[i]] = h.prev[s[i]]
      BY <1>3, <1>4, <3>1, <3>2
    <3>4. i = 1 \/ t[i - 1] = s[i - 1]
      BY <1>1, <1>2, <2>2
    <3>5. g.next[s[i]] = IF i = n THEN r ELSE s[i + 1]
      <4>1. CASE i = n
        BY <1>3, <1>5, <2>2, <3>1, <4>1, <1>1
      <4>2. CASE i # n
        <5>1. s[i] # h.tail[b]
          BY <1>1, <1>5, <1>7, <2>2, <4>2
        <5>. QED  BY <1>3, <3>1, <3>2, <4>2, <5>1
      <4>. QED  BY <4>1, <4>2
    <3>6. t[i + 1] = IF i = n THEN r ELSE s[i + 1]
      BY <1>1, <1>2, <2>2
    <3>7. i # n + 1
      BY <1>1, <2>2
    <3>. QED  BY <3>1, <3>2, <3>3, <3>4, <3>5, <3>6, <3>7
  <2>. QED  BY <1>1, <2>1, <2>2
<1>11. Holds(g, b, t)
  BY <1>2, <1>8, <1>9, <1>10 DEF Holds
<1>. QED  BY <1>11 DEF g, t

LEMMA ShiftHolds ==
  ASSUME NEW h \in Heap, NEW b \in Band, NEW s, Holds(h, b, s), s # <<>>
  PROVE  h.head[b] = s[1] /\ Holds(Shift(h, b), b, Tail(s))
<1> DEFINE g == Shift(h, b)
           t == Tail(s)
           n == Len(s)
           r == s[1]
<1>1. s \in Seq(Request) /\ n \in Nat \ {0} /\ \A i \in 1 .. n : s[i] \in Request
  BY EmptySeq DEF Holds
<1>2. t \in Seq(Request) /\ Len(t) = n - 1 /\ \A i \in 1 .. n - 1 : t[i] = s[i + 1]
  BY <1>1, HeadTailProperties
<1>3. h.head[b] = r
  BY DEF Holds
<1>4. h.next[r] = IF n = 1 THEN NONE ELSE s[2]
  <2>1. 1 \in 1 .. Len(s) /\ 1 + 1 = 2
    BY <1>1
  <2>2. h.next[s[1]] = IF 1 = Len(s) THEN NONE ELSE s[1 + 1]
    BY <2>1 DEF Holds
  <2>. QED  BY <2>1, <2>2
<1>5. /\ g.prev = [p \in Request |-> IF p = h.next[r] THEN NONE ELSE h.prev[p]]
      /\ g.next = h.next
      /\ g.linked = [h.linked EXCEPT ![r] = FALSE]
      /\ g.head = [h.head EXCEPT ![b] = h.next[r]]
      /\ g.tail = IF h.next[r] = NONE THEN [h.tail EXCEPT ![b] = NONE] ELSE h.tail
      /\ g.size = [h.size EXCEPT ![b] = @ - 1]
  BY <1>3 DEF Shift
<1>6. /\ h.prev \in [Request -> Pointer] /\ h.next \in [Request -> Pointer]
      /\ h.linked \in [Request -> BOOLEAN]
      /\ h.head \in [Band -> Pointer] /\ h.tail \in [Band -> Pointer]
      /\ h.size \in [Band -> Int]
  BY DEF Heap
<1>7. \A i, j \in 1 .. n : s[i] = s[j] => i = j
  BY DEF Holds
<1>8. h.tail[b] = s[n] /\ h.size[b] = n
  BY DEF Holds
<1> HIDE DEF g, t, n, r
<1>9. \A i, j \in 1 .. n - 1 : t[i] = t[j] => i = j
  <2> SUFFICES ASSUME NEW i \in 1 .. n - 1, NEW j \in 1 .. n - 1, t[i] = t[j] PROVE i = j
    OBVIOUS
  <2>1. i + 1 \in 1 .. n /\ j + 1 \in 1 .. n /\ s[i + 1] = s[j + 1]
    BY <1>1, <1>2
  <2>. QED  BY <1>7, <2>1
<1>10. t = <<>> <=> n = 1
  BY <1>1, <1>2, EmptySeq
<1>11. g.head[b] = IF t = <<>> THEN NONE ELSE t[1]
  BY <1>1, <1>2, <1>4, <1>5, <1>6, <1>10
<1>12. g.tail[b] = (IF t = <<>> THEN NONE ELSE t[n - 1]) /\ g.size[b] = n - 1
  <2>1. CASE n = 1
    BY <1>4, <1>5, <1>6, <1>8, <1>10, <2>1
  <2>2. CASE n # 1
    <3>1. h.next[r] # NONE /\ t[n - 1] = s[n]
      BY <1>1, <1>2, <1>4, <2>2, NoneAssumption
    <3>. QED  BY <1>5, <1>6, <1>8, <1>10, <2>2, <3>1
  <2>. QED  BY <2>1, <2>2
<1>13. ASSUME NEW i \in 1 .. n - 1
       PROVE  /\ g.linked[t[i]]
              /\ g.prev[t[i]] = IF i = 1 THEN NONE ELSE t[i - 1]
              /\ g.next[t[i]] = IF i = n - 1 THEN NONE ELSE t[i + 1]
  <2>1. i + 1 \in 1 .. n /\ 1 \in 1 .. n /\ t[i] = s[i + 1] /\ s[i + 1] \in Request /\ s[i + 1] # r
    BY <1>1, <1>2, <1>7 DEF r
  <2>2. /\ h.linked[s[i + 1]]
        /\ h.prev[s[i + 1]] = s[i]
        /\ h.next[s[i + 1]] = IF i + 1 = n THEN NONE ELSE s[i + 2]
    <3>1. /\ h.linked[s[i + 1]]
          /\ h.prev[s[i + 1]] = IF i + 1 = 1 THEN NONE ELSE s[(i + 1) - 1]
          /\ h.next[s[i + 1]] = IF i + 1 = n THEN NONE ELSE s[(i + 1) + 1]
      BY <2>1 DEF Holds, n
    <3>2. i + 1 # 1 /\ (i + 1) - 1 = i /\ (i + 1) + 1 = i + 2
      BY <1>1
    <3>. QED  BY <3>1, <3>2
  <2>3. g.linked[t[i]]
    BY <1>5, <1>6, <2>1, <2>2
  <2>4. g.next[t[i]] = IF i = n - 1 THEN NONE ELSE t[i + 1]
    <3>1. i # n - 1 => t[i + 1] = s[i + 2]
      <4>1. ASSUME i # n - 1 PROVE i + 1 \in 1 .. n - 1 /\ i + 2 = (i + 1) + 1
        BY <1>1, <4>1
      <4>. QED  BY <1>2, <4>1
    <3>2. i = n - 1 <=> i + 1 = n
      BY <1>1
    <3>. QED  BY <1>5, <2>1, <2>2, <3>1, <3>2
  <2>5. g.prev[t[i]] = IF i = 1 THEN NONE ELSE t[i - 1]
    <3>1. CASE i = 1
      <4>1. n # 1 /\ i + 1 = 2
        BY <1>1, <3>1
      <4>2. h.next[r] = t[i]
        BY <1>4, <2>1, <4>1
      <4>. QED  BY <1>5, <2>1, <3>1, <4>2
    <3>2. CASE i # 1
      <4>1. 2 \in 1 .. n /\ i + 1 # 2 /\ n # 1
        BY <1>1, <3>2
      <4>2. h.next[r] = s[2] /\ s[i + 1] # s[2]
        BY <1>4, <1>7, <2>1, <4>1
      <4>3. i - 1 \in 1 .. n - 1 /\ (i - 1) + 1 = i
        BY <1>1, <3>2
      <4>4. t[i - 1] = s[i]
        BY <1>2, <4>3
      <4>. QED  BY <1>5, <2>1, <2>2, <3>2, <4>2, <4>4
    <3>. QED  BY <3>1, <3>2
  <2>. QED  BY <2>3, <2>4, <2>5
<1>14. Holds(g, b, t)
  BY <1>2, <1>9, <1>11, <1>12, <1>13 DEF Holds
<1>. QED  BY <1>3, <1>14 DEF g, t, r
LEMMA UnlinkHolds ==
  ASSUME NEW h \in Heap, NEW b \in Band, NEW s, Holds(h, b, s), NEW k \in 1 .. Len(s)
  PROVE  Holds(Unlink(h, b, s[k]), b, Cut(s, k))
<1> DEFINE r == s[k]
           p == h.prev[r]
           x == h.next[r]
           g == Unlink(h, b, r)
           t == Cut(s, k)
           n == Len(s)
<1>1. s \in Seq(Request) /\ n \in Nat \ {0} /\ r \in Request /\ \A i \in 1 .. n : s[i] \in Request
  BY EmptySeq DEF Holds
<1>2. /\ t \in Seq(Request) /\ Len(t) = n - 1
      /\ \A i \in 1 .. n - 1 : t[i] = IF i < k THEN s[i] ELSE s[i + 1]
  BY <1>1, CutProperties
<1>3. /\ p = IF k = 1 THEN NONE ELSE s[k - 1]
      /\ x = IF k = n THEN NONE ELSE s[k + 1]
  BY DEF Holds
<1>4. /\ g.prev = [m \in Request |-> IF m = r THEN NONE ELSE IF m = x THEN p ELSE h.prev[m]]
      /\ g.next = [m \in Request |-> IF m = r THEN NONE ELSE IF m = p THEN x ELSE h.next[m]]
      /\ g.linked = [h.linked EXCEPT ![r] = FALSE]
      /\ g.head = IF p = NONE /\ h.head[b] = r THEN [h.head EXCEPT ![b] = x] ELSE h.head
      /\ g.tail = IF x = NONE /\ h.tail[b] = r THEN [h.tail EXCEPT ![b] = p] ELSE h.tail
      /\ g.size = [h.size EXCEPT ![b] = @ - 1]
  BY DEF Unlink
<1>5. /\ h.prev \in [Request -> Pointer] /\ h.next \in [Request -> Pointer]
      /\ h.linked \in [Request -> BOOLEAN]
      /\ h.head \in [Band -> Pointer] /\ h.tail \in [Band -> Pointer]
      /\ h.size \in [Band -> Int]
  BY DEF Heap
<1>6. \A i, j \in 1 .. n : s[i] = s[j] => i = j
  BY DEF Holds
<1>7. h.head[b] = s[1] /\ h.tail[b] = s[n] /\ h.size[b] = n
  BY <1>1 DEF Holds
<1>8. ASSUME NEW j \in 1 .. n
      PROVE  /\ h.linked[s[j]]
             /\ h.prev[s[j]] = IF j = 1 THEN NONE ELSE s[j - 1]
             /\ h.next[s[j]] = IF j = n THEN NONE ELSE s[j + 1]
  BY DEF Holds
<1>9. k \in 1 .. n /\ r = s[k]
  OBVIOUS
<1> HIDE DEF g, t, n, r, p, x
<1>10. \A i, j \in 1 .. n - 1 : t[i] = t[j] => i = j
  <2> SUFFICES ASSUME NEW i \in 1 .. n - 1, NEW j \in 1 .. n - 1, t[i] = t[j] PROVE i = j
    OBVIOUS
  <2>1. i \in 1 .. n /\ i + 1 \in 1 .. n /\ j \in 1 .. n /\ j + 1 \in 1 .. n
    BY <1>1
  <2>. QED  BY <1>2, <1>6, <1>9, <2>1
<1>11. t = <<>> <=> n = 1
  BY <1>1, <1>2, EmptySeq
<1>12. g.head[b] = IF t = <<>> THEN NONE ELSE t[1]
  <2>1. CASE k = 1
    <3>1. p = NONE /\ h.head[b] = r
      BY <1>3, <1>7, <1>9, <2>1
    <3>2. g.head[b] = x
      BY <1>4, <1>5, <3>1
    <3>3. n # 1 => 1 \in 1 .. n - 1 /\ t[1] = s[2]
      BY <1>1, <1>2, <2>1
    <3>. QED  BY <1>3, <1>11, <2>1, <3>2, <3>3
  <2>2. CASE k # 1
    <3>1. k - 1 \in 1 .. n /\ n # 1 /\ 1 \in 1 .. n - 1 /\ 1 < k
      BY <1>1, <1>9, <2>2
    <3>2. p \in Request
      BY <1>1, <1>3, <2>2, <3>1
    <3>3. g.head[b] = s[1]
      BY <1>4, <1>7, <3>2, NoneAssumption
    <3>. QED  BY <1>2, <1>11, <3>1, <3>3
  <2>. QED  BY <2>1, <2>2
<1>13. g.tail[b] = (IF t = <<>> THEN NONE ELSE t[n - 1]) /\ g.size[b] = n - 1
  <2>1. g.size[b] = n - 1
    BY <1>4, <1>5, <1>7
  <2>2. CASE k = n
    <3>1. x = NONE /\ h.tail[b] = r
      BY <1>3, <1>7, <1>9, <2>2
    <3>2. g.tail[b] = p
      BY <1>4, <1>5, <3>1
    <3>3. n # 1 => n - 1 \in 1 .. n - 1 /\ t[n - 1] = s[n - 1]
      BY <1>1, <1>2, <2>2
    <3>. QED  BY <1>3, <1>11, <2>1, <2>2, <3>2, <3>3
  <2>3. CASE k # n
    <3>1. k + 1 \in 1 .. n /\ n # 1 /\ n - 1 \in 1 .. n - 1 /\ ~(n - 1 < k) /\ (n - 1) + 1 = n
      BY <1>1, <1>9, <2>3
    <3>2. x \in Request
      BY <1>1, <1>3, <2>3, <3>1
    <3>3. g.tail[b] = s[n]
      BY <1>4, <1>7, <3>2, NoneAssumption
    <3>. QED  BY <1>2, <1>11, <2>1, <3>1, <3>3
  <2>. QED  BY <2>2, <2>3
<1>14. ASSUME NEW i \in 1 .. n - 1
       PROVE  /\ g.linked[t[i]]
              /\ g.prev[t[i]] = IF i = 1 THEN NONE ELSE t[i - 1]
              /\ g.next[t[i]] = IF i = n - 1 THEN NONE ELSE t[i + 1]
  <2>1. PICK j \in 1 .. n : j = IF i < k THEN i ELSE i + 1
    BY <1>1
  <2>2. t[i] = s[j] /\ j # k /\ s[j] # r /\ s[j] \in Request
    <3>1. t[i] = s[j] /\ j # k
      BY <1>1, <1>2, <1>9, <2>1
    <3>. QED  BY <1>1, <1>6, <1>9, <3>1
  <2>3. g.linked[t[i]]
    BY <1>4, <1>5, <1>8, <2>2
  <2>4. g.prev[t[i]] = IF i = 1 THEN NONE ELSE t[i - 1]
    <3>1. CASE j = k + 1
      <4>1. i = k /\ k # n /\ s[j] = x
        BY <1>1, <1>3, <1>9, <2>1, <3>1
      <4>2. g.prev[t[i]] = p
        BY <1>4, <2>2, <4>1
      <4>3. i # 1 => t[i - 1] = s[i - 1]
        <5>1. i # 1 => i - 1 \in 1 .. n - 1 /\ i - 1 < k
          BY <1>1, <4>1
        <5>. QED  BY <1>2, <5>1
      <4>. QED  BY <1>3, <4>1, <4>2, <4>3
    <3>2. CASE j # k + 1
      <4>1. s[j] # x
        <5>1. CASE k = n
          BY <1>3, <2>2, <5>1, NoneAssumption
        <5>2. CASE k # n
          <6>1. k + 1 \in 1 .. n
            BY <1>1, <1>9, <5>2
          <6>. QED  BY <1>3, <1>6, <3>2, <5>2, <6>1
        <5>. QED  BY <5>1, <5>2
      <4>2. g.prev[t[i]] = IF j = 1 THEN NONE ELSE s[j - 1]
        BY <1>4, <1>8, <2>2, <4>1
      <4>3. i = 1 <=> j = 1
        BY <1>1, <1>9, <2>1, <3>2
      <4>4. ASSUME i # 1 PROVE t[i - 1] = s[j - 1]
        <5>1. i - 1 \in 1 .. n - 1 /\ (i - 1 < k <=> i < k)
          BY <1>1, <1>9, <2>1, <3>2, <4>4
        <5>2. j - 1 = IF i < k THEN i - 1 ELSE (i - 1) + 1
          BY <1>1, <2>1
        <5>. QED  BY <1>2, <5>1, <5>2
      <4>. QED  BY <4>2, <4>3, <4>4
    <3>. QED  BY <3>1, <3>2
  <2>5. g.next[t[i]] = IF i = n - 1 THEN NONE ELSE t[i + 1]
    <3>1. CASE j = k - 1
      <4>1. i = k - 1 /\ k # 1 /\ s[j] = p
        BY <1>1, <1>3, <1>9, <2>1, <3>1
      <4>2. g.next[t[i]] = x
        BY <1>4, <2>2, <4>1
      <4>3. i = n - 1 <=> k = n
        BY <1>1, <1>9, <4>1
      <4>4. ASSUME i # n - 1 PROVE t[i + 1] = s[k + 1]
        <5>1. i + 1 \in 1 .. n - 1 /\ i + 1 = k
          BY <1>1, <1>9, <4>1, <4>4
        <5>. QED  BY <1>1, <1>2, <5>1
      <4>. QED  BY <1>3, <4>2, <4>3, <4>4
    <3>2. CASE j # k - 1
      <4>1. s[j] # p
        <5>1. CASE k = 1
          BY <1>3, <2>2, <5>1, NoneAssumption
        <5>2. CASE k # 1
          <6>1. k - 1 \in 1 .. n
            BY <1>1, <1>9, <5>2
          <6>. QED  BY <1>3, <1>6, <3>2, <5>2, <6>1
        <5>. QED  BY <5>1, <5>2
      <4>2. g.next[t[i]] = IF j = n THEN NONE ELSE s[j + 1]
        BY <1>4, <1>8, <2>2, <4>1
      <4>3. i = n - 1 <=> j = n
        BY <1>1, <1>9, <2>1, <3>2
      <4>4. ASSUME i # n - 1 PROVE t[i + 1] = s[j + 1]
        <5>1. i + 1 \in 1 .. n - 1 /\ (i + 1 < k <=> i < k)
          BY <1>1, <1>9, <2>1, <3>2, <4>4
        <5>2. j + 1 = IF i < k THEN i + 1 ELSE (i + 1) + 1
          BY <1>1, <2>1
        <5>. QED  BY <1>2, <5>1, <5>2
      <4>. QED  BY <4>2, <4>3, <4>4
    <3>. QED  BY <3>1, <3>2
  <2>. QED  BY <2>3, <2>4, <2>5
<1>15. Holds(g, b, t)
  BY <1>2, <1>10, <1>12, <1>13, <1>14 DEF Holds
<1>. QED  BY <1>15 DEF g, t, r
----------------------------------------------------------------------------
(* The bands of heap h are the lines L, and no request is in two of them.  *)
Lined(h, L) ==
  /\ \A b \in Band : Holds(h, b, L[b])
  /\ \A b, c \in Band : b # c => Elements(L[b]) \cap Elements(L[c]) = {}

Everyone(L) == UNION {Elements(L[b]) : b \in Band}

LEMMA HoldsNothing ==
  ASSUME NEW h, NEW b
  PROVE  Holds(h, b, <<>>) <=> h.head[b] = NONE /\ h.tail[b] = NONE /\ h.size[b] = 0
BY EmptySeq DEF Holds

(* A line is untouched by what changes neither its ends nor its nodes.     *)
LEMMA HoldsStays ==
  ASSUME NEW h, NEW g, NEW b, NEW s, Holds(h, b, s),
         g.head[b] = h.head[b], g.tail[b] = h.tail[b], g.size[b] = h.size[b],
         \A x \in Elements(s) : /\ g.linked[x] = h.linked[x]
                                /\ g.prev[x] = h.prev[x] /\ g.next[x] = h.next[x]
  PROVE  Holds(g, b, s)
<1>1. \A i \in 1 .. Len(s) : s[i] \in Elements(s)
  BY DEF Elements
<1>2. ASSUME NEW i \in 1 .. Len(s)
      PROVE  /\ g.linked[s[i]]
             /\ g.prev[s[i]] = IF i = 1 THEN NONE ELSE s[i - 1]
             /\ g.next[s[i]] = IF i = Len(s) THEN NONE ELSE s[i + 1]
  BY <1>1 DEF Holds
<1>. QED  BY <1>2 DEF Holds

LEMMA NewLined == Lined(EmptyHeap, [b \in Band |-> <<>>])
<1>1. \A b \in Band : Holds(EmptyHeap, b, <<>>)
  BY HoldsNothing DEF EmptyHeap
<1>2. Elements(<<>>) = {}
  BY EmptySeq DEF Elements
<1>. QED  BY <1>1, <1>2 DEF Lined

(* The lines when the line of band b becomes t, with nobody else in it     *)
(* than before but perhaps r, who was in no line.                          *)
LEMMA OneLineChanges ==
  ASSUME NEW h, NEW g, NEW L, L = [b \in Band |-> L[b]], Lined(h, L), NEW b \in Band, NEW t,
         Holds(g, b, t),
         \A c \in Band \ {b} : Holds(g, c, L[c]),
         \A c \in Band \ {b} : Elements(t) \cap Elements(L[c]) = {}
  PROVE  Lined(g, [L EXCEPT ![b] = t])
<1> DEFINE M == [L EXCEPT ![b] = t]
<1>1. M[b] = t /\ \A c \in Band \ {b} : M[c] = L[c]
  OBVIOUS
<1> HIDE DEF M
<1>2. \A c \in Band : Holds(g, c, M[c])
  BY <1>1
<1>3. ASSUME NEW c \in Band, NEW d \in Band, c # d PROVE Elements(M[c]) \cap Elements(M[d]) = {}
  <2>1. CASE c = b
    BY <1>1, <1>3, <2>1
  <2>2. CASE d = b
    BY <1>1, <1>3, <2>2
  <2>3. CASE c # b /\ d # b
    BY <1>1, <1>3, <2>3 DEF Lined
  <2>. QED  BY <2>1, <2>2, <2>3
<1>4. Lined(g, M)
  BY <1>2, <1>3 DEF Lined
<1>. QED  BY <1>4 DEF M

(* The first and the last of a line are in it, and so are the neighbours.  *)
LEMMA EndsInside ==
  ASSUME NEW h, NEW b, NEW s, Holds(h, b, s)
  PROVE  /\ h.head[b] # NONE => h.head[b] \in Elements(s)
         /\ h.tail[b] # NONE => h.tail[b] \in Elements(s)
         /\ \A x \in Elements(s) : /\ h.prev[x] # NONE => h.prev[x] \in Elements(s)
                                   /\ h.next[x] # NONE => h.next[x] \in Elements(s)
<1>1. s \in Seq(Request) /\ Len(s) \in Nat /\ (s # <<>> => 1 \in 1 .. Len(s) /\ Len(s) \in 1 .. Len(s))
  BY EmptySeq DEF Holds
<1>2. ASSUME NEW x \in Elements(s)
      PROVE  /\ h.prev[x] # NONE => h.prev[x] \in Elements(s)
             /\ h.next[x] # NONE => h.next[x] \in Elements(s)
  <2>1. PICK i \in 1 .. Len(s) : x = s[i]
    BY DEF Elements
  <2>2. /\ h.prev[x] = IF i = 1 THEN NONE ELSE s[i - 1]
        /\ h.next[x] = IF i = Len(s) THEN NONE ELSE s[i + 1]
    BY <2>1 DEF Holds
  <2>3. (i # 1 => i - 1 \in 1 .. Len(s)) /\ (i # Len(s) => i + 1 \in 1 .. Len(s))
    BY <1>1
  <2>. QED  BY <2>2, <2>3 DEF Elements
<1>3. /\ h.head[b] = IF s = <<>> THEN NONE ELSE s[1]
      /\ h.tail[b] = IF s = <<>> THEN NONE ELSE s[Len(s)]
  BY DEF Holds
<1>4. h.head[b] # NONE => h.head[b] \in Elements(s)
  BY <1>1, <1>3 DEF Elements
<1>5. h.tail[b] # NONE => h.tail[b] \in Elements(s)
  BY <1>1, <1>3 DEF Elements
<1>. QED  BY <1>2, <1>4, <1>5

LEMMA InRequest ==
  ASSUME NEW h, NEW b, NEW s, Holds(h, b, s)
  PROVE  Elements(s) \subseteq Request
BY ElementOfSeq DEF Holds, Elements

(* Who is in the line after an arrival, a service and a withdrawal.        *)
LEMMA Members ==
  ASSUME NEW s \in Seq(Request), \A i, j \in 1 .. Len(s) : s[i] = s[j] => i = j
  PROVE  /\ \A r \in Request : Elements(Append(s, r)) = Elements(s) \cup {r}
         /\ s # <<>> => Elements(Tail(s)) = Elements(s) \ {s[1]}
         /\ \A k \in 1 .. Len(s) : Elements(Cut(s, k)) = Elements(s) \ {s[k]}
<1>0. Len(s) \in Nat
  OBVIOUS
<1>1. ASSUME NEW r \in Request PROVE Elements(Append(s, r)) = Elements(s) \cup {r}
  <2> DEFINE t == Append(s, r)
  <2>1. Len(t) = Len(s) + 1 /\ t[Len(s) + 1] = r /\ \A i \in 1 .. Len(s) : t[i] = s[i]
    OBVIOUS
  <2> HIDE DEF t
  <2>. QED  BY <1>0, <2>1 DEF Elements, t
<1>2. ASSUME s # <<>> PROVE Elements(Tail(s)) = Elements(s) \ {s[1]}
  <2> DEFINE t == Tail(s)
  <2>1. Len(t) = Len(s) - 1 /\ \A i \in 1 .. Len(s) - 1 : t[i] = s[i + 1]
    BY <1>2, HeadTailProperties
  <2>2. Len(s) > 0
    BY <1>2, EmptySeq
  <2> HIDE DEF t
  <2>3. ASSUME NEW x \in Elements(t) PROVE x \in Elements(s) \ {s[1]}
    <3>1. PICK i \in 1 .. Len(s) - 1 : x = s[i + 1]
      BY <2>1 DEF Elements
    <3>2. i + 1 \in 1 .. Len(s) /\ i + 1 # 1 /\ 1 \in 1 .. Len(s)
      BY <1>0, <2>2
    <3>3. s[i + 1] # s[1]
      BY <3>2
    <3>. QED  BY <3>1, <3>2, <3>3 DEF Elements
  <2>4. ASSUME NEW x \in Elements(s) \ {s[1]} PROVE x \in Elements(t)
    <3>1. PICK j \in 1 .. Len(s) : x = s[j]
      BY DEF Elements
    <3>2. j - 1 \in 1 .. Len(s) - 1 /\ (j - 1) + 1 = j
      BY <1>0, <3>1
    <3>3. t[j - 1] = x
      BY <2>1, <3>1, <3>2
    <3>. QED  BY <2>1, <3>2, <3>3 DEF Elements
  <2>5. Elements(t) = Elements(s) \ {s[1]}
    BY <2>3, <2>4
  <2>. QED  BY <2>5 DEF t
<1>3. ASSUME NEW k \in 1 .. Len(s) PROVE Elements(Cut(s, k)) = Elements(s) \ {s[k]}
  <2> DEFINE t == Cut(s, k)
  <2>1. /\ Len(t) = Len(s) - 1
        /\ \A i \in 1 .. Len(s) - 1 : t[i] = IF i < k THEN s[i] ELSE s[i + 1]
    BY CutProperties
  <2> HIDE DEF t
  <2>2. ASSUME NEW x \in Elements(t) PROVE x \in Elements(s) \ {s[k]}
    <3>1. PICK i \in 1 .. Len(s) - 1 : x = IF i < k THEN s[i] ELSE s[i + 1]
      BY <2>1 DEF Elements
    <3>2. PICK j \in 1 .. Len(s) : j # k /\ x = s[j]
      BY <1>0, <3>1
    <3>. QED  BY <3>2 DEF Elements
  <2>3. ASSUME NEW x \in Elements(s) \ {s[k]} PROVE x \in Elements(t)
    <3>1. PICK j \in 1 .. Len(s) : x = s[j]
      BY DEF Elements
    <3>2. j # k
      BY <3>1
    <3>3. CASE j < k
      <4>1. j \in 1 .. Len(s) - 1
        BY <1>0, <3>3
      <4>. QED  BY <2>1, <3>1, <3>3, <4>1 DEF Elements
    <3>4. CASE k < j
      <4>1. j - 1 \in 1 .. Len(s) - 1 /\ ~(j - 1 < k) /\ (j - 1) + 1 = j
        BY <1>0, <3>4
      <4>. QED  BY <2>1, <3>1, <4>1 DEF Elements
    <3>. QED  BY <3>2, <3>3, <3>4
  <2>4. Elements(t) = Elements(s) \ {s[k]}
    BY <2>2, <2>3
  <2>. QED  BY <2>4 DEF t
<1>. QED  BY <1>1, <1>2, <1>3

(* enqueue appends to the line of its priority and leaves the others.      *)
LEMMA PushLined ==
  ASSUME NEW h \in Heap, NEW L, L = [b \in Band |-> L[b]], Lined(h, L), NEW b \in Band,
         NEW r \in Request, r \notin Everyone(L)
  PROVE  Lined(Push(h, b, r), [L EXCEPT ![b] = Append(@, r)])
<1> DEFINE g == Push(h, b, r)
           t == Append(L[b], r)
<1>1. \A c \in Band : Holds(h, c, L[c]) /\ r \notin Elements(L[c])
  BY DEF Lined, Everyone
<1>2. Holds(g, b, t)
  BY <1>1, PushHolds
<1>3. L[b] \in Seq(Request) /\ \A i, j \in 1 .. Len(L[b]) : L[b][i] = L[b][j] => i = j
  BY <1>1 DEF Holds
<1>4. Elements(t) = Elements(L[b]) \cup {r}
  BY <1>3, Members
<1>5. ASSUME NEW c \in Band \ {b} PROVE Holds(g, c, L[c]) /\ Elements(t) \cap Elements(L[c]) = {}
  <2>1. Holds(h, c, L[c]) /\ Elements(L[c]) \subseteq Request /\ Elements(L[b]) \cap Elements(L[c]) = {}
    BY <1>1, InRequest DEF Lined
  <2>2. g.head[c] = h.head[c] /\ g.tail[c] = h.tail[c] /\ g.size[c] = h.size[c]
    BY DEF Push, Heap
  <2>3. ASSUME NEW x \in Elements(L[c])
        PROVE  g.linked[x] = h.linked[x] /\ g.prev[x] = h.prev[x] /\ g.next[x] = h.next[x]
    <3>1. x \in Request /\ x # r /\ x # NONE
      BY <1>1, <2>1, NoneAssumption
    <3>2. x # h.tail[b]
      BY <1>1, <2>1, <3>1, EndsInside
    <3>. QED  BY <3>1, <3>2 DEF Push, Heap
  <2> HIDE DEF g
  <2>4. Holds(g, c, L[c])
    BY <2>1, <2>2, <2>3, HoldsStays
  <2>. QED  BY <1>1, <1>4, <2>1, <2>4
<1> HIDE DEF g, t
<1>6. Lined(g, [L EXCEPT ![b] = t])
  BY <1>2, <1>5, OneLineChanges
<1>. QED  BY <1>6 DEF g, t

(* dequeue serves the first of the first line that is not empty.           *)
LEMMA ServedFirst ==
  ASSUME NEW p \in PriorityQueues, NEW L, Lined(p.h, L), DequeueResult(p) # NONE
  PROVE  \E b \in Band : /\ b = FirstBand(Servable(p)) /\ Servable(p) # {}
                         /\ L[b] # <<>> /\ \A c \in Band : c < b => L[c] = <<>>
                         /\ DequeueResult(p) = L[b][1]
<1>1. \A c \in Band : Holds(p.h, c, L[c])
  BY DEF Lined
<1>2. ASSUME NEW c \in Band PROVE c \in Servable(p) <=> L[c] # <<>>
  <2>1. CASE L[c] = <<>>
    <3>1. p.h.head[c] = NONE
      BY <1>1, <2>1, HoldsNothing
    <3>. QED  BY <2>1, <3>1 DEF Servable
  <2>2. CASE L[c] # <<>>
    <3>1. L[c] \in Seq(Request) /\ p.h.head[c] = L[c][1] /\ p.h.size[c] = Len(L[c])
      BY <1>1, <2>2 DEF Holds
    <3>2. Len(L[c]) \in Nat /\ Len(L[c]) > 0
      BY <2>2, <3>1, EmptySeq
    <3>3. L[c][1] \in Request
      BY <3>1, <3>2, ElementOfSeq
    <3>. QED  BY <2>2, <3>1, <3>2, <3>3, NoneAssumption DEF Servable
  <2>. QED  BY <2>1, <2>2
<1>3. Servable(p) # {} /\ DequeueResult(p) = p.h.head[FirstBand(Servable(p))]
  BY DEF DequeueResult
<1> DEFINE b == FirstBand(Servable(p))
<1>4. b \in Servable(p) /\ \A c \in Servable(p) : b <= c
  BY <1>3, FirstBandIsLeast DEF Servable
<1> HIDE DEF b
<1>5. b \in Band /\ L[b] # <<>>
  BY <1>2, <1>4 DEF Servable
<1>6. ASSUME NEW c \in Band, c < b PROVE L[c] = <<>>
  BY <1>2, <1>4, <1>5, <1>6, BandAssumption
<1>7. DequeueResult(p) = L[b][1]
  BY <1>1, <1>3, <1>5 DEF Holds, b
<1>. QED  BY <1>3, <1>5, <1>6, <1>7 DEF b

LEMMA ShiftLined ==
  ASSUME NEW h \in Heap, NEW L, L = [b \in Band |-> L[b]], Lined(h, L), NEW b \in Band, L[b] # <<>>
  PROVE  /\ h.head[b] = L[b][1] /\ L[b][1] \in Elements(L[b])
         /\ Lined(Shift(h, b), [L EXCEPT ![b] = Tail(@)])
<1> DEFINE g == Shift(h, b)
           t == Tail(L[b])
           r == L[b][1]
<1>1. \A c \in Band : Holds(h, c, L[c])
  BY DEF Lined
<1>2. Holds(g, b, t) /\ h.head[b] = r
  BY <1>1, ShiftHolds
<1>3. L[b] \in Seq(Request) /\ \A i, j \in 1 .. Len(L[b]) : L[b][i] = L[b][j] => i = j
  BY <1>1 DEF Holds
<1>4. Elements(t) = Elements(L[b]) \ {r}
  BY <1>3, Members
<1>5. r \in Elements(L[b])
  <2>1. 1 \in 1 .. Len(L[b])
    BY <1>3, EmptySeq
  <2>. QED  BY <2>1 DEF Elements
<1>6. ASSUME NEW c \in Band \ {b} PROVE Holds(g, c, L[c]) /\ Elements(t) \cap Elements(L[c]) = {}
  <2>1. Holds(h, c, L[c]) /\ Elements(L[c]) \subseteq Request /\ Elements(L[b]) \cap Elements(L[c]) = {}
    BY <1>1, InRequest DEF Lined
  <2>2. g.head[c] = h.head[c] /\ g.tail[c] = h.tail[c] /\ g.size[c] = h.size[c]
    BY <1>2 DEF Shift, Heap
  <2>3. ASSUME NEW x \in Elements(L[c])
        PROVE  g.linked[x] = h.linked[x] /\ g.prev[x] = h.prev[x] /\ g.next[x] = h.next[x]
    <3>1. x \in Request /\ x # r /\ x # NONE
      BY <1>5, <2>1, NoneAssumption
    <3>2. x # h.next[r]
      BY <1>1, <1>5, <2>1, <3>1, EndsInside
    <3>. QED  BY <1>2, <3>1, <3>2 DEF Shift, Heap
  <2> HIDE DEF g
  <2>4. Holds(g, c, L[c])
    BY <2>1, <2>2, <2>3, HoldsStays
  <2>. QED  BY <1>4, <2>1, <2>4
<1> HIDE DEF g, t
<1>7. Lined(g, [L EXCEPT ![b] = t])
  BY <1>2, <1>6, OneLineChanges
<1>. QED  BY <1>2, <1>5, <1>7 DEF g, t

LEMMA UnlinkLined ==
  ASSUME NEW h \in Heap, NEW L, L = [b \in Band |-> L[b]], Lined(h, L), NEW b \in Band,
         NEW k \in 1 .. Len(L[b])
  PROVE  Lined(Unlink(h, b, L[b][k]), [L EXCEPT ![b] = Cut(@, k)])
<1> DEFINE r == L[b][k]
           g == Unlink(h, b, r)
           t == Cut(L[b], k)
<1>1. \A c \in Band : Holds(h, c, L[c])
  BY DEF Lined
<1>2. Holds(g, b, t)
  BY <1>1, UnlinkHolds
<1>3. L[b] \in Seq(Request) /\ \A i, j \in 1 .. Len(L[b]) : L[b][i] = L[b][j] => i = j
  BY <1>1 DEF Holds
<1>4. Elements(t) = Elements(L[b]) \ {r}
  BY <1>3, Members
<1>5. r \in Elements(L[b])
  BY DEF Elements
<1>6. ASSUME NEW c \in Band \ {b} PROVE Holds(g, c, L[c]) /\ Elements(t) \cap Elements(L[c]) = {}
  <2>1. Holds(h, c, L[c]) /\ Elements(L[c]) \subseteq Request /\ Elements(L[b]) \cap Elements(L[c]) = {}
    BY <1>1, InRequest DEF Lined
  <2>2. g.head[c] = h.head[c] /\ g.tail[c] = h.tail[c] /\ g.size[c] = h.size[c]
    BY DEF Unlink, Heap
  <2>3. ASSUME NEW x \in Elements(L[c])
        PROVE  g.linked[x] = h.linked[x] /\ g.prev[x] = h.prev[x] /\ g.next[x] = h.next[x]
    <3>1. x \in Request /\ x # r /\ x # NONE
      BY <1>5, <2>1, NoneAssumption
    <3>2. x # h.next[r] /\ x # h.prev[r]
      BY <1>1, <1>5, <2>1, <3>1, EndsInside
    <3>. QED  BY <3>1, <3>2 DEF Unlink, Heap
  <2> HIDE DEF g
  <2>4. Holds(g, c, L[c])
    BY <2>1, <2>2, <2>3, HoldsStays
  <2>. QED  BY <1>4, <2>1, <2>4
<1> HIDE DEF g, t, r
<1>7. Lined(g, [L EXCEPT ![b] = t])
  BY <1>2, <1>6, OneLineChanges
<1>. QED  BY <1>7 DEF g, t, r

(* What a walk of each band finds.                                         *)
LEMMA WalkFindsTheLines ==
  ASSUME NEW h \in Heap, NEW L, L = [b \in Band |-> L[b]], Lined(h, L)
  PROVE  /\ [b \in Band |-> Chain(h, b)] = L
         /\ \A b \in Band : Reachable(h, b) = Elements(L[b])
<1>1. \A b \in Band : Holds(h, b, L[b]) /\ Chain(h, b) = L[b]
  BY WalkFindsTheQueue DEF Lined
<1>2. \A b \in Band : DOMAIN L[b] = 1 .. Len(L[b])
  BY <1>1, LenProperties DEF Holds
<1>3. [b \in Band |-> Chain(h, b)] = [b \in Band |-> L[b]]
  BY <1>1
<1>. QED  BY <1>1, <1>2, <1>3 DEF Reachable, Elements

(* remove, offered a request of band b, takes it out of its own line or    *)
(* strays.                                                                 *)
LEMMA RemoveLined ==
  ASSUME NEW p \in PriorityQueues, NEW L, L = [b \in Band |-> L[b]], Lined(p.h, L),
         NEW b \in Band, NEW k \in 1 .. Len(L[b]), ~Strays(p, L[b][k])
  PROVE  /\ Lined(Remove(p, L[b][k]).h, [L EXCEPT ![b] = Cut(@, k)])
         /\ Remove(p, L[b][k]).total = p.total - 1
<1> DEFINE s == L[b]
           r == s[k]
           A == {c \in Band : SeemsInBand(p.h, c, r)}
<1>0. /\ p.h \in Heap /\ s \in Seq(Request) /\ Holds(p.h, b, s)
      /\ Len(s) \in Nat /\ r \in Request /\ k \in Nat /\ k >= 1 /\ k <= Len(s)
  BY DEF PriorityQueues, Lined, Holds
<1>1. p.h.linked[r] /\ SeemsInBand(p.h, b, r)
  <2>1. p.h.linked[r] /\ p.h.prev[r] = IF k = 1 THEN NONE ELSE s[k - 1]
    BY <1>0 DEF Holds
  <2>2. CASE k = 1
    <3>1. p.h.head[b] = r
      BY <1>0, <2>2, EmptySeq DEF Holds
    <3>. QED  BY <2>1, <3>1 DEF SeemsInBand
  <2>3. CASE k # 1
    <3>1. k - 1 \in 1 .. Len(s)
      BY <1>0, <2>3
    <3>2. p.h.prev[r] \in Request
      BY <1>0, <2>1, <2>3, <3>1, ElementOfSeq
    <3>. QED  BY <2>1, <3>2, NoneAssumption DEF SeemsInBand
  <2>. QED  BY <2>2, <2>3
<1>2. b \in A /\ A \in SUBSET Band
  BY <1>1
<1>3. r \in Reachable(p.h, FirstBand(A)) /\ FirstBand(A) \in Band
  BY <1>1, <1>2, FirstBandIsLeast DEF Strays
<1>4. FirstBand(A) = b
  <2>1. r \in Elements(s)
    BY DEF Elements
  <2>2. r \in Elements(L[FirstBand(A)])
    BY <1>0, <1>3, WalkFindsTheLines
  <2>. QED  BY <1>3, <2>1, <2>2 DEF Lined
<1>5. Remove(p, r).h = Unlink(p.h, b, r) /\ Remove(p, r).total = p.total - 1
  BY <1>1, <1>2, <1>4 DEF Remove
<1>. QED  BY <1>0, <1>5, UnlinkLined

LEMMA DrainLined ==
  ASSUME NEW p \in PriorityQueues, NEW L, L = [b \in Band |-> L[b]], Lined(p.h, L)
  PROVE  /\ Lined(DrainQueue(p).h, [b \in Band |-> <<>>])
         /\ Drained(p) = Everyone(L)
<1>1. \A b \in Band : Holds(DrainQueue(p).h, b, <<>>)
  BY HoldsNothing DEF DrainQueue
<1>2. Elements(<<>>) = {}
  BY EmptySeq DEF Elements
<1>3. \A b \in Band : Reachable(p.h, b) = Elements(L[b])
  BY WalkFindsTheLines DEF PriorityQueues
<1>4. Drained(p) = Everyone(L)
  BY <1>3 DEF Drained, Everyone
<1>. QED  BY <1>1, <1>2, <1>4 DEF Lined

(* Who is in the lines after one of them has got or lost r.                *)
LEMMA EveryoneJoins ==
  ASSUME NEW L, L = [b \in Band |-> L[b]], NEW b \in Band, NEW t, NEW r,
         Elements(t) = Elements(L[b]) \cup {r}
  PROVE  Everyone([L EXCEPT ![b] = t]) = Everyone(L) \cup {r}
<1> DEFINE M == [L EXCEPT ![b] = t]
<1>1. M[b] = t /\ \A c \in Band \ {b} : M[c] = L[c]
  OBVIOUS
<1> HIDE DEF M
<1>2. Everyone(M) = Elements(t) \cup UNION {Elements(L[c]) : c \in Band \ {b}}
  BY <1>1 DEF Everyone
<1>3. Everyone(L) = Elements(L[b]) \cup UNION {Elements(L[c]) : c \in Band \ {b}}
  BY DEF Everyone
<1>4. Everyone(M) = Everyone(L) \cup {r}
  BY <1>2, <1>3
<1>. QED  BY <1>4 DEF M

Without(S, r) == S \ {r}

LEMMA EveryoneLeaves ==
  ASSUME NEW L, L = [b \in Band |-> L[b]], NEW b \in Band, NEW t, NEW r,
         NEW h, Lined(h, L), r \in Elements(L[b]), Elements(t) = Without(Elements(L[b]), r)
  PROVE  Everyone([L EXCEPT ![b] = t]) = Without(Everyone(L), r)
<1> DEFINE M == [L EXCEPT ![b] = t]
<1>1. M[b] = t /\ \A c \in Band \ {b} : M[c] = L[c]
  OBVIOUS
<1> HIDE DEF M
<1>2. Everyone(M) = Elements(t) \cup UNION {Elements(L[c]) : c \in Band \ {b}}
  BY <1>1 DEF Everyone
<1>3. Everyone(L) = Elements(L[b]) \cup UNION {Elements(L[c]) : c \in Band \ {b}}
  BY DEF Everyone
<1>4. Everyone(M) = Without(Everyone(L), r)
  BY <1>2, <1>3 DEF Lined, Without
<1>. QED  BY <1>4 DEF M
----------------------------------------------------------------------------
(* The lines of the bands.                                                 *)
Lines == [b \in Band |-> Chain(queue.h, b)]

(* The inductive invariant: until a remove strays, the queue is the lines  *)
(* of the waiting requests.                                                *)
Sound == /\ Lined(queue.h, Lines)
         /\ Waiting = Everyone(Lines)
         /\ queue.total = Cardinality(Waiting)
         /\ \A r \in Request : fate[r] # "late"

QueueInv == QueueTypeOK /\ (~strayed => Sound)

(* Lines found by hand are the ones a walk finds.                          *)
LEMMA FoundLines ==
  ASSUME QueueTypeOK, NEW L, L = [b \in Band |-> L[b]], Lined(queue.h, L), Waiting = Everyone(L),
         queue.total = Cardinality(Waiting), \A r \in Request : fate[r] # "late"
  PROVE  Sound /\ Lines = L
<1>1. queue.h \in Heap
  BY DEF QueueTypeOK, PriorityQueues
<1>2. Lines = L
  BY <1>1, WalkFindsTheLines DEF Lines
<1>. QED  BY <1>2 DEF Sound

LEMMA LinesBasics ==
  ASSUME QueueTypeOK, Sound
  PROVE  /\ queue \in PriorityQueues /\ queue.h \in Heap /\ queue.total \in Int
         /\ fate \in [Request -> Fate]
         /\ Lines = [b \in Band |-> Lines[b]] /\ IsFiniteSet(Waiting)
         /\ Waiting \subseteq Request
<1>1. Waiting \subseteq Request
  BY DEF Waiting
<1>2. IsFiniteSet(Waiting)
  BY <1>1, RequestAssumption, FS_Subset
<1>. QED  BY <1>1, <1>2 DEF QueueTypeOK, PriorityQueues, Lines

LEMMA FoundLinesNext ==
  ASSUME QueueTypeOK', NEW L, L = [b \in Band |-> L[b]], Lined(queue'.h, L), Waiting' = Everyone(L),
         queue'.total = Cardinality(Waiting'), \A r \in Request : fate'[r] # "late"
  PROVE  Sound' /\ Lines' = L
<1>1. queue'.h \in Heap
  BY DEF QueueTypeOK, PriorityQueues
<1>2. Lines' = L
  BY <1>1, WalkFindsTheLines DEF Lines
<1>. QED  BY <1>2 DEF Sound

(* What each step makes of the lines.                                      *)
LEMMA AdmitStep ==
  ASSUME QueueTypeOK, Sound, QueueTypeOK', NEW r \in Request, NEW b \in Band, Admit(r, b)
  PROVE  Sound' /\ Lines' = [Lines EXCEPT ![b] = Append(@, r)]
<1> DEFINE M == [Lines EXCEPT ![b] = Append(@, r)]
<1>0. /\ queue \in PriorityQueues /\ queue.h \in Heap /\ queue.total \in Int
      /\ fate \in [Request -> Fate]
      /\ Lines = [c \in Band |-> Lines[c]] /\ IsFiniteSet(Waiting)
  BY LinesBasics
<1>1. fate[r] = "new" /\ queue' = Enqueue(queue, r, b) /\ fate' = [fate EXCEPT ![r] = "waiting"]
  BY DEF Admit
<1>2. r \notin Waiting /\ Waiting' = Waiting \cup {r}
  BY <1>0, <1>1 DEF Waiting
<1>3. queue'.h = Push(queue.h, b, r) /\ queue'.total = queue.total + 1
  BY <1>1 DEF Enqueue
<1>4. Lined(queue.h, Lines) /\ r \notin Everyone(Lines)
  BY <1>2 DEF Sound
<1>5. Lined(queue'.h, M)
  BY <1>0, <1>3, <1>4, PushLined
<1>6. /\ Lines[b] \in Seq(Request)
      /\ \A i, j \in 1 .. Len(Lines[b]) : Lines[b][i] = Lines[b][j] => i = j
  BY <1>4 DEF Lined, Holds
<1>7. Elements(Append(Lines[b], r)) = Elements(Lines[b]) \cup {r}
  BY <1>6, Members
<1>8. Everyone(M) = Everyone(Lines) \cup {r}
  <2> DEFINE t == Append(Lines[b], r)
  <2>0. Elements(t) = Elements(Lines[b]) \cup {r}
    BY <1>7
  <2> HIDE DEF t
  <2>1. Everyone([Lines EXCEPT ![b] = t]) = Everyone(Lines) \cup {r}
    BY <1>0, <2>0, EveryoneJoins
  <2>. QED  BY <2>1 DEF t
<1>9. Cardinality(Waiting') = Cardinality(Waiting) + 1
  BY <1>0, <1>2, FS_AddElement
<1>10. /\ M = [c \in Band |-> M[c]] /\ Waiting' = Everyone(M)
       /\ queue'.total = Cardinality(Waiting') /\ \A x \in Request : fate'[x] # "late"
  BY <1>0, <1>1, <1>2, <1>3, <1>8, <1>9 DEF Sound
<1> HIDE DEF M
<1>11. Sound' /\ Lines' = M
  BY <1>5, <1>10, FoundLinesNext
<1>. QED  BY <1>11 DEF M

LEMMA DispatchStep ==
  ASSUME QueueTypeOK, Sound, QueueTypeOK', Dispatch
  PROVE  /\ Sound'
         /\ \E b \in Band : /\ Lines[b] # <<>> /\ \A c \in Band : c < b => Lines[c] = <<>>
                            /\ Lines' = [Lines EXCEPT ![b] = Tail(@)]
                            /\ fate' = [fate EXCEPT ![Lines[b][1]] = "served"]
<1>0. /\ queue \in PriorityQueues /\ queue.h \in Heap /\ queue.total \in Int
      /\ fate \in [Request -> Fate]
      /\ Lines = [c \in Band |-> Lines[c]] /\ IsFiniteSet(Waiting) /\ Waiting \subseteq Request
  BY LinesBasics
<1>1. /\ DequeueResult(queue) # NONE /\ queue' = Dequeue(queue)
      /\ fate' = [fate EXCEPT ![DequeueResult(queue)] = IF @ = "waiting" THEN "served" ELSE "late"]
  BY DEF Dispatch
<1>2. Lined(queue.h, Lines) /\ Waiting = Everyone(Lines)
  BY DEF Sound
<1>3. PICK b \in Band : /\ b = FirstBand(Servable(queue)) /\ Servable(queue) # {}
                        /\ Lines[b] # <<>> /\ \A c \in Band : c < b => Lines[c] = <<>>
                        /\ DequeueResult(queue) = Lines[b][1]
  BY <1>0, <1>1, <1>2, ServedFirst
<1> DEFINE M == [Lines EXCEPT ![b] = Tail(@)]
           r == Lines[b][1]
<1>4. queue'.h = Shift(queue.h, b) /\ queue'.total = queue.total - 1
  BY <1>1, <1>3 DEF Dequeue
<1>5. Lined(queue'.h, M) /\ r \in Elements(Lines[b])
  BY <1>0, <1>2, <1>3, <1>4, ShiftLined
<1>6. r \in Waiting
  BY <1>2, <1>5 DEF Everyone
<1>7. fate' = [fate EXCEPT ![r] = "served"]
  BY <1>1, <1>3, <1>6 DEF Waiting
<1>8. Waiting' = Waiting \ {r}
  BY <1>0, <1>6, <1>7 DEF Waiting
<1>9. /\ Lines[b] \in Seq(Request)
      /\ \A i, j \in 1 .. Len(Lines[b]) : Lines[b][i] = Lines[b][j] => i = j
  BY <1>2 DEF Lined, Holds
<1>10. Elements(Tail(Lines[b])) = Elements(Lines[b]) \ {r}
  BY <1>3, <1>9, Members
<1>12. Everyone(M) = Everyone(Lines) \ {r}
  <2> DEFINE t == Tail(Lines[b])
  <2>0. Elements(t) = Without(Elements(Lines[b]), r)
    BY <1>10 DEF Without
  <2> HIDE DEF t, r, M
  <2>1. Everyone([Lines EXCEPT ![b] = t]) = Without(Everyone(Lines), r)
    BY <1>0, <1>2, <1>5, <2>0, EveryoneLeaves
  <2>. QED  BY <2>1 DEF t, M, Without
<1>13. Cardinality(Waiting') = Cardinality(Waiting) - 1
  BY <1>0, <1>6, <1>8, FS_RemoveElement
<1>14. /\ M = [c \in Band |-> M[c]] /\ Waiting' = Everyone(M)
       /\ queue'.total = Cardinality(Waiting') /\ \A x \in Request : fate'[x] # "late"
  BY <1>0, <1>2, <1>4, <1>7, <1>8, <1>12, <1>13 DEF Sound
<1> HIDE DEF M
<1>15. Sound' /\ Lines' = M
  BY <1>5, <1>14, FoundLinesNext
<1>. QED  BY <1>3, <1>7, <1>15 DEF M

LEMMA TimeoutStep ==
  ASSUME QueueTypeOK, Sound, QueueTypeOK', NEW r \in Request, TimeOut(r), ~Strays(queue, r)
  PROVE  /\ Sound'
         /\ \E b \in Band : \E k \in 1 .. Len(Lines[b]) :
              Lines[b][k] = r /\ Lines' = [Lines EXCEPT ![b] = Cut(@, k)]
<1>0. /\ queue \in PriorityQueues /\ queue.h \in Heap /\ queue.total \in Int
      /\ fate \in [Request -> Fate]
      /\ Lines = [c \in Band |-> Lines[c]] /\ IsFiniteSet(Waiting) /\ Waiting \subseteq Request
  BY LinesBasics
<1>1. fate[r] = "waiting" /\ queue' = Remove(queue, r) /\ fate' = [fate EXCEPT ![r] = "timedOut"]
  BY DEF TimeOut
<1>2. Lined(queue.h, Lines) /\ Waiting = Everyone(Lines) /\ r \in Waiting
  BY <1>1 DEF Sound, Waiting
<1>3. PICK b \in Band : r \in Elements(Lines[b])
  BY <1>2 DEF Everyone
<1>4. PICK k \in 1 .. Len(Lines[b]) : Lines[b][k] = r
  BY <1>3 DEF Elements
<1> DEFINE M == [Lines EXCEPT ![b] = Cut(@, k)]
<1>5. Lined(queue'.h, M) /\ queue'.total = queue.total - 1
  BY <1>0, <1>1, <1>2, <1>4, RemoveLined
<1>6. Waiting' = Waiting \ {r}
  BY <1>0, <1>1 DEF Waiting
<1>7. /\ Lines[b] \in Seq(Request)
      /\ \A i, j \in 1 .. Len(Lines[b]) : Lines[b][i] = Lines[b][j] => i = j
  BY <1>2 DEF Lined, Holds
<1>8. Elements(Cut(Lines[b], k)) = Elements(Lines[b]) \ {r}
  BY <1>4, <1>7, Members
<1>10. Everyone(M) = Everyone(Lines) \ {r}
  <2> DEFINE t == Cut(Lines[b], k)
  <2>0. Elements(t) = Without(Elements(Lines[b]), r)
    BY <1>8 DEF Without
  <2> HIDE DEF t
  <2>1. Everyone([Lines EXCEPT ![b] = t]) = Without(Everyone(Lines), r)
    BY <1>0, <1>2, <1>3, <2>0, EveryoneLeaves
  <2>. QED  BY <2>1 DEF t, Without
<1>11. Cardinality(Waiting') = Cardinality(Waiting) - 1
  BY <1>0, <1>2, <1>6, FS_RemoveElement
<1>12. /\ M = [c \in Band |-> M[c]] /\ Waiting' = Everyone(M)
       /\ queue'.total = Cardinality(Waiting') /\ \A x \in Request : fate'[x] # "late"
  BY <1>0, <1>1, <1>2, <1>5, <1>6, <1>10, <1>11 DEF Sound
<1> HIDE DEF M
<1>13. Sound' /\ Lines' = M
  BY <1>5, <1>12, FoundLinesNext
<1>. QED  BY <1>4, <1>13 DEF M

LEMMA ShutdownStep ==
  ASSUME QueueTypeOK, Sound, QueueTypeOK', Shutdown
  PROVE  /\ Sound' /\ Lines' = [b \in Band |-> <<>>]
         /\ fate' = [r \in Request |-> IF fate[r] = "waiting" THEN "dropped" ELSE fate[r]]
<1> DEFINE M == [b \in Band |-> <<>>]
<1>0. /\ queue \in PriorityQueues /\ fate \in [Request -> Fate]
      /\ Lines = [c \in Band |-> Lines[c]]
  BY LinesBasics
<1>1. Lined(queue'.h, M) /\ Drained(queue) = Waiting
  BY <1>0, DrainLined DEF Shutdown, Sound
<1>2. fate' = [r \in Request |-> IF fate[r] = "waiting" THEN "dropped" ELSE fate[r]]
  BY <1>1 DEF Shutdown, Waiting
<1>3. Waiting' = {}
  BY <1>2 DEF Waiting
<1>4. Everyone(M) = {}
  BY EmptySeq DEF Everyone, Elements
<1>5. queue'.total = Cardinality(Waiting')
  BY <1>3, FS_EmptySet DEF Shutdown, DrainQueue
<1>6. \A x \in Request : fate'[x] # "late"
  BY <1>2 DEF Sound
<1>7. M = [c \in Band |-> M[c]]
  OBVIOUS
<1> HIDE DEF M
<1>8. Sound' /\ Lines' = M
  BY <1>1, <1>3, <1>4, <1>5, <1>6, <1>7, FoundLinesNext
<1>. QED  BY <1>2, <1>8 DEF M

LEMMA InitQueue == QueueInit => QueueInv /\ Lines = [b \in Band |-> <<>>]
<1> SUFFICES ASSUME QueueInit PROVE QueueInv /\ Lines = [b \in Band |-> <<>>]
  OBVIOUS
<1> DEFINE M == [b \in Band |-> <<>>]
<1>1. QueueTypeOK
  BY InitType
<1>2. Lined(queue.h, M)
  BY NewLined DEF QueueInit, NewPriorityQueue
<1>3. Waiting = {} /\ \A r \in Request : fate[r] # "late"
  BY DEF QueueInit, Waiting
<1>4. Everyone(M) = {}
  BY EmptySeq DEF Everyone, Elements
<1>5. queue.total = Cardinality(Waiting)
  BY <1>3, FS_EmptySet DEF QueueInit, NewPriorityQueue
<1>6. M = [c \in Band |-> M[c]]
  OBVIOUS
<1> HIDE DEF M
<1>7. Sound /\ Lines = M
  BY <1>1, <1>2, <1>3, <1>4, <1>5, <1>6, FoundLines
<1>. QED  BY <1>1, <1>7 DEF QueueInv, M

LEMMA StepQueue == QueueInv /\ [QueueNext]_queueVars => QueueInv'
<1> SUFFICES ASSUME QueueInv, [QueueNext]_queueVars, ~strayed' PROVE Sound'
  BY StepType DEF QueueInv
<1>0. QueueTypeOK /\ QueueTypeOK'
  BY StepType DEF QueueInv
<1>1. ~strayed
  BY DEF QueueNext, Admit, Dispatch, TimeOut, Shutdown, queueVars
<1>2. Sound
  BY <1>1 DEF QueueInv
<1>3. ASSUME NEW r \in Request, NEW b \in UsedBand, Admit(r, b) PROVE Sound'
  BY <1>0, <1>2, <1>3, AdmitStep, UsedBandAssumption
<1>4. CASE Dispatch
  BY <1>0, <1>2, <1>4, DispatchStep
<1>5. ASSUME NEW r \in Request, TimeOut(r) PROVE Sound'
  <2>1. ~Strays(queue, r)
    BY <1>5 DEF TimeOut
  <2>. QED  BY <1>0, <1>2, <1>5, <2>1, TimeoutStep
<1>6. CASE Shutdown
  BY <1>0, <1>2, <1>6, ShutdownStep
<1>7. CASE UNCHANGED queueVars
  BY <1>2, <1>7 DEF queueVars, Sound, Waiting, Lines
<1>. QED  BY <1>3, <1>4, <1>5, <1>6, <1>7 DEF QueueNext

LEMMA AlwaysQueue == QueueSpec => []QueueInv
BY InitQueue, StepQueue, PTL DEF QueueSpec

(* Until a remove strays into another band, the queue is sound, whatever   *)
(* the priorities and the number of requests: the pointers, the tail and   *)
(* the counters agree with a walk, the total counts the waiting requests,  *)
(* and dequeue can reach each (request-queue.ts, priority-queue.ts).       *)
THEOREM QueueStaysSound == QueueSpec => []QueueIsSound
<1>1. ASSUME QueueInv, ~strayed PROVE WellLinked /\ DepthIsExact /\ WaitingIsReachable
  <2>0. /\ QueueTypeOK /\ Sound /\ queue \in PriorityQueues /\ queue.h \in Heap
        /\ Lines = [b \in Band |-> Lines[b]]
    BY <1>1, LinesBasics DEF QueueInv
  <2>1. \A b \in Band : Holds(queue.h, b, Chain(queue.h, b))
    BY <2>0 DEF Sound, Lined, Lines
  <2>2. WellLinked
    <3> SUFFICES ASSUME NEW b \in Band, NEW c, c = Chain(queue.h, b)
                 PROVE  LET n == Len(c)
                        IN  /\ queue.h.size[b] = n
                            /\ queue.h.tail[b] = IF n = 0 THEN NONE ELSE c[n]
                            /\ \A i \in 1 .. n : queue.h.linked[c[i]]
                            /\ \A i \in 1 .. n : queue.h.prev[c[i]] = IF i = 1 THEN NONE ELSE c[i - 1]
      BY DEF WellLinked
    <3>1. Holds(queue.h, b, c)
      BY <2>1
    <3>2. Len(c) = 0 <=> c = <<>>
      BY <3>1, EmptySeq DEF Holds
    <3>. QED  BY <3>1, <3>2 DEF Holds
  <2>3. DepthIsExact
    BY <2>0 DEF Sound, DepthIsExact
  <2>4. WaitingIsReachable
    BY <2>0, DrainLined DEF Sound, WaitingIsReachable
  <2>. QED  BY <2>2, <2>3, <2>4
<1>2. QueueInv => QueueIsSound
  BY <1>1 DEF QueueInv, QueueIsSound
<1>. QED  BY <1>2, AlwaysQueue, PTL

(* The queue implements the first-come first-served lines: every step of   *)
(* it up to the first remove that strays is a step of RequestQueueSpec, or *)
(* leaves the lines and the fates alone (request-queue.ts push, shift,     *)
(* remove, drain; priority-queue.ts dequeue, remove).                      *)
THEOREM QueueImplementsLines == QueueSpec => ImplementsLines
<1>1. QueueInit => Abstract!SpecInit
  <2> SUFFICES ASSUME QueueInit PROVE Abstract!SpecInit
    OBVIOUS
  <2>1. Lines = [b \in Band |-> <<>>]
    BY InitQueue
  <2>. QED  BY <2>1 DEF QueueInit, Abstract!SpecInit, Lines
<1>2. QueueInv /\ QueueInv' /\ [QueueNext]_queueVars
        => [~strayed' => Abstract!SpecNext]_(Abstract!specVars)
  <2> SUFFICES ASSUME QueueInv, QueueInv', [QueueNext]_queueVars, ~strayed'
               PROVE  Abstract!SpecNext \/ UNCHANGED Abstract!specVars
    OBVIOUS
  <2>0. ~strayed
    BY DEF QueueNext, Admit, Dispatch, TimeOut, Shutdown, queueVars
  <2>1. QueueTypeOK /\ QueueTypeOK' /\ ~strayed
    BY <2>0 DEF QueueInv
  <2>2. Sound /\ fate \in [Request -> Fate]
    BY <2>1 DEF QueueInv, QueueTypeOK
  <2>3. ASSUME NEW r \in Request, NEW b \in UsedBand, Admit(r, b) PROVE Abstract!SpecNext
    <3>1. b \in Band /\ Lines' = [Lines EXCEPT ![b] = Append(@, r)]
      BY <2>1, <2>2, <2>3, AdmitStep, UsedBandAssumption
    <3>2. Abstract!Join(r, b)
      BY <2>3, <3>1 DEF Admit, Abstract!Join, Lines
    <3>. QED  BY <3>1, <3>2 DEF Abstract!SpecNext
  <2>4. CASE Dispatch
    <3>1. PICK b \in Band : /\ Lines[b] # <<>> /\ \A c \in Band : c < b => Lines[c] = <<>>
                            /\ Lines' = [Lines EXCEPT ![b] = Tail(@)]
                            /\ fate' = [fate EXCEPT ![Lines[b][1]] = "served"]
      BY <2>1, <2>2, <2>4, DispatchStep
    <3>2. Abstract!Serve(b)
      BY <3>1 DEF Abstract!Serve, Lines
    <3>. QED  BY <3>2 DEF Abstract!SpecNext
  <2>5. ASSUME NEW r \in Request, TimeOut(r) PROVE Abstract!SpecNext
    <3>1. ~Strays(queue, r)
      BY <2>5 DEF TimeOut
    <3>2. PICK b \in Band : \E k \in 1 .. Len(Lines[b]) :
                 Lines[b][k] = r /\ Lines' = [Lines EXCEPT ![b] = Cut(@, k)]
      BY <2>1, <2>2, <2>5, <3>1, TimeoutStep
    <3>3. PICK k \in 1 .. Len(Lines[b]) : Lines[b][k] = r /\ Lines' = [Lines EXCEPT ![b] = Cut(@, k)]
      BY <3>2
    <3>4. Abstract!GiveUp(b, k)
      BY <2>5, <3>3 DEF TimeOut, Abstract!GiveUp, Lines, Cut
    <3>. QED  BY <3>3, <3>4 DEF Abstract!SpecNext, Lines
  <2>6. CASE Shutdown
    <3>1. /\ Lines' = [b \in Band |-> <<>>]
          /\ fate' = [r \in Request |-> IF fate[r] = "waiting" THEN "dropped" ELSE fate[r]]
      BY <2>1, <2>2, <2>6, ShutdownStep
    <3>2. Abstract!DropAll
      BY <3>1 DEF Abstract!DropAll, Lines
    <3>. QED  BY <3>2 DEF Abstract!SpecNext
  <2>7. CASE UNCHANGED queueVars
    BY <2>7 DEF queueVars, Abstract!specVars
  <2>. QED  BY <2>3, <2>4, <2>5, <2>6, <2>7 DEF QueueNext
<1>. QED  BY <1>1, <1>2, AlwaysQueue, PTL DEF QueueSpec, ImplementsLines
=============================================================================
