----------------------------- MODULE RenderQueue -----------------------------
(***************************************************************************)
(* The priority queue driven the way the worker pool drives it: render     *)
(* enqueues and arms a queue timer, the scheduler dequeues and clears the  *)
(* timer, a timer that fires removes its request, shutdown drains.         *)
(* Everything that happens to the workers is left to module WorkerPool;    *)
(* here a worker is free at any moment.                                    *)
(***************************************************************************)
EXTENDS PriorityQueue

CONSTANT UsedBand   \* the priorities callers ask for

ASSUME UsedBandAssumption == UsedBand \subseteq Band

VARIABLES queue,   \* the PriorityQueue
          fate,    \* what the caller of each request has been told
          strayed  \* whether a remove has gone through a band its request is not in

queueVars == <<queue, fate, strayed>>

(* "late" is the fate of a request a worker received although its caller   *)
(* had already been rejected.                                              *)
Fate == {"new", "waiting", "timedOut", "served", "dropped", "late"}

QueueTypeOK == /\ queue \in PriorityQueues /\ fate \in [Request -> Fate]
               /\ strayed \in BOOLEAN

QueueInit == /\ queue = NewPriorityQueue /\ fate = [r \in Request |-> "new"]
             /\ strayed = FALSE

(* render: enqueue and arm the timer. *)
Admit(r, b) == /\ fate[r] = "new"
               /\ queue' = Enqueue(queue, r, b)
               /\ fate' = [fate EXCEPT ![r] = "waiting"]
               /\ UNCHANGED strayed

(* One round of the dispatch loop: it runs while size > 0, and assignWork  *)
(* clears the queue timer of whatever was dequeued.                        *)
Dispatch == LET r == DequeueResult(queue) IN
            /\ queue.total > 0
            /\ r # NONE
            /\ queue' = Dequeue(queue)
            /\ fate' = [fate EXCEPT ![r] = IF @ = "waiting" THEN "served"
                                           ELSE "late"]
            /\ UNCHANGED strayed

(* remove takes r out through the first band that accepts it, and a walk   *)
(* of that band does not come by r.                                        *)
Strays(q, r) ==
  LET accepting == {b \in Band : SeemsInBand(q.h, b, r)}
  IN  /\ q.h.linked[r] /\ accepting # {}
      /\ r \notin Reachable(q.h, FirstBand(accepting))

(* The queue timer fires: remove if the back reference is still set, then  *)
(* reject.                                                                 *)
TimeOut(r) == /\ fate[r] = "waiting"
              /\ queue' = Remove(queue, r)
              /\ fate' = [fate EXCEPT ![r] = "timedOut"]
              /\ strayed' = (strayed \/ Strays(queue, r))

(* shutdown: reject everything drain returns. *)
Shutdown == /\ queue' = DrainQueue(queue)
            /\ fate' = [r \in Request |->
                          IF r \in Drained(queue) /\ fate[r] = "waiting"
                          THEN "dropped" ELSE fate[r]]
            /\ UNCHANGED strayed

QueueNext == \/ \E r \in Request, b \in UsedBand : Admit(r, b)
             \/ Dispatch
             \/ \E r \in Request : TimeOut(r)
             \/ Shutdown

QueueSpec == QueueInit /\ [][QueueNext]_queueVars

----------------------------------------------------------------------------
Waiting == {r \in Request : fate[r] = "waiting"}

(* In every band the pointers are right: with removals of head, middle and *)
(* tail nodes in any order, the queue behaves as the first-come            *)
(* first-served lines of RequestQueueSpec, one for each priority, until a  *)
(* remove strays into another band (request-queue.ts, push, shift, remove, *)
(* drain; priority-queue.ts, remove).                                      *)
Abstract == INSTANCE RequestQueueSpec WITH line <- [b \in Band |-> Chain(queue.h, b)]
ImplementsLines == /\ Abstract!SpecInit
                   /\ [][~strayed' => Abstract!SpecNext]_(Abstract!specVars)

(* The back pointers, the tail and the counters agree with what a walk     *)
(* from the head finds, so shift, remove and the size getters never        *)
(* contradict each other.                                                  *)
WellLinked ==
  \A b \in Band :
    LET c == Chain(queue.h, b)
        n == Len(c)
    IN  /\ queue.h.size[b] = n
        /\ queue.h.tail[b] = IF n = 0 THEN NONE ELSE c[n]
        /\ \A i \in 1 .. n : queue.h.linked[c[i]]
        /\ \A i \in 1 .. n : queue.h.prev[c[i]] = IF i = 1 THEN NONE ELSE c[i - 1]

(* "Total number of requests across all priority queues": the depth that   *)
(* admission control reads counts exactly the requests still waiting.      *)
DepthIsExact == queue.total = Cardinality(Waiting)

(* A waiting request is where dequeue can find it: only its timer could    *)
(* otherwise settle it.                                                    *)
WaitingIsReachable == Waiting \subseteq Drained(queue)

(* The queue is sound until a remove strays: well linked, exactly counted, *)
(* and every request in it within reach of dequeue.                        *)
QueueIsSound == /\ QueueTypeOK
                /\ ~strayed => WellLinked /\ DepthIsExact /\ WaitingIsReachable

(* A caller that was told its request timed out in the queue never has the *)
(* request rendered afterwards.                                            *)
TimedOutIsNeverServed == \A r \in Request : fate[r] # "late"

(* Whatever happens to the pointers, a request is handed to a worker at    *)
(* most once, and a chain never runs into itself.                          *)
ServedOnce == [][\A r \in Request : fate[r] \in {"served", "late"}
                                      => UNCHANGED fate[r] /\ DequeueResult(queue) # r]_queueVars
=============================================================================
