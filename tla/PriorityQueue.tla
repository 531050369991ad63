--------------------------- MODULE PriorityQueue ---------------------------
(***************************************************************************)
(* The priority queue of the worker pool                                   *)
(* (packages/sourceog-renderer/src/orchestrator/priority-queue.ts): one    *)
(* LinkedQueue per priority and a total counter of its own.  A queue is a  *)
(* record [h |-> heap of the bands, total |-> _size].  Bands are the       *)
(* numeric Priority values; smaller is served first.                       *)
(***************************************************************************)
EXTENDS LinkedQueue

ASSUME BandAssumption == Band = 0 .. 4

PriorityQueues == [h : Heap, total : Int]

NewPriorityQueue == [h |-> EmptyHeap, total |-> 0]

(* The first band, in ascending order, that satisfies a condition.         *)
FirstBand(S) == CHOOSE b \in S : \A c \in S : b <= c

----------------------------------------------------------------------------
Enqueue(q, r, b) == [h |-> Push(q.h, b, r), total |-> q.total + 1]

(* The bands dequeue can take from: it skips a band whose counter is not   *)
(* positive, and goes on when shift finds no head.                         *)
Servable(q) == {b \in Band : q.h.size[b] > 0 /\ q.h.head[b] # NONE}

(* What dequeue returns (NONE for undefined), and the queue it leaves.     *)
DequeueResult(q) == IF Servable(q) = {} THEN NONE
                    ELSE q.h.head[FirstBand(Servable(q))]

Dequeue(q) == IF Servable(q) = {} THEN q
              ELSE [h     |-> Shift(q.h, FirstBand(Servable(q))),
                    total |-> q.total - 1]

(* A mutated remove: the total is not counted down.                        *)
RemoveUncounted(q, r) ==
  LET accepting == {b \in Band : SeemsInBand(q.h, b, r)}
  IN  IF ~q.h.linked[r] \/ accepting = {} THEN q
      ELSE [q EXCEPT !.h = Unlink(q.h, FirstBand(accepting), r)]

(* remove offers the node to every band in turn, Critical first, and stops *)
(* at the first band that accepts it; the band the request was pushed to   *)
(* is not recorded anywhere.                                               *)
Remove(q, r) ==
  LET accepting == {b \in Band : SeemsInBand(q.h, b, r)}
  IN  IF ~q.h.linked[r] \/ accepting = {} THEN q
      ELSE [h     |-> Unlink(q.h, FirstBand(accepting), r),
            total |-> q.total - 1]

(* A mutated drain: head and tail become undefined instead of null.        *)
DrainToUndefined(q) ==
  [q EXCEPT !.h.head = [b \in Band |-> "undefined"],
            !.h.tail = [b \in Band |-> "undefined"], !.total = 0]

(* drain empties every band; the requests it returns are the reachable     *)
(* ones.                                                                   *)
Drained(q) == UNION {Reachable(q.h, b) : b \in Band}

DrainQueue(q) ==
  [h |-> [prev   |-> q.h.prev,
          next   |-> q.h.next,
          linked |-> [r \in Request |-> q.h.linked[r] /\ r \notin Drained(q)],
          head   |-> [b \in Band |-> NONE],
          tail   |-> [b \in Band |-> NONE],
          size   |-> [b \in Band |-> 0]],
   total |-> 0]
=============================================================================
