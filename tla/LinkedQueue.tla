---------------------------- MODULE LinkedQueue ----------------------------
(***************************************************************************)
(* The doubly linked request queue of the renderer's worker pool           *)
(* (packages/sourceog-renderer/src/orchestrator/request-queue.ts), as      *)
(* operators on a heap.                                                    *)
(*                                                                         *)
(* A request is pushed at most once in its life, so a request stands for   *)
(* its node: prev and next are the node's pointers, and linked says        *)
(* whether the back reference value.node is set.  One heap carries several *)
(* queues (bands), each with its own head, tail and _size; the nodes are   *)
(* shared, because nothing in a node says which queue it is in.            *)
(***************************************************************************)
EXTENDS Integers, Sequences, FiniteSets

CONSTANTS Request,  \* every request (node) that will ever be queued
          Band,     \* the queues that share the nodes
          NONE      \* the null pointer

ASSUME NoneAssumption == NONE \notin Request
ASSUME RequestAssumption == IsFiniteSet(Request)

Pointer == Request \cup {NONE}

Heap == [prev : [Request -> Pointer], next : [Request -> Pointer],
         linked : [Request -> BOOLEAN],
         head : [Band -> Pointer], tail : [Band -> Pointer],
         size : [Band -> Int]]

EmptyHeap == [prev   |-> [r \in Request |-> NONE],
              next   |-> [r \in Request |-> NONE],
              linked |-> [r \in Request |-> FALSE],
              head   |-> [b \in Band |-> NONE],
              tail   |-> [b \in Band |-> NONE],
              size   |-> [b \in Band |-> 0]]

(* What a walk from the head of band b finds, in order.                    *)
Chain(h, b) ==
  LET hop[i \in 1 .. Cardinality(Request)] ==
        IF i = 1 THEN h.head[b]
        ELSE IF hop[i - 1] = NONE THEN NONE ELSE h.next[hop[i - 1]]
  IN  [i \in {j \in 1 .. Cardinality(Request) : hop[j] # NONE} |-> hop[i]]

Reachable(h, b) == LET c == Chain(h, b) IN {c[i] : i \in DOMAIN c}

----------------------------------------------------------------------------
(* A mutated push: the new node is not linked behind the old tail.         *)
PushUnlinked(h, b, r) ==
  [h EXCEPT !.prev[r] = h.tail[b], !.next[r] = NONE, !.linked[r] = TRUE,
            !.head[b] = IF h.tail[b] = NONE THEN r ELSE @,
            !.tail[b] = r, !.size[b] = @ + 1]

(* push: append a fresh node and store the back reference.                 *)
Push(h, b, r) ==
  [prev   |-> [h.prev EXCEPT ![r] = h.tail[b]],
   next   |-> [n \in Request |-> IF n = r THEN NONE
                                 ELSE IF n = h.tail[b] THEN r ELSE h.next[n]],
   linked |-> [h.linked EXCEPT ![r] = TRUE],
   head   |-> IF h.tail[b] = NONE THEN [h.head EXCEPT ![b] = r] ELSE h.head,
   tail   |-> [h.tail EXCEPT ![b] = r],
   size   |-> [h.size EXCEPT ![b] = @ + 1]]

(* A mutated shift: the head stays where it is.                            *)
ShiftKeepsHead(h, b) ==
  [h EXCEPT !.size[b] = @ - 1, !.linked[h.head[b]] = FALSE]

(* shift: take the head off.  The node keeps its own next pointer.  The    *)
(* caller has checked that the head is not null.                           *)
Shift(h, b) ==
  LET r == h.head[b]
      n == h.next[r]
  IN  [prev   |-> [p \in Request |-> IF p = n THEN NONE ELSE h.prev[p]],
       next   |-> h.next,
       linked |-> [h.linked EXCEPT ![r] = FALSE],
       head   |-> [h.head EXCEPT ![b] = n],
       tail   |-> IF n = NONE THEN [h.tail EXCEPT ![b] = NONE] ELSE h.tail,
       size   |-> [h.size EXCEPT ![b] = @ - 1]]

(* A mutated check: a tail with a predecessor is taken for a stranger.     *)
SeemsInside(h, b, r) == h.next[r] # NONE \/ h.head[b] = r

(* The check remove makes before it unlinks: a node with a neighbour is    *)
(* taken to belong to the queue, whichever queue that is.                  *)
SeemsInBand(h, b, r) == h.prev[r] # NONE \/ h.next[r] # NONE \/ h.head[b] = r

(* A mutated remove: it forgets to move the tail back.                     *)
UnlinkKeepsTail(h, b, r) ==
  LET p == h.prev[r]
      n == h.next[r]
  IN  [h EXCEPT !.next = [m \in Request |-> IF m = r THEN NONE
                                            ELSE IF m = p THEN n ELSE @[m]],
                !.prev = [m \in Request |-> IF m = r THEN NONE
                                            ELSE IF m = n THEN p ELSE @[m]],
                !.head[b] = IF p = NONE /\ @ = r THEN n ELSE @,
                !.linked[r] = FALSE, !.size[b] = @ - 1]

(* remove, past the check: splice the node out, and move this band's head  *)
(* and tail only where they point at the node.                             *)
Unlink(h, b, r) ==
  LET p == h.prev[r]
      n == h.next[r]
  IN  [prev   |-> [m \in Request |-> IF m = r THEN NONE
                                     ELSE IF m = n THEN p ELSE h.prev[m]],
       next   |-> [m \in Request |-> IF m = r THEN NONE
                                     ELSE IF m = p THEN n ELSE h.next[m]],
       linked |-> [h.linked EXCEPT ![r] = FALSE],
       head   |-> IF p = NONE /\ h.head[b] = r THEN [h.head EXCEPT ![b] = n] ELSE h.head,
       tail   |-> IF n = NONE /\ h.tail[b] = r THEN [h.tail EXCEPT ![b] = p] ELSE h.tail,
       size   |-> [h.size EXCEPT ![b] = @ - 1]]
=============================================================================
