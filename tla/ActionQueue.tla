------------------------------ MODULE ActionQueue ------------------------------
(* The browser's side of server actions: useActionQueue of               *)
(* sourceog/src/actions.ts, whose drain runs the queued actions one after *)
(* another, and callServerActionById of sourceog-runtime/src/actions.ts,  *)
(* which posts an action and then refreshes the current route.            *)
EXTENDS Integers, Sequences, FiniteSets
CONSTANTS Drainers,     \* callers of drain
          MaxActions,   \* bound on the actions enqueued
          EmptyDrains   \* whether drain may be called on an empty queue

VARIABLES queue,      \* actions waiting, numbered in the order of enqueue
          inFlight,   \* inFlightRef: "null", "running", or "settled" when it
                      \* keeps a promise that is over
          current,    \* the action being invoked, or 0
          posted,     \* it has reached the server
          status, log,   \* what the hook reports; the actions in the order they ran
          drain,      \* drain caller -> how many actions it must see settled
          returned    \* drain caller -> settled count when it returned, and asked
vars == <<queue, inFlight, current, posted, status, log, drain, returned>>

Enqueued == status.settled + Len(queue) + (IF current = 0 THEN 0 ELSE 1)
NotDraining == -1
Zero == [pending |-> FALSE, size |-> 0, completed |-> 0, failed |-> 0, settled |-> 0]

Init ==
  /\ queue = <<>> /\ inFlight = "null" /\ current = 0 /\ posted = FALSE
  /\ status = Zero /\ log = <<>>
  /\ drain = [d \in Drainers |-> NotDraining]
  /\ returned = [d \in Drainers |-> [asked |-> 0, settled |-> 0]]

Enqueue ==
  /\ Enqueued < MaxActions
  /\ queue' = Append(queue, Enqueued + 1)
  /\ status' = [status EXCEPT !.size = Len(queue) + 1]
  /\ UNCHANGED <<inFlight, current, posted, log, drain, returned>>

\* The loop: which action is next, whether there is one, and what the hook
\* reports when there is none.
TakeLast == <<queue[Len(queue)], SubSeq(queue, 1, Len(queue) - 1)>>
Take == <<Head(queue), Tail(queue)>>
MoreUnlessFailed(ok) == ok /\ queue # <<>>
More(ok) == queue # <<>>
StillPending(s) == [s EXCEPT !.size = 0]
Over(s) == [s EXCEPT !.pending = FALSE, !.size = 0]

\* drain joins the run in flight.  With none it starts one: on an empty queue
\* the body ends without an await and sets inFlightRef to null before the
\* assignment that stores its promise, so the settled promise stays there.
Drain(d) ==
  /\ drain[d] = NotDraining
  /\ EmptyDrains \/ queue # <<>> \/ inFlight # "null"
  /\ LET returns == inFlight = "settled" \/ (inFlight = "null" /\ queue = <<>>)
     IN /\ drain' = IF returns THEN drain ELSE [drain EXCEPT ![d] = Enqueued]
        /\ returned' = IF returns
                       THEN [returned EXCEPT ![d] = [asked |-> Enqueued, settled |-> status.settled]]
                       ELSE returned
  /\ CASE inFlight # "null" -> UNCHANGED <<queue, inFlight, current, status>>
       [] inFlight = "null" /\ queue = <<>> ->
            /\ inFlight' = "settled"
            /\ status' = Over(status)
            /\ UNCHANGED <<queue, current>>
       [] OTHER ->
            /\ inFlight' = "running"
            /\ current' = Take[1] /\ queue' = Take[2]
            /\ status' = [status EXCEPT !.pending = TRUE, !.size = Len(queue)]
  /\ UNCHANGED <<posted, log>>

\* The POST is answered: the action ran, or the server refused it.
Post ==
  /\ current # 0 /\ ~posted
  /\ posted' = TRUE
  /\ log' = Append(log, current)
  /\ UNCHANGED <<queue, inFlight, current, status, drain, returned>>

\* The call settles, after the refresh of the route when the action asked for
\* one; a failing refresh fails the call of an action that ran.  The loop takes
\* the next action or ends and lets every drain return.
Settle(ok) ==
  /\ current # 0 /\ (ok => posted)
  /\ posted' = FALSE
  /\ LET done == [status EXCEPT !.settled = @ + 1, !.size = Len(queue),
                                !.completed = @ + (IF ok THEN 1 ELSE 0),
                                !.failed = @ + (IF ok THEN 0 ELSE 1)]
     IN IF More(ok)
        THEN /\ current' = Take[1] /\ queue' = Take[2]
             /\ status' = done
             /\ UNCHANGED <<inFlight, drain, returned>>
        ELSE /\ current' = 0
             /\ inFlight' = "null"
             /\ status' = Over(done)
             /\ returned' = [d \in Drainers |->
                  IF drain[d] = NotDraining THEN returned[d]
                  ELSE [asked |-> drain[d], settled |-> done.settled]]
             /\ drain' = [d \in Drainers |-> NotDraining]
             /\ UNCHANGED queue
  /\ UNCHANGED <<log>>

Next == \/ Enqueue \/ (\E d \in Drainers : Drain(d)) \/ Post \/ (\E ok \in BOOLEAN : Settle(ok))
Spec == Init /\ [][Next]_vars

------------------------------------------------------------------------------
\* A drain that returned saw everything settled that was enqueued when it was
\* called (docs/sourceog-prompt-guide.md: "Wait for all to settle").
DrainSettlesAll == \A d \in Drainers : returned[d].settled >= returned[d].asked

\* Actions reach the server one at a time and in the order of enqueue.
RunsInOrder == \A i, j \in DOMAIN log : i < j => log[i] < log[j]

\* What the hook reports is what is happening: pending while an action runs,
\* every settled action either completed or failed.
StatusIsTrue ==
  /\ status.pending <=> current # 0
  /\ status.settled = status.completed + status.failed
  /\ ~status.pending => status.size = Len(queue)
------------------------------------------------------------------------------
TypeOK ==
  /\ queue \in Seq(Nat) /\ log \in Seq(Nat) /\ current \in Nat /\ posted \in BOOLEAN
  /\ inFlight \in {"null", "running", "settled"}
  /\ status \in [pending : BOOLEAN, size : Nat, completed : Nat, failed : Nat, settled : Nat]
  /\ drain \in [Drainers -> Nat \cup {NotDraining}]
  /\ returned \in [Drainers -> [asked : Nat, settled : Nat]]

\* Why the order is kept, where no drain finds the queue empty: what is settled, runs and
\* waits are the numbers from 1 on, and a drain ends when nothing waits.
Started == status.settled + (IF current = 0 THEN 0 ELSE 1)
NumbersInOrder ==
  /\ inFlight # "settled" /\ (inFlight = "running" <=> current # 0)
  /\ current # 0 => current = status.settled + 1
  /\ posted => current # 0
  /\ \A i \in DOMAIN queue : queue[i] = Started + i
  /\ \A i \in DOMAIN log : log[i] <= status.settled + (IF posted THEN 1 ELSE 0)
  /\ \A d \in Drainers : drain[d] # NotDraining => drain[d] <= Enqueued /\ current # 0
Inv == TypeOK /\ NumbersInOrder /\ DrainSettlesAll /\ RunsInOrder /\ StatusIsTrue
================================================================================
