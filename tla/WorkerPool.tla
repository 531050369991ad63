----------------------------- MODULE WorkerPool -----------------------------
(***************************************************************************)
(* The renderer's worker pool (orchestrator/worker-pool.ts) with its       *)
(* admission control, its scheduler, its priority queue and the shared     *)
(* registry that creates it.                                               *)
(*                                                                         *)
(* The pool runs on one JavaScript thread: a step of the model is one      *)
(* event-loop task with the microtasks that follow it.  The dispatch loop  *)
(* is the one task split in steps, with everything else held off while     *)
(* dispatching is TRUE.  What a worker thread does between two messages is *)
(* outside: it may answer, answer with an error, crash, exit or hang.      *)
(***************************************************************************)
EXTENDS PriorityQueue, TLC

CONSTANTS Slot,        \* worker threads; a slot is reused once its thread is gone
          WorkerCount, MaxQueueDepth, MaxRequestsPerWorker,
          Streaming,   \* the requests rendered with an onChunk callback
          Shared,      \* TRUE: made by getSharedWorkerPool, which also starts it
          SpawnMayFail,
          Closers      \* calls of shutdown that may be under way at once

ASSUME PoolAssumption ==
  /\ IsFiniteSet(Slot)
  /\ WorkerCount \in Nat \ {0}
  /\ MaxQueueDepth \in Nat
  /\ MaxRequestsPerWorker \in Nat \ {0}
  /\ Shared \in BOOLEAN /\ SpawnMayFail \in BOOLEAN

VARIABLES q,            \* the PriorityQueue
          promise,      \* what the caller of render holds
          timer,        \* requests whose queue timer is armed
          pool,         \* the workers array, as a set
          wk,           \* the PooledWorker and its thread
          initialized, shuttingDown,
          starting,     \* the registry's own initialize() is under way
          immediate,    \* a setImmediate(dispatch) is scheduled
          dispatching,  \* the dispatch loop is running
          closing,      \* the workers each shutdown call is terminating
          answer        \* history: whose output resolved or rejected a promise

vars == <<q, promise, timer, pool, wk, initialized, shuttingDown, starting,
          immediate, dispatching, closing, answer>>
callers == <<q, promise, timer, answer>>
workers == <<pool, wk>>
life == <<initialized, shuttingDown, starting, closing>>

High == 1
Normal == 2

(* thread: "none" before and after the worker's life; "running"; "dead"    *)
(* once it stopped on its own or was terminated.  after says who awaits    *)
(* terminate(): the failure handler dispatches when it is done.            *)
Workers == [thread : {"none", "running", "dead"}, busy : BOOLEAN,
            stopping : BOOLEAN, cur : Pointer, count : Nat,
            jobs : Seq(Request), events : Seq({"error", "exit"}),
            after : {"nothing", "recycle", "failure"}]

NoWorker == [thread |-> "none", busy |-> FALSE, stopping |-> FALSE,
             cur |-> NONE, count |-> 0, jobs |-> <<>>, events |-> <<>>,
             after |-> "nothing"]
FreshWorker == [NoWorker EXCEPT !.thread = "running"]

TypeOK ==
  /\ q \in PriorityQueues
  /\ promise \in [Request -> {"new", "initializing", "pending", "resolved", "rejected"}]
  /\ timer \subseteq Request
  /\ pool \subseteq Slot
  /\ wk \in [Slot -> Workers]
  /\ initialized \in BOOLEAN /\ shuttingDown \in BOOLEAN
  /\ starting \in BOOLEAN /\ immediate \in BOOLEAN /\ dispatching \in BOOLEAN
  /\ closing \in [Closers -> [open : BOOLEAN, on : SUBSET Slot]]
  /\ answer \in [Request -> Pointer]

Init ==
  /\ q = NewPriorityQueue
  /\ promise = [r \in Request |-> "new"]
  /\ timer = {}
  /\ pool = {}
  /\ wk = [s \in Slot |-> NoWorker]
  /\ initialized = FALSE /\ shuttingDown = FALSE
  /\ starting = Shared
  /\ immediate = FALSE /\ dispatching = FALSE
  /\ closing = [c \in Closers |-> [open |-> FALSE, on |-> {}]]
  /\ answer = [r \in Request |-> NONE]

----------------------------------------------------------------------------
(* Slots with no thread left in them. *)
Free == {s \in Slot : wk[s].thread = "none"}

(* reject and resolve of a promise that has settled do nothing. *)
Settle(p, R, how) == [r \in Request |-> IF r \in R /\ p[r] = "pending"
                                        THEN how ELSE p[r]]

BusyCount == Cardinality({s \in pool : wk[s].busy})

(* Admission control: tail drop, then shedding of Low and Deferred from    *)
(* 80% of capacity on.                                                     *)
Accepted(depth, active, prio) ==
  LET load == active + depth
      capacity == WorkerCount + MaxQueueDepth
  IN  /\ depth < MaxQueueDepth
      /\ load < capacity
      /\ prio \in {3, 4} => 5 * load < 4 * capacity

Priority(r) == IF r \in Streaming THEN High ELSE Normal

(* The rest of render once initialize() has returned. *)
Proceed(r, busy) ==
  IF shuttingDown \/ ~Accepted(q.total, busy, Priority(r))
  THEN /\ promise' = [promise EXCEPT ![r] = "rejected"]
       /\ UNCHANGED <<q, timer, dispatching>>
  ELSE /\ promise' = [promise EXCEPT ![r] = "pending"]
       /\ q' = Enqueue(q, r, Priority(r))
       /\ timer' = timer \cup {r}
       /\ dispatching' = TRUE

(* render on a pool that is up. *)
Render(r) ==
  /\ ~dispatching
  /\ promise[r] = "new"
  /\ initialized
  /\ Proceed(r, BusyCount)
  /\ UNCHANGED <<workers, life, immediate, answer>>

(* render on a pool that is not: it waits for the transpiler set-up. *)
RenderCold(r) ==
  /\ ~dispatching
  /\ promise[r] = "new"
  /\ ~initialized
  /\ promise' = [promise EXCEPT ![r] = "initializing"]
  /\ UNCHANGED <<q, timer, answer, workers, life, immediate, dispatching>>

(* initialize, after its await: it does not look at initialized again.     *)
(* All the spawns are tried; if one throws, initialize throws and the      *)
(* workers it did spawn stay.                                              *)
SpawnAll(S) == /\ S \in SUBSET Free
               /\ pool' = pool \cup S
               /\ wk' = [s \in Slot |-> IF s \in S THEN FreshWorker ELSE wk[s]]

InitializeDone(r) ==
  /\ ~dispatching
  /\ promise[r] = "initializing"
  /\ \E S \in SUBSET Free :
       /\ Cardinality(S) = WorkerCount
       /\ SpawnAll(S)
  /\ initialized' = TRUE
  /\ Proceed(r, BusyCount)
  /\ UNCHANGED <<shuttingDown, starting, closing, immediate, answer>>

(* new Worker throws: because the platform refuses, or (a bound of the     *)
(* model) no slot is left.                                                 *)
SpawnFails(n) == SpawnMayFail \/ Cardinality(Free) < n

InitializeThrows(r) ==
  /\ ~dispatching
  /\ promise[r] = "initializing"
  /\ SpawnFails(WorkerCount)
  /\ \E S \in SUBSET Free : /\ Cardinality(S) < WorkerCount
                            /\ SpawnAll(S)
  /\ promise' = [promise EXCEPT ![r] = "rejected"]
  /\ UNCHANGED <<q, timer, answer, life, immediate, dispatching>>

(* The initialize() getSharedWorkerPool starts and forgets. *)
BackgroundInitialize ==
  /\ ~dispatching
  /\ starting
  /\ \E S \in SUBSET Free :
       /\ SpawnAll(S)
       /\ \/ Cardinality(S) = WorkerCount /\ initialized' = TRUE
          \/ /\ Cardinality(S) < WorkerCount
             /\ SpawnFails(WorkerCount)
             /\ UNCHANGED initialized
  /\ starting' = FALSE
  /\ UNCHANGED <<callers, shuttingDown, closing, immediate, dispatching>>

(* The queue timer: take the request out of the queue and reject it. *)
QueueTimeout(r) ==
  /\ ~dispatching
  /\ r \in timer
  /\ timer' = timer \ {r}
  /\ q' = Remove(q, r)
  /\ promise' = Settle(promise, {r}, "rejected")
  /\ UNCHANGED <<workers, life, immediate, dispatching, answer>>

----------------------------------------------------------------------------
(* The scheduler. *)
Idle == {s \in pool : ~wk[s].busy /\ ~wk[s].stopping}

(* assignWork; the thread receives the request if it is still there. *)
Assign(w, r) == [w EXCEPT !.busy = TRUE, !.count = @ + 1, !.cur = r,
                          !.jobs = IF w.thread = "running"
                                   THEN Append(@, r) ELSE @]

(* A mutated loop condition: any idle worker is given whatever comes.      *)
CanDispatchUnchecked == Idle # {}

CanDispatch == q.total > 0 /\ Idle # {} /\ DequeueResult(q) # NONE

DispatchOne ==
  /\ dispatching
  /\ CanDispatch
  /\ LET r == DequeueResult(q) IN
     /\ \E s \in Idle : wk' = [wk EXCEPT ![s] = Assign(@, r)]
     /\ timer' = timer \ {r}
  /\ q' = Dequeue(q)
  /\ UNCHANGED <<promise, answer, pool, life, immediate, dispatching>>

DispatchEnd ==
  /\ dispatching
  /\ ~CanDispatch
  /\ dispatching' = FALSE
  /\ UNCHANGED <<callers, workers, life, immediate>>

DispatchImmediate ==
  /\ ~dispatching
  /\ immediate
  /\ immediate' = FALSE
  /\ dispatching' = TRUE
  /\ UNCHANGED <<callers, workers, life>>

----------------------------------------------------------------------------
(* recycleWorker, given the workers w after the caller's own changes: mark *)
(* the old one, spawn its successor, drop it from the array, terminate it. *)
(* If the spawn throws the old worker is kept.                             *)
Recyclable(s) == s \in pool /\ ~wk[s].stopping

Retired(w, who) == [w EXCEPT !.stopping = TRUE, !.after = who]
Replaced(w, s, n, who) == [w EXCEPT ![s] = Retired(@, who), ![n] = FreshWorker]

(* A mutated recycle: the old worker leaves although the spawn failed.     *)
RecycleDrops(w, s, who) ==
  /\ wk' = [w EXCEPT ![s] = Retired(@, who)]
  /\ pool' = pool \ {s}

Recycle(w, s, who) ==
  \/ \E n \in Free : /\ wk' = Replaced(w, s, n, who)
                     /\ pool' = (pool \cup {n}) \ {s}
  \/ /\ SpawnFails(1)
     /\ wk' = w
     /\ pool' = pool

(* A mutated hand-back: the worker is free but keeps its request.          *)
IdledKeepsCurrent(w) == [w EXCEPT !.busy = FALSE]

Idled(w) == [w EXCEPT !.busy = FALSE, !.cur = NONE]
Heard(w) == [w EXCEPT !.jobs = Tail(@)]        \* a message of its thread
Noticed(w) == [w EXCEPT !.events = Tail(@)]    \* an event of its thread
Stopped(w) == [w EXCEPT !.thread = "dead", !.jobs = <<>>]

(* The thread answers the oldest job it has.  The answer counts only if    *)
(* it carries the id of the worker's current request.  Chunks, which are   *)
(* passed on under the same condition and change nothing here, are left    *)
(* out.                                                                    *)
AnyCurrent(s, r) == wk[s].cur # NONE
IsCurrent(s, r) == wk[s].cur = r

Answer(s, how) ==
  /\ ~dispatching
  /\ wk[s].thread = "running" /\ wk[s].jobs # <<>>
  /\ LET r == Head(wk[s].jobs)
         x == wk[s].cur
         freed == [wk EXCEPT ![s] = Idled(Heard(@))]
     IN IF ~IsCurrent(s, r)
        THEN wk' = [wk EXCEPT ![s] = Heard(@)] /\ UNCHANGED <<pool, promise, immediate, answer>>
        ELSE /\ promise' = Settle(promise, {x}, how)
             /\ answer' = [answer EXCEPT ![x] = r]
             /\ immediate' = TRUE
             /\ IF wk[s].count >= MaxRequestsPerWorker /\ Recyclable(s)
                THEN Recycle(freed, s, "recycle")
                ELSE wk' = freed /\ pool' = pool
  /\ UNCHANGED <<q, timer, life, dispatching>>

(* handleWorkerFailure, w being the workers once the event is consumed:    *)
(* reject the current request, free the worker, replace it, dispatch.      *)
(* Dispatch waits for the old thread's termination when there is one.      *)
FailureRejectsNone(s) == {}   \* mutated: the caller is not told
FailureRejects(s) == {wk[s].cur}

Failure(w, s) ==
  /\ promise' = Settle(promise, FailureRejects(s), "rejected")
  /\ LET freed == [w EXCEPT ![s] = Idled(@)] IN
     IF Recyclable(s)
     THEN /\ Recycle(freed, s, "failure")
          /\ dispatching' = (pool' = pool)
     ELSE /\ wk' = freed /\ pool' = pool
          /\ dispatching' = TRUE
  /\ UNCHANGED <<q, timer, answer, life, immediate>>

(* The render timer armed by assignWork emits 'error' on the worker. *)
RenderTimeout(s) ==
  /\ ~dispatching
  /\ wk[s].cur # NONE
  /\ Failure(wk, s)

(* A thread stops: by an uncaught error, with a failing exit code, or with *)
(* exit code 0, which the pool ignores.                                    *)
ThreadStops(s) ==
  /\ ~dispatching
  /\ wk[s].thread = "running"
  /\ \E e \in {<<"error", "exit">>, <<"exit">>, <<>>} :
       wk' = [wk EXCEPT ![s] = [Stopped(@) EXCEPT !.events = e]]
  /\ UNCHANGED <<callers, pool, life, immediate, dispatching>>

ErrorEvent(s) ==
  /\ ~dispatching
  /\ wk[s].events # <<>> /\ Head(wk[s].events) = "error"
  /\ Failure([wk EXCEPT ![s] = Noticed(@)], s)

(* exit: a worker that is stopping, or a pool that shuts down, expects it. *)
ExitEvent(s) ==
  /\ ~dispatching
  /\ wk[s].events # <<>> /\ Head(wk[s].events) = "exit"
  /\ LET w == [wk EXCEPT ![s] = Noticed(@)] IN
     IF wk[s].stopping \/ shuttingDown
     THEN /\ wk' = w
          /\ UNCHANGED <<callers, pool, life, immediate, dispatching>>
     ELSE Failure(w, s)

(* terminate() of a recycled worker resolves; the failure handler was      *)
(* waiting for it to dispatch.                                             *)
RedispatchesNever(who) == FALSE   \* mutated: the handler ends there
Redispatches(who) == who = "failure"

Terminated(s) ==
  /\ ~dispatching
  /\ wk[s].after # "nothing"
  /\ dispatching' = Redispatches(wk[s].after)
  /\ wk' = [wk EXCEPT ![s] = [Stopped(@) EXCEPT !.after = "nothing"]]
  /\ UNCHANGED <<callers, pool, life, immediate>>

(* A worker nothing refers to any more is collected, and its slot reused. *)
Collect(s) ==
  /\ ~dispatching
  /\ wk[s].thread = "dead"
  /\ s \notin pool /\ wk[s].cur = NONE /\ wk[s].events = <<>>
  /\ wk[s].after = "nothing"
  /\ \A c \in Closers : s \notin closing[c].on
  /\ wk' = [wk EXCEPT ![s] = NoWorker]
  /\ UNCHANGED <<callers, pool, life, immediate, dispatching>>

----------------------------------------------------------------------------
(* shutdown, up to its await: everything drained and every current request *)
(* is rejected, and every worker in the array is told to terminate.        *)
ShutdownRejectsActive == {wk[s].cur : s \in pool}   \* mutated: drops the queue
ShutdownRejects == Drained(q) \cup {wk[s].cur : s \in pool}

ShutdownBegin(c) ==
  /\ ~dispatching
  /\ ~closing[c].open
  /\ closing' = [closing EXCEPT ![c] = [open |-> TRUE, on |-> pool]]
  /\ shuttingDown' = TRUE
  /\ timer' = timer \ Drained(q)
  /\ promise' = Settle(promise, ShutdownRejects, "rejected")
  /\ q' = DrainQueue(q)
  /\ wk' = [s \in Slot |-> IF s \in pool
                           THEN [wk[s] EXCEPT !.stopping = TRUE, !.cur = NONE,
                                              !.busy = @ /\ wk[s].cur = NONE]
                           ELSE wk[s]]
  /\ UNCHANGED <<pool, initialized, starting, immediate, dispatching, answer>>

(* A thread shutdown is waiting for ends. *)
ClosedThread(s) ==
  /\ ~dispatching
  /\ wk[s].thread = "running"
  /\ \E c \in Closers : s \in closing[c].on
  /\ wk' = [wk EXCEPT ![s] = Stopped(@)]
  /\ UNCHANGED <<callers, pool, life, immediate, dispatching>>

(* shutdown, after its await: the array is emptied, whatever is in it now. *)
ShutdownEnd(c) ==
  /\ ~dispatching
  /\ closing[c].open
  /\ \A s \in closing[c].on : wk[s].thread = "dead"
  /\ closing' = [closing EXCEPT ![c] = [open |-> FALSE, on |-> {}]]
  /\ pool' = {}
  /\ initialized' = FALSE
  /\ shuttingDown' = FALSE
  /\ UNCHANGED <<callers, wk, starting, immediate, dispatching>>

----------------------------------------------------------------------------
ThreadStep(s) == \/ ThreadStops(s)
                 \/ Answer(s, "resolved")
                 \/ Answer(s, "rejected")

Next ==
  \/ \E r \in Request : \/ Render(r) \/ RenderCold(r) \/ InitializeDone(r)
                        \/ InitializeThrows(r) \/ QueueTimeout(r)
  \/ BackgroundInitialize
  \/ DispatchOne \/ DispatchEnd \/ DispatchImmediate
  \/ \E s \in Slot : \/ ThreadStep(s) \/ RenderTimeout(s) \/ ErrorEvent(s)
                     \/ ExitEvent(s) \/ Terminated(s) \/ Collect(s)
                     \/ ClosedThread(s)
  \/ \E c \in Closers : ShutdownBegin(c) \/ ShutdownEnd(c)

Spec == Init /\ [][Next]_vars

(* Fairness: an armed timer fires unless it is cleared first, the loop     *)
(* runs, and what initialize and terminate wait for comes.  Timers get     *)
(* strong fairness because the dispatch loop holds them off while it runs. *)
(* Nothing is assumed of the threads: they may hang.                       *)
Fairness ==
  /\ \A r \in Request : /\ SF_vars(QueueTimeout(r))
                        /\ SF_vars(InitializeDone(r) \/ InitializeThrows(r))
  /\ \A s \in Slot : SF_vars(RenderTimeout(s))
  /\ WF_vars(DispatchOne \/ DispatchEnd)

FairSpec == Spec /\ Fairness

----------------------------------------------------------------------------
(* A worker is busy exactly while it has a current request, and no request *)
(* is current on two workers: assignWork, the message and failure handlers *)
(* and shutdown set and clear the two fields in different places.          *)
OneOwner ==
  /\ \A s \in Slot : wk[s].busy <=> wk[s].cur # NONE
  /\ \A s, t \in Slot : wk[s].cur = wk[t].cur /\ wk[s].cur # NONE => s = t

(* No promise is forgotten: an unsettled request is covered by an armed    *)
(* queue timer or by a worker that has it as its current request, whose    *)
(* render timer is then armed.  Every task hands the request from one to   *)
(* the other in one go.                                                    *)
EveryPromiseHasAKeeper ==
  \A r \in Request : promise[r] = "pending" =>
    \/ r \in timer
    \/ \E s \in Slot : wk[s].cur = r

(* A request is rendered at most once, and the answer its caller gets is   *)
(* the one made for it: a late answer is not taken for the answer to the   *)
(* worker's next job, and a request the queue's bookkeeping brings back is *)
(* not given out a second time.                                            *)
JobsOf(r) == {x \in UNION {{s} \X DOMAIN wk[s].jobs : s \in Slot} :
                wk[x[1]].jobs[x[2]] = r}

RenderedOnce ==
  \A r \in Request :
    /\ Cardinality(JobsOf(r)) <= 1
    /\ answer[r] # NONE => answer[r] = r /\ JobsOf(r) = {}

(* Each request is one worker's at a time, and rendered by it once.        *)
RenderedByOne == OneOwner /\ RenderedOnce

(* A pool that is up never runs below its size: a worker leaves the array  *)
(* only when its successor is in it, whatever fails and in which order.    *)
PoolKeepsItsSize ==
  initialized /\ ~shuttingDown => Cardinality(pool) >= WorkerCount

(* Nothing waits beside an idle worker: once the tasks that were scheduled *)
(* to dispatch have run, a request is left in the queue only while every   *)
(* worker of a pool of the configured size is busy or being stopped.       *)
WorkIsNotHeldBack ==
  \/ dispatching \/ immediate \/ q.total <= 0 \/ DequeueResult(q) = NONE
  \/ \E s \in Slot : wk[s].after = "failure"
  \/ Idle = {} \/ Cardinality(pool) > WorkerCount

(* "The pool handles its own mutex": initializing never makes more workers *)
(* than were asked for.                                                    *)
PoolIsNeverOversized == Cardinality(pool) <= WorkerCount

(* render always answers: whatever threads, spawns and shutdowns do, every *)
(* call settles.                                                           *)
EveryRenderSettles ==
  \A r \in Request : promise[r] \in {"initializing", "pending"}
                       ~> promise[r] \in {"resolved", "rejected"}
-----------------------------------------------------------------------------
(* For TLC: slots are alike, and so are requests of one priority.          *)
Symmetry == Permutations(Slot) \cup Permutations(Request \ Streaming)
=============================================================================
