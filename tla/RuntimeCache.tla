----------------------------- MODULE RuntimeCache -----------------------------
(* The caches of sourceog-runtime/src/cache.ts for one piece of data: the  *)
(* function cache of unstable_cache, the shared data cache of sourceogFetch *)
(* with the persistent store behind it, and each request's memo of promises.*)
(* A value is the version of the origin it was computed from, so that a     *)
(* cache is stale when it holds less than an invalidation asked for.        *)
EXTENDS Naturals, FiniteSets, Sequences
CONSTANTS Callers, Requests, RequestOf,   \* RequestOf[c]: the request c runs in
          FnLinks,      \* how a cached function is reachable: tag, route or both
          MaxVersion,   \* bound on the origin's versions
          None

VARIABLES origin,   \* version of the data at its source
          fn,       \* functionCache: a version or None
          data,     \* dataCache
          store,    \* the data cache store behind it
          memo,     \* request -> None or a promise: by its caller, or settled with out
          call,     \* what each caller is doing
          alone,    \* caller -> no other caller has been active during its call
          cleared,  \* requests whose memo was cleared while a fetch ran
          floor     \* place -> version a lone invalidation left as the oldest
vars == <<origin, fn, data, store, memo, call, alone, cleared, floor>>

Places == {"fn", "data", "store"}
Idle == [pc |-> "idle"]
Req(c) == RequestOf[c]
Busy == {c \in Callers : call[c].pc # "idle"}
Fetching(c) == call[c].pc \in {"fetch", "persist"}

\* A call that starts while another is active makes both of them not alone.
Begin(c, next) ==
  /\ call[c].pc = "idle"
  /\ call' = [call EXCEPT ![c] = next]
  /\ alone' = [d \in Callers |-> IF d = c THEN Busy = {} ELSE FALSE]
Goto(c, next) == call' = [call EXCEPT ![c] = next] /\ UNCHANGED alone
Return(c) == Goto(c, Idle)

Init ==
  /\ origin = 1 /\ fn = None /\ data = None /\ store = None
  /\ memo = [r \in Requests |-> None]
  /\ call = [c \in Callers |-> Idle]
  /\ alone = [c \in Callers |-> FALSE]
  /\ cleared = {} /\ floor = [p \in Places |-> 0]

------------------------------------------------------------------------------
(* unstable_cache *)
CallFunction(c) ==
  /\ fn = None
  /\ Begin(c, [pc |-> "handler", ver |-> origin])
  /\ UNCHANGED <<origin, fn, data, store, memo, cleared, floor>>

\* The handler returns, or throws and caches nothing.
HandlerDone(c) ==
  /\ call[c].pc = "handler"
  /\ fn' \in {call[c].ver, fn}
  /\ Return(c)
  /\ UNCHANGED <<origin, data, store, memo, cleared, floor>>

------------------------------------------------------------------------------
(* sourceogFetch.  A hit in the shared data cache is memoised and returned at *)
(* once; otherwise the persistent store is read, and only after that await    *)
(* is the request's memo looked at.                                           *)
MemoiseSettled(c, promise) ==
  memo' = IF promise # None /\ promise.by # None THEN memo
          ELSE [memo EXCEPT ![Req(c)] = promise]
Memoise(c, promise) == memo' = [memo EXCEPT ![Req(c)] = promise]

FetchHit(c) ==
  /\ call[c].pc = "idle" /\ data # None
  /\ Memoise(c, [by |-> None, out |-> data])
  /\ UNCHANGED <<origin, fn, data, store, call, alone, cleared, floor>>

FetchMiss(c) ==
  /\ data = None
  /\ Begin(c, [pc |-> "lookup", ver |-> store])
  /\ UNCHANGED <<origin, fn, data, store, memo, cleared, floor>>

LookedUp(c) ==
  /\ call[c].pc = "lookup"
  /\ LET found == call[c].ver
         known == memo[Req(c)]
     IN CASE found # None ->
               /\ data' = found
               /\ Memoise(c, [by |-> None, out |-> found])
               /\ Return(c)
          [] found = None /\ known # None ->
               /\ IF known.by # None THEN Goto(c, [pc |-> "join", on |-> known.by])
                                         ELSE Return(c)
               /\ UNCHANGED <<data, memo>>
          [] OTHER ->
               /\ Memoise(c, [by |-> c, out |-> None])
               /\ Goto(c, [pc |-> "fetch", ver |-> origin])
               /\ UNCHANGED data
  /\ UNCHANGED <<origin, fn, store, cleared, floor>>

\* The promise settles: those who joined it return, with its value or its
\* error (out = None), and after an error the caller that made it drops the request's memo.
Settle(c, out) ==
  /\ call' = [d \in Callers |->
       IF d = c \/ (call[d].pc = "join" /\ call[d].on = c) THEN Idle ELSE call[d]]
  /\ memo' = CASE out = None -> [memo EXCEPT ![Req(c)] = None]
               [] out # None /\ memo[Req(c)] # None /\ memo[Req(c)].by = c ->
                    [memo EXCEPT ![Req(c)] = [by |-> None, out |-> out]]
               [] OTHER -> memo
  /\ UNCHANGED alone

\* writeSharedDataCache: only for force-cache or a revalidate interval.
Answered(c) ==
  /\ call[c].pc = "fetch"
  /\ \/ Settle(c, None) /\ UNCHANGED data
     \/ Settle(c, call[c].ver) /\ UNCHANGED data
     \/ /\ data' = call[c].ver
        /\ Goto(c, [pc |-> "persist", ver |-> call[c].ver])
        /\ UNCHANGED memo
  /\ UNCHANGED <<origin, fn, store, cleared, floor>>

\* The store takes the entry, or its error becomes the fetch's.
Persisted(c) ==
  /\ call[c].pc = "persist"
  /\ \/ store' = call[c].ver /\ Settle(c, call[c].ver)
     \/ store' = store /\ Settle(c, None)
  /\ UNCHANGED <<origin, fn, data, cleared, floor>>

------------------------------------------------------------------------------
(* Code writes the source and invalidates what resolveCacheInvalidation found: *)
(* keys, then routes and pathnames, then tags.  Each stage drops the maps at  *)
(* once and then awaits the store.  The memo and the store are those of the   *)
(* request context: inside one when an action or a handler revalidates,       *)
(* outside when the server applies the targets linked to an action.           *)
Stages == {<<"tag">>, <<"route">>, <<"key", "route", "tag">>}

DropFunctions(c, stage) ==
  /\ data' = data
  /\ fn' = IF stage \in FnLinks THEN None ELSE fn
DropMaps(c, stage) ==
  /\ data' = None
  /\ fn' = IF stage \in FnLinks THEN None ELSE fn

Mutate(c, stages, inside) ==
  /\ origin < MaxVersion
  /\ origin' = origin + 1
  /\ memo' = IF inside THEN [memo EXCEPT ![Req(c)] = None] ELSE memo
  /\ cleared' = IF inside /\ \E d \in Callers : Req(d) = Req(c) /\ Fetching(d)
                THEN cleared \cup {Req(c)} ELSE cleared
  /\ DropMaps(c, Head(stages))
  /\ Begin(c, [pc |-> "purge", ver |-> origin + 1, todo |-> stages, did |-> stages,
               inside |-> inside])
  /\ UNCHANGED <<store, floor>>

\* A stage's store call ends, or there is no store to call; the next stage drops
\* its maps, or the invalidation is over.
Purged(c) ==
  /\ call[c].pc = "purge"
  /\ store' = IF call[c].inside THEN None ELSE store
  /\ LET rest == Tail(call[c].todo)
         reached(p) == IF p = "fn" THEN \E i \in DOMAIN call[c].did : call[c].did[i] \in FnLinks
                                   ELSE call[c].inside
     IN IF rest = <<>>
        THEN /\ Return(c)
             /\ floor' = [p \in Places |->
                            IF alone[c] /\ reached(p) THEN call[c].ver ELSE floor[p]]
             /\ UNCHANGED <<fn, data>>
        ELSE /\ Goto(c, [call[c] EXCEPT !.todo = rest])
             /\ DropMaps(c, Head(rest))
             /\ UNCHANGED floor
  /\ UNCHANGED <<origin, memo, cleared>>

Step(c) == \/ CallFunction(c) \/ HandlerDone(c)
           \/ FetchHit(c) \/ FetchMiss(c) \/ LookedUp(c) \/ Answered(c) \/ Persisted(c)
           \/ \E s \in Stages, inside \in BOOLEAN : Mutate(c, s, inside)
           \/ Purged(c)
Next == \E c \in Callers : Step(c)
Spec == Init /\ [][Next]_vars

------------------------------------------------------------------------------
Holds == [fn |-> fn, data |-> data, store |-> store]

\* An invalidation no read overlapped is final: the function cache and, if it ran
\* inside a request context, the shared data cache and the store never again hold
\* a value older than it, whatever runs afterwards.  Outside one the next read
\* brings the old value of the store back into the shared data cache
\* (applyResolvedCacheInvalidation with every cache it reaches).
LoneInvalidationHolds ==
  \A p \in Places : Holds[p] # None => Holds[p] >= floor[p]

\* One request asks the origin at most once at a time, although the memo is
\* only consulted after the await on the store - until an invalidation by the
\* request clears its memo under a running fetch.
OneFetchPerRequest ==
  \A r \in Requests \ cleared :
    Cardinality({c \in Callers : Req(c) = r /\ Fetching(c)}) <= 1
------------------------------------------------------------------------------
Value == Nat \cup {None}
Promises == [by : Callers \cup {None}, out : Value]
Calls ==
  [pc : {"idle"}] \cup [pc : {"handler", "fetch", "persist"}, ver : Nat]
    \cup [pc : {"lookup"}, ver : Value] \cup [pc : {"join"}, on : Callers]
    \cup [pc : {"purge"}, ver : Nat, todo : Seq({"key", "route", "tag"}) \ {<<>>},
          did : Seq({"key", "route", "tag"}), inside : BOOLEAN]
TypeOK ==
  /\ origin \in Nat /\ fn \in Value /\ data \in Value /\ store \in Value
  /\ memo \in [Requests -> Promises \cup {None}]
  /\ call \in [Callers -> Calls] /\ alone \in [Callers -> BOOLEAN]
  /\ cleared \subseteq Requests /\ floor \in [Places -> Nat]

\* Why a request fetches once: whoever fetches has left a promise in the memo, and only who
\* finds none there goes on to fetch.
FetchIsMemoised ==
  \A c \in Callers : Fetching(c) /\ Req(c) \notin cleared =>
    /\ memo[Req(c)] # None
    /\ \A d \in Callers : Fetching(d) /\ Req(d) = Req(c) => d = c

\* Why a lone invalidation is final: no call that was under way is left when it ends, and
\* those that start later read nothing older than what it left as the oldest.
AloneIsAlone == \A c \in Callers : alone[c] /\ call[c].pc # "idle" => Busy = {c}
Remaining(c) ==
  LET todo == call[c].todo
      did == call[c].did
  IN Len(todo) <= Len(did) /\ \A i \in 1 .. Len(todo) : todo[i] = did[Len(did) - Len(todo) + i]
Dropped(c) ==
  /\ data = None
  /\ (\E i \in 1 .. Len(call[c].did) :
        i <= Len(call[c].did) - Len(call[c].todo) + 1 /\ call[c].did[i] \in FnLinks) => fn = None
NothingOldIsHeld ==
  /\ floor["store"] = floor["data"] /\ \A p \in Places : floor[p] <= origin
  /\ fn # None => fn >= floor["fn"]
  /\ data # None => data >= floor["data"]
  /\ store # None => store >= floor["data"]
  /\ \A c \in Callers :
       /\ call[c].pc = "handler" => call[c].ver >= floor["fn"]
       /\ call[c].pc = "lookup" /\ call[c].ver # None => call[c].ver >= floor["data"]
       /\ Fetching(c) => call[c].ver >= floor["data"]
       /\ call[c].pc = "purge" =>
            call[c].ver <= origin /\ Remaining(c) /\ (alone[c] => Dropped(c))
Inv == TypeOK /\ FetchIsMemoised /\ AloneIsAlone /\ NothingOldIsHeld
================================================================================
