---------------------------- MODULE Serving_proofs ----------------------------
(***************************************************************************)
(* Properties of Serving for every value of the constants of its           *)
(* components.  The components share no state, so that the proof about one *)
(* of them looks at its own steps alone: where another component is        *)
(* picked, there is nothing to show.                                       *)
(***************************************************************************)
EXTENDS Serving, FiniteSetTheorems, SequenceTheorems, WellFoundedInduction,
        NaturalsInduction, TLAPS

-----------------------------------------------------------------------------
(* Facts about sequences and finite sets.                                  *)
\* What is left of a sequence without its head.
LEMMA TailFacts ==
  ASSUME NEW S, NEW s \in Seq(S), s # <<>>
  PROVE  /\ Tail(s) \in Seq(S) /\ Len(Tail(s)) = Len(s) - 1 /\ Len(s) \in Nat
         /\ Tail(s) = <<>> <=> Len(s) = 1
         /\ Tail(s) # <<>> => Head(Tail(s)) = s[2]
         /\ \A i \in 1 .. Len(Tail(s)) : Tail(s)[i] = s[i + 1]
<1>1. /\ Tail(s) \in Seq(S) /\ Len(Tail(s)) = Len(s) - 1 /\ Len(s) \in Nat \ {0}
      /\ \A i \in 1 .. Len(Tail(s)) : Tail(s)[i] = s[i + 1]
  OBVIOUS
<1>2. \A t \in Seq(S) : t = <<>> <=> Len(t) = 0
  OBVIOUS
<1>3. \A t \in Seq(S) : t # <<>> => Head(t) = t[1] /\ 1 \in 1 .. Len(t)
  OBVIOUS
<1>4. Tail(s) # <<>> => Head(Tail(s)) = s[2]
  BY <1>1, <1>3
<1>5. Tail(s) = <<>> <=> Len(s) = 1
  BY <1>1, <1>2
<1> QED BY <1>1, <1>4, <1>5

\* The components count with the Cardinality of FiniteSets.
LEMMA OneCardinality ==
  ASSUME NEW S
  PROVE  /\ SA!Cardinality(S) = Cardinality(S) /\ RC!Cardinality(S) = Cardinality(S)
         /\ RM!Cardinality(S) = Cardinality(S)
BY DEF Cardinality, SA!Cardinality, RC!Cardinality, RM!Cardinality

\* A set whose members are all the same has one at most.
LEMMA OneAtMost ==
  ASSUME NEW S, \A x, y \in S : x = y
  PROVE  Cardinality(S) <= 1
<1>1. CASE S = {}
  BY <1>1, FS_EmptySet
<1>2. CASE S # {}
  <2>1. PICK x : x \in S
    BY <1>2
  <2>2. S = {x}
    BY <2>1
  <2>3. Cardinality(S) = 1
    BY <2>2, FS_Singleton
  <2> QED BY <2>3
<1> QED BY <1>1, <1>2

-----------------------------------------------------------------------------
(* The worker process.                                                     *)
WorkerInv == which = "worker" => WP!Inv

\* A step of the composition is one of the component that was picked, or none.
LEMMA WorkerSteps ==
  ASSUME [Next]_all, which' = "worker"
  PROVE  which = "worker" /\ [WP!Next]_<<v1, v2, v3, v4, v5, v6, v7>>
BY DEF Next, all, shared

\* One render at most is behind the mutex.
LEMMA WorkerInit == Init => WorkerInv
<1> SUFFICES ASSUME Init, which = "worker" PROVE WP!Inv
  BY DEF WorkerInv
<1>1. WP!Init
  BY DEF Init
<1>2. WP!TypeOK
  BY <1>1 DEF WP!Init, WP!TypeOK
<1>3. WP!OneBehindTheMutex
  BY <1>1 DEF WP!Init, WP!OneBehindTheMutex, WP!Taken, WP!Waiting, WP!Inside
<1> QED BY <1>2, <1>3 DEF WP!Inv

LEMMA WorkerNext == WorkerInv /\ [Next]_all => WorkerInv'
<1> SUFFICES ASSUME WorkerInv, [Next]_all, which' = "worker" PROVE WP!Inv'
  BY DEF WorkerInv
<1>1. WP!Inv /\ [WP!Next]_<<v1, v2, v3, v4, v5, v6, v7>>
  BY WorkerSteps DEF WorkerInv
<1>2. WP!TypeOK /\ WP!OneBehindTheMutex
  BY <1>1 DEF WP!Inv
<1> USE DEF WP!TypeOK, WP!OneBehindTheMutex, WP!Taken, WP!Waiting, WP!Inside
<1>3. CASE UNCHANGED <<v1, v2, v3, v4, v5, v6, v7>>
  BY <1>2, <1>3 DEF WP!Inv
<1>4. CASE WP!Ready
  BY <1>2, <1>4 DEF WP!Inv, WP!Ready
<1>5. CASE WP!ReceivePing
  BY <1>2, <1>5 DEF WP!Inv, WP!ReceivePing
<1>6. CASE WP!ReceiveShutdown
  BY <1>2, <1>6 DEF WP!Inv, WP!ReceiveShutdown
<1>7. CASE WP!DrainTimeout
  BY <1>2, <1>7 DEF WP!Inv, WP!DrainTimeout
<1>8. ASSUME NEW r \in WorkerRequests, WP!ReceiveRender(r) PROVE WP!Inv'
  <2>1. CASE v1 = "ready"
    <3>1. v5 = <<>> /\ v4 = <<>> /\ \A s \in WorkerRequests : ~WP!Taken(s)
      BY <1>2, <2>1
    <3>2. /\ v4' = <<r>> /\ v1' = "busy" /\ v2' = v2 /\ v5' = v5 /\ v6' = v6 /\ v7' = v7
          /\ v3' = [v3 EXCEPT ![r] = "waiting"]
      BY <1>8, <2>1, <3>1 DEF WP!ReceiveRender, WP!IsAcceptingWork, WP!Goto
    <3> QED BY <1>2, <2>1, <3>1, <3>2 DEF WP!Inv
  <2>2. CASE v1 # "ready"
    <3>1. v3[r] = "unsent" /\ v3' = [v3 EXCEPT ![r] = "done"] /\ v6' = [v6 EXCEPT ![r] = Append(@, "unavailable")]
      BY <1>8, <2>2 DEF WP!ReceiveRender, WP!IsAcceptingWork, WP!Goto, WP!Post
    <3>2. UNCHANGED <<v1, v2, v4, v5, v7>>
      BY <1>8, <2>2 DEF WP!ReceiveRender, WP!IsAcceptingWork
    <3>3. \A s \in WorkerRequests : /\ v3'[s] = IF s = r THEN "done" ELSE v3[s]
                                    /\ WP!Taken(s)' = WP!Taken(s)
      BY <1>2, <3>1
    <3>4. WP!TypeOK'
      BY <1>2, <3>1, <3>2
    <3> QED BY <1>2, <3>1, <3>2, <3>3, <3>4 DEF WP!Inv
  <2> QED BY <2>1, <2>2
<1>9. ASSUME NEW r \in WorkerRequests, WP!StartRender(r) PROVE WP!Inv'
  <2>1. /\ v3[r] = "waiting" /\ v3' = [v3 EXCEPT ![r] = "resolving"] /\ v5' = Append(v5, r)
        /\ UNCHANGED <<v1, v2, v4, v6, v7>>
    BY <1>9 DEF WP!StartRender, WP!Goto
  <2>2. v5 = <<>>
    BY <1>2, <2>1
  <2>3. \A s \in WorkerRequests : WP!Taken(s)' = WP!Taken(s) /\ (WP!Inside(s)' <=> s = r)
    BY <1>2, <2>1
  <2> QED BY <1>2, <2>1, <2>2, <2>3 DEF WP!Inv
<1>11. ASSUME NEW r \in WorkerRequests, WP!ResolveComponents(r) PROVE WP!Inv'
  <2>1. /\ v3[r] = "resolving" /\ v3' = [v3 EXCEPT ![r] = "rendering"]
        /\ UNCHANGED <<v1, v2, v4, v5, v6, v7>>
    BY <1>11 DEF WP!ResolveComponents, WP!Goto
  <2>2. \A s \in WorkerRequests : WP!Taken(s)' = WP!Taken(s) /\ WP!Inside(s)' = WP!Inside(s)
    BY <1>2, <2>1
  <2> QED BY <1>2, <2>1, <2>2 DEF WP!Inv
<1>10. ASSUME NEW r \in WorkerRequests, NEW what \in {"result", "error"}, WP!EndRender(r, what)
       PROVE  WP!Inv'
  <2>1. /\ v3[r] \in {"resolving", "rendering"} /\ v3' = [v3 EXCEPT ![r] = "done"]
        /\ v6' = [v6 EXCEPT ![r] = Append(@, what)] /\ v5' = SubSeq(v5, 1, Len(v5) - 1)
        /\ v4' = Tail(v4) /\ v1' = (IF v1 = "busy" THEN "ready" ELSE v1) /\ UNCHANGED <<v2, v7>>
    BY <1>10 DEF WP!EndRender, WP!Goto, WP!Post, WP!Restored, WP!Released, WP!AfterRender
  <2>2. v5 = <<r>> /\ v4 = <<r>> /\ v1 \notin {"initializing", "ready"}
    BY <1>2, <2>1
  <2>3. v5' = <<>> /\ v4' = <<>>
    BY <2>1, <2>2
  <2>4. \A s \in WorkerRequests : ~WP!Taken(s)'
    BY <1>2, <2>1
  <2> QED BY <1>2, <2>1, <2>2, <2>3, <2>4 DEF WP!Inv
<1> QED BY <1>1, <1>3, <1>4, <1>5, <1>6, <1>7, <1>8, <1>9, <1>10, <1>11 DEF WP!Next

(* A worker process is free when it says so, is not revived after it began *)
(* to shut down, and has the globals of one render at most                 *)
(* (worker-lifecycle.ts, worker-router.ts), for any number of messages.    *)
THEOREM WorkersTellTheTruth == Spec => []WorkerTellsTheTruth
<1>1. ASSUME WorkerInv, which = "worker" PROVE WP!FreeMeansFree /\ WP!OneRenderAtATime
  <2>1. WP!TypeOK /\ WP!OneBehindTheMutex
    BY <1>1 DEF WorkerInv, WP!Inv
  <2>2. WP!FreeMeansFree
    BY <2>1 DEF WP!OneBehindTheMutex, WP!Taken, WP!Waiting, WP!Inside, WP!FreeMeansFree
  <2>3. Len(v5) <= 1
    <3>1. v5 = <<>> \/ \E r \in WorkerRequests : v5 = <<r>>
      BY <2>1 DEF WP!OneBehindTheMutex
    <3>2. CASE v5 = <<>>
      BY <3>2
    <3>3. ASSUME NEW r \in WorkerRequests, v5 = <<r>> PROVE Len(v5) <= 1
      BY <3>3
    <3> QED BY <3>1, <3>2, <3>3
  <2> QED BY <2>1, <2>2, <2>3 DEF WP!OneBehindTheMutex, WP!OneRenderAtATime, WP!Inside
<1>2. WorkerInv => WorkerTellsTheTruth
  BY <1>1 DEF WorkerTellsTheTruth, WP_FreeMeansFree, WP_OneRenderAtATime
<1> QED BY WorkerInit, WorkerNext, <1>2, PTL DEF Spec

-----------------------------------------------------------------------------
(* The caches of the runtime.                                              *)
CacheInv == which = "runtime" => RC!Inv

LEMMA CacheSteps ==
  ASSUME [Next]_all, which' = "runtime"
  PROVE  which = "runtime" /\ [RC!Next]_<<v1, v2, v3, v4, v5, v6, v7, v8, v9>>
BY DEF Next, all, shared

LEMMA CacheInit == Init => CacheInv
<1> SUFFICES ASSUME Init, which = "runtime" PROVE RC!Inv
  BY DEF CacheInv
<1>1. RC!Init
  BY DEF Init
<1>2. RC!TypeOK
  BY <1>1 DEF RC!Init, RC!TypeOK, RC!Value, RC!Calls, RC!Idle
<1>3. RC!FetchIsMemoised /\ RC!AloneIsAlone /\ RC!NothingOldIsHeld
  BY <1>1 DEF RC!Init, RC!FetchIsMemoised, RC!AloneIsAlone, RC!NothingOldIsHeld, RC!Fetching,
              RC!Idle, RC!Places
<1> QED BY <1>2, <1>3 DEF RC!Inv

\* What a call keeps, by what it is doing.
LEMMA CallKinds ==
  ASSUME NEW x \in RC!Calls
  PROVE  /\ x.pc \in {"idle", "handler", "fetch", "persist", "lookup", "join", "purge"}
         /\ x.pc \in {"handler", "fetch", "persist", "purge"} => x.ver \in Nat
         /\ x.pc = "lookup" => x.ver \in RC!Value
         /\ x.pc = "join" => x.on \in CacheCallers
         /\ x.pc = "purge" => /\ x = [pc |-> "purge", ver |-> x.ver, todo |-> x.todo, did |-> x.did,
                                       inside |-> x.inside]
                              /\ x.inside \in BOOLEAN
                              /\ x.todo \in Seq({"key", "route", "tag"}) /\ x.todo # <<>>
                              /\ x.did \in Seq({"key", "route", "tag"})
BY DEF RC!Calls

\* A promise that settles leaves the calls of the others and their promises as they are.
LEMMA CacheSettles ==
  ASSUME RC!TypeOK, RC!FetchIsMemoised, RC!AloneIsAlone, NEW c \in CacheCallers, RC!Fetching(c),
         NEW out \in RC!Value, RC!Settle(c, out), v8' = v8
  PROVE  /\ v5' \in [CacheRequests -> RC!Promises \cup {None}] /\ v6' \in [CacheCallers -> RC!Calls]
         /\ v7' = v7 /\ RC!FetchIsMemoised' /\ RC!AloneIsAlone'
         /\ \A d \in CacheCallers : v6'[d].pc # "idle" => d # c /\ v6'[d] = v6[d]
<1> USE RequestAssumption, NoneAssumption DEF RC!Req, RC!Fetching
<1>1. v7' = v7 /\ \A d \in CacheCallers : v6'[d].pc # "idle" => d # c /\ v6'[d] = v6[d]
  BY DEF RC!Settle, RC!TypeOK, RC!Idle
<1>2. [by |-> None, out |-> out] \in RC!Promises
  BY DEF RC!Promises
<1>3. v5' \in [CacheRequests -> RC!Promises \cup {None}] /\ v6' \in [CacheCallers -> RC!Calls]
  BY <1>2 DEF RC!Settle, RC!TypeOK, RC!Calls, RC!Idle
<1>4. \A r \in CacheRequests : r # CacheRequestOf[c] => v5'[r] = v5[r]
  BY DEF RC!Settle, RC!TypeOK
<1>5. CacheRequestOf[c] \notin v8 => \A d \in CacheCallers \ {c} :
        RC!Fetching(d) => CacheRequestOf[d] # CacheRequestOf[c]
  BY DEF RC!FetchIsMemoised
<1>6. RC!FetchIsMemoised'
  <2> SUFFICES ASSUME NEW d \in CacheCallers, RC!Fetching(d)', CacheRequestOf[d] \notin v8
               PROVE  /\ v5'[CacheRequestOf[d]] # None
                      /\ \A e \in CacheCallers :
                           RC!Fetching(e)' /\ CacheRequestOf[e] = CacheRequestOf[d] => e = d
    BY DEF RC!FetchIsMemoised
  <2>1. d # c /\ RC!Fetching(d) /\ \A e \in CacheCallers : RC!Fetching(e)' => RC!Fetching(e)
    BY <1>1
  <2>2. CacheRequestOf[d] # CacheRequestOf[c]
    BY <2>1 DEF RC!FetchIsMemoised
  <2> QED BY <1>4, <2>1, <2>2 DEF RC!FetchIsMemoised
<1>7. RC!AloneIsAlone'
  BY <1>1 DEF RC!AloneIsAlone, RC!Busy
<1> QED BY <1>1, <1>3, <1>6, <1>7

\* NothingOldIsHeld of one caller: it goes on if its caller does nothing and the places that
\* an invalidation has emptied stay as they are.
CallHolds(c) ==
  /\ v6[c].pc = "handler" => v6[c].ver >= v9["fn"]
  /\ v6[c].pc = "lookup" /\ v6[c].ver # None => v6[c].ver >= v9["data"]
  /\ RC!Fetching(c) => v6[c].ver >= v9["data"]
  /\ v6[c].pc = "purge" => v6[c].ver <= v1 /\ RC!Remaining(c) /\ (v7[c] => RC!Dropped(c))

LEMMA CallsHold == RC!NothingOldIsHeld => \A c \in CacheCallers : CallHolds(c)
BY DEF RC!NothingOldIsHeld, CallHolds

LEMMA CallGoesOn ==
  ASSUME NEW c \in CacheCallers, CallHolds(c), v6'[c] = v6[c], v1' = v1, v9' = v9,
         v6[c].pc = "purge" /\ v7'[c] => v7[c] /\ v2' = v2 /\ v3' = v3
  PROVE  CallHolds(c)'
BY DEF CallHolds, RC!Fetching, RC!Remaining, RC!Dropped

LEMMA PlacesHold ==
  ASSUME RC!NothingOldIsHeld, v1' = v1, v9' = v9,
         v2' = v2 \/ v2' >= v9["fn"], v3' = v3 \/ v3' >= v9["data"], v4' = v4 \/ v4' >= v9["data"],
         \A c \in CacheCallers : CallHolds(c)'
  PROVE  RC!NothingOldIsHeld'
BY DEF RC!NothingOldIsHeld, CallHolds

LEMMA CacheNext == CacheInv /\ [Next]_all => CacheInv'
<1> SUFFICES ASSUME CacheInv, [Next]_all, which' = "runtime" PROVE RC!Inv'
  BY DEF CacheInv
<1>1. RC!Inv /\ [RC!Next]_<<v1, v2, v3, v4, v5, v6, v7, v8, v9>>
  BY CacheSteps DEF CacheInv
<1>2. RC!TypeOK /\ RC!FetchIsMemoised /\ RC!AloneIsAlone /\ RC!NothingOldIsHeld
  BY <1>1 DEF RC!Inv
<1>3. CASE UNCHANGED <<v1, v2, v3, v4, v5, v6, v7, v8, v9>>
  BY <1>2, <1>3 DEF RC!Inv, RC!TypeOK, RC!FetchIsMemoised, RC!AloneIsAlone, RC!NothingOldIsHeld,
       RC!Fetching, RC!Req, RC!Busy, RC!Dropped, RC!Remaining
<1>4. ASSUME NEW c \in CacheCallers, RC!CallFunction(c) PROVE RC!Inv'
  <2> USE NoneAssumption, RequestAssumption DEF RC!Begin
  <2>1. /\ v6[c].pc = "idle" /\ v6' = [v6 EXCEPT ![c] = [pc |-> "handler", ver |-> v1]]
        /\ UNCHANGED <<v1, v2, v3, v4, v5, v8, v9>>
        /\ v7' = [d \in CacheCallers |-> IF d = c THEN RC!Busy = {} ELSE FALSE]
    BY <1>4 DEF RC!CallFunction
  <2>2. RC!TypeOK'
    BY <1>2, <2>1 DEF RC!TypeOK, RC!Calls
  <2>3. RC!FetchIsMemoised'
    BY <1>2, <2>1 DEF RC!FetchIsMemoised, RC!Fetching, RC!Req, RC!TypeOK
  <2>4. RC!AloneIsAlone'
    BY <1>2, <2>1 DEF RC!AloneIsAlone, RC!Busy, RC!TypeOK
  <2>5. RC!NothingOldIsHeld'
    <3>1. ASSUME NEW d \in CacheCallers PROVE CallHolds(d)'
      <4>1. CASE d = c
        <5>1. v6'[c].pc = "handler" /\ v6'[c].ver = v1
          BY <1>2, <2>1 DEF RC!TypeOK
        <5>2. v1 >= v9["fn"]
          BY <1>2 DEF RC!NothingOldIsHeld, RC!TypeOK, RC!Places
        <5> QED BY <2>1, <4>1, <5>1, <5>2 DEF CallHolds, RC!Fetching
      <4>2. CASE d # c
        <5>1. v6'[d] = v6[d] /\ ~v7'[d]
          BY <1>2, <2>1, <4>2 DEF RC!TypeOK
        <5> QED BY <1>2, <2>1, <5>1, CallsHold, CallGoesOn
      <4> QED BY <4>1, <4>2
    <3> QED BY <1>2, <2>1, <3>1, PlacesHold
  <2> QED BY <2>2, <2>3, <2>4, <2>5 DEF RC!Inv
<1>5. ASSUME NEW c \in CacheCallers, RC!HandlerDone(c) PROVE RC!Inv'
  <2>1. /\ v6[c].pc = "handler" /\ v6' = [v6 EXCEPT ![c] = [pc |-> "idle"]]
        /\ v2' \in {v6[c].ver, v2}
        /\ UNCHANGED <<v1, v3, v4, v5, v7, v8, v9>>
    BY <1>5 DEF RC!HandlerDone, RC!Return, RC!Goto, RC!Idle
  <2>2. RC!TypeOK'
    BY <1>2, <2>1, CallKinds DEF RC!TypeOK, RC!Calls, RC!Value
  <2>3. RC!FetchIsMemoised'
    BY <1>2, <2>1 DEF RC!FetchIsMemoised, RC!Fetching, RC!Req, RC!TypeOK
  <2>4. RC!AloneIsAlone'
    BY <1>2, <2>1 DEF RC!AloneIsAlone, RC!Busy, RC!TypeOK
  <2>5. RC!NothingOldIsHeld'
    <3>1. \A d \in CacheCallers : v7[d] /\ v6[d].pc = "purge" => d = c
      BY <1>2, <2>1 DEF RC!AloneIsAlone, RC!Busy
    <3> QED BY <1>2, <2>1, <3>1 DEF RC!NothingOldIsHeld, RC!Fetching, RC!TypeOK, RC!Dropped, RC!Remaining, RC!Places
  <2> QED BY <2>2, <2>3, <2>4, <2>5 DEF RC!Inv
<1>6. ASSUME NEW c \in CacheCallers, RC!FetchHit(c) PROVE RC!Inv'
  <2>1. /\ v6[c].pc = "idle" /\ v3 # None /\ v5' = [v5 EXCEPT ![CacheRequestOf[c]] = [by |-> None, out |-> v3]]
        /\ UNCHANGED <<v1, v2, v3, v4, v6, v7, v8, v9>>
    BY <1>6 DEF RC!FetchHit, RC!Memoise, RC!Req
  <2>2. [by |-> None, out |-> v3] \in RC!Promises
    BY <1>2 DEF RC!TypeOK, RC!Promises
  <2>3. RC!TypeOK'
    BY <1>2, <2>1, <2>2, RequestAssumption DEF RC!TypeOK
  <2>4. RC!FetchIsMemoised'
    BY <1>2, <2>1, <2>2, RequestAssumption, NoneAssumption DEF RC!FetchIsMemoised, RC!Fetching, RC!Req, RC!TypeOK
  <2>5. RC!AloneIsAlone' /\ RC!NothingOldIsHeld'
    BY <1>2, <2>1 DEF RC!AloneIsAlone, RC!Busy, RC!NothingOldIsHeld, RC!Fetching, RC!Dropped, RC!Remaining
  <2> QED BY <2>3, <2>4, <2>5 DEF RC!Inv
<1>7. ASSUME NEW c \in CacheCallers, RC!FetchMiss(c) PROVE RC!Inv'
  <2>1. /\ v6[c].pc = "idle" /\ v6' = [v6 EXCEPT ![c] = [pc |-> "lookup", ver |-> v4]]
        /\ UNCHANGED <<v1, v2, v3, v4, v5, v8, v9>>
        /\ v7' = [d \in CacheCallers |-> IF d = c THEN RC!Busy = {} ELSE FALSE]
    BY <1>7 DEF RC!FetchMiss, RC!Begin
  <2>2. RC!TypeOK'
    BY <1>2, <2>1 DEF RC!TypeOK, RC!Calls
  <2>3. RC!FetchIsMemoised'
    BY <1>2, <2>1 DEF RC!FetchIsMemoised, RC!Fetching, RC!Req, RC!TypeOK
  <2>4. RC!AloneIsAlone'
    BY <1>2, <2>1 DEF RC!AloneIsAlone, RC!Busy, RC!TypeOK
  <2>5. RC!NothingOldIsHeld'
    BY <1>2, <2>1 DEF RC!NothingOldIsHeld, RC!Fetching, RC!TypeOK, RC!Dropped, RC!Remaining
  <2> QED BY <2>2, <2>3, <2>4, <2>5 DEF RC!Inv
<1>8. ASSUME NEW c \in CacheCallers, RC!LookedUp(c) PROVE RC!Inv'
  <2> USE RequestAssumption, NoneAssumption
  <2> DEFINE found == v6[c].ver
             known == v5[CacheRequestOf[c]]
  <2>1. v6[c].pc = "lookup" /\ UNCHANGED <<v1, v2, v4, v7, v8, v9>>
    BY <1>8 DEF RC!LookedUp, RC!Return, RC!Goto
  <2>2. found \in RC!Value /\ known \in RC!Promises \cup {None}
    BY <1>2, <2>1, CallKinds DEF RC!TypeOK
  <2>3. \A d \in CacheCallers : v7[d] /\ v6[d].pc = "purge" => FALSE
    BY <1>2, <2>1 DEF RC!AloneIsAlone, RC!Busy
  <2>4. CASE found # None
    <3>1. /\ v3' = found /\ v5' = [v5 EXCEPT ![CacheRequestOf[c]] = [by |-> None, out |-> found]]
          /\ v6' = [v6 EXCEPT ![c] = [pc |-> "idle"]]
      BY <1>8, <2>4 DEF RC!LookedUp, RC!Return, RC!Goto, RC!Memoise, RC!Req, RC!Idle
    <3>2. [by |-> None, out |-> found] \in RC!Promises
      BY <2>2 DEF RC!Promises
    <3>3. RC!TypeOK'
      BY <1>2, <2>1, <2>2, <3>1, <3>2 DEF RC!TypeOK, RC!Calls
    <3>4. RC!FetchIsMemoised'
      BY <1>2, <2>1, <3>1, <3>2 DEF RC!FetchIsMemoised, RC!Fetching, RC!Req, RC!TypeOK
    <3>5. RC!AloneIsAlone'
      BY <1>2, <2>1, <3>1 DEF RC!AloneIsAlone, RC!Busy, RC!TypeOK
    <3>6. RC!NothingOldIsHeld'
      <4>1. ASSUME NEW d \in CacheCallers PROVE CallHolds(d)'
        <5>1. v6'[d] = v6[d] \/ v6'[d].pc = "idle"
          BY <1>2, <3>1 DEF RC!TypeOK
        <5>2. v6[d].pc = "purge" => ~v7'[d]
          BY <2>1, <2>3
        <5>3. CASE v6'[d] = v6[d]
          BY <1>2, <2>1, <5>2, <5>3, CallsHold, CallGoesOn
        <5> QED BY <5>1, <5>3 DEF CallHolds, RC!Fetching
      <4>2. found >= v9["data"]
        BY <1>2, <2>1, <2>4 DEF RC!NothingOldIsHeld
      <4> QED BY <1>2, <2>1, <3>1, <4>1, <4>2, PlacesHold
    <3> QED BY <3>3, <3>4, <3>5, <3>6 DEF RC!Inv
  <2>5. CASE found = None /\ known # None
    <3>1. /\ UNCHANGED <<v3, v5>>
          /\ \/ known.by # None /\ v6' = [v6 EXCEPT ![c] = [pc |-> "join", on |-> known.by]]
             \/ v6' = [v6 EXCEPT ![c] = [pc |-> "idle"]]
      BY <1>8, <2>5 DEF RC!LookedUp, RC!Return, RC!Goto, RC!Memoise, RC!Req, RC!Idle
    <3>2. known.by # None => known.by \in CacheCallers
      BY <2>2, <2>5 DEF RC!Promises
    <3>3. RC!TypeOK'
      BY <1>2, <2>1, <3>1, <3>2 DEF RC!TypeOK, RC!Calls
    <3>4. RC!FetchIsMemoised'
      BY <1>2, <2>1, <3>1 DEF RC!FetchIsMemoised, RC!Fetching, RC!Req, RC!TypeOK
    <3>5. RC!AloneIsAlone'
      BY <1>2, <2>1, <3>1 DEF RC!AloneIsAlone, RC!Busy, RC!TypeOK
    <3>6. /\ \A d \in CacheCallers : d # c => v6'[d] = v6[d]
          /\ v6'[c].pc \in {"join", "idle"}
      BY <1>2, <3>1 DEF RC!TypeOK
    <3>7. RC!NothingOldIsHeld'
      <4>1. \A d \in CacheCallers : d # c => (RC!Remaining(d)' <=> RC!Remaining(d))
        BY <3>6 DEF RC!Remaining
      <4> QED BY <1>2, <2>1, <2>3, <3>1, <3>6, <4>1 DEF RC!NothingOldIsHeld, RC!Fetching
    <3> QED BY <3>3, <3>4, <3>5, <3>7 DEF RC!Inv
  <2>6. CASE found = None /\ known = None
    <3>1. /\ v3' = v3 /\ v5' = [v5 EXCEPT ![CacheRequestOf[c]] = [by |-> c, out |-> None]]
          /\ v6' = [v6 EXCEPT ![c] = [pc |-> "fetch", ver |-> v1]]
      BY <1>8, <2>6 DEF RC!LookedUp, RC!Return, RC!Goto, RC!Memoise, RC!Req, RC!Idle
    <3>2. [by |-> c, out |-> None] \in RC!Promises
      BY DEF RC!Promises, RC!Value
    <3>3. RC!TypeOK'
      BY <1>2, <2>1, <3>1, <3>2 DEF RC!TypeOK, RC!Calls
    <3>4. RC!FetchIsMemoised'
      BY <1>2, <2>1, <2>6, <3>1, <3>2 DEF RC!FetchIsMemoised, RC!Fetching, RC!Req, RC!TypeOK
    <3>5. RC!AloneIsAlone'
      BY <1>2, <2>1, <3>1 DEF RC!AloneIsAlone, RC!Busy, RC!TypeOK
    <3>6. RC!NothingOldIsHeld'
      <4>1. ASSUME NEW d \in CacheCallers PROVE CallHolds(d)'
        <5>1. CASE d = c
          <6>1. v6'[c].pc = "fetch" /\ v6'[c].ver = v1
            BY <1>2, <3>1 DEF RC!TypeOK
          <6>2. v1 >= v9["data"]
            BY <1>2 DEF RC!NothingOldIsHeld, RC!TypeOK, RC!Places
          <6> QED BY <2>1, <5>1, <6>1, <6>2 DEF CallHolds
        <5>2. CASE d # c
          <6>1. v6'[d] = v6[d]
            BY <1>2, <3>1, <5>2 DEF RC!TypeOK
          <6>2. v6[d].pc = "purge" => ~v7'[d]
            BY <2>1, <2>3
          <6> QED BY <1>2, <2>1, <6>1, <6>2, CallsHold, CallGoesOn
        <5> QED BY <5>1, <5>2
      <4> QED BY <1>2, <2>1, <3>1, <4>1, PlacesHold
    <3> QED BY <3>3, <3>4, <3>5, <3>6 DEF RC!Inv
  <2> QED BY <2>4, <2>5, <2>6
<1>9. ASSUME NEW c \in CacheCallers, RC!Answered(c) PROVE RC!Inv'
  <2>1. v6[c].pc = "fetch" /\ v6[c].ver \in Nat /\ UNCHANGED <<v1, v2, v4, v8, v9>>
    BY <1>2, <1>9, CallKinds DEF RC!Answered, RC!TypeOK
  <2>2. ASSUME NEW out \in RC!Value, RC!Settle(c, out), v3' = v3 PROVE RC!Inv'
    <3>1. /\ v5' \in [CacheRequests -> RC!Promises \cup {None}] /\ v6' \in [CacheCallers -> RC!Calls]
          /\ v7' = v7 /\ RC!FetchIsMemoised' /\ RC!AloneIsAlone'
          /\ \A d \in CacheCallers : v6'[d].pc # "idle" => d # c /\ v6'[d] = v6[d]
      BY <1>2, <2>1, <2>2, CacheSettles DEF RC!Fetching
    <3>2. RC!TypeOK'
      BY <1>2, <2>1, <2>2, <3>1 DEF RC!TypeOK
    <3>3. ASSUME NEW d \in CacheCallers PROVE CallHolds(d)'
      <4>1. CASE v6'[d].pc = "idle"
        BY <4>1 DEF CallHolds, RC!Fetching
      <4>2. CASE v6'[d] = v6[d]
        BY <1>2, <2>1, <2>2, <3>1, <4>2, CallsHold, CallGoesOn
      <4> QED BY <3>1, <4>1, <4>2
    <3>4. RC!NothingOldIsHeld'
      BY <1>2, <2>1, <2>2, <3>3, PlacesHold
    <3> QED BY <3>1, <3>2, <3>4 DEF RC!Inv
  <2>3. CASE /\ v3' = v6[c].ver /\ v5' = v5 /\ v7' = v7
             /\ v6' = [v6 EXCEPT ![c] = [pc |-> "persist", ver |-> v6[c].ver]]
    <3>1. RC!TypeOK'
      BY <1>2, <2>1, <2>3 DEF RC!TypeOK, RC!Calls, RC!Value
    <3>2. RC!FetchIsMemoised'
      BY <1>2, <2>1, <2>3 DEF RC!FetchIsMemoised, RC!Fetching, RC!Req, RC!TypeOK
    <3>3. RC!AloneIsAlone'
      BY <1>2, <2>1, <2>3 DEF RC!AloneIsAlone, RC!Busy, RC!TypeOK
    <3>4. \A d \in CacheCallers : v7[d] /\ v6[d].pc = "purge" => FALSE
      BY <1>2, <2>1 DEF RC!AloneIsAlone, RC!Busy
    <3>5. RC!NothingOldIsHeld'
      BY <1>2, <2>1, <2>3, <3>4 DEF RC!NothingOldIsHeld, RC!Fetching, RC!TypeOK, RC!Dropped, RC!Remaining
    <3> QED BY <3>1, <3>2, <3>3, <3>5 DEF RC!Inv
  <2>4. None \in RC!Value /\ v6[c].ver \in RC!Value
    BY <2>1 DEF RC!Value
  <2> QED BY <1>9, <2>2, <2>3, <2>4 DEF RC!Answered, RC!Goto
<1>10. ASSUME NEW c \in CacheCallers, RC!Persisted(c) PROVE RC!Inv'
  <2>1. /\ v6[c].pc = "persist" /\ v6[c].ver \in Nat /\ UNCHANGED <<v1, v2, v3, v8, v9>>
        /\ v4' \in {v6[c].ver, v4} /\ (RC!Settle(c, v6[c].ver) \/ RC!Settle(c, None))
    BY <1>2, <1>10, CallKinds DEF RC!Persisted, RC!TypeOK
  <2>2. /\ v5' \in [CacheRequests -> RC!Promises \cup {None}] /\ v6' \in [CacheCallers -> RC!Calls]
        /\ v7' = v7 /\ RC!FetchIsMemoised' /\ RC!AloneIsAlone'
        /\ \A d \in CacheCallers : v6'[d].pc # "idle" => d # c /\ v6'[d] = v6[d]
    BY <1>2, <2>1, CacheSettles DEF RC!Fetching, RC!Value
  <2>3. RC!TypeOK'
    BY <1>2, <2>1, <2>2 DEF RC!TypeOK, RC!Value
  <2>4. RC!NothingOldIsHeld'
    <3>1. ASSUME NEW d \in CacheCallers PROVE CallHolds(d)'
      <4>1. CASE v6'[d].pc = "idle"
        BY <4>1 DEF CallHolds, RC!Fetching
      <4>2. CASE v6'[d] = v6[d]
        BY <1>2, <2>1, <2>2, <4>2, CallsHold, CallGoesOn
      <4> QED BY <2>2, <4>1, <4>2
    <3>2. v6[c].ver >= v9["data"]
      BY <1>2, <2>1, CallsHold DEF CallHolds, RC!Fetching
    <3> QED BY <1>2, <2>1, <3>1, <3>2, PlacesHold
  <2> QED BY <2>2, <2>3, <2>4 DEF RC!Inv
<1>11. ASSUME NEW c \in CacheCallers, NEW s \in RC!Stages, NEW inside \in BOOLEAN, RC!Mutate(c, s, inside)
        PROVE  RC!Inv'
  <2> USE RequestAssumption, NoneAssumption
  <2>1. /\ v6[c].pc = "idle" /\ v1' = v1 + 1 /\ v3' = None /\ UNCHANGED <<v4, v9>>
        /\ v2' = (IF Head(s) \in FnLinks THEN None ELSE v2)
        /\ v5' = (IF inside THEN [v5 EXCEPT ![CacheRequestOf[c]] = None] ELSE v5)
        /\ v6' = [v6 EXCEPT ![c] = [pc |-> "purge", ver |-> v1 + 1, todo |-> s, did |-> s,
                                   inside |-> inside]]
        /\ v7' = [d \in CacheCallers |-> IF d = c THEN RC!Busy = {} ELSE FALSE]
        /\ v8' = IF inside /\ \E d \in CacheCallers : CacheRequestOf[d] = CacheRequestOf[c] /\ RC!Fetching(d)
                 THEN v8 \cup {CacheRequestOf[c]} ELSE v8
    BY <1>11 DEF RC!Mutate, RC!Begin, RC!DropMaps, RC!Req
  <2>2. s \in Seq({"key", "route", "tag"}) /\ s # <<>> /\ Len(s) \in Nat
    <3>1. CASE s = <<"tag">>
      BY <3>1
    <3>2. CASE s = <<"route">>
      BY <3>2
    <3>3. CASE s = <<"key", "route", "tag">>
      BY <3>3
    <3> QED BY <3>1, <3>2, <3>3 DEF RC!Stages
  <2>3. RC!TypeOK'
    <3>1. [pc |-> "purge", ver |-> v1 + 1, todo |-> s, did |-> s, inside |-> inside] \in RC!Calls
      BY <1>2, <2>2 DEF RC!Calls, RC!TypeOK
    <3>2. v8' \subseteq CacheRequests /\ v7' \in [CacheCallers -> BOOLEAN]
      BY <1>2, <2>1 DEF RC!TypeOK
    <3>3. v1' \in Nat /\ v2' \in RC!Value /\ v3' \in RC!Value
      BY <1>2, <2>1 DEF RC!TypeOK, RC!Value
    <3>4. v5' \in [CacheRequests -> RC!Promises \cup {None}] /\ v6' \in [CacheCallers -> RC!Calls]
      BY <1>2, <2>1, <3>1 DEF RC!TypeOK
    <3> QED BY <1>2, <2>1, <3>2, <3>3, <3>4 DEF RC!TypeOK
  <2>4. RC!FetchIsMemoised'
    BY <1>2, <2>1 DEF RC!FetchIsMemoised, RC!Fetching, RC!Req, RC!TypeOK
  <2>5. RC!AloneIsAlone'
    BY <1>2, <2>1 DEF RC!AloneIsAlone, RC!Busy, RC!TypeOK
  <2>6. RC!Dropped(c)'
    BY <1>2, <2>1, <2>2 DEF RC!Dropped, RC!TypeOK
  <2>7. RC!NothingOldIsHeld'
    <3>1. v6'[c].ver = v1' /\ v6'[c].pc = "purge" /\ RC!Remaining(c)'
      BY <1>2, <2>1, <2>2 DEF RC!Remaining, RC!TypeOK
    <3>2. \A d \in CacheCallers : d # c => v6'[d] = v6[d] /\ v7'[d] = FALSE
      BY <2>1
    <3>3. \A p \in RC!Places : v9'[p] <= v1'
      BY <1>2, <2>1 DEF RC!NothingOldIsHeld, RC!TypeOK
    <3>4. /\ v9'["store"] = v9'["data"] /\ (v2' # None => v2' >= v9'["fn"])
          /\ (v3' # None => v3' >= v9'["data"]) /\ (v4' # None => v4' >= v9'["data"])
      BY <1>2, <2>1 DEF RC!NothingOldIsHeld
    <3>5. \A d \in CacheCallers :
            /\ v6'[d].pc = "handler" => v6'[d].ver >= v9'["fn"]
            /\ v6'[d].pc = "lookup" /\ v6'[d].ver # None => v6'[d].ver >= v9'["data"]
            /\ RC!Fetching(d)' => v6'[d].ver >= v9'["data"]
      BY <1>2, <2>1, <3>1, <3>2 DEF RC!NothingOldIsHeld, RC!Fetching
    <3>6. \A d \in CacheCallers : v6'[d].pc = "purge" =>
            v6'[d].ver <= v1' /\ RC!Remaining(d)' /\ (v7'[d] => RC!Dropped(d)')
      BY <1>2, <2>1, <2>6, <3>1, <3>2, CallKinds DEF RC!NothingOldIsHeld, RC!Remaining, RC!TypeOK
    <3> QED BY <3>3, <3>4, <3>5, <3>6 DEF RC!NothingOldIsHeld
  <2> QED BY <2>3, <2>4, <2>5, <2>7 DEF RC!Inv
<1>12. ASSUME NEW c \in CacheCallers, RC!Purged(c) PROVE RC!Inv'
  <2> USE RequestAssumption, NoneAssumption
  <2>1. /\ v6[c].pc = "purge" /\ UNCHANGED <<v1, v5, v7, v8>>
        /\ v4' = (IF v6[c].inside THEN None ELSE v4)
        /\ v6[c] \in RC!Calls
    BY <1>2, <1>12 DEF RC!Purged, RC!Return, RC!Goto, RC!TypeOK
  <2>2. PICK ver \in Nat, todo \in Seq({"key", "route", "tag"}), did \in Seq({"key", "route", "tag"}),
             inside \in BOOLEAN :
          /\ v6[c] = [pc |-> "purge", ver |-> ver, todo |-> todo, did |-> did, inside |-> inside]
          /\ todo # <<>>
    BY <2>1, CallKinds
  <2> DEFINE rest == Tail(todo)
             reached(p) == IF p = "fn" THEN \E i \in DOMAIN did : did[i] \in FnLinks ELSE inside
  <2>3. /\ rest \in Seq({"key", "route", "tag"}) /\ Len(rest) = Len(todo) - 1 /\ Len(todo) \in Nat
        /\ rest = <<>> <=> Len(todo) = 1
        /\ rest # <<>> => Head(rest) = todo[2]
        /\ \A i \in 1 .. Len(rest) : rest[i] = todo[i + 1]
    BY <2>2, TailFacts
  <2>4. /\ ver <= v1 /\ Len(todo) <= Len(did)
        /\ \A i \in 1 .. Len(todo) : todo[i] = did[Len(did) - Len(todo) + i]
    <3>1. v6[c].ver <= v1 /\ RC!Remaining(c)
      BY <1>2, <2>1 DEF RC!NothingOldIsHeld
    <3>2. v6[c].ver = ver /\ v6[c].todo = todo /\ v6[c].did = did
      BY <2>2
    <3> QED BY <3>1, <3>2 DEF RC!Remaining
  <2>5. v7[c] => /\ v3 = None
                 /\ \A i \in 1 .. Len(did) : i <= Len(did) - Len(todo) + 1 /\ did[i] \in FnLinks => v2 = None
    <3>1. v7[c] => RC!Dropped(c)
      BY <1>2, <2>1 DEF RC!NothingOldIsHeld
    <3>2. v6[c].todo = todo /\ v6[c].did = did
      BY <2>2
    <3> QED BY <3>1, <3>2 DEF RC!Dropped
  <2>6. v7[c] => \A d \in CacheCallers \ {c} : v6[d].pc = "idle"
    BY <1>2, <2>1 DEF RC!AloneIsAlone, RC!Busy
  <2>7. CASE rest = <<>>
    <3>1. /\ v6' = [v6 EXCEPT ![c] = [pc |-> "idle"]] /\ UNCHANGED <<v2, v3>>
          /\ v9' = [p \in RC!Places |-> IF v7[c] /\ reached(p) THEN ver ELSE v9[p]]
      BY <1>12, <2>2, <2>7 DEF RC!Purged, RC!Return, RC!Goto, RC!Idle
    <3>2. RC!TypeOK'
      BY <1>2, <2>1, <3>1 DEF RC!TypeOK, RC!Calls, RC!Value
    <3>3. RC!FetchIsMemoised'
      BY <1>2, <2>1, <3>1 DEF RC!FetchIsMemoised, RC!Fetching, RC!Req, RC!TypeOK
    <3>4. RC!AloneIsAlone'
      BY <1>2, <2>1, <3>1 DEF RC!AloneIsAlone, RC!Busy, RC!TypeOK
    <3>5. RC!NothingOldIsHeld'
      <4>1. v7[c] => v3 = None /\ (reached("fn") => v2 = None)
        <5>1. Len(todo) = 1 /\ DOMAIN did = 1 .. Len(did) /\ Len(did) \in Nat
          BY <2>2, <2>3, <2>7
        <5>2. \A i \in 1 .. Len(did) : i <= Len(did) - Len(todo) + 1
          BY <5>1
        <5> QED BY <2>5, <5>1, <5>2
      <4>2. CASE v7[c]
        <5>1. \A d \in CacheCallers : v6'[d].pc = "idle"
          BY <1>2, <2>6, <3>1, <4>2 DEF RC!TypeOK
        <5>2. inside => v4' = None
          BY <2>1, <2>2
        <5>3. v4' = v4 \/ v4' = None
          BY <2>1
        <5> QED BY <1>2, <2>1, <2>4, <3>1, <4>1, <4>2, <5>1, <5>2, <5>3
                DEF RC!NothingOldIsHeld, RC!Fetching, RC!TypeOK, RC!Places
      <4>3. CASE ~v7[c]
        <5>1. \A p \in RC!Places : v9'[p] = v9[p]
          BY <3>1, <4>3
        <5>2. \A d \in CacheCallers : v6'[d].pc # "idle" => v6'[d] = v6[d]
          BY <1>2, <3>1 DEF RC!TypeOK
        <5>3. \A p \in RC!Places : v9'[p] <= v1'
          BY <1>2, <2>1, <5>1 DEF RC!NothingOldIsHeld
        <5>4. \A d \in CacheCallers : v6'[d].pc = "purge" =>
                v6'[d].ver <= v1' /\ RC!Remaining(d)' /\ (v7'[d] => RC!Dropped(d)')
          <6>1. \A d \in CacheCallers : v6'[d] = v6[d] =>
                  (RC!Remaining(d)' <=> RC!Remaining(d)) /\ (RC!Dropped(d)' <=> RC!Dropped(d))
            BY <3>1 DEF RC!Remaining, RC!Dropped
          <6> QED BY <1>2, <2>1, <5>2, <6>1 DEF RC!NothingOldIsHeld
        <5> QED BY <1>2, <2>1, <3>1, <5>1, <5>2, <5>3, <5>4 DEF RC!NothingOldIsHeld, RC!Fetching, RC!Places
      <4> QED BY <4>2, <4>3
    <3> QED BY <3>2, <3>3, <3>4, <3>5 DEF RC!Inv
  <2>8. CASE rest # <<>>
    <3>1. /\ v6' = [v6 EXCEPT ![c] = [pc |-> "purge", ver |-> ver, todo |-> rest, did |-> did,
                                     inside |-> inside]]
          /\ v2' = (IF Head(rest) \in FnLinks THEN None ELSE v2) /\ v3' = None /\ v9' = v9
      BY <1>12, <2>2, <2>8 DEF RC!Purged, RC!Goto, RC!DropMaps
    <3>2. [pc |-> "purge", ver |-> ver, todo |-> rest, did |-> did, inside |-> inside] \in RC!Calls
      BY <2>3, <2>8 DEF RC!Calls
    <3>3. RC!TypeOK'
      BY <1>2, <2>1, <3>1, <3>2 DEF RC!TypeOK, RC!Value
    <3>4. RC!FetchIsMemoised'
      BY <1>2, <2>1, <3>1 DEF RC!FetchIsMemoised, RC!Fetching, RC!Req, RC!TypeOK
    <3>5. RC!AloneIsAlone'
      BY <1>2, <2>1, <3>1 DEF RC!AloneIsAlone, RC!Busy, RC!TypeOK
    <3>6. v6'[c] = [pc |-> "purge", ver |-> ver, todo |-> rest, did |-> did, inside |-> inside]
      BY <1>2, <3>1 DEF RC!TypeOK
    <3>7. Len(did) \in Nat /\ Len(rest) \in Nat
      BY <2>2, <2>3
    <3>8. Len(rest) <= Len(did) /\ \A i \in 1 .. Len(rest) : rest[i] = did[Len(did) - Len(rest) + i]
      <4>1. ASSUME NEW i \in 1 .. Len(rest) PROVE rest[i] = did[Len(did) - Len(rest) + i]
        <5>1. i + 1 \in 1 .. Len(todo) /\ Len(did) - Len(todo) + (i + 1) = Len(did) - Len(rest) + i
          BY <2>3, <3>7
        <5>2. todo[i + 1] = did[Len(did) - Len(todo) + (i + 1)]
          BY <2>4, <5>1
        <5> QED BY <2>3, <5>1, <5>2
      <4> QED BY <2>3, <2>4, <3>7, <4>1
    <3>9. did[Len(did) - Len(rest) + 1] = Head(rest)
      <4>1. 1 \in 1 .. Len(rest) /\ Head(rest) = rest[1]
        BY <2>3, <2>8, <3>7
      <4> QED BY <3>8, <4>1
    <3>10. ASSUME v7[c], NEW i \in 1 .. Len(did), i <= Len(did) - Len(rest) + 1, did[i] \in FnLinks
           PROVE  v2' = None
      <4>1. CASE i = Len(did) - Len(rest) + 1
        BY <3>1, <3>9, <3>10, <4>1
      <4>2. CASE i <= Len(did) - Len(todo) + 1
        BY <2>5, <3>1, <3>10, <4>2
      <4>3. i \in Nat
        OBVIOUS
      <4> QED BY <2>3, <3>7, <3>10, <4>1, <4>2, <4>3
    <3>11. RC!Remaining(c)' /\ (v7'[c] => RC!Dropped(c)')
      <4>1. v6'[c].todo = rest /\ v6'[c].did = did
        BY <3>6
      <4>2. RC!Remaining(c)'
        BY <3>8, <4>1 DEF RC!Remaining
      <4>3. v7[c] => RC!Dropped(c)'
        BY <3>1, <3>10, <4>1 DEF RC!Dropped
      <4> QED BY <2>1, <4>2, <4>3
    <3>12. \A d \in CacheCallers \ {c} : v6'[d] = v6[d]
      BY <3>1
    <3>13. \A d \in CacheCallers : v6'[d].pc = "purge" =>
             v6'[d].ver <= v1' /\ RC!Remaining(d)' /\ (v7'[d] => RC!Dropped(d)')
      <4>1. ASSUME NEW d \in CacheCallers \ {c}, v6'[d].pc = "purge"
            PROVE  v6'[d].ver <= v1' /\ RC!Remaining(d)' /\ ~v7'[d]
        <5>1. v6'[d] = v6[d] /\ v6[d].pc = "purge" /\ v6[d].ver <= v1 /\ RC!Remaining(d)
          BY <1>2, <3>12, <4>1 DEF RC!NothingOldIsHeld
        <5>2. ~v7[d]
          BY <1>2, <2>1, <5>1 DEF RC!AloneIsAlone, RC!Busy
        <5> QED BY <2>1, <5>1, <5>2 DEF RC!Remaining
      <4> QED BY <2>1, <2>4, <3>6, <3>11, <4>1
    <3>14. RC!NothingOldIsHeld'
      <4>1. \A d \in CacheCallers : v6'[d] = v6[d] \/ v6'[d].pc = "purge"
        BY <3>6, <3>12
      <4>2. \A p \in RC!Places : v9'[p] <= v1'
        BY <1>2, <2>1, <3>1 DEF RC!NothingOldIsHeld
      <4> QED BY <1>2, <2>1, <3>1, <3>13, <4>1, <4>2 DEF RC!NothingOldIsHeld, RC!Fetching
    <3> QED BY <3>3, <3>4, <3>5, <3>14 DEF RC!Inv
  <2> QED BY <2>7, <2>8
<1> QED BY <1>1, <1>3, <1>4, <1>5, <1>6, <1>7, <1>8, <1>9, <1>10, <1>11, <1>12 DEF RC!Next, RC!Step

-----------------------------------------------------------------------------
(* The memo of a request.                                                  *)
MemoInv == which = "memo" => RM!Inv

LEMMA MemoSteps ==
  ASSUME [Next]_all, which' = "memo"
  PROVE  which = "memo" /\ [RM!Next]_<<v1, v2, v3, v4, v5, v6, v7>>
BY DEF Next, all, shared

LEMMA MemoInit == Init => MemoInv
<1> SUFFICES ASSUME Init, which = "memo" PROVE RM!Inv
  BY DEF MemoInv
<1>1. RM!Init
  BY DEF Init
<1>2. RM!TypeOK
  BY <1>1 DEF RM!Init, RM!TypeOK, RM!Calls, RM!Idle
<1>3. RM!MemoIsTheFetch
  BY <1>1 DEF RM!Init, RM!MemoIsTheFetch, RM!IsTheFetch, RM!InFlight, RM!Idle
<1> QED BY <1>2, <1>3 DEF RM!Inv

\* A clear forgets, of the urls whose fetch it does not race, those to which it makes its
\* promise.
LEMMA MemoClears ==
  ASSUME RM!TypeOK, RM!MemoIsTheFetch, NEW us \in SUBSET MemoUrls, NEW ps \in SUBSET MemoUrls,
         \A u \in MemoUrls \ v6 : u \in us <=> u \in ps,
         RM!Forget(us), RM!Promise(ps), v1' \in Nat, v1' >= v1, v2' \in SUBSET MemoTags
  PROVE  RM!Inv'
<1>1. v5' = v5 /\ \A u \in MemoUrls : /\ v3'[u] = IF u \in us THEN None ELSE v3[u]
                                      /\ v4'[u] = IF u \in us THEN {} ELSE v4[u]
  BY DEF RM!Forget
<1>2. \A u \in MemoUrls : RM!InFlight(u)' = RM!InFlight(u)
  BY <1>1 DEF RM!InFlight
<1>3. RM!TypeOK'
  <2>1. v3' \in [MemoUrls -> RM!Memos \cup {None}] /\ v4' \in [MemoUrls -> SUBSET MemoTags]
    BY DEF RM!TypeOK, RM!Forget
  <2>2. v6' \subseteq MemoUrls /\ v7' \in [MemoUrls -> Nat]
    BY DEF RM!TypeOK, RM!Promise
  <2> QED BY <1>1, <2>1, <2>2 DEF RM!TypeOK
<1>4. \A u \in MemoUrls : v7'[u] <= v1' /\ (v3'[u] = None => v4'[u] = {})
  BY <1>1 DEF RM!Promise, RM!MemoIsTheFetch, RM!IsTheFetch, RM!TypeOK
<1>5. ASSUME NEW u \in MemoUrls \ v6'
      PROVE  RM!IsTheFetch(u)'
  <2>1. u \notin v6 /\ (u \in ps => RM!InFlight(u) = {})
    BY DEF RM!Promise
  <2>2. CASE u \in us
    BY <1>1, <1>2, <2>1, <2>2 DEF RM!IsTheFetch
  <2>3. CASE u \notin us
    <3>1. v7'[u] = v7[u] /\ v3'[u] = v3[u] /\ v4'[u] = v4[u]
      BY <1>1, <2>1, <2>3 DEF RM!Promise
    <3> QED BY <1>1, <1>2, <2>1, <3>1 DEF RM!MemoIsTheFetch, RM!IsTheFetch
  <2> QED BY <2>2, <2>3
<1>6. RM!MemoIsTheFetch'
  BY <1>4, <1>5 DEF RM!MemoIsTheFetch
<1> QED BY <1>3, <1>6 DEF RM!Inv

LEMMA MemoNext == MemoInv /\ [Next]_all => MemoInv'
<1> SUFFICES ASSUME MemoInv, [Next]_all, which' = "memo" PROVE RM!Inv'
  BY DEF MemoInv
<1>1. RM!Inv /\ [RM!Next]_<<v1, v2, v3, v4, v5, v6, v7>>
  BY MemoSteps DEF MemoInv
<1>2. RM!TypeOK /\ RM!MemoIsTheFetch
  BY <1>1 DEF RM!Inv
<1>3. CASE UNCHANGED <<v1, v2, v3, v4, v5, v6, v7>>
  BY <1>2, <1>3 DEF RM!Inv, RM!TypeOK, RM!MemoIsTheFetch, RM!IsTheFetch, RM!InFlight
<1>4. ASSUME NEW t \in MemoTags, RM!CacheTag(t) PROVE RM!Inv'
  BY <1>2, <1>4 DEF RM!Inv, RM!TypeOK, RM!MemoIsTheFetch, RM!IsTheFetch, RM!InFlight, RM!CacheTag
<1>5. ASSUME NEW c \in MemoCallers, NEW u \in MemoUrls, NEW ts \in SUBSET MemoTags, RM!Fetch(c, u, ts)
      PROVE  RM!Inv'
  <2>1. v5[c].pc = "idle" /\ UNCHANGED <<v1, v2, v6, v7>>
    BY <1>5 DEF RM!Fetch
  <2>2. CASE UNCHANGED <<v3, v4, v5>>
    BY <1>2, <2>1, <2>2 DEF RM!Inv, RM!TypeOK, RM!MemoIsTheFetch, RM!IsTheFetch, RM!InFlight
  <2>3. CASE /\ v3[u] # None /\ v5' = [v5 EXCEPT ![c] = [pc |-> "join", on |-> v3[u].by]]
             /\ UNCHANGED <<v3, v4>>
    <3>1. RM!TypeOK'
      <4>1. v3[u].by \in MemoCallers \cup {None}
        BY <1>2, <2>3 DEF RM!TypeOK, RM!Memos
      <4>2. [pc |-> "join", on |-> v3[u].by] \in RM!Calls
        BY <4>1 DEF RM!Calls
      <4> QED BY <1>2, <2>1, <2>3, <4>2 DEF RM!TypeOK
    <3>2. \A w \in MemoUrls : RM!InFlight(w)' = RM!InFlight(w)
      BY <1>2, <2>1, <2>3 DEF RM!InFlight, RM!TypeOK
    <3>3. \A w \in MemoUrls : \A d \in RM!InFlight(w) : v5'[d] = v5[d]
      BY <1>2, <2>1, <2>3 DEF RM!InFlight, RM!TypeOK
    <3>4. RM!MemoIsTheFetch'
      BY <1>2, <2>1, <2>3, <3>2, <3>3 DEF RM!MemoIsTheFetch, RM!IsTheFetch
    <3> QED BY <3>1, <3>4 DEF RM!Inv
  <2>4. CASE /\ v3[u] = None
             /\ v3' = [v3 EXCEPT ![u] = [st |-> "pending", by |-> c, ver |-> v1, tags |-> ts \cup v2]]
             /\ v4' = [v4 EXCEPT ![u] = IF ts \cup v2 = {} THEN @ ELSE ts \cup v2]
             /\ v5' = [v5 EXCEPT ![c] = [pc |-> "fetch", url |-> u, ver |-> v1, tags |-> ts \cup v2]]
    <3>1. ts \cup v2 \in SUBSET MemoTags /\ v1 \in Nat /\ v4[u] = {}
      BY <1>2, <2>4 DEF RM!TypeOK, RM!MemoIsTheFetch, RM!IsTheFetch
    <3>2. /\ [st |-> "pending", by |-> c, ver |-> v1, tags |-> ts \cup v2] \in RM!Memos
          /\ [pc |-> "fetch", url |-> u, ver |-> v1, tags |-> ts \cup v2] \in RM!Calls
      BY <3>1 DEF RM!Memos, RM!Calls
    <3>3. RM!TypeOK'
      BY <1>2, <2>1, <2>4, <3>1, <3>2 DEF RM!TypeOK
    <3>4. u \notin v6 => RM!InFlight(u) = {}
      BY <1>2, <2>4, NoneAssumption, <3>2 DEF RM!MemoIsTheFetch, RM!IsTheFetch, RM!TypeOK, RM!InFlight, RM!Memos, RM!Calls
    <3>5. \A w \in MemoUrls : RM!InFlight(w)' = IF w = u THEN RM!InFlight(w) \cup {c} ELSE RM!InFlight(w)
      BY <1>2, <2>1, <2>4 DEF RM!InFlight, RM!TypeOK
    <3>6. \A d \in MemoCallers : d # c => v5'[d] = v5[d]
      BY <1>2, <2>4 DEF RM!TypeOK
    <3>7. \A w \in MemoUrls : w # u => v3'[w] = v3[w] /\ v4'[w] = v4[w] /\ c \notin RM!InFlight(w)
      BY <1>2, <2>1, <2>4 DEF RM!TypeOK, RM!InFlight
    <3>8. /\ v3'[u] = [st |-> "pending", by |-> c, ver |-> v1, tags |-> ts \cup v2]
          /\ v4'[u] = ts \cup v2 /\ v5'[c] = [pc |-> "fetch", url |-> u, ver |-> v1, tags |-> ts \cup v2]
          /\ v3'[u] # None
      BY <1>2, <2>4, <3>1, <3>2, NoneAssumption DEF RM!TypeOK
    <3>9. \A w \in MemoUrls : RM!InFlight(w) \subseteq MemoCallers
      BY DEF RM!InFlight
    <3>10. RM!MemoIsTheFetch'
      <4>1. \A w \in MemoUrls : v7'[w] <= v1' /\ (v3'[w] = None => v4'[w] = {})
        BY <1>2, <2>1, <3>7, <3>8 DEF RM!MemoIsTheFetch
      <4>2. u \notin v6' => \A d \in RM!InFlight(u)' : d = c
        BY <2>1, <3>4, <3>5
      <4>3. ASSUME NEW w \in MemoUrls \ v6', w # u
            PROVE  RM!IsTheFetch(w)'
        BY <1>2, <2>1, <3>5, <3>6, <3>7, <3>9, <4>3 DEF RM!MemoIsTheFetch, RM!IsTheFetch
      <4>4. v1 >= v7[u]
        BY <1>2 DEF RM!MemoIsTheFetch, RM!TypeOK
      <4>5. u \notin v6' => RM!IsTheFetch(u)'
        <5>1. v3'[u].tags = v4'[u] /\ v3'[u].ver >= v7'[u]
          BY <2>1, <3>8, <4>4
        <5>2. v5'[c].ver = v1 /\ v5'[c].tags = ts \cup v2
          BY <3>8
        <5> QED BY <2>1, <3>8, <4>2, <5>1, <5>2 DEF RM!IsTheFetch
      <4> QED BY <4>1, <4>3, <4>5 DEF RM!MemoIsTheFetch
    <3> QED BY <3>3, <3>10 DEF RM!Inv
  <2>5. v3[u] = None \/ v3[u].st \in {"pending", "ok", "failed"}
    BY <1>2 DEF RM!TypeOK, RM!Memos
  <2> QED BY <1>5, <2>2, <2>3, <2>4, <2>5 DEF RM!Fetch, RM!MergedTags, RM!Stored
<1>6. ASSUME NEW c \in MemoCallers, NEW ok \in BOOLEAN, RM!Settle(c, ok) PROVE RM!Inv'
  <2>1. PICK u \in MemoUrls :
        /\ v5[c].pc = "fetch" /\ u = v5[c].url /\ v5[c].ver \in Nat /\ v5[c].tags \in SUBSET MemoTags
        /\ UNCHANGED <<v1, v2, v4, v6, v7>>
    BY <1>2, <1>6 DEF RM!Settle, RM!TypeOK, RM!Calls
  <2>2. \A d \in MemoCallers : v5'[d] = IF d = c \/ (v5[d].pc = "join" /\ v5[d].on = c)
                                        THEN [pc |-> "idle"] ELSE v5[d]
    BY <1>6 DEF RM!Settle, RM!Idle
  <2>3. \A w \in MemoUrls : /\ RM!InFlight(w)' = RM!InFlight(w) \ {c}
                            /\ \A d \in RM!InFlight(w)' : v5'[d] = v5[d]
    BY <2>1, <2>2 DEF RM!InFlight
  <2>4. c \in RM!InFlight(u)
    BY <2>1 DEF RM!InFlight
  <2>5. \A w \in MemoUrls : w # u => v3'[w] = v3[w]
    BY <1>2, <1>6, <2>1 DEF RM!Settle, RM!TypeOK
  <2>6. /\ v3'[u] \in RM!Memos \cup {None}
        /\ v3[u] # None => v3'[u] # None
    BY <1>2, <1>6, <2>1, NoneAssumption DEF RM!Settle, RM!TypeOK, RM!Memos
  <2>7. u \notin v6 /\ v3'[u] # None => v3'[u].tags = v5[c].tags /\ v3'[u].ver = v5[c].ver
    BY <1>2, <1>6, <2>1, <2>4 DEF RM!Settle, RM!TypeOK, RM!MemoIsTheFetch, RM!IsTheFetch
  <2>8. RM!TypeOK'
    <3>1. v5' \in [MemoCallers -> RM!Calls]
      BY <1>2, <1>6 DEF RM!Settle, RM!TypeOK, RM!Calls, RM!Idle
    <3>2. v3' \in [MemoUrls -> RM!Memos \cup {None}]
      BY <1>2, <1>6, <2>5, <2>6 DEF RM!Settle, RM!TypeOK
    <3> QED BY <1>2, <2>1, <3>1, <3>2 DEF RM!TypeOK
  <2>9. RM!MemoIsTheFetch'
    <3>1. \A w \in MemoUrls : v7'[w] <= v1' /\ (v3'[w] = None => v4'[w] = {})
      BY <1>2, <2>1, <2>5, <2>6 DEF RM!MemoIsTheFetch
    <3>2. ASSUME u \notin v6'
          PROVE  RM!IsTheFetch(u)'
      <4>1. /\ v3[u] = [st |-> "pending", by |-> c, ver |-> v5[c].ver, tags |-> v5[c].tags]
            /\ \A d \in RM!InFlight(u) :
                 v3[u] = [st |-> "pending", by |-> d, ver |-> v5[d].ver, tags |-> v5[d].tags]
        BY <1>2, <2>1, <2>4, <3>2 DEF RM!MemoIsTheFetch, RM!IsTheFetch
      <4>2. [st |-> "pending", by |-> c, ver |-> v5[c].ver, tags |-> v5[c].tags] \in RM!Memos
        BY <2>1 DEF RM!Memos
      <4>3. v5[c].tags = v4[u] /\ v5[c].ver >= v7[u]
        BY <1>2, <2>1, <3>2, <4>1, <4>2, NoneAssumption DEF RM!MemoIsTheFetch, RM!IsTheFetch
      <4>4. RM!InFlight(u)' = {}
        <5>1. \A d \in RM!InFlight(u) : d = c
          <6> SUFFICES ASSUME NEW d \in RM!InFlight(u) PROVE d = c
            OBVIOUS
          <6>1. v3[u] = [st |-> "pending", by |-> d, ver |-> v5[d].ver, tags |-> v5[d].tags]
            BY <4>1
          <6>2. v3[u].by = c
            BY <4>1
          <6> QED BY <6>1, <6>2
        <5> QED BY <2>1, <2>3, <5>1
      <4>5. v3'[u] # None => v3'[u].tags = v4'[u] /\ v3'[u].ver >= v7'[u]
        BY <2>1, <2>7, <3>2, <4>3
      <4> QED BY <4>4, <4>5 DEF RM!IsTheFetch
    <3>3. ASSUME NEW w \in MemoUrls \ v6', w # u
          PROVE  RM!IsTheFetch(w)'
      BY <1>2, <2>1, <2>3, <2>5, <3>3 DEF RM!MemoIsTheFetch, RM!IsTheFetch
    <3> QED BY <3>1, <3>2, <3>3 DEF RM!MemoIsTheFetch
  <2> QED BY <2>8, <2>9 DEF RM!Inv
<1>7. ASSUME NEW ts \in SUBSET MemoTags, RM!ClearByTags(ts), v1' \in Nat, v1' >= v1, v2' \in SUBSET MemoTags
      PROVE  RM!Inv'
  <2>1. \A u \in MemoUrls \ v6 : v4[u] \cap ts # {} <=> u \in RM!TaggedWith(ts)
    BY <1>2 DEF RM!MemoIsTheFetch, RM!IsTheFetch, RM!TaggedWith
  <2> DEFINE us == {u \in MemoUrls : v4[u] \cap ts # {}}
             ps == RM!TaggedWith(ts)
  <2>2. us \in SUBSET MemoUrls /\ ps \in SUBSET MemoUrls /\ RM!Forget(us) /\ RM!Promise(ps)
    BY <1>7 DEF RM!ClearByTags, RM!TaggedWith
  <2>3. \A u \in MemoUrls \ v6 : u \in us <=> u \in ps
    BY <2>1
  <2> HIDE DEF us, ps
  <2> QED BY <1>2, <1>7, <2>2, <2>3, MemoClears
<1>8. ASSUME NEW ts \in SUBSET MemoTags, RM!RevalidateTag(ts) PROVE RM!Inv'
  BY <1>2, <1>7, <1>8 DEF RM!RevalidateTag, RM!TypeOK
<1>9. ASSUME NEW s \in MemoTags, NEW t \in MemoTags, RM!UpdateTag(s, t) PROVE RM!Inv'
  BY <1>2, <1>7, <1>9 DEF RM!UpdateTag, RM!TypeOK
<1>10. CASE RM!RevalidatePath
  BY <1>2, <1>10, MemoClears DEF RM!RevalidatePath, RM!TypeOK
<1> QED BY <1>1, <1>3, <1>4, <1>5, <1>6, <1>8, <1>9, <1>10 DEF RM!Next

-----------------------------------------------------------------------------
(* Server actions.                                                         *)
ActionInv == which = "actions" => SA!Inv

LEMMA ActionSteps ==
  ASSUME [Next]_all, which' = "actions"
  PROVE  which = "actions" /\ [SA!Next]_<<v1, v2, v3, v4, v5, v6, v7, v8>>
BY DEF Next, all, shared

\* Targets are resolved to targets.
LEMMA ResolvedTargets ==
  /\ \A ts \in SUBSET Targets : SA!Resolve(ts) \in SUBSET Targets
  /\ \A a \in Actions : SA!LinkedTo(a) \in SUBSET Targets
BY ActionAssumption DEF SA!Resolve, SA!LinkedTo

\* The bodies that run are finitely many.
LEMMA BodiesAreFinite == IsFiniteSet(SA!Bodies) /\ Cardinality(SA!Bodies) \in Nat /\ (Cardinality(SA!Bodies) = 0 <=> SA!Bodies = {})
<1>1. IsFiniteSet(SA!Bodies)
  BY ActionAssumption, FS_Subset DEF SA!Bodies
<1> QED BY <1>1, FS_CardinalityType, FS_EmptySet

LEMMA ActionInit == Init => ActionInv
<1> SUFFICES ASSUME Init, which = "actions" PROVE SA!Inv
  BY DEF ActionInv
<1>1. SA!Init
  BY DEF Init
<1>2. SA!TypeOK
  BY <1>1 DEF SA!Init, SA!TypeOK, SA!Nothing
<1>3. SA!OneTrackerPerBody
  <2>1. SA!Bodies = {} /\ Len(v2) = 0
    BY <1>1 DEF SA!Init, SA!Bodies
  <2> QED BY <2>1, FS_EmptySet, OneCardinality DEF SA!OneTrackerPerBody
<1>4. SA!TrackerIsItsOwn
  BY <1>1 DEF SA!Init, SA!TrackerIsItsOwn, SA!Running, SA!Resolved, SA!Nothing, SA!Caches
<1>5. SA!OwedIsLinked
  BY <1>1 DEF SA!Init, SA!OwedIsLinked, SA!Resolved, SA!Nothing, SA!Caches
<1> QED BY <1>2, <1>3, <1>4, <1>5 DEF SA!Inv

\* A tracker is pushed when a body starts, and one is popped when it ends.
LEMMA TrackersFollowBodies ==
  ASSUME SA!TypeOK, SA!OneTrackerPerBody, NEW a \in Actions
  PROVE  /\ \A x : v1[a] # "body" /\ x # "body" /\ v1' = [v1 EXCEPT ![a] = x] /\ v2' = v2 => SA!OneTrackerPerBody'
         /\ v1[a] # "body" /\ v1' = [v1 EXCEPT ![a] = "body"] /\ v2' = Append(v2, a) => SA!OneTrackerPerBody'
         /\ \A x : v1[a] = "body" /\ x # "body" /\ v1' = [v1 EXCEPT ![a] = x] /\ SA!Pop => SA!OneTrackerPerBody'
         /\ v1[a] = "body" => Len(v2) >= 1
<1> USE DEF SA!OneTrackerPerBody, SA!TypeOK
<1>1. Len(v2) = Cardinality(SA!Bodies) /\ Len(v2) \in Nat
  BY OneCardinality
<1>2. \A x : v1[a] # "body" /\ x # "body" /\ v1' = [v1 EXCEPT ![a] = x] /\ v2' = v2 => SA!OneTrackerPerBody'
  <2> SUFFICES ASSUME NEW x, v1[a] # "body", x # "body", v1' = [v1 EXCEPT ![a] = x], v2' = v2
               PROVE  SA!OneTrackerPerBody'
    OBVIOUS
  <2>1. SA!Bodies' = SA!Bodies
    BY DEF SA!Bodies
  <2> QED BY <1>1, <2>1
<1>3. v1[a] # "body" /\ v1' = [v1 EXCEPT ![a] = "body"] /\ v2' = Append(v2, a) => SA!OneTrackerPerBody'
  <2> SUFFICES ASSUME v1[a] # "body", v1' = [v1 EXCEPT ![a] = "body"], v2' = Append(v2, a)
               PROVE  SA!OneTrackerPerBody'
    OBVIOUS
  <2>1. SA!Bodies' = SA!Bodies \cup {a} /\ a \notin SA!Bodies
    BY DEF SA!Bodies
  <2>2. Len(v2') = Len(v2) + 1
    OBVIOUS
  <2>3. Cardinality(SA!Bodies') = Cardinality(SA!Bodies) + 1
    BY <2>1, BodiesAreFinite, FS_AddElement
  <2> QED BY <1>1, <2>2, <2>3, OneCardinality
<1>4. v1[a] = "body" => Len(v2) >= 1
  BY <1>1, BodiesAreFinite DEF SA!Bodies
<1>5. \A x : v1[a] = "body" /\ x # "body" /\ v1' = [v1 EXCEPT ![a] = x] /\ SA!Pop => SA!OneTrackerPerBody'
  <2> SUFFICES ASSUME NEW x, v1[a] = "body", x # "body", v1' = [v1 EXCEPT ![a] = x], SA!Pop
               PROVE  SA!OneTrackerPerBody'
    OBVIOUS
  <2>1. SA!Bodies' = SA!Bodies \ {a} /\ a \in SA!Bodies
    BY DEF SA!Bodies
  <2>2. Len(v2') = Len(v2) - 1
    BY <1>1, <1>4 DEF SA!Pop
  <2> QED BY <1>1, <2>1, <2>2, BodiesAreFinite, OneCardinality, FS_RemoveElement
<1> QED BY <1>2, <1>3, <1>4, <1>5

\* What is owed stays linked to its action while nothing new is owed or tracked.
LEMMA OwedStaysLinked ==
  ASSUME SA!TypeOK, SA!OwedIsLinked, v3' = v3, v4' = v4, v8' \subseteq v8,
         \A a \in Actions, c \in SA!Caches : v7'[a][c] \subseteq v7[a][c],
         \A a \in Actions : v1'[a] = "new" => v1[a] = "new",
         \A a \in v8', c \in SA!Caches :
           v1'[a] \in {"reply", "done"} /\ c # "store" => v1[a] \in {"reply", "done"} \/ v7'[a][c] = {}
  PROVE  SA!OwedIsLinked'
<1>1. ASSUME NEW a \in Actions, NEW c \in SA!Caches
      PROVE  SA!Resolved(a)' \subseteq v4'[a][c] /\ (v1'[a] = "new" => v7'[a][c] = {})
  BY <1>1 DEF SA!OwedIsLinked, SA!Resolved
<1>2. ASSUME NEW a \in v8', NEW c \in SA!Caches
      PROVE  /\ v7'[a][c] \subseteq SA!LinkedTo(a) \ v3'[a]
             /\ v1'[a] \in {"reply", "done"} /\ c # "store" => v7'[a][c] = {}
  <2>1. a \in v8 /\ a \in Actions
    BY <1>2 DEF SA!TypeOK
  <2>2. v7[a][c] \subseteq SA!LinkedTo(a) \ v3[a] /\ v7'[a][c] \subseteq v7[a][c]
    BY <1>2, <2>1 DEF SA!OwedIsLinked
  <2>3. v1[a] \in {"reply", "done"} /\ c # "store" => v7[a][c] = {}
    BY <1>2, <2>1 DEF SA!OwedIsLinked
  <2> QED BY <1>2, <2>1, <2>2, <2>3
<1> QED BY <1>1, <1>2 DEF SA!OwedIsLinked

\* What is known of an action that overlapped no other.
LEMMA OwnTracker ==
  ASSUME SA!TypeOK, SA!TrackerIsItsOwn, NEW a \in v8
  PROVE  /\ a \in Actions /\ (v1[a] = "body" => v2 = <<a>>)
         /\ v1[a] # "refused" => v6[a] = v3[a] \cup SA!Resolved(a)
         /\ v1[a] # "body" => \A i \in DOMAIN v2 : v2[i] # a
         /\ v1[a] \in {"linked", "reply", "done"} => v5[a] = v6[a] \cup SA!LinkedTo(a)
         /\ a \in SA!Running => SA!Running = {a}
<1>1. a \in Actions
  BY DEF SA!TypeOK
<1>2. v1[a] = "body" => v2 = <<a>>
  BY DEF SA!TrackerIsItsOwn
<1>3. v1[a] # "refused" => v6[a] = v3[a] \cup SA!Resolved(a)
  BY DEF SA!TrackerIsItsOwn
<1>4. v1[a] # "body" => \A i \in DOMAIN v2 : v2[i] # a
  BY DEF SA!TrackerIsItsOwn
<1>5. v1[a] \in {"linked", "reply", "done"} => v5[a] = v6[a] \cup SA!LinkedTo(a)
  BY DEF SA!TrackerIsItsOwn
<1>6. a \in SA!Running => SA!Running = {a}
  BY DEF SA!TrackerIsItsOwn
<1> QED BY <1>1, <1>2, <1>3, <1>4, <1>5, <1>6

\* Nobody else's body runs then.
LEMMA OthersAreNotInTheirBody ==
  ASSUME SA!TypeOK, SA!TrackerIsItsOwn, NEW a \in Actions, v1[a] = "body"
  PROVE  \A b \in v8 : b # a => v1[b] # "body"
<1> SUFFICES ASSUME NEW b \in v8, b # a, v1[b] = "body" PROVE FALSE
  OBVIOUS
<1>1. b \in Actions /\ (b \in SA!Running => SA!Running = {b})
  BY OwnTracker
<1>2. a \in SA!Running /\ b \in SA!Running
  BY <1>1 DEF SA!Running
<1> QED BY <1>1, <1>2

\* Popping a stack of actions leaves one.
LEMMA Popped ==
  ASSUME v2 \in Seq(Actions), Len(v2) >= 1, SA!Pop
  PROVE  /\ v2' \in Seq(Actions) /\ \A i \in DOMAIN v2' : i \in DOMAIN v2 /\ v2'[i] = v2[i]
         /\ \A b : v2 = <<b>> => v2' = <<>>
BY DEF SA!Pop

LEMMA ActionNext == ActionInv /\ [Next]_all => ActionInv'
<1> SUFFICES ASSUME ActionInv, [Next]_all, which' = "actions" PROVE SA!Inv'
  BY DEF ActionInv
<1>1. SA!Inv /\ [SA!Next]_<<v1, v2, v3, v4, v5, v6, v7, v8>>
  BY ActionSteps DEF ActionInv
<1>2. SA!TypeOK /\ SA!OneTrackerPerBody /\ SA!TrackerIsItsOwn /\ SA!OwedIsLinked
  BY <1>1 DEF SA!Inv
<1>3. CASE UNCHANGED <<v1, v2, v3, v4, v5, v6, v7, v8>>
  <2>1. SA!TypeOK' /\ SA!OneTrackerPerBody'
    BY <1>2, <1>3 DEF SA!TypeOK, SA!OneTrackerPerBody, SA!Bodies
  <2>2. SA!TrackerIsItsOwn'
    BY <1>2, <1>3 DEF SA!TrackerIsItsOwn, SA!Resolved, SA!Running
  <2>3. SA!OwedIsLinked'
    BY <1>2, <1>3, OwedStaysLinked
  <2> QED BY <2>1, <2>2, <2>3 DEF SA!Inv
<1>4. ASSUME NEW a \in Actions, SA!Refuse(a) PROVE SA!Inv'
  <2>1. SA!TypeOK' /\ SA!OneTrackerPerBody'
    BY <1>2, <1>4, TrackersFollowBodies DEF SA!Refuse, SA!TypeOK
  <2>2. SA!TrackerIsItsOwn'
    BY <1>2, <1>4 DEF SA!Refuse, SA!TypeOK, SA!TrackerIsItsOwn, SA!Resolved, SA!Running
  <2>3. SA!OwedIsLinked'
    BY <1>2, <1>4, OwedStaysLinked DEF SA!Refuse, SA!TypeOK
  <2> QED BY <2>1, <2>2, <2>3 DEF SA!Inv
<1>5. ASSUME NEW a \in Actions, SA!Invoke(a) PROVE SA!Inv'
  <2>1. /\ v1[a] = "new" /\ v1' = [v1 EXCEPT ![a] = "body"] /\ v2' = Append(v2, a)
        /\ v8' = (IF SA!Running = {} THEN v8 ELSE v8 \ (SA!Running \cup {a}))
        /\ UNCHANGED <<v3, v4, v5, v6, v7>>
    BY <1>5 DEF SA!Invoke
  <2>2. SA!TypeOK' /\ SA!OneTrackerPerBody'
    <3>1. SA!TypeOK'
      BY <1>2, <2>1 DEF SA!TypeOK
    <3> QED BY <1>2, <2>1, <3>1, TrackersFollowBodies
  <2>3. SA!Running = {} => v2' = <<a>>
    <3> SUFFICES ASSUME SA!Running = {} PROVE v2 = <<>>
      BY <2>1
    <3>1. SA!Bodies = {}
      BY DEF SA!Running, SA!Bodies
    <3>2. Len(v2) = 0
      BY <1>2, <3>1, BodiesAreFinite, OneCardinality DEF SA!OneTrackerPerBody
    <3> QED BY <1>2, <3>2 DEF SA!TypeOK
  <2>4. SA!TrackerIsItsOwn'
    <3>1. \A b \in v8' : b # a => b \notin SA!Running /\ b \in v8 /\ v1'[b] = v1[b]
      BY <1>2, <2>1 DEF SA!TypeOK, SA!TrackerIsItsOwn
    <3>2. a \in v8' => a \in v8 /\ SA!Running = {} /\ SA!Running' = {a}
      BY <1>2, <2>1 DEF SA!TypeOK, SA!Running
    <3>3. \A i \in DOMAIN v2' : v2'[i] = a \/ (i \in DOMAIN v2 /\ v2'[i] = v2[i] /\ v2[i] \in Actions)
      BY <1>2, <2>1 DEF SA!TypeOK
    <3> QED BY <1>2, <2>1, <2>3, <3>1, <3>2, <3>3 DEF SA!TypeOK, SA!TrackerIsItsOwn, SA!Resolved, SA!Running
  <2>5. SA!OwedIsLinked'
    BY <1>2, <2>1, OwedStaysLinked DEF SA!TypeOK
  <2> QED BY <2>2, <2>4, <2>5 DEF SA!Inv
<1>6. ASSUME NEW a \in Actions, SA!Write(a) PROVE SA!Inv'
  <2> DEFINE fresh == SA!LinkedTo(a) \ v6[a]
  <2>1. /\ v1[a] = "body" /\ v4[a] = SA!Nothing
        /\ v7' = [v7 EXCEPT ![a] = [c \in SA!Caches |-> v7[a][c] \cup fresh]]
        /\ UNCHANGED <<v1, v2, v3, v4, v5, v6, v8>>
    BY <1>2, <1>6 DEF SA!Write, SA!TypeOK
  <2>2. fresh \in SUBSET Targets
    BY ResolvedTargets
  <2>3. a \in v8 => fresh \subseteq SA!LinkedTo(a) \ v3[a]
    BY <1>2, <2>1 DEF SA!TrackerIsItsOwn
  <2> HIDE DEF fresh
  <2>4. SA!TypeOK' /\ SA!OneTrackerPerBody'
    BY <1>2, <2>1, <2>2 DEF SA!TypeOK, SA!OneTrackerPerBody, SA!Bodies
  <2>5. SA!TrackerIsItsOwn'
    BY <1>2, <2>1 DEF SA!TrackerIsItsOwn, SA!Resolved, SA!Running
  <2>6. SA!OwedIsLinked'
    <3>1. \A b \in Actions, c \in SA!Caches :
            v7'[b][c] = IF b = a THEN v7[b][c] \cup fresh ELSE v7[b][c]
      BY <1>2, <2>1 DEF SA!TypeOK
    <3> QED BY <1>2, <2>1, <2>3, <3>1 DEF SA!OwedIsLinked, SA!Resolved, SA!TypeOK
  <2> QED BY <2>4, <2>5, <2>6 DEF SA!Inv
<1>7. ASSUME NEW a \in Actions, NEW t \in Targets, SA!Revalidate(a, t) PROVE SA!Inv'
  <2> DEFINE ts == SA!Resolve({t})
  <2>1. /\ v1[a] = "body" /\ v4[a] = SA!Nothing /\ v4' = [v4 EXCEPT ![a] = [c \in SA!Caches |-> ts]]
        /\ v6' = [v6 EXCEPT ![a] = @ \cup ts] /\ UNCHANGED <<v1, v2, v3, v5, v7, v8>>
    BY <1>7 DEF SA!Revalidate
  <2>2. ts \in SUBSET Targets
    BY ResolvedTargets
  <2> HIDE DEF ts
  <2>3. SA!TypeOK' /\ SA!OneTrackerPerBody'
    BY <1>2, <2>1, <2>2 DEF SA!TypeOK, SA!OneTrackerPerBody, SA!Bodies
  <2>4. /\ SA!Resolved(a) = {} /\ SA!Resolved(a)' = ts /\ \A c \in SA!Caches : v4'[a][c] = ts
        /\ \A b \in Actions : b # a => SA!Resolved(b)' = SA!Resolved(b) /\ v4'[b] = v4[b]
    BY <1>2, <2>1 DEF SA!Resolved, SA!Nothing, SA!Caches, SA!TypeOK
  <2>5. SA!TrackerIsItsOwn'
    BY <1>2, <2>1, <2>4 DEF SA!TypeOK, SA!TrackerIsItsOwn, SA!Running
  <2>6. SA!OwedIsLinked'
    BY <1>2, <2>1, <2>4 DEF SA!OwedIsLinked
  <2> QED BY <2>3, <2>5, <2>6 DEF SA!Inv
<1>8. ASSUME NEW a \in Actions, NEW t \in Targets, SA!InvalidateResource(a, t) PROVE SA!Inv'
  <2>1. /\ v1[a] = "body" /\ v4[a] = SA!Nothing
        /\ v4' = [v4 EXCEPT ![a] = [SA!Nothing EXCEPT !["pages"] = {t}]]
        /\ UNCHANGED <<v1, v2, v3, v5, v6, v7, v8>>
    BY <1>8 DEF SA!InvalidateResource
  <2>2. SA!TypeOK' /\ SA!OneTrackerPerBody'
    BY <1>2, <2>1 DEF SA!TypeOK, SA!OneTrackerPerBody, SA!Bodies, SA!Caches, SA!Nothing
  <2>3. /\ SA!Resolved(a) = {} /\ SA!Resolved(a)' = {}
        /\ \A b \in Actions : b # a => SA!Resolved(b)' = SA!Resolved(b) /\ v4'[b] = v4[b]
    BY <1>2, <2>1 DEF SA!Resolved, SA!Nothing, SA!Caches, SA!TypeOK
  <2>4. SA!TrackerIsItsOwn'
    BY <1>2, <2>1, <2>3 DEF SA!TypeOK, SA!TrackerIsItsOwn, SA!Running
  <2>5. SA!OwedIsLinked'
    BY <1>2, <2>1, <2>3 DEF SA!OwedIsLinked
  <2> QED BY <2>2, <2>4, <2>5 DEF SA!Inv
<1>9. ASSUME NEW a \in Actions, SA!Revalidated(a) PROVE SA!Inv'
  <2>1. /\ v4[a] # SA!Nothing /\ v1[a] = "body"
        /\ v7' = [b \in Actions |-> [c \in SA!Caches |-> v7[b][c] \ v4[a][c]]]
        /\ v4' = [v4 EXCEPT ![a] = SA!Nothing] /\ UNCHANGED <<v1, v2, v5, v6, v8>>
    BY <1>2, <1>9 DEF SA!Revalidated, SA!Invalidated, SA!TrackerIsItsOwn
  <2>2. Len(v2) >= 1 /\ Len(v2) \in DOMAIN v2 /\ v2[Len(v2)] \in Actions /\ v2 # <<>>
    BY <1>2, <2>1, TrackersFollowBodies DEF SA!TypeOK
  <2>3. PICK top \in Actions : top = v2[Len(v2)]
    BY <2>2
  <2>4. v3' = [v3 EXCEPT ![top] = @ \cup SA!Resolved(a)] /\ SA!Resolved(a) \subseteq Targets
    BY <1>2, <1>9, <2>2, <2>3 DEF SA!Revalidated, SA!Resolved, SA!TypeOK, SA!Caches
  <2>5. SA!TypeOK' /\ SA!OneTrackerPerBody'
    <3>1. v3' \in [Actions -> SUBSET Targets]
      BY <1>2, <2>4 DEF SA!TypeOK
    <3>2. v4' \in [Actions -> [SA!Caches -> SUBSET Targets]]
      BY <1>2, <2>1 DEF SA!TypeOK, SA!Nothing
    <3>3. v7' \in [Actions -> [SA!Caches -> SUBSET Targets]]
      BY <1>2, <2>1 DEF SA!TypeOK
    <3> QED BY <1>2, <2>1, <3>1, <3>2, <3>3 DEF SA!TypeOK, SA!OneTrackerPerBody, SA!Bodies
  <2>6. /\ SA!Resolved(a)' = {} /\ v4'[a] = SA!Nothing
        /\ \A b \in Actions : b # a => SA!Resolved(b)' = SA!Resolved(b) /\ v4'[b] = v4[b]
    BY <1>2, <2>1 DEF SA!Resolved, SA!Nothing, SA!Caches, SA!TypeOK
  <2>7. v1[top] # "new" /\ \A b \in v8 : v1[b] # "body" => b # top
    BY <1>2, <2>2, <2>3 DEF SA!TrackerIsItsOwn
  <2>8. a \in v8 => top = a
    <3>1. a \in v8 => v2 = <<a>>
      BY <1>2, <2>1, OwnTracker
    <3>2. v2 = <<a>> => v2[Len(v2)] = a
      OBVIOUS
    <3> QED BY <2>3, <3>1, <3>2
  <2>9. \A b \in v8 : b # a => v1[b] # "body"
    BY <1>2, <2>1, OthersAreNotInTheirBody
  <2>10. \A b \in v8 : b # a => b # top
    BY <2>7, <2>9
  <2>11. \A b \in Actions : v3'[b] = IF b = top THEN v3[b] \cup SA!Resolved(a) ELSE v3[b]
    BY <1>2, <2>4 DEF SA!TypeOK
  <2>12. SA!TrackerIsItsOwn'
    <3>1. \A i \in DOMAIN v2 : v1[v2[i]] # "new"
      BY <1>2 DEF SA!TrackerIsItsOwn
    <3>2. ASSUME NEW b \in Actions
          PROVE  (v1[b] # "body" => v4'[b] = SA!Nothing) /\ (v1[b] = "new" => v3'[b] = {} /\ v6[b] = {})
      BY <1>2, <2>1, <2>6, <2>7, <2>11, <3>2 DEF SA!TrackerIsItsOwn
    <3>3. ASSUME NEW b \in v8, v1[b] # "refused"
          PROVE  v6[b] = v3'[b] \cup SA!Resolved(b)'
      <4>1. b \in Actions /\ v6[b] = v3[b] \cup SA!Resolved(b)
        BY <1>2, <3>3, OwnTracker
      <4>2. CASE b = a
        <5>1. v3'[a] = v3[a] \cup SA!Resolved(a) /\ SA!Resolved(a)' = {}
          BY <2>6, <2>8, <2>11, <3>3, <4>2
        <5> QED BY <4>1, <4>2, <5>1
      <4>3. CASE b # a
        BY <2>6, <2>10, <2>11, <3>3, <4>1, <4>3
      <4> QED BY <4>2, <4>3
    <3>4. SA!Running' = SA!Running
      BY <2>1 DEF SA!Running
    <3>5. \A b \in v8 :
            /\ b \in SA!Running => SA!Running = {b}
            /\ v1[b] = "body" => v2 = <<b>>
            /\ v1[b] # "body" => \A i \in DOMAIN v2 : v2[i] # b
            /\ v1[b] \in {"linked", "reply", "done"} => v5[b] = v6[b] \cup SA!LinkedTo(b)
      BY <1>2, OwnTracker
    <3>6. v1' = v1 /\ v2' = v2 /\ v5' = v5 /\ v6' = v6 /\ v8' = v8
      BY <2>1
    <3>7. \A i \in DOMAIN v2' : v1'[v2'[i]] # "new"
      BY <3>1, <3>6
    <3>8. \A b \in Actions :
            (v1'[b] # "body" => v4'[b] = SA!Nothing) /\ (v1'[b] = "new" => v3'[b] = {} /\ v6'[b] = {})
      BY <3>2, <3>6
    <3>9. \A b \in v8' :
            /\ b \in SA!Running' => SA!Running' = {b}
            /\ v1'[b] = "body" => v2' = <<b>>
            /\ v1'[b] # "body" => \A i \in DOMAIN v2' : v2'[i] # b
            /\ v1'[b] # "refused" => v6'[b] = v3'[b] \cup SA!Resolved(b)'
            /\ v1'[b] \in {"linked", "reply", "done"} => v5'[b] = v6'[b] \cup SA!LinkedTo(b)
      <4> SUFFICES ASSUME NEW b \in v8'
                   PROVE  /\ b \in SA!Running' => SA!Running' = {b}
                          /\ v1'[b] = "body" => v2' = <<b>>
                          /\ v1'[b] # "body" => \A i \in DOMAIN v2' : v2'[i] # b
                          /\ v1'[b] # "refused" => v6'[b] = v3'[b] \cup SA!Resolved(b)'
                          /\ v1'[b] \in {"linked", "reply", "done"} => v5'[b] = v6'[b] \cup SA!LinkedTo(b)
        OBVIOUS
      <4>1. b \in v8 /\ b \in Actions
        BY <1>2, <3>6 DEF SA!TypeOK
      <4>2. b \in SA!Running' => SA!Running' = {b}
        BY <4>1, <3>4, <3>5, Zenon
      <4>3. v1'[b] = "body" => v2' = <<b>>
        BY <4>1, <3>5, <3>6
      <4>4. v1'[b] # "body" => \A i \in DOMAIN v2' : v2'[i] # b
        BY <4>1, <3>5, <3>6
      <4>5. v1'[b] # "refused" => v6'[b] = v3'[b] \cup SA!Resolved(b)'
        BY <4>1, <3>3, <3>6, Zenon
      <4>6. v1'[b] \in {"linked", "reply", "done"} => v5'[b] = v6'[b] \cup SA!LinkedTo(b)
        BY <4>1, <3>5, <3>6, Zenon
      <4> QED BY <4>2, <4>3, <4>4, <4>5, <4>6
    <3> QED BY <3>7, <3>8, <3>9, Zenon DEF SA!TrackerIsItsOwn
  <2>13. SA!OwedIsLinked'
    <3>1. \A b \in Actions, c \in SA!Caches : v7'[b][c] = v7[b][c] \ v4[a][c]
      BY <2>1
    <3>2. \A c \in SA!Caches : SA!Resolved(a) \subseteq v4[a][c]
      BY <1>2 DEF SA!OwedIsLinked
    <3>3. ASSUME NEW b \in Actions, NEW c \in SA!Caches
          PROVE  SA!Resolved(b)' \subseteq v4'[b][c] /\ (v1[b] = "new" => v7'[b][c] = {})
      BY <1>2, <2>6, <3>1, <3>3 DEF SA!OwedIsLinked
    <3>4. ASSUME NEW b \in v8, NEW c \in SA!Caches
          PROVE  /\ v7'[b][c] \subseteq SA!LinkedTo(b) \ v3'[b]
                 /\ v1[b] \in {"reply", "done"} /\ c # "store" => v7'[b][c] = {}
      <4>1. b \in Actions
        BY <1>2, <3>4 DEF SA!TypeOK
      <4>2. /\ v7[b][c] \subseteq SA!LinkedTo(b) \ v3[b]
            /\ v1[b] \in {"reply", "done"} /\ c # "store" => v7[b][c] = {}
        BY <1>2, <3>4 DEF SA!OwedIsLinked
      <4>3. v3'[b] \subseteq v3[b] \cup SA!Resolved(a)
        BY <2>11, <4>1
      <4>4. v7'[b][c] = v7[b][c] \ v4[a][c]
        BY <3>1, <3>4, <4>1
      <4> QED BY <3>2, <3>4, <4>2, <4>3, <4>4
    <3>5. v1' = v1 /\ v8' = v8
      BY <2>1
    <3> QED BY <3>3, <3>4, <3>5 DEF SA!OwedIsLinked
  <2> QED BY <2>5, <2>12, <2>13 DEF SA!Inv
<1>10. ASSUME NEW a \in Actions, SA!BodyReturns(a) PROVE SA!Inv'
  <2> DEFINE next == IF SA!Pending(a) # {} THEN "linked" ELSE "reply"
  <2>1. /\ v1[a] = "body" /\ v4[a] = SA!Nothing /\ v1' = [v1 EXCEPT ![a] = next]
        /\ v5' = [v5 EXCEPT ![a] = SA!Report(a)] /\ SA!Pop /\ UNCHANGED <<v3, v4, v6, v7, v8>>
    BY <1>10 DEF SA!BodyReturns
  <2>2. SA!OneTrackerPerBody' /\ Len(v2) >= 1
    <3>1. next # "body"
      OBVIOUS
    <3> HIDE DEF next
    <3> QED BY <1>2, <2>1, <3>1, TrackersFollowBodies
  <2>3. /\ v2' \in Seq(Actions)
        /\ \A i \in DOMAIN v2' : i \in DOMAIN v2 /\ v2'[i] = v2[i]
        /\ \A b : v2 = <<b>> => v2' = <<>>
    <3>1. v2 \in Seq(Actions)
      BY <1>2 DEF SA!TypeOK
    <3> QED BY <2>1, <2>2, <3>1, Popped
  <2>4. SA!TypeOK'
    BY <1>2, <2>1, <2>3, ResolvedTargets DEF SA!TypeOK, SA!Report
  <2>5. \A b \in v8 : b # a => v1[b] # "body"
    BY <1>2, <2>1, OthersAreNotInTheirBody
  <2>6. a \in v8 => v2' = <<>>
    BY <1>2, <2>1, <2>3, OwnTracker
  <2>7. SA!TrackerIsItsOwn'
    <3>1. \A b \in Actions : b # a => v1'[b] = v1[b] /\ v5'[b] = v5[b]
      BY <1>2, <2>1 DEF SA!TypeOK
    <3>2. v1'[a] \in {"linked", "reply"} /\ v5'[a] = v3[a] \cup SA!LinkedTo(a)
      BY <1>2, <2>1 DEF SA!TypeOK, SA!Report
    <3> HIDE DEF next
    <3>3. SA!Running' = SA!Running
      BY <2>1, <3>1, <3>2 DEF SA!Running
    <3>4. \A i \in DOMAIN v2' : v1'[v2'[i]] # "new"
      BY <1>2, <2>3, <3>1, <3>2 DEF SA!TrackerIsItsOwn, SA!TypeOK
    <3>5. \A b \in Actions :
            (v1'[b] # "body" => v4[b] = SA!Nothing) /\ (v1'[b] = "new" => v3[b] = {} /\ v6[b] = {})
      BY <1>2, <2>1, <3>1, <3>2 DEF SA!TrackerIsItsOwn
    <3>6. \A b \in Actions : SA!Resolved(b)' = SA!Resolved(b)
      BY <2>1 DEF SA!Resolved
    <3>7. ASSUME NEW b \in v8
          PROVE  /\ b \in SA!Running => SA!Running = {b}
                 /\ v1'[b] = "body" => v2' = <<b>>
                 /\ v1'[b] # "body" => \A i \in DOMAIN v2' : v2'[i] # b
                 /\ v1'[b] # "refused" => v6[b] = v3[b] \cup SA!Resolved(b)
                 /\ v1'[b] \in {"linked", "reply", "done"} => v5'[b] = v6[b] \cup SA!LinkedTo(b)
      <4>1. CASE b = a
        <5>1. SA!Resolved(a) = {} /\ v1[a] # "refused"
          BY <2>1 DEF SA!Resolved, SA!Nothing, SA!Caches
        <5>2. v6[a] = v3[a] \cup SA!Resolved(a) /\ (a \in SA!Running => SA!Running = {a})
          BY <1>2, <3>7, <4>1, <5>1, OwnTracker
        <5> QED BY <2>6, <3>2, <3>7, <4>1, <5>1, <5>2
      <4>2. CASE b # a
        <5>1. v1'[b] = v1[b] /\ v5'[b] = v5[b] /\ v1[b] # "body"
          BY <1>2, <2>5, <3>1, <3>7, <4>2 DEF SA!TypeOK
        <5> QED BY <1>2, <2>3, <3>7, <5>1, OwnTracker
      <4> QED BY <4>1, <4>2
    <3>8. v3' = v3 /\ v4' = v4 /\ v6' = v6 /\ v8' = v8
      BY <2>1
    <3>9. \A i \in DOMAIN v2' : v1'[v2'[i]] # "new"
      BY <3>4
    <3>10. \A b \in Actions :
            (v1'[b] # "body" => v4'[b] = SA!Nothing) /\ (v1'[b] = "new" => v3'[b] = {} /\ v6'[b] = {})
      BY <3>5, <3>8
    <3>11. \A b \in v8' :
            /\ b \in SA!Running' => SA!Running' = {b}
            /\ v1'[b] = "body" => v2' = <<b>>
            /\ v1'[b] # "body" => \A i \in DOMAIN v2' : v2'[i] # b
            /\ v1'[b] # "refused" => v6'[b] = v3'[b] \cup SA!Resolved(b)'
            /\ v1'[b] \in {"linked", "reply", "done"} => v5'[b] = v6'[b] \cup SA!LinkedTo(b)
      <4> SUFFICES ASSUME NEW b \in v8'
                   PROVE  /\ b \in SA!Running' => SA!Running' = {b}
                          /\ v1'[b] = "body" => v2' = <<b>>
                          /\ v1'[b] # "body" => \A i \in DOMAIN v2' : v2'[i] # b
                          /\ v1'[b] # "refused" => v6'[b] = v3'[b] \cup SA!Resolved(b)'
                          /\ v1'[b] \in {"linked", "reply", "done"} => v5'[b] = v6'[b] \cup SA!LinkedTo(b)
        OBVIOUS
      <4>1. b \in v8 /\ b \in Actions
        BY <1>2, <3>8 DEF SA!TypeOK
      <4>2. b \in SA!Running' => SA!Running' = {b}
        BY <4>1, <3>3, <3>7, Zenon
      <4>3. v1'[b] = "body" => v2' = <<b>>
        BY <4>1, <3>7, <3>8
      <4>4. v1'[b] # "body" => \A i \in DOMAIN v2' : v2'[i] # b
        BY <4>1, <3>7, <3>8
      <4>5. v1'[b] # "refused" => v6'[b] = v3'[b] \cup SA!Resolved(b)'
        BY <4>1, <3>6, <3>7, <3>8, Zenon
      <4>6. v1'[b] \in {"linked", "reply", "done"} => v5'[b] = v6'[b] \cup SA!LinkedTo(b)
        BY <4>1, <3>7, <3>8, Zenon
      <4> QED BY <4>2, <4>3, <4>4, <4>5, <4>6
    <3> QED BY <3>9, <3>10, <3>11, Zenon DEF SA!TrackerIsItsOwn
  <2>8. SA!OwedIsLinked'
    <3>1. \A b \in Actions : b # a => v1'[b] = v1[b]
      BY <1>2, <2>1 DEF SA!TypeOK
    <3>2. v1'[a] \in {"linked", "reply"} /\ (v1'[a] = "reply" => SA!Pending(a) = {})
      BY <1>2, <2>1 DEF SA!TypeOK
    <3>3. a \in v8 /\ SA!Pending(a) = {} => \A c \in SA!Caches : v7[a][c] = {}
      BY <1>2 DEF SA!OwedIsLinked, SA!Pending
    <3> QED BY <1>2, <2>1, <3>1, <3>2, <3>3, OwedStaysLinked DEF SA!TypeOK
  <2> QED BY <2>2, <2>4, <2>7, <2>8 DEF SA!Inv
<1>11. ASSUME NEW a \in Actions, SA!BodyThrows(a) PROVE SA!Inv'
  <2>1. /\ v1[a] = "body" /\ v1' = [v1 EXCEPT ![a] = "refused"]
        /\ v4' = [v4 EXCEPT ![a] = SA!Nothing] /\ SA!Pop /\ UNCHANGED <<v3, v5, v6, v7, v8>>
    BY <1>11 DEF SA!BodyThrows
  <2>2. SA!OneTrackerPerBody' /\ Len(v2) >= 1
    BY <1>2, <2>1, TrackersFollowBodies
  <2>3. /\ v2' \in Seq(Actions)
        /\ \A i \in DOMAIN v2' : i \in DOMAIN v2 /\ v2'[i] = v2[i]
        /\ \A b : v2 = <<b>> => v2' = <<>>
    <3>1. v2 \in Seq(Actions)
      BY <1>2 DEF SA!TypeOK
    <3> QED BY <2>1, <2>2, <3>1, Popped
  <2>4. SA!TypeOK'
    BY <1>2, <2>1, <2>3 DEF SA!TypeOK, SA!Nothing
  <2>5. \A b \in v8 : b # a => v1[b] # "body"
    BY <1>2, <2>1, OthersAreNotInTheirBody
  <2>6. a \in v8 => v2' = <<>>
    BY <1>2, <2>1, <2>3, OwnTracker
  <2>7. \A b \in Actions : b # a => SA!Resolved(b)' = SA!Resolved(b) /\ v4'[b] = v4[b]
    BY <1>2, <2>1 DEF SA!Resolved, SA!TypeOK
  <2>8. v4'[a] = SA!Nothing /\ SA!Resolved(a)' = {}
    BY <1>2, <2>1 DEF SA!Resolved, SA!TypeOK, SA!Nothing, SA!Caches
  <2>9. SA!TrackerIsItsOwn'
    BY <1>2, <2>1, <2>3, <2>5, <2>6, <2>7, <2>8 DEF SA!TypeOK, SA!TrackerIsItsOwn, SA!Running
  <2>10. SA!OwedIsLinked'
    BY <1>2, <2>1, <2>7, <2>8 DEF SA!OwedIsLinked, SA!TypeOK
  <2> QED BY <2>2, <2>4, <2>9, <2>10 DEF SA!Inv
<1>12. ASSUME NEW a \in Actions, SA!ApplyLinked(a) PROVE SA!Inv'
  <2>1. /\ v1[a] = "linked" /\ v1' = [v1 EXCEPT ![a] = "reply"]
        /\ v7' = [b \in Actions |-> [c \in SA!Caches |-> v7[b][c] \ (IF c = "store" THEN {} ELSE SA!Pending(a))]]
        /\ UNCHANGED <<v2, v3, v4, v5, v6, v8>>
    BY <1>12 DEF SA!ApplyLinked, SA!Invalidated
  <2>2. SA!OneTrackerPerBody'
    BY <1>2, <2>1, TrackersFollowBodies
  <2>3. SA!TypeOK'
    BY <1>2, <2>1 DEF SA!TypeOK
  <2>4. SA!TrackerIsItsOwn'
    BY <1>2, <2>1 DEF SA!TypeOK, SA!TrackerIsItsOwn, SA!Resolved, SA!Running
  <2>5. SA!OwedIsLinked'
    <3>1. \A b \in Actions : (b # a => v1'[b] = v1[b]) /\ v1'[a] = "reply"
      BY <1>2, <2>1 DEF SA!TypeOK
    <3>2. \A b \in Actions, c \in SA!Caches :
            v7'[b][c] = v7[b][c] \ (IF c = "store" THEN {} ELSE SA!Pending(a))
      BY <2>1
    <3>3. a \in v8 => \A c \in SA!Caches : c # "store" => v7'[a][c] = {}
      BY <1>2, <3>2 DEF SA!OwedIsLinked, SA!Pending
    <3> QED BY <1>2, <2>1, <3>1, <3>2, <3>3, OwedStaysLinked DEF SA!TypeOK
  <2> QED BY <2>2, <2>3, <2>4, <2>5 DEF SA!Inv
<1>13. ASSUME NEW a \in Actions, SA!LinkedThrows(a) PROVE SA!Inv'
  <2>1. SA!TypeOK' /\ SA!OneTrackerPerBody'
    BY <1>2, <1>13, TrackersFollowBodies DEF SA!LinkedThrows, SA!TypeOK
  <2>2. SA!TrackerIsItsOwn'
    BY <1>2, <1>13 DEF SA!LinkedThrows, SA!TypeOK, SA!TrackerIsItsOwn, SA!Resolved, SA!Running
  <2>3. SA!OwedIsLinked'
    BY <1>2, <1>13, OwedStaysLinked DEF SA!LinkedThrows, SA!TypeOK
  <2> QED BY <2>1, <2>2, <2>3 DEF SA!Inv
<1>14. ASSUME NEW a \in Actions, SA!Reply(a) PROVE SA!Inv'
  <2>1. SA!TypeOK' /\ SA!OneTrackerPerBody'
    BY <1>2, <1>14, TrackersFollowBodies DEF SA!Reply, SA!TypeOK
  <2>2. SA!TrackerIsItsOwn'
    BY <1>2, <1>14 DEF SA!Reply, SA!TypeOK, SA!TrackerIsItsOwn, SA!Resolved, SA!Running
  <2>3. SA!OwedIsLinked'
    BY <1>2, <1>14, OwedStaysLinked DEF SA!Reply, SA!TypeOK
  <2> QED BY <2>1, <2>2, <2>3 DEF SA!Inv
<1> QED BY <1>1, <1>3, <1>4, <1>5, <1>6, <1>7, <1>8, <1>9, <1>10, <1>11, <1>12, <1>13, <1>14
    DEF SA!Next, SA!Step

-----------------------------------------------------------------------------
(* The action queue, where no drain is called on an empty queue.           *)
QueueInv == EmptyDrains = FALSE /\ which = "queue" => AQ!Inv

LEMMA QueueSteps ==
  ASSUME [Next]_all, which' = "queue"
  PROVE  which = "queue" /\ [AQ!Next]_<<v1, v2, v3, v4, v5, v6, v7, v8>>
BY DEF Next, all, shared

LEMMA QueueInit == Init => QueueInv
<1> SUFFICES ASSUME Init, which = "queue" PROVE AQ!Inv
  BY DEF QueueInv
<1>1. AQ!Init
  BY DEF Init
<1>2. AQ!TypeOK
  <2>1. v5 \in [pending : BOOLEAN, size : Nat, completed : Nat, failed : Nat, settled : Nat]
    BY <1>1 DEF AQ!Init, AQ!Zero
  <2>2. v8 \in [Drainers -> [asked : Nat, settled : Nat]]
    BY <1>1 DEF AQ!Init
  <2>3. v1 \in Seq(Nat) /\ v6 \in Seq(Nat) /\ v7 \in [Drainers -> Nat \cup {AQ!NotDraining}]
    BY <1>1 DEF AQ!Init
  <2>4. v3 \in Nat /\ v4 \in BOOLEAN /\ v2 \in {"null", "running", "settled"}
    BY <1>1 DEF AQ!Init
  <2> QED BY <2>1, <2>2, <2>3, <2>4 DEF AQ!TypeOK
<1> QED BY <1>1, <1>2 DEF AQ!Init, AQ!Inv, AQ!NumbersInOrder, AQ!DrainSettlesAll, AQ!RunsInOrder,
                          AQ!StatusIsTrue, AQ!Zero, AQ!Started

\* What is settled, runs and waits.
LEMMA QueueNumbers ==
  ASSUME AQ!TypeOK
  PROVE  /\ Len(v1) \in Nat /\ v5.settled \in Nat /\ AQ!Started \in Nat /\ AQ!Enqueued \in Nat
         /\ AQ!Enqueued = AQ!Started + Len(v1)
         /\ v3 = 0 => AQ!Started = v5.settled
         /\ v3 # 0 => AQ!Started = v5.settled + 1
<1>1. Len(v1) \in Nat /\ v5.settled \in Nat
  BY DEF AQ!TypeOK
<1>2. CASE v3 = 0
  BY <1>1, <1>2 DEF AQ!Started, AQ!Enqueued
<1>3. CASE v3 # 0
  BY <1>1, <1>3 DEF AQ!Started, AQ!Enqueued
<1> QED BY <1>1, <1>2, <1>3

\* The actions that wait are numbered on from those that were started.
LEMMA QueueHead ==
  ASSUME AQ!TypeOK, AQ!NumbersInOrder, v1 # <<>>
  PROVE  /\ Tail(v1) \in Seq(Nat) /\ Len(Tail(v1)) = Len(v1) - 1 /\ Head(v1) = AQ!Started + 1
         /\ \A i \in DOMAIN Tail(v1) : Tail(v1)[i] = AQ!Started + 1 + i
<1>1. v1 \in Seq(Nat) /\ AQ!Started \in Nat /\ \A i \in DOMAIN v1 : v1[i] = AQ!Started + i
  BY QueueNumbers DEF AQ!TypeOK, AQ!NumbersInOrder
<1>2. /\ Tail(v1) \in Seq(Nat) /\ Len(Tail(v1)) = Len(v1) - 1 /\ Head(v1) = v1[1]
      /\ 1 \in DOMAIN v1
  BY <1>1
<1>3. \A i \in DOMAIN Tail(v1) : Tail(v1)[i] = v1[i + 1] /\ i + 1 \in DOMAIN v1 /\ i \in Nat
  BY <1>1
<1>4. Head(v1) = AQ!Started + 1
  BY <1>1, <1>2
<1>5. ASSUME NEW i \in DOMAIN Tail(v1) PROVE Tail(v1)[i] = AQ!Started + 1 + i
  BY <1>1, <1>3
<1> QED BY <1>2, <1>4, <1>5

LEMMA QueueNext == QueueInv /\ [Next]_all => QueueInv'
<1> SUFFICES ASSUME QueueInv, [Next]_all, EmptyDrains = FALSE, which' = "queue" PROVE AQ!Inv'
  BY DEF QueueInv
<1>1. AQ!Inv /\ [AQ!Next]_<<v1, v2, v3, v4, v5, v6, v7, v8>>
  BY QueueSteps DEF QueueInv
<1>2. /\ AQ!TypeOK /\ AQ!NumbersInOrder /\ AQ!DrainSettlesAll /\ AQ!RunsInOrder /\ AQ!StatusIsTrue
  BY <1>1 DEF AQ!Inv
<1>5. v1 # <<>> =>
        /\ Tail(v1) \in Seq(Nat) /\ Len(Tail(v1)) = Len(v1) - 1 /\ Head(v1) = AQ!Started + 1
        /\ \A i \in DOMAIN Tail(v1) : Tail(v1)[i] = AQ!Started + 1 + i
  BY <1>2, QueueHead
<1>10. v1 # <<>> => Head(v1) = AQ!Started + 1
  BY <1>5
<1>9. /\ Len(v1) \in Nat /\ v5.settled \in Nat /\ AQ!Started \in Nat /\ AQ!Enqueued \in Nat
      /\ AQ!Enqueued = AQ!Started + Len(v1)
      /\ v3 = 0 => AQ!Started = v5.settled
      /\ v3 # 0 => AQ!Started = v5.settled + 1
  BY <1>2, QueueNumbers
<1>11. v1 \in Seq(Nat) /\ v6 \in Seq(Nat) /\ v3 \in Nat /\ v4 \in BOOLEAN
  BY <1>2 DEF AQ!TypeOK
<1>12. v5.settled \in Nat /\ AQ!Enqueued + 1 \in Nat
  BY <1>9
<1> USE DEF AQ!TypeOK
<1>3. CASE UNCHANGED <<v1, v2, v3, v4, v5, v6, v7, v8>>
  BY <1>2, <1>3 DEF AQ!Inv, AQ!NumbersInOrder, AQ!DrainSettlesAll, AQ!RunsInOrder, AQ!StatusIsTrue,
                    AQ!Started, AQ!Enqueued
<1>4. CASE AQ!Enqueue
  <2>1. /\ v1' = Append(v1, AQ!Enqueued + 1) /\ v5' = [v5 EXCEPT !.size = Len(v1) + 1]
        /\ UNCHANGED <<v2, v3, v4, v6, v7, v8>>
    BY <1>4 DEF AQ!Enqueue
  <2>2. AQ!Enqueued = AQ!Started + Len(v1) /\ AQ!Enqueued \in Nat
    BY <1>9
  <2>3. AQ!Started' = AQ!Started /\ AQ!Enqueued' = AQ!Enqueued + 1
    BY <1>2, <2>1 DEF AQ!Enqueued, AQ!Started
  <2>4. AQ!TypeOK'
    <3>1. v1' \in Seq(Nat)
      BY <1>11, <2>1, <2>2
    <3>2. v5' \in [pending : BOOLEAN, size : Nat, completed : Nat, failed : Nat, settled : Nat]
      <4>1. v5 \in [pending : BOOLEAN, size : Nat, completed : Nat, failed : Nat, settled : Nat]
            /\ Len(v1) + 1 \in Nat
        BY <1>2, <1>9
      <4> QED BY <2>1, <4>1
    <3> QED BY <1>2, <2>1, <3>1, <3>2
  <2>5. \A i \in DOMAIN v1' : v1'[i] = AQ!Started' + i
    <3>1. \A i \in DOMAIN v1 : v1[i] = AQ!Started + i
      BY <1>2 DEF AQ!NumbersInOrder
    <3>2. v1' = Append(v1, AQ!Enqueued + 1) /\ AQ!Enqueued + 1 \in Nat
      BY <2>1, <2>2
    <3>3. \A i \in DOMAIN v1' : (i \in DOMAIN v1 /\ v1'[i] = v1[i]) \/ (i = Len(v1) + 1 /\ v1'[i] = AQ!Enqueued + 1)
      BY <1>11, <3>2
    <3>4. AQ!Enqueued + 1 = AQ!Started + (Len(v1) + 1) /\ AQ!Started' = AQ!Started
      BY <1>9, <2>3
    <3> QED BY <3>1, <3>3, <3>4
  <2>6. AQ!NumbersInOrder'
    <3>1. \A d \in Drainers : v7'[d] # AQ!NotDraining => v7'[d] <= AQ!Enqueued' /\ v3' # 0
      <4>1. ASSUME NEW d \in Drainers, v7[d] # AQ!NotDraining
            PROVE  v7[d] \in Nat /\ v7[d] <= AQ!Enqueued /\ v3 # 0
        BY <1>2, <4>1 DEF AQ!NumbersInOrder
      <4> QED BY <2>1, <2>2, <2>3, <4>1
    <3>2. /\ v2 # "settled" /\ (v2 = "running" <=> v3 # 0) /\ (v3 # 0 => v3 = v5.settled + 1)
          /\ (v4 => v3 # 0) /\ v5'.settled = v5.settled
      BY <1>2, <2>1 DEF AQ!NumbersInOrder
    <3>3. \A i \in DOMAIN v6 : v6[i] <= v5.settled + (IF v4 THEN 1 ELSE 0)
      BY <1>2 DEF AQ!NumbersInOrder
    <3> QED BY <2>1, <2>5, <3>1, <3>2, <3>3 DEF AQ!NumbersInOrder
  <2>7. AQ!DrainSettlesAll' /\ AQ!RunsInOrder' /\ AQ!StatusIsTrue'
    BY <1>2, <2>1 DEF AQ!DrainSettlesAll, AQ!RunsInOrder, AQ!StatusIsTrue
  <2> QED BY <2>4, <2>6, <2>7 DEF AQ!Inv
<1>6. ASSUME NEW d \in Drainers, AQ!Drain(d) PROVE AQ!Inv'
  <2>1. /\ v7[d] = AQ!NotDraining /\ (v1 # <<>> \/ v2 # "null") /\ v2 # "settled"
        /\ v7' = [v7 EXCEPT ![d] = AQ!Enqueued] /\ UNCHANGED <<v4, v6, v8>>
    BY <1>2, <1>6 DEF AQ!Drain, AQ!NumbersInOrder
  <2>2. AQ!Enqueued = AQ!Started + Len(v1) /\ AQ!Enqueued \in Nat /\ AQ!Started \in Nat
    BY <1>9
  <2>5. \A e \in Drainers : v7'[e] # AQ!NotDraining => v7'[e] <= AQ!Enqueued
    <3>1. v7 \in [Drainers -> Nat \cup {AQ!NotDraining}]
          /\ \A e \in Drainers : v7[e] # AQ!NotDraining => v7[e] <= AQ!Enqueued
      BY <1>2 DEF AQ!NumbersInOrder
    <3>2. AQ!Enqueued <= AQ!Enqueued
      BY <2>2
    <3> QED BY <2>1, <3>1, <3>2
  <2>3. CASE v2 = "running"
    <3>1. UNCHANGED <<v1, v2, v3, v5>> /\ v3 # 0
      BY <1>2, <1>6, <2>3 DEF AQ!Drain, AQ!NumbersInOrder
    <3>2. AQ!Started' = AQ!Started /\ AQ!Enqueued' = AQ!Enqueued
      BY <2>1, <3>1 DEF AQ!Enqueued, AQ!Started
    <3>3. AQ!TypeOK'
      BY <1>2, <2>1, <2>2, <3>1
    <3>4. AQ!NumbersInOrder'
      BY <1>2, <2>1, <2>5, <3>1, <3>2 DEF AQ!NumbersInOrder
    <3>5. AQ!DrainSettlesAll' /\ AQ!RunsInOrder' /\ AQ!StatusIsTrue'
      BY <1>2, <2>1, <3>1 DEF AQ!DrainSettlesAll, AQ!RunsInOrder, AQ!StatusIsTrue
    <3> QED BY <3>3, <3>4, <3>5 DEF AQ!Inv
  <2>4. CASE v2 = "null"
    <3>1. /\ v1 # <<>> /\ v3 = 0 /\ v4 = FALSE /\ v2' = "running" /\ v3' = Head(v1) /\ v1' = Tail(v1)
          /\ v5' = [v5 EXCEPT !.pending = TRUE, !.size = Len(v1)]
      BY <1>2, <1>6, <2>1, <2>4 DEF AQ!Drain, AQ!NumbersInOrder, AQ!Take
    <3>2. AQ!Started = v5.settled /\ v3' = AQ!Started + 1 /\ v3' # 0
      BY <1>5, <1>9, <3>1
    <3>3. AQ!Started' = AQ!Started + 1 /\ AQ!Enqueued' = AQ!Enqueued
      BY <1>2, <1>5, <2>1, <3>1, <3>2 DEF AQ!Enqueued, AQ!Started
    <3>4. AQ!TypeOK'
      <4>1. v1' \in Seq(Nat) /\ v3' \in Nat
        BY <1>5, <2>2, <3>1, <3>2
      <4>2. v5' \in [pending : BOOLEAN, size : Nat, completed : Nat, failed : Nat, settled : Nat]
        BY <1>2, <1>9, <3>1
      <4>3. v7' \in [Drainers -> Nat \cup {AQ!NotDraining}]
        BY <1>2, <2>1, <2>2
      <4> QED BY <1>2, <2>1, <3>1, <4>1, <4>2, <4>3
    <3>5. AQ!NumbersInOrder'
      BY <1>2, <1>5, <2>1, <2>2, <3>1, <3>2, <3>3 DEF AQ!NumbersInOrder
    <3>6. AQ!DrainSettlesAll' /\ AQ!RunsInOrder' /\ AQ!StatusIsTrue'
      BY <1>2, <2>1, <3>1, <3>2 DEF AQ!DrainSettlesAll, AQ!RunsInOrder, AQ!StatusIsTrue
    <3> QED BY <3>4, <3>5, <3>6 DEF AQ!Inv
  <2> QED BY <1>2, <2>1, <2>3, <2>4
<1>7. CASE AQ!Post
  <2>1. /\ v3 # 0 /\ v4 = FALSE /\ v4' = TRUE /\ v6' = Append(v6, v3) /\ UNCHANGED <<v1, v2, v3, v5, v7, v8>>
        /\ v3 = v5.settled + 1
    BY <1>2, <1>7 DEF AQ!Post, AQ!NumbersInOrder
  <2>2. AQ!TypeOK' /\ AQ!Started' = AQ!Started /\ AQ!Enqueued' = AQ!Enqueued
    BY <1>2, <2>1 DEF AQ!Enqueued, AQ!Started
  <2>3. \A i \in DOMAIN v6' : (i \in DOMAIN v6 /\ v6'[i] = v6[i] /\ i < Len(v6')) \/ (i = Len(v6') /\ v6'[i] = v3)
    BY <1>11, <2>1
  <2>4. \A i \in DOMAIN v6 : v6[i] <= v5.settled
    BY <1>2, <2>1 DEF AQ!NumbersInOrder
  <2>5. AQ!NumbersInOrder'
    <3>1. \A i \in DOMAIN v6' : v6'[i] <= v5.settled + 1
      BY <1>2, <2>1, <2>3, <2>4
    <3> QED BY <1>2, <2>1, <2>2, <3>1 DEF AQ!NumbersInOrder
  <2>6. AQ!RunsInOrder'
    <3> SUFFICES ASSUME NEW i \in DOMAIN v6', NEW j \in DOMAIN v6', i < j PROVE v6'[i] < v6'[j]
      BY DEF AQ!RunsInOrder
    <3>1. i \in Nat /\ j \in Nat /\ j <= Len(v6') /\ Len(v6') \in Nat
      BY <1>11, <2>1
    <3>2. i \in DOMAIN v6 /\ v6'[i] = v6[i] /\ v6[i] \in Nat
      BY <1>11, <2>3, <3>1
    <3>3. CASE j \in DOMAIN v6 /\ v6'[j] = v6[j]
      BY <1>2, <3>2, <3>3 DEF AQ!RunsInOrder
    <3>4. CASE v6'[j] = v3
      BY <1>9, <2>1, <2>4, <3>2, <3>4
    <3> QED BY <2>3, <3>3, <3>4
  <2>7. AQ!DrainSettlesAll' /\ AQ!StatusIsTrue'
    BY <1>2, <2>1 DEF AQ!DrainSettlesAll, AQ!StatusIsTrue
  <2> QED BY <2>2, <2>5, <2>6, <2>7 DEF AQ!Inv
<1>8. ASSUME NEW ok \in BOOLEAN, AQ!Settle(ok) PROVE AQ!Inv'
  <2> DEFINE done == [v5 EXCEPT !.settled = @ + 1, !.size = Len(v1),
                                !.completed = @ + (IF ok THEN 1 ELSE 0),
                                !.failed = @ + (IF ok THEN 0 ELSE 1)]
  <2>1. /\ v3 # 0 /\ v3 = v5.settled + 1 /\ v2 = "running" /\ v4' = FALSE /\ v6' = v6
        /\ \A i \in DOMAIN v6 : v6[i] <= v5.settled + 1
    BY <1>2, <1>8 DEF AQ!Settle, AQ!NumbersInOrder
  <2>2. /\ done \in [pending : BOOLEAN, size : Nat, completed : Nat, failed : Nat, settled : Nat]
        /\ done.settled = v5.settled + 1 /\ done.pending = v5.pending /\ done.size = Len(v1)
        /\ done.settled = done.completed + done.failed
    <3>1. v5.completed \in Nat /\ v5.failed \in Nat /\ v5.settled = v5.completed + v5.failed
      BY <1>2 DEF AQ!StatusIsTrue
    <3>2. /\ done.settled = v5.settled + 1 /\ done.pending = v5.pending /\ done.size = Len(v1)
          /\ done.completed = v5.completed + (IF ok THEN 1 ELSE 0)
          /\ done.failed = v5.failed + (IF ok THEN 0 ELSE 1)
      BY <1>2
    <3>3. done.settled = done.completed + done.failed
      BY <3>1, <3>2
    <3>4. done \in [pending : BOOLEAN, size : Nat, completed : Nat, failed : Nat, settled : Nat]
      <4>1. PICK c, f \in Nat : c = v5.completed + (IF ok THEN 1 ELSE 0) /\ f = v5.failed + (IF ok THEN 0 ELSE 1)
        BY <3>1
      <4>2. PICK n, l \in Nat : n = v5.settled + 1 /\ l = Len(v1)
        BY <1>9
      <4>3. done = [v5 EXCEPT !.settled = n, !.size = l, !.completed = c, !.failed = f]
        BY <4>1, <4>2
      <4> HIDE DEF done
      <4> QED BY <1>2, <4>3
    <3> QED BY <3>2, <3>3, <3>4
  <2>3. AQ!Started = v5.settled + 1 /\ AQ!Enqueued = v5.settled + 1 + Len(v1)
    BY <1>9, <2>1
  <2>4. CASE v1 # <<>>
    <3>1. v3' = Head(v1) /\ v1' = Tail(v1) /\ v5' = done /\ UNCHANGED <<v2, v7, v8>>
      BY <1>8, <2>4 DEF AQ!Settle, AQ!More, AQ!Take
    <3> HIDE DEF done
    <3>2. v3' = v5.settled + 2 /\ v3' \in Nat /\ v3' # 0
      <4>1. v3' = v5.settled + 1 + 1
        BY <1>10, <2>3, <2>4, <3>1
      <4> HIDE DEF AQ!TypeOK
      <4> QED BY <1>12, <4>1
    <3>3. AQ!Started' = v5.settled + 2 /\ AQ!Enqueued' = AQ!Enqueued
      <4>1. Len(v1') = Len(v1) - 1 /\ v5'.settled = v5.settled + 1 /\ v3' # 0
        BY <1>5, <2>2, <2>4, <3>1, <3>2
      <4>2. PICK n, l \in Nat : n = v5.settled /\ l = Len(v1)
        BY <1>9
      <4>3. AQ!Started' = (n + 1) + 1 /\ AQ!Enqueued' = (n + 1) + (l - 1) + 1
        BY <4>1, <4>2 DEF AQ!Enqueued, AQ!Started
      <4>4. AQ!Enqueued = n + 1 + l
        BY <2>3, <4>2
      <4>5. (n + 1) + 1 = n + 2 /\ (n + 1) + (l - 1) + 1 = n + 1 + l
        OBVIOUS
      <4> QED BY <4>2, <4>3, <4>4, <4>5
    <3>4. AQ!TypeOK'
      BY <1>2, <1>5, <2>1, <2>2, <2>4, <3>1, <3>2
    <3>5. AQ!NumbersInOrder'
      <4>1. \A i \in DOMAIN v1' : v1'[i] = AQ!Started' + i
        <5>1. \A i \in DOMAIN v1' : v1'[i] = AQ!Started + 1 + i
          BY <1>5, <2>4, <3>1
        <5>2. v5.settled \in Nat
          BY <1>9
        <5>3. AQ!Started + 1 = AQ!Started'
          BY <2>3, <3>3, <5>2
        <5> QED BY <5>1, <5>3
      <4>2. /\ v2' = "running" /\ v3' # 0 /\ v3' = v5'.settled + 1 /\ v4' = FALSE
            /\ \A i \in DOMAIN v6' : v6'[i] <= v5'.settled
        <5>1. v3' = (v5.settled + 1) + 1
          BY <1>12, <3>2
        <5> QED BY <2>1, <2>2, <3>1, <3>2, <5>1
      <4>3. \A i \in DOMAIN v6' : v6'[i] <= v5'.settled + 0
        <5>1. v5'.settled \in Nat /\ v5'.settled + 0 = v5'.settled
          BY <1>12, <2>2, <3>1
        <5> QED BY <4>2, <5>1
      <4>4. \A d \in Drainers : v7'[d] # AQ!NotDraining => v7'[d] <= AQ!Enqueued' /\ v3' # 0
        BY <1>2, <3>1, <3>2, <3>3 DEF AQ!NumbersInOrder
      <4> QED BY <4>1, <4>2, <4>3, <4>4 DEF AQ!NumbersInOrder
    <3>6. AQ!DrainSettlesAll' /\ AQ!RunsInOrder' /\ AQ!StatusIsTrue'
      BY <1>2, <2>1, <2>2, <3>1, <3>2 DEF AQ!DrainSettlesAll, AQ!RunsInOrder, AQ!StatusIsTrue
    <3> QED BY <3>4, <3>5, <3>6 DEF AQ!Inv
  <2>5. CASE v1 = <<>>
    <3>1. /\ v3' = 0 /\ v2' = "null" /\ v5' = [done EXCEPT !.pending = FALSE, !.size = 0] /\ v1' = v1
          /\ v8' = [d \in Drainers |-> IF v7[d] = AQ!NotDraining THEN v8[d]
                                       ELSE [asked |-> v7[d], settled |-> done.settled]]
          /\ v7' = [d \in Drainers |-> AQ!NotDraining]
      BY <1>8, <2>5 DEF AQ!Settle, AQ!More, AQ!Over
    <3> HIDE DEF done
    <3>2. /\ v5' \in [pending : BOOLEAN, size : Nat, completed : Nat, failed : Nat, settled : Nat]
          /\ v5'.settled = v5.settled + 1 /\ v5'.pending = FALSE /\ v5'.size = 0
          /\ v5'.settled = v5'.completed + v5'.failed
      BY <2>2, <3>1
    <3>3. AQ!Started' = v5.settled + 1 /\ AQ!Enqueued' = v5.settled + 1
      BY <1>2, <2>5, <3>1, <3>2 DEF AQ!Enqueued, AQ!Started
    <3>4. AQ!TypeOK'
      BY <1>2, <2>1, <2>2, <3>1, <3>2
    <3>5. AQ!NumbersInOrder'
      BY <1>2, <2>1, <2>5, <3>1, <3>2, <3>3 DEF AQ!NumbersInOrder
    <3>6. AQ!DrainSettlesAll'
      <4>1. \A d \in Drainers : v7[d] # AQ!NotDraining => v7[d] <= v5.settled + 1
        BY <1>2, <2>3, <2>5 DEF AQ!NumbersInOrder
      <4> QED BY <1>2, <2>2, <3>1, <4>1 DEF AQ!DrainSettlesAll
    <3>7. AQ!RunsInOrder' /\ AQ!StatusIsTrue'
      BY <1>2, <2>1, <2>5, <3>1, <3>2 DEF AQ!RunsInOrder, AQ!StatusIsTrue
    <3> QED BY <3>4, <3>5, <3>6, <3>7 DEF AQ!Inv
  <2> QED BY <2>4, <2>5
<1> QED BY <1>1, <1>3, <1>4, <1>6, <1>7, <1>8 DEF AQ!Next

-----------------------------------------------------------------------------
(* What the components promise together.                                   *)

(* Callers of one request that ask for one thing at one time share one     *)
(* fetch of it (sourceogFetch of cache.ts and of fetch.ts), for any number *)
(* of callers, requests and urls: whoever fetches has left a promise.      *)
THEOREM OneFetchForAll == Spec => []OneFetchAtATime
<1>1. ASSUME CacheInv, which = "runtime" PROVE RC!OneFetchPerRequest
  <2> SUFFICES ASSUME NEW r \in CacheRequests \ v8
               PROVE  RC!Cardinality({c \in CacheCallers : RC!Req(c) = r /\ RC!Fetching(c)}) <= 1
    BY DEF RC!OneFetchPerRequest
  <2> DEFINE S == {c \in CacheCallers : RC!Req(c) = r /\ RC!Fetching(c)}
  <2>1. \A c, d \in S : c = d
    BY <1>1 DEF CacheInv, RC!Inv, RC!FetchIsMemoised
  <2>2. Cardinality(S) <= 1
    <3> HIDE DEF S
    <3> QED BY <2>1, OneAtMost
  <2> QED BY <2>2, OneCardinality
<1>2. ASSUME MemoInv, which = "memo" PROVE RM!OneFetchPerUrl
  <2> SUFFICES ASSUME NEW u \in MemoUrls \ v6 PROVE RM!Cardinality(RM!InFlight(u)) <= 1
    BY DEF RM!OneFetchPerUrl
  <2>1. ASSUME NEW c \in RM!InFlight(u), NEW d \in RM!InFlight(u) PROVE c = d
    <3>1. /\ v3[u] = [st |-> "pending", by |-> c, ver |-> v5[c].ver, tags |-> v5[c].tags]
          /\ v3[u] = [st |-> "pending", by |-> d, ver |-> v5[d].ver, tags |-> v5[d].tags]
      BY <1>2 DEF MemoInv, RM!Inv, RM!MemoIsTheFetch, RM!IsTheFetch
    <3>2. v3[u].by = c
      BY <3>1
    <3> QED BY <3>1, <3>2
  <2>2. Cardinality(RM!InFlight(u)) <= 1
    BY <2>1, OneAtMost
  <2> QED BY <2>2, OneCardinality
<1>3. CacheInv /\ MemoInv => OneFetchAtATime
  BY <1>1, <1>2 DEF OneFetchAtATime, RC_OneFetchPerRequest, RM_OneFetchPerUrl
<1> QED BY CacheInit, CacheNext, MemoInit, MemoNext, <1>3, PTL DEF Spec

(* What an invalidation dropped does not come back: from a read of the     *)
(* runtime's caches that it did not overlap, where it reached them (outside *)
(* a request context it does not reach the persistent store), from the     *)
(* memo of a request unless its fetch was in flight, or to the reply of an *)
(* action that overlapped no other, the persistent store excepted; every   *)
(* tag of a fetch reaches its memo.                                        *)
THEOREM InvalidationsStay == Spec => []InvalidationsHold
<1>1. ASSUME CacheInv, which = "runtime" PROVE RC!LoneInvalidationHolds
  BY <1>1 DEF CacheInv, RC!Inv, RC!NothingOldIsHeld, RC!LoneInvalidationHolds, RC!Holds, RC!Places
<1>2. ASSUME MemoInv, which = "memo" PROVE RM!ClearedStaysCleared /\ RM!TagsReachTheMemo
  BY <1>2 DEF MemoInv, RM!Inv, RM!MemoIsTheFetch, RM!IsTheFetch, RM!ClearedStaysCleared,
              RM!TagsReachTheMemo, RM!Settled
<1>3. ASSUME ActionInv, which = "actions" PROVE SA!AloneLeavesNothingStale
  <2>1. SA!TypeOK /\ SA!TrackerIsItsOwn /\ SA!OwedIsLinked
    BY <1>3 DEF ActionInv, SA!Inv
  <2> SUFFICES ASSUME NEW a \in v8, v1[a] = "done"
               PROVE  /\ v7[a]["pages"] = {} /\ v7[a]["maps"] = {}
                      /\ v7[a]["store"] \subseteq SA!LinkedTo(a) \ v6[a]
    BY DEF SA!AloneLeavesNothingStale
  <2>2. v4[a] = SA!Nothing
    BY <2>1 DEF SA!TrackerIsItsOwn, SA!TypeOK
  <2>3. SA!Resolved(a) = {}
    BY <2>2 DEF SA!Resolved, SA!Nothing, SA!Caches
  <2>4. v6[a] = v3[a]
    <3>1. v1[a] # "refused" => v6[a] = v3[a] \cup SA!Resolved(a)
      BY <2>1 DEF SA!TrackerIsItsOwn
    <3> QED BY <2>3, <3>1
  <2>5. \A c \in SA!Caches : v7[a][c] \subseteq SA!LinkedTo(a) \ v3[a] /\ (c # "store" => v7[a][c] = {})
    BY <2>1 DEF SA!OwedIsLinked
  <2> QED BY <2>4, <2>5 DEF SA!Caches
<1>4. CacheInv /\ MemoInv /\ ActionInv => InvalidationsHold
  BY <1>1, <1>2, <1>3 DEF InvalidationsHold, RC_LoneInvalidationHolds, RM_ClearedStaysCleared,
                          RM_TagsReachTheMemo, SA_AloneLeavesNothingStale
<1> QED BY CacheInit, CacheNext, MemoInit, MemoNext, ActionInit, ActionNext, <1>4, PTL DEF Spec

(* Actions report what they revalidated by path or tag, with one tracker   *)
(* for each body                                                           *)
(* (revalidate.ts, server.ts); the action queue reports, runs and drains   *)
(* its actions truly (sourceog/src/actions.ts) where no drain is called on *)
(* an empty queue, which would leave a settled promise behind.             *)
THEOREM ActionsReportTruly == EmptyDrains = FALSE /\ Spec => []ActionsAreReported
<1>1. ASSUME ActionInv, which = "actions" PROVE SA!OneTrackerPerBody /\ SA!AloneReportsItsOwn
  BY <1>1 DEF ActionInv, SA!Inv, SA!TrackerIsItsOwn, SA!TypeOK, SA!AloneReportsItsOwn
<1>2. ASSUME EmptyDrains = FALSE, QueueInv, which = "queue"
      PROVE  AQ!DrainSettlesAll /\ AQ!RunsInOrder /\ AQ!StatusIsTrue
  BY <1>2 DEF QueueInv, AQ!Inv
<1>3. EmptyDrains = FALSE /\ ActionInv /\ QueueInv => ActionsAreReported
  BY <1>1, <1>2 DEF ActionsAreReported, SA_OneTrackerPerBody, SA_AloneReportsItsOwn, AQ_DrainSettlesAll,
                    AQ_RunsInOrder, AQ_StatusIsTrue
<1>4. EmptyDrains = FALSE => [](EmptyDrains = FALSE)
  <2>1. EmptyDrains = FALSE => (EmptyDrains = FALSE)'
    OBVIOUS
  <2> QED BY <2>1, PTL
<1> QED BY ActionInit, ActionNext, QueueInit, QueueNext, <1>3, <1>4, PTL DEF Spec

-----------------------------------------------------------------------------
(* Places in an order.                                                     *)

\* The elements of a finite set that R orders have the places from 1 to their number: the
\* place of an element is how many are not after it.
LEMMA Places ==
  ASSUME NEW D, IsFiniteSet(D), NEW R,
         \A x, y \in D : <<x, y>> \in R \/ <<y, x>> \in R,
         \A x, y \in D : <<x, y>> \in R /\ <<y, x>> \in R => x = y,
         \A x, y, z \in D : <<x, y>> \in R /\ <<y, z>> \in R => <<x, z>> \in R
  PROVE  LET place(x) == Cardinality({y \in D : <<y, x>> \in R})
         IN  /\ Cardinality(D) \in Nat
             /\ \A n \in 1 .. Cardinality(D) : \E x \in D : place(x) = n
             /\ \A x, y \in D : place(x) < place(y) => <<x, y>> \in R /\ x # y
             /\ \A x, y \in D : place(x) = place(y) => x = y
             /\ \A x \in D : place(x) \in 1 .. Cardinality(D)
<1> DEFINE upTo(x) == {y \in D : <<y, x>> \in R}
           place(x) == Cardinality(upTo(x))
<1>1. Cardinality(D) \in Nat
  BY FS_CardinalityType
<1>2. ASSUME NEW x \in D
      PROVE  /\ IsFiniteSet(upTo(x)) /\ place(x) \in 1 .. Cardinality(D)
  <2>1. upTo(x) \in SUBSET D /\ x \in upTo(x)
    OBVIOUS
  <2> HIDE DEF upTo
  <2>2. IsFiniteSet(upTo(x)) /\ place(x) <= Cardinality(D) /\ place(x) \in Nat
    BY <2>1, FS_Subset, FS_CardinalityType
  <2>3. place(x) # 0
    BY <2>1, <2>2, FS_EmptySet
  <2> QED BY <1>1, <2>2, <2>3
<1>3. ASSUME NEW x \in D, NEW y \in D, <<x, y>> \in R, x # y
      PROVE  place(x) < place(y)
  <2>1. upTo(x) \in SUBSET upTo(y) /\ y \in upTo(y) /\ y \notin upTo(x)
    BY <1>3
  <2> HIDE DEF upTo
  <2>2. place(x) <= place(y) /\ place(x) # place(y)
    BY <1>2, <2>1, FS_Subset
  <2> QED BY <1>1, <1>2, <2>2
<1> HIDE DEF upTo, place
<1>4. ASSUME NEW x \in D, NEW y \in D, place(x) = place(y) PROVE x = y
  <2>1. place(x) \in Nat /\ place(y) \in Nat
    BY <1>1, <1>2
  <2>2. CASE <<x, y>> \in R
    BY <1>3, <1>4, <2>1, <2>2
  <2>3. CASE <<y, x>> \in R
    BY <1>3, <1>4, <2>1, <2>3
  <2> QED BY <2>2, <2>3
<1>5. \A n \in 1 .. Cardinality(D) : \E x \in D : place(x) = n
  <2> DEFINE f == [x \in D |-> place(x)]
             S == 1 .. Cardinality(D)
  <2>1. f \in Injection(D, S)
    <3>1. f \in [D -> S]
      BY <1>2
    <3>2. \A x, y \in D : f[x] = f[y] => x = y
      BY <1>4
    <3> HIDE DEF f
    <3> QED BY <3>1, <3>2 DEF Injection, IsInjective
  <2>2. IsFiniteSet(S) /\ Cardinality(S) = Cardinality(D)
    BY <1>1, FS_Interval
  <2> HIDE DEF f, S
  <2>3. f \in Surjection(D, S)
    BY <2>1, <2>2, FS_Injection
  <2> QED BY <2>3 DEF f, S, Surjection
<1>6. ASSUME NEW x \in D, NEW y \in D, place(x) < place(y) PROVE <<x, y>> \in R /\ x # y
  <2>1. place(x) \in Nat /\ place(y) \in Nat
    BY <1>1, <1>2
  <2>2. ~(place(y) < place(x)) /\ x # y
    BY <1>6, <2>1
  <2> QED BY <1>3, <2>2
<1> QED BY <1>1, <1>2, <1>4, <1>5, <1>6 DEF place, upTo

-----------------------------------------------------------------------------
(* A request and its chains of middleware.                                 *)
RequestInv == which = "request" => SR!Inv
request == <<v1, v2, v3, v4, v5, v6, v7, v8, v9>>

LEMMA RequestSteps ==
  ASSUME [Next]_all, which' = "request"
  PROVE  which = "request" /\ [SR!Next]_request
BY DEF Next, all, shared, request

\* The chain of a route has files of the route, none of the root, and none twice.
LEMMA ChainsAreOnce ==
  /\ \A c : SR!Chain(c) \in Seq(SR!Files)
  /\ \A c : \A i, j \in DOMAIN SR!Chain(c) : SR!Chain(c)[i] = SR!Chain(c)[j] => i = j
  /\ \A i \in DOMAIN SR!RouteChain : SR!RouteChain[i] \notin SR!Range(RootFiles)
<1> DEFINE left == {i \in DOMAIN RouteFiles : RouteFiles[i] \notin SR!Range(RootFiles)}
           R == {p \in Nat \X Nat : p[1] <= p[2]}
           place(i) == Cardinality({j \in left : <<j, i>> \in R})
           at(n) == CHOOSE i \in left : place(i) = n
<1>1. left \subseteq Nat /\ left \in SUBSET (1 .. Len(RouteFiles)) /\ Len(RouteFiles) \in Nat
  BY ChainAssumption
<1>2. IsFiniteSet(left)
  BY <1>1, FS_Interval, FS_Subset
<1>3. /\ Cardinality(left) \in Nat
      /\ \A n \in 1 .. Cardinality(left) : \E i \in left : place(i) = n
  <2> HIDE DEF left
  <2>1. /\ \A x, y \in left : <<x, y>> \in R \/ <<y, x>> \in R
        /\ \A x, y \in left : <<x, y>> \in R /\ <<y, x>> \in R => x = y
        /\ \A x, y, z \in left : <<x, y>> \in R /\ <<y, z>> \in R => <<x, z>> \in R
    BY <1>1
  <2> HIDE DEF R
  <2> QED BY <1>2, <2>1, Places
<1>4. \A n \in 1 .. Cardinality(left) : at(n) \in left /\ place(at(n)) = n
  BY <1>3
<1>5. SR!RouteChain = [n \in 1 .. Cardinality(left) |-> RouteFiles[at(n)]]
  <2>1. \A S : SR!Cardinality(S) = Cardinality(S)
    BY Zenon DEF SR!Cardinality, Cardinality, SR!IsFiniteSet, IsFiniteSet
  <2>2. \A i \in left : {j \in left : j <= i} = {j \in left : <<j, i>> \in R}
    BY <1>1
  <2>3. \A n : at(n) = CHOOSE i \in left : SR!Cardinality({j \in left : j <= i}) = n
    <3> HIDE DEF left
    <3>1. \A n : \A i \in left : place(i) = n <=> SR!Cardinality({j \in left : j <= i}) = n
      BY <2>1, <2>2
    <3> QED BY <3>1
  <2> DEFINE its(n) == CHOOSE i \in left : SR!Cardinality({j \in left : j <= i}) = n
  <2>4. SR!RouteChain = [n \in 1 .. SR!Cardinality(left) |-> RouteFiles[its(n)]]
    BY DEF SR!RouteChain
  <2>5. SR!Cardinality(left) = Cardinality(left)
    BY <2>1
  <2>6. \A n : at(n) = its(n)
    BY <2>3
  <2> HIDE DEF left, at, its
  <2> QED BY <2>4, <2>5, <2>6
<1> HIDE DEF at, place
<1>6. SR!RouteChain \in Seq(SR!Files) /\ DOMAIN SR!RouteChain = 1 .. Cardinality(left)
  BY <1>3, <1>4, <1>5, ChainAssumption
<1>7. \A n \in DOMAIN SR!RouteChain : SR!RouteChain[n] \notin SR!Range(RootFiles)
  BY <1>4, <1>5
<1>8. \A n, m \in DOMAIN SR!RouteChain : SR!RouteChain[n] = SR!RouteChain[m] => n = m
  <2>1. \A i, j \in left : RouteFiles[i] = RouteFiles[j] => i = j
    BY ChainAssumption DEF SR!IsInjective
  <2> QED BY <1>4, <1>5, <2>1
<1> QED BY <1>6, <1>7, <1>8, ChainAssumption DEF SR!Chain, SR!IsInjective

\* A stack that is not empty is what is below its top, and its top.
LEMMA Stacks ==
  ASSUME NEW F, NEW s \in Seq(F), s # <<>>
  PROVE  /\ Len(s) \in Nat \ {0} /\ Len(s) \in DOMAIN s /\ s[Len(s)] \in F
         /\ SubSeq(s, 1, Len(s) - 1) \in Seq(F) /\ Len(SubSeq(s, 1, Len(s) - 1)) = Len(s) - 1
         /\ \A n \in 1 .. Len(s) - 1 : SubSeq(s, 1, Len(s) - 1)[n] = s[n]
<1>1. Len(s) \in Nat \ {0} /\ Len(s) \in DOMAIN s
  BY EmptySeq
<1>2. s[Len(s)] \in F
  BY <1>1, ElementOfSeq
<1>3. /\ SubSeq(s, 1, Len(s) - 1) \in Seq(F) /\ Len(SubSeq(s, 1, Len(s) - 1)) = Len(s) - 1
      /\ \A n \in 1 .. Len(s) - 1 : SubSeq(s, 1, Len(s) - 1)[n] = s[n]
  <2> DEFINE l == Len(s) - 1
             t == SubSeq(s, 1, l)
  <2>1. l \in Nat /\ l \in Int /\ 1 \in Int /\ \A i \in 1 .. l : s[i] \in F
    BY <1>1, ElementOfSeq
  <2> HIDE DEF l
  <2>2. /\ t \in Seq(F) /\ Len(t) = IF 1 <= l THEN l - 1 + 1 ELSE 0
        /\ \A i \in 1 .. l - 1 + 1 : t[i] = s[1 + i - 1]
    BY <2>1, SubSeqProperties
  <2> HIDE DEF t
  <2>3. Len(t) = l /\ \A i \in 1 .. l : t[i] = s[i]
    BY <2>1, <2>2
  <2> QED BY <2>2, <2>3 DEF l, t
<1> QED BY <1>1, <1>2, <1>3

LEMMA RequestInit == Init => RequestInv
<1> SUFFICES ASSUME Init, which = "request" PROVE SR!Inv
  BY DEF RequestInv
<1>1. SR!Init
  BY DEF Init
<1>2. SR!TypeOK /\ SR!SentOnce
  BY <1>1 DEF SR!Init, SR!TypeOK, SR!SentOnce
<1>3. SR!OnlyTheTopDispatches
  BY <1>1 DEF SR!Init, SR!OnlyTheTopDispatches
<1>4. SR!RanBefore
  BY <1>1 DEF SR!Init, SR!RanBefore, SR!NothingRunsTwice, SR!AnswerStopsTheChain, SR!GoesOn,
              SR!Dispatching
<1> QED BY <1>2, <1>3, <1>4 DEF SR!Inv

\* The top of the stack, and the file it is at.
Frames == [chain : {"root", "route"}, i : Nat \ {0}, step : {"dispatch", "next"}]
LEMMA Tops ==
  ASSUME SR!Inv, v4 # <<>>
  PROVE  /\ v4 \in Seq(Frames) /\ SR!Top = v4[Len(v4)] /\ SR!Top \in Frames
         /\ Len(v4) \in Nat \ {0} /\ SR!Below \in Seq(Frames)
         /\ Len(SR!Below) = Len(v4) - 1
         /\ \A n \in 1 .. Len(v4) - 1 : SR!Below[n] = v4[n]
         /\ Len(SR!Chain(SR!Top.chain)) \in Nat
         /\ SR!Top.i \in 1 .. Len(SR!Chain(SR!Top.chain)) =>
              SR!Chain(SR!Top.chain)[SR!Top.i] \in SR!Files
<1>1. v4 \in Seq(Frames)
  BY DEF SR!Inv, SR!TypeOK, Frames
<1>2. SR!Top = v4[Len(v4)] /\ SR!Below = SubSeq(v4, 1, Len(v4) - 1)
  BY DEF SR!Top, SR!Below
<1> HIDE DEF Frames
<1>3. SR!Chain(SR!Top.chain) \in Seq(SR!Files)
  BY ChainsAreOnce
<1> QED BY <1>1, <1>2, <1>3, Stacks, ElementOfSeq

LEMMA RequestTypes ==
  ASSUME SR!Inv, SR!Next
  PROVE  SR!TypeOK' /\ SR!SentOnce'
<1> USE DEF SR!TypeOK, SR!SentOnce
<1>1. SR!TypeOK /\ SR!SentOnce
  BY DEF SR!Inv
<1>2. v4 \in Seq(Frames) /\ v3' = v3
  BY <1>1 DEF Frames, SR!Next, SR!Endpoint, SR!EndpointThrows, SR!RequestHooks, SR!RunLayer,
     SR!LayerReturns, SR!Resolve, SR!Handle, SR!Finalize, SR!ResponseHooks, SR!Caught, SR!Over,
     SR!vars
<1>3. \A c \in {"root", "route"} : \A i \in Nat \ {0} : SR!Call(c, i) \in Frames
  BY DEF SR!Call, Frames
<1>4. CASE v4 # <<>> /\ SR!RunLayer
  <2> DEFINE f == SR!Chain(SR!Top.chain)[SR!Top.i]
  <2>1. /\ SR!Top \in Frames /\ f \in SR!Files /\ SR!Top.i + 1 \in Nat \ {0}
        /\ SR!Top.chain \in {"root", "route"}
    BY <1>4, Tops DEF SR!RunLayer, SR!InChain, Frames
  <2>2. SR!Below \in Seq(Frames)
    BY <1>4, Tops
  <2>3. [SR!Top EXCEPT !.step = "next"] \in Frames
    BY <2>1 DEF Frames
  <2>4. SR!Call(SR!Top.chain, SR!Top.i + 1) \in Frames
    BY <1>3, <2>1
  <2>5. SR!Replaced([SR!Top EXCEPT !.step = "next"]) \in Seq(Frames) /\ SR!Rest \in Seq(Frames)
    BY <2>2, <2>3, <2>4, AppendProperties DEF SR!Replaced, SR!Rest
  <2>6. v4' \in Seq(Frames)
    <3>1. \/ v4' = SR!Pushed(SR!Replaced([SR!Top EXCEPT !.step = "next"]),
                             SR!Call(SR!Top.chain, SR!Top.i + 1))
          \/ v4' = SR!Below \/ v4' = SR!Rest \/ v4' = <<>>
      BY <1>4 DEF SR!RunLayer, SR!AnswerReturns
    <3>2. SR!Pushed(SR!Replaced([SR!Top EXCEPT !.step = "next"]),
                    SR!Call(SR!Top.chain, SR!Top.i + 1)) \in Seq(Frames)
      BY <2>4, <2>5, AppendProperties DEF SR!Pushed
    <3>3. <<>> \in Seq(Frames)
      BY EmptySeq
    <3> HIDE DEF Frames
    <3> QED BY <2>2, <2>5, <3>1, <3>2, <3>3
  <2>7. v7' \in Seq(SR!Files)
    BY <1>1, <1>4, <2>1 DEF SR!RunLayer
  <2>8. /\ v6 = "chain" /\ v6' \in {"chain", "caught"} /\ v8' = v8 /\ v9' = v9 /\ v1' = v1
    BY <1>4 DEF SR!RunLayer, SR!InChain, SR!Dispatching
  <2>9. SR!SentOnce'
    <3>1. v9 = 0 /\ v1 # "malformed"
      BY <1>1, <2>8
    <3> QED BY <2>8, <3>1
  <2> QED BY <1>1, <1>2, <2>6, <2>7, <2>8, <2>9 DEF Frames
<1>5. CASE v4 # <<>> /\ SR!LayerReturns
  <2>1. SR!Call(SR!Top.chain, SR!Top.i + 1) \in Frames /\ SR!Below \in Seq(Frames)
    <3>1. SR!Top \in Frames /\ SR!Below \in Seq(Frames)
      BY <1>5, Tops
    <3>2. SR!Top.chain \in {"root", "route"} /\ SR!Top.i + 1 \in Nat \ {0}
      BY <3>1 DEF Frames
    <3> QED BY <1>3, <3>1, <3>2
  <2>2. v4' \in Seq(Frames)
    <3>1. v4' = SR!Below \/ v4' = Append(SR!Below, SR!Call(SR!Top.chain, SR!Top.i + 1))
      BY <1>5 DEF SR!LayerReturns, SR!Rest, SR!Replaced
    <3> HIDE DEF Frames
    <3> QED BY <2>1, <3>1, AppendProperties
  <2> QED BY <1>1, <1>2, <1>5, <2>2 DEF SR!LayerReturns, Frames
<1>6. CASE v4 # <<>> /\ SR!Resolve
  <2>1. SR!Call("route", 1) \in Frames /\ SR!Below \in Seq(Frames)
    BY <1>3, <1>6, Tops
  <2>2. v4' \in Seq(Frames)
    BY <1>6, <2>1, AppendProperties DEF SR!Resolve, SR!Replaced
  <2> QED BY <1>1, <1>2, <1>6, <2>2 DEF SR!Resolve, SR!Dispatching, Frames
<1>7. CASE v4 # <<>> /\ SR!Handle
  <2>1. v4' \in Seq(Frames)
    BY <1>7, Tops, EmptySeq DEF SR!Handle
  <2> QED BY <1>1, <1>2, <1>7, <2>1 DEF SR!Handle, SR!Dispatching, Frames
<1>8. CASE SR!Endpoint \/ SR!EndpointThrows \/ SR!Finalize \/ SR!ResponseHooks \/ SR!Caught
  <2>1. CASE SR!Endpoint
    BY <1>1, <1>2, <2>1 DEF SR!Endpoint
  <2>2. CASE SR!EndpointThrows
    BY <1>1, <1>2, <2>2 DEF SR!EndpointThrows
  <2>3. CASE SR!Finalize
    BY <1>1, <1>2, <2>3 DEF SR!Finalize
  <2>4. CASE SR!ResponseHooks
    BY <1>1, <1>2, <2>4 DEF SR!ResponseHooks
  <2>5. CASE SR!Caught
    BY <1>1, <1>2, <2>5 DEF SR!Caught
  <2> QED BY <1>8, <2>1, <2>2, <2>3, <2>4, <2>5
<1>9. CASE SR!RequestHooks
  <2>1. SR!Call("root", 1) \in Frames
    BY <1>3
  <2>2. <<SR!Call("root", 1)>> \in Seq(Frames)
    BY <2>1
  <2>3. v4' \in Seq(Frames)
    BY <1>2, <1>9, <2>2 DEF SR!RequestHooks
  <2> QED BY <1>1, <1>2, <1>9, <2>3 DEF SR!RequestHooks, Frames
<1>10. CASE SR!Over
  BY <1>1, <1>10 DEF SR!Over, SR!vars
<1> QED BY <1>4, <1>5, <1>6, <1>7, <1>8, <1>9, <1>10 DEF SR!Next, SR!RunLayer, SR!InChain,
       SR!Dispatching, SR!LayerReturns, SR!Resolve, SR!Handle

\* Below the top of the stack are layers that await next().
LEMMA RequestStacks ==
  ASSUME SR!Inv, SR!Next
  PROVE  SR!OnlyTheTopDispatches'
<1> USE DEF SR!OnlyTheTopDispatches
<1> DEFINE awaits(a) == /\ a.i <= Len(SR!Chain(a.chain))
                        /\ v3[SR!Chain(a.chain)[a.i]] \in {"pass", "observe"}
<1>1. /\ SR!OnlyTheTopDispatches /\ SR!TypeOK
      /\ v3' = v3
  BY DEF SR!Inv, SR!Next, SR!Endpoint, SR!EndpointThrows, SR!RequestHooks, SR!RunLayer,
     SR!LayerReturns, SR!Resolve, SR!Handle, SR!Finalize, SR!ResponseHooks, SR!Caught, SR!Over,
     SR!vars
\* The stack without its top is as it should be, and so is that with an activation on it.
<1>2. ASSUME v4 # <<>>
      PROVE  /\ \A n \in DOMAIN SR!Below :
                  SR!Below[n].step = "next" /\ awaits(SR!Below[n])
             /\ \A n \in DOMAIN SR!Below : n \in 1 .. Len(v4) - 1
  <2>1. DOMAIN SR!Below = 1 .. Len(v4) - 1 /\ DOMAIN v4 = 1 .. Len(v4)
    BY <1>2, Tops, LenProperties
  <2>2. \A n \in 1 .. Len(v4) - 1 : n \in DOMAIN v4 /\ n < Len(v4) /\ SR!Below[n] = v4[n]
    BY <1>2, <2>1, Tops
  <2> QED BY <1>1, <2>1, <2>2
<1>3. ASSUME v4 # <<>>, NEW a \in Frames, a.step = "dispatch", v4' = SR!Replaced(a)
      PROVE  SR!OnlyTheTopDispatches'
  <2>1. v4' = Append(SR!Below, a) /\ SR!Below \in Seq(Frames)
    BY <1>3, Tops DEF SR!Replaced
  <2> HIDE DEF Frames
  <2>2. /\ Len(v4') = Len(SR!Below) + 1 /\ Len(SR!Below) \in Nat
        /\ \A n \in 1 .. Len(SR!Below) : v4'[n] = SR!Below[n]
        /\ v4'[Len(SR!Below) + 1] = a
        /\ DOMAIN SR!Below = 1 .. Len(SR!Below)
        /\ DOMAIN v4' = 1 .. Len(SR!Below) + 1
    BY <1>3, <2>1, AppendProperties, LenProperties
  <2>3. \A n \in DOMAIN v4' : n \in DOMAIN SR!Below \/ n = Len(SR!Below) + 1
    BY <2>2
  <2>4. ASSUME NEW n \in DOMAIN v4'
        PROVE  /\ n < Len(v4') => v4'[n].step = "next"
               /\ v4'[n].step = "next" => awaits(v4'[n])
    BY <1>2, <1>3, <2>2, <2>3
  <2> QED BY <1>1, <2>4
<1>4. ASSUME v4 # <<>>, v4' = SR!Below PROVE SR!OnlyTheTopDispatches'
  BY <1>1, <1>2, <1>4
<1>5. ASSUME v4' = <<>> PROVE SR!OnlyTheTopDispatches'
  BY <1>5
<1>6. CASE v4 # <<>> /\ SR!RunLayer
  <2> DEFINE t == [SR!Top EXCEPT !.step = "next"]
             c == SR!Call(SR!Top.chain, SR!Top.i + 1)
  <2>1. /\ SR!Top \in Frames /\ SR!Top.i <= Len(SR!Chain(SR!Top.chain))
        /\ c \in Frames /\ c.step = "dispatch"
        /\ t \in Frames /\ t.step = "next" /\ t.i = SR!Top.i /\ t.chain = SR!Top.chain
    <3>1. SR!Top \in Frames /\ SR!Top.i <= Len(SR!Chain(SR!Top.chain))
      BY <1>6, Tops DEF SR!RunLayer, SR!InChain
    <3>2. c \in Frames /\ c.step = "dispatch"
      BY <3>1 DEF Frames, SR!Call
    <3>3. t \in Frames /\ t.step = "next" /\ t.i = SR!Top.i /\ t.chain = SR!Top.chain
      BY <3>1 DEF Frames
    <3> QED BY <3>1, <3>2, <3>3
  <2>2. CASE v3[SR!Chain(SR!Top.chain)[SR!Top.i]] \in {"pass", "observe"}
             /\ v4' = SR!Pushed(SR!Replaced(t), c)
    <3> HIDE DEF Frames, c, t
    <3>1. v4' = Append(Append(SR!Below, t), c) /\ SR!Below \in Seq(Frames)
      BY <1>6, <2>2, Tops DEF SR!Replaced, SR!Pushed
    <3> DEFINE l == Len(SR!Below)
    <3>2. /\ Append(SR!Below, t) \in Seq(Frames) /\ Len(Append(SR!Below, t)) = l + 1
          /\ l \in Nat /\ DOMAIN SR!Below = 1 .. l
          /\ \A n \in 1 .. l : Append(SR!Below, t)[n] = SR!Below[n]
          /\ Append(SR!Below, t)[l + 1] = t
      BY <2>1, <3>1, AppendProperties, LenProperties
    <3>3. /\ Len(v4') = l + 2 /\ DOMAIN v4' = 1 .. l + 2
          /\ \A n \in 1 .. l : v4'[n] = SR!Below[n]
          /\ v4'[l + 1] = t /\ v4'[l + 2] = c
      BY <2>1, <3>1, <3>2, AppendProperties, LenProperties
    <3>4. awaits(t)
      BY <2>1, <2>2
    <3>5. \A n \in DOMAIN v4' : n \in DOMAIN SR!Below \/ n = l + 1 \/ n = l + 2
      BY <3>2, <3>3
    <3>6. ASSUME NEW n \in DOMAIN v4'
          PROVE  /\ n < Len(v4') => v4'[n].step = "next"
                 /\ v4'[n].step = "next" => awaits(v4'[n])
      BY <1>2, <1>6, <2>1, <3>2, <3>3, <3>4, <3>5
    <3> QED BY <1>1, <3>6
  <2>3. CASE v4' = SR!Below
    BY <1>4, <1>6, <2>3
  <2>4. CASE v4' = SR!Rest
    <3> HIDE DEF c, t, Frames
    <3>1. v4' = SR!Replaced(c)
      BY <2>4, Zenon DEF SR!Rest, c
    <3> QED BY <1>3, <1>6, <2>1, <3>1
  <2> QED BY <1>5, <1>6, <2>2, <2>3, <2>4 DEF SR!RunLayer, SR!AnswerReturns
<1>7. CASE v4 # <<>> /\ SR!LayerReturns
  <2>1. SR!Call(SR!Top.chain, SR!Top.i + 1) \in Frames
        /\ SR!Call(SR!Top.chain, SR!Top.i + 1).step = "dispatch"
    BY <1>7, Tops DEF Frames, SR!Call
  <2> QED BY <1>3, <1>4, <1>7, <2>1 DEF SR!LayerReturns, SR!Rest
<1>8. CASE v4 # <<>> /\ SR!Resolve
  <2>1. SR!Call("route", 1) \in Frames /\ SR!Call("route", 1).step = "dispatch"
    BY DEF Frames, SR!Call
  <2> QED BY <1>3, <1>4, <1>8, <2>1 DEF SR!Resolve
<1>9. CASE v4 # <<>> /\ SR!Handle
  BY <1>4, <1>5, <1>9 DEF SR!Handle
<1>10. CASE SR!RequestHooks
  <2>1. CASE v4' = <<SR!Call("root", 1)>>
    BY <2>1 DEF SR!Call
  <2> QED BY <1>1, <1>10, <2>1 DEF SR!RequestHooks
<1>11. CASE SR!Endpoint \/ SR!EndpointThrows \/ SR!Finalize \/ SR!ResponseHooks \/ SR!Caught \/ SR!Over
  BY <1>1, <1>11 DEF SR!Endpoint, SR!EndpointThrows, SR!Finalize, SR!ResponseHooks, SR!Caught,
     SR!Over, SR!vars
<1> QED BY <1>6, <1>7, <1>8, <1>9, <1>10, <1>11 DEF SR!Next, SR!RunLayer, SR!InChain,
       SR!Dispatching, SR!LayerReturns, SR!Resolve, SR!Handle

\* While no layer observes, what ran is before the top of the stack, and it has let the
\* request through; once the stack is left, nothing runs any more.
LEMMA RequestRuns ==
  ASSUME SR!Inv, SR!Next
  PROVE  SR!RanBefore'
<1> DEFINE quiet == \A f \in SR!Files : v3[f] # "observe"
           once(r, h) == h <= 1 /\ \A i, j \in DOMAIN r : r[i] = r[j] => i = j
           stops(r, h) == \A i \in DOMAIN r :
                            v3[r[i]] \in {"answer", "throw"} => i = Len(r) /\ h = 0
           through(r) == \A n \in DOMAIN r : v3[r[n]] \in {"pass", "silent"}
<1>1. SR!TypeOK /\ SR!OnlyTheTopDispatches /\ SR!RanBefore /\ v3' = v3
  BY DEF SR!Inv, SR!Next, SR!Endpoint, SR!EndpointThrows, SR!RequestHooks, SR!RunLayer,
     SR!LayerReturns, SR!Resolve, SR!Handle, SR!Finalize, SR!ResponseHooks, SR!Caught, SR!Over,
     SR!vars
<1> SUFFICES ASSUME quiet PROVE SR!RanBefore'
  BY <1>1 DEF SR!RanBefore
<1>2. /\ once(v7, v8) /\ stops(v7, v8)
      /\ SR!GoesOn => v8 = 0 /\ through(v7)
      /\ v6 \in {"endpoints", "hooks"} => v7 = <<>>
      /\ SR!Dispatching => SR!Range(v7) \subseteq SR!Before(SR!Top)
  BY <1>1 DEF SR!RanBefore, SR!NothingRunsTwice, SR!AnswerStopsTheChain
<1>3. ASSUME once(v7', v8'), stops(v7', v8'), SR!GoesOn' => v8' = 0 /\ through(v7'),
             v6' \in {"endpoints", "hooks"} => v7' = <<>>,
             SR!Dispatching' => SR!Range(v7)' \subseteq SR!Before(SR!Top)'
      PROVE  SR!RanBefore'
  BY <1>1, <1>3 DEF SR!RanBefore, SR!NothingRunsTwice, SR!AnswerStopsTheChain
\* What is on the stack below its top awaits.
<1>4. ASSUME v4 # <<>>, v4' = SR!Below PROVE ~SR!Dispatching'
  <2>1. CASE Len(v4) = 1
    <3>1. Len(v4') = 0 /\ v4' \in Seq(Frames)
      BY <1>4, <2>1, Tops
    <3> QED BY <3>1, EmptySeq DEF SR!Dispatching
  <2>2. CASE Len(v4) # 1
    <3>1. /\ Len(v4') = Len(v4) - 1 /\ Len(v4) - 1 \in 1 .. Len(v4) - 1
          /\ Len(v4) - 1 \in DOMAIN v4 /\ Len(v4) - 1 < Len(v4)
      BY <1>4, <2>2, Tops, LenProperties
    <3>2. v4'[Len(v4')].step = "next"
      BY <1>1, <1>4, <3>1, Tops DEF SR!OnlyTheTopDispatches
    <3> QED BY <3>2 DEF SR!Dispatching, SR!Top
  <2> QED BY <2>1, <2>2
<1>5. ASSUME v4 # <<>>, NEW a \in Frames, v4' = SR!Replaced(a) PROVE SR!Top' = a
  <2>1. v4' = Append(SR!Below, a) /\ SR!Below \in Seq(Frames)
    BY <1>5, Tops DEF SR!Replaced
  <2> HIDE DEF Frames
  <2>2. Len(v4') = Len(SR!Below) + 1 /\ v4'[Len(SR!Below) + 1] = a
    BY <1>5, <2>1, AppendProperties
  <2> QED BY <2>2 DEF SR!Top
\* A step that runs no layer, and after which none is about to run.
<1>6. ASSUME UNCHANGED <<v7, v8>>, ~SR!GoesOn' PROVE SR!RanBefore'
  BY <1>1, <1>2, <1>3, <1>6 DEF SR!GoesOn
<1>7. CASE v4 # <<>> /\ SR!RunLayer
  <2> DEFINE chain == SR!Chain(SR!Top.chain)
             f == chain[SR!Top.i]
             c == SR!Call(SR!Top.chain, SR!Top.i + 1)
  <2>1. /\ SR!Top \in Frames /\ c \in Frames /\ SR!Dispatching /\ SR!GoesOn
        /\ SR!Top.i \in 1 .. Len(chain) /\ f \in SR!Files /\ SR!Top.i \in DOMAIN chain
    <3>1. SR!Top \in Frames /\ SR!Dispatching /\ SR!GoesOn /\ SR!Top.i <= Len(chain)
      BY <1>7, Tops DEF SR!RunLayer, SR!InChain, SR!GoesOn
    <3>2. c \in Frames /\ SR!Top.i \in 1 .. Len(chain)
      BY <1>7, <3>1, Tops DEF Frames, SR!Call
    <3> QED BY <1>7, <3>1, <3>2, Tops, ChainsAreOnce, LenProperties
  \* It has not run, and it comes next.
  <2>2. f \notin SR!Before(SR!Top) /\ SR!Before(SR!Top) \cup {f} \subseteq SR!Before(c)
    <3>1. /\ c.chain = SR!Top.chain /\ c.i = SR!Top.i + 1 /\ SR!Top.i \in Nat
          /\ SR!Top.chain \in {"root", "route"}
      BY <2>1 DEF SR!Call, Frames
    <3>2. /\ \A i, j \in DOMAIN chain : chain[i] = chain[j] => i = j
          /\ DOMAIN chain \subseteq Nat
          /\ \A i \in DOMAIN SR!RouteChain : SR!RouteChain[i] \notin SR!Range(RootFiles)
      BY ChainsAreOnce, LenProperties
    <3>3. CASE SR!Top.chain = "root"
      <4>1. chain = RootFiles
        BY <3>3 DEF SR!Chain
      <4>2. SR!Before(SR!Top) = {RootFiles[n] : n \in {n \in DOMAIN RootFiles : n < SR!Top.i}}
        BY <3>3 DEF SR!Before
      <4>3. SR!Before(c) = {RootFiles[n] : n \in {n \in DOMAIN RootFiles : n < SR!Top.i + 1}}
        BY <3>1, <3>3 DEF SR!Before
      <4> HIDE DEF c
      <4> QED BY <2>1, <3>1, <3>2, <4>1, <4>2, <4>3
    <3>4. CASE SR!Top.chain = "route"
      <4>1. chain = SR!RouteChain
        BY <3>4 DEF SR!Chain
      <4>2. SR!Before(SR!Top) = {RootFiles[n] : n \in DOMAIN RootFiles}
              \cup {SR!RouteChain[n] : n \in {n \in DOMAIN SR!RouteChain : n < SR!Top.i}}
        BY <3>4 DEF SR!Before
      <4>3. SR!Before(c) = {RootFiles[n] : n \in DOMAIN RootFiles}
              \cup {SR!RouteChain[n] : n \in {n \in DOMAIN SR!RouteChain : n < SR!Top.i + 1}}
        BY <3>1, <3>4 DEF SR!Before
      <4>4. f \notin {RootFiles[n] : n \in DOMAIN RootFiles}
        BY <2>1, <3>2, <4>1 DEF SR!Range
      <4> HIDE DEF c
      <4> QED BY <2>1, <3>1, <3>2, <4>1, <4>2, <4>3, <4>4
    <3> QED BY <3>1, <3>3, <3>4
  <2>3. /\ v7' = Append(v7, f) /\ v7 \in Seq(SR!Files) /\ Len(v7) \in Nat
        /\ Len(v7') = Len(v7) + 1 /\ DOMAIN v7 = 1 .. Len(v7) /\ DOMAIN v7' = 1 .. Len(v7) + 1
        /\ \A n \in 1 .. Len(v7) : v7'[n] = v7[n] /\ v7[n] \in SR!Range(v7)
        /\ v7'[Len(v7) + 1] = f
        /\ SR!Range(v7)' = SR!Range(v7) \cup {f}
    <3>1. v7' = Append(v7, f) /\ v7 \in Seq(SR!Files)
      BY <1>1, <1>7 DEF SR!RunLayer, SR!TypeOK
    <3> HIDE DEF f
    <3>2. /\ Len(v7) \in Nat /\ Len(v7') = Len(v7) + 1 /\ DOMAIN v7 = 1 .. Len(v7)
          /\ DOMAIN v7' = 1 .. Len(v7) + 1
          /\ \A n \in 1 .. Len(v7) : v7'[n] = v7[n]
          /\ v7'[Len(v7) + 1] = f
      BY <2>1, <3>1, AppendProperties, LenProperties
    <3>3. /\ SR!Range(v7) = {v7[n] : n \in DOMAIN v7} /\ SR!Range(v7)' = {v7'[n] : n \in DOMAIN v7'}
      BY DEF SR!Range
    <3>4. SR!Range(v7)' = SR!Range(v7) \cup {f}
      BY <3>2, <3>3
    <3> QED BY <3>1, <3>2, <3>3, <3>4
  <2> HIDE DEF f, Frames
  <2>4. v8 = 0 /\ v8' = 0 /\ through(v7) /\ \A n \in 1 .. Len(v7) : v7[n] # f
    BY <1>2, <1>7, <2>1, <2>2, <2>3 DEF SR!RunLayer
  <2>5. once(v7', v8')
    BY <1>2, <2>3, <2>4
  <2>6. stops(v7', v8')
    BY <2>3, <2>4
  <2>7. CASE /\ v3[f] \in {"pass", "observe"} /\ UNCHANGED v6
             /\ v4' = SR!Pushed(SR!Replaced([SR!Top EXCEPT !.step = "next"]), c)
    <3>1. SR!Top' = c
      <4> DEFINE r == SR!Replaced([SR!Top EXCEPT !.step = "next"])
      <4>1. [SR!Top EXCEPT !.step = "next"] \in Frames
        BY <2>1 DEF Frames
      <4>2. r \in Seq(Frames)
        BY <1>7, <4>1, Tops, AppendProperties DEF SR!Replaced
      <4>3. v4' = Append(r, c)
        BY <2>7 DEF SR!Pushed
      <4> HIDE DEF r, c
      <4>4. Len(v4') = Len(r) + 1 /\ v4'[Len(r) + 1] = c
        BY <2>1, <4>2, <4>3, AppendProperties
      <4> QED BY <4>4 DEF SR!Top
    <3>2. v3[f] = "pass"
      BY <2>1, <2>7
    <3>3. through(v7')
      BY <2>3, <2>4, <3>2
    <3>4. SR!Range(v7)' \subseteq SR!Before(c)
      BY <1>2, <2>1, <2>2, <2>3
    <3>5. SR!Before(SR!Top)' = SR!Before(c)
      BY <3>1 DEF SR!Before
    <3>6. v6' = "chain"
      BY <2>1, <2>7 DEF SR!Dispatching
    <3> QED BY <1>3, <2>4, <2>5, <2>6, <3>3, <3>4, <3>5, <3>6
  <2>8. CASE v3[f] = "silent" /\ v4' = SR!Rest /\ UNCHANGED v6
    <3>1. SR!Top' = c
      BY <1>5, <1>7, <2>1, <2>8 DEF SR!Rest
    <3>3. through(v7')
      BY <2>3, <2>4, <2>8
    <3>4. SR!Range(v7)' \subseteq SR!Before(c)
      BY <1>2, <2>1, <2>2, <2>3
    <3>5. SR!Before(SR!Top)' = SR!Before(c)
      BY <3>1 DEF SR!Before
    <3>6. v6' = "chain"
      BY <2>1, <2>8 DEF SR!Dispatching
    <3> QED BY <1>3, <2>4, <2>5, <2>6, <3>3, <3>4, <3>5, <3>6
  <2>9. CASE v3[f] = "answer" /\ v4' = SR!Below /\ UNCHANGED v6
    <3>1. ~SR!Dispatching' /\ v6' = "chain"
      BY <1>4, <1>7, <2>1, <2>9 DEF SR!Dispatching
    <3> QED BY <1>3, <2>5, <2>6, <3>1 DEF SR!GoesOn
  <2>10. CASE v3[f] = "throw" /\ v6' = "caught"
    <3>1. ~SR!Dispatching' /\ ~SR!GoesOn'
      BY <2>10 DEF SR!Dispatching, SR!GoesOn
    <3> QED BY <1>3, <2>5, <2>6, <2>10, <3>1
  <2> QED BY <1>7, <2>7, <2>8, <2>9, <2>10 DEF SR!RunLayer, SR!AnswerReturns, f
<1>8. CASE v4 # <<>> /\ SR!LayerReturns
  <2>1. v3[SR!Chain(SR!Top.chain)[SR!Top.i]] \in {"pass", "observe"}
        /\ SR!Top.i <= Len(SR!Chain(SR!Top.chain))
    BY <1>1, <1>8, Tops, LenProperties DEF SR!OnlyTheTopDispatches, SR!LayerReturns
  <2>2. SR!Chain(SR!Top.chain)[SR!Top.i] \in SR!Files
    BY <1>8, <2>1, Tops DEF Frames
  <2>3. v4' = SR!Below
    BY <1>8, <2>1, <2>2 DEF SR!LayerReturns
  <2>4. ~SR!GoesOn' /\ UNCHANGED <<v7, v8>>
    BY <1>4, <1>8, <2>3 DEF SR!LayerReturns, SR!GoesOn
  <2> QED BY <1>6, <2>4
<1>9. CASE v4 # <<>> /\ SR!Resolve
  <2>1. CASE v4' = SR!Below
    <3>1. ~SR!GoesOn' /\ UNCHANGED <<v7, v8>>
      BY <1>4, <1>9, <2>1 DEF SR!Resolve, SR!Dispatching, SR!GoesOn
    <3> QED BY <1>6, <3>1
  <2>2. CASE v4' = SR!Replaced(SR!Call("route", 1))
    <3>1. SR!Call("route", 1) \in Frames
      BY DEF SR!Call, Frames
    <3>2. SR!Top' = SR!Call("route", 1)
      BY <1>5, <1>9, <2>2, <3>1
    <3>3. SR!Before(SR!Top) \subseteq SR!Before(SR!Call("route", 1))
      BY <1>9 DEF SR!Resolve, SR!Before, SR!Call
    <3>4. SR!Before(SR!Top)' = SR!Before(SR!Call("route", 1))
      BY <3>2 DEF SR!Before
    <3>5. SR!Range(v7)' = SR!Range(v7) /\ v7' = v7 /\ v8' = v8 /\ v6' = "chain" /\ SR!GoesOn
          /\ SR!Dispatching
      BY <1>9 DEF SR!Resolve, SR!Dispatching, SR!GoesOn, SR!Range
    <3> QED BY <1>2, <1>3, <3>3, <3>4, <3>5
  <2> QED BY <1>9, <2>1, <2>2 DEF SR!Resolve
<1>10. CASE v4 # <<>> /\ SR!Handle
  <2>1. ~SR!GoesOn' /\ v7' = v7 /\ v8' = 1 /\ v6' \in {"chain", "caught"} /\ through(v7)
    <3>1. v7' = v7 /\ v8' = v8 + 1 /\ SR!GoesOn /\ v6' \in {"chain", "caught"}
      BY <1>10 DEF SR!Handle, SR!GoesOn, SR!Dispatching
    <3>2. ~SR!GoesOn'
      BY <1>4, <1>10, EmptySeq DEF SR!Handle, SR!GoesOn, SR!Dispatching
    <3> QED BY <1>2, <3>1, <3>2
  <2> QED BY <1>2, <1>3, <2>1 DEF SR!GoesOn
<1>11. CASE SR!Endpoint
  <2>1. v7' = <<>> /\ v8' \in 0 .. 1 /\ v6' \in {"hooks", "done"} /\ (v6' = "hooks" => v8' = 0)
    BY <1>2, <1>11 DEF SR!Endpoint, SR!GoesOn
  <2> QED BY <1>3, <2>1 DEF SR!GoesOn, SR!Dispatching
<1>12. CASE SR!RequestHooks
  <2>1. v7' = <<>> /\ v8' = 0 /\ v6' \in {"chain", "caught"}
    BY <1>2, <1>12 DEF SR!RequestHooks, SR!GoesOn
  <2>2. SR!Range(v7)' = {}
    BY <2>1 DEF SR!Range
  <2> QED BY <1>3, <2>1, <2>2
<1>13. CASE SR!EndpointThrows \/ SR!Finalize \/ SR!ResponseHooks \/ SR!Caught
  <2>1. UNCHANGED <<v7, v8>> /\ v6' \in {"caught", "after", "done", "crashed"}
    BY <1>13 DEF SR!EndpointThrows, SR!Finalize, SR!ResponseHooks, SR!Caught
  <2> QED BY <1>6, <2>1 DEF SR!GoesOn, SR!Dispatching
<1>14. CASE SR!Over
  BY <1>1, <1>14 DEF SR!Over, SR!vars, SR!RanBefore, SR!NothingRunsTwice, SR!AnswerStopsTheChain,
     SR!GoesOn, SR!Dispatching, SR!Top, SR!Before, SR!Range
<1> QED BY <1>7, <1>8, <1>9, <1>10, <1>11, <1>12, <1>13, <1>14 DEF SR!Next, SR!RunLayer,
       SR!InChain, SR!Dispatching, SR!LayerReturns, SR!Resolve, SR!Handle

LEMMA RequestAlways == Spec => []RequestInv
<1>1. ASSUME RequestInv, [Next]_all PROVE RequestInv'
  <2> SUFFICES ASSUME which' = "request" PROVE SR!Inv'
    BY DEF RequestInv
  <2>1. which = "request" /\ [SR!Next]_request
    BY <1>1, RequestSteps
  <2>2. SR!Inv
    BY <1>1, <2>1 DEF RequestInv
  <2>3. CASE SR!Next
    BY <2>2, <2>3, RequestTypes, RequestStacks, RequestRuns DEF SR!Inv
  <2>4. CASE UNCHANGED request
    <3>1. SR!TypeOK' /\ SR!SentOnce'
      BY <2>2, <2>4 DEF request, SR!Inv, SR!TypeOK, SR!SentOnce
    <3>2. SR!OnlyTheTopDispatches'
      BY <2>2, <2>4 DEF request, SR!Inv, SR!OnlyTheTopDispatches
    <3>3. /\ v3' = v3 /\ v7' = v7 /\ v8' = v8 /\ v6' = v6 /\ SR!Top' = SR!Top /\ v4' = v4
          /\ SR!Range(v7)' = SR!Range(v7)
      BY <2>4 DEF request, SR!Top, SR!Range
    <3>4. SR!Before(SR!Top)' = SR!Before(SR!Top) /\ SR!GoesOn' = SR!GoesOn
          /\ SR!Dispatching' = SR!Dispatching
      BY <3>3 DEF SR!Before, SR!GoesOn, SR!Dispatching
    <3>5. SR!RanBefore'
      BY <2>2, <3>3, <3>4 DEF SR!Inv, SR!RanBefore, SR!NothingRunsTwice, SR!AnswerStopsTheChain
    <3> QED BY <3>1, <3>2, <3>5 DEF SR!Inv
  <2> QED BY <2>1, <2>3, <2>4
<1> QED BY <1>1, RequestInit, PTL DEF Spec

\* A request is answered once, and what ran of its middleware ran once and up to an answer.
LEMMA RequestSays ==
  RequestInv => SR_AnsweredOnce /\ SR_NothingRunsTwice /\ SR_AnswerStopsTheChain
<1> SUFFICES ASSUME RequestInv, which = "request"
             PROVE  SR!AnsweredOnce /\ SR!NothingRunsTwice /\ SR!AnswerStopsTheChain
  BY DEF SR_AnsweredOnce, SR_NothingRunsTwice, SR_AnswerStopsTheChain
<1>1. SR!Inv
  BY DEF RequestInv
<1>2. SR!AnsweredOnce
  BY <1>1 DEF SR!Inv, SR!TypeOK, SR!SentOnce, SR!AnsweredOnce
<1>3. SR!NothingRunsTwice /\ SR!AnswerStopsTheChain
  BY <1>1 DEF SR!Inv, SR!RanBefore, SR!NothingRunsTwice, SR!AnswerStopsTheChain
<1> QED BY <1>2, <1>3

-----------------------------------------------------------------------------
(* A request and the entries of the middleware engine.                     *)
EngineInv == which = "engine" => ME!Inv
engine == <<v1, v2, v3, v4, v5>>
Count == Len(Definitions)

LEMMA EngineSteps ==
  ASSUME [Next]_all, which' = "engine"
  PROVE  which = "engine" /\ [ME!Next]_engine
BY DEF Next, all, shared, engine

\* The entries are the definitions in their order, each once.
LEMMA EntriesInOrder ==
  /\ Count \in Nat /\ DOMAIN Definitions = 1 .. Count
  /\ Len(ME!Entries) = Count
  /\ \A n \in 1 .. Count : ME!Entries[n] \in 1 .. Count
  /\ \A m, n \in 1 .. Count :
       m < n => ME!Ahead(ME!Entries[m], ME!Entries[n]) /\ ME!Entries[m] # ME!Entries[n]
  /\ \A d \in 1 .. Count : \E n \in 1 .. Count : ME!Entries[n] = d
<1> DEFINE D == 1 .. Count
           R == {p \in D \X D : ME!Ahead(p[1], p[2])}
           place(d) == Cardinality({e \in D : <<e, d>> \in R})
           its(n) == CHOOSE d \in D : ME!Cardinality({e \in D : ME!Ahead(e, d)}) = n
<1>1. Count \in Nat /\ DOMAIN Definitions = D
  BY EngineAssumption, LenProperties DEF Count
<1>2. IsFiniteSet(D) /\ Cardinality(D) = Count
  BY <1>1, FS_Interval
<1>3. \A e, d \in D : <<e, d>> \in R <=> ME!Ahead(e, d)
  OBVIOUS
<1>4. /\ \A x, y \in D : <<x, y>> \in R \/ <<y, x>> \in R
      /\ \A x, y \in D : <<x, y>> \in R /\ <<y, x>> \in R => x = y
      /\ \A x, y, z \in D : <<x, y>> \in R /\ <<y, z>> \in R => <<x, z>> \in R
  <2>1. D \subseteq Nat /\ \A d \in D : Definitions[d].priority \in Int
    BY <1>1, EngineAssumption
  <2> HIDE DEF D, R
  <2> QED BY <1>3, <2>1 DEF ME!Ahead
<1>5. /\ \A n \in D : \E d \in D : place(d) = n
      /\ \A x, y \in D : place(x) < place(y) => <<x, y>> \in R /\ x # y
      /\ \A x, y \in D : place(x) = place(y) => x = y
      /\ \A d \in D : place(d) \in D
  <2> HIDE DEF D, R
  <2>1. /\ \A n \in 1 .. Cardinality(D) : \E x \in D : place(x) = n
        /\ \A x, y \in D : place(x) < place(y) => <<x, y>> \in R /\ x # y
        /\ \A x, y \in D : place(x) = place(y) => x = y
        /\ \A x \in D : place(x) \in 1 .. Cardinality(D)
    BY <1>2, <1>4, Places
  <2> QED BY <1>2, <2>1 DEF D
<1>6. ME!Entries = [n \in D |-> its(n)]
  BY <1>1 DEF ME!Entries
<1>7. \A d \in D : ME!Cardinality({e \in D : ME!Ahead(e, d)}) = place(d)
  <2>1. \A S : ME!Cardinality(S) = Cardinality(S)
    BY Zenon DEF ME!Cardinality, Cardinality, ME!IsFiniteSet, IsFiniteSet
  <2> HIDE DEF R
  <2>2. \A d \in D : {e \in D : ME!Ahead(e, d)} = {e \in D : <<e, d>> \in R}
    BY <1>3
  <2> QED BY <2>1, <2>2
<1>8. \A n \in D : its(n) \in D /\ place(its(n)) = n
  <2> HIDE DEF D, R, place
  <2> QED BY <1>5, <1>7
<1> HIDE DEF D, R, place, its
<1>9. Len(ME!Entries) = Count
  BY <1>1, <1>6 DEF D
<1>10. \A d \in D : \E n \in D : ME!Entries[n] = d
  BY <1>5, <1>6, <1>8
<1>11. \A m, n \in D : m < n => ME!Ahead(ME!Entries[m], ME!Entries[n])
                                 /\ ME!Entries[m] # ME!Entries[n]
  <2>1. ASSUME NEW m \in D, NEW n \in D, m < n
        PROVE  ME!Ahead(its(m), its(n)) /\ its(m) # its(n)
    <3>1. place(its(m)) < place(its(n)) /\ its(m) \in D /\ its(n) \in D
      BY <1>8, <2>1
    <3>2. <<its(m), its(n)>> \in R /\ its(m) # its(n)
      BY <1>5, <3>1
    <3> QED BY <1>3, <3>1, <3>2
  <2> QED BY <1>6, <2>1
<1> QED BY <1>1, <1>6, <1>8, <1>9, <1>10, <1>11 DEF D

LEMMA EngineInit == Init => EngineInv
<1> SUFFICES ASSUME Init, which = "engine" PROVE ME!Inv
  BY DEF EngineInv
<1>1. ME!Init /\ Count \in Nat
  BY EntriesInOrder DEF Init
<1>2. ME!TypeOK
  BY <1>1 DEF ME!Init, ME!TypeOK, Count
<1>3. ME!Passed = {} /\ ME!Range(v4) = {}
  BY <1>1 DEF ME!Init, ME!Passed, ME!Range
<1>4. ME!RanInOrder
  BY <1>1, <1>3 DEF ME!Init, ME!RanInOrder
<1> QED BY <1>2, <1>4 DEF ME!Inv

LEMMA EngineRounds ==
  ASSUME ME!Inv, ME!Round
  PROVE  ME!Inv'
<1> DEFINE d == ME!Entries[v3]
           D == 1 .. Count
<1>1. /\ v3 \in D /\ d \in D /\ v3' = v3 + 1 /\ v1' = v1 /\ v2' = v2
      /\ v5 = "running" /\ v4 \in Seq(D) /\ v2 \in [D -> Asks]
      /\ Count \in Nat
  BY EntriesInOrder DEF ME!Inv, ME!TypeOK, ME!Round, Count
<1>2. \A e : ME!Matches(e)' = ME!Matches(e)
  BY <1>1 DEF ME!Matches
<1>3. ME!Passed' = ME!Passed \cup {d}
  <2>1. 1 .. (v3' - 1) = (1 .. (v3 - 1)) \cup {v3}
    BY <1>1
  <2>2. ME!Passed' = {ME!Entries[n] : n \in 1 .. (v3' - 1)}
    BY DEF ME!Passed
  <2> QED BY <2>1, <2>2 DEF ME!Passed
<1>4. /\ ME!Range(v4) = {e \in ME!Passed : ME!Matches(e)}
      /\ \A i, j \in DOMAIN v4 : i < j => ME!Ahead(v4[i], v4[j]) /\ v4[i] # v4[j]
      /\ \A i \in DOMAIN v4 : v2[v4[i]] = "next"
  BY <1>1 DEF ME!Inv, ME!RanInOrder
<1>5. CASE ~ME!Matches(d)
  <2>1. v4' = v4 /\ v5' = v5
    BY <1>5 DEF ME!Round
  <2>2. ME!Range(v4)' = ME!Range(v4)
    BY <2>1 DEF ME!Range
  <2>3. ME!TypeOK'
    BY <1>1, <2>1 DEF ME!Inv, ME!TypeOK, Count
  <2>4. ME!Range(v4)' = {e \in ME!Passed' : ME!Matches(e)'}
    <3> HIDE DEF d
    <3> QED BY <1>2, <1>3, <1>4, <1>5, <2>2
  <2>5. ME!RanInOrder'
    BY <1>1, <1>4, <2>1, <2>4 DEF ME!RanInOrder, ME!Ahead
  <2> QED BY <2>3, <2>5 DEF ME!Inv
<1>6. CASE ME!Matches(d)
  <2>1. /\ v4' = Append(v4, d)
        /\ v5' = CASE v2[d] \in {"redirect", "rewrite"} -> v2[d]
                   [] v2[d] = "throw" -> "thrown"
                   [] v2[d] = "nothing" -> "next"
                   [] v2[d] = "next" -> "running"
    BY <1>6 DEF ME!Round
  <2>2. v2[d] \in {"next", "redirect", "rewrite", "nothing", "throw"}
    BY <1>1, EngineAssumption
  <2>3. /\ v5' \in {"running", "next", "redirect", "rewrite", "thrown"}
        /\ v5' = "running" <=> v2[d] = "next"
    BY <2>1, <2>2
  <2> HIDE DEF d, D
  <2>4. /\ v4' \in Seq(D) /\ Len(v4') = Len(v4) + 1 /\ Len(v4) \in Nat
        /\ DOMAIN v4 = 1 .. Len(v4) /\ DOMAIN v4' = 1 .. Len(v4) + 1
        /\ \A n \in 1 .. Len(v4) : v4'[n] = v4[n]
        /\ v4'[Len(v4) + 1] = d
    BY <1>1, <2>1, AppendProperties, LenProperties
  <2>5. ME!TypeOK'
    <3>1. v3' \in 1 .. (Count + 1)
      BY <1>1 DEF D
    <3> QED BY <1>1, <2>3, <2>4, <3>1, EntriesInOrder DEF ME!Inv, ME!TypeOK, Count, D
  <2>6. ME!Range(v4)' = ME!Range(v4) \cup {d}
    <3>1. ME!Range(v4)' = {v4'[n] : n \in DOMAIN v4'} /\ ME!Range(v4) = {v4[n] : n \in DOMAIN v4}
      BY DEF ME!Range
    <3> QED BY <2>4, <3>1
  <2>7. ME!Range(v4)' = {e \in ME!Passed' : ME!Matches(e)'}
    BY <1>2, <1>3, <1>4, <1>6, <2>6
  <2>8. \A i \in DOMAIN v4 : ME!Ahead(v4[i], d) /\ v4[i] # d
    <3>1. ASSUME NEW i \in DOMAIN v4 PROVE ME!Ahead(v4[i], d) /\ v4[i] # d
      <4>1. v4[i] \in ME!Passed
        BY <1>4, <3>1 DEF ME!Range
      <4>2. PICK m \in 1 .. (v3 - 1) : v4[i] = ME!Entries[m]
        BY <4>1 DEF ME!Passed
      <4>3. m \in 1 .. Count /\ v3 \in 1 .. Count /\ m < v3
        BY <1>1 DEF D
      <4> QED BY <4>2, <4>3, EntriesInOrder DEF d
    <3> QED BY <3>1
  <2>9. \A i, j \in DOMAIN v4' : i < j => ME!Ahead(v4'[i], v4'[j]) /\ v4'[i] # v4'[j]
    <3>1. ASSUME NEW i \in DOMAIN v4', NEW j \in DOMAIN v4', i < j
          PROVE  ME!Ahead(v4'[i], v4'[j]) /\ v4'[i] # v4'[j]
      <4>1. i \in DOMAIN v4 /\ v4'[i] = v4[i] /\ ((j \in DOMAIN v4 /\ v4'[j] = v4[j]) \/ v4'[j] = d)
        BY <2>4, <3>1
      <4> QED BY <1>4, <2>8, <3>1, <4>1
    <3> QED BY <3>1
  <2>10. v5' = "running" => \A i \in DOMAIN v4' : v2'[v4'[i]] = "next"
    BY <1>1, <1>4, <2>3, <2>4
  <2>11. v4' # <<>> /\ v4[Len(v4)]' = d
    BY <2>1, <2>4
  <2>12. ME!RanInOrder'
    BY <1>1, <2>3, <2>7, <2>9, <2>10, <2>11 DEF ME!RanInOrder, ME!Ahead
  <2> QED BY <2>5, <2>12 DEF ME!Inv
<1> QED BY <1>5, <1>6

LEMMA EngineAlways == Spec => []EngineInv
<1>1. ASSUME EngineInv, [Next]_all PROVE EngineInv'
  <2> SUFFICES ASSUME which' = "engine" PROVE ME!Inv'
    BY DEF EngineInv
  <2>1. which = "engine" /\ [ME!Next]_engine
    BY <1>1, EngineSteps
  <2>2. ME!Inv
    BY <1>1, <2>1 DEF EngineInv
  <2>3. CASE ME!Round
    BY <2>2, <2>3, EngineRounds
  <2>4. CASE v1' = v1 /\ v2' = v2 /\ v3' = v3 /\ v4' = v4
             /\ (v5' = v5 \/ (v3 > Count /\ v5' = "next"))
    <3>1. ME!TypeOK'
      BY <2>2, <2>4 DEF ME!Inv, ME!TypeOK
    <3>2. /\ ME!Range(v4)' = ME!Range(v4) /\ ME!Passed' = ME!Passed
          /\ \A e : ME!Matches(e)' = ME!Matches(e)
          /\ v4[Len(v4)]' = v4[Len(v4)]
      BY <2>4 DEF ME!Range, ME!Passed, ME!Matches
    <3>3. ME!RanInOrder'
      BY <2>2, <2>4, <3>2 DEF ME!Inv, ME!RanInOrder, ME!Ahead, Count
    <3> QED BY <3>1, <3>3 DEF ME!Inv
  <2>5. CASE ME!EndOfChain
    <3>1. v3 > Count
      BY <2>5, EntriesInOrder DEF ME!EndOfChain
    <3> QED BY <2>4, <2>5, <3>1 DEF ME!EndOfChain
  <2>6. CASE ME!Over \/ UNCHANGED engine
    <3>1. v1' = v1 /\ v2' = v2 /\ v3' = v3 /\ v4' = v4 /\ v5' = v5
      BY <2>6 DEF ME!Over, ME!vars, engine
    <3> QED BY <2>4, <3>1
  <2> QED BY <2>1, <2>3, <2>5, <2>6 DEF ME!Next
<1> QED BY <1>1, EngineInit, PTL DEF Spec

\* Once a request has left the chain it has met what matches it, up to the one that ended it.
LEMMA EngineRanks == ME!Inv => ME!HigherFirst
<1> DEFINE D == 1 .. Count
<1> SUFFICES ASSUME ME!Inv, v5 # "running"
             PROVE  /\ \A i, j \in DOMAIN v4 : i < j =>
                         \/ Definitions[v4[i]].priority > Definitions[v4[j]].priority
                         \/ /\ Definitions[v4[i]].priority = Definitions[v4[j]].priority
                            /\ v4[i] < v4[j]
                    /\ \A d \in {d \in DOMAIN Definitions : ME!Matches(d)} \ ME!Range(v4) :
                         /\ v4 # <<>> /\ v2[v4[Len(v4)]] # "next"
                         /\ \A i \in DOMAIN v4 :
                              Definitions[v4[i]].priority >= Definitions[d].priority
  BY DEF ME!HigherFirst
<1>1. /\ DOMAIN Definitions = D /\ Count \in Nat /\ v3 \in 1 .. (Count + 1)
      /\ \A d \in D : Definitions[d].priority \in Int
      /\ \A i \in DOMAIN v4 : v4[i] \in D
  BY EntriesInOrder, EngineAssumption, ElementOfSeq, LenProperties DEF ME!Inv, ME!TypeOK, Count
<1>2. /\ ME!Range(v4) = {e \in ME!Passed : ME!Matches(e)}
      /\ \A i, j \in DOMAIN v4 : i < j => ME!Ahead(v4[i], v4[j]) /\ v4[i] # v4[j]
      /\ v3 > Count \/ (v4 # <<>> /\ v2[v4[Len(v4)]] # "next")
  BY DEF ME!Inv, ME!RanInOrder, Count
<1>3. ASSUME NEW i \in DOMAIN v4, NEW j \in DOMAIN v4, i < j
      PROVE  \/ Definitions[v4[i]].priority > Definitions[v4[j]].priority
             \/ /\ Definitions[v4[i]].priority = Definitions[v4[j]].priority
                /\ v4[i] < v4[j]
  <2>1. ME!Ahead(v4[i], v4[j]) /\ v4[i] # v4[j] /\ v4[i] \in D /\ v4[j] \in D
    BY <1>1, <1>2, <1>3
  <2>2. v4[i] \in Nat /\ v4[j] \in Nat
    BY <2>1
  <2> QED BY <2>1, <2>2 DEF ME!Ahead
<1>4. ASSUME NEW d \in D, ME!Matches(d), d \notin ME!Range(v4)
      PROVE  /\ v4 # <<>> /\ v2[v4[Len(v4)]] # "next"
             /\ \A i \in DOMAIN v4 : Definitions[v4[i]].priority >= Definitions[d].priority
  <2>1. PICK n \in D : ME!Entries[n] = d
    BY EntriesInOrder
  <2>2. ~(n \in 1 .. (v3 - 1))
    BY <1>2, <1>4, <2>1 DEF ME!Passed
  <2>3. n >= v3 /\ n <= Count
    BY <1>1, <2>2
  <2>4. ~(v3 > Count)
    BY <1>1, <2>3
  <2>5. ASSUME NEW i \in DOMAIN v4
        PROVE  Definitions[v4[i]].priority >= Definitions[d].priority
    <3>1. v4[i] \in ME!Passed
      BY <1>2 DEF ME!Range
    <3>2. PICK m \in 1 .. (v3 - 1) : v4[i] = ME!Entries[m]
      BY <3>1 DEF ME!Passed
    <3>3. m \in D /\ m < n
      BY <1>1, <2>3, <3>2
    <3>4. ME!Ahead(v4[i], d)
      BY <2>1, <3>2, <3>3, EntriesInOrder
    <3> QED BY <1>1, <3>4 DEF ME!Ahead
  <2> QED BY <1>2, <2>4, <2>5
<1> QED BY <1>1, <1>3, <1>4

\* A set of numbers that is not empty has a least one.
LEMMA LeastNumber ==
  ASSUME NEW T \in SUBSET Nat, T # {}
  PROVE  \E x \in T : \A y \in T : x <= y
<1> DEFINE R == OpToRel(<, Nat)
<1>1. IsWellFoundedOn(R, Nat)
  BY NatLessThanWellFounded
<1>2. R = {s \in Nat \X Nat : s[1] < s[2]}
  BY DEF OpToRel
<1> HIDE DEF R
<1>3. PICK x \in T : \A y \in T : ~(<<y, x>> \in R)
  BY <1>1, WFMin
<1>4. \A y \in T : x <= y
  <2> SUFFICES ASSUME NEW y \in T, ~(x <= y) PROVE FALSE
    OBVIOUS
  <2>1. y < x /\ y \in Nat /\ x \in Nat
    OBVIOUS
  <2> QED BY <1>2, <1>3, <2>1
<1> QED BY <1>4

\* Where literals alone come before a part, each ends where its place is.
LEMMA LiteralsTakeOneEach ==
  ASSUME NEW k \in Nat, NEW cut, cut[0] = 0, \A i \in 1 .. k : cut[i] = cut[i - 1] + 1
  PROVE  \A i \in 0 .. k : cut[i] = i
<1> DEFINE others == {i \in 0 .. k : cut[i] # i}
<1> SUFFICES ASSUME others # {} PROVE FALSE
  OBVIOUS
<1>1. PICK i \in others : \A j \in others : i <= j
  <2>1. others \in SUBSET Nat
    OBVIOUS
  <2> HIDE DEF others
  <2> QED BY <2>1, LeastNumber
<1>2. i # 0
  BY <1>1
<1>3. i \in 1 .. k /\ i - 1 \in 0 .. k /\ i - 1 \notin others
  BY <1>1, <1>2
<1> QED BY <1>1, <1>3

LEMMA EngineTakes == ME!Inv => ME!TakesWhatItSays
<1> SUFFICES ASSUME ME!Inv, NEW d \in DOMAIN Definitions, NEW pattern \in Definitions[d].matcher,
                    pattern # <<>>, pattern[Len(pattern)].is # "literal",
                    \A i \in 1 .. (Len(pattern) - 1) : pattern[i].is = "literal"
             PROVE  LET k == Len(pattern) - 1 IN
                    ME!Test(pattern, v1) <=>
                      /\ Len(v1) >= k /\ \A i \in 1 .. k : v1[i] = pattern[i].segment
                      /\ Len(v1) - k \in ME!Meant(pattern[Len(pattern)]).least
                                           .. ME!Meant(pattern[Len(pattern)]).most
                      /\ ME!Meant(pattern[Len(pattern)]).plus => v1[Len(v1)].plussed
  <2>1. \A s : s \in Seq(ME!Range(s)) => Len(s) - 1 + 1 = Len(s)
    OBVIOUS
  <2> QED BY <2>1, EngineAssumption DEF ME!TakesWhatItSays
<1> DEFINE k == Len(pattern) - 1
           part == pattern[Len(pattern)]
           N == Len(v1)
<1>1. /\ Len(pattern) \in Nat /\ k \in Nat /\ Len(pattern) = k + 1 /\ N \in Nat
      /\ part = pattern[k + 1]
      /\ part.is \in {"[slug]", ":slug", "[...slug]", "[[...slug]]", ":path*", ":path+"}
  <2>1. pattern \in Seq(ME!Range(pattern)) /\ v1 \in Seq(ME!Range(v1))
    BY EngineAssumption DEF ME!Inv, ME!TypeOK
  <2>2. Len(pattern) \in Nat /\ Len(pattern) # 0 /\ N \in Nat /\ DOMAIN pattern = 1 .. Len(pattern)
    BY <2>1, EmptySeq, LenProperties
  <2>3. part = pattern[k + 1] /\ k + 1 \in DOMAIN pattern
    BY <2>2
  <2> QED BY <2>2, <2>3, EngineAssumption DEF ME!Notations
<1>2. /\ ME!Meant(part) = ME!Regex(part)
      /\ ME!Regex(part).least \in 0 .. 1 /\ ME!Regex(part).most \in {1, 99}
  BY <1>1 DEF ME!Meant, ME!Regex, ME!One, ME!Many
<1> HIDE DEF part
<1> DEFINE takes(cut, i) ==
             IF pattern[i].is = "literal"
               THEN cut[i] = cut[i - 1] + 1 /\ v1[cut[i]] = pattern[i].segment
               ELSE ME!Takes(v1, cut[i - 1] + 1, cut[i], ME!Regex(pattern[i]))
<1>3. ME!Test(pattern, v1) <=>
        \E cut \in [0 .. (k + 1) -> 0 .. N] :
          cut[0] = 0 /\ cut[k + 1] = N /\ \A i \in 1 .. (k + 1) : takes(cut, i)
  BY <1>1 DEF ME!Test
<1>4. \A cut : \A i \in 1 .. k :
        takes(cut, i) <=> cut[i] = cut[i - 1] + 1 /\ v1[cut[i]] = pattern[i].segment
  OBVIOUS
<1>5. ASSUME NEW cut \in [0 .. (k + 1) -> 0 .. N]
      PROVE  takes(cut, k + 1) <=>
               /\ cut[k + 1] - cut[k] \in ME!Regex(part).least .. ME!Regex(part).most
               /\ ME!Regex(part).plus => v1[cut[k + 1]].plussed
  <2>1. takes(cut, k + 1) <=> ME!Takes(v1, cut[k] + 1, cut[k + 1], ME!Regex(part))
    BY <1>1
  <2>2. cut[k] \in Nat /\ cut[k + 1] \in Nat
    BY <1>1
  <2>3. cut[k + 1] - (cut[k] + 1) + 1 = cut[k + 1] - cut[k]
    BY <2>2
  <2> QED BY <2>1, <2>3 DEF ME!Takes
<1> HIDE DEF k, N, takes
<1>6. ASSUME NEW cut \in [0 .. (k + 1) -> 0 .. N], cut[0] = 0, cut[k + 1] = N,
             \A i \in 1 .. (k + 1) : takes(cut, i)
      PROVE  /\ N >= k /\ \A i \in 1 .. k : v1[i] = pattern[i].segment
             /\ N - k \in ME!Regex(part).least .. ME!Regex(part).most
             /\ ME!Regex(part).plus => v1[N].plussed
  <2>1. \A i \in 1 .. k : cut[i] = cut[i - 1] + 1 /\ v1[cut[i]] = pattern[i].segment
    <3>1. ASSUME NEW i \in 1 .. k
          PROVE  cut[i] = cut[i - 1] + 1 /\ v1[cut[i]] = pattern[i].segment
      <4>1. takes(cut, i)
        BY <1>1, <1>6
      <4> QED BY <1>4, <4>1
    <3> QED BY <3>1
  <2>2. \A i \in 0 .. k : cut[i] = i
    <3>1. k \in Nat /\ cut[0] = 0 /\ \A i \in 1 .. k : cut[i] = cut[i - 1] + 1
      BY <1>1, <1>6, <2>1
    <3> QED BY <3>1, LiteralsTakeOneEach
  <2>3. cut[k] = k /\ cut[k] \in 0 .. N
    BY <1>1, <2>2
  <2>4. takes(cut, k + 1)
    BY <1>1, <1>6
  <2>5. N >= k /\ \A i \in 1 .. k : v1[i] = pattern[i].segment
    BY <1>1, <2>1, <2>2, <2>3
  <2>6. /\ cut[k + 1] - cut[k] \in ME!Regex(part).least .. ME!Regex(part).most
        /\ ME!Regex(part).plus => v1[cut[k + 1]].plussed
    BY <1>5, <2>4
  <2> QED BY <1>6, <2>3, <2>5, <2>6
<1>7. ASSUME N >= k, \A i \in 1 .. k : v1[i] = pattern[i].segment,
             N - k \in ME!Regex(part).least .. ME!Regex(part).most,
             ME!Regex(part).plus => v1[N].plussed
      PROVE  \E cut \in [0 .. (k + 1) -> 0 .. N] :
               cut[0] = 0 /\ cut[k + 1] = N /\ \A i \in 1 .. (k + 1) : takes(cut, i)
  <2> DEFINE cut == [i \in 0 .. (k + 1) |-> IF i <= k THEN i ELSE N]
  <2>1. /\ cut \in [0 .. (k + 1) -> 0 .. N] /\ cut[0] = 0 /\ cut[k + 1] = N /\ cut[k] = k
        /\ \A i \in 1 .. k : cut[i] = i /\ cut[i - 1] = i - 1
    BY <1>1, <1>7
  <2> HIDE DEF cut
  <2>2. \A i \in 1 .. k : takes(cut, i)
    <3>1. ASSUME NEW i \in 1 .. k PROVE takes(cut, i)
      <4>1. cut[i] = cut[i - 1] + 1 /\ v1[cut[i]] = pattern[i].segment
        BY <1>1, <1>7, <2>1
      <4> QED BY <1>4, <4>1
    <3> QED BY <3>1
  <2>3. takes(cut, k + 1)
    BY <1>5, <1>7, <2>1
  <2>4. \A i \in 1 .. (k + 1) : i \in 1 .. k \/ i = k + 1
    BY <1>1
  <2> QED BY <2>1, <2>2, <2>3, <2>4
<1> QED BY <1>2, <1>3, <1>6, <1>7 DEF k, N, part

\* Every request is answered once, but for one that cannot be read, which is not answered
\* at all; while no layer observes, no file of middleware runs twice
\* for it, nothing runs after the layer that answered, and the entries of the engine run in
\* the order of their priorities, each on the paths its matcher is written for.
THEOREM RequestsAreAnsweredOnce == Spec => []AnsweredOnce
<1>1. EngineInv => ME_HigherFirst /\ ME_TakesWhatItSays
  BY EngineRanks, EngineTakes DEF EngineInv, ME_HigherFirst, ME_TakesWhatItSays
<1>2. RequestInv /\ EngineInv => AnsweredOnce
  BY <1>1, RequestSays DEF AnsweredOnce
<1> QED BY <1>2, RequestAlways, EngineAlways, PTL
-----------------------------------------------------------------------------
(* Servers that look for a port.                                           *)
ListeningInv == which = "listening" => SL!Inv
listening == <<v1, v2, v3, v4, v5, v6, v7>>

\* A start prefers a number: the default port is one, and so is what is given before it.
LEMMA PreferredIsANumber == \A c \in Settings : SL!Preferred(c) \in Nat
<1> SUFFICES ASSUME NEW c \in Settings PROVE SL!Preferred(c) \in Nat
  OBVIOUS
<1> DEFINE s == <<c.option, c.env, IF c.mode = "development" THEN c.devPort ELSE c.startPort,
                  c.appPort, c.runtimePort, SL!DefaultPort>>
           given == {i \in DOMAIN s : s[i] # None}
<1>1. SL!Preferred(c) = s[SL!Min(given)]
  BY DEF SL!Preferred, SL!FirstGiven, SL!Candidates
<1>2. DOMAIN s = 1 .. 6 /\ s[6] = 1
  BY DEF SL!DefaultPort
<1>3. \A i \in 1 .. 6 : s[i] \in Nat \cup {None}
  BY ListeningAssumption DEF SL!DefaultPort
<1>4. 6 \in given /\ given \subseteq 1 .. 6
  BY <1>2, NoneAssumption
<1>5. \E i \in given : \A j \in given : i <= j
  <2> DEFINE least(i) == i \in given /\ \A j \in given : i <= j
  <2> HIDE DEF given
  <2>1. \A i \in given : i = 1 \/ i = 2 \/ i = 3 \/ i = 4 \/ i = 5 \/ i = 6
    BY <1>4
  <2> QED BY <1>4, <2>1
<1>6. SL!Min(given) \in given
  BY <1>5 DEF SL!Min
<1> QED BY <1>1, <1>3, <1>4, <1>6

LEMMA ListeningSteps ==
  ASSUME [Next]_all, which' = "listening"
  PROVE  which = "listening" /\ [SL!Next]_listening
BY DEF Next, all, shared, listening

LEMMA ListeningInit == Init => ListeningInv
<1> SUFFICES ASSUME Init, which = "listening" PROVE SL!Inv
  BY DEF ListeningInv
<1>1. SL!Init
  BY DEF Init
<1>2. SL!TypeOK
  BY <1>1, ListeningAssumption DEF SL!Init, SL!TypeOK, SL!Phases
<1>3. SL!PastPortsAreTaken
  BY <1>1 DEF SL!Init, SL!PastPortsAreTaken
<1>4. SL!OneIsInTheRace
  <2>1. PICK s \in Servers : TRUE
    BY ListeningAssumption
  <2>2. SL!StillInTheRace(s)
    BY <1>1 DEF SL!Init, SL!StillInTheRace
  <2> QED BY <2>2 DEF SL!OneIsInTheRace
<1> QED BY <1>2, <1>3, <1>4 DEF SL!Inv

LEMMA ListeningNext == ListeningInv /\ [Next]_all => ListeningInv'
<1> SUFFICES ASSUME ListeningInv, [Next]_all, which' = "listening" PROVE SL!Inv'
  BY DEF ListeningInv
<1>1. SL!Inv /\ [SL!Next]_listening
  BY ListeningSteps DEF ListeningInv
<1>2. SL!TypeOK /\ SL!PastPortsAreTaken /\ SL!OneIsInTheRace
  BY <1>1 DEF SL!Inv
<1>3. SL!TypeOK'
  <2> USE <1>2, ListeningAssumption DEF SL!TypeOK, SL!Phases
  <2>1. CASE UNCHANGED listening
    BY <2>1 DEF listening
  <2>2. ASSUME NEW s \in Servers, SL!Start(s) PROVE SL!TypeOK'
    BY <2>2, PreferredIsANumber DEF SL!Start
  <2>3. ASSUME NEW s \in Servers, SL!ProbeFails(s) PROVE SL!TypeOK'
    BY <2>3 DEF SL!ProbeFails, SL!NextPort
  <2>4. ASSUME NEW s \in Servers, SL!ProbeBinds(s) PROVE SL!TypeOK'
    BY <2>4 DEF SL!ProbeBinds, SL!Others
  <2>5. ASSUME NEW s \in Servers, SL!ProbeCloses(s) PROVE SL!TypeOK'
    BY <2>5 DEF SL!ProbeCloses, SL!ClosedFirst, SL!Others
  <2>6. ASSUME NEW s \in Servers, SL!AnyPort(s) PROVE SL!TypeOK'
    BY <2>6 DEF SL!AnyPort, SL!Others
  <2>7. ASSUME NEW s \in Servers, SL!GivesUp(s) PROVE SL!TypeOK'
    BY <2>7 DEF SL!GivesUp
  <2>8. ASSUME NEW s \in Servers, SL!Listen(s) PROVE SL!TypeOK'
    BY <2>8 DEF SL!Listen, SL!Others
  <2>9. ASSUME NEW s \in Servers, SL!Close(s) PROVE SL!TypeOK'
    BY <2>9 DEF SL!Close, SL!Others
  <2>10. CASE SL!Elsewhere
    <3>1. /\ v7 < MaxMoves /\ v7' = v7 + 1 /\ v6' = [s \in Servers |-> FALSE] /\ UNCHANGED <<v1, v2, v3, v4>>
          /\ \E p \in 1 .. MaxPort : v5' = v5 \cup {p} \/ v5' = v5 \ {p}
      BY <2>10 DEF SL!Elsewhere
    <3>2. v5' \subseteq 1 .. MaxPort
      BY <3>1
    <3> QED BY <3>1, <3>2
  <2> QED BY <1>1, <2>1, <2>2, <2>3, <2>4, <2>5, <2>6, <2>7, <2>8, <2>9, <2>10 DEF SL!Next
<1>4. SL!PastPortsAreTaken'
  <2> SUFFICES ASSUME NEW s \in Servers, v6'[s], (SL!From(s))' # 0, v2'[s] # "idle"
               PROVE  SL!PastIsTaken(s)'
    BY DEF SL!PastPortsAreTaken
  <2>1. v1' = v1 /\ (SL!From(s))' = SL!From(s) /\ (SL!Tried(s))' = SL!Tried(s) /\ SL!From(s) \in Nat
    <3>1. v1' = v1
      BY <1>1 DEF listening, SL!Next, SL!Start, SL!ProbeFails, SL!ProbeBinds, SL!ProbeCloses, SL!AnyPort,
                  SL!GivesUp, SL!Listen, SL!Close, SL!Elsewhere
    <3> QED BY <1>2, <3>1, PreferredIsANumber DEF SL!From, SL!Tried, SL!TypeOK
  \* What the others hold stays as it is.
  <2> DEFINE Still == /\ v5' = v5
                      /\ \A t \in Servers \ {s} : (SL!Binds(t))' = SL!Binds(t) /\ (SL!Binds(t) => v3'[t] = v3[t])
  <2>2. ASSUME Still PROVE \A p : (SL!Taken(s, p))' = SL!Taken(s, p)
    BY <2>2 DEF SL!Taken
  <2>3. ASSUME Still, v6[s], v2'[s] = v2[s], v3'[s] = v3[s], v4'[s] = v4[s]
        PROVE  SL!PastIsTaken(s)'
    <3>1. SL!PastIsTaken(s)
      BY <1>2, <2>1, <2>3 DEF SL!PastPortsAreTaken
    <3> QED BY <2>1, <2>2, <2>3, <3>1 DEF SL!PastIsTaken
  <2> HIDE DEF Still
  <2>4. CASE UNCHANGED listening
    BY <2>3, <2>4 DEF listening, Still, SL!Binds
  <2>5. ASSUME NEW t \in Servers, t # s,
               \/ SL!Start(t) \/ SL!ProbeFails(t) \/ SL!ProbeBinds(t) \/ SL!ProbeCloses(t)
               \/ SL!AnyPort(t) \/ SL!GivesUp(t) \/ SL!Listen(t) \/ SL!Close(t)
        PROVE  SL!PastIsTaken(s)'
    <3>1. SL!Start(t) \/ SL!GivesUp(t)
      BY <1>2, <2>5 DEF SL!TypeOK, SL!ProbeFails, SL!ProbeBinds, SL!ProbeCloses, SL!AnyPort,
                        SL!Listen, SL!Close, SL!Others
    <3>2. Still /\ v6[s] /\ v2'[s] = v2[s] /\ v3'[s] = v3[s] /\ v4'[s] = v4[s]
      BY <1>2, <2>5, <3>1 DEF SL!TypeOK, SL!Start, SL!GivesUp, SL!Binds, Still
    <3> QED BY <2>3, <3>2
  <2>6. CASE SL!Elsewhere
    BY <2>6 DEF SL!Elsewhere
  <2>7. ASSUME SL!Start(s) PROVE SL!PastIsTaken(s)'
    <3>1. v3'[s] = SL!From(s) /\ v4'[s] = 0 /\ v2'[s] = "looking"
      BY <1>2, <2>7 DEF SL!Start, SL!TypeOK, SL!From
    <3> QED BY <2>1, <3>1 DEF SL!PastIsTaken
  \* Its own steps keep it quiet only if it was.
  <2>8. ASSUME \/ SL!ProbeFails(s) \/ SL!ProbeBinds(s) \/ SL!ProbeCloses(s) \/ SL!AnyPort(s)
               \/ SL!GivesUp(s) \/ SL!Listen(s) \/ SL!Close(s)
        PROVE  SL!PastIsTaken(s)'
    <3>1. v6[s] /\ v2[s] # "idle"
      BY <1>2, <2>8 DEF SL!TypeOK, SL!ProbeFails, SL!ProbeBinds, SL!ProbeCloses, SL!AnyPort,
                        SL!GivesUp, SL!Listen, SL!Close, SL!Others
    <3>2. SL!PastIsTaken(s)
      BY <1>2, <2>1, <3>1 DEF SL!PastPortsAreTaken
    <3>3. Still
      BY <1>2, <2>8 DEF Still, SL!TypeOK, SL!ProbeFails, SL!NextPort, SL!ProbeBinds, SL!ProbeCloses, SL!AnyPort,
                        SL!GivesUp, SL!Listen, SL!Close, SL!Binds
    <3>4. \A p : (SL!Taken(s, p))' = SL!Taken(s, p)
      BY <2>2, <3>3
    <3>5. v3[s] \in Nat /\ v4[s] \in Nat /\ v4[s] <= MaxAttempts
      BY <1>2, <3>1, ListeningAssumption DEF SL!TypeOK
    <3>6. \A p : SL!Free(p) = ~(SL!Taken(s, p) \/ (SL!Binds(s) /\ v3[s] = p))
      BY DEF SL!Free, SL!Taken
    <3>7. CASE SL!ProbeFails(s)
      <4>1. v2[s] = "looking" /\ v3[s] \in 1 .. MaxPort /\ ~SL!Free(v3[s]) /\ SL!Taken(s, v3[s])
        BY <3>6, <3>7 DEF SL!ProbeFails, SL!Binds
      <4>2. CASE v1[s].fallback
        <5>1. v3'[s] = v3[s] + 1 /\ v4'[s] = v4[s] + 1 /\ v2'[s] = "looking"
          BY <1>2, <3>7, <4>1, <4>2 DEF SL!ProbeFails, SL!NextPort, SL!TypeOK
        <5> QED BY <2>1, <3>2, <3>4, <3>5, <4>1, <4>2, <5>1, ListeningAssumption DEF SL!PastIsTaken
      <4>3. CASE ~v1[s].fallback
        <5>1. v3'[s] = v3[s] /\ v4'[s] = v4[s] /\ v2'[s] = "failed"
          BY <1>2, <3>7, <4>1, <4>3 DEF SL!ProbeFails, SL!TypeOK
        <5>2. v3[s] = SL!From(s)
          BY <2>1, <3>2, <3>5, <4>3 DEF SL!PastIsTaken
        <5>3. \A p \in SL!Tried(s) : p = SL!From(s)
          BY <4>3 DEF SL!Tried
        <5> QED BY <2>1, <3>2, <3>4, <4>1, <5>1, <5>2, <5>3 DEF SL!PastIsTaken
      <4> QED BY <4>2, <4>3
    <3>8. CASE SL!ProbeBinds(s)
      <4>1. v2'[s] = "probed" /\ v3'[s] = v3[s] /\ v4'[s] = v4[s] /\ v4[s] < MaxAttempts /\ ~SL!Taken(s, v3[s])
        BY <1>2, <3>5, <3>6, <3>8, ListeningAssumption DEF SL!ProbeBinds, SL!TypeOK
      <4> QED BY <2>1, <3>2, <3>4, <4>1 DEF SL!PastIsTaken
    <3>9. CASE SL!ProbeCloses(s)
      <4>1. v2[s] = "probed" /\ v2'[s] = "binding" /\ v3'[s] = v3[s] /\ v4'[s] = v4[s]
        BY <1>2, <3>9 DEF SL!ProbeCloses, SL!ClosedFirst, SL!TypeOK
      <4> QED BY <2>1, <3>2, <3>4, <4>1 DEF SL!PastIsTaken
    <3>10. CASE SL!AnyPort(s)
      <4>1. v3[s] = 0
        BY <3>10 DEF SL!AnyPort
      <4> QED BY <2>1, <3>2, <3>5, <4>1 DEF SL!PastIsTaken
    <3>11. CASE SL!GivesUp(s)
      <4>1. /\ v2'[s] = "failed" /\ v3'[s] = v3[s] /\ v4'[s] = v4[s]
            /\ v4[s] = MaxAttempts \/ v3[s] \notin 0 .. MaxPort
        BY <1>2, <3>11 DEF SL!GivesUp, SL!Ports, SL!TypeOK
      <4>2. \A p \in SL!Tried(s) : p \in 1 .. MaxPort /\ p >= SL!From(s) /\ p < v3[s]
        BY <2>1, <3>2, <3>5, <4>1, ListeningAssumption DEF SL!Tried, SL!PastIsTaken
      <4> QED BY <2>1, <3>2, <3>4, <4>1, <4>2 DEF SL!PastIsTaken
    <3>12. CASE SL!Listen(s)
      <4>1. v2[s] = "binding" /\ v3'[s] = v3[s] /\ v4'[s] = v4[s]
        BY <3>12 DEF SL!Listen
      <4>2. SL!Free(v3[s])
        BY <3>2, <3>6, <4>1 DEF SL!PastIsTaken, SL!Binds
      <4>3. v2'[s] = "listening"
        BY <1>2, <3>12, <4>2 DEF SL!Listen, SL!TypeOK
      <4> QED BY <2>1, <3>2, <3>4, <4>1, <4>3 DEF SL!PastIsTaken
    <3>13. CASE SL!Close(s)
      BY <1>2, <3>13 DEF SL!Close, SL!TypeOK
    <3> QED BY <2>8, <3>7, <3>8, <3>9, <3>10, <3>11, <3>12, <3>13
  <2> QED BY <1>1, <2>4, <2>5, <2>6, <2>7, <2>8 DEF SL!Next
<1>5. SL!OneIsInTheRace'
  <2> SUFFICES ASSUME \A t \in Servers : (SL!From(t))' = SL!DefaultPort,
                      v7' = 0, SL!DefaultPort \notin v5'
               PROVE  \E t \in Servers : SL!StillInTheRace(t)'
    BY DEF SL!OneIsInTheRace
  <2>1. v1' = v1 /\ v7 = 0 /\ v5' = v5 /\ ~SL!Elsewhere /\ \A t \in Servers : ~SL!Close(t)
    BY <1>1, <1>2, ListeningAssumption DEF listening, SL!Next, SL!Start, SL!ProbeFails, SL!ProbeBinds, SL!ProbeCloses,
       SL!AnyPort, SL!GivesUp, SL!Listen, SL!Close, SL!Elsewhere, SL!TypeOK
  <2>2. PICK t \in Servers : SL!StillInTheRace(t)
    BY <1>2, <2>1 DEF SL!OneIsInTheRace, SL!From
  <2>3. SL!From(t) = SL!DefaultPort /\ SL!DefaultPort = 1 /\ 1 \in 1 .. MaxPort
    BY <2>1, ListeningAssumption DEF SL!From, SL!DefaultPort
  <2>4. CASE v2'[t] = v2[t] /\ v3'[t] = v3[t] /\ v4'[t] = v4[t]
    BY <2>2, <2>4 DEF SL!StillInTheRace
  <2>5. ASSUME \/ SL!Start(t) \/ SL!ProbeFails(t) \/ SL!ProbeBinds(t) \/ SL!ProbeCloses(t)
               \/ SL!AnyPort(t) \/ SL!GivesUp(t) \/ SL!Listen(t)
        PROVE  \E u \in Servers : SL!StillInTheRace(u)'
    <3>1. CASE SL!Start(t)
      BY <1>2, <2>3, <3>1 DEF SL!Start, SL!TypeOK, SL!StillInTheRace, SL!From
    \* Whoever has the port that t finds taken is one of the others.
    <3>2. CASE SL!ProbeFails(t)
      <4>1. PICK u \in Servers : SL!Binds(u) /\ v3[u] = 1
        BY <2>1, <2>2, <2>3, <3>2 DEF SL!ProbeFails, SL!StillInTheRace, SL!Free
      <4>2. u # t /\ v2'[u] = v2[u] /\ v3'[u] = v3[u]
        BY <1>2, <3>2, <4>1 DEF SL!ProbeFails, SL!Binds, SL!NextPort, SL!TypeOK
      <4> QED BY <2>3, <4>1, <4>2 DEF SL!Binds, SL!StillInTheRace
    <3>3. CASE SL!ProbeBinds(t)
      BY <1>2, <2>2, <2>3, <3>3 DEF SL!ProbeBinds, SL!TypeOK, SL!StillInTheRace
    <3>4. CASE SL!ProbeCloses(t)
      BY <1>2, <2>2, <2>3, <3>4 DEF SL!ProbeCloses, SL!ClosedFirst, SL!TypeOK, SL!StillInTheRace
    <3>5. CASE SL!AnyPort(t)
      BY <2>2, <2>3, <3>5 DEF SL!AnyPort, SL!StillInTheRace
    <3>6. CASE SL!GivesUp(t)
      BY <2>2, <2>3, <3>6, ListeningAssumption DEF SL!GivesUp, SL!Ports, SL!StillInTheRace
    <3>7. CASE SL!Listen(t)
      <4>1. v2[t] = "binding" /\ v3[t] = 1 /\ v3' = v3 /\ v4' = v4
        BY <2>2, <2>3, <3>7 DEF SL!Listen, SL!StillInTheRace
      <4>2. CASE SL!Free(1)
        BY <1>2, <2>3, <3>7, <4>1, <4>2 DEF SL!Listen, SL!TypeOK, SL!StillInTheRace
      <4>3. CASE ~SL!Free(1)
        <5>1. PICK u \in Servers : SL!Binds(u) /\ v3[u] = 1
          BY <2>1, <2>3, <4>3 DEF SL!Free
        <5>2. u # t /\ v2'[u] = v2[u]
          BY <1>2, <3>7, <4>1, <5>1 DEF SL!Listen, SL!Binds, SL!TypeOK
        <5> QED BY <2>3, <4>1, <5>1, <5>2 DEF SL!Binds, SL!StillInTheRace
      <4> QED BY <4>2, <4>3
    <3> QED BY <2>5, <3>1, <3>2, <3>3, <3>4, <3>5, <3>6, <3>7
  <2>6. ASSUME NEW s \in Servers, s # t,
               \/ SL!Start(s) \/ SL!ProbeFails(s) \/ SL!ProbeBinds(s) \/ SL!ProbeCloses(s)
               \/ SL!AnyPort(s) \/ SL!GivesUp(s) \/ SL!Listen(s)
        PROVE  v2'[t] = v2[t] /\ v3'[t] = v3[t] /\ v4'[t] = v4[t]
    BY <1>2, <2>6 DEF SL!TypeOK, SL!Start, SL!ProbeFails, SL!NextPort, SL!ProbeBinds, SL!ProbeCloses,
                      SL!AnyPort, SL!GivesUp, SL!Listen
  <2>7. CASE UNCHANGED listening
    BY <2>4, <2>7 DEF listening
  <2> QED BY <1>1, <2>1, <2>4, <2>5, <2>6, <2>7 DEF SL!Next
<1> QED BY <1>3, <1>4, <1>5 DEF SL!Inv

(* A start that nobody disturbs listens on the first free port that it may *)
(* try, and of those that race for one port one listens                    *)
(* (resolveAvailablePort and listenWithFallback of server.ts).             *)
THEOREM ServersListen == Spec => []StartsListen
<1>1. ListeningInv => StartsListen
  <2> SUFFICES ASSUME SL!Inv PROVE SL!LoneStartListens /\ SL!SomeStartListens
    BY DEF ListeningInv, StartsListen, SL_LoneStartListens, SL_SomeStartListens
  <2>1. SL!TypeOK /\ SL!PastPortsAreTaken /\ SL!OneIsInTheRace
    BY DEF SL!Inv
  <2>2. ASSUME NEW s \in Servers, v6[s], SL!From(s) # 0, v2[s] \in {"listening", "failed"}
        PROVE  /\ v2[s] = "listening" =>
                    v3[s] \in SL!Tried(s) /\ \A p \in SL!Tried(s) : p < v3[s] => SL!Taken(s, p)
               /\ v2[s] = "failed" => \A p \in SL!Tried(s) : SL!Taken(s, p)
    <3>1. SL!PastIsTaken(s)
      BY <2>1, <2>2 DEF SL!PastPortsAreTaken
    <3>2. SL!From(s) \in Nat /\ v4[s] \in Nat
      BY <2>1, PreferredIsANumber, ListeningAssumption DEF SL!From, SL!TypeOK
    <3>3. ASSUME v2[s] = "listening" PROVE v3[s] \in SL!Tried(s)
      BY <2>1, <3>1, <3>2, <3>3, ListeningAssumption DEF SL!Tried, SL!TypeOK, SL!PastIsTaken
    <3>4. \A p \in SL!Tried(s) : p \in 1 .. MaxPort /\ p >= SL!From(s)
      BY DEF SL!Tried
    <3> QED BY <3>1, <3>3, <3>4 DEF SL!PastIsTaken
  <2>3. SL!LoneStartListens
    BY <2>2 DEF SL!LoneStartListens
  <2>4. SL!SomeStartListens
    BY <2>1 DEF SL!SomeStartListens, SL!OneIsInTheRace, SL!StillInTheRace
  <2> QED BY <2>3, <2>4
<1> QED BY <1>1, ListeningInit, ListeningNext, PTL DEF Spec

-----------------------------------------------------------------------------
(* Routing.  Its facts are those of Routing_proofs, for the pages and the  *)
(* request that the router is asked about.                                 *)
Routes == INSTANCE Routing_proofs WITH
  pages <- v1, path <- v2, intercept <- v3, answer <- v4, MaxPages <- PoolPages,
  Paths <- PoolPaths

\* They are about the same router, definition by definition.
LEMMA SameRoutes ==
  /\ \A f : RT!Range(f) = Routes!Range(f)
  /\ RT!WellFormed = Routes!WellFormed
  /\ RT!Inv = Routes!Inv
  /\ RT!AnswerCovers = Routes!AnswerCovers
  /\ RT!OrderDoesNotMatter = Routes!OrderDoesNotMatter
  /\ RT!ExactPageWins = Routes!ExactPageWins
  /\ RT!SlotsAreTheirOwn = Routes!SlotsAreTheirOwn
  /\ RT!AdapterAgrees = Routes!AdapterAgrees
<1>1. \A s : RT!Transparent(s) = Routes!Transparent(s)
  BY DEF RT!Transparent, Routes!Transparent
<1>2. RT!CatchAllTakes = Routes!CatchAllTakes
  BY DEF RT!CatchAllTakes, Routes!CatchAllTakes
<1>3. \A S : RT!Max(S) = Routes!Max(S)
  BY DEF RT!Max, Routes!Max
<1>4. \A S : RT!Min(S) = Routes!Min(S)
  BY DEF RT!Min, Routes!Min
<1>5. \A f : RT!Range(f) = Routes!Range(f)
  BY DEF RT!Range, Routes!Range
<1>6. \A p : RT!Pathname(p) = Routes!Pathname(p)
  BY <1>1 DEF RT!Pathname, Routes!Pathname
<1>7. \A p, k : RT!Directories(p, k) = Routes!Directories(p, k)
  BY DEF RT!Directories, Routes!Directories
<1>8. \A p : RT!SlotName(p) = Routes!SlotName(p)
  BY <1>7, <1>3 DEF RT!SlotName, Routes!SlotName
<1>9. \A p : RT!InterceptTarget(p) = Routes!InterceptTarget(p)
  BY <1>7, <1>3 DEF RT!InterceptTarget, Routes!InterceptTarget
<1>10. \A p : RT!Shown(p) = Routes!Shown(p)
  BY <1>6 DEF RT!Shown, Routes!Shown
<1>11. \A p : RT!ConflictKey(p) = Routes!ConflictKey(p)
  BY <1>10, <1>8, <1>9 DEF RT!ConflictKey, Routes!ConflictKey
<1>12. \A ps : RT!NoConflicts(ps) = Routes!NoConflicts(ps)
  BY <1>11 DEF RT!NoConflicts, Routes!NoConflicts
<1>13. \A s : RT!Total(s) = Routes!Total(s)
  BY DEF RT!Total, Routes!Total
<1>14. \A p : RT!ScanScore(p) = Routes!ScanScore(p)
  BY <1>13 DEF RT!ScanScore, Routes!ScanScore
<1>15. \A ps, i, j : RT!Scanned(ps, i, j) = Routes!Scanned(ps, i, j)
  BY <1>14 DEF RT!Scanned, Routes!Scanned
<1>16. \A p : RT!IsPrimary(p) = Routes!IsPrimary(p)
  BY <1>8, <1>9 DEF RT!IsPrimary, Routes!IsPrimary
<1>17. \A ps, p : RT!Canonical(ps, p) = Routes!Canonical(ps, p)
  <2> SUFFICES ASSUME NEW ps, NEW p PROVE RT!Canonical(ps, p) = Routes!Canonical(ps, p)
    OBVIOUS
  <2> DEFINE as == {q \in RT!Range(ps) : RT!IsPrimary(q) /\ RT!Shown(q) = RT!Shown(p)}
             bs == {q \in Routes!Range(ps) : Routes!IsPrimary(q) /\ Routes!Shown(q) = Routes!Shown(p)}
  <2>1. as = bs
    BY <1>5, <1>16, <1>10
  <2>2. /\ RT!Canonical(ps, p) = IF as = {} THEN p ELSE CHOOSE q \in as : TRUE
        /\ Routes!Canonical(ps, p) = IF bs = {} THEN p ELSE CHOOSE q \in bs : TRUE
    BY DEF RT!Canonical, Routes!Canonical
  <2> HIDE DEF as, bs
  <2> QED BY <2>1, <2>2
<1>18. \A s, n, t : RT!Taken(s, n, t) = Routes!Taken(s, n, t)
  BY <1>1, <1>2 DEF RT!Taken, Routes!Taken
<1>19. \A s, t : RT!MatchSegments(s, t) = Routes!MatchSegments(s, t)
  BY <1>18 DEF RT!MatchSegments, Routes!MatchSegments
<1>20. \A s, m : RT!SegmentScore(s, m) = Routes!SegmentScore(s, m)
  BY <1>1 DEF RT!SegmentScore, Routes!SegmentScore
<1>21. \A p, m : RT!SumScores(p, m) = Routes!SumScores(p, m)
  BY <1>13, <1>20 DEF RT!SumScores, Routes!SumScores
<1>22. \A p, m : RT!Score(p, m) = Routes!Score(p, m)
  BY <1>21, <1>8, <1>9 DEF RT!Score, Routes!Score
<1>23. \A l, r, m : RT!Compare(l, r, m) = Routes!Compare(l, r, m)
  BY <1>22, <1>8, <1>9 DEF RT!Compare, Routes!Compare
<1>24. \A ps, t : RT!Candidates(ps, t) = Routes!Candidates(ps, t)
  BY <1>19 DEF RT!Candidates, Routes!Candidates
<1>25. \A ps, i, j, m : RT!Before(ps, i, j, m) = Routes!Before(ps, i, j, m)
  BY <1>23, <1>15 DEF RT!Before, Routes!Before
<1>26. \A k, p, m : RT!Wanted(k, p, m) = Routes!Wanted(k, p, m)
  BY <1>8, <1>9, <1>16 DEF RT!Wanted, Routes!Wanted
<1>27. \A ps, f, m : RT!Primary(ps, f, m) = Routes!Primary(ps, f, m)
  <2> SUFFICES ASSUME NEW ps, NEW f, NEW m PROVE RT!Primary(ps, f, m) = Routes!Primary(ps, f, m)
    OBVIOUS
  <2> DEFINE ka == RT!Min({k \in 1 .. 4 : \E i \in f : RT!Wanted(k, ps[i], m)})
             kb == Routes!Min({k \in 1 .. 4 : \E i \in f : Routes!Wanted(k, ps[i], m)})
             wa == {i \in f : RT!Wanted(ka, ps[i], m)}
             wb == {i \in f : Routes!Wanted(kb, ps[i], m)}
             as == {i \in wa : \A j \in wa : RT!Before(ps, i, j, m)}
             bs == {i \in wb : \A j \in wb : Routes!Before(ps, i, j, m)}
  <2>1. RT!Primary(ps, f, m) = ps[CHOOSE i \in as : TRUE]
    BY DEF RT!Primary
  <2>2. Routes!Primary(ps, f, m) = ps[CHOOSE i \in bs : TRUE]
    BY DEF Routes!Primary
  <2>3. ka = kb
    BY <1>4, <1>26
  <2> HIDE DEF ka, kb
  <2>4. wa = wb
    BY <1>26, <2>3
  <2> HIDE DEF wa, wb
  <2>5. as = bs
    BY <1>25, <2>4
  <2> HIDE DEF as, bs
  <2> QED BY <2>1, <2>2, <2>5
<1>28. \A ps, f, p : RT!Parallel(ps, f, p) = Routes!Parallel(ps, f, p)
  BY <1>8, <1>17, <1>9 DEF RT!Parallel, Routes!Parallel
<1>29. \A w : RT!NoAnswer(w) = Routes!NoAnswer(w)
  BY DEF RT!NoAnswer, Routes!NoAnswer
<1>30. \A ps, t, m : RT!Match(ps, t, m) = Routes!Match(ps, t, m)
  BY <1>24, <1>29, <1>27, <1>28 DEF RT!Match, Routes!Match
<1>31. RT!Segments = Routes!Segments
  BY <1>5 DEF RT!Segments, Routes!Segments
<1>32. RT!WellFormed = Routes!WellFormed
  BY <1>31 DEF RT!WellFormed, Routes!WellFormed
<1>33. \A p, i : RT!OneSegment(p, i) = Routes!OneSegment(p, i)
  BY <1>6 DEF RT!OneSegment, Routes!OneSegment
<1>34. \A p : RT!AdapterMatches(p) = Routes!AdapterMatches(p)
  BY <1>6, <1>33 DEF RT!AdapterMatches, Routes!AdapterMatches
<1>35. RT!Matched = Routes!Matched
  BY DEF RT!Matched, Routes!Matched
<1>36. \A s, t : RT!Covers(s, t) = Routes!Covers(s, t)
  BY DEF RT!Covers, Routes!Covers
<1>37. \A S : RT!Cardinality(S) = Routes!Cardinality(S)
  BY Zenon DEF RT!Cardinality, Routes!Cardinality
<1>38. \A p : RT!ManyGroups(p) = Routes!ManyGroups(p)
  BY <1>6 DEF RT!ManyGroups, Routes!ManyGroups
<1>39. RT!Inv = Routes!Inv
  BY <1>29, <1>12, <1>30 DEF RT!Inv, Routes!Inv
<1>40. RT!AnswerCovers = Routes!AnswerCovers
  BY <1>35, <1>36, <1>6 DEF RT!AnswerCovers, Routes!AnswerCovers
<1>41. RT!OrderDoesNotMatter = Routes!OrderDoesNotMatter
  BY <1>35, <1>5, <1>30 DEF RT!OrderDoesNotMatter, Routes!OrderDoesNotMatter
<1>42. RT!ExactPageWins = Routes!ExactPageWins
  BY <1>38, <1>16, <1>6, <1>35, <1>5, <1>36 DEF RT!ExactPageWins, Routes!ExactPageWins
<1>43. RT!SlotsAreTheirOwn = Routes!SlotsAreTheirOwn
  BY <1>35, <1>8, <1>37, <1>5, <1>36, <1>6 DEF RT!SlotsAreTheirOwn, Routes!SlotsAreTheirOwn
<1>44. RT!AdapterAgrees = Routes!AdapterAgrees
  BY <1>5, <1>35, <1>34 DEF RT!AdapterAgrees, Routes!AdapterAgrees
<1> QED BY <1>5, <1>32, <1>39, <1>40, <1>41, <1>42, <1>43, <1>44

RoutingInv == which = "routing" => RT!Inv
routing == <<v1, v2, v3, v4>>

LEMMA RoutingSteps ==
  ASSUME [Next]_all, which' = "routing"
  PROVE  which = "routing" /\ [RT!Next]_routing
BY DEF Next, all, shared, routing

\* The answer is the match of the request.
LEMMA RoutingInit == Init => RoutingInv
<1> SUFFICES ASSUME RT!Init PROVE RT!Inv
  BY DEF Init, RoutingInv
<1>1. PICK n \in 0 .. PoolPages : v1 \in {s \in [1 .. n -> DOMAIN Pool] : RT!IsInjective(s)}
  BY DEF RT!Init
<1>2. v1 \in [1 .. n -> DOMAIN Pool]
  BY <1>1
<1> QED BY <1>2 DEF RT!Init, RT!Inv

LEMMA RoutingNext == RoutingInv /\ [Next]_all => RoutingInv'
<1> SUFFICES ASSUME RoutingInv, [Next]_all, which' = "routing" PROVE RT!Inv'
  BY DEF RoutingInv
<1>1. RT!Inv /\ [RT!Next]_routing
  BY RoutingSteps DEF RoutingInv
<1>2. CASE RT!Answer
  BY <1>1, <1>2 DEF RT!Answer, RT!Inv
<1>3. CASE UNCHANGED routing
  BY <1>1, <1>3 DEF RT!Inv, routing
<1> QED BY <1>1, <1>2, <1>3 DEF RT!Next, RT!Served, RT!vars, routing

LEMMA RoutingSays ==
  RoutingInv => /\ RT_AnswerCovers /\ RT_OrderDoesNotMatter /\ RT_ExactPageWins
                /\ RT_SlotsAreTheirOwn /\ RT_AdapterAgrees
<1> SUFFICES ASSUME RT!Inv
             PROVE  /\ RT!AnswerCovers /\ RT!OrderDoesNotMatter /\ RT!ExactPageWins
                    /\ RT!SlotsAreTheirOwn /\ RT!AdapterAgrees
  BY DEF RoutingInv, RT_AnswerCovers, RT_OrderDoesNotMatter, RT_ExactPageWins,
         RT_SlotsAreTheirOwn, RT_AdapterAgrees
<1>1. v2 \in Seq(Routes!Range(v2))
  BY SameRoutes, RoutesAssumption DEF RT!Inv
<1>2. Routes!PathIsSequence
  BY <1>1 DEF Routes!PathIsSequence
<1>3. Routes!WellFormed /\ Routes!Inv
  BY SameRoutes, RoutesAssumption
<1>4. Routes!AnswerCovers
  BY <1>2, <1>3, Routes!AnswersCover
<1>5. Routes!OrderDoesNotMatter
  BY <1>3, Routes!OrdersAgree
<1>6. Routes!ExactPageWins
  BY <1>2, <1>3, Routes!ExactWins
<1>7. Routes!SlotsAreTheirOwn
  BY <1>2, <1>3, Routes!SlotsAreOwn
<1>8. Routes!AdapterAgrees
  BY <1>2, <1>3, Routes!AdaptersAgree
<1> QED BY <1>4, <1>5, <1>6, <1>7, <1>8, SameRoutes

-----------------------------------------------------------------------------
(* The flight of a page.                                                   *)
FlightInv == which = "flight" => FE!OnlyTheWholeEnds
flightVars == <<v1, v2, v3, v4, v5, v6, v7, v8, v9, v10, v11>>

LEMMA FlightSteps ==
  ASSUME [Next]_all, which' = "flight"
  PROVE  which = "flight" /\ [FE!Next]_flightVars
BY DEF Next, all, shared, flightVars

LEMMA FlightInit == Init => FlightInv
BY DEF Init, FlightInv, FE!Init, FE!OnlyTheWholeEnds

LEMMA FlightNext == FlightInv /\ [Next]_all => FlightInv'
<1> SUFFICES ASSUME FlightInv, [Next]_all, which' = "flight" PROVE FE!OnlyTheWholeEnds'
  BY DEF FlightInv
<1>1. FE!OnlyTheWholeEnds /\ [FE!Next]_flightVars
  BY FlightSteps DEF FlightInv
<1> USE <1>1 DEF FE!OnlyTheWholeEnds, FE!pump
<1>2. CASE UNCHANGED flightVars
  BY <1>2 DEF flightVars
<1>3. CASE FE!Document
  <2>1. v6 = "document" /\ v6' \in {"linked", "done"} /\ UNCHANGED <<v8, v9, v10>>
    BY <1>3 DEF FE!Document
  <2> QED BY <2>1
<1>4. CASE FE!Refuse
  BY <1>4 DEF FE!Refuse
<1>5. CASE FE!Ask
  <2>1. /\ v6 = "linked" /\ UNCHANGED <<v8, v10>>
        /\ (v6' \in {"canonical", "legacy"} /\ v9' = v9) \/ v6' = "refused"
    BY <1>5 DEF FE!Ask
  <2> QED BY <2>1
<1>6. CASE FE!Legacy
  BY <1>6 DEF FE!Legacy
<1>7. CASE FE!StartPump
  BY <1>7 DEF FE!StartPump
<1>8. CASE FE!Pump
  BY <1>8 DEF FE!Pump, FE!Pumping
<1>9. CASE FE!PumpEnds
  BY <1>9 DEF FE!PumpEnds, FE!Pumping
<1>10. CASE FE!PumpFails
  BY <1>10 DEF FE!PumpFails, FE!Pumping, FE!Destroyed
<1>11. CASE FE!Drain
  BY <1>11 DEF FE!Drain
<1>12. CASE FE!Leave
  BY <1>12 DEF FE!Leave
<1>13. CASE FE!Closed
  BY <1>13 DEF FE!Closed, FE!Cancels
<1>14. CASE FE!Over
  BY <1>14 DEF FE!Over, FE!vars, FE!request
<1> QED BY <1>1, <1>2, <1>3, <1>4, <1>5, <1>6, <1>7, <1>8, <1>9, <1>10, <1>11, <1>12, <1>13, <1>14 DEF FE!Next

\* The router of the flight, over its own pages and paths.
Flights == INSTANCE Routing_proofs WITH
  pages <- v1, path <- v2, intercept <- v3, answer <- None,
  Pool <- FlightPool, MaxPages <- FlightPages, Paths <- FlightPaths

LEMMA SameRouter ==
  /\ FE!Router!WellFormed = Flights!WellFormed
  /\ \A p : FE!Router!OneInterception(p) = Flights!OneInterception(p)
  /\ \A p : FE!Router!InterceptTarget(p) = Flights!InterceptTarget(p)
  /\ \A ps, t, m : FE!Router!Match(ps, t, m) = Flights!Match(ps, t, m)
<1>1. \A s : FE!Router!Transparent(s) = Flights!Transparent(s)
  BY DEF FE!Router!Transparent, Flights!Transparent
<1>2. FE!Router!CatchAllTakes = Flights!CatchAllTakes
  BY DEF FE!Router!CatchAllTakes, Flights!CatchAllTakes
<1>3. \A S : FE!Router!Max(S) = Flights!Max(S)
  BY DEF FE!Router!Max, Flights!Max
<1>4. \A S : FE!Router!Min(S) = Flights!Min(S)
  BY DEF FE!Router!Min, Flights!Min
<1>5. \A f : FE!Router!Range(f) = Flights!Range(f)
  BY DEF FE!Router!Range, Flights!Range
<1>6. \A p : FE!Router!Pathname(p) = Flights!Pathname(p)
  BY <1>1 DEF FE!Router!Pathname, Flights!Pathname
<1>7. \A p, k : FE!Router!Directories(p, k) = Flights!Directories(p, k)
  BY DEF FE!Router!Directories, Flights!Directories
<1>8. \A p : FE!Router!SlotName(p) = Flights!SlotName(p)
  BY <1>7, <1>3 DEF FE!Router!SlotName, Flights!SlotName
<1>9. \A p : FE!Router!InterceptTarget(p) = Flights!InterceptTarget(p)
  BY <1>7, <1>3 DEF FE!Router!InterceptTarget, Flights!InterceptTarget
<1>10. \A p : FE!Router!Shown(p) = Flights!Shown(p)
  BY <1>6 DEF FE!Router!Shown, Flights!Shown
<1>11. \A p : FE!Router!ConflictKey(p) = Flights!ConflictKey(p)
  BY <1>10, <1>8, <1>9 DEF FE!Router!ConflictKey, Flights!ConflictKey
<1>12. \A ps : FE!Router!NoConflicts(ps) = Flights!NoConflicts(ps)
  BY <1>11 DEF FE!Router!NoConflicts, Flights!NoConflicts
<1>13. \A s : FE!Router!Total(s) = Flights!Total(s)
  BY DEF FE!Router!Total, Flights!Total
<1>14. \A p : FE!Router!ScanScore(p) = Flights!ScanScore(p)
  BY <1>13 DEF FE!Router!ScanScore, Flights!ScanScore
<1>15. \A ps, i, j : FE!Router!Scanned(ps, i, j) = Flights!Scanned(ps, i, j)
  BY <1>14 DEF FE!Router!Scanned, Flights!Scanned
<1>16. \A p : FE!Router!IsPrimary(p) = Flights!IsPrimary(p)
  BY <1>8, <1>9 DEF FE!Router!IsPrimary, Flights!IsPrimary
<1>17. \A ps, p : FE!Router!Canonical(ps, p) = Flights!Canonical(ps, p)
  <2> SUFFICES ASSUME NEW ps, NEW p PROVE FE!Router!Canonical(ps, p) = Flights!Canonical(ps, p)
    OBVIOUS
  <2> DEFINE as == {q \in FE!Router!Range(ps) : FE!Router!IsPrimary(q) /\ FE!Router!Shown(q) = FE!Router!Shown(p)}
             bs == {q \in Flights!Range(ps) : Flights!IsPrimary(q) /\ Flights!Shown(q) = Flights!Shown(p)}
  <2>1. as = bs
    BY <1>5, <1>16, <1>10
  <2>2. /\ FE!Router!Canonical(ps, p) = IF as = {} THEN p ELSE CHOOSE q \in as : TRUE
        /\ Flights!Canonical(ps, p) = IF bs = {} THEN p ELSE CHOOSE q \in bs : TRUE
    BY DEF FE!Router!Canonical, Flights!Canonical
  <2> HIDE DEF as, bs
  <2> QED BY <2>1, <2>2
<1>18. \A s, n, t : FE!Router!Taken(s, n, t) = Flights!Taken(s, n, t)
  BY <1>1, <1>2 DEF FE!Router!Taken, Flights!Taken
<1>19. \A s, t : FE!Router!MatchSegments(s, t) = Flights!MatchSegments(s, t)
  BY <1>18 DEF FE!Router!MatchSegments, Flights!MatchSegments
<1>20. \A s, m : FE!Router!SegmentScore(s, m) = Flights!SegmentScore(s, m)
  BY <1>1 DEF FE!Router!SegmentScore, Flights!SegmentScore
<1>21. \A p, m : FE!Router!SumScores(p, m) = Flights!SumScores(p, m)
  BY <1>13, <1>20 DEF FE!Router!SumScores, Flights!SumScores
<1>22. \A p, m : FE!Router!Score(p, m) = Flights!Score(p, m)
  BY <1>21, <1>8, <1>9 DEF FE!Router!Score, Flights!Score
<1>23. \A l, r, m : FE!Router!Compare(l, r, m) = Flights!Compare(l, r, m)
  BY <1>22, <1>8, <1>9 DEF FE!Router!Compare, Flights!Compare
<1>24. \A ps, t : FE!Router!Candidates(ps, t) = Flights!Candidates(ps, t)
  BY <1>19 DEF FE!Router!Candidates, Flights!Candidates
<1>25. \A ps, i, j, m : FE!Router!Before(ps, i, j, m) = Flights!Before(ps, i, j, m)
  BY <1>23, <1>15 DEF FE!Router!Before, Flights!Before
<1>26. \A k, p, m : FE!Router!Wanted(k, p, m) = Flights!Wanted(k, p, m)
  BY <1>8, <1>9, <1>16 DEF FE!Router!Wanted, Flights!Wanted
<1>27. \A ps, f, m : FE!Router!Primary(ps, f, m) = Flights!Primary(ps, f, m)
  <2> SUFFICES ASSUME NEW ps, NEW f, NEW m PROVE FE!Router!Primary(ps, f, m) = Flights!Primary(ps, f, m)
    OBVIOUS
  <2> DEFINE ka == FE!Router!Min({k \in 1 .. 4 : \E i \in f : FE!Router!Wanted(k, ps[i], m)})
             kb == Flights!Min({k \in 1 .. 4 : \E i \in f : Flights!Wanted(k, ps[i], m)})
             wa == {i \in f : FE!Router!Wanted(ka, ps[i], m)}
             wb == {i \in f : Flights!Wanted(kb, ps[i], m)}
             as == {i \in wa : \A j \in wa : FE!Router!Before(ps, i, j, m)}
             bs == {i \in wb : \A j \in wb : Flights!Before(ps, i, j, m)}
  <2>1. FE!Router!Primary(ps, f, m) = ps[CHOOSE i \in as : TRUE]
    BY DEF FE!Router!Primary
  <2>2. Flights!Primary(ps, f, m) = ps[CHOOSE i \in bs : TRUE]
    BY DEF Flights!Primary
  <2>3. ka = kb
    BY <1>4, <1>26
  <2> HIDE DEF ka, kb
  <2>4. wa = wb
    BY <1>26, <2>3
  <2> HIDE DEF wa, wb
  <2>5. as = bs
    BY <1>25, <2>4
  <2> HIDE DEF as, bs
  <2> QED BY <2>1, <2>2, <2>5
<1>28. \A ps, f, p : FE!Router!Parallel(ps, f, p) = Flights!Parallel(ps, f, p)
  BY <1>8, <1>17, <1>9 DEF FE!Router!Parallel, Flights!Parallel
<1>29. \A w : FE!Router!NoAnswer(w) = Flights!NoAnswer(w)
  BY DEF FE!Router!NoAnswer, Flights!NoAnswer
<1>30. \A ps, t, m : FE!Router!Match(ps, t, m) = Flights!Match(ps, t, m)
  BY <1>24, <1>29, <1>27, <1>28 DEF FE!Router!Match, Flights!Match
<1>31. FE!Router!Segments = Flights!Segments
  BY <1>5 DEF FE!Router!Segments, Flights!Segments
<1>32. FE!Router!WellFormed = Flights!WellFormed
  BY <1>31 DEF FE!Router!WellFormed, Flights!WellFormed
<1>33. \A p : FE!Router!OneInterception(p) = Flights!OneInterception(p)
  BY <1>7 DEF FE!Router!OneInterception, Flights!OneInterception
<1> QED BY <1>9, <1>30, <1>32, <1>33

\* The href of a document is matched to what the document was.
LEMMA HrefFindsThePage ==
  ASSUME NEW n \in Nat, NEW ps \in [1 .. n -> DOMAIN FlightPool], NEW t, NEW mode \in BOOLEAN,
         FE!Router!Match(ps, t, mode).is = "matched",
         \A p \in FE!Router!Range(ps) : FE!Router!OneInterception(p)
  PROVE  FE!Router!Match(ps, t, FE!Router!InterceptTarget(FE!Router!Match(ps, t, mode).page) # None)
           = FE!Router!Match(ps, t, mode)
<1>1. Flights!WellFormed /\ \A p \in Flights!Range(ps) : Flights!OneInterception(p)
  BY SameRouter, RoutesAssumption DEF FE!Router!Range, Flights!Range
<1>2. Flights!Match(ps, t, mode).is = "matched"
  BY SameRouter
<1>3. Flights!Match(ps, t, Flights!InterceptTarget(Flights!Match(ps, t, mode).page) # None)
        = Flights!Match(ps, t, mode)
  BY <1>1, <1>2, Flights!AskedAgain
<1> QED BY <1>3, SameRouter

DocumentInv == which = "flight" => FE!DocumentIsMatched

LEMMA DocumentInit == Init => DocumentInv
<1> SUFFICES ASSUME FE!Init PROVE FE!DocumentIsMatched
  BY DEF Init, DocumentInv
<1>1. PICK n \in 0 .. FlightPages :
        v1 \in {s \in [1 .. n -> DOMAIN FlightPool] : \A i, j \in 1 .. n : s[i] = s[j] => i = j}
  BY DEF FE!Init
<1>2. v1 \in [1 .. n -> DOMAIN FlightPool]
  BY <1>1
<1> QED BY <1>2 DEF FE!Init, FE!DocumentIsMatched

LEMMA DocumentNext == DocumentInv /\ [Next]_all => DocumentInv'
<1> SUFFICES ASSUME DocumentInv, [Next]_all, which' = "flight" PROVE FE!DocumentIsMatched'
  BY DEF DocumentInv
<1>1. FE!DocumentIsMatched /\ [FE!Next]_flightVars
  BY FlightSteps DEF DocumentInv
<1> DEFINE a == FE!Resolved(FE!Router!Match(v1, FE!Stripped(v2), v3))
<1>2. CASE FE!Document
  <2>1. /\ v6 = "document" /\ v7' = v7 /\ v1' = v1 /\ v2' = v2 /\ v3' = v3 /\ v4' = v4
        /\ v5' = [answer |-> a, href |-> FE!HrefOf(a)]
        /\ v6' = IF FE!Matched(a) THEN "linked" ELSE "done"
    BY <1>2 DEF FE!Document, FE!request
  <2>2. a' = a /\ FE!HrefOf(a)' = FE!HrefOf(a)
    BY <2>1 DEF FE!Resolved, FE!HrefOf
  <2> QED BY <1>1, <2>1, <2>2 DEF FE!DocumentIsMatched
<1>3. CASE FE!Ask
  <2>1. /\ v6 = "linked" /\ v5' = v5 /\ v1' = v1 /\ v2' = v2 /\ v3' = v3 /\ v4' = v4
        /\ v7' = FE!Resolved(FE!Router!Match(v1, FE!Stripped(v5.href.pathname), v5.href.intercept))
        /\ v6' \in {"canonical", "legacy", "refused"}
    BY <1>3 DEF FE!Ask, FE!request
  <2>2. v5 = [answer |-> a, href |-> FE!HrefOf(a)] /\ FE!Matched(a)
    BY <1>1, <2>1 DEF FE!DocumentIsMatched
  <2>3. a.match = FE!Router!Match(v1, FE!Stripped(v2), v3) /\ a.match.is = "matched"
    BY <2>2 DEF FE!Resolved, FE!Matched
  <2>4. /\ v5.href.pathname = v2
        /\ v5.href.intercept = (FE!Router!InterceptTarget(a.match.page) # None)
    BY <2>2 DEF FE!HrefOf, FE!Intercepted
  <2>5. PICK n \in 0 .. FlightPages : v1 \in [1 .. n -> DOMAIN FlightPool]
    BY <1>1 DEF FE!DocumentIsMatched
  <2>6. n \in Nat /\ v3 \in BOOLEAN
    BY <1>1 DEF FE!DocumentIsMatched
  <2>7. ASSUME FE!SinglyIntercepted
        PROVE  FE!Router!Match(v1, FE!Stripped(v2), FE!Router!InterceptTarget(a.match.page) # None) = a.match
    <3>1. \A p \in FE!Router!Range(v1) : FE!Router!OneInterception(p)
      BY <2>7 DEF FE!SinglyIntercepted
    <3> QED BY <2>3, <2>5, <2>6, <3>1, HrefFindsThePage
  <2>8. FE!SinglyIntercepted => v7' = a
    BY <2>1, <2>3, <2>4, <2>7
  <2>9. /\ a' = a /\ FE!HrefOf(a)' = FE!HrefOf(a)
        /\ FE!SinglyIntercepted' = FE!SinglyIntercepted
    BY <2>1 DEF FE!Resolved, FE!HrefOf, FE!SinglyIntercepted
  <2> HIDE DEF a
  <2> QED BY <1>1, <2>1, <2>2, <2>8, <2>9 DEF FE!DocumentIsMatched, a
<1>4. ASSUME UNCHANGED <<v1, v2, v3, v4, v5, v7>>,
             \/ v6' = v6
             \/ v6 # "document" /\ v6' \notin {"document", "linked"}
      PROVE  FE!DocumentIsMatched'
  <2>1. /\ a' = a /\ FE!HrefOf(a)' = FE!HrefOf(a)
        /\ FE!SinglyIntercepted' = FE!SinglyIntercepted
    BY <1>4 DEF FE!Resolved, FE!HrefOf, FE!SinglyIntercepted
  <2> QED BY <1>1, <1>4, <2>1 DEF FE!DocumentIsMatched
<1>5. CASE FE!Document \/ FE!Ask
  BY <1>2, <1>3, <1>5
<1>6. CASE FE!Refuse \/ FE!Legacy \/ FE!StartPump \/ FE!PumpEnds \/ FE!PumpFails
  BY <1>4, <1>6 DEF FE!Refuse, FE!Legacy, FE!StartPump, FE!PumpEnds, FE!PumpFails, FE!Pumping, FE!request
<1>7. CASE FE!Pump \/ FE!Drain \/ FE!Leave \/ FE!Closed \/ FE!Over \/ UNCHANGED flightVars
  BY <1>4, <1>7 DEF FE!Pump, FE!Drain, FE!Leave, FE!Closed, FE!Over, FE!vars, FE!request, flightVars
<1> QED BY <1>1, <1>5, <1>6, <1>7 DEF FE!Next

(* Whatever the pages and the paths are, a match covers its path and does  *)
(* not depend on the order of the pages, the slots of a page are its own,  *)
(* the adapters match what the router does where no segment catches all,   *)
(* and a flight is the flight of its document (matchRouteCollection,       *)
(* createDefaultHandler and createDynamicFlightHref).                      *)
THEOREM MatchesAlwaysAgree == Spec => []MatchesAgree
<1>1. RoutingInv /\ DocumentInv => MatchesAgree
  BY RoutingSays DEF DocumentInv, MatchesAgree, FE_FlightFindsThePage, FE!FlightFindsThePage,
                     FE!DocumentIsMatched
<1> QED BY <1>1, RoutingInit, RoutingNext, DocumentInit, DocumentNext, PTL DEF Spec

-----------------------------------------------------------------------------
(* A response and its cookies.                                             *)
\* Every non-empty set of numbers up to n has a greatest one.
LEMMA GreatestUpTo ==
  ASSUME NEW n \in Nat, NEW T \in SUBSET (1 .. n), T # {}
  PROVE  \E x \in T : \A y \in T : y <= x
<1> DEFINE R == OpToRel(<, Nat)
           S == {n - x : x \in T}
<1>1. IsWellFoundedOn(R, Nat)
  BY NatLessThanWellFounded
<1>2. R = {s \in Nat \X Nat : s[1] < s[2]}
  BY DEF OpToRel
<1>3. S \in SUBSET Nat /\ S # {}
  <2>1. \A x \in T : x \in Nat /\ x <= n
    OBVIOUS
  <2>2. \A x \in T : n - x \in Nat
    BY <2>1
  <2> QED BY <2>2
<1> HIDE DEF R, S
<1>4. PICK m \in S : \A k \in S : ~(<<k, m>> \in R)
  BY <1>1, <1>3, WFMin
<1>5. \A k \in S : m <= k
  <2> SUFFICES ASSUME NEW k \in S, ~(m <= k) PROVE FALSE
    OBVIOUS
  <2>1. k < m /\ <<k, m>> \in Nat \X Nat
    BY <1>3
  <2>2. <<k, m>> \in R
    BY <1>2, <2>1
  <2> QED BY <1>4, <2>2
<1>6. PICK x \in T : m = n - x
  BY DEF S
<1>7. \A y \in T : y <= x
  <2> SUFFICES ASSUME NEW y \in T PROVE y <= x
    OBVIOUS
  <2>1. n - y \in S
    BY DEF S
  <2>2. n - x <= n - y
    BY <1>5, <1>6, <2>1
  <2> QED BY <2>2
<1> QED BY <1>7

\* The line that decides on a cookie is the last one of its name and path.
LEMMA LastLine ==
  ASSUME NEW ls \in Seq(RD!Lines), NEW c, RD!Of(c, ls) # {}
  PROVE  /\ RD!Max(RD!Of(c, ls)) \in RD!Of(c, ls)
         /\ \A i \in RD!Of(c, ls) : i <= RD!Max(RD!Of(c, ls))
<1>1. RD!Of(c, ls) \in SUBSET (1 .. Len(ls)) /\ Len(ls) \in Nat
  BY DEF RD!Of
<1>2. \E x \in RD!Of(c, ls) : \A y \in RD!Of(c, ls) : y <= x
  BY <1>1, GreatestUpTo
<1> QED BY <1>2 DEF RD!Max

LEMMA KeptAppend ==
  ASSUME NEW j, NEW ls \in Seq(RD!Lines), NEW l \in RD!Lines, NEW c \in CookieNames \X RD!Paths
  PROVE  RD!Kept(j, Append(ls, l))[c] = IF c = <<l.name, l.path>> THEN l.value ELSE RD!Kept(j, ls)[c]
<1> DEFINE n == Len(ls) + 1
           more == Append(ls, l)
<1>1. /\ n \in Nat /\ Len(ls) \in Nat /\ DOMAIN ls = 1 .. Len(ls) /\ DOMAIN more = 1 .. n
      /\ \A i \in 1 .. Len(ls) : more[i] = ls[i]
      /\ more[n] = l
  OBVIOUS
<1> HIDE DEF more
<1>2. CASE c = <<l.name, l.path>>
  <2>1. n \in RD!Of(c, more) /\ \A i \in RD!Of(c, more) : i \in Nat /\ i <= n
    BY <1>1, <1>2 DEF RD!Of
  <2>2. RD!Max(RD!Of(c, more)) = n
    <3>1. \E x \in RD!Of(c, more) : \A y \in RD!Of(c, more) : y <= x
      BY <2>1
    <3>2. /\ RD!Max(RD!Of(c, more)) \in RD!Of(c, more)
          /\ \A y \in RD!Of(c, more) : y <= RD!Max(RD!Of(c, more))
      BY <3>1 DEF RD!Max
    <3> QED BY <1>1, <2>1, <3>2
  <2> QED BY <1>1, <1>2, <2>1, <2>2 DEF RD!Kept, more
<1>3. CASE c # <<l.name, l.path>>
  <2>1. RD!Of(c, more) = RD!Of(c, ls)
    BY <1>1, <1>3 DEF RD!Of
  <2>2. RD!Of(c, ls) # {} => RD!Max(RD!Of(c, ls)) \in 1 .. Len(ls)
    BY <1>1, LastLine DEF RD!Of
  <2>3. RD!Kept(j, more)[c] = RD!Kept(j, ls)[c]
    BY <1>1, <2>1, <2>2 DEF RD!Kept
  <2> QED BY <1>3, <2>3 DEF more
<1> QED BY <1>2, <1>3

DeliveryInv == which = "delivery" => RD!Inv
delivery == <<v1, v2, v3, v4, v5, v6, v7, v8, v9, v10, v11, v12, v13>>

LEMMA DeliverySteps ==
  ASSUME [Next]_all, which' = "delivery"
  PROVE  which = "delivery" /\ [RD!Next]_delivery
BY DEF Next, all, shared, delivery

\* What a writer makes of the lines are lines, and what the browser keeps are cookies.
LEMMA WrittenLines == RD!TypeOK => RD!Written \in Seq(RD!Lines)
<1> SUFFICES ASSUME RD!TypeOK PROVE RD!Written \in Seq(RD!Lines)
  OBVIOUS
<1>1. v6 \in Seq(RD!Lines) /\ v7 \in Seq(RD!Lines)
  BY DEF RD!TypeOK
<1>2. RD!HeaderLines \in Seq(RD!Lines)
  <2>1. CASE Len(v7) <= 1
    BY <1>1, <2>1 DEF RD!HeaderLines
  <2>2. CASE ~(Len(v7) <= 1)
    <3>1. v7[1] \in RD!Lines
      BY <1>1, <2>2
    <3>2. [v7[1] EXCEPT !.value = "joined"] \in RD!Lines
      BY <3>1 DEF RD!Lines
    <3> QED BY <2>2, <3>2 DEF RD!HeaderLines
  <2> QED BY <2>1, <2>2
<1>3. RD!NodeLines \in Seq(RD!Lines)
  BY <1>1, <1>2 DEF RD!NodeLines
<1>4. RD!WebLines \in Seq(RD!Lines)
  BY <1>1, <1>2 DEF RD!WebLines
<1>5. RD!ServerLines \in Seq(RD!Lines)
  <2>1. CASE v7 = <<>>
    BY <2>1 DEF RD!ServerLines
  <2>2. CASE v7 # <<>>
    <3>1. v7[Len(v7)] \in RD!Lines
      BY <1>1, <2>2
    <3> QED BY <2>2, <3>1 DEF RD!ServerLines
  <2> QED BY <2>1, <2>2
<1> QED BY <1>3, <1>4, <1>5 DEF RD!Written

LEMMA KeptCookies ==
  ASSUME NEW j \in [CookieNames \X RD!Paths -> RD!Values \cup {"joined", Gone}],
         NEW ls \in Seq(RD!Lines)
  PROVE  RD!Kept(j, ls) \in [CookieNames \X RD!Paths -> RD!Values \cup {"joined", Gone}]
<1> SUFFICES ASSUME NEW c \in CookieNames \X RD!Paths
             PROVE  (IF RD!Of(c, ls) = {} THEN j[c] ELSE ls[RD!Max(RD!Of(c, ls))].value)
                      \in RD!Values \cup {"joined", Gone}
  BY DEF RD!Kept
<1>1. CASE RD!Of(c, ls) = {}
  BY <1>1
<1>2. CASE RD!Of(c, ls) # {}
  <2>1. RD!Max(RD!Of(c, ls)) \in DOMAIN ls
    BY <1>2, LastLine DEF RD!Of
  <2>2. ls[RD!Max(RD!Of(c, ls))] \in RD!Lines
    BY <2>1
  <2> QED BY <1>2, <2>2 DEF RD!Lines
<1> QED BY <1>1, <1>2

LEMMA DeliveryInit == Init => DeliveryInv
<1> SUFFICES ASSUME Init, which = "delivery" PROVE RD!Inv
  BY DEF DeliveryInv
<1>1. RD!Init
  BY DEF Init
<1>2. PICK held \in SUBSET CookieNames, p \in RD!Paths :
        v3 = [c \in CookieNames \X RD!Paths |-> IF c[1] \in held /\ c[2] = p THEN "old" ELSE Gone]
  BY <1>1 DEF RD!Init
<1>3. v3 \in [CookieNames \X RD!Paths -> RD!Values \cup {Gone}]
  BY <1>2 DEF RD!Values
<1>4. v5 \in [CookieNames -> RD!Values \cup {Gone}]
  BY <1>1, <1>3 DEF RD!Init, RD!Parsed, RD!Paths
<1>5. RD!TypeOK
  <2>1. v4 \in [CookieNames \X RD!Paths -> RD!Values \cup {"joined", Gone}]
    BY <1>1, <1>3 DEF RD!Init
  <2>2. v6 \in Seq(RD!Lines) /\ v7 \in Seq(RD!Lines)
    BY <1>1 DEF RD!Init
  <2>3. v13 \in [lines : Seq(RD!Lines), headers : BOOLEAN, ended : BOOLEAN]
    BY <1>1 DEF RD!Init
  <2>4. /\ v1 \in Writers /\ v2 = "here" /\ v12 = "handler"
        /\ v8 \in 0 .. CookieOps /\ v11 \in 0 .. BodyChunks
    BY <1>1, DeliveryAssumption DEF RD!Init
  <2> QED BY <1>3, <1>4, <2>1, <2>2, <2>3, <2>4 DEF RD!TypeOK
<1>6. RD!StoreIsKept
  <2> SUFFICES ASSUME RD!AtDefaultPaths, NEW n \in CookieNames
               PROVE  v5[n] = RD!Kept(v3, v6)[n, "default"]
    BY DEF RD!StoreIsKept
  <2>1. v5[n] = IF v3[n, "default"] # Gone THEN v3[n, "default"] ELSE v3[n, "root"]
    BY <1>1 DEF RD!Init, RD!Parsed
  <2>2. v3[n, "root"] = Gone
    BY DEF RD!AtDefaultPaths
  <2>3. RD!Of(<<n, "default">>, v6) = {}
    BY <1>1 DEF RD!Init, RD!Of
  <2>4. RD!Kept(v3, v6)[n, "default"] = v3[n, "default"]
    BY <2>3 DEF RD!Kept, RD!Paths
  <2> QED BY <2>1, <2>2, <2>4
<1>7. /\ RD!JarIsKept /\ RD!NothingLeavesTheHandler /\ RD!SettledIsWhole
      /\ RD!ServerKnowsNone
  BY <1>1 DEF RD!Init, RD!JarIsKept, RD!ServerKnowsNone, RD!NothingLeavesTheHandler, RD!SettledIsWhole, RD!Received
<1> QED BY <1>5, <1>6, <1>7 DEF RD!Inv

LEMMA DeliveryNext == DeliveryInv /\ [Next]_all => DeliveryInv'
<1> SUFFICES ASSUME DeliveryInv, [Next]_all, which' = "delivery" PROVE RD!Inv'
  BY DEF DeliveryInv
<1>1. RD!Inv /\ [RD!Next]_delivery
  BY DeliverySteps DEF DeliveryInv
<1>2. /\ RD!TypeOK /\ RD!StoreIsKept /\ RD!JarIsKept /\ RD!NothingLeavesTheHandler
      /\ RD!SettledIsWhole
  BY <1>1 DEF RD!Inv
<1>16. RD!ServerKnowsNone'
  <2>1. RD!ServerKnowsNone
    BY <1>1 DEF RD!Inv
  <2>2. v1' = v1 /\ (v6' = v6 \/ v1 # "server")
    BY <1>1 DEF delivery, RD!Next, RD!SetCookie, RD!DeleteCookie, RD!AppendLine, RD!Send, RD!Chunk,
                RD!SourceEnds, RD!SourceFails, RD!Leave
  <2> QED BY <2>1, <2>2 DEF RD!ServerKnowsNone
\* A line more on what is to be sent, with what the handler then sees.
<1>3. ASSUME NEW l \in RD!Lines, v6' = Append(v6, l), v5' = [v5 EXCEPT ![l.name] = l.value],
             l.value \in RD!Values \cup {Gone}, RD!Handles,
             UNCHANGED <<v1, v2, v3, v4, v7, v9, v10, v11, v12, v13>>
      PROVE  RD!Inv'
  <2>1. RD!TypeOK'
    <3>1. v6 \in Seq(RD!Lines) /\ v5 \in [CookieNames -> RD!Values \cup {Gone}] /\ v8 \in 0 .. CookieOps
      BY <1>2 DEF RD!TypeOK
    <3>2. v6' \in Seq(RD!Lines)
      BY <1>3, <3>1
    <3>3. v5' \in [CookieNames -> RD!Values \cup {Gone}]
      BY <1>3, <3>1
    <3>4. v8' \in 0 .. CookieOps
      BY <1>3, <3>1, DeliveryAssumption DEF RD!Handles
    <3> QED BY <1>2, <1>3, <3>2, <3>3, <3>4 DEF RD!TypeOK
  <2>2. RD!StoreIsKept'
    <3> SUFFICES ASSUME RD!AtDefaultPaths', NEW n \in CookieNames
                 PROVE  v5'[n] = RD!Kept(v3, Append(v6, l))[n, "default"]
      BY <1>3 DEF RD!StoreIsKept
    <3>1. v6 \in Seq(RD!Lines) /\ Len(v6) \in Nat /\ v5 \in [CookieNames -> RD!Values \cup {Gone}]
      BY <1>2 DEF RD!TypeOK
    <3>2. /\ DOMAIN v6' = 1 .. Len(v6) + 1 /\ DOMAIN v6 = 1 .. Len(v6)
          /\ \A i \in DOMAIN v6 : v6'[i] = v6[i]
          /\ v6'[Len(v6) + 1] = l
      BY <1>3, <3>1
    <3>3. l.path = "default" /\ RD!AtDefaultPaths
      BY <1>3, <3>1, <3>2 DEF RD!AtDefaultPaths
    <3>4. v5[n] = RD!Kept(v3, v6)[n, "default"]
      BY <1>2, <3>3 DEF RD!StoreIsKept
    <3>5. <<n, "default">> \in CookieNames \X RD!Paths
      BY DEF RD!Paths
    <3>6. RD!Kept(v3, Append(v6, l))[n, "default"]
            = IF <<n, "default">> = <<l.name, l.path>> THEN l.value ELSE RD!Kept(v3, v6)[n, "default"]
      BY <3>1, <3>5, KeptAppend
    <3>7. v5'[n] = IF n = l.name THEN l.value ELSE v5[n]
      BY <1>3, <3>1
    <3>8. CASE n = l.name
      BY <3>3, <3>6, <3>7, <3>8
    <3>9. CASE n # l.name
      <4>1. <<n, "default">> # <<l.name, l.path>>
        BY <3>9
      <4> QED BY <3>4, <3>6, <3>7, <3>9, <4>1
    <3> QED BY <3>8, <3>9
  <2>3. RD!JarIsKept' /\ RD!NothingLeavesTheHandler' /\ RD!SettledIsWhole'
    BY <1>2, <1>3 DEF RD!JarIsKept, RD!NothingLeavesTheHandler, RD!SettledIsWhole, RD!Streamed, RD!Received,
                      RD!Handles
  <2> QED BY <1>16, <2>1, <2>2, <2>3 DEF RD!Inv
<1>4. ASSUME NEW n \in CookieNames, NEW p \in RD!Paths, RD!SetCookie(n, p) PROVE RD!Inv'
  <2> DEFINE l == RD!Line(n, "new", p)
  <2>1. l \in RD!Lines /\ l.name = n /\ l.value = "new" /\ l.value \in RD!Values
    BY DEF RD!Line, RD!Lines, RD!Values
  <2>2. /\ v6' = Append(v6, l) /\ v5' = [v5 EXCEPT ![n] = "new"] /\ RD!Handles
        /\ UNCHANGED <<v1, v2, v3, v4, v7, v9, v10, v11, v12, v13>>
    BY <1>4 DEF RD!SetCookie
  <2> HIDE DEF l
  <2> QED BY <1>3, <2>1, <2>2
<1>5. ASSUME NEW n \in CookieNames, RD!DeleteCookie(n) PROVE RD!Inv'
  <2> DEFINE l == RD!Line(n, Gone, "default")
  <2>1. l \in RD!Lines /\ l.name = n /\ l.value = Gone
    BY DEF RD!Line, RD!Lines, RD!Paths
  <2>2. /\ v6' = v6 \o <<l>> /\ v5' = [v5 EXCEPT ![n] = Gone] /\ RD!Handles
        /\ UNCHANGED <<v1, v2, v3, v4, v7, v9, v10, v11, v12, v13>>
    BY <1>5 DEF RD!DeleteCookie, RD!Deletes
  <2> HIDE DEF l
  <2>3. v6' = Append(v6, l)
    BY <1>2, <2>1, <2>2, AppendIsConcat DEF RD!TypeOK
  <2> QED BY <1>3, <2>1, <2>2, <2>3
<1>6. ASSUME NEW n \in CookieNames, RD!AppendLine(n) PROVE RD!Inv'
  <2>1. RD!Line(n, "new", "default") \in RD!Lines
    BY DEF RD!Line, RD!Lines, RD!Paths, RD!Values
  <2>2. RD!TypeOK'
    <3>1. v7' = Append(v7, RD!Line(n, "new", "default")) /\ v8 < CookieOps /\ v8' = v8 + 1
      BY <1>6 DEF RD!AppendLine, RD!Handles
    <3>2. v7' \in Seq(RD!Lines) /\ v8' \in 0 .. CookieOps
      BY <1>2, <2>1, <3>1, DeliveryAssumption DEF RD!TypeOK
    <3> QED BY <1>2, <1>6, <3>2 DEF RD!TypeOK, RD!AppendLine
  <2>3. RD!StoreIsKept'
    BY <1>2, <1>6 DEF RD!StoreIsKept, RD!AtDefaultPaths, RD!AppendLine
  <2>4. RD!JarIsKept' /\ RD!NothingLeavesTheHandler' /\ RD!SettledIsWhole'
    BY <1>2, <1>6 DEF RD!JarIsKept, RD!NothingLeavesTheHandler, RD!SettledIsWhole, RD!Streamed, RD!Received,
                      RD!AppendLine, RD!Handles
  <2> QED BY <1>16, <2>2, <2>3, <2>4 DEF RD!Inv
\* From here on the handler has returned, and what it wrote stays.
<1>7. ASSUME UNCHANGED <<v1, v3, v5, v6, v7, v8>>
      PROVE  RD!StoreIsKept' /\ RD!Written' = RD!Written
  BY <1>2, <1>7 DEF RD!StoreIsKept, RD!AtDefaultPaths, RD!Written, RD!NodeLines, RD!WebLines, RD!ServerLines,
                    RD!HeaderLines
<1>8. /\ RD!Written \in Seq(RD!Lines)
      /\ RD!Kept(v4, RD!Written) \in [CookieNames \X RD!Paths -> RD!Values \cup {"joined", Gone}]
  BY <1>2, WrittenLines, KeptCookies DEF RD!TypeOK
<1>9. ~v13.headers => v4 = v3
  BY <1>2 DEF RD!JarIsKept
<1>10. CASE UNCHANGED delivery
  <2>1. RD!StoreIsKept' /\ RD!Written' = RD!Written
    BY <1>7, <1>10 DEF delivery
  <2> QED BY <1>16, <1>2, <1>10, <2>1 DEF delivery, RD!Inv, RD!TypeOK, RD!JarIsKept, RD!Received,
             RD!NothingLeavesTheHandler, RD!SettledIsWhole, RD!Streamed
<1>11. CASE RD!Send
  <2>1. UNCHANGED <<v1, v2, v3, v5, v6, v7, v8, v9, v10, v11>> /\ v12 = "handler" /\ ~v13.headers
    BY <1>2, <1>11 DEF RD!Send, RD!NothingLeavesTheHandler
  <2>2. RD!StoreIsKept' /\ RD!Written' = RD!Written
    BY <1>7, <2>1
  <2>3. CASE RD!Streamed
    <3>1. v12' = "sending" /\ v13' = v13 /\ v4' = v4
      BY <1>11, <2>3 DEF RD!Send
    <3> QED BY <1>16, <1>2, <2>1, <2>2, <3>1 DEF RD!Inv, RD!TypeOK, RD!JarIsKept, RD!Received,
               RD!NothingLeavesTheHandler, RD!SettledIsWhole
  <2>4. CASE ~RD!Streamed
    <3>1. /\ v12' = "settled" /\ v13' = [lines |-> RD!Written, headers |-> TRUE, ended |-> v9 # "stream"]
          /\ v4' = IF v2 = "here" THEN RD!Kept(v4, RD!Written) ELSE v4
      BY <1>11, <2>4 DEF RD!Send
    <3>2. RD!TypeOK'
      BY <1>2, <1>8, <2>1, <3>1 DEF RD!TypeOK
    <3>3. RD!JarIsKept' /\ RD!NothingLeavesTheHandler'
      BY <1>9, <2>1, <2>2, <3>1 DEF RD!JarIsKept, RD!Received, RD!NothingLeavesTheHandler
    <3>4. RD!SettledIsWhole'
      BY <2>1, <2>4 DEF RD!SettledIsWhole, RD!Streamed
    <3> QED BY <1>16, <2>2, <3>2, <3>3, <3>4 DEF RD!Inv
  <2> QED BY <2>3, <2>4
<1>12. CASE RD!Chunk
  <2>1. /\ UNCHANGED <<v1, v2, v3, v5, v6, v7, v8, v9, v10, v12>> /\ v12 = "sending"
        /\ v11' \in 0 .. BodyChunks /\ v2 = "here"
    BY <1>2, <1>12, DeliveryAssumption DEF RD!Chunk, RD!TypeOK
  <2>2. RD!StoreIsKept' /\ RD!Written' = RD!Written
    BY <1>7, <2>1
  <2>3. RD!NothingLeavesTheHandler' /\ RD!SettledIsWhole'
    BY <2>1 DEF RD!NothingLeavesTheHandler, RD!SettledIsWhole
  <2>4. CASE v13.headers
    <3>1. v13' = v13 /\ v4' = v4
      BY <1>12, <2>4 DEF RD!Chunk
    <3> QED BY <1>16, <1>2, <2>1, <2>2, <2>3, <3>1 DEF RD!Inv, RD!TypeOK, RD!JarIsKept, RD!Received
  <2>5. CASE ~v13.headers
    <3>1. v13' = [v13 EXCEPT !.lines = RD!Written, !.headers = TRUE] /\ v4' = RD!Kept(v4, RD!Written)
      BY <1>12, <2>5 DEF RD!Chunk, RD!HeadersOut
    <3>2. v13' \in [lines : Seq(RD!Lines), headers : BOOLEAN, ended : BOOLEAN] /\ v13'.headers
      BY <1>2, <1>8, <3>1 DEF RD!TypeOK
    <3>3. RD!TypeOK'
      BY <1>2, <1>8, <2>1, <3>1, <3>2 DEF RD!TypeOK
    <3>4. RD!JarIsKept'
      BY <1>9, <2>1, <2>2, <2>5, <3>1, <3>2 DEF RD!JarIsKept
    <3> QED BY <1>16, <2>2, <2>3, <3>3, <3>4 DEF RD!Inv
  <2> QED BY <2>4, <2>5
<1>13. CASE RD!SourceEnds
  <2>1. /\ UNCHANGED <<v1, v2, v3, v5, v6, v7, v8, v9, v11>> /\ v2 = "here" /\ v10' = "ended"
        /\ v12' = "settled" /\ v13' = [lines |-> RD!Written, headers |-> TRUE, ended |-> TRUE]
        /\ v4' = IF v13.headers THEN v4 ELSE RD!Kept(v4, RD!Written)
    BY <1>13 DEF RD!SourceEnds
  <2>2. RD!StoreIsKept' /\ RD!Written' = RD!Written
    BY <1>7, <2>1
  <2>3. RD!TypeOK'
    BY <1>2, <1>8, <2>1 DEF RD!TypeOK
  <2>4. RD!JarIsKept'
    BY <1>2, <1>9, <2>1, <2>2 DEF RD!JarIsKept, RD!Received
  <2>5. RD!NothingLeavesTheHandler' /\ RD!SettledIsWhole'
    BY <2>1 DEF RD!NothingLeavesTheHandler, RD!SettledIsWhole
  <2> QED BY <1>16, <2>2, <2>3, <2>4, <2>5 DEF RD!Inv
<1>14. CASE RD!SourceFails
  <2>1. /\ UNCHANGED <<v1, v2, v3, v5, v6, v7, v8, v9, v11>> /\ v10' = "failed" /\ v12' = "failed"
    BY <1>14 DEF RD!SourceFails, RD!Rejected
  <2>2. RD!StoreIsKept' /\ RD!Written' = RD!Written
    BY <1>7, <2>1
  <2>3. RD!NothingLeavesTheHandler' /\ RD!SettledIsWhole'
    BY <2>1 DEF RD!NothingLeavesTheHandler, RD!SettledIsWhole
  <2>4. CASE v13.headers
    <3>1. v13' = v13 /\ v4' = v4
      BY <1>14, <2>4 DEF RD!SourceFails
    <3> QED BY <1>16, <1>2, <2>1, <2>2, <2>3, <3>1 DEF RD!Inv, RD!TypeOK, RD!JarIsKept, RD!Received
  <2>5. CASE ~v13.headers
    <3>1. /\ v13' = [lines |-> RD!Written, headers |-> TRUE, ended |-> TRUE]
          /\ v4' = IF v2 = "here" THEN RD!Kept(v4, RD!Written) ELSE v4
      BY <1>14, <2>5 DEF RD!SourceFails
    <3>2. RD!TypeOK'
      BY <1>2, <1>8, <2>1, <3>1 DEF RD!TypeOK
    <3>3. RD!JarIsKept'
      BY <1>9, <2>1, <2>2, <2>5, <3>1 DEF RD!JarIsKept, RD!Received
    <3> QED BY <1>16, <2>2, <2>3, <3>2, <3>3 DEF RD!Inv
  <2> QED BY <2>4, <2>5
<1>15. CASE RD!Leave
  <2>1. UNCHANGED <<v1, v3, v4, v5, v6, v7, v8, v9, v10, v11, v12, v13>> /\ v2' = "left"
    BY <1>15 DEF RD!Leave
  <2>2. RD!StoreIsKept' /\ RD!Written' = RD!Written
    BY <1>7, <2>1
  <2> QED BY <1>16, <1>2, <2>1, <2>2 DEF RD!Inv, RD!TypeOK, RD!JarIsKept, RD!Received,
             RD!NothingLeavesTheHandler, RD!SettledIsWhole, RD!Streamed
<1> QED BY <1>1, <1>4, <1>5, <1>6, <1>10, <1>11, <1>12, <1>13, <1>14, <1>15 DEF RD!Next

(* A response that ends, or is said to have been sent, is whole, and       *)
(* brings the browser every cookie that was set or written, but for the    *)
(* second line of a header and a line beside cookies; where all are of the *)
(* default path, the browser has what the handler saw (the flight endpoint *)
(* of server.ts, writeSourceOGResponse, buildWebResponse and               *)
(* sendNodeResponse).                                                      *)
THEOREM WholeResponses == Spec => []ResponsesAreWhole
<1>1. FlightInv => FE_EndedIsWhole
  BY DEF FlightInv, FE_EndedIsWhole, FE!OnlyTheWholeEnds, FE!EndedIsWhole
<1>2. DeliveryInv => RD_SettledIsWhole /\ RD_JarFollowsTheStore /\ RD_CookiesArrive
  <2> SUFFICES ASSUME RD!Inv
               PROVE  RD!SettledIsWhole /\ RD!JarFollowsTheStore /\ RD!CookiesArrive
    BY DEF DeliveryInv, RD_SettledIsWhole, RD_JarFollowsTheStore, RD_CookiesArrive
  <2>1. v6 \in Seq(RD!Lines) /\ v7 \in Seq(RD!Lines) /\ v1 \in {"node", "web", "server"}
    BY DeliveryAssumption DEF RD!Inv, RD!TypeOK
  <2>2. ASSUME v7 = <<>> PROVE RD!NodeLines = v6 /\ RD!WebLines = v6
    <3>1. RD!HeaderLines = <<>>
      BY <2>2 DEF RD!HeaderLines
    <3>2. <<>> \o v6 = v6
      BY <2>1, ConcatEmptySeq
    <3> QED BY <3>1, <3>2 DEF RD!NodeLines, RD!WebLines
  <2>3. RD!CookiesArrive
    <3> SUFFICES ASSUME RD!Received, Len(v7) <= 1, ~(v1 = "node" /\ v7 # <<>> /\ v6 # <<>>)
                 PROVE  v4 = RD!Kept(v3, v7 \o v6)
      BY DEF RD!CookiesArrive, RD!Spoilt
    <3>1. v4 = RD!Kept(v3, RD!Written)
      BY DEF RD!Inv, RD!JarIsKept
    <3>2. RD!HeaderLines = v7 /\ <<>> \o v6 = v6 /\ v7 \o <<>> = v7
      BY <2>1, ConcatEmptySeq DEF RD!HeaderLines
    <3>3. ASSUME v1 = "node" PROVE RD!Written = v7 \o v6
      <4>1. RD!Written = IF v6 = <<>> THEN v7 ELSE v6
        BY <3>2, <3>3 DEF RD!Written, RD!NodeLines
      <4>2. CASE v6 = <<>>
        BY <3>2, <4>1, <4>2, Zenon
      <4>3. CASE v6 # <<>>
        BY <3>2, <3>3, <4>1, <4>3, Zenon
      <4> QED BY <4>2, <4>3
    <3>4. ASSUME v1 = "web" PROVE RD!Written = v7 \o v6
      <4>1. RD!Written = RD!WebLines
        BY <3>4 DEF RD!Written
      <4> QED BY <3>2, <4>1, Zenon DEF RD!WebLines
    <3>5. ASSUME v1 = "server" PROVE RD!Written = v7 \o v6
      <4>1. v6 = <<>>
        BY <3>5 DEF RD!Inv, RD!ServerKnowsNone
      <4>2. ASSUME v7 # <<>> PROVE <<v7[Len(v7)]>> = v7
        <5>1. Len(v7) \in Nat \ {0} /\ Len(v7) <= 1
          BY <2>1, <4>2, EmptySeq
        <5>3. \A n \in Nat \ {0} : n <= 1 => n = 1
          OBVIOUS
        <5>2. Len(v7) = 1
          BY <5>1, <5>3, Zenon
        <5> QED BY <2>1, <5>2
      <4>3. RD!Written = IF v7 = <<>> THEN <<>> ELSE <<v7[Len(v7)]>>
        BY <3>5 DEF RD!Written, RD!ServerLines
      <4>4. RD!Written = v7
        BY <4>2, <4>3, Zenon
      <4> QED BY <3>2, <4>1, <4>4, Zenon
    <3>6. RD!Written = v7 \o v6
      BY <2>1, <3>3, <3>4, <3>5
    <3> QED BY <3>1, <3>6, Zenon
  <2>4. RD!JarFollowsTheStore
    <3> SUFFICES ASSUME RD!Received, v1 # "server", v7 = <<>>, RD!AtDefaultPaths, NEW n \in CookieNames
                 PROVE  v4[n, "default"] = v5[n]
      BY DEF RD!JarFollowsTheStore
    <3>1. RD!Written = v6
      BY <2>1, <2>2 DEF RD!Written
    <3>2. v4 = RD!Kept(v3, v6)
      BY <3>1 DEF RD!Inv, RD!JarIsKept
    <3> QED BY <3>2 DEF RD!Inv, RD!StoreIsKept
  <2> QED BY <2>3, <2>4 DEF RD!Inv
<1>3. FlightInv /\ DeliveryInv => ResponsesAreWhole
  BY <1>1, <1>2 DEF ResponsesAreWhole
<1> QED BY <1>3, FlightInit, FlightNext, DeliveryInit, DeliveryNext, PTL DEF Spec

-----------------------------------------------------------------------------
(* The store on disk, while one caller at a time is at work.               *)
LEMMA FilesSteps == [Next]_all => [FS!Next]_own
BY DEF Next, all, own

LEMMA FilesInit == Init => FS!Inv
<1> SUFFICES ASSUME Init PROVE FS!Inv
  OBVIOUS
<1>1. FS!Init
  BY DEF Init
<1>2. FS!TypeOK
  BY <1>1, StoreAssumption DEF FS!Init, FS!TypeOK, FS!Idle
<1>3. \A p \in StoreCallers : FS!InStep(p)
  BY <1>1 DEF FS!Init, FS!InStep, FS!At, FS!Idle, FS!IndexNames, FS!Names
<1> QED BY <1>2, <1>3 DEF FS!Inv

\* A step of the caller leaves the files and its operation well-formed.
LEMMA FilesTyped ==
  ASSUME FS!TypeOK, NEW p, StoreCallers = {p}, NEW x,
         x = FS!Idle \/ (/\ x \in FS!Operations
                         /\ [what |-> x.what, key |-> x.key, entry |-> x.entry, arg |-> x.arg]
                              \in FS!Store!Requests),
         op' = [op EXCEPT ![p] = x], kind' = kind, ops' \in 0 .. StoreOps,
         file' \in [StoreKeys -> StoreEntries \cup {None}],
         tmp' \in [StoreKeys -> StoreEntries \cup {None}],
         index' \in FS!Indexes \cup {None}, itmp' \in FS!Indexes \cup {None}
  PROVE  FS!TypeOK' /\ op'[p] = x
<1>1. op' \in [StoreCallers -> {FS!Idle} \cup FS!Operations] /\ op'[p] = x
  BY DEF FS!TypeOK
<1>2. \A q \in StoreCallers : op'[q].pc # "idle" => FS!Request(q)' \in FS!Store!Requests
  BY <1>1 DEF FS!Request, FS!Idle
<1> QED BY <1>1, <1>2 DEF FS!TypeOK

LEMMA FilesNext == FS!OneCaller /\ FS!Inv /\ [Next]_all => FS!Inv'
<1> SUFFICES ASSUME FS!OneCaller, FS!Inv, [Next]_all PROVE FS!Inv'
  OBVIOUS
<1>1. PICK p : StoreCallers = {p}
  BY DEF FS!OneCaller
<1>2. FS!TypeOK /\ FS!InStep(p)
  BY <1>1 DEF FS!Inv
<1>3. FS!TypeOK' /\ FS!InStep(p)' => FS!Inv'
  BY <1>1 DEF FS!Inv
<1> DEFINE o == op[p]
           asks(x) == [what |-> x.what, key |-> x.key, entry |-> x.entry, arg |-> x.arg]
<1>4. /\ o \in {FS!Idle} \cup FS!Operations
      /\ o.pc # "idle" => o \in FS!Operations /\ asks(o) \in FS!Store!Requests
  BY <1>1, <1>2 DEF FS!TypeOK, FS!Idle, FS!Request
<1>5. /\ file \in [StoreKeys -> StoreEntries \cup {None}]
      /\ tmp \in [StoreKeys -> StoreEntries \cup {None}]
      /\ index \in FS!Indexes \cup {None} /\ itmp \in FS!Indexes \cup {None} /\ ops \in 0 .. StoreOps
  BY <1>2 DEF FS!TypeOK
<1>6. o \in FS!Operations =>
        /\ o.todo \in SUBSET StoreKeys /\ o.doomed \in SUBSET StoreKeys /\ o.idx \in FS!Indexes \cup {None}
        /\ o.what \in {"set", "purge", "drop", "routes"}
  BY DEF FS!Operations
<1>7. o.pc # "idle" /\ o.what = "set" => o.key \in StoreKeys /\ o.entry \in StoreEntries /\ o.entry # None
  BY <1>4, StoreAssumption DEF FS!Store!Requests
<1>8. ASSUME NEW what, NEW key, NEW entry, NEW arg, NEW pc, FS!Start(p, what, key, entry, arg, pc),
             [what |-> what, key |-> key, entry |-> entry, arg |-> arg] \in FS!Store!Requests,
             \/ what = "set" /\ pc = "write"
             \/ what = "purge" /\ pc = "load"
             \/ what \in {"drop", "routes"} /\ pc = "find"
      PROVE  FS!Inv'
  <2> DEFINE x == [pc |-> pc, what |-> what, key |-> key, entry |-> entry, arg |-> arg,
                   todo |-> {}, doomed |-> {}, idx |-> None]
  <2>1. /\ o.pc = "idle" /\ op' = [op EXCEPT ![p] = x] /\ UNCHANGED <<kind, file, tmp, index, itmp>>
        /\ ops' \in 0 .. StoreOps
    BY <1>5, <1>8, StoreAssumption DEF FS!Start
  <2>2. x \in FS!Operations
    <3>1. /\ key \in StoreKeys \cup {None} /\ entry \in StoreEntries \cup {None}
          /\ arg \in (SUBSET StoreTags) \cup (SUBSET StoreKeys) \cup (SUBSET StoreRoutes)
      BY <1>8 DEF FS!Store!Requests
    <3>2. what \in {"set", "purge", "drop", "routes"} /\ pc \in FS!Pcs
      BY <1>8 DEF FS!Pcs
    <3> QED BY <3>1, <3>2 DEF FS!Operations
  <2>3. asks(x) \in FS!Store!Requests
    BY <1>8
  <2>4. /\ x.pc = pc /\ x.what = what /\ x.todo = {} /\ x.doomed = {} /\ x.key = key
    OBVIOUS
  <2> HIDE DEF x
  <2>5. FS!TypeOK' /\ op'[p] = x
    BY <1>1, <1>2, <1>5, <2>1, <2>2, <2>3, FilesTyped
  <2>6. FS!InStep(p)'
    BY <1>2, <1>8, <2>1, <2>4, <2>5 DEF FS!InStep, FS!At, FS!IndexNames, FS!Names, FS!Pending, FS!Removed,
                                         FS!EntryIsThere
  <2> QED BY <1>3, <2>5, <2>6
<1>9. CASE FS!WriteEntry(p)
  <2> DEFINE x == [o EXCEPT !.pc = "rename"]
  <2>1. /\ o.pc = "write" /\ op' = [op EXCEPT ![p] = x] /\ UNCHANGED <<kind, ops, file, index, itmp>>
        /\ tmp' = [tmp EXCEPT ![o.key] = o.entry]
    BY <1>9 DEF FS!WriteEntry, FS!At, FS!Go, FS!Same
  <2>2. o.what = "set" /\ o.doomed = {} /\ o.todo = {} /\ FS!IndexNames({})
    BY <1>2, <2>1 DEF FS!InStep, FS!At
  <2>3. /\ x \in FS!Operations /\ asks(x) \in FS!Store!Requests /\ x.pc = "rename"
        /\ x.what = "set" /\ x.key = o.key /\ x.entry = o.entry /\ x.todo = {} /\ x.doomed = {}
    BY <1>4, <2>1, <2>2 DEF FS!Operations, FS!Pcs
  <2>4. tmp' \in [StoreKeys -> StoreEntries \cup {None}] /\ tmp'[o.key] = o.entry
    BY <1>5, <1>7, <2>1, <2>2
  <2> HIDE DEF x
  <2>5. FS!TypeOK' /\ op'[p] = x
    BY <1>1, <1>2, <1>5, <2>1, <2>3, <2>4, FilesTyped
  <2>6. FS!InStep(p)'
    BY <2>1, <2>2, <2>3, <2>4, <2>5 DEF FS!InStep, FS!At, FS!IndexNames, FS!Names
  <2> QED BY <1>3, <2>5, <2>6
<1>10. CASE FS!RenameEntry(p)
  <2>1. o.pc = "rename" /\ UNCHANGED <<kind, ops, index, itmp>>
    BY <1>10 DEF FS!RenameEntry, FS!At, FS!Same
  <2>2. o.what = "set" /\ o.doomed = {} /\ o.todo = {} /\ FS!IndexNames({}) /\ tmp[o.key] = o.entry
    BY <1>2, <2>1 DEF FS!InStep, FS!At
  <2>3. /\ file' = [file EXCEPT ![o.key] = o.entry] /\ tmp' = [tmp EXCEPT ![o.key] = None]
        /\ op' = [op EXCEPT ![p] = IF kind = "data" \/ o.entry.tags # {}
                                   THEN [o EXCEPT !.pc = "load"] ELSE FS!Idle]
    BY <1>7, <1>10, <2>1, <2>2 DEF FS!RenameEntry, FS!Go, FS!Finish
  <2>4. /\ file' \in [StoreKeys -> StoreEntries \cup {None}] /\ tmp' \in [StoreKeys -> StoreEntries \cup {None}]
        /\ file'[o.key] = o.entry /\ \A k \in StoreKeys \ {o.key} : file'[k] = file[k]
    BY <1>5, <1>7, <2>1, <2>2, <2>3
  <2>5. CASE kind = "data" \/ o.entry.tags # {}
    <3> DEFINE x == [o EXCEPT !.pc = "load"]
    <3>1. /\ x \in FS!Operations /\ asks(x) \in FS!Store!Requests /\ x.pc = "load"
          /\ x.what = "set" /\ x.key = o.key /\ x.entry = o.entry /\ x.todo = {} /\ x.doomed = {}
      BY <1>4, <2>1, <2>2 DEF FS!Operations, FS!Pcs
    <3>2. op' = [op EXCEPT ![p] = x]
      BY <2>3, <2>5
    <3> HIDE DEF x
    <3>3. FS!TypeOK' /\ op'[p] = x
      BY <1>1, <1>2, <1>5, <2>1, <2>4, <3>1, <3>2, FilesTyped
    <3>4. FS!InStep(p)'
      BY <2>1, <2>2, <2>4, <3>1, <3>3 DEF FS!InStep, FS!At, FS!IndexNames, FS!Names, FS!Pending, FS!Removed,
                                      FS!EntryIsThere
    <3> QED BY <1>3, <3>3, <3>4
  <2>6. CASE ~(kind = "data" \/ o.entry.tags # {})
    <3>1. op' = [op EXCEPT ![p] = FS!Idle]
      BY <2>3, <2>6
    <3>2. FS!TypeOK' /\ op'[p] = FS!Idle
      BY <1>1, <1>2, <1>5, <2>1, <2>4, <3>1, FilesTyped
    <3>3. FS!InStep(p)'
      BY <2>1, <2>2, <2>4, <2>6, <3>2 DEF FS!InStep, FS!At, FS!IndexNames, FS!Names, FS!Idle
    <3> QED BY <1>3, <3>2, <3>3
  <2> QED BY <2>5, <2>6
<1>11. CASE FS!LoadIndex(p)
  <2>1. o.pc = "load" /\ UNCHANGED <<kind, ops, file, tmp, index>>
    BY <1>11 DEF FS!LoadIndex, FS!At, FS!Same
  <2>2. /\ FS!IndexNames(FS!Pending(p)) /\ FS!EntryIsThere(p) /\ FS!Removed(p) /\ o.todo = {}
        /\ kind = "data" /\ o.what = "purge" => o.doomed = {}
        /\ o.what \in {"drop", "routes"} => o.doomed # {}
    BY <1>2, <2>1 DEF FS!InStep, FS!At
  <2>3. CASE index # None
    <3> DEFINE x == [o EXCEPT !.pc = "edit", !.idx = index]
    <3>1. op' = [op EXCEPT ![p] = x] /\ itmp' = itmp
      BY <1>11, <2>3 DEF FS!LoadIndex, FS!Go
    <3>2. /\ x \in FS!Operations /\ asks(x) \in FS!Store!Requests /\ x.pc = "edit" /\ x.idx = index
          /\ x.what = o.what /\ x.key = o.key /\ x.entry = o.entry /\ x.todo = {} /\ x.doomed = o.doomed
      BY <1>4, <1>5, <2>1, <2>2 DEF FS!Operations, FS!Pcs
    <3> HIDE DEF x
    <3>3. FS!TypeOK' /\ op'[p] = x
      BY <1>1, <1>2, <1>5, <2>1, <3>1, <3>2, FilesTyped
    <3>4. FS!InStep(p)'
      BY <2>1, <2>2, <2>3, <3>2, <3>3 DEF FS!InStep, FS!At, FS!IndexNames, FS!Names, FS!Pending, FS!Removed,
                                      FS!EntryIsThere
    <3> QED BY <1>3, <3>3, <3>4
  <2>4. CASE index = None /\ kind = "route"
    <3> DEFINE x == [o EXCEPT !.pc = "republish", !.idx = FS!Scan]
    <3>1. op' = [op EXCEPT ![p] = x] /\ itmp' = FS!Scan
      BY <1>11, <2>4 DEF FS!LoadIndex, FS!Go
    <3>2. FS!Scan \in FS!Indexes /\ FS!Scan # None
      BY StoreAssumption DEF FS!Scan, FS!Indexes
    <3>3. /\ x \in FS!Operations /\ asks(x) \in FS!Store!Requests /\ x.pc = "republish" /\ x.idx = FS!Scan
          /\ x.what = o.what /\ x.key = o.key /\ x.entry = o.entry /\ x.todo = {} /\ x.doomed = o.doomed
      BY <1>4, <2>1, <2>2, <3>2 DEF FS!Operations, FS!Pcs
    <3>4. FS!Names(FS!Scan, {})
      BY <1>5, StoreAssumption DEF FS!Scan, FS!Names
    <3> HIDE DEF x
    <3>5. FS!TypeOK' /\ op'[p] = x
      BY <1>1, <1>2, <1>5, <2>1, <3>1, <3>2, <3>3, FilesTyped
    <3>6. FS!InStep(p)'
      BY <2>1, <2>2, <2>4, <3>1, <3>2, <3>3, <3>4, <3>5 DEF FS!InStep, FS!At, FS!Names, FS!Removed, FS!EntryIsThere
    <3> QED BY <1>3, <3>5, <3>6
  <2>5. CASE index = None /\ kind = "data" /\ o.what = "set"
    <3> DEFINE x == [o EXCEPT !.pc = "edit", !.idx = FS!NoTags]
    <3>1. op' = [op EXCEPT ![p] = x] /\ itmp' = itmp
      BY <1>11, <2>5 DEF FS!LoadIndex, FS!Go
    <3>2. FS!NoTags \in FS!Indexes /\ FS!NoTags # None
      BY StoreAssumption DEF FS!NoTags, FS!Indexes
    <3>3. /\ x \in FS!Operations /\ asks(x) \in FS!Store!Requests /\ x.pc = "edit" /\ x.idx = FS!NoTags
          /\ x.what = o.what /\ x.key = o.key /\ x.entry = o.entry /\ x.todo = {} /\ x.doomed = o.doomed
      BY <1>4, <2>1, <2>2, <3>2 DEF FS!Operations, FS!Pcs
    <3> HIDE DEF x
    <3>4. FS!TypeOK' /\ op'[p] = x
      BY <1>1, <1>2, <1>5, <2>1, <3>1, <3>3, FilesTyped
    <3>5. FS!InStep(p)'
      BY <2>1, <2>2, <2>5, <3>2, <3>3, <3>4 DEF FS!InStep, FS!At, FS!IndexNames, FS!Names, FS!Pending, FS!Removed,
                                      FS!EntryIsThere
    <3> QED BY <1>3, <3>4, <3>5
  <2>6. CASE index = None /\ kind # "route" /\ ~(kind = "data" /\ o.what = "set")
    <3>1. op' = [op EXCEPT ![p] = FS!Idle] /\ itmp' = itmp
      BY <1>11, <2>6 DEF FS!LoadIndex, FS!Finish
    <3>2. FS!TypeOK' /\ op'[p] = FS!Idle
      BY <1>1, <1>2, <1>5, <2>1, <3>1, FilesTyped
    <3>3. o.what # "set"
      BY <1>2, <2>6 DEF FS!TypeOK
    <3>4. FS!InStep(p)'
      BY <2>1, <2>2, <3>2, <3>3 DEF FS!InStep, FS!At, FS!IndexNames, FS!Names, FS!Pending, FS!Idle
    <3> QED BY <1>3, <3>2, <3>4
  <2> QED BY <2>3, <2>4, <2>5, <2>6
<1>12. CASE FS!Republish(p)
  <2> DEFINE x == [o EXCEPT !.pc = "edit"]
  <2>1. o.pc = "republish" /\ UNCHANGED <<kind, ops, file, tmp>> /\ op' = [op EXCEPT ![p] = x] /\ itmp' = None
    BY <1>12 DEF FS!Republish, FS!At, FS!Same, FS!Go
  <2>2. /\ FS!EntryIsThere(p) /\ FS!Removed(p) /\ o.todo = {} /\ kind = "route" /\ o.idx # None /\ itmp = o.idx
        /\ FS!Names(itmp, {})
        /\ o.what \in {"drop", "routes"} => o.doomed # {}
    BY <1>2, <2>1 DEF FS!InStep, FS!At
  <2>3. index' = itmp
    BY <1>12, <2>2 DEF FS!Republish
  <2>4. /\ x \in FS!Operations /\ asks(x) \in FS!Store!Requests /\ x.pc = "edit" /\ x.idx = itmp
        /\ x.what = o.what /\ x.key = o.key /\ x.entry = o.entry /\ x.todo = {} /\ x.doomed = o.doomed
    BY <1>4, <2>1, <2>2 DEF FS!Operations, FS!Pcs
  <2> HIDE DEF x
  <2>5. FS!TypeOK' /\ op'[p] = x
    BY <1>1, <1>2, <1>5, <2>1, <2>3, <2>4, FilesTyped
  <2>6. FS!InStep(p)'
    BY <2>1, <2>2, <2>3, <2>4, <2>5 DEF FS!InStep, FS!At, FS!IndexNames, FS!Names, FS!Pending, FS!Removed,
                                        FS!EntryIsThere
  <2> QED BY <1>3, <2>5, <2>6
<1>13. ASSUME o.pc = "edit"
       PROVE  /\ FS!IndexNames(FS!Pending(p)) /\ FS!EntryIsThere(p) /\ FS!Removed(p) /\ o.todo = {}
              /\ o.idx \in FS!Indexes /\ FS!Names(o.idx, FS!Pending(p))
              /\ kind = "data" /\ o.what = "purge" /\ o.doomed # {} => o.doomed = FS!Matches(p)
              /\ o.what \in {"drop", "routes"} => o.doomed # {}
              /\ o.what = "purge" => o.arg \subseteq StoreTags
              /\ FS!Edited(p) \in FS!Indexes /\ FS!Edited(p) # None
  <2>1. /\ FS!IndexNames(FS!Pending(p)) /\ FS!EntryIsThere(p) /\ FS!Removed(p) /\ o.todo = {}
        /\ o.idx # None /\ FS!Names(o.idx, FS!Pending(p))
        /\ kind = "data" /\ o.what = "purge" /\ o.doomed # {} => o.doomed = FS!Matches(p)
        /\ o.what \in {"drop", "routes"} => o.doomed # {}
    BY <1>2, <1>13 DEF FS!InStep, FS!At
  <2>2. o.idx \in FS!Indexes
    BY <1>4, <1>6, <1>13, <2>1
  <2>3. o.what = "purge" => o.arg \subseteq StoreTags
    BY <1>4, <1>13 DEF FS!Store!Requests
  <2>4. o.what = "set" => o.key \in StoreKeys
    BY <1>7, <1>13
  <2>5. FS!Edited(p) \in FS!Indexes
    <3> SUFFICES ASSUME NEW t \in StoreTags
                 PROVE  (CASE o.what = "set" -> o.idx[t] \cup (IF t \in o.entry.tags THEN {o.key} ELSE {})
                           [] o.what = "purge" /\ kind = "data" -> IF t \in o.arg THEN {} ELSE o.idx[t]
                           [] OTHER -> o.idx[t] \ o.doomed) \in SUBSET StoreKeys
      BY DEF FS!Edited, FS!Indexes
    <3>1. o.idx[t] \in SUBSET StoreKeys
      BY <2>2 DEF FS!Indexes
    <3>2. CASE o.what = "set"
      BY <2>4, <3>1, <3>2
    <3>3. CASE o.what = "purge" /\ kind = "data"
      BY <3>1, <3>3
    <3>4. CASE o.what # "set" /\ ~(o.what = "purge" /\ kind = "data")
      BY <3>1, <3>4
    <3> QED BY <3>2, <3>3, <3>4
  <2> QED BY <2>1, <2>2, <2>3, <2>5, StoreAssumption
\* What an operation makes of the index names each entry that is there.
<1>14. ASSUME o.pc = "edit", ~FS!FindsByTag(p) \/ (kind = "data" /\ FS!Matches(p) = {})
       PROVE  FS!Names(FS!Edited(p), {})
  <2> SUFFICES ASSUME NEW k \in StoreKeys, file[k] # None, NEW t \in file[k].tags
               PROVE  k \in FS!Edited(p)[t]
    BY DEF FS!Names
  <2>1. t \in StoreTags
    BY <1>5, StoreAssumption
  <2>2. FS!Edited(p)[t] = CASE o.what = "set" -> o.idx[t] \cup (IF t \in o.entry.tags THEN {o.key} ELSE {})
                            [] o.what = "purge" /\ kind = "data" -> IF t \in o.arg THEN {} ELSE o.idx[t]
                            [] OTHER -> o.idx[t] \ o.doomed
    BY <2>1 DEF FS!Edited
  <2>3. CASE o.what = "set"
    BY <1>13, <1>14, <2>2, <2>3 DEF FS!EntryIsThere, FS!Names, FS!Pending
  <2>4. ASSUME o.what # "set" PROVE k \in o.idx[t] /\ k \notin o.doomed
    BY <1>13, <1>14, <2>4 DEF FS!Removed, FS!Names, FS!Pending
  <2>5. CASE o.what = "purge" /\ kind = "data"
    <3>1. k \in o.idx[t] /\ k \notin o.doomed
      BY <2>4, <2>5
    <3>2. t \in o.arg => k \in FS!Matches(p)
      BY <3>1 DEF FS!Matches
    <3>3. t \notin o.arg
      BY <1>13, <1>14, <2>5, <3>1, <3>2 DEF FS!FindsByTag
    <3> QED BY <2>2, <2>5, <3>1, <3>3
  <2>6. CASE o.what # "set" /\ ~(o.what = "purge" /\ kind = "data")
    BY <2>2, <2>4, <2>6
  <2> QED BY <2>3, <2>5, <2>6
<1>15. CASE FS!EditIndex(p)
  <2>1. o.pc = "edit" /\ ~FS!FindsByTag(p) /\ UNCHANGED <<kind, ops, file, tmp>>
    BY <1>15 DEF FS!EditIndex, FS!At, FS!Same
  <2>2. FS!Names(FS!Edited(p), {}) /\ FS!Edited(p) \in FS!Indexes /\ FS!Edited(p) # None
    BY <1>13, <1>14, <2>1
  <2>3. CASE kind = "route" /\ FS!Edited(p) = FS!NoTags
    <3>1. index' = None /\ op' = [op EXCEPT ![p] = FS!Idle] /\ itmp' = itmp
      BY <1>15, <2>3 DEF FS!EditIndex, FS!Finish
    <3>2. FS!TypeOK' /\ op'[p] = FS!Idle
      BY <1>1, <1>2, <1>5, <2>1, <3>1, FilesTyped
    <3>3. FS!InStep(p)'
      BY <2>1, <2>3, <3>1, <3>2 DEF FS!InStep, FS!At, FS!IndexNames, FS!Idle
    <3> QED BY <1>3, <3>2, <3>3
  <2>4. CASE kind = "data" /\ o.what = "drop" /\ FS!Edited(p) = o.idx
    <3>1. index' = index /\ op' = [op EXCEPT ![p] = FS!Idle] /\ itmp' = itmp
      BY <1>15, <2>4 DEF FS!EditIndex, FS!Finish
    <3>2. FS!TypeOK' /\ op'[p] = FS!Idle
      BY <1>1, <1>2, <1>5, <2>1, <3>1, FilesTyped
    <3>3. FS!InStep(p)'
      BY <1>13, <2>1, <2>4, <3>1, <3>2 DEF FS!InStep, FS!At, FS!IndexNames, FS!Names, FS!Pending, FS!Idle
    <3> QED BY <1>3, <3>2, <3>3
  <2>5. CASE ~(kind = "route" /\ FS!Edited(p) = FS!NoTags) /\ ~(kind = "data" /\ o.what = "drop" /\ FS!Edited(p) = o.idx)
    <3> DEFINE x == [o EXCEPT !.pc = "publish"]
    <3>1. index' = index /\ op' = [op EXCEPT ![p] = x] /\ itmp' = FS!Edited(p)
      BY <1>15, <2>5 DEF FS!EditIndex, FS!Go
    <3>2. x \in FS!Operations /\ asks(x) \in FS!Store!Requests /\ x.pc = "publish"
      BY <1>4, <2>1 DEF FS!Operations, FS!Pcs
    <3> HIDE DEF x
    <3>3. FS!TypeOK' /\ op'[p] = x
      BY <1>1, <1>2, <1>5, <2>1, <2>2, <3>1, <3>2, FilesTyped
    <3>4. FS!InStep(p)'
      BY <2>1, <2>2, <3>1, <3>2, <3>3 DEF FS!InStep, FS!At, FS!Names
    <3> QED BY <1>3, <3>3, <3>4
  <2> QED BY <2>3, <2>4, <2>5
<1>16. CASE FS!PublishIndex(p)
  <2>1. /\ o.pc = "publish" /\ UNCHANGED <<kind, ops, file, tmp>> /\ op' = [op EXCEPT ![p] = FS!Idle]
        /\ itmp' = None
    BY <1>16 DEF FS!PublishIndex, FS!At, FS!Same, FS!Finish
  <2>2. itmp # None /\ FS!Names(itmp, {})
    BY <1>2, <2>1 DEF FS!InStep, FS!At
  <2>3. index' = itmp
    BY <1>16, <2>2 DEF FS!PublishIndex
  <2>4. FS!TypeOK' /\ op'[p] = FS!Idle
    BY <1>1, <1>2, <1>5, <2>1, <2>3, FilesTyped
  <2>5. FS!InStep(p)'
    BY <2>1, <2>2, <2>3, <2>4 DEF FS!InStep, FS!At, FS!IndexNames, FS!Names, FS!Idle
  <2> QED BY <1>3, <2>4, <2>5
<1>17. CASE FS!FindByTag(p)
  <2>1. /\ o.pc = "edit" /\ o.what = "purge" /\ o.doomed = {} /\ UNCHANGED <<kind, ops, file, tmp, index>>
    BY <1>17 DEF FS!FindByTag, FS!FindsByTag, FS!At, FS!Same
  <2>2. FS!IndexNames({}) /\ FS!Names(o.idx, {}) /\ o.idx \in FS!Indexes /\ o.arg \subseteq StoreTags
    BY <1>13, <2>1 DEF FS!Pending
  <2>3. FS!Matches(p) \in SUBSET StoreKeys
    BY <2>2 DEF FS!Matches, FS!Indexes
  <2>4. CASE FS!Matches(p) # {}
    <3> DEFINE x == [o EXCEPT !.pc = "unlink", !.todo = FS!Matches(p), !.doomed = FS!Matches(p)]
    <3>1. op' = [op EXCEPT ![p] = x] /\ itmp' = itmp
      BY <1>17, <2>4 DEF FS!FindByTag, FS!Go
    <3>2. /\ x \in FS!Operations /\ asks(x) \in FS!Store!Requests /\ x.pc = "unlink" /\ x.what = "purge"
          /\ x.todo = FS!Matches(p) /\ x.doomed = FS!Matches(p) /\ x.idx = o.idx /\ x.arg = o.arg
      BY <1>4, <2>1, <2>3 DEF FS!Operations, FS!Pcs
    <3> HIDE DEF x
    <3>3. FS!TypeOK' /\ op'[p] = x
      BY <1>1, <1>2, <1>5, <2>1, <3>1, <3>2, FilesTyped
    <3>4. FS!Matches(p)' = FS!Matches(p)
      BY <3>2, <3>3 DEF FS!Matches
    <3>5. o.idx # None
      BY <2>2, StoreAssumption
    <3>6. FS!InStep(p)'
      BY <2>1, <2>2, <2>4, <3>2, <3>3, <3>4, <3>5 DEF FS!InStep, FS!At, FS!IndexNames, FS!Names, FS!Removed
    <3> QED BY <1>3, <3>3, <3>6
  <2>5. CASE FS!Matches(p) = {} /\ kind = "data"
    <3> DEFINE x == [o EXCEPT !.pc = "publish"]
    <3>1. op' = [op EXCEPT ![p] = x] /\ itmp' = FS!Edited(p)
      BY <1>17, <2>5 DEF FS!FindByTag, FS!Go
    <3>2. x \in FS!Operations /\ asks(x) \in FS!Store!Requests /\ x.pc = "publish"
      BY <1>4, <2>1 DEF FS!Operations, FS!Pcs
    <3>3. FS!Names(FS!Edited(p), {}) /\ FS!Edited(p) \in FS!Indexes /\ FS!Edited(p) # None
      BY <1>13, <1>14, <2>1, <2>5
    <3> HIDE DEF x
    <3>4. FS!TypeOK' /\ op'[p] = x
      BY <1>1, <1>2, <1>5, <2>1, <3>1, <3>2, <3>3, FilesTyped
    <3>5. FS!InStep(p)'
      BY <2>1, <3>1, <3>2, <3>3, <3>4 DEF FS!InStep, FS!At, FS!Names
    <3> QED BY <1>3, <3>4, <3>5
  <2>6. CASE FS!Matches(p) = {} /\ kind # "data"
    <3>1. op' = [op EXCEPT ![p] = FS!Idle] /\ itmp' = itmp
      BY <1>17, <2>6 DEF FS!FindByTag, FS!Finish
    <3>2. FS!TypeOK' /\ op'[p] = FS!Idle
      BY <1>1, <1>2, <1>5, <2>1, <3>1, FilesTyped
    <3>3. FS!InStep(p)'
      BY <2>1, <2>2, <3>2 DEF FS!InStep, FS!At, FS!IndexNames, FS!Names, FS!Idle
    <3> QED BY <1>3, <3>2, <3>3
  <2> QED BY <2>4, <2>5, <2>6
<1>18. CASE FS!Find(p)
  <2> DEFINE chosen == IF o.what = "drop" THEN o.arg
                       ELSE {k \in StoreKeys : file[k] # None /\ file[k].routes \cap o.arg # {}}
  <2>1. o.pc = "find" /\ UNCHANGED <<kind, ops, file, tmp, index, itmp>>
    BY <1>18 DEF FS!Find, FS!At, FS!Same
  <2>2. FS!IndexNames({}) /\ o.what \in {"drop", "routes"} /\ o.doomed = {} /\ o.todo = {}
    BY <1>2, <2>1 DEF FS!InStep, FS!At
  <2>3. chosen \in SUBSET StoreKeys
    BY <1>4, <2>1, <2>2 DEF FS!Store!Requests
  <2>4. op' = [op EXCEPT ![p] = IF chosen = {} THEN FS!Idle
                                ELSE [o EXCEPT !.pc = "unlink", !.todo = chosen, !.doomed = chosen]]
    BY <1>18 DEF FS!Find, FS!Go, FS!Finish
  <2> HIDE DEF chosen
  <2>5. CASE chosen = {}
    <3>1. op' = [op EXCEPT ![p] = FS!Idle]
      BY <2>4, <2>5
    <3>2. FS!TypeOK' /\ op'[p] = FS!Idle
      BY <1>1, <1>2, <1>5, <2>1, <3>1, FilesTyped
    <3>3. FS!InStep(p)'
      BY <2>1, <2>2, <3>2 DEF FS!InStep, FS!At, FS!IndexNames, FS!Names, FS!Idle
    <3> QED BY <1>3, <3>2, <3>3
  <2>6. CASE chosen # {}
    <3> DEFINE x == [o EXCEPT !.pc = "unlink", !.todo = chosen, !.doomed = chosen]
    <3>1. op' = [op EXCEPT ![p] = x]
      BY <2>4, <2>6
    <3>2. /\ x \in FS!Operations /\ asks(x) \in FS!Store!Requests /\ x.pc = "unlink" /\ x.what = o.what
          /\ x.todo = chosen /\ x.doomed = chosen
      BY <1>4, <2>1, <2>3 DEF FS!Operations, FS!Pcs
    <3> HIDE DEF x
    <3>3. FS!TypeOK' /\ op'[p] = x
      BY <1>1, <1>2, <1>5, <2>1, <3>1, <3>2, FilesTyped
    <3>4. FS!InStep(p)'
      BY <2>1, <2>2, <2>6, <3>2, <3>3 DEF FS!InStep, FS!At, FS!IndexNames, FS!Names, FS!Removed
    <3> QED BY <1>3, <3>3, <3>4
  <2> QED BY <2>5, <2>6
<1>19. ASSUME NEW k \in StoreKeys, FS!Unlink(p, k) PROVE FS!Inv'
  <2> DEFINE left == o.todo \ {k}
             after == IF left # {} THEN "unlink" ELSE IF kind = "data" /\ o.what = "purge" THEN "edit" ELSE "load"
             x == [o EXCEPT !.todo = left, !.pc = after]
  <2>1. /\ o.pc = "unlink" /\ k \in o.todo /\ file' = [file EXCEPT ![k] = None]
        /\ UNCHANGED <<kind, ops, tmp, index, itmp>>
    BY <1>19 DEF FS!Unlink, FS!At, FS!Same
  <2>2. op' = [op EXCEPT ![p] = x]
    BY <1>19 DEF FS!Unlink, FS!Go
  <2>3. /\ FS!IndexNames({}) /\ o.what # "set" /\ o.doomed # {} /\ FS!Removed(p) /\ o.todo \subseteq o.doomed
        /\ kind = "data" /\ o.what = "purge" => o.idx # None /\ FS!Names(o.idx, {}) /\ o.doomed = FS!Matches(p)
    BY <1>2, <2>1 DEF FS!InStep, FS!At
  <2>4. /\ x \in FS!Operations /\ asks(x) \in FS!Store!Requests /\ x.pc = after /\ x.what = o.what
        /\ x.todo = left /\ x.doomed = o.doomed /\ x.idx = o.idx /\ x.arg = o.arg
    <3>1. left \in SUBSET StoreKeys /\ after \in FS!Pcs
      BY <1>4, <1>6, <2>1 DEF FS!Pcs
    <3>2. o \in FS!Operations /\ asks(o) \in FS!Store!Requests
      BY <1>4, <2>1
    <3> HIDE DEF left, after
    <3>3. /\ x \in FS!Operations /\ x.pc = after /\ x.what = o.what /\ x.key = o.key /\ x.entry = o.entry
          /\ x.todo = left /\ x.doomed = o.doomed /\ x.idx = o.idx /\ x.arg = o.arg
      BY <3>1, <3>2 DEF FS!Operations
    <3> HIDE DEF x
    <3> QED BY <3>2, <3>3
  <2>5. /\ file' \in [StoreKeys -> StoreEntries \cup {None}] /\ file'[k] = None
        /\ \A j \in StoreKeys : file'[j] = None \/ file'[j] = file[j]
    BY <1>5, <2>1
  <2> HIDE DEF x
  <2>6. FS!TypeOK' /\ op'[p] = x
    BY <1>1, <1>2, <1>5, <2>1, <2>2, <2>4, <2>5, FilesTyped
  <2>7. FS!Matches(p)' = FS!Matches(p)
    BY <2>4, <2>6 DEF FS!Matches
  <2>8. \A j \in o.doomed \ left : file'[j] = None
    BY <1>4, <1>6, <2>1, <2>3, <2>5 DEF FS!Removed
  <2>9. FS!IndexNames({})'
    BY <2>1, <2>3, <2>5 DEF FS!IndexNames, FS!Names
  <2>10. kind = "data" /\ o.what = "purge" => FS!Names(op[p].idx, {})'
    BY <2>3, <2>4, <2>5, <2>6 DEF FS!Names
  <2> HIDE DEF left
  <2>11. CASE left # {}
    <3>1. left \subseteq o.doomed
      BY <2>3 DEF left
    <3> QED BY <1>3, <2>1, <2>3, <2>4, <2>6, <2>7, <2>8, <2>9, <2>10, <2>11, <3>1
            DEF FS!InStep, FS!At, FS!Removed
  <2>12. CASE left = {} /\ kind = "data" /\ o.what = "purge"
    <3>1. FS!Pending(p)' = {}
      BY <2>3, <2>4, <2>6 DEF FS!Pending
    <3>2. FS!IndexNames(FS!Pending(p))' /\ FS!Names(op[p].idx, FS!Pending(p))'
      BY <2>1, <2>9, <2>10, <2>12, <3>1 DEF FS!IndexNames, FS!Names
    <3> QED BY <1>3, <2>1, <2>3, <2>4, <2>6, <2>7, <2>8, <2>12, <3>2
            DEF FS!InStep, FS!At, FS!Removed, FS!EntryIsThere
  <2>13. CASE left = {} /\ ~(kind = "data" /\ o.what = "purge")
    <3>1. FS!Pending(p)' = {}
      BY <2>3, <2>4, <2>6 DEF FS!Pending
    <3>2. FS!IndexNames(FS!Pending(p))'
      BY <2>9, <3>1 DEF FS!IndexNames, FS!Names
    <3> QED BY <1>3, <2>1, <2>3, <2>4, <2>6, <2>8, <2>13, <3>2
            DEF FS!InStep, FS!At, FS!Removed, FS!EntryIsThere
  <2> QED BY <2>11, <2>12, <2>13
<1>20. CASE FS!LoseIndex
  <2>1. kind = "route" /\ index' = None /\ UNCHANGED <<kind, file, tmp, itmp, op, ops>>
    BY <1>20 DEF FS!LoseIndex
  <2>2. FS!TypeOK'
    <3>1. \A q \in StoreCallers : FS!Request(q)' = FS!Request(q)
      BY <2>1 DEF FS!Request
    <3> QED BY <1>2, <2>1, <3>1 DEF FS!TypeOK
  <2>3. FS!InStep(p)'
    BY <1>2, <2>1 DEF FS!InStep, FS!At, FS!IndexNames, FS!Names, FS!Pending, FS!Removed, FS!EntryIsThere, FS!Matches
  <2> QED BY <1>3, <2>2, <2>3
<1>21. CASE UNCHANGED own
  <2>1. FS!TypeOK'
    <3>1. \A q \in StoreCallers : FS!Request(q)' = FS!Request(q)
      BY <1>21 DEF own, FS!Request
    <3> QED BY <1>2, <1>21, <3>1 DEF own, FS!TypeOK
  <2>2. FS!InStep(p)'
    BY <1>2, <1>21 DEF own, FS!InStep, FS!At, FS!IndexNames, FS!Names, FS!Pending, FS!Removed, FS!EntryIsThere,
                       FS!Matches
  <2> QED BY <1>3, <2>1, <2>2
<1>22. CASE FS!Step(p)
  <2>1. ASSUME NEW k \in StoreKeys, NEW e \in StoreEntries, FS!Set(p, k, e) PROVE FS!Inv'
    BY <1>8, <2>1 DEF FS!Set, FS!Store!Requests
  <2>2. ASSUME NEW ts \in SUBSET StoreTags, FS!Purge(p, ts) PROVE FS!Inv'
    BY <1>8, <2>2 DEF FS!Purge, FS!Store!Requests
  <2>3. ASSUME NEW ks \in SUBSET StoreKeys, FS!Drop(p, ks) PROVE FS!Inv'
    BY <1>8, <2>3 DEF FS!Drop, FS!Store!Requests
  <2>4. ASSUME NEW rs \in SUBSET StoreRoutes, FS!PurgeLinkedRoutes(p, rs) PROVE FS!Inv'
    BY <1>8, <2>4 DEF FS!PurgeLinkedRoutes, FS!Store!Requests
  <2> QED BY <1>9, <1>10, <1>11, <1>12, <1>15, <1>16, <1>17, <1>18, <1>19, <1>22, <2>1, <2>2, <2>3, <2>4 DEF FS!Step
<1> QED BY <1>1, <1>20, <1>21, <1>22, FilesSteps DEF FS!Next

\* What the store shows of the files, and of what the caller has asked for.
SeenAt(p, k) == IF FS!At(p, "unlink") /\ k \in op[p].todo THEN None ELSE file[k]
LEMMA FilesSeen ==
  ASSUME NEW p, StoreCallers = {p}
  PROVE  /\ FS!Visible = [k \in StoreKeys |-> SeenAt(p, k)]
         /\ FS!Visible' = [k \in StoreKeys |-> SeenAt(p, k)']
         /\ FS!Asked = [q \in {p} |-> IF FS!IsAsked(p) THEN FS!Request(p) ELSE None]
         /\ FS!Asked' = [q \in {p} |-> IF FS!IsAsked(p)' THEN FS!Request(p)' ELSE None]
         /\ (\A k \in StoreKeys : SeenAt(p, k)' = SeenAt(p, k)) => FS!Visible' = FS!Visible
<1>1. \A k : FS!Doomed(k) <=> FS!At(p, "unlink") /\ k \in op[p].todo
  BY DEF FS!Doomed, FS!At
<1>2. \A k : FS!Doomed(k)' <=> (FS!At(p, "unlink") /\ k \in op[p].todo)'
  BY DEF FS!Doomed, FS!At
<1>3. FS!Visible = [k \in StoreKeys |-> SeenAt(p, k)] /\ FS!Visible' = [k \in StoreKeys |-> SeenAt(p, k)']
  BY <1>1, <1>2 DEF FS!Visible, SeenAt
<1>4. /\ FS!Asked = [q \in {p} |-> IF FS!IsAsked(p) THEN FS!Request(p) ELSE None]
      /\ FS!Asked' = [q \in {p} |-> IF FS!IsAsked(p)' THEN FS!Request(p)' ELSE None]
  BY DEF FS!Asked
<1> QED BY <1>3, <1>4

LEMMA StoreStutters ==
  ASSUME NEW p, StoreCallers = {p}, FS!IsAsked(p)' <=> FS!IsAsked(p),
         FS!IsAsked(p) => FS!Request(p)' = FS!Request(p),
         \A k \in StoreKeys : SeenAt(p, k)' = SeenAt(p, k)
  PROVE  UNCHANGED <<FS!Visible, FS!Asked>>
<1>1. FS!Visible' = FS!Visible
  BY FilesSeen
<1>2. FS!Asked' = FS!Asked
  <2>1. CASE FS!IsAsked(p)
    BY <2>1, FilesSeen
  <2>2. CASE ~FS!IsAsked(p)
    BY <2>2, FilesSeen
  <2> QED BY <2>1, <2>2
<1> QED BY <1>1, <1>2

LEMMA StoreAsks ==
  ASSUME NEW p, StoreCallers = {p}, ~FS!IsAsked(p), FS!IsAsked(p)', FS!Request(p)' \in FS!Store!Requests,
         \A k \in StoreKeys : SeenAt(p, k)' = SeenAt(p, k)
  PROVE  FS!Store!Next
<1>1. FS!Visible' = FS!Visible
  BY FilesSeen
<1>2. FS!Asked = [q \in {p} |-> None] /\ FS!Asked' = [q \in {p} |-> FS!Request(p)']
  BY FilesSeen
<1>3. FS!Asked' = [FS!Asked EXCEPT ![p] = FS!Request(p)'] /\ FS!Asked[p] = None /\ FS!Asked'[p] # None
  BY <1>2, StoreAssumption
<1>4. FS!Store!Ask(p)
  BY <1>1, <1>3 DEF FS!Store!Ask
<1> QED BY <1>4 DEF FS!Store!Next

\* An operation that was asked for takes effect.
LEMMA StoreActs ==
  ASSUME NEW p, StoreCallers = {p}, FS!IsAsked(p), ~FS!IsAsked(p)', FS!Request(p) \in FS!Store!Requests,
         \/ FS!Store!Set(FS!Request(p)) \/ FS!Store!Purge(FS!Request(p))
         \/ FS!Store!PurgeKeys(FS!Request(p)) \/ FS!Store!PurgeLinkedRoutes(FS!Request(p))
  PROVE  FS!Store!Next
<1>1. FS!Asked = [q \in {p} |-> FS!Request(p)] /\ FS!Asked' = [q \in {p} |-> None]
  BY FilesSeen
<1>2. FS!Asked' = [FS!Asked EXCEPT ![p] = None] /\ FS!Asked[p] = FS!Request(p) /\ FS!Asked'[p] = None
  BY <1>1
<1>3. FS!Request(p) # None
  BY StoreAssumption
<1>4. FS!Store!TakeEffect(p)
  BY <1>2, <1>3 DEF FS!Store!TakeEffect
<1> QED BY <1>4 DEF FS!Store!Next

\* Every step of the files is one of the store, or none.
LEMMA FilesImplement ==
  FS!OneCaller /\ FS!Inv /\ [Next]_all => [FS!Store!Next]_<<FS!Visible, FS!Asked>>
<1> DEFINE StoreStep == FS!Store!Next \/ UNCHANGED <<FS!Visible, FS!Asked>>
<1> SUFFICES ASSUME FS!OneCaller, FS!Inv, [Next]_all PROVE StoreStep
  OBVIOUS
<1>1. PICK p : StoreCallers = {p}
  BY DEF FS!OneCaller
<1>2. FS!TypeOK /\ FS!InStep(p)
  BY <1>1 DEF FS!Inv
<1> DEFINE o == op[p]
           asksFor(x) == \/ x.pc \in {"write", "rename", "find"}
                         \/ x.pc \in {"load", "republish", "edit"} /\ x.what = "purge" /\ x.doomed = {}
           requestOf(x) == [what |-> x.what, key |-> x.key, entry |-> x.entry, arg |-> x.arg]
<1>3. /\ o \in {FS!Idle} \cup FS!Operations
      /\ o.pc # "idle" => o \in FS!Operations /\ requestOf(o) \in FS!Store!Requests
      /\ kind \in {"route", "data"}
  BY <1>1, <1>2 DEF FS!TypeOK, FS!Idle, FS!Request
<1>4. /\ file \in [StoreKeys -> StoreEntries \cup {None}]
      /\ FS!Request(p) = requestOf(o) /\ FS!Request(p)' = requestOf(op'[p])
      /\ FS!IsAsked(p) <=> asksFor(o)
      /\ FS!IsAsked(p)' <=> asksFor(op'[p])
  BY <1>2 DEF FS!TypeOK, FS!Request, FS!IsAsked, FS!At, FS!FindsByTag
<1>5. \A x : op' = [op EXCEPT ![p] = x] => op'[p] = x
  BY <1>1, <1>2 DEF FS!TypeOK
<1> HIDE DEF StoreStep
<1>6. FS!Store!Next \/ UNCHANGED <<FS!Visible, FS!Asked>> => StoreStep
  BY DEF StoreStep
\* Before an operation unlinks what it has chosen, the store is what is on disk.
<1>7. o.pc # "unlink" => FS!Visible = file
  <2>1. FS!Visible = [k \in StoreKeys |-> SeenAt(p, k)]
    BY <1>1, FilesSeen
  <2>2. o.pc # "unlink" => \A k \in StoreKeys : SeenAt(p, k) = file[k]
    BY DEF SeenAt, FS!At
  <2> QED BY <1>4, <2>1, <2>2
<1>8. op'[p].pc # "unlink" => FS!Visible' = [k \in StoreKeys |-> file'[k]]
  <2>1. FS!Visible' = [k \in StoreKeys |-> SeenAt(p, k)']
    BY <1>1, FilesSeen
  <2>2. op'[p].pc # "unlink" => \A k \in StoreKeys : SeenAt(p, k)' = file'[k]
    BY DEF SeenAt, FS!At
  <2> QED BY <2>1, <2>2
<1>9. ASSUME NEW what, NEW key, NEW entry, NEW arg, NEW pc, FS!Start(p, what, key, entry, arg, pc),
             [what |-> what, key |-> key, entry |-> entry, arg |-> arg] \in FS!Store!Requests,
             \/ what = "set" /\ pc = "write"
             \/ what = "purge" /\ pc = "load"
             \/ what \in {"drop", "routes"} /\ pc = "find"
      PROVE  StoreStep
  <2> DEFINE x == [pc |-> pc, what |-> what, key |-> key, entry |-> entry, arg |-> arg,
                   todo |-> {}, doomed |-> {}, idx |-> None]
  <2>1. o.pc = "idle" /\ op' = [op EXCEPT ![p] = x] /\ UNCHANGED <<kind, file, tmp, index, itmp>>
    BY <1>9 DEF FS!Start
  <2>2. asksFor(x) /\ requestOf(x) \in FS!Store!Requests /\ x.pc # "unlink"
    BY <1>9
  <2> HIDE DEF x
  <2>3. op'[p] = x /\ ~asksFor(o)
    BY <1>5, <2>1
  <2>4. \A k \in StoreKeys : SeenAt(p, k)' = SeenAt(p, k)
    BY <2>1, <2>2, <2>3 DEF SeenAt, FS!At
  <2> QED BY <1>1, <1>4, <1>6, <2>2, <2>3, <2>4, StoreAsks
<1>10. CASE FS!WriteEntry(p)
  <2>1. o.pc = "write" /\ op' = [op EXCEPT ![p] = [o EXCEPT !.pc = "rename"]] /\ file' = file
    BY <1>10 DEF FS!WriteEntry, FS!At, FS!Go
  <2>2. op'[p].pc = "rename" /\ requestOf(op'[p]) = requestOf(o)
    <3>1. op'[p] = [o EXCEPT !.pc = "rename"]
      BY <1>5, <2>1
    <3> QED BY <1>3, <2>1, <3>1 DEF FS!Operations
  <2>3. \A k \in StoreKeys : SeenAt(p, k)' = SeenAt(p, k)
    BY <2>1, <2>2 DEF SeenAt, FS!At
  <2> QED BY <1>1, <1>4, <1>6, <2>1, <2>2, <2>3, StoreStutters
<1>11. CASE FS!RenameEntry(p)
  <2>1. o.pc = "rename"
    BY <1>11 DEF FS!RenameEntry, FS!At
  <2>2. o.what = "set" /\ tmp[o.key] = o.entry /\ requestOf(o) \in FS!Store!Requests
    BY <1>2, <1>3, <2>1 DEF FS!InStep, FS!At
  <2>3. o.key \in StoreKeys /\ o.entry \in StoreEntries /\ o.entry # None
    BY <2>2, StoreAssumption DEF FS!Store!Requests
  <2>4. /\ file' = [file EXCEPT ![o.key] = o.entry]
        /\ \/ op' = [op EXCEPT ![p] = [o EXCEPT !.pc = "load"]]
           \/ op' = [op EXCEPT ![p] = FS!Idle]
    BY <1>11, <2>2, <2>3 DEF FS!RenameEntry, FS!Go, FS!Finish
  <2>5. op'[p].pc # "unlink" /\ ~asksFor(op'[p])
    <3>1. CASE op'[p] = [o EXCEPT !.pc = "load"]
      BY <1>3, <2>1, <2>2, <3>1 DEF FS!Operations
    <3>2. CASE op'[p] = FS!Idle
      BY <3>2 DEF FS!Idle
    <3> QED BY <1>5, <2>4, <3>1, <3>2
  <2>6. FS!Visible = file /\ FS!Visible' = file'
    <3>1. FS!Visible' = [k \in StoreKeys |-> file'[k]]
      BY <1>8, <2>5
    <3>2. file' \in [StoreKeys -> StoreEntries \cup {None}]
      BY <1>4, <2>3, <2>4
    <3> QED BY <1>7, <2>1, <3>1, <3>2
  <2>7. FS!Store!Set(FS!Request(p))
    BY <1>4, <2>2, <2>4, <2>6 DEF FS!Store!Set
  <2> QED BY <1>1, <1>4, <1>6, <2>1, <2>2, <2>5, <2>7, StoreActs
\* What has no effect on the entries when there is nothing to remove.
<1>12. ASSUME o.what = "purge", o.pc # "unlink", NEW d \in SUBSET StoreKeys,
              \A k \in StoreKeys : file[k] # None /\ file[k].tags \cap o.arg # {} => k \in d,
              \A k \in StoreKeys : SeenAt(p, k)' = IF k \in d THEN None ELSE file[k]
       PROVE  FS!Store!Purge(FS!Request(p))
  <2>1. FS!Visible = file /\ FS!Visible' = [k \in StoreKeys |-> IF k \in d THEN None ELSE file[k]]
    <3>1. FS!Visible' = [k \in StoreKeys |-> SeenAt(p, k)']
      BY <1>1, FilesSeen
    <3> QED BY <1>7, <1>12, <3>1
  <2> DEFINE gone == d \cap FS!Store!Present
  <2>2. gone \in SUBSET FS!Store!Present
    OBVIOUS
  <2>3. {k \in FS!Store!Present : FS!Visible[k].tags \cap o.arg # {}} \subseteq gone
    BY <1>12, <2>1 DEF FS!Store!Present
  <2>4. FS!Visible' = FS!Store!Without(gone)
    <3>1. \A k \in StoreKeys : (IF k \in d THEN None ELSE file[k]) = IF k \in gone THEN None ELSE FS!Visible[k]
      BY <2>1 DEF FS!Store!Present
    <3> QED BY <2>1, <3>1 DEF FS!Store!Without
  <2>5. FS!Request(p).what = "purge" /\ FS!Request(p).arg = o.arg
    BY <1>4, <1>12
  <2> HIDE DEF gone
  <2> QED BY <2>2, <2>3, <2>4, <2>5 DEF FS!Store!Purge
<1>13. CASE FS!LoadIndex(p)
  <2>1. o.pc = "load" /\ file' = file /\ o \in FS!Operations /\ requestOf(o) \in FS!Store!Requests
    BY <1>3, <1>13 DEF FS!LoadIndex, FS!At
  <2>2. CASE ~(index = None /\ kind # "route" /\ ~(kind = "data" /\ o.what = "set"))
    <3>1. \/ op' = [op EXCEPT ![p] = [o EXCEPT !.pc = "edit", !.idx = index]]
          \/ op' = [op EXCEPT ![p] = [o EXCEPT !.pc = "republish", !.idx = FS!Scan]]
          \/ op' = [op EXCEPT ![p] = [o EXCEPT !.pc = "edit", !.idx = FS!NoTags]]
      BY <1>13, <2>2 DEF FS!LoadIndex, FS!Go
    <3>2. \/ op'[p] = [o EXCEPT !.pc = "edit", !.idx = index]
          \/ op'[p] = [o EXCEPT !.pc = "republish", !.idx = FS!Scan]
          \/ op'[p] = [o EXCEPT !.pc = "edit", !.idx = FS!NoTags]
      BY <1>5, <3>1
    <3>3. op'[p].pc \in {"edit", "republish"} /\ requestOf(op'[p]) = requestOf(o) /\ op'[p].doomed = o.doomed
      BY <2>1, <3>2 DEF FS!Operations
    <3>4. op'[p].what = o.what
      BY <2>1, <3>2 DEF FS!Operations
    <3>5. \A k \in StoreKeys : SeenAt(p, k)' = SeenAt(p, k)
      BY <2>1, <3>3 DEF SeenAt, FS!At
    <3>6. asksFor(op'[p]) <=> asksFor(o)
      BY <2>1, <3>3, <3>4
    <3> QED BY <1>1, <1>4, <1>6, <3>3, <3>5, <3>6, StoreStutters
  <2>3. CASE index = None /\ kind # "route" /\ ~(kind = "data" /\ o.what = "set")
    <3>1. op' = [op EXCEPT ![p] = FS!Idle]
      BY <1>13, <2>3 DEF FS!LoadIndex, FS!Finish
    <3>2. op'[p].pc = "idle"
      BY <1>5, <3>1 DEF FS!Idle
    <3>3. \A k \in StoreKeys : SeenAt(p, k)' = SeenAt(p, k) /\ SeenAt(p, k)' = file[k]
      BY <2>1, <3>2 DEF SeenAt, FS!At
    <3>4. CASE o.what = "purge"
      <4>1. o.doomed = {} /\ kind = "data" /\ FS!IndexNames({})
        BY <1>2, <1>3, <2>1, <2>3, <3>4 DEF FS!InStep, FS!At, FS!Pending
      <4>2. \A k \in StoreKeys : file[k] # None => file[k].tags = {}
        <5> SUFFICES ASSUME NEW k \in StoreKeys, file[k] # None, NEW t \in file[k].tags PROVE FALSE
          OBVIOUS
        <5>1. t \in StoreTags
          BY <1>4, StoreAssumption
        <5> QED BY <2>3, <4>1, <5>1 DEF FS!IndexNames, FS!Names, FS!NoTags
      <4>3. FS!Store!Purge(FS!Request(p))
        <5>1. \A k \in StoreKeys : ~(file[k] # None /\ file[k].tags \cap o.arg # {})
          BY <4>2
        <5>2. \A k \in StoreKeys : SeenAt(p, k)' = IF k \in {} THEN None ELSE file[k]
          BY <3>3
        <5>3. {} \in SUBSET StoreKeys
          OBVIOUS
        <5> QED BY <1>12, <2>1, <3>4, <5>1, <5>2, <5>3
      <4> QED BY <1>1, <1>4, <1>6, <2>1, <3>2, <3>4, <4>1, <4>3, StoreActs
    <3>5. CASE o.what # "purge"
      BY <1>1, <1>4, <1>6, <2>1, <3>2, <3>3, <3>5, StoreStutters
    <3> QED BY <3>4, <3>5
  <2> QED BY <2>2, <2>3
<1>14. CASE FS!Republish(p)
  <2>1. o.pc = "republish" /\ op' = [op EXCEPT ![p] = [o EXCEPT !.pc = "edit"]] /\ file' = file
    BY <1>14 DEF FS!Republish, FS!At, FS!Go
  <2>2. op'[p] = [o EXCEPT !.pc = "edit"] /\ o \in FS!Operations
    BY <1>3, <1>5, <2>1
  <2>3. /\ op'[p].pc = "edit" /\ requestOf(op'[p]) = requestOf(o) /\ op'[p].doomed = o.doomed
        /\ op'[p].what = o.what
    BY <2>2 DEF FS!Operations
  <2>4. \A k \in StoreKeys : SeenAt(p, k)' = SeenAt(p, k)
    BY <2>1, <2>3 DEF SeenAt, FS!At
  <2>5. asksFor(op'[p]) <=> asksFor(o)
    BY <2>1, <2>3
  <2> QED BY <1>1, <1>4, <1>6, <2>3, <2>4, <2>5, StoreStutters
<1>15. CASE FS!EditIndex(p) \/ FS!PublishIndex(p)
  <2>1. /\ o.pc \in {"edit", "publish"} /\ file' = file
        /\ \/ op' = [op EXCEPT ![p] = FS!Idle]
           \/ op' = [op EXCEPT ![p] = [o EXCEPT !.pc = "publish"]]
    BY <1>15 DEF FS!EditIndex, FS!PublishIndex, FS!At, FS!Go, FS!Finish
  <2>2. ~asksFor(o)
    BY <1>15, <2>1 DEF FS!EditIndex, FS!PublishIndex, FS!FindsByTag, FS!At
  <2>3. op'[p] = FS!Idle \/ op'[p] = [o EXCEPT !.pc = "publish"]
    BY <1>5, <2>1
  <2>4. op'[p].pc \in {"idle", "publish"}
    BY <1>3, <2>1, <2>3 DEF FS!Operations, FS!Idle
  <2>5. \A k \in StoreKeys : SeenAt(p, k)' = SeenAt(p, k)
    BY <2>1, <2>4 DEF SeenAt, FS!At
  <2> QED BY <1>1, <1>4, <1>6, <2>2, <2>4, <2>5, StoreStutters
<1>16. CASE FS!FindByTag(p)
  <2>1. /\ o.pc = "edit" /\ o.what = "purge" /\ o.doomed = {} /\ file' = file
        /\ o \in FS!Operations /\ requestOf(o) \in FS!Store!Requests
    BY <1>3, <1>16 DEF FS!FindByTag, FS!FindsByTag, FS!At
  <2>2. FS!Names(o.idx, {}) /\ o.idx \in FS!Indexes
    BY <1>2, <2>1 DEF FS!InStep, FS!At, FS!Pending, FS!Operations
  <2>3. FS!Matches(p) \in SUBSET StoreKeys
    BY <2>1, <2>2 DEF FS!Matches, FS!Indexes, FS!Store!Requests
  <2>4. \A k \in StoreKeys : file[k] # None /\ file[k].tags \cap o.arg # {} => k \in FS!Matches(p)
    BY <2>2 DEF FS!Matches, FS!Names
  <2>5. /\ ~asksFor(op'[p])
        /\ \A k \in StoreKeys : SeenAt(p, k)' = IF k \in FS!Matches(p) THEN None ELSE file[k]
    <3>1. CASE FS!Matches(p) # {}
      <4>1. op'[p] = [o EXCEPT !.pc = "unlink", !.todo = FS!Matches(p), !.doomed = FS!Matches(p)]
        BY <1>5, <1>16, <3>1 DEF FS!FindByTag, FS!Go
      <4>2. op'[p].pc = "unlink" /\ op'[p].todo = FS!Matches(p)
        BY <2>1, <4>1 DEF FS!Operations
      <4> QED BY <2>1, <4>2 DEF SeenAt, FS!At
    <3>2. CASE FS!Matches(p) = {}
      <4>1. op'[p] = FS!Idle \/ op'[p] = [o EXCEPT !.pc = "publish"]
        BY <1>5, <1>16, <3>2 DEF FS!FindByTag, FS!Go, FS!Finish
      <4>2. op'[p].pc \in {"idle", "publish"}
        BY <2>1, <4>1 DEF FS!Operations, FS!Idle
      <4> QED BY <2>1, <3>2, <4>2 DEF SeenAt, FS!At
    <3> QED BY <3>1, <3>2
  <2>6. FS!Store!Purge(FS!Request(p))
    BY <1>12, <2>1, <2>3, <2>4, <2>5
  <2> QED BY <1>1, <1>4, <1>6, <2>1, <2>5, <2>6, StoreActs
<1>17. CASE FS!Find(p)
  <2> DEFINE linked == {k \in StoreKeys : file[k] # None /\ file[k].routes \cap o.arg # {}}
             chosen == IF o.what = "drop" THEN o.arg ELSE linked
  <2>1. o.pc = "find" /\ file' = file /\ o \in FS!Operations /\ requestOf(o) \in FS!Store!Requests
    BY <1>3, <1>17 DEF FS!Find, FS!At
  <2>2. o.what \in {"drop", "routes"}
    BY <1>2, <2>1 DEF FS!InStep, FS!At
  <2>3. op' = [op EXCEPT ![p] = IF chosen = {} THEN FS!Idle
                                ELSE [o EXCEPT !.pc = "unlink", !.todo = chosen, !.doomed = chosen]]
    BY <1>17 DEF FS!Find, FS!Go, FS!Finish
  <2>4. /\ ~asksFor(op'[p])
        /\ \A k \in StoreKeys : SeenAt(p, k)' = IF k \in chosen THEN None ELSE file[k]
    <3> HIDE DEF chosen
    <3>1. CASE chosen # {}
      <4>1. op'[p] = [o EXCEPT !.pc = "unlink", !.todo = chosen, !.doomed = chosen]
        BY <1>5, <2>3, <3>1
      <4>2. op'[p].pc = "unlink" /\ op'[p].todo = chosen
        BY <2>1, <4>1 DEF FS!Operations
      <4> QED BY <2>1, <4>2 DEF SeenAt, FS!At
    <3>2. CASE chosen = {}
      <4>1. op'[p].pc = "idle"
        BY <1>5, <2>3, <3>2 DEF FS!Idle
      <4> QED BY <2>1, <3>2, <4>1 DEF SeenAt, FS!At
    <3> QED BY <3>1, <3>2
  <2>5. FS!Visible = file /\ FS!Visible' = [k \in StoreKeys |-> IF k \in chosen THEN None ELSE file[k]]
    <3> HIDE DEF chosen
    <3>1. FS!Visible' = [k \in StoreKeys |-> SeenAt(p, k)']
      BY <1>1, FilesSeen
    <3> QED BY <1>7, <2>1, <2>4, <3>1
  <2>6. FS!Request(p).what = o.what /\ FS!Request(p).arg = o.arg
    BY <1>4
  <2>7. CASE o.what = "drop"
    <3>1. FS!Store!PurgeKeys(FS!Request(p))
      BY <2>5, <2>6, <2>7 DEF FS!Store!PurgeKeys, FS!Store!Without
    <3> QED BY <1>1, <1>4, <1>6, <2>1, <2>4, <3>1, StoreActs
  <2>8. CASE o.what = "routes"
    <3>1. linked = {k \in FS!Store!Present : FS!Visible[k].routes \cap o.arg # {}}
      BY <2>5 DEF FS!Store!Present
    <3>2. FS!Store!PurgeLinkedRoutes(FS!Request(p))
      BY <2>5, <2>6, <2>8, <3>1 DEF FS!Store!PurgeLinkedRoutes, FS!Store!Without
    <3> QED BY <1>1, <1>4, <1>6, <2>1, <2>4, <3>2, StoreActs
  <2> QED BY <2>2, <2>7, <2>8
<1>18. ASSUME NEW k \in StoreKeys, FS!Unlink(p, k) PROVE StoreStep
  <2> DEFINE left == o.todo \ {k}
             after == IF left # {} THEN "unlink" ELSE IF kind = "data" /\ o.what = "purge" THEN "edit" ELSE "load"
  <2>1. /\ o.pc = "unlink" /\ k \in o.todo /\ file' = [file EXCEPT ![k] = None]
        /\ op' = [op EXCEPT ![p] = [o EXCEPT !.todo = left, !.pc = after]]
    BY <1>18 DEF FS!Unlink, FS!At, FS!Go
  <2>2. o.doomed # {} /\ o \in FS!Operations
    BY <1>2, <1>3, <2>1 DEF FS!InStep, FS!At
  <2>3. op'[p] = [o EXCEPT !.todo = left, !.pc = after]
    BY <1>5, <2>1
  <2>4. op'[p].pc = after /\ op'[p].todo = left /\ op'[p].doomed = o.doomed
    BY <2>2, <2>3 DEF FS!Operations
  <2>5. ~asksFor(o) /\ ~asksFor(op'[p])
    BY <2>1, <2>2, <2>4
  <2>6. \A j \in StoreKeys : SeenAt(p, j)' = SeenAt(p, j)
    <3>1. \A j \in StoreKeys : file'[j] = IF j = k THEN None ELSE file[j]
      BY <1>4, <2>1
    <3> QED BY <2>1, <2>4, <3>1 DEF SeenAt, FS!At
  <2> QED BY <1>1, <1>4, <1>6, <2>5, <2>6, StoreStutters
<1>19. CASE FS!LoseIndex \/ UNCHANGED own
  <2>1. op' = op /\ file' = file
    BY <1>19 DEF FS!LoseIndex, own
  <2>2. \A k \in StoreKeys : SeenAt(p, k)' = SeenAt(p, k)
    BY <2>1 DEF SeenAt, FS!At
  <2> QED BY <1>1, <1>4, <1>6, <2>1, <2>2, StoreStutters
<1>20. CASE FS!Step(p)
  <2>1. ASSUME NEW k \in StoreKeys, NEW e \in StoreEntries, FS!Set(p, k, e) PROVE StoreStep
    BY <1>9, <2>1 DEF FS!Set, FS!Store!Requests
  <2>2. ASSUME NEW ts \in SUBSET StoreTags, FS!Purge(p, ts) PROVE StoreStep
    BY <1>9, <2>2 DEF FS!Purge, FS!Store!Requests
  <2>3. ASSUME NEW ks \in SUBSET StoreKeys, FS!Drop(p, ks) PROVE StoreStep
    BY <1>9, <2>3 DEF FS!Drop, FS!Store!Requests
  <2>4. ASSUME NEW rs \in SUBSET StoreRoutes, FS!PurgeLinkedRoutes(p, rs) PROVE StoreStep
    BY <1>9, <2>4 DEF FS!PurgeLinkedRoutes, FS!Store!Requests
  <2> QED BY <1>10, <1>11, <1>13, <1>14, <1>15, <1>16, <1>17, <1>18, <1>20, <2>1, <2>2, <2>3, <2>4 DEF FS!Step
<1> QED BY <1>1, <1>19, <1>20, FilesSteps DEF FS!Next

(* The files are the store that CacheStore specifies, and tags.json names  *)
(* every entry under each of its tags when no operation runs, as long as   *)
(* operations do not overlap: two callers that rewrite tags.json lose each *)
(* other's tags (FilesystemCacheStore and DataFilesystemCacheStore).       *)
THEOREM FilesAreTheStore == FS!OneCaller /\ Spec => FilesKeepTheStore
<1>1. Init => FS!Store!Init
  <2> SUFFICES ASSUME Init PROVE FS!Store!Init
    OBVIOUS
  <2>1. FS!Init
    BY DEF Init
  <2>2. FS!Visible = [k \in StoreKeys |-> None]
    BY <2>1 DEF FS!Init, FS!Visible, FS!Doomed, FS!At, FS!Idle
  <2>3. FS!Asked = [p \in StoreCallers |-> None]
    BY <2>1 DEF FS!Init, FS!Asked, FS!IsAsked, FS!At, FS!Idle
  <2> QED BY <2>2, <2>3 DEF FS!Store!Init
<1>2. FS!OneCaller /\ FS!Inv => FS_IndexCovers
  <2> SUFFICES ASSUME FS!OneCaller, FS!Inv, FS!Quiet, NEW k \in StoreKeys, file[k] # None,
                      NEW t \in file[k].tags
               PROVE  IF index = None THEN kind = "route" ELSE k \in index[t]
    BY DEF FS_IndexCovers, FS!IndexCovers
  <2>1. PICK p : StoreCallers = {p}
    BY DEF FS!OneCaller
  <2>2. FS!TypeOK /\ FS!IndexNames({})
    BY <2>1 DEF FS!Inv, FS!InStep, FS!Quiet, FS!At
  <2>3. t \in StoreTags
    BY <2>2, StoreAssumption DEF FS!TypeOK
  <2> QED BY <2>2, <2>3 DEF FS!IndexNames, FS!Names, FS!NoTags, FS!TypeOK
<1>3. FS!OneCaller => FS!OneCaller'
  BY DEF FS!OneCaller
<1> QED BY <1>1, <1>2, <1>3, FilesInit, FilesNext, FilesImplement, PTL
        DEF Spec, FilesKeepTheStore, FS_ImplementsStore, FS!ImplementsStore, FS!Store!Spec

-----------------------------------------------------------------------------
(* The rate limiter.                                                       *)
LimiterInv == which = "limiter" => RL!Inv
limiter == <<v1, v2, v3, v4>>

LEMMA LimiterSteps ==
  ASSUME [Next]_all, which' = "limiter"
  PROVE  which = "limiter" /\ [RL!Next]_limiter
BY DEF Next, all, shared, limiter

LEMMA SameCardinality == \A S : RL!Cardinality(S) = Cardinality(S)
BY Zenon DEF RL!Cardinality, Cardinality, RL!IsFiniteSet, IsFiniteSet

LEMMA RequestsAreFinite ==
  /\ \A S \in SUBSET RL!Requests : IsFiniteSet(S) /\ Cardinality(S) \in Nat
  /\ \A S, T \in SUBSET RL!Requests : S \subseteq T => Cardinality(S) <= Cardinality(T)
<1>1. IsFiniteSet(RL!Requests)
  BY FS_Interval, LimiterAssumption DEF RL!Requests
<1>2. \A S \in SUBSET RL!Requests : IsFiniteSet(S)
  BY <1>1, FS_Subset
<1> QED BY <1>2, FS_Subset, FS_CardinalityType

LEMMA OneMoreRequest ==
  ASSUME NEW S \in SUBSET RL!Requests, NEW r \in RL!Requests
  PROVE  /\ r \notin S => Cardinality(S \cup {r}) = Cardinality(S) + 1
         /\ r \in S => Cardinality(S \ {r}) = Cardinality(S) - 1
BY RequestsAreFinite, FS_AddElement, FS_RemoveElement

\* The timestamps that are live are the last m, for an m that no other time needs.
LEMMA LiveIsTheEnd ==
  ASSUME RL!TypeOK, NEW s \in Seq(0 .. v1), NEW u \in 0 .. v1, NEW m \in 0 .. Len(s),
         RL!Youngest(s, u, m), \A t \in 0 .. v1 : RL!Live(t) <=> t >= u
  PROVE  /\ RL!LiveOnly(s) \in Seq(0 .. v1) /\ Len(RL!LiveOnly(s)) = m
         /\ \A i \in 1 .. m : RL!LiveOnly(s)[i] = s[i + (Len(s) - m)]
<1> DEFINE gone == {i \in DOMAIN s : ~RL!Live(s[i])}
<1>0. v1 \in Nat /\ Len(s) \in Nat /\ DOMAIN s = 1 .. Len(s) /\ \A i \in 1 .. Len(s) : s[i] \in 0 .. v1
  BY DEF RL!TypeOK
<1>1. gone = 1 .. (Len(s) - m)
  BY <1>0 DEF RL!Youngest
<1>2. RL!LiveOnly(s) = SubSeq(s, Cardinality(gone) + 1, Len(s))
  BY SameCardinality DEF RL!LiveOnly
<1> HIDE DEF gone
<1>3. RL!LiveOnly(s) = SubSeq(s, Len(s) - m + 1, Len(s))
  <2>1. Cardinality(1 .. (Len(s) - m)) = Len(s) - m
    BY <1>0, FS_Interval
  <2> QED BY <1>1, <1>2, <2>1
<1> QED BY <1>0, <1>3, SubSeqProperties

LEMMA LimiterInit == Init => LimiterInv
<1> SUFFICES ASSUME Init, which = "limiter" PROVE RL!Inv
  BY DEF LimiterInv
<1>1. RL!Init
  BY DEF Init
<1>2. /\ v1 = 0 /\ DOMAIN v2 = {} /\ v4 \in [LimiterKeys -> Nat]
      /\ v3 \in [RL!Requests -> [is : {"unsent"}, key : LimiterKeys, at : {0}]]
  BY <1>1, LimiterAssumption DEF RL!Init, RL!Idle
<1>3. RL!TypeOK
  BY <1>1, <1>2 DEF RL!TypeOK, RL!Init
<1>4. \A k, u : v1 = 0 /\ RL!Since(k, u) = {} /\ RL!InWindow(k, u) = {} /\ RL!Stamps(k) = <<>>
  BY <1>2 DEF RL!Since, RL!InWindow, RL!Stamps
<1>5. RL!StampsCount
  <2>1. \A u : RL!Youngest(<<>>, u, 0)
    BY DEF RL!Youngest
  <2>2. ASSUME NEW k, NEW u
        PROVE  /\ 0 \in 0 .. Len(RL!Stamps(k)) /\ RL!Youngest(RL!Stamps(k), u, 0)
               /\ RL!Cardinality(RL!Since(k, u)) = 0
    BY <1>4, <2>1, FS_EmptySet, SameCardinality
  <2>3. \A k \in LimiterKeys : v4[k] = 0
    BY <1>1 DEF RL!Init
  <2> SUFFICES ASSUME NEW k \in LimiterKeys, NEW u PROVE RL!Agree(k, u)
    BY DEF RL!StampsCount
  <2>4. 0 \in 0 .. Len(RL!Stamps(k)) /\ RL!Youngest(RL!Stamps(k), u, 0)
    BY <2>2
  <2>5. RL!Cardinality(RL!Since(k, u)) = 0 /\ v4[k] = 0
    BY <2>2, <2>3
  <2>6. 0 <= 0 /\ 0 <= 0 + 0
    OBVIOUS
  <2> QED BY <2>4, <2>5, <2>6 DEF RL!Agree
<1>6. RL!WindowHolds
  <2>1. \A k, t : Cardinality(RL!InWindow(k, t)) = 0
    BY <1>4, FS_EmptySet
  <2>2. \A k \in LimiterKeys : v4[k] = 0
    BY <1>1 DEF RL!Init
  <2> SUFFICES ASSUME NEW k \in LimiterKeys, NEW t \in 0 .. v1
               PROVE  RL!Cardinality(RL!InWindow(k, t)) <= Limit + v4[k]
    BY DEF RL!WindowHolds
  <2>3. RL!Cardinality(RL!InWindow(k, t)) = 0 /\ v4[k] = 0
    BY <2>1, <2>2, SameCardinality
  <2> QED BY <2>3, LimiterAssumption
<1> QED BY <1>3, <1>5, <1>6 DEF RL!Inv

\* What the handling of a request does to the timestamps of its key.
LEMMA CheckCounts ==
  ASSUME RL!TypeOK, RL!StampsCount, NEW key \in LimiterKeys, NEW r \in RL!Requests
  PROVE  LET s    == RL!Counted(key)[key]
             live == {q \in RL!Requests : /\ v3[q].is \in {"running", "failed"} /\ v3[q].key = key
                                          /\ v3[q].at + Window > v1}
         IN  /\ s \in Seq(0 .. v1)
             /\ Len(s) <= Cardinality(live) /\ Cardinality(live) <= Len(s) + v4[key]
             /\ \A u \in 0 .. v1 : u + Window > v1 =>
                  \E m \in 0 .. Len(s) :
                    /\ RL!Youngest(s, u, m)
                    /\ m <= Cardinality(RL!Since(key, u))
                    /\ Cardinality(RL!Since(key, u)) <= m + v4[key]
<1> DEFINE s == RL!Counted(key)[key]
           live == {q \in RL!Requests : /\ v3[q].is \in {"running", "failed"} /\ v3[q].key = key
                                        /\ v3[q].at + Window > v1}
           old == RL!Stamps(key)
           Goal == /\ s \in Seq(0 .. v1)
                   /\ Len(s) <= Cardinality(live) /\ Cardinality(live) <= Len(s) + v4[key]
                   /\ \A u \in 0 .. v1 : u + Window > v1 =>
                        \E m \in 0 .. Len(s) :
                          /\ RL!Youngest(s, u, m)
                          /\ m <= Cardinality(RL!Since(key, u))
                          /\ Cardinality(RL!Since(key, u)) <= m + v4[key]
<1> SUFFICES Goal
  OBVIOUS
<1>1. v1 \in Nat /\ old \in Seq(0 .. v1) /\ \A q \in RL!Requests : v3[q].at \in 0 .. v1
  <2>1. CASE key \in DOMAIN v2
    BY <2>1 DEF RL!TypeOK, RL!Stamps
  <2>2. CASE key \notin DOMAIN v2
    BY <2>2 DEF RL!TypeOK, RL!Stamps
  <2> QED BY <2>1, <2>2
<1>2. s = IF key \in DOMAIN v2 THEN RL!LiveOnly(old) ELSE <<>>
  BY DEF RL!Counted, RL!Kept, RL!Stamps
<1> HIDE DEF s, old
\* Nothing is live where the window is empty.
<1>3. CASE Window = 0
  <2>1. live = {}
    BY <1>1, <1>3
  <2>2. s = <<>>
    <3>1. \A i \in DOMAIN old : ~RL!Live(old[i])
      BY <1>1, <1>3 DEF RL!Live
    <3>2. {i \in DOMAIN old : ~RL!Live(old[i])} = 1 .. Len(old)
      BY <1>1, <3>1
    <3>3. RL!LiveOnly(old) = SubSeq(old, Len(old) + 1, Len(old))
      <4>1. Cardinality(1 .. Len(old)) = Len(old)
        <5>1. Len(old) \in Nat /\ 1 \in Int /\ Len(old) \in Int
          BY <1>1
        <5>2. Cardinality(1 .. Len(old)) = IF 1 > Len(old) THEN 0 ELSE Len(old) - 1 + 1
          BY <5>1, FS_Interval
        <5> QED BY <5>1, <5>2
      <4> QED BY <3>2, <4>1, SameCardinality DEF RL!LiveOnly
    <3> QED BY <1>1, <1>2, <3>3
  <2>3. Len(s) = 0 /\ Cardinality(live) = 0
    BY <2>1, <2>2, FS_EmptySet
  <2>4. v4[key] \in Nat
    BY DEF RL!TypeOK
  <2>5. \A u \in 0 .. v1 : ~(u + Window > v1)
    BY <1>1, <1>3
  <2>6. s \in Seq(0 .. v1)
    BY <2>2
  <2> HIDE DEF live
  <2> QED BY <2>3, <2>4, <2>5, <2>6
<1>4. CASE Window > 0
  <2> DEFINE first == IF Window > v1 THEN 0 ELSE v1 + 1 - Window
  <2>1. first \in 0 .. v1 /\ \A t \in 0 .. v1 : t + Window > v1 <=> t >= first
    BY <1>1, <1>4, LimiterAssumption
  <2> HIDE DEF first
  <2>2. \A t \in 0 .. v1 : RL!Live(t) <=> t >= first
    BY <2>1 DEF RL!Live
  <2>3. live = RL!Since(key, first)
    BY <1>1, <2>1 DEF RL!Since
  <2>4. PICK m \in 0 .. Len(old) :
          /\ RL!Youngest(old, first, m)
          /\ m <= Cardinality(live) /\ Cardinality(live) <= m + v4[key]
    <3>1. first + Window > v1
      BY <2>1
    <3>2. RL!Cardinality(RL!Since(key, first)) = Cardinality(live)
      BY <2>3, SameCardinality
    <3> QED BY <2>1, <3>1, <3>2 DEF RL!StampsCount, RL!Agree, old
  <2>5. /\ s \in Seq(0 .. v1) /\ Len(s) = m
        /\ \A i \in 1 .. m : s[i] = old[i + (Len(old) - m)]
    <3>1. CASE key \in DOMAIN v2
      BY <1>1, <1>2, <2>1, <2>2, <2>4, <3>1, LiveIsTheEnd
    <3>2. CASE key \notin DOMAIN v2
      BY <1>2, <3>2 DEF old, RL!Stamps
    <3> QED BY <3>1, <3>2
  <2>6. ASSUME NEW u \in 0 .. v1, u + Window > v1
        PROVE  \E n \in 0 .. Len(s) :
                    /\ RL!Youngest(s, u, n)
                    /\ n <= Cardinality(RL!Since(key, u))
                    /\ Cardinality(RL!Since(key, u)) <= n + v4[key]
    <3>1. PICK n \in 0 .. Len(old) :
            /\ RL!Youngest(old, u, n)
            /\ n <= Cardinality(RL!Since(key, u))
            /\ Cardinality(RL!Since(key, u)) <= n + v4[key]
      BY <2>6, SameCardinality DEF RL!StampsCount, RL!Agree, old
    <3>2. n <= m
      <4> SUFFICES ASSUME n > m PROVE FALSE
        BY <1>1, <2>4, <3>1
      <4>1. Len(old) - m \in DOMAIN old /\ old[Len(old) - m] \in 0 .. v1
        BY <1>1, <2>4, <3>1
      <4>2. old[Len(old) - m] >= u /\ ~(old[Len(old) - m] >= first)
        BY <1>1, <2>4, <3>1, <4>1 DEF RL!Youngest
      <4> QED BY <2>1, <2>6, <4>1, <4>2
    <3>3. RL!Youngest(s, u, n)
      <4> SUFFICES ASSUME NEW i \in 1 .. m PROVE s[i] >= u <=> i > m - n
        BY <2>5 DEF RL!Youngest
      <4>1. i + (Len(old) - m) \in DOMAIN old /\ s[i] = old[i + (Len(old) - m)]
        BY <1>1, <2>4, <2>5
      <4>2. s[i] >= u <=> i + (Len(old) - m) > Len(old) - n
        BY <3>1, <4>1 DEF RL!Youngest
      <4> QED BY <1>1, <2>4, <3>1, <4>2
    <3> QED BY <2>5, <3>1, <3>2, <3>3
  <2> QED BY <2>4, <2>5, <2>6
<1> QED BY <1>3, <1>4, LimiterAssumption

LEMMA LimiterTypes ==
  ASSUME RL!Inv, [RL!Next]_limiter
  PROVE  RL!TypeOK'
<1> USE DEF RL!Inv, RL!TypeOK
<1>0. v1 \in Nat /\ RL!Refused(<<>>) = <<>>
  BY DEF RL!Refused
<1>1. CASE UNCHANGED limiter
  BY <1>1 DEF limiter
<1>2. ASSUME NEW r \in RL!Requests, NEW key \in LimiterKeys, RL!Check(r, key) PROVE RL!TypeOK'
  <2> DEFINE s == RL!Counted(key)[key]
  <2>1. s \in Seq(0 .. v1) /\ Append(s, v1) \in Seq(0 .. v1)
    <3>1. s \in Seq(0 .. v1)
      BY CheckCounts, Zenon
    <3> HIDE DEF s
    <3> QED BY <1>0, <3>1
  <2>2. /\ RL!Kept(key) \subseteq LimiterKeys /\ RL!Counted(key) \in [RL!Kept(key) -> Seq(0 .. v1)]
    <3>1. \A k \in RL!Kept(key) : k = key \/ k \in DOMAIN v2
      BY DEF RL!Kept
    <3>2. RL!Counted(key) = [k \in RL!Kept(key) |-> IF k = key THEN s ELSE v2[k]]
      BY <3>1 DEF RL!Counted, RL!Kept
    <3> HIDE DEF s
    <3> QED BY <2>1, <3>1, <3>2
  <2> HIDE DEF s
  <2>3. /\ v1' = v1 /\ v4' = v4
        /\ v2' = [RL!Counted(key) EXCEPT ![key] = s] \/ v2' = [RL!Counted(key) EXCEPT ![key] = Append(s, v1)]
        /\ \E w \in {"refused", "running"} : v3' = [v3 EXCEPT ![r] = [is |-> w, key |-> key, at |-> v1]]
    BY <1>2 DEF RL!Check, RL!Refused, s
  <2>4. DOMAIN v2' = RL!Kept(key) /\ v2' \in [RL!Kept(key) -> Seq(0 .. v1)]
    BY <2>1, <2>2, <2>3
  <2> QED BY <1>0, <2>2, <2>3, <2>4
<1>3. ASSUME NEW r \in RL!Requests, RL!RecordSuccess(r) PROVE RL!TypeOK'
  <2>1. v1' = v1 /\ v3' = [v3 EXCEPT ![r].is = "succeeded"] /\ v4' \in [LimiterKeys -> Nat]
    BY <1>3 DEF RL!RecordSuccess
  <2>2. DOMAIN v2' = DOMAIN v2 /\ v2' \in [DOMAIN v2 -> Seq(0 .. v1)]
    <3>1. v2' = v2 \/ \E k \in DOMAIN v2 : v2[k] # <<>> /\ v2' = [v2 EXCEPT ![k] = SubSeq(@, 1, Len(@) - 1)]
      BY <1>3 DEF RL!RecordSuccess, RL!TakenBack
    <3>2. \A q \in Seq(0 .. v1) : q # <<>> => SubSeq(q, 1, Len(q) - 1) \in Seq(0 .. v1)
      OBVIOUS
    <3>3. CASE v2' = v2
      BY <1>0, <3>3
    <3>4. ASSUME NEW k \in DOMAIN v2, v2[k] # <<>>,
                 v2' = [v2 EXCEPT ![k] = SubSeq(@, 1, Len(@) - 1)]
          PROVE  DOMAIN v2' = DOMAIN v2 /\ v2' \in [DOMAIN v2 -> Seq(0 .. v1)]
      <4>1. SubSeq(v2[k], 1, Len(v2[k]) - 1) \in Seq(0 .. v1)
        BY <1>0, <3>2, <3>4
      <4> QED BY <1>0, <3>4, <4>1
    <3> QED BY <3>1, <3>3, <3>4
  <2> QED BY <2>1, <2>2
<1>4. ASSUME NEW r \in RL!Requests, RL!Fail(r) PROVE RL!TypeOK'
  BY <1>4 DEF RL!Fail
<1>5. CASE RL!Tick
  <2>1. v1' = v1 + 1 /\ v2' = v2 /\ v3' = v3 /\ v4' = v4
    BY <1>5 DEF RL!Tick
  <2>2. 0 .. v1 \subseteq 0 .. (v1 + 1)
    BY <1>0
  <2>3. Seq(0 .. v1) \subseteq Seq(0 .. (v1 + 1))
    BY <2>2
  <2> QED BY <1>0, <2>1, <2>2, <2>3
<1>6. CASE RL!Over
  BY <1>6 DEF RL!Over, RL!vars
<1> QED BY <1>1, <1>2, <1>3, <1>4, <1>5, <1>6 DEF RL!Next

\* What a success took of another stays taken.
LEMMA LostGrows ==
  ASSUME RL!Inv, [RL!Next]_limiter, NEW k \in LimiterKeys
  PROVE  v4[k] \in Nat /\ v4'[k] \in Nat /\ v4[k] <= v4'[k]
<1>1. v4 \in [LimiterKeys -> Nat]
  BY DEF RL!Inv, RL!TypeOK
<1>2. v4' = v4 \/ \E r \in RL!Requests : v4' = [v4 EXCEPT ![v3[r].key] = @ + 1]
  BY DEF limiter, RL!Next, RL!Check, RL!RecordSuccess, RL!Fail, RL!Tick, RL!Over, RL!vars
<1> QED BY <1>1, <1>2

LEMMA LimiterCounts ==
  ASSUME RL!Inv, [RL!Next]_limiter
  PROVE  RL!StampsCount'
<1>0. RL!TypeOK /\ RL!TypeOK' /\ RL!StampsCount /\ v1 \in Nat
  BY LimiterTypes DEF RL!Inv, RL!TypeOK
<1> SUFFICES ASSUME NEW k \in LimiterKeys, NEW u \in 0 .. v1', u + Window > v1'
             PROVE  RL!Agree(k, u)'
  BY DEF RL!StampsCount
<1>1. /\ RL!Since(k, u) \in SUBSET RL!Requests /\ (RL!Since(k, u))' \in SUBSET RL!Requests
      /\ Cardinality(RL!Since(k, u)) \in Nat /\ Cardinality((RL!Since(k, u))') \in Nat
  BY RequestsAreFinite DEF RL!Since
<1>2. u \in 0 .. v1 /\ u + Window > v1 => RL!Agree(k, u)
  BY <1>0 DEF RL!StampsCount
<1>3. \A r \in RL!Requests : v3[r].at \in 0 .. v1 /\ v3'[r].at \in 0 .. v1'
  BY <1>0 DEF RL!TypeOK
<1>4. RL!Stamps(k) \in Seq(0 .. v1)
  <2>1. CASE k \in DOMAIN v2
    BY <1>0, <2>1 DEF RL!TypeOK, RL!Stamps
  <2>2. CASE k \notin DOMAIN v2
    BY <2>2 DEF RL!Stamps
  <2> QED BY <2>1, <2>2
<1>12. v4[k] \in Nat /\ v4'[k] \in Nat /\ v4[k] <= v4'[k]
  BY LostGrows
\* What a step leaves alone still agrees.
<1>5. ASSUME v1' = v1, (RL!Stamps(k))' = RL!Stamps(k), (RL!Since(k, u))' = RL!Since(k, u), v4[k] <= v4'[k]
      PROVE  RL!Agree(k, u)'
  <2> PICK m \in 0 .. Len(RL!Stamps(k)) :
             /\ RL!Youngest(RL!Stamps(k), u, m)
             /\ m <= RL!Cardinality(RL!Since(k, u))
             /\ RL!Cardinality(RL!Since(k, u)) <= m + v4[k]
    BY <1>2, <1>5 DEF RL!Agree
  <2>1. m \in Nat /\ RL!Cardinality(RL!Since(k, u)) <= m + v4'[k]
    BY <1>1, <1>5, <1>12, <1>4, SameCardinality
  <2>2. /\ m \in 0 .. Len((RL!Stamps(k))') /\ RL!Youngest((RL!Stamps(k))', u, m)
        /\ m <= RL!Cardinality((RL!Since(k, u))')
        /\ RL!Cardinality((RL!Since(k, u))') <= m + v4'[k]
    BY <1>5, <2>1
  <2> QED BY <2>2 DEF RL!Agree
<1>6. CASE UNCHANGED limiter
  <2>1. v1' = v1 /\ (RL!Stamps(k))' = RL!Stamps(k) /\ (RL!Since(k, u))' = RL!Since(k, u)
    BY <1>6 DEF limiter, RL!Stamps, RL!Since
  <2> QED BY <1>5, <1>12, <2>1
<1>7. ASSUME NEW r \in RL!Requests, NEW key \in LimiterKeys, RL!Check(r, key) PROVE RL!Agree(k, u)'
  <2> DEFINE s == RL!Counted(key)[key]
  <2>1. /\ v1' = v1 /\ v4' = v4 /\ v3[r].is = "unsent"
        /\ DOMAIN v2' = RL!Kept(key) /\ key \in RL!Kept(key)
        /\ \/ Len(s) >= Limit /\ v2'[key] = s /\ v3' = [v3 EXCEPT ![r] = [is |-> "refused", key |-> key, at |-> v1]]
           \/ Len(s) < Limit /\ v2'[key] = Append(s, v1) /\ v3' = [v3 EXCEPT ![r] = [is |-> "running", key |-> key, at |-> v1]]
        /\ \A q \in RL!Kept(key) \ {key} : q \in DOMAIN v2 /\ v2'[q] = v2[q]
    <3>1. /\ DOMAIN RL!Counted(key) = RL!Kept(key) /\ key \in RL!Kept(key)
          /\ \A q \in RL!Kept(key) \ {key} : q \in DOMAIN v2 /\ RL!Counted(key)[q] = v2[q]
      BY DEF RL!Counted, RL!Kept
    <3>2. /\ v1' = v1 /\ v4' = v4 /\ v3[r].is = "unsent"
          /\ \/ /\ Len(s) >= Limit /\ v2' = [RL!Counted(key) EXCEPT ![key] = s]
                /\ v3' = [v3 EXCEPT ![r] = [is |-> "refused", key |-> key, at |-> v1]]
             \/ /\ ~(Len(s) >= Limit) /\ v2' = [RL!Counted(key) EXCEPT ![key] = Append(s, v1)]
                /\ v3' = [v3 EXCEPT ![r] = [is |-> "running", key |-> key, at |-> v1]]
      BY <1>7 DEF RL!Check, RL!Refused
    <3>3. Len(s) \in Nat
      <4>1. s \in Seq(0 .. v1)
        BY <1>0, CheckCounts, Zenon
      <4> QED BY <4>1
    <3> HIDE DEF s
    <3> QED BY <3>1, <3>2, <3>3, LimiterAssumption
  <2>2. CASE k = key
    <3>1. s \in Seq(0 .. v1)
      BY <1>0, CheckCounts, Zenon
    <3>2. PICK m \in 0 .. Len(s) :
            /\ RL!Youngest(s, u, m)
            /\ m <= Cardinality(RL!Since(key, u))
            /\ Cardinality(RL!Since(key, u)) <= m + v4[key]
      BY <1>0, <2>1, CheckCounts
    <3> HIDE DEF s
    <3>3. (RL!Stamps(k))' = v2'[key] /\ r \notin RL!Since(k, u)
      BY <2>1, <2>2 DEF RL!Stamps, RL!Since
    <3>4. CASE v2'[key] = s /\ v3' = [v3 EXCEPT ![r] = [is |-> "refused", key |-> key, at |-> v1]]
      <4>1. (RL!Since(k, u))' = RL!Since(k, u)
        <5>1. /\ v3'[r].is = "refused" /\ v3'[r].key = key /\ v3'[r].at = v1
              /\ \A q \in RL!Requests \ {r} : v3'[q] = v3[q]
          BY <1>0, <3>4 DEF RL!TypeOK
        <5> QED BY <1>0, <2>1, <2>2, <3>3, <5>1 DEF RL!Since
      <4> QED BY <2>1, <2>2, <3>2, <3>3, <3>4, <4>1, SameCardinality DEF RL!Agree
    <3>5. CASE v2'[key] = Append(s, v1) /\ v3' = [v3 EXCEPT ![r] = [is |-> "running", key |-> key, at |-> v1]]
      <4>1. (RL!Since(k, u))' = RL!Since(k, u) \cup {r}
        <5>1. /\ v3'[r].is = "running" /\ v3'[r].key = key /\ v3'[r].at = v1
              /\ \A q \in RL!Requests \ {r} : v3'[q] = v3[q]
          BY <1>0, <3>5 DEF RL!TypeOK
        <5> QED BY <1>0, <2>1, <2>2, <3>3, <5>1 DEF RL!Since
      <4>2. Cardinality((RL!Since(k, u))') = Cardinality(RL!Since(k, u)) + 1
        BY <1>1, <3>3, <4>1, OneMoreRequest
      <4>3. RL!Youngest(Append(s, v1), u, m + 1) /\ m + 1 \in 0 .. Len(Append(s, v1))
        BY <1>0, <2>1, <3>1, <3>2 DEF RL!Youngest
      <4>4. v4'[k] = v4[key] /\ m \in Nat
        BY <2>1, <2>2, <3>1, <3>2
      <4>5. /\ m + 1 <= RL!Cardinality((RL!Since(k, u))')
            /\ RL!Cardinality((RL!Since(k, u))') <= m + 1 + v4'[k]
        BY <1>1, <1>12, <2>2, <3>2, <4>2, <4>4, SameCardinality
      <4>6. (RL!Stamps(k))' = Append(s, v1)
        BY <3>3, <3>5
      <4> QED BY <4>3, <4>5, <4>6 DEF RL!Agree
    <3> QED BY <2>1, <3>4, <3>5
  <2>3. CASE k # key
    <3>1. (RL!Since(k, u))' = RL!Since(k, u)
      <4>1. \A q \in RL!Requests \ {r} : v3'[q] = v3[q]
        BY <1>0, <2>1 DEF RL!TypeOK
      <4>2. v3[r].is = "unsent" /\ v3'[r].key = key
        BY <1>0, <2>1 DEF RL!TypeOK
      <4> QED BY <2>3, <4>1, <4>2 DEF RL!Since
    <3>2. CASE k \in RL!Kept(key) \/ k \notin DOMAIN v2
      <4>1. (RL!Stamps(k))' = RL!Stamps(k)
        BY <2>1, <2>3, <3>2 DEF RL!Stamps
      <4> QED BY <1>5, <1>12, <2>1, <3>1, <4>1
    <3>3. CASE k \notin RL!Kept(key) /\ k \in DOMAIN v2
      <4>1. \A i \in DOMAIN RL!Stamps(k) : ~(RL!Stamps(k)[i] + Window > v1)
        BY <3>3 DEF RL!Kept, RL!Stamps, RL!Live
      <4>2. PICK m \in 0 .. Len(RL!Stamps(k)) :
              /\ RL!Youngest(RL!Stamps(k), u, m)
              /\ m <= RL!Cardinality(RL!Since(k, u))
              /\ RL!Cardinality(RL!Since(k, u)) <= m + v4[k]
        BY <1>2, <2>1 DEF RL!Agree
      <4>3. m = 0
        <5> SUFFICES ASSUME m > 0 PROVE FALSE
          BY <1>4, <4>2
        <5>1. Len(RL!Stamps(k)) \in DOMAIN RL!Stamps(k)
          BY <1>4, <4>2
        <5>2. RL!Stamps(k)[Len(RL!Stamps(k))] >= u
          BY <1>4, <4>2, <5>1 DEF RL!Youngest
        <5>3. RL!Stamps(k)[Len(RL!Stamps(k))] \in 0 .. v1
          <6>1. Len(RL!Stamps(k)) \in 1 .. Len(RL!Stamps(k))
            BY <1>4, <4>2
          <6> QED BY <1>4, <6>1, ElementOfSeq
        <5> QED BY <1>0, <2>1, <4>1, <5>1, <5>2, <5>3, LimiterAssumption
      <4>4. (RL!Stamps(k))' = <<>>
        BY <2>1, <3>3 DEF RL!Stamps
      <4>5. RL!Youngest(<<>>, u, 0) /\ 0 \in 0 .. Len(<<>>)
        BY DEF RL!Youngest
      <4> QED BY <2>1, <3>1, <4>2, <4>3, <4>4, <4>5 DEF RL!Agree
    <3> QED BY <3>2, <3>3
  <2> QED BY <2>2, <2>3
<1>8. ASSUME NEW r \in RL!Requests, RL!RecordSuccess(r) PROVE RL!Agree(k, u)'
  <2> DEFINE key == v3[r].key
             old == RL!Stamps(k)
             new == (RL!Stamps(k))'
             was == Cardinality(RL!Since(k, u))
             is  == Cardinality((RL!Since(k, u))')
  <2>1. /\ v3[r].is = "running" /\ key \in LimiterKeys /\ v3[r].at \in 0 .. v1 /\ v1' = v1
        /\ v3'[r].is = "succeeded" /\ \A q \in RL!Requests \ {r} : v3'[q] = v3[q]
        /\ \/ RL!Stamps(key) # <<>> /\ v2' = [v2 EXCEPT ![key] = SubSeq(@, 1, Len(@) - 1)] /\ key \in DOMAIN v2
              /\ v4' = IF v2[key][Len(v2[key])] = v3[r].at THEN v4 ELSE [v4 EXCEPT ![key] = @ + 1]
           \/ RL!Stamps(key) = <<>> /\ UNCHANGED <<v2, v4>>
    <3>1. /\ v3[r].is = "running" /\ key \in LimiterKeys /\ v3[r].at \in 0 .. v1 /\ v1' = v1
          /\ v3'[r].is = "succeeded" /\ \A q \in RL!Requests \ {r} : v3'[q] = v3[q]
      BY <1>0, <1>8 DEF RL!RecordSuccess, RL!TypeOK
    <3>2. CASE key \in DOMAIN v2 /\ v2[key] # <<>>
      BY <1>8, <3>1, <3>2 DEF RL!RecordSuccess, RL!TakenBack, RL!Stamps
    <3>3. CASE ~(key \in DOMAIN v2 /\ v2[key] # <<>>)
      BY <1>8, <3>1, <3>3 DEF RL!RecordSuccess, RL!Stamps
    <3> QED BY <3>1, <3>2, <3>3
  <2>2. CASE k # key
    <3>1. (RL!Since(k, u))' = RL!Since(k, u)
      BY <2>1, <2>2 DEF RL!Since
    <3>2. new = old
      BY <2>1, <2>2 DEF RL!Stamps
    <3> QED BY <1>5, <1>12, <2>1, <3>1, <3>2
  <2>3. CASE k = key
    <3>1. PICK m \in 0 .. Len(old) :
            RL!Youngest(old, u, m) /\ m <= was /\ was <= m + v4[k]
      BY <1>2, <2>1, SameCardinality DEF RL!Agree
    <3>2. /\ v3[r].at >= u => r \in RL!Since(k, u) /\ (RL!Since(k, u))' = RL!Since(k, u) \ {r}
          /\ ~(v3[r].at >= u) => (RL!Since(k, u))' = RL!Since(k, u)
      BY <2>1, <2>3 DEF RL!Since
    <3>3. /\ v3[r].at >= u => is = was - 1
          /\ ~(v3[r].at >= u) => is = was
      BY <1>1, <3>2, OneMoreRequest
    <3>4. ASSUME NEW n \in 0 .. Len(new), RL!Youngest(new, u, n), n <= is, is <= n + v4'[k]
          PROVE  RL!Agree(k, u)'
      BY <3>4, SameCardinality DEF RL!Agree
    <3>5. CASE old = <<>>
      <4>1. new = old /\ v4' = v4
        BY <2>1, <2>3, <3>5 DEF RL!Stamps
      <4>2. m = 0 /\ Len(old) = 0
        BY <3>1, <3>5
      <4>3. is \in Nat /\ is <= v4[k]
        <5>1. was \in Nat /\ is \in Nat /\ was <= v4[k]
          BY <1>1, <1>12, <3>1, <4>2
        <5> HIDE DEF was, is
        <5> QED BY <1>12, <3>3, <5>1, <2>1
      <4>4. RL!Youngest(new, u, 0) /\ 0 \in 0 .. Len(new)
        BY <3>1, <4>1, <4>2
      <4>5. 0 <= is /\ is <= 0 + v4'[k]
        BY <1>12, <4>1, <4>3
      <4> HIDE DEF new, is
      <4> QED BY <3>4, <4>4, <4>5
    <3>6. CASE old # <<>>
      <4>1. /\ new = SubSeq(old, 1, Len(old) - 1) /\ v4'[k] = v4[k] + (IF old[Len(old)] = v3[r].at THEN 0 ELSE 1)
        <5>1. /\ key \in DOMAIN v2 /\ old = v2[key]
              /\ v2' = [v2 EXCEPT ![key] = SubSeq(@, 1, Len(@) - 1)]
              /\ v4' = IF v2[key][Len(v2[key])] = v3[r].at THEN v4 ELSE [v4 EXCEPT ![key] = @ + 1]
          BY <2>1, <2>3, <3>6 DEF RL!Stamps
        <5>2. new = SubSeq(old, 1, Len(old) - 1)
          BY <2>3, <5>1 DEF RL!Stamps
        <5>3. v4 \in [LimiterKeys -> Nat] /\ k \in LimiterKeys
          BY <1>0 DEF RL!TypeOK
        <5>4. v4'[k] = v4[k] + (IF old[Len(old)] = v3[r].at THEN 0 ELSE 1)
          <6> HIDE DEF old
          <6> QED BY <2>3, <5>1, <5>3
        <5> QED BY <5>2, <5>4
      <4>2. /\ Len(old) \in Nat \ {0} /\ old[Len(old)] = old[Len(old)]
            /\ Len(new) = Len(old) - 1 /\ \A i \in 1 .. Len(new) : new[i] = old[i]
            /\ DOMAIN new = 1 .. Len(new) /\ DOMAIN old = 1 .. Len(old)
        <5> HIDE DEF old
        <5>1. old \in Seq(0 .. v1)
          BY <1>4 DEF old
        <5>2. Len(old) \in Nat \ {0} /\ DOMAIN old = 1 .. Len(old)
          BY <3>6, <5>1
        <5>3. new = SubSeq(old, 1, Len(old) - 1) /\ old[Len(old)] = old[Len(old)]
          BY <4>1
        <5> HIDE DEF new
        <5>4. Len(new) = Len(old) - 1 /\ DOMAIN new = 1 .. Len(new) /\ \A i \in 1 .. Len(new) : new[i] = old[i]
          BY <5>1, <5>2, <5>3
        <5> QED BY <5>2, <5>3, <5>4
      <4> HIDE DEF old, new
      <4>3. CASE m = 0
        <5>1. ~(old[Len(old)] >= u)
          BY <3>1, <4>2, <4>3 DEF RL!Youngest
        <5>2. RL!Youngest(new, u, 0)
          BY <3>1, <4>2, <4>3 DEF RL!Youngest
        <5>3. was \in Nat /\ is \in Nat /\ was <= v4[k]
          BY <1>1, <1>12, <3>1, <4>3
        <5>4. is <= was
          <6> HIDE DEF was, is
          <6> QED BY <3>3, <5>3
        <5>5. 0 \in 0 .. Len(new) /\ 0 <= is /\ is <= 0 + v4'[k]
          <6> HIDE DEF was, is
          <6> QED BY <1>12, <4>2, <5>3, <5>4
        <5> QED BY <3>4, <5>2, <5>5
      <4>4. CASE m > 0
        <5>1. old[Len(old)] >= u
          BY <3>1, <4>2, <4>4 DEF RL!Youngest
        <5>2. RL!Youngest(new, u, m - 1) /\ m - 1 \in 0 .. Len(new)
          BY <3>1, <4>2, <4>4 DEF RL!Youngest
        \* If the success's own count is not the newest, lost grows; if it is, it was counted since u.
        <5>6. /\ was \in Nat /\ is \in Nat /\ m \in Nat /\ v3[r].at \in Nat /\ u \in Nat
              /\ m <= was /\ was <= m + v4[k]
          BY <1>0, <1>1, <2>1, <3>1, <4>2
        <5>7. was = is \/ was = is + 1
          <6> HIDE DEF was, is
          <6> QED BY <3>3, <5>6
        <5>8. v4'[k] = v4[k] => was = is + 1
          <6>1. v4'[k] = v4[k] => v3[r].at >= u
            BY <1>12, <4>1, <5>1
          <6> HIDE DEF was, is
          <6> QED BY <3>3, <5>6, <6>1
        <5>9. v4'[k] = v4[k] \/ v4'[k] = v4[k] + 1
          BY <1>12, <4>1
        <5>10. is <= m - 1 + v4'[k] /\ m - 1 <= is
          <6> HIDE DEF was, is
          <6> QED BY <1>12, <5>6, <5>7, <5>8, <5>9
        <5> QED BY <3>4, <5>2, <5>10
      <4> QED BY <3>1, <4>2, <4>3, <4>4
    <3> QED BY <3>5, <3>6
  <2> QED BY <2>2, <2>3
<1>9. ASSUME NEW r \in RL!Requests, RL!Fail(r) PROVE RL!Agree(k, u)'
  <2>1. v1' = v1 /\ v2' = v2 /\ v4' = v4 /\ v3[r].is = "running" /\ v3' = [v3 EXCEPT ![r].is = "failed"]
    BY <1>9 DEF RL!Fail
  <2>2. (RL!Since(k, u))' = RL!Since(k, u)
    BY <1>0, <2>1 DEF RL!Since, RL!TypeOK
  <2>3. (RL!Stamps(k))' = RL!Stamps(k)
    BY <2>1 DEF RL!Stamps
  <2> QED BY <1>5, <1>12, <2>1, <2>2, <2>3
<1>10. CASE RL!Tick
  <2>1. v1' = v1 + 1 /\ v2' = v2 /\ v3' = v3 /\ v4' = v4
    BY <1>10 DEF RL!Tick
  <2>2. (RL!Since(k, u))' = RL!Since(k, u) /\ (RL!Stamps(k))' = RL!Stamps(k)
    BY <2>1 DEF RL!Since, RL!Stamps
  <2>3. CASE u \in 0 .. v1
    <3>1. u + Window > v1
      BY <1>0, <2>1, <2>3, LimiterAssumption
    <3> QED BY <1>2, <2>1, <2>2, <2>3, <3>1 DEF RL!Agree
  <2>4. CASE u \notin 0 .. v1
    <3>1. u = v1 + 1
      BY <1>0, <2>1, <2>4
    <3>2. RL!Since(k, u) = {}
      <4>1. \A q \in RL!Requests : ~(v3[q].at >= u)
        BY <1>0, <1>3, <3>1
      <4> QED BY <4>1 DEF RL!Since
    <3>3. RL!Youngest(RL!Stamps(k), u, 0) /\ 0 \in 0 .. Len(RL!Stamps(k))
      <4> DEFINE old == RL!Stamps(k)
      <4> HIDE DEF old
      <4>1. old \in Seq(0 .. v1)
        BY <1>4 DEF old
      <4>2. Len(old) \in Nat /\ DOMAIN old = 1 .. Len(old)
        BY <4>1
      <4>3. \A i \in 1 .. Len(old) : old[i] \in 0 .. v1
        BY <4>1, ElementOfSeq
      <4>4. \A i \in DOMAIN old : ~(old[i] >= u) /\ ~(i > Len(old) - 0)
        BY <1>0, <3>1, <4>2, <4>3
      <4> QED BY <4>2, <4>4 DEF RL!Youngest, old
    <3>4. RL!Cardinality((RL!Since(k, u))') = 0
      BY <2>2, <3>2, FS_EmptySet, SameCardinality
    <3>5. 0 <= RL!Cardinality((RL!Since(k, u))') /\ RL!Cardinality((RL!Since(k, u))') <= 0 + v4'[k]
      BY <1>12, <3>4
    <3> QED BY <2>2, <3>3, <3>5 DEF RL!Agree
  <2> QED BY <2>3, <2>4
<1>11. CASE RL!Over
  <2>1. v1' = v1 /\ (RL!Stamps(k))' = RL!Stamps(k) /\ (RL!Since(k, u))' = RL!Since(k, u)
    BY <1>11 DEF RL!Over, RL!vars, RL!Stamps, RL!Since
  <2> QED BY <1>5, <1>12, <2>1
<1> QED BY <1>6, <1>7, <1>8, <1>9, <1>10, <1>11 DEF RL!Next

LEMMA LimiterWindows ==
  ASSUME RL!Inv, [RL!Next]_limiter
  PROVE  RL!WindowHolds'
<1>0. RL!TypeOK /\ RL!StampsCount /\ RL!WindowHolds /\ v1 \in Nat
  BY DEF RL!Inv, RL!TypeOK
<1> SUFFICES ASSUME NEW k \in LimiterKeys, NEW t \in 0 .. v1'
             PROVE  Cardinality((RL!InWindow(k, t))') <= Limit + v4'[k]
  BY SameCardinality DEF RL!WindowHolds
<1>1. \A q \in RL!Requests : v3[q].at \in 0 .. v1
  BY <1>0 DEF RL!TypeOK
<1>2. v4[k] <= v4'[k] /\ v4[k] \in Nat /\ v4'[k] \in Nat
  BY LostGrows
<1>3. ASSUME NEW x \in 0 .. v1, (RL!InWindow(k, t))' \subseteq RL!InWindow(k, x)
      PROVE  Cardinality((RL!InWindow(k, t))') <= Limit + v4'[k]
  <2>1. Cardinality(RL!InWindow(k, x)) <= Limit + v4[k]
    BY <1>0, <1>2, SameCardinality DEF RL!WindowHolds
  <2>2. RL!InWindow(k, x) \in SUBSET RL!Requests /\ (RL!InWindow(k, t))' \in SUBSET RL!Requests
    BY DEF RL!InWindow
  <2>3. /\ Cardinality((RL!InWindow(k, t))') <= Cardinality(RL!InWindow(k, x))
        /\ Cardinality((RL!InWindow(k, t))') \in Nat /\ Cardinality(RL!InWindow(k, x)) \in Nat
    BY <1>3, <2>2, RequestsAreFinite
  <2> QED BY <1>2, <2>1, <2>3, LimiterAssumption
<1>4. CASE UNCHANGED limiter \/ RL!Over
  BY <1>3, <1>4 DEF limiter, RL!Over, RL!vars, RL!InWindow
<1>5. ASSUME NEW r \in RL!Requests, NEW key \in LimiterKeys, RL!Check(r, key)
      PROVE  Cardinality((RL!InWindow(k, t))') <= Limit + v4'[k]
  <2> DEFINE s == RL!Counted(key)[key]
  <2>1. /\ v1' = v1 /\ v3[r].is = "unsent" /\ \A q \in RL!Requests \ {r} : v3'[q] = v3[q]
        /\ v3'[r].key = key /\ v3'[r].at = v1
        /\ v3'[r].is = "refused" \/ (v3'[r].is = "running" /\ ~(Len(s) >= Limit))
    BY <1>0, <1>5 DEF RL!Check, RL!TypeOK
  <2>2. CASE v3'[r].is = "refused" \/ k # key \/ t < v1
    <3>1. (RL!InWindow(k, t))' \subseteq RL!InWindow(k, t)
      BY <1>0, <2>1, <2>2 DEF RL!InWindow
    <3> QED BY <1>3, <2>1, <3>1
  <2>3. CASE v3'[r].is = "running" /\ k = key /\ t = v1
    <3> DEFINE live == {q \in RL!Requests : /\ v3[q].is \in {"running", "failed"} /\ v3[q].key = key
                                            /\ v3[q].at + Window > v1}
    <3>1. s \in Seq(0 .. v1)
      BY <1>0, CheckCounts, Zenon
    <3>2. Cardinality(live) <= Len(s) + v4[key]
      BY <1>0, <3>1, CheckCounts, Zenon
    <3>3. live \in SUBSET RL!Requests /\ r \notin live /\ (RL!InWindow(k, t))' \subseteq live \cup {r}
      BY <1>0, <1>1, <2>1, <2>3 DEF RL!InWindow
    <3>4. Len(s) < Limit /\ Len(s) \in Nat
      <4> HIDE DEF s
      <4> QED BY <2>1, <2>3, <3>1, LimiterAssumption
    <3> HIDE DEF live, s
    <3>5. Cardinality(live \cup {r}) = Cardinality(live) + 1
      BY <3>3, OneMoreRequest
    <3>6. Cardinality((RL!InWindow(k, t))') <= Cardinality(live \cup {r}) /\ Cardinality((RL!InWindow(k, t))') \in Nat
      BY <3>3, RequestsAreFinite
    <3>7. Cardinality(live) \in Nat /\ v4[key] = v4[k]
      BY <2>3, <3>3, RequestsAreFinite
    <3> QED BY <1>2, <3>2, <3>4, <3>5, <3>6, <3>7, LimiterAssumption
  <2> QED BY <1>0, <2>1, <2>2, <2>3
<1>6. ASSUME NEW r \in RL!Requests, RL!RecordSuccess(r) \/ RL!Fail(r)
      PROVE  Cardinality((RL!InWindow(k, t))') <= Limit + v4'[k]
  <2>1. /\ v1' = v1 /\ v3[r].is = "running"
        /\ \E w \in {"succeeded", "failed"} : v3' = [v3 EXCEPT ![r].is = w]
    BY <1>6 DEF RL!RecordSuccess, RL!Fail
  <2>2. (RL!InWindow(k, t))' \subseteq RL!InWindow(k, t)
    BY <1>0, <2>1 DEF RL!InWindow, RL!TypeOK
  <2> QED BY <1>3, <2>1, <2>2
<1>7. CASE RL!Tick
  <2>1. v1' = v1 + 1 /\ v3' = v3
    BY <1>7 DEF RL!Tick
  <2>2. CASE t <= v1
    BY <1>0, <1>3, <2>1, <2>2 DEF RL!InWindow
  <2>3. CASE t = v1 + 1
    <3>1. (RL!InWindow(k, t))' \subseteq RL!InWindow(k, v1)
      BY <1>0, <1>1, <2>1, <2>3, LimiterAssumption DEF RL!InWindow
    <3> QED BY <1>0, <1>3, <3>1
  <2> QED BY <1>0, <2>1, <2>2, <2>3
<1> QED BY <1>4, <1>5, <1>6, <1>7 DEF RL!Next

(* No window of a key holds more than Limit requests that did not succeed, *)
(* and one for each success that took back the count of a later request;   *)
(* and a request is refused only where Limit of them are in its window     *)
(* (check and recordSuccess of rate-limiter.ts).                           *)
THEOREM LimitsAreExact == Spec => LimitIsExact
<1>1. LimiterInv /\ [Next]_all => LimiterInv'
  <2> SUFFICES ASSUME LimiterInv, [Next]_all, which' = "limiter" PROVE RL!Inv'
    BY DEF LimiterInv
  <2>1. RL!Inv /\ [RL!Next]_limiter
    BY LimiterSteps DEF LimiterInv
  <2> QED BY <2>1, LimiterTypes, LimiterCounts, LimiterWindows DEF RL!Inv
<1>2. LimiterInv => RL_WindowHolds
  BY DEF LimiterInv, RL_WindowHolds, RL!Inv
<1>3. LimiterInv /\ [Next]_all => [which = "limiter" => RL!RefusalIsNeeded]_all
  <2> SUFFICES ASSUME RL!Inv, Next, which = "limiter", NEW r \in RL!Requests,
                      v3[r].is = "unsent", v3'[r].is = "refused"
               PROVE  Cardinality({q \in RL!Requests : /\ v3[q].is \in {"running", "failed"}
                                                        /\ v3[q].key = v3'[r].key
                                                        /\ v3[q].at + Window > v1}) >= Limit
    BY SameCardinality DEF LimiterInv, RL!RefusalIsNeeded
  <2>1. RL!TypeOK /\ RL!StampsCount /\ RL!Next
    BY DEF RL!Inv, Next
  <2>2. PICK key \in LimiterKeys : RL!Check(r, key)
    BY <2>1 DEF RL!Next, RL!TypeOK, RL!Check, RL!RecordSuccess, RL!Fail, RL!Tick, RL!Over, RL!vars
  <2> DEFINE s == RL!Counted(key)[key]
             live == {q \in RL!Requests : /\ v3[q].is \in {"running", "failed"} /\ v3[q].key = key
                                          /\ v3[q].at + Window > v1}
  <2>3. Len(s) >= Limit /\ v3'[r].key = key
    BY <2>1, <2>2 DEF RL!Check, RL!TypeOK
  <2>4. s \in Seq(0 .. v1) /\ Len(s) <= Cardinality(live)
    BY <2>1, CheckCounts, Zenon
  <2>5. Cardinality(live) \in Nat
    BY RequestsAreFinite
  <2> HIDE DEF s
  <2> QED BY <2>3, <2>4, <2>5, LimiterAssumption
<1> QED BY <1>1, <1>2, <1>3, LimiterInit, PTL DEF Spec, LimitIsExact, RL_RefusalIsNeeded
================================================================================
