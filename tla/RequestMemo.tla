------------------------------ MODULE RequestMemo ------------------------------
(* The memo of one request: sourceogFetch of sourceog-runtime/src/fetch.ts,  *)
(* which deduplicates the GETs of a render, and the hints that cacheTag,     *)
(* cacheLife and updateTag of sourceog/src/cache.ts leave for later fetches. *)
(* A response is the version of the origin it was read from.                 *)
EXTENDS Naturals, FiniteSets
CONSTANTS Callers, Urls, Tags,
          MaxVersion,   \* bound on the origin's versions
          None

VARIABLES origin,
          hints,    \* tags collected by cacheTag for the request
          memo,     \* url -> None or [st, by, ver, tags]
          tagMap,   \* url -> tags clearRequestMemoByTags looks for
          call,     \* each caller's fetch
          raced,    \* urls cleared while their fetch was in flight
          floor     \* url -> version left as the oldest by a clear
vars == <<origin, hints, memo, tagMap, call, raced, floor>>

Idle == [pc |-> "idle"]
InFlight(u) == {c \in Callers : call[c].pc = "fetch" /\ call[c].url = u}

Init == /\ origin = 1 /\ hints = {}
        /\ memo = [u \in Urls |-> None] /\ tagMap = [u \in Urls |-> {}]
        /\ call = [c \in Callers |-> Idle]
        /\ raced = {} /\ floor = [u \in Urls |-> 0]

CacheTag(t) == /\ hints' = hints \cup {t}
               /\ UNCHANGED <<origin, memo, tagMap, call, raced, floor>>

\* The promise is stored at once; the tags are those of the fetch and the hints.
StoredLater(c, u, ts) == memo
Stored(c, u, ts) ==
  [memo EXCEPT ![u] = [st |-> "pending", by |-> c, ver |-> origin, tags |-> ts \cup hints]]

OwnTags(ts) == ts
MergedTags(ts) == ts \cup hints

\* A fetch with its own tags and the hints.  A settled response is cloned and
\* returned at once; a promise is awaited; otherwise one is made and stored,
\* and its tags with it.  The tags of a fetch that hits are not added.
Fetch(c, u, ts) ==
  /\ call[c].pc = "idle"
  /\ LET tags == MergedTags(ts)
     IN CASE memo[u] # None /\ memo[u].st = "ok" -> UNCHANGED <<memo, tagMap, call>>
          [] memo[u] # None /\ memo[u].st = "pending" ->
               /\ call' = [call EXCEPT ![c] = [pc |-> "join", on |-> memo[u].by]]
               /\ UNCHANGED <<memo, tagMap>>
          [] memo[u] # None /\ memo[u].st = "failed" -> UNCHANGED <<memo, tagMap, call>>
          [] OTHER ->
               /\ memo' = Stored(c, u, ts)
               /\ tagMap' = [tagMap EXCEPT ![u] = IF tags = {} THEN @ ELSE tags]
               /\ call' = [call EXCEPT ![c] =
                             [pc |-> "fetch", url |-> u, ver |-> origin, tags |-> ts \cup hints]]
  /\ UNCHANGED <<origin, hints, raced, floor>>

\* The response arrives, after persistToDataCache (whose errors are swallowed)
\* for a fetch with a routeScope, and is stored in the memo - also in one that
\* has been cleared since.  A rejected promise stays in the memo.
Settle(c, ok) ==
  /\ call[c].pc = "fetch"
  /\ LET u == call[c].url
         mine == memo[u] # None /\ memo[u].st = "pending" /\ memo[u].by = c
     IN memo' = CASE ok -> [memo EXCEPT ![u] = [st |-> "ok", by |-> None,
                                                ver |-> call[c].ver, tags |-> call[c].tags]]
                  [] ~ok /\ mine -> [memo EXCEPT ![u].st = "failed", ![u].by = None]
                  [] OTHER -> memo
  /\ call' = [d \in Callers |->
       IF d = c \/ (call[d].pc = "join" /\ call[d].on = c) THEN Idle ELSE call[d]]
  /\ UNCHANGED <<origin, hints, tagMap, raced, floor>>

Forget(us) ==
  /\ memo' = [u \in Urls |-> IF u \in us THEN None ELSE memo[u]]
  /\ tagMap' = [u \in Urls |-> IF u \in us THEN {} ELSE tagMap[u]]
  /\ UNCHANGED call

\* What a clear promises for each url it is meant to reach, judged by the tags
\* of the fetch that filled the memo.
Promise(us) ==
  /\ raced' = raced \cup {u \in us : InFlight(u) # {}}
  /\ floor' = [u \in Urls |-> IF u \in us /\ InFlight(u) = {} THEN origin' ELSE floor[u]]
TaggedWith(ts) == {u \in Urls : memo[u] # None /\ memo[u].tags \cap ts # {}}

\* revalidateTag after the source was written; updateTag, which also renames
\* the hint; revalidatePath and revalidateResource of a route.
ClearByAllTags(ts) == Forget({u \in Urls : ts \subseteq tagMap[u]}) /\ Promise(TaggedWith(ts))
ClearByTags(ts) == Forget({u \in Urls : tagMap[u] \cap ts # {}}) /\ Promise(TaggedWith(ts))

RevalidateTag(ts) ==
  /\ origin < MaxVersion /\ origin' = origin + 1
  /\ ClearByTags(ts)
  /\ UNCHANGED hints

UpdateTag(s, t) ==
  /\ UNCHANGED origin
  /\ hints' = IF s \in hints THEN (hints \ {s}) \cup {t} ELSE hints
  /\ ClearByTags({s})

RevalidatePath ==
  /\ origin < MaxVersion /\ origin' = origin + 1
  /\ Forget(Urls) /\ Promise(Urls)
  /\ UNCHANGED hints

Next == \/ \E t \in Tags : CacheTag(t)
        \/ \E c \in Callers, u \in Urls, ts \in SUBSET Tags : Fetch(c, u, ts)
        \/ \E c \in Callers, ok \in BOOLEAN : Settle(c, ok)
        \/ \E ts \in (SUBSET Tags) \ {{}} : RevalidateTag(ts)
        \/ \E s, t \in Tags : s # t /\ UpdateTag(s, t)
        \/ RevalidatePath
Spec == Init /\ [][Next]_vars

------------------------------------------------------------------------------
Settled(u) == memo[u] # None /\ memo[u].st = "ok"

\* A memo cleared with no fetch of its url in flight never again answers with
\* a response older than the clear: later fetches of the render go to the
\* network ("Bust the per-request memo so subsequent fetches go to the network").
ClearedStaysCleared == \A u \in Urls \ raced : Settled(u) => memo[u].ver >= floor[u]

\* The render asks the network once for a url, until a clear races the fetch.
OneFetchPerUrl == \A u \in Urls \ raced : Cardinality(InFlight(u)) <= 1

\* Every memoised response can be reached by each tag of the fetch that made
\* it, hints included.
TagsReachTheMemo == \A u \in Urls \ raced : Settled(u) => memo[u].tags \subseteq tagMap[u]
------------------------------------------------------------------------------
Memos == [st : {"pending", "ok", "failed"}, by : Callers \cup {None}, ver : Nat, tags : SUBSET Tags]
Calls == [pc : {"idle"}] \cup [pc : {"join"}, on : Callers \cup {None}]
           \cup [pc : {"fetch"}, url : Urls, ver : Nat, tags : SUBSET Tags]
TypeOK ==
  /\ origin \in Nat /\ hints \subseteq Tags
  /\ memo \in [Urls -> Memos \cup {None}] /\ tagMap \in [Urls -> SUBSET Tags]
  /\ call \in [Callers -> Calls] /\ raced \subseteq Urls /\ floor \in [Urls -> Nat]

\* Why all three hold: until a clear races its fetch, a url's memo has the tags under which a
\* clear looks for it, and is the promise of the one fetch that is in flight.
IsTheFetch(u) ==
  /\ memo[u] # None => memo[u].tags = tagMap[u] /\ memo[u].ver >= floor[u]
  /\ \A c \in InFlight(u) :
       memo[u] = [st |-> "pending", by |-> c, ver |-> call[c].ver, tags |-> call[c].tags]
MemoIsTheFetch ==
  /\ \A u \in Urls : floor[u] <= origin /\ (memo[u] = None => tagMap[u] = {})
  /\ \A u \in Urls \ raced : IsTheFetch(u)
Inv == TypeOK /\ MemoIsTheFetch
================================================================================
