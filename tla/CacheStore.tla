------------------------------ MODULE CacheStore ------------------------------
(***************************************************************************)
(* What a cache store promises (the CacheStore interface of                *)
(* sourceog-runtime/src/cache.ts, with MemoryCacheStore as its direct      *)
(* implementation): a map from keys to entries, on which every operation   *)
(* that is asked for takes effect once, all at once and completely.        *)
(* FsStore implements it over files.                                       *)
(***************************************************************************)
CONSTANTS Procs, Keys, Tags, Routes, Entries, None

VARIABLES
  entries,
  asked    \* what each caller has asked for that has not taken effect yet

Init == entries = [k \in Keys |-> None] /\ asked = [p \in Procs |-> None]

\* MemoryCacheStore keys the entry by entry.routeKey; every caller that uses a shared store
\* passes the same string as key and as routeKey, or relies on the file store, which uses
\* the key.
Requests ==
  [what : {"set"}, key : Keys, entry : Entries, arg : {{}}]
  \cup [what : {"purge"}, key : {None}, entry : {None}, arg : SUBSET Tags]
  \cup [what : {"drop"}, key : {None}, entry : {None}, arg : SUBSET Keys]
  \cup [what : {"routes"}, key : {None}, entry : {None}, arg : SUBSET Routes]

Ask(p) ==
  /\ asked[p] = None /\ asked'[p] # None
  /\ \E r \in Requests : asked' = [asked EXCEPT ![p] = r]
  /\ UNCHANGED entries

Present == {k \in Keys : entries[k] # None}
Without(doomed) == [k \in Keys |-> IF k \in doomed THEN None ELSE entries[k]]

Set(r) == r.what = "set" /\ entries' = [entries EXCEPT ![r.key] = r.entry]

\* A store may drop more than the tagged entries: the files remember the tags of entries
\* that have been replaced.
Purge(r) ==
  /\ r.what = "purge"
  /\ \E doomed \in SUBSET Present :
       /\ {k \in Present : entries[k].tags \cap r.arg # {}} \subseteq doomed
       /\ entries' = Without(doomed)

PurgeKeys(r) == r.what = "drop" /\ entries' = Without(r.arg)

PurgeLinkedRoutes(r) ==
  /\ r.what = "routes"
  /\ entries' = Without({k \in Present : entries[k].routes \cap r.arg # {}})

TakeEffect(p) ==
  /\ asked[p] # None /\ asked'[p] = None
  /\ asked' = [asked EXCEPT ![p] = None]
  /\ Set(asked[p]) \/ Purge(asked[p]) \/ PurgeKeys(asked[p]) \/ PurgeLinkedRoutes(asked[p])

Next == \E p \in Procs : Ask(p) \/ TakeEffect(p)

Spec == Init /\ [][Next]_<<entries, asked>>
================================================================================
