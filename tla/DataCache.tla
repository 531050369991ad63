------------------------------ MODULE DataCache ------------------------------
(***************************************************************************)
(* The two-level data cache of the runtime (sourceog-runtime/src/          *)
(* data-cache.ts): an in-memory LRU map whose entries are invalidated by   *)
(* tag generations, in front of a backend that is read and written         *)
(* asynchronously and may fail.                                            *)
(*                                                                         *)
(* A client is one caller: its call runs to the first await in one step,   *)
(* the backend acts in a second one, and what follows the await is a step  *)
(* of its own where it touches the cache.  A set writes a new version, a   *)
(* natural number, so that a value tells when it was written.              *)
(***************************************************************************)
EXTENDS Integers, Sequences, FiniteSets, TLC

CONSTANTS Key, Tag,
          TagsOf,       \* TagsOf[k]: the tags of the entries stored under key k
          Client,
          Capacity,     \* maxL1Size
          Backends,     \* "none"; "memory": keeps the entry; "json": writes it as JSON
          Mortal,       \* the versions written with a ttl
          MaxVersion,   \* bound: number of set calls
          MaxGeneration \* bound: revalidations of one tag

ASSUME CacheAssumption ==
  /\ TagsOf \in [Key -> SUBSET Tag]
  /\ Capacity \in Nat \ {0}
  /\ Backends \subseteq {"none", "memory", "json"}
  /\ MaxVersion \in Nat /\ Mortal \subseteq 1 .. MaxVersion
  /\ MaxGeneration \in Nat

VARIABLES backend,  \* the one the cache was made with
          l1,       \* the entry of each key in memory, or Absent
          order,    \* the keys of the L1 map in insertion order, oldest first
          gens,     \* tagGenerations
          tagIndex, \* the keys indexed under each tag
          l2,       \* what the backend holds
          expired,  \* versions whose ttl has passed
          next,     \* the next version
          born,     \* history: the tag generations when a version was written
          done,     \* history: the revalidations of each tag that have returned
          call,     \* what each client is waiting for
          ret       \* history: the outcome of the last get

vars == <<backend, l1, order, gens, tagIndex, l2, expired, next, born, done, call, ret>>
memory == <<l1, order, tagIndex>>
history == <<next, born, done>>

Version == 1 .. MaxVersion
Generations == [Tag -> Nat]

(* An entry is its version and its tagGenerationSnapshot, which restricts  *)
(* to the tags of its key and is here recorded for all of them.  JSON      *)
(* turns the snapshot, a Map, into {}: the entry is then garbled.          *)
Entry == [ver : Version, snap : Generations, garbled : BOOLEAN]
Absent == [ver |-> 0, snap |-> [t \in Tag |-> 0], garbled |-> FALSE]
Slots == Entry \cup {Absent}

Idle == [op |-> "idle"]
Calls == {Idle}
  \cup [op : {"read"}, key : Key, since : Generations]
  \cup [op : {"fill"}, key : Key, since : Generations, entry : Entry]
  \cup [op : {"write"}, key : Key, entry : Entry]
  \cup [op : {"purge"}, tag : Tag, gen : Nat]

Nothing == [src |-> "nothing"]
Threw == [src |-> "throw"]
Returns == {Nothing, Threw}
  \cup [src : {"l1", "l2"}, key : Key, ver : Version, since : Generations, now : Generations]

TypeOK ==
  /\ backend \in Backends
  /\ l1 \in [Key -> Slots]
  /\ order \in Seq(Key)
  /\ gens \in Generations
  /\ tagIndex \in [Tag -> SUBSET Key]
  /\ l2 \in [Key -> Slots]
  /\ expired \subseteq Version
  /\ next \in Nat
  /\ born \in [Version -> Generations]
  /\ done \in Generations
  /\ call \in [Client -> Calls]
  /\ ret \in Returns

Init ==
  /\ backend \in Backends
  /\ l1 = [k \in Key |-> Absent]
  /\ order = <<>>
  /\ gens = [t \in Tag |-> 0]
  /\ tagIndex = [t \in Tag |-> {}]
  /\ l2 = [k \in Key |-> Absent]
  /\ expired = {}
  /\ next = 1
  /\ born = [v \in Version |-> [t \in Tag |-> 0]]
  /\ done = [t \in Tag |-> 0]
  /\ call = [c \in Client |-> Idle]
  /\ ret = Nothing

----------------------------------------------------------------------------
(* The L1 map: a Map keeps insertion order, so taking a key out and        *)
(* putting it back makes it the youngest.                                  *)
Position(k) == CHOOSE i \in DOMAIN order : order[i] = k

Without(k) == LET p == Position(k)
              IN  [i \in 1 .. Len(order) - 1 |-> IF i < p THEN order[i] ELSE order[i + 1]]

Resident == {k \in Key : l1[k] # Absent}
Full == Len(order) >= Capacity

(* isEntryValid: O(1) check of the generations of the entry's own tags. *)
IsValid(k, e) == \A t \in TagsOf[k] : e.snap[t] = gens[t]

(* Iterating a snapshot that came back from JSON as {} throws. *)
Throws(k, e) == e.garbled /\ TagsOf[k] # {}

UnindexedWithSiblings(k) ==      \* mutated: drops the tag with its first key
  [t \in Tag |-> IF t \in TagsOf[k] THEN {} ELSE tagIndex[t]]
Unindexed(k) == [t \in Tag |-> IF t \in TagsOf[k] THEN tagIndex[t] \ {k}
                               ELSE tagIndex[t]]

(* evictLRU takes the first key of the map, and unindexes it. *)
Keys(s) == {s[i] : i \in DOMAIN s}

(* Put e under key k, after evicting the first key if evict holds.  Writing *)
(* over a key that is still there leaves it where it is in the order.      *)
Put(k, e, evict, index) ==
  LET old  == IF evict THEN Head(order) ELSE k
      kept == IF evict THEN Tail(order) ELSE order
      idx  == IF evict THEN Unindexed(old) ELSE tagIndex
  IN  /\ l1' = [l1 EXCEPT ![old] = Absent, ![k] = e]
      /\ order' = IF k \in Keys(kept) THEN kept ELSE Append(kept, k)
      /\ tagIndex' = [t \in Tag |-> IF index /\ t \in TagsOf[k]
                                    THEN idx[t] \cup {k} ELSE idx[t]]

Returned(src, k, v, since) == ret' = [src |-> src, key |-> k, ver |-> v,
                                      since |-> since, now |-> gens]
Answers(c) == call' = [call EXCEPT ![c] = Idle]

----------------------------------------------------------------------------
(* get, up to its first await: an L1 entry is dropped if its ttl is over   *)
(* or a tag of it was invalidated, and otherwise returned, as the youngest *)
(* entry of the map.                                                       *)
Usable(k) == /\ k \in Resident
             /\ l1[k].ver \notin expired
             /\ IsValid(k, l1[k])

GetHit(c, k) ==
  /\ call[c] = Idle
  /\ Usable(k) /\ ~Throws(k, l1[k])
  /\ order' = Append(Without(k), k)
  /\ Returned("l1", k, l1[k].ver, done)
  /\ UNCHANGED <<backend, l1, gens, tagIndex, l2, expired, history, call>>

GetThrows(c, k) ==
  /\ call[c] = Idle
  /\ k \in Resident /\ l1[k].ver \notin expired /\ Throws(k, l1[k])
  /\ ret' = Threw
  /\ UNCHANGED <<backend, memory, gens, l2, expired, history, call>>

GetMiss(c, k, skipL2) ==
  /\ call[c] = Idle
  /\ IF k \in Resident
     THEN /\ ~Usable(k)
          /\ l1[k].ver \in expired \/ ~Throws(k, l1[k])
          /\ l1' = [l1 EXCEPT ![k] = Absent]
          /\ order' = Without(k)
     ELSE UNCHANGED <<l1, order>>
  /\ IF skipL2 \/ backend = "none"
     THEN UNCHANGED call
     ELSE call' = [call EXCEPT ![c] = [op |-> "read", key |-> k, since |-> done]]
  /\ ret' = Nothing
  /\ UNCHANGED <<backend, gens, tagIndex, l2, expired, history>>

(* The backend answers a read: with the entry, with nothing, or not at all *)
(* (a failed read is a miss).                                              *)
BackendReads(c) ==
  /\ call[c].op = "read"
  /\ LET k == call[c].key IN
     \/ /\ l2[k] # Absent
        /\ call' = [call EXCEPT ![c] = [op |-> "fill", key |-> k,
                                        since |-> @.since, entry |-> l2[k]]]
     \/ Answers(c)
  /\ ret' = Nothing
  /\ UNCHANGED <<backend, memory, gens, l2, expired, history>>

(* get, after the await: the L2 entry goes to L1 as it is, and to the      *)
(* caller.  Room is made even when the key has come back in the meantime.  *)
StampedNow(k, e) == [e EXCEPT !.snap = [t \in Tag |-> IF t \in TagsOf[k]
                                                      THEN gens[t] ELSE 0]] \* mutated
AsStored(k, e) == e

GetFill(c) ==
  /\ call[c].op = "fill"
  /\ LET k == call[c].key
         e == call[c].entry
     IN IF e.ver \in expired
        THEN ret' = Nothing /\ UNCHANGED memory
        ELSE /\ Put(k, AsStored(k, e), Full, FALSE)
             /\ Returned("l2", k, e.ver, call[c].since)
  /\ Answers(c)
  /\ UNCHANGED <<backend, gens, l2, expired, history>>

(* set, up to its await.  The tags of an entry are those of its key: a     *)
(* caller that passes others (options.tags) is left out.                   *)
MakesRoom(k) == k \notin Resident /\ Full

Snapshot(k) == [t \in Tag |-> IF t \in TagsOf[k] THEN gens[t] ELSE 0]

Set(c, k, skipL2) ==
  /\ call[c] = Idle
  /\ next <= MaxVersion
  /\ LET e == [ver |-> next, snap |-> Snapshot(k), garbled |-> FALSE] IN
     /\ Put(k, e, MakesRoom(k), TRUE)
     /\ call' = IF skipL2 \/ backend = "none" THEN call
                ELSE [call EXCEPT ![c] = [op |-> "write", key |-> k, entry |-> e]]
     /\ born' = [born EXCEPT ![next] = Snapshot(k)]
  /\ next' = next + 1
  /\ UNCHANGED <<backend, gens, l2, expired, done>>
  /\ ret' = Nothing

(* The backend write lands, or fails and is only logged. *)
BackendWrites(c) ==
  /\ call[c].op = "write"
  /\ \/ l2' = [l2 EXCEPT ![call[c].key] =
                 [call[c].entry EXCEPT !.garbled = (backend = "json")]]
     \/ l2' = l2
  /\ Answers(c)
  /\ UNCHANGED <<backend, memory, gens, expired, history>>
  /\ ret' = Nothing

(* delete: L1 and its index only. *)
Delete(k) ==
  /\ k \in Resident
  /\ l1' = [l1 EXCEPT ![k] = Absent]
  /\ order' = Without(k)
  /\ tagIndex' = Unindexed(k)
  /\ UNCHANGED <<backend, gens, l2, expired, history, call>>
  /\ ret' = Nothing

(* revalidateTag, up to its await, and the backend's deleteByTag. *)
RevalidateTag(c, t) ==
  /\ call[c] = Idle
  /\ gens[t] < MaxGeneration
  /\ gens' = [gens EXCEPT ![t] = @ + 1]
  /\ tagIndex' = [tagIndex EXCEPT ![t] = {}]
  /\ IF backend = "none"
     THEN done' = [done EXCEPT ![t] = gens'[t]] /\ UNCHANGED call
     ELSE /\ call' = [call EXCEPT ![c] = [op |-> "purge", tag |-> t, gen |-> gens'[t]]]
          /\ UNCHANGED done
  /\ UNCHANGED <<backend, l1, order, l2, expired, next, born>>
  /\ ret' = Nothing

BackendPurges(c) ==
  /\ call[c].op = "purge"
  /\ LET t == call[c].tag IN
     /\ \/ l2' = [k \in Key |-> IF t \in TagsOf[k] THEN Absent ELSE l2[k]]
        \/ l2' = l2
     /\ done' = [done EXCEPT ![t] = IF @ < call[c].gen THEN call[c].gen ELSE @]
  /\ Answers(c)
  /\ UNCHANGED <<backend, memory, gens, expired, next, born>>
  /\ ret' = Nothing

(* The ttl of a written version passes. *)
Expire(v) ==
  /\ v \in Mortal /\ v < next /\ v \notin expired
  /\ expired' = expired \cup {v}
  /\ UNCHANGED <<backend, memory, gens, l2, history, call>>
  /\ ret' = Nothing

Next ==
  \/ \E c \in Client, k \in Key :
       \/ GetHit(c, k) \/ GetThrows(c, k)
       \/ \E skipL2 \in BOOLEAN : GetMiss(c, k, skipL2) \/ Set(c, k, skipL2)
  \/ \E c \in Client : BackendReads(c) \/ GetFill(c) \/ BackendWrites(c) \/ BackendPurges(c)
  \/ \E c \in Client, t \in Tag : RevalidateTag(c, t)
  \/ \E k \in Key : Delete(k)
  \/ \E v \in Version : Expire(v)

Spec == Init /\ [][Next]_vars

----------------------------------------------------------------------------
(* The LRU order lists exactly the resident keys, once each, and never     *)
(* more than maxL1Size of them, whatever fills arrive after the key was    *)
(* set, evicted or deleted meanwhile.                                      *)
L1Bounded ==
  /\ Len(order) <= Capacity
  /\ Keys(order) = Resident
  /\ \A i, j \in DOMAIN order : order[i] = order[j] => i = j

(* A hit in L1 was written after the last invalidation of each of its      *)
(* tags, also when the entry came back from L2: the O(1) generation check  *)
(* stands in for deleting the entries.                                     *)
L1HitIsFresh ==
  ret.src = "l1" => \A t \in TagsOf[ret.key] : born[ret.ver][t] = ret.now[t]

(* Without a backend a valid entry is in the index under each of its tags; *)
(* entries filled from a backend never are.                                *)
ValidIsIndexed ==
  backend = "none" =>
    \A k \in Resident : IsValid(k, l1[k]) => \A t \in TagsOf[k] : k \in tagIndex[t]

(* The order, the entries and the index of the cache belong together.      *)
L1IsSound == TypeOK /\ L1Bounded /\ ValidIsIndexed

(* "a get() that finds a mismatched generation treats the entry as a       *)
(* miss": once revalidateTag has returned, a get that starts afterwards    *)
(* never returns a value written before it.                                *)
NoStaleRead ==
  ret.src \in {"l1", "l2"} => \A t \in TagsOf[ret.key] : born[ret.ver][t] >= ret.since[t]

----------------------------------------------------------------------------
(* For TLC: every key has every tag, but for one of several, which has     *)
(* none.  The callers are alike, and so are the tagged keys.               *)
OneUntagged ==
  LET untagged == CHOOSE k \in Key : TRUE
  IN  [k \in Key |-> IF Key # {k} /\ k = untagged THEN {} ELSE Tag]

Alike == Permutations(Client) \cup Permutations({k \in Key : TagsOf[k] # {}})
=============================================================================
