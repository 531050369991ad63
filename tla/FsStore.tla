------------------------------- MODULE FsStore --------------------------------
(* FilesystemCacheStore ("route") and DataFilesystemCacheStore ("data") of  *)
(* sourceog-runtime/src/filesystem-cache-store.ts, one file-system call at  *)
(* a time.  Entries live in one file per key, written to a shared temporary *)
(* name and renamed; a second file, tags.json, maps each tag to the keys    *)
(* that carry it and is rewritten as a whole by every operation.            *)
EXTENDS Naturals, FiniteSets
CONSTANTS Procs,      \* callers whose operations may overlap
          Keys,       \* file names, after safeKey
          Tags, Routes,
          Entries,    \* records [tags, routes]
          MaxOps,     \* bound on the operations started
          None

VARIABLES kind,   \* which of the two classes
          file,   \* key -> entry on disk
          tmp,    \* key -> entry in <key>.json.tmp
          index,  \* tags.json: tag -> keys, or None when missing or corrupt
          itmp,   \* tags.json.tmp
          op,     \* each caller's operation in progress
          ops
vars == <<kind, file, tmp, index, itmp, op, ops>>

NoTags == [t \in Tags |-> {}]
Idle == [pc |-> "idle"]

\* A caller's operation: what it does, to which key, entry, tags or routes,
\* the keys it still has to unlink (todo) and has chosen (doomed), and the
\* index it has read.
Start(p, what, key, entry, arg, pc) ==
  /\ op[p].pc = "idle"
  /\ ops < MaxOps
  /\ ops' = ops + 1
  /\ op' = [op EXCEPT ![p] = [pc |-> pc, what |-> what, key |-> key, entry |-> entry,
                              arg |-> arg, todo |-> {}, doomed |-> {}, idx |-> None]]
  /\ UNCHANGED <<kind, file, tmp, index, itmp>>

At(p, pc) == op[p].pc = pc
Go(p, changes) == op' = [op EXCEPT ![p] = changes]
Finish(p) == op' = [op EXCEPT ![p] = Idle]
Same == UNCHANGED <<kind, ops>>

Init == /\ kind \in {"route", "data"}
        /\ file = [k \in Keys |-> None] /\ tmp = [k \in Keys |-> None]
        /\ index = None /\ itmp = None
        /\ op = [p \in Procs |-> Idle] /\ ops = 0

------------------------------------------------------------------------------
(* set *)
Set(p, k, e) == Start(p, "set", k, e, {}, "write")

WriteEntry(p) ==
  /\ At(p, "write")
  /\ tmp' = [tmp EXCEPT ![op[p].key] = op[p].entry]
  /\ Go(p, [op[p] EXCEPT !.pc = "rename"])
  /\ UNCHANGED <<file, index, itmp>> /\ Same

\* The rename fails, and with it the call, when another writer of the key
\* has already moved the temporary file away.  An entry without tags leaves the
\* route store's index alone.
RenameEntry(p) ==
  /\ At(p, "rename")
  /\ LET k == op[p].key
         indexed == kind = "data" \/ op[p].entry.tags # {}
     IN IF tmp[k] = None
        THEN Finish(p) /\ UNCHANGED <<file, tmp>>
        ELSE /\ file' = [file EXCEPT ![k] = tmp[k]]
             /\ tmp' = [tmp EXCEPT ![k] = None]
             /\ IF indexed THEN Go(p, [op[p] EXCEPT !.pc = "load"]) ELSE Finish(p)
  /\ UNCHANGED <<index, itmp>> /\ Same

------------------------------------------------------------------------------
(* The index: read it (rebuilding it from the entry files in the route store, *)
(* starting afresh in the data store), then edit it and write it back.        *)
ScanNothing == NoTags
Scan == [t \in Tags |-> {k \in Keys : file[k] # None /\ t \in file[k].tags}]

LoadIndex(p) ==
  /\ At(p, "load")
  /\ CASE index # None -> /\ Go(p, [op[p] EXCEPT !.pc = "edit", !.idx = index])
                          /\ UNCHANGED itmp
       [] index = None /\ kind = "route" -> /\ Go(p, [op[p] EXCEPT !.pc = "republish", !.idx = Scan])
                                            /\ itmp' = Scan
       [] index = None /\ kind = "data" /\ op[p].what = "set" ->
            Go(p, [op[p] EXCEPT !.pc = "edit", !.idx = NoTags]) /\ UNCHANGED itmp
       [] OTHER -> Finish(p) /\ UNCHANGED itmp
  /\ UNCHANGED <<file, tmp, index>> /\ Same

\* The rename that ends rebuildTagIndex; a failure is ignored.
Republish(p) ==
  /\ At(p, "republish")
  /\ index' = IF itmp = None THEN index ELSE itmp
  /\ itmp' = None
  /\ Go(p, [op[p] EXCEPT !.pc = "edit"])
  /\ UNCHANGED <<file, tmp>> /\ Same

\* Mutant: nothing is matched any more once a removal has been made.
MatchesUntilEmpty(p) == IF \E t \in op[p].arg : op[p].idx[t] = {} THEN {}
                       ELSE UNION {op[p].idx[t] : t \in op[p].arg}
Matches(p) == UNION {op[p].idx[t] : t \in op[p].arg}
FindsByTag(p) == op[p].what = "purge" /\ op[p].doomed = {}

\* What each operation makes of the index it read.
Edited(p) ==
  LET o == op[p]
      Keep(t) == o.idx[t] \ o.doomed
  IN [t \in Tags |->
        CASE o.what = "set" -> o.idx[t] \cup (IF t \in o.entry.tags THEN {o.key} ELSE {})
          [] o.what = "purge" /\ kind = "data" -> IF t \in o.arg THEN {} ELSE o.idx[t]
          [] OTHER -> Keep(t)]

\* updateTagIndex after the read: an empty route index is unlinked, any other
\* is written to the temporary name; the data store's delete writes nothing
\* when it changed nothing.
EditIndex(p) ==
  /\ At(p, "edit") /\ ~FindsByTag(p)
  /\ LET e == Edited(p)
     IN CASE kind = "route" /\ e = NoTags ->
               index' = None /\ Finish(p) /\ UNCHANGED itmp
          [] kind = "data" /\ op[p].what = "drop" /\ e = op[p].idx ->
               Finish(p) /\ UNCHANGED <<index, itmp>>
          [] OTHER -> /\ itmp' = e
                      /\ Go(p, [op[p] EXCEPT !.pc = "publish"])
                      /\ UNCHANGED index
  /\ UNCHANGED <<file, tmp>> /\ Same

PublishIndex(p) ==
  /\ At(p, "publish")
  /\ index' = IF itmp = None THEN index ELSE itmp
  /\ itmp' = None
  /\ Finish(p)
  /\ UNCHANGED <<file, tmp>> /\ Same

------------------------------------------------------------------------------
(* purge by tag, purge by key (also revalidate and delete), purge by route *)
Purge(p, ts) == (kind = "data" => Cardinality(ts) = 1) /\ Start(p, "purge", None, None, ts, "load")

\* The keys the index names; with none the route store stops here, while
\* the data store still deletes the tag.
FindByTag(p) ==
  /\ At(p, "edit") /\ FindsByTag(p)
  /\ CASE Matches(p) # {} -> Go(p, [op[p] EXCEPT !.pc = "unlink", !.todo = Matches(p),
                                                 !.doomed = Matches(p)])
       [] Matches(p) = {} /\ kind = "data" -> Go(p, [op[p] EXCEPT !.pc = "publish"])
       [] OTHER -> Finish(p)
  /\ itmp' = IF Matches(p) = {} /\ kind = "data" THEN Edited(p) ELSE itmp
  /\ UNCHANGED <<file, tmp, index>> /\ Same

Drop(p, ks) == (kind = "data" => Cardinality(ks) = 1) /\ Start(p, "drop", None, None, ks, "find")
PurgeLinkedRoutes(p, rs) == kind = "route" /\ Start(p, "routes", None, None, rs, "find")

\* drop unlinks its keys whether or not they exist; routes scans the entry files.
Find(p) ==
  /\ At(p, "find")
  /\ LET o == op[p]
         chosen == IF o.what = "drop" THEN o.arg
                   ELSE {k \in Keys : file[k] # None /\ file[k].routes \cap o.arg # {}}
     IN IF chosen = {} THEN Finish(p)
        ELSE Go(p, [o EXCEPT !.pc = "unlink", !.todo = chosen, !.doomed = chosen])
  /\ UNCHANGED <<file, tmp, index, itmp>> /\ Same

\* The unlinks run together and finish in any order; then the index follows.
\* deleteByTag edits the index it read before the unlinks, the others read anew.
Unlink(p, k) ==
  /\ At(p, "unlink") /\ k \in op[p].todo
  /\ file' = [file EXCEPT ![k] = None]
  /\ LET left == op[p].todo \ {k}
         after == IF kind = "data" /\ op[p].what = "purge" THEN "edit" ELSE "load"
     IN Go(p, [op[p] EXCEPT !.todo = left, !.pc = IF left = {} THEN after ELSE "unlink"])
  /\ UNCHANGED <<tmp, index, itmp>> /\ Same

\* tags.json is lost or corrupt: only the route store rebuilds it.
LoseIndex ==
  /\ kind = "route" /\ index # None
  /\ index' = None
  /\ UNCHANGED <<kind, file, tmp, itmp, op, ops>>

Step(p) ==
  \/ \E k \in Keys, e \in Entries : Set(p, k, e)
  \/ \E ts \in (SUBSET Tags) \ {{}} : Purge(p, ts)
  \/ \E ks \in (SUBSET Keys) \ {{}} : Drop(p, ks)
  \/ \E rs \in (SUBSET Routes) \ {{}} : PurgeLinkedRoutes(p, rs)
  \/ WriteEntry(p) \/ RenameEntry(p)
  \/ LoadIndex(p) \/ Republish(p) \/ EditIndex(p) \/ PublishIndex(p)
  \/ FindByTag(p) \/ Find(p)
  \/ \E k \in Keys : Unlink(p, k)

Next == (\E p \in Procs : Step(p)) \/ LoseIndex
Spec == Init /\ [][Next]_vars

------------------------------------------------------------------------------
Quiet == \A p \in Procs : op[p].pc = "idle"

\* At rest every tagged entry is named by the index under each of its tags, or
\* the index is missing and will be rebuilt: updateTagIndex "Atomically
\* read-modify-write tags.json".  Otherwise an invalidation by that tag misses
\* the entry until it expires.
IndexCovers ==
  Quiet => \A k \in Keys : file[k] # None =>
             \A t \in file[k].tags :
               IF index = None THEN kind = "route" ELSE k \in index[t]

\* Seen from outside: an entry an operation has chosen to remove is gone.
Doomed(k) == \E p \in Procs : k \in (IF At(p, "unlink") THEN op[p].todo ELSE {})
Visible == [k \in Keys |-> IF Doomed(k) THEN None ELSE file[k]]

\* An operation takes effect when the entry is renamed, or when it has chosen what to remove
\* (if there is nothing to remove, with its last look for it).
IsAsked(p) ==
  \/ At(p, "write") \/ At(p, "rename") \/ At(p, "find")
  \/ (At(p, "load") \/ At(p, "republish") \/ At(p, "edit")) /\ FindsByTag(p)
Request(p) == [what |-> op[p].what, key |-> op[p].key, entry |-> op[p].entry, arg |-> op[p].arg]
Asked == [p \in Procs |-> IF IsAsked(p) THEN Request(p) ELSE None]

\* The files implement the store: with one file-system call at a time, every operation is
\* one step of the abstract map, which misses none of the entries it is to remove, also
\* when keys got other entries or tags.json was lost in between.
Store == INSTANCE CacheStore WITH entries <- Visible, asked <- Asked
ImplementsStore == Store!Spec

------------------------------------------------------------------------------
(* Why they do, while one caller at a time is at work: the inductive invariant. *)
OneCaller == \E p \in Procs : Procs = {p}

Indexes == [Tags -> SUBSET Keys]
Pcs == {"write", "rename", "load", "republish", "edit", "publish", "find", "unlink"}
Operations ==
  [pc : Pcs, what : {"set", "purge", "drop", "routes"}, key : Keys \cup {None},
   entry : Entries \cup {None}, arg : (SUBSET Tags) \cup (SUBSET Keys) \cup (SUBSET Routes),
   todo : SUBSET Keys, doomed : SUBSET Keys, idx : Indexes \cup {None}]
TypeOK ==
  /\ kind \in {"route", "data"} /\ ops \in 0 .. MaxOps
  /\ file \in [Keys -> Entries \cup {None}] /\ tmp \in [Keys -> Entries \cup {None}]
  /\ index \in Indexes \cup {None} /\ itmp \in Indexes \cup {None}
  /\ op \in [Procs -> {Idle} \cup Operations]
  /\ \A p \in Procs : op[p].pc # "idle" => Request(p) \in Store!Requests

\* An index names the tagged entries, those of some keys excepted.
Names(i, but) == \A k \in Keys \ but : file[k] # None => \A t \in file[k].tags : k \in i[t]
IndexNames(but) == IF index = None THEN kind = "data" => Names(NoTags, but) ELSE Names(index, but)

\* The key of the entry that the index does not name yet.
Pending(p) == IF op[p].what = "set" THEN {op[p].key} ELSE {}
Removed(p) == \A k \in op[p].doomed \ op[p].todo : file[k] = None
\* A set has written its entry before it looks at the index.
EntryIsThere(p) == op[p].what = "set" => file[op[p].key] = op[p].entry /\ op[p].doomed = {}
InStep(p) ==
  /\ At(p, "idle") => IndexNames({})
  /\ At(p, "write") => IndexNames({}) /\ op[p].what = "set" /\ op[p].doomed = {} /\ op[p].todo = {}
  /\ At(p, "rename") =>
       /\ IndexNames({}) /\ op[p].what = "set" /\ op[p].doomed = {} /\ op[p].todo = {}
       /\ tmp[op[p].key] = op[p].entry
  /\ At(p, "load") =>
       /\ IndexNames(Pending(p)) /\ EntryIsThere(p) /\ Removed(p) /\ op[p].todo = {}
       /\ kind = "data" /\ op[p].what = "purge" => op[p].doomed = {}
       /\ op[p].what \in {"drop", "routes"} => op[p].doomed # {}
  /\ At(p, "republish") =>
       /\ EntryIsThere(p) /\ Removed(p) /\ op[p].todo = {} /\ kind = "route"
       /\ op[p].idx # None /\ itmp = op[p].idx /\ Names(itmp, {})
       /\ op[p].what \in {"drop", "routes"} => op[p].doomed # {}
  /\ At(p, "edit") =>
       /\ IndexNames(Pending(p)) /\ EntryIsThere(p) /\ Removed(p) /\ op[p].todo = {}
       /\ op[p].idx # None /\ Names(op[p].idx, Pending(p))
       /\ kind = "data" /\ op[p].what = "purge" /\ op[p].doomed # {} => op[p].doomed = Matches(p)
       /\ op[p].what \in {"drop", "routes"} => op[p].doomed # {}
  /\ At(p, "publish") => itmp # None /\ Names(itmp, {})
  /\ At(p, "find") => IndexNames({}) /\ op[p].what \in {"drop", "routes"} /\ op[p].doomed = {} /\ op[p].todo = {}
  /\ At(p, "unlink") =>
       /\ IndexNames({}) /\ op[p].what # "set" /\ op[p].doomed # {} /\ Removed(p)
       /\ op[p].todo \subseteq op[p].doomed
       /\ kind = "data" /\ op[p].what = "purge" =>
            op[p].idx # None /\ Names(op[p].idx, {}) /\ op[p].doomed = Matches(p)
Inv == TypeOK /\ \A p \in Procs : InStep(p)
================================================================================
