---------------------------- MODULE DataCache_proofs ----------------------------
(***************************************************************************)
(* The L1 map of the data cache keeps its order, its entries and its index *)
(* together, and its generation check never lets an invalidated entry      *)
(* through; without a backend no get returns what was revalidated before.  *)
(***************************************************************************)
EXTENDS DataCache, TLAPS, SequenceTheorems

(* An entry stored under key k was written before now, under the           *)
(* generations its snapshot names, and none of them lies ahead.            *)
Genuine(k, e) ==
  /\ e.ver < next
  /\ \A t \in TagsOf[k] : e.snap[t] = born[e.ver][t] /\ e.snap[t] <= gens[t]

EntriesGenuine ==
  /\ \A k \in Key : l1[k] # Absent => Genuine(k, l1[k])
  /\ \A k \in Key : l2[k] # Absent => Genuine(k, l2[k])
  /\ \A c \in Client : call[c].op \in {"fill", "write"} => Genuine(call[c].key, call[c].entry)

(* Without a backend no call is ever under way, so that a revalidation has *)
(* returned as soon as it has counted.                                     *)
NobodyWaits == backend = "none" => done = gens /\ \A c \in Client : call[c] = Idle

(* What the last get returned.                                             *)
ReturnIsFresh ==
  /\ L1HitIsFresh
  /\ backend = "none" /\ ret.src \in {"l1", "l2"} => ret.src = "l1" /\ ret.since = ret.now

IInv ==
  /\ TypeOK /\ next > 0 /\ L1Bounded
  /\ ValidIsIndexed /\ EntriesGenuine /\ NobodyWaits /\ ReturnIsFresh

----------------------------------------------------------------------------
(* The insertion order of the map.                                         *)

Injective(s) == \A i, j \in DOMAIN s : s[i] = s[j] => i = j

(* Taking a key out leaves the others, in their order.                     *)
LEMMA WithoutFacts ==
  ASSUME TypeOK, L1Bounded, NEW k \in Resident
  PROVE  /\ Without(k) \in Seq(Key) /\ Len(Without(k)) = Len(order) - 1
         /\ Injective(Without(k))
         /\ Keys(Without(k)) = Resident \ {k}
<1> DEFINE n == Len(order)
           p == Position(k)
           w == Without(k)
<1>1. order \in Seq(Key) /\ n \in Nat /\ DOMAIN order = 1 .. n /\ \A i \in 1 .. n : order[i] \in Key
  BY DEF TypeOK
<1>2. p \in 1 .. n /\ order[p] = k
  <2>1. \E i \in DOMAIN order : order[i] = k
    BY DEF L1Bounded, Keys
  <2>. QED  BY <1>1, <2>1 DEF Position
<1>3. w = [i \in 1 .. n - 1 |-> IF i < p THEN order[i] ELSE order[i + 1]]
  BY DEF Without
<1>4. w \in Seq(Key) /\ Len(w) = n - 1 /\ DOMAIN w = 1 .. n - 1
  <2>1. n - 1 \in Nat /\ w \in [1 .. n - 1 -> Key]
    BY <1>1, <1>2, <1>3
  <2>. QED  BY <2>1
<1>5. Injective(w)
  <2> SUFFICES ASSUME NEW i \in 1 .. n - 1, NEW j \in 1 .. n - 1, w[i] = w[j] PROVE i = j
    BY <1>4 DEF Injective
  <2> DEFINE from(a) == IF a < p THEN a ELSE a + 1
  <2>1. \A a, b \in 1 .. n : order[a] = order[b] => a = b
    BY <1>1 DEF L1Bounded
  <2>2. w[i] = order[from(i)] /\ w[j] = order[from(j)]
    BY <1>3
  <2>3. from(i) \in 1 .. n /\ from(j) \in 1 .. n
    BY <1>1, <1>2
  <2>4. from(i) = from(j)
    BY <2>1, <2>2, <2>3
  <2>. QED  BY <2>4, <1>1, <1>2
<1>6. ASSUME NEW x PROVE x \in Keys(w) <=> x \in Resident \ {k}
  <2>1. x \in Resident <=> \E i \in 1 .. n : order[i] = x
    BY <1>1 DEF L1Bounded, Keys
  <2>2. x \in Keys(w) <=> \E i \in 1 .. n - 1 : w[i] = x
    BY <1>4 DEF Keys
  <2> HIDE DEF p, n, w
  <2>3. ASSUME NEW i \in 1 .. n - 1, w[i] = x PROVE (\E j \in 1 .. n : order[j] = x) /\ x # k
    <3> DEFINE j == IF i < p THEN i ELSE i + 1
    <3>1. j \in 1 .. n /\ j # p /\ order[j] = x
      BY <2>3, <1>1, <1>2, <1>3
    <3>2. \A a, b \in 1 .. n : order[a] = order[b] => a = b
      BY <1>1 DEF L1Bounded
    <3> HIDE DEF j
    <3>. QED  BY <3>1, <3>2, <1>2
  <2>4. ASSUME NEW j \in 1 .. n, order[j] = x, x # k PROVE \E i \in 1 .. n - 1 : w[i] = x
    <3>1. CASE j < p
      <4>1. j \in 1 .. n - 1 /\ w[j] = x
        BY <3>1, <2>4, <1>1, <1>2, <1>3
      <4>. QED  BY <4>1
    <3>2. CASE j > p
      <4>1. j - 1 \in 1 .. n - 1 /\ w[j - 1] = x
        BY <3>2, <2>4, <1>1, <1>2, <1>3
      <4>. QED  BY <4>1
    <3>. QED  BY <3>1, <3>2, <2>4, <1>1, <1>2
  <2>. QED  BY <2>1, <2>2, <2>3, <2>4
<1>. QED  BY <1>4, <1>5, <1>6

(* Putting a key that is not there at the end.                             *)
LEMMA AppendFacts ==
  ASSUME NEW s \in Seq(Key), Injective(s), NEW k \in Key, k \notin Keys(s)
  PROVE  /\ Append(s, k) \in Seq(Key) /\ Len(Append(s, k)) = Len(s) + 1
         /\ Injective(Append(s, k))
         /\ Keys(Append(s, k)) = Keys(s) \cup {k}
<1>1. /\ Append(s, k) \in Seq(Key) /\ Len(Append(s, k)) = Len(s) + 1
      /\ \A i \in 1 .. Len(s) : Append(s, k)[i] = s[i]
      /\ Append(s, k)[Len(s) + 1] = k
  OBVIOUS
<1>2. Len(s) \in Nat /\ DOMAIN s = 1 .. Len(s) /\ DOMAIN Append(s, k) = 1 .. Len(s) + 1
  OBVIOUS
<1>3. Injective(Append(s, k))
  BY <1>1, <1>2 DEF Injective, Keys
<1>4. Keys(Append(s, k)) = Keys(s) \cup {k}
  BY <1>1, <1>2 DEF Keys
<1>. QED  BY <1>1, <1>3, <1>4

(* Dropping the oldest.                                                    *)
LEMMA TailFacts ==
  ASSUME NEW s \in Seq(Key), Injective(s), s # <<>>
  PROVE  /\ Tail(s) \in Seq(Key) /\ Len(Tail(s)) = Len(s) - 1
         /\ Injective(Tail(s))
         /\ Head(s) \in Keys(s) /\ Keys(Tail(s)) = Keys(s) \ {Head(s)}
<1>1. /\ Len(s) \in Nat \ {0} /\ DOMAIN s = 1 .. Len(s) /\ Head(s) = s[1]
      /\ Tail(s) \in Seq(Key) /\ Len(Tail(s)) = Len(s) - 1 /\ DOMAIN Tail(s) = 1 .. Len(s) - 1
      /\ \A i \in 1 .. Len(s) - 1 : Tail(s)[i] = s[i + 1]
  OBVIOUS
<1>2. Injective(Tail(s))
  BY <1>1 DEF Injective
<1>3. Head(s) \in Keys(s)
  BY <1>1 DEF Keys
<1>4. ASSUME NEW x PROVE x \in Keys(Tail(s)) <=> x \in Keys(s) \ {Head(s)}
  <2>1. ASSUME NEW i \in 1 .. Len(s) - 1, Tail(s)[i] = x PROVE x \in Keys(s) \ {Head(s)}
    BY <2>1, <1>1 DEF Keys, Injective
  <2>2. ASSUME NEW j \in 1 .. Len(s), s[j] = x, x # Head(s)
        PROVE  \E i \in 1 .. Len(s) - 1 : Tail(s)[i] = x
    <3>1. j - 1 \in 1 .. Len(s) - 1 /\ Tail(s)[j - 1] = x
      BY <2>2, <1>1
    <3>. QED  BY <3>1
  <2>. QED  BY <1>1, <2>1, <2>2 DEF Keys
<1>. QED  BY <1>1, <1>2, <1>3, <1>4

LEMMA EntryFacts ==
  /\ Absent \notin Entry
  /\ \A s \in Slots : s # Absent => s \in Entry
  /\ \A e \in Entry : e.ver \in Version /\ e.snap \in Generations /\ e.garbled \in BOOLEAN
BY DEF Absent, Entry, Slots, Version

LEMMA RoomIsMade ==
  ASSUME NEW k \in Key
  PROVE  MakesRoom(k) \in BOOLEAN /\ (MakesRoom(k) => Full) /\ (Full => MakesRoom(k) \/ k \in Resident)
BY DEF MakesRoom

(* A put leaves the order and the entries in step, at the limit too, when  *)
(* it evicts from a full map unless it overwrites.  The entries it leaves  *)
(* keep their place in the index.                                          *)
LEMMA PutFacts ==
  ASSUME TypeOK, L1Bounded,
         NEW k \in Key, NEW e \in Entry, NEW evict, NEW index,
         Put(k, e, evict, index),
         evict => Full, Full => evict \/ k \in Resident
  PROVE  /\ l1' \in [Key -> Slots] /\ order' \in Seq(Key) /\ tagIndex' \in [Tag -> SUBSET Key]
         /\ L1Bounded'
         /\ l1'[k] = e
         /\ index => \A t \in TagsOf[k] : k \in tagIndex'[t]
         /\ \A x \in Key \ {k} : l1'[x] # Absent =>
              /\ l1'[x] = l1[x]
              /\ \A t \in Tag : x \in tagIndex[t] => x \in tagIndex'[t]
<1> DEFINE old  == IF evict THEN Head(order) ELSE k
           kept == IF evict THEN Tail(order) ELSE order
           idx  == IF evict THEN Unindexed(old) ELSE tagIndex
<1>1. /\ l1' = [l1 EXCEPT ![old] = Absent, ![k] = e]
      /\ order' = IF k \in Keys(kept) THEN kept ELSE Append(kept, k)
      /\ tagIndex' = [t \in Tag |-> IF index /\ t \in TagsOf[k] THEN idx[t] \cup {k} ELSE idx[t]]
  BY DEF Put
<1>2. /\ order \in Seq(Key) /\ Injective(order) /\ Len(order) \in Nat
      /\ Keys(order) = Resident /\ Len(order) <= Capacity /\ Capacity \in Nat \ {0}
  BY CacheAssumption DEF TypeOK, L1Bounded, Injective
<1>3. /\ kept \in Seq(Key) /\ Injective(kept) /\ old \in Key
      /\ Keys(kept) = IF evict THEN Resident \ {old} ELSE Resident
      /\ Len(kept) = IF evict THEN Len(order) - 1 ELSE Len(order)
  <2>1. CASE evict
    <3>1. order # <<>>
      BY <1>2, <2>1 DEF Full
    <3>2. Head(order) \in Resident
      BY <3>1, <1>2, TailFacts
    <3>. QED  BY <3>1, <3>2, <2>1, <1>2, TailFacts DEF Resident
  <2>2. CASE ~evict
    BY <2>2, <1>2
  <2>. QED  BY <2>1, <2>2
<1>4. idx \in [Tag -> SUBSET Key]
  BY DEF TypeOK, Unindexed
<1> HIDE DEF old, kept, idx
<1>5. /\ order' \in Seq(Key) /\ Injective(order') /\ Keys(order') = Keys(kept) \cup {k}
      /\ Len(order') = IF k \in Keys(kept) THEN Len(kept) ELSE Len(kept) + 1
  <2>1. CASE k \in Keys(kept)
    BY <2>1, <1>1, <1>3
  <2>2. CASE k \notin Keys(kept)
    BY <2>2, <1>1, <1>3, AppendFacts
  <2>. QED  BY <2>1, <2>2
<1>6. l1' \in [Key -> Slots] /\ l1'[k] = e
  BY <1>1, <1>3 DEF TypeOK, Slots
<1>7. tagIndex' \in [Tag -> SUBSET Key]
  BY <1>1, <1>4
<1>8. Resident' = (Resident \ {old}) \cup {k}
  <2>1. e # Absent
    BY EntryFacts
  <2>2. ASSUME NEW x \in Key PROVE l1'[x] # Absent <=> (l1[x] # Absent /\ x # old) \/ x = k
    BY <1>1, <1>3, <2>1 DEF TypeOK
  <2>. QED  BY <2>2 DEF Resident
<1>9. L1Bounded'
  <2>1. Keys(order') = Resident'
    <3>1. CASE evict
      BY <3>1, <1>3, <1>5, <1>8
    <3>2. CASE ~evict
      BY <3>2, <1>3, <1>5, <1>8 DEF old
    <3>. QED  BY <3>1, <3>2
  <2>2. Len(order') <= Capacity
    BY <1>2, <1>3, <1>5 DEF Full
  <2>. QED  BY <2>1, <2>2, <1>5 DEF L1Bounded, Injective, Keys
<1>10. ASSUME index PROVE \A t \in TagsOf[k] : k \in tagIndex'[t]
  BY <1>10, <1>1, CacheAssumption
<1>11. ASSUME NEW x \in Key \ {k}, l1'[x] # Absent
       PROVE  l1'[x] = l1[x] /\ \A t \in Tag : x \in tagIndex[t] => x \in tagIndex'[t]
  <2>1. l1'[x] = l1[x] /\ x # old
    BY <1>11, <1>1, <1>3 DEF TypeOK, old
  <2>2. ASSUME NEW t \in Tag, x \in tagIndex[t] PROVE x \in idx[t]
    BY <2>1, <2>2 DEF idx, Unindexed, TypeOK
  <2>. QED  BY <2>1, <2>2, <1>1
<1>. QED  BY <1>5, <1>6, <1>7, <1>9, <1>10, <1>11

----------------------------------------------------------------------------
(* Types, and the order of the map.                                        *)

LEMMA CallFacts ==
  ASSUME TypeOK, NEW c \in Client
  PROVE  /\ call[c] \in Calls
         /\ call[c].op = "read" => call[c].key \in Key /\ call[c].since \in Generations
         /\ call[c].op = "fill" => /\ call[c].key \in Key /\ call[c].since \in Generations
                                   /\ call[c].entry \in Entry
         /\ call[c].op = "write" => call[c].key \in Key /\ call[c].entry \in Entry
         /\ call[c].op = "purge" => call[c].tag \in Tag /\ call[c].gen \in Nat
BY DEF TypeOK, Calls, Idle

LEMMA NewCalls ==
  /\ Idle \in Calls
  /\ \A k \in Key, s \in Generations : [op |-> "read", key |-> k, since |-> s] \in Calls
  /\ \A k \in Key, e \in Entry : [op |-> "write", key |-> k, entry |-> e] \in Calls
  /\ \A t \in Tag, g \in Nat : [op |-> "purge", tag |-> t, gen |-> g] \in Calls
  /\ \A k \in Key, s \in Generations, e \in Entry :
       [op |-> "fill", key |-> k, since |-> s, entry |-> e] \in Calls
BY DEF Calls

LEMMA SnapshotType == ASSUME TypeOK, NEW k \in Key PROVE Snapshot(k) \in Generations
BY DEF TypeOK, Snapshot, Generations

(* The entry a set writes: of now, under the current generations.          *)
Written(k) == [ver |-> next, snap |-> Snapshot(k), garbled |-> FALSE]

LEMMA SetFacts ==
  ASSUME TypeOK, next > 0, NEW c \in Client, NEW k \in Key, NEW skipL2 \in BOOLEAN,
         Set(c, k, skipL2)
  PROVE  /\ next \in Version /\ Written(k) \in Entry
         /\ Written(k).ver = next /\ Written(k).snap = Snapshot(k)
         /\ Put(k, Written(k), MakesRoom(k), TRUE)
         /\ born' = [born EXCEPT ![next] = Snapshot(k)]
         /\ \/ call' = call
            \/ /\ backend # "none"
               /\ call' = [call EXCEPT ![c] = [op |-> "write", key |-> k, entry |-> Written(k)]]
<1>1. next \in Version
  BY CacheAssumption DEF TypeOK, Set, Version
<1>2. Written(k) \in Entry /\ Written(k).ver = next /\ Written(k).snap = Snapshot(k)
  BY <1>1, SnapshotType DEF Entry, Written
<1>3. /\ Put(k, Written(k), MakesRoom(k), TRUE)
      /\ born' = [born EXCEPT ![next] = Snapshot(k)]
      /\ call' = IF skipL2 \/ backend = "none" THEN call
                 ELSE [call EXCEPT ![c] = [op |-> "write", key |-> k, entry |-> Written(k)]]
  BY DEF Set, Written
<1>. QED  BY <1>1, <1>2, <1>3

LEMMA SoundInit == Init => TypeOK /\ next > 0 /\ L1Bounded
<1> SUFFICES ASSUME Init PROVE TypeOK /\ next > 0 /\ L1Bounded
  OBVIOUS
<1>1. TypeOK
  BY CacheAssumption
  DEF Init, TypeOK, Slots, Generations, Calls, Returns, Nothing
<1>2. L1Bounded
  BY CacheAssumption DEF Init, L1Bounded, Keys, Resident
<1>. QED  BY <1>1, <1>2 DEF Init

LEMMA TakenOut ==
  ASSUME TypeOK, L1Bounded, NEW k \in Resident,
         l1' = [l1 EXCEPT ![k] = Absent], order' = Without(k)
  PROVE  l1' \in [Key -> Slots] /\ order' \in Seq(Key) /\ L1Bounded'
<1>1. order' \in Seq(Key) /\ Len(order') <= Capacity /\ Injective(order')
  BY WithoutFacts, CacheAssumption DEF L1Bounded, TypeOK
<1>2. l1' \in [Key -> Slots]
  BY DEF TypeOK, Slots
<1>3. Resident' = Resident \ {k}
  BY DEF Resident, TypeOK
<1>4. Keys(order') = Resident'
  BY <1>3, WithoutFacts
<1>. QED  BY <1>1, <1>2, <1>4 DEF L1Bounded, Injective, Keys

LEMMA SoundStep ==
  TypeOK /\ next > 0 /\ L1Bounded /\ [Next]_vars => TypeOK' /\ next' > 0 /\ L1Bounded'
<1> SUFFICES ASSUME TypeOK, next > 0, L1Bounded, [Next]_vars
             PROVE  TypeOK' /\ next' > 0 /\ L1Bounded'
  OBVIOUS
<1>0. \A k \in Resident : k \in Key /\ l1[k] \in Entry
  BY EntryFacts DEF Resident, TypeOK
<1>a. ASSUME l1' = l1, order' = order PROVE L1Bounded'
  BY <1>a DEF L1Bounded, Resident, Keys
<1>b. Nothing \in Returns /\ Threw \in Returns
  BY DEF Returns
<1>c. ASSUME NEW src \in {"l1", "l2"}, NEW k \in Key, NEW v \in Version, NEW s \in Generations,
             Returned(src, k, v, s)
      PROVE  ret' \in Returns
  BY <1>c DEF TypeOK, Returned, Returns
<1>1. ASSUME NEW c \in Client, NEW k \in Key, GetHit(c, k) PROVE TypeOK' /\ next' > 0 /\ L1Bounded'
  <2>1. k \in Resident
    BY <1>1 DEF GetHit, Usable
  <2>2. /\ Without(k) \in Seq(Key) /\ Injective(Without(k)) /\ k \notin Keys(Without(k))
        /\ Keys(Without(k)) \cup {k} = Resident /\ Len(Without(k)) = Len(order) - 1
    BY <2>1, WithoutFacts
  <2>a. k \in Key /\ order' = Append(Without(k), k) /\ Len(order) \in Nat
    BY <1>0, <1>1, <2>1 DEF GetHit, TypeOK
  <2>b. /\ order' \in Seq(Key) /\ Injective(order') /\ Keys(order') = Keys(Without(k)) \cup {k}
        /\ Len(order') = Len(Without(k)) + 1
    BY <2>2, <2>a, AppendFacts
  <2>3. /\ order' \in Seq(Key) /\ Injective(order') /\ Keys(order') = Resident
        /\ Len(order') = Len(order)
    BY <2>2, <2>a, <2>b
  <2>4. L1Bounded'
    BY <1>1, <2>3 DEF GetHit, L1Bounded, Injective, Keys, Resident
  <2>5. ret' \in Returns
    BY <1>0, <1>1, <1>c, <2>1, EntryFacts DEF GetHit, TypeOK
  <2>. QED  BY <1>1, <2>3, <2>4, <2>5 DEF GetHit, TypeOK, history
<1>2. ASSUME NEW c \in Client, NEW k \in Key, GetThrows(c, k) PROVE TypeOK' /\ next' > 0 /\ L1Bounded'
  BY <1>2, <1>a, <1>b DEF GetThrows, TypeOK, memory, history
<1>3. ASSUME NEW c \in Client, NEW k \in Key, NEW skipL2 \in BOOLEAN, GetMiss(c, k, skipL2)
      PROVE  TypeOK' /\ next' > 0 /\ L1Bounded'
  <2>1. l1' \in [Key -> Slots] /\ order' \in Seq(Key) /\ L1Bounded'
    BY <1>3, <1>a, TakenOut DEF GetMiss, TypeOK
  <2>2. call' \in [Client -> Calls]
    BY <1>3, NewCalls DEF GetMiss, TypeOK
  <2>. QED  BY <1>3, <1>b, <2>1, <2>2 DEF GetMiss, TypeOK, history
<1>4. ASSUME NEW c \in Client, NEW k \in Key, NEW skipL2 \in BOOLEAN, Set(c, k, skipL2)
      PROVE  TypeOK' /\ next' > 0 /\ L1Bounded'
  <2> DEFINE e == Written(k)
  <2>1. /\ next \in Version /\ e \in Entry /\ Put(k, e, MakesRoom(k), TRUE)
        /\ born' = [born EXCEPT ![next] = Snapshot(k)]
        /\ \/ call' = call
           \/ call' = [call EXCEPT ![c] = [op |-> "write", key |-> k, entry |-> e]]
    <3>1. next \in Version /\ e \in Entry
      BY <1>4, SetFacts
    <3>2. Put(k, e, MakesRoom(k), TRUE)
      BY <1>4, SetFacts
    <3>3. /\ born' = [born EXCEPT ![next] = Snapshot(k)]
          /\ \/ call' = call
             \/ call' = [call EXCEPT ![c] = [op |-> "write", key |-> k, entry |-> e]]
      BY <1>4 DEF Set, Written
    <3>. QED  BY <3>1, <3>2, <3>3
  <2> HIDE DEF e
  <2>2. MakesRoom(k) \in BOOLEAN /\ (MakesRoom(k) => Full) /\ (Full => MakesRoom(k) \/ k \in Resident)
    BY RoomIsMade
  <2>3. /\ l1' \in [Key -> Slots] /\ order' \in Seq(Key) /\ tagIndex' \in [Tag -> SUBSET Key]
        /\ L1Bounded'
    BY <2>1, <2>2, PutFacts
  <2>4. call' \in [Client -> Calls] /\ born' \in [Version -> Generations]
    BY <2>1, NewCalls, SnapshotType DEF TypeOK
  <2>. QED  BY <1>4, <1>b, <2>3, <2>4 DEF Set, TypeOK
<1>5. ASSUME NEW c \in Client, BackendReads(c) PROVE TypeOK' /\ next' > 0 /\ L1Bounded'
  <2>0. call[c].key \in Key /\ call[c].since \in Generations
    BY <1>5, CallFacts DEF BackendReads
  <2>1. call[c] = [op |-> "read", key |-> call[c].key, since |-> call[c].since]
    BY <1>5, CallFacts DEF BackendReads, Calls, Idle
  <2>2. ASSUME l2[call[c].key] # Absent,
               call' = [call EXCEPT ![c] = [op |-> "fill", key |-> call[c].key,
                                            since |-> @.since, entry |-> l2[call[c].key]]]
        PROVE  call' \in [Client -> Calls]
    BY <2>0, <2>2, NewCalls, EntryFacts DEF TypeOK
  <2>3. call' \in [Client -> Calls]
    BY <1>5, <2>2, NewCalls DEF BackendReads, Answers, TypeOK
  <2>. QED  BY <1>5, <1>a, <1>b, <2>3 DEF BackendReads, TypeOK, memory, history
<1>6. ASSUME NEW c \in Client, GetFill(c) PROVE TypeOK' /\ next' > 0 /\ L1Bounded'
  <2> DEFINE k == call[c].key
             e == call[c].entry
  <2>0. k \in Key /\ call[c].since \in Generations /\ e \in Entry
    BY <1>6, CallFacts DEF GetFill
  <2>1. call' \in [Client -> Calls]
    BY <1>6, NewCalls DEF GetFill, Answers, TypeOK
  <2>2. CASE e.ver \in expired
    BY <1>6, <2>1, <2>2, <1>a, <1>b DEF GetFill, TypeOK, memory, history
  <2>3. CASE e.ver \notin expired
    <3>1. Put(k, e, Full, FALSE) /\ Returned("l2", k, e.ver, call[c].since)
      BY <1>6, <2>3 DEF GetFill, AsStored
    <3>2. Full \in BOOLEAN
      BY DEF Full
    <3>3. /\ l1' \in [Key -> Slots] /\ order' \in Seq(Key) /\ tagIndex' \in [Tag -> SUBSET Key]
          /\ L1Bounded'
      BY <2>0, <3>1, <3>2, PutFacts
    <3>4. ret' \in Returns
      BY <2>0, <3>1, <1>c, EntryFacts
    <3>. QED  BY <1>6, <2>1, <3>3, <3>4 DEF GetFill, TypeOK, history
  <2>. QED  BY <2>2, <2>3
<1>7. ASSUME NEW c \in Client, BackendWrites(c) PROVE TypeOK' /\ next' > 0 /\ L1Bounded'
  <2>1. call[c].key \in Key /\ call[c].entry \in Entry
    BY <1>7, CallFacts DEF BackendWrites
  <2>2. [call[c].entry EXCEPT !.garbled = (backend = "json")] \in Slots
    BY <2>1 DEF Entry, Slots
  <2>3. l2' \in [Key -> Slots] /\ call' \in [Client -> Calls]
    BY <1>7, <2>1, <2>2, NewCalls DEF BackendWrites, Answers, TypeOK
  <2>. QED  BY <1>7, <2>3, <1>a, <1>b DEF BackendWrites, TypeOK, memory, history
<1>8. ASSUME NEW k \in Key, Delete(k) PROVE TypeOK' /\ next' > 0 /\ L1Bounded'
  <2>1. l1' \in [Key -> Slots] /\ order' \in Seq(Key) /\ L1Bounded'
    BY <1>8, TakenOut DEF Delete
  <2>2. tagIndex' \in [Tag -> SUBSET Key]
    BY <1>8 DEF Delete, Unindexed, TypeOK
  <2>. QED  BY <1>8, <1>b, <2>1, <2>2 DEF Delete, TypeOK, history
<1>9. ASSUME NEW c \in Client, NEW t \in Tag, RevalidateTag(c, t) PROVE TypeOK' /\ next' > 0 /\ L1Bounded'
  <2>1. gens' \in Generations /\ gens'[t] \in Nat /\ tagIndex' \in [Tag -> SUBSET Key]
    BY <1>9 DEF RevalidateTag, TypeOK, Generations
  <2>2. done' \in Generations
    BY <1>9, <2>1 DEF RevalidateTag, TypeOK, Generations
  <2>3. [op |-> "purge", tag |-> t, gen |-> gens'[t]] \in Calls
    BY <2>1, NewCalls
  <2>4. call' \in [Client -> Calls]
    BY <1>9, <2>3 DEF RevalidateTag, TypeOK
  <2>. QED  BY <1>9, <1>a, <1>b, <2>1, <2>2, <2>4 DEF RevalidateTag, TypeOK
<1>10. ASSUME NEW c \in Client, BackendPurges(c) PROVE TypeOK' /\ next' > 0 /\ L1Bounded'
  <2>1. call[c].tag \in Tag /\ call[c].gen \in Nat
    BY <1>10, CallFacts DEF BackendPurges
  <2>2. l2' \in [Key -> Slots]
    BY <1>10 DEF BackendPurges, TypeOK, Slots
  <2>3. call' \in [Client -> Calls] /\ done' \in Generations
    BY <1>10, <2>1, NewCalls DEF BackendPurges, Answers, TypeOK, Generations
  <2>. QED  BY <1>10, <2>2, <2>3, <1>a, <1>b DEF BackendPurges, TypeOK, memory
<1>11. ASSUME NEW v \in Version, Expire(v) PROVE TypeOK' /\ next' > 0 /\ L1Bounded'
  BY <1>11, <1>a, <1>b DEF Expire, TypeOK, memory, history
<1>12. CASE UNCHANGED vars
  BY <1>12, <1>a DEF vars, TypeOK
<1>. QED  BY <1>1, <1>2, <1>3, <1>4, <1>5, <1>6, <1>7, <1>8, <1>9, <1>10, <1>11, <1>12 DEF Next

----------------------------------------------------------------------------
(* Entries stay genuine: generations only count up, and what was written   *)
(* stays written.                                                          *)

LEMMA OnlyForward ==
  ASSUME TypeOK, next > 0, [Next]_vars
  PROVE  /\ next' >= next /\ next' \in Nat
         /\ \A t \in Tag : gens'[t] >= gens[t] /\ gens[t] \in Nat /\ gens'[t] \in Nat
         /\ \A v \in Version : v < next => born'[v] = born[v]
<1>. USE DEF TypeOK, Generations, memory, history
<1>1. ASSUME NEW c \in Client, NEW k \in Key, NEW skipL2 \in BOOLEAN, Set(c, k, skipL2)
      PROVE  next' = next + 1 /\ gens' = gens /\ \A v \in Version : v < next => born'[v] = born[v]
  BY <1>1, SetFacts DEF Set
<1>2. ASSUME NEW c \in Client, NEW t \in Tag, RevalidateTag(c, t)
      PROVE  /\ next' = next /\ born' = born
             /\ \A u \in Tag : gens'[u] >= gens[u] /\ gens[u] \in Nat /\ gens'[u] \in Nat
  BY <1>2 DEF RevalidateTag
<1>3. \/ \E c \in Client, k \in Key, skipL2 \in BOOLEAN : Set(c, k, skipL2)
      \/ \E c \in Client, t \in Tag : RevalidateTag(c, t)
      \/ UNCHANGED <<next, gens, born>>
  BY DEF Next, vars, GetHit, GetThrows, GetMiss, BackendReads, GetFill, BackendWrites,
         BackendPurges, Delete, Expire
<1>. QED  BY <1>1, <1>2, <1>3

LEMMA GenuineStays ==
  ASSUME TypeOK, next > 0, [Next]_vars, NEW k \in Key, NEW e \in Entry, Genuine(k, e)
  PROVE  /\ e.ver < next'
         /\ \A t \in TagsOf[k] : e.snap[t] = born'[e.ver][t] /\ e.snap[t] <= gens'[t]
<1>1. e.ver \in Version /\ e.snap \in Generations
  BY EntryFacts
<1>2. \A t \in TagsOf[k] : t \in Tag
  BY CacheAssumption
<1>3. /\ next' >= next /\ next' \in Nat /\ next \in Nat /\ e.ver \in Nat
      /\ e.ver < next => born'[e.ver] = born[e.ver]
  BY <1>1, OnlyForward DEF TypeOK, Version
<1>4. \A t \in Tag : e.snap[t] \in Nat /\ gens[t] \in Nat /\ gens'[t] \in Nat /\ gens'[t] >= gens[t]
  BY <1>1, OnlyForward DEF Generations
<1>. QED  BY <1>2, <1>3, <1>4 DEF Genuine

LEMMA WrittenGenuine ==
  ASSUME TypeOK, next > 0, NEW c \in Client, NEW k \in Key, NEW skipL2 \in BOOLEAN,
         Set(c, k, skipL2)
  PROVE  /\ Written(k).ver < next'
         /\ \A t \in TagsOf[k] : /\ Written(k).snap[t] = born'[Written(k).ver][t]
                                 /\ Written(k).snap[t] <= gens'[t]
<1>1. /\ Written(k).ver = next /\ Written(k).snap = Snapshot(k)
      /\ next \in Version /\ born' = [born EXCEPT ![next] = Snapshot(k)]
  BY SetFacts
<1>2. \A t \in TagsOf[k] : t \in Tag /\ Snapshot(k)[t] = gens[t] /\ gens[t] \in Nat
  BY CacheAssumption DEF Snapshot, TypeOK, Generations
<1>. QED  BY <1>1, <1>2 DEF Set, TypeOK

LEMMA GenuineStep == ASSUME IInv, [Next]_vars PROVE EntriesGenuine'
<1>. USE DEF IInv
<1>0. TypeOK' /\ next > 0 /\ TypeOK
  BY SoundStep
(* What an entry may have become. *)
<1> DEFINE Old(k, e) == e \in Entry /\ Genuine(k, e)
           Good(k, e) == /\ e.ver < next'
                         /\ \A t \in TagsOf[k] : e.snap[t] = born'[e.ver][t] /\ e.snap[t] <= gens'[t]
<1>a. ASSUME NEW k \in Key, NEW e, Old(k, e) PROVE Good(k, e)
  BY <1>a, <1>0, GenuineStays
<1>b. \A k \in Key : (l1[k] # Absent => Old(k, l1[k])) /\ (l2[k] # Absent => Old(k, l2[k]))
  BY EntryFacts DEF EntriesGenuine, TypeOK
<1>c. \A c \in Client : call[c].op \in {"fill", "write"} =>
                          call[c].key \in Key /\ Old(call[c].key, call[c].entry)
  BY CallFacts DEF EntriesGenuine
<1> HIDE DEF Old, Good
<1>1. SUFFICES /\ \A k \in Key : l1'[k] # Absent => Good(k, l1'[k])
               /\ \A k \in Key : l2'[k] # Absent => Good(k, l2'[k])
               /\ \A c \in Client : call'[c].op \in {"fill", "write"} =>
                                      Good(call'[c].key, call'[c].entry)
  BY DEF EntriesGenuine, Good, Genuine
<1>2. ASSUME NEW k \in Key, l1'[k] # Absent PROVE Good(k, l1'[k])
  <2>1. ASSUME NEW c \in Client, NEW j \in Key, NEW skipL2 \in BOOLEAN, Set(c, j, skipL2)
        PROVE  Good(k, l1'[k])
    <3>1. Written(j) \in Entry /\ Put(j, Written(j), MakesRoom(j), TRUE)
      BY <2>1, <1>0, SetFacts
    <3>2. Good(j, Written(j))
      BY <2>1, <1>0, WrittenGenuine DEF Good
    <3>3. MakesRoom(j) \in BOOLEAN /\ (MakesRoom(j) => Full) /\ (Full => MakesRoom(j) \/ j \in Resident)
      BY RoomIsMade
    <3>4. l1'[j] = Written(j) /\ (k # j => l1'[k] = l1[k])
      BY <1>2, <3>1, <3>3, PutFacts
    <3>. QED  BY <1>2, <1>a, <1>b, <3>2, <3>4
  <2>2. ASSUME NEW c \in Client, GetFill(c) PROVE Good(k, l1'[k])
    <3> DEFINE j == call[c].key
               e == call[c].entry
    <3>1. j \in Key /\ e \in Entry /\ Old(j, e)
      BY <2>2, <1>c, CallFacts DEF GetFill
    <3>2. l1' = l1 \/ Put(j, e, Full, FALSE)
      BY <2>2 DEF GetFill, AsStored, memory
    <3>. HIDE DEF j, e
    <3>3. ASSUME NEW room \in BOOLEAN, Put(j, e, room, FALSE), room => Full, Full => room \/ j \in Resident
          PROVE  l1'[j] = e /\ \A x \in Key \ {j} : l1'[x] # Absent => l1'[x] = l1[x]
      BY <3>1, <3>3, PutFacts
    <3>4. Full \in BOOLEAN
      BY DEF Full
    <3>5. l1' = l1 \/ (l1'[j] = e /\ (k # j => l1'[k] = l1[k]))
      BY <1>2, <3>2, <3>3, <3>4
    <3>. QED  BY <1>2, <1>a, <1>b, <3>1, <3>5
  <2>3. ASSUME \/ l1' = l1
               \/ \E j \in Key : l1' = [l1 EXCEPT ![j] = Absent]
        PROVE  Good(k, l1'[k])
    <3>1. l1'[k] = l1[k]
      BY <2>3, <1>2 DEF TypeOK
    <3>. QED  BY <3>1, <1>2, <1>a, <1>b
  <2>4. \/ \E c \in Client, j \in Key, skipL2 \in BOOLEAN : Set(c, j, skipL2)
        \/ \E c \in Client : GetFill(c)
        \/ l1' = l1
        \/ \E j \in Key : l1' = [l1 EXCEPT ![j] = Absent]
    BY DEF Next, vars, GetHit, GetThrows, GetMiss, BackendReads, BackendWrites,
           BackendPurges, Delete, Expire, RevalidateTag, memory
  <2>. QED  BY <2>1, <2>2, <2>3, <2>4
<1>3. ASSUME NEW k \in Key, l2'[k] # Absent PROVE Good(k, l2'[k])
  <2>1. ASSUME NEW c \in Client, BackendWrites(c) PROVE Good(k, l2'[k])
    <3> DEFINE j == call[c].key
               e == call[c].entry
               w == [e EXCEPT !.garbled = (backend = "json")]
    <3>1. j \in Key /\ e \in Entry /\ Old(j, e)
      BY <2>1, <1>c, CallFacts DEF BackendWrites
    <3>2. w.ver = e.ver /\ w.snap = e.snap
      BY <3>1 DEF Entry
    <3>3. Good(j, w)
      BY <3>1, <3>2, <1>a DEF Good
    <3>4. l2' = l2 \/ l2' = [l2 EXCEPT ![j] = w]
      BY <2>1 DEF BackendWrites
    <3> HIDE DEF j, e, w
    <3>. QED  BY <1>3, <1>a, <1>b, <3>1, <3>3, <3>4 DEF TypeOK
  <2>2. CASE \/ l2' = l2
             \/ \E t \in Tag : l2' = [j \in Key |-> IF t \in TagsOf[j] THEN Absent ELSE l2[j]]
    <3>1. l2'[k] = l2[k]
      BY <2>2, <1>3
    <3>. QED  BY <3>1, <1>3, <1>a, <1>b
  <2>3. ASSUME NEW c \in Client, BackendPurges(c)
        PROVE  \/ l2' = l2
               \/ \E t \in Tag : l2' = [j \in Key |-> IF t \in TagsOf[j] THEN Absent ELSE l2[j]]
    BY <2>3, CallFacts DEF BackendPurges
  <2>4. (\E c \in Client : BackendWrites(c) \/ BackendPurges(c)) \/ l2' = l2
    BY DEF Next, vars, GetHit, GetThrows, GetMiss, Set, BackendReads, GetFill,
           Delete, Expire, RevalidateTag
  <2>. QED  BY <2>1, <2>2, <2>3, <2>4
<1>4. ASSUME NEW d \in Client, call'[d].op \in {"fill", "write"}
      PROVE  Good(call'[d].key, call'[d].entry)
  <2>0. call'[d] = call[d] => Good(call'[d].key, call'[d].entry)
    BY <1>4, <1>a, <1>c
  <2>1. ASSUME NEW c \in Client, NEW k \in Key, NEW skipL2 \in BOOLEAN, Set(c, k, skipL2)
        PROVE  Good(call'[d].key, call'[d].entry)
    <3>1. call' = IF skipL2 \/ backend = "none" THEN call
                  ELSE [call EXCEPT ![c] = [op |-> "write", key |-> k, entry |-> Written(k)]]
      BY <2>1 DEF Set, Written
    <3>2. Good(k, Written(k))
      BY <2>1, <1>0, WrittenGenuine DEF Good
    <3>. QED  BY <2>0, <3>1, <3>2 DEF TypeOK
  <2>2. ASSUME NEW c \in Client, BackendReads(c) PROVE Good(call'[d].key, call'[d].entry)
    <3> DEFINE k == call[c].key
               filled == [op |-> "fill", key |-> k, since |-> call[c].since, entry |-> l2[k]]
    <3>1. k \in Key
      BY <2>2, CallFacts DEF BackendReads
    <3>2. \/ l2[k] # Absent /\ call' = [call EXCEPT ![c] = filled]
          \/ call' = [call EXCEPT ![c] = Idle]
      BY <2>2 DEF BackendReads, Answers, TypeOK
    <3>3. filled.key = k /\ filled.entry = l2[k] /\ Idle.op = "idle"
      BY DEF Idle
    <3>4. l2[k] # Absent => Good(k, l2[k])
      BY <3>1, <1>a, <1>b
    <3> HIDE DEF k, filled
    <3>. QED  BY <1>4, <2>0, <3>2, <3>3, <3>4 DEF TypeOK
  <2>3. ASSUME \/ call' = call
               \/ \E c \in Client : call' = [call EXCEPT ![c] = Idle]
               \/ \E c \in Client, k \in Key, s \in Generations :
                    call' = [call EXCEPT ![c] = [op |-> "read", key |-> k, since |-> s]]
               \/ \E c \in Client, t \in Tag, g \in Nat :
                    call' = [call EXCEPT ![c] = [op |-> "purge", tag |-> t, gen |-> g]]
        PROVE  Good(call'[d].key, call'[d].entry)
    <3>1. call'[d] = call[d]
      BY <2>3, <1>4 DEF TypeOK, Idle
    <3>. QED  BY <3>1, <2>0
  <2>4. ASSUME NEW c \in Client, NEW t \in Tag, RevalidateTag(c, t)
        PROVE  \/ call' = call
               \/ \E g \in Nat : call' = [call EXCEPT ![c] = [op |-> "purge", tag |-> t, gen |-> g]]
    BY <2>4 DEF RevalidateTag, TypeOK, Generations
  <2>5. ASSUME NEW c \in Client, NEW k \in Key, NEW skipL2 \in BOOLEAN, GetMiss(c, k, skipL2)
        PROVE  \/ call' = call
               \/ \E s \in Generations : call' = [call EXCEPT ![c] = [op |-> "read", key |-> k, since |-> s]]
    BY <2>5 DEF GetMiss, TypeOK
  <2>6. ASSUME NEW c \in Client, GetFill(c) \/ BackendWrites(c) \/ BackendPurges(c)
        PROVE  call' = [call EXCEPT ![c] = Idle]
    BY <2>6 DEF GetFill, BackendWrites, BackendPurges, Answers
  <2>7. ASSUME \/ \E c \in Client, k \in Key : GetHit(c, k) \/ GetThrows(c, k)
               \/ \E k \in Key : Delete(k)
               \/ \E v \in Version : Expire(v)
               \/ UNCHANGED vars
        PROVE  call' = call
    BY <2>7 DEF GetHit, GetThrows, Delete, Expire, vars
  <2>. QED  BY <2>1, <2>2, <2>3, <2>4, <2>5, <2>6, <2>7 DEF Next
<1>. QED  BY <1>2, <1>3, <1>4

----------------------------------------------------------------------------
(* The index, and what a get returns.                                      *)

LEMMA NobodyWaitsStep == ASSUME IInv, [Next]_vars PROVE NobodyWaits'
<1> SUFFICES ASSUME backend' = "none" PROVE done' = gens' /\ \A c \in Client : call'[c] = Idle
  BY DEF NobodyWaits
<1>1. backend = "none"
  BY DEF Next, vars, GetHit, GetThrows, GetMiss, Set, BackendReads, GetFill, BackendWrites,
         BackendPurges, Delete, Expire, RevalidateTag
<1>2. done = gens /\ \A c \in Client : call[c] = Idle
  BY <1>1 DEF IInv, NobodyWaits
<1>3. ASSUME NEW c \in Client PROVE call[c].op = "idle"
  BY <1>2 DEF Idle
<1>4. call' = call /\ done' = gens'
  <2>1. ASSUME NEW c \in Client, NEW t \in Tag, RevalidateTag(c, t) PROVE call' = call /\ done' = gens'
    BY <1>1, <1>2, <2>1 DEF RevalidateTag, IInv, TypeOK, Generations
  <2>2. ASSUME NEW c \in Client, NEW k \in Key, NEW skipL2 \in BOOLEAN, GetMiss(c, k, skipL2)
        PROVE  call' = call /\ done' = gens'
    BY <1>1, <1>2, <2>2 DEF GetMiss, history
  <2>3. ASSUME NEW c \in Client, NEW k \in Key, NEW skipL2 \in BOOLEAN, Set(c, k, skipL2)
        PROVE  call' = call /\ done' = gens'
    BY <1>1, <1>2, <2>3 DEF Set
  <2>4. \A c \in Client : ~(BackendReads(c) \/ GetFill(c) \/ BackendWrites(c) \/ BackendPurges(c))
    BY <1>3 DEF BackendReads, GetFill, BackendWrites, BackendPurges
  <2>5. ASSUME \/ \E c \in Client, k \in Key : GetHit(c, k) \/ GetThrows(c, k)
               \/ \E k \in Key : Delete(k)
               \/ \E v \in Version : Expire(v)
               \/ UNCHANGED vars
        PROVE  call' = call /\ done' = gens'
    BY <1>2, <2>5 DEF GetHit, GetThrows, Delete, Expire, vars, history
  <2>. QED  BY <2>1, <2>2, <2>3, <2>4, <2>5 DEF Next
<1>. QED  BY <1>2, <1>4

(* Without a backend, an entry that was valid is indexed and stays so; the *)
(* entries a revalidation takes out of the index are valid no longer.      *)
LEMMA IndexStep == ASSUME IInv, [Next]_vars PROVE ValidIsIndexed'
<1> SUFFICES ASSUME backend' = "none", NEW k \in Key, l1'[k] # Absent,
                    \A t \in TagsOf[k] : l1'[k].snap[t] = gens'[t],
                    NEW t \in TagsOf[k]
             PROVE  k \in tagIndex'[t]
  BY DEF ValidIsIndexed, Resident, IsValid
<1>0. t \in Tag /\ TypeOK /\ L1Bounded /\ next > 0
  BY CacheAssumption DEF IInv
<1>1. backend = "none"
  BY DEF Next, vars, GetHit, GetThrows, GetMiss, Set, BackendReads, GetFill, BackendWrites,
         BackendPurges, Delete, Expire, RevalidateTag
<1>2. ASSUME l1[k] # Absent, \A u \in TagsOf[k] : l1[k].snap[u] = gens[u] PROVE k \in tagIndex[t]
  BY <1>1, <1>2 DEF IInv, ValidIsIndexed, Resident, IsValid
<1>3. \A c \in Client : call[c].op = "idle"
  BY <1>1 DEF IInv, NobodyWaits, Idle
<1>4. ASSUME NEW c \in Client, NEW j \in Key, NEW skipL2 \in BOOLEAN, Set(c, j, skipL2)
      PROVE  k \in tagIndex'[t]
  <2>1. Written(j) \in Entry /\ Put(j, Written(j), MakesRoom(j), TRUE)
    BY <1>0, <1>4, SetFacts
  <2>2. MakesRoom(j) \in BOOLEAN /\ (MakesRoom(j) => Full) /\ (Full => MakesRoom(j) \/ j \in Resident)
    BY RoomIsMade
  <2>a. \A u \in TagsOf[j] : j \in tagIndex'[u]
    BY <2>1, CacheAssumption DEF Put
  <2>3. CASE k = j
    BY <2>3, <2>a
  <2>4. CASE k # j
    <3>0. ASSUME NEW e \in Entry, NEW room \in BOOLEAN, Put(j, e, room, TRUE),
                 room => Full, Full => room \/ j \in Resident
          PROVE  \A x \in Key \ {j} : l1'[x] # Absent =>
                   l1'[x] = l1[x] /\ \A u \in Tag : x \in tagIndex[u] => x \in tagIndex'[u]
      BY <1>0, <3>0, PutFacts
    <3>1. l1'[k] = l1[k] /\ (k \in tagIndex[t] => k \in tagIndex'[t])
      BY <1>0, <2>1, <2>2, <2>4, <3>0
    <3>2. gens' = gens
      BY <1>4 DEF Set
    <3>. QED  BY <1>2, <3>1, <3>2
  <2>. QED  BY <2>3, <2>4
<1>5. ASSUME NEW c \in Client, NEW u \in Tag, RevalidateTag(c, u) PROVE k \in tagIndex'[t]
  <2>1. l1' = l1 /\ gens' = [gens EXCEPT ![u] = @ + 1] /\ tagIndex' = [tagIndex EXCEPT ![u] = {}]
    BY <1>5 DEF RevalidateTag
  <2>2. \A x \in TagsOf[k] : x \in Tag /\ gens[x] \in Nat /\ l1[k].snap[x] <= gens[x] /\ l1[k].snap[x] \in Nat
    BY <1>0, <2>1, CacheAssumption, EntryFacts DEF IInv, EntriesGenuine, Genuine, TypeOK, Generations
  <2>3. u \notin TagsOf[k]
    BY <1>0, <2>1, <2>2 DEF TypeOK, Generations
  <2>4. \A x \in TagsOf[k] : l1[k].snap[x] = gens[x]
    BY <1>0, <2>1, <2>2, <2>3 DEF TypeOK, Generations
  <2>. QED  BY <1>0, <1>2, <2>1, <2>3, <2>4 DEF TypeOK
<1>6. ASSUME NEW j \in Key, Delete(j) PROVE k \in tagIndex'[t]
  <2>1. j # k /\ l1'[k] = l1[k] /\ gens' = gens
    BY <1>0, <1>6 DEF Delete, TypeOK
  <2>2. k \in tagIndex[t]
    BY <1>2, <2>1
  <2>. QED  BY <1>0, <1>6, <2>1, <2>2 DEF Delete, Unindexed, TypeOK
<1>7. ASSUME l1' = l1 \/ \E j \in Key : l1' = [l1 EXCEPT ![j] = Absent],
             gens' = gens, tagIndex' = tagIndex
      PROVE  k \in tagIndex'[t]
  BY <1>0, <1>2, <1>7 DEF TypeOK
<1>8. \A c \in Client : ~(BackendReads(c) \/ GetFill(c) \/ BackendWrites(c) \/ BackendPurges(c))
  BY <1>3 DEF BackendReads, GetFill, BackendWrites, BackendPurges
<1>9. ASSUME \/ \E c \in Client, j \in Key : \/ GetHit(c, j) \/ GetThrows(c, j)
                                             \/ \E skipL2 \in BOOLEAN : GetMiss(c, j, skipL2)
             \/ \E v \in Version : Expire(v)
             \/ UNCHANGED vars
      PROVE  /\ l1' = l1 \/ \E j \in Key : l1' = [l1 EXCEPT ![j] = Absent]
             /\ gens' = gens /\ tagIndex' = tagIndex
  BY <1>9 DEF GetHit, GetThrows, GetMiss, Expire, vars, memory
<1>. QED  BY <1>4, <1>5, <1>6, <1>7, <1>8, <1>9 DEF Next

LEMMA ReturnStep == ASSUME IInv, [Next]_vars PROVE ReturnIsFresh'
<1>1. ASSUME NEW c \in Client, NEW k \in Key, GetHit(c, k) PROVE ReturnIsFresh'
  <2>1. k \in Resident /\ l1[k] # Absent /\ IsValid(k, l1[k])
    BY <1>1 DEF GetHit, Usable, Resident
  <2>2. /\ ret' = [src |-> "l1", key |-> k, ver |-> l1[k].ver, since |-> done, now |-> gens]
        /\ born' = born /\ backend' = backend
    BY <1>1 DEF GetHit, Returned, history
  <2>3. ret'.src = "l1" /\ ret'.key = k /\ ret'.ver = l1[k].ver /\ ret'.since = done /\ ret'.now = gens
    BY <2>2
  <2>4. \A t \in TagsOf[k] : born[l1[k].ver][t] = gens[t]
    BY <2>1 DEF IInv, EntriesGenuine, Genuine, IsValid
  <2>5. backend = "none" => done = gens
    BY DEF IInv, NobodyWaits
  <2>. QED  BY <2>2, <2>3, <2>4, <2>5 DEF ReturnIsFresh, L1HitIsFresh
<1>2. ASSUME NEW c \in Client, GetFill(c) PROVE ReturnIsFresh'
  <2>1. backend # "none" /\ backend' = backend
    BY <1>2 DEF GetFill, IInv, NobodyWaits, Idle
  <2>2. ret'.src \in {"nothing", "l2"}
    <3>1. ret' = Nothing \/ Returned("l2", call[c].key, call[c].entry.ver, call[c].since)
      BY <1>2 DEF GetFill
    <3>. QED  BY <3>1 DEF Returned, Nothing
  <2>. QED  BY <2>1, <2>2 DEF ReturnIsFresh, L1HitIsFresh
<1>3. ASSUME ret' \in {Nothing, Threw} PROVE ReturnIsFresh'
  BY <1>3 DEF ReturnIsFresh, L1HitIsFresh, Nothing, Threw
<1>4. CASE UNCHANGED vars
  BY <1>4 DEF IInv, ReturnIsFresh, L1HitIsFresh, vars
<1>5. ASSUME NEW c \in Client, NEW k \in Key,
             \/ GetThrows(c, k)
             \/ \E skipL2 \in BOOLEAN : GetMiss(c, k, skipL2) \/ Set(c, k, skipL2)
             \/ BackendReads(c) \/ BackendWrites(c) \/ BackendPurges(c)
             \/ \E t \in Tag : RevalidateTag(c, t)
             \/ Delete(k)
             \/ \E v \in Version : Expire(v)
      PROVE  ret' \in {Nothing, Threw}
  BY <1>5 DEF GetThrows, GetMiss, Set, BackendReads, BackendWrites,
              BackendPurges, Delete, Expire, RevalidateTag
<1>6. ASSUME \/ \E c \in Client : BackendReads(c) \/ BackendWrites(c) \/ BackendPurges(c)
             \/ \E c \in Client, t \in Tag : RevalidateTag(c, t)
             \/ \E k \in Key : Delete(k)
             \/ \E v \in Version : Expire(v)
      PROVE  ret' \in {Nothing, Threw}
  BY <1>6 DEF BackendReads, BackendWrites, BackendPurges, Delete, Expire, RevalidateTag
<1>. QED  BY <1>1, <1>2, <1>3, <1>4, <1>5, <1>6 DEF Next

LEMMA InvInit == Init => IInv
<1> SUFFICES ASSUME Init PROVE IInv
  OBVIOUS
<1>1. TypeOK /\ next > 0 /\ L1Bounded
  BY SoundInit
<1>2. ValidIsIndexed /\ EntriesGenuine /\ NobodyWaits
  BY DEF Init, ValidIsIndexed, EntriesGenuine, NobodyWaits, Resident, Idle
<1>3. ReturnIsFresh
  BY DEF Init, ReturnIsFresh, L1HitIsFresh, Nothing
<1>. QED  BY <1>1, <1>2, <1>3 DEF IInv

LEMMA InvStep == IInv /\ [Next]_vars => IInv'
BY SoundStep, IndexStep, GenuineStep, NobodyWaitsStep, ReturnStep DEF IInv

LEMMA Invariance == Spec => []IInv
BY InvInit, InvStep, PTL DEF Spec

----------------------------------------------------------------------------
(* The L1 map of get, set, delete, evictLRU and revalidateTag: its order   *)
(* lists the resident keys once each and never more than maxL1Size of      *)
(* them, and without a backend every valid entry is indexed under its tags.*)
THEOREM L1StaysSound == Spec => []L1IsSound
<1>1. IInv => L1IsSound
  BY DEF IInv, L1IsSound
<1>. QED  BY <1>1, Invariance, PTL

(* isEntryValid: what a get returns from memory was written after the last *)
(* revalidateTag of each of its tags, whether the entry was set, evicted   *)
(* and filled again, or came back from the backend late.                   *)
THEOREM HitsAreFresh == Spec => []L1HitIsFresh
<1>1. IInv => L1HitIsFresh
  BY DEF IInv, ReturnIsFresh
<1>. QED  BY <1>1, Invariance, PTL

=============================================================================
