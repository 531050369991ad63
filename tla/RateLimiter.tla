------------------------------ MODULE RateLimiter ------------------------------
(***************************************************************************)
(* The sliding-window rate limiter of a rule: check counts a request when  *)
(* it arrives, and recordSuccess, where the rule skips the successful      *)
(* ones, takes a count back when its response is known.  Time is a counter *)
(* of ticks; responses arrive in any order.                                *)
(***************************************************************************)
EXTENDS Naturals, Sequences, FiniteSets

CONSTANTS
  Keys,      \* the keys the rule takes requests to
  Limit,     \* rule.max
  Window,    \* rule.windowMs, in ticks
  MaxTime,   \* bound on the clock
  MaxRequests \* bound on the requests, numbered as they arrive

VARIABLES
  now,
  store,     \* the timestamps of each key that has an entry
  state,     \* what became of each request
  lost       \* how many successes of each key took the count of a later request

vars == <<now, store, state, lost>>

Requests == 1..MaxRequests
Idle == [is |-> "unsent", key |-> CHOOSE k \in Keys : TRUE, at |-> 0]

Init ==
  /\ now = 0 /\ store = [k \in {} |-> <<>>]
  /\ state = [r \in Requests |-> Idle] /\ lost = [k \in Keys |-> 0]

\* Mutant: a timestamp leaves its window one tick early.
LiveEarly(t) == t + Window > now + 1
Live(t) == t + Window > now
\* The timestamps of a key were pushed as the clock went, so those that left come first.
LiveOnly(s) == SubSeq(s, Cardinality({i \in DOMAIN s : ~Live(s[i])}) + 1, Len(s))

\* The entries of every key that have nothing live go before the key is looked at.
Kept(key) ==
  {k \in DOMAIN store : \E i \in DOMAIN store[k] : Live(store[k][i])} \cup {key}
Counted(key) ==
  [k \in Kept(key) |-> IF k \notin DOMAIN store THEN <<>>
                       ELSE IF k = key THEN LiveOnly(store[k]) ELSE store[k]]

\* Mutant: the request is counted before it is known to be allowed.
CountFirst(s) == Append(s, now)
Refused(s) == s

Check(r, key) ==
  /\ state[r].is = "unsent" /\ \A q \in 1..(r - 1) : state[q].is # "unsent"
  /\ LET s == Counted(key)[key] IN
     IF Len(s) >= Limit
       THEN /\ store' = [Counted(key) EXCEPT ![key] = Refused(s)]
            /\ state' = [state EXCEPT ![r] = [is |-> "refused", key |-> key, at |-> now]]
       ELSE /\ store' = [Counted(key) EXCEPT ![key] = Append(s, now)]
            /\ state' = [state EXCEPT ![r] = [is |-> "running", key |-> key, at |-> now]]
  /\ UNCHANGED <<now, lost>>

TakenBack(s) == SubSeq(s, 1, Len(s) - 1)

\* The newest timestamp goes, whoever it counted.
RecordSuccess(r) ==
  /\ state[r].is = "running"
  /\ LET key == state[r].key IN
     /\ IF key \in DOMAIN store /\ store[key] # <<>>
          THEN /\ store' = [store EXCEPT ![key] = TakenBack(@)]
               /\ lost' = IF store[key][Len(store[key])] = state[r].at THEN lost
                          ELSE [lost EXCEPT ![key] = @ + 1]
          ELSE UNCHANGED <<store, lost>>
     /\ state' = [state EXCEPT ![r].is = "succeeded"]
  /\ UNCHANGED now

\* A response that is no success takes nothing back.
Fail(r) ==
  /\ state[r].is = "running" /\ state' = [state EXCEPT ![r].is = "failed"]
  /\ UNCHANGED <<now, store, lost>>

Tick == now < MaxTime /\ now' = now + 1 /\ UNCHANGED <<store, state, lost>>

Over == (\A r \in Requests : state[r].is \notin {"unsent", "running"}) /\ UNCHANGED vars

Next ==
  \/ \E r \in Requests : (\E k \in Keys : Check(r, k)) \/ RecordSuccess(r) \/ Fail(r)
  \/ Tick \/ Over

Spec == Init /\ [][Next]_vars

-----------------------------------------------------------------------------
InWindow(key, t) ==
  {r \in Requests : /\ state[r].is \in {"running", "failed"} /\ state[r].key = key
                    /\ state[r].at <= t /\ state[r].at + Window > t}

(* No window holds more than Limit requests of a key that did not succeed, *)
(* and one for each success that took the count of a request that came     *)
(* after its own: the sliding window really slides, and recordSuccess lets *)
(* in no more than it takes back.                                          *)
WindowHolds ==
  \A k \in Keys : \A t \in 0..now : Cardinality(InWindow(k, t)) <= Limit + lost[k]

(* A key is refused only where Limit of its requests are in the window and *)
(* did not succeed: no refused, expired or successful request counts       *)
(* against it.                                                             *)
RefusalIsNeeded ==
  \A r \in Requests :
    state[r].is = "unsent" /\ state'[r].is = "refused" =>
      Cardinality({q \in Requests : /\ state[q].is \in {"running", "failed"}
                                    /\ state[q].key = state'[r].key
                                    /\ state[q].at + Window > now}) >= Limit

(* Why both hold.  The timestamps of a key are in order, and from any live *)
(* time on they are no more than its requests since then that did not      *)
(* succeed; and as many, but for those that a success of another took.     *)
TypeOK ==
  /\ now \in Nat /\ lost \in [Keys -> Nat]
  /\ DOMAIN store \subseteq Keys /\ store \in [DOMAIN store -> Seq(0..now)]
  /\ state \in [Requests -> [is : {"unsent", "refused", "running", "succeeded", "failed"},
                             key : Keys, at : 0..now]]
Stamps(k) == IF k \in DOMAIN store THEN store[k] ELSE <<>>
Since(k, u) ==
  {r \in Requests : /\ state[r].is \in {"running", "failed"} /\ state[r].key = k
                    /\ state[r].at >= u}
Youngest(s, u, m) == \A i \in DOMAIN s : s[i] >= u <=> i > Len(s) - m
Agree(k, u) ==
  \E m \in 0..Len(Stamps(k)) :
    /\ Youngest(Stamps(k), u, m)
    /\ m <= Cardinality(Since(k, u))
    /\ Cardinality(Since(k, u)) <= m + lost[k]
StampsCount == \A k \in Keys : \A u \in 0..now : u + Window > now => Agree(k, u)
Inv == TypeOK /\ StampsCount /\ WindowHolds
=============================================================================
