--------------------------- MODULE OptimisticEngine ---------------------------
(***************************************************************************)
(* The optimistic engine of genbook (DeterministicOptimisticEngine and its *)
(* patch log).  The application's state is the set of patches that show;   *)
(* an action may bring a rollback of its own that takes its patch out, and *)
(* otherwise the state it was applied to is put back, and with it whatever *)
(* showed and did not show then.                                           *)
(***************************************************************************)
EXTENDS Naturals, Sequences

CONSTANTS Actions, OwnRollback, MaxApplies, None

VARIABLES
  shown, log, snapshots,
  given,    \* the actions rolled back since they were last applied
  restored  \* those whose snapshot was ever put back

vars == <<shown, log, snapshots, given, restored>>

Init ==
  /\ shown = {} /\ log = <<>> /\ given = {} /\ restored = {}
  /\ snapshots = [a \in Actions |-> None]

\* apply: the state before it is kept under the action's id, over that of an earlier use.
apply(a) ==
  /\ Len(log) < MaxApplies
  /\ snapshots' = [snapshots EXCEPT ![a] = <<shown>>]
  /\ shown' = shown \cup {a}
  /\ log' = Append(log, [id |-> a, status |-> "pending"])
  /\ given' = given \ {a} /\ UNCHANGED restored

\* Mutant: answers are taken to come in order, each for the oldest pending entry.
OldestPending(a) == {i \in DOMAIN log : /\ log[i].status = "pending"
                                        /\ \A j \in 1..(i - 1) : log[j].status # "pending"}
\* The first entry of the action is marked, whatever it says already.
Marked(a) == {i \in DOMAIN log : log[i].id = a /\ \A j \in DOMAIN log : log[j].id = a => i <= j}
mark(a, status) ==
  log' = [i \in DOMAIN log |-> IF i \in Marked(a) THEN [log[i] EXCEPT !.status = status] ELSE log[i]]

\* The server agreed.  What the state was reconciled to shows the patch still.
resolve(a) ==
  /\ snapshots[a] # None
  /\ mark(a, "resolved")
  /\ UNCHANGED <<shown, snapshots, given, restored>>

\* Mutant: the state before the action is put back for every action.
Before(a) == snapshots[a][1]
RolledBack(a) == IF a \in OwnRollback THEN shown \ {a} ELSE snapshots[a][1]

\* The server refused.  The action is not forgotten: a second answer is taken too.
rollback(a) ==
  /\ snapshots[a] # None
  /\ shown' = RolledBack(a)
  /\ mark(a, "rolled-back")
  /\ given' = given \cup {a}
  /\ restored' = IF a \in OwnRollback THEN restored ELSE restored \cup {a}
  /\ UNCHANGED snapshots

Next == \E a \in Actions : apply(a) \/ resolve(a) \/ rollback(a)

Spec == Init /\ [][Next]_vars

-----------------------------------------------------------------------------
Applied(a) == \E i \in DOMAIN log : log[i].id = a

Precedes(a, b) == \E i, j \in DOMAIN log : i < j /\ log[i].id = a /\ log[j].id = b

\* What shows is what was applied and not rolled back since, in whatever order the answers
\* come, but for the snapshots put back.  A snapshot takes with it only patches applied
\* after its action, also those the server has agreed to, and brings back only refused ones
\* that were applied before it; an action with a rollback of its own does neither.
RollbacksTakeTheLater ==
  \A a \in Actions :
    /\ Applied(a) /\ a \notin given /\ a \notin shown => \E b \in restored : Precedes(b, a)
    /\ a \in shown => Applied(a) /\ (a \in given => \E b \in restored : Precedes(a, b))

\* An action whose id was used once is not pending after it was rolled back, whatever
\* order the answers come in.  (An id used twice leaves an entry pending for good.)
RolledBackIsNotPending ==
  (\A i, j \in DOMAIN log : log[i].id = log[j].id => i = j)
    => \A a \in given : \A i \in DOMAIN log : log[i].id = a => log[i].status # "pending"

\* What the proofs carry along: what was answered was applied; a patch in a snapshot was
\* applied before, and one that is not was refused, applied later, or lost already.
Inv ==
  /\ log \in Seq([id : Actions, status : {"pending", "resolved", "rolled-back"}])
  /\ DOMAIN snapshots = Actions /\ \A a \in Actions : snapshots[a] # None => Applied(a)
  /\ given \subseteq Actions /\ (\A a \in given : Applied(a)) /\ restored \subseteq Actions
  /\ RollbacksTakeTheLater /\ RolledBackIsNotPending
  /\ \A x, a \in Actions : snapshots[x] # None =>
       /\ a \in snapshots[x][1] => Precedes(a, x)
       /\ a # x /\ a \notin snapshots[x][1] /\ a \notin given /\ Applied(a) =>
            Precedes(x, a) \/ \E b \in restored : Precedes(b, a)
=============================================================================
