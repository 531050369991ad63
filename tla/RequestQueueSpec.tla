-------------------------- MODULE RequestQueueSpec --------------------------
(***************************************************************************)
(* What the worker pool needs of its queue: a first-come first-served line *)
(* per priority, from which a request leaves exactly once, by being        *)
(* served, by giving up, or with everybody else when the queue is drained. *)
(***************************************************************************)
EXTENDS Integers, Sequences

CONSTANTS Request, Band

VARIABLES line,  \* line[b]: the requests waiting at priority b, oldest first
          fate   \* fate[r]: "new", "waiting", "timedOut", "served", "dropped"

specVars == <<line, fate>>

SpecInit == /\ line = [b \in Band |-> <<>>]
            /\ fate = [r \in Request |-> "new"]

Join(r, b) == /\ fate[r] = "new"
              /\ line' = [line EXCEPT ![b] = Append(@, r)]
              /\ fate' = [fate EXCEPT ![r] = "waiting"]

Serve(b) == /\ line[b] # <<>>
            /\ \A c \in Band : c < b => line[c] = <<>>
            /\ line' = [line EXCEPT ![b] = Tail(@)]
            /\ fate' = [fate EXCEPT ![line[b][1]] = "served"]

GiveUp(b, i) == /\ fate[line[b][i]] = "waiting"
                /\ line' = [line EXCEPT ![b] = SubSeq(@, 1, i - 1) \o SubSeq(@, i + 1, Len(@))]
                /\ fate' = [fate EXCEPT ![line[b][i]] = "timedOut"]

DropAll == /\ line' = [b \in Band |-> <<>>]
           /\ fate' = [r \in Request |-> IF fate[r] = "waiting" THEN "dropped"
                                         ELSE fate[r]]

SpecNext == \/ \E r \in Request, b \in Band : Join(r, b)
            \/ \E b \in Band : Serve(b)
            \/ \E b \in Band : \E i \in 1 .. Len(line[b]) : GiveUp(b, i)
            \/ DropAll

SpecSafe == SpecInit /\ [][SpecNext]_specVars
=============================================================================
