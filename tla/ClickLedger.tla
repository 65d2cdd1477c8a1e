----------------------------- MODULE ClickLedger -----------------------------
(***************************************************************************)
(* What the click pipeline promises its callers, with Redis, the flusher   *)
(* and SQLite taken as one: a count is pending from the moment it is made; *)
(* it is settled once, or lost once, and stays so.  Only a reset of Redis  *)
(* takes pending counts back.                                              *)
(***************************************************************************)
EXTENDS Naturals

CONSTANT Counters

VARIABLES
    pending,    \* made, and not yet in the database
    settled,    \* processed by a committed transaction
    lost        \* gone without having been processed

vars == <<pending, settled, lost>>

Init ==
    /\ pending = [k \in Counters |-> 0]
    /\ settled = [k \in Counters |-> 0]
    /\ lost = [k \in Counters |-> 0]

\* One counter grows: a click, or a command the client sent again.
Count ==
    /\ UNCHANGED <<settled, lost>>
    /\ \E k \in Counters :
        /\ pending'[k] > pending[k]
        /\ \A other \in Counters \ {k} : pending'[other] = pending[other]

\* Counts move from one book to the other, none is made or dropped.
Moves(book) == \A k \in Counters :
    /\ book'[k] >= book[k]
    /\ pending'[k] + book'[k] = pending[k] + book[k]

Settle == UNCHANGED lost /\ Moves(settled)
Lose == UNCHANGED settled /\ Moves(lost)

\* A reset of Redis: it spares what a flush holds.
Forget ==
    /\ UNCHANGED <<settled, lost>>
    /\ \A k \in Counters : pending'[k] <= pending[k]

Next == Settle \/ Lose \/ Count \/ Forget

Spec == Init /\ [][Next]_vars
=============================================================================
