------------------------------ MODULE TableSpace ------------------------------
(***************************************************************************)
(* What a Database promises of its tables: a table appears empty, its rows *)
(* change only by DML while it is listed, it vanishes as a whole, and what *)
(* a restart lists is what was stored.  The statements that create and     *)
(* drop tables may fail or be cut short at any point; then a table is as   *)
(* before or as after.                                                     *)
(***************************************************************************)
EXTENDS Naturals

CONSTANTS Name, Tuple

VARIABLES stored,   \* the rows of each table a restart would list
          listed    \* the tables that clients see

spaceVars == <<stored, listed>>

SpaceInit ==
    /\ stored = [t \in {} |-> {}]
    /\ listed = {}

(* The tables ts become the stored ones: a new one is empty. *)
Keep(ts) ==
    stored' = [t \in ts |-> IF t \in DOMAIN stored THEN stored[t] ELSE {}]

Save ==
    /\ \/ Keep(listed)
       \/ \E t \in Name : Keep(listed \cup {t})
    /\ UNCHANGED listed

Offer(t) ==
    /\ t \in DOMAIN stored /\ stored[t] = {}
    /\ listed' = listed \cup {t}
    /\ UNCHANGED stored

Withdraw(t) ==
    /\ listed' = listed \ {t}
    /\ UNCHANGED stored

AddRow(t, r) ==
    /\ t \in listed
    /\ stored' = [stored EXCEPT ![t] = @ \cup {r}]
    /\ UNCHANGED listed

TakeRow(t, r) ==
    /\ t \in listed
    /\ stored' = [stored EXCEPT ![t] = @ \ {r}]
    /\ UNCHANGED listed

Restart ==
    /\ listed' = DOMAIN stored
    /\ UNCHANGED stored

SpaceNext ==
    \/ Save \/ Restart
    \/ \E t \in Name : Offer(t) \/ Withdraw(t)
    \/ \E t \in Name, r \in Tuple : AddRow(t, r) \/ TakeRow(t, r)

SpaceSpec == SpaceInit /\ [][SpaceNext]_spaceVars

===============================================================================
