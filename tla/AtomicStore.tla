------------------------------ MODULE AtomicStore ------------------------------
(***************************************************************************)
(* What ADR 0004 and ADR 0005 promise to the clients of a shared Database: *)
(* every transaction works on its own copy of the tables it writes, the    *)
(* copy becomes visible as a whole or is dropped as a whole, and a table   *)
(* that a transaction has read or written is not changed under it.  There  *)
(* are no locks, no undo log and no storage here.                          *)
(*                                                                         *)
(* The engine is shown to implement this module (Transactions.tla), with   *)
(* the committed rows reconstructed from its undo logs.                    *)
(***************************************************************************)
CONSTANTS Client, Name, Tuple

VARIABLES committed,  \* the rows every client may see
          workspace,  \* per client: the tables it has written, as it sees them
          touched,    \* per client: the tables its transaction depends on
          seen        \* per client: the answer of its last query

storeVars == <<committed, workspace, touched, seen>>

Contents == SUBSET Tuple

NoTables == [t \in {} |-> {}]

StoreInit ==
    /\ committed \in [Name -> Contents]
    /\ workspace = [c \in Client |-> NoTables]
    /\ touched = [c \in Client |-> {}]
    /\ seen = [c \in Client |-> NoTables]

(* A client's own view of a table. *)
View(c, t) == IF t \in DOMAIN workspace[c] THEN workspace[c][t] ELSE committed[t]

(* Nobody else depends on the table. *)
Unshared(c, t) == \A d \in Client \ {c} : t \notin touched[d] \cup DOMAIN workspace[d]

Written(c, t, rows) ==
    [u \in DOMAIN workspace[c] \cup {t} |-> IF u = t THEN rows ELSE workspace[c][u]]

(* The transaction of c comes to depend on t, which nobody else has written. *)
Touch(c, t) ==
    /\ \A d \in Client \ {c} : t \notin DOMAIN workspace[d]
    /\ touched' = [touched EXCEPT ![c] = @ \cup {t}]
    /\ UNCHANGED <<committed, workspace, seen>>

Forget(c, t) ==
    /\ t \notin DOMAIN workspace[c]
    /\ touched' = [touched EXCEPT ![c] = @ \ {t}]
    /\ UNCHANGED <<committed, workspace, seen>>

(* A query is answered from the view of the client that asks. *)
Query(c, ts) ==
    /\ \A t \in ts : \A d \in Client \ {c} : t \notin DOMAIN workspace[d]
    /\ seen' = [seen EXCEPT ![c] = [t \in ts |-> View(c, t)]]
    /\ UNCHANGED <<committed, workspace, touched>>

Forgotten(c) ==
    /\ seen' = [seen EXCEPT ![c] = NoTables]
    /\ UNCHANGED <<committed, workspace, touched>>

Write(c, t, rows) ==
    /\ Unshared(c, t)
    /\ workspace' = [workspace EXCEPT ![c] = Written(c, t, rows)]
    /\ UNCHANGED <<committed, touched, seen>>

(* The copy of t is dropped and the committed table is back in view. *)
Discard(c, t) ==
    /\ t \in DOMAIN workspace[c]
    /\ workspace' = [workspace EXCEPT
                       ![c] = [u \in DOMAIN workspace[c] \ {t} |-> workspace[c][u]]]
    /\ UNCHANGED <<committed, touched, seen>>

Commit(c) ==
    /\ \A t \in DOMAIN workspace[c] : Unshared(c, t)
    /\ committed' = [t \in Name |-> View(c, t)]
    /\ workspace' = [workspace EXCEPT ![c] = NoTables]
    /\ UNCHANGED <<touched, seen>>

(* A statement outside any transaction. *)
AutoCommit(c, t, rows) ==
    /\ Unshared(c, t)
    /\ workspace[c] = NoTables
    /\ committed' = [committed EXCEPT ![t] = rows]
    /\ UNCHANGED <<workspace, touched, seen>>

StoreNext ==
    \E c \in Client :
        \/ \E t \in Name : Touch(c, t) \/ Forget(c, t) \/ Discard(c, t)
        \/ \E ts \in SUBSET Name : Query(c, ts)
        \/ \E t \in Name, rows \in Contents : Write(c, t, rows) \/ AutoCommit(c, t, rows)
        \/ Commit(c)
        \/ Forgotten(c)

StoreSpec == StoreInit /\ [][StoreNext]_storeVars

===============================================================================
