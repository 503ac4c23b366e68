------------------------------- MODULE MCTables -------------------------------
(* Changes of a table for TLC, in three ways, one in a behaviour: DML over     *)
(* several indexes in which a native call fails anywhere (DmlFaults); two      *)
(* processors that run DML in transactions over an indexed table, with no      *)
(* failures of their own (Transactions); and a table in a sequential file      *)
(* (SequentialFile).                                                           *)
EXTENDS Transactions, DmlFaults, SequentialFile

VARIABLE part

ASSUME FaultsAssumption == Indexes \in Nat \ {0} /\ MaxFaults \in Nat

Symmetries == Permutations(Owner) \cup Permutations(Key)

-------------------------------------------------------------------------------
SequentialSetup(keys, vals, perPage, threshold, pages, mishapsAllowed) ==
    [keys |-> keys, vals |-> vals, slots |-> perPage, threshold |-> threshold,
     pages |-> pages, mishaps |-> mishapsAllowed]

(* Two keys and any number of marks, so that groups are dropped; four keys and *)
(* a few marks, with a crash anywhere; more marks and none; and two values.    *)
SequentialSetups ==
    {SequentialSetup(1 .. 2, {"v"}, 2, 100, 3, 1),
     SequentialSetup(1 .. 4, {"v"}, 2, 30, 4, 1),
     SequentialSetup(1 .. 4, {"v"}, 2, 40, 4, 0),
     SequentialSetup(1 .. 2, {"v", "w"}, 2, 50, 3, 1)}

-------------------------------------------------------------------------------
(* Two keys are enough for what transactions do to each other.                *)
HasFewKeys ==
    \A t \in Table :
        Cardinality({r.key : r \in RowsOf(store[t])}
                    \cup {stmt[s].arg.key : s \in {p \in Owner : stmt[p].kind = "insert"}}) <= 2

TablesInit ==
    /\ part \in {"calls", "transactions", "sequential"}
    /\ DmlInit
    /\ Init
    /\ SeqInit
    /\ part # "sequential" => setup = CHOOSE s \in Setups : TRUE

CallStep == part = "calls" /\ DmlNext /\ UNCHANGED <<part, vars, seqVars>>

TransactionStep ==
    part = "transactions" /\ Next /\ HasFewKeys' /\ UNCHANGED <<part, dmlVars, seqVars>>

SequentialStep ==
    part = "sequential" /\ SeqNext /\ UNCHANGED <<part, vars, dmlVars>>

TablesNext == CallStep \/ TransactionStep \/ SequentialStep

TablesSpec == TablesInit /\ [][TablesNext]_<<part, vars, dmlVars, seqVars>>

(* A sequential file changes one row at a time, whatever it writes for that.   *)
ImplementsSequentialContract == ImplementsRecordFile

===============================================================================
