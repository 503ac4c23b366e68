--------------------------- MODULE MCSequentialFile ---------------------------
(* A sequential file for TLC, after the insertion of 1, 2, 5 and 4, the       *)
(* removal of 5, twice, with its insertion in between, and a flush: 1 and 2 in *)
(* the first main page, 4 in its overflow, and two marked rows in the second.  *)
EXTENDS SequentialFile

SmallFile ==
    {[keys |-> 1 .. 5, vals |-> {"v"}, slots |-> 2, threshold |-> 58, pages |-> 5, mishaps |-> 1]}

Row(k) == Used([key |-> k, val |-> "v"])
Marked(k) == [Row(k) EXCEPT !.live = FALSE]

LoadedMem ==
    [count |-> 3, live |-> 3, deleted |-> 2, head |-> 1, main |-> <<1, 2>>, first |-> <<1, 5>>]

LoadedInit ==
    /\ setup \in Setups
    /\ mem = LoadedMem
    /\ disk = [NewFile EXCEPT
                 !.pages[1] = [slots |-> <<Row(1), Row(2)>>, next |-> 2, overflow |-> 3],
                 !.pages[2] = [slots |-> <<Marked(5), Marked(5)>>, next |-> NoPage, overflow |-> NoPage],
                 !.pages[3] = [slots |-> <<Row(4)>>, next |-> NoPage, overflow |-> NoPage],
                 !.count = 3, !.meta = Meta(LoadedMem)]
    /\ fresh = NoFile /\ buffer = Nothing /\ work = NoWork /\ up = TRUE /\ mishaps = 0
    /\ kept = RowsNow

LoadedSpec == LoadedInit /\ [][SeqNext]_seqVars

=============================================================================
