--------------------------- MODULE QueryPipeline ---------------------------
(* engine/executor: a statement from the binder to its answer. processor.py   *)
(* prepares it and takes the locks of its tables, operators.py and external.py*)
(* run the plan with the native core, and whatever happens gives back what the*)
(* statement holds. A record on its way is known by the rows it is made of, a *)
(* group by its records; operators.py computes lists, external.py streams     *)
(* them, to the same end, so both are a step on the whole list.               *)
EXTENDS AccessPlan, QueryMeaning

CONSTANTS
    Workload,    \* the pairs of a statement and the catalogue it meets
    Block,       \* how many right rows the hash join holds in memory
    Partitions   \* of the hash join

VARIABLES
    statement,   \* the tree the parser built
    catalog,     \* the tables, their indexes and their rows
    phase,       \* what happens to the statement next
    bound, plan, \* what the binder and the optimizer made of it
    locks,       \* the tables it has locked, in order
    temps,       \* the temporary files that exist
    leaves,      \* the rows read of each table
    join,        \* where the hash join is
    stream,      \* the records or groups so far, each the set of its records
    scores,      \* the score of each, when the statement wants it
    rows,        \* the rows projected
    steps,       \* the steps measured, the last one first
    outcome      \* how it ended

queryVars == <<statement, catalog, phase, bound, plan, locks, temps, leaves, join, stream, scores, rows,
               steps, outcome>>

NoJoin == [partition |-> 0, block |-> 0, used |-> ""]
Running == <<bound, plan, leaves, join, stream, scores, rows, steps>>

QueryInit ==
    /\ \E case \in Workload : statement = case[1] /\ catalog = case[2]
    /\ phase = "statement"
    /\ bound = <<>> /\ plan = <<>> /\ locks = <<>> /\ temps = {}
    /\ leaves = <<>> /\ join = NoJoin /\ stream = <<>> /\ scores = <<>> /\ rows = <<>> /\ steps = <<>>
    /\ outcome = ""

Schemas == SchemasOf(statement, catalog)
IsQuery == statement.verb \in {"SELECT", "DELETE"}
Width == SumFunction([t \in DOMAIN Schemas |-> Len(Schemas[t].columns)])

(* The value at a position of the FROM.                                       *)
Cell(record, position) ==
    LET first == Len(Schemas[1].columns)
    IN IF position <= first THEN Schemas[1].rows[record[1]][position]
       ELSE Schemas[2].rows[record[2]][position - first]

Ends(how) == outcome' = how /\ phase' = "releasing"

-----------------------------------------------------------------------------
(* CREATE TABLE, CREATE INDEX and INSERT: what the binder lets through, the   *)
(* core still checks.                                                         *)
Slots(size) == (PageSize - PageHeader) \div (size + SlotState)
SequentialSlots(size) == (PageSize - PageHeader - BodyHeader) \div (size + SlotState)

(* Catalog::validate and the constructors of HeapFile and SequentialFile.     *)
StoresTable(table) ==
    LET names == [i \in DOMAIN table.columns |-> table.columns[i].name]
        size == RecordSize(table.columns)
    IN /\ TooLong \notin Range(names) \cup {table.name}
       /\ names # <<>> /\ IsInjective(names)
       /\ \A column \in Range(table.columns) : (column.type \in Numbered) = (column.length > 0)
       /\ IF table.structure = "HEAP" THEN Slots(size) >= 1 ELSE SequentialSlots(size) >= 2

(* Catalog::create_index.                                                     *)
StoresIndex(kind, column, table) ==
    LET type == (CHOOSE c \in Range(table.columns) : c.name = column).type
    IN /\ table.structure = "HEAP"
       /\ kind = "RTREE" => type = "POINT"
       /\ kind = "INVERTED_INDEX" => type = "VARCHAR"
       /\ (kind \in VectorKinds) = (type = "VECTOR")
       /\ type = "POINT" => kind = "RTREE"

(* Schema::validate.                                                          *)
StoresRecord(values, columns) ==
    /\ Len(values) = Len(columns)
    /\ \A i \in DOMAIN values :
          /\ columns[i].type \in values[i].types
          /\ columns[i].type = "VARCHAR" => values[i].size <= columns[i].length
          /\ columns[i].type = "VECTOR" => values[i].size = columns[i].length

BindsDdl ==
    CASE statement.verb = "CREATE TABLE" -> BindsTable(statement)
      [] statement.verb = "CREATE INDEX" -> BindsIndex(statement, catalog[statement.table])
      [] statement.verb = "INSERT" -> BindsInsert(statement.values, catalog[statement.table])

Stores ==
    CASE statement.verb = "CREATE TABLE" -> StoresTable(BoundTable(statement))
      [] statement.verb = "CREATE INDEX" -> StoresIndex(statement.kind, statement.column, catalog[statement.table])
      [] statement.verb = "INSERT" -> StoresRecord(statement.values, catalog[statement.table].columns)

(* _create_table, _create_index and _insert.                                  *)
Define ==
    /\ phase = "statement" /\ ~IsQuery
    /\ Ends(IF ~BindsDdl THEN "refused" ELSE IF Stores THEN "stored" ELSE "failed")
    /\ UNCHANGED <<statement, catalog, locks, temps>> /\ UNCHANGED Running

-----------------------------------------------------------------------------
(* _prepare_select and _delete: the statement is bound and planned before any *)
(* lock. MATCH wants an index on its column.                                  *)
HasTextIndex(select) ==
    Searches(statement, "match") =>
        \E index \in Schemas[1].indexes : index.structure = "INVERTED_INDEX" /\ index.column = select.where[1].index

BoundDelete ==
    [verb |-> "DELETE", where |-> <<BoundCondition(statement.where[1], Visible(Schemas))>>]

Bind ==
    /\ phase = "statement" /\ IsQuery
    /\ IF ~Binds(statement, catalog) THEN Ends("refused") /\ UNCHANGED bound
       ELSE LET result == IF statement.verb = "DELETE" THEN BoundDelete ELSE BoundSelect(statement, catalog)
            IN IF HasTextIndex(result) THEN bound' = result /\ phase' = "planning" /\ UNCHANGED outcome
               ELSE Ends("refused") /\ UNCHANGED bound
    /\ UNCHANGED <<statement, catalog, plan, locks, temps, leaves, join, stream, scores, rows, steps>>

(* An HNSW answers for the metric it was built with only: the first that has  *)
(* it is taken, or the query is refused.                                      *)
OfMetric(table, where) ==
    LET right == [table EXCEPT !.indexes = {i \in @ : i.metric = where.metric}]
    IN Best(right, where.index, <<"HNSW">>)

UsesHnsw(made) ==
    \E access \in Range(made.leaves) :
        access.route = "VECTOR_KNN" /\ \E index \in Range(access.index) : index.structure = "HNSW"

Planned(made) ==   \* <<>> when it is refused
    IF ~UsesHnsw(made) THEN made
    ELSE LET index == OfMetric(Schemas[1], bound.where[1])
         IN IF index = <<>> THEN <<>> ELSE [made EXCEPT !.leaves[1].index = index]

Optimize ==
    /\ phase = "planning"
    /\ LET made == IF statement.verb = "DELETE" THEN OptimizeDelete(bound, Schemas[1])
                   ELSE OptimizeSelect(bound, Schemas)
           chosen == Planned(made)
       IN IF ~ValidPlan(made, bound, Schemas) THEN Ends("raised") /\ UNCHANGED plan
          ELSE IF chosen = <<>> THEN Ends("refused") /\ UNCHANGED plan
          ELSE plan' = chosen /\ phase' = "locking" /\ UNCHANGED outcome
    /\ UNCHANGED <<statement, catalog, bound, locks, temps, leaves, join, stream, scores, rows, steps>>

(* _select: the locks of the tables in the order of their names, each with a  *)
(* deadline. A name is compared by its place in TableOrder.                   *)
TableOrder == <<"a", "b">>

(* A query names a table, and the catalogue has the tables that are ordered.  *)
ASSUME WorkloadAssumption ==
    \A case \in Workload : case[1].verb \in {"SELECT", "DELETE"} =>
        /\ case[1].from \in Seq(STRING) /\ case[1].from # <<>>
        /\ DOMAIN case[2] \subseteq Range(TableOrder)

(* Variant: in the order of the FROM.                                         *)
ToLockAsWritten == statement.from

Place(table) == CHOOSE i \in DOMAIN TableOrder : TableOrder[i] = table

ToLock ==
    LET tables == Range(statement.from)
    IN CHOOSE s \in [1 .. Cardinality(tables) -> tables] : \A i, j \in DOMAIN s : i < j => Place(s[i]) < Place(s[j])

Lock ==
    /\ phase = "locking"
    /\ \/ /\ locks' = Append(locks, ToLock[Len(locks) + 1])
          /\ phase' = IF Len(locks') = Len(ToLock) THEN "reading" ELSE "locking"
          /\ UNCHANGED outcome
       \/ Ends("timed out") /\ UNCHANGED locks
    /\ UNCHANGED <<statement, catalog, temps>> /\ UNCHANGED Running

-----------------------------------------------------------------------------
(* Reading the candidates of a table.                                         *)
Lowest == 0
Highest == 9   \* the ends of the domain of a column, native_range_bounds

(* range_values: the closed range of a condition.                             *)
ClosedRange(where) ==
    CASE where.kind = "between" -> <<where.lower.value, where.upper.value>>
      [] where.operator \in {"<", "<="} -> <<Lowest, where.literal.value>>
      [] where.operator \in {">", ">="} -> <<where.literal.value, Highest>>

(* The rows in the order of a key.                                            *)
SortedBy(numbers, key) ==
    SortSeq(SetToSortSeq(numbers, <), LAMBDA r, s : key[r] < key[s] \/ (key[r] = key[s] /\ r < s))

FirstOf(sequence, limit) == SubSeq(sequence, 1, Min({limit, Len(sequence)}))

(* What the table or the index returns for the condition, row numbers in some *)
(* order. A route is asked about its own column, whatever the condition's.    *)
Candidates(access, table, where) ==
    LET numbers == DOMAIN table.rows
        column == IF access.index # <<>> THEN access.index[1].column ELSE table.key
        V(r) == table.rows[r][column]
        InOrder(set) == SetToSortSeq(set, <)
        range == ClosedRange(where[1])
        Near(center) == [r \in numbers |-> Distance(V(r), center)]
    IN CASE access.route = "SCAN" -> InOrder(numbers)
         [] access.route \in {"TABLE_SEARCH", "INDEX_SEARCH"} ->
              InOrder({r \in numbers : V(r) = where[1].literal.value})
         [] access.route \in {"TABLE_RANGE", "INDEX_RANGE"} ->
              InOrder({r \in numbers : range[1] <= V(r) /\ V(r) <= range[2]})
         [] access.route = "RTREE_RADIUS" ->
              InOrder({r \in numbers : Distance(V(r), where[1].center) <= where[1].radius})
         [] access.route = "RTREE_POLYGON" -> InOrder({r \in numbers : ContainsPoint(where[1].vertices, V(r))})
         [] access.route = "RTREE_KNN" ->
              FirstOf(SortedBy(numbers, Near(bound.order[1].center)), access.nearest[1])
         [] access.route = "TEXT_SEARCH" ->
              LET found == {r \in numbers : Matched(V(r))}
                  ranked == SortedBy(found, [r \in found |-> -Relevance(V(r))])
              IN IF access.text_limit = <<>> THEN ranked ELSE FirstOf(ranked, access.text_limit[1])

(* execute_vector_candidates: the nearest of the rows the index visits, all of*)
(* them without one.                                                          *)
Neighbours(table, where, visited) ==
    SortedBy(visited, [r \in visited |-> Distance(table.rows[r][where.index], where.center)])

(* Variant: the residual condition is asked of the whole FROM's position.     *)
MatchesUnshifted(row, where, offset) ==
    where.index \in DOMAIN row /\ Holds(where, row[where.index])

(* matches, with the position in the table (_local_condition).                *)
Matches(row, where, offset) == Holds(where, row[where.index - offset])

KeepMatching(access, table, offset, numbers) ==
    IF access.residual
    THEN SelectSeq(numbers, LAMBDA r : Matches(table.rows[r], bound.where[1], offset))
    ELSE numbers

(* equality_key on a hash, and native_range_bounds on a VECTOR.               *)
TooLongToHash(literal, table, index) ==
    /\ index.structure = "HASH" /\ table.columns[index.column].type = "VARCHAR"
    /\ literal.size > table.columns[index.column].length

ReadFails(access, table) ==
    IF access.route = "INDEX_SEARCH" /\ TooLongToHash(bound.where[1].literal, table, access.index[1]) THEN "failed"
    ELSE IF access.route = "TABLE_RANGE" /\ table.columns[table.key].type = "VECTOR"
            /\ bound.where[1].kind = "comparison" THEN "raised"
    ELSE ""

WantsScores == statement.verb = "SELECT" /\ (bound.score # <<>> \/ bound.score_order # <<>>)

ScoresOf(access, table, numbers) ==
    LET where == bound.where[1]
        V(r) == table.rows[r][access.index[1].column]
        D(r) == Distance(table.rows[r][where.index], where.center)
    IN IF ~WantsScores THEN <<>>
       ELSE IF access.route = "TEXT_SEARCH" THEN [i \in DOMAIN numbers |-> Relevance(V(numbers[i]))]
       ELSE [i \in DOMAIN numbers |-> Similarity(where.metric, D(numbers[i]))]

(* The stages left after one: a group by, a sort, the order of the scores.    *)
Stages == <<"grouping", "sorting", "scoring", "projecting">>

Needed(stage) ==
    CASE stage = "grouping" -> plan.grouped
      [] stage = "sorting" -> plan.external_sort
      [] stage = "scoring" -> bound.score_order # <<>>
      [] stage = "projecting" -> TRUE

StageAfter(done) ==
    Stages[Min({i \in DOMAIN Stages : i > done /\ Needed(Stages[i])})]

AfterRead ==
    IF plan.join # <<>> THEN "joining" ELSE IF statement.verb = "DELETE" THEN "answering" ELSE StageAfter(0)

(* The steps that _read_candidates, execute_source and _candidate_pipeline    *)
(* measure.                                                                   *)
MeasuredRead(access, table) ==
    LET read == IF access.route = "VECTOR_SCAN"
                THEN <<Step("FETCH", table.structure), Step("KNN_SEARCH", table.structure)>>
                ELSE IF access.index # <<>>
                THEN <<Step("FETCH", table.structure), Step(Operation[access.route], access.index[1].structure)>>
                ELSE <<Step([SCAN |-> "SCAN", TABLE_SEARCH |-> "SEARCH", TABLE_RANGE |-> "RANGE_SEARCH"][access.route],
                            table.structure)>>
    IN When(access.residual, InMemory("FILTER")) \o read

(* execute_source on a leaf: _read_candidates and the residual filter.        *)
ReadLeaf ==
    LET leaf == Len(leaves) + 1
        access == plan.leaves[leaf]
        table == Schemas[leaf]
    IN /\ phase = "reading"
       /\ IF ReadFails(access, table) # "" THEN Ends(ReadFails(access, table)) /\ UNCHANGED <<leaves, stream, scores, steps>>
          ELSE \E visited \in IF access.route = "VECTOR_KNN" THEN SUBSET DOMAIN table.rows
                              ELSE {DOMAIN table.rows} :
               LET found == IF access.route \in {"VECTOR_KNN", "VECTOR_SCAN"}
                            THEN FirstOf(Neighbours(table, bound.where[1], visited), bound.where[1].k)
                            ELSE Candidates(access, table, IF leaf \in Owners(bound, Schemas) THEN bound.where ELSE <<>>)
                   kept == KeepMatching(access, table, Offset(Schemas, leaf), found)
               IN /\ leaves' = Append(leaves, kept)
                  /\ stream' = IF plan.join # <<>> THEN <<>> ELSE [i \in DOMAIN kept |-> {<<kept[i]>>}]
                  /\ scores' = ScoresOf(access, table, kept)
                  /\ steps' = steps \o MeasuredRead(access, table)
                  /\ phase' = IF leaf < Len(plan.leaves) THEN "reading" ELSE AfterRead
                  /\ UNCHANGED outcome
       /\ UNCHANGED <<statement, catalog, bound, plan, locks, temps, join, rows>>

-----------------------------------------------------------------------------
(* _execute_join: a directory for the partitions, the join, and whatever      *)
(* happens the directory goes. AUTO takes the probe when it reads fewer pages,*)
(* which the sizes of the tables decide, and never for an empty left table.   *)
OpenJoin ==
    /\ phase = "joining" /\ temps = {}
    /\ temps' = {"directory"}
    /\ \E used \in {"HASH", "INDEX_NESTED"} :
          /\ used = "INDEX_NESTED" => plan.join[1].strategy = "AUTO" /\ Schemas[1].rows # <<>>
          /\ join' = [NoJoin EXCEPT !.used = used]
    /\ UNCHANGED <<statement, catalog, phase, bound, plan, locks, leaves, stream, scores, rows, steps, outcome>>

JoinColumn(side) == Schemas[side].columns[bound.on[side]]
JoinValue(side, r) == Schemas[side].rows[r][bound.on[side]]

(* ExtendibleHash::hash_of: of the bytes of the column, which pad a text to   *)
(* the length of its column.                                                  *)
HashOf(value, column) == IF column.type = "VARCHAR" THEN value + column.length ELSE value

(* ExternalJoin::particionar: the files of one side.                          *)
Partition ==
    /\ phase = "joining" /\ join.used = "HASH" /\ ~{"left", "right"} \subseteq temps
    /\ temps' = temps \cup {IF "left" \in temps THEN "right" ELSE "left"}
    /\ UNCHANGED <<statement, catalog, phase, bound, plan, locks, leaves, join, stream, scores, rows, steps,
                   outcome>>

Part(side, p) ==
    SelectSeq(leaves[side], LAMBDA r : HashOf(JoinValue(side, r), JoinColumn(side)) % Partitions = p)

(* Variant: the left partition is read once, for the first block.             *)
LeftOnce(p, block) == IF block = 0 THEN Part(1, p) ELSE <<>>

(* A block of the right partition is met by the whole left one.               *)
LeftOf(p, block) == Part(1, p)

PairsOf(left, right) ==
    FlattenSeq([i \in DOMAIN left |->
        LET same == SelectSeq(right, LAMBDA r : JoinValue(2, r) = JoinValue(1, left[i]))
        IN [j \in DOMAIN same |-> {<<left[i], same[j]>>}]])

(* SalidaHash::avanzar and next: a block, then the next block or partition.   *)
JoinBlock ==
    LET right == Part(2, join.partition)
        from == join.block * Block
        block == SubSeq(right, from + 1, Min({from + Block, Len(right)}))
        more == from + Block < Len(right)
    IN /\ phase = "joining" /\ {"left", "right"} \subseteq temps /\ join.partition < Partitions
       /\ stream' = stream \o PairsOf(LeftOf(join.partition, join.block), block)
       /\ join' = IF more THEN [join EXCEPT !.block = @ + 1]
                  ELSE [join EXCEPT !.block = 0, !.partition = @ + 1]
       /\ UNCHANGED <<statement, catalog, phase, bound, plan, locks, temps, leaves, scores, rows, steps, outcome>>

(* SalidaIndexNested::next: the right table is searched for each left row.    *)
Probe ==
    LET right == Schemas[2]
        index == plan.join[1].probe[1]
        key == JoinValue(1, leaves[1][join.block + 1])
        literal == [types |-> {}, size |-> key, value |-> key]
        same == SetToSortSeq({r \in DOMAIN right.rows : right.rows[r][index.column] = key}, <)
    IN /\ phase = "joining" /\ join.used = "INDEX_NESTED" /\ join.block < Len(leaves[1])
       /\ IF TooLongToHash(literal, right, index) THEN Ends("failed") /\ UNCHANGED <<stream, join>>
          ELSE /\ stream' = stream \o [j \in DOMAIN same |-> {<<leaves[1][join.block + 1], same[j]>>}]
               /\ join' = [join EXCEPT !.block = @ + 1]
               /\ UNCHANGED <<phase, outcome>>
       /\ UNCHANGED <<statement, catalog, bound, plan, locks, temps, leaves, scores, rows, steps>>

CloseJoin ==
    /\ phase = "joining" /\ temps # {}
    /\ \/ join.used = "HASH" /\ join.partition = Partitions
       \/ join.used = "INDEX_NESTED" /\ join.block = Len(leaves[1])
    /\ temps' = {}
    /\ steps' = <<Step("JOIN", IF join.used = "HASH" THEN "EXTERNAL_HASH" ELSE plan.join[1].probe[1].structure)>>
                \o steps
    /\ phase' = StageAfter(0)
    /\ UNCHANGED <<statement, catalog, bound, plan, locks, leaves, join, stream, scores, rows, outcome>>

-----------------------------------------------------------------------------
(* _execute_grouped: the hash gives the groups in any order, the sort it falls*)
(* back to in the order of the key, which an ascending ORDER BY then reuses.  *)
GroupKey(result) == Cell(Representative(result), bound.group[1])

(* Variant: the order of the group by is reused whatever gave it.             *)
ReusesAny(used) == bound.order # <<>> /\ bound.order[1].kind = "column" /\ bound.order[1].direction = "ASC"

ReusesOrder(used) ==
    used = "SORT" /\ bound.order # <<>> /\ bound.order[1].kind = "column" /\ bound.order[1].direction = "ASC"

Group ==
    /\ phase = "grouping"
    /\ LET all == UNION Range(stream)
           groups == {{r \in all : GroupKey({r}) = GroupKey({record})} : record \in all}
           Orders(used) == {s \in [1 .. Cardinality(groups) -> groups] :
                                /\ IsInjective(s)
                                /\ used = "SORT" => \A i, j \in DOMAIN s : i < j => GroupKey(s[i]) < GroupKey(s[j])}
       IN \E used \in {"HASH", "SORT"} : \E sequence \in Orders(used) :
             /\ stream' = sequence
             /\ steps' = <<Step("GROUP", IF used = "HASH" THEN "EXTERNAL_HASH" ELSE "EXTERNAL_SORT")>> \o steps
             /\ phase' = IF ReusesOrder(used) THEN "projecting" ELSE StageAfter(1)
    /\ temps' = temps \cup {"groups"}
    /\ UNCHANGED <<statement, catalog, bound, plan, locks, leaves, join, scores, rows, outcome>>

(* _sort_order and _sort: by the column, the key of the groups or a distance  *)
(* that is computed, added to the record and taken off again.                 *)
SortKey(result) ==
    LET order == bound.order[1]
        value == Cell(Representative(result), order.index)
    IN IF order.kind = "distance" THEN Distance(value, order.center) ELSE value

SortOrder ==
    /\ phase = "sorting"
    /\ stream' = LET key == [i \in DOMAIN stream |-> SortKey(stream[i])]
                     sign == IF bound.order[1].direction = "ASC" THEN 1 ELSE -1
                     sorted == SortedBy(DOMAIN stream, [i \in DOMAIN stream |-> sign * key[i]])
                 IN [i \in DOMAIN stream |-> stream[sorted[i]]]
    /\ steps' = <<Step("SORT", "EXTERNAL_SORT")>> \o steps
    /\ phase' = "projecting"
    /\ UNCHANGED <<statement, catalog, bound, plan, locks, temps, leaves, join, scores, rows, outcome>>

(* Variant: a descending order is what an index gives.                        *)
KeepsDescending == bound.score_order = <<"DESC">>

(* score_order_preserves_ranking: the nearest come first, and by their        *)
(* EUCLIDEAN score the nearest is the least.                                  *)
KeepsRanking ==
    (bound.score_order = <<"ASC">>) = (bound.where[1].kind = "similar" /\ bound.where[1].metric = "EUCLIDEAN")

(* _order_by_score.                                                           *)
OrderByScore ==
    /\ phase = "scoring"
    /\ stream' = IF KeepsRanking THEN stream ELSE Reverse(stream)
    /\ scores' = IF KeepsRanking THEN scores ELSE Reverse(scores)
    /\ steps' = <<InMemory("SORT")>> \o steps
    /\ phase' = "projecting"
    /\ UNCHANGED <<statement, catalog, bound, plan, locks, temps, leaves, join, rows, outcome>>

-----------------------------------------------------------------------------
(* The columns of a group: its key and then the aggregates, in the order of   *)
(* the projections (aggregate_specs and output_indexes).                      *)
AggregateItems == SelectSeq(bound.items, LAMBDA item : item.kind = "aggregate")

GroupedRow(result) ==
    <<GroupKey(result)>> \o
    [a \in DOMAIN AggregateItems |->
        LET item == AggregateItems[a]
        IN AggregateOf(item.function,
                       IF item.index = 0 THEN <<>> ELSE [record \in result |-> Cell(record, item.index)], result)]

OutputIndex(i) ==
    IF bound.items[i].kind = "column" THEN 1
    ELSE 1 + Cardinality({j \in 1 .. i : bound.items[j].kind = "aggregate"})

RecordOf(result) ==
    LET record == Representative(result)
        whole == [i \in 1 .. Width |-> Cell(record, i)]
    IN IF plan.grouped THEN [i \in DOMAIN bound.items |-> GroupedRow(result)[OutputIndex(i)]]
       ELSE IF bound.wildcard THEN whole
       ELSE [i \in DOMAIN bound.items |-> whole[bound.items[i].index]]

WithScore(row, score) == SubSeq(row, 1, bound.score[1]) \o <<score>> \o SubSeq(row, bound.score[1] + 1, Len(row))

ProjectsStep == plan.grouped \/ ~bound.wildcard \/ bound.score # <<>>

(* execute_select, _execute_ordered and _execute_grouped: the projection. The *)
(* groups' files go with it.                                                  *)
Project ==
    /\ phase = "projecting"
    /\ rows' = [i \in DOMAIN stream |->
                   IF bound.score = <<>> THEN RecordOf(stream[i]) ELSE WithScore(RecordOf(stream[i]), scores[i])]
    /\ steps' = When(ProjectsStep, InMemory("PROJECT")) \o steps
    /\ temps' = {}
    /\ phase' = "answering"
    /\ UNCHANGED <<statement, catalog, bound, plan, locks, leaves, join, stream, scores, outcome>>

Limited == statement.verb = "SELECT" /\ bound.limit # <<>> /\ plan.leaves[1].nearest = <<>>

(* apply_limit, and the answer.                                               *)
Answer ==
    /\ phase = "answering"
    /\ stream' = IF Limited THEN FirstOf(stream, bound.limit[1]) ELSE stream
    /\ rows' = IF Limited THEN FirstOf(rows, bound.limit[1]) ELSE rows
    /\ steps' = When(Limited, InMemory("LIMIT")) \o steps
    /\ Ends("answered")
    /\ UNCHANGED <<statement, catalog, bound, plan, locks, temps, leaves, join, scores>>

-----------------------------------------------------------------------------
(* A page of a table, an index or a temporary file cannot be read or written. *)
Fault ==
    /\ phase \in {"reading", "joining", "grouping", "sorting"} /\ outcome = ""
    /\ Ends("faulted")
    /\ leaves' = <<>> /\ join' = NoJoin /\ stream' = <<>> /\ scores' = <<>> /\ rows' = <<>> /\ steps' = <<>>
    /\ bound' = <<>> /\ plan' = <<>>
    /\ UNCHANGED <<statement, catalog, locks, temps>>

(* The `finally` of the join and the destructors of the core, then the one of *)
(* _select: the locks that were taken, in reverse.                            *)
GiveBack ==
    /\ phase = "releasing"
    /\ IF temps # {} THEN temps' = {} /\ UNCHANGED <<locks, phase>>
       ELSE IF locks # <<>> THEN locks' = Front(locks) /\ UNCHANGED <<temps, phase>>
       ELSE phase' = "ended" /\ UNCHANGED <<temps, locks>>
    /\ UNCHANGED <<statement, catalog, outcome>> /\ UNCHANGED Running

QueryNext ==
    \/ Define \/ Bind \/ Optimize \/ Lock \/ ReadLeaf
    \/ OpenJoin \/ Partition \/ JoinBlock \/ Probe \/ CloseJoin
    \/ Group \/ SortOrder \/ OrderByScore \/ Project \/ Answer \/ Fault \/ GiveBack

QuerySpec == QueryInit /\ [][QueryNext]_queryVars

-----------------------------------------------------------------------------
(* The answer is one that the statement asks for: the rows of the records that*)
(* its names and values select, in its order, cut at its limit; and a DELETE  *)
(* takes the records of its condition. Whatever the route, the join, the group*)
(* by and the sort were.                                                      *)
AnswersWhatWasAsked ==
    outcome = "answered" /\ phase = "releasing" =>
        IF statement.verb = "DELETE" THEN Range(stream) = {{record} : record \in Asked(statement, catalog)}
        ELSE IsAnswer(statement, catalog, stream, rows, plan.leaves[1].route # "VECTOR_KNN")

(* EXPLAIN announces the steps that are measured when the query runs, but for *)
(* what only the run decides: how a join or a group by was done at last, and  *)
(* whether the group by had sorted already.                                   *)
Announced(sequence) ==
    LET Kept(step) == ~(plan.grouped /\ step = Step("SORT", "EXTERNAL_SORT"))
        Op(step) == IF step[1] \in {"JOIN", "GROUP"} THEN Step(step[1], "") ELSE step
        kept == SelectSeq(sequence, Kept)
    IN [i \in DOMAIN kept |-> Op(kept[i])]

ExplainShowsWhatRuns ==
    outcome = "answered" /\ phase = "releasing" /\ statement.verb = "SELECT" =>
        Announced(steps) = Announced(ExplainSelect(plan, bound, Schemas))

(* Three things are accepted and cannot be run. A comparison other than =     *)
(* with the key of a table that is a VECTOR, which has no range, unless a     *)
(* DELETE scans the table for its RIDs;                                       *)
RangesVectorKey ==
    \E t \in DOMAIN Schemas : \E where \in Range(bound.where) :
        /\ where.kind = "comparison" /\ where.operator # "="
        /\ where.index = Offset(Schemas, t) + Schemas[t].key
        /\ Schemas[t].columns[Schemas[t].key].type = "VECTOR"
        /\ statement.verb = "DELETE" => Schemas[t].indexes = {}

(* the probe of a hash with a text of the left table that the right column    *)
(* could not hold;                                                            *)
ProbesLongText ==
    /\ statement.verb = "SELECT" /\ join.used = "INDEX_NESTED" /\ JoinColumn(2).type = "VARCHAR"
    /\ \E index \in Schemas[2].indexes : index.structure = "HASH" /\ index.column = bound.on[2]
    /\ \E r \in DOMAIN Schemas[1].rows : JoinValue(1, r) > JoinColumn(2).length

(* and the index of a table that keeps no RIDs.                               *)
IndexesOrdered == statement.verb = "CREATE INDEX" /\ catalog[statement.table].structure # "HEAP"


(* The tables are read under their locks, which are always taken in one order,*)
(* so that two queries cannot wait for each other; and at the end, however it *)
(* came, no lock and no temporary file is left.                               *)
HoldsWhatItReads ==
    /\ phase \in {"reading", "joining", "grouping", "sorting", "scoring", "projecting", "answering"} =>
          Range(locks) = Range(statement.from)
    /\ \A i, j \in DOMAIN locks : i < j =>
          \E m, n \in DOMAIN TableOrder : m < n /\ TableOrder[m] = locks[i] /\ TableOrder[n] = locks[j]
    /\ phase = "ended" => locks = <<>> /\ temps = {}

=============================================================================
