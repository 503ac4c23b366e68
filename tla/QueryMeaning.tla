---------------------------- MODULE QueryMeaning ----------------------------
(* What a SELECT or a DELETE asks for, read from the statement as it is       *)
(* written and from the rows of its tables, by the names of the columns: no   *)
(* positions, routes, indexes or order of evaluation.                         *)
(*                                                                            *)
(* A value is a number: a text is the number of its letters, a POINT lies on a*)
(* line and a VECTOR has one component. A row is a sequence of values, and a  *)
(* record of the FROM is the numbers of the rows it is made of.               *)
EXTENDS SemanticAnalysis

Distance(a, b) == IF a < b THEN b - a ELSE a - b

Compares(a, operator, b) ==
    \/ operator \in {"=", "<=", ">="} /\ a = b
    \/ operator \in {"<", "<="} /\ a < b
    \/ operator \in {">", ">="} /\ a > b

ContainsPoint(vertices, point) ==
    Min(Range(vertices)) <= point /\ point <= Max(Range(vertices))

(* What MATCH finds in a text and what it gives for it: the longer the better.*)
Matched(text) == text > 0
Relevance(text) == text

(* matches: the conditions that are evaluated in memory.                      *)
Holds(where, value) ==
    CASE where.kind = "comparison" -> Compares(value, where.operator, where.literal.value)
      [] where.kind = "between" -> where.lower.value <= value /\ value <= where.upper.value
      [] where.kind = "distance" -> Compares(Distance(value, where.center), where.operator, where.radius)
      [] where.kind = "polygon" -> ContainsPoint(where.vertices, value)

(* from_distance: the score of a neighbour. A distance is its own score; the  *)
(* other metrics give more to the nearer.                                     *)
Similarity(metric, distance) == IF metric = "EUCLIDEAN" THEN distance ELSE 9 - distance

AggregateOf(function, values, rows) ==   \* of a function from rows to values
    LET total == SumFunction(values)
        all == Range(values)
    IN CASE function = "COUNT" -> Cardinality(rows)
         [] function = "SUM" -> total
         [] function = "AVG" -> <<total, Cardinality(rows)>>
         [] function = "MIN" -> Min(all)
         [] function = "MAX" -> Max(all)

-----------------------------------------------------------------------------
(* The records of the FROM.                                                   *)
Tables(statement, catalog) == SchemasOf(statement, catalog)

ColumnNamed(table, name) == CHOOSE c \in DOMAIN table.columns : table.columns[c].name = name

Names(reference, table) ==
    /\ reference.table \in {"", table.name}
    /\ \E column \in Range(table.columns) : column.name = reference.name

Value(statement, catalog, record, reference) ==
    LET tables == Tables(statement, catalog)
        t == CHOOSE t \in DOMAIN tables : Names(reference, tables[t])
    IN tables[t].rows[record[t]][ColumnNamed(tables[t], reference.name)]

Joined(statement, catalog, record) ==
    LET tables == Tables(statement, catalog)
        direct == Names(statement.on[1], tables[1]) /\ Names(statement.on[2], tables[2])
        Side(t, reference) == tables[t].rows[record[t]][ColumnNamed(tables[t], reference.name)]
    IN IF direct THEN Side(1, statement.on[1]) = Side(2, statement.on[2])
       ELSE Side(1, statement.on[2]) = Side(2, statement.on[1])

From(statement, catalog) ==
    LET rows(t) == DOMAIN catalog[statement.from[t]].rows
    IN IF Len(statement.from) = 1 THEN {<<r>> : r \in rows(1)}
       ELSE {record \in rows(1) \X rows(2) : Joined(statement, catalog, record)}

(* The column of the condition, the only VECTOR when SIMILAR_TO names none.   *)
Subject(statement, catalog) ==
    LET where == statement.where[1]
    IN IF where.kind # "similar" THEN where.reference
       ELSE IF where.reference # <<>> THEN where.reference[1]
       ELSE [table |-> "", name |-> (CHOOSE column \in Range(catalog[statement.from[1]].columns) :
                                         column.type = "VECTOR").name]

Searches(statement, kind) == \E where \in Range(statement.where) : where.kind = kind

(* The records that the WHERE keeps; SIMILAR_TO, the k nearest.               *)
Asked(statement, catalog) ==
    LET records == From(statement, catalog)
        where == statement.where[1]
        V(record) == Value(statement, catalog, record, Subject(statement, catalog))
        D(record) == Distance(V(record), where.center)
    IN CASE statement.where = <<>> -> records
         [] Searches(statement, "match") -> {record \in records : Matched(V(record))}
         [] Searches(statement, "similar") ->
              {record \in records : Cardinality({r \in records : D(r) < D(record)}) < where.k}
         [] OTHER -> {record \in records : Holds(where, V(record))}

Puntaje(statement, catalog, record) ==
    LET where == statement.where[1]
        value == Value(statement, catalog, record, Subject(statement, catalog))
    IN IF where.kind = "match" THEN Relevance(value)
       ELSE Similarity(where.metric, Distance(value, where.center))

-----------------------------------------------------------------------------
(* The order: by the ORDER BY; without one, the best match first. A DESC or a *)
(* relevance turns the key around. The whole query has no order otherwise.    *)
Key(statement, catalog, record) ==
    LET order == statement.order[1]
        value == Value(statement, catalog, record, order.reference)
        key == IF OrdersByScore(statement) THEN Puntaje(statement, catalog, record)
               ELSE IF order.kind = "distance" THEN Distance(value, order.center)
               ELSE value
    IN IF statement.order # <<>> THEN (IF order.direction = "ASC" THEN key ELSE -key)
       ELSE IF statement.group # <<>> THEN 0
       ELSE IF Searches(statement, "match") THEN -Puntaje(statement, catalog, record)
       ELSE IF Searches(statement, "similar")
            THEN Distance(Value(statement, catalog, record, Subject(statement, catalog)),
                          statement.where[1].center)
       ELSE 0

(* A sequence of results is the first `limit` of all in some order the query  *)
(* leaves open.                                                               *)
TakesFirst(sequence, all, limit, key) ==
    /\ IsInjective(sequence) /\ Range(sequence) \subseteq all
    /\ Len(sequence) = IF limit = <<>> THEN Cardinality(all) ELSE Min({limit[1], Cardinality(all)})
    /\ \A i, j \in DOMAIN sequence : i < j => key[sequence[i]] <= key[sequence[j]]
    /\ \A rest \in all \ Range(sequence) : \A i \in DOMAIN sequence : key[sequence[i]] <= key[rest]

(* The classes of GROUP BY.                                                   *)
Groups(statement, catalog) ==
    LET asked == Asked(statement, catalog)
        V(record) == Value(statement, catalog, record, statement.group[1])
    IN {{r \in asked : V(r) = V(record)} : record \in asked}

Results(statement, catalog) ==
    IF statement.group # <<>> THEN Groups(statement, catalog)
    ELSE {{record} : record \in Asked(statement, catalog)}

Representative(result) == CHOOSE record \in result : TRUE

(* The values of a result, item by item.                                      *)
ItemValues(statement, catalog, result, item) ==
    LET record == Representative(result)
        tables == Tables(statement, catalog)
    IN CASE item.kind = "star" -> FlattenSeq([t \in DOMAIN tables |-> tables[t].rows[record[t]]])
         [] item.kind = "column" -> <<Value(statement, catalog, record, item.reference)>>
         [] item.kind = "score" -> <<Puntaje(statement, catalog, record)>>
         [] item.kind = "aggregate" ->
              <<AggregateOf(item.function,
                            IF item.reference = <<>> THEN <<>>
                            ELSE [r \in result |-> Value(statement, catalog, r, item.reference[1])],
                            result)>>

RowOf(statement, catalog, result) ==
    FlattenSeq([i \in DOMAIN statement.items |-> ItemValues(statement, catalog, result, statement.items[i])])

(* The answer of a SELECT: the results it stands for and the row of each.     *)
(* `exact` is FALSE when an approximate index chose among the records.        *)
IsAnswer(statement, catalog, results, rows, exact) ==
    LET all == IF exact THEN Results(statement, catalog) ELSE Range(results)
        key == [result \in all |-> Key(statement, catalog, Representative(result))]
    IN /\ TakesFirst(results, all, statement.limit, key)
       /\ ~exact => \A result \in Range(results) : result \subseteq From(statement, catalog)
       /\ rows = [i \in DOMAIN results |-> RowOf(statement, catalog, results[i])]
=============================================================================
