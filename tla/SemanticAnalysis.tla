-------------------------- MODULE SemanticAnalysis --------------------------
(* engine/parser/semantic.py: which statements the binder accepts against a   *)
(* catalog, and the statement it makes of them, every name turned into a      *)
(* position. A rule is a conjunct; which one fails first, and the message and *)
(* the span it carries, are left out.                                         *)
(*                                                                            *)
(* A column is [name, type, length], the length of a type without one being   *)
(* 0. A literal is [types, size, value]: the column types it converts to (an  *)
(* integer beyond 32 bits only to DOUBLE, an infinite one to none), the bytes *)
(* of a text or the components of a vector, and its place in the order of its *)
(* type. A reference is [table, name], with table "" when it is not           *)
(* qualified. An optional clause is a sequence of at most one.                *)
EXTENDS Integers, Sequences, SequencesExt, FiniteSets, FiniteSetsExt, TLC

Numbered == {"VARCHAR", "VECTOR"}   \* the types with a number in parentheses

(* BoundColumn.byte_size and BoundSchema.record_size.                         *)
ByteSize(column) ==
    CASE column.type = "VARCHAR" -> column.length
      [] column.type = "VECTOR" -> 4 * column.length
      [] column.type \in {"INT", "DATE"} -> 4
      [] column.type = "DOUBLE" -> 8
      [] column.type = "BOOL" -> 1
      [] column.type = "POINT" -> 16

RecordSize(columns) == SumFunction([i \in DOMAIN columns |-> ByteSize(columns[i])])

-----------------------------------------------------------------------------
(* CREATE TABLE, CREATE INDEX, INSERT and DROP TABLE.                         *)
PageSize == 4096
PageHeader == 8
SlotState == 1
BodyHeader == 4   \* of a sequential page, which holds at least two slots
TooLong == "longer than 64"   \* stands for every identifier that is refused

(* Variant: the state of a slot is forgotten.                                 *)
MaxRecordStateless(storage) ==
    IF storage = "HEAP" THEN PageSize - PageHeader ELSE (PageSize - PageHeader - BodyHeader) \div 2

MaxRecord(storage) ==
    IF storage = "HEAP" THEN PageSize - PageHeader - SlotState
    ELSE (PageSize - PageHeader - BodyHeader) \div 2 - SlotState

Distinct(names) == IsInjective(names)

(* bind_create_table: the columns are [name, type, length, key].              *)
BindsTable(statement) ==
    LET columns == statement.columns
        names == [i \in DOMAIN columns |-> columns[i].name]
    IN /\ statement.table # TooLong
       /\ columns # <<>> /\ Distinct(names) /\ TooLong \notin Range(names)
       /\ \A column \in Range(columns) : column.type \in Numbered <=> column.length > 0
       /\ Cardinality({i \in DOMAIN columns : columns[i].key}) = 1
       /\ RecordSize(columns) <= MaxRecord(statement.storage)

BoundTable(statement) ==
    [name |-> statement.table, columns |-> statement.columns, structure |-> statement.storage,
     key |-> CHOOSE i \in DOMAIN statement.columns : statement.columns[i].key]

VectorKinds == {"IVF", "HNSW"}

(* bind_create_index, on a column that exists.                                *)
BindsIndex(statement, schema) ==
    /\ statement.index # TooLong
    /\ \E column \in Range(schema.columns) :
          /\ column.name = statement.column
          /\ statement.kind = "RTREE" <=> column.type = "POINT"
          /\ statement.kind \in VectorKinds <=> column.type = "VECTOR"
          /\ statement.kind = "INVERTED_INDEX" => column.type = "VARCHAR"

(* _bind_value and the binders of each type.                                  *)
ConvertsTo(literal, column) ==
    /\ column.type \in literal.types
    /\ column.type = "VARCHAR" => literal.size <= column.length
    /\ column.type = "VECTOR" => literal.size = column.length

(* _bind_predicate_value: a text that the column could not hold is still a    *)
(* key to compare with.                                                       *)
ComparesWith(literal, column) ==
    IF column.type = "VARCHAR" THEN "VARCHAR" \in literal.types ELSE ConvertsTo(literal, column)

BindsInsert(values, schema) ==
    /\ Len(values) = Len(schema.columns)
    /\ \A i \in DOMAIN values : ConvertsTo(values[i], schema.columns[i])

-----------------------------------------------------------------------------
(* Names. _visible_columns and join_output_schema: the columns of the FROM,   *)
(* the left table's first.                                                    *)
Visible(schemas) ==
    FlattenSeq([t \in DOMAIN schemas |->
                   [c \in DOMAIN schemas[t].columns |->
                       [table |-> schemas[t].name, column |-> schemas[t].columns[c]]]])

Positions(reference, visible) ==
    {i \in DOMAIN visible : /\ visible[i].column.name = reference.name
                            /\ reference.table \in {"", visible[i].table}}

(* _resolve_column and _lookup: exactly one column has the name.              *)
Resolves(reference, visible) == Cardinality(Positions(reference, visible)) = 1

Position(reference, visible) == CHOOSE i \in Positions(reference, visible) : TRUE

TypeOf(reference, visible) == visible[Position(reference, visible)].column.type

IsOf(reference, visible, types) == Resolves(reference, visible) /\ TypeOf(reference, visible) \in types

SchemasOf(statement, catalog) == [i \in DOMAIN statement.from |-> catalog[statement.from[i]]]

(* _bind_source: an ON names one column of each side, in either order. The    *)
(* result is a pair of positions, each in its own side.                       *)
JoinColumns(statement, catalog) ==
    LET left == Visible(<<catalog[statement.from[1]]>>)
        right == Visible(<<catalog[statement.from[2]]>>)
        paired(l, r) == Positions(l, left) \X Positions(r, right)
        direct == paired(statement.on[1], statement.on[2])
        crossed == paired(statement.on[2], statement.on[1])
    IN IF Cardinality(direct) = 1 THEN direct
       ELSE IF Cardinality(crossed) = 1 THEN crossed ELSE {}

BindsSource(statement, catalog) ==
    /\ Range(statement.from) \subseteq DOMAIN catalog
    /\ Len(statement.from) = 2 =>
          \E pair \in JoinColumns(statement, catalog) :
              catalog[statement.from[1]].columns[pair[1]].type
                  = catalog[statement.from[2]].columns[pair[2]].type

-----------------------------------------------------------------------------
(* _bind_condition. SIMILAR_TO without a column means the only VECTOR.        *)
SimilarColumn(where, visible) ==
    IF where.reference # <<>> THEN Positions(where.reference[1], visible)
    ELSE {i \in DOMAIN visible : visible[i].column.type = "VECTOR"}

BindsCondition(where, visible) ==
    LET column == visible[Position(where.reference, visible)].column
        Of(type) == IsOf(where.reference, visible, {type})
    IN CASE where.kind = "similar" ->
              /\ where.path /\ where.k >= 0
              /\ \E i \in DOMAIN visible : SimilarColumn(where, visible) = {i} /\ visible[i].column.type = "VECTOR"
         [] where.kind = "match" -> Of("VARCHAR")
         [] where.kind = "polygon" -> Of("POINT") /\ Cardinality(Range(where.vertices)) >= 3
         [] where.kind = "distance" -> Of("POINT") /\ where.radius >= 0
         [] where.kind = "between" ->
              /\ Resolves(where.reference, visible)
              /\ ComparesWith(where.lower, column) /\ ComparesWith(where.upper, column)
         [] where.kind = "comparison" ->
              Resolves(where.reference, visible) /\ ComparesWith(where.literal, column)

BoundCondition(where, visible) ==
    where @@ [index |-> IF where.kind = "similar" THEN CHOOSE i \in SimilarColumn(where, visible) : TRUE
                        ELSE Position(where.reference, visible)]

-----------------------------------------------------------------------------
(* bind_select. Of the projections, SCORE() is not a column and is set apart. *)
Items(statement, kind) == {i \in DOMAIN statement.items : statement.items[i].kind = kind}

IsScore(item) == item.kind = "score"

ScoreItem(statement) == SelectSeq(statement.items, IsScore)

TableItems(statement) == SelectSeq(statement.items, LAMBDA item : ~IsScore(item))

(* _bind_projection.                                                          *)
BindsItem(item, visible) ==
    CASE item.kind = "column" -> Resolves(item.reference, visible)
      [] item.function = "COUNT" -> item.reference = <<>>
      [] item.function \in {"SUM", "AVG"} -> item.reference # <<>> /\ IsOf(item.reference[1], visible, {"INT", "DOUBLE"})
      [] OTHER -> item.reference # <<>> /\ Resolves(item.reference[1], visible)

BindsItems(statement, visible) ==
    /\ statement.items # <<>>
    /\ Cardinality(Items(statement, "score")) <= 1
    /\ IF Items(statement, "star") # {} THEN Len(TableItems(statement)) = 1 /\ statement.group = <<>>
       ELSE \A item \in Range(TableItems(statement)) : BindsItem(item, visible)

(* A query without GROUP BY has no aggregate; one with it has, and projects   *)
(* and orders by no column but its own.                                       *)
GroupColumn(statement, visible) == Position(statement.group[1], visible)

BindsGroup(statement, visible) ==
    IF statement.group = <<>> THEN Items(statement, "aggregate") = {}
    ELSE /\ Resolves(statement.group[1], visible)
         /\ Items(statement, "aggregate") # {}
         /\ \A i \in Items(statement, "column") :
               Position(statement.items[i].reference, visible) = GroupColumn(statement, visible)

(* ORDER BY SCORE(), or by its alias, which wins over a column of that name.  *)
OrdersByScore(statement) ==
    \E order \in Range(statement.order) :
        \/ order.kind = "score"
        \/ /\ order.kind = "column" /\ order.reference.table = ""
           /\ \E item \in Range(ScoreItem(statement)) : order.reference.name = item.alias

BindsOrder(statement, visible) ==
    \A order \in Range(statement.order) :
        OrdersByScore(statement) \/
        /\ Resolves(order.reference, visible)
        /\ statement.group # <<>> => Position(order.reference, visible) = GroupColumn(statement, visible)
        /\ order.kind = "distance" => TypeOf(order.reference, visible) = "POINT"

(* What the puntaje is of: MATCH or SIMILAR_TO.                               *)
ScoreKinds(statement) ==
    {item.of : item \in Range(ScoreItem(statement))}
        \cup {order.of : order \in {o \in Range(statement.order) : o.kind = "score"}}

(* _validate_score.                                                           *)
BindsScore(statement) ==
    (ScoreKinds(statement) # {}) =>
        /\ \E where \in Range(statement.where) :
              ScoreKinds(statement) = {IF where.kind = "match" THEN "SCORE"
                                       ELSE IF where.kind = "similar" THEN "SIMILARITY_SCORE" ELSE "none"}
        /\ statement.group = <<>>
        /\ statement.order # <<>> => OrdersByScore(statement)

BindsSearch(statement) ==   \* MATCH and SIMILAR_TO are of one table
    \A where \in Range(statement.where) :
        /\ where.kind = "similar" => Len(statement.from) = 1 /\ statement.group = <<>>
        /\ where.kind = "match" => Len(statement.from) = 1

BindsSelect(statement, catalog) ==
    /\ BindsSource(statement, catalog)
    /\ LET visible == Visible(SchemasOf(statement, catalog))
       IN /\ BindsItems(statement, visible) /\ BindsGroup(statement, visible)
          /\ BindsOrder(statement, visible)
          /\ \A where \in Range(statement.where) : BindsCondition(where, visible)
    /\ BindsSearch(statement) /\ BindsScore(statement)
    /\ \A limit \in Range(statement.limit) : limit >= 0

BoundItem(item, visible) ==
    item @@ [index |-> IF item.kind = "aggregate" /\ item.reference = <<>> THEN 0
                       ELSE Position(IF item.kind = "column" THEN item.reference ELSE item.reference[1], visible)]

(* Where the score goes: after the columns of what was written before it.     *)
ScorePosition(statement, visible) ==
    LET before == (CHOOSE i \in Items(statement, "score") : TRUE) - 1
    IN IF \E i \in Items(statement, "star") : i <= before THEN before - 1 + Len(visible) ELSE before

BoundSelect(statement, catalog) ==
    LET schemas == SchemasOf(statement, catalog)
        visible == Visible(schemas)
        byScore == OrdersByScore(statement)
        column(reference) == Position(reference, visible)
    IN [verb |-> statement.verb,
        tables |-> statement.from,
        on |-> IF Len(statement.from) = 2 THEN CHOOSE pair \in JoinColumns(statement, catalog) : TRUE ELSE <<>>,
        wildcard |-> Items(statement, "star") # {},
        items |-> IF Items(statement, "star") # {}
                  THEN [i \in DOMAIN visible |-> [kind |-> "column", index |-> i]]
                  ELSE [i \in DOMAIN TableItems(statement) |-> BoundItem(TableItems(statement)[i], visible)],
        where |-> [i \in DOMAIN statement.where |-> BoundCondition(statement.where[i], visible)],
        group |-> [i \in DOMAIN statement.group |-> column(statement.group[i])],
        order |-> IF byScore THEN <<>>
                  ELSE [i \in DOMAIN statement.order |->
                           statement.order[i] @@ [index |-> column(statement.order[i].reference)]],
        limit |-> statement.limit,
        score |-> IF ScoreItem(statement) = <<>> THEN <<>> ELSE <<ScorePosition(statement, visible)>>,
        score_order |-> IF byScore THEN <<statement.order[1].direction>> ELSE <<>>]

(* bind_delete: the same condition, without a ranking.                        *)
BindsDelete(statement, catalog) ==
    /\ Range(statement.from) \subseteq DOMAIN catalog /\ Len(statement.where) = 1
    /\ statement.where[1].kind \notin {"similar", "match"}
    /\ BindsCondition(statement.where[1], Visible(SchemasOf(statement, catalog)))

Binds(statement, catalog) ==
    IF statement.verb = "DELETE" THEN BindsDelete(statement, catalog) ELSE BindsSelect(statement, catalog)
=============================================================================
