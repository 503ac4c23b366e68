----------------------------- MODULE AccessPlan -----------------------------
(* engine/planner/optimizer.py: the route by which each table of a bound      *)
(* statement is read, and explain.py: the steps that EXPLAIN announces for it.*)
(* A table of the catalogue is [name, columns, key, structure, indexes, rows] *)
(* and an index is [name, column, structure, metric]; names are numbers, whose*)
(* order breaks ties.                                                         *)
EXTENDS SemanticAnalysis

(* _AccessChoice. An optional index is a sequence of at most one.             *)
Choice(route, index, residual) == [route |-> route, index |-> index, residual |-> residual]
Scan(residual) == Choice("SCAN", <<>>, residual)

(* _best_index, _best_text_index and _best_spatial_index: of the indexes on   *)
(* the column with one of the structures, which come in order of preference.  *)
Best(table, column, structures) ==
    LET usable == {i \in table.indexes : i.column = column /\ i.structure \in Range(structures)}
        Rank(i) == CHOOSE r \in DOMAIN structures : structures[r] = i.structure
        Before(i, j) == Rank(i) < Rank(j) \/ (Rank(i) = Rank(j) /\ i.name < j.name)
    IN IF usable = {} THEN <<>>
       ELSE <<CHOOSE i \in usable : \A j \in usable \ {i} : Before(i, j)>>

ByRange == <<"BPLUS">>
ByEquality == <<"HASH", "BPLUS">>


(* _plan_equality: a text that does not fit the column has no hash.           *)
Equality(where, table, column) ==
    LET fits == table.columns[column].type # "VARCHAR"
                    \/ where.literal.size <= table.columns[column].length
    IN Best(table, column, IF fits THEN ByEquality ELSE ByRange)

(* _index_beats_table.                                                        *)
BeatsTable(index, table) == index # <<>> /\ table.structure = "HEAP"

(* The shared end of _plan_equality and _plan_range.                          *)
Keyed(where, table, column, primary, index, strict, search) ==
    IF column = table.key /\ primary /\ ~BeatsTable(index, table) THEN Choice("TABLE_" \o search, <<>>, strict)
    ELSE IF index # <<>> THEN Choice("INDEX_" \o search, index, strict)
    ELSE Scan(TRUE)

(* Variant: the bounds of a range are taken as the index gives them.          *)
StrictNowhere(where) == FALSE

Strict(where) == where.kind = "comparison" /\ where.operator \in {"<", ">"}

(* _choose_access. The column is a position in the table.                     *)
ChooseAccess(where, table, column, primary) ==
    LET spatial == Best(table, column, <<"RTREE">>)
    IN CASE where.kind = "similar" ->
              LET index == Best(table, column, <<where.using>>)
              IN IF index = <<>> THEN Choice("VECTOR_SCAN", <<>>, FALSE) ELSE Choice("VECTOR_KNN", index, FALSE)
         [] where.kind = "match" -> Choice("TEXT_SEARCH", Best(table, column, <<"INVERTED_INDEX">>), FALSE)
         [] where.kind \in {"polygon", "distance"} /\ spatial = <<>> -> Scan(TRUE)
         [] where.kind = "polygon" /\ spatial # <<>> -> Choice("RTREE_POLYGON", spatial, FALSE)
         [] where.kind = "distance" /\ spatial # <<>> -> Choice("RTREE_RADIUS", spatial, where.operator = "<")
         [] where.kind = "comparison" /\ where.operator = "=" ->
              Keyed(where, table, column, primary, Equality(where, table, column), FALSE, "SEARCH")
         [] OTHER ->
              Keyed(where, table, column, primary, Best(table, column, ByRange), Strict(where), "RANGE")

-----------------------------------------------------------------------------
(* _leaves and _leaf_of: where the columns of each table begin, and the table *)
(* that has the column of the predicate.                                      *)
Offset(schemas, leaf) == IF leaf = 1 THEN 0 ELSE Len(schemas[1].columns)

Owners(bound, schemas) ==
    {leaf \in DOMAIN schemas : \E where \in Range(bound.where) :
        where.index - Offset(schemas, leaf) \in DOMAIN schemas[leaf].columns}

(* _optimize_source, a leaf: a table that does not own the predicate is read  *)
(* whole.                                                                     *)
LeafAccess(bound, schemas, leaf) ==
    LET choice == IF leaf \in Owners(bound, schemas)
                  THEN ChooseAccess(bound.where[1], schemas[leaf], bound.where[1].index - Offset(schemas, leaf), TRUE)
                  ELSE Scan(FALSE)
    IN choice @@ [table |-> schemas[leaf].name, nearest |-> <<>>, text_limit |-> <<>>]

(* Variant: the right side of a join is probed whatever is read of it.        *)
ProbesAny(access) == TRUE

(* A probe searches the table itself, so only a leaf that is read whole.      *)
Probes(access) == access.route = "SCAN" /\ ~access.residual

(* _choose_probe: <<>>, the primary key ("key") or an index.                  *)
ChooseProbe(right, column, access) ==
    IF ~Probes(access) THEN <<>>
    ELSE IF column = right.key /\ right.structure \in {"SEQUENTIAL", "BPLUS_CLUSTERED"}
         THEN <<[name |-> 0, column |-> column, structure |-> right.structure, metric |-> ""]>>
         ELSE Best(right, column, ByEquality)

JoinPlan(bound, schemas, leaves) ==
    LET probe == ChooseProbe(schemas[2], bound.on[2], leaves[2])
    IN [strategy |-> IF probe = <<>> THEN "HASH" ELSE "AUTO",
        probe |-> probe,
        residual |-> bound.where # <<>> /\ Owners(bound, schemas) = {}]

ScoreAscending(bound) == bound.score_order = <<"ASC">>

(* optimize_select: ORDER BY DISTANCIA ... LIMIT by the neighbours of an      *)
(* R-Tree, and the LIMIT of a ranking by the text index.                      *)
Nearest(bound, schemas) ==
    IF /\ Len(schemas) = 1 /\ bound.limit # <<>> /\ bound.where = <<>> /\ bound.group = <<>>
       /\ \E order \in Range(bound.order) : order.kind = "distance" /\ order.direction = "ASC"
    THEN Best(schemas[1], bound.order[1].index, <<"RTREE">>)
    ELSE <<>>

(* Variant: the limit goes to the index whatever the order asked for.         *)
TakesLimitAlways(bound, access) == access.route = "TEXT_SEARCH" /\ bound.limit # <<>>

TakesLimit(bound, access) ==
    /\ access.route = "TEXT_SEARCH" /\ bound.limit # <<>>
    /\ bound.order = <<>> /\ bound.group = <<>> /\ ~ScoreAscending(bound)

SingleLeaf(bound, schemas) ==
    LET access == LeafAccess(bound, schemas, 1)
        nearest == Nearest(bound, schemas)
    IN IF nearest # <<>> THEN [access EXCEPT !.route = "RTREE_KNN", !.index = nearest, !.nearest = bound.limit]
       ELSE IF TakesLimit(bound, access) THEN [access EXCEPT !.text_limit = bound.limit]
       ELSE access

OptimizeSelect(bound, schemas) ==
    LET leaves == IF Len(schemas) = 1 THEN <<SingleLeaf(bound, schemas)>>
                  ELSE [leaf \in DOMAIN schemas |-> LeafAccess(bound, schemas, leaf)]
    IN [leaves |-> leaves,
        join |-> IF Len(schemas) = 2 THEN <<JoinPlan(bound, schemas, leaves)>> ELSE <<>>,
        external_sort |-> bound.order # <<>> /\ leaves[1].nearest = <<>>,
        grouped |-> bound.group # <<>>]

(* optimize_delete: with indexes, a route that keeps the RID of each row.     *)
OptimizeDelete(bound, table) ==
    LET where == bound.where[1]
        choice == IF where.kind \in {"distance", "polygon"} THEN Scan(TRUE)
                  ELSE ChooseAccess(where, table, where.index, table.indexes = {})
    IN [leaves |-> <<choice @@ [table |-> table.name, nearest |-> <<>>, text_limit |-> <<>>]>>,
        join |-> <<>>, external_sort |-> FALSE, grouped |-> FALSE]

-----------------------------------------------------------------------------
(* What the constructors of the plan reject, and the executor before it       *)
(* starts: PhysicalTableAccess, PhysicalJoin, PhysicalSelectPlan,             *)
(* PhysicalDeletePlan, _validate_source, _validate_access and _validate_plan. *)
Structures ==   \* of the indexes of each route
    [INDEX_SEARCH |-> {"HASH", "BPLUS"}, INDEX_RANGE |-> {"BPLUS"}, TEXT_SEARCH |-> {"INVERTED_INDEX"},
     RTREE_RADIUS |-> {"RTREE"}, RTREE_KNN |-> {"RTREE"}, RTREE_POLYGON |-> {"RTREE"}, VECTOR_KNN |-> VectorKinds]

ValidAccess(access, table) ==
    /\ (access.index # <<>>) = (access.route \in DOMAIN Structures)
    /\ \A index \in Range(access.index) :
          index \in table.indexes /\ index.structure \in Structures[access.route]
    /\ access.text_limit # <<>> => access.route = "TEXT_SEARCH"
    /\ (access.route = "RTREE_KNN") = (access.nearest # <<>>)
    /\ access.route \in {"TEXT_SEARCH", "RTREE_KNN"} => ~access.residual

ValidJoin(join) == (join.strategy = "AUTO") = (join.probe # <<>>)

ValidSource(bound, schemas, leaves) ==
    \A leaf \in DOMAIN leaves :
        LET access == leaves[leaf]
            owner == leaf \in Owners(bound, schemas)
        IN /\ access.route = "RTREE_KNN" => Len(schemas) = 1 /\ bound.where = <<>>
           /\ ~owner => access.route \in {"SCAN", "RTREE_KNN"}
           /\ owner => LET where == bound.where[1]
                           column == where.index - Offset(schemas, leaf)
                       IN /\ (where.kind = "similar") = (access.route \in {"VECTOR_KNN", "VECTOR_SCAN"})
                          /\ where.kind = "similar" =>
                                ~access.residual /\ \A i \in Range(access.index) : i.structure = where.using
                          /\ \A i \in Range(access.index) : i.column = column
                          /\ access.route \in {"TABLE_SEARCH", "TABLE_RANGE"} => column = schemas[leaf].key

Consumes(access) == access.route # "SCAN" \/ access.residual

ValidPlan(plan, bound, schemas) ==
    /\ \A leaf \in DOMAIN plan.leaves : ValidAccess(plan.leaves[leaf], schemas[leaf])
    /\ \A join \in Range(plan.join) : ValidJoin(join)
    /\ ValidSource(bound, schemas, plan.leaves)
    /\ bound.where # <<>> => \/ \E access \in Range(plan.leaves) : Consumes(access)
                             \/ \E join \in Range(plan.join) : join.residual
    /\ bound.verb = "DELETE" /\ schemas[1].indexes # {} =>
          plan.leaves[1].route \notin {"TABLE_SEARCH", "TABLE_RANGE"}

-----------------------------------------------------------------------------
(* A step of a plan, without its detail and its measures, before its          *)
(* children.                                                                  *)
Step(op, structure) == <<op, structure>>
InMemory(op) == Step(op, "MEMORY")

Operation == [INDEX_SEARCH |-> "INDEX_SEARCH", INDEX_RANGE |-> "INDEX_RANGE", RTREE_RADIUS |-> "RADIUS_SEARCH",
              RTREE_POLYGON |-> "POLYGON_SEARCH", TEXT_SEARCH |-> "TEXT_SEARCH", RTREE_KNN |-> "KNN_SEARCH",
              VECTOR_KNN |-> "KNN_SEARCH"]

(* _access_step.                                                              *)
AccessSteps(access, table) ==
    CASE access.route = "SCAN" -> <<Step("SCAN", table.structure)>>
      [] access.route = "TABLE_SEARCH" -> <<Step("SEARCH", table.structure)>>
      [] access.route = "TABLE_RANGE" -> <<Step("RANGE_SEARCH", table.structure)>>
      [] access.route = "VECTOR_SCAN" -> <<Step("FETCH", table.structure), Step("KNN_SEARCH", table.structure)>>
      [] OTHER -> <<Step("FETCH", table.structure), Step(Operation[access.route], access.index[1].structure)>>

LeafSteps(access, table) ==
    (IF access.residual THEN <<InMemory("FILTER")>> ELSE <<>>) \o AccessSteps(access, table)

(* _source_step and _join_structure.                                          *)
SourceSteps(plan, schemas) ==
    LET leaves == FlattenSeq([leaf \in DOMAIN plan.leaves |-> LeafSteps(plan.leaves[leaf], schemas[leaf])])
    IN IF plan.join = <<>> THEN leaves
       ELSE LET join == plan.join[1]
            IN (IF join.residual THEN <<InMemory("FILTER")>> ELSE <<>>)
               \o <<Step("JOIN", IF join.strategy = "HASH" THEN "EXTERNAL_HASH" ELSE join.probe[1].structure)>>
               \o leaves

When(condition, step) == IF condition THEN <<step>> ELSE <<>>

(* Variant: the limit is announced where the index has taken it.              *)
LimitStepAlways(plan, bound) == When(bound.limit # <<>>, InMemory("LIMIT"))

LimitStep(plan, bound) == When(bound.limit # <<>> /\ plan.leaves[1].nearest = <<>>, InMemory("LIMIT"))

(* explain_select.                                                            *)
ExplainSelect(plan, bound, schemas) ==
    LimitStep(plan, bound)
    \o When(plan.grouped \/ ~bound.wildcard \/ bound.score # <<>>, InMemory("PROJECT"))
    \o When(bound.score_order # <<>>, InMemory("SORT"))
    \o When(plan.external_sort, Step("SORT", "EXTERNAL_SORT"))
    \o When(plan.grouped, Step("GROUP", "EXTERNAL_HASH"))
    \o SourceSteps(plan, schemas)
=============================================================================
