------------------------------ MODULE MCQuery ------------------------------
(* Texts for SqlLexer, scripts for SqlParser, and statements with the tables  *)
(* they meet for QueryPipeline: one of the three works in a behaviour.        *)
EXTENDS SqlLexer, SqlParser, QueryPipeline

CONSTANTS WidthOfB   \* of the text column of table b; that of a is 2

VARIABLE part

-----------------------------------------------------------------------------
(* Columns and tables. The key of both tables is their first column.          *)
Col(name, type, length) == [name |-> name, type |-> type, length |-> length]
ColumnsOfA == <<Col("k", "INT", 0), Col("t", "VARCHAR", 2), Col("p", "POINT", 0), Col("v", "VECTOR", 1)>>
ColumnsOfB == <<Col("k", "INT", 0), Col("u", "VARCHAR", WidthOfB)>>

Index(name, column, structure, metric) ==
    [name |-> name, column |-> column, structure |-> structure, metric |-> metric]

Table(name, columns, structure, indexes, content) ==
    [name |-> name, columns |-> columns, key |-> 1, structure |-> structure, indexes |-> indexes,
     rows |-> content]

Indexed ==
    {Index(1, 1, "BPLUS", ""), Index(2, 2, "HASH", ""), Index(3, 2, "BPLUS", ""), Index(4, 3, "RTREE", ""),
     Index(5, 2, "INVERTED_INDEX", ""), Index(6, 4, "IVF", "EUCLIDEAN"), Index(7, 4, "HNSW", "COSINE"),
     Index(8, 4, "HNSW", "EUCLIDEAN")}
Sparse == {Index(2, 1, "HASH", ""), Index(5, 2, "INVERTED_INDEX", "")}

RowsOfA == <<<<1, 2, 4, 1>>, <<2, 1, 1, 3>>, <<3, 2, 2, 6>>>>
RowsOfB == <<<<1, 2>>, <<2, 2>>, <<3, 1>>>>

A(structure, indexes, content) == Table("a", ColumnsOfA, structure, indexes, content)
B(structure, indexes) == Table("b", ColumnsOfB, structure, indexes, RowsOfB)

TablesA == {A("HEAP", Indexed, RowsOfA), A("HEAP", Sparse, RowsOfA), A("SEQUENTIAL", {}, RowsOfA),
            A("HEAP", Indexed, <<>>)}
TablesB == {B("HEAP", {Index(1, 2, "HASH", "")}), B("HEAP", {}), B("SEQUENTIAL", {})}

-----------------------------------------------------------------------------
(* Clauses.                                                                   *)
Ref(table, name) == [table |-> table, name |-> name]
C(name) == Ref("", name)
Number(n) == [types |-> {"INT", "DOUBLE"}, size |-> 0, value |-> n]
Wide == [types |-> {"DOUBLE"}, size |-> 0, value |-> 9]
Text(n) == [types |-> {"VARCHAR"}, size |-> n, value |-> n]
Vec(n) == [types |-> {"VECTOR"}, size |-> n, value |-> 1]

Comparison(reference, operator, literal) ==
    [kind |-> "comparison", reference |-> reference, operator |-> operator, literal |-> literal]
Between(reference, lower, upper) ==
    [kind |-> "between", reference |-> reference, lower |-> lower, upper |-> upper]
Near(reference, operator, radius) ==
    [kind |-> "distance", reference |-> reference, center |-> 1, operator |-> operator, radius |-> radius]
Polygon(reference, vertices) == [kind |-> "polygon", reference |-> reference, vertices |-> vertices]
Match(reference) == [kind |-> "match", reference |-> reference]
Similar(reference, path, k, using, metric) ==
    [kind |-> "similar", reference |-> reference, path |-> path, k |-> k, using |-> using, metric |-> metric,
     center |-> 0]

Wheres ==
    {Comparison(C("k"), operator, Number(2)) : operator \in {"=", "<", ">="}}
    \cup {Comparison(C("t"), operator, Text(2)) : operator \in {"=", "<=", ">"}}
    \cup {Comparison(C("t"), "=", Text(3)), Comparison(Ref("a", "k"), "=", Wide), Comparison(C("v"), "=", Vec(2)),
          Comparison(Ref("b", "k"), "=", Number(1)), Comparison(C("x"), "=", Number(1)),
          Between(C("k"), Number(2), Number(3)), Between(C("t"), Text(2), Text(1)),
          Near(C("p"), "<", 1), Near(C("p"), "<=", 1), Near(C("t"), "<", 1), Near(C("p"), "<", -1),
          Polygon(C("p"), <<1, 2, 0>>), Polygon(C("p"), <<1, 2, 2>>), Match(C("t")), Match(C("p")),
          Similar(<<>>, TRUE, 2, "IVF", "COSINE"), Similar(<<C("v")>>, TRUE, 2, "HNSW", "EUCLIDEAN"),
          Similar(<<>>, TRUE, 0, "HNSW", "INNER"), Similar(<<>>, FALSE, 1, "IVF", "COSINE"),
          Similar(<<C("k")>>, TRUE, 1, "IVF", "COSINE")}

Star == [kind |-> "star"]
Column(reference) == [kind |-> "column", reference |-> reference]
Aggregate(function, reference) == [kind |-> "aggregate", function |-> function, reference |-> reference]
ScoreOf(of) == [kind |-> "score", of |-> of, alias |-> "s"]

Projections ==
    {<<Star>>, <<Column(C("t")), Column(C("k"))>>, <<Column(Ref("b", "t"))>>,
     <<Star, ScoreOf("SCORE")>>, <<Star, ScoreOf("SIMILARITY_SCORE")>>,
     <<Column(C("k")), ScoreOf("SIMILARITY_SCORE"), Column(C("t"))>>,
     <<Aggregate("COUNT", <<>>), Column(C("t"))>>, <<Column(C("p")), Aggregate("COUNT", <<>>)>>,
     <<Column(C("t")), Aggregate("SUM", <<C("k")>>), Aggregate("MAX", <<C("p")>>)>>,
     <<Aggregate("SUM", <<C("p")>>)>>,
     <<Column(C("k")), Aggregate("AVG", <<C("k")>>), Column(C("k")), Aggregate("MIN", <<C("t")>>)>>}

Order(kind, reference, direction) ==
    [kind |-> kind, reference |-> reference, direction |-> direction, center |-> 1]
ByScore(of, direction) == [kind |-> "score", of |-> of, direction |-> direction]

Orders ==
    {Order("column", C(name), direction) : name \in {"k", "t", "s"}, direction \in {"ASC", "DESC"}}
    \cup {Order("distance", C("p"), direction) : direction \in {"ASC", "DESC"}}
    \cup {Order("distance", C("t"), "ASC")}
    \cup {ByScore(of, direction) : of \in {"SCORE", "SIMILARITY_SCORE"}, direction \in {"ASC", "DESC"}}

Optional(set) == {<<>>} \cup {<<element>> : element \in set}

Query(from, on, items, where, group, order, limit) ==
    [verb |-> "SELECT", from |-> from, on |-> on, items |-> items, where |-> where, group |-> group,
     order |-> order, limit |-> limit]

(* The clauses of a query. One that the binder refuses has at most two.       *)
Clauses(query) ==
    (IF query.items = <<Star>> THEN 0 ELSE 1) + Len(query.where) + Len(query.group) + Len(query.order)
    + Len(query.limit)

OfOneTable ==
    {query \in {Query(<<"a">>, <<>>, items, where, group, order, limit) :
                    items \in Projections, where \in Optional(Wheres), group \in Optional({C("t"), C("k"), C("p")}),
                    order \in Optional(Orders), limit \in Optional({-1, 0, 2})} :
        LET some == A("HEAP", Indexed, RowsOfA)
        IN Clauses(query) <= 2 \/ BindsSelect(query, "a" :> some)}

Pairs == {<<Ref("a", "k"), Ref("b", "k")>>, <<Ref("b", "u"), Ref("a", "t")>>, <<C("k"), C("u")>>, <<C("t"), C("u")>>}

OfTwo ==
    {Query(from, on, items, where, <<>>, order, limit) :
        from \in {<<"a", "b">>, <<"b", "a">>}, on \in Pairs,
        items \in {<<Star>>, <<Column(C("u")), Column(Ref("a", "k"))>>, <<Column(C("k"))>>},
        where \in Optional({Comparison(Ref("a", "t"), "=", Text(2)), Comparison(Ref("b", "k"), "<", Number(3)),
                            Comparison(C("k"), "=", Number(1)), Match(C("u"))}),
        order \in Optional({Order("column", C("u"), "DESC")}), limit \in Optional({2})}
    \cup {Query(<<"a", "b">>, <<C("t"), C("u")>>, <<Aggregate("COUNT", <<>>), Column(C("u"))>>, <<>>, <<C("u")>>,
                order, <<>>) : order \in Optional({Order("column", C("u"), "ASC")})}
    \cup {Query(<<"a", "a">>, <<C("t"), C("t")>>, <<Star>>, <<>>, <<>>, <<>>, <<>>),
          Query(<<"a", "c">>, <<C("t"), C("t")>>, <<Star>>, <<>>, <<>>, <<>>, <<>>)}

Deletes == {[verb |-> "DELETE", from |-> <<"a">>, where |-> <<where>>] : where \in Wheres}

(* A table whose key is a VECTOR, alone and joined.                           *)
KeyedByVector ==
    {[table EXCEPT !.key = 4] :
        table \in {A("HEAP", {}, RowsOfA), A("HEAP", {Index(6, 4, "IVF", "EUCLIDEAN")}, RowsOfA),
                   A("SEQUENTIAL", {}, RowsOfA)}}

OfVector ==
    {Comparison(C("v"), operator, Vec(1)) : operator \in {"=", "<", ">="}} \cup {Between(C("v"), Vec(1), Vec(1))}

OfVectorKey ==
    {Query(from, on, <<Star>>, <<where>>, <<>>, <<>>, <<>>) : where \in OfVector,
        from \in {<<"a">>, <<"a", "b">>, <<"b", "a">>}, on \in {<<>>, <<Ref("a", "k"), Ref("b", "k")>>}}

DeletesOfVector == {[verb |-> "DELETE", from |-> <<"a">>, where |-> <<where>>] : where \in OfVector}

(* A text of a that the column of b cannot hold, with each way to look for it.*)
LongTextOfA == A("HEAP", {}, <<<<1, 2, 4, 1>>>>)
NarrowB(structure, key, indexes) ==
    [name |-> "b", columns |-> <<Col("k", "INT", 0), Col("u", "VARCHAR", 1)>>, key |-> key,
     structure |-> structure, indexes |-> indexes, rows |-> <<<<1, 1>>>>]
NarrowTables ==
    {NarrowB("HEAP", 1, {Index(1, 2, "HASH", "")}), NarrowB("HEAP", 1, {Index(1, 2, "BPLUS", "")}),
     NarrowB("SEQUENTIAL", 2, {}), NarrowB("HEAP", 1, {})}

-----------------------------------------------------------------------------
(* Definitions around the limits of a record and of the types.                *)
Defined(name, type, length, key) == [name |-> name, type |-> type, length |-> length, key |-> key]

Creates ==
    {[verb |-> "CREATE TABLE", table |-> table, storage |-> storage, columns |-> columns] :
        table \in {"c", TooLong}, storage \in {"HEAP", "SEQUENTIAL"},
        columns \in {<<>>, <<Defined("k", "INT", 0, TRUE), Defined("k", "BOOL", 0, FALSE)>>,
                     <<Defined("k", "INT", 0, FALSE)>>, <<Defined("k", "VARCHAR", 0, TRUE)>>}
                    \cup {<<Defined("k", "INT", 0, TRUE), Defined("t", "VARCHAR", n, FALSE)>> :
                             n \in (2035 .. 2040) \cup (4080 .. 4085)}}

IndexKinds == {"HASH", "BPLUS", "RTREE", "INVERTED_INDEX", "IVF", "HNSW"}

Indexings ==
    {[verb |-> "CREATE INDEX", table |-> table, index |-> index, column |-> column, kind |-> kind] :
        table \in {"a"}, index \in {"i", TooLong}, column \in {"k", "t", "p", "v", "x"}, kind \in IndexKinds}

Inserts ==
    {[verb |-> "INSERT", table |-> "b", values |-> values] :
        values \in {<<Number(1)>>} \cup {<<key, text>> : key \in {Number(1), Wide, Text(1)},
                                                      text \in {Text(0), Text(WidthOfB), Text(WidthOfB + 1), Number(1)}}}

Plain == A("HEAP", {}, RowsOfA)

MCWorkload ==
    {<<query, "a" :> table>> : query \in OfOneTable, table \in TablesA}
    \cup {<<query, "a" :> a @@ "b" :> b>> :
             query \in OfTwo, a \in {A("HEAP", {Index(1, 2, "HASH", "")}, RowsOfA), A("SEQUENTIAL", {}, RowsOfA)},
             b \in TablesB}
    \cup {<<delete, "a" :> table>> : delete \in Deletes, table \in TablesA \cup {Plain}}
    \cup {<<query, "a" :> table @@ "b" :> B("HEAP", {})>> :
             query \in {q \in OfVectorKey : Len(q.on) = 2 * (Len(q.from) - 1)}, table \in KeyedByVector}
    \cup {<<delete, "a" :> table>> : delete \in DeletesOfVector, table \in KeyedByVector}
    \cup {<<query, "a" :> LongTextOfA @@ "b" :> b>> : query \in OfTwo, b \in NarrowTables}
    \cup {<<define, "a" :> table @@ "b" :> B("HEAP", {})>> :
             define \in Creates \cup Indexings \cup Inserts, table \in {Plain, A("SEQUENTIAL", {}, RowsOfA)}}

(* Every short text.                                                          *)
Characters == {"cr", "lf", "digit", "letter", "-", "/", "*", "'", "."}
MCSource == UNION {[1 .. n -> Characters \cup {"space", "<", "=", ">", "other"}] : n \in 0 .. 3}
            \cup [1 .. 4 -> Characters]

-----------------------------------------------------------------------------
LexerRests == source = <<>> /\ mark = [index |-> 0, line |-> 1, column |-> 1] /\ tokens = <<>> /\ scan = "done"
ParserRests ==
    /\ todo = <<>> /\ deviations = 0 /\ script = <<>> /\ slip = 0 /\ derivation = <<>> /\ stack = <<>> /\ at = 1
    /\ trace = <<>> /\ verdict = "accepted"
QueryRests ==
    /\ statement = <<>> /\ catalog = <<>> /\ phase = "ended" /\ bound = <<>> /\ plan = <<>> /\ locks = <<>>
    /\ temps = {} /\ leaves = <<>> /\ join = NoJoin /\ stream = <<>> /\ scores = <<>> /\ rows = <<>>
    /\ steps = <<>> /\ outcome = "answered"

Init ==
    \/ part = "text" /\ LexInit /\ ParserRests /\ QueryRests
    \/ part = "script" /\ ParseInit /\ LexerRests /\ QueryRests
    \/ part = "query" /\ QueryInit /\ LexerRests /\ ParserRests

LexerStep == part = "text" /\ LexNext /\ UNCHANGED <<part, parseVars, queryVars>>
ParserStep == part = "script" /\ ParseNext /\ UNCHANGED <<part, lexVars, queryVars>>
QueryStep == part = "query" /\ QueryNext /\ UNCHANGED <<part, lexVars, parseVars>>

Next == LexerStep \/ ParserStep \/ QueryStep

Spec == Init /\ [][Next]_<<part, lexVars, parseVars, queryVars>>
=============================================================================
