------------------------------ MODULE SqlParser ------------------------------
(* engine/parser/parser.py: recursive descent with one token of lookahead. A  *)
(* method is a nonterminal and its branches are the alternatives, tried in    *)
(* order: each names the tokens it is taken on and what it reads. The parser  *)
(* is the pushdown automaton of these tables, and the tree of a statement is  *)
(* the list of the branches taken. A script is derived from the same tables   *)
(* with every branch free, whether or not its token would lead there, and the *)
(* parser must find the way back.                                             *)
EXTENDS Naturals, Sequences, SequencesExt, FiniteSets, TLC

CONSTANT Deviations   \* how many branches of a derivation are not the last one

VARIABLES
    todo,       \* what is left to derive
    deviations, \* how many free choices are left
    script,     \* the tokens derived
    slip,       \* the one that was replaced by another word, or 0
    derivation, \* the branches they were derived by
    stack,      \* what the parser expects
    at,         \* its current token
    trace,      \* the branches it has taken
    verdict     \* "deriving", "parsing", "accepted" or "rejected"

parseVars == <<todo, deviations, script, slip, derivation, stack, at, trace, verdict>>

(* Token kinds. `k`, `language`, `spanish` and `cosine` are identifiers the   *)
(* parser also knows by name; `null` is one that it refuses everywhere.       *)
Class ==   \* the terminals that stand for several kinds, the usual one first
    [IDENTIFIER |-> <<"name", "k", "language", "spanish", "cosine">>,
     NUMBER |-> <<"DOUBLE_LITERAL", "INTEGER", "NEGATIVE">>,
     ANY_INTEGER |-> <<"INTEGER", "NEGATIVE">>,
     TEXT |-> <<"STRING", "DATE_STRING">>,
     COMPARISON |-> <<"=", "<", "<=", ">", ">=">>,
     INSIDE |-> <<"<=", "<">>,
     AGGREGATE |-> <<"SUM", "MIN", "MAX", "AVG">>,
     SCORE_KIND |-> <<"SCORE", "SIMILARITY_SCORE">>,
     METRIC_NAME |-> <<"EUCLIDEAN", "cosine">>]

Kinds(terminal) == IF terminal \in DOMAIN Class THEN Class[terminal] ELSE <<terminal>>

Tokens(terminal) == Range(Kinds(terminal))

On(terminals, reads) == [on |-> UNION {Tokens(t) : t \in terminals}, second |-> "", reads |-> reads]
Word(reads) == On({Head(reads)}, reads)
Otherwise(reads) == [on |-> {}, second |-> "", reads |-> reads]
Pair(first, second, reads) == [On({first}, reads) EXCEPT !.second = second]
Nothing == Otherwise(<<>>)

(* parse_sql_script, parse_script and _statement.                             *)
ScriptRules ==
    [script |-> <<Otherwise(<<"statement", "more">>)>>,
     more |-> <<Word(<<";", "next">>), Word(<<"EOF">>)>>,
     next |-> <<Word(<<"EOF">>), Otherwise(<<"statement", "more">>)>>,
     statement |-> <<Word(<<"CREATE", "create">>), Word(<<"INSERT", "insert">>), Word(<<"EXPLAIN", "explain">>),
                     Word(<<"DELETE", "delete">>), Word(<<"DROP", "drop">>), Word(<<"BEGIN", "TRANSACTION">>),
                     Word(<<"END", "TRANSACTION">>), Word(<<"SELECT", "select">>)>>]

(* _create and _create_table.                                                 *)
TableRules ==
    [create |-> <<Word(<<"INDEX", "index">>), Word(<<"TABLE", "IDENTIFIER", "(", "column", "columns", ")", "storage">>)>>,
     columns |-> <<Word(<<",", "column", "columns">>), Nothing>>,
     storage |-> <<Word(<<"USING", "organisation">>), Nothing>>,
     organisation |-> <<Word(<<"HEAP">>), Word(<<"SEQUENTIAL">>)>>]

(* _create_index and _text_language.                                          *)
IndexRules ==
    [index |-> <<Otherwise(<<"IDENTIFIER", "ON", "IDENTIFIER", "(", "IDENTIFIER", ")", "USING", "index_kind">>)>>,
     index_kind |-> <<Word(<<"BPLUS_UNCLUSTERED">>), Word(<<"HASH">>), Word(<<"EXTENDIBLE_HASH">>), Word(<<"RTREE">>),
                      Word(<<"HNSW", "metric">>), Word(<<"IVF">>), Word(<<"FULLTEXT", "language_of">>),
                      Word(<<"INVERTED_INDEX", "language_of">>), Word(<<"BPLUS">>)>>,
     language_of |-> <<Word(<<"WITH", "language", "=", "spanish">>), Nothing>>]

(* _column_definition and _sql_type.                                          *)
ColumnRules ==
    [column |-> <<Otherwise(<<"IDENTIFIER", "type", "primary">>)>>,
     primary |-> <<Word(<<"PRIMARY", "KEY">>), Nothing>>,
     type |-> <<Word(<<"DOUBLE">>), Word(<<"BOOL">>), Word(<<"DATE">>), Word(<<"POINT">>),
                Word(<<"VARCHAR", "(", "INTEGER", ")">>), Word(<<"VECTOR", "(", "INTEGER", ")">>), Word(<<"INT">>)>>]

(* _insert.                                                                   *)
InsertRules ==
    [insert |-> <<Otherwise(<<"INTO", "IDENTIFIER", "VALUES", "(", "literal", "values", ")">>)>>,
     values |-> <<Word(<<",", "literal", "values">>), Nothing>>]

(* _select, _explain, _from_source and _join.                                 *)
SelectRules ==
    [select |-> <<Otherwise(<<"projections", "FROM", "IDENTIFIER", "join", "where", "group", "order", "limit">>)>>,
     explain |-> <<Otherwise(<<"analyze", "SELECT", "select">>)>>,
     analyze |-> <<Word(<<"ANALYZE">>), Nothing>>,
     join |-> <<Word(<<"JOIN", "IDENTIFIER", "ON", "column_reference", "=", "column_reference">>), Nothing>>,
     where |-> <<Word(<<"WHERE", "condition">>), Nothing>>]

(* _projection_list, _projection, _score_call and _aggregate.                 *)
ProjectionRules ==
    [projections |-> <<Word(<<"*", "scores">>), Otherwise(<<"projection", "more_projections">>)>>,
     scores |-> <<Word(<<",", "score", "scores">>), Nothing>>,
     more_projections |-> <<Word(<<",", "projection", "more_projections">>), Nothing>>,
     projection |-> <<On({"SCORE_KIND"}, <<"score">>), Word(<<"COUNT", "(", "*", ")">>),
                      Word(<<"AGGREGATE", "(", "column_reference", ")">>), Otherwise(<<"column_reference">>)>>,
     score |-> <<Word(<<"SCORE_KIND", "(", ")", "alias">>)>>,
     alias |-> <<Word(<<"AS", "alias_name">>), Nothing>>,
     alias_name |-> <<Word(<<"SCORE_KIND">>), Otherwise(<<"IDENTIFIER">>)>>]

(* _group_by, _order_by, _limit, _delete and _drop_table.                     *)
ClauseRules ==
    [group |-> <<Word(<<"GROUP", "BY", "column_reference">>), Nothing>>,
     order |-> <<Word(<<"ORDER", "BY", "order_key", "direction">>), Nothing>>,
     order_key |-> <<Pair("SCORE_KIND", "(", <<"SCORE_KIND", "(", ")">>), Word(<<"DISTANCIA", "distance">>),
                     Word(<<"SCORE_KIND">>), Otherwise(<<"column_reference">>)>>,
     direction |-> <<Word(<<"ASC">>), Word(<<"DESC">>), Nothing>>,
     limit |-> <<Word(<<"LIMIT", "INTEGER">>), Nothing>>,
     delete |-> <<Otherwise(<<"FROM", "IDENTIFIER", "WHERE", "condition">>)>>,
     drop |-> <<Otherwise(<<"TABLE", "IDENTIFIER">>)>>]

(* _condition, _distance_condition, _vector_metric, _similar_condition and    *)
(* _match_condition.                                                          *)
ConditionRules ==
    [condition |-> <<Word(<<"DISTANCIA", "distance", "INSIDE", "NUMBER">>), Word(<<"DENTRO", "polygon">>),
                     Word(<<"MATCH", "(", "column_reference", ",", "TEXT", ")", "ranking">>),
                     Word(<<"SIMILAR_TO", "(", "similar_column", "TEXT", ",", "k_name", "INTEGER", ")", "USING",
                            "similar_kind", "metric">>),
                     Otherwise(<<"column_reference", "predicate">>)>>,
     predicate |-> <<Word(<<"BETWEEN", "literal", "AND", "literal">>), Word(<<"COMPARISON", "literal">>)>>,
     metric |-> <<Word(<<"WITH", "METRIC", "=", "METRIC_NAME">>), Nothing>>,
     similar_column |-> <<On({"TEXT"}, <<>>), Otherwise(<<"column_reference", ",">>)>>,
     k_name |-> <<On({"IDENTIFIER"}, <<"k", "=">>), Nothing>>,
     similar_kind |-> <<Word(<<"HNSW">>), Word(<<"IVF">>)>>,
     ranking |-> <<Word(<<"USING", "ranking_name">>), Nothing>>,
     ranking_name |-> <<Word(<<"TF_IDF">>), Word(<<"BM25">>)>>]

(* _polygon_condition and _distance_arguments. A polygon of fewer than three  *)
(* vertices is refused.                                                       *)
GeometryRules ==
    [polygon |-> <<Otherwise(<<"(", "column_reference", ",", "POLYGON", "(", "vertex", ",", "vertex", ",", "vertex",
                               "vertices", ")", ")">>)>>,
     vertices |-> <<Word(<<",", "vertex", "vertices">>), Nothing>>,
     distance |-> <<Word(<<"(", "column_reference", ",", "vertex", "distance_metric", ")">>)>>,
     distance_metric |-> <<Word(<<",", "distance_name">>), Nothing>>,
     distance_name |-> <<Word(<<"HAVERSINE">>), Word(<<"EUCLIDEAN">>)>>]

(* _literal, _vector_literal, _point_literal and _coordinate.                 *)
LiteralRules ==
    [literal |-> <<Word(<<"ANY_INTEGER">>), Word(<<"DOUBLE_LITERAL">>), Word(<<"TRUE">>), Word(<<"FALSE">>),
                   Word(<<"DATE", "DATE_STRING">>), On({"POINT"}, <<"vertex">>),
                   Word(<<"VECTOR", "(", "NUMBER", "components", ")">>), Word(<<"TEXT">>)>>,
     vertex |-> <<Word(<<"POINT", "(", "NUMBER", ",", "NUMBER", ")">>)>>,
     components |-> <<Word(<<",", "NUMBER", "components">>), Nothing>>]

(* _identifier and _column_reference.                                         *)
NameRules ==
    [column_reference |-> <<Otherwise(<<"IDENTIFIER", "qualified">>)>>,
     qualified |-> <<Word(<<".", "IDENTIFIER">>), Nothing>>]

Grammar ==
    ScriptRules @@ TableRules @@ IndexRules @@ ColumnRules @@ InsertRules @@ SelectRules @@ ProjectionRules
    @@ ClauseRules @@ ConditionRules @@ GeometryRules @@ LiteralRules @@ NameRules

-----------------------------------------------------------------------------
(* The parser. _match and _peek: the first branch whose token is the next one,*)
(* or the one that needs none.                                                *)
AppliesOnOne(branch, i) == branch.on = {} \/ script[i] \in branch.on   \* variant: one token

Applies(branch, i) ==
    \/ branch.on = {}
    \/ /\ script[i] \in branch.on
       /\ branch.second = "" \/ (i < Len(script) /\ script[i + 1] = branch.second)

Chosen(nonterminal) ==
    {b \in DOMAIN Grammar[nonterminal] :
        /\ Applies(Grammar[nonterminal][b], at)
        /\ \A a \in 1 .. (b - 1) : ~Applies(Grammar[nonterminal][a], at)}

Expects == stack # <<>> /\ verdict = "parsing"

Expand ==
    /\ Expects /\ Head(stack) \in DOMAIN Grammar
    /\ \E b \in Chosen(Head(stack)) :
          /\ stack' = Grammar[Head(stack)][b].reads \o Tail(stack)
          /\ trace' = Append(trace, b)
    /\ UNCHANGED <<todo, deviations, script, slip, derivation, at, verdict>>

(* _expect: the tokens up to the next method call.                            *)
Expect ==
    /\ Expects /\ Head(stack) \notin DOMAIN Grammar
    /\ script[at] \in Tokens(Head(stack))
    /\ stack' = Tail(stack)
    /\ at' = at + 1
    /\ UNCHANGED <<todo, deviations, script, slip, derivation, trace, verdict>>

(* _error and _raise_unsupported; and nothing is left.                        *)
Reject ==
    /\ Expects
    /\ IF Head(stack) \in DOMAIN Grammar THEN Chosen(Head(stack)) = {}
       ELSE script[at] \notin Tokens(Head(stack))
    /\ verdict' = "rejected"
    /\ UNCHANGED <<todo, deviations, script, slip, derivation, stack, at, trace>>

Accept ==
    /\ verdict = "parsing" /\ stack = <<>>
    /\ verdict' = "accepted"
    /\ UNCHANGED <<todo, deviations, script, slip, derivation, stack, at, trace>>

-----------------------------------------------------------------------------
(* The derivation of a script, and one slip of whoever writes it: a token     *)
(* replaced by a word the parser refuses.                                     *)
ParseInit ==
    /\ todo = <<"script">> /\ script = <<>> /\ slip = 0 /\ derivation = <<>>
    /\ deviations = Deviations
    /\ stack = <<"script">> /\ at = 1 /\ trace = <<>>
    /\ verdict = "deriving"

Derive ==
    /\ verdict = "deriving" /\ todo # <<>>
    /\ \/ /\ Head(todo) \in DOMAIN Grammar
          /\ \E b \in DOMAIN Grammar[Head(todo)] :
                LET last == Len(Grammar[Head(todo)])
                IN /\ b = last \/ deviations > 0
                   /\ deviations' = IF b = last THEN deviations ELSE deviations - 1
                   /\ todo' = Grammar[Head(todo)][b].reads \o Tail(todo)
                   /\ derivation' = Append(derivation, b)
          /\ UNCHANGED script
       \/ /\ Head(todo) \notin DOMAIN Grammar
          /\ \E i \in DOMAIN Kinds(Head(todo)) :
                /\ i = 1 \/ deviations > 0
                /\ deviations' = IF i = 1 THEN deviations ELSE deviations - 1
                /\ script' = Append(script, Kinds(Head(todo))[i])
          /\ todo' = Tail(todo)
          /\ UNCHANGED derivation
    /\ UNCHANGED <<slip, stack, at, trace, verdict>>

Submit ==
    /\ verdict = "deriving" /\ todo = <<>>
    /\ verdict' = "parsing"
    /\ \/ UNCHANGED <<script, slip>>
       \/ /\ deviations > 0
          /\ \E i \in DOMAIN script : slip' = i /\ script' = [script EXCEPT ![i] = "null"]
    /\ UNCHANGED <<todo, deviations, derivation, stack, at, trace>>

ParseNext == Derive \/ Submit \/ Expand \/ Expect \/ Reject \/ Accept

-----------------------------------------------------------------------------
(* Every script the tables derive is accepted, and read back by the branches  *)
(* it was derived by: no order of the tests in a method hides an alternative, *)
(* no optional part swallows the token of what follows, and no statement has  *)
(* two readings (SCORE and the contextual words are columns elsewhere). A     *)
(* script with a wrong word is refused at that word.                          *)
ParsesWhatItDescribes ==
    /\ verdict = "accepted" => slip = 0 /\ trace = derivation /\ at = Len(script) + 1
    /\ verdict = "rejected" => slip = at
=============================================================================
