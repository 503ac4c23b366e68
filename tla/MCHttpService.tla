--------------------------- MODULE MCHttpService ---------------------------
(* Workloads for HttpService: one of requests that meet each other, and quiet *)
(* ones with a single CSV load, over every short file.                        *)
EXTENDS HttpService

CONSTANTS c1, c2

MCClient == {c1, c2}

Name(letter) == [letter |-> letter, upper |-> FALSE]
Upper(letter) == [letter |-> letter, upper |-> TRUE]

MCColumns == <<Name("a"), Upper("a"), Name("b")>>
Header == <<Name("a"), Upper("a"), Name("b")>>

RowOf(kind, id, lines) == [kind |-> kind, id |-> id, lines |-> lines]

File(bytes, size, header, line, rows, atomic) ==
    [bytes |-> bytes, size |-> size, header |-> header, line |-> line, rows |-> rows, atomic |-> atomic]

Plain(rows, atomic) == File(<<"ascii">>, 1, Header, 1, rows, atomic)
OneRow == <<RowOf("value", 1, 1)>>

Texts == UNION {[1 .. n -> Bytes] : n \in 0 .. 3}
         \cup [1 .. 4 -> {"newline", "lead2", "lead3", "tail", "never"}]
         \cup {<<a, b, "newline", c>> \o d : a, b \in {"ascii", "lead2"}, c \in {"lead3", "never"},
                                           d \in [1 .. 3 -> {"newline", "tail", "never"}]}

Encoded == {File(bytes, size, Header, 1, OneRow, FALSE) : bytes \in Texts, size \in 1 .. 3}

Headed ==
    {File(<<"ascii">>, 1, header, 2, OneRow, FALSE) :
        header \in UNION {[1 .. n -> {Name("a"), Upper("a"), Name("b"), Upper("b"), Unnamed}] : n \in 3 .. 4}}

SomeRow == {RowOf("value", 1, 1), RowOf("value", 2, 2), RowOf("blank", 1, 1),
            RowOf("unconvertible", 1, 2), RowOf("malformed", 1, 1), RowOf("unsupported", 1, 1)}

Rowed == {Plain(rows, atomic) : rows \in [1 .. 3 -> SomeRow], atomic \in BOOLEAN}

Quiet(file) ==
    [clients |-> {c1}, ops |-> {"load_csv"}, ids |-> {1}, files |-> {1}, requests |-> 1, csv |-> {file}]

Service(ops, ids, files, requests) ==
    [clients |-> Client, ops |-> ops, ids |-> ids, files |-> files, requests |-> requests,
     csv |-> {Plain(<<RowOf("value", 2, 1)>>, TRUE)}]

MCWorkload ==
    {Quiet(file) : file \in Encoded \cup Headed \cup Rowed}
    \cup {Service({"load_media", "begin", "insert", "end"}, {1}, {1}, 3),
          Service({"load_media", "begin", "insert"}, {1, 2}, {2}, 2),
          Service({"load_media", "drop", "create", "load_csv"}, {1}, {1}, 3),
          Service({"begin", "insert", "drop", "create", "load_csv"}, {1, 2}, {}, 3),
          Service({"load_media"}, {1}, {0, 1}, 3)}
=============================================================================
