------------------------------ MODULE CsvFormat ------------------------------
(* engine/executor/bulk_load.py: how an uploaded file is decoded, how its    *)
(* header is matched with the columns of the table, and what a field becomes. *)
(* A byte is represented by its class, a column name by its letter and case,  *)
(* a field by the spelling class its conversion tells apart.                  *)
EXTENDS Integers, Sequences, SequencesExt, FiniteSets, FiniteSetsExt

(* Byte classes: an ASCII byte, a newline, the first byte of a two- and of a  *)
(* three-byte UTF-8 sequence, a continuation byte that is a cp1252 letter and *)
(* one cp1252 leaves undefined (0x81), and a byte that is never UTF-8 (0xC0). *)
Bytes == {"ascii", "newline", "lead2", "lead3", "tail", "tail_undefined", "never"}

IsTail(b) == b \in {"tail", "tail_undefined"}

Expects(b) == CASE b = "lead2" -> 1 [] b = "lead3" -> 2 [] OTHER -> 0

Newlines(bytes) == Cardinality({i \in DOMAIN bytes : bytes[i] = "newline"})

(* The incremental UTF-8 decoder: where the sequence that is still open after *)
(* each byte begins, 0 when none is, and the bytes it raises at.              *)
Open(bytes) ==
    LET lead[i \in 0 .. Len(bytes)] ==
            IF i = 0 THEN 0
            ELSE LET before == lead[i - 1]
                 IN IF before = 0 THEN IF Expects(bytes[i]) > 0 THEN i ELSE 0
                    ELSE IF i = before + Expects(bytes[before]) THEN 0 ELSE before
    IN lead

Raises(bytes, lead) ==
    {i \in DOMAIN bytes : IF lead[i - 1] = 0 THEN IsTail(bytes[i]) \/ bytes[i] = "never"
                                             ELSE ~IsTail(bytes[i])}

(* check_utf8: 0, or the line of the error. The lines of the blocks before    *)
(* were counted; of this one, those before the sequence that is invalid, which*)
(* may have begun in an earlier block.                                        *)
check_utf8(bytes, size) ==
    LET lead == Open(bytes)
        raises == Raises(bytes, lead)
    IN IF raises = {} THEN IF lead[Len(bytes)] = 0 THEN 0 ELSE 1 + Newlines(bytes)
       ELSE LET at == Min(raises)
                block == ((at - 1) \div size) * size
                start == IF lead[at - 1] = 0 THEN at ELSE lead[at - 1]
            IN 1 + Newlines(SubSeq(bytes, 1, block)) + Newlines(SubSeq(bytes, block + 1, start - 1))

(* Variant: each block is searched on its own.                                *)
HasMultibyteInBlock(bytes, size) ==
    \E block \in 0 .. (Len(bytes) \div size) :
        \E i \in (block * size + 1) .. (Min({Len(bytes), (block + 1) * size}) - 1) :
            Expects(bytes[i]) > 0 /\ IsTail(bytes[i + 1])

(* _tiene_utf8_multibyte: each block is searched with the last byte before it.*)
HasMultibyte(bytes, size) ==
    \E block \in 0 .. (Len(bytes) \div size) :
        \E i \in Max({1, block * size}) .. (Min({Len(bytes), (block + 1) * size}) - 1) :
            Expects(bytes[i]) > 0 /\ IsTail(bytes[i + 1])

(* detect_encoding: the encoding, or the line of the error.                   *)
detect_encoding(bytes, size) ==
    LET line == check_utf8(bytes, size)
    IN CASE line = 0 -> [encoding |-> "utf-8", line |-> 0]
         [] line # 0 /\ (HasMultibyte(bytes, size)
                         \/ \E i \in DOMAIN bytes : bytes[i] = "tail_undefined")
              -> [encoding |-> "rejected", line |-> line]
         [] OTHER -> [encoding |-> "cp1252", line |-> 0]

-----------------------------------------------------------------------------
(* Column names: [letter, upper]; the name of an unnamed column has no letter.*)
Unnamed == [letter |-> "", upper |-> FALSE]

Fold(name) == name.letter

(* The names of the header without the unnamed columns at its end.            *)
Named(header) ==
    LET last == {i \in DOMAIN header : header[i] # Unnamed}
    IN IF last = {} THEN <<>> ELSE SubSeq(header, 1, CHOOSE i \in last : \A j \in last : j <= i)

(* The column a name of the header stands for: itself, or the only column     *)
(* that differs from it in case.                                              *)
StandsFor(name, columns) ==
    IF name \in Range(columns) THEN {name}
    ELSE LET folded == {c \in Range(columns) : Fold(c) = Fold(name)}
         IN IF Cardinality(folded) = 1 THEN folded ELSE {}

(* Variant: a column may come twice.                                          *)
MatchRepeated(header, columns) ==
    LET names == Named(header)
        claims(c) == {i \in DOMAIN names : c \in StandsFor(names[i], columns)}
    IN IF names = <<>> \/ Unnamed \in Range(names)
          \/ (\E i \in DOMAIN names : StandsFor(names[i], columns) = {})
          \/ \E i \in DOMAIN columns : claims(columns[i]) = {}
       THEN <<>>
       ELSE [i \in DOMAIN columns |-> CHOOSE p \in claims(columns[i]) : TRUE]

(* match_header: the position in the file of every column, <<>> when it is    *)
(* refused because a column is missing, unknown or repeated.                  *)
match_header(header, columns) ==
    LET names == Named(header)
        claims(c) == {i \in DOMAIN names : c \in StandsFor(names[i], columns)}
        unknown == {i \in DOMAIN names : StandsFor(names[i], columns) = {}}
    IN IF names = <<>> \/ Unnamed \in Range(names) \/ unknown # {}
          \/ \E i \in DOMAIN columns : Cardinality(claims(columns[i])) # 1
       THEN <<>>
       ELSE [i \in DOMAIN columns |-> CHOOSE p \in claims(columns[i]) : TRUE]
=============================================================================
