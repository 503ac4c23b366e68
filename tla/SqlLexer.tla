------------------------------ MODULE SqlLexer ------------------------------
(* engine/parser/lexer.py: the scanner, one token or one stretch of blanks or *)
(* comment a step. A character is the class the scanner tells apart; a token  *)
(* is its kind and its span: [start, end) with the line and column of both.   *)
EXTENDS Integers, Sequences, SequencesExt, FiniteSets, FiniteSetsExt

CONSTANT Source   \* the texts the scanner is given

PastEnd == ""   \* what _peek answers where there is no character

ASSUME SourceAssumption == \A text \in Source : text \in Seq(STRING) /\ PastEnd \notin Range(text)

VARIABLES
    source,  \* the text: a sequence of character classes
    mark,    \* how many characters have been consumed, and the line and column there
    tokens,  \* the tokens so far
    scan     \* "scanning", "done" or "error"

lexVars == <<source, mark, tokens, scan>>

(* "digit" is 0-9 and "letter" any letter or _; "other" fits nowhere.         *)
Whitespace == {"space", "cr", "lf"}
SingleCharacter == {"(", ")", ",", ";", "*", ".", "="}

LexInit ==
    /\ source \in Source
    /\ mark = [index |-> 0, line |-> 1, column |-> 1]
    /\ tokens = <<>>
    /\ scan = "scanning"

Character(i) == IF i + 1 \in DOMAIN source THEN source[i + 1] ELSE PastEnd

(* _peek: the character `distance` ahead, if there is one.                    *)
Peek(distance) == Character(mark.index + distance)

(* Variant: every line feed begins a line.                                    *)
AdvanceByFeed(m) ==
    IF Character(m.index) \in {"cr", "lf"}
    THEN [index |-> m.index + 1, line |-> m.line + 1, column |-> 1]
    ELSE [m EXCEPT !.index = @ + 1, !.column = @ + 1]

(* _advance: the mark after the character. A line feed after a carriage       *)
(* return is on the line that one has begun.                                  *)
Advance(m) ==
    LET character == Character(m.index)
        second == character = "lf" /\ m.index > 0 /\ source[m.index] = "cr"
    IN IF second THEN [m EXCEPT !.index = @ + 1]
       ELSE IF character \in {"cr", "lf"} THEN [index |-> m.index + 1, line |-> m.line + 1, column |-> 1]
       ELSE [m EXCEPT !.index = @ + 1, !.column = @ + 1]

(* The mark after n characters have been advanced over.                       *)
After(n) ==
    LET m[i \in 0 .. n] == IF i = 0 THEN mark ELSE LET before == m[i - 1] IN Advance(before)
    IN m[n]

(* How many characters are in the set, from a distance on.                    *)
Stretch(distance, characters) ==
    Min({n \in 0 .. (Len(source) - mark.index - distance) : Peek(distance + n) \notin characters})

Emit(kind, n) ==
    /\ mark' = After(n)
    /\ tokens' = Append(tokens, [kind |-> kind, from |-> mark, to |-> After(n)])
    /\ UNCHANGED <<source, scan>>

Skip(n) == mark' = After(n) /\ UNCHANGED <<source, tokens, scan>>

Raise == scan' = "error" /\ UNCHANGED <<source, mark, tokens>>

At(characters) == scan = "scanning" /\ Peek(0) \in characters

SkipBlank == At(Whitespace) /\ Skip(1)

ScanWord ==
    /\ At({"letter"})
    /\ Emit("word", Stretch(0, {"letter", "digit"}))

(* An integer or a double; "1." is incomplete. A minus before a digit is part *)
(* of the number.                                                             *)
ScanNumber ==
    LET sign == IF Peek(0) = "-" THEN 1 ELSE 0
        whole == sign + Stretch(sign, {"digit"})
        fraction == Stretch(whole + 1, {"digit"})
    IN /\ At({"digit"}) \/ (At({"-"}) /\ Peek(1) = "digit")
       /\ IF Peek(whole) # "." THEN Emit("integer", whole)
          ELSE IF Peek(whole + 1) # "digit" THEN Raise
          ELSE Emit("double", whole + 1 + fraction)

SkipLineComment ==
    /\ At({"-"}) /\ Peek(1) = "-"
    /\ Skip(2 + Stretch(2, {source[i] : i \in DOMAIN source} \ {"cr", "lf"}))

(* The first * / after the opening, or the text ends inside the comment.      *)
SkipBlockComment ==
    LET ends == {n \in 2 .. (Len(source) - mark.index - 2) : Peek(n) = "*" /\ Peek(n + 1) = "/"}
    IN /\ At({"/"}) /\ Peek(1) = "*"
       /\ IF ends = {} THEN Raise ELSE Skip(Min(ends) + 2)

(* Two quotes inside a string are one quote: it ends at the first that is not *)
(* followed by another, pairs being taken from the left.                      *)
ScanString ==
    LET ends == {n \in 1 .. (Len(source) - mark.index - 1) :
                    /\ Peek(n) = "'" /\ Peek(n + 1) # "'"
                    /\ LET run == Max({m \in 0 .. (n - 1) : m = 0 \/ Peek(m) # "'"})
                       IN (n - run) % 2 = 1}
    IN /\ At({"'"})
       /\ IF ends = {} THEN Raise ELSE Emit("string", Min(ends) + 1)

ScanSingleCharacter == At(SingleCharacter) /\ Emit("symbol", 1)

(* <, <=, > and >=; <> is refused.                                            *)
ScanComparison ==
    /\ At({"<", ">"})
    /\ IF Peek(0) = "<" /\ Peek(1) = ">" THEN Raise
       ELSE Emit("comparison", IF Peek(1) = "=" THEN 2 ELSE 1)

RaiseUnexpected ==
    \/ At({"!", "other"}) /\ Raise
    \/ At({"-"}) /\ Peek(1) \notin {"-", "digit"} /\ Raise
    \/ At({"/"}) /\ Peek(1) # "*" /\ Raise

EndOfText ==
    /\ scan = "scanning" /\ mark.index = Len(source)
    /\ scan' = "done"
    /\ tokens' = Append(tokens, [kind |-> "eof", from |-> mark, to |-> mark])
    /\ UNCHANGED <<source, mark>>

LexNext ==
    \/ SkipBlank \/ ScanWord \/ ScanNumber \/ SkipLineComment \/ SkipBlockComment
    \/ ScanString \/ ScanSingleCharacter \/ ScanComparison \/ RaiseUnexpected \/ EndOfText

LexSpec == LexInit /\ [][LexNext]_lexVars

-----------------------------------------------------------------------------
(* Line and column of the character at i, counted on the text: a line ends at *)
(* a carriage return, a line feed, or one after the other.                    *)
Breaks(i) == {k \in 1 .. i : source[k] = "cr" \/ (source[k] = "lf" /\ (k = 1 \/ source[k - 1] # "cr"))}

LineAt(i) == 1 + Cardinality(Breaks(i))

ColumnAt(i) ==
    LET begun == IF Breaks(i) = {} THEN 0 ELSE Max(Breaks(i))
    IN 1 + Cardinality({k \in (begun + 1) .. i : source[k] # "lf"})

(* _advance and _span_from: every token is where its span says, whatever line *)
(* ends, strings and comments come before it, so that an error is underlined  *)
(* in the right place.                                                        *)
SpansAreExact ==
    \A t \in DOMAIN tokens : \A m \in {tokens[t].from, tokens[t].to} :
        m.line = LineAt(m.index) /\ m.column = ColumnAt(m.index)
=============================================================================
