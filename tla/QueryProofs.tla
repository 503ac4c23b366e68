----------------------------- MODULE QueryProofs -----------------------------
(***************************************************************************)
(* The way of a statement: the scanner, for every text, and the executor,  *)
(* for every statement and catalogue.                                      *)
(***************************************************************************)
EXTENDS SqlLexer, QueryPipeline, NatLemmas, SequenceTheorems

-------------------------------------------------------------------------------
(* The scanner.                                                               *)

(* The mark after i characters, read from the text. *)
MarkAt(i) == [index |-> i, line |-> LineAt(i), column |-> ColumnAt(i)]

(* The marks of the text. *)
Marks == {MarkAt(i) : i \in 0 .. Len(source)}

LexInv ==
    /\ source \in Seq(STRING) /\ \A i \in DOMAIN source : source[i] # PastEnd
    /\ mark \in Marks
    /\ \E S : tokens \in Seq(S)
    /\ \A t \in DOMAIN tokens : tokens[t].from \in Marks /\ tokens[t].to \in Marks

(* Max and Min of FiniteSetsExt on bounded sets of naturals. *)
LEMMA MaxOf ==
    ASSUME NEW n \in Nat, NEW S \in SUBSET (0 .. n), S # {}
    PROVE  Max(S) \in S /\ \A y \in S : y <= Max(S)
  BY GreatestOf, ZenonT(30) DEF Max

LEMMA MinOf ==
    ASSUME NEW S \in SUBSET Nat, S # {}
    PROVE  Min(S) \in S /\ \A y \in S : Min(S) <= y
  BY LeastOf DEF Min

(* The line feeds and carriage returns that end a line. *)
Breaker(k) == source[k] = "cr" \/ (source[k] = "lf" /\ (k = 1 \/ source[k - 1] # "cr"))

LEMMA OneMoreBreak ==
    ASSUME NEW i \in Nat \ {0}
    PROVE  Breaks(i) = IF Breaker(i) THEN Breaks(i - 1) \cup {i} ELSE Breaks(i - 1)
<1>1. 1 .. i = (1 .. i - 1) \cup {i}
  OBVIOUS
<1> QED BY <1>1 DEF Breaks, Breaker

LEMMA BreaksAreFinite ==
    ASSUME NEW i \in Nat
    PROVE  /\ IsFiniteSet(Breaks(i)) /\ Cardinality(Breaks(i)) \in Nat
           /\ Breaks(i) \in SUBSET (1 .. i)
<1>1. Breaks(i) \in SUBSET (1 .. i) /\ IsFiniteSet(1 .. i)
  BY FS_Interval DEF Breaks
<1> QED BY <1>1, FS_Subset, FS_CardinalityType

(* Where the line of the character at i begins. *)
Begun(i) == IF Breaks(i) = {} THEN 0 ELSE Max(Breaks(i))

OnTheLine(i) == {k \in (Begun(i) + 1) .. i : source[k] # "lf"}

LEMMA LineBegins ==
    ASSUME NEW i \in Nat
    PROVE  /\ Begun(i) \in 0 .. i
           /\ ColumnAt(i) = 1 + Cardinality(OnTheLine(i))
           /\ IsFiniteSet(OnTheLine(i)) /\ Cardinality(OnTheLine(i)) \in Nat
<1>1. Begun(i) \in 0 .. i
  <2>1. Breaks(i) \in SUBSET (0 .. i) /\ Breaks(i) \in SUBSET (1 .. i)
    BY BreaksAreFinite
  <2>2. CASE Breaks(i) # {}
    BY <2>1, <2>2, MaxOf DEF Begun
  <2> QED BY <2>2 DEF Begun
<1>2. OnTheLine(i) \in SUBSET ((Begun(i) + 1) .. i) /\ IsFiniteSet((Begun(i) + 1) .. i)
  <2>1. Begun(i) + 1 \in Int /\ i \in Int
    BY <1>1
  <2>2. IsFiniteSet((Begun(i) + 1) .. i)
    BY <2>1, FS_Interval
  <2> QED BY <2>2 DEF OnTheLine
<1>3. IsFiniteSet(OnTheLine(i)) /\ Cardinality(OnTheLine(i)) \in Nat
  BY <1>2, FS_Subset, FS_CardinalityType
<1>4. ColumnAt(i) = 1 + Cardinality(OnTheLine(i))
  BY DEF ColumnAt, OnTheLine, Begun
<1> QED BY <1>1, <1>3, <1>4

LEMMA AdvancedMark ==
    ASSUME NEW m \in [index : Nat, line : Nat, column : Nat]
    PROVE  Advance(m) =
             IF Character(m.index) = "lf" /\ m.index > 0 /\ source[m.index] = "cr"
             THEN [index |-> m.index + 1, line |-> m.line, column |-> m.column]
             ELSE IF Character(m.index) \in {"cr", "lf"}
             THEN [index |-> m.index + 1, line |-> m.line + 1, column |-> 1]
             ELSE [index |-> m.index + 1, line |-> m.line, column |-> m.column + 1]
<1>1. [m EXCEPT !.index = @ + 1] = [index |-> m.index + 1, line |-> m.line, column |-> m.column]
  OBVIOUS
<1>2. [m EXCEPT !.index = @ + 1, !.column = @ + 1]
         = [index |-> m.index + 1, line |-> m.line, column |-> m.column + 1]
  <2> DEFINE w == [m EXCEPT !.index = @ + 1]
  <2>1. w \in [index : Nat, line : Nat, column : Nat] /\ w.index = m.index + 1
        /\ w.line = m.line /\ w.column = m.column
    BY <1>1
  <2>2. [m EXCEPT !.index = @ + 1, !.column = @ + 1] = [w EXCEPT !.column = @ + 1]
    OBVIOUS
  <2> HIDE DEF w
  <2>3. [w EXCEPT !.column = @ + 1] = [index |-> w.index, line |-> w.line, column |-> w.column + 1]
    BY <2>1
  <2> QED BY <2>1, <2>2, <2>3
<1> QED BY <1>1, <1>2, Zenon DEF Advance

(* _advance keeps a mark exact: a line feed after a carriage return moves neither line nor
   column, another end of line begins a line, and anything else is one column more. *)
LEMMA AdvanceIsExact ==
    ASSUME source \in Seq(STRING), NEW i \in 1 .. Len(source)
    PROVE  Advance(MarkAt(i - 1)) = MarkAt(i)
<1> DEFINE c == source[i]
           m == MarkAt(i - 1)
<1>1. /\ Len(source) \in Nat /\ i \in Nat \ {0} /\ i \in Nat /\ i - 1 \in Nat /\ (i - 1) + 1 = i
      /\ i \in DOMAIN source
  BY LenProperties
<1>2. Character(i - 1) = c
  BY <1>1 DEF Character
<1>3. /\ Cardinality(Breaks(i - 1)) \in Nat /\ IsFiniteSet(Breaks(i - 1))
      /\ Cardinality(OnTheLine(i - 1)) \in Nat /\ IsFiniteSet(OnTheLine(i - 1))
      /\ Breaks(i - 1) \in SUBSET (1 .. i - 1) /\ Begun(i - 1) \in 0 .. i - 1
  BY <1>1, BreaksAreFinite, LineBegins
<1>4. /\ LineAt(i) = 1 + Cardinality(Breaks(i)) /\ LineAt(i - 1) = 1 + Cardinality(Breaks(i - 1))
      /\ ColumnAt(i) = 1 + Cardinality(OnTheLine(i))
      /\ ColumnAt(i - 1) = 1 + Cardinality(OnTheLine(i - 1))
  BY <1>1, LineBegins DEF LineAt
<1>5. m.index = i - 1 /\ m.line = LineAt(i - 1) /\ m.column = ColumnAt(i - 1)
  BY DEF MarkAt
<1>6. Advance(m) = IF c = "lf" /\ i - 1 > 0 /\ source[i - 1] = "cr"
                   THEN [index |-> i, line |-> LineAt(i - 1), column |-> ColumnAt(i - 1)]
                   ELSE IF c \in {"cr", "lf"} THEN [index |-> i, line |-> LineAt(i - 1) + 1, column |-> 1]
                   ELSE [index |-> i, line |-> LineAt(i - 1), column |-> ColumnAt(i - 1) + 1]
  <2>1. m \in [index : Nat, line : Nat, column : Nat]
    BY <1>1, <1>3, <1>4 DEF MarkAt
  <2> HIDE DEF m, c
  <2> QED BY <1>1, <1>2, <1>5, <2>1, AdvancedMark
<1>7. CASE c = "lf" /\ i - 1 > 0 /\ source[i - 1] = "cr"
  <2>1. Breaks(i) = Breaks(i - 1)
    BY <1>1, <1>7, OneMoreBreak DEF Breaker
  <2>2. OnTheLine(i) = OnTheLine(i - 1)
    <3>1. Begun(i) = Begun(i - 1)
      BY <2>1 DEF Begun
    <3>2. (Begun(i - 1) + 1) .. i = ((Begun(i - 1) + 1) .. (i - 1)) \cup {i}
      BY <1>1, <1>3
    <3> QED BY <1>7, <3>1, <3>2 DEF OnTheLine
  <2> QED BY <1>4, <1>6, <1>7, <2>1, <2>2 DEF MarkAt
<1>8. CASE ~(c = "lf" /\ i - 1 > 0 /\ source[i - 1] = "cr") /\ c \in {"cr", "lf"}
  <2>1. Breaks(i) = Breaks(i - 1) \cup {i} /\ i \notin Breaks(i - 1)
    <3>1. Breaker(i)
      BY <1>1, <1>8 DEF Breaker
    <3>2. i \notin Breaks(i - 1)
      BY <1>1, <1>3
    <3> QED BY <1>1, <3>1, <3>2, OneMoreBreak
  <2>2. Cardinality(Breaks(i)) = Cardinality(Breaks(i - 1)) + 1
    BY <1>3, <2>1, FS_AddElement
  <2>3. Begun(i) = i
    <3>1. Breaks(i) \in SUBSET (0 .. i) /\ Breaks(i) # {} /\ i \in Breaks(i)
      <4>1. Breaks(i) \in SUBSET (1 .. i)
        BY <1>1, BreaksAreFinite
      <4> QED BY <1>1, <2>1, <4>1
    <3>2. Max(Breaks(i)) \in Breaks(i) /\ i <= Max(Breaks(i))
      BY <1>1, <3>1, MaxOf
    <3>3. Max(Breaks(i)) \in 0 .. i
      BY <3>1, <3>2
    <3>4. Max(Breaks(i)) = i
      BY <1>1, <3>2, <3>3
    <3> QED BY <3>1, <3>4 DEF Begun
  <2>4. OnTheLine(i) = {}
    BY <1>1, <2>3 DEF OnTheLine
  <2>5. Cardinality(OnTheLine(i)) = 0
    BY <2>4, FS_EmptySet
  <2>6. LineAt(i) = LineAt(i - 1) + 1 /\ ColumnAt(i) = 1
    BY <1>3, <1>4, <2>2, <2>5
  <2> QED BY <1>6, <1>8, <2>6 DEF MarkAt
<1>9. CASE c \notin {"cr", "lf"}
  <2>1. Breaks(i) = Breaks(i - 1)
    BY <1>1, <1>9, OneMoreBreak DEF Breaker
  <2>2. OnTheLine(i) = OnTheLine(i - 1) \cup {i} /\ i \notin OnTheLine(i - 1)
    <3>1. Begun(i) = Begun(i - 1)
      BY <2>1 DEF Begun
    <3>2. (Begun(i - 1) + 1) .. i = ((Begun(i - 1) + 1) .. (i - 1)) \cup {i}
      BY <1>1, <1>3
    <3>3. i \notin (Begun(i - 1) + 1) .. (i - 1)
      BY <1>1, <1>3
    <3> QED BY <1>9, <3>1, <3>2, <3>3 DEF OnTheLine
  <2>3. Cardinality(OnTheLine(i)) = Cardinality(OnTheLine(i - 1)) + 1
    BY <1>3, <2>2, FS_AddElement
  <2>4. LineAt(i) = LineAt(i - 1) /\ ColumnAt(i) = ColumnAt(i - 1) + 1
    BY <1>3, <1>4, <2>1, <2>3
  <2> QED BY <1>6, <1>9, <2>4 DEF MarkAt
<1> HIDE DEF c
<1> QED BY <1>7, <1>8, <1>9 DEF c

(* The mark of a distance that is left in the text is exact. *)
LEMMA AfterIsExact ==
    ASSUME LexInv, NEW j \in 0 .. Len(source), mark = MarkAt(j), NEW n \in Nat, j + n <= Len(source)
    PROVE  After(n) = MarkAt(j + n)
<1> DEFINE Link(v, i) == IF i = 0 THEN mark ELSE Advance(v[i - 1])
           walk == [i \in 0 .. n |-> MarkAt(j + i)]
           v == CHOOSE w : w = [i \in 0 .. n |-> Link(w, i)]
<1>0. Len(source) \in Nat /\ j \in Nat /\ source \in Seq(STRING)
  <2>1. source \in Seq(STRING)
    BY DEF LexInv
  <2> QED BY <2>1, LenProperties
<1>1. After(n) = v[n]
  BY DEF After
<1>2. \A i \in 0 .. n : walk[i] = Link(walk, i)
  <2> SUFFICES ASSUME NEW i \in 0 .. n PROVE walk[i] = Link(walk, i)
    OBVIOUS
  <2>1. CASE i = 0
    BY <1>0, <2>1
  <2>2. CASE i # 0
    <3>1. i - 1 \in 0 .. n /\ j + i \in 1 .. Len(source) /\ (j + i) - 1 = j + (i - 1)
      BY <1>0, <2>2
    <3>2. Advance(MarkAt((j + i) - 1)) = MarkAt(j + i)
      BY <1>0, <3>1, AdvanceIsExact
    <3>3. walk[i] = MarkAt(j + i) /\ walk[i - 1] = MarkAt((j + i) - 1)
      BY <3>1
    <3> HIDE DEF walk
    <3> QED BY <2>2, <3>2, <3>3
  <2> QED BY <2>1, <2>2
<1>3. walk = [i \in 0 .. n |-> Link(walk, i)]
  <2> HIDE DEF Link
  <2> QED BY <1>2
<1>4. v = [i \in 0 .. n |-> Link(v, i)]
  <2> HIDE DEF walk, Link
  <2> QED BY <1>3
<1> HIDE DEF v, walk
<1> DEFINE S == {i \in Nat : i <= n => v[i] = walk[i]}
<1>5. 0 \in S
  BY <1>2, <1>4
<1>6. ASSUME NEW i \in Nat, i \in S PROVE i + 1 \in S
  <2> SUFFICES ASSUME i + 1 <= n PROVE v[i + 1] = walk[i + 1]
    OBVIOUS
  <2>1. i + 1 \in 0 .. n /\ i + 1 # 0 /\ (i + 1) - 1 = i /\ v[i] = walk[i]
    BY <1>6
  <2>2. v[i + 1] = Link(v, i + 1) /\ walk[i + 1] = Link(walk, i + 1)
    BY <1>2, <1>4, <2>1
  <2> QED BY <2>1, <2>2
<1>7. \A i \in Nat : i \in S
  <2> HIDE DEF S
  <2> QED BY <1>5, <1>6, InductionOverNat
<1>8. v[n] = walk[n]
  BY <1>7
<1> QED BY <1>1, <1>8 DEF walk

(* _peek sees no character exactly past the end. *)
LEMMA PeekSees ==
    ASSUME LexInv, NEW j \in 0 .. Len(source), mark = MarkAt(j), NEW n \in Nat
    PROVE  Peek(n) # PastEnd <=> j + n + 1 <= Len(source)
<1>1. source \in Seq(STRING) /\ \A i \in DOMAIN source : source[i] # PastEnd
  BY DEF LexInv
<1>2. Len(source) \in Nat /\ DOMAIN source = 1 .. Len(source) /\ j \in Int
  <2>1. Len(source) \in Nat /\ DOMAIN source = 1 .. Len(source)
    BY <1>1, LenProperties
  <2> QED BY <2>1
<1>3. Peek(n) = IF j + n + 1 \in DOMAIN source THEN source[j + n + 1] ELSE PastEnd
  BY DEF Peek, Character, MarkAt
<1> QED BY <1>1, <1>2, <1>3

(* A stretch ends before the text does. *)
LEMMA StretchFits ==
    ASSUME LexInv, NEW j \in 0 .. Len(source), mark = MarkAt(j), NEW d \in Nat, j + d <= Len(source),
           NEW characters, PastEnd \notin characters
    PROVE  Stretch(d, characters) \in Nat /\ j + (d + Stretch(d, characters)) <= Len(source)
<1> DEFINE left == Len(source) - mark.index - d
           S == {n \in 0 .. left : Peek(d + n) \notin characters}
<1>1. source \in Seq(STRING)
  BY DEF LexInv
<1>2. Len(source) \in Nat /\ mark.index = j /\ j \in Int
  <2>1. Len(source) \in Nat
    BY <1>1, LenProperties
  <2>2. j \in Int
    BY <2>1
  <2> QED BY <2>1, <2>2 DEF MarkAt
<1>3. left \in Nat /\ left = Len(source) - j - d
  <2> HIDE DEF left
  <2>1. left = Len(source) - j - d
    BY <1>2, Zenon DEF left
  <2> QED BY <1>2, <2>1
<1>4. Peek(d + left) = PastEnd
  <2> HIDE DEF left
  <2>1. d + left \in Nat /\ ~(j + (d + left) + 1 <= Len(source))
    BY <1>2, <1>3
  <2> QED BY <2>1, PeekSees
<1>5. S \in SUBSET Nat /\ left \in S
  <2> HIDE DEF left
  <2> QED BY <1>3, <1>4
<1>6. Min(S) \in S
  <2> HIDE DEF S
  <2> QED BY <1>5, MinOf
<1>7. Stretch(d, characters) \in 0 .. left
  BY <1>6 DEF Stretch
<1> HIDE DEF left
<1> QED BY <1>2, <1>3, <1>7

(* The marks are those of the text, which does not change. *)
LEMMA SameMarks ==
    ASSUME source' = source
    PROVE  Marks' = Marks
  BY DEF Marks, MarkAt, LineAt, ColumnAt, Breaks

LEMMA MarkMoves ==
    ASSUME LexInv, NEW j \in 0 .. Len(source), mark = MarkAt(j), NEW n \in Nat, j + n <= Len(source)
    PROVE  After(n) \in Marks
<1>1. source \in Seq(STRING)
  BY DEF LexInv
<1>2. Len(source) \in Nat
  BY <1>1, LenProperties
<1>3. j + n \in 0 .. Len(source)
  BY <1>2
<1> QED BY <1>3, AfterIsExact DEF Marks

LEMMA SkipKeepsLexInv ==
    ASSUME LexInv, NEW j \in 0 .. Len(source), mark = MarkAt(j), NEW n \in Nat, j + n <= Len(source), Skip(n)
    PROVE  LexInv'
<1>1. source' = source /\ tokens' = tokens /\ mark' = After(n)
  BY DEF Skip
<1>2. mark' \in Marks
  BY <1>1, MarkMoves
<1> QED BY <1>1, <1>2, SameMarks DEF LexInv

(* One more token, between two marks. *)
LEMMA TokenKeepsLexInv ==
    ASSUME LexInv, source' = source, mark' \in Marks, NEW kind, NEW from \in Marks, NEW to \in Marks,
           tokens' = Append(tokens, [kind |-> kind, from |-> from, to |-> to])
    PROVE  LexInv'
<1> DEFINE new == [kind |-> kind, from |-> from, to |-> to]
<1>1. PICK S : tokens \in Seq(S)
  BY DEF LexInv
<1> DEFINE T == S \cup {new}
<1>2. tokens \in Seq(T) /\ new \in T
  <2>1. S \subseteq T /\ new \in T
    OBVIOUS
  <2> HIDE DEF T, new
  <2> QED BY <1>1, <2>1, SeqMonotonic
<1>3. /\ tokens' \in Seq(T) /\ Len(tokens') = Len(tokens) + 1 /\ Len(tokens) \in Nat
      /\ \A i \in 1 .. Len(tokens) : tokens'[i] = tokens[i]
      /\ tokens'[Len(tokens) + 1] = new
      /\ DOMAIN tokens = 1 .. Len(tokens) /\ DOMAIN tokens' = 1 .. Len(tokens')
  <2>1. tokens' = Append(tokens, new)
    OBVIOUS
  <2> HIDE DEF new, T
  <2>2. tokens' \in Seq(T)
    BY <1>2, <2>1, AppendProperties
  <2> QED BY <1>2, <2>1, <2>2, AppendProperties, LenProperties
<1>4. ASSUME NEW t \in DOMAIN tokens'
      PROVE  tokens'[t].from \in Marks /\ tokens'[t].to \in Marks
  <2>1. CASE t \in 1 .. Len(tokens)
    BY <1>3, <2>1 DEF LexInv
  <2>2. CASE t = Len(tokens) + 1
    BY <1>3, <2>2
  <2> HIDE DEF new, T
  <2> QED BY <1>3, <2>1, <2>2
<1> HIDE DEF new, T
<1>5. \E X : tokens' \in Seq(X)
  BY <1>3
<1> QED BY <1>4, <1>5, SameMarks DEF LexInv

LEMMA EmitKeepsLexInv ==
    ASSUME LexInv, NEW j \in 0 .. Len(source), mark = MarkAt(j), NEW n \in Nat, j + n <= Len(source),
           NEW kind, Emit(kind, n)
    PROVE  LexInv'
<1>1. source' = source /\ mark' = After(n)
      /\ tokens' = Append(tokens, [kind |-> kind, from |-> mark, to |-> After(n)])
  BY DEF Emit
<1>2. After(n) \in Marks /\ mark \in Marks
  BY MarkMoves DEF LexInv
<1> QED BY <1>1, <1>2, TokenKeepsLexInv

LEMMA RaiseKeepsLexInv ==
    ASSUME LexInv, source' = source, mark' = mark, tokens' = tokens
    PROVE  LexInv'
  BY SameMarks DEF LexInv

(* No class of characters is the one past the end. *)
LEMMA PastEndIsNoClass ==
    /\ PastEnd \notin Whitespace /\ PastEnd \notin SingleCharacter
    /\ PastEnd \notin {"letter"} /\ PastEnd \notin {"letter", "digit"} /\ PastEnd \notin {"digit"}
    /\ PastEnd \notin {"-"} /\ PastEnd \notin {"/"} /\ PastEnd \notin {"<", ">"}
    /\ PastEnd \notin {"'"} /\ PastEnd # "digit" /\ PastEnd # "-" /\ PastEnd # "*" /\ PastEnd # "."
    /\ PastEnd # "/" /\ PastEnd # "=" /\ PastEnd # "'" /\ PastEnd \notin {"cr", "lf"}
  BY Zenon DEF PastEnd, Whitespace, SingleCharacter

(* A character that is there leaves room for it. *)
LEMMA Room ==
    ASSUME LexInv, NEW j \in 0 .. Len(source), mark = MarkAt(j), NEW n \in Nat, Peek(n) # PastEnd
    PROVE  j + (n + 1) <= Len(source) /\ j + n <= Len(source) /\ j \in Nat /\ Len(source) \in Nat
<1>1. source \in Seq(STRING)
  BY DEF LexInv
<1>2. Len(source) \in Nat
  BY <1>1, LenProperties
<1>3. j \in Nat
  BY <1>2
<1>4. j + n + 1 <= Len(source)
  BY PeekSees
<1> QED BY <1>2, <1>3, <1>4

LEMMA LexNextKeepsLexInv ==
    ASSUME LexInv, LexNext
    PROVE  LexInv'
<1>1. PICK j \in 0 .. Len(source) : mark = MarkAt(j)
  BY DEF LexInv, Marks
<1>2. source \in Seq(STRING) /\ \A i \in DOMAIN source : source[i] # PastEnd
  BY DEF LexInv
<1>3. Len(source) \in Nat /\ DOMAIN source = 1 .. Len(source)
  BY <1>2, LenProperties
<1>4. j \in Nat /\ j \in Int /\ mark.index = j
  BY <1>1, <1>3 DEF MarkAt
<1>5. CASE SkipBlank
  <2>1. Peek(0) # PastEnd /\ Skip(1)
    BY <1>5, PastEndIsNoClass DEF SkipBlank, At
  <2>2. j + (0 + 1) <= Len(source)
    BY <1>1, <2>1, Room
  <2>3. j + 1 <= Len(source)
    BY <2>2
  <2> QED BY <1>1, <2>1, <2>3, SkipKeepsLexInv
<1>6. CASE ScanWord
  <2>1. j + 0 <= Len(source)
    BY <1>3, <1>4
  <2> DEFINE n == Stretch(0, {"letter", "digit"})
  <2>2. n \in Nat /\ j + (0 + n) <= Len(source)
    BY <1>1, <2>1, StretchFits, PastEndIsNoClass
  <2>3. Emit("word", n)
    BY <1>6 DEF ScanWord
  <2> HIDE DEF n
  <2>4. j + n <= Len(source)
    BY <2>2
  <2> QED BY <1>1, <2>2, <2>3, <2>4, EmitKeepsLexInv
<1>7. CASE ScanNumber
  <2> DEFINE sign == IF Peek(0) = "-" THEN 1 ELSE 0
             whole == sign + Stretch(sign, {"digit"})
             fraction == Stretch(whole + 1, {"digit"})
  <2>1. IF Peek(whole) # "." THEN Emit("integer", whole)
        ELSE IF Peek(whole + 1) # "digit" THEN Raise
        ELSE Emit("double", whole + 1 + fraction)
    BY <1>7, Zenon DEF ScanNumber
  <2>2. sign \in Nat /\ j + sign <= Len(source)
    <3>1. Peek(0) # PastEnd
      BY <1>7, PastEndIsNoClass DEF ScanNumber, At
    <3>2. j + (0 + 1) <= Len(source)
      BY <1>1, <3>1, Room
    <3>3. sign \in {0, 1}
      OBVIOUS
    <3> HIDE DEF sign
    <3> QED BY <1>3, <1>4, <3>2, <3>3
  <2> HIDE DEF sign
  <2>3. whole \in Nat /\ j + whole <= Len(source)
    <3>1. Stretch(sign, {"digit"}) \in Nat /\ j + (sign + Stretch(sign, {"digit"})) <= Len(source)
      BY <1>1, <2>2, StretchFits, PastEndIsNoClass
    <3> QED BY <2>2, <3>1
  <2> HIDE DEF whole
  <2>4. CASE Peek(whole) # "."
    <3>1. Emit("integer", whole)
      BY <2>1, <2>4
    <3> QED BY <1>1, <2>3, <3>1, EmitKeepsLexInv
  <2>5. CASE Peek(whole) = "." /\ Peek(whole + 1) # "digit"
    <3>1. Raise
      BY <2>1, <2>5
    <3> QED BY <3>1, RaiseKeepsLexInv DEF Raise
  <2>6. CASE Peek(whole) = "." /\ Peek(whole + 1) = "digit"
    <3>1. Emit("double", whole + 1 + fraction)
      BY <2>1, <2>6
    <3>2. Peek(whole) # PastEnd
      BY <2>6, PastEndIsNoClass
    <3>3. whole + 1 \in Nat /\ j + (whole + 1) <= Len(source)
      BY <1>1, <2>3, <3>2, Room
    <3>4. fraction \in Nat /\ j + ((whole + 1) + fraction) <= Len(source)
      BY <1>1, <3>3, StretchFits, PastEndIsNoClass
    <3> HIDE DEF fraction
    <3>5. whole + 1 + fraction \in Nat /\ j + (whole + 1 + fraction) <= Len(source)
      BY <2>3, <3>4
    <3> QED BY <1>1, <3>1, <3>5, EmitKeepsLexInv
  <2> QED BY <2>4, <2>5, <2>6
<1>8. CASE SkipLineComment
  <2> DEFINE text == {source[i] : i \in DOMAIN source} \ {"cr", "lf"}
             n == Stretch(2, text)
  <2>1. Peek(1) # PastEnd /\ Skip(2 + n)
    BY <1>8, PastEndIsNoClass DEF SkipLineComment
  <2>2. j + (1 + 1) <= Len(source)
    BY <1>1, <2>1, Room
  <2>3. PastEnd \notin text
    BY <1>2
  <2> HIDE DEF text
  <2>4. n \in Nat /\ j + (2 + n) <= Len(source)
    BY <1>1, <2>2, <2>3, StretchFits
  <2> HIDE DEF n
  <2>5. 2 + n \in Nat
    BY <2>4
  <2> QED BY <1>1, <2>1, <2>4, <2>5, SkipKeepsLexInv
<1>9. CASE SkipBlockComment
  <2> DEFINE ends == {n \in 2 .. (Len(source) - mark.index - 2) : Peek(n) = "*" /\ Peek(n + 1) = "/"}
  <2>1. IF ends = {} THEN Raise ELSE Skip(Min(ends) + 2)
    BY <1>9, Zenon DEF SkipBlockComment
  <2>2. CASE ends = {}
    <3>1. Raise
      BY <2>1, <2>2
    <3> QED BY <3>1, RaiseKeepsLexInv DEF Raise
  <2>3. CASE ends # {}
    <3>1. ends \in SUBSET Nat /\ \A n \in ends : n <= Len(source) - j - 2
      BY <1>3, <1>4
    <3>2. Skip(Min(ends) + 2)
      BY <2>1, <2>3
    <3> HIDE DEF ends
    <3>3. Min(ends) \in ends
      BY <2>3, <3>1, MinOf
    <3>4. Min(ends) \in Nat /\ Min(ends) <= Len(source) - j - 2
      BY <3>1, <3>3
    <3>5. ASSUME NEW e \in Nat, e <= Len(source) - j - 2
          PROVE  e + 2 \in Nat /\ j + (e + 2) <= Len(source)
      BY <1>3, <1>4, <3>5
    <3>6. Min(ends) + 2 \in Nat /\ j + (Min(ends) + 2) <= Len(source)
      BY <3>4, <3>5
    <3> QED BY <1>1, <3>2, <3>6, SkipKeepsLexInv
  <2> QED BY <2>2, <2>3
<1>10. CASE ScanString
  <2> DEFINE Closes(n) == /\ Peek(n) = "'" /\ Peek(n + 1) # "'"
                          /\ LET run == Max({m \in 0 .. (n - 1) : m = 0 \/ Peek(m) # "'"})
                             IN (n - run) % 2 = 1
             ends == {n \in 1 .. (Len(source) - mark.index - 1) : Closes(n)}
  <2>1. IF ends = {} THEN Raise ELSE Emit("string", Min(ends) + 1)
    BY <1>10, Zenon DEF ScanString
  <2> HIDE DEF Closes
  <2>2. CASE ends = {}
    <3>1. Raise
      BY <2>1, <2>2
    <3> QED BY <3>1, RaiseKeepsLexInv DEF Raise
  <2>3. CASE ends # {}
    <3>1. ends \in SUBSET Nat /\ \A n \in ends : n <= Len(source) - j - 1
      BY <1>3, <1>4
    <3>2. Emit("string", Min(ends) + 1)
      BY <2>1, <2>3
    <3> HIDE DEF ends
    <3>3. Min(ends) \in ends
      BY <2>3, <3>1, MinOf
    <3>4. Min(ends) \in Nat /\ Min(ends) <= Len(source) - j - 1
      BY <3>1, <3>3
    <3>5. ASSUME NEW e \in Nat, e <= Len(source) - j - 1
          PROVE  e + 1 \in Nat /\ j + (e + 1) <= Len(source)
      BY <1>3, <1>4, <3>5
    <3>6. Min(ends) + 1 \in Nat /\ j + (Min(ends) + 1) <= Len(source)
      BY <3>4, <3>5
    <3> QED BY <1>1, <3>2, <3>6, EmitKeepsLexInv
  <2> QED BY <2>2, <2>3
<1>11. CASE ScanSingleCharacter
  <2>1. Peek(0) # PastEnd /\ Emit("symbol", 1)
    BY <1>11, PastEndIsNoClass DEF ScanSingleCharacter, At
  <2>2. j + (0 + 1) <= Len(source)
    BY <1>1, <2>1, Room
  <2>3. j + 1 <= Len(source)
    BY <2>2
  <2> QED BY <1>1, <2>1, <2>3, EmitKeepsLexInv
<1>12. CASE ScanComparison
  <2>1. Peek(0) # PastEnd
    BY <1>12, PastEndIsNoClass DEF ScanComparison, At
  <2>2. j + (0 + 1) <= Len(source)
    BY <1>1, <2>1, Room
  <2>3. CASE Raise
    BY <2>3, RaiseKeepsLexInv DEF Raise
  <2>4. CASE Peek(1) = "=" /\ Emit("comparison", 2)
    <3>1. Peek(1) # PastEnd
      BY <2>4, PastEndIsNoClass
    <3>2. j + (1 + 1) <= Len(source)
      BY <1>1, <3>1, Room
    <3>3. j + 2 <= Len(source)
      BY <3>2
    <3> QED BY <1>1, <2>4, <3>3, EmitKeepsLexInv
  <2>5. CASE Emit("comparison", 1)
    <3>1. j + 1 <= Len(source)
      BY <2>2
    <3> QED BY <1>1, <2>5, <3>1, EmitKeepsLexInv
  <2>6. IF Peek(0) = "<" /\ Peek(1) = ">" THEN Raise
        ELSE Emit("comparison", IF Peek(1) = "=" THEN 2 ELSE 1)
    BY <1>12 DEF ScanComparison
  <2> QED BY <2>3, <2>4, <2>5, <2>6
<1>13. CASE RaiseUnexpected
  BY <1>13, RaiseKeepsLexInv DEF RaiseUnexpected, Raise
<1>14. CASE EndOfText
  <2>1. source' = source /\ mark' = mark /\ mark \in Marks
        /\ tokens' = Append(tokens, [kind |-> "eof", from |-> mark, to |-> mark])
    BY <1>14 DEF EndOfText, LexInv
  <2> QED BY <2>1, TokenKeepsLexInv
<1> QED BY <1>5, <1>6, <1>7, <1>8, <1>9, <1>10, <1>11, <1>12, <1>13, <1>14 DEF LexNext

LEMMA LexInitIsSound == LexInit => LexInv
<1> SUFFICES ASSUME LexInit
             PROVE  LexInv
  OBVIOUS
<1>1. source \in Seq(STRING) /\ PastEnd \notin Range(source)
  BY SourceAssumption DEF LexInit
<1>2. \A i \in DOMAIN source : source[i] # PastEnd
  BY <1>1 DEF Range
<1>3. Len(source) \in Nat
  BY <1>1, LenProperties
<1>4. Breaks(0) = {} /\ OnTheLine(0) = {}
  BY DEF Breaks, OnTheLine, Begun
<1>5. MarkAt(0) = [index |-> 0, line |-> 1, column |-> 1]
  <2>1. LineAt(0) = 1
    BY <1>4, FS_EmptySet DEF LineAt
  <2>2. ColumnAt(0) = 1
    BY <1>4, FS_EmptySet, LineBegins
  <2> QED BY <2>1, <2>2 DEF MarkAt
<1>6. mark \in Marks
  BY <1>3, <1>5 DEF LexInit, Marks
<1>7. tokens \in Seq({}) /\ DOMAIN tokens = {}
  BY DEF LexInit
<1> QED BY <1>1, <1>2, <1>6, <1>7 DEF LexInv

LEMMA LexInvGivesSpans == LexInv => SpansAreExact
<1> SUFFICES ASSUME LexInv, NEW t \in DOMAIN tokens, NEW m \in Marks
             PROVE  m.line = LineAt(m.index) /\ m.column = ColumnAt(m.index)
  BY DEF SpansAreExact, LexInv
<1>1. PICK i \in 0 .. Len(source) : m = MarkAt(i)
  BY DEF Marks
<1> QED BY <1>1 DEF MarkAt

(* engine/parser/lexer.py, _advance and _span_from: for every text, every token is on the
   line and the column that its span says, counted on the text itself. *)
THEOREM SpansHold == LexSpec => []SpansAreExact
<1>1. LexInv /\ [LexNext]_lexVars => LexInv'
  BY LexNextKeepsLexInv, RaiseKeepsLexInv DEF lexVars
<1> QED BY <1>1, LexInitIsSound, LexInvGivesSpans, PTL DEF LexSpec

-------------------------------------------------------------------------------
(* The executor: what a statement holds.                                      *)

TableNames == Range(TableOrder)

(* The phases in which the tables are read or their rows worked on. *)
Working == {"reading", "joining", "grouping", "sorting", "scoring", "projecting", "answering"}

(* What is locked is the beginning of what is to be locked. *)
Begins == \E n \in 0 .. Len(ToLock) : locks = SubSeq(ToLock, 1, n)

(* The query names tables that are there. *)
Named == IsQuery /\ statement.from \in Seq(STRING) /\ statement.from # <<>> /\ Range(statement.from) \subseteq TableNames

HoldInv ==
    /\ IsQuery => statement.from \in Seq(STRING) /\ statement.from # <<>> /\ DOMAIN catalog \subseteq TableNames
    /\ phase \in {"statement", "planning"} => locks = <<>>
    /\ phase = "planning" => Named
    /\ phase = "locking" => Named /\ \E n \in 0 .. Len(ToLock) - 1 : locks = SubSeq(ToLock, 1, n)
    /\ phase \in Working => Named /\ locks = ToLock
    /\ locks # <<>> => Named /\ Begins
    /\ phase = "ended" => locks = <<>> /\ temps = {}
    /\ phase \in {"statement", "planning", "locking", "releasing", "ended"} \cup Working

LEMMA NamesAreTwo == TableNames = {"a", "b"} /\ "a" # "b" /\ TableOrder[1] = "a" /\ TableOrder[2] = "b" /\ DOMAIN TableOrder = {1, 2}
  BY DEF TableNames, Range, TableOrder

LEMMA Places == Place("a") = 1 /\ Place("b") = 2
  BY NamesAreTwo DEF Place

LEMMA RangesOfLists == Range(<<"a">>) = {"a"} /\ Range(<<"b">>) = {"b"} /\ Range(<<"a", "b">>) = {"a", "b"}
<1>1. DOMAIN <<"a">> = {1} /\ DOMAIN <<"b">> = {1} /\ DOMAIN <<"a", "b">> = {1, 2}
      /\ <<"a">>[1] = "a" /\ <<"b">>[1] = "b" /\ <<"a", "b">>[1] = "a" /\ <<"a", "b">>[2] = "b"
  OBVIOUS
<1> QED BY <1>1 DEF Range

(* The order in which a query locks: each of its tables once, in the order of their names. *)
LEMMA LockingOrder ==
    ASSUME Named
    PROVE  /\ ToLock \in {<<"a">>, <<"b">>, <<"a", "b">>}
           /\ Range(ToLock) = Range(statement.from)
<1> DEFINE tables == Range(statement.from)
           Fits(s) == \A i, j \in DOMAIN s : i < j => Place(s[i]) < Place(s[j])
           Lists == [1 .. Cardinality(tables) -> tables]
<1>1. tables \subseteq {"a", "b"} /\ tables # {}
  <2>1. DOMAIN statement.from = 1 .. Len(statement.from) /\ Len(statement.from) > 0
    BY EmptySeq, LenProperties DEF Named
  <2>2. tables = {statement.from[i] : i \in 1 .. Len(statement.from)}
    BY <2>1 DEF Range
  <2>3. 1 \in 1 .. Len(statement.from)
    <3>1. Len(statement.from) \in Nat
      BY LenProperties DEF Named
    <3> QED BY <2>1, <3>1
  <2> HIDE DEF tables, Fits, Lists
  <2>4. Range(statement.from) \subseteq TableNames /\ tables = Range(statement.from)
    BY DEF Named, tables
  <2> QED BY <2>2, <2>3, <2>4, NamesAreTwo
<1>2. ToLock = CHOOSE s \in Lists : Fits(s)
  BY DEF ToLock
<1>3. tables \in {{"a"}, {"b"}, {"a", "b"}}
  <2> HIDE DEF tables
  <2> QED BY <1>1
<1>4. CASE tables = {"a"}
  <2>1. Cardinality(tables) = 1
    BY <1>4, FS_Singleton
  <2>2. <<"a">> \in Lists /\ Fits(<<"a">>) /\ \A s \in Lists : s = <<"a">>
    BY <1>4, <2>1
  <2>3. ToLock = <<"a">>
    <3> HIDE DEF Fits, Lists
    <3> QED BY <1>2, <2>2
  <2> QED BY <1>4, <2>3, RangesOfLists
<1>5. CASE tables = {"b"}
  <2>1. Cardinality(tables) = 1
    BY <1>5, FS_Singleton
  <2>2. <<"b">> \in Lists /\ Fits(<<"b">>) /\ \A s \in Lists : s = <<"b">>
    BY <1>5, <2>1
  <2>3. ToLock = <<"b">>
    <3> HIDE DEF Fits, Lists
    <3> QED BY <1>2, <2>2
  <2> QED BY <1>5, <2>3, RangesOfLists
<1>6. CASE tables = {"a", "b"}
  <2>1. Cardinality(tables) = 2
    <3>1. "a" \notin {"b"} /\ tables = {"b"} \cup {"a"}
      BY <1>6, NamesAreTwo
    <3>2. Cardinality({"b"}) = 1 /\ IsFiniteSet({"b"})
      BY FS_Singleton
    <3>3. Cardinality({"b"} \cup {"a"}) = Cardinality({"b"}) + 1
      BY <3>1, <3>2, FS_AddElement
    <3> QED BY <3>1, <3>2, <3>3
  <2>2. <<"a", "b">> \in Lists /\ Fits(<<"a", "b">>)
    BY <1>6, <2>1, Places
  <2>3. ASSUME NEW s \in Lists, Fits(s) PROVE s = <<"a", "b">>
    <3>1. s \in [1 .. 2 -> {"a", "b"}] /\ Place(s[1]) < Place(s[2])
      BY <1>6, <2>1, <2>3
    <3>2. s[1] \in {"a", "b"} /\ s[2] \in {"a", "b"}
      <4>1. 1 \in 1 .. 2 /\ 2 \in 1 .. 2
        OBVIOUS
      <4> HIDE DEF Fits, Lists
      <4> QED BY <3>1, <4>1
    <3>3. s[1] = "a" /\ s[2] = "b"
      <4>1. ~(s[1] = s[2])
        BY <3>1, <3>2, Places
      <4>2. ~(s[1] = "b" /\ s[2] = "a")
        BY <3>1, Places
      <4> QED BY <3>2, <4>1, <4>2
    <3>4. s \in [1 .. 2 -> {"a", "b"}]
      BY <3>1
    <3> HIDE DEF Fits, Lists
    <3>5. DOMAIN s = 1 .. 2 /\ s = [i \in 1 .. 2 |-> s[i]]
      BY <3>4
    <3>6. <<"a", "b">> = [i \in 1 .. 2 |-> s[i]]
      BY <3>3
    <3> QED BY <3>5, <3>6
  <2>4. ToLock = <<"a", "b">>
    <3> HIDE DEF Fits, Lists
    <3> QED BY <1>2, <2>2, <2>3
  <2> QED BY <1>6, <2>4, RangesOfLists
<1> QED BY <1>3, <1>4, <1>5, <1>6

(* A stage of the pipeline follows another. *)
LEMMA StagesFollow ==
    ASSUME NEW done \in {0, 1}
    PROVE  StageAfter(done) \in Working
<1> DEFINE left == {i \in DOMAIN Stages : i > done /\ Needed(Stages[i])}
<1>1. DOMAIN Stages = 1 .. 4 /\ Stages[4] = "projecting" /\ Stages[1] = "grouping"
      /\ Stages[2] = "sorting" /\ Stages[3] = "scoring"
  BY DEF Stages
<1>2. Needed("projecting")
  BY DEF Needed
<1>3. left \in SUBSET Nat /\ 4 \in left /\ left \subseteq 1 .. 4
  BY <1>1, <1>2
<1>4. StageAfter(done) = Stages[Min(left)]
  BY DEF StageAfter
<1> HIDE DEF left
<1>5. Min(left) \in 1 .. 4
  BY <1>3, MinOf
<1> QED BY <1>1, <1>4, <1>5 DEF Working

LEMMA AfterReadFollows == AfterRead \in Working
  BY StagesFollow DEF AfterRead, Working

(* A step of the work keeps the locks. *)
LEMMA WorkKeeps ==
    ASSUME HoldInv, phase \in Working, statement' = statement, catalog' = catalog, locks' = locks,
           phase' \in Working \cup {"releasing"}
    PROVE  HoldInv'
<1>1. ToLock' = ToLock /\ IsQuery' = IsQuery /\ Named' = Named
  BY DEF ToLock, Place, IsQuery, Named
<1>2. phase' \notin {"statement", "planning", "locking", "ended"}
  BY DEF Working
<1> QED BY <1>1, <1>2 DEF HoldInv, Begins

LEMMA HoldInvStep ==
    ASSUME HoldInv, [QueryNext]_queryVars
    PROVE  HoldInv'
<1>1. statement' = statement => ToLock' = ToLock /\ IsQuery' = IsQuery /\ Named' = Named
  BY DEF ToLock, Place, IsQuery, Named
<1>2. CASE Define
  BY <1>1, <1>2 DEF HoldInv, Begins, Define, Ends, Running, Working
<1>3. CASE Bind
  <2>1. /\ statement' = statement /\ catalog' = catalog /\ locks' = locks /\ IsQuery /\ phase = "statement"
        /\ phase' = "releasing" \/ (phase' = "planning" /\ Binds(statement, catalog))
    BY <1>3 DEF Bind, Ends
  <2>2. Binds(statement, catalog) => Range(statement.from) \subseteq DOMAIN catalog
    BY DEF Binds, BindsDelete, BindsSelect, BindsSource
  <2>3. phase' = "planning" => Named
    BY <2>1, <2>2 DEF HoldInv, Named
  <2> QED BY <1>1, <2>1, <2>3 DEF HoldInv, Begins, Working
<1>4. CASE Optimize
  <2>1. statement' = statement /\ catalog' = catalog /\ locks' = locks /\ phase = "planning" /\ phase' \in {"releasing", "locking"}
    BY <1>4 DEF Optimize, Ends
  <2>2. Named /\ locks = <<>>
    BY <2>1 DEF HoldInv
  <2>3. ToLock \in {<<"a">>, <<"b">>, <<"a", "b">>}
    BY <2>2, LockingOrder
  <2>4. 0 \in 0 .. Len(ToLock) - 1 /\ SubSeq(ToLock, 1, 0) = <<>>
    BY <2>3
  <2> QED BY <1>1, <2>1, <2>2, <2>4 DEF HoldInv, Begins, Working
<1>5. CASE Lock
  <2>1. statement' = statement /\ catalog' = catalog /\ phase = "locking"
    BY <1>5, ZenonT(30) DEF Lock
  <2>2. PICK n \in 0 .. Len(ToLock) - 1 : locks = SubSeq(ToLock, 1, n)
    BY <2>1 DEF HoldInv
  <2>3. Named
    BY <2>1 DEF HoldInv
  <2>4. ToLock \in {<<"a">>, <<"b">>, <<"a", "b">>}
    BY <2>3, LockingOrder
  <2>5. CASE Ends("timed out") /\ UNCHANGED locks
    <3>1. locks # <<>> => Begins
      BY DEF HoldInv
    <3>2. phase' = "releasing" /\ locks' = locks
      BY <2>5, ZenonT(30) DEF Ends
    <3>3. Begins' <=> Begins
      BY <1>1, <2>1, <3>2 DEF Begins
    <3> QED BY <1>1, <2>1, <3>1, <3>2, <3>3 DEF HoldInv, Working
  <2>6. CASE /\ locks' = Append(locks, ToLock[Len(locks) + 1])
             /\ phase' = IF Len(locks') = Len(ToLock) THEN "reading" ELSE "locking"
    <3>0. Len(ToLock) \in {1, 2}
      BY <2>4
    <3>1. Len(ToLock) \in {1, 2} /\ n \in 0 .. 1 /\ n + 1 \in 0 .. Len(ToLock)
      <4>1. ASSUME NEW l \in {1, 2}, n \in 0 .. l - 1
            PROVE  n \in 0 .. 1 /\ n + 1 \in 0 .. l
        BY <4>1
      <4> QED BY <2>2, <3>0, <4>1
    <3>2. locks' = SubSeq(ToLock, 1, n + 1) /\ Len(locks') = n + 1 /\ SubSeq(ToLock, 1, Len(ToLock)) = ToLock
      BY <2>2, <2>4, <2>6, <3>1
    <3>3. CASE n + 1 = Len(ToLock)
      <4>1. phase' = "reading" /\ locks' = ToLock
        BY <2>6, <3>2, <3>3, ZenonT(30)
      <4> QED BY <1>1, <2>1, <2>3, <3>1, <3>2, <4>1 DEF HoldInv, Begins, Working
    <3>4. CASE n + 1 # Len(ToLock)
      <4>0. n + 1 \in 0 .. Len(ToLock) - 1
        BY <3>1, <3>4
      <4>1. phase' = "locking" /\ n + 1 \in 0 .. Len(ToLock) - 1
        BY <2>6, <3>2, <3>4, <4>0, ZenonT(30)
      <4> QED BY <1>1, <2>1, <2>3, <3>1, <3>2, <4>1 DEF HoldInv, Begins, Working
    <3> QED BY <3>3, <3>4
  <2> QED BY <1>5, <2>5, <2>6, ZenonT(30) DEF Lock
<1>6. CASE ReadLeaf
  <2>1. phase = "reading" /\ statement' = statement /\ catalog' = catalog /\ locks' = locks
        /\ (phase' \in {"releasing", "reading"} \/ phase' = AfterRead)
    BY <1>6, ZenonT(30) DEF ReadLeaf, Ends
  <2> QED BY <2>1, AfterReadFollows, WorkKeeps DEF Working
<1>7. CASE OpenJoin
  BY <1>7, WorkKeeps DEF OpenJoin, Working
<1>8. CASE Partition
  BY <1>8, WorkKeeps DEF Partition, Working
<1>9. CASE JoinBlock
  <2>1. phase = "joining" /\ statement' = statement /\ catalog' = catalog /\ locks' = locks /\ phase' = phase
    BY <1>9 DEF JoinBlock
  <2> QED BY <2>1, WorkKeeps DEF Working
<1>10. CASE Probe
  <2>1. phase = "joining" /\ statement' = statement /\ catalog' = catalog /\ locks' = locks /\ phase' \in {"joining", "releasing"}
    BY <1>10, ZenonT(30) DEF Probe, Ends
  <2> QED BY <2>1, WorkKeeps DEF Working
<1>11. CASE CloseJoin
  <2>1. phase = "joining" /\ statement' = statement /\ catalog' = catalog /\ locks' = locks /\ phase' = StageAfter(0)
    BY <1>11 DEF CloseJoin
  <2> QED BY <2>1, StagesFollow, WorkKeeps DEF Working
<1>12. CASE Group
  <2>1. phase = "grouping" /\ statement' = statement /\ catalog' = catalog /\ locks' = locks
        /\ phase' \in {"projecting", StageAfter(1)}
    BY <1>12 DEF Group
  <2> QED BY <2>1, StagesFollow, WorkKeeps DEF Working
<1>13. CASE SortOrder
  BY <1>13, WorkKeeps DEF SortOrder, Working
<1>14. CASE OrderByScore
  BY <1>14, WorkKeeps DEF OrderByScore, Working
<1>15. CASE Project
  BY <1>15, WorkKeeps DEF Project, Working
<1>16. CASE Answer
  BY <1>16, WorkKeeps DEF Answer, Ends, Working
<1>17. CASE Fault
  BY <1>17, WorkKeeps, ZenonT(30) DEF Fault, Ends, Working
<1>18. CASE GiveBack
  <2>1. statement' = statement /\ catalog' = catalog /\ phase = "releasing"
    BY <1>18 DEF GiveBack
  <2>2. CASE temps # {}
    BY <1>1, <1>18, <2>1, <2>2 DEF GiveBack, HoldInv, Begins, Working
  <2>3. CASE temps = {} /\ locks # <<>>
    <3>1. locks' = Front(locks) /\ phase' = "releasing"
      BY <1>18, <2>3 DEF GiveBack
    <3>2. PICK n \in 0 .. Len(ToLock) : locks = SubSeq(ToLock, 1, n)
      BY <2>3 DEF HoldInv, Begins
    <3>3. Named
      BY <2>3 DEF HoldInv
    <3>4. ToLock \in {<<"a">>, <<"b">>, <<"a", "b">>}
      BY <3>3, LockingOrder
    <3>5. n \in {1, 2} /\ n - 1 \in 0 .. Len(ToLock) /\ Front(locks) = SubSeq(ToLock, 1, n - 1)
      BY <2>3, <3>2, <3>4 DEF Front
    <3> QED BY <1>1, <2>1, <3>1, <3>3, <3>5 DEF HoldInv, Begins, Working
  <2>4. CASE temps = {} /\ locks = <<>>
    BY <1>1, <1>18, <2>1, <2>4 DEF GiveBack, HoldInv, Begins, Working
  <2> QED BY <2>2, <2>3, <2>4
<1>19. CASE UNCHANGED queryVars
  BY <1>1, <1>19 DEF queryVars, HoldInv, Begins
<1> QED BY <1>2, <1>3, <1>4, <1>5, <1>6, <1>7, <1>8, <1>9, <1>10, <1>11, <1>12, <1>13, <1>14, <1>15,
           <1>16, <1>17, <1>18, <1>19 DEF QueryNext

LEMMA HoldInvInit == QueryInit => HoldInv
<1> SUFFICES ASSUME QueryInit
             PROVE  HoldInv
  OBVIOUS
<1>1. PICK case \in Workload : statement = case[1] /\ catalog = case[2]
  BY ZenonT(30) DEF QueryInit
<1>2. IsQuery => statement.from \in Seq(STRING) /\ statement.from # <<>> /\ DOMAIN catalog \subseteq TableNames
  BY <1>1, WorkloadAssumption DEF IsQuery, TableNames
<1> QED BY <1>2, ZenonT(30) DEF QueryInit, HoldInv, Working

LEMMA HoldInvHolds == HoldInv => HoldsWhatItReads
<1> SUFFICES ASSUME HoldInv
             PROVE  HoldsWhatItReads
  OBVIOUS
<1>1. phase \in Working => Range(locks) = Range(statement.from)
  BY LockingOrder DEF HoldInv
<1>2. ASSUME NEW i \in DOMAIN locks, NEW j \in DOMAIN locks, i < j
      PROVE  \E m, n \in DOMAIN TableOrder : m < n /\ TableOrder[m] = locks[i] /\ TableOrder[n] = locks[j]
  <2>1. locks # <<>>
    BY <1>2
  <2>2. PICK n \in 0 .. Len(ToLock) : locks = SubSeq(ToLock, 1, n)
    BY <2>1 DEF HoldInv, Begins
  <2>3. ToLock \in {<<"a">>, <<"b">>, <<"a", "b">>}
    BY <2>1, LockingOrder DEF HoldInv
  <2>5. Len(ToLock) \in {1, 2} /\ n \in 0 .. 2
    <3>1. Len(ToLock) \in {1, 2}
      BY <2>3
    <3> QED BY <2>2, <3>1
  <2>6. ToLock \in Seq({"a", "b"}) /\ Len(locks) = n /\ DOMAIN locks = 1 .. n
    <3>1. ToLock \in Seq({"a", "b"})
      <4>1. <<"a">> \in Seq({"a", "b"}) /\ <<"b">> \in Seq({"a", "b"}) /\ <<"a", "b">> \in Seq({"a", "b"})
        OBVIOUS
      <4> QED BY <2>3, <4>1
    <3>2. SubSeq(ToLock, 1, n) \in Seq({"a", "b"}) /\ Len(SubSeq(ToLock, 1, n)) = n
      BY <2>2, <2>5, <3>1, SubSeqProperties
    <3> QED BY <2>2, <3>1, <3>2, LenProperties
  <2>7. i \in 1 .. n /\ j \in 1 .. n
    BY <2>6
  <2>8. n = 2 /\ i = 1 /\ j = 2 /\ Len(ToLock) = 2
    BY <1>2, <2>2, <2>5, <2>7
  <2>9. ToLock = <<"a", "b">>
    BY <2>3, <2>8
  <2>4. locks[1] = "a" /\ locks[2] = "b" /\ i = 1 /\ j = 2
    <3>1. \A k \in 1 .. 2 : SubSeq(ToLock, 1, 2)[k] = ToLock[k]
      BY <2>6, <2>8, SubSeqProperties
    <3>2. ToLock[1] = "a" /\ ToLock[2] = "b"
      BY <2>9
    <3> QED BY <2>2, <2>8, <3>1, <3>2
  <2> QED BY <2>4, NamesAreTwo
<1> QED BY <1>1, <1>2 DEF HoldsWhatItReads, HoldInv, Working

(* engine/executor/processor.py, _select: for every statement and every catalogue, the tables
   are read under the locks of all of them, the locks are taken in the order of the names,
   and neither a lock nor a temporary file is left when the statement has ended. *)
THEOREM LocksAreHeld == QuerySpec => []HoldsWhatItReads
  BY HoldInvInit, HoldInvStep, HoldInvHolds, PTL DEF QuerySpec

=============================================================================
