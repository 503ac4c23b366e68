---------------------------- MODULE SequentialChain ----------------------------
(***************************************************************************)
(* The chain of groups of a sequential file, without its calls: what its   *)
(* searches find in it, and that it stays in key order, with every live    *)
(* row once, when a row comes to a group or leaves it, when a group is     *)
(* split, and when all of it is written again.                             *)
(***************************************************************************)
EXTENDS SequentialFile, NatLemmas, SequenceTheorems

(* The constructor requires two slots per page; keys are ordered as integers, and the bound on
   the pages of a run leaves a page for each. *)
SoundSetup(s) ==
    /\ s.keys \subseteq Int /\ s.slots \in Nat /\ s.slots >= 2
    /\ s.pages \in Nat /\ IsFiniteSet(s.keys) /\ Cardinality(s.keys) <= s.pages
SetupsAreSound == \A s \in Setups : SoundSetup(s)

SlotsIn(s) == [key : s.keys, val : s.vals, live : BOOLEAN]
PagesIn(s) == [slots : Seq(SlotsIn(s)), next : 0 .. s.pages, overflow : 0 .. s.pages]
Images(s) == [1 .. s.pages -> PagesIn(s)]

Ordered(slots) == \A i, j \in DOMAIN slots : i <= j => slots[i].key <= slots[j].key

-------------------------------------------------------------------------------
(* The binary search of a page.                                               *)

(* sequential_file.cpp, lower_bound_in_page: on a page in key order, the binary search
   gives how many slots come before the key. *)
LEMMA BinarySearch ==
    ASSUME NEW slots, NEW n \in Nat, Len(slots) = n, DOMAIN slots = 1 .. n,
           \A i \in 1 .. n : slots[i].key \in Int, Ordered(slots), NEW key \in Int
    PROVE  /\ LowerBound(slots, key) \in 0 .. n
           /\ \A i \in 1 .. n : i <= LowerBound(slots, key) <=> slots[i].key < key
<1> DEFINE Less == {0} \cup {i \in 1 .. n : slots[i].key < key}
<1>1. PICK b \in Less : \A i \in Less : i <= b
  <2>1. Less \in SUBSET (0 .. n) /\ Less # {}
    OBVIOUS
  <2> HIDE DEF Less
  <2> QED BY <2>1, GreatestOf
<1>2. b \in 0 .. n
  OBVIOUS
<1>3. ASSUME NEW i \in 1 .. n PROVE i <= b <=> slots[i].key < key
  <2>1. slots[i].key < key => i <= b
    BY <1>1
  <2>2. CASE i <= b
    <3>1. b \in 1 .. n /\ slots[b].key < key
      BY <1>2, <2>2
    <3>2. slots[i].key <= slots[b].key
      BY <2>2, <3>1 DEF Ordered
    <3> QED BY <2>2, <3>1, <3>2
  <2> QED BY <2>1, <2>2
<1> HIDE DEF Less
<1> DEFINE Ranges == [low : 0 .. n, high : 0 .. n]
           Middle(now) == now.low + (now.high - now.low) \div 2
           Narrowed(now) == IF now.low >= now.high THEN now
                            ELSE IF slots[Middle(now) + 1].key < key THEN [now EXCEPT !.low = Middle(now) + 1]
                            ELSE [now EXCEPT !.high = Middle(now)]
           Searching(f) == [i \in 0 .. n |-> IF i = 0 THEN [low |-> 0, high |-> n] ELSE Narrowed(f[i - 1])]
           search == CHOOSE f : f = Searching(f)
           Right(now, i) == /\ now \in Ranges /\ now.low <= b /\ b <= now.high
                            /\ now.high - now.low <= n - i
<1>4. ASSUME NEW i \in 0 .. n - 1, NEW now, Right(now, i)
      PROVE  Right(Narrowed(now), i + 1)
  <2>1. now.low \in 0 .. n /\ now.high \in 0 .. n
    BY <1>4
  <2>2. CASE now.low >= now.high
    BY <1>2, <1>4, <2>1, <2>2
  <2>3. CASE now.low < now.high
    <3>1. Middle(now) \in now.low .. now.high - 1
      BY <2>1, <2>3
    <3>2. PICK mid \in now.low .. now.high - 1 : mid = Middle(now)
      BY <3>1
    <3> HIDE DEF Middle
    <3>3. mid \in 0 .. n - 1 /\ mid + 1 \in 1 .. n
      BY <2>1, <3>2
    <3>4. slots[mid + 1].key < key <=> mid + 1 <= b
      BY <1>3, <3>3
    <3>5. Narrowed(now) = IF mid + 1 <= b THEN [now EXCEPT !.low = mid + 1] ELSE [now EXCEPT !.high = mid]
      BY <2>1, <2>3, <3>2, <3>4
    <3> HIDE DEF Narrowed
    <3>6. CASE mid + 1 <= b
      BY <1>2, <1>4, <2>1, <3>2, <3>3, <3>5, <3>6, SMTT(30)
    <3>7. CASE ~(mid + 1 <= b)
      BY <1>2, <1>4, <2>1, <3>2, <3>3, <3>5, <3>7, SMTT(30)
    <3> QED BY <3>6, <3>7
  <2> QED BY <2>1, <2>2, <2>3
<1>5. Right([low |-> 0, high |-> n], 0)
  BY <1>2
<1> HIDE DEF Narrowed
<1> DEFINE Steps(f, m) == f[0] = [low |-> 0, high |-> n] /\ \A i \in 1 .. m : f[i] = Narrowed(f[i - 1])
           S == {m \in Nat : m <= n => \E f : f = [i \in 0 .. m |-> f[i]] /\ Steps(f, m)}
<1>6. 0 \in S
  <2> DEFINE f == [i \in 0 .. 0 |-> [low |-> 0, high |-> n]]
  <2>1. f = [i \in 0 .. 0 |-> f[i]] /\ Steps(f, 0)
    OBVIOUS
  <2> QED BY <2>1
<1>7. ASSUME NEW m \in Nat, m \in S PROVE m + 1 \in S
  <2> SUFFICES ASSUME m + 1 <= n
               PROVE  \E f : f = [i \in 0 .. m + 1 |-> f[i]] /\ Steps(f, m + 1)
    OBVIOUS
  <2>1. PICK f : f = [i \in 0 .. m |-> f[i]] /\ Steps(f, m)
    BY <1>7
  <2> DEFINE more == [i \in 0 .. m + 1 |-> IF i = m + 1 THEN Narrowed(f[m]) ELSE f[i]]
  <2>2. more = [i \in 0 .. m + 1 |-> more[i]]
    OBVIOUS
  <2>3. \A i \in 0 .. m : more[i] = f[i]
    OBVIOUS
  <2>4. more[m + 1] = Narrowed(f[m])
    OBVIOUS
  <2> HIDE DEF more
  <2>5. more[0] = [low |-> 0, high |-> n]
    BY <2>1, <2>3
  <2>6. ASSUME NEW i \in 1 .. m + 1 PROVE more[i] = Narrowed(more[i - 1])
    <3>1. i - 1 \in 0 .. m /\ more[i - 1] = f[i - 1] /\ (i \in 1 .. m \/ i = m + 1)
      BY <2>3
    <3>2. CASE i \in 1 .. m
      <4>1. more[i] = f[i]
        BY <2>3, <3>2
      <4> QED BY <2>1, <3>1, <3>2, <4>1
    <3>3. CASE i = m + 1
      BY <2>4, <3>1, <3>3
    <3> QED BY <3>1, <3>2, <3>3
  <2> QED BY <2>2, <2>5, <2>6
<1>8. n \in S
  <2> HIDE DEF S
  <2> QED BY <1>6, <1>7, InductionOverNat
<1>9. PICK f : f = [i \in 0 .. n |-> f[i]] /\ Steps(f, n)
  BY <1>8
<1>10. f = Searching(f)
  <2>1. ASSUME NEW i \in 0 .. n PROVE f[i] = IF i = 0 THEN [low |-> 0, high |-> n] ELSE Narrowed(f[i - 1])
    <3>1. Steps(f, n)
      <4> HIDE DEF Steps
      <4> QED BY <1>9
    <3>2. (i = 0 \/ i \in 1 .. n) /\ 0 \notin 1 .. n
      OBVIOUS
    <3> QED BY <3>1, <3>2
  <2> QED BY <1>9, <2>1
<1>11. search = Searching(search)
  <2> HIDE DEF Searching
  <2> QED BY <1>10
<1>12. LowerBound(slots, key) = search[n].low
  BY DEF LowerBound, Narrowed, Middle
<1> HIDE DEF search
<1>13. ASSUME NEW i \in 0 .. n
       PROVE  search[i] = IF i = 0 THEN [low |-> 0, high |-> n] ELSE Narrowed(search[i - 1])
  <2>1. Searching(search)[i] = IF i = 0 THEN [low |-> 0, high |-> n] ELSE Narrowed(search[i - 1])
    OBVIOUS
  <2> HIDE DEF Searching
  <2> QED BY <1>11, <2>1
<1> DEFINE T == {m \in Nat : m <= n => Right(search[m], m)}
<1>14. 0 \in T
  <2>1. search[0] = [low |-> 0, high |-> n]
    BY <1>13
  <2> HIDE DEF Right
  <2> QED BY <1>5, <2>1
<1>15. ASSUME NEW m \in Nat, m \in T PROVE m + 1 \in T
  <2> HIDE DEF Right
  <2> SUFFICES ASSUME m + 1 <= n PROVE Right(search[m + 1], m + 1)
    OBVIOUS
  <2>1. m \in 0 .. n - 1 /\ m + 1 \in 0 .. n /\ m + 1 # 0 /\ (m + 1) - 1 = m
    OBVIOUS
  <2>2. search[m + 1] = Narrowed(search[m])
    BY <1>13, <2>1
  <2>3. Right(search[m], m)
    BY <1>15, <2>1
  <2> QED BY <1>4, <2>1, <2>2, <2>3
<1>16. n \in T
  <2> HIDE DEF T
  <2> QED BY <1>14, <1>15, InductionOverNat
<1>17. search[n].low = b
  <2>1. Right(search[n], n)
    <3> HIDE DEF Right
    <3> QED BY <1>16
  <2> QED BY <1>2, <2>1
<1> QED BY <1>2, <1>3, <1>12, <1>17, ZenonT(30)

-------------------------------------------------------------------------------
(* The chain of pages, and what is read from a list of them.                  *)

LEMMA CountFromZero ==
    ASSUME NEW n \in Nat
    PROVE  Cardinality(0 .. n - 1) = n
<1>1. 0 \in Int /\ n - 1 \in Int
  OBVIOUS
<1>2. Cardinality(0 .. n - 1) = IF 0 > n - 1 THEN 0 ELSE (n - 1) - 0 + 1
  BY ONLY <1>1, FS_Interval
<1> QED BY <1>2

(* The pages of a list are linked by the field next; and its first page. *)
Linked(d, main, n) ==
    \A i \in 1 .. n : main[i] # NoPage /\ d.pages[main[i]].next = (IF i = n THEN NoPage ELSE main[i + 1])
HeadOf(main, n) == IF n = 0 THEN NoPage ELSE main[1]

(* sequential_file.cpp, build_directory: the walk from the first page of a list that is
   linked by the field next visits that list. *)
LEMMA WalkIsChain ==
    ASSUME NEW d, setup.pages \in Nat, NEW n \in 0 .. setup.pages, NEW T, NEW main \in [1 .. n -> T],
           Linked(d, main, n)
    PROVE  Chain(d, HeadOf(main, n)) = main
<1> SUFFICES ASSUME NEW p, n = 0 => p = NoPage, n # 0 => p = main[1],
                    \A i \in 1 .. n : main[i] # NoPage /\ d.pages[main[i]].next = (IF i = n THEN NoPage ELSE main[i + 1])
             PROVE  Chain(d, p) = main
  BY DEF Linked, HeadOf
<1> DEFINE N == setup.pages
           After(f, k) == IF k = 0 THEN p
                          ELSE LET q == f[k - 1] IN IF q = NoPage THEN NoPage ELSE d.pages[q].next
           Walk(f) == [k \in 0 .. N |-> After(f, k)]
           walk == CHOOSE f : f = Walk(f)
           Value(k) == IF k < n THEN main[k + 1] ELSE NoPage
           F == [k \in 0 .. N |-> Value(k)]
<1>1. F = Walk(F)
  <2>1. ASSUME NEW k \in 0 .. N PROVE Value(k) = After(F, k)
    <3>1. CASE k = 0
      <4>1. n = 0 \/ n > 0
        OBVIOUS
      <4> QED BY <3>1, <4>1
    <3>2. CASE k # 0
      <4>1. k - 1 \in 0 .. N /\ k - 1 + 1 = k /\ F[k - 1] = Value(k - 1)
        BY <3>2
      <4>2. CASE k - 1 < n
        <5>1. k \in 1 .. n /\ Value(k - 1) = main[k]
          BY <3>2, <4>1, <4>2
        <5>2. After(F, k) = d.pages[main[k]].next
          BY <3>2, <4>1, <5>1
        <5>3. d.pages[main[k]].next = IF k = n THEN NoPage ELSE main[k + 1]
          BY <5>1
        <5> QED BY <5>1, <5>2, <5>3
      <4>3. CASE ~(k - 1 < n)
        <5>1. Value(k - 1) = NoPage /\ ~(k < n)
          BY <4>1, <4>3
        <5> QED BY <3>2, <4>1, <5>1
      <4> QED BY <4>2, <4>3
    <3> QED BY <3>1, <3>2
  <2> HIDE DEF Value, After
  <2> QED BY <2>1 DEF F
<1>2. walk = Walk(walk)
  <2> HIDE DEF F, Walk
  <2> QED BY <1>1
<1> HIDE DEF walk, F
<1>3. ASSUME NEW k \in 0 .. N PROVE walk[k] = After(walk, k)
  <2>1. Walk(walk)[k] = After(walk, k)
    <3> HIDE DEF After
    <3> QED OBVIOUS
  <2> HIDE DEF Walk, After
  <2> QED BY <1>2, <2>1
<1> DEFINE S == {k \in Nat : k <= N => walk[k] = Value(k)}
<1>4. 0 \in S
  <2>1. walk[0] = p
    BY <1>3
  <2>2. n = 0 \/ n > 0
    OBVIOUS
  <2> QED BY <2>1, <2>2
<1>5. ASSUME NEW k \in Nat, k \in S PROVE k + 1 \in S
  <2> SUFFICES ASSUME k + 1 <= N PROVE walk[k + 1] = Value(k + 1)
    OBVIOUS
  <2>1. walk[k] = Value(k)
    BY <1>5
  <2>2. walk[k + 1] = IF walk[k] = NoPage THEN NoPage ELSE d.pages[walk[k]].next
    <3>1. k + 1 \in 0 .. N /\ k + 1 # 0 /\ (k + 1) - 1 = k
      OBVIOUS
    <3> QED BY <1>3, <3>1
  <2>3. CASE k < n
    <3>1. k + 1 \in 1 .. n
      BY <2>3
    <3>2. walk[k + 1] = d.pages[main[k + 1]].next
      BY <2>1, <2>2, <2>3, <3>1
    <3>3. walk[k + 1] = IF k + 1 = n THEN NoPage ELSE main[(k + 1) + 1]
      BY <3>1, <3>2
    <3> QED BY <2>3, <3>1, <3>3
  <2>4. CASE ~(k < n)
    <3>1. ~(k + 1 < n)
      BY <2>4
    <3> QED BY <2>1, <2>2, <2>4, <3>1
  <2> QED BY <2>3, <2>4
<1>6. \A k \in Nat : k \in S
  <2> HIDE DEF S
  <2> QED BY <1>4, <1>5, InductionOverNat
<1>7. ASSUME NEW k \in 0 .. N PROVE walk[k] = Value(k)
  BY <1>6
<1> HIDE DEF S
<1>8. {k \in 0 .. N : walk[k] # NoPage} = 0 .. n - 1
  <2>1. ASSUME NEW k \in 0 .. N PROVE walk[k] # NoPage <=> k < n
    <3>1. walk[k] = Value(k)
      BY <1>7
    <3>2. k < n => k + 1 \in 1 .. n
      OBVIOUS
    <3> QED BY <3>1, <3>2
  <2>2. \A k : k \in 0 .. n - 1 <=> k \in 0 .. N /\ k < n
    OBVIOUS
  <2> QED BY <2>1, <2>2
<1>9. Cardinality(0 .. n - 1) = n
  <2>1. n \in Nat
    OBVIOUS
  <2> HIDE DEF Value, After, Walk
  <2> QED BY <2>1, CountFromZero
<1>10. Chain(d, p) = [i \in 1 .. n |-> walk[i - 1]]
  <2>1. Chain(d, p) = [i \in 1 .. Cardinality({k \in 0 .. N : walk[k] # NoPage}) |-> walk[i - 1]]
    BY DEF Chain, walk
  <2> QED BY <1>8, <1>9, <2>1
<1>11. ASSUME NEW i \in 1 .. n PROVE walk[i - 1] = main[i]
  <2>1. i - 1 \in 0 .. N /\ i - 1 < n /\ (i - 1) + 1 = i
    OBVIOUS
  <2> QED BY <1>7, <2>1
<1> QED BY <1>10, <1>11

(* What FlattenSeq computes, as its own steps. *)
LEMMA FlattenSteps ==
    ASSUME NEW n \in Nat \ {0}, NEW ss, Len(ss) = n
    PROVE  \E f : /\ f[1] = ss[1]
                  /\ \A i \in 2 .. n : f[i] = f[i - 1] \o ss[i]
                  /\ FlattenSeq(ss) = f[n]
<1> DEFINE After(f, i) == IF i = 1 THEN ss[i] ELSE f[i - 1] \o ss[i]
           Flat(f) == [i \in 1 .. n |-> After(f, i)]
           flatten == CHOOSE f : f = Flat(f)
           S == {m \in Nat : \E f : \A i \in 1 .. m : f[i] = After(f, i)}
<1>1. 0 \in S
  OBVIOUS
<1>2. ASSUME NEW m \in Nat, m \in S PROVE m + 1 \in S
  <2>1. PICK f : \A i \in 1 .. m : f[i] = After(f, i)
    BY <1>2
  <2> DEFINE more == [i \in 1 .. m + 1 |-> IF i = m + 1 THEN After(f, m + 1) ELSE f[i]]
  <2>2. ASSUME NEW i \in 1 .. m + 1 PROVE more[i] = After(more, i)
    <3>1. i = 1 \/ i - 1 \in 1 .. m
      OBVIOUS
    <3>2. i # 1 => more[i - 1] = f[i - 1]
      BY <3>1
    <3>3. more[i] = After(f, i)
      BY <2>1
    <3>4. After(f, i) = After(more, i)
      <4> HIDE DEF more
      <4> QED BY <3>2
    <3> QED BY <3>3, <3>4
  <2> HIDE DEF more, After
  <2> QED BY <2>2
<1>3. n \in S
  <2> HIDE DEF S
  <2> QED BY <1>1, <1>2, InductionOverNat
<1>4. \E f : f = Flat(f)
  <2>1. PICK f : \A i \in 1 .. n : f[i] = After(f, i)
    BY <1>3
  <2> DEFINE g == [i \in 1 .. n |-> f[i]]
  <2>2. ASSUME NEW i \in 1 .. n PROVE g[i] = After(g, i)
    <3>1. i = 1 \/ i - 1 \in 1 .. n
      OBVIOUS
    <3>2. g[i] = f[i] /\ (i # 1 => g[i - 1] = f[i - 1])
      BY <3>1
    <3>3. f[i] = After(f, i)
      BY <2>1
    <3> HIDE DEF g
    <3> QED BY <3>2, <3>3
  <2>3. g = [i \in 1 .. n |-> g[i]]
    OBVIOUS
  <2> HIDE DEF g, After
  <2>4. g = [i \in 1 .. n |-> After(g, i)]
    BY <2>2, <2>3
  <2> QED BY <2>4
<1>5. flatten = Flat(flatten)
  <2> HIDE DEF Flat
  <2> QED BY <1>4
<1>6. FlattenSeq(ss) = flatten[n]
  BY DEF FlattenSeq
<1> HIDE DEF flatten
<1>7. ASSUME NEW i \in 1 .. n PROVE flatten[i] = After(flatten, i)
  <2>1. Flat(flatten)[i] = After(flatten, i)
    <3> HIDE DEF After
    <3> QED OBVIOUS
  <2> HIDE DEF Flat, After
  <2> QED BY <1>5, <2>1
<1>8. flatten[1] = ss[1]
  BY <1>7
<1>9. ASSUME NEW i \in 2 .. n PROVE flatten[i] = flatten[i - 1] \o ss[i]
  <2>1. i \in 1 .. n /\ i # 1
    OBVIOUS
  <2> QED BY <1>7, <2>1
<1> QED BY <1>6, <1>8, <1>9

LEMMA FlattenNone == FlattenSeq(<<>>) = <<>>
  BY DEF FlattenSeq

LEMMA FlattenOne ==
    ASSUME NEW a
    PROVE  FlattenSeq([i \in 1 .. 1 |-> a]) = a
<1> DEFINE ss == [i \in 1 .. 1 |-> a]
<1>1. Len(ss) = 1 /\ ss[1] = a
  OBVIOUS
<1> HIDE DEF ss
<1>2. 1 \in Nat \ {0}
  OBVIOUS
<1>3. \E f : /\ f[1] = ss[1]
             /\ \A i \in 2 .. 1 : f[i] = f[i - 1] \o ss[i]
             /\ FlattenSeq(ss) = f[1]
  BY <1>1, <1>2, FlattenSteps
<1>4. FlattenSeq(ss) = a
  BY <1>1, <1>3
<1> QED BY <1>4 DEF ss

LEMMA FlattenTwo ==
    ASSUME NEW ss, Len(ss) = 2
    PROVE  FlattenSeq(ss) = ss[1] \o ss[2]
<1>1. 2 \in Nat \ {0}
  OBVIOUS
<1>2. PICK f : /\ f[1] = ss[1]
               /\ \A i \in 2 .. 2 : f[i] = f[i - 1] \o ss[i]
               /\ FlattenSeq(ss) = f[2]
  BY <1>1, FlattenSteps
<1>3. 2 \in 2 .. 2 /\ 2 - 1 = 1
  OBVIOUS
<1>4. f[2] = f[2 - 1] \o ss[2]
  BY <1>2, <1>3
<1> QED BY <1>2, <1>3, <1>4

-------------------------------------------------------------------------------
(* The shape of a file: pages P of a set-up s.                                *)

(* A group: a main page and its overflow page, if it has one. *)
PagesOf(P, p) == IF P[p].overflow = NoPage THEN {p} ELSE {p, P[p].overflow}

SlotAt(P, x) == P[x[1]].slots[x[2]]
PlacesOf(P, p) == UNION {{<<q, i>> : i \in DOMAIN P[q].slots} : q \in PagesOf(P, p)}
KeysOf(P, p) == {SlotAt(P, x).key : x \in PlacesOf(P, p)}
Living(P, p) == {x \in PlacesOf(P, p) : SlotAt(P, x).live}
FirstOf(P, p) == P[p].slots[1].key

OneEach(P, p) == \A x, y \in Living(P, p) : SlotAt(P, x).key = SlotAt(P, y).key => x = y

(* A group as the calls keep it: the main page in key order and never empty, full if there is an
   overflow page, which is one page; and one live row at most with a key. *)
Sane(s, P, p) ==
    /\ p \in 1 .. s.pages
    /\ P[p].slots # <<>> /\ Len(P[p].slots) <= s.slots /\ Ordered(P[p].slots)
    /\ P[p].overflow # NoPage =>
          /\ P[p].overflow # p /\ P[P[p].overflow].next = NoPage
          /\ Len(P[p].slots) = s.slots /\ Len(P[P[p].overflow].slots) <= s.slots
    /\ OneEach(P, p)

(* The chain of the groups, whose main pages are main: each has its keys, from its first one
   to that of the next, and its pages. *)
Chained(s, P, main, head, count) ==
    /\ count \in 0 .. s.pages
    /\ main \in Seq(1 .. s.pages)
    /\ head = IF main = <<>> THEN NoPage ELSE main[1]
    /\ \A g \in DOMAIN main :
          /\ Sane(s, P, main[g])
          /\ PagesOf(P, main[g]) \subseteq 1 .. count
          /\ P[main[g]].next = IF g = Len(main) THEN NoPage ELSE main[g + 1]
          /\ g # 1 => \A k \in KeysOf(P, main[g]) : FirstOf(P, main[g]) <= k
    /\ \A g, h \in DOMAIN main : g # h => PagesOf(P, main[g]) \cap PagesOf(P, main[h]) = {}
    /\ \A g, h \in DOMAIN main : g < h => \A k \in KeysOf(P, main[g]) : k < FirstOf(P, main[h])

AllPlaces(P, main) == UNION {PlacesOf(P, main[g]) : g \in DOMAIN main}
AllLiving(P, main) == UNION {Living(P, main[g]) : g \in DOMAIN main}

LEMMA PageTypes ==
    ASSUME NEW s, NEW P \in Images(s), NEW p \in 1 .. s.pages
    PROVE  /\ P[p].slots \in Seq(SlotsIn(s)) /\ Len(P[p].slots) \in Nat
           /\ DOMAIN P[p].slots = 1 .. Len(P[p].slots)
           /\ P[p].next \in 0 .. s.pages /\ P[p].overflow \in 0 .. s.pages
           /\ \A i \in DOMAIN P[p].slots :
                 /\ P[p].slots[i] \in SlotsIn(s) /\ P[p].slots[i].key \in s.keys
                 /\ P[p].slots[i].live \in BOOLEAN
<1>1. P[p] \in PagesIn(s)
  BY DEF Images
<1>2. P[p].slots \in Seq(SlotsIn(s)) /\ P[p].next \in 0 .. s.pages /\ P[p].overflow \in 0 .. s.pages
  <2> HIDE DEF SlotsIn
  <2> QED BY <1>1 DEF PagesIn
<1>3. Len(P[p].slots) \in Nat /\ DOMAIN P[p].slots = 1 .. Len(P[p].slots)
  BY <1>2, LenProperties
<1>4. ASSUME NEW i \in DOMAIN P[p].slots PROVE P[p].slots[i] \in SlotsIn(s)
  <2> HIDE DEF SlotsIn
  <2> QED BY <1>2, <1>3, ElementOfSeq
<1>5. \A x \in SlotsIn(s) : x.key \in s.keys /\ x.live \in BOOLEAN
  BY DEF SlotsIn
<1> QED BY <1>2, <1>3, <1>4, <1>5

LEMMA PairOf ==
    ASSUME NEW a, NEW b
    PROVE  <<a>> \o <<b>> = <<a, b>>
<1>1. <<a>> \in Seq({a, b}) /\ <<b>> \in Seq({a, b}) /\ <<a, b>> \in Seq({a, b})
  OBVIOUS
<1>2. Len(<<a>>) = 1 /\ Len(<<b>>) = 1 /\ Len(<<a, b>>) = 2 /\ <<a>>[1] = a /\ <<b>>[1] = b
      /\ <<a, b>>[1] = a /\ <<a, b>>[2] = b
  OBVIOUS
<1> DEFINE both == <<a>> \o <<b>>
           pair == <<a, b>>
<1>3. /\ both \in Seq({a, b}) /\ Len(both) = 2
      /\ \A i \in 1 .. 2 : both[i] = IF i <= 1 THEN <<a>>[i] ELSE <<b>>[i - 1]
  BY <1>1, <1>2, ConcatProperties
<1> HIDE DEF both, pair
<1>4. \A i \in 1 .. 2 : both[i] = pair[i]
  BY <1>2, <1>3 DEF pair
<1>5. both = pair
  BY <1>1, <1>2, <1>3, <1>4, SeqEqual, ZenonT(30) DEF pair
<1> QED BY <1>5 DEF both, pair

(* sequential_file.cpp, read_group: the slots of a group are those of its main page and of
   its overflow page. *)
LEMMA GroupRead ==
    ASSUME setup.pages \in Nat, NEW d, d.pages \in Images(setup), NEW p \in 1 .. setup.pages,
           d.pages[p].overflow # NoPage => d.pages[d.pages[p].overflow].next = NoPage
    PROVE  LET o == d.pages[p].overflow
           IN  /\ o = NoPage => /\ Overflow(d, p) = <<>> /\ Group(d, p) = <<p>>
                                /\ SlotsOf(d, Overflow(d, p)) = <<>>
                                /\ SlotsOf(d, Group(d, p)) = d.pages[p].slots
               /\ o # NoPage => /\ Overflow(d, p) = <<o>> /\ Group(d, p) = <<p, o>>
                                /\ SlotsOf(d, Overflow(d, p)) = d.pages[o].slots
                                /\ SlotsOf(d, Group(d, p)) = d.pages[p].slots \o d.pages[o].slots
<1> DEFINE o == d.pages[p].overflow
<1>1. o \in 0 .. setup.pages
  BY PageTypes
<1>2. \A q : SlotsOf(d, <<q>>) = d.pages[q].slots
  <2> SUFFICES ASSUME NEW q PROVE SlotsOf(d, <<q>>) = d.pages[q].slots
    OBVIOUS
  <2>1. [i \in DOMAIN <<q>> |-> d.pages[<<q>>[i]].slots] = [i \in 1 .. 1 |-> d.pages[q].slots]
    OBVIOUS
  <2> QED BY <2>1, FlattenOne DEF SlotsOf
<1>3. CASE o = NoPage
  <2>1. Chain(d, NoPage) = <<>>
    <3> DEFINE none == [i \in 1 .. 0 |-> 0]
    <3>1. none = <<>> /\ none \in [1 .. 0 -> {0}]
      OBVIOUS
    <3> HIDE DEF none, o
    <3>2. 0 \in 0 .. setup.pages /\ HeadOf(none, 0) = NoPage /\ Linked(d, none, 0)
      BY DEF HeadOf, Linked
    <3>3. Chain(d, NoPage) = none
      BY ONLY setup.pages \in Nat, <3>1, <3>2, WalkIsChain
    <3> QED BY <3>1, <3>3
  <2>2. Overflow(d, p) = <<>>
    BY <1>3, <2>1 DEF Overflow
  <2>3. Group(d, p) = <<p>>
    BY <2>2 DEF Group
  <2>4. SlotsOf(d, <<>>) = <<>>
    <3>1. [i \in DOMAIN <<>> |-> d.pages[<<>>[i]].slots] = <<>>
      OBVIOUS
    <3> QED BY <3>1, FlattenNone DEF SlotsOf
  <2> QED BY <1>2, <1>3, <2>2, <2>3, <2>4
<1>4. CASE o # NoPage
  <2>1. Chain(d, o) = <<o>>
    <3> DEFINE one == [i \in 1 .. 1 |-> o]
    <3>1. one = <<o>> /\ one \in [1 .. 1 -> {o}] /\ one[1] = o
      OBVIOUS
    <3>2. 1 \in 0 .. setup.pages /\ \A i \in 1 .. 1 : i = 1
      BY <1>1, <1>4 DEF NoPage
    <3> HIDE DEF one, o
    <3>3. Linked(d, one, 1) /\ HeadOf(one, 1) = o
      BY <1>4, <3>1, <3>2 DEF o, Linked, HeadOf
    <3>4. Chain(d, o) = one
      BY ONLY setup.pages \in Nat, <3>1, <3>2, <3>3, WalkIsChain
    <3> QED BY <3>1, <3>4
  <2>2. Overflow(d, p) = <<o>>
    BY <2>1 DEF Overflow
  <2>3. Group(d, p) = <<p, o>>
    <3> HIDE DEF o
    <3>1. <<p>> \o <<o>> = <<p, o>>
      BY PairOf
    <3> QED BY <2>2, <3>1 DEF Group
  <2>4. SlotsOf(d, <<p, o>>) = d.pages[p].slots \o d.pages[o].slots
    <3> DEFINE ss == [i \in DOMAIN <<p, o>> |-> d.pages[<<p, o>>[i]].slots]
    <3>1. Len(ss) = 2 /\ ss[1] = d.pages[p].slots /\ ss[2] = d.pages[o].slots
      OBVIOUS
    <3>2. SlotsOf(d, <<p, o>>) = FlattenSeq(ss)
      BY DEF SlotsOf
    <3> HIDE DEF ss
    <3> QED BY <3>1, <3>2, FlattenTwo
  <2> QED BY <1>2, <1>4, <2>2, <2>3, <2>4, Zenon
<1> QED BY <1>3, <1>4

-------------------------------------------------------------------------------
(* The searches.                                                              *)

LEMMA PlaceTypes ==
    ASSUME NEW s, s.pages \in Nat, NEW P \in Images(s), NEW p \in 1 .. s.pages
    PROVE  /\ PagesOf(P, p) \subseteq 1 .. s.pages /\ p \in PagesOf(P, p)
           /\ \A x \in PlacesOf(P, p) :
                 /\ x[1] \in PagesOf(P, p) /\ x[2] \in DOMAIN P[x[1]].slots /\ x = <<x[1], x[2]>>
                 /\ SlotAt(P, x) \in SlotsIn(s)
                 /\ SlotAt(P, x).key \in s.keys /\ SlotAt(P, x).live \in BOOLEAN
           /\ \A q \in PagesOf(P, p) : \A i \in DOMAIN P[q].slots : <<q, i>> \in PlacesOf(P, p)
           /\ KeysOf(P, p) \subseteq s.keys
<1>1. PagesOf(P, p) \subseteq 1 .. s.pages /\ p \in PagesOf(P, p)
  <2>1. P[p].overflow \in 0 .. s.pages
    BY PageTypes
  <2>2. P[p].overflow # NoPage => P[p].overflow \in 1 .. s.pages
    BY <2>1 DEF NoPage
  <2> QED BY <2>2 DEF PagesOf
<1>2. ASSUME NEW x \in PlacesOf(P, p)
      PROVE  /\ x[1] \in PagesOf(P, p) /\ x[2] \in DOMAIN P[x[1]].slots /\ x = <<x[1], x[2]>>
             /\ SlotAt(P, x) \in SlotsIn(s)
             /\ SlotAt(P, x).key \in s.keys /\ SlotAt(P, x).live \in BOOLEAN
  <2>1. PICK q \in PagesOf(P, p) : \E i \in DOMAIN P[q].slots : x = <<q, i>>
    BY DEF PlacesOf
  <2>2. PICK i \in DOMAIN P[q].slots : x = <<q, i>>
    BY <2>1
  <2>3. x[1] = q /\ x[2] = i
    BY <2>2
  <2>4. q \in 1 .. s.pages
    BY <1>1
  <2>5. SlotAt(P, x) = P[q].slots[i]
    BY <2>3 DEF SlotAt
  <2> QED BY <2>2, <2>3, <2>4, <2>5, PageTypes
<1>3. \A q \in PagesOf(P, p) : \A i \in DOMAIN P[q].slots : <<q, i>> \in PlacesOf(P, p)
  BY DEF PlacesOf
<1>4. KeysOf(P, p) \subseteq s.keys
  BY <1>2 DEF KeysOf
<1> QED BY <1>1, <1>2, <1>3, <1>4

(* sequential_file.cpp, group_of: the group found is the first, or starts at or before the key,
   and every later group starts after it. *)
LEMMA GroupFound ==
    ASSUME NEW n \in Nat \ {0}, DOMAIN mem.first = 1 .. n, \A g \in 1 .. n : mem.first[g] \in Int,
           NEW key \in Int
    PROVE  /\ GroupOf(key) \in 1 .. n
           /\ GroupOf(key) # 1 => mem.first[GroupOf(key)] <= key
           /\ \A h \in 1 .. n : h > GroupOf(key) => key < mem.first[h]
<1> DEFINE S == {1} \cup {g \in DOMAIN mem.first : mem.first[g] <= key}
<1>1. S \in SUBSET (0 .. n) /\ S # {}
  OBVIOUS
<1>2. PICK m \in S : \A y \in S : y <= m
  <2> HIDE DEF S
  <2> QED BY <1>1, GreatestOf
<1>3. \A x \in S : x \in Int
  OBVIOUS
<1>4. GroupOf(key) = m
  <2>1. GroupOf(key) = CHOOSE x \in S : \A y \in S : x >= y
    BY DEF GroupOf, Max
  <2> HIDE DEF S
  <2> QED BY <1>2, <1>3, <2>1
<1>5. ASSUME NEW h \in 1 .. n, h > m PROVE key < mem.first[h]
  <2>1. h \notin S
    <3> HIDE DEF S
    <3> QED BY <1>2, <1>3, <1>5
  <2> QED BY <2>1
<1> QED BY <1>4, <1>5

(* sequential_file.cpp, find_in_group: the live rows of the group with the key. *)
LEMMA GroupSearched ==
    ASSUME setup.pages \in Nat, setup.slots \in Nat, setup.keys \subseteq Int,
           NEW d, NEW P, d.pages = P, P \in Images(setup), NEW p, Sane(setup, P, p), NEW key \in Int
    PROVE  FindInGroup(d, p, key) = {x \in Living(P, p) : SlotAt(P, x).key = key}
<1>1. p \in 1 .. setup.pages
  BY DEF Sane
<1> DEFINE slots == P[p].slots
           n == Len(slots)
           b == LowerBound(slots, key)
           o == P[p].overflow
           Wanted == {x \in Living(P, p) : SlotAt(P, x).key = key}
<1>2. n \in Nat /\ DOMAIN slots = 1 .. n /\ \A i \in 1 .. n : slots[i].key \in Int
  BY <1>1, PageTypes, SMTT(30)
<1>3. b \in 0 .. n /\ \A i \in 1 .. n : i <= b <=> slots[i].key < key
  <2>1. Ordered(slots)
    BY DEF Sane
  <2> HIDE DEF slots, n
  <2> QED BY <1>2, <2>1, BinarySearch DEF n
<1>4. Run(slots, key) = {i \in 1 .. n : slots[i].key = key}
  <2>1. ASSUME NEW i \in b + 1 .. n, \A j \in b + 1 .. i : slots[j].key = key
        PROVE  i \in 1 .. n /\ slots[i].key = key
    BY <1>3, <2>1
  <2>2. ASSUME NEW i \in 1 .. n, slots[i].key = key
        PROVE  i \in b + 1 .. n /\ \A j \in b + 1 .. i : slots[j].key = key
    <3>1. ~(i <= b)
      BY <1>2, <1>3, <2>2
    <3>2. ASSUME NEW j \in b + 1 .. i PROVE slots[j].key = key
      <4>1. j \in 1 .. n /\ j <= i /\ ~(j <= b)
        BY <1>3
      <4>2. ~(slots[j].key < key) /\ slots[j].key <= slots[i].key
        BY <1>2, <1>3, <4>1 DEF Sane, Ordered
      <4> QED BY <1>2, <2>2, <4>1, <4>2
    <3> QED BY <1>3, <3>1, <3>2
  <2>3. Run(slots, key) = {i \in b + 1 .. n : \A j \in b + 1 .. i : slots[j].key = key}
    BY DEF Run
  <2> HIDE DEF b, n, slots
  <2> QED BY <2>1, <2>2, <2>3
<1> DEFINE own == {<<p, i>> : i \in {j \in Run(slots, key) : slots[j].live}}
           extra == {<<q, i>> : q \in ToSet(Overflow(d, p)), i \in 1 .. setup.slots}
           found == {at \in extra : /\ at[2] <= Len(P[at[1]].slots)
                                    /\ P[at[1]].slots[at[2]].live
                                    /\ P[at[1]].slots[at[2]].key = key}
<1>5. FindInGroup(d, p, key) = IF own # {} THEN own ELSE found
  BY DEF FindInGroup
<1>6. own = {x \in Wanted : x[1] = p}
  <2>1. ASSUME NEW x \in own PROVE x \in Wanted /\ x[1] = p
    <3>1. PICK i \in 1 .. n : slots[i].key = key /\ slots[i].live /\ x = <<p, i>>
      BY <1>4
    <3>2. x \in PlacesOf(P, p) /\ SlotAt(P, x) = slots[i] /\ x[1] = p
      BY <1>1, <1>2, <3>1, PlaceTypes DEF SlotAt
    <3> QED BY <3>1, <3>2 DEF Living
  <2>2. ASSUME NEW x \in Wanted, x[1] = p PROVE x \in own
    <3>1. x \in PlacesOf(P, p) /\ SlotAt(P, x).live /\ SlotAt(P, x).key = key
      BY DEF Living
    <3>2. x[2] \in 1 .. n /\ x = <<p, x[2]>> /\ SlotAt(P, x) = slots[x[2]]
      BY <1>1, <1>2, <2>2, <3>1, PlaceTypes DEF SlotAt
    <3> QED BY <1>4, <3>1, <3>2
  <2> HIDE DEF own, Wanted
  <2> QED BY <2>1, <2>2
<1>7. ToSet(Overflow(d, p)) = IF o = NoPage THEN {} ELSE {o}
  <2>1. o # NoPage => P[o].next = NoPage
    BY DEF Sane
  <2>2. Overflow(d, p) = IF o = NoPage THEN <<>> ELSE <<o>>
    BY <1>1, <2>1, GroupRead
  <2>3. ToSet(<<>>) = {} /\ \A q : ToSet(<<q>>) = {q}
    BY DEF ToSet
  <2> QED BY <2>2, <2>3
<1>8. found = {x \in Wanted : x[1] # p}
  <2>1. ASSUME NEW x \in found PROVE x \in Wanted /\ x[1] # p
    <3>1. PICK i \in 1 .. setup.slots : x = <<o, i>> /\ o # NoPage
      BY <1>7
    <3>2. o # p /\ o \in PagesOf(P, p) /\ o \in 1 .. setup.pages
      <4>1. o # p
        BY <3>1 DEF Sane
      <4>2. o \in PagesOf(P, p)
        BY <3>1 DEF PagesOf
      <4> QED BY <1>1, <4>1, <4>2, PlaceTypes
    <3>3. i \in DOMAIN P[o].slots /\ SlotAt(P, x) = P[o].slots[i] /\ x[1] = o
      BY <3>1, <3>2, PageTypes DEF SlotAt
    <3>4. x \in PlacesOf(P, p)
      BY <1>1, <3>1, <3>2, <3>3, PlaceTypes
    <3> QED BY <3>1, <3>2, <3>3, <3>4 DEF Living
  <2>2. ASSUME NEW x \in Wanted, x[1] # p PROVE x \in found
    <3>1. x \in PlacesOf(P, p) /\ SlotAt(P, x).live /\ SlotAt(P, x).key = key
      BY DEF Living
    <3>2. x[1] \in PagesOf(P, p) /\ x[2] \in DOMAIN P[x[1]].slots /\ x = <<x[1], x[2]>>
      BY <1>1, <3>1, PlaceTypes
    <3>3. x[1] = o /\ o # NoPage
      BY <2>2, <3>2 DEF PagesOf
    <3>4. o \in 1 .. setup.pages /\ Len(P[o].slots) <= setup.slots
      BY <1>1, <3>3, PageTypes DEF Sane, NoPage
    <3>5. x[2] \in 1 .. setup.slots /\ x[2] <= Len(P[o].slots)
      BY <3>2, <3>3, <3>4, PageTypes, SMTT(30)
    <3>6. x \in extra
      BY <1>7, <3>2, <3>3, <3>5
    <3> QED BY <3>1, <3>3, <3>5, <3>6 DEF SlotAt
  <2> HIDE DEF found, Wanted
  <2> QED BY <2>1, <2>2
<1>9. \A x, y \in Wanted : x = y
  BY DEF Sane, OneEach
<1> HIDE DEF own, found, Wanted
<1>10. (IF own # {} THEN own ELSE found) = Wanted
  BY <1>6, <1>8, <1>9
<1> QED BY <1>5, <1>10 DEF Wanted

LEMMA ChainTypes ==
    ASSUME NEW s, s.pages \in Nat, s.keys \subseteq Int, NEW P \in Images(s),
           NEW main, NEW head, NEW count, Chained(s, P, main, head, count)
    PROVE  /\ Len(main) \in Nat /\ DOMAIN main = 1 .. Len(main) /\ count \in Nat
           /\ main = <<>> <=> Len(main) = 0
           /\ \A g \in DOMAIN main :
                 /\ main[g] \in 1 .. s.pages /\ Sane(s, P, main[g])
                 /\ 1 \in DOMAIN P[main[g]].slots /\ FirstOf(P, main[g]) \in Int
                 /\ FirstOf(P, main[g]) \in KeysOf(P, main[g])
                 /\ KeysOf(P, main[g]) \subseteq Int
<1>1. main \in Seq(1 .. s.pages) /\ count \in 0 .. s.pages
  BY DEF Chained
<1>2. Len(main) \in Nat /\ DOMAIN main = 1 .. Len(main) /\ count \in Nat
  BY <1>1, LenProperties
<1>3. main = <<>> <=> Len(main) = 0
  BY <1>1, EmptySeq
<1>4. ASSUME NEW g \in DOMAIN main
      PROVE  /\ main[g] \in 1 .. s.pages /\ Sane(s, P, main[g])
             /\ 1 \in DOMAIN P[main[g]].slots /\ FirstOf(P, main[g]) \in Int
             /\ FirstOf(P, main[g]) \in KeysOf(P, main[g])
             /\ KeysOf(P, main[g]) \subseteq Int
  <2>1. Sane(s, P, main[g])
    BY DEF Chained
  <2>2. main[g] \in 1 .. s.pages /\ P[main[g]].slots # <<>>
    BY <2>1 DEF Sane
  <2>3. /\ P[main[g]].slots \in Seq(SlotsIn(s)) /\ Len(P[main[g]].slots) \in Nat
        /\ DOMAIN P[main[g]].slots = 1 .. Len(P[main[g]].slots)
    BY <2>2, PageTypes
  <2>4. Len(P[main[g]].slots) # 0
    BY <2>2, <2>3, EmptySeq
  <2>5. 1 \in DOMAIN P[main[g]].slots
    BY <2>3, <2>4
  <2>6. <<main[g], 1>> \in PlacesOf(P, main[g])
    BY <2>2, <2>5, PlaceTypes
  <2>7. SlotAt(P, <<main[g], 1>>).key = FirstOf(P, main[g])
    BY DEF SlotAt, FirstOf
  <2>8. FirstOf(P, main[g]) \in KeysOf(P, main[g])
    BY <2>6, <2>7 DEF KeysOf
  <2>9. KeysOf(P, main[g]) \subseteq Int
    BY <2>2, PlaceTypes
  <2> QED BY <2>1, <2>2, <2>5, <2>8, <2>9
<1> QED BY <1>2, <1>3, <1>4

(* The directory in memory is that of the chain of pages P. *)
Directory(P, m) == m.first = [g \in DOMAIN m.main |-> FirstOf(P, m.main[g])]

(* Where group_of leads is where a key is, if it is anywhere. *)
LEMMA KeyInItsGroup ==
    ASSUME setup.pages \in Nat, setup.keys \subseteq Int, NEW P \in Images(setup),
           NEW head, NEW count, Chained(setup, P, mem.main, head, count), mem.main # <<>>,
           Directory(P, mem), NEW key \in Int
    PROVE  LET g == GroupOf(key)
           IN  /\ g \in DOMAIN mem.main
               /\ g # 1 => FirstOf(P, mem.main[g]) <= key
               /\ \A h \in DOMAIN mem.main : h > g => key < FirstOf(P, mem.main[h])
               /\ \A h \in DOMAIN mem.main : key \in KeysOf(P, mem.main[h]) => h = g
<1> DEFINE main == mem.main
           n == Len(main)
           g == GroupOf(key)
<1>1. n \in Nat \ {0} /\ DOMAIN main = 1 .. n
  BY ChainTypes
<1>2. \A h \in 1 .. n : FirstOf(P, main[h]) \in Int /\ KeysOf(P, main[h]) \subseteq Int
  BY <1>1, ChainTypes
<1>3. DOMAIN mem.first = 1 .. n /\ \A h \in 1 .. n : mem.first[h] = FirstOf(P, main[h])
  BY <1>1 DEF Directory
<1>4. /\ g \in 1 .. n
      /\ g # 1 => mem.first[g] <= key
      /\ \A h \in 1 .. n : h > g => key < mem.first[h]
  <2> HIDE DEF n
  <2>1. \A h \in 1 .. n : mem.first[h] \in Int
    BY <1>2, <1>3
  <2> QED BY <1>1, <1>3, <2>1, GroupFound
<1>5. /\ g # 1 => FirstOf(P, main[g]) <= key
      /\ \A h \in 1 .. n : h > g => key < FirstOf(P, main[h])
  BY <1>3, <1>4
<1>6. ASSUME NEW h \in 1 .. n, key \in KeysOf(P, main[h]) PROVE h = g
  <2>1. CASE h < g
    <3>1. g # 1
      BY <1>1, <2>1
    <3>2. key < FirstOf(P, main[g])
      BY <1>1, <1>4, <1>6, <2>1 DEF Chained
    <3> QED BY <1>2, <1>4, <1>5, <3>1, <3>2
  <2>2. CASE h > g
    <3>1. h # 1
      BY <1>1, <1>4, <2>2
    <3>2. FirstOf(P, main[h]) <= key
      BY <1>1, <1>6, <3>1 DEF Chained
    <3> QED BY <1>2, <1>5, <2>2, <3>2
  <2> QED BY <1>1, <1>4, <2>1, <2>2
<1> QED BY <1>1, <1>4, <1>5, <1>6

(* A search in the file finds the live rows of the key, wherever they are. *)
LEMMA FoundIsAll ==
    ASSUME setup.pages \in Nat, setup.slots \in Nat, setup.keys \subseteq Int,
           NEW P, P = Flushed.pages, P \in Images(setup),
           NEW head, NEW count, Chained(setup, P, mem.main, head, count),
           Directory(P, mem), NEW key \in Int
    PROVE  Found(key) = {x \in AllLiving(P, mem.main) : SlotAt(P, x).key = key}
<1> DEFINE main == mem.main
<1>1. CASE main = <<>>
  BY <1>1 DEF Found, AllLiving
<1>2. CASE main # <<>>
  <2> DEFINE g == GroupOf(key)
  <2>1. g \in DOMAIN main /\ \A h \in DOMAIN main : key \in KeysOf(P, main[h]) => h = g
    BY <1>2, KeyInItsGroup
  <2>2. Sane(setup, P, main[g])
    BY <2>1, ChainTypes
  <2>3. Found(key) = {x \in Living(P, main[g]) : SlotAt(P, x).key = key}
    <3>1. Found(key) = FindInGroup(Flushed, main[g], key)
      BY <1>2 DEF Found
    <3> HIDE DEF g, main
    <3> QED BY <2>2, <3>1, GroupSearched
  <2>4. ASSUME NEW h \in DOMAIN main, NEW x \in Living(P, main[h]), SlotAt(P, x).key = key
        PROVE  h = g
    <3>1. SlotAt(P, x).key \in KeysOf(P, main[h])
      BY DEF Living, KeysOf
    <3> QED BY <2>1, <2>4, <3>1
  <2> HIDE DEF g, main
  <2> QED BY <2>1, <2>3, <2>4 DEF AllLiving, main
<1> QED BY <1>1, <1>2

-------------------------------------------------------------------------------
(* A change of one group.                                                     *)

Untouched(P, Q, p) == \A q \in PagesOf(P, p) : Q[q] = P[q]

LEMMA SameGroup ==
    ASSUME NEW s, NEW P, NEW Q, NEW p, Untouched(P, Q, p)
    PROVE  /\ PagesOf(Q, p) = PagesOf(P, p) /\ PlacesOf(Q, p) = PlacesOf(P, p)
           /\ KeysOf(Q, p) = KeysOf(P, p) /\ Living(Q, p) = Living(P, p)
           /\ FirstOf(Q, p) = FirstOf(P, p)
           /\ \A x \in PlacesOf(P, p) : SlotAt(Q, x) = SlotAt(P, x)
           /\ Sane(s, P, p) => Sane(s, Q, p)
           /\ Q[p] = P[p]
<1> USE DEF Untouched
<1>1. p \in PagesOf(P, p) /\ Q[p] = P[p]
  BY DEF PagesOf
<1>2. PagesOf(Q, p) = PagesOf(P, p)
  BY <1>1 DEF PagesOf
<1>3. PlacesOf(Q, p) = PlacesOf(P, p)
  <2>1. \A q \in PagesOf(P, p) : {<<q, i>> : i \in DOMAIN Q[q].slots} = {<<q, i>> : i \in DOMAIN P[q].slots}
    OBVIOUS
  <2> QED BY <1>2, <2>1 DEF PlacesOf
<1>4. ASSUME NEW x \in PlacesOf(P, p) PROVE SlotAt(Q, x) = SlotAt(P, x)
  <2>1. PICK q \in PagesOf(P, p) : \E i \in DOMAIN P[q].slots : x = <<q, i>>
    BY DEF PlacesOf
  <2>2. x[1] = q
    BY <2>1
  <2> QED BY <2>1, <2>2 DEF SlotAt
<1>5. KeysOf(Q, p) = KeysOf(P, p) /\ Living(Q, p) = Living(P, p)
  BY <1>3, <1>4 DEF KeysOf, Living
<1>7. FirstOf(Q, p) = FirstOf(P, p)
  BY <1>1 DEF FirstOf
<1>8. ASSUME Sane(s, P, p) PROVE Sane(s, Q, p)
  <2>1. P[p].overflow # NoPage => Q[P[p].overflow] = P[P[p].overflow]
    BY DEF PagesOf
  <2>2. \A x, y \in Living(P, p) : SlotAt(Q, x) = SlotAt(P, x) /\ SlotAt(Q, y) = SlotAt(P, y)
    BY <1>4 DEF Living
  <2>3. \A x, y \in Living(Q, p) : SlotAt(Q, x).key = SlotAt(Q, y).key => x = y
    BY <1>5, <1>8, <2>2 DEF Sane, OneEach
  <2> QED BY <1>1, <1>8, <2>1, <2>3 DEF Sane, OneEach
<1> QED BY <1>1, <1>2, <1>3, <1>4, <1>5, <1>7, <1>8

LEMMA DisjointSum ==
    ASSUME NEW S, NEW T, IsFiniteSet(S), IsFiniteSet(T), S \cap T = {}
    PROVE  /\ IsFiniteSet(S \cup T)
           /\ Cardinality(S \cup T) = Cardinality(S) + Cardinality(T)
<1>1. Cardinality(S \cup T) = Cardinality(S) + Cardinality(T) - Cardinality(S \cap T)
  BY FS_Union
<1>2. Cardinality(S) \in Nat /\ Cardinality(T) \in Nat /\ Cardinality(S \cap T) = 0
  BY FS_CardinalityType, FS_EmptySet
<1>3. IsFiniteSet(S \cup T)
  BY FS_Union
<1> QED BY <1>1, <1>2, <1>3

(* The places of a file are finitely many, and each group has its own. *)
OtherPlaces(P, main, g) == UNION {PlacesOf(P, main[h]) : h \in DOMAIN main \ {g}}
OtherLiving(P, main, g) == UNION {Living(P, main[h]) : h \in DOMAIN main \ {g}}

LEMMA Parted ==
    ASSUME NEW s, s.pages \in Nat, s.slots \in Nat, s.keys \subseteq Int, NEW P \in Images(s),
           NEW main, NEW head, NEW count, Chained(s, P, main, head, count), NEW g \in DOMAIN main
    PROVE  /\ IsFiniteSet(PlacesOf(P, main[g])) /\ IsFiniteSet(Living(P, main[g]))
           /\ IsFiniteSet(OtherPlaces(P, main, g)) /\ IsFiniteSet(OtherLiving(P, main, g))
           /\ AllPlaces(P, main) = PlacesOf(P, main[g]) \cup OtherPlaces(P, main, g)
           /\ AllLiving(P, main) = Living(P, main[g]) \cup OtherLiving(P, main, g)
           /\ PlacesOf(P, main[g]) \cap OtherPlaces(P, main, g) = {}
           /\ Living(P, main[g]) \cap OtherLiving(P, main, g) = {}
           /\ Cardinality(AllPlaces(P, main)) =
                 Cardinality(PlacesOf(P, main[g])) + Cardinality(OtherPlaces(P, main, g))
           /\ Cardinality(AllLiving(P, main)) =
                 Cardinality(Living(P, main[g])) + Cardinality(OtherLiving(P, main, g))
<1> DEFINE Grid == (1 .. s.pages) \X (1 .. s.slots)
<1>1. IsFiniteSet(Grid)
  <2>1. IsFiniteSet(1 .. s.pages) /\ IsFiniteSet(1 .. s.slots)
    BY FS_Interval, SMTT(30)
  <2> QED BY <2>1, FS_Product
<1>2. ASSUME NEW h \in DOMAIN main, NEW x \in PlacesOf(P, main[h])
      PROVE  x \in Grid /\ x[1] \in PagesOf(P, main[h])
  <2>1. main[h] \in 1 .. s.pages /\ Sane(s, P, main[h])
    BY ChainTypes
  <2>2. /\ x[1] \in PagesOf(P, main[h]) /\ x[2] \in DOMAIN P[x[1]].slots /\ x = <<x[1], x[2]>>
        /\ PagesOf(P, main[h]) \subseteq 1 .. s.pages
    BY <2>1, PlaceTypes
  <2>3. Len(P[x[1]].slots) <= s.slots
    BY <2>1, <2>2 DEF Sane, PagesOf
  <2>4. DOMAIN P[x[1]].slots = 1 .. Len(P[x[1]].slots) /\ Len(P[x[1]].slots) \in Nat
    BY <2>2, PageTypes
  <2> QED BY <2>2, <2>3, <2>4
<1>3. ASSUME NEW h \in DOMAIN main, h # g PROVE PlacesOf(P, main[h]) \cap PlacesOf(P, main[g]) = {}
  <2>1. PagesOf(P, main[h]) \cap PagesOf(P, main[g]) = {}
    BY <1>3 DEF Chained
  <2> QED BY <1>2, <2>1
<1>4. PlacesOf(P, main[g]) \subseteq Grid /\ OtherPlaces(P, main, g) \subseteq Grid
  BY <1>2 DEF OtherPlaces
<1>5. PlacesOf(P, main[g]) \cap OtherPlaces(P, main, g) = {}
  BY <1>3 DEF OtherPlaces
<1>6. /\ Living(P, main[g]) \subseteq PlacesOf(P, main[g])
      /\ OtherLiving(P, main, g) \subseteq OtherPlaces(P, main, g)
  BY DEF Living, OtherLiving, OtherPlaces
<1>7. /\ AllPlaces(P, main) = PlacesOf(P, main[g]) \cup OtherPlaces(P, main, g)
      /\ AllLiving(P, main) = Living(P, main[g]) \cup OtherLiving(P, main, g)
  BY DEF AllPlaces, AllLiving, OtherLiving, OtherPlaces
<1>8. /\ IsFiniteSet(PlacesOf(P, main[g])) /\ IsFiniteSet(Living(P, main[g]))
      /\ IsFiniteSet(OtherPlaces(P, main, g)) /\ IsFiniteSet(OtherLiving(P, main, g))
  <2> HIDE DEF Grid
  <2> QED BY <1>1, <1>4, <1>6, FS_Subset
<1>9. Living(P, main[g]) \cap OtherLiving(P, main, g) = {}
  BY <1>5, <1>6
<1>10. /\ Cardinality(AllPlaces(P, main)) =
             Cardinality(PlacesOf(P, main[g])) + Cardinality(OtherPlaces(P, main, g))
       /\ Cardinality(AllLiving(P, main)) =
             Cardinality(Living(P, main[g])) + Cardinality(OtherLiving(P, main, g))
  BY <1>5, <1>7, <1>8, <1>9, DisjointSum
<1> QED BY <1>5, <1>7, <1>8, <1>9, <1>10

(* What a call does to a group p: it writes its pages, which may be new ones. *)
Rewrites(s, P, Q, p, count, more) ==
    /\ \A q \in 1 .. s.pages : q \notin PagesOf(Q, p) => Q[q] = P[q]
    /\ PagesOf(Q, p) \subseteq PagesOf(P, p) \cup (count + 1 .. more)
    /\ Q[p].next = P[p].next

(* A key belongs to the group g. *)
Belongs(P, main, g, k) ==
    /\ \A h \in DOMAIN main : h > g => k < FirstOf(P, main[h])
    /\ g # 1 => FirstOf(P, main[g]) <= k

(* A call that changes one group, and gives it at most one key more, which belongs there. *)
LEMMA OneGroup ==
    ASSUME NEW s, s.pages \in Nat, s.slots \in Nat, s.keys \subseteq Int,
           NEW P \in Images(s), NEW Q \in Images(s),
           NEW main, NEW head, NEW count, Chained(s, P, main, head, count), NEW more \in count .. s.pages,
           NEW g \in DOMAIN main, NEW k \in Int, Rewrites(s, P, Q, main[g], count, more),
           Sane(s, Q, main[g]), KeysOf(Q, main[g]) \subseteq KeysOf(P, main[g]) \cup {k},
           Belongs(P, main, g, k), g # 1 => FirstOf(Q, main[g]) = FirstOf(P, main[g])
    PROVE  /\ Chained(s, Q, main, head, more)
           /\ \A h \in DOMAIN main : h # g => FirstOf(Q, main[h]) = FirstOf(P, main[h])
           /\ \A h \in DOMAIN main : h # g => Q[main[h]] = P[main[h]] /\ KeysOf(Q, main[h]) = KeysOf(P, main[h])
           /\ Cardinality(AllPlaces(Q, main)) + Cardinality(PlacesOf(P, main[g])) =
                 Cardinality(AllPlaces(P, main)) + Cardinality(PlacesOf(Q, main[g]))
           /\ Cardinality(AllLiving(Q, main)) + Cardinality(Living(P, main[g])) =
                 Cardinality(AllLiving(P, main)) + Cardinality(Living(Q, main[g]))
<1> USE DEF Rewrites, Belongs
<1>1. /\ count \in 0 .. s.pages /\ main \in Seq(1 .. s.pages)
      /\ head = IF main = <<>> THEN NoPage ELSE main[1]
  BY DEF Chained
<1>2. Len(main) \in Nat /\ DOMAIN main = 1 .. Len(main) /\ count \in Nat /\ more \in Nat /\ count <= more
  BY <1>1, ChainTypes
<1>3. ASSUME NEW h \in DOMAIN main
      PROVE  /\ main[h] \in 1 .. s.pages /\ Sane(s, P, main[h]) /\ KeysOf(P, main[h]) \subseteq Int
             /\ FirstOf(P, main[h]) \in Int
             /\ PagesOf(P, main[h]) \subseteq 1 .. count /\ main[h] \in PagesOf(P, main[h])
             /\ P[main[h]].next = IF h = Len(main) THEN NoPage ELSE main[h + 1]
             /\ h # 1 => \A x \in KeysOf(P, main[h]) : FirstOf(P, main[h]) <= x
  <2>1. /\ main[h] \in 1 .. s.pages /\ Sane(s, P, main[h]) /\ KeysOf(P, main[h]) \subseteq Int
        /\ FirstOf(P, main[h]) \in Int
    BY ChainTypes
  <2>2. /\ PagesOf(P, main[h]) \subseteq 1 .. count
        /\ P[main[h]].next = IF h = Len(main) THEN NoPage ELSE main[h + 1]
        /\ h # 1 => \A x \in KeysOf(P, main[h]) : FirstOf(P, main[h]) <= x
    BY DEF Chained
  <2>3. main[h] \in PagesOf(P, main[h])
    BY DEF PagesOf
  <2> QED BY <2>1, <2>2, <2>3
<1>4. ASSUME NEW h \in DOMAIN main, h # g, NEW q \in PagesOf(P, main[h]) PROVE Q[q] = P[q]
  <2>1. q \in 1 .. count /\ q \notin PagesOf(P, main[g])
    BY <1>3, <1>4 DEF Chained
  <2>2. q \notin count + 1 .. more /\ q \in 1 .. s.pages
    BY <1>1, <1>2, <2>1
  <2> QED BY <2>1, <2>2
<1>5. ASSUME NEW h \in DOMAIN main, h # g
      PROVE  /\ PagesOf(Q, main[h]) = PagesOf(P, main[h]) /\ KeysOf(Q, main[h]) = KeysOf(P, main[h])
             /\ PlacesOf(Q, main[h]) = PlacesOf(P, main[h]) /\ Living(Q, main[h]) = Living(P, main[h])
             /\ FirstOf(Q, main[h]) = FirstOf(P, main[h])
             /\ Sane(s, Q, main[h]) /\ Q[main[h]] = P[main[h]]
  <2>1. \A q \in PagesOf(P, main[h]) : Q[q] = P[q]
    BY <1>4, <1>5
  <2>2. Sane(s, P, main[h])
    BY <1>3
  <2>3. Untouched(P, Q, main[h])
    BY <2>1 DEF Untouched
  <2> QED BY <2>2, <2>3, SameGroup
<1>6. ASSUME NEW h \in DOMAIN main
      PROVE  /\ Sane(s, Q, main[h]) /\ PagesOf(Q, main[h]) \subseteq 1 .. more
             /\ Q[main[h]].next = IF h = Len(main) THEN NoPage ELSE main[h + 1]
             /\ h # 1 => \A x \in KeysOf(Q, main[h]) : FirstOf(Q, main[h]) <= x
  <2>1. CASE h # g
    <3>1. 1 .. count \subseteq 1 .. more
      BY <1>2
    <3> QED BY <1>3, <1>5, <2>1, <3>1
  <2>2. CASE h = g
    <3>1. PagesOf(Q, main[g]) \subseteq 1 .. more
      <4>1. 1 .. count \subseteq 1 .. more /\ count + 1 .. more \subseteq 1 .. more
        BY <1>2
      <4> QED BY <1>3, <4>1
    <3>2. g # 1 => \A x \in KeysOf(Q, main[g]) : FirstOf(Q, main[g]) <= x
      BY <1>3
    <3> QED BY <1>3, <2>2, <3>1, <3>2
  <2> QED BY <2>1, <2>2
<1>7. ASSUME NEW h \in DOMAIN main, NEW i \in DOMAIN main, h # i
      PROVE  PagesOf(Q, main[h]) \cap PagesOf(Q, main[i]) = {}
  <2>1. PagesOf(P, main[h]) \cap PagesOf(P, main[i]) = {}
    BY <1>7 DEF Chained
  <2>2. \A j \in DOMAIN main : PagesOf(P, main[j]) \cap (count + 1 .. more) = {}
    BY <1>2, <1>3
  <2>3. CASE h # g /\ i # g
    BY <1>5, <2>1, <2>3
  <2>4. CASE h = g
    BY <1>5, <1>7, <2>1, <2>2, <2>4
  <2>5. CASE i = g
    BY <1>5, <1>7, <2>1, <2>2, <2>5
  <2> QED BY <2>3, <2>4, <2>5
<1>8. ASSUME NEW h \in DOMAIN main, NEW i \in DOMAIN main, h < i, NEW x \in KeysOf(Q, main[h])
      PROVE  x < FirstOf(Q, main[i])
  <2>1. FirstOf(Q, main[i]) = FirstOf(P, main[i])
    <3>1. i # 1
      BY <1>2, <1>8
    <3> QED BY <1>5, <3>1
  <2>2. CASE x \in KeysOf(P, main[h])
    BY <1>8, <2>1, <2>2 DEF Chained
  <2>3. CASE x \notin KeysOf(P, main[h])
    <3>1. h = g /\ x = k
      BY <1>5, <1>8, <2>3
    <3> QED BY <1>2, <1>8, <2>1, <3>1
  <2> QED BY <2>2, <2>3
<1>9. more \in 0 .. s.pages
  BY <1>1, <1>2
<1>10. Chained(s, Q, main, head, more)
  BY <1>1, <1>6, <1>7, <1>8, <1>9 DEF Chained
<1>11. /\ OtherPlaces(Q, main, g) = OtherPlaces(P, main, g)
       /\ OtherLiving(Q, main, g) = OtherLiving(P, main, g)
  <2>1. /\ {PlacesOf(Q, main[h]) : h \in DOMAIN main \ {g}} = {PlacesOf(P, main[h]) : h \in DOMAIN main \ {g}}
        /\ {Living(Q, main[h]) : h \in DOMAIN main \ {g}} = {Living(P, main[h]) : h \in DOMAIN main \ {g}}
    BY <1>5
  <2> QED BY <2>1 DEF OtherPlaces, OtherLiving
<1> DEFINE Counts(R) ==
             /\ IsFiniteSet(PlacesOf(R, main[g])) /\ IsFiniteSet(Living(R, main[g]))
             /\ IsFiniteSet(OtherPlaces(R, main, g)) /\ IsFiniteSet(OtherLiving(R, main, g))
             /\ Cardinality(AllPlaces(R, main)) =
                   Cardinality(PlacesOf(R, main[g])) + Cardinality(OtherPlaces(R, main, g))
             /\ Cardinality(AllLiving(R, main)) =
                   Cardinality(Living(R, main[g])) + Cardinality(OtherLiving(R, main, g))
<1>12. Counts(P)
  BY Parted
<1>13. Counts(Q)
  BY <1>10, Parted
<1>14. /\ Cardinality(AllPlaces(Q, main)) + Cardinality(PlacesOf(P, main[g])) =
             Cardinality(AllPlaces(P, main)) + Cardinality(PlacesOf(Q, main[g]))
       /\ Cardinality(AllLiving(Q, main)) + Cardinality(Living(P, main[g])) =
             Cardinality(AllLiving(P, main)) + Cardinality(Living(Q, main[g]))
  <2>1. /\ Cardinality(PlacesOf(P, main[g])) \in Nat /\ Cardinality(Living(P, main[g])) \in Nat
        /\ Cardinality(OtherPlaces(P, main, g)) \in Nat /\ Cardinality(OtherLiving(P, main, g)) \in Nat
        /\ Cardinality(PlacesOf(Q, main[g])) \in Nat /\ Cardinality(Living(Q, main[g])) \in Nat
    BY <1>12, <1>13, FS_CardinalityType
  <2> QED BY <1>11, <1>12, <1>13, <2>1
<1> QED BY <1>5, <1>10, <1>14

(* A live slot enters a group at z, and the others stay or move. *)
Enters(P, Q, p, z, f) ==
    /\ z \in PlacesOf(Q, p) /\ SlotAt(Q, z).live
    /\ f \in Bijection(PlacesOf(P, p), PlacesOf(Q, p) \ {z})
    /\ \A x \in PlacesOf(P, p) : SlotAt(Q, f[x]) = SlotAt(P, x)

LEMMA SlotAdded ==
    ASSUME NEW P, NEW Q, NEW p, NEW z, NEW f, Enters(P, Q, p, z, f), IsFiniteSet(PlacesOf(P, p)),
           OneEach(P, p), \A x \in Living(P, p) : SlotAt(P, x).key # SlotAt(Q, z).key
    PROVE  /\ KeysOf(Q, p) = KeysOf(P, p) \cup {SlotAt(Q, z).key} /\ OneEach(Q, p)
           /\ Cardinality(PlacesOf(Q, p)) = Cardinality(PlacesOf(P, p)) + 1
           /\ Cardinality(Living(Q, p)) = Cardinality(Living(P, p)) + 1
<1>1. /\ z \in PlacesOf(Q, p) /\ SlotAt(Q, z).live
      /\ f \in Bijection(PlacesOf(P, p), PlacesOf(Q, p) \ {z})
      /\ \A x \in PlacesOf(P, p) : SlotAt(Q, f[x]) = SlotAt(P, x)
  BY DEF Enters
<1>2. /\ f \in [PlacesOf(P, p) -> PlacesOf(Q, p) \ {z}]
      /\ \A x, y \in PlacesOf(P, p) : f[x] = f[y] => x = y
      /\ \A y \in PlacesOf(Q, p) \ {z} : \E x \in PlacesOf(P, p) : f[x] = y
  BY <1>1 DEF Bijection, Injection, Surjection, IsInjective
<1>3. ASSUME NEW y \in PlacesOf(Q, p), y # z
      PROVE  \E x \in PlacesOf(P, p) : f[x] = y /\ SlotAt(Q, y) = SlotAt(P, x)
  <2>1. PICK x \in PlacesOf(P, p) : f[x] = y
    BY <1>2, <1>3
  <2> QED BY <1>1, <2>1
<1>4. KeysOf(Q, p) = KeysOf(P, p) \cup {SlotAt(Q, z).key}
  <2>1. ASSUME NEW x \in PlacesOf(P, p) PROVE SlotAt(P, x).key \in KeysOf(Q, p)
    BY <1>1, <1>2 DEF KeysOf
  <2>2. ASSUME NEW y \in PlacesOf(Q, p), y # z PROVE SlotAt(Q, y).key \in KeysOf(P, p)
    BY <1>3, <2>2 DEF KeysOf
  <2>3. SlotAt(Q, z).key \in KeysOf(Q, p)
    BY <1>1 DEF KeysOf
  <2>4. KeysOf(P, p) \subseteq KeysOf(Q, p)
    BY <2>1 DEF KeysOf
  <2>5. KeysOf(Q, p) \subseteq KeysOf(P, p) \cup {SlotAt(Q, z).key}
    BY <2>2 DEF KeysOf
  <2> QED BY <2>3, <2>4, <2>5
<1>5. ASSUME NEW y \in Living(Q, p), y # z
      PROVE  \E x \in Living(P, p) : f[x] = y /\ SlotAt(Q, y) = SlotAt(P, x)
  BY <1>3, <1>5 DEF Living
<1>6. OneEach(Q, p)
  <2> SUFFICES ASSUME NEW x \in Living(Q, p), NEW y \in Living(Q, p), SlotAt(Q, x).key = SlotAt(Q, y).key
               PROVE  x = y
    BY DEF OneEach
  <2>1. CASE x # z /\ y # z
    <3>1. PICK a \in Living(P, p) : f[a] = x /\ SlotAt(Q, x) = SlotAt(P, a)
      BY <1>5, <2>1
    <3>2. PICK b \in Living(P, p) : f[b] = y /\ SlotAt(Q, y) = SlotAt(P, b)
      BY <1>5, <2>1
    <3> QED BY <3>1, <3>2 DEF OneEach
  <2>2. CASE x = z /\ y # z
    BY <1>5, <2>2
  <2>3. CASE x # z /\ y = z
    BY <1>5, <2>3
  <2> QED BY <2>1, <2>2, <2>3
<1>7. IsFiniteSet(PlacesOf(Q, p) \ {z}) /\ Cardinality(PlacesOf(Q, p) \ {z}) = Cardinality(PlacesOf(P, p))
  BY <1>1, FS_Bijection DEF ExistsBijection
<1>8. Cardinality(PlacesOf(Q, p)) = Cardinality(PlacesOf(P, p)) + 1
  <2>1. PlacesOf(Q, p) = (PlacesOf(Q, p) \ {z}) \cup {z}
    BY <1>1
  <2>2. Cardinality((PlacesOf(Q, p) \ {z}) \cup {z}) = Cardinality(PlacesOf(Q, p) \ {z}) + 1
    BY <1>7, FS_AddElement
  <2> QED BY <1>7, <2>1, <2>2
<1> DEFINE h == [x \in Living(P, p) |-> f[x]]
<1>9. h \in Bijection(Living(P, p), Living(Q, p) \ {z})
  <2>1. h \in [Living(P, p) -> Living(Q, p) \ {z}]
    <3>1. \A x \in Living(P, p) : f[x] \in Living(Q, p) \ {z}
      BY <1>1, <1>2 DEF Living
    <3> QED BY <3>1
  <2>2. \A x, y \in Living(P, p) : h[x] = h[y] => x = y
    BY <1>2 DEF Living
  <2>3. \A y \in Living(Q, p) \ {z} : \E x \in Living(P, p) : h[x] = y
    BY <1>5
  <2> HIDE DEF h
  <2> QED BY <2>1, <2>2, <2>3 DEF Bijection, Injection, Surjection, IsInjective
<1>10. IsFiniteSet(Living(P, p))
  BY FS_Subset DEF Living
<1>11. IsFiniteSet(Living(Q, p) \ {z}) /\ Cardinality(Living(Q, p) \ {z}) = Cardinality(Living(P, p))
  <2> HIDE DEF h
  <2> QED BY <1>9, <1>10, FS_Bijection DEF ExistsBijection
<1>12. Cardinality(Living(Q, p)) = Cardinality(Living(P, p)) + 1
  <2>1. Living(Q, p) = (Living(Q, p) \ {z}) \cup {z}
    BY <1>1 DEF Living
  <2>2. Cardinality((Living(Q, p) \ {z}) \cup {z}) = Cardinality(Living(Q, p) \ {z}) + 1
    BY <1>11, FS_AddElement
  <2> QED BY <1>11, <2>1, <2>2
<1> QED BY <1>4, <1>6, <1>8, <1>12

IsInserted(now, T, s, i, e) ==
    /\ now \in Seq(T) /\ Len(now) = Len(s) + 1 /\ DOMAIN now = 1 .. Len(s) + 1
    /\ \A j \in 1 .. Len(s) + 1 : now[j] = IF j < i THEN s[j] ELSE IF j = i THEN e ELSE s[j - 1]

LEMMA Inserted ==
    ASSUME NEW T, NEW s \in Seq(T), NEW e \in T, NEW i \in 1 .. Len(s) + 1
    PROVE  IsInserted(InsertAt(s, i, e), T, s, i, e)
<1> DEFINE front == SubSeq(s, 1, i - 1)
           back == SubSeq(s, i, Len(s))
           one == <<e>>
<1>1. Len(s) \in Nat /\ \A j \in 1 .. Len(s) : s[j] \in T
  BY LenProperties, ElementOfSeq
<1>2. front \in Seq(T) /\ Len(front) = i - 1 /\ \A j \in 1 .. i - 1 : front[j] = s[j]
  <2>1. 1 \in Int /\ i - 1 \in Int /\ \A j \in 1 .. i - 1 : s[j] \in T
    BY <1>1
  <2>2. /\ front \in Seq(T) /\ Len(front) = IF 1 <= i - 1 THEN (i - 1) - 1 + 1 ELSE 0
        /\ \A j \in 1 .. (i - 1) - 1 + 1 : front[j] = s[1 + j - 1]
    BY <2>1, SubSeqProperties
  <2> HIDE DEF front
  <2> QED BY <1>1, <2>2
<1>3. back \in Seq(T) /\ Len(back) = Len(s) - i + 1 /\ \A j \in 1 .. Len(s) - i + 1 : back[j] = s[i + j - 1]
  <2>1. i \in Int /\ Len(s) \in Int /\ \A j \in i .. Len(s) : s[j] \in T
    BY <1>1
  <2>2. /\ back \in Seq(T) /\ Len(back) = IF i <= Len(s) THEN Len(s) - i + 1 ELSE 0
        /\ \A j \in 1 .. Len(s) - i + 1 : back[j] = s[i + j - 1]
    BY <2>1, SubSeqProperties
  <2> HIDE DEF back
  <2> QED BY <1>1, <2>2
<1>4. one \in Seq(T) /\ Len(one) = 1 /\ one[1] = e
  OBVIOUS
<1>5. InsertAt(s, i, e) = (front \o one) \o back
  BY DEF InsertAt
<1> HIDE DEF front, one, back
<1>6. /\ front \o one \in Seq(T) /\ Len(front \o one) = i
      /\ \A j \in 1 .. i : (front \o one)[j] = IF j <= i - 1 THEN front[j] ELSE one[j - (i - 1)]
  <2>1. /\ front \o one \in Seq(T) /\ Len(front \o one) = Len(front) + Len(one)
        /\ \A j \in 1 .. Len(front) + Len(one) :
              (front \o one)[j] = IF j <= Len(front) THEN front[j] ELSE one[j - Len(front)]
    BY <1>2, <1>4, ConcatProperties
  <2>2. Len(front) + Len(one) = i
    BY <1>1, <1>2, <1>4
  <2> QED BY <1>2, <2>1, <2>2
<1>61. (front \o one)[i] = e
  <2>1. i \in 1 .. i /\ ~(i <= i - 1) /\ i - (i - 1) = 1
    BY <1>1
  <2>2. (front \o one)[i] = one[i - (i - 1)]
    BY <1>6, <2>1
  <2> QED BY <1>4, <2>1, <2>2
<1> DEFINE left == front \o one
           whole == left \o back
<1> HIDE DEF left
<1>7. /\ whole \in Seq(T) /\ Len(whole) = i + (Len(s) - i + 1)
      /\ \A j \in 1 .. i + (Len(s) - i + 1) :
            whole[j] = IF j <= i THEN left[j] ELSE back[j - i]
  <2>1. left \in Seq(T) /\ Len(left) = i
    BY <1>6 DEF left
  <2>2. /\ whole \in Seq(T) /\ Len(whole) = Len(left) + Len(back)
        /\ \A j \in 1 .. Len(left) + Len(back) :
              whole[j] = IF j <= Len(left) THEN left[j] ELSE back[j - Len(left)]
    BY <1>3, <2>1, ConcatProperties
  <2> HIDE DEF whole
  <2> QED BY <1>3, <2>1, <2>2
<1> HIDE DEF whole
<1>8. Len(whole) = Len(s) + 1 /\ DOMAIN whole = 1 .. Len(s) + 1
  <2>1. Len(whole) = Len(s) + 1
    BY <1>1, <1>7
  <2>2. DOMAIN whole = 1 .. Len(whole)
    BY <1>7, LenProperties
  <2> QED BY <2>1, <2>2
<1>9. ASSUME NEW j \in 1 .. Len(s) + 1
      PROVE  whole[j] = IF j < i THEN s[j] ELSE IF j = i THEN e ELSE s[j - 1]
  <2>0. j \in 1 .. i + (Len(s) - i + 1)
    BY <1>1
  <2>1. CASE j < i
    <3>1. j \in 1 .. i /\ j \in 1 .. i - 1 /\ j <= i
      BY <1>1, <2>1
    <3>2. left[j] = s[j]
      BY <1>2, <1>6, <3>1 DEF left
    <3> QED BY <1>7, <2>0, <2>1, <3>1, <3>2
  <2>2. CASE j = i
    <3>1. whole[j] = left[i] /\ ~(j < i)
      BY <1>1, <1>7, <2>0, <2>2
    <3>2. left[i] = e
      BY <1>61 DEF left
    <3> QED BY <2>2, <3>1, <3>2
  <2>3. CASE j > i
    <3>1. ~(j <= i) /\ ~(j < i) /\ j # i /\ j - i \in 1 .. Len(s) - i + 1 /\ i + (j - i) - 1 = j - 1
      BY <1>1, <2>3
    <3>2. back[j - i] = s[j - 1]
      BY <1>3, <3>1
    <3> QED BY <1>7, <2>0, <3>1, <3>2
  <2> QED BY <1>1, <2>1, <2>2, <2>3
<1>10. InsertAt(s, i, e) = whole
  BY <1>5 DEF whole, left
<1> HIDE DEF whole
<1> QED BY <1>7, <1>8, <1>9, <1>10 DEF IsInserted

-------------------------------------------------------------------------------
(* A file as the calls leave it, and the fields of the object that go with it. *)
Sound(s, P, m) ==
    /\ P \in Images(s) /\ Chained(s, P, m.main, m.head, m.count) /\ Directory(P, m)
    /\ m.live = Cardinality(AllLiving(P, m.main))
    /\ m.deleted = Cardinality(AllPlaces(P, m.main)) - Cardinality(AllLiving(P, m.main))

LEMMA SoundTypes ==
    ASSUME NEW s, SoundSetup(s), NEW P, NEW m, Sound(s, P, m)
    PROVE  /\ P \in Images(s) /\ Chained(s, P, m.main, m.head, m.count) /\ Directory(P, m)
           /\ Len(m.main) \in Nat /\ DOMAIN m.main = 1 .. Len(m.main) /\ m.count \in 0 .. s.pages
           /\ IsFiniteSet(AllLiving(P, m.main)) /\ m.live \in Nat
           /\ IsFiniteSet(AllPlaces(P, m.main)) /\ m.deleted \in Int
           /\ \A g \in DOMAIN m.main : m.main[g] \in 1 .. s.pages /\ Sane(s, P, m.main[g])
<1> USE DEF SoundSetup
<1>1. P \in Images(s) /\ Chained(s, P, m.main, m.head, m.count) /\ Directory(P, m)
  BY DEF Sound
<1>2. Len(m.main) \in Nat /\ DOMAIN m.main = 1 .. Len(m.main) /\ (m.main = <<>> <=> Len(m.main) = 0)
  BY <1>1, ChainTypes
<1>3. m.count \in 0 .. s.pages
  BY <1>1 DEF Chained
<1>4. \A g \in DOMAIN m.main : m.main[g] \in 1 .. s.pages /\ Sane(s, P, m.main[g])
  BY <1>1, ChainTypes
<1>5. IsFiniteSet(AllLiving(P, m.main)) /\ IsFiniteSet(AllPlaces(P, m.main))
  <2>1. CASE Len(m.main) = 0
    <3>1. AllLiving(P, m.main) = {} /\ AllPlaces(P, m.main) = {}
      BY <1>2, <2>1 DEF AllLiving, AllPlaces
    <3> QED BY <3>1, FS_EmptySet
  <2>2. CASE Len(m.main) # 0
    <3>1. 1 \in DOMAIN m.main
      BY <1>2, <2>2
    <3>2. /\ IsFiniteSet(PlacesOf(P, m.main[1])) /\ IsFiniteSet(Living(P, m.main[1]))
          /\ IsFiniteSet(OtherPlaces(P, m.main, 1)) /\ IsFiniteSet(OtherLiving(P, m.main, 1))
          /\ AllPlaces(P, m.main) = PlacesOf(P, m.main[1]) \cup OtherPlaces(P, m.main, 1)
          /\ AllLiving(P, m.main) = Living(P, m.main[1]) \cup OtherLiving(P, m.main, 1)
      BY <1>1, <3>1, Parted
    <3> QED BY <3>2, FS_Union
  <2> QED BY <2>1, <2>2
<1>6. m.live \in Nat /\ m.deleted \in Int
  <2>1. Cardinality(AllLiving(P, m.main)) \in Nat /\ Cardinality(AllPlaces(P, m.main)) \in Nat
    BY <1>5, FS_CardinalityType
  <2> QED BY <2>1 DEF Sound
<1> QED BY <1>1, <1>2, <1>3, <1>4, <1>5, <1>6

(* The memory after a change of the group g alone. *)
Follows(m, n, Q, g) ==
    /\ n.main = m.main /\ n.head = m.head
    /\ n.first = [m.first EXCEPT ![g] = FirstOf(Q, m.main[g])]

(* No live row has the key. *)
IsNew(P, main, k) == \A x \in AllLiving(P, main) : SlotAt(P, x).key # k

(* A live row enters the group g at z, of a key that no live row had; and what it leads to. *)
RowGoesIn(s, P, m, Q, n, g, z, f) ==
    /\ Q \in Images(s) /\ g \in DOMAIN m.main /\ Enters(P, Q, m.main[g], z, f)
    /\ Belongs(P, m.main, g, SlotAt(Q, z).key) /\ SlotAt(Q, z).key \in Int /\ IsNew(P, m.main, SlotAt(Q, z).key)
    /\ Rewrites(s, P, Q, m.main[g], m.count, n.count) /\ n.count \in m.count .. s.pages
    /\ OneEach(Q, m.main[g]) => Sane(s, Q, m.main[g])
    /\ g # 1 => FirstOf(Q, m.main[g]) = FirstOf(P, m.main[g])
    /\ Follows(m, n, Q, g) /\ n.live = m.live + 1 /\ n.deleted = m.deleted

SameOthers(P, Q, main, g) ==
    \A h \in DOMAIN main : h # g => Q[main[h]] = P[main[h]] /\ KeysOf(Q, main[h]) = KeysOf(P, main[h])

LEMMA RowEnters ==
    ASSUME NEW s, SoundSetup(s), NEW P, NEW m, Sound(s, P, m), NEW Q, NEW n, NEW g, NEW z, NEW f,
           RowGoesIn(s, P, m, Q, n, g, z, f)
    PROVE  /\ Sound(s, Q, n)
           /\ KeysOf(Q, m.main[g]) = KeysOf(P, m.main[g]) \cup {SlotAt(Q, z).key}
           /\ SameOthers(P, Q, m.main, g)
<1> USE DEF RowGoesIn, SameOthers
<1> USE DEF SoundSetup
<1> DEFINE main == m.main
           p == main[g]
           k == SlotAt(Q, z).key
<1>1. Chained(s, P, main, m.head, m.count) /\ P \in Images(s) /\ Sane(s, P, p) /\ m.live \in Nat /\ m.deleted \in Int
  BY SoundTypes
<1>2. IsFiniteSet(PlacesOf(P, p)) /\ IsFiniteSet(Living(P, p))
  BY <1>1, Parted
<1>3. OneEach(P, p) /\ \A x \in Living(P, p) : SlotAt(P, x).key # k
  BY <1>1 DEF Sane, AllLiving, IsNew
<1>4. /\ KeysOf(Q, p) = KeysOf(P, p) \cup {k} /\ OneEach(Q, p)
      /\ Cardinality(PlacesOf(Q, p)) = Cardinality(PlacesOf(P, p)) + 1
      /\ Cardinality(Living(Q, p)) = Cardinality(Living(P, p)) + 1
  <2> HIDE DEF p
  <2>1. Enters(P, Q, p, z, f)
    BY DEF p
  <2> QED BY <1>2, <1>3, <2>1, SlotAdded
<1>5. Sane(s, Q, p)
  BY <1>4
<1>6. /\ Chained(s, Q, main, m.head, n.count)
      /\ \A h \in DOMAIN main : h # g => FirstOf(Q, main[h]) = FirstOf(P, main[h])
      /\ \A h \in DOMAIN main : h # g => Q[main[h]] = P[main[h]] /\ KeysOf(Q, main[h]) = KeysOf(P, main[h])
      /\ Cardinality(AllPlaces(Q, main)) + Cardinality(PlacesOf(P, main[g])) =
            Cardinality(AllPlaces(P, main)) + Cardinality(PlacesOf(Q, main[g]))
      /\ Cardinality(AllLiving(Q, main)) + Cardinality(Living(P, main[g])) =
            Cardinality(AllLiving(P, main)) + Cardinality(Living(Q, main[g]))
  <2> DEFINE more == n.count
  <2> HIDE DEF more, main, k
  <2>1. /\ more \in m.count .. s.pages /\ k \in Int /\ g \in DOMAIN main
        /\ Rewrites(s, P, Q, main[g], m.count, more)
        /\ Belongs(P, main, g, k) /\ (g # 1 => FirstOf(Q, main[g]) = FirstOf(P, main[g]))
    BY DEF more, main, k
  <2>2. KeysOf(Q, main[g]) \subseteq KeysOf(P, main[g]) \cup {k}
    BY <1>4
  <2>3. Chained(s, P, main, m.head, m.count) /\ Sane(s, Q, main[g])
    BY <1>1, <1>5
  <2> QED BY <1>1, <2>1, <2>2, <2>3, OneGroup DEF more
<1>7. Directory(Q, n)
  <2>1. n.main = main /\ n.first = [m.first EXCEPT ![g] = FirstOf(Q, main[g])]
    BY DEF Follows
  <2>2. m.first = [h \in DOMAIN main |-> FirstOf(P, main[h])]
    BY DEF Sound, Directory
  <2> QED BY <1>6, <2>1, <2>2 DEF Directory
<1>8. /\ Cardinality(AllLiving(P, main)) \in Nat /\ Cardinality(AllPlaces(P, main)) \in Nat
      /\ Cardinality(PlacesOf(P, p)) \in Nat /\ Cardinality(Living(P, p)) \in Nat
  <2>1. IsFiniteSet(AllLiving(P, main)) /\ IsFiniteSet(AllPlaces(P, main))
    BY SoundTypes
  <2> QED BY <1>2, <2>1, FS_CardinalityType
<1>9. /\ IsFiniteSet(AllLiving(Q, main)) /\ IsFiniteSet(AllPlaces(Q, main))
  <2>1. /\ IsFiniteSet(PlacesOf(Q, p)) /\ IsFiniteSet(Living(Q, p))
        /\ IsFiniteSet(OtherPlaces(Q, main, g)) /\ IsFiniteSet(OtherLiving(Q, main, g))
        /\ AllPlaces(Q, main) = PlacesOf(Q, p) \cup OtherPlaces(Q, main, g)
        /\ AllLiving(Q, main) = Living(Q, p) \cup OtherLiving(Q, main, g)
    BY <1>6, Parted
  <2> DEFINE A == PlacesOf(Q, p) \cup OtherPlaces(Q, main, g)
             B == Living(Q, p) \cup OtherLiving(Q, main, g)
  <2>2. IsFiniteSet(A) /\ IsFiniteSet(B)
    BY <2>1, FS_Union
  <2> HIDE DEF A, B
  <2>3. AllPlaces(Q, main) = A /\ AllLiving(Q, main) = B
    BY <2>1 DEF A, B
  <2> QED BY <2>2, <2>3
<1>10. Cardinality(AllLiving(Q, main)) \in Nat /\ Cardinality(AllPlaces(Q, main)) \in Nat
  BY <1>9, FS_CardinalityType
<1>11. /\ n.live = Cardinality(AllLiving(Q, main))
       /\ n.deleted = Cardinality(AllPlaces(Q, main)) - Cardinality(AllLiving(Q, main))
  <2>1. /\ m.live = Cardinality(AllLiving(P, main))
        /\ m.deleted = Cardinality(AllPlaces(P, main)) - Cardinality(AllLiving(P, main))
    BY DEF Sound
  <2> QED BY <1>4, <1>6, <1>8, <1>10, <2>1
<1> QED BY <1>4, <1>6, <1>7, <1>11 DEF Sound, Follows

(* What a write does to the pages, and an image with the links of another. *)
Sets(P, Q, q, image) == Q = [P EXCEPT ![q] = image]
LinkedAs(s, image, page, slots) ==
    /\ image \in PagesIn(s) /\ image.slots = slots
    /\ image.overflow = page.overflow /\ image.next = page.next

LEMMA PageWritten ==
    ASSUME NEW s, NEW P \in Images(s), NEW q \in 1 .. s.pages, NEW image \in PagesIn(s), NEW Q, Sets(P, Q, q, image)
    PROVE  Q \in Images(s) /\ Q[q] = image /\ \A x \in 1 .. s.pages : x # q => Q[x] = P[x]
<1>1. P \in [1 .. s.pages -> PagesIn(s)] /\ Q = [P EXCEPT ![q] = image]
  BY DEF Images, Sets
<1>2. \A x \in 1 .. s.pages : x # q => Q[x] = P[x]
  <2>1. P = [x \in 1 .. s.pages |-> P[x]]
    BY <1>1
  <2> HIDE DEF PagesIn
  <2> QED BY <1>1, <2>1
<1> HIDE DEF PagesIn
<1> QED BY <1>1, <1>2 DEF Images

LEMMA WithSlots ==
    ASSUME NEW s, NEW page \in PagesIn(s), NEW slots \in Seq(SlotsIn(s))
    PROVE  LinkedAs(s, [page EXCEPT !.slots = slots], page, slots)
  BY DEF PagesIn, LinkedAs

(* A live row of a new key, for the group g; and the fields that count it. *)
NewRow(s, P, m, g, e) ==
    /\ g \in DOMAIN m.main /\ e \in SlotsIn(s) /\ e.live
    /\ Belongs(P, m.main, g, e.key) /\ IsNew(P, m.main, e.key)
CountsOneMore(m, n) ==
    n.main = m.main /\ n.head = m.head /\ n.live = m.live + 1 /\ n.deleted = m.deleted

GoesInPage(s, P, m, Q, n, g, e, image) ==
    LET p == m.main[g]
        b == LowerBound(P[p].slots, e.key)
    IN  /\ NewRow(s, P, m, g, e) /\ CountsOneMore(m, n) /\ Len(P[p].slots) < s.slots
        /\ LinkedAs(s, image, P[p], InsertAt(P[p].slots, b + 1, e)) /\ Sets(P, Q, p, image)
        /\ n.count = m.count /\ n.first = [m.first EXCEPT ![g] = IF b = 0 THEN e.key ELSE @]

(* sequential_file.cpp, insert: a row enters a page that is not full, at its place. *)
LEMMA RowInPage ==
    ASSUME NEW s, SoundSetup(s), NEW P, NEW m, Sound(s, P, m), NEW Q, NEW n, NEW g, NEW e, NEW image,
           GoesInPage(s, P, m, Q, n, g, e, image)
    PROVE  /\ Sound(s, Q, n) /\ SameOthers(P, Q, m.main, g)
           /\ KeysOf(Q, m.main[g]) = KeysOf(P, m.main[g]) \cup {e.key} /\ Q[m.main[g]].overflow = NoPage
<1> SUFFICES ASSUME NEW p, NEW b, p = m.main[g], b = LowerBound(P[p].slots, e.key),
                    g \in DOMAIN m.main, e \in SlotsIn(s), e.live, Belongs(P, m.main, g, e.key),
                    IsNew(P, m.main, e.key), n.main = m.main, n.head = m.head, n.live = m.live + 1,
                    n.deleted = m.deleted, Len(P[p].slots) < s.slots,
                    LinkedAs(s, image, P[p], InsertAt(P[p].slots, b + 1, e)), Sets(P, Q, p, image),
                    n.count = m.count,
                    n.first = [m.first EXCEPT ![g] = IF b = 0 THEN e.key ELSE m.first[g]]
             PROVE  /\ Sound(s, Q, n) /\ SameOthers(P, Q, m.main, g)
                    /\ KeysOf(Q, p) = KeysOf(P, p) \cup {e.key} /\ Q[p].overflow = NoPage
  BY DEF GoesInPage, NewRow, CountsOneMore
<1> USE DEF SoundSetup
<1>1. /\ P \in Images(s) /\ p \in 1 .. s.pages /\ Sane(s, P, p) /\ m.count \in 0 .. s.pages
      /\ Chained(s, P, m.main, m.head, m.count) /\ Directory(P, m)
  BY SoundTypes, ZenonT(30)
<1> DEFINE slots == P[p].slots
           size == Len(slots)
           now == InsertAt(slots, b + 1, e)
           k == e.key
<1>2. /\ slots \in Seq(SlotsIn(s)) /\ size \in Nat /\ DOMAIN slots = 1 .. size
      /\ \A i \in 1 .. size : slots[i].key \in Int
      /\ P[p] \in PagesIn(s)
  <2>1. /\ slots \in Seq(SlotsIn(s)) /\ size \in Nat /\ DOMAIN slots = 1 .. size
        /\ \A i \in DOMAIN slots : slots[i].key \in s.keys
    BY <1>1, PageTypes, SMTT(30)
  <2>2. P[p] \in PagesIn(s)
    BY <1>1 DEF Images
  <2> QED BY <2>1, <2>2
<1>3. P[p].overflow = NoPage /\ slots # <<>> /\ Ordered(slots) /\ size # 0
  <2>1. slots # <<>> /\ Ordered(slots) /\ (P[p].overflow # NoPage => size = s.slots)
    BY <1>1 DEF Sane
  <2>2. size # 0
    BY <1>2, <2>1, EmptySeq
  <2> QED BY <1>2, <2>1, <2>2, SMTT(30)
<1>4. k \in Int
  BY DEF SlotsIn
<1>5. b \in 0 .. size /\ \A i \in 1 .. size : i <= b <=> slots[i].key < k
  <2> HIDE DEF slots, size, k
  <2>1. b = LowerBound(slots, k) /\ Len(slots) = size
    BY DEF slots, k, size
  <2>2. size \in Nat /\ DOMAIN slots = 1 .. size /\ \A i \in 1 .. size : slots[i].key \in Int
    BY <1>2
  <2>3. /\ LowerBound(slots, k) \in 0 .. size
        /\ \A i \in 1 .. size : i <= LowerBound(slots, k) <=> slots[i].key < k
    BY ONLY <1>3, <1>4, <2>1, <2>2, BinarySearch
  <2> QED BY <2>1, <2>3
<1>8. b \in 0 .. size /\ size \in Nat
  BY <1>2, <1>5, ZenonT(30)
<1>6. /\ now \in Seq(SlotsIn(s)) /\ Len(now) = size + 1 /\ DOMAIN now = 1 .. size + 1
      /\ \A j \in 1 .. size + 1 : now[j] = IF j < b + 1 THEN slots[j] ELSE IF j = b + 1 THEN e ELSE slots[j - 1]
  <2> DEFINE at == b + 1
             T == SlotsIn(s)
  <2>1. at \in 1 .. Len(slots) + 1 /\ slots \in Seq(T) /\ e \in T
    <3> HIDE DEF size, slots
    <3> QED BY <1>2, <1>5
  <2> HIDE DEF slots, at, T
  <2>2. IsInserted(InsertAt(slots, at, e), T, slots, at, e)
    BY ONLY <2>1, Inserted
  <2> QED BY <2>2, ZenonT(30) DEF at, T, IsInserted
<1>7. /\ \A q \in 1 .. s.pages : q # p => Q[q] = P[q]
      /\ Q \in Images(s) /\ Q[p].slots = now /\ Q[p].overflow = NoPage /\ Q[p].next = P[p].next
  <2>1. /\ image \in PagesIn(s) /\ image.slots = now /\ image.next = P[p].next /\ image.overflow = NoPage
        /\ P \in Images(s) /\ p \in 1 .. s.pages /\ Sets(P, Q, p, image)
    BY <1>1, <1>3 DEF LinkedAs
  <2> HIDE DEF now
  <2>2. Q \in Images(s) /\ Q[p] = image /\ \A x \in 1 .. s.pages : x # p => Q[x] = P[x]
    BY ONLY <2>1, PageWritten
  <2> QED BY <2>1, <2>2
<1> HIDE DEF now
<1>10. PagesOf(P, p) = {p} /\ PagesOf(Q, p) = {p}
  BY <1>3, <1>7 DEF PagesOf
<1>11. /\ PlacesOf(P, p) = {<<p, i>> : i \in 1 .. size}
       /\ PlacesOf(Q, p) = {<<p, i>> : i \in 1 .. size + 1}
  <2>1. \A R : PagesOf(R, p) = {p} => PlacesOf(R, p) = {<<p, i>> : i \in DOMAIN R[p].slots}
    BY DEF PlacesOf
  <2>2. DOMAIN P[p].slots = 1 .. size /\ DOMAIN Q[p].slots = 1 .. size + 1
    BY <1>2, <1>6, <1>7, ZenonT(30)
  <2> QED BY <1>10, <2>1, <2>2
<1>12. /\ \A i : SlotAt(P, <<p, i>>) = slots[i]
       /\ \A i : SlotAt(Q, <<p, i>>) = now[i]
  BY <1>7, ZenonT(30) DEF SlotAt
<1> DEFINE To(i) == IF i <= b THEN i ELSE i + 1
           f == [x \in PlacesOf(P, p) |-> <<p, To(x[2])>>]
           z == <<p, b + 1>>
<1>13. \A i \in 1 .. size : f[<<p, i>>] = <<p, To(i)>>
  BY <1>11, ZenonT(30)
<1>14. /\ \A i \in 1 .. size : To(i) \in 1 .. size + 1 /\ To(i) # b + 1 /\ now[To(i)] = slots[i]
       /\ \A i, j \in 1 .. size : To(i) = To(j) => i = j
       /\ \A j \in 1 .. size + 1 : j # b + 1 => \E i \in 1 .. size : To(i) = j
  <2>1. ASSUME NEW i \in 1 .. size PROVE To(i) \in 1 .. size + 1 /\ To(i) # b + 1 /\ now[To(i)] = slots[i]
    <3>1. To(i) \in 1 .. size + 1 /\ To(i) # b + 1 /\ (i <= b => To(i) = i /\ i < b + 1)
          /\ (~(i <= b) => To(i) = i + 1 /\ ~(To(i) < b + 1) /\ To(i) - 1 = i)
      BY ONLY <1>8, i \in 1 .. size
    <3> HIDE DEF To, size, slots
    <3> QED BY <1>6, <3>1, SMTT(30)
  <2>2. \A i, j \in 1 .. size : To(i) = To(j) => i = j
    BY ONLY <1>8
  <2>3. ASSUME NEW j \in 1 .. size + 1, j # b + 1 PROVE \E i \in 1 .. size : To(i) = j
    <3>1. CASE j <= b
      <4>1. j \in 1 .. size /\ To(j) = j
        BY ONLY <1>8, <3>1, j \in 1 .. size + 1
      <4> QED BY <4>1, ZenonT(30)
    <3>2. CASE j > b + 1
      <4>1. j - 1 \in 1 .. size /\ To(j - 1) = j
        BY ONLY <1>8, <3>2, j \in 1 .. size + 1
      <4> QED BY <4>1, ZenonT(30)
    <3>3. j <= b \/ j > b + 1
      BY ONLY <1>8, <2>3, j \in 1 .. size + 1
    <3> QED BY <3>1, <3>2, <3>3, ZenonT(30)
  <2> QED BY <2>1, <2>2, <2>3
<1>15. Enters(P, Q, p, z, f)
  <2> HIDE DEF To
  <2>1. z \in PlacesOf(Q, p) /\ SlotAt(Q, z) = e
    <3>1. b + 1 \in 1 .. size + 1 /\ ~(b + 1 < b + 1)
      <4> HIDE DEF To, size, slots
      <4> QED BY <1>2, <1>5
    <3> QED BY <1>6, <1>11, <1>12, <3>1, ZenonT(30)
  <2>2. f \in [PlacesOf(P, p) -> PlacesOf(Q, p) \ {z}]
    <3>1. ASSUME NEW x \in PlacesOf(P, p) PROVE <<p, To(x[2])>> \in PlacesOf(Q, p) \ {z}
      <4>1. PICK i \in 1 .. size : x = <<p, i>>
        BY <1>11
      <4>2. To(i) \in 1 .. size + 1 /\ To(i) # b + 1
        BY <1>14, Zenon
      <4> QED BY ONLY <1>11, <4>1, <4>2
    <3> QED BY <3>1
  <2> HIDE DEF f
  <2>3. ASSUME NEW x \in PlacesOf(P, p), NEW y \in PlacesOf(P, p), f[x] = f[y] PROVE x = y
    <3>1. PICK i \in 1 .. size : x = <<p, i>>
      BY <1>11
    <3>2. PICK j \in 1 .. size : y = <<p, j>>
      BY <1>11
    <3>3. <<p, To(i)>> = <<p, To(j)>>
      BY <1>13, <2>3, <3>1, <3>2
    <3> QED BY <1>14, <3>1, <3>2, <3>3
  <2>4. ASSUME NEW y \in PlacesOf(Q, p) \ {z} PROVE \E x \in PlacesOf(P, p) : f[x] = y
    <3>1. PICK j \in 1 .. size + 1 : y = <<p, j>>
      BY <1>11
    <3>2. PICK i \in 1 .. size : To(i) = j
      BY <1>14, <3>1, ZenonT(30)
    <3> QED BY <1>11, <1>13, <3>1, <3>2, ZenonT(30)
  <2>5. ASSUME NEW x \in PlacesOf(P, p) PROVE SlotAt(Q, f[x]) = SlotAt(P, x)
    <3>1. PICK i \in 1 .. size : x = <<p, i>>
      BY <1>11
    <3>2. f[x] = <<p, To(i)>>
      BY <1>13, <3>1
    <3>3. SlotAt(Q, <<p, To(i)>>) = now[To(i)] /\ SlotAt(P, <<p, i>>) = slots[i]
      BY <1>12
    <3> QED BY <1>14, <3>1, <3>2, <3>3
  <2> HIDE DEF z
  <2>6. f \in Bijection(PlacesOf(P, p), PlacesOf(Q, p) \ {z})
    <3> DEFINE A == PlacesOf(P, p)
               B == PlacesOf(Q, p) \ {z}
    <3>1. f \in [A -> B] /\ (\A x, y \in A : f[x] = f[y] => x = y) /\ (\A y \in B : \E x \in A : f[x] = y)
      BY <2>2, <2>3, <2>4
    <3> HIDE DEF A, B
    <3>2. f \in Bijection(A, B)
      BY ONLY <3>1 DEF Bijection, Injection, Surjection, IsInjective
    <3> QED BY <3>2 DEF A, B
  <2> QED BY <2>1, <2>5, <2>6, ZenonT(30) DEF Enters
<1>16. Ordered(now)
  <2> SUFFICES ASSUME NEW i \in 1 .. size + 1, NEW j \in 1 .. size + 1, i <= j PROVE now[i].key <= now[j].key
    BY <1>6 DEF Ordered
  <2> DEFINE Old(x) == IF x < b + 1 THEN x ELSE x - 1
  <2> HIDE DEF slots, size
  <2>1. ASSUME NEW x \in 1 .. size + 1, x # b + 1
        PROVE  Old(x) \in 1 .. size /\ now[x] = slots[Old(x)]
    <3>1. Old(x) \in 1 .. size
      BY <1>2, <1>5, <2>1
    <3>2. CASE x < b + 1
      BY <1>6, <3>1, <3>2
    <3>3. CASE ~(x < b + 1)
      BY <1>6, <2>1, <3>1, <3>3, SMTT(30)
    <3> QED BY <3>2, <3>3
  <2>2. now[b + 1] = e /\ b + 1 \in 1 .. size + 1
    BY <1>2, <1>5, <1>6, SMTT(30)
  <2>3. CASE i # b + 1 /\ j # b + 1
    <3>1. Old(i) \in 1 .. size /\ Old(j) \in 1 .. size /\ Old(i) <= Old(j)
      BY ONLY <1>8, <2>1, <2>3, i <= j, i \in 1 .. size + 1, j \in 1 .. size + 1
    <3> HIDE DEF Old
    <3> QED BY <1>2, <1>3, <2>1, <2>3, <3>1, SMTT(30) DEF Ordered
  <2>4. CASE i = b + 1 /\ j # b + 1
    <3>1. Old(j) \in 1 .. size /\ ~(Old(j) <= b)
      BY <1>2, <1>5, <2>4, SMTT(30)
    <3> HIDE DEF Old
    <3>2. slots[Old(j)].key \in Int /\ ~(slots[Old(j)].key < k)
      BY <1>2, <1>5, <3>1
    <3>3. now[j].key = slots[Old(j)].key /\ now[i].key = k
      BY <2>1, <2>2, <2>4
    <3> QED BY <1>4, <3>2, <3>3
  <2>5. CASE i # b + 1 /\ j = b + 1
    <3>1. Old(i) \in 1 .. size /\ Old(i) <= b
      BY <1>2, <1>5, <2>5, SMTT(30)
    <3> HIDE DEF Old
    <3>2. slots[Old(i)].key \in Int /\ slots[Old(i)].key < k
      BY <1>2, <1>5, <3>1
    <3>3. now[i].key = slots[Old(i)].key /\ now[j].key = k
      BY <2>1, <2>2, <2>5
    <3> QED BY <1>4, <3>2, <3>3
  <2>6. CASE i = b + 1 /\ j = b + 1
    <3>1. now[i].key = k /\ now[j].key = k
      BY <2>2, <2>6, ZenonT(30)
    <3> QED BY ONLY <1>4, <3>1
  <2> QED BY <2>3, <2>4, <2>5, <2>6, ZenonT(30)
<1>17. OneEach(Q, p) => Sane(s, Q, p)
  <2>1. Len(now) # 0 /\ Len(now) <= s.slots
    <3>1. size < s.slots /\ s.slots \in Nat /\ size \in Nat
      <4>1. s.slots \in Nat
        BY ONLY SoundSetup(s) DEF SoundSetup
      <4> QED BY <1>2, <4>1, ZenonT(30)
    <3>2. Len(now) = size + 1
      BY <1>6, Zenon
    <3> HIDE DEF size, now
    <3> QED BY ONLY <3>1, <3>2
  <2>2. now # <<>>
    BY <2>1, EmptySeq
  <2> QED BY <1>1, <1>7, <1>16, <2>1, <2>2, ZenonT(30) DEF Sane
<1>18. FirstOf(Q, p) = IF b = 0 THEN k ELSE slots[1].key
  <2>1. 1 \in 1 .. size + 1 /\ (b = 0 => ~(1 < b + 1) /\ 1 = b + 1) /\ (b # 0 => 1 < b + 1)
    <3> HIDE DEF size, slots
    <3> QED BY <1>2, <1>5
  <2>2. now[1] = IF b = 0 THEN e ELSE slots[1]
    BY <1>6, <2>1
  <2> QED BY <1>7, <2>2, SMTT(30) DEF FirstOf
<1>19. g # 1 => FirstOf(Q, p) = FirstOf(P, p)
  <2>1. FirstOf(P, p) = slots[1].key /\ 1 \in 1 .. size
    BY <1>2, <1>3, SMTT(60) DEF FirstOf
  <2>2. ASSUME g # 1, b = 0 PROVE FirstOf(P, p) = k
    <3>1. ~(slots[1].key < k)
      BY <1>5, <2>1, <2>2
    <3>2. FirstOf(P, p) <= k
      BY <2>2 DEF Belongs
    <3> HIDE DEF slots
    <3> QED BY <1>4, <2>1, <2>2, <3>1, <3>2, <1>2
  <2> QED BY <1>18, <2>1, <2>2
<1>20. Follows(m, n, Q, g)
  <2>1. m.first[g] = slots[1].key /\ g \in DOMAIN m.first
    <3>1. m.first = [h \in DOMAIN m.main |-> FirstOf(P, m.main[h])]
      BY <1>1, ZenonT(30) DEF Directory
    <3> QED BY ONLY <3>1, g \in DOMAIN m.main, p = m.main[g], ZenonT(30) DEF FirstOf
  <2>2. n.first = [m.first EXCEPT ![g] = IF b = 0 THEN k ELSE m.first[g]]
    BY ZenonT(30)
  <2> QED BY <1>18, <2>1, <2>2, ZenonT(30) DEF Follows
<1>21. SlotAt(Q, z) = e
  <2>1. b + 1 \in 1 .. size + 1 /\ ~(b + 1 < b + 1)
    <3> HIDE DEF size, slots
    <3> QED BY <1>2, <1>5
  <2> QED BY <1>6, <1>12, <2>1
<1>22. Rewrites(s, P, Q, p, m.count, n.count) /\ n.count \in m.count .. s.pages
  <2>1. Rewrites(s, P, Q, p, m.count, n.count)
    BY <1>7, <1>7, <1>10 DEF Rewrites
  <2> QED BY <1>1, <2>1
<1> HIDE DEF z, f
<1>23. RowGoesIn(s, P, m, Q, n, g, z, f)
  BY <1>4, <1>7, <1>15, <1>17, <1>19, <1>20, <1>21, <1>22 DEF RowGoesIn
<1>24. SoundSetup(s) /\ Sound(s, P, m)
  BY DEF SoundSetup
<1>25. /\ Sound(s, Q, n) /\ SameOthers(P, Q, m.main, g)
       /\ KeysOf(Q, m.main[g]) = KeysOf(P, m.main[g]) \cup {SlotAt(Q, z).key}
  BY ONLY <1>23, <1>24, RowEnters
<1> QED BY <1>7, <1>21, <1>25

LEMMA PlacesOfPage ==
    ASSUME NEW P, NEW p
    PROVE  PlacesOf(P, p) = {<<p, i>> : i \in DOMAIN P[p].slots}
                            \cup (IF P[p].overflow = NoPage THEN {}
                                  ELSE {<<P[p].overflow, i>> : i \in DOMAIN P[P[p].overflow].slots})
  BY DEF PlacesOf, PagesOf

(* A live slot joins a group at z, and the others stay where they are. *)
Joins(P, Q, p, z) ==
    /\ z \notin PlacesOf(P, p) /\ PlacesOf(Q, p) = PlacesOf(P, p) \cup {z} /\ SlotAt(Q, z).live
    /\ \A x \in PlacesOf(P, p) : SlotAt(Q, x) = SlotAt(P, x)

LEMMA JoinsEnters ==
    ASSUME NEW P, NEW Q, NEW p, NEW z, Joins(P, Q, p, z)
    PROVE  \E f : Enters(P, Q, p, z, f)
<1> USE DEF Joins
<1> DEFINE A == PlacesOf(P, p)
           f == [x \in A |-> x]
<1>1. \A x \in A : f[x] = x
  OBVIOUS
<1>2. f \in [A -> A]
  OBVIOUS
<1> HIDE DEF f, A
<1>3. f \in Bijection(A, A)
  BY ONLY <1>1, <1>2 DEF Bijection, Injection, Surjection, IsInjective
<1>4. PlacesOf(Q, p) \ {z} = A
  BY DEF A
<1>5. z \in PlacesOf(Q, p) /\ \A x \in PlacesOf(P, p) : SlotAt(Q, f[x]) = SlotAt(P, x)
  BY <1>1 DEF A
<1>6. f \in Bijection(PlacesOf(P, p), PlacesOf(Q, p) \ {z})
  BY <1>3, <1>4 DEF A
<1>7. Enters(P, Q, p, z, f)
  BY ONLY <1>5, <1>6, Joins(P, Q, p, z) DEF Enters
<1> QED BY <1>7

GoesInOverflow(s, P, m, Q, n, g, e, image) ==
    LET o == P[m.main[g]].overflow
    IN  /\ NewRow(s, P, m, g, e) /\ CountsOneMore(m, n) /\ o # NoPage /\ Len(P[o].slots) < s.slots
        /\ LinkedAs(s, image, P[o], Append(P[o].slots, e)) /\ Sets(P, Q, o, image)
        /\ n.count = m.count /\ n.first = m.first

(* sequential_file.cpp, insert_overflow: a row goes to the end of the overflow page. *)
LEMMA RowInOverflow ==
    ASSUME NEW s, SoundSetup(s), NEW P, NEW m, Sound(s, P, m), NEW Q, NEW n, NEW g, NEW e, NEW image,
           GoesInOverflow(s, P, m, Q, n, g, e, image)
    PROVE  /\ Sound(s, Q, n) /\ SameOthers(P, Q, m.main, g)
           /\ KeysOf(Q, m.main[g]) = KeysOf(P, m.main[g]) \cup {e.key} /\ Q[m.main[g]] = P[m.main[g]]
<1> SUFFICES ASSUME NEW p, NEW o, p = m.main[g], o = P[p].overflow,
                    g \in DOMAIN m.main, e \in SlotsIn(s), e.live, Belongs(P, m.main, g, e.key),
                    IsNew(P, m.main, e.key), n.main = m.main, n.head = m.head, n.live = m.live + 1,
                    n.deleted = m.deleted, o # NoPage, Len(P[o].slots) < s.slots,
                    LinkedAs(s, image, P[o], Append(P[o].slots, e)), Sets(P, Q, o, image),
                    n.count = m.count, n.first = m.first
             PROVE  /\ Sound(s, Q, n) /\ SameOthers(P, Q, m.main, g)
                    /\ KeysOf(Q, p) = KeysOf(P, p) \cup {e.key} /\ Q[p] = P[p]
  BY ZenonT(30) DEF GoesInOverflow, NewRow, CountsOneMore
<1> USE DEF SoundSetup
<1>1. /\ P \in Images(s) /\ p \in 1 .. s.pages /\ Sane(s, P, p) /\ m.count \in 0 .. s.pages
      /\ Chained(s, P, m.main, m.head, m.count) /\ Directory(P, m)
  BY SoundTypes
<1>2. o # p /\ P[o].next = NoPage /\ PagesOf(P, p) = {p, o} /\ o \in 1 .. s.pages
  <2>1. o # p /\ P[o].next = NoPage
    BY <1>1 DEF Sane
  <2>2. PagesOf(P, p) = {p, o}
    BY ONLY o = P[p].overflow, o # NoPage DEF PagesOf
  <2>3. PagesOf(P, p) \subseteq 1 .. s.pages
    BY <1>1, PlaceTypes, ZenonT(30)
  <2> QED BY <2>1, <2>2, <2>3, ZenonT(30)
<1> DEFINE slots == P[o].slots
           size == Len(slots)
           now == Append(slots, e)
           z == <<o, size + 1>>
<1>3. /\ slots \in Seq(SlotsIn(s)) /\ size \in Nat /\ DOMAIN slots = 1 .. size /\ P[o] \in PagesIn(s)
  <2>1. slots \in Seq(SlotsIn(s)) /\ size \in Nat /\ DOMAIN slots = 1 .. size
    <3>1. P \in Images(s) /\ o \in 1 .. s.pages
      BY <1>1, <1>2, ZenonT(30)
    <3> QED BY ONLY <3>1, PageTypes
  <2>2. P[o] \in PagesIn(s)
    BY <1>1, <1>2 DEF Images
  <2> QED BY <2>1, <2>2, ZenonT(30)
<1>4. /\ now \in Seq(SlotsIn(s)) /\ Len(now) = size + 1 /\ DOMAIN now = 1 .. size + 1
      /\ now[size + 1] = e /\ \A i \in 1 .. size : now[i] = slots[i]
  <2> DEFINE T == SlotsIn(s)
  <2>1. slots \in Seq(T) /\ e \in T
    BY <1>3
  <2> HIDE DEF T, slots
  <2>2. /\ Append(slots, e) \in Seq(T) /\ Len(Append(slots, e)) = Len(slots) + 1
        /\ \A i \in 1 .. Len(slots) : Append(slots, e)[i] = slots[i]
        /\ Append(slots, e)[Len(slots) + 1] = e
    BY ONLY <2>1, AppendProperties
  <2>3. DOMAIN Append(slots, e) = 1 .. Len(slots) + 1
    BY <2>2, LenProperties, ZenonT(30)
  <2> QED BY <2>2, <2>3, ZenonT(30) DEF T
<1>5. /\ \A q \in 1 .. s.pages : q # o => Q[q] = P[q]
      /\ Q \in Images(s) /\ Q[o].slots = now /\ Q[o].next = NoPage
  <2>1. /\ image \in PagesIn(s) /\ image.slots = now /\ image.next = NoPage
        /\ P \in Images(s) /\ o \in 1 .. s.pages /\ Sets(P, Q, o, image)
    BY <1>1, <1>2, Zenon DEF LinkedAs
  <2> HIDE DEF now
  <2>2. Q \in Images(s) /\ Q[o] = image /\ \A x \in 1 .. s.pages : x # o => Q[x] = P[x]
    BY ONLY <2>1, PageWritten
  <2> QED BY <2>1, <2>2
<1> HIDE DEF now
<1>8. Q[p] = P[p] /\ PagesOf(Q, p) = {p, o} /\ Q[p].overflow = o
  <2>1. Q[p] = P[p]
    BY <1>1, <1>2, <1>5
  <2>2. Q[p].overflow = o
    BY <2>1
  <2>3. PagesOf(Q, p) = {p, o}
    BY ONLY o # NoPage, <2>2 DEF PagesOf
  <2> QED BY ONLY <2>1, <2>2, <2>3, ZenonT(30)
<1>9. PlacesOf(Q, p) = PlacesOf(P, p) \cup {z} /\ z \notin PlacesOf(P, p)
  <2>1. DOMAIN Q[o].slots = (DOMAIN P[o].slots) \cup {size + 1} /\ size + 1 \notin DOMAIN P[o].slots
    <3>1. DOMAIN Q[o].slots = 1 .. size + 1
      BY ONLY <1>4, <1>5
    <3>2. DOMAIN P[o].slots = 1 .. size /\ size \in Nat
      BY ONLY <1>3, SMTT(30)
    <3> HIDE DEF size
    <3> QED BY ONLY <3>1, <3>2
  <2> DEFINE own == {<<p, i>> : i \in DOMAIN P[p].slots}
             before == {<<o, i>> : i \in DOMAIN P[o].slots}
             after == {<<o, i>> : i \in DOMAIN Q[o].slots}
  <2>2. PlacesOf(P, p) = own \cup before
    BY PlacesOfPage, ZenonT(30)
  <2>3. PlacesOf(Q, p) = own \cup after
    BY <1>8, PlacesOfPage, ZenonT(30)
  <2> HIDE DEF size
  <2>4. after = before \cup {z} /\ z \notin before
    BY ONLY <2>1
  <2>5. z \notin own
    BY ONLY <1>2
  <2> HIDE DEF own, before, after, z
  <2> QED BY ONLY <2>2, <2>3, <2>4, <2>5
<1>10. SlotAt(Q, z) = e /\ \A x \in PlacesOf(P, p) : SlotAt(Q, x) = SlotAt(P, x)
  <2>1. SlotAt(Q, z) = e
    BY <1>4, <1>5, Zenon DEF SlotAt
  <2>2. ASSUME NEW x \in PlacesOf(P, p) PROVE SlotAt(Q, x) = SlotAt(P, x)
    <3>1. x[1] \in {p, o} /\ x[2] \in DOMAIN P[x[1]].slots
      BY <1>1, <1>2, PlaceTypes, ZenonT(30)
    <3>2. CASE x[1] = p
      BY <1>8, <3>2, ZenonT(30) DEF SlotAt
    <3>3. CASE x[1] = o
      <4>1. x[2] \in 1 .. size
        BY <1>3, <3>1, <3>3
      <4>2. now[x[2]] = slots[x[2]] /\ Q[o].slots = now
        BY <1>4, <1>5, <4>1, Zenon
      <4>3. SlotAt(Q, x) = Q[o].slots[x[2]] /\ SlotAt(P, x) = P[o].slots[x[2]]
        BY <3>3 DEF SlotAt
      <4> HIDE DEF size
      <4> QED BY <4>2, <4>3, ZenonT(30)
    <3> QED BY <3>1, <3>2, <3>3, ZenonT(30)
  <2> QED BY <2>1, <2>2
<1>11. PICK f : Enters(P, Q, p, z, f)
  <2> HIDE DEF z
  <2>1. SlotAt(Q, z).live
    BY <1>10
  <2>2. Joins(P, Q, p, z)
    BY <1>9, <1>10, <2>1, SMTT(30) DEF Joins
  <2> QED BY ONLY <2>2, JoinsEnters
<1>12. OneEach(Q, p) => Sane(s, Q, p)
  <2>1. Len(Q[o].slots) <= s.slots
    <3>1. Len(Q[o].slots) = size + 1 /\ size \in Nat
      BY ONLY <1>3, <1>4, <1>5
    <3>2. size < s.slots /\ s.slots \in Nat
      BY ZenonT(30)
    <3> HIDE DEF size
    <3> QED BY ONLY <3>1, <3>2
  <2>2. Q[o].next = NoPage
    BY <1>5
  <2> QED BY <1>1, <1>2, <1>8, <2>1, <2>2 DEF Sane
<1>13. FirstOf(Q, p) = FirstOf(P, p)
  BY <1>8 DEF FirstOf
<1>14. Follows(m, n, Q, g)
  <2>1. m.first[g] = FirstOf(P, p) /\ m.first = [h \in DOMAIN m.main |-> m.first[h]]
    BY <1>1 DEF Directory
  <2>2. [m.first EXCEPT ![g] = FirstOf(Q, p)] = m.first
    BY <1>13, <2>1
  <2> QED BY <2>2 DEF Follows
<1>15. Rewrites(s, P, Q, p, m.count, n.count) /\ n.count \in m.count .. s.pages
  <2>1. Rewrites(s, P, Q, p, m.count, n.count)
    <3>1. \A q \in 1 .. s.pages : q \notin PagesOf(Q, p) => Q[q] = P[q]
      BY <1>5, <1>8
    <3> QED BY <1>2, <1>8, <3>1, ZenonT(30) DEF Rewrites
  <2> QED BY <1>1, <2>1, SMTT(30)
<1>16. e.key \in Int
  BY ZenonT(30) DEF SlotsIn
<1> HIDE DEF z
<1>17. RowGoesIn(s, P, m, Q, n, g, z, f)
  BY <1>5, <1>10, <1>11, <1>12, <1>13, <1>14, <1>15, <1>16 DEF RowGoesIn
<1>18. SoundSetup(s) /\ Sound(s, P, m)
  BY DEF SoundSetup
<1>19. /\ Sound(s, Q, n) /\ SameOthers(P, Q, m.main, g)
       /\ KeysOf(Q, m.main[g]) = KeysOf(P, m.main[g]) \cup {SlotAt(Q, z).key}
  BY ONLY <1>17, <1>18, RowEnters
<1> QED BY <1>5, <1>8, <1>10, <1>19, Zenon DEF now

GoesInNewOverflow(s, P, m, Q, n, g, e) ==
    LET p == m.main[g]
        o == m.count + 1
    IN  /\ NewRow(s, P, m, g, e) /\ CountsOneMore(m, n) /\ Len(P[p].slots) = s.slots
        /\ P[p].overflow = NoPage /\ o <= s.pages
        /\ Q \in Images(s) /\ \A q \in 1 .. s.pages : q \notin {p, o} => Q[q] = P[q]
        /\ Q[p].slots = P[p].slots /\ Q[p].next = P[p].next /\ Q[p].overflow = o
        /\ Q[o].slots = <<e>> /\ Q[o].next = NoPage
        /\ n.count = o /\ n.first = m.first

(* sequential_file.cpp, insert_overflow: a row goes to a new page, the overflow of its group. *)
LEMMA RowInNewOverflow ==
    ASSUME NEW s, SoundSetup(s), NEW P, NEW m, Sound(s, P, m), NEW Q, NEW n, NEW g, NEW e,
           GoesInNewOverflow(s, P, m, Q, n, g, e)
    PROVE  /\ Sound(s, Q, n) /\ SameOthers(P, Q, m.main, g)
           /\ KeysOf(Q, m.main[g]) = KeysOf(P, m.main[g]) \cup {e.key}
<1> SUFFICES ASSUME NEW p, NEW o, p = m.main[g], o = m.count + 1,
                    NewRow(s, P, m, g, e), CountsOneMore(m, n), Len(P[p].slots) = s.slots,
                    P[p].overflow = NoPage, o <= s.pages, Q \in Images(s),
                    \A q \in 1 .. s.pages : q \notin {p, o} => Q[q] = P[q],
                    Q[p].slots = P[p].slots, Q[p].next = P[p].next, Q[p].overflow = o,
                    Q[o].slots = <<e>>, Q[o].next = NoPage, n.count = o, n.first = m.first
             PROVE  /\ Sound(s, Q, n) /\ SameOthers(P, Q, m.main, g)
                    /\ KeysOf(Q, p) = KeysOf(P, p) \cup {e.key}
  BY DEF GoesInNewOverflow
<1> USE DEF SoundSetup
<1>0. /\ g \in DOMAIN m.main /\ e \in SlotsIn(s) /\ e.live
      /\ Belongs(P, m.main, g, e.key) /\ IsNew(P, m.main, e.key)
  BY DEF NewRow
<1>1. /\ P \in Images(s) /\ p \in 1 .. s.pages /\ Sane(s, P, p) /\ m.count \in 0 .. s.pages
      /\ Chained(s, P, m.main, m.head, m.count) /\ Directory(P, m)
  BY <1>0, SoundTypes
<1>2. p \in 1 .. m.count /\ o \in 1 .. s.pages /\ o # p /\ o # NoPage
  <2>1. p \in PagesOf(P, p) /\ PagesOf(P, p) \subseteq 1 .. m.count
    BY <1>0, <1>1 DEF Chained, PagesOf
  <2> QED BY <1>1, <2>1 DEF NoPage
<1>3. PagesOf(P, p) = {p} /\ PagesOf(Q, p) = {p, o}
  <2>1. PagesOf(P, p) = {p}
    BY ONLY P[p].overflow = NoPage DEF PagesOf
  <2>2. PagesOf(Q, p) = {p, o}
    BY ONLY Q[p].overflow = o, <1>2 DEF PagesOf
  <2> QED BY <2>1, <2>2
<1> DEFINE z == <<o, 1>>
<1>4. DOMAIN Q[o].slots = {1} /\ Q[o].slots[1] = e /\ Len(Q[o].slots) = 1
  BY ONLY Q[o].slots = <<e>>
<1>5. PlacesOf(Q, p) = PlacesOf(P, p) \cup {z} /\ z \notin PlacesOf(P, p)
  <2> DEFINE own == {<<p, i>> : i \in DOMAIN P[p].slots}
             after == {<<o, i>> : i \in DOMAIN Q[o].slots}
  <2>1. PlacesOf(P, p) = own
    BY ONLY P[p].overflow = NoPage, PlacesOfPage
  <2>2. PlacesOf(Q, p) = own \cup after
    BY ONLY Q[p].overflow = o, Q[p].slots = P[p].slots, <1>2, PlacesOfPage
  <2>3. after = {z}
    BY ONLY <1>4
  <2>4. z \notin own
    BY ONLY <1>2
  <2> QED BY ONLY <2>1, <2>2, <2>3, <2>4
<1>6. SlotAt(Q, z) = e /\ \A x \in PlacesOf(P, p) : SlotAt(Q, x) = SlotAt(P, x)
  <2>1. SlotAt(Q, z) = e
    BY ONLY <1>4 DEF SlotAt
  <2>2. ASSUME NEW x \in PlacesOf(P, p) PROVE SlotAt(Q, x) = SlotAt(P, x)
    <3>1. x[1] = p
      BY <1>1, <1>3, PlaceTypes
    <3> QED BY ONLY <3>1, Q[p].slots = P[p].slots DEF SlotAt
  <2> QED BY <2>1, <2>2
<1>7. PICK f : Enters(P, Q, p, z, f)
  <2> HIDE DEF z
  <2>1. SlotAt(Q, z).live
    BY <1>0, <1>6
  <2>2. Joins(P, Q, p, z)
    BY <1>5, <1>6, <2>1 DEF Joins
  <2> QED BY ONLY <2>2, JoinsEnters
<1>8. OneEach(Q, p) => Sane(s, Q, p)
  <2>1. /\ P[p].slots # <<>> /\ Ordered(P[p].slots)
    BY <1>1 DEF Sane
  <2>2. Len(Q[o].slots) <= s.slots /\ Len(Q[p].slots) <= s.slots
    BY <1>4
  <2> QED BY <1>1, <1>2, <2>1, <2>2 DEF Sane
<1>9. FirstOf(Q, p) = FirstOf(P, p)
  BY ONLY Q[p].slots = P[p].slots DEF FirstOf
<1>10. Follows(m, n, Q, g)
  <2>1. m.first[g] = FirstOf(P, p) /\ m.first = [h \in DOMAIN m.main |-> m.first[h]]
    BY <1>0, <1>1 DEF Directory
  <2>2. [m.first EXCEPT ![g] = FirstOf(Q, p)] = m.first
    BY <1>9, <2>1
  <2> QED BY <2>2 DEF Follows, CountsOneMore
<1>11. Rewrites(s, P, Q, p, m.count, n.count) /\ n.count \in m.count .. s.pages
  <2>1. \A q \in 1 .. s.pages : q \notin PagesOf(Q, p) => Q[q] = P[q]
    BY <1>3
  <2>2. PagesOf(Q, p) \subseteq PagesOf(P, p) \cup (m.count + 1 .. n.count)
    BY <1>1, <1>3
  <2>3. n.count \in m.count .. s.pages
    BY <1>1
  <2> QED BY <2>1, <2>2, <2>3 DEF Rewrites
<1>12. e.key \in Int
  BY <1>0 DEF SlotsIn
<1> HIDE DEF z
<1>13. RowGoesIn(s, P, m, Q, n, g, z, f)
  BY <1>0, <1>6, <1>7, <1>8, <1>9, <1>10, <1>11, <1>12 DEF RowGoesIn, CountsOneMore
<1>14. SoundSetup(s) /\ Sound(s, P, m)
  BY DEF SoundSetup
<1>15. /\ Sound(s, Q, n) /\ SameOthers(P, Q, m.main, g)
       /\ KeysOf(Q, m.main[g]) = KeysOf(P, m.main[g]) \cup {SlotAt(Q, z).key}
  BY ONLY <1>13, <1>14, RowEnters
<1> QED BY <1>6, <1>15

-------------------------------------------------------------------------------
(* Sets and sequences in key order.                                           *)

(* A finite set, in which no key is twice, and how many elements come before one. *)
Keyed(S, key) == /\ IsFiniteSet(S) /\ \A x \in S : key[x] \in Int
                 /\ \A x, y \in S : key[x] = key[y] => x = y
Rank(S, key, x) == Cardinality({y \in S : key[y] < key[x]})

LEMMA Ranks ==
    ASSUME NEW S, NEW key, Keyed(S, key)
    PROVE  /\ Cardinality(S) \in Nat
           /\ \A x \in S : Rank(S, key, x) \in 0 .. Cardinality(S) - 1
           /\ \A n \in 0 .. Cardinality(S) - 1 : \E x \in S : Rank(S, key, x) = n
           /\ \A x, y \in S : key[x] < key[y] <=> Rank(S, key, x) < Rank(S, key, y)
<1> DEFINE Lower(x) == {y \in S : key[y] < key[x]}
           c == Cardinality(S)
           rank == [x \in S |-> Rank(S, key, x)]
           Places == 0 .. c - 1
<1>1. c \in Nat
  BY FS_CardinalityType DEF Keyed
<1>2. ASSUME NEW x \in S
      PROVE  /\ IsFiniteSet(Lower(x)) /\ Rank(S, key, x) \in Nat /\ Rank(S, key, x) = Cardinality(Lower(x))
             /\ Rank(S, key, x) \in Places
  <2>1. Lower(x) \in SUBSET S /\ x \notin Lower(x) /\ x \in S
    BY DEF Keyed
  <2> HIDE DEF Lower
  <2>2. IsFiniteSet(Lower(x)) /\ Cardinality(Lower(x)) <= c /\ (c = Cardinality(Lower(x)) => S = Lower(x))
    BY <2>1, FS_Subset DEF Keyed
  <2>3. Cardinality(Lower(x)) \in Nat
    BY <2>2, FS_CardinalityType
  <2>4. Cardinality(Lower(x)) # c
    BY <2>1, <2>2
  <2>5. Rank(S, key, x) = Cardinality(Lower(x))
    BY DEF Rank, Lower
  <2> QED BY <1>1, <2>2, <2>3, <2>4, <2>5
<1>3. ASSUME NEW x \in S, NEW y \in S, key[x] < key[y]
      PROVE  Rank(S, key, x) < Rank(S, key, y)
  <2>1. Lower(x) \in SUBSET Lower(y) /\ x \in Lower(y) /\ x \notin Lower(x)
    BY <1>3 DEF Keyed
  <2>2. IsFiniteSet(Lower(x)) /\ IsFiniteSet(Lower(y))
    BY <1>2
  <2>3. Rank(S, key, x) = Cardinality(Lower(x)) /\ Rank(S, key, y) = Cardinality(Lower(y))
        /\ Rank(S, key, x) \in Nat /\ Rank(S, key, y) \in Nat
    BY <1>2
  <2> HIDE DEF Lower
  <2>4. Cardinality(Lower(x)) <= Cardinality(Lower(y))
        /\ (Cardinality(Lower(y)) = Cardinality(Lower(x)) => Lower(y) = Lower(x))
    BY <2>1, <2>2, FS_Subset
  <2> QED BY <2>1, <2>3, <2>4
<1>4. \A x, y \in S : key[x] < key[y] <=> Rank(S, key, x) < Rank(S, key, y)
  <2> SUFFICES ASSUME NEW x \in S, NEW y \in S, Rank(S, key, x) < Rank(S, key, y), ~(key[x] < key[y])
               PROVE  FALSE
    BY <1>3
  <2>1. key[x] = key[y] \/ key[y] < key[x]
    BY DEF Keyed
  <2>2. Rank(S, key, x) \in Nat /\ Rank(S, key, y) \in Nat
    BY <1>2
  <2>3. CASE key[x] = key[y]
    <3>1. x = y
      BY <2>3 DEF Keyed
    <3> QED BY <2>2, <3>1
  <2>4. CASE key[y] < key[x]
    BY <1>3, <2>2, <2>4
  <2> QED BY <2>1, <2>3, <2>4
<1>5. rank \in Injection(S, Places)
  <2>1. rank \in [S -> Places]
    BY <1>2
  <2>2. ASSUME NEW x \in S, NEW y \in S, rank[x] = rank[y]
        PROVE  x = y
    <3>1. Rank(S, key, x) = Rank(S, key, y) /\ Rank(S, key, x) \in Nat
      BY <1>2, <2>2
    <3>2. ~(key[x] < key[y]) /\ ~(key[y] < key[x])
      BY <1>4, <3>1
    <3>3. key[x] \in Int /\ key[y] \in Int
      BY DEF Keyed
    <3>4. key[x] = key[y]
      BY <3>2, <3>3
    <3> QED BY <3>4 DEF Keyed
  <2> HIDE DEF rank, Places
  <2> QED BY <2>1, <2>2 DEF Injection, IsInjective
<1>6. IsFiniteSet(Places) /\ Cardinality(Places) = c
  <2>1. 0 \in Int /\ c - 1 \in Int
    BY <1>1
  <2>2. IsFiniteSet(0 .. c - 1)
    BY ONLY <2>1, FS_Interval
  <2>3. Cardinality(0 .. c - 1) = c
    BY ONLY <1>1, CountFromZero
  <2> QED BY <2>2, <2>3
<1>7. rank \in Surjection(S, Places)
  <2> HIDE DEF rank, Places
  <2> QED BY <1>5, <1>6, FS_Injection
<1>8. ASSUME NEW n \in Places PROVE \E x \in S : Rank(S, key, x) = n
  <2>1. \E x \in S : rank[x] = n
    <3> HIDE DEF rank, Places
    <3> QED BY <1>7 DEF Surjection
  <2> QED BY <2>1
<1> QED BY <1>1, <1>2, <1>4, <1>8

(* A sequence that has the elements of a set, in key order and each once. *)
Sorts(s, S) ==
    /\ s \in Seq(S)
    /\ \A i, j \in 1 .. Len(s) : i < j => s[i].key < s[j].key
    /\ \A x \in S : \E i \in 1 .. Len(s) : s[i] = x
HasKeys(S) == \A x \in S : x.key \in Int

LEMMA SortsCounts ==
    ASSUME NEW S, HasKeys(S), NEW s, Sorts(s, S)
    PROVE  /\ Len(s) \in Nat /\ DOMAIN s = 1 .. Len(s) /\ \A i \in 1 .. Len(s) : s[i] \in S
           /\ IsFiniteSet(S) /\ Len(s) = Cardinality(S)
           /\ \A i, j \in 1 .. Len(s) : i < j <=> s[i].key < s[j].key
           /\ Keyed(S, [x \in S |-> x.key])
           /\ \A i \in 1 .. Len(s) : Rank(S, [x \in S |-> x.key], s[i]) = i - 1
<1>1. Len(s) \in Nat /\ DOMAIN s = 1 .. Len(s) /\ s \in [1 .. Len(s) -> S]
  BY LenProperties DEF Sorts
<1> DEFINE n == Len(s)
           key == [x \in S |-> x.key]
<1>2. ASSUME NEW i \in 1 .. n, NEW j \in 1 .. n PROVE i < j <=> s[i].key < s[j].key
  <2>1. s[i] \in S /\ s[j] \in S
    BY <1>1
  <2>2. s[i].key \in Int /\ s[j].key \in Int
    BY <2>1 DEF HasKeys
  <2>3. i < j \/ i = j \/ j < i
    OBVIOUS
  <2>4. (i < j => s[i].key < s[j].key) /\ (j < i => s[j].key < s[i].key)
    BY Zenon DEF Sorts
  <2> QED BY ONLY <2>2, <2>3, <2>4, i \in 1 .. n, j \in 1 .. n, <1>1
<1>3. ASSUME NEW i \in 1 .. n, NEW j \in 1 .. n, s[i].key = s[j].key PROVE i = j
  <2>1. s[i].key \in Int /\ ~(i < j) /\ ~(j < i)
    BY <1>1, <1>2, <1>3 DEF HasKeys
  <2> QED BY <2>1
<1>4. s \in Bijection(1 .. n, S)
  <2>1. \A i, j \in 1 .. n : s[i] = s[j] => i = j
    BY <1>3
  <2>2. \A x \in S : \E i \in 1 .. n : s[i] = x
    BY DEF Sorts
  <2> DEFINE D == 1 .. n
  <2> HIDE DEF D
  <2>3. s \in [D -> S] /\ (\A i, j \in D : s[i] = s[j] => i = j) /\ \A x \in S : \E i \in D : s[i] = x
    BY <1>1, <2>1, <2>2 DEF D
  <2>4. s \in Bijection(D, S)
    BY <2>3 DEF Bijection, Injection, Surjection, IsInjective
  <2> QED BY <2>4 DEF D
<1>5. IsFiniteSet(S) /\ Cardinality(S) = n
  <2>1. ExistsBijection(1 .. n, S)
    BY <1>4 DEF ExistsBijection
  <2>2. n \in Nat
    BY <1>1
  <2> HIDE DEF n
  <2> QED BY <2>1, <2>2, FS_CountingElements, FS_NatBijection
<1>6. Keyed(S, key)
  <2>1. \A x \in S : key[x] \in Int
    BY DEF HasKeys
  <2>2. ASSUME NEW x \in S, NEW y \in S, key[x] = key[y] PROVE x = y
    <3>1. PICK i \in 1 .. n : s[i] = x
      BY DEF Sorts
    <3>2. PICK j \in 1 .. n : s[j] = y
      BY DEF Sorts
    <3>3. s[i].key = s[j].key
      BY <2>2, <3>1, <3>2
    <3> QED BY <1>3, <3>1, <3>2, <3>3
  <2> QED BY <1>5, <2>1, <2>2 DEF Keyed
<1>7. ASSUME NEW i \in 1 .. n PROVE Rank(S, key, s[i]) = i - 1
  <2> DEFINE Before == {y \in S : key[y] < key[s[i]]}
             D == 1 .. i - 1
             f == [j \in D |-> s[j]]
  <2>1. s[i] \in S /\ i - 1 \in Nat /\ \A j \in D : j \in 1 .. n /\ j < i
    BY <1>1
  <2>2. \A j \in D : f[j] = s[j] /\ f[j] \in Before
    BY <1>1, <1>2, <2>1
  <2>3. \A j, k \in D : f[j] = f[k] => j = k
    BY <1>3, <2>1, <2>2
  <2>4. ASSUME NEW y \in Before PROVE \E j \in D : f[j] = y
    <3>1. PICK j \in 1 .. n : s[j] = y
      BY DEF Sorts
    <3>2. s[j].key < s[i].key
      BY <2>1, <3>1
    <3>3. j < i
      BY <1>2, <3>2
    <3>4. j \in D
      BY <3>1, <3>3
    <3> QED BY <2>2, <3>1, <3>4
  <2>5. f \in [D -> Before]
    BY <2>2
  <2> HIDE DEF Before, D, f
  <2>6. f \in Bijection(D, Before)
    BY <2>3, <2>4, <2>5 DEF Bijection, Injection, Surjection, IsInjective
  <2>7. ExistsBijection(1 .. i - 1, Before)
    BY <2>6 DEF ExistsBijection, D
  <2>8. Cardinality(Before) = i - 1
    BY ONLY <2>1, <2>7, FS_CountingElements
  <2> QED BY <2>8 DEF Before, Rank
<1> QED BY <1>1, <1>2, <1>5, <1>6, <1>7

LEMMA SortedOnce ==
    ASSUME NEW S, HasKeys(S), NEW s, Sorts(s, S), NEW t, Sorts(t, S)
    PROVE  s = t
<1> DEFINE key == [x \in S |-> x.key]
<1>1. /\ Len(s) \in Nat /\ Len(s) = Cardinality(S) /\ Keyed(S, key)
      /\ \A i \in 1 .. Len(s) : s[i] \in S /\ Rank(S, key, s[i]) = i - 1
  BY SortsCounts
<1>2. /\ Len(t) = Cardinality(S)
      /\ \A i \in 1 .. Len(t) : t[i] \in S /\ Rank(S, key, t[i]) = i - 1
  BY SortsCounts
<1> HIDE DEF key
<1>3. ASSUME NEW i \in 1 .. Len(s) PROVE s[i] = t[i]
  <2>1. Rank(S, key, s[i]) = i - 1 /\ Rank(S, key, t[i]) = i - 1 /\ s[i] \in S /\ t[i] \in S
    BY <1>1, <1>2
  <2>2. ~(key[s[i]] < key[t[i]]) /\ ~(key[t[i]] < key[s[i]])
    BY <1>1, <2>1, Ranks
  <2>3. key[s[i]] \in Int /\ key[t[i]] \in Int
    BY <1>1, <2>1 DEF Keyed
  <2>4. key[s[i]] = key[t[i]]
    BY <2>2, <2>3
  <2> QED BY <1>1, <2>1, <2>4 DEF Keyed
<1>4. s \in Seq(S) /\ t \in Seq(S) /\ Len(s) = Len(t)
  BY <1>1, <1>2 DEF Sorts
<1> QED BY <1>3, <1>4, SeqEqual

DistinctKeys(S) == IsFiniteSet(S) /\ HasKeys(S) /\ \A x, y \in S : x.key = y.key => x = y

(* sequential_file.cpp, split_group and read_group: std::sort by key. *)
LEMMA InKeyOrderSorts ==
    ASSUME NEW S, DistinctKeys(S)
    PROVE  Sorts(InKeyOrder(S), S)
<1> DEFINE key == [x \in S |-> x.key]
           c == Cardinality(S)
           Below(x) == {y \in S : y.key < x.key}
           Upto(x) == {y \in S : y.key <= x.key}
           At(n) == CHOOSE x \in S : Cardinality(Below(x)) < n /\ Cardinality(Upto(x)) >= n
           sorted == InKeyOrder(S)
<1>1. Keyed(S, key)
  BY DEF DistinctKeys, HasKeys, Keyed
<1>2. \A x \in S : Rank(S, key, x) = Cardinality(Below(x))
  <2> SUFFICES ASSUME NEW x \in S PROVE Rank(S, key, x) = Cardinality(Below(x))
    OBVIOUS
  <2>1. {y \in S : key[y] < key[x]} = Below(x)
    OBVIOUS
  <2> QED BY <2>1 DEF Rank
<1>3. ASSUME NEW x \in S PROVE Cardinality(Upto(x)) = Cardinality(Below(x)) + 1
  <2>1. Upto(x) = Below(x) \cup {x} /\ x \notin Below(x) /\ Below(x) \in SUBSET S
    BY DEF DistinctKeys, HasKeys
  <2> HIDE DEF Upto, Below
  <2>2. IsFiniteSet(Below(x))
    BY <2>1, FS_Subset DEF DistinctKeys
  <2> QED BY <2>1, <2>2, FS_AddElement
<1> HIDE DEF key, Below, Upto
<1>4. /\ c \in Nat /\ \A x \in S : Cardinality(Below(x)) \in 0 .. c - 1
      /\ \A n \in 0 .. c - 1 : \E x \in S : Cardinality(Below(x)) = n
      /\ \A x, y \in S : key[x] < key[y] <=> Cardinality(Below(x)) < Cardinality(Below(y))
  BY <1>1, <1>2, Ranks
<1>5. ASSUME NEW n \in 1 .. c PROVE At(n) \in S /\ Cardinality(Below(At(n))) = n - 1
  <2>1. n - 1 \in 0 .. c - 1
    BY <1>4
  <2>2. PICK x \in S : Cardinality(Below(x)) = n - 1
    BY <1>4, <2>1
  <2>3. Cardinality(Below(x)) < n /\ Cardinality(Upto(x)) >= n
    BY <1>3, <2>1, <2>2
  <2>4. At(n) \in S /\ Cardinality(Below(At(n))) < n /\ Cardinality(Upto(At(n))) >= n
    <3> HIDE DEF c
    <3> QED BY <2>3
  <2> HIDE DEF At
  <2>5. Cardinality(Below(At(n))) \in Nat /\ Cardinality(Below(At(n))) + 1 >= n
    BY <1>3, <1>4, <2>4
  <2> QED BY <2>4, <2>5
<1>6. sorted = [n \in 1 .. c |-> At(n)]
  BY DEF InKeyOrder, At, Below, Upto
<1> HIDE DEF At, sorted
<1>7. sorted \in Seq(S) /\ Len(sorted) = c /\ \A n \in 1 .. c : sorted[n] = At(n)
  <2>1. sorted \in [1 .. c -> S]
    BY <1>5, <1>6
  <2> HIDE DEF c
  <2>2. c \in Nat
    BY <1>4 DEF c
  <2> QED BY <1>6, <2>1, <2>2
<1>8. \A i, j \in 1 .. c : i < j => sorted[i].key < sorted[j].key
  <2> SUFFICES ASSUME NEW i \in 1 .. c, NEW j \in 1 .. c, i < j PROVE sorted[i].key < sorted[j].key
    OBVIOUS
  <2>1. At(i) \in S /\ At(j) \in S /\ key[At(i)] < key[At(j)]
    BY <1>4, <1>5
  <2> QED BY <1>7, <2>1 DEF key
<1>9. ASSUME NEW x \in S PROVE \E i \in 1 .. c : sorted[i] = x
  <2>1. Cardinality(Below(x)) + 1 \in 1 .. c
    BY <1>4
  <2>2. PICK i \in 1 .. c : i = Cardinality(Below(x)) + 1
    BY <2>1
  <2>3. At(i) \in S /\ Cardinality(Below(At(i))) = Cardinality(Below(x)) /\ Cardinality(Below(x)) \in Nat
    BY <1>4, <1>5, <2>2
  <2>4. ~(key[At(i)] < key[x]) /\ ~(key[x] < key[At(i)])
    BY <1>4, <2>3
  <2>5. At(i) = x
    BY <1>1, <2>3, <2>4 DEF Keyed
  <2> QED BY <1>7, <2>5
<1>10. Len(sorted) = c
  BY <1>7
<1>11. Sorts(sorted, S)
  <2> HIDE DEF c
  <2> QED BY <1>7, <1>8, <1>9, <1>10 DEF Sorts
<1> QED BY <1>11 DEF sorted

(* Some places of a sequence whose elements there are in key order. *)
InOrderAt(s, places) ==
    /\ IsFiniteSet(places) /\ places \subseteq Nat
    /\ \A i \in places : s[i].key \in Int
    /\ \A i, j \in places : i < j => s[i].key < s[j].key

LEMMA PickedSorts ==
    ASSUME NEW s, NEW places, InOrderAt(s, places)
    PROVE  /\ Sorts(Picked(s, places), {s[i] : i \in places})
           /\ HasKeys({s[i] : i \in places})
<1> DEFINE S == {s[i] : i \in places}
           key == [i \in places |-> i]
           c == Cardinality(places)
           At(n) == CHOOSE i \in places : Cardinality({j \in places : j < i}) = n - 1
           picked == Picked(s, places)
<1>1. Keyed(places, key)
  BY DEF InOrderAt, Keyed
<1>2. \A i \in places : Rank(places, key, i) = Cardinality({j \in places : j < i})
  <2> SUFFICES ASSUME NEW i \in places PROVE Rank(places, key, i) = Cardinality({j \in places : j < i})
    OBVIOUS
  <2>1. {j \in places : key[j] < key[i]} = {j \in places : j < i}
    OBVIOUS
  <2> QED BY <2>1 DEF Rank
<1> HIDE DEF key
<1>4. /\ c \in Nat /\ \A x \in places : Rank(places, key, x) \in 0 .. c - 1
      /\ \A n \in 0 .. c - 1 : \E x \in places : Rank(places, key, x) = n
      /\ \A x, y \in places : key[x] < key[y] <=> Rank(places, key, x) < Rank(places, key, y)
  BY <1>1, Ranks
<1>5. ASSUME NEW n \in 1 .. c PROVE At(n) \in places /\ Rank(places, key, At(n)) = n - 1
  <2>1. n - 1 \in 0 .. c - 1
    BY <1>4
  <2>2. PICK x \in places : Cardinality({j \in places : j < x}) = n - 1
    BY <1>2, <1>4, <2>1
  <2>4. At(n) \in places /\ Cardinality({j \in places : j < At(n)}) = n - 1
    <3> HIDE DEF c
    <3> QED BY <2>2
  <2> HIDE DEF At
  <2> QED BY <1>2, <2>4
<1>6. picked = [n \in 1 .. c |-> s[At(n)]]
  BY DEF Picked, At
<1> HIDE DEF At, picked
<1>7. \A n \in 1 .. c : At(n) \in places /\ s[At(n)] \in S
  BY <1>5
<1> HIDE DEF S
<1>8. picked \in Seq(S) /\ Len(picked) = c /\ \A n \in 1 .. c : picked[n] = s[At(n)]
  <2>1. picked \in [1 .. c -> S]
    BY <1>6, <1>7
  <2> HIDE DEF c
  <2>2. c \in Nat
    BY <1>4 DEF c
  <2> QED BY <1>6, <2>1, <2>2
<1>9. ASSUME NEW i \in 1 .. c, NEW j \in 1 .. c, i < j PROVE picked[i].key < picked[j].key
  <2>1. key[At(i)] < key[At(j)]
    BY <1>4, <1>5, <1>9
  <2>2. At(i) < At(j)
    BY <1>7, <2>1 DEF key
  <2> QED BY <1>7, <1>8, <2>2 DEF InOrderAt
<1>10. ASSUME NEW x \in S PROVE \E i \in 1 .. c : picked[i] = x
  <2>1. PICK p \in places : x = s[p]
    BY DEF S
  <2>2. Rank(places, key, p) + 1 \in 1 .. c
    BY <1>4
  <2>3. PICK i \in 1 .. c : i = Rank(places, key, p) + 1
    BY <2>2
  <2>4. At(i) \in places /\ Rank(places, key, At(i)) = Rank(places, key, p) /\ Rank(places, key, p) \in 0 .. c - 1
    BY <1>4, <1>5, <2>3
  <2>5. ~(key[At(i)] < key[p]) /\ ~(key[p] < key[At(i)])
    BY <1>4, <2>4
  <2>6. At(i) = p
    BY <1>1, <2>4, <2>5 DEF Keyed
  <2> QED BY <1>8, <2>1, <2>6
<1>11. Sorts(picked, S)
  <2> HIDE DEF c
  <2> QED BY <1>8, <1>9, <1>10 DEF Sorts
<1>12. HasKeys(S)
  BY DEF HasKeys, S, InOrderAt
<1> QED BY <1>11, <1>12 DEF S, picked

AllBelow(A, B) == \A x \in A, y \in B : x.key < y.key

LEMMA ConcatSorts ==
    ASSUME NEW A, NEW B, HasKeys(A), HasKeys(B), AllBelow(A, B), NEW a, Sorts(a, A), NEW b, Sorts(b, B)
    PROVE  Sorts(a \o b, A \cup B) /\ HasKeys(A \cup B)
<1> DEFINE C == A \cup B
           c == a \o b
<1>1. /\ Len(a) \in Nat /\ Len(b) \in Nat
      /\ \A i \in 1 .. Len(a) : a[i] \in A
      /\ \A i \in 1 .. Len(b) : b[i] \in B
      /\ \A i, j \in 1 .. Len(a) : i < j => a[i].key < a[j].key
      /\ \A i, j \in 1 .. Len(b) : i < j => b[i].key < b[j].key
  BY SortsCounts
<1>2. a \in Seq(C) /\ b \in Seq(C)
  <2>1. a \in Seq(A) /\ b \in Seq(B)
    BY DEF Sorts
  <2>2. A \subseteq C /\ B \subseteq C
    OBVIOUS
  <2> HIDE DEF C
  <2> QED BY <2>1, <2>2, SeqMonotonic
<1> HIDE DEF C
<1>3. /\ c \in Seq(C) /\ Len(c) = Len(a) + Len(b)
      /\ \A i \in 1 .. Len(a) + Len(b) : c[i] = IF i <= Len(a) THEN a[i] ELSE b[i - Len(a)]
  BY <1>2, ConcatProperties
<1> HIDE DEF c
<1>4. ASSUME NEW i \in 1 .. Len(c), NEW j \in 1 .. Len(c), i < j PROVE c[i].key < c[j].key
  <2>1. CASE j <= Len(a)
    <3>1. c[i] = a[i] /\ c[j] = a[j] /\ i \in 1 .. Len(a) /\ j \in 1 .. Len(a)
      BY <1>1, <1>3, <1>4, <2>1
    <3> QED BY <1>1, <1>4, <3>1
  <2>2. CASE i <= Len(a) /\ ~(j <= Len(a))
    <3>1. i \in 1 .. Len(a) /\ j - Len(a) \in 1 .. Len(b)
      BY <1>1, <1>3, <2>2
    <3>2. c[i] = a[i] /\ c[j] = b[j - Len(a)]
      BY <1>3, <2>2
    <3>3. a[i] \in A /\ b[j - Len(a)] \in B
      BY <1>1, <3>1
    <3> QED BY <3>2, <3>3 DEF AllBelow
  <2>3. CASE ~(i <= Len(a))
    <3>1. i - Len(a) \in 1 .. Len(b) /\ j - Len(a) \in 1 .. Len(b) /\ ~(j <= Len(a)) /\ i - Len(a) < j - Len(a)
      BY <1>1, <1>3, <1>4, <2>3
    <3>2. c[i] = b[i - Len(a)] /\ c[j] = b[j - Len(a)]
      BY <1>3, <2>3, <3>1
    <3> QED BY <1>1, <3>1, <3>2
  <2>4. j <= Len(a) \/ (i <= Len(a) /\ ~(j <= Len(a))) \/ ~(i <= Len(a))
    OBVIOUS
  <2> QED BY <2>1, <2>2, <2>3, <2>4
<1>5. ASSUME NEW x \in C PROVE \E i \in 1 .. Len(c) : c[i] = x
  <2>1. CASE x \in A
    <3>1. PICK i \in 1 .. Len(a) : a[i] = x
      BY <2>1 DEF Sorts
    <3>2. i \in 1 .. Len(c) /\ c[i] = a[i]
      BY <1>1, <1>3
    <3> QED BY <3>1, <3>2
  <2>2. CASE x \in B
    <3>1. PICK i \in 1 .. Len(b) : b[i] = x
      BY <2>2 DEF Sorts
    <3>2. i + Len(a) \in 1 .. Len(a) + Len(b) /\ ~(i + Len(a) <= Len(a)) /\ (i + Len(a)) - Len(a) = i
      BY <1>1
    <3>3. c[i + Len(a)] = b[i]
      BY <1>3, <3>2
    <3> QED BY <1>3, <3>1, <3>2, <3>3
  <2> QED BY <2>1, <2>2 DEF C
<1>6. Sorts(c, C)
  BY <1>3, <1>4, <1>5 DEF Sorts
<1>7. HasKeys(C)
  BY DEF HasKeys, C
<1> QED BY <1>6, <1>7 DEF c, C

(* The pieces ss of n sets in ascending order. *)
Pieces(ss, parts, n) ==
    /\ Len(ss) = n /\ (n = 0 => ss = <<>>)
    /\ \A i \in 1 .. n : HasKeys(parts[i]) /\ Sorts(ss[i], parts[i])
    /\ \A i, j \in 1 .. n : i < j => AllBelow(parts[i], parts[j])

SortsAll(ss, parts, n) ==
    LET all == UNION {parts[i] : i \in 1 .. n} IN Sorts(FlattenSeq(ss), all) /\ HasKeys(all)

LEMMA FlattenSorts ==
    ASSUME NEW n \in Nat, NEW ss, NEW parts, Pieces(ss, parts, n)
    PROVE  SortsAll(ss, parts, n)
<1> DEFINE Upto(m) == UNION {parts[i] : i \in 1 .. m}
<1>1. CASE n = 0
  <2>1. FlattenSeq(ss) = <<>>
    BY <1>1, FlattenNone DEF Pieces
  <2>2. Upto(n) = {}
    BY <1>1
  <2>3. Sorts(<<>>, {}) /\ HasKeys({})
    BY DEF Sorts, HasKeys
  <2> QED BY <2>1, <2>2, <2>3 DEF SortsAll
<1>2. CASE n # 0
  <2>1. n \in Nat \ {0} /\ Len(ss) = n
    BY <1>2 DEF Pieces
  <2>2. PICK f : /\ f[1] = ss[1]
                 /\ \A i \in 2 .. n : f[i] = f[i - 1] \o ss[i]
                 /\ FlattenSeq(ss) = f[n]
    BY <2>1, FlattenSteps, ZenonT(30)
  <2> DEFINE Good(m) == Sorts(f[m], Upto(m)) /\ HasKeys(Upto(m))
             S == {m \in Nat : m \in 1 .. n => Good(m)}
  <2>3. 0 \in S
    OBVIOUS
  <2>4. ASSUME NEW m \in Nat, m \in S PROVE m + 1 \in S
    <3> SUFFICES ASSUME m + 1 \in 1 .. n PROVE Good(m + 1)
      OBVIOUS
    <3>1. Upto(m + 1) = Upto(m) \cup parts[m + 1]
      OBVIOUS
    <3>2. Sorts(ss[m + 1], parts[m + 1]) /\ HasKeys(parts[m + 1])
      BY DEF Pieces
    <3>3. CASE m = 0
      <4>1. Upto(m + 1) = parts[1] /\ m + 1 = 1
        BY <3>3
      <4> QED BY <2>2, <3>2, <4>1
    <3>4. CASE m # 0
      <4>1. m \in 1 .. n /\ m + 1 \in 2 .. n /\ (m + 1) - 1 = m
        BY <3>4
      <4>2. f[m + 1] = f[m] \o ss[m + 1]
        BY <2>2, <4>1
      <4>3. Sorts(f[m], Upto(m)) /\ HasKeys(Upto(m))
        BY <2>4, <4>1
      <4>4. AllBelow(Upto(m), parts[m + 1])
        <5> SUFFICES ASSUME NEW x \in Upto(m), NEW y \in parts[m + 1] PROVE x.key < y.key
          BY DEF AllBelow
        <5>1. PICK i \in 1 .. m : x \in parts[i]
          OBVIOUS
        <5>2. AllBelow(parts[i], parts[m + 1])
          BY <4>1 DEF Pieces
        <5> QED BY <5>1, <5>2 DEF AllBelow
      <4> HIDE DEF Upto
      <4>5. Sorts(f[m] \o ss[m + 1], Upto(m) \cup parts[m + 1]) /\ HasKeys(Upto(m) \cup parts[m + 1])
        BY <3>2, <4>3, <4>4, ConcatSorts
      <4> QED BY <3>1, <4>2, <4>5
    <3> QED BY <3>3, <3>4
  <2>5. n \in S
    <3> HIDE DEF S
    <3> QED BY <2>3, <2>4, InductionOverNat
  <2>6. Good(n)
    <3> HIDE DEF Good
    <3> QED BY <2>1, <2>5
  <2> QED BY <2>2, <2>6 DEF SortsAll
<1> QED BY <1>1, <1>2

-------------------------------------------------------------------------------
(* A slot is marked, or its row updated.                                      *)

(* The keys of a group and its pages stay as they are. *)
SameLook(P, Q, p) ==
    /\ KeysOf(Q, p) = KeysOf(P, p) /\ Q[p].overflow = P[p].overflow
    /\ Len(Q[p].slots) = Len(P[p].slots)
    /\ \A i \in 1 .. Len(P[p].slots) : Q[p].slots[i].key = P[p].slots[i].key

ChangesSlot(s, P, m, Q, n, g, z, e, image) ==
    /\ g \in DOMAIN m.main /\ z \in Living(P, m.main[g]) /\ e \in SlotsIn(s) /\ e.key = SlotAt(P, z).key
    /\ LinkedAs(s, image, P[z[1]], [P[z[1]].slots EXCEPT ![z[2]] = e]) /\ Sets(P, Q, z[1], image)
    /\ n.main = m.main /\ n.head = m.head /\ n.count = m.count /\ n.first = m.first
    /\ n.live = (IF e.live THEN m.live ELSE m.live - 1)
    /\ n.deleted = (IF e.live THEN m.deleted ELSE m.deleted + 1)

(* sequential_file.cpp, remove and update: the slot of a live row is written again, with its key. *)
LEMMA SlotChanged ==
    ASSUME NEW s, SoundSetup(s), NEW P, NEW m, Sound(s, P, m), NEW Q, NEW n, NEW g, NEW z, NEW e, NEW image,
           ChangesSlot(s, P, m, Q, n, g, z, e, image)
    PROVE  Sound(s, Q, n) /\ \A h \in DOMAIN m.main : SameLook(P, Q, m.main[h])
<1> SUFFICES ASSUME NEW p, NEW q, NEW i, NEW slots, NEW now, p = m.main[g], q = z[1], i = z[2], slots = P[q].slots,
                    now = [slots EXCEPT ![i] = e], g \in DOMAIN m.main,
                    z \in Living(P, p), e \in SlotsIn(s), e.key = SlotAt(P, z).key,
                    LinkedAs(s, image, P[q], now), Sets(P, Q, q, image)
             PROVE  Sound(s, Q, n) /\ \A h \in DOMAIN m.main : SameLook(P, Q, m.main[h])
  BY DEF ChangesSlot
<1> USE DEF SoundSetup
<1>1. /\ P \in Images(s) /\ p \in 1 .. s.pages /\ Sane(s, P, p) /\ m.count \in 0 .. s.pages
      /\ Chained(s, P, m.main, m.head, m.count) /\ Directory(P, m) /\ m.live \in Nat /\ m.deleted \in Int
      /\ IsFiniteSet(AllLiving(P, m.main)) /\ IsFiniteSet(AllPlaces(P, m.main))
  BY SoundTypes
<1>2. z \in PlacesOf(P, p) /\ SlotAt(P, z).live /\ SlotAt(P, z) = slots[i]
  BY DEF Living, SlotAt
<1>3. /\ q \in PagesOf(P, p) /\ i \in DOMAIN slots /\ z = <<q, i>> /\ q \in 1 .. s.pages
      /\ KeysOf(P, p) \subseteq Int
  <2>1. q \in PagesOf(P, p) /\ i \in DOMAIN slots /\ z = <<q, i>> /\ PagesOf(P, p) \subseteq 1 .. s.pages
        /\ KeysOf(P, p) \subseteq s.keys
    BY <1>1, <1>2, PlaceTypes
  <2> QED BY <2>1
<1>4. slots \in Seq(SlotsIn(s)) /\ Len(slots) \in Nat /\ DOMAIN slots = 1 .. Len(slots)
  BY <1>1, <1>3, PageTypes
<1>5. /\ now \in Seq(SlotsIn(s)) /\ Len(now) = Len(slots) /\ DOMAIN now = DOMAIN slots
      /\ \A j \in DOMAIN slots : now[j] = IF j = i THEN e ELSE slots[j]
  <2> HIDE DEF SlotsIn
  <2>1. now \in Seq(SlotsIn(s)) /\ Len(now) = Len(slots)
        /\ \A j \in 1 .. Len(slots) : now[j] = IF j = i THEN e ELSE slots[j]
    BY <1>3, <1>4, ExceptSeq
  <2>2. DOMAIN now = DOMAIN slots
    OBVIOUS
  <2> QED BY <1>4, <2>1, <2>2
<1>6. /\ Q \in Images(s) /\ Q[q] = image /\ \A x \in 1 .. s.pages : x # q => Q[x] = P[x]
  <2>1. image \in PagesIn(s)
    BY DEF LinkedAs
  <2> QED BY ONLY <1>1, <1>3, <2>1, Sets(P, Q, q, image), PageWritten
<1>7. Q[q].slots = now /\ Q[q].next = P[q].next /\ Q[q].overflow = P[q].overflow
  BY <1>6 DEF LinkedAs
<1>8. \A x \in 1 .. s.pages : /\ Q[x].next = P[x].next /\ Q[x].overflow = P[x].overflow
             /\ DOMAIN Q[x].slots = DOMAIN P[x].slots /\ Len(Q[x].slots) = Len(P[x].slots)
  BY <1>5, <1>6, <1>7
<1>9. \A x \in 1 .. s.pages : PagesOf(Q, x) = PagesOf(P, x) /\ PlacesOf(Q, x) = PlacesOf(P, x)
  <2> SUFFICES ASSUME NEW x \in 1 .. s.pages PROVE PagesOf(Q, x) = PagesOf(P, x) /\ PlacesOf(Q, x) = PlacesOf(P, x)
    OBVIOUS
  <2>1. PagesOf(Q, x) = PagesOf(P, x)
    BY <1>8 DEF PagesOf
  <2>2. \A y \in PagesOf(P, x) : {<<y, j>> : j \in DOMAIN Q[y].slots} = {<<y, j>> : j \in DOMAIN P[y].slots}
    <3>1. PagesOf(P, x) \subseteq 1 .. s.pages
      BY <1>1, PlaceTypes
    <3> QED BY <1>8, <3>1
  <2> QED BY <2>1, <2>2 DEF PlacesOf
<1>10. \A x \in 1 .. s.pages : \A j \in DOMAIN P[x].slots :
           /\ Q[x].slots[j] = IF x = q /\ j = i THEN e ELSE P[x].slots[j]
           /\ Q[x].slots[j].key = P[x].slots[j].key
  <2> SUFFICES ASSUME NEW x \in 1 .. s.pages, NEW j \in DOMAIN P[x].slots
               PROVE  /\ Q[x].slots[j] = IF x = q /\ j = i THEN e ELSE P[x].slots[j]
                      /\ Q[x].slots[j].key = P[x].slots[j].key
    OBVIOUS
  <2>1. CASE x = q
    BY <1>2, <1>5, <1>7, <2>1, SMTT(30)
  <2>2. CASE x # q
    BY <1>6, <2>2
  <2> QED BY <2>1, <2>2
<1>11. \A y : y \in 1 .. s.pages => \A x \in PlacesOf(P, y) :
           /\ SlotAt(Q, x) = IF x = z THEN e ELSE SlotAt(P, x)
           /\ SlotAt(Q, x).key = SlotAt(P, x).key
  <2> SUFFICES ASSUME NEW y \in 1 .. s.pages, NEW x \in PlacesOf(P, y)
               PROVE  /\ SlotAt(Q, x) = IF x = z THEN e ELSE SlotAt(P, x)
                      /\ SlotAt(Q, x).key = SlotAt(P, x).key
    OBVIOUS
  <2>1. x[2] \in DOMAIN P[x[1]].slots /\ x = <<x[1], x[2]>> /\ x[1] \in 1 .. s.pages
    <3>1. x[1] \in PagesOf(P, y) /\ PagesOf(P, y) \subseteq 1 .. s.pages
      BY <1>1, PlaceTypes
    <3> QED BY <1>1, <3>1, PlaceTypes
  <2>2. x = z <=> x[1] = q /\ x[2] = i
    BY <1>3, <2>1
  <2> QED BY <1>10, <2>1, <2>2 DEF SlotAt
<1>12. \A y \in 1 .. s.pages : KeysOf(Q, y) = KeysOf(P, y)
  <2> SUFFICES ASSUME NEW y \in 1 .. s.pages PROVE KeysOf(Q, y) = KeysOf(P, y)
    OBVIOUS
  <2>1. \A x \in PlacesOf(P, y) : SlotAt(Q, x).key = SlotAt(P, x).key
    BY <1>11
  <2>2. PlacesOf(Q, y) = PlacesOf(P, y)
    BY <1>9
  <2> QED BY <2>1, <2>2 DEF KeysOf
<1>13. \A y \in 1 .. s.pages : SameLook(P, Q, y)
  <2> SUFFICES ASSUME NEW y \in 1 .. s.pages PROVE SameLook(P, Q, y)
    OBVIOUS
  <2>1. DOMAIN P[y].slots = 1 .. Len(P[y].slots)
    BY <1>1, PageTypes
  <2> QED BY <1>8, <1>10, <1>12, <2>1 DEF SameLook
<1>30. PagesOf(P, p) \subseteq 1 .. s.pages
  BY <1>1, PlaceTypes
<1>14. Living(Q, p) = IF e.live THEN Living(P, p) ELSE Living(P, p) \ {z}
  <2>1. \A x \in PlacesOf(P, p) : SlotAt(Q, x) = IF x = z THEN e ELSE SlotAt(P, x)
    BY <1>1, <1>11
  <2>2. PlacesOf(Q, p) = PlacesOf(P, p)
    BY <1>1, <1>9
  <2>3. \A x \in PlacesOf(P, p) : x # z => (SlotAt(Q, x).live <=> SlotAt(P, x).live)
    BY <2>1
  <2>4. SlotAt(Q, z).live <=> e.live
    BY <1>2, <2>1
  <2> QED BY <1>2, <2>2, <2>3, <2>4 DEF Living
<1>15. Sane(s, Q, p)
  <2>1. Ordered(Q[p].slots)
    <3>1. DOMAIN Q[p].slots = DOMAIN P[p].slots /\ \A j \in DOMAIN P[p].slots : Q[p].slots[j].key = P[p].slots[j].key
      BY <1>1, <1>8, <1>10
    <3>2. Ordered(P[p].slots)
      BY <1>1, ZenonT(30) DEF Sane
    <3> QED BY ONLY <3>1, <3>2 DEF Ordered
  <2>2. OneEach(Q, p)
    <3>1. Living(Q, p) \subseteq Living(P, p) /\ Living(P, p) \subseteq PlacesOf(P, p)
      BY <1>14 DEF Living
    <3>2. \A x \in PlacesOf(P, p) : SlotAt(Q, x).key = SlotAt(P, x).key
      BY <1>1, <1>11
    <3> QED BY <1>1, <3>1, <3>2 DEF Sane, OneEach
  <2>3. Q[p].slots # <<>>
    <3>1. P[p].slots # <<>> /\ DOMAIN Q[p].slots = DOMAIN P[p].slots
      BY <1>1, <1>8 DEF Sane
    <3>2. 1 \in DOMAIN P[p].slots
      BY <1>1, <3>1, ChainTypes
    <3> QED BY <3>1, <3>2
  <2>4. P[p].overflow # NoPage => P[p].overflow \in 1 .. s.pages
    BY <1>30 DEF PagesOf
  <2>5. Sane(s, P, p) /\ p \in 1 .. s.pages
    BY <1>1, ZenonT(30)
  <2>6. Q[p].overflow = P[p].overflow /\ Len(Q[p].slots) = Len(P[p].slots)
        /\ \A x \in 1 .. s.pages : Q[x].next = P[x].next /\ Len(Q[x].slots) = Len(P[x].slots)
    BY <1>8, <2>5, ZenonT(30)
  <2> QED BY ONLY <2>1, <2>2, <2>3, <2>4, <2>5, <2>6 DEF Sane
<1>16. /\ Chained(s, Q, m.main, m.head, m.count)
       /\ \A h \in DOMAIN m.main : h # g => FirstOf(Q, m.main[h]) = FirstOf(P, m.main[h])
       /\ Cardinality(AllPlaces(Q, m.main)) + Cardinality(PlacesOf(P, m.main[g])) =
             Cardinality(AllPlaces(P, m.main)) + Cardinality(PlacesOf(Q, m.main[g]))
       /\ Cardinality(AllLiving(Q, m.main)) + Cardinality(Living(P, m.main[g])) =
             Cardinality(AllLiving(P, m.main)) + Cardinality(Living(Q, m.main[g]))
       /\ FirstOf(Q, p) = FirstOf(P, p)
  <2> DEFINE k == e.key
             more == m.count
             main == m.main
  <2>1. k \in KeysOf(P, p) /\ k \in Int
    BY <1>2, <1>3 DEF KeysOf
  <2>2. Belongs(P, main, g, k)
    BY <1>1, <2>1 DEF Chained, Belongs
  <2>3. Rewrites(s, P, Q, main[g], m.count, more)
    <3>1. \A x \in 1 .. s.pages : x \notin PagesOf(Q, p) => Q[x] = P[x]
      BY <1>1, <1>3, <1>6, <1>9
    <3> QED BY <1>1, <1>8, <1>9, <3>1 DEF Rewrites
  <2>4. KeysOf(Q, main[g]) \subseteq KeysOf(P, main[g]) \cup {k} /\ Sane(s, Q, main[g])
    BY <1>1, <1>12, <1>15
  <2>5. FirstOf(Q, p) = FirstOf(P, p)
    <3>1. 1 \in DOMAIN P[p].slots
      BY <1>1, ChainTypes
    <3> QED BY <1>1, <1>10, <3>1 DEF FirstOf
  <2>6. more \in m.count .. s.pages /\ (g # 1 => FirstOf(Q, main[g]) = FirstOf(P, main[g]))
    BY <1>1, <2>5
  <2> HIDE DEF k, more, main
  <2>7. g \in DOMAIN main /\ Chained(s, P, main, m.head, m.count)
    BY <1>1 DEF main
  <2>8. /\ Chained(s, Q, main, m.head, more)
        /\ \A h \in DOMAIN main : h # g => FirstOf(Q, main[h]) = FirstOf(P, main[h])
        /\ Cardinality(AllPlaces(Q, main)) + Cardinality(PlacesOf(P, main[g])) =
              Cardinality(AllPlaces(P, main)) + Cardinality(PlacesOf(Q, main[g]))
        /\ Cardinality(AllLiving(Q, main)) + Cardinality(Living(P, main[g])) =
              Cardinality(AllLiving(P, main)) + Cardinality(Living(Q, main[g]))
    BY <1>1, <1>6, <2>1, <2>2, <2>3, <2>4, <2>6, <2>7, OneGroup
  <2> QED BY <2>5, <2>8 DEF more, main
<1>17. Directory(Q, n)
  <2>1. n.main = m.main /\ n.first = m.first
    BY DEF ChangesSlot
  <2>2. \A h \in DOMAIN m.main : FirstOf(Q, m.main[h]) = FirstOf(P, m.main[h])
    BY <1>16
  <2> QED BY <1>1, <2>1, <2>2 DEF Directory
<1>18. /\ n.live = Cardinality(AllLiving(Q, m.main))
       /\ n.deleted = Cardinality(AllPlaces(Q, m.main)) - Cardinality(AllLiving(Q, m.main))
  <2>1. IsFiniteSet(PlacesOf(P, p)) /\ IsFiniteSet(Living(P, p))
    BY <1>1, Parted
  <2>2. Cardinality(Living(Q, p)) = IF e.live THEN Cardinality(Living(P, p)) ELSE Cardinality(Living(P, p)) - 1
    BY <1>14, <2>1, FS_RemoveElement
  <2>3. Cardinality(PlacesOf(Q, p)) = Cardinality(PlacesOf(P, p))
    BY <1>1, <1>9
  <2>4. /\ Cardinality(AllLiving(P, m.main)) \in Nat /\ Cardinality(AllPlaces(P, m.main)) \in Nat
        /\ Cardinality(PlacesOf(P, p)) \in Nat /\ Cardinality(Living(P, p)) \in Nat
    BY <1>1, <2>1, FS_CardinalityType
  <2>5. Cardinality(AllLiving(Q, m.main)) \in Nat /\ Cardinality(AllPlaces(Q, m.main)) \in Nat
    <3>1. AllPlaces(Q, m.main) = AllPlaces(P, m.main)
      <4>1. \A h \in DOMAIN m.main : m.main[h] \in 1 .. s.pages
        BY SoundTypes
      <4> QED BY <1>9, <4>1 DEF AllPlaces
    <3>2. IsFiniteSet(AllPlaces(Q, m.main))
      BY <1>1, <3>1
    <3>3. AllLiving(Q, m.main) \in SUBSET AllPlaces(Q, m.main)
      BY DEF AllLiving, AllPlaces, Living
    <3>4. IsFiniteSet(AllLiving(Q, m.main))
      BY <3>2, <3>3, FS_Subset
    <3> QED BY <3>2, <3>4, FS_CardinalityType
  <2>6. /\ m.live = Cardinality(AllLiving(P, m.main))
        /\ m.deleted = Cardinality(AllPlaces(P, m.main)) - Cardinality(AllLiving(P, m.main))
    BY DEF Sound
  <2>7. /\ n.live = (IF e.live THEN m.live ELSE m.live - 1)
        /\ n.deleted = (IF e.live THEN m.deleted ELSE m.deleted + 1)
    BY DEF ChangesSlot
  <2> QED BY <1>16, <2>2, <2>3, <2>4, <2>5, <2>6, <2>7
<1>19. n.main = m.main /\ n.head = m.head /\ n.count = m.count
  BY DEF ChangesSlot
<1>20. \A h \in DOMAIN m.main : m.main[h] \in 1 .. s.pages
  BY SoundTypes
<1> QED BY <1>6, <1>13, <1>16, <1>17, <1>18, <1>19, <1>20 DEF Sound

-------------------------------------------------------------------------------
(* Some groups take the place of one, or come after the last.                 *)

(* A list in which mid replaces the g-th element (k = 1), or comes after the last (k = 0). *)
SpliceAt(n, g, k) == (k = 1 /\ g \in 1 .. n) \/ (k = 0 /\ g = n + 1)
IsSpliced(new, T, old, g, k, mid) ==
    /\ new \in Seq(T) /\ Len(new) = Len(old) + Len(mid) - k
    /\ \A h \in 1 .. Len(new) : new[h] = IF h < g THEN old[h]
                                         ELSE IF h < g + Len(mid) THEN mid[h - g + 1]
                                         ELSE old[h - Len(mid) + k]

(* Where the element h of the list comes from. *)
FromOld(new, old, g, k, mid, h, o) ==
    /\ o \in 1 .. Len(old) /\ o # g /\ h \in 1 .. Len(new) /\ new[h] = old[o]
    /\ h = IF o < g THEN o ELSE o + Len(mid) - k
FromMid(new, g, mid, h, i) ==
    i \in 1 .. Len(mid) /\ h \in 1 .. Len(new) /\ new[h] = mid[i] /\ h = g + i - 1

LEMMA SpliceSources ==
    ASSUME NEW T, NEW old, NEW mid, NEW new, Len(old) \in Nat, Len(mid) \in Nat, NEW g, NEW k,
           SpliceAt(Len(old), g, k), IsSpliced(new, T, old, g, k, mid)
    PROVE  /\ Len(new) \in Nat
           /\ \A h \in 1 .. Len(new) : \/ \E o \in 1 .. Len(old) : FromOld(new, old, g, k, mid, h, o)
                                       \/ \E i \in 1 .. Len(mid) : FromMid(new, g, mid, h, i)
           /\ \A o \in 1 .. Len(old) : o # g => \E h \in 1 .. Len(new) : FromOld(new, old, g, k, mid, h, o)
           /\ \A i \in 1 .. Len(mid) : \E h \in 1 .. Len(new) : FromMid(new, g, mid, h, i)
<1> SUFFICES ASSUME NEW N \in Nat, NEW n \in Nat, N = Len(old), n = Len(mid),
                    NEW L, L = Len(new), SpliceAt(N, g, k), L = N + n - k,
                    \A h \in 1 .. L : new[h] = IF h < g THEN old[h] ELSE IF h < g + n THEN mid[h - g + 1]
                                               ELSE old[h - n + k]
             PROVE  /\ L \in Nat
                    /\ \A h \in 1 .. L : \/ \E o \in 1 .. N : FromOld(new, old, g, k, mid, h, o)
                                         \/ \E i \in 1 .. n : FromMid(new, g, mid, h, i)
                    /\ \A o \in 1 .. N : o # g => \E h \in 1 .. L : FromOld(new, old, g, k, mid, h, o)
                    /\ \A i \in 1 .. n : \E h \in 1 .. L : FromMid(new, g, mid, h, i)
  BY DEF IsSpliced
<1>1. g \in 1 .. N + 1 /\ k \in 0 .. 1 /\ g + k <= N + 1 /\ L \in Nat
      /\ (k = 1 => g \in 1 .. N) /\ (k = 0 => g = N + 1)
  BY DEF SpliceAt
<1>2. ASSUME NEW h \in 1 .. L
      PROVE  \/ \E o \in 1 .. N : FromOld(new, old, g, k, mid, h, o)
             \/ \E i \in 1 .. n : FromMid(new, g, mid, h, i)
  <2>1. CASE h < g
    <3>1. h \in 1 .. N /\ h # g /\ new[h] = old[h]
      BY <1>1, <2>1
    <3>2. FromOld(new, old, g, k, mid, h, h)
      BY <2>1, <3>1 DEF FromOld
    <3> QED BY <3>1, <3>2
  <2>2. CASE ~(h < g) /\ h < g + n
    <3>1. h - g + 1 \in 1 .. n /\ new[h] = mid[h - g + 1] /\ h = g + (h - g + 1) - 1
      BY <1>1, <2>2, SMTT(30)
    <3>2. FromMid(new, g, mid, h, h - g + 1)
      BY <3>1 DEF FromMid
    <3> QED BY <3>1, <3>2
  <2>3. CASE ~(h < g) /\ ~(h < g + n)
    <3>1. h - n + k \in 1 .. N /\ new[h] = old[h - n + k] /\ ~(h - n + k < g) /\ h - n + k # g
          /\ h = (h - n + k) + n - k
      <4>1. k = 1 /\ L = N + n - 1
        <5>1. L = N + n - k
          OBVIOUS
        <5>2. k = 0 => FALSE
          BY <1>1, <2>3, <5>1
        <5> QED BY <1>1, <5>1, <5>2
      <4>2. h - n + 1 \in 1 .. N /\ new[h] = old[h - n + 1] /\ h - n + 1 > g
        BY <1>1, <2>3, <4>1
      <4> QED BY <1>1, <4>1, <4>2
    <3>2. FromOld(new, old, g, k, mid, h, h - n + k)
      BY <3>1 DEF FromOld
    <3> QED BY <3>1, <3>2
  <2> QED BY <2>1, <2>2, <2>3
<1>3. ASSUME NEW o \in 1 .. N, o # g PROVE \E h \in 1 .. L : FromOld(new, old, g, k, mid, h, o)
  <2>1. CASE o < g
    <3>1. o \in 1 .. L /\ new[o] = old[o]
      BY <1>1, <2>1
    <3>2. FromOld(new, old, g, k, mid, o, o)
      BY <1>3, <2>1, <3>1 DEF FromOld
    <3> QED BY <3>1, <3>2
  <2>2. CASE ~(o < g)
    <3>1. k = 1 /\ o > g
      BY <1>1, <1>3, <2>2
    <3>2. o + n - k \in 1 .. L /\ ~(o + n - k < g) /\ ~(o + n - k < g + n) /\ (o + n - k) - n + k = o
      BY <1>1, <3>1
    <3>3. new[o + n - k] = old[o]
      BY <3>2
    <3>4. FromOld(new, old, g, k, mid, o + n - k, o)
      BY <1>3, <2>2, <3>2, <3>3 DEF FromOld
    <3> QED BY <3>2, <3>4
  <2> QED BY <2>1, <2>2
<1>4. ASSUME NEW i \in 1 .. n PROVE \E h \in 1 .. L : FromMid(new, g, mid, h, i)
  <2>1. g + i - 1 \in 1 .. L /\ ~(g + i - 1 < g) /\ g + i - 1 < g + n /\ (g + i - 1) - g + 1 = i
    BY <1>1
  <2>2. new[g + i - 1] = mid[i]
    BY <2>1
  <2>3. FromMid(new, g, mid, g + i - 1, i)
    BY <2>1, <2>2 DEF FromMid
  <2> QED BY <2>1, <2>3
<1> QED BY <1>1, <1>2, <1>3, <1>4

(* A group of which only the link to the next one may change. *)
Keeps(P, Q, p) ==
    /\ Q[p].slots = P[p].slots /\ Q[p].overflow = P[p].overflow
    /\ \A q \in PagesOf(P, p) : q # p => Q[q] = P[q]

LEMMA KeptGroup ==
    ASSUME NEW s, NEW P, NEW Q, NEW p, Keeps(P, Q, p)
    PROVE  /\ PagesOf(Q, p) = PagesOf(P, p) /\ PlacesOf(Q, p) = PlacesOf(P, p)
           /\ KeysOf(Q, p) = KeysOf(P, p) /\ Living(Q, p) = Living(P, p)
           /\ FirstOf(Q, p) = FirstOf(P, p)
           /\ \A x \in PlacesOf(P, p) : SlotAt(Q, x) = SlotAt(P, x)
           /\ Sane(s, P, p) => Sane(s, Q, p)
<1> USE DEF Keeps
<1>1. PagesOf(Q, p) = PagesOf(P, p) /\ \A q \in PagesOf(P, p) : Q[q].slots = P[q].slots
  BY DEF PagesOf
<1>3. PlacesOf(Q, p) = PlacesOf(P, p)
  <2>1. \A q \in PagesOf(P, p) : {<<q, i>> : i \in DOMAIN Q[q].slots} = {<<q, i>> : i \in DOMAIN P[q].slots}
    BY <1>1
  <2> QED BY <1>1, <2>1 DEF PlacesOf
<1>4. ASSUME NEW x \in PlacesOf(P, p) PROVE SlotAt(Q, x) = SlotAt(P, x)
  <2>1. PICK q \in PagesOf(P, p) : \E i \in DOMAIN P[q].slots : x = <<q, i>>
    BY DEF PlacesOf
  <2>2. x[1] = q
    BY <2>1
  <2> QED BY <1>1, <2>1, <2>2 DEF SlotAt
<1>5. KeysOf(Q, p) = KeysOf(P, p) /\ Living(Q, p) = Living(P, p)
  BY <1>3, <1>4 DEF KeysOf, Living
<1>7. FirstOf(Q, p) = FirstOf(P, p)
  BY DEF FirstOf
<1>8. ASSUME Sane(s, P, p) PROVE Sane(s, Q, p)
  <2>1. P[p].overflow # NoPage => P[p].overflow # p /\ Q[P[p].overflow] = P[P[p].overflow]
    BY <1>8 DEF PagesOf, Sane
  <2>2. \A x, y \in Living(P, p) : SlotAt(Q, x) = SlotAt(P, x) /\ SlotAt(Q, y) = SlotAt(P, y)
    BY <1>4 DEF Living
  <2>3. \A x, y \in Living(Q, p) : SlotAt(Q, x).key = SlotAt(Q, y).key => x = y
    BY <1>5, <1>8, <2>2 DEF Sane, OneEach
  <2> QED BY <1>8, <2>1, <2>3 DEF Sane, OneEach
<1> QED BY <1>1, <1>3, <1>4, <1>5, <1>7, <1>8

Precedes(Q, p, q) == PagesOf(Q, p) \cap PagesOf(Q, q) = {} /\ \A key \in KeysOf(Q, p) : key < FirstOf(Q, q)

(* New groups, one after the other, in the given pages. *)
NewGroups(s, Q, mid, pages) ==
    /\ mid \in Seq(1 .. s.pages)
    /\ \A i \in 1 .. Len(mid) : /\ Sane(s, Q, mid[i]) /\ PagesOf(Q, mid[i]) \subseteq pages
                                /\ \A key \in KeysOf(Q, mid[i]) : FirstOf(Q, mid[i]) <= key
    /\ \A i, j \in 1 .. Len(mid) : i < j => Precedes(Q, mid[i], mid[j])

(* Their keys are between those of the groups before and after. *)
Fits(P, main, Q, g, mid) ==
    \A o \in 1 .. Len(main), i \in 1 .. Len(mid) :
        /\ o < g => \A key \in KeysOf(P, main[o]) : key < FirstOf(Q, mid[i])
        /\ o > g => \A key \in KeysOf(Q, mid[i]) : key < FirstOf(P, main[o])

FreePages(P, m, n, g, k) == (m.count + 1 .. n.count) \cup (IF k = 1 THEN PagesOf(P, m.main[g]) ELSE {})

FirstsOf(Q, mid, firsts) == Len(firsts) = Len(mid) /\ \A i \in 1 .. Len(mid) : firsts[i] = FirstOf(Q, mid[i])

LinkedUp(Q, main) ==
    \A h \in 1 .. Len(main) : Q[main[h]].next = IF h = Len(main) THEN NoPage ELSE main[h + 1]

Splices(s, P, m, Q, n, g, k, mid, firsts) ==
    /\ Q \in Images(s) /\ n.count \in m.count .. s.pages /\ SpliceAt(Len(m.main), g, k)
    /\ IsSpliced(n.main, 1 .. s.pages, m.main, g, k, mid)
    /\ IsSpliced(n.first, Int, m.first, g, k, firsts) /\ FirstsOf(Q, mid, firsts)
    /\ n.head = (IF n.main = <<>> THEN NoPage ELSE n.main[1]) /\ LinkedUp(Q, n.main)
    /\ \A o \in 1 .. Len(m.main) : o # g => Keeps(P, Q, m.main[o])
    /\ NewGroups(s, Q, mid, FreePages(P, m, n, g, k)) /\ Fits(P, m.main, Q, g, mid)

LEMMA SplicedChain ==
    ASSUME NEW s, SoundSetup(s), NEW P, NEW m, Sound(s, P, m), NEW Q, NEW n, NEW g, NEW k, NEW mid, NEW firsts,
           Splices(s, P, m, Q, n, g, k, mid, firsts)
    PROVE  Chained(s, Q, n.main, n.head, n.count) /\ Directory(Q, n)
<1> DEFINE old == m.main
           new == n.main
           N == Len(old)
           L == Len(new)
<1> USE DEF SoundSetup
<1>1. /\ P \in Images(s) /\ Chained(s, P, old, m.head, m.count) /\ N \in Nat /\ DOMAIN old = 1 .. N
      /\ m.count \in 0 .. s.pages /\ Directory(P, m)
      /\ \A o \in 1 .. N : old[o] \in 1 .. s.pages /\ Sane(s, P, old[o])
  BY SoundTypes
<1>2. /\ Q \in Images(s) /\ n.count \in m.count .. s.pages /\ SpliceAt(N, g, k)
      /\ IsSpliced(new, 1 .. s.pages, old, g, k, mid)
      /\ NewGroups(s, Q, mid, FreePages(P, m, n, g, k)) /\ Fits(P, old, Q, g, mid)
      /\ \A o \in 1 .. N : o # g => Keeps(P, Q, old[o])
  BY DEF Splices
<1>3. mid \in Seq(1 .. s.pages) /\ Len(mid) \in Nat /\ \A i \in 1 .. Len(mid) : mid[i] \in 1 .. s.pages
  <2>1. mid \in Seq(1 .. s.pages)
    BY <1>2 DEF NewGroups
  <2> QED BY <2>1, LenProperties, ElementOfSeq
<1>4. /\ L \in Nat
      /\ \A h \in 1 .. L : \/ \E o \in 1 .. N : FromOld(new, old, g, k, mid, h, o)
                           \/ \E i \in 1 .. Len(mid) : FromMid(new, g, mid, h, i)
  BY <1>1, <1>2, <1>3, SpliceSources
<1>5. new \in Seq(1 .. s.pages) /\ DOMAIN new = 1 .. L
  <2>1. new \in Seq(1 .. s.pages)
    BY <1>2 DEF IsSpliced
  <2> QED BY <2>1, LenProperties
<1>6. ASSUME NEW o \in 1 .. N, o # g
      PROVE  /\ PagesOf(Q, old[o]) = PagesOf(P, old[o]) /\ KeysOf(Q, old[o]) = KeysOf(P, old[o])
             /\ FirstOf(Q, old[o]) = FirstOf(P, old[o]) /\ Sane(s, Q, old[o])
             /\ PagesOf(Q, old[o]) \subseteq 1 .. m.count
             /\ PagesOf(Q, old[o]) \cap FreePages(P, m, n, g, k) = {}
             /\ o # 1 => \A key \in KeysOf(Q, old[o]) : FirstOf(Q, old[o]) <= key
  <2> DEFINE p == old[o]
  <2>1. Keeps(P, Q, p) /\ Sane(s, P, p)
    BY <1>1, <1>2, <1>6
  <2> HIDE DEF p
  <2>2. /\ PagesOf(Q, p) = PagesOf(P, p) /\ KeysOf(Q, p) = KeysOf(P, p)
        /\ FirstOf(Q, p) = FirstOf(P, p) /\ Sane(s, Q, p)
    BY <2>1, KeptGroup
  <2>3. /\ PagesOf(P, p) \subseteq 1 .. m.count
        /\ o # 1 => \A key \in KeysOf(P, p) : FirstOf(P, p) <= key
    BY <1>1 DEF Chained, p
  <2>4. k = 1 => PagesOf(P, p) \cap PagesOf(P, old[g]) = {}
    <3>1. k = 1 => g \in DOMAIN old
      BY <1>1, <1>2 DEF SpliceAt
    <3> QED BY <1>1, <1>6, <3>1 DEF Chained, p
  <2>5. PagesOf(P, p) \cap FreePages(P, m, n, g, k) = {}
    <3>1. (1 .. m.count) \cap (m.count + 1 .. n.count) = {}
      BY <1>1
    <3> QED BY <2>3, <2>4, <3>1 DEF FreePages
  <2> QED BY <2>2, <2>3, <2>5 DEF p
<1>7. ASSUME NEW i \in 1 .. Len(mid)
      PROVE  /\ Sane(s, Q, mid[i]) /\ PagesOf(Q, mid[i]) \subseteq FreePages(P, m, n, g, k)
             /\ \A key \in KeysOf(Q, mid[i]) : FirstOf(Q, mid[i]) <= key
             /\ PagesOf(Q, mid[i]) \subseteq 1 .. n.count
  <2>1. /\ Sane(s, Q, mid[i]) /\ PagesOf(Q, mid[i]) \subseteq FreePages(P, m, n, g, k)
        /\ \A key \in KeysOf(Q, mid[i]) : FirstOf(Q, mid[i]) <= key
    BY <1>2 DEF NewGroups
  <2>2. FreePages(P, m, n, g, k) \subseteq 1 .. n.count
    <3>1. k = 1 => PagesOf(P, old[g]) \subseteq 1 .. m.count
      BY <1>1, <1>2 DEF Chained, SpliceAt
    <3>2. 1 .. m.count \subseteq 1 .. n.count /\ m.count + 1 .. n.count \subseteq 1 .. n.count
      BY <1>1, <1>2
    <3> QED BY <3>1, <3>2 DEF FreePages
  <2> QED BY <2>1, <2>2
<1>8. ASSUME NEW h \in 1 .. L
      PROVE  /\ Sane(s, Q, new[h]) /\ PagesOf(Q, new[h]) \subseteq 1 .. n.count
             /\ h # 1 => \A key \in KeysOf(Q, new[h]) : FirstOf(Q, new[h]) <= key
  <2>1. CASE \E o \in 1 .. N : FromOld(new, old, g, k, mid, h, o)
    <3>1. PICK o \in 1 .. N : FromOld(new, old, g, k, mid, h, o)
      BY <2>1
    <3>2. o # g /\ new[h] = old[o] /\ (h # 1 => o # 1)
      BY <1>2, <1>3, <3>1 DEF FromOld, SpliceAt
    <3>3. 1 .. m.count \subseteq 1 .. n.count
      BY <1>1, <1>2
    <3> QED BY <1>6, <3>2, <3>3
  <2>2. CASE \E i \in 1 .. Len(mid) : FromMid(new, g, mid, h, i)
    <3>1. PICK i \in 1 .. Len(mid) : FromMid(new, g, mid, h, i)
      BY <2>2
    <3>2. new[h] = mid[i]
      BY <3>1 DEF FromMid
    <3> QED BY <1>7, <3>2
  <2> QED BY <1>4, <2>1, <2>2
<1>9. ASSUME NEW a \in 1 .. L, NEW b \in 1 .. L, a < b
      PROVE  Precedes(Q, new[a], new[b])
  <2>1. ASSUME NEW o \in 1 .. N, NEW r \in 1 .. N, FromOld(new, old, g, k, mid, a, o), FromOld(new, old, g, k, mid, b, r)
        PROVE  Precedes(Q, new[a], new[b])
    <3>1. o # g /\ r # g /\ new[a] = old[o] /\ new[b] = old[r]
      BY <2>1 DEF FromOld
    <3>2. o < r
      <4>1. /\ o # g /\ r # g /\ a = (IF o < g THEN o ELSE o + Len(mid) - k)
            /\ b = (IF r < g THEN r ELSE r + Len(mid) - k)
        BY <2>1 DEF FromOld
      <4>2. k \in 0 .. 1 /\ g \in 1 .. N + 1 /\ (k = 0 => o < g /\ r < g)
        BY <1>1, <1>2, <4>1 DEF SpliceAt
      <4> HIDE DEF N
      <4>3. CASE o < g /\ r < g
        BY <1>9, <4>1, <4>3
      <4>4. CASE o < g /\ ~(r < g)
        BY <1>1, <4>2, <4>4
      <4>5. CASE ~(o < g) /\ r < g
        BY <1>1, <1>3, <1>9, <4>1, <4>2, <4>5
      <4>6. CASE ~(o < g) /\ ~(r < g)
        BY <1>1, <1>3, <1>9, <4>1, <4>2, <4>6
      <4> QED BY <4>3, <4>4, <4>5, <4>6
    <3>3. PagesOf(P, old[o]) \cap PagesOf(P, old[r]) = {} /\ \A key \in KeysOf(P, old[o]) : key < FirstOf(P, old[r])
      <4>1. o \in DOMAIN old /\ r \in DOMAIN old /\ o # r
        BY <1>1, <3>2
      <4> HIDE DEF old
      <4> QED BY <1>1, <3>2, <4>1 DEF Chained
    <3> QED BY <1>6, <3>1, <3>3 DEF Precedes
  <2>2. ASSUME NEW i \in 1 .. Len(mid), NEW j \in 1 .. Len(mid), FromMid(new, g, mid, a, i), FromMid(new, g, mid, b, j)
        PROVE  Precedes(Q, new[a], new[b])
    <3>1. new[a] = mid[i] /\ new[b] = mid[j] /\ a = g + i - 1 /\ b = g + j - 1
      BY <2>2 DEF FromMid
    <3>2. g \in Int
      BY <1>1, <1>2 DEF SpliceAt
    <3>3. i < j
      BY <1>3, <1>9, <3>1, <3>2
    <3> QED BY <1>2, <3>1, <3>3 DEF NewGroups
  <2>3. ASSUME NEW o \in 1 .. N, NEW j \in 1 .. Len(mid), FromOld(new, old, g, k, mid, a, o), FromMid(new, g, mid, b, j)
        PROVE  Precedes(Q, new[a], new[b])
    <3>1. o # g /\ new[a] = old[o] /\ new[b] = mid[j]
      BY <2>3 DEF FromOld, FromMid
    <3>2. o < g
      BY <1>2, <1>3, <1>9, <2>3 DEF FromOld, FromMid, SpliceAt
    <3>3. PagesOf(Q, old[o]) \cap PagesOf(Q, mid[j]) = {}
      BY <1>6, <1>7, <3>1
    <3>4. \A key \in KeysOf(P, old[o]) : key < FirstOf(Q, mid[j])
      BY <1>2, <3>2 DEF Fits
    <3> QED BY <1>6, <3>1, <3>3, <3>4 DEF Precedes
  <2>4. ASSUME NEW i \in 1 .. Len(mid), NEW r \in 1 .. N, FromMid(new, g, mid, a, i), FromOld(new, old, g, k, mid, b, r)
        PROVE  Precedes(Q, new[a], new[b])
    <3>1. r # g /\ new[a] = mid[i] /\ new[b] = old[r]
      BY <2>4 DEF FromOld, FromMid
    <3>2. r > g
      <4>1. r # g /\ (r < g => b = r) /\ a = g + i - 1
        BY <2>4 DEF FromOld, FromMid
      <4>2. g \in Int /\ r \in Int /\ i \in Int /\ i >= 1
        BY <1>1, <1>2, <1>3 DEF SpliceAt
      <4> QED BY <1>9, <4>1, <4>2
    <3>3. PagesOf(Q, mid[i]) \cap PagesOf(Q, old[r]) = {}
      BY <1>6, <1>7, <3>1
    <3>4. \A key \in KeysOf(Q, mid[i]) : key < FirstOf(P, old[r])
      BY <1>2, <3>2 DEF Fits
    <3> QED BY <1>6, <3>1, <3>3, <3>4 DEF Precedes
  <2> QED BY <1>4, <2>1, <2>2, <2>3, <2>4
<1>10. Chained(s, Q, new, n.head, n.count)
  <2>1. \A a, b \in DOMAIN new : a # b => PagesOf(Q, new[a]) \cap PagesOf(Q, new[b]) = {}
    <3> SUFFICES ASSUME NEW a \in 1 .. L, NEW b \in 1 .. L, a # b
                 PROVE  PagesOf(Q, new[a]) \cap PagesOf(Q, new[b]) = {}
      BY <1>5
    <3>1. a < b \/ b < a
      BY <1>4
    <3> QED BY <1>9, <3>1 DEF Precedes
  <2>2. \A a, b \in DOMAIN new : a < b => \A key \in KeysOf(Q, new[a]) : key < FirstOf(Q, new[b])
    BY <1>5, <1>9 DEF Precedes
  <2>3. n.count \in 0 .. s.pages
    BY <1>1, <1>2
  <2>4. n.head = (IF new = <<>> THEN NoPage ELSE new[1]) /\ LinkedUp(Q, new)
    BY DEF Splices
  <2>5. \A h \in DOMAIN new : /\ Sane(s, Q, new[h]) /\ PagesOf(Q, new[h]) \subseteq 1 .. n.count
                              /\ Q[new[h]].next = IF h = Len(new) THEN NoPage ELSE new[h + 1]
                              /\ h # 1 => \A key \in KeysOf(Q, new[h]) : FirstOf(Q, new[h]) <= key
    BY <1>5, <1>8, <2>4 DEF LinkedUp
  <2> HIDE DEF new
  <2> QED BY <1>5, <2>1, <2>2, <2>3, <2>4, <2>5 DEF Chained
<1>11. Directory(Q, n)
  <2>1. m.first = [o \in 1 .. N |-> FirstOf(P, old[o])]
    BY <1>1 DEF Directory
  <2>2. \A o \in 1 .. N : FirstOf(P, old[o]) \in Int
    BY <1>1, ChainTypes
  <2>3. m.first \in Seq(Int) /\ Len(m.first) = N
    <3>1. m.first \in [1 .. N -> Int]
      BY <2>1, <2>2
    <3> HIDE DEF N
    <3> QED BY <1>1, <3>1
  <2>4. /\ n.first \in Seq(Int) /\ Len(n.first) = N + Len(mid) - k /\ Len(firsts) = Len(mid)
        /\ \A h \in 1 .. Len(n.first) : n.first[h] = IF h < g THEN m.first[h]
                                         ELSE IF h < g + Len(mid) THEN firsts[h - g + 1]
                                         ELSE m.first[h - Len(mid) + k]
        /\ \A i \in 1 .. Len(mid) : firsts[i] = FirstOf(Q, mid[i])
    <3>1. IsSpliced(n.first, Int, m.first, g, k, firsts) /\ FirstsOf(Q, mid, firsts)
      BY DEF Splices
    <3> QED BY <2>3, <3>1 DEF IsSpliced, FirstsOf
  <2>5. Len(n.first) = L
    BY <1>2, <2>4 DEF IsSpliced
  <2>6. ASSUME NEW h \in 1 .. L PROVE n.first[h] = FirstOf(Q, new[h])
    <3>1. ASSUME NEW o \in 1 .. N, FromOld(new, old, g, k, mid, h, o) PROVE n.first[h] = FirstOf(Q, new[h])
      <4>1. o # g /\ new[h] = old[o]
        BY <3>1 DEF FromOld
      <4>2. n.first[h] = m.first[o]
        <5>1. CASE o < g
          <6>1. h = o
            BY <3>1, <5>1 DEF FromOld
          <6> QED BY <2>4, <2>5, <5>1, <6>1
        <5>2. CASE ~(o < g)
          <6>1. h = o + Len(mid) - k /\ k \in 0 .. 1 /\ g \in Int /\ (k = 0 => g = N + 1)
            BY <1>2, <3>1, <5>2 DEF FromOld, SpliceAt
          <6>2. ~(h < g) /\ ~(h < g + Len(mid)) /\ h - Len(mid) + k = o
            BY <1>1, <1>3, <4>1, <5>2, <6>1
          <6> QED BY <2>4, <2>5, <6>2
        <5> QED BY <5>1, <5>2
      <4> QED BY <1>6, <2>1, <4>1, <4>2
    <3>2. ASSUME NEW i \in 1 .. Len(mid), FromMid(new, g, mid, h, i) PROVE n.first[h] = FirstOf(Q, new[h])
      <4>1. new[h] = mid[i] /\ h = g + i - 1 /\ g \in Int
        BY <1>2, <3>2 DEF FromMid, SpliceAt
      <4>2. ~(h < g) /\ h < g + Len(mid) /\ h - g + 1 = i
        BY <1>3, <4>1
      <4> QED BY <2>4, <2>5, <4>1, <4>2
    <3> QED BY <1>4, <3>1, <3>2
  <2>7. DOMAIN n.first = 1 .. L
    BY <2>4, <2>5, LenProperties
  <2>8. n.first = [h \in 1 .. L |-> n.first[h]]
    <3>1. n.first \in [1 .. Len(n.first) -> Int]
      BY <2>4, LenProperties
    <3> HIDE DEF L
    <3> QED BY <2>5, <3>1
  <2> HIDE DEF L, new
  <2> QED BY <1>5, <2>6, <2>8 DEF Directory, new
<1> QED BY <1>10, <1>11

LEMMA ChainFinite ==
    ASSUME NEW s, SoundSetup(s), NEW P \in Images(s), NEW main, NEW head, NEW count, Chained(s, P, main, head, count)
    PROVE  IsFiniteSet(AllLiving(P, main)) /\ IsFiniteSet(AllPlaces(P, main))
<1> USE DEF SoundSetup
<1>1. Len(main) \in Nat /\ DOMAIN main = 1 .. Len(main)
  BY ChainTypes
<1>2. CASE Len(main) = 0
  <2>1. AllLiving(P, main) = {} /\ AllPlaces(P, main) = {}
    BY <1>1, <1>2 DEF AllLiving, AllPlaces
  <2> QED BY <2>1, FS_EmptySet
<1>3. CASE Len(main) # 0
  <2>1. 1 \in DOMAIN main
    BY <1>1, <1>3
  <2>2. /\ IsFiniteSet(PlacesOf(P, main[1])) /\ IsFiniteSet(Living(P, main[1]))
        /\ IsFiniteSet(OtherPlaces(P, main, 1)) /\ IsFiniteSet(OtherLiving(P, main, 1))
        /\ AllPlaces(P, main) = PlacesOf(P, main[1]) \cup OtherPlaces(P, main, 1)
        /\ AllLiving(P, main) = Living(P, main[1]) \cup OtherLiving(P, main, 1)
    BY <2>1, Parted
  <2> QED BY <2>2, FS_Union
<1> QED BY <1>2, <1>3

(* The slots of the group that goes. *)
GonePlaces(P, m, g, k) == IF k = 1 THEN PlacesOf(P, m.main[g]) ELSE {}
GoneLiving(P, m, g, k) == IF k = 1 THEN Living(P, m.main[g]) ELSE {}

(* What a splice does to the counters. *)
LEMMA SplicedCounts ==
    ASSUME NEW s, SoundSetup(s), NEW P, NEW m, Sound(s, P, m), NEW Q, NEW n, NEW g, NEW k, NEW mid, NEW firsts,
           Splices(s, P, m, Q, n, g, k, mid, firsts)
    PROVE  /\ IsFiniteSet(AllPlaces(Q, mid)) /\ IsFiniteSet(AllLiving(Q, mid))
           /\ IsFiniteSet(GonePlaces(P, m, g, k)) /\ IsFiniteSet(GoneLiving(P, m, g, k))
           /\ Cardinality(AllPlaces(Q, n.main)) =
                 Cardinality(AllPlaces(P, m.main)) - Cardinality(GonePlaces(P, m, g, k)) + Cardinality(AllPlaces(Q, mid))
           /\ Cardinality(AllLiving(Q, n.main)) =
                 Cardinality(AllLiving(P, m.main)) - Cardinality(GoneLiving(P, m, g, k)) + Cardinality(AllLiving(Q, mid))
<1> DEFINE old == m.main
           new == n.main
           N == Len(old)
           L == Len(new)
           Kept == OtherPlaces(P, old, g)
           KeptLive == OtherLiving(P, old, g)
<1> USE DEF SoundSetup
<1>1. /\ P \in Images(s) /\ Chained(s, P, old, m.head, m.count) /\ N \in Nat /\ DOMAIN old = 1 .. N
      /\ m.count \in 0 .. s.pages
      /\ \A o \in 1 .. N : old[o] \in 1 .. s.pages /\ Sane(s, P, old[o])
  BY SoundTypes
<1>2. /\ Q \in Images(s) /\ n.count \in m.count .. s.pages /\ SpliceAt(N, g, k)
      /\ IsSpliced(new, 1 .. s.pages, old, g, k, mid)
      /\ NewGroups(s, Q, mid, FreePages(P, m, n, g, k))
      /\ \A o \in 1 .. N : o # g => Keeps(P, Q, old[o])
  BY DEF Splices
<1>3. mid \in Seq(1 .. s.pages) /\ Len(mid) \in Nat /\ DOMAIN mid = 1 .. Len(mid)
      /\ \A i \in 1 .. Len(mid) : mid[i] \in 1 .. s.pages
  <2>1. mid \in Seq(1 .. s.pages)
    BY <1>2 DEF NewGroups
  <2> QED BY <2>1, LenProperties, ElementOfSeq
<1>4. /\ L \in Nat
      /\ \A h \in 1 .. L : \/ \E o \in 1 .. N : FromOld(new, old, g, k, mid, h, o)
                           \/ \E i \in 1 .. Len(mid) : FromMid(new, g, mid, h, i)
      /\ \A o \in 1 .. N : o # g => \E h \in 1 .. L : FromOld(new, old, g, k, mid, h, o)
      /\ \A i \in 1 .. Len(mid) : \E h \in 1 .. L : FromMid(new, g, mid, h, i)
  BY <1>1, <1>2, <1>3, SpliceSources
<1>5. DOMAIN new = 1 .. L
  <2>1. new \in Seq(1 .. s.pages)
    BY <1>2 DEF IsSpliced
  <2> QED BY <2>1, LenProperties
<1>6. ASSUME NEW o \in 1 .. N, o # g
      PROVE  /\ PlacesOf(Q, old[o]) = PlacesOf(P, old[o]) /\ Living(Q, old[o]) = Living(P, old[o])
  <2> DEFINE p == old[o]
  <2>1. Keeps(P, Q, p)
    BY <1>2, <1>6
  <2> HIDE DEF p
  <2>2. PlacesOf(Q, p) = PlacesOf(P, p) /\ Living(Q, p) = Living(P, p)
    BY <2>1, KeptGroup
  <2> QED BY <2>2 DEF p
<1>7. AllPlaces(Q, new) = Kept \cup AllPlaces(Q, mid)
  <2>1. ASSUME NEW h \in 1 .. L PROVE PlacesOf(Q, new[h]) \subseteq Kept \cup AllPlaces(Q, mid)
    <3>1. ASSUME NEW o \in 1 .. N, FromOld(new, old, g, k, mid, h, o) PROVE PlacesOf(Q, new[h]) \subseteq Kept
      <4>1. new[h] = old[o] /\ o # g
        BY <3>1 DEF FromOld
      <4> QED BY <1>1, <1>6, <4>1 DEF OtherPlaces
    <3>2. ASSUME NEW i \in 1 .. Len(mid), FromMid(new, g, mid, h, i) PROVE PlacesOf(Q, new[h]) \subseteq AllPlaces(Q, mid)
      <4>1. new[h] = mid[i]
        BY <3>2 DEF FromMid
      <4> QED BY <1>3, <4>1 DEF AllPlaces
    <3> QED BY <1>4, <3>1, <3>2
  <2>2. ASSUME NEW o \in 1 .. N, o # g PROVE PlacesOf(P, old[o]) \subseteq AllPlaces(Q, new)
    <3>1. PICK h \in 1 .. L : FromOld(new, old, g, k, mid, h, o)
      BY <1>4, <2>2
    <3>2. new[h] = old[o]
      BY <3>1 DEF FromOld
    <3> QED BY <1>5, <1>6, <2>2, <3>2 DEF AllPlaces
  <2>3. ASSUME NEW i \in 1 .. Len(mid) PROVE PlacesOf(Q, mid[i]) \subseteq AllPlaces(Q, new)
    <3>1. PICK h \in 1 .. L : FromMid(new, g, mid, h, i)
      BY <1>4, <2>3
    <3>2. new[h] = mid[i]
      BY <3>1 DEF FromMid
    <3> QED BY <1>5, <3>2 DEF AllPlaces
  <2>4. AllPlaces(Q, new) \subseteq Kept \cup AllPlaces(Q, mid)
    BY <1>5, <2>1 DEF AllPlaces
  <2>5. Kept \subseteq AllPlaces(Q, new)
    BY <1>1, <2>2 DEF OtherPlaces
  <2>6. AllPlaces(Q, mid) \subseteq AllPlaces(Q, new)
    BY <1>3, <2>3 DEF AllPlaces
  <2> QED BY <2>4, <2>5, <2>6
<1>8. AllLiving(Q, new) = KeptLive \cup AllLiving(Q, mid)
  <2>1. ASSUME NEW h \in 1 .. L PROVE Living(Q, new[h]) \subseteq KeptLive \cup AllLiving(Q, mid)
    <3>1. ASSUME NEW o \in 1 .. N, FromOld(new, old, g, k, mid, h, o) PROVE Living(Q, new[h]) \subseteq KeptLive
      <4>1. new[h] = old[o] /\ o # g
        BY <3>1 DEF FromOld
      <4> QED BY <1>1, <1>6, <4>1 DEF OtherLiving
    <3>2. ASSUME NEW i \in 1 .. Len(mid), FromMid(new, g, mid, h, i) PROVE Living(Q, new[h]) \subseteq AllLiving(Q, mid)
      <4>1. new[h] = mid[i]
        BY <3>2 DEF FromMid
      <4> QED BY <1>3, <4>1 DEF AllLiving
    <3> QED BY <1>4, <3>1, <3>2
  <2>2. ASSUME NEW o \in 1 .. N, o # g PROVE Living(P, old[o]) \subseteq AllLiving(Q, new)
    <3>1. PICK h \in 1 .. L : FromOld(new, old, g, k, mid, h, o)
      BY <1>4, <2>2
    <3>2. new[h] = old[o]
      BY <3>1 DEF FromOld
    <3> QED BY <1>5, <1>6, <2>2, <3>2 DEF AllLiving
  <2>3. ASSUME NEW i \in 1 .. Len(mid) PROVE Living(Q, mid[i]) \subseteq AllLiving(Q, new)
    <3>1. PICK h \in 1 .. L : FromMid(new, g, mid, h, i)
      BY <1>4, <2>3
    <3>2. new[h] = mid[i]
      BY <3>1 DEF FromMid
    <3> QED BY <1>5, <3>2 DEF AllLiving
  <2>4. AllLiving(Q, new) \subseteq KeptLive \cup AllLiving(Q, mid)
    BY <1>5, <2>1 DEF AllLiving
  <2>5. KeptLive \subseteq AllLiving(Q, new)
    BY <1>1, <2>2 DEF OtherLiving
  <2>6. AllLiving(Q, mid) \subseteq AllLiving(Q, new)
    BY <1>3, <2>3 DEF AllLiving
  <2> QED BY <2>4, <2>5, <2>6
<1>9. Kept \cap AllPlaces(Q, mid) = {}
  <2>1. ASSUME NEW x \in Kept PROVE x[1] \in 1 .. m.count /\ (k = 1 => x[1] \notin PagesOf(P, old[g]))
    <3>1. PICK o \in 1 .. N : o # g /\ x \in PlacesOf(P, old[o])
      BY <1>1, <2>1 DEF OtherPlaces
    <3>2. x[1] \in PagesOf(P, old[o])
      BY <1>1, <3>1, PlaceTypes
    <3>3. k = 1 => g \in DOMAIN old
      BY <1>1, <1>2 DEF SpliceAt
    <3> QED BY <1>1, <3>1, <3>2, <3>3 DEF Chained
  <2>2. ASSUME NEW x \in AllPlaces(Q, mid) PROVE x[1] \in FreePages(P, m, n, g, k)
    <3>1. PICK i \in 1 .. Len(mid) : x \in PlacesOf(Q, mid[i])
      BY <1>3, <2>2 DEF AllPlaces
    <3>2. x[1] \in PagesOf(Q, mid[i])
      BY <1>2, <1>3, <3>1, PlaceTypes
    <3> QED BY <1>2, <3>2 DEF NewGroups
  <2>3. ASSUME NEW x \in Kept, x \in AllPlaces(Q, mid) PROVE FALSE
    <3>1. x[1] \notin m.count + 1 .. n.count
      BY <1>1, <1>2, <2>1
    <3> QED BY <2>1, <2>2, <2>3, <3>1 DEF FreePages
  <2> QED BY <2>3
<1>10. KeptLive \subseteq Kept /\ AllLiving(Q, mid) \subseteq AllPlaces(Q, mid)
  BY DEF OtherLiving, OtherPlaces, Living, AllLiving, AllPlaces
<1>11. IsFiniteSet(AllPlaces(Q, new)) /\ IsFiniteSet(AllLiving(Q, new))
  <2>1. Chained(s, Q, new, n.head, n.count)
    BY SplicedChain
  <2> QED BY <1>2, <2>1, ChainFinite
<1>12. /\ IsFiniteSet(GonePlaces(P, m, g, k)) /\ IsFiniteSet(GoneLiving(P, m, g, k))
       /\ IsFiniteSet(Kept) /\ IsFiniteSet(KeptLive)
       /\ Cardinality(AllPlaces(P, old)) = Cardinality(GonePlaces(P, m, g, k)) + Cardinality(Kept)
       /\ Cardinality(AllLiving(P, old)) = Cardinality(GoneLiving(P, m, g, k)) + Cardinality(KeptLive)
  <2>1. CASE k = 1
    <3>1. g \in DOMAIN old
      BY <1>1, <1>2, <2>1 DEF SpliceAt
    <3> QED BY <1>1, <2>1, <3>1, Parted DEF GonePlaces, GoneLiving
  <2>2. CASE k # 1
    <3>1. g \notin DOMAIN old
      BY <1>1, <1>2, <2>2 DEF SpliceAt
    <3>2. AllPlaces(P, old) = Kept /\ AllLiving(P, old) = KeptLive
      BY <3>1 DEF AllPlaces, AllLiving, OtherPlaces, OtherLiving
    <3>3. IsFiniteSet(AllPlaces(P, old)) /\ IsFiniteSet(AllLiving(P, old))
      BY <1>1, ChainFinite
    <3>4. GonePlaces(P, m, g, k) = {} /\ GoneLiving(P, m, g, k) = {}
      BY <2>2 DEF GonePlaces, GoneLiving
    <3>5. Cardinality(Kept) \in Nat /\ Cardinality(KeptLive) \in Nat
      BY <3>2, <3>3, FS_CardinalityType
    <3> HIDE DEF old, Kept, KeptLive
    <3> QED BY <3>2, <3>3, <3>4, <3>5, FS_EmptySet
  <2> QED BY <2>1, <2>2
<1>13. IsFiniteSet(AllPlaces(Q, mid)) /\ IsFiniteSet(AllLiving(Q, mid))
  BY <1>7, <1>8, <1>11, FS_Subset
<1> HIDE DEF Kept, KeptLive, old, new
<1>14. /\ Cardinality(AllPlaces(Q, new)) = Cardinality(Kept) + Cardinality(AllPlaces(Q, mid))
       /\ Cardinality(AllLiving(Q, new)) = Cardinality(KeptLive) + Cardinality(AllLiving(Q, mid))
  <2>1. KeptLive \cap AllLiving(Q, mid) = {}
    BY <1>9, <1>10
  <2> QED BY <1>7, <1>8, <1>9, <1>12, <1>13, <2>1, DisjointSum, SMTT(30)
<1>15. /\ Cardinality(Kept) \in Nat /\ Cardinality(KeptLive) \in Nat
       /\ Cardinality(GonePlaces(P, m, g, k)) \in Nat /\ Cardinality(GoneLiving(P, m, g, k)) \in Nat
       /\ Cardinality(AllPlaces(Q, mid)) \in Nat /\ Cardinality(AllLiving(Q, mid)) \in Nat
  BY <1>12, <1>13, FS_CardinalityType
<1>16. /\ Cardinality(AllPlaces(Q, new)) =
             Cardinality(AllPlaces(P, old)) - Cardinality(GonePlaces(P, m, g, k)) + Cardinality(AllPlaces(Q, mid))
       /\ Cardinality(AllLiving(Q, new)) =
             Cardinality(AllLiving(P, old)) - Cardinality(GoneLiving(P, m, g, k)) + Cardinality(AllLiving(Q, mid))
  BY <1>12, <1>14, <1>15
<1> QED BY <1>12, <1>13, <1>16 DEF old, new

-------------------------------------------------------------------------------
(* Groups of one page, with live rows in key order.                           *)
IsPlain(s, Q, p) ==
    /\ p \in 1 .. s.pages /\ Q[p].overflow = NoPage
    /\ Q[p].slots # <<>> /\ Len(Q[p].slots) <= s.slots
    /\ \A i, j \in 1 .. Len(Q[p].slots) : i < j => Q[p].slots[i].key < Q[p].slots[j].key
    /\ \A i \in 1 .. Len(Q[p].slots) : Q[p].slots[i].live

LEMMA PlainPage ==
    ASSUME NEW s, SoundSetup(s), NEW Q \in Images(s), NEW p, IsPlain(s, Q, p)
    PROVE  /\ Sane(s, Q, p) /\ PagesOf(Q, p) = {p}
           /\ PlacesOf(Q, p) = {<<p, i>> : i \in 1 .. Len(Q[p].slots)} /\ Living(Q, p) = PlacesOf(Q, p)
           /\ KeysOf(Q, p) = {Q[p].slots[i].key : i \in 1 .. Len(Q[p].slots)}
           /\ \A key \in KeysOf(Q, p) : FirstOf(Q, p) <= key
<1> DEFINE slots == Q[p].slots
<1> USE DEF SoundSetup
<1>1. p \in 1 .. s.pages
  BY DEF IsPlain
<1>2. slots \in Seq(SlotsIn(s)) /\ Len(slots) \in Nat /\ DOMAIN slots = 1 .. Len(slots)
  BY <1>1, PageTypes
<1>3. \A i \in 1 .. Len(slots) : slots[i].key \in Int /\ slots[i].live
  <2> SUFFICES ASSUME NEW i \in 1 .. Len(slots) PROVE slots[i].key \in Int /\ slots[i].live
    OBVIOUS
  <2>1. slots[i] \in SlotsIn(s)
    BY <1>2, ElementOfSeq
  <2> QED BY <2>1 DEF SlotsIn, IsPlain
<1>4. Len(slots) >= 1
  <2>1. slots # <<>>
    BY DEF IsPlain
  <2> HIDE DEF slots
  <2> QED BY <1>2, <2>1, EmptySeq
<1>5. PagesOf(Q, p) = {p}
  BY DEF PagesOf, IsPlain
<1>6. PlacesOf(Q, p) = {<<p, i>> : i \in 1 .. Len(slots)}
  BY <1>2, <1>5 DEF PlacesOf
<1>7. \A i \in 1 .. Len(slots) : SlotAt(Q, <<p, i>>) = slots[i]
  BY DEF SlotAt
<1>8. KeysOf(Q, p) = {slots[i].key : i \in 1 .. Len(slots)}
  <2> HIDE DEF slots
  <2> QED BY <1>6, <1>7 DEF KeysOf
<1>9. Living(Q, p) = PlacesOf(Q, p)
  <2>1. \A x \in PlacesOf(Q, p) : SlotAt(Q, x).live
    <3> HIDE DEF slots
    <3> QED BY <1>3, <1>6, <1>7
  <2> QED BY <2>1 DEF Living
<1>10. \A i, j \in 1 .. Len(slots) : i < j => slots[i].key < slots[j].key
  BY DEF IsPlain
<1>11. \A i, j \in 1 .. Len(slots) : i <= j => slots[i].key <= slots[j].key
  <2> HIDE DEF slots
  <2> QED BY <1>2, <1>3, <1>10
<1>12. \A key \in KeysOf(Q, p) : FirstOf(Q, p) <= key
  <2>1. FirstOf(Q, p) = slots[1].key
    BY DEF FirstOf
  <2> HIDE DEF slots
  <2> QED BY <1>2, <1>4, <1>8, <1>11, <2>1
<1>13. OneEach(Q, p)
  <2> SUFFICES ASSUME NEW x \in PlacesOf(Q, p), NEW y \in PlacesOf(Q, p), SlotAt(Q, x).key = SlotAt(Q, y).key
               PROVE  x = y
    BY <1>9 DEF OneEach
  <2>1. PICK i \in 1 .. Len(slots) : x = <<p, i>>
    BY <1>6
  <2>2. PICK j \in 1 .. Len(slots) : y = <<p, j>>
    BY <1>6
  <2>3. slots[i].key = slots[j].key
    BY <1>7, <2>1, <2>2
  <2> HIDE DEF slots
  <2>4. i = j
    BY <1>2, <1>3, <1>10, <2>3
  <2> QED BY <2>1, <2>2, <2>4
<1>14. Sane(s, Q, p)
  <2>1. Ordered(slots)
    BY <1>2, <1>11 DEF Ordered
  <2> QED BY <1>13, <2>1 DEF Sane, IsPlain
<1> QED BY <1>5, <1>6, <1>8, <1>9, <1>12, <1>14

(* A sequence that grows at the end is a splice. *)
LEMMA AppendSplices ==
    ASSUME NEW T, NEW old \in Seq(T), NEW x \in T
    PROVE  SpliceAt(Len(old), Len(old) + 1, 0) /\ IsSpliced(Append(old, x), T, old, Len(old) + 1, 0, <<x>>)
<1>1. Len(old) \in Nat /\ Len(<<x>>) = 1 /\ <<x>>[1] = x
  BY LenProperties
<1>2. /\ Append(old, x) \in Seq(T) /\ Len(Append(old, x)) = Len(old) + 1
      /\ \A h \in 1 .. Len(old) : Append(old, x)[h] = old[h]
      /\ Append(old, x)[Len(old) + 1] = x
  BY AppendProperties
<1>3. ASSUME NEW h \in 1 .. Len(old) + 1
      PROVE  Append(old, x)[h] = IF h < Len(old) + 1 THEN old[h]
                                 ELSE IF h < Len(old) + 1 + 1 THEN <<x>>[h - (Len(old) + 1) + 1] ELSE old[h - 1 + 0]
  <2>1. CASE h = Len(old) + 1
    BY <1>1, <1>2, <2>1
  <2>2. CASE h # Len(old) + 1
    <3>1. h \in 1 .. Len(old) /\ h < Len(old) + 1
      BY <1>1, <2>2
    <3> QED BY <1>2, <3>1
  <2> QED BY <2>1, <2>2
<1> DEFINE now == Append(old, x)
<1>4. Len(now) = Len(old) + Len(<<x>>) - 0
  BY <1>1, <1>2
<1> QED BY <1>1, <1>2, <1>3, <1>4 DEF SpliceAt, IsSpliced

(* A live row that makes a group of its own, after all the others. *)
GoesInNewGroup(s, P, m, Q, n, e) ==
    LET o == m.count + 1
        last == m.main[Len(m.main)]
    IN  /\ e \in SlotsIn(s) /\ e.live /\ o <= s.pages
        /\ \A g \in DOMAIN m.main : \A k \in KeysOf(P, m.main[g]) : k < e.key
        /\ Q \in Images(s) /\ \A q \in 1 .. s.pages : q # o /\ (m.main # <<>> => q # last) => Q[q] = P[q]
        /\ m.main # <<>> => Q[last].slots = P[last].slots /\ Q[last].overflow = P[last].overflow /\ Q[last].next = o
        /\ Q[o].slots = <<e>> /\ Q[o].overflow = NoPage /\ Q[o].next = NoPage
        /\ n.count = o /\ n.head = (IF m.main = <<>> THEN o ELSE m.head)
        /\ n.main = Append(m.main, o) /\ n.first = Append(m.first, e.key)
        /\ n.live = m.live + 1 /\ n.deleted = m.deleted

(* sequential_file.cpp, insert: the first row, and a row after the last one of a full file. *)
LEMMA RowInNewGroup ==
    ASSUME NEW s, SoundSetup(s), NEW P, NEW m, Sound(s, P, m), NEW Q, NEW n, NEW e,
           GoesInNewGroup(s, P, m, Q, n, e)
    PROVE  Sound(s, Q, n) /\ KeysOf(Q, m.count + 1) = {e.key}
<1> DEFINE old == m.main
           new == n.main
           N == Len(old)
           o == m.count + 1
           last == old[N]
<1> USE DEF SoundSetup
<1>1. /\ P \in Images(s) /\ Chained(s, P, old, m.head, m.count) /\ N \in Nat /\ DOMAIN old = 1 .. N
      /\ m.count \in 0 .. s.pages /\ Directory(P, m) /\ old \in Seq(1 .. s.pages)
      /\ \A h \in 1 .. N : old[h] \in 1 .. s.pages /\ Sane(s, P, old[h])
      /\ (old = <<>> <=> N = 0)
  <2>1. /\ Chained(s, P, old, m.head, m.count) /\ P \in Images(s) /\ Directory(P, m) /\ m.count \in 0 .. s.pages
        /\ N \in Nat /\ DOMAIN old = 1 .. N /\ \A h \in DOMAIN old : old[h] \in 1 .. s.pages /\ Sane(s, P, old[h])
    BY SoundTypes
  <2>2. old = <<>> <=> N = 0
    BY <2>1, ChainTypes
  <2>3. old \in Seq(1 .. s.pages)
    BY <2>1 DEF Chained
  <2> HIDE DEF N, old
  <2> QED BY <2>1, <2>2, <2>3
<1>2. /\ e \in SlotsIn(s) /\ e.live /\ o <= s.pages /\ e.key \in Int
      /\ \A h \in 1 .. N : \A k \in KeysOf(P, old[h]) : k < e.key
      /\ Q \in Images(s) /\ \A q \in 1 .. s.pages : q # o /\ (old # <<>> => q # last) => Q[q] = P[q]
      /\ old # <<>> => Q[last].slots = P[last].slots /\ Q[last].overflow = P[last].overflow /\ Q[last].next = o
      /\ Q[o].slots = <<e>> /\ Q[o].overflow = NoPage /\ Q[o].next = NoPage
      /\ n.count = o /\ n.head = (IF old = <<>> THEN o ELSE m.head)
      /\ n.main = Append(old, o) /\ n.first = Append(m.first, e.key)
      /\ n.live = m.live + 1 /\ n.deleted = m.deleted
  BY <1>1 DEF GoesInNewGroup, SlotsIn
<1>3. o \in 1 .. s.pages
  BY <1>1, <1>2
<1>4. IsPlain(s, Q, o) /\ FirstOf(Q, o) = e.key /\ Len(Q[o].slots) = 1
  <2>1. Len(<<e>>) = 1 /\ <<e>>[1] = e /\ <<e>> # <<>>
    OBVIOUS
  <2> HIDE DEF o
  <2> QED BY <1>2, <1>3, <2>1 DEF IsPlain, FirstOf
<1>5. /\ Sane(s, Q, o) /\ PagesOf(Q, o) = {o} /\ PlacesOf(Q, o) = {<<o, 1>>} /\ Living(Q, o) = {<<o, 1>>}
      /\ KeysOf(Q, o) = {e.key}
  <2>1. /\ Sane(s, Q, o) /\ PagesOf(Q, o) = {o}
        /\ PlacesOf(Q, o) = {<<o, i>> : i \in 1 .. Len(Q[o].slots)} /\ Living(Q, o) = PlacesOf(Q, o)
        /\ KeysOf(Q, o) = {Q[o].slots[i].key : i \in 1 .. Len(Q[o].slots)}
    <3> SUFFICES ASSUME NEW p, p = o
                 PROVE  /\ Sane(s, Q, p) /\ PagesOf(Q, p) = {p}
                        /\ PlacesOf(Q, p) = {<<p, i>> : i \in 1 .. Len(Q[p].slots)} /\ Living(Q, p) = PlacesOf(Q, p)
                        /\ KeysOf(Q, p) = {Q[p].slots[i].key : i \in 1 .. Len(Q[p].slots)}
      OBVIOUS
    <3>1. IsPlain(s, Q, p) /\ Q \in Images(s)
      BY <1>2, <1>4
    <3> QED BY ONLY <3>1, SoundSetup(s), PlainPage
  <2>2. 1 .. 1 = {1} /\ Q[o].slots[1] = e
    BY <1>2
  <2> HIDE DEF o
  <2>3. PlacesOf(Q, o) = {<<o, 1>>}
    BY <1>4, <2>1, <2>2
  <2>4. KeysOf(Q, o) = {e.key}
    BY <1>4, <2>1, <2>2
  <2> QED BY <2>1, <2>3, <2>4
<1>6. ASSUME NEW h \in 1 .. N PROVE Keeps(P, Q, old[h]) /\ old[h] # o /\ (h # N => old[h] # last)
  <2> DEFINE p == old[h]
  <2>1. h \in DOMAIN old /\ N \in DOMAIN old /\ old # <<>>
    BY <1>1
  <2>2. p \in PagesOf(P, p) /\ PagesOf(P, p) \subseteq 1 .. m.count /\ last \in PagesOf(P, last)
        /\ PagesOf(P, last) \subseteq 1 .. m.count
    <3> HIDE DEF N
    <3> QED BY <1>1, <2>1 DEF Chained, PagesOf
  <2>3. \A q \in PagesOf(P, p) : q # o /\ q \in 1 .. s.pages
    BY <1>1, <2>2
  <2>4. CASE h = N
    <3>1. Q[p].slots = P[p].slots /\ Q[p].overflow = P[p].overflow
      BY <1>2, <2>1, <2>4
    <3>2. \A q \in PagesOf(P, p) : q # p => Q[q] = P[q]
      BY <1>2, <2>3, <2>4
    <3> QED BY <2>2, <2>3, <2>4, <3>1, <3>2 DEF Keeps
  <2>5. CASE h # N
    <3>1. PagesOf(P, p) \cap PagesOf(P, last) = {}
      <4> HIDE DEF N
      <4> QED BY <1>1, <2>1, <2>5 DEF Chained
    <3>2. \A q \in PagesOf(P, p) : Q[q] = P[q] /\ q # last
      BY <1>2, <2>2, <2>3, <3>1
    <3> QED BY <2>2, <2>3, <3>2 DEF Keeps
  <2> QED BY <2>4, <2>5
<1>7. /\ SpliceAt(N, N + 1, 0) /\ IsSpliced(new, 1 .. s.pages, old, N + 1, 0, <<o>>)
      /\ IsSpliced(n.first, Int, m.first, N + 1, 0, <<e.key>>)
  <2>1. m.first \in Seq(Int) /\ Len(m.first) = N
    <3>1. m.first = [h \in 1 .. N |-> FirstOf(P, old[h])]
      BY <1>1 DEF Directory
    <3>2. \A h \in 1 .. N : FirstOf(P, old[h]) \in Int
      BY <1>1, ChainTypes
    <3>3. m.first \in [1 .. N -> Int]
      BY <3>1, <3>2
    <3> HIDE DEF N
    <3> QED BY <1>1, <3>3
  <2>2. SpliceAt(N, N + 1, 0) /\ IsSpliced(new, 1 .. s.pages, old, N + 1, 0, <<o>>)
    BY <1>1, <1>2, <1>3, AppendSplices
  <2>3. IsSpliced(n.first, Int, m.first, N + 1, 0, <<e.key>>)
    BY <1>2, <2>1, AppendSplices
  <2> QED BY <2>2, <2>3
<1>8. /\ Len(new) = N + 1 /\ new[N + 1] = o /\ \A h \in 1 .. N : new[h] = old[h]
  <2> HIDE DEF o
  <2> QED BY <1>1, <1>2, <1>3, AppendProperties
<1>9. LinkedUp(Q, new)
  <2> SUFFICES ASSUME NEW h \in 1 .. N + 1
               PROVE  Q[new[h]].next = IF h = N + 1 THEN NoPage ELSE new[h + 1]
    BY <1>8 DEF LinkedUp
  <2>1. CASE h = N + 1
    BY <1>2, <1>8, <2>1
  <2>2. CASE h # N + 1
    <3>1. h \in 1 .. N /\ h \in DOMAIN old /\ old # <<>>
      BY <1>1, <2>2
    <3>2. CASE h = N
      BY <1>2, <1>8, <3>1, <3>2
    <3>3. CASE h # N
      <4>1. old[h] # o /\ old[h] # last /\ old[h] \in 1 .. s.pages
        BY <1>1, <1>6, <3>1, <3>3
      <4>2. Q[old[h]] = P[old[h]]
        BY <1>2, <4>1
      <4>3. P[old[h]].next = old[h + 1]
        <5> HIDE DEF old
        <5> QED BY <1>1, <3>1, <3>3 DEF Chained
      <4>4. h + 1 \in 1 .. N
        BY <1>1, <3>1, <3>3, SMTT(30)
      <4> QED BY <1>8, <2>2, <3>1, <4>2, <4>3, <4>4
    <3> QED BY <3>2, <3>3
  <2> QED BY <2>1, <2>2
<1>10. n.head = (IF new = <<>> THEN NoPage ELSE new[1])
  <2>1. new # <<>>
    BY <1>1, <1>8
  <2>2. CASE old = <<>>
    BY <1>1, <1>2, <1>8, <2>1, <2>2
  <2>3. CASE old # <<>>
    <3>1. m.head = old[1]
      BY <1>1, <2>3 DEF Chained
    <3>2. 1 \in 1 .. N
      BY <1>1, <2>3
    <3> QED BY <1>2, <1>8, <2>1, <2>3, <3>1, <3>2
  <2> QED BY <2>2, <2>3
<1>11. Splices(s, P, m, Q, n, N + 1, 0, <<o>>, <<e.key>>)
  <2>1. Len(<<o>>) = 1 /\ <<o>>[1] = o /\ Len(<<e.key>>) = 1 /\ <<e.key>>[1] = e.key /\ 1 .. 1 = {1}
        /\ <<o>> \in Seq(1 .. s.pages)
    BY <1>3
  <2>2. FirstsOf(Q, <<o>>, <<e.key>>)
    <3> HIDE DEF o
    <3> QED BY <1>4, <2>1 DEF FirstsOf
  <2>3. NewGroups(s, Q, <<o>>, FreePages(P, m, n, N + 1, 0))
    <3>1. o \in FreePages(P, m, n, N + 1, 0)
      BY <1>1, <1>2 DEF FreePages
    <3> HIDE DEF o
    <3> QED BY <1>4, <1>5, <1>2, <2>1, <3>1 DEF NewGroups
  <2>4. Fits(P, old, Q, N + 1, <<o>>)
    <3>1. \A h \in 1 .. N : ~(h > N + 1)
      BY <1>1
    <3> HIDE DEF o
    <3> QED BY <1>2, <1>4, <2>1, <3>1 DEF Fits
  <2>5. n.count \in m.count .. s.pages
    BY <1>1, <1>2
  <2> HIDE DEF o, N
  <2> QED BY <1>2, <1>6, <1>7, <1>9, <1>10, <2>2, <2>3, <2>4, <2>5 DEF Splices, N
<1>12. Chained(s, Q, n.main, n.head, n.count) /\ Directory(Q, n)
  BY <1>11, SplicedChain
<1>13. /\ Cardinality(AllPlaces(Q, n.main)) = Cardinality(AllPlaces(P, m.main)) + 1
       /\ Cardinality(AllLiving(Q, n.main)) = Cardinality(AllLiving(P, m.main)) + 1
  <2>1. AllPlaces(Q, <<o>>) = {<<o, 1>>} /\ AllLiving(Q, <<o>>) = {<<o, 1>>}
    <3>1. DOMAIN <<o>> = {1} /\ <<o>>[1] = o
      OBVIOUS
    <3> HIDE DEF o
    <3> QED BY <1>5, <3>1 DEF AllPlaces, AllLiving
  <2>2. GonePlaces(P, m, N + 1, 0) = {} /\ GoneLiving(P, m, N + 1, 0) = {}
    BY DEF GonePlaces, GoneLiving
  <2>3. Cardinality({<<o, 1>>}) = 1 /\ Cardinality({}) = 0
    BY FS_Singleton, FS_EmptySet
  <2>4. /\ Cardinality(AllPlaces(Q, n.main)) =
             Cardinality(AllPlaces(P, m.main)) - Cardinality(GonePlaces(P, m, N + 1, 0)) + Cardinality(AllPlaces(Q, <<o>>))
        /\ Cardinality(AllLiving(Q, n.main)) =
             Cardinality(AllLiving(P, m.main)) - Cardinality(GoneLiving(P, m, N + 1, 0)) + Cardinality(AllLiving(Q, <<o>>))
    BY <1>11, SplicedCounts
  <2>5. Cardinality(AllPlaces(P, m.main)) \in Nat /\ Cardinality(AllLiving(P, m.main)) \in Nat
    <3>1. IsFiniteSet(AllPlaces(P, m.main)) /\ IsFiniteSet(AllLiving(P, m.main))
      BY SoundTypes
    <3> QED BY <3>1, FS_CardinalityType
  <2>6. /\ Cardinality(AllPlaces(Q, <<o>>)) = 1 /\ Cardinality(AllLiving(Q, <<o>>)) = 1
        /\ Cardinality(GonePlaces(P, m, N + 1, 0)) = 0 /\ Cardinality(GoneLiving(P, m, N + 1, 0)) = 0
    BY ONLY <2>1, <2>2, <2>3
  <2> QED BY ONLY <2>4, <2>5, <2>6
<1>14. m.live = Cardinality(AllLiving(P, m.main)) /\ m.live \in Nat /\ m.deleted \in Int
       /\ m.deleted = Cardinality(AllPlaces(P, m.main)) - Cardinality(AllLiving(P, m.main))
       /\ Cardinality(AllPlaces(P, m.main)) \in Nat
  <2>1. IsFiniteSet(AllPlaces(P, m.main)) /\ m.live \in Nat /\ m.deleted \in Int
    BY SoundTypes
  <2> QED BY <2>1, FS_CardinalityType DEF Sound
<1>15. /\ n.live = Cardinality(AllLiving(Q, n.main))
       /\ n.deleted = Cardinality(AllPlaces(Q, n.main)) - Cardinality(AllLiving(Q, n.main))
  BY <1>2, <1>13, <1>14
<1> QED BY <1>2, <1>5, <1>12, <1>15 DEF Sound

-------------------------------------------------------------------------------
LEMMA UpTo ==
    ASSUME NEW n \in Nat
    PROVE  IsFiniteSet(1 .. n) /\ Cardinality(1 .. n) = n
<1>1. 1 \in Int /\ n \in Int
  OBVIOUS
<1>2. IsFiniteSet(1 .. n) /\ Cardinality(1 .. n) = IF 1 > n THEN 0 ELSE n - 1 + 1
  BY ONLY <1>1, FS_Interval
<1> QED BY <1>2

(* What a group holds, read in the order of its pages.                        *)
IndexedBy(s, slots, P, p, f) ==
    /\ slots \in Seq(SlotsIn(s)) /\ f \in Bijection(1 .. Len(slots), PlacesOf(P, p))
    /\ \A i \in 1 .. Len(slots) : slots[i] = SlotAt(P, f[i])

LEMMA GroupIndexed ==
    ASSUME SoundSetup(setup), NEW d, NEW P, d.pages = P, P \in Images(setup), NEW p, Sane(setup, P, p)
    PROVE  \E f : IndexedBy(setup, SlotsOf(d, Group(d, p)), P, p, f)
<1> DEFINE own == P[p].slots
           o == P[p].overflow
           over == P[o].slots
           slots == SlotsOf(d, Group(d, p))
<1> USE DEF SoundSetup
<1>1. p \in 1 .. setup.pages /\ (o # NoPage => P[o].next = NoPage /\ o # p)
  BY DEF Sane
<1>2. /\ o = NoPage => slots = own
      /\ o # NoPage => slots = own \o over
  BY <1>1, GroupRead
<1>3. own \in Seq(SlotsIn(setup)) /\ Len(own) \in Nat /\ DOMAIN own = 1 .. Len(own)
  BY <1>1, PageTypes
<1>4. o # NoPage => over \in Seq(SlotsIn(setup)) /\ Len(over) \in Nat /\ DOMAIN over = 1 .. Len(over)
  <2>1. o \in 0 .. setup.pages
    BY <1>1, PageTypes
  <2> HIDE DEF o
  <2>2. o # NoPage => o \in 1 .. setup.pages
    BY <2>1 DEF NoPage
  <2> QED BY <2>2, PageTypes
<1>5. CASE o = NoPage
  <2> DEFINE f == [i \in 1 .. Len(own) |-> <<p, i>>]
             A == 1 .. Len(own)
             B == PlacesOf(P, p)
  <2>1. B = {<<p, i>> : i \in A}
    BY <1>3, <1>5 DEF PlacesOf, PagesOf
  <2>2. f \in [A -> B] /\ \A i \in A : f[i] = <<p, i>>
    BY <2>1
  <2> HIDE DEF f, B
  <2>3. f \in Bijection(A, B)
    BY <2>1, <2>2, SMTT(30) DEF Bijection, Injection, Surjection, IsInjective
  <2>4. \A i \in A : own[i] = SlotAt(P, f[i])
    BY <2>2 DEF SlotAt
  <2>5. IndexedBy(setup, own, P, p, f)
    BY <1>3, <2>3, <2>4 DEF IndexedBy, B
  <2> QED BY <1>2, <1>5, <2>5
<1>6. CASE o # NoPage
  <2> DEFINE n == Len(own)
             A == 1 .. n + Len(over)
             B == PlacesOf(P, p)
             at(i) == IF i <= n THEN <<p, i>> ELSE <<o, i - n>>
             f == [i \in A |-> at(i)]
             all == own \o over
  <2>1. B = {<<p, i>> : i \in 1 .. n} \cup {<<o, i>> : i \in 1 .. Len(over)}
    BY <1>3, <1>4, <1>6 DEF PlacesOf, PagesOf
  <2>2. all \in Seq(SlotsIn(setup)) /\ Len(all) = n + Len(over)
        /\ \A i \in A : all[i] = IF i <= n THEN own[i] ELSE over[i - n]
    <3> SUFFICES ASSUME NEW a, a = own, NEW b, b = over
                 PROVE  /\ a \o b \in Seq(SlotsIn(setup)) /\ Len(a \o b) = Len(a) + Len(b)
                        /\ \A i \in 1 .. Len(a) + Len(b) : (a \o b)[i] = IF i <= Len(a) THEN a[i] ELSE b[i - Len(a)]
      BY ZenonT(30)
    <3>1. a \in Seq(SlotsIn(setup)) /\ b \in Seq(SlotsIn(setup))
      BY <1>3, <1>4, <1>6
    <3> QED BY ONLY <3>1, ConcatProperties
  <2> HIDE DEF own, over, all, B
  <2>3. \A i \in A : at(i) \in B
    <3> SUFFICES ASSUME NEW i \in A PROVE at(i) \in B
      OBVIOUS
    <3>1. CASE i <= n
      <4>1. i \in 1 .. n
        BY <1>3, <1>4, <1>6, <3>1
      <4> QED BY <2>1, <3>1, <4>1
    <3>2. CASE ~(i <= n)
      <4>1. i - n \in 1 .. Len(over)
        BY <1>3, <1>4, <1>6, <3>2
      <4> QED BY <2>1, <3>2, <4>1
    <3> QED BY <3>1, <3>2
  <2>4. f \in [A -> B] /\ \A i \in A : f[i] = at(i)
    BY <2>3
  <2>5. \A i, j \in A : at(i) = at(j) => i = j
    BY <1>1, <1>3, <1>4, <1>6
  <2>6. \A y \in B : \E i \in A : at(i) = y
    <3> SUFFICES ASSUME NEW y \in B PROVE \E i \in A : at(i) = y
      OBVIOUS
    <3>1. ASSUME NEW i \in 1 .. n, y = <<p, i>> PROVE \E h \in A : at(h) = y
      <4>1. i \in A /\ at(i) = y
        BY <1>3, <1>4, <1>6, <3>1
      <4> QED BY <4>1
    <3>2. ASSUME NEW i \in 1 .. Len(over), y = <<o, i>> PROVE \E h \in A : at(h) = y
      <4>1. n + i \in A /\ ~(n + i <= n) /\ n + i - n = i
        BY <1>3, <1>4, <1>6
      <4>2. at(n + i) = y
        BY <3>2, <4>1
      <4> QED BY <4>1, <4>2
    <3> QED BY <2>1, <3>1, <3>2
  <2> HIDE DEF f
  <2>7. f \in Bijection(A, B)
    <3>1. \A i, j \in A : f[i] = f[j] => i = j
      BY <2>4, <2>5
    <3>2. \A y \in B : \E i \in A : f[i] = y
      BY <2>4, <2>6
    <3> HIDE DEF A
    <3> QED BY <2>4, <3>1, <3>2 DEF Bijection, Injection, Surjection, IsInjective
  <2>8. \A i \in A : all[i] = SlotAt(P, f[i])
    <3> SUFFICES ASSUME NEW i \in A PROVE all[i] = SlotAt(P, f[i])
      OBVIOUS
    <3>1. CASE i <= n
      <4>1. f[i] = <<p, i>> /\ all[i] = own[i]
        BY <2>2, <2>4, <3>1
      <4> QED BY <4>1 DEF SlotAt, own
    <3>2. CASE ~(i <= n)
      <4>1. f[i] = <<o, i - n>> /\ all[i] = over[i - n]
        BY <2>2, <2>4, <3>2
      <4> QED BY <4>1 DEF SlotAt, over
    <3> QED BY <3>1, <3>2
  <2>9. IndexedBy(setup, all, P, p, f)
    BY <2>2, <2>7, <2>8 DEF IndexedBy, B
  <2>10. slots = all
    BY <1>2, <1>6 DEF own, over, all
  <2> QED BY <2>9, <2>10
<1> QED BY <1>5, <1>6

LEMMA GroupCounted ==
    ASSUME NEW s, NEW P, NEW p, NEW slots, NEW f, IndexedBy(s, slots, P, p, f)
    PROVE  /\ IsFiniteSet(PlacesOf(P, p)) /\ Len(slots) = Cardinality(PlacesOf(P, p)) /\ DOMAIN slots = 1 .. Len(slots)
           /\ IsFiniteSet(Living(P, p)) /\ Cardinality(LiveAt(slots)) = Cardinality(Living(P, p))
           /\ {slot \in ToSet(slots) : slot.live} = {SlotAt(P, x) : x \in Living(P, p)}
<1> DEFINE A == 1 .. Len(slots)
           B == PlacesOf(P, p)
<1>1. slots \in Seq(SlotsIn(s)) /\ f \in Bijection(A, B) /\ \A i \in A : slots[i] = SlotAt(P, f[i])
  BY DEF IndexedBy
<1>2. Len(slots) \in Nat /\ DOMAIN slots = A
  BY <1>1, LenProperties
<1>3. /\ f \in [A -> B] /\ \A i, j \in A : f[i] = f[j] => i = j
      /\ \A y \in B : \E i \in A : f[i] = y
  <2> HIDE DEF A, B
  <2> QED BY <1>1 DEF Bijection, Injection, Surjection, IsInjective
<1>4. IsFiniteSet(A) /\ Cardinality(A) = Len(slots)
  <2>1. 1 \in Int /\ Len(slots) \in Int
    BY <1>2
  <2>2. IsFiniteSet(A) /\ Cardinality(A) = IF 1 > Len(slots) THEN 0 ELSE Len(slots) - 1 + 1
    BY ONLY <2>1, FS_Interval
  <2> QED BY <1>2, <2>2
<1>5. IsFiniteSet(B) /\ Cardinality(B) = Len(slots)
  <2> HIDE DEF A, B
  <2> QED BY <1>1, <1>4, FS_Bijection DEF ExistsBijection
<1> DEFINE C == LiveAt(slots)
           D == Living(P, p)
           h == [i \in C |-> f[i]]
<1>6. C \subseteq A /\ D \subseteq B /\ \A i \in A : i \in C <=> f[i] \in D
  BY <1>1, <1>2, <1>3 DEF LiveAt, Living
<1>7. h \in Bijection(C, D)
  <2> HIDE DEF A, B, C, D
  <2>1. h \in [C -> D] /\ \A i \in C : h[i] = f[i]
    BY <1>6
  <2>2. \A y \in D : \E i \in C : f[i] = y
    BY <1>3, <1>6
  <2> HIDE DEF h
  <2>3. \A i, j \in C : h[i] = h[j] => i = j
    BY <1>3, <1>6, <2>1
  <2>4. \A y \in D : \E i \in C : h[i] = y
    BY <2>1, <2>2
  <2> QED BY <2>1, <2>3, <2>4 DEF Bijection, Injection, Surjection, IsInjective
<1>8. IsFiniteSet(C) /\ IsFiniteSet(D)
  <2> HIDE DEF A, B, C, D
  <2> QED BY <1>4, <1>5, <1>6, FS_Subset
<1>9. Cardinality(C) = Cardinality(D)
  <2> HIDE DEF A, B, C, D, h
  <2> QED BY <1>7, <1>8, FS_Bijection DEF ExistsBijection
<1>10. {slot \in ToSet(slots) : slot.live} = {SlotAt(P, x) : x \in D}
  <2>1. ToSet(slots) = {slots[i] : i \in A}
    BY <1>2 DEF ToSet
  <2>2. \A i \in A : slots[i].live => f[i] \in D
    BY <1>1, <1>3 DEF Living
  <2>3. \A y \in D : \E i \in A : f[i] = y /\ slots[i].live
    BY <1>1, <1>3 DEF Living
  <2> HIDE DEF A, B, C, D
  <2>4. \A slot \in ToSet(slots) : slot.live => slot \in {SlotAt(P, x) : x \in D}
    BY <1>1, <2>1, <2>2
  <2>5. \A y \in D : SlotAt(P, y) \in ToSet(slots) /\ SlotAt(P, y).live
    BY <1>1, <2>1, <2>3
  <2> QED BY <2>4, <2>5
<1> QED BY <1>2, <1>5, <1>8, <1>9, <1>10

(* The live rows of a file: one with a key, whatever the group. *)
LiveSlots(P, main) == {SlotAt(P, x) : x \in AllLiving(P, main)}

InRanges(s, P, main) ==
    /\ main \in Seq(1 .. s.pages) /\ IsFiniteSet(AllLiving(P, main))
    /\ \A g \in 1 .. Len(main) : Sane(s, P, main[g])
    /\ \A g, h \in 1 .. Len(main) :
          g < h => \A k \in KeysOf(P, main[g]), l \in KeysOf(P, main[h]) : k < l

LEMMA RangesDistinct ==
    ASSUME NEW s, SoundSetup(s), NEW P \in Images(s), NEW main, InRanges(s, P, main)
    PROVE  /\ DistinctKeys(LiveSlots(P, main)) /\ Cardinality(LiveSlots(P, main)) = Cardinality(AllLiving(P, main))
           /\ LiveSlots(P, main) \subseteq SlotsIn(s)
           /\ \A x, y \in AllLiving(P, main) : SlotAt(P, x).key = SlotAt(P, y).key => x = y
<1> DEFINE N == Len(main)
           A == AllLiving(P, main)
           B == LiveSlots(P, main)
<1> USE DEF SoundSetup
<1>1. /\ N \in Nat /\ DOMAIN main = 1 .. N
      /\ \A g \in 1 .. N : main[g] \in 1 .. s.pages /\ Sane(s, P, main[g])
  <2>1. main \in Seq(1 .. s.pages)
    BY DEF InRanges
  <2> QED BY <2>1, LenProperties, ElementOfSeq DEF InRanges
<1>2. ASSUME NEW g \in 1 .. N, NEW x \in Living(P, main[g])
      PROVE  SlotAt(P, x) \in SlotsIn(s) /\ SlotAt(P, x).key \in KeysOf(P, main[g]) /\ SlotAt(P, x).key \in Int
  <2>1. x \in PlacesOf(P, main[g])
    BY DEF Living
  <2>2. SlotAt(P, x) \in SlotsIn(s)
    BY <1>1, <2>1, PlaceTypes
  <2>3. SlotAt(P, x).key \in KeysOf(P, main[g])
    BY <2>1 DEF KeysOf
  <2> QED BY <2>2, <2>3 DEF SlotsIn
<1>3. ASSUME NEW g \in 1 .. N, NEW x \in Living(P, main[g]), NEW h \in 1 .. N, NEW y \in Living(P, main[h]), g < h
      PROVE  SlotAt(P, x).key < SlotAt(P, y).key
  BY <1>2, <1>3 DEF InRanges
<1>4. ASSUME NEW x \in A, NEW y \in A, SlotAt(P, x).key = SlotAt(P, y).key PROVE x = y
  <2>1. PICK g \in 1 .. N : x \in Living(P, main[g])
    BY <1>1 DEF AllLiving
  <2>2. PICK h \in 1 .. N : y \in Living(P, main[h])
    BY <1>1 DEF AllLiving
  <2>3. SlotAt(P, x).key \in Int
    BY <1>2, <2>1
  <2>4. CASE g < h
    <3>1. SlotAt(P, x).key < SlotAt(P, y).key
      BY <1>3, <2>1, <2>2, <2>4
    <3> QED BY <1>4, <2>3, <3>1
  <2>5. CASE h < g
    <3>1. SlotAt(P, y).key < SlotAt(P, x).key
      BY <1>3, <2>1, <2>2, <2>5
    <3> QED BY <1>4, <2>3, <3>1
  <2>6. CASE g = h
    <3>1. OneEach(P, main[g])
      BY <1>1 DEF Sane
    <3> QED BY <1>4, <2>1, <2>2, <2>6, <3>1 DEF OneEach
  <2>7. g < h \/ h < g \/ g = h
    BY <1>1
  <2> QED BY <2>4, <2>5, <2>6, <2>7
<1>5. ASSUME NEW x \in A PROVE SlotAt(P, x) \in SlotsIn(s) /\ SlotAt(P, x).key \in Int
  <2>1. PICK g \in 1 .. N : x \in Living(P, main[g])
    BY <1>1 DEF AllLiving
  <2> QED BY <1>2, <2>1
<1>6. IsFiniteSet(A)
  BY DEF InRanges
<1> DEFINE f == [x \in A |-> SlotAt(P, x)]
<1>7. B = {SlotAt(P, x) : x \in A}
  BY DEF LiveSlots
<1> HIDE DEF A, B
<1>8. f \in Bijection(A, B)
  <2>1. f \in [A -> B] /\ \A x \in A : f[x] = SlotAt(P, x)
    BY <1>7
  <2> HIDE DEF f
  <2>2. \A x, y \in A : f[x] = f[y] => x = y
    BY <1>4, <2>1
  <2>3. \A b \in B : \E x \in A : f[x] = b
    BY <1>7, <2>1
  <2> QED BY <2>1, <2>2, <2>3 DEF Bijection, Injection, Surjection, IsInjective
<1>9. IsFiniteSet(B) /\ Cardinality(B) = Cardinality(A)
  <2> HIDE DEF f
  <2> QED BY <1>6, <1>8, FS_Bijection DEF ExistsBijection
<1>10. DistinctKeys(B)
  <2>1. HasKeys(B)
    BY <1>5, <1>7 DEF HasKeys
  <2>2. \A a, b \in B : a.key = b.key => a = b
    BY <1>4, <1>7
  <2> QED BY <1>9, <2>1, <2>2 DEF DistinctKeys
<1>11. B \subseteq SlotsIn(s)
  BY <1>5, <1>7
<1> QED BY <1>4, <1>9, <1>10, <1>11 DEF A, B

LEMMA LivingSlots ==
    ASSUME NEW s, SoundSetup(s), NEW P \in Images(s), NEW main, NEW head, NEW count, Chained(s, P, main, head, count)
    PROVE  /\ DistinctKeys(LiveSlots(P, main)) /\ Cardinality(LiveSlots(P, main)) = Cardinality(AllLiving(P, main))
           /\ LiveSlots(P, main) \subseteq SlotsIn(s)
           /\ \A x, y \in AllLiving(P, main) : SlotAt(P, x).key = SlotAt(P, y).key => x = y
<1>1. InRanges(s, P, main)
  <2>1. /\ Len(main) \in Nat /\ DOMAIN main = 1 .. Len(main)
        /\ \A g \in 1 .. Len(main) : /\ Sane(s, P, main[g]) /\ FirstOf(P, main[g]) \in Int
                                     /\ KeysOf(P, main[g]) \subseteq Int
    BY ChainTypes DEF SoundSetup
  <2>2. main \in Seq(1 .. s.pages)
    BY DEF Chained
  <2>3. IsFiniteSet(AllLiving(P, main))
    BY ChainFinite
  <2>4. ASSUME NEW g \in 1 .. Len(main), NEW h \in 1 .. Len(main), g < h,
               NEW k \in KeysOf(P, main[g]), NEW l \in KeysOf(P, main[h])
        PROVE  k < l
    <3>1. k < FirstOf(P, main[h])
      BY <2>1, <2>4 DEF Chained
    <3>2. FirstOf(P, main[h]) <= l
      <4>1. h # 1
        BY <2>1, <2>4
      <4> QED BY <2>1, <4>1 DEF Chained
    <3>3. k \in Int /\ l \in Int /\ FirstOf(P, main[h]) \in Int
      BY <2>1
    <3> QED BY <3>1, <3>2, <3>3
  <2> QED BY <2>1, <2>2, <2>3, <2>4 DEF InRanges
<1> QED BY <1>1, RangesDistinct

(* The rows of the new groups of a split or a rewrite. *)
LEMMA NewRows ==
    ASSUME NEW s, SoundSetup(s), NEW Q \in Images(s), NEW mid, NEW pages, NewGroups(s, Q, mid, pages),
           IsFiniteSet(AllLiving(Q, mid))
    PROVE  Cardinality(LiveSlots(Q, mid)) = Cardinality(AllLiving(Q, mid))
<1>1. InRanges(s, Q, mid)
  <2>1. mid \in Seq(1 .. s.pages) /\ \A i \in 1 .. Len(mid) : Sane(s, Q, mid[i]) /\ mid[i] \in 1 .. s.pages
    BY ElementOfSeq DEF NewGroups
  <2>2. ASSUME NEW g \in 1 .. Len(mid), NEW h \in 1 .. Len(mid), g < h,
               NEW k \in KeysOf(Q, mid[g]), NEW l \in KeysOf(Q, mid[h])
        PROVE  k < l
    <3>1. k < FirstOf(Q, mid[h])
      BY <2>2 DEF NewGroups, Precedes
    <3>2. FirstOf(Q, mid[h]) <= l
      BY DEF NewGroups
    <3>3. KeysOf(Q, mid[g]) \subseteq Int /\ KeysOf(Q, mid[h]) \subseteq Int /\ FirstOf(Q, mid[h]) \in Int
      <4>1. KeysOf(Q, mid[g]) \subseteq s.keys /\ KeysOf(Q, mid[h]) \subseteq s.keys
        BY <2>1, PlaceTypes DEF SoundSetup
      <4>2. FirstOf(Q, mid[h]) \in KeysOf(Q, mid[h])
        <5> DEFINE p == mid[h]
        <5>1. p \in 1 .. s.pages /\ Sane(s, Q, p)
          BY <2>1
        <5> HIDE DEF p
        <5>2. 1 \in DOMAIN Q[p].slots
          <6>1. Q[p].slots \in Seq(SlotsIn(s)) /\ Q[p].slots # <<>>
            BY <5>1, PageTypes DEF Sane
          <6> QED BY <6>1
        <5>3. <<p, 1>> \in PlacesOf(Q, p) /\ SlotAt(Q, <<p, 1>>).key = FirstOf(Q, p)
          BY <5>2 DEF PlacesOf, PagesOf, SlotAt, FirstOf
        <5>4. FirstOf(Q, p) \in KeysOf(Q, p)
          BY <5>3 DEF KeysOf
        <5> QED BY <5>4 DEF p
      <4> QED BY <4>1, <4>2 DEF SoundSetup
    <3> QED BY <3>1, <3>2, <3>3
  <2> QED BY <2>1, <2>2 DEF InRanges
<1> QED BY <1>1, RangesDistinct

-------------------------------------------------------------------------------
(* Rows in pages of z, as a split and a rewrite write them.                   *)
Quotient(n, L, z) == n \in Nat /\ n * z >= L /\ (n = 0 => L = 0) /\ (n >= 1 => n * z < L + z)

LEMMA PagesNeeded ==
    ASSUME NEW L \in Nat, NEW z \in Nat, z >= 1
    PROVE  Quotient((L + z - 1) \div z, L, z) /\ (L + z - 1) \div z <= L
<1> DEFINE n == (L + z - 1) \div z
<1>1. L + z - 1 \in Nat
  OBVIOUS
<1>2. n \in Nat /\ n * z <= L + z - 1 /\ L + z - 1 < n * z + z
  <2> SUFFICES ASSUME NEW a \in Nat PROVE a \div z \in Nat /\ (a \div z) * z <= a /\ a < (a \div z) * z + z
    BY <1>1
  <2> QED OBVIOUS
<1> HIDE DEF n
<1>3. n * z \in Nat
  BY <1>2
<1> DEFINE t == n * z
<1>4. n = 0 => t = 0
  BY <1>2
<1>5. t >= L /\ (n = 0 => L = 0) /\ t < L + z
  BY <1>2, <1>3, <1>4
<1>6. n <= L
  <2>1. CASE n > L
    <3>1. (L + 1) * z <= t
      BY <1>2, <2>1
    <3>2. (L + 1) * z = L * z + z
      OBVIOUS
    <3>3. L * z >= L
      OBVIOUS
    <3> HIDE DEF t
    <3>4. L * z \in Nat
      OBVIOUS
    <3> QED BY <1>2, <1>3, <1>5, <3>1, <3>2, <3>3, <3>4
  <2> QED BY <1>2, <2>1
<1> QED BY <1>2, <1>5, <1>6 DEF Quotient, n

LEMMA TimesGrows ==
    ASSUME NEW i \in Nat, NEW j \in Nat, NEW z \in Nat, i <= j
    PROVE  i * z <= j * z
  OBVIOUS

LEMMA ChunkAt ==
    ASSUME NEW T, NEW rows \in Seq(T), NEW z \in Nat, z >= 1, NEW n, Quotient(n, Len(rows), z), NEW i \in 1 .. n
    PROVE  /\ Chunk(rows, i, z) \in Seq(T) /\ Len(Chunk(rows, i, z)) \in 1 .. z
           /\ (i - 1) * z \in Nat /\ (i - 1) * z + z = i * z
           /\ Len(Chunk(rows, i, z)) = (IF i * z <= Len(rows) THEN z ELSE Len(rows) - (i - 1) * z)
           /\ \A j \in 1 .. Len(Chunk(rows, i, z)) :
                 (i - 1) * z + j \in 1 .. Len(rows) /\ Chunk(rows, i, z)[j] = rows[(i - 1) * z + j]
<1> DEFINE L == Len(rows)
           b == (i - 1) * z
           e == Min({i * z, L})
           c == Chunk(rows, i, z)
<1>1. L \in Nat /\ \A h \in 1 .. L : rows[h] \in T
  BY LenProperties, ElementOfSeq
<1>2. n \in Nat /\ i \in Nat /\ i >= 1 /\ i <= n /\ n * z < L + z
  BY DEF Quotient
<1>3. b \in Nat /\ b + z = i * z
  BY <1>2
<1>4. i * z <= n * z
  BY <1>2
<1>5. n * z \in Nat /\ i * z \in Nat
  BY <1>2
<1>6. b < L
  <2> HIDE DEF b, L
  <2> QED BY <1>1, <1>2, <1>3, <1>4, <1>5
<1>7. e = IF i * z <= L THEN i * z ELSE L
  <2> DEFINE t == i * z
  <2>1. t \in Nat
    BY <1>5
  <2> HIDE DEF t, L
  <2>2. \A x : x = (IF t <= L THEN t ELSE L) <=> x \in {t, L} /\ \A y \in {t, L} : x <= y
    BY <1>1, <2>1
  <2>3. Min({t, L}) = IF t <= L THEN t ELSE L
    BY <2>2 DEF Min
  <2> QED BY <2>3 DEF t, L
<1>8. e \in Nat /\ e <= L /\ b < e /\ e - b = (IF i * z <= L THEN z ELSE L - b) /\ e - b \in 1 .. z
  <2> HIDE DEF b, L, e
  <2> QED BY <1>1, <1>3, <1>5, <1>6, <1>7
<1>9. c = SubSeq(rows, b + 1, e)
  BY DEF Chunk
<1>10. /\ c \in Seq(T) /\ Len(c) = e - b
       /\ \A j \in 1 .. e - b : c[j] = rows[b + 1 + j - 1]
  <2> HIDE DEF b, e, L
  <2>1. b + 1 \in Int /\ e \in Int /\ \A h \in b + 1 .. e : rows[h] \in T
    BY <1>1, <1>3, <1>8
  <2> DEFINE m == b + 1
  <2> HIDE DEF m
  <2>2. /\ SubSeq(rows, m, e) \in Seq(T)
        /\ Len(SubSeq(rows, m, e)) = IF m <= e THEN e - m + 1 ELSE 0
        /\ \A j \in 1 .. e - m + 1 : SubSeq(rows, m, e)[j] = rows[m + j - 1]
    <3>1. m \in Int /\ e \in Int /\ \A h \in m .. e : rows[h] \in T
      BY <2>1 DEF m
    <3> QED BY ONLY <3>1, SubSeqProperties
  <2>3. m <= e /\ e - m + 1 = e - b /\ m = b + 1
    BY <1>3, <1>8 DEF m
  <2> HIDE DEF c
  <2>4. c = SubSeq(rows, m, e)
    BY <1>9 DEF m
  <2>5. Len(c) = e - b /\ c \in Seq(T)
    BY <2>2, <2>3, <2>4
  <2>6. \A j \in 1 .. e - b : c[j] = rows[m + j - 1]
    BY <2>2, <2>3, <2>4
  <2> QED BY <2>3, <2>5, <2>6
<1>11. \A j \in 1 .. Len(c) : b + j \in 1 .. L /\ c[j] = rows[b + j]
  <2> SUFFICES ASSUME NEW j \in 1 .. Len(c) PROVE b + j \in 1 .. L /\ c[j] = rows[b + j]
    OBVIOUS
  <2> HIDE DEF b, e, L, c
  <2>1. L \in Nat /\ b \in Nat /\ e \in Nat /\ e <= L /\ b < e /\ Len(c) = e - b
    BY <1>1, <1>3, <1>8, <1>10
  <2>2. j \in 1 .. e - b /\ b + 1 + j - 1 = b + j /\ b + j \in 1 .. L
    BY ONLY <2>1, j \in 1 .. Len(c)
  <2> QED BY <1>10, <2>2
<1> HIDE DEF b, e, c
<1>12. Len(c) \in 1 .. z /\ Len(c) = (IF i * z <= L THEN z ELSE L - b)
  BY <1>8, <1>10
<1> QED BY <1>3, <1>10, <1>11, <1>12 DEF b, c

(* Every row is in a chunk. *)
LEMMA RowInChunk ==
    ASSUME NEW T, NEW rows \in Seq(T), NEW z \in Nat, z >= 1, NEW n, Quotient(n, Len(rows), z), NEW h \in 1 .. Len(rows)
    PROVE  \E i \in 1 .. n : \E j \in 1 .. Len(Chunk(rows, i, z)) : Chunk(rows, i, z)[j] = rows[h]
<1> DEFINE L == Len(rows)
           i == (h - 1) \div z + 1
           j == h - (i - 1) * z
<1>1. L \in Nat /\ n \in Nat /\ n * z >= L /\ h \in Nat /\ h >= 1 /\ h <= L
  BY LenProperties DEF Quotient
<1>2. i \in Nat /\ i >= 1 /\ (i - 1) * z <= h - 1 /\ h - 1 < (i - 1) * z + z
  <2>1. h - 1 \in Nat
    BY <1>1
  <2> SUFFICES ASSUME NEW a \in Nat, a = h - 1
               PROVE  a \div z + 1 \in Nat /\ a \div z + 1 >= 1 /\ (a \div z + 1 - 1) * z <= a
                      /\ a < (a \div z + 1 - 1) * z + z
    BY <2>1
  <2>2. a \div z \in Nat /\ (a \div z) * z <= a /\ a < (a \div z) * z + z
    BY ONLY a \in Nat, z \in Nat, z >= 1
  <2> DEFINE q == a \div z
  <2>3. q + 1 - 1 = q
    BY <2>2
  <2> HIDE DEF q
  <2>4. q \in Nat /\ q * z <= a /\ a < q * z + z
    BY <2>2 DEF q
  <2> QED BY <2>3, <2>4 DEF q
<1> HIDE DEF i
<1>3. (i - 1) * z \in Nat /\ (i - 1) * z + z = i * z /\ i * z \in Nat
  BY <1>2
<1>4. j \in 1 .. z
  <2> DEFINE t == (i - 1) * z
  <2> HIDE DEF t
  <2> QED BY <1>1, <1>2, <1>3 DEF t
<1>5. i <= n
  <2>1. CASE i > n
    <3>1. n <= i - 1
      BY <1>1, <1>2, <2>1
    <3>2. n * z <= (i - 1) * z
      BY <1>1, <1>2, <3>1
    <3> DEFINE t == (i - 1) * z
               u == n * z
    <3>3. t \in Nat /\ u <= t /\ t <= h - 1 /\ u >= L /\ u \in Nat
      BY <1>1, <1>2, <1>3, <3>2
    <3> HIDE DEF t, u, L
    <3> QED BY <1>1, <3>3
  <2> QED BY <1>1, <1>2, <2>1
<1>6. i \in 1 .. n
  BY <1>1, <1>2, <1>5
<1>7. /\ Len(Chunk(rows, i, z)) = (IF i * z <= L THEN z ELSE L - (i - 1) * z)
      /\ \A k \in 1 .. Len(Chunk(rows, i, z)) :
            (i - 1) * z + k \in 1 .. L /\ Chunk(rows, i, z)[k] = rows[(i - 1) * z + k]
  BY <1>6, ChunkAt
<1>8. j \in 1 .. Len(Chunk(rows, i, z)) /\ (i - 1) * z + j = h
  <2> DEFINE t == (i - 1) * z
             w == i * z
  <2>1. t \in Nat /\ w \in Nat /\ t + z = w /\ j = h - t /\ j \in 1 .. z
        /\ Len(Chunk(rows, i, z)) = (IF w <= L THEN z ELSE L - t)
    BY <1>3, <1>4, <1>7
  <2> HIDE DEF t, w, j, L
  <2>2. j \in 1 .. Len(Chunk(rows, i, z)) /\ t + j = h
    BY <1>1, <2>1
  <2> QED BY <2>2 DEF t
<1> HIDE DEF j
<1> QED BY <1>6, <1>7, <1>8

(* The pages of the rows, each its own page. *)
IsChunked(s, Q, ids, rows, z) ==
    /\ z \in Nat /\ z >= 1 /\ z <= s.slots /\ rows \in Seq(SlotsIn(s))
    /\ \A i, j \in 1 .. Len(rows) : i < j => rows[i].key < rows[j].key
    /\ \A i \in 1 .. Len(rows) : rows[i].live
    /\ ids \in Seq(1 .. s.pages) /\ Quotient(Len(ids), Len(rows), z)
    /\ \A i, j \in 1 .. Len(ids) : ids[i] = ids[j] => i = j
    /\ \A i \in 1 .. Len(ids) : Q[ids[i]].slots = Chunk(rows, i, z) /\ Q[ids[i]].overflow = NoPage

RowsIn(rows) == {rows[h] : h \in 1 .. Len(rows)}

LEMMA ChunkedGroups ==
    ASSUME NEW s, SoundSetup(s), NEW Q \in Images(s), NEW ids, NEW rows, NEW z, IsChunked(s, Q, ids, rows, z)
    PROVE  /\ \A pages : (\A i \in 1 .. Len(ids) : ids[i] \in pages) => NewGroups(s, Q, ids, pages)
           /\ AllPlaces(Q, ids) = AllLiving(Q, ids)
           /\ LiveSlots(Q, ids) = RowsIn(rows)
           /\ \A i \in 1 .. Len(ids) : \A key \in KeysOf(Q, ids[i]) : \E h \in 1 .. Len(rows) : key = rows[h].key
           /\ \A i \in 1 .. Len(ids) : \E h \in 1 .. Len(rows) : FirstOf(Q, ids[i]) = rows[h].key
           /\ Len(ids) # 0 => FirstOf(Q, ids[1]) = rows[1].key
<1> DEFINE L == Len(rows)
           n == Len(ids)
           c(i) == Chunk(rows, i, z)
<1> USE DEF SoundSetup
<1>1. /\ z \in Nat /\ z >= 1 /\ z <= s.slots /\ rows \in Seq(SlotsIn(s))
      /\ \A i, j \in 1 .. L : i < j => rows[i].key < rows[j].key
      /\ \A i \in 1 .. L : rows[i].live
      /\ ids \in Seq(1 .. s.pages) /\ Quotient(n, L, z)
      /\ \A i, j \in 1 .. n : ids[i] = ids[j] => i = j
      /\ \A i \in 1 .. n : Q[ids[i]].slots = c(i) /\ Q[ids[i]].overflow = NoPage
  BY DEF IsChunked
<1>2. L \in Nat /\ n \in Nat /\ DOMAIN ids = 1 .. n /\ \A i \in 1 .. n : ids[i] \in 1 .. s.pages
  BY <1>1, LenProperties, ElementOfSeq
<1>3. \A h \in 1 .. L : rows[h].key \in Int /\ rows[h] \in SlotsIn(s)
  <2>1. \A h \in 1 .. L : rows[h] \in SlotsIn(s)
    BY <1>1, ElementOfSeq
  <2> QED BY <2>1 DEF SlotsIn
<1>4. ASSUME NEW i \in 1 .. n
      PROVE  /\ c(i) \in Seq(SlotsIn(s)) /\ Len(c(i)) \in 1 .. z /\ Len(c(i)) \in Nat
             /\ (i - 1) * z \in Nat /\ (i - 1) * z + z = i * z
             /\ \A j \in 1 .. Len(c(i)) : (i - 1) * z + j \in 1 .. L /\ c(i)[j] = rows[(i - 1) * z + j]
  BY <1>1, ChunkAt
<1>5. ASSUME NEW i \in 1 .. n PROVE IsPlain(s, Q, ids[i])
  <2> DEFINE t == (i - 1) * z
             w == c(i)
  <2>1. /\ w \in Seq(SlotsIn(s)) /\ Len(w) \in 1 .. z /\ Len(w) \in Nat /\ t \in Nat
        /\ \A j \in 1 .. Len(w) : t + j \in 1 .. L /\ w[j] = rows[t + j]
    BY <1>4
  <2>2. Q[ids[i]].slots = w /\ Q[ids[i]].overflow = NoPage
    BY <1>1
  <2> HIDE DEF w, t, L, n
  <2>3. w # <<>>
    <3>1. Len(w) # 0
      BY <2>1
    <3> QED BY <3>1
  <2>4. \A j, k \in 1 .. Len(w) : j < k => w[j].key < w[k].key
    <3> SUFFICES ASSUME NEW j \in 1 .. Len(w), NEW k \in 1 .. Len(w), j < k PROVE w[j].key < w[k].key
      OBVIOUS
    <3>1. t + j < t + k
      BY <2>1
    <3> QED BY <1>1, <2>1, <3>1
  <2>5. \A j \in 1 .. Len(w) : w[j].live
    BY <1>1, <2>1
  <2>6. Len(w) <= s.slots
    BY <1>1, <2>1
  <2> QED BY <1>2, <2>2, <2>3, <2>4, <2>5, <2>6 DEF IsPlain
<1>6. ASSUME NEW i \in 1 .. n
      PROVE  /\ Sane(s, Q, ids[i]) /\ PagesOf(Q, ids[i]) = {ids[i]}
             /\ PlacesOf(Q, ids[i]) = {<<ids[i], j>> : j \in 1 .. Len(c(i))} /\ Living(Q, ids[i]) = PlacesOf(Q, ids[i])
             /\ KeysOf(Q, ids[i]) = {c(i)[j].key : j \in 1 .. Len(c(i))}
             /\ \A key \in KeysOf(Q, ids[i]) : FirstOf(Q, ids[i]) <= key
             /\ FirstOf(Q, ids[i]) = c(i)[1].key /\ 1 \in 1 .. Len(c(i))
  <2>1. Q[ids[i]].slots = c(i)
    BY <1>1
  <2>2. /\ Sane(s, Q, ids[i]) /\ PagesOf(Q, ids[i]) = {ids[i]}
        /\ PlacesOf(Q, ids[i]) = {<<ids[i], j>> : j \in 1 .. Len(Q[ids[i]].slots)} /\ Living(Q, ids[i]) = PlacesOf(Q, ids[i])
        /\ KeysOf(Q, ids[i]) = {Q[ids[i]].slots[j].key : j \in 1 .. Len(Q[ids[i]].slots)}
        /\ \A key \in KeysOf(Q, ids[i]) : FirstOf(Q, ids[i]) <= key
    BY <1>5, PlainPage
  <2>3. 1 \in 1 .. Len(c(i))
    <3> HIDE DEF c
    <3> QED BY <1>4
  <2>4. FirstOf(Q, ids[i]) = c(i)[1].key
    BY <2>1 DEF FirstOf
  <2> HIDE DEF c
  <2> QED BY <2>1, <2>2, <2>3, <2>4
<1>7. ASSUME NEW i \in 1 .. n, NEW j \in 1 .. n, i < j PROVE Precedes(Q, ids[i], ids[j])
  <2>1. PagesOf(Q, ids[i]) \cap PagesOf(Q, ids[j]) = {}
    BY <1>1, <1>2, <1>6, <1>7
  <2>2. ASSUME NEW a \in 1 .. Len(c(i)) PROVE c(i)[a].key < c(j)[1].key
    <3> DEFINE t == (i - 1) * z
               u == (j - 1) * z
    <3>1. t + z <= u
      <4>1. i <= j - 1 /\ i \in Nat /\ j - 1 \in Nat
        BY <1>2, <1>7
      <4>2. z \in Nat
        BY <1>1
      <4>3. i * z <= (j - 1) * z
        BY ONLY <4>1, <4>2, TimesGrows
      <4>4. t + z = i * z
        BY <1>4
      <4> QED BY <4>3, <4>4
    <3>2. /\ t \in Nat /\ u \in Nat /\ Len(c(i)) \in 1 .. z
          /\ t + a \in 1 .. L /\ c(i)[a] = rows[t + a] /\ u + 1 \in 1 .. L /\ c(j)[1] = rows[u + 1]
      BY <1>4, <1>6
    <3> HIDE DEF t, u, c, L
    <3> DEFINE w == c(i)
    <3>3. t \in Nat /\ u \in Nat /\ Len(w) \in 1 .. z /\ z \in Nat /\ a \in 1 .. Len(w)
      BY <1>1, <3>2
    <3> HIDE DEF w
    <3>4. t + a < u + 1
      BY ONLY <3>1, <3>3
    <3>5. t + a \in 1 .. L /\ u + 1 \in 1 .. L /\ c(i)[a] = rows[t + a] /\ c(j)[1] = rows[u + 1]
      BY <3>2
    <3> QED BY <1>1, <3>4, <3>5
  <2>3. KeysOf(Q, ids[i]) = {c(i)[a].key : a \in 1 .. Len(c(i))} /\ FirstOf(Q, ids[j]) = c(j)[1].key
    BY <1>6
  <2> HIDE DEF c
  <2> QED BY <2>1, <2>2, <2>3 DEF Precedes
<1>8. ASSUME NEW pages, \A i \in 1 .. n : ids[i] \in pages PROVE NewGroups(s, Q, ids, pages)
  BY <1>1, <1>6, <1>7, <1>8 DEF NewGroups
<1>9. AllPlaces(Q, ids) = AllLiving(Q, ids)
  BY <1>2, <1>6 DEF AllPlaces, AllLiving
<1>10. ASSUME NEW i \in 1 .. n, NEW j \in 1 .. Len(c(i))
       PROVE  /\ SlotAt(Q, <<ids[i], j>>) = c(i)[j] /\ <<ids[i], j>> \in AllPlaces(Q, ids)
              /\ \E h \in 1 .. L : c(i)[j] = rows[h]
  <2>1. SlotAt(Q, <<ids[i], j>>) = c(i)[j]
    BY <1>1 DEF SlotAt
  <2>2. <<ids[i], j>> \in AllPlaces(Q, ids)
    BY <1>2, <1>6, SMTT(60) DEF AllPlaces
  <2> QED BY <1>4, <2>1, <2>2
<1>11. {SlotAt(Q, x) : x \in AllPlaces(Q, ids)} = {rows[h] : h \in 1 .. L}
  <2>1. ASSUME NEW x \in AllPlaces(Q, ids) PROVE \E h \in 1 .. L : SlotAt(Q, x) = rows[h]
    <3>1. PICK i \in 1 .. n : x \in PlacesOf(Q, ids[i])
      BY <1>2 DEF AllPlaces
    <3>2. PICK j \in 1 .. Len(c(i)) : x = <<ids[i], j>>
      BY <1>6, <3>1
    <3> HIDE DEF c
    <3> QED BY <1>10, <3>2
  <2>2. ASSUME NEW h \in 1 .. L PROVE \E x \in AllPlaces(Q, ids) : SlotAt(Q, x) = rows[h]
    <3>1. PICK i \in 1 .. n : \E j \in 1 .. Len(c(i)) : c(i)[j] = rows[h]
      BY <1>1, RowInChunk
    <3>2. PICK j \in 1 .. Len(c(i)) : c(i)[j] = rows[h]
      BY <3>1
    <3> HIDE DEF c
    <3> QED BY <1>10, <3>2
  <2> QED BY <2>1, <2>2
<1>12. \A i \in 1 .. n : \A key \in KeysOf(Q, ids[i]) : \E h \in 1 .. L : key = rows[h].key
  <2> SUFFICES ASSUME NEW i \in 1 .. n PROVE \A key \in KeysOf(Q, ids[i]) : \E h \in 1 .. L : key = rows[h].key
    OBVIOUS
  <2>1. \A j \in 1 .. Len(c(i)) : \E h \in 1 .. L : c(i)[j] = rows[h]
    BY <1>10
  <2>2. KeysOf(Q, ids[i]) = {c(i)[j].key : j \in 1 .. Len(c(i))}
    BY <1>6
  <2> HIDE DEF c
  <2> QED BY <2>1, <2>2
<1>13. \A i \in 1 .. n : \E h \in 1 .. L : FirstOf(Q, ids[i]) = rows[h].key
  <2> SUFFICES ASSUME NEW i \in 1 .. n PROVE \E h \in 1 .. L : FirstOf(Q, ids[i]) = rows[h].key
    OBVIOUS
  <2>1. FirstOf(Q, ids[i]) = c(i)[1].key /\ 1 \in 1 .. Len(c(i))
    BY <1>6
  <2>2. \A j \in 1 .. Len(c(i)) : \E h \in 1 .. L : c(i)[j] = rows[h]
    BY <1>10
  <2> HIDE DEF c
  <2> QED BY <2>1, <2>2
<1>14. n # 0 => FirstOf(Q, ids[1]) = rows[1].key
  <2> SUFFICES ASSUME n # 0 PROVE FirstOf(Q, ids[1]) = rows[1].key
    OBVIOUS
  <2>1. 1 \in 1 .. n /\ (1 - 1) * z + 1 = 1
    BY <1>1, <1>2
  <2>2. FirstOf(Q, ids[1]) = c(1)[1].key /\ 1 \in 1 .. Len(c(1))
    BY <1>6, <2>1
  <2>3. c(1)[1] = rows[(1 - 1) * z + 1]
    BY <1>4, <2>1, <2>2
  <2> HIDE DEF c
  <2> QED BY <2>1, <2>2, <2>3
<1>15. LiveSlots(Q, ids) = RowsIn(rows)
  BY <1>9, <1>11 DEF LiveSlots, RowsIn
<1> QED BY <1>8, <1>9, <1>12, <1>13, <1>14, <1>15

-------------------------------------------------------------------------------
(* What the reads return.                                                     *)
GroupSlots(P, p) == {SlotAt(P, x) : x \in Living(P, p)}

LEMMA GroupDistinct ==
    ASSUME NEW s, SoundSetup(s), NEW P \in Images(s), NEW p, Sane(s, P, p), IsFiniteSet(Living(P, p))
    PROVE  DistinctKeys(GroupSlots(P, p)) /\ GroupSlots(P, p) \subseteq SlotsIn(s)
<1> DEFINE A == Living(P, p)
           B == GroupSlots(P, p)
           f == [x \in A |-> SlotAt(P, x)]
<1>1. p \in 1 .. s.pages /\ s.pages \in Nat /\ s.keys \subseteq Int
  BY DEF Sane, SoundSetup
<1>2. \A x \in A : SlotAt(P, x) \in SlotsIn(s) /\ SlotAt(P, x).key \in Int
  <2>1. A \subseteq PlacesOf(P, p)
    BY DEF Living
  <2> QED BY <1>1, <2>1, PlaceTypes
<1>3. \A x, y \in A : SlotAt(P, x).key = SlotAt(P, y).key => x = y
  BY DEF Sane, OneEach
<1>4. B = {SlotAt(P, x) : x \in A}
  BY DEF GroupSlots
<1> HIDE DEF A, B
<1>5. f \in Surjection(A, B)
  <2>1. f \in [A -> B] /\ \A x \in A : f[x] = SlotAt(P, x)
    BY <1>4
  <2> HIDE DEF f
  <2>2. \A b \in B : \E x \in A : f[x] = b
    BY <1>4, <2>1
  <2> QED BY <2>1, <2>2 DEF Surjection
<1>6. IsFiniteSet(B)
  <2>1. IsFiniteSet(A)
    BY DEF A
  <2> HIDE DEF f
  <2> QED BY <1>5, <2>1, FS_Surjection
<1>7. \A a, b \in B : a.key = b.key => a = b
  BY <1>3, <1>4
<1>8. HasKeys(B) /\ B \subseteq SlotsIn(s)
  BY <1>2, <1>4 DEF HasKeys
<1> QED BY <1>6, <1>7, <1>8 DEF DistinctKeys, B

(* sequential_file.cpp, read_group: the live rows of a group, by key. *)
LEMMA ReadGroupSorts ==
    ASSUME SoundSetup(setup), NEW d, NEW P, d.pages = P, P \in Images(setup), NEW p, Sane(setup, P, p)
    PROVE  Sorts(ReadGroup(d, p), GroupSlots(P, p)) /\ DistinctKeys(GroupSlots(P, p))
<1> DEFINE slots == SlotsOf(d, Group(d, p))
           B == GroupSlots(P, p)
<1>1. PICK f : IndexedBy(setup, slots, P, p, f)
  BY GroupIndexed
<1>2. /\ IsFiniteSet(Living(P, p)) /\ DOMAIN slots = 1 .. Len(slots)
      /\ {slot \in ToSet(slots) : slot.live} = B
  BY <1>1, GroupCounted DEF GroupSlots
<1>3. DistinctKeys(B) /\ B \subseteq SlotsIn(setup)
  BY <1>2, GroupDistinct
<1>4. CASE P[p].overflow = NoPage
  <2>1. ReadGroup(d, p) = Picked(slots, LiveAt(slots))
    BY <1>4 DEF ReadGroup
  <2>2. p \in 1 .. setup.pages /\ setup.pages \in Nat /\ Ordered(P[p].slots) /\ setup.keys \subseteq Int
    BY DEF Sane, SoundSetup
  <2>3. slots = P[p].slots
    BY <1>4, <2>2, GroupRead
  <2>4. slots \in Seq(SlotsIn(setup)) /\ Len(slots) \in Nat
    BY <2>2, <2>3, PageTypes
  <2> DEFINE C == LiveAt(slots)
  <2>5. C \subseteq 1 .. Len(slots) /\ \A i \in C : slots[i] \in B /\ slots[i].key \in Int
    <3>1. C \subseteq 1 .. Len(slots) /\ \A i \in C : slots[i].live
      BY <1>2 DEF LiveAt
    <3>2. \A i \in 1 .. Len(slots) : slots[i] \in ToSet(slots)
      BY <1>2 DEF ToSet
    <3>3. \A i \in C : slots[i] \in B
      BY <1>2, <3>1, <3>2
    <3>4. \A b \in B : b.key \in Int
      BY <1>3 DEF DistinctKeys, HasKeys
    <3> QED BY <3>1, <3>3, <3>4
  <2>6. ASSUME NEW i \in C, NEW j \in C, i < j PROVE slots[i].key < slots[j].key
    <3>1. slots[i].key <= slots[j].key
      <4>1. i <= j
        BY <2>4, <2>5, <2>6
      <4> QED BY <1>2, <2>2, <2>3, <2>5, <4>1 DEF Ordered
    <3>2. slots[i].key # slots[j].key
      <4>1. <<p, i>> \in Living(P, p) /\ <<p, j>> \in Living(P, p)
        <5>1. <<p, i>> \in PlacesOf(P, p) /\ <<p, j>> \in PlacesOf(P, p)
          BY <1>2, <1>4, <2>3, <2>5 DEF PlacesOf, PagesOf
        <5> QED BY <2>3, <5>1 DEF LiveAt, Living, SlotAt
      <4>2. OneEach(P, p)
        BY DEF Sane
      <4>3. SlotAt(P, <<p, i>>) = slots[i] /\ SlotAt(P, <<p, j>>) = slots[j]
        BY <2>3 DEF SlotAt
      <4>4. <<p, i>> # <<p, j>>
        BY <2>4, <2>5, <2>6
      <4> HIDE DEF slots
      <4> QED BY <4>1, <4>2, <4>3, <4>4 DEF OneEach
    <3> QED BY <2>5, <3>1, <3>2
  <2>7. IsFiniteSet(C) /\ C \subseteq Nat
    <3> HIDE DEF C, slots
    <3>1. IsFiniteSet(1 .. Len(slots))
      BY <2>4, UpTo
    <3>2. C \subseteq Nat
      BY <2>4, <2>5
    <3> QED BY <2>5, <3>1, <3>2, FS_Subset
  <2>8. {slots[i] : i \in C} = B
    <3>1. ToSet(slots) = {slots[i] : i \in 1 .. Len(slots)}
      BY <1>2 DEF ToSet
    <3>2. \A i \in 1 .. Len(slots) : slots[i].live => i \in C
      BY <1>2 DEF LiveAt
    <3> HIDE DEF C, slots
    <3> QED BY <1>2, <2>5, <3>1, <3>2
  <2>9. InOrderAt(slots, C)
    <3> HIDE DEF C, slots
    <3> QED BY <2>5, <2>6, <2>7 DEF InOrderAt
  <2>10. Sorts(Picked(slots, C), {slots[i] : i \in C})
    <3> HIDE DEF C, slots
    <3> QED BY <2>9, PickedSorts
  <2> HIDE DEF C, slots, B
  <2> QED BY <1>3, <2>1, <2>8, <2>10 DEF C, B
<1>5. CASE P[p].overflow # NoPage
  <2>1. ReadGroup(d, p) = InKeyOrder(B)
    BY <1>2, <1>5 DEF ReadGroup, LiveOf
  <2> HIDE DEF B
  <2> QED BY <1>3, <2>1, InKeyOrderSorts DEF B
<1> QED BY <1>4, <1>5

(* sequential_file.cpp, scan: the live rows of the file, by key. *)
LEMMA ScanSorts ==
    ASSUME SoundSetup(setup), NEW d, NEW P, d.pages = P, P \in Images(setup),
           NEW head, NEW count, Chained(setup, P, mem.main, head, count)
    PROVE  Sorts(Scan(d), LiveSlots(P, mem.main)) /\ HasKeys(LiveSlots(P, mem.main))
<1> DEFINE main == mem.main
           N == Len(main)
           parts == [g \in 1 .. N |-> GroupSlots(P, main[g])]
           ss == [g \in 1 .. N |-> ReadGroup(d, main[g])]
<1>1. /\ N \in Nat /\ DOMAIN main = 1 .. N
      /\ \A g \in 1 .. N : Sane(setup, P, main[g]) /\ FirstOf(P, main[g]) \in Int
      /\ setup.pages \in Nat /\ setup.keys \subseteq Int
  BY ChainTypes DEF SoundSetup
<1>2. \A g \in 1 .. N : Sorts(ss[g], parts[g]) /\ DistinctKeys(parts[g])
  BY <1>1, ReadGroupSorts
<1>3. \A g, h \in 1 .. N : g < h => AllBelow(parts[g], parts[h])
  <2> SUFFICES ASSUME NEW g \in 1 .. N, NEW h \in 1 .. N, g < h,
                      NEW x \in Living(P, main[g]), NEW y \in Living(P, main[h])
               PROVE  SlotAt(P, x).key < SlotAt(P, y).key
    BY DEF AllBelow, GroupSlots
  <2>1. SlotAt(P, x).key \in KeysOf(P, main[g]) /\ SlotAt(P, y).key \in KeysOf(P, main[h])
    BY DEF Living, KeysOf
  <2>2. SlotAt(P, x).key < FirstOf(P, main[h])
    BY <1>1, <2>1 DEF Chained
  <2>3. FirstOf(P, main[h]) <= SlotAt(P, y).key
    <3>1. h # 1
      BY <1>1
    <3> QED BY <1>1, <2>1, <3>1 DEF Chained
  <2>4. KeysOf(P, main[g]) \subseteq Int /\ KeysOf(P, main[h]) \subseteq Int
    BY <1>1, ChainTypes
  <2> QED BY <1>1, <2>1, <2>2, <2>3, <2>4
<1>4. Pieces(ss, parts, N)
  <2>1. Len(ss) = N
    <3> HIDE DEF N
    <3> QED BY <1>1
  <2>2. N = 0 => ss = <<>>
    <3> HIDE DEF N
    <3> QED BY <1>1, <2>1
  <2> HIDE DEF ss, parts, N
  <2> QED BY <1>2, <1>3, <2>1, <2>2 DEF Pieces, DistinctKeys
<1>5. Sorts(FlattenSeq(ss), UNION {parts[i] : i \in 1 .. N}) /\ HasKeys(UNION {parts[i] : i \in 1 .. N})
  <2> HIDE DEF ss, parts, N
  <2>1. N \in Nat
    BY <1>1
  <2>2. SortsAll(ss, parts, N)
    BY ONLY <1>4, <2>1, FlattenSorts
  <2> QED BY <2>2 DEF SortsAll
<1>6. UNION {parts[i] : i \in 1 .. N} = LiveSlots(P, main)
  <2>1. UNION {parts[i] : i \in 1 .. N} = UNION {GroupSlots(P, main[i]) : i \in 1 .. N}
    OBVIOUS
  <2>2. AllLiving(P, main) = UNION {Living(P, main[i]) : i \in 1 .. N}
    BY <1>1 DEF AllLiving
  <2> HIDE DEF parts, N, main
  <2>3. ASSUME NEW e \in LiveSlots(P, main) PROVE e \in UNION {GroupSlots(P, main[i]) : i \in 1 .. N}
    <3>1. PICK x \in AllLiving(P, main) : e = SlotAt(P, x)
      BY DEF LiveSlots
    <3>2. PICK i \in 1 .. N : x \in Living(P, main[i])
      BY <2>2
    <3> QED BY <3>1, <3>2 DEF GroupSlots
  <2>4. ASSUME NEW i \in 1 .. N, NEW e \in GroupSlots(P, main[i]) PROVE e \in LiveSlots(P, main)
    BY <2>2 DEF GroupSlots, LiveSlots
  <2> QED BY <2>1, <2>3, <2>4
<1>7. Scan(d) = FlattenSeq(ss)
  BY <1>1 DEF Scan
<1> HIDE DEF ss, parts, N
<1> QED BY <1>5, <1>6, <1>7

(* sequential_file.hpp: half a page, or eight tenths of one, and one row at least. *)
LEMMA PageFills ==
    ASSUME SoundSetup(setup)
    PROVE  /\ PerPage \in Nat /\ PerPage >= 1 /\ PerPage <= setup.slots
           /\ Fill \in Nat /\ Fill >= 1 /\ Fill <= setup.slots
<1>1. setup.slots \in Nat /\ setup.slots >= 2
  BY DEF SoundSetup
<1>2. ASSUME NEW a \in Nat PROVE Max({1, a}) = IF a >= 1 THEN a ELSE 1
  <2>1. \A x : x = (IF a >= 1 THEN a ELSE 1) <=> x \in {1, a} /\ \A y \in {1, a} : x >= y
    OBVIOUS
  <2> QED BY <2>1 DEF Max
<1>3. setup.slots \div 2 \in Nat /\ setup.slots \div 2 <= setup.slots
  BY <1>1
<1>4. (setup.slots * 8) \div 10 \in Nat /\ (setup.slots * 8) \div 10 <= setup.slots
  BY <1>1
<1>5. PerPage \in Nat /\ PerPage >= 1 /\ PerPage <= setup.slots
  BY <1>1, <1>2, <1>3 DEF PerPage
<1>6. Fill \in Nat /\ Fill >= 1 /\ Fill <= setup.slots
  BY <1>1, <1>2, <1>4 DEF Fill
<1> QED BY <1>5, <1>6

(* Live rows with different keys: no more than the keys. *)
LEMMA RowsWithinKeys ==
    ASSUME NEW s, SoundSetup(s), NEW S, DistinctKeys(S), S \subseteq SlotsIn(s)
    PROVE  Cardinality(S) <= s.pages /\ Cardinality(S) \in Nat
<1> DEFINE K == {x.key : x \in S}
           f == [x \in S |-> x.key]
<1>1. IsFiniteSet(S) /\ \A x, y \in S : x.key = y.key => x = y
  BY DEF DistinctKeys
<1>2. K \subseteq s.keys
  BY DEF SlotsIn
<1>3. f \in Bijection(S, K)
  <2>1. f \in [S -> K] /\ \A x \in S : f[x] = x.key
    OBVIOUS
  <2>2. \A k \in K : \E x \in S : x.key = k
    OBVIOUS
  <2> HIDE DEF f, K
  <2> QED BY <1>1, <2>1, <2>2 DEF Bijection, Injection, Surjection, IsInjective
<1> HIDE DEF f, K
<1>4. Cardinality(S) = Cardinality(K)
  BY <1>1, <1>3, FS_Bijection DEF ExistsBijection
<1>5. IsFiniteSet(s.keys) /\ Cardinality(s.keys) <= s.pages /\ s.pages \in Nat
  BY DEF SoundSetup
<1>6. Cardinality(K) <= Cardinality(s.keys)
  BY <1>2, <1>5, FS_Subset
<1>7. Cardinality(s.keys) \in Nat /\ Cardinality(S) \in Nat
  BY <1>1, <1>5, FS_CardinalityType
<1> QED BY <1>4, <1>5, <1>6, <1>7

(* The file without a row, for the bound of a set-up. *)
Empty(s) == [p \in 1 .. s.pages |-> Blank]

LEMMA BlankIsPage ==
    ASSUME NEW s, s.pages \in Nat
    PROVE  Blank \in PagesIn(s) /\ Empty(s) \in Images(s)
<1>1. Blank.slots = <<>> /\ Blank.next = 0 /\ Blank.overflow = 0 /\ Blank = [slots |-> <<>>, next |-> 0, overflow |-> 0]
  BY DEF Blank, NoPage
<1>2. <<>> \in Seq(SlotsIn(s)) /\ 0 \in 0 .. s.pages
  OBVIOUS
<1>3. Blank \in PagesIn(s)
  BY <1>1, <1>2 DEF PagesIn
<1> QED BY <1>3 DEF Empty, Images

LEMMA EmptyIsSound ==
    ASSUME NEW s, SoundSetup(s), NEW P \in Images(s), NEW m,
           m.main = <<>>, m.first = <<>>, m.head = NoPage, m.count \in 0 .. s.pages, m.live = 0, m.deleted = 0
    PROVE  Sound(s, P, m)
<1>1. DOMAIN m.main = {} /\ <<>> \in Seq(1 .. s.pages)
  OBVIOUS
<1>2. Chained(s, P, m.main, m.head, m.count)
  BY <1>1 DEF Chained
<1>3. Directory(P, m)
  <2>1. <<>> = [g \in DOMAIN <<>> |-> FirstOf(P, <<>>[g])]
    OBVIOUS
  <2> QED BY <2>1 DEF Directory
<1>4. AllPlaces(P, m.main) = {} /\ AllLiving(P, m.main) = {}
  BY <1>1 DEF AllPlaces, AllLiving
<1>5. Cardinality({}) = 0
  BY FS_EmptySet
<1>6. m.live = Cardinality(AllLiving(P, m.main)) /\ m.deleted = Cardinality(AllPlaces(P, m.main)) - Cardinality(AllLiving(P, m.main))
  <2>1. Cardinality(AllLiving(P, m.main)) = 0 /\ Cardinality(AllPlaces(P, m.main)) = 0
    BY ONLY <1>4, <1>5, Zenon
  <2> QED BY <2>1
<1> QED BY <1>2, <1>3, <1>6 DEF Sound

(* The pages of a rewrite: the rows in order, in the pages 1 to n.count. *)
WritesRows(s, Q, n, rows, z, S) ==
    /\ z \in Nat /\ z >= 1 /\ z <= s.slots
    /\ Sorts(rows, S) /\ S \subseteq SlotsIn(s) /\ \A x \in S : x.live
    /\ Q \in Images(s) /\ n.count = (Len(rows) + z - 1) \div z
    /\ \A p \in 1 .. n.count : Q[p].slots = Chunk(rows, p, z) /\ Q[p].overflow = NoPage
                               /\ Q[p].next = IF p < n.count THEN p + 1 ELSE NoPage
    /\ n.main = [p \in 1 .. n.count |-> p] /\ n.first = [p \in 1 .. n.count |-> FirstOf(Q, p)]
    /\ n.head = (IF n.count = 0 THEN NoPage ELSE 1) /\ n.deleted = 0 /\ n.live = Cardinality(S)

(* sequential_file.cpp, reorganize: the new file is sound and has the rows of the old one. *)
LEMMA RowsWritten ==
    ASSUME NEW s, SoundSetup(s), NEW Q, NEW n, NEW rows, NEW z, NEW S, WritesRows(s, Q, n, rows, z, S)
    PROVE  Sound(s, Q, n) /\ LiveSlots(Q, n.main) = S
<1> DEFINE L == Len(rows)
           c == n.count
           ids == n.main
           P == Empty(s)
           m == NoMemory
<1>1. /\ z \in Nat /\ z >= 1 /\ z <= s.slots
      /\ Sorts(rows, S) /\ S \subseteq SlotsIn(s) /\ \A x \in S : x.live
      /\ Q \in Images(s) /\ c = (L + z - 1) \div z
      /\ \A p \in 1 .. c : Q[p].slots = Chunk(rows, p, z) /\ Q[p].overflow = NoPage
                           /\ Q[p].next = IF p < c THEN p + 1 ELSE NoPage
      /\ ids = [p \in 1 .. c |-> p] /\ n.first = [p \in 1 .. c |-> FirstOf(Q, p)]
      /\ n.head = (IF c = 0 THEN NoPage ELSE 1) /\ n.deleted = 0 /\ n.live = Cardinality(S)
  BY DEF WritesRows
<1>2. HasKeys(S) /\ s.pages \in Nat /\ s.keys \subseteq Int
  BY <1>1 DEF HasKeys, SlotsIn, SoundSetup
<1>3. /\ L \in Nat /\ \A i \in 1 .. L : rows[i] \in S
      /\ IsFiniteSet(S) /\ L = Cardinality(S) /\ rows \in Seq(S)
      /\ \A i, j \in 1 .. L : i < j => rows[i].key < rows[j].key
      /\ \A x \in S : \E i \in 1 .. L : rows[i] = x
  <2>1. Sorts(rows, S) /\ HasKeys(S)
    BY <1>1, <1>2
  <2>2. /\ L \in Nat /\ \A i \in 1 .. L : rows[i] \in S
        /\ IsFiniteSet(S) /\ L = Cardinality(S)
    BY ONLY <2>1, SortsCounts
  <2> QED BY <2>1, <2>2 DEF Sorts
<1>4. L <= s.pages
  <2>1. \A x, y \in S : x.key = y.key => x = y
    <3> SUFFICES ASSUME NEW x \in S, NEW y \in S, x.key = y.key PROVE x = y
      OBVIOUS
    <3>1. PICK i \in 1 .. L : rows[i] = x
      BY <1>3
    <3>2. PICK j \in 1 .. L : rows[j] = y
      BY <1>3
    <3>3. ~(i < j) /\ ~(j < i)
      BY <1>2, <1>3, <3>1, <3>2 DEF HasKeys
    <3>4. i = j
      BY <1>3, <3>3
    <3> QED BY <3>1, <3>2, <3>4
  <2>2. DistinctKeys(S)
    BY <1>2, <1>3, <2>1 DEF DistinctKeys
  <2> QED BY <1>1, <1>3, <2>2, RowsWithinKeys
<1>5. Quotient(c, L, z) /\ c <= L
  BY <1>1, <1>3, PagesNeeded, SMTT(30)
<1>6. c \in Nat /\ c \in 0 .. s.pages
  BY <1>2, <1>3, <1>4, <1>5 DEF Quotient
<1>7. ids \in Seq(1 .. s.pages) /\ Len(ids) = c /\ \A p \in 1 .. c : ids[p] = p
  <2>1. \A p \in 1 .. c : p \in 1 .. s.pages
    BY <1>2, <1>6
  <2>2. ids \in [1 .. c -> 1 .. s.pages]
    BY <1>1, <2>1
  <2>3. ids = [p \in 1 .. c |-> p]
    BY <1>1
  <2> HIDE DEF c, ids
  <2>4. \A p \in 1 .. c : ids[p] = p
    BY <2>3
  <2>5. c \in Nat
    BY <1>6
  <2>6. ids \in Seq(1 .. s.pages) /\ Len(ids) = c
    <3> SUFFICES ASSUME NEW T, ids \in [1 .. c -> T] PROVE ids \in Seq(T) /\ Len(ids) = c
      BY <2>2
    <3> QED BY ONLY <2>5, ids \in [1 .. c -> T]
  <2> QED BY <2>4, <2>6
<1>8. IsChunked(s, Q, ids, rows, z)
  <2>1. rows \in Seq(SlotsIn(s)) /\ \A i \in 1 .. L : rows[i].live
    <3>1. \A i \in 1 .. L : rows[i] \in SlotsIn(s) /\ rows[i].live
      BY <1>1, <1>3
    <3>2. rows \in [1 .. L -> SlotsIn(s)]
      <4>1. rows \in [1 .. L -> S]
        BY <1>3, LenProperties
      <4> HIDE DEF L
      <4> QED BY <1>1, <4>1
    <3> HIDE DEF L
    <3> QED BY <1>3, <3>1, <3>2
  <2>2. \A i, j \in 1 .. Len(ids) : ids[i] = ids[j] => i = j
    BY <1>7
  <2> HIDE DEF L, c, ids
  <2>3. Quotient(Len(ids), Len(rows), z)
    BY <1>5, <1>7 DEF L
  <2> QED BY <1>1, <1>3, <1>7, <2>1, <2>2, <2>3 DEF IsChunked, L
<1>9. /\ \A pages : (\A i \in 1 .. Len(ids) : ids[i] \in pages) => NewGroups(s, Q, ids, pages)
      /\ AllPlaces(Q, ids) = AllLiving(Q, ids)
      /\ LiveSlots(Q, ids) = RowsIn(rows)
  <2> SUFFICES ASSUME NEW w, w = ids
               PROVE  /\ \A pages : (\A i \in 1 .. Len(w) : w[i] \in pages) => NewGroups(s, Q, w, pages)
                      /\ AllPlaces(Q, w) = AllLiving(Q, w)
                      /\ LiveSlots(Q, w) = RowsIn(rows)
    OBVIOUS
  <2>1. Q \in Images(s) /\ IsChunked(s, Q, w, rows, z)
    BY <1>1, <1>8
  <2> QED BY ONLY SoundSetup(s), <2>1, ChunkedGroups
<1>10. /\ m.main = <<>> /\ m.first = <<>> /\ m.head = NoPage /\ m.count = 0 /\ m.live = 0 /\ m.deleted = 0
  BY DEF NoMemory
<1>11. Sound(s, P, m) /\ P \in Images(s)
  <2>1. P \in Images(s)
    BY <1>2, BlankIsPage
  <2>2. m.count \in 0 .. s.pages
    BY <1>2, <1>10
  <2> QED BY <1>10, <2>1, <2>2, EmptyIsSound
<1>12. FirstsOf(Q, ids, n.first) /\ n.first \in Seq(Int) /\ Len(n.first) = c
  <2>1. n.first = [p \in 1 .. c |-> FirstOf(Q, p)]
    BY <1>1
  <2>2. NewGroups(s, Q, ids, 1 .. s.pages)
    BY <1>7, <1>9, ElementOfSeq
  <2>3. ASSUME NEW p \in 1 .. c PROVE FirstOf(Q, p) \in Int
    <3>1. Sane(s, Q, p)
      BY <1>7, <2>2 DEF NewGroups
    <3>2. p \in 1 .. s.pages /\ Q[p].slots # <<>>
      BY <3>1 DEF Sane
    <3>3. Q[p].slots \in Seq(SlotsIn(s))
      BY <1>1, <3>2, PageTypes
    <3>4. Q[p].slots[1] \in SlotsIn(s)
      <4> DEFINE w == Q[p].slots
      <4> HIDE DEF w
      <4>1. w \in Seq(SlotsIn(s)) /\ w # <<>> => w[1] \in SlotsIn(s)
        OBVIOUS
      <4> QED BY <3>2, <3>3, <4>1 DEF w
    <3> QED BY <1>2, <3>4 DEF FirstOf, SlotsIn
  <2>4. n.first \in [1 .. c -> Int]
    BY <2>1, <2>3
  <2>5. n.first \in Seq(Int) /\ Len(n.first) = c
    <3> HIDE DEF c
    <3> QED BY <1>6, <2>4
  <2>6. \A p \in 1 .. c : n.first[p] = FirstOf(Q, p)
    BY <2>1
  <2> HIDE DEF c, ids
  <2> QED BY <1>7, <2>5, <2>6 DEF FirstsOf
<1>13. SpliceAt(Len(m.main), 1, 0) /\ Len(m.main) = 0
  BY <1>10 DEF SpliceAt
<1>14. /\ IsSpliced(ids, 1 .. s.pages, m.main, 1, 0, ids) /\ IsSpliced(n.first, Int, m.first, 1, 0, n.first)
  <2>1. ASSUME NEW T, NEW w \in Seq(T) PROVE IsSpliced(w, T, <<>>, 1, 0, w)
    <3>1. Len(w) \in Nat /\ Len(<<>>) = 0
      OBVIOUS
    <3>2. \A h \in 1 .. Len(w) : ~(h < 1) /\ h < 1 + Len(w) /\ h - 1 + 1 = h
      BY <3>1
    <3>3. Len(w) = Len(<<>>) + Len(w) - 0
      BY <3>1
    <3> QED BY <3>2, <3>3 DEF IsSpliced
  <2> QED BY <1>7, <1>10, <1>12, <2>1
<1>15. Splices(s, P, m, Q, n, 1, 0, ids, n.first)
  <2>1. n.head = (IF ids = <<>> THEN NoPage ELSE ids[1])
    <3>1. CASE c = 0
      <4>1. ids = <<>>
        <5> HIDE DEF ids, c
        <5> QED BY <1>7, <3>1
      <4> QED BY <1>1, <3>1, <4>1
    <3>2. CASE c # 0
      <4>1. 1 \in 1 .. c /\ ids # <<>>
        <5> HIDE DEF ids, c
        <5> QED BY <1>6, <1>7, <3>2
      <4> QED BY <1>1, <1>7, <3>2, <4>1
    <3> QED BY <3>1, <3>2
  <2>2. LinkedUp(Q, ids)
    <3> SUFFICES ASSUME NEW p \in 1 .. c
                 PROVE  Q[ids[p]].next = IF p = c THEN NoPage ELSE ids[p + 1]
      BY <1>7 DEF LinkedUp
    <3>1. ids[p] = p /\ Q[p].next = IF p < c THEN p + 1 ELSE NoPage
      BY <1>1, <1>7
    <3>2. p = c \/ (p < c /\ p # c /\ p + 1 \in 1 .. c)
      BY <1>6
    <3>3. p = c => ~(p < c)
      BY <1>6
    <3> QED BY <1>7, <3>1, <3>2, <3>3
  <2>3. NewGroups(s, Q, ids, FreePages(P, m, n, 1, 0))
    <3>1. FreePages(P, m, n, 1, 0) = 1 .. c
      BY <1>10 DEF FreePages
    <3> QED BY <1>7, <1>9, <3>1
  <2>4. Fits(P, m.main, Q, 1, ids)
    BY <1>13 DEF Fits
  <2>5. n.count \in m.count .. s.pages
    BY <1>6, <1>10
  <2>6. \A o \in 1 .. Len(m.main) : o # 1 => Keeps(P, Q, m.main[o])
    BY <1>13
  <2> HIDE DEF P, m, ids
  <2> QED BY <1>1, <1>12, <1>13, <1>14, <2>1, <2>2, <2>3, <2>4, <2>5, <2>6 DEF Splices, ids
<1>16. Chained(s, Q, ids, n.head, c) /\ Directory(Q, n)
  <2> HIDE DEF P, m
  <2> QED BY <1>11, <1>15, SplicedChain
<1>17. LiveSlots(Q, ids) = S
  <2>1. S = {rows[h] : h \in 1 .. L}
    BY <1>3
  <2> QED BY <1>9, <2>1 DEF RowsIn
<1>18. Cardinality(AllLiving(Q, ids)) = L /\ Cardinality(AllPlaces(Q, ids)) = L
  <2>1. Cardinality(LiveSlots(Q, ids)) = Cardinality(AllLiving(Q, ids))
    BY <1>1, <1>16, LivingSlots
  <2> QED BY <1>3, <1>9, <1>17, <2>1
<1>19. n.live = L /\ n.deleted = L - L
  BY <1>1, <1>3
<1> QED BY <1>1, <1>16, <1>17, <1>18, <1>19 DEF Sound

LEMMA GroupCards ==
    ASSUME NEW s, SoundSetup(s), NEW P \in Images(s), NEW p, Sane(s, P, p), IsFiniteSet(Living(P, p))
    PROVE  Cardinality(GroupSlots(P, p)) = Cardinality(Living(P, p))
<1>1. p \in 1 .. s.pages
  BY DEF Sane
<1>2. Len(<<p>>) = 1 /\ DOMAIN <<p>> = {1} /\ <<p>>[1] = p /\ <<p>> \in Seq(1 .. s.pages)
  BY <1>1
<1>3. AllLiving(P, <<p>>) = Living(P, p)
  BY <1>2 DEF AllLiving
<1>4. LiveSlots(P, <<p>>) = GroupSlots(P, p)
  BY <1>3 DEF LiveSlots, GroupSlots
<1> DEFINE main == <<p>>
<1>5. InRanges(s, P, main)
  <2>1. \A g \in 1 .. Len(main) : main[g] = p /\ g = 1
    BY <1>2
  <2>2. IsFiniteSet(AllLiving(P, main)) /\ main \in Seq(1 .. s.pages)
    BY <1>2, <1>3
  <2> HIDE DEF main
  <2> QED BY <2>1, <2>2 DEF InRanges
<1>6. Cardinality(LiveSlots(P, main)) = Cardinality(AllLiving(P, main))
  <2> HIDE DEF main
  <2> QED BY <1>5, RangesDistinct
<1> QED BY <1>3, <1>4, <1>6

(* The live rows of a group go to pages of its own and new ones, which take its place in the chain. *)
SplitsGroup(s, P, m, Q, n, g, ids, firsts, rows, z) ==
    LET p == m.main[g]
        before == m.main[g - 1]
        unlinks == Len(ids) = 0 /\ g # 1
    IN  /\ g \in DOMAIN m.main /\ Q \in Images(s) /\ n.count \in m.count .. s.pages
        /\ IsChunked(s, Q, ids, rows, z) /\ Sorts(rows, GroupSlots(P, p))
        /\ \A i \in 1 .. Len(ids) : ids[i] \in PagesOf(P, p) \cup (m.count + 1 .. n.count)
        /\ \A i \in 1 .. Len(ids) : Q[ids[i]].next = IF i < Len(ids) THEN ids[i + 1] ELSE P[p].next
        /\ Len(ids) # 0 => ids[1] = p
        /\ unlinks => Q[before].slots = P[before].slots /\ Q[before].overflow = P[before].overflow
                      /\ Q[before].next = P[p].next
        /\ \A q \in 1 .. s.pages : (\A i \in 1 .. Len(ids) : q # ids[i]) /\ (unlinks => q # before) => Q[q] = P[q]
        /\ n.head = (IF Len(ids) = 0 /\ g = 1 THEN P[p].next ELSE m.head)
        /\ IsSpliced(n.main, 1 .. s.pages, m.main, g, 1, ids)
        /\ IsSpliced(n.first, Int, m.first, g, 1, firsts) /\ FirstsOf(Q, ids, firsts)
        /\ n.live = m.live
        /\ n.deleted = m.deleted - (Cardinality(PlacesOf(P, p)) - Cardinality(Living(P, p)))

LEMMA SplitSplices ==
    ASSUME NEW s, SoundSetup(s), NEW P, NEW m, Sound(s, P, m), NEW Q, NEW n, NEW g, NEW ids, NEW firsts, NEW rows, NEW z,
           SplitsGroup(s, P, m, Q, n, g, ids, firsts, rows, z)
    PROVE  Splices(s, P, m, Q, n, g, 1, ids, firsts)
<1> DEFINE old == m.main
           new == n.main
           N == Len(old)
           L == Len(new)
           K == Len(ids)
           p == old[g]
           before == old[g - 1]
           unlinks == K = 0 /\ g # 1
<1> USE DEF SoundSetup
<1>1. /\ P \in Images(s) /\ Chained(s, P, old, m.head, m.count) /\ N \in Nat /\ DOMAIN old = 1 .. N
      /\ m.count \in 0 .. s.pages /\ old \in Seq(1 .. s.pages)
      /\ \A o \in 1 .. N : old[o] \in 1 .. s.pages /\ Sane(s, P, old[o]) /\ FirstOf(P, old[o]) \in Int
                           /\ KeysOf(P, old[o]) \subseteq Int
  <2>1. /\ P \in Images(s) /\ Chained(s, P, old, m.head, m.count) /\ N \in Nat /\ DOMAIN old = 1 .. N
        /\ m.count \in 0 .. s.pages
    BY SoundTypes
  <2>2. \A o \in DOMAIN old : old[o] \in 1 .. s.pages /\ Sane(s, P, old[o]) /\ FirstOf(P, old[o]) \in Int
                           /\ KeysOf(P, old[o]) \subseteq Int
    BY <2>1, ChainTypes
  <2>3. old \in Seq(1 .. s.pages)
    BY <2>1 DEF Chained
  <2> QED BY <2>1, <2>2, <2>3
<1>2. /\ g \in 1 .. N /\ Q \in Images(s) /\ n.count \in m.count .. s.pages
      /\ IsChunked(s, Q, ids, rows, z) /\ Sorts(rows, GroupSlots(P, p))
      /\ \A i \in 1 .. K : ids[i] \in PagesOf(P, p) \cup (m.count + 1 .. n.count)
      /\ K # 0 => ids[1] = p
      /\ n.head = (IF K = 0 /\ g = 1 THEN P[p].next ELSE m.head)
      /\ IsSpliced(new, 1 .. s.pages, old, g, 1, ids)
      /\ IsSpliced(n.first, Int, m.first, g, 1, firsts) /\ FirstsOf(Q, ids, firsts)
  BY <1>1 DEF SplitsGroup
<1>3. /\ \A i \in 1 .. K : Q[ids[i]].next = IF i < K THEN ids[i + 1] ELSE P[p].next
      /\ unlinks => Q[before].slots = P[before].slots /\ Q[before].overflow = P[before].overflow
                    /\ Q[before].next = P[p].next
      /\ \A q \in 1 .. s.pages : (\A i \in 1 .. K : q # ids[i]) /\ (unlinks => q # before) => Q[q] = P[q]
  BY DEF SplitsGroup
<1>4. ids \in Seq(1 .. s.pages) /\ K \in Nat
  <2>1. ids \in Seq(1 .. s.pages)
    BY <1>2 DEF IsChunked
  <2> QED BY <2>1, LenProperties
<1>5. SpliceAt(N, g, 1)
  BY <1>2 DEF SpliceAt
<1>6. ASSUME NEW o \in 1 .. N, o # g
      PROVE  /\ \A q \in PagesOf(P, old[o]) : \A i \in 1 .. K : q # ids[i]
             /\ old[o] \in PagesOf(P, old[o]) /\ PagesOf(P, old[o]) \subseteq 1 .. s.pages
  <2>1. PagesOf(P, old[o]) \subseteq 1 .. m.count /\ PagesOf(P, old[o]) \cap PagesOf(P, p) = {}
    BY <1>1, <1>2, <1>6 DEF Chained
  <2>3. PagesOf(P, old[o]) \subseteq 1 .. s.pages
    BY <1>1, <2>1
  <2>2. \A q \in PagesOf(P, old[o]) : q \notin m.count + 1 .. n.count
    BY <1>1, <2>1
  <2> QED BY <1>2, <2>1, <2>2, <2>3 DEF PagesOf
<1>7. ASSUME NEW o \in 1 .. N, NEW r \in 1 .. N, o # r PROVE old[r] \notin PagesOf(P, old[o])
  <2>1. PagesOf(P, old[o]) \cap PagesOf(P, old[r]) = {}
    BY <1>1, <1>7 DEF Chained
  <2> QED BY <2>1 DEF PagesOf
<1>8. ASSUME NEW o \in 1 .. N, o # g
      PROVE  Keeps(P, Q, old[o]) /\ ((unlinks => o # g - 1) => Q[old[o]] = P[old[o]])
  <2>1. CASE unlinks /\ o = g - 1
    <3>1. \A q \in PagesOf(P, old[o]) : q # old[o] => Q[q] = P[q]
      BY <1>3, <1>6, <1>8, <2>1
    <3> QED BY <1>3, <2>1, <3>1 DEF Keeps
  <2>2. CASE ~(unlinks /\ o = g - 1)
    <3>1. unlinks => g - 1 \in 1 .. N /\ o # g - 1
      BY <1>1, <1>2, <2>2
    <3>2. \A q \in PagesOf(P, old[o]) : unlinks => q # before
      BY <1>7, <3>1
    <3>3. \A q \in PagesOf(P, old[o]) : Q[q] = P[q]
      BY <1>3, <1>6, <1>8, <3>2
    <3> QED BY <1>6, <1>8, <3>3 DEF Keeps
  <2> QED BY <2>1, <2>2
<1>9. \A o \in 1 .. N : P[old[o]].next = IF o = N THEN NoPage ELSE old[o + 1]
  BY <1>1 DEF Chained
<1>10. /\ L = N + K - 1 /\ L \in Nat
       /\ \A h \in 1 .. L : new[h] = IF h < g THEN old[h] ELSE IF h < g + K THEN ids[h - g + 1] ELSE old[h - K + 1]
  BY <1>1, <1>2, <1>4 DEF IsSpliced
<1>11. ASSUME NEW h \in 1 .. L PROVE Q[new[h]].next = IF h = L THEN NoPage ELSE new[h + 1]
  <2> HIDE DEF L, N, K, new, old, before, p
  <2>0. /\ g \in Nat /\ h \in Nat /\ N \in Nat /\ K \in Nat /\ L \in Nat
        /\ 1 <= g /\ g <= N /\ 1 <= h /\ h <= L /\ L = N + K - 1
    <3>1. g \in Nat /\ h \in Nat /\ 1 <= g /\ g <= N /\ 1 <= h /\ h <= L
      <4>1. g \in 1 .. N /\ h \in 1 .. L /\ N \in Nat /\ L \in Nat
        BY <1>1, <1>2, <1>10, <1>11
      <4> QED BY ONLY <4>1
    <3> QED BY <1>1, <1>4, <1>10, <3>1
  <2>1. CASE h < g /\ (unlinks => h # g - 1)
    <3>1. h \in 1 .. N /\ h # g /\ h # N /\ new[h] = old[h]
      BY <1>1, <1>2, <1>10, <1>11, <2>1
    <3>2. Q[old[h]] = P[old[h]] /\ P[old[h]].next = old[h + 1]
      BY <1>8, <1>9, <2>1, <3>1
    <3>3. CASE h + 1 < g
      <4>1. h + 1 \in 1 .. L /\ h # L
        BY <1>1, <1>2, <1>4, <1>10, <3>3
      <4> QED BY <1>10, <3>1, <3>2, <3>3, <4>1
    <3>4. CASE ~(h + 1 < g)
      <4>1. h + 1 = g /\ g # 1
        BY <1>1, <1>2, <2>1, <3>4
      <4>2. K # 0
        <5>1. h = g - 1
          BY <1>1, <1>2, <1>10, <4>1
        <5> QED BY <2>1, <4>1, <5>1
      <4>3. h # L /\ h + 1 \in 1 .. L /\ ~(g < g) /\ g < g + K /\ g - g + 1 = 1
        BY <1>1, <1>2, <1>4, <1>10, <4>1, <4>2, SMTT(30)
      <4>4. new[g] = ids[1]
        BY <1>10, <4>1, <4>3
      <4> QED BY <1>2, <3>1, <3>2, <4>1, <4>2, <4>3, <4>4 DEF p
    <3> QED BY <3>3, <3>4
  <2>2. CASE unlinks /\ h = g - 1
    <3>1. h < g /\ new[h] = before /\ K = 0
      <4>1. h < g
        BY ONLY <2>0, <2>2
      <4>2. new[h] = old[h]
        BY <1>10, <1>11, <4>1
      <4> QED BY <2>2, <4>1, <4>2 DEF before
    <3>2. Q[before].next = P[p].next
      BY <1>3, <2>2
    <3>3. P[p].next = IF g = N THEN NoPage ELSE old[g + 1]
      BY <1>2, <1>9 DEF p
    <3>4. CASE g = N
      <4>1. h = L
        BY <1>1, <1>10, <2>2, <3>1, <3>4
      <4> QED BY <3>1, <3>2, <3>3, <3>4, <4>1
    <3>5. CASE g # N
      <4>1. h # L /\ h + 1 = g /\ g \in 1 .. L /\ ~(g < g) /\ ~(g < g + K) /\ g - K + 1 = g + 1
        BY <1>1, <1>2, <1>10, <2>2, <3>1, <3>5
      <4>2. new[g] = old[g + 1]
        BY <1>10, <4>1
      <4> QED BY <3>1, <3>2, <3>3, <3>5, <4>1, <4>2
    <3> QED BY <3>4, <3>5
  <2>3. CASE ~(h < g) /\ h < g + K
    <3> DEFINE i == h - g + 1
    <3>1. i \in 1 .. K /\ new[h] = ids[i] /\ h = g + i - 1
      <4>1. i \in 1 .. K /\ h = g + i - 1
        BY ONLY <2>0, <2>3
      <4>2. new[h] = ids[h - g + 1]
        BY <1>10, <1>11, <2>3
      <4> QED BY <4>1, <4>2
    <3> HIDE DEF i
    <3>2. Q[ids[i]].next = IF i < K THEN ids[i + 1] ELSE P[p].next
      BY <1>3, <3>1
    <3>3. CASE i < K
      <4>1. h # L /\ h + 1 \in 1 .. L /\ ~(h + 1 < g) /\ h + 1 < g + K /\ h + 1 - g + 1 = i + 1
        <5>1. i \in 1 .. K /\ h = g + i - 1
          BY <3>1
        <5> QED BY ONLY <2>0, <3>3, <5>1
      <4>2. new[h + 1] = ids[i + 1]
        <5>1. ASSUME NEW w, w = h + 1 PROVE new[w] = ids[w - g + 1]
          <6>1. w \in 1 .. L /\ ~(w < g) /\ w < g + K
            BY ONLY <4>1, <5>1
          <6> QED BY <1>10, <2>0, <6>1
        <5> QED BY ONLY <2>0, <4>1, <5>1
      <4> QED BY <3>1, <3>2, <3>3, <4>1, <4>2
    <3>4. CASE ~(i < K)
      <4>1. i = K
        BY <1>4, <3>1, <3>4
      <4>2. P[p].next = IF g = N THEN NoPage ELSE old[g + 1]
        BY <1>2, <1>9 DEF p
      <4>3. CASE g = N
        <5>1. h = L
          BY ONLY <2>0, <3>1, <4>1, <4>3
        <5> QED BY <3>1, <3>2, <3>4, <4>2, <4>3, <5>1
      <4>4. CASE g # N
        <5>1. h # L /\ h + 1 \in 1 .. L /\ ~(h + 1 < g) /\ ~(h + 1 < g + K) /\ h + 1 - K + 1 = g + 1
          <6>1. i \in 1 .. K /\ h = g + i - 1
            BY <3>1
          <6> QED BY ONLY <2>0, <4>1, <4>4, <6>1
        <5>2. new[h + 1] = old[g + 1]
          <6>1. ASSUME NEW w, w = h + 1 PROVE new[w] = old[w - K + 1]
            <7>1. w \in 1 .. L /\ ~(w < g) /\ ~(w < g + K)
              BY ONLY <5>1, <6>1
            <7> QED BY <1>10, <2>0, <7>1
          <6> QED BY ONLY <2>0, <5>1, <6>1
        <5> QED BY <3>1, <3>2, <3>4, <4>2, <4>4, <5>1, <5>2
      <4> QED BY <4>3, <4>4
    <3> QED BY <3>3, <3>4
  <2>4. CASE ~(h < g) /\ ~(h < g + K)
    <3> DEFINE o == h - K + 1
    <3>1. o \in 1 .. N /\ o # g /\ o # g - 1 /\ new[h] = old[o]
      <4>1. o \in 1 .. N /\ o # g /\ (K = 0 => o # g - 1)
        BY ONLY <2>0, <2>4
      <4>2. new[h] = old[h - K + 1]
        BY <1>10, <1>11, <2>4
      <4>3. o # g - 1
        BY ONLY <2>0, <2>4
      <4> QED BY <4>1, <4>2, <4>3
    <3>2. h = o + K - 1
      BY ONLY <2>0
    <3> HIDE DEF o
    <3>3. Q[old[o]] = P[old[o]] /\ P[old[o]].next = IF o = N THEN NoPage ELSE old[o + 1]
      BY <1>8, <1>9, <3>1
    <3>4. CASE o = N
      <4>1. h = L
        BY ONLY <2>0, <3>2, <3>4
      <4> QED BY <3>1, <3>3, <3>4, <4>1
    <3>5. CASE o # N
      <4>1. h # L /\ h + 1 \in 1 .. L /\ ~(h + 1 < g) /\ ~(h + 1 < g + K) /\ h + 1 - K + 1 = o + 1
        <5>1. o \in 1 .. N /\ o # g
          BY <3>1
        <5> QED BY ONLY <2>0, <2>4, <3>2, <3>5, <5>1
      <4>2. new[h + 1] = old[o + 1]
        <5>1. ASSUME NEW w, w = h + 1 PROVE new[w] = old[w - K + 1]
          <6>1. w \in 1 .. L /\ ~(w < g) /\ ~(w < g + K)
            BY ONLY <4>1, <5>1
          <6> QED BY <1>10, <2>0, <6>1
        <5> QED BY ONLY <2>0, <4>1, <5>1
      <4> QED BY <3>1, <3>3, <3>5, <4>1, <4>2
    <3> QED BY <3>4, <3>5
  <2> QED BY <2>1, <2>2, <2>3, <2>4
<1>12. n.head = (IF new = <<>> THEN NoPage ELSE new[1])
  <2>1. new \in Seq(1 .. s.pages) /\ (new = <<>> <=> L = 0)
    <3>1. new \in Seq(1 .. s.pages)
      BY <1>2 DEF IsSpliced
    <3> HIDE DEF new
    <3> QED BY <3>1, EmptySeq
  <2>2. m.head = old[1] /\ 1 \in 1 .. N
    <3>1. old # <<>>
      <4> HIDE DEF old
      <4> QED BY <1>1, <1>2
    <3> QED BY <1>1, <1>2, <3>1 DEF Chained
  <2> HIDE DEF L, N, K, new, old, before, p
  <2>3. CASE K = 0 /\ g = 1
    <3>1. P[p].next = IF g = N THEN NoPage ELSE old[g + 1]
      BY <1>2, <1>9 DEF p
    <3>2. CASE g = N
      <4>1. L = 0
        BY <1>1, <1>10, <2>3, <3>2
      <4> QED BY <1>2, <2>1, <2>3, <3>1, <3>2, <4>1
    <3>3. CASE g # N
      <4>1. L # 0 /\ 1 \in 1 .. L /\ ~(1 < g) /\ ~(1 < g + K) /\ 1 - K + 1 = g + 1
        BY <1>1, <1>2, <1>10, <2>3, <3>3
      <4>2. new[1] = old[g + 1]
        BY <1>10, <4>1
      <4> QED BY <1>2, <2>1, <2>3, <3>1, <3>3, <4>1, <4>2
    <3> QED BY <3>2, <3>3
  <2>4. CASE K # 0 /\ g = 1
    <3>1. L # 0 /\ 1 \in 1 .. L /\ ~(1 < g) /\ 1 < g + K /\ 1 - g + 1 = 1
      BY <1>1, <1>2, <1>4, <1>10, <2>4
    <3>2. new[1] = ids[1]
      BY <1>10, <3>1
    <3> QED BY <1>2, <2>1, <2>2, <2>4, <3>1, <3>2 DEF p
  <2>5. CASE g # 1
    <3>1. L # 0 /\ 1 \in 1 .. L /\ 1 < g
      BY <1>1, <1>2, <1>4, <1>10, <2>5
    <3>2. new[1] = old[1]
      BY <1>10, <3>1
    <3> QED BY <1>2, <2>1, <2>2, <2>5, <3>1, <3>2
  <2> QED BY <2>3, <2>4, <2>5
<1>13. /\ \A pages : (\A i \in 1 .. K : ids[i] \in pages) => NewGroups(s, Q, ids, pages)
       /\ \A i \in 1 .. K : \A key \in KeysOf(Q, ids[i]) : \E h \in 1 .. Len(rows) : key = rows[h].key
       /\ \A i \in 1 .. K : \E h \in 1 .. Len(rows) : FirstOf(Q, ids[i]) = rows[h].key
  <2> HIDE DEF SoundSetup
  <2>1. SoundSetup(s) /\ Q \in Images(s) /\ IsChunked(s, Q, ids, rows, z)
    BY <1>2
  <2>2. /\ \A pages : (\A i \in 1 .. Len(ids) : ids[i] \in pages) => NewGroups(s, Q, ids, pages)
        /\ \A i \in 1 .. Len(ids) : \A key \in KeysOf(Q, ids[i]) : \E h \in 1 .. Len(rows) : key = rows[h].key
        /\ \A i \in 1 .. Len(ids) : \E h \in 1 .. Len(rows) : FirstOf(Q, ids[i]) = rows[h].key
    BY ONLY <2>1, ChunkedGroups
  <2> QED BY <2>2 DEF K
<1>14. NewGroups(s, Q, ids, FreePages(P, m, n, g, 1))
  <2>1. \A i \in 1 .. K : ids[i] \in FreePages(P, m, n, g, 1)
    BY <1>2 DEF FreePages
  <2> QED BY <1>13, <2>1
<1>15. \A h \in 1 .. Len(rows) : rows[h].key \in KeysOf(P, p)
  <2> SUFFICES ASSUME NEW h \in 1 .. Len(rows) PROVE rows[h].key \in KeysOf(P, p)
    OBVIOUS
  <2>1. rows[h] \in GroupSlots(P, p)
    <3>1. rows \in Seq(GroupSlots(P, p))
      BY <1>2 DEF Sorts
    <3> QED BY <3>1, ElementOfSeq
  <2> QED BY <2>1 DEF GroupSlots, Living, KeysOf
<1>16. Fits(P, old, Q, g, ids)
  <2> HIDE DEF N, K, p
  <2>1. ASSUME NEW o \in 1 .. N, o < g, NEW key \in KeysOf(P, p), NEW k \in KeysOf(P, old[o]) PROVE k < key
    <3>1. g \in DOMAIN old /\ o \in DOMAIN old /\ g # 1
      BY <1>1, <1>2, <2>1
    <3>2. k < FirstOf(P, p) /\ FirstOf(P, p) <= key
      BY <1>1, <2>1, <3>1 DEF Chained, p
    <3>3. k \in Int /\ key \in Int /\ FirstOf(P, p) \in Int
      BY <1>1, <1>2, <2>1 DEF p
    <3> QED BY <3>2, <3>3
  <2>2. ASSUME NEW o \in 1 .. N, o > g, NEW key \in KeysOf(P, p) PROVE key < FirstOf(P, old[o])
    <3>1. g \in DOMAIN old /\ o \in DOMAIN old /\ g < o
      BY <1>1, <1>2, <2>2
    <3> QED BY <1>1, <3>1 DEF Chained, p
  <2> SUFFICES ASSUME NEW o \in 1 .. N, NEW i \in 1 .. K
               PROVE  /\ o < g => \A key \in KeysOf(P, old[o]) : key < FirstOf(Q, ids[i])
                      /\ o > g => \A key \in KeysOf(Q, ids[i]) : key < FirstOf(P, old[o])
    BY DEF Fits, N, K
  <2>3. FirstOf(Q, ids[i]) \in KeysOf(P, p)
    BY <1>13, <1>15
  <2>4. KeysOf(Q, ids[i]) \subseteq KeysOf(P, p)
    BY <1>13, <1>15
  <2> QED BY <2>1, <2>2, <2>3, <2>4
<1>17. LinkedUp(Q, new)
  BY <1>11 DEF LinkedUp
<1>18. \A o \in 1 .. N : o # g => Keeps(P, Q, old[o])
  BY <1>8
<1> HIDE DEF p, before, K
<1> QED BY <1>2, <1>5, <1>12, <1>14, <1>16, <1>17, <1>18 DEF Splices

(* sequential_file.cpp, split_group: the file is sound again, with the same rows and without the marked
   ones of the group. *)
LEMMA GroupSplit ==
    ASSUME NEW s, SoundSetup(s), NEW P, NEW m, Sound(s, P, m), NEW Q, NEW n, NEW g, NEW ids, NEW firsts, NEW rows, NEW z,
           SplitsGroup(s, P, m, Q, n, g, ids, firsts, rows, z)
    PROVE  Sound(s, Q, n)
<1> DEFINE p == m.main[g]
<1>1. Splices(s, P, m, Q, n, g, 1, ids, firsts)
  BY SplitSplices
<1>2. /\ g \in DOMAIN m.main /\ Q \in Images(s) /\ IsChunked(s, Q, ids, rows, z) /\ Sorts(rows, GroupSlots(P, p))
      /\ n.live = m.live /\ n.deleted = m.deleted - (Cardinality(PlacesOf(P, p)) - Cardinality(Living(P, p)))
  BY DEF SplitsGroup
<1>3. Chained(s, Q, n.main, n.head, n.count) /\ Directory(Q, n)
  BY <1>1, SplicedChain
<1>4. /\ IsFiniteSet(AllLiving(Q, ids))
      /\ IsFiniteSet(GonePlaces(P, m, g, 1)) /\ IsFiniteSet(GoneLiving(P, m, g, 1))
      /\ Cardinality(AllPlaces(Q, n.main)) =
            Cardinality(AllPlaces(P, m.main)) - Cardinality(GonePlaces(P, m, g, 1)) + Cardinality(AllPlaces(Q, ids))
      /\ Cardinality(AllLiving(Q, n.main)) =
            Cardinality(AllLiving(P, m.main)) - Cardinality(GoneLiving(P, m, g, 1)) + Cardinality(AllLiving(Q, ids))
  BY <1>1, SplicedCounts
<1>5. GonePlaces(P, m, g, 1) = PlacesOf(P, p) /\ GoneLiving(P, m, g, 1) = Living(P, p)
  BY DEF GonePlaces, GoneLiving
<1>6. /\ P \in Images(s) /\ Chained(s, P, m.main, m.head, m.count) /\ Sane(s, P, p)
      /\ IsFiniteSet(AllLiving(P, m.main)) /\ IsFiniteSet(AllPlaces(P, m.main))
  <2>1. /\ P \in Images(s) /\ Chained(s, P, m.main, m.head, m.count)
        /\ IsFiniteSet(AllLiving(P, m.main)) /\ IsFiniteSet(AllPlaces(P, m.main))
    BY SoundTypes
  <2>2. Sane(s, P, p)
    BY <1>2, <2>1, SoundTypes
  <2> QED BY <2>1, <2>2
<1>7. AllPlaces(Q, ids) = AllLiving(Q, ids) /\ LiveSlots(Q, ids) = RowsIn(rows)
  BY <1>2, ChunkedGroups
<1>8. RowsIn(rows) = GroupSlots(P, p)
  <2>1. \A h \in 1 .. Len(rows) : rows[h] \in GroupSlots(P, p)
    BY <1>2, ElementOfSeq DEF Sorts
  <2>2. \A x \in GroupSlots(P, p) : \E h \in 1 .. Len(rows) : rows[h] = x
    BY <1>2 DEF Sorts
  <2> QED BY <2>1, <2>2 DEF RowsIn
<1> HIDE DEF p
<1>9. Cardinality(AllLiving(Q, ids)) = Cardinality(Living(P, p))
  <2>1. NewGroups(s, Q, ids, FreePages(P, m, n, g, 1))
    BY <1>1 DEF Splices
  <2>2. Cardinality(LiveSlots(Q, ids)) = Cardinality(AllLiving(Q, ids))
    BY <1>2, <1>4, <2>1, NewRows
  <2>3. Cardinality(GroupSlots(P, p)) = Cardinality(Living(P, p))
    BY <1>4, <1>5, <1>6, GroupCards
  <2> QED BY <1>7, <1>8, <2>2, <2>3
<1>10. /\ Cardinality(AllLiving(P, m.main)) \in Nat /\ Cardinality(AllPlaces(P, m.main)) \in Nat
       /\ Cardinality(Living(P, p)) \in Nat /\ Cardinality(PlacesOf(P, p)) \in Nat
  BY <1>4, <1>5, <1>6, FS_CardinalityType
<1>11. /\ Cardinality(AllPlaces(Q, n.main)) =
             Cardinality(AllPlaces(P, m.main)) - Cardinality(PlacesOf(P, p)) + Cardinality(Living(P, p))
       /\ Cardinality(AllLiving(Q, n.main)) = Cardinality(AllLiving(P, m.main))
  BY <1>4, <1>5, <1>7, <1>9, <1>10
<1>12. m.live = Cardinality(AllLiving(P, m.main))
       /\ m.deleted = Cardinality(AllPlaces(P, m.main)) - Cardinality(AllLiving(P, m.main))
  BY DEF Sound
<1>13. n.live = Cardinality(AllLiving(Q, n.main))
       /\ n.deleted = Cardinality(AllPlaces(Q, n.main)) - Cardinality(AllLiving(Q, n.main))
  <2>1. n.deleted = m.deleted - (Cardinality(PlacesOf(P, p)) - Cardinality(Living(P, p))) /\ n.live = m.live
    BY <1>2 DEF p
  <2> QED BY <1>10, <1>11, <1>12, <2>1
<1> QED BY <1>2, <1>3, <1>13 DEF Sound

===============================================================================
