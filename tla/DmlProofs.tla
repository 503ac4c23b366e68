------------------------------- MODULE DmlProofs -------------------------------
(***************************************************************************)
(* What is proved of insert_with_indexes and delete_with_indexes, for any  *)
(* keys, values, slots, secondary indexes and calls: when one native call  *)
(* fails, wherever it does, a call that raises leaves the rows it found    *)
(* and every index mirrors the rows, those that were put back at another   *)
(* RID included.                                                           *)
(***************************************************************************)
EXTENDS DmlFaults, NatLemmas, SequenceTheorems

-------------------------------------------------------------------------------
(* The slots of a scan can be put in order. *)
LEMMA ScanIsInOrder ==
    ASSUME NEW ss \in SUBSET Slot, ss # {}
    PROVE  /\ BySlot(ss) \in Seq(ss)
           /\ Len(BySlot(ss)) >= 1
           /\ \A i, j \in DOMAIN BySlot(ss) : BySlot(ss)[i] = BySlot(ss)[j] => i = j
<1> DEFINE n == Cardinality(ss)
           q == BySlot(ss)
<1>1. Slots \in Nat /\ ss \in SUBSET (0 .. Slots)
  BY PageAssumption DEF Slot
<1>2. IsFiniteSet(ss) /\ n \in Nat /\ n # 0
  <2>1. IsFiniteSet(0 .. Slots)
    BY <1>1, FS_Interval
  <2>2. IsFiniteSet(ss)
    BY <1>1, <2>1, FS_Subset
  <2> QED BY <2>2, FS_CardinalityType, FS_EmptySet
<1>3. q \in [1 .. n -> ss] /\ \A i, j \in DOMAIN q : i < j => q[i] < q[j]
  <2>1. \E f \in [1 .. n -> ss] : \A i, j \in DOMAIN f : i < j => f[i] < f[j]
    <3>1. \E f \in [1 .. n -> ss] : \A i, j \in 1 .. n : i < j => f[i] < f[j]
      BY <1>1, <1>2, Enumeration
    <3> HIDE DEF n
    <3> QED BY <3>1
  <2> HIDE DEF n
  <2> QED BY <2>1 DEF BySlot, n
<1> HIDE DEF q, n
<1>4. q \in Seq(ss) /\ Len(q) = n
  BY <1>2, <1>3, SeqDef, LenProperties
<1>5. ASSUME NEW i \in DOMAIN q, NEW j \in DOMAIN q, q[i] = q[j] PROVE i = j
  <2>1. \A x \in ss : x \in Int
    BY <1>1
  <2>2. i \in 1 .. n /\ j \in 1 .. n /\ q[i] \in Int
    BY <1>3, <2>1
  <2>3. i \in Int /\ j \in Int
    BY <1>2, <2>2
  <2> QED BY <1>3, <1>5, <2>2, <2>3
<1> QED BY <1>2, <1>4, <1>5 DEF q

-------------------------------------------------------------------------------
(* Types. *)
Entries == [val : Val, slot : Slot]

Pages == [Slot -> Row \cup {NoRow}]

Indices == [Secondary -> SUBSET Entries]

(* A call has its candidates, and for each the RID it was put back at, if any. *)
Calls ==
    [kind : {"insert", "delete"},
     phase : {"add", "unadd", "removeEntries", "removeRows", "restoreRows", "restoreEntries"},
     pos : Nat, cs : Seq(Candidate), rowsGone : Nat, entriesGone : Nat,
     restored : Seq(0 .. Slots)]

TypeOK ==
    /\ slots \in Pages
    /\ entries \in Indices
    /\ before \in [slots : Pages, entries : Indices]
    /\ call \in {NoCall} \cup Calls
    /\ answer \in {"none", "ok", "raised"}
    /\ stale \in BOOLEAN

-------------------------------------------------------------------------------
(* The rows. *)
UniqueIn(page) ==
    \A s, t \in Slot : page[s] # NoRow /\ page[t] # NoRow /\ page[s].key = page[t].key => s = t

(* The slots of the first n candidates, and the page without their rows. *)
Gone(n) == {call.cs[m].slot : m \in 1 .. n}

PageWithout(n) == [s \in Slot |-> IF s \in Gone(n) THEN NoRow ELSE before.slots[s]]

(* The candidates were read from the table, each at its slot. *)
ReadFromTable ==
    /\ \A n \in DOMAIN call.cs : before.slots[call.cs[n].slot] = call.cs[n].row
    /\ \A m, n \in DOMAIN call.cs : call.cs[m].slot = call.cs[n].slot => m = n

(* The rows from p + 1 on of those that were removed are back, each at the RID
   the table gave it, and the others are as they were. *)
BackFrom(p) ==
    LET back == {call.restored[n] : n \in (p + 1) .. call.rowsGone}
    IN  /\ \A n \in (p + 1) .. call.rowsGone :
              /\ call.restored[n] \in Slot
              /\ slots[call.restored[n]] = call.cs[n].row
              /\ PageWithout(call.rowsGone)[call.restored[n]] = NoRow
        /\ \A s \in Slot \ back : slots[s] = PageWithout(call.rowsGone)[s]

InsertRows ==
    call.kind = "insert" =>
        /\ Len(call.cs) = 1
        /\ call.phase \in {"add", "unadd"}
        /\ before.slots[call.cs[1].slot] = NoRow
        /\ slots = [before.slots EXCEPT ![call.cs[1].slot] = call.cs[1].row]
        /\ call.phase = "unadd" => faults = 1

DeleteRows ==
    call.kind = "delete" =>
        /\ Len(call.cs) >= 1 /\ Len(call.restored) = Len(call.cs)
        /\ Len(call.cs) = 1 \/ ReadFromTable
        /\ call.phase \in {"removeEntries", "removeRows", "restoreRows", "restoreEntries"}
        /\ call.rowsGone < Len(call.cs)
        /\ call.rowsGone > 0 => faults = 1 /\ ReadFromTable
        /\ call.phase = "removeEntries" =>
              call.pos \in 1 .. Len(call.cs) * Indexes /\ slots = before.slots
        /\ call.phase = "removeRows" =>
              /\ call.pos \in 1 .. Len(call.cs)
              /\ call.pos > 1 => ReadFromTable
              /\ slots = PageWithout(call.pos - 1)
        /\ call.phase \in {"restoreRows", "restoreEntries"} =>
              call.entriesGone <= Len(call.cs) * Indexes
        /\ call.phase = "restoreRows" => call.pos <= call.rowsGone /\ BackFrom(call.pos)
        /\ call.phase = "restoreEntries" => call.pos <= call.entriesGone /\ BackFrom(0)

RowsInv ==
    /\ UniqueIn(slots) /\ UniqueIn(before.slots)
    /\ InsertRows
    /\ DeleteRows
    /\ answer = "raised" => call = NoCall /\ Rows(slots) = Rows(before.slots)

-------------------------------------------------------------------------------
(* The entries. *)
Mirror(page) == {[val |-> page[s].val, slot |-> s] : s \in {t \in Slot : page[t] # NoRow}}

(* The entries of index i in the first p steps of a delete, as they were and as
   they come back. *)
Steps(i, first, last) == {m \in first .. last : IndexOf(m) = i}

Visited(i, p) == {EntryFor(call.cs[CandidateOf(m)]) : m \in Steps(i, 1, p)}

Returned(i, p) ==
    {[val |-> call.cs[CandidateOf(m)].row.val, slot |-> RestoredRid(CandidateOf(m))] :
        m \in Steps(i, p + 1, call.entriesGone)}

InsertEntries ==
    call.kind = "insert" =>
        LET e == EntryFor(call.cs[1])
        IN  /\ call.phase = "add" =>
                  /\ call.pos \in Secondary
                  /\ \A i \in Secondary :
                        entries[i] = Mirror(before.slots) \cup (IF i < call.pos THEN {e} ELSE {})
            /\ call.phase = "unadd" =>
                  \A i \in Secondary :
                     IF i > call.pos THEN entries[i] = Mirror(before.slots)
                     ELSE entries[i] \in {Mirror(before.slots), Mirror(before.slots) \cup {e}}

DeleteEntries ==
    call.kind = "delete" =>
        LET all == Len(call.cs) * Indexes
        IN  /\ ReadFromTable
            /\ call.phase = "removeEntries" =>
                  \A i \in Secondary :
                     entries[i] = Mirror(before.slots) \ Visited(i, call.pos - 1)
            /\ call.phase = "removeRows" =>
                  \A i \in Secondary : entries[i] = Mirror(before.slots) \ Visited(i, all)
            /\ call.phase \in {"restoreRows", "restoreEntries"} =>
                  faults = 1 /\ (call.rowsGone > 0 => call.entriesGone = all)
            /\ call.phase = "restoreRows" =>
                  \A i \in Secondary :
                     entries[i] = Mirror(before.slots) \ Visited(i, call.entriesGone)
            /\ call.phase = "restoreEntries" =>
                  \A i \in Secondary :
                     entries[i] = (Mirror(before.slots) \ Visited(i, call.entriesGone))
                                  \cup Returned(i, call.pos)

EntriesInv ==
    /\ call = NoCall => \A i \in Secondary : entries[i] = Mirror(slots)
    /\ InsertEntries
    /\ DeleteEntries

(* One native call at most has failed: a second one may stop the reversion that
   makes up for the first. *)
DmlInv ==
    /\ faults \in Nat
    /\ faults <= 1 => TypeOK /\ RowsInv
    /\ faults <= 1 /\ ~stale => EntriesInv

-------------------------------------------------------------------------------
(* Where a row can be put, and the steps of the loops. *)
LEMMA FreeSlotIsFree ==
    ASSUME slots \in Pages, UniqueIn(slots), NEW k \in Key, SlotOfKey(k) = {}
    PROVE  FreeSlot \in Slot /\ slots[FreeSlot] = NoRow
<1> DEFINE free == {s \in Slot : slots[s] = NoRow}
<1>1. free # {}
  <2> SUFFICES ASSUME free = {} PROVE FALSE
    OBVIOUS
  <2> DEFINE f == [s \in Slot |-> slots[s].key]
             others == Key \ {k}
  <2>1. \A s \in Slot : slots[s] \in Row /\ slots[s] # NoRow /\ slots[s].key \in others
    BY DEF Pages, Row, SlotOfKey
  <2>2. f \in Injection(Slot, others)
    BY <2>1 DEF Injection, IsInjective, UniqueIn
  <2>3. IsFiniteSet(Key) /\ Slots \in Nat /\ Cardinality(Key) <= Slots
    BY PageAssumption
  <2>4. IsFiniteSet(others) /\ Cardinality(others) = Cardinality(Key) - 1 /\ Cardinality(Key) \in Nat
    BY <2>3, FS_RemoveElement, FS_CardinalityType
  <2>5. IsFiniteSet(Slot) /\ Cardinality(Slot) = Slots
    BY <2>3, FS_Interval DEF Slot
  <2>6. Cardinality(Slot) <= Cardinality(others)
    BY <2>2, <2>4, FS_Injection
  <2> QED BY <2>3, <2>4, <2>5, <2>6
<1>2. FreeSlot = CHOOSE i \in free : \A j \in free : i <= j
  <2>1. free = Slot \ UsedSlots(TableWith(slots, entries, 1))
    BY DEF UsedSlots, TableWith
  <2> QED BY <2>1 DEF FreeSlot, FirstFree
<1>3. free \in SUBSET Nat
  BY PageAssumption DEF Slot
<1> HIDE DEF free
<1>4. \E i \in free : \A j \in free : i <= j
  BY <1>1, <1>3, LeastOf
<1>5. FreeSlot \in free
  BY <1>2, <1>4
<1> QED BY <1>5 DEF free

LEMMA StepsOfTheLoops ==
    ASSUME Indexes \in Nat \ {0}, NEW n \in Nat
    PROVE  /\ n * Indexes \in Nat
           /\ n >= 1 => n * Indexes >= 1
           /\ \A m \in 1 .. n * Indexes : CandidateOf(m) \in 1 .. n /\ IndexOf(m) \in Secondary
           /\ \A m, o \in 1 .. n * Indexes :
                 CandidateOf(m) = CandidateOf(o) /\ IndexOf(m) = IndexOf(o) => m = o
           /\ \A c \in 1 .. n, i \in Secondary :
                 \E m \in 1 .. n * Indexes : CandidateOf(m) = c /\ IndexOf(m) = i
<1> DEFINE I == Indexes
<1>1. n * I \in Nat /\ (n >= 1 => n * I >= 1)
  OBVIOUS
<1>2. ASSUME NEW m \in 1 .. n * I PROVE CandidateOf(m) \in 1 .. n /\ IndexOf(m) \in Secondary
  <2>1. m - 1 \in Nat /\ m - 1 < n * I
    BY <1>1
  <2>2. (m - 1) \div I \in Nat /\ (m - 1) \div I < n /\ (m - 1) % I \in 0 .. I - 1
    BY <2>1
  <2> QED BY <2>2 DEF CandidateOf, IndexOf, Secondary
<1>3. ASSUME NEW m \in 1 .. n * I, NEW o \in 1 .. n * I,
             CandidateOf(m) = CandidateOf(o), IndexOf(m) = IndexOf(o)
      PROVE  m = o
  <2> DEFINE a == m - 1
             b == o - 1
  <2>1. a \in Nat /\ b \in Nat
    BY <1>1
  <2>2. a \div I \in Nat /\ b \div I \in Nat /\ a % I \in Nat /\ b % I \in Nat
    BY <2>1
  <2>3. a \div I = b \div I /\ a % I = b % I
    BY <1>3, <2>2 DEF CandidateOf, IndexOf
  <2>4. a = b
    <3> HIDE DEF a, b
    <3> QED BY <2>1, <2>3
  <2> QED BY <1>1, <2>4
<1>4. ASSUME NEW c \in 1 .. n, NEW i \in Secondary
      PROVE  \E m \in 1 .. n * I : CandidateOf(m) = c /\ IndexOf(m) = i
  <2> DEFINE a == (c - 1) * I + (i - 1)
  <2>1. c - 1 \in Nat /\ i - 1 \in 0 .. I - 1 /\ c - 1 < n
    BY DEF Secondary
  <2>2. a \in Nat /\ a \div I = c - 1 /\ a % I = i - 1
    BY <2>1, SMTT(30)
  <2>3. a < n * I
    <3>1. (c - 1) + 1 <= n
      BY <2>1
    <3>2. ((c - 1) + 1) * I <= n * I
      BY <2>1, <3>1
    <3> QED BY <1>1, <2>1, <3>2
  <2> HIDE DEF a
  <2>4. a + 1 \in 1 .. n * I /\ (a + 1) - 1 = a
    BY <1>1, <2>2, <2>3
  <2>5. CandidateOf(a + 1) = c /\ IndexOf(a + 1) = i
    BY <2>2, <2>4 DEF CandidateOf, IndexOf, Secondary
  <2> QED BY <2>4, <2>5
<1> QED BY <1>1, <1>2, <1>3, <1>4

(* A call that goes on keeps everything but its phase and its step. *)
LEMMA CallGoesOn ==
    ASSUME call \in Calls, NEW p \in Nat,
           NEW ph \in {"add", "unadd", "removeEntries", "removeRows", "restoreRows", "restoreEntries"},
           Continue(ph, p)
    PROVE  /\ call' \in Calls /\ call' # NoCall
           /\ call'.phase = ph /\ call'.pos = p
           /\ call'.kind = call.kind /\ call'.cs = call.cs
           /\ call'.rowsGone = call.rowsGone /\ call'.entriesGone = call.entriesGone
           /\ call'.restored = call.restored
<1>1. /\ call' \in Calls
      /\ call'.phase = ph /\ call'.pos = p
      /\ call'.kind = call.kind /\ call'.cs = call.cs
      /\ call'.rowsGone = call.rowsGone /\ call'.entriesGone = call.entriesGone
      /\ call'.restored = call.restored
  BY DEF Calls, Continue
<1>2. call'.kind # "none"
  BY <1>1 DEF Calls
<1> QED BY <1>1, <1>2 DEF NoCall

(* A row that is put in a free slot brings one entry, which was not there. *)
LEMMA OneMoreRow ==
    ASSUME NEW page \in Pages, NEW s \in Slot, page[s] = NoRow, NEW r \in Row
    PROVE  /\ Mirror([page EXCEPT ![s] = r]) = Mirror(page) \cup {[val |-> r.val, slot |-> s]}
           /\ [val |-> r.val, slot |-> s] \notin Mirror(page)
           /\ [[page EXCEPT ![s] = r] EXCEPT ![s] = NoRow] = page
           /\ [page EXCEPT ![s] = r] \in Pages
           /\ Mirror(page) \in SUBSET Entries
<1> DEFINE new == [page EXCEPT ![s] = r]
           e == [val |-> r.val, slot |-> s]
<1>1. new \in Pages /\ [new EXCEPT ![s] = NoRow] = page
  BY DEF Pages
<1>2. e \notin Mirror(page)
  BY DEF Mirror
<1>3. \A x : x \in Mirror(new) <=> x \in Mirror(page) \/ x = e
  <2>1. r # NoRow
    BY NoRowIsNoRow
  <2>2. \A t \in Slot : new[t] = IF t = s THEN r ELSE page[t]
    BY DEF Pages
  <2> HIDE DEF new
  <2> QED BY <2>1, <2>2 DEF Mirror
<1>4. Mirror(page) \in SUBSET Entries
  <2>1. \A t \in Slot : page[t] # NoRow => page[t] \in Row /\ page[t].val \in Val
    BY DEF Pages, Row
  <2> QED BY <2>1 DEF Mirror, Entries
<1> HIDE DEF new
<1>5. Mirror(new) = Mirror(page) \cup {e}
  BY <1>3
<1> QED BY <1>1, <1>2, <1>4, <1>5 DEF new

-------------------------------------------------------------------------------
(* What the steps of an INSERT leave. *)
LEMMA InsertRowKeeps ==
    ASSUME Indexes \in Nat \ {0}, TypeOK, RowsInv, ~stale => EntriesInv,
           NEW r \in Row, InsertRow(r)
    PROVE  TypeOK' /\ RowsInv' /\ (~stale' => EntriesInv')
<1> DEFINE f == FreeSlot
           c == [slot |-> f, row |-> r]
<1>1. call = NoCall /\ SlotOfKey(r.key) = {} /\ slots \in Pages /\ entries \in Indices
      /\ UniqueIn(slots) /\ r.key \in Key
  BY DEF InsertRow, Enter, TypeOK, RowsInv, Row
<1>2. f \in Slot /\ slots[f] = NoRow
  BY <1>1, FreeSlotIsFree
<1>3. /\ call' = [kind |-> "insert", phase |-> "add", pos |-> 1, cs |-> <<c>>,
                  rowsGone |-> 0, entriesGone |-> 0, restored |-> [n \in DOMAIN <<c>> |-> 0]]
      /\ answer' = "none" /\ before' = [slots |-> slots, entries |-> entries]
      /\ slots' = [slots EXCEPT ![f] = r] /\ entries' = entries
      /\ faults' = faults /\ stale' = stale
  BY DEF InsertRow, Enter
<1> HIDE DEF f
<1>4. slots' \in Pages
  BY <1>1, <1>2, <1>3, OneMoreRow
<1>5. call' \in Calls
  <2>1. <<c>> \in Seq(Candidate)
    BY <1>2 DEF Candidate
  <2>2. [n \in DOMAIN <<c>> |-> 0] \in Seq(0 .. Slots)
    <3>1. DOMAIN <<c>> = 1 .. 1
      OBVIOUS
    <3>2. 0 \in 0 .. Slots
      BY PageAssumption
    <3> QED BY <3>1, <3>2, SeqDef
  <2> HIDE DEF c
  <2> QED BY <1>3, <2>1, <2>2 DEF Calls
<1>6. TypeOK'
  BY <1>1, <1>3, <1>4, <1>5 DEF TypeOK
<1>7. /\ call'.kind = "insert" /\ call'.phase = "add" /\ call'.pos = 1
      /\ Len(call'.cs) = 1 /\ call'.cs[1] = c /\ c.slot = f /\ c.row = r
      /\ call' # NoCall
  BY <1>3 DEF NoCall
<1>8. RowsInv'
  <2>1. UniqueIn(slots')
    <3>1. \A s \in Slot : slots'[s] = IF s = f THEN r ELSE slots[s]
      BY <1>1, <1>3 DEF Pages
    <3>2. \A s \in Slot : slots[s] # NoRow => slots[s].key # r.key
      BY <1>1 DEF SlotOfKey
    <3> QED BY <1>1, <1>2, <3>1, <3>2 DEF UniqueIn
  <2>2. before'.slots = slots
    BY <1>3
  <2>3. InsertRows' /\ DeleteRows'
    BY <1>2, <1>3, <1>7, <2>2 DEF InsertRows, DeleteRows
  <2> QED BY <1>1, <1>3, <2>1, <2>2, <2>3 DEF RowsInv, UniqueIn
<1>9. ASSUME ~stale' PROVE EntriesInv'
  <2>1. \A i \in Secondary : entries[i] = Mirror(slots)
    BY <1>1, <1>3, <1>9 DEF EntriesInv
  <2>2. before'.slots = slots
    BY <1>3
  <2>3. InsertEntries'
    <3>1. call'.pos \in Secondary
      BY <1>7 DEF Secondary
    <3>2. \A i \in Secondary : ~(i < 1)
      BY DEF Secondary
    <3>3. \A i \in Secondary : entries'[i] = Mirror(before'.slots) \cup {}
      BY <1>3, <2>1, <2>2
    <3> QED BY <1>7, <3>1, <3>2, <3>3 DEF InsertEntries, Mirror
  <2> QED BY <1>7, <2>3 DEF EntriesInv, DeleteEntries
<1> QED BY <1>6, <1>8, <1>9

LEMMA AddEntryKeeps ==
    ASSUME Indexes \in Nat \ {0}, faults \in Nat, faults' <= 1,
           TypeOK, RowsInv, ~stale => EntriesInv, AddEntry
    PROVE  TypeOK' /\ RowsInv' /\ (~stale' => EntriesInv')
<1> DEFINE e == EntryFor(call.cs[1])
           M == Mirror(before.slots)
           s == call.cs[1].slot
           r == call.cs[1].row
<1>1. /\ call.kind = "insert" /\ call.phase = "add" /\ call # NoCall /\ call \in Calls
      /\ slots' = slots /\ before' = before /\ stale' = stale
      /\ slots \in Pages /\ entries \in Indices /\ before \in [slots : Pages, entries : Indices]
      /\ answer \in {"none", "ok", "raised"} /\ stale \in BOOLEAN
      /\ before.slots \in Pages
  BY DEF AddEntry, TypeOK, NoCall
<1>2. /\ Len(call.cs) = 1 /\ before.slots[s] = NoRow
      /\ slots = [before.slots EXCEPT ![s] = r]
      /\ answer # "raised" /\ UniqueIn(slots) /\ UniqueIn(before.slots)
  BY <1>1 DEF RowsInv, InsertRows
<1>3. call.cs[1] \in Candidate /\ s \in Slot /\ r \in Row
  <2>1. call.cs \in Seq(Candidate)
    BY <1>1 DEF Calls
  <2>2. call.cs[1] \in Candidate
    BY <1>2, <2>1
  <2> QED BY <2>2 DEF Candidate
<1>4. e \in Entries /\ e = [val |-> r.val, slot |-> s]
  BY <1>3 DEF EntryFor, Entries, Row
<1>5. M \in SUBSET Entries /\ Mirror(slots) = M \cup {e} /\ e \notin M
  BY <1>1, <1>2, <1>3, <1>4, OneMoreRow
<1>6. /\ Added \in Indices
      /\ \A i \in Secondary : Added[i] = IF i = call.pos THEN entries[i] \cup {e} ELSE entries[i]
  <2> HIDE DEF e
  <2>1. Added = [entries EXCEPT ![call.pos] = @ \cup {e}]
    BY DEF Added, e
  <2> QED BY <1>1, <1>4, <2>1 DEF Indices
<1>7. ASSUME ~stale
      PROVE  /\ call.pos \in Secondary
             /\ \A i \in Secondary : entries[i] = M \cup (IF i < call.pos THEN {e} ELSE {})
  BY <1>1, <1>7 DEF EntriesInv, InsertEntries
<1> HIDE DEF e, M, s, r
<1>8. call.pos \in Nat
  BY <1>1 DEF Calls
<1>9. CASE /\ entries' = Added /\ call.pos = Indexes /\ Ends("ok")
  <2>1. TypeOK'
    BY <1>1, <1>6, <1>9 DEF TypeOK, Ends
  <2>2. RowsInv'
    BY <1>1, <1>2, <1>9 DEF RowsInv, InsertRows, DeleteRows, UniqueIn, Ends, NoCall
  <2>3. ASSUME ~stale PROVE \A i \in Secondary : entries'[i] = M \cup {e}
    <3> SUFFICES ASSUME NEW i \in Secondary PROVE Added[i] = M \cup {e}
      BY <1>9
    <3>1. i = call.pos \/ i < call.pos
      BY <1>9 DEF Secondary
    <3> QED BY <1>6, <1>7, <2>3, <3>1
  <2>4. ASSUME ~stale PROVE EntriesInv'
    <3>1. \A i \in Secondary : entries'[i] = Mirror(slots')
      BY <1>1, <1>5, <2>3, <2>4
    <3> QED BY <1>9, <3>1 DEF EntriesInv, InsertEntries, DeleteEntries, Ends, NoCall, Mirror
  <2> QED BY <1>1, <2>1, <2>2, <2>4
<1>10. CASE /\ entries' = Added /\ call.pos # Indexes
            /\ Continue("add", call.pos + 1) /\ answer' = answer /\ NoFault
  <2>1. /\ call' \in Calls /\ call' # NoCall /\ call'.phase = "add" /\ call'.pos = call.pos + 1
        /\ call'.kind = call.kind /\ call'.cs = call.cs
    <3>1. call.pos + 1 \in Nat
      BY <1>8
    <3> QED BY <1>1, <1>10, <3>1, CallGoesOn
  <2>2. TypeOK'
    BY <1>1, <1>6, <1>10, <2>1 DEF TypeOK
  <2>3. RowsInv'
    BY <1>1, <1>2, <1>10, <2>1 DEF RowsInv, InsertRows, DeleteRows, UniqueIn, s, r
  <2>4. ASSUME ~stale PROVE EntriesInv'
    <3>1. call'.pos \in Secondary
      BY <1>7, <1>10, <2>1, <2>4 DEF Secondary
    <3>2. ASSUME NEW i \in Secondary
          PROVE  entries'[i] = M \cup (IF i < call'.pos THEN {e} ELSE {})
      <4>1. i < call'.pos <=> i < call.pos \/ i = call.pos
        BY <1>8, <2>1 DEF Secondary
      <4>2. i = call.pos => ~(i < call.pos)
        BY <1>8
      <4> QED BY <1>6, <1>7, <1>10, <2>4, <4>1, <4>2
    <3> QED BY <1>1, <2>1, <3>1, <3>2 DEF EntriesInv, InsertEntries, DeleteEntries, M, e, Mirror, EntryFor
  <2> QED BY <1>1, <2>2, <2>3, <2>4
<1>11. CASE /\ entries' \in {entries, Added} /\ Fault
            /\ Continue("unadd", call.pos) /\ answer' = answer
  <2>1. /\ call' \in Calls /\ call' # NoCall /\ call'.phase = "unadd" /\ call'.pos = call.pos
        /\ call'.kind = call.kind /\ call'.cs = call.cs
    BY <1>1, <1>8, <1>11, CallGoesOn
  <2>2. TypeOK'
    BY <1>1, <1>6, <1>11, <2>1 DEF TypeOK
  <2>3. faults' = 1
    BY <1>11 DEF Fault
  <2>4. RowsInv'
    BY <1>1, <1>2, <1>11, <2>1, <2>3 DEF RowsInv, InsertRows, DeleteRows, UniqueIn, s, r
  <2>5. ASSUME ~stale PROVE EntriesInv'
    <3>1. ASSUME NEW i \in Secondary
          PROVE  IF i > call'.pos THEN entries'[i] = M ELSE entries'[i] \in {M, M \cup {e}}
      <4>1. i \in Nat
        BY DEF Secondary
      <4>2. entries[i] = M \cup (IF i < call.pos THEN {e} ELSE {})
        BY <1>7, <2>5
      <4>3. entries'[i] = entries[i] \/ (i = call.pos /\ entries'[i] = entries[i] \cup {e})
        BY <1>6, <1>11
      <4>4. CASE i > call.pos
        <5>1. ~(i < call.pos) /\ i # call.pos
          BY <1>8, <4>1, <4>4
        <5> QED BY <2>1, <4>2, <4>3, <5>1
      <4>5. CASE ~(i > call.pos)
        BY <2>1, <4>2, <4>3, <4>5
      <4> QED BY <4>4, <4>5
    <3> QED BY <1>1, <2>1, <3>1 DEF EntriesInv, InsertEntries, DeleteEntries, M, e, Mirror, EntryFor
  <2> QED BY <1>1, <2>2, <2>4, <2>5
<1> QED BY <1>9, <1>10, <1>11 DEF AddEntry

LEMMA UnaddEntryKeeps ==
    ASSUME Indexes \in Nat \ {0}, faults \in Nat, faults' <= 1,
           TypeOK, RowsInv, ~stale => EntriesInv, UnaddEntry
    PROVE  TypeOK' /\ RowsInv' /\ (~stale' => EntriesInv')
<1> DEFINE e == EntryFor(call.cs[1])
           M == Mirror(before.slots)
           s == call.cs[1].slot
           r == call.cs[1].row
<1>1. /\ call.kind = "insert" /\ call.phase = "unadd" /\ call # NoCall /\ call \in Calls
      /\ slots' = slots /\ before' = before /\ stale' = stale /\ answer' = answer
      /\ slots \in Pages /\ entries \in Indices /\ before \in [slots : Pages, entries : Indices]
      /\ answer \in {"none", "ok", "raised"} /\ stale \in BOOLEAN
      /\ before.slots \in Pages
  BY DEF UnaddEntry, TypeOK, NoCall
<1>2. /\ Len(call.cs) = 1 /\ before.slots[s] = NoRow
      /\ slots = [before.slots EXCEPT ![s] = r]
      /\ answer # "raised" /\ UniqueIn(slots) /\ UniqueIn(before.slots) /\ faults = 1
  BY <1>1 DEF RowsInv, InsertRows
<1>3. call.cs[1] \in Candidate /\ s \in Slot /\ r \in Row
  <2>1. call.cs \in Seq(Candidate)
    BY <1>1 DEF Calls
  <2>2. call.cs[1] \in Candidate
    BY <1>2, <2>1
  <2> QED BY <2>2 DEF Candidate
<1>4. e = [val |-> r.val, slot |-> s]
  BY DEF EntryFor
<1>5. e \notin M
  BY <1>1, <1>2, <1>3, <1>4, OneMoreRow
<1>6. ~Fault
  BY <1>2 DEF Fault
<1>7. entries' \in Indices /\ faults' = faults
      /\ \A i \in Secondary : entries'[i] = IF i = call.pos THEN entries[i] \ {e} ELSE entries[i]
  <2>1. entries' = [entries EXCEPT ![call.pos] = @ \ {e}]
    BY <1>6 DEF UnaddEntry
  <2> HIDE DEF e
  <2> QED BY <1>1, <1>6, <2>1 DEF Indices, UnaddEntry, NoFault
<1>8. call.pos \in Nat /\ call.pos > 0 /\ call.pos - 1 \in Nat
  BY <1>1 DEF Calls, UnaddEntry
<1>9. /\ call' \in Calls /\ call' # NoCall /\ call'.phase = "unadd" /\ call'.pos = call.pos - 1
      /\ call'.kind = call.kind /\ call'.cs = call.cs
  BY <1>1, <1>8, CallGoesOn DEF UnaddEntry
<1>10. TypeOK'
  BY <1>1, <1>7, <1>9 DEF TypeOK
<1>11. RowsInv'
  BY <1>1, <1>2, <1>7, <1>9 DEF RowsInv, InsertRows, DeleteRows, UniqueIn
<1>12. ASSUME ~stale PROVE EntriesInv'
  <2>1. \A i \in Secondary :
           IF i > call.pos THEN entries[i] = M ELSE entries[i] \in {M, M \cup {e}}
    BY <1>1, <1>12 DEF EntriesInv, InsertEntries
  <2> HIDE DEF e, M
  <2>2. ASSUME NEW i \in Secondary
        PROVE  IF i > call'.pos THEN entries'[i] = M ELSE entries'[i] \in {M, M \cup {e}}
    <3>1. i \in Nat /\ (i > call'.pos <=> i = call.pos \/ i > call.pos)
      BY <1>8, <1>9 DEF Secondary
    <3>2. CASE i = call.pos
      <4>1. entries[i] \in {M, M \cup {e}}
        BY <1>8, <2>1, <3>2
      <4> QED BY <1>5, <1>7, <3>1, <3>2, <4>1
    <3>3. CASE i # call.pos
      BY <1>7, <2>1, <3>1, <3>3
    <3> QED BY <3>2, <3>3
  <2> QED BY <1>1, <1>9, <2>2 DEF EntriesInv, InsertEntries, DeleteEntries, M, e, Mirror, EntryFor
<1> QED BY <1>1, <1>10, <1>11, <1>12

LEMMA UninsertRowKeeps ==
    ASSUME Indexes \in Nat \ {0}, faults \in Nat, faults' <= 1,
           TypeOK, RowsInv, ~stale => EntriesInv, UninsertRow
    PROVE  TypeOK' /\ RowsInv' /\ (~stale' => EntriesInv')
<1> DEFINE s == call.cs[1].slot
           r == call.cs[1].row
<1>1. /\ call.kind = "insert" /\ call.phase = "unadd" /\ call # NoCall /\ call \in Calls
      /\ call.pos = 0 /\ entries' = entries /\ before' = before /\ stale' = stale
      /\ call' = NoCall /\ answer' = "raised"
      /\ slots \in Pages /\ entries \in Indices /\ before \in [slots : Pages, entries : Indices]
      /\ stale \in BOOLEAN /\ before.slots \in Pages
  BY DEF UninsertRow, TypeOK, NoCall, Ends
<1>2. /\ Len(call.cs) = 1 /\ before.slots[s] = NoRow
      /\ slots = [before.slots EXCEPT ![s] = r]
      /\ UniqueIn(before.slots) /\ faults = 1
  BY <1>1 DEF RowsInv, InsertRows
<1>3. s \in Slot /\ r \in Row
  <2>1. call.cs \in Seq(Candidate)
    BY <1>1 DEF Calls
  <2>2. call.cs[1] \in Candidate
    BY <1>2, <2>1
  <2> QED BY <2>2 DEF Candidate
<1>4. slots' = before.slots
  <2>1. slots' = [slots EXCEPT ![s] = NoRow]
    BY <1>2 DEF UninsertRow, Fault
  <2> HIDE DEF s, r
  <2> QED BY <1>1, <1>2, <1>3, <2>1, OneMoreRow
<1>5. TypeOK'
  BY <1>1, <1>4 DEF TypeOK
<1>6. RowsInv'
  BY <1>1, <1>2, <1>4 DEF RowsInv, InsertRows, DeleteRows, UniqueIn, NoCall, Rows
<1>7. ASSUME ~stale PROVE EntriesInv'
  <2>1. \A i \in Secondary : entries[i] = Mirror(before.slots)
    <3>1. \A i \in Secondary : i > call.pos
      BY <1>1 DEF Secondary
    <3> QED BY <1>1, <1>7, <3>1 DEF EntriesInv, InsertEntries
  <2> QED BY <1>1, <1>4, <2>1 DEF EntriesInv, InsertEntries, DeleteEntries, NoCall, Mirror
<1> QED BY <1>1, <1>5, <1>6, <1>7

-------------------------------------------------------------------------------
(* How a DELETE starts: with rows read from the table, or with the candidate an
   undo remembers. *)
LEMMA DeleteStarts ==
    ASSUME Indexes \in Nat \ {0}, TypeOK, RowsInv,
           NEW cs \in Seq(Candidate), Len(cs) >= 1, Enter("delete", "removeEntries", cs),
           UNCHANGED <<slots, entries, faults>>, stale' \in BOOLEAN,
           Len(cs) = 1 \/ ReadFromTable', ~stale' => ~stale /\ EntriesInv /\ ReadFromTable'
    PROVE  TypeOK' /\ RowsInv' /\ (~stale' => EntriesInv')
<1> DEFINE back == [n \in DOMAIN cs |-> 0]
<1>1. /\ call = NoCall /\ slots' = slots /\ entries' = entries /\ faults' = faults
      /\ call' = [kind |-> "delete", phase |-> "removeEntries", pos |-> 1, cs |-> cs,
                  rowsGone |-> 0, entriesGone |-> 0, restored |-> back]
      /\ answer' = "none" /\ before' = [slots |-> slots, entries |-> entries]
      /\ before'.slots = slots
      /\ slots \in Pages /\ entries \in Indices /\ UniqueIn(slots)
  BY DEF Enter, TypeOK, RowsInv
<1>2. back \in Seq(0 .. Slots) /\ Len(back) = Len(cs)
  <2>1. DOMAIN cs = 1 .. Len(cs) /\ Len(cs) \in Nat
    OBVIOUS
  <2>2. 0 \in 0 .. Slots
    BY PageAssumption
  <2> DEFINE n == Len(cs)
             S == 0 .. Slots
  <2>3. back \in [1 .. n -> S] /\ n \in Nat
    BY <2>1, <2>2
  <2> HIDE DEF back, n, S
  <2>4. back \in Seq(S) /\ Len(back) = n
    BY <2>3, SeqDef, LenProperties
  <2> QED BY <2>4 DEF n, S
<1> HIDE DEF back
<1>3. call' \in Calls
  BY <1>1, <1>2 DEF Calls
<1>4. /\ call'.kind = "delete" /\ call'.phase = "removeEntries" /\ call'.pos = 1 /\ call'.cs = cs
      /\ call'.rowsGone = 0 /\ Len(call'.restored) = Len(call'.cs) /\ call' # NoCall
  BY <1>1, <1>2 DEF NoCall
<1>5. TypeOK'
  BY <1>1, <1>3 DEF TypeOK
<1>8. call'.pos \in 1 .. Len(call'.cs) * Indexes
  <2>1. Len(cs) \in Nat
    OBVIOUS
  <2>2. Len(cs) * Indexes \in Nat /\ Len(cs) * Indexes >= 1
    BY <2>1, StepsOfTheLoops
  <2> QED BY <1>4, <2>2
<1>6. RowsInv'
  <2>1. InsertRows'
    BY <1>4 DEF InsertRows
  <2>2. DeleteRows'
    BY <1>1, <1>4, <1>8 DEF DeleteRows
  <2> QED BY <1>1, <2>1, <2>2 DEF RowsInv, UniqueIn
<1>7. ASSUME ~stale' PROVE EntriesInv'
  <2>1. \A i \in Secondary : entries[i] = Mirror(slots)
    BY <1>1, <1>7 DEF EntriesInv
  <2>4. \A i \in Secondary : Visited(i, call.pos - 1)' = {}
    <3>1. \A i \in Secondary : {m \in 1 .. call'.pos - 1 : IndexOf(m)= i} = {}
      BY <1>4
    <3>2. \A i \in Secondary : Steps(i, 1, call.pos - 1)' = {}
      BY <3>1 DEF Steps, IndexOf
    <3> QED BY <3>2 DEF Visited
  <2>5. \A i \in Secondary : entries'[i] = Mirror(before.slots)' \ Visited(i, call.pos - 1)'
    BY <1>1, <2>1, <2>4 DEF Mirror
  <2>6. DeleteEntries'
    BY <1>4, <1>7, <2>5 DEF DeleteEntries
  <2> QED BY <1>4, <2>6 DEF EntriesInv, InsertEntries
<1> QED BY <1>5, <1>6, <1>7

LEMMA StartDeleteKeeps ==
    ASSUME Indexes \in Nat \ {0}, TypeOK, RowsInv, ~stale => EntriesInv, StartDelete
    PROVE  TypeOK' /\ RowsInv' /\ (~stale' => EntriesInv')
<1>1. PICK ss \in SUBSET {s \in Slot : slots[s] # NoRow} :
         ss # {} /\ Enter("delete", "removeEntries", InSlotOrder(ss))
  BY DEF StartDelete
<1> DEFINE order == BySlot(ss)
           cs == InSlotOrder(ss)
<1>2. ss \in SUBSET Slot /\ \A s \in ss : slots[s] # NoRow
  OBVIOUS
<1>3. order \in Seq(ss) /\ Len(order) >= 1 /\ DOMAIN order = 1 .. Len(order)
      /\ \A i, j \in DOMAIN order : order[i] = order[j] => i = j
  BY <1>1, <1>2, ScanIsInOrder, LenProperties
<1>4. cs = [n \in DOMAIN order |-> [slot |-> order[n], row |-> slots[order[n]]]]
  BY DEF InSlotOrder
<1> HIDE DEF order, cs
<1>5. \A n \in DOMAIN order : order[n] \in Slot /\ slots[order[n]] \in Row
  <2>1. slots \in Pages
    BY DEF TypeOK
  <2>2. \A n \in DOMAIN order : order[n] \in ss
    BY <1>3
  <2> QED BY <1>2, <2>1, <2>2 DEF Pages
<1>6. cs \in Seq(Candidate) /\ Len(cs) = Len(order) /\ DOMAIN cs = DOMAIN order
      /\ \A n \in DOMAIN order : cs[n].slot = order[n] /\ cs[n].row = slots[order[n]]
  <2>1. cs \in [1 .. Len(order) -> Candidate] /\ Len(order) \in Nat
    BY <1>3, <1>4, <1>5 DEF Candidate
  <2>2. cs \in Seq(Candidate) /\ Len(cs) = Len(order)
    BY <2>1, SeqDef, LenProperties
  <2> QED BY <1>4, <2>2
<1>7. /\ UNCHANGED <<slots, entries, faults>> /\ stale' = stale /\ stale \in BOOLEAN
      /\ call'.cs = cs /\ before'.slots = slots /\ Enter("delete", "removeEntries", cs)
  BY <1>1 DEF StartDelete, Enter, TypeOK, cs
<1>8. ReadFromTable'
  BY <1>3, <1>6, <1>7 DEF ReadFromTable
<1> QED BY <1>3, <1>6, <1>7, <1>8, DeleteStarts

LEMMA StartUndoKeeps ==
    ASSUME Indexes \in Nat \ {0}, TypeOK, RowsInv, ~stale => EntriesInv, StartUndo
    PROVE  TypeOK' /\ RowsInv' /\ (~stale' => EntriesInv')
<1>1. PICK c \in Candidate :
         /\ Enter("delete", "removeEntries", <<c>>)
         /\ stale' = (stale \/ slots[c.slot] # c.row)
  BY DEF StartUndo
<1> DEFINE cs == <<c>>
<1>2. cs \in Seq(Candidate) /\ Len(cs) = 1 /\ DOMAIN cs = {1} /\ cs[1] = c
  OBVIOUS
<1>3. call'.cs = cs /\ Enter("delete", "removeEntries", cs) /\ before'.slots = slots /\ UNCHANGED <<slots, entries, faults>>
  BY <1>1 DEF Enter, StartUndo
<1>4. stale' \in BOOLEAN /\ (~stale' => ~stale /\ slots[c.slot] = c.row)
  BY <1>1 DEF TypeOK
<1>5. ~stale' => ReadFromTable'
  BY <1>2, <1>3, <1>4 DEF ReadFromTable
<1> HIDE DEF cs
<1>6. ~stale' => ~stale /\ EntriesInv /\ ReadFromTable'
  BY <1>4, <1>5
<1>7. Len(cs) >= 1 /\ (Len(cs) = 1 \/ ReadFromTable')
  BY <1>2
<1> QED BY <1>2, <1>3, <1>4, <1>6, <1>7, DeleteStarts

-------------------------------------------------------------------------------
(* What holds throughout a DELETE. *)
LEMMA Deletes ==
    ASSUME TypeOK, RowsInv, call # NoCall, call.kind = "delete"
    PROVE  /\ call \in Calls /\ slots \in Pages /\ entries \in Indices
           /\ before \in [slots : Pages, entries : Indices] /\ before.slots \in Pages
           /\ answer \in {"none", "ok", "raised"} /\ stale \in BOOLEAN
           /\ answer # "raised" /\ UniqueIn(slots) /\ UniqueIn(before.slots)
           /\ call.pos \in Nat /\ call.rowsGone \in Nat /\ call.entriesGone \in Nat
           /\ call.rowsGone < Len(call.cs)
           /\ Len(call.cs) \in Nat /\ Len(call.cs) >= 1 /\ DOMAIN call.cs = 1 .. Len(call.cs)
           /\ \A n \in 1 .. Len(call.cs) :
                 call.cs[n] \in Candidate /\ call.cs[n].slot \in Slot /\ call.cs[n].row \in Row
           /\ DeleteRows
<1>1. /\ call \in Calls /\ slots \in Pages /\ entries \in Indices
      /\ before \in [slots : Pages, entries : Indices] /\ before.slots \in Pages
      /\ answer \in {"none", "ok", "raised"} /\ stale \in BOOLEAN
  BY DEF TypeOK
<1>2. /\ call.pos \in Nat /\ call.rowsGone \in Nat /\ call.entriesGone \in Nat
      /\ call.cs \in Seq(Candidate)
  BY <1>1 DEF Calls
<1>3. Len(call.cs) \in Nat /\ DOMAIN call.cs = 1 .. Len(call.cs)
      /\ \A n \in 1 .. Len(call.cs) : call.cs[n] \in Candidate
  BY <1>2
<1>4. \A n \in 1 .. Len(call.cs) : call.cs[n].slot \in Slot /\ call.cs[n].row \in Row
  BY <1>3 DEF Candidate
<1>5. /\ answer # "raised" /\ UniqueIn(slots) /\ UniqueIn(before.slots) /\ DeleteRows
      /\ call.rowsGone < Len(call.cs) /\ Len(call.cs) >= 1
  BY DEF RowsInv, DeleteRows
<1> QED BY <1>1, <1>2, <1>3, <1>4, <1>5

(* A delete turns back, with nothing put back so far. *)
LEMMA TurnsBack ==
    ASSUME call \in Calls, call.kind = "delete", NEW g \in Nat, NEW eg \in Nat, Reverting(g, eg)
    PROVE  /\ call' \in Calls /\ call' # NoCall
           /\ call'.phase = "restoreRows" /\ call'.pos = g
           /\ call'.kind = call.kind /\ call'.cs = call.cs
           /\ call'.rowsGone = g /\ call'.entriesGone = eg
           /\ call'.restored = call.restored
<1>1. /\ call' \in Calls
      /\ call'.phase = "restoreRows" /\ call'.pos = g
      /\ call'.kind = call.kind /\ call'.cs = call.cs
      /\ call'.rowsGone = g /\ call'.entriesGone = eg
      /\ call'.restored = call.restored
  BY DEF Calls, Reverting
<1>2. call'.kind # "none"
  BY <1>1
<1> QED BY <1>1, <1>2 DEF NoCall

LEMMA RemoveEntryKeeps ==
    ASSUME Indexes \in Nat \ {0}, faults \in Nat, faults' <= 1,
           TypeOK, RowsInv, ~stale => EntriesInv, RemoveEntry
    PROVE  TypeOK' /\ RowsInv' /\ (~stale' => EntriesInv')
<1> DEFINE j == IndexOf(call.pos)
           e == EntryFor(call.cs[CandidateOf(call.pos)])
           last == Len(call.cs) * Indexes
           M == Mirror(before.slots)
<1>1. /\ call.kind = "delete" /\ call.phase = "removeEntries" /\ call # NoCall
      /\ slots' = slots /\ before' = before /\ stale' = stale /\ answer' = answer
  BY DEF RemoveEntry, Deleting, NoCall
<1>2. /\ call \in Calls /\ slots \in Pages /\ entries \in Indices
      /\ before \in [slots : Pages, entries : Indices] /\ before.slots \in Pages
      /\ answer \in {"none", "ok", "raised"} /\ stale \in BOOLEAN
      /\ answer # "raised" /\ UniqueIn(slots) /\ UniqueIn(before.slots)
      /\ call.rowsGone \in Nat /\ call.entriesGone \in Nat /\ Len(call.cs) \in Nat
      /\ call.rowsGone < Len(call.cs)
      /\ Len(call.cs) >= 1 /\ DeleteRows
      /\ \A n \in 1 .. Len(call.cs) :
            call.cs[n] \in Candidate /\ call.cs[n].slot \in Slot /\ call.cs[n].row \in Row
  BY <1>1, Deletes
<1>3. /\ Len(call.restored) = Len(call.cs) /\ (Len(call.cs) = 1 \/ ReadFromTable)
      /\ (call.rowsGone > 0 => faults = 1 /\ ReadFromTable)
      /\ call.pos \in 1 .. last /\ slots = before.slots
  BY <1>1, <1>2 DEF DeleteRows
<1>4. last \in Nat /\ last >= 1 /\ CandidateOf(call.pos) \in 1 .. Len(call.cs) /\ j \in Secondary
  BY <1>2, <1>3, StepsOfTheLoops
<1>5. call.pos \in Nat /\ call.pos >= 1 /\ call.pos <= last /\ call.pos - 1 \in Nat
  BY <1>3, <1>4
<1>6. ASSUME ~stale
      PROVE  /\ ReadFromTable
             /\ \A i \in Secondary : entries[i] = M \ Visited(i, call.pos - 1)
             /\ e \in entries[j]
  <2>1. ReadFromTable /\ \A i \in Secondary : entries[i] = M \ Visited(i, call.pos - 1)
    BY <1>1, <1>6 DEF EntriesInv, DeleteEntries
  <2> DEFINE c == CandidateOf(call.pos)
  <2>2. before.slots[call.cs[c].slot] = call.cs[c].row /\ call.cs[c].row # NoRow
        /\ call.cs[c].slot \in Slot
    <3>1. c \in DOMAIN call.cs
      BY <1>2, <1>4, Deletes, <1>1
    <3> QED BY <1>2, <1>4, <2>1, <3>1, NoRowIsNoRow DEF ReadFromTable
  <2>3. e \in M
    BY <2>2 DEF Mirror, EntryFor
  <2>4. e \notin Visited(j, call.pos - 1)
    <3> SUFFICES ASSUME NEW m \in Steps(j, 1, call.pos - 1),
                        EntryFor(call.cs[CandidateOf(m)]) = e
                 PROVE  FALSE
      BY DEF Visited
    <3>1. m \in 1 .. last /\ m # call.pos /\ IndexOf(m) = j
      BY <1>4, <1>5, SMTT(30) DEF Steps
    <3>2. CandidateOf(m) \in 1 .. Len(call.cs)
      BY <1>2, <3>1, StepsOfTheLoops
    <3>3. call.cs[CandidateOf(m)].slot = call.cs[c].slot
      BY DEF EntryFor
    <3>4. CandidateOf(m) = c
      BY <1>1, <1>4, <2>1, <3>2, <3>3, Deletes DEF ReadFromTable
    <3> QED BY <1>2, <1>3, <3>1, <3>4, StepsOfTheLoops
  <2> QED BY <1>4, <2>1, <2>3, <2>4
<1>7. /\ \A i \in Secondary :
            Visited(i, call.pos) = IF i = j THEN Visited(i, call.pos - 1) \cup {e}
                                   ELSE Visited(i, call.pos - 1)
  <2> SUFFICES ASSUME NEW i \in Secondary
               PROVE  Visited(i, call.pos) = IF i = j THEN Visited(i, call.pos - 1) \cup {e}
                                             ELSE Visited(i, call.pos - 1)
    OBVIOUS
  <2>1. 1 .. call.pos = (1 .. call.pos - 1) \cup {call.pos}
    BY <1>5
  <2>2. Steps(i, 1, call.pos) = IF i = j THEN Steps(i, 1, call.pos - 1) \cup {call.pos}
                                ELSE Steps(i, 1, call.pos - 1)
    BY <2>1 DEF Steps
  <2> QED BY <2>2 DEF Visited
<1> HIDE DEF j, e, last, M
<1>8. CASE /\ e \in entries[j] /\ NoFault
           /\ entries' = [entries EXCEPT ![j] = @ \ {e}]
           /\ IF call.pos = last THEN Continue("removeRows", 1)
              ELSE Continue("removeEntries", call.pos + 1)
  <2>1. /\ call' \in Calls /\ call' # NoCall
        /\ call'.kind = call.kind /\ call'.cs = call.cs
        /\ call'.rowsGone = call.rowsGone /\ call'.entriesGone = call.entriesGone
        /\ call'.restored = call.restored
        /\ \/ call.pos = last /\ call'.phase = "removeRows" /\ call'.pos = 1
           \/ call.pos # last /\ call'.phase = "removeEntries" /\ call'.pos = call.pos + 1
    <3>1. 1 \in Nat /\ call.pos + 1 \in Nat
      BY <1>5
    <3>2. CASE call.pos = last
      <4>1. Continue("removeRows", 1)
        BY <1>8, <3>2
      <4> QED BY <1>2, <3>1, <3>2, <4>1, CallGoesOn
    <3>3. CASE call.pos # last
      <4>1. Continue("removeEntries", call.pos + 1)
        BY <1>8, <3>3
      <4> QED BY <1>2, <3>1, <3>3, <4>1, CallGoesOn
    <3> QED BY <3>2, <3>3
  <2>2. entries' \in Indices
        /\ \A i \in Secondary : entries'[i] = IF i = j THEN entries[i] \ {e} ELSE entries[i]
    BY <1>2, <1>8 DEF Indices
  <2>3. TypeOK'
    BY <1>1, <1>2, <2>1, <2>2 DEF TypeOK
  <2>4. RowsInv'
    <3>1. Gone(0)' = {} /\ PageWithout(0)' = before.slots
      BY <1>1, <1>2 DEF Gone, PageWithout, Pages
    <3>2. ReadFromTable => ReadFromTable'
      BY <1>1, <2>1 DEF ReadFromTable
    <3>3. InsertRows'
      BY <1>1, <2>1 DEF InsertRows
    <3>4. CASE call.pos = last
      <4>1. call'.pos = 1 /\ 1 \in 1 .. Len(call'.cs) /\ call'.phase = "removeRows"
            /\ call'.pos - 1 = 0
        BY <1>2, <2>1, <3>4
      <4>2. slots' = PageWithout(call.pos - 1)'
        BY <1>1, <1>3, <3>1, <4>1 DEF PageWithout, Gone
      <4>3. DeleteRows'
        BY <1>1, <1>2, <1>3, <1>8, <2>1, <3>2, <4>1, <4>2 DEF DeleteRows, NoFault
      <4> QED BY <1>1, <1>2, <3>3, <4>3 DEF RowsInv, UniqueIn
    <3>5. CASE call.pos # last
      <4>1. call'.pos \in 1 .. Len(call'.cs) * Indexes /\ call'.phase = "removeEntries"
        BY <1>4, <1>5, <2>1, <3>5 DEF last
      <4>2. DeleteRows'
        BY <1>1, <1>2, <1>3, <1>8, <2>1, <3>2, <4>1 DEF DeleteRows, NoFault
      <4> QED BY <1>1, <1>2, <3>3, <4>2 DEF RowsInv, UniqueIn
    <3> QED BY <3>4, <3>5
  <2>5. ASSUME ~stale PROVE EntriesInv'
    <3>1. \A i \in Secondary : entries'[i] = M \ Visited(i, call.pos)
      BY <1>6, <1>7, <2>2, <2>5
    <3>2. \A i, p : Visited(i, p)' = {EntryFor(call.cs[CandidateOf(m)]) : m \in Steps(i, 1, p)'}
      BY <2>1 DEF Visited, EntryFor, CandidateOf
    <3>3. ReadFromTable'
      BY <1>1, <1>6, <2>1, <2>5 DEF ReadFromTable
    <3>4. M = Mirror(before.slots)'
      BY <1>1 DEF Mirror, M
    <3>5. CASE call.pos = last
      <4>1. \A i \in Secondary : Visited(i, Len(call.cs) * Indexes)' = Visited(i, call.pos)
        BY <2>1, <3>5 DEF Visited, Steps, last, EntryFor, CandidateOf, IndexOf
      <4>2. DeleteEntries'
        BY <1>1, <2>1, <3>1, <3>3, <3>4, <3>5, <4>1 DEF DeleteEntries
      <4> QED BY <1>1, <2>1, <4>2 DEF EntriesInv, InsertEntries
    <3>6. CASE call.pos # last
      <4>1. call'.pos - 1 = call.pos
        BY <1>5, <2>1, <3>6
      <4>2. \A i \in Secondary : Visited(i, call.pos - 1)' = Visited(i, call.pos)
        BY <2>1, <4>1 DEF Visited, Steps, EntryFor, CandidateOf, IndexOf
      <4>3. DeleteEntries'
        BY <1>1, <2>1, <3>1, <3>3, <3>4, <3>6, <4>2 DEF DeleteEntries
      <4> QED BY <1>1, <2>1, <4>3 DEF EntriesInv, InsertEntries
    <3> QED BY <3>5, <3>6
  <2> QED BY <1>1, <2>3, <2>4, <2>5
<1>9. CASE /\ IF e \in entries[j] THEN Fault ELSE NoFault
           /\ Reverting(0, call.pos - 1) /\ entries' = entries
  <2>1. /\ call' \in Calls /\ call' # NoCall
        /\ call'.phase = "restoreRows" /\ call'.pos = 0
        /\ call'.kind = call.kind /\ call'.cs = call.cs
        /\ call'.rowsGone = 0 /\ call'.entriesGone = call.pos - 1
        /\ call'.restored = call.restored
    BY <1>1, <1>2, <1>5, <1>9, TurnsBack
  <2>2. TypeOK'
    BY <1>1, <1>2, <1>9, <2>1 DEF TypeOK
  <2>3. RowsInv'
    <3>1. BackFrom(0)'
      <4>1. Gone(0)' = {} /\ PageWithout(0)' = before.slots
        BY <1>1, <1>2 DEF Gone, PageWithout, Pages
      <4>2. PageWithout(call.rowsGone)' = before.slots
        BY <2>1, <4>1 DEF PageWithout, Gone
      <4>3. (0 + 1) .. call'.rowsGone = {}
        BY <2>1
      <4> QED BY <1>1, <1>3, <4>2, <4>3 DEF BackFrom
    <3>2. BackFrom(call.pos)'
      BY <2>1, <3>1 DEF BackFrom
    <3>3. ReadFromTable => ReadFromTable'
      BY <1>1, <2>1 DEF ReadFromTable
    <3>4. call'.entriesGone <= Len(call'.cs) * Indexes
      BY <1>4, <1>5, <2>1 DEF last
    <3>5. DeleteRows'
      BY <1>1, <1>2, <1>3, <2>1, <3>2, <3>3, <3>4 DEF DeleteRows
    <3>6. InsertRows'
      BY <1>1, <2>1 DEF InsertRows
    <3> QED BY <1>1, <1>2, <3>5, <3>6 DEF RowsInv, UniqueIn
  <2>4. ASSUME ~stale PROVE EntriesInv'
    <3>1. faults' = 1
      BY <1>6, <1>9, <2>4 DEF Fault
    <3>2. \A i \in Secondary : Visited(i, call.entriesGone)' = Visited(i, call.pos - 1)
      BY <2>1 DEF Visited, Steps, EntryFor, CandidateOf, IndexOf
    <3>3. ReadFromTable' /\ M = Mirror(before.slots)'
      BY <1>1, <1>6, <2>1, <2>4 DEF ReadFromTable, M, Mirror
    <3>4. DeleteEntries'
      BY <1>6, <1>9, <2>1, <2>4, <3>1, <3>2, <3>3 DEF DeleteEntries
    <3> QED BY <1>1, <2>1, <3>4 DEF EntriesInv, InsertEntries
  <2> QED BY <1>1, <2>2, <2>3, <2>4
<1> QED BY <1>8, <1>9 DEF RemoveEntry, j, e, last

(* The steps up to the last visit every entry of every candidate. *)
LEMMA AllAreVisited ==
    ASSUME Indexes \in Nat \ {0}, Len(call.cs) \in Nat, NEW i \in Secondary
    PROVE  Visited(i, Len(call.cs) * Indexes)
              = {EntryFor(call.cs[c]) : c \in 1 .. Len(call.cs)}
<1> DEFINE n == Len(call.cs)
           all == n * Indexes
<1>1. \A m \in Steps(i, 1, all) : CandidateOf(m) \in 1 .. n
  BY StepsOfTheLoops DEF Steps
<1>2. \A c \in 1 .. n : \E m \in Steps(i, 1, all) : CandidateOf(m) = c
  BY StepsOfTheLoops, SMTT(30) DEF Steps
<1> HIDE DEF n, all
<1>3. {EntryFor(call.cs[CandidateOf(m)]) : m \in Steps(i, 1, all)} = {EntryFor(call.cs[c]) : c \in 1 .. n}
  BY <1>1, <1>2
<1> QED BY <1>3 DEF Visited, n, all

LEMMA RemoveRowKeeps ==
    ASSUME Indexes \in Nat \ {0}, faults \in Nat, faults' <= 1,
           TypeOK, RowsInv, ~stale => EntriesInv, RemoveRow
    PROVE  TypeOK' /\ RowsInv' /\ (~stale' => EntriesInv')
<1> DEFINE p == call.pos
           n == Len(call.cs)
           all == n * Indexes
           ss == SlotOfKey(call.cs[p].row.key)
           M == Mirror(before.slots)
<1>1. /\ call.kind = "delete" /\ call.phase = "removeRows" /\ call # NoCall
      /\ entries' = entries /\ before' = before /\ stale' = stale
  BY DEF RemoveRow, Deleting, NoCall
<1>2. /\ call \in Calls /\ slots \in Pages /\ entries \in Indices
      /\ before \in [slots : Pages, entries : Indices] /\ before.slots \in Pages
      /\ answer \in {"none", "ok", "raised"} /\ stale \in BOOLEAN
      /\ answer # "raised" /\ UniqueIn(slots) /\ UniqueIn(before.slots)
      /\ p \in Nat /\ n \in Nat /\ n >= 1 /\ DeleteRows /\ DOMAIN call.cs = 1 .. n
      /\ call.rowsGone \in Nat /\ call.rowsGone < n
      /\ \A m \in 1 .. n : call.cs[m] \in Candidate /\ call.cs[m].slot \in Slot /\ call.cs[m].row \in Row
  BY <1>1, Deletes
<1>3. /\ Len(call.restored) = n /\ (n = 1 \/ ReadFromTable)
      /\ (call.rowsGone > 0 => faults = 1 /\ ReadFromTable)
      /\ p \in 1 .. n /\ (p > 1 => ReadFromTable) /\ slots = PageWithout(p - 1)
  BY <1>1, <1>2 DEF DeleteRows
<1>4. p >= 1 /\ p <= n /\ p - 1 \in Nat /\ p + 1 \in Nat /\ all \in Nat
  <2>1. all \in Nat
    BY <1>2, StepsOfTheLoops
  <2> HIDE DEF p, n, all
  <2> QED BY <1>2, <1>3, <2>1
<1>5. ASSUME ReadFromTable
      PROVE  ss = {call.cs[p].slot} /\ call.cs[p].row # NoRow
  <2> DEFINE s == call.cs[p].slot
  <2>1. before.slots[s] = call.cs[p].row /\ s \in Slot /\ call.cs[p].row # NoRow
    BY <1>2, <1>3, <1>5, NoRowIsNoRow DEF ReadFromTable
  <2>2. s \notin Gone(p - 1)
    <3> SUFFICES ASSUME NEW m \in 1 .. p - 1, call.cs[m].slot = s PROVE FALSE
      BY DEF Gone
    <3>1. m \in 1 .. n /\ m # p
      BY <1>2, <1>4
    <3> QED BY <1>2, <1>3, <1>5, <3>1 DEF ReadFromTable
  <2>3. slots[s] = call.cs[p].row
    BY <1>3, <2>1, <2>2 DEF PageWithout
  <2>4. s \in ss
    BY <2>1, <2>3 DEF SlotOfKey
  <2>5. \A t \in ss : t = s
    BY <1>2, <2>1, <2>3 DEF SlotOfKey, UniqueIn
  <2> HIDE DEF ss, s
  <2>6. ss = {s}
    BY <2>4, <2>5
  <2> QED BY <2>1, <2>6 DEF s
<1>6. ASSUME ~stale
      PROVE  /\ ReadFromTable
             /\ \A i \in Secondary : entries[i] = M \ Visited(i, all)
  BY <1>1, <1>6 DEF EntriesInv, DeleteEntries
<1>7. CASE /\ ss # {} /\ NoFault
           /\ slots' = [s \in Slot |-> IF s \in ss THEN NoRow ELSE slots[s]]
           /\ IF p = n THEN Ends("ok")
              ELSE Continue("removeRows", p + 1) /\ UNCHANGED answer
  <2>1. slots' \in Pages /\ UniqueIn(slots')
    <3> HIDE DEF ss
    <3>1. slots' \in Pages
      BY <1>2, <1>7 DEF Pages
    <3>2. \A s \in Slot : slots'[s] # NoRow => slots'[s] = slots[s]
      BY <1>7
    <3> QED BY <1>2, <3>1, <3>2 DEF UniqueIn
  <2>2. ASSUME ReadFromTable PROVE slots' = PageWithout(p)
    <3> HIDE DEF ss
    <3>1. Gone(p) = Gone(p - 1) \cup {call.cs[p].slot}
      <4>1. 1 .. p = (1 .. p - 1) \cup {p}
        BY <1>2, <1>4
      <4> QED BY <4>1 DEF Gone
    <3>2. \A s \in Slot : slots'[s] = IF s = call.cs[p].slot THEN NoRow ELSE slots[s]
      BY <1>5, <1>7, <2>2
    <3>3. \A s \in Slot : slots'[s] = PageWithout(p)[s]
      BY <1>3, <3>1, <3>2 DEF PageWithout
    <3> QED BY <1>7, <3>3 DEF PageWithout
  <2>3. CASE p = n
    <3>1. call' = NoCall /\ answer' = "ok"
      BY <1>7, <2>3 DEF Ends
    <3>2. TypeOK'
      BY <1>1, <1>2, <2>1, <3>1 DEF TypeOK
    <3>3. RowsInv'
      BY <1>1, <1>2, <2>1, <3>1 DEF RowsInv, UniqueIn, InsertRows, DeleteRows, NoCall
    <3>4. ASSUME ~stale PROVE EntriesInv'
      <4>1. slots' = PageWithout(n)
        BY <1>6, <2>2, <2>3, <3>4
      <4>2. ASSUME NEW i \in Secondary PROVE entries[i] = Mirror(slots')
        <5>1. Visited(i, all) = {EntryFor(call.cs[c]) : c \in 1 .. n}
          BY <1>2, AllAreVisited
        <5>2. \A t \in Slot : t \in Gone(n) =>
                 [val |-> before.slots[t].val, slot |-> t] \in {EntryFor(call.cs[c]) : c \in 1 .. n}
          BY <1>2, <1>6, <3>4 DEF Gone, EntryFor, ReadFromTable
        <5>3. \A c \in 1 .. n : EntryFor(call.cs[c]).slot \in Gone(n)
          BY DEF Gone, EntryFor
        <5>4. \A t \in Slot : slots'[t] # NoRow <=> before.slots[t] # NoRow /\ t \notin Gone(n)
          BY <4>1 DEF PageWithout
        <5>5. \A t \in Slot : slots'[t] # NoRow => slots'[t] = before.slots[t]
          BY <4>1 DEF PageWithout
        <5>6. \A x : x \in Mirror(slots') <=> x \in M /\ x \notin Visited(i, all)
          <6>1. ASSUME NEW x \in Mirror(slots') PROVE x \in M /\ x \notin Visited(i, all)
            <7>1. PICK t \in Slot : slots'[t] # NoRow /\ x = [val |-> slots'[t].val, slot |-> t]
              BY <6>1 DEF Mirror
            <7>2. x.slot = t /\ t \notin Gone(n) /\ before.slots[t] # NoRow /\ slots'[t] = before.slots[t]
              BY <5>4, <5>5, <7>1
            <7>3. x \in M
              BY <7>1, <7>2 DEF Mirror
            <7> HIDE DEF n, M, all
            <7>4. x \notin Visited(i, all)
              BY <5>1, <5>3, <7>2
            <7> QED BY <7>3, <7>4
          <6>2. ASSUME NEW x \in M, x \notin Visited(i, all) PROVE x \in Mirror(slots')
            <7>1. PICK t \in Slot : before.slots[t] # NoRow /\ x = [val |-> before.slots[t].val, slot |-> t]
              BY <6>2 DEF Mirror
            <7>2. t \notin Gone(n)
              BY <5>1, <5>2, <6>2, <7>1
            <7>3. slots'[t] # NoRow /\ slots'[t] = before.slots[t]
              BY <5>4, <5>5, <7>1, <7>2
            <7> QED BY <7>1, <7>3 DEF Mirror
          <6> HIDE DEF M, all
          <6> QED BY <6>1, <6>2
        <5> HIDE DEF M, all
        <5>7. Mirror(slots') = M \ Visited(i, all)
          BY <5>6
        <5> QED BY <1>6, <3>4, <5>7
      <4> QED BY <1>1, <3>1, <4>2 DEF EntriesInv, InsertEntries, DeleteEntries, NoCall, Mirror
    <3> QED BY <1>1, <3>2, <3>3, <3>4
  <2>4. CASE p # n
    <3>1. /\ call' \in Calls /\ call' # NoCall
          /\ call'.phase = "removeRows" /\ call'.pos = p + 1
          /\ call'.kind = call.kind /\ call'.cs = call.cs
          /\ call'.rowsGone = call.rowsGone /\ call'.entriesGone = call.entriesGone
          /\ call'.restored = call.restored /\ answer' = answer /\ faults' = faults
      <4>1. Continue("removeRows", p + 1) /\ answer' = answer /\ faults' = faults
        BY <1>7, <2>4 DEF NoFault
      <4> QED BY <1>2, <1>4, <4>1, CallGoesOn
    <3>2. ReadFromTable /\ ReadFromTable'
      <4>1. ReadFromTable
        <5> HIDE DEF p, n
        <5> QED BY <1>2, <1>3, <1>4, <2>4
      <4> QED BY <1>1, <3>1, <4>1 DEF ReadFromTable
    <3>3. TypeOK'
      BY <1>1, <1>2, <2>1, <3>1 DEF TypeOK
    <3>4. RowsInv'
      <4>1. call'.pos \in 1 .. Len(call'.cs) /\ call'.pos - 1 = p
        <5>1. p + 1 \in 1 .. n /\ (p + 1) - 1 = p
          <6> HIDE DEF p, n
          <6> QED BY <1>2, <1>4, <2>4
        <5> QED BY <3>1, <5>1
      <4>2. slots' = PageWithout(call.pos - 1)'
        BY <1>1, <2>2, <3>1, <3>2, <4>1 DEF PageWithout, Gone
      <4>3. DeleteRows'
        BY <1>1, <1>2, <1>3, <3>1, <3>2, <4>1, <4>2 DEF DeleteRows
      <4>4. InsertRows'
        BY <1>1, <3>1 DEF InsertRows
      <4> QED BY <1>1, <1>2, <2>1, <3>1, <4>3, <4>4 DEF RowsInv, UniqueIn
    <3>5. ASSUME ~stale PROVE EntriesInv'
      <4>1. \A i \in Secondary : Visited(i, Len(call.cs) * Indexes)' = Visited(i, all)
        BY <3>1 DEF Visited, Steps, EntryFor, CandidateOf, IndexOf
      <4>2. M = Mirror(before.slots)'
        BY <1>1 DEF Mirror
      <4>3. DeleteEntries'
        BY <1>1, <1>6, <3>1, <3>2, <3>5, <4>1, <4>2 DEF DeleteEntries
      <4> QED BY <1>1, <3>1, <4>3 DEF EntriesInv, InsertEntries
    <3> QED BY <1>1, <3>3, <3>4, <3>5
  <2> QED BY <2>3, <2>4
<1>8. CASE /\ IF ss # {} THEN Fault ELSE NoFault
           /\ Reverting(p - 1, all)
           /\ slots' = slots /\ answer' = answer
  <2>1. /\ call' \in Calls /\ call' # NoCall
        /\ call'.phase = "restoreRows" /\ call'.pos = p - 1
        /\ call'.kind = call.kind /\ call'.cs = call.cs
        /\ call'.rowsGone = p - 1 /\ call'.entriesGone = all
        /\ call'.restored = call.restored
    BY <1>1, <1>2, <1>4, <1>8, TurnsBack
  <2>2. ReadFromTable => ReadFromTable' /\ faults' = 1
    <3>1. ReadFromTable => ss # {}
      <4> HIDE DEF ss
      <4> QED BY <1>5
    <3>2. ReadFromTable => Fault
      BY <1>8, <3>1
    <3> QED BY <1>1, <2>1, <3>2 DEF ReadFromTable, Fault
  <2>3. TypeOK'
    BY <1>1, <1>2, <1>8, <2>1 DEF TypeOK
  <2>4. RowsInv'
    <3>1. BackFrom(call.pos)'
      <4>1. (call'.pos + 1) .. call'.rowsGone = {}
        BY <1>4, <2>1
      <4>2. slots' = PageWithout(call.rowsGone)'
        BY <1>1, <1>3, <1>8, <2>1 DEF PageWithout, Gone
      <4> QED BY <4>1, <4>2 DEF BackFrom
    <3>2. call'.pos <= call'.rowsGone /\ call'.rowsGone < Len(call'.cs)
          /\ call'.entriesGone <= Len(call'.cs) * Indexes
      BY <1>2, <1>4, <2>1
    <3>3. call'.rowsGone > 0 => faults' = 1 /\ ReadFromTable'
      BY <1>3, <1>4, <2>1, <2>2
    <3>4. DeleteRows'
      BY <1>1, <1>2, <1>3, <2>1, <2>2, <3>1, <3>2, <3>3 DEF DeleteRows
    <3>5. InsertRows'
      BY <1>1, <2>1 DEF InsertRows
    <3> QED BY <1>1, <1>2, <1>8, <2>1, <3>4, <3>5 DEF RowsInv, UniqueIn
  <2>5. ASSUME ~stale PROVE EntriesInv'
    <3>1. \A i \in Secondary : Visited(i, call.entriesGone)' = Visited(i, all)
      BY <2>1 DEF Visited, Steps, EntryFor, CandidateOf, IndexOf
    <3>2. M = Mirror(before.slots)'
      BY <1>1 DEF Mirror
    <3>3. DeleteEntries'
      BY <1>1, <1>6, <2>1, <2>2, <2>5, <3>1, <3>2 DEF DeleteEntries
    <3> QED BY <1>1, <2>1, <3>3 DEF EntriesInv, InsertEntries
  <2> QED BY <1>1, <2>3, <2>4, <2>5
<1> QED BY <1>7, <1>8 DEF RemoveRow

-------------------------------------------------------------------------------
(* A row that is put back goes to a slot that is free: its key is nowhere. *)
LEMMA RestoreRowKeeps ==
    ASSUME Indexes \in Nat \ {0}, faults \in Nat, faults' <= 1,
           TypeOK, RowsInv, ~stale => EntriesInv, RestoreRow
    PROVE  TypeOK' /\ RowsInv' /\ (~stale' => EntriesInv')
<1> DEFINE p == call.pos
           g == call.rowsGone
           n == Len(call.cs)
           f == FreeSlot
           r == call.cs[p].row
           k == r.key
           M == Mirror(before.slots)
           W == PageWithout(g)
           back == {call.restored[m] : m \in (p + 1) .. g}
<1>1. /\ call.kind = "delete" /\ call.phase = "restoreRows" /\ call # NoCall /\ p > 0
      /\ entries' = entries /\ before' = before /\ stale' = stale /\ answer' = answer
  BY DEF RestoreRow, Deleting, NoCall
<1>2. /\ call \in Calls /\ slots \in Pages /\ entries \in Indices
      /\ before \in [slots : Pages, entries : Indices] /\ before.slots \in Pages
      /\ answer \in {"none", "ok", "raised"} /\ stale \in BOOLEAN
      /\ answer # "raised" /\ UniqueIn(slots) /\ UniqueIn(before.slots)
      /\ p \in Nat /\ g \in Nat /\ n \in Nat /\ g < n /\ n >= 1 /\ DeleteRows
      /\ DOMAIN call.cs = 1 .. n
      /\ \A m \in 1 .. n : call.cs[m] \in Candidate /\ call.cs[m].slot \in Slot /\ call.cs[m].row \in Row
  BY <1>1, Deletes
<1>3. /\ Len(call.restored) = n /\ (n = 1 \/ ReadFromTable) /\ p <= g /\ BackFrom(p)
      /\ (g > 0 => faults = 1 /\ ReadFromTable) /\ call.entriesGone <= n * Indexes
  BY <1>1, <1>2 DEF DeleteRows
<1>4. /\ p \in 1 .. n /\ p \in 1 .. g /\ g > 0 /\ p - 1 \in Nat
      /\ \A m \in (p + 1) .. g : m \in 1 .. n /\ m # p
      /\ \A m \in 1 .. g : m \in 1 .. n
      /\ \A m \in p .. g : m = p \/ m \in (p + 1) .. g
  <2> HIDE DEF p, g, n
  <2> QED BY <1>1, <1>2, <1>3
<1>5. faults = 1 /\ ReadFromTable
  BY <1>3, <1>4
<1>6. /\ \A m \in 1 .. n : before.slots[call.cs[m].slot] = call.cs[m].row /\ call.cs[m].row # NoRow
      /\ \A m, o \in 1 .. n : call.cs[m].slot = call.cs[o].slot => m = o
  BY <1>2, <1>5, NoRowIsNoRow DEF ReadFromTable
<1>7. /\ \A m \in (p + 1) .. g :
            call.restored[m] \in Slot /\ slots[call.restored[m]] = call.cs[m].row
            /\ W[call.restored[m]] = NoRow
      /\ \A s \in Slot \ back : slots[s] = W[s]
  BY <1>3 DEF BackFrom
<1>8. \A s \in Slot : W[s] = IF s \in Gone(g) THEN NoRow ELSE before.slots[s]
  BY DEF PageWithout
<1>9. call.cs[p].slot \in Gone(g)
  BY <1>4 DEF Gone
<1>10. /\ call'.phase = "restoreRows" /\ call'.pos = p - 1 /\ call'.kind = call.kind
       /\ call'.cs = call.cs /\ call'.rowsGone = g /\ call'.entriesGone = call.entriesGone
       /\ call' = [call EXCEPT !.restored[p] = f, !.pos = @ - 1]
       /\ slots' = [slots EXCEPT ![f] = r] /\ faults' = faults
  <2>1. /\ slots' = [slots EXCEPT ![f] = r] /\ faults' = faults
        /\ call' = [call EXCEPT !.restored[p] = f, !.pos = @ - 1]
    BY <1>5 DEF RestoreRow, Fault, NoFault
  <2> HIDE DEF f
  <2> QED BY <1>1, <1>2, <2>1 DEF Calls
<1> HIDE DEF p, g, n, f, M, W, r, k, back
<1>11. r \in Row /\ r # NoRow /\ r = call.cs[p].row /\ k = r.key /\ k \in Key
       /\ before.slots[call.cs[p].slot] = r
  BY <1>2, <1>4, <1>6 DEF r, k, Row
<1>12. SlotOfKey(k) = {}
  <2> SUFFICES ASSUME NEW s \in Slot, slots[s] # NoRow, slots[s].key = k PROVE FALSE
    BY DEF SlotOfKey
  <2>1. CASE s \in back
    <3>1. PICK m \in (p + 1) .. g : s = call.restored[m]
      BY <2>1 DEF back
    <3>2. slots[s] = call.cs[m].row /\ m \in 1 .. n /\ m # p
      BY <1>4, <1>7, <3>1
    <3>3. before.slots[call.cs[m].slot].key = before.slots[call.cs[p].slot].key
      BY <1>4, <1>6, <1>11, <3>2
    <3>4. call.cs[m].slot = call.cs[p].slot
      BY <1>2, <1>4, <1>6, <3>2, <3>3 DEF UniqueIn
    <3> QED BY <1>4, <1>6, <3>2, <3>4
  <2>2. CASE s \notin back
    <3>1. s \notin Gone(g) /\ before.slots[s] = slots[s]
      BY <1>7, <1>8, <2>2
    <3>2. s = call.cs[p].slot
      BY <1>2, <1>4, <1>11, <3>1 DEF UniqueIn
    <3> QED BY <1>9, <3>1, <3>2
  <2> QED BY <2>1, <2>2
<1>13. f \in Slot /\ slots[f] = NoRow
  BY <1>2, <1>11, <1>12, FreeSlotIsFree DEF f
<1>14. slots' \in Pages /\ (\A s \in Slot : slots'[s] = IF s = f THEN r ELSE slots[s])
  BY <1>2, <1>10, <1>11 DEF Pages
<1>15. UniqueIn(slots')
  <2>1. \A s \in Slot : slots[s] # NoRow => slots[s].key # k
    BY <1>12 DEF SlotOfKey
  <2> QED BY <1>2, <1>11, <1>14, <2>1 DEF UniqueIn
<1>16. /\ call' \in Calls /\ call' # NoCall /\ Len(call'.restored) = n
       /\ \A m \in 1 .. n : call'.restored[m] = IF m = p THEN f ELSE call.restored[m]
  <2>1. call.restored \in Seq(0 .. Slots) /\ DOMAIN call.restored = 1 .. n
    <3>1. call.restored \in Seq(0 .. Slots)
      BY <1>2 DEF Calls
    <3> QED BY <1>3, <3>1
  <2>2. f \in 0 .. Slots
    BY <1>13, PageAssumption DEF Slot
  <2> DEFINE new == [call.restored EXCEPT ![p] = f]
  <2>3. new \in Seq(0 .. Slots) /\ Len(new) = n /\ \A m \in 1 .. n : new[m] = IF m = p THEN f ELSE call.restored[m]
    BY <1>2, <1>3, <1>4, <2>1, <2>2
  <2> HIDE DEF new
  <2>4. call' = [call EXCEPT !.restored = new, !.pos = p - 1]
    BY <1>10 DEF new, p
  <2>5. call' \in Calls /\ call'.restored = new
    BY <1>2, <1>4, <2>3, <2>4 DEF Calls
  <2> QED BY <1>1, <1>10, <2>3, <2>5 DEF NoCall
<1>17. TypeOK'
  BY <1>1, <1>2, <1>14, <1>16 DEF TypeOK
<1>18. ReadFromTable'
  BY <1>1, <1>5, <1>10 DEF ReadFromTable
<1>19. BackFrom(call.pos)'
  <2>1. PageWithout(call.rowsGone)' = W
    BY <1>1, <1>10 DEF PageWithout, Gone, W, g
  <2>2. f \notin back
    BY <1>7, <1>4, <1>6, <1>13 DEF back
  <2>3. W[f] = NoRow
    BY <1>7, <1>13, <2>2
  <2>4. \A m \in p .. g : m \in 1 .. n
    BY <1>4
  <2>5. ASSUME NEW m \in p .. g
        PROVE  /\ call'.restored[m] \in Slot /\ slots'[call'.restored[m]] = call'.cs[m].row
               /\ W[call'.restored[m]] = NoRow
    <3>1. CASE m = p
      BY <1>10, <1>11, <1>13, <1>14, <1>16, <2>3, <2>4, <3>1
    <3>2. CASE m \in (p + 1) .. g
      <4>1. call'.restored[m] = call.restored[m] /\ call.restored[m] \in back
        BY <1>4, <1>16, <3>2 DEF back
      <4> QED BY <1>7, <1>10, <1>14, <2>2, <3>2, <4>1
    <3> QED BY <1>4, <3>1, <3>2
  <2> DEFINE back2 == {call'.restored[m] : m \in p .. g}
  <2>6. ASSUME NEW s \in Slot, s \notin back2 PROVE slots'[s] = W[s]
    <3>0. p \in p .. g /\ \A m \in (p + 1) .. g : m \in p .. g
      BY <1>2, <1>4
    <3>1. s # f
      BY <1>4, <1>16, <2>6, <3>0
    <3>2. s \notin back
      BY <1>4, <1>16, <2>6, <3>0 DEF back
    <3> QED BY <1>7, <1>14, <3>1, <3>2
  <2>7. call'.pos + 1 = p /\ call'.rowsGone = g
    BY <1>2, <1>10
  <2> QED BY <2>1, <2>5, <2>6, <2>7 DEF BackFrom
<1>20. RowsInv'
  <2>2. p - 1 <= g
    BY <1>2, <1>3
  <2>3. DeleteRows'
    BY <1>1, <1>2, <1>3, <1>5, <1>10, <1>16, <1>18, <1>19, <2>2 DEF DeleteRows, n
  <2>4. InsertRows'
    BY <1>1, <1>10 DEF InsertRows
  <2> QED BY <1>1, <1>2, <1>15, <2>3, <2>4 DEF RowsInv, UniqueIn
<1>21. ASSUME ~stale PROVE EntriesInv'
  <2>1. /\ (g > 0 => call.entriesGone = n * Indexes)
        /\ \A i \in Secondary : entries[i] = M \ Visited(i, call.entriesGone)
    BY <1>1, <1>21 DEF EntriesInv, DeleteEntries, g, n, M
  <2>2. M = Mirror(before.slots)'
    BY <1>1 DEF Mirror, M
  <2>3. \A i \in Secondary : Visited(i, call.entriesGone)' = Visited(i, call.entriesGone)
    BY <1>10 DEF Visited, Steps, EntryFor, CandidateOf, IndexOf
  <2>4. DeleteEntries'
    BY <1>1, <1>5, <1>10, <1>18, <2>1, <2>2, <2>3 DEF DeleteEntries, g, n
  <2> QED BY <1>1, <1>10, <1>16, <2>4 DEF EntriesInv, InsertEntries
<1> QED BY <1>1, <1>17, <1>20, <1>21

LEMMA RowsRestoredKeeps ==
    ASSUME Indexes \in Nat \ {0}, faults \in Nat, faults' <= 1,
           TypeOK, RowsInv, ~stale => EntriesInv, RowsRestored
    PROVE  TypeOK' /\ RowsInv' /\ (~stale' => EntriesInv')
<1> DEFINE n == Len(call.cs)
           eg == call.entriesGone
           M == Mirror(before.slots)
<1>1. /\ call.kind = "delete" /\ call.phase = "restoreRows" /\ call # NoCall /\ call.pos = 0
      /\ slots' = slots /\ entries' = entries /\ before' = before /\ stale' = stale
      /\ answer' = answer /\ faults' = faults /\ Continue("restoreEntries", eg)
  BY DEF RowsRestored, Deleting, NoCall
<1>2. /\ call \in Calls /\ slots \in Pages /\ entries \in Indices
      /\ before \in [slots : Pages, entries : Indices] /\ before.slots \in Pages
      /\ answer \in {"none", "ok", "raised"} /\ stale \in BOOLEAN
      /\ answer # "raised" /\ UniqueIn(slots) /\ UniqueIn(before.slots)
      /\ call.rowsGone \in Nat /\ eg \in Nat /\ call.rowsGone < n /\ n >= 1 /\ DeleteRows
  BY <1>1, Deletes
<1>3. /\ Len(call.restored) = n /\ (n = 1 \/ ReadFromTable) /\ BackFrom(0)
      /\ (call.rowsGone > 0 => faults = 1 /\ ReadFromTable) /\ eg <= n * Indexes
  BY <1>1, <1>2 DEF DeleteRows
<1>4. /\ call' \in Calls /\ call' # NoCall
      /\ call'.phase = "restoreEntries" /\ call'.pos = eg
      /\ call'.kind = call.kind /\ call'.cs = call.cs
      /\ call'.rowsGone = call.rowsGone /\ call'.entriesGone = eg
      /\ call'.restored = call.restored
  BY <1>1, <1>2, CallGoesOn
<1>5. TypeOK'
  BY <1>1, <1>2, <1>4 DEF TypeOK
<1>6. ReadFromTable => ReadFromTable'
  BY <1>1, <1>4 DEF ReadFromTable
<1>7. RowsInv'
  <2>1. BackFrom(0)'
    BY <1>1, <1>3, <1>4 DEF BackFrom, PageWithout, Gone
  <2>2. eg <= eg
    BY <1>2
  <2>3. DeleteRows'
    BY <1>1, <1>2, <1>3, <1>4, <1>6, <2>1, <2>2 DEF DeleteRows
  <2>4. InsertRows'
    BY <1>1, <1>4 DEF InsertRows
  <2> QED BY <1>1, <1>2, <1>4, <2>3, <2>4 DEF RowsInv, UniqueIn
<1>8. ASSUME ~stale PROVE EntriesInv'
  <2>1. /\ ReadFromTable /\ faults = 1 /\ (call.rowsGone > 0 => eg = n * Indexes)
        /\ \A i \in Secondary : entries[i] = M \ Visited(i, eg)
    BY <1>1, <1>8 DEF EntriesInv, DeleteEntries
  <2>2. M = Mirror(before.slots)'
    BY <1>1 DEF Mirror
  <2>3. \A i \in Secondary : Visited(i, call.entriesGone)' = Visited(i, eg)
    BY <1>4 DEF Visited, Steps, EntryFor, CandidateOf, IndexOf
  <2>4. \A i \in Secondary : Returned(i, call.pos)' = {}
    <3>1. eg + 1 .. eg = {}
      BY <1>2
    <3>2. \A i \in Secondary : Steps(i, call.pos + 1, call.entriesGone)' = {}
      BY <1>4, <3>1 DEF Steps
    <3> QED BY <3>2 DEF Returned
  <2>5. DeleteEntries'
    BY <1>1, <1>4, <1>6, <2>1, <2>2, <2>3, <2>4 DEF DeleteEntries
  <2> QED BY <1>1, <1>4, <2>5 DEF EntriesInv, InsertEntries
<1> QED BY <1>1, <1>5, <1>7, <1>8

(* Once the rows are back, every candidate's row is at the RID that
   _restored_rid finds for it. *)
LEMMA RidHoldsRow ==
    ASSUME TypeOK, RowsInv, call # NoCall, call.kind = "delete", call.phase = "restoreEntries",
           NEW n \in 1 .. Len(call.cs)
    PROVE  /\ RestoredRid(n) # 0 => RestoredRid(n) \in Slot
           /\ n <= call.rowsGone => RestoredRid(n) = call.restored[n]
           /\ ReadFromTable =>
                 /\ RestoredRid(n) \in Slot /\ slots[RestoredRid(n)] = call.cs[n].row
                 /\ call.cs[n].row # NoRow
                 /\ n > call.rowsGone => RestoredRid(n) = call.cs[n].slot
<1> DEFINE g == call.rowsGone
           W == PageWithout(g)
           back == {call.restored[m] : m \in (0 + 1) .. g}
           s == call.cs[n].slot
<1>1. /\ g \in Nat /\ g < Len(call.cs) /\ Len(call.cs) \in Nat
      /\ DOMAIN call.cs = 1 .. Len(call.cs)
      /\ s \in Slot /\ call.cs[n].row \in Row /\ BackFrom(0)
  BY Deletes DEF DeleteRows
<1>2. /\ \A m \in (0 + 1) .. g :
            call.restored[m] \in Slot /\ slots[call.restored[m]] = call.cs[m].row
            /\ W[call.restored[m]] = NoRow
      /\ \A t \in Slot \ back : slots[t] = W[t]
  BY <1>1 DEF BackFrom
<1>3. 0 \notin Slot
  BY DEF Slot
<1>4. CASE n <= g
  <2>1. n \in (0 + 1) .. g
    BY <1>1, <1>4
  <2>2. RestoredRid(n) = call.restored[n]
    BY <1>4 DEF RestoredRid
  <2>3. call.cs[n].row # NoRow
    BY <1>1, NoRowIsNoRow
  <2>4. ~(n > g)
    BY <1>1, <1>4
  <2> QED BY <1>2, <2>1, <2>2, <2>3, <2>4
<1>5. CASE ~(n <= g)
  <2>1. RestoredRid(n) = IF slots[s] # NoRow THEN s ELSE 0
    BY <1>5 DEF RestoredRid
  <2>2. ASSUME ReadFromTable
        PROVE  slots[s] = call.cs[n].row /\ call.cs[n].row # NoRow
    <3>1. before.slots[s] = call.cs[n].row /\ call.cs[n].row # NoRow
      BY <1>1, <2>2, NoRowIsNoRow DEF ReadFromTable
    <3>2. s \notin Gone(g)
      <4> SUFFICES ASSUME NEW m \in 1 .. g, call.cs[m].slot = s PROVE FALSE
        BY DEF Gone
      <4>1. m \in 1 .. Len(call.cs) /\ m # n
        BY <1>1, <1>5
      <4> QED BY <1>1, <2>2, <4>1 DEF ReadFromTable
    <3>3. W[s] = call.cs[n].row
      BY <1>1, <3>1, <3>2 DEF PageWithout
    <3> HIDE DEF W
    <3>4. s \notin back
      BY <1>2, <3>1, <3>3
    <3> QED BY <1>1, <1>2, <3>1, <3>3, <3>4
  <2> QED BY <1>1, <1>5, <2>1, <2>2
<1> QED BY <1>4, <1>5

LEMMA RestoreEntryKeeps ==
    ASSUME Indexes \in Nat \ {0}, faults \in Nat, faults' <= 1,
           TypeOK, RowsInv, ~stale => EntriesInv, RestoreEntry
    PROVE  TypeOK' /\ RowsInv' /\ (~stale' => EntriesInv')
<1> DEFINE p == call.pos
           n == Len(call.cs)
           eg == call.entriesGone
           j == IndexOf(p)
           c == CandidateOf(p)
           rid == RestoredRid(c)
           e == [val |-> call.cs[c].row.val, slot |-> rid]
           restored == [entries EXCEPT ![j] = @ \cup {e}]
           M == Mirror(before.slots)
<1>1. /\ call.kind = "delete" /\ call.phase = "restoreEntries" /\ call # NoCall /\ p > 0
      /\ slots' = slots /\ before' = before /\ stale' = stale /\ answer' = answer
      /\ Continue("restoreEntries", p - 1)
      /\ \/ entries' = (IF rid = 0 THEN entries ELSE restored) /\ NoFault
         \/ rid # 0 /\ entries' \in {entries, restored} /\ Fault
  BY SMTT(30) DEF RestoreEntry, Deleting, NoCall
<1>2. /\ call \in Calls /\ slots \in Pages /\ entries \in Indices
      /\ before \in [slots : Pages, entries : Indices] /\ before.slots \in Pages
      /\ answer \in {"none", "ok", "raised"} /\ stale \in BOOLEAN
      /\ answer # "raised" /\ UniqueIn(slots) /\ UniqueIn(before.slots)
      /\ p \in Nat /\ call.rowsGone \in Nat /\ eg \in Nat /\ call.rowsGone < n
      /\ n \in Nat /\ n >= 1 /\ DeleteRows
      /\ \A m \in 1 .. n : call.cs[m] \in Candidate /\ call.cs[m].slot \in Slot /\ call.cs[m].row \in Row
  BY <1>1, Deletes
<1>3. /\ Len(call.restored) = n /\ (n = 1 \/ ReadFromTable) /\ BackFrom(0)
      /\ (call.rowsGone > 0 => faults = 1 /\ ReadFromTable) /\ eg <= n * Indexes /\ p <= eg
  BY <1>1, <1>2 DEF DeleteRows
<1>4. c \in 1 .. n /\ j \in Secondary /\ p - 1 \in Nat /\ p - 1 <= eg
  <2> DEFINE all == n * Indexes
  <2>1. all \in Nat
    BY <1>2, StepsOfTheLoops
  <2>2. p \in 1 .. all /\ p - 1 \in Nat /\ p - 1 <= eg
    <3> HIDE DEF p, eg, all, n
    <3>1. eg <= all
      BY <1>3 DEF all
    <3> QED BY <1>1, <1>2, <1>3, <2>1, <3>1
  <2>3. c \in 1 .. n /\ j \in Secondary
    BY <1>2, <2>2, StepsOfTheLoops
  <2> QED BY <2>2, <2>3
<1>5. /\ (rid # 0 => rid \in Slot)
      /\ (ReadFromTable => rid \in Slot /\ rid # 0)
  <2>1. 0 \notin Slot
    BY DEF Slot
  <2> QED BY <1>1, <1>4, <2>1, RidHoldsRow
<1>6. /\ call' \in Calls /\ call' # NoCall
      /\ call'.phase = "restoreEntries" /\ call'.pos = p - 1
      /\ call'.kind = call.kind /\ call'.cs = call.cs
      /\ call'.rowsGone = call.rowsGone /\ call'.entriesGone = eg
      /\ call'.restored = call.restored
  BY <1>1, <1>2, <1>4, CallGoesOn
<1>7. /\ rid # 0 => restored \in Indices
      /\ \A i \in Secondary : restored[i] = IF i = j THEN entries[i] \cup {e} ELSE entries[i]
  <2>1. call.cs[c].row.val \in Val
    BY <1>2, <1>4 DEF Row
  <2>2. rid # 0 => e \in Entries
    BY <1>5, <2>1, SMTT(30) DEF Entries
  <2> HIDE DEF e, rid, j
  <2> QED BY <1>2, <2>2 DEF Indices
<1>8. entries' \in Indices
  BY <1>1, <1>2, <1>7
<1>9. TypeOK'
  BY <1>1, <1>2, <1>6, <1>8 DEF TypeOK
<1>10. ReadFromTable => ReadFromTable'
  BY <1>1, <1>6 DEF ReadFromTable
<1> HIDE DEF p, rid, j, c, e
<1>11. faults = 1 => faults' = 1
  BY <1>1 DEF Fault, NoFault
<1>12. RowsInv'
  <2>1. BackFrom(0)'
    BY <1>1, <1>3, <1>6 DEF BackFrom, PageWithout, Gone
  <2>2. DeleteRows'
    BY <1>1, <1>2, <1>3, <1>4, <1>6, <1>10, <1>11, <2>1 DEF DeleteRows
  <2>3. InsertRows'
    BY <1>1, <1>6 DEF InsertRows
  <2> QED BY <1>1, <1>2, <1>6, <2>2, <2>3 DEF RowsInv, UniqueIn
<1>13. ASSUME ~stale PROVE EntriesInv'
  <2>1. /\ ReadFromTable /\ faults = 1 /\ (call.rowsGone > 0 => eg = n * Indexes)
        /\ \A i \in Secondary : entries[i] = (M \ Visited(i, eg)) \cup Returned(i, p)
    BY <1>1, <1>13 DEF EntriesInv, DeleteEntries, p
  <2>2. entries' = restored
    BY <1>1, <1>5, <2>1 DEF Fault
  <2>3. M = Mirror(before.slots)'
    BY <1>1 DEF Mirror
  <2>4. \A i \in Secondary : Visited(i, call.entriesGone)' = Visited(i, eg)
    BY <1>6 DEF Visited, Steps, EntryFor, CandidateOf, IndexOf
  <2>5. \A m : RestoredRid(CandidateOf(m))' = RestoredRid(CandidateOf(m))
    BY <1>1, <1>6 DEF RestoredRid, CandidateOf
  <2>6. ASSUME NEW i \in Secondary
        PROVE  Returned(i, call.pos)' = IF i = j THEN Returned(i, p) \cup {e} ELSE Returned(i, p)
    <3>1. p .. eg = ((p + 1) .. eg) \cup {p}
      BY <1>2, <1>3, <1>4
    <3>2. (call'.pos + 1) = p
      BY <1>2, <1>6
    <3>3. Steps(i, call.pos + 1, call.entriesGone)'
             = IF i = j THEN Steps(i, p + 1, eg) \cup {p} ELSE Steps(i, p + 1, eg)
      BY <1>6, <3>1, <3>2 DEF Steps, IndexOf, j
    <3>4. Returned(i, call.pos)'
             = {[val |-> call.cs[CandidateOf(m)].row.val, slot |-> RestoredRid(CandidateOf(m))] :
                   m \in Steps(i, call.pos + 1, call.entriesGone)'}
      BY <1>6, <2>5 DEF Returned, CandidateOf
    <3>5. e = [val |-> call.cs[CandidateOf(p)].row.val, slot |-> RestoredRid(CandidateOf(p))]
      BY DEF e, c, rid
    <3> QED BY <3>3, <3>4, <3>5 DEF Returned
  <2>7. \A i \in Secondary : entries'[i] = (M \ Visited(i, eg)) \cup Returned(i, call.pos)'
    BY <1>7, <2>1, <2>2, <2>6
  <2> HIDE DEF M
  <2>8. DeleteEntries'
    BY <1>1, <1>6, <1>10, <1>11, <2>1, <2>3, <2>4, <2>7 DEF DeleteEntries
  <2> QED BY <1>1, <1>6, <2>8 DEF EntriesInv, InsertEntries
<1> QED BY <1>1, <1>9, <1>12, <1>13

(* The reversion is over: the rows are those of before, and the entries those of
   the rows where they are now. *)
LEMMA DeleteRaisesKeeps ==
    ASSUME Indexes \in Nat \ {0}, faults \in Nat, faults' <= 1,
           TypeOK, RowsInv, ~stale => EntriesInv, DeleteRaises
    PROVE  TypeOK' /\ RowsInv' /\ (~stale' => EntriesInv')
<1> DEFINE g == call.rowsGone
           n == Len(call.cs)
           eg == call.entriesGone
           all == n * Indexes
           B == before.slots
           M == Mirror(B)
           W == PageWithout(g)
           back == {call.restored[m] : m \in (0 + 1) .. g}
<1>1. /\ call.kind = "delete" /\ call.phase = "restoreEntries" /\ call # NoCall /\ call.pos = 0
      /\ slots' = slots /\ entries' = entries /\ before' = before /\ stale' = stale
      /\ call' = NoCall /\ answer' = "raised"
  BY DEF DeleteRaises, Deleting, NoCall, Ends
<1>2. /\ slots \in Pages /\ entries \in Indices
      /\ before \in [slots : Pages, entries : Indices] /\ B \in Pages
      /\ stale \in BOOLEAN /\ UniqueIn(slots) /\ UniqueIn(B)
      /\ g \in Nat /\ eg \in Nat /\ g < n /\ n \in Nat /\ n >= 1 /\ DeleteRows
      /\ DOMAIN call.cs = 1 .. n
      /\ \A m \in 1 .. n : call.cs[m].slot \in Slot /\ call.cs[m].row \in Row
  BY <1>1, Deletes
<1>3. /\ BackFrom(0) /\ (g > 0 => ReadFromTable) /\ eg <= all
  BY <1>1, <1>2 DEF DeleteRows
<1>4. /\ \A m \in (0 + 1) .. g :
            call.restored[m] \in Slot /\ slots[call.restored[m]] = call.cs[m].row
            /\ W[call.restored[m]] = NoRow
      /\ \A t \in Slot \ back : slots[t] = W[t]
  BY <1>3 DEF BackFrom
<1>5. \A t \in Slot : W[t] = IF t \in Gone(g) THEN NoRow ELSE B[t]
  BY DEF PageWithout
<1>6. ASSUME g = 0 PROVE slots = B
  <2>1. (0 + 1) .. g = {} /\ 1 .. g = {}
    BY <1>6
  <2>2. back = {} /\ Gone(g) = {}
    BY <2>1 DEF Gone
  <2>3. \A t \in Slot : slots[t] = B[t]
    <3> HIDE DEF W, back, B, g
    <3> QED BY <1>4, <1>5, <2>2
  <2> QED BY <1>2, <2>3 DEF Pages
<1>7. \A m \in 1 .. g : m \in 1 .. n
  BY <1>2
<1>8. ASSUME ReadFromTable
      PROVE  /\ \A m \in 1 .. n :
                   /\ RestoredRid(m) \in Slot /\ slots[RestoredRid(m)] = call.cs[m].row
                   /\ call.cs[m].row # NoRow /\ B[call.cs[m].slot] = call.cs[m].row
                   /\ m <= g => RestoredRid(m) = call.restored[m]
                   /\ m > g => RestoredRid(m) = call.cs[m].slot
             /\ \A m, o \in 1 .. n : call.cs[m].slot = call.cs[o].slot => m = o
  BY <1>1, <1>2, <1>8, RidHoldsRow DEF ReadFromTable
<1>9. Rows(slots) = Rows(B)
  <2>1. CASE g = 0
    BY <1>6, <2>1
  <2>2. CASE g > 0
    <3>1. ReadFromTable
      BY <1>3, <2>2
    <3>2. \A m \in (0 + 1) .. g : m \in 1 .. n
      BY <1>7
    <3> HIDE DEF W, back, B, g, n
    <3>3. ASSUME NEW t \in Slot, slots[t] # NoRow PROVE \E u \in Slot : B[u] = slots[t]
      <4>1. CASE t \in back
        <5>1. PICK m \in (0 + 1) .. g : t = call.restored[m]
          BY <4>1 DEF back
        <5>2. slots[t] = call.cs[m].row /\ m \in 1 .. n
          BY <1>4, <3>2, <5>1
        <5> QED BY <1>2, <1>8, <3>1, <5>2
      <4>2. CASE t \notin back
        BY <1>4, <1>5, <3>3, <4>2
      <4> QED BY <4>1, <4>2
    <3>4. ASSUME NEW t \in Slot, B[t] # NoRow PROVE \E u \in Slot : slots[u] = B[t]
      <4>1. CASE t \in Gone(g)
        <5>1. PICK m \in 1 .. g : t = call.cs[m].slot
          BY <4>1 DEF Gone
        <5> QED BY <1>7, <1>8, <3>1, <5>1
      <4>2. CASE t \notin Gone(g)
        <5>1. W[t] # NoRow /\ W[t] = B[t]
          BY <1>5, <3>4, <4>2
        <5>2. t \notin back
          BY <1>4, <5>1 DEF back
        <5> QED BY <1>4, <5>1, <5>2
      <4> QED BY <4>1, <4>2
    <3> QED BY <3>3, <3>4 DEF Rows
  <2> QED BY <1>2, <2>1, <2>2
<1>10. TypeOK'
  BY <1>1, <1>2 DEF TypeOK
<1>11. RowsInv'
  BY <1>1, <1>2, <1>9 DEF RowsInv, UniqueIn, InsertRows, DeleteRows, NoCall, Rows
<1>12. ASSUME ~stale PROVE \A i \in Secondary : entries[i] = Mirror(slots)
  <2> SUFFICES ASSUME NEW i \in Secondary PROVE entries[i] = Mirror(slots)
    OBVIOUS
  <2> DEFINE V == Visited(i, eg)
             R == Returned(i, 0)
  <2>1. /\ ReadFromTable /\ (g > 0 => eg = all) /\ entries[i] = (M \ V) \cup R
    BY <1>1, <1>12 DEF EntriesInv, DeleteEntries
  <2>2. all \in Nat
    BY <1>2, StepsOfTheLoops
  <2>3. \A m \in Steps(i, 1, eg) : m \in 1 .. all /\ CandidateOf(m) \in 1 .. n
    <3>1. \A m \in 1 .. eg : m \in 1 .. all
      <4> HIDE DEF all, eg
      <4> QED BY <1>2, <1>3, <2>2
    <3>2. \A m \in 1 .. all : CandidateOf(m) \in 1 .. n
      BY <1>2, StepsOfTheLoops
    <3> HIDE DEF all
    <3> QED BY <3>1, <3>2 DEF Steps
  <2>4. Steps(i, 0 + 1, eg) = Steps(i, 1, eg)
    OBVIOUS
  <2>5. CASE g = 0
    <3>1. \A m \in 1 .. n : RestoredRid(m) = call.cs[m].slot
      <4>1. \A m \in 1 .. n : m > g
        BY <2>5
      <4> QED BY <1>8, <2>1, <4>1
    <3>2. R = V
      <4>1. \A m \in Steps(i, 1, eg) :
               [val |-> call.cs[CandidateOf(m)].row.val, slot |-> RestoredRid(CandidateOf(m))]
               = EntryFor(call.cs[CandidateOf(m)])
        BY <2>3, <3>1 DEF EntryFor
      <4> QED BY <2>4, <4>1 DEF Returned, Visited
    <3>3. V \subseteq M
      <4> SUFFICES ASSUME NEW m \in 1 .. n PROVE EntryFor(call.cs[m]) \in M
        BY <2>3 DEF Visited
      <4> QED BY <1>2, <1>8, <2>1 DEF Mirror, EntryFor
    <3>4. entries[i] = M
      BY <2>1, <3>2, <3>3
    <3> QED BY <1>6, <2>5, <3>4
  <2>6. CASE g > 0
    <3>1. V = {EntryFor(call.cs[c]) : c \in 1 .. n}
      BY <1>2, <2>1, <2>6, AllAreVisited
    <3>2. \A x : x \in R <=> \E c \in 1 .. n : x = [val |-> call.cs[c].row.val, slot |-> RestoredRid(c)]
      <4>1. \A c \in 1 .. n : \E m \in Steps(i, 1, eg) : CandidateOf(m) = c
        <5>1. \A c \in 1 .. n : \E m \in 1 .. all : CandidateOf(m) = c /\ IndexOf(m) = i
          BY <1>2, StepsOfTheLoops
        <5> HIDE DEF all, n, eg
        <5>2. all = eg
          BY <2>1, <2>6
        <5> QED BY <5>1, <5>2 DEF Steps
      <4> HIDE DEF all, n, eg, g
      <4> QED BY <2>3, <2>4, <4>1 DEF Returned, eg
    <3>3. \A m \in (0 + 1) .. g : m \in 1 .. n /\ m <= g
      BY <1>7
    <3> HIDE DEF W, back, B, g, n, V, R, all, eg, M
    <3>4. ASSUME NEW t \in Slot, slots[t] # NoRow
          PROVE  [val |-> slots[t].val, slot |-> t] \in (M \ V) \cup R
      <4>1. CASE t \in back
        <5>1. PICK m \in (0 + 1) .. g : t = call.restored[m]
          BY <4>1 DEF back
        <5>2. slots[t] = call.cs[m].row /\ RestoredRid(m) = t /\ m \in 1 .. n
          BY <1>4, <1>8, <2>1, <3>3, <5>1
        <5> QED BY <3>2, <5>2
      <4>2. CASE t \notin back
        <5>1. B[t] = slots[t] /\ B[t] # NoRow /\ t \notin Gone(g)
          BY <1>4, <1>5, <3>4, <4>2
        <5>2. [val |-> slots[t].val, slot |-> t] \in M
          BY <5>1 DEF M, Mirror
        <5>3. ASSUME [val |-> slots[t].val, slot |-> t] \in V
              PROVE  [val |-> slots[t].val, slot |-> t] \in R
          <6>1. PICK c \in 1 .. n : EntryFor(call.cs[c]) = [val |-> slots[t].val, slot |-> t]
            BY <3>1, <5>3
          <6>2. call.cs[c].slot = t /\ call.cs[c].row.val = slots[t].val
            BY <6>1 DEF EntryFor
          <6>3. c > g
            <7>1. c \notin 1 .. g
              BY <5>1, <6>2 DEF Gone
            <7> QED BY <1>2, <7>1
          <6>4. RestoredRid(c) = t
            BY <1>8, <2>1, <6>2, <6>3
          <6> QED BY <3>2, <6>2, <6>4
        <5> QED BY <5>2, <5>3
      <4> QED BY <4>1, <4>2
    <3>5. ASSUME NEW x \in (M \ V) \cup R PROVE x \in Mirror(slots)
      <4>1. CASE x \in R
        <5>1. PICK c \in 1 .. n : x = [val |-> call.cs[c].row.val, slot |-> RestoredRid(c)]
          BY <3>2, <4>1
        <5>2. RestoredRid(c) \in Slot /\ slots[RestoredRid(c)] = call.cs[c].row
              /\ call.cs[c].row # NoRow
          BY <1>8, <2>1
        <5> QED BY <5>1, <5>2 DEF Mirror
      <4>2. CASE x \in M \ V
        <5>1. PICK t \in Slot : B[t] # NoRow /\ x = [val |-> B[t].val, slot |-> t]
          BY <4>2 DEF M, Mirror
        <5>2. t \notin Gone(g)
          <6> SUFFICES ASSUME NEW m \in 1 .. g, call.cs[m].slot = t PROVE FALSE
            BY DEF Gone
          <6>1. m \in 1 .. n /\ B[t] = call.cs[m].row
            BY <1>7, <1>8, <2>1
          <6>2. x = EntryFor(call.cs[m])
            BY <5>1, <6>1 DEF EntryFor
          <6> QED BY <3>1, <4>2, <6>1, <6>2
        <5>3. W[t] = B[t]
          BY <1>5, <5>2
        <5>4. t \notin back
          BY <1>4, <5>1, <5>3 DEF back
        <5>5. slots[t] = B[t]
          BY <1>4, <5>3, <5>4
        <5> QED BY <5>1, <5>5 DEF Mirror
      <4> QED BY <3>5, <4>1, <4>2
    <3>6. \A x : x \in Mirror(slots) <=> x \in (M \ V) \cup R
      BY <3>4, <3>5 DEF Mirror
    <3>7. Mirror(slots) = (M \ V) \cup R
      BY <3>6
    <3> QED BY <2>1, <3>7
  <2> QED BY <1>2, <2>5, <2>6
<1>13. ASSUME ~stale PROVE EntriesInv'
  BY <1>1, <1>12, <1>13 DEF EntriesInv, InsertEntries, DeleteEntries, NoCall, Mirror
<1> QED BY <1>1, <1>10, <1>11, <1>13

-------------------------------------------------------------------------------
LEMMA DmlInvInit ==
    ASSUME DmlInit
    PROVE  DmlInv
<1>1. /\ slots = [s \in Slot |-> NoRow] /\ entries = [i \in Secondary |-> {}]
      /\ call = NoCall /\ answer = "none" /\ stale = FALSE /\ faults = 0
      /\ before = [slots |-> slots, entries |-> entries]
  BY DEF DmlInit
<1>2. slots \in Pages /\ entries \in Indices
  BY <1>1 DEF Pages, Indices
<1>3. TypeOK
  BY <1>1, <1>2 DEF TypeOK
<1>4. UniqueIn(slots) /\ before.slots = slots
  BY <1>1 DEF UniqueIn
<1>5. RowsInv
  BY <1>1, <1>4 DEF RowsInv, InsertRows, DeleteRows, NoCall
<1>6. Mirror(slots) = {}
  BY <1>1 DEF Mirror
<1>7. EntriesInv
  BY <1>1, <1>6 DEF EntriesInv, InsertEntries, DeleteEntries, NoCall
<1> QED BY <1>1, <1>3, <1>5, <1>7 DEF DmlInv

LEMMA DmlInvNext ==
    ASSUME Indexes \in Nat \ {0}, DmlInv, [DmlNext]_dmlVars
    PROVE  DmlInv'
<1>1. CASE UNCHANGED dmlVars
  <2>1. TypeOK => TypeOK'
    BY <1>1 DEF dmlVars, TypeOK
  <2>0. /\ slots' = slots /\ entries' = entries /\ call' = call /\ answer' = answer
        /\ before' = before /\ stale' = stale /\ faults' = faults
    BY <1>1 DEF dmlVars
  <2>2. RowsInv => RowsInv'
    <3>1. \A p : BackFrom(p)' <=> BackFrom(p)
      BY <2>0 DEF BackFrom, PageWithout, Gone
    <3>2. ReadFromTable' <=> ReadFromTable
      BY <2>0 DEF ReadFromTable
    <3>3. \A p : PageWithout(p)' = PageWithout(p)
      BY <2>0 DEF PageWithout, Gone
    <3>4. DeleteRows => DeleteRows'
      BY <2>0, <3>1, <3>2, <3>3 DEF DeleteRows
    <3>5. InsertRows => InsertRows'
      BY <2>0, SMTT(30) DEF InsertRows
    <3> QED BY <2>0, <3>4, <3>5 DEF RowsInv, UniqueIn, Rows
  <2>3. EntriesInv => EntriesInv'
    <3>1. \A i, p : Visited(i, p)' = Visited(i, p)
      BY <2>0 DEF Visited, Steps, EntryFor, CandidateOf, IndexOf
    <3>2. \A i, p : Returned(i, p)' = Returned(i, p)
      BY <2>0 DEF Returned, Steps, RestoredRid, CandidateOf, IndexOf
    <3>3. ReadFromTable' <=> ReadFromTable
      BY <2>0 DEF ReadFromTable
    <3>4. Mirror(slots)' = Mirror(slots) /\ Mirror(before.slots)' = Mirror(before.slots)
      BY <2>0 DEF Mirror
    <3>5. InsertEntries => InsertEntries'
      BY <2>0, <3>4 DEF InsertEntries, EntryFor
    <3>6. DeleteEntries => DeleteEntries'
      BY <2>0, <3>1, <3>2, <3>3, <3>4 DEF DeleteEntries
    <3> QED BY <2>0, <3>4, <3>5, <3>6 DEF EntriesInv
  <2> QED BY <1>1, <2>1, <2>2, <2>3 DEF DmlInv, dmlVars
<1>2. CASE DmlNext
  <2>1. faults' = faults \/ faults' = faults + 1
    BY ZenonT(30), <1>2 DEF DmlNext, InsertRow, AddEntry, UnaddEntry, UninsertRow, StartDelete, StartUndo,
                RemoveEntry, RemoveRow, RestoreRow, RowsRestored, RestoreEntry, DeleteRaises,
                Fault, NoFault
  <2>2. faults \in Nat /\ faults' \in Nat /\ (faults' <= 1 => faults <= 1)
    BY <2>1 DEF DmlInv
  <2>3. ASSUME faults' <= 1
        PROVE  TypeOK' /\ RowsInv' /\ (~stale' => EntriesInv')
    <3>1. TypeOK /\ RowsInv /\ (~stale => EntriesInv)
      BY <2>2, <2>3 DEF DmlInv
    <3>2. ASSUME NEW r \in Row, InsertRow(r) PROVE TypeOK' /\ RowsInv' /\ (~stale' => EntriesInv')
      BY <3>1, <3>2, InsertRowKeeps
    <3>3. CASE AddEntry
      BY <2>2, <2>3, <3>1, <3>3, AddEntryKeeps
    <3>4. CASE UnaddEntry
      BY <2>2, <2>3, <3>1, <3>4, UnaddEntryKeeps
    <3>5. CASE UninsertRow
      BY <2>2, <2>3, <3>1, <3>5, UninsertRowKeeps
    <3>6. CASE StartDelete
      BY <3>1, <3>6, StartDeleteKeeps
    <3>7. CASE StartUndo
      BY <3>1, <3>7, StartUndoKeeps
    <3>8. CASE RemoveEntry
      BY <2>2, <2>3, <3>1, <3>8, RemoveEntryKeeps
    <3>9. CASE RemoveRow
      BY <2>2, <2>3, <3>1, <3>9, RemoveRowKeeps
    <3>10. CASE RestoreRow
      BY <2>2, <2>3, <3>1, <3>10, RestoreRowKeeps
    <3>11. CASE RowsRestored
      BY <2>2, <2>3, <3>1, <3>11, RowsRestoredKeeps
    <3>12. CASE RestoreEntry
      BY <2>2, <2>3, <3>1, <3>12, RestoreEntryKeeps
    <3>13. CASE DeleteRaises
      BY <2>2, <2>3, <3>1, <3>13, DeleteRaisesKeeps
    <3> QED BY <1>2, <3>2, <3>3, <3>4, <3>5, <3>6, <3>7, <3>8, <3>9, <3>10, <3>11, <3>12, <3>13 DEF DmlNext
  <2>4. faults' <= 1 /\ ~stale' => EntriesInv'
    BY <2>3
  <2> QED BY <2>2, <2>3, <2>4 DEF DmlInv
<1> QED BY <1>1, <1>2

(* dml.py:36-42 and 167-174: a call that raises because one native call failed,
   whichever it was, leaves the rows it found. *)
THEOREM CallThatRaisesKeepsRows ==
    ASSUME Indexes \in Nat \ {0}
    PROVE  DmlSpec => [](faults <= 1 => RaisedCallKeepsRows)
<1>1. DmlInit => DmlInv
  BY DmlInvInit
<1>2. DmlInv /\ [DmlNext]_dmlVars => DmlInv'
  BY DmlInvNext
<1>3. DmlInv => (faults <= 1 => RaisedCallKeepsRows)
  BY DEF DmlInv, RowsInv, RaisedCallKeepsRows
<1> QED BY <1>1, <1>2, <1>3, PTL DEF DmlSpec

(* Between two calls every index holds one entry per row, at the RID where the row
   is, though a native call has failed and rows have come back at other RIDs. *)
THEOREM IndexesMirrorTheRows ==
    ASSUME Indexes \in Nat \ {0}
    PROVE  DmlSpec => [](faults <= 1 => IndexesMirrorRows)
<1>1. DmlInit => DmlInv
  BY DmlInvInit
<1>2. DmlInv /\ [DmlNext]_dmlVars => DmlInv'
  BY DmlInvNext
<1>3. DmlInv => (faults <= 1 => IndexesMirrorRows)
  <2> SUFFICES ASSUME DmlInv, faults <= 1, call = NoCall, ~stale, NEW i \in Secondary
               PROVE  IndexMirrors(TableWith(slots, entries, i))
    BY DEF IndexesMirrorRows
  <2>1. entries[i] = Mirror(slots)
    BY DEF DmlInv, EntriesInv
  <2> QED BY <2>1 DEF IndexMirrors, TableWith, UsedSlots, Mirror
<1> QED BY <1>1, <1>2, <1>3, PTL DEF DmlSpec

-------------------------------------------------------------------------------
(* A call in which nothing fails, with no condition on what the undo of an INSERT
   remembers. *)

HadKey(k) == \E s \in Slot : before.slots[s] # NoRow /\ before.slots[s].key = k

FirstKeys(p) == {call.cs[m].row.key : m \in 1 .. p}

(* The entries that came back, of candidates whose slot has a row. *)
BackAgain(i, p) ==
    {EntryFor(call.cs[CandidateOf(m)]) :
        m \in {o \in Steps(i, p + 1, call.entriesGone) : slots[call.cs[CandidateOf(o)].slot] # NoRow}}

AddedSoFar ==
    call.kind = "insert" =>
        /\ call.phase = "add" /\ call.pos \in Secondary
        /\ ~HadKey(call.cs[1].row.key)
        /\ call.cs[1].slot = FirstFree(TableWith(before.slots, before.entries, 1))
        /\ \A i \in Secondary :
              entries[i] = before.entries[i] \cup (IF i < call.pos THEN {EntryFor(call.cs[1])} ELSE {})

(* The first p entries were there and are gone. *)
EntriesGone(p) ==
    \A i \in Secondary :
       Visited(i, p) \subseteq before.entries[i] /\ entries[i] = before.entries[i] \ Visited(i, p)

(* An entry was missing, or the row was. *)
ReasonToRaise ==
    \/ /\ \E m \in DOMAIN call.cs : \A i \in Secondary : EntryFor(call.cs[m]) \notin before.entries[i]
       /\ \A m \in 1 .. call.entriesGone : before.slots[call.cs[CandidateOf(m)].slot] # NoRow
    \/ /\ Len(call.cs) = 1 /\ ~HadKey(call.cs[1].row.key) /\ call.entriesGone = Indexes

RemovedSoFar ==
    call.kind = "delete" =>
        /\ call.phase = "removeEntries" => EntriesGone(call.pos - 1)
        /\ call.phase = "removeRows" =>
              /\ EntriesGone(Len(call.cs) * Indexes)
              /\ \A m \in 1 .. call.pos - 1 : HadKey(call.cs[m].row.key)
              /\ \A s \in Slot :
                    slots[s] = IF before.slots[s] # NoRow /\ before.slots[s].key \in FirstKeys(call.pos - 1)
                               THEN NoRow ELSE before.slots[s]
        /\ call.phase \in {"restoreRows", "restoreEntries"} =>
              /\ call.rowsGone = 0 /\ slots = before.slots
              /\ ReasonToRaise
              /\ \A i \in Secondary : Visited(i, call.entriesGone) \subseteq before.entries[i]
        /\ call.phase = "restoreRows" => EntriesGone(call.entriesGone)
        /\ call.phase = "restoreEntries" =>
              \A i \in Secondary :
                 entries[i] = (before.entries[i] \ Visited(i, call.entriesGone)) \cup BackAgain(i, call.pos)

(* The indexes have the same entries, whatever those are. *)
SoFarInv ==
    faults = 0 =>
        /\ \A i, j \in Secondary : call = NoCall => entries[i] = entries[j]
        /\ \A i, j \in Secondary : call # NoCall => before.entries[i] = before.entries[j]
        /\ AddedSoFar /\ RemovedSoFar

(* What the single steps of TableDml do to a table that has every index. *)
(* The tables that TableWith makes. *)
TableRecord == [exists : BOOLEAN, indexed : BOOLEAN, slots : Pages, entries : SUBSET Entries]

HasIndex(T) == T \in TableRecord /\ T.exists /\ T.indexed

LEMMA TableWithHasIndex ==
    ASSUME NEW page \in Pages, NEW es \in Indices, NEW i \in Secondary
    PROVE  /\ HasIndex(TableWith(page, es, i))
           /\ TableWith(page, es, i).slots = page
           /\ TableWith(page, es, i).entries = es[i]
  BY DEF HasIndex, TableRecord, TableWith, Indices

LEMMA SameTable ==
    ASSUME NEW T, NEW U, HasIndex(T), HasIndex(U), T.slots = U.slots, T.entries = U.entries
    PROVE  T = U
  BY DEF HasIndex, TableRecord

LEMMA RowsOfTable ==
    ASSUME NEW T, HasIndex(T)
    PROVE  /\ UsedSlots(T) = {s \in Slot : T.slots[s] # NoRow}
           /\ \A k : HasKey(T, k) <=> \E s \in Slot : T.slots[s] # NoRow /\ T.slots[s].key = k
<1>1. UsedSlots(T) = {s \in Slot : T.slots[s] # NoRow}
  BY DEF UsedSlots
<1>2. RowsOf(T) = {T.slots[s] : s \in {t \in Slot : T.slots[t] # NoRow}}
  BY <1>1 DEF RowsOf
<1> QED BY <1>1, <1>2 DEF HasKey

Inserted(w, T, c) ==
    /\ w.ok /\ HasIndex(w.table)
    /\ w.table.slots = [T.slots EXCEPT ![c.slot] = c.row]
    /\ w.table.entries = T.entries \cup {EntryFor(c)}

LEMMA WholeInsert ==
    ASSUME NEW T, HasIndex(T), NEW c \in Candidate, c.slot = FirstFree(T), ~HasKey(T, c.row.key)
    PROVE  Inserted(InsertWithIndexes(T, c.row, TRUE), T, c)
<1> DEFINE w == InsertWithIndexes(T, c.row, TRUE)
           d == [slot |-> FirstFree(T), row |-> c.row]
<1>1. T.exists /\ T.indexed
  BY DEF HasIndex
<1>2. d = c /\ c.slot \in Slot /\ c.row \in Row /\ EntryFor(c) \in Entries
  BY DEF Candidate, EntryFor, Entries, Row
<1>3. w = Done([T EXCEPT !.slots[d.slot] = c.row, !.entries = @ \cup {EntryFor(d)}], <<d>>)
  BY <1>1 DEF InsertWithIndexes, HandlesOpen
<1> HIDE DEF d, w
<1>4. w = Done([T EXCEPT !.slots[c.slot] = c.row, !.entries = @ \cup {EntryFor(c)}], <<c>>)
  BY <1>2, <1>3
<1> DEFINE p == [T.slots EXCEPT ![c.slot] = c.row]
           n == T.entries \cup {EntryFor(c)}
<1>5. p \in Pages /\ n \in SUBSET Entries
  BY <1>2 DEF HasIndex, TableRecord, Pages
<1> DEFINE U == [T EXCEPT !.slots[c.slot] = c.row, !.entries = @ \cup {EntryFor(c)}]
<1>6. T \in TableRecord /\ U.slots = p /\ U.entries = n /\ U = [T EXCEPT !.slots = U.slots, !.entries = U.entries]
  BY DEF HasIndex, TableRecord
<1> HIDE DEF U
<1>7. w.ok /\ w.table = [T EXCEPT !.slots = p, !.entries = n]
  BY <1>4, <1>6 DEF Done, U
<1> HIDE DEF p, n
<1>8. HasIndex(w.table) /\ w.table.slots = p /\ w.table.entries = n
  BY <1>5, <1>7 DEF HasIndex, TableRecord
<1> QED BY <1>7, <1>8 DEF Inserted, p, n, w

LEMMA InsertRowSoFar ==
    ASSUME Indexes \in Nat \ {0}, TypeOK, faults = 0, SoFarInv, NEW r \in Row, InsertRow(r)
    PROVE  SoFarInv'
<1>1. /\ call = NoCall /\ SlotOfKey(r.key) = {} /\ entries \in Indices
      /\ call'.kind = "insert" /\ call'.phase = "add" /\ call'.pos = 1
      /\ call'.cs = <<[slot |-> FreeSlot, row |-> r]>>
      /\ before' = [slots |-> slots, entries |-> entries] /\ entries' = entries
  BY DEF InsertRow, Enter, TypeOK
<1>2. call'.cs[1].slot = FreeSlot /\ call'.cs[1].row = r /\ call' # NoCall
  BY <1>1 DEF NoCall
<1>3. ~HadKey(call.cs[1].row.key)'
  BY <1>1, <1>2 DEF SlotOfKey, HadKey
<1>4. call'.cs[1].slot = FirstFree(TableWith(before'.slots, before'.entries, 1))
  BY <1>1, <1>2 DEF FreeSlot
<1>5. call'.pos \in Secondary /\ \A i \in Secondary : ~(i < call'.pos)
  BY <1>1 DEF Secondary
<1>6. AddedSoFar'
  BY <1>1, <1>3, <1>4, <1>5 DEF AddedSoFar
<1>7. \A i, j \in Secondary : before'.entries[i] = before'.entries[j]
  BY <1>1 DEF SoFarInv
<1> QED BY <1>1, <1>2, <1>6, <1>7 DEF SoFarInv, RemovedSoFar

LEMMA AfterTheCall ==
    ASSUME TypeOK', NEW i \in Secondary, NEW V, V = TableWith(slots, entries, i)'
    PROVE  HasIndex(V) /\ V.slots = slots' /\ V.entries = entries'[i]
<1>1. slots' \in Pages /\ entries' \in Indices
  BY DEF TypeOK
<1>2. V = TableWith(slots', entries', i)
  BY DEF TableWith
<1> QED BY <1>1, <1>2, TableWithHasIndex

LEMMA AddEntrySoFar ==
    ASSUME Indexes \in Nat \ {0}, TypeOK, TypeOK', RowsInv, faults = 0, faults' = 0, SoFarInv, AddEntry
    PROVE  SoFarInv' /\ (call' = NoCall => WholeCallAgrees)
<1> DEFINE c == call.cs[1]
           B == before.slots
           E == before.entries
<1>1. /\ call.kind = "insert" /\ call # NoCall /\ call \in Calls
      /\ slots' = slots /\ before' = before
      /\ entries \in Indices /\ B \in Pages /\ E \in Indices
  BY DEF AddEntry, TypeOK, NoCall
<1>2. Len(call.cs) = 1 /\ slots = [B EXCEPT ![c.slot] = c.row]
  BY <1>1 DEF RowsInv, InsertRows
<1>3. c \in Candidate
  BY <1>1, <1>2 DEF Calls
<1>4. /\ call.pos \in Secondary /\ ~HadKey(c.row.key) /\ c.slot = FirstFree(TableWith(B, E, 1))
      /\ \A i \in Secondary : entries[i] = E[i] \cup (IF i < call.pos THEN {EntryFor(c)} ELSE {})
      /\ \A i, j \in Secondary : E[i] = E[j]
  BY <1>1 DEF SoFarInv, AddedSoFar
<1>5. /\ entries' = Added
      /\ IF call.pos = Indexes THEN Ends("ok") ELSE Continue("add", call.pos + 1)
  BY DEF AddEntry, Fault
<1> HIDE DEF c, B, E
<1>6. \A i \in Secondary : entries'[i] = E[i] \cup (IF i <= call.pos THEN {EntryFor(c)} ELSE {})
  <2> SUFFICES ASSUME NEW i \in Secondary
               PROVE  entries'[i] = E[i] \cup (IF i <= call.pos THEN {EntryFor(c)} ELSE {})
    OBVIOUS
  <2>1. entries'[i] = IF i = call.pos THEN entries[i] \cup {EntryFor(c)} ELSE entries[i]
    BY <1>1, <1>5 DEF Added, Indices, c
  <2>2. i <= call.pos <=> i < call.pos \/ i = call.pos
    BY <1>4 DEF Secondary
  <2> QED BY <1>4, <2>1, <2>2
<1>7. CASE call.pos = Indexes
  <2>1. call' = NoCall /\ answer' = "ok"
    BY <1>5, <1>7 DEF Ends
  <2>2. \A i \in Secondary : entries'[i] = E[i] \cup {EntryFor(c)}
    <3>1. \A i \in Secondary : i <= call.pos
      BY <1>7 DEF Secondary
    <3> QED BY <1>6, <3>1
  <2>3. SoFarInv'
    <3>1. \A i, j \in Secondary : entries'[i] = entries'[j]
      BY <1>4, <2>2, ZenonT(30)
    <3> QED BY <2>1, <3>1 DEF SoFarInv, AddedSoFar, RemovedSoFar, NoCall
  <2>4. ASSUME NEW i \in Secondary
        PROVE  /\ TableWith(slots, entries, i)' = Whole(i).table
               /\ answer' = IF Whole(i).ok THEN "ok" ELSE "raised"
    <3>1. Whole(i) = InsertWithIndexes(TableWith(B, E, i), c.row, TRUE)
      BY <1>1 DEF Whole, B, E, c
    <3>2. PICK T : T = TableWith(B, E, i)
      OBVIOUS
    <3>3. HasIndex(T) /\ T.slots = B /\ T.entries = E[i]
      BY <1>1, <3>2, TableWithHasIndex
    <3>4. c.slot = FirstFree(T)
      <4>1. UsedSlots(TableWith(B, E, 1)) = UsedSlots(T)
        BY <3>2 DEF UsedSlots, TableWith
      <4> QED BY <1>4, <4>1 DEF FirstFree
    <3>5. ~HasKey(T, c.row.key)
      BY <1>4, <3>3, RowsOfTable DEF HadKey, B
    <3>6. PICK d \in Candidate : d = c
      BY <1>3
    <3>7. d.slot = FirstFree(T) /\ ~HasKey(T, d.row.key)
      BY <3>4, <3>5, <3>6
    <3>8. Inserted(InsertWithIndexes(T, d.row, TRUE), T, d)
      BY <3>3, <3>7, WholeInsert
    <3>9. PICK w : w = InsertWithIndexes(T, d.row, TRUE) /\ Inserted(w, T, d)
      BY <3>8
    <3>10. Whole(i) = w
      BY <3>1, <3>2, <3>6, <3>9
    <3>11. PICK V : V = TableWith(slots, entries, i)'
      OBVIOUS
    <3>12. HasIndex(V) /\ V.slots = slots' /\ V.entries = entries'[i]
      BY <3>11, AfterTheCall
    <3>13. V.slots = w.table.slots /\ V.entries = w.table.entries
      BY <1>1, <1>2, <2>2, <3>3, <3>6, <3>9, <3>12 DEF Inserted
    <3>14. V = w.table
      BY <3>9, <3>12, <3>13, SameTable DEF Inserted
    <3> QED BY <2>1, <3>9, <3>10, <3>11, <3>14 DEF Inserted
  <2> QED BY <2>3, <2>4 DEF WholeCallAgrees
<1>8. CASE call.pos # Indexes
  <2>1. /\ call' # NoCall /\ call'.phase = "add" /\ call'.pos = call.pos + 1
        /\ call'.kind = call.kind /\ call'.cs = call.cs
    <3>1. call.pos + 1 \in Nat /\ Continue("add", call.pos + 1)
      BY <1>4, <1>5, <1>8 DEF Secondary
    <3> QED BY <1>1, <3>1, CallGoesOn
  <2>2. call'.pos \in Secondary /\ \A i \in Secondary : i < call'.pos <=> i <= call.pos
    BY <1>4, <1>8, <2>1 DEF Secondary
  <2>3. AddedSoFar'
    BY <1>1, <1>4, <1>6, <2>1, <2>2, ZenonT(30) DEF AddedSoFar, HadKey, B, E, c, TableWith, FirstFree, UsedSlots, EntryFor
  <2> QED BY <1>1, <1>4, <2>1, <2>3 DEF SoFarInv, RemovedSoFar, E
<1> QED BY <1>7, <1>8

(* The outcomes of DeleteWithIndexes on a table that has every index. *)
Removed(w, T, cs) ==
    /\ w.ok /\ HasIndex(w.table)
    /\ \A s \in Slot :
          w.table.slots[s] = IF T.slots[s] # NoRow /\ T.slots[s].key \in {cs[i].row.key : i \in DOMAIN cs}
                             THEN NoRow ELSE T.slots[s]
    /\ w.table.entries = T.entries \ {EntryFor(cs[i]) : i \in DOMAIN cs}

LEMMA WholeDelete ==
    ASSUME NEW T, HasIndex(T), NEW cs,
           \A i \in DOMAIN cs : EntryFor(cs[i]) \in T.entries /\ HasKey(T, cs[i].row.key)
    PROVE  Removed(DeleteWithIndexes(T, cs, TRUE), T, cs)
<1> DEFINE w == DeleteWithIndexes(T, cs, TRUE)
           keys == {cs[i].row.key : i \in DOMAIN cs}
           gone == {EntryFor(cs[i]) : i \in DOMAIN cs}
           p == [s \in Slot |-> IF T.slots[s] # NoRow /\ T.slots[s].key \in keys THEN NoRow ELSE T.slots[s]]
           es == T.entries \ gone
<1>1. T.exists /\ T.indexed /\ T \in TableRecord
  BY DEF HasIndex
<1>2. w = Done(Without(T, cs, TRUE), cs)
  BY <1>1 DEF DeleteWithIndexes, HandlesOpen
<1>3. Without(T, cs, TRUE) = [T EXCEPT !.slots = p, !.entries = es]
  BY <1>1 DEF Without, TableRecord
<1>4. p \in Pages /\ es \in SUBSET Entries
  <2> HIDE DEF keys, gone
  <2> QED BY <1>1 DEF TableRecord, Pages
<1>5. \A s \in Slot : p[s] = IF T.slots[s] # NoRow /\ T.slots[s].key \in keys THEN NoRow ELSE T.slots[s]
  OBVIOUS
<1> HIDE DEF p, es, w
<1>6. w.ok /\ w.table = [T EXCEPT !.slots = p, !.entries = es]
  BY <1>2, <1>3 DEF Done
<1>7. HasIndex(w.table) /\ w.table.slots = p /\ w.table.entries = es
  BY <1>1, <1>4, <1>6 DEF HasIndex, TableRecord
<1> QED BY <1>5, <1>6, <1>7 DEF Removed, es, w

LEMMA WholeDeleteMissesEntry ==
    ASSUME NEW T, HasIndex(T), NEW cs, \E i \in DOMAIN cs : EntryFor(cs[i]) \notin T.entries
    PROVE  ~DeleteWithIndexes(T, cs, TRUE).ok /\ DeleteWithIndexes(T, cs, TRUE).table = T
<1>1. T.exists /\ T.indexed
  BY DEF HasIndex
<1> DEFINE w == DeleteWithIndexes(T, cs, TRUE)
<1>2. w = Raise(T)
  BY <1>1 DEF DeleteWithIndexes, HandlesOpen
<1> HIDE DEF w
<1>3. ~w.ok /\ w.table = T
  BY <1>2 DEF Raise
<1> QED BY <1>3 DEF w

Missed(w, T, cs) ==
    /\ ~w.ok /\ HasIndex(w.table)
    /\ w.table.slots = T.slots
    /\ w.table.entries = T.entries \ {EntryFor(cs[i]) : i \in {j \in DOMAIN cs : T.slots[cs[j].slot] = NoRow}}

LEMMA WholeDeleteMissesRow ==
    ASSUME NEW T, HasIndex(T), NEW cs,
           \A i \in DOMAIN cs : EntryFor(cs[i]) \in T.entries,
           \E i \in DOMAIN cs : ~HasKey(T, cs[i].row.key)
    PROVE  Missed(DeleteWithIndexes(T, cs, TRUE), T, cs)
<1> DEFINE w == DeleteWithIndexes(T, cs, TRUE)
           lost == {EntryFor(cs[i]) : i \in {j \in DOMAIN cs : T.slots[cs[j].slot] = NoRow}}
           es == T.entries \ lost
<1>1. T.exists /\ T.indexed /\ T \in TableRecord
  BY DEF HasIndex
<1>2. w = Raise([T EXCEPT !.entries = @ \ lost])
  BY <1>1 DEF DeleteWithIndexes, HandlesOpen
<1> HIDE DEF w, lost
<1>3. ~w.ok /\ w.table = [T EXCEPT !.entries = es]
  BY <1>1, <1>2 DEF Raise, TableRecord
<1>4. es \in SUBSET Entries
  BY <1>1 DEF TableRecord
<1> HIDE DEF es
<1>5. HasIndex(w.table) /\ w.table.slots = T.slots /\ w.table.entries = es
  BY <1>1, <1>3, <1>4 DEF HasIndex, TableRecord
<1> QED BY <1>3, <1>5 DEF Missed, es, w, lost

(* Both ways in which a DELETE starts. *)
LEMMA DeleteStartsSoFar ==
    ASSUME TypeOK, faults = 0, SoFarInv, NEW cs, Enter("delete", "removeEntries", cs),
           UNCHANGED <<slots, entries>>
    PROVE  SoFarInv'
<1>1. /\ call = NoCall /\ entries' = entries
      /\ call'.kind = "delete" /\ call'.phase = "removeEntries" /\ call'.pos = 1
      /\ before' = [slots |-> slots, entries |-> entries]
  BY DEF Enter
<1>2. call' # NoCall /\ before'.entries = entries
  BY <1>1 DEF NoCall
<1>3. \A i \in Secondary : Visited(i, call.pos - 1)' = {}
  <2>1. \A i \in Secondary : {m \in 1 .. call'.pos - 1 : IndexOf(m) = i} = {}
    BY <1>1
  <2>2. \A i \in Secondary : Steps(i, 1, call.pos - 1)' = {}
    BY <2>1 DEF Steps, IndexOf
  <2> QED BY <2>2 DEF Visited
<1>4. EntriesGone(call.pos - 1)'
  BY <1>1, <1>2, <1>3 DEF EntriesGone
<1>5. RemovedSoFar'
  BY <1>1, <1>4 DEF RemovedSoFar
<1>6. \A i, j \in Secondary : before'.entries[i] = before'.entries[j]
  BY <1>1, <1>2 DEF SoFarInv
<1> QED BY <1>1, <1>2, <1>5, <1>6 DEF SoFarInv, AddedSoFar

LEMMA StartDeleteSoFar ==
    ASSUME TypeOK, faults = 0, SoFarInv, StartDelete
    PROVE  SoFarInv'
<1>1. PICK ss \in SUBSET {s \in Slot : slots[s] # NoRow} :
         Enter("delete", "removeEntries", InSlotOrder(ss))
  BY DEF StartDelete
<1>2. UNCHANGED <<slots, entries>>
  BY DEF StartDelete
<1> QED BY <1>1, <1>2, DeleteStartsSoFar

LEMMA StartUndoSoFar ==
    ASSUME TypeOK, faults = 0, SoFarInv, StartUndo
    PROVE  SoFarInv'
<1>1. PICK c \in Candidate : Enter("delete", "removeEntries", <<c>>)
  BY DEF StartUndo
<1>2. UNCHANGED <<slots, entries>>
  BY DEF StartUndo
<1> QED BY <1>1, <1>2, DeleteStartsSoFar

(* What is visited when a step of the loop is. *)
LEMMA VisitedStep ==
    ASSUME NEW p \in Nat, p >= 1, NEW i
    PROVE  Visited(i, p) = IF i = IndexOf(p)
                           THEN Visited(i, p - 1) \cup {EntryFor(call.cs[CandidateOf(p)])}
                           ELSE Visited(i, p - 1)
<1>1. 1 .. p = (1 .. p - 1) \cup {p}
  OBVIOUS
<1>2. Steps(i, 1, p) = IF i = IndexOf(p) THEN Steps(i, 1, p - 1) \cup {p} ELSE Steps(i, 1, p - 1)
  BY <1>1 DEF Steps
<1> QED BY <1>2 DEF Visited

LEMMA RemoveEntrySoFar ==
    ASSUME Indexes \in Nat \ {0}, TypeOK, RowsInv, faults = 0, faults' = 0, SoFarInv, RemoveEntry
    PROVE  SoFarInv' /\ call' # NoCall
<1> DEFINE j == IndexOf(call.pos)
           c == CandidateOf(call.pos)
           e == EntryFor(call.cs[c])
           last == Len(call.cs) * Indexes
           E == before.entries
<1>1. /\ call.kind = "delete" /\ call.phase = "removeEntries" /\ call # NoCall
      /\ slots' = slots /\ before' = before
      /\ \/ /\ e \in entries[j] /\ entries' = [entries EXCEPT ![j] = @ \ {e}]
            /\ IF call.pos = last THEN Continue("removeRows", 1)
               ELSE Continue("removeEntries", call.pos + 1)
         \/ e \notin entries[j] /\ Reverting(0, call.pos - 1) /\ entries' = entries
  BY DEF RemoveEntry, Deleting, NoCall, Fault
<1>2. /\ call \in Calls /\ entries \in Indices /\ before.slots \in Pages
      /\ call.pos \in Nat /\ Len(call.cs) \in Nat /\ Len(call.cs) >= 1 /\ DeleteRows
      /\ DOMAIN call.cs = 1 .. Len(call.cs)
      /\ \A n \in 1 .. Len(call.cs) :
            call.cs[n] \in Candidate /\ call.cs[n].slot \in Slot /\ call.cs[n].row \in Row
  BY <1>1, Deletes
<1>3. call.pos \in 1 .. last /\ slots = before.slots /\ (Len(call.cs) = 1 \/ ReadFromTable)
  BY <1>1, <1>2 DEF DeleteRows
<1>4. last \in Nat /\ last >= 1 /\ c \in 1 .. Len(call.cs) /\ j \in Secondary
  BY <1>2, <1>3, StepsOfTheLoops
<1>5. call.pos >= 1 /\ call.pos <= last /\ call.pos - 1 \in Nat
  BY <1>2, <1>3, <1>4
<1>6. /\ \A i, h \in Secondary : E[i] = E[h]
      /\ \A i \in Secondary :
            Visited(i, call.pos - 1) \subseteq E[i] /\ entries[i] = E[i] \ Visited(i, call.pos - 1)
  BY <1>1 DEF SoFarInv, RemovedSoFar, EntriesGone
<1>7. \A i \in Secondary :
         Visited(i, call.pos) = IF i = j THEN Visited(i, call.pos - 1) \cup {e}
                                ELSE Visited(i, call.pos - 1)
  BY <1>2, <1>5, VisitedStep
<1> HIDE DEF j, c, e, last, E
<1>8. CASE /\ e \in entries[j] /\ entries' = [entries EXCEPT ![j] = @ \ {e}]
           /\ IF call.pos = last THEN Continue("removeRows", 1)
              ELSE Continue("removeEntries", call.pos + 1)
  <2>1. /\ call' # NoCall /\ call'.kind = call.kind /\ call'.cs = call.cs
        /\ \/ call.pos = last /\ call'.phase = "removeRows" /\ call'.pos = 1
           \/ call.pos # last /\ call'.phase = "removeEntries" /\ call'.pos = call.pos + 1
    <3>1. 1 \in Nat /\ call.pos + 1 \in Nat
      BY <1>2
    <3>2. CASE call.pos = last
      <4>1. Continue("removeRows", 1)
        BY <1>8, <3>2
      <4> QED BY <1>2, <3>1, <3>2, <4>1, CallGoesOn
    <3>3. CASE call.pos # last
      <4>1. Continue("removeEntries", call.pos + 1)
        BY <1>8, <3>3
      <4> QED BY <1>2, <3>1, <3>3, <4>1, CallGoesOn
    <3> QED BY <3>2, <3>3
  <2>2. \A i \in Secondary : entries'[i] = IF i = j THEN entries[i] \ {e} ELSE entries[i]
    BY <1>2, <1>8 DEF Indices
  <2>3. \A i \in Secondary :
           Visited(i, call.pos) \subseteq E[i] /\ entries'[i] = E[i] \ Visited(i, call.pos)
    <3> SUFFICES ASSUME NEW i \in Secondary
                 PROVE  Visited(i, call.pos) \subseteq E[i] /\ entries'[i] = E[i] \ Visited(i, call.pos)
      OBVIOUS
    <3>1. Visited(i, call.pos - 1) \subseteq E[i] /\ entries[i] = E[i] \ Visited(i, call.pos - 1)
      BY <1>6
    <3>2. CASE i = j
      <4>1. /\ entries'[i] = entries[i] \ {e} /\ e \in entries[i]
            /\ Visited(i, call.pos) = Visited(i, call.pos - 1) \cup {e}
        BY <1>7, <1>8, <2>2, <3>2
      <4> QED BY <3>1, <4>1
    <3>3. CASE i # j
      BY <1>7, <2>2, <3>1, <3>3
    <3> QED BY <3>2, <3>3
  <2>4. CASE call.pos = last
    <3>1. \A i \in Secondary : Visited(i, Len(call.cs) * Indexes)' = Visited(i, call.pos)
      BY <2>1, <2>4 DEF Visited, Steps, last, EntryFor, CandidateOf, IndexOf
    <3>2. EntriesGone(Len(call.cs) * Indexes)'
      BY <1>1, <2>3, <3>1 DEF EntriesGone, E
    <3>3. 1 .. call'.pos - 1 = {} /\ FirstKeys(call.pos - 1)' = {}
      BY <2>1, <2>4 DEF FirstKeys
    <3>4. call'.phase = "removeRows" /\ slots' = before'.slots
      BY <1>1, <1>3, <2>1, <2>4
    <3>5. RemovedSoFar'
      BY <3>2, <3>3, <3>4 DEF RemovedSoFar
    <3> QED BY <1>1, <1>6, <2>1, <3>5 DEF SoFarInv, AddedSoFar, E
  <2>5. CASE call.pos # last
    <3>1. call'.pos - 1 = call.pos /\ call'.phase = "removeEntries"
      BY <1>2, <2>1, <2>5
    <3>2. \A i \in Secondary : Visited(i, call.pos - 1)' = Visited(i, call.pos)
      BY <2>1, <3>1 DEF Visited, Steps, EntryFor, CandidateOf, IndexOf
    <3>3. EntriesGone(call.pos - 1)'
      BY <1>1, <2>3, <3>2 DEF EntriesGone, E
    <3>4. RemovedSoFar'
      BY <3>1, <3>3 DEF RemovedSoFar
    <3> QED BY <1>1, <1>6, <2>1, <3>4 DEF SoFarInv, AddedSoFar, E
  <2> QED BY <2>1, <2>4, <2>5
<1>9. CASE e \notin entries[j] /\ Reverting(0, call.pos - 1) /\ entries' = entries
  <2>1. /\ call' # NoCall /\ call'.phase = "restoreRows"
        /\ call'.kind = call.kind /\ call'.cs = call.cs
        /\ call'.rowsGone = 0 /\ call'.entriesGone = call.pos - 1
    BY <1>1, <1>2, <1>5, <1>9, TurnsBack
  <2>2. ASSUME NEW m \in 1 .. call.pos - 1
        PROVE  /\ CandidateOf(m) \in 1 .. Len(call.cs) /\ IndexOf(m) \in Secondary
               /\ EntryFor(call.cs[CandidateOf(m)]) \in Visited(IndexOf(m), call.pos - 1)
               /\ EntryFor(call.cs[CandidateOf(m)]) \in E[IndexOf(m)]
    <3>1. m \in 1 .. last
      BY <1>2, <1>4, <1>5
    <3>2. CandidateOf(m) \in 1 .. Len(call.cs) /\ IndexOf(m) \in Secondary
      BY <1>2, <3>1, StepsOfTheLoops DEF last
    <3>3. m \in Steps(IndexOf(m), 1, call.pos - 1)
      BY DEF Steps
    <3>4. EntryFor(call.cs[CandidateOf(m)]) \in Visited(IndexOf(m), call.pos - 1)
      BY <3>3 DEF Visited
    <3> QED BY <1>6, <3>2, <3>4
  <2>3. e \notin Visited(j, call.pos - 1)
    <3> SUFFICES ASSUME NEW m \in Steps(j, 1, call.pos - 1),
                        EntryFor(call.cs[CandidateOf(m)]) = e
                 PROVE  FALSE
      BY DEF Visited
    <3>1. m \in 1 .. call.pos - 1 /\ m \in 1 .. last /\ m # call.pos /\ IndexOf(m) = j
      BY <1>2, <1>4, <1>5 DEF Steps
    <3>2. CandidateOf(m) \in 1 .. Len(call.cs)
      BY <2>2, <3>1
    <3>3. call.cs[CandidateOf(m)].slot = call.cs[c].slot
      BY DEF EntryFor, e
    <3>4. CandidateOf(m) = c
      BY <1>2, <1>3, <1>4, <3>2, <3>3, SMTT(30) DEF ReadFromTable
    <3> QED BY <1>2, <1>3, <3>1, <3>4, StepsOfTheLoops DEF last, c, j
  <2>4. \A i \in Secondary : e \notin E[i]
    BY <1>4, <1>6, <1>9, <2>3
  <2>5. ASSUME NEW m \in 1 .. call.pos - 1
        PROVE  before.slots[call.cs[CandidateOf(m)].slot] # NoRow
    <3>1. CASE ReadFromTable
      BY <1>2, <2>2, <3>1, NoRowIsNoRow, SMTT(30) DEF ReadFromTable
    <3>2. CASE Len(call.cs) = 1
      <4>1. CandidateOf(m) = c
        BY <1>4, <2>2, <3>2
      <4>2. e \in E[IndexOf(m)] /\ IndexOf(m) \in Secondary
        BY <2>2, <4>1 DEF e
      <4> QED BY <2>4, <4>2
    <3> QED BY <1>3, <3>1, <3>2
  <2>6. ReasonToRaise'
    <3>1. \A i \in Secondary : EntryFor(call'.cs[c]) \notin before'.entries[i]
      BY <1>1, <2>1, <2>4 DEF e, E
    <3>2. c \in DOMAIN call'.cs
      BY <1>2, <1>4, <2>1
    <3>3. \A m \in 1 .. call'.entriesGone : before'.slots[call'.cs[CandidateOf(m)].slot] # NoRow
      BY <1>1, <2>1, <2>5
    <3> HIDE DEF c
    <3> QED BY <3>1, <3>2, <3>3 DEF ReasonToRaise, EntryFor, CandidateOf
  <2>7. \A i \in Secondary : Visited(i, call.entriesGone)' = Visited(i, call.pos - 1)
    BY <2>1 DEF Visited, Steps, EntryFor, CandidateOf, IndexOf
  <2>8. EntriesGone(call.entriesGone)'
    BY <1>1, <1>6, <1>9, <2>7 DEF EntriesGone, E
  <2>9. RemovedSoFar'
    <3>1. \A i \in Secondary : Visited(i, call.entriesGone)' \subseteq before'.entries[i]
      BY <2>8 DEF EntriesGone
    <3> QED BY <1>1, <1>3, <2>1, <2>6, <2>8, <3>1 DEF RemovedSoFar
  <2> QED BY <1>1, <1>6, <2>1, <2>9 DEF SoFarInv, AddedSoFar, E
<1> QED BY <1>1, <1>8, <1>9 DEF e, j, c, last

(* The row of a candidate that was read from the table is there until the call
   removes it, at its slot. *)
LEMMA RowIsThere ==
    ASSUME TypeOK, RowsInv, Deleting("removeRows"), ReadFromTable
    PROVE  SlotOfKey(call.cs[call.pos].row.key) # {}
<1> DEFINE p == call.pos
           s == call.cs[p].slot
<1>1. /\ call # NoCall /\ call.kind = "delete" /\ call.phase = "removeRows"
      /\ Len(call.cs) \in Nat /\ DOMAIN call.cs = 1 .. Len(call.cs) /\ DeleteRows
      /\ \A m \in 1 .. Len(call.cs) : call.cs[m].slot \in Slot /\ call.cs[m].row \in Row
  <2>1. call # NoCall /\ call.kind = "delete" /\ call.phase = "removeRows"
    BY DEF Deleting, NoCall
  <2> QED BY <2>1, Deletes
<1>2. p \in 1 .. Len(call.cs) /\ slots = PageWithout(p - 1)
  BY <1>1 DEF DeleteRows
<1>3. before.slots[s] = call.cs[p].row /\ s \in Slot /\ call.cs[p].row # NoRow
  BY <1>1, <1>2, NoRowIsNoRow DEF ReadFromTable
<1>4. s \notin Gone(p - 1)
  <2> SUFFICES ASSUME NEW m \in 1 .. p - 1, call.cs[m].slot = s PROVE FALSE
    BY DEF Gone
  <2>1. m \in 1 .. Len(call.cs) /\ m # p
    BY <1>1, <1>2
  <2> QED BY <1>1, <1>2, <2>1 DEF ReadFromTable
<1>5. slots[s] = call.cs[p].row
  BY <1>2, <1>3, <1>4 DEF PageWithout
<1> QED BY <1>3, <1>5 DEF SlotOfKey

(* The last row goes, and the whole call is that of TableDml. *)
LEMMA DeleteIsWhole ==
    ASSUME Indexes \in Nat \ {0}, TypeOK, TypeOK', RowsInv, faults = 0, SoFarInv,
           Deleting("removeRows"), entries' = entries, answer' = "ok",
           \A m \in 1 .. Len(call.cs) : HadKey(call.cs[m].row.key),
           \A s \in Slot :
              slots'[s] = IF before.slots[s] # NoRow /\ before.slots[s].key \in FirstKeys(Len(call.cs))
                          THEN NoRow ELSE before.slots[s]
    PROVE  WholeCallAgrees /\ \A i, h \in Secondary : entries'[i] = entries'[h]
<1> DEFINE n == Len(call.cs)
           B == before.slots
           E == before.entries
           gone == {EntryFor(call.cs[c]) : c \in 1 .. n}
<1>1. /\ call # NoCall /\ call.kind = "delete" /\ call.phase = "removeRows"
      /\ n \in Nat /\ DOMAIN call.cs = 1 .. n /\ before \in [slots : Pages, entries : Indices]
  <2>1. call # NoCall /\ call.kind = "delete" /\ call.phase = "removeRows"
    BY DEF Deleting, NoCall
  <2> QED BY <2>1, Deletes
<1>2. B \in Pages /\ E \in Indices /\ slots' \in Pages
  BY <1>1 DEF TypeOK
<1>3. \A i \in Secondary : gone \subseteq E[i] /\ entries[i] = E[i] \ gone
  <2>1. EntriesGone(n * Indexes)
    BY <1>1 DEF SoFarInv, RemovedSoFar
  <2>2. \A i \in Secondary : Visited(i, n * Indexes) = gone
    BY <1>1, AllAreVisited
  <2> HIDE DEF gone
  <2> QED BY <2>1, <2>2 DEF EntriesGone
<1>4. \A i, h \in Secondary : E[i] = E[h]
  BY <1>1 DEF SoFarInv
<1>5. ASSUME NEW i \in Secondary
      PROVE  TableWith(slots, entries, i)' = Whole(i).table /\ Whole(i).ok
  <2>1. PICK cs : cs = call.cs
    OBVIOUS
  <2>2. PICK T : T = TableWith(B, E, i)
    OBVIOUS
  <2>3. HasIndex(T) /\ T.slots = B /\ T.entries = E[i]
    BY <1>2, <2>2, TableWithHasIndex
  <2>4. Whole(i) = DeleteWithIndexes(T, cs, TRUE)
    BY <1>1, <2>1, <2>2 DEF Whole
  <2>5. \A m \in DOMAIN cs : EntryFor(cs[m]) \in T.entries /\ HasKey(T, cs[m].row.key)
    <3> SUFFICES ASSUME NEW m \in DOMAIN cs
                 PROVE  EntryFor(cs[m]) \in T.entries /\ HasKey(T, cs[m].row.key)
      OBVIOUS
    <3>1. m \in 1 .. n /\ EntryFor(cs[m]) \in gone
      BY <1>1, <2>1 DEF EntryFor
    <3>2. HadKey(cs[m].row.key)
      BY <2>1, <3>1
    <3> HIDE DEF gone
    <3>3. EntryFor(cs[m]) \in T.entries
      BY <1>3, <2>3, <3>1
    <3>4. HasKey(T, cs[m].row.key)
      BY <2>3, <3>2, RowsOfTable DEF HadKey
    <3> QED BY <3>3, <3>4
  <2>6. Removed(DeleteWithIndexes(T, cs, TRUE), T, cs)
    BY <2>3, <2>5, WholeDelete
  <2>7. PICK w : w = DeleteWithIndexes(T, cs, TRUE) /\ Removed(w, T, cs)
    BY <2>6
  <2>8. PICK V : V = TableWith(slots, entries, i)'
    OBVIOUS
  <2>9. HasIndex(V) /\ V.slots = slots' /\ V.entries = entries'[i]
    BY <2>8, AfterTheCall
  <2>10. V.entries = w.table.entries
    <3>1. {EntryFor(cs[m]) : m \in DOMAIN cs} = gone
      BY <1>1, <2>1 DEF EntryFor
    <3> HIDE DEF gone
    <3> QED BY <1>3, <2>3, <2>7, <2>9, <3>1 DEF Removed
  <2>11. V.slots = w.table.slots
    <3>1. {cs[m].row.key : m \in DOMAIN cs} = FirstKeys(n)
      BY <1>1, <2>1 DEF FirstKeys
    <3>2. \A s \in Slot : V.slots[s] = w.table.slots[s]
      BY <2>3, <2>7, <2>9, <3>1, ZenonT(30) DEF Removed
    <3>3. V.slots \in Pages /\ w.table.slots \in Pages
      BY <2>7, <2>9 DEF Removed, HasIndex, TableRecord
    <3> QED BY <3>2, <3>3 DEF Pages
  <2>12. V = w.table
    BY <2>7, <2>9, <2>10, <2>11, SameTable DEF Removed
  <2> QED BY <2>4, <2>7, <2>8, <2>12 DEF Removed
<1> HIDE DEF gone, E
<1>6. \A i, h \in Secondary : entries'[i] = entries'[h]
  BY <1>3, <1>4, ZenonT(30)
<1> QED BY <1>5, <1>6 DEF WholeCallAgrees

LEMMA RemoveRowSoFar ==
    ASSUME Indexes \in Nat \ {0}, TypeOK, TypeOK', RowsInv, faults = 0, faults' = 0, SoFarInv, RemoveRow
    PROVE  SoFarInv' /\ (call' = NoCall => WholeCallAgrees)
<1> DEFINE p == call.pos
           n == Len(call.cs)
           ss == SlotOfKey(call.cs[p].row.key)
           B == before.slots
<1>1. /\ Deleting("removeRows") /\ call.kind = "delete" /\ call.phase = "removeRows" /\ call # NoCall
      /\ entries' = entries /\ before' = before
      /\ \/ /\ ss # {} /\ slots' = [s \in Slot |-> IF s \in ss THEN NoRow ELSE slots[s]]
            /\ IF p = n THEN Ends("ok") ELSE Continue("removeRows", p + 1)
         \/ ss = {} /\ Reverting(p - 1, n * Indexes) /\ slots' = slots
  BY DEF RemoveRow, Deleting, NoCall, Fault
<1>2. /\ call \in Calls /\ slots \in Pages /\ B \in Pages /\ p \in Nat /\ n \in Nat /\ n >= 1
      /\ DOMAIN call.cs = 1 .. n /\ DeleteRows
  BY <1>1, Deletes
<1>3. p \in 1 .. n /\ (n = 1 \/ ReadFromTable)
  BY <1>1, <1>2 DEF DeleteRows
<1>4. /\ EntriesGone(n * Indexes)
      /\ \A m \in 1 .. p - 1 : HadKey(call.cs[m].row.key)
      /\ \A s \in Slot :
            slots[s] = IF B[s] # NoRow /\ B[s].key \in FirstKeys(p - 1) THEN NoRow ELSE B[s]
      /\ \A i, h \in Secondary : before.entries[i] = before.entries[h]
  BY <1>1 DEF SoFarInv, RemovedSoFar
<1>5. CASE /\ ss # {} /\ slots' = [s \in Slot |-> IF s \in ss THEN NoRow ELSE slots[s]]
           /\ IF p = n THEN Ends("ok") ELSE Continue("removeRows", p + 1)
  <2>1. 1 .. p = (1 .. p - 1) \cup {p}
    BY <1>3, <1>2
  <2>2. FirstKeys(p) = FirstKeys(p - 1) \cup {call.cs[p].row.key}
    BY <2>1 DEF FirstKeys
  <2>3. \A s \in Slot : slots[s] # NoRow => slots[s] = B[s]
    BY <1>4
  <2>4. \A m \in 1 .. p : HadKey(call.cs[m].row.key)
    <3>1. HadKey(call.cs[p].row.key)
      BY <1>5, <2>3 DEF SlotOfKey, HadKey
    <3> HIDE DEF p
    <3> QED BY <1>4, <2>1, <3>1
  <2>5. \A s \in Slot :
           slots'[s] = IF B[s] # NoRow /\ B[s].key \in FirstKeys(p) THEN NoRow ELSE B[s]
    <3> SUFFICES ASSUME NEW s \in Slot
                 PROVE  slots'[s] = IF B[s] # NoRow /\ B[s].key \in FirstKeys(p) THEN NoRow ELSE B[s]
      OBVIOUS
    <3>1. s \in ss <=> slots[s] # NoRow /\ slots[s].key = call.cs[p].row.key
      BY DEF SlotOfKey
    <3>2. slots'[s] = IF s \in ss THEN NoRow ELSE slots[s]
      BY <1>5
    <3>3. slots[s] = IF B[s] # NoRow /\ B[s].key \in FirstKeys(p - 1) THEN NoRow ELSE B[s]
      BY <1>4
    <3> HIDE DEF ss, p
    <3> QED BY <2>2, <3>1, <3>2, <3>3
  <2>6. CASE p = n
    <3>1. call' = NoCall /\ answer' = "ok"
      BY <1>5, <2>6 DEF Ends
    <3>2. WholeCallAgrees /\ \A i, h \in Secondary : entries'[i] = entries'[h]
      BY <1>1, <2>4, <2>5, <2>6, <3>1, DeleteIsWhole
    <3> QED BY <3>1, <3>2 DEF SoFarInv, AddedSoFar, RemovedSoFar, NoCall
  <2>7. CASE p # n
    <3>1. /\ call' # NoCall /\ call'.phase = "removeRows" /\ call'.pos = p + 1
          /\ call'.kind = call.kind /\ call'.cs = call.cs
      <4>1. Continue("removeRows", p + 1) /\ p + 1 \in Nat
        BY <1>2, <1>5, <2>7
      <4> QED BY <1>2, <4>1, CallGoesOn
    <3>2. call'.pos - 1 = p
      <4> HIDE DEF p
      <4> QED BY <1>2, <3>1
    <3>3. EntriesGone(Len(call.cs) * Indexes)'
      <4>1. \A i : Visited(i, Len(call.cs) * Indexes)' = Visited(i, n * Indexes)
        BY <3>1 DEF Visited, Steps, EntryFor, CandidateOf, IndexOf
      <4> QED BY <1>1, <1>4, <4>1 DEF EntriesGone
    <3>4. \A m \in 1 .. call'.pos - 1 : HadKey(call.cs[m].row.key)'
      BY <1>1, <2>4, <3>1, <3>2 DEF HadKey
    <3>5. FirstKeys(call.pos - 1)' = FirstKeys(p)
      BY <3>1, <3>2 DEF FirstKeys
    <3>6. RemovedSoFar'
      BY <1>1, <2>5, <3>1, <3>3, <3>4, <3>5 DEF RemovedSoFar
    <3> QED BY <1>1, <1>4, <3>1, <3>6 DEF SoFarInv, AddedSoFar
  <2> QED BY <2>6, <2>7
<1>6. CASE ss = {} /\ Reverting(p - 1, n * Indexes) /\ slots' = slots
  <2>1. ~ReadFromTable
    BY <1>1, <1>6, RowIsThere
  <2>2. n = 1 /\ p = 1 /\ p - 1 = 0
    <3> HIDE DEF p, n
    <3> QED BY <1>2, <1>3, <2>1
  <2>3. n * Indexes = Indexes /\ n * Indexes \in Nat
    BY <2>2
  <2>4. Reverting(0, n * Indexes) /\ 0 \in Nat
    BY <1>6, <2>2
  <2>5. /\ call' # NoCall /\ call'.phase = "restoreRows"
        /\ call'.kind = call.kind /\ call'.cs = call.cs
        /\ call'.rowsGone = 0 /\ call'.entriesGone = n * Indexes
    BY <1>1, <1>2, <2>3, <2>4, TurnsBack
  <2>6. slots = B
    <3>1. FirstKeys(p - 1) = {}
      <4>1. 1 .. p - 1 = {}
        BY <2>2
      <4> QED BY <4>1 DEF FirstKeys
    <3>2. \A s \in Slot : slots[s] = B[s]
      BY <1>4, <3>1
    <3> QED BY <1>2, <3>2 DEF Pages
  <2>7. ~HadKey(call.cs[1].row.key)
    BY <1>6, <2>2, <2>6 DEF SlotOfKey, HadKey
  <2>8. ReasonToRaise'
    BY <1>1, <2>2, <2>3, <2>5, <2>7 DEF ReasonToRaise, HadKey
  <2>9. EntriesGone(call.entriesGone)'
    <3>1. \A i : Visited(i, call.entriesGone)' = Visited(i, n * Indexes)
      BY <2>5 DEF Visited, Steps, EntryFor, CandidateOf, IndexOf
    <3> QED BY <1>1, <1>4, <3>1 DEF EntriesGone
  <2>10. RemovedSoFar'
    <3>1. \A i \in Secondary : Visited(i, call.entriesGone)' \subseteq before'.entries[i]
      BY <2>9 DEF EntriesGone
    <3> QED BY <1>1, <1>6, <2>5, <2>6, <2>8, <2>9, <3>1 DEF RemovedSoFar
  <2> QED BY <1>1, <1>4, <2>5, <2>10 DEF SoFarInv, AddedSoFar
<1> QED BY <1>1, <1>5, <1>6

LEMMA RowsRestoredSoFar ==
    ASSUME TypeOK, RowsInv, faults = 0, SoFarInv, RowsRestored
    PROVE  SoFarInv' /\ call' # NoCall
<1>1. /\ call.kind = "delete" /\ call.phase = "restoreRows" /\ call # NoCall
      /\ slots' = slots /\ entries' = entries /\ before' = before
      /\ Continue("restoreEntries", call.entriesGone)
  BY DEF RowsRestored, Deleting, NoCall
<1>2. call \in Calls /\ call.entriesGone \in Nat
  BY <1>1, Deletes
<1>3. /\ call' # NoCall /\ call'.phase = "restoreEntries" /\ call'.pos = call.entriesGone
      /\ call'.kind = call.kind /\ call'.cs = call.cs
      /\ call'.rowsGone = call.rowsGone /\ call'.entriesGone = call.entriesGone
  BY <1>1, <1>2, CallGoesOn
<1>4. /\ call.rowsGone = 0 /\ slots = before.slots /\ ReasonToRaise /\ EntriesGone(call.entriesGone)
      /\ \A i, h \in Secondary : before.entries[i] = before.entries[h]
  BY <1>1 DEF SoFarInv, RemovedSoFar
<1>5. \A i : Visited(i, call.entriesGone)' = Visited(i, call.entriesGone)
  BY <1>3 DEF Visited, Steps, EntryFor, CandidateOf, IndexOf
<1>6. \A i : BackAgain(i, call.pos)' = {}
  <2>1. \A i : Steps(i, call.pos + 1, call.entriesGone)' = {}
    <3>1. (call.entriesGone + 1) .. call.entriesGone = {}
      BY <1>2, SMTT(30)
    <3> QED BY <1>3, <3>1 DEF Steps
  <2> QED BY <2>1 DEF BackAgain
<1>7. ReasonToRaise'
  BY <1>1, <1>3, <1>4 DEF ReasonToRaise, HadKey, EntryFor, CandidateOf
<1>8. RemovedSoFar'
  BY <1>1, <1>3, <1>4, <1>5, <1>6, <1>7 DEF RemovedSoFar, EntriesGone
<1> QED BY <1>1, <1>3, <1>4, <1>8 DEF SoFarInv, AddedSoFar

LEMMA RestoreEntrySoFar ==
    ASSUME Indexes \in Nat \ {0}, TypeOK, RowsInv, faults = 0, faults' = 0, SoFarInv, RestoreEntry
    PROVE  SoFarInv' /\ call' # NoCall
<1> DEFINE p == call.pos
           eg == call.entriesGone
           j == IndexOf(p)
           c == CandidateOf(p)
           s == call.cs[c].slot
           rid == RestoredRid(c)
           e == EntryFor(call.cs[c])
<1>1. /\ call.kind = "delete" /\ call.phase = "restoreEntries" /\ call # NoCall /\ p > 0
      /\ slots' = slots /\ before' = before /\ Continue("restoreEntries", p - 1)
      /\ entries' = IF rid = 0 THEN entries
                    ELSE [entries EXCEPT ![j] = @ \cup {[val |-> call.cs[c].row.val, slot |-> rid]}]
  BY DEF RestoreEntry, Deleting, NoCall, Fault
<1>2. /\ call \in Calls /\ entries \in Indices /\ p \in Nat /\ eg \in Nat /\ Len(call.cs) \in Nat
      /\ \A n \in 1 .. Len(call.cs) : call.cs[n].slot \in Slot
      /\ DeleteRows
  BY <1>1, Deletes
<1>3. eg <= Len(call.cs) * Indexes /\ p <= eg
  BY <1>1, <1>2 DEF DeleteRows
<1>4. c \in 1 .. Len(call.cs) /\ p - 1 \in Nat /\ c > 0
  <2> DEFINE all == Len(call.cs) * Indexes
  <2>1. all \in Nat
    BY <1>2, StepsOfTheLoops
  <2>2. p \in 1 .. all /\ p - 1 \in Nat
    <3>1. eg <= all
      BY <1>3
    <3> HIDE DEF p, eg, all
    <3> QED BY <1>1, <1>2, <1>3, <2>1, <3>1
  <2>3. c \in 1 .. Len(call.cs)
    BY <1>2, <2>2, StepsOfTheLoops
  <2> QED BY <2>2, <2>3
<1>5. /\ call' # NoCall /\ call'.phase = "restoreEntries" /\ call'.pos = p - 1
      /\ call'.kind = call.kind /\ call'.cs = call.cs
      /\ call'.rowsGone = call.rowsGone /\ call'.entriesGone = eg
  BY <1>1, <1>2, <1>4, CallGoesOn
<1>6. /\ call.rowsGone = 0 /\ slots = before.slots /\ ReasonToRaise
      /\ \A i \in Secondary : Visited(i, eg) \subseteq before.entries[i]
      /\ \A i \in Secondary : entries[i] = (before.entries[i] \ Visited(i, eg)) \cup BackAgain(i, p)
      /\ \A i, h \in Secondary : before.entries[i] = before.entries[h]
  BY <1>1 DEF SoFarInv, RemovedSoFar
<1>7. rid = IF slots[s] # NoRow THEN s ELSE 0
  BY <1>4, <1>6 DEF RestoredRid
<1>8. s # 0
  BY <1>2, <1>4 DEF Slot
<1>9. \A i \in Secondary :
         entries'[i] = IF i = j /\ slots[s] # NoRow THEN entries[i] \cup {e} ELSE entries[i]
  <2>1. CASE slots[s] # NoRow
    <3>1. entries' = [entries EXCEPT ![j] = @ \cup {e}]
      BY <1>1, <1>7, <1>8, <2>1 DEF EntryFor
    <3> HIDE DEF j, e
    <3> QED BY <1>2, <2>1, <3>1 DEF Indices
  <2>2. CASE slots[s] = NoRow
    BY <1>1, <1>7, <2>2
  <2> QED BY <2>1, <2>2
<1>10. ASSUME NEW i \in Secondary
       PROVE  BackAgain(i, call.pos)' = IF i = j /\ slots[s] # NoRow THEN BackAgain(i, p) \cup {e}
                                        ELSE BackAgain(i, p)
  <2> DEFINE HasRow(o) == slots[call.cs[CandidateOf(o)].slot] # NoRow
             old == {o \in Steps(i, p + 1, eg) : HasRow(o)}
             new == {o \in Steps(i, p, eg) : HasRow(o)}
  <2>1. p .. eg = ((p + 1) .. eg) \cup {p} /\ call'.pos + 1 = p
    <3> HIDE DEF p, eg
    <3> QED BY <1>2, <1>3, <1>4, <1>5
  <2>2. Steps(i, p, eg) = IF i = j THEN Steps(i, p + 1, eg) \cup {p} ELSE Steps(i, p + 1, eg)
    BY <2>1 DEF Steps
  <2>3. new = IF i = j /\ slots[s] # NoRow THEN old \cup {p} ELSE old
    BY <2>2
  <2>4. BackAgain(i, p) = {EntryFor(call.cs[CandidateOf(m)]) : m \in old}
    BY DEF BackAgain
  <2>5. BackAgain(i, call.pos)' = {EntryFor(call.cs[CandidateOf(m)]) : m \in new}
    BY <1>1, <1>5, <2>1 DEF BackAgain, Steps, EntryFor, CandidateOf, IndexOf
  <2> HIDE DEF old, new
  <2> QED BY <2>3, <2>4, <2>5
<1> HIDE DEF p, eg, j, c, s, rid, e
<1>11. \A i \in Secondary :
          entries'[i] = (before.entries[i] \ Visited(i, eg)) \cup BackAgain(i, call.pos)'
  BY <1>6, <1>9, <1>10
<1>12. \A i : Visited(i, call.entriesGone)' = Visited(i, eg)
  BY <1>5 DEF Visited, Steps, EntryFor, CandidateOf, IndexOf
<1>13. ReasonToRaise'
  <2>1. ReasonToRaise /\ call'.cs = call.cs /\ call'.entriesGone = call.entriesGone /\ before' = before
    BY <1>1, <1>5, <1>6, ZenonT(30) DEF eg
  <2> QED BY ONLY <2>1, ZenonT(30) DEF ReasonToRaise, HadKey, EntryFor, CandidateOf
<1>14. RemovedSoFar'
  BY <1>1, <1>5, <1>6, <1>11, <1>12, <1>13 DEF RemovedSoFar
<1> QED BY <1>1, <1>5, <1>6, <1>14 DEF SoFarInv, AddedSoFar

(* The reversion has put back what was removed, except the entry of a row that was
   not there, and so does the whole call of TableDml. *)
LEMMA DeleteRaisesSoFar ==
    ASSUME Indexes \in Nat \ {0}, TypeOK, TypeOK', RowsInv, faults = 0, SoFarInv, DeleteRaises
    PROVE  SoFarInv' /\ WholeCallAgrees
<1> DEFINE eg == call.entriesGone
           B == before.slots
           E == before.entries
           Again(i) == {EntryFor(call.cs[CandidateOf(m)]) :
                           m \in {o \in Steps(i, 1, eg) : B[call.cs[CandidateOf(o)].slot] # NoRow}}
<1>1. /\ call.kind = "delete" /\ call.phase = "restoreEntries" /\ call # NoCall /\ call.pos = 0
      /\ slots' = slots /\ entries' = entries /\ call' = NoCall /\ answer' = "raised"
  BY DEF DeleteRaises, Deleting, NoCall, Ends
<1>2. /\ Len(call.cs) \in Nat /\ DOMAIN call.cs = 1 .. Len(call.cs) /\ DeleteRows /\ eg \in Nat
      /\ before \in [slots : Pages, entries : Indices]
  BY <1>1, Deletes
<1>3. eg <= Len(call.cs) * Indexes /\ B \in Pages /\ E \in Indices
  BY <1>1, <1>2 DEF DeleteRows
<1>4. /\ slots = B /\ ReasonToRaise
      /\ \A i \in Secondary : Visited(i, eg) \subseteq E[i]
      /\ \A i \in Secondary : entries[i] = (E[i] \ Visited(i, eg)) \cup Again(i)
      /\ \A i, h \in Secondary : E[i] = E[h]
  <2>1. /\ slots = B /\ ReasonToRaise
        /\ \A i \in Secondary : Visited(i, eg) \subseteq E[i]
        /\ \A i \in Secondary : entries[i] = (E[i] \ Visited(i, eg)) \cup BackAgain(i, 0)
        /\ \A i, h \in Secondary : E[i] = E[h]
    BY <1>1 DEF SoFarInv, RemovedSoFar
  <2>2. \A i : BackAgain(i, 0) = Again(i)
    <3>1. 0 + 1 = 1
      OBVIOUS
    <3> QED BY <2>1, <3>1 DEF BackAgain
  <2> QED BY <2>1, <2>2
<1>5. CASE /\ \E m \in DOMAIN call.cs : \A i \in Secondary : EntryFor(call.cs[m]) \notin E[i]
           /\ \A m \in 1 .. eg : B[call.cs[CandidateOf(m)].slot] # NoRow
  <2>1. \A i : Again(i) = Visited(i, eg)
    BY <1>5 DEF Visited, Steps
  <2> HIDE DEF Again, eg, E, B
  <2>2. ASSUME NEW i \in Secondary PROVE entries'[i] = E[i]
    <3>1. /\ entries'[i] = (E[i] \ Visited(i, eg)) \cup Visited(i, eg)
          /\ Visited(i, eg) \subseteq E[i]
      BY <1>1, <1>4, <2>1
    <3> QED BY <3>1
  <2>3. ASSUME NEW i \in Secondary
        PROVE  TableWith(slots, entries, i)' = Whole(i).table /\ ~Whole(i).ok
    <3>1. PICK cs : cs = call.cs
      OBVIOUS
    <3>2. PICK T : T = TableWith(B, E, i)
      OBVIOUS
    <3>3. HasIndex(T) /\ T.slots = B /\ T.entries = E[i]
      BY <1>3, <3>2, TableWithHasIndex
    <3>4. Whole(i) = DeleteWithIndexes(T, cs, TRUE)
      BY <1>1, <3>1, <3>2 DEF Whole, B, E
    <3>5. \E m \in DOMAIN cs : EntryFor(cs[m]) \notin T.entries
      BY <1>5, <3>1, <3>3
    <3>6. ~DeleteWithIndexes(T, cs, TRUE).ok /\ DeleteWithIndexes(T, cs, TRUE).table = T
      BY <3>3, <3>5, WholeDeleteMissesEntry
    <3>7. PICK V : V = TableWith(slots, entries, i)'
      OBVIOUS
    <3>8. HasIndex(V) /\ V.slots = slots' /\ V.entries = entries'[i]
      BY <3>7, AfterTheCall
    <3>9. V = T
      BY <1>1, <1>4, <2>2, <3>3, <3>8, SameTable
    <3> QED BY <3>4, <3>6, <3>7, <3>9
  <2>4. WholeCallAgrees
    BY <1>1, <2>3 DEF WholeCallAgrees
  <2> QED BY <1>1, <1>4, <2>2, <2>4 DEF SoFarInv, AddedSoFar, RemovedSoFar, NoCall
<1>6. CASE Len(call.cs) = 1 /\ ~HadKey(call.cs[1].row.key) /\ eg = Indexes
  <2> DEFINE e == EntryFor(call.cs[1])
             lost == IF B[call.cs[1].slot] = NoRow THEN {e} ELSE {}
  <2>1. Len(call.cs) * Indexes = Indexes /\ 1 .. Len(call.cs) = {1}
    BY <1>6
  <2>2. \A i \in Secondary : Visited(i, eg) = {e}
    <3>1. \A i \in Secondary :
             Visited(i, Len(call.cs) * Indexes) = {EntryFor(call.cs[c]) : c \in 1 .. Len(call.cs)}
      BY <1>2, AllAreVisited
    <3>2. {EntryFor(call.cs[c]) : c \in 1 .. Len(call.cs)} = {e}
      BY <2>1
    <3> HIDE DEF eg, e
    <3> QED BY <1>6, <2>1, <3>1, <3>2
  <2>3. \A m \in 1 .. eg : CandidateOf(m) = 1
    <3>1. 1 \in Nat /\ 1 * Indexes = Indexes
      OBVIOUS
    <3> QED BY <1>6, <3>1, StepsOfTheLoops
  <2>4. ASSUME NEW i \in Secondary PROVE Again(i) = {e} \ lost
    <3>1. \E m \in Steps(i, 1, eg) : TRUE
      <4>1. Visited(i, eg) # {}
        BY <2>2
      <4> QED BY <4>1 DEF Visited
    <3>2. \A m \in Steps(i, 1, eg) : CandidateOf(m) = 1
      BY <2>3 DEF Steps
    <3> QED BY <3>1, <3>2
  <2> HIDE DEF Again, eg, e, lost
  <2>5. \A i \in Secondary : e \in E[i] /\ entries'[i] = E[i] \ lost
    <3>1. lost \subseteq {e}
      BY DEF lost
    <3> QED BY <1>1, <1>4, <2>2, <2>4, <3>1
  <2>6. ASSUME NEW i \in Secondary
        PROVE  TableWith(slots, entries, i)' = Whole(i).table /\ ~Whole(i).ok
    <3>1. PICK cs : cs = call.cs
      OBVIOUS
    <3>2. PICK T : T = TableWith(B, E, i)
      OBVIOUS
    <3>3. HasIndex(T) /\ T.slots = B /\ T.entries = E[i]
      BY <1>3, <3>2, TableWithHasIndex
    <3>4. Whole(i) = DeleteWithIndexes(T, cs, TRUE)
      BY <1>1, <3>1, <3>2 DEF Whole
    <3>5. DOMAIN cs = {1}
      BY <1>2, <2>1, <3>1
    <3>6. \A m \in DOMAIN cs : EntryFor(cs[m]) \in T.entries
      BY <2>5, <3>1, <3>3, <3>5 DEF e
    <3>7. \E m \in DOMAIN cs : ~HasKey(T, cs[m].row.key)
      <4>1. ~HasKey(T, cs[1].row.key)
        BY <1>6, <3>1, <3>3, RowsOfTable DEF HadKey
      <4> QED BY <3>5, <4>1
    <3>8. Missed(DeleteWithIndexes(T, cs, TRUE), T, cs)
      BY <3>3, <3>6, <3>7, WholeDeleteMissesRow
    <3>9. PICK w : w = DeleteWithIndexes(T, cs, TRUE) /\ Missed(w, T, cs)
      BY <3>8
    <3>10. PICK V : V = TableWith(slots, entries, i)'
      OBVIOUS
    <3>11. HasIndex(V) /\ V.slots = slots' /\ V.entries = entries'[i]
      BY <3>10, AfterTheCall
    <3>12. {EntryFor(cs[m]) : m \in {k \in DOMAIN cs : T.slots[cs[k].slot] = NoRow}} = lost
      BY <3>1, <3>3, <3>5 DEF lost, e
    <3>13. V.slots = w.table.slots /\ V.entries = w.table.entries
      BY <1>1, <1>4, <2>5, <3>3, <3>9, <3>11, <3>12 DEF Missed
    <3>14. V = w.table
      BY <3>9, <3>11, <3>13, SameTable DEF Missed
    <3> QED BY <3>4, <3>9, <3>10, <3>14 DEF Missed
  <2>7. WholeCallAgrees
    BY <1>1, <2>6 DEF WholeCallAgrees
  <2>8. \A i, h \in Secondary : entries'[i] = entries'[h]
    BY <1>4, <2>5, ZenonT(30)
  <2> QED BY <1>1, <2>7, <2>8 DEF SoFarInv, AddedSoFar, RemovedSoFar, NoCall
<1> QED BY <1>4, <1>5, <1>6 DEF ReasonToRaise

(* Every step, when nothing has failed so far. *)
LEMMA SoFarNext ==
    ASSUME Indexes \in Nat \ {0}, DmlInv, DmlInv', SoFarInv, [DmlNext]_dmlVars
    PROVE  SoFarInv' /\ (call # NoCall /\ call' = NoCall /\ faults' = 0 => WholeCallAgrees)
<1>1. CASE UNCHANGED dmlVars
  <2>1. /\ slots' = slots /\ entries' = entries /\ call' = call /\ before' = before /\ faults' = faults
    BY <1>1 DEF dmlVars
  <2>2. SoFarInv'
    <3>1. \A i, p : Visited(i, p)' = Visited(i, p)
      BY <2>1 DEF Visited, Steps, EntryFor, CandidateOf, IndexOf
    <3>2. \A i, p : BackAgain(i, p)' = BackAgain(i, p)
      BY <2>1 DEF BackAgain, Steps, EntryFor, CandidateOf, IndexOf
    <3>3. /\ \A k : HadKey(k)' <=> HadKey(k)
          /\ \A p : FirstKeys(p)' = FirstKeys(p)
      BY <2>1 DEF HadKey, FirstKeys
    <3>4. \A p : EntriesGone(p)' <=> EntriesGone(p)
      BY <2>1, <3>1 DEF EntriesGone
    <3>5. ReasonToRaise' <=> ReasonToRaise
      BY <2>1, <3>3 DEF ReasonToRaise, EntryFor, CandidateOf
    <3>6. AddedSoFar => AddedSoFar'
      BY <2>1, <3>3 DEF AddedSoFar, EntryFor, TableWith, FirstFree, UsedSlots
    <3>7. RemovedSoFar => RemovedSoFar'
      BY <2>1, <3>1, <3>2, <3>3, <3>4, <3>5 DEF RemovedSoFar
    <3> QED BY <2>1, <3>6, <3>7 DEF SoFarInv
  <2> QED BY <2>1, <2>2
<1>2. CASE DmlNext
  <2>1. faults' = faults \/ faults' = faults + 1
    BY ZenonT(30), <1>2 DEF DmlNext, InsertRow, AddEntry, UnaddEntry, UninsertRow, StartDelete, StartUndo,
                RemoveEntry, RemoveRow, RestoreRow, RowsRestored, RestoreEntry, DeleteRaises,
                Fault, NoFault
  <2>2. ASSUME faults' # 0 PROVE SoFarInv'
    BY <2>2 DEF SoFarInv
  <2>3. ASSUME faults' = 0
        PROVE  SoFarInv' /\ (call # NoCall /\ call' = NoCall => WholeCallAgrees)
    <3>1. faults = 0 /\ TypeOK /\ TypeOK' /\ RowsInv
      BY <2>1, <2>3 DEF DmlInv
    <3>2. ASSUME NEW r \in Row, InsertRow(r) PROVE SoFarInv' /\ call = NoCall
      BY <3>1, <3>2, InsertRowSoFar DEF InsertRow, Enter
    <3>3. CASE AddEntry
      BY <2>3, <3>1, <3>3, AddEntrySoFar
    <3>4. CASE UnaddEntry \/ UninsertRow
      <4>1. call.kind = "insert" /\ call.phase = "unadd"
        BY <3>4 DEF UnaddEntry, UninsertRow
      <4> QED BY <3>1, <4>1 DEF SoFarInv, AddedSoFar
    <3>5. CASE StartDelete
      BY <3>1, <3>5, StartDeleteSoFar DEF StartDelete, Enter
    <3>6. CASE StartUndo
      BY <3>1, <3>6, StartUndoSoFar DEF StartUndo, Enter
    <3>7. CASE RemoveEntry
      BY <2>3, <3>1, <3>7, RemoveEntrySoFar
    <3>8. CASE RemoveRow
      BY <2>3, <3>1, <3>8, RemoveRowSoFar
    <3>9. CASE RestoreRow
      <4>1. /\ call.kind = "delete" /\ call.phase = "restoreRows" /\ call # NoCall /\ call.pos > 0
        BY <3>9 DEF RestoreRow, Deleting, NoCall
      <4>2. DeleteRows /\ call.pos \in Nat
        BY <3>1, <4>1, Deletes
      <4>3. call.pos <= call.rowsGone /\ call.rowsGone = 0
        BY <3>1, <4>1, <4>2 DEF DeleteRows, SoFarInv, RemovedSoFar
      <4> QED BY <4>1, <4>2, <4>3
    <3>10. CASE RowsRestored
      BY <3>1, <3>10, RowsRestoredSoFar
    <3>11. CASE RestoreEntry
      BY <2>3, <3>1, <3>11, RestoreEntrySoFar
    <3>12. CASE DeleteRaises
      BY <3>1, <3>12, DeleteRaisesSoFar
    <3> QED BY <1>2, <3>2, <3>3, <3>4, <3>5, <3>6, <3>7, <3>8, <3>9, <3>10, <3>11, <3>12 DEF DmlNext
  <2> QED BY <2>2, <2>3
<1> QED BY <1>1, <1>2

(* dml.py:24-176: a call in which no native call fails does to the table and to
   each of its indexes what the single step of TableDml does, whatever the call is:
   a DELETE whose entry or row is not there, which reverts, included. *)
THEOREM WholeCallsAreSteps ==
    ASSUME Indexes \in Nat \ {0}
    PROVE  DmlSpec => WholeCallsAgree
<1>1. DmlInit => DmlInv /\ SoFarInv
  <2>1. ASSUME DmlInit PROVE SoFarInv
    BY <2>1 DEF DmlInit, SoFarInv, AddedSoFar, RemovedSoFar, NoCall
  <2> QED BY <2>1, DmlInvInit
<1>2. DmlInv /\ SoFarInv /\ [DmlNext]_dmlVars => DmlInv' /\ SoFarInv'
  BY DmlInvNext, SoFarNext
<1>3. DmlInv /\ SoFarInv /\ [DmlNext]_dmlVars
      => [call # NoCall /\ call' = NoCall /\ faults' = 0 => WholeCallAgrees]_dmlVars
  BY DmlInvNext, SoFarNext
<1> QED BY <1>1, <1>2, <1>3, PTL DEF DmlSpec, WholeCallsAgree

===============================================================================
