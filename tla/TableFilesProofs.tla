---------------------------- MODULE TableFilesProofs ----------------------------
(***************************************************************************)
(* The files that tables are kept in.                                      *)
(*                                                                         *)
(* What is proved of the heap file, for any number of pages, slots, keys,  *)
(* failed writes and crashes: what the memory holds is what the file       *)
(* holds, a record never moves, and the file implements the contract of    *)
(* TableFile.  And, while no write has failed, that the list of the pages  *)
(* with a free slot is exact, so that the constructor accepts the file     *)
(* after a destructor and after a crash in the middle of a call.           *)
(*                                                                         *)
(* And of the catalog, for any tables, indexes and rows: that no open      *)
(* handle outlives its file, that files are deleted after their entry,     *)
(* and what a restart finds.                                               *)
(***************************************************************************)
EXTENDS HeapFile, CatalogFiles, NatLemmas

-------------------------------------------------------------------------------
(* Types. *)

PageLayout == [rows : [Slot -> Record \cup {Free}], next : 0 .. Pages, free : Int]

MetaArea == [live : Nat, head : 0 .. Pages, freePages : Int]

FileLayout == [pages : [PageId -> PageLayout], count : 0 .. Pages, meta : MetaArea]

KeyMaps == UNION {[K -> Rid] : K \in SUBSET Key}

Buffers == {Nothing} \cup [kind : {"header"}, count : 0 .. Pages]
                     \cup [kind : {"meta"}, meta : MetaArea]

Memories == [count : 0 .. Pages, live : Nat, head : 0 .. Pages, freePages : Int,
             keys : KeyMaps]

Operations == [kind : {"insert", "remove", "update"}, row : Record, rid : Rid,
               page : PageLayout]

TypeOK ==
    /\ disk \in FileLayout
    /\ buffer \in Buffers
    /\ mem \in Memories
    /\ op \in {Nothing} \cup Operations
    /\ open \in BOOLEAN
    /\ faults \in Nat /\ crashes \in Nat

-------------------------------------------------------------------------------
(* The records: the memory agrees with the file, and an operation in progress
   is one record away from it. *)

Contents(d) == {RecordAt(d, rid) : rid \in LiveSlots(d)}

UniqueKeys(d) ==
    \A a, b \in LiveSlots(d) : RecordAt(d, a).key = RecordAt(d, b).key => a = b

LinksInRange(d) ==
    /\ d.meta.head <= d.count
    /\ \A p \in 1 .. d.count : d.pages[p].next <= d.count

MemoryMatches ==
    /\ mem.head <= Flushed.count
    /\ mem.keys = KeysOnDisk(Flushed)
    /\ mem.live = Cardinality(LiveSlots(Flushed))
    /\ mem.count = Flushed.count

RowToWrite == IF op.kind = "remove" THEN Free ELSE op.row

PendingRow ==
    /\ op.page.next <= Flushed.count
    /\ op.rid.page <= Flushed.count
    /\ op.page.rows = [Flushed.pages[op.rid.page].rows EXCEPT ![op.rid.slot] = RowToWrite]
    /\ op.kind = "insert" => /\ op.row.key \notin DOMAIN mem.keys
                             /\ op.rid \notin LiveSlots(Flushed)
    /\ op.kind # "insert" => /\ op.row.key \in DOMAIN mem.keys
                             /\ mem.keys[op.row.key] = op.rid

RowsInv ==
    /\ TypeOK
    /\ UniqueKeys(disk)
    /\ LinksInRange(disk) /\ LinksInRange(Flushed)
    /\ LiveSlots(Flushed) = LiveSlots(disk)  \* a page counted in the buffer is blank
    /\ open => MemoryMatches
    /\ open /\ op # Nothing => PendingRow
    /\ ~open => buffer = Nothing /\ op = Nothing

-------------------------------------------------------------------------------
(* The list of pages with a free slot, as the enumeration of its pages. *)

Balanced(page) == page.free = SlotSize * Cardinality(FreeSlots(page))

WithRoom(d) == {p \in 1 .. d.count : FreeSlots(d.pages[p]) # {}}

Chained(d, head, n, q) ==
    /\ q \in [1 .. n -> PageId]
    /\ \A i, j \in 1 .. n : q[i] = q[j] => i = j
    /\ head = IF n = 0 THEN NoPage ELSE q[1]
    /\ \A i \in 1 .. n : d.pages[q[i]].next = IF i = n THEN NoPage ELSE q[i + 1]

Exact(d, head, n) ==
    /\ n \in Nat
    /\ \A p \in 1 .. d.count : Balanced(d.pages[p])
    /\ \E q \in [1 .. n -> PageId] :
          Chained(d, head, n, q) /\ {q[i] : i \in 1 .. n} = WithRoom(d)

ExactOnDisk == Exact(disk, disk.meta.head, disk.meta.freePages)

AfterStore == [Flushed EXCEPT !.pages[op.rid.page] = op.page]

ListInv ==
    faults = 0 =>
        /\ Idle => /\ Exact(Flushed, mem.head, mem.freePages)
                   /\ Flushed.meta = Meta(mem)
                   /\ buffer.kind # "header"
        /\ open /\ op # Nothing => /\ ExactOnDisk
                                   /\ buffer.kind # "meta"
                                   /\ disk.meta.live = mem.live
                                   /\ Exact(AfterStore, mem.head, mem.freePages)
                                   /\ op.kind = "update" => disk.meta = Meta(mem)
        /\ ~open /\ Cardinality(LiveSlots(disk)) = disk.meta.live => ExactOnDisk
        /\ buffer.kind = "meta" => disk.meta.live # buffer.meta.live

HeapInv == RowsInv /\ ListInv

-------------------------------------------------------------------------------
(* What is read from the rows of a file. *)
LEMMA RidsAreFinite == IsFiniteSet(Rid)
<1> DEFINE pairs == PageId \X Slot
           toRid == [x \in pairs |-> [page |-> x[1], slot |-> x[2]]]
<1>1. IsFiniteSet(pairs)
  <2>1. IsFiniteSet(PageId) /\ IsFiniteSet(Slot)
    BY FS_Interval, HeapAssumption DEF PageId, Slot
  <2> QED BY <2>1, FS_Product
<1>2. toRid \in Surjection(pairs, Rid)
  <2>1. \A x \in pairs : toRid[x] \in Rid
    BY DEF Rid
  <2>2. \A rid \in Rid : <<rid.page, rid.slot>> \in pairs
                         /\ toRid[<<rid.page, rid.slot>>] = rid
    BY DEF Rid
  <2> QED BY <2>1, <2>2 DEF Surjection
<1> HIDE DEF pairs, toRid
<1> QED BY <1>1, <1>2, FS_Surjection

LEMMA LiveSlotsAreRecords ==
    ASSUME NEW d \in FileLayout
    PROVE  /\ IsFiniteSet(LiveSlots(d))
           /\ Cardinality(LiveSlots(d)) \in Nat
           /\ LiveSlots(d) \subseteq Rid
           /\ \A rid \in LiveSlots(d) : /\ RecordAt(d, rid) \in Record
                                        /\ RecordAt(d, rid).key \in Key
<1>1. LiveSlots(d) \subseteq Rid
  BY DEF LiveSlots
<1>2. IsFiniteSet(LiveSlots(d)) /\ Cardinality(LiveSlots(d)) \in Nat
  BY <1>1, RidsAreFinite, FS_Subset, FS_CardinalityType
<1>3. \A rid \in LiveSlots(d) : RecordAt(d, rid) \in Record
  BY DEF LiveSlots, RecordAt, FileLayout, PageLayout, Rid
<1> QED BY <1>1, <1>2, <1>3 DEF Record

(* With unique keys, rebuild_keys finds each key at the one slot that holds it. *)
LEMMA KeysOnDiskAre ==
    ASSUME NEW d \in FileLayout, UniqueKeys(d)
    PROVE  /\ KeysOnDisk(d) \in KeyMaps
           /\ KeysOnDisk(d) = [k \in DOMAIN KeysOnDisk(d) |-> KeysOnDisk(d)[k]]
           /\ DOMAIN KeysOnDisk(d) = {RecordAt(d, rid).key : rid \in LiveSlots(d)}
           /\ \A rid \in LiveSlots(d) : KeysOnDisk(d)[RecordAt(d, rid).key] = rid
           /\ \A k \in DOMAIN KeysOnDisk(d) : /\ KeysOnDisk(d)[k] \in LiveSlots(d)
                                              /\ RecordAt(d, KeysOnDisk(d)[k]).key = k
           /\ Cardinality(DOMAIN KeysOnDisk(d)) = Cardinality(LiveSlots(d))
<1> DEFINE S == LiveSlots(d)
           K == {RecordAt(d, rid).key : rid \in S}
           f == KeysOnDisk(d)
<1>1. f = [k \in K |-> CHOOSE rid \in S : RecordAt(d, rid).key = k]
  BY DEF KeysOnDisk
<1>2. S \subseteq Rid /\ IsFiniteSet(S) /\ K \subseteq Key
  BY LiveSlotsAreRecords
<1> HIDE DEF f
<1>3. DOMAIN f = K /\ f = [k \in DOMAIN f |-> f[k]]
  BY <1>1
<1>4. \A k \in K : f[k] \in S /\ RecordAt(d, f[k]).key = k
  BY <1>1
<1>5. \A rid \in S : f[RecordAt(d, rid).key] = rid
  BY <1>4 DEF UniqueKeys
<1>6. f \in [K -> Rid]
  <2>1. \A k \in K : f[k] \in Rid
    BY <1>2, <1>4
  <2> HIDE DEF K
  <2> QED BY <1>1, <2>1
<1>7. f \in KeyMaps
  BY <1>2, <1>6 DEF KeyMaps
<1>8. Cardinality(K) = Cardinality(S)
  <2> DEFINE keyOf == [rid \in S |-> RecordAt(d, rid).key]
  <2>1. keyOf \in Bijection(S, K)
    <3>1. keyOf \in [S -> K] OBVIOUS
    <3>2. \A a, b \in S : keyOf[a] = keyOf[b] => a = b
      BY DEF UniqueKeys
    <3>3. \A k \in K : \E rid \in S : keyOf[rid] = k
      OBVIOUS
    <3> QED BY <3>1, <3>2, <3>3 DEF Bijection, Injection, Surjection, IsInjective
  <2> HIDE DEF keyOf, S, K
  <2>2. ExistsBijection(S, K)
    BY <2>1 DEF ExistsBijection
  <2> QED BY <1>2, <2>2, FS_Bijection
<1> QED BY <1>3, <1>4, <1>5, <1>7, <1>8 DEF f

LEMMA KeysAre ==
    ASSUME NEW d \in FileLayout, UniqueKeys(d), NEW f,
           f = [k \in {RecordAt(d, rid).key : rid \in LiveSlots(d)} |-> f[k]],
           \A rid \in LiveSlots(d) : f[RecordAt(d, rid).key] = rid
    PROVE  KeysOnDisk(d) = f
<1> DEFINE K == {RecordAt(d, rid).key : rid \in LiveSlots(d)}
           g == KeysOnDisk(d)
<1>1. DOMAIN g = K /\ g = [k \in DOMAIN g |-> g[k]]
  BY KeysOnDiskAre
<1>2. \A k \in K : g[k] = f[k]
  <2>1. \A rid \in LiveSlots(d) : g[RecordAt(d, rid).key] = rid
    BY KeysOnDiskAre
  <2> QED BY <2>1
<1>3. f = [k \in K |-> f[k]]
  OBVIOUS
<1> HIDE DEF g, K
<1> QED BY <1>1, <1>2, <1>3 DEF g

(* Two files with the same records in the same slots have the same keys. *)
LEMMA SameRows ==
    ASSUME NEW d \in FileLayout, NEW e \in FileLayout, UniqueKeys(d),
           LiveSlots(e) = LiveSlots(d),
           \A rid \in LiveSlots(d) : RecordAt(e, rid) = RecordAt(d, rid)
    PROVE  UniqueKeys(e) /\ KeysOnDisk(e) = KeysOnDisk(d) /\ Contents(e) = Contents(d)
<1>1. UniqueKeys(e)
  BY DEF UniqueKeys
<1> DEFINE S == LiveSlots(d)
           K == {RecordAt(d, rid).key : rid \in S}
<1>2. {RecordAt(e, rid).key : rid \in LiveSlots(e)} = K
  OBVIOUS
<1>3. \A k : (CHOOSE rid \in LiveSlots(e) : RecordAt(e, rid).key = k)
             = (CHOOSE rid \in S : RecordAt(d, rid).key = k)
  OBVIOUS
<1>4. KeysOnDisk(e) = [k \in K |-> CHOOSE rid \in S : RecordAt(d, rid).key = k]
  BY <1>2, <1>3 DEF KeysOnDisk
<1> QED BY <1>1, <1>4 DEF KeysOnDisk, Contents

(* What the write of one slot does to the rows of the file. *)
SlotSet(d, e, rid, row) ==
    /\ d \in FileLayout /\ e \in FileLayout /\ rid \in Rid
    /\ RecordAt(e, rid) = row
    /\ \A x \in Rid : x # rid => RecordAt(e, x) = RecordAt(d, x)
    /\ LiveSlots(e) = IF row = Free THEN LiveSlots(d) \ {rid} ELSE LiveSlots(d) \cup {rid}

LEMMA SlotWritten ==
    ASSUME NEW d \in FileLayout, NEW rid \in Rid, rid.page <= d.count,
           NEW page \in PageLayout, NEW row \in Record \cup {Free},
           page.rows = [d.pages[rid.page].rows EXCEPT ![rid.slot] = row]
    PROVE  SlotSet(d, [d EXCEPT !.pages[rid.page] = page], rid, row)
<1> DEFINE e == [d EXCEPT !.pages[rid.page] = page]
<1>1. rid.page \in PageId /\ rid.slot \in Slot
  BY DEF Rid
<1>2. /\ e \in FileLayout
      /\ e.count = d.count /\ e.meta = d.meta
      /\ e.pages[rid.page] = page
      /\ \A p \in PageId : p # rid.page => e.pages[p] = d.pages[p]
  BY <1>1 DEF FileLayout
<1> HIDE DEF e
<1>3. d.pages[rid.page].rows \in [Slot -> Record \cup {Free}]
  BY <1>1 DEF FileLayout, PageLayout
<1>4. RecordAt(e, rid) = row
  BY <1>1, <1>2, <1>3 DEF RecordAt
<1>5. ASSUME NEW x \in Rid, x # rid
      PROVE  RecordAt(e, x) = RecordAt(d, x)
  <2>1. x.page \in PageId /\ x.slot \in Slot
    BY DEF Rid
  <2>2. x.page = rid.page => x.slot # rid.slot
    BY <1>5 DEF Rid
  <2> QED BY <1>2, <1>3, <2>1, <2>2 DEF RecordAt
<1>6. \A x \in Rid : x \in LiveSlots(e) <=> x.page <= d.count /\ RecordAt(e, x) # Free
  BY <1>2 DEF LiveSlots, RecordAt
<1>7. \A x \in Rid : x \in LiveSlots(d) <=> x.page <= d.count /\ RecordAt(d, x) # Free
  BY DEF LiveSlots, RecordAt
<1>8. LiveSlots(e) \subseteq Rid /\ LiveSlots(d) \subseteq Rid
  BY DEF LiveSlots
<1>9. LiveSlots(e) = IF row = Free THEN LiveSlots(d) \ {rid} ELSE LiveSlots(d) \cup {rid}
  BY <1>4, <1>5, <1>6, <1>7, <1>8
<1> QED BY <1>2, <1>4, <1>5, <1>9 DEF e, SlotSet

(* keys_ with one more key, and with one less. *)
KeysWith(f, key, rid) == [k \in DOMAIN f \cup {key} |-> IF k = key THEN rid ELSE f[k]]

KeysSans(f, key) == [k \in DOMAIN f \ {key} |-> f[k]]

(* A record is added under a new key. *)
LEMMA RowAdded ==
    ASSUME NEW d, NEW e, NEW rid, NEW r \in Record, SlotSet(d, e, rid, r), UniqueKeys(d),
           rid \notin LiveSlots(d), r.key \notin DOMAIN KeysOnDisk(d)
    PROVE  /\ UniqueKeys(e)
           /\ KeysOnDisk(e) = KeysWith(KeysOnDisk(d), r.key, rid)
           /\ Cardinality(LiveSlots(e)) = Cardinality(LiveSlots(d)) + 1
           /\ Contents(e) = Contents(d) \cup {r}
<1>0. /\ d \in FileLayout /\ e \in FileLayout /\ rid \in Rid
      /\ LiveSlots(e) = LiveSlots(d) \cup {rid}
      /\ RecordAt(e, rid) = r
      /\ \A x \in Rid : x # rid => RecordAt(e, x) = RecordAt(d, x)
  BY FreeIsNoRecord DEF SlotSet
<1> DEFINE K == DOMAIN KeysOnDisk(d)
           f == [k \in K \cup {r.key} |-> IF k = r.key THEN rid ELSE KeysOnDisk(d)[k]]
<1>1. /\ K = {RecordAt(d, x).key : x \in LiveSlots(d)}
      /\ \A x \in LiveSlots(d) : KeysOnDisk(d)[RecordAt(d, x).key] = x
  BY <1>0, KeysOnDiskAre
<1>2. LiveSlots(d) \subseteq Rid /\ rid \notin LiveSlots(d)
  BY <1>0, LiveSlotsAreRecords
<1>3. \A x \in LiveSlots(d) : /\ RecordAt(e, x) = RecordAt(d, x)
                              /\ RecordAt(d, x).key \in K /\ RecordAt(d, x).key # r.key
  BY <1>0, <1>1, <1>2
<1>4. UniqueKeys(e)
  BY <1>0, <1>3 DEF UniqueKeys
<1>5. K \cup {r.key} = {RecordAt(e, x).key : x \in LiveSlots(e)}
  BY <1>0, <1>1, <1>3
<1>6. \A x \in LiveSlots(e) : f[RecordAt(e, x).key] = x
  BY <1>0, <1>1, <1>3
<1>7. KeysOnDisk(e) = f
  <2>1. f = [k \in {RecordAt(e, x).key : x \in LiveSlots(e)} |-> f[k]]
    BY <1>0, <1>5
  <2> HIDE DEF f
  <2> QED BY <1>0, <1>4, <1>6, <2>1, KeysAre
<1>8. Cardinality(LiveSlots(e)) = Cardinality(LiveSlots(d)) + 1
  BY <1>0, LiveSlotsAreRecords, FS_AddElement
<1>9. Contents(e) = Contents(d) \cup {r}
  BY <1>0, <1>2 DEF Contents
<1> QED BY <1>4, <1>7, <1>8, <1>9 DEF KeysWith

(* A record goes. *)
LEMMA RowGone ==
    ASSUME NEW d, NEW e, NEW rid, SlotSet(d, e, rid, Free), UniqueKeys(d),
           rid \in LiveSlots(d)
    PROVE  LET r == RecordAt(d, rid)
           IN  /\ UniqueKeys(e)
               /\ KeysOnDisk(e) = KeysSans(KeysOnDisk(d), r.key)
               /\ Cardinality(LiveSlots(e)) = Cardinality(LiveSlots(d)) - 1
               /\ Contents(e) = Contents(d) \ {r}
<1>0. /\ d \in FileLayout /\ e \in FileLayout /\ rid \in Rid
      /\ LiveSlots(e) = LiveSlots(d) \ {rid}
      /\ \A x \in Rid : x # rid => RecordAt(e, x) = RecordAt(d, x)
  BY FreeIsNoRecord DEF SlotSet
<1> DEFINE r == RecordAt(d, rid)
           K == DOMAIN KeysOnDisk(d)
           f == [k \in K \ {r.key} |-> KeysOnDisk(d)[k]]
<1>1. /\ K = {RecordAt(d, x).key : x \in LiveSlots(d)}
      /\ \A x \in LiveSlots(d) : KeysOnDisk(d)[RecordAt(d, x).key] = x
  BY <1>0, KeysOnDiskAre
<1>2. LiveSlots(d) \subseteq Rid
  BY <1>0, LiveSlotsAreRecords
<1>3. \A x \in LiveSlots(e) : /\ x \in LiveSlots(d) /\ RecordAt(e, x) = RecordAt(d, x)
                              /\ RecordAt(d, x).key \in K \ {r.key}
  BY <1>0, <1>1, <1>2 DEF UniqueKeys
<1>4. UniqueKeys(e)
  BY <1>0, <1>3 DEF UniqueKeys
<1>5. K \ {r.key} = {RecordAt(e, x).key : x \in LiveSlots(e)}
  BY <1>0, <1>1, <1>3
<1>6. \A x \in LiveSlots(e) : f[RecordAt(e, x).key] = x
  BY <1>0, <1>1, <1>3
<1>7. KeysOnDisk(e) = f
  <2>1. f = [k \in {RecordAt(e, x).key : x \in LiveSlots(e)} |-> f[k]]
    BY <1>0, <1>5
  <2> HIDE DEF f
  <2> QED BY <1>0, <1>4, <1>6, <2>1, KeysAre
<1>8. Cardinality(LiveSlots(e)) = Cardinality(LiveSlots(d)) - 1
  BY <1>0, LiveSlotsAreRecords, FS_RemoveElement
<1>9. Contents(e) = Contents(d) \ {r}
  BY <1>0, <1>3 DEF UniqueKeys, Contents
<1> QED BY <1>4, <1>7, <1>8, <1>9 DEF KeysSans

(* A record takes the place of the one with its key. *)
LEMMA RowReplaced ==
    ASSUME NEW d, NEW e, NEW rid, NEW r \in Record, SlotSet(d, e, rid, r), UniqueKeys(d),
           rid \in LiveSlots(d), r.key = RecordAt(d, rid).key
    PROVE  /\ UniqueKeys(e)
           /\ KeysOnDisk(e) = KeysOnDisk(d)
           /\ LiveSlots(e) = LiveSlots(d)
           /\ Contents(e) = {q \in Contents(d) : q.key # r.key} \cup {r}
<1>0. /\ d \in FileLayout /\ e \in FileLayout /\ rid \in Rid
      /\ LiveSlots(e) = LiveSlots(d)
      /\ RecordAt(e, rid) = r
      /\ \A x \in Rid : x # rid => RecordAt(e, x) = RecordAt(d, x)
  BY FreeIsNoRecord DEF SlotSet
<1>1. LiveSlots(d) \subseteq Rid
  BY <1>0, LiveSlotsAreRecords
<1>2. \A x \in LiveSlots(d) : RecordAt(e, x).key = RecordAt(d, x).key
  BY <1>0, <1>1
<1>3. UniqueKeys(e)
  BY <1>0, <1>2 DEF UniqueKeys
<1> DEFINE f == KeysOnDisk(d)
<1>4. f = [k \in {RecordAt(e, x).key : x \in LiveSlots(e)} |-> f[k]]
  <2>1. {RecordAt(e, x).key : x \in LiveSlots(e)} = {RecordAt(d, x).key : x \in LiveSlots(d)}
    BY <1>0, <1>2
  <2> QED BY <1>0, <2>1, KeysOnDiskAre
<1>5. \A x \in LiveSlots(e) : f[RecordAt(e, x).key] = x
  BY <1>0, <1>2, KeysOnDiskAre
<1>6. KeysOnDisk(e) = f
  <2> HIDE DEF f
  <2> QED BY <1>0, <1>3, <1>4, <1>5, KeysAre
<1>7. Contents(e) = {q \in Contents(d) : q.key # r.key} \cup {r}
  <2>1. \A x \in LiveSlots(d) : /\ x = rid => RecordAt(e, x) = r
                                /\ x # rid => /\ RecordAt(e, x) = RecordAt(d, x)
                                             /\ RecordAt(d, x).key # r.key
    BY <1>0, <1>1 DEF UniqueKeys
  <2>2. RecordAt(d, rid).key = r.key /\ rid \in LiveSlots(d)
    OBVIOUS
  <2> QED BY <1>0, <2>1, <2>2 DEF Contents
<1> QED BY <1>0, <1>3, <1>6, <1>7

LEMMA LowestIsLeast ==
    ASSUME NEW S \in SUBSET Nat, S # {}
    PROVE  Lowest(S) \in S /\ \A y \in S : Lowest(S) <= y
BY LeastOf DEF Lowest

-------------------------------------------------------------------------------
(* The file once the buffer of the stream is written. *)
WriteBack(d, b) ==
    CASE b.kind = "header" -> [d EXCEPT !.count = b.count]
      [] b.kind = "meta"   -> [d EXCEPT !.meta = b.meta]
      [] OTHER             -> d

LEMMA WriteBackKeepsPages ==
    ASSUME NEW d \in FileLayout, NEW b \in Buffers
    PROVE  LET e == WriteBack(d, b)
           IN  /\ e \in FileLayout
               /\ e.pages = d.pages
               /\ e.count = IF b.kind = "header" THEN b.count ELSE d.count
               /\ e.meta = IF b.kind = "meta" THEN b.meta ELSE d.meta
               /\ b = Nothing => e = d
               /\ \A rid : RecordAt(e, rid) = RecordAt(d, rid)
               /\ b.kind # "header" => LiveSlots(e) = LiveSlots(d)
<1> DEFINE e == WriteBack(d, b)
<1>1. CASE b = Nothing
  BY <1>1 DEF WriteBack, Nothing
<1>2. CASE b \in [kind : {"header"}, count : 0 .. Pages]
  BY <1>2 DEF WriteBack, Nothing, FileLayout, RecordAt
<1>3. CASE b \in [kind : {"meta"}, meta : MetaArea]
  <2>1. /\ e \in FileLayout /\ e.pages = d.pages /\ e.count = d.count
        /\ e.meta = b.meta /\ b.kind = "meta" /\ b # Nothing
    BY <1>3 DEF WriteBack, Nothing, FileLayout
  <2>2. LiveSlots(e) = LiveSlots(d) /\ \A rid : RecordAt(e, rid) = RecordAt(d, rid)
    BY <2>1 DEF LiveSlots, RecordAt
  <2> QED BY <2>1, <2>2
<1> QED BY <1>1, <1>2, <1>3 DEF Buffers

(* The state of the file, as the theorems read it. *)
LEMMA FileRead ==
    ASSUME RowsInv
    PROVE  /\ Flushed = WriteBack(disk, buffer)
           /\ disk \in FileLayout /\ Flushed \in FileLayout /\ buffer \in Buffers
           /\ Flushed.pages = disk.pages
           /\ UniqueKeys(disk) /\ UniqueKeys(Flushed)
           /\ LinksInRange(Flushed)
           /\ LiveSlots(Flushed) = LiveSlots(disk)
           /\ KeysOnDisk(Flushed) = KeysOnDisk(disk)
           /\ Contents(Flushed) = Contents(disk)
<1>1. Flushed = WriteBack(disk, buffer)
  BY DEF Flushed, WriteBack
<1>2. disk \in FileLayout /\ buffer \in Buffers /\ UniqueKeys(disk)
      /\ LinksInRange(Flushed)
      /\ LiveSlots(Flushed) = LiveSlots(disk)
  BY DEF RowsInv, TypeOK
<1>3. /\ Flushed \in FileLayout
      /\ Flushed.pages = disk.pages
      /\ \A rid : RecordAt(Flushed, rid) = RecordAt(disk, rid)
  BY <1>1, <1>2, WriteBackKeepsPages
<1> HIDE DEF Flushed
<1> QED BY <1>1, <1>2, <1>3, SameRows

SameContents ==
    /\ KeysOnDisk(Flushed)' = KeysOnDisk(Flushed)
    /\ Contents(Flushed)' = Contents(Flushed)

(* A step that seeks, and so writes the buffer, and nothing else. *)
LEMMA FileIsFlushed ==
    ASSUME RowsInv, disk' = Flushed, buffer' = Nothing
    PROVE  /\ disk' \in FileLayout /\ buffer' \in Buffers
           /\ Flushed' = Flushed
           /\ UniqueKeys(disk')
           /\ LinksInRange(disk') /\ LinksInRange(Flushed')
           /\ LiveSlots(Flushed') = LiveSlots(disk')
           /\ SameContents
<1>1. Flushed' = disk'
  BY DEF Flushed, Nothing
<1>2. Flushed \in FileLayout /\ UniqueKeys(Flushed) /\ LinksInRange(Flushed)
  BY FileRead
<1>3. Nothing \in Buffers
  BY DEF Buffers
<1> HIDE DEF Flushed
<1> QED BY <1>1, <1>2, <1>3 DEF SameContents

(* What an insert makes of a page with room, and of the list. *)
MemoryFilled(m, id, page, r) ==
    LET filled == PutRow(page, Lowest(FreeSlots(page)), r)
    IN  IF filled.free = 0
        THEN [m EXCEPT !.head = filled.next, !.freePages = @ - 1] ELSE m

OpFilled(m, id, page, r) ==
    LET filled == PutRow(page, Lowest(FreeSlots(page)), r)
    IN  [kind |-> "insert", row |-> r,
         rid |-> [page |-> id, slot |-> Lowest(FreeSlots(page))],
         page |-> IF filled.free = 0 THEN [filled EXCEPT !.next = NoPage] ELSE filled]

Filled(m, id, page, r, mm, o) ==
    /\ mm \in Memories
    /\ mm = [m EXCEPT !.head = mm.head, !.freePages = mm.freePages]
    /\ o \in Operations
    /\ o.kind = "insert" /\ o.row = r /\ o.rid.page = id
    /\ o.rid.slot \in FreeSlots(page)
    /\ o.page.rows = [page.rows EXCEPT ![o.rid.slot] = r]
    /\ o.page.free = page.free - SlotSize
    /\ o.page.free = 0 =>
          /\ mm.head = page.next /\ mm.freePages = m.freePages - 1
          /\ o.page.next = NoPage
    /\ o.page.free # 0 =>
          /\ mm.head = m.head /\ mm.freePages = m.freePages
          /\ o.page.next = page.next

LEMMA FillEffect ==
    ASSUME NEW m \in Memories, NEW id \in PageId, NEW page \in PageLayout,
           FreeSlots(page) # {}, NEW r \in Record
    PROVE  Filled(m, id, page, r, MemoryFilled(m, id, page, r), OpFilled(m, id, page, r))
<1> DEFINE mm == MemoryFilled(m, id, page, r)
           o == OpFilled(m, id, page, r)
           s == Lowest(FreeSlots(page))
           filled == PutRow(page, s, r)
<1>1. s \in FreeSlots(page) /\ s \in Slot
  <2>1. FreeSlots(page) \in SUBSET Nat /\ FreeSlots(page) \subseteq Slot
    BY HeapAssumption DEF FreeSlots, Slot
  <2> QED BY <2>1, LowestIsLeast
<1>2. /\ filled \in PageLayout
      /\ filled.rows = [page.rows EXCEPT ![s] = r]
      /\ filled.free = page.free - SlotSize
      /\ filled.next = page.next
      /\ [filled EXCEPT !.next = NoPage] \in PageLayout
  <2> DEFINE rows == [page.rows EXCEPT ![s] = r]
  <2>1. rows \in [Slot -> Record \cup {Free}] /\ page.free - SlotSize \in Int
    BY <1>1, HeapAssumption DEF PageLayout
  <2>2. filled = [page EXCEPT !.rows = rows, !.free = page.free - SlotSize]
    BY DEF PutRow, PageLayout
  <2> HIDE DEF rows, filled
  <2>3. /\ filled \in PageLayout /\ filled.rows = rows
        /\ filled.free = page.free - SlotSize /\ filled.next = page.next
    BY <2>1, <2>2 DEF PageLayout
  <2>4. [filled EXCEPT !.next = NoPage] \in PageLayout
    BY <2>3, HeapAssumption DEF PageLayout, NoPage
  <2> QED BY <2>3, <2>4 DEF rows
<1> DEFINE full == filled.free = 0
<1>3. /\ mm = IF full THEN [m EXCEPT !.head = filled.next, !.freePages = @ - 1] ELSE m
      /\ o = [kind |-> "insert", row |-> r, rid |-> [page |-> id, slot |-> s],
                page |-> IF full THEN [filled EXCEPT !.next = NoPage] ELSE filled]
  BY DEF MemoryFilled, OpFilled
<1> HIDE DEF s, filled, mm, o
<1>4. /\ mm \in Memories
      /\ mm = [m EXCEPT !.head = mm.head, !.freePages = mm.freePages]
      /\ IF full THEN mm.head = filled.next /\ mm.freePages = m.freePages - 1
         ELSE mm.head = m.head /\ mm.freePages = m.freePages
  <2>1. CASE full
    <3>1. mm = [m EXCEPT !.head = filled.next, !.freePages = m.freePages - 1]
      BY <1>3, <2>1 DEF Memories
    <3>2. filled.next \in 0 .. Pages
      BY <1>2 DEF PageLayout
    <3>3. mm.head = filled.next /\ mm.freePages = m.freePages - 1
      BY <3>1 DEF Memories
    <3>4. m.freePages - 1 \in Int
      BY DEF Memories
    <3>5. \A h \in 0 .. Pages, n \in Int :
             [m EXCEPT !.head = h, !.freePages = n] \in Memories
      BY DEF Memories
    <3> QED BY <2>1, <3>1, <3>2, <3>3, <3>4, <3>5, ZenonT(30)
  <2>2. CASE ~full
    BY <1>3, <2>2 DEF Memories
  <2> QED BY <2>1, <2>2
<1>5. /\ o.kind = "insert" /\ o.row = r
      /\ o.rid = [page |-> id, slot |-> s]
      /\ o.page = IF full THEN [filled EXCEPT !.next = NoPage] ELSE filled
      /\ o = [kind |-> "insert", row |-> r, rid |-> o.rid, page |-> o.page]
  BY <1>3
<1>6. o.rid \in Rid /\ o.rid.page = id /\ o.rid.slot = s
  BY <1>1, <1>5 DEF Rid
<1>7. o \in Operations
  BY <1>2, <1>5, <1>6 DEF Operations
<1>8. /\ o.page.rows = filled.rows /\ o.page.free = filled.free
      /\ o.page.next = IF full THEN NoPage ELSE filled.next
  BY <1>2, <1>5 DEF PageLayout
<1> QED BY <1>1, <1>2, <1>4, <1>5, <1>6, <1>7, <1>8 DEF Filled, mm, o

LEMMA RowsInitially == Init => RowsInv
<1> SUFFICES ASSUME Init PROVE RowsInv
  OBVIOUS
<1>1. BlankPage \in PageLayout
  BY HeapAssumption DEF BlankPage, PageLayout, NoPage
<1>2. disk \in FileLayout /\ disk.count = 0
  BY <1>1, HeapAssumption DEF Init, FileLayout, MetaArea, NoPage
<1>3. mem \in Memories
  <2>1. [k \in {} |-> 0] \in [{} -> Rid]
    OBVIOUS
  <2>2. [k \in {} |-> 0] \in KeyMaps
    BY <2>1 DEF KeyMaps
  <2> QED BY <2>2, HeapAssumption DEF Init, Memories, NoPage
<1>4. TypeOK
  BY <1>2, <1>3 DEF Init, TypeOK, Buffers
<1>5. Flushed = disk
  BY DEF Init, Flushed, Nothing
<1>6. LiveSlots(disk) = {}
  BY <1>2, HeapAssumption DEF LiveSlots, Rid, PageId
<1>7. UniqueKeys(disk) /\ LinksInRange(disk)
  BY <1>2, <1>6, HeapAssumption DEF UniqueKeys, LinksInRange, Init, NoPage
<1>8. MemoryMatches
  <2>1. KeysOnDisk(disk) = [k \in {} |-> 0]
    BY <1>6 DEF KeysOnDisk
  <2> HIDE DEF Flushed
  <2> QED BY <2>1, <1>2, <1>5, <1>6, FS_EmptySet, SMTT(30) DEF Init, MemoryMatches, NoPage
<1> HIDE DEF Flushed
<1> QED BY <1>4, <1>5, <1>7, <1>8 DEF RowsInv, Init

-------------------------------------------------------------------------------
(* Every step keeps the memory in agreement with the file. Those that do not
   store a page change neither the records nor where they are. *)
LEMMA IdleMemory ==
    ASSUME RowsInv, open
    PROVE  /\ mem \in Memories /\ mem.count = Flushed.count /\ mem.head <= Flushed.count
           /\ mem.keys = KeysOnDisk(Flushed)
           /\ mem.live = Cardinality(LiveSlots(Flushed))
BY DEF RowsInv, MemoryMatches, TypeOK

LEMMA InsertInChainedKeepsRows ==
    ASSUME RowsInv, NEW r \in Record, InsertInChained(r)
    PROVE  RowsInv' /\ SameContents
<1> DEFINE page == Flushed.pages[mem.head]
<1>1. /\ open /\ op = Nothing /\ r.key \notin DOMAIN mem.keys /\ mem.head # NoPage
      /\ FreeSlots(page) # {} /\ FillAndUnlink(mem, mem.head, page, r)
      /\ disk' = Flushed /\ buffer' = Nothing
      /\ open' = open /\ faults' = faults /\ crashes' = crashes
  BY DEF InsertInChained, Idle
<1>2. /\ disk' \in FileLayout /\ buffer' \in Buffers /\ Flushed' = Flushed
      /\ UniqueKeys(disk') /\ LiveSlots(Flushed') = LiveSlots(disk') /\ SameContents
  BY <1>1, FileIsFlushed
<1>3. mem \in Memories /\ mem.head \in PageId /\ page \in PageLayout /\ Flushed \in FileLayout
  <2>1. mem \in Memories /\ mem.head \in PageId
    BY <1>1, IdleMemory, HeapAssumption DEF Memories, PageId, NoPage
  <2>2. Flushed \in FileLayout
    BY FileRead
  <2> QED BY <2>1, <2>2 DEF FileLayout
<1>31. Filled(mem, mem.head, page, r, mem', op')
  <2>1. mem' = MemoryFilled(mem, mem.head, page, r) /\ op' = OpFilled(mem, mem.head, page, r)
    BY <1>1 DEF FillAndUnlink, MemoryFilled, OpFilled
  <2> HIDE DEF page
  <2> QED BY <1>1, <1>3, <2>1, FillEffect
<1> HIDE DEF page
<1>4. /\ mem' \in Memories
      /\ mem' = [mem EXCEPT !.head = mem'.head, !.freePages = mem'.freePages]
      /\ op' \in Operations
      /\ op'.kind = "insert" /\ op'.row = r /\ op'.rid.page = mem.head
      /\ op'.rid.slot \in FreeSlots(page)
      /\ op'.page.rows = [page.rows EXCEPT ![op'.rid.slot] = r]
      /\ op'.page.next \in {NoPage, page.next} /\ mem'.head \in {mem.head, page.next}
  BY <1>31 DEF Filled
<1>5. TypeOK'
  BY <1>1, <1>2, <1>4 DEF TypeOK, RowsInv
<1>6. mem'.keys = mem.keys /\ mem'.live = mem.live /\ mem'.count = mem.count
  BY <1>3, <1>4 DEF Memories
<1>7. mem.head \in 1 .. Flushed.count /\ page.next <= Flushed.count /\ mem'.head <= Flushed.count
  BY <1>1, <1>3, <1>4, FileRead, IdleMemory, HeapAssumption
     DEF LinksInRange, PageId, FileLayout, PageLayout, page
<1>8. op'.page.next <= Flushed.count
  BY <1>3, <1>4, <1>7 DEF FileLayout, NoPage
<1> HIDE DEF Flushed
<1>9. MemoryMatches'
  BY <1>1, <1>2, <1>6, <1>7, IdleMemory DEF MemoryMatches
<1>10. op'.rid \in Rid /\ op'.rid \notin LiveSlots(Flushed)
  BY <1>4 DEF FreeSlots, Operations, LiveSlots, page
<1>11. PendingRow'
  BY <1>1, <1>2, <1>4, <1>6, <1>7, <1>8, <1>10 DEF PendingRow, RowToWrite, page
<1> QED BY <1>1, <1>2, <1>5, <1>9, <1>11 DEF RowsInv

LEMMA InsertInNewPageKeepsRows ==
    ASSUME RowsInv, NEW r \in Record, InsertInNewPage(r)
    PROVE  RowsInv' /\ SameContents
<1> DEFINE id == mem.count + 1
           m == [mem EXCEPT !.count = id, !.head = id, !.freePages = @ + 1]
           d == Flushed
<1>1. /\ open /\ op = Nothing /\ r.key \notin DOMAIN mem.keys
      /\ mem.head = NoPage /\ mem.count < Pages
      /\ disk' = [d EXCEPT !.pages[id] = BlankPage]
      /\ buffer' = [kind |-> "header", count |-> id]
      /\ FillAndUnlink(m, id, NewPage, r)
      /\ open' = open /\ faults' = faults /\ crashes' = crashes
  BY DEF InsertInNewPage, Idle
<1>2. /\ mem \in Memories /\ mem.count = d.count /\ mem.keys = KeysOnDisk(d)
      /\ mem.live = Cardinality(LiveSlots(d))
      /\ d \in FileLayout /\ UniqueKeys(d) /\ LinksInRange(d)
  BY <1>1, IdleMemory, FileRead
<1> HIDE DEF Flushed
<1>3. id \in PageId /\ id \in 1 .. Pages /\ id = d.count + 1 /\ d.count \in 0 .. Pages
  BY <1>1, <1>2, HeapAssumption DEF Memories, PageId
<1>4. /\ m \in Memories /\ m.keys = mem.keys /\ m.live = mem.live /\ m.count = id /\ m.head = id
  <2>1. mem.freePages + 1 \in Int /\ id \in 0 .. Pages
    BY <1>2, <1>3 DEF Memories
  <2>2. m = [mem EXCEPT !.count = id, !.head = id, !.freePages = mem.freePages + 1]
    BY <1>2 DEF Memories
  <2>3. \A n \in Int, c \in 0 .. Pages :
           [mem EXCEPT !.count = c, !.head = c, !.freePages = n] \in Memories
    BY <1>2 DEF Memories
  <2>4. m \in Memories
    BY <2>1, <2>2, <2>3, ZenonT(30)
  <2> QED BY <1>2, <2>4 DEF Memories
<1>5. /\ BlankPage \in PageLayout /\ NewPage \in PageLayout
      /\ BlankPage.next = NoPage /\ NewPage.next = NoPage
      /\ \A s \in Slot : BlankPage.rows[s] = Free /\ NewPage.rows[s] = Free
      /\ NewPage.rows = BlankPage.rows
  BY HeapAssumption DEF BlankPage, NewPage, PageLayout, NoPage
<1>6. FreeSlots(NewPage) # {}
  BY <1>5, HeapAssumption DEF FreeSlots, Slot
<1>7. /\ mem' \in Memories
      /\ mem' = [m EXCEPT !.head = mem'.head, !.freePages = mem'.freePages]
      /\ op' \in Operations
      /\ op'.kind = "insert" /\ op'.row = r /\ op'.rid.page = id
      /\ op'.rid.slot \in FreeSlots(NewPage)
      /\ op'.page.rows = [NewPage.rows EXCEPT ![op'.rid.slot] = r]
      /\ op'.page.next = NoPage /\ mem'.head \in {id, NoPage}
  <2>1. mem' = MemoryFilled(m, id, NewPage, r) /\ op' = OpFilled(m, id, NewPage, r)
    BY <1>1 DEF FillAndUnlink, MemoryFilled, OpFilled
  <2>2. m \in Memories /\ id \in PageId /\ NewPage \in PageLayout
    BY <1>3, <1>4, <1>5
  <2> HIDE DEF m, id
  <2>3. Filled(m, id, NewPage, r, mem', op')
    BY <1>6, <2>1, <2>2, FillEffect
  <2> QED BY <1>4, <1>5, <2>3 DEF Filled
<1>8. mem'.keys = mem.keys /\ mem'.live = mem.live /\ mem'.count = id
  BY <1>4, <1>7 DEF Memories
<1>9. /\ disk' \in FileLayout /\ disk'.count = d.count /\ disk'.meta = d.meta
      /\ disk'.pages[id] = BlankPage
      /\ \A p \in PageId : p # id => disk'.pages[p] = d.pages[p]
  BY <1>1, <1>2, <1>3, <1>5 DEF FileLayout
<1>10. buffer' \in Buffers
  BY <1>1, <1>3, HeapAssumption DEF Buffers
<1>11. /\ Flushed' = [disk' EXCEPT !.count = id] /\ Flushed' \in FileLayout
       /\ Flushed'.pages = disk'.pages /\ Flushed'.count = id /\ Flushed'.meta = d.meta
  <2>1. buffer'.kind = "header" /\ buffer'.count = id
    BY <1>1
  <2>2. Flushed' = [disk' EXCEPT !.count = id]
    BY <2>1 DEF Flushed
  <2> QED BY <1>3, <1>9, <2>2 DEF FileLayout
<1>12. /\ LiveSlots(disk') = LiveSlots(d) /\ LiveSlots(Flushed') = LiveSlots(d)
       /\ \A x \in LiveSlots(d) : RecordAt(disk', x) = RecordAt(d, x)
       /\ \A x \in LiveSlots(d) : RecordAt(Flushed', x) = RecordAt(d, x)
  <2>1. \A x \in Rid : /\ x.page \in PageId /\ x.slot \in Slot /\ x.page \in Nat
                       /\ x.page <= d.count => x.page # id
                       /\ x.page <= id <=> x.page <= d.count \/ x.page = id
    BY <1>3, HeapAssumption DEF Rid, PageId
  <2>2. \A x \in Rid : x \in LiveSlots(disk') <=> x \in LiveSlots(d)
    BY <1>9, <2>1 DEF LiveSlots
  <2>3. \A x \in Rid : x \in LiveSlots(Flushed') <=> x \in LiveSlots(d)
    BY <1>5, <1>9, <1>11, <2>1 DEF LiveSlots
  <2>4. \A x \in LiveSlots(d) : x \in Rid /\ x.page <= d.count
    BY DEF LiveSlots
  <2>5. \A x \in LiveSlots(d) : d.pages[x.page] = disk'.pages[x.page]
    BY <1>9, <2>1, <2>4
  <2> QED BY <1>11, <2>2, <2>3, <2>4, <2>5 DEF LiveSlots, RecordAt
<1>13. UniqueKeys(disk') /\ SameContents
  BY <1>2, <1>9, <1>11, <1>12, SameRows DEF SameContents
<1>14. LinksInRange(disk') /\ LinksInRange(Flushed')
  <2>1. \A p \in 1 .. d.count : p \in PageId /\ p # id /\ d.pages[p].next <= d.count
                                /\ d.pages[p].next \in Nat
    BY <1>2, <1>3, HeapAssumption, SMTT(30) DEF LinksInRange, FileLayout, PageLayout, PageId
  <2>2. \A p \in 1 .. id : p \in 1 .. d.count \/ p = id
    BY <1>3
  <2>3. d.meta.head <= d.count /\ d.meta.head \in Nat
    BY <1>2, HeapAssumption DEF LinksInRange, FileLayout, MetaArea
  <2>4. LinksInRange(disk')
    BY <1>9, <2>1, <2>3 DEF LinksInRange
  <2>5. \A p \in 1 .. id : Flushed'.pages[p].next <= id
    BY <1>3, <1>5, <1>9, <1>11, <2>1, <2>2 DEF NoPage
  <2> QED BY <1>3, <1>11, <2>3, <2>4, <2>5 DEF LinksInRange
<1>15. TypeOK'
  BY <1>1, <1>7, <1>9, <1>10 DEF TypeOK, RowsInv
<1>16. mem'.head <= id /\ 0 <= id
  BY <1>3, <1>7 DEF NoPage
<1>17. MemoryMatches'
  BY <1>2, <1>8, <1>11, <1>12, <1>13, <1>16 DEF MemoryMatches, SameContents
<1>18. op'.rid \notin LiveSlots(d)
  BY <1>3, <1>7 DEF LiveSlots
<1>19. PendingRow'
  <2>1. /\ op'.page.next <= Flushed'.count /\ op'.rid.page <= Flushed'.count
        /\ op'.rid \notin LiveSlots(Flushed')
    BY <1>3, <1>7, <1>11, <1>12, <1>16, <1>18 DEF NoPage
  <2>2. op'.page.rows = [Flushed'.pages[op'.rid.page].rows EXCEPT ![op'.rid.slot] = r]
    BY <1>5, <1>7, <1>9, <1>11
  <2>3. op'.row.key \notin DOMAIN mem'.keys
    BY <1>1, <1>7, <1>8
  <2> QED BY <1>7, <2>1, <2>2, <2>3 DEF PendingRow, RowToWrite
<1> QED BY <1>1, <1>12, <1>13, <1>14, <1>15, <1>17, <1>19 DEF RowsInv

LEMMA AllocateFailsKeepsRows ==
    ASSUME RowsInv, NEW r \in Record, AllocateFails(r)
    PROVE  RowsInv' /\ SameContents
<1>1. /\ open /\ op = Nothing /\ disk' = Flushed /\ buffer' = Nothing /\ faults' = faults + 1
      /\ mem' = mem /\ op' = op /\ open' = open /\ crashes' = crashes
  BY DEF AllocateFails, Idle
<1>2. Flushed' = Flushed
  BY <1>1, FileIsFlushed
<1> HIDE DEF Flushed
<1>3. TypeOK'
  BY <1>1, FileIsFlushed DEF RowsInv, TypeOK
<1>4. MemoryMatches'
  BY <1>1, <1>2 DEF RowsInv, MemoryMatches
<1> QED BY <1>1, <1>2, <1>3, <1>4, FileIsFlushed DEF RowsInv

(* An update or a remove works on the slot where keys_ says its key is. *)
LEMMA KeyIsAtItsRid ==
    ASSUME RowsInv, open, NEW k \in DOMAIN mem.keys
    PROVE  /\ mem.keys[k] \in LiveSlots(Flushed) /\ mem.keys[k] \in Rid
           /\ mem.keys[k].page \in PageId /\ mem.keys[k].slot \in Slot
           /\ mem.keys[k].page \in 1 .. Flushed.count
           /\ Flushed.pages[mem.keys[k].page] \in PageLayout
           /\ Flushed.pages[mem.keys[k].page].rows[mem.keys[k].slot]
                = RecordAt(Flushed, mem.keys[k])
           /\ RecordAt(Flushed, mem.keys[k]) \in Record
           /\ RecordAt(Flushed, mem.keys[k]).key = k
<1>1. mem.keys = KeysOnDisk(Flushed) /\ Flushed \in FileLayout /\ UniqueKeys(Flushed)
  BY FileRead, IdleMemory
<1> HIDE DEF Flushed
<1>2. mem.keys[k] \in LiveSlots(Flushed) /\ RecordAt(Flushed, mem.keys[k]).key = k
  <2>1. \A q \in DOMAIN KeysOnDisk(Flushed) :
           /\ KeysOnDisk(Flushed)[q] \in LiveSlots(Flushed)
           /\ RecordAt(Flushed, KeysOnDisk(Flushed)[q]).key = q
    BY <1>1, KeysOnDiskAre
  <2> QED BY <1>1, <2>1
<1>3. /\ mem.keys[k] \in Rid /\ mem.keys[k].page <= Flushed.count
      /\ RecordAt(Flushed, mem.keys[k]) \in Record
  <2>1. RecordAt(Flushed, mem.keys[k]) \in Record
    BY <1>1, <1>2, LiveSlotsAreRecords
  <2> QED BY <1>2, <2>1 DEF LiveSlots
<1>4. mem.keys[k].page \in PageId /\ mem.keys[k].slot \in Slot
  BY <1>3 DEF Rid
<1>5. mem.keys[k].page \in 1 .. Flushed.count
  BY <1>1, <1>3, <1>4, HeapAssumption, SMTT(30) DEF PageId, FileLayout
<1> QED BY <1>1, <1>2, <1>3, <1>4, <1>5 DEF RecordAt, FileLayout

LEMMA StartRemoveKeepsRows ==
    ASSUME RowsInv, NEW k \in Key, StartRemove(k)
    PROVE  RowsInv' /\ SameContents
<1> DEFINE rid == mem.keys[k]
           page == Flushed.pages[rid.page]
           emptied == [page EXCEPT !.rows[rid.slot] = Free, !.free = @ + SlotSize]
           left == IF page.free = 0 THEN [emptied EXCEPT !.next = mem.head] ELSE emptied
<1>1. /\ open /\ op = Nothing /\ k \in DOMAIN mem.keys
      /\ disk' = Flushed /\ buffer' = Nothing
      /\ op' = [kind |-> "remove", row |-> page.rows[rid.slot], rid |-> rid, page |-> left]
      /\ mem' = IF page.free = 0
                THEN [mem EXCEPT !.head = rid.page, !.freePages = @ + 1] ELSE mem
      /\ open' = open /\ faults' = faults /\ crashes' = crashes
  BY SMTT(30) DEF StartRemove, Idle
<1>2. /\ disk' \in FileLayout /\ buffer' \in Buffers /\ Flushed' = Flushed
      /\ UniqueKeys(disk') /\ LiveSlots(Flushed') = LiveSlots(disk') /\ SameContents
      /\ LinksInRange(disk') /\ LinksInRange(Flushed')
  BY <1>1, FileIsFlushed, SMTT(30)
<1>3. /\ rid \in LiveSlots(Flushed) /\ rid \in Rid /\ rid.page \in PageId /\ rid.slot \in Slot
      /\ rid.page \in 1 .. Flushed.count /\ page \in PageLayout
      /\ page.rows[rid.slot] = RecordAt(Flushed, rid)
      /\ RecordAt(Flushed, rid) \in Record /\ RecordAt(Flushed, rid).key = k
  <2>1. open /\ k \in DOMAIN mem.keys
    BY <1>1, Zenon
  <2> QED BY <2>1, KeyIsAtItsRid, Zenon
<1>4. /\ mem \in Memories /\ mem.count = Flushed.count /\ mem.head <= Flushed.count
      /\ Flushed \in FileLayout /\ LinksInRange(Flushed)
  BY <1>1, IdleMemory, FileRead
<1> HIDE DEF Flushed
<1>5. page.next <= Flushed.count
  BY <1>3, <1>4 DEF LinksInRange
<1>6. /\ mem' \in Memories /\ mem'.keys = mem.keys /\ mem'.live = mem.live
      /\ mem'.count = mem.count /\ mem'.head <= Flushed.count
  <2>1. rid.page \in 0 .. Pages /\ mem.freePages + 1 \in Int /\ rid.page <= Flushed.count
    BY <1>3, <1>4, HeapAssumption DEF PageId, Memories, FileLayout
  <2>2. \A h \in 0 .. Pages, n \in Int : [mem EXCEPT !.head = h, !.freePages = n] \in Memories
    BY <1>4 DEF Memories
  <2>3. CASE page.free = 0
    <3>1. mem' = [mem EXCEPT !.head = rid.page, !.freePages = mem.freePages + 1]
      BY <1>1, <1>4, <2>3 DEF Memories
    <3>2. mem' \in Memories
      BY <2>1, <2>2, <3>1, ZenonT(30)
    <3> QED BY <1>4, <2>1, <3>1, <3>2 DEF Memories
  <2>4. CASE page.free # 0
    BY <1>1, <1>4, <2>4, SMTT(30)
  <2> QED BY <2>3, <2>4
<1>7. /\ left \in PageLayout /\ left.rows = [page.rows EXCEPT ![rid.slot] = Free]
      /\ left.next <= Flushed.count
  <2> DEFINE rows == [page.rows EXCEPT ![rid.slot] = Free]
  <2> HIDE DEF page, rid
  <2>1. rows \in [Slot -> Record \cup {Free}] /\ page.free + SlotSize \in Int
    BY <1>3, HeapAssumption DEF PageLayout
  <2>2. emptied = [page EXCEPT !.rows = rows, !.free = page.free + SlotSize]
    BY <1>3 DEF PageLayout
  <2> HIDE DEF rows, emptied
  <2>3. emptied \in PageLayout /\ emptied.rows = rows /\ emptied.next = page.next
    BY <1>3, <2>1, <2>2, ZenonT(30) DEF PageLayout
  <2>4. mem.head \in 0 .. Pages
    BY <1>4 DEF Memories
  <2>5. left \in PageLayout /\ left.rows = rows /\ left.next \in {page.next, mem.head}
    BY <2>3, <2>4, SMTT(30) DEF PageLayout
  <2> QED BY <1>4, <1>5, <2>5, SMTT(30) DEF rows
<1> HIDE DEF left
<1>8. /\ op' \in Operations /\ op'.kind = "remove" /\ op'.rid = rid /\ op'.page = left
      /\ op'.row.key = k
  BY <1>1, <1>3, <1>7 DEF Operations
<1>9. TypeOK'
  BY <1>1, <1>2, <1>6, <1>8, ZenonT(30) DEF TypeOK, RowsInv
<1>10. MemoryMatches'
  BY <1>1, <1>2, <1>6, IdleMemory, SMTT(30) DEF MemoryMatches
<1>11. PendingRow'
  <2>1. k \in DOMAIN mem.keys
    BY <1>1, Zenon
  <2>2. op'.page.next <= Flushed'.count /\ op'.rid.page <= Flushed'.count
    <3> HIDE DEF page, rid
    <3> QED BY <1>2, <1>3, <1>7, <1>8
  <2>3. op'.page.rows = [Flushed'.pages[op'.rid.page].rows EXCEPT ![op'.rid.slot] = Free]
    BY <1>2, <1>7, <1>8, Zenon
  <2>4. op'.row.key \in DOMAIN mem'.keys /\ mem'.keys[op'.row.key] = op'.rid
    BY <1>6, <1>8, <2>1, Zenon
  <2> QED BY <1>8, <2>2, <2>3, <2>4 DEF PendingRow, RowToWrite
<1> QED BY <1>1, <1>2, <1>9, <1>10, <1>11 DEF RowsInv

LEMMA StartUpdateKeepsRows ==
    ASSUME RowsInv, NEW r \in Record, StartUpdate(r)
    PROVE  RowsInv' /\ SameContents
<1> DEFINE rid == mem.keys[r.key]
           page == Flushed.pages[rid.page]
           rows == [page.rows EXCEPT ![rid.slot] = r]
<1>1. /\ open /\ op = Nothing /\ r.key \in DOMAIN mem.keys
      /\ disk' = Flushed /\ buffer' = Nothing
      /\ op' = [kind |-> "update", row |-> r, rid |-> rid,
                page |-> [page EXCEPT !.rows[rid.slot] = r]]
      /\ mem' = mem /\ open' = open /\ faults' = faults /\ crashes' = crashes
  BY Zenon DEF StartUpdate, Idle
<1>2. /\ disk' \in FileLayout /\ buffer' \in Buffers /\ Flushed' = Flushed
      /\ UniqueKeys(disk') /\ LiveSlots(Flushed') = LiveSlots(disk') /\ SameContents
      /\ LinksInRange(disk') /\ LinksInRange(Flushed')
  BY <1>1, FileIsFlushed, ZenonT(30)
<1>3. /\ rid \in Rid /\ rid.slot \in Slot /\ rid.page \in 1 .. Flushed.count
      /\ page \in PageLayout
  BY <1>1, KeyIsAtItsRid
<1>4. LinksInRange(Flushed) /\ Flushed \in FileLayout
  BY FileRead
<1> HIDE DEF Flushed
<1>5. page.next <= Flushed.count
  BY <1>3, <1>4 DEF LinksInRange
<1>6. /\ op'.page \in PageLayout /\ op'.page.rows = rows /\ op'.page.next = page.next
      /\ op'.kind = "update" /\ op'.rid = rid /\ op'.row = r
  <2>1. rows \in [Slot -> Record \cup {Free}]
    <3> HIDE DEF page, rid
    <3> QED BY <1>3 DEF PageLayout
  <2>2. op'.page = [page EXCEPT !.rows = rows]
    BY <1>1, <1>3 DEF PageLayout
  <2> HIDE DEF rows, page
  <2> QED BY <1>1, <1>3, <2>1, <2>2, SMTT(30) DEF PageLayout
<1>7. op' \in Operations
  BY <1>1, <1>3, <1>6, ZenonT(30) DEF Operations
<1>8. TypeOK'
  BY <1>1, <1>2, <1>7, ZenonT(30) DEF TypeOK, RowsInv
<1>9. MemoryMatches'
  BY <1>1, <1>2, IdleMemory DEF MemoryMatches
<1>10. PendingRow'
  <2>1. op'.page.next <= Flushed'.count /\ op'.rid.page <= Flushed'.count
    <3>1. Flushed' = Flushed /\ op'.page.next = page.next /\ op'.rid = rid
      BY <1>2, <1>6, Zenon
    <3>2. Flushed.count \in Int
      BY <1>4, HeapAssumption DEF FileLayout
    <3> HIDE DEF page, rid
    <3> QED BY <1>3, <1>5, <3>1, <3>2
  <2>2. op'.page.rows = [Flushed'.pages[op'.rid.page].rows EXCEPT ![op'.rid.slot] = r]
    BY <1>2, <1>6, ZenonT(30)
  <2>3. op'.row.key \in DOMAIN mem'.keys /\ mem'.keys[op'.row.key] = op'.rid
    BY <1>1, <1>6, ZenonT(30)
  <2> QED BY <1>6, <2>1, <2>2, <2>3, ZenonT(30) DEF PendingRow, RowToWrite
<1> QED BY <1>1, <1>2, <1>8, <1>9, <1>10, ZenonT(30) DEF RowsInv

LEMMA StoreFailsKeepsRows ==
    ASSUME RowsInv, StoreFails
    PROVE  RowsInv' /\ SameContents
<1>1. /\ open /\ disk' = Flushed /\ buffer' = Nothing /\ op' = Nothing
      /\ faults' = faults + 1 /\ mem' = mem /\ open' = open /\ crashes' = crashes
  BY DEF StoreFails
<1>2. Flushed' = Flushed
  BY <1>1, FileIsFlushed
<1> HIDE DEF Flushed
<1>3. TypeOK'
  BY <1>1, FileIsFlushed DEF RowsInv, TypeOK
<1>4. MemoryMatches'
  BY <1>1, <1>2 DEF RowsInv, MemoryMatches
<1> QED BY <1>1, <1>2, <1>3, <1>4, FileIsFlushed DEF RowsInv

LEMMA ReadPagesKeepsRows ==
    ASSUME RowsInv, ReadPages
    PROVE  RowsInv' /\ SameContents
<1>1. /\ open /\ op = Nothing /\ disk' = Flushed /\ buffer' = Nothing
      /\ mem' = mem /\ op' = op /\ open' = open /\ faults' = faults /\ crashes' = crashes
  BY DEF ReadPages, Idle
<1>2. Flushed' = Flushed
  BY <1>1, FileIsFlushed
<1> HIDE DEF Flushed
<1>3. TypeOK'
  BY <1>1, FileIsFlushed DEF RowsInv, TypeOK
<1>4. MemoryMatches'
  BY <1>1, <1>2 DEF RowsInv, MemoryMatches
<1> QED BY <1>1, <1>2, <1>3, <1>4, FileIsFlushed DEF RowsInv

(* A flush or a destructor changes the header and the meta area at most. *)
LEMMA HeaderWritten ==
    ASSUME RowsInv, open, disk' \in FileLayout, buffer' = Nothing,
           disk'.pages = Flushed.pages, disk'.count = Flushed.count,
           disk'.meta.head \in {Flushed.meta.head, mem.head}
    PROVE  /\ Flushed' = disk' /\ buffer' \in Buffers
           /\ UniqueKeys(disk') /\ LinksInRange(disk')
           /\ LiveSlots(disk') = LiveSlots(Flushed)
           /\ SameContents
<1>1. Flushed' = disk'
  BY DEF Flushed, Nothing
<1>2. /\ Flushed \in FileLayout /\ UniqueKeys(Flushed) /\ LinksInRange(Flushed)
      /\ mem.head <= Flushed.count
  BY FileRead, IdleMemory
<1> HIDE DEF Flushed
<1>3. LiveSlots(disk') = LiveSlots(Flushed)
      /\ \A x : RecordAt(disk', x) = RecordAt(Flushed, x)
  BY DEF LiveSlots, RecordAt
<1>4. LinksInRange(disk')
  BY <1>2 DEF LinksInRange
<1>5. UniqueKeys(disk') /\ SameContents
  BY <1>1, <1>2, <1>3, SameRows DEF SameContents
<1> QED BY <1>1, <1>3, <1>4, <1>5 DEF Buffers

LEMMA FlushKeepsRows ==
    ASSUME RowsInv, Flush
    PROVE  RowsInv' /\ SameContents
<1>1. /\ open /\ op = Nothing
      /\ disk' = [Flushed EXCEPT !.meta = Meta(mem), !.count = mem.count]
      /\ buffer' = Nothing
      /\ mem' = mem /\ op' = op /\ open' = open /\ faults' = faults /\ crashes' = crashes
  BY DEF Flush, Idle
<1>2. mem \in Memories /\ mem.count = Flushed.count /\ Flushed \in FileLayout
  BY <1>1, IdleMemory, FileRead
<1> HIDE DEF Flushed
<1>3. Meta(mem) \in MetaArea /\ Meta(mem).head = mem.head
  BY <1>2 DEF Meta, MetaArea, Memories
<1>4. /\ disk' \in FileLayout /\ disk'.pages = Flushed.pages
      /\ disk'.count = Flushed.count /\ disk'.meta = Meta(mem)
  BY <1>1, <1>2, <1>3 DEF FileLayout
<1>5. /\ Flushed' = disk' /\ buffer' \in Buffers /\ UniqueKeys(disk') /\ LinksInRange(disk')
      /\ LiveSlots(disk') = LiveSlots(Flushed) /\ SameContents
  BY <1>1, <1>3, <1>4, HeaderWritten
<1>6. TypeOK'
  BY <1>1, <1>4, <1>5 DEF RowsInv, TypeOK
<1>7. MemoryMatches'
  BY <1>1, <1>4, <1>5, IdleMemory DEF MemoryMatches, SameContents
<1> QED BY <1>1, <1>5, <1>6, <1>7 DEF RowsInv

LEMMA CloseKeepsRows ==
    ASSUME RowsInv, Close
    PROVE  RowsInv' /\ SameContents
<1>1. /\ open /\ op = Nothing /\ disk' = [Flushed EXCEPT !.count = mem.count]
      /\ buffer' = Nothing /\ open' = FALSE
      /\ mem' = mem /\ op' = op /\ faults' = faults /\ crashes' = crashes
  BY DEF Close, OnClose, Idle
<1>2. mem \in Memories /\ mem.count = Flushed.count /\ Flushed \in FileLayout
  BY <1>1, IdleMemory, FileRead
<1> HIDE DEF Flushed
<1>3. disk' = Flushed
  BY <1>1, <1>2 DEF FileLayout
<1>4. /\ Flushed' = disk' /\ buffer' \in Buffers /\ UniqueKeys(disk') /\ LinksInRange(disk')
      /\ LiveSlots(disk') = LiveSlots(Flushed) /\ SameContents
  BY <1>1, <1>2, <1>3, HeaderWritten
<1>5. TypeOK'
  BY <1>1, <1>2, <1>3, <1>4 DEF RowsInv, TypeOK
<1> QED BY <1>1, <1>4, <1>5 DEF RowsInv

(* A crash loses the buffer: a count of pages, of which the last is blank, or a
   meta area. *)
LEMMA CrashKeepsRows ==
    ASSUME RowsInv, Crash
    PROVE  RowsInv' /\ SameContents
<1>1. /\ disk' = disk /\ buffer' = Nothing /\ op' = Nothing /\ open' = FALSE
      /\ mem' = mem /\ faults' = faults /\ crashes' = crashes + 1
  BY DEF Crash
<1>2. Flushed' = disk'
  BY <1>1 DEF Flushed, Nothing
<1>3. UniqueKeys(disk) /\ LinksInRange(disk)
  BY DEF RowsInv
<1>4. SameContents
  BY <1>1, <1>2, FileRead DEF SameContents
<1>5. TypeOK'
  <2>1. Nothing \in Buffers /\ crashes \in Nat
    BY DEF Buffers, RowsInv, TypeOK
  <2>2. disk \in FileLayout /\ mem \in Memories /\ faults \in Nat
    BY DEF RowsInv, TypeOK
  <2>3. crashes' \in Nat
    BY <1>1, <2>1
  <2>4. open' \in BOOLEAN
    BY <1>1
  <2>5. op' \in {Nothing} \cup Operations
    BY <1>1
  <2> QED BY <1>1, <2>1, <2>2, <2>3, <2>4, <2>5 DEF TypeOK
<1> HIDE DEF Flushed
<1> QED BY <1>1, <1>2, <1>3, <1>4, <1>5 DEF RowsInv

(* rebuild_keys reads what the file holds, and the constructor throws if the
   count of records of the meta area is another one. *)
LEMMA OpenKeepsRows ==
    ASSUME RowsInv, Open
    PROVE  RowsInv' /\ SameContents
<1>1. /\ ~open /\ Opens(disk) /\ open' = TRUE
      /\ mem' = [count |-> disk.count, live |-> disk.meta.live, head |-> disk.meta.head,
                 freePages |-> disk.meta.freePages, keys |-> KeysOnDisk(disk)]
      /\ disk' = disk /\ buffer' = buffer /\ op' = op /\ faults' = faults /\ crashes' = crashes
  BY DEF Open
<1>2. /\ buffer = Nothing /\ op = Nothing /\ disk \in FileLayout /\ UniqueKeys(disk)
      /\ LinksInRange(disk)
  BY <1>1 DEF RowsInv, TypeOK
<1>3. Flushed = disk /\ Flushed' = disk
  BY <1>1, <1>2 DEF Flushed, Nothing
<1>4. KeysOnDisk(disk) \in KeyMaps /\ Cardinality(LiveSlots(disk)) = disk.meta.live
  <2>1. Cardinality(DOMAIN KeysOnDisk(disk)) = disk.meta.live
    BY <1>1 DEF Opens
  <2> QED BY <1>2, <2>1, KeysOnDiskAre
<1>5. mem' \in Memories
  BY <1>1, <1>2, <1>4 DEF Memories, FileLayout, MetaArea
<1>6. TypeOK'
  BY <1>1, <1>5 DEF RowsInv, TypeOK
<1> HIDE DEF Flushed
<1>7. MemoryMatches'
  BY <1>1, <1>2, <1>3, <1>4 DEF MemoryMatches, LinksInRange
<1>8. SameContents
  BY <1>3 DEF SameContents
<1> QED BY <1>1, <1>2, <1>3, <1>6, <1>7, <1>8 DEF RowsInv

(* The write of the page of an operation, whether or not the meta area is saved
   after it: one record more, one less, or one in the place of another. *)
LEMMA PendingIsStored ==
    ASSUME RowsInv, open, op # Nothing
    PROVE  /\ AfterStore \in FileLayout
           /\ AfterStore.count = Flushed.count /\ AfterStore.meta = Flushed.meta
           /\ LinksInRange(AfterStore)
           /\ UniqueKeys(AfterStore)
           /\ KeysOnDisk(AfterStore) = KeysAfter
           /\ Cardinality(LiveSlots(AfterStore)) = LiveAfter
           /\ op.kind = "insert" =>
                 /\ \A q \in Contents(Flushed) : q.key # op.row.key
                 /\ Contents(AfterStore) = Contents(Flushed) \cup {op.row}
           /\ op.kind = "remove" =>
                 \E q \in Contents(Flushed) : Contents(AfterStore) = Contents(Flushed) \ {q}
           /\ op.kind = "update" =>
                 /\ \E q \in Contents(Flushed) : q.key = op.row.key
                 /\ Contents(AfterStore)
                      = {q \in Contents(Flushed) : q.key # op.row.key} \cup {op.row}
<1> DEFINE d == Flushed
           e == AfterStore
           rid == op.rid
           old == RecordAt(d, rid)
<1>1. /\ op \in Operations /\ rid \in Rid /\ op.row \in Record /\ op.page \in PageLayout
      /\ op.kind \in {"insert", "remove", "update"}
  BY DEF RowsInv, TypeOK, Operations
<1>2. PendingRow /\ MemoryMatches
  BY DEF RowsInv
<1>3. d \in FileLayout /\ UniqueKeys(d) /\ LinksInRange(d)
  BY FileRead
<1> HIDE DEF Flushed
<1>4. mem.keys = KeysOnDisk(d) /\ mem.live = Cardinality(LiveSlots(d))
  BY <1>2 DEF MemoryMatches
<1>5. op.row.key \in Key
  BY <1>1 DEF Record
<1>6. /\ e \in FileLayout /\ e.count = d.count /\ e.meta = d.meta
      /\ e.pages[rid.page] = op.page
      /\ \A p \in PageId : p # rid.page => e.pages[p] = d.pages[p]
      /\ SlotSet(d, e, rid, RowToWrite)
  <2>1. RowToWrite \in Record \cup {Free}
    BY <1>1 DEF RowToWrite
  <2>2. /\ rid.page <= d.count
        /\ op.page.rows = [d.pages[rid.page].rows EXCEPT ![rid.slot] = RowToWrite]
    BY <1>2 DEF PendingRow
  <2>3. SlotSet(d, [d EXCEPT !.pages[rid.page] = op.page], rid, RowToWrite)
    BY <1>1, <1>3, <2>1, <2>2, SlotWritten
  <2>4. rid.page \in PageId
    BY <1>1 DEF Rid
  <2> QED BY <1>1, <1>3, <2>3, <2>4 DEF AfterStore, FileLayout
<1>7. LinksInRange(e)
  <2>1. \A p \in 1 .. d.count : p \in PageId
    BY <1>3, HeapAssumption DEF FileLayout, PageId
  <2>2. op.page.next <= d.count
    BY <1>2 DEF PendingRow
  <2> HIDE DEF e
  <2> QED BY <1>3, <1>6, <2>1, <2>2 DEF LinksInRange
<1> HIDE DEF e
<1>8. CASE op.kind = "insert"
  <2>1. RowToWrite = op.row /\ op.row # Free
    BY <1>1, <1>8, FreeIsNoRecord DEF RowToWrite
  <2>2. rid \notin LiveSlots(d) /\ op.row.key \notin DOMAIN KeysOnDisk(d)
    BY <1>2, <1>4, <1>8 DEF PendingRow
  <2>4. /\ UniqueKeys(e)
        /\ KeysOnDisk(e) = KeysWith(KeysOnDisk(d), op.row.key, rid)
        /\ Cardinality(LiveSlots(e)) = Cardinality(LiveSlots(d)) + 1
        /\ Contents(e) = Contents(d) \cup {op.row}
    BY <1>1, <1>3, <1>6, <2>1, <2>2, RowAdded
  <2>5. \A q \in Contents(d) : q.key # op.row.key
    <3>1. DOMAIN KeysOnDisk(d) = {RecordAt(d, x).key : x \in LiveSlots(d)}
      BY <1>3, KeysOnDiskAre
    <3> QED BY <2>2, <3>1 DEF Contents
  <2>6. KeysOnDisk(e) = KeysAfter /\ Cardinality(LiveSlots(e)) = LiveAfter
    BY <1>4, <1>8, <2>4 DEF KeysAfter, LiveAfter, KeysWith
  <2> QED BY <1>6, <1>7, <1>8, <2>4, <2>5, <2>6 DEF e
<1>9. ASSUME op.kind # "insert"
      PROVE  rid \in LiveSlots(d) /\ old.key = op.row.key /\ old \in Contents(d)
  <2>1. op.row.key \in DOMAIN mem.keys /\ mem.keys[op.row.key] = rid
    BY <1>2, <1>9 DEF PendingRow
  <2>2. rid \in LiveSlots(d) /\ old.key = op.row.key
    BY <2>1, KeyIsAtItsRid
  <2> QED BY <2>2 DEF Contents
<1>10. CASE op.kind = "remove"
  <2>1. RowToWrite = Free /\ rid \in LiveSlots(d) /\ old.key = op.row.key /\ old \in Contents(d)
    BY <1>9, <1>10 DEF RowToWrite
  <2>3. /\ UniqueKeys(e)
        /\ KeysOnDisk(e) = KeysSans(KeysOnDisk(d), old.key)
        /\ Cardinality(LiveSlots(e)) = Cardinality(LiveSlots(d)) - 1
        /\ Contents(e) = Contents(d) \ {old}
    BY <1>3, <1>6, <2>1, RowGone
  <2>4. KeysOnDisk(e) = KeysAfter /\ Cardinality(LiveSlots(e)) = LiveAfter
    BY <1>4, <1>10, <2>1, <2>3 DEF KeysAfter, LiveAfter, KeysSans
  <2> QED BY <1>6, <1>7, <1>10, <2>1, <2>3, <2>4 DEF e
<1>11. CASE op.kind = "update"
  <2>1. /\ RowToWrite = op.row /\ op.row # Free
        /\ rid \in LiveSlots(d) /\ old.key = op.row.key /\ old \in Contents(d)
    BY <1>1, <1>9, <1>11, FreeIsNoRecord DEF RowToWrite
  <2>3. /\ UniqueKeys(e) /\ KeysOnDisk(e) = KeysOnDisk(d) /\ LiveSlots(e) = LiveSlots(d)
        /\ Contents(e) = {q \in Contents(d) : q.key # op.row.key} \cup {op.row}
    BY <1>1, <1>3, <1>6, <2>1, RowReplaced
  <2>4. KeysOnDisk(e) = KeysAfter /\ Cardinality(LiveSlots(e)) = LiveAfter
    BY <1>4, <1>11, <2>3 DEF KeysAfter, LiveAfter
  <2> QED BY <1>6, <1>7, <1>11, <2>1, <2>3, <2>4 DEF e
<1> QED BY <1>1, <1>8, <1>10, <1>11

(* The file after the page of an operation is written; the buffer may hold the
   meta area. *)
LEMMA StoredKeepsRows ==
    ASSUME RowsInv, Stored, buffer' \in Buffers, buffer'.kind # "header",
           buffer'.kind = "meta" => buffer'.meta.head = mem.head, faults' \in Nat
    PROVE  /\ RowsInv'
           /\ disk' = AfterStore
           /\ KeysOnDisk(Flushed') = KeysAfter
           /\ Contents(Flushed') = Contents(AfterStore)
           /\ LiveSlots(Flushed') = LiveSlots(AfterStore)
<1>1. /\ open /\ op # Nothing /\ disk' = AfterStore
      /\ mem' = [mem EXCEPT !.keys = KeysAfter, !.live = LiveAfter]
      /\ op' = Nothing /\ open' = open /\ crashes' = crashes
  BY DEF Stored, AfterStore
<1> DEFINE e == AfterStore
<1>2. /\ e \in FileLayout /\ e.count = Flushed.count /\ LinksInRange(e) /\ UniqueKeys(e)
      /\ KeysOnDisk(e) = KeysAfter /\ Cardinality(LiveSlots(e)) = LiveAfter
  BY <1>1, PendingIsStored
<1>3. Flushed' = WriteBack(e, buffer')
  BY <1>1 DEF Flushed, WriteBack
<1>4. mem.count = Flushed.count /\ mem.head <= Flushed.count /\ mem \in Memories
  BY <1>1, IdleMemory
<1> HIDE DEF Flushed, e
<1>5. /\ Flushed' \in FileLayout /\ Flushed'.pages = e.pages /\ Flushed'.count = e.count
      /\ Flushed'.meta = IF buffer'.kind = "meta" THEN buffer'.meta ELSE e.meta
      /\ LiveSlots(Flushed') = LiveSlots(e)
      /\ \A x : RecordAt(Flushed', x) = RecordAt(e, x)
  BY <1>2, <1>3, WriteBackKeepsPages
<1>6. LinksInRange(Flushed')
  BY <1>2, <1>4, <1>5 DEF LinksInRange
<1>7. KeysOnDisk(Flushed') = KeysAfter /\ Contents(Flushed') = Contents(e)
  BY <1>2, <1>5, SameRows
<1>8. KeysAfter \in KeyMaps /\ LiveAfter \in Nat
  BY <1>2, KeysOnDiskAre, LiveSlotsAreRecords
<1>9. /\ mem' \in Memories /\ mem'.keys = KeysAfter /\ mem'.live = LiveAfter
      /\ mem'.count = mem.count /\ mem'.head = mem.head
  BY <1>1, <1>4, <1>8 DEF Memories
<1>10. TypeOK'
  <2>1. crashes \in Nat /\ open \in BOOLEAN
    BY DEF RowsInv, TypeOK
  <2> QED BY <1>1, <1>2, <1>9, <2>1 DEF TypeOK, e
<1>11. MemoryMatches'
  BY <1>2, <1>4, <1>5, <1>7, <1>9 DEF MemoryMatches
<1>12. RowsInv'
  BY <1>1, <1>2, <1>5, <1>6, <1>10, <1>11 DEF RowsInv, e
<1> QED BY <1>1, <1>5, <1>7, <1>12 DEF e

LEMMA StorePageKeepsRows ==
    ASSUME RowsInv, StorePage \/ MetaFails
    PROVE  /\ RowsInv'
           /\ Stored /\ disk' = AfterStore
           /\ KeysOnDisk(Flushed') = KeysAfter
           /\ Contents(Flushed') = Contents(AfterStore)
           /\ LiveSlots(Flushed') = LiveSlots(AfterStore)
<1>1. /\ Stored /\ open /\ op # Nothing
      /\ \/ buffer' = Nothing
         \/ buffer' = [kind |-> "meta", meta |-> Meta([mem EXCEPT !.live = LiveAfter])]
      /\ faults' \in {faults, faults + 1}
  BY DEF StorePage, MetaFails, Stored
<1>2. faults' \in Nat
  BY <1>1 DEF RowsInv, TypeOK
<1>3. mem \in Memories
  BY <1>1, IdleMemory
<1>4. LiveAfter \in Nat
  BY <1>1, PendingIsStored, LiveSlotsAreRecords
<1>5. /\ Meta([mem EXCEPT !.live = LiveAfter]) \in MetaArea
      /\ Meta([mem EXCEPT !.live = LiveAfter]).head = mem.head
  BY <1>3, <1>4 DEF Meta, Memories, MetaArea
<1>6. /\ buffer' \in Buffers /\ buffer'.kind # "header"
      /\ buffer'.kind = "meta" => buffer'.meta.head = mem.head
  BY <1>1, <1>5 DEF Buffers, Nothing
<1> QED BY <1>1, <1>2, <1>6, StoredKeepsRows

LEMMA StutterKeepsRows ==
    ASSUME RowsInv, UNCHANGED vars
    PROVE  RowsInv' /\ SameContents
<1>1. /\ disk' = disk /\ buffer' = buffer /\ mem' = mem /\ op' = op
      /\ open' = open /\ faults' = faults /\ crashes' = crashes
  BY DEF vars
<1>2. Flushed' = Flushed
  BY <1>1 DEF Flushed
<1> HIDE DEF Flushed
<1>3. TypeOK'
  BY <1>1 DEF RowsInv, TypeOK
<1>4. MemoryMatches' <=> MemoryMatches
  BY <1>1, <1>2 DEF MemoryMatches
<1>5. PendingRow' <=> PendingRow
  BY <1>1, <1>2 DEF PendingRow, RowToWrite
<1> QED BY <1>1, <1>2, <1>3, <1>4, <1>5 DEF RowsInv, SameContents

LEMMA RowsStep ==
    ASSUME RowsInv, [Next]_vars
    PROVE  RowsInv' /\ (SameContents \/ StorePage \/ MetaFails)
<1>1. CASE \E r \in Record : InsertInChained(r)
  BY <1>1, InsertInChainedKeepsRows
<1>2. CASE \E r \in Record : InsertInNewPage(r)
  BY <1>2, InsertInNewPageKeepsRows
<1>3. CASE \E r \in Record : AllocateFails(r)
  BY <1>3, AllocateFailsKeepsRows
<1>4. CASE \E r \in Record : StartUpdate(r)
  BY <1>4, StartUpdateKeepsRows
<1>5. CASE \E k \in Key : StartRemove(k)
  BY <1>5, StartRemoveKeepsRows
<1>6. CASE StorePage \/ MetaFails
  BY <1>6, StorePageKeepsRows
<1>7. CASE StoreFails
  BY <1>7, StoreFailsKeepsRows
<1>8. CASE ReadPages
  BY <1>8, ReadPagesKeepsRows
<1>9. CASE Flush
  BY <1>9, FlushKeepsRows
<1>10. CASE Close
  BY <1>10, CloseKeepsRows
<1>11. CASE Crash
  BY <1>11, CrashKeepsRows
<1>12. CASE Open
  BY <1>12, OpenKeepsRows
<1>13. CASE UNCHANGED vars
  BY <1>13, StutterKeepsRows
<1> QED BY <1>1, <1>2, <1>3, <1>4, <1>5, <1>6, <1>7, <1>8, <1>9, <1>10, <1>11, <1>12, <1>13
        DEF Next

LEMMA RowsInvariant == Spec => []RowsInv
<1>1. RowsInv /\ [Next]_vars => RowsInv'
  BY RowsStep
<1> QED BY <1>1, RowsInitially, PTL DEF Spec

(* The heap file keeps its types. *)
THEOREM HeapTypeCorrect == Spec => []TypeOK
<1>1. RowsInv => TypeOK
  BY DEF RowsInv
<1> QED BY <1>1, RowsInvariant, PTL

(* keys_, live_ and page_count_ are what a scan of the file would find, through
   failed writes, crashes and reopens (heap_file.cpp, rebuild_keys). *)
THEOREM KeysMatchTheSlots == Spec => []KeysMatchSlots
<1>1. RowsInv => KeysMatchSlots
  BY IdleMemory DEF KeysMatchSlots, Idle
<1> QED BY <1>1, RowsInvariant, PTL

(* A record never moves (heap_file.hpp:18): what an operation does to keys_
   leaves the other keys where they are. *)
THEOREM RecordsStayAtTheirRids == Spec => RidStable
<1> DEFINE Step == LET before == KeysOnDisk(Flushed)
                       after == KeysOnDisk(Flushed)'
                   IN  \A k \in DOMAIN before \cap DOMAIN after : after[k] = before[k]
<1>1. ASSUME RowsInv, [Next]_vars
      PROVE  Step
  <2>1. CASE SameContents
    BY <2>1 DEF SameContents
  <2>2. CASE StorePage \/ MetaFails
    <3>1. open /\ op # Nothing /\ KeysOnDisk(Flushed') = KeysAfter
      BY <1>1, <2>2, StorePageKeepsRows DEF Stored
    <3>2. mem.keys = KeysOnDisk(Flushed) /\ PendingRow
      BY <1>1, <3>1, IdleMemory DEF RowsInv
    <3>3. op.kind \in {"insert", "remove", "update"}
      BY <1>1, <3>1 DEF RowsInv, TypeOK, Operations
    <3>4. \A k \in DOMAIN mem.keys \cap DOMAIN KeysAfter : KeysAfter[k] = mem.keys[k]
      BY <3>2, <3>3 DEF KeysAfter, PendingRow
    <3> HIDE DEF Flushed, KeysAfter
    <3> QED BY <3>1, <3>2, <3>4
  <2> QED BY <1>1, <2>1, <2>2, RowsStep
<1>2. RowsInv /\ [Next]_vars => [Step]_vars
  BY <1>1
<1> HIDE DEF Step
<1>3. Spec => [][Step]_vars
  BY <1>2, RowsInvariant, PTL DEF Spec
<1> QED BY <1>3 DEF RidStable, Step

-------------------------------------------------------------------------------
(* The refinement of RecordFile. *)
LEMMA FileInitRefines == Init => File!FileInit
<1> SUFFICES ASSUME Init PROVE File!FileInit
  OBVIOUS
<1>1. Flushed = disk
  BY DEF Init, Flushed, Nothing
<1>2. LiveSlots(disk) = {}
  BY HeapAssumption DEF Init, LiveSlots, Rid, PageId
<1> HIDE DEF Flushed
<1> QED BY <1>1, <1>2 DEF File!FileInit, Init

LEMMA FileNextRefines ==
    ASSUME RowsInv, [Next]_vars
    PROVE  [File!FileNext]_(File!fileVars)
<1>1. Contents(Flushed) = {RecordAt(Flushed, rid) : rid \in LiveSlots(Flushed)}
  BY DEF Contents
<1>2. Contents(Flushed)' = {RecordAt(Flushed, rid) : rid \in LiveSlots(Flushed)}'
  BY DEF Contents
<1> HIDE DEF Flushed
<1>3. CASE StorePage \/ MetaFails
  <2>1. /\ open /\ op # Nothing /\ open' = open
        /\ Contents(Flushed)' = Contents(AfterStore)
    BY <1>3, StorePageKeepsRows DEF Stored
  <2>2. op.row \in Record /\ op.kind \in {"insert", "remove", "update"}
    BY <2>1 DEF RowsInv, TypeOK, Operations
  <2>3. CASE op.kind = "insert"
    <3>1. File!Insert(op.row)
      BY <1>1, <1>2, <2>1, <2>3, PendingIsStored DEF File!Insert
    <3> QED BY <2>2, <3>1 DEF File!FileNext
  <2>4. CASE op.kind = "remove"
    <3>1. PICK q \in Contents(Flushed) : Contents(AfterStore) = Contents(Flushed) \ {q}
      BY <2>1, <2>4, PendingIsStored
    <3>2. File!Remove(q)
      BY <1>1, <1>2, <2>1, <3>1 DEF File!Remove
    <3> QED BY <1>1, <3>1, <3>2 DEF File!FileNext
  <2>5. CASE op.kind = "update"
    <3>1. File!Replace(op.row)
      BY <1>1, <1>2, <2>1, <2>5, PendingIsStored DEF File!Replace
    <3> QED BY <2>2, <3>1 DEF File!FileNext
  <2> QED BY <2>2, <2>3, <2>4, <2>5
<1>4. ASSUME SameContents
      PROVE  {RecordAt(Flushed, rid) : rid \in LiveSlots(Flushed)}'
               = {RecordAt(Flushed, rid) : rid \in LiveSlots(Flushed)}
  BY <1>1, <1>2, <1>4 DEF SameContents
<1>5. CASE Close \/ Crash
  <2>1. open /\ open' = FALSE /\ SameContents
    BY <1>5, CloseKeepsRows, CrashKeepsRows DEF Close, Crash, Idle
  <2>2. File!GoDown
    BY <1>4, <2>1 DEF File!GoDown
  <2> QED BY <2>2 DEF File!FileNext
<1>6. CASE Open
  <2>1. ~open /\ open' = TRUE /\ SameContents
    BY <1>6, OpenKeepsRows DEF Open
  <2>2. File!ComeUp
    BY <1>4, <2>1 DEF File!ComeUp
  <2> QED BY <2>2 DEF File!FileNext
<1>7. CASE SameContents /\ ~Close /\ ~Crash /\ ~Open
  <2>1. open' = open
    BY ZenonT(30), <1>7 DEF Next, vars, InsertInChained, InsertInNewPage, AllocateFails, StartUpdate,
                StartRemove, StorePage, MetaFails, Stored, StoreFails, ReadPages, Flush
  <2> QED BY <1>4, <1>7, <2>1 DEF File!fileVars
<1> QED BY <1>3, <1>5, <1>6, <1>7, RowsStep

(* The heap file implements the contract of TableFile: one record more, one less
   or one in the place of another, or nothing. *)
THEOREM HeapFileImplementsRecordFile == Spec => ImplementsRecordFile
<1>1. RowsInv /\ [Next]_vars => [File!FileNext]_(File!fileVars)
  BY FileNextRefines
<1> QED BY <1>1, FileInitRefines, RowsInvariant, PTL
        DEF Spec, ImplementsRecordFile, File!FileSpec

-------------------------------------------------------------------------------
(* The bytes left in a page count its free slots. *)
LEMMA Multiples ==
    ASSUME NEW a \in Nat \ {0}, NEW b \in Nat
    PROVE  /\ a * b \in Nat /\ (a * b = 0 <=> b = 0)
           /\ a * (b + 1) = a * b + a
           /\ a * (b - 1) = a * b - a
OBVIOUS

LEMMA FreeSlotsAreFinite ==
    ASSUME NEW page
    PROVE  /\ IsFiniteSet(FreeSlots(page)) /\ Cardinality(FreeSlots(page)) \in Nat
           /\ Cardinality(FreeSlots(page)) = 0 <=> FreeSlots(page) = {}
<1>1. FreeSlots(page) \in SUBSET Slot
  BY DEF FreeSlots
<1>2. IsFiniteSet(Slot)
  BY FS_Interval, HeapAssumption DEF Slot
<1>3. IsFiniteSet(FreeSlots(page))
  BY <1>1, <1>2, FS_Subset
<1> QED BY <1>3, FS_CardinalityType, FS_EmptySet

LEMMA NoBytesIsNoRoom ==
    ASSUME NEW page, Balanced(page)
    PROVE  page.free = 0 <=> FreeSlots(page) = {}
BY FreeSlotsAreFinite, Multiples, HeapAssumption DEF Balanced

LEMMA SlotFilled ==
    ASSUME NEW page \in PageLayout, NEW filled, NEW s \in FreeSlots(page), NEW r \in Record,
           filled.rows = [page.rows EXCEPT ![s] = r], filled.free = page.free - SlotSize
    PROVE  /\ FreeSlots(filled) = FreeSlots(page) \ {s}
           /\ Balanced(page) => Balanced(filled)
<1>1. FreeSlots(filled) = FreeSlots(page) \ {s}
  BY FreeIsNoRecord DEF FreeSlots, PageLayout
<1>2. Cardinality(FreeSlots(filled)) = Cardinality(FreeSlots(page)) - 1
  BY <1>1, FreeSlotsAreFinite, FS_RemoveElement, ZenonT(30)
<1> QED BY <1>1, <1>2, FreeSlotsAreFinite, Multiples, HeapAssumption DEF Balanced

LEMMA SlotFreed ==
    ASSUME NEW page \in PageLayout, NEW emptied, NEW s \in Slot, page.rows[s] # Free,
           emptied.rows = [page.rows EXCEPT ![s] = Free], emptied.free = page.free + SlotSize
    PROVE  /\ FreeSlots(emptied) = FreeSlots(page) \cup {s}
           /\ Balanced(page) => Balanced(emptied)
<1>1. FreeSlots(emptied) = FreeSlots(page) \cup {s} /\ s \notin FreeSlots(page)
  BY DEF FreeSlots, PageLayout
<1>2. Cardinality(FreeSlots(emptied)) = Cardinality(FreeSlots(page)) + 1
  BY <1>1, FreeSlotsAreFinite, FS_AddElement, ZenonT(30)
<1> QED BY <1>1, <1>2, FreeSlotsAreFinite, Multiples, HeapAssumption DEF Balanced

LEMMA SlotRewritten ==
    ASSUME NEW page \in PageLayout, NEW other, NEW s \in Slot, page.rows[s] # Free,
           NEW r \in Record, other.rows = [page.rows EXCEPT ![s] = r], other.free = page.free
    PROVE  FreeSlots(other) = FreeSlots(page) /\ (Balanced(page) => Balanced(other))
<1>1. FreeSlots(other) = FreeSlots(page)
  BY FreeIsNoRecord DEF FreeSlots, PageLayout
<1> QED BY <1>1 DEF Balanced

-------------------------------------------------------------------------------
(* A list repeats no page, so it is no longer than the file. *)
LEMMA ListFitsTheFile ==
    ASSUME NEW d, NEW head, NEW n \in Nat, NEW q, Chained(d, head, n, q)
    PROVE  n <= Pages
<1>1. q \in Injection(1 .. n, PageId)
  BY DEF Chained, Injection, IsInjective
<1>2. IsFiniteSet(PageId) /\ Cardinality(PageId) = Pages /\ Cardinality(1 .. n) = n
  BY FS_Interval, HeapAssumption DEF PageId
<1>3. Cardinality(1 .. n) <= Cardinality(PageId)
  BY <1>1, <1>2, FS_Injection
<1> QED BY <1>2, <1>3

(* The recursive function of Visit walks the enumeration of the list. *)
LEMMA VisitWalksTheList ==
    ASSUME NEW d, NEW head, NEW n \in Nat, NEW q, Chained(d, head, n, q), NEW m \in Nat
    PROVE  Visit(d, head, m) = IF m < n THEN q[m + 1] ELSE NoPage
<1> DEFINE Link(v, i) == IF i = 0 THEN head
                         ELSE IF v[i - 1] = NoPage THEN NoPage ELSE d.pages[v[i - 1]].next
           walk == [i \in 0 .. m |-> IF i < n THEN q[i + 1] ELSE NoPage]
           v == CHOOSE w : w = [i \in 0 .. m |-> Link(w, i)]
<1>1. Visit(d, head, m) = v[m]
  BY DEF Visit
<1>2. \A i \in 1 .. n : q[i] \in PageId /\ q[i] # NoPage
  BY HeapAssumption DEF Chained, PageId, NoPage
<1>3. \A i \in 0 .. m : walk[i] = Link(walk, i)
  <2> SUFFICES ASSUME NEW i \in 0 .. m PROVE walk[i] = Link(walk, i)
    OBVIOUS
  <2>1. CASE i = 0
    BY <2>1 DEF Chained
  <2>2. CASE i # 0 /\ i - 1 < n
    <3>1. i - 1 \in 0 .. m /\ i \in 1 .. n /\ walk[i - 1] = q[i]
      BY <2>2
    <3>2. d.pages[q[i]].next = IF i = n THEN NoPage ELSE q[i + 1]
      BY <3>1 DEF Chained
    <3>3. Link(walk, i) = d.pages[q[i]].next
      BY <1>2, <2>2, <3>1
    <3> QED BY <2>2, <3>1, <3>2, <3>3
  <2>3. CASE i # 0 /\ ~(i - 1 < n)
    <3>1. i - 1 \in 0 .. m /\ walk[i - 1] = NoPage /\ walk[i] = NoPage
      BY <2>3
    <3> QED BY <2>3, <3>1
  <2> QED BY <2>1, <2>2, <2>3
<1>4. walk = [i \in 0 .. m |-> Link(walk, i)]
  BY <1>3
<1>5. v = [i \in 0 .. m |-> Link(v, i)]
  <2> HIDE DEF walk, Link
  <2> QED BY <1>4
<1> HIDE DEF v, walk
<1>6. \A i \in Nat : i \in {j \in Nat : j <= m => v[j] = walk[j]}
  <2> DEFINE S == {j \in Nat : j <= m => v[j] = walk[j]}
  <2>1. 0 \in S
    <3>1. v[0] = head
      BY <1>5
    <3>2. walk[0] = head
      BY <1>3
    <3> QED BY <3>1, <3>2
  <2>2. ASSUME NEW j \in Nat, j \in S PROVE j + 1 \in S
    <3> SUFFICES ASSUME j + 1 <= m PROVE v[j + 1] = walk[j + 1]
      OBVIOUS
    <3>1. j + 1 \in 0 .. m /\ j + 1 # 0 /\ (j + 1) - 1 = j /\ v[j] = walk[j]
      BY <2>2, SMTT(30)
    <3>2. v[j + 1] = Link(v, j + 1)
      BY <1>5, <3>1
    <3>3. walk[j + 1] = Link(walk, j + 1)
      BY <1>3, <3>1
    <3> QED BY <3>1, <3>2, <3>3
  <2> HIDE DEF S
  <2>3. \A i \in Nat : i \in S
    BY <2>1, <2>2, InductionOverNat
  <2> QED BY <2>3 DEF S
<1>7. v[m] = walk[m]
  BY <1>6
<1> QED BY <1>1, <1>7 DEF walk

LEMMA ListIsEnumerated ==
    ASSUME NEW d, NEW head, NEW n \in Nat, NEW q, Chained(d, head, n, q)
    PROVE  /\ Listed(d, head) = {q[i] : i \in 1 .. n}
           /\ ListLength(d, head) = n
<1>1. n <= Pages /\ Pages \in Nat
  BY ListFitsTheFile, HeapAssumption
<1>2. \A m \in 0 .. Pages : Visit(d, head, m) = IF m < n THEN q[m + 1] ELSE NoPage
  BY <1>1, VisitWalksTheList
<1>3. \A i \in 1 .. n : q[i] # NoPage
  BY HeapAssumption DEF Chained, PageId, NoPage
<1>4. Listed(d, head) = {q[i] : i \in 1 .. n}
  <2>1. ASSUME NEW i \in 1 .. n PROVE q[i] \in Listed(d, head)
    <3>1. i - 1 \in 0 .. Pages /\ i - 1 < n /\ (i - 1) + 1 = i
      BY <1>1
    <3>2. Visit(d, head, i - 1) = q[i]
      BY <1>2, <3>1
    <3> QED BY <1>3, <3>1, <3>2 DEF Listed
  <2>2. ASSUME NEW p \in Listed(d, head) PROVE p \in {q[i] : i \in 1 .. n}
    <3>1. PICK m \in 0 .. Pages : p = Visit(d, head, m) /\ p # NoPage
      BY DEF Listed
    <3>2. m < n /\ p = q[m + 1] /\ m + 1 \in 1 .. n
      BY <1>1, <1>2, <3>1
    <3> QED BY <3>2
  <2> QED BY <2>1, <2>2
<1>5. {m \in 0 .. Pages : Visit(d, head, m) = NoPage} = n .. Pages
  <2>1. \A m \in 0 .. Pages : m < n => m + 1 \in 1 .. n
    BY <1>1
  <2> QED BY <1>1, <1>2, <1>3, <2>1
<1>6. Lowest(n .. Pages) = n
  <2>1. n .. Pages \in SUBSET Nat /\ n \in n .. Pages
    BY <1>1
  <2>2. Lowest(n .. Pages) \in n .. Pages /\ Lowest(n .. Pages) <= n
    BY <2>1, LowestIsLeast
  <2> QED BY <2>2
<1>7. n \in 0 .. Pages /\ Visit(d, head, n) = NoPage
  BY <1>1, <1>2
<1>8. ListLength(d, head) = n
  BY <1>5, <1>6, <1>7 DEF ListLength
<1> QED BY <1>4, <1>8

-------------------------------------------------------------------------------
(* What the operations do to the list. *)
PageSet(d, e, id, page) ==
    /\ d \in FileLayout /\ e.count = d.count /\ id \in 1 .. d.count
    /\ e.pages[id] = page
    /\ \A p \in PageId : p # id => e.pages[p] = d.pages[p]

LEMMA CountedPages ==
    ASSUME NEW d \in FileLayout
    PROVE  /\ d.count \in Nat /\ 1 .. d.count \subseteq PageId
           /\ \A p \in PageId : p # NoPage /\ p \in Nat
           /\ \A p \in 1 .. d.count : d.pages[p] \in PageLayout
BY HeapAssumption DEF FileLayout, PageId, NoPage

LEMMA SameList ==
    ASSUME NEW d \in FileLayout, NEW e, NEW head, NEW n, Exact(d, head, n),
           e.count = d.count, \A p \in 1 .. d.count : e.pages[p] = d.pages[p]
    PROVE  Exact(e, head, n)
<1>1. WithRoom(e) = WithRoom(d)
  BY DEF WithRoom
<1>2. n \in Nat /\ \A p \in 1 .. e.count : Balanced(e.pages[p])
  BY DEF Exact
<1>3. PICK q \in [1 .. n -> PageId] :
         Chained(d, head, n, q) /\ {q[i] : i \in 1 .. n} = WithRoom(d)
  BY DEF Exact
<1>4. \A i \in 1 .. n : q[i] \in 1 .. d.count
  BY <1>3 DEF WithRoom
<1>5. Chained(e, head, n, q)
  BY <1>3, <1>4 DEF Chained
<1> QED BY <1>1, <1>2, <1>3, <1>5 DEF Exact

LEMMA HeadOfTheList ==
    ASSUME NEW d \in FileLayout, NEW head, NEW n, Exact(d, head, n)
    PROVE  /\ head = NoPage => n = 0 /\ WithRoom(d) = {}
           /\ head # NoPage => n > 0 /\ head \in WithRoom(d)
<1>1. n \in Nat
  BY DEF Exact
<1>2. PICK q \in [1 .. n -> PageId] :
         Chained(d, head, n, q) /\ {q[i] : i \in 1 .. n} = WithRoom(d)
  BY DEF Exact
<1>3. CASE n = 0
  BY <1>2, <1>3 DEF Chained
<1>4. CASE n > 0
  <2>1. head = q[1] /\ 1 \in 1 .. n /\ head # NoPage
    <3>1. head = q[1] /\ 1 \in 1 .. n /\ q[1] \in PageId
      BY <1>1, <1>2, <1>4 DEF Chained
    <3> QED BY <3>1, CountedPages
  <2> QED BY <1>2, <1>4, <2>1
<1> QED BY <1>1, <1>3, <1>4

(* A page is written that keeps its link, and its place in or out of the list. *)
LEMMA PageKept ==
    ASSUME NEW d, NEW e, NEW id, NEW page, PageSet(d, e, id, page),
           NEW head, NEW n, Exact(d, head, n), Balanced(page),
           page.next = d.pages[id].next,
           FreeSlots(page) = {} <=> FreeSlots(d.pages[id]) = {}
    PROVE  Exact(e, head, n)
<1>1. /\ d \in FileLayout /\ e.count = d.count /\ id \in 1 .. d.count /\ e.pages[id] = page
      /\ \A p \in PageId : p # id => e.pages[p] = d.pages[p]
  BY DEF PageSet
<1>2. \A p \in 1 .. d.count : p \in PageId
  BY <1>1, CountedPages
<1>3. n \in Nat /\ \A p \in 1 .. e.count : Balanced(e.pages[p])
  BY <1>1, <1>2 DEF Exact
<1>4. WithRoom(e) = WithRoom(d)
  BY <1>1, <1>2 DEF WithRoom
<1>5. PICK q \in [1 .. n -> PageId] :
         Chained(d, head, n, q) /\ {q[i] : i \in 1 .. n} = WithRoom(d)
  BY DEF Exact
<1>6. \A p \in PageId : e.pages[p].next = d.pages[p].next
  BY <1>1
<1>7. Chained(e, head, n, q)
  BY <1>5, <1>6 DEF Chained
<1> QED BY <1>3, <1>4, <1>5, <1>7 DEF Exact

(* The head of the list is left without room. *)
LEMMA PagePopped ==
    ASSUME NEW d, NEW e, NEW head, NEW page, PageSet(d, e, head, page),
           NEW n, Exact(d, head, n), Balanced(page), FreeSlots(page) = {}
    PROVE  Exact(e, d.pages[head].next, n - 1)
<1>1. /\ d \in FileLayout /\ e.count = d.count /\ head \in 1 .. d.count /\ e.pages[head] = page
      /\ \A p \in PageId : p # head => e.pages[p] = d.pages[p]
  BY DEF PageSet
<1>2. /\ \A p \in 1 .. d.count : p \in PageId
      /\ head # NoPage /\ d.count \in Nat
  BY <1>1, CountedPages
<1>3. n \in Nat /\ n > 0 /\ n - 1 \in Nat
  <2>1. n \in Nat
    BY DEF Exact
  <2>2. n > 0
    BY <1>1, <1>2, HeadOfTheList
  <2> QED BY <2>1, <2>2
<1>4. \A p \in 1 .. e.count : Balanced(e.pages[p])
  BY <1>1, <1>2 DEF Exact
<1>5. PICK q \in [1 .. n -> PageId] :
         Chained(d, head, n, q) /\ {q[i] : i \in 1 .. n} = WithRoom(d)
  BY DEF Exact
<1>6. /\ \A i, j \in 1 .. n : q[i] = q[j] => i = j
      /\ head = q[1]
      /\ \A i \in 1 .. n : d.pages[q[i]].next = IF i = n THEN NoPage ELSE q[i + 1]
  BY <1>3, <1>5 DEF Chained
<1> DEFINE rest == [i \in 1 .. n - 1 |-> q[i + 1]]
<1>7. /\ rest \in [1 .. n - 1 -> PageId]
      /\ \A i \in 1 .. n - 1 : i + 1 \in 1 .. n /\ rest[i] = q[i + 1] /\ rest[i] # head
  <2>1. \A i \in 1 .. n - 1 : i + 1 \in 1 .. n /\ i + 1 # 1 /\ 1 \in 1 .. n
    BY <1>3
  <2>2. \A i \in 1 .. n - 1 : q[i + 1] # q[1] /\ q[i + 1] \in PageId
    BY <1>6, <2>1
  <2> QED BY <1>6, <2>1, <2>2
<1>8. Chained(e, d.pages[head].next, n - 1, rest)
  <2>1. \A i, j \in 1 .. n - 1 : rest[i] = rest[j] => i = j
    <3> SUFFICES ASSUME NEW i \in 1 .. n - 1, NEW j \in 1 .. n - 1, rest[i] = rest[j]
                 PROVE  i = j
      OBVIOUS
    <3>1. i + 1 = j + 1
      BY <1>6, <1>7
    <3> QED BY <3>1
  <2>2. d.pages[head].next = IF n - 1 = 0 THEN NoPage ELSE rest[1]
    <3>1. 1 \in 1 .. n /\ (n = 1 <=> n - 1 = 0) /\ (n # 1 => 1 \in 1 .. n - 1)
      BY <1>3
    <3> QED BY <1>6, <3>1
  <2>3. \A i \in 1 .. n - 1 :
           e.pages[rest[i]].next = IF i = n - 1 THEN NoPage ELSE rest[i + 1]
    <3> SUFFICES ASSUME NEW i \in 1 .. n - 1
                 PROVE  e.pages[rest[i]].next = IF i = n - 1 THEN NoPage ELSE rest[i + 1]
      OBVIOUS
    <3>1. e.pages[rest[i]].next = d.pages[q[i + 1]].next
      BY <1>1, <1>7
    <3>2. d.pages[q[i + 1]].next = IF i + 1 = n THEN NoPage ELSE q[(i + 1) + 1]
      BY <1>6, <1>7
    <3>3. (i + 1 = n <=> i = n - 1) /\ (i # n - 1 => i + 1 \in 1 .. n - 1)
      BY <1>3
    <3> QED BY <3>1, <3>2, <3>3
  <2> HIDE DEF rest
  <2> QED BY <1>7, <2>1, <2>2, <2>3 DEF Chained
<1>9. {rest[i] : i \in 1 .. n - 1} = WithRoom(e)
  <2>1. WithRoom(e) = WithRoom(d) \ {head}
    BY <1>1, <1>2 DEF WithRoom
  <2>2. \A i \in 1 .. n : i = 1 \/ (i - 1 \in 1 .. n - 1 /\ q[i] = rest[i - 1])
    BY <1>3
  <2>3. \A i \in 1 .. n : q[i] = head \/ q[i] \in {rest[j] : j \in 1 .. n - 1}
    BY <1>6, <2>2
  <2> HIDE DEF rest
  <2> QED BY <1>5, <1>7, <2>1, <2>3
<1> HIDE DEF rest
<1> QED BY <1>3, <1>4, <1>7, <1>8, <1>9 DEF Exact

(* A page that had no room is chained before the head. *)
LEMMA PagePushed ==
    ASSUME NEW d, NEW e, NEW id, NEW page, PageSet(d, e, id, page),
           NEW head, NEW n, Exact(d, head, n), Balanced(page), page.next = head,
           FreeSlots(page) # {}, FreeSlots(d.pages[id]) = {}
    PROVE  Exact(e, id, n + 1)
<1>1. /\ d \in FileLayout /\ e.count = d.count /\ id \in 1 .. d.count /\ e.pages[id] = page
      /\ \A p \in PageId : p # id => e.pages[p] = d.pages[p]
  BY DEF PageSet
<1>2. \A p \in 1 .. d.count : p \in PageId
  BY <1>1, CountedPages
<1>3. n \in Nat /\ n + 1 \in Nat
  BY DEF Exact
<1>4. \A p \in 1 .. e.count : Balanced(e.pages[p])
  BY <1>1, <1>2 DEF Exact
<1>5. PICK q \in [1 .. n -> PageId] :
         Chained(d, head, n, q) /\ {q[i] : i \in 1 .. n} = WithRoom(d)
  BY DEF Exact
<1>6. /\ \A i, j \in 1 .. n : q[i] = q[j] => i = j
      /\ head = IF n = 0 THEN NoPage ELSE q[1]
      /\ \A i \in 1 .. n : d.pages[q[i]].next = IF i = n THEN NoPage ELSE q[i + 1]
  BY <1>5 DEF Chained
<1>7. \A i \in 1 .. n : q[i] # id /\ q[i] \in PageId
  BY <1>5 DEF WithRoom
<1> DEFINE longer == [i \in 1 .. n + 1 |-> IF i = 1 THEN id ELSE q[i - 1]]
<1>8. /\ longer \in [1 .. n + 1 -> PageId]
      /\ longer[1] = id
      /\ \A i \in 1 .. n + 1 : i # 1 => i - 1 \in 1 .. n /\ longer[i] = q[i - 1]
      /\ \A i \in 1 .. n : i + 1 \in 1 .. n + 1 /\ longer[i + 1] = q[i]
  <2>1. \A i \in 1 .. n + 1 : i # 1 => i - 1 \in 1 .. n
    BY <1>3
  <2>2. id \in PageId
    BY <1>1, <1>2
  <2>3. \A i \in 1 .. n + 1 : longer[i] \in PageId
    BY <1>7, <2>1, <2>2
  <2>4. longer \in [1 .. n + 1 -> PageId]
    BY <2>3
  <2>5. \A i \in 1 .. n : i + 1 \in 1 .. n + 1 /\ i + 1 # 1 /\ (i + 1) - 1 = i
    BY <1>3
  <2>6. 1 \in 1 .. n + 1
    BY <1>3
  <2> QED BY <2>1, <2>4, <2>5, <2>6
<1> HIDE DEF longer
<1>9. Chained(e, id, n + 1, longer)
  <2>1. \A i, j \in 1 .. n + 1 : longer[i] = longer[j] => i = j
    <3> SUFFICES ASSUME NEW i \in 1 .. n + 1, NEW j \in 1 .. n + 1, longer[i] = longer[j]
                 PROVE  i = j
      OBVIOUS
    <3>1. CASE i = 1 \/ j = 1
      BY <1>7, <1>8, <3>1
    <3>2. CASE i # 1 /\ j # 1
      <4>1. i - 1 = j - 1
        BY <1>6, <1>8, <3>2
      <4> QED BY <4>1
    <3> QED BY <3>1, <3>2
  <2>2. n + 1 # 0
    BY <1>3
  <2>3. ASSUME NEW i \in 1 .. n + 1
        PROVE  e.pages[longer[i]].next = IF i = n + 1 THEN NoPage ELSE longer[i + 1]
    <3>1. CASE i = 1
      <4>1. e.pages[longer[i]].next = head
        BY <1>1, <1>8, <3>1
      <4>2. n # 0 => 1 \in 1 .. n /\ longer[i + 1] = q[1] /\ i # n + 1
        BY <1>3, <1>8, <3>1
      <4>3. n = 0 => i = n + 1
        BY <3>1
      <4> QED BY <1>6, <4>1, <4>2, <4>3
    <3>2. CASE i # 1
      <4>1. i - 1 \in 1 .. n /\ longer[i] = q[i - 1] /\ q[i - 1] # id /\ q[i - 1] \in PageId
        BY <1>7, <1>8, <3>2
      <4>2. e.pages[longer[i]].next = IF i - 1 = n THEN NoPage ELSE q[(i - 1) + 1]
        BY <1>1, <1>6, <4>1
      <4>3. (i - 1 = n <=> i = n + 1) /\ (i - 1) + 1 = i
            /\ (i # n + 1 => i \in 1 .. n /\ longer[i + 1] = q[i])
        BY <1>3, <1>8
      <4> QED BY <4>2, <4>3
    <3> QED BY <3>1, <3>2
  <2> QED BY <1>8, <2>1, <2>2, <2>3 DEF Chained
<1>10. {longer[i] : i \in 1 .. n + 1} = WithRoom(e)
  <2>1. WithRoom(e) = WithRoom(d) \cup {id}
    BY <1>1, <1>2 DEF WithRoom
  <2>2. 1 \in 1 .. n + 1
    BY <1>3
  <2> QED BY <1>5, <1>8, <2>1, <2>2
<1> QED BY <1>3, <1>4, <1>8, <1>9, <1>10 DEF Exact

(* A page is added to a file none of whose pages has room. *)
LEMMA PageAppended ==
    ASSUME NEW d \in FileLayout, NEW n, Exact(d, NoPage, n), NEW id, id = d.count + 1,
           id \in PageId, NEW e, e.count = id,
           \A p \in 1 .. d.count : e.pages[p] = d.pages[p],
           Balanced(e.pages[id]), e.pages[id].next = NoPage
    PROVE  /\ n = 0
           /\ FreeSlots(e.pages[id]) = {} => Exact(e, NoPage, 0)
           /\ FreeSlots(e.pages[id]) # {} => Exact(e, id, 1)
<1>1. n = 0 /\ WithRoom(d) = {}
  BY HeadOfTheList
<1>2. \A p \in 1 .. e.count : p = id \/ p \in 1 .. d.count
  BY CountedPages
<1>3. \A p \in 1 .. e.count : Balanced(e.pages[p])
  BY <1>2 DEF Exact
<1>4. \A p \in 1 .. d.count : FreeSlots(e.pages[p]) = {}
  BY <1>1 DEF WithRoom
<1>5. id \in 1 .. e.count
  BY CountedPages
<1>6. ASSUME FreeSlots(e.pages[id]) = {} PROVE Exact(e, NoPage, 0)
  <2>1. WithRoom(e) = {}
    BY <1>2, <1>4, <1>6 DEF WithRoom
  <2> DEFINE q == [i \in 1 .. 0 |-> id]
  <2>2. Chained(e, NoPage, 0, q) /\ {q[i] : i \in 1 .. 0} = {} /\ q \in [1 .. 0 -> PageId]
    BY DEF Chained
  <2> HIDE DEF q
  <2> QED BY <1>3, <2>1, <2>2 DEF Exact
<1>7. ASSUME FreeSlots(e.pages[id]) # {} PROVE Exact(e, id, 1)
  <2>1. WithRoom(e) = {id}
    BY <1>2, <1>4, <1>5, <1>7 DEF WithRoom
  <2> DEFINE q == [i \in 1 .. 1 |-> id]
  <2>2. q \in [1 .. 1 -> PageId] /\ \A i \in 1 .. 1 : i = 1 /\ q[i] = id
    OBVIOUS
  <2> HIDE DEF q
  <2>3. Chained(e, id, 1, q)
    BY <2>2 DEF Chained
  <2>4. {q[i] : i \in 1 .. 1} = {id}
    BY <2>2
  <2> QED BY <1>3, <2>1, <2>2, <2>3, <2>4 DEF Exact
<1> QED BY <1>1, <1>6, <1>7

(* The constructor accepts a file whose list is exact and whose meta area counts
   its records. *)
LEMMA ExactFileOpens ==
    ASSUME NEW d \in FileLayout, UniqueKeys(d), Exact(d, d.meta.head, d.meta.freePages),
           Cardinality(LiveSlots(d)) = d.meta.live
    PROVE  Opens(d)
<1> DEFINE n == d.meta.freePages
<1>1. PICK q \in [1 .. n -> PageId] :
         Chained(d, d.meta.head, n, q) /\ {q[i] : i \in 1 .. n} = WithRoom(d)
  BY DEF Exact
<1>2. n \in Nat /\ \A p \in 1 .. d.count : Balanced(d.pages[p])
  BY DEF Exact
<1>3. Listed(d, d.meta.head) = WithRoom(d) /\ ListLength(d, d.meta.head) = n
  <2>1. Chained(d, d.meta.head, n, q) /\ n \in Nat
    BY <1>1, <1>2
  <2> HIDE DEF n
  <2>2. Listed(d, d.meta.head) = {q[i] : i \in 1 .. n} /\ ListLength(d, d.meta.head) = n
    BY <2>1, ListIsEnumerated
  <2> QED BY <1>1, <2>2 DEF n
<1>4. \A p \in WithRoom(d) : p <= d.count /\ d.pages[p].free # 0
  BY <1>2, NoBytesIsNoRoom, CountedPages DEF WithRoom
<1>5. Cardinality(DOMAIN KeysOnDisk(d)) = d.meta.live
  BY KeysOnDiskAre
<1> QED BY <1>3, <1>4, <1>5 DEF Opens

-------------------------------------------------------------------------------
(* Every step keeps the list, in memory or on its way to the file. *)
LEMMA ListInitially == Init => ListInv
<1> SUFFICES ASSUME Init PROVE ListInv
  OBVIOUS
<1>1. Flushed = disk /\ buffer.kind = "none"
  BY DEF Init, Flushed, Nothing
<1>2. disk \in FileLayout /\ disk.count = 0
  BY RowsInitially DEF RowsInv, TypeOK, Init
<1> DEFINE q == [i \in 1 .. 0 |-> 0]
<1>3. q \in [1 .. 0 -> PageId] /\ {q[i] : i \in 1 .. 0} = {}
  OBVIOUS
<1>4. Chained(disk, NoPage, 0, q)
  BY <1>3 DEF Chained
<1>5. WithRoom(disk) = {} /\ \A p \in 1 .. disk.count : Balanced(disk.pages[p])
  BY <1>2 DEF WithRoom
<1> HIDE DEF q
<1>6. Exact(disk, NoPage, 0)
  BY <1>3, <1>4, <1>5 DEF Exact
<1> HIDE DEF Flushed
<1> QED BY <1>1, <1>6 DEF Init, ListInv, Idle, Meta, Nothing

(* The first step of an operation on a page of the file: the file is as the list
   of before describes it, and the list in memory as the page to write makes it. *)
LEMMA ListStarts ==
    ASSUME RowsInv, ListInv, Idle, disk' = Flushed, buffer' = Nothing,
           faults' = faults, open' = open, op' # Nothing, mem'.live = mem.live,
           faults = 0 => Exact([Flushed EXCEPT !.pages[op'.rid.page] = op'.page],
                               mem'.head, mem'.freePages),
           op'.kind = "update" => mem' = mem
    PROVE  ListInv'
<1> SUFFICES ASSUME faults = 0 PROVE ListInv'
  BY DEF ListInv
<1>1. Exact(Flushed, mem.head, mem.freePages) /\ Flushed.meta = Meta(mem)
  BY DEF ListInv
<1>2. Flushed' = Flushed
  BY FileIsFlushed
<1>3. open /\ open' /\ buffer'.kind = "none" /\ ~(Idle')
  BY DEF Idle, Nothing
<1> HIDE DEF Flushed
<1>4. Exact(AfterStore, mem.head, mem.freePages)'
  BY <1>2 DEF AfterStore
<1>5. ExactOnDisk' /\ disk'.meta.live = mem'.live
  BY <1>1 DEF ExactOnDisk, Meta
<1>6. op'.kind = "update" => disk'.meta = Meta(mem')
  BY <1>1
<1>7. ListInv'
  BY <1>3, <1>4, <1>5, <1>6 DEF ListInv
<1> QED BY <1>7

LEMMA InsertInChainedKeepsList ==
    ASSUME RowsInv, ListInv, NEW r \in Record, InsertInChained(r)
    PROVE  ListInv'
<1> DEFINE d == Flushed
           page == d.pages[mem.head]
           e == [d EXCEPT !.pages[mem.head] = op'.page]
<1>1. /\ Idle /\ mem.head # NoPage /\ FreeSlots(page) # {}
      /\ FillAndUnlink(mem, mem.head, page, r)
      /\ disk' = d /\ buffer' = Nothing /\ open' = open /\ faults' = faults
  BY DEF InsertInChained
<1>2. mem \in Memories /\ mem.count = d.count /\ mem.head <= d.count /\ d \in FileLayout
  BY <1>1, FileRead, IdleMemory DEF Idle
<1> HIDE DEF Flushed
<1>3. mem.head \in 1 .. d.count /\ mem.head \in PageId /\ page \in PageLayout
  <2>1. mem.head \in 1 .. d.count
    BY <1>1, <1>2, HeapAssumption DEF Memories, NoPage
  <2> QED BY <1>2, <2>1, CountedPages
<1>4. Filled(mem, mem.head, page, r, mem', op')
  <2>1. mem' = MemoryFilled(mem, mem.head, page, r) /\ op' = OpFilled(mem, mem.head, page, r)
    BY <1>1 DEF FillAndUnlink, MemoryFilled, OpFilled
  <2> HIDE DEF page
  <2> QED BY <1>1, <1>2, <1>3, <2>1, FillEffect
<1>5. /\ op'.rid.page = mem.head /\ op'.kind = "insert" /\ op' # Nothing
      /\ mem'.live = mem.live
      /\ FreeSlots(op'.page) = FreeSlots(page) \ {op'.rid.slot}
      /\ Balanced(page) => Balanced(op'.page)
  <2>1. /\ op'.rid.page = mem.head /\ op'.kind = "insert"
        /\ op'.rid.slot \in FreeSlots(page)
        /\ op'.page.rows = [page.rows EXCEPT ![op'.rid.slot] = r]
        /\ op'.page.free = page.free - SlotSize
        /\ mem' = [mem EXCEPT !.head = mem'.head, !.freePages = mem'.freePages]
    BY <1>4 DEF Filled
  <2>2. op' # Nothing
    BY <2>1 DEF Nothing
  <2>3. mem'.live = mem.live
    BY <1>2, <2>1 DEF Memories
  <2> HIDE DEF page
  <2> QED BY <1>3, <2>1, <2>2, <2>3, SlotFilled
<1>6. ASSUME faults = 0
      PROVE  Exact(e, mem'.head, mem'.freePages)
  <2>1. Exact(d, mem.head, mem.freePages) /\ Balanced(page)
    BY <1>1, <1>3, <1>6 DEF ListInv, Exact
  <2>2. Balanced(op'.page)
    BY <1>5, <2>1
  <2>3. PageSet(d, e, mem.head, op'.page)
    BY <1>2, <1>3 DEF PageSet, FileLayout
  <2> HIDE DEF e
  <2>4. CASE op'.page.free = 0
    <3>1. FreeSlots(op'.page) = {}
      BY <2>2, <2>4, NoBytesIsNoRoom
    <3>2. Exact(e, page.next, mem.freePages - 1)
      BY <2>1, <2>2, <2>3, <3>1, PagePopped
    <3> QED BY <1>4, <2>4, <3>2 DEF Filled
  <2>5. CASE op'.page.free # 0
    <3>1. FreeSlots(op'.page) # {}
      BY <2>2, <2>5, NoBytesIsNoRoom
    <3>2. op'.page.next = page.next /\ mem'.head = mem.head /\ mem'.freePages = mem.freePages
      BY <1>4, <2>5 DEF Filled
    <3>3. Exact(e, mem.head, mem.freePages)
      BY <1>1, <2>1, <2>2, <2>3, <3>1, <3>2, PageKept, SMTT(30)
    <3> QED BY <3>2, <3>3
  <2> QED BY <2>4, <2>5
<1> QED BY <1>1, <1>5, <1>6, ListStarts

LEMMA StartRemoveKeepsList ==
    ASSUME RowsInv, ListInv, NEW k \in Key, StartRemove(k)
    PROVE  ListInv'
<1> DEFINE d == Flushed
           rid == mem.keys[k]
           page == d.pages[rid.page]
           rows == [page.rows EXCEPT ![rid.slot] = Free]
           emptied == [page EXCEPT !.rows[rid.slot] = Free, !.free = @ + SlotSize]
           left == IF page.free = 0 THEN [emptied EXCEPT !.next = mem.head] ELSE emptied
           e == [d EXCEPT !.pages[rid.page] = left]
<1>1. /\ Idle /\ k \in DOMAIN mem.keys
      /\ disk' = d /\ buffer' = Nothing /\ open' = open /\ faults' = faults
      /\ op' = [kind |-> "remove", row |-> page.rows[rid.slot], rid |-> rid, page |-> left]
      /\ mem' = IF page.free = 0
                THEN [mem EXCEPT !.head = rid.page, !.freePages = @ + 1] ELSE mem
  BY SMTT(30) DEF StartRemove
<1>2. /\ rid.page \in PageId /\ rid.slot \in Slot /\ rid.page \in 1 .. d.count
      /\ page \in PageLayout
      /\ page.rows[rid.slot] \in Record
  <2>1. open /\ k \in DOMAIN mem.keys
    BY <1>1, Zenon DEF Idle
  <2> QED BY <2>1, KeyIsAtItsRid, Zenon
<1>3. mem \in Memories /\ d \in FileLayout
  BY <1>1, FileRead, IdleMemory DEF Idle
<1> HIDE DEF Flushed
<1>4. /\ left.rows = rows /\ left.free = page.free + SlotSize
      /\ page.free = 0 => left.next = mem.head
      /\ page.free # 0 => left.next = page.next
  <2>1. rows \in [Slot -> Record \cup {Free}] /\ page.free + SlotSize \in Int
    BY <1>2, HeapAssumption DEF PageLayout
  <2>2. emptied = [page EXCEPT !.rows = rows, !.free = page.free + SlotSize]
    BY <1>2 DEF PageLayout
  <2> HIDE DEF rows, emptied, page
  <2>3. emptied \in PageLayout /\ emptied.rows = rows /\ emptied.next = page.next
        /\ emptied.free = page.free + SlotSize
    BY <1>2, <2>1, <2>2, ZenonT(30) DEF PageLayout
  <2> QED BY <2>3, SMTT(30) DEF PageLayout
<1>5. page.rows[rid.slot] # Free
  BY <1>2, FreeIsNoRecord
<1> HIDE DEF left
<1>6. /\ FreeSlots(left) = FreeSlots(page) \cup {rid.slot}
      /\ Balanced(page) => Balanced(left)
  <2> HIDE DEF page
  <2> QED BY <1>2, <1>4, <1>5, SlotFreed DEF rows
<1>7. /\ op' # Nothing /\ op'.rid = rid /\ op'.page = left /\ op'.kind = "remove"
      /\ mem'.live = mem.live
  BY <1>1, <1>3 DEF Nothing, Memories
<1>8. ASSUME faults = 0
      PROVE  Exact(e, mem'.head, mem'.freePages)
  <2>1. Exact(d, mem.head, mem.freePages) /\ Balanced(page)
    BY <1>1, <1>2, <1>8 DEF ListInv, Exact
  <2>2. Balanced(left) /\ FreeSlots(left) # {}
    BY <1>6, <2>1
  <2>3. PageSet(d, e, rid.page, left)
    BY <1>2, <1>3 DEF PageSet, FileLayout
  <2>4. page.free = 0 <=> FreeSlots(page) = {}
    BY <2>1, NoBytesIsNoRoom
  <2> HIDE DEF e
  <2>5. CASE page.free = 0
    <3>1. Exact(e, rid.page, mem.freePages + 1)
      BY <1>4, <2>1, <2>2, <2>3, <2>4, <2>5, PagePushed
    <3>2. mem'.head = rid.page /\ mem'.freePages = mem.freePages + 1
      BY <1>1, <1>3, <2>5 DEF Memories
    <3> QED BY <3>1, <3>2, SMTT(30)
  <2>6. CASE page.free # 0
    <3>1. Exact(e, mem.head, mem.freePages)
      <4>1. left.next = d.pages[rid.page].next /\ (FreeSlots(left) = {} <=> FreeSlots(d.pages[rid.page]) = {})
        BY <1>4, <2>2, <2>4, <2>6, Zenon
      <4> QED BY ONLY <2>1, <2>2, <2>3, <4>1, PageKept, ZenonT(30)
    <3> QED BY <1>1, <2>6, <3>1, Zenon
  <2> QED BY <2>5, <2>6, Zenon
<1> QED
  <2>1. [Flushed EXCEPT !.pages[op'.rid.page] = op'.page] = e
    BY <1>7, Zenon
  <2>2. op'.kind = "update" => mem' = mem
    BY <1>7
  <2> HIDE DEF e, d, rid, page
  <2>3. disk' = Flushed
    BY <1>1, Zenon DEF d
  <2>4. faults = 0 => Exact([Flushed EXCEPT !.pages[op'.rid.page] = op'.page], mem'.head, mem'.freePages)
    BY ONLY <1>8, <2>1, Zenon
  <2> QED BY <1>1, <1>7, <2>2, <2>3, <2>4, ListStarts, ZenonT(30)

LEMMA StartUpdateKeepsList ==
    ASSUME RowsInv, ListInv, NEW r \in Record, StartUpdate(r)
    PROVE  ListInv'
<1> DEFINE d == Flushed
           rid == mem.keys[r.key]
           page == d.pages[rid.page]
           other == [page EXCEPT !.rows[rid.slot] = r]
           e == [d EXCEPT !.pages[rid.page] = other]
<1>1. /\ Idle /\ r.key \in DOMAIN mem.keys
      /\ disk' = d /\ buffer' = Nothing /\ open' = open /\ faults' = faults
      /\ op' = [kind |-> "update", row |-> r, rid |-> rid, page |-> other]
      /\ mem' = mem
  BY DEF StartUpdate
<1>2. /\ rid.page \in PageId /\ rid.slot \in Slot /\ rid.page \in 1 .. d.count
      /\ page \in PageLayout
      /\ page.rows[rid.slot] \in Record
  BY <1>1, KeyIsAtItsRid, ZenonT(30) DEF Idle
<1>3. d \in FileLayout
  BY FileRead
<1> HIDE DEF Flushed
<1>4. /\ other.rows = [page.rows EXCEPT ![rid.slot] = r]
      /\ other.free = page.free /\ other.next = page.next
  <2> SUFFICES ASSUME NEW was, was = page, NEW s, s = rid.slot, NEW now, now = [was EXCEPT !.rows[s] = r]
               PROVE  now.rows = [was.rows EXCEPT ![s] = r] /\ now.free = was.free /\ now.next = was.next
    OBVIOUS
  <2>1. was \in PageLayout
    BY <1>2, Zenon
  <2> QED BY ONLY <2>1, now = [was EXCEPT !.rows[s] = r] DEF PageLayout
<1>5. page.rows[rid.slot] # Free
  BY <1>2, FreeIsNoRecord
<1> HIDE DEF other
<1>6. FreeSlots(other) = FreeSlots(page) /\ (Balanced(page) => Balanced(other))
  <2> HIDE DEF page
  <2> QED BY <1>2, <1>4, <1>5, SlotRewritten
<1>7. op' # Nothing /\ op'.rid = rid /\ op'.page = other
  BY <1>1 DEF Nothing
<1>8. ASSUME faults = 0
      PROVE  Exact(e, mem.head, mem.freePages)
  <2>1. Exact(d, mem.head, mem.freePages) /\ Balanced(page)
    <3>1. Exact(d, mem.head, mem.freePages)
      BY <1>1, <1>8, Zenon DEF ListInv, d
    <3> QED BY <1>2, <3>1, Zenon DEF Exact
  <2>2. PageSet(d, e, rid.page, other)
    BY <1>2, <1>3 DEF PageSet, FileLayout
  <2> HIDE DEF e
  <2> QED BY <1>4, <1>6, <2>1, <2>2, PageKept, ZenonT(30)
<1> QED BY <1>1, <1>7, <1>8, ListStarts

LEMMA InsertInNewPageKeepsList ==
    ASSUME RowsInv, ListInv, NEW r \in Record, InsertInNewPage(r)
    PROVE  ListInv'
<1> DEFINE id == mem.count + 1
           m == [mem EXCEPT !.count = id, !.head = id, !.freePages = @ + 1]
           d == Flushed
<1>1. /\ Idle /\ mem.head = NoPage /\ mem.count < Pages
      /\ disk' = [d EXCEPT !.pages[id] = BlankPage]
      /\ buffer' = [kind |-> "header", count |-> id]
      /\ FillAndUnlink(m, id, NewPage, r)
      /\ open' = open /\ faults' = faults
  BY DEF InsertInNewPage
<1>2. mem \in Memories /\ mem.count = d.count /\ d \in FileLayout
  BY <1>1, IdleMemory, FileRead DEF Idle
<1> HIDE DEF Flushed
<1>3. id \in PageId /\ id \in 0 .. Pages /\ id = d.count + 1 /\ d.count \in Nat
      /\ \A p \in 1 .. d.count : p \in PageId /\ p # id
  BY <1>1, <1>2, HeapAssumption DEF Memories, PageId
<1>4. m \in Memories /\ m.live = mem.live /\ m.head = id /\ m.freePages = mem.freePages + 1
  <2>1. m = [mem EXCEPT !.count = id, !.head = id, !.freePages = mem.freePages + 1]
    BY <1>2 DEF Memories
  <2>2. \A n \in Int, c \in 0 .. Pages :
           [mem EXCEPT !.count = c, !.head = c, !.freePages = n] \in Memories
    BY <1>2 DEF Memories
  <2>3. mem.freePages + 1 \in Int
    BY <1>2 DEF Memories
  <2>4. m \in Memories
    BY <1>3, <2>1, <2>2, <2>3, ZenonT(30)
  <2> QED BY <1>2, <2>4 DEF Memories
<1>5. /\ NewPage \in PageLayout /\ NewPage.next = NoPage /\ BlankPage \in PageLayout
      /\ FreeSlots(NewPage) = Slot /\ FreeSlots(NewPage) # {} /\ Balanced(NewPage)
  <2>1. /\ NewPage \in PageLayout /\ NewPage.next = NoPage /\ BlankPage \in PageLayout
        /\ NewPage.rows = [s \in Slot |-> Free] /\ NewPage.free = Slots * SlotSize
    BY HeapAssumption DEF BlankPage, NewPage, PageLayout, NoPage
  <2>2. FreeSlots(NewPage) = Slot
    BY <2>1 DEF FreeSlots
  <2>3. Cardinality(Slot) = Slots /\ 1 \in Slot
    BY FS_Interval, HeapAssumption DEF Slot
  <2> QED BY <2>1, <2>2, <2>3, HeapAssumption DEF Balanced
<1>6. Filled(m, id, NewPage, r, mem', op')
  <2>1. mem' = MemoryFilled(m, id, NewPage, r) /\ op' = OpFilled(m, id, NewPage, r)
    BY <1>1 DEF FillAndUnlink, MemoryFilled, OpFilled
  <2> HIDE DEF m, id
  <2> QED BY <1>3, <1>4, <1>5, <2>1, FillEffect
<1> HIDE DEF m, id
<1>7. /\ op' # Nothing /\ op'.kind = "insert" /\ op'.rid.page = id
      /\ mem'.live = mem.live
      /\ Balanced(op'.page) /\ op'.page.next = NoPage
      /\ op'.page.free = 0 => mem'.head = NoPage /\ mem'.freePages = mem.freePages
      /\ op'.page.free # 0 => mem'.head = id /\ mem'.freePages = mem.freePages + 1
  <2>1. /\ op'.kind = "insert" /\ op'.rid.page = id
        /\ op'.rid.slot \in FreeSlots(NewPage)
        /\ op'.page.rows = [NewPage.rows EXCEPT ![op'.rid.slot] = r]
        /\ op'.page.free = NewPage.free - SlotSize
        /\ op'.page.next = NoPage
        /\ mem' = [m EXCEPT !.head = mem'.head, !.freePages = mem'.freePages]
        /\ op'.page.free = 0 => mem'.head = NoPage /\ mem'.freePages = m.freePages - 1
        /\ op'.page.free # 0 => mem'.head = id /\ mem'.freePages = m.freePages
    BY <1>4, <1>5, <1>6 DEF Filled
  <2>2. op' # Nothing
    BY <2>1 DEF Nothing
  <2>3. mem'.live = mem.live
    BY <1>4, <2>1 DEF Memories
  <2>4. Balanced(op'.page)
    BY <1>5, <2>1, SlotFilled
  <2>5. m.freePages - 1 = mem.freePages
    BY <1>2, <1>4 DEF Memories
  <2> QED BY <1>4, <2>1, <2>2, <2>3, <2>4, <2>5
<1>8. /\ disk' \in FileLayout /\ disk'.count = d.count /\ disk'.meta = d.meta
      /\ \A p \in PageId : p # id => disk'.pages[p] = d.pages[p]
  BY <1>1, <1>2, <1>3, <1>5 DEF FileLayout
<1>9. /\ AfterStore'.count = id /\ AfterStore'.pages[id] = op'.page
      /\ \A p \in 1 .. d.count : AfterStore'.pages[p] = d.pages[p]
  <2>1. Flushed' = [disk' EXCEPT !.count = id]
    BY <1>1 DEF Flushed
  <2>2. /\ Flushed' \in FileLayout /\ Flushed'.pages = disk'.pages /\ Flushed'.count = id
    BY <1>3, <1>8, <2>1 DEF FileLayout
  <2>3. AfterStore' = [Flushed' EXCEPT !.pages[id] = op'.page]
    BY <1>7 DEF AfterStore
  <2> QED BY <1>3, <1>8, <2>2, <2>3 DEF FileLayout
<1> SUFFICES ASSUME faults = 0 PROVE ListInv'
  BY <1>1 DEF ListInv
<1>10. Exact(d, mem.head, mem.freePages) /\ d.meta = Meta(mem)
  BY <1>1 DEF ListInv
<1>11. ExactOnDisk' /\ disk'.meta.live = mem'.live
  <2>1. Exact(disk', mem.head, mem.freePages)
    BY <1>2, <1>3, <1>8, <1>10, SameList
  <2>2. disk'.meta.head = mem.head /\ disk'.meta.freePages = mem.freePages
        /\ disk'.meta.live = mem.live
    BY <1>8, <1>10 DEF Meta
  <2> QED BY <1>7, <2>1, <2>2 DEF ExactOnDisk
<1>12. Exact(AfterStore', mem'.head, mem'.freePages)
  <2> DEFINE e == AfterStore'
             n == mem.freePages
  <2>1. /\ e.count = id /\ Balanced(e.pages[id]) /\ e.pages[id].next = NoPage
        /\ e.pages[id] = op'.page
        /\ \A p \in 1 .. d.count : e.pages[p] = d.pages[p]
    BY <1>7, <1>9
  <2>2. Exact(d, NoPage, n)
    BY <1>1, <1>10
  <2> HIDE DEF e, n
  <2>3. /\ n = 0
        /\ FreeSlots(e.pages[id]) = {} => Exact(e, NoPage, 0)
        /\ FreeSlots(e.pages[id]) # {} => Exact(e, id, 1)
    BY <1>2, <1>3, <2>1, <2>2, PageAppended
  <2>4. mem.freePages = 0 /\ n + 1 = 1
    BY <2>3 DEF n
  <2> QED BY <1>7, <2>1, <2>3, <2>4, NoBytesIsNoRoom DEF e
<1>13. open' /\ ~(Idle') /\ buffer'.kind = "header"
  BY <1>1, <1>7 DEF Idle
<1> QED BY <1>7, <1>11, <1>12, <1>13 DEF ListInv

LEMMA FailuresKeepTheList ==
    ASSUME RowsInv, ListInv,
           (\E r \in Record : AllocateFails(r)) \/ StoreFails \/ MetaFails
    PROVE  ListInv'
<1>1. faults' = faults + 1 /\ faults \in Nat
  BY DEF AllocateFails, StoreFails, MetaFails, RowsInv, TypeOK
<1> QED BY <1>1 DEF ListInv

(* The page of the operation is in the file, and the meta area that describes
   the list of memory is in the buffer, or, after an update, in the file already. *)
LEMMA StorePageKeepsList ==
    ASSUME RowsInv, ListInv, StorePage
    PROVE  ListInv'
<1> DEFINE e == AfterStore
<1>1. /\ open /\ op # Nothing /\ disk' = e /\ op' = Nothing
      /\ mem' = [mem EXCEPT !.keys = KeysAfter, !.live = LiveAfter]
      /\ buffer' = IF op.kind = "update" THEN Nothing
                   ELSE [kind |-> "meta", meta |-> Meta([mem EXCEPT !.live = LiveAfter])]
      /\ open' = open /\ faults' = faults
  BY DEF StorePage, Stored, AfterStore
<1> SUFFICES ASSUME faults = 0 PROVE ListInv'
  BY <1>1 DEF ListInv
<1>2. /\ ExactOnDisk /\ buffer.kind # "meta" /\ disk.meta.live = mem.live
      /\ Exact(e, mem.head, mem.freePages)
      /\ op.kind = "update" => disk.meta = Meta(mem)
  BY <1>1 DEF ListInv
<1>3. RowsInv' /\ mem \in Memories /\ op \in Operations
  BY <1>1, StorePageKeepsRows DEF RowsInv, TypeOK
<1>4. disk' \in FileLayout /\ buffer' \in Buffers /\ Flushed' = WriteBack(disk', buffer')
  <2>1. Flushed' = WriteBack(disk', buffer')
    BY DEF Flushed, WriteBack
  <2> QED BY <1>3, <2>1 DEF RowsInv, TypeOK
<1>5. disk'.meta = disk.meta
  <2>1. Flushed.meta = disk.meta
    <3>1. Flushed = WriteBack(disk, buffer) /\ disk \in FileLayout /\ buffer \in Buffers
      BY FileRead
    <3> HIDE DEF Flushed
    <3> QED BY <1>2, <3>1, WriteBackKeepsPages
  <2>2. Flushed \in FileLayout
    BY FileRead
  <2> HIDE DEF Flushed
  <2> QED BY <1>1, <2>1, <2>2 DEF AfterStore, FileLayout
<1> HIDE DEF Flushed, e
<1>6. /\ Flushed' \in FileLayout /\ Flushed'.pages = disk'.pages
      /\ buffer'.kind # "header" => Flushed'.count = disk'.count
      /\ Flushed'.meta = IF buffer'.kind = "meta" THEN buffer'.meta ELSE disk'.meta
  BY <1>4, WriteBackKeepsPages
<1>7. /\ mem'.head = mem.head /\ mem'.freePages = mem.freePages /\ mem'.live = LiveAfter
  BY <1>1, <1>3 DEF Memories
<1>8. CASE op.kind = "update"
  <2>1. buffer'.kind = "none" /\ mem'.live = mem.live
    BY <1>1, <1>7, <1>8 DEF Nothing, LiveAfter
  <2>2. Exact(Flushed', mem'.head, mem'.freePages)
    BY <1>1, <1>2, <1>4, <1>6, <1>7, <2>1, SameList
  <2>3. Flushed'.meta = Meta(mem')
    BY <1>2, <1>5, <1>6, <1>7, <1>8, <2>1 DEF Meta
  <2> QED BY <1>1, <2>1, <2>2, <2>3 DEF ListInv, Idle
<1>9. CASE op.kind # "update"
  <2>1. /\ buffer'.kind = "meta" /\ buffer'.meta = Meta([mem EXCEPT !.live = LiveAfter])
    BY <1>1, <1>9
  <2>2. Exact(Flushed', mem'.head, mem'.freePages)
    BY <1>1, <1>2, <1>4, <1>6, <1>7, <2>1, SameList
  <2>3. Meta(mem') = Meta([mem EXCEPT !.live = LiveAfter])
    BY <1>3, <1>7 DEF Meta, Memories
  <2>4. disk'.meta.live # buffer'.meta.live
    <3>1. mem.live \in Nat /\ LiveAfter # mem.live
      BY <1>3, <1>9 DEF Memories, Operations, LiveAfter
    <3> QED BY <1>2, <1>5, <1>7, <2>1, <2>3, <3>1 DEF Meta
  <2> QED BY <1>1, <1>6, <2>1, <2>2, <2>3, <2>4 DEF ListInv, Idle
<1> QED BY <1>8, <1>9

LEMMA ReadPagesKeepsList ==
    ASSUME RowsInv, ListInv, ReadPages
    PROVE  ListInv'
<1>1. /\ Idle /\ disk' = Flushed /\ buffer' = Nothing
      /\ mem' = mem /\ op' = op /\ open' = open /\ faults' = faults
  BY DEF ReadPages
<1>2. Flushed' = Flushed /\ buffer'.kind = "none"
  BY <1>1, FileIsFlushed DEF Nothing
<1> HIDE DEF Flushed
<1> QED BY <1>1, <1>2 DEF ListInv, Idle

LEMMA FlushKeepsList ==
    ASSUME RowsInv, ListInv, Flush
    PROVE  ListInv'
<1>1. /\ Idle /\ disk' = [Flushed EXCEPT !.meta = Meta(mem), !.count = mem.count]
      /\ buffer' = Nothing
      /\ mem' = mem /\ op' = op /\ open' = open /\ faults' = faults
  BY DEF Flush
<1>2. /\ Flushed \in FileLayout /\ mem.count = Flushed.count
      /\ Flushed' = disk' /\ buffer'.kind = "none"
  <2>1. Flushed' = disk' /\ buffer'.kind = "none"
    BY <1>1 DEF Flushed, Nothing
  <2> QED BY <1>1, <2>1, FileRead, IdleMemory DEF Idle
<1> HIDE DEF Flushed
<1>3. disk'.count = Flushed.count /\ disk'.pages = Flushed.pages /\ disk'.meta = Meta(mem)
  BY <1>1, <1>2 DEF FileLayout
<1> SUFFICES ASSUME faults = 0 PROVE ListInv'
  BY <1>1 DEF ListInv
<1>4. Exact(Flushed, mem.head, mem.freePages)
  BY <1>1 DEF ListInv
<1>5. Exact(Flushed', mem'.head, mem'.freePages)
  BY <1>1, <1>2, <1>3, <1>4, SameList
<1> QED BY <1>1, <1>2, <1>3, <1>5 DEF ListInv, Idle

LEMMA CloseKeepsList ==
    ASSUME RowsInv, ListInv, Close
    PROVE  ListInv'
<1>1. /\ Idle /\ disk' = [Flushed EXCEPT !.count = mem.count]
      /\ buffer' = Nothing /\ open' = FALSE /\ op' = op /\ faults' = faults
  BY DEF Close, OnClose
<1>2. Flushed \in FileLayout /\ mem.count = Flushed.count
  BY <1>1, FileRead, IdleMemory DEF Idle
<1> HIDE DEF Flushed
<1>3. disk' = Flushed
  BY <1>1, <1>2 DEF FileLayout
<1> SUFFICES ASSUME faults = 0 PROVE ListInv'
  BY <1>1 DEF ListInv
<1>4. Exact(Flushed, mem.head, mem.freePages) /\ Flushed.meta = Meta(mem)
  BY <1>1 DEF ListInv
<1>5. ExactOnDisk'
  BY <1>3, <1>4 DEF ExactOnDisk, Meta
<1> QED BY <1>1, <1>5 DEF ListInv, Idle, Nothing

(* What a crash loses is a count of pages in the middle of an operation, and the
   meta area of a call that has ended: then the constructor rejects the file. *)
LEMMA CrashKeepsList ==
    ASSUME RowsInv, ListInv, Crash
    PROVE  ListInv'
<1>1. open /\ disk' = disk /\ buffer' = Nothing /\ open' = FALSE /\ faults' = faults
  BY DEF Crash
<1> SUFFICES ASSUME faults = 0, Cardinality(LiveSlots(disk)) = disk.meta.live
             PROVE  ExactOnDisk
  BY <1>1 DEF ListInv, Idle, Nothing, ExactOnDisk
<1>2. CASE op # Nothing
  BY <1>1, <1>2 DEF ListInv
<1>3. CASE op = Nothing
  <2>1. Exact(Flushed, mem.head, mem.freePages) /\ Flushed.meta = Meta(mem)
        /\ buffer.kind # "header"
    BY <1>1, <1>3 DEF ListInv, Idle
  <2>2. mem.live = Cardinality(LiveSlots(disk))
    BY <1>1, FileRead, IdleMemory
  <2>3. buffer.kind = "meta" => disk.meta.live # buffer.meta.live
    BY DEF ListInv
  <2>4. buffer.kind = "meta" => Flushed.meta = buffer.meta
    <3>1. Flushed = WriteBack(disk, buffer) /\ disk \in FileLayout /\ buffer \in Buffers
      BY FileRead
    <3> HIDE DEF Flushed
    <3> QED BY <3>1, WriteBackKeepsPages
  <2>5. buffer.kind # "meta" => Flushed = disk
    BY <2>1 DEF Flushed
  <2> HIDE DEF Flushed
  <2>6. Flushed = disk
    BY <2>1, <2>2, <2>3, <2>4, <2>5 DEF Meta
  <2> QED BY <2>1, <2>6 DEF ExactOnDisk, Meta
<1> QED BY <1>2, <1>3

LEMMA OpenKeepsList ==
    ASSUME RowsInv, ListInv, Open
    PROVE  ListInv'
<1>1. /\ ~open /\ Opens(disk) /\ open' = TRUE
      /\ mem' = [count |-> disk.count, live |-> disk.meta.live, head |-> disk.meta.head,
                 freePages |-> disk.meta.freePages, keys |-> KeysOnDisk(disk)]
      /\ disk' = disk /\ buffer' = buffer /\ op' = op /\ faults' = faults
  BY DEF Open
<1>2. buffer = Nothing /\ op = Nothing /\ disk \in FileLayout /\ UniqueKeys(disk)
  BY <1>1 DEF RowsInv, TypeOK
<1>3. Flushed' = disk /\ buffer'.kind = "none"
  BY <1>1, <1>2 DEF Flushed, Nothing
<1> HIDE DEF Flushed
<1> SUFFICES ASSUME faults = 0 PROVE ListInv'
  BY <1>1 DEF ListInv
<1>4. Cardinality(LiveSlots(disk)) = disk.meta.live
  <2>1. Cardinality(DOMAIN KeysOnDisk(disk)) = disk.meta.live
    BY <1>1 DEF Opens
  <2> QED BY <1>2, <2>1, KeysOnDiskAre
<1>5. ExactOnDisk
  BY <1>1, <1>4 DEF ListInv
<1>6. Exact(Flushed', mem'.head, mem'.freePages)
  BY <1>1, <1>3, <1>5 DEF ExactOnDisk
<1>7. Flushed'.meta = Meta(mem')
  BY <1>1, <1>2, <1>3 DEF Meta, FileLayout, MetaArea
<1> QED BY <1>1, <1>2, <1>3, <1>6, <1>7 DEF ListInv, Idle

LEMMA ListStep == RowsInv /\ ListInv /\ [Next]_vars => ListInv'
<1> SUFFICES ASSUME RowsInv, ListInv, [Next]_vars PROVE ListInv'
  OBVIOUS
<1>1. ASSUME NEW r \in Record, InsertInChained(r) PROVE ListInv'
  BY <1>1, InsertInChainedKeepsList
<1>2. ASSUME NEW r \in Record, InsertInNewPage(r) PROVE ListInv'
  BY <1>2, InsertInNewPageKeepsList
<1>3. ASSUME NEW r \in Record, StartUpdate(r) PROVE ListInv'
  BY <1>3, StartUpdateKeepsList
<1>4. ASSUME NEW k \in Key, StartRemove(k) PROVE ListInv'
  BY <1>4, StartRemoveKeepsList
<1>5. ASSUME (\E r \in Record : AllocateFails(r)) \/ StoreFails \/ MetaFails PROVE ListInv'
  BY <1>5, FailuresKeepTheList
<1>6. CASE StorePage
  BY <1>6, StorePageKeepsList
<1>7. CASE ReadPages
  BY <1>7, ReadPagesKeepsList
<1>8. CASE Flush
  BY <1>8, FlushKeepsList
<1>9. CASE Close
  BY <1>9, CloseKeepsList
<1>10. CASE Crash
  BY <1>10, CrashKeepsList
<1>11. CASE Open
  BY <1>11, OpenKeepsList
<1>12. CASE UNCHANGED vars
  <2>1. disk' = disk /\ buffer' = buffer /\ mem' = mem /\ op' = op /\ open' = open
        /\ faults' = faults
    BY <1>12 DEF vars
  <2>2. Flushed' = Flushed /\ AfterStore' = AfterStore
    BY <2>1 DEF Flushed, AfterStore
  <2> HIDE DEF Flushed, AfterStore
  <2> QED BY <2>1, <2>2 DEF ListInv, Idle, ExactOnDisk
<1> QED BY <1>1, <1>2, <1>3, <1>4, <1>5, <1>6, <1>7, <1>8, <1>9, <1>10, <1>11, <1>12 DEF Next

LEMMA HeapInvariant == Spec => []HeapInv
<1>1. Init => HeapInv
  BY RowsInitially, ListInitially DEF HeapInv
<1>2. HeapInv /\ [Next]_vars => HeapInv'
  BY RowsStep, ListStep DEF HeapInv
<1> QED BY <1>1, <1>2, PTL DEF Spec

-------------------------------------------------------------------------------
(* The free list of a file between two calls visits the pages with a free slot
   and no other, each once, and its length is the counter of the meta area, while
   no write has failed: what insert, remove and check_free_list rely on
   (heap_file.cpp, heap_file.hpp:26). *)
THEOREM FreeListIsExact == Spec => []FreeListExact
<1>1. ASSUME HeapInv PROVE FreeListExact
  <2> SUFFICES ASSUME Idle, faults = 0
               PROVE  /\ Listed(Flushed, mem.head) =
                           {p \in 1 .. mem.count : FreeSlots(Flushed.pages[p]) # {}}
                      /\ ListLength(Flushed, mem.head) = mem.freePages
    BY DEF FreeListExact
  <2>1. Exact(Flushed, mem.head, mem.freePages) /\ mem.count = Flushed.count
    BY <1>1, IdleMemory DEF HeapInv, ListInv, Idle
  <2> DEFINE d == Flushed
             n == mem.freePages
  <2> HIDE DEF Flushed
  <2>2. PICK q \in [1 .. n -> PageId] :
           Chained(d, mem.head, n, q) /\ {q[i] : i \in 1 .. n} = WithRoom(d)
    BY <2>1 DEF Exact
  <2>3. Chained(d, mem.head, n, q) /\ n \in Nat /\ {q[i] : i \in 1 .. n} = WithRoom(d)
    BY <2>1, <2>2 DEF Exact
  <2> HIDE DEF d, n
  <2>4. Listed(d, mem.head) = {q[i] : i \in 1 .. n} /\ ListLength(d, mem.head) = n
    BY <2>3, ListIsEnumerated
  <2> QED BY <2>1, <2>3, <2>4 DEF d, n, WithRoom
<1> QED BY <1>1, HeapInvariant, PTL

(* A file that the destructor leaves is one that the constructor accepts, with no
   flush before and while no write has failed: the header is written and the meta
   area of the last call is at worst in the buffer of the stream, which the close
   writes (heap_file.cpp, disk_manager.cpp). *)
THEOREM AnOrderlyCloseOpens == Spec => []OrderlyCloseOpens
<1>1. ASSUME HeapInv PROVE OrderlyCloseOpens
  <2> SUFFICES ASSUME Idle, faults = 0 PROVE Opens(OnClose)
    BY DEF OrderlyCloseOpens
  <2>1. /\ RowsInv /\ open
        /\ Exact(Flushed, mem.head, mem.freePages) /\ Flushed.meta = Meta(mem)
    BY <1>1 DEF HeapInv, ListInv, Idle
  <2>2. /\ Flushed \in FileLayout /\ UniqueKeys(Flushed) /\ mem.count = Flushed.count
        /\ mem.live = Cardinality(LiveSlots(Flushed))
    BY <2>1, FileRead, IdleMemory
  <2> HIDE DEF Flushed
  <2>3. OnClose = Flushed
    BY <2>2 DEF OnClose, FileLayout
  <2>4. /\ Exact(Flushed, Flushed.meta.head, Flushed.meta.freePages)
        /\ Cardinality(LiveSlots(Flushed)) = Flushed.meta.live
    BY <2>1, <2>2 DEF Meta
  <2> QED BY <2>2, <2>3, <2>4, ExactFileOpens
<1> QED BY <1>1, HeapInvariant, PTL

(* If the process dies while no write has failed, the file it leaves is accepted by
   the constructor exactly when no meta area waits in the buffer of the stream, and
   then holds the keys of the calls that ended: a call that has not written its
   page is undone, and one that has, and saved or not its meta area, makes the
   count of records wrong (heap_file.cpp:107, 184-189). *)
THEOREM ACrashUndoesOrIsRefused == Spec => []CrashUndoesOrIsRefused
<1>1. ASSUME HeapInv PROVE CrashUndoesOrIsRefused
  <2> SUFFICES ASSUME open, faults = 0
               PROVE  IF buffer.kind = "meta" THEN ~Opens(disk)
                      ELSE Opens(disk) /\ KeysOnDisk(disk) = mem.keys
    BY DEF CrashUndoesOrIsRefused
  <2>1. /\ disk \in FileLayout /\ UniqueKeys(disk)
        /\ KeysOnDisk(disk) = mem.keys
        /\ Cardinality(LiveSlots(disk)) = mem.live
    <3>1. RowsInv
      BY <1>1 DEF HeapInv
    <3> QED BY <3>1, FileRead, IdleMemory
  <2>2. CASE op # Nothing
    <3>1. ExactOnDisk /\ disk.meta.live = mem.live /\ buffer.kind # "meta"
      BY <1>1, <2>2 DEF HeapInv, ListInv
    <3> QED BY <2>1, <3>1, ExactFileOpens DEF ExactOnDisk
  <2>3. CASE op = Nothing
    <3>1. /\ Exact(Flushed, mem.head, mem.freePages) /\ Flushed.meta = Meta(mem)
          /\ buffer.kind # "header"
      BY <1>1, <2>3 DEF HeapInv, ListInv, Idle
    <3>2. CASE buffer.kind = "meta"
      <4>1. Flushed.meta = buffer.meta /\ disk.meta.live # buffer.meta.live
        <5>1. Flushed = WriteBack(disk, buffer) /\ disk \in FileLayout /\ buffer \in Buffers
          BY <1>1, FileRead DEF HeapInv
        <5>2. disk.meta.live # buffer.meta.live
          BY <1>1, <3>2 DEF HeapInv, ListInv
        <5> HIDE DEF Flushed
        <5> QED BY <3>2, <5>1, <5>2, WriteBackKeepsPages
      <4> HIDE DEF Flushed
      <4>2. disk.meta.live # mem.live
        BY <3>1, <4>1 DEF Meta
      <4>3. Cardinality(DOMAIN KeysOnDisk(disk)) = mem.live
        BY <2>1, KeysOnDiskAre
      <4> QED BY <3>2, <4>2, <4>3 DEF Opens
    <3>3. CASE buffer.kind # "meta"
      <4>1. Flushed = disk
        BY <3>1, <3>3 DEF Flushed
      <4> HIDE DEF Flushed
      <4>2. Exact(disk, disk.meta.head, disk.meta.freePages) /\ disk.meta.live = mem.live
        BY <3>1, <4>1 DEF Meta
      <4> QED BY <2>1, <3>3, <4>2, ExactFileOpens
    <3> QED BY <3>2, <3>3
  <2> QED BY <2>2, <2>3
<1> QED BY <1>1, HeapInvariant, PTL

-------------------------------------------------------------------------------
(* The catalog. *)

(* The statements that create a file, and take their change back if they cannot. *)
Creations == {"create_table", "create_index"}

(* A statement is about a table or about an index, and only a creation opens a
   file, builds or takes anything back. *)
CallIsWellFormed ==
    call # NoCall =>
        /\ IF call.op \in {"create_table", "drop_table"} THEN call.on \in Table ELSE call.on \in Index
        /\ call.at \in {"open", "revert"} => call.op \in Creations
        /\ call.at = "build" => call.op = "create_index"

(* What is being created is in the catalog and not open yet; an index that is
   being built has its table open. *)
CreatedIsClosed ==
    call # NoCall =>
        /\ call.op = "create_table" /\ call.at \in {"save", "open"} =>
              call.on \in memory.tables \ handles
        /\ call.op = "create_index" /\ call.at \in {"save", "open", "build"} =>
              call.on \in memory.indexes \ handles
        /\ call.at = "build" => TableOf[call.on] \in handles

(* The files to delete are out of the catalog: in memory before the save, in the
   catalog file after it. *)
DoomedIsUnlisted ==
    call # NoCall =>
        /\ call.at = "save" /\ call.op \notin Creations => call.todo \cap NamesIn(memory) = {}
        /\ call.at = "revert" /\ call.op = "create_index" => call.todo \cap NamesIn(memory) = {}
        /\ call.at = "remove" => call.todo \cap NamesIn(saved) = {}

(* Their sum is bounded by CatalogTypeOK; a proof needs each of them. *)
Counters == failed \in Nat /\ crashed \in Nat

(* The inductive invariant. *)
CatalogInv ==
    /\ CatalogTypeOK /\ Counters
    /\ CallIsWellFormed /\ CreatedIsClosed /\ DoomedIsUnlisted
    /\ HandlesAreSafe

-------------------------------------------------------------------------------
(* What the operations of the catalog do to its two lists. *)
LEMMA TableChanges ==
    ASSUME NEW c \in Catalog, NEW t \in Table
    PROVE  /\ WithTable(c, t) \in Catalog
           /\ WithTable(c, t).tables = c.tables \cup {t}
           /\ WithTable(c, t).indexes = c.indexes
           /\ SansTable(c, t) \in Catalog
           /\ SansTable(c, t).tables = c.tables \ {t}
           /\ SansTable(c, t).indexes = c.indexes \ IndexesOf(t)
<1>1. /\ WithTable(c, t) \in Catalog
      /\ WithTable(c, t).tables = c.tables \cup {t}
      /\ WithTable(c, t).indexes = c.indexes
  BY DEF Catalog, WithTable
<1>2. /\ SansTable(c, t) \in Catalog
      /\ SansTable(c, t).tables = c.tables \ {t}
      /\ SansTable(c, t).indexes = c.indexes \ IndexesOf(t)
  BY DEF Catalog, SansTable
<1> QED
  BY <1>1, <1>2

(* The same for the entries of indexes. *)
LEMMA IndexChanges ==
    ASSUME NEW c \in Catalog, NEW i \in Index
    PROVE  /\ WithIndex(c, i) \in Catalog
           /\ WithIndex(c, i).tables = c.tables
           /\ WithIndex(c, i).indexes = c.indexes \cup {i}
           /\ SansIndex(c, i) \in Catalog
           /\ SansIndex(c, i).tables = c.tables
           /\ SansIndex(c, i).indexes = c.indexes \ {i}
BY DEF Catalog, WithIndex, SansIndex

(* A statement keeps its shape from one of its steps to the next. *)
LEMMA WellFormedStep ==
    ASSUME CatalogTypeOK, CallIsWellFormed, CatalogNext
    PROVE  CallIsWellFormed'
<1> USE IndexesAssumption DEF CallIsWellFormed, CatalogTypeOK, Calls, Stage, NoCall, Creations
<1>1. ASSUME NEW t \in Table,
             \/ CreateTable(t) \/ DropTable(t) \/ OpenTable(t) \/ CloseTable(t)
             \/ \E r \in DataRow : InsertRow(t, r) \/ DeleteRow(t, r)
      PROVE  CallIsWellFormed'
  BY <1>1 DEF CreateTable, DropTable, OpenTable, CloseTable, InsertRow, DeleteRow, ReadyForDml, Begins
<1>2. ASSUME NEW i \in Index, CreateIndex(i) \/ DropIndex(i) \/ OpenIndex(i)
      PROVE  CallIsWellFormed'
  BY <1>2 DEF CreateIndex, DropIndex, OpenIndex, Begins
<1>3. CASE SaveWorks \/ SaveFails
  BY <1>3 DEF SaveWorks, SaveFails, AfterSave, At, Goes, Ends
<1>4. CASE NewTable \/ NewTableRefused \/ NewTableFails
  BY <1>4 DEF NewTable, NewTableRefused, NewTableFails, At, Goes, Ends
<1>5. CASE NewIndex \/ NewIndexFails \/ BuildFails \/ BuildEnds \/ \E r \in DataRow : BuildRow(r)
  BY <1>5, ZenonT(60) DEF NewIndex, NewIndexFails, BuildFails, BuildEnds, BuildRow, IndexRaises, At, Ends
<1>6. CASE RemoveFails \/ RemoveEnds \/ \E x \in Table \cup Index : RemoveFile(x)
  BY <1>6 DEF RemoveFails, RemoveEnds, RemoveFile, At, Ends
<1>7. CASE Reopen \/ ProcessDies
  BY <1>7 DEF Reopen, ProcessDies, Reload
<1> QED
  BY <1>1, <1>2, <1>3, <1>4, <1>5, <1>6, <1>7 DEF CatalogNext

(* The files to delete leave the catalog before the save that comes first. *)
LEMMA DoomedStep ==
    ASSUME CatalogTypeOK, CallIsWellFormed, DoomedIsUnlisted, CatalogNext
    PROVE  DoomedIsUnlisted'
<1> USE IndexesAssumption DEF DoomedIsUnlisted, CallIsWellFormed, CatalogTypeOK, Calls, Stage, NoCall, Creations
<1>a. memory \in Catalog /\ memory.tables \subseteq Table /\ memory.indexes \subseteq Index
  BY DEF Catalog
<1>1. ASSUME NEW t \in Table, DropTable(t)
      PROVE  DoomedIsUnlisted'
  <2>1. FilesOf(t) \cap NamesIn(SansTable(memory, t)) = {}
    BY <1>a, TableChanges DEF FilesOf, NamesIn, IndexesOf
  <2> QED
    BY <1>1, <2>1 DEF DropTable, Begins, NamesIn
<1>2. ASSUME NEW i \in Index, DropIndex(i)
      PROVE  DoomedIsUnlisted'
  <2>1. memory'.tables = memory.tables /\ memory'.indexes = memory.indexes \ {i}
    BY <1>a, <1>2, IndexChanges DEF DropIndex
  <2> QED
    BY <1>a, <1>2, <2>1 DEF DropIndex, Begins, NamesIn
<1>3. ASSUME NEW t \in Table,
             \/ CreateTable(t) \/ OpenTable(t) \/ CloseTable(t)
             \/ \E r \in DataRow : InsertRow(t, r) \/ DeleteRow(t, r)
      PROVE  DoomedIsUnlisted'
  BY <1>3 DEF CreateTable, OpenTable, CloseTable, InsertRow, DeleteRow, ReadyForDml, Begins
<1>4. ASSUME NEW i \in Index, CreateIndex(i) \/ OpenIndex(i)
      PROVE  DoomedIsUnlisted'
  BY <1>4 DEF CreateIndex, OpenIndex, Begins
<1>5. CASE SaveWorks
  BY <1>5 DEF SaveWorks, AfterSave, At, Goes, Ends, NamesIn
<1>6. CASE SaveFails \/ BuildEnds \/ RemoveFails \/ RemoveEnds \/ NewTable
  BY <1>6 DEF SaveFails, BuildEnds, RemoveFails, RemoveEnds, NewTable, Ends
<1>7. CASE NewTableRefused \/ NewTableFails
  BY <1>7 DEF NewTableRefused, NewTableFails, At, Goes, Ends
<1>8. ASSUME call.on \in Index, At("open") \/ At("build"), call.op = "create_index", IndexRaises
      PROVE  DoomedIsUnlisted'
  <2>1. call.on \in Vector =>
          memory'.tables = memory.tables /\ memory'.indexes = memory.indexes \ {call.on}
    BY <1>a, <1>8, IndexChanges DEF IndexRaises
  <2>2. CASE call.on \in Vector
    <3>1. call'.todo = {call.on} /\ call'.at = "revert"
      BY <1>8, <2>2 DEF IndexRaises, At
    <3> QED
      BY <1>a, <1>8, <2>1, <2>2, <3>1 DEF NamesIn
  <2>3. CASE call.on \notin Vector
    BY <1>8, <2>3 DEF IndexRaises, Ends
  <2> QED
    BY <2>2, <2>3
<1>9. CASE NewIndex
  BY <1>8, <1>9, ZenonT(30) DEF NewIndex, At, Ends
<1>10. CASE NewIndexFails \/ BuildFails
  BY <1>8, <1>10 DEF NewIndexFails, BuildFails, At
<1>11. ASSUME NEW r \in DataRow, BuildRow(r)
       PROVE  DoomedIsUnlisted'
  BY <1>11 DEF BuildRow, At
<1>12. ASSUME NEW x \in Table \cup Index, RemoveFile(x)
       PROVE  DoomedIsUnlisted'
  BY <1>12 DEF RemoveFile, At, NamesIn
<1>13. CASE Reopen \/ ProcessDies
  BY <1>13 DEF Reopen, ProcessDies, Reload
<1> QED
  BY <1>1, <1>2, <1>3, <1>4, <1>5, <1>6, <1>7, <1>9, <1>10, <1>11, <1>12, <1>13 DEF CatalogNext

(* What is opened is in the catalog, with its table, and what leaves the catalog was
   closed before. *)
LEMMA HandlesStep ==
    ASSUME CatalogTypeOK, CallIsWellFormed, CreatedIsClosed, HandlesAreSafe, CatalogNext
    PROVE  CreatedIsClosed' /\ HandlesAreSafe'
<1> DEFINE Goal == CreatedIsClosed' /\ HandlesAreSafe'
<1> USE IndexesAssumption
    DEF CreatedIsClosed, HandlesAreSafe, CallIsWellFormed, CatalogTypeOK, Calls, Stage, NoCall,
        Creations, NamesIn
<1>a. memory \in Catalog /\ memory.tables \subseteq Table /\ memory.indexes \subseteq Index
  BY DEF Catalog
<1>b. saved \in Catalog /\ saved.tables \subseteq Table /\ saved.indexes \subseteq Index
  BY DEF Catalog
<1>1. ASSUME NEW t \in Table, CreateTable(t) PROVE Goal
  <2>1. memory'.tables = memory.tables \cup {t} /\ memory'.indexes = memory.indexes
    BY <1>a, <1>1, TableChanges DEF CreateTable
  <2> QED
    BY <1>a, <1>1, <2>1 DEF CreateTable, Begins
<1>2. ASSUME NEW t \in Table, DropTable(t) PROVE Goal
  <2>1. memory'.tables = memory.tables \ {t} /\ memory'.indexes = memory.indexes \ IndexesOf(t)
    BY <1>a, <1>2, TableChanges DEF DropTable
  <2> QED
    BY <1>a, <1>2, <2>1 DEF DropTable, Begins, WithoutHandles, IndexesOf
<1>3. ASSUME NEW i \in Index, CreateIndex(i) PROVE Goal
  <2>1. memory'.tables = memory.tables /\ memory'.indexes = memory.indexes \cup {i}
    BY <1>a, <1>3, IndexChanges DEF CreateIndex
  <2> QED
    BY <1>a, <1>3, <2>1 DEF CreateIndex, Begins
<1>4. ASSUME NEW i \in Index, DropIndex(i) PROVE Goal
  <2>1. memory'.tables = memory.tables /\ memory'.indexes = memory.indexes \ {i}
    BY <1>a, <1>4, IndexChanges DEF DropIndex
  <2> QED
    BY <1>a, <1>4, <2>1 DEF DropIndex, Begins
<1>5. CASE SaveWorks
  BY <1>5 DEF SaveWorks, AfterSave, At, Goes, Ends
<1>6. CASE SaveFails
  <2>1. CASE call.at = "save" /\ call.op = "create_table"
    <3>1. call.on \in Table /\ call.on \notin handles
      BY <1>6, <2>1 DEF SaveFails, At
    <3>2. /\ memory'.tables = memory.tables \ {call.on}
          /\ memory'.indexes = memory.indexes \ IndexesOf(call.on)
      BY <1>a, <1>6, <2>1, <3>1, TableChanges, SMTT(60) DEF SaveFails
    <3> QED
      BY <1>a, <1>6, <3>1, <3>2 DEF SaveFails, Ends, IndexesOf
  <2> QED
    BY <1>6, <2>1 DEF SaveFails, Ends
<1>7. CASE NewTable
  BY <1>a, <1>7 DEF NewTable, At, Ends
<1>8. CASE NewTableRefused \/ NewTableFails
  <2>1. call.on \in Table /\ call.on \notin handles
    BY <1>8 DEF NewTableRefused, NewTableFails, At
  <2>2. /\ memory'.tables = memory.tables \ {call.on}
        /\ memory'.indexes = memory.indexes \ IndexesOf(call.on)
    <3>1. memory' = SansTable(memory, call.on)
      BY <1>8 DEF NewTableRefused, NewTableFails
    <3> QED
      BY <1>a, <2>1, <3>1, TableChanges, SMTT(30)
  <2>3. call'.at = "revert"
    BY <1>8 DEF NewTableRefused, NewTableFails, At, Goes
  <2> QED
    BY <1>a, <1>8, <2>1, <2>2, <2>3 DEF NewTableRefused, NewTableFails, IndexesOf
<1>9. ASSUME At("open") \/ At("build"), call.op = "create_index", IndexRaises,
             handles' = handles \/ handles' = handles \cup {TableOf[call.on]}
      PROVE  Goal
  <2>1. call.on \in memory.indexes \ handles /\ TableOf[call.on] \in memory.tables
    BY <1>9 DEF At
  <2>2. CASE call.on \in Vector
    <3>1. memory'.tables = memory.tables /\ memory'.indexes = memory.indexes \ {call.on}
      BY <1>a, <1>9, <2>1, <2>2, IndexChanges DEF IndexRaises
    <3>2. call'.at = "revert"
      BY <1>9, <2>2 DEF IndexRaises, At
    <3> QED
      BY <1>a, <1>9, <2>1, <3>1, <3>2
  <2>3. CASE call.on \notin Vector
    BY <1>a, <1>9, <2>1, <2>3 DEF IndexRaises, Ends
  <2> QED
    BY <2>2, <2>3
<1>10. CASE NewIndex
  <2>1. CASE handles' = handles /\ Ends /\ UNCHANGED memory
    BY <2>1 DEF Ends
  <2>2. CASE /\ handles' = handles \cup {TableOf[call.on]}
             /\ call' = [call EXCEPT !.at = "build", !.todo = AfterOpen(TableOf[call.on]).rows]
             /\ UNCHANGED memory
    BY <1>a, <1>10, <2>2 DEF NewIndex, At
  <2>3. CASE handles' = handles \cup {TableOf[call.on]} /\ IndexRaises
    BY <1>9, <1>10, <2>3 DEF NewIndex
  <2> QED
    BY <1>10, <2>1, <2>2, <2>3 DEF NewIndex
<1>11. CASE NewIndexFails \/ BuildFails
  BY <1>9, <1>11 DEF NewIndexFails, BuildFails, At
<1>12. ASSUME NEW r \in DataRow, BuildRow(r) PROVE Goal
  BY <1>12 DEF BuildRow, At
<1>13. CASE BuildEnds
  BY <1>a, <1>13 DEF BuildEnds, At, Ends
<1>14. ASSUME NEW x \in Table \cup Index, RemoveFile(x) PROVE Goal
  BY <1>14 DEF RemoveFile, At
<1>15. CASE RemoveFails \/ RemoveEnds
  BY <1>15 DEF RemoveFails, RemoveEnds, Ends
<1>16. ASSUME NEW t \in Table, OpenTable(t) \/ CloseTable(t) PROVE Goal
  BY <1>a, <1>16 DEF OpenTable, CloseTable, WithoutHandles, IndexesOf
<1>17. ASSUME NEW i \in Index, OpenIndex(i) PROVE Goal
  BY <1>a, <1>17 DEF OpenIndex
<1>18. ASSUME NEW t \in Table, NEW r \in DataRow, InsertRow(t, r) \/ DeleteRow(t, r) PROVE Goal
  <2>1. handles' = handles \cup {t} \cup (IndexesOf(t) \cap memory.indexes) /\ UNCHANGED <<memory, call>>
    BY <1>18 DEF InsertRow, DeleteRow, Writes, FilesOf
  <2>2. t \in memory.tables /\ call = NoCall
    BY <1>18 DEF InsertRow, DeleteRow, ReadyForDml
  <2> QED
    BY <1>a, <2>1, <2>2 DEF IndexesOf
<1>19. CASE Reopen \/ ProcessDies
  BY <1>b, <1>19 DEF Reopen, ProcessDies, Reload
<1> QED
  BY <1>1, <1>2, <1>3, <1>4, <1>5, <1>6, <1>7, <1>8, <1>9, <1>10, <1>11, <1>12, <1>13,
     <1>14, <1>15, <1>16, <1>17, <1>18, <1>19 DEF CatalogNext

-------------------------------------------------------------------------------
(* Opening a file and building it leave a file. *)
LEMMA FilesStayFiles ==
    /\ Absent \in FileState /\ Torn \in FileState /\ Blank \in FileState
    /\ \A rows \in SUBSET DataRow : Built(rows) \in FileState
BY DEF FileState, Absent, Torn, Blank, Built

(* What is on disk after a file is opened is a file. *)
LEMMA OpenedFile ==
    ASSUME CatalogTypeOK, NEW x \in Table \cup Index
    PROVE  AfterOpen(x) \in FileState /\ AfterOpen(x).rows \in SUBSET DataRow
BY DEF CatalogTypeOK, AfterOpen, FileState, Blank, Built

(* The two catalogs list an index only with its table. *)
LEMMA CatalogsStep ==
    ASSUME CatalogTypeOK, CallIsWellFormed, CatalogNext
    PROVE  /\ memory' \in Catalog /\ saved' \in Catalog
           /\ \A c \in {memory', saved'} : \A i \in c.indexes : TableOf[i] \in c.tables
<1> DEFINE Sound(c) == c \in Catalog /\ \A i \in c.indexes : TableOf[i] \in c.tables
<1>a. Sound(memory) /\ Sound(saved)
  BY DEF CatalogTypeOK
<1>b. ASSUME NEW t \in Table
      PROVE  Sound(SansTable(memory, t)) /\ Sound(WithTable(memory, t))
  BY <1>a, TableChanges DEF IndexesOf, Catalog
<1>c. ASSUME NEW i \in Index, TableOf[i] \in memory.tables
      PROVE  Sound(WithIndex(memory, i))
  BY <1>a, <1>c, IndexChanges
<1>d. ASSUME NEW i \in Index
      PROVE  Sound(SansIndex(memory, i))
  BY <1>a, IndexChanges
<1> SUFFICES Sound(memory') /\ Sound(saved')
  OBVIOUS
<1> HIDE DEF Sound
<1>1. ASSUME NEW t \in Table, CreateTable(t) \/ DropTable(t)
      PROVE  Sound(memory') /\ Sound(saved')
  BY <1>a, <1>b, <1>1 DEF CreateTable, DropTable
<1>2. ASSUME NEW i \in Index, CreateIndex(i) \/ DropIndex(i)
      PROVE  Sound(memory') /\ Sound(saved')
  BY <1>a, <1>c, <1>d, <1>2 DEF CreateIndex, DropIndex
<1>3. CASE SaveWorks
  BY <1>a, <1>3 DEF SaveWorks
<1>4. CASE SaveFails \/ NewTableRefused \/ NewTableFails
  <2>1. UNCHANGED memory \/ (call.on \in Table /\ memory' = SansTable(memory, call.on))
    BY <1>4 DEF SaveFails, NewTableRefused, NewTableFails, CallIsWellFormed, At
  <2> QED
    BY <1>a, <1>b, <1>4, <2>1 DEF SaveFails, NewTableRefused, NewTableFails
<1>5. CASE NewIndex \/ NewIndexFails \/ BuildFails
  <2>1. UNCHANGED memory \/ (call.on \in Index /\ memory' = SansIndex(memory, call.on))
    BY <1>5 DEF NewIndex, NewIndexFails, BuildFails, IndexRaises, CallIsWellFormed, At
  <2> QED
    BY <1>a, <1>d, <1>5, <2>1 DEF NewIndex, NewIndexFails, BuildFails
<1>6. CASE Reopen \/ ProcessDies
  BY <1>a, <1>6 DEF Reopen, ProcessDies, Reload
<1>7. CASE UNCHANGED <<memory, saved>>
  BY <1>a, <1>7
<1> QED
  BY <1>1, <1>2, <1>3, <1>4, <1>5, <1>6, <1>7
  DEF CatalogNext, NewTable, BuildEnds, BuildRow, RemoveFile, RemoveFails, RemoveEnds,
      OpenTable, CloseTable, OpenIndex, InsertRow, DeleteRow

(* Every file stays a file. *)
LEMMA FilesStep ==
    ASSUME CatalogTypeOK, CallIsWellFormed, CatalogNext
    PROVE  files' \in [Table \cup Index -> FileState]
<1> USE DEF CatalogTypeOK
<1>a. ASSUME NEW i \in Index PROVE TableOf[i] \in Table
  BY <1>a, IndexesAssumption
<1>b. Absent \in FileState /\ Torn \in FileState /\ Blank \in FileState /\ Built({}) \in FileState
  BY FilesStayFiles
<1>1. CASE NewTable \/ NewTableFails
  BY <1>b, <1>1 DEF NewTable, NewTableFails
<1>2. CASE NewIndex
  <2>1. call.on \in Index /\ TableOf[call.on] \in Table
    BY <1>a, <1>2 DEF NewIndex, CallIsWellFormed, At
  <2>2. AfterOpen(TableOf[call.on]) \in FileState /\ AfterOpen(call.on) \in FileState
    BY <2>1, OpenedFile
  <2>3. UNCHANGED files
        \/ \E f \in FileState : files' = [files EXCEPT ![TableOf[call.on]] = AfterOpen(TableOf[call.on]),
                                                 ![call.on] = f]
    BY <1>b, <1>2, <2>1, <2>2 DEF NewIndex
  <2> QED
    BY <2>1, <2>2, <2>3
<1>3. CASE NewIndexFails
  <2>1. call.on \in Index /\ TableOf[call.on] \in Table
    BY <1>a, <1>3 DEF NewIndexFails, CallIsWellFormed, At
  <2>2. AfterOpen(TableOf[call.on]) \in FileState
    BY <2>1, OpenedFile
  <2>3. \E f \in FileState : files' = [files EXCEPT ![TableOf[call.on]] = AfterOpen(TableOf[call.on]),
                                             ![call.on] = f]
    BY <1>b, <1>3, <2>1 DEF NewIndexFails
  <2> QED
    BY <2>1, <2>2, <2>3
<1>4. ASSUME NEW r \in DataRow, BuildRow(r)
      PROVE  files' \in [Table \cup Index -> FileState]
  BY <1>4, ZenonT(30) DEF BuildRow, FileState
<1>5. ASSUME NEW x \in Table \cup Index, RemoveFile(x)
      PROVE  files' \in [Table \cup Index -> FileState]
  BY <1>5, FilesStayFiles DEF RemoveFile
<1>6. ASSUME NEW t \in Table, OpenTable(t)
      PROVE  files' \in [Table \cup Index -> FileState]
  BY <1>6, OpenedFile DEF OpenTable
<1>7. ASSUME NEW i \in Index, OpenIndex(i)
      PROVE  files' \in [Table \cup Index -> FileState]
  BY <1>a, <1>7, OpenedFile DEF OpenIndex
<1>8. ASSUME NEW t \in Table, NEW r \in DataRow, InsertRow(t, r) \/ DeleteRow(t, r)
      PROVE  files' \in [Table \cup Index -> FileState]
  <2>1. \A x \in Table \cup Index :
           /\ Built(AfterOpen(x).rows \cup {r}) \in FileState
           /\ Built(AfterOpen(x).rows \ {r}) \in FileState
    BY FilesStayFiles, OpenedFile
  <2> QED
    BY <1>8, <2>1, ZenonT(30) DEF InsertRow, DeleteRow
<1>9. CASE UNCHANGED files
  BY <1>9
<1> QED
  BY <1>1, <1>2, <1>3, <1>4, <1>5, <1>6, <1>7, <1>8, <1>9
  DEF CatalogNext, CreateTable, DropTable, CreateIndex, DropIndex, SaveWorks, SaveFails, NewTableRefused,
      BuildFails, BuildEnds, RemoveFails, RemoveEnds, CloseTable, Reopen, ProcessDies, Reload

(* A statement works on a list of files, or of rows while it builds. *)
LEMMA CallStep ==
    ASSUME CatalogTypeOK, CallIsWellFormed, CatalogNext
    PROVE  call' = NoCall \/ call' \in [op : Calls, on : Table \cup Index, at : Stage,
                                       todo : (SUBSET (Table \cup Index)) \cup (SUBSET DataRow)]
<1> DEFINE Todo == (SUBSET (Table \cup Index)) \cup (SUBSET DataRow)
           Call == [op : Calls, on : Table \cup Index, at : Stage, todo : Todo]
           Goal == call' = NoCall \/ call' \in Call
<1> SUFFICES Goal
  OBVIOUS
<1>a. call = NoCall \/ call \in Call
  BY DEF CatalogTypeOK
<1>b. \A c \in Call : \A at \in Stage, todo \in Todo :
         /\ [c EXCEPT !.at = at] \in Call
         /\ [c EXCEPT !.todo = todo] \in Call
         /\ [c EXCEPT !.at = at, !.todo = todo] \in Call
  BY ZenonT(30)
<1>e. {} \in Todo
  OBVIOUS
<1>s. {"save", "open", "build", "revert", "remove"} \subseteq Stage
  BY DEF Stage
<1>c. ASSUME NEW verb \in Calls, NEW x \in Table \cup Index, NEW todo \in Todo,
             Begins(verb, x, todo)
      PROVE  Goal
  BY <1>c DEF Begins, Stage
<1>1. ASSUME NEW t \in Table, CreateTable(t) \/ DropTable(t)
      PROVE  Goal
  BY <1>c, <1>1 DEF CreateTable, DropTable, FilesOf, IndexesOf, Calls
<1>2. ASSUME NEW i \in Index, CreateIndex(i) \/ DropIndex(i)
      PROVE  Goal
  BY <1>c, <1>2 DEF CreateIndex, DropIndex, Calls
<1>r. ASSUME call # NoCall
      PROVE  {call.on} \in Todo
  BY <1>a, <1>r
<1>t. ASSUME call # NoCall
      PROVE  \A x : call.todo \ {x} \in Todo
  BY <1>a, <1>t
<1> HIDE DEF Call, Todo
<1>3. CASE SaveWorks
  <2>1. call \in Call
    BY <1>a, <1>3 DEF SaveWorks, At
  <2>2. Ends \/ \E at \in Stage : Goes(at)
    BY <1>3, <1>s DEF SaveWorks, AfterSave
  <2> QED
    BY <1>b, <1>e, <2>1, <2>2, ZenonT(30) DEF Goes, Ends
<1>4. CASE NewTableRefused \/ NewTableFails
  <2>1. call \in Call /\ Goes("revert")
    BY <1>a, <1>4 DEF NewTableRefused, NewTableFails, At
  <2> QED
    BY <1>b, <1>e, <1>s, <2>1, ZenonT(30) DEF Goes
<1>5. CASE IndexRaises /\ call # NoCall
  <2>1. call \in Call /\ {call.on} \in Todo
    BY <1>a, <1>r, <1>5
  <2>2. Ends \/ call' = [call EXCEPT !.at = "revert", !.todo = {call.on}]
    BY <1>5 DEF IndexRaises
  <2>3. [call EXCEPT !.at = "revert", !.todo = {call.on}] \in Call
    BY <1>b, <1>s, <2>1, ZenonT(30)
  <2> QED
    BY <2>2, <2>3 DEF Ends
<1>6. CASE NewIndex
  <2>1. call \in Call /\ TableOf[call.on] \in Table
    BY <1>a, <1>6, IndexesAssumption DEF NewIndex, CallIsWellFormed, At
  <2>2. AfterOpen(TableOf[call.on]).rows \in Todo
    BY <2>1, OpenedFile DEF Todo
  <2>3. \/ Ends \/ IndexRaises
        \/ call' = [call EXCEPT !.at = "build", !.todo = AfterOpen(TableOf[call.on]).rows]
    BY <1>6 DEF NewIndex
  <2>4. call # NoCall
    BY <1>6 DEF NewIndex, At
  <2>5. [call EXCEPT !.at = "build", !.todo = AfterOpen(TableOf[call.on]).rows] \in Call
    BY <1>b, <1>s, <2>1, <2>2, ZenonT(30)
  <2> QED
    BY <1>5, <2>3, <2>4, <2>5 DEF Ends
<1>7. CASE NewIndexFails \/ BuildFails
  BY <1>5, <1>7 DEF NewIndexFails, BuildFails, At
<1>8. ASSUME NEW x, BuildRow(x) \/ RemoveFile(x)
      PROVE  Goal
  <2>1. call \in Call /\ call' = [call EXCEPT !.todo = call.todo \ {x}]
    BY <1>a, <1>8 DEF BuildRow, RemoveFile, At
  <2>2. call.todo \ {x} \in Todo
    BY <1>t, <1>8 DEF BuildRow, RemoveFile, At
  <2>3. \E at \in Stage : TRUE
    BY <1>s
  <2> QED
    BY <1>b, <2>1, <2>2, <2>3, ZenonT(30)
<1>9. CASE UNCHANGED call \/ Ends
  BY <1>a, <1>9 DEF Ends
<1> HIDE DEF Goal
<1>10. QED
  BY <1>1, <1>2, <1>3, <1>4, <1>6, <1>7, <1>8, <1>9
  DEF CatalogNext, SaveFails, NewTable, BuildEnds, RemoveFails, RemoveEnds, OpenTable, CloseTable,
      OpenIndex, InsertRow, DeleteRow, Reopen, ProcessDies, Reload, Ends, Goal

(* The failures are counted and bounded. *)
LEMMA CountersStep ==
    ASSUME CatalogTypeOK, Counters, CatalogNext
    PROVE  Counters' /\ failed' + crashed' \in 0 .. MaxMishaps
<1> USE IndexesAssumption DEF Counters, CatalogTypeOK
<1>1. ASSUME Fails, UNCHANGED crashed
      PROVE  Counters' /\ failed' + crashed' \in 0 .. MaxMishaps
  BY <1>1 DEF Fails, MayFail
<1>2. CASE ProcessDies
  BY <1>2 DEF ProcessDies, Reload, MayFail
<1>3. CASE UNCHANGED <<failed, crashed>>
  BY <1>3
<1> QED
  BY <1>1, <1>2, <1>3
  DEF CatalogNext, CreateTable, DropTable, CreateIndex, DropIndex, SaveWorks, SaveFails, NewTable, NewTableRefused,
      NewTableFails, NewIndex, NewIndexFails, BuildRow, BuildFails, BuildEnds, RemoveFile, RemoveFails,
      RemoveEnds, OpenTable, OpenIndex, CloseTable, InsertRow, DeleteRow, Reopen, Reload

-------------------------------------------------------------------------------
(* CatalogInv holds at the start and every step of the database keeps it. *)
LEMMA CatalogInvInit == CatalogInit => CatalogInv
BY IndexesAssumption DEF CatalogInit, CatalogInv, CatalogTypeOK, Counters, CallIsWellFormed, CreatedIsClosed,
   DoomedIsUnlisted, HandlesAreSafe, Catalog, FileState, Absent

(* Each part is kept by the lemma of its name; what is open has a type because it
   is listed. *)
LEMMA CatalogInvStep == CatalogInv /\ [CatalogNext]_catalogVars => CatalogInv'
<1> SUFFICES ASSUME CatalogInv, [CatalogNext]_catalogVars
             PROVE  CatalogInv'
  OBVIOUS
<1>1. CASE CatalogNext
  <2>1. CallIsWellFormed' /\ DoomedIsUnlisted' /\ CreatedIsClosed' /\ HandlesAreSafe'
    BY <1>1, WellFormedStep, DoomedStep, HandlesStep DEF CatalogInv
  <2>2. handles' \subseteq Table \cup Index
    BY <1>1, <2>1, CatalogsStep DEF CatalogInv, HandlesAreSafe, NamesIn, Catalog
  <2>3. CatalogTypeOK' /\ Counters'
    BY <1>1, <2>2, CatalogsStep, FilesStep, CallStep, CountersStep DEF CatalogInv, CatalogTypeOK
  <2> QED
    BY <2>1, <2>3 DEF CatalogInv
<1>2. CASE UNCHANGED catalogVars
  BY <1>2 DEF catalogVars, CatalogInv, CatalogTypeOK, Counters, CallIsWellFormed, CreatedIsClosed,
              DoomedIsUnlisted, HandlesAreSafe, NoCall, NamesIn
<1> QED
  BY <1>1, <1>2

(* The inductive invariant of Database and its catalog holds in every state. *)
THEOREM CatalogInvariant == CatalogSpec => []CatalogInv
BY CatalogInvInit, CatalogInvStep, PTL DEF CatalogSpec

(* The catalogs, the files, the handles and the statement in progress keep their
   types, and neither catalog lists an index without its table, whatever fails. *)
THEOREM CatalogTypeCorrect == CatalogSpec => []CatalogTypeOK
<1>1. CatalogInv => CatalogTypeOK
  BY DEF CatalogInv
<1> QED
  BY <1>1, CatalogInvariant, PTL

(* Database never leaves an index open without its table, or anything open that
   the catalog does not list: no handle outlives what it points to. *)
THEOREM CatalogHandlesSafe == CatalogSpec => []HandlesAreSafe
<1>1. CatalogInv => HandlesAreSafe
  BY DEF CatalogInv
<1> QED
  BY <1>1, CatalogInvariant, PTL

(* drop_table, drop_index and the reversions delete a file only after a catalog
   without it was saved: no number of failures and crashes leaves the next start
   with a table or an index whose file was deleted. *)
THEOREM CatalogDeletesAfterSave == CatalogSpec => DeletedAfterUnlisted
<1> DEFINE Deleted(x) == files[x] # Absent /\ files'[x] = Absent
           Kept == \A x \in Table \cup Index : Deleted(x) => x \notin NamesIn(saved)
<1>1. CatalogInv /\ [CatalogNext]_catalogVars => [Kept]_catalogVars
  <2> SUFFICES ASSUME CatalogInv, CatalogNext, NEW x \in Table \cup Index, Deleted(x)
               PROVE  x \notin NamesIn(saved)
    OBVIOUS
  <2> USE DEF CatalogInv, CatalogTypeOK
  <2>a. /\ Torn # Absent /\ \A rows : Built(rows) # Absent
        /\ \A y \in Table \cup Index : AfterOpen(y) # Absent
    BY DEF AfterOpen, Absent, Torn, Blank, Built
  <2>1. CASE \E y \in Table \cup Index : RemoveFile(y)
    BY <2>1 DEF RemoveFile, At, DoomedIsUnlisted
  <2>2. CASE NewTable \/ NewTableFails
    BY <2>2, <2>a DEF NewTable, NewTableFails
  <2>3. CASE NewIndex \/ NewIndexFails
    <3>1. \E f \in {files[call.on], Torn, Built({}), AfterOpen(call.on)} :
             files' = [files EXCEPT ![TableOf[call.on]] = AfterOpen(TableOf[call.on]), ![call.on] = f]
          \/ UNCHANGED files
      BY <2>3 DEF NewIndex, NewIndexFails
    <3>2. call.on \in Index /\ TableOf[call.on] \in Table
      BY <2>3, IndexesAssumption DEF NewIndex, NewIndexFails, CallIsWellFormed, At
    <3> QED
      BY <2>a, <3>1, <3>2
  <2>4. ASSUME NEW r \in DataRow, BuildRow(r) PROVE FALSE
    BY <2>4 DEF BuildRow, FileState, Absent
  <2>5. ASSUME NEW t \in Table, OpenTable(t) PROVE FALSE
    BY <2>5, <2>a DEF OpenTable
  <2>6. ASSUME NEW i \in Index, OpenIndex(i) PROVE FALSE
    BY <2>6, <2>a, IndexesAssumption DEF OpenIndex
  <2>7. ASSUME NEW t \in Table, NEW r \in DataRow, InsertRow(t, r) \/ DeleteRow(t, r) PROVE FALSE
    BY <2>7, <2>a DEF InsertRow, DeleteRow
  <2>8. CASE UNCHANGED files
    BY <2>8
  <2> QED
    BY <2>1, <2>2, <2>3, <2>4, <2>5, <2>6, <2>7, <2>8
    DEF CatalogNext, CreateTable, DropTable, CreateIndex, DropIndex, SaveWorks, SaveFails, NewTableRefused,
        BuildFails, BuildEnds, RemoveFails, RemoveEnds, CloseTable, Reopen, ProcessDies, Reload
<1> QED
  BY <1>1, CatalogInvariant, PTL DEF DeletedAfterUnlisted, CatalogSpec

-------------------------------------------------------------------------------
(* While nothing fails. *)

Making(i) == call # NoCall /\ call.op = "create_index" /\ call.on = i

(* A file is there for what is listed, and for what a DROP has not deleted yet; the
   saved catalog is behind only until the save; an index that opens is a copy of
   its table, and one being built is so with the rows it still lacks. *)
FilesInStep ==
    /\ call # NoCall => call.at # "revert"
    /\ call # NoCall /\ call.at = "remove" => call.op \notin Creations
    /\ call = NoCall \/ call.at # "save" => memory = saved
    /\ \A x \in Table \cup Index :
          files[x] # Absent =>
              \/ x \in NamesIn(memory)
              \/ call # NoCall /\ call.op \notin Creations /\ x \in call.todo
    /\ \A t \in memory.tables : ~Creating(t) => files[t].state = "built"
    /\ \A t \in Table : Creating(t) => files[t] = Absent
    /\ \A i \in memory.indexes :
          ~Making(i) =>
              IF i \in Unsuitable
              THEN files[i].state = "blank"
              ELSE files[i] = Built(files[TableOf[i]].rows)
    /\ \A i \in Index :
          Making(i) =>
              IF call.at = "build"
              THEN /\ i \notin Unsuitable /\ files[i].state = "built"
                   /\ files[i].rows \cup call.todo = files[TableOf[i]].rows
              ELSE files[i] = Absent

(* An index that refuses its file is never open. *)
UnsuitableStayClosed == handles \cap Unsuitable = {}

(* The statements, before they touch a file. *)
LEMMA InStepBeginsTable ==
    ASSUME CatalogInv, FilesInStep, NEW t \in Table, CreateTable(t) \/ DropTable(t)
    PROVE  FilesInStep'
<1> USE IndexesAssumption DEF NamesIn, NoCall, Creations, Creating, Making
<1>a. memory \in Catalog /\ memory.tables \subseteq Table /\ memory.indexes \subseteq Index
  BY DEF CatalogInv, CatalogTypeOK, Catalog
<1>1. CASE CreateTable(t)
  <2>1. memory'.tables = memory.tables \cup {t} /\ memory'.indexes = memory.indexes
    BY <1>a, <1>1, TableChanges DEF CreateTable
  <2> QED BY <1>a, <1>1, <2>1 DEF CreateTable, Begins, FilesInStep
<1>2. CASE DropTable(t)
  <2>1. memory'.tables = memory.tables \ {t} /\ memory'.indexes = memory.indexes \ IndexesOf(t)
    BY <1>a, <1>2, TableChanges DEF DropTable
  <2> QED BY <1>a, <1>2, <2>1 DEF DropTable, Begins, FilesInStep, FilesOf, WithoutHandles
<1> QED BY <1>1, <1>2

LEMMA InStepBeginsIndex ==
    ASSUME CatalogInv, FilesInStep, NEW i \in Index, CreateIndex(i) \/ DropIndex(i)
    PROVE  FilesInStep'
<1> USE IndexesAssumption DEF NamesIn, NoCall, Creations, Creating, Making
<1>a. memory \in Catalog /\ memory.tables \subseteq Table /\ memory.indexes \subseteq Index
  BY DEF CatalogInv, CatalogTypeOK, Catalog
<1>1. CASE CreateIndex(i)
  <2>1. memory'.tables = memory.tables /\ memory'.indexes = memory.indexes \cup {i}
    BY <1>a, <1>1, IndexChanges DEF CreateIndex
  <2> QED BY <1>a, <1>1, <2>1 DEF CreateIndex, Begins, FilesInStep
<1>2. CASE DropIndex(i)
  <2>1. memory'.tables = memory.tables /\ memory'.indexes = memory.indexes \ {i}
    BY <1>a, <1>2, IndexChanges DEF DropIndex
  <2> QED BY <1>a, <1>2, <2>1 DEF DropIndex, Begins, FilesInStep
<1> QED BY <1>1, <1>2

(* Opening a file that is built leaves it as it is. *)
LEMMA OpenOfBuilt ==
    ASSUME NEW x, files[x].state = "built"
    PROVE  AfterOpen(x) = files[x] /\ CanOpen(x)
  BY DEF AfterOpen, CanOpen

(* The steps that work on files. *)
LEMMA InStepFiles ==
    ASSUME CatalogInv, FilesInStep, NewTable \/ NewTableRefused \/ NewIndex \/ BuildEnds
    PROVE  FilesInStep'
<1> USE IndexesAssumption DEF NoCall, Creations, Creating, Making
<1>a. memory \in Catalog /\ memory.tables \subseteq Table /\ memory.indexes \subseteq Index
      /\ files \in [Table \cup Index -> FileState]
  BY DEF CatalogInv, CatalogTypeOK, Catalog
<1>b. \A rows : Built(rows).state = "built" /\ Built(rows).rows = rows /\ Built(rows) # Absent
  BY DEF Built, Absent
<1>c. Absent.rows = {} /\ Blank.state = "blank" /\ Blank # Absent
  BY DEF Absent, Blank
<1>1. CASE NewTable
  <2>1. call.on \in Table /\ call.on \in memory.tables /\ Creating(call.on) /\ files[call.on] = Absent
    BY <1>1 DEF NewTable, At, CatalogInv, CallIsWellFormed, CreatedIsClosed
  <2>2. files' = [files EXCEPT ![call.on] = Built({})] /\ call' = NoCall /\ UNCHANGED <<memory, saved>>
    BY <1>1 DEF NewTable, Ends
  <2>3. files'[call.on] = Built({}) /\ \A x \in Table \cup Index : x # call.on => files'[x] = files[x]
    BY <1>a, <2>1, <2>2
  <2>4. \A i \in Index : ~Making(i)
    BY <2>1
  <2>5. \A i \in memory.indexes \ Unsuitable : files'[i] = Built(files'[TableOf[i]].rows)
    <3>1. \A i \in memory.indexes \ Unsuitable : files[i] = Built(files[TableOf[i]].rows) /\ i # call.on
      BY <1>a, <2>1, <2>4 DEF FilesInStep
    <3>2. \A i \in Index : TableOf[i] \in Table
      OBVIOUS
    <3>3. ASSUME NEW i \in memory.indexes \ Unsuitable
          PROVE  files'[i] = Built(files'[TableOf[i]].rows)
      <4>1. i \in Index /\ i # call.on
        BY <1>a, <3>1
      <4>2. files'[i] = files[i]
        BY <2>3, <4>1
      <4>3. files[i] = Built(files[TableOf[i]].rows) /\ TableOf[i] \in Table
        BY <3>1, <3>2, <4>1
      <4>4. files'[TableOf[i]].rows = files[TableOf[i]].rows
        <5>1. CASE TableOf[i] = call.on
          <6>1. files'[TableOf[i]] = Built({})
            BY ONLY <2>3, <5>1
          <6>2. files[TableOf[i]] = Absent
            BY ONLY <2>1, <5>1
          <6> QED BY ONLY <1>c, <6>1, <6>2 DEF Built
        <5>2. CASE TableOf[i] # call.on
          BY <2>3, <4>3, <5>2
        <5> QED BY <5>1, <5>2
      <4> QED BY <4>2, <4>3, <4>4
    <3> QED BY <3>3
  <2>6. /\ \A i \in memory.indexes \cap Unsuitable : files'[i].state = "blank"
        /\ \A x \in Table \cup Index : files'[x] # Absent => x \in NamesIn(memory)
        /\ \A t \in memory.tables : files'[t].state = "built"
    BY <1>a, <1>b, <2>1, <2>3, <2>4 DEF FilesInStep, NamesIn
  <2>7. memory = saved
    BY <1>1 DEF FilesInStep, NewTable, At
  <2> QED BY <2>2, <2>5, <2>6, <2>7 DEF FilesInStep, NamesIn
<1>2. CASE NewTableRefused
  BY <1>2 DEF NewTableRefused, At, CatalogInv, CallIsWellFormed, FilesInStep
<1>3. CASE BuildEnds
  <2>1. call.on \in Index /\ Making(call.on) /\ call.on \in memory.indexes
        /\ call.at = "build" /\ call.todo = {}
    BY <1>3 DEF BuildEnds, At, CatalogInv, CallIsWellFormed, CreatedIsClosed
  <2>2. files[call.on] = Built(files[TableOf[call.on]].rows) /\ call.on \notin Unsuitable
    BY <1>a, <2>1 DEF FilesInStep, FileState, Built
  <2>3. call' = NoCall /\ UNCHANGED <<memory, saved, files>>
    BY <1>3 DEF BuildEnds, Ends
  <2> QED BY <2>1, <2>2, <2>3 DEF FilesInStep, NamesIn
<1>4. CASE NewIndex
  <2> DEFINE i == call.on
             t == TableOf[i]
  <2>1. /\ i \in Index /\ Making(i) /\ i \in memory.indexes /\ call.at = "open" /\ call \in [op : Calls, on : Table \cup Index, at : Stage,
                                  todo : (SUBSET (Table \cup Index)) \cup (SUBSET DataRow)]
        /\ t \in Table /\ t \in memory.tables /\ t # i /\ ~Creating(t)
    BY <1>4 DEF NewIndex, At, CatalogInv, CallIsWellFormed, CreatedIsClosed, CatalogTypeOK
  <2>2. files[i] = Absent /\ files[t].state = "built" /\ AfterOpen(t) = files[t] /\ CanOpen(t)
    BY <2>1, OpenOfBuilt DEF FilesInStep
  <2>3. AfterOpen(i) = IF i \in Vector \cup Unsuitable THEN Blank ELSE Built({})
    BY <2>2 DEF AfterOpen, Initialises, Absent
  <2>4. CASE i \in Unsuitable
    <3>1. files' = [files EXCEPT ![i] = Blank] /\ call' = NoCall /\ UNCHANGED <<memory, saved>>
      BY <1>4, <1>a, <2>1, <2>2, <2>3, <2>4 DEF NewIndex, CanOpen, Blank, IndexRaises, Ends
    <3> QED BY <1>a, <1>c, <2>1, <2>2, <2>4, <3>1 DEF FilesInStep, NamesIn
  <2>5. CASE i \notin Unsuitable
    <3>1. /\ files' = [files EXCEPT ![i] = Built({})]
          /\ call' = [call EXCEPT !.at = "build", !.todo = files[t].rows]
          /\ UNCHANGED <<memory, saved>>
      BY <1>4, <1>a, <2>1, <2>2, <2>3, <2>5 DEF NewIndex, CanOpen, Built, Absent
    <3>2. call'.op = "create_index" /\ call'.on = i /\ call'.at = "build" /\ call'.todo = files[t].rows
          /\ call' # NoCall
      BY <2>1, <3>1
    <3>3. files'[i] = Built({}) /\ \A x \in Table \cup Index : x # i => files'[x] = files[x]
      BY <1>a, <2>1, <3>1
    <3> QED BY <1>a, <1>b, <2>1, <2>2, <2>5, <3>1, <3>2, <3>3 DEF FilesInStep, NamesIn
  <2> QED BY <2>4, <2>5
<1> QED BY <1>1, <1>2, <1>3, <1>4

LEMMA InStepRows ==
    ASSUME CatalogInv, FilesInStep, NEW r \in DataRow,
           BuildRow(r) \/ \E t \in Table : InsertRow(t, r) \/ DeleteRow(t, r)
    PROVE  FilesInStep'
<1> USE IndexesAssumption DEF NoCall, Creations, Creating, Making
<1>a. memory \in Catalog /\ memory.tables \subseteq Table /\ memory.indexes \subseteq Index
      /\ files \in [Table \cup Index -> FileState]
  BY DEF CatalogInv, CatalogTypeOK, Catalog
<1>b. \A rows : Built(rows).state = "built" /\ Built(rows).rows = rows /\ Built(rows) # Absent
  BY DEF Built, Absent
<1>1. CASE BuildRow(r)
  <2> DEFINE i == call.on
  <2>1. /\ i \in Index /\ Making(i) /\ i \in memory.indexes /\ call.at = "build" /\ r \in call.todo
        /\ call \in [op : Calls, on : Table \cup Index, at : Stage,
                     todo : (SUBSET (Table \cup Index)) \cup (SUBSET DataRow)]
        /\ TableOf[i] \in Table /\ TableOf[i] # i
    BY <1>1 DEF BuildRow, At, CatalogInv, CallIsWellFormed, CreatedIsClosed, CatalogTypeOK
  <2>2. /\ call'.op = "create_index" /\ call'.on = i /\ call'.at = "build" /\ call' # NoCall
        /\ call'.todo = call.todo \ {r}
    BY <1>1, <2>1 DEF BuildRow
  <2>3. /\ files'[i].state = files[i].state /\ files'[i].rows = files[i].rows \cup {r}
        /\ \A x \in Table \cup Index : x # i => files'[x] = files[x]
    BY <1>1, <1>a, <2>1 DEF BuildRow, FileState
  <2> QED BY <1>1, <1>a, <2>1, <2>2, <2>3 DEF BuildRow, FilesInStep, NamesIn
<1>2. ASSUME NEW t \in Table, NEW R,
             ReadyForDml(t), UNCHANGED <<memory, saved, call>>,
             files' = [x \in DOMAIN files |-> IF x \in Writes(t) THEN Built(R) ELSE files[x]]
      PROVE  FilesInStep'
  <2>1. call = NoCall /\ t \in memory.tables
        /\ Writes(t) = {t} \cup {i \in memory.indexes : TableOf[i] = t}
    BY <1>2, <1>a DEF ReadyForDml, Writes, FilesOf, IndexesOf
  <2>2. \A i \in memory.indexes : TableOf[i] = t => i \notin Unsuitable
    BY <1>2, <2>1 DEF ReadyForDml, CanOpen, AfterOpen, Initialises, Blank, FilesInStep
  <2>3. \A x \in Table \cup Index :
           files'[x] = IF x \in {t} \cup {i \in memory.indexes : TableOf[i] = t} THEN Built(R) ELSE files[x]
    BY <1>2, <1>a, <2>1
  <2> QED BY <1>2, <1>a, <1>b, <2>1, <2>2, <2>3 DEF FilesInStep, NamesIn
<1>3. ASSUME NEW t \in Table, InsertRow(t, r) \/ DeleteRow(t, r) PROVE FilesInStep'
  <2>1. ReadyForDml(t) /\ UNCHANGED <<memory, saved, call>>
    BY <1>3 DEF InsertRow, DeleteRow
  <2>2. call = NoCall /\ t \in memory.tables
        /\ Writes(t) = {t} \cup {i \in memory.indexes : TableOf[i] = t}
    BY <2>1, <1>a DEF ReadyForDml, Writes, FilesOf, IndexesOf
  <2>3. \A i \in memory.indexes : TableOf[i] = t => i \notin Unsuitable
    BY <2>1, <2>2 DEF ReadyForDml, CanOpen, AfterOpen, Initialises, Blank, FilesInStep
  <2>4. files[t].state = "built" /\ AfterOpen(t).rows = files[t].rows
    BY <2>2, OpenOfBuilt DEF FilesInStep
  <2>5. ASSUME NEW x \in Writes(t) PROVE AfterOpen(x).rows = files[t].rows
    <3>1. CASE x = t
      BY <2>4, <3>1
    <3>2. CASE x \in memory.indexes /\ TableOf[x] = t
      <4>1. files[x] = Built(files[t].rows)
        BY <2>2, <2>3, <3>2 DEF FilesInStep
      <4> QED BY <1>b, <4>1, OpenOfBuilt
    <3> QED BY <2>2, <3>1, <3>2
  <2>6. PICK R : R = files[t].rows
    OBVIOUS
  <2>7. CASE InsertRow(t, r)
    <3>1. files' = [x \in DOMAIN files |-> IF x \in Writes(t) THEN Built(R \cup {r}) ELSE files[x]]
      BY <2>5, <2>6, <2>7 DEF InsertRow
    <3> QED BY <1>2, <2>1, <3>1
  <2>8. CASE DeleteRow(t, r)
    <3>1. files' = [x \in DOMAIN files |-> IF x \in Writes(t) THEN Built(R \ {r}) ELSE files[x]]
      BY <2>5, <2>6, <2>8 DEF DeleteRow
    <3> QED BY <1>2, <2>1, <3>1
  <2> QED BY <1>3, <2>7, <2>8
<1> QED BY <1>1, <1>3

LEMMA InStepOthers ==
    ASSUME CatalogInv, FilesInStep, NEW x \in Table \cup Index,
           RemoveFile(x) \/ OpenTable(x) \/ OpenIndex(x) \/ CloseTable(x)
    PROVE  FilesInStep'
<1> USE IndexesAssumption DEF NoCall, Creations, Creating, Making
<1>a. memory \in Catalog /\ memory.tables \subseteq Table /\ memory.indexes \subseteq Index
      /\ files \in [Table \cup Index -> FileState]
  BY DEF CatalogInv, CatalogTypeOK, Catalog
<1>b. call = NoCall \/ call \in [op : Calls, on : Table \cup Index, at : Stage,
                                todo : (SUBSET (Table \cup Index)) \cup (SUBSET DataRow)]
  BY DEF CatalogInv, CatalogTypeOK
<1>1. CASE RemoveFile(x)
  <2>1. /\ call # NoCall /\ call.at = "remove" /\ x \in call.todo /\ UNCHANGED <<memory, saved>>
        /\ files' = [files EXCEPT ![x] = Absent] /\ call' = [call EXCEPT !.todo = @ \ {x}]
    BY <1>1 DEF RemoveFile, At
  <2>2. memory = saved /\ x \notin NamesIn(memory)
    BY <2>1 DEF FilesInStep, CatalogInv, DoomedIsUnlisted
  <2>3. /\ call'.op = call.op /\ call'.on = call.on /\ call'.todo = call.todo \ {x}
        /\ call'.at = call.at /\ call' # NoCall
    BY <1>b, <2>1
  <2>4. files'[x] = Absent /\ \A y \in Table \cup Index : y # x => files'[y] = files[y]
    BY <1>a, <2>1
  <2>5. \A i \in memory.indexes : TableOf[i] \in memory.tables /\ TableOf[i] # x /\ i # x
    BY <2>2 DEF CatalogInv, CatalogTypeOK, NamesIn
  <2> QED BY <1>a, <2>1, <2>2, <2>3, <2>4, <2>5 DEF FilesInStep, NamesIn
<1>2. CASE OpenTable(x)
  <2>1. files' = [files EXCEPT ![x] = AfterOpen(x)] /\ call = NoCall /\ x \in memory.tables
        /\ UNCHANGED <<memory, saved, call>>
    BY <1>2 DEF OpenTable
  <2>2. AfterOpen(x) = files[x]
    BY <2>1, OpenOfBuilt DEF FilesInStep
  <2>3. files' = files
    BY <1>a, <2>1, <2>2
  <2> QED BY <2>1, <2>3 DEF FilesInStep, NamesIn
<1>3. CASE OpenIndex(x)
  <2>1. /\ files' = [files EXCEPT ![TableOf[x]] = AfterOpen(TableOf[x]), ![x] = AfterOpen(x)]
        /\ call = NoCall /\ x \in memory.indexes /\ UNCHANGED <<memory, saved, call>>
    BY <1>3 DEF OpenIndex
  <2>2. TableOf[x] \in memory.tables /\ x \in Index
    BY <1>a, <2>1 DEF CatalogInv, CatalogTypeOK
  <2>3. AfterOpen(TableOf[x]) = files[TableOf[x]]
    BY <2>1, <2>2, OpenOfBuilt DEF FilesInStep
  <2>4. CASE x \notin Unsuitable
    <3>1. AfterOpen(x) = files[x]
      <4>1. files[x] = Built(files[TableOf[x]].rows)
        BY <2>1, <2>4 DEF FilesInStep
      <4>2. files[x].state = "built"
        BY <4>1 DEF Built
      <4> QED BY <4>2, OpenOfBuilt
    <3>2. files' = files
      BY <1>a, <2>1, <2>3, <3>1
    <3> QED BY <2>1, <3>2 DEF FilesInStep, NamesIn
  <2>5. CASE x \in Unsuitable
    <3>1. AfterOpen(x) = Blank /\ files[x].state = "blank"
      BY <2>1, <2>5 DEF FilesInStep, AfterOpen, Initialises
    <3>2. files'[x] = Blank /\ \A y \in Table \cup Index : y # x => files'[y] = files[y]
      BY <1>a, <2>1, <2>2, <2>3, <3>1
    <3>3. Blank.state = "blank" /\ \A i \in memory.indexes : TableOf[i] # x
      BY <2>2, <1>a DEF Blank
    <3>4. x \notin Table
      BY <2>2
    <3> QED BY <1>a, <2>1, <2>2, <2>5, <3>1, <3>2, <3>3, <3>4 DEF FilesInStep, NamesIn
  <2> QED BY <2>4, <2>5
<1>4. CASE CloseTable(x)
  BY <1>4 DEF CloseTable, WithoutHandles, FilesInStep, NamesIn
<1> QED BY <1>1, <1>2, <1>3, <1>4

LEMMA InStepEnds ==
    ASSUME CatalogInv, FilesInStep, SaveWorks \/ RemoveEnds \/ Reopen
    PROVE  FilesInStep'
<1> USE IndexesAssumption DEF NoCall, Creations, Creating, Making
<1>a. memory \in Catalog /\ memory.tables \subseteq Table /\ memory.indexes \subseteq Index
      /\ files \in [Table \cup Index -> FileState]
  BY DEF CatalogInv, CatalogTypeOK, Catalog
<1>b. call = NoCall \/ call \in [op : Calls, on : Table \cup Index, at : Stage,
                                todo : (SUBSET (Table \cup Index)) \cup (SUBSET DataRow)]
  BY DEF CatalogInv, CatalogTypeOK
<1>1. CASE SaveWorks
  <2>1. call # NoCall /\ call.at = "save" /\ saved' = memory /\ UNCHANGED <<memory, files>>
    BY <1>1 DEF SaveWorks, At, FilesInStep
  <2>2. /\ call' = [call EXCEPT !.at = AfterSave]
        /\ AfterSave = IF call.op \in Creations THEN "open" ELSE "remove"
    BY <1>1, <2>1 DEF SaveWorks, Goes, AfterSave
  <2>3. /\ call'.op = call.op /\ call'.on = call.on /\ call'.todo = call.todo
        /\ call'.at = IF call.op \in Creations THEN "open" ELSE "remove"
        /\ call' # NoCall
    BY <1>b, <2>1, <2>2
  <2> QED BY <2>1, <2>3 DEF FilesInStep, NamesIn
<1>2. CASE RemoveEnds
  <2>1. call # NoCall /\ call.at = "remove" /\ call.todo = {} /\ call' = NoCall
        /\ UNCHANGED <<memory, saved, files>>
    BY <1>2 DEF RemoveEnds, At, Ends
  <2>2. call.op \notin Creations
    BY <2>1 DEF FilesInStep
  <2> QED BY <1>a, <2>1, <2>2 DEF FilesInStep, NamesIn
<1>3. CASE Reopen
  BY <1>3 DEF Reopen, Reload, FilesInStep, NamesIn
<1> QED BY <1>1, <1>2, <1>3

LEMMA RefusedStayClosed ==
    ASSUME CatalogInv, FilesInStep, UnsuitableStayClosed, CatalogNext, UNCHANGED <<failed, crashed>>
    PROVE  UnsuitableStayClosed'
<1> USE IndexesAssumption DEF UnsuitableStayClosed
<1>a. Unsuitable \subseteq Index /\ Unsuitable \cap Table = {} /\ \A i \in Index : TableOf[i] \in Table
  OBVIOUS
<1>b. memory.tables \subseteq Table /\ memory.indexes \subseteq Index
  BY DEF CatalogInv, CatalogTypeOK, Catalog
<1>c. call # NoCall => IF call.op \in {"create_table", "drop_table"} THEN call.on \in Table ELSE call.on \in Index
  BY DEF CatalogInv, CallIsWellFormed
<1>d. ASSUME NEW i \in memory.indexes \cap Unsuitable, call = NoCall PROVE ~CanOpen(i)
  BY <1>b, <1>d DEF CanOpen, AfterOpen, Initialises, FilesInStep, Making, Blank
<1>1. ASSUME NEW t \in Table, CreateTable(t) \/ DropTable(t) \/ OpenTable(t) \/ CloseTable(t)
      PROVE  handles' \subseteq handles \cup Table
  BY <1>1 DEF CreateTable, DropTable, OpenTable, CloseTable, WithoutHandles
<1>2. ASSUME NEW t \in Table, NEW r \in DataRow, InsertRow(t, r) \/ DeleteRow(t, r)
      PROVE  UnsuitableStayClosed'
  <2>1. call = NoCall /\ handles' = handles \cup Writes(t) /\ \A x \in Writes(t) : CanOpen(x)
    BY <1>2 DEF InsertRow, DeleteRow, ReadyForDml
  <2>2. Writes(t) \subseteq {t} \cup memory.indexes
    BY DEF Writes, FilesOf
  <2>3. Writes(t) \cap Unsuitable = {}
    BY <1>a, <1>d, <2>1, <2>2
  <2> QED BY <2>1, <2>3
<1>3. ASSUME NEW i \in Index, CreateIndex(i) \/ DropIndex(i)
      PROVE  handles' \subseteq handles
  BY <1>3 DEF CreateIndex, DropIndex
<1>4. ASSUME NEW i \in Index, OpenIndex(i)
      PROVE  UnsuitableStayClosed'
  <2>1. call = NoCall /\ i \in memory.indexes
        /\ handles' = handles \cup {TableOf[i]} \cup (IF CanOpen(i) THEN {i} ELSE {})
    BY <1>4 DEF OpenIndex
  <2>2. CanOpen(i) => i \notin Unsuitable
    BY <1>d, <2>1
  <2> QED BY <1>a, <2>1, <2>2
<1>5. CASE NewTable
  <2>1. call.on \in Table /\ handles' = handles \cup {call.on}
    BY <1>c, <1>5 DEF NewTable, At
  <2> QED BY <1>a, <2>1
<1>6. CASE NewIndex
  <2>1. call.on \in Index /\ (handles' = handles \/ handles' = handles \cup {TableOf[call.on]})
    BY <1>c, <1>6 DEF NewIndex, At
  <2> QED BY <1>a, <2>1
<1>7. CASE BuildEnds
  <2>1. call.on \in Index /\ Making(call.on) /\ call.at = "build" /\ handles' = handles \cup {call.on}
    BY <1>7 DEF BuildEnds, At, CatalogInv, CallIsWellFormed, CreatedIsClosed, Making, Creations
  <2>2. call.on \notin Unsuitable
    BY <2>1 DEF FilesInStep
  <2> QED BY <2>1, <2>2
<1>8. ASSUME SaveWorks \/ SaveFails \/ NewTableRefused \/ NewTableFails \/ BuildFails
             \/ (\E r \in DataRow : BuildRow(r)) \/ (\E x \in Table \cup Index : RemoveFile(x))
             \/ RemoveFails \/ RemoveEnds \/ Reopen \/ ProcessDies
      PROVE  handles' \subseteq handles
  BY <1>8 DEF SaveWorks, SaveFails, NewTableRefused, NewTableFails, BuildFails, BuildRow, RemoveFile,
              RemoveFails, RemoveEnds, Reopen, ProcessDies, Reload
<1>9. CASE NewIndexFails
  <2>1. failed' = failed + 1 /\ failed \in Nat
    BY <1>9 DEF NewIndexFails, Fails, CatalogInv, Counters
  <2> QED BY <2>1
<1>10. ASSUME handles' \subseteq handles \cup Table PROVE UnsuitableStayClosed'
  BY <1>a, <1>10
<1> QED
  BY <1>1, <1>2, <1>3, <1>4, <1>5, <1>6, <1>7, <1>8, <1>9, <1>10 DEF CatalogNext

CleanInv == CatalogInv /\ (failed + crashed = 0 => FilesInStep /\ UnsuitableStayClosed)

LEMMA CleanInit == CatalogInit => CleanInv
<1> SUFFICES ASSUME CatalogInit PROVE FilesInStep /\ UnsuitableStayClosed
  BY CatalogInvInit DEF CleanInv
<1> QED BY IndexesAssumption DEF CatalogInit, FilesInStep, UnsuitableStayClosed, Creating, Making

LEMMA CleanStep == CleanInv /\ [CatalogNext]_catalogVars => CleanInv'
<1> SUFFICES ASSUME CleanInv, [CatalogNext]_catalogVars, failed' + crashed' = 0
             PROVE  FilesInStep' /\ UnsuitableStayClosed'
  BY CatalogInvStep DEF CleanInv
<1>1. CASE UNCHANGED catalogVars
  BY <1>1 DEF catalogVars, CleanInv, FilesInStep, UnsuitableStayClosed, Creating, Making, NoCall, NamesIn
<1>2. CASE CatalogNext
  <2>1. CatalogInv /\ failed \in Nat /\ crashed \in Nat
    BY DEF CleanInv, CatalogInv, Counters
  <2>2. ~(Fails /\ UNCHANGED crashed) /\ ~ProcessDies
    BY <2>1 DEF Fails, ProcessDies, Reload
  <2>3. ~(SaveFails \/ NewTableFails \/ NewIndexFails \/ BuildFails \/ RemoveFails)
    BY <2>2 DEF SaveFails, NewTableFails, NewIndexFails, BuildFails, RemoveFails
  <2>4. FilesInStep /\ UnsuitableStayClosed /\ UNCHANGED <<failed, crashed>>
    <3>1. UNCHANGED <<failed, crashed>>
      BY <1>2, <2>2, <2>3
      DEF CatalogNext, CreateTable, DropTable, CreateIndex, DropIndex, SaveWorks, NewTable, NewTableRefused,
          NewIndex, BuildRow, BuildEnds, RemoveFile, RemoveEnds, OpenTable, OpenIndex, CloseTable,
          InsertRow, DeleteRow, Reopen, Reload
    <3> QED BY <3>1, SMTT(30) DEF CleanInv
  <2>5. ASSUME NEW t \in Table, CreateTable(t) \/ DropTable(t) PROVE FilesInStep'
    BY <2>1, <2>4, <2>5, InStepBeginsTable
  <2>6. ASSUME NEW i \in Index, CreateIndex(i) \/ DropIndex(i) PROVE FilesInStep'
    BY <2>1, <2>4, <2>6, InStepBeginsIndex
  <2>7. ASSUME NEW r \in DataRow, BuildRow(r) \/ \E t \in Table : InsertRow(t, r) \/ DeleteRow(t, r)
        PROVE  FilesInStep'
    BY <2>1, <2>4, <2>7, InStepRows
  <2>8. ASSUME NEW x \in Table \cup Index, RemoveFile(x) \/ OpenTable(x) \/ OpenIndex(x) \/ CloseTable(x)
        PROVE  FilesInStep'
    BY <2>1, <2>4, <2>8, InStepOthers
  <2>9. ASSUME SaveWorks \/ RemoveEnds \/ Reopen PROVE FilesInStep'
    <3>1. CatalogInv /\ FilesInStep
      BY <2>1, <2>4
    <3> QED BY ONLY <2>9, <3>1, InStepEnds
  <2>10. ASSUME NewTable \/ NewTableRefused \/ NewIndex \/ BuildEnds PROVE FilesInStep'
    <3>1. CatalogInv /\ FilesInStep
      BY <2>1, <2>4
    <3> QED BY ONLY <2>10, <3>1, InStepFiles
  <2>11. FilesInStep'
    BY <1>2, <2>2, <2>3, <2>5, <2>6, <2>7, <2>8, <2>9, <2>10 DEF CatalogNext
  <2>12. UnsuitableStayClosed'
    BY <1>2, <2>1, <2>4, RefusedStayClosed
  <2> QED BY <2>11, <2>12
<1> QED BY <1>1, <1>2

(* While nothing fails, an open index answers for its table: it has an entry for each
   of its rows and no other, through drops, re-creations, restarts, lazy opens and
   statements refused because an index does not open. *)
THEOREM CatalogIndexesAreExact == CatalogSpec => []OpenIndexesAreExact
<1>1. CleanInv => OpenIndexesAreExact
  <2> SUFFICES ASSUME CleanInv, failed + crashed = 0, NEW i \in handles \cap Index
               PROVE  files[i].rows = files[TableOf[i]].rows
    BY DEF OpenIndexesAreExact
  <2>1. FilesInStep /\ i \in memory.indexes /\ i \notin Unsuitable
    BY IndexesAssumption
    DEF CleanInv, CatalogInv, HandlesAreSafe, CatalogTypeOK, NamesIn, Catalog, UnsuitableStayClosed
  <2>2. ~Making(i)
    BY <2>1 DEF CleanInv, CatalogInv, CatalogTypeOK, CreatedIsClosed, FilesInStep, Making, Creations, Stage
  <2>3. files[i] = Built(files[TableOf[i]].rows)
    BY <2>1, <2>2 DEF FilesInStep
  <2> QED BY <2>3 DEF Built
<1> QED
  BY <1>1, CleanInit, CleanStep, PTL DEF CatalogSpec

-------------------------------------------------------------------------------
(* The tables, as TableSpace sees them: what a restart would list with their rows,
   and what clients see. *)

KeptTables == {u \in saved.tables : ~NotItsFile(u)}

StoredRows == [t \in KeptTables |-> files[t].rows]

ListedTables == {t \in memory.tables : ~Creating(t)}

(* A file that a constructor initialises had no rows. *)
EmptyUntilBuilt == \A t \in Table : files[t].state \in {"absent", "blank"} => files[t].rows = {}

(* A table that clients see is in the saved catalog; a statement works on files
   when the catalog that it saved is the one in memory; a CREATE TABLE that takes
   its change back has the table out of the catalog, and deletes nothing. *)
ListedAreSaved ==
    /\ ListedTables \subseteq saved.tables
    /\ call # NoCall /\ call.at = "open" => memory = saved
    /\ call # NoCall /\ call.op = "create_table" =>
          /\ call.at # "remove"
          /\ call.at = "revert" => call.on \notin memory.tables

SpaceInv == CleanInv /\ EmptyUntilBuilt /\ ListedAreSaved

(* Opening a file never changes the rows in it. *)
LEMMA RestartKeepsSpace ==
    ASSUME EmptyUntilBuilt, NEW t \in Table
    PROVE  AfterOpen(t).rows = files[t].rows
  BY DEF AfterOpen, EmptyUntilBuilt, Built, Blank

LEMMA EmptyUntilBuiltStep ==
    ASSUME CatalogInv, EmptyUntilBuilt, CatalogNext
    PROVE  EmptyUntilBuilt'
<1> USE IndexesAssumption
<1>a. files \in [Table \cup Index -> FileState] /\ Table \cap Index = {}
  BY DEF CatalogInv, CatalogTypeOK
<1>b. \A f \in {Absent, Torn, Blank} \cup {Built(R) : R \in SUBSET DataRow} :
         f.state \in {"absent", "blank"} => f.rows = {}
  BY DEF Absent, Torn, Blank, Built
<1>c. \A x : AfterOpen(x) = files[x] \/ AfterOpen(x) = Built({}) \/ AfterOpen(x) = Blank
  BY DEF AfterOpen
<1>d. ASSUME NEW y, NEW f, files' = [files EXCEPT ![y] = f],
             f.state \in {"absent", "blank"} => f.rows = {}
      PROVE  EmptyUntilBuilt'
  BY <1>a, <1>d DEF EmptyUntilBuilt
<1>e. call # NoCall => IF call.op \in {"create_table", "drop_table"} THEN call.on \in Table ELSE call.on \in Index
  BY DEF CatalogInv, CallIsWellFormed
<1>1. ASSUME NEW t \in Table, CreateTable(t) \/ DropTable(t) \/ CloseTable(t)
      PROVE  EmptyUntilBuilt'
  BY <1>1 DEF CreateTable, DropTable, CloseTable, EmptyUntilBuilt
<1>2. ASSUME NEW t \in Table, OpenTable(t)
      PROVE  EmptyUntilBuilt'
  <2>1. files' = [files EXCEPT ![t] = AfterOpen(t)]
    BY <1>2 DEF OpenTable
  <2>2. AfterOpen(t).state \in {"absent", "blank"} => AfterOpen(t).rows = {}
    BY <1>b, <1>c DEF EmptyUntilBuilt
  <2> QED BY <1>d, <2>1, <2>2
<1>3. ASSUME NEW t \in Table, NEW r \in DataRow, InsertRow(t, r) \/ DeleteRow(t, r)
      PROVE  EmptyUntilBuilt'
  <2>1. \A u \in Table : files'[u] = files[u] \/ files'[u].state = "built"
    BY <1>3, <1>a DEF InsertRow, DeleteRow, Built
  <2> QED BY <2>1 DEF EmptyUntilBuilt
<1>4. ASSUME NEW i \in Index, CreateIndex(i) \/ DropIndex(i)
      PROVE  EmptyUntilBuilt'
  BY <1>4 DEF CreateIndex, DropIndex, EmptyUntilBuilt
<1>5. ASSUME NEW i \in Index, NEW f, files' = [files EXCEPT ![TableOf[i]] = AfterOpen(TableOf[i]), ![i] = f]
      PROVE  EmptyUntilBuilt'
  <2>1. \A u \in Table : files'[u] = files[u] \/ files'[u] = AfterOpen(u)
    BY <1>a, <1>5
  <2>2. \A u \in Table : AfterOpen(u).state \in {"absent", "blank"} => AfterOpen(u).rows = {}
    BY <1>b, <1>c DEF EmptyUntilBuilt
  <2> QED BY <2>1, <2>2 DEF EmptyUntilBuilt
<1>6. ASSUME NEW i \in Index, OpenIndex(i)
      PROVE  EmptyUntilBuilt'
  BY <1>5, <1>6 DEF OpenIndex
<1>7. CASE NewTable
  BY <1>b, <1>d, <1>7 DEF NewTable
<1>8. CASE NewTableFails
  BY <1>b, <1>d, <1>8 DEF NewTableFails
<1>9. CASE NewIndex
  <2>1. call.on \in Index
    BY <1>9, <1>e DEF NewIndex, At
  <2>2. UNCHANGED files \/ \E f : files' = [files EXCEPT ![TableOf[call.on]] = AfterOpen(TableOf[call.on]), ![call.on] = f]
    BY <1>9 DEF NewIndex
  <2>3. PICK i \in Index : i = call.on
    BY <2>1
  <2> QED BY <1>5, <2>2, <2>3 DEF EmptyUntilBuilt
<1>10. CASE NewIndexFails
  <2>1. call.on \in Index
    BY <1>10, <1>e DEF NewIndexFails, At
  <2>2. \E f : files' = [files EXCEPT ![TableOf[call.on]] = AfterOpen(TableOf[call.on]), ![call.on] = f]
    BY <1>10 DEF NewIndexFails
  <2>3. PICK i \in Index : i = call.on
    BY <2>1
  <2> QED BY <1>5, <2>2, <2>3
<1>11. ASSUME NEW r \in DataRow, BuildRow(r)
       PROVE  EmptyUntilBuilt'
  <2>1. call.on \in Index /\ files' = [files EXCEPT ![call.on].rows = @ \cup {r}]
    BY <1>11 DEF BuildRow, At, CatalogInv, CallIsWellFormed
  <2>2. \A u \in Table : files'[u] = files[u]
    BY <1>a, <2>1
  <2> QED BY <2>2 DEF EmptyUntilBuilt
<1>12. ASSUME NEW x \in Table \cup Index, RemoveFile(x)
       PROVE  EmptyUntilBuilt'
  BY <1>b, <1>d, <1>12 DEF RemoveFile
<1>13. ASSUME UNCHANGED files
       PROVE  EmptyUntilBuilt'
  BY <1>13 DEF EmptyUntilBuilt
<1>14. CASE SaveWorks \/ SaveFails \/ NewTableRefused \/ BuildFails \/ BuildEnds \/ RemoveFails \/ RemoveEnds
            \/ Reopen \/ ProcessDies
  BY <1>13, <1>14 DEF SaveWorks, SaveFails, NewTableRefused, BuildFails, BuildEnds, RemoveFails, RemoveEnds,
                      Reopen, ProcessDies, Reload
<1> QED
  BY <1>1, <1>2, <1>3, <1>4, <1>6, <1>7, <1>8, <1>9, <1>10, <1>11, <1>12, <1>14 DEF CatalogNext

LEMMA ListedAreSavedStep ==
    ASSUME CatalogInv, ListedAreSaved, CatalogNext
    PROVE  ListedAreSaved'
<1> USE IndexesAssumption
    DEF ListedAreSaved, ListedTables, Creating, NoCall
<1>a. /\ memory \in Catalog /\ memory.tables \subseteq Table /\ memory.indexes \subseteq Index
      /\ saved \in Catalog /\ saved.tables \subseteq Table
  BY DEF CatalogInv, CatalogTypeOK, Catalog
<1>b. call = NoCall \/ call \in [op : Calls, on : Table \cup Index, at : Stage,
                                 todo : (SUBSET (Table \cup Index)) \cup (SUBSET DataRow)]
  BY DEF CatalogInv, CatalogTypeOK
<1>c. call # NoCall =>
        /\ IF call.op \in {"create_table", "drop_table"} THEN call.on \in Table ELSE call.on \in Index
        /\ call.at \in {"open", "revert"} => call.op \in Creations
        /\ call.at = "build" => call.op = "create_index"
        /\ call.op = "create_table" /\ call.at \in {"save", "open"} => call.on \in memory.tables
  BY DEF CatalogInv, CallIsWellFormed, CreatedIsClosed
<1>1. ASSUME NEW t \in Table, CreateTable(t) PROVE ListedAreSaved'
  <2>1. memory'.tables = memory.tables \cup {t}
    BY <1>a, <1>1, TableChanges DEF CreateTable
  <2> QED BY <1>1, <2>1 DEF CreateTable, Begins
<1>2. ASSUME NEW t \in Table, DropTable(t) PROVE ListedAreSaved'
  <2>1. memory'.tables = memory.tables \ {t}
    BY <1>a, <1>2, TableChanges DEF DropTable
  <2> QED BY <1>2, <2>1 DEF DropTable, Begins
<1>3. ASSUME NEW i \in Index, CreateIndex(i) \/ DropIndex(i) PROVE ListedAreSaved'
  <2>1. memory'.tables = memory.tables
    BY <1>a, <1>3, IndexChanges DEF CreateIndex, DropIndex
  <2> QED BY <1>3, <2>1 DEF CreateIndex, DropIndex, Begins
<1>4. ASSUME UNCHANGED <<memory, saved, call>> PROVE ListedAreSaved'
  BY <1>4
<1>5. ASSUME NEW t \in Table,
             \/ OpenTable(t) \/ CloseTable(t)
             \/ \E r \in DataRow : InsertRow(t, r) \/ DeleteRow(t, r)
      PROVE  ListedAreSaved'
  BY <1>4, <1>5 DEF OpenTable, CloseTable, InsertRow, DeleteRow
<1>6. ASSUME NEW i \in Index, OpenIndex(i) PROVE ListedAreSaved'
  BY <1>4, <1>6 DEF OpenIndex
<1>7. CASE SaveWorks
  <2>1. call # NoCall /\ saved' = memory /\ UNCHANGED memory /\ (call.at = "save" \/ call.at = "revert")
        /\ (call' = NoCall \/ call' = [call EXCEPT !.at = AfterSave])
        /\ (call.at = "revert" /\ call.op = "create_table" => call' = NoCall)
    BY <1>7 DEF SaveWorks, At, Goes, Ends
  <2>2. AfterSave = IF call.at = "save" /\ call.op \in {"create_table", "create_index"} THEN "open" ELSE "remove"
    BY DEF AfterSave
  <2>3. CASE call' = NoCall
    BY <2>1, <2>3
  <2>4. CASE call' = [call EXCEPT !.at = AfterSave] /\ call' # NoCall
    <3>1. call'.op = call.op /\ call'.on = call.on /\ call'.at = AfterSave
      BY <1>b, <2>1, <2>4
    <3> QED BY <2>1, <2>2, <2>4, <3>1
  <2> QED BY <2>1, <2>3, <2>4
<1>8. CASE SaveFails
  <2>1. /\ call # NoCall /\ call' = NoCall /\ UNCHANGED saved /\ (call.at = "save" \/ call.at = "revert")
        /\ memory' = IF call.at = "save" /\ call.op = "create_table" THEN SansTable(memory, call.on) ELSE memory
    BY <1>8 DEF SaveFails, At, Ends
  <2>2. CASE call.at = "save" /\ call.op = "create_table"
    <3>1. memory'.tables = memory.tables \ {call.on}
      BY <1>a, <1>c, <2>1, <2>2, TableChanges
    <3> QED BY <2>1, <2>2, <3>1
  <2>3. CASE ~(call.at = "save" /\ call.op = "create_table")
    <3>1. \A t \in memory.tables : ~Creating(t)
      BY <2>1, <2>3
    <3> QED BY <2>1, <2>3, <3>1
  <2> QED BY <2>2, <2>3
<1>9. ASSUME UNCHANGED <<memory, saved>>, call' = NoCall, call # NoCall,
             \/ call.op # "create_table"
             \/ call.at = "open"
      PROVE  ListedAreSaved'
  BY <1>9
<1>10. CASE NewTable \/ BuildEnds
  BY <1>9, <1>10, <1>c DEF NewTable, BuildEnds, At, Ends
<1>11. CASE RemoveFails \/ RemoveEnds
  BY <1>9, <1>11, <1>c DEF RemoveFails, RemoveEnds, At, Ends
<1>12. CASE NewTableRefused \/ NewTableFails
  <2>1. /\ call # NoCall /\ call.at = "open" /\ call.op = "create_table" /\ memory' = SansTable(memory, call.on)
        /\ call' = [call EXCEPT !.at = "revert"] /\ UNCHANGED saved
    BY <1>12 DEF NewTableRefused, NewTableFails, At, Goes
  <2>2. memory'.tables = memory.tables \ {call.on}
    BY <1>a, <1>c, <2>1, TableChanges
  <2>3. call'.op = call.op /\ call'.on = call.on /\ call'.at = "revert" /\ call' # NoCall
    BY <1>b, <2>1
  <2> QED BY <2>1, <2>2, <2>3
<1>13. ASSUME IndexRaises, UNCHANGED saved, call # NoCall, call.op = "create_index" PROVE ListedAreSaved'
  <2>1. memory'.tables = memory.tables
    BY <1>a, <1>c, <1>13, IndexChanges DEF IndexRaises
  <2>2. call' = NoCall \/ call' = [call EXCEPT !.at = "revert", !.todo = {call.on}]
    BY <1>13 DEF IndexRaises, Ends
  <2>3. call' # NoCall => call'.op = "create_index" /\ call'.at = "revert"
    BY <1>b, <1>13, <2>2
  <2> QED BY <1>13, <2>1, <2>3
<1>14. CASE NewIndexFails \/ BuildFails
  BY <1>13, <1>14, <1>c DEF NewIndexFails, BuildFails, At
<1>15. CASE NewIndex
  <2>1. call # NoCall /\ call.op = "create_index" /\ UNCHANGED saved
    BY <1>15 DEF NewIndex, At
  <2>2. CASE call' = [call EXCEPT !.at = "build", !.todo = AfterOpen(TableOf[call.on]).rows] /\ UNCHANGED memory
    <3>1. call' # NoCall => call'.op = "create_index" /\ call'.at = "build"
      BY <1>b, <2>1, <2>2
    <3> QED BY <2>1, <2>2, <3>1
  <2>3. CASE call' = NoCall /\ UNCHANGED memory
    BY <1>9, <2>1, <2>3
  <2>4. CASE IndexRaises
    BY <1>13, <2>1, <2>4
  <2> QED BY <1>15, <2>2, <2>3, <2>4 DEF NewIndex, Ends
<1>16. ASSUME UNCHANGED <<memory, saved>>, call # NoCall, NEW d, call' = [call EXCEPT !.todo = d]
       PROVE  ListedAreSaved'
  <2>1. call'.op = call.op /\ call'.on = call.on /\ call'.at = call.at
    BY <1>b, <1>16
  <2> QED BY <1>16, <2>1
<1>17. ASSUME NEW r \in DataRow, BuildRow(r) PROVE ListedAreSaved'
  BY <1>16, <1>17 DEF BuildRow, At
<1>18. ASSUME NEW x \in Table \cup Index, RemoveFile(x) PROVE ListedAreSaved'
  BY <1>16, <1>18 DEF RemoveFile, At
<1>19. CASE Reopen \/ ProcessDies
  BY <1>19 DEF Reopen, ProcessDies, Reload
<1> QED
  BY <1>1, <1>2, <1>3, <1>5, <1>6, <1>7, <1>8, <1>10, <1>11, <1>12, <1>14, <1>15, <1>17, <1>18, <1>19
  DEF CatalogNext

(* How a step of the files looks from TableSpace: the rows and the list of the
   tables stay, or the saved catalog becomes the list. *)
SpaceStutters == StoredRows' = StoredRows /\ ListedTables' = ListedTables

LEMMA SameSpace ==
    ASSUME KeptTables' = KeptTables, \A t \in KeptTables : files'[t].rows = files[t].rows
    PROVE  StoredRows' = StoredRows
<1>1. StoredRows' = [t \in KeptTables' |-> files'[t].rows]
  BY DEF StoredRows
<1> QED BY <1>1 DEF StoredRows

LEMMA SpaceIsSaved ==
    ASSUME ListedTables' = ListedTables, NEW T,
           T = ListedTables \/ \E t \in Table : T = ListedTables \cup {t},
           KeptTables' = T,
           \A t \in T : files'[t].rows = IF t \in KeptTables THEN files[t].rows ELSE {}
    PROVE  Space!Save
<1>1. StoredRows' = [t \in T |-> files'[t].rows]
  BY DEF StoredRows
<1>2. DOMAIN StoredRows = KeptTables /\ \A t \in KeptTables : StoredRows[t] = files[t].rows
  BY DEF StoredRows
<1>3. StoredRows' = [t \in T |-> IF t \in DOMAIN StoredRows THEN StoredRows[t] ELSE {}]
  BY <1>1, <1>2
<1>4. CASE T = ListedTables
  BY <1>3, <1>4 DEF Space!Save, Space!Keep, StoredRows, KeptTables, ListedTables
<1>5. ASSUME NEW t \in Table, T = ListedTables \cup {t}
      PROVE  Space!Save
  BY <1>3, <1>5 DEF Space!Save, Space!Keep, StoredRows, KeptTables, ListedTables
<1> QED BY <1>4, <1>5

(* The statements and the steps that no table notices. *)
LEMMA SpaceOfStatements ==
    ASSUME SpaceInv,
           \/ \E t \in Table : CreateTable(t) \/ OpenTable(t) \/ CloseTable(t)
           \/ \E i \in Index : CreateIndex(i) \/ DropIndex(i) \/ OpenIndex(i)
    PROVE  SpaceStutters
<1> USE IndexesAssumption DEF SpaceStutters, NoCall, Creating, NotItsFile
<1>a. /\ memory \in Catalog /\ memory.tables \subseteq Table /\ memory.indexes \subseteq Index
      /\ saved.tables \subseteq Table /\ files \in [Table \cup Index -> FileState]
  BY DEF SpaceInv, CleanInv, CatalogInv, CatalogTypeOK, Catalog
<1>b. \A u \in Table : AfterOpen(u).rows = files[u].rows
  BY RestartKeepsSpace DEF SpaceInv
<1>1. call = NoCall /\ UNCHANGED saved /\ (call' # NoCall => call'.at = "save")
  BY DEF CreateTable, CreateIndex, DropIndex, OpenTable, OpenIndex, CloseTable, Begins
<1>2. KeptTables = saved.tables /\ KeptTables' = saved.tables
  BY <1>1 DEF KeptTables
<1>3. \A u \in Table : files'[u].rows = files[u].rows
  <2>1. \A u \in Table : files'[u] = files[u] \/ files'[u] = AfterOpen(u)
    BY <1>a DEF CreateTable, CreateIndex, DropIndex, OpenTable, OpenIndex, CloseTable
  <2> QED BY <1>b, <2>1
<1>4. ListedTables' = ListedTables
  <2>1. ASSUME NEW t \in Table, CreateTable(t)
        PROVE  ListedTables' = ListedTables
    <3>1. memory'.tables = memory.tables \cup {t} /\ t \notin memory.tables
      BY <1>a, <2>1, TableChanges DEF CreateTable
    <3>2. call'.op = "create_table" /\ call'.on = t /\ call' # NoCall
      BY <2>1 DEF CreateTable, Begins
    <3> QED BY <1>1, <3>1, <3>2 DEF ListedTables
  <2>2. ASSUME NEW i \in Index, CreateIndex(i) \/ DropIndex(i)
        PROVE  ListedTables' = ListedTables
    <3>1. memory'.tables = memory.tables
      BY <1>a, <2>2, IndexChanges DEF CreateIndex, DropIndex
    <3>2. call'.op # "create_table"
      BY <2>2 DEF CreateIndex, DropIndex, Begins
    <3> QED BY <1>1, <3>1, <3>2 DEF ListedTables
  <2>3. CASE (\E t \in Table : OpenTable(t) \/ CloseTable(t)) \/ \E i \in Index : OpenIndex(i)
    BY <2>3 DEF OpenTable, OpenIndex, CloseTable, ListedTables
  <2> QED BY <2>1, <2>2, <2>3
<1>5. StoredRows' = StoredRows
  BY <1>a, <1>2, <1>3, SameSpace
<1> QED BY <1>4, <1>5

LEMMA SpaceOfBuilding ==
    ASSUME SpaceInv, CatalogTypeOK',
           \/ NewIndex \/ NewIndexFails \/ BuildFails \/ BuildEnds \/ RemoveFails \/ RemoveEnds
           \/ \E r \in DataRow : BuildRow(r)
           \/ \E x \in Table \cup Index : RemoveFile(x)
    PROVE  SpaceStutters
<1> USE IndexesAssumption DEF SpaceStutters, NoCall, Creating, NotItsFile
<1>a. /\ memory \in Catalog /\ memory.tables \subseteq Table /\ memory.indexes \subseteq Index
      /\ saved.tables \subseteq Table /\ files \in [Table \cup Index -> FileState]
  BY DEF SpaceInv, CleanInv, CatalogInv, CatalogTypeOK, Catalog
<1>b. \A u \in Table : AfterOpen(u).rows = files[u].rows
  BY RestartKeepsSpace DEF SpaceInv
<1>c. call = NoCall \/ call \in [op : Calls, on : Table \cup Index, at : Stage,
                                 todo : (SUBSET (Table \cup Index)) \cup (SUBSET DataRow)]
  BY DEF SpaceInv, CleanInv, CatalogInv, CatalogTypeOK
<1>1. call # NoCall /\ call.op # "create_table" /\ UNCHANGED saved
  BY DEF NewIndex, NewIndexFails, BuildFails, BuildEnds, RemoveFails, RemoveEnds, BuildRow, RemoveFile, At,
         SpaceInv, ListedAreSaved, CleanInv, CatalogInv, CallIsWellFormed
<1>2. call' # NoCall => call'.op = call.op
  BY <1>c, <1>1 DEF NewIndex, NewIndexFails, BuildFails, BuildEnds, RemoveFails, RemoveEnds, BuildRow, RemoveFile, At,
         IndexRaises, Ends
<1>3. memory'.tables = memory.tables
  <2>1. IndexRaises /\ call.on \in Index => memory'.tables = memory.tables
    BY <1>a, IndexChanges DEF IndexRaises
  <2>2. call.at \in {"open", "build"} /\ call.op = "create_index" => call.on \in Index
    BY <1>1 DEF SpaceInv, CleanInv, CatalogInv, CallIsWellFormed
  <2>3. call.at = "build" => call.op = "create_index"
    BY <1>1 DEF SpaceInv, CleanInv, CatalogInv, CallIsWellFormed
  <2>4. UNCHANGED memory \/ (IndexRaises /\ call.on \in Index)
    BY <2>2, <2>3
    DEF NewIndex, NewIndexFails, BuildFails, BuildEnds, RemoveFails, RemoveEnds, BuildRow, RemoveFile, At
  <2> QED BY <2>1, <2>4
<1>4. ListedTables' = ListedTables
  BY <1>1, <1>2, <1>3 DEF ListedTables
<1>5. KeptTables = saved.tables /\ KeptTables' = saved.tables
  BY <1>1, <1>2 DEF KeptTables
<1>6. \A u \in saved.tables : files'[u].rows = files[u].rows
  <2>1. CASE NewIndex \/ NewIndexFails
    <3>1. call.on \in Index
      BY <1>1, <2>1 DEF NewIndex, NewIndexFails, At, SpaceInv, CleanInv, CatalogInv, CallIsWellFormed
    <3>2. \A u \in Table : files'[u] = files[u] \/ files'[u] = AfterOpen(u)
      BY <1>a, <2>1, <3>1 DEF NewIndex, NewIndexFails
    <3> QED BY <1>a, <1>b, <3>2
  <2>2. ASSUME NEW r \in DataRow, BuildRow(r) PROVE \A u \in Table : files'[u] = files[u]
    <3>1. call.on \in Index /\ files' = [files EXCEPT ![call.on].rows = @ \cup {r}]
      BY <2>2 DEF BuildRow, At, SpaceInv, CleanInv, CatalogInv, CallIsWellFormed
    <3> QED BY <1>a, <3>1
  <2>3. ASSUME NEW x \in Table \cup Index, RemoveFile(x)
        PROVE  \A u \in saved.tables : files'[u] = files[u]
    <3>1. x \notin saved.tables /\ files' = [files EXCEPT ![x] = Absent]
      BY <2>3 DEF RemoveFile, At, SpaceInv, CleanInv, CatalogInv, DoomedIsUnlisted, NamesIn
    <3> QED BY <1>a, <3>1
  <2>4. CASE BuildFails \/ BuildEnds \/ RemoveFails \/ RemoveEnds
    BY <2>4 DEF BuildFails, BuildEnds, RemoveFails, RemoveEnds
  <2> QED BY <1>a, <2>1, <2>2, <2>3, <2>4
<1>7. StoredRows' = StoredRows
  BY <1>5, <1>6, SameSpace
<1> QED BY <1>4, <1>7

(* While nothing has failed there is no file for a table that is being created, so
   that a restart would list every saved table, and no statement takes anything
   back. *)
LEMMA NothingHasFailed ==
    ASSUME SpaceInv, MayFail, MaxMishaps <= 1
    PROVE  FilesInStep /\ KeptTables = saved.tables /\ (call # NoCall => call.at # "revert")
<1>1. FilesInStep
  BY IndexesAssumption DEF SpaceInv, CleanInv, CatalogInv, CatalogTypeOK, Counters, MayFail
<1>2. saved.tables \subseteq Table
  BY DEF SpaceInv, CleanInv, CatalogInv, CatalogTypeOK, Catalog
<1>3. KeptTables = saved.tables
  BY <1>1, <1>2 DEF KeptTables, NotItsFile, FilesInStep
<1> QED BY <1>1, <1>3 DEF FilesInStep

LEMMA SpaceOfSaves ==
    ASSUME SpaceInv, MaxMishaps <= 1, SaveWorks \/ SaveFails
    PROVE  Space!Save \/ SpaceStutters
<1> USE IndexesAssumption DEF NoCall, Creating, NotItsFile
<1>a. /\ memory \in Catalog /\ memory.tables \subseteq Table /\ memory.indexes \subseteq Index
      /\ saved.tables \subseteq Table /\ files \in [Table \cup Index -> FileState]
      /\ ListedTables \subseteq saved.tables
  BY DEF SpaceInv, CleanInv, CatalogInv, CatalogTypeOK, Catalog, ListedAreSaved
<1>b. call # NoCall /\ call \in [op : Calls, on : Table \cup Index, at : Stage,
                                 todo : (SUBSET (Table \cup Index)) \cup (SUBSET DataRow)]
  BY DEF SpaceInv, CleanInv, CatalogInv, CatalogTypeOK, SaveWorks, SaveFails, At
<1>c. call.op = "create_table" => call.on \in Table /\ (call.at = "revert" => call.on \notin memory.tables)
                                  /\ (call.at = "save" => call.on \in memory.tables)
  BY <1>b DEF SpaceInv, CleanInv, CatalogInv, CallIsWellFormed, CreatedIsClosed, ListedAreSaved
<1>1. CASE SaveWorks
  <2>1. /\ call.at = "save" \/ call.at = "revert"
        /\ saved' = memory /\ UNCHANGED <<memory, files>>
    BY <1>1 DEF SaveWorks, At
  <2>2. CASE call.at = "revert" /\ call.op = "create_table"
    <3>1. call' = NoCall
      BY <1>1, <2>2 DEF SaveWorks, Ends
    <3>2. ListedTables = memory.tables /\ ListedTables' = memory.tables /\ KeptTables' = memory.tables
      BY <1>c, <2>1, <2>2, <3>1 DEF ListedTables, KeptTables
    <3>3. \A t \in ListedTables : t \in KeptTables
      BY <1>a, <1>c, <2>2, <3>2 DEF KeptTables
    <3> QED BY <2>1, <3>2, <3>3, SpaceIsSaved
  <2>3. CASE ~(call.at = "revert" /\ call.op = "create_table")
    <3>1. call' = [call EXCEPT !.at = AfterSave]
      BY <1>1, <2>3 DEF SaveWorks, Goes
    <3>2. call'.op = call.op /\ call'.on = call.on /\ call'.at = AfterSave /\ call' # NoCall
      BY <1>b, <3>1
    <3>3. ListedTables' = ListedTables
      BY <1>b, <2>1, <3>2 DEF ListedTables
    <3>4. KeptTables = saved.tables
      BY <2>1, <2>3 DEF KeptTables
    <3>5. CASE call.op = "create_table"
      <4>1. call'.at = "open" /\ call.on \in Table /\ call.at = "save"
        BY <1>c, <2>1, <2>3, <3>2, <3>5 DEF AfterSave
      <4>2. memory.tables = ListedTables \cup {call.on} /\ call.on \notin ListedTables
        BY <1>c, <1>b, <4>1, <3>5 DEF ListedTables
      <4>3. KeptTables' = IF files[call.on] = Absent THEN memory.tables ELSE ListedTables
        BY <1>b, <2>1, <3>2, <3>5, <4>1, <4>2 DEF KeptTables
      <4>4. \A t \in ListedTables : t \in KeptTables
        BY <1>a, <3>4
      <4>5. files[call.on] = Absent => files[call.on].rows = {}
        BY DEF Absent
      <4>6. CASE files[call.on] = Absent
        <5>1. KeptTables' = ListedTables \cup {call.on}
          BY <4>2, <4>3, <4>6
        <5>2. \A t \in ListedTables \cup {call.on} :
                 files'[t].rows = IF t \in KeptTables THEN files[t].rows ELSE {}
          BY <2>1, <4>4, <4>5, <4>6
        <5>3. PICK c \in Table : c = call.on
          BY <4>1
        <5> QED BY <3>3, <5>1, <5>2, <5>3, SpaceIsSaved
      <4>7. CASE files[call.on] # Absent
        <5>1. KeptTables' = ListedTables
          BY <4>3, <4>7
        <5> QED BY <2>1, <3>3, <4>4, <5>1, SpaceIsSaved
      <4> QED BY <4>6, <4>7
    <3>6. CASE call.op # "create_table"
      <4>1. ListedTables = memory.tables /\ KeptTables' = memory.tables
        BY <1>b, <2>1, <3>2, <3>6 DEF ListedTables, KeptTables
      <4>2. \A t \in ListedTables : t \in KeptTables
        BY <1>a, <3>4
      <4> QED BY <2>1, <3>3, <4>1, <4>2, SpaceIsSaved
    <3> QED BY <3>5, <3>6
  <2> QED BY <2>2, <2>3
<1>2. CASE SaveFails
  <2>1. MayFail /\ call' = NoCall /\ UNCHANGED <<saved, files>> /\ (call.at = "save" \/ call.at = "revert")
        /\ memory' = IF call.at = "save" /\ call.op = "create_table" THEN SansTable(memory, call.on) ELSE memory
    BY <1>2 DEF SaveFails, Fails, At, Ends
  <2>2. call.at = "save" /\ KeptTables = saved.tables
    BY <1>b, <2>1, NothingHasFailed
  <2>3. KeptTables' = saved.tables
    BY <2>1 DEF KeptTables
  <2>4. StoredRows' = StoredRows
    BY <2>1, <2>2, <2>3, SameSpace
  <2>5. CASE call.op = "create_table"
    <3>1. memory'.tables = memory.tables \ {call.on}
      BY <1>a, <1>c, <2>1, <2>2, <2>5, TableChanges, SMTT(30)
    <3> QED BY <1>b, <2>1, <2>4, <2>5, <3>1 DEF SpaceStutters, ListedTables
  <2>6. CASE call.op # "create_table"
    BY <1>b, <2>1, <2>4, <2>6 DEF SpaceStutters, ListedTables
  <2> QED BY <2>5, <2>6
<1> QED BY <1>1, <1>2

LEMMA SpaceOfCreation ==
    ASSUME SpaceInv, MaxMishaps <= 1, NewTable \/ NewTableRefused \/ NewTableFails
    PROVE  Space!SpaceNext \/ SpaceStutters
<1> USE IndexesAssumption DEF NoCall, Creating, NotItsFile
<1>a. /\ memory \in Catalog /\ memory.tables \subseteq Table /\ memory.indexes \subseteq Index
      /\ saved.tables \subseteq Table /\ files \in [Table \cup Index -> FileState]
      /\ ListedTables \subseteq saved.tables
  BY DEF SpaceInv, CleanInv, CatalogInv, CatalogTypeOK, Catalog, ListedAreSaved
<1>b. /\ call # NoCall /\ call \in [op : Calls, on : Table \cup Index, at : Stage,
                                    todo : (SUBSET (Table \cup Index)) \cup (SUBSET DataRow)]
      /\ call.at = "open" /\ call.op = "create_table" /\ UNCHANGED saved
  BY DEF SpaceInv, CleanInv, CatalogInv, CatalogTypeOK, NewTable, NewTableRefused, NewTableFails, At
<1>c. PICK c \in Table : c = call.on
  BY <1>b DEF SpaceInv, CleanInv, CatalogInv, CallIsWellFormed
<1>d. memory = saved /\ c \in memory.tables /\ ListedTables = memory.tables \ {c}
  BY <1>b, <1>c DEF SpaceInv, CleanInv, CatalogInv, CreatedIsClosed, ListedAreSaved, ListedTables
<1>e. KeptTables = IF files[c] = Absent THEN saved.tables ELSE ListedTables
  BY <1>a, <1>b, <1>c, <1>d DEF KeptTables
<1>f. Absent.rows = {} /\ Built({}).rows = {} /\ Built({}) # Absent /\ Torn # Absent
  BY DEF Absent, Built, Torn
<1>1. CASE NewTable
  <2>1. files[c] = Absent /\ files' = [files EXCEPT ![c] = Built({})] /\ call' = NoCall /\ UNCHANGED memory
    BY <1>1, <1>c DEF NewTable, Ends
  <2>2. \A t \in Table : files'[t].rows = files[t].rows
    BY <1>a, <1>f, <2>1
  <2>3. KeptTables = saved.tables /\ KeptTables' = saved.tables
    BY <1>b, <1>e, <2>1 DEF KeptTables
  <2>4. StoredRows' = StoredRows
    BY <1>a, <2>2, <2>3, SameSpace
  <2>5. ListedTables' = ListedTables \cup {c}
    BY <1>d, <2>1 DEF ListedTables
  <2>6. c \in DOMAIN StoredRows /\ StoredRows[c] = {}
    BY <1>d, <1>f, <2>1, <2>3 DEF StoredRows
  <2>7. Space!Offer(c)
    BY <2>4, <2>5, <2>6 DEF Space!Offer, StoredRows, KeptTables, ListedTables
  <2> QED BY <1>c, <2>7 DEF Space!SpaceNext
<1>2. CASE NewTableRefused \/ NewTableFails
  <2>1. memory' = SansTable(memory, c) /\ call' = [call EXCEPT !.at = "revert"]
    BY <1>2, <1>c DEF NewTableRefused, NewTableFails, Goes
  <2>2. memory'.tables = memory.tables \ {c}
    BY <1>a, <2>1, TableChanges
  <2>3. call' # NoCall /\ call'.op = "create_table" /\ call'.on = c /\ call'.at = "revert"
    BY <1>b, <1>c, <2>1
  <2>4. ListedTables' = ListedTables
    BY <1>d, <2>2, <2>3 DEF ListedTables
  <2>5. KeptTables' = IF files'[c] = Absent THEN saved.tables ELSE ListedTables
    BY <1>a, <1>b, <1>d, <2>3 DEF KeptTables
  <2>6. CASE UNCHANGED files
    <3>1. StoredRows' = StoredRows
      BY <1>e, <2>5, <2>6, SameSpace
    <3> QED BY <2>4, <3>1 DEF SpaceStutters
  <2>7. CASE files' # files
    <3>1. files[c] = Absent /\ files' = [files EXCEPT ![c] = Torn]
      <4>1. files[c] = Absent /\ \E f \in {Absent, Torn} : files' = [files EXCEPT ![c] = f]
        BY <1>2, <1>c, <2>7 DEF NewTableRefused, NewTableFails
      <4>2. files' # [files EXCEPT ![c] = Absent]
        BY <1>a, <2>7, <4>1
      <4> QED BY <4>1, <4>2
    <3>2. KeptTables' = ListedTables
      BY <1>a, <1>f, <2>5, <3>1
    <3>3. \A t \in ListedTables : t \in KeptTables /\ files'[t] = files[t]
      BY <1>a, <1>d, <1>e, <3>1
    <3>4. Space!Save
      BY <2>4, <3>2, <3>3, SpaceIsSaved
    <3> QED BY <3>4 DEF Space!SpaceNext
  <2> QED BY <2>6, <2>7
<1> QED BY <1>1, <1>2

LEMMA SpaceOfRows ==
    ASSUME SpaceInv, NEW t \in Table, NEW r \in DataRow, InsertRow(t, r) \/ DeleteRow(t, r)
    PROVE  Space!AddRow(t, r) \/ Space!TakeRow(t, r)
<1> USE IndexesAssumption DEF NoCall, Creating, NotItsFile
<1>a. /\ memory.tables \subseteq Table /\ memory.indexes \subseteq Index
      /\ saved.tables \subseteq Table /\ files \in [Table \cup Index -> FileState]
      /\ ListedTables \subseteq saved.tables
  BY DEF SpaceInv, CleanInv, CatalogInv, CatalogTypeOK, Catalog, ListedAreSaved
<1>1. call = NoCall /\ t \in memory.tables /\ UNCHANGED <<memory, saved, call>>
  BY DEF InsertRow, DeleteRow, ReadyForDml
<1>2. /\ ListedTables = memory.tables /\ ListedTables' = memory.tables
      /\ KeptTables = saved.tables /\ KeptTables' = saved.tables /\ t \in saved.tables
  BY <1>a, <1>1 DEF ListedTables, KeptTables
<1>3. Writes(t) \cap Table = {t}
  BY <1>a DEF Writes, FilesOf
<1>4. AfterOpen(t).rows = files[t].rows
  BY RestartKeepsSpace DEF SpaceInv
<1>5. StoredRows' = [u \in saved.tables |-> files'[u].rows] /\ StoredRows = [u \in saved.tables |-> files[u].rows]
  BY <1>2 DEF StoredRows
<1>6. ASSUME NEW R, files' = [x \in DOMAIN files |-> IF x \in Writes(t) THEN Built(R) ELSE files[x]]
      PROVE  StoredRows' = [StoredRows EXCEPT ![t] = R]
  <2>1. \A u \in Table : files'[u].rows = IF u = t THEN R ELSE files[u].rows
    BY <1>a, <1>3, <1>6 DEF Built
  <2> QED BY <1>a, <1>2, <1>5, <2>1
<1>7. StoredRows[t] = files[t].rows
  BY <1>2, <1>5
<1>8. CASE InsertRow(t, r)
  <2>1. files' = [x \in DOMAIN files |->
                    IF x \in Writes(t) THEN Built(AfterOpen(x).rows \cup {r}) ELSE files[x]]
    BY <1>8 DEF InsertRow
  <2>2. \A u \in Table : files'[u].rows = IF u = t THEN files[t].rows \cup {r} ELSE files[u].rows
    BY <1>a, <1>3, <1>4, <2>1 DEF Built
  <2>3. StoredRows' = [StoredRows EXCEPT ![t] = @ \cup {r}]
    BY <1>a, <1>2, <1>5, <2>2
  <2> QED BY <1>1, <1>2, <2>3 DEF Space!AddRow, StoredRows, KeptTables, ListedTables
<1>9. CASE DeleteRow(t, r)
  <2>1. files' = [x \in DOMAIN files |->
                    IF x \in Writes(t) THEN Built(AfterOpen(x).rows \ {r}) ELSE files[x]]
    BY <1>9 DEF DeleteRow
  <2>2. \A u \in Table : files'[u].rows = IF u = t THEN files[t].rows \ {r} ELSE files[u].rows
    BY <1>a, <1>3, <1>4, <2>1 DEF Built
  <2>3. StoredRows' = [StoredRows EXCEPT ![t] = @ \ {r}]
    BY <1>a, <1>2, <1>5, <2>2
  <2> QED BY <1>1, <1>2, <2>3 DEF Space!TakeRow, StoredRows, KeptTables, ListedTables
<1> QED BY <1>8, <1>9

LEMMA SpaceOfDrop ==
    ASSUME SpaceInv, NEW t \in Table, DropTable(t)
    PROVE  Space!Withdraw(t)
<1> USE IndexesAssumption DEF NoCall, Creating, NotItsFile
<1>a. memory \in Catalog
  BY DEF SpaceInv, CleanInv, CatalogInv, CatalogTypeOK
<1>1. /\ call = NoCall /\ call'.op = "drop_table" /\ call'.at = "save" /\ UNCHANGED <<saved, files>>
      /\ memory'.tables = memory.tables \ {t}
  BY <1>a, TableChanges DEF DropTable, Begins
<1>2. KeptTables = saved.tables /\ KeptTables' = saved.tables /\ ListedTables' = ListedTables \ {t}
  BY <1>1 DEF KeptTables, ListedTables
<1>3. StoredRows' = StoredRows
  BY <1>1, <1>2, SameSpace
<1> QED BY <1>2, <1>3 DEF Space!Withdraw, StoredRows, KeptTables, ListedTables

LEMMA SpaceOfRestart ==
    ASSUME SpaceInv, MaxMishaps <= 1, Reopen \/ ProcessDies
    PROVE  Space!Restart
<1> USE DEF NoCall, Creating, NotItsFile
<1>1. memory' = saved /\ call' = NoCall /\ UNCHANGED <<saved, files>>
  BY DEF Reopen, ProcessDies, Reload
<1>2. KeptTables = saved.tables
  <2>1. CASE Reopen
    BY <2>1 DEF Reopen, KeptTables
  <2>2. CASE ProcessDies
    BY <2>2, NothingHasFailed DEF ProcessDies
  <2> QED BY <2>1, <2>2
<1>3. KeptTables' = saved.tables /\ ListedTables' = saved.tables
  BY <1>1 DEF KeptTables, ListedTables
<1>4. StoredRows' = StoredRows
  BY <1>1, <1>2, <1>3, SameSpace
<1>5. DOMAIN StoredRows = saved.tables
  BY <1>2 DEF StoredRows
<1> QED BY <1>3, <1>4, <1>5 DEF Space!Restart, StoredRows, KeptTables, ListedTables

LEMMA SpaceInit ==
    CatalogInit => SpaceInv /\ Space!SpaceInit
<1> SUFFICES ASSUME CatalogInit PROVE SpaceInv /\ Space!SpaceInit
  OBVIOUS
<1>1. EmptyUntilBuilt /\ ListedAreSaved
  BY DEF CatalogInit, EmptyUntilBuilt, ListedAreSaved, ListedTables, Creating, Absent
<1>2. Space!SpaceInit
  BY DEF CatalogInit, Space!SpaceInit
<1> QED BY <1>1, <1>2, CleanInit DEF SpaceInv

LEMMA SpaceInvStep == SpaceInv /\ [CatalogNext]_catalogVars => SpaceInv'
<1> SUFFICES ASSUME SpaceInv, [CatalogNext]_catalogVars PROVE SpaceInv'
  OBVIOUS
<1>1. CleanInv'
  BY CleanStep DEF SpaceInv
<1>2. CASE CatalogNext
  BY <1>1, <1>2, EmptyUntilBuiltStep, ListedAreSavedStep DEF SpaceInv, CleanInv
<1>3. CASE UNCHANGED catalogVars
  BY <1>1, <1>3 DEF catalogVars, SpaceInv, EmptyUntilBuilt, ListedAreSaved, ListedTables, Creating, NoCall
<1> QED BY <1>2, <1>3

LEMMA SpaceStep ==
    ASSUME SpaceInv, SpaceInv', MaxMishaps <= 1, [CatalogNext]_catalogVars
    PROVE  [Space!SpaceNext]_(Space!spaceVars)
<1>1. SpaceStutters => UNCHANGED Space!spaceVars
  BY DEF SpaceStutters, Space!spaceVars, StoredRows, KeptTables, ListedTables
<1>2. CASE UNCHANGED catalogVars
  <2>1. KeptTables' = KeptTables /\ ListedTables' = ListedTables
    BY <1>2 DEF catalogVars, KeptTables, ListedTables, Creating, NotItsFile, NoCall, Absent
  <2>2. StoredRows' = StoredRows
    BY <1>2, <2>1, SameSpace DEF catalogVars
  <2> QED BY <1>1, <2>1, <2>2 DEF SpaceStutters
<1>3. CASE \/ \E t \in Table : CreateTable(t) \/ OpenTable(t) \/ CloseTable(t)
           \/ \E i \in Index : CreateIndex(i) \/ DropIndex(i) \/ OpenIndex(i)
  BY <1>1, <1>3, SpaceOfStatements
<1>4. ASSUME NEW t \in Table, NEW r \in DataRow, InsertRow(t, r) \/ DeleteRow(t, r)
      PROVE  Space!SpaceNext
  BY <1>4, SpaceOfRows DEF Space!SpaceNext
<1>5. ASSUME NEW t \in Table, DropTable(t)
      PROVE  Space!SpaceNext
  BY <1>5, SpaceOfDrop DEF Space!SpaceNext
<1>6. CASE SaveWorks \/ SaveFails
  BY <1>1, <1>6, SpaceOfSaves DEF Space!SpaceNext
<1>7. CASE NewTable \/ NewTableRefused \/ NewTableFails
  BY <1>1, <1>7, SpaceOfCreation
<1>8. CASE \/ NewIndex \/ NewIndexFails \/ BuildFails \/ BuildEnds \/ RemoveFails \/ RemoveEnds
           \/ \E r \in DataRow : BuildRow(r)
           \/ \E x \in Table \cup Index : RemoveFile(x)
  BY <1>1, <1>8, SpaceOfBuilding DEF SpaceInv, CleanInv, CatalogInv
<1>9. CASE Reopen \/ ProcessDies
  BY <1>9, SpaceOfRestart DEF Space!SpaceNext
<1> QED
  BY <1>2, <1>3, <1>4, <1>5, <1>6, <1>7, <1>8, <1>9 DEF CatalogNext

(* With at most one failure or crash, tables appear empty, vanish as a whole, change
   only by DML, and a restart finds them as they were left: every step of a
   statement over the catalog and the files is a step of TableSpace or a stutter. *)
THEOREM CatalogImplementsTableSpace ==
    ASSUME MaxMishaps <= 1
    PROVE  CatalogSpec => ImplementsTableSpace
<1>1. SpaceInv /\ SpaceInv' /\ [CatalogNext]_catalogVars => [Space!SpaceNext]_(Space!spaceVars)
  BY SpaceStep
<1> QED
  BY <1>1, SpaceInit, SpaceInvStep, PTL DEF CatalogSpec, ImplementsTableSpace, Space!SpaceSpec

===============================================================================
