--------------------------- MODULE SequentialFile ---------------------------
(***************************************************************************)
(* A sequential file (core/src/storage/sequential_file.cpp over            *)
(* disk_manager.cpp): a chain of main pages in key order, one overflow     *)
(* page each, rows marked as deleted until their group is split or the     *)
(* whole file is written again and replaced.                               *)
(*                                                                         *)
(* A call is the change of the object's fields, which nobody sees before   *)
(* it ends, and then one step per write, since the process may die between *)
(* any two. The writes go through the stream of HeapFile: a page goes to   *)
(* the file, a header or a meta area waits in the buffer for the next seek.*)
(***************************************************************************)
EXTENDS Naturals, Sequences, FiniteSets, SequencesExt, FiniteSetsExt

CONSTANTS Setups,       \* files to look at: records of the fields below
          Risks         \* the moments in which the process may die

VARIABLES disk,      \* the file: whether it is there, its pages, header and meta area
          fresh,     \* the .reorg file, once it is whole
          buffer,    \* the small write that is still in the buffer of the stream
          mem,       \* page_count_, live_, deleted_, main_head_, main_pages_, first_keys_
          work,      \* the writes the call in progress has left, and what follows them
          up,        \* the SequentialFile object exists
          setup,     \* the file: its keys (numbers) and values, slots_per_page_ and
                     \* waste_threshold_ (in percent), and the bounds: its pages, at
                     \* least a page per key, and its failures and crashes
          kept,      \* the rows that a new process finds, the last time it could open the file
          mishaps

seqVars == <<disk, fresh, buffer, mem, work, up, setup, kept, mishaps>>

NoPage == 0   \* kInvalidPage
NoMeta == [live |-> 0, deleted |-> 0, head |-> NoPage, saved |-> FALSE]
Nothing == [kind |-> "none"]
NoWork == [todo |-> <<>>, dropped |-> FALSE, retry |-> <<>>, next |-> ""]
Blank == [slots |-> <<>>, next |-> NoPage, overflow |-> NoPage]
NoFile == [exists |-> FALSE, pages |-> [p \in 1 .. setup.pages |-> Blank],
           count |-> 0, meta |-> NoMeta]
NewFile == [NoFile EXCEPT !.exists = TRUE]
NoMemory == [count |-> 0, live |-> 0, deleted |-> 0, head |-> NoPage, main |-> <<>>, first |-> <<>>]

SetupRows == [key : setup.keys, val : setup.vals]
AnyRows == UNION {[key : s.keys, val : s.vals] : s \in Setups}
Used(r) == [key |-> r.key, val |-> r.val, live |-> TRUE]
RowOf(slot) == [key |-> slot.key, val |-> slot.val]
LiveAt(slots) == {i \in DOMAIN slots : slots[i].live}
LiveRows(slots) == {RowOf(slots[i]) : i \in LiveAt(slots)}

(* What a sequence has at the places of a set, in their order.                *)
Picked(s, places) ==
    [n \in 1 .. Cardinality(places) |->
        s[CHOOSE i \in places : Cardinality({j \in places : j < i}) = n - 1]]

(* A set of slots, sorted by key.                                             *)
InKeyOrder(slots) ==
    [n \in 1 .. Cardinality(slots) |->
        CHOOSE x \in slots : /\ Cardinality({y \in slots : y.key < x.key}) < n
                             /\ Cardinality({y \in slots : y.key <= x.key}) >= n]

Meta(m) == [live |-> m.live, deleted |-> m.deleted, head |-> m.head, saved |-> TRUE]

(* What the next seek writes first.                                        *)
Flushed ==
    CASE buffer.kind = "header" -> [disk EXCEPT !.count = buffer.count]
      [] buffer.kind = "meta"   -> [disk EXCEPT !.meta = buffer.meta]
      [] OTHER                  -> disk

SeqInit ==
    /\ setup \in Setups
    /\ disk = NewFile /\ fresh = NoFile /\ mem = NoMemory
    /\ buffer = [kind |-> "meta", meta |-> Meta(NoMemory)]
    /\ work = NoWork /\ up = TRUE /\ kept = {} /\ mishaps = 0

-----------------------------------------------------------------------------
(* The pages from p on, by the field next; one too many if there is a cycle.  *)
Chain(d, p) ==
    LET walk[n \in 0 .. setup.pages] ==
            IF n = 0 THEN p
            ELSE LET q == walk[n - 1] IN IF q = NoPage THEN NoPage ELSE d.pages[q].next
    IN  [i \in 1 .. Cardinality({n \in 0 .. setup.pages : walk[n] # NoPage}) |-> walk[i - 1]]

Overflow(d, p) == Chain(d, d.pages[p].overflow)
Group(d, p) == <<p>> \o Overflow(d, p)
SlotsOf(d, ps) == FlattenSeq([i \in DOMAIN ps |-> d.pages[ps[i]].slots])
RowsFrom(d, head) ==
    UNION {LiveRows(SlotsOf(d, Group(d, p))) : p \in ToSet(Chain(d, head))}

FirstKeys(d, ps) == [i \in DOMAIN ps |-> d.pages[ps[i]].slots[1].key]

(* load_meta and build_directory: what makes the constructor throw. A file    *)
(* that is not there is created, and a new one has no meta area.              *)
Opens(d) ==
    LET main == Chain(d, d.meta.head)
        visits == UNION {LET group == Group(d, main[i])
                         IN  {<<i, j, group[j]>> : j \in DOMAIN group} : i \in DOMAIN main}
        read == UNION {{<<v, k>> : k \in DOMAIN d.pages[v[3]].slots} : v \in visits}
        live == {x \in read : d.pages[x[1][3]].slots[x[2]].live}
    IN  IF ~d.meta.saved THEN d.count = 0
        ELSE /\ Cardinality(visits) <= d.count
             /\ \A v \in visits : v[3] \in 1 .. d.count
             /\ \A i \in DOMAIN main : d.pages[main[i]].slots # <<>>
             /\ \A i \in 2 .. Len(main) : FirstKeys(d, main)[i - 1] < FirstKeys(d, main)[i]
             /\ d.meta.live = Cardinality(live)
             /\ d.meta.deleted = Cardinality(read) - d.meta.live

-----------------------------------------------------------------------------
(* group_of: the last main page that starts at or before the key.             *)
GroupOf(key) == Max({1} \cup {g \in DOMAIN mem.first : mem.first[g] <= key})

(* lower_bound_in_page: how many slots come before the key.                   *)
LowerBound(slots, key) ==
    LET search[n \in 0 .. Len(slots)] ==
            IF n = 0 THEN [low |-> 0, high |-> Len(slots)]
            ELSE LET now == search[n - 1]
                     middle == now.low + (now.high - now.low) \div 2
                 IN  IF now.low >= now.high THEN now
                     ELSE IF slots[middle + 1].key < key THEN [now EXCEPT !.low = middle + 1]
                     ELSE [now EXCEPT !.high = middle]
    IN  search[Len(slots)].low

(* The slots of a main page with the key: marked ones, and at most a live one.*)
Run(slots, key) ==
    {i \in LowerBound(slots, key) + 1 .. Len(slots) :
        \A j \in LowerBound(slots, key) + 1 .. i : slots[j].key = key}

(* find_in_group: the page and the slot of the live row with the key, if any. *)
FindInGroup(d, p, key) ==
    LET own == {<<p, i>> : i \in {j \in Run(d.pages[p].slots, key) : d.pages[p].slots[j].live}}
        extra == {<<q, i>> : q \in ToSet(Overflow(d, p)), i \in 1 .. setup.slots}
        found == {at \in extra : /\ at[2] <= Len(d.pages[at[1]].slots)
                                 /\ d.pages[at[1]].slots[at[2]].live
                                 /\ d.pages[at[1]].slots[at[2]].key = key}
    IN  IF own # {} THEN own ELSE found

Found(key) ==
    IF mem.main = <<>> THEN {} ELSE FindInGroup(Flushed, mem.main[GroupOf(key)], key)

-----------------------------------------------------------------------------
Allocate(id) == [what |-> "allocate", page |-> id]
StorePage(id, image) == [what |-> "store", page |-> id, image |-> image]
SaveMeta == [what |-> "save_meta"]

Idle == up /\ work = NoWork

Starts(m, writes, next) ==
    /\ mem' = m
    /\ work' = [work EXCEPT !.todo = writes, !.retry = <<>>, !.next = next]
    /\ disk' = Flushed /\ buffer' = Nothing
    /\ UNCHANGED <<fresh, up, setup, mishaps>>

(* insert, at once or again after the split of the group.                     *)
MayInsert(r) ==
    /\ up /\ work.todo = <<>> /\ work.next = ""
    /\ work.retry \in {<<>>, <<r>>}
    /\ Found(r.key) = {}

(* What is common to the ways in which a row enters the file.                 *)
Counted(m) == [m EXCEPT !.live = @ + 1]
NewId == mem.count + 1

InsertFirst(r) ==
    /\ MayInsert(r) /\ mem.main = <<>> /\ NewId <= setup.pages
    /\ Starts(Counted([mem EXCEPT !.count = NewId, !.head = NewId, !.main = <<NewId>>, !.first = <<r.key>>]),
              <<Allocate(NewId), StorePage(NewId, [Blank EXCEPT !.slots = <<Used(r)>>]), SaveMeta>>, "")

InsertInPage(r) ==
    LET g == GroupOf(r.key)
        p == mem.main[g]
        image == Flushed.pages[p]
        before == LowerBound(image.slots, r.key)
    IN  /\ MayInsert(r) /\ mem.main # <<>> /\ Len(image.slots) < setup.slots
        /\ Starts(Counted([mem EXCEPT !.first[g] = IF before = 0 THEN r.key ELSE @]),
                  <<StorePage(p, [image EXCEPT !.slots = InsertAt(@, before + 1, Used(r))]), SaveMeta>>, "")

(* The page of the key is full.                                               *)
IsFull(r) == MayInsert(r) /\ mem.main # <<>> /\ Len(Flushed.pages[mem.main[GroupOf(r.key)]].slots) = setup.slots

(* Variant: whatever the group is.                                            *)
GoesPast(r) == r.key > Flushed.pages[mem.main[GroupOf(r.key)]].slots[setup.slots].key

GoesLast(r) ==
    LET g == GroupOf(r.key)
    IN  g = Len(mem.main) /\ r.key > Flushed.pages[mem.main[g]].slots[setup.slots].key

InsertAtEnd(r) ==
    LET p == Last(mem.main)
    IN  /\ IsFull(r) /\ GoesLast(r) /\ NewId <= setup.pages
        /\ Starts(Counted([mem EXCEPT !.count = NewId, !.main = Append(@, NewId), !.first = Append(@, r.key)]),
                  <<Allocate(NewId), StorePage(NewId, [Blank EXCEPT !.slots = <<Used(r)>>]),
                    StorePage(p, [Flushed.pages[p] EXCEPT !.next = NewId]), SaveMeta>>, "")

InsertInOverflow(r) ==
    LET p == mem.main[GroupOf(r.key)]
        over == Flushed.pages[p].overflow
    IN  /\ IsFull(r) /\ ~GoesLast(r)
        /\ over # NoPage /\ Len(Flushed.pages[over].slots) < setup.slots
        /\ Starts(Counted(mem),
                  <<StorePage(over, [Flushed.pages[over] EXCEPT !.slots = Append(@, Used(r))]), SaveMeta>>, "")

InsertInNewOverflow(r) ==
    LET p == mem.main[GroupOf(r.key)]
    IN  /\ IsFull(r) /\ ~GoesLast(r)
        /\ Flushed.pages[p].overflow = NoPage /\ NewId <= setup.pages
        /\ Starts(Counted([mem EXCEPT !.count = NewId]),
                  <<Allocate(NewId), StorePage(NewId, Blank), StorePage(p, [Flushed.pages[p] EXCEPT !.overflow = NewId]),
                    StorePage(NewId, [Blank EXCEPT !.slots = <<Used(r)>>]), SaveMeta>>, "")

-----------------------------------------------------------------------------
(* split_group, when the overflow page is full too: the live rows of the group*)
(* go, half a page each, to its own pages and as many new ones as it takes;   *)
(* a group without any leaves the chain. Then insert starts again.            *)
PerPage == Max({1, setup.slots \div 2})

(* Variant: the marked rows are copied with the live ones.                    *)
LiveAndMarked(slots) == InKeyOrder({Used(slot) : slot \in ToSet(slots)})

LiveOf(slots) == InKeyOrder({slot \in ToSet(slots) : slot.live})

Chunk(rows, i, size) == SubSeq(rows, (i - 1) * size + 1, Min({i * size, Len(rows)}))

Halves(d, g) ==
    LET own == Group(d, mem.main[g])
        slots == SlotsOf(d, own)
        rows == LiveOf(slots)
        pages == (Len(rows) + PerPage - 1) \div PerPage
        new == IF pages > Len(own) THEN pages - Len(own) ELSE 0
        ids == SubSeq(own \o [i \in 1 .. new |-> mem.count + i], 1, pages)
        last == d.pages[mem.main[g]].next
    IN  [new |-> new, ids |-> ids,
         first |-> [i \in 1 .. pages |-> Chunk(rows, i, PerPage)[1].key],
         dropped |-> Len(slots) - Cardinality(LiveAt(slots)),
         stores |-> [i \in 1 .. pages |->
                       StorePage(ids[i], [slots |-> Chunk(rows, i, PerPage), overflow |-> NoPage,
                                      next |-> IF i < pages THEN ids[i + 1] ELSE last])],
         unlink |-> IF pages > 0 \/ g = 1 THEN <<>>
                    ELSE <<StorePage(mem.main[g - 1], [d.pages[mem.main[g - 1]] EXCEPT !.next = last])>>,
         head |-> IF pages = 0 /\ g = 1 THEN last ELSE mem.head]

SplitGroup(r) ==
    LET g == GroupOf(r.key)
        over == Flushed.pages[mem.main[g]].overflow
        halves == Halves(Flushed, g)
        Spliced(s, new) == SubSeq(s, 1, g - 1) \o new \o SubSeq(s, g + 1, Len(s))
    IN  /\ IsFull(r) /\ ~GoesLast(r)
        /\ over # NoPage /\ Len(Flushed.pages[over].slots) = setup.slots
        /\ mem.count + halves.new < setup.pages
        /\ mem' = [mem EXCEPT !.count = @ + halves.new, !.head = halves.head,
                              !.deleted = @ - halves.dropped,
                              !.main = Spliced(@, halves.ids), !.first = Spliced(@, halves.first)]
        /\ work' = [todo |-> [i \in 1 .. halves.new |-> Allocate(mem.count + i)] \o halves.stores
                             \o halves.unlink \o <<SaveMeta>>,
                    dropped |-> halves.ids = <<>> /\ g = Len(mem.main), retry |-> <<r>>, next |-> ""]
        /\ disk' = Flushed /\ buffer' = Nothing
        /\ UNCHANGED <<fresh, up, setup, mishaps>>

-----------------------------------------------------------------------------
(* remove marks the row, and writes the file again when the marks are too many*)
IsWasteful(m) == m.deleted > 0 /\ m.deleted * 100 > setup.threshold * (m.live + m.deleted)

RemoveByMark(k) ==
    LET after == [mem EXCEPT !.live = @ - 1, !.deleted = @ + 1]
    IN  /\ Idle
        /\ \E at \in Found(k) :
              Starts(after, <<StorePage(at[1], [Flushed.pages[at[1]] EXCEPT !.slots[at[2]].live = FALSE]), SaveMeta>>,
                     IF IsWasteful(after) THEN "rewrite" ELSE "")

Update(r) ==
    /\ Idle
    /\ \E at \in Found(r.key) :
          Starts(mem, <<StorePage(at[1], [Flushed.pages[at[1]] EXCEPT !.slots[at[2]] = Used(r)])>>, "")

Reorganize == Idle /\ Starts(mem, <<>>, "rewrite")

(* The next write of the call.                                                *)
Write ==
    /\ up /\ work.todo # <<>>
    /\ LET w == Head(work.todo)
       IN  /\ disk' = CASE w.what = "allocate" -> [Flushed EXCEPT !.pages[w.page] = Blank]
                        [] w.what = "store"    -> [Flushed EXCEPT !.pages[w.page] = w.image]
                        [] OTHER               -> Flushed
           /\ buffer' = CASE w.what = "allocate" -> [kind |-> "header", count |-> w.page]
                          [] w.what = "store"    -> Nothing
                          [] OTHER               -> [kind |-> "meta", meta |-> Meta(mem)]
    /\ work' = IF Len(work.todo) = 1 /\ work.retry = <<>> /\ work.next = "" THEN NoWork
               ELSE [work EXCEPT !.todo = Tail(@)]
    /\ UNCHANGED <<fresh, mem, up, setup, mishaps>>

-----------------------------------------------------------------------------
(* read_group, cursor and scan: a group is sorted when it has an overflow.    *)
ReadGroup(d, p) ==
    LET slots == SlotsOf(d, Group(d, p))
    IN  IF d.pages[p].overflow = NoPage THEN Picked(slots, LiveAt(slots)) ELSE LiveOf(slots)

(* Variant: the main pages only.                                              *)
ScanMain(d) ==
    FlattenSeq([g \in DOMAIN mem.main |-> Picked(d.pages[mem.main[g]].slots, LiveAt(d.pages[mem.main[g]].slots))])

Scan(d) == FlattenSeq([g \in DOMAIN mem.main |-> ReadGroup(d, mem.main[g])])

Search(d, key) ==
    IF mem.main = <<>> THEN {}
    ELSE {RowOf(d.pages[at[1]].slots[at[2]]) : at \in FindInGroup(d, mem.main[GroupOf(key)], key)}

RangeSearch(d, low, high) ==
    LET start == GroupOf(low)
        goes == {g \in start .. Len(mem.main) : \A h \in start + 1 .. g : mem.first[h] <= high}
        Within(slot) == slot.live /\ slot.key >= low /\ slot.key <= high
        Of(g) ==
            LET p == mem.main[g]
                slots == d.pages[p].slots
                from == IF g = start THEN LowerBound(slots, low) + 1 ELSE 1
                before == {i \in from .. Len(slots) : \A j \in from .. i : slots[j].key <= high}
                own == {i \in before : Within(slots[i])}
            IN  IF d.pages[p].overflow = NoPage THEN Picked(slots, own)
                ELSE InKeyOrder({slots[i] : i \in own}
                                \cup {slot \in ToSet(SlotsOf(d, Overflow(d, p))) : Within(slot)})
    IN  IF mem.main = <<>> \/ low > high THEN <<>>
        ELSE FlattenSeq([i \in 1 .. Cardinality(goes) |-> Of(start + i - 1)])

-----------------------------------------------------------------------------
(* reorganize: the rows go to a second file, which then replaces this one.    *)
Fill == Max({1, (setup.slots * 8) \div 10})

Rewritten ==
    LET rows == Scan(Flushed)
        pages == (Len(rows) + Fill - 1) \div Fill
    IN  [NewFile EXCEPT !.count = pages,
                        !.pages = [p \in 1 .. setup.pages |->
                           IF p > pages THEN Blank
                           ELSE [slots |-> Chunk(rows, p, Fill), overflow |-> NoPage,
                                 next |-> IF p < pages THEN p + 1 ELSE NoPage]]]

Rewrite ==
    /\ up /\ work.todo = <<>> /\ work.next = "rewrite"
    /\ fresh' = Rewritten
    /\ disk' = Flushed /\ buffer' = Nothing
    /\ work' = [work EXCEPT !.next = "remove"]
    /\ UNCHANGED <<mem, up, setup, mishaps>>

(* A write of the second file throws, and so does remove.                     *)
RewriteFails ==
    /\ up /\ work.todo = <<>> /\ work.next = "rewrite" /\ mishaps < setup.mishaps
    /\ disk' = Flushed /\ buffer' = Nothing /\ work' = NoWork
    /\ mishaps' = mishaps + 1
    /\ UNCHANGED <<fresh, mem, up, setup>>

(* replace_with: the stream is closed, the file removed, the other renamed,   *)
(* and its header read.                                                       *)
RemoveOld ==
    /\ up /\ work.next = "remove"
    /\ disk' = NoFile /\ buffer' = Nothing
    /\ work' = [work EXCEPT !.next = "rename"]
    /\ UNCHANGED <<fresh, mem, up, setup, mishaps>>

RenameNew ==
    LET main == [p \in 1 .. fresh.count |-> p]
        after == [mem EXCEPT !.count = fresh.count, !.deleted = 0,
                             !.head = IF fresh.count = 0 THEN NoPage ELSE 1,
                             !.main = main, !.first = FirstKeys(fresh, main)]
    IN  /\ up /\ work.next = "rename"
        /\ disk' = fresh /\ fresh' = NoFile /\ mem' = after
        /\ buffer' = [kind |-> "meta", meta |-> Meta(after)]
        /\ work' = NoWork
        /\ UNCHANGED <<up, setup, mishaps>>

-----------------------------------------------------------------------------
(* The header is written by the destructor, the meta area by flush alone.     *)
OnClose == [Flushed EXCEPT !.count = mem.count]

Flush ==
    /\ Idle
    /\ disk' = [OnClose EXCEPT !.meta = Meta(mem)] /\ buffer' = Nothing
    /\ UNCHANGED <<fresh, mem, work, up, setup, mishaps>>

Close ==
    /\ Idle
    /\ disk' = Flushed /\ buffer' = [kind |-> "header", count |-> mem.count]
    /\ work' = [NoWork EXCEPT !.next = "close"]
    /\ UNCHANGED <<fresh, mem, up, setup, mishaps>>

Closed ==
    /\ up /\ work.next = "close"
    /\ disk' = Flushed /\ buffer' = Nothing /\ up' = FALSE /\ mem' = NoMemory /\ work' = NoWork
    /\ UNCHANGED <<fresh, setup, mishaps>>

(* In replace_with, in the call that dropped the last group, or at another moment. *)
Moment ==
    CASE work.next = "rename" -> "replace"
      [] work.dropped         -> "retry"
      [] OTHER                -> "other"

(* A .reorg file that is left is removed by the next reorganize.              *)
Crash ==
    /\ up /\ mishaps < setup.mishaps
    /\ Moment \in Risks
    /\ up' = FALSE /\ buffer' = Nothing /\ work' = NoWork /\ mem' = NoMemory /\ fresh' = NoFile
    /\ mishaps' = mishaps + 1
    /\ UNCHANGED <<disk, setup>>

Open ==
    LET main == Chain(disk, disk.meta.head)
    IN  /\ ~up /\ Opens(disk)
        /\ up' = TRUE
        /\ disk' = [disk EXCEPT !.exists = TRUE]
        /\ buffer' = IF disk.meta.saved THEN Nothing ELSE [kind |-> "meta", meta |-> Meta(NoMemory)]
        /\ mem' = [count |-> disk.count, live |-> disk.meta.live, deleted |-> disk.meta.deleted,
                   head |-> disk.meta.head, main |-> main, first |-> FirstKeys(disk, main)]
        /\ UNCHANGED <<fresh, work, setup, mishaps>>

RowsNow == RowsFrom(disk, disk.meta.head)

SeqNext ==
    /\ \/ \E r \in SetupRows : \/ InsertFirst(r) \/ InsertInPage(r) \/ InsertAtEnd(r)
                          \/ InsertInOverflow(r) \/ InsertInNewOverflow(r) \/ SplitGroup(r)
                          \/ Update(r)
       \/ \E k \in setup.keys : RemoveByMark(k)
       \/ Write
       \/ Reorganize \/ Rewrite \/ RewriteFails \/ RemoveOld \/ RenameNew
       \/ Flush \/ Close \/ Closed \/ Crash \/ Open
    /\ kept' = IF disk'.exists /\ Opens(disk') THEN RowsFrom(disk', disk'.meta.head) ELSE kept

SeqSpec == SeqInit /\ [][SeqNext]_seqVars

-----------------------------------------------------------------------------
(* Between two calls the searches that use the order find what a scan finds,  *)
(* and the scan comes out in key order with no key twice, so that no row that *)
(* was marked is back (sequential_file.hpp:124-125, scan and range_search).   *)
ReadsAgree ==
    Idle => LET scan == Scan(Flushed)
            IN  /\ \A i, j \in DOMAIN scan : i < j => scan[i].key < scan[j].key
                /\ mem.live = Len(scan)
                /\ \A k \in setup.keys : Search(Flushed, k) = {r \in LiveRows(scan) : r.key = k}
                /\ \A low, high \in setup.keys :
                      LET Within(slot) == slot.key >= low /\ slot.key <= high
                      IN  RangeSearch(Flushed, low, high) = Picked(scan, {i \in DOMAIN scan : Within(scan[i])})

(* A file closed without a flush opens again with the rows it had: its        *)
(* directory is in order, no main page is empty and both counters are right,  *)
(* whatever splits, dropped groups and reorganizations came before            *)
(* (build_directory).                                                         *)
SequentialReopens ==
    Idle => /\ Opens(OnClose)
            /\ RowsFrom(OnClose, OnClose.meta.head) = LiveRows(Scan(Flushed))

(* disk_manager.hpp:75-79 and sequential_file.cpp:494-498: whatever fails in a*)
(* reorganization, and wherever the process dies, the old file is intact or   *)
(* the new one is in its place.                                               *)
OriginalIsKept == ~up /\ Opens(disk) => RowsNow = kept

(* sequential_file.cpp:611-612: the keys of an overflow page are within the   *)
(* range of its group.                                                        *)
OverflowWithinGroup ==
    Idle => \A g \in 2 .. Len(mem.main) :
               \A slot \in ToSet(SlotsOf(Flushed, Overflow(Flushed, mem.main[g - 1]))) :
                  slot.live => slot.key < mem.first[g]

(* The file implements the contract of TableFile, through splits, rewrites and*)
(* crashes: its rows change one at a time or not at all.                      *)
Contract == INSTANCE RecordFile WITH
    Record <- AnyRows,
    KeyOf <- LAMBDA r : r.key,
    records <- kept

ImplementsRecordFile == Contract!FileSpec
=============================================================================
