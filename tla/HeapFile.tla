------------------------------- MODULE HeapFile -------------------------------
(***************************************************************************)
(* A heap file (core/src/storage/heap_file.cpp over disk_manager.cpp):     *)
(* pages of fixed-length slots, the pages with a free slot chained in a    *)
(* LIFO list whose head is in the meta area, and the live keys in memory.  *)
(*                                                                         *)
(* An operation that writes is two steps, because an exception or a crash  *)
(* can fall between them: the first reads or allocates the page and        *)
(* changes the list in memory, the second writes the page.  Writes go      *)
(* through a std::fstream: a page goes to the file, a header or a meta     *)
(* area stays in the buffer of the stream until the next seek.             *)
(***************************************************************************)
EXTENDS Naturals, FiniteSets

CONSTANTS Key, Val,     \* the records are pairs of a key and a value
          Pages,        \* bound on the pages of the file
          Slots,        \* slots_per_page_
          SlotSize,     \* slot_size_, in bytes
          Waste,        \* bytes of a page body that no slot uses
          MaxFaults,    \* bound on the page writes that fail
          MaxCrashes    \* bound on the crashes

ASSUME HeapAssumption ==
    /\ Pages \in Nat /\ Slots \in Nat \ {0} /\ SlotSize \in Nat \ {0}
    /\ Waste \in 0 .. SlotSize - 1
    /\ MaxFaults \in Nat /\ MaxCrashes \in Nat

VARIABLES disk,    \* the file: pages, page count of the header, meta area
          buffer,  \* the small write that is still in the buffer of the stream
          mem,     \* page_count_, live_, free_head_, free_pages_ and keys_
          op,      \* the operation in progress, with its scratch page
          open,    \* the HeapFile object exists
          faults, crashes

vars == <<disk, buffer, mem, op, open, faults, crashes>>

-------------------------------------------------------------------------------
PageId == 1 .. Pages

Slot == 1 .. Slots

Record == [key : Key, val : Val]

Free == [key |-> "free", val |-> "free"]

(* A slot is free by its state byte, whatever record it holds (heap_file.hpp:16). *)
ASSUME FreeIsNoRecord == Free \notin Record

NoPage == 0   \* kInvalidPage

Rid == [page : PageId, slot : Slot]

(* Page::clear: the whole body counts as free space. *)
BlankPage == [rows |-> [s \in Slot |-> Free], next |-> NoPage,
              free |-> Slots * SlotSize + Waste]

(* What insert makes of a page it has just allocated. *)
NewPage == [BlankPage EXCEPT !.free = Slots * SlotSize]

FreeSlots(p) == {s \in Slot : p.rows[s] = Free}

Meta(m) == [live |-> m.live, head |-> m.head, freePages |-> m.freePages]

Nothing == [kind |-> "none"]

(* The file once the buffer of the stream has been written: what a seek, a
   flush or the destructor do before anything else. *)
Flushed ==
    CASE buffer.kind = "header" -> [disk EXCEPT !.count = buffer.count]
      [] buffer.kind = "meta"   -> [disk EXCEPT !.meta = buffer.meta]
      [] OTHER                  -> disk

Init ==
    /\ disk = [pages |-> [p \in PageId |-> BlankPage], count |-> 0,
               meta |-> [live |-> 0, head |-> NoPage, freePages |-> 0]]
    /\ buffer = Nothing
    /\ mem = [count |-> 0, live |-> 0, head |-> NoPage, freePages |-> 0,
              keys |-> [k \in {} |-> 0]]
    /\ op = Nothing
    /\ open = TRUE
    /\ faults = 0 /\ crashes = 0

Idle == open /\ op = Nothing

-------------------------------------------------------------------------------
(* insert, up to the write of the page. *)

PutRow(p, s, r) == [p EXCEPT !.rows[s] = r, !.free = @ - SlotSize]

Lowest(ss) == CHOOSE s \in ss : \A u \in ss : s <= u

(* Variant: the record always goes to the first slot. *)
FillFirstSlot(m, id, page, r) ==
    LET filled == PutRow(page, 1, r)
        full == filled.free = 0
    IN  /\ mem' = IF full
                  THEN [m EXCEPT !.head = filled.next, !.freePages = @ - 1]
                  ELSE m
        /\ op' = [kind |-> "insert", row |-> r, rid |-> [page |-> id, slot |-> 1],
                  page |-> IF full THEN [filled EXCEPT !.next = NoPage] ELSE filled]

(* The page is filled in; if that leaves it without space it leaves the list,
   of which it is the head. *)
FillAndUnlink(m, id, page, r) ==
    LET s == Lowest(FreeSlots(page))
        filled == PutRow(page, s, r)
        full == filled.free = 0
    IN  /\ mem' = IF full
                  THEN [m EXCEPT !.head = filled.next, !.freePages = @ - 1]
                  ELSE m
        /\ op' = [kind |-> "insert", row |-> r, rid |-> [page |-> id, slot |-> s],
                  page |-> IF full THEN [filled EXCEPT !.next = NoPage] ELSE filled]

InsertInChained(r) ==
    /\ Idle /\ r.key \notin DOMAIN mem.keys
    /\ mem.head # NoPage
    /\ FreeSlots(Flushed.pages[mem.head]) # {}  \* otherwise it throws
    /\ FillAndUnlink(mem, mem.head, Flushed.pages[mem.head], r)
    /\ disk' = Flushed /\ buffer' = Nothing
    /\ UNCHANGED <<open, faults, crashes>>

(* DiskManager::allocate_page writes a blank page and then the header. *)
InsertInNewPage(r) ==
    LET id == mem.count + 1
    IN  /\ Idle /\ r.key \notin DOMAIN mem.keys
        /\ mem.head = NoPage
        /\ mem.count < Pages
        /\ disk' = [Flushed EXCEPT !.pages[id] = BlankPage]
        /\ buffer' = [kind |-> "header", count |-> id]
        /\ FillAndUnlink([mem EXCEPT !.count = id, !.head = id, !.freePages = @ + 1],
                         id, NewPage, r)
        /\ UNCHANGED <<open, faults, crashes>>

(* The write of the blank page throws and page_count_ goes back. The stream is
   left in error, so the next call throws as well, with nothing changed. *)
AllocateFails(r) ==
    /\ Idle /\ r.key \notin DOMAIN mem.keys
    /\ mem.head = NoPage
    /\ mem.count < Pages /\ faults < MaxFaults
    /\ disk' = Flushed /\ buffer' = Nothing
    /\ faults' = faults + 1
    /\ UNCHANGED <<mem, op, open, crashes>>

(* Variant: the page is chained even if it already was. *)
RemoveAlwaysChains(k) ==
    LET rid == mem.keys[k]
        page == Flushed.pages[rid.page]
        emptied == [page EXCEPT !.rows[rid.slot] = Free, !.free = @ + SlotSize]
    IN  /\ Idle /\ k \in DOMAIN mem.keys
        /\ disk' = Flushed /\ buffer' = Nothing
        /\ op' = [kind |-> "remove", row |-> page.rows[rid.slot], rid |-> rid,
                  page |-> [emptied EXCEPT !.next = mem.head]]
        /\ mem' = [mem EXCEPT !.head = rid.page, !.freePages = @ + 1]
        /\ UNCHANGED <<open, faults, crashes>>

(* Variant: the slot is freed in the file before the list is updated. *)
RemoveStoresFirst(k) ==
    LET rid == mem.keys[k]
        page == Flushed.pages[rid.page]
        wasFull == page.free = 0
        emptied == [page EXCEPT !.rows[rid.slot] = Free, !.free = @ + SlotSize]
    IN  /\ Idle /\ k \in DOMAIN mem.keys
        /\ disk' = [Flushed EXCEPT !.pages[rid.page] = emptied] /\ buffer' = Nothing
        /\ op' = [kind |-> "remove", row |-> page.rows[rid.slot], rid |-> rid,
                  page |-> IF wasFull THEN [emptied EXCEPT !.next = mem.head] ELSE emptied]
        /\ mem' = IF wasFull THEN [mem EXCEPT !.head = rid.page, !.freePages = @ + 1] ELSE mem
        /\ UNCHANGED <<open, faults, crashes>>

(* remove, up to the write of the page: a page that was full enters the list. *)
StartRemove(k) ==
    LET rid == mem.keys[k]
        page == Flushed.pages[rid.page]
        wasFull == page.free = 0
        emptied == [page EXCEPT !.rows[rid.slot] = Free, !.free = @ + SlotSize]
    IN  /\ Idle /\ k \in DOMAIN mem.keys
        /\ disk' = Flushed /\ buffer' = Nothing
        /\ op' = [kind |-> "remove", row |-> page.rows[rid.slot], rid |-> rid,
                  page |-> IF wasFull THEN [emptied EXCEPT !.next = mem.head] ELSE emptied]
        /\ mem' = IF wasFull THEN [mem EXCEPT !.head = rid.page, !.freePages = @ + 1] ELSE mem
        /\ UNCHANGED <<open, faults, crashes>>

(* Variant: the record moves to a free slot of its page, if there is one. *)
UpdateMoves(r) ==
    LET rid == mem.keys[r.key]
        page == Flushed.pages[rid.page]
        to == IF FreeSlots(page) = {} THEN rid.slot ELSE Lowest(FreeSlots(page))
    IN  /\ Idle /\ r.key \in DOMAIN mem.keys
        /\ disk' = Flushed /\ buffer' = Nothing
        /\ op' = [kind |-> "update", row |-> r, rid |-> [rid EXCEPT !.slot = to],
                  page |-> [page EXCEPT !.rows[rid.slot] = Free, !.rows[to] = r]]
        /\ UNCHANGED <<mem, open, faults, crashes>>

(* update rewrites the slot the record is in. *)
StartUpdate(r) ==
    LET rid == mem.keys[r.key]
    IN  /\ Idle /\ r.key \in DOMAIN mem.keys
        /\ disk' = Flushed /\ buffer' = Nothing
        /\ op' = [kind |-> "update", row |-> r, rid |-> rid,
                  page |-> [Flushed.pages[rid.page] EXCEPT !.rows[rid.slot] = r]]
        /\ UNCHANGED <<mem, open, faults, crashes>>

(* What an insert or a remove does to keys_ and live_ after the store. *)
KeysAfter ==
    CASE op.kind = "insert" ->
           [k \in DOMAIN mem.keys \cup {op.row.key} |->
              IF k = op.row.key THEN op.rid ELSE mem.keys[k]]
      [] op.kind = "remove" ->
           [k \in DOMAIN mem.keys \ {op.row.key} |-> mem.keys[k]]
      [] OTHER -> mem.keys

LiveAfter ==
    CASE op.kind = "insert" -> mem.live + 1
      [] op.kind = "remove" -> mem.live - 1
      [] OTHER -> mem.live

Stored ==
    /\ open /\ op # Nothing
    /\ disk' = [Flushed EXCEPT !.pages[op.rid.page] = op.page]
    /\ mem' = [mem EXCEPT !.keys = KeysAfter, !.live = LiveAfter]
    /\ op' = Nothing
    /\ UNCHANGED <<open, crashes>>

(* Variant: a remove does not save the meta area. *)
StoreWithoutMeta ==
    /\ Stored
    /\ buffer' = IF op.kind # "insert" THEN Nothing
                 ELSE [kind |-> "meta", meta |-> Meta([mem EXCEPT !.live = LiveAfter])]
    /\ UNCHANGED faults

(* store and, for an insert or a remove, save_meta. They are one step because a
   crash between the two leaves what a crash after both does: the page in the file
   and the meta area not, for save_meta only fills the buffer. *)
StorePage ==
    /\ Stored
    /\ buffer' = IF op.kind = "update" THEN Nothing
                 ELSE [kind |-> "meta", meta |-> Meta([mem EXCEPT !.live = LiveAfter])]
    /\ UNCHANGED faults

(* save_meta throws: the caller gets an exception for a row that has changed. *)
MetaFails ==
    /\ Stored
    /\ op.kind # "update" /\ faults < MaxFaults
    /\ buffer' = Nothing
    /\ faults' = faults + 1

(* Variant: keys_ is changed before the page is written. *)
StoreFailsLate ==
    /\ open /\ op # Nothing /\ faults < MaxFaults
    /\ disk' = Flushed /\ buffer' = Nothing
    /\ mem' = [mem EXCEPT !.keys = KeysAfter]
    /\ op' = Nothing
    /\ faults' = faults + 1
    /\ UNCHANGED <<open, crashes>>

(* write_page throws IoError: the caller gets the exception, the list in memory
   stays as the first step left it. *)
StoreFails ==
    /\ open /\ op # Nothing /\ faults < MaxFaults
    /\ disk' = Flushed /\ buffer' = Nothing
    /\ op' = Nothing
    /\ faults' = faults + 1
    /\ UNCHANGED <<mem, open, crashes>>

-------------------------------------------------------------------------------
(* search, range_search, scan, read and the cursors seek, and change no page. *)
ReadPages ==
    /\ Idle
    /\ disk' = Flushed /\ buffer' = Nothing
    /\ UNCHANGED <<mem, op, open, faults, crashes>>

(* HeapFile::flush, and the destructor, which writes the header only. *)

Flush ==
    /\ Idle
    /\ disk' = [Flushed EXCEPT !.meta = Meta(mem), !.count = mem.count]
    /\ buffer' = Nothing
    /\ UNCHANGED <<mem, op, open, faults, crashes>>

OnClose == [Flushed EXCEPT !.count = mem.count]

Close ==
    /\ Idle
    /\ disk' = OnClose /\ buffer' = Nothing
    /\ open' = FALSE
    /\ UNCHANGED <<mem, op, faults, crashes>>

(* The process dies: the buffer of the stream is lost with it. *)
Crash ==
    /\ open /\ crashes < MaxCrashes
    /\ open' = FALSE
    /\ buffer' = Nothing /\ op' = Nothing
    /\ crashes' = crashes + 1
    /\ UNCHANGED <<disk, mem, faults>>

(* The pages that the list visits from its head, at most all of them. *)
Visit(d, head, n) ==
    LET visited[i \in 0 .. n] ==
          IF i = 0 THEN head
          ELSE IF visited[i - 1] = NoPage THEN NoPage ELSE d.pages[visited[i - 1]].next
    IN  visited[n]

ListLength(d, head) ==
    IF \E n \in 0 .. Pages : Visit(d, head, n) = NoPage
    THEN Lowest({n \in 0 .. Pages : Visit(d, head, n) = NoPage})
    ELSE Pages + 1

Listed(d, head) == {Visit(d, head, n) : n \in 0 .. Pages} \ {NoPage}

LiveSlots(d) ==
    {rid \in Rid : rid.page <= d.count /\ d.pages[rid.page].rows[rid.slot] # Free}

RecordAt(d, rid) == d.pages[rid.page].rows[rid.slot]

KeysOnDisk(d) ==
    [k \in {RecordAt(d, rid).key : rid \in LiveSlots(d)} |->
       CHOOSE rid \in LiveSlots(d) : RecordAt(d, rid).key = k]

(* rebuild_keys and check_free_list: what makes the constructor throw. *)
Opens(d) ==
    /\ Cardinality(DOMAIN KeysOnDisk(d)) = d.meta.live
    /\ ListLength(d, d.meta.head) = d.meta.freePages
    /\ \A p \in Listed(d, d.meta.head) : p <= d.count /\ d.pages[p].free # 0

Open ==
    /\ ~open /\ Opens(disk)
    /\ open' = TRUE
    /\ mem' = [count |-> disk.count, live |-> disk.meta.live, head |-> disk.meta.head,
               freePages |-> disk.meta.freePages, keys |-> KeysOnDisk(disk)]
    /\ UNCHANGED <<disk, buffer, op, faults, crashes>>

Next ==
    \/ \E r \in Record : InsertInChained(r) \/ InsertInNewPage(r) \/ AllocateFails(r)
                         \/ StartUpdate(r)
    \/ \E k \in Key : StartRemove(k)
    \/ StorePage \/ StoreFails \/ MetaFails
    \/ ReadPages \/ Flush \/ Close \/ Crash \/ Open

Spec == Init /\ [][Next]_vars

-------------------------------------------------------------------------------
(* Between two calls, the list in memory visits every page with a free slot,
   once, and no other, and its length is the counter: a page that is missing
   is space lost, a full one makes every insert throw, a cycle hangs
   (heap_file.hpp:26). Holds while no write has failed. *)
FreeListExact ==
    Idle /\ faults = 0 =>
        /\ Listed(Flushed, mem.head) =
             {p \in 1 .. mem.count : FreeSlots(Flushed.pages[p]) # {}}
        /\ ListLength(Flushed, mem.head) = mem.freePages

(* keys_, which decides DuplicateKey and where remove and update write, is what
   a scan of the file would find, through failed writes, crashes and reopens. *)
KeysMatchSlots ==
    Idle => /\ mem.keys = KeysOnDisk(Flushed)
            /\ mem.live = Cardinality(LiveSlots(Flushed))
            /\ mem.count = Flushed.count

(* A file closed by the destructor, without a flush, opens again: the header is
   written and the meta area is at worst in the buffer. *)
OrderlyCloseOpens == Idle /\ faults = 0 => Opens(OnClose)

(* What the process leaves if it dies, anywhere and while no write has failed.
   The only write of a call that reaches the file is that of its page. Until then
   the file is as before the call and opens with the keys of the calls that ended;
   after it, be it between store and save_meta (heap_file.cpp:184-189) or later,
   the meta area is missing until something writes the buffer of the stream, and
   the constructor refuses the file. An update changes no meta area. *)
CrashUndoesOrIsRefused ==
    open /\ faults = 0 =>
        IF buffer.kind = "meta" THEN ~Opens(disk)
        ELSE Opens(disk) /\ KeysOnDisk(disk) = mem.keys

(* A record never moves: a key in the file before and after a step, crashes
   included, is at the same RID, which is what the unclustered indexes store
   (heap_file.hpp:18-21). *)
RidStable ==
    [][LET before == KeysOnDisk(Flushed)
           after == KeysOnDisk(Flushed)'
       IN  \A k \in DOMAIN before \cap DOMAIN after : after[k] = before[k]]_vars

(* ADR 0004, line 51, and transaction.py:110: without a WAL every call is on
   disk when it returns, so a process that dies between two calls leaves a table
   that can be opened. *)
FinishedCallsSurviveCrash == Idle => Opens(disk)

(* The file implements the contract of TableFile: its records change as a whole
   or not at all, whatever write fails and wherever the process dies. *)
File == INSTANCE RecordFile WITH
    Record <- Record,
    KeyOf <- LAMBDA r : r.key,
    records <- {RecordAt(Flushed, rid) : rid \in LiveSlots(Flushed)},
    up <- open

ImplementsRecordFile == File!FileSpec

===============================================================================
