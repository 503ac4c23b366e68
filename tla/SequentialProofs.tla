-------------------------- MODULE SequentialProofs --------------------------
(***************************************************************************)
(* The calls of a sequential file, one write at a time: between two calls  *)
(* its chain is in order and where the searches look for it, and a file    *)
(* that was closed opens again.                                            *)
(***************************************************************************)
EXTENDS SequentialChain

-----------------------------------------------------------------------------
(* The writes that a call has left, and the pages as they will be after them. *)
WritesIn(s) ==
    {SaveMeta} \cup {Allocate(id) : id \in 1 .. s.pages}
               \cup {StorePage(id, image) : id \in 1 .. s.pages, image \in PagesIn(s)}

WritesTo(w, p) == w.what # "save_meta" /\ w.page = p
ImageOf(w) == IF w.what = "allocate" THEN Blank ELSE w.image
IsLastTo(todo, i, p) ==
    i \in DOMAIN todo /\ WritesTo(todo[i], p) /\ \A j \in DOMAIN todo : j > i => ~WritesTo(todo[j], p)

Becomes(old, todo, P) ==
    \A p \in DOMAIN P :
        /\ (\A i \in DOMAIN todo : ~WritesTo(todo[i], p)) => P[p] = old[p]
        /\ \A i \in DOMAIN todo : IsLastTo(todo, i, p) => P[p] = ImageOf(todo[i])

(* insert_locked relies on it: a key beyond the last main page is beyond its overflow page too,
   since nothing goes there while the group is the last; and when the group behind it was dropped, the
   key that is inserted again is beyond both. *)
LastFits(P, m, retry) ==
    m.main # <<>> =>
        LET p == m.main[Len(m.main)]
        IN  \/ \A k \in KeysOf(P, p) : k <= P[p].slots[Len(P[p].slots)].key
            \/ \E r \in ToSet(retry) : \A k \in KeysOf(P, p) : k < r.key

Good(s, P, m, retry) == Sound(s, P, m) /\ LastFits(P, m, retry)

IsFile(s, d) ==
    /\ DOMAIN d = {"exists", "pages", "count", "meta"}
    /\ d.pages \in Images(s)
IsMemory(m) == DOMAIN m = {"count", "live", "deleted", "head", "main", "first"}

(* The memory after replace_with. *)
Renamed(d, m) ==
    LET main == [p \in 1 .. d.count |-> p]
    IN  [m EXCEPT !.count = d.count, !.deleted = 0, !.head = IF d.count = 0 THEN NoPage ELSE 1,
                  !.main = main, !.first = FirstKeys(d, main)]

CallIsSound ==
    /\ DOMAIN work = {"todo", "dropped", "retry", "next"}
    /\ work.todo \in Seq(WritesIn(setup))
    /\ work.next \in {"", "rewrite", "remove", "rename", "close"}
    /\ work.retry = <<>> \/ (work.next = "" /\ \E r \in SetupRows : work.retry = <<r>>)
    /\ work.next \in {"remove", "rename", "close"} => work.todo = <<>>

MetaWillBeSaved == Flushed.meta = Meta(mem) \/ (work.todo # <<>> /\ work.todo[Len(work.todo)] = SaveMeta)

(* While the object exists: the writes left lead to a sound file, except between the removal of the old
   file and the renaming of the new one. *)
Working ==
    /\ CallIsSound
    /\ work.next # "rename" => /\ disk.exists /\ MetaWillBeSaved
                               /\ \E P : Becomes(disk.pages, work.todo, P) /\ Good(setup, P, mem, work.retry)
    /\ work.next \in {"remove", "rename"} =>
          IsFile(setup, fresh) /\ fresh.exists /\ Good(setup, fresh.pages, Renamed(fresh, mem), <<>>)
    /\ work.next = "close" => Flushed.count = mem.count

(* After the object is gone: what the next one reads. *)
Resting ==
    /\ disk.exists /\ work = NoWork
    /\ \E n : Good(setup, disk.pages, n, <<>>) /\ n.count = disk.count /\ Meta(n) = disk.meta

SeqInv ==
    /\ setup \in Setups /\ IsFile(setup, disk) /\ IsMemory(mem)
    /\ up => Working
    /\ ~up => Resting

LEMMA BecomesNothing ==
    ASSUME NEW s, NEW P \in Images(s), NEW old \in Images(s), Becomes(old, <<>>, P)
    PROVE  P = old
<1>1. DOMAIN P = 1 .. s.pages /\ DOMAIN <<>> = {}
  BY DEF Images
<1>2. \A p \in 1 .. s.pages : P[p] = old[p]
  BY <1>1 DEF Becomes
<1>3. P = [p \in 1 .. s.pages |-> P[p]] /\ old = [p \in 1 .. s.pages |-> old[p]]
  BY DEF Images
<1> QED BY <1>2, <1>3

LEMMA BecomesItself ==
    ASSUME NEW P
    PROVE  Becomes(P, <<>>, P)
  BY DEF Becomes

(* A write that is done (Write): the pages that the rest of the call leads to are the same. *)
After(P, w) == IF w = SaveMeta THEN P ELSE [P EXCEPT ![w.page] = ImageOf(w)]

LEMMA WriteTypes ==
    ASSUME NEW s, s.pages \in Nat, NEW w \in WritesIn(s)
    PROVE  /\ w = SaveMeta <=> w.what = "save_meta"
           /\ w # SaveMeta => w.what \in {"allocate", "store"} /\ w.page \in 1 .. s.pages /\ ImageOf(w) \in PagesIn(s)
           /\ w.what = "allocate" => ImageOf(w) = Blank
           /\ w.what = "store" => ImageOf(w) = w.image
<1>1. Blank \in PagesIn(s)
  BY BlankIsPage
<1>2. CASE w = SaveMeta
  BY <1>2 DEF SaveMeta
<1>3. ASSUME NEW id \in 1 .. s.pages, w = Allocate(id) PROVE w.what = "allocate" /\ w.page = id /\ w # SaveMeta
  BY <1>3 DEF Allocate, SaveMeta
<1>4. ASSUME NEW id \in 1 .. s.pages, NEW image \in PagesIn(s), w = StorePage(id, image)
      PROVE  w.what = "store" /\ w.page = id /\ w # SaveMeta /\ w.image = image
  BY <1>4 DEF StorePage, SaveMeta
<1>5. CASE \E id \in 1 .. s.pages : w = Allocate(id)
  BY <1>1, <1>3, <1>5 DEF ImageOf
<1>6. CASE \E id \in 1 .. s.pages, image \in PagesIn(s) : w = StorePage(id, image)
  BY <1>4, <1>6 DEF ImageOf
<1> QED BY <1>2, <1>5, <1>6 DEF WritesIn

LEMMA AfterWrite ==
    ASSUME NEW s, s.pages \in Nat, NEW old \in Images(s), NEW w \in WritesIn(s)
    PROVE  /\ After(old, w) \in Images(s)
           /\ \A p \in 1 .. s.pages : After(old, w)[p] = IF WritesTo(w, p) THEN ImageOf(w) ELSE old[p]
<1>1. CASE w = SaveMeta
  BY <1>1, WriteTypes DEF After, WritesTo
<1>2. CASE w # SaveMeta
  <2>1. w.page \in 1 .. s.pages /\ ImageOf(w) \in PagesIn(s) /\ w.what # "save_meta"
    BY <1>2, WriteTypes
  <2>2. After(old, w) = [old EXCEPT ![w.page] = ImageOf(w)]
    BY <1>2 DEF After
  <2> QED BY <2>1, <2>2 DEF Images, WritesTo
<1> QED BY <1>1, <1>2

LEMMA WriteIsDone ==
    ASSUME NEW s, s.pages \in Nat, NEW P \in Images(s), NEW old \in Images(s),
           NEW todo \in Seq(WritesIn(s)), todo # <<>>, Becomes(old, todo, P)
    PROVE  Becomes(After(old, Head(todo)), Tail(todo), P)
<1> DEFINE now == After(old, Head(todo))
           rest == Tail(todo)
           n == Len(todo)
<1>1. n \in Nat \ {0} /\ DOMAIN todo = 1 .. n /\ Head(todo) = todo[1] /\ todo[1] \in WritesIn(s)
  BY LenProperties, EmptySeq, HeadTailProperties, ElementOfSeq
<1>2. rest \in Seq(WritesIn(s)) /\ Len(rest) = n - 1 /\ DOMAIN rest = 1 .. n - 1
      /\ \A i \in 1 .. n - 1 : rest[i] = todo[i + 1]
  BY HeadTailProperties, LenProperties
<1>3. DOMAIN P = 1 .. s.pages
  BY DEF Images
<1>4. ASSUME NEW p \in 1 .. s.pages PROVE now[p] = IF WritesTo(todo[1], p) THEN ImageOf(todo[1]) ELSE old[p]
  BY <1>1, AfterWrite
<1> HIDE DEF now, rest, n
<1>5. ASSUME NEW p \in 1 .. s.pages, \A i \in DOMAIN rest : ~WritesTo(rest[i], p) PROVE P[p] = now[p]
  <2>1. \A j \in 1 .. n : j > 1 => ~WritesTo(todo[j], p)
    <3> SUFFICES ASSUME NEW j \in 1 .. n, j > 1 PROVE ~WritesTo(todo[j], p)
      OBVIOUS
    <3>1. j - 1 \in 1 .. n - 1 /\ j - 1 + 1 = j
      BY <1>1
    <3>2. rest[j - 1] = todo[j]
      BY <1>2, <3>1
    <3> QED BY <1>2, <1>5, <3>1, <3>2
  <2>2. CASE WritesTo(todo[1], p)
    <3>1. IsLastTo(todo, 1, p)
      BY <1>1, <2>1, <2>2 DEF IsLastTo
    <3> QED BY <1>1, <1>3, <1>4, <2>2, <3>1 DEF Becomes
  <2>3. CASE ~WritesTo(todo[1], p)
    <3>1. \A i \in DOMAIN todo : ~WritesTo(todo[i], p)
      <4> SUFFICES ASSUME NEW i \in 1 .. n PROVE ~WritesTo(todo[i], p)
        BY <1>1
      <4> QED BY <1>1, <2>1, <2>3
    <3> QED BY <1>3, <1>4, <2>3, <3>1 DEF Becomes
  <2> QED BY <2>2, <2>3
<1>6. ASSUME NEW p \in 1 .. s.pages, NEW i \in DOMAIN rest, IsLastTo(rest, i, p) PROVE P[p] = ImageOf(rest[i])
  <2>1. i + 1 \in 1 .. n /\ i \in 1 .. n - 1
    BY <1>1, <1>2
  <2>2. \A j \in 1 .. n : j > i + 1 => ~WritesTo(todo[j], p)
    <3> SUFFICES ASSUME NEW j \in 1 .. n, j > i + 1 PROVE ~WritesTo(todo[j], p)
      OBVIOUS
    <3>1. j - 1 \in 1 .. n - 1 /\ j - 1 + 1 = j /\ j - 1 > i
      BY <1>1, <2>1
    <3>2. rest[j - 1] = todo[j]
      BY <1>2, <3>1
    <3> QED BY <1>2, <1>6, <3>1, <3>2 DEF IsLastTo
  <2>3. WritesTo(todo[i + 1], p)
    BY <1>2, <1>6, <2>1 DEF IsLastTo
  <2>4. IsLastTo(todo, i + 1, p)
    BY <1>1, <2>1, <2>2, <2>3 DEF IsLastTo
  <2> QED BY <1>1, <1>2, <1>3, <2>1, <2>4 DEF Becomes
<1> QED BY <1>3, <1>5, <1>6 DEF Becomes, now, rest

(* Two lists of writes, one after the other. *)
LEMMA WritesInOrder ==
    ASSUME NEW s, s.pages \in Nat, NEW A, NEW B \in Images(s), NEW C \in Images(s),
           NEW t \in Seq(WritesIn(s)), NEW u \in Seq(WritesIn(s)), Becomes(A, t, B), Becomes(B, u, C)
    PROVE  t \o u \in Seq(WritesIn(s)) /\ Becomes(A, t \o u, C)
<1> DEFINE all == t \o u
           m == Len(t)
           n == Len(u)
<1>1. m \in Nat /\ n \in Nat /\ DOMAIN t = 1 .. m /\ DOMAIN u = 1 .. n
  BY LenProperties
<1>2. all \in Seq(WritesIn(s)) /\ Len(all) = m + n
      /\ \A i \in 1 .. m + n : all[i] = IF i <= m THEN t[i] ELSE u[i - m]
  BY ConcatProperties
<1>3. DOMAIN all = 1 .. m + n
  BY <1>2, LenProperties
<1>4. DOMAIN B = 1 .. s.pages /\ DOMAIN C = 1 .. s.pages
  BY DEF Images
<1> HIDE DEF all, m, n
<1>5. ASSUME NEW i \in 1 .. m PROVE i \in 1 .. m + n /\ all[i] = t[i]
  <2>1. i \in 1 .. m + n /\ i <= m
    BY <1>1
  <2> QED BY <1>2, <2>1
<1>6. ASSUME NEW i \in 1 .. n PROVE m + i \in 1 .. m + n /\ all[m + i] = u[i]
  <2>1. ASSUME NEW h, h = m + i PROVE h \in 1 .. m + n /\ all[h] = u[i]
    <3>1. h \in 1 .. m + n /\ ~(h <= m) /\ h - m = i
      BY <1>1, <2>1
    <3>2. all[h] = u[h - m]
      BY <1>2, <3>1
    <3> QED BY <3>1, <3>2
  <2> QED BY <2>1
<1>7. ASSUME NEW p \in 1 .. s.pages, \A i \in DOMAIN all : ~WritesTo(all[i], p) PROVE C[p] = A[p]
  <2>1. \A i \in 1 .. m : ~WritesTo(t[i], p)
    BY <1>3, <1>5, <1>7
  <2>2. \A i \in 1 .. n : ~WritesTo(u[i], p)
    BY <1>3, <1>6, <1>7
  <2> QED BY <1>1, <1>4, <2>1, <2>2 DEF Becomes
<1>8. ASSUME NEW p \in 1 .. s.pages, NEW i \in DOMAIN all, IsLastTo(all, i, p) PROVE C[p] = ImageOf(all[i])
  <2>1. CASE i <= m
    <3>1. i \in 1 .. m
      BY <1>1, <1>3, <2>1
    <3>2. \A j \in 1 .. n : ~WritesTo(u[j], p)
      <4> SUFFICES ASSUME NEW j \in 1 .. n PROVE ~WritesTo(u[j], p)
        OBVIOUS
      <4>1. m + j > i
        BY <1>1, <3>1
      <4> QED BY <1>3, <1>6, <1>8, <4>1 DEF IsLastTo
    <3>3. C[p] = B[p]
      BY <1>1, <1>4, <3>2 DEF Becomes
    <3>4. IsLastTo(t, i, p)
      <4>1. \A j \in 1 .. m : j > i => ~WritesTo(t[j], p)
        BY <1>3, <1>5, <1>8 DEF IsLastTo
      <4> QED BY <1>1, <1>5, <1>8, <3>1, <4>1 DEF IsLastTo
    <3>5. B[p] = ImageOf(t[i])
      BY <1>1, <1>4, <3>1, <3>4 DEF Becomes
    <3> QED BY <1>5, <3>1, <3>3, <3>5
  <2>2. CASE ~(i <= m)
    <3> SUFFICES ASSUME NEW k, k = i - m PROVE C[p] = ImageOf(all[i])
      OBVIOUS
    <3>1. k \in 1 .. n /\ i = m + k
      BY <1>1, <1>3, <2>2
    <3>2. all[i] = u[k]
      BY <1>6, <3>1
    <3>3. \A j \in 1 .. n : j > k => ~WritesTo(u[j], p)
      <4> SUFFICES ASSUME NEW j \in 1 .. n, j > k PROVE ~WritesTo(u[j], p)
        OBVIOUS
      <4>1. m + j > i
        BY <1>1, <3>1
      <4> QED BY <1>3, <1>6, <1>8, <4>1 DEF IsLastTo
    <3>4. IsLastTo(u, k, p)
      <4>1. WritesTo(u[k], p)
        BY <1>8, <3>2 DEF IsLastTo
      <4>2. k \in DOMAIN u /\ \A j \in DOMAIN u : j > k => ~WritesTo(u[j], p)
        BY <1>1, <3>1, <3>3
      <4> QED BY <4>1, <4>2 DEF IsLastTo
    <3>5. k \in DOMAIN u /\ p \in DOMAIN C
      BY <1>1, <1>4, <3>1
    <3>6. C[p] = ImageOf(u[k])
      BY <3>4, <3>5 DEF Becomes
    <3> QED BY <3>2, <3>6
  <2> QED BY <2>1, <2>2
<1> QED BY <1>2, <1>4, <1>7, <1>8 DEF Becomes, all

LEMMA FlushedFields ==
    ASSUME NEW s, IsFile(s, disk)
    PROVE  /\ IsFile(s, Flushed) /\ Flushed.pages = disk.pages /\ Flushed.exists = disk.exists
           /\ buffer = Nothing => Flushed = disk
           /\ buffer.kind = "meta" => Flushed.meta = buffer.meta
           /\ buffer.kind = "header" => Flushed.count = buffer.count
           /\ buffer.kind # "meta" => Flushed.meta = disk.meta
  BY DEF IsFile, Flushed, Nothing

(* Between the writes of two calls the file is what it should be. *)
LEMMA Quiet ==
    ASSUME SetupsAreSound, SeqInv, up, work.todo = <<>>, work.next # "rename"
    PROVE  /\ SoundSetup(setup) /\ Good(setup, disk.pages, mem, work.retry) /\ CallIsSound
           /\ Flushed.pages = disk.pages /\ Flushed.meta = Meta(mem) /\ Flushed.exists /\ IsFile(setup, Flushed)
           /\ disk.pages \in Images(setup) /\ IsMemory(mem)
<1>1. SoundSetup(setup) /\ IsFile(setup, disk) /\ IsMemory(mem) /\ Working
  BY DEF SeqInv, SetupsAreSound
<1>2. CallIsSound /\ disk.exists /\ Flushed.meta = Meta(mem)
  BY <1>1 DEF Working, MetaWillBeSaved
<1>3. PICK P : Becomes(disk.pages, work.todo, P) /\ Good(setup, P, mem, work.retry)
  BY <1>1 DEF Working
<1>4. P \in Images(setup) /\ disk.pages \in Images(setup)
  BY <1>1, <1>3 DEF Good, Sound, IsFile
<1>5. P = disk.pages
  BY <1>3, <1>4, BecomesNothing
<1> QED BY <1>1, <1>2, <1>3, <1>4, <1>5, FlushedFields

EndsWithMeta(writes) == writes # <<>> /\ writes[Len(writes)] = SaveMeta

(* A call that changes the fields of the object to m, and has writes to do that lead to a good file. *)
LEMMA CallStarts ==
    ASSUME SetupsAreSound, SeqInv, up, work.todo = <<>>, work.next # "rename",
           NEW m, NEW writes \in Seq(WritesIn(setup)), NEW next \in {"", "rewrite"}, Starts(m, writes, next), IsMemory(m),
           NEW P, Becomes(disk.pages, writes, P), Good(setup, P, m, <<>>),
           EndsWithMeta(writes) \/ Meta(m) = Meta(mem)
    PROVE  SeqInv'
<1>1. /\ CallIsSound /\ IsFile(setup, Flushed) /\ Flushed.pages = disk.pages /\ Flushed.meta = Meta(mem)
      /\ Flushed.exists
  BY Quiet
<1>2. /\ disk' = Flushed /\ buffer' = Nothing /\ mem' = m /\ setup' = setup /\ up' = up
      /\ work' = [work EXCEPT !.todo = writes, !.retry = <<>>, !.next = next]
  BY DEF Starts
<1>3. Flushed' = Flushed
  BY <1>2 DEF Flushed, Nothing
<1>4. /\ DOMAIN work' = {"todo", "dropped", "retry", "next"}
      /\ work'.todo = writes /\ work'.retry = <<>> /\ work'.next = next
  BY <1>1, <1>2 DEF CallIsSound
<1>5. CallIsSound'
  BY <1>2, <1>4 DEF CallIsSound
<1>6. MetaWillBeSaved'
  <2>1. CASE EndsWithMeta(writes)
    BY <1>4, <2>1 DEF MetaWillBeSaved, EndsWithMeta
  <2>2. CASE Meta(m) = Meta(mem)
    BY <1>1, <1>2, <1>3, <2>2 DEF MetaWillBeSaved
  <2> QED BY <2>1, <2>2
<1>7. Working'
  BY <1>1, <1>2, <1>4, <1>5, <1>6 DEF Working
<1> QED BY <1>1, <1>2, <1>7 DEF SeqInv

(* One write of a call. *)
LEMMA WriteKeeps ==
    ASSUME SetupsAreSound, SeqInv, Write
    PROVE  SeqInv'
<1> DEFINE w == Head(work.todo)
           T == WritesIn(setup)
           rest == Tail(work.todo)
           n == Len(work.todo)
<1>1. /\ SoundSetup(setup) /\ IsFile(setup, disk) /\ IsMemory(mem) /\ CallIsSound /\ work.todo # <<>>
      /\ work.next \notin {"remove", "rename", "close"} /\ setup.pages \in Nat
  BY DEF SeqInv, SetupsAreSound, SoundSetup, Write, Working, CallIsSound
<1>2. disk.exists /\ MetaWillBeSaved
  BY <1>1 DEF SeqInv, Write, Working
<1>3. PICK P : Becomes(disk.pages, work.todo, P) /\ Good(setup, P, mem, work.retry)
  BY <1>1 DEF SeqInv, Write, Working
<1>4. P \in Images(setup) /\ disk.pages \in Images(setup)
  BY <1>1, <1>3 DEF Good, Sound, IsFile
<1>5. /\ work.todo \in Seq(T) /\ w \in T /\ rest \in Seq(T) /\ n \in Nat \ {0}
      /\ Len(rest) = n - 1
      /\ \A i \in 1 .. Len(rest) : rest[i] = work.todo[i + 1]
      /\ w = work.todo[1] /\ n \in Nat
  <2>1. work.todo \in Seq(T)
    BY <1>1 DEF CallIsSound
  <2> HIDE DEF T
  <2>2. n \in Nat \ {0}
    BY <1>1, <2>1, EmptySeq
  <2>3. w \in T /\ rest \in Seq(T) /\ Len(rest) = n - 1
        /\ \A i \in 1 .. Len(rest) : rest[i] = work.todo[i + 1]
    BY <1>1, <2>1, HeadTailProperties
  <2>4. w = work.todo[1]
    BY <1>1, <2>1
  <2> QED BY <2>1, <2>2, <2>3, <2>4
<1> HIDE DEF w, T, rest, n
<1>6. /\ IsFile(setup, Flushed) /\ Flushed.pages = disk.pages /\ Flushed.exists = disk.exists
  BY <1>1, FlushedFields
<1>7. /\ w = SaveMeta <=> w.what = "save_meta"
      /\ w # SaveMeta => w.what \in {"allocate", "store"}
      /\ w.what = "allocate" => ImageOf(w) = Blank
      /\ w.what = "store" => ImageOf(w) = w.image
  BY <1>1, <1>5, WriteTypes DEF T
<1>8. /\ disk' = CASE w.what = "allocate" -> [Flushed EXCEPT !.pages[w.page] = Blank]
                   [] w.what = "store"    -> [Flushed EXCEPT !.pages[w.page] = w.image]
                   [] OTHER               -> Flushed
      /\ buffer' = CASE w.what = "allocate" -> [kind |-> "header", count |-> w.page]
                     [] w.what = "store"    -> Nothing
                     [] OTHER               -> [kind |-> "meta", meta |-> Meta(mem)]
      /\ work' = (IF n = 1 /\ work.retry = <<>> /\ work.next = "" THEN NoWork
                  ELSE [work EXCEPT !.todo = rest])
      /\ up /\ up' = up /\ mem' = mem /\ setup' = setup /\ fresh' = fresh
  BY DEF Write, w, rest, n
<1>9. DOMAIN disk' = {"exists", "pages", "count", "meta"} /\ disk'.exists /\ disk'.meta = Flushed.meta
      /\ disk'.pages = After(disk.pages, w)
  <2>1. DOMAIN Flushed = {"exists", "pages", "count", "meta"}
    BY <1>6 DEF IsFile
  <2>2. CASE w.what = "allocate"
    <3>1. disk' = [Flushed EXCEPT !.pages[w.page] = Blank] /\ w # SaveMeta /\ ImageOf(w) = Blank
      BY <1>7, <1>8, <2>2
    <3> QED BY <1>2, <1>6, <2>1, <3>1 DEF After
  <2>3. CASE w.what = "store"
    <3>1. disk' = [Flushed EXCEPT !.pages[w.page] = w.image] /\ w # SaveMeta /\ ImageOf(w) = w.image
      BY <1>7, <1>8, <2>3
    <3> QED BY <1>2, <1>6, <2>1, <3>1 DEF After
  <2>4. CASE w = SaveMeta
    <3>1. disk' = Flushed
      BY <1>7, <1>8, <2>4
    <3> QED BY <1>2, <1>6, <2>1, <2>4, <3>1 DEF After
  <2> QED BY <1>7, <2>2, <2>3, <2>4
<1>10. IsFile(setup, disk')
  BY <1>1, <1>4, <1>5, <1>9, AfterWrite DEF IsFile, T
<1>11. Becomes(disk'.pages, rest, P)
  BY <1>1, <1>3, <1>4, <1>5, <1>9, WriteIsDone DEF w, T, rest
<1>12. /\ DOMAIN work' = {"todo", "dropped", "retry", "next"}
       /\ work'.todo = rest /\ work'.retry = work.retry /\ work'.next = work.next
  <2>1. CASE n = 1 /\ work.retry = <<>> /\ work.next = ""
    <3>1. rest = <<>>
      <4>1. Len(rest) = 0 /\ rest \in Seq(T)
        <5>1. n = 1 /\ Len(rest) = n - 1 /\ rest \in Seq(T)
          BY ONLY <1>5, <2>1
        <5> QED BY ONLY <5>1
      <4> QED BY <4>1, EmptySeq
    <3>2. work' = NoWork
      BY <1>8, <2>1
    <3> QED BY <2>1, <3>1, <3>2 DEF NoWork
  <2>2. CASE ~(n = 1 /\ work.retry = <<>> /\ work.next = "")
    <3>1. work' = [work EXCEPT !.todo = rest]
      BY <1>8, <2>2
    <3> QED BY <1>1, <3>1 DEF CallIsSound
  <2> QED BY <2>1, <2>2
<1>13. CallIsSound'
  BY <1>1, <1>5, <1>8, <1>12 DEF CallIsSound, SetupRows, T
<1>14. MetaWillBeSaved'
  <2>1. CASE w = SaveMeta
    <3>1. buffer' = [kind |-> "meta", meta |-> Meta(mem)]
      BY <1>7, <1>8, <2>1
    <3>2. Flushed'.meta = Meta(mem)
      BY <1>9, <3>1 DEF Flushed
    <3> QED BY <1>8, <3>2 DEF MetaWillBeSaved
  <2>2. CASE w # SaveMeta
    <3>1. buffer' = [kind |-> "header", count |-> w.page] \/ buffer' = Nothing
      BY <1>7, <1>8, <2>2
    <3>2. Flushed'.meta = Flushed.meta
      BY <1>9, <3>1 DEF Flushed, Nothing
    <3>3. CASE Flushed.meta = Meta(mem)
      BY <1>8, <3>2, <3>3 DEF MetaWillBeSaved
    <3>4. CASE EndsWithMeta(work.todo)
      <4>1. n # 1
        <5>1. work.todo[n] = SaveMeta
          BY <3>4 DEF EndsWithMeta, n
        <5> QED BY <1>5, <2>2, <5>1
      <4>2. rest # <<>> /\ rest[Len(rest)] = SaveMeta
        <5>1. n - 1 \in 1 .. Len(rest) /\ n - 1 + 1 = n
          BY ONLY <1>5, <4>1
        <5>2. rest[n - 1] = SaveMeta
          BY <1>5, <3>4, <5>1 DEF EndsWithMeta, n
        <5>3. rest # <<>>
          <6>1. Len(rest) # 0
            BY ONLY <1>5, <4>1
          <6> QED BY <6>1, EmptySeq
        <5> QED BY <1>5, <5>2, <5>3
      <4> QED BY <1>12, <4>2 DEF MetaWillBeSaved
    <3> QED BY <1>2, <3>3, <3>4 DEF MetaWillBeSaved, EndsWithMeta
  <2> QED BY <2>1, <2>2
<1>15. Working'
  <2>1. Becomes(disk'.pages, work'.todo, P) /\ Good(setup', P, mem', work'.retry)
    BY <1>3, <1>8, <1>11, <1>12
  <2> QED BY <1>1, <1>9, <1>12, <1>13, <1>14, <2>1 DEF Working
<1> QED BY <1>1, <1>8, <1>10, <1>15 DEF SeqInv

LEMMA NothingLeft ==
    ASSUME NEW P, NEW m, NEW retry, LastFits(P, m, <<>>)
    PROVE  LastFits(P, m, retry)
  BY SMTT(30) DEF LastFits, ToSet

LEMMA LastIsPlain ==
    ASSUME NEW s, SoundSetup(s), NEW P, NEW m, NEW retry, Sound(s, P, m),
           m.main # <<>> => P[m.main[Len(m.main)]].overflow = NoPage
    PROVE  LastFits(P, m, retry)
<1> SUFFICES ASSUME NEW p, m.main # <<>>, p = m.main[Len(m.main)], NEW k \in KeysOf(P, p)
             PROVE  k <= P[p].slots[Len(P[p].slots)].key
  BY DEF LastFits
<1>1. Len(m.main) \in DOMAIN m.main /\ P \in Images(s) /\ p \in 1 .. s.pages /\ Sane(s, P, p)
  <2>1. m.main \in Seq(1 .. s.pages)
    BY DEF Sound, Chained
  <2>2. Len(m.main) \in Nat \ {0} /\ DOMAIN m.main = 1 .. Len(m.main)
    BY <2>1, EmptySeq, LenProperties
  <2> QED BY <2>2, SoundTypes
<1>2. PlacesOf(P, p) = {<<p, i>> : i \in DOMAIN P[p].slots}
  BY PlacesOfPage
<1>3. PICK i \in DOMAIN P[p].slots : k = P[p].slots[i].key
  BY <1>2 DEF KeysOf, SlotAt
<1>4. DOMAIN P[p].slots = 1 .. Len(P[p].slots) /\ Len(P[p].slots) \in Nat
  BY <1>1, PageTypes
<1>5. Len(P[p].slots) \in DOMAIN P[p].slots /\ i <= Len(P[p].slots)
  BY <1>3, <1>4
<1> QED BY <1>1, <1>3, <1>5 DEF Sane, Ordered

(* The file that is written again (Rewrite) is the one that replace_with puts in place. *)
LEMMA RewrittenIsGood ==
    ASSUME SoundSetup(setup), NEW P, Flushed.pages = P, Sound(setup, P, mem), IsMemory(mem)
    PROVE  /\ IsFile(setup, Rewritten) /\ Rewritten.exists
           /\ Good(setup, Rewritten.pages, Renamed(Rewritten, mem), <<>>)
           /\ LiveSlots(Rewritten.pages, Renamed(Rewritten, mem).main) = LiveSlots(P, mem.main)
<1> DEFINE rows == Scan(Flushed)
           z == Fill
           count == (Len(rows) + z - 1) \div z
           S == LiveSlots(P, mem.main)
           Q == Rewritten.pages
           n == Renamed(Rewritten, mem)
<1>1. /\ P \in Images(setup) /\ Chained(setup, P, mem.main, mem.head, mem.count)
      /\ setup.pages \in Nat /\ mem.live = Cardinality(AllLiving(P, mem.main))
  BY SoundTypes DEF Sound, SoundSetup
<1>2. Sorts(rows, S) /\ HasKeys(S)
  BY <1>1, ScanSorts
<1>3. DistinctKeys(S) /\ Cardinality(S) = Cardinality(AllLiving(P, mem.main)) /\ S \subseteq SlotsIn(setup)
  BY <1>1, LivingSlots
<1>4. \A x \in S : x.live
  BY DEF LiveSlots, AllLiving, Living
<1>5. z \in Nat /\ z >= 1 /\ z <= setup.slots
  BY PageFills
<1> HIDE DEF S, z
<1>6. Len(rows) \in Nat /\ Len(rows) = Cardinality(S) /\ rows \in Seq(SlotsIn(setup)) /\ Len(rows) <= setup.pages
  <2>1. Len(rows) \in Nat /\ Len(rows) = Cardinality(S) /\ rows \in Seq(S)
    <3> HIDE DEF rows
    <3> QED BY <1>2, SortsCounts DEF Sorts
  <2>2. Cardinality(S) <= setup.pages
    BY <1>3, RowsWithinKeys
  <2> HIDE DEF rows
  <2> QED BY <1>3, <2>1, <2>2, SeqMonotonic
<1> HIDE DEF rows
<1>7. Quotient(count, Len(rows), z) /\ count <= Len(rows)
  BY <1>5, <1>6, PagesNeeded
<1>8. count \in 0 .. setup.pages
  <2>1. count \in Nat
    BY <1>7 DEF Quotient
  <2> HIDE DEF count
  <2> QED BY <1>6, <1>7, <2>1 DEF SoundSetup
<1>9. /\ DOMAIN Rewritten = {"exists", "pages", "count", "meta"} /\ Rewritten.exists /\ Rewritten.count = count
      /\ Q = [p \in 1 .. setup.pages |->
                IF p > count THEN Blank
                ELSE [slots |-> Chunk(rows, p, z), overflow |-> NoPage, next |-> IF p < count THEN p + 1 ELSE NoPage]]
  BY DEF Rewritten, NewFile, NoFile, rows, z, count, Q
<1> HIDE DEF count
<1>10. \A p \in 1 .. count : Chunk(rows, p, z) \in Seq(SlotsIn(setup))
  BY <1>5, <1>6, <1>7, ChunkAt
<1>11. Q \in Images(setup)
  <2> HIDE DEF Q
  <2> SUFFICES ASSUME NEW p \in 1 .. setup.pages PROVE Q[p] \in PagesIn(setup)
    BY <1>9 DEF Images
  <2>1. CASE p > count
    <3>1. Q[p] = Blank
      BY <1>9, <2>1
    <3> QED BY <1>1, <3>1, BlankIsPage
  <2>2. CASE ~(p > count)
    <3>1. p \in 1 .. count
      BY <1>8, <2>2
    <3>2. Q[p] = [slots |-> Chunk(rows, p, z), overflow |-> NoPage, next |-> IF p < count THEN p + 1 ELSE NoPage]
      BY <1>9, <2>2
    <3>3. (IF p < count THEN p + 1 ELSE NoPage) \in 0 .. setup.pages /\ NoPage \in 0 .. setup.pages
      BY <1>1, <1>8, <3>1 DEF NoPage
    <3>4. Chunk(rows, p, z) \in Seq(SlotsIn(setup))
      BY <1>10, <3>1
    <3> QED BY <3>2, <3>3, <3>4 DEF PagesIn
  <2> QED BY <2>1, <2>2
<1> HIDE DEF Q
<1>12. \A p \in 1 .. count : Q[p].slots = Chunk(rows, p, z) /\ Q[p].overflow = NoPage
                             /\ Q[p].next = IF p < count THEN p + 1 ELSE NoPage
  <2> SUFFICES ASSUME NEW p \in 1 .. count
               PROVE  Q[p].slots = Chunk(rows, p, z) /\ Q[p].overflow = NoPage
                      /\ Q[p].next = IF p < count THEN p + 1 ELSE NoPage
    OBVIOUS
  <2>1. p \in 1 .. setup.pages /\ ~(p > count)
    BY <1>1, <1>8
  <2>2. Q[p] = [slots |-> Chunk(rows, p, z), overflow |-> NoPage, next |-> IF p < count THEN p + 1 ELSE NoPage]
    BY <1>9, <2>1
  <2> QED BY <2>2
<1>13. /\ n.count = count /\ n.main = [p \in 1 .. count |-> p] /\ n.deleted = 0 /\ n.live = mem.live
       /\ n.head = (IF count = 0 THEN NoPage ELSE 1) /\ n.first = FirstKeys(Rewritten, [p \in 1 .. count |-> p])
  BY <1>9 DEF n, Renamed, IsMemory
<1>14. n.first = [p \in 1 .. count |-> FirstOf(Q, p)]
  BY <1>13 DEF FirstKeys, FirstOf, Q
<1> HIDE DEF n
<1>15. WritesRows(setup, Q, n, rows, z, S)
  BY <1>1, <1>2, <1>3, <1>4, <1>5, <1>11, <1>12, <1>13, <1>14 DEF WritesRows, count
<1>16. Sound(setup, Q, n) /\ LiveSlots(Q, n.main) = S
  BY <1>15, RowsWritten
<1>17. LastFits(Q, n, <<>>)
  <2>1. n.main # <<>> => Q[n.main[Len(n.main)]].overflow = NoPage
    <3>1. n.main \in Seq(1 .. setup.pages)
      BY <1>16 DEF Sound, Chained
    <3>2. n.main # <<>> => Len(n.main) \in 1 .. count
      <4>1. n.main # <<>> => Len(n.main) \in DOMAIN n.main
        BY <3>1, EmptySeq, LenProperties
      <4> QED BY <1>13, <4>1
    <3> QED BY <1>12, <1>13, <3>2
  <2> QED BY <1>16, <2>1, LastIsPlain
<1> QED BY <1>9, <1>11, <1>16, <1>17 DEF IsFile, Good, Q, n, S

(* The calls that write nothing first, and the end of the others. *)
LEMMA RewriteKeeps ==
    ASSUME SetupsAreSound, SeqInv, Rewrite
    PROVE  SeqInv'
<1>1. up /\ work.todo = <<>> /\ work.next = "rewrite"
  BY DEF Rewrite
<1>2. /\ SoundSetup(setup) /\ Good(setup, disk.pages, mem, work.retry) /\ CallIsSound
      /\ Flushed.pages = disk.pages /\ Flushed.meta = Meta(mem) /\ Flushed.exists /\ IsFile(setup, Flushed)
      /\ IsMemory(mem)
  BY <1>1, Quiet
<1>3. work.retry = <<>>
  BY <1>1, <1>2 DEF CallIsSound
<1>4. IsFile(setup, Rewritten) /\ Rewritten.exists /\ Good(setup, Rewritten.pages, Renamed(Rewritten, mem), <<>>)
  BY <1>2, RewrittenIsGood DEF Good
<1>5. /\ fresh' = Rewritten /\ disk' = Flushed /\ buffer' = Nothing /\ mem' = mem /\ up' = up /\ setup' = setup
      /\ work' = [work EXCEPT !.next = "remove"]
  BY DEF Rewrite
<1>6. Flushed' = Flushed
  BY <1>5 DEF Flushed, Nothing
<1>7. /\ DOMAIN work' = {"todo", "dropped", "retry", "next"} /\ work'.todo = <<>> /\ work'.retry = <<>>
      /\ work'.next = "remove"
  BY <1>1, <1>2, <1>3, <1>5 DEF CallIsSound
<1>8. CallIsSound'
  BY <1>1, <1>2, <1>7 DEF CallIsSound
<1>9. MetaWillBeSaved'
  BY <1>2, <1>5, <1>6 DEF MetaWillBeSaved
<1>10. Becomes(disk'.pages, work'.todo, disk.pages) /\ Good(setup', disk.pages, mem', work'.retry)
  BY <1>2, <1>3, <1>5, <1>7, BecomesItself
<1>11. Working'
  BY <1>2, <1>4, <1>5, <1>7, <1>8, <1>9, <1>10 DEF Working
<1> QED BY <1>1, <1>2, <1>5, <1>11 DEF SeqInv

LEMMA NoCallFields == /\ DOMAIN NoWork = {"todo", "dropped", "retry", "next"}
                      /\ NoWork.todo = <<>> /\ NoWork.retry = <<>> /\ NoWork.next = ""
  BY DEF NoWork

(* A step after which no call is in progress, and the file on the disk is good. *)
LEMMA NoneInProgress ==
    ASSUME SetupsAreSound, work' = NoWork, up', setup' \in Setups, IsFile(setup', disk'), IsMemory(mem'),
           disk'.exists, Flushed'.meta = Meta(mem'), Good(setup', disk'.pages, mem', <<>>)
    PROVE  SeqInv'
<1>1. work'.todo = <<>> /\ work'.retry = <<>> /\ work'.next = "" /\ DOMAIN work' = {"todo", "dropped", "retry", "next"}
  BY NoCallFields
<1>2. CallIsSound'
  <2>1. <<>> \in Seq(WritesIn(setup'))
    BY EmptySeq
  <2> QED BY <1>1, <2>1 DEF CallIsSound
<1>3. MetaWillBeSaved'
  BY DEF MetaWillBeSaved
<1>4. Becomes(disk'.pages, work'.todo, disk'.pages)
  BY <1>1, BecomesItself
<1>5. Working'
  BY <1>1, <1>2, <1>3, <1>4 DEF Working
<1> QED BY <1>5 DEF SeqInv

LEMMA RewriteFailsKeeps ==
    ASSUME SetupsAreSound, SeqInv, RewriteFails
    PROVE  SeqInv'
<1>1. up /\ work.todo = <<>> /\ work.next = "rewrite"
  BY DEF RewriteFails
<1>2. /\ SoundSetup(setup) /\ Good(setup, disk.pages, mem, work.retry) /\ CallIsSound
      /\ Flushed.pages = disk.pages /\ Flushed.meta = Meta(mem) /\ Flushed.exists /\ IsFile(setup, Flushed)
      /\ IsMemory(mem)
  BY <1>1, Quiet
<1>3. work.retry = <<>>
  BY <1>1, <1>2 DEF CallIsSound
<1>4. disk' = Flushed /\ buffer' = Nothing /\ work' = NoWork /\ mem' = mem /\ up' = up /\ setup' = setup
  BY DEF RewriteFails
<1>5. Flushed' = Flushed
  BY <1>4 DEF Flushed, Nothing
<1>6. setup \in Setups
  BY DEF SeqInv
<1> QED BY <1>1, <1>2, <1>3, <1>4, <1>5, <1>6, NoneInProgress

LEMMA FlushKeeps ==
    ASSUME SetupsAreSound, SeqInv, Flush
    PROVE  SeqInv'
<1>1. up /\ work = NoWork /\ work.todo = <<>> /\ work.next = "" /\ work.retry = <<>>
  BY NoCallFields DEF Flush, Idle
<1>2. /\ SoundSetup(setup) /\ Good(setup, disk.pages, mem, work.retry)
      /\ Flushed.pages = disk.pages /\ Flushed.exists /\ IsFile(setup, Flushed) /\ IsMemory(mem)
  BY <1>1, Quiet
<1>3. /\ disk' = [OnClose EXCEPT !.meta = Meta(mem)] /\ buffer' = Nothing /\ work' = work /\ mem' = mem /\ up' = up
      /\ setup' = setup
  BY DEF Flush
<1>4. disk'.pages = disk.pages /\ disk'.exists /\ disk'.meta = Meta(mem) /\ IsFile(setup, disk')
  BY <1>2, <1>3 DEF OnClose, IsFile
<1>5. Flushed'.meta = Meta(mem)
  BY <1>3, <1>4 DEF Flushed, Nothing
<1>6. setup \in Setups
  BY DEF SeqInv
<1> QED BY <1>1, <1>2, <1>3, <1>4, <1>5, <1>6, NoneInProgress

LEMMA RemoveOldKeeps ==
    ASSUME SetupsAreSound, SeqInv, RemoveOld
    PROVE  SeqInv'
<1>1. up /\ work.next = "remove" /\ Working /\ SoundSetup(setup) /\ IsMemory(mem) /\ setup \in Setups
  BY DEF RemoveOld, SeqInv, SetupsAreSound
<1>2. /\ disk' = NoFile /\ buffer' = Nothing /\ mem' = mem /\ fresh' = fresh /\ up' = up /\ setup' = setup
      /\ work' = [work EXCEPT !.next = "rename"]
  BY DEF RemoveOld
<1>3. CallIsSound /\ work.todo = <<>> /\ work.retry = <<>>
  BY <1>1 DEF Working, CallIsSound
<1>4. /\ DOMAIN work' = {"todo", "dropped", "retry", "next"} /\ work'.todo = <<>> /\ work'.retry = <<>>
      /\ work'.next = "rename"
  BY <1>2, <1>3 DEF CallIsSound
<1>5. CallIsSound'
  BY <1>2, <1>3, <1>4 DEF CallIsSound
<1>6. IsFile(setup, NoFile)
  <2>1. NoFile.pages = Empty(setup) /\ DOMAIN NoFile = {"exists", "pages", "count", "meta"}
    BY DEF NoFile, Empty
  <2> QED BY <1>1, <2>1, BlankIsPage DEF IsFile, SoundSetup
<1>7. IsFile(setup, fresh) /\ fresh.exists /\ Good(setup, fresh.pages, Renamed(fresh, mem), <<>>)
  BY <1>1 DEF Working
<1>8. Working'
  BY <1>2, <1>4, <1>5, <1>7 DEF Working
<1> QED BY <1>1, <1>2, <1>6, <1>8 DEF SeqInv

LEMMA RenameNewKeeps ==
    ASSUME SetupsAreSound, SeqInv, RenameNew
    PROVE  SeqInv'
<1>1. up /\ work.next = "rename" /\ Working /\ SoundSetup(setup) /\ IsMemory(mem) /\ setup \in Setups
  BY DEF RenameNew, SeqInv, SetupsAreSound
<1>2. /\ disk' = fresh /\ mem' = Renamed(fresh, mem) /\ up' = up /\ setup' = setup /\ work' = NoWork
      /\ buffer' = [kind |-> "meta", meta |-> Meta(Renamed(fresh, mem))]
  BY DEF RenameNew, Renamed
<1>3. IsFile(setup, fresh) /\ fresh.exists /\ Good(setup, fresh.pages, Renamed(fresh, mem), <<>>)
  BY <1>1 DEF Working
<1>4. IsMemory(Renamed(fresh, mem))
  BY <1>1 DEF IsMemory, Renamed
<1>5. Flushed'.meta = Meta(mem')
  BY <1>2, <1>3 DEF Flushed, IsFile
<1> QED BY <1>1, <1>2, <1>3, <1>4, <1>5, NoneInProgress

LEMMA CloseKeeps ==
    ASSUME SetupsAreSound, SeqInv, Close
    PROVE  SeqInv'
<1>1. up /\ work = NoWork /\ work.todo = <<>> /\ work.next = "" /\ work.retry = <<>>
  BY NoCallFields DEF Close, Idle
<1>2. /\ SoundSetup(setup) /\ Good(setup, disk.pages, mem, work.retry) /\ Flushed.meta = Meta(mem)
      /\ Flushed.pages = disk.pages /\ Flushed.exists /\ IsFile(setup, Flushed) /\ IsMemory(mem)
  BY <1>1, Quiet
<1>3. /\ disk' = Flushed /\ buffer' = [kind |-> "header", count |-> mem.count] /\ mem' = mem /\ up' = up
      /\ setup' = setup /\ work' = [NoWork EXCEPT !.next = "close"]
  BY DEF Close
<1>4. Flushed'.meta = Meta(mem) /\ Flushed'.count = mem.count
  BY <1>2, <1>3 DEF Flushed, IsFile
<1>5. /\ DOMAIN work' = {"todo", "dropped", "retry", "next"} /\ work'.todo = <<>> /\ work'.retry = <<>>
      /\ work'.next = "close"
  BY <1>3, NoCallFields
<1>6. CallIsSound'
  <2>1. <<>> \in Seq(WritesIn(setup'))
    BY EmptySeq
  <2> QED BY <1>5, <2>1 DEF CallIsSound
<1>7. MetaWillBeSaved'
  BY <1>3, <1>4 DEF MetaWillBeSaved
<1>8. Becomes(disk'.pages, work'.todo, disk.pages) /\ Good(setup', disk.pages, mem', work'.retry)
  BY <1>1, <1>2, <1>3, <1>5, BecomesItself
<1>9. Working'
  BY <1>2, <1>3, <1>4, <1>5, <1>6, <1>7, <1>8 DEF Working
<1> QED BY <1>1, <1>2, <1>3, <1>9 DEF SeqInv

LEMMA ClosedKeeps ==
    ASSUME SetupsAreSound, SeqInv, Closed
    PROVE  SeqInv'
<1>1. up /\ work.next = "close" /\ Working /\ setup \in Setups
  BY DEF Closed, SeqInv
<1>2. work.todo = <<>> /\ work.retry = <<>> /\ Flushed.count = mem.count
  BY <1>1 DEF Working, CallIsSound
<1>3. /\ Good(setup, disk.pages, mem, work.retry) /\ Flushed.meta = Meta(mem)
      /\ Flushed.pages = disk.pages /\ Flushed.exists /\ IsFile(setup, Flushed) /\ IsMemory(mem)
  BY <1>1, <1>2, Quiet
<1>4. disk' = Flushed /\ up' = FALSE /\ mem' = NoMemory /\ work' = NoWork /\ setup' = setup
  BY DEF Closed
<1>5. Resting'
  BY <1>2, <1>3, <1>4 DEF Resting
<1>6. IsMemory(mem')
  BY <1>4 DEF IsMemory, NoMemory
<1> QED BY <1>1, <1>3, <1>4, <1>5, <1>6 DEF SeqInv

(* build_directory finds the directory that the object had. *)
LEMMA DirectoryIsRead ==
    ASSUME SoundSetup(setup), NEW d, NEW P, d.pages = P, NEW n, Sound(setup, P, n)
    PROVE  Chain(d, n.head) = n.main /\ FirstKeys(d, n.main) = n.first
<1>1. /\ P \in Images(setup) /\ Chained(setup, P, n.main, n.head, n.count) /\ Directory(P, n)
      /\ Len(n.main) \in Nat /\ DOMAIN n.main = 1 .. Len(n.main) /\ setup.pages \in Nat
      /\ n.count \in 0 .. setup.pages /\ n.main \in Seq(1 .. setup.pages)
  <2>1. setup.pages \in Nat
    BY DEF SoundSetup
  <2>2. n.main \in Seq(1 .. setup.pages)
    BY DEF Sound, Chained
  <2> QED BY <2>1, <2>2, SoundTypes
<1> DEFINE k == Len(n.main)
           main == n.main
<1>2. \A g \in 1 .. k : main[g] \in 1 .. setup.pages /\ P[main[g]].next = IF g = k THEN NoPage ELSE main[g + 1]
  BY <1>1, ElementOfSeq DEF Chained
<1>3. Linked(d, main, k)
  BY <1>2 DEF Linked, NoPage
<1>4. k <= setup.pages
  <2>1. \A g, h \in 1 .. k : main[g] = main[h] => g = h
    <3> SUFFICES ASSUME NEW g \in 1 .. k, NEW h \in 1 .. k, main[g] = main[h], g # h PROVE FALSE
      OBVIOUS
    <3>1. PagesOf(P, main[g]) \cap PagesOf(P, main[h]) = {}
      BY <1>1 DEF Chained
    <3> QED BY <3>1 DEF PagesOf
  <2>2. main \in Injection(1 .. k, 1 .. setup.pages)
    <3>1. main \in [1 .. k -> 1 .. setup.pages]
      BY <1>1, LenProperties
    <3> QED BY <2>1, <3>1 DEF Injection, IsInjective
  <2> HIDE DEF k, main
  <2>3. /\ IsFiniteSet(1 .. setup.pages) /\ Cardinality(1 .. setup.pages) = setup.pages
        /\ IsFiniteSet(1 .. k) /\ Cardinality(1 .. k) = k
    BY <1>1, UpTo DEF k
  <2> QED BY <2>2, <2>3, FS_Injection
<1>5. main \in [1 .. k -> 1 .. setup.pages] /\ k \in 0 .. setup.pages
  <2>1. k \in 0 .. setup.pages
    BY <1>1, <1>4
  <2> QED BY <1>1, <2>1, LenProperties
<1>6. HeadOf(main, k) = n.head
  <2>1. main = <<>> <=> k = 0
    BY <1>1, EmptySeq
  <2> QED BY <1>1, <2>1 DEF HeadOf, Chained
<1>7. Chain(d, HeadOf(main, k)) = main
  <2> HIDE DEF main, k
  <2> SUFFICES ASSUME NEW T, T = 1 .. setup.pages PROVE Chain(d, HeadOf(main, k)) = main
    OBVIOUS
  <2>1. main \in [1 .. k -> T]
    BY <1>5
  <2> QED BY <1>1, <1>3, <1>5, <2>1, WalkIsChain
<1>8. FirstKeys(d, n.main) = n.first
  BY <1>1 DEF Directory, FirstKeys, FirstOf
<1> QED BY <1>6, <1>7, <1>8

LEMMA OpenKeeps ==
    ASSUME SetupsAreSound, SeqInv, Open
    PROVE  SeqInv'
<1>1. ~up /\ Resting /\ setup \in Setups /\ SoundSetup(setup) /\ IsFile(setup, disk)
  BY DEF Open, SeqInv, SetupsAreSound
<1>2. PICK n : Good(setup, disk.pages, n, <<>>) /\ n.count = disk.count /\ Meta(n) = disk.meta
  BY <1>1 DEF Resting
<1>3. disk.meta.saved /\ disk.meta.live = n.live /\ disk.meta.deleted = n.deleted /\ disk.meta.head = n.head
  BY <1>2 DEF Meta
<1>4. Chain(disk, disk.meta.head) = n.main /\ FirstKeys(disk, n.main) = n.first
  BY <1>1, <1>2, <1>3, DirectoryIsRead DEF Good
<1>5. /\ disk' = [disk EXCEPT !.exists = TRUE] /\ buffer' = Nothing /\ up' = TRUE /\ setup' = setup /\ work' = work
      /\ mem' = [count |-> n.count, live |-> n.live, deleted |-> n.deleted, head |-> n.head, main |-> n.main,
                 first |-> n.first]
  BY <1>2, <1>3, <1>4 DEF Open
<1>6. disk'.pages = disk.pages /\ disk'.exists /\ disk'.meta = disk.meta /\ IsFile(setup, disk')
  BY <1>1, <1>5 DEF IsFile
<1>7. Flushed'.meta = Meta(mem') /\ IsMemory(mem')
  BY <1>2, <1>3, <1>5, <1>6 DEF Flushed, Nothing, Meta, IsMemory
<1>8. Sound(setup, disk.pages, mem') /\ LastFits(disk.pages, mem', <<>>)
  BY <1>2, <1>5, ZenonT(30) DEF Good, Sound, LastFits, Directory
<1>9. work' = NoWork
  BY <1>1, <1>5 DEF Resting
<1> QED BY <1>1, <1>5, <1>6, <1>7, <1>8, <1>9, NoneInProgress DEF Good

LEMMA ReorganizeKeeps ==
    ASSUME SetupsAreSound, SeqInv, Reorganize
    PROVE  SeqInv'
<1>1. up /\ work.todo = <<>> /\ work.next = "" /\ work.retry = <<>> /\ Starts(mem, <<>>, "rewrite")
  BY NoCallFields DEF Reorganize, Idle
<1>2. Good(setup, disk.pages, mem, work.retry) /\ IsMemory(mem)
  BY <1>1, Quiet
<1>3. Becomes(disk.pages, <<>>, disk.pages) /\ <<>> \in Seq(WritesIn(setup))
  BY BecomesItself, EmptySeq
<1> QED BY <1>1, <1>2, <1>3, CallStarts

(* A write by itself, and the short lists that the calls are made of. *)
LEMMA OneWrite ==
    ASSUME NEW s, s.pages \in Nat, NEW P \in Images(s), NEW w \in WritesIn(s)
    PROVE  <<w>> \in Seq(WritesIn(s)) /\ Becomes(P, <<w>>, After(P, w)) /\ After(P, w) \in Images(s)
<1>1. DOMAIN <<w>> = {1} /\ <<w>>[1] = w
  OBVIOUS
<1>2. /\ After(P, w) \in Images(s) /\ DOMAIN After(P, w) = 1 .. s.pages
      /\ \A p \in 1 .. s.pages : After(P, w)[p] = IF WritesTo(w, p) THEN ImageOf(w) ELSE P[p]
  <2>1. /\ After(P, w) \in Images(s)
        /\ \A p \in 1 .. s.pages : After(P, w)[p] = IF WritesTo(w, p) THEN ImageOf(w) ELSE P[p]
    BY AfterWrite
  <2> QED BY <2>1 DEF Images
<1> DEFINE Q == After(P, w)
           list == <<w>>
<1> HIDE DEF Q, list
<1>3. Becomes(P, list, Q)
  <2>1. DOMAIN list = {1} /\ list[1] = w
    BY <1>1 DEF list
  <2> QED BY <1>2, <2>1 DEF Becomes, IsLastTo, Q
<1> QED BY <1>2, <1>3 DEF Q, list

LEMMA OneMore ==
    ASSUME NEW T, NEW t \in Seq(T), NEW w \in T, NEW u, u \in Seq(T), Len(u) = Len(t) + 1,
           \A i \in 1 .. Len(t) : u[i] = t[i], u[Len(t) + 1] = w
    PROVE  t \o <<w>> = u
<1>1. <<w>> \in Seq(T) /\ Len(<<w>>) = 1 /\ <<w>>[1] = w /\ Len(t) \in Nat
  BY LenProperties
<1> DEFINE one == <<w>>
           all == t \o one
<1> HIDE DEF one
<1>2. /\ all \in Seq(T) /\ Len(all) = Len(t) + 1
      /\ \A i \in 1 .. Len(t) + 1 : all[i] = IF i <= Len(t) THEN t[i] ELSE one[i - Len(t)]
  BY <1>1, ConcatProperties DEF one
<1> HIDE DEF all
<1>3. ASSUME NEW i \in 1 .. Len(t) + 1 PROVE all[i] = u[i]
  <2>1. CASE i <= Len(t)
    <3>1. i \in 1 .. Len(t)
      BY <1>1, <2>1
    <3> QED BY <1>2, <2>1, <3>1
  <2>2. CASE ~(i <= Len(t))
    <3>1. i = Len(t) + 1 /\ i - Len(t) = 1
      BY <1>1, <2>2
    <3>2. all[i] = one[1]
      BY <1>2, <2>2, <3>1
    <3> QED BY <1>1, <3>1, <3>2 DEF one
  <2> QED BY <2>1, <2>2
<1>4. all = u
  BY <1>2, <1>3, SeqEqual
<1> QED BY <1>4 DEF all, one

LEMMA AnotherWrite ==
    ASSUME NEW s, s.pages \in Nat, NEW A, NEW P \in Images(s), NEW t \in Seq(WritesIn(s)), Becomes(A, t, P),
           NEW w \in WritesIn(s), NEW u, u = t \o <<w>>
    PROVE  u \in Seq(WritesIn(s)) /\ Becomes(A, u, After(P, w)) /\ After(P, w) \in Images(s)
<1>1. <<w>> \in Seq(WritesIn(s)) /\ Becomes(P, <<w>>, After(P, w)) /\ After(P, w) \in Images(s)
  BY OneWrite
<1> DEFINE one == <<w>>
           Q == After(P, w)
<1> HIDE DEF one, Q
<1>2. t \o one \in Seq(WritesIn(s)) /\ Becomes(A, t \o one, Q)
  BY <1>1, WritesInOrder DEF one, Q
<1> QED BY <1>1, <1>2 DEF one, Q

LEMMA TwoWrites ==
    ASSUME NEW s, s.pages \in Nat, NEW P \in Images(s), NEW a \in WritesIn(s), NEW b \in WritesIn(s)
    PROVE  /\ <<a, b>> \in Seq(WritesIn(s)) /\ Becomes(P, <<a, b>>, After(After(P, a), b))
           /\ After(After(P, a), b) \in Images(s)
<1>1. <<a>> \in Seq(WritesIn(s)) /\ Becomes(P, <<a>>, After(P, a)) /\ After(P, a) \in Images(s)
  BY OneWrite
<1>2. <<a>> \o <<b>> = <<a, b>>
  BY PairOf
<1> QED BY <1>1, <1>2, AnotherWrite

LEMMA ThreeWrites ==
    ASSUME NEW s, s.pages \in Nat, NEW P \in Images(s), NEW a \in WritesIn(s), NEW b \in WritesIn(s),
           NEW c \in WritesIn(s)
    PROVE  /\ <<a, b, c>> \in Seq(WritesIn(s)) /\ Becomes(P, <<a, b, c>>, After(After(After(P, a), b), c))
           /\ After(After(After(P, a), b), c) \in Images(s)
<1>1. /\ <<a, b>> \in Seq(WritesIn(s)) /\ Becomes(P, <<a, b>>, After(After(P, a), b))
      /\ After(After(P, a), b) \in Images(s)
  BY TwoWrites
<1>2. <<a, b>> \o <<c>> = <<a, b, c>>
  <2> SUFFICES ASSUME NEW T, T = WritesIn(s), NEW t, t = <<a, b>>, NEW u, u = <<a, b, c>> PROVE t \o <<c>> = u
    OBVIOUS
  <2>1. t \in Seq(T) /\ c \in T /\ u \in Seq(T)
    BY <1>1
  <2>2. Len(t) = 2 /\ Len(u) = 2 + 1
    OBVIOUS
  <2>3. \A i \in 1 .. 2 : u[i] = t[i]
    OBVIOUS
  <2>4. u[2 + 1] = c
    OBVIOUS
  <2>5. Len(u) = Len(t) + 1 /\ u[Len(t) + 1] = c /\ \A i \in 1 .. Len(t) : u[i] = t[i]
    BY ONLY <2>2, <2>3, <2>4
  <2> QED BY ONLY <2>1, <2>5, OneMore
<1> QED BY <1>1, <1>2, AnotherWrite

LEMMA FourWrites ==
    ASSUME NEW s, s.pages \in Nat, NEW P \in Images(s), NEW a \in WritesIn(s), NEW b \in WritesIn(s),
           NEW c \in WritesIn(s), NEW d \in WritesIn(s)
    PROVE  /\ <<a, b, c, d>> \in Seq(WritesIn(s))
           /\ Becomes(P, <<a, b, c, d>>, After(After(After(After(P, a), b), c), d))
           /\ After(After(After(After(P, a), b), c), d) \in Images(s)
<1>1. /\ <<a, b, c>> \in Seq(WritesIn(s)) /\ Becomes(P, <<a, b, c>>, After(After(After(P, a), b), c))
      /\ After(After(After(P, a), b), c) \in Images(s)
  BY ThreeWrites
<1>2. <<a, b, c>> \o <<d>> = <<a, b, c, d>>
  <2> SUFFICES ASSUME NEW T, T = WritesIn(s), NEW t, t = <<a, b, c>>, NEW u, u = <<a, b, c, d>> PROVE t \o <<d>> = u
    OBVIOUS
  <2>1. t \in Seq(T) /\ d \in T /\ u \in Seq(T)
    BY <1>1
  <2>2. Len(t) = 3 /\ Len(u) = 3 + 1
    OBVIOUS
  <2>3. \A i \in 1 .. 3 : u[i] = t[i]
    OBVIOUS
  <2>4. u[3 + 1] = d
    OBVIOUS
  <2>5. Len(u) = Len(t) + 1 /\ u[Len(t) + 1] = d /\ \A i \in 1 .. Len(t) : u[i] = t[i]
    BY ONLY <2>2, <2>3, <2>4
  <2> QED BY ONLY <2>1, <2>5, OneMore
<1> QED BY <1>1, <1>2, AnotherWrite

LEMMA FiveWrites ==
    ASSUME NEW s, s.pages \in Nat, NEW P \in Images(s), NEW a \in WritesIn(s), NEW b \in WritesIn(s),
           NEW c \in WritesIn(s), NEW d \in WritesIn(s), NEW e \in WritesIn(s)
    PROVE  /\ <<a, b, c, d, e>> \in Seq(WritesIn(s))
           /\ Becomes(P, <<a, b, c, d, e>>, After(After(After(After(After(P, a), b), c), d), e))
           /\ After(After(After(After(After(P, a), b), c), d), e) \in Images(s)
<1>1. /\ <<a, b, c, d>> \in Seq(WritesIn(s))
      /\ Becomes(P, <<a, b, c, d>>, After(After(After(After(P, a), b), c), d))
      /\ After(After(After(After(P, a), b), c), d) \in Images(s)
  BY FourWrites
<1>2. <<a, b, c, d>> \o <<e>> = <<a, b, c, d, e>>
  <2> SUFFICES ASSUME NEW T, T = WritesIn(s), NEW t, t = <<a, b, c, d>>, NEW u, u = <<a, b, c, d, e>> PROVE t \o <<e>> = u
    OBVIOUS
  <2>1. t \in Seq(T) /\ e \in T /\ u \in Seq(T)
    BY <1>1
  <2>2. Len(t) = 4 /\ Len(u) = 4 + 1
    OBVIOUS
  <2>3. \A i \in 1 .. 4 : u[i] = t[i]
    OBVIOUS
  <2>4. u[4 + 1] = e
    OBVIOUS
  <2>5. Len(u) = Len(t) + 1 /\ u[Len(t) + 1] = e /\ \A i \in 1 .. Len(t) : u[i] = t[i]
    BY ONLY <2>2, <2>3, <2>4
  <2> QED BY ONLY <2>1, <2>5, OneMore
<1> SUFFICES ASSUME NEW t, t = <<a, b, c, d>>, NEW u, u = <<a, b, c, d, e>>, NEW Q, Q = After(After(After(After(P, a), b), c), d)
             PROVE  u \in Seq(WritesIn(s)) /\ Becomes(P, u, After(Q, e)) /\ After(Q, e) \in Images(s)
  OBVIOUS
<1>3. /\ s.pages \in Nat /\ Q \in Images(s) /\ t \in Seq(WritesIn(s)) /\ Becomes(P, t, Q) /\ e \in WritesIn(s)
      /\ u = t \o <<e>>
  BY <1>1, <1>2
<1> QED BY ONLY <1>3, AnotherWrite

LEMMA AfterEach ==
    ASSUME NEW P, NEW q, NEW image
    PROVE  /\ After(P, StorePage(q, image)) = [P EXCEPT ![q] = image]
           /\ After(P, Allocate(q)) = [P EXCEPT ![q] = Blank]
           /\ After(P, SaveMeta) = P
<1>1. StorePage(q, image) # SaveMeta /\ StorePage(q, image).page = q /\ ImageOf(StorePage(q, image)) = image
  BY DEF StorePage, SaveMeta, ImageOf
<1>2. Allocate(q) # SaveMeta /\ Allocate(q).page = q /\ ImageOf(Allocate(q)) = Blank
  BY DEF Allocate, SaveMeta, ImageOf
<1> QED BY <1>1, <1>2 DEF After

LEMMA AfterMeta ==
    ASSUME NEW P, NEW s
    PROVE  After(P, SaveMeta) = P /\ SaveMeta \in WritesIn(s)
  BY DEF After, WritesIn

LEMMA SearchesFindAll ==
    ASSUME SetupsAreSound, SeqInv, up, work.todo = <<>>, work.next # "rename", NEW key \in Int
    PROVE  Found(key) = {x \in AllLiving(disk.pages, mem.main) : SlotAt(disk.pages, x).key = key}
<1>1. SoundSetup(setup) /\ Sound(setup, disk.pages, mem) /\ Flushed.pages = disk.pages
  BY Quiet DEF Good
<1>2. /\ disk.pages \in Images(setup) /\ Chained(setup, disk.pages, mem.main, mem.head, mem.count)
      /\ Directory(disk.pages, mem)
  BY <1>1 DEF Sound
<1>3. setup.pages \in Nat /\ setup.slots \in Nat /\ setup.keys \subseteq Int
  BY <1>1, ZenonT(30) DEF SoundSetup
<1> QED BY <1>1, <1>2, <1>3, FoundIsAll

LEMMA LookKeepsLast ==
    ASSUME NEW s, SoundSetup(s), NEW P, NEW m, Sound(s, P, m), NEW Q, NEW n, n.main = m.main, NEW retry,
           LastFits(P, m, retry), \A h \in DOMAIN m.main : SameLook(P, Q, m.main[h])
    PROVE  LastFits(Q, n, retry)
<1> SUFFICES ASSUME NEW p, m.main # <<>>, p = m.main[Len(m.main)]
             PROVE  \/ \A k \in KeysOf(Q, p) : k <= Q[p].slots[Len(Q[p].slots)].key
                    \/ \E r \in ToSet(retry) : \A k \in KeysOf(Q, p) : k < r.key
  BY DEF LastFits
<1>1. Len(m.main) \in DOMAIN m.main
  <2>1. m.main \in Seq(1 .. s.pages)
    BY DEF Sound, Chained
  <2>2. Len(m.main) \in Nat \ {0} /\ DOMAIN m.main = 1 .. Len(m.main)
    BY <2>1, EmptySeq, LenProperties
  <2> QED BY <2>2
<1>2. SameLook(P, Q, p)
  BY <1>1
<1>3. P \in Images(s) /\ Sane(s, P, p) /\ p \in 1 .. s.pages
  BY <1>1, SoundTypes
<1>4. Len(P[p].slots) \in 1 .. Len(P[p].slots)
  <2>1. P[p].slots # <<>> /\ P[p].slots \in Seq(SlotsIn(s))
    BY <1>3, PageTypes, SMTT(30) DEF Sane
  <2> QED BY <2>1, EmptySeq
<1>5. Q[p].slots[Len(Q[p].slots)].key = P[p].slots[Len(P[p].slots)].key /\ KeysOf(Q, p) = KeysOf(P, p)
  BY <1>2, <1>4 DEF SameLook
<1> QED BY <1>5 DEF LastFits

(* remove and update: a slot that the search found is written again. *)
LEMMA SlotWritten ==
    ASSUME SetupsAreSound, SeqInv, up, work.todo = <<>>, work.next # "rename", NEW key \in Int, NEW at \in Found(key),
           NEW e \in SlotsIn(setup), e.key = key, NEW n, n.main = mem.main, n.head = mem.head, n.count = mem.count,
           n.first = mem.first, n.live = (IF e.live THEN mem.live ELSE mem.live - 1),
           n.deleted = (IF e.live THEN mem.deleted ELSE mem.deleted + 1),
           NEW image, image = [disk.pages[at[1]] EXCEPT !.slots = [disk.pages[at[1]].slots EXCEPT ![at[2]] = e]]
    PROVE  /\ StorePage(at[1], image) \in WritesIn(setup) /\ at[1] \in 1 .. setup.pages
           /\ at[2] \in DOMAIN disk.pages[at[1]].slots
           /\ Good(setup, After(disk.pages, StorePage(at[1], image)), n, work.retry)
<1> SUFFICES ASSUME NEW P, P = disk.pages, NEW slots, slots = [P[at[1]].slots EXCEPT ![at[2]] = e]
             PROVE  /\ StorePage(at[1], image) \in WritesIn(setup) /\ at[1] \in 1 .. setup.pages
                    /\ at[2] \in DOMAIN P[at[1]].slots
                    /\ Good(setup, After(P, StorePage(at[1], image)), n, work.retry)
  OBVIOUS
<1>1. /\ SoundSetup(setup) /\ Sound(setup, P, mem) /\ LastFits(P, mem, work.retry) /\ Flushed.pages = P
      /\ P \in Images(setup)
  BY Quiet DEF Good
<1>2. at \in AllLiving(P, mem.main) /\ SlotAt(P, at).key = key
  BY SearchesFindAll
<1>3. PICK g \in DOMAIN mem.main : at \in Living(P, mem.main[g])
  BY <1>2 DEF AllLiving
<1>4. mem.main[g] \in 1 .. setup.pages /\ setup.pages \in Nat
  <2>1. setup.pages \in Nat
    BY <1>1 DEF SoundSetup
  <2> QED BY <1>1, <2>1, SoundTypes
<1>5. at[1] \in 1 .. setup.pages /\ at[2] \in DOMAIN P[at[1]].slots
  <2>1. at \in PlacesOf(P, mem.main[g])
    BY <1>3 DEF Living
  <2> QED BY <1>1, <1>4, <2>1, PlaceTypes
<1>6. P[at[1]] \in PagesIn(setup) /\ slots \in Seq(SlotsIn(setup))
  <2>1. P[at[1]] \in PagesIn(setup)
    BY <1>1, <1>5 DEF Images
  <2>2. P[at[1]].slots \in Seq(SlotsIn(setup))
    BY <2>1 DEF PagesIn
  <2>3. at[2] \in 1 .. Len(P[at[1]].slots)
    BY <1>5, <2>2, LenProperties
  <2> QED BY <2>1, <2>2, <2>3, ExceptSeq
<1>7. image = [P[at[1]] EXCEPT !.slots = slots]
  OBVIOUS
<1>8. LinkedAs(setup, image, P[at[1]], slots)
  <2> SUFFICES ASSUME NEW page, page = P[at[1]] PROVE LinkedAs(setup, image, page, slots)
    OBVIOUS
  <2>1. page \in PagesIn(setup) /\ slots \in Seq(SlotsIn(setup)) /\ image = [page EXCEPT !.slots = slots]
    BY <1>6, <1>7
  <2> QED BY ONLY <2>1, WithSlots
<1>9. image \in PagesIn(setup)
  BY <1>8 DEF LinkedAs
<1>10. StorePage(at[1], image) \in WritesIn(setup)
  BY <1>5, <1>9 DEF WritesIn
<1> SUFFICES ASSUME NEW Q, Q = After(P, StorePage(at[1], image)) PROVE Good(setup, Q, n, work.retry)
  BY <1>5, <1>10
<1>11. Sets(P, Q, at[1], image)
  BY AfterEach DEF Sets
<1>12. ChangesSlot(setup, P, mem, Q, n, g, at, e, image)
  BY <1>2, <1>3, <1>8, <1>11 DEF ChangesSlot
<1>13. Sound(setup, Q, n) /\ \A h \in DOMAIN mem.main : SameLook(P, Q, mem.main[h])
  BY <1>1, <1>12, SlotChanged
<1>14. LastFits(Q, n, work.retry)
  BY <1>1, <1>13, LookKeepsLast
<1> QED BY <1>13, <1>14 DEF Good

LEMMA UpdateKeeps ==
    ASSUME SetupsAreSound, SeqInv, NEW r \in SetupRows, Update(r)
    PROVE  SeqInv'
<1>1. up /\ work.todo = <<>> /\ work.next = "" /\ work.retry = <<>>
  BY NoCallFields DEF Update, Idle
<1>2. /\ SoundSetup(setup) /\ Flushed.pages = disk.pages /\ IsMemory(mem) /\ disk.pages \in Images(setup)
  BY <1>1, Quiet
<1>3. Used(r) \in SlotsIn(setup) /\ Used(r).key = r.key /\ Used(r).live /\ r.key \in Int
  BY <1>2 DEF Used, SetupRows, SlotsIn, SoundSetup
<1>4. PICK at \in Found(r.key) :
        Starts(mem, <<StorePage(at[1], [Flushed.pages[at[1]] EXCEPT !.slots[at[2]] = Used(r)])>>, "")
  BY DEF Update
<1> SUFFICES ASSUME NEW image, image = [disk.pages[at[1]] EXCEPT !.slots = [disk.pages[at[1]].slots EXCEPT ![at[2]] = Used(r)]],
                    Starts(mem, <<StorePage(at[1], image)>>, "")
             PROVE  SeqInv'
  BY <1>2, <1>4
<1>5. StorePage(at[1], image) \in WritesIn(setup) /\ Good(setup, After(disk.pages, StorePage(at[1], image)), mem, work.retry)
  <2> SUFFICES ASSUME NEW key, key = r.key, NEW e, e = Used(r)
               PROVE  StorePage(at[1], image) \in WritesIn(setup) /\ Good(setup, After(disk.pages, StorePage(at[1], image)), mem, work.retry)
    OBVIOUS
  <2>1. /\ key \in Int /\ at \in Found(key) /\ e \in SlotsIn(setup) /\ e.key = key /\ e.live
        /\ image = [disk.pages[at[1]] EXCEPT !.slots = [disk.pages[at[1]].slots EXCEPT ![at[2]] = e]]
    BY <1>3
  <2>2. mem.live = (IF e.live THEN mem.live ELSE mem.live - 1) /\ mem.deleted = (IF e.live THEN mem.deleted ELSE mem.deleted + 1)
    BY <2>1
  <2> QED BY <1>1, <2>1, <2>2, SlotWritten
<1>6. <<StorePage(at[1], image)>> \in Seq(WritesIn(setup)) /\ Becomes(disk.pages, <<StorePage(at[1], image)>>, After(disk.pages, StorePage(at[1], image)))
  BY <1>2, <1>5, OneWrite DEF SoundSetup
<1> SUFFICES ASSUME NEW writes, writes = <<StorePage(at[1], image)>>, NEW P, P = After(disk.pages, StorePage(at[1], image)) PROVE SeqInv'
  OBVIOUS
<1>7. writes \in Seq(WritesIn(setup)) /\ Becomes(disk.pages, writes, P) /\ Good(setup, P, mem, <<>>) /\ Starts(mem, writes, "")
  BY <1>1, <1>5, <1>6
<1> QED BY <1>1, <1>2, <1>7, CallStarts

LEMMA RemoveRowKeeps ==
    ASSUME SetupsAreSound, SeqInv, NEW k \in setup.keys, RemoveByMark(k)
    PROVE  SeqInv'
<1>1. up /\ work.todo = <<>> /\ work.next = "" /\ work.retry = <<>>
  BY NoCallFields, Zenon DEF RemoveByMark, Idle
<1>2. /\ SoundSetup(setup) /\ Flushed.pages = disk.pages /\ IsMemory(mem) /\ disk.pages \in Images(setup)
      /\ Sound(setup, disk.pages, mem)
  BY <1>1, Quiet DEF Good
<1>3. k \in Int
  BY <1>2 DEF SoundSetup
<1>4. PICK at \in Found(k) :
        \E m, next : /\ m = [mem EXCEPT !.live = @ - 1, !.deleted = @ + 1] /\ next \in {"", "rewrite"}
                     /\ Starts(m, <<StorePage(at[1], [Flushed.pages[at[1]] EXCEPT !.slots[at[2]].live = FALSE]), SaveMeta>>, next)
  BY Zenon DEF RemoveByMark
<1>5. at \in AllLiving(disk.pages, mem.main) /\ SlotAt(disk.pages, at).key = k
  BY <1>1, <1>3, SearchesFindAll
<1> DEFINE old == disk.pages[at[1]].slots[at[2]]
<1>6. old \in SlotsIn(setup) /\ old.key = k
  <2>1. LiveSlots(disk.pages, mem.main) \subseteq SlotsIn(setup)
    <3>1. Chained(setup, disk.pages, mem.main, mem.head, mem.count)
      BY <1>2 DEF Sound
    <3> QED BY <1>2, <3>1, LivingSlots
  <2> QED BY <1>5, <2>1 DEF LiveSlots, SlotAt
<1> DEFINE e == [old EXCEPT !.live = FALSE]
<1>7. e \in SlotsIn(setup) /\ e.key = k /\ e.live = FALSE
  <2> HIDE DEF old
  <2> QED BY <1>6 DEF SlotsIn
<1>8. PICK m, next : /\ m = [mem EXCEPT !.live = @ - 1, !.deleted = @ + 1] /\ next \in {"", "rewrite"}
                     /\ Starts(m, <<StorePage(at[1], [Flushed.pages[at[1]] EXCEPT !.slots[at[2]].live = FALSE]), SaveMeta>>, next)
  BY <1>4
<1>9. /\ m.main = mem.main /\ m.head = mem.head /\ m.count = mem.count /\ m.first = mem.first
      /\ m.live = mem.live - 1 /\ m.deleted = mem.deleted + 1 /\ IsMemory(m)
  BY <1>2, <1>8, Zenon DEF IsMemory
<1>10. [Flushed.pages[at[1]] EXCEPT !.slots[at[2]].live = FALSE]
          = [disk.pages[at[1]] EXCEPT !.slots = [disk.pages[at[1]].slots EXCEPT ![at[2]] = e]]
  BY <1>2
<1> HIDE DEF e, old
<1> SUFFICES ASSUME NEW image, image = [disk.pages[at[1]] EXCEPT !.slots = [disk.pages[at[1]].slots EXCEPT ![at[2]] = e]],
                    Starts(m, <<StorePage(at[1], image), SaveMeta>>, next)
             PROVE  SeqInv'
  BY <1>8, <1>10, Zenon
<1>11. StorePage(at[1], image) \in WritesIn(setup) /\ Good(setup, After(disk.pages, StorePage(at[1], image)), m, work.retry)
  <2>1. m.live = (IF e.live THEN mem.live ELSE mem.live - 1) /\ m.deleted = (IF e.live THEN mem.deleted ELSE mem.deleted + 1)
    BY <1>7, <1>9
  <2> QED BY <1>1, <1>3, <1>7, <1>9, <2>1, SlotWritten
<1> SUFFICES ASSUME NEW writes, writes = <<StorePage(at[1], image), SaveMeta>>, NEW P, P = After(disk.pages, StorePage(at[1], image)) PROVE SeqInv'
  OBVIOUS
<1>12. writes \in Seq(WritesIn(setup)) /\ Becomes(disk.pages, writes, P)
  <2>1. SaveMeta \in WritesIn(setup) /\ setup.pages \in Nat /\ After(P, SaveMeta) = P
    BY <1>2, AfterMeta DEF SoundSetup
  <2> QED BY <1>2, <1>11, <2>1, TwoWrites
<1>13. EndsWithMeta(writes)
  BY DEF EndsWithMeta
<1>14. Starts(m, writes, next) /\ Good(setup, P, m, <<>>)
  BY <1>1, <1>11
<1> QED BY <1>1, <1>8, <1>9, <1>12, <1>13, <1>14, CallStarts, Zenon

-----------------------------------------------------------------------------
(* insert: what all its ways know of the row and the file. *)
LEMMA RowIsNew ==
    ASSUME SetupsAreSound, SeqInv, NEW r \in SetupRows, MayInsert(r)
    PROVE  /\ up /\ work.todo = <<>> /\ work.next = "" /\ work.retry \in {<<>>, <<r>>}
           /\ SoundSetup(setup) /\ Good(setup, disk.pages, mem, work.retry) /\ Sound(setup, disk.pages, mem)
           /\ Flushed.pages = disk.pages /\ disk.pages \in Images(setup) /\ IsMemory(mem) /\ setup.pages \in Nat
           /\ Used(r) \in SlotsIn(setup) /\ Used(r).key = r.key /\ Used(r).live /\ r.key \in Int
           /\ IsNew(disk.pages, mem.main, r.key)
<1>1. up /\ work.todo = <<>> /\ work.next = "" /\ work.retry \in {<<>>, <<r>>} /\ Found(r.key) = {}
  BY DEF MayInsert
<1>2. /\ SoundSetup(setup) /\ Good(setup, disk.pages, mem, work.retry) /\ Sound(setup, disk.pages, mem)
      /\ Flushed.pages = disk.pages /\ disk.pages \in Images(setup) /\ IsMemory(mem)
  BY <1>1, Quiet DEF Good
<1>3. Used(r) \in SlotsIn(setup) /\ Used(r).key = r.key /\ Used(r).live /\ r.key \in Int /\ setup.pages \in Nat
  BY <1>2 DEF Used, SetupRows, SlotsIn, SoundSetup
<1>4. Found(r.key) = {x \in AllLiving(disk.pages, mem.main) : SlotAt(disk.pages, x).key = r.key}
  BY <1>1, <1>3, SearchesFindAll
<1>5. IsNew(disk.pages, mem.main, r.key)
  BY <1>1, <1>4 DEF IsNew
<1> QED BY <1>1, <1>2, <1>3, <1>5

LEMMA GroupOfRow ==
    ASSUME SetupsAreSound, SeqInv, NEW r \in SetupRows, MayInsert(r), mem.main # <<>>
    PROVE  LET g == GroupOf(r.key)
           IN  /\ g \in 1 .. Len(mem.main) /\ g \in DOMAIN mem.main /\ Len(mem.main) \in DOMAIN mem.main
               /\ Len(mem.main) \in Nat /\ DOMAIN mem.main = 1 .. Len(mem.main)
               /\ mem.main[g] \in 1 .. setup.pages /\ Sane(setup, disk.pages, mem.main[g])
               /\ Belongs(disk.pages, mem.main, g, r.key)
               /\ NewRow(setup, disk.pages, mem, g, Used(r))
               /\ \A h \in DOMAIN mem.main : h > g => r.key < FirstOf(disk.pages, mem.main[h])
<1>1. /\ SoundSetup(setup) /\ Sound(setup, disk.pages, mem) /\ setup.pages \in Nat /\ disk.pages \in Images(setup)
      /\ Used(r) \in SlotsIn(setup) /\ Used(r).key = r.key /\ Used(r).live /\ r.key \in Int
      /\ IsNew(disk.pages, mem.main, r.key)
  BY RowIsNew
<1>2. Chained(setup, disk.pages, mem.main, mem.head, mem.count) /\ Directory(disk.pages, mem) /\ setup.keys \subseteq Int
  BY <1>1 DEF Sound, SoundSetup
<1>3. LET g == GroupOf(r.key)
      IN  /\ g \in DOMAIN mem.main
          /\ g # 1 => FirstOf(disk.pages, mem.main[g]) <= r.key
          /\ \A h \in DOMAIN mem.main : h > g => r.key < FirstOf(disk.pages, mem.main[h])
  BY <1>1, <1>2, KeyInItsGroup
<1> SUFFICES ASSUME NEW g, g = GroupOf(r.key)
             PROVE  /\ g \in 1 .. Len(mem.main) /\ g \in DOMAIN mem.main /\ Len(mem.main) \in DOMAIN mem.main
                    /\ Len(mem.main) \in Nat /\ DOMAIN mem.main = 1 .. Len(mem.main)
                    /\ mem.main[g] \in 1 .. setup.pages /\ Sane(setup, disk.pages, mem.main[g])
                    /\ Belongs(disk.pages, mem.main, g, r.key)
                    /\ NewRow(setup, disk.pages, mem, g, Used(r))
                    /\ \A h \in DOMAIN mem.main : h > g => r.key < FirstOf(disk.pages, mem.main[h])
  OBVIOUS
<1>6. /\ g \in DOMAIN mem.main
      /\ g # 1 => FirstOf(disk.pages, mem.main[g]) <= r.key
      /\ \A h \in DOMAIN mem.main : h > g => r.key < FirstOf(disk.pages, mem.main[h])
  BY <1>3
<1>4. /\ Len(mem.main) \in Nat /\ DOMAIN mem.main = 1 .. Len(mem.main) /\ Len(mem.main) # 0
      /\ mem.main[g] \in 1 .. setup.pages /\ Sane(setup, disk.pages, mem.main[g])
  BY <1>1, <1>2, <1>6, ChainTypes
<1>5. Belongs(disk.pages, mem.main, g, r.key)
  BY <1>6 DEF Belongs
<1>7. NewRow(setup, disk.pages, mem, g, Used(r))
  BY <1>1, <1>5, <1>6 DEF NewRow
<1> QED BY <1>4, <1>5, <1>6, <1>7

(* Unless the row goes behind the last page, the keys of the last group are those up to the last one of its
   main page, and the row comes before that one or in an earlier group. *)
LastBounded(P, main) ==
    LET p == main[Len(main)]
    IN  \A k \in KeysOf(P, p) : k <= P[p].slots[Len(P[p].slots)].key

LEMMA RowIsInside ==
    ASSUME SetupsAreSound, SeqInv, NEW r \in SetupRows, MayInsert(r), mem.main # <<>>,
           GroupOf(r.key) # Len(mem.main) \/ (IsFull(r) /\ ~GoesLast(r))
    PROVE  /\ LastBounded(disk.pages, mem.main)
           /\ GroupOf(r.key) = Len(mem.main) =>
                 LET p == mem.main[Len(mem.main)]
                 IN  r.key <= disk.pages[p].slots[Len(disk.pages[p].slots)].key
<1> DEFINE N == Len(mem.main)
           last == mem.main[N]
<1> SUFFICES ASSUME NEW P, P = disk.pages, NEW g, g = GroupOf(r.key), NEW p, p = last
             PROVE  /\ \A k \in KeysOf(P, p) : k <= P[p].slots[Len(P[p].slots)].key
                    /\ g = N => r.key <= P[p].slots[Len(P[p].slots)].key
  BY DEF LastBounded
<1>1. /\ work.retry \in {<<>>, <<r>>} /\ SoundSetup(setup) /\ LastFits(P, mem, work.retry) /\ Sound(setup, P, mem)
      /\ Flushed.pages = P /\ P \in Images(setup) /\ r.key \in Int /\ setup.pages \in Nat
  BY RowIsNew DEF Good
<1>2. /\ g \in 1 .. N /\ N \in DOMAIN mem.main /\ N \in Nat /\ mem.main[g] \in 1 .. setup.pages
      /\ DOMAIN mem.main = 1 .. N
      /\ \A h \in DOMAIN mem.main : h > g => r.key < FirstOf(P, mem.main[h])
  BY GroupOfRow
<1>3. /\ p \in 1 .. setup.pages /\ Sane(setup, P, p) /\ KeysOf(P, p) \subseteq Int /\ FirstOf(P, p) \in KeysOf(P, p)
  <2>1. Chained(setup, P, mem.main, mem.head, mem.count) /\ setup.keys \subseteq Int
    BY <1>1 DEF Sound, SoundSetup
  <2> QED BY <1>1, <1>2, <2>1, ChainTypes, ZenonT(30)
<1>4. Len(P[p].slots) \in 1 .. Len(P[p].slots) /\ P[p].slots[Len(P[p].slots)].key \in KeysOf(P, p)
  <2>1. P[p].slots # <<>> /\ P[p].slots \in Seq(SlotsIn(setup)) /\ DOMAIN P[p].slots = 1 .. Len(P[p].slots)
    <3>1. P \in Images(setup) /\ p \in 1 .. setup.pages /\ P[p].slots # <<>>
      BY <1>1, <1>3, ZenonT(30) DEF Sane
    <3> QED BY ONLY <3>1, PageTypes
  <2>2. Len(P[p].slots) \in 1 .. Len(P[p].slots)
    BY <2>1, EmptySeq
  <2> SUFFICES ASSUME NEW w, w = Len(P[p].slots), w \in DOMAIN P[p].slots PROVE P[p].slots[w].key \in KeysOf(P, p)
    BY <2>1, <2>2
  <2>3. <<p, w>> \in PlacesOf(P, p)
    BY <1>1, <1>3, PlaceTypes, SMTT(30)
  <2>4. SlotAt(P, <<p, w>>) = P[p].slots[w]
    BY DEF SlotAt
  <2> QED BY <2>3, <2>4, ZenonT(30) DEF KeysOf
<1> HIDE DEF N, last
<1>5. g = N => r.key <= P[p].slots[Len(P[p].slots)].key
  <2> SUFFICES ASSUME g = N PROVE r.key <= P[p].slots[Len(P[p].slots)].key
    OBVIOUS
  <2>1. IsFull(r) /\ ~GoesLast(r)
    BY DEF N
  <2>2. Len(P[p].slots) = setup.slots
    BY <1>1, <2>1 DEF IsFull, N, last
  <2>3. ~(r.key > P[p].slots[setup.slots].key)
    BY <1>1, <2>1 DEF GoesLast, N, last
  <2> QED BY <1>1, <1>3, <1>4, <2>2, <2>3
<1>6. \A k \in KeysOf(P, p) : k <= P[p].slots[Len(P[p].slots)].key
  <2> SUFFICES ASSUME NEW t \in ToSet(work.retry), \A k \in KeysOf(P, p) : k < t.key PROVE FALSE
    BY <1>1 DEF LastFits, N, last
  <2>1. t = r
    <3>1. ToSet(<<>>) = {} /\ ToSet(<<r>>) = {r}
      BY DEF ToSet
    <3> QED BY <1>1, <3>1
  <2>2. CASE g = N
    BY <1>1, <1>3, <1>4, <1>5, <2>1, <2>2
  <2>3. CASE g # N
    <3>1. r.key < FirstOf(P, p)
      BY <1>2, <2>3 DEF last
    <3> QED BY <1>1, <1>3, <2>1, <3>1
  <2> QED BY <2>2, <2>3, ZenonT(30)
<1> QED BY <1>5, <1>6

LEMMA NewGroupIsGood ==
    ASSUME NEW s, SoundSetup(s), NEW P, NEW m, Sound(s, P, m), NEW Q, NEW n, NEW e, GoesInNewGroup(s, P, m, Q, n, e)
    PROVE  Good(s, Q, n, <<>>)
<1>1. Sound(s, Q, n)
  BY RowInNewGroup
<1>2. m.count \in Nat /\ s.pages \in Nat /\ m.main \in Seq(1 .. s.pages) /\ m.count + 1 \in 1 .. s.pages
  BY DEF Sound, Chained, SoundSetup, GoesInNewGroup
<1>3. n.main = Append(m.main, m.count + 1) /\ Q[m.count + 1].overflow = NoPage
  BY DEF GoesInNewGroup
<1>4. n.main[Len(n.main)] = m.count + 1
  BY <1>2, <1>3, AppendProperties
<1> QED BY <1>1, <1>3, <1>4, LastIsPlain DEF Good

LEMMA AfterStore ==
    ASSUME NEW s, NEW P \in Images(s), NEW q \in 1 .. s.pages, NEW image \in PagesIn(s), NEW Q, Q = After(P, StorePage(q, image))
    PROVE  StorePage(q, image) \in WritesIn(s) /\ Q \in Images(s) /\ Q[q] = image /\ \A x \in 1 .. s.pages : x # q => Q[x] = P[x]
<1>1. Sets(P, Q, q, image)
  BY AfterEach DEF Sets
<1>2. StorePage(q, image) \in WritesIn(s)
  BY DEF WritesIn
<1> QED BY <1>1, <1>2, PageWritten

LEMMA AfterAllocate ==
    ASSUME NEW s, s.pages \in Nat, NEW P \in Images(s), NEW q \in 1 .. s.pages, NEW Q, Q = After(P, Allocate(q))
    PROVE  Allocate(q) \in WritesIn(s) /\ Q \in Images(s) /\ Q[q] = Blank /\ \A x \in 1 .. s.pages : x # q => Q[x] = P[x]
<1>1. Sets(P, Q, q, Blank) /\ Blank \in PagesIn(s)
  BY AfterEach, BlankIsPage DEF Sets
<1>2. Allocate(q) \in WritesIn(s)
  BY DEF WritesIn
<1> QED BY <1>1, <1>2, PageWritten

NoMore(next) == next = ""
LonePage(e) == [Blank EXCEPT !.slots = <<e>>]

LEMMA LonePageIs ==
    ASSUME NEW s, s.pages \in Nat, NEW e \in SlotsIn(s)
    PROVE  /\ LonePage(e) \in PagesIn(s)
           /\ LonePage(e).slots = <<e>> /\ LonePage(e).overflow = NoPage /\ LonePage(e).next = NoPage
<1>1. LonePage(e) = [slots |-> <<e>>, next |-> 0, overflow |-> 0]
  BY DEF LonePage, Blank, NoPage
<1>2. <<e>> \in Seq(SlotsIn(s)) /\ 0 \in 0 .. s.pages
  OBVIOUS
<1> QED BY <1>1, <1>2 DEF PagesIn, NoPage

LEMMA InsertFirstKeeps ==
    ASSUME SetupsAreSound, SeqInv, NEW r \in SetupRows, InsertFirst(r)
    PROVE  SeqInv'
<1> SUFFICES ASSUME NEW P, P = disk.pages, NEW o, o = mem.count + 1, NEW e, e = Used(r),
                    NEW page, page = LonePage(e), NEW key, key = r.key
             PROVE  SeqInv'
  OBVIOUS
<1>1. MayInsert(r) /\ mem.main = <<>> /\ o <= setup.pages
  BY DEF InsertFirst, NewId
<1>2. /\ up /\ work.todo = <<>> /\ SoundSetup(setup) /\ Sound(setup, P, mem) /\ P \in Images(setup)
      /\ IsMemory(mem) /\ setup.pages \in Nat /\ e \in SlotsIn(setup) /\ e.key = key /\ e.live
  BY <1>1, RowIsNew
<1>13. work.next # "rename"
  BY <1>1, RowIsNew
<1>3. mem.count \in Nat /\ o \in 1 .. setup.pages /\ mem.first = <<>>
  <2>1. mem.count \in Nat
    BY <1>2 DEF Sound, Chained, SoundSetup
  <2>2. mem.first = [g \in DOMAIN mem.main |-> FirstOf(P, mem.main[g])]
    BY <1>2 DEF Sound, Directory
  <2>3. mem.first = <<>>
    BY <1>1, <2>2
  <2> QED BY <1>1, <1>2, <2>1, <2>3
<1> SUFFICES ASSUME NEW m, m = Counted([mem EXCEPT !.count = o, !.head = o, !.main = <<o>>, !.first = <<key>>]),
                    NEW writes, writes = <<Allocate(o), StorePage(o, page), SaveMeta>>,
                    NEW next, NoMore(next), Starts(m, writes, next)
             PROVE  SeqInv'
  BY DEF InsertFirst, NewId, LonePage, NoMore
<1>4. /\ IsMemory(m) /\ m.count = o /\ m.head = o /\ m.main = <<o>> /\ m.first = <<key>>
      /\ m.live = mem.live + 1 /\ m.deleted = mem.deleted
  BY <1>2 DEF Counted, IsMemory
<1>5. page \in PagesIn(setup) /\ page.slots = <<e>> /\ page.overflow = NoPage /\ page.next = NoPage
  BY <1>2, LonePageIs
<1> SUFFICES ASSUME NEW A, A = After(P, Allocate(o)), NEW Q, Q = After(A, StorePage(o, page)) PROVE SeqInv'
  OBVIOUS
<1>6. Allocate(o) \in WritesIn(setup) /\ A \in Images(setup) /\ \A q \in 1 .. setup.pages : q # o => A[q] = P[q]
  BY <1>2, <1>3, AfterAllocate
<1>8. StorePage(o, page) \in WritesIn(setup) /\ Q \in Images(setup) /\ Q[o] = page /\ \A q \in 1 .. setup.pages : q # o => Q[q] = A[q]
  BY <1>3, <1>5, <1>6, AfterStore
<1>7. writes \in Seq(WritesIn(setup)) /\ Becomes(P, writes, Q)
  <2>1. SaveMeta \in WritesIn(setup) /\ After(Q, SaveMeta) = Q
    BY AfterMeta
  <2> QED BY <1>2, <1>6, <1>8, <2>1, ThreeWrites
<1>9. Q[o] = page /\ \A q \in 1 .. setup.pages : q # o => Q[q] = P[q]
  BY <1>6, <1>8
<1>10. GoesInNewGroup(setup, P, mem, Q, m, e)
  <2>1. m.main = Append(mem.main, o) /\ m.first = Append(mem.first, e.key)
    BY <1>1, <1>2, <1>3, <1>4
  <2> QED BY <1>1, <1>2, <1>4, <1>5, <1>8, <1>9, <2>1, SMTT(30) DEF GoesInNewGroup
<1>11. Good(setup, Q, m, <<>>)
  BY <1>2, <1>10, NewGroupIsGood
<1>12. EndsWithMeta(writes)
  BY DEF EndsWithMeta
<1>14. next \in {"", "rewrite"}
  BY DEF NoMore
<1> QED BY <1>2, <1>4, <1>7, <1>11, <1>12, <1>13, <1>14, CallStarts, ZenonT(30)

(* A key behind the last one of the last main page is behind every other. *)
LEMMA RowIsBehind ==
    ASSUME SetupsAreSound, SeqInv, NEW r \in SetupRows, IsFull(r), GoesLast(r)
    PROVE  \A g \in DOMAIN mem.main : \A k \in KeysOf(disk.pages, mem.main[g]) : k < r.key
<1> SUFFICES ASSUME NEW P, P = disk.pages, NEW N, N = Len(mem.main), NEW p, p = mem.main[N],
                    NEW g \in DOMAIN mem.main, NEW k \in KeysOf(P, mem.main[g])
             PROVE  k < r.key
  OBVIOUS
<1>1. MayInsert(r) /\ mem.main # <<>> /\ GroupOf(r.key) = N
  BY DEF IsFull, GoesLast
<1>2. /\ work.retry \in {<<>>, <<r>>} /\ SoundSetup(setup) /\ LastFits(P, mem, work.retry) /\ Sound(setup, P, mem)
      /\ Flushed.pages = P /\ P \in Images(setup) /\ r.key \in Int /\ setup.pages \in Nat
  BY <1>1, RowIsNew DEF Good
<1>3. Chained(setup, P, mem.main, mem.head, mem.count) /\ setup.keys \subseteq Int
  BY <1>2 DEF Sound, SoundSetup
<1>4. N \in DOMAIN mem.main /\ DOMAIN mem.main = 1 .. N /\ N \in Nat
  BY <1>1, GroupOfRow
<1>5. p \in 1 .. setup.pages /\ Sane(setup, P, p) /\ KeysOf(P, p) \subseteq Int /\ FirstOf(P, p) \in KeysOf(P, p)
      /\ KeysOf(P, mem.main[g]) \subseteq Int
  BY <1>2, <1>3, <1>4, ChainTypes
<1>11. r.key \in Int
  BY <1>2
<1>6. Len(P[p].slots) = setup.slots /\ r.key > P[p].slots[setup.slots].key
  BY <1>1, <1>2 DEF IsFull, GoesLast
<1>7. P[p].slots[Len(P[p].slots)].key \in Int
  <2> SUFFICES ASSUME NEW w, w = Len(P[p].slots) PROVE P[p].slots[w].key \in Int
    BY ZenonT(30)
  <2>1. P[p].slots # <<>> /\ P[p].slots \in Seq(SlotsIn(setup)) /\ DOMAIN P[p].slots = 1 .. w
    <3>1. P \in Images(setup) /\ p \in 1 .. setup.pages /\ P[p].slots # <<>>
      BY <1>2, <1>5, ZenonT(30) DEF Sane
    <3>2. P[p].slots \in Seq(SlotsIn(setup)) /\ DOMAIN P[p].slots = 1 .. Len(P[p].slots)
      BY ONLY <3>1, PageTypes
    <3> QED BY ONLY <3>1, <3>2, w = Len(P[p].slots), Zenon
  <2>2. w \in DOMAIN P[p].slots
    BY <2>1, EmptySeq
  <2>3. P \in Images(setup) /\ p \in 1 .. setup.pages
    BY <1>2, <1>5, Zenon
  <2>4. \A i \in DOMAIN P[p].slots : P[p].slots[i].key \in setup.keys
    BY ONLY <2>3, PageTypes
  <2> QED BY ONLY <1>3, <2>2, <2>4
<1>8. \A j \in KeysOf(P, p) : j < r.key
  <2>1. CASE \A j \in KeysOf(P, p) : j <= P[p].slots[Len(P[p].slots)].key
    <3> SUFFICES ASSUME NEW j \in KeysOf(P, p), NEW w, w = P[p].slots[Len(P[p].slots)].key PROVE j < r.key
      OBVIOUS
    <3>1. j <= w /\ j \in Int /\ w \in Int /\ r.key > w
      BY <1>5, <1>6, <1>7, <2>1, Zenon
    <3> QED BY <1>11, <3>1, SMTT(30)
  <2>2. CASE \E t \in ToSet(work.retry) : \A j \in KeysOf(P, p) : j < t.key
    <3>1. ToSet(<<>>) = {} /\ ToSet(<<r>>) = {r}
      BY DEF ToSet
    <3> QED BY <1>2, <2>2, <3>1
  <2> QED BY <1>1, <1>2, <2>1, <2>2, ZenonT(30) DEF LastFits
<1>9. CASE g = N
  BY <1>8, <1>9
<1>10. CASE g # N
  <2>1. g < N
    BY <1>4, <1>10
  <2>2. k < FirstOf(P, p)
    BY <1>3, <1>4, <2>1 DEF Chained
  <2>3. k \in Int /\ FirstOf(P, p) \in Int /\ FirstOf(P, p) < r.key
    BY <1>5, <1>8
  <2> QED BY <1>2, <2>2, <2>3
<1> QED BY <1>9, <1>10

(* What the actions below take from the file and the row, with short names. *)
Incoming(r, P, g, p, e) ==
    P = disk.pages /\ g = GroupOf(r.key) /\ p = mem.main[g] /\ e = Used(r)

LEMMA IncomingRow ==
    ASSUME SetupsAreSound, SeqInv, NEW r \in SetupRows, MayInsert(r), mem.main # <<>>,
           NEW P, NEW g, NEW p, NEW e, Incoming(r, P, g, p, e)
    PROVE  /\ up /\ work.todo = <<>> /\ SoundSetup(setup) /\ Sound(setup, P, mem) /\ P \in Images(setup)
           /\ LastFits(P, mem, work.retry) /\ Flushed.pages = P /\ P = disk.pages
           /\ IsMemory(mem) /\ setup.pages \in Nat /\ mem.count \in Nat /\ work.next # "rename"
           /\ e \in SlotsIn(setup) /\ e.key = r.key /\ e.live /\ r.key \in Int
           /\ Len(mem.main) \in Nat /\ DOMAIN mem.main = 1 .. Len(mem.main) /\ g \in 1 .. Len(mem.main)
           /\ Len(mem.main) \in DOMAIN mem.main /\ \A h \in DOMAIN mem.main : mem.main[h] \in 1 .. setup.pages
           /\ p \in 1 .. setup.pages /\ P[p] \in PagesIn(setup) /\ Sane(setup, P, p) /\ NewRow(setup, P, mem, g, e)
           /\ P[p].overflow \in 0 .. setup.pages /\ P[p].slots \in Seq(SlotsIn(setup))
<1>1. P = disk.pages /\ g = GroupOf(r.key) /\ p = mem.main[g] /\ e = Used(r)
  BY DEF Incoming
<1>2. /\ up /\ work.todo = <<>> /\ SoundSetup(setup) /\ Sound(setup, P, mem) /\ P \in Images(setup)
      /\ LastFits(P, mem, work.retry) /\ Flushed.pages = P
      /\ IsMemory(mem) /\ setup.pages \in Nat /\ e \in SlotsIn(setup) /\ e.key = r.key /\ e.live /\ r.key \in Int
  BY <1>1, RowIsNew DEF Good
<1>3. work.next # "rename"
  BY RowIsNew
<1>4. /\ Len(mem.main) \in Nat /\ DOMAIN mem.main = 1 .. Len(mem.main) /\ g \in 1 .. Len(mem.main)
      /\ Len(mem.main) \in DOMAIN mem.main /\ p \in 1 .. setup.pages /\ Sane(setup, P, p) /\ NewRow(setup, P, mem, g, e)
  BY <1>1, GroupOfRow
<1>5. P[p] \in PagesIn(setup)
  BY <1>2, <1>4 DEF Images
<1>6. P[p].overflow \in 0 .. setup.pages /\ P[p].slots \in Seq(SlotsIn(setup))
  BY <1>5 DEF PagesIn
<1>7. mem.count \in Nat
  BY <1>2 DEF Sound, Chained, SoundSetup
<1>8. \A h \in DOMAIN mem.main : mem.main[h] \in 1 .. setup.pages
  BY <1>2, SoundTypes
<1> QED BY <1>1, <1>2, <1>3, <1>4, <1>5, <1>6, <1>7, <1>8

LEMMA InsertAtEndKeeps ==
    ASSUME SetupsAreSound, SeqInv, NEW r \in SetupRows, InsertAtEnd(r)
    PROVE  SeqInv'
<1> SUFFICES ASSUME NEW P, NEW g, NEW p, NEW e, Incoming(r, P, g, p, e),
                    NEW o, o = mem.count + 1, NEW page, page = LonePage(e), NEW key, key = r.key,
                    NEW image, image = [P[p] EXCEPT !.next = o]
             PROVE  SeqInv'
  BY DEF Incoming
<1>1. /\ IsFull(r) /\ GoesLast(r) /\ o <= setup.pages /\ MayInsert(r) /\ mem.main # <<>> /\ GroupOf(r.key) = Len(mem.main)
  BY Zenon DEF InsertAtEnd, NewId, IsFull, GoesLast
<1>2. /\ up /\ work.todo = <<>> /\ SoundSetup(setup) /\ Sound(setup, P, mem) /\ P \in Images(setup)
      /\ Flushed.pages = P /\ P = disk.pages
      /\ IsMemory(mem) /\ setup.pages \in Nat /\ mem.count \in Nat /\ work.next # "rename"
      /\ e \in SlotsIn(setup) /\ e.key = key /\ e.live
      /\ p \in 1 .. setup.pages /\ P[p] \in PagesIn(setup)
  BY <1>1, IncomingRow
<1>3. p = mem.main[Len(mem.main)] /\ Last(mem.main) = p /\ e = Used(r)
  BY <1>1 DEF Incoming, Last
<1>4. o \in 1 .. setup.pages
  BY <1>1, <1>2
<1> SUFFICES ASSUME NEW m, m = Counted([mem EXCEPT !.count = o, !.main = Append(mem.main, o), !.first = Append(mem.first, key)]),
                    NEW writes, writes = <<Allocate(o), StorePage(o, page), StorePage(p, image), SaveMeta>>,
                    NEW next, NoMore(next), Starts(m, writes, next)
             PROVE  SeqInv'
  BY <1>2, <1>3, Zenon DEF InsertAtEnd, NewId, LonePage, NoMore
<1>5. /\ IsMemory(m) /\ m.count = o /\ m.head = mem.head /\ m.main = Append(mem.main, o) /\ m.first = Append(mem.first, key)
      /\ m.live = mem.live + 1 /\ m.deleted = mem.deleted
  BY <1>2 DEF Counted, IsMemory
<1>6. page \in PagesIn(setup) /\ page.slots = <<e>> /\ page.overflow = NoPage /\ page.next = NoPage
  BY <1>2, LonePageIs
<1>7. image \in PagesIn(setup) /\ image.slots = P[p].slots /\ image.overflow = P[p].overflow /\ image.next = o
  <2>1. o \in 0 .. setup.pages
    BY <1>2, <1>4
  <2> QED BY <1>2, <2>1 DEF PagesIn
<1>8. \A h \in DOMAIN mem.main : \A k \in KeysOf(P, mem.main[h]) : k < e.key
  BY <1>1, <1>2, RowIsBehind
<1>9. o # p
  <2>1. Len(mem.main) \in DOMAIN mem.main
    BY <1>1, <1>2, IncomingRow
  <2>2. p \in PagesOf(P, p) /\ PagesOf(P, p) \subseteq 1 .. mem.count
    BY <1>2, <1>3, <2>1, PlaceTypes DEF Sound, Chained
  <2> QED BY <1>2, <2>2
<1> SUFFICES ASSUME NEW A, A = After(P, Allocate(o)), NEW B, B = After(A, StorePage(o, page)), NEW Q, Q = After(B, StorePage(p, image))
             PROVE  SeqInv'
  OBVIOUS
<1>10. Allocate(o) \in WritesIn(setup) /\ A \in Images(setup) /\ \A q \in 1 .. setup.pages : q # o => A[q] = P[q]
  BY <1>2, <1>4, AfterAllocate, SMTT(30)
<1>11. StorePage(o, page) \in WritesIn(setup) /\ B \in Images(setup) /\ B[o] = page /\ \A q \in 1 .. setup.pages : q # o => B[q] = A[q]
  BY <1>4, <1>6, <1>10, AfterStore
<1>12. StorePage(p, image) \in WritesIn(setup) /\ Q \in Images(setup) /\ Q[p] = image /\ \A q \in 1 .. setup.pages : q # p => Q[q] = B[q]
  <2>1. p \in 1 .. setup.pages /\ image \in PagesIn(setup) /\ B \in Images(setup) /\ Q = After(B, StorePage(p, image))
    BY <1>2, <1>7, <1>11
  <2> QED BY ONLY <2>1, AfterStore
<1>13. writes \in Seq(WritesIn(setup)) /\ Becomes(P, writes, Q)
  <2> SUFFICES ASSUME NEW a, a = Allocate(o), NEW b, b = StorePage(o, page), NEW c, c = StorePage(p, image)
               PROVE  writes \in Seq(WritesIn(setup)) /\ Becomes(P, writes, Q)
    OBVIOUS
  <2>1. SaveMeta \in WritesIn(setup) /\ After(Q, SaveMeta) = Q
    BY AfterMeta
  <2>2. setup.pages \in Nat /\ P \in Images(setup) /\ a \in WritesIn(setup) /\ b \in WritesIn(setup) /\ c \in WritesIn(setup)
    BY <1>2, <1>10, <1>11, <1>12
  <2>3. writes = <<a, b, c, SaveMeta>> /\ Q = After(After(After(P, a), b), c)
    OBVIOUS
  <2> QED BY ONLY <2>1, <2>2, <2>3, FourWrites
<1>14. Q[o] = page /\ Q[p] = image /\ \A q \in 1 .. setup.pages : q # o /\ q # p => Q[q] = P[q]
  <2>1. Q[o] = page
    BY ONLY <1>4, <1>9, <1>11, <1>12
  <2>2. \A q \in 1 .. setup.pages : q # o /\ q # p => Q[q] = P[q]
    <3> SUFFICES ASSUME NEW q \in 1 .. setup.pages, q # o, q # p PROVE Q[q] = P[q]
      OBVIOUS
    <3>1. Q[q] = B[q]
      BY ONLY <1>12, q # p
    <3>2. B[q] = A[q]
      BY ONLY <1>11, q # o
    <3>3. A[q] = P[q]
      BY ONLY <1>10, q # o
    <3> QED BY ONLY <3>1, <3>2, <3>3
  <2>3. Q[p] = image
    BY <1>12
  <2> QED BY ONLY <2>1, <2>2, <2>3
<1>15. GoesInNewGroup(setup, P, mem, Q, m, e)
  <2>1. /\ o = mem.count + 1 /\ p = mem.main[Len(mem.main)] /\ mem.main # <<>> /\ o <= setup.pages
        /\ e \in SlotsIn(setup) /\ e.live /\ e.key = key /\ Q \in Images(setup)
    BY <1>1, <1>2, <1>3, <1>12
  <2>2. Q[p].slots = P[p].slots /\ Q[p].overflow = P[p].overflow /\ Q[p].next = o
    BY <1>7, <1>14
  <2>3. Q[o].slots = <<e>> /\ Q[o].overflow = NoPage /\ Q[o].next = NoPage
    BY <1>6, <1>14
  <2>4. \A q \in 1 .. setup.pages : q # o /\ (mem.main # <<>> => q # p) => Q[q] = P[q]
    BY ONLY <1>14, <2>1
  <2> QED BY ONLY <1>5, <1>8, <2>1, <2>2, <2>3, <2>4, ZenonT(30) DEF GoesInNewGroup
<1>16. Good(setup, Q, m, <<>>)
  BY <1>2, <1>15, NewGroupIsGood
<1>17. EndsWithMeta(writes)
  BY DEF EndsWithMeta
<1>18. next \in {"", "rewrite"}
  BY DEF NoMore
<1> QED BY <1>2, <1>5, <1>13, <1>16, <1>17, <1>18, CallStarts, ZenonT(30)

LEMMA OthersKeepLast ==
    ASSUME NEW P, NEW Q, NEW m, NEW n, n.main = m.main, NEW g, NEW retry, LastBounded(P, m.main),
           SameOthers(P, Q, m.main, g), Len(m.main) \in DOMAIN m.main, g # Len(m.main)
    PROVE  LastFits(Q, n, retry)
<1>1. Q[m.main[Len(m.main)]] = P[m.main[Len(m.main)]] /\ KeysOf(Q, m.main[Len(m.main)]) = KeysOf(P, m.main[Len(m.main)])
  BY DEF SameOthers
<1> QED BY <1>1 DEF LastFits, LastBounded

LEMMA InsertInPageKeeps ==
    ASSUME SetupsAreSound, SeqInv, NEW r \in SetupRows, InsertInPage(r)
    PROVE  SeqInv'
<1> SUFFICES ASSUME NEW P, NEW g, NEW p, NEW e, Incoming(r, P, g, p, e), NEW key, key = r.key,
                    NEW b, b = LowerBound(P[p].slots, key), NEW slots, slots = InsertAt(P[p].slots, b + 1, e),
                    NEW image, image = [P[p] EXCEPT !.slots = slots]
             PROVE  SeqInv'
  BY DEF Incoming
<1>1. /\ MayInsert(r) /\ mem.main # <<>> /\ g = GroupOf(key) /\ p = mem.main[g] /\ e = Used(r)
  BY Zenon DEF InsertInPage, Incoming
<1>2. /\ up /\ work.todo = <<>> /\ SoundSetup(setup) /\ Sound(setup, P, mem) /\ P \in Images(setup)
      /\ Flushed.pages = P /\ P = disk.pages
      /\ IsMemory(mem) /\ setup.pages \in Nat /\ mem.count \in Nat /\ work.next # "rename"
      /\ e \in SlotsIn(setup) /\ e.key = key /\ e.live /\ g \in DOMAIN mem.main /\ Len(mem.main) \in DOMAIN mem.main
      /\ p \in 1 .. setup.pages /\ P[p] \in PagesIn(setup) /\ P[p].slots \in Seq(SlotsIn(setup)) /\ Sane(setup, P, p)
      /\ NewRow(setup, P, mem, g, e) /\ key \in Int
  BY <1>1, IncomingRow
<1>3. Len(P[p].slots) < setup.slots
  BY <1>1, <1>2, Zenon DEF InsertInPage
<1>4. slots \in Seq(SlotsIn(setup)) /\ LinkedAs(setup, image, P[p], slots) /\ image \in PagesIn(setup)
  <2>1. b \in 0 .. Len(P[p].slots)
    <3>1. /\ Len(P[p].slots) \in Nat /\ DOMAIN P[p].slots = 1 .. Len(P[p].slots) /\ Ordered(P[p].slots)
          /\ \A i \in 1 .. Len(P[p].slots) : P[p].slots[i].key \in Int
      BY <1>2, PageTypes, SMTT(30) DEF Sane, SoundSetup
    <3> SUFFICES ASSUME NEW t, t = P[p].slots, NEW n, n = Len(t) PROVE LowerBound(t, key) \in 0 .. n
      OBVIOUS
    <3>2. n \in Nat /\ Len(t) = n /\ DOMAIN t = 1 .. n /\ Ordered(t) /\ \A i \in 1 .. n : t[i].key \in Int
      BY <3>1
    <3> QED BY ONLY <1>2, <3>2, BinarySearch
  <2> SUFFICES ASSUME NEW t, t = P[p].slots, NEW i, i = b + 1 PROVE slots \in Seq(SlotsIn(setup)) /\ LinkedAs(setup, image, P[p], slots) /\ image \in PagesIn(setup)
    OBVIOUS
  <2>2. i \in 1 .. Len(t) + 1 /\ t \in Seq(SlotsIn(setup)) /\ slots = InsertAt(t, i, e)
    <3>1. Len(t) \in Nat
      BY <1>2
    <3>2. i \in 1 .. Len(t) + 1
      BY ONLY <2>1, <3>1, t = P[p].slots, i = b + 1
    <3>3. t \in Seq(SlotsIn(setup)) /\ slots = InsertAt(t, i, e)
      BY <1>2, Zenon
    <3> QED BY ONLY <3>2, <3>3
  <2>3. slots \in Seq(SlotsIn(setup))
    BY <1>2, <2>2, Inserted DEF IsInserted
  <2>4. LinkedAs(setup, image, P[p], slots)
    <3> SUFFICES ASSUME NEW page, page = P[p] PROVE LinkedAs(setup, image, page, slots)
      OBVIOUS
    <3>1. page \in PagesIn(setup) /\ image = [page EXCEPT !.slots = slots]
      BY <1>2
    <3> QED BY ONLY <2>3, <3>1, WithSlots
  <2> QED BY <2>3, <2>4 DEF LinkedAs
<1> SUFFICES ASSUME NEW m, m = Counted([mem EXCEPT !.first[g] = IF b = 0 THEN key ELSE @]),
                    NEW writes, writes = <<StorePage(p, image), SaveMeta>>, NEW next, NoMore(next), Starts(m, writes, next)
             PROVE  SeqInv'
  BY <1>1, <1>2, Zenon DEF InsertInPage, NoMore
<1>5. /\ IsMemory(m) /\ m.count = mem.count /\ m.head = mem.head /\ m.main = mem.main
      /\ m.first = [mem.first EXCEPT ![g] = IF b = 0 THEN key ELSE @]
      /\ m.live = mem.live + 1 /\ m.deleted = mem.deleted
  BY <1>2 DEF Counted, IsMemory
<1> SUFFICES ASSUME NEW Q, Q = After(P, StorePage(p, image)) PROVE SeqInv'
  OBVIOUS
<1>6. StorePage(p, image) \in WritesIn(setup) /\ Sets(P, Q, p, image)
  <2>1. StorePage(p, image) \in WritesIn(setup)
    <3>1. p \in 1 .. setup.pages /\ image \in PagesIn(setup)
      BY <1>2, <1>4
    <3> QED BY ONLY <3>1 DEF WritesIn
  <2>2. Q = [P EXCEPT ![p] = image]
    BY AfterEach
  <2> QED BY <2>1, <2>2 DEF Sets
<1>7. writes \in Seq(WritesIn(setup)) /\ Becomes(P, writes, Q)
  <2> SUFFICES ASSUME NEW w, w = StorePage(p, image) PROVE writes \in Seq(WritesIn(setup)) /\ Becomes(P, writes, Q)
    OBVIOUS
  <2>1. SaveMeta \in WritesIn(setup) /\ After(Q, SaveMeta) = Q
    BY AfterMeta
  <2>2. setup.pages \in Nat /\ P \in Images(setup) /\ w \in WritesIn(setup) /\ writes = <<w, SaveMeta>> /\ Q = After(P, w)
    BY <1>2, <1>6
  <2> QED BY ONLY <2>1, <2>2, TwoWrites
<1>8. GoesInPage(setup, P, mem, Q, m, g, e, image)
  <2>1. CountsOneMore(mem, m)
    BY <1>5 DEF CountsOneMore
  <2> QED BY <1>1, <1>2, <1>3, <1>4, <1>5, <1>6, <2>1, ZenonT(30) DEF GoesInPage
<1>9. Sound(setup, Q, m) /\ SameOthers(P, Q, mem.main, g) /\ Q[p].overflow = NoPage
  <2>1. SoundSetup(setup) /\ Sound(setup, P, mem) /\ p = mem.main[g]
    BY <1>1, <1>2, Zenon
  <2> QED BY ONLY <1>8, <2>1, RowInPage
<1>10. LastFits(Q, m, <<>>)
  <2>1. CASE g = Len(mem.main)
    BY <1>1, <1>2, <1>5, <1>9, <2>1, LastIsPlain, ZenonT(30)
  <2>2. CASE g # Len(mem.main)
    <3>1. LastBounded(P, mem.main)
      BY <1>1, <1>2, <2>2, RowIsInside, Zenon
    <3> QED BY <1>2, <1>5, <1>9, <2>2, <3>1, OthersKeepLast
  <2> QED BY <2>1, <2>2
<1>11. Good(setup, Q, m, <<>>)
  BY <1>9, <1>10 DEF Good
<1>12. EndsWithMeta(writes)
  BY DEF EndsWithMeta
<1>13. next \in {"", "rewrite"}
  BY DEF NoMore
<1>14. SetupsAreSound /\ SeqInv /\ Starts(m, writes, next)
  OBVIOUS
<1> QED BY ONLY <1>2, <1>5, <1>7, <1>11, <1>12, <1>13, <1>14, CallStarts

(* The last group after a row came into it, not behind the last one of its main page, or into another group. *)
LEMMA InsideKeepsLast ==
    ASSUME SetupsAreSound, SeqInv, NEW r \in SetupRows, IsFull(r), ~GoesLast(r),
           NEW P, NEW g, NEW p, NEW e, Incoming(r, P, g, p, e), NEW Q, NEW n, n.main = mem.main,
           SameOthers(P, Q, mem.main, g), KeysOf(Q, p) = KeysOf(P, p) \cup {r.key}, Q[p].slots = P[p].slots, NEW retry
    PROVE  LastFits(Q, n, retry)
<1>1. MayInsert(r) /\ mem.main # <<>> /\ g = GroupOf(r.key) /\ p = mem.main[g] /\ P = disk.pages
  BY SMTT(30) DEF IsFull, Incoming
<1>2. /\ LastBounded(P, mem.main)
      /\ g = Len(mem.main) =>
            LET q == mem.main[Len(mem.main)] IN r.key <= P[q].slots[Len(P[q].slots)].key
  BY <1>1, RowIsInside
<1>3. Len(mem.main) \in DOMAIN mem.main
  BY <1>1, IncomingRow, ZenonT(30)
<1>4. CASE g = Len(mem.main)
  <2>1. r.key <= P[p].slots[Len(P[p].slots)].key /\ p = mem.main[Len(mem.main)]
    BY <1>1, <1>2, <1>4
  <2>2. \A k \in KeysOf(P, p) : k <= P[p].slots[Len(P[p].slots)].key
    BY <1>2, <2>1, SMTT(30) DEF LastBounded
  <2>3. \A k \in KeysOf(Q, p) : k <= Q[p].slots[Len(Q[p].slots)].key
    BY <2>1, <2>2
  <2> QED BY <2>1, <2>3 DEF LastFits
<1>5. CASE g # Len(mem.main)
  BY <1>2, <1>3, <1>5, OthersKeepLast
<1> QED BY <1>4, <1>5

LEMMA InsertInOverflowKeeps ==
    ASSUME SetupsAreSound, SeqInv, NEW r \in SetupRows, InsertInOverflow(r)
    PROVE  SeqInv'
<1> SUFFICES ASSUME NEW P, NEW g, NEW p, NEW e, Incoming(r, P, g, p, e), NEW key, key = r.key,
                    NEW o, o = P[p].overflow, NEW slots, slots = Append(P[o].slots, e),
                    NEW image, image = [P[o] EXCEPT !.slots = slots]
             PROVE  SeqInv'
  BY DEF Incoming
<1>1. /\ IsFull(r) /\ ~GoesLast(r) /\ MayInsert(r) /\ mem.main # <<>> /\ g = GroupOf(key) /\ p = mem.main[g] /\ e = Used(r)
  BY Zenon DEF InsertInOverflow, IsFull, Incoming
<1>2. /\ up /\ work.todo = <<>> /\ SoundSetup(setup) /\ Sound(setup, P, mem) /\ P \in Images(setup)
      /\ Flushed.pages = P /\ P = disk.pages
      /\ IsMemory(mem) /\ setup.pages \in Nat /\ work.next # "rename"
      /\ e \in SlotsIn(setup) /\ e.key = key /\ e.live /\ o \in 0 .. setup.pages
      /\ NewRow(setup, P, mem, g, e) /\ key \in Int
  BY <1>1, IncomingRow, ZenonT(30)
<1>3. o # NoPage /\ Len(P[o].slots) < setup.slots
  BY <1>1, <1>2, Zenon DEF InsertInOverflow
<1>4. o \in 1 .. setup.pages
  <2>1. o # NoPage /\ o \in 0 .. setup.pages /\ setup.pages \in Nat
    BY <1>2, <1>3, ZenonT(30)
  <2> QED BY ONLY <2>1 DEF NoPage
<1>5. LinkedAs(setup, image, P[o], slots) /\ image \in PagesIn(setup)
  <2> SUFFICES ASSUME NEW page, page = P[o] PROVE LinkedAs(setup, image, page, slots) /\ image \in PagesIn(setup)
    BY ZenonT(30)
  <2>1. page \in PagesIn(setup)
    BY <1>2, <1>4 DEF Images
  <2>2. page.slots \in Seq(SlotsIn(setup))
    BY <2>1, SMTT(30) DEF PagesIn
  <2>3. slots \in Seq(SlotsIn(setup)) /\ image = [page EXCEPT !.slots = slots]
    <3>1. e \in SlotsIn(setup)
      BY <1>2, Zenon
    <3>2. slots = Append(page.slots, e) /\ image = [page EXCEPT !.slots = slots]
      BY Zenon
    <3> QED BY ONLY <2>2, <3>1, <3>2
  <2>4. LinkedAs(setup, image, page, slots)
    BY ONLY <2>1, <2>3, WithSlots
  <2> QED BY <2>4 DEF LinkedAs
<1> SUFFICES ASSUME NEW m, m = Counted(mem),
                    NEW writes, writes = <<StorePage(o, image), SaveMeta>>, NEW next, NoMore(next), Starts(m, writes, next)
             PROVE  SeqInv'
  BY <1>1, <1>2, Zenon DEF InsertInOverflow, NoMore
<1>6. /\ IsMemory(m) /\ m.count = mem.count /\ m.head = mem.head /\ m.main = mem.main
      /\ m.first = mem.first /\ m.live = mem.live + 1 /\ m.deleted = mem.deleted
  BY <1>2, ZenonT(30) DEF Counted, IsMemory
<1> SUFFICES ASSUME NEW Q, Q = After(P, StorePage(o, image)) PROVE SeqInv'
  OBVIOUS
<1>7. StorePage(o, image) \in WritesIn(setup) /\ Sets(P, Q, o, image)
  <2>1. StorePage(o, image) \in WritesIn(setup)
    BY ONLY <1>4, <1>5 DEF WritesIn
  <2>2. Q = [P EXCEPT ![o] = image]
    BY ONLY Q = After(P, StorePage(o, image)), AfterEach, SMTT(30)
  <2> QED BY <2>1, <2>2, Zenon DEF Sets
<1>8. writes \in Seq(WritesIn(setup)) /\ Becomes(P, writes, Q)
  <2> SUFFICES ASSUME NEW w, w = StorePage(o, image) PROVE writes \in Seq(WritesIn(setup)) /\ Becomes(P, writes, Q)
    BY ZenonT(30)
  <2>1. SaveMeta \in WritesIn(setup) /\ After(Q, SaveMeta) = Q
    BY AfterMeta
  <2>2. setup.pages \in Nat /\ P \in Images(setup) /\ w \in WritesIn(setup) /\ writes = <<w, SaveMeta>> /\ Q = After(P, w)
    BY <1>2, <1>7, Zenon
  <2> QED BY ONLY <2>1, <2>2, TwoWrites
<1>9. GoesInOverflow(setup, P, mem, Q, m, g, e, image)
  <2>1. CountsOneMore(mem, m)
    BY <1>6, Zenon DEF CountsOneMore
  <2> QED BY <1>1, <1>2, <1>3, <1>5, <1>6, <1>7, <2>1, ZenonT(30) DEF GoesInOverflow
<1>10. Sound(setup, Q, m) /\ SameOthers(P, Q, mem.main, g) /\ KeysOf(Q, p) = KeysOf(P, p) \cup {key} /\ Q[p].slots = P[p].slots
  <2>1. SoundSetup(setup) /\ Sound(setup, P, mem) /\ p = mem.main[g] /\ e.key = key
    BY <1>1, <1>2, Zenon
  <2>2. /\ Sound(setup, Q, m) /\ SameOthers(P, Q, mem.main, g)
        /\ KeysOf(Q, mem.main[g]) = KeysOf(P, mem.main[g]) \cup {e.key} /\ Q[mem.main[g]] = P[mem.main[g]]
    BY ONLY <1>9, <2>1, RowInOverflow
  <2> QED BY ONLY <2>1, <2>2, Zenon
<1>11. LastFits(Q, m, <<>>)
  BY <1>1, <1>6, <1>10, InsideKeepsLast, ZenonT(30)
<1>12. Good(setup, Q, m, <<>>)
  BY <1>10, <1>11, Zenon DEF Good
<1>13. EndsWithMeta(writes)
  BY ONLY writes = <<StorePage(o, image), SaveMeta>> DEF EndsWithMeta
<1>14. next \in {"", "rewrite"}
  BY Zenon DEF NoMore
<1>15. SetupsAreSound /\ SeqInv /\ Starts(m, writes, next)
  OBVIOUS
<1> QED BY ONLY <1>2, <1>6, <1>8, <1>12, <1>13, <1>14, <1>15, CallStarts

LEMMA InsertInNewOverflowKeeps ==
    ASSUME SetupsAreSound, SeqInv, NEW r \in SetupRows, InsertInNewOverflow(r)
    PROVE  SeqInv'
<1> SUFFICES ASSUME NEW P, NEW g, NEW p, NEW e, Incoming(r, P, g, p, e), NEW key, key = r.key,
                    NEW o, o = mem.count + 1, NEW page, page = LonePage(e), NEW image, image = [P[p] EXCEPT !.overflow = o]
             PROVE  SeqInv'
  BY DEF Incoming
<1>1. /\ IsFull(r) /\ ~GoesLast(r) /\ MayInsert(r) /\ mem.main # <<>> /\ g = GroupOf(key) /\ p = mem.main[g] /\ e = Used(r)
      /\ o <= setup.pages
  BY Zenon DEF InsertInNewOverflow, IsFull, Incoming, NewId
<1>2. /\ up /\ work.todo = <<>> /\ SoundSetup(setup) /\ Sound(setup, P, mem) /\ P \in Images(setup)
      /\ Flushed.pages = P /\ P = disk.pages
      /\ IsMemory(mem) /\ setup.pages \in Nat /\ work.next # "rename" /\ mem.count \in Nat
      /\ e \in SlotsIn(setup) /\ e.key = key /\ e.live /\ p \in 1 .. setup.pages /\ P[p] \in PagesIn(setup)
      /\ NewRow(setup, P, mem, g, e) /\ key \in Int
  BY <1>1, IncomingRow
<1>3. P[p].overflow = NoPage /\ Len(P[p].slots) = setup.slots
  BY <1>1, <1>2, Zenon DEF InsertInNewOverflow, IsFull
<1>4. o \in 1 .. setup.pages /\ o # p
  <2>1. g \in DOMAIN mem.main
    BY <1>2 DEF NewRow
  <2>2. p \in PagesOf(P, p) /\ PagesOf(P, p) \subseteq 1 .. mem.count
    BY <1>1, <1>2, <2>1, PlaceTypes DEF Sound, Chained
  <2> QED BY <1>1, <1>2, <2>2
<1>5. page \in PagesIn(setup) /\ page.slots = <<e>> /\ page.overflow = NoPage /\ page.next = NoPage
  BY <1>2, LonePageIs
<1>6. image \in PagesIn(setup) /\ image.slots = P[p].slots /\ image.overflow = o /\ image.next = P[p].next
  <2>1. o \in 0 .. setup.pages
    BY <1>2, <1>4
  <2> QED BY <1>2, <2>1 DEF PagesIn
<1> SUFFICES ASSUME NEW m, m = Counted([mem EXCEPT !.count = o]),
                    NEW writes, writes = <<Allocate(o), StorePage(o, Blank), StorePage(p, image), StorePage(o, page), SaveMeta>>,
                    NEW next, NoMore(next), Starts(m, writes, next)
             PROVE  SeqInv'
  BY <1>1, <1>2, Zenon DEF InsertInNewOverflow, NewId, LonePage, NoMore
<1>7. /\ IsMemory(m) /\ m.count = o /\ m.head = mem.head /\ m.main = mem.main
      /\ m.first = mem.first /\ m.live = mem.live + 1 /\ m.deleted = mem.deleted
  BY <1>2 DEF Counted, IsMemory
<1> SUFFICES ASSUME NEW A, A = After(P, Allocate(o)), NEW B, B = After(A, StorePage(o, Blank)),
                    NEW C, C = After(B, StorePage(p, image)), NEW Q, Q = After(C, StorePage(o, page))
             PROVE  SeqInv'
  OBVIOUS
<1>8. Allocate(o) \in WritesIn(setup) /\ A \in Images(setup) /\ \A q \in 1 .. setup.pages : q # o => A[q] = P[q]
  BY <1>2, <1>4, AfterAllocate, SMTT(30)
<1>9. StorePage(o, Blank) \in WritesIn(setup) /\ B \in Images(setup) /\ \A q \in 1 .. setup.pages : q # o => B[q] = A[q]
  <2>1. o \in 1 .. setup.pages /\ A \in Images(setup) /\ Blank \in PagesIn(setup) /\ B = After(A, StorePage(o, Blank))
    BY <1>2, <1>4, <1>8, BlankIsPage
  <2> QED BY ONLY <2>1, AfterStore
<1>10. StorePage(p, image) \in WritesIn(setup) /\ C \in Images(setup) /\ C[p] = image /\ \A q \in 1 .. setup.pages : q # p => C[q] = B[q]
  <2>1. p \in 1 .. setup.pages /\ image \in PagesIn(setup) /\ B \in Images(setup) /\ C = After(B, StorePage(p, image))
    BY <1>2, <1>6, <1>9
  <2> QED BY ONLY <2>1, AfterStore
<1>11. StorePage(o, page) \in WritesIn(setup) /\ Q \in Images(setup) /\ Q[o] = page /\ \A q \in 1 .. setup.pages : q # o => Q[q] = C[q]
  <2>1. o \in 1 .. setup.pages /\ page \in PagesIn(setup) /\ C \in Images(setup) /\ Q = After(C, StorePage(o, page))
    BY <1>4, <1>5, <1>10
  <2> QED BY ONLY <2>1, AfterStore
<1>12. writes \in Seq(WritesIn(setup)) /\ Becomes(P, writes, Q)
  <2> SUFFICES ASSUME NEW a, a = Allocate(o), NEW b, b = StorePage(o, Blank), NEW c, c = StorePage(p, image), NEW d, d = StorePage(o, page)
               PROVE  writes \in Seq(WritesIn(setup)) /\ Becomes(P, writes, Q)
    OBVIOUS
  <2>1. SaveMeta \in WritesIn(setup) /\ After(Q, SaveMeta) = Q
    BY AfterMeta
  <2>2. setup.pages \in Nat /\ P \in Images(setup) /\ a \in WritesIn(setup) /\ b \in WritesIn(setup) /\ c \in WritesIn(setup)
        /\ d \in WritesIn(setup)
    BY <1>2, <1>8, <1>9, <1>10, <1>11
  <2>3. writes = <<a, b, c, d, SaveMeta>> /\ Q = After(After(After(After(P, a), b), c), d)
    OBVIOUS
  <2> QED BY ONLY <2>1, <2>2, <2>3, FiveWrites
<1>13. Q[p] = image /\ Q[o] = page /\ \A q \in 1 .. setup.pages : q \notin {p, o} => Q[q] = P[q]
  <2>1. Q[p] = image
    BY ONLY <1>2, <1>4, <1>10, <1>11
  <2>2. \A q \in 1 .. setup.pages : q \notin {p, o} => Q[q] = P[q]
    <3> SUFFICES ASSUME NEW q \in 1 .. setup.pages, q # o, q # p PROVE Q[q] = P[q]
      OBVIOUS
    <3>1. Q[q] = C[q] /\ C[q] = B[q]
      BY ONLY <1>10, <1>11, q # p, q # o
    <3>2. B[q] = A[q] /\ A[q] = P[q]
      BY ONLY <1>8, <1>9, q # o
    <3> QED BY ONLY <3>1, <3>2
  <2> QED BY <1>11, <2>1, <2>2
<1>14. GoesInNewOverflow(setup, P, mem, Q, m, g, e)
  <2>1. CountsOneMore(mem, m)
    BY <1>7 DEF CountsOneMore
  <2>2. Q[p].slots = P[p].slots /\ Q[p].next = P[p].next /\ Q[p].overflow = o /\ Q[o].slots = <<e>> /\ Q[o].next = NoPage
    BY <1>5, <1>6, <1>13
  <2>3. p = mem.main[g] /\ o = mem.count + 1 /\ o <= setup.pages /\ NewRow(setup, P, mem, g, e) /\ Q \in Images(setup)
    BY <1>1, <1>2, <1>11, Zenon
  <2> QED BY ONLY <1>3, <1>7, <1>13, <2>1, <2>2, <2>3 DEF GoesInNewOverflow
<1>15. Sound(setup, Q, m) /\ SameOthers(P, Q, mem.main, g) /\ KeysOf(Q, p) = KeysOf(P, p) \cup {key} /\ Q[p].slots = P[p].slots
  <2>1. SoundSetup(setup) /\ Sound(setup, P, mem) /\ p = mem.main[g] /\ e.key = key
    BY <1>1, <1>2, ZenonT(30)
  <2>2. Q[p].slots = P[p].slots
    BY <1>6, <1>13, ZenonT(30)
  <2> QED BY ONLY <1>14, <2>1, <2>2, RowInNewOverflow
<1>16. LastFits(Q, m, <<>>)
  BY <1>1, <1>7, <1>15, InsideKeepsLast, ZenonT(30)
<1>17. Good(setup, Q, m, <<>>)
  BY <1>15, <1>16 DEF Good
<1>18. EndsWithMeta(writes)
  BY DEF EndsWithMeta
<1>19. next \in {"", "rewrite"}
  BY DEF NoMore
<1>20. SetupsAreSound /\ SeqInv /\ Starts(m, writes, next)
  OBVIOUS
<1> QED BY ONLY <1>2, <1>7, <1>12, <1>17, <1>18, <1>19, <1>20, CallStarts

(* Writes to pages each of which is written once. *)
Once(t) == \A i, j \in 1 .. Len(t) : t[i].page = t[j].page => i = j

LeadsTo(s, old, t, Q) ==
    /\ Becomes(old, t, Q)
    /\ \A i \in 1 .. Len(t) : Q[t[i].page] = ImageOf(t[i])
    /\ \A q \in 1 .. s.pages : (\A i \in 1 .. Len(t) : q # t[i].page) => Q[q] = old[q]

LEMMA DistinctWrites ==
    ASSUME NEW s, s.pages \in Nat, NEW old \in Images(s), NEW t \in Seq(WritesIn(s)),
           \A i \in 1 .. Len(t) : t[i] # SaveMeta, Once(t)
    PROVE  \E Q \in Images(s) : LeadsTo(s, old, t, Q)
<1> DEFINE N == Len(t)
           At(q) == {i \in 1 .. N : t[i].page = q}
           Q == [q \in 1 .. s.pages |-> IF At(q) = {} THEN old[q] ELSE ImageOf(t[CHOOSE i \in At(q) : TRUE])]
<1>1. DOMAIN t = 1 .. N /\ \A i \in 1 .. N : t[i] \in WritesIn(s)
  BY LenProperties, ElementOfSeq
<1>2. \A i \in 1 .. N : t[i].page \in 1 .. s.pages /\ ImageOf(t[i]) \in PagesIn(s) /\ t[i].what # "save_meta"
  BY <1>1, WriteTypes
<1>3. ASSUME NEW i \in 1 .. N PROVE Q[t[i].page] = ImageOf(t[i])
  <2>1. i \in At(t[i].page) /\ t[i].page \in 1 .. s.pages
    BY <1>2
  <2>2. \A j \in At(t[i].page) : j = i
    BY DEF Once
  <2>3. (CHOOSE j \in At(t[i].page) : TRUE) = i
    BY <2>1, <2>2
  <2> HIDE DEF At
  <2> QED BY <2>1, <2>3
<1>4. ASSUME NEW q \in 1 .. s.pages, \A i \in 1 .. N : q # t[i].page PROVE Q[q] = old[q]
  <2>1. At(q) = {}
    BY <1>4
  <2> QED BY <2>1
<1>5. Q \in Images(s)
  <2>1. ASSUME NEW q \in 1 .. s.pages PROVE Q[q] \in PagesIn(s)
    <3>1. CASE \A i \in 1 .. N : q # t[i].page
      BY <1>4, <3>1 DEF Images
    <3>2. CASE \E i \in 1 .. N : q = t[i].page
      BY <1>2, <1>3, <3>2
    <3> QED BY <3>1, <3>2
  <2> QED BY <2>1 DEF Images
<1>6. DOMAIN Q = 1 .. s.pages
  OBVIOUS
<1> HIDE DEF Q, N, At
<1>7. Becomes(old, t, Q)
  <2>1. ASSUME NEW q \in 1 .. s.pages, \A i \in DOMAIN t : ~WritesTo(t[i], q) PROVE Q[q] = old[q]
    <3>1. \A i \in 1 .. N : q # t[i].page
      BY <1>1, <1>2, <2>1 DEF WritesTo
    <3> QED BY <1>4, <3>1
  <2>2. ASSUME NEW q \in 1 .. s.pages, NEW i \in DOMAIN t, IsLastTo(t, i, q) PROVE Q[q] = ImageOf(t[i])
    <3>1. t[i].page = q
      BY <2>2 DEF IsLastTo, WritesTo
    <3> QED BY <1>1, <1>3, <3>1
  <2> QED BY <1>6, <2>1, <2>2 DEF Becomes
<1>8. LeadsTo(s, old, t, Q)
  BY <1>3, <1>4, <1>7 DEF LeadsTo, N
<1> QED BY <1>5, <1>8

LEMMA LastOne ==
    ASSUME NEW T, NEW t \in Seq(T), NEW w \in T, NEW u, u = t \o <<w>>
    PROVE  u \in Seq(T) /\ u # <<>> /\ u[Len(u)] = w
<1>1. <<w>> \in Seq(T) /\ Len(<<w>>) = 1 /\ <<w>>[1] = w /\ Len(t) \in Nat
  BY LenProperties
<1> SUFFICES ASSUME NEW one, one \in Seq(T), Len(one) = 1, one[1] = w, u = t \o one, NEW n, n = Len(t), n \in Nat
             PROVE  u \in Seq(T) /\ u # <<>> /\ u[Len(u)] = w
  BY <1>1
<1>2. /\ u \in Seq(T) /\ Len(u) = n + 1
      /\ \A i \in 1 .. n + 1 : u[i] = IF i <= n THEN t[i] ELSE one[i - n]
  BY ConcatProperties
<1>3. u[n + 1] = w
  <2>1. n + 1 \in 1 .. n + 1 /\ ~(n + 1 <= n) /\ n + 1 - n = 1
    OBVIOUS
  <2> QED BY <1>2, <2>1
<1> QED BY <1>2, <1>3, EmptySeq

(* The pages of a group and as many new ones as it takes, k in all (split_group). *)
NewPages(k) == IF k > 2 THEN k - 2 ELSE 0
IdsOf(p, o, c, k) == SubSeq(<<p, o>> \o [i \in 1 .. NewPages(k) |-> c + i], 1, k)

AreIds(ids, N, c, k, p, o) ==
    /\ N \in Nat /\ c \in Nat /\ k \in Nat /\ c + NewPages(k) <= N /\ p \in 1 .. c /\ o \in 1 .. c /\ p # o
    /\ ids = IdsOf(p, o, c, k)

LEMMA IdsAre ==
    ASSUME NEW N, NEW c, NEW k, NEW p, NEW o, NEW ids, AreIds(ids, N, c, k, p, o)
    PROVE  /\ ids \in Seq(1 .. N) /\ Len(ids) = k
           /\ \A i \in 1 .. k : ids[i] = IF i = 1 THEN p ELSE IF i = 2 THEN o ELSE c + (i - 2)
           /\ \A i, j \in 1 .. k : ids[i] = ids[j] => i = j
           /\ \A i \in 1 .. k : ids[i] \in {p, o} \cup (c + 1 .. c + NewPages(k))
           /\ \A a \in c + 1 .. c + NewPages(k) : \E i \in 1 .. k : ids[i] = a
<1> DEFINE w == NewPages(k)
           own == <<p, o>>
           more == [i \in 1 .. w |-> c + i]
           all == own \o more
<1>0. /\ N \in Nat /\ c \in Nat /\ k \in Nat /\ c + NewPages(k) <= N /\ p \in 1 .. c /\ o \in 1 .. c /\ p # o
      /\ ids = IdsOf(p, o, c, k)
  BY DEF AreIds
<1> USE <1>0
<1>1. w \in Nat /\ k <= 2 + w /\ (w > 0 => k = 2 + w) /\ c + w <= N
  BY DEF NewPages
<1>2. own \in Seq(1 .. N) /\ Len(own) = 2 /\ own[1] = p /\ own[2] = o
  <2>1. p \in 1 .. N /\ o \in 1 .. N
    BY <1>1
  <2> QED BY <2>1
<1>3. more \in Seq(1 .. N) /\ Len(more) = w /\ \A i \in 1 .. w : more[i] = c + i
  <2> HIDE DEF w
  <2>1. \A i \in 1 .. w : c + i \in 1 .. N
    BY <1>1
  <2> QED BY <1>1, <2>1
<1> HIDE DEF w, own, more, all
<1>4. /\ all \in Seq(1 .. N) /\ Len(all) = 2 + w
      /\ \A i \in 1 .. 2 + w : all[i] = IF i <= 2 THEN own[i] ELSE more[i - 2]
  <2> SUFFICES ASSUME NEW L, L = 2 + w, NEW two, two = 2
               PROVE  /\ all \in Seq(1 .. N) /\ Len(all) = L
                      /\ \A i \in 1 .. L : all[i] = IF i <= two THEN own[i] ELSE more[i - two]
    OBVIOUS
  <2>1. own \in Seq(1 .. N) /\ more \in Seq(1 .. N) /\ Len(own) = two /\ Len(more) = w /\ all = own \o more /\ L = two + w
    BY <1>2, <1>3 DEF all
  <2>2. /\ all \in Seq(1 .. N) /\ Len(all) = Len(own) + Len(more)
        /\ \A i \in 1 .. Len(own) + Len(more) : all[i] = IF i <= Len(own) THEN own[i] ELSE more[i - Len(own)]
    BY <2>1, ConcatProperties
  <2> QED BY ONLY <2>1, <2>2
<1>5. \A i \in 1 .. k : i \in 1 .. 2 + w /\ all[i] \in 1 .. N
  <2>1. \A i \in 1 .. k : i \in 1 .. 2 + w
    BY <1>1
  <2>2. \A i \in 1 .. 2 + w : all[i] \in 1 .. N
    BY <1>4, ElementOfSeq
  <2> QED BY <2>1, <2>2
<1>6. ids = SubSeq(all, 1, k)
  BY DEF IdsOf, all, own, more, w
<1>7. ids \in Seq(1 .. N) /\ Len(ids) = k /\ \A i \in 1 .. k : ids[i] = all[i]
  <2> SUFFICES ASSUME NEW one, one = 1
               PROVE  ids \in Seq(1 .. N) /\ Len(ids) = k /\ \A i \in 1 .. k : ids[i] = all[i]
    OBVIOUS
  <2>1. /\ ids \in Seq(1 .. N) /\ Len(ids) = (IF one <= k THEN k - one + 1 ELSE 0)
        /\ \A i \in 1 .. k - one + 1 : ids[i] = all[one + i - 1]
    <3>1. ids = SubSeq(all, one, k) /\ one \in Int /\ k \in Int /\ \A i \in one .. k : all[i] \in 1 .. N
      BY <1>5, <1>6
    <3> QED BY <3>1, SubSeqProperties
  <2>2. k - one + 1 = k /\ \A i \in 1 .. k : one + i - 1 = i
    OBVIOUS
  <2>3. Len(ids) = k
    BY <2>1
  <2> QED BY <2>1, <2>2, <2>3
<1>8. ASSUME NEW i \in 1 .. k PROVE ids[i] = IF i = 1 THEN p ELSE IF i = 2 THEN o ELSE c + (i - 2)
  <2>1. ids[i] = IF i <= 2 THEN own[i] ELSE more[i - 2]
    BY <1>4, <1>5, <1>7
  <2>2. CASE i <= 2
    BY <1>2, <2>1, <2>2
  <2>3. CASE ~(i <= 2)
    <3>1. i - 2 \in 1 .. w
      BY <1>1, <2>3
    <3> QED BY <1>3, <2>1, <2>3, <3>1
  <2> QED BY <2>2, <2>3
<1>9. \A i \in 1 .. k : i > 2 => i - 2 \in 1 .. w
  BY <1>1
<1>10. \A i, j \in 1 .. k : ids[i] = ids[j] => i = j
  <2> SUFFICES ASSUME NEW i \in 1 .. k, NEW j \in 1 .. k, ids[i] = ids[j] PROVE i = j
    OBVIOUS
  <2>1. ids[i] = (IF i = 1 THEN p ELSE IF i = 2 THEN o ELSE c + (i - 2))
    BY <1>8
  <2>2. ids[j] = (IF j = 1 THEN p ELSE IF j = 2 THEN o ELSE c + (j - 2))
    BY <1>8
  <2>3. i \in 1 .. k /\ j \in 1 .. k /\ ids[i] = ids[j] /\ c \in Nat /\ k \in Nat /\ p \in 1 .. c /\ o \in 1 .. c /\ p # o
    OBVIOUS
  <2>5. ASSUME NEW x, x = (IF i = 1 THEN p ELSE IF i = 2 THEN o ELSE c + (i - 2)),
               x = (IF j = 1 THEN p ELSE IF j = 2 THEN o ELSE c + (j - 2))
        PROVE  i = j
    BY ONLY <2>3, <2>5
  <2> QED BY <2>1, <2>2, <2>3, <2>5
<1>11. \A i \in 1 .. k : ids[i] \in {p, o} \cup (c + 1 .. c + w)
  BY <1>1, <1>8, <1>9
<1>12. \A a \in c + 1 .. c + w : \E i \in 1 .. k : ids[i] = a
  <2> SUFFICES ASSUME NEW a \in c + 1 .. c + w PROVE \E i \in 1 .. k : ids[i] = a
    OBVIOUS
  <2>1. ASSUME NEW i, i = a - c + 2 PROVE i \in 1 .. k /\ ids[i] = a
    <3>1. i \in 1 .. k /\ i # 1 /\ i # 2 /\ c + (i - 2) = a
      BY <1>1, <2>1
    <3> QED BY <1>8, <3>1
  <2> QED BY <2>1
<1> QED BY <1>7, <1>8, <1>10, <1>11, <1>12 DEF w

(* The place of one element of a list is taken by others. *)
SplicedAt(old, g, mid) == SubSeq(old, 1, g - 1) \o mid \o SubSeq(old, g + 1, Len(old))

LEMMA SplicedIsSpliced ==
    ASSUME NEW T, NEW old \in Seq(T), NEW g \in 1 .. Len(old), NEW mid \in Seq(T), NEW new, new = SplicedAt(old, g, mid)
    PROVE  IsSpliced(new, T, old, g, 1, mid)
<1> DEFINE N == Len(old)
           k == Len(mid)
           a == SubSeq(old, 1, g - 1)
           b == SubSeq(old, g + 1, N)
           c == a \o mid
<1>1. N \in Nat /\ k \in Nat /\ g \in 1 .. N /\ \A i \in 1 .. N : old[i] \in T
  BY LenProperties, ElementOfSeq
<1>2. a \in Seq(T) /\ Len(a) = g - 1 /\ \A i \in 1 .. g - 1 : a[i] = old[i]
  <2> SUFFICES ASSUME NEW m, m = 1, NEW n, n = g - 1
               PROVE  a \in Seq(T) /\ Len(a) = g - 1 /\ \A i \in 1 .. g - 1 : a[i] = old[i]
    OBVIOUS
  <2>1. a = SubSeq(old, m, n) /\ m \in Int /\ n \in Int /\ \A i \in m .. n : old[i] \in T
    BY <1>1
  <2>2. /\ a \in Seq(T) /\ Len(a) = (IF m <= n THEN n - m + 1 ELSE 0)
        /\ \A i \in 1 .. n - m + 1 : a[i] = old[m + i - 1]
    BY <2>1, SubSeqProperties
  <2> HIDE DEF a, N
  <2>3. n - m + 1 = g - 1 /\ (m > n => g - 1 = 0) /\ \A i \in 1 .. g - 1 : m + i - 1 = i
    BY <1>1
  <2> QED BY <2>2, <2>3
<1>3. b \in Seq(T) /\ Len(b) = N - g /\ \A i \in 1 .. N - g : b[i] = old[g + i]
  <2> SUFFICES ASSUME NEW m, m = g + 1, NEW n, n = N
               PROVE  b \in Seq(T) /\ Len(b) = N - g /\ \A i \in 1 .. N - g : b[i] = old[g + i]
    OBVIOUS
  <2>1. b = SubSeq(old, m, n) /\ m \in Int /\ n \in Int /\ \A i \in m .. n : old[i] \in T
    BY <1>1
  <2>2. /\ b \in Seq(T) /\ Len(b) = (IF m <= n THEN n - m + 1 ELSE 0)
        /\ \A i \in 1 .. n - m + 1 : b[i] = old[m + i - 1]
    BY <2>1, SubSeqProperties
  <2> HIDE DEF b, N
  <2>3. n - m + 1 = N - g /\ (m > n => N - g = 0)
    BY <1>1
  <2>4. \A i \in 1 .. N - g : m + i - 1 = g + i
    BY <1>1
  <2>5. (m <= n \/ m > n) /\ m \in Int /\ n \in Int
    BY <1>1
  <2> QED BY ONLY <2>2, <2>3, <2>4, <2>5
<1> HIDE DEF a, b, N, k, c
<1>4. /\ c \in Seq(T) /\ Len(c) = g - 1 + k
      /\ \A i \in 1 .. g - 1 + k : c[i] = IF i <= g - 1 THEN a[i] ELSE mid[i - (g - 1)]
  <2>1. a \in Seq(T) /\ mid \in Seq(T) /\ Len(a) = g - 1 /\ Len(mid) = k /\ c = a \o mid
    BY <1>2 DEF k, c
  <2>2. /\ c \in Seq(T) /\ Len(c) = Len(a) + Len(mid)
        /\ \A i \in 1 .. Len(a) + Len(mid) : c[i] = IF i <= Len(a) THEN a[i] ELSE mid[i - Len(a)]
    BY <2>1, ConcatProperties
  <2> QED BY ONLY <2>1, <2>2
<1>5. new = c \o b
  BY DEF SplicedAt, a, b, c, N
<1>6. /\ new \in Seq(T) /\ Len(new) = g - 1 + k + (N - g)
      /\ \A i \in 1 .. g - 1 + k + (N - g) : new[i] = IF i <= g - 1 + k THEN c[i] ELSE b[i - (g - 1 + k)]
  <2> SUFFICES ASSUME NEW m, m = g - 1 + k, NEW n, n = N - g, NEW L, L = m + n
               PROVE  /\ new \in Seq(T) /\ Len(new) = L
                      /\ \A i \in 1 .. L : new[i] = IF i <= m THEN c[i] ELSE b[i - m]
    OBVIOUS
  <2>1. c \in Seq(T) /\ b \in Seq(T) /\ Len(c) = m /\ Len(b) = n /\ new = c \o b /\ L = m + n
    BY <1>3, <1>4, <1>5
  <2>2. /\ new \in Seq(T) /\ Len(new) = Len(c) + Len(b)
        /\ \A i \in 1 .. Len(c) + Len(b) : new[i] = IF i <= Len(c) THEN c[i] ELSE b[i - Len(c)]
    BY <2>1, ConcatProperties, ZenonT(30)
  <2> QED BY ONLY <2>1, <2>2
<1>7. Len(new) = N + k - 1
  BY <1>1, <1>6
<1>8. ASSUME NEW h \in 1 .. N + k - 1
      PROVE  new[h] = IF h < g THEN old[h] ELSE IF h < g + k THEN mid[h - g + 1] ELSE old[h - k + 1]
  <2>1. new[h] = IF h <= g - 1 + k THEN c[h] ELSE b[h - (g - 1 + k)]
    BY <1>6, <1>7
  <2>2. CASE h < g
    <3>1. h \in 1 .. g - 1 /\ h \in 1 .. g - 1 + k /\ h <= g - 1 + k /\ h <= g - 1
      BY <1>1, <2>2
    <3> QED BY <1>2, <1>4, <2>1, <2>2, <3>1
  <2>3. CASE ~(h < g) /\ h < g + k
    <3>1. h \in 1 .. g - 1 + k /\ h <= g - 1 + k /\ ~(h <= g - 1) /\ h - (g - 1) = h - g + 1
      BY <1>1, <2>3
    <3> QED BY <1>4, <2>1, <2>3, <3>1
  <2>4. CASE ~(h < g) /\ ~(h < g + k)
    <3> SUFFICES ASSUME NEW i, i = h - (g - 1 + k) PROVE new[h] = old[h - k + 1]
      BY <2>4
    <3>1. ~(h <= g - 1 + k) /\ i \in 1 .. N - g /\ g + i = h - k + 1
      BY <1>1, <2>4
    <3>2. new[h] = b[i]
      BY <2>1, <3>1
    <3>3. b[i] = old[g + i]
      BY <1>3, <3>1
    <3> QED BY <3>1, <3>2, <3>3
  <2> QED BY <2>2, <2>3, <2>4
<1> QED BY <1>6, <1>7, <1>8 DEF IsSpliced, N, k

WritesPages(s, P, c, w, k, ids, image, allocs, stores) ==
    /\ s.pages \in Nat /\ P \in Images(s) /\ c \in Nat /\ w \in Nat /\ c + w <= s.pages /\ k \in Nat
    /\ ids \in Seq(1 .. s.pages) /\ Len(ids) = k /\ \A i, j \in 1 .. k : ids[i] = ids[j] => i = j
    /\ \A a \in c + 1 .. c + w : \E i \in 1 .. k : ids[i] = a
    /\ \A i \in 1 .. k : image[i] \in PagesIn(s)
    /\ allocs = [i \in 1 .. w |-> Allocate(c + i)] /\ stores = [i \in 1 .. k |-> StorePage(ids[i], image[i])]

LEMMA PagesWritten ==
    ASSUME NEW s, NEW P, NEW c, NEW w, NEW k, NEW ids, NEW image, NEW allocs, NEW stores,
           WritesPages(s, P, c, w, k, ids, image, allocs, stores)
    PROVE  /\ allocs \o stores \in Seq(WritesIn(s))
           /\ \E Q \in Images(s) : /\ Becomes(P, allocs \o stores, Q)
                                   /\ \A i \in 1 .. k : Q[ids[i]] = image[i]
                                   /\ \A q \in 1 .. s.pages : (\A i \in 1 .. k : q # ids[i]) => Q[q] = P[q]
<1> USE DEF WritesPages
<1>1. \A i \in 1 .. k : ids[i] \in 1 .. s.pages
  BY ElementOfSeq
<1>2. ASSUME NEW i \in 1 .. k
      PROVE  /\ stores[i] = StorePage(ids[i], image[i]) /\ stores[i] \in WritesIn(s) /\ stores[i] # SaveMeta
             /\ stores[i].page = ids[i] /\ ImageOf(stores[i]) = image[i]
  <2>1. stores[i] = StorePage(ids[i], image[i])
    OBVIOUS
  <2>2. StorePage(ids[i], image[i]) \in WritesIn(s)
    BY <1>1 DEF WritesIn
  <2>3. StorePage(ids[i], image[i]) # SaveMeta /\ StorePage(ids[i], image[i]).page = ids[i] /\ ImageOf(StorePage(ids[i], image[i])) = image[i]
    BY DEF StorePage, SaveMeta, ImageOf
  <2> QED BY <2>1, <2>2, <2>3
<1>3. ASSUME NEW i \in 1 .. w
      PROVE  /\ allocs[i] \in WritesIn(s) /\ allocs[i] # SaveMeta /\ allocs[i].page = c + i /\ c + i \in c + 1 .. c + w
  <2>1. c + i \in 1 .. s.pages /\ c + i \in c + 1 .. c + w
    OBVIOUS
  <2>2. allocs[i] = Allocate(c + i)
    OBVIOUS
  <2>3. Allocate(c + i) \in WritesIn(s)
    BY <2>1 DEF WritesIn
  <2>4. Allocate(c + i) # SaveMeta /\ Allocate(c + i).page = c + i
    BY DEF Allocate, SaveMeta
  <2> QED BY <2>1, <2>2, <2>3, <2>4
<1>4. Len(allocs) = w /\ allocs \in Seq(WritesIn(s)) /\ Len(stores) = k /\ stores \in Seq(WritesIn(s))
  <2> SUFFICES ASSUME NEW T, T = WritesIn(s) PROVE Len(allocs) = w /\ allocs \in Seq(T) /\ Len(stores) = k /\ stores \in Seq(T)
    OBVIOUS
  <2>1. \A i \in 1 .. w : allocs[i] \in T
    BY <1>3
  <2>2. \A i \in 1 .. k : stores[i] \in T
    BY <1>2
  <2>3. allocs = [i \in 1 .. w |-> allocs[i]] /\ stores = [i \in 1 .. k |-> stores[i]]
    OBVIOUS
  <2>4. ASSUME NEW n \in Nat, NEW f \in [1 .. n -> T] PROVE Len(f) = n /\ f \in Seq(T)
    OBVIOUS
  <2>5. allocs \in [1 .. w -> T] /\ stores \in [1 .. k -> T]
    BY ONLY <2>1, <2>2, <2>3
  <2> QED BY ONLY <2>4, <2>5, w \in Nat, k \in Nat
<1>5. Once(allocs)
  <2> SUFFICES ASSUME NEW i \in 1 .. w, NEW j \in 1 .. w, allocs[i].page = allocs[j].page PROVE i = j
    BY <1>4 DEF Once
  <2>1. c + i = c + j
    BY <1>3, ZenonT(30)
  <2> QED BY <2>1
<1>6. Once(stores)
  <2>1. ASSUME NEW i \in 1 .. k, NEW j \in 1 .. k, stores[i].page = stores[j].page PROVE i = j
    <3>1. ids[i] = ids[j]
      BY ONLY <1>2, <2>1, i \in 1 .. k, j \in 1 .. k
    <3> QED BY <3>1
  <2> QED BY ONLY <1>4, <2>1 DEF Once
<1>12. (\A i \in 1 .. Len(allocs) : allocs[i] # SaveMeta) /\ \A i \in 1 .. Len(stores) : stores[i] # SaveMeta
  BY ONLY <1>2, <1>3, <1>4
<1>7. PICK A \in Images(s) : LeadsTo(s, P, allocs, A)
  BY ONLY <1>4, <1>5, <1>12, s.pages \in Nat, P \in Images(s), DistinctWrites
<1>8. PICK Q \in Images(s) : LeadsTo(s, A, stores, Q)
  BY ONLY <1>4, <1>6, <1>12, s.pages \in Nat, A \in Images(s), DistinctWrites
<1>9. allocs \o stores \in Seq(WritesIn(s)) /\ Becomes(P, allocs \o stores, Q)
  BY ONLY <1>4, <1>7, <1>8, s.pages \in Nat, A \in Images(s), Q \in Images(s), WritesInOrder DEF LeadsTo
<1>10. \A i \in 1 .. k : Q[ids[i]] = image[i]
  BY ONLY <1>2, <1>4, <1>8 DEF LeadsTo
<1>11. ASSUME NEW q \in 1 .. s.pages, \A i \in 1 .. k : q # ids[i] PROVE Q[q] = P[q]
  <2>1. Q[q] = A[q]
    BY ONLY <1>2, <1>4, <1>8, <1>11, q \in 1 .. s.pages DEF LeadsTo
  <2>2. \A i \in 1 .. w : q # allocs[i].page
    <3> SUFFICES ASSUME NEW i \in 1 .. w PROVE q # allocs[i].page
      OBVIOUS
    <3>1. allocs[i].page = c + i /\ c + i \in c + 1 .. c + w
      BY <1>3
    <3>2. PICK j \in 1 .. k : ids[j] = c + i
      BY <3>1
    <3> QED BY ONLY <1>11, <3>1, <3>2
  <2> QED BY ONLY <1>4, <1>7, <2>1, <2>2, q \in 1 .. s.pages DEF LeadsTo
<1> QED BY <1>9, <1>10, <1>11

(* The page before a group that is dropped, and the meta area. *)
EndsCall(s, P, A, t, b, image, unlinks, last, all) ==
    /\ s.pages \in Nat /\ A \in Images(s) /\ t \in Seq(WritesIn(s)) /\ Becomes(P, t, A) /\ unlinks \in BOOLEAN
    /\ unlinks => b \in 1 .. s.pages /\ image \in PagesIn(s)
    /\ last = (IF unlinks THEN <<StorePage(b, image)>> ELSE <<>>) /\ all = t \o last \o <<SaveMeta>>

LEMMA LastWritten ==
    ASSUME NEW s, NEW P, NEW A, NEW t, NEW b, NEW image, NEW unlinks, NEW last, NEW all,
           EndsCall(s, P, A, t, b, image, unlinks, last, all)
    PROVE  /\ all \in Seq(WritesIn(s)) /\ EndsWithMeta(all)
           /\ \E Q \in Images(s) : /\ Becomes(P, all, Q)
                                   /\ unlinks => Q[b] = image
                                   /\ \A q \in 1 .. s.pages : (unlinks => q # b) => Q[q] = A[q]
<1> USE DEF EndsCall
<1>1. SaveMeta \in WritesIn(s)
  BY AfterMeta
<1>2. CASE unlinks
  <2> SUFFICES ASSUME NEW w, w = StorePage(b, image), NEW Q, Q = After(A, w), NEW u, u = t \o <<w>>, all = u \o <<SaveMeta>>
               PROVE  /\ all \in Seq(WritesIn(s)) /\ EndsWithMeta(all) /\ Q \in Images(s) /\ Becomes(P, all, Q)
                      /\ Q[b] = image /\ \A q \in 1 .. s.pages : q # b => Q[q] = A[q]
    BY <1>2
  <2>1. w \in WritesIn(s) /\ Q \in Images(s) /\ Q[b] = image /\ \A x \in 1 .. s.pages : x # b => Q[x] = A[x]
    BY <1>2, AfterStore
  <2>2. u \in Seq(WritesIn(s)) /\ Becomes(P, u, Q)
    BY <2>1, AnotherWrite
  <2>3. all \in Seq(WritesIn(s)) /\ Becomes(P, all, After(Q, SaveMeta))
    BY <1>1, <2>1, <2>2, AnotherWrite, ZenonT(30)
  <2>4. After(Q, SaveMeta) = Q
    BY AfterMeta
  <2>5. EndsWithMeta(all)
    BY <1>1, <2>2, LastOne DEF EndsWithMeta
  <2> QED BY <2>1, <2>3, <2>4, <2>5
<1>3. CASE ~unlinks
  <2>1. t \o <<>> = t
    BY ConcatEmptySeq
  <2>2. all = t \o <<SaveMeta>>
    BY <1>3, <2>1
  <2>3. all \in Seq(WritesIn(s)) /\ Becomes(P, all, After(A, SaveMeta))
    BY <1>1, <2>2, AnotherWrite
  <2>4. After(A, SaveMeta) = A
    BY AfterMeta
  <2>5. EndsWithMeta(all)
    BY <1>1, <2>2, LastOne DEF EndsWithMeta
  <2> QED BY <1>3, <2>3, <2>4, <2>5
<1> QED BY <1>2, <1>3

(* The group g of the main page p, and what its split makes of it. *)
Halved(P, d, g, p, o, slots, rows, k, ids) ==
    /\ d.pages = P /\ p = mem.main[g] /\ o = P[p].overflow /\ o # NoPage
    /\ slots = SlotsOf(d, Group(d, p)) /\ rows = LiveOf(slots)
    /\ k = (Len(rows) + PerPage - 1) \div PerPage
    /\ ids = IdsOf(p, o, mem.count, k) /\ mem.count + NewPages(k) < setup.pages

(* What split_group reads: the live rows of the group in key order, and how many pages they take. *)
LEMMA GroupSplitRead ==
    ASSUME SoundSetup(setup), NEW P, NEW d, NEW g \in DOMAIN mem.main, NEW p, NEW o, NEW slots, NEW rows, NEW k, NEW ids,
           Sound(setup, P, mem), Halved(P, d, g, p, o, slots, rows, k, ids)
    PROVE  /\ Group(d, p) = <<p, o>> /\ Sorts(rows, GroupSlots(P, p)) /\ rows \in Seq(SlotsIn(setup)) /\ Len(rows) \in Nat
           /\ k \in Nat /\ Quotient(k, Len(rows), PerPage) /\ PerPage \in Nat /\ PerPage >= 1 /\ PerPage <= setup.slots
           /\ mem.count \in Nat /\ p \in 1 .. mem.count /\ o \in 1 .. mem.count /\ p # o /\ PagesOf(P, p) = {p, o}
           /\ Len(slots) - Cardinality(LiveAt(slots)) = Cardinality(PlacesOf(P, p)) - Cardinality(Living(P, p))
<1>0. /\ d.pages = P /\ p = mem.main[g] /\ o = P[p].overflow /\ o # NoPage
      /\ slots = SlotsOf(d, Group(d, p)) /\ rows = LiveOf(slots) /\ k = (Len(rows) + PerPage - 1) \div PerPage
  BY DEF Halved
<1> USE <1>0
<1>1. /\ P \in Images(setup) /\ Chained(setup, P, mem.main, mem.head, mem.count) /\ p \in 1 .. setup.pages /\ Sane(setup, P, p)
      /\ setup.pages \in Nat
  BY SoundTypes DEF SoundSetup
<1>2. mem.count \in Nat /\ PagesOf(P, p) \subseteq 1 .. mem.count
  BY <1>1 DEF Chained
<1>3. PagesOf(P, p) = {p, o} /\ p # o
  BY <1>1 DEF PagesOf, Sane
<1>4. Group(d, p) = <<p, o>>
  BY <1>1, GroupRead, Zenon DEF Sane
<1>5. rows = ReadGroup(d, p)
  BY DEF ReadGroup
<1>6. Sorts(rows, GroupSlots(P, p)) /\ DistinctKeys(GroupSlots(P, p))
  BY <1>1, <1>5, ReadGroupSorts
<1>7. PICK f : IndexedBy(setup, slots, P, p, f)
  BY <1>1, GroupIndexed
<1>8. /\ IsFiniteSet(Living(P, p)) /\ Len(slots) = Cardinality(PlacesOf(P, p))
      /\ Cardinality(LiveAt(slots)) = Cardinality(Living(P, p))
  BY <1>7, GroupCounted
<1>9. GroupSlots(P, p) \subseteq SlotsIn(setup)
  BY <1>1, <1>8, GroupDistinct
<1>10. rows \in Seq(SlotsIn(setup)) /\ Len(rows) \in Nat
  <2>1. rows \in Seq(GroupSlots(P, p))
    BY <1>6 DEF Sorts
  <2> SUFFICES ASSUME NEW A, NEW B, A \subseteq B, rows \in Seq(A) PROVE rows \in Seq(B) /\ Len(rows) \in Nat
    BY <1>9, <2>1
  <2>2. Len(rows) \in Nat /\ DOMAIN rows = 1 .. Len(rows) /\ \A i \in 1 .. Len(rows) : rows[i] \in A
    BY LenProperties, ElementOfSeq
  <2> QED BY <2>2
<1>11. PerPage \in Nat /\ PerPage >= 1 /\ PerPage <= setup.slots
  BY PageFills
<1>12. k \in Nat /\ Quotient(k, Len(rows), PerPage)
  <2> SUFFICES ASSUME NEW L, L = Len(rows), NEW z, z = PerPage, k = (L + z - 1) \div z PROVE k \in Nat /\ Quotient(k, L, z)
    OBVIOUS
  <2>1. Quotient(k, L, z)
    BY <1>10, <1>11, PagesNeeded
  <2> QED BY <2>1 DEF Quotient
<1>13. Len(slots) - Cardinality(LiveAt(slots)) = Cardinality(PlacesOf(P, p)) - Cardinality(Living(P, p))
  BY <1>8
<1> QED BY <1>2, <1>3, <1>4, <1>6, <1>10, <1>11, <1>12, <1>13

(* The pages after a split: those of the group have its live rows, and without any the page before is linked
   to the one behind. *)
HalfPage(rows, ids, k, last, i) ==
    [slots |-> Chunk(rows, i, PerPage), overflow |-> NoPage, next |-> IF i < k THEN ids[i + 1] ELSE last]

SplitPages(Q, P, rows, ids, k, last, g, b) ==
    /\ \A i \in 1 .. k : Q[ids[i]] = HalfPage(rows, ids, k, last, i)
    /\ k = 0 /\ g # 1 => Q[b] = [P[b] EXCEPT !.next = last]
    /\ \A q \in 1 .. setup.pages : (\A i \in 1 .. k : q # ids[i]) /\ (k = 0 /\ g # 1 => q # b) => Q[q] = P[q]

AreHalves(h, P, g, slots, rows, k, ids, last, b) ==
    /\ h.new = NewPages(k) /\ h.ids = ids /\ h.first = [i \in 1 .. k |-> Chunk(rows, i, PerPage)[1].key]
    /\ h.dropped = Len(slots) - Cardinality(LiveAt(slots))
    /\ h.stores = [i \in 1 .. k |-> StorePage(ids[i], HalfPage(rows, ids, k, last, i))]
    /\ h.unlink = IF k > 0 \/ g = 1 THEN <<>> ELSE <<StorePage(b, [P[b] EXCEPT !.next = last])>>
    /\ h.head = IF k = 0 /\ g = 1 THEN last ELSE mem.head

LEMMA HalvesAre ==
    ASSUME SoundSetup(setup), NEW P, NEW d, NEW g \in DOMAIN mem.main, NEW p, NEW o, NEW slots, NEW rows, NEW k, NEW ids,
           Sound(setup, P, mem), Halved(P, d, g, p, o, slots, rows, k, ids)
    PROVE  AreHalves(Halves(d, g), P, g, slots, rows, k, ids, P[p].next, mem.main[g - 1])
<1>0. /\ d.pages = P /\ p = mem.main[g] /\ slots = SlotsOf(d, Group(d, p)) /\ rows = LiveOf(slots)
      /\ k = (Len(rows) + PerPage - 1) \div PerPage /\ ids = IdsOf(p, o, mem.count, k)
  BY DEF Halved
<1>1. Group(d, p) = <<p, o>>
  BY ONLY SoundSetup(setup), g \in DOMAIN mem.main, Sound(setup, P, mem), Halved(P, d, g, p, o, slots, rows, k, ids), GroupSplitRead
<1>2. Len(Group(d, p)) = 2
  BY <1>1
<1> QED BY <1>0, <1>1, <1>2, Zenon DEF Halves, IdsOf, NewPages, HalfPage, AreHalves

(* After a split the last page is one of the new ones or the one that it was; when the group was the last
   one and is gone, the row that is inserted again is behind the group before it. *)
LEMMA SplitKeepsLast ==
    ASSUME NEW s, SoundSetup(s), NEW P, NEW m, Sound(s, P, m), NEW Q, NEW n, NEW g, NEW ids, NEW firsts, NEW rows, NEW z,
           SplitsGroup(s, P, m, Q, n, g, ids, firsts, rows, z), LastBounded(P, m.main),
           NEW r, r.key \in Int, g # 1 => FirstOf(P, m.main[g]) <= r.key
    PROVE  LastFits(Q, n, <<r>>)
<1> SUFFICES ASSUME NEW N, N = Len(m.main), NEW k, k = Len(ids), NEW H, H = Len(n.main), NEW old, old = m.main, n.main # <<>>
             PROVE  LastFits(Q, n, <<r>>)
  BY DEF LastFits
<1>1. /\ g \in DOMAIN old /\ IsChunked(s, Q, ids, rows, z) /\ IsSpliced(n.main, 1 .. s.pages, old, g, 1, ids)
  BY DEF SplitsGroup
<1>2. /\ N \in Nat /\ DOMAIN old = 1 .. N /\ P \in Images(s) /\ Chained(s, P, old, m.head, m.count)
      /\ \A h \in DOMAIN old : old[h] \in 1 .. s.pages /\ Sane(s, P, old[h])
  BY SoundTypes
<1>3. s.pages \in Nat /\ s.keys \subseteq Int
  BY DEF SoundSetup
<1>4. Splices(s, P, m, Q, n, g, 1, ids, firsts)
  BY SplitSplices
<1>5. Sound(s, Q, n)
  BY GroupSplit
<1>6. k \in Nat /\ H = N + k - 1 /\ H \in Nat /\ H >= 1 /\ g \in 1 .. N
  <2>1. k \in Nat
    BY <1>1, LenProperties DEF IsChunked
  <2>2. H = N + k - 1 /\ g \in 1 .. N
    BY <1>1, <1>2 DEF IsSpliced
  <2>3. H \in Nat /\ n.main \in Seq(1 .. s.pages)
    BY <1>5, SoundTypes DEF Sound, Chained
  <2>4. H # 0
    BY <2>3, EmptySeq
  <2> QED BY <2>1, <2>2, <2>3, <2>4
<1>7. n.main[H] = IF H < g THEN old[H] ELSE IF H < g + k THEN ids[H - g + 1] ELSE old[H - k + 1]
  <2>1. H \in 1 .. H
    BY <1>6
  <2> QED BY <1>1, <2>1 DEF IsSpliced
<1>8. ASSUME NEW h \in 1 .. N, h # g
      PROVE  KeysOf(Q, old[h]) = KeysOf(P, old[h]) /\ Q[old[h]].slots = P[old[h]].slots
  <2>1. Keeps(P, Q, old[h])
    BY <1>4, <1>8 DEF Splices
  <2> SUFFICES ASSUME NEW q, Keeps(P, Q, q) PROVE KeysOf(Q, q) = KeysOf(P, q) /\ Q[q].slots = P[q].slots
    BY <2>1
  <2>2. Q[q].slots = P[q].slots
    BY DEF Keeps
  <2> QED BY ONLY <2>2, Keeps(P, Q, q), KeptGroup
<1>9. CASE g < N
  <2>1. n.main[H] = old[N]
    <3>1. ~(H < g) /\ ~(H < g + k) /\ H - k + 1 = N
      BY <1>6, <1>9
    <3> QED BY <1>7, <3>1
  <2>2. N \in 1 .. N /\ N # g
    BY <1>6, <1>9
  <2>3. KeysOf(Q, old[N]) = KeysOf(P, old[N]) /\ Q[old[N]].slots = P[old[N]].slots
    BY <1>8, <2>2
  <2> QED BY <2>1, <2>3 DEF LastFits, LastBounded
<1>10. CASE g = N /\ k > 0
  <2>1. n.main[H] = ids[k] /\ k \in 1 .. k
    <3>1. ~(H < g) /\ H < g + k /\ H - g + 1 = k
      BY <1>6, <1>10
    <3> QED BY <1>6, <1>7, <1>10, <3>1
  <2>2. Q[ids[k]].overflow = NoPage
    BY <1>1, <2>1 DEF IsChunked
  <2> QED BY <1>5, <2>1, <2>2, LastIsPlain
<1>11. CASE g = N /\ k = 0
  <2>1. n.main[H] = old[H] /\ H \in 1 .. N /\ H < N /\ H # g /\ g # 1 /\ N \in 1 .. N
    <3>1. H < g
      BY <1>6, <1>11
    <3>2. n.main[H] = old[H]
      BY ONLY <1>7, <3>1
    <3>3. H \in 1 .. N /\ H < N /\ H # g /\ g # 1 /\ N \in 1 .. N
      BY ONLY <1>6, <1>11, N \in Nat
    <3> QED BY ONLY <3>2, <3>3
  <2>2. KeysOf(Q, old[H]) = KeysOf(P, old[H])
    BY <1>8, <2>1
  <2>3. \A key \in KeysOf(P, old[H]) : key < FirstOf(P, old[N])
    BY ONLY <1>2, <2>1 DEF Chained
  <2>4. KeysOf(P, old[H]) \subseteq Int /\ FirstOf(P, old[N]) \in Int
    BY <1>2, <1>3, <2>1, ChainTypes
  <2>5. FirstOf(P, old[N]) <= r.key
    BY <1>11, <2>1
  <2>6. \A key \in KeysOf(Q, n.main[H]) : key < r.key
    BY <2>1, <2>2, <2>3, <2>4, <2>5
  <2>7. r \in ToSet(<<r>>)
    BY DEF ToSet
  <2> QED BY <2>6, <2>7 DEF LastFits
<1> QED BY <1>6, <1>9, <1>10, <1>11

(* The split of a group starts: the row is inserted again when its writes are done. *)
LEMMA SplitStarts ==
    ASSUME SetupsAreSound, SeqInv, up, work.todo = <<>>, work.next # "rename",
           NEW m, IsMemory(m), NEW writes \in Seq(WritesIn(setup)), NEW r \in SetupRows, NEW dropped, NEW next, NoMore(next),
           mem' = m, work' = [todo |-> writes, dropped |-> dropped, retry |-> <<r>>, next |-> next],
           disk' = Flushed, buffer' = Nothing, setup' = setup, up' = up,
           NEW P, Becomes(disk.pages, writes, P), Good(setup, P, m, <<r>>), EndsWithMeta(writes)
    PROVE  SeqInv'
<1>1. IsFile(setup, Flushed) /\ Flushed.pages = disk.pages /\ Flushed.exists
  BY Quiet
<1>2. /\ DOMAIN work' = {"todo", "dropped", "retry", "next"}
      /\ work'.todo = writes /\ work'.retry = <<r>> /\ work'.next = next
  OBVIOUS
<1>3. CallIsSound'
  <2>1. r \in SetupRows'
    BY DEF SetupRows
  <2> QED BY <1>2, <2>1 DEF CallIsSound, NoMore
<1>4. MetaWillBeSaved'
  BY <1>2 DEF MetaWillBeSaved, EndsWithMeta
<1>5. next \notin {"remove", "rename", "close"}
  BY DEF NoMore
<1>6. Working'
  BY <1>1, <1>2, <1>3, <1>4, <1>5 DEF Working
<1> QED BY <1>1, <1>6 DEF SeqInv

IsHalved(P, d, p, o, slots, rows, k, ids) ==
    /\ Group(d, p) = <<p, o>> /\ Sorts(rows, GroupSlots(P, p)) /\ rows \in Seq(SlotsIn(setup)) /\ Len(rows) \in Nat
    /\ k \in Nat /\ Quotient(k, Len(rows), PerPage) /\ PerPage \in Nat /\ PerPage >= 1 /\ PerPage <= setup.slots
    /\ mem.count \in Nat /\ p \in 1 .. mem.count /\ o \in 1 .. mem.count /\ p # o /\ PagesOf(P, p) = {p, o}
    /\ Len(slots) - Cardinality(LiveAt(slots)) = Cardinality(PlacesOf(P, p)) - Cardinality(Living(P, p))
    /\ NewPages(k) \in Nat /\ ids \in Seq(1 .. setup.pages) /\ Len(ids) = k
    /\ \A i \in 1 .. k : ids[i] = IF i = 1 THEN p ELSE IF i = 2 THEN o ELSE mem.count + (i - 2)
    /\ \A i, j \in 1 .. k : ids[i] = ids[j] => i = j
    /\ \A i \in 1 .. k : ids[i] \in {p, o} \cup (mem.count + 1 .. mem.count + NewPages(k))
    /\ \A a \in mem.count + 1 .. mem.count + NewPages(k) : \E i \in 1 .. k : ids[i] = a

LEMMA HalvedTypes ==
    ASSUME SoundSetup(setup), NEW P, NEW d, NEW g \in DOMAIN mem.main, NEW p, NEW o, NEW slots, NEW rows, NEW k, NEW ids,
           Sound(setup, P, mem), Halved(P, d, g, p, o, slots, rows, k, ids)
    PROVE  IsHalved(P, d, p, o, slots, rows, k, ids)
<1>1. /\ d.pages = P /\ p = mem.main[g] /\ o = P[p].overflow /\ o # NoPage
      /\ slots = SlotsOf(d, Group(d, p)) /\ rows = LiveOf(slots)
      /\ k = (Len(rows) + PerPage - 1) \div PerPage
      /\ ids = IdsOf(p, o, mem.count, k) /\ mem.count + NewPages(k) < setup.pages
  BY DEF Halved
<1>2. /\ Group(d, p) = <<p, o>> /\ Sorts(rows, GroupSlots(P, p)) /\ rows \in Seq(SlotsIn(setup)) /\ Len(rows) \in Nat
      /\ k \in Nat /\ Quotient(k, Len(rows), PerPage) /\ PerPage \in Nat /\ PerPage >= 1 /\ PerPage <= setup.slots
      /\ mem.count \in Nat /\ p \in 1 .. mem.count /\ o \in 1 .. mem.count /\ p # o /\ PagesOf(P, p) = {p, o}
      /\ Len(slots) - Cardinality(LiveAt(slots)) = Cardinality(PlacesOf(P, p)) - Cardinality(Living(P, p))
  BY GroupSplitRead
<1>3. NewPages(k) \in Nat /\ setup.pages \in Nat
  BY <1>2 DEF NewPages, SoundSetup
<1> SUFFICES ASSUME NEW c, c = mem.count, NEW N, N = setup.pages
             PROVE  /\ ids \in Seq(1 .. N) /\ Len(ids) = k
                    /\ \A i \in 1 .. k : ids[i] = IF i = 1 THEN p ELSE IF i = 2 THEN o ELSE c + (i - 2)
                    /\ \A i, j \in 1 .. k : ids[i] = ids[j] => i = j
                    /\ \A i \in 1 .. k : ids[i] \in {p, o} \cup (c + 1 .. c + NewPages(k))
                    /\ \A a \in c + 1 .. c + NewPages(k) : \E i \in 1 .. k : ids[i] = a
  BY <1>2, <1>3 DEF IsHalved
<1>4. /\ N \in Nat /\ c \in Nat /\ k \in Nat /\ c + NewPages(k) <= N /\ p \in 1 .. c /\ o \in 1 .. c /\ p # o
      /\ ids = IdsOf(p, o, c, k)
  <2>1. mem.count + NewPages(k) < setup.pages /\ ids = IdsOf(p, o, mem.count, k)
    BY <1>1
  <2>2. mem.count \in Nat /\ k \in Nat /\ p \in 1 .. mem.count /\ o \in 1 .. mem.count /\ p # o
    BY <1>2
  <2> QED BY ONLY <1>3, <2>1, <2>2, c = mem.count, N = setup.pages
<1>5. AreIds(ids, N, c, k, p, o)
  BY ONLY <1>4 DEF AreIds
<1> QED BY ONLY <1>5, IdsAre

LEMMA SplitWritten ==
    ASSUME SoundSetup(setup), NEW P, NEW d, NEW g \in DOMAIN mem.main, NEW p, NEW o, NEW slots, NEW rows, NEW k, NEW ids,
           Sound(setup, P, mem), Halved(P, d, g, p, o, slots, rows, k, ids),
           NEW last, last = P[p].next, NEW b, b = mem.main[g - 1], NEW h, h = Halves(d, g),
           NEW todo, todo = [i \in 1 .. h.new |-> Allocate(mem.count + i)] \o h.stores \o h.unlink \o <<SaveMeta>>
    PROVE  /\ todo \in Seq(WritesIn(setup)) /\ EndsWithMeta(todo)
           /\ \E Q \in Images(setup) : Becomes(P, todo, Q) /\ SplitPages(Q, P, rows, ids, k, last, g, b)
<1>1. /\ Group(d, p) = <<p, o>> /\ rows \in Seq(SlotsIn(setup)) /\ Quotient(k, Len(rows), PerPage)
      /\ PerPage \in Nat /\ PerPage >= 1 /\ k \in Nat /\ NewPages(k) \in Nat /\ mem.count \in Nat
      /\ ids \in Seq(1 .. setup.pages) /\ Len(ids) = k /\ \A i, j \in 1 .. k : ids[i] = ids[j] => i = j
      /\ \A a \in mem.count + 1 .. mem.count + NewPages(k) : \E i \in 1 .. k : ids[i] = a
  <2>1. IsHalved(P, d, p, o, slots, rows, k, ids)
    BY ONLY SoundSetup(setup), g \in DOMAIN mem.main, Sound(setup, P, mem), Halved(P, d, g, p, o, slots, rows, k, ids), HalvedTypes
  <2> QED BY ONLY <2>1 DEF IsHalved
<1>2. /\ d.pages = P /\ p = mem.main[g] /\ slots = SlotsOf(d, Group(d, p)) /\ rows = LiveOf(slots)
      /\ k = (Len(rows) + PerPage - 1) \div PerPage /\ ids = IdsOf(p, o, mem.count, k)
      /\ mem.count + NewPages(k) < setup.pages
  BY DEF Halved
<1> DEFINE image == [i \in 1 .. k |-> HalfPage(rows, ids, k, last, i)]
           allocs == [i \in 1 .. NewPages(k) |-> Allocate(mem.count + i)]
           stores == [i \in 1 .. k |-> StorePage(ids[i], image[i])]
           unlinks == k = 0 /\ g # 1
           before == [P[b] EXCEPT !.next = last]
           unlink == IF unlinks THEN <<StorePage(b, before)>> ELSE <<>>
<1>3. h.new = NewPages(k) /\ h.stores = stores /\ h.unlink = unlink
  <2>1. /\ h.new = NewPages(k)
        /\ h.stores = [i \in 1 .. k |-> StorePage(ids[i], HalfPage(rows, ids, k, last, i))]
        /\ h.unlink = IF k > 0 \/ g = 1 THEN <<>> ELSE <<StorePage(b, [P[b] EXCEPT !.next = last])>>
    <3>1. AreHalves(Halves(d, g), P, g, slots, rows, k, ids, P[p].next, mem.main[g - 1])
      BY ONLY SoundSetup(setup), g \in DOMAIN mem.main, Sound(setup, P, mem), Halved(P, d, g, p, o, slots, rows, k, ids), HalvesAre
    <3>2. AreHalves(h, P, g, slots, rows, k, ids, last, b)
      BY <3>1
    <3> QED BY ONLY <3>2 DEF AreHalves
  <2>2. h.stores = stores
    BY <2>1
  <2>3. h.unlink = unlink
    <3>1. (k > 0 \/ g = 1) <=> ~unlinks
      BY <1>1
    <3> QED BY ONLY <1>2, <2>1, <3>1
  <2> QED BY ONLY <2>1, <2>2, <2>3
<1>4. P \in Images(setup) /\ setup.pages \in Nat /\ last \in 0 .. setup.pages /\ NoPage \in 0 .. setup.pages
      /\ (unlinks => b \in 1 .. setup.pages /\ before \in PagesIn(setup))
  <2>1. /\ P \in Images(setup) /\ setup.pages \in Nat /\ DOMAIN mem.main = 1 .. Len(mem.main) /\ Len(mem.main) \in Nat
        /\ \A x \in DOMAIN mem.main : mem.main[x] \in 1 .. setup.pages
    BY SoundTypes, ZenonT(30) DEF SoundSetup
  <2>2. last \in 0 .. setup.pages
    BY <1>2, <2>1, PageTypes
  <2>3. ASSUME unlinks PROVE b \in 1 .. setup.pages
    <3>1. g - 1 \in DOMAIN mem.main
      BY <2>1, <2>3, SMTT(30)
    <3> QED BY <2>1, <3>1
  <2>4. ASSUME NEW page \in PagesIn(setup) PROVE [page EXCEPT !.next = last] \in PagesIn(setup)
    BY ONLY <2>2, page \in PagesIn(setup) DEF PagesIn
  <2>5. ASSUME unlinks PROVE before \in PagesIn(setup)
    BY <2>1, <2>3, <2>4, <2>5 DEF Images
  <2>6. NoPage \in 0 .. setup.pages
    BY <2>1 DEF NoPage
  <2> QED BY <2>1, <2>2, <2>3, <2>5, <2>6
<1>5. \A i \in 1 .. k : image[i] = HalfPage(rows, ids, k, last, i) /\ image[i] \in PagesIn(setup)
  <2> SUFFICES ASSUME NEW i \in 1 .. k PROVE HalfPage(rows, ids, k, last, i) \in PagesIn(setup)
    OBVIOUS
  <2>1. Chunk(rows, i, PerPage) \in Seq(SlotsIn(setup))
    BY ONLY <1>1, i \in 1 .. k, ChunkAt
  <2>2. (IF i < k THEN ids[i + 1] ELSE last) \in 0 .. setup.pages
    <3>1. CASE i < k
      <4>1. i + 1 \in 1 .. k
        BY <1>1, <3>1
      <4>2. ids[i + 1] \in 1 .. setup.pages
        BY <1>1, <4>1, ElementOfSeq
      <4> QED BY <1>4, <3>1, <4>2
    <3>2. CASE ~(i < k)
      BY <1>4, <3>2
    <3> QED BY <3>1, <3>2
  <2> QED BY ONLY <1>4, <2>1, <2>2 DEF HalfPage, PagesIn
<1> HIDE DEF image, before
<1>6. /\ allocs \o stores \in Seq(WritesIn(setup))
      /\ \E Q \in Images(setup) : /\ Becomes(P, allocs \o stores, Q)
                                  /\ \A i \in 1 .. k : Q[ids[i]] = image[i]
                                  /\ \A q \in 1 .. setup.pages : (\A i \in 1 .. k : q # ids[i]) => Q[q] = P[q]
  <2> SUFFICES ASSUME NEW s, s = setup, NEW c, c = mem.count, NEW w, w = NewPages(k)
               PROVE  /\ allocs \o stores \in Seq(WritesIn(s))
                      /\ \E Q \in Images(s) : /\ Becomes(P, allocs \o stores, Q)
                                              /\ \A i \in 1 .. k : Q[ids[i]] = image[i]
                                              /\ \A q \in 1 .. s.pages : (\A i \in 1 .. k : q # ids[i]) => Q[q] = P[q]
    BY ZenonT(30)
  <2>1. /\ s.pages \in Nat /\ P \in Images(s) /\ c \in Nat /\ w \in Nat /\ c + w <= s.pages /\ k \in Nat
        /\ ids \in Seq(1 .. s.pages) /\ Len(ids) = k /\ \A i, j \in 1 .. k : ids[i] = ids[j] => i = j
        /\ \A a \in c + 1 .. c + w : \E i \in 1 .. k : ids[i] = a
        /\ \A i \in 1 .. k : image[i] \in PagesIn(s)
        /\ allocs = [i \in 1 .. w |-> Allocate(c + i)]
    <3>1. c + w <= s.pages
      <4>1. c + w < s.pages /\ c \in Nat /\ w \in Nat /\ s.pages \in Nat
        BY <1>1, <1>2, <1>4, ZenonT(30)
      <4> QED BY ONLY <4>1
    <3> QED BY <1>1, <1>4, <1>5, <3>1, ZenonT(60)
  <2>2. stores = [i \in 1 .. k |-> StorePage(ids[i], image[i])]
    OBVIOUS
  <2> HIDE DEF allocs, stores
  <2>3. WritesPages(s, P, c, w, k, ids, image, allocs, stores)
    BY ONLY <2>1, <2>2 DEF WritesPages
  <2> QED BY ONLY <2>3, PagesWritten
<1> HIDE DEF allocs, stores, unlink
<1>7. PICK A \in Images(setup) : /\ Becomes(P, allocs \o stores, A)
                                 /\ \A i \in 1 .. k : A[ids[i]] = image[i]
                                 /\ \A q \in 1 .. setup.pages : (\A i \in 1 .. k : q # ids[i]) => A[q] = P[q]
  BY <1>6
<1> DEFINE t == allocs \o stores
<1>8. todo = t \o unlink \o <<SaveMeta>>
  BY <1>3 DEF allocs
<1> HIDE DEF t
<1>9. /\ todo \in Seq(WritesIn(setup)) /\ EndsWithMeta(todo)
      /\ \E Q \in Images(setup) : /\ Becomes(P, todo, Q)
                                  /\ unlinks => Q[b] = before
                                  /\ \A q \in 1 .. setup.pages : (unlinks => q # b) => Q[q] = A[q]
  <2>1. t \in Seq(WritesIn(setup)) /\ Becomes(P, t, A)
    BY <1>6, <1>7 DEF t
  <2>2. unlink = (IF unlinks THEN <<StorePage(b, before)>> ELSE <<>>) /\ unlinks \in BOOLEAN
    BY DEF unlink
  <2> HIDE DEF unlinks
  <2>3. (unlinks => b \in 1 .. setup.pages /\ before \in PagesIn(setup)) /\ setup.pages \in Nat /\ A \in Images(setup)
    BY <1>4
  <2>4. EndsCall(setup, P, A, t, b, before, unlinks, unlink, todo)
    BY ONLY <1>8, <2>1, <2>2, <2>3 DEF EndsCall
  <2> QED BY ONLY <2>4, LastWritten
<1>10. PICK Q \in Images(setup) : /\ Becomes(P, todo, Q)
                                  /\ unlinks => Q[b] = before
                                  /\ \A q \in 1 .. setup.pages : (unlinks => q # b) => Q[q] = A[q]
  BY <1>9
<1>11. SplitPages(Q, P, rows, ids, k, last, g, b)
  <2>1. ASSUME NEW i \in 1 .. k PROVE Q[ids[i]] = HalfPage(rows, ids, k, last, i)
    <3>1. ids[i] \in 1 .. setup.pages
      BY <1>1, ElementOfSeq
    <3>2. ~unlinks
      BY <1>1
    <3> QED BY <1>5, <1>7, <1>10, <3>1, <3>2
  <2>2. unlinks => Q[b] = [P[b] EXCEPT !.next = last]
    BY <1>10 DEF before
  <2>3. ASSUME NEW q \in 1 .. setup.pages, \A i \in 1 .. k : q # ids[i], unlinks => q # b PROVE Q[q] = P[q]
    BY <1>7, <1>10, <2>3
  <2> QED BY <2>1, <2>2, <2>3 DEF SplitPages
<1> QED BY <1>9, <1>10, <1>11

(* The fields of the object after a split. *)
HalvedMemory(m, slots, rows, k, ids, firsts, g, last) ==
    /\ firsts = [i \in 1 .. k |-> Chunk(rows, i, PerPage)[1].key]
    /\ m.count = mem.count + NewPages(k) /\ m.head = (IF k = 0 /\ g = 1 THEN last ELSE mem.head)
    /\ m.deleted = mem.deleted - (Len(slots) - Cardinality(LiveAt(slots))) /\ m.live = mem.live
    /\ m.main = SplicedAt(mem.main, g, ids) /\ m.first = SplicedAt(mem.first, g, firsts)

LEMMA SplitIsSplit ==
    ASSUME SoundSetup(setup), NEW P, NEW d, NEW g \in DOMAIN mem.main, NEW p, NEW o, NEW slots, NEW rows, NEW k, NEW ids,
           Sound(setup, P, mem), Halved(P, d, g, p, o, slots, rows, k, ids), NEW Q \in Images(setup), NEW last, last = P[p].next,
           NEW b, b = mem.main[g - 1], SplitPages(Q, P, rows, ids, k, last, g, b),
           NEW m, NEW firsts, HalvedMemory(m, slots, rows, k, ids, firsts, g, last)
    PROVE  SplitsGroup(setup, P, mem, Q, m, g, ids, firsts, rows, PerPage)
<1>1. IsHalved(P, d, p, o, slots, rows, k, ids)
  BY ONLY SoundSetup(setup), g \in DOMAIN mem.main, Sound(setup, P, mem), Halved(P, d, g, p, o, slots, rows, k, ids), HalvedTypes
<1>2. /\ Sorts(rows, GroupSlots(P, p)) /\ rows \in Seq(SlotsIn(setup)) /\ Len(rows) \in Nat
      /\ k \in Nat /\ Quotient(k, Len(rows), PerPage) /\ PerPage \in Nat /\ PerPage >= 1 /\ PerPage <= setup.slots
      /\ mem.count \in Nat /\ NewPages(k) \in Nat /\ ids \in Seq(1 .. setup.pages) /\ Len(ids) = k
  BY ONLY <1>1 DEF IsHalved
<1>3. p = mem.main[g] /\ mem.count + NewPages(k) < setup.pages
  BY DEF Halved
<1>4. PagesOf(P, p) = {p, o}
  BY ONLY <1>1 DEF IsHalved
<1>5. Len(slots) - Cardinality(LiveAt(slots)) = Cardinality(PlacesOf(P, p)) - Cardinality(Living(P, p))
  BY ONLY <1>1 DEF IsHalved
<1>6. \A i \in 1 .. k : i = 1 => ids[i] = p
  BY ONLY <1>1 DEF IsHalved
<1>7. \A i, j \in 1 .. k : ids[i] = ids[j] => i = j
  BY ONLY <1>1 DEF IsHalved
<1>8. m.count \in mem.count .. setup.pages /\ setup.pages \in Nat
  BY <1>2, <1>3 DEF HalvedMemory, SoundSetup
<1>9. \A i \in 1 .. k : ids[i] \in PagesOf(P, p) \cup (mem.count + 1 .. m.count)
  <2>1. \A i \in 1 .. k : ids[i] \in {p, o} \cup (mem.count + 1 .. mem.count + NewPages(k))
    BY ONLY <1>1 DEF IsHalved
  <2> QED BY <1>4, <2>1 DEF HalvedMemory
<1>10. \A i \in 1 .. k : Q[ids[i]] = HalfPage(rows, ids, k, last, i)
  BY DEF SplitPages
<1>11. \A i \in 1 .. k : /\ Q[ids[i]].slots = Chunk(rows, i, PerPage) /\ Q[ids[i]].overflow = NoPage
                         /\ Q[ids[i]].next = IF i < k THEN ids[i + 1] ELSE last
  <2> SUFFICES ASSUME NEW i \in 1 .. k, NEW page, page = Q[ids[i]], NEW c, c = Chunk(rows, i, PerPage),
                      NEW next, next = (IF i < k THEN ids[i + 1] ELSE last)
               PROVE  page.slots = c /\ page.overflow = NoPage /\ page.next = next
    OBVIOUS
  <2>1. page = [slots |-> c, overflow |-> NoPage, next |-> next]
    BY <1>10 DEF HalfPage
  <2> QED BY ONLY <2>1
<1>12. IsChunked(setup, Q, ids, rows, PerPage)
  <2>1. \A i, j \in 1 .. Len(rows) : i < j => rows[i].key < rows[j].key
    BY ONLY <1>2 DEF Sorts
  <2>2. \A i \in 1 .. Len(rows) : rows[i].live
    <3>1. \A i \in 1 .. Len(rows) : rows[i] \in GroupSlots(P, p)
      BY ONLY <1>2, ElementOfSeq DEF Sorts
    <3> QED BY <3>1 DEF GroupSlots, Living
  <2> QED BY ONLY <1>2, <1>7, <1>11, <2>1, <2>2 DEF IsChunked
<1>13. /\ Len(mem.main) \in Nat /\ DOMAIN mem.main = 1 .. Len(mem.main) /\ mem.main \in Seq(1 .. setup.pages)
       /\ Directory(P, mem) /\ P \in Images(setup) /\ Chained(setup, P, mem.main, mem.head, mem.count)
  BY SoundTypes, ZenonT(30) DEF Sound, Chained
<1>14. \A h \in DOMAIN mem.main : FirstOf(P, mem.main[h]) \in Int
  <2>1. setup.keys \subseteq Int
    BY DEF SoundSetup
  <2> QED BY <1>8, <1>13, <2>1, ChainTypes
<1>15. mem.first \in Seq(Int) /\ Len(mem.first) = Len(mem.main)
  <2> SUFFICES ASSUME NEW n \in Nat, NEW f, f = [h \in 1 .. n |-> FirstOf(P, mem.main[h])],
                      \A h \in 1 .. n : FirstOf(P, mem.main[h]) \in Int
               PROVE  f \in Seq(Int) /\ Len(f) = n
    BY <1>13, <1>14 DEF Directory
  <2>1. f \in [1 .. n -> Int]
    OBVIOUS
  <2> QED BY <2>1
<1>16. \A i \in 1 .. k : /\ Chunk(rows, i, PerPage)[1].key = FirstOf(Q, ids[i]) /\ Chunk(rows, i, PerPage)[1].key \in Int
  <2> SUFFICES ASSUME NEW i \in 1 .. k PROVE Chunk(rows, i, PerPage)[1].key = FirstOf(Q, ids[i]) /\ Chunk(rows, i, PerPage)[1].key \in Int
    OBVIOUS
  <2>1. Chunk(rows, i, PerPage) \in Seq(SlotsIn(setup)) /\ Len(Chunk(rows, i, PerPage)) \in 1 .. PerPage
    BY ONLY <1>2, i \in 1 .. k, ChunkAt
  <2>2. Chunk(rows, i, PerPage)[1] \in SlotsIn(setup)
    <3> SUFFICES ASSUME NEW c, c = Chunk(rows, i, PerPage) PROVE c[1] \in SlotsIn(setup)
      OBVIOUS
    <3>1. 1 \in 1 .. Len(c)
      BY <1>2, <2>1
    <3> QED BY <2>1, <3>1, ElementOfSeq
  <2>3. \A x \in SlotsIn(setup) : x.key \in Int
    BY DEF SlotsIn, SoundSetup
  <2> QED BY <1>11, <2>2, <2>3 DEF FirstOf
<1>17. firsts \in Seq(Int) /\ Len(firsts) = k /\ \A i \in 1 .. k : firsts[i] = FirstOf(Q, ids[i])
  <2> SUFFICES ASSUME NEW f, f = [i \in 1 .. k |-> Chunk(rows, i, PerPage)[1].key]
               PROVE  f \in Seq(Int) /\ Len(f) = k /\ \A i \in 1 .. k : f[i] = FirstOf(Q, ids[i])
    BY DEF HalvedMemory
  <2>1. f \in [1 .. k -> Int]
    BY <1>16
  <2>2. \A i \in 1 .. k : f[i] = FirstOf(Q, ids[i])
    BY <1>16
  <2>3. ASSUME NEW n \in Nat, NEW x \in [1 .. n -> Int] PROVE x \in Seq(Int) /\ Len(x) = n
    OBVIOUS
  <2>4. f \in Seq(Int) /\ Len(f) = k
    BY ONLY <1>2, <2>1, <2>3
  <2> QED BY ONLY <2>2, <2>4
<1>18. FirstsOf(Q, ids, firsts)
  BY <1>2, <1>17 DEF FirstsOf
<1>19. IsSpliced(m.main, 1 .. setup.pages, mem.main, g, 1, ids)
  <2> SUFFICES ASSUME NEW T, T = 1 .. setup.pages, NEW old, old = mem.main, NEW new, new = SplicedAt(old, g, ids)
               PROVE  IsSpliced(new, T, old, g, 1, ids)
    BY DEF HalvedMemory
  <2>1. old \in Seq(T) /\ g \in 1 .. Len(old) /\ ids \in Seq(T)
    BY <1>2, <1>13
  <2> QED BY ONLY <2>1, new = SplicedAt(old, g, ids), SplicedIsSpliced
<1>20. IsSpliced(m.first, Int, mem.first, g, 1, firsts)
  <2> SUFFICES ASSUME NEW T, T = Int, NEW old, old = mem.first, NEW new, new = SplicedAt(old, g, firsts)
               PROVE  IsSpliced(new, T, old, g, 1, firsts)
    BY DEF HalvedMemory
  <2>1. old \in Seq(T) /\ g \in 1 .. Len(old) /\ firsts \in Seq(T)
    BY <1>13, <1>15, <1>17
  <2> QED BY ONLY <2>1, new = SplicedAt(old, g, firsts), SplicedIsSpliced
<1>21. ASSUME k = 0 /\ g # 1 PROVE Q[b].slots = P[b].slots /\ Q[b].overflow = P[b].overflow /\ Q[b].next = last
  <2>1. Q[b] = [P[b] EXCEPT !.next = last]
    BY <1>21 DEF SplitPages
  <2>2. g - 1 \in DOMAIN mem.main
    BY <1>13, <1>21
  <2>3. b \in 1 .. setup.pages
    BY <2>2, SoundTypes
  <2>4. P[b] \in PagesIn(setup)
    BY <1>13, <2>3 DEF Images
  <2>5. ASSUME NEW page \in PagesIn(setup), NEW now, now = [page EXCEPT !.next = last]
        PROVE  now.slots = page.slots /\ now.overflow = page.overflow /\ now.next = last
    BY ONLY page \in PagesIn(setup), now = [page EXCEPT !.next = last] DEF PagesIn
  <2> QED BY ONLY <2>1, <2>4, <2>5
<1>22. \A q \in 1 .. setup.pages : (\A i \in 1 .. k : q # ids[i]) /\ (k = 0 /\ g # 1 => q # b) => Q[q] = P[q]
  BY DEF SplitPages
<1>23. /\ m.head = (IF k = 0 /\ g = 1 THEN last ELSE mem.head) /\ m.live = mem.live
       /\ m.deleted = mem.deleted - (Cardinality(PlacesOf(P, p)) - Cardinality(Living(P, p)))
  BY <1>5 DEF HalvedMemory
<1>24. k # 0 => ids[1] = p
  BY <1>2, <1>6
<1>25. Q \in Images(setup) /\ g \in DOMAIN mem.main /\ last = P[p].next /\ b = mem.main[g - 1]
  OBVIOUS
<1> QED BY ONLY <1>2, <1>3, <1>8, <1>9, <1>11, <1>12, <1>18, <1>19, <1>20, <1>21, <1>22, <1>23, <1>24, <1>25 DEF SplitsGroup

LEMMA SplitGroupKeeps ==
    ASSUME SetupsAreSound, SeqInv, NEW r \in SetupRows, SplitGroup(r)
    PROVE  SeqInv'
<1> SUFFICES ASSUME NEW P, NEW g, NEW p, NEW e, Incoming(r, P, g, p, e), NEW d, d = Flushed,
                    NEW o, o = P[p].overflow, NEW slots, slots = SlotsOf(d, Group(d, p)), NEW rows, rows = LiveOf(slots),
                    NEW k, k = (Len(rows) + PerPage - 1) \div PerPage, NEW ids, ids = IdsOf(p, o, mem.count, k),
                    NEW last, last = P[p].next, NEW b, b = mem.main[g - 1], NEW h, h = Halves(d, g),
                    NEW firsts, firsts = h.first
             PROVE  SeqInv'
  BY DEF Incoming
<1>1. /\ IsFull(r) /\ ~GoesLast(r) /\ MayInsert(r) /\ mem.main # <<>> /\ g = GroupOf(r.key) /\ p = mem.main[g]
  BY Zenon DEF SplitGroup, IsFull, Incoming
<1>2. /\ up /\ work.todo = <<>> /\ SoundSetup(setup) /\ Sound(setup, P, mem) /\ P \in Images(setup)
      /\ Flushed.pages = P /\ P = disk.pages /\ IsMemory(mem) /\ work.next # "rename"
      /\ DOMAIN mem.main = 1 .. Len(mem.main) /\ g \in 1 .. Len(mem.main) /\ r.key \in Int
      /\ NewRow(setup, P, mem, g, e) /\ e.key = r.key
  BY <1>1, IncomingRow
<1>3. o # NoPage /\ mem.count + h.new < setup.pages
  BY <1>1, <1>2, Zenon DEF SplitGroup
<1>4. Group(d, p) = <<p, o>>
  <2>1. p \in 1 .. setup.pages /\ Sane(setup, P, p) /\ setup.pages \in Nat
    BY <1>1, <1>2, SoundTypes, ZenonT(30) DEF SoundSetup
  <2>2. d.pages = P
    BY <1>2
  <2> QED BY <1>2, <1>3, <2>1, <2>2, GroupRead, ZenonT(30) DEF Sane
<1>5. h.new = NewPages(k)
  <2>1. Len(Group(d, p)) = 2
    BY <1>4
  <2> QED BY <1>1, <2>1, Zenon DEF Halves, NewPages
<1>6. Halved(P, d, g, p, o, slots, rows, k, ids)
  <2>1. mem.count + NewPages(k) < setup.pages
    BY <1>3, <1>5
  <2> QED BY <1>1, <1>2, <1>3, <2>1 DEF Halved
<1>7. AreHalves(h, P, g, slots, rows, k, ids, last, b)
  <2>1. AreHalves(Halves(d, g), P, g, slots, rows, k, ids, P[p].next, mem.main[g - 1])
    BY <1>2, <1>6, HalvesAre
  <2> QED BY <2>1
<1>8. IsHalved(P, d, p, o, slots, rows, k, ids)
  BY <1>2, <1>6, HalvedTypes
<1> SUFFICES ASSUME NEW m, m = [mem EXCEPT !.count = mem.count + h.new, !.head = h.head, !.deleted = mem.deleted - h.dropped,
                                           !.main = SplicedAt(mem.main, g, h.ids), !.first = SplicedAt(mem.first, g, h.first)],
                    NEW todo, todo = [i \in 1 .. h.new |-> Allocate(mem.count + i)] \o h.stores \o h.unlink \o <<SaveMeta>>,
                    NEW dropped, NEW next, NoMore(next),
                    mem' = m, work' = [todo |-> todo, dropped |-> dropped, retry |-> <<r>>, next |-> next],
                    disk' = Flushed, buffer' = Nothing, setup' = setup, up' = up
             PROVE  SeqInv'
  BY <1>1, Zenon DEF SplitGroup, SplicedAt, NoMore
<1>9. /\ IsMemory(m) /\ m.count = mem.count + h.new /\ m.head = h.head /\ m.deleted = mem.deleted - h.dropped /\ m.live = mem.live
      /\ m.main = SplicedAt(mem.main, g, h.ids) /\ m.first = SplicedAt(mem.first, g, h.first)
  BY <1>2 DEF IsMemory
<1>10. HalvedMemory(m, slots, rows, k, ids, firsts, g, last)
  BY <1>7, <1>9, Zenon DEF AreHalves, HalvedMemory
<1>11. /\ todo \in Seq(WritesIn(setup)) /\ EndsWithMeta(todo)
       /\ \E Q \in Images(setup) : Becomes(P, todo, Q) /\ SplitPages(Q, P, rows, ids, k, last, g, b)
  <2>1. SoundSetup(setup) /\ g \in DOMAIN mem.main /\ Sound(setup, P, mem)
    BY <1>2
  <2> QED BY ONLY <1>6, <2>1, last = P[p].next, b = mem.main[g - 1], h = Halves(d, g),
                  todo = [i \in 1 .. h.new |-> Allocate(mem.count + i)] \o h.stores \o h.unlink \o <<SaveMeta>>, SplitWritten
<1>12. PICK Q \in Images(setup) : Becomes(P, todo, Q) /\ SplitPages(Q, P, rows, ids, k, last, g, b)
  BY <1>11
<1>13. SplitsGroup(setup, P, mem, Q, m, g, ids, firsts, rows, PerPage)
  <2>1. SoundSetup(setup) /\ g \in DOMAIN mem.main /\ Sound(setup, P, mem)
    BY <1>2, ZenonT(30)
  <2> QED BY ONLY <1>6, <1>10, <1>12, <2>1, last = P[p].next, b = mem.main[g - 1], Q \in Images(setup), SplitIsSplit, SMTT(30)
<1>14. Sound(setup, Q, m)
  <2>1. SoundSetup(setup) /\ Sound(setup, P, mem)
    BY <1>2, Zenon
  <2> QED BY ONLY <1>13, <2>1, GroupSplit, ZenonT(30)
<1>15. LastBounded(P, mem.main)
  BY <1>1, <1>2, RowIsInside, Zenon
<1>16. g # 1 => FirstOf(P, mem.main[g]) <= r.key
  BY <1>2, SMTT(30) DEF NewRow, Belongs
<1>17. LastFits(Q, m, <<r>>)
  <2>1. SoundSetup(setup) /\ Sound(setup, P, mem) /\ r.key \in Int
    BY <1>2, Zenon
  <2> QED BY ONLY <1>13, <1>15, <1>16, <2>1, SplitKeepsLast, ZenonT(30)
<1>18. Good(setup, Q, m, <<r>>)
  BY <1>14, <1>17, ZenonT(30) DEF Good
<1>19. /\ up /\ work.todo = <<>> /\ work.next # "rename" /\ IsMemory(m) /\ todo \in Seq(WritesIn(setup))
       /\ Becomes(disk.pages, todo, Q) /\ EndsWithMeta(todo)
  BY <1>2, <1>9, <1>11, <1>12
<1>20. /\ mem' = m /\ work' = [todo |-> todo, dropped |-> dropped, retry |-> <<r>>, next |-> next]
       /\ disk' = Flushed /\ buffer' = Nothing /\ setup' = setup /\ up' = up
  OBVIOUS
<1> QED BY ONLY <1>18, <1>19, <1>20, SetupsAreSound, SeqInv, r \in SetupRows, NoMore(next), SplitStarts

-----------------------------------------------------------------------------
(* The invariant of the file. *)
LEMMA InitIsSound ==
    ASSUME SetupsAreSound, SeqInit
    PROVE  SeqInv
<1>1. /\ setup \in Setups /\ disk = NewFile /\ mem = NoMemory /\ buffer = [kind |-> "meta", meta |-> Meta(NoMemory)]
      /\ work = NoWork /\ up
  BY DEF SeqInit
<1>2. SoundSetup(setup)
  BY <1>1 DEF SetupsAreSound
<1>3. setup.pages \in Nat
  BY <1>2 DEF SoundSetup
<1>4. NewFile.exists /\ NewFile.pages = Empty(setup) /\ DOMAIN NewFile = {"exists", "pages", "count", "meta"}
  BY DEF NewFile, NoFile, Empty
<1>5. /\ NoMemory.main = <<>> /\ NoMemory.first = <<>> /\ NoMemory.head = NoPage /\ NoMemory.count = 0
      /\ NoMemory.live = 0 /\ NoMemory.deleted = 0
      /\ DOMAIN NoMemory = {"count", "live", "deleted", "head", "main", "first"}
  BY DEF NoMemory
<1>6. IsFile(setup, disk) /\ disk.exists
  BY <1>1, <1>3, <1>4, BlankIsPage DEF IsFile
<1>7. IsMemory(mem)
  BY <1>1, <1>5 DEF IsMemory
<1>8. Good(setup, disk.pages, mem, <<>>)
  <2>1. 0 \in 0 .. setup.pages
    BY <1>3
  <2>2. Sound(setup, disk.pages, mem)
    BY <1>1, <1>2, <1>3, <1>4, <1>5, <2>1, BlankIsPage, EmptyIsSound
  <2> QED BY <1>1, <1>5, <2>2 DEF Good, LastFits
<1>9. Flushed.meta = Meta(mem)
  <2>1. buffer.kind = "meta" /\ buffer.meta = Meta(NoMemory)
    BY <1>1
  <2> QED BY <1>1, <1>6, <2>1, FlushedFields
<1>10. /\ work.todo = <<>> /\ work.retry = <<>> /\ work.next = "" /\ DOMAIN work = {"todo", "dropped", "retry", "next"}
  BY <1>1, NoCallFields
<1>11. CallIsSound
  <2>1. <<>> \in Seq(WritesIn(setup))
    BY EmptySeq
  <2> QED BY <1>10, <2>1 DEF CallIsSound
<1>12. Becomes(disk.pages, work.todo, disk.pages)
  BY <1>10, BecomesItself
<1>13. Working
  BY <1>6, <1>8, <1>9, <1>10, <1>11, <1>12 DEF Working, MetaWillBeSaved
<1> QED BY <1>1, <1>6, <1>7, <1>13 DEF SeqInv

LEMMA StepKeeps ==
    ASSUME SetupsAreSound, Risks = {}, SeqInv, SeqNext
    PROVE  SeqInv'
<1>1. \/ \E r \in SetupRows : \/ InsertFirst(r) \/ InsertInPage(r) \/ InsertAtEnd(r)
                         \/ InsertInOverflow(r) \/ InsertInNewOverflow(r) \/ SplitGroup(r)
                         \/ Update(r)
      \/ \E k \in setup.keys : RemoveByMark(k)
      \/ Write
      \/ Reorganize \/ Rewrite \/ RewriteFails \/ RemoveOld \/ RenameNew
      \/ Flush \/ Close \/ Closed \/ Crash \/ Open
  BY DEF SeqNext
<1>2. CASE \E r \in SetupRows : \/ InsertFirst(r) \/ InsertInPage(r) \/ InsertAtEnd(r)
                           \/ InsertInOverflow(r) \/ InsertInNewOverflow(r) \/ SplitGroup(r) \/ Update(r)
  <2>1. PICK r \in SetupRows : \/ InsertFirst(r) \/ InsertInPage(r) \/ InsertAtEnd(r)
                          \/ InsertInOverflow(r) \/ InsertInNewOverflow(r) \/ SplitGroup(r) \/ Update(r)
    BY <1>2
  <2>2. CASE InsertFirst(r)
    BY <2>2, InsertFirstKeeps
  <2>3. CASE InsertInPage(r)
    BY <2>3, InsertInPageKeeps
  <2>4. CASE InsertAtEnd(r)
    BY <2>4, InsertAtEndKeeps
  <2>5. CASE InsertInOverflow(r)
    BY <2>5, InsertInOverflowKeeps
  <2>6. CASE InsertInNewOverflow(r)
    BY <2>6, InsertInNewOverflowKeeps
  <2>7. CASE SplitGroup(r)
    BY <2>7, SplitGroupKeeps
  <2>8. CASE Update(r)
    BY <2>8, UpdateKeeps
  <2> QED BY <2>1, <2>2, <2>3, <2>4, <2>5, <2>6, <2>7, <2>8
<1>3. CASE \E k \in setup.keys : RemoveByMark(k)
  BY <1>3, RemoveRowKeeps
<1>4. CASE Write
  BY <1>4, WriteKeeps
<1>5. CASE Reorganize
  BY <1>5, ReorganizeKeeps
<1>6. CASE Rewrite
  BY <1>6, RewriteKeeps
<1>7. CASE RewriteFails
  BY <1>7, RewriteFailsKeeps
<1>8. CASE RemoveOld
  BY <1>8, RemoveOldKeeps
<1>9. CASE RenameNew
  BY <1>9, RenameNewKeeps
<1>10. CASE Flush
  BY <1>10, FlushKeeps
<1>11. CASE Close
  BY <1>11, CloseKeeps
<1>12. CASE Closed
  BY <1>12, ClosedKeeps
<1>13. CASE Crash
  BY <1>13 DEF Crash
<1>14. CASE Open
  BY <1>14, OpenKeeps
<1> QED BY <1>1, <1>2, <1>3, <1>4, <1>5, <1>6, <1>7, <1>8, <1>9, <1>10, <1>11, <1>12, <1>13, <1>14

(* Whatever is inserted, removed, updated, split and written again, and whether a rewrite fails, the writes
   that a call has left lead to a chain of groups in key order with right counters, and a closed file is
   one (sequential_file.cpp). *)
THEOREM FileIsSound ==
    SetupsAreSound /\ Risks = {} /\ SeqSpec => []SeqInv
<1> SUFFICES ASSUME SetupsAreSound, Risks = {} PROVE SeqSpec => []SeqInv
  OBVIOUS
<1>1. SeqInit => SeqInv
  BY InitIsSound
<1>2. SeqInv /\ [SeqNext]_seqVars => SeqInv'
  <2> SUFFICES ASSUME SeqInv, [SeqNext]_seqVars PROVE SeqInv'
    OBVIOUS
  <2>1. CASE SeqNext
    BY <2>1, StepKeeps
  <2>2. CASE UNCHANGED seqVars
    <3>1. /\ disk' = disk /\ fresh' = fresh /\ buffer' = buffer /\ mem' = mem /\ work' = work /\ up' = up
          /\ setup' = setup
      BY <2>2 DEF seqVars
    <3>2. Flushed' = Flushed /\ SetupRows' = SetupRows
      BY <3>1 DEF Flushed, SetupRows
    <3>3. CallIsSound' <=> CallIsSound
      BY <3>1, <3>2 DEF CallIsSound
    <3>4. MetaWillBeSaved' <=> MetaWillBeSaved
      BY <3>1, <3>2 DEF MetaWillBeSaved
    <3>5. Working' <=> Working
      BY <3>1, <3>2, <3>3, <3>4 DEF Working
    <3>6. Resting' <=> Resting
      BY <3>1 DEF Resting
    <3> QED BY <3>1, <3>5, <3>6 DEF SeqInv
  <2> QED BY <2>1, <2>2
<1> QED BY <1>1, <1>2, PTL DEF SeqSpec

-----------------------------------------------------------------------------
(* What the calls rely on and promise, between two of them.                   *)
LEMMA AtRest ==
    ASSUME SetupsAreSound, SeqInv, Idle
    PROVE  /\ SoundSetup(setup) /\ Sound(setup, Flushed.pages, mem)
           /\ Flushed.meta = Meta(mem) /\ IsFile(setup, Flushed)
<1>1. up /\ work.todo = <<>> /\ work.next = ""
  BY NoCallFields DEF Idle
<1> QED BY <1>1, Quiet DEF Good

LEMMA OverflowBelowNext ==
    ASSUME SetupsAreSound, SeqInv
    PROVE  OverflowWithinGroup
<1> SUFFICES ASSUME Idle, NEW g \in 2 .. Len(mem.main),
                    NEW slot \in ToSet(SlotsOf(Flushed, Overflow(Flushed, mem.main[g - 1])))
             PROVE  slot.key < mem.first[g]
  BY DEF OverflowWithinGroup
<1> DEFINE P == Flushed.pages
           main == mem.main
           p == main[g - 1]
           o == P[p].overflow
<1>1. /\ SoundSetup(setup) /\ Sound(setup, P, mem) /\ P \in Images(setup) /\ setup.pages \in Nat
      /\ setup.keys \subseteq Int
  BY AtRest DEF IsFile, SoundSetup
<1>2. /\ Chained(setup, P, main, mem.head, mem.count) /\ Directory(P, mem)
      /\ Len(main) \in Nat /\ DOMAIN main = 1 .. Len(main)
      /\ \A h \in DOMAIN main : main[h] \in 1 .. setup.pages /\ Sane(setup, P, main[h])
  BY <1>1, SoundTypes
<1>3. g - 1 \in DOMAIN main /\ g \in DOMAIN main /\ g - 1 < g
  BY <1>2
<1>4. p \in 1 .. setup.pages /\ Sane(setup, P, p)
  BY <1>2, <1>3
<1>5. /\ o = NoPage => SlotsOf(Flushed, Overflow(Flushed, p)) = <<>>
      /\ o # NoPage => SlotsOf(Flushed, Overflow(Flushed, p)) = P[o].slots
  BY <1>1, <1>4, GroupRead, ZenonT(30) DEF Sane
<1>6. o # NoPage /\ slot \in ToSet(P[o].slots)
  <2>1. ToSet(<<>>) = {}
    BY ONLY DEF ToSet
  <2>2. slot \in ToSet(SlotsOf(Flushed, Overflow(Flushed, p)))
    OBVIOUS
  <2> HIDE DEF P, p, o
  <2> QED BY ONLY <1>5, <2>1, <2>2, Zenon
<1>7. PICK i \in DOMAIN P[o].slots : slot = P[o].slots[i]
  BY <1>6, Zenon DEF ToSet
<1>8. <<o, i>> \in PlacesOf(P, p)
  BY <1>6, <1>7, ZenonT(30) DEF PlacesOf, PagesOf
<1>9. SlotAt(P, <<o, i>>) = slot
  BY <1>7, ZenonT(30) DEF SlotAt
<1>10. slot.key \in KeysOf(P, p)
  BY <1>8, <1>9, SMTT(30) DEF KeysOf
<1>11. \A k \in KeysOf(P, p) : k < FirstOf(P, main[g])
  BY <1>2, <1>3 DEF Chained
<1>12. mem.first[g] = FirstOf(P, main[g])
  BY <1>2, <1>3 DEF Directory
<1> QED BY <1>10, <1>11, <1>12

(* sequential_file.cpp:611-612, where a row goes to the overflow page of its group: the keys of an
   overflow page, live or marked, come before the first key of the next group. *)
THEOREM OverflowIsWithinGroup ==
    SetupsAreSound /\ Risks = {} /\ SeqSpec => []OverflowWithinGroup
<1> SUFFICES ASSUME SetupsAreSound, Risks = {} PROVE SeqSpec => []OverflowWithinGroup
  OBVIOUS
<1>1. SeqSpec => []SeqInv
  BY FileIsSound
<1>2. SeqInv => OverflowWithinGroup
  BY OverflowBelowNext
<1> QED BY <1>1, <1>2, PTL

LEMMA OneToOne ==
    ASSUME NEW A, NEW B, IsFiniteSet(B), NEW f \in [A -> B], \A x, y \in A : f[x] = f[y] => x = y
    PROVE  /\ IsFiniteSet(A) /\ Cardinality(A) <= Cardinality(B)
           /\ (\A b \in B : \E x \in A : f[x] = b) => Cardinality(A) = Cardinality(B)
<1>1. f \in Injection(A, B)
  BY DEF Injection, IsInjective
<1>2. (\A b \in B : \E x \in A : f[x] = b) => f \in Surjection(A, B)
  BY DEF Surjection
<1> QED BY <1>1, <1>2, FS_Injection

(* The pages that build_directory reads, with the group of each: each page of a group once. *)
VisitsOf(d, main) ==
    UNION {LET group == Group(d, main[i]) IN {<<i, j, group[j]>> : j \in DOMAIN group} : i \in DOMAIN main}
ReadIn(d, visits) == UNION {{<<v, k>> : k \in DOMAIN d.pages[v[3]].slots} : v \in visits}

LEMMA GroupPages ==
    ASSUME SoundSetup(setup), NEW d, d.pages \in Images(setup), NEW p, Sane(setup, d.pages, p)
    PROVE  LET group == Group(d, p)
           IN  /\ \A j \in DOMAIN group : group[j] \in PagesOf(d.pages, p)
               /\ \A q \in PagesOf(d.pages, p) : \E j \in DOMAIN group : group[j] = q
               /\ \A i, j \in DOMAIN group : group[i] = group[j] => i = j
<1> DEFINE o == d.pages[p].overflow
<1>1. /\ p \in 1 .. setup.pages /\ setup.pages \in Nat
      /\ o # NoPage => o # p /\ d.pages[o].next = NoPage
  BY DEF Sane, SoundSetup
<1>2. CASE o = NoPage
  <2>1. Group(d, p) = <<p>> /\ PagesOf(d.pages, p) = {p}
    BY <1>1, <1>2, GroupRead DEF PagesOf
  <2>2. DOMAIN <<p>> = {1} /\ <<p>>[1] = p
    OBVIOUS
  <2> QED BY <2>1, <2>2
<1>3. CASE o # NoPage
  <2>1. Group(d, p) = <<p, o>> /\ PagesOf(d.pages, p) = {p, o}
    BY <1>1, <1>3, GroupRead DEF PagesOf
  <2>2. DOMAIN <<p, o>> = {1, 2} /\ <<p, o>>[1] = p /\ <<p, o>>[2] = o
    BY SMTT(30)
  <2> QED BY <1>1, <1>3, <2>1, <2>2
<1> QED BY <1>2, <1>3

VisitsThem(P, main, visits) ==
    /\ \A v \in visits : v[1] \in DOMAIN main /\ v[3] \in PagesOf(P, main[v[1]])
    /\ \A g \in DOMAIN main : \A q \in PagesOf(P, main[g]) : \E v \in visits : v[3] = q
    /\ \A v, w \in visits : v[3] = w[3] => v = w

LEMMA VisitsOnce ==
    ASSUME SoundSetup(setup), NEW d, NEW P, d.pages = P, P \in Images(setup),
           NEW main, NEW head, NEW count, Chained(setup, P, main, head, count)
    PROVE  VisitsThem(P, main, VisitsOf(d, main))
<1> DEFINE V == VisitsOf(d, main)
           G(i) == Group(d, main[i])
<1>1. \A g \in DOMAIN main :
         /\ \A j \in DOMAIN G(g) : G(g)[j] \in PagesOf(P, main[g])
         /\ \A q \in PagesOf(P, main[g]) : \E j \in DOMAIN G(g) : G(g)[j] = q
         /\ \A i, j \in DOMAIN G(g) : G(g)[i] = G(g)[j] => i = j
  <2> SUFFICES ASSUME NEW g \in DOMAIN main
               PROVE  /\ \A j \in DOMAIN G(g) : G(g)[j] \in PagesOf(P, main[g])
                      /\ \A q \in PagesOf(P, main[g]) : \E j \in DOMAIN G(g) : G(g)[j] = q
                      /\ \A i, j \in DOMAIN G(g) : G(g)[i] = G(g)[j] => i = j
    OBVIOUS
  <2>1. Sane(setup, P, main[g])
    BY DEF Chained
  <2> QED BY <2>1, GroupPages
<1> HIDE DEF G
<1>2. V = UNION {{<<i, j, G(i)[j]>> : j \in DOMAIN G(i)} : i \in DOMAIN main}
  BY DEF VisitsOf, G
<1>3. \A v \in V : /\ v[1] \in DOMAIN main /\ v[2] \in DOMAIN G(v[1]) /\ v[3] = G(v[1])[v[2]]
                   /\ v = <<v[1], v[2], v[3]>>
  <2> SUFFICES ASSUME NEW i \in DOMAIN main, NEW j \in DOMAIN G(i), NEW v, v = <<i, j, G(i)[j]>>
               PROVE  /\ v[1] \in DOMAIN main /\ v[2] \in DOMAIN G(v[1]) /\ v[3] = G(v[1])[v[2]]
                      /\ v = <<v[1], v[2], v[3]>>
    BY <1>2
  <2>1. v[1] = i /\ v[2] = j /\ v[3] = G(i)[j]
    OBVIOUS
  <2> QED BY <2>1
<1>4. \A i \in DOMAIN main : \A j \in DOMAIN G(i) : <<i, j, G(i)[j]>> \in V
  BY <1>2
<1> HIDE DEF V
<1>5. \A v \in V : v[3] \in PagesOf(P, main[v[1]])
  BY <1>1, <1>3
<1>6. ASSUME NEW g \in DOMAIN main, NEW q \in PagesOf(P, main[g]) PROVE \E v \in V : v[3] = q
  <2>1. PICK j \in DOMAIN G(g) : G(g)[j] = q
    BY <1>1
  <2>2. <<g, j, q>> \in V /\ <<g, j, q>>[3] = q
    BY <1>4, <2>1
  <2> QED BY <2>2
<1>7. ASSUME NEW v \in V, NEW w \in V, v[3] = w[3] PROVE v = w
  <2>1. v[1] = w[1]
    <3>1. v[3] \in PagesOf(P, main[v[1]]) \cap PagesOf(P, main[w[1]])
      BY <1>5, <1>7
    <3>2. v[1] # w[1] => PagesOf(P, main[v[1]]) \cap PagesOf(P, main[w[1]]) = {}
      BY <1>3 DEF Chained
    <3> QED BY <3>1, <3>2
  <2>2. v[2] = w[2]
    BY <1>1, <1>3, <1>7, <2>1, SMTT(30)
  <2> QED BY <1>3, <1>7, <2>1, <2>2
<1> QED BY <1>3, <1>5, <1>6, <1>7 DEF VisitsThem, V

CountsRight(d, P, main, count, visits) ==
    /\ Cardinality(visits) <= count /\ \A v \in visits : v[3] \in 1 .. count
    /\ Cardinality(ReadIn(d, visits)) = Cardinality(AllPlaces(P, main))
    /\ Cardinality({x \in ReadIn(d, visits) : d.pages[x[1][3]].slots[x[2]].live}) = Cardinality(AllLiving(P, main))

(* What build_directory reads is what the groups hold, and the counters are found to be right. *)
LEMMA ReadCounts ==
    ASSUME NEW s, SoundSetup(s), NEW d, NEW P, d.pages = P, P \in Images(s),
           NEW main, NEW head, NEW count, Chained(s, P, main, head, count),
           NEW visits, VisitsThem(P, main, visits)
    PROVE  CountsRight(d, P, main, count, visits)
<1> DEFINE R == ReadIn(d, visits)
           A == AllPlaces(P, main)
           L == AllLiving(P, main)
           RL == {x \in R : d.pages[x[1][3]].slots[x[2]].live}
           At(x) == <<x[1][3], x[2]>>
<1>0. /\ \A v \in visits : v[1] \in DOMAIN main /\ v[3] \in PagesOf(P, main[v[1]])
      /\ \A g \in DOMAIN main : \A q \in PagesOf(P, main[g]) : \E v \in visits : v[3] = q
      /\ \A v, w \in visits : v[3] = w[3] => v = w
  BY DEF VisitsThem
<1>1. /\ \A v \in visits : v[3] \in 1 .. count
      /\ count \in Nat /\ IsFiniteSet(A) /\ IsFiniteSet(L)
  <2>1. \A g \in DOMAIN main : PagesOf(P, main[g]) \subseteq 1 .. count
    BY DEF Chained
  <2>2. count \in Nat
    BY DEF Chained, SoundSetup
  <2> QED BY <1>0, <2>1, <2>2, ChainFinite
<1>2. Cardinality(visits) <= count
  <2> DEFINE f == [v \in visits |-> v[3]]
             T == 1 .. count
  <2>1. f \in [visits -> T] /\ \A v, w \in visits : f[v] = f[w] => v = w
    BY <1>0, <1>1
  <2>2. IsFiniteSet(T) /\ Cardinality(T) = count
    BY <1>1, UpTo
  <2> HIDE DEF f, T
  <2> QED BY <2>1, <2>2, OneToOne
<1>3. \A x \in R : x[1] \in visits /\ x[2] \in DOMAIN P[x[1][3]].slots /\ x = <<x[1], x[2]>>
  <2> SUFFICES ASSUME NEW v \in visits, NEW k \in DOMAIN P[v[3]].slots, NEW x, x = <<v, k>>
               PROVE  x[1] \in visits /\ x[2] \in DOMAIN P[x[1][3]].slots /\ x = <<x[1], x[2]>>
    BY DEF ReadIn
  <2>1. x[1] = v /\ x[2] = k
    OBVIOUS
  <2> QED BY <2>1
<1>4. \A v \in visits : \A k \in DOMAIN P[v[3]].slots : <<v, k>> \in R
  BY DEF ReadIn
<1>5. \A x \in R : At(x) \in A /\ SlotAt(P, At(x)) = d.pages[x[1][3]].slots[x[2]]
  <2> SUFFICES ASSUME NEW x \in R PROVE At(x) \in A /\ SlotAt(P, At(x)) = P[x[1][3]].slots[x[2]]
    OBVIOUS
  <2> DEFINE v == x[1]
             q == v[3]
             k == x[2]
  <2>1. v \in visits /\ k \in DOMAIN P[q].slots
    BY <1>3
  <2>2. v[1] \in DOMAIN main /\ q \in PagesOf(P, main[v[1]])
    BY <1>0, <2>1
  <2> HIDE DEF v, q, k
  <2>3. <<q, k>> \in PlacesOf(P, main[v[1]])
    BY <2>1, <2>2 DEF PlacesOf
  <2>4. <<q, k>> \in A
    BY <2>2, <2>3 DEF AllPlaces
  <2>5. SlotAt(P, <<q, k>>) = P[q].slots[k]
    BY DEF SlotAt
  <2> QED BY <2>4, <2>5 DEF v, q, k
<1>6. \A y \in A : \E x \in R : At(x) = y
  <2> SUFFICES ASSUME NEW g \in DOMAIN main, NEW q \in PagesOf(P, main[g]), NEW k \in DOMAIN P[q].slots,
                      NEW y, y = <<q, k>>
               PROVE  \E x \in R : At(x) = y
    BY DEF AllPlaces, PlacesOf
  <2>1. PICK v \in visits : v[3] = q
    BY <1>0
  <2>2. <<v, k>> \in R
    BY <1>4, <2>1
  <2>3. <<v, k>>[1] = v /\ <<v, k>>[2] = k
    OBVIOUS
  <2>4. At(<<v, k>>) = y
    BY <2>1, <2>3
  <2> QED BY <2>2, <2>4
<1>7. \A x, y \in R : At(x) = At(y) => x = y
  <2> SUFFICES ASSUME NEW x \in R, NEW y \in R, At(x) = At(y) PROVE x = y
    OBVIOUS
  <2>1. x[1][3] = y[1][3] /\ x[2] = y[2]
    OBVIOUS
  <2>2. x[1] = y[1]
    BY <1>0, <1>3, <2>1
  <2> QED BY <1>3, <2>1, <2>2
<1>8. \A y \in A : y \in L <=> SlotAt(P, y).live
  <2>1. \A g \in DOMAIN main : Living(P, main[g]) = {x \in PlacesOf(P, main[g]) : SlotAt(P, x).live}
    BY DEF Living
  <2> QED BY <2>1 DEF AllPlaces, AllLiving
<1>9. L \subseteq A
  BY DEF AllPlaces, AllLiving, Living
<1> HIDE DEF R, A, L, At
<1>10. Cardinality(R) = Cardinality(A)
  <2> DEFINE f == [x \in R |-> At(x)]
  <2>1. f \in [R -> A] /\ \A x \in R : f[x] = At(x)
    BY <1>5
  <2>2. /\ \A x, y \in R : f[x] = f[y] => x = y
        /\ \A y \in A : \E x \in R : f[x] = y
    BY <1>6, <1>7, <2>1
  <2> HIDE DEF f
  <2> QED BY <1>1, <2>1, <2>2, OneToOne
<1>11. RL \subseteq R /\ \A x \in R : x \in RL <=> At(x) \in L
  BY <1>5, <1>8
<1> HIDE DEF RL
<1>12. Cardinality(RL) = Cardinality(L)
  <2> DEFINE f == [x \in RL |-> At(x)]
  <2>1. f \in [RL -> L] /\ \A x \in RL : f[x] = At(x)
    BY <1>11
  <2>2. /\ \A x, y \in RL : f[x] = f[y] => x = y
        /\ \A y \in L : \E x \in RL : f[x] = y
    BY <1>6, <1>7, <1>9, <1>11, <2>1
  <2> HIDE DEF f
  <2> QED BY <1>1, <2>1, <2>2, OneToOne
<1> QED BY <1>1, <1>2, <1>10, <1>12 DEF R, A, L, RL, CountsRight

(* load_meta and build_directory do not throw on a file that has the chain of m. *)
LEMMA SoundOpens ==
    ASSUME SoundSetup(setup), NEW d, NEW P, d.pages = P, NEW m, Sound(setup, P, m),
           d.count = m.count, d.meta = Meta(m)
    PROVE  Opens(d)
<1> DEFINE main == m.main
           visits == VisitsOf(d, main)
           read == ReadIn(d, visits)
           live == {x \in read : d.pages[x[1][3]].slots[x[2]].live}
<1>1. /\ P \in Images(setup) /\ Chained(setup, P, main, m.head, m.count) /\ Directory(P, m)
      /\ Len(main) \in Nat /\ DOMAIN main = 1 .. Len(main)
      /\ \A g \in DOMAIN main : main[g] \in 1 .. setup.pages /\ Sane(setup, P, main[g])
      /\ setup.pages \in Nat /\ setup.keys \subseteq Int
  BY SoundTypes DEF SoundSetup
<1>2. d.meta.live = m.live /\ d.meta.deleted = m.deleted /\ d.meta.head = m.head /\ d.meta.saved
  BY DEF Meta
<1>3. Chain(d, d.meta.head) = main /\ FirstKeys(d, main) = m.first
  BY <1>2, DirectoryIsRead
<1>4. VisitsThem(P, main, visits)
  BY <1>1, VisitsOnce, SMTT(30)
<1> HIDE DEF visits
<1>5. /\ Cardinality(visits) <= d.count /\ \A v \in visits : v[3] \in 1 .. d.count
      /\ Cardinality(read) = Cardinality(AllPlaces(P, main)) /\ Cardinality(live) = Cardinality(AllLiving(P, main))
  <2> HIDE DEF main
  <2>1. CountsRight(d, P, main, m.count, visits)
    BY <1>1, <1>4, ReadCounts
  <2> QED BY <2>1 DEF CountsRight
<1>6. \A i \in DOMAIN main : d.pages[main[i]].slots # <<>>
  BY <1>1 DEF Sane
<1>7. ASSUME NEW i \in 2 .. Len(main) PROVE m.first[i - 1] < m.first[i]
  <2>1. i \in DOMAIN main /\ i - 1 \in DOMAIN main /\ i - 1 < i
    BY <1>1
  <2>2. m.first[i - 1] = FirstOf(P, main[i - 1]) /\ m.first[i] = FirstOf(P, main[i])
    BY <1>1, <2>1 DEF Directory
  <2>3. FirstOf(P, main[i - 1]) \in KeysOf(P, main[i - 1])
    BY <1>1, <2>1, ChainTypes
  <2>4. FirstOf(P, main[i - 1]) < FirstOf(P, main[i])
    BY <1>1, <2>1, <2>3 DEF Chained
  <2> QED BY <2>2, <2>4
<1>8. d.meta.live = Cardinality(live) /\ d.meta.deleted = Cardinality(read) - d.meta.live
  <2>1. Sound(setup, P, m)
    OBVIOUS
  <2> HIDE DEF main, live, read
  <2>2. m.live = Cardinality(AllLiving(P, m.main)) /\ m.deleted = Cardinality(AllPlaces(P, m.main)) - Cardinality(AllLiving(P, m.main))
    BY ONLY <2>1 DEF Sound
  <2> QED BY ONLY <1>2, <1>5, <2>2 DEF main
<1>9. Opens(d) <=>
         IF ~d.meta.saved THEN d.count = 0
         ELSE /\ Cardinality(visits) <= d.count
              /\ \A v \in visits : v[3] \in 1 .. d.count
              /\ \A i \in DOMAIN main : d.pages[main[i]].slots # <<>>
              /\ \A i \in 2 .. Len(main) : FirstKeys(d, main)[i - 1] < FirstKeys(d, main)[i]
              /\ d.meta.live = Cardinality(live)
              /\ d.meta.deleted = Cardinality(read) - d.meta.live
  BY <1>3 DEF Opens, VisitsOf, ReadIn, visits
<1> HIDE DEF read, live, main
<1> QED BY <1>2, <1>3, <1>5, <1>6, <1>7, <1>8, <1>9

(* The live rows of some slots. *)
LEMMA RowsOfLiving ==
    ASSUME NEW slots
    PROVE  LiveRows(slots) = {RowOf(e) : e \in {slot \in ToSet(slots) : slot.live}}
<1>1. ASSUME NEW r \in LiveRows(slots) PROVE r \in {RowOf(e) : e \in {slot \in ToSet(slots) : slot.live}}
  BY DEF LiveRows, LiveAt, ToSet
<1>2. ASSUME NEW e \in ToSet(slots), e.live PROVE RowOf(e) \in LiveRows(slots)
  <2>1. PICK i \in DOMAIN slots : e = slots[i]
    BY DEF ToSet
  <2>2. i \in LiveAt(slots)
    BY <1>2, <2>1 DEF LiveAt
  <2> QED BY <2>1, <2>2 DEF LiveRows
<1> QED BY <1>1, <1>2

LivingRows(P, main) == {RowOf(e) : e \in LiveSlots(P, main)}

(* What a scan gives, and what a new process finds by the chain of the pages. *)
LEMMA ScanRows ==
    ASSUME SoundSetup(setup), NEW d, NEW P, d.pages = P, P \in Images(setup),
           NEW head, NEW count, Chained(setup, P, mem.main, head, count)
    PROVE  LiveRows(Scan(d)) = LivingRows(P, mem.main)
<1> DEFINE scan == Scan(d)
           L == LiveSlots(P, mem.main)
<1>1. Sorts(scan, L) /\ HasKeys(L)
  BY ScanSorts
<1>2. DOMAIN scan = 1 .. Len(scan) /\ \A i \in 1 .. Len(scan) : scan[i] \in L
  <2> HIDE DEF scan, L
  <2> QED BY <1>1, SortsCounts
<1>3. \A e \in L : e.live
  BY DEF LiveSlots, AllLiving, Living
<1>4. ToSet(scan) = L
  <2> HIDE DEF scan, L
  <2>1. \A e \in L : \E i \in 1 .. Len(scan) : scan[i] = e
    BY <1>1 DEF Sorts
  <2> QED BY <1>2, <2>1 DEF ToSet
<1>5. {slot \in ToSet(scan) : slot.live} = L
  <2> HIDE DEF scan, L
  <2> QED BY <1>3, <1>4
<1> QED BY <1>5, RowsOfLiving DEF LivingRows

LEMMA ChainRows ==
    ASSUME SoundSetup(setup), NEW d, NEW P, d.pages = P, NEW m, Sound(setup, P, m)
    PROVE  RowsFrom(d, m.head) = LivingRows(P, m.main)
<1> DEFINE main == m.main
           S(p) == LiveRows(SlotsOf(d, Group(d, p)))
<1>1. /\ P \in Images(setup)
      /\ Len(main) \in Nat /\ DOMAIN main = 1 .. Len(main)
      /\ \A g \in DOMAIN main : main[g] \in 1 .. setup.pages /\ Sane(setup, P, main[g])
  BY SoundTypes
<1>2. Chain(d, m.head) = main
  BY DirectoryIsRead
<1>3. \A g \in DOMAIN main : S(main[g]) = {RowOf(e) : e \in GroupSlots(P, main[g])}
  <2> SUFFICES ASSUME NEW g \in DOMAIN main, NEW p, p = main[g], NEW slots, slots = SlotsOf(d, Group(d, p))
               PROVE  LiveRows(slots) = {RowOf(e) : e \in GroupSlots(P, p)}
    OBVIOUS
  <2>1. PICK f : IndexedBy(setup, slots, P, p, f)
    BY <1>1, GroupIndexed
  <2>2. {slot \in ToSet(slots) : slot.live} = GroupSlots(P, p)
    BY <2>1, GroupCounted DEF GroupSlots
  <2> QED BY <2>2, RowsOfLiving
<1> HIDE DEF S
<1>4. RowsFrom(d, m.head) = UNION {S(p) : p \in ToSet(main)}
  BY <1>2 DEF RowsFrom, S
<1>5. ToSet(main) = {main[g] : g \in DOMAIN main}
  BY DEF ToSet
<1> HIDE DEF main
<1>6. ASSUME NEW r \in RowsFrom(d, m.head) PROVE r \in LivingRows(P, main)
  <2>1. PICK g \in DOMAIN main : r \in S(main[g])
    BY <1>4, <1>5
  <2>2. PICK x \in Living(P, main[g]) : r = RowOf(SlotAt(P, x))
    BY <1>3, <2>1 DEF GroupSlots
  <2> QED BY <2>2 DEF LivingRows, LiveSlots, AllLiving
<1>7. ASSUME NEW r \in LivingRows(P, main) PROVE r \in RowsFrom(d, m.head)
  <2>1. PICK g \in DOMAIN main : \E x \in Living(P, main[g]) : r = RowOf(SlotAt(P, x))
    BY DEF LivingRows, LiveSlots, AllLiving
  <2>2. r \in S(main[g])
    BY <1>3, <2>1 DEF GroupSlots
  <2> QED BY <1>4, <1>5, <2>2
<1> QED BY <1>6, <1>7 DEF main

LEMMA ReopensAtRest ==
    ASSUME SetupsAreSound, SeqInv
    PROVE  SequentialReopens
<1> SUFFICES ASSUME Idle
             PROVE  Opens(OnClose) /\ RowsFrom(OnClose, OnClose.meta.head) = LiveRows(Scan(Flushed))
  BY DEF SequentialReopens
<1> DEFINE P == Flushed.pages
           d == OnClose
<1>1. SoundSetup(setup) /\ Sound(setup, P, mem) /\ Flushed.meta = Meta(mem) /\ IsFile(setup, Flushed)
  BY AtRest
<1>2. d.pages = P /\ d.meta = Meta(mem) /\ d.count = mem.count /\ d.meta.head = mem.head
  BY <1>1 DEF OnClose, IsFile, Meta
<1>3. P \in Images(setup) /\ Chained(setup, P, mem.main, mem.head, mem.count)
  BY <1>1 DEF Sound
<1> HIDE DEF d, P
<1>4. Opens(d)
  BY <1>1, <1>2, SoundOpens
<1>5. RowsFrom(d, mem.head) = LivingRows(P, mem.main)
  BY <1>1, <1>2, ChainRows
<1>6. LiveRows(Scan(Flushed)) = LivingRows(P, mem.main)
  BY <1>1, <1>3, ScanRows DEF P
<1> QED BY <1>2, <1>4, <1>5, <1>6 DEF d

(* sequential_file.cpp, build_directory: a file closed without a flush opens again, since its first keys
   ascend, no main page is empty, no page is read twice and both counters are right; and the rows found by
   its chain are those of a scan. *)
THEOREM FileReopens ==
    SetupsAreSound /\ Risks = {} /\ SeqSpec => []SequentialReopens
<1> SUFFICES ASSUME SetupsAreSound, Risks = {} PROVE SeqSpec => []SequentialReopens
  OBVIOUS
<1>1. SeqSpec => []SeqInv
  BY FileIsSound
<1>2. SeqInv => SequentialReopens
  BY ReopensAtRest
<1> QED BY <1>1, <1>2, PTL

-----------------------------------------------------------------------------
(* range_search: in each group that may have keys of the range, its part of it.*)
InRange(slot, low, high) == slot.live /\ slot.key >= low /\ slot.key <= high
PartOf(P, p, low, high) == {e \in GroupSlots(P, p) : e.key >= low /\ e.key <= high}
OwnPlaces(slots, from, low, high) ==
    LET before == {i \in from .. Len(slots) : \A j \in from .. i : slots[j].key <= high}
    IN  {i \in before : InRange(slots[i], low, high)}
FromPlace(slots, isStart, low) == IF isStart THEN LowerBound(slots, low) + 1 ELSE 1
RangeOfGroup(d, p, isStart, low, high) ==
    LET slots == d.pages[p].slots
        own == OwnPlaces(slots, FromPlace(slots, isStart, low), low, high)
    IN  IF d.pages[p].overflow = NoPage THEN Picked(slots, own)
        ELSE InKeyOrder({slots[i] : i \in own}
                        \cup {slot \in ToSet(SlotsOf(d, Overflow(d, p))) : InRange(slot, low, high)})

(* From the lower bound on, and up to the first key beyond the range: nothing is missed. *)
LEMMA PlacesInRange ==
    ASSUME NEW slots, NEW n \in Nat, Len(slots) = n, DOMAIN slots = 1 .. n,
           \A i \in 1 .. n : slots[i].key \in Int, Ordered(slots), NEW low \in Int, NEW high \in Int, NEW isStart
    PROVE  OwnPlaces(slots, FromPlace(slots, isStart, low), low, high) = {i \in 1 .. n : InRange(slots[i], low, high)}
<1> DEFINE b == LowerBound(slots, low)
           from == FromPlace(slots, isStart, low)
<1>1. b \in 0 .. n /\ \A i \in 1 .. n : i <= b <=> slots[i].key < low
  BY BinarySearch
<1>2. from = b + 1 \/ from = 1
  BY DEF FromPlace
<1>3. from \in Nat /\ from >= 1 /\ \A i \in 1 .. n : slots[i].key >= low => i >= from
  <2>1. CASE from = 1
    BY <2>1
  <2>2. CASE from = b + 1
    <3> HIDE DEF from, b
    <3> SUFFICES ASSUME NEW i \in 1 .. n, slots[i].key >= low PROVE i >= b + 1
      BY <1>1, <2>2
    <3>1. ~(slots[i].key < low)
      OBVIOUS
    <3>2. ~(i <= b)
      BY <1>1, <3>1
    <3> QED BY <1>1, <3>2
  <2> QED BY <1>2, <2>1, <2>2
<1> HIDE DEF from
<1>4. ASSUME NEW i \in 1 .. n, InRange(slots[i], low, high)
      PROVE  i \in OwnPlaces(slots, from, low, high)
  <2>1. slots[i].key >= low /\ slots[i].key <= high
    BY <1>4 DEF InRange
  <2>2. i \in from .. n
    BY <1>3, <2>1
  <2>3. ASSUME NEW j \in from .. i PROVE slots[j].key <= high
    <3>1. j \in 1 .. n /\ j <= i
      BY <1>3
    <3>2. slots[j].key <= slots[i].key
      BY <3>1 DEF Ordered
    <3> QED BY <2>1, <3>1, <3>2
  <2> QED BY <1>4, <2>2, <2>3 DEF OwnPlaces
<1>5. ASSUME NEW i \in OwnPlaces(slots, from, low, high) PROVE i \in 1 .. n /\ InRange(slots[i], low, high)
  BY <1>3 DEF OwnPlaces
<1> QED BY <1>4, <1>5 DEF from

LEMMA PartDistinct ==
    ASSUME NEW S, DistinctKeys(S), NEW T, T \subseteq S
    PROVE  DistinctKeys(T) /\ HasKeys(T)
<1>1. IsFiniteSet(T)
  BY FS_Subset DEF DistinctKeys
<1> QED BY <1>1 DEF DistinctKeys, HasKeys

LEMMA RangeOfGroupSorts ==
    ASSUME SoundSetup(setup), NEW d, NEW P, d.pages = P, P \in Images(setup), NEW p, Sane(setup, P, p),
           NEW low \in Int, NEW high \in Int, NEW isStart
    PROVE  /\ Sorts(RangeOfGroup(d, p, isStart, low, high), PartOf(P, p, low, high))
           /\ HasKeys(PartOf(P, p, low, high))
<1> DEFINE slots == P[p].slots
           n == Len(slots)
           o == P[p].overflow
           own == OwnPlaces(slots, FromPlace(slots, isStart, low), low, high)
           part == PartOf(P, p, low, high)
<1>1. /\ p \in 1 .. setup.pages /\ setup.pages \in Nat /\ setup.keys \subseteq Int /\ Ordered(slots) /\ OneEach(P, p)
      /\ o # NoPage => P[o].next = NoPage
  BY DEF Sane, SoundSetup
<1>2. n \in Nat /\ DOMAIN slots = 1 .. n /\ \A i \in 1 .. n : slots[i].key \in Int
  BY <1>1, PageTypes
<1>3. own = {i \in 1 .. n : InRange(slots[i], low, high)}
  <2> HIDE DEF slots
  <2> QED BY <1>1, <1>2, PlacesInRange
<1>4. DistinctKeys(GroupSlots(P, p))
  BY ReadGroupSorts
<1>5. DistinctKeys(part) /\ HasKeys(part)
  BY <1>4, PartDistinct DEF PartOf
<1>6. \A e \in GroupSlots(P, p) : e.live
  BY DEF GroupSlots, Living
<1>7. \A q \in PagesOf(P, p) : \A i \in DOMAIN P[q].slots : P[q].slots[i].live => P[q].slots[i] \in GroupSlots(P, p)
  <2> SUFFICES ASSUME NEW q \in PagesOf(P, p), NEW i \in DOMAIN P[q].slots, P[q].slots[i].live
               PROVE  P[q].slots[i] \in GroupSlots(P, p)
    OBVIOUS
  <2>1. <<q, i>> \in PlacesOf(P, p) /\ SlotAt(P, <<q, i>>) = P[q].slots[i]
    BY DEF PlacesOf, SlotAt
  <2> QED BY <2>1 DEF GroupSlots, Living
<1>8. \A e \in GroupSlots(P, p) : \E q \in PagesOf(P, p) : \E i \in DOMAIN P[q].slots : e = P[q].slots[i]
  <2> SUFFICES ASSUME NEW q \in PagesOf(P, p), NEW i \in DOMAIN P[q].slots, NEW x, x = <<q, i>>
               PROVE  SlotAt(P, x) = P[q].slots[i]
    BY DEF GroupSlots, Living, PlacesOf
  <2> QED BY DEF SlotAt
<1>9. \A i \in own : slots[i] \in part
  <2>1. p \in PagesOf(P, p)
    BY DEF PagesOf
  <2>2. \A i \in 1 .. n : slots[i].live => slots[i] \in GroupSlots(P, p)
    BY <1>2, <1>7, <2>1
  <2> HIDE DEF own, slots
  <2> QED BY <1>3, <2>2 DEF InRange, PartOf
<1>10. CASE o = NoPage
  <2>1. RangeOfGroup(d, p, isStart, low, high) = Picked(slots, own)
    BY <1>10 DEF RangeOfGroup
  <2>2. {slots[i] : i \in own} = part
    <3>1. \A e \in part : e \in GroupSlots(P, p) /\ InRange(e, low, high)
      BY <1>6 DEF PartOf, InRange
    <3>2. PagesOf(P, p) = {p}
      BY <1>10 DEF PagesOf
    <3>3. \A e \in part : \E i \in 1 .. n : e = slots[i]
      BY <1>2, <1>8, <3>1, <3>2
    <3> HIDE DEF own, part, slots
    <3> QED BY <1>3, <1>9, <3>1, <3>3
  <2>3. IsFiniteSet(own) /\ own \subseteq Nat
    <3> HIDE DEF own, n
    <3>1. IsFiniteSet(1 .. n) /\ own \subseteq 1 .. n
      BY <1>2, <1>3, UpTo
    <3>2. own \subseteq Nat
      BY <1>2, <3>1
    <3> QED BY <3>1, <3>2, FS_Subset
  <2>4. ASSUME NEW i \in own, NEW j \in own, i < j PROVE slots[i].key < slots[j].key
    <3>1. i \in 1 .. n /\ j \in 1 .. n /\ slots[i].live /\ slots[j].live
      BY <1>3, <2>4 DEF InRange
    <3>2. slots[i].key <= slots[j].key
      <4>1. i <= j
        BY <1>2, <2>4, <3>1
      <4> QED BY <1>1, <1>2, <3>1, <4>1 DEF Ordered
    <3>3. slots[i].key # slots[j].key
      <4>1. <<p, i>> \in PlacesOf(P, p) /\ <<p, j>> \in PlacesOf(P, p)
        BY <1>2, <3>1 DEF PlacesOf, PagesOf
      <4>2. SlotAt(P, <<p, i>>) = slots[i] /\ SlotAt(P, <<p, j>>) = slots[j]
        BY DEF SlotAt
      <4>3. <<p, i>> \in Living(P, p) /\ <<p, j>> \in Living(P, p)
        BY <3>1, <4>1, <4>2 DEF Living
      <4>4. <<p, i>> # <<p, j>>
        BY <1>2, <2>4, <3>1
      <4> HIDE DEF slots
      <4> QED BY <1>1, <4>2, <4>3, <4>4 DEF OneEach
    <3> QED BY <1>2, <3>1, <3>2, <3>3
  <2>5. InOrderAt(slots, own)
    <3>1. \A i \in own : slots[i].key \in Int
      BY <1>2, <1>3
    <3> HIDE DEF own, slots
    <3> QED BY <2>3, <2>4, <3>1 DEF InOrderAt
  <2> HIDE DEF own, slots, part
  <2>6. Sorts(Picked(slots, own), {slots[i] : i \in own})
    BY <2>5, PickedSorts
  <2> QED BY <1>5, <2>1, <2>2, <2>6 DEF part
<1>11. CASE o # NoPage
  <2> DEFINE over == ToSet(SlotsOf(d, Overflow(d, p)))
             all == {slots[i] : i \in own} \cup {slot \in over : InRange(slot, low, high)}
  <2>1. RangeOfGroup(d, p, isStart, low, high) = InKeyOrder(all)
    BY <1>11 DEF RangeOfGroup
  <2>2. SlotsOf(d, Overflow(d, p)) = P[o].slots
    BY <1>1, <1>11, GroupRead
  <2>3. over = {P[o].slots[i] : i \in DOMAIN P[o].slots}
    BY <2>2 DEF ToSet
  <2>4. PagesOf(P, p) = {p, o}
    BY <1>11 DEF PagesOf
  <2>5. all = part
    <3>1. \A e \in part : e \in GroupSlots(P, p) /\ InRange(e, low, high)
      BY <1>6 DEF PartOf, InRange
    <3>2. \A e \in part : (\E i \in 1 .. n : e = slots[i]) \/ e \in over
      <4> SUFFICES ASSUME NEW e \in part PROVE (\E i \in 1 .. n : e = slots[i]) \/ e \in over
        OBVIOUS
      <4>1. PICK q \in {p, o} : \E i \in DOMAIN P[q].slots : e = P[q].slots[i]
        BY <1>8, <2>4, <3>1
      <4> QED BY <1>2, <2>3, <4>1
    <3>3. \A e \in over : InRange(e, low, high) => e \in part
      <4>1. \A e \in over : e.live => e \in GroupSlots(P, p)
        BY <1>7, <2>3, <2>4
      <4> HIDE DEF over
      <4> QED BY <4>1 DEF InRange, PartOf
    <3> HIDE DEF own, part, slots, over
    <3>4. \A e \in part : e \in all
      BY <1>3, <3>1, <3>2
    <3>5. \A e \in all : e \in part
      BY <1>9, <3>3
    <3> QED BY <3>4, <3>5
  <2> HIDE DEF all, part
  <2> QED BY <1>5, <2>1, <2>5, InKeyOrderSorts DEF part
<1> QED BY <1>5, <1>10, <1>11

(* The groups that range_search reads: from that of the first key on, while they start in the range. *)
GroupsInRange(m, start, high) ==
    {g \in start .. Len(m.main) : \A h \in start + 1 .. g : m.first[h] <= high}

LEMMA GroupsAreInterval ==
    ASSUME NEW m, NEW n \in Nat, Len(m.main) = n, NEW start \in 1 .. n, NEW high
    PROVE  \E last \in start .. n : /\ GroupsInRange(m, start, high) = start .. last
                                    /\ Cardinality(GroupsInRange(m, start, high)) = last - start + 1
<1> DEFINE S == GroupsInRange(m, start, high)
<1>1. start \in S /\ S \subseteq start .. n
  BY DEF GroupsInRange
<1>2. PICK last \in S : \A y \in S : y <= last
  <2>1. S \in SUBSET (0 .. n) /\ S # {}
    BY <1>1
  <2> HIDE DEF S
  <2> QED BY <2>1, GreatestOf
<1>3. last \in start .. n
  BY <1>1, <1>2
<1>4. ASSUME NEW g \in start .. last PROVE g \in S
  <2>1. \A h \in start + 1 .. last : m.first[h] <= high
    BY <1>2 DEF GroupsInRange
  <2> QED BY <1>3, <2>1 DEF GroupsInRange
<1> HIDE DEF S
<1>5. S = start .. last
  <2>1. ASSUME NEW g \in S PROVE g \in start .. last
    <3>1. g \in start .. n /\ g <= last
      BY <1>1, <1>2
    <3> QED BY <1>3, <3>1
  <2> QED BY <1>4, <2>1
<1>6. Cardinality(start .. last) = last - start + 1
  <2>1. start \in Int /\ last \in Int /\ start <= last
    BY <1>3
  <2>2. Cardinality(start .. last) = IF start > last THEN 0 ELSE last - start + 1
    BY ONLY <2>1, FS_Interval
  <2> QED BY <2>1, <2>2
<1> QED BY <1>3, <1>5, <1>6 DEF S

(* The groups that are read are those with a live row of the range. *)
LEMMA RangeIsCovered ==
    ASSUME SoundSetup(setup), NEW P, Sound(setup, P, mem), NEW low \in Int, NEW high \in Int,
           NEW g \in DOMAIN mem.main, NEW k \in KeysOf(P, mem.main[g]), low <= k, k <= high
    PROVE  g \in GroupsInRange(mem, GroupOf(low), high)
<1> DEFINE main == mem.main
           n == Len(main)
           start == GroupOf(low)
<1>1. /\ P \in Images(setup) /\ Chained(setup, P, main, mem.head, mem.count) /\ Directory(P, mem)
      /\ n \in Nat /\ DOMAIN main = 1 .. n /\ setup.pages \in Nat /\ setup.keys \subseteq Int
  BY SoundTypes DEF SoundSetup
<1>2. main # <<>>
  BY <1>1
<1>3. /\ start \in 1 .. n /\ (start # 1 => FirstOf(P, main[start]) <= low)
      /\ \A h \in 1 .. n : h > start => low < FirstOf(P, main[h])
  BY <1>1, <1>2, KeyInItsGroup
<1>4. \A h \in 1 .. n : /\ mem.first[h] = FirstOf(P, main[h]) /\ FirstOf(P, main[h]) \in Int
                        /\ FirstOf(P, main[h]) \in KeysOf(P, main[h]) /\ KeysOf(P, main[h]) \subseteq Int
  BY <1>1, ChainTypes DEF Directory
<1>5. g \in 1 .. n /\ k \in Int /\ n \in Nat
  BY <1>1, <1>4
<1> HIDE DEF start, n
<1>6. g >= start
  <2> SUFFICES ASSUME g < start PROVE FALSE
    BY <1>3, <1>5
  <2>1. start # 1
    BY <1>3, <1>5
  <2>2. k < FirstOf(P, main[start])
    BY <1>1, <1>3, <1>5 DEF Chained
  <2> QED BY <1>3, <1>4, <1>5, <2>1, <2>2
<1>7. ASSUME NEW h \in start + 1 .. g PROVE mem.first[h] <= high
  <2>1. h \in 1 .. n /\ h # 1 /\ h <= g
    BY <1>3, <1>5
  <2>2. CASE h = g
    <3>1. FirstOf(P, main[g]) <= k
      BY <1>1, <1>5, <2>1, <2>2 DEF Chained
    <3> QED BY <1>4, <1>5, <2>2, <3>1
  <2>3. CASE h # g
    <3>1. h < g
      BY <1>5, <2>1, <2>3
    <3>2. FirstOf(P, main[h]) < FirstOf(P, main[g])
      BY <1>1, <1>4, <1>5, <2>1, <3>1 DEF Chained
    <3>3. FirstOf(P, main[g]) <= k
      <4>1. g # 1
        BY <1>5, <2>1, <3>1
      <4> QED BY <1>1, <1>5, <4>1 DEF Chained
    <3> QED BY <1>4, <1>5, <2>1, <3>2, <3>3
  <2> QED BY <2>2, <2>3
<1>8. g \in start .. n
  BY <1>3, <1>5, <1>6, <1>1
<1> QED BY <1>7, <1>8 DEF GroupsInRange, start, n

(* The parts of neighbouring groups are in order. *)
LEMMA PartsAscend ==
    ASSUME NEW s, SoundSetup(s), NEW P, NEW m, Sound(s, P, m), NEW low, NEW high,
           NEW g \in DOMAIN m.main, NEW h \in DOMAIN m.main, g < h
    PROVE  AllBelow(PartOf(P, m.main[g], low, high), PartOf(P, m.main[h], low, high))
<1> DEFINE main == m.main
<1>1. /\ P \in Images(s) /\ Chained(s, P, main, m.head, m.count)
      /\ Len(main) \in Nat /\ DOMAIN main = 1 .. Len(main) /\ s.pages \in Nat /\ s.keys \subseteq Int
  BY SoundTypes DEF SoundSetup
<1>2. \A i \in DOMAIN main : FirstOf(P, main[i]) \in Int /\ KeysOf(P, main[i]) \subseteq Int
  BY <1>1, ChainTypes
<1> SUFFICES ASSUME NEW x \in Living(P, main[g]), NEW y \in Living(P, main[h])
             PROVE  SlotAt(P, x).key < SlotAt(P, y).key
  BY DEF AllBelow, PartOf, GroupSlots
<1>3. SlotAt(P, x).key \in KeysOf(P, main[g]) /\ SlotAt(P, y).key \in KeysOf(P, main[h])
  BY DEF Living, KeysOf
<1>4. SlotAt(P, x).key < FirstOf(P, main[h])
  BY <1>1, <1>3 DEF Chained
<1>5. FirstOf(P, main[h]) <= SlotAt(P, y).key
  <2>1. h # 1
    BY <1>1
  <2> QED BY <1>1, <1>3, <2>1 DEF Chained
<1> QED BY <1>2, <1>3, <1>4, <1>5

(* The live rows of a range, and what range_search gives of them. *)
Ranged(P, main, low, high) == {e \in LiveSlots(P, main) : e.key >= low /\ e.key <= high}

LEMMA RangeSearchSorts ==
    ASSUME SoundSetup(setup), NEW d, NEW P, d.pages = P, Sound(setup, P, mem),
           NEW low \in Int, NEW high \in Int, mem.main # <<>>, low <= high
    PROVE  Sorts(RangeSearch(d, low, high), Ranged(P, mem.main, low, high))
<1> DEFINE main == mem.main
           start == GroupOf(low)
           goes == GroupsInRange(mem, start, high)
           c == Cardinality(goes)
           ss == [i \in 1 .. c |-> RangeOfGroup(d, main[start + i - 1], start + i - 1 = start, low, high)]
           parts == [i \in 1 .. c |-> PartOf(P, main[start + i - 1], low, high)]
<1>1. /\ P \in Images(setup) /\ Chained(setup, P, main, mem.head, mem.count) /\ Directory(P, mem)
      /\ Len(main) \in Nat /\ DOMAIN main = 1 .. Len(main) /\ setup.pages \in Nat /\ setup.keys \subseteq Int
      /\ \A g \in DOMAIN main : Sane(setup, P, main[g])
  BY SoundTypes DEF SoundSetup
<1>2. start \in 1 .. Len(main)
  BY <1>1, KeyInItsGroup
<1>3. PICK last \in start .. Len(main) : goes = start .. last /\ c = last - start + 1
  <2> SUFFICES ASSUME NEW n, n = Len(mem.main)
               PROVE  \E last \in start .. n : goes = start .. last /\ c = last - start + 1
    OBVIOUS
  <2>1. n \in Nat /\ start \in 1 .. n
    BY <1>1, <1>2
  <2> HIDE DEF start
  <2> QED BY <2>1, GroupsAreInterval
<1>4. c \in Nat /\ \A i \in 1 .. c : start + i - 1 \in DOMAIN main
  <2> HIDE DEF c, start
  <2> QED BY <1>1, <1>2, <1>3
<1>5. RangeSearch(d, low, high) = FlattenSeq(ss)
  <2>1. ~(main = <<>> \/ low > high)
    OBVIOUS
  <2> QED BY <2>1 DEF RangeSearch, RangeOfGroup, OwnPlaces, FromPlace, InRange, GroupsInRange
<1> HIDE DEF c, start, goes
<1>6. ASSUME NEW i \in 1 .. c
      PROVE  Sorts(ss[i], parts[i]) /\ HasKeys(parts[i])
  <2> SUFFICES ASSUME NEW g, g = start + i - 1, NEW isStart
               PROVE  /\ Sorts(RangeOfGroup(d, main[g], isStart, low, high), PartOf(P, main[g], low, high))
                      /\ HasKeys(PartOf(P, main[g], low, high))
    OBVIOUS
  <2>1. Sane(setup, P, main[g])
    BY <1>1, <1>4
  <2> QED BY <1>1, <2>1, RangeOfGroupSorts
<1>7. ASSUME NEW i \in 1 .. c, NEW j \in 1 .. c, i < j PROVE AllBelow(parts[i], parts[j])
  <2> SUFFICES ASSUME NEW g, g = start + i - 1, NEW h, h = start + j - 1
               PROVE  AllBelow(PartOf(P, main[g], low, high), PartOf(P, main[h], low, high))
    OBVIOUS
  <2>1. g \in DOMAIN main /\ h \in DOMAIN main
    BY <1>4
  <2>2. g < h
    BY <1>2, <1>4, <1>7
  <2> QED BY <2>1, <2>2, PartsAscend
<1>8. Len(ss) = c /\ (c = 0 => ss = <<>>)
  BY <1>4
<1> HIDE DEF ss, parts
<1>9. Sorts(FlattenSeq(ss), UNION {parts[i] : i \in 1 .. c})
  <2>1. Pieces(ss, parts, c)
    BY <1>6, <1>7, <1>8 DEF Pieces
  <2>2. SortsAll(ss, parts, c)
    BY ONLY <1>4, <2>1, FlattenSorts
  <2> QED BY <2>2 DEF SortsAll
<1>10. UNION {parts[i] : i \in 1 .. c} = Ranged(P, main, low, high)
  <2>1. ASSUME NEW i \in 1 .. c, NEW e \in parts[i] PROVE e \in Ranged(P, main, low, high)
    <3> DEFINE g == start + i - 1
    <3>1. g \in DOMAIN main
      BY <1>4
    <3>2. e \in PartOf(P, main[g], low, high)
      BY DEF parts
    <3> HIDE DEF g
    <3>3. PICK x \in Living(P, main[g]) : e = SlotAt(P, x)
      BY <3>2 DEF PartOf, GroupSlots
    <3> QED BY <3>1, <3>2, <3>3 DEF PartOf, Ranged, LiveSlots, AllLiving
  <2>2. ASSUME NEW e \in Ranged(P, main, low, high) PROVE \E i \in 1 .. c : e \in parts[i]
    <3>1. e \in LiveSlots(P, main) /\ e.key >= low /\ e.key <= high
      BY DEF Ranged
    <3>2. PICK g \in DOMAIN main : \E x \in Living(P, main[g]) : e = SlotAt(P, x)
      BY <3>1 DEF LiveSlots, AllLiving
    <3>3. e \in PartOf(P, main[g], low, high)
      BY <3>1, <3>2 DEF PartOf, GroupSlots
    <3>4. e.key \in KeysOf(P, main[g])
      BY <3>2 DEF Living, KeysOf
    <3>5. e.key \in Int
      BY <1>1, <3>4, ChainTypes
    <3>6. g \in goes
      BY <3>1, <3>4, <3>5, RangeIsCovered DEF goes, start
    <3> DEFINE i == g - start + 1
    <3>7. i \in 1 .. c /\ start + i - 1 = g
      BY <1>1, <1>2, <1>3, <3>6
    <3> HIDE DEF i
    <3>8. parts[i] = PartOf(P, main[g], low, high)
      BY <3>7 DEF parts
    <3> QED BY <3>3, <3>7, <3>8
  <2> QED BY <2>1, <2>2
<1> QED BY <1>5, <1>9, <1>10

LEMMA NoRange ==
    ASSUME NEW d, NEW low, NEW high, mem.main = <<>> \/ low > high
    PROVE  RangeSearch(d, low, high) = <<>>
  BY Zenon DEF RangeSearch

LEMMA RangeAgrees ==
    ASSUME SoundSetup(setup), NEW d, NEW P, d.pages = P, Sound(setup, P, mem), NEW low \in Int, NEW high \in Int
    PROVE  LET scan == Scan(d)
           IN  RangeSearch(d, low, high) = Picked(scan, {i \in DOMAIN scan : scan[i].key >= low /\ scan[i].key <= high})
<1> DEFINE main == mem.main
           scan == Scan(d)
           L == LiveSlots(P, main)
           places == {i \in DOMAIN scan : scan[i].key >= low /\ scan[i].key <= high}
           R == Ranged(P, main, low, high)
<1>1. /\ P \in Images(setup) /\ Chained(setup, P, main, mem.head, mem.count)
      /\ Len(main) \in Nat /\ DOMAIN main = 1 .. Len(main)
  BY SoundTypes
<1>2. Sorts(scan, L) /\ HasKeys(L)
  BY <1>1, ScanSorts
<1>3. /\ Len(scan) \in Nat /\ DOMAIN scan = 1 .. Len(scan) /\ \A i \in 1 .. Len(scan) : scan[i] \in L
      /\ \A i, j \in 1 .. Len(scan) : i < j => scan[i].key < scan[j].key
      /\ \A e \in L : \E i \in 1 .. Len(scan) : scan[i] = e
  <2> HIDE DEF scan, L
  <2> QED BY <1>2, SortsCounts DEF Sorts
<1>4. \A e \in L : e.key \in Int
  BY <1>2 DEF HasKeys
<1>5. R = {e \in L : e.key >= low /\ e.key <= high}
  BY DEF Ranged
<1> HIDE DEF scan, L, R
<1>6. {scan[i] : i \in places} = R
  BY <1>3, <1>5
<1>7. InOrderAt(scan, places)
  <2>1. IsFiniteSet(1 .. Len(scan)) /\ places \subseteq 1 .. Len(scan) /\ places \subseteq Nat
    BY <1>3, UpTo
  <2>2. IsFiniteSet(places)
    BY <2>1, FS_Subset
  <2> HIDE DEF places
  <2> QED BY <1>3, <1>4, <2>1, <2>2 DEF InOrderAt
<1>8. Sorts(Picked(scan, places), R) /\ HasKeys(R)
  <2> HIDE DEF places
  <2> QED BY <1>6, <1>7, PickedSorts
<1>9. Sorts(RangeSearch(d, low, high), R)
  <2>1. CASE main # <<>> /\ low <= high
    BY <2>1, RangeSearchSorts DEF R
  <2>2. CASE ~(main # <<>> /\ low <= high)
    <3>1. RangeSearch(d, low, high) = <<>>
      <4>1. main = <<>> \/ low > high
        BY <2>2
      <4> QED BY <4>1, NoRange
    <3>2. R = {}
      <4>1. CASE main = <<>>
        BY <4>1 DEF R, Ranged, LiveSlots, AllLiving
      <4>2. CASE low > high
        BY <1>4, <1>5, <4>2
      <4> QED BY <2>2, <4>1, <4>2
    <3>3. Sorts(<<>>, {})
      BY DEF Sorts
    <3> QED BY <3>1, <3>2, <3>3
  <2> QED BY <2>1, <2>2
<1> HIDE DEF places
<1>10. RangeSearch(d, low, high) = Picked(scan, places)
  BY <1>8, <1>9, SortedOnce
<1> QED BY <1>10 DEF scan, places

LEMMA SearchAgrees ==
    ASSUME SoundSetup(setup), Sound(setup, Flushed.pages, mem), NEW key \in Int
    PROVE  Search(Flushed, key) = {r \in LiveRows(Scan(Flushed)) : r.key = key}
<1> DEFINE P == Flushed.pages
           main == mem.main
           A == {x \in AllLiving(P, main) : SlotAt(P, x).key = key}
<1>1. /\ P \in Images(setup) /\ Chained(setup, P, main, mem.head, mem.count) /\ Directory(P, mem)
      /\ setup.pages \in Nat /\ setup.slots \in Nat /\ setup.keys \subseteq Int
  BY DEF Sound, SoundSetup
<1>2. Found(key) = A
  BY <1>1, FoundIsAll
<1>3. Search(Flushed, key) = {RowOf(SlotAt(P, x)) : x \in A}
  <2>1. Search(Flushed, key) = {RowOf(SlotAt(P, x)) : x \in Found(key)}
    BY DEF Search, Found, SlotAt
  <2> QED BY <1>2, <2>1
<1>4. LiveRows(Scan(Flushed)) = {RowOf(e) : e \in LiveSlots(P, main)}
  BY <1>1, ScanRows DEF LivingRows
<1>5. \A e : RowOf(e).key = e.key
  BY DEF RowOf
<1>6. LiveSlots(P, main) = {SlotAt(P, x) : x \in AllLiving(P, main)}
  BY DEF LiveSlots
<1> HIDE DEF P, main
<1> QED BY <1>3, <1>4, <1>5, <1>6

LEMMA ReadsAgreeAtRest ==
    ASSUME SetupsAreSound, SeqInv
    PROVE  ReadsAgree
<1> DEFINE scan == Scan(Flushed)
           P == Flushed.pages
<1> SUFFICES ASSUME Idle
             PROVE  /\ \A i, j \in DOMAIN scan : i < j => scan[i].key < scan[j].key
                    /\ mem.live = Len(scan)
                    /\ \A k \in setup.keys : Search(Flushed, k) = {r \in LiveRows(scan) : r.key = k}
                    /\ \A low, high \in setup.keys :
                          RangeSearch(Flushed, low, high)
                             = Picked(scan, {i \in DOMAIN scan : scan[i].key >= low /\ scan[i].key <= high})
  BY DEF ReadsAgree
<1>1. SoundSetup(setup) /\ Sound(setup, P, mem) /\ setup.keys \subseteq Int
  BY AtRest DEF SoundSetup
<1>2. P \in Images(setup) /\ Chained(setup, P, mem.main, mem.head, mem.count)
  BY <1>1 DEF Sound
<1>3. Sorts(scan, LiveSlots(P, mem.main)) /\ HasKeys(LiveSlots(P, mem.main))
  BY <1>1, <1>2, ScanSorts
<1>4. /\ \A i, j \in DOMAIN scan : i < j => scan[i].key < scan[j].key
      /\ Len(scan) = Cardinality(LiveSlots(P, mem.main))
  <2> HIDE DEF scan
  <2> QED BY <1>3, SortsCounts
<1>5. mem.live = Len(scan)
  <2>1. Cardinality(LiveSlots(P, mem.main)) = Cardinality(AllLiving(P, mem.main))
    BY <1>1, <1>2, LivingSlots
  <2> QED BY <1>1, <1>4, <2>1 DEF Sound
<1>6. \A k \in setup.keys : Search(Flushed, k) = {r \in LiveRows(scan) : r.key = k}
  BY <1>1, SearchAgrees
<1>7. \A low, high \in setup.keys :
         RangeSearch(Flushed, low, high)
            = Picked(scan, {i \in DOMAIN scan : scan[i].key >= low /\ scan[i].key <= high})
  BY <1>1, RangeAgrees
<1> QED BY <1>4, <1>5, <1>6, <1>7

(* sequential_file.hpp:124-125: between two calls a scan gives the live rows in key order, each key once and as
   many as live_ says; and search and range_search, which use the order of the pages and of the slots, find
   what the scan finds. *)
THEOREM ReadsAreRight ==
    SetupsAreSound /\ Risks = {} /\ SeqSpec => []ReadsAgree
<1> SUFFICES ASSUME SetupsAreSound, Risks = {} PROVE SeqSpec => []ReadsAgree
  OBVIOUS
<1>1. SeqSpec => []SeqInv
  BY FileIsSound
<1>2. SeqInv => ReadsAgree
  BY ReadsAgreeAtRest
<1> QED BY <1>1, <1>2, PTL
===============================================================================
