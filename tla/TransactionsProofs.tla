-------------------------- MODULE TransactionsProofs --------------------------
(***************************************************************************)
(* Strict two-phase locking of the processors, for any number of owners,   *)
(* tables, rows and statements.                                            *)
(*                                                                         *)
(* LedgerAgrees, NoLockLeak and SharedOnlyByReaders are not inductive: they*)
(* depend on what a statement has locked by the time it works, on what the *)
(* undo log may mention, and on what ensure_lock asks for.  TxInv adds     *)
(* those facts, one session at a time; a step of a processor changes its   *)
(* own session (ClientSession ... EndingSession) and no other              *)
(* (OtherSessions).                                                        *)
(*                                                                         *)
(* The locks come first, for the lock manager alone: every step of a       *)
(* processor is one of the lock manager or leaves it alone (StepOfLocks).  *)
(* Their inductive invariant is LocksInv: the type invariant, LockExclusion*)
(* and NoLostWakeup together.  LockExclusion carries NoLostWakeup: that a  *)
(* grant cannot make another sleeping request grantable follows from an    *)
(* exclusive lock having one owner and a free one having none.             *)
(*                                                                         *)
(* What the tables contain plays no part in that.                         *)
(***************************************************************************)
EXTENDS Transactions, NatLemmas, SequenceTheorems, WellFoundedInduction

-------------------------------------------------------------------------------
(* The lock manager.                                                          *)

LocksInv == LocksTypeOK /\ LockExclusion /\ NoLostWakeup

(* A request is well formed whenever its owner is inside acquire: the arguments
   that TableLock.acquire works with are a table and a mode. *)
LEMMA RequestTyped ==
    ASSUME LocksTypeOK, NEW o \in Owner, phase[o] # "running"
    PROVE  /\ request[o] \in [table : Table, mode : LockMode]
           /\ request[o].table \in Table
           /\ request[o].mode \in LockMode
    BY SMTT(30) DEF LocksTypeOK, NoRequest

(* What _try_acquire_locked does to the lock it grants: the owner joins, the
   lock is not free, and it is exclusive only for a single owner. *)
LEMMA GrantEffect ==
    ASSUME LocksTypeOK, LockExclusion, NEW o \in Owner, NEW t \in Table,
           NEW m \in LockMode, Grantable(o, t, m)
    PROVE  /\ GrantedMode(o, t, m) \in LockMode
           /\ GrantedMode(o, t, m) = "EXCLUSIVE" => owners[t] \cup {o} = {o}
           /\ mode[t] = "EXCLUSIVE" => owners[t] = {o}
    BY DEF LocksTypeOK, LockExclusion, Grantable, GrantedMode, AlreadyCovers,
           CanUpgrade, CanJoin, LockMode

(* A grant never makes the request of another owner grantable: that is why
   acquire notifies nobody. *)
LEMMA GrantWakesNobody ==
    ASSUME LocksTypeOK, LockExclusion, NEW o \in Owner, Grant(o),
           NEW p \in Owner, p # o, phase[p] = "waiting",
           ~Grantable(p, request[p].table, request[p].mode)
    PROVE  ~Grantable(p, request[p].table, request[p].mode)'
<1> DEFINE t == request[o].table
           m == request[o].mode
           u == request[p].table
           n == request[p].mode
<1>1. /\ t \in Table /\ m \in LockMode
      /\ u \in Table /\ n \in LockMode
  BY RequestTyped DEF Grant
<1>2. /\ Grantable(o, t, m)
      /\ owners' = [owners EXCEPT ![t] = @ \cup {o}]
      /\ mode' = [mode EXCEPT ![t] = GrantedMode(o, t, m)]
      /\ request'[p] = request[p]
  BY DEF Grant, Return, LocksTypeOK
<1>3. CASE u # t
  <2>1. owners'[u] = owners[u] /\ mode'[u] = mode[u]
    BY <1>1, <1>2, <1>3 DEF LocksTypeOK
  <2> QED
    BY <1>2, <2>1 DEF Grantable, AlreadyCovers, CanUpgrade, CanJoin
<1>4. CASE u = t
  <2>1. /\ owners'[u] = owners[u] \cup {o}
        /\ mode'[u] = GrantedMode(o, t, m)
    BY <1>1, <1>2, <1>4 DEF LocksTypeOK
  <2>2. ~AlreadyCovers(p, u, n)'
    BY <1>1, <1>2, <1>4, <2>1
       DEF LocksTypeOK, LockExclusion, Grantable, GrantedMode, AlreadyCovers,
           CanUpgrade, CanJoin, LockMode
  <2>3. ~CanUpgrade(p, u, n)'
    BY <1>2, <2>1 DEF CanUpgrade
  <2>4. ~CanJoin(p, u, n)'
    BY <1>1, <1>2, <1>4, <2>1
       DEF LocksTypeOK, LockExclusion, Grantable, GrantedMode, AlreadyCovers,
           CanUpgrade, CanJoin, LockMode
  <2> QED
    BY <1>2, <2>2, <2>3, <2>4 DEF Grantable
<1> QED
  BY <1>3, <1>4

LEMMA LocksInitInv == LocksInit => LocksInv
  BY DEF LocksInit, LocksInv, LocksTypeOK, LockExclusion, NoLostWakeup,
         Phase, NoRequest, LockMode

LEMMA LocksTypeStep ==
    ASSUME LocksTypeOK, LockExclusion, [LocksNext]_lockVars
    PROVE  LocksTypeOK'
<1>1. ASSUME NEW o \in Owner, NEW t \in Table, NEW m \in LockMode,
             Acquire(o, t, m)
      PROVE  LocksTypeOK'
  BY <1>1 DEF Acquire, LocksTypeOK, Phase, NoRequest, LockMode
<1>2. ASSUME NEW o \in Owner, Grant(o) PROVE LocksTypeOK'
  <2>1. phase[o] # "running" /\ Grantable(o, request[o].table, request[o].mode)
    BY <1>2 DEF Grant
  <2>2. /\ request[o].table \in Table
        /\ request[o].mode \in LockMode
    BY <2>1, RequestTyped
  <2>3. GrantedMode(o, request[o].table, request[o].mode) \in LockMode
    BY <2>1, <2>2, GrantEffect
  <2> QED
    BY <1>2, <2>2, <2>3 DEF Grant, Return, LocksTypeOK, Phase, NoRequest, LockMode
<1>3. ASSUME NEW o \in Owner, Wait(o) PROVE LocksTypeOK'
  BY <1>3 DEF Wait, Refused, LocksTypeOK, Phase
<1>4. ASSUME NEW o \in Owner, TimeOut(o) PROVE LocksTypeOK'
  BY <1>4 DEF TimeOut, Refused, Return, LocksTypeOK, Phase, NoRequest, LockMode
<1>5. ASSUME NEW o \in Owner, Expire(o) PROVE LocksTypeOK'
  BY <1>5 DEF Expire, LocksTypeOK, Phase
<1>6. ASSUME NEW o \in Owner, NEW t \in Table, Release(o, t)
      PROVE  LocksTypeOK'
  BY <1>6 DEF Release, Notified, LocksTypeOK, Phase
<1>7. CASE UNCHANGED lockVars
  BY <1>7 DEF lockVars, LocksTypeOK
<1> QED
  BY <1>1, <1>2, <1>3, <1>4, <1>5, <1>6, <1>7 DEF LocksNext

LEMMA LockExclusionStep ==
    ASSUME LocksTypeOK, LockExclusion, [LocksNext]_lockVars
    PROVE  LockExclusion'
<1>1. ASSUME NEW o \in Owner, NEW t \in Table, NEW m \in LockMode,
             Acquire(o, t, m)
      PROVE  LockExclusion'
  BY <1>1 DEF Acquire, LockExclusion
<1>2. ASSUME NEW o \in Owner, Grant(o) PROVE LockExclusion'
  <2> DEFINE t == request[o].table
             m == request[o].mode
  <2>1. /\ t \in Table /\ m \in LockMode /\ Grantable(o, t, m)
    BY <1>2, RequestTyped DEF Grant
  <2>2. /\ GrantedMode(o, t, m) \in LockMode
        /\ GrantedMode(o, t, m) = "EXCLUSIVE" => owners[t] \cup {o} = {o}
    BY <2>1, GrantEffect
  <2>3. /\ owners'[t] = owners[t] \cup {o}
        /\ mode'[t] = GrantedMode(o, t, m)
        /\ \A u \in Table \ {t} : owners'[u] = owners[u] /\ mode'[u] = mode[u]
    BY <1>2, <2>1 DEF Grant, LocksTypeOK
  <2> QED
    BY <2>2, <2>3 DEF LockExclusion, LockMode
<1>3. ASSUME NEW o \in Owner, Wait(o) \/ TimeOut(o) \/ Expire(o)
      PROVE  LockExclusion'
  BY <1>3 DEF Wait, TimeOut, Expire, LockExclusion
<1>4. ASSUME NEW o \in Owner, NEW t \in Table, Release(o, t)
      PROVE  LockExclusion'
  BY <1>4 DEF Release, LockExclusion, LocksTypeOK, LockMode
<1>5. CASE UNCHANGED lockVars
  BY <1>5 DEF lockVars, LockExclusion
<1> QED
  BY <1>1, <1>2, <1>3, <1>4, <1>5 DEF LocksNext

LEMMA NoLostWakeupStep ==
    ASSUME LocksInv, [LocksNext]_lockVars
    PROVE  NoLostWakeup'
<1> USE DEF LocksInv
<1> SUFFICES ASSUME NEW p \in Owner, phase'[p] = "waiting"
             PROVE  ~Grantable(p, request[p].table, request[p].mode)'
  BY DEF NoLostWakeup
<1>1. ASSUME UNCHANGED <<mode, owners>>, request'[p] = request[p],
             ~Grantable(p, request[p].table, request[p].mode)
      PROVE  ~Grantable(p, request[p].table, request[p].mode)'
  BY <1>1 DEF Grantable, AlreadyCovers, CanUpgrade, CanJoin
<1>2. ASSUME NEW o \in Owner, NEW t \in Table, NEW m \in LockMode,
             Acquire(o, t, m)
      PROVE  ~Grantable(p, request[p].table, request[p].mode)'
  <2>1. p # o /\ phase[p] = "waiting" /\ request'[p] = request[p]
    BY <1>2 DEF Acquire, LocksTypeOK
  <2> QED
    BY <1>1, <1>2, <2>1 DEF Acquire, NoLostWakeup
<1>3. ASSUME NEW o \in Owner, Grant(o)
      PROVE  ~Grantable(p, request[p].table, request[p].mode)'
  <2>1. p # o /\ phase[p] = "waiting"
    BY <1>3 DEF Grant, Return, LocksTypeOK
  <2> QED
    BY <1>3, <2>1, GrantWakesNobody DEF NoLostWakeup
<1>4. ASSUME NEW o \in Owner, Wait(o)
      PROVE  ~Grantable(p, request[p].table, request[p].mode)'
  <2>1. p = o \/ phase[p] = "waiting"
    BY <1>4 DEF Wait, LocksTypeOK
  <2>2. ~Grantable(p, request[p].table, request[p].mode)
    BY <1>4, <2>1 DEF Wait, Refused, NoLostWakeup
  <2> QED
    BY <1>1, <1>4, <2>2 DEF Wait
<1>5. ASSUME NEW o \in Owner, TimeOut(o) \/ Expire(o)
      PROVE  ~Grantable(p, request[p].table, request[p].mode)'
  <2>1. phase[p] = "waiting" /\ request'[p] = request[p]
    BY <1>5 DEF TimeOut, Expire, Return, LocksTypeOK
  <2> QED
    BY <1>1, <1>5, <2>1 DEF TimeOut, Expire, NoLostWakeup
<1>6. ASSUME NEW o \in Owner, NEW t \in Table, Release(o, t)
      PROVE  ~Grantable(p, request[p].table, request[p].mode)'
  <2> DEFINE u == request[p].table
  <2>1. phase[p] = "waiting" /\ u # t
    BY <1>6 DEF Release, Notified
  <2>2. u \in Table
    BY <2>1, RequestTyped
  <2>3. owners'[u] = owners[u] /\ mode'[u] = mode[u] /\ request' = request
    BY <1>6, <2>1, <2>2 DEF Release, LocksTypeOK
  <2>4. ~Grantable(p, u, request[p].mode)
    BY <2>1 DEF NoLostWakeup
  <2> QED
    BY <2>3, <2>4 DEF Grantable, AlreadyCovers, CanUpgrade, CanJoin
<1>7. CASE UNCHANGED lockVars
  BY <1>1, <1>7 DEF lockVars, NoLostWakeup
<1> QED
  BY <1>2, <1>3, <1>4, <1>5, <1>6, <1>7 DEF LocksNext

(* TableLock keeps the types of its state and the phases of its callers. *)
THEOREM LocksTypeCorrect == LocksSpec => []LocksTypeOK
<1>1. LocksInit => LocksInv
  BY LocksInitInv
<1>2. LocksInv /\ [LocksNext]_lockVars => LocksInv'
  BY LocksTypeStep, LockExclusionStep, NoLostWakeupStep DEF LocksInv
<1>3. LocksInv => LocksTypeOK
  BY DEF LocksInv
<1> QED
  BY <1>1, <1>2, <1>3, PTL DEF LocksSpec

(* Readers share, a writer is alone, and an unowned lock is free: the states of
   TableLock, whatever the order of joins, upgrades and releases. *)
THEOREM LocksExclude == LocksSpec => []LockExclusion
<1>1. LocksInit => LocksInv
  BY LocksInitInv
<1>2. LocksInv /\ [LocksNext]_lockVars => LocksInv'
  BY LocksTypeStep, LockExclusionStep, NoLostWakeupStep DEF LocksInv
<1>3. LocksInv => LockExclusion
  BY DEF LocksInv
<1> QED
  BY <1>1, <1>2, <1>3, PTL DEF LocksSpec

(* Nobody sleeps in Condition.wait on a lock it could be given: notifying from
   release alone is enough. *)
THEOREM LocksLoseNoWakeup == LocksSpec => []NoLostWakeup
<1>1. LocksInit => LocksInv
  BY LocksInitInv
<1>2. LocksInv /\ [LocksNext]_lockVars => LocksInv'
  BY LocksTypeStep, LockExclusionStep, NoLostWakeupStep DEF LocksInv
<1>3. LocksInv => NoLostWakeup
  BY DEF LocksInv
<1> QED
  BY <1>1, <1>2, <1>3, PTL DEF LocksSpec

LEMMA HoldsAreKeptStep ==
    ASSUME LocksInv, LocksNext, NEW t \in Table
    PROVE  /\ \A o \in owners[t] \ owners'[t] : phase[o] = "running"
           /\ mode[t] = "EXCLUSIVE" => owners'[t] \subseteq owners[t]
<1> USE DEF LocksInv
<1>1. ASSUME NEW o \in Owner,
             \/ \E u \in Table, m \in LockMode : Acquire(o, u, m)
             \/ Wait(o) \/ TimeOut(o) \/ Expire(o)
      PROVE  owners' = owners
  BY <1>1 DEF Acquire, Wait, TimeOut, Expire
<1>2. ASSUME NEW o \in Owner, Grant(o)
      PROVE  /\ owners[t] \subseteq owners'[t]
             /\ mode[t] = "EXCLUSIVE" => owners'[t] = owners[t]
  <2> DEFINE u == request[o].table
             m == request[o].mode
  <2>1. u \in Table /\ m \in LockMode /\ Grantable(o, u, m)
    BY <1>2, RequestTyped DEF Grant
  <2>2. owners' = [owners EXCEPT ![u] = @ \cup {o}]
    BY <1>2 DEF Grant
  <2>3. mode[u] = "EXCLUSIVE" => owners[u] = {o}
    BY <2>1, GrantEffect
  <2> QED
    BY <2>1, <2>2, <2>3 DEF LocksTypeOK
<1>3. ASSUME NEW o \in Owner, NEW u \in Table, Release(o, u)
      PROVE  /\ owners'[t] \subseteq owners[t]
             /\ \A p \in owners[t] \ owners'[t] : phase[p] = "running"
  BY <1>3 DEF Release, LocksTypeOK
<1> QED
  BY <1>1, <1>2, <1>3 DEF LocksNext

(* A hold ends only by its owner's release, and an exclusive lock passes to
   another owner only through the free state. *)
THEOREM LocksKeepHolds == LocksSpec => HoldsAreKept
<1>1. LocksInit => LocksInv
  BY LocksInitInv
<1>2. LocksInv /\ [LocksNext]_lockVars => LocksInv'
  BY LocksTypeStep, LockExclusionStep, NoLostWakeupStep DEF LocksInv
<1>3. LocksInv /\ [LocksNext]_lockVars =>
        [\A t \in Table :
           /\ \A o \in owners[t] \ owners'[t] : phase[o] = "running"
           /\ mode[t] = "EXCLUSIVE" => owners'[t] \subseteq owners[t]]_lockVars
  BY HoldsAreKeptStep
<1> QED
  BY <1>1, <1>2, <1>3, PTL DEF LocksSpec, HoldsAreKept

-------------------------------------------------------------------------------
(* The processors.                                                            *)

(* What a statement may carry besides its tables. *)
Argument == Row \cup Where \cup {"rows", "table"}

Statement ==
    [kind : Statements, tables : (SUBSET Table) \ {{}}, arg : Argument,
     todo : SUBSET Table, indexed : SUBSET Table]

(* Transaction._undo_actions is a sequence, over a set nobody names: what an entry
   holds besides its table depends on the rows. *)
LogTyped == \E Entries : undo \in [Owner -> Seq(Entries)]

(* The types of a session, without the tables. *)
SessionType ==
    /\ pc \in [Owner -> {"idle", "locking", "ready", "undoing", "releasing"}]
    /\ tx \in [Owner -> {"none", "explicit", "load"}]
    /\ stmt \in [Owner -> {NoStmt} \cup Statement]
    /\ held \in [Owner -> [Table -> LockMode \cup {"none"}]]
    /\ LogTyped

(* The request in progress is the next lock of the statement. *)
AsksForNext(s) ==
    phase[s] # "running" =>
        /\ pc[s] = "locking"
        /\ request[s].table \in stmt[s].todo
        /\ request[s].mode = Mode(stmt[s].kind)
        /\ ~LedgerCovers(s, request[s].table)

(* A statement holds what it has locked so far. *)
HoldsItsTables(s) ==
    pc[s] \in {"locking", "ready"} =>
        /\ stmt[s] \in Statement
        /\ stmt[s].todo \subseteq stmt[s].tables
        /\ pc[s] = "ready" => stmt[s].todo = {}
        /\ \A t \in stmt[s].tables \ stmt[s].todo : LedgerCovers(s, t)

(* Strictness: what can still be undone is locked exclusively. *)
LogIsLocked(s) ==
    /\ \A n \in DOMAIN undo[s] : undo[s][n].table \in Table
                                 /\ held[s][undo[s][n].table] = "EXCLUSIVE"
    /\ pc[s] = "releasing" \/ tx[s] = "none" => undo[s] = <<>>

(* release_all ran to its end. *)
IdleIsClean(s) == pc[s] = "idle" /\ tx[s] = "none" => HoldsNothing(s)

Session(s) == AsksForNext(s) /\ HoldsItsTables(s) /\ LogIsLocked(s) /\ IdleIsClean(s)

TxInv ==
    /\ LocksInv
    /\ SessionType
    /\ LedgerAgrees
    /\ \A s \in Owner : Session(s)

-------------------------------------------------------------------------------
(* The first name of a non-empty set of tables exists. *)
LEMMA NextTableToLock ==
    ASSUME NEW s \in Owner, stmt[s].todo \subseteq Table, stmt[s].todo # {}
    PROVE  NextTable(s) \in stmt[s].todo
<1> DEFINE Less == OpToRel(<, Nat)
<1>1. IsWellFoundedOn(Less, Nat)
  BY NatLessThanWellFounded, ZenonT(30)
<1>2. stmt[s].todo \subseteq Nat
  BY TablesAreOrdered
<1>3. PICK t \in stmt[s].todo : \A u \in stmt[s].todo : ~(<<u, t>> \in Less)
  <2> HIDE DEF Less
  <2> QED
    BY <1>1, <1>2, WFMin
<1>4. \A u \in stmt[s].todo : <<u, t>> \in Less <=> u < t
  BY <1>2 DEF OpToRel
<1> HIDE DEF Less
<1>5. ASSUME NEW u \in stmt[s].todo PROVE t <= u
  <2>1. ~(u < t)
    BY <1>3, <1>4
  <2> QED
    BY <1>2, <2>1
<1> QED
  BY <1>5 DEF NextTable

(* Every step of a processor is a step of its lock manager, or none. *)
LEMMA StepOfLocks ==
    ASSUME TxInv, [Next]_vars
    PROVE  [LocksNext]_lockVars
<1>1. ASSUME NEW s \in Owner, ClientStep(s) PROVE UNCHANGED lockVars
  BY <1>1 DEF ClientStep, Begin, End, Abandon, Prepare, CreateTableNow
<1>2. ASSUME NEW s \in Owner, RequestLock(s) PROVE LocksNext
  <2>1. /\ stmt[s].todo \subseteq Table
        /\ stmt[s].todo # {}
    BY <1>2 DEF RequestLock, TxInv, Session, HoldsItsTables, Statement
  <2>2. NextTable(s) \in Table
    BY <2>1, NextTableToLock
  <2>3. Mode(stmt[s].kind) \in LockMode
    BY DEF Mode, LockMode
  <2> QED
    BY <1>2, <2>2, <2>3 DEF RequestLock, LocksNext
<1>3. ASSUME NEW s \in Owner,
             LockGranted(s) \/ LockWaits(s) \/ LockTimedOut(s) \/ LockExpires(s)
      PROVE  LocksNext
  BY <1>3 DEF LockGranted, LockWaits, LockTimedOut, LockExpires, LocksNext
<1>4. ASSUME NEW s \in Owner, NEW t \in Table, ReleaseLock(s, t) PROVE LocksNext
  BY <1>4 DEF ReleaseLock, LocksNext
<1>5. ASSUME NEW s \in Owner,
             \/ SkipLock(s) \/ AllLocked(s)
             \/ ExecuteInsert(s) \/ ExecuteDeleteWhere(s) \/ ExecuteSelect(s) \/ ExecuteDdl(s)
             \/ \E r \in Row : LoadRow(s, r)
             \/ LoadEnds(s) \/ UndoStep(s) \/ UndoEnds(s) \/ StatementEnds(s)
      PROVE  UNCHANGED lockVars
  BY <1>5 DEF SkipLock, AllLocked, ExecuteInsert, ExecuteDeleteWhere, ExecuteSelect,
              ExecuteDdl, LoadRow, LoadEnds, UndoStep, UndoEnds, StatementEnds
<1>6. CASE UNCHANGED vars
  BY <1>6 DEF vars
<1> QED
  BY <1>1, <1>2, <1>3, <1>4, <1>5, <1>6 DEF Next, ProcessorStep

-------------------------------------------------------------------------------
(* What record_insert and record_delete do to the log. *)
LEMMA LogGrows ==
    ASSUME LogTyped, NEW s \in Owner, NEW e, undo' = [undo EXCEPT ![s] = Append(@, e)]
    PROVE  /\ LogTyped'
           /\ Len(undo[s]) \in Nat
           /\ DOMAIN undo[s] = 1 .. Len(undo[s])
           /\ DOMAIN undo'[s] = 1 .. Len(undo[s]) + 1
           /\ undo'[s][Len(undo[s]) + 1] = e
           /\ \A n \in DOMAIN undo[s] : undo'[s][n] = undo[s][n]
<1>1. PICK Entries : undo \in [Owner -> Seq(Entries)]
  BY DEF LogTyped
<1>2. Seq(Entries) \subseteq Seq(Entries \cup {e})
  OBVIOUS
<1>3. undo[s] \in Seq(Entries \cup {e})
  BY <1>1, <1>2
<1>4. undo'[s] = Append(undo[s], e)
  BY <1>1
<1>5. undo' \in [Owner -> Seq(Entries \cup {e})]
  BY <1>1, <1>2, <1>3
<1> QED
  BY <1>3, <1>4, <1>5 DEF LogTyped

(* What a step of rollback does to the log. *)
LEMMA LogShrinks ==
    ASSUME LogTyped, NEW s \in Owner, undo[s] # <<>>, undo' = [undo EXCEPT ![s] = Front(@)]
    PROVE  /\ LogTyped'
           /\ \A n \in DOMAIN undo'[s] : n \in DOMAIN undo[s] /\ undo'[s][n] = undo[s][n]
<1>1. PICK Entries : undo \in [Owner -> Seq(Entries)]
  BY DEF LogTyped
<1>2. /\ Front(undo[s]) \in Seq(Entries)
      /\ DOMAIN Front(undo[s]) = 1 .. Len(undo[s]) - 1
      /\ DOMAIN undo[s] = 1 .. Len(undo[s])
      /\ \A n \in 1 .. Len(undo[s]) - 1 : Front(undo[s])[n] = undo[s][n]
  BY <1>1 DEF Front
<1>3. undo'[s] = Front(undo[s])
  BY <1>1
<1>4. undo' \in [Owner -> Seq(Entries)]
  BY <1>1, <1>2
<1> QED
  BY <1>1, <1>2, <1>3, <1>4 DEF LogTyped

-------------------------------------------------------------------------------
(* A client names at least one table. *)
LEMMA RequestsTyped ==
    ASSUME NEW kind, NEW ask \in Requests(kind)
    PROVE  ask[1] \in (SUBSET Table) \ {{}} /\ ask[2] \in Argument
<1>1. CASE kind = "insert"
  BY <1>1 DEF Requests, Argument
<1>2. CASE kind = "delete"
  BY <1>2 DEF Requests, Argument
<1>3. CASE kind = "select"
  BY <1>3 DEF Requests, Argument
<1>4. CASE kind \notin {"insert", "delete", "select"}
  BY <1>4 DEF Requests, Argument
<1> QED
  BY <1>1, <1>2, <1>3, <1>4

(* What Prepare leaves in stmt is a statement. *)
LEMMA StatementTyped ==
    ASSUME NEW kind \in Statements, NEW ask \in Requests(kind)
    PROVE  StatementOf(kind, ask[1], ask[2]) \in Statement
  BY RequestsTyped DEF StatementOf, Statement

(* SessionType, an action at a time. *)
LEMMA SessionTypeStep ==
    ASSUME TxInv, [Next]_vars
    PROVE  SessionType'
<1> USE DEF TxInv, SessionType
<1>1. ASSUME NEW s \in Owner, Begin(s) \/ Abandon(s)
      PROVE  SessionType'
  BY <1>1, ZenonT(30) DEF Begin, Abandon, Goto, LogTyped
<1>2. ASSUME NEW s \in Owner, NEW kind \in Statements, NEW ask \in Requests(kind),
             Prepare(s, kind, ask[1], ask[2])
      PROVE  SessionType'
  BY <1>2, StatementTyped DEF Prepare, Goto, LogTyped
<1>3. ASSUME NEW s \in Owner, NEW t \in Table, CreateTableNow(s, t)
      PROVE  SessionType'
  BY <1>3 DEF CreateTableNow, LogTyped
<1>4. ASSUME NEW s \in Owner, SkipLock(s) PROVE SessionType'
  <2>1. stmt' = [stmt EXCEPT ![s].todo = @ \ {NextTable(s)}]
    BY <1>4 DEF SkipLock, Locked
  <2>2. stmt[s] \in Statement
    BY <1>4 DEF SkipLock, Session, HoldsItsTables
  <2>3. stmt' \in [Owner -> {NoStmt} \cup Statement]
    BY <2>1, <2>2 DEF Statement
  <2> QED
    BY <1>4, <2>3 DEF SkipLock, LogTyped
<1>5. ASSUME NEW s \in Owner, RequestLock(s) \/ LockWaits(s) \/ LockExpires(s)
      PROVE  SessionType'
  BY <1>5 DEF RequestLock, LockWaits, LockExpires, sessionVars, LogTyped
<1>6. ASSUME NEW s \in Owner, LockGranted(s) PROVE SessionType'
  <2>1. phase[s] # "running"
    BY <1>6 DEF LockGranted, Grant
  <2>2. /\ request[s].table \in Table
        /\ request[s].mode \in LockMode
    BY <2>1, RequestTyped DEF LocksInv
  <2>3. stmt[s] \in Statement
    BY <2>1 DEF Session, AsksForNext, HoldsItsTables
  <2>4. stmt' \in [Owner -> {NoStmt} \cup Statement]
    BY <1>6, <2>3 DEF LockGranted, Locked, Statement
  <2>5. held' \in [Owner -> [Table -> LockMode \cup {"none"}]]
    BY <1>6, <2>2 DEF LockGranted
  <2> QED
    BY <1>6, <2>4, <2>5 DEF LockGranted, LogTyped
<1>7. ASSUME NEW s \in Owner, LockTimedOut(s) \/ AllLocked(s) \/ UndoEnds(s)
      PROVE  SessionType'
  BY <1>7, ZenonT(30) DEF LockTimedOut, AllLocked, UndoEnds, Goto, LogTyped
<1>8. ASSUME NEW s \in Owner, NEW e, Logged(s, e) PROVE LogTyped'
  <2>1. CASE tx[s] = "none"
    BY <1>8, <2>1 DEF Logged, LogTyped
  <2>2. CASE tx[s] # "none"
    BY <1>8, <2>2, LogGrows DEF Logged
  <2> QED
    BY <2>1, <2>2
<1>9. ASSUME NEW s \in Owner, ExecuteInsert(s) PROVE SessionType'
  <2>1. LogTyped'
    BY <1>8, <1>9 DEF ExecuteInsert, LogTyped
  <2> QED
    BY <1>9, <2>1 DEF ExecuteInsert, Goto, Finished, AfterSuccess, AfterError
<1>10. ASSUME NEW s \in Owner, ExecuteDeleteWhere(s) PROVE SessionType'
  <2>1. LogTyped'
    BY <1>8, <1>10 DEF ExecuteDeleteWhere, LogTyped
  <2> QED
    BY <1>10, <2>1 DEF ExecuteDeleteWhere, Goto, Finished, AfterSuccess, AfterError
<1>11. ASSUME NEW s \in Owner, ExecuteSelect(s) \/ ExecuteDdl(s)
       PROVE  SessionType'
  <2>1. /\ UNCHANGED <<tx, held, undo>>
        /\ pc' = [pc EXCEPT ![s] = AfterSuccess(s)]
        /\ stmt' = [stmt EXCEPT ![s] = NoStmt]
    BY <1>11 DEF ExecuteSelect, ExecuteDdl, Goto, Finished
  <2> QED
    BY <2>1 DEF AfterSuccess, LogTyped
<1>12. ASSUME NEW s \in Owner, NEW r \in Row, LoadRow(s, r) PROVE SessionType'
  <2>1. LogTyped'
    BY <1>8, <1>12 DEF LoadRow, LogTyped
  <2> QED
    BY <1>12, <2>1 DEF LoadRow, Goto
<1>13. ASSUME NEW s \in Owner, End(s) \/ LoadEnds(s) PROVE SessionType'
  <2>1. LogTyped'
    <3>1. PICK Entries : undo \in [Owner -> Seq(Entries)]
      BY DEF LogTyped
    <3>2. undo' = [undo EXCEPT ![s] = <<>>]
      BY <1>13 DEF End, LoadEnds
    <3>3. undo' \in [Owner -> Seq(Entries)]
      <4>1. <<>> \in Seq(Entries)
        OBVIOUS
      <4> HIDE DEF TxInv, SessionType
      <4> QED
        BY <3>1, <3>2, <4>1
    <3> QED
      BY <3>3 DEF LogTyped
  <2> QED
    BY <1>13, <2>1 DEF End, LoadEnds, Goto, Finished
<1>14. ASSUME NEW s \in Owner, UndoStep(s) PROVE SessionType'
  BY <1>14, LogShrinks DEF UndoStep
<1>15. ASSUME NEW s \in Owner, NEW t \in Table, ReleaseLock(s, t)
       PROVE  SessionType'
  BY <1>15 DEF ReleaseLock, LogTyped
<1>16. ASSUME NEW s \in Owner, StatementEnds(s) PROVE SessionType'
  BY <1>16 DEF StatementEnds, Goto, Finished, LogTyped
<1>17. CASE UNCHANGED vars
  BY <1>17 DEF vars, sessionVars, LogTyped
<1> QED
  BY <1>1, <1>2, <1>3, <1>4, <1>5, <1>6, <1>7, <1>9, <1>10, <1>11, <1>12, <1>13,
     <1>14, <1>15, <1>16, <1>17
     DEF Next, ClientStep, ProcessorStep

-------------------------------------------------------------------------------
(* The invariant of the lock manager, from its own proofs. *)
LEMMA LocksStep ==
    ASSUME TxInv, [Next]_vars
    PROVE  LocksInv'
<1>1. [LocksNext]_lockVars
  BY StepOfLocks
<1> QED
  BY <1>1, LocksTypeStep, LockExclusionStep, NoLostWakeupStep DEF LocksInv, TxInv

(* ensure_lock asks only for what the ledger does not cover, so what it records is
   the mode the lock manager has given. *)
LEMMA LedgerStepGrant ==
    ASSUME TxInv, NEW s \in Owner, LockGranted(s)
    PROVE  LedgerAgrees'
<1> DEFINE t == request[s].table
           m == request[s].mode
<1> USE DEF TxInv, SessionType
<1>1. /\ t \in Table /\ m \in LockMode
      /\ Grantable(s, t, m)
      /\ owners' = [owners EXCEPT ![t] = @ \cup {s}]
      /\ mode' = [mode EXCEPT ![t] = GrantedMode(s, t, m)]
      /\ held' = [held EXCEPT ![s][t] = m]
  BY RequestTyped DEF LockGranted, Grant, LocksInv
<1>2. held[s][t] # "EXCLUSIVE" /\ held[s][t] # m
  BY DEF LockGranted, Grant, Session, AsksForNext, LedgerCovers
<1>3. ~AlreadyCovers(s, t, m)
  BY <1>1, <1>2 DEF AlreadyCovers, LedgerAgrees, LockMode
<1>4. mode' = [mode EXCEPT ![t] = m]
  BY <1>1, <1>3 DEF GrantedMode
<1>5. ASSUME NEW p \in Owner, p # s, p \in owners[t]
      PROVE  held[p][t] = m
  BY <1>1, <1>3, <1>5
     DEF Grantable, CanUpgrade, CanJoin, LedgerAgrees, LocksInv, LockExclusion
<1>6. ASSUME NEW p \in Owner, NEW u \in Table
      PROVE  /\ held'[p][u] # "none" <=> p \in owners'[u]
             /\ held'[p][u] # "none" => mode'[u] = held'[p][u]
  <2>1. CASE u # t
    BY <1>1, <1>4, <2>1 DEF LedgerAgrees, LocksInv, LocksTypeOK
  <2>2. CASE u = t /\ p = s
    BY <1>1, <1>4, <2>2 DEF LocksInv, LocksTypeOK, LockMode
  <2>3. CASE u = t /\ p # s
    <3>1. held'[p][u] = held[p][u]
      BY <1>1, <2>3
    <3>2. p \in owners'[u] <=> p \in owners[u]
      BY <1>1, <2>3 DEF LocksInv, LocksTypeOK
    <3>3. mode'[u] = m
      BY <1>1, <1>4, <2>3 DEF LocksInv, LocksTypeOK
    <3> QED
      BY <1>5, <2>3, <3>1, <3>2, <3>3 DEF LedgerAgrees
  <2> QED
    BY <2>1, <2>2, <2>3
<1> QED
  BY <1>6 DEF LedgerAgrees

(* A release takes the lock from the ledger and from the lock manager together. *)
LEMMA LedgerStepRelease ==
    ASSUME TxInv, NEW s \in Owner, NEW t \in Table, ReleaseLock(s, t)
    PROVE  LedgerAgrees'
<1> USE DEF TxInv, SessionType
<1>1. /\ owners' = [owners EXCEPT ![t] = @ \ {s}]
      /\ mode' = [mode EXCEPT ![t] = IF owners[t] \ {s} = {} THEN "FREE" ELSE @]
      /\ held' = [held EXCEPT ![s][t] = "none"]
  BY DEF ReleaseLock, Release
<1>2. ASSUME NEW p \in Owner, NEW u \in Table
      PROVE  /\ held'[p][u] # "none" <=> p \in owners'[u]
             /\ held'[p][u] # "none" => mode'[u] = held'[p][u]
  <2>1. CASE u # t
    BY <1>1, <2>1 DEF LedgerAgrees, LocksInv, LocksTypeOK
  <2>2. CASE u = t /\ p = s
    BY <1>1, <2>2 DEF LocksInv, LocksTypeOK
  <2>3. CASE u = t /\ p # s
    <3>1. held'[p][u] = held[p][u]
      BY <1>1, <2>3
    <3>2. p \in owners'[u] <=> p \in owners[u]
      BY <1>1, <2>3 DEF LocksInv, LocksTypeOK
    <3>3. p \in owners[u] => mode'[u] = mode[u]
      BY <1>1, <2>3 DEF LocksInv, LocksTypeOK
    <3> QED
      BY <3>1, <3>2, <3>3 DEF LedgerAgrees
  <2> QED
    BY <2>1, <2>2, <2>3
<1> QED
  BY <1>2 DEF LedgerAgrees

(* Everything else leaves both alone. *)
LEMMA LedgerStep ==
    ASSUME TxInv, [Next]_vars
    PROVE  LedgerAgrees'
<1>1. ASSUME NEW s \in Owner, ClientStep(s) PROVE UNCHANGED <<mode, owners, held>>
  BY <1>1 DEF ClientStep, Begin, End, Abandon, Prepare, CreateTableNow, lockVars
<1>2. ASSUME NEW s \in Owner,
             \/ SkipLock(s) \/ RequestLock(s) \/ LockWaits(s)
             \/ LockTimedOut(s) \/ LockExpires(s) \/ AllLocked(s)
      PROVE  UNCHANGED <<mode, owners, held>>
  BY <1>2 DEF SkipLock, RequestLock, LockWaits, LockTimedOut, LockExpires, AllLocked,
              Acquire, Wait, TimeOut, Expire, lockVars, sessionVars
<1>3. ASSUME NEW s \in Owner,
             \/ ExecuteInsert(s) \/ ExecuteDeleteWhere(s) \/ ExecuteSelect(s) \/ ExecuteDdl(s)
             \/ \E r \in Row : LoadRow(s, r)
             \/ LoadEnds(s) \/ UndoStep(s) \/ UndoEnds(s) \/ StatementEnds(s)
      PROVE  UNCHANGED <<mode, owners, held>>
  BY <1>3 DEF ExecuteInsert, ExecuteDeleteWhere, ExecuteSelect, ExecuteDdl, LoadRow,
              LoadEnds, UndoStep, UndoEnds, StatementEnds, lockVars
<1>4. CASE UNCHANGED vars
  BY <1>4 DEF vars, lockVars, sessionVars, LedgerAgrees, TxInv
<1>5. CASE UNCHANGED <<mode, owners, held>>
  BY <1>5 DEF LedgerAgrees, TxInv
<1> QED
  BY <1>1, <1>2, <1>3, <1>4, <1>5, LedgerStepGrant, LedgerStepRelease
     DEF Next, ProcessorStep

-------------------------------------------------------------------------------
(* A step of one processor leaves the session of another as it is: it can only
   wake it up inside acquire. *)
SameSession(p) ==
    /\ pc'[p] = pc[p] /\ tx'[p] = tx[p] /\ stmt'[p] = stmt[p]
    /\ held'[p] = held[p] /\ undo'[p] = undo[p] /\ request'[p] = request[p]
    /\ phase'[p] = "running" <=> phase[p] = "running"

LEMMA OtherSessions ==
    ASSUME TxInv, NEW s \in Owner, ClientStep(s) \/ ProcessorStep(s) \/ LockExpires(s),
           NEW p \in Owner, p # s
    PROVE  SameSession(p)
<1> USE DEF TxInv, SessionType, LocksInv, LocksTypeOK
<1>1. PICK Entries : undo \in [Owner -> Seq(Entries)]
  BY DEF LogTyped
<1>2. CASE ClientStep(s)
  BY <1>1, <1>2
     DEF ClientStep, Begin, End, Abandon, Prepare, CreateTableNow, Goto, lockVars, SameSession
<1>3. CASE SkipLock(s) \/ AllLocked(s) \/ UndoEnds(s) \/ StatementEnds(s)
  BY <1>3 DEF SkipLock, AllLocked, UndoEnds, StatementEnds, Locked, Goto, Finished, lockVars,
              SameSession
<1>4. CASE RequestLock(s)
  BY <1>4 DEF RequestLock, Acquire, sessionVars, SameSession
<1>5. CASE LockWaits(s) \/ LockExpires(s)
  BY <1>5 DEF LockWaits, LockExpires, Wait, Expire, sessionVars, SameSession
<1>6. CASE LockGranted(s)
  BY <1>6 DEF LockGranted, Grant, Return, Locked, SameSession
<1>7. CASE LockTimedOut(s)
  BY <1>7 DEF LockTimedOut, TimeOut, Return, Goto, SameSession
<1>8. CASE ExecuteInsert(s)
  BY <1>1, <1>8 DEF ExecuteInsert, Logged, Goto, Finished, lockVars, SameSession
<1>9. CASE ExecuteDeleteWhere(s)
  BY <1>1, <1>9 DEF ExecuteDeleteWhere, Logged, Goto, Finished, lockVars, SameSession
<1>10. CASE ExecuteSelect(s) \/ ExecuteDdl(s)
  BY <1>10 DEF ExecuteSelect, ExecuteDdl, Goto, Finished, lockVars, SameSession
<1>11. ASSUME NEW r \in Row, LoadRow(s, r) PROVE SameSession(p)
  BY <1>1, <1>11 DEF LoadRow, Logged, Goto, lockVars, SameSession
<1>12. CASE LoadEnds(s) \/ UndoStep(s)
  BY <1>1, <1>12 DEF LoadEnds, UndoStep, Goto, Finished, lockVars, SameSession
<1>13. ASSUME NEW t \in Table, ReleaseLock(s, t) PROVE SameSession(p)
  BY <1>13 DEF ReleaseLock, Release, Notified, Phase, SameSession
<1> QED
  BY <1>2, <1>3, <1>4, <1>5, <1>6, <1>7, <1>8, <1>9, <1>10, <1>11, <1>12, <1>13
     DEF ProcessorStep

(* A session that nothing touched is still right. *)
LEMMA SameSessionKept ==
    ASSUME NEW p \in Owner, Session(p), SameSession(p)
    PROVE  Session(p)'
<1>1. AsksForNext(p)'
  BY DEF Session, SameSession, AsksForNext, LedgerCovers
<1>2. HoldsItsTables(p)'
  BY DEF Session, SameSession, HoldsItsTables, LedgerCovers
<1>3. LogIsLocked(p)'
  BY DEF Session, SameSession, LogIsLocked
<1>4. IdleIsClean(p)'
  BY DEF Session, SameSession, IdleIsClean, HoldsNothing
<1> QED
  BY <1>1, <1>2, <1>3, <1>4 DEF Session

-------------------------------------------------------------------------------
(* A statement that writes has its table exclusively when it starts to work. *)
LEMMA WriterHolds ==
    ASSUME TxInv, NEW s \in Owner, pc[s] = "ready", stmt[s].kind # "select"
    PROVE  TheTable(s) \in Table /\ held[s][TheTable(s)] = "EXCLUSIVE"
<1>1. /\ stmt[s].tables \in (SUBSET Table) \ {{}}
      /\ stmt[s].todo = {}
      /\ \A t \in stmt[s].tables \ stmt[s].todo : LedgerCovers(s, t)
  BY DEF TxInv, Session, HoldsItsTables, Statement
<1>2. TheTable(s) \in stmt[s].tables
  BY <1>1 DEF TheTable
<1> QED
  BY <1>1, <1>2 DEF LedgerCovers, Mode

(* An entry is logged only for a table that is locked exclusively. *)
LEMMA LoggedIsLocked ==
    ASSUME TxInv, NEW s \in Owner, NEW e, Logged(s, e),
           e.table \in Table, held[s][e.table] = "EXCLUSIVE", held' = held, tx' = tx,
           pc'[s] # "releasing" \/ tx[s] = "none"
    PROVE  LogIsLocked(s)'
<1> USE DEF TxInv, SessionType, Session, LogIsLocked
<1>1. CASE tx[s] = "none"
  <2>1. undo' = undo
    <3>1. PICK Entries : undo \in [Owner -> Seq(Entries)]
      BY DEF LogTyped
    <3> QED
      BY <1>1, <3>1 DEF Logged
  <2> QED
    BY <1>1, <2>1
<1>2. CASE tx[s] # "none"
  <2>1. undo' = [undo EXCEPT ![s] = Append(@, e)]
    BY <1>2 DEF Logged
  <2>2. /\ DOMAIN undo[s] = 1 .. Len(undo[s])
        /\ DOMAIN undo'[s] = 1 .. Len(undo[s]) + 1
        /\ Len(undo[s]) \in Nat
        /\ undo'[s][Len(undo[s]) + 1] = e
        /\ \A n \in DOMAIN undo[s] : undo'[s][n] = undo[s][n]
    BY <2>1, LogGrows
  <2>3. ASSUME NEW n \in DOMAIN undo'[s]
        PROVE  undo'[s][n].table \in Table /\ held[s][undo'[s][n].table] = "EXCLUSIVE"
    <3>1. n \in DOMAIN undo[s] \/ n = Len(undo[s]) + 1
      BY <2>2
    <3> QED
      BY <2>2, <3>1
  <2> QED
    BY <1>2, <2>3
<1> QED
  BY <1>1, <1>2

(* The session of the processor that takes the step: when its client speaks ... *)
LEMMA ClientSession ==
    ASSUME TxInv, NEW s \in Owner, ClientStep(s)
    PROVE  Session(s)'
<1> USE DEF TxInv, SessionType
<1>1. pc[s] = "idle" /\ phase[s] = "running" /\ phase' = phase /\ held' = held
  BY DEF ClientStep, Begin, End, Abandon, Prepare, CreateTableNow, Session, AsksForNext,
         lockVars
<1>2. AsksForNext(s)'
  BY <1>1 DEF AsksForNext
<1>3. CASE Begin(s)
  <2>1. tx[s] = "none" /\ tx'[s] = "explicit" /\ pc' = pc /\ undo' = undo
    BY <1>3 DEF Begin
  <2> QED
    BY <1>1, <1>2, <2>1 DEF Session, HoldsItsTables, LogIsLocked, IdleIsClean
<1>4. CASE End(s)
  <2>1. PICK Entries : undo \in [Owner -> Seq(Entries)]
    BY DEF LogTyped
  <2>2. undo'[s] = <<>> /\ pc'[s] = "releasing"
    BY <1>4, <2>1 DEF End, Goto
  <2> QED
    BY <1>2, <2>2 DEF Session, HoldsItsTables, LogIsLocked, IdleIsClean
<1>5. CASE Abandon(s)
  <2>1. tx[s] = "explicit" /\ tx' = tx /\ undo' = undo /\ pc'[s] = "undoing"
    BY <1>5 DEF Abandon, Goto
  <2> QED
    BY <1>1, <1>2, <2>1 DEF Session, HoldsItsTables, LogIsLocked, IdleIsClean
<1>6. ASSUME NEW kind \in Statements, NEW ask \in Requests(kind),
             Prepare(s, kind, ask[1], ask[2])
      PROVE  Session(s)'
  <2>1. /\ stmt'[s] = StatementOf(kind, ask[1], ask[2])
        /\ pc'[s] = "locking"
        /\ undo' = undo
        /\ tx'[s] = "none" => tx[s] = "none"
    BY <1>6 DEF Prepare, Goto
  <2>2. HoldsItsTables(s)'
    BY <2>1, StatementTyped DEF HoldsItsTables, StatementOf
  <2>3. LogIsLocked(s)'
    BY <1>1, <2>1 DEF Session, LogIsLocked
  <2> QED
    BY <1>2, <2>1, <2>2, <2>3 DEF Session, IdleIsClean
<1>7. ASSUME NEW t \in Table, CreateTableNow(s, t) PROVE Session(s)'
  <2>1. tx' = tx /\ pc' = pc /\ undo' = undo
    BY <1>7 DEF CreateTableNow
  <2> QED
    BY <1>1, <1>2, <2>1
       DEF Session, HoldsItsTables, LogIsLocked, IdleIsClean, HoldsNothing
<1> QED
  BY <1>3, <1>4, <1>5, <1>6, <1>7 DEF ClientStep

(* ... while it takes its locks: a grant never weakens a hold, because a mode the
   ledger covers is never asked for again. *)
LEMMA LockingSession ==
    ASSUME TxInv, NEW s \in Owner,
           \/ SkipLock(s) \/ RequestLock(s) \/ LockGranted(s) \/ LockWaits(s)
           \/ LockTimedOut(s) \/ LockExpires(s) \/ AllLocked(s)
    PROVE  Session(s)'
<1> USE DEF TxInv, SessionType
<1>1. /\ pc[s] = "locking" /\ undo' = undo /\ tx' = tx
      /\ stmt[s] \in Statement
  BY DEF SkipLock, RequestLock, LockGranted, LockWaits, LockTimedOut, LockExpires,
         AllLocked, Grant, Wait, TimeOut, Refused, Expire, sessionVars,
         Session, AsksForNext, HoldsItsTables
<1>2. ASSUME held'[s] = held[s], pc'[s] # "releasing" \/ tx[s] = "none"
      PROVE  LogIsLocked(s)'
  BY <1>1, <1>2 DEF Session, LogIsLocked
<1>3. CASE SkipLock(s)
  <2>1. NextTable(s) \in stmt[s].todo
    BY <1>1, <1>3, NextTableToLock DEF SkipLock, Statement
  <2>2. /\ stmt' = [stmt EXCEPT ![s].todo = @ \ {NextTable(s)}]
        /\ UNCHANGED <<pc, held, phase>>
        /\ phase[s] = "running"
        /\ LedgerCovers(s, NextTable(s))
    BY <1>3 DEF SkipLock, Locked, lockVars
  <2>3. /\ stmt'[s] \in Statement
        /\ stmt'[s].todo = stmt[s].todo \ {NextTable(s)}
        /\ stmt'[s].tables = stmt[s].tables
        /\ stmt'[s].kind = stmt[s].kind
    BY <1>1, <2>2 DEF Statement
  <2>4. HoldsItsTables(s)'
    BY <1>1, <2>1, <2>2, <2>3 DEF Session, HoldsItsTables, LedgerCovers
  <2> QED
    BY <1>1, <1>2, <2>2, <2>4 DEF Session, AsksForNext, IdleIsClean
<1>4. CASE RequestLock(s)
  <2>1. NextTable(s) \in stmt[s].todo
    BY <1>1, <1>4, NextTableToLock DEF RequestLock, Statement
  <2>2. /\ request'[s] = [table |-> NextTable(s), mode |-> Mode(stmt[s].kind)]
        /\ UNCHANGED <<pc, held, stmt>>
        /\ ~LedgerCovers(s, NextTable(s))
    BY <1>4 DEF RequestLock, Acquire, sessionVars, LocksInv, LocksTypeOK
  <2>3. AsksForNext(s)'
    BY <1>1, <2>1, <2>2 DEF AsksForNext, LedgerCovers
  <2>4. HoldsItsTables(s)'
    BY <2>2 DEF Session, HoldsItsTables, LedgerCovers
  <2> QED
    BY <1>1, <1>2, <2>2, <2>3, <2>4 DEF Session, IdleIsClean
<1>5. CASE LockWaits(s) \/ LockExpires(s)
  <2>1. UNCHANGED <<pc, held, stmt, request>> /\ phase[s] # "running"
    BY <1>5 DEF LockWaits, LockExpires, Wait, Refused, Expire, sessionVars
  <2>2. AsksForNext(s)'
    BY <2>1 DEF Session, AsksForNext, LedgerCovers
  <2>3. HoldsItsTables(s)'
    BY <2>1 DEF Session, HoldsItsTables, LedgerCovers
  <2> QED
    BY <1>1, <1>2, <2>1, <2>2, <2>3 DEF Session, IdleIsClean
<1>6. CASE LockGranted(s)
  <2> DEFINE t == request[s].table
  <2>1. /\ phase[s] = "trying" /\ phase'[s] = "running" /\ pc' = pc
        /\ held' = [held EXCEPT ![s][t] = request[s].mode]
        /\ stmt' = [stmt EXCEPT ![s].todo = @ \ {t}]
    BY <1>6 DEF LockGranted, Grant, Return, Locked, LocksInv, LocksTypeOK
  <2>2. /\ t \in stmt[s].todo
        /\ request[s].mode = Mode(stmt[s].kind)
        /\ held[s][t] # "EXCLUSIVE"
    BY <2>1 DEF Session, AsksForNext, LedgerCovers
  <2>3. t \in Table
    BY <1>1, <2>2 DEF Statement
  <2>4. /\ stmt'[s] \in Statement
        /\ stmt'[s].todo = stmt[s].todo \ {t}
        /\ stmt'[s].tables = stmt[s].tables
        /\ stmt'[s].kind = stmt[s].kind
    BY <1>1, <2>1 DEF Statement
  <2>5. /\ held'[s][t] = Mode(stmt[s].kind)
        /\ \A u \in Table \ {t} : held'[s][u] = held[s][u]
    BY <2>1, <2>2, <2>3
  <2>6. HoldsItsTables(s)'
    <3>1. \A u \in stmt[s].tables \ stmt'[s].todo : LedgerCovers(s, u)'
      BY <1>1, <2>4, <2>5 DEF Session, HoldsItsTables, LedgerCovers, Statement
    <3> QED
      BY <1>1, <2>1, <2>4, <3>1 DEF Session, HoldsItsTables
  <2>7. LogIsLocked(s)'
    BY <1>1, <2>1, <2>2, <2>5 DEF Session, LogIsLocked
  <2> QED
    BY <1>1, <2>1, <2>6, <2>7 DEF Session, AsksForNext, IdleIsClean
<1>7. CASE LockTimedOut(s)
  <2>1. /\ phase'[s] = "running" /\ held' = held
        /\ pc'[s] = IF tx[s] = "none" THEN "releasing" ELSE "undoing"
    BY <1>7 DEF LockTimedOut, TimeOut, Return, Goto, LocksInv, LocksTypeOK
  <2> QED
    BY <1>2, <2>1 DEF Session, AsksForNext, HoldsItsTables, IdleIsClean
<1>8. CASE AllLocked(s)
  <2>1. /\ UNCHANGED <<phase, held, stmt>> /\ phase[s] = "running"
        /\ pc'[s] = "ready" /\ stmt[s].todo = {}
    BY <1>8 DEF AllLocked, Goto, lockVars
  <2>2. HoldsItsTables(s)'
    BY <1>1, <2>1 DEF Session, HoldsItsTables, LedgerCovers
  <2> QED
    BY <1>2, <2>1, <2>2 DEF Session, AsksForNext, IdleIsClean
<1> QED
  BY <1>3, <1>4, <1>5, <1>6, <1>7, <1>8

(* ... while it works. *)
LEMMA WorkingSession ==
    ASSUME TxInv, NEW s \in Owner,
           \/ ExecuteInsert(s) \/ ExecuteDeleteWhere(s) \/ ExecuteSelect(s) \/ ExecuteDdl(s)
           \/ \E r \in Row : LoadRow(s, r)
           \/ LoadEnds(s)
    PROVE  Session(s)'
<1> USE DEF TxInv, SessionType
<1>1. pc[s] = "ready" /\ held' = held /\ tx' = tx /\ phase' = phase
  BY DEF ExecuteInsert, ExecuteDeleteWhere, ExecuteSelect, ExecuteDdl, LoadRow, LoadEnds,
         lockVars
<1>2. phase'[s] = "running" /\ AsksForNext(s)'
  BY <1>1 DEF Session, AsksForNext
<1>3. ASSUME pc'[s] \in {"releasing", "undoing", "idle"},
             pc'[s] = "idle" => tx[s] # "none",
             LogIsLocked(s)'
      PROVE  Session(s)'
  BY <1>1, <1>2, <1>3 DEF Session, HoldsItsTables, IdleIsClean
<1>4. ASSUME undo' = undo, pc'[s] # "releasing" \/ tx[s] = "none"
      PROVE  LogIsLocked(s)'
  BY <1>1, <1>4 DEF Session, LogIsLocked
<1>5. ASSUME NEW kind, NEW cs, NEW wi, stmt[s].kind # "select",
             Logged(s, UndoEntry(kind, TheTable(s), cs, wi)),
             pc'[s] # "releasing" \/ tx[s] = "none"
      PROVE  LogIsLocked(s)'
  <2>1. UndoEntry(kind, TheTable(s), cs, wi).table = TheTable(s)
    BY DEF UndoEntry
  <2> QED
    BY <1>1, <1>5, <2>1, WriterHolds, LoggedIsLocked
<1>6. CASE ExecuteInsert(s)
  <2>1. /\ stmt[s].kind # "select"
        /\ pc'[s] = AfterSuccess(s) \/ pc'[s] = AfterError(s)
    BY <1>6 DEF ExecuteInsert, Goto
  <2>2. /\ pc'[s] \in {"releasing", "undoing", "idle"}
        /\ pc'[s] = "idle" => tx[s] # "none"
        /\ pc'[s] = "releasing" => tx[s] = "none"
    BY <2>1 DEF AfterSuccess, AfterError
  <2>3. LogIsLocked(s)'
    BY <1>4, <1>5, <1>6, <2>1, <2>2 DEF ExecuteInsert
  <2> QED
    BY <1>3, <2>2, <2>3
<1>7. CASE ExecuteDeleteWhere(s)
  <2>1. /\ stmt[s].kind # "select"
        /\ pc'[s] = AfterSuccess(s) \/ pc'[s] = AfterError(s)
    BY <1>7 DEF ExecuteDeleteWhere, Goto
  <2>2. /\ pc'[s] \in {"releasing", "undoing", "idle"}
        /\ pc'[s] = "idle" => tx[s] # "none"
        /\ pc'[s] = "releasing" => tx[s] = "none"
    BY <2>1 DEF AfterSuccess, AfterError
  <2>3. LogIsLocked(s)'
    BY <1>4, <1>5, <1>7, <2>1, <2>2 DEF ExecuteDeleteWhere
  <2> QED
    BY <1>3, <2>2, <2>3
<1>8. CASE ExecuteSelect(s) \/ ExecuteDdl(s)
  <2>1. undo' = undo /\ pc'[s] = AfterSuccess(s)
    BY <1>8 DEF ExecuteSelect, ExecuteDdl, Goto
  <2> QED
    BY <1>3, <1>4, <2>1 DEF AfterSuccess
<1>9. ASSUME NEW r \in Row, LoadRow(s, r) PROVE Session(s)'
  <2>1. /\ stmt[s].kind # "select" /\ stmt' = stmt
        /\ pc'[s] = "ready" \/ (pc'[s] = "undoing" /\ tx[s] # "none")
    BY <1>9 DEF LoadRow, Loads, Goto
  <2>2. LogIsLocked(s)'
    BY <1>4, <1>5, <1>9, <2>1 DEF LoadRow
  <2>3. HoldsItsTables(s)'
    BY <1>1, <2>1 DEF Session, HoldsItsTables, LedgerCovers
  <2> QED
    BY <1>1, <1>2, <2>1, <2>2, <2>3 DEF Session, IdleIsClean
<1>10. CASE LoadEnds(s)
  <2>1. PICK Entries : undo \in [Owner -> Seq(Entries)]
    BY DEF LogTyped
  <2>2. undo'[s] = <<>> /\ pc'[s] = "releasing"
    BY <1>10, <2>1 DEF LoadEnds, Goto
  <2> QED
    BY <1>3, <2>2 DEF LogIsLocked
<1> QED
  BY <1>6, <1>7, <1>8, <1>9, <1>10

(* ... while it is undone and lets go: no lock is released before the log is empty. *)
LEMMA EndingSession ==
    ASSUME TxInv, NEW s \in Owner,
           \/ UndoStep(s) \/ UndoEnds(s) \/ StatementEnds(s)
           \/ \E t \in Table : ReleaseLock(s, t)
    PROVE  Session(s)'
<1> USE DEF TxInv, SessionType
<1>1. pc[s] \in {"undoing", "releasing"} /\ phase[s] = "running"
  BY DEF UndoStep, UndoEnds, StatementEnds, ReleaseLock, Session, AsksForNext
<1>2. CASE UndoStep(s)
  <2>1. /\ UNCHANGED <<pc, tx, held, phase>> /\ pc[s] = "undoing"
        /\ undo[s] # <<>> /\ undo' = [undo EXCEPT ![s] = Front(@)]
    BY <1>2 DEF UndoStep, lockVars
  <2>2. \A n \in DOMAIN undo'[s] : n \in DOMAIN undo[s] /\ undo'[s][n] = undo[s][n]
    BY <2>1, LogShrinks
  <2>3. tx[s] # "none"
    BY <2>1 DEF Session, LogIsLocked
  <2>4. LogIsLocked(s)'
    BY <2>1, <2>2, <2>3 DEF Session, LogIsLocked
  <2> QED
    BY <1>1, <2>1, <2>4 DEF Session, AsksForNext, HoldsItsTables, IdleIsClean
<1>3. CASE UndoEnds(s)
  <2>1. /\ UNCHANGED <<tx, held, undo, phase>>
        /\ undo[s] = <<>> /\ pc'[s] = "releasing"
    BY <1>3 DEF UndoEnds, Goto, lockVars
  <2> QED
    BY <1>1, <2>1 DEF Session, AsksForNext, HoldsItsTables, LogIsLocked, IdleIsClean
<1>4. CASE StatementEnds(s)
  <2>1. /\ UNCHANGED <<held, undo, phase>>
        /\ pc[s] = "releasing" /\ HoldsNothing(s)
        /\ tx'[s] = "none" /\ pc'[s] = "idle"
    BY <1>4 DEF StatementEnds, Goto, lockVars
  <2> QED
    BY <1>1, <2>1
       DEF Session, AsksForNext, HoldsItsTables, LogIsLocked, IdleIsClean, HoldsNothing
<1>5. ASSUME NEW t \in Table, ReleaseLock(s, t) PROVE Session(s)'
  <2>1. UNCHANGED <<pc, tx, undo>> /\ pc[s] = "releasing"
    BY <1>5 DEF ReleaseLock
  <2>2. phase'[s] = "running"
    BY <1>1, <1>5 DEF ReleaseLock, Release, Notified
  <2>3. undo[s] = <<>>
    BY <2>1 DEF Session, LogIsLocked
  <2> QED
    BY <2>1, <2>2, <2>3 DEF Session, AsksForNext, HoldsItsTables, LogIsLocked, IdleIsClean
<1> QED
  BY <1>2, <1>3, <1>4, <1>5

(* The step of one processor keeps every session right. *)
LEMMA SessionStep ==
    ASSUME TxInv, [Next]_vars, NEW p \in Owner
    PROVE  Session(p)'
<1>1. CASE UNCHANGED vars
  <2>1. SameSession(p)
    BY <1>1 DEF vars, lockVars, sessionVars, SameSession
  <2> QED
    BY <2>1, SameSessionKept DEF TxInv
<1>2. ASSUME NEW s \in Owner, ClientStep(s) \/ ProcessorStep(s) \/ LockExpires(s)
      PROVE  Session(p)'
  <2>1. CASE p # s
    BY <1>2, <2>1, OtherSessions, SameSessionKept DEF TxInv
  <2>2. CASE p = s
    BY <1>2, <2>2, ClientSession, LockingSession, WorkingSession, EndingSession
       DEF ProcessorStep
  <2> QED
    BY <2>1, <2>2
<1> QED
  BY <1>1, <1>2 DEF Next

-------------------------------------------------------------------------------
(* TxInv is inductive. *)
LEMMA InitInv == Init => TxInv
<1> SUFFICES ASSUME Init PROVE TxInv
  OBVIOUS
<1>1. LocksInv
  BY LocksInitInv DEF Init
<1>2. SessionType
  <2>1. <<>> \in Seq({})
    OBVIOUS
  <2>2. undo \in [Owner -> Seq({})]
    BY <2>1 DEF Init
  <2> QED
    BY <2>2 DEF Init, SessionType, LogTyped
<1>3. LedgerAgrees
  BY DEF Init, LocksInit, LedgerAgrees
<1>4. ASSUME NEW s \in Owner PROVE Session(s)
  BY DEF Init, LocksInit, Session, AsksForNext, HoldsItsTables, LogIsLocked, IdleIsClean,
         HoldsNothing
<1> QED
  BY <1>1, <1>2, <1>3, <1>4 DEF TxInv

LEMMA InvStep == TxInv /\ [Next]_vars => TxInv'
  BY LocksStep, SessionTypeStep, LedgerStep, SessionStep DEF TxInv

(* The processors drive the LockManager only through acquire and release, one call at
   a time per owner, so what is proved above of the lock manager holds of them. *)
THEOREM TxUsesLocks == Spec => LocksSpec
<1>1. Init => LocksInit
  BY DEF Init
<1>2. TxInv /\ [Next]_vars => [LocksNext]_lockVars
  BY StepOfLocks
<1> QED
  BY <1>1, <1>2, InitInv, InvStep, PTL DEF Spec, LocksSpec

(* Transaction._locked_tables and the lock manager agree after any sequence of
   grants, upgrades, timeouts, aborts and releases. *)
THEOREM TxLedgerAgrees == Spec => []LedgerAgrees
<1>1. TxInv => LedgerAgrees
  BY DEF TxInv
<1> QED
  BY <1>1, InitInv, InvStep, PTL DEF Spec

(* However a statement or a transaction ends (an answer, an exception, a timeout, an
   abandoned transaction), its processor owns no lock once it is idle. *)
THEOREM TxNoLockLeak == Spec => []NoLockLeak
<1>1. TxInv => NoLockLeak
  BY DEF TxInv, Session, IdleIsClean, HoldsNothing, LedgerAgrees, NoLockLeak
<1> QED
  BY <1>1, InitInv, InvStep, PTL DEF Spec

(* Two sessions on the same table, one of which writes it, are the same session. *)
LEMMA InvIsolates == TxInv => SharedOnlyByReaders
<1> SUFFICES ASSUME TxInv PROVE SharedOnlyByReaders
  OBVIOUS
<1> DEFINE working(s) == IF pc[s] = "ready" THEN stmt[s].tables ELSE {}
           writing(s) == {t \in Table : Writes(s, t) # {}}
                           \cup (IF stmt[s].kind = "select" THEN {} ELSE working(s))
<1>1. ASSUME NEW s \in Owner, NEW t \in working(s)
      PROVE  t \in Table /\ s \in owners[t]
  BY <1>1 DEF TxInv, Session, HoldsItsTables, Statement, LedgerCovers, LedgerAgrees, Mode
<1>2. ASSUME NEW s \in Owner, NEW t \in writing(s)
      PROVE  t \in Table /\ s \in owners[t] /\ mode[t] = "EXCLUSIVE"
  <2>1. CASE t \in Table /\ Writes(s, t) # {}
    BY <2>1 DEF TxInv, Session, LogIsLocked, Writes, LedgerAgrees
  <2>2. CASE t \in working(s) /\ stmt[s].kind # "select"
    <3>1. LedgerCovers(s, t)
      BY <2>2 DEF TxInv, Session, HoldsItsTables
    <3> QED
      BY <1>1, <2>2, <3>1 DEF TxInv, LedgerCovers, LedgerAgrees, Mode
  <2> QED
    BY <1>2, <2>1, <2>2
<1>3. ASSUME NEW s1 \in Owner, NEW s2 \in Owner, NEW t,
             t \in writing(s1), t \in writing(s2) \cup working(s2)
      PROVE  s1 = s2
  <2>1. t \in Table /\ s1 \in owners[t] /\ s2 \in owners[t] /\ mode[t] = "EXCLUSIVE"
    <3> HIDE DEF working, writing
    <3> QED
      BY <1>1, <1>2, <1>3
  <2> QED
    BY <2>1 DEF TxInv, LocksInv, LockExclusion
<1> HIDE DEF working, writing
<1>4. \A s1, s2 \in Owner : s1 # s2 => writing(s1) \cap (writing(s2) \cup working(s2)) = {}
  BY <1>3
<1> QED
  BY <1>4 DEF SharedOnlyByReaders, working, writing

(* No statement reads or writes a table that another processor is writing or has
   uncommitted writes on. *)
THEOREM TxIsolatesWork == Spec => []SharedOnlyByReaders
  BY InvIsolates, InitInv, InvStep, PTL DEF Spec

(* A processor loses a lock only by its own release, and a timed-out upgrade keeps
   the SHARED hold it started from. *)
THEOREM TxKeepsHolds == Spec => HoldsAreKept
  BY TxUsesLocks, LocksKeepHolds


-------------------------------------------------------------------------------
(***************************************************************************)
(* What the tables contain while processors work on them, abort and        *)
(* restart, for any number of owners, tables, rows and writes: keys stay   *)
(* unique whatever the clients send; and, when no CREATE INDEX runs beside *)
(* and no transaction deletes what it inserted, every index mirrors its    *)
(* table, an undo never changes what is committed, and every step is one   *)
(* of AtomicStore.  Without those two hypotheses the last three are false: *)
(* the runs tx_stale_catalog and tx_stale_rid are about that.              *)
(*                                                                         *)
(* First what each call of TableDml does to a table; then what an undo log *)
(* can bring back; then the steps, over the locks.                         *)
(***************************************************************************)

EntryType == [val : Val, slot : Slot]

TableType ==
    [exists : BOOLEAN, indexed : BOOLEAN, slots : [Slot -> Row \cup {NoRow}],
     entries : SUBSET EntryType]

KeysApart(T) == \A i, j \in UsedSlots(T) : T.slots[i].key = T.slots[j].key => i = j

(* Nothing is left of a table that was dropped. *)
AbsentIsEmpty(T) == ~T.exists => UsedSlots(T) = {} /\ ~T.indexed /\ T.entries = {}

SoundTable(T) == T \in TableType /\ KeysApart(T) /\ AbsentIsEmpty(T)

-------------------------------------------------------------------------------
(* INSERT. *)

(* A table whose page is not full has a first free slot; the page is not full
   because a key that is not in it is one of at most Slots keys. *)
LEMMA RoomForAKey ==
    ASSUME NEW T, T \in TableType, KeysApart(T), NEW k \in Key, ~HasKey(T, k)
    PROVE  FirstFree(T) \in Slot /\ T.slots[FirstFree(T)] = NoRow
<1> DEFINE free == Slot \ UsedSlots(T)
<1>0. T.slots \in [Slot -> Row \cup {NoRow}]
  BY DEF TableType
<1>1. free # {}
  <2> SUFFICES ASSUME free = {} PROVE FALSE
    OBVIOUS
  <2> DEFINE f == [s \in Slot |-> T.slots[s].key]
             others == Key \ {k}
  <2>1. ASSUME NEW s \in Slot
        PROVE  s \in UsedSlots(T) /\ T.slots[s].key \in others
    <3>1. s \in UsedSlots(T)
      OBVIOUS
    <3>2. T.slots[s] \in Row /\ T.slots[s] \in RowsOf(T)
      BY <1>0, <3>1 DEF UsedSlots, RowsOf
    <3>3. T.slots[s].key # k
      BY <3>2 DEF HasKey
    <3> QED BY <3>1, <3>2, <3>3 DEF Row
  <2>2. f \in Injection(Slot, others)
    BY <2>1 DEF Injection, IsInjective, KeysApart
  <2>3. IsFiniteSet(Key) /\ Slots \in Nat /\ Cardinality(Key) <= Slots
    BY PageAssumption
  <2>4. IsFiniteSet(others) /\ Cardinality(others) = Cardinality(Key) - 1 /\ Cardinality(Key) \in Nat
    BY <2>3, FS_RemoveElement, FS_CardinalityType
  <2>5. IsFiniteSet(Slot) /\ Cardinality(Slot) = Slots
    BY <2>3, FS_Interval DEF Slot
  <2>6. Cardinality(Slot) <= Cardinality(others)
    BY <2>2, <2>4, FS_Injection
  <2> QED BY <2>3, <2>4, <2>5, <2>6
<1>2. free \in SUBSET Nat
  BY PageAssumption DEF Slot
<1> HIDE DEF free
<1>3. \E i \in free : \A j \in free : i <= j
  BY <1>1, <1>2, LeastOf
<1>4. FirstFree(T) \in free
  <2>1. FirstFree(T) = CHOOSE i \in free : \A j \in free : i <= j
    BY DEF FirstFree, free
  <2> QED BY <1>3, <2>1
<1> QED BY <1>4 DEF free, UsedSlots

(* The table with row r in slot f. *)
Put(T, f, r, w) ==
    [T EXCEPT !.slots[f] = r,
              !.entries = IF w THEN @ \cup {[val |-> r.val, slot |-> f]} ELSE @]

LEMMA PutKeeps ==
    ASSUME NEW T, SoundTable(T), T.exists, NEW f \in Slot, T.slots[f] = NoRow,
           NEW r \in Row, ~HasKey(T, r.key), NEW w \in BOOLEAN
    PROVE  /\ SoundTable(Put(T, f, r, w))
           /\ Put(T, f, r, w).exists = T.exists
           /\ Put(T, f, r, w).indexed = T.indexed
           /\ Put(T, f, r, w).slots = [T.slots EXCEPT ![f] = r]
           /\ UsedSlots(Put(T, f, r, w)) = UsedSlots(T) \cup {f}
           /\ RowsOf(Put(T, f, r, w)) = RowsOf(T) \cup {r}
           /\ w = T.indexed /\ IndexMirrors(T) => IndexMirrors(Put(T, f, r, w))
<1> DEFINE U == Put(T, f, r, w)
           e == [val |-> r.val, slot |-> f]
<1>1. /\ T \in TableType /\ KeysApart(T)
      /\ T.slots \in [Slot -> Row \cup {NoRow}]
      /\ T.entries \in SUBSET EntryType
  BY DEF SoundTable, TableType
<1>2. /\ U.exists = T.exists /\ U.indexed = T.indexed
      /\ U.slots = [T.slots EXCEPT ![f] = r]
      /\ U.entries = IF w THEN T.entries \cup {e} ELSE T.entries
  BY <1>1 DEF Put, TableType
<1>3. U \in TableType
  <2>1. e \in EntryType
    BY DEF EntryType, Row
  <2>2. U.slots \in [Slot -> Row \cup {NoRow}] /\ U.entries \in SUBSET EntryType
    BY <1>1, <1>2, <2>1
  <2>3. \A X \in TableType, s \in [Slot -> Row \cup {NoRow}], n \in SUBSET EntryType :
            [X EXCEPT !.slots = s, !.entries = n] \in TableType
    BY DEF TableType
  <2>4. U = [T EXCEPT !.slots = U.slots, !.entries = U.entries]
    BY <1>1, <1>2 DEF Put, TableType
  <2> HIDE DEF U, e
  <2> DEFINE s == U.slots
             n == U.entries
  <2>5. s \in [Slot -> Row \cup {NoRow}] /\ n \in SUBSET EntryType
    BY <2>2
  <2>6. U = [T EXCEPT !.slots = s, !.entries = n]
    BY <2>4
  <2> HIDE DEF s, n
  <2> QED BY <1>1, <2>3, <2>5, <2>6, ZenonT(30)
<1> HIDE DEF U, e
<1>4. r # NoRow /\ \A i \in Slot : U.slots[i] = IF i = f THEN r ELSE T.slots[i]
  BY <1>1, <1>2, NoRowIsNoRow
<1>5. UsedSlots(U) = UsedSlots(T) \cup {f} /\ f \notin UsedSlots(T)
  BY <1>4 DEF UsedSlots
<1>6. RowsOf(U) = RowsOf(T) \cup {r}
  <2>1. \A i \in UsedSlots(T) : U.slots[i] = T.slots[i]
    BY <1>4, <1>5 DEF UsedSlots
  <2>2. U.slots[f] = r
    BY <1>4
  <2> QED BY <1>5, <2>1, <2>2 DEF RowsOf
<1>7. KeysApart(U)
  <2>1. \A i \in UsedSlots(T) : U.slots[i] = T.slots[i] /\ T.slots[i].key # r.key
    BY <1>4, <1>5 DEF UsedSlots, RowsOf, HasKey
  <2>2. U.slots[f] = r
    BY <1>4
  <2> QED BY <1>1, <1>5, <2>1, <2>2 DEF KeysApart
<1>8. ASSUME w = T.indexed, IndexMirrors(T) PROVE IndexMirrors(U)
  <2> SUFFICES ASSUME T.indexed
               PROVE  U.entries = {[val |-> U.slots[i].val, slot |-> i] : i \in UsedSlots(U)}
    BY <1>2 DEF IndexMirrors
  <2>1. U.entries = {[val |-> T.slots[i].val, slot |-> i] : i \in UsedSlots(T)} \cup {e}
    BY <1>2, <1>8 DEF IndexMirrors
  <2>2. \A i \in UsedSlots(T) : U.slots[i] = T.slots[i]
    BY <1>4, <1>5 DEF UsedSlots
  <2>3. e = [val |-> U.slots[f].val, slot |-> f]
    BY <1>4 DEF e
  <2> QED BY <1>5, <2>1, <2>2, <2>3
<1>9. SoundTable(U)
  BY <1>2, <1>3, <1>7 DEF SoundTable, AbsentIsEmpty
<1> QED BY <1>2, <1>5, <1>6, <1>8, <1>9 DEF U

(* insert_with_indexes puts a row in a free slot, or changes nothing. *)
LEMMA InsertOutcome ==
    ASSUME NEW T, SoundTable(T), NEW r \in Row, NEW w \in BOOLEAN
    PROVE  \/ /\ InsertWithIndexes(T, r, w) = Raise(T)
              /\ ~HandlesOpen(T, w) \/ HasKey(T, r.key)
           \/ \E f \in Slot :
                /\ T.slots[f] = NoRow /\ ~HasKey(T, r.key) /\ T.exists /\ (w => T.indexed)
                /\ InsertWithIndexes(T, r, w) =
                     Done(Put(T, f, r, w), <<[slot |-> f, row |-> r]>>)
<1>1. CASE ~HandlesOpen(T, w) \/ HasKey(T, r.key)
  BY <1>1 DEF InsertWithIndexes
<1>2. CASE HandlesOpen(T, w) /\ ~HasKey(T, r.key)
  <2> DEFINE f == FirstFree(T)
  <2>1. f \in Slot /\ T.slots[f] = NoRow
    <3>1. r.key \in Key
      BY DEF Row
    <3> QED BY <1>2, <3>1, RoomForAKey DEF SoundTable
  <2>2. InsertWithIndexes(T, r, w) = Done(Put(T, f, r, w), <<[slot |-> f, row |-> r]>>)
    BY <1>2 DEF InsertWithIndexes, Put, EntryFor
  <2> QED BY <1>2, <2>1, <2>2 DEF HandlesOpen
<1> QED BY <1>1, <1>2

-------------------------------------------------------------------------------
(* DELETE. *)

KeysOf(cs) == {cs[i].row.key : i \in DOMAIN cs}

CandidateRows(cs) == {cs[i].row : i \in DOMAIN cs}

(* The candidates are where the table has them. *)
InPlace(T, cs) == \A i \in DOMAIN cs : T.slots[cs[i].slot] = cs[i].row

(* The table without the rows whose key is in ks, and without some entries. *)
Take(T, ks, gone) ==
    [T EXCEPT !.slots = [i \in Slot |-> IF @[i] # NoRow /\ @[i].key \in ks THEN NoRow ELSE @[i]],
              !.entries = @ \ gone]

LEMMA TakeKeeps ==
    ASSUME NEW T, SoundTable(T), T.exists, NEW ks, NEW gone
    PROVE  /\ SoundTable(Take(T, ks, gone))
           /\ Take(T, ks, gone).exists = T.exists
           /\ Take(T, ks, gone).indexed = T.indexed
           /\ Take(T, ks, gone).entries = T.entries \ gone
           /\ UsedSlots(Take(T, ks, gone)) = {i \in UsedSlots(T) : T.slots[i].key \notin ks}
           /\ \A i \in UsedSlots(Take(T, ks, gone)) : Take(T, ks, gone).slots[i] = T.slots[i]
           /\ RowsOf(Take(T, ks, gone)) = {r \in RowsOf(T) : r.key \notin ks}
<1> DEFINE U == Take(T, ks, gone)
           s == [i \in Slot |-> IF T.slots[i] # NoRow /\ T.slots[i].key \in ks THEN NoRow ELSE T.slots[i]]
           n == T.entries \ gone
<1>1. /\ T \in TableType /\ KeysApart(T)
      /\ T.slots \in [Slot -> Row \cup {NoRow}]
      /\ T.entries \in SUBSET EntryType
  BY DEF SoundTable, TableType
<1>2. /\ U.exists = T.exists /\ U.indexed = T.indexed
      /\ U.slots = s /\ U.entries = n
      /\ U = [T EXCEPT !.slots = s, !.entries = n]
  BY <1>1 DEF Take, TableType
<1>3. U \in TableType
  <2>1. \A X \in TableType, a \in [Slot -> Row \cup {NoRow}], b \in SUBSET EntryType :
            [X EXCEPT !.slots = a, !.entries = b] \in TableType
    BY DEF TableType
  <2>2. s \in [Slot -> Row \cup {NoRow}] /\ n \in SUBSET EntryType
    BY <1>1
  <2>3. T \in TableType /\ U = [T EXCEPT !.slots = s, !.entries = n]
    BY <1>1, <1>2
  <2> HIDE DEF s, n, U
  <2> QED BY <2>1, <2>2, <2>3, ZenonT(30)
<1>4. \A i \in Slot : U.slots[i] = IF T.slots[i] # NoRow /\ T.slots[i].key \in ks THEN NoRow ELSE T.slots[i]
  BY <1>2
<1>5. U.entries = T.entries \ gone
  BY <1>2
<1> HIDE DEF U, s, n
<1>6. UsedSlots(U) = {i \in UsedSlots(T) : T.slots[i].key \notin ks}
  BY <1>4 DEF UsedSlots
<1>7. \A i \in UsedSlots(U) : i \in UsedSlots(T) /\ U.slots[i] = T.slots[i]
  BY <1>4, <1>6 DEF UsedSlots
<1>8. RowsOf(U) = {r \in RowsOf(T) : r.key \notin ks}
  BY <1>6, <1>7 DEF RowsOf
<1>9. SoundTable(U)
  <2>1. KeysApart(U)
    BY <1>1, <1>7 DEF KeysApart
  <2> QED BY <1>2, <1>3, <2>1 DEF SoundTable, AbsentIsEmpty
<1> QED BY <1>2, <1>5, <1>6, <1>7, <1>8, <1>9 DEF U

(* delete_with_indexes takes the rows and their entries, or raises; when it raises
   the rows are those there were. *)
LEMMA DeleteOutcome ==
    ASSUME NEW T, SoundTable(T), NEW cs \in Seq(Candidate), NEW w \in BOOLEAN
    PROVE  \/ /\ ~DeleteWithIndexes(T, cs, w).ok
              /\ DeleteWithIndexes(T, cs, w).table = T
           \/ /\ T.exists
              /\ ~DeleteWithIndexes(T, cs, w).ok
              /\ \E gone : DeleteWithIndexes(T, cs, w).table = Take(T, {}, gone)
           \/ /\ T.exists
              /\ \E gone : DeleteWithIndexes(T, cs, w) = Done(Take(T, KeysOf(cs), gone), cs)
<1> DEFINE D == DeleteWithIndexes(T, cs, w)
           keys == {cs[i].row.key : i \in DOMAIN cs}
           lost == {EntryFor(cs[i]) : i \in {j \in DOMAIN cs : T.slots[cs[j].slot] = NoRow}}
           bad == ~HandlesOpen(T, w) \/ (w /\ \E i \in DOMAIN cs : EntryFor(cs[i]) \notin T.entries)
           missing == \E i \in DOMAIN cs : ~HasKey(T, cs[i].row.key)
           gone == IF w THEN {EntryFor(cs[i]) : i \in DOMAIN cs} ELSE {}
<1>1. /\ T \in TableType
      /\ T.slots \in [Slot -> Row \cup {NoRow}]
  BY DEF SoundTable, TableType
<1>2. CASE bad
  BY <1>2 DEF DeleteWithIndexes, Raise
<1>3. CASE ~bad /\ missing
  <2>1. T.exists
    BY <1>3 DEF HandlesOpen
  <2>2. D = Raise(IF w THEN [T EXCEPT !.entries = @ \ lost] ELSE T)
    BY <1>3 DEF DeleteWithIndexes
  <2>3. Take(T, {}, lost) = [T EXCEPT !.entries = @ \ lost]
    <3> DEFINE same == [i \in Slot |-> IF T.slots[i] # NoRow /\ T.slots[i].key \in {} THEN NoRow ELSE T.slots[i]]
    <3>1. same = T.slots
      BY <1>1
    <3>2. Take(T, {}, lost) = [T EXCEPT !.slots = same, !.entries = @ \ lost]
      BY <1>1 DEF Take
    <3> HIDE DEF same, lost
    <3> QED BY <1>1, <3>1, <3>2 DEF TableType
  <2> QED BY <2>1, <2>2, <2>3 DEF Raise
<1>4. CASE ~bad /\ ~missing
  <2>1. T.exists
    BY <1>4 DEF HandlesOpen
  <2>2. D = Done(Without(T, cs, w), cs)
    BY <1>4 DEF DeleteWithIndexes
  <2>3. Without(T, cs, w) = Take(T, keys, gone)
    <3>1. Without(T, cs, w) =
            [T EXCEPT !.slots = [i \in Slot |-> IF @[i] # NoRow /\ @[i].key \in keys THEN NoRow ELSE @[i]],
                      !.entries = IF w THEN @ \ {EntryFor(cs[i]) : i \in DOMAIN cs} ELSE @]
      BY DEF Without
    <3>2. (IF w THEN T.entries \ {EntryFor(cs[i]) : i \in DOMAIN cs} ELSE T.entries) = T.entries \ gone
      OBVIOUS
    <3> HIDE DEF keys
    <3> QED BY <1>1, <3>1, <3>2 DEF Take, TableType
  <2> QED BY <2>1, <2>2, <2>3 DEF KeysOf
<1> QED BY <1>2, <1>3, <1>4

(* Candidates that are in place all go, with their entries. *)
LEMMA DeleteInPlace ==
    ASSUME NEW T, SoundTable(T), IndexMirrors(T), NEW cs \in Seq(Candidate), InPlace(T, cs),
           NEW w \in BOOLEAN, ~w => ~T.indexed
    PROVE  \/ ~HandlesOpen(T, w) /\ DeleteWithIndexes(T, cs, w) = Raise(T)
           \/ /\ HandlesOpen(T, w)
              /\ \E gone : /\ DeleteWithIndexes(T, cs, w) = Done(Take(T, KeysOf(cs), gone), cs)
                           /\ IndexMirrors(Take(T, KeysOf(cs), gone))
<1> DEFINE entry(i) == [val |-> T.slots[i].val, slot |-> i]
           gone == IF w THEN {EntryFor(cs[i]) : i \in DOMAIN cs} ELSE {}
           U == Take(T, KeysOf(cs), gone)
<1>1. /\ T \in TableType /\ KeysApart(T)
      /\ T.slots \in [Slot -> Row \cup {NoRow}]
  BY DEF SoundTable, TableType
<1>2. ASSUME NEW k \in DOMAIN cs
      PROVE  /\ cs[k].slot \in UsedSlots(T) /\ T.slots[cs[k].slot] = cs[k].row
             /\ EntryFor(cs[k]) = entry(cs[k].slot)
             /\ HasKey(T, cs[k].row.key)
             /\ cs[k].row.key \in KeysOf(cs)
  <2>1. cs[k] \in Candidate /\ T.slots[cs[k].slot] = cs[k].row
    BY DEF InPlace
  <2>2. cs[k].slot \in UsedSlots(T)
    BY <2>1, NoRowIsNoRow DEF Candidate, UsedSlots
  <2>3. cs[k].row \in RowsOf(T)
    BY <2>1, <2>2 DEF RowsOf
  <2> QED BY <2>1, <2>2, <2>3 DEF EntryFor, HasKey, KeysOf
<1>3. CASE ~HandlesOpen(T, w)
  BY <1>3 DEF DeleteWithIndexes
<1>4. CASE HandlesOpen(T, w)
  <2>1. w => T.entries = {entry(i) : i \in UsedSlots(T)}
    BY <1>4 DEF HandlesOpen, IndexMirrors
  <2>2. w => \A i \in DOMAIN cs : EntryFor(cs[i]) \in T.entries
    BY <1>2, <2>1
  <2>3. DeleteWithIndexes(T, cs, w) = Done(Without(T, cs, w), cs)
    BY <1>2, <1>4, <2>2 DEF DeleteWithIndexes
  <2>4. Without(T, cs, w) = U
    <3>1. Without(T, cs, w) =
            [T EXCEPT !.slots = [i \in Slot |-> IF @[i] # NoRow /\ @[i].key \in KeysOf(cs) THEN NoRow ELSE @[i]],
                      !.entries = IF w THEN @ \ {EntryFor(cs[i]) : i \in DOMAIN cs} ELSE @]
      BY DEF Without, KeysOf
    <3>2. (IF w THEN T.entries \ {EntryFor(cs[i]) : i \in DOMAIN cs} ELSE T.entries) = T.entries \ gone
      OBVIOUS
    <3> QED BY <1>1, <3>1, <3>2 DEF Take, TableType
  <2>5. /\ U.indexed = T.indexed
        /\ U.entries = T.entries \ gone
        /\ UsedSlots(U) = {i \in UsedSlots(T) : T.slots[i].key \notin KeysOf(cs)}
        /\ \A i \in UsedSlots(U) : U.slots[i] = T.slots[i]
    BY <1>4, TakeKeeps DEF HandlesOpen
  <2>6. ASSUME T.indexed PROVE U.entries = {[val |-> U.slots[i].val, slot |-> i] : i \in UsedSlots(U)}
    <3>1. w /\ gone = {EntryFor(cs[i]) : i \in DOMAIN cs}
      BY <2>6
    <3>2. T.entries = {entry(i) : i \in UsedSlots(T)}
      BY <2>1, <3>1
    <3>3. ASSUME NEW i \in UsedSlots(T), T.slots[i].key \in KeysOf(cs) PROVE entry(i) \in gone
      <4>1. PICK k \in DOMAIN cs : T.slots[i].key = cs[k].row.key
        BY <3>3 DEF KeysOf
      <4>2. i = cs[k].slot
        BY <1>1, <1>2, <4>1 DEF KeysApart
      <4> QED BY <1>2, <3>1, <4>2
    <3>4. ASSUME NEW i \in UsedSlots(T), T.slots[i].key \notin KeysOf(cs), entry(i) \in gone PROVE FALSE
      <4>1. PICK k \in DOMAIN cs : entry(i) = entry(cs[k].slot)
        BY <1>2, <3>1, <3>4
      <4>2. i = cs[k].slot
        BY <4>1
      <4> QED BY <1>2, <3>4, <4>2
    <3>5. U.entries = {entry(i) : i \in UsedSlots(U)}
      <4> HIDE DEF entry, gone, U
      <4> QED BY <2>5, <3>2, <3>3, <3>4
    <3> HIDE DEF U
    <3> QED BY <2>5, <3>5
  <2>7. IndexMirrors(U)
    BY <2>5, <2>6 DEF IndexMirrors
  <2> QED BY <1>4, <2>3, <2>4, <2>7
<1> QED BY <1>3, <1>4

(* A scan visits each of its slots once. *)
LEMMA ScanVisitsOnce ==
    ASSUME NEW ss \in SUBSET Slot
    PROVE  /\ BySlot(ss) \in Seq(ss)
           /\ \A i, j \in DOMAIN BySlot(ss) : BySlot(ss)[i] = BySlot(ss)[j] => i = j
<1> DEFINE n == Cardinality(ss)
           q == BySlot(ss)
<1>1. Slots \in Nat /\ ss \in SUBSET (0 .. Slots)
  BY PageAssumption DEF Slot
<1>2. IsFiniteSet(ss) /\ n \in Nat
  <2>1. IsFiniteSet(0 .. Slots)
    BY <1>1, FS_Interval
  <2>2. IsFiniteSet(ss)
    BY <1>1, <2>1, FS_Subset
  <2> QED BY <2>2, FS_CardinalityType
<1>3. q \in [1 .. n -> ss] /\ \A i, j \in DOMAIN q : i < j => q[i] < q[j]
  <2>1. \E f \in [1 .. n -> ss] : \A i, j \in DOMAIN f : i < j => f[i] < f[j]
    <3>1. \E f \in [1 .. n -> ss] : \A i, j \in 1 .. n : i < j => f[i] < f[j]
      BY <1>1, <1>2, Enumeration
    <3> HIDE DEF n
    <3> QED BY <3>1
  <2> HIDE DEF n
  <2> QED BY <2>1 DEF BySlot, n
<1> HIDE DEF q, n
<1>4. q \in Seq(ss)
  BY <1>2, <1>3, SeqDef
<1>5. ASSUME NEW i \in DOMAIN q, NEW j \in DOMAIN q, q[i] = q[j] PROVE i = j
  <2>1. \A x \in ss : x \in Int
    BY <1>1
  <2>2. i \in 1 .. n /\ j \in 1 .. n /\ q[i] \in Int
    BY <1>3, <2>1
  <2>3. i \in Int /\ j \in Int
    BY <1>2, <2>2
  <2> QED BY <1>3, <1>5, <2>2, <2>3
<1> QED BY <1>4, <1>5 DEF q

(* execute_delete passes candidates that it has just read, each once. *)
LEMMA CandidatesAreRead ==
    ASSUME NEW T, SoundTable(T), NEW a \in Where, NEW w \in BOOLEAN
    PROVE  \/ ExecuteDelete(T, a, w) = Raise(T)
           \/ \E cs \in Seq(Candidate) :
                /\ ExecuteDelete(T, a, w) = DeleteWithIndexes(T, cs, w)
                /\ HandlesOpen(T, w)
                /\ InPlace(T, cs)
                /\ \A i, j \in DOMAIN cs : cs[i].slot = cs[j].slot => i = j
                /\ \A i \in DOMAIN cs : cs[i].slot \in CandidateSlots(T, a, w) \cap UsedSlots(T)
<1> DEFINE found == CandidateSlots(T, a, w)
           order == BySlot(found)
           cs == [n \in DOMAIN order |-> [slot |-> order[n], row |-> T.slots[order[n]]]]
<1>1. T.slots \in [Slot -> Row \cup {NoRow}]
  BY DEF SoundTable, TableType
<1>2. CASE ~HandlesOpen(T, w) \/ ~(found \subseteq UsedSlots(T))
  BY <1>2 DEF ExecuteDelete
<1>3. CASE HandlesOpen(T, w) /\ found \subseteq UsedSlots(T)
  <2>1. ExecuteDelete(T, a, w) = DeleteWithIndexes(T, cs, w)
    BY <1>3 DEF ExecuteDelete
  <2>2. found \in SUBSET Slot
    BY <1>3 DEF UsedSlots
  <2>3. order \in Seq(found) /\ \A i, j \in DOMAIN order : order[i] = order[j] => i = j
    BY <2>2, ScanVisitsOnce
  <2> HIDE DEF order, found
  <2>4. DOMAIN order = 1 .. Len(order) /\ Len(order) \in Nat /\ \A i \in DOMAIN order : order[i] \in found
    BY <2>3
  <2>5. ASSUME NEW i \in DOMAIN order
        PROVE  order[i] \in Slot /\ order[i] \in UsedSlots(T) /\ T.slots[order[i]] \in Row
    <3>1. order[i] \in found /\ order[i] \in UsedSlots(T)
      BY <1>3, <2>4
    <3> QED BY <1>1, <3>1 DEF UsedSlots
  <2>6. \A i \in DOMAIN order : cs[i] = [slot |-> order[i], row |-> T.slots[order[i]]]
    OBVIOUS
  <2>7. cs \in [1 .. Len(order) -> Candidate]
    BY <2>4, <2>5 DEF Candidate
  <2>8. DOMAIN cs = DOMAIN order
    OBVIOUS
  <2> HIDE DEF cs
  <2>9. cs \in Seq(Candidate)
    BY <2>4, <2>7, SeqDef
  <2>10. InPlace(T, cs)
    BY <2>6, <2>8 DEF InPlace
  <2>11. \A i, j \in DOMAIN cs : cs[i].slot = cs[j].slot => i = j
    BY <2>3, <2>6, <2>8
  <2>12. \A i \in DOMAIN cs : cs[i].slot \in found \cap UsedSlots(T)
    BY <2>4, <2>5, <2>6, <2>8
  <2> QED BY <1>3, <2>1, <2>9, <2>10, <2>11, <2>12 DEF found
<1> QED BY <1>2, <1>3

(* With an index that mirrors the table they are rows the WHERE asks for. *)
LEMMA CandidatesSatisfy ==
    ASSUME NEW T, SoundTable(T), IndexMirrors(T), NEW a \in Where, NEW w \in BOOLEAN,
           HandlesOpen(T, w), NEW i \in CandidateSlots(T, a, w)
    PROVE  Satisfies(T.slots[i], a)
<1>1. CASE UsesIndex(a, w)
  <2>1. T.entries = {[val |-> T.slots[k].val, slot |-> k] : k \in UsedSlots(T)}
    BY <1>1 DEF UsesIndex, HandlesOpen, IndexMirrors
  <2>2. PICK x \in T.entries : x.val = a.value /\ i = x.slot
    BY <1>1 DEF CandidateSlots
  <2>3. T.slots[i].val = a.value
    BY <2>1, <2>2
  <2> QED BY <1>1, <2>3 DEF UsesIndex, Satisfies
<1>2. CASE ~UsesIndex(a, w)
  BY <1>2 DEF CandidateSlots
<1> QED BY <1>1, <1>2

-------------------------------------------------------------------------------
(* The undo of a DELETE. *)

(* What the recursive function of ReinsertAll goes through: it exists, by induction
   over the rows. *)
LEMMA ReinsertUnfolds ==
    ASSUME NEW T, NEW cs, Len(cs) \in Nat, NEW w
    PROVE  \E after :
              /\ after[0] = Done(T, <<>>)
              /\ \A n \in 1 .. Len(cs) :
                    after[n] = IF ~after[n - 1].ok THEN after[n - 1]
                               ELSE InsertWithIndexes(after[n - 1].table, cs[n].row, w)
              /\ ReinsertAll(T, cs, w) = after[Len(cs)]
<1> DEFINE Link(v, n) == IF n = 0 THEN Done(T, <<>>)
                         ELSE IF ~v[n - 1].ok THEN v[n - 1]
                         ELSE InsertWithIndexes(v[n - 1].table, cs[n].row, w)
           S == {k \in Nat : \E v : v = [n \in 0 .. k |-> Link(v, n)]}
<1>1. 0 \in S
  <2> DEFINE v == [n \in 0 .. 0 |-> Done(T, <<>>)]
  <2>1. v = [n \in 0 .. 0 |-> Link(v, n)]
    OBVIOUS
  <2> HIDE DEF v, Link
  <2> QED BY <2>1
<1>2. ASSUME NEW k \in Nat, k \in S PROVE k + 1 \in S
  <2>1. PICK v : v = [n \in 0 .. k |-> Link(v, n)]
    BY <1>2
  <2> DEFINE more == [n \in 0 .. k + 1 |-> IF n = k + 1 THEN Link(v, n) ELSE v[n]]
  <2>2. ASSUME NEW n \in 0 .. k + 1 PROVE more[n] = Link(more, n)
    <3>1. n = 0 \/ (n # 0 /\ n - 1 \in 0 .. k + 1 /\ n - 1 # k + 1)
      OBVIOUS
    <3>2. n = 0 \/ more[n - 1] = v[n - 1]
      BY <3>1
    <3>3. Link(more, n) = Link(v, n)
      <4> HIDE DEF more
      <4> QED BY <3>2
    <3>4. n = k + 1 \/ n \in 0 .. k
      OBVIOUS
    <3>5. n \in 0 .. k => v[n] = Link(v, n)
      <4> HIDE DEF Link
      <4> QED BY <2>1
    <3> HIDE DEF Link
    <3> QED BY <3>3, <3>4, <3>5
  <2>3. more = [n \in 0 .. k + 1 |-> Link(more, n)]
    <3> HIDE DEF Link
    <3> QED BY <2>2
  <2> HIDE DEF more, Link
  <2> QED BY <2>3
<1> HIDE DEF S
<1>3. \A k \in Nat : k \in S
  BY <1>1, <1>2, InductionOverNat
<1> DEFINE N == Len(cs)
           a == CHOOSE v : v = [n \in 0 .. N |-> Link(v, n)]
<1>4. N \in Nat
  OBVIOUS
<1>5. ReinsertAll(T, cs, w) = a[N]
  BY DEF ReinsertAll
<1>6. a = [n \in 0 .. N |-> Link(a, n)]
  <2>1. \E v : v = [n \in 0 .. N |-> Link(v, n)]
    BY <1>3, <1>4 DEF S
  <2> HIDE DEF N, Link
  <2> QED BY <2>1
<1> HIDE DEF a, N
<1>7. a[0] = Done(T, <<>>)
  BY <1>6, <1>4
<1>8. ASSUME NEW n \in 1 .. N
      PROVE  a[n] = IF ~a[n - 1].ok THEN a[n - 1] ELSE InsertWithIndexes(a[n - 1].table, cs[n].row, w)
  <2>1. n \in 0 .. N /\ n # 0
    BY <1>4
  <2>2. a[n] = Link(a, n)
    <3> HIDE DEF Link
    <3> QED BY <1>6, <2>1
  <2> QED BY <2>1, <2>2
<1> QED BY <1>5, <1>7, <1>8 DEF N

LEMMA CandidatesTyped ==
    ASSUME NEW cs \in Seq(Candidate)
    PROVE  /\ Len(cs) \in Nat /\ DOMAIN cs = 1 .. Len(cs)
           /\ \A i \in DOMAIN cs : cs[i] \in Candidate /\ cs[i].slot \in Slot /\ cs[i].row \in Row
<1>1. Len(cs) \in Nat /\ DOMAIN cs = 1 .. Len(cs) /\ \A i \in 1 .. Len(cs) : cs[i] \in Candidate
  BY LenProperties, ElementOfSeq
<1> QED BY <1>1 DEF Candidate

(* Whatever raises on the way, the table is one. *)
LEMMA ReinsertKeeps ==
    ASSUME NEW T, SoundTable(T), NEW cs \in Seq(Candidate), NEW w \in BOOLEAN
    PROVE  SoundTable(ReinsertAll(T, cs, w).table)
<1> DEFINE N == Len(cs)
<1>1. N \in Nat /\ \A n \in 1 .. N : cs[n].row \in Row
  BY CandidatesTyped
<1>2. PICK after :
          /\ after[0] = Done(T, <<>>)
          /\ \A n \in 1 .. N : after[n] = IF ~after[n - 1].ok THEN after[n - 1]
                                          ELSE InsertWithIndexes(after[n - 1].table, cs[n].row, w)
          /\ ReinsertAll(T, cs, w) = after[N]
  BY <1>1, ReinsertUnfolds
<1> DEFINE S == {n \in Nat : n <= N => SoundTable(after[n].table)}
<1> HIDE DEF N
<1>3. 0 \in S
  BY <1>2 DEF Done
<1>4. ASSUME NEW n \in Nat, n \in S PROVE n + 1 \in S
  <2> SUFFICES ASSUME n + 1 <= N PROVE SoundTable(after[n + 1].table)
    OBVIOUS
  <2> DEFINE V == after[n].table
             r == cs[n + 1].row
  <2>1. n + 1 \in 1 .. N /\ (n + 1) - 1 = n
    BY <1>1
  <2>2. SoundTable(V) /\ r \in Row
    BY <1>1, <1>4, <2>1
  <2>3. after[n + 1] = IF ~after[n].ok THEN after[n] ELSE InsertWithIndexes(V, r, w)
    BY <1>2, <2>1
  <2> HIDE DEF r
  <2>4. SoundTable(InsertWithIndexes(V, r, w).table)
    <3> HIDE DEF V
    <3>1. CASE InsertWithIndexes(V, r, w) = Raise(V)
      BY <2>2, <3>1 DEF Raise
    <3>2. ASSUME NEW f \in Slot,
                 V.slots[f] = NoRow /\ ~HasKey(V, r.key) /\ V.exists,
                 InsertWithIndexes(V, r, w) = Done(Put(V, f, r, w), <<[slot |-> f, row |-> r]>>)
          PROVE  SoundTable(InsertWithIndexes(V, r, w).table)
      <4>1. SoundTable(Put(V, f, r, w))
        BY <2>2, <3>2, PutKeeps
      <4> QED BY <3>2, <4>1 DEF Done
    <3> QED BY <2>2, <3>1, <3>2, InsertOutcome
  <2> QED BY <2>2, <2>3, <2>4
<1> HIDE DEF S
<1>5. \A n \in Nat : n \in S
  BY <1>3, <1>4, InductionOverNat
<1> QED BY <1>1, <1>2, <1>5 DEF S

(* Rows whose keys are not in the table all come back, in whatever slots are free,
   and with their entries. *)
LEMMA ReinsertEffect ==
    ASSUME NEW T, SoundTable(T), T.exists, IndexMirrors(T), NEW cs \in Seq(Candidate),
           \A i, j \in DOMAIN cs : cs[i].row.key = cs[j].row.key => i = j,
           \A i \in DOMAIN cs : ~HasKey(T, cs[i].row.key)
    PROVE  LET U == ReinsertAll(T, cs, T.indexed).table
           IN  /\ SoundTable(U) /\ IndexMirrors(U)
               /\ U.exists /\ U.indexed = T.indexed
               /\ RowsOf(U) = RowsOf(T) \cup CandidateRows(cs)
               /\ \A i \in UsedSlots(T) : i \in UsedSlots(U) /\ U.slots[i] = T.slots[i]
<1> DEFINE N == Len(cs)
           w == T.indexed
<1>1. /\ N \in Nat /\ DOMAIN cs = 1 .. N /\ w \in BOOLEAN
      /\ \A n \in 1 .. N : cs[n].row \in Row
  BY CandidatesTyped DEF SoundTable, TableType
<1>2. PICK after :
          /\ after[0] = Done(T, <<>>)
          /\ \A n \in 1 .. N : after[n] = IF ~after[n - 1].ok THEN after[n - 1]
                                          ELSE InsertWithIndexes(after[n - 1].table, cs[n].row, w)
          /\ ReinsertAll(T, cs, w) = after[N]
  BY <1>1, ReinsertUnfolds
<1> DEFINE Back(U, n) ==
             /\ SoundTable(U) /\ IndexMirrors(U)
             /\ U.exists /\ U.indexed = T.indexed
             /\ RowsOf(U) = RowsOf(T) \cup {cs[i].row : i \in 1 .. n}
             /\ \A i \in UsedSlots(T) : i \in UsedSlots(U) /\ U.slots[i] = T.slots[i]
           S == {n \in Nat : n <= N => after[n].ok /\ Back(after[n].table, n)}
<1> HIDE DEF N, w
<1>3. 0 \in S
  <2>1. after[0].ok /\ after[0].table = T
    BY <1>2 DEF Done
  <2>2. {cs[i].row : i \in 1 .. 0} = {}
    OBVIOUS
  <2> QED BY <2>1, <2>2
<1>4. ASSUME NEW n \in Nat, n \in S PROVE n + 1 \in S
  <2> SUFFICES ASSUME n + 1 <= N PROVE after[n + 1].ok /\ Back(after[n + 1].table, n + 1)
    OBVIOUS
  <2> DEFINE V == after[n].table
             r == cs[n + 1].row
  <2>1. n + 1 \in 1 .. N /\ (n + 1) - 1 = n /\ n <= N
    BY <1>1
  <2>2. after[n].ok /\ Back(V, n) /\ r \in Row
    BY <1>1, <1>4, <2>1
  <2>3. after[n + 1] = InsertWithIndexes(V, r, w)
    BY <1>2, <2>1, <2>2
  <2>4. ~HasKey(V, r.key)
    <3>1. ~HasKey(T, r.key)
      BY <1>1, <2>1
    <3>2. ASSUME NEW i \in 1 .. n PROVE cs[i].row.key # r.key
      <4>1. i \in 1 .. N /\ i # n + 1
        BY <1>1, <2>1
      <4> QED BY <1>1, <2>1, <4>1
    <3> HIDE DEF V, r
    <3> QED BY <2>2, <3>1, <3>2 DEF HasKey
  <2>5. {cs[i].row : i \in 1 .. n + 1} = {cs[i].row : i \in 1 .. n} \cup {r}
    <3>1. \A i : i \in 1 .. n + 1 <=> i \in 1 .. n \/ i = n + 1
      BY <2>1
    <3> QED BY <3>1
  <2> HIDE DEF V, r
  <2>6. SoundTable(V) /\ V.exists /\ V.indexed = w /\ IndexMirrors(V)
    BY <2>2 DEF w
  <2>7. PICK f \in Slot :
            /\ V.slots[f] = NoRow
            /\ InsertWithIndexes(V, r, w) = Done(Put(V, f, r, w), <<[slot |-> f, row |-> r]>>)
    <3>1. HandlesOpen(V, w)
      BY <2>6 DEF HandlesOpen
    <3> QED BY <1>1, <2>2, <2>4, <2>6, <3>1, InsertOutcome
  <2> DEFINE U == Put(V, f, r, w)
  <2>8. after[n + 1].ok /\ after[n + 1].table = U
    BY <2>3, <2>7 DEF Done
  <2>9. /\ SoundTable(U) /\ IndexMirrors(U)
        /\ U.exists /\ U.indexed = w
        /\ U.slots = [V.slots EXCEPT ![f] = r]
        /\ UsedSlots(U) = UsedSlots(V) \cup {f}
        /\ RowsOf(U) = RowsOf(V) \cup {r}
    BY <1>1, <2>2, <2>4, <2>6, <2>7, PutKeeps
  <2> HIDE DEF U
  <2>10. \A i \in UsedSlots(V) : i \in UsedSlots(U) /\ U.slots[i] = V.slots[i]
    <3>1. V.slots \in [Slot -> Row \cup {NoRow}]
      BY <2>6 DEF SoundTable, TableType
    <3> QED BY <2>7, <2>9, <3>1 DEF UsedSlots
  <2>11. RowsOf(U) = RowsOf(T) \cup {cs[i].row : i \in 1 .. n + 1}
    BY <2>2, <2>5, <2>9
  <2>12. Back(U, n + 1)
    BY <2>2, <2>9, <2>10, <2>11 DEF w
  <2> QED BY <2>8, <2>12
<1> HIDE DEF S
<1>5. \A n \in Nat : n \in S
  BY <1>3, <1>4, InductionOverNat
<1>6. Back(ReinsertAll(T, cs, w).table, N)
  <2>1. N <= N /\ N \in S
    BY <1>1, <1>5
  <2>2. Back(after[N].table, N)
    <3> HIDE DEF Back
    <3> QED BY <2>1 DEF S
  <2> HIDE DEF Back
  <2> QED BY <1>2, <2>2
<1>7. CandidateRows(cs) = {cs[i].row : i \in 1 .. N}
  BY <1>1 DEF CandidateRows
<1> QED BY <1>6, <1>7 DEF w

-------------------------------------------------------------------------------
(* What every call leaves is a table, whatever it was called with. *)

LEMMA InsertKeeps ==
    ASSUME NEW T, SoundTable(T), NEW r \in Row, NEW w \in BOOLEAN
    PROVE  LET res == InsertWithIndexes(T, r, w)
           IN  SoundTable(res.table) /\ res.candidates \in Seq(Candidate)
<1> DEFINE res == InsertWithIndexes(T, r, w)
<1>1. CASE res = Raise(T)
  BY <1>1 DEF Raise
<1>2. ASSUME NEW f \in Slot, T.slots[f] = NoRow, ~HasKey(T, r.key), T.exists,
             res = Done(Put(T, f, r, w), <<[slot |-> f, row |-> r]>>)
      PROVE  SoundTable(res.table) /\ res.candidates \in Seq(Candidate)
  <2>1. SoundTable(Put(T, f, r, w))
    BY <1>2, PutKeeps
  <2>2. [slot |-> f, row |-> r] \in Candidate
    BY DEF Candidate
  <2> QED BY <1>2, <2>1, <2>2 DEF Done
<1> QED BY <1>1, <1>2, InsertOutcome

LEMMA DeleteKeeps ==
    ASSUME NEW T, SoundTable(T), NEW cs \in Seq(Candidate), NEW w \in BOOLEAN
    PROVE  LET res == DeleteWithIndexes(T, cs, w)
           IN  SoundTable(res.table) /\ (res.ok => res.candidates \in Seq(Candidate))
<1> DEFINE res == DeleteWithIndexes(T, cs, w)
<1>1. ASSUME T.exists, NEW gone, ~res.ok, res.table = Take(T, {}, gone)
      PROVE  SoundTable(res.table)
  BY <1>1, TakeKeeps
<1>2. ASSUME T.exists, NEW gone, res = Done(Take(T, KeysOf(cs), gone), cs)
      PROVE  SoundTable(res.table) /\ res.candidates \in Seq(Candidate)
  BY <1>2, TakeKeeps DEF Done
<1> HIDE DEF res
<1>3. \/ ~res.ok /\ res.table = T
      \/ T.exists /\ ~res.ok /\ \E gone : res.table = Take(T, {}, gone)
      \/ T.exists /\ \E gone : res = Done(Take(T, KeysOf(cs), gone), cs)
  BY DeleteOutcome DEF res
<1> QED BY <1>1, <1>2, <1>3 DEF res

LEMMA ExecuteDeleteKeeps ==
    ASSUME NEW T, SoundTable(T), NEW a \in Where, NEW w \in BOOLEAN
    PROVE  LET res == ExecuteDelete(T, a, w)
           IN  SoundTable(res.table) /\ (res.ok => res.candidates \in Seq(Candidate))
<1>1. CASE ExecuteDelete(T, a, w) = Raise(T)
  BY <1>1 DEF Raise
<1>2. ASSUME NEW cs \in Seq(Candidate), ExecuteDelete(T, a, w) = DeleteWithIndexes(T, cs, w)
      PROVE  LET res == ExecuteDelete(T, a, w)
             IN  SoundTable(res.table) /\ (res.ok => res.candidates \in Seq(Candidate))
  BY <1>2, DeleteKeeps
<1> QED BY <1>1, <1>2, CandidatesAreRead

LEMMA EmptyTableIs ==
    ASSUME NEW b \in BOOLEAN
    PROVE  /\ SoundTable(EmptyTable(b)) /\ UsedSlots(EmptyTable(b)) = {} /\ RowsOf(EmptyTable(b)) = {}
           /\ EmptyTable(b).exists = b /\ EmptyTable(b).indexed = FALSE /\ EmptyTable(b).entries = {}
<1>1. EmptyTable(b) \in TableType
  BY DEF EmptyTable, TableType
<1>2. /\ \A i \in Slot : EmptyTable(b).slots[i] = NoRow
      /\ EmptyTable(b).exists = b /\ EmptyTable(b).indexed = FALSE /\ EmptyTable(b).entries = {}
  BY DEF EmptyTable
<1>3. UsedSlots(EmptyTable(b)) = {}
  BY <1>2 DEF UsedSlots
<1> QED BY <1>1, <1>2, <1>3 DEF SoundTable, KeysApart, AbsentIsEmpty, RowsOf

(* A new index has an entry for every row. *)
LEMMA CreateIndexKeeps ==
    ASSUME NEW T, SoundTable(T)
    PROVE  SoundTable(CreateIndex(T).table)
<1> DEFINE n == {[val |-> T.slots[i].val, slot |-> i] : i \in UsedSlots(T)}
           U == [T EXCEPT !.indexed = TRUE, !.entries = n]
<1>1. CASE ~T.exists \/ T.indexed
  BY <1>1 DEF CreateIndex, Raise
<1>2. CASE T.exists /\ ~T.indexed
  <2>1. T \in TableType /\ T.slots \in [Slot -> Row \cup {NoRow}]
    BY DEF SoundTable, TableType
  <2>2. n \in SUBSET EntryType
    <3> SUFFICES ASSUME NEW i \in UsedSlots(T)
                 PROVE  [val |-> T.slots[i].val, slot |-> i] \in EntryType
      OBVIOUS
    <3>1. T.slots[i] \in Row /\ i \in Slot
      BY <2>1 DEF UsedSlots
    <3> QED BY <3>1 DEF Row, EntryType
  <2> HIDE DEF n
  <2>3. U \in TableType
    BY <2>1, <2>2 DEF TableType
  <2>4. U.slots = T.slots /\ U.exists = T.exists
    BY <2>1 DEF TableType
  <2>5. CreateIndex(T) = Done(U, <<>>)
    BY <1>2 DEF CreateIndex, n
  <2> HIDE DEF U
  <2>6. KeysApart(U)
    BY <2>4 DEF SoundTable, KeysApart, UsedSlots
  <2>7. AbsentIsEmpty(U)
    BY <1>2, <2>4 DEF AbsentIsEmpty
  <2> QED BY <2>3, <2>5, <2>6, <2>7 DEF SoundTable, Done
<1> QED BY <1>1, <1>2 DEF SoundTable, TableType

LEMMA DdlKeeps ==
    ASSUME NEW T, SoundTable(T)
    PROVE  /\ SoundTable(CreateIndex(T).table)
           /\ CreateTable(T).table = IF T.exists THEN T ELSE EmptyTable(TRUE)
           /\ SoundTable(CreateTable(T).table)
           /\ DropTable(T).table = IF T.exists THEN EmptyTable(FALSE) ELSE T
           /\ SoundTable(DropTable(T).table)
  BY CreateIndexKeeps, EmptyTableIs DEF CreateTable, DropTable, Done, Raise

-------------------------------------------------------------------------------
(* Tables stay tables and logs stay logs: what KeysUnique takes. *)

LogEntry ==
    [kind : {"insert", "delete"}, table : Table, candidates : Seq(Candidate), indexed : BOOLEAN]

ArgumentFits(s) ==
    pc[s] \in {"locking", "ready"} =>
        /\ stmt[s].kind = "insert" => stmt[s].arg \in Row
        /\ stmt[s].kind = "delete" => stmt[s].arg \in Where

BaseInv ==
    /\ store \in [Table -> TableType]
    /\ \A t \in Table : SoundTable(store[t])
    /\ undo \in [Owner -> Seq(LogEntry)]
    /\ \A s \in Owner : ArgumentFits(s)

LEMMA BaseInitially == Init => BaseInv
<1> SUFFICES ASSUME Init PROVE BaseInv
  OBVIOUS
<1>1. ASSUME NEW t \in Table PROVE store[t] \in TableType /\ SoundTable(store[t])
  <2> DEFINE b == t \in InitIndexed
             U == [EmptyTable(TRUE) EXCEPT !.indexed = b]
  <2>1. store[t] = U
    BY DEF Init
  <2>2. EmptyTable(TRUE) \in TableType /\ UsedSlots(EmptyTable(TRUE)) = {}
    BY EmptyTableIs DEF SoundTable
  <2>3. U \in TableType /\ U.slots = EmptyTable(TRUE).slots /\ U.exists = TRUE
    <3>1. \A X \in TableType, x \in BOOLEAN :
              LET Y == [X EXCEPT !.indexed = x]
              IN  Y \in TableType /\ Y.slots = X.slots /\ Y.exists = X.exists
      BY DEF TableType
    <3>2. b \in BOOLEAN
      OBVIOUS
    <3>3. EmptyTable(TRUE).exists = TRUE
      BY EmptyTableIs
    <3> HIDE DEF b
    <3> QED BY <2>2, <3>1, <3>2, <3>3
  <2> HIDE DEF U
  <2>4. UsedSlots(U) = {}
    BY <2>2, <2>3 DEF UsedSlots
  <2> QED BY <2>1, <2>3, <2>4 DEF SoundTable, KeysApart, AbsentIsEmpty
<1>2. \A s \in Owner : undo[s] \in Seq(LogEntry)
  BY DEF Init
<1> QED BY <1>1, <1>2 DEF Init, BaseInv, ArgumentFits

(* A statement works on one of its tables. *)
LEMMA WorkingTable ==
    ASSUME TxInv, NEW s \in Owner, pc[s] \in {"locking", "ready"}
    PROVE  /\ stmt[s] \in Statement
           /\ TheTable(s) \in stmt[s].tables
           /\ TheTable(s) \in Table
           /\ WithIndex(s) \in BOOLEAN
<1>1. stmt[s] \in Statement
  BY DEF TxInv, Session, HoldsItsTables
<1>2. stmt[s].tables # {} /\ stmt[s].tables \subseteq Table
  BY <1>1 DEF Statement
<1> QED BY <1>1, <1>2 DEF TheTable, WithIndex

(* record_insert and record_delete write entries of the log. *)
LEMMA LoggedIsTyped ==
    ASSUME undo \in [Owner -> Seq(LogEntry)], NEW s \in Owner, NEW e \in LogEntry, Logged(s, e)
    PROVE  undo' \in [Owner -> Seq(LogEntry)]
<1>1. Append(undo[s], e) \in Seq(LogEntry)
  BY AppendProperties
<1> QED BY <1>1 DEF Logged

LEMMA StoreChanges ==
    ASSUME BaseInv, NEW t \in Table, NEW U, SoundTable(U), store' = [store EXCEPT ![t] = U]
    PROVE  /\ store' \in [Table -> TableType]
           /\ \A u \in Table : SoundTable(store'[u])
           /\ store'[t] = U /\ \A u \in Table \ {t} : store'[u] = store[u]
  BY DEF BaseInv, SoundTable

(* The last entry of the log, and the table that undoing it leaves. *)
LEMMA UndoneIsATable ==
    ASSUME BaseInv, NEW s \in Owner, undo[s] # <<>>
    PROVE  /\ Last(undo[s]) \in LogEntry
           /\ Front(undo[s]) \in Seq(LogEntry)
           /\ SoundTable(Undone(Last(undo[s])))
<1> DEFINE q == undo[s]
<1>1. q \in Seq(LogEntry) /\ Len(q) \in Nat
  BY DEF BaseInv
<1>2. Last(q) \in LogEntry /\ Front(q) \in Seq(LogEntry)
  BY <1>1 DEF Last, Front
<1> DEFINE e == Last(q)
           T == store[e.table]
<1>3. e \in LogEntry
  BY <1>2
<1> HIDE DEF q, e
<1>4. SoundTable(T) /\ e.candidates \in Seq(Candidate) /\ e.indexed \in BOOLEAN
  BY <1>3 DEF LogEntry, BaseInv
<1> HIDE DEF T
<1>5. SoundTable(DeleteWithIndexes(T, e.candidates, e.indexed).table)
  BY <1>4, DeleteKeeps
<1>6. SoundTable(ReinsertAll(T, e.candidates, e.indexed).table)
  BY <1>4, ReinsertKeeps
<1>7. SoundTable(Undone(e))
  BY <1>5, <1>6 DEF Undone, T
<1> QED BY <1>2, <1>7 DEF q, e

LEMMA StatementFits ==
    ASSUME NEW kind, NEW ask \in Requests(kind)
    PROVE  /\ kind = "insert" => ask[2] \in Row
           /\ kind = "delete" => ask[2] \in Where
  BY DEF Requests

(* One action at a time; what does not touch the tables or the logs comes first. *)
LEMMA BaseStep ==
    ASSUME TxInv, BaseInv, [Next]_vars
    PROVE  BaseInv'
<1> USE DEF BaseInv
<1>t. pc \in [Owner -> {"idle", "locking", "ready", "undoing", "releasing"}]
      /\ stmt \in [Owner -> {NoStmt} \cup Statement]
  BY DEF TxInv, SessionType
<1>0. ASSUME NEW s \in Owner, UNCHANGED <<store, undo>>,
             \A p \in Owner : p # s => pc'[p] = pc[p] /\ stmt'[p] = stmt[p],
             ArgumentFits(s)'
      PROVE  BaseInv'
  BY <1>0 DEF ArgumentFits
<1>1. ASSUME NEW s \in Owner, Begin(s) \/ Abandon(s) PROVE BaseInv'
  <2>1. UNCHANGED <<store, undo, stmt>> /\ (pc' = pc \/ pc' = [pc EXCEPT ![s] = "undoing"])
    BY <1>1 DEF Begin, Abandon, Goto
  <2> QED BY <1>t, <2>1 DEF ArgumentFits
<1>2. ASSUME NEW s \in Owner, End(s) \/ LoadEnds(s) PROVE BaseInv'
  <2>1. undo' = [undo EXCEPT ![s] = <<>>] /\ store' = store /\ pc' = [pc EXCEPT ![s] = "releasing"]
        /\ \A p \in Owner : p # s => stmt'[p] = stmt[p]
    BY <1>2, <1>t DEF End, LoadEnds, Goto, Finished
  <2>2. <<>> \in Seq(LogEntry)
    OBVIOUS
  <2> QED BY <1>t, <2>1, <2>2 DEF ArgumentFits
<1>3. ASSUME NEW s \in Owner, NEW kind \in Statements, NEW ask \in Requests(kind),
             Prepare(s, kind, ask[1], ask[2])
      PROVE  BaseInv'
  <2>1. stmt' = [stmt EXCEPT ![s] = StatementOf(kind, ask[1], ask[2])]
        /\ pc' = [pc EXCEPT ![s] = "locking"] /\ UNCHANGED <<store, undo>>
    BY <1>3 DEF Prepare, Goto
  <2>2. stmt'[s].kind = kind /\ stmt'[s].arg = ask[2]
    BY <1>t, <2>1 DEF StatementOf
  <2> QED BY <1>0, <1>t, <2>1, <2>2, StatementFits DEF ArgumentFits
<1>4. ASSUME NEW s \in Owner, NEW t \in Table, CreateTableNow(s, t) PROVE BaseInv'
  <2>1. store' = [store EXCEPT ![t] = CreateTable(store[t]).table] /\ UNCHANGED <<pc, stmt, undo>>
    BY <1>4 DEF CreateTableNow
  <2>2. SoundTable(CreateTable(store[t]).table)
    BY DdlKeeps
  <2> QED BY <2>1, <2>2, StoreChanges DEF ArgumentFits
<1>5. ASSUME NEW s \in Owner, SkipLock(s) \/ LockGranted(s) PROVE BaseInv'
  <2>1. PICK t : stmt' = [stmt EXCEPT ![s].todo = @ \ {t}]
    BY <1>5 DEF SkipLock, LockGranted, Locked
  <2>2. UNCHANGED <<pc, store, undo>>
    BY <1>5 DEF SkipLock, LockGranted
  <2>3. pc[s] = "locking" /\ stmt[s] \in Statement
    BY <1>5 DEF SkipLock, LockGranted, Grant, TxInv, Session, AsksForNext, HoldsItsTables
  <2>4. stmt'[s].kind = stmt[s].kind /\ stmt'[s].arg = stmt[s].arg
    BY <1>t, <2>1, <2>3 DEF Statement
  <2> QED BY <1>0, <1>t, <2>1, <2>2, <2>4 DEF ArgumentFits
<1>6. ASSUME NEW s \in Owner, RequestLock(s) \/ LockWaits(s) \/ LockExpires(s) PROVE BaseInv'
  BY <1>6 DEF RequestLock, LockWaits, LockExpires, sessionVars, ArgumentFits
<1>7. ASSUME NEW s \in Owner, LockTimedOut(s) \/ AllLocked(s) \/ UndoEnds(s) PROVE BaseInv'
  <2>1. UNCHANGED <<store, undo, stmt>> /\ \A p \in Owner : p # s => pc'[p] = pc[p]
    BY <1>7, <1>t DEF LockTimedOut, AllLocked, UndoEnds, Goto
  <2>2. pc'[s] \in {"locking", "ready"} => pc[s] = "locking"
    BY <1>7, <1>t DEF LockTimedOut, AllLocked, UndoEnds, Goto
  <2> QED BY <1>0, <2>1, <2>2 DEF ArgumentFits
<1>8. ASSUME NEW s \in Owner, NEW t \in Table, NEW r \in Row, NEW w \in BOOLEAN,
             store' = [store EXCEPT ![t] = InsertWithIndexes(store[t], r, w).table],
             \/ UNCHANGED undo
             \/ /\ InsertWithIndexes(store[t], r, w).ok
                /\ Logged(s, UndoEntry("insert", t, InsertWithIndexes(store[t], r, w).candidates, w)),
             \A p \in Owner : ArgumentFits(p)'
      PROVE  BaseInv'
  <2> DEFINE res == InsertWithIndexes(store[t], r, w)
  <2>1. SoundTable(res.table) /\ res.candidates \in Seq(Candidate)
    BY InsertKeeps
  <2>2. UndoEntry("insert", t, res.candidates, w) \in LogEntry
    BY <2>1 DEF UndoEntry, LogEntry
  <2>3. undo' \in [Owner -> Seq(LogEntry)]
    <3> HIDE DEF res
    <3> QED BY <1>8, <2>2, LoggedIsTyped DEF res
  <2> QED BY <1>8, <2>1, <2>3, StoreChanges
<1>9. ASSUME NEW s \in Owner, ExecuteInsert(s) PROVE BaseInv'
  <2>1. pc[s] = "ready" /\ stmt[s].kind = "insert"
    BY <1>9 DEF ExecuteInsert
  <2>2. TheTable(s) \in Table /\ WithIndex(s) \in BOOLEAN /\ stmt[s].arg \in Row
    BY <2>1, WorkingTable DEF ArgumentFits
  <2>3. \A p \in Owner : ArgumentFits(p)'
    BY <1>9, <1>t DEF ExecuteInsert, Goto, Finished, AfterSuccess, AfterError, ArgumentFits
  <2> QED BY <1>8, <1>9, <2>2, <2>3 DEF ExecuteInsert
<1>10. ASSUME NEW s \in Owner, NEW r \in Row, LoadRow(s, r) PROVE BaseInv'
  <2>1. pc[s] = "ready" /\ stmt[s].kind \in Loads
    BY <1>10 DEF LoadRow
  <2>2. TheTable(s) \in Table /\ WithIndex(s) \in BOOLEAN
    BY <2>1, WorkingTable
  <2>3. \A p \in Owner : ArgumentFits(p)'
    BY <1>10, <1>t, <2>1 DEF LoadRow, Goto, ArgumentFits, Loads
  <2> QED BY <1>8, <1>10, <2>2, <2>3 DEF LoadRow
<1>11. ASSUME NEW s \in Owner, ExecuteDeleteWhere(s) PROVE BaseInv'
  <2> DEFINE t == TheTable(s)
             w == WithIndex(s)
             res == ExecuteDelete(store[t], stmt[s].arg, w)
  <2>1. pc[s] = "ready" /\ stmt[s].kind = "delete"
    BY <1>11 DEF ExecuteDeleteWhere
  <2>2. t \in Table /\ w \in BOOLEAN /\ stmt[s].arg \in Where
    BY <2>1, WorkingTable DEF ArgumentFits
  <2>3. \A p \in Owner : ArgumentFits(p)'
    BY <1>11, <1>t DEF ExecuteDeleteWhere, Goto, Finished, AfterSuccess, AfterError, ArgumentFits
  <2>4. /\ store' = [store EXCEPT ![t] = res.table]
        /\ UNCHANGED undo \/ (res.ok /\ Logged(s, UndoEntry("delete", t, res.candidates, w)))
    <3>1. store' = [store EXCEPT ![t] = res.table]
      BY <1>11 DEF ExecuteDeleteWhere
    <3>2. IF res.ok
          THEN UNCHANGED undo \/ Logged(s, UndoEntry("delete", t, res.candidates, w))
          ELSE UNCHANGED undo
      <4> USE <1>11 DEF ExecuteDeleteWhere
      <4>1. CASE res.ok
        <5>1. IF res.candidates = <<>> THEN UNCHANGED undo
              ELSE Logged(s, UndoEntry("delete", t, res.candidates, w))
          BY <4>1
        <5> QED BY <4>1, <5>1
      <4>2. CASE ~res.ok
        BY <4>2
      <4> HIDE DEF ExecuteDeleteWhere, res
      <4> QED BY <4>1, <4>2
    <3> HIDE DEF res
    <3> QED BY <3>1, <3>2
  <2> HIDE DEF t, w
  <2>5. SoundTable(res.table) /\ (res.ok => res.candidates \in Seq(Candidate))
    BY <2>2, ExecuteDeleteKeeps
  <2> HIDE DEF res
  <2>6. res.ok => UndoEntry("delete", t, res.candidates, w) \in LogEntry
    BY <2>2, <2>5 DEF UndoEntry, LogEntry
  <2>7. undo' \in [Owner -> Seq(LogEntry)]
    BY <2>4, <2>6, LoggedIsTyped
  <2> QED BY <2>2, <2>3, <2>4, <2>5, <2>7, StoreChanges
<1>12. ASSUME NEW s \in Owner, ExecuteSelect(s) \/ StatementEnds(s) PROVE BaseInv'
  <2>1. UNCHANGED <<store, undo>> /\ \A p \in Owner : p # s => pc'[p] = pc[p] /\ stmt'[p] = stmt[p]
    BY <1>12, <1>t DEF ExecuteSelect, StatementEnds, Goto, Finished
  <2>2. pc'[s] \in {"idle", "releasing"}
    BY <1>12, <1>t DEF ExecuteSelect, StatementEnds, Goto, AfterSuccess
  <2> QED BY <1>0, <2>1, <2>2 DEF ArgumentFits
<1>13. ASSUME NEW s \in Owner, ExecuteDdl(s) PROVE BaseInv'
  <2> DEFINE t == TheTable(s)
             res == IF stmt[s].kind = "create_index" THEN CreateIndex(store[t]) ELSE DropTable(store[t])
  <2>1. pc[s] = "ready"
    BY <1>13 DEF ExecuteDdl
  <2>2. t \in Table
    BY <2>1, WorkingTable
  <2>3. \A p \in Owner : ArgumentFits(p)'
    BY <1>13, <1>t DEF ExecuteDdl, Goto, Finished, AfterSuccess, ArgumentFits
  <2>4. store' = [store EXCEPT ![t] = res.table] /\ UNCHANGED undo
    BY <1>13 DEF ExecuteDdl
  <2> HIDE DEF t
  <2>5. SoundTable(res.table)
    BY <2>2, DdlKeeps
  <2> HIDE DEF res
  <2> QED BY <2>2, <2>3, <2>4, <2>5, StoreChanges
<1>14. ASSUME NEW s \in Owner, UndoStep(s) PROVE BaseInv'
  <2> DEFINE e == Last(undo[s])
  <2>1. undo[s] # <<>> /\ UNCHANGED <<pc, stmt>>
        /\ store' = [store EXCEPT ![e.table] = Undone(e)]
        /\ undo' = [undo EXCEPT ![s] = Front(undo[s])]
    BY <1>14 DEF UndoStep
  <2>2. e \in LogEntry /\ Front(undo[s]) \in Seq(LogEntry) /\ SoundTable(Undone(e))
    BY <2>1, UndoneIsATable
  <2>3. e.table \in Table
    BY <2>2 DEF LogEntry
  <2> HIDE DEF e
  <2>4. undo' \in [Owner -> Seq(LogEntry)]
    BY <2>1, <2>2
  <2> QED BY <2>1, <2>2, <2>3, <2>4, StoreChanges DEF ArgumentFits
<1>15. ASSUME NEW s \in Owner, NEW t \in Table, ReleaseLock(s, t) PROVE BaseInv'
  BY <1>15 DEF ReleaseLock, ArgumentFits
<1>16. CASE UNCHANGED vars
  BY <1>16 DEF vars, sessionVars, ArgumentFits
<1> QED
  BY <1>1, <1>2, <1>3, <1>4, <1>5, <1>6, <1>7, <1>9, <1>10, <1>11, <1>12, <1>13,
     <1>14, <1>15, <1>16
     DEF Next, ClientStep, ProcessorStep

LEMMA BaseInvariant == Spec => [](TxInv /\ BaseInv)
<1>1. TxInv /\ BaseInv /\ [Next]_vars => BaseInv'
  BY BaseStep
<1> QED BY <1>1, BaseInitially, InitInv, InvStep, PTL DEF Spec

(* Two rows of a table never have the same primary key, whatever the clients send,
   also after the undo of statements whose index or whose RIDs were stale: every
   call that stores a row looks for its key first. *)
THEOREM TxKeysUnique == Spec => []KeysUnique
<1>1. BaseInv => KeysUnique
  BY DEF BaseInv, SoundTable, KeysApart, KeysUnique
<1> QED BY <1>1, BaseInvariant, PTL

-------------------------------------------------------------------------------
(* What an undo log can bring back, when no index appears behind a statement and no
   transaction deletes what it inserted. *)

InsertsIn(u, t) == {n \in DOMAIN u : u[n].table = t /\ u[n].kind = "insert"}

DeletesIn(u, t) == {n \in DOMAIN u : u[n].table = t /\ u[n].kind = "delete"}

SlotOf(e) == e.candidates[1].slot

(* The log was written for the index that the table has. *)
LogKnowsTheIndex(u, t, T) ==
    \A n \in DOMAIN u : u[n].table = t => T.exists /\ u[n].indexed = T.indexed

(* Each row that was inserted is still where it was put. *)
InsertedAreThere(u, t, T) ==
    /\ \A n \in InsertsIn(u, t) :
          DOMAIN u[n].candidates = {1} /\ T.slots[SlotOf(u[n])] = u[n].candidates[1].row
    /\ \A n, m \in InsertsIn(u, t) : SlotOf(u[n]) = SlotOf(u[m]) => n = m

(* A key is deleted once. *)
DeletedOnce(u, t) ==
    /\ \A n \in DeletesIn(u, t) : \A i, j \in DOMAIN u[n].candidates :
          u[n].candidates[i].row.key = u[n].candidates[j].row.key => i = j
    /\ \A n, m \in DeletesIn(u, t) :
          KeysOf(u[n].candidates) \cap KeysOf(u[m].candidates) # {} => n = m

(* A key that was deleted is in the table only if it was inserted again later. *)
DeletedAreGone(u, t, T) ==
    \A n \in DeletesIn(u, t) : \A j \in UsedSlots(T) :
        T.slots[j].key \in KeysOf(u[n].candidates) =>
            \E m \in InsertsIn(u, t) : m > n /\ SlotOf(u[m]) = j

Recovers(u, t, T) ==
    /\ LogKnowsTheIndex(u, t, T)
    /\ InsertedAreThere(u, t, T)
    /\ DeletedOnce(u, t)
    /\ DeletedAreGone(u, t, T)

LEMMA AppendIs ==
    ASSUME NEW u \in Seq(LogEntry), NEW e \in LogEntry
    PROVE  /\ Len(u) \in Nat /\ DOMAIN u = 1 .. Len(u)
           /\ \A n \in DOMAIN u : u[n] \in LogEntry
           /\ DOMAIN Append(u, e) = DOMAIN u \cup {Len(u) + 1} /\ Len(u) + 1 \notin DOMAIN u
           /\ \A n \in DOMAIN u : n \in Nat /\ n < Len(u) + 1
           /\ Append(u, e)[Len(u) + 1] = e
           /\ \A n \in DOMAIN u : Append(u, e)[n] = u[n]
<1>1. Len(u) \in Nat /\ DOMAIN u = 1 .. Len(u) /\ \A n \in 1 .. Len(u) : u[n] \in LogEntry
  BY LenProperties, ElementOfSeq
<1>2. /\ Len(Append(u, e)) = Len(u) + 1
      /\ DOMAIN Append(u, e) = 1 .. Len(u) + 1
      /\ \A n \in 1 .. Len(u) : Append(u, e)[n] = u[n]
      /\ Append(u, e)[Len(u) + 1] = e
  BY AppendProperties, LenProperties
<1>3. 1 .. Len(u) + 1 = (1 .. Len(u)) \cup {Len(u) + 1}
  BY <1>1
<1>4. \A n \in 1 .. Len(u) : n \in Nat /\ n < Len(u) + 1
  BY <1>1
<1>5. Len(u) + 1 \notin 1 .. Len(u)
  BY <1>1
<1> QED BY <1>1, <1>2, <1>3, <1>4, <1>5

(* A log with no entry for a table says nothing about it. *)
LEMMA NothingToRecover ==
    ASSUME NEW u, NEW t, NEW T, \A n \in DOMAIN u : u[n].table # t
    PROVE  Recovers(u, t, T)
<1>1. InsertsIn(u, t) = {} /\ DeletesIn(u, t) = {}
  BY DEF InsertsIn, DeletesIn
<1> QED BY <1>1 DEF Recovers, LogKnowsTheIndex, InsertedAreThere, DeletedOnce, DeletedAreGone

(* The entries of a log with one more of them. *)
LEMMA EntriesOfAppend ==
    ASSUME NEW u \in Seq(LogEntry), NEW e \in LogEntry, NEW t
    PROVE  /\ InsertsIn(Append(u, e), t) =
                 InsertsIn(u, t) \cup
                   (IF e.table = t /\ e.kind = "insert" THEN {Len(u) + 1} ELSE {})
           /\ DeletesIn(Append(u, e), t) =
                 DeletesIn(u, t) \cup
                   (IF e.table = t /\ e.kind = "delete" THEN {Len(u) + 1} ELSE {})
           /\ InsertsIn(u, t) \subseteq DOMAIN u /\ DeletesIn(u, t) \subseteq DOMAIN u
<1> DEFINE u2 == Append(u, e)
           N == Len(u)
<1>1. /\ DOMAIN u2 = DOMAIN u \cup {N + 1}
      /\ u2[N + 1] = e
      /\ \A n \in DOMAIN u : u2[n] = u[n]
  BY AppendIs
<1> HIDE DEF u2, N
<1>2. InsertsIn(u2, t) =
        InsertsIn(u, t) \cup (IF e.table = t /\ e.kind = "insert" THEN {N + 1} ELSE {})
  BY <1>1 DEF InsertsIn
<1>3. DeletesIn(u2, t) =
        DeletesIn(u, t) \cup (IF e.table = t /\ e.kind = "delete" THEN {N + 1} ELSE {})
  BY <1>1 DEF DeletesIn
<1> QED BY <1>2, <1>3 DEF u2, N, InsertsIn, DeletesIn

(* An entry about another table changes nothing for this one. *)
LEMMA OtherTableRecovers ==
    ASSUME NEW u \in Seq(LogEntry), NEW e \in LogEntry, NEW t, NEW T, e.table # t
    PROVE  Recovers(Append(u, e), t, T) <=> Recovers(u, t, T)
<1> DEFINE u2 == Append(u, e)
           N == Len(u)
<1>1. /\ DOMAIN u2 = DOMAIN u \cup {N + 1}
      /\ u2[N + 1] = e
      /\ \A n \in DOMAIN u : u2[n] = u[n]
  BY AppendIs
<1> HIDE DEF u2, N
<1>2. /\ InsertsIn(u2, t) = InsertsIn(u, t) /\ DeletesIn(u2, t) = DeletesIn(u, t)
      /\ InsertsIn(u, t) \subseteq DOMAIN u /\ DeletesIn(u, t) \subseteq DOMAIN u
  BY <1>1 DEF InsertsIn, DeletesIn
<1>3. LogKnowsTheIndex(u2, t, T) <=> LogKnowsTheIndex(u, t, T)
  BY <1>1 DEF LogKnowsTheIndex
<1>4. InsertedAreThere(u2, t, T) <=> InsertedAreThere(u, t, T)
  BY <1>1, <1>2 DEF InsertedAreThere
<1>5. DeletedOnce(u2, t) <=> DeletedOnce(u, t)
  BY <1>1, <1>2 DEF DeletedOnce
<1>6. DeletedAreGone(u2, t, T) <=> DeletedAreGone(u, t, T)
  BY <1>1, <1>2 DEF DeletedAreGone
<1> QED BY <1>3, <1>4, <1>5, <1>6 DEF Recovers, u2

(* record_insert. *)
LEMMA InsertIsRecoverable ==
    ASSUME NEW u \in Seq(LogEntry), NEW t \in Table, NEW T, SoundTable(T), T.exists, Recovers(u, t, T),
           NEW f \in Slot, T.slots[f] = NoRow, NEW r \in Row, ~HasKey(T, r.key)
    PROVE  LET e == UndoEntry("insert", t, <<[slot |-> f, row |-> r]>>, T.indexed)
           IN  e \in LogEntry /\ Recovers(Append(u, e), t, Put(T, f, r, T.indexed))
<1> DEFINE c == [slot |-> f, row |-> r]
           e == UndoEntry("insert", t, <<c>>, T.indexed)
           u2 == Append(u, e)
           N == Len(u) + 1
           U == Put(T, f, r, T.indexed)
<1>1. T.slots \in [Slot -> Row \cup {NoRow}] /\ T.indexed \in BOOLEAN
  BY DEF SoundTable, TableType
<1>2. /\ e \in LogEntry /\ e.kind = "insert" /\ e.table = t /\ e.indexed = T.indexed
      /\ DOMAIN e.candidates = {1} /\ SlotOf(e) = f /\ e.candidates[1].row = r
  <2>1. c \in Candidate
    BY DEF Candidate
  <2>2. <<c>> \in Seq(Candidate) /\ DOMAIN <<c>> = {1} /\ <<c>>[1] = c
    <3> HIDE DEF c
    <3> QED BY <2>1
  <2>3. e = [kind |-> "insert", table |-> t, candidates |-> <<c>>, indexed |-> T.indexed]
    BY DEF UndoEntry
  <2>4. c.slot = f /\ c.row = r
    OBVIOUS
  <2> HIDE DEF c, e
  <2> QED BY <1>1, <2>2, <2>3, <2>4 DEF LogEntry, SlotOf
<1>3. /\ U.exists = T.exists /\ U.indexed = T.indexed
      /\ U.slots = [T.slots EXCEPT ![f] = r]
      /\ UsedSlots(U) = UsedSlots(T) \cup {f}
  <2>1. U.exists = T.exists /\ U.indexed = T.indexed /\ U.slots = [T.slots EXCEPT ![f] = r]
    BY DEF Put, SoundTable, TableType
  <2> HIDE DEF U
  <2>2. r # NoRow /\ \A i \in Slot : U.slots[i] = IF i = f THEN r ELSE T.slots[i]
    BY <1>1, <2>1, NoRowIsNoRow
  <2> QED BY <2>1, <2>2 DEF UsedSlots
<1>4. U.slots[f] = r /\ \A i \in Slot : i # f => U.slots[i] = T.slots[i]
  BY <1>1, <1>3
<1>5. /\ DOMAIN u2 = DOMAIN u \cup {N} /\ N \notin DOMAIN u
      /\ u2[N] = e
      /\ \A n \in DOMAIN u : u2[n] = u[n] /\ n < N /\ u[n] \in LogEntry
  BY <1>2, AppendIs
<1>6. /\ InsertsIn(u2, t) = InsertsIn(u, t) \cup {N} /\ DeletesIn(u2, t) = DeletesIn(u, t)
      /\ InsertsIn(u, t) \subseteq DOMAIN u /\ DeletesIn(u, t) \subseteq DOMAIN u
  <2> HIDE DEF u2, N, e
  <2> QED BY <1>2, <1>5 DEF InsertsIn, DeletesIn
<1> HIDE DEF c, e, u2, N, U
<1>7. ASSUME NEW n \in InsertsIn(u, t)
      PROVE  SlotOf(u[n]) \in Slot /\ SlotOf(u[n]) # f /\ SlotOf(u[n]) \in UsedSlots(T)
  <2>1. u[n].candidates \in Seq(Candidate) /\ DOMAIN u[n].candidates = {1}
    BY <1>5, <1>6 DEF LogEntry, Recovers, InsertedAreThere
  <2>2. SlotOf(u[n]) \in Slot /\ u[n].candidates[1].row \in Row
    BY <2>1, CandidatesTyped DEF SlotOf
  <2>3. T.slots[SlotOf(u[n])] = u[n].candidates[1].row
    BY DEF Recovers, InsertedAreThere
  <2> QED BY <2>2, <2>3, NoRowIsNoRow DEF UsedSlots
<1>8. LogKnowsTheIndex(u2, t, U)
  BY <1>2, <1>3, <1>5 DEF Recovers, LogKnowsTheIndex
<1>9. InsertedAreThere(u2, t, U)
  <2>1. \A n \in InsertsIn(u2, t) :
           DOMAIN u2[n].candidates = {1} /\ U.slots[SlotOf(u2[n])] = u2[n].candidates[1].row
    BY <1>2, <1>4, <1>5, <1>6, <1>7 DEF Recovers, InsertedAreThere
  <2>2. \A n, m \in InsertsIn(u2, t) : SlotOf(u2[n]) = SlotOf(u2[m]) => n = m
    BY <1>2, <1>5, <1>6, <1>7 DEF Recovers, InsertedAreThere
  <2> QED BY <2>1, <2>2 DEF InsertedAreThere
<1>10. DeletedOnce(u2, t)
  BY <1>5, <1>6 DEF Recovers, DeletedOnce
<1>11. DeletedAreGone(u2, t, U)
  <2> SUFFICES ASSUME NEW n \in DeletesIn(u2, t), NEW j \in UsedSlots(U),
                      U.slots[j].key \in KeysOf(u2[n].candidates)
               PROVE  \E m \in InsertsIn(u2, t) : m > n /\ SlotOf(u2[m]) = j
    BY DEF DeletedAreGone
  <2>1. n \in DeletesIn(u, t) /\ u2[n] = u[n] /\ n < N
    BY <1>5, <1>6
  <2>2. CASE j = f
    <3>1. N \in InsertsIn(u2, t) /\ SlotOf(u2[N]) = j
      BY <1>2, <1>5, <1>6, <2>2
    <3>2. n \in Nat /\ N \in Nat
      BY <1>6, <2>1, AppendIs DEF N
    <3> QED BY <2>1, <3>1, <3>2
  <2>3. CASE j # f
    <3>1. j \in UsedSlots(T) /\ U.slots[j] = T.slots[j]
      BY <1>3, <1>4, <2>3 DEF UsedSlots
    <3>2. PICK m \in InsertsIn(u, t) : m > n /\ SlotOf(u[m]) = j
      BY <2>1, <3>1 DEF Recovers, DeletedAreGone
    <3> QED BY <1>5, <1>6, <3>2
  <2> QED BY <2>2, <2>3
<1>12. Recovers(u2, t, U)
  BY <1>8, <1>9, <1>10, <1>11 DEF Recovers
<1> QED BY <1>2, <1>12 DEF u2, e, U, c

(* record_delete, of rows that were read and that the transaction did not insert. *)
LEMMA DeleteIsRecoverable ==
    ASSUME NEW u \in Seq(LogEntry), NEW t \in Table, NEW T, SoundTable(T), T.exists, Recovers(u, t, T),
           NEW cs \in Seq(Candidate), InPlace(T, cs),
           \A i, j \in DOMAIN cs : cs[i].slot = cs[j].slot => i = j,
           \A i \in DOMAIN cs : \A m \in InsertsIn(u, t) : SlotOf(u[m]) # cs[i].slot,
           NEW gone
    PROVE  LET e == UndoEntry("delete", t, cs, T.indexed)
           IN  e \in LogEntry /\ Recovers(Append(u, e), t, Take(T, KeysOf(cs), gone))
<1> DEFINE e == UndoEntry("delete", t, cs, T.indexed)
           u2 == Append(u, e)
           N == Len(u) + 1
           U == Take(T, KeysOf(cs), gone)
<1>1. T.slots \in [Slot -> Row \cup {NoRow}] /\ T.indexed \in BOOLEAN /\ KeysApart(T)
  BY DEF SoundTable, TableType
<1>2. /\ e \in LogEntry /\ e.kind = "delete" /\ e.table = t /\ e.indexed = T.indexed
      /\ e.candidates = cs
  BY <1>1 DEF UndoEntry, LogEntry
<1>3. /\ U.exists = T.exists /\ U.indexed = T.indexed
      /\ UsedSlots(U) = {i \in UsedSlots(T) : T.slots[i].key \notin KeysOf(cs)}
      /\ \A i \in UsedSlots(U) : U.slots[i] = T.slots[i]
  <2> DEFINE ks == KeysOf(cs)
             V == Take(T, ks, gone)
  <2> HIDE DEF ks
  <2>1. V.exists = T.exists
    BY TakeKeeps
  <2>2. V.indexed = T.indexed
    BY TakeKeeps
  <2>3. \A i \in UsedSlots(V) : V.slots[i] = T.slots[i]
    BY TakeKeeps
  <2>4. UsedSlots(V) = {i \in UsedSlots(T) : T.slots[i].key \notin ks}
    BY TakeKeeps
  <2> QED BY <2>1, <2>2, <2>3, <2>4 DEF ks
<1>5. /\ DOMAIN u2 = DOMAIN u \cup {N} /\ N \notin DOMAIN u
      /\ u2[N] = e
      /\ \A n \in DOMAIN u : u2[n] = u[n] /\ n < N /\ u[n] \in LogEntry
  BY <1>2, AppendIs
<1>6. /\ InsertsIn(u2, t) = InsertsIn(u, t) /\ DeletesIn(u2, t) = DeletesIn(u, t) \cup {N}
      /\ InsertsIn(u, t) \subseteq DOMAIN u /\ DeletesIn(u, t) \subseteq DOMAIN u
  <2> HIDE DEF u2, N, e
  <2> QED BY <1>2, <1>5 DEF InsertsIn, DeletesIn
<1> HIDE DEF e, u2, N, U
<1>7. ASSUME NEW i \in DOMAIN cs
      PROVE  cs[i].slot \in UsedSlots(T) /\ T.slots[cs[i].slot] = cs[i].row
  BY CandidatesTyped, NoRowIsNoRow DEF UsedSlots, InPlace
<1>8. ASSUME NEW n \in InsertsIn(u, t)
      PROVE  SlotOf(u[n]) \in UsedSlots(U)
  <2>1. u[n].candidates \in Seq(Candidate) /\ DOMAIN u[n].candidates = {1}
    BY <1>5, <1>6 DEF LogEntry, Recovers, InsertedAreThere
  <2>2. SlotOf(u[n]) \in Slot /\ u[n].candidates[1].row \in Row
    BY <2>1, CandidatesTyped DEF SlotOf
  <2>3. T.slots[SlotOf(u[n])] = u[n].candidates[1].row
    BY DEF Recovers, InsertedAreThere
  <2>4. SlotOf(u[n]) \in UsedSlots(T)
    BY <2>2, <2>3, NoRowIsNoRow DEF UsedSlots
  <2>5. T.slots[SlotOf(u[n])].key \notin KeysOf(cs)
    <3> SUFFICES ASSUME NEW i \in DOMAIN cs, T.slots[SlotOf(u[n])].key = cs[i].row.key
                 PROVE  FALSE
      BY DEF KeysOf
    <3>1. cs[i].slot \in UsedSlots(T) /\ T.slots[cs[i].slot].key = cs[i].row.key
      BY <1>7
    <3>2. SlotOf(u[n]) = cs[i].slot
      BY <1>1, <2>4, <3>1 DEF KeysApart
    <3> QED BY <3>2
  <2> QED BY <1>3, <2>4, <2>5
<1>9. LogKnowsTheIndex(u2, t, U)
  BY <1>2, <1>3, <1>5 DEF Recovers, LogKnowsTheIndex
<1>10. InsertedAreThere(u2, t, U)
  <2>1. \A n \in InsertsIn(u2, t) :
           DOMAIN u2[n].candidates = {1} /\ U.slots[SlotOf(u2[n])] = u2[n].candidates[1].row
    BY <1>3, <1>5, <1>6, <1>8 DEF Recovers, InsertedAreThere
  <2>2. \A n, m \in InsertsIn(u2, t) : SlotOf(u2[n]) = SlotOf(u2[m]) => n = m
    BY <1>5, <1>6 DEF Recovers, InsertedAreThere
  <2> QED BY <2>1, <2>2 DEF InsertedAreThere
<1>11. DeletedOnce(u2, t)
  <2>1. \A i, j \in DOMAIN cs : cs[i].row.key = cs[j].row.key => i = j
    BY <1>1, <1>7 DEF KeysApart
  <2>2. \A n \in DeletesIn(u2, t) : \A i, j \in DOMAIN u2[n].candidates :
           u2[n].candidates[i].row.key = u2[n].candidates[j].row.key => i = j
    BY <1>2, <1>5, <1>6, <2>1 DEF Recovers, DeletedOnce
  <2>3. ASSUME NEW n \in DeletesIn(u, t), NEW k \in KeysOf(u[n].candidates), k \in KeysOf(cs)
        PROVE  FALSE
    <3>1. PICK i \in DOMAIN cs : k = cs[i].row.key
      BY <2>3 DEF KeysOf
    <3>2. cs[i].slot \in UsedSlots(T) /\ T.slots[cs[i].slot].key = k
      BY <1>7, <3>1
    <3>3. \E m \in InsertsIn(u, t) : SlotOf(u[m]) = cs[i].slot
      BY <3>2 DEF Recovers, DeletedAreGone
    <3> QED BY <3>3
  <2>4. \A n, m \in DeletesIn(u2, t) :
          KeysOf(u2[n].candidates) \cap KeysOf(u2[m].candidates) # {} => n = m
    <3> SUFFICES ASSUME NEW n \in DeletesIn(u2, t), NEW m \in DeletesIn(u2, t),
                        NEW k, k \in KeysOf(u2[n].candidates), k \in KeysOf(u2[m].candidates)
                 PROVE  n = m
      OBVIOUS
    <3>1. CASE n \in DeletesIn(u, t) /\ m \in DeletesIn(u, t)
      BY <1>5, <1>6, <3>1 DEF Recovers, DeletedOnce
    <3>2. CASE n = N \/ m = N
      BY <1>2, <1>5, <1>6, <2>3, <3>2
    <3> QED BY <1>6, <3>1, <3>2
  <2> QED BY <2>2, <2>4 DEF DeletedOnce
<1>12. DeletedAreGone(u2, t, U)
  BY <1>2, <1>3, <1>5, <1>6 DEF Recovers, DeletedAreGone
<1>13. Recovers(u2, t, U)
  BY <1>9, <1>10, <1>11, <1>12 DEF Recovers
<1> QED BY <1>2, <1>13 DEF u2, e, U

(* Transaction.rollback, the undo of an INSERT: the row is where the log says, so it
   goes, with its entry. *)
LEMMA UndoOfInsert ==
    ASSUME NEW u \in Seq(LogEntry), NEW e \in LogEntry, e.kind = "insert",
           NEW T, SoundTable(T), IndexMirrors(T), Recovers(Append(u, e), e.table, T)
    PROVE  \E gone, c :
              /\ c \in Candidate /\ T.exists /\ e.candidates = <<c>> /\ T.slots[c.slot] = c.row
              /\ DeleteWithIndexes(T, e.candidates, e.indexed).table = Take(T, {c.row.key}, gone)
              /\ IndexMirrors(Take(T, {c.row.key}, gone))
              /\ Recovers(u, e.table, Take(T, {c.row.key}, gone))
<1> DEFINE t == e.table
           cs == e.candidates
           u2 == Append(u, e)
           N == Len(u) + 1
<1>0. /\ cs \in Seq(Candidate) /\ e.indexed \in BOOLEAN
      /\ KeysApart(T)
  BY DEF LogEntry, SoundTable
<1>1. /\ DOMAIN u2 = DOMAIN u \cup {N} /\ N \notin DOMAIN u
      /\ u2[N] = e
      /\ \A n \in DOMAIN u : u2[n] = u[n] /\ n < N /\ u[n] \in LogEntry
  BY AppendIs
<1> HIDE DEF u2, N
<1>2. /\ InsertsIn(u2, t) = InsertsIn(u, t) \cup {N} /\ DeletesIn(u2, t) = DeletesIn(u, t)
      /\ InsertsIn(u, t) \subseteq DOMAIN u /\ DeletesIn(u, t) \subseteq DOMAIN u
  BY <1>1 DEF InsertsIn, DeletesIn
<1>3. /\ LogKnowsTheIndex(u2, t, T) /\ InsertedAreThere(u2, t, T)
      /\ DeletedOnce(u2, t) /\ DeletedAreGone(u2, t, T)
  BY DEF Recovers, u2
<1> DEFINE c == cs[1]
<1>4. /\ T.exists /\ e.indexed = T.indexed
      /\ DOMAIN cs = {1} /\ T.slots[c.slot] = c.row
  BY <1>1, <1>2, <1>3 DEF LogKnowsTheIndex, InsertedAreThere, SlotOf
<1>5. c \in Candidate /\ c.slot \in Slot /\ c.row \in Row
  BY <1>0, <1>4, CandidatesTyped
<1>6. cs = <<c>> /\ KeysOf(cs) = {c.row.key}
  <2>1. cs = <<c>>
    <3>1. Len(cs) = 1
      <4>1. Len(cs) \in Nat /\ DOMAIN cs = 1 .. Len(cs)
        BY <1>0, CandidatesTyped
      <4> HIDE DEF cs
      <4> DEFINE L == Len(cs)
      <4>2. L \in Nat /\ 1 .. L = {1}
        BY <1>4, <4>1
      <4> HIDE DEF L
      <4>3. L = 1
        <5>1. L \in 1 .. L \/ L = 0
          BY <4>2
        <5> QED BY <4>2, <5>1
      <4> QED BY <4>3 DEF L
    <3> HIDE DEF cs
    <3> QED BY <1>0, <3>1
  <2> HIDE DEF cs
  <2> QED BY <1>4, <2>1 DEF KeysOf
<1> HIDE DEF cs, c, t
<1>7. c.slot \in UsedSlots(T)
  BY <1>4, <1>5, NoRowIsNoRow DEF UsedSlots
<1>8. PICK gone :
          /\ DeleteWithIndexes(T, cs, e.indexed) = Done(Take(T, {c.row.key}, gone), cs)
          /\ IndexMirrors(Take(T, {c.row.key}, gone))
  <2>1. InPlace(T, cs)
    BY <1>4 DEF InPlace, c
  <2>2. HandlesOpen(T, e.indexed)
    BY <1>4 DEF HandlesOpen
  <2> QED BY <1>0, <1>4, <1>6, <2>1, <2>2, DeleteInPlace
<1> DEFINE ks == {c.row.key}
           U == Take(T, ks, gone)
<1> HIDE DEF ks
<1>9. /\ U.exists = T.exists /\ U.indexed = T.indexed
      /\ UsedSlots(U) = {i \in UsedSlots(T) : T.slots[i].key \notin ks}
      /\ \A i \in UsedSlots(U) : U.slots[i] = T.slots[i]
  <2>1. U.exists = T.exists
    BY <1>4, TakeKeeps
  <2>2. U.indexed = T.indexed
    BY <1>4, TakeKeeps
  <2>3. \A i \in UsedSlots(U) : U.slots[i] = T.slots[i]
    BY <1>4, TakeKeeps
  <2>4. UsedSlots(U) = {i \in UsedSlots(T) : T.slots[i].key \notin ks}
    BY <1>4, TakeKeeps
  <2> QED BY <2>1, <2>2, <2>3, <2>4
<1>10. DeleteWithIndexes(T, e.candidates, e.indexed).table = U /\ IndexMirrors(U)
  BY <1>8 DEF ks, cs, Done
<1> HIDE DEF U
<1>11. c.slot \notin UsedSlots(U)
  BY <1>4, <1>9 DEF ks
<1>12. ASSUME NEW n \in InsertsIn(u, t) PROVE SlotOf(u[n]) \in UsedSlots(U)
  <2>1. u[n].candidates \in Seq(Candidate) /\ DOMAIN u[n].candidates = {1}
        /\ T.slots[SlotOf(u[n])] = u[n].candidates[1].row /\ n \in DOMAIN u
    BY <1>1, <1>2, <1>3 DEF LogEntry, InsertedAreThere
  <2>2. SlotOf(u[n]) \in Slot /\ u[n].candidates[1].row \in Row
    BY <2>1, CandidatesTyped DEF SlotOf
  <2>3. SlotOf(u[n]) \in UsedSlots(T)
    BY <2>1, <2>2, NoRowIsNoRow DEF UsedSlots
  <2>4. SlotOf(u[n]) # c.slot
    <3>1. SlotOf(u2[N]) = c.slot
      BY <1>1 DEF SlotOf, c, cs
    <3> QED BY <1>1, <1>2, <1>3, <2>1, <3>1 DEF InsertedAreThere
  <2>5. T.slots[SlotOf(u[n])].key \notin ks
    BY <1>0, <1>4, <1>7, <2>3, <2>4 DEF KeysApart, ks
  <2> QED BY <1>9, <2>3, <2>5
<1>13. LogKnowsTheIndex(u, t, U)
  BY <1>1, <1>3, <1>9 DEF LogKnowsTheIndex
<1>14. InsertedAreThere(u, t, U)
  <2>1. \A n \in InsertsIn(u, t) :
           DOMAIN u[n].candidates = {1} /\ U.slots[SlotOf(u[n])] = u[n].candidates[1].row
    BY <1>1, <1>2, <1>3, <1>9, <1>12 DEF InsertedAreThere
  <2>2. \A n, m \in InsertsIn(u, t) : SlotOf(u[n]) = SlotOf(u[m]) => n = m
    BY <1>1, <1>2, <1>3 DEF InsertedAreThere
  <2> QED BY <2>1, <2>2 DEF InsertedAreThere
<1>15. DeletedOnce(u, t)
  BY <1>1, <1>2, <1>3 DEF DeletedOnce
<1>16. DeletedAreGone(u, t, U)
  <2> SUFFICES ASSUME NEW n \in DeletesIn(u, t), NEW j \in UsedSlots(U),
                      U.slots[j].key \in KeysOf(u[n].candidates)
               PROVE  \E m \in InsertsIn(u, t) : m > n /\ SlotOf(u[m]) = j
    BY DEF DeletedAreGone
  <2>1. j \in UsedSlots(T) /\ T.slots[j].key \in KeysOf(u2[n].candidates) /\ n \in DeletesIn(u2, t)
    BY <1>1, <1>2, <1>9
  <2>2. PICK m \in InsertsIn(u2, t) : m > n /\ SlotOf(u2[m]) = j
    BY <1>3, <2>1 DEF DeletedAreGone
  <2>3. m # N
    <3>1. SlotOf(u2[N]) = c.slot
      BY <1>1 DEF SlotOf, c, cs
    <3> QED BY <1>11, <2>2, <3>1
  <2> QED BY <1>1, <1>2, <2>2, <2>3
<1>17. Recovers(u, t, U)
  BY <1>13, <1>14, <1>15, <1>16 DEF Recovers
<1> QED BY <1>4, <1>5, <1>6, <1>10, <1>17 DEF U, ks, cs, t

(* The undo of a DELETE: none of the keys has come back, so every row does. *)
LEMMA UndoOfDelete ==
    ASSUME NEW u \in Seq(LogEntry), NEW e \in LogEntry, e.kind = "delete",
           NEW T, SoundTable(T), IndexMirrors(T), Recovers(Append(u, e), e.table, T)
    PROVE  LET U == ReinsertAll(T, e.candidates, e.indexed).table
           IN  /\ T.exists /\ U.exists /\ U.indexed = T.indexed
               /\ RowsOf(U) = RowsOf(T) \cup CandidateRows(e.candidates)
               /\ RowsOf(T) \cap CandidateRows(e.candidates) = {}
               /\ SoundTable(U) /\ IndexMirrors(U)
               /\ Recovers(u, e.table, U)
<1> DEFINE t == e.table
           cs == e.candidates
           u2 == Append(u, e)
           N == Len(u) + 1
           U == ReinsertAll(T, cs, T.indexed).table
<1>0. cs \in Seq(Candidate) /\ e.indexed \in BOOLEAN /\ KeysApart(T)
  BY DEF LogEntry, SoundTable
<1>1. /\ DOMAIN u2 = DOMAIN u \cup {N} /\ N \notin DOMAIN u
      /\ u2[N] = e
      /\ \A n \in DOMAIN u : u2[n] = u[n] /\ n < N /\ u[n] \in LogEntry
  BY AppendIs
<1>n. N \in Nat /\ \A n \in DOMAIN u : n \in Nat
  BY AppendIs
<1> HIDE DEF u2, N
<1>2. /\ InsertsIn(u2, t) = InsertsIn(u, t) /\ DeletesIn(u2, t) = DeletesIn(u, t) \cup {N}
      /\ InsertsIn(u, t) \subseteq DOMAIN u /\ DeletesIn(u, t) \subseteq DOMAIN u
  BY <1>1 DEF InsertsIn, DeletesIn
<1>3. /\ LogKnowsTheIndex(u2, t, T) /\ InsertedAreThere(u2, t, T)
      /\ DeletedOnce(u2, t) /\ DeletedAreGone(u2, t, T)
  BY DEF Recovers, u2
<1>4. T.exists /\ e.indexed = T.indexed
  BY <1>1, <1>3 DEF LogKnowsTheIndex
<1>5. \A i, j \in DOMAIN cs : cs[i].row.key = cs[j].row.key => i = j
  BY <1>1, <1>2, <1>3 DEF DeletedOnce
<1>6. ASSUME NEW i \in DOMAIN cs, HasKey(T, cs[i].row.key) PROVE FALSE
  <2>1. PICK j \in UsedSlots(T) : T.slots[j].key = cs[i].row.key
    BY <1>6 DEF HasKey, RowsOf
  <2>2. T.slots[j].key \in KeysOf(u2[N].candidates)
    BY <1>1, <2>1 DEF KeysOf
  <2>3. PICK m \in InsertsIn(u2, t) : m > N
    BY <1>2, <1>3, <2>2 DEF DeletedAreGone
  <2> QED BY <1>1, <1>n, <1>2, <2>3
<1> HIDE DEF cs, t
<1>7. /\ SoundTable(U) /\ IndexMirrors(U)
      /\ U.exists /\ U.indexed = T.indexed
      /\ RowsOf(U) = RowsOf(T) \cup CandidateRows(cs)
      /\ \A i \in UsedSlots(T) : i \in UsedSlots(U) /\ U.slots[i] = T.slots[i]
  BY <1>0, <1>4, <1>5, <1>6, ReinsertEffect
<1> HIDE DEF U
<1>8. ASSUME NEW n \in InsertsIn(u, t)
      PROVE  SlotOf(u[n]) \in UsedSlots(T) /\ T.slots[SlotOf(u[n])] = u[n].candidates[1].row
             /\ DOMAIN u[n].candidates = {1}
  <2>1. u[n].candidates \in Seq(Candidate) /\ DOMAIN u[n].candidates = {1}
        /\ T.slots[SlotOf(u[n])] = u[n].candidates[1].row
    BY <1>1, <1>2, <1>3 DEF LogEntry, InsertedAreThere
  <2>2. SlotOf(u[n]) \in Slot /\ u[n].candidates[1].row \in Row
    BY <2>1, CandidatesTyped DEF SlotOf
  <2> QED BY <2>1, <2>2, NoRowIsNoRow DEF UsedSlots
<1>9. LogKnowsTheIndex(u, t, U)
  BY <1>1, <1>3, <1>4, <1>7 DEF LogKnowsTheIndex
<1>10. InsertedAreThere(u, t, U)
  <2>1. \A n, m \in InsertsIn(u, t) : SlotOf(u[n]) = SlotOf(u[m]) => n = m
    BY <1>1, <1>2, <1>3 DEF InsertedAreThere
  <2> QED BY <1>7, <1>8, <2>1 DEF InsertedAreThere
<1>11. DeletedOnce(u, t)
  BY <1>1, <1>2, <1>3 DEF DeletedOnce
<1>12. DeletedAreGone(u, t, U)
  <2> SUFFICES ASSUME NEW n \in DeletesIn(u, t), NEW j \in UsedSlots(U),
                      U.slots[j].key \in KeysOf(u[n].candidates)
               PROVE  \E m \in InsertsIn(u, t) : m > n /\ SlotOf(u[m]) = j
    BY DEF DeletedAreGone
  <2>1. U.slots[j] \notin CandidateRows(cs)
    <3> SUFFICES ASSUME U.slots[j] \in CandidateRows(cs) PROVE FALSE
      OBVIOUS
    <3>1. U.slots[j].key \in KeysOf(u2[N].candidates)
      BY <1>1 DEF CandidateRows, KeysOf, cs
    <3>2. U.slots[j].key \in KeysOf(u2[n].candidates) /\ n # N
      BY <1>1, <1>2
    <3> QED BY <1>2, <1>3, <3>1, <3>2 DEF DeletedOnce
  <2>2. PICK i \in UsedSlots(T) : U.slots[j] = T.slots[i]
    BY <1>7, <2>1 DEF RowsOf
  <2>3. i = j
    BY <1>7, <2>2 DEF SoundTable, KeysApart
  <2>4. PICK m \in InsertsIn(u2, t) : m > n /\ SlotOf(u2[m]) = j
    BY <1>1, <1>2, <1>3, <2>2, <2>3 DEF DeletedAreGone
  <2> QED BY <1>1, <1>2, <2>4
<1>13. Recovers(u, t, U)
  BY <1>9, <1>10, <1>11, <1>12 DEF Recovers
<1>14. ReinsertAll(T, e.candidates, e.indexed).table = U
  BY <1>4 DEF U, cs
<1>15. RowsOf(T) \cap CandidateRows(cs) = {}
  BY <1>6 DEF HasKey, CandidateRows
<1> QED BY <1>4, <1>7, <1>13, <1>14, <1>15 DEF t, cs

-------------------------------------------------------------------------------
(* What the committed rows are, seen from one log. *)

Mentioned(u, t, r) ==
    {n \in DOMAIN u : u[n].table = t /\ r \in CandidateRows(u[n].candidates)}

(* Row r was in table T before the writes that log u has on it. *)
Before(u, t, T, r) ==
    LET ns == Mentioned(u, t, r)
    IN  IF ns = {} THEN r \in RowsOf(T) ELSE u[First(ns)].kind = "delete"

LEMMA FirstIs ==
    ASSUME NEW ns \in SUBSET Nat, ns # {}
    PROVE  First(ns) \in ns /\ \A m \in ns : First(ns) <= m
<1>1. \E n \in ns : \A m \in ns : n <= m
  BY LeastOf
<1> QED BY <1>1 DEF First

(* The first entry that mentions a row stays the first one. *)
LEMMA BeforeAppend ==
    ASSUME NEW u \in Seq(LogEntry), NEW e \in LogEntry, NEW t, NEW T, NEW r
    PROVE  Before(Append(u, e), t, T, r) <=>
              IF Mentioned(u, t, r) # {}
              THEN u[First(Mentioned(u, t, r))].kind = "delete"
              ELSE IF e.table = t /\ r \in CandidateRows(e.candidates)
              THEN e.kind = "delete"
              ELSE r \in RowsOf(T)
<1> DEFINE u2 == Append(u, e)
           N == Len(u) + 1
           ns == Mentioned(u, t, r)
           ns2 == Mentioned(u2, t, r)
           says == e.table = t /\ r \in CandidateRows(e.candidates)
<1>1. /\ DOMAIN u2 = DOMAIN u \cup {N} /\ N \notin DOMAIN u
      /\ u2[N] = e
      /\ \A n \in DOMAIN u : u2[n] = u[n] /\ n < N
  BY AppendIs
<1>2. N \in Nat /\ \A n \in DOMAIN u : n \in Nat
  BY AppendIs
<1> HIDE DEF u2, N
<1>3. ns \subseteq DOMAIN u /\ ns2 = ns \cup (IF says THEN {N} ELSE {})
  BY <1>1 DEF Mentioned
<1> HIDE DEF ns, ns2, says
<1>4. ns \in SUBSET Nat /\ ns2 \in SUBSET Nat
  BY <1>2, <1>3
<1>5. CASE ns # {}
  <2>1. First(ns) \in ns /\ \A m \in ns : First(ns) <= m
    BY <1>4, <1>5, FirstIs
  <2>2. First(ns2) \in ns2 /\ \A m \in ns2 : First(ns2) <= m
    BY <1>3, <1>4, <1>5, FirstIs
  <2>3. First(ns2) \in ns
    <3> SUFFICES ASSUME First(ns2) = N PROVE FALSE
      BY <1>3, <2>2
    <3>1. First(ns) \in ns2 /\ First(ns) < N /\ First(ns) \in Nat
      BY <1>1, <1>2, <1>3, <2>1
    <3> QED BY <1>2, <2>2, <3>1
  <2>4. First(ns2) = First(ns)
    <3>1. First(ns) \in Nat /\ First(ns2) \in Nat /\ First(ns2) <= First(ns) /\ First(ns) <= First(ns2)
      BY <1>3, <1>4, <2>1, <2>2, <2>3
    <3> QED BY <3>1
  <2>5. u2[First(ns2)] = u[First(ns)]
    BY <1>1, <1>3, <2>1, <2>4
  <2> QED BY <1>3, <1>5, <2>5 DEF Before, ns, ns2, u2
<1>6. CASE ns = {} /\ says
  <2>1. ns2 = {N}
    BY <1>3, <1>6
  <2>2. First(ns2) = N
    BY <1>4, <2>1, FirstIs
  <2> QED BY <1>1, <1>6, <2>1, <2>2 DEF Before, ns, ns2, u2, says
<1>7. CASE ns = {} /\ ~says
  BY <1>3, <1>7 DEF Before, ns, ns2, u2, says
<1> QED BY <1>5, <1>6, <1>7

(* U is T after the write that e records: what was there before is the same. *)
LEMMA BeforeIsKept ==
    ASSUME NEW u \in Seq(LogEntry), NEW e \in LogEntry, NEW T, NEW U, NEW r,
           r \in CandidateRows(e.candidates) => (r \in RowsOf(T) <=> e.kind = "delete"),
           r \notin CandidateRows(e.candidates) => (r \in RowsOf(T) <=> r \in RowsOf(U))
    PROVE  Before(Append(u, e), e.table, U, r) <=> Before(u, e.table, T, r)
<1>1. Before(u, e.table, T, r) <=>
        IF Mentioned(u, e.table, r) # {}
        THEN u[First(Mentioned(u, e.table, r))].kind = "delete"
        ELSE r \in RowsOf(T)
  BY DEF Before
<1> QED BY <1>1, BeforeAppend

LEMMA OtherTableBefore ==
    ASSUME NEW u \in Seq(LogEntry), NEW e \in LogEntry, NEW t, e.table # t, NEW T, NEW r
    PROVE  Before(Append(u, e), t, T, r) <=> Before(u, t, T, r)
<1>1. Before(u, t, T, r) <=>
        IF Mentioned(u, t, r) # {}
        THEN u[First(Mentioned(u, t, r))].kind = "delete"
        ELSE r \in RowsOf(T)
  BY DEF Before
<1> QED BY <1>1, BeforeAppend

(* The four writes keep what was there. *)
LEMMA InsertKeepsBefore ==
    ASSUME NEW u \in Seq(LogEntry), NEW e \in LogEntry, e.kind = "insert", NEW r,
           NEW T, NEW U, NEW q, CandidateRows(e.candidates) = {q}, q \notin RowsOf(T),
           RowsOf(U) = RowsOf(T) \cup {q}
    PROVE  Before(Append(u, e), e.table, U, r) <=> Before(u, e.table, T, r)
  BY BeforeIsKept

LEMMA DeleteKeepsBefore ==
    ASSUME NEW u \in Seq(LogEntry), NEW e \in LogEntry, e.kind = "delete", NEW r,
           NEW T, NEW U, CandidateRows(e.candidates) \subseteq RowsOf(T),
           RowsOf(U) = RowsOf(T) \ CandidateRows(e.candidates)
    PROVE  Before(Append(u, e), e.table, U, r) <=> Before(u, e.table, T, r)
  BY BeforeIsKept

(* The rows that a delete takes are its candidates. *)
LEMMA TakenRows ==
    ASSUME NEW T, SoundTable(T), NEW cs \in Seq(Candidate), InPlace(T, cs)
    PROVE  /\ CandidateRows(cs) \subseteq RowsOf(T)
           /\ {r \in RowsOf(T) : r.key \notin KeysOf(cs)} = RowsOf(T) \ CandidateRows(cs)
<1>1. ASSUME NEW i \in DOMAIN cs
      PROVE  cs[i].slot \in UsedSlots(T) /\ T.slots[cs[i].slot] = cs[i].row
  BY CandidatesTyped, NoRowIsNoRow DEF UsedSlots, InPlace
<1>2. CandidateRows(cs) \subseteq RowsOf(T)
  BY <1>1 DEF CandidateRows, RowsOf
<1>3. ASSUME NEW r \in RowsOf(T), r.key \in KeysOf(cs) PROVE r \in CandidateRows(cs)
  <2>1. PICK j \in UsedSlots(T) : r = T.slots[j]
    BY DEF RowsOf
  <2>2. PICK i \in DOMAIN cs : r.key = cs[i].row.key
    BY <1>3 DEF KeysOf
  <2>3. j = cs[i].slot
    BY <1>1, <2>1, <2>2 DEF SoundTable, KeysApart
  <2> QED BY <1>1, <2>1, <2>3 DEF CandidateRows
<1>4. \A r \in CandidateRows(cs) : r.key \in KeysOf(cs)
  BY DEF CandidateRows, KeysOf
<1> QED BY <1>2, <1>3, <1>4

-------------------------------------------------------------------------------
(* The steps, under the two hypotheses. *)

(* What a statement learned before it had its locks is still good enough: an index it
   does not know of is not there, and it does not delete what its own transaction
   inserted. *)
Planned(s) ==
    pc[s] \in {"locking", "ready"} =>
        /\ \A t \in stmt[s].tables \ stmt[s].indexed : ~store[t].indexed
        /\ stmt[s].kind \in Ddl => tx[s] = "none"
        /\ stmt[s].kind = "delete" =>
              \A r \in OwnInserts(s, stmt[s].tables) : ~Satisfies(r, stmt[s].arg)

Mirrored == \A t \in Table : IndexMirrors(store[t])

Recoverable == \A s \in Owner, t \in Table : Recovers(undo[s], t, store[t])

StoreInv == Mirrored /\ Recoverable /\ \A s \in Owner : Planned(s)

LEMMA StoreInitially == Init => StoreInv
<1> SUFFICES ASSUME Init PROVE StoreInv
  OBVIOUS
<1>1. \A s \in Owner : undo[s] = <<>> /\ pc[s] = "idle"
  BY DEF Init
<1>2. Recoverable
  BY <1>1, NothingToRecover DEF Recoverable
<1>3. ASSUME NEW t \in Table PROVE IndexMirrors(store[t])
  <2> DEFINE b == t \in InitIndexed
             U == [EmptyTable(TRUE) EXCEPT !.indexed = b]
  <2>1. store[t] = U
    BY DEF Init
  <2>2. U.slots = EmptyTable(TRUE).slots /\ U.entries = {}
    BY DEF EmptyTable
  <2>3. UsedSlots(EmptyTable(TRUE)) = {}
    BY EmptyTableIs
  <2> HIDE DEF U
  <2>4. UsedSlots(U) = {}
    BY <2>2, <2>3 DEF UsedSlots
  <2> QED BY <2>1, <2>2, <2>4 DEF IndexMirrors
<1> QED BY <1>1, <1>2, <1>3 DEF StoreInv, Mirrored, Planned

(* Strict two-phase locking, for the log: who holds a table exclusively is the only
   one that can undo anything on it. *)
LEMMA Alone ==
    ASSUME TxInv, NEW s \in Owner, NEW t \in Table, held[s][t] = "EXCLUSIVE",
           NEW p \in Owner, p # s
    PROVE  held[p][t] = "none" /\ \A n \in DOMAIN undo[p] : undo[p][n].table # t
<1>1. s \in owners[t] /\ mode[t] = "EXCLUSIVE"
  BY DEF TxInv, LedgerAgrees
<1>2. p \notin owners[t]
  BY <1>1 DEF TxInv, LocksInv, LockExclusion
<1>3. held[p][t] = "none"
  BY <1>2 DEF TxInv, LedgerAgrees
<1> QED BY <1>3 DEF TxInv, Session, LogIsLocked

LEMMA WorksExclusively ==
    ASSUME TxInv, NEW s \in Owner, pc[s] = "ready", stmt[s].kind # "select"
    PROVE  held[s][TheTable(s)] = "EXCLUSIVE"
<1>1. stmt[s].todo = {} /\ \A t \in stmt[s].tables \ stmt[s].todo : LedgerCovers(s, t)
  BY DEF TxInv, Session, HoldsItsTables
<1>2. LedgerCovers(s, TheTable(s))
  BY <1>1, WorkingTable
<1> QED BY <1>2 DEF LedgerCovers, Mode

(* One owner changes one table, that it holds exclusively. *)
LEMMA OneTableChanges ==
    ASSUME TxInv, BaseInv, Mirrored, Recoverable,
           NEW s \in Owner, NEW t \in Table, held[s][t] = "EXCLUSIVE",
           NEW U, SoundTable(U), IndexMirrors(U), store' = [store EXCEPT ![t] = U],
           NEW u, undo' = [undo EXCEPT ![s] = u],
           Recovers(u, t, U),
           \A v \in Table : v # t => Recovers(u, v, store[v])
    PROVE  Mirrored' /\ Recoverable'
<1>1. store'[t] = U /\ \A v \in Table : v # t => store'[v] = store[v]
  BY DEF BaseInv
<1>2. undo'[s] = u /\ \A p \in Owner : p # s => undo'[p] = undo[p]
  BY DEF BaseInv
<1>3. ASSUME NEW v \in Table PROVE IndexMirrors(store'[v])
  BY <1>1 DEF Mirrored
<1>4. ASSUME NEW p \in Owner, NEW v \in Table PROVE Recovers(undo'[p], v, store'[v])
  <2>1. CASE p = s /\ v = t
    BY <1>1, <1>2, <2>1
  <2>2. CASE p = s /\ v # t
    BY <1>1, <1>2, <2>2
  <2>3. CASE p # s /\ v = t
    <3>1. \A n \in DOMAIN undo[p] : undo[p][n].table # t
      BY <2>3, Alone
    <3> QED BY <1>2, <2>3, <3>1, NothingToRecover
  <2>4. CASE p # s /\ v # t
    BY <1>1, <1>2, <2>4 DEF Recoverable
  <2> QED BY <2>1, <2>2, <2>3, <2>4
<1> QED BY <1>3, <1>4 DEF Mirrored, Recoverable

(* The index metadata of a statement agrees with the table once the handles open. *)
LEMMA IndexIsKnown ==
    ASSUME TxInv, NEW s \in Owner, pc[s] = "ready", Planned(s),
           HandlesOpen(store[TheTable(s)], WithIndex(s)), BaseInv
    PROVE  WithIndex(s) = store[TheTable(s)].indexed
<1>1. TheTable(s) \in Table /\ TheTable(s) \in stmt[s].tables /\ WithIndex(s) \in BOOLEAN
  BY WorkingTable
<1>2. store[TheTable(s)].indexed \in BOOLEAN
  BY <1>1 DEF BaseInv, TableType
<1>3. ~WithIndex(s) => ~store[TheTable(s)].indexed
  BY <1>1 DEF Planned, WithIndex
<1>4. WithIndex(s) => store[TheTable(s)].indexed
  BY DEF HandlesOpen
<1> QED BY <1>1, <1>2, <1>3, <1>4

(* What a step that inserts row r does. *)
Inserted(s, t, r) ==
    LET T == store[t]
    IN  \/ UNCHANGED <<store, undo>>
        \/ \E f \in Slot :
             /\ T.exists /\ T.slots[f] = NoRow /\ ~HasKey(T, r.key)
             /\ store' = [store EXCEPT ![t] = Put(T, f, r, T.indexed)]
             /\ undo' = [undo EXCEPT
                           ![s] = IF tx[s] = "none" THEN @
                                  ELSE Append(@, UndoEntry("insert", t, <<[slot |-> f, row |-> r]>>, T.indexed))]

LEMMA InsertStep ==
    ASSUME TxInv, BaseInv, NEW s \in Owner, pc[s] = "ready", Planned(s), NEW r \in Row,
           LET res == InsertWithIndexes(store[TheTable(s)], r, WithIndex(s))
           IN  /\ store' = [store EXCEPT ![TheTable(s)] = res.table]
               /\ IF res.ok
                  THEN Logged(s, UndoEntry("insert", TheTable(s), res.candidates, WithIndex(s)))
                  ELSE UNCHANGED undo
    PROVE  Inserted(s, TheTable(s), r)
<1> DEFINE t == TheTable(s)
           w == WithIndex(s)
           T == store[t]
           res == InsertWithIndexes(T, r, w)
<1>1. t \in Table /\ w \in BOOLEAN
  BY WorkingTable
<1>2. SoundTable(T)
  BY <1>1 DEF BaseInv
<1>3. store' = [store EXCEPT ![t] = res.table]
  OBVIOUS
<1>4. IF res.ok THEN Logged(s, UndoEntry("insert", t, res.candidates, w)) ELSE UNCHANGED undo
  OBVIOUS
<1>w. HandlesOpen(T, w) => w = T.indexed
  BY IndexIsKnown
<1>t. T = store[t] /\ store \in [Table -> TableType]
  BY DEF BaseInv
<1> HIDE DEF t, w, T
<1>5. CASE res = Raise(T)
  <2>1. store' = store
    BY <1>1, <1>t, <1>3, <1>5 DEF Raise
  <2>2. undo' = undo
    BY <1>4, <1>5 DEF Raise
  <2> QED BY <2>1, <2>2 DEF Inserted, t
<1>6. ASSUME NEW f \in Slot,
             T.slots[f] = NoRow, ~HasKey(T, r.key), T.exists, w => T.indexed,
             res = Done(Put(T, f, r, w), <<[slot |-> f, row |-> r]>>)
      PROVE  Inserted(s, t, r)
  <2>1. w = T.indexed
    BY <1>w, <1>6 DEF HandlesOpen
  <2>2. /\ res.ok /\ res.table = Put(T, f, r, T.indexed)
        /\ res.candidates = <<[slot |-> f, row |-> r]>>
    BY <1>6, <2>1 DEF Done
  <2>3. Logged(s, UndoEntry("insert", t, <<[slot |-> f, row |-> r]>>, T.indexed))
    <3> HIDE DEF res
    <3> QED BY <1>4, <2>1, <2>2
  <2>4. store' = [store EXCEPT ![t] = Put(T, f, r, T.indexed)]
    <3> HIDE DEF res
    <3> QED BY <1>3, <2>2
  <2> QED BY <1>6, <2>3, <2>4 DEF Inserted, T, Logged
<1> QED
  <2>1. \/ res = Raise(T)
        \/ \E f \in Slot : /\ T.slots[f] = NoRow /\ ~HasKey(T, r.key) /\ T.exists /\ (w => T.indexed)
                           /\ res = Done(Put(T, f, r, w), <<[slot |-> f, row |-> r]>>)
    BY <1>1, <1>2, InsertOutcome
  <2> HIDE DEF res
  <2> QED BY <1>5, <1>6, <2>1 DEF t

LEMMA InsertedKeeps ==
    ASSUME TxInv, BaseInv, Mirrored, Recoverable, NEW s \in Owner, NEW t \in Table, NEW r \in Row,
           held[s][t] = "EXCLUSIVE", Inserted(s, t, r)
    PROVE  Mirrored' /\ Recoverable'
<1> DEFINE T == store[t]
<1>1. CASE UNCHANGED <<store, undo>>
  BY <1>1 DEF Mirrored, Recoverable
<1>2. ASSUME NEW f \in Slot,
             T.exists, T.slots[f] = NoRow, ~HasKey(T, r.key),
             store' = [store EXCEPT ![t] = Put(T, f, r, T.indexed)],
             undo' = [undo EXCEPT
                        ![s] = IF tx[s] = "none" THEN @
                               ELSE Append(@, UndoEntry("insert", t, <<[slot |-> f, row |-> r]>>, T.indexed))]
      PROVE  Mirrored' /\ Recoverable'
  <2> DEFINE U == Put(T, f, r, T.indexed)
             e == UndoEntry("insert", t, <<[slot |-> f, row |-> r]>>, T.indexed)
             u == IF tx[s] = "none" THEN undo[s] ELSE Append(undo[s], e)
  <2>1. SoundTable(T) /\ T.indexed \in BOOLEAN /\ IndexMirrors(T) /\ Recovers(undo[s], t, T)
        /\ undo[s] \in Seq(LogEntry)
    BY DEF BaseInv, SoundTable, TableType, Mirrored, Recoverable
  <2>2. SoundTable(U) /\ IndexMirrors(U)
    <3> DEFINE w == T.indexed
    <3>1. w \in BOOLEAN /\ w = T.indexed
      BY <2>1
    <3> HIDE DEF w, T
    <3>2. SoundTable(Put(T, f, r, w)) /\ IndexMirrors(Put(T, f, r, w))
      BY <1>2, <2>1, <3>1, PutKeeps
    <3> QED BY <3>1, <3>2
  <2>3. e \in LogEntry /\ Recovers(Append(undo[s], e), t, U)
    <3> HIDE DEF T
    <3> QED BY <1>2, <2>1, InsertIsRecoverable
  <2>4. Recovers(u, t, U)
    <3>1. CASE tx[s] = "none"
      <4>1. undo[s] = <<>>
        BY <3>1 DEF TxInv, Session, LogIsLocked
      <4> HIDE DEF U
      <4> QED BY <3>1, <4>1, NothingToRecover
    <3>2. CASE tx[s] # "none"
      BY <2>3, <3>2
    <3> QED BY <3>1, <3>2
  <2>5. ASSUME NEW v \in Table, v # t PROVE Recovers(u, v, store[v])
    <3>1. Recovers(undo[s], v, store[v])
      BY DEF Recoverable
    <3>2. e.table = t
      BY DEF UndoEntry
    <3> HIDE DEF e
    <3>3. Recovers(Append(undo[s], e), v, store[v])
      BY <2>1, <2>3, <2>5, <3>1, <3>2, OtherTableRecovers
    <3> QED BY <3>1, <3>3
  <2>6. store' = [store EXCEPT ![t] = U] /\ undo' = [undo EXCEPT ![s] = u]
    BY <1>2
  <2> HIDE DEF U, e, u, T
  <2> QED BY <2>2, <2>4, <2>5, <2>6, OneTableChanges
<1> QED BY <1>1, <1>2 DEF Inserted

(* What a step of DELETE does. *)
Deleted(s, t) ==
    LET T == store[t]
    IN  \/ UNCHANGED <<store, undo>>
        \/ \E cs \in Seq(Candidate) : \E gone :
             /\ T.exists /\ InPlace(T, cs)
             /\ \A i, j \in DOMAIN cs : cs[i].slot = cs[j].slot => i = j
             /\ \A i \in DOMAIN cs : \A m \in InsertsIn(undo[s], t) : SlotOf(undo[s][m]) # cs[i].slot
             /\ IndexMirrors(Take(T, KeysOf(cs), gone))
             /\ store' = [store EXCEPT ![t] = Take(T, KeysOf(cs), gone)]
             /\ undo' = [undo EXCEPT
                           ![s] = IF tx[s] = "none" \/ cs = <<>> THEN @
                                  ELSE Append(@, UndoEntry("delete", t, cs, T.indexed))]

LEMMA DeleteStep ==
    ASSUME TxInv, BaseInv, Mirrored, Recoverable, NEW s \in Owner, Planned(s), ExecuteDeleteWhere(s)
    PROVE  Deleted(s, TheTable(s))
<1> DEFINE t == TheTable(s)
           w == WithIndex(s)
           a == stmt[s].arg
           T == store[t]
           res == ExecuteDelete(T, a, w)
<1>1. pc[s] = "ready" /\ stmt[s].kind = "delete"
  BY DEF ExecuteDeleteWhere
<1>2. t \in Table /\ t \in stmt[s].tables /\ w \in BOOLEAN /\ a \in Where
  BY <1>1, WorkingTable DEF BaseInv, ArgumentFits
<1>3. SoundTable(T) /\ IndexMirrors(T) /\ Recovers(undo[s], t, T) /\ undo[s] \in Seq(LogEntry)
  BY <1>2 DEF BaseInv, Mirrored, Recoverable
<1>4. store' = [store EXCEPT ![t] = res.table]
  BY DEF ExecuteDeleteWhere
<1>5. res.ok => IF res.candidates = <<>> THEN UNCHANGED undo
                ELSE Logged(s, UndoEntry("delete", t, res.candidates, w))
  BY DEF ExecuteDeleteWhere
<1>6. ~res.ok => UNCHANGED undo
  BY DEF ExecuteDeleteWhere
<1>w. HandlesOpen(T, w) => w = T.indexed
  BY <1>1, IndexIsKnown
<1>7. \A r \in OwnInserts(s, stmt[s].tables) : ~Satisfies(r, a)
  BY <1>1 DEF Planned
<1>t. T = store[t] /\ store \in [Table -> TableType] /\ undo \in [Owner -> Seq(LogEntry)]
  BY DEF BaseInv
<1> HIDE DEF t, w, a, T
<1>8. CASE res = Raise(T)
  <2>1. store' = store
    BY <1>2, <1>t, <1>4, <1>8 DEF Raise
  <2>2. undo' = undo
    BY <1>6, <1>8 DEF Raise
  <2> QED BY <2>1, <2>2 DEF Deleted, t
<1>9. ASSUME NEW cs \in Seq(Candidate),
             res = DeleteWithIndexes(T, cs, w), HandlesOpen(T, w), InPlace(T, cs),
             \A i, j \in DOMAIN cs : cs[i].slot = cs[j].slot => i = j,
             \A i \in DOMAIN cs : cs[i].slot \in CandidateSlots(T, a, w) \cap UsedSlots(T)
      PROVE  Deleted(s, t)
  <2>1. w = T.indexed
    BY <1>w, <1>9
  <2>2. PICK gone : /\ res = Done(Take(T, KeysOf(cs), gone), cs)
                    /\ IndexMirrors(Take(T, KeysOf(cs), gone))
    BY <1>2, <1>3, <1>9, <2>1, DeleteInPlace
  <2>3. ASSUME NEW i \in DOMAIN cs, NEW m \in InsertsIn(undo[s], t),
               SlotOf(undo[s][m]) = cs[i].slot
        PROVE  FALSE
    <3> DEFINE r == T.slots[cs[i].slot]
    <3>1. Satisfies(r, a)
      BY <1>2, <1>3, <1>9, CandidatesSatisfy
    <3>2. /\ m \in DOMAIN undo[s] /\ undo[s][m].table = t /\ undo[s][m].kind = "insert"
          /\ DOMAIN undo[s][m].candidates = {1}
          /\ undo[s][m].candidates[1].row = r
      BY <1>3, <2>3 DEF InsertsIn, Recovers, InsertedAreThere
    <3>3. r \in OwnInserts(s, stmt[s].tables)
      <4> HIDE DEF r
      <4> QED BY <1>2, <3>2 DEF OwnInserts
    <3> QED BY <1>7, <3>1, <3>3
  <2>4. res.ok /\ res.table = Take(T, KeysOf(cs), gone) /\ res.candidates = cs
    BY <2>2 DEF Done
  <2>5. T.exists
    BY <1>9 DEF HandlesOpen
  <2> HIDE DEF res
  <2>6. undo' = [undo EXCEPT
                   ![s] = IF tx[s] = "none" \/ cs = <<>> THEN @
                          ELSE Append(@, UndoEntry("delete", t, cs, T.indexed))]
    <3>1. CASE cs = <<>>
      BY <1>t, <1>5, <2>4, <3>1
    <3>2. CASE cs # <<>>
      <4>1. Logged(s, UndoEntry("delete", t, cs, T.indexed))
        BY <1>5, <2>1, <2>4, <3>2
      <4> QED BY <3>2, <4>1 DEF Logged
    <3> QED BY <3>1, <3>2
  <2> DEFINE V == Take(T, KeysOf(cs), gone)
  <2>7. store' = [store EXCEPT ![t] = V] /\ IndexMirrors(V)
    BY <1>4, <2>2, <2>4
  <2>8. \A i \in DOMAIN cs : \A m \in InsertsIn(undo[s], t) : SlotOf(undo[s][m]) # cs[i].slot
    BY <2>3
  <2> QED BY <1>9, <2>5, <2>6, <2>7, <2>8 DEF Deleted, T
<1> HIDE DEF res
<1>10. \/ res = Raise(T)
       \/ \E cs \in Seq(Candidate) :
            /\ res = DeleteWithIndexes(T, cs, w)
            /\ HandlesOpen(T, w)
            /\ InPlace(T, cs)
            /\ \A i, j \in DOMAIN cs : cs[i].slot = cs[j].slot => i = j
            /\ \A i \in DOMAIN cs : cs[i].slot \in CandidateSlots(T, a, w) \cap UsedSlots(T)
  BY <1>2, <1>3, CandidatesAreRead DEF res
<1> QED BY <1>8, <1>9, <1>10 DEF t

(* A table with the same rows in the same slots. *)
LEMMA SameSlotsRecover ==
    ASSUME NEW u \in Seq(LogEntry), NEW t, NEW T, NEW U, Recovers(u, t, T),
           U.exists = T.exists, U.indexed = T.indexed,
           UsedSlots(U) = UsedSlots(T), \A i \in UsedSlots(T) : U.slots[i] = T.slots[i]
    PROVE  Recovers(u, t, U)
<1>1. \A n \in DOMAIN u : u[n] \in LogEntry
  BY AppendIs, LenProperties, ElementOfSeq
<1>2. LogKnowsTheIndex(u, t, U)
  BY DEF Recovers, LogKnowsTheIndex
<1>3. InsertedAreThere(u, t, U)
  <2> SUFFICES ASSUME NEW n \in InsertsIn(u, t)
               PROVE  U.slots[SlotOf(u[n])] = u[n].candidates[1].row
    BY DEF Recovers, InsertedAreThere
  <2>1. u[n].candidates \in Seq(Candidate) /\ DOMAIN u[n].candidates = {1}
        /\ T.slots[SlotOf(u[n])] = u[n].candidates[1].row
    BY <1>1 DEF InsertsIn, LogEntry, Recovers, InsertedAreThere
  <2>2. SlotOf(u[n]) \in Slot /\ u[n].candidates[1].row \in Row
    BY <2>1, CandidatesTyped DEF SlotOf
  <2>3. SlotOf(u[n]) \in UsedSlots(T)
    BY <2>1, <2>2, NoRowIsNoRow DEF UsedSlots
  <2> QED BY <2>1, <2>3
<1>4. DeletedAreGone(u, t, U)
  BY DEF Recovers, DeletedAreGone
<1> QED BY <1>2, <1>3, <1>4 DEF Recovers

LEMMA DeletedKeeps ==
    ASSUME TxInv, BaseInv, Mirrored, Recoverable, NEW s \in Owner, NEW t \in Table,
           held[s][t] = "EXCLUSIVE", Deleted(s, t)
    PROVE  Mirrored' /\ Recoverable'
<1> DEFINE T == store[t]
<1>1. CASE UNCHANGED <<store, undo>>
  BY <1>1 DEF Mirrored, Recoverable
<1>2. ASSUME NEW cs \in Seq(Candidate), NEW gone,
             T.exists, InPlace(T, cs),
             \A i, j \in DOMAIN cs : cs[i].slot = cs[j].slot => i = j,
             \A i \in DOMAIN cs : \A m \in InsertsIn(undo[s], t) : SlotOf(undo[s][m]) # cs[i].slot,
             IndexMirrors(Take(T, KeysOf(cs), gone)),
             store' = [store EXCEPT ![t] = Take(T, KeysOf(cs), gone)],
             undo' = [undo EXCEPT
                        ![s] = IF tx[s] = "none" \/ cs = <<>> THEN @
                               ELSE Append(@, UndoEntry("delete", t, cs, T.indexed))]
      PROVE  Mirrored' /\ Recoverable'
  <2> DEFINE ks == KeysOf(cs)
             U == Take(T, ks, gone)
             e == UndoEntry("delete", t, cs, T.indexed)
             u == IF tx[s] = "none" \/ cs = <<>> THEN undo[s] ELSE Append(undo[s], e)
  <2>1. SoundTable(T) /\ Recovers(undo[s], t, T) /\ undo[s] \in Seq(LogEntry)
    BY DEF BaseInv, Recoverable
  <2> HIDE DEF T
  <2>2. SoundTable(U)
    BY <1>2, <2>1, TakeKeeps
  <2>3. e \in LogEntry /\ Recovers(Append(undo[s], e), t, U)
    BY <1>2, <2>1, DeleteIsRecoverable
  <2>4. Recovers(u, t, U)
    <3>1. CASE tx[s] = "none"
      <4>1. undo[s] = <<>>
        BY <3>1 DEF TxInv, Session, LogIsLocked
      <4> HIDE DEF U
      <4> QED BY <3>1, <4>1, NothingToRecover
    <3>2. CASE cs = <<>>
      <4>1. ks = {}
        BY <3>2 DEF KeysOf
      <4> HIDE DEF ks
      <4>2. U.exists = T.exists
        BY <1>2, <2>1, TakeKeeps
      <4>3. U.indexed = T.indexed
        BY <1>2, <2>1, TakeKeeps
      <4>4. UsedSlots(U) = {i \in UsedSlots(T) : T.slots[i].key \notin ks}
        BY <1>2, <2>1, TakeKeeps
      <4>5. \A i \in UsedSlots(U) : U.slots[i] = T.slots[i]
        BY <1>2, <2>1, TakeKeeps
      <4> HIDE DEF U
      <4>6. Recovers(undo[s], t, U)
        BY <2>1, <4>1, <4>2, <4>3, <4>4, <4>5, SameSlotsRecover
      <4> QED BY <3>2, <4>6
    <3>3. CASE tx[s] # "none" /\ cs # <<>>
      BY <2>3, <3>3
    <3> QED BY <3>1, <3>2, <3>3
  <2>5. ASSUME NEW v \in Table, v # t PROVE Recovers(u, v, store[v])
    <3>1. Recovers(undo[s], v, store[v])
      BY DEF Recoverable
    <3>2. e.table = t
      BY DEF UndoEntry
    <3> HIDE DEF e
    <3>3. Recovers(Append(undo[s], e), v, store[v])
      BY <2>1, <2>3, <2>5, <3>1, <3>2, OtherTableRecovers
    <3> QED BY <3>1, <3>3
  <2>6. store' = [store EXCEPT ![t] = U] /\ undo' = [undo EXCEPT ![s] = u] /\ IndexMirrors(U)
    BY <1>2
  <2> HIDE DEF U, e, u
  <2> QED BY <2>2, <2>4, <2>5, <2>6, OneTableChanges
<1> QED BY <1>1, <1>2 DEF Deleted

LEMMA FrontAndLast ==
    ASSUME NEW q \in Seq(LogEntry), q # <<>>
    PROVE  Front(q) \in Seq(LogEntry) /\ Last(q) \in LogEntry /\ q = Append(Front(q), Last(q))
<1>1. Len(q) \in Nat /\ Len(q) # 0 /\ Len(q) \in 1 .. Len(q)
  BY DEF Last
<1>2. /\ Front(q) \in Seq(LogEntry) /\ Len(Front(q)) = Len(q) - 1
      /\ \A n \in 1 .. Len(q) - 1 : Front(q)[n] = q[n]
  <2> DEFINE k == Len(q) - 1
  <2>1. k \in Nat /\ 1 \in 1 .. Len(q) + 1 /\ k \in 0 .. Len(q)
    BY <1>1
  <2>2. Front(q) = SubSeq(q, 1, k)
    BY DEF Front
  <2> HIDE DEF k
  <2>3. SubSeq(q, 1, k) \in Seq(LogEntry) /\ Len(SubSeq(q, 1, k)) = k
        /\ \A n \in 1 .. k : SubSeq(q, 1, k)[n] = q[n]
    BY <2>1
  <2> QED BY <2>2, <2>3 DEF k
<1>3. Last(q) = q[Len(q)] /\ Last(q) \in LogEntry
  BY <1>1 DEF Last
<1> DEFINE p == Append(Front(q), Last(q))
<1>4. p \in Seq(LogEntry) /\ Len(p) = Len(q) /\ \A n \in 1 .. Len(q) : p[n] = q[n]
  <2>1. p \in Seq(LogEntry) /\ Len(p) = (Len(q) - 1) + 1
    BY <1>2, <1>3, AppendProperties
  <2>2. ASSUME NEW n \in 1 .. Len(q) PROVE p[n] = q[n]
    <3>1. CASE n = Len(q)
      BY <1>1, <1>2, <1>3, <3>1, AppendProperties
    <3>2. CASE n # Len(q)
      <4>1. n \in 1 .. Len(q) - 1 /\ n \in 1 .. Len(Front(q))
        BY <1>1, <1>2, <3>2
      <4> QED BY <1>2, <1>3, <4>1, AppendProperties
    <3> QED BY <3>1, <3>2
  <2> QED BY <1>1, <2>1, <2>2
<1> HIDE DEF p
<1>5. p = q
  BY <1>4, SeqEqual
<1> QED BY <1>2, <1>3, <1>5 DEF p

(* What a step of Transaction.rollback does: the last entry goes, and what was there
   before the transaction stays the same. *)
UndoneAs(s, u, e, U) ==
    /\ undo[s] = Append(u, e) /\ undo' = [undo EXCEPT ![s] = u]
    /\ store' = [store EXCEPT ![e.table] = U]
    /\ store[e.table].exists /\ U.exists /\ U.indexed = store[e.table].indexed
    /\ SoundTable(U) /\ IndexMirrors(U) /\ Recovers(u, e.table, U)
    /\ \A r : Before(undo[s], e.table, store[e.table], r) <=> Before(u, e.table, U, r)

LEMMA UndoEffect ==
    ASSUME BaseInv, Mirrored, Recoverable, NEW s \in Owner, UndoStep(s)
    PROVE  \E u \in Seq(LogEntry), e \in LogEntry : \E U : UndoneAs(s, u, e, U)
<1> DEFINE u == Front(undo[s])
           e == Last(undo[s])
           T == store[e.table]
           U == Undone(e)
<1>1. u \in Seq(LogEntry) /\ e \in LogEntry /\ undo[s] = Append(u, e)
  BY FrontAndLast DEF UndoStep, BaseInv
<1>2. undo' = [undo EXCEPT ![s] = u] /\ store' = [store EXCEPT ![e.table] = U]
  BY DEF UndoStep
<1> HIDE DEF u, e
<1>3. e.table \in Table /\ (e.kind = "insert" \/ e.kind = "delete") /\ e.candidates \in Seq(Candidate)
  BY <1>1 DEF LogEntry
<1>4. SoundTable(T) /\ IndexMirrors(T) /\ Recovers(Append(u, e), e.table, T)
  BY <1>1, <1>3 DEF BaseInv, Mirrored, Recoverable
<1>5. CASE e.kind = "insert"
  <2>1. U = DeleteWithIndexes(T, e.candidates, e.indexed).table
    BY <1>5 DEF Undone
  <2> HIDE DEF T
  <2>2. PICK gone, c :
          /\ c \in Candidate /\ T.exists /\ e.candidates = <<c>> /\ T.slots[c.slot] = c.row
          /\ DeleteWithIndexes(T, e.candidates, e.indexed).table = Take(T, {c.row.key}, gone)
          /\ IndexMirrors(Take(T, {c.row.key}, gone))
          /\ Recovers(u, e.table, Take(T, {c.row.key}, gone))
    BY <1>1, <1>4, <1>5, UndoOfInsert
  <2> DEFINE ks == {c.row.key}
             V == Take(T, ks, gone)
  <2>3. U = V
    BY <2>1, <2>2
  <2>4. IndexMirrors(V) /\ Recovers(u, e.table, V)
    BY <2>2
  <2> HIDE DEF ks, U
  <2>5. SoundTable(V)
    BY <1>4, <2>2, TakeKeeps
  <2>6. V.exists = T.exists
    BY <1>4, <2>2, TakeKeeps
  <2>7. V.indexed = T.indexed
    BY <1>4, <2>2, TakeKeeps
  <2>8. RowsOf(V) = {r \in RowsOf(T) : r.key \notin ks}
    BY <1>4, <2>2, TakeKeeps
  <2> HIDE DEF V
  <2>9. c.row \in RowsOf(T) /\ c.row \notin RowsOf(V) /\ RowsOf(T) = RowsOf(V) \cup {c.row}
    <3>1. InPlace(T, e.candidates) /\ KeysOf(e.candidates) = ks /\ CandidateRows(e.candidates) = {c.row}
      <4>1. DOMAIN <<c>> = {1} /\ <<c>>[1] = c
        OBVIOUS
      <4> QED BY <2>2, <4>1 DEF InPlace, KeysOf, CandidateRows, ks
    <3>2. /\ CandidateRows(e.candidates) \subseteq RowsOf(T)
          /\ {r \in RowsOf(T) : r.key \notin KeysOf(e.candidates)} = RowsOf(T) \ CandidateRows(e.candidates)
      BY <1>3, <1>4, <3>1, TakenRows
    <3> QED BY <2>8, <3>1, <3>2
  <2>10. CandidateRows(e.candidates) = {c.row}
    <3>1. DOMAIN <<c>> = {1} /\ <<c>>[1] = c
      OBVIOUS
    <3> QED BY <2>2, <3>1 DEF CandidateRows
  <2>11. \A r : Before(Append(u, e), e.table, T, r) <=> Before(u, e.table, V, r)
    BY <1>1, <1>5, <2>9, <2>10, InsertKeepsBefore
  <2>12. UndoneAs(s, u, e, U)
    BY <1>1, <1>2, <2>2, <2>3, <2>4, <2>5, <2>6, <2>7, <2>11 DEF UndoneAs, T
  <2> QED BY <1>1, <2>12
<1>6. CASE e.kind = "delete"
  <2>1. U = ReinsertAll(T, e.candidates, e.indexed).table
    BY <1>6 DEF Undone
  <2> HIDE DEF T
  <2> DEFINE V == ReinsertAll(T, e.candidates, e.indexed).table
  <2>2. /\ T.exists /\ V.exists /\ V.indexed = T.indexed
        /\ RowsOf(V) = RowsOf(T) \cup CandidateRows(e.candidates)
        /\ RowsOf(T) \cap CandidateRows(e.candidates) = {}
        /\ SoundTable(V) /\ IndexMirrors(V)
        /\ Recovers(u, e.table, V)
    BY <1>1, <1>4, <1>6, UndoOfDelete
  <2> HIDE DEF U, V
  <2>3. U = V
    BY <2>1 DEF V
  <2>4. /\ CandidateRows(e.candidates) \subseteq RowsOf(V)
        /\ RowsOf(T) = RowsOf(V) \ CandidateRows(e.candidates)
    BY <2>2
  <2>5. \A r : Before(Append(u, e), e.table, T, r) <=> Before(u, e.table, V, r)
    BY <1>1, <1>6, <2>4, DeleteKeepsBefore
  <2>6. UndoneAs(s, u, e, U)
    BY <1>1, <1>2, <2>2, <2>3, <2>5 DEF UndoneAs, T
  <2> QED BY <1>1, <2>6
<1> QED BY <1>3, <1>5, <1>6

LEMMA UndoIsExclusive ==
    ASSUME TxInv, NEW s \in Owner, NEW u \in Seq(LogEntry), NEW e \in LogEntry, undo[s] = Append(u, e)
    PROVE  e.table \in Table /\ held[s][e.table] = "EXCLUSIVE"
<1>1. PICK n \in DOMAIN undo[s] : undo[s][n] = e
  BY AppendIs
<1> QED BY <1>1 DEF TxInv, Session, LogIsLocked

LEMMA UndoneKeeps ==
    ASSUME TxInv, BaseInv, Mirrored, Recoverable, NEW s \in Owner,
           NEW u \in Seq(LogEntry), NEW e \in LogEntry, NEW U, UndoneAs(s, u, e, U)
    PROVE  Mirrored' /\ Recoverable'
<1>1. e.table \in Table /\ held[s][e.table] = "EXCLUSIVE"
  BY UndoIsExclusive DEF UndoneAs
<1>2. ASSUME NEW v \in Table, v # e.table PROVE Recovers(u, v, store[v])
  <2>1. Recovers(Append(u, e), v, store[v])
    BY DEF Recoverable, UndoneAs
  <2> QED BY <1>2, <2>1, OtherTableRecovers
<1> QED BY <1>1, <1>2, OneTableChanges DEF UndoneAs

(* DROP TABLE, and no CREATE INDEX. *)
LEMMA DdlEffect ==
    ASSUME TxInv, BaseInv, NEW s \in Owner, Planned(s), ExecuteDdl(s), "create_index" \notin Statements
    PROVE  LET t == TheTable(s)
           IN  /\ t \in Table /\ held[s][t] = "EXCLUSIVE" /\ tx[s] = "none" /\ undo[s] = <<>>
               /\ store' = [store EXCEPT ![t] = IF store[t].exists THEN EmptyTable(FALSE) ELSE store[t]]
               /\ UNCHANGED undo
<1>1. pc[s] = "ready" /\ stmt[s].kind \in Ddl /\ stmt[s].kind # "select"
  BY DEF ExecuteDdl, Ddl
<1>2. stmt[s] \in Statement /\ TheTable(s) \in Table
  BY <1>1, WorkingTable
<1>3. stmt[s].kind # "create_index"
  BY <1>2 DEF Statement
<1>4. held[s][TheTable(s)] = "EXCLUSIVE"
  BY <1>1, WorksExclusively
<1>5. tx[s] = "none"
  BY <1>1 DEF Planned
<1>6. undo[s] = <<>>
  BY <1>5 DEF TxInv, Session, LogIsLocked
<1>7. store' = [store EXCEPT ![TheTable(s)] = DropTable(store[TheTable(s)]).table] /\ UNCHANGED undo
  BY <1>3 DEF ExecuteDdl
<1>8. DropTable(store[TheTable(s)]).table =
        IF store[TheTable(s)].exists THEN EmptyTable(FALSE) ELSE store[TheTable(s)]
  BY DEF DropTable, Done, Raise
<1> QED BY <1>2, <1>4, <1>5, <1>6, <1>7, <1>8

(* A step writes at most one table and one log. *)
LEMMA ContentsStep ==
    ASSUME "create_index" \notin Statements, TxInv, BaseInv, StoreInv, [Next]_vars
    PROVE  Mirrored' /\ Recoverable'
<1> USE DEF StoreInv
<1>1. CASE UNCHANGED <<store, undo>>
  BY <1>1 DEF Mirrored, Recoverable
<1>2. ASSUME NEW s \in Owner, End(s) \/ LoadEnds(s) PROVE Mirrored' /\ Recoverable'
  <2>1. undo' = [undo EXCEPT ![s] = <<>>] /\ store' = store
    BY <1>2 DEF End, LoadEnds
  <2>2. undo'[s] = <<>> /\ \A p \in Owner : p # s => undo'[p] = undo[p]
    BY <2>1 DEF BaseInv
  <2>3. \A t \in Table : Recovers(<<>>, t, store[t])
    BY NothingToRecover
  <2>4. ASSUME NEW p \in Owner, NEW t \in Table PROVE Recovers(undo'[p], t, store'[t])
    BY <2>1, <2>2, <2>3 DEF Recoverable
  <2>5. Mirrored'
    BY <2>1 DEF Mirrored
  <2> QED BY <2>4, <2>5 DEF Recoverable
<1>3. ASSUME NEW s \in Owner, NEW t \in Table, CreateTableNow(s, t) PROVE Mirrored' /\ Recoverable'
  <2>1. store' = [store EXCEPT ![t] = CreateTable(store[t]).table] /\ UNCHANGED undo
    BY <1>3 DEF CreateTableNow
  <2>2. CASE store[t].exists
    <3>1. store' = store
      BY <2>1, <2>2, DdlKeeps DEF BaseInv
    <3> QED BY <1>1, <2>1, <3>1
  <2>3. CASE ~store[t].exists
    <3>1. store'[t] = EmptyTable(TRUE) /\ \A v \in Table : v # t => store'[v] = store[v]
      BY <2>1, <2>3, DdlKeeps DEF BaseInv
    <3>2. IndexMirrors(EmptyTable(TRUE))
      BY EmptyTableIs DEF IndexMirrors
    <3>3. Mirrored'
      BY <3>1, <3>2 DEF Mirrored
    <3>4. ASSUME NEW p \in Owner, NEW v \in Table PROVE Recovers(undo'[p], v, store'[v])
      <4>1. CASE v = t
        <5>1. \A n \in DOMAIN undo[p] : undo[p][n].table # t
          BY <2>3 DEF Recoverable, Recovers, LogKnowsTheIndex
        <5> QED BY <2>1, <4>1, <5>1, NothingToRecover
      <4>2. CASE v # t
        BY <2>1, <3>1, <4>2 DEF Recoverable
      <4> QED BY <4>1, <4>2
    <3> QED BY <3>3, <3>4 DEF Recoverable
  <2> QED BY <2>2, <2>3
<1>4. ASSUME NEW s \in Owner, ExecuteInsert(s) PROVE Mirrored' /\ Recoverable'
  <2>1. pc[s] = "ready" /\ stmt[s].kind = "insert" /\ stmt[s].kind # "select"
    BY <1>4 DEF ExecuteInsert
  <2>2. stmt[s].arg \in Row /\ TheTable(s) \in Table /\ held[s][TheTable(s)] = "EXCLUSIVE"
    BY <2>1, WorkingTable, WorksExclusively DEF BaseInv, ArgumentFits
  <2>3. Inserted(s, TheTable(s), stmt[s].arg)
    BY <1>4, <2>1, <2>2, InsertStep DEF ExecuteInsert
  <2> QED BY <2>2, <2>3, InsertedKeeps
<1>5. ASSUME NEW s \in Owner, NEW r \in Row, LoadRow(s, r) PROVE Mirrored' /\ Recoverable'
  <2>1. pc[s] = "ready" /\ stmt[s].kind # "select"
    BY <1>5 DEF LoadRow, Loads
  <2>2. TheTable(s) \in Table /\ held[s][TheTable(s)] = "EXCLUSIVE"
    BY <2>1, WorkingTable, WorksExclusively
  <2>3. Inserted(s, TheTable(s), r)
    BY <1>5, <2>1, <2>2, InsertStep DEF LoadRow
  <2> QED BY <2>2, <2>3, InsertedKeeps
<1>6. ASSUME NEW s \in Owner, ExecuteDeleteWhere(s) PROVE Mirrored' /\ Recoverable'
  <2>1. pc[s] = "ready" /\ stmt[s].kind # "select"
    BY <1>6 DEF ExecuteDeleteWhere
  <2>2. TheTable(s) \in Table /\ held[s][TheTable(s)] = "EXCLUSIVE"
    BY <2>1, WorkingTable, WorksExclusively
  <2>3. Deleted(s, TheTable(s))
    BY <1>6, DeleteStep
  <2> QED BY <2>2, <2>3, DeletedKeeps
<1>7. ASSUME NEW s \in Owner, ExecuteDdl(s) PROVE Mirrored' /\ Recoverable'
  <2> DEFINE t == TheTable(s)
             U == IF store[t].exists THEN EmptyTable(FALSE) ELSE store[t]
  <2>1. /\ t \in Table /\ held[s][t] = "EXCLUSIVE" /\ undo[s] = <<>>
        /\ store' = [store EXCEPT ![t] = U] /\ UNCHANGED undo
    BY <1>7, DdlEffect
  <2> HIDE DEF t
  <2>2. SoundTable(U) /\ IndexMirrors(U)
    <3>1. SoundTable(store[t]) /\ IndexMirrors(store[t])
      BY <2>1 DEF BaseInv, Mirrored
    <3>2. SoundTable(EmptyTable(FALSE)) /\ IndexMirrors(EmptyTable(FALSE))
      BY EmptyTableIs DEF IndexMirrors
    <3> QED BY <3>1, <3>2
  <2>3. undo' = [undo EXCEPT ![s] = <<>>]
    BY <2>1 DEF BaseInv
  <2> HIDE DEF U
  <2>4. Recovers(<<>>, t, U) /\ \A v \in Table : v # t => Recovers(<<>>, v, store[v])
    BY NothingToRecover
  <2> QED BY <2>1, <2>2, <2>3, <2>4, OneTableChanges
<1>8. ASSUME NEW s \in Owner, UndoStep(s) PROVE Mirrored' /\ Recoverable'
  BY <1>8, UndoEffect, UndoneKeeps
<1>9. ASSUME NEW s \in Owner, ClientStep(s) PROVE Mirrored' /\ Recoverable'
  <2>1. ASSUME Begin(s) \/ Abandon(s) \/ \E kind \in Statements : \E ask \in Requests(kind) :
                  Prepare(s, kind, ask[1], ask[2])
        PROVE  UNCHANGED <<store, undo>>
    BY <2>1 DEF Begin, Abandon, Prepare
  <2> QED BY <1>1, <1>2, <1>3, <1>9, <2>1 DEF ClientStep
<1>10. ASSUME NEW s \in Owner,
              \/ SkipLock(s) \/ RequestLock(s) \/ LockGranted(s) \/ LockWaits(s)
              \/ LockTimedOut(s) \/ AllLocked(s) \/ ExecuteSelect(s) \/ UndoEnds(s)
              \/ (\E t \in Table : ReleaseLock(s, t)) \/ StatementEnds(s) \/ LockExpires(s)
       PROVE  Mirrored' /\ Recoverable'
  <2>1. UNCHANGED <<store, undo>>
    BY <1>10 DEF SkipLock, RequestLock, LockGranted, LockWaits, LockTimedOut, AllLocked,
                 ExecuteSelect, UndoEnds, ReleaseLock, StatementEnds, LockExpires, sessionVars
  <2> QED BY <1>1, <2>1
<1>11. CASE UNCHANGED vars
  BY <1>1, <1>11 DEF vars, sessionVars
<1> QED
  BY <1>2, <1>4, <1>5, <1>6, <1>7, <1>8, <1>9, <1>10, <1>11 DEF Next, ProcessorStep

NoIndexAppears == \A t \in Table : store'[t].indexed => store[t].indexed

(* Only CREATE INDEX registers an index. *)
LEMMA IndexesOnlyGo ==
    ASSUME "create_index" \notin Statements, TxInv, BaseInv, StoreInv, [Next]_vars
    PROVE  NoIndexAppears
<1> USE DEF StoreInv
<1>1. ASSUME UNCHANGED store PROVE NoIndexAppears
  BY <1>1 DEF NoIndexAppears
<1>2. ASSUME NEW t \in Table, NEW U, store' = [store EXCEPT ![t] = U], U.indexed => store[t].indexed
      PROVE  NoIndexAppears
  <2>1. store'[t] = U /\ \A v \in Table : v # t => store'[v] = store[v]
    BY <1>2 DEF BaseInv
  <2> QED BY <1>2, <2>1 DEF NoIndexAppears
<1>3. ASSUME NEW s \in Owner, NEW t \in Table, CreateTableNow(s, t) PROVE NoIndexAppears
  <2> DEFINE U == CreateTable(store[t]).table
  <2>1. store' = [store EXCEPT ![t] = U]
    BY <1>3 DEF CreateTableNow
  <2>2. U.indexed => store[t].indexed
    BY DdlKeeps, EmptyTableIs DEF BaseInv
  <2> HIDE DEF U
  <2> QED BY <1>2, <2>1, <2>2
<1>4. ASSUME NEW s \in Owner, NEW t \in Table, NEW r \in Row, Inserted(s, t, r) PROVE NoIndexAppears
  <2>1. ASSUME NEW f \in Slot, store' = [store EXCEPT ![t] = Put(store[t], f, r, store[t].indexed)]
        PROVE  NoIndexAppears
    <3> DEFINE U == Put(store[t], f, r, store[t].indexed)
    <3>1. U.indexed = store[t].indexed
      BY DEF Put, BaseInv, TableType
    <3>2. store' = [store EXCEPT ![t] = U]
      BY <2>1
    <3> HIDE DEF U
    <3> QED BY <1>2, <3>1, <3>2
  <2> QED BY <1>1, <1>4, <2>1 DEF Inserted
<1>5. ASSUME NEW s \in Owner, NEW t \in Table, Deleted(s, t) PROVE NoIndexAppears
  <2>1. ASSUME NEW ks, NEW gone, store' = [store EXCEPT ![t] = Take(store[t], ks, gone)]
        PROVE  NoIndexAppears
    <3> DEFINE U == Take(store[t], ks, gone)
    <3>1. U.indexed = store[t].indexed
      BY DEF Take, BaseInv, TableType
    <3>2. store' = [store EXCEPT ![t] = U]
      BY <2>1
    <3> HIDE DEF U
    <3> QED BY <1>2, <3>1, <3>2
  <2> QED BY <1>1, <1>5, <2>1 DEF Deleted
<1>6. ASSUME NEW s \in Owner, ExecuteInsert(s) PROVE NoIndexAppears
  <2>1. pc[s] = "ready" /\ stmt[s].kind = "insert"
    BY <1>6 DEF ExecuteInsert
  <2>2. stmt[s].arg \in Row /\ TheTable(s) \in Table
    BY <2>1, WorkingTable DEF BaseInv, ArgumentFits
  <2>3. Inserted(s, TheTable(s), stmt[s].arg)
    BY <1>6, <2>1, <2>2, InsertStep DEF ExecuteInsert
  <2> QED BY <1>4, <2>2, <2>3
<1>7. ASSUME NEW s \in Owner, NEW r \in Row, LoadRow(s, r) PROVE NoIndexAppears
  <2>1. pc[s] = "ready"
    BY <1>7 DEF LoadRow
  <2>2. TheTable(s) \in Table
    BY <2>1, WorkingTable
  <2>3. Inserted(s, TheTable(s), r)
    BY <1>7, <2>1, <2>2, InsertStep DEF LoadRow
  <2> QED BY <1>4, <2>2, <2>3
<1>8. ASSUME NEW s \in Owner, ExecuteDeleteWhere(s) PROVE NoIndexAppears
  <2>1. pc[s] = "ready"
    BY <1>8 DEF ExecuteDeleteWhere
  <2>2. TheTable(s) \in Table
    BY <2>1, WorkingTable
  <2> QED BY <1>5, <1>8, <2>2, DeleteStep
<1>9. ASSUME NEW s \in Owner, ExecuteDdl(s) PROVE NoIndexAppears
  <2> DEFINE t == TheTable(s)
             U == IF store[t].exists THEN EmptyTable(FALSE) ELSE store[t]
  <2>1. t \in Table /\ store' = [store EXCEPT ![t] = U]
    BY <1>9, DdlEffect
  <2>2. U.indexed => store[t].indexed
    BY EmptyTableIs
  <2> HIDE DEF t, U
  <2> QED BY <1>2, <2>1, <2>2
<1>10. ASSUME NEW s \in Owner, UndoStep(s) PROVE NoIndexAppears
  <2>0. PICK u \in Seq(LogEntry), e \in LogEntry : \E U : UndoneAs(s, u, e, U)
    BY <1>10, UndoEffect
  <2>1. PICK U : UndoneAs(s, u, e, U)
    BY <2>0
  <2>2. e.table \in Table
    BY DEF LogEntry
  <2>3. store' = [store EXCEPT ![e.table] = U] /\ U.indexed = store[e.table].indexed
    BY <2>1 DEF UndoneAs
  <2> QED BY <1>2, <2>2, <2>3
<1>11. ASSUME NEW s \in Owner, ClientStep(s) PROVE NoIndexAppears
  <2>1. ASSUME Begin(s) \/ End(s) \/ Abandon(s) \/ \E kind \in Statements : \E ask \in Requests(kind) :
                  Prepare(s, kind, ask[1], ask[2])
        PROVE  UNCHANGED store
    BY <2>1 DEF Begin, End, Abandon, Prepare
  <2> QED BY <1>1, <1>3, <1>11, <2>1 DEF ClientStep
<1>12. ASSUME NEW s \in Owner,
              \/ SkipLock(s) \/ RequestLock(s) \/ LockGranted(s) \/ LockWaits(s)
              \/ LockTimedOut(s) \/ AllLocked(s) \/ ExecuteSelect(s) \/ LoadEnds(s) \/ UndoEnds(s)
              \/ (\E t \in Table : ReleaseLock(s, t)) \/ StatementEnds(s) \/ LockExpires(s)
       PROVE  NoIndexAppears
  <2>1. UNCHANGED store
    BY <1>12 DEF SkipLock, RequestLock, LockGranted, LockWaits, LockTimedOut, AllLocked,
                 ExecuteSelect, LoadEnds, UndoEnds, ReleaseLock, StatementEnds, LockExpires, sessionVars
  <2> QED BY <1>1, <2>1
<1>13. CASE UNCHANGED vars
  BY <1>1, <1>13 DEF vars, sessionVars
<1> QED
  BY <1>6, <1>7, <1>8, <1>9, <1>10, <1>11, <1>12, <1>13 DEF Next, ProcessorStep

(* The same statement, with the same log if it deletes. *)
LEMMA PlannedKept ==
    ASSUME NEW s \in Owner, Planned(s), NoIndexAppears, stmt[s].tables \subseteq Table,
           pc'[s] \in {"locking", "ready"} => pc[s] \in {"locking", "ready"},
           stmt'[s].kind = stmt[s].kind, stmt'[s].arg = stmt[s].arg,
           stmt'[s].tables = stmt[s].tables, stmt'[s].indexed = stmt[s].indexed,
           tx'[s] = tx[s],
           stmt[s].kind = "delete" => undo'[s] = undo[s]
    PROVE  Planned(s)'
<1> SUFFICES ASSUME pc'[s] \in {"locking", "ready"}
             PROVE  /\ \A t \in stmt'[s].tables \ stmt'[s].indexed : ~store'[t].indexed
                    /\ stmt'[s].kind \in Ddl => tx'[s] = "none"
                    /\ stmt'[s].kind = "delete" =>
                          \A r \in OwnInserts(s, stmt[s].tables)' : ~Satisfies(r, stmt'[s].arg)
  BY DEF Planned
<1>1. \A t \in stmt'[s].tables \ stmt'[s].indexed : ~store'[t].indexed
  BY DEF Planned, NoIndexAppears
<1>2. stmt'[s].kind \in Ddl => tx'[s] = "none"
  BY DEF Planned
<1>3. ASSUME stmt'[s].kind = "delete"
      PROVE  \A r \in OwnInserts(s, stmt[s].tables)' : ~Satisfies(r, stmt'[s].arg)
  <2>1. OwnInserts(s, stmt[s].tables)' = OwnInserts(s, stmt[s].tables)
    BY <1>3 DEF OwnInserts
  <2>2. \A r \in OwnInserts(s, stmt[s].tables) : ~Satisfies(r, stmt'[s].arg)
    BY <1>3 DEF Planned
  <2> QED BY <2>1, <2>2
<1> QED BY <1>1, <1>2, <1>3

LEMMA PlannedStep ==
    ASSUME "create_index" \notin Statements, ~DeletesOwnInserts, TxInv, BaseInv, StoreInv, [Next]_vars,
           NEW p \in Owner
    PROVE  Planned(p)'
<1>a. NoIndexAppears /\ Planned(p)
  BY IndexesOnlyGo DEF StoreInv
<1>t. /\ pc \in [Owner -> {"idle", "locking", "ready", "undoing", "releasing"}]
      /\ tx \in [Owner -> {"none", "explicit", "load"}]
      /\ stmt \in [Owner -> {NoStmt} \cup Statement]
  BY DEF TxInv, SessionType
<1>c. pc[p] \in {"locking", "ready"} => stmt[p] \in Statement /\ stmt[p].tables \subseteq Table
  BY DEF TxInv, Session, HoldsItsTables, Statement
<1>0. ASSUME pc'[p] \notin {"locking", "ready"} PROVE Planned(p)'
  BY <1>0 DEF Planned
<1>1. ASSUME pc[p] \in {"locking", "ready"},
             stmt'[p] = stmt[p], tx'[p] = tx[p], stmt[p].kind = "delete" => undo'[p] = undo[p]
      PROVE  Planned(p)'
  BY <1>a, <1>c, <1>1, PlannedKept
<1>2. ASSUME SameSession(p) PROVE Planned(p)'
  <2>1. pc'[p] = pc[p] /\ tx'[p] = tx[p] /\ stmt'[p] = stmt[p] /\ undo'[p] = undo[p]
    BY <1>2 DEF SameSession
  <2> QED BY <1>0, <1>1, <2>1
<1>3. ASSUME NEW kind \in Statements, NEW ask \in Requests(kind), Prepare(p, kind, ask[1], ask[2])
      PROVE  Planned(p)'
  <2> DEFINE ts == ask[1]
             q == StatementOf(kind, ts, ask[2])
  <2>1. /\ stmt'[p] = q /\ store' = store /\ undo' = undo
        /\ AllowedIn(kind, tx[p]) /\ InWorkload(p, kind, ts, ask[2])
        /\ tx'[p] = IF kind = "load_atomic" THEN "load" ELSE tx[p]
    BY <1>3, <1>t DEF Prepare
  <2>2. q.kind = kind /\ q.tables = ts /\ q.arg = ask[2] /\ q.indexed = {t \in ts : store[t].indexed}
    BY DEF StatementOf
  <2> HIDE DEF q, ts
  <2>3. kind \in Ddl => tx'[p] = "none"
    BY <2>1 DEF AllowedIn, Ddl
  <2>4. kind = "delete" => \A r \in OwnInserts(p, ts) : ~Satisfies(r, ask[2])
    BY <2>1 DEF InWorkload
  <2>5. OwnInserts(p, stmt[p].tables)' = OwnInserts(p, ts)
    BY <2>1, <2>2 DEF OwnInserts
  <2>6. \A t \in stmt'[p].tables \ stmt'[p].indexed : ~store'[t].indexed
    BY <2>1, <2>2
  <2>7. (stmt[p].kind = "delete")' => (\A r \in OwnInserts(p, stmt[p].tables) : ~Satisfies(r, stmt[p].arg))'
    BY <2>1, <2>2, <2>4, <2>5
  <2> QED BY <2>1, <2>2, <2>3, <2>6, <2>7 DEF Planned
<1>4. ASSUME SkipLock(p) \/ LockGranted(p) PROVE Planned(p)'
  <2>1. PICK t : stmt' = [stmt EXCEPT ![p].todo = @ \ {t}]
    BY <1>4 DEF SkipLock, LockGranted, Locked
  <2>2. pc[p] = "locking"
    BY <1>4 DEF SkipLock, LockGranted, Grant, TxInv, Session, AsksForNext
  <2>3. /\ stmt'[p].kind = stmt[p].kind /\ stmt'[p].arg = stmt[p].arg
        /\ stmt'[p].tables = stmt[p].tables /\ stmt'[p].indexed = stmt[p].indexed
    BY <1>c, <1>t, <2>1, <2>2 DEF Statement
  <2>4. tx' = tx /\ undo' = undo
    BY <1>4 DEF SkipLock, LockGranted
  <2> QED BY <1>a, <1>c, <2>2, <2>3, <2>4, PlannedKept
<1>5. ASSUME RequestLock(p) \/ LockWaits(p) \/ LockExpires(p) PROVE Planned(p)'
  <2>1. pc' = pc /\ stmt' = stmt /\ tx' = tx /\ undo' = undo
    BY <1>5 DEF RequestLock, LockWaits, LockExpires, sessionVars
  <2> QED BY <1>0, <1>1, <2>1
<1>6. ASSUME AllLocked(p) PROVE Planned(p)'
  <2>1. pc[p] = "locking" /\ stmt' = stmt /\ tx' = tx /\ undo' = undo
    BY <1>6 DEF AllLocked
  <2> QED BY <1>1, <2>1
<1>7. ASSUME NEW r \in Row, LoadRow(p, r) PROVE Planned(p)'
  <2>1. pc[p] = "ready" /\ stmt' = stmt /\ tx' = tx /\ stmt[p].kind # "delete"
    BY <1>7 DEF LoadRow, Loads
  <2> QED BY <1>1, <2>1
<1>8. ASSUME \/ Begin(p) \/ End(p) \/ Abandon(p) \/ (\E t \in Table : CreateTableNow(p, t))
             \/ LockTimedOut(p) \/ ExecuteInsert(p) \/ ExecuteDeleteWhere(p) \/ ExecuteSelect(p)
             \/ ExecuteDdl(p) \/ LoadEnds(p) \/ UndoStep(p) \/ UndoEnds(p)
             \/ (\E t \in Table : ReleaseLock(p, t)) \/ StatementEnds(p)
      PROVE  Planned(p)'
  <2>1. pc'[p] \notin {"locking", "ready"}
    BY <1>8, <1>t DEF Begin, End, Abandon, CreateTableNow, LockTimedOut, ExecuteInsert,
       ExecuteDeleteWhere, ExecuteSelect, ExecuteDdl, LoadEnds, UndoStep, UndoEnds, ReleaseLock,
       StatementEnds, Goto, AfterSuccess, AfterError
  <2> QED BY <1>0, <2>1
<1>9. ASSUME NEW s \in Owner, ClientStep(s) \/ ProcessorStep(s) \/ LockExpires(s) PROVE Planned(p)'
  <2>1. CASE s = p
    BY <1>3, <1>4, <1>5, <1>6, <1>7, <1>8, <1>9, <2>1 DEF ClientStep, ProcessorStep
  <2>2. CASE s # p
    BY <1>2, <1>9, <2>2, OtherSessions
  <2> QED BY <2>1, <2>2
<1>10. CASE UNCHANGED vars
  <2>1. pc' = pc /\ stmt' = stmt /\ tx' = tx /\ undo' = undo
    BY <1>10 DEF vars, sessionVars
  <2> QED BY <1>0, <1>1, <2>1
<1> QED BY <1>9, <1>10 DEF Next

LEMMA StoreInvariant ==
    ASSUME "create_index" \notin Statements, ~DeletesOwnInserts
    PROVE  Spec => [](TxInv /\ BaseInv /\ StoreInv)
<1>1. TxInv /\ BaseInv /\ StoreInv /\ [Next]_vars => StoreInv'
  BY ContentsStep, PlannedStep DEF StoreInv
<1>2. Init => StoreInv
  BY StoreInitially
<1> QED BY <1>1, <1>2, BaseInvariant, PTL DEF Spec

(* A table and its index agree after any mix of statements, timeouts, aborts and
   restarts: the index metadata that a statement read before its locks was still
   true, and the RIDs in the log are where the rows are.  (With a CREATE INDEX in
   between, or a delete of the transaction's own rows, it is false: runs
   tx_stale_catalog and tx_stale_rid.) *)
THEOREM TxIndexMirrorsRows ==
    ASSUME "create_index" \notin Statements, ~DeletesOwnInserts
    PROVE  Spec => []IndexMirrorsRows
<1>1. StoreInv => IndexMirrorsRows
  BY DEF StoreInv, Mirrored, IndexMirrorsRows
<1> QED BY <1>1, StoreInvariant, PTL

-------------------------------------------------------------------------------
(* What is committed. *)

LEMMA WasThereIsBefore ==
    ASSUME NEW s, NEW t, NEW r
    PROVE  WasThere(s, t, r) <=> Before(undo[s], t, store[t], r)
<1>1. Mentions(s, t, r) = Mentioned(undo[s], t, r)
  BY DEF Mentions, Writes, Mentioned, CandidateRows
<1> QED BY <1>1 DEF WasThere, Before

(* With at most one writer, its log says what is committed. *)
LEMMA CommittedIs ==
    ASSUME BaseInv, NEW s \in Owner, NEW t \in Table,
           \A p \in Owner : p # s => \A n \in DOMAIN undo[p] : undo[p][n].table # t
    PROVE  Committed(t) = {r \in Row : Before(undo[s], t, store[t], r)}
<1>1. Writers(t) \subseteq {s}
  BY DEF Writers, Writes
<1>2. CASE Writers(t) = {}
  <2>1. \A r : Mentioned(undo[s], t, r) = {}
    BY <1>2 DEF Writers, Writes, Mentioned
  <2>2. \A r : Before(undo[s], t, store[t], r) <=> r \in RowsOf(store[t])
    BY <2>1 DEF Before
  <2>3. RowsOf(store[t]) \subseteq Row
    BY DEF BaseInv, TableType, RowsOf, UsedSlots
  <2> QED BY <1>2, <2>2, <2>3 DEF Committed
<1>3. CASE Writers(t) = {s}
  <2>1. Committed(t) = {r \in Row : WasThere(s, t, r)}
    BY <1>3 DEF Committed
  <2> QED BY <2>1, WasThereIsBefore
<1> QED BY <1>1, <1>2, <1>3

OnTable(u, t) == \E n \in DOMAIN u : u[n].table = t

(* Two logs say the same of table t. *)
SaysTheSame(u, w, t) ==
    /\ OnTable(u, t) <=> OnTable(w, t)
    /\ \A T, r : Before(u, t, T, r) <=> Before(w, t, T, r)

LEMMA AppendSaysNothing ==
    ASSUME NEW u \in Seq(LogEntry), NEW e \in LogEntry, NEW t, e.table # t
    PROVE  SaysTheSame(Append(u, e), u, t) /\ SaysTheSame(u, Append(u, e), t)
<1>1. OnTable(Append(u, e), t) <=> OnTable(u, t)
  BY AppendIs DEF OnTable
<1>2. \A T, r : Before(Append(u, e), t, T, r) <=> Before(u, t, T, r)
  BY OtherTableBefore
<1> QED BY <1>1, <1>2 DEF SaysTheSame

(* Owner s, alone on table t, leaves U there and u in its log. *)
OneWrite(s, t, u, U) ==
    /\ t \in Table /\ held[s][t] = "EXCLUSIVE"
    /\ store' = [store EXCEPT ![t] = U]
    /\ undo' = [undo EXCEPT ![s] = u]
    /\ \A v \in Table : v # t => SaysTheSame(u, undo[s], v)

LEMMA OneWriteEffect ==
    ASSUME BaseInv, NEW s \in Owner, NEW t, NEW u, NEW U, OneWrite(s, t, u, U)
    PROVE  /\ t \in Table /\ store'[t] = U /\ \A v \in Table : v # t => store'[v] = store[v]
           /\ undo'[s] = u /\ \A p \in Owner : p # s => undo'[p] = undo[p]
           /\ \A p \in Owner, v \in Table : v # t => SaysTheSame(undo'[p], undo[p], v)
<1>1. \A p \in Owner : \A v : SaysTheSame(undo[p], undo[p], v)
  BY DEF SaysTheSame
<1> QED BY <1>1 DEF OneWrite, BaseInv

LEMMA CommittedElsewhere ==
    ASSUME BaseInv, NEW s \in Owner, NEW t, NEW u, NEW U, OneWrite(s, t, u, U),
           NEW v \in Table, v # t
    PROVE  Committed(v)' = Committed(v)
<1>1. store'[v] = store[v] /\ \A p \in Owner : SaysTheSame(undo'[p], undo[p], v)
  BY OneWriteEffect
<1>2. Writers(v)' = Writers(v)
  BY <1>1 DEF SaysTheSame, OnTable, Writers, Writes
<1>3. ASSUME NEW p \in Owner, NEW r PROVE WasThere(p, v, r)' <=> WasThere(p, v, r)
  <2>1. WasThere(p, v, r) <=> Before(undo[p], v, store[v], r)
    BY WasThereIsBefore
  <2>2. Mentions(p, v, r)' = Mentioned(undo'[p], v, r)
    BY DEF Mentions, Writes, Mentioned, CandidateRows
  <2>3. WasThere(p, v, r)' <=> Before(undo'[p], v, store'[v], r)
    BY <2>2 DEF WasThere, Before
  <2>4. Before(undo'[p], v, store[v], r) <=> Before(undo[p], v, store[v], r)
    BY <1>1 DEF SaysTheSame
  <2> QED BY <1>1, <2>1, <2>3, <2>4
<1>4. Writers(v) \subseteq Owner
  BY DEF Writers
<1> QED BY <1>1, <1>2, <1>3, <1>4 DEF Committed

CommittedByOne ==
    \A s \in Owner, t \in Table :
        (BaseInv /\ \A p \in Owner : p # s => \A n \in DOMAIN undo[p] : undo[p][n].table # t)
            => Committed(t) = {r \in Row : Before(undo[s], t, store[t], r)}

LEMMA NextCommittedByOne == CommittedByOne'
<1>1. CommittedByOne
  BY CommittedIs DEF CommittedByOne
<1> QED BY <1>1, PTL

(* What is committed on the table itself, before and after. *)
LEMMA CommittedHere ==
    ASSUME TxInv, BaseInv, BaseInv', NEW s \in Owner, NEW t, NEW u, NEW U, OneWrite(s, t, u, U)
    PROVE  /\ Committed(t) = {r \in Row : Before(undo[s], t, store[t], r)}
           /\ Committed(t)' = {r \in Row : Before(u, t, U, r)}
<1>1. t \in Table /\ held[s][t] = "EXCLUSIVE"
  BY DEF OneWrite
<1>2. ASSUME NEW p \in Owner, p # s
      PROVE  /\ \A n \in DOMAIN undo[p] : undo[p][n].table # t
             /\ undo'[p] = undo[p]
  BY <1>1, <1>2, Alone, OneWriteEffect
<1>3. Committed(t) = {r \in Row : Before(undo[s], t, store[t], r)}
  BY <1>1, <1>2, CommittedIs
<1>4. CommittedByOne'
  BY NextCommittedByOne
<1>5. BaseInv' /\ \A p \in Owner : p # s => \A n \in DOMAIN undo'[p] : undo'[p][n].table # t
  BY <1>2
<1>6. Committed(t)' = {r \in Row : Before(undo'[s], t, store'[t], r)}
  BY <1>1, <1>4, <1>5 DEF CommittedByOne
<1> QED BY <1>3, <1>6, OneWriteEffect

(* A step of Transaction.rollback writes one table and keeps what was there. *)
LEMMA UndoWrites ==
    ASSUME TxInv, BaseInv, StoreInv, NEW s \in Owner, UndoStep(s)
    PROVE  \E t \in Table, u \in Seq(LogEntry) : \E U :
              /\ OneWrite(s, t, u, U)
              /\ OnTable(undo[s], t)
              /\ \A r : Before(undo[s], t, store[t], r) <=> Before(u, t, U, r)
<1>0. PICK u \in Seq(LogEntry), e \in LogEntry : \E U : UndoneAs(s, u, e, U)
  BY UndoEffect DEF StoreInv
<1>1. PICK U : UndoneAs(s, u, e, U)
  BY <1>0
<1>2. undo[s] = Append(u, e)
  BY <1>1 DEF UndoneAs
<1>3. e.table \in Table /\ held[s][e.table] = "EXCLUSIVE"
  BY <1>2, UndoIsExclusive
<1>4. \A v \in Table : v # e.table => SaysTheSame(u, undo[s], v)
  BY <1>2, AppendSaysNothing
<1>5. OnTable(undo[s], e.table)
  BY <1>2, AppendIs DEF OnTable
<1>6. OneWrite(s, e.table, u, U)
  BY <1>1, <1>3, <1>4 DEF OneWrite, UndoneAs
<1> QED BY <1>1, <1>3, <1>5, <1>6 DEF UndoneAs

LEMMA WritesKeepCommitted ==
    ASSUME TxInv, BaseInv, BaseInv', NEW s \in Owner, NEW t, NEW u, NEW U, OneWrite(s, t, u, U),
           \A r : Before(undo[s], t, store[t], r) <=> Before(u, t, U, r)
    PROVE  \A v \in Table : Committed(v)' = Committed(v)
  BY CommittedHere, CommittedElsewhere

(* An abort ends in the state of before BEGIN: undoing an entry of the log leaves the
   committed rows of every table as they were. *)
THEOREM TxUndoKeepsCommitted ==
    ASSUME "create_index" \notin Statements, ~DeletesOwnInserts
    PROVE  Spec => UndoKeepsCommitted
<1> DEFINE Kept == \A s \in Owner : UndoStep(s) => \A t \in Table : Committed(t)' = Committed(t)
<1>1. TxInv /\ BaseInv /\ StoreInv /\ [Next]_vars => Kept
  <2> SUFFICES ASSUME TxInv, BaseInv, StoreInv, [Next]_vars, NEW s \in Owner, UndoStep(s)
               PROVE  \A t \in Table : Committed(t)' = Committed(t)
    OBVIOUS
  <2>1. BaseInv'
    BY BaseStep
  <2> QED BY <2>1, UndoWrites, WritesKeepCommitted
<1> HIDE DEF Kept
<1>2. Spec => [][Kept]_vars
  BY <1>1, StoreInvariant, PTL DEF Spec
<1> QED BY <1>2 DEF UndoKeepsCommitted, Kept

-------------------------------------------------------------------------------
(* Every step is one of AtomicStore, seen through the mapping of Transactions. *)

Wrote(s) == {u \in Table : Writes(s, u) # {}}

WorkspaceOf(s) == [t \in Wrote(s) |-> RowsOf(store[t])]

Depends(s) == {t \in Table : held[s][t] # "none"}

(* The four variables of AtomicStore, by their names here. *)
Committeds == [t \in Table |-> Committed(t)]

Workspaces == [s \in Owner |-> WorkspaceOf(s)]

Touched == [s \in Owner |-> Depends(s)]

LEMMA WroteIs ==
    /\ \A s \in Owner : Wrote(s) = {v \in Table : OnTable(undo[s], v)}
    /\ \A s \in Owner : Wrote(s)' = {v \in Table : OnTable(undo'[s], v)}
  BY DEF Wrote, Writes, OnTable

(* Nobody else depends on a table that is held exclusively. *)
LEMMA ExclusiveIsUnshared ==
    ASSUME TxInv, NEW s \in Owner, NEW t \in Table, held[s][t] = "EXCLUSIVE"
    PROVE  Store!Unshared(s, t)
<1>1. ASSUME NEW d \in Owner, d # s PROVE t \notin Depends(d) /\ t \notin Wrote(d)
  BY <1>1, Alone DEF Depends, Wrote, Writes
<1>2. \A d \in Owner : DOMAIN Workspaces[d] = Wrote(d) /\ Touched[d] = Depends(d)
  BY DEF Workspaces, Touched, WorkspaceOf
<1>3. \A d \in Owner \ {s} : t \notin Touched[d] \cup DOMAIN Workspaces[d]
  BY <1>1, <1>2
<1> QED BY <1>3 DEF Store!Unshared, Touched, Workspaces, Depends, WorkspaceOf, Wrote

LEMMA SameContents ==
    ASSUME UNCHANGED <<store, undo>>
    PROVE  UNCHANGED <<Committeds, Workspaces>>
<1>1. \A s \in Owner, t \in Table : (Writes(s, t))' = Writes(s, t)
  BY DEF Writes
<1>2. \A t \in Table : (Writers(t))' = Writers(t)
  BY <1>1 DEF Writers
<1>3. ASSUME NEW s \in Owner, NEW t \in Table, NEW r PROVE (WasThere(s, t, r))' <=> WasThere(s, t, r)
  BY DEF WasThere, Mentions, Writes
<1>4. \A t \in Table : (Committed(t))' = Committed(t)
  BY <1>2, <1>3 DEF Committed, Writers
<1> QED BY <1>1, <1>4 DEF Committeds, Workspaces, WorkspaceOf, Wrote

LEMMA AbstractStutter ==
    ASSUME UNCHANGED <<store, undo, held, seen>>
    PROVE  UNCHANGED Store!storeVars
  BY SameContents DEF Store!storeVars, Committeds, Workspaces, WorkspaceOf, Wrote

(* The workspaces after one write. *)
LEMMA WorkspacesAfter ==
    ASSUME TxInv, BaseInv, NEW s \in Owner, NEW t, NEW u, NEW U, OneWrite(s, t, u, U)
    PROVE  /\ \A p \in Owner : p # s => (WorkspaceOf(p))' = WorkspaceOf(p)
           /\ (Wrote(s))' \ {t} = Wrote(s) \ {t}
           /\ t \in (Wrote(s))' <=> OnTable(u, t)
           /\ t \in Wrote(s) <=> OnTable(undo[s], t)
           /\ \A v \in Table : RowsOf(store[v])' = IF v = t THEN RowsOf(U) ELSE RowsOf(store[v])
<1>1. /\ t \in Table /\ store'[t] = U /\ \A v \in Table : v # t => store'[v] = store[v]
      /\ undo'[s] = u /\ \A p \in Owner : p # s => undo'[p] = undo[p]
      /\ \A p \in Owner, v \in Table : v # t => SaysTheSame(undo'[p], undo[p], v)
  BY OneWriteEffect
<1>2. \A v \in Table : RowsOf(store[v])' = IF v = t THEN RowsOf(U) ELSE RowsOf(store[v])
  BY <1>1 DEF RowsOf, UsedSlots
<1>3. ASSUME NEW p \in Owner, p # s PROVE (WorkspaceOf(p))' = WorkspaceOf(p)
  <2>1. (Wrote(p))' = Wrote(p)
    BY <1>1, <1>3, WroteIs
  <2>2. t \notin Wrote(p)
    BY <1>1, <1>3, Alone DEF OneWrite, Wrote, Writes
  <2>3. \A v \in Wrote(p) : RowsOf(store[v])' = RowsOf(store[v])
    BY <1>2, <2>2 DEF Wrote
  <2> QED BY <2>1, <2>3 DEF WorkspaceOf
<1>4. (Wrote(s))' \ {t} = Wrote(s) \ {t}
  BY <1>1, WroteIs DEF SaysTheSame
<1> QED BY <1>1, <1>2, <1>3, <1>4, WroteIs

(* A write in a transaction, or the undo of one: the workspace changes, what is
   committed does not. *)
LEMMA WriteIsAbstract ==
    ASSUME TxInv, BaseInv, BaseInv', NEW s \in Owner, NEW t, NEW u, NEW U, OneWrite(s, t, u, U),
           \A r : Before(undo[s], t, store[t], r) <=> Before(u, t, U, r),
           OnTable(undo[s], t) \/ OnTable(u, t), UNCHANGED <<held, seen>>
    PROVE  Store!StoreNext
<1>0. t \in Table /\ held[s][t] = "EXCLUSIVE"
  BY DEF OneWrite
<1>1. UNCHANGED <<Committeds, Touched, seen>>
  BY WritesKeepCommitted DEF Committeds, Touched, Depends
<1>2. /\ \A p \in Owner : p # s => (WorkspaceOf(p))' = WorkspaceOf(p)
      /\ (Wrote(s))' \ {t} = Wrote(s) \ {t}
      /\ t \in (Wrote(s))' <=> OnTable(u, t)
      /\ t \in Wrote(s) <=> OnTable(undo[s], t)
      /\ \A v \in Table : RowsOf(store[v])' = IF v = t THEN RowsOf(U) ELSE RowsOf(store[v])
  BY WorkspacesAfter
<1>3. Store!Unshared(s, t)
  BY <1>0, ExclusiveIsUnshared
<1>4. RowsOf(U) \in SUBSET Row
  <2>1. SoundTable(U)
    BY OneWriteEffect DEF BaseInv
  <2> QED BY <2>1 DEF SoundTable, TableType, RowsOf, UsedSlots
<1>5. Wrote(s) \subseteq Table /\ (Wrote(s))' \subseteq Table
  BY DEF Wrote
<1>6. CASE OnTable(u, t)
  <2> DEFINE W == [v \in Wrote(s) \cup {t} |-> IF v = t THEN RowsOf(U) ELSE WorkspaceOf(s)[v]]
  <2>1. (Wrote(s))' = Wrote(s) \cup {t}
    BY <1>2, <1>6
  <2>2. (WorkspaceOf(s))' = W
    BY <1>2, <1>5, <2>1 DEF WorkspaceOf
  <2>3. Workspaces' = [Workspaces EXCEPT ![s] = W]
    BY <1>2, <2>2 DEF Workspaces
  <2>4. Store!Written(s, t, RowsOf(U)) = W
    BY DEF Store!Written, WorkspaceOf, Wrote
  <2>5. Store!Write(s, t, RowsOf(U))
    BY <1>1, <1>3, <2>3, <2>4 DEF Store!Write, Committeds, Touched, Workspaces, WorkspaceOf, Wrote, Depends
  <2> QED BY <1>0, <1>4, <2>5 DEF Store!StoreNext, Store!Contents
<1>7. CASE ~OnTable(u, t)
  <2> DEFINE W == [v \in Wrote(s) \ {t} |-> WorkspaceOf(s)[v]]
  <2>1. (Wrote(s))' = Wrote(s) \ {t} /\ t \in Wrote(s)
    BY <1>2, <1>7
  <2>2. (WorkspaceOf(s))' = W
    BY <1>2, <1>5, <2>1 DEF WorkspaceOf
  <2>3. Workspaces' = [Workspaces EXCEPT ![s] = W]
    BY <1>2, <2>2 DEF Workspaces
  <2>4. Store!Discard(s, t)
    BY <1>1, <2>1, <2>3 DEF Store!Discard, Committeds, Touched, Workspaces, WorkspaceOf, Wrote, Depends
  <2> QED BY <1>0, <2>4 DEF Store!StoreNext
<1> QED BY <1>6, <1>7

LEMMA EmptyLogSaysNothing ==
    ASSUME BaseInv, NEW s \in Owner, undo[s] = <<>>
    PROVE  /\ Wrote(s) = {} /\ Workspaces[s] = Store!NoTables
           /\ \A t, T, r : Before(<<>>, t, T, r) <=> r \in RowsOf(T)
<1>1. DOMAIN undo[s] = {}
  OBVIOUS
<1>2. Wrote(s) = {}
  BY <1>1 DEF Wrote, Writes
<1>3. \A t, r : Mentioned(<<>>, t, r) = {}
  BY DEF Mentioned
<1>4. Workspaces[s] = Store!NoTables
  BY <1>2 DEF Workspaces, WorkspaceOf, Store!NoTables
<1> QED BY <1>2, <1>3, <1>4 DEF Before

(* A write in autocommit. *)
LEMMA AutoCommitIsAbstract ==
    ASSUME TxInv, BaseInv, BaseInv', NEW s \in Owner, undo[s] = <<>>,
           NEW t, NEW U, OneWrite(s, t, <<>>, U), UNCHANGED <<held, seen>>
    PROVE  Store!StoreNext
<1>0. t \in Table /\ held[s][t] = "EXCLUSIVE"
  BY DEF OneWrite
<1>1. RowsOf(U) \in SUBSET Row
  <2>1. SoundTable(U)
    BY OneWriteEffect DEF BaseInv
  <2> QED BY <2>1 DEF SoundTable, TableType, RowsOf, UsedSlots
<1>2. Committed(t)' = RowsOf(U)
  <2>1. Committed(t)' = {r \in Row : Before(<<>>, t, U, r)}
    BY CommittedHere
  <2> QED BY <1>1, <2>1, EmptyLogSaysNothing
<1>3. Committeds' = [Committeds EXCEPT ![t] = RowsOf(U)]
  BY <1>2, CommittedElsewhere DEF Committeds
<1>4. /\ \A p \in Owner : p # s => (WorkspaceOf(p))' = WorkspaceOf(p)
      /\ (Wrote(s))' \ {t} = Wrote(s) \ {t}
      /\ t \in (Wrote(s))' <=> OnTable(<<>>, t)
  BY WorkspacesAfter
<1>5. Wrote(s) = {} /\ Workspaces[s] = Store!NoTables
  BY EmptyLogSaysNothing
<1>6. (Wrote(s))' = {}
  BY <1>4, <1>5 DEF OnTable
<1>7. (WorkspaceOf(s))' = WorkspaceOf(s)
  BY <1>5, <1>6 DEF WorkspaceOf
<1>8. UNCHANGED <<Workspaces, Touched, seen>>
  BY <1>4, <1>7 DEF Workspaces, Touched, Depends
<1>9. Store!Unshared(s, t)
  BY <1>0, ExclusiveIsUnshared
<1>10. Store!AutoCommit(s, t, RowsOf(U))
  BY <1>3, <1>5, <1>8, <1>9
     DEF Store!AutoCommit, Committeds, Touched, Workspaces, WorkspaceOf, Wrote, Depends
<1> QED BY <1>0, <1>1, <1>10 DEF Store!StoreNext, Store!Contents

(* The rows after an insert. *)
LEMMA PutRows ==
    ASSUME NEW T, SoundTable(T), NEW f \in Slot, T.slots[f] = NoRow, NEW r \in Row, NEW w \in BOOLEAN
    PROVE  RowsOf(Put(T, f, r, w)) = RowsOf(T) \cup {r}
<1> DEFINE U == Put(T, f, r, w)
<1>1. T.slots \in [Slot -> Row \cup {NoRow}]
  BY DEF SoundTable, TableType
<1>2. U.slots = [T.slots EXCEPT ![f] = r]
  BY DEF Put, SoundTable, TableType
<1> HIDE DEF U
<1>3. UsedSlots(U) = UsedSlots(T) \cup {f} /\ \A i \in Slot : U.slots[i] = IF i = f THEN r ELSE T.slots[i]
  BY <1>1, <1>2, NoRowIsNoRow DEF UsedSlots
<1> QED BY <1>3 DEF RowsOf, UsedSlots, U

(* INSERT and DELETE, in a transaction and outside of one. *)
LEMMA InsertedIsAbstract ==
    ASSUME TxInv, BaseInv, BaseInv', NEW s \in Owner, NEW t \in Table, NEW r \in Row,
           held[s][t] = "EXCLUSIVE", Inserted(s, t, r), UNCHANGED <<held, seen>>
    PROVE  Store!StoreNext \/ UNCHANGED Store!storeVars
<1> DEFINE T == store[t]
<1>1. CASE UNCHANGED <<store, undo>>
  BY <1>1, AbstractStutter
<1>2. ASSUME NEW f \in Slot,
             T.exists, T.slots[f] = NoRow, ~HasKey(T, r.key),
             store' = [store EXCEPT ![t] = Put(T, f, r, T.indexed)],
             undo' = [undo EXCEPT
                        ![s] = IF tx[s] = "none" THEN @
                               ELSE Append(@, UndoEntry("insert", t, <<[slot |-> f, row |-> r]>>, T.indexed))]
      PROVE  Store!StoreNext
  <2> DEFINE c == [slot |-> f, row |-> r]
             e == UndoEntry("insert", t, <<c>>, T.indexed)
             U == Put(T, f, r, T.indexed)
  <2>1. SoundTable(T) /\ undo[s] \in Seq(LogEntry) /\ T.indexed \in BOOLEAN
    BY DEF BaseInv, TableType
  <2>2. RowsOf(U) = RowsOf(T) \cup {r}
    <3> DEFINE w == T.indexed
    <3>1. w \in BOOLEAN /\ w = T.indexed
      BY <2>1
    <3> HIDE DEF w, T
    <3>2. T.slots[f] = NoRow /\ ~HasKey(T, r.key) /\ T.exists /\ SoundTable(T)
      BY <1>2, <2>1
    <3>3. RowsOf(Put(T, f, r, w)) = RowsOf(T) \cup {r}
      BY <3>1, <3>2, PutRows
    <3> QED BY <3>1, <3>3
  <2>3. e \in LogEntry /\ e.table = t /\ e.kind = "insert" /\ e.candidates = <<c>>
    <3>1. <<c>> \in Seq(Candidate)
      BY DEF Candidate
    <3> HIDE DEF c
    <3> QED BY <2>1, <3>1 DEF UndoEntry, LogEntry
  <2>4. CandidateRows(e.candidates) = {r}
    <3>1. c.row = r /\ DOMAIN <<c>> = {1} /\ <<c>>[1] = c
      OBVIOUS
    <3> HIDE DEF c, e
    <3> QED BY <2>3, <3>1 DEF CandidateRows
  <2>5. r \notin RowsOf(T)
    BY <1>2 DEF HasKey
  <2>6. CASE tx[s] = "none"
    <3>1. undo[s] = <<>>
      BY <2>6 DEF TxInv, Session, LogIsLocked
    <3>2. undo' = [undo EXCEPT ![s] = <<>>]
      BY <1>2, <2>6, <3>1
    <3>3. OneWrite(s, t, <<>>, U)
      BY <1>2, <3>1, <3>2 DEF OneWrite, SaysTheSame
    <3> HIDE DEF U
    <3> QED BY <3>1, <3>3, AutoCommitIsAbstract
  <2>7. CASE tx[s] # "none"
    <3> DEFINE u == Append(undo[s], e)
    <3> HIDE DEF e
    <3>1. undo' = [undo EXCEPT ![s] = u]
      BY <1>2, <2>7 DEF e
    <3>2. \A v \in Table : v # t => SaysTheSame(u, undo[s], v)
      BY <2>1, <2>3, AppendSaysNothing
    <3>3. OneWrite(s, t, u, U)
      BY <1>2, <3>1, <3>2 DEF OneWrite
    <3>4. OnTable(u, t)
      BY <2>1, <2>3, AppendIs DEF OnTable
    <3> HIDE DEF T, U
    <3>5. \A q : Before(u, t, U, q) <=> Before(undo[s], t, T, q)
      BY <2>1, <2>2, <2>3, <2>4, <2>5, InsertKeepsBefore
    <3>6. \A q : Before(undo[s], t, store[t], q) <=> Before(u, t, U, q)
      BY <3>5 DEF T
    <3> HIDE DEF u
    <3> QED BY <3>3, <3>4, <3>6, WriteIsAbstract
  <2> QED BY <2>6, <2>7
<1> QED BY <1>1, <1>2 DEF Inserted

(* A table that is written without changing its rows. *)
LEMMA SameRowsIsAbstract ==
    ASSUME TxInv, BaseInv, BaseInv', NEW s \in Owner, NEW t, NEW U, OneWrite(s, t, undo[s], U),
           RowsOf(U) = RowsOf(store[t]), UNCHANGED <<held, seen>>
    PROVE  UNCHANGED Store!storeVars
<1> DEFINE u == undo[s]
<1>1. \A r : Before(undo[s], t, store[t], r) <=> Before(u, t, U, r)
  BY DEF Before
<1>2. Committeds' = Committeds
  BY <1>1, WritesKeepCommitted DEF Committeds
<1>3. /\ \A p \in Owner : p # s => (WorkspaceOf(p))' = WorkspaceOf(p)
      /\ (Wrote(s))' \ {t} = Wrote(s) \ {t}
      /\ t \in (Wrote(s))' <=> OnTable(u, t)
      /\ t \in Wrote(s) <=> OnTable(undo[s], t)
      /\ \A v \in Table : RowsOf(store[v])' = IF v = t THEN RowsOf(U) ELSE RowsOf(store[v])
  BY WorkspacesAfter
<1>4. (Wrote(s))' = Wrote(s) /\ Wrote(s) \subseteq Table
  BY <1>3 DEF Wrote
<1>5. (WorkspaceOf(s))' = WorkspaceOf(s)
  BY <1>3, <1>4 DEF WorkspaceOf
<1>6. Workspaces' = Workspaces
  BY <1>3, <1>5 DEF Workspaces
<1> QED BY <1>2, <1>6 DEF Store!storeVars, Committeds, Workspaces, WorkspaceOf, Wrote

LEMMA DeletedIsAbstract ==
    ASSUME TxInv, BaseInv, BaseInv', NEW s \in Owner, NEW t \in Table,
           held[s][t] = "EXCLUSIVE", Deleted(s, t), UNCHANGED <<held, seen>>
    PROVE  Store!StoreNext \/ UNCHANGED Store!storeVars
<1> DEFINE T == store[t]
<1>1. CASE UNCHANGED <<store, undo>>
  BY <1>1, AbstractStutter
<1>2. ASSUME NEW cs \in Seq(Candidate), NEW gone,
             T.exists, InPlace(T, cs),
             store' = [store EXCEPT ![t] = Take(T, KeysOf(cs), gone)],
             undo' = [undo EXCEPT
                        ![s] = IF tx[s] = "none" \/ cs = <<>> THEN @
                               ELSE Append(@, UndoEntry("delete", t, cs, T.indexed))]
      PROVE  Store!StoreNext \/ UNCHANGED Store!storeVars
  <2> DEFINE ks == KeysOf(cs)
             e == UndoEntry("delete", t, cs, T.indexed)
             U == Take(T, ks, gone)
  <2>1. SoundTable(T) /\ undo[s] \in Seq(LogEntry) /\ T.indexed \in BOOLEAN
    BY DEF BaseInv, TableType
  <2>2. RowsOf(U) = RowsOf(T) \ CandidateRows(cs) /\ CandidateRows(cs) \subseteq RowsOf(T)
    <3> HIDE DEF T
    <3>1. RowsOf(Take(T, ks, gone)) = {r \in RowsOf(T) : r.key \notin ks}
      <4> HIDE DEF ks
      <4> QED BY <1>2, <2>1, TakeKeeps
    <3>2. /\ CandidateRows(cs) \subseteq RowsOf(T)
          /\ {r \in RowsOf(T) : r.key \notin KeysOf(cs)} = RowsOf(T) \ CandidateRows(cs)
      BY <1>2, <2>1, TakenRows
    <3> QED BY <3>1, <3>2
  <2>3. e \in LogEntry /\ e.table = t /\ e.kind = "delete" /\ e.candidates = cs
    BY <2>1 DEF UndoEntry, LogEntry
  <2>4. store' = [store EXCEPT ![t] = U]
    BY <1>2
  <2>5. CASE tx[s] = "none"
    <3>1. undo[s] = <<>>
      BY <2>5 DEF TxInv, Session, LogIsLocked
    <3>2. undo' = [undo EXCEPT ![s] = <<>>]
      BY <1>2, <2>5, <3>1
    <3> HIDE DEF U
    <3>3. OneWrite(s, t, <<>>, U)
      BY <2>4, <3>1, <3>2 DEF OneWrite, SaysTheSame
    <3> QED BY <3>1, <3>3, AutoCommitIsAbstract
  <2>6. CASE tx[s] # "none" /\ cs # <<>>
    <3> DEFINE u == Append(undo[s], e)
    <3>1. undo' = [undo EXCEPT ![s] = u]
      BY <1>2, <2>6
    <3> HIDE DEF e, U
    <3>2. \A v \in Table : v # t => SaysTheSame(u, undo[s], v)
      BY <2>1, <2>3, AppendSaysNothing
    <3>3. OneWrite(s, t, u, U)
      BY <2>4, <3>1, <3>2 DEF OneWrite
    <3>4. OnTable(u, t)
      BY <2>1, <2>3, AppendIs DEF OnTable
    <3> HIDE DEF T
    <3>5. \A q : Before(u, t, U, q) <=> Before(undo[s], t, T, q)
      BY <2>1, <2>2, <2>3, DeleteKeepsBefore
    <3>6. \A q : Before(undo[s], t, store[t], q) <=> Before(u, t, U, q)
      BY <3>5 DEF T
    <3> HIDE DEF u
    <3> QED BY <3>3, <3>4, <3>6, WriteIsAbstract
  <2>7. CASE cs = <<>>
    <3> DEFINE u == undo[s]
    <3>1. RowsOf(U) = RowsOf(T)
      BY <2>2, <2>7 DEF CandidateRows
    <3>2. undo' = [undo EXCEPT ![s] = u]
      BY <1>2, <2>7
    <3> HIDE DEF U
    <3>3. OneWrite(s, t, u, U)
      BY <2>4, <3>2 DEF OneWrite, SaysTheSame
    <3>4. \A q : Before(undo[s], t, store[t], q) <=> Before(u, t, U, q)
      BY <3>1 DEF Before
    <3> QED BY <3>1, <3>3, <3>4, SameRowsIsAbstract
  <2> QED BY <2>5, <2>6, <2>7
<1> QED BY <1>1, <1>2 DEF Deleted

(* END TRANSACTION, and the end of an atomic load: the log is dropped. *)
LEMMA CommitIsAbstract ==
    ASSUME TxInv, BaseInv, BaseInv', NEW s \in Owner,
           undo' = [undo EXCEPT ![s] = <<>>], UNCHANGED <<store, held, seen>>
    PROVE  Store!StoreNext
<1>1. undo'[s] = <<>> /\ \A p \in Owner : p # s => undo'[p] = undo[p]
  BY DEF BaseInv
<1>2. ASSUME NEW p \in Owner, p # s, NEW v \in Table PROVE (Writes(p, v))' = Writes(p, v)
  BY <1>1, <1>2 DEF Writes
<1>3. \A v \in Table : (Writes(s, v))' = {}
  BY <1>1 DEF Writes
<1>4. ASSUME NEW v \in Wrote(s)
      PROVE  v \in Table /\ Store!Unshared(s, v) /\ (Committed(v))' = RowsOf(store[v])
  <2>1. v \in Table /\ held[s][v] = "EXCLUSIVE"
    BY DEF Wrote, Writes, TxInv, Session, LogIsLocked
  <2>2. BaseInv' /\ \A p \in Owner : p # s => \A n \in DOMAIN undo'[p] : undo'[p][n].table # v
    BY <1>1, <2>1, Alone
  <2>3. (Committed(v))' = {r \in Row : Before(undo'[s], v, store'[v], r)}
    BY <2>1, <2>2, NextCommittedByOne DEF CommittedByOne
  <2>4. \A r : Before(<<>>, v, store[v], r) <=> r \in RowsOf(store[v])
    BY DEF Before, Mentioned
  <2>5. RowsOf(store[v]) \subseteq Row
    BY <2>1 DEF BaseInv, TableType, RowsOf, UsedSlots
  <2> QED BY <1>1, <2>1, <2>3, <2>4, <2>5, ExclusiveIsUnshared
<1>5. ASSUME NEW v \in Table, v \notin Wrote(s) PROVE (Committed(v))' = Committed(v)
  <2>1. (Writers(v))' = Writers(v) /\ s \notin Writers(v)
    BY <1>2, <1>3, <1>5 DEF Writers, Wrote
  <2>2. ASSUME NEW p \in Writers(v), NEW r PROVE (WasThere(p, v, r))' <=> WasThere(p, v, r)
    <3>1. p \in Owner /\ p # s
      BY <2>1 DEF Writers
    <3> QED BY <1>1, <3>1 DEF WasThere, Mentions, Writes
  <2> QED BY <2>1, <2>2 DEF Committed
<1>6. ASSUME NEW v \in Table
      PROVE  (Committed(v))' = IF v \in Wrote(s) THEN WorkspaceOf(s)[v] ELSE Committed(v)
  BY <1>4, <1>5 DEF WorkspaceOf
<1>7. Workspaces' = [Workspaces EXCEPT ![s] = Store!NoTables]
  <2>1. (Wrote(s))' = {}
    BY <1>3 DEF Wrote
  <2>2. (WorkspaceOf(s))' = Store!NoTables
    BY <2>1 DEF WorkspaceOf, Store!NoTables
  <2>3. ASSUME NEW p \in Owner, p # s PROVE (WorkspaceOf(p))' = WorkspaceOf(p)
    BY <1>2, <2>3 DEF WorkspaceOf, Wrote
  <2> QED BY <2>2, <2>3 DEF Workspaces
<1>8. Committeds' = [v \in Table |-> Store!View(s, v)]
  <2>1. ASSUME NEW v \in Table
        PROVE  Store!View(s, v) = IF v \in Wrote(s) THEN WorkspaceOf(s)[v] ELSE Committed(v)
    BY DEF Store!View, WorkspaceOf, Wrote
  <2> QED BY <1>6, <2>1 DEF Committeds
<1>9. \A v \in DOMAIN Workspaces[s] : Store!Unshared(s, v)
  BY <1>4 DEF Workspaces, WorkspaceOf
<1>10. Store!Commit(s)
  BY <1>7, <1>8, <1>9
     DEF Store!Commit, Committeds, Workspaces, WorkspaceOf, Wrote, Touched, Depends
<1> QED BY <1>10 DEF Store!StoreNext

LEMMA NoAnswer == <<>> = Store!NoTables
  BY DEF Store!NoTables

(* A SELECT answers from what its owner sees: nobody else has written its tables. *)
LEMMA QueryIsAbstract ==
    ASSUME TxInv, NEW s \in Owner, ExecuteSelect(s)
    PROVE  Store!StoreNext
<1> DEFINE ts == stmt[s].tables
<1>1. pc[s] = "ready" /\ stmt[s].kind = "select" /\ UNCHANGED <<store, held, undo>>
  BY DEF ExecuteSelect
<1>2. ts \subseteq Table
  BY <1>1, WorkingTable DEF Statement
<1>3. UNCHANGED <<Committeds, Workspaces, Touched>>
  BY <1>1, SameContents DEF Touched, Depends
<1>4. ASSUME NEW t \in ts, NEW d \in Owner, d # s PROVE t \notin Wrote(d)
  <2>1. t \in Table /\ held[s][t] # "none"
    BY <1>1, <1>2 DEF TxInv, Session, HoldsItsTables, LedgerCovers, Mode
  <2>2. t \in Wrote(d) => held[d][t] = "EXCLUSIVE"
    BY DEF Wrote, Writes, TxInv, Session, LogIsLocked
  <2> QED BY <1>4, <2>1, <2>2, Alone
<1>5. ASSUME NEW t \in ts PROVE Store!View(s, t) = RowsOf(store[t])
  <2>1. CASE t \in Wrote(s)
    BY <2>1 DEF Store!View, Wrote
  <2>2. CASE t \notin Wrote(s)
    <3>1. Writers(t) = {} /\ t \in Table
      BY <1>2, <1>4, <2>2 DEF Writers, Wrote
    <3>2. Committed(t) = RowsOf(store[t])
      BY <3>1 DEF Committed
    <3> QED BY <2>2, <3>1, <3>2 DEF Store!View, Wrote
  <2> QED BY <2>1, <2>2
<1>6. CASE \A t \in ts : store[t].exists
  <2>1. seen' = [seen EXCEPT ![s] = [t \in ts |-> Store!View(s, t)]]
    BY <1>5, <1>6 DEF ExecuteSelect
  <2>2. \A t \in ts : \A d \in Owner \ {s} : t \notin DOMAIN Workspaces[d]
    BY <1>4 DEF Workspaces, WorkspaceOf
  <2>3. Store!Query(s, ts)
    BY <1>3, <2>1, <2>2
       DEF Store!Query, Committeds, Workspaces, WorkspaceOf, Wrote, Touched, Depends
  <2> QED BY <1>2, <2>3 DEF Store!StoreNext
<1>7. CASE ~\A t \in ts : store[t].exists
  <2>1. seen' = [seen EXCEPT ![s] = Store!NoTables]
    BY <1>7, NoAnswer DEF ExecuteSelect
  <2>2. Store!Forgotten(s)
    BY <1>3, <2>1
       DEF Store!Forgotten, Committeds, Workspaces, WorkspaceOf, Wrote, Touched, Depends
  <2> QED BY <2>2 DEF Store!StoreNext
<1> QED BY <1>6, <1>7

(* The statements that change no table: what a client has seen is forgotten ... *)
LEMMA ForgottenIsAbstract ==
    ASSUME NEW s \in Owner, seen' = [seen EXCEPT ![s] = <<>>], UNCHANGED <<store, held, undo>>
    PROVE  Store!StoreNext
<1>1. seen' = [seen EXCEPT ![s] = Store!NoTables]
  BY NoAnswer
<1>2. UNCHANGED <<Committeds, Workspaces, Touched>>
  BY SameContents DEF Touched, Depends
<1>3. Store!Forgotten(s)
  BY <1>1, <1>2 DEF Store!Forgotten, Committeds, Workspaces, WorkspaceOf, Wrote, Touched, Depends
<1> QED BY <1>3 DEF Store!StoreNext

(* ... a lock is granted ... *)
LEMMA GrantIsAbstract ==
    ASSUME TxInv, TxInv', NEW s \in Owner, LockGranted(s)
    PROVE  Store!StoreNext
<1>1. PICK t \in Table, m \in LockMode :
        held' = [held EXCEPT ![s][t] = m] /\ UNCHANGED <<store, undo, seen>>
  BY DEF LockGranted, Grant, TxInv, LocksInv, LocksTypeOK
<1>2. UNCHANGED <<Committeds, Workspaces>>
  BY <1>1, SameContents
<1>3. Touched' = [Touched EXCEPT ![s] = @ \cup {t}]
  <2>1. m # "none" /\ held \in [Owner -> [Table -> LockMode \cup {"none"}]]
    BY <1>1 DEF LockMode, TxInv, SessionType
  <2>2. held'[s][t] = m /\ \A v \in Table : v # t => held'[s][v] = held[s][v]
    BY <1>1, <2>1
  <2>3. \A p \in Owner : p # s => held'[p] = held[p]
    BY <1>1, <2>1
  <2>4. (Depends(s))' = Depends(s) \cup {t}
    BY <1>1, <2>1, <2>2 DEF Depends
  <2>5. \A p \in Owner : p # s => (Depends(p))' = Depends(p)
    BY <2>3 DEF Depends
  <2> QED BY <2>4, <2>5 DEF Touched
<1>4. ASSUME NEW d \in Owner \ {s}, t \in Wrote(d) PROVE FALSE
  <2>1. held'[d][t] = "EXCLUSIVE" /\ held'[s][t] # "none"
    <3>1. held[d][t] = "EXCLUSIVE"
      BY <1>1, <1>4 DEF Wrote, Writes, TxInv, Session, LogIsLocked
    <3>2. held \in [Owner -> [Table -> LockMode \cup {"none"}]]
      BY DEF TxInv, SessionType
    <3> QED BY <1>1, <3>1, <3>2 DEF LockMode
  <2>2. d \in owners'[t] /\ s \in owners'[t] /\ mode'[t] = "EXCLUSIVE"
    BY <1>1, <2>1 DEF TxInv, LedgerAgrees
  <2> QED BY <1>1, <2>2 DEF TxInv, LocksInv, LockExclusion
<1>5. \A d \in Owner \ {s} : t \notin DOMAIN Workspaces[d]
  BY <1>4 DEF Workspaces, WorkspaceOf
<1>6. Store!Touch(s, t)
  BY <1>1, <1>2, <1>3, <1>5
     DEF Store!Touch, Committeds, Workspaces, WorkspaceOf, Wrote, Touched, Depends
<1> QED BY <1>6 DEF Store!StoreNext

(* ... or released, by an owner with nothing left to undo. *)
LEMMA ReleaseIsAbstract ==
    ASSUME TxInv, NEW s \in Owner, NEW t \in Table, ReleaseLock(s, t)
    PROVE  Store!StoreNext
<1>1. pc[s] = "releasing" /\ held' = [held EXCEPT ![s][t] = "none"] /\ UNCHANGED <<store, undo, seen>>
  BY DEF ReleaseLock
<1>2. UNCHANGED <<Committeds, Workspaces>>
  BY <1>1, SameContents
<1>3. Touched' = [Touched EXCEPT ![s] = @ \ {t}]
  <2>1. held \in [Owner -> [Table -> LockMode \cup {"none"}]]
    BY DEF TxInv, SessionType
  <2>2. held'[s][t] = "none" /\ \A v \in Table : v # t => held'[s][v] = held[s][v]
    BY <1>1, <2>1
  <2>3. \A p \in Owner : p # s => held'[p] = held[p]
    BY <1>1, <2>1
  <2>4. (Depends(s))' = Depends(s) \ {t}
    BY <2>2 DEF Depends
  <2>5. \A p \in Owner : p # s => (Depends(p))' = Depends(p)
    BY <2>3 DEF Depends
  <2> QED BY <2>4, <2>5 DEF Touched
<1>4. t \notin DOMAIN Workspaces[s]
  <2>1. undo[s] = <<>>
    BY <1>1 DEF TxInv, Session, LogIsLocked
  <2> QED BY <2>1 DEF Workspaces, WorkspaceOf, Wrote, Writes
<1>5. Store!Forget(s, t)
  BY <1>1, <1>2, <1>3, <1>4
     DEF Store!Forget, Committeds, Workspaces, WorkspaceOf, Wrote, Touched, Depends
<1> QED BY <1>5 DEF Store!StoreNext

(* A CREATE TABLE locks nothing, and nobody has rows in a table that is not there. *)
LEMMA CreateTableIsAbstract ==
    ASSUME TxInv, BaseInv, BaseInv', Recoverable, NEW s \in Owner, NEW t \in Table, CreateTableNow(s, t)
    PROVE  UNCHANGED Store!storeVars
<1>1. store' = [store EXCEPT ![t] = CreateTable(store[t]).table] /\ UNCHANGED <<undo, held, seen>>
  BY DEF CreateTableNow
<1>2. CASE store[t].exists
  <2>1. store' = store
    BY <1>1, <1>2, DdlKeeps DEF BaseInv
  <2> QED BY <1>1, <2>1, AbstractStutter
<1>3. CASE ~store[t].exists
  <2>1. store'[t] = EmptyTable(TRUE) /\ \A v \in Table : v # t => store'[v] = store[v]
    BY <1>1, <1>3, DdlKeeps DEF BaseInv
  <2>2. RowsOf(store[t]) = {} /\ RowsOf(EmptyTable(TRUE)) = {}
    <3>1. UsedSlots(store[t]) = {} /\ UsedSlots(EmptyTable(TRUE)) = {}
      BY <1>3, EmptyTableIs DEF BaseInv, SoundTable, AbsentIsEmpty
    <3> QED BY <3>1 DEF RowsOf
  <2>3. ASSUME NEW v \in Table PROVE (RowsOf(store[v]))' = RowsOf(store[v])
    <3>1. (RowsOf(store[v]))' = RowsOf(store'[v])
      BY DEF RowsOf, UsedSlots
    <3> QED BY <2>1, <2>2, <3>1
  <2>4. \A p \in Owner, v \in Table : (Writes(p, v))' = Writes(p, v)
    BY <1>1 DEF Writes
  <2>5. \A v \in Table : (Writers(v))' = Writers(v)
    BY <2>4 DEF Writers
  <2>6. ASSUME NEW p \in Owner, NEW v \in Table, NEW r
        PROVE  (WasThere(p, v, r))' <=> WasThere(p, v, r)
    BY <1>1, <2>3 DEF WasThere, Mentions, Writes
  <2>7. \A v \in Table : (Committed(v))' = Committed(v)
    BY <2>3, <2>5, <2>6 DEF Committed, Writers
  <2>8. Committeds' = Committeds
    BY <2>7 DEF Committeds
  <2>9. Workspaces' = Workspaces
    BY <2>3, <2>4 DEF Workspaces, WorkspaceOf, Wrote
  <2> QED BY <1>1, <2>8, <2>9
          DEF Store!storeVars, Committeds, Workspaces, WorkspaceOf, Wrote
<1> QED BY <1>2, <1>3

LEMMA StoreStepIsAbstract ==
    ASSUME "create_index" \notin Statements, TxInv, BaseInv, StoreInv, [Next]_vars
    PROVE  [Store!StoreNext]_(Store!storeVars)
<1> USE DEF StoreInv
<1>0. TxInv' /\ BaseInv'
  BY InvStep, BaseStep
<1> DEFINE Abstract == Store!StoreNext \/ UNCHANGED Store!storeVars
<1>1. CASE UNCHANGED <<store, undo, held, seen>>
  BY <1>1, AbstractStutter
<1>2. ASSUME NEW s \in Owner, End(s) \/ LoadEnds(s) PROVE Abstract
  <2>1. undo' = [undo EXCEPT ![s] = <<>>] /\ UNCHANGED <<store, held, seen>>
    BY <1>2 DEF End, LoadEnds
  <2> QED BY <1>0, <2>1, CommitIsAbstract
<1>3. ASSUME NEW s \in Owner, NEW t \in Table, CreateTableNow(s, t) PROVE Abstract
  BY <1>0, <1>3, CreateTableIsAbstract
<1>4. ASSUME NEW s \in Owner, ExecuteInsert(s) PROVE Abstract
  <2>1. pc[s] = "ready" /\ stmt[s].kind = "insert" /\ stmt[s].kind # "select" /\ UNCHANGED <<held, seen>>
    BY <1>4 DEF ExecuteInsert
  <2>2. stmt[s].arg \in Row /\ TheTable(s) \in Table /\ held[s][TheTable(s)] = "EXCLUSIVE"
    BY <2>1, WorkingTable, WorksExclusively DEF BaseInv, ArgumentFits
  <2>3. Inserted(s, TheTable(s), stmt[s].arg)
    BY <1>4, <2>1, <2>2, InsertStep DEF ExecuteInsert
  <2>4. PICK t \in Table, r \in Row : held[s][t] = "EXCLUSIVE" /\ Inserted(s, t, r)
    BY <2>2, <2>3 DEF Inserted
  <2> QED BY <1>0, <2>1, <2>4, InsertedIsAbstract
<1>5. ASSUME NEW s \in Owner, NEW r \in Row, LoadRow(s, r) PROVE Abstract
  <2>1. pc[s] = "ready" /\ stmt[s].kind # "select" /\ UNCHANGED <<held, seen>>
    BY <1>5 DEF LoadRow, Loads
  <2>2. TheTable(s) \in Table /\ held[s][TheTable(s)] = "EXCLUSIVE"
    BY <2>1, WorkingTable, WorksExclusively
  <2>3. Inserted(s, TheTable(s), r)
    BY <1>5, <2>1, <2>2, InsertStep DEF LoadRow
  <2>4. PICK t \in Table : held[s][t] = "EXCLUSIVE" /\ Inserted(s, t, r)
    BY <2>2, <2>3 DEF Inserted
  <2> QED BY <1>0, <2>1, <2>4, InsertedIsAbstract
<1>6. ASSUME NEW s \in Owner, ExecuteDeleteWhere(s) PROVE Abstract
  <2>1. pc[s] = "ready" /\ stmt[s].kind # "select" /\ UNCHANGED <<held, seen>>
    BY <1>6 DEF ExecuteDeleteWhere
  <2>2. TheTable(s) \in Table /\ held[s][TheTable(s)] = "EXCLUSIVE"
    BY <2>1, WorkingTable, WorksExclusively
  <2>3. Deleted(s, TheTable(s))
    BY <1>6, DeleteStep
  <2>4. PICK t \in Table : held[s][t] = "EXCLUSIVE" /\ Deleted(s, t)
    BY <2>2, <2>3 DEF Deleted
  <2> QED BY <1>0, <2>1, <2>4, DeletedIsAbstract
<1>7. ASSUME NEW s \in Owner, ExecuteDdl(s) PROVE Abstract
  <2>0. PICK t \in Table :
          /\ held[s][t] = "EXCLUSIVE" /\ undo[s] = <<>> /\ undo' = undo
          /\ store' = [store EXCEPT ![t] = IF store[t].exists THEN EmptyTable(FALSE) ELSE store[t]]
    <3> DEFINE v == TheTable(s)
    <3>1. /\ v \in Table /\ held[s][v] = "EXCLUSIVE" /\ undo[s] = <<>> /\ undo' = undo
          /\ store' = [store EXCEPT ![v] = IF store[v].exists THEN EmptyTable(FALSE) ELSE store[v]]
      BY <1>7, DdlEffect
    <3> HIDE DEF v
    <3> QED BY <3>1
  <2>1. PICK U : store' = [store EXCEPT ![t] = U]
    BY <2>0
  <2>2. undo' = [undo EXCEPT ![s] = <<>>]
    BY <2>0 DEF BaseInv
  <2>3. OneWrite(s, t, <<>>, U)
    BY <2>0, <2>1, <2>2 DEF OneWrite, SaysTheSame
  <2>4. UNCHANGED <<held, seen>>
    BY <1>7 DEF ExecuteDdl
  <2> QED BY <1>0, <2>0, <2>3, <2>4, AutoCommitIsAbstract
<1>8. ASSUME NEW s \in Owner, UndoStep(s) PROVE Abstract
  <2>0. PICK t \in Table, u \in Seq(LogEntry) : \E U :
              /\ OneWrite(s, t, u, U)
              /\ OnTable(undo[s], t)
              /\ \A r : Before(undo[s], t, store[t], r) <=> Before(u, t, U, r)
    BY <1>8, UndoWrites
  <2>1. PICK U :
              /\ OneWrite(s, t, u, U)
              /\ OnTable(undo[s], t)
              /\ \A r : Before(undo[s], t, store[t], r) <=> Before(u, t, U, r)
    BY <2>0
  <2>2. UNCHANGED <<held, seen>>
    BY <1>8 DEF UndoStep
  <2> QED BY <1>0, <2>1, <2>2, WriteIsAbstract
<1>9. ASSUME NEW s \in Owner,
             StatementEnds(s) \/ \E kind \in Statements : \E ask \in Requests(kind) :
                 Prepare(s, kind, ask[1], ask[2])
      PROVE  Abstract
  <2>1. seen' = [seen EXCEPT ![s] = <<>>] /\ UNCHANGED <<store, held, undo>>
    BY <1>9 DEF StatementEnds, Prepare
  <2> QED BY <2>1, ForgottenIsAbstract
<1>10. ASSUME NEW s \in Owner, LockGranted(s) PROVE Abstract
  BY <1>0, <1>10, GrantIsAbstract
<1>11. ASSUME NEW s \in Owner, NEW t \in Table, ReleaseLock(s, t) PROVE Abstract
  BY <1>11, ReleaseIsAbstract
<1>12. ASSUME NEW s \in Owner, ExecuteSelect(s) PROVE Abstract
  BY <1>12, QueryIsAbstract
<1>13. ASSUME NEW s \in Owner,
              \/ Begin(s) \/ Abandon(s) \/ SkipLock(s) \/ RequestLock(s) \/ LockWaits(s)
              \/ LockTimedOut(s) \/ AllLocked(s) \/ UndoEnds(s) \/ LockExpires(s)
       PROVE  Abstract
  <2>1. UNCHANGED <<store, undo, held, seen>>
    BY <1>13 DEF Begin, Abandon, SkipLock, RequestLock, LockWaits, LockTimedOut, AllLocked,
                 UndoEnds, LockExpires, sessionVars
  <2> QED BY <2>1, AbstractStutter
<1>14. CASE UNCHANGED vars
  BY <1>1, <1>14 DEF vars, sessionVars
<1>15. ASSUME NEW s \in Owner, ClientStep(s) \/ ProcessorStep(s) \/ LockExpires(s) PROVE Abstract
  <2> HIDE DEF Abstract
  <2>1. CASE ClientStep(s)
    BY <1>2, <1>3, <1>9, <1>13, <2>1 DEF ClientStep
  <2>2. CASE ProcessorStep(s)
    BY <1>2, <1>4, <1>5, <1>6, <1>7, <1>8, <1>9, <1>10, <1>11, <1>12, <1>13, <2>2 DEF ProcessorStep
  <2> QED BY <1>13, <1>15, <2>1, <2>2
<1> QED BY <1>14, <1>15 DEF Next

LEMMA StoreInitIsAbstract == Init => Store!StoreInit
<1> SUFFICES ASSUME Init PROVE Store!StoreInit
  OBVIOUS
<1>1. BaseInv
  BY BaseInitially
<1>2. \A s \in Owner : undo[s] = <<>> /\ Depends(s) = {}
  BY DEF Init, Depends
<1>3. \A s \in Owner : Wrote(s) = {} /\ Workspaces[s] = Store!NoTables
  BY <1>1, <1>2, EmptyLogSaysNothing
<1>4. ASSUME NEW t \in Table PROVE Committed(t) \in SUBSET Row
  <2>1. Writers(t) = {}
    BY <1>3 DEF Writers, Wrote
  <2> QED BY <1>1, <2>1 DEF Committed, BaseInv, TableType, RowsOf, UsedSlots
<1>5. Committeds \in [Table -> Store!Contents]
  BY <1>4 DEF Committeds, Store!Contents
<1>6. Workspaces = [s \in Owner |-> Store!NoTables]
  BY <1>3 DEF Workspaces
<1>7. Touched = [s \in Owner |-> {}]
  BY <1>2 DEF Touched
<1>8. seen = [s \in Owner |-> Store!NoTables]
  BY NoAnswer DEF Init
<1> QED
  BY <1>5, <1>6, <1>7, <1>8
     DEF Store!StoreInit, Committeds, Workspaces, WorkspaceOf, Wrote, Touched, Depends

(* Strict two-phase locking with an undo log over shared tables gives each client what
   ADR 0004 and ADR 0005 promise: a transaction becomes visible as a whole or not at
   all, a query is answered from committed rows and from its own writes, and nothing
   that a transaction has touched changes under it. *)
THEOREM TxImplementsAtomicStore ==
    ASSUME "create_index" \notin Statements, ~DeletesOwnInserts
    PROVE  Spec => ImplementsAtomicStore
<1>1. TxInv /\ BaseInv /\ StoreInv /\ [Next]_vars => [Store!StoreNext]_(Store!storeVars)
  BY StoreStepIsAbstract
<1>2. Spec => Store!StoreSpec
  BY <1>1, StoreInitIsAbstract, StoreInvariant, PTL DEF Spec, Store!StoreSpec
<1> QED BY <1>2 DEF ImplementsAtomicStore

===============================================================================
