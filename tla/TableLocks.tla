------------------------------ MODULE TableLocks ------------------------------
(***************************************************************************)
(* The lock manager of engine/transactions/locks.py: one shared/exclusive  *)
(* lock per table, held by owners, with upgrade and with a deadline on     *)
(* every acquire instead of deadlock detection (ADR 0005).                 *)
(*                                                                         *)
(* Each method of TableLock runs under the lock of its Condition, so one   *)
(* action here is one passage through that critical section.  An owner is  *)
(* the `owner: object` of the code; its calls are sequential, so it has at *)
(* most one acquire in progress.  LockManager creates a TableLock at the   *)
(* first acquire, under _creation_lock; a lock that does not exist yet     *)
(* behaves as a free one.                                                  *)
(***************************************************************************)
EXTENDS Naturals, FiniteSets

CONSTANTS Owner,    \* the owners: a transaction, or a processor in autocommit
          Table     \* the table names

VARIABLES mode,     \* TableLock._mode, "FREE" for None
          owners,   \* TableLock._owners
          phase,    \* where the owner is in TableLock.acquire
          request,  \* the arguments of the acquire in progress
          expired   \* its deadline has passed

lockVars == <<mode, owners, phase, request, expired>>

LockMode == {"SHARED", "EXCLUSIVE"}

(* "running": not inside acquire; "trying": about to evaluate the condition
   of the while loop; "waiting": inside Condition.wait. *)
Phase == {"running", "trying", "waiting"}

NoRequest == [mode |-> "none"]

(* Types of the variables; an owner inside acquire has a request. *)
LocksTypeOK ==
    /\ mode \in [Table -> LockMode \cup {"FREE"}]
    /\ owners \in [Table -> SUBSET Owner]
    /\ phase \in [Owner -> Phase]
    /\ request \in [Owner -> [table : Table, mode : LockMode] \cup {NoRequest}]
    /\ expired \in [Owner -> BOOLEAN]
    /\ \A o \in Owner : phase[o] = "running" <=> request[o] = NoRequest

LocksInit ==
    /\ mode = [t \in Table |-> "FREE"]
    /\ owners = [t \in Table |-> {}]
    /\ phase = [o \in Owner |-> "running"]
    /\ request = [o \in Owner |-> NoRequest]
    /\ expired = [o \in Owner |-> FALSE]

-------------------------------------------------------------------------------
(* TableLock._try_acquire_locked: re-entry by a holder, upgrade by the only
   reader, and first acquisition of a free or shared lock. *)

AlreadyCovers(o, t, m) ==
    /\ o \in owners[t]
    /\ m = "SHARED" \/ mode[t] = "EXCLUSIVE"

(* Variant: an upgrade that does not look for other readers. *)
CanUpgradeAmongReaders(o, t, m) ==
    /\ m = "EXCLUSIVE"
    /\ mode[t] = "SHARED"
    /\ o \in owners[t]

CanUpgrade(o, t, m) ==
    /\ m = "EXCLUSIVE"
    /\ mode[t] = "SHARED"
    /\ owners[t] = {o}

CanJoin(o, t, m) ==
    /\ o \notin owners[t]
    /\ mode[t] = "FREE" \/ (mode[t] = "SHARED" /\ m = "SHARED")

Grantable(o, t, m) ==
    AlreadyCovers(o, t, m) \/ CanUpgrade(o, t, m) \/ CanJoin(o, t, m)

(* The mode of the lock once the request has been granted. *)
GrantedMode(o, t, m) == IF AlreadyCovers(o, t, m) THEN mode[t] ELSE m

-------------------------------------------------------------------------------
(* LockManager.acquire enters TableLock.acquire: the deadline is computed and
   the loop starts. *)
Acquire(o, t, m) ==
    /\ phase[o] = "running"
    /\ phase' = [phase EXCEPT ![o] = "trying"]
    /\ request' = [request EXCEPT ![o] = [table |-> t, mode |-> m]]
    /\ expired' = [expired EXCEPT ![o] = FALSE]
    /\ UNCHANGED <<mode, owners>>

(* acquire ends, by returning or by raising. *)
Return(o) ==
    /\ phase' = [phase EXCEPT ![o] = "running"]
    /\ request' = [request EXCEPT ![o] = NoRequest]
    /\ expired' = [expired EXCEPT ![o] = FALSE]

(* _try_acquire_locked returns True and acquire returns. *)
Grant(o) ==
    LET t == request[o].table
        m == request[o].mode
    IN  /\ phase[o] = "trying"
        /\ Grantable(o, t, m)
        /\ owners' = [owners EXCEPT ![t] = @ \cup {o}]
        /\ mode' = [mode EXCEPT ![t] = GrantedMode(o, t, m)]
        /\ Return(o)

Refused(o) ==
    /\ phase[o] = "trying"
    /\ ~Grantable(o, request[o].table, request[o].mode)

(* remaining > 0: Condition.wait. *)
Wait(o) ==
    /\ Refused(o)
    /\ ~expired[o]
    /\ phase' = [phase EXCEPT ![o] = "waiting"]
    /\ UNCHANGED <<mode, owners, request, expired>>

(* Variant: a timed-out upgrade also loses the SHARED hold. *)
TimeOutDropsHold(o) ==
    /\ Refused(o)
    /\ expired[o]
    /\ Return(o)
    /\ owners' = [owners EXCEPT ![request[o].table] = @ \ {o}]
    /\ UNCHANGED mode

(* remaining <= 0: LockTimeoutError. The lock is tried once more after the
   deadline, so an answer that arrives together with it is not lost. *)
TimeOut(o) ==
    /\ Refused(o)
    /\ expired[o]
    /\ Return(o)
    /\ UNCHANGED <<mode, owners>>

(* Variant: wait() without a timeout. *)
ExpireAsleep(o) ==
    /\ phase[o] # "running"
    /\ ~expired[o]
    /\ expired' = [expired EXCEPT ![o] = TRUE]
    /\ UNCHANGED <<mode, owners, phase, request>>

(* The deadline passes; a waiting owner leaves Condition.wait. *)
Expire(o) ==
    /\ phase[o] # "running"
    /\ ~expired[o]
    /\ expired' = [expired EXCEPT ![o] = TRUE]
    /\ phase' = [phase EXCEPT ![o] = "trying"]
    /\ UNCHANGED <<mode, owners, request>>

(* Variant: release notifies only when it frees the lock. *)
NotifiedIfFree(t) ==
    [o \in Owner |-> IF phase[o] = "waiting" /\ request[o].table = t /\ owners'[t] = {}
                     THEN "trying" ELSE phase[o]]

(* notify_all: everyone waiting on the lock of t goes back to the loop. *)
Notified(t) ==
    [o \in Owner |-> IF phase[o] = "waiting" /\ request[o].table = t
                     THEN "trying" ELSE phase[o]]

(* TableLock.release. A release by somebody who is not an owner is legal: it
   is what _release_autocommit does after an aborted transaction. *)
Release(o, t) ==
    /\ phase[o] = "running"
    /\ owners' = [owners EXCEPT ![t] = @ \ {o}]
    /\ mode' = [mode EXCEPT ![t] = IF owners[t] \ {o} = {} THEN "FREE" ELSE @]
    /\ phase' = Notified(t)
    /\ UNCHANGED <<request, expired>>

LocksNext ==
    \E o \in Owner :
        \/ \E t \in Table, m \in LockMode : Acquire(o, t, m)
        \/ Grant(o)
        \/ Wait(o)
        \/ TimeOut(o)
        \/ Expire(o)
        \/ \E t \in Table : Release(o, t)

LocksSpec == LocksInit /\ [][LocksNext]_lockVars

-------------------------------------------------------------------------------
(* A table lock is free exactly when nobody owns it, and an exclusive lock has
   one owner: what TableLock keeps true across joins, upgrades and releases in
   any order. *)
LockExclusion ==
    \A t \in Table :
        /\ mode[t] = "FREE" <=> owners[t] = {}
        /\ mode[t] = "EXCLUSIVE" => \A o1, o2 \in owners[t] : o1 = o2

(* No lost wake-up: nobody sleeps in Condition.wait while the lock it asks for
   could be given to it. It depends on release() notifying whenever it makes a
   request grantable, including the upgrade of the last remaining reader. *)
NoLostWakeup ==
    \A o \in Owner :
        phase[o] = "waiting" =>
            ~Grantable(o, request[o].table, request[o].mode)

(* A hold is never taken away: an owner leaves the lock only by its own
   release, never while it is inside acquire (an upgrade keeps the SHARED hold
   it started from), and an exclusive lock passes to another owner only
   through the free state. *)
HoldsAreKept ==
    [][\A t \in Table :
         /\ \A o \in owners[t] \ owners'[t] : phase[o] = "running"
         /\ mode[t] = "EXCLUSIVE" => owners'[t] \subseteq owners[t]]_lockVars

===============================================================================
