------------------------------- MODULE Lockup -------------------------------
(***************************************************************************)
(* The part of Osmosis' x/lockup module that the vault uses, seen from the *)
(* vault (the sender of every message): the vault's locks of base tokens,  *)
(* and the counter of lock ids that it shares with the whole chain.  It is *)
(* modelled from the messages the vault sends and the replies it reads.    *)
(*                                                                         *)
(* A lock is found by its duration when tokens are added to it, by its id  *)
(* otherwise.  Unlocking or force unlocking a part of a lock first splits  *)
(* that part off under a new id; the whole lock keeps its id.              *)
(***************************************************************************)
EXTENDS Integers, Functions

VARIABLES
  locks,       \* a map from lock id to lock
  lastLockId   \* the id of the last lock on the whole chain

lockupVars == <<locks, lastLockId>>

NotUnlocking == -1

Lock == [amount : Nat, duration : Nat, endTime : Nat \cup {NotUnlocking}]

(* A table of locks whose ids have all been issued.                        *)
IsLockup(map, lastId) ==
  /\ lastId \in Nat
  /\ DOMAIN map \subseteq 1..lastId
  /\ map \in [DOMAIN map -> Lock]

LockupTypeOK == IsLockup(locks, lastLockId)

LockupInit ==
  /\ locks = [id \in {} |-> 0]
  /\ lastLockId = 0

IsUnlocking(id) == locks[id].endTime # NotUnlocking

UnlockingLocks == {id \in DOMAIN locks : IsUnlocking(id)}

NewLockId == lastLockId + 1

WithLock(id, lock) ==
  [i \in DOMAIN locks \cup {id} |-> IF i = id THEN lock ELSE locks[i]]

WithoutLock(id) == Restrict(locks, DOMAIN locks \ {id})

(* The locks that MsgLockTokens adds to: there is at most one.             *)
LocksToAddTo(duration) ==
  {id \in DOMAIN locks : ~IsUnlocking(id) /\ locks[id].duration = duration}

(* MsgLockTokens; the id of the lock is the answer the reply handler gets. *)
LockTokens(duration, amount, id) ==
  \/ /\ id \in LocksToAddTo(duration)
     /\ locks' = [locks EXCEPT ![id].amount = @ + amount]
     /\ UNCHANGED lastLockId
  \/ /\ LocksToAddTo(duration) = {}
     /\ id = NewLockId
     /\ locks' = WithLock(id, [amount |-> amount, duration |-> duration,
                               endTime |-> NotUnlocking])
     /\ lastLockId' = id

CanBeginUnlocking(id, amount) ==
  /\ id \in DOMAIN locks
  /\ ~IsUnlocking(id)
  /\ amount \in 1..locks[id].amount

(* MsgBeginUnlocking: the tokens are released at endTime.                  *)
BeginUnlocking(id, amount, endTime) ==
  /\ CanBeginUnlocking(id, amount)
  /\ \/ /\ amount < locks[id].amount
        /\ lastLockId' = NewLockId
        /\ locks' = [WithLock(NewLockId, [amount |-> amount,
                                          duration |-> locks[id].duration,
                                          endTime |-> endTime])
                       EXCEPT ![id].amount = @ - amount]
     \/ /\ amount = locks[id].amount
        /\ locks' = [locks EXCEPT ![id].endTime = endTime]
        /\ UNCHANGED lastLockId

CanForceUnlock(id, amount) ==
  /\ id \in DOMAIN locks
  /\ amount \in 1..locks[id].amount

(* MsgForceUnlock: the tokens go to the vault at once.  The id of the part *)
(* that is split off is used up.                                           *)
ForceUnlock(id, amount) ==
  /\ CanForceUnlock(id, amount)
  /\ \/ /\ amount < locks[id].amount
        /\ locks' = [locks EXCEPT ![id].amount = @ - amount]
        /\ lastLockId' = NewLockId
     \/ /\ amount = locks[id].amount
        /\ locks' = WithoutLock(id)
        /\ UNCHANGED lastLockId

IsMatured(id, now) == IsUnlocking(id) /\ locks[id].endTime <= now

(* The end of a block returns a matured lock to its owner.                 *)
ReturnLock(id, now) ==
  /\ id \in DOMAIN locks
  /\ IsMatured(id, now)
  /\ locks' = WithoutLock(id)
  /\ UNCHANGED lastLockId

(* Somebody else's lock.                                                   *)
ForeignLock == lastLockId' = NewLockId /\ UNCHANGED locks
============================================================================
