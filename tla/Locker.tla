------------------------------- MODULE Locker -------------------------------
(***************************************************************************)
(* The distributed lock of src/src/services/locker: LockBuilder            *)
(* (locker_builder.ts) and LockerService (locker.service.ts), for ONE key. *)
(*                                                                         *)
(* A caller is one call of LockerService.withLock or runWithLock.  Each    *)
(* call builds its own LockBuilder with a random 128-bit owner, so callers *)
(* and owners are identified here.  Redis executes a command atomically:   *)
(* SET..NX, the two Lua scripts and DEL are one step each.  Time is        *)
(* discrete; a lease lasts Ttl ticks and a callback any number of them,    *)
(* because nothing in the code bounds or renews it.  The locals of a call  *)
(* that is over (attempts, pending) are reset.                             *)
(***************************************************************************)
EXTENDS Naturals

CONSTANTS
    Callers,      \* calls of the service that compete for the key
    Runners,      \* those made through runWithLock (the others use withLock)
    NoOwner,      \* the key does not exist in Redis
    Ttl,          \* options.ttl, in ticks
    RetryCount    \* options.retryCount of the withLock calls

ASSUME LockerAssumption ==
    /\ Runners \subseteq Callers
    /\ NoOwner \notin Callers
    /\ Ttl \in Nat \ {0}
    /\ RetryCount \in Nat \ {0}

VARIABLES
    holder,       \* the value stored under the key
    remaining,    \* ticks until Redis expires the key (PTTL)
    pc,           \* where each caller is
    attempts,     \* attemptsDone of acquire()
    pending,      \* what the callback produced, while `finally` releases
    outcome,      \* what the call returned or threw
    age,          \* observer: ticks since this caller's SET or last extend
    evicted,      \* observer: this caller's key was deleted by forceRelease
    intruder      \* observer: another callback started during this one

lockVars == <<holder, remaining, pc, attempts, pending, outcome, age,
              evicted, intruder>>

Results == {"value", "null", "error"}

Outcomes == {"none", "value", "callbackError", "notAcquired", "lockNotOwned"}

Phases == {"idle", "acquiring", "callback", "releasing", "done", "crashed"}

(* A caller between a successful SET and the end of its release.           *)
Active(c) == pc[c] \in {"callback", "releasing"}

LockerTypeOK ==
    /\ holder \in Callers \cup {NoOwner}
    /\ remaining \in 0..Ttl
    /\ pc \in [Callers -> Phases]
    /\ attempts \in [Callers -> 0..(RetryCount - 1)]
    /\ pending \in [Callers -> Results]
    /\ outcome \in [Callers -> Outcomes]
    /\ age \in [Callers -> 0..Ttl]
    /\ evicted \in [Callers -> BOOLEAN]
    /\ intruder \in [Callers -> BOOLEAN]

LockerInit ==
    /\ holder = NoOwner
    /\ remaining = 0
    /\ pc = [c \in Callers |-> "idle"]
    /\ attempts = [c \in Callers |-> 0]
    /\ pending = [c \in Callers |-> "value"]
    /\ outcome = [c \in Callers |-> "none"]
    /\ age = [c \in Callers |-> 0]
    /\ evicted = [c \in Callers |-> FALSE]
    /\ intruder = [c \in Callers |-> FALSE]

-----------------------------------------------------------------------------
(* createLock and the entry of acquire().                                  *)
Call(c) ==
    /\ pc[c] = "idle"
    /\ pc' = [pc EXCEPT ![c] = "acquiring"]
    /\ UNCHANGED <<holder, remaining, attempts, pending, outcome, age,
                   evicted, intruder>>

(* Variant: SET without NX takes the key from its owner.                   *)
SaveWithoutNX(c) ==
    /\ pc[c] = "acquiring"
    /\ holder' = c
    /\ remaining' = Ttl
    /\ pc' = [pc EXCEPT ![c] = "callback"]
    /\ attempts' = [attempts EXCEPT ![c] = 0]
    /\ age' = [age EXCEPT ![c] = 0]
    /\ intruder' = [d \in Callers |-> intruder[d] \/ (d # c /\ Active(d))]
    /\ UNCHANGED <<pending, outcome, evicted>>

(* save() returned OK: the key did not exist and now carries this owner.   *)
SaveOk(c) ==
    /\ pc[c] = "acquiring"
    /\ holder = NoOwner
    /\ holder' = c
    /\ remaining' = Ttl
    /\ pc' = [pc EXCEPT ![c] = "callback"]
    /\ attempts' = [attempts EXCEPT ![c] = 0]
    /\ age' = [age EXCEPT ![c] = 0]
    /\ intruder' = [d \in Callers |-> intruder[d] \/ (d # c /\ Active(d))]
    /\ UNCHANGED <<pending, outcome, evicted>>

(* save() found the key: a withLock call counts the attempt and gives up   *)
(* after RetryCount of them; runWithLock passes no options to acquire(),   *)
(* so retryCount is infinite and it sleeps and tries again.                *)
SaveBusy(c) ==
    /\ pc[c] = "acquiring"
    /\ holder # NoOwner
    /\ c \notin Runners
    /\ IF attempts[c] + 1 = RetryCount
       THEN /\ pc' = [pc EXCEPT ![c] = "done"]
            /\ attempts' = [attempts EXCEPT ![c] = 0]
            /\ outcome' = [outcome EXCEPT ![c] = "notAcquired"]
       ELSE /\ attempts' = [attempts EXCEPT ![c] = @ + 1]
            /\ UNCHANGED <<pc, outcome>>
    /\ UNCHANGED <<holder, remaining, pending, age, evicted, intruder>>

(* The callback resolves (with null or with another value) or throws.      *)
CallbackReturns(c, r) ==
    /\ pc[c] = "callback"
    /\ pending' = [pending EXCEPT ![c] = r]
    /\ pc' = [pc EXCEPT ![c] = "releasing"]
    /\ UNCHANGED <<holder, remaining, attempts, outcome, age, evicted,
                   intruder>>

(* extend(): the Lua script renews the lease of its owner and of nobody    *)
(* else; otherwise LockNotOwnedError makes the callback throw.             *)
Extend(c) ==
    /\ pc[c] = "callback"
    /\ IF holder = c
       THEN /\ remaining' = Ttl
            /\ age' = [age EXCEPT ![c] = 0]
            /\ UNCHANGED <<pc, pending>>
       ELSE /\ pc' = [pc EXCEPT ![c] = "releasing"]
            /\ pending' = [pending EXCEPT ![c] = "error"]
            /\ UNCHANGED <<remaining, age>>
    /\ UNCHANGED <<holder, attempts, outcome, evicted, intruder>>

(* What the call reports when its release succeeded: runWithLock takes a   *)
(* null result for a lock it could not acquire.                            *)
Reported(c) ==
    IF pending[c] = "error" THEN "callbackError"
    ELSE IF pending[c] = "null" /\ c \in Runners THEN "notAcquired"
    ELSE "value"

(* Variant: DEL without comparing the owner.                               *)
ReleaseUnchecked(c) ==
    /\ pc[c] = "releasing"
    /\ pc' = [pc EXCEPT ![c] = "done"]
    /\ holder' = NoOwner
    /\ remaining' = 0
    /\ outcome' = [outcome EXCEPT ![c] = Reported(c)]
    /\ pending' = [pending EXCEPT ![c] = "value"]
    /\ UNCHANGED <<attempts, age, evicted, intruder>>

(* release() in the `finally` block: compare-and-delete.  When the key is  *)
(* gone or has another owner it throws LockNotOwnedError, which replaces   *)
(* whatever the callback produced.                                         *)
Release(c) ==
    /\ pc[c] = "releasing"
    /\ pc' = [pc EXCEPT ![c] = "done"]
    /\ IF holder = c
       THEN /\ holder' = NoOwner
            /\ remaining' = 0
            /\ outcome' = [outcome EXCEPT ![c] = Reported(c)]
       ELSE /\ outcome' = [outcome EXCEPT ![c] = "lockNotOwned"]
            /\ UNCHANGED <<holder, remaining>>
    /\ pending' = [pending EXCEPT ![c] = "value"]
    /\ UNCHANGED <<attempts, age, evicted, intruder>>

(* LockerService.forceRelease: DEL whatever the owner.                     *)
ForceRelease ==
    /\ holder # NoOwner
    /\ holder' = NoOwner
    /\ remaining' = 0
    /\ evicted' = [evicted EXCEPT ![holder] = TRUE]
    /\ UNCHANGED <<pc, attempts, pending, outcome, age, intruder>>

(* The process of an active caller dies: its key stays until it expires.   *)
Crash(c) ==
    /\ Active(c)
    /\ pc' = [pc EXCEPT ![c] = "crashed"]
    /\ pending' = [pending EXCEPT ![c] = "value"]
    /\ UNCHANGED <<holder, remaining, attempts, outcome, age, evicted,
                   intruder>>

(* Variant: the key is stored without PX, so it never expires.             *)
TickNoExpiry ==
    /\ remaining > 0
    /\ remaining' = remaining - 1
    /\ age' = [c \in Callers |->
                  IF Active(c) /\ age[c] < Ttl THEN age[c] + 1 ELSE age[c]]
    /\ UNCHANGED <<holder, pc, attempts, pending, outcome, evicted, intruder>>

(* One tick of the clock; Redis drops the key when its lease is over.      *)
Tick ==
    /\ remaining > 0
    /\ remaining' = remaining - 1
    /\ holder' = IF remaining = 1 THEN NoOwner ELSE holder
    /\ age' = [c \in Callers |->
                  IF Active(c) /\ age[c] < Ttl THEN age[c] + 1 ELSE age[c]]
    /\ UNCHANGED <<pc, attempts, pending, outcome, evicted, intruder>>

LockerNext ==
    \/ \E c \in Callers :
          \/ Call(c)
          \/ SaveOk(c)
          \/ SaveBusy(c)
          \/ Extend(c)
          \/ Release(c)
          \/ Crash(c)
          \/ \E r \in Results : CallbackReturns(c, r)
    \/ ForceRelease
    \/ Tick

(* Fairness: a pending Redis command is executed, a retry timer fires, a   *)
(* callback settles (every await of the callers has a transport timeout)   *)
(* and the clock advances.  Starting a call, extending, forcing a release  *)
(* and crashing are never obligatory.                                      *)
LockerFairness ==
    /\ WF_lockVars(Tick)
    /\ \A c \in Callers :
          /\ WF_lockVars(SaveOk(c))
          /\ WF_lockVars(SaveBusy(c))
          /\ WF_lockVars(\E r \in Results : CallbackReturns(c, r))
          /\ WF_lockVars(Release(c))

LockerSpec == LockerInit /\ [][LockerNext]_lockVars

LockerFairSpec == LockerSpec /\ LockerFairness

-----------------------------------------------------------------------------
(* A lease that was lost while its owner was still using it.               *)
LeaseLost(c) == age[c] = Ttl \/ evicted[c]

(* Mutual exclusion, as far as a lock with a lease can give it: two        *)
(* callbacks for one key overlap only after the lease of one of them ran   *)
(* out or was force-released.  (save() uses NX, release() compares owners, *)
(* extend() renews the owner's lease only.)                                *)
MutexWithinLease ==
    \A c, d \in Callers :
        c # d /\ Active(c) /\ Active(d) => LeaseLost(c) \/ LeaseLost(d)

(* A call that reports its callback's own result or error ran a callback   *)
(* during which no other callback was started: release() would have thrown *)
(* LockNotOwnedError otherwise, whatever expired, was extended or forced.  *)
ReportedMeansNoIntruder ==
    \A c \in Callers :
        outcome[c] \in {"value", "callbackError"} => ~intruder[c]

(* LockNotOwnedError is thrown only at a caller that really lost its       *)
(* lease: nobody else's release, extend or retry can cause it.             *)
NoSpuriousLoss ==
    \A c \in Callers : outcome[c] = "lockNotOwned" => LeaseLost(c)

(* The key of an owner disappears only by that owner's release, at the end *)
(* of its lease, or by forceRelease; and it never passes directly from one *)
(* owner to another.                                                       *)
OnlyOwnerReleases ==
    [][ holder # NoOwner /\ holder' # holder =>
          /\ holder' = NoOwner
          /\ \/ pc[holder] = "releasing" /\ pc'[holder] = "done"
             \/ remaining = 1 /\ pc' = pc
             \/ evicted'[holder] ]_lockVars

(* Nobody waits forever: a call that started to acquire returns, throws or *)
(* dies, although holders may crash with the key in Redis and runWithLock  *)
(* retries without a limit.                                                *)
EveryCallEnds ==
    \A c \in Callers : pc[c] = "acquiring" ~> pc[c] \in {"done", "crashed"}
=============================================================================
